----------------------------- MODULE MutexSpec ------------------------------
(***************************************************************************)
(* What a mutex promises, without queues, scheduler or priorities: it has  *)
(* at most one owner, a caller that finds it owned waits, and the owner's  *)
(* last unlock passes it straight to a waiter if there is one, so that it  *)
(* is never free while somebody waits and nobody can slip in between.      *)
(***************************************************************************)
CONSTANTS Thread, NoThread, Mutex

VARIABLES
  owner,   \* the thread that has each mutex, or NoThread
  wants    \* the threads that wait for each mutex

vars == <<owner, wants>>

Init ==
  /\ owner = [m \in Mutex |-> NoThread]
  /\ wants = [m \in Mutex |-> {}]

Idles(t) == \A m \in Mutex : t \notin wants[m]

Acquire(t, m) ==
  /\ owner[m] = NoThread
  /\ Idles(t)
  /\ owner' = [owner EXCEPT ![m] = t]
  /\ UNCHANGED wants

Await(t, m) ==
  /\ owner[m] \in Thread \ {t}
  /\ Idles(t)
  /\ wants' = [wants EXCEPT ![m] = @ \cup {t}]
  /\ UNCHANGED owner

Release(m) ==
  /\ Idles(owner[m])
  /\ wants[m] = {}
  /\ owner' = [owner EXCEPT ![m] = NoThread]
  /\ UNCHANGED wants

HandOver(m, t) ==
  /\ Idles(owner[m])
  /\ t \in wants[m]
  /\ owner' = [owner EXCEPT ![m] = t]
  /\ wants' = [wants EXCEPT ![m] = @ \ {t}]

Next ==
  \E m \in Mutex :
    \/ Release(m)
    \/ \E t \in Thread : Acquire(t, m) \/ Await(t, m) \/ HandOver(m, t)

Spec == Init /\ [][Next]_vars
=============================================================================
