------------------------------ MODULE SemSpec -------------------------------
(***************************************************************************)
(* What a counting semaphore promises: a wait takes a unit or joins those  *)
(* who wait, a post gives its unit to one of them, or leaves it if nobody  *)
(* waits.  Units are left only while nobody waits.                         *)
(***************************************************************************)
EXTENDS Naturals

CONSTANTS Thread, Sem

VARIABLES
  units,   \* what is left in each semaphore
  wants    \* the threads that wait for a unit of it

vars == <<units, wants>>

Init ==
  /\ units \in [Sem -> Nat]
  /\ wants = [s \in Sem |-> {}]

Take(s) ==
  /\ units[s] > 0
  /\ units' = [units EXCEPT ![s] = @ - 1]
  /\ UNCHANGED wants

Join(s, t) ==
  /\ units[s] = 0
  /\ \A r \in Sem : t \notin wants[r]
  /\ wants' = [wants EXCEPT ![s] = @ \cup {t}]
  /\ UNCHANGED units

Leave(s) ==
  /\ wants[s] = {}
  /\ units' = [units EXCEPT ![s] = @ + 1]
  /\ UNCHANGED wants

Give(s, t) ==
  /\ t \in wants[s]
  /\ wants' = [wants EXCEPT ![s] = @ \ {t}]
  /\ UNCHANGED units

Next ==
  \E s \in Sem :
    \/ Take(s)
    \/ Leave(s)
    \/ \E t \in Thread : Join(s, t) \/ Give(s, t)

Spec == Init /\ [][Next]_vars
=============================================================================
