----------------------------- MODULE PthreadSem -----------------------------
(***************************************************************************)
(* The POSIX semaphores of threads/semaphore/sem_wait_post.c, on top of    *)
(* the scheduler.  A call runs with preemption disabled, so it is one step *)
(* up to the point where it blocks.  A negative value counts the waiters.  *)
(***************************************************************************)
EXTENDS PosixSched

CONSTANTS
  Main, UserPolicies,   \* of PthreadSched
  Sem, NoSem,
  InitValue,            \* the value sem_init gives every semaphore
  MaxValue              \* bound on the value: more posts are not made

ASSUME SemAssumption ==
  /\ NoSem \notin Sem
  /\ MaxValue \in Nat
  /\ InitValue \in 0 .. MaxValue

VARIABLES
  sched, new, blocked, enabled,   \* of PthreadSched
  sem,       \* sem_value and sem_waiters of each semaphore
  semwait,   \* the threads with THREAD_WS_SEMWAIT
  inside     \* the semaphore whose wait each thread blocked in, until it returns

S == INSTANCE PthreadSched WITH Handoffs <- FALSE, PolicyChanges <- {}

semVars == <<sem, semwait, inside>>
vars == <<sched, new, blocked, enabled, sem, semwait, inside>>

SemState ==
  [value : - Cardinality(Thread) .. MaxValue, waiters : Seq(Thread)]

TypeOK ==
  /\ S!TypeOK
  /\ sem \in [Sem -> SemState]
  /\ semwait \subseteq Thread
  /\ inside \in [Thread -> Sem \cup {NoSem}]

\* sem_init
Init ==
  /\ S!Init
  /\ sem = [x \in Sem |-> [value |-> InitValue, waiters |-> <<>>]]
  /\ semwait = {}
  /\ inside = [t \in Thread |-> NoSem]

Running == sched.cur \in Thread /\ inside[sched.cur] = NoSem

\* The body of a call: preemption is disabled.
InCall == S!Critical /\ Running

\* The value is decremented first; a negative result counts the waiters.
oskit_sem_wait(x) ==
  LET t == sched.cur
      v == sem[x].value - 1
  IN  /\ InCall
      /\ IF v < 0
         THEN /\ sem' = [sem EXCEPT ![x] = [value |-> v, waiters |-> Append(@.waiters, t)]]
              /\ semwait' = semwait \cup {t}
              /\ inside' = [inside EXCEPT ![t] = x]
              /\ S!Block
         ELSE /\ sem' = [sem EXCEPT ![x].value = v]
              /\ UNCHANGED <<sched, new, blocked, enabled, semwait, inside>>

\* The end of a wait that blocked, when the thread runs again.
WaitReturn ==
  /\ S!Critical
  /\ inside[sched.cur] # NoSem
  /\ semwait' = semwait \ {sched.cur}
  /\ inside' = [inside EXCEPT ![sched.cur] = NoSem]
  /\ UNCHANGED <<sched, new, blocked, enabled, sem>>

\* Mutant: the value may become negative.
Mut_sem_trywait(x) ==
  /\ InCall
  /\ sem[x].value >= 0
  /\ sem' = [sem EXCEPT ![x].value = @ - 1]
  /\ UNCHANGED <<sched, new, blocked, enabled, semwait, inside>>

\* It fails with EAGAIN, and changes nothing, when there is no unit.
oskit_sem_trywait(x) ==
  /\ InCall
  /\ sem[x].value >= 1
  /\ sem' = [sem EXCEPT ![x].value = @ - 1]
  /\ UNCHANGED <<sched, new, blocked, enabled, semwait, inside>>

\* Mutant: somebody is woken only if the value becomes negative.
Mut_Wakes(v) == v < 0

\* Whether a post to the new value v wakes somebody.
Wakes(v) == v <= 0

oskit_sem_post(x) ==
  LET v == sem[x].value + 1
      t == pthread_dequeue_fromQ(sched, sem[x].waiters)
  IN  /\ InCall
      /\ v <= MaxValue
      /\ IF Wakes(v)
         THEN /\ sem' = [sem EXCEPT ![x] = [value |-> v, waiters |-> queue_remove(@.waiters, t)]]
              /\ blocked' = blocked \ {t}
              /\ sched' = pthread_sched_setrunnable(sched, t)
         ELSE /\ sem' = [sem EXCEPT ![x].value = v]
              /\ UNCHANGED <<sched, blocked>>
      /\ UNCHANGED <<new, enabled, semwait, inside>>

\* oskit_sem_wait_cancel, called by pthread_cancel.
oskit_sem_wait_cancel(t) ==
  /\ InCall
  /\ t \in semwait
  /\ semwait' = semwait \ {t}
  /\ blocked' = blocked \ {t}
  /\ sched' = pthread_sched_setrunnable(sched, t)
  /\ UNCHANGED <<new, enabled, sem, inside>>

CallStep(step) ==
  /\ Running
  /\ step
  /\ UNCHANGED semVars

InterruptStep(step) == step /\ UNCHANGED semVars

Next ==
  \/ \E x \in Sem : oskit_sem_wait(x)
  \/ WaitReturn
  \/ \E x \in Sem : oskit_sem_trywait(x)
  \/ \E x \in Sem : oskit_sem_post(x)
  \/ \E t \in Thread, policy \in UserPolicies, p \in Prio : CallStep(S!Create(t, policy, p))
  \/ CallStep(S!Enter)
  \/ CallStep(S!Leave)
  \/ CallStep(S!sched_yield)
  \/ InterruptStep(S!Tick)
  \/ InterruptStep(S!IdlePoll)

Spec == Init /\ [][Next]_vars

\* The same program if its threads also cancel each other in oskit_sem_wait.
CancelNext == Next \/ \E t \in Thread : oskit_sem_wait_cancel(t)

CancelSpec == Init /\ [][CancelNext]_vars
-----------------------------------------------------------------------------
(* Refinement                                                              *)

\* A semaphore does what SemSpec promises, with the threads queued as those who
\* wait: a post gives its unit to a waiter if there is one, and trywait never
\* takes what a waiter was given.
A == INSTANCE SemSpec
       WITH units <- [x \in Sem |-> IF sem[x].value > 0 THEN sem[x].value ELSE 0],
            wants <- [x \in Sem |-> Range(sem[x].waiters)]

ImplementsSem == A!Spec
-----------------------------------------------------------------------------
(* Safety                                                                  *)

\* The value of a semaphore and its queue agree, whatever the order of waits and
\* posts: a negative value is the number of threads queued, and with a value of
\* zero or more nobody is.  A thread is queued exactly while it is blocked in the
\* wait, so a post never wakes a thread that does not wait.
WaitersAccounted ==
  /\ TypeOK
  /\ \A x \in Sem :
       /\ IsInjective(sem[x].waiters)
       /\ Len(sem[x].waiters) = (IF sem[x].value < 0 THEN - sem[x].value ELSE 0)
  /\ \A t \in Thread, x \in Sem :
       t \in Range(sem[x].waiters) <=> inside[t] = x /\ t \in blocked

\* The assertion in posix_sched_setrunnable (sched_posix.c:194) holds: nobody
\* makes a thread runnable that is on the run queue.
NeverRunnableTwice == ~sched.panic
=============================================================================
