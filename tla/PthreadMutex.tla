---------------------------- MODULE PthreadMutex ----------------------------
(***************************************************************************)
(* The mutexes of threads/pthread_mutex.c, on top of the scheduler.        *)
(*                                                                         *)
(* A call runs with preemption disabled, so it is one step up to the point *)
(* where it blocks.  A thread that blocks in pthread_mutex_lock is queued  *)
(* on the mutex; pthread_mutex_unlock gives the mutex directly to one of   *)
(* the waiters, which checks that it is the holder when it runs again.     *)
(* What the threads do besides, and the interrupts, are the steps of       *)
(* PthreadSched.                                                           *)
(***************************************************************************)
EXTENDS PosixSched

CONSTANTS
  Main, UserPolicies,   \* of PthreadSched
  Mutex,
  NoMutex,
  Inherit,      \* the mutexes made with PTHREAD_PRIO_INHERIT
  Recursive,    \* the mutexes of type PTHREAD_MUTEX_RECURSIVE
  MaxCount,     \* bound on the depth of recursive locking
  SetPrios,     \* the priorities the program sets after a thread's creation
  Errors        \* whether the program makes the calls the library panics on

ASSUME MutexAssumption ==
  /\ NoMutex \notin Mutex
  /\ Inherit \subseteq Mutex /\ Recursive \subseteq Mutex
  /\ MaxCount \in Nat \ {0}
  /\ SetPrios \subseteq Prio
  /\ Errors \in BOOLEAN

VARIABLES
  sched, new, blocked, enabled,   \* of PthreadSched
  mutex,      \* holder, count and waiters of each mutex
  waiting,    \* the mutex whose lock call each thread blocked in, until it returns
  panic       \* the complaint of pthread_mutex_panic, which stops the machine

S == INSTANCE PthreadSched WITH Handoffs <- FALSE, PolicyChanges <- {}

schedVars == <<sched, new, blocked, enabled>>
mutexVars == <<mutex, waiting, panic>>
vars == <<sched, new, blocked, enabled, mutex, waiting, panic>>

\* What pthread_mutex_panic says.  The first two are errors of the caller.
CallerErrors == {"recursive attempt", "wrong owner"}
InternalErrors == {"Bad queue", "Not the owner", "negative count", "non-zero count"}

MutexState ==
  [holder : Thread \cup {NoThread}, count : 0 .. MaxCount, waiters : Seq(Thread)]

TypeOK ==
  /\ S!TypeOK
  /\ mutex \in [Mutex -> MutexState]
  /\ waiting \in [Thread -> Mutex \cup {NoMutex}]
  /\ panic \in {"none"} \cup CallerErrors \cup InternalErrors

\* pthread_mutex_init
Init ==
  /\ S!Init
  /\ mutex = [m \in Mutex |-> [holder |-> NoThread, count |-> 0, waiters |-> <<>>]]
  /\ waiting = [t \in Thread |-> NoMutex]
  /\ panic = "none"

\* The running thread is in the middle of no pthread_mutex_lock.
Running == sched.cur \in Thread /\ waiting[sched.cur] = NoMutex

\* The body of a call: preemption is disabled.
InCall == panic = "none" /\ S!Critical /\ Running

Panic(complaint) ==
  /\ panic' = complaint
  /\ UNCHANGED <<sched, new, blocked, enabled, mutex, waiting>>

\* Grant a free mutex, or let the holder have it once more.
Take(m, t, count) ==
  /\ mutex' = [mutex EXCEPT ![m].holder = t, ![m].count = count]
  /\ UNCHANGED <<sched, new, blocked, enabled, waiting, panic>>

-----------------------------------------------------------------------------
(* pthread_mutex_lock                                                      *)

\* Mutant: the waiters stay in the order they came.
Mut_PriorityInsert(s, q, t) == Append(q, t)

\* The priority queue of a mutex that inherits: t goes in front of the first
\* waiter it outranks.
PriorityInsert(s, q, t) ==
  LET outranked == {i \in DOMAIN q : s.pri[t] > s.pri[q[i]]}
  IN  queue_enter_before(q, IF outranked = {} THEN Len(q) + 1 ELSE Min(outranked), t)

\* Mutant: the caller queues up and yields, which leaves it on the run queue.
Mut_LockBlock(m) ==
  /\ mutex' = [mutex EXCEPT ![m].waiters = Append(@, sched.cur)]
  /\ waiting' = [waiting EXCEPT ![sched.cur] = m]
  /\ blocked' = blocked \cup {sched.cur}
  /\ sched' = pthread_sched_reschedule(sched, "YIELD")
  /\ UNCHANGED <<new, enabled, panic>>

\* The blocking half: queue up and give up the processor, lending the holder
\* the priority if the mutex inherits.
LockBlock(m) ==
  LET t == sched.cur
      x == mutex[m]
      q == IF m \in Inherit THEN PriorityInsert(sched, x.waiters, t) ELSE Append(x.waiters, t)
  IN  /\ mutex' = [mutex EXCEPT ![m].waiters = q]
      /\ waiting' = [waiting EXCEPT ![t] = m]
      /\ IF m \in Inherit THEN S!PriorityTransferAndWait(x.holder) ELSE S!Block
      /\ UNCHANGED panic

\* What pthread_mutex_lock panics with, if it does.
LockComplaint(m) ==
  LET x == mutex[m]
  IN  CASE x.holder = sched.cur /\ m \notin Recursive -> "recursive attempt"
        [] x.holder \notin {NoThread, sched.cur} /\ sched.cur \in Range(x.waiters) -> "Bad queue"
        [] OTHER -> "none"

\* A free mutex is taken, the holder of a recursive one has it once more, and
\* any other caller blocks.
pthread_mutex_lock(m) ==
  /\ InCall
  /\ mutex[m].holder = sched.cur /\ m \in Recursive => mutex[m].count < MaxCount
  /\ LockComplaint(m) \in CallerErrors => Errors
  /\ IF LockComplaint(m) # "none"
     THEN Panic(LockComplaint(m))
     ELSE CASE mutex[m].holder = NoThread  -> Take(m, sched.cur, 1)
            [] mutex[m].holder = sched.cur -> Take(m, sched.cur, mutex[m].count + 1)
            [] OTHER                       -> LockBlock(m)

\* The end of a lock call that blocked, when the thread runs again.
LockReturn ==
  /\ panic = "none"
  /\ S!Critical
  /\ waiting[sched.cur] # NoMutex
  /\ IF mutex[waiting[sched.cur]].holder # sched.cur
     THEN Panic("Not the owner")
     ELSE /\ waiting' = [waiting EXCEPT ![sched.cur] = NoMutex]
          /\ UNCHANGED <<sched, new, blocked, enabled, mutex, panic>>

\* It fails with EBUSY, and changes nothing, when the mutex has a holder.
pthread_mutex_trylock(m) ==
  /\ InCall
  /\ mutex[m].holder = NoThread
  /\ Take(m, sched.cur, 1)

-----------------------------------------------------------------------------
(* pthread_mutex_unlock                                                    *)

\* The waiter an unlock grants the mutex to.
NextHolder(m) ==
  LET q == mutex[m].waiters
  IN  IF m \in Inherit THEN Head(q) ELSE pthread_dequeue_fromQ(sched, q)

\* Mutant: the count is not set for the next holder.
Mut_Granted_NoCount(m) ==
  LET q == mutex[m].waiters
  IN  IF q = <<>>
      THEN [holder |-> NoThread, count |-> 0, waiters |-> q]
      ELSE [holder |-> NextHolder(m), count |-> 0, waiters |-> queue_remove(q, NextHolder(m))]

\* Mutant: the mutex is freed and a waiter woken to compete for it.
Mut_Granted_NoHandoff(m) ==
  LET q == mutex[m].waiters
  IN  [holder |-> NoThread, count |-> 0,
       waiters |-> IF q = <<>> THEN q ELSE queue_remove(q, NextHolder(m))]

\* The mutex after the last unlock of the holder: free, or handed to a waiter.
Granted(m) ==
  LET q == mutex[m].waiters
  IN  IF q = <<>>
      THEN [holder |-> NoThread, count |-> 0, waiters |-> q]
      ELSE [holder |-> NextHolder(m), count |-> 1, waiters |-> queue_remove(q, NextHolder(m))]

\* The waiter that becomes runnable, if there is one.
Grantee(m) == IF mutex[m].waiters = <<>> THEN {} ELSE {NextHolder(m)}

\* The scheduler after it; the holder first gives back what it was lent.
GrantSched(m) ==
  IF mutex[m].waiters = <<>>
  THEN sched
  ELSE pthread_sched_setrunnable(
         IF m \in Inherit THEN pthread_sched_priority_transfer_undo(sched, sched.cur) ELSE sched,
         NextHolder(m))

Release(m) ==
  IF m \notin Inherit /\ sched.cur \in Range(mutex[m].waiters)
  THEN Panic("Bad queue")
  ELSE /\ mutex' = [mutex EXCEPT ![m] = Granted(m)]
       /\ blocked' = blocked \ Grantee(m)
       /\ sched' = GrantSched(m)
       /\ UNCHANGED <<new, enabled, waiting, panic>>

\* What pthread_mutex_unlock panics with, if it does.
UnlockComplaint(m) ==
  LET x == mutex[m]
  IN  CASE x.holder # sched.cur             -> "wrong owner"
        [] x.holder = sched.cur /\ x.count = 0 -> "negative count"
        [] x.holder = sched.cur /\ x.count > 1 /\ m \notin Recursive -> "non-zero count"
        [] OTHER -> "none"

pthread_mutex_unlock(m) ==
  /\ InCall
  /\ UnlockComplaint(m) \in CallerErrors => Errors
  /\ IF UnlockComplaint(m) # "none"
     THEN Panic(UnlockComplaint(m))
     ELSE IF mutex[m].count > 1
     THEN Take(m, sched.cur, mutex[m].count - 1)
     ELSE Release(m)

-----------------------------------------------------------------------------
(* What else the threads do, and the interrupts                            *)

\* A step of the scheduler model by the running thread.
ThreadStep(step) ==
  /\ panic = "none"
  /\ Running
  /\ step
  /\ UNCHANGED mutexVars

\* A step of it by an interrupt or by the idle thread.
InterruptStep(step) ==
  /\ panic = "none"
  /\ step
  /\ UNCHANGED mutexVars

Next ==
  \/ \E m \in Mutex : pthread_mutex_lock(m)
  \/ LockReturn
  \/ \E m \in Mutex : pthread_mutex_trylock(m)
  \/ \E m \in Mutex : pthread_mutex_unlock(m)
  \/ \E t \in Thread, policy \in UserPolicies, p \in Prio : ThreadStep(S!Create(t, policy, p))
  \/ ThreadStep(S!Enter)
  \/ ThreadStep(S!Leave)
  \/ ThreadStep(S!Block)
  \/ \E t \in Thread : waiting[t] = NoMutex /\ ThreadStep(S!WakeupByThread(t))
  \/ ThreadStep(S!sched_yield)
  \/ \E t \in Thread, p \in SetPrios : ThreadStep(S!oskit_pthread_setprio(t, p))
  \/ \E t \in Thread : waiting[t] = NoMutex /\ InterruptStep(S!WakeupByInterrupt(t))
  \/ InterruptStep(S!Tick)
  \/ InterruptStep(S!IdlePoll)

Spec == Init /\ [][Next]_vars

\* The scheduler is fair as in PthreadSched and a lock call that was granted the
\* mutex returns.  Of the program: a thread that has a mutex makes the unlock
\* call if it gets to run, and whatever else it blocks for happens.
Fairness ==
  /\ WF_vars(ThreadStep(S!Leave))
  /\ WF_vars(LockReturn)
  /\ WF_vars(InterruptStep(S!IdlePoll))
  /\ SF_vars(InterruptStep(S!Preemptible /\ S!Tick))
  /\ \A t \in Thread :
       /\ SF_vars(sched.cur = t /\ ThreadStep(S!Enter))
       /\ \A m \in Mutex : SF_vars(sched.cur = t /\ pthread_mutex_unlock(m))
       /\ WF_vars(waiting[t] = NoMutex /\ InterruptStep(S!WakeupByInterrupt(t)))

FairSpec == Spec /\ Fairness
-----------------------------------------------------------------------------
(* Refinement                                                              *)

\* A mutex does what MutexSpec promises, with the holder as the owner and the
\* threads queued as those that wait: direct handoff, never free with a waiter.
A == INSTANCE MutexSpec
       WITH owner <- [m \in Mutex |-> mutex[m].holder],
            wants <- [m \in Mutex |-> Range(mutex[m].waiters)]

ImplementsMutex == A!Spec

\* The mutex code uses the scheduler only through its operations, so whatever
\* holds of the scheduler holds of a program with mutexes.
ImplementsSched == S!Spec
-----------------------------------------------------------------------------
(* Safety                                                                  *)

\* The panics that guard the library's own bookkeeping are unreachable, even
\* if threads lock recursively or unlock what they do not hold: a waiter always
\* wakes up owning the mutex ("Unlock assures that this thread wakes up owning
\* the mutex"), and no queue holds the running thread.
NoInternalPanic == panic \notin InternalErrors

\* Every lock call that blocked is where it can be woken: it is queued, once,
\* on the one mutex it asks for, which has a holder, until that mutex is its
\* own, and then it is runnable.  A mutex that is free has no waiters.
LockCallsAccounted ==
  /\ TypeOK
  /\ \A m \in Mutex :
       /\ IsInjective(mutex[m].waiters)
       /\ mutex[m].holder = NoThread <=> mutex[m].count = 0
       /\ mutex[m].holder = NoThread => mutex[m].waiters = <<>>
       /\ \A t \in Range(mutex[m].waiters) :
            waiting[t] = m /\ t \in blocked /\ t # mutex[m].holder
  /\ \A t \in Thread : waiting[t] # NoMutex =>
       LET x == mutex[waiting[t]]
       IN  t \in Range(x.waiters) \/ (t = x.holder /\ t \notin blocked)

\* doc/pthread.tex:1061 on pthread_mutex_unlock: "If there other threads waiting
\* to acquire the mutex, the highest priority thread is woken up and granted the
\* mutex."
GrantsHighest ==
  [][\A m \in Mutex : mutex'[m].holder # mutex[m].holder /\ mutex[m].waiters # <<>> =>
       /\ mutex'[m].holder \in Range(mutex[m].waiters)
       /\ \A w \in Range(mutex[m].waiters) : sched.pri[w] <= sched.pri[mutex'[m].holder]]_vars

\* Among waiters of one priority the mutex is granted in the order they came.
GrantsInOrder ==
  [][\A m \in Mutex : mutex'[m].holder # mutex[m].holder =>
       \A i, j \in DOMAIN mutex[m].waiters :
          /\ mutex'[m].holder = mutex[m].waiters[j] /\ i < j
          => sched.pri[mutex[m].waiters[i]] # sched.pri[mutex[m].waiters[j]]]_vars

\* Priority inheritance: the holder of an inheriting mutex runs at no less than
\* the priority of any thread that waits for it.
HolderOutranksWaiters ==
  \A m \in Inherit : \A w \in Range(mutex[m].waiters) :
     sched.pri[w] <= sched.pri[mutex[m].holder]

\* A lent priority is given back: a thread runs above its own priority only
\* while it holds an inheriting mutex that a thread of that priority waits for.
LoanIsOwed ==
  \A t \in Thread : sched.pri[t] # sched.base[t] =>
     \E m \in Inherit : /\ mutex[m].holder = t
                       /\ \E w \in Range(mutex[m].waiters) : sched.pri[w] = sched.pri[t]

\* The comment at pthread_mutex.c:262: "if the current thread is not the first
\* on the list, then the thread holding the mutex already has already had it
\* priority bumped."
HolderAlreadyBumped ==
  [][\A m \in Inherit :
       /\ Len(mutex'[m].waiters) > Len(mutex[m].waiters)
       /\ mutex'[m].waiters[1] # sched.cur
       => sched.pri[mutex[m].holder] >= sched.pri[mutex[m].waiters[1]]]_vars
-----------------------------------------------------------------------------
(* Liveness                                                                *)

\* No lock call starves: among threads of one priority each one that blocks in
\* pthread_mutex_lock returns with the mutex, whatever the others do.
LockReturns ==
  \A t \in Thread : waiting[t] # NoMutex ~> waiting[t] = NoMutex
=============================================================================
