---------------------------- MODULE PthreadCond -----------------------------
(***************************************************************************)
(* The condition variables of threads/pthread_cond.c, on top of the        *)
(* mutexes and the scheduler.                                              *)
(*                                                                         *)
(* A wait queues the caller, unlocks the mutex and blocks, with preemption *)
(* and interrupts disabled from the queueing to the block.  It is ended by *)
(* a signal, a broadcast, the thread's condition timer or a cancelation,  *)
(* whichever comes first; the thread then runs again with interrupts       *)
(* disabled, looks at its flags, and locks the mutex like any other        *)
(* caller.                                                                 *)
(***************************************************************************)
EXTENDS PosixSched, SequencesExt

CONSTANTS
  Main, UserPolicies,         \* of PthreadSched
  Mutex, NoMutex, SetPrios,   \* of PthreadMutex
  Cond, NoCond,
  Cancels                     \* whether threads cancel or signal waiting threads

ASSUME CondAssumption == NoCond \notin Cond /\ Cancels \in BOOLEAN

VARIABLES
  sched, new, blocked, enabled,   \* of PthreadSched
  mutex, waiting, panic,          \* of PthreadMutex
  cond,   \* the waiters of each condition variable
  wait    \* the state of each thread's wait

M == INSTANCE PthreadMutex
       WITH Inherit <- {}, Recursive <- {}, MaxCount <- 1, Errors <- FALSE

condVars == <<cond, wait>>
mutexVars == <<mutex, waiting, panic>>
vars == <<sched, new, blocked, enabled, mutex, waiting, panic, cond, wait>>

\* Fields of the thread: condwait and timedout are the bits THREAD_WS_CONDWAIT
\* and THREAD_WS_TIMEDOUT of waitflags, waitcond has its name, and timer tells
\* that condtimer is armed.  Of the call: at is where it is (not waiting, on the
\* queue and without the mutex but not yet blocked, blocked until the thread looks
\* at its flags, about to lock the mutex again), cond, mutex and timed are its
\* arguments, and error is what it will return.  by records what ended the wait;
\* the code has no such field.
WaitState ==
  [condwait : BOOLEAN, timedout : BOOLEAN, timer : BOOLEAN, waitcond : Cond \cup {NoCond},
   at : {"out", "queued", "wait", "relock"}, timed : BOOLEAN,
   cond : Cond \cup {NoCond}, mutex : Mutex \cup {NoMutex},
   error : {"0", "ETIMEDOUT"}, by : {"none", "signal", "timeout", "cancel"}]

TypeOK ==
  /\ M!TypeOK
  /\ cond \in [Cond -> Seq(Thread)]
  /\ wait \in [Thread -> WaitState]

\* pthread_cond_init
Init ==
  /\ M!Init
  /\ cond = [c \in Cond |-> <<>>]
  /\ wait = [t \in Thread |->
               [condwait |-> FALSE, timedout |-> FALSE, timer |-> FALSE, waitcond |-> NoCond,
                at |-> "out", timed |-> FALSE, cond |-> NoCond, mutex |-> NoMutex, error |-> "0", by |-> "none"]]

\* Where the running thread is.
At(place) == sched.cur \in Thread /\ wait[sched.cur].at = place

\* Interrupts are disabled from the queueing to the block, and when the thread
\* comes back from its wait.
InterruptsEnabled == ~At("queued") /\ ~At("wait")

InCall == M!InCall /\ At("out")

-----------------------------------------------------------------------------
(* Waiting                                                                 *)

\* The caller is on the queue of the condition.
Queued(t, c, m, timed) ==
  /\ cond' = [cond EXCEPT ![c] = Append(@, t)]
  /\ wait' = [wait EXCEPT ![t].at = "queued", ![t].timed = timed, ![t].cond = c, ![t].mutex = m]

\* Mutant: the unlock enables preemption, and so yields to the waiter it woke.
Mut_CondWait(c, m, timed) ==
  /\ InCall
  /\ mutex[m].holder = sched.cur
  /\ Queued(sched.cur, c, m, timed)
  /\ mutex' = [mutex EXCEPT ![m] = M!Granted(m)]
  /\ blocked' = blocked \ M!Grantee(m)
  /\ sched' = enable_preemption(M!GrantSched(m))
  /\ UNCHANGED <<new, enabled, waiting, panic>>

\* pthread_cond_wait, pthread_cond_wait_safe and pthread_cond_timedwait up to the
\* return of pthread_mutex_unlock, which was called with preemption disabled and
\* leaves it so.
CondWait(c, m, timed) ==
  /\ InCall
  /\ mutex[m].holder = sched.cur
  /\ Queued(sched.cur, c, m, timed)
  /\ mutex' = [mutex EXCEPT ![m] = M!Granted(m)]
  /\ blocked' = blocked \ M!Grantee(m)
  /\ sched' = M!GrantSched(m)
  /\ UNCHANGED <<new, enabled, waiting, panic>>

\* Mutant: the timer is not started.
Mut_StartWait(w) == [w EXCEPT !.at = "wait", !.condwait = TRUE, !.waitcond = w.cond]

\* The wait begins: the timer, if it is timed, the flag and the condition.
StartWait(w) ==
  [w EXCEPT !.at = "wait", !.condwait = TRUE, !.waitcond = w.cond, !.timer = w.timed \/ @]

\* The rest of the call up to the point where the thread blocks.
CondBlock ==
  /\ At("queued")
  /\ wait' = [wait EXCEPT ![sched.cur] = StartWait(@)]
  /\ M!S!Block
  /\ UNCHANGED <<mutex, waiting, panic, cond>>

\* pthread_cond_timedwait whose time has passed: the mutex is released all the
\* same, and taken again.
TimedwaitPast(m) ==
  LET t == sched.cur
  IN  /\ InCall
      /\ mutex[m].holder = t
      /\ mutex' = [mutex EXCEPT ![m] = M!Granted(m)]
      /\ wait' = [wait EXCEPT ![t].at = "relock", ![t].mutex = m, ![t].error = "ETIMEDOUT"]
      /\ blocked' = blocked \ M!Grantee(m)
      /\ sched' = M!GrantSched(m)
      /\ UNCHANGED <<new, enabled, waiting, panic, cond>>

\* Mutant: the timer is not disarmed.
Mut_EndWait(w) ==
  IF w.timed /\ w.timedout
  THEN [w EXCEPT !.at = "relock", !.timedout = FALSE, !.error = "ETIMEDOUT"]
  ELSE [w EXCEPT !.at = "relock"]

\* A wait has ended: a timed one takes note of a timeout, or disarms the timer.
EndWait(w) ==
  CASE w.timed /\ w.timedout ->
         [w EXCEPT !.at = "relock", !.timedout = FALSE, !.error = "ETIMEDOUT"]
    [] w.timed /\ ~w.timedout -> [w EXCEPT !.at = "relock", !.timer = FALSE]
    [] ~w.timed -> [w EXCEPT !.at = "relock"]

\* The thread runs again after its wait.
WaitResume ==
  /\ At("wait")
  /\ wait' = [wait EXCEPT ![sched.cur] = EndWait(@)]
  /\ UNCHANGED <<sched, new, blocked, enabled, mutex, waiting, panic, cond>>

\* pthread_mutex_lock at the end of the wait.
Relock ==
  /\ At("relock") /\ M!InCall
  /\ M!pthread_mutex_lock(wait[sched.cur].mutex)
  /\ wait' = [wait EXCEPT ![sched.cur] = [@ EXCEPT !.at = "out", !.timed = FALSE,
                                            !.cond = NoCond, !.mutex = NoMutex, !.error = "0", !.by = "none"]]
  /\ UNCHANGED cond

-----------------------------------------------------------------------------
(* Ending a wait                                                           *)

\* What a waker leaves in the state of a thread it has taken off the queue.
Woken(t, by) == [wait[t] EXCEPT !.condwait = FALSE, !.waitcond = NoCond, !.by = by]

pthread_cond_signal(c) ==
  LET t == pthread_dequeue_fromQ(sched, cond[c])
  IN  /\ InCall
      /\ cond[c] # <<>>
      /\ cond' = [cond EXCEPT ![c] = queue_remove(@, t)]
      /\ wait' = [wait EXCEPT ![t] = Woken(t, "signal")]
      /\ M!S!WakeupByThread(t)
      /\ UNCHANGED mutexVars

pthread_cond_broadcast(c) ==
  /\ InCall
  /\ cond[c] # <<>>
  /\ cond' = [cond EXCEPT ![c] = <<>>]
  /\ wait' = [t \in Thread |-> IF t \in Range(cond[c]) THEN Woken(t, "signal") ELSE wait[t]]
  /\ blocked' = blocked \ Range(cond[c])
  /\ sched' = FoldLeft(pthread_sched_setrunnable, sched, cond[c])
  /\ UNCHANGED <<new, enabled, mutex, waiting, panic>>

\* The part of pthread_cancel and pthread_kill_locked that concerns a thread in
\* a condition wait.
CancelWait(t) ==
  LET c == wait[t].waitcond
  IN  /\ Cancels
      /\ InCall
      /\ wait[t].condwait
      /\ IF t \in Range(cond[c])
         THEN /\ cond' = [cond EXCEPT ![c] = queue_remove(@, t)]
              /\ wait' = [wait EXCEPT ![t] = Woken(t, "cancel")]
              /\ M!S!WakeupByThread(t)
         ELSE UNCHANGED <<cond, wait, sched, new, blocked, enabled>>
      /\ UNCHANGED mutexVars

\* Mutant: a timer that expires after the wait has ended sets TIMEDOUT as well.
Mut_timeout_Late(t) ==
  /\ InterruptsEnabled
  /\ wait[t].timer
  /\ IF wait[t].condwait
     THEN /\ cond' = [cond EXCEPT ![wait[t].waitcond] = queue_remove(@, t)]
          /\ wait' = [wait EXCEPT ![t].timer = FALSE, ![t].timedout = TRUE,
                                  ![t].condwait = FALSE, ![t].by = "timeout"]
          /\ M!S!WakeupByInterrupt(t)
     ELSE /\ wait' = [wait EXCEPT ![t].timer = FALSE, ![t].timedout = TRUE]
          /\ UNCHANGED <<sched, new, blocked, enabled, cond>>
  /\ UNCHANGED mutexVars

\* Mutant: the thread is taken off the condition but not made runnable.
Mut_timeout_NoWakeup(t) ==
  /\ InterruptsEnabled
  /\ wait[t].timer
  /\ wait' = [wait EXCEPT ![t].timer = FALSE, ![t].timedout = wait[t].condwait,
                          ![t].condwait = FALSE]
  /\ cond' = [c \in Cond |-> SelectSeq(cond[c], LAMBDA u : u # t)]
  /\ UNCHANGED <<sched, new, blocked, enabled, mutex, waiting, panic>>

\* The condition timer of t expires, perhaps after the wait has ended.
pthread_condwait_timeout(t) ==
  /\ InterruptsEnabled
  /\ wait[t].timer
  /\ IF wait[t].condwait
     THEN /\ cond' = [cond EXCEPT ![wait[t].waitcond] = queue_remove(@, t)]
          /\ wait' = [wait EXCEPT ![t].timer = FALSE, ![t].timedout = TRUE,
                                  ![t].condwait = FALSE, ![t].by = "timeout"]
          /\ M!S!WakeupByInterrupt(t)
     ELSE /\ wait' = [wait EXCEPT ![t].timer = FALSE]
          /\ UNCHANGED <<sched, new, blocked, enabled, cond>>
  /\ UNCHANGED mutexVars

-----------------------------------------------------------------------------
(* What else the threads do, and the interrupts                            *)

\* A step of the mutexes or of the scheduler by a thread outside a wait.
CallStep(step) ==
  /\ At("out")
  /\ step
  /\ UNCHANGED condVars

\* Preemption is enabled for a moment before the mutex is locked again.
RelockStep(step) ==
  /\ At("relock")
  /\ step
  /\ UNCHANGED condVars

InterruptStep(step) ==
  /\ InterruptsEnabled
  /\ step
  /\ UNCHANGED condVars

Next ==
  \/ \E c \in Cond, m \in Mutex, timed \in BOOLEAN : CondWait(c, m, timed)
  \/ CondBlock
  \/ \E m \in Mutex : TimedwaitPast(m)
  \/ WaitResume
  \/ Relock
  \/ \E c \in Cond : pthread_cond_signal(c)
  \/ \E c \in Cond : pthread_cond_broadcast(c)
  \/ \E t \in Thread : CancelWait(t)
  \/ \E t \in Thread : pthread_condwait_timeout(t)
  \/ \E m \in Mutex : CallStep(M!pthread_mutex_lock(m))
  \/ CallStep(M!LockReturn)
  \/ \E m \in Mutex : CallStep(M!pthread_mutex_unlock(m))
  \/ \E t \in Thread, policy \in UserPolicies, p \in Prio :
       CallStep(M!ThreadStep(M!S!Create(t, policy, p)))
  \/ CallStep(M!ThreadStep(M!S!Enter))
  \/ CallStep(M!ThreadStep(M!S!Leave))
  \/ CallStep(M!ThreadStep(M!S!sched_yield))
  \/ \E t \in Thread, p \in SetPrios : CallStep(M!ThreadStep(M!S!oskit_pthread_setprio(t, p)))
  \/ RelockStep(M!ThreadStep(M!S!Enter))
  \/ RelockStep(M!ThreadStep(M!S!Leave))
  \/ InterruptStep(M!InterruptStep(M!S!Tick))
  \/ InterruptStep(M!InterruptStep(M!S!IdlePoll))

Spec == Init /\ [][Next]_vars

\* As for the mutexes: scheduling is fair, the steps inside a wait are taken, an
\* armed timer expires, no thread keeps preemption disabled for ever, and one
\* that has a mutex unlocks it if it gets to run.
Fairness ==
  /\ WF_vars(CondBlock)
  /\ WF_vars(WaitResume)
  /\ WF_vars(CallStep(M!LockReturn))
  /\ WF_vars(InterruptStep(M!InterruptStep(M!S!IdlePoll)))
  /\ SF_vars(InterruptStep(M!InterruptStep(M!S!Preemptible /\ M!S!Tick)))
  /\ \A t \in Thread :
       /\ SF_vars(pthread_condwait_timeout(t))
       /\ SF_vars(/\ sched.cur = t
                  /\ \/ CallStep(M!ThreadStep(M!S!Leave))
                     \/ RelockStep(M!ThreadStep(M!S!Leave)))
       /\ SF_vars(sched.cur = t /\ CallStep(M!ThreadStep(M!S!Enter)))
       /\ SF_vars(sched.cur = t /\ RelockStep(M!ThreadStep(M!S!Enter)))
       /\ SF_vars(sched.cur = t /\ Relock)
       /\ \A m \in Mutex : SF_vars(sched.cur = t /\ CallStep(M!pthread_mutex_unlock(m)))

FairSpec == Spec /\ Fairness
-----------------------------------------------------------------------------
(* Safety                                                                  *)

\* Every wait can be ended, and is ended once: a thread is queued, on the
\* condition of its waitcond and nowhere else, exactly as long as CONDWAIT is
\* set, and exactly then it is blocked in the wait; whoever takes it off the
\* queue (signal, broadcast, timer, cancel) also clears the flag and makes it
\* runnable.  Nobody comes between the release of the mutex and the block, not even
\* the thread that the mutex was handed to, so no signal finds a thread that is
\* queued and not blocked.  The scheduler and mutex bookkeeping survives it.
WaitsAccounted ==
  /\ TypeOK
  /\ M!S!RunqConsistent /\ M!S!EveryThreadAccounted
  /\ M!LockCallsAccounted /\ panic = "none"
  /\ \A c \in Cond : IsInjective(cond[c])
  /\ \A t \in Thread :
       LET w == wait[t]
       IN  /\ \A c \in Cond : t \in Range(cond[c]) <=>
                \/ w.condwait /\ w.waitcond = c
                \/ w.at = "queued" /\ w.cond = c
           /\ w.condwait <=> w.at = "wait" /\ t \in blocked
           /\ w.at = "queued" => sched.cur = t
           /\ w.at # "out" => waiting[t] = NoMutex

\* A timer belongs to one wait: when the call returns the timer is disarmed and
\* the timeout flag clear, so a late expiry cannot end a later wait.
NoStaleTimer ==
  \A t \in Thread : wait[t].at \in {"out", "relock"} => ~wait[t].timer /\ ~wait[t].timedout

\* A timed wait reports ETIMEDOUT if and only if the timer ended it: a thread
\* that was chosen by a signal does not report a timeout even if the timer
\* expires before it runs, so the signal is not lost.
TimeoutIsTruthful ==
  \A t \in Thread : wait[t].at = "relock" /\ wait[t].by # "none" =>
     (wait[t].error = "ETIMEDOUT" <=> wait[t].by = "timeout")

\* doc/pthread.tex:664 on pthread_cond_signal: "Wakeup the highest priority
\* thread waiting on a condition variable."  Exactly one thread stops waiting.
SignalWakesHighest ==
  [][\A c \in Cond : pthread_cond_signal(c) =>
       \E t \in Range(cond[c]) :
          /\ \A u \in Thread : wait'[u].condwait = (wait[u].condwait /\ u # t)
          /\ \A u \in Range(cond[c]) : sched.pri[u] <= sched.pri[t]]_vars
-----------------------------------------------------------------------------
(* Liveness                                                                *)

\* A thread whose wait was ended returns from it with the mutex.
EndedWaitReturns ==
  \A t \in Thread : wait[t].at = "wait" /\ ~wait[t].condwait
                      ~> wait[t].at = "out" /\ waiting[t] = NoMutex

\* A timed wait returns with the mutex, signalled or not.
TimedWaitReturns ==
  \A t \in Thread : wait[t].timed ~> wait[t].at = "out" /\ waiting[t] = NoMutex

\* Round robin stays fair to threads that come back from condition waits: a
\* thread on the run queue runs in the end.
ReadyRuns == M!S!ReadyRuns
=============================================================================
