----------------------------- MODULE OsenvSleep -----------------------------
(***************************************************************************)
(* How device drivers sleep: the sleep records of threads/osenv_sleep.c    *)
(* and the process lock of threads/osenv_lock.c, on top of the mutexes and *)
(* the scheduler.                                                          *)
(*                                                                         *)
(* A thread that runs driver code has the process lock.  It initialises    *)
(* its sleep record, tells the device what to do, and calls osenv_sleep,   *)
(* which gives up the lock, blocks, and takes the lock again.  An          *)
(* interrupt handler, another thread or a cancelation ends the sleep by    *)
(* clearing the thread in the record.  osenv_sleep runs with interrupts    *)
(* disabled except while another thread has the processor.                 *)
(***************************************************************************)
EXTENDS PosixSched

CONSTANTS
  Main, UserPolicies,   \* of PthreadSched
  NoMutex,              \* of PthreadMutex
  ProcessLock,          \* threads_process_lock
  InitMasked,           \* whether drivers disable interrupts before they call
                        \* osenv_sleep_init, as tsleep does, or not, as sleep_on
  Cancels               \* whether threads cancel each other

ASSUME OsenvAssumption ==
  NoMutex # ProcessLock /\ InitMasked \in BOOLEAN /\ Cancels \in BOOLEAN

VARIABLES
  sched, new, blocked, enabled,   \* of PthreadSched
  mutex, waiting, panic,          \* of PthreadMutex
  owner,      \* threads_process_lock_owner
  sleep,      \* the sleep record and the place in the driver of each thread
  canceled    \* the threads with THREAD_CANCELED

M == INSTANCE PthreadMutex
       WITH Mutex <- {ProcessLock}, Inherit <- {}, Recursive <- {}, MaxCount <- 1,
            SetPrios <- {}, Errors <- FALSE

mutexVars == <<mutex, waiting, panic>>
osenvVars == <<owner, sleep, canceled>>
vars == <<sched, new, blocked, enabled, mutex, waiting, panic, owner, sleep, canceled>>

\* thread and status are data[1] and data[0] of the record, osenvsleep is the bit
\* THREAD_WS_OSENVSLEEP.  at is where the thread is: outside; in osenv_process_lock
\* before it has noted the owner, or in osenv_process_unlock after it has cleared
\* it; between osenv_sleep_init and osenv_sleep; or in osenv_sleep: at the head of
\* its loop, without the lock, blocked, and in the two halves of taking the lock
\* again.
SleepState ==
  [thread : Thread \cup {NoThread}, status : {"WAKEUP", "CANCELED"}, osenvsleep : BOOLEAN,
   at : {"out", "locking", "unlocking", "init", "loop", "release", "sleep", "relocking", "relock"}]

TypeOK ==
  /\ M!TypeOK
  /\ owner \in Thread \cup {NoThread}
  /\ sleep \in [Thread -> SleepState]
  /\ canceled \subseteq Thread

\* pthread_init_process_lock
Init ==
  /\ M!Init
  /\ owner = NoThread
  /\ sleep = [t \in Thread |->
                [thread |-> NoThread, status |-> "WAKEUP", osenvsleep |-> FALSE, at |-> "out"]]
  /\ canceled = {}

At(places) == sched.cur \in Thread /\ sleep[sched.cur].at \in places

\* Mutant: osenv_process_release leaves interrupts enabled.
Mut_InterruptsEnabled ==
  /\ ~At({"loop", "sleep", "relocking", "relock"})
  /\ ~(InitMasked /\ At({"init"}))

\* osenv_sleep disables interrupts, and the driver may have done so before.
InterruptsEnabled ==
  /\ ~At({"loop", "release", "sleep", "relocking", "relock"})
  /\ ~(InitMasked /\ At({"init"}))

\* A step within an osenv call that leaves the scheduler and the lock alone.
Quiet == UNCHANGED <<sched, new, blocked, enabled, mutex, waiting, panic>>

MoveTo(place) == sleep' = [sleep EXCEPT ![sched.cur].at = place]

-----------------------------------------------------------------------------
(* The process lock                                                        *)

\* osenv_process_lock by a thread that does not have the lock (it panics
\* otherwise), up to the return of pthread_mutex_lock.
osenv_process_lock ==
  /\ At({"out"})
  /\ owner # sched.cur
  /\ M!pthread_mutex_lock(ProcessLock)
  /\ MoveTo("locking")
  /\ UNCHANGED <<owner, canceled>>

\* Its last statement: preemption is enabled again by then.
SetOwner ==
  /\ At({"locking"}) /\ M!S!Preemptible
  /\ owner' = sched.cur
  /\ MoveTo("out")
  /\ Quiet /\ UNCHANGED canceled

\* Mutant: the owner is not cleared.
Mut_process_unlock ==
  /\ At({"out"}) /\ M!Running
  /\ owner = sched.cur
  /\ MoveTo("unlocking")
  /\ Quiet /\ UNCHANGED <<owner, canceled>>

\* osenv_process_unlock by the owner (it panics otherwise) clears the owner first,
\* with preemption as the caller has it.
osenv_process_unlock ==
  /\ At({"out"}) /\ M!Running
  /\ owner = sched.cur
  /\ owner' = NoThread
  /\ MoveTo("unlocking")
  /\ Quiet /\ UNCHANGED canceled

\* Then it calls pthread_mutex_unlock, which disables preemption for its body.
ProcessUnlock ==
  /\ At({"unlocking"})
  /\ M!pthread_mutex_unlock(ProcessLock)
  /\ MoveTo("out")
  /\ UNCHANGED <<owner, canceled>>

-----------------------------------------------------------------------------
(* Sleeping: drivers sleep with preemption enabled                         *)

osenv_sleep_init ==
  /\ At({"out"}) /\ M!Running /\ M!S!Preemptible
  /\ owner = sched.cur
  /\ sleep' = [sleep EXCEPT ![sched.cur].thread = sched.cur, ![sched.cur].status = "WAKEUP",
                            ![sched.cur].at = "init"]
  /\ Quiet /\ UNCHANGED <<owner, canceled>>

\* osenv_sleep up to its loop.  A thread that was woken already, or canceled, does
\* not sleep.
osenv_sleep ==
  /\ At({"init"})
  /\ MoveTo(IF sleep[sched.cur].thread = NoThread \/ sched.cur \in canceled
            THEN "out" ELSE "loop")
  /\ Quiet /\ UNCHANGED <<owner, canceled>>

\* The unlock may make a thread runnable, and does not yield: interrupts are
\* disabled.
osenv_process_release ==
  /\ owner' = NoThread
  /\ mutex' = [mutex EXCEPT ![ProcessLock] = M!Granted(ProcessLock)]
  /\ blocked' = blocked \ M!Grantee(ProcessLock)
  /\ sched' = M!GrantSched(ProcessLock)
  /\ UNCHANGED <<new, enabled, waiting, panic>>

\* The head of the loop: return when woken, else release the lock.
SleepRelease ==
  /\ At({"loop"})
  /\ IF sleep[sched.cur].thread = NoThread
     THEN MoveTo("out") /\ Quiet /\ UNCHANGED owner
     ELSE MoveTo("release") /\ osenv_process_release
  /\ UNCHANGED canceled

\* The thread says that it sleeps, and blocks.
SleepBlock ==
  /\ At({"release"})
  /\ sleep' = [sleep EXCEPT ![sched.cur].at = "sleep", ![sched.cur].osenvsleep = TRUE]
  /\ M!S!Block
  /\ UNCHANGED <<mutex, waiting, panic, owner, canceled>>

\* When it runs again it calls osenv_process_lock: pthread_mutex_lock disables
\* preemption,
SleepResume ==
  /\ At({"sleep"})
  /\ M!ThreadStep(M!S!Enter)
  /\ MoveTo("relocking")
  /\ UNCHANGED <<owner, canceled>>

\* takes the lock or waits for it,
SleepRelock ==
  /\ At({"relocking"})
  /\ M!pthread_mutex_lock(ProcessLock)
  /\ MoveTo("relock")
  /\ UNCHANGED <<owner, canceled>>

\* and once it has it, enables preemption, without a yield as interrupts are still
\* disabled; the thread notes the owner and goes on with the loop.
SleepLocked ==
  /\ At({"relock"})
  /\ M!ThreadStep(M!S!LeaveMasked)
  /\ owner' = sched.cur
  /\ MoveTo("loop")
  /\ UNCHANGED canceled

-----------------------------------------------------------------------------
(* Waking                                                                  *)

\* A wakeup of a record that names no thread returns immediately.
Wakeable(t) == sleep[t].at \notin {"out", "locking", "unlocking"} /\ sleep[t].thread # NoThread

\* What a wakeup leaves in the record.
Record(t, status) ==
  [sleep[t] EXCEPT !.thread = NoThread, !.status = status, !.osenvsleep = FALSE]

\* osenv_wakeup by an interrupt handler or by a thread: if the thread should run
\* now, the soft interrupt yields to it unless preemption is disabled.
osenv_wakeup(t) ==
  /\ InterruptsEnabled
  /\ Wakeable(t)
  /\ sleep' = [sleep EXCEPT ![t] = Record(t, "WAKEUP")]
  /\ blocked' = blocked \ {t}
  /\ LET s == pthread_sched_setrunnable(sched, t)
     IN  sched' = IF M!S!Preemptible /\ CurPrio(s) < posix_runq_maxprio(s)
                  THEN pthread_sched_reschedule(s, "YIELD")
                  ELSE s
  /\ UNCHANGED <<new, enabled, mutex, waiting, panic, owner, canceled>>

\* Mutant: the thread is woken wherever it is.
Mut_Interrupts(t) == sleep[t].at = "sleep"

\* Whether a cancelation finds the thread in a sleep.
Interrupts(t) == sleep[t].osenvsleep

\* pthread_cancel of another thread, as far as a sleep is concerned.
pthread_cancel(t) ==
  /\ Cancels
  /\ At({"out"}) /\ M!InCall
  /\ t \in Thread \ (canceled \cup new \cup {sched.cur})
  /\ canceled' = canceled \cup {t}
  /\ IF Interrupts(t)
     THEN /\ sleep' = [sleep EXCEPT ![t] = Record(t, "CANCELED")]
          /\ blocked' = blocked \ {t}
          /\ sched' = pthread_sched_setrunnable(sched, t)
     ELSE UNCHANGED <<sleep, blocked, sched>>
  /\ UNCHANGED <<new, enabled, mutex, waiting, panic, owner>>

-----------------------------------------------------------------------------
(* What else the threads do, and the interrupts                            *)

\* A step of the scheduler by a thread at one of the places.
CallStep(places, step) ==
  /\ At(places)
  /\ M!ThreadStep(step)
  /\ UNCHANGED osenvVars

Enter == CallStep({"out", "unlocking"}, M!S!Enter)
Leave == CallStep({"out", "locking"}, M!S!Leave)

InterruptStep(step) ==
  /\ InterruptsEnabled
  /\ M!InterruptStep(step)
  /\ UNCHANGED osenvVars

LockReturn == M!LockReturn /\ UNCHANGED osenvVars

Next ==
  \/ osenv_process_lock
  \/ LockReturn
  \/ SetOwner
  \/ osenv_process_unlock
  \/ ProcessUnlock
  \/ osenv_sleep_init
  \/ osenv_sleep
  \/ SleepRelease
  \/ SleepBlock
  \/ SleepResume
  \/ SleepRelock
  \/ SleepLocked
  \/ \E t \in Thread : osenv_wakeup(t)
  \/ \E t \in Thread : pthread_cancel(t)
  \/ \E t \in Thread, policy \in UserPolicies, p \in Prio :
       CallStep({"out"}, M!S!Create(t, policy, p))
  \/ Enter
  \/ Leave
  \/ CallStep({"out"}, M!S!sched_yield)
  \/ InterruptStep(M!S!Tick)
  \/ InterruptStep(M!S!IdlePoll)

Spec == Init /\ [][Next]_vars

\* Scheduling is fair, the steps inside an osenv call are taken, no thread keeps
\* preemption disabled for ever, and one that has the process lock gives it back
\* if it gets to run.
Fairness ==
  /\ WF_vars(osenv_sleep)
  /\ WF_vars(SleepRelease)
  /\ WF_vars(SleepBlock)
  /\ WF_vars(SleepResume)
  /\ WF_vars(SleepRelock)
  /\ WF_vars(LockReturn)
  /\ WF_vars(SleepLocked)
  /\ WF_vars(ProcessUnlock)
  /\ WF_vars(InterruptStep(M!S!IdlePoll))
  /\ SF_vars(InterruptStep(M!S!Preemptible /\ M!S!Tick))
  /\ \A t \in Thread :
       /\ SF_vars(sched.cur = t /\ SetOwner)
       /\ SF_vars(sched.cur = t /\ Leave)
       /\ SF_vars(sched.cur = t /\ Enter)
       /\ SF_vars(sched.cur = t /\ osenv_process_unlock)

FairSpec == Spec /\ Fairness
-----------------------------------------------------------------------------
(* Safety                                                                  *)

\* threads_process_lock_owner, which the code reads without the mutex, never names
\* a thread that does not have the lock.  It lags behind the mutex in two windows
\* only: between the grant of the lock and the end of osenv_process_lock, and
\* between the two statements of osenv_process_unlock.
OwnerHasLock ==
  /\ owner # NoThread => mutex[ProcessLock].holder = owner
  /\ \A t \in Thread : mutex[ProcessLock].holder = t =>
       owner = t \/ sleep[t].at \in {"locking", "unlocking", "relock"}

\* The comment at pthread_scheduler.c:298-303 on a killed thread: "let threads
\* continue to run until the process lock is released".  The dispatcher asks
\* osenv_process_locked() whether the thread that comes back has the lock, except in
\* osenv_sleep, and in the two windows the answer is no although it has.
ProcessLockedIsRight ==
  [][\A t \in Thread :
       /\ sched.cur # t /\ sched'.cur = t
       /\ sleep[t].at \notin {"sleep", "relock"}
       /\ mutex'[ProcessLock].holder = t
       => owner' = t]_vars

\* No wakeup is lost and none is taken twice: a thread is blocked in osenv_sleep
\* exactly as long as its record names it and the OSENVSLEEP bit tells
\* pthread_cancel so, although the thread gives up the lock, and so lets others
\* run, before it sets the bit and blocks: nobody comes in between.  The scheduler
\* and mutex bookkeeping stays right: a wakeup meets a blocked thread.
SleepersAreWakeable ==
  /\ TypeOK
  /\ M!S!RunqConsistent /\ M!S!EveryThreadAccounted
  /\ M!LockCallsAccounted /\ panic = "none"
  /\ \A t \in Thread :
       /\ sleep[t].osenvsleep <=> sleep[t].at = "sleep" /\ t \in blocked
       /\ sleep[t].osenvsleep => sleep[t].thread = t
       /\ sleep[t].at = "release" => sleep[t].thread = t /\ sched.cur = t
       /\ sleep[t].at \in {"relocking", "relock"} => sleep[t].thread = NoThread

\* osenv_sleep returns the status of the wakeup that ended it: "It is harmless to
\* wake up a process that has already been woken" (doc/dev.tex), so neither a
\* later wakeup nor a later cancelation replaces the status.
FirstWakeupCounts ==
  [][\A t \in Thread :
       /\ sleep[t].at \in {"sleep", "relocking", "relock"}
       /\ sleep[t].thread = NoThread
       => sleep'[t].status = sleep[t].status]_vars

\* The comment of posix_sched_disassociate (sched_posix.c:219): "On the scheduler
\* queue, so its not running."
QueuedIsNotRunning == ~posix_runq_onrunq(sched, sched.cur)
-----------------------------------------------------------------------------
(* Liveness                                                                *)

\* A woken sleeper returns, with the process lock.
WokenSleeperReturns ==
  \A t \in Thread : sleep[t].at = "sleep" /\ sleep[t].thread = NoThread
                      ~> sleep[t].at = "out" /\ owner = t
=============================================================================
