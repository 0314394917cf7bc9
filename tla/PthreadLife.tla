---------------------------- MODULE PthreadLife -----------------------------
(***************************************************************************)
(* The life of a thread: pthread_create, pthread_exit, pthread_join,       *)
(* pthread_detach, pthread_cancel and the destruction of dead threads by   *)
(* joiners, by other exiting threads and by the idle thread.               *)
(*                                                                         *)
(* The scheduler is left out: any thread that is not blocked may take the  *)
(* next step, unless another one runs with preemption disabled.  Code that *)
(* does so is one step, or a few where the order matters.  The mutex in    *)
(* every thread is an abstract one, MutexSpec, which PthreadMutex          *)
(* implements, and its condition variable is the set of the threads that   *)
(* wait on it.  A thread is its structure and its tid.                     *)
(***************************************************************************)
EXTENDS Naturals, FiniteSets

CONSTANTS
  Thread, NoThread,
  Main,
  Usage   \* what the program does beyond joining or detaching each thread once,
          \* before it exits, with cancelation disabled

ASSUME LifeAssumption ==
  /\ Main \in Thread
  /\ NoThread \notin Thread
  /\ Usage \subseteq {"join_twice", "cancel_joiner", "detach_exiting", "detach_dead"}

VARIABLES
  life,               \* what each thread is doing, and its flags
  owner, wants,       \* of MutexSpec: the mutex of each thread
  condq,              \* the threads waiting on the condition variable of each thread
  last_dead_thread,
  idle,               \* the thread pthread_reap_threads is destroying
  threads_alive,
  critical,           \* the thread in the middle of code with preemption disabled
  halted,             \* exit(0) was called
  panic               \* the panic or failed assertion that stopped the system

M == INSTANCE MutexSpec WITH Mutex <- Thread

vars == <<life, owner, wants, condq, last_dead_thread, idle, threads_alive, critical, halted, panic>>

Places ==
  {"free",                         \* there is no such thread
   "out",                          \* outside the library
   "create",                       \* pthread_create: the new thread is runnable
   "join", "block", "wait",        \* pthread_join: locking the mutex or holding it
                                   \* at the head of the loop, about to wait, waiting,
   "reap", "reaping",              \* out of the loop, destroying the joinee
   "detach",                       \* pthread_detach, waiting for the mutex
   "cleanup", "exit", "destroy",   \* pthread_exit: in the handlers, after them,
                                   \* destroying another thread,
   "dying", "leaving",             \* dead with the mutex locked, and unlocked
   "gone"}                         \* blocked for the last time

Joining == {"join", "block", "wait", "reap", "reaping"}

\* target is the thread joined, detached or destroyed; was_detached is the local
\* variable detached of pthread_exit_locked; claimed records that somebody has
\* joined or detached the thread, and is not in the code.
LifeState ==
  [place : Places, target : Thread \cup {NoThread}, detached : BOOLEAN,
   was_detached : BOOLEAN, canceled : BOOLEAN, cancelable : BOOLEAN, dead : BOOLEAN,
   claimed : BOOLEAN]

TypeOK ==
  /\ life \in [Thread -> LifeState]
  /\ owner \in [Thread -> Thread \cup {NoThread}]
  /\ wants \in [Thread -> SUBSET Thread]
  /\ condq \in [Thread -> SUBSET Thread]
  /\ {last_dead_thread, idle} \subseteq Thread \cup {NoThread}
  /\ threads_alive \in 0 .. Cardinality(Thread)
  /\ critical \in Thread \cup {NoThread}
  /\ halted \in BOOLEAN
  /\ panic \in {"none", "destroy", "wrong owner"}

NewThread(place, detached) ==
  [place |-> place, target |-> NoThread, detached |-> detached, was_detached |-> FALSE,
   canceled |-> FALSE, cancelable |-> TRUE, dead |-> FALSE, claimed |-> detached]

Init ==
  /\ life = [t \in Thread |-> NewThread(IF t = Main THEN "out" ELSE "free", FALSE)]
  /\ M!Init
  /\ condq = [t \in Thread |-> {}]
  /\ last_dead_thread = NoThread
  /\ idle = NoThread
  /\ threads_alive = 1
  /\ critical = NoThread
  /\ halted = FALSE
  /\ panic = "none"

\* t may take a step at that place: nobody else has preemption disabled.
At(t, place) ==
  /\ life[t].place = place
  /\ critical \in {NoThread, t}
  /\ ~halted /\ panic = "none"

Exists(t) == life[t].place # "free"

Exiting(t) == life[t].place \in {"cleanup", "exit", "destroy", "dying", "leaving", "gone"}

\* pthread_mutex_unlock on the mutex of u.
Unlock(u) == M!Release(u) \/ \E v \in Thread : M!HandOver(u, v)

-----------------------------------------------------------------------------
(* Creation                                                                *)

\* Mutant: preemption is enabled when the new thread becomes runnable.
Mut_create(t, u, detached) ==
  /\ At(t, "out") /\ life[u].place = "free" /\ u # Main
  /\ life' = [life EXCEPT ![u] = NewThread("out", detached), ![t].place = "create"]
  /\ UNCHANGED <<owner, wants, condq, last_dead_thread, idle, threads_alive, critical, halted, panic>>

\* A free tid is taken, and the new thread is runnable.  If there is none the code
\* panics: the number of threads is bounded by Thread here.
pthread_create(t, u, detached) ==
  /\ At(t, "out") /\ life[u].place = "free" /\ u # Main
  /\ life' = [life EXCEPT ![u] = NewThread("out", detached), ![t].place = "create"]
  /\ critical' = t
  /\ UNCHANGED <<owner, wants, condq, last_dead_thread, idle, threads_alive, halted, panic>>

\* It is counted before preemption is enabled.
CreateCount(t) ==
  /\ At(t, "create")
  /\ life' = [life EXCEPT ![t].place = "out"]
  /\ threads_alive' = threads_alive + 1
  /\ critical' = NoThread
  /\ UNCHANGED <<owner, wants, condq, last_dead_thread, idle, halted, panic>>

\* pthread_destroy_internal, given the mutexes and waiters it finds: it asserts that
\* nobody waits and nobody holds the mutex.  The main thread is static, and only
\* its tid is released.
Destroyed(l, u) == [l EXCEPT ![u] = NewThread("free", FALSE)]

DestroyPanic(u, own) ==
  IF u # Main /\ (condq[u] # {} \/ own[u] # NoThread) THEN "destroy" ELSE panic

-----------------------------------------------------------------------------
(* Exit                                                                    *)

\* pthread_exit_locked up to the cleanup handlers.
BeginExit(l) ==
  [l EXCEPT !.place = "cleanup", !.was_detached = l.detached, !.cancelable = FALSE,
            !.target = NoThread]

pthread_exit(t) ==
  /\ At(t, "out")
  /\ life' = [life EXCEPT ![t] = BeginExit(@)]
  /\ UNCHANGED <<owner, wants, condq, last_dead_thread, idle, threads_alive, critical, halted, panic>>

\* The handlers have run, and the last thread ends the program.  Preemption is enabled,
\* but the decrement is one instruction in the default build (-O2, x86).
CleanupsDone(t) ==
  /\ At(t, "cleanup")
  /\ life' = [life EXCEPT ![t].place = "exit"]
  /\ threads_alive' = threads_alive - 1
  /\ halted' = (threads_alive = 1)
  /\ UNCHANGED <<owner, wants, condq, last_dead_thread, idle, critical, panic>>

\* Mutant: the slot is overwritten while another dead thread is in it.
Mut_ExitDetached(t) ==
  /\ At(t, "exit") /\ life[t].was_detached
  /\ last_dead_thread' = t
  /\ life' = [life EXCEPT ![t].place = "gone"]
  /\ UNCHANGED <<owner, wants, condq, idle, threads_alive, critical, halted, panic>>

\* A detached thread leaves itself in last_dead_thread, having emptied it first.
ExitDetached(t) ==
  /\ At(t, "exit") /\ life[t].was_detached
  /\ IF last_dead_thread = NoThread
     THEN last_dead_thread' = t /\ life' = [life EXCEPT ![t].place = "gone"]
     ELSE /\ last_dead_thread' = NoThread
          /\ life' = [life EXCEPT ![t].place = "destroy", ![t].target = last_dead_thread]
  /\ UNCHANGED <<owner, wants, condq, idle, threads_alive, critical, halted, panic>>

\* It destroys the thread it found there, which may block, and looks again.
ExitDestroy(t) ==
  LET u == life[t].target
  IN  /\ At(t, "destroy")
      /\ life' = [Destroyed(life, u) EXCEPT ![t].place = "exit", ![t].target = NoThread]
      /\ panic' = DestroyPanic(u, owner)
      /\ UNCHANGED <<owner, wants, condq, last_dead_thread, idle, threads_alive, critical, halted>>

\* A joinable thread waits for its mutex if a joiner has it.
ExitAwait(t) ==
  /\ At(t, "exit") /\ ~life[t].was_detached
  /\ M!Await(t, t)
  /\ UNCHANGED <<life, condq, last_dead_thread, idle, threads_alive, critical, halted, panic>>

\* Mutant: no joiner is woken.
Mut_Signaled(u, v) == [life EXCEPT ![u].dead = TRUE, ![u].place = "dying"]

\* u is dead, and v, a waiter on its condition variable, or NoThread, is woken.
Signaled(u, v) ==
  [t \in Thread |-> CASE t = u -> [life[t] EXCEPT !.dead = TRUE, !.place = "dying"]
                      [] t = v -> [life[t] EXCEPT !.place = "join"]
                      [] OTHER -> life[t]]

\* With preemption disabled it takes the mutex, says that it is dead and signals
\* one joiner,
ExitDead(t) ==
  /\ At(t, "exit") /\ ~life[t].was_detached
  /\ \/ M!Acquire(t, t)
     \/ owner[t] = t /\ UNCHANGED <<owner, wants>>
  /\ \E v \in IF condq[t] = {} THEN {NoThread} ELSE condq[t] :
       /\ life' = Signaled(t, v)
       /\ condq' = [condq EXCEPT ![t] = @ \ {v}]
  /\ critical' = t
  /\ UNCHANGED <<last_dead_thread, idle, threads_alive, halted, panic>>

\* Mutant: the unlock enables preemption.
Mut_ExitUnlock(t) ==
  /\ At(t, "dying")
  /\ Unlock(t)
  /\ life' = [life EXCEPT ![t].place = "leaving"]
  /\ critical' = NoThread
  /\ UNCHANGED <<condq, last_dead_thread, idle, threads_alive, halted, panic>>

\* unlocks the mutex, which may hand it to the joiner,
ExitUnlock(t) ==
  /\ At(t, "dying")
  /\ Unlock(t)
  /\ life' = [life EXCEPT ![t].place = "leaving"]
  /\ UNCHANGED <<condq, last_dead_thread, idle, threads_alive, critical, halted, panic>>

\* and blocks for ever.
ExitBlock(t) ==
  /\ At(t, "leaving")
  /\ life' = [life EXCEPT ![t].place = "gone"]
  /\ critical' = NoThread
  /\ UNCHANGED <<owner, wants, condq, last_dead_thread, idle, threads_alive, halted, panic>>

\* Mutant: the slot is not cleared.
Mut_IdleTake ==
  /\ critical = NoThread /\ ~halted /\ panic = "none"
  /\ idle = NoThread /\ last_dead_thread # NoThread
  /\ idle' = last_dead_thread
  /\ UNCHANGED <<life, owner, wants, condq, last_dead_thread, threads_alive, critical, halted, panic>>

\* pthread_reap_threads in the idle thread.
IdleTake ==
  /\ critical = NoThread /\ ~halted /\ panic = "none"
  /\ idle = NoThread /\ last_dead_thread # NoThread
  /\ idle' = last_dead_thread
  /\ last_dead_thread' = NoThread
  /\ UNCHANGED <<life, owner, wants, condq, threads_alive, critical, halted, panic>>

IdleDestroy ==
  /\ critical = NoThread /\ ~halted /\ panic = "none"
  /\ idle # NoThread
  /\ life' = Destroyed(life, idle)
  /\ idle' = NoThread
  /\ panic' = DestroyPanic(idle, owner)
  /\ UNCHANGED <<owner, wants, condq, last_dead_thread, threads_alive, critical, halted>>

-----------------------------------------------------------------------------
(* Cancelation                                                             *)

Canceled(t) == life[t].canceled /\ life[t].cancelable

\* The condition queues without u, if its cancelation ends its wait.
Canceling(u) ==
  IF life[u].cancelable THEN [v \in Thread |-> condq[v] \ {u}] ELSE condq

\* Deferred cancelation of another thread: a waiting joiner is woken.
pthread_cancel(t, u) ==
  /\ At(t, "out") /\ u # t
  /\ Exists(u) /\ ~Exiting(u) /\ ~life[u].canceled
  /\ life' = [life EXCEPT ![u].canceled = TRUE,
                          ![u].place = IF life[u].cancelable /\ @ = "wait" THEN "join" ELSE @]
  /\ condq' = Canceling(u)
  /\ UNCHANGED <<owner, wants, last_dead_thread, idle, threads_alive, critical, halted, panic>>

pthread_testcancel(t) ==
  /\ At(t, "out") /\ Canceled(t)
  /\ life' = [life EXCEPT ![t] = BeginExit(@)]
  /\ UNCHANGED <<owner, wants, condq, last_dead_thread, idle, threads_alive, critical, halted, panic>>

pthread_setcancelstate(t, state) ==
  /\ At(t, "out")
  /\ life' = [life EXCEPT ![t].cancelable = state]
  /\ UNCHANGED <<owner, wants, condq, last_dead_thread, idle, threads_alive, critical, halted, panic>>

-----------------------------------------------------------------------------
(* Join and detach                                                         *)

\* The program's side: who joins a thread, and how.
MayJoin(t, u) ==
  /\ life[u].claimed => "join_twice" \in Usage
  /\ life[t].cancelable => "cancel_joiner" \in Usage

\* The joinee exists and is not detached; preemption is enabled again after this test.
pthread_join(t, u) ==
  /\ At(t, "out") /\ u # t /\ MayJoin(t, u)
  /\ Exists(u) /\ ~life[u].detached
  /\ life' = [life EXCEPT ![t].place = "join", ![t].target = u, ![u].claimed = TRUE]
  /\ UNCHANGED <<owner, wants, condq, last_dead_thread, idle, threads_alive, critical, halted, panic>>

JoinLock(t) ==
  /\ At(t, "join")
  /\ M!Acquire(t, life[t].target) \/ M!Await(t, life[t].target)
  /\ UNCHANGED <<life, condq, last_dead_thread, idle, threads_alive, critical, halted, panic>>

\* The loop ends when the joinee is dead.
Leaves(u) == life[u].dead

\* The head of the loop, with the mutex: a canceled joiner exits.  The claim on the
\* joinee, which is the program's, is free again.
JoinTest(t) ==
  LET u == life[t].target
  IN  /\ At(t, "join") /\ owner[u] = t
      /\ life' = IF Canceled(t)
                 THEN [life EXCEPT ![t] = BeginExit(@), ![u].claimed = FALSE]
                 ELSE [life EXCEPT ![t].place = IF Leaves(u) THEN "reap" ELSE "block"]
      /\ UNCHANGED <<owner, wants, condq, last_dead_thread, idle, threads_alive, critical, halted, panic>>

\* Mutant: the joiner waits with the mutex locked.
Mut_JoinWait(t) ==
  LET u == life[t].target
  IN  /\ At(t, "block")
      /\ condq' = [condq EXCEPT ![u] = @ \cup {t}]
      /\ life' = [life EXCEPT ![t].place = "wait"]
      /\ UNCHANGED <<owner, wants, last_dead_thread, idle, threads_alive, critical, halted, panic>>

\* pthread_cond_wait
JoinWait(t) ==
  LET u == life[t].target
  IN  /\ At(t, "block")
      /\ Unlock(u)
      /\ condq' = [condq EXCEPT ![u] = @ \cup {t}]
      /\ life' = [life EXCEPT ![t].place = "wait"]
      /\ UNCHANGED <<last_dead_thread, idle, threads_alive, critical, halted, panic>>

\* The joinee's mutex is unlocked,
JoinUnlock(t) ==
  /\ At(t, "reap")
  /\ Unlock(life[t].target)
  /\ life' = [life EXCEPT ![t].place = "reaping"]
  /\ UNCHANGED <<condq, last_dead_thread, idle, threads_alive, critical, halted, panic>>

\* and the joinee destroyed, which may block.
JoinDestroy(t) ==
  LET u == life[t].target
  IN  /\ At(t, "reaping")
      /\ life' = [Destroyed(life, u) EXCEPT ![t].place = "out", ![t].target = NoThread]
      /\ panic' = DestroyPanic(u, owner)
      /\ UNCHANGED <<owner, wants, condq, last_dead_thread, idle, threads_alive, critical, halted>>

\* The program's side again.
MayDetach(u) ==
  /\ ~life[u].claimed
  /\ Exiting(u) /\ life[u].place # "gone" => "detach_exiting" \in Usage
  /\ life[u].place = "gone" => "detach_dead" \in Usage

\* A thread that is dead is destroyed, and its mutex unlocked once more: that of the
\* main thread by a thread that does not hold it, that of another thread in memory
\* that was freed, where anything may be found.
DetachDead(t, u) ==
  /\ life' = [Destroyed(life, u) EXCEPT ![t].place = "out", ![t].target = NoThread]
  /\ panic' \in IF u = Main THEN {"wrong owner"} ELSE {"wrong owner", DestroyPanic(u, owner)}

\* It blocks if somebody has the mutex of the detached thread.  In the programs of
\* Usage that is a joiner that was canceled and exited, which never unlocks it.
pthread_detach(t, u) ==
  /\ At(t, "out") /\ Exists(u) /\ MayDetach(u)
  /\ CASE owner[u] # NoThread ->
            /\ M!Await(t, u)
            /\ life' = [life EXCEPT ![u].detached = TRUE, ![u].claimed = TRUE,
                                    ![t].place = "detach", ![t].target = u]
            /\ UNCHANGED panic
       [] owner[u] = NoThread /\ ~life[u].dead ->
            /\ life' = [life EXCEPT ![u].detached = TRUE, ![u].claimed = TRUE]
            /\ UNCHANGED <<owner, wants, panic>>
       [] OTHER -> DetachDead(t, u) /\ UNCHANGED <<owner, wants>>
  /\ UNCHANGED <<condq, last_dead_thread, idle, threads_alive, critical, halted>>

Next ==
  \/ \E t, u \in Thread, detached \in BOOLEAN : pthread_create(t, u, detached)
  \/ \E t \in Thread : CreateCount(t)
  \/ \E t \in Thread : pthread_exit(t)
  \/ \E t \in Thread : CleanupsDone(t)
  \/ \E t \in Thread : ExitDetached(t)
  \/ \E t \in Thread : ExitDestroy(t)
  \/ \E t \in Thread : ExitAwait(t)
  \/ \E t \in Thread : ExitDead(t)
  \/ \E t \in Thread : ExitUnlock(t)
  \/ \E t \in Thread : ExitBlock(t)
  \/ IdleTake
  \/ IdleDestroy
  \/ \E t, u \in Thread : pthread_cancel(t, u)
  \/ \E t \in Thread : pthread_testcancel(t)
  \/ \E t \in Thread, state \in BOOLEAN : pthread_setcancelstate(t, state)
  \/ \E t, u \in Thread : pthread_join(t, u)
  \/ \E t \in Thread : JoinLock(t)
  \/ \E t \in Thread : JoinTest(t)
  \/ \E t \in Thread : JoinWait(t)
  \/ \E t \in Thread : JoinUnlock(t)
  \/ \E t \in Thread : JoinDestroy(t)
  \/ \E t, u \in Thread : pthread_detach(t, u)

Spec == Init /\ [][Next]_vars

\* A thread that is in a call of the library, and not blocked, gets to run again
\* and again when nobody has preemption disabled: the scheduler is round-robin among
\* the threads of one priority.
CallProgress(t) ==
  \/ CreateCount(t)
  \/ CleanupsDone(t) \/ ExitDetached(t) \/ ExitDestroy(t)
  \/ ExitAwait(t) \/ ExitDead(t) \/ ExitUnlock(t) \/ ExitBlock(t)
  \/ JoinLock(t) \/ JoinTest(t) \/ JoinWait(t) \/ JoinUnlock(t) \/ JoinDestroy(t)

FairSpec == Spec /\ \A t \in Thread : SF_vars(CallProgress(t))

-----------------------------------------------------------------------------
(* Safety                                                                  *)

\* No pointer dangles: a joiner's joinee is there until it returns, whoever is to be
\* destroyed by an exiting thread or by the idle thread is there and blocked for
\* good, and no two of them have the same thread.  Whoever is queued on the condition
\* variable of a thread is blocked in joining it.
NoDangling ==
  /\ TypeOK
  /\ \A t, u \in Thread : t \in condq[u] <=> life[t].place = "wait" /\ life[t].target = u
  /\ \A t \in Thread : life[t].place \in Joining => Exists(life[t].target)
  /\ LET doomed == {last_dead_thread, idle} \ {NoThread}
         takers == {t \in Thread : life[t].place = "destroy"}
     IN  /\ \A u \in doomed \cup {life[t].target : t \in takers} :
              life[u].place = "gone" /\ life[u].detached
         /\ last_dead_thread = idle => idle = NoThread
         /\ \A t \in takers : life[t].target \notin doomed
         /\ \A t, u \in takers : life[t].target = life[u].target => t = u

\* Nobody is forgotten: a detached thread that is gone is in last_dead_thread or being
\* destroyed, and one that is not detached can still be joined or detached.
NobodyLeaked ==
  \A u \in Thread : life[u].place = "gone" =>
    IF life[u].detached
    THEN \/ u \in {last_dead_thread, idle}
         \/ \E t \in Thread : life[t].place = "destroy" /\ life[t].target = u
    ELSE life[u].dead

\* A structure and its stack are released only after their thread has blocked for
\* the last time.
DestroyedOnlyWhenGone ==
  [][\A u \in Thread : Exists(u) /\ life'[u].place = "free" => life[u].place = "gone"]_vars

\* The program ends with the last thread that has not finished its handlers and not
\* before: threads_alive counts these threads, except that a new one runs no earlier
\* than it is counted.
AliveCounts ==
  LET alive == {t \in Thread : life[t].place # "free"
                  /\ life[t].place \notin {"exit", "destroy", "dying", "leaving", "gone"}}
      creators == {t \in Thread : life[t].place = "create"}
  IN  /\ threads_alive + Cardinality(creators) = Cardinality(alive)
      /\ halted => alive = {}

\* The assertions of pthread_destroy_internal at pthread_destroy.c:76 and :78.  With
\* them stands what doc/pthread.tex:837 says of pthread_join: "Once the target has
\* exited, all of the threads waiting to join with it are woken up, and the target's
\* exit status provided to each."
AllJoinersServed == panic # "destroy"

\* pthread_mutex_unlock at pthread_mutex.c:312 panics with "wrong owner" when its caller
\* does not hold the mutex: the library itself must not do that.
UnlocksItsOwn == panic # "wrong owner"

-----------------------------------------------------------------------------
(* Liveness                                                                *)

\* doc/pthread.tex:811 on pthread_exit: "The current thread is terminated, with its
\* status value made available to the parent using pthread_join."  (A detached thread
\* destroys those that died before it, as often as it finds one, and may be kept
\* busy for ever by a program that goes on creating detached threads.)
ExitTerminates ==
  \A t \in Thread : life[t].place = "cleanup" /\ ~life[t].was_detached ~>
                      halted \/ life[t].place \in {"gone", "free"}

\* A joiner returns once its joinee is dead.
JoinReturns ==
  \A t \in Thread :
    life[t].place \in Joining /\ life[life[t].target].dead
    ~> halted \/ life[t].place = "out"
=============================================================================
