# The OSKit threads library in TLA+

This directory holds TLA+ models of the POSIX threads library of the OSKit
(`src/threads/`), configurations that check them with TLC, and proofs of the
scheduler's safety that TLAPS checks.  Every definition is a translation of C
code; `PROJECT.json` maps it to the lines it stands for.

The OSKit is a large collection of components, most of them imported or
sequential.  The threads library is where its concurrency is: every threaded
kernel, and every encapsulated driver in one, depends on the scheduler, the
mutexes, the sleep records and the life cycle of threads described here.  So
the project begins with it.

## 1. The system

### The build that is modelled

The models follow the default build (`threads/MakeFlags`:
`SIMPLE_PRI_INHERIT`, `DEFAULT_SCHEDULER`, `PTHREAD_SCHED_POSIX`) on one
processor, where the spin locks are empty.  What makes code atomic is then:

* **preemption disabled** (`disable_preemption`): no other thread runs until the
  code blocks or enables preemption, but interrupt handlers do;
* **interrupts disabled**: nothing else runs until the code blocks.

`PREEMPT_ENABLE` is saved and restored with the context of a thread, so it is a
flag of each thread (`enabled[t]`).  `PREEMPT_NEEDED` belongs to the processor
(`sched.needed`).  A new thread starts with preemption disabled.  The code is
compiled with `-O2` for x86 (`GNUmakerules`), where `--threads_alive` is one
instruction.

### Parts, their state and their operations

| part | source (`src/threads/`) | state | operations |
|---|---|---|---|
| run queue | `sched_posix/sched_posix.c`, `oskit/queue.h` | `threads_runq`, `threads_whichrunq`, priorities, ticks | insert, remove, dispatch, setrunnable, change priority, disassociate |
| scheduler | `pthread_scheduler.c`, `pthread_yield.c`, `pthread_init.c`, `pthread_set*.c` | current thread, `PREEMPT_NEEDED` | reschedule, directed switch, priority loan, tick, soft interrupt, idle loop |
| mutexes | `pthread_mutex.c` | holder, count, waiters | lock, trylock, unlock (handing over), inheritance |
| condition variables | `pthread_cond.c`, `pthread_cancel.c` | waiters, `CONDWAIT`, the condition timer | wait, timed wait, time-out, signal, broadcast, cancel |
| driver sleep | `osenv_sleep.c`, `osenv_lock.c` | process lock and its owner, sleep records | lock, unlock, init, sleep, wakeup, cancel |
| semaphores | `semaphore/sem_wait_post.c` | value, waiters, `SEMWAIT` | wait, trywait, post, cancel |
| timed sleep | `pthread_sleep.c` | wait flags, the sleep timer | sleep, wakeup, time-out |
| messages | `pthread_ipc.c` | IPC wait flags, senders queue, peer, sizes | send, receive, wait, call, reply, cancel |
| life cycle | `pthread_create.c`, `_exit.c`, `_join.c`, `_detach.c`, `_destroy.c`, `_cancel.c` | flags, mutex and condition of each thread, `last_dead_thread`, `threads_alive` | create, exit, join, detach, cancel, reap |

Everything above the scheduler uses it the same way: queue the thread, block
(`pthread_sched_reschedule`), and have somebody else take it off the queue and
call `pthread_sched_setrunnable`, which panics if the thread is already on the
run queue.  Condition variables and driver sleep also use the mutexes.

### What makes it hard

* A wakeup, a time-out and a cancelation may all find the same thread waiting;
  one of them may end the wait, and a second `setrunnable` is a panic.
* What was decided with preemption disabled (a preemption put off, a mutex
  handed over, a thread chosen by a signal) takes effect only when the thread
  runs, and other threads act in between.
* Priorities change while threads are queued by priority.
* The structure of a dead thread is freed by another thread, or by the idle
  thread, while the dead one is still on its way to its last switch.

`PROJECT.json` lists these hazards at the lines where they bite, with the
properties that would catch each.  Where the code does go wrong the hazard has a
note instead, naming the configuration of section 3 that shows it.

### Not modelled

Listed as `not_modelled` components, with reasons: signals, COM locks,
thread-specific data, attributes, the real-time, stride and CPU-inheritance
schedulers, multiprocessors, the memory managers (`lmm`, `amm`), and the rest of
the OSKit (boot and kernel support, C and POSIX libraries, encapsulated drivers,
file systems, network, virtual memory, loaders, video).

In the parts that are modelled, left out are: memory and stack allocation,
`init`/`destroy` of synchronisation objects, named semaphores, statistics,
asynchronous cancelation (`THREAD_KILLED`), the contents of cleanup handlers and
of messages, and the sizes of replies.

## 2. Modules

```
OskitQueue ── PosixSched ──┬── PthreadSched ── MCPthreadSched
     │             │       ├── PthreadMutex ── MCPthreadMutex     (implements MutexSpec)
OskitQueueProofs   │       │        ├── PthreadCond ── MCPthreadCond
     │      PosixSchedProofs        └── OsenvSleep ── MCOsenvSleep
     │             │       ├── PthreadSem ── MCPthreadSem         (implements SemSpec)
     └─────────────┴───┐   ├── PthreadSleep ── MCPthreadSleep
              PthreadSchedProofs   └── PthreadIpc ── MCPthreadIpc
MutexSpec ── PthreadLife ── MCPthreadLife
```

* **OskitQueue**: the queue macros of `oskit/queue.h` on sequences.
* **PosixSched**: the scheduler as operators on one record (`cur`, `runq`,
  `which`, `pri`, `base`, `policy`, `ticks`, `needed`, `panic`).  The record is
  what `sched_posix.c` and `pthread_scheduler.c` keep in globals and in
  `schedstate`; each operator is one routine and returns the record after it.
  `which` is the bitmap `threads_whichrunq` as a set.
* **PthreadSched**: the scheduler driven by an arbitrary program.  `Enter` and
  `Leave` are `disable_preemption` and `enable_preemption` around a library
  call; `LeaveMasked` is `enable_preemption` with interrupts disabled, which does
  not yield.  A thread may block, wake another one, or hand the processor over
  whether preemption is disabled or not: `oskit_pthread_wakeup` and the messages
  do so with preemption enabled and interrupts disabled, and a wakeup does not
  reschedule.  A priority is lent with preemption disabled.  What a thread waits
  for is abstract (`blocked`).
* **PthreadMutex**, **PthreadSem**, **PthreadSleep**, **PthreadIpc**: each has
  the variables of its component and those of `PthreadSched`, instantiates
  `PthreadSched` as `S`, and takes its steps through `CallStep`, `ThreadStep` or
  `InterruptStep`, which add "and my variables do not change".  A call is one
  step up to the point where it blocks; what follows the block is an action of
  its own (`LockReturn`, `WaitReturn`, `SleepReturn`, ...), enabled when the
  thread is the running one again.
* **PthreadCond**, **OsenvSleep**: the same, over `M == INSTANCE PthreadMutex`.
  A condition wait is `CondWait` (queue and unlock), `CondBlock` (arm the timer
  and block), `WaitResume` (the flags are read), then a moment with preemption
  enabled, then `Relock`.  From `CondWait` to `CondBlock` preemption and
  interrupts are disabled; the unlock in between must not enable them.
  Locking and unlocking the process lock are two steps each, since
  `threads_process_lock_owner` is written with preemption enabled after the one
  and before the other; a driver sleep is `osenv_sleep`, `SleepRelease` (unlock),
  `SleepBlock`, `SleepResume`, `SleepRelock`, `SleepLocked`.
* **PthreadLife**: threads as they are created, exit, are joined, detached,
  canceled and destroyed.  It has no scheduler: any thread that is not blocked
  may take the next step, which includes everything the scheduler could do,
  unless another one has preemption disabled (`critical`).  A creation
  (`pthread_create`, `CreateCount`) and the end of a joinable thread (`ExitDead`,
  `ExitUnlock`, `ExitBlock`) are several steps under one such section; a joiner
  unlocks and destroys in two steps between which others run, since destruction
  may block.  The
  mutex of each thread is the abstract `MutexSpec` that `PthreadMutex` is shown
  to implement; its condition variable is a set of waiters.  `life[t].place` is
  the point of its code a thread is at.
* **MutexSpec**, **SemSpec**: what a mutex and a semaphore promise.

Definitions that begin with `Mut_` are wrong variants of the definition that
follows them.  No specification uses them.  They document which mistake each
property notices.

### Assumptions about programs

* The caller of a condition wait holds the mutex, and nobody destroys an object
  in use.
* `PthreadMutex` with `Errors = TRUE` also has the calls the library panics on
  (unlock by a stranger, relock of a plain mutex); the program ends there.
* `OsenvSleep` with `InitMasked = TRUE` has drivers that disable interrupts
  before `osenv_sleep_init` and drop the record when the sleep returns.
* `PthreadLife` with `Usage = {}` has programs that join or detach each thread
  once, before it starts to exit, and joiners with cancelation disabled.
* `PthreadIpc` with `EarlyReplies = FALSE` replies only to calls it received.
* IPC fields that the code always sets again before it reads them are reset when
  a call returns, so that states differ only where the code could tell.

## 3. What is checked

All runs finish without error except `sem_cancel`, which shows a defect.  State
counts are distinct states.

| run | instance | shows |
|---|---|---|
| `sched_queues` | 3 threads, 3 priorities, FIFO and RR, directed switches, policy changes of running and blocked threads (263 k) | `TypeOK`; `RunqConsistent`: queue, bitmap and priorities agree and the panic in `setrunnable` is unreachable; `EveryThreadAccounted`: no thread is lost or in two places |
| `sched_preempt` | the same without directed switches and policy changes, quantum of 2 ticks (532 k) | `HigherPriorityIsPending`: a preemption that is due is pending; `ReschedulesToHighest`: every step that looks for a thread to run leaves the highest priority running, if preemption is then enabled; `FifoOnlyOutranked`: a FIFO thread gives way only to a higher priority, unless it yields |
| `mutex_plain` | 3 threads, 3 changing priorities, one recursive mutex, callers' errors (85 k) | `NoInternalPanic`, `LockCallsAccounted`, `GrantsHighest`, `GrantsInOrder`; `ImplementsMutex` (refines `MutexSpec`) |
| `mutex_inherit` | 3 threads, 3 fixed priorities, an inheriting and a plain mutex (76 k) | `HolderOutranksWaiters`, `LoanIsOwed`: a loan is made, and given back; `GrantsHighest` for the order the queue of an inheriting mutex is kept in; `ImplementsSched` (refines `PthreadSched`, loans included) |
| `cond_waits` | 3 threads, 2 priorities that may drop, timers, signals, broadcasts, cancelation (225 k) | `WaitsAccounted`: each wait is ended exactly once; `NoStaleTimer`, `TimeoutIsTruthful`, `SignalWakesHighest` |
| `cond_fair` | 2 round-robin threads (1.7 k) | `ReadyRuns`, `EndedWaitReturns`, `TimedWaitReturns` |
| `osenv_sleep` | 3 threads, 2 priorities, drivers, interrupts, cancelation (267 k) | `OwnerHasLock`: lock and owner agree outside two windows; `SleepersAreWakeable`, `FirstWakeupCounts` |
| `sem_units` | 3 threads, 2 priorities, 2 semaphores (12 k) | `WaitersAccounted`; `ImplementsSem` (refines `SemSpec`) |
| `sleep_timer` | 3 round-robin threads (4.8 k) | `SleepsAccounted`, `ReturnIsTruthful`, `TimedSleepReturns` |
| `ipc_messages` | 3 threads, 2 sizes, receivers canceled, messages to oneself (216 k) | `WaitsAccounted`, `NoMissedRendezvous`, `SendIsSynchronous`, `PeerIsTheOneMeant` |
| `life_join` | 3 threads (66 k) | `NoDangling`, `NobodyLeaked`, `DestroyedOnlyWhenGone`, `AliveCounts`, `ExitTerminates`, `JoinReturns` |
| `sem_cancel` | 2 threads, 1 semaphore, cancelation | `NeverRunnableTwice` is **violated** |

The accounting invariants of the upper modules have the type invariant of the
module, and the invariants of the layers below, as conjuncts.

Deadlock is checked except in `mutex_plain`, where the program may panic, and in
`life_join`, where it ends.  Everywhere else the idle thread polls for ever.

### Why the bounds are enough

Three threads are one that runs, one that waits and one that comes in between;
for a queue they are the fewest for which order matters with one thread left to
act.  Three priorities let a loan pass an uninvolved middle priority (the
classical inversion); with two, a wakeup is above or not above the running
thread.  A quantum of one tick makes every tick end it, one of two has a tick
that does not.  Liveness is checked among threads of one priority: with several
the scheduler is meant to starve the lower ones.

Named bounds: `PRIORITY_MAX` (31 in the code), `SCHED_RR_INTERVAL`, `MaxCount`
(recursion depth of a mutex), `MaxValue` (value of a semaphore), `Sizes` (of
messages and buffers: one fits in the other or does not).

`sched_queues`, `sched_preempt` and `cond_waits` take the threads other than the
main one as symmetric: the code tells them apart only by priority, policy and
place in a queue, and these runs have no liveness property.

### Fairness

* `WF` of the steps that end a library call (`Leave`, `LockReturn`,
  `WaitResume`, `SleepReturn`) and of the idle loop: straight-line code on a
  processor that does not stop.
* `SF` of the clock tick while the running thread is preemptible: ticks are
  periodic and not synchronised with the program, so a thread that is
  preemptible again and again is at some time so when a tick comes.  Without it a
  program could disable preemption at every tick.
* `SF` of the timers: an armed timer expires once interrupts are enabled.
* Of the program: a thread does not keep preemption disabled for ever, and if it
  gets to run with a mutex it unlocks it.  Without it no lock call need return.
* In `PthreadLife`, `SF` of the code of exits and joins of each thread: the
  threads take turns, so one that could run whenever nobody else has preemption
  disabled does.  Nothing is assumed about whether a program joins, detaches or
  exits.

### Disagreements between code and texts

One is a run: **`sem_cancel`**.  `oskit_sem_wait_cancel` makes a waiter runnable
but leaves it on `sem_waiters`, and `oskit_sem_post` leaves `SEMWAIT` set.  A
post after a cancelation, or the reverse, makes a thread runnable that is on the
run queue, which `sched_posix.c:194` panics on.  `sem_units` therefore has no
cancelation.

Further configurations reproduce the others.  Each violates the one property it
lists:

| configuration (module) | property | what happens |
|---|---|---|
| `sched_policy_change` (`MCPthreadSched`) | `SetschedparamReschedules` | changing the policy of a ready thread takes it off the run queue and nothing puts it back (`pthread_scheduler.c:485`); `doc/pthread.tex:1105` promises a reschedule |
| `mutex_nested` (`MCPthreadMutex`) | `HolderAlreadyBumped` | unlocking one of two inheriting mutexes gives back the loan for both (`pthread_mutex.c:351` against the comment at 262) |
| `mutex_setprio` (`MCPthreadMutex`) | `GrantsHighest` | a waiter of an inheriting mutex whose priority changes keeps its place (`pthread_mutex.c:349` against `doc/pthread.tex:1061`) |
| `mutex_chain` (`MCPthreadMutex`) | `HolderOutranksWaiters` | a holder that waits for another inheriting mutex is lent a priority and does not pass it on (`pthread_scheduler.c:546`) |
| `osenv_owner` (`MCOsenvSleep`) | `ProcessLockedIsRight` | between the lock of the process lock and the note of its owner, and between the clearing of the owner and the unlock, `osenv_process_locked` says that nobody has the lock (`osenv_lock.c:39`) |
| `osenv_early` (`MCOsenvSleep`) | `QueuedIsNotRunning` | a wakeup between `osenv_sleep_init` and `osenv_sleep` puts the running thread on the run queue (`osenv_sleep.c:146`) |
| `sleep_resched` (`MCPthreadSleep`) | `RunqChangeReschedules` | `oskit_pthread_wakeup` of a higher priority does not reschedule (`pthread_sleep.c:167`) |
| `ipc_cancel` (`MCPthreadIpc`) | `SendersCanBeCanceled` | canceling a thread blocked in a send panics (`pthread_ipc.c:599` against the comment at 134) |
| `ipc_early_reply` (`MCPthreadIpc`) | `FirstSenderIsSending` | a reply to a call not yet received leaves the caller on the senders queue (`pthread_ipc.c:574` against the assertion at 313) |
| `ipc_actual` (`MCPthreadIpc`) | `ActualFitsBuffer` | a receiver that blocked is told the size of the message, not of what it received (`pthread_ipc.c:263`, `doc/pthread.tex:1818`) |
| `ipc_nowait` (`MCPthreadIpc`) | `ZeroMeansNoWait` | the timeout of a receive is never read (`pthread_ipc.c:247`, `doc/pthread.tex:1806`) |
| `life_join_twice` (`MCPthreadLife`) | `AllJoinersServed` | of two joiners the first destroys the thread under the second (`pthread_exit.c:159`, `doc/pthread.tex:837`) |
| `life_detach_dead` (`MCPthreadLife`) | `UnlocksItsOwn` | detaching a dead thread unlocks its mutex twice, the second time after it was destroyed (`pthread_detach.c:43`) |
| `life_detach_exiting` (`MCPthreadLife`) | `NobodyLeaked` | a thread detached while it runs its cleanup handlers is never destroyed (`pthread_exit.c:71`, `doc/pthread.tex:788`) |
| `life_cancel_joiner` (`MCPthreadLife`) | `ExitTerminates` | a canceled joiner exits with the mutex of its joinee, which can then never exit (`pthread_join.c:57`) |

Five more pass and take other instances of what the runs check:
`sched_round_robin` (`ReadyRuns` with a quantum of two ticks), `mutex_fair`
(`LockReturns` with three threads), `osenv_fair` (`WokenSleeperReturns`: a woken
driver gets the process lock back), `life_reap` (four threads, so that two
exiting threads and the idle thread reap at once) and `life_cancel` (joiners that
are canceled).

## 4. What is proved

For every number of threads, of priorities and of ticks of a quantum
(`PthreadSchedProofs`, over the lemmas of `PosixSchedProofs` and
`OskitQueueProofs`):

| theorem | says | assumes |
|---|---|---|
| `TypeCorrect` | `Spec => []TypeOK` | `"ready" \notin PolicyChanges` |
| `RunqIsConsistent` | `Spec => []RunqConsistent` | the same |
| `NoThreadLost` | `Spec => []EveryThreadAccounted` | the same |
| `PreemptionIsPending` | `Spec => []HigherPriorityIsPending` | no directed switches, no policy changes |
| `HighestPriorityRuns` | `Spec => ReschedulesToHighest` | the same |

The assumptions are those of the code: `sched_policy_change` shows that changing
the policy of a ready thread loses it, a directed switch may run a thread that is
outranked, and a policy change does not set `PREEMPT_NEEDED`.  Even so the running
thread may be outranked with preemption enabled: after a wakeup that does not
reschedule, and after `enable_preemption` with interrupts disabled.
`ReschedulesToHighest` is what holds: it is about every step that looks for a
thread to run (`ReschedulePoint`), and `HigherPriorityIsPending` says that the
others leave `PREEMPT_NEEDED` set for the next such step.  The constants are
assumed to be what the code has: an idle thread that is none of the others, at
least one priority, a quantum of at least one tick.

**The inductive invariant** is `IInv == TypeOK /\ RunqConsistent /\
EveryThreadAccounted`.  None of the three is inductive alone.  `setrunnable`
panics unless the thread it is given is off the run queue, which for a blocked
thread is `EveryThreadAccounted`; a thread is found and unlinked only if it is in
the queue of its priority, which is `RunqConsistent`; and taking a thread off one
place and putting it in another keeps the places disjoint only if they were.

For priority scheduling `PInv == HigherPriorityIsPending` is added.  It is what
lets `enable_preemption` establish `PreemptibleIsHighest`: it yields only if
`PREEMPT_NEEDED` is set.  Each step that looks for a thread to run is shown to lead
to `Settled == PInv /\ PreemptibleIsHighest`, each of the others to keep `PInv`.

The argument goes layer by layer: queue operations (what they do to the set of
elements and to the absence of duplicates), run queue operations (queues, bitmap,
`Ready`), scheduler routines (`DispatchLemma`, `RescheduleLemma`,
`SetrunnableLemma`, `EnablePreemptionLemma`, ...), then one lemma for each action.

`ImplementsSched` carries the theorems to the mutexes: every step of
`PthreadMutex` is a step of `PthreadSched` without directed switches and policy
changes.

Model-checked only: all liveness properties (fairness and `ENABLED` are out of
the prover's reach), the other action properties, refinements, and the invariants of the
modules above the scheduler.

## 5. Plan

1. Proofs above the scheduler: `LockCallsAccounted` and `ImplementsMutex` for any
   number of threads and mutexes; `WaitersAccounted` and `ImplementsSem`;
   `NoMissedRendezvous`.
2. Signals (`pthread_signal.c`): process- and thread-pending sets, `kill`,
   `sigqueue` with its pool, `sigwait` with timeout, over the scheduler.
3. The list memory manager (`lmm`): the free list as disjoint intervals, with
   conservation of memory, coalescing, and `lmm_alloc_gen` against a reference
   definition; then the address maps (`amm`).
4. Thread-specific data and asynchronous cancelation in the life cycle.
5. The queues and event channels of `com/`, and `hpfq`.

## 6. How to run

```
tlc -config sched_queues.cfg MCPthreadSched
tlapm PthreadSchedProofs.tla
```

`PROJECT.json` names the module of each run.
