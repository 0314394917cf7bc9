---------------------------- MODULE PthreadSched ----------------------------
(***************************************************************************)
(* The scheduler as the threads of a program and the interrupts drive it.  *)
(* What a thread waits for is abstract here: it blocks in some library     *)
(* call and some other call, or an interrupt handler, makes it runnable.   *)
(*                                                                         *)
(* Most library calls run with preemption disabled and are interrupted     *)
(* only by handlers; the timed sleep and the messages disable interrupts   *)
(* instead.  PREEMPT_ENABLE is part of the running thread's context: it is *)
(* saved when the thread is switched out and restored when it comes back   *)
(* (pthread_sched_dispatch).  enabled[t] is that flag for each thread.     *)
(***************************************************************************)
EXTENDS PosixSched

CONSTANTS
  Main,           \* the thread pthread_init makes of the boot context
  UserPolicies,   \* the policies the program asks for
  Handoffs,       \* whether threads use the directed switch of the IPC code
  PolicyChanges   \* situations of threads whose policy pthread_setschedparam
                  \* changes: a subset of {"running", "ready", "blocked"}

ASSUME PthreadSchedAssumption ==
  /\ Main \in Thread
  /\ UserPolicies \subseteq Policies
  /\ Handoffs \in BOOLEAN
  /\ PolicyChanges \subseteq {"running", "ready", "blocked"}

VARIABLES
  sched,    \* the scheduler record of PosixSched
  new,      \* the threads not created yet
  blocked,  \* the threads waiting in a library call
  enabled   \* PREEMPT_ENABLE in the context of each thread

vars == <<sched, new, blocked, enabled>>

TypeOK ==
  /\ sched \in SchedState
  /\ new \subseteq Thread
  /\ blocked \subseteq Thread
  /\ enabled \in [Thread -> BOOLEAN]

\* pthread_init: the main thread runs, round robin, at the normal priority.
Init ==
  /\ sched = [cur    |-> Main,
              runq   |-> [l \in Levels |-> <<>>],
              which  |-> {},
              pri    |-> [t \in Thread |-> PRIORITY_NORMAL],
              base   |-> [t \in Thread |-> PRIORITY_NORMAL],
              policy |-> [t \in Thread |-> "RR"],
              ticks  |-> [t \in Thread |-> SCHED_RR_INTERVAL],
              needed |-> FALSE,
              panic  |-> FALSE]
  /\ new = Thread \ {Main}
  /\ blocked = {}
  /\ enabled = [t \in Thread |-> t = Main]

\* A thread runs; it does so with preemption enabled, or disabled.
ThreadRuns == sched.cur \in Thread
Preemptible == sched.cur \in Thread /\ enabled[sched.cur]
Critical == sched.cur \in Thread /\ ~enabled[sched.cur]

\* pthread_create: the new thread starts with preemption disabled.
Create(t, policy, p) ==
  /\ Preemptible
  /\ t \in new
  /\ LET s == pthread_sched_init_schedstate(sched, t, policy, p)
     IN  sched' = enable_preemption(pthread_sched_setrunnable(s, t))
  /\ new' = new \ {t}
  /\ UNCHANGED <<blocked, enabled>>

\* disable_preemption() at the entry of a library call.
Enter ==
  /\ Preemptible
  /\ enabled' = [enabled EXCEPT ![sched.cur] = FALSE]
  /\ UNCHANGED <<sched, new, blocked>>

\* enable_preemption() at its end, and in pthread_start_thread.
Leave ==
  /\ Critical
  /\ enabled' = [enabled EXCEPT ![sched.cur] = TRUE]
  /\ sched' = enable_preemption(sched)
  /\ UNCHANGED <<new, blocked>>

\* The same in a call made with interrupts disabled (osenv_sleep releases the
\* process lock so): enable_preemption() does not yield then.
LeaveMasked ==
  /\ Critical
  /\ enabled' = [enabled EXCEPT ![sched.cur] = TRUE]
  /\ UNCHANGED <<sched, new, blocked>>

\* A library call has queued the running thread on what it waits for.
Block ==
  /\ ThreadRuns
  /\ blocked' = blocked \cup {sched.cur}
  /\ sched' = pthread_sched_reschedule(sched, "BLOCK")
  /\ UNCHANGED <<new, enabled>>

\* A library call of the running thread makes another one runnable.  Some do it
\* with preemption disabled, and yield at their end if they must; those that
\* only disable interrupts (oskit_pthread_wakeup, oskit_ipc_recv) do not yield.
WakeupByThread(t) ==
  /\ ThreadRuns
  /\ t \in blocked
  /\ blocked' = blocked \ {t}
  /\ sched' = pthread_sched_setrunnable(sched, t)
  /\ UNCHANGED <<new, enabled>>

\* pthread_sched_priority_transfer_and_wait: the running thread lends its
\* priority to the holder of what it waits for, and blocks.
PriorityTransferAndWait(target) ==
  /\ Critical
  /\ target \in Thread \ (new \cup {sched.cur})
  /\ blocked' = blocked \cup {sched.cur}
  /\ sched' = pthread_sched_reschedule(PriorityTransfer(sched, target), "BLOCK")
  /\ UNCHANGED <<new, enabled>>

\* The other end of it: the running thread gives a lent priority back and makes
\* the next holder runnable.
TransferUndoAndWakeup(t) ==
  /\ Critical
  /\ t \in blocked
  /\ blocked' = blocked \ {t}
  /\ sched' = pthread_sched_setrunnable(
                pthread_sched_priority_transfer_undo(sched, sched.cur), t)
  /\ UNCHANGED <<new, enabled>>

\* An interrupt handler makes a thread runnable; if it outranks the running one
\* it asks for a soft interrupt, which yields unless preemption is disabled.
WakeupByInterrupt(t) ==
  /\ t \in blocked
  /\ blocked' = blocked \ {t}
  /\ LET s == pthread_sched_setrunnable(sched, t)
     IN  sched' = IF Preemptible /\ CurPrio(s) < posix_runq_maxprio(s)
                  THEN pthread_sched_reschedule(s, "YIELD")
                  ELSE s
  /\ UNCHANGED <<new, enabled>>

\* The clock tick and the soft interrupt it requests: the preemption is put
\* off while preemption is disabled.
Tick ==
  /\ sched.cur # Idle
  /\ sched' = IF Preemptible
              THEN pthread_sched_reschedule(sched, "PREEMPT")
              ELSE [sched EXCEPT !.needed = TRUE]
  /\ UNCHANGED <<new, blocked, enabled>>

sched_yield ==
  /\ Preemptible
  /\ sched' = pthread_sched_reschedule(sched, "USERYIELD")
  /\ UNCHANGED <<new, blocked, enabled>>

\* oskit_pthread_setprio
oskit_pthread_setprio(t, p) ==
  /\ Preemptible
  /\ t \in Thread \ new
  /\ sched' = enable_preemption(
                pthread_sched_change_state(sched, t, sched.policy[t], p))
  /\ UNCHANGED <<new, blocked, enabled>>

Situation(t) ==
  CASE t = sched.cur -> "running"
    [] t \in blocked -> "blocked"
    [] OTHER         -> "ready"

\* pthread_setschedparam with another policy; with the same policy it is
\* oskit_pthread_setprio.
pthread_setschedparam(t, policy, p) ==
  /\ Preemptible
  /\ t \in Thread \ new
  /\ policy # sched.policy[t]
  /\ Situation(t) \in PolicyChanges
  /\ sched' = enable_preemption(pthread_sched_change_state(sched, t, policy, p))
  /\ UNCHANGED <<new, blocked, enabled>>

\* pthread_sched_handoff to a thread just taken off its wait queue.  With a
\* wait state the caller blocks, without one it stays at the head of its queue.
Handoff(t, wait) ==
  /\ Handoffs
  /\ ThreadRuns
  /\ t \in blocked
  /\ blocked' = (blocked \ {t}) \cup (IF wait THEN {sched.cur} ELSE {})
  /\ sched' = pthread_sched_handoff(sched, IF wait THEN "BLOCK" ELSE "YIELD", t)
  /\ UNCHANGED <<new, enabled>>

\* One turn of pthread_idle_function's loop.
IdlePoll ==
  /\ sched.cur = Idle
  /\ sched' = pthread_sched_reschedule(sched, "INTERNAL")
  /\ UNCHANGED <<new, blocked, enabled>>

Next ==
  \/ \E t \in Thread, policy \in UserPolicies, p \in Prio : Create(t, policy, p)
  \/ Enter
  \/ Leave
  \/ LeaveMasked
  \/ Block
  \/ \E t \in Thread : WakeupByThread(t)
  \/ \E t \in Thread : PriorityTransferAndWait(t)
  \/ \E t \in Thread : TransferUndoAndWakeup(t)
  \/ \E t \in Thread : WakeupByInterrupt(t)
  \/ Tick
  \/ sched_yield
  \/ \E t \in Thread, p \in Prio : oskit_pthread_setprio(t, p)
  \/ \E t \in Thread, policy \in UserPolicies, p \in Prio : pthread_setschedparam(t, policy, p)
  \/ \E t \in Thread, wait \in BOOLEAN : Handoff(t, wait)
  \/ IdlePoll

Spec == Init /\ [][Next]_vars

\* A library call ends, the idle thread polls, and a thread that is preemptible
\* again and again is at some time preemptible when the clock ticks.
Fairness ==
  /\ WF_vars(Leave)
  /\ WF_vars(IdlePoll)
  /\ SF_vars(Preemptible /\ Tick)

FairSpec == Spec /\ Fairness
-----------------------------------------------------------------------------
(* Safety                                                                  *)

\* The run queue is consistent (sched_posix.c): no thread is linked twice,
\* every queued thread is in the queue of its current priority although
\* priorities change while it is queued, threads_whichrunq has the bit of
\* exactly the non-empty queues, and the running thread is not queued.
RunqConsistent == RunqOK(sched) /\ ~sched.panic

\* No thread is lost and none is in two places: every thread is exactly one of
\* not created, running, on the run queue, or blocked in a library call.
EveryThreadAccounted ==
  LET running == {sched.cur} \ {Idle}
      ready == Ready(sched)
  IN  /\ Thread = running \cup ready \cup blocked \cup new
      /\ running \cap (ready \cup blocked \cup new) = {}
      /\ ready \cap (blocked \cup new) = {}
      /\ blocked \cap new = {}

\* While a thread runs, a ready thread of higher priority has always left
\* PREEMPT_NEEDED set, so the preemption is taken at the next chance: a tick, or
\* the end of a library call (directed switches and policy changes aside).
HigherPriorityIsPending ==
  sched.cur \in Thread /\ sched.pri[sched.cur] < posix_runq_maxprio(sched)
    => sched.needed

\* A thread that runs with preemption enabled is not outranked.
PreemptibleIsHighest ==
  Preemptible => sched.pri[sched.cur] >= posix_runq_maxprio(sched)

\* The steps in which the code looks for a thread to run: the end of a call with
\* preemption disabled, a yield, a block, the clock, and an interrupt handler's
\* wakeup.  A wakeup made with preemption enabled is none, and neither is
\* enable_preemption() with interrupts disabled.
ReschedulePoint ==
  \/ Leave \/ Block \/ Tick \/ sched_yield \/ IdlePoll
  \/ \E t \in Thread : PriorityTransferAndWait(t) \/ WakeupByInterrupt(t)
  \/ \E t \in Thread, p \in Prio :
       \/ oskit_pthread_setprio(t, p)
       \/ \E policy \in UserPolicies : Create(t, policy, p)

\* A preemption that is due is taken at the first chance and not put off again:
\* after a step that looks for a thread to run, no thread that runs with
\* preemption enabled is outranked, although the wakeup or the change of priority
\* that made the preemption due was made earlier, in an interrupt or with
\* preemption disabled, when PREEMPT_NEEDED was all that it left.
ReschedulesToHighest == [][~PreemptibleIsHighest' => ~ReschedulePoint]_vars

\* A SCHED_FIFO thread that can still run gives way only to a thread of higher
\* priority, or by its own sched_yield: neither the clock nor the wakeup of an
\* equal moves it (RESCHED_PREEMPT and RESCHED_YIELD put it at the head).  A step
\* that the clock could have made as well is not excused as a sched_yield.
FifoOnlyOutranked ==
  [][\A t \in Thread :
       /\ sched.cur = t
       /\ sched'.cur \in Thread \ {t}
       /\ sched.policy[t] = "FIFO"
       /\ t \notin blocked'
       /\ sched_yield => Tick
       => sched'.pri[sched'.cur] > sched'.pri[t]]_vars

\* doc/pthread.tex:1105-1107 on pthread_setschedparam: "If the change causes a
\* thread to have a higher priority than the currently running thread, a
\* reschedule operation is performed."  So when the call returns no thread that
\* could run outranks the one that does.
SetschedparamReschedules ==
  [][(\E t \in Thread, policy \in UserPolicies, p \in Prio :
        pthread_setschedparam(t, policy, p))
     => \A u \in Thread \ (new' \cup blocked') : sched'.pri[u] <= CurPrio(sched')]_vars
-----------------------------------------------------------------------------
(* Liveness                                                                *)

\* Round robin is fair: among threads of one priority every ready thread runs
\* in the end, whatever the others do (yield, block, wake each other, create
\* threads), because each quantum that ends puts the running one at the tail.
ReadyRuns ==
  \A t \in Thread : posix_runq_onrunq(sched, t) ~> sched.cur = t
=============================================================================
