----------------------------- MODULE PosixSched -----------------------------
(***************************************************************************)
(* The POSIX run queue (threads/sched_posix/sched_posix.c) and the part of *)
(* the scheduler interface (threads/pthread_scheduler.c) every other part  *)
(* of the threads library calls, as operators on one record s, the         *)
(* scheduler state of the single CPU of the default build:                 *)
(*                                                                         *)
(*   cur     CURPTHREAD(): the running thread, or Idle                     *)
(*   runq    threads_runq: one FIFO queue of threads for each level        *)
(*   which   threads_whichrunq: the set of levels whose bit is set         *)
(*   pri     pthread->priority, the priority the thread is scheduled at    *)
(*   base    pthread->base_priority, the priority it was given             *)
(*   policy  pthread->policy                                               *)
(*   ticks   pthread->ticks, what is left of a round-robin quantum         *)
(*   needed  PREEMPT_NEEDED                                                *)
(*   panic   a panic() of the scheduler was reached                        *)
(*                                                                         *)
(* Level l holds the threads of priority PRIORITY_MAX - l, so the lowest   *)
(* set bit of threads_whichrunq is the highest priority (ffs).             *)
(***************************************************************************)
EXTENDS OskitQueue, FiniteSetsExt

CONSTANTS
  Thread,            \* the threads the program creates
  Idle,              \* the idle thread, never queued
  NoThread,          \* NULL_THREADPTR
  PRIORITY_MAX,      \* 31 in oskit/threads/sched.h
  PRIORITY_NORMAL,   \* 16; the idle thread is created with it
  SCHED_RR_INTERVAL  \* 1 in pthread_internal.h

ASSUME SchedAssumption ==
  /\ Idle \notin Thread
  /\ NoThread \notin Thread \cup {Idle}
  /\ PRIORITY_MAX \in Nat
  /\ PRIORITY_NORMAL \in 0 .. PRIORITY_MAX
  /\ SCHED_RR_INTERVAL \in Nat \ {0}

Prio == 0 .. PRIORITY_MAX

Levels == 0 .. PRIORITY_MAX

Policies == {"FIFO", "RR"}

SchedState ==
  [cur    : Thread \cup {Idle},
   runq   : [Levels -> Seq(Thread)],
   which  : SUBSET Levels,
   pri    : [Thread -> Prio],
   base   : [Thread -> Prio],
   policy : [Thread -> Policies],
   ticks  : [Thread -> 1 .. SCHED_RR_INTERVAL],
   needed : BOOLEAN,
   panic  : BOOLEAN]

-----------------------------------------------------------------------------
(* sched_posix.c, the run queue                                            *)

Level(p) == PRIORITY_MAX - p

\* posix_runq_onrunq tests pthread->runq.next, which is non-zero exactly
\* while the thread is linked in one of the queues.
posix_runq_onrunq(s, t) == \E l \in Levels : t \in Range(s.runq[l])

Ready(s) == {t \in Thread : posix_runq_onrunq(s, t)}

posix_runq_maxprio(s) ==
  IF s.which = {} THEN -1 ELSE PRIORITY_MAX - Min(s.which)

posix_runq_insert_tail(s, t) ==
  LET l == Level(s.pri[t])
  IN  [s EXCEPT !.runq[l] = Append(@, t), !.which = @ \cup {l}]

posix_runq_insert_head(s, t) ==
  LET l == Level(s.pri[t])
  IN  [s EXCEPT !.runq[l] = queue_enter_first(@, t), !.which = @ \cup {l}]

\* The bit of level l is cleared when its queue becomes empty.
ClearIfEmpty(which, l, q) == IF q = <<>> THEN which \ {l} ELSE which

\* Only called with a bit set.  The thread removed becomes the running one.
posix_runq_dequeue(s) ==
  LET l == Min(s.which)
      q == Tail(s.runq[l])
  IN  [s EXCEPT !.cur = Head(s.runq[l]), !.runq[l] = q,
                !.which = ClearIfEmpty(@, l, q)]

\* The queue is found through the priority the thread has now.
posix_runq_remove(s, t) ==
  LET l == Level(s.pri[t])
      q == queue_remove(s.runq[l], t)
  IN  [s EXCEPT !.runq[l] = q, !.which = ClearIfEmpty(@, l, q)]

-----------------------------------------------------------------------------
(* sched_posix.c, the routines pthread_scheduler.c calls                   *)

\* CURPTHREAD()->priority: the idle thread keeps its default.
CurPrio(s) == IF s.cur = Idle THEN PRIORITY_NORMAL ELSE s.pri[s.cur]

\* The tail of every routine that changes the run queue or a priority.
NotePreempt(s) ==
  IF CurPrio(s) < posix_runq_maxprio(s) THEN [s EXCEPT !.needed = TRUE] ELSE s

\* Mutant: the thread that becomes runnable is not compared with the running one.
Mut_setrunnable(s, t) ==
  IF posix_runq_onrunq(s, t)
  THEN [s EXCEPT !.panic = TRUE]
  ELSE posix_runq_insert_tail(s, t)

posix_sched_setrunnable(s, t) ==
  IF posix_runq_onrunq(s, t)
  THEN [s EXCEPT !.panic = TRUE]
  ELSE NotePreempt(posix_runq_insert_tail(s, t))

posix_sched_disassociate(s, t) ==
  IF posix_runq_onrunq(s, t) THEN posix_runq_remove(s, t) ELSE s

posix_sched_init_schedstate(s, t, p) ==
  [s EXCEPT !.base[t] = p, !.pri[t] = p, !.ticks[t] = SCHED_RR_INTERVAL]

\* Mutant: a queued thread stays in the queue of its old priority.
Mut_SetPriority(s, t, p) == [s EXCEPT !.pri[t] = p]

\* A queued thread is taken off the queue of its old priority first.
SetPriority(s, t, p) ==
  IF posix_runq_onrunq(s, t)
  THEN posix_runq_insert_tail([posix_runq_remove(s, t) EXCEPT !.pri[t] = p], t)
  ELSE [s EXCEPT !.pri[t] = p]

posix_sched_change_state(s, t, p) ==
  IF s.base[t] = p
  THEN s
  ELSE NotePreempt(SetPriority([s EXCEPT !.base[t] = p], t, p))

posix_sched_priority_bump(s, t, p) ==
  IF s.pri[t] = p
  THEN s
  ELSE NotePreempt(SetPriority(s, t, IF p > PRIORITY_MAX THEN PRIORITY_MAX ELSE p))

\* Mutant: the quantum is not started again.
Mut_dispatch_NoReset(s, reason) ==
  IF reason = "PREEMPT" /\ s.policy[s.cur] = "RR"
  THEN [posix_runq_insert_tail(s, s.cur) EXCEPT !.ticks[s.cur] = @ - 1]
  ELSE IF reason \in {"BLOCK", "INTERNAL"} THEN s ELSE posix_runq_insert_head(s, s.cur)

\* Mutant: the clock does not requeue a FIFO thread ("this has no real effect").
Mut_dispatch_FifoDropped(s, reason) ==
  CASE reason = "USERYIELD" -> posix_runq_insert_tail(s, s.cur)
    [] reason = "YIELD" -> posix_runq_insert_head(s, s.cur)
    [] reason = "PREEMPT" /\ s.policy[s.cur] = "RR" -> posix_runq_insert_tail(s, s.cur)
    [] OTHER -> s

\* Mutant: the clock puts a FIFO thread at the tail of its queue.
Mut_dispatch_FifoRotates(s, reason) ==
  CASE reason = "USERYIELD" -> posix_runq_insert_tail(s, s.cur)
    [] reason = "YIELD" -> posix_runq_insert_head(s, s.cur)
    [] reason = "PREEMPT" /\ s.policy[s.cur] = "FIFO" -> posix_runq_insert_tail(s, s.cur)
    [] reason = "PREEMPT" /\ s.policy[s.cur] = "RR" /\ s.ticks[s.cur] = 1 ->
         [posix_runq_insert_tail(s, s.cur) EXCEPT !.ticks[s.cur] = SCHED_RR_INTERVAL]
    [] reason = "PREEMPT" /\ s.policy[s.cur] = "RR" /\ s.ticks[s.cur] # 1 ->
         [posix_runq_insert_head(s, s.cur) EXCEPT !.ticks[s.cur] = @ - 1]
    [] OTHER -> s

\* Mutant: a thread whose quantum is over goes back to the head.
Mut_dispatch_NoRotation(s, reason) ==
  CASE reason = "USERYIELD" -> posix_runq_insert_tail(s, s.cur)
    [] reason \in {"YIELD", "PREEMPT"} -> posix_runq_insert_head(s, s.cur)
    [] OTHER -> s

\* What becomes of the running thread: RESCHED_BLOCK and
\* RESCHED_INTERNAL leave it off the queue.
posix_sched_dispatch(s, reason) ==
  LET t == s.cur
  IN  CASE reason = "USERYIELD" -> posix_runq_insert_tail(s, t)
        [] reason = "YIELD"     -> posix_runq_insert_head(s, t)
        [] reason = "PREEMPT"   ->
             IF s.policy[t] = "FIFO"
             THEN posix_runq_insert_head(s, t)
             ELSE IF s.ticks[t] = 1
                  THEN [posix_runq_insert_tail(s, t)
                          EXCEPT !.ticks[t] = SCHED_RR_INTERVAL]
                  ELSE [posix_runq_insert_head(s, t) EXCEPT !.ticks[t] = @ - 1]
        [] reason \in {"BLOCK", "INTERNAL"} -> s

-----------------------------------------------------------------------------
(* pthread_scheduler.c                                                     *)

\* The head of the highest non-empty queue, the idle thread when there is none.
thread_next(s) ==
  IF s.which = {} THEN [s EXCEPT !.cur = Idle] ELSE posix_runq_dequeue(s)

\* pthread_sched_dispatch without a thread to switch to.
pthread_sched_reschedule(s, reason) ==
  thread_next([posix_sched_dispatch(s, reason) EXCEPT !.needed = FALSE])

\* pthread_sched_dispatch to the given thread, past the run queue.
pthread_sched_handoff(s, reason, pnext) ==
  [posix_sched_dispatch(s, reason) EXCEPT !.needed = FALSE, !.cur = pnext]

pthread_sched_init_schedstate(s, t, policy, p) ==
  posix_sched_init_schedstate([s EXCEPT !.policy[t] = policy], t, p)

pthread_sched_setrunnable(s, t) == posix_sched_setrunnable(s, t)

\* A change of policy leaves the thread's scheduler and joins the new one,
\* here the same one; policy -1 of the code is the policy it has.
pthread_sched_change_state(s, t, policy, p) ==
  IF s.policy[t] # policy
  THEN pthread_sched_init_schedstate(posix_sched_disassociate(s, t), t, policy, p)
  ELSE posix_sched_change_state(s, t, p)

\* Mutant: only a holder that is ready is lent the priority.
Mut_PriorityTransfer(s, target) ==
  IF CurPrio(s) > s.pri[target] /\ posix_runq_onrunq(s, target)
  THEN posix_sched_priority_bump(s, target, CurPrio(s))
  ELSE s

\* The lending half of pthread_sched_priority_transfer_and_wait; the wait is
\* the reschedule that follows it.
PriorityTransfer(s, target) ==
  IF CurPrio(s) > s.pri[target]
  THEN posix_sched_priority_bump(s, target, CurPrio(s))
  ELSE s

\* Mutant: a raised priority is taken for the thread's own.
Mut_transfer_undo(s, t) ==
  IF s.pri[t] < s.base[t] THEN posix_sched_priority_bump(s, t, s.base[t]) ELSE s

pthread_sched_priority_transfer_undo(s, t) ==
  IF s.pri[t] # s.base[t] THEN posix_sched_priority_bump(s, t, s.base[t]) ELSE s

\* Mutant: the preemption that was put off is forgotten.
Mut_enable_preemption(s) == s

\* enable_preemption() with interrupts enabled: a pending preemption is taken.
enable_preemption(s) ==
  IF s.needed THEN pthread_sched_reschedule(s, "YIELD") ELSE s

-----------------------------------------------------------------------------
(* pthread_internal.c, wait queues                                         *)

\* Mutant: the last of the waiters of the highest priority.
Mut_dequeue_fromQ(s, q) ==
  q[CHOOSE i \in DOMAIN q :
      \A j \in DOMAIN q : s.pri[q[j]] <= s.pri[q[i]] /\ (j > i => s.pri[q[j]] < s.pri[q[i]])]

\* Mutant: the one that came first, whatever its priority.
Mut_dequeue_fromQ_First(s, q) == Head(q)

\* The thread the wait queue q gives up: the first of those of the highest
\* priority.  The caller unlinks it.
pthread_dequeue_fromQ(s, q) ==
  q[CHOOSE i \in DOMAIN q :
      \A j \in DOMAIN q : s.pri[q[j]] <= s.pri[q[i]] /\ (j < i => s.pri[q[j]] < s.pri[q[i]])]

-----------------------------------------------------------------------------
(* The parts of run queue correctness.                                     *)

\* A queued thread is in the queue of the priority it has.
QueuedAtPriority(s) ==
  \A l \in Levels : \A t \in Range(s.runq[l]) : Level(s.pri[t]) = l

\* The bit of a level is set exactly when its queue is not empty.
BitsMatch(s) == \A l \in Levels : l \in s.which <=> s.runq[l] # <<>>

QueuesOK(s) ==
  /\ \A l \in Levels : IsInjective(s.runq[l])
  /\ QueuedAtPriority(s)
  /\ BitsMatch(s)

RunqOK(s) == QueuesOK(s) /\ ~posix_runq_onrunq(s, s.cur)
=============================================================================
