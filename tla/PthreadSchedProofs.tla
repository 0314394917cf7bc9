------------------------- MODULE PthreadSchedProofs -------------------------
(***************************************************************************)
(* The safety of the scheduler for any number of threads, priorities and   *)
(* ticks of a quantum.                                                     *)
(***************************************************************************)
EXTENDS PthreadSched, PosixSchedProofs

\* The inductive invariant.  The three parts need each other: a wakeup panics
\* unless the blocked thread is off the run queue (EveryThreadAccounted), and a
\* thread can be moved from one queue to another only if it is found in the
\* queue of its priority (RunqConsistent).
IInv == TypeOK /\ RunqConsistent /\ EveryThreadAccounted

\* What the operations of the scheduler need, from the invariant.
LEMMA IInvFacts ==
  ASSUME IInv
  PROVE  /\ sched \in SchedState /\ QueuesOK(sched) /\ ~sched.panic
         /\ sched.cur \in Thread \cup {Idle} /\ sched.cur \notin Ready(sched)
         /\ \A t \in blocked \cup new : t \in Thread /\ t \notin Ready(sched) /\ t # sched.cur
         /\ Ready(sched) \subseteq Thread
  <1>1. sched.cur \in Thread \cup {Idle}  BY DEF IInv, TypeOK, SchedState
  <1>2. Ready(sched) \subseteq Thread  BY DEF Ready
  <1>3. sched.cur \notin Ready(sched)
    BY <1>1, <1>2, SchedAssumption DEF IInv, RunqConsistent, RunqOK, Ready
  <1>4. \A t \in blocked \cup new : t \in Thread /\ t \notin Ready(sched) /\ t # sched.cur
    BY <1>1, SchedAssumption DEF IInv, TypeOK, EveryThreadAccounted
  <1> QED BY SMTT(30), <1>1, <1>2, <1>3, <1>4 DEF IInv, TypeOK, RunqConsistent, RunqOK

\* The queues hold threads of the program only.
LEMMA IdleNotQueued == \A s \in SchedState : ~posix_runq_onrunq(s, Idle)
  <1>1. ASSUME NEW s \in SchedState, NEW l \in Levels PROVE Range(s.runq[l]) \subseteq Thread
    <2>1. s.runq[l] \in Seq(Thread)  BY DEF SchedState
    <2> QED BY <2>1, SeqLength DEF Range
  <1> QED BY <1>1, SchedAssumption DEF posix_runq_onrunq

\* A step that moves threads between the four places keeps the invariant.
LEMMA Regroup ==
  ASSUME sched' \in SchedState, RunqOK(sched'), ~sched'.panic,
         new' \subseteq Thread, blocked' \subseteq Thread, enabled' \in [Thread -> BOOLEAN],
         sched'.cur \in Thread \cup {Idle},
         ({sched'.cur} \ {Idle}) \cup Ready(sched') = Thread \ (blocked' \cup new'),
         blocked' \cap new' = {}
  PROVE  IInv'
  <1>1. Ready(sched') \subseteq Thread  BY DEF Ready
  <1>2. sched'.cur \notin Ready(sched')
    BY <1>1, SchedAssumption DEF RunqOK, Ready
  <1>3. EveryThreadAccounted'  BY <1>1, <1>2, SchedAssumption DEF EveryThreadAccounted
  <1> QED BY <1>3 DEF IInv, TypeOK, RunqConsistent

LEMMA InitIInv == Init => IInv
  <1> SUFFICES ASSUME Init PROVE IInv  OBVIOUS
  <1>1. sched \in SchedState
    <2>1. SCHED_RR_INTERVAL \in 1 .. SCHED_RR_INTERVAL /\ PRIORITY_NORMAL \in Prio
      BY SchedAssumption DEF Prio
    <2>2. <<>> \in Seq(Thread)  OBVIOUS
    <2> QED BY <2>1, <2>2, PthreadSchedAssumption DEF Init, SchedState, Policies
  <1>2. \A l \in Levels : sched.runq[l] = <<>> /\ Range(sched.runq[l]) = {}
    BY DEF Init, Range
  <1>3. Ready(sched) = {} /\ ~posix_runq_onrunq(sched, sched.cur)
    BY Zenon, <1>2 DEF Ready, posix_runq_onrunq
  <1>4. QueuesOK(sched)
    <2>1. IsInjective(<<>>)  BY DEF IsInjective
    <2> QED BY <1>2, <2>1 DEF QueuesOK, QueuedAtPriority, BitsMatch, Init
  <1>5. EveryThreadAccounted
    BY Zenon, <1>3, SchedAssumption, PthreadSchedAssumption DEF EveryThreadAccounted, Init
  <1> QED BY Zenon, <1>1, <1>3, <1>4, <1>5, PthreadSchedAssumption
          DEF IInv, TypeOK, RunqConsistent, RunqOK, Init

LEMMA CreateStep ==
  ASSUME IInv, NEW t \in Thread, NEW policy \in UserPolicies, NEW p \in Prio, Create(t, policy, p)
  PROVE  IInv'
  <1> DEFINE i == pthread_sched_init_schedstate(sched, t, policy, p)
             w == pthread_sched_setrunnable(i, t)
  <1>1. t \in new /\ sched.cur \in Thread  BY DEF Create, Preemptible
  <1>2. policy \in Policies  BY PthreadSchedAssumption
  <1>3. /\ i \in SchedState /\ QueuesOK(i) /\ Ready(i) = Ready(sched)
        /\ i.cur = sched.cur /\ i.panic = sched.panic
    <2>1. sched \in SchedState /\ QueuesOK(sched) /\ t \notin Ready(sched)  BY <1>1, IInvFacts
    <2> QED BY <1>2, <2>1, InitSchedstateLemma
  <1> HIDE DEF i
  <1>4. /\ w \in SchedState /\ QueuesOK(w) /\ Ready(w) = Ready(i) \cup {t}
        /\ w.cur = i.cur /\ w.panic = i.panic
    BY SMTT(30), <1>1, <1>3, IInvFacts, SetrunnableLemma
  <1> HIDE DEF w
  <1>5. w.cur \in Thread /\ w.cur \notin Ready(w)
    BY <1>1, <1>3, <1>4, IInvFacts
  <1>6. sched' = enable_preemption(w)  BY DEF Create, w, i
  <1>7. /\ sched' \in SchedState /\ RunqOK(sched') /\ sched'.cur \in Thread
        /\ sched'.cur \in Ready(w) \cup {w.cur}
        /\ Ready(sched') = (Ready(w) \cup {w.cur}) \ {sched'.cur}
        /\ sched'.panic = w.panic
    BY <1>4, <1>5, <1>6, EnablePreemptionLemma
  <1>8. new' = new \ {t} /\ blocked' = blocked /\ enabled' = enabled  BY DEF Create
  <1>9. ({sched'.cur} \ {Idle}) \cup Ready(sched') = Thread \ (blocked' \cup new')
    BY SMTT(30), <1>1, <1>3, <1>4, <1>7, <1>8, SchedAssumption, IInvFacts DEF IInv, EveryThreadAccounted
  <1> QED BY <1>3, <1>4, <1>7, <1>8, <1>9, IInvFacts, Regroup DEF IInv, TypeOK, EveryThreadAccounted

\* The running thread, or a ready one, runs after a step that moves no other.
LEMMA SwitchStep ==
  ASSUME IInv, sched.cur \in Thread,
         sched' \in SchedState, RunqOK(sched'), sched'.cur \in Ready(sched) \cup {sched.cur},
         Ready(sched') = (Ready(sched) \cup {sched.cur}) \ {sched'.cur},
         sched'.panic = sched.panic, new' = new, blocked' = blocked,
         enabled' \in [Thread -> BOOLEAN]
  PROVE  IInv'
  <1>1. sched'.cur \in Thread  BY IInvFacts
  <1>2. ({sched'.cur} \ {Idle}) \cup Ready(sched') = Thread \ (blocked' \cup new')
    BY SMTT(30), <1>1, SchedAssumption, IInvFacts DEF IInv, EveryThreadAccounted
  <1> QED BY SMTT(30), <1>1, <1>2, IInvFacts, Regroup DEF IInv, TypeOK, EveryThreadAccounted

LEMMA BlockStep == ASSUME IInv, Block PROVE IInv'
  <1>1. /\ sched.cur \in Thread /\ blocked' = blocked \cup {sched.cur}
        /\ sched' = pthread_sched_reschedule(sched, "BLOCK") /\ new' = new /\ enabled' = enabled
    BY DEF Block, ThreadRuns
  <1>2. /\ sched' \in SchedState /\ RunqOK(sched')
        /\ sched'.cur \in Ready(sched) \/ (sched'.cur = Idle /\ Ready(sched) = {})
        /\ Ready(sched') = Ready(sched) \ {sched'.cur}
        /\ sched'.panic = sched.panic
    BY SMTT(30), <1>1, IInvFacts, BlockLemma
  <1>3. ({sched'.cur} \ {Idle}) \cup Ready(sched') = Thread \ (blocked' \cup new')
    BY SMTT(30), <1>1, <1>2, SchedAssumption, IInvFacts DEF IInv, EveryThreadAccounted
  <1> QED BY SMTT(30), <1>1, <1>2, <1>3, IInvFacts, Regroup DEF IInv, TypeOK, EveryThreadAccounted

LEMMA WakeupByThreadStep ==
  ASSUME IInv, NEW t \in Thread, WakeupByThread(t) PROVE IInv'
  <1>1. /\ t \in blocked /\ blocked' = blocked \ {t}
        /\ sched' = pthread_sched_setrunnable(sched, t) /\ new' = new /\ enabled' = enabled
    BY DEF WakeupByThread
  <1>2. /\ sched' \in SchedState /\ QueuesOK(sched') /\ Ready(sched') = Ready(sched) \cup {t}
        /\ sched'.cur = sched.cur /\ sched'.panic = sched.panic
    BY SMTT(30), <1>1, IInvFacts, SetrunnableLemma
  <1>3. RunqOK(sched')
    <2>1. sched'.cur \notin Ready(sched')  BY SMTT(30), <1>1, <1>2, IInvFacts
    <2>2. CASE sched'.cur \in Thread  BY SMTT(30), <1>2, <2>1, <2>2, OnRunqLemma DEF RunqOK
    <2>3. CASE sched'.cur = Idle  BY SMTT(30), <1>2, <2>3, IdleNotQueued DEF RunqOK
    <2> QED BY SMTT(30), <1>2, <2>2, <2>3, IInvFacts
  <1>4. ({sched'.cur} \ {Idle}) \cup Ready(sched') = Thread \ (blocked' \cup new')
    BY SMTT(30), <1>1, <1>2, SchedAssumption, IInvFacts DEF IInv, EveryThreadAccounted
  <1> QED BY SMTT(30), <1>1, <1>2, <1>3, <1>4, IInvFacts, Regroup DEF IInv, TypeOK, EveryThreadAccounted

LEMMA TransferStep ==
  ASSUME IInv, NEW t \in Thread, PriorityTransferAndWait(t) PROVE IInv'
  <1> DEFINE l == PriorityTransfer(sched, t)
  <1>1. /\ sched.cur \in Thread /\ blocked' = blocked \cup {sched.cur}
        /\ sched' = pthread_sched_reschedule(l, "BLOCK") /\ new' = new /\ enabled' = enabled
    BY DEF PriorityTransferAndWait, Critical
  <1>2. /\ l \in SchedState /\ QueuesOK(l) /\ Ready(l) = Ready(sched) /\ l.panic = sched.panic
    BY SMTT(30), <1>1, IInvFacts, TransferLemma
  <1> HIDE DEF l
  <1>3. /\ sched' \in SchedState /\ RunqOK(sched')
        /\ sched'.cur \in Ready(l) \/ (sched'.cur = Idle /\ Ready(l) = {})
        /\ Ready(sched') = Ready(l) \ {sched'.cur}
        /\ sched'.panic = l.panic
    BY SMTT(30), <1>1, <1>2, BlockLemma
  <1>4. ({sched'.cur} \ {Idle}) \cup Ready(sched') = Thread \ (blocked' \cup new')
    BY SMTT(30), <1>1, <1>2, <1>3, SchedAssumption, IInvFacts DEF IInv, EveryThreadAccounted
  <1> QED BY SMTT(30), <1>1, <1>2, <1>3, <1>4, IInvFacts, Regroup DEF IInv, TypeOK, EveryThreadAccounted

LEMMA TransferUndoStep ==
  ASSUME IInv, NEW t \in Thread, TransferUndoAndWakeup(t) PROVE IInv'
  <1> DEFINE u == pthread_sched_priority_transfer_undo(sched, sched.cur)
  <1>1. /\ t \in blocked /\ blocked' = blocked \ {t} /\ sched.cur \in Thread
        /\ sched' = pthread_sched_setrunnable(u, t) /\ new' = new /\ enabled' = enabled
    BY DEF TransferUndoAndWakeup, Critical
  <1>2. /\ u \in SchedState /\ QueuesOK(u) /\ Ready(u) = Ready(sched)
        /\ u.cur = sched.cur /\ u.panic = sched.panic
    BY SMTT(30), <1>1, IInvFacts, TransferUndoLemma
  <1> HIDE DEF u
  <1>3. /\ sched' \in SchedState /\ QueuesOK(sched') /\ Ready(sched') = Ready(u) \cup {t}
        /\ sched'.cur = u.cur /\ sched'.panic = u.panic
    BY SMTT(30), <1>1, <1>2, IInvFacts, SetrunnableLemma
  <1>4. RunqOK(sched')
    <2>1. sched'.cur \in Thread /\ sched'.cur \notin Ready(sched')  BY SMTT(30), <1>1, <1>2, <1>3, IInvFacts
    <2> QED BY SMTT(30), <1>3, <2>1, OnRunqLemma DEF RunqOK
  <1>5. ({sched'.cur} \ {Idle}) \cup Ready(sched') = Thread \ (blocked' \cup new')
    BY SMTT(30), <1>1, <1>2, <1>3, SchedAssumption, IInvFacts DEF IInv, EveryThreadAccounted
  <1> QED BY SMTT(30), <1>1, <1>2, <1>3, <1>4, <1>5, IInvFacts, Regroup DEF IInv, TypeOK, EveryThreadAccounted

LEMMA WakeupByInterruptStep ==
  ASSUME IInv, NEW t \in Thread, WakeupByInterrupt(t) PROVE IInv'
  <1> DEFINE s == pthread_sched_setrunnable(sched, t)
  <1>1. /\ t \in blocked /\ blocked' = blocked \ {t} /\ new' = new /\ enabled' = enabled
        /\ sched' = s \/ (sched.cur \in Thread /\ sched' = pthread_sched_reschedule(s, "YIELD"))
    BY DEF WakeupByInterrupt, Preemptible
  <1>2. /\ s \in SchedState /\ QueuesOK(s) /\ Ready(s) = Ready(sched) \cup {t}
        /\ s.cur = sched.cur /\ s.panic = sched.panic /\ s.cur \notin Ready(s)
    BY SMTT(30), <1>1, IInvFacts, SetrunnableLemma
  <1>3. RunqOK(s)
    <2>1. CASE s.cur \in Thread  BY SMTT(30), <1>2, <2>1, OnRunqLemma DEF RunqOK
    <2>2. CASE s.cur = Idle  BY SMTT(30), <1>2, <2>2, IdleNotQueued DEF RunqOK
    <2> QED BY SMTT(30), <1>2, <2>1, <2>2, IInvFacts
  <1> HIDE DEF s
  <1>4. /\ sched' \in SchedState /\ RunqOK(sched') /\ sched'.panic = s.panic
        /\ sched'.cur \in Thread \cup {Idle}
        /\ ({sched'.cur} \ {Idle}) \cup Ready(sched') = ({s.cur} \ {Idle}) \cup Ready(s)
    <2>1. CASE sched' = s  BY SMTT(30), <1>2, <1>3, <2>1, IInvFacts
    <2>2. CASE sched.cur \in Thread /\ sched' = pthread_sched_reschedule(s, "YIELD")
      <3>1. /\ sched' \in SchedState /\ RunqOK(sched')
            /\ sched'.cur \in Ready(s) \cup {s.cur} /\ sched'.cur \in Thread
            /\ Ready(sched') = (Ready(s) \cup {s.cur}) \ {sched'.cur} /\ sched'.panic = s.panic
        BY SMTT(30), <1>2, <2>2, RescheduleLemma
      <3> QED BY SMTT(30), <3>1, <1>2, <2>2, SchedAssumption
    <2> QED BY <1>1, <2>1, <2>2
  <1>5. ({sched'.cur} \ {Idle}) \cup Ready(sched') = Thread \ (blocked' \cup new')
    BY SMTT(30), <1>1, <1>2, <1>4, SchedAssumption, IInvFacts DEF IInv, EveryThreadAccounted
  <1> QED BY SMTT(30), <1>1, <1>2, <1>4, <1>5, IInvFacts, Regroup DEF IInv, TypeOK, EveryThreadAccounted

\* A step that leaves every thread in its place.
LEMMA StayStep ==
  ASSUME IInv, sched' \in SchedState, QueuesOK(sched'), Ready(sched') = Ready(sched),
         sched'.cur = sched.cur, sched'.panic = sched.panic,
         new' = new, blocked' = blocked, enabled' \in [Thread -> BOOLEAN]
  PROVE  IInv'
  <1>1. RunqOK(sched')
    <2>1. CASE sched'.cur \in Thread  BY <2>1, OnRunqLemma, IInvFacts DEF RunqOK
    <2>2. CASE sched'.cur = Idle  BY <2>2, IdleNotQueued DEF RunqOK
    <2> QED BY SMTT(30), <2>1, <2>2, IInvFacts
  <1>2. ({sched'.cur} \ {Idle}) \cup Ready(sched') = Thread \ (blocked' \cup new')
    BY SchedAssumption, IInvFacts DEF IInv, EveryThreadAccounted
  <1> QED BY SMTT(30), <1>1, <1>2, IInvFacts, Regroup DEF IInv, TypeOK, EveryThreadAccounted

LEMMA TickStep == ASSUME IInv, Tick PROVE IInv'
  <1>1. /\ sched.cur \in Thread /\ new' = new /\ blocked' = blocked /\ enabled' = enabled
        /\ \/ sched' = pthread_sched_reschedule(sched, "PREEMPT")
           \/ sched' = [sched EXCEPT !.needed = TRUE]
    BY IInvFacts DEF Tick
  <1>2. CASE sched' = pthread_sched_reschedule(sched, "PREEMPT")
    <2>1. /\ sched' \in SchedState /\ RunqOK(sched') /\ sched'.cur \in Ready(sched) \cup {sched.cur}
          /\ Ready(sched') = (Ready(sched) \cup {sched.cur}) \ {sched'.cur}
          /\ sched'.panic = sched.panic
      BY <1>1, <1>2, IInvFacts, RescheduleLemma
    <2> QED BY <1>1, <2>1, SwitchStep DEF IInv, TypeOK
  <1>3. CASE sched' = [sched EXCEPT !.needed = TRUE]
    <2>1. /\ sched' \in SchedState /\ sched'.runq = sched.runq /\ sched'.which = sched.which
          /\ sched'.pri = sched.pri /\ sched'.cur = sched.cur /\ sched'.panic = sched.panic
      BY Zenon, <1>3, IInvFacts DEF SchedState
    <2>2. QueuesOK(sched') /\ Ready(sched') = Ready(sched)  BY <2>1, IInvFacts, SameQueueLemma
    <2> QED BY SMTT(30), <1>1, <2>1, <2>2, StayStep DEF IInv, TypeOK
  <1> QED BY <1>1, <1>2, <1>3

LEMMA EnterLeaveStep == ASSUME IInv, Enter \/ Leave \/ LeaveMasked PROVE IInv'
  <1>1. CASE Enter \/ LeaveMasked
    BY Zenon, <1>1, StayStep, IInvFacts DEF Enter, LeaveMasked, IInv, TypeOK
  <1>2. CASE Leave
    <2>1. /\ sched.cur \in Thread /\ sched' = enable_preemption(sched)
          /\ enabled' = [enabled EXCEPT ![sched.cur] = TRUE] /\ new' = new /\ blocked' = blocked
      BY <1>2 DEF Leave, Critical
    <2>2. /\ sched' \in SchedState /\ RunqOK(sched')
          /\ sched'.cur \in Ready(sched) \cup {sched.cur}
          /\ Ready(sched') = (Ready(sched) \cup {sched.cur}) \ {sched'.cur}
          /\ sched'.panic = sched.panic
      BY <2>1, IInvFacts, EnablePreemptionLemma
    <2> QED BY <2>1, <2>2, SwitchStep DEF IInv, TypeOK
  <1> QED BY <1>1, <1>2

LEMMA YieldStep == ASSUME IInv, sched_yield PROVE IInv'
  <1>1. /\ sched.cur \in Thread /\ sched' = pthread_sched_reschedule(sched, "USERYIELD")
        /\ new' = new /\ blocked' = blocked /\ enabled' = enabled
    BY DEF sched_yield, Preemptible
  <1>2. /\ sched' \in SchedState /\ RunqOK(sched') /\ sched'.cur \in Ready(sched) \cup {sched.cur}
        /\ Ready(sched') = (Ready(sched) \cup {sched.cur}) \ {sched'.cur}
        /\ sched'.panic = sched.panic
    BY SMTT(30), <1>1, IInvFacts, RescheduleLemma
  <1> QED BY <1>1, <1>2, SwitchStep DEF IInv, TypeOK

\* Both ways to change the parameters of a thread end in enable_preemption().
LEMMA ParamStep ==
  ASSUME IInv, sched.cur \in Thread, NEW r \in SchedState, QueuesOK(r), Ready(r) = Ready(sched),
         r.cur = sched.cur, r.panic = sched.panic, sched' = enable_preemption(r),
         new' = new, blocked' = blocked, enabled' = enabled
  PROVE  IInv'
  <1>1. /\ sched' \in SchedState /\ RunqOK(sched')
        /\ sched'.cur \in Ready(r) \cup {r.cur}
        /\ Ready(sched') = (Ready(r) \cup {r.cur}) \ {sched'.cur}
        /\ sched'.panic = r.panic
    BY SMTT(30), IInvFacts, EnablePreemptionLemma
  <1> QED BY SMTT(30), <1>1, SwitchStep DEF IInv, TypeOK

\* The same without the assumption on a pending preemption.
LEMMA PlainChangeLemma ==
  ASSUME NEW s \in SchedState, QueuesOK(s), NEW t \in Thread, NEW p \in Prio
  PROVE  LET r == posix_sched_change_state(s, t, p)
         IN  /\ r \in SchedState /\ QueuesOK(r) /\ Ready(r) = Ready(s)
             /\ r.cur = s.cur /\ r.panic = s.panic
  <1> DEFINE b == [s EXCEPT !.base[t] = p]
             q == SetPriority(b, t, p)
             n == NotePreempt(q)
  <1>1. /\ b \in SchedState /\ b.runq = s.runq /\ b.which = s.which /\ b.pri = s.pri
        /\ b.cur = s.cur /\ b.panic = s.panic
    BY Zenon DEF SchedState
  <1>2. posix_sched_change_state(s, t, p) = IF s.base[t] = p THEN s ELSE n
    BY DEF posix_sched_change_state
  <1> HIDE DEF b
  <1>3. QueuesOK(b) /\ Ready(b) = Ready(s)  BY <1>1, SameQueueLemma
  <1>4. /\ q \in SchedState /\ QueuesOK(q) /\ Ready(q) = Ready(b)
        /\ q.cur = b.cur /\ q.panic = b.panic
    BY Zenon, <1>1, <1>3, SetPriorityLemma
  <1> HIDE DEF q
  <1>5. /\ n \in SchedState /\ QueuesOK(n) /\ Ready(n) = Ready(q)
        /\ n.cur = q.cur /\ n.panic = q.panic
    BY <1>4, NotePreemptLemma
  <1> HIDE DEF n
  <1> QED BY SMTT(30), <1>1, <1>2, <1>3, <1>4, <1>5

LEMMA SetprioStep ==
  ASSUME IInv, NEW t \in Thread, NEW p \in Prio, oskit_pthread_setprio(t, p) PROVE IInv'
  <1> DEFINE r == posix_sched_change_state(sched, t, p)
  <1>1. /\ sched.cur \in Thread /\ sched' = enable_preemption(r)
        /\ new' = new /\ blocked' = blocked /\ enabled' = enabled
    BY DEF oskit_pthread_setprio, Preemptible, pthread_sched_change_state
  <1>2. /\ r \in SchedState /\ QueuesOK(r) /\ Ready(r) = Ready(sched)
        /\ r.cur = sched.cur /\ r.panic = sched.panic
    BY IInvFacts, PlainChangeLemma
  <1> HIDE DEF r
  <1> QED BY <1>1, <1>2, ParamStep

\* A change of policy is safe for a thread that is not on the run queue.
LEMMA SetschedparamStep ==
  ASSUME "ready" \notin PolicyChanges, IInv, NEW t \in Thread, NEW policy \in UserPolicies,
         NEW p \in Prio, pthread_setschedparam(t, policy, p)
  PROVE  IInv'
  <1> DEFINE r == pthread_sched_init_schedstate(sched, t, policy, p)
  <1>1. t \notin Ready(sched)
    <2>1. t = sched.cur \/ t \in blocked
      BY DEF pthread_setschedparam, Situation
    <2> QED BY <2>1, IInvFacts
  <1>2. sched' = enable_preemption(r)
    <2>1. posix_sched_disassociate(sched, t) = sched
      BY <1>1, IInvFacts, OnRunqLemma DEF posix_sched_disassociate
    <2> QED BY <2>1 DEF pthread_setschedparam, pthread_sched_change_state
  <1>3. sched.cur \in Thread /\ new' = new /\ blocked' = blocked /\ enabled' = enabled
    BY DEF pthread_setschedparam, Preemptible
  <1>4. /\ r \in SchedState /\ QueuesOK(r) /\ Ready(r) = Ready(sched)
        /\ r.cur = sched.cur /\ r.panic = sched.panic
    <2>1. policy \in Policies  BY SMTT(30), PthreadSchedAssumption
    <2> QED BY <1>1, <2>1, IInvFacts, InitSchedstateLemma
  <1> HIDE DEF r
  <1> QED BY SMTT(30), <1>2, <1>3, <1>4, ParamStep

LEMMA HandoffStep ==
  ASSUME IInv, NEW t \in Thread, NEW wait \in BOOLEAN, Handoff(t, wait) PROVE IInv'
  <1> DEFINE reason == IF wait THEN "BLOCK" ELSE "YIELD"
  <1>1. /\ sched.cur \in Thread /\ t \in blocked /\ new' = new /\ enabled' = enabled
        /\ blocked' = (blocked \ {t}) \cup (IF wait THEN {sched.cur} ELSE {})
        /\ sched' = pthread_sched_handoff(sched, reason, t)
    BY DEF Handoff, ThreadRuns
  <1>2. reason \in {"YIELD", "BLOCK"} /\ (reason = "YIELD" <=> ~wait)  BY SMTT(30)
  <1> HIDE DEF reason
  <1>3. /\ sched' \in SchedState /\ RunqOK(sched') /\ sched'.cur = t
        /\ Ready(sched') = Ready(sched) \cup (IF reason = "YIELD" THEN {sched.cur} ELSE {})
        /\ sched'.panic = sched.panic
    BY SMTT(30), <1>1, <1>2, IInvFacts, HandoffLemma
  <1>4. ({sched'.cur} \ {Idle}) \cup Ready(sched') = Thread \ (blocked' \cup new')
    BY SMTT(30), <1>1, <1>2, <1>3, SchedAssumption, IInvFacts DEF IInv, EveryThreadAccounted
  <1> QED BY SMTT(30), <1>1, <1>2, <1>3, <1>4, IInvFacts, Regroup DEF IInv, TypeOK, EveryThreadAccounted

LEMMA IdleStep == ASSUME IInv, IdlePoll PROVE IInv'
  <1>1. /\ sched.cur = Idle /\ sched' = pthread_sched_reschedule(sched, "INTERNAL")
        /\ new' = new /\ blocked' = blocked /\ enabled' = enabled
    BY DEF IdlePoll
  <1>2. /\ sched' \in SchedState /\ RunqOK(sched')
        /\ sched'.cur \in Ready(sched) \/ (sched'.cur = Idle /\ Ready(sched) = {})
        /\ Ready(sched') = Ready(sched) \ {sched'.cur}
        /\ sched'.panic = sched.panic
    BY SMTT(30), <1>1, IInvFacts, BlockLemma
  <1>3. ({sched'.cur} \ {Idle}) \cup Ready(sched') = Thread \ (blocked' \cup new')
    BY <1>1, <1>2, SchedAssumption, IInvFacts DEF IInv, EveryThreadAccounted
  <1> QED BY SMTT(30), <1>1, <1>2, <1>3, IInvFacts, Regroup DEF IInv, TypeOK, EveryThreadAccounted

\* Every step of the scheduler keeps the invariant.
LEMMA NextIInv ==
  ASSUME "ready" \notin PolicyChanges, IInv, [Next]_vars PROVE IInv'
  <1>1. CASE UNCHANGED vars
    BY SMTT(30), <1>1 DEF vars, IInv, TypeOK, RunqConsistent, EveryThreadAccounted
  <1>2. CASE Next
    BY SMTT(30), <1>2, CreateStep, EnterLeaveStep, BlockStep, WakeupByThreadStep, TransferStep,
       TransferUndoStep, WakeupByInterruptStep,
       TickStep, YieldStep, SetprioStep, SetschedparamStep, HandoffStep, IdleStep DEF Next
  <1> QED BY <1>1, <1>2

LEMMA AlwaysIInv == ASSUME "ready" \notin PolicyChanges PROVE Spec => []IInv
  <1>1. Init => IInv  BY InitIInv
  <1>2. IInv /\ [Next]_vars => IInv'  BY NextIInv
  <1> QED BY <1>1, <1>2, PTL DEF Spec

\* The scheduler state stays well formed.
THEOREM TypeCorrect == ASSUME "ready" \notin PolicyChanges PROVE Spec => []TypeOK
  <1>1. IInv => TypeOK  BY DEF IInv
  <1> QED BY <1>1, AlwaysIInv, PTL

\* The run queue of sched_posix.c is consistent and its panic is unreachable.
THEOREM RunqIsConsistent == ASSUME "ready" \notin PolicyChanges PROVE Spec => []RunqConsistent
  <1>1. IInv => RunqConsistent  BY DEF IInv
  <1> QED BY <1>1, AlwaysIInv, PTL

\* No thread is ever lost by the scheduler, and none is in two places.
THEOREM NoThreadLost == ASSUME "ready" \notin PolicyChanges PROVE Spec => []EveryThreadAccounted
  <1>1. IInv => EveryThreadAccounted  BY DEF IInv
  <1> QED BY <1>1, AlwaysIInv, PTL

-----------------------------------------------------------------------------
(* Priority scheduling                                                     *)

\* Without directed switches and policy changes a due preemption is pending.
PInv == HigherPriorityIsPending

\* After a step that looks for a thread to run no preemption is due either.
Settled == PInv /\ PreemptibleIsHighest

\* It is so when no ready thread outranks the one that runs.
LEMMA TopRuns ==
  ASSUME sched' \in SchedState, QueuesOK(sched'), sched'.cur \in Thread \cup {Idle},
         sched'.cur \in Thread => sched'.pri[sched'.cur] >= posix_runq_maxprio(sched')
  PROVE  Settled'
  <1>1. CASE sched'.cur \in Thread
    <2>1. sched'.pri[sched'.cur] \in Int  BY SMTT(30), <1>1, SchedAssumption DEF SchedState, Prio
    <2>2. posix_runq_maxprio(sched') \in Int  BY MaxPrioLemma, SchedAssumption DEF Prio
    <2> QED BY SMTT(30), <1>1, <2>1, <2>2 DEF Settled, PInv, HigherPriorityIsPending, PreemptibleIsHighest, Preemptible
  <1>2. CASE sched'.cur \notin Thread
    BY <1>2 DEF Settled, PInv, HigherPriorityIsPending, PreemptibleIsHighest, Preemptible
  <1> QED BY SMTT(30), <1>1, <1>2

\* The pending preemption in terms of CurPrio, for a running thread.
LEMMA PendingFact ==
  ASSUME IInv, PInv, sched.cur \in Thread
  PROVE  /\ CurPrio(sched) = sched.pri[sched.cur]
         /\ CurPrio(sched) < posix_runq_maxprio(sched) => sched.needed
  BY SchedAssumption DEF PInv, HigherPriorityIsPending, CurPrio

LEMMA CreatePStep ==
  ASSUME IInv, PInv, NEW t \in Thread, NEW policy \in UserPolicies, NEW p \in Prio, Create(t, policy, p)
  PROVE  Settled'
  <1> DEFINE i == pthread_sched_init_schedstate(sched, t, policy, p)
             w == pthread_sched_setrunnable(i, t)
  <1>1. t \in new /\ sched.cur \in Thread  BY DEF Create, Preemptible
  <1>2. policy \in Policies  BY SMTT(30), PthreadSchedAssumption
  <1>3. i \in SchedState /\ QueuesOK(i) /\ Ready(i) = Ready(sched) /\ i.cur = sched.cur
    BY SMTT(30), <1>1, <1>2, IInvFacts, InitSchedstateLemma
  <1> HIDE DEF i
  <1>4. /\ w \in SchedState /\ QueuesOK(w) /\ Ready(w) = Ready(i) \cup {t} /\ w.cur = i.cur
        /\ CurPrio(w) < posix_runq_maxprio(w) => w.needed
    BY <1>1, <1>3, IInvFacts, SetrunnableLemma
  <1>5. sched' = enable_preemption(w)  BY DEF Create, i
  <1> HIDE DEF w
  <1>6. w.cur \in Thread /\ w.cur \notin Ready(w)  BY SMTT(30), <1>1, <1>3, <1>4, IInvFacts
  <1>7. w.pri[w.cur] < posix_runq_maxprio(w) => w.needed
    BY SMTT(30), <1>4, <1>6, SchedAssumption DEF CurPrio
  <1>8. /\ sched' \in SchedState /\ RunqOK(sched') /\ sched'.cur \in Thread
        /\ sched'.pri[sched'.cur] >= posix_runq_maxprio(sched')
    BY SMTT(30), <1>4, <1>5, <1>6, <1>7, EnablePreemptionLemma
  <1> QED BY <1>8, TopRuns DEF RunqOK

\* A wakeup made with preemption enabled leaves the preemption pending.
LEMMA WakeupByThreadPStep ==
  ASSUME IInv, PInv, NEW t \in Thread, WakeupByThread(t) PROVE PInv'
  <1>1. t \in blocked /\ sched.cur \in Thread /\ sched' = pthread_sched_setrunnable(sched, t)
    BY SMTT(30) DEF WakeupByThread, ThreadRuns
  <1>2. /\ sched' \in SchedState /\ sched'.cur = sched.cur
        /\ CurPrio(sched') < posix_runq_maxprio(sched') => sched'.needed
    BY SMTT(30), <1>1, IInvFacts, SetrunnableLemma
  <1> QED BY SMTT(30), <1>1, <1>2, SchedAssumption DEF PInv, HigherPriorityIsPending, CurPrio

LEMMA WakeupByInterruptPStep ==
  ASSUME IInv, PInv, NEW t \in Thread, WakeupByInterrupt(t) PROVE Settled'
  <1> DEFINE s == pthread_sched_setrunnable(sched, t)
  <1>1. t \in blocked /\ enabled' = enabled  BY SMTT(30) DEF WakeupByInterrupt
  <1>2. /\ s \in SchedState /\ QueuesOK(s) /\ Ready(s) = Ready(sched) \cup {t} /\ s.cur = sched.cur
        /\ CurPrio(s) < posix_runq_maxprio(s) => s.needed
    BY SMTT(30), <1>1, IInvFacts, SetrunnableLemma
  <1>3. \/ sched' = s /\ ~Preemptible
        \/ sched' = s /\ ~(CurPrio(s) < posix_runq_maxprio(s))
        \/ Preemptible /\ sched' = pthread_sched_reschedule(s, "YIELD")
    BY DEF WakeupByInterrupt
  <1> HIDE DEF s
  <1>4. s.cur \in Thread \cup {Idle} /\ s.cur \notin Ready(s)  BY SMTT(30), <1>1, <1>2, IInvFacts
  <1>5. CASE sched' = s /\ ~Preemptible
    BY SMTT(30), <1>1, <1>2, <1>5, SchedAssumption DEF Settled, PInv, HigherPriorityIsPending, PreemptibleIsHighest, Preemptible, CurPrio
  <1>6. CASE sched' = s /\ ~(CurPrio(s) < posix_runq_maxprio(s))
    <2>1. s.cur \in Thread => s.pri[s.cur] >= posix_runq_maxprio(s)
      <3> SUFFICES ASSUME s.cur \in Thread PROVE s.pri[s.cur] >= posix_runq_maxprio(s)  OBVIOUS
      <3>1. s.pri[s.cur] \in Int  BY SMTT(30), <1>2, SchedAssumption DEF SchedState, Prio
      <3>2. posix_runq_maxprio(s) \in Int  BY SMTT(30), <1>2, MaxPrioLemma, SchedAssumption DEF Prio
      <3>3. ~(s.pri[s.cur] < posix_runq_maxprio(s))  BY SMTT(30), <1>6, SchedAssumption DEF CurPrio
      <3> QED BY SMTT(30), <3>1, <3>2, <3>3
    <2> QED BY SMTT(30), <1>2, <1>4, <1>6, <2>1, TopRuns
  <1>7. CASE Preemptible /\ sched' = pthread_sched_reschedule(s, "YIELD")
    <2>1. s.cur \in Thread  BY SMTT(30), <1>2, <1>7 DEF Preemptible
    <2>2. /\ sched' \in SchedState /\ RunqOK(sched') /\ sched'.cur \in Thread
          /\ sched'.pri[sched'.cur] >= posix_runq_maxprio(sched')
      BY SMTT(30), <1>2, <1>4, <1>7, <2>1, RescheduleLemma
    <2> QED BY SMTT(30), <2>2, TopRuns DEF RunqOK
  <1> QED BY SMTT(30), <1>3, <1>5, <1>6, <1>7

LEMMA TransferPStep ==
  ASSUME IInv, PInv, NEW t \in Thread, PriorityTransferAndWait(t) PROVE Settled'
  <1> DEFINE l == PriorityTransfer(sched, t)
  <1>1. sched.cur \in Thread /\ sched' = pthread_sched_reschedule(l, "BLOCK")
    BY DEF PriorityTransferAndWait, Critical
  <1>2. l \in SchedState /\ QueuesOK(l)  BY SMTT(30), <1>1, IInvFacts, TransferLemma
  <1> HIDE DEF l
  <1>3. /\ sched' \in SchedState /\ RunqOK(sched')
        /\ sched'.cur \in Ready(l) \/ sched'.cur = Idle
        /\ sched'.cur \in Thread => sched'.pri[sched'.cur] >= posix_runq_maxprio(sched')
    BY SMTT(30), <1>1, <1>2, BlockLemma
  <1> QED BY <1>3, TopRuns DEF RunqOK, Ready

LEMMA TransferUndoPStep ==
  ASSUME IInv, PInv, NEW t \in Thread, TransferUndoAndWakeup(t) PROVE Settled'
  <1> DEFINE u == pthread_sched_priority_transfer_undo(sched, sched.cur)
  <1>1. /\ t \in blocked /\ sched.cur \in Thread /\ ~enabled[sched.cur] /\ enabled' = enabled
        /\ sched' = pthread_sched_setrunnable(u, t)
    BY DEF TransferUndoAndWakeup, Critical
  <1>2. u \in SchedState /\ QueuesOK(u) /\ Ready(u) = Ready(sched) /\ u.cur = sched.cur
    BY SMTT(30), <1>1, IInvFacts, TransferUndoLemma
  <1> HIDE DEF u
  <1>3. /\ sched' \in SchedState /\ sched'.cur = u.cur
        /\ CurPrio(sched') < posix_runq_maxprio(sched') => sched'.needed
    BY SMTT(30), <1>1, <1>2, IInvFacts, SetrunnableLemma
  <1> QED BY SMTT(30), <1>1, <1>2, <1>3, SchedAssumption
          DEF Settled, PInv, HigherPriorityIsPending, PreemptibleIsHighest, Preemptible, CurPrio

LEMMA SetprioPStep ==
  ASSUME IInv, PInv, NEW t \in Thread, NEW p \in Prio, oskit_pthread_setprio(t, p) PROVE Settled'
  <1> DEFINE r == posix_sched_change_state(sched, t, p)
  <1>1. sched.cur \in Thread /\ sched' = enable_preemption(r)
    BY SMTT(30) DEF oskit_pthread_setprio, Preemptible, pthread_sched_change_state
  <1>2. /\ r \in SchedState /\ QueuesOK(r) /\ Ready(r) = Ready(sched) /\ r.cur = sched.cur
        /\ CurPrio(r) < posix_runq_maxprio(r) => r.needed
    BY SMTT(30), <1>1, IInvFacts, PendingFact, ChangePriorityLemma
  <1> HIDE DEF r
  <1>3. r.cur \in Thread /\ r.cur \notin Ready(r)  BY SMTT(30), <1>1, <1>2, IInvFacts
  <1>4. r.pri[r.cur] < posix_runq_maxprio(r) => r.needed
    BY SMTT(30), <1>2, <1>3, SchedAssumption DEF CurPrio
  <1>5. /\ sched' \in SchedState /\ RunqOK(sched') /\ sched'.cur \in Thread
        /\ sched'.pri[sched'.cur] >= posix_runq_maxprio(sched')
    BY SMTT(30), <1>1, <1>2, <1>3, <1>4, EnablePreemptionLemma
  <1> QED BY <1>5, TopRuns DEF RunqOK

LEMMA TickPStep == ASSUME IInv, PInv, Tick PROVE Settled'
  <1>1. sched.cur \in Thread /\ enabled' = enabled  BY IInvFacts DEF Tick
  <1>2. CASE Preemptible
    <2>1. sched' = pthread_sched_reschedule(sched, "PREEMPT")  BY SMTT(30), <1>2 DEF Tick
    <2>2. /\ sched' \in SchedState /\ RunqOK(sched') /\ sched'.cur \in Thread
          /\ sched'.pri[sched'.cur] >= posix_runq_maxprio(sched')
      BY SMTT(30), <1>1, <2>1, IInvFacts, RescheduleLemma
    <2> QED BY <2>2, TopRuns DEF RunqOK
  <1>3. CASE ~Preemptible
    <2>1. sched' = [sched EXCEPT !.needed = TRUE]  BY <1>3 DEF Tick
    <2>2. sched'.needed /\ sched'.cur = sched.cur  BY <2>1, IInvFacts DEF SchedState
    <2> QED BY SMTT(30), <1>1, <1>3, <2>2 DEF Settled, PInv, HigherPriorityIsPending, PreemptibleIsHighest, Preemptible
  <1> QED BY <1>2, <1>3

\* The steps that give up the processor, or enable preemption again.
LEMMA SwitchPStep ==
  ASSUME IInv, PInv, Leave \/ Block \/ sched_yield \/ IdlePoll PROVE Settled'
  <1>1. CASE Leave
    <2>1. sched.cur \in Thread /\ sched' = enable_preemption(sched)  BY <1>1 DEF Leave, Critical
    <2>2. sched.pri[sched.cur] < posix_runq_maxprio(sched) => sched.needed
      BY SMTT(30), <2>1 DEF PInv, HigherPriorityIsPending
    <2>3. /\ sched' \in SchedState /\ RunqOK(sched') /\ sched'.cur \in Thread
          /\ sched'.pri[sched'.cur] >= posix_runq_maxprio(sched')
      BY SMTT(30), <2>1, <2>2, IInvFacts, EnablePreemptionLemma
    <2> QED BY SMTT(30), <2>3, TopRuns DEF RunqOK
  <1>2. CASE Block \/ IdlePoll
    <2>1. sched' = pthread_sched_reschedule(sched, "BLOCK") \/ sched' = pthread_sched_reschedule(sched, "INTERNAL")
      BY SMTT(30), <1>2 DEF Block, IdlePoll
    <2>2. /\ sched' \in SchedState /\ RunqOK(sched')
          /\ sched'.cur \in Ready(sched) \/ sched'.cur = Idle
          /\ sched'.cur \in Thread => sched'.pri[sched'.cur] >= posix_runq_maxprio(sched')
      BY SMTT(30), <2>1, IInvFacts, BlockLemma
    <2> QED BY SMTT(30), <2>2, IInvFacts, TopRuns DEF RunqOK
  <1>3. CASE sched_yield
    <2>1. sched.cur \in Thread /\ sched' = pthread_sched_reschedule(sched, "USERYIELD")
      BY SMTT(30), <1>3 DEF sched_yield, Preemptible
    <2>2. /\ sched' \in SchedState /\ RunqOK(sched') /\ sched'.cur \in Thread
          /\ sched'.pri[sched'.cur] >= posix_runq_maxprio(sched')
      BY <2>1, IInvFacts, RescheduleLemma
    <2> QED BY <2>2, TopRuns DEF RunqOK
  <1> QED BY SMTT(30), <1>1, <1>2, <1>3

LEMMA NextPInv ==
  ASSUME ~Handoffs, PolicyChanges = {}, IInv, PInv, [Next]_vars PROVE PInv'
  <1>1. CASE UNCHANGED vars \/ Enter \/ LeaveMasked
    BY <1>1 DEF vars, Enter, LeaveMasked, PInv, HigherPriorityIsPending
  <1>2. CASE Next /\ ~Enter /\ ~LeaveMasked
    <2>1. /\ \A t \in Thread, wait \in BOOLEAN : ~Handoff(t, wait)
          /\ \A t \in Thread, policy \in UserPolicies, p \in Prio : ~pthread_setschedparam(t, policy, p)
      BY DEF Handoff, pthread_setschedparam
    <2>2. CASE \E t \in Thread : WakeupByThread(t)  BY <2>2, WakeupByThreadPStep
    <2>3. CASE ~\E t \in Thread : WakeupByThread(t)
      <3>1. Settled'
        BY SMTT(30), <1>2, <2>1, <2>3, CreatePStep, WakeupByInterruptPStep, TransferPStep, TransferUndoPStep,
           SetprioPStep, TickPStep, SwitchPStep DEF Next
      <3> QED BY SMTT(30), <3>1 DEF Settled
    <2> QED BY SMTT(30), <2>2, <2>3
  <1> QED BY SMTT(30), <1>1, <1>2

LEMMA InitPInv == Init => PInv
  <1> SUFFICES ASSUME Init PROVE PInv  OBVIOUS
  <1>1. posix_runq_maxprio(sched) = -1 /\ sched.cur = Main /\ sched.pri[Main] \in 0 .. PRIORITY_MAX
    BY SchedAssumption, PthreadSchedAssumption DEF Init, posix_runq_maxprio
  <1> QED BY SMTT(30), <1>1, SchedAssumption DEF PInv, HigherPriorityIsPending

LEMMA AlwaysPInv == ASSUME ~Handoffs, PolicyChanges = {} PROVE Spec => []PInv
  <1>1. Spec => []IInv  BY AlwaysIInv
  <1>2. Init => PInv  BY InitPInv
  <1>3. IInv /\ PInv /\ [Next]_vars => PInv'  BY NextPInv
  <1> QED BY <1>1, <1>2, <1>3, PTL DEF Spec

\* A preemption that is due while a library call runs is pending.
THEOREM PreemptionIsPending ==
  ASSUME ~Handoffs, PolicyChanges = {} PROVE Spec => []HigherPriorityIsPending
  <1>1. PInv => HigherPriorityIsPending  BY DEF PInv
  <1> QED BY <1>1, AlwaysPInv, PTL

\* After every step that looks for a thread to run, the thread that runs with
\* preemption enabled is one of the highest priority: the preemption that a wakeup
\* or a change of priority made due earlier has been taken.
THEOREM HighestPriorityRuns ==
  ASSUME ~Handoffs, PolicyChanges = {} PROVE Spec => ReschedulesToHighest
  <1>1. IInv /\ PInv /\ [Next]_vars => [~PreemptibleIsHighest' => ~ReschedulePoint]_vars
    <2> SUFFICES ASSUME IInv, PInv, ReschedulePoint PROVE PreemptibleIsHighest'  OBVIOUS
    <2>1. Settled'
      BY SMTT(30), CreatePStep, WakeupByInterruptPStep, TransferPStep, SetprioPStep, TickPStep, SwitchPStep
         DEF ReschedulePoint
    <2> QED BY <2>1 DEF Settled
  <1>2. Spec => []IInv  BY AlwaysIInv
  <1> QED BY <1>1, <1>2, AlwaysPInv, PTL DEF Spec, ReschedulesToHighest
=============================================================================
