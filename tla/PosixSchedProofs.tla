-------------------------- MODULE PosixSchedProofs --------------------------
(***************************************************************************)
(* What the operations of the scheduler do to the set of ready threads,    *)
(* and that each of them keeps the run queue consistent.  They are the     *)
(* facts that the proofs about the modules above the scheduler cite: with  *)
(* them such a proof reasons about sets of threads, not about queues.      *)
(***************************************************************************)
EXTENDS PosixSched, OskitQueueProofs, WellFoundedInduction

\* The lowest set bit of threads_whichrunq, which ffs finds, exists.
LEMMA MinLemma ==
  ASSUME NEW S \in SUBSET Nat, S # {}
  PROVE  Min(S) \in S /\ \A y \in S : Min(S) <= y
  <1>1. \E x \in S : \A y \in S : ~ (<<y, x>> \in OpToRel(<, Nat))
    BY Zenon, WFMin, NatLessThanWellFounded
  <1>2. \E x \in S : \A y \in S : ~(y < x)
    BY Zenon, <1>1 DEF OpToRel
  <1>3. \E x \in S : \A y \in S : x <= y
    BY <1>2
  <1> QED BY Zenon, <1>3 DEF Min

LEMMA LevelLemma ==
  /\ \A p \in Prio : Level(p) \in Levels /\ Level(p) \in Nat
  /\ \A p1, p2 \in Prio : Level(p1) = Level(p2) => p1 = p2
  BY SchedAssumption DEF Prio, Levels, Level

\* Every change of the run queue gives one level a new queue.
WithQueue(s, l, q) ==
  [s EXCEPT !.runq[l] = q, !.which = IF q = <<>> THEN @ \ {l} ELSE @ \cup {l}]

\* The fields the run queue operations leave alone.
Rest(s) == <<s.pri, s.base, s.policy, s.ticks, s.needed, s.panic>>

LEMMA OnRunqLemma ==
  ASSUME NEW s \in SchedState, QueuesOK(s), NEW t \in Thread
  PROVE  /\ posix_runq_onrunq(s, t) <=> t \in Ready(s)
         /\ t \in Ready(s) <=> t \in Range(s.runq[Level(s.pri[t])])
         /\ Level(s.pri[t]) \in Levels
  <1>1. Level(s.pri[t]) \in Levels  BY LevelLemma DEF SchedState
  <1> QED BY <1>1 DEF Ready, posix_runq_onrunq, QueuesOK, QueuedAtPriority

\* A consistent run queue stays so when a level gets a queue of distinct
\* threads of that level, and the threads of the other levels stay ready.
LEMMA WithQueueLemma ==
  ASSUME NEW s \in SchedState, QueuesOK(s), NEW l \in Levels,
         NEW q \in Seq(Thread), IsInjective(q),
         \A u \in Range(q) : Level(s.pri[u]) = l
  PROVE  /\ WithQueue(s, l, q) \in SchedState
         /\ QueuesOK(WithQueue(s, l, q))
         /\ Ready(WithQueue(s, l, q)) = {u \in Thread : IF Level(s.pri[u]) = l
                                                        THEN u \in Range(q)
                                                        ELSE u \in Ready(s)}
         /\ Rest(WithQueue(s, l, q)) = Rest(s)
         /\ WithQueue(s, l, q).cur = s.cur
  <1> DEFINE r == WithQueue(s, l, q)
  <1>1. /\ r \in SchedState
        /\ r.runq = [s.runq EXCEPT ![l] = q]
        /\ r.which = IF q = <<>> THEN s.which \ {l} ELSE s.which \cup {l}
        /\ r.pri = s.pri /\ Rest(r) = Rest(s) /\ r.cur = s.cur
    BY Zenon DEF WithQueue, SchedState, Rest
  <1> HIDE DEF r
  <1>2. /\ \A k \in Levels : r.runq[k] = IF k = l THEN q ELSE s.runq[k]
        /\ s.runq \in [Levels -> Seq(Thread)]
    BY <1>1 DEF SchedState
  <1>3. QueuesOK(r)
    <2>1. \A k \in Levels : IsInjective(r.runq[k])
      BY <1>2 DEF QueuesOK
    <2>2. QueuedAtPriority(r)
      BY <1>1, <1>2 DEF QueuesOK, QueuedAtPriority
    <2>3. BitsMatch(r)
      BY <1>1, <1>2 DEF QueuesOK, BitsMatch
    <2> QED BY <2>1, <2>2, <2>3 DEF QueuesOK
  <1>4. ASSUME NEW u \in Thread
        PROVE  u \in Ready(r) <=> IF Level(s.pri[u]) = l THEN u \in Range(q) ELSE u \in Ready(s)
    <2>1. u \in Ready(r) <=> u \in Range(r.runq[Level(s.pri[u])])
      BY Zenon, <1>1, <1>3, OnRunqLemma
    <2>2. u \in Ready(s) <=> u \in Range(s.runq[Level(s.pri[u])])
      BY OnRunqLemma
    <2> QED BY <2>1, <2>2, <1>2, OnRunqLemma
  <1>5. Ready(r) \subseteq Thread  BY DEF Ready
  <1> QED BY <1>1, <1>3, <1>4, <1>5 DEF r

\* Both insertions make the thread ready.
LEMMA InsertLemma ==
  ASSUME NEW s \in SchedState, QueuesOK(s), NEW t \in Thread, t \notin Ready(s),
         NEW r, r = posix_runq_insert_tail(s, t) \/ r = posix_runq_insert_head(s, t)
  PROVE  /\ r \in SchedState /\ QueuesOK(r)
         /\ Ready(r) = Ready(s) \cup {t}
         /\ Rest(r) = Rest(s) /\ r.cur = s.cur
  <1> DEFINE l == Level(s.pri[t])
             q == s.runq[l]
             q1 == Append(q, t)
             q2 == queue_enter_first(q, t)
  <1>1. /\ l \in Levels /\ q \in Seq(Thread) /\ IsInjective(q) /\ t \notin Range(q)
        /\ \A u \in Range(q) : Level(s.pri[u]) = l
    BY Zenon, OnRunqLemma DEF SchedState, QueuesOK, QueuedAtPriority
  <1> HIDE DEF l, q
  <1>2. /\ q1 \in Seq(Thread) /\ q1 # <<>> /\ Range(q1) = Range(q) \cup {t} /\ IsInjective(q1)
        /\ q2 \in Seq(Thread) /\ q2 # <<>> /\ Range(q2) = Range(q) \cup {t} /\ IsInjective(q2)
    <2>1. q1 \in Seq(Thread) /\ q1 # <<>> /\ Range(q1) = Range(q) \cup {t} /\ IsInjective(q1)
      BY <1>1, EnterLemma
    <2> HIDE DEF q2
    <2>2. q2 \in Seq(Thread) /\ q2 # <<>> /\ Range(q2) = Range(q) \cup {t} /\ IsInjective(q2)
      BY <1>1, EnterFirstLemma DEF q2
    <2> QED BY <2>1, <2>2
  <1> HIDE DEF q1, q2
  <1>3. r = WithQueue(s, l, q1) \/ r = WithQueue(s, l, q2)
    BY Zenon, <1>2 DEF WithQueue, posix_runq_insert_tail, posix_runq_insert_head, SchedState, l, q, q1, q2
  <1>4. PICK qq \in {q1, q2} : r = WithQueue(s, l, qq)
    BY <1>3
  <1>5. \A u \in Range(qq) : Level(s.pri[u]) = l
    BY <1>1, <1>2 DEF l
  <1>6. /\ r \in SchedState /\ QueuesOK(r) /\ Rest(r) = Rest(s) /\ r.cur = s.cur
        /\ Ready(r) = {u \in Thread : IF Level(s.pri[u]) = l THEN u \in Range(qq) ELSE u \in Ready(s)}
    BY <1>1, <1>2, <1>4, <1>5, WithQueueLemma
  <1>7. \A u \in Thread : Level(s.pri[u]) = l => (u \in Ready(s) <=> u \in Range(q))
    BY OnRunqLemma DEF q
  <1>8. Ready(r) = Ready(s) \cup {t}
    BY <1>2, <1>6, <1>7 DEF l, Ready
  <1> QED BY <1>6, <1>8

\* posix_runq_remove takes a ready thread off the queue.
LEMMA RunqRemoveLemma ==
  ASSUME NEW s \in SchedState, QueuesOK(s), NEW t \in Ready(s)
  PROVE  /\ posix_runq_remove(s, t) \in SchedState
         /\ QueuesOK(posix_runq_remove(s, t))
         /\ Ready(posix_runq_remove(s, t)) = Ready(s) \ {t}
         /\ Rest(posix_runq_remove(s, t)) = Rest(s)
         /\ posix_runq_remove(s, t).cur = s.cur
  <1> DEFINE r == posix_runq_remove(s, t)
             l == Level(s.pri[t])
             q == s.runq[l]
             qq == queue_remove(q, t)
  <1>0. t \in Thread  BY DEF Ready
  <1>1. /\ l \in Levels /\ q \in Seq(Thread) /\ IsInjective(q) /\ t \in Range(q)
        /\ \A u \in Range(q) : Level(s.pri[u]) = l
    BY Zenon, <1>0, OnRunqLemma DEF SchedState, QueuesOK, QueuedAtPriority
  <1>2. l \in s.which
    <2>1. q # <<>>  BY <1>1 DEF Range
    <2> QED BY <1>1, <2>1 DEF QueuesOK, BitsMatch
  <1> HIDE DEF l, q
  <1>3. qq \in Seq(Thread) /\ Range(qq) = Range(q) \ {t} /\ IsInjective(qq)
    BY <1>1, RemoveLemma
  <1>4. r = WithQueue(s, l, qq)
    <2>1. ClearIfEmpty(s.which, l, qq) = IF qq = <<>> THEN s.which \ {l} ELSE s.which \cup {l}
      BY Zenon, <1>2 DEF ClearIfEmpty
    <2> HIDE DEF qq
    <2> QED BY <2>1 DEF WithQueue, posix_runq_remove, l, q, qq
  <1> HIDE DEF qq, r
  <1>5. /\ r \in SchedState /\ QueuesOK(r) /\ Rest(r) = Rest(s) /\ r.cur = s.cur
        /\ Ready(r) = {u \in Thread : IF Level(s.pri[u]) = l THEN u \in Range(qq) ELSE u \in Ready(s)}
    BY <1>1, <1>3, <1>4, WithQueueLemma
  <1>6. \A u \in Thread : Level(s.pri[u]) = l => (u \in Ready(s) <=> u \in Range(q))
    BY OnRunqLemma DEF q
  <1>7. Ready(r) = Ready(s) \ {t}
    BY <1>3, <1>5, <1>6 DEF l, Ready
  <1> QED BY <1>5, <1>7 DEF r

\* posix_runq_maxprio is the highest priority of a ready thread, -1 without one.
LEMMA MaxPrioLemma ==
  ASSUME NEW s \in SchedState, QueuesOK(s)
  PROVE  /\ s.which = {} <=> Ready(s) = {}
         /\ Ready(s) = {} => posix_runq_maxprio(s) = -1
         /\ Ready(s) # {} => posix_runq_maxprio(s) \in Prio
         /\ \A t \in Ready(s) : s.pri[t] <= posix_runq_maxprio(s)
  <1>1. ASSUME NEW t \in Ready(s) PROVE Level(s.pri[t]) \in s.which
    <2>1. t \in Thread  BY DEF Ready
    <2>2. t \in Range(s.runq[Level(s.pri[t])]) /\ Level(s.pri[t]) \in Levels
      BY <2>1, OnRunqLemma
    <2>3. s.runq[Level(s.pri[t])] # <<>>  BY <2>2 DEF Range
    <2> QED BY <2>2, <2>3 DEF QueuesOK, BitsMatch
  <1>2. ASSUME NEW l \in s.which PROVE Ready(s) # {}
    <2>1. l \in Levels /\ s.runq[l] # <<>> /\ s.runq[l] \in Seq(Thread)
      BY DEF QueuesOK, BitsMatch, SchedState
    <2>2. Head(s.runq[l]) \in Range(s.runq[l]) /\ Head(s.runq[l]) \in Thread
      BY <2>1, RemoveFirstLemma, SeqTail DEF QueuesOK
    <2> QED BY <2>1, <2>2 DEF Ready, posix_runq_onrunq
  <1>3. s.which = {} <=> Ready(s) = {}  BY <1>1, <1>2
  <1>4. s.which \in SUBSET Nat /\ s.which \subseteq Levels
    BY SchedAssumption DEF SchedState, Levels
  <1>5. s.which # {} => Min(s.which) \in s.which /\ \A y \in s.which : Min(s.which) <= y
    BY <1>4, MinLemma
  <1>6. Ready(s) # {} => posix_runq_maxprio(s) = PRIORITY_MAX - Min(s.which) /\ posix_runq_maxprio(s) \in Prio
    BY <1>3, <1>4, <1>5, SchedAssumption DEF posix_runq_maxprio, Prio, Levels
  <1>7. ASSUME NEW t \in Ready(s) PROVE s.pri[t] <= posix_runq_maxprio(s)
    <2>1. s.pri[t] \in Prio  BY DEF Ready, SchedState
    <2>2. Min(s.which) <= PRIORITY_MAX - s.pri[t]  BY <1>1, <1>5 DEF Level
    <2>3. Min(s.which) \in 0 .. PRIORITY_MAX  BY <1>1, <1>4, <1>5 DEF Levels
    <2> HIDE DEF Prio
    <2>4. s.pri[t] \in 0 .. PRIORITY_MAX  BY <2>1 DEF Prio
    <2>5. posix_runq_maxprio(s) = PRIORITY_MAX - Min(s.which)  BY <1>6
    <2> QED BY <2>2, <2>3, <2>4, <2>5, SchedAssumption
  <1> QED BY <1>3, <1>6, <1>7 DEF posix_runq_maxprio

\* posix_runq_dequeue runs a ready thread of the highest priority.
LEMMA DequeueLemma ==
  ASSUME NEW s \in SchedState, QueuesOK(s), s.which # {}
  PROVE  LET r == posix_runq_dequeue(s)
         IN  /\ r \in SchedState /\ QueuesOK(r)
             /\ r.cur \in Ready(s) /\ s.pri[r.cur] = posix_runq_maxprio(s)
             /\ Ready(r) = Ready(s) \ {r.cur}
             /\ Rest(r) = Rest(s)
  <1> DEFINE r == posix_runq_dequeue(s)
             l == Min(s.which)
             q == s.runq[l]
             h == Head(q)
             w == WithQueue(s, l, Tail(q))
  <1>0. s.which \in SUBSET Nat /\ s.which \subseteq Levels
    BY SchedAssumption DEF SchedState, Levels
  <1>1. l \in s.which /\ l \in Levels  BY <1>0, MinLemma
  <1> HIDE DEF l
  <1>2. /\ q \in Seq(Thread) /\ q # <<>> /\ IsInjective(q)
        /\ \A u \in Range(q) : Level(s.pri[u]) = l
    BY <1>1 DEF SchedState, QueuesOK, BitsMatch, QueuedAtPriority
  <1> HIDE DEF q
  <1>3. /\ h \in Range(q) /\ h \in Thread /\ Tail(q) \in Seq(Thread)
        /\ Range(Tail(q)) = Range(q) \ {h} /\ IsInjective(Tail(q))
    BY <1>2, RemoveFirstLemma, SeqTail
  <1> HIDE DEF h
  <1>4. /\ w \in SchedState /\ QueuesOK(w) /\ Rest(w) = Rest(s) /\ w.cur = s.cur
        /\ Ready(w) = {u \in Thread : IF Level(s.pri[u]) = l THEN u \in Range(Tail(q)) ELSE u \in Ready(s)}
    <2> DEFINE tl == Tail(q)
    <2>1. tl \in Seq(Thread) /\ IsInjective(tl) /\ \A u \in Range(tl) : Level(s.pri[u]) = l
      BY <1>2, <1>3
    <2> HIDE DEF tl
    <2>2. w = WithQueue(s, l, tl)  BY DEF tl
    <2> QED BY Zenon, <1>1, <2>1, <2>2, WithQueueLemma DEF tl
  <1>5. \A u \in Thread : Level(s.pri[u]) = l => (u \in Ready(s) <=> u \in Range(q))
    BY OnRunqLemma DEF q
  <1>6. Ready(w) = Ready(s) \ {h}  BY <1>2, <1>3, <1>4, <1>5 DEF Ready
  <1>7. r = [w EXCEPT !.cur = h]
    <2>1. ClearIfEmpty(s.which, l, Tail(q)) = IF Tail(q) = <<>> THEN s.which \ {l} ELSE s.which \cup {l}
      BY Zenon, <1>1 DEF ClearIfEmpty
    <2> QED BY Zenon, <2>1 DEF WithQueue, posix_runq_dequeue, SchedState, l, q, h
  <1> HIDE DEF w, r
  <1>8. r \in SchedState /\ r.cur = h /\ r.runq = w.runq /\ r.which = w.which /\ Rest(r) = Rest(w) /\ r.pri = w.pri
    BY Zenon, <1>3, <1>4, <1>7 DEF SchedState, Rest
  <1>9. QueuesOK(r) /\ Ready(r) = Ready(w)
    BY <1>4, <1>8 DEF QueuesOK, QueuedAtPriority, BitsMatch, Ready, posix_runq_onrunq
  <1>10. s.pri[h] = posix_runq_maxprio(s)
    <2>1. Level(s.pri[h]) = l /\ s.pri[h] \in Prio  BY <1>2, <1>3 DEF SchedState
    <2>2. l \in 0 .. PRIORITY_MAX /\ s.pri[h] \in 0 .. PRIORITY_MAX  BY <2>1, <1>1 DEF Prio, Levels
    <2>3. posix_runq_maxprio(s) = PRIORITY_MAX - l  BY DEF posix_runq_maxprio, l
    <2> QED BY <2>1, <2>2, <2>3, SchedAssumption DEF Level
  <1>11. h \in Ready(s)  BY <1>2, <1>3, <1>5
  <1> QED BY <1>4, <1>6, <1>8, <1>9, <1>10, <1>11 DEF r

-----------------------------------------------------------------------------
(* The operations of sched_posix.c                                         *)

\* What is read of the run queue and the priorities does not depend on the rest.
LEMMA SameQueueLemma ==
  ASSUME NEW s, NEW r, r.runq = s.runq, r.which = s.which, r.pri = s.pri
  PROVE  /\ Ready(r) = Ready(s)
         /\ QueuesOK(r) <=> QueuesOK(s)
         /\ posix_runq_maxprio(r) = posix_runq_maxprio(s)
  BY DEF Ready, posix_runq_onrunq, QueuesOK, QueuedAtPriority, BitsMatch, posix_runq_maxprio

\* NotePreempt changes PREEMPT_NEEDED only.
LEMMA NotePreemptLemma ==
  ASSUME NEW s \in SchedState, QueuesOK(s)
  PROVE  LET r == NotePreempt(s)
         IN  /\ r \in SchedState /\ QueuesOK(r) /\ Ready(r) = Ready(s)
             /\ r.cur = s.cur /\ r.panic = s.panic /\ r.pri = s.pri
             /\ posix_runq_maxprio(r) = posix_runq_maxprio(s)
             /\ CurPrio(r) = CurPrio(s)
             /\ s.needed \/ CurPrio(s) < posix_runq_maxprio(s) => r.needed
  <1> DEFINE r == NotePreempt(s)
  <1>1. /\ r \in SchedState
        /\ r.runq = s.runq /\ r.which = s.which /\ r.pri = s.pri
        /\ r.cur = s.cur /\ r.panic = s.panic
        /\ s.needed \/ CurPrio(s) < posix_runq_maxprio(s) => r.needed
    <2>1. CASE CurPrio(s) < posix_runq_maxprio(s)
      BY Zenon, <2>1 DEF NotePreempt, SchedState
    <2>2. CASE ~(CurPrio(s) < posix_runq_maxprio(s))
      BY <2>2 DEF NotePreempt, SchedState
    <2> QED BY <2>1, <2>2
  <1> HIDE DEF r
  <1> QED BY <1>1, SameQueueLemma DEF r, CurPrio

\* SetPriority keeps the ready threads ready: a queued thread changes queues.
LEMMA SetPriorityLemma ==
  ASSUME NEW s \in SchedState, QueuesOK(s), NEW t \in Thread, NEW p \in Prio
  PROVE  LET r == SetPriority(s, t, p)
         IN  /\ r \in SchedState /\ QueuesOK(r) /\ Ready(r) = Ready(s)
             /\ r.cur = s.cur /\ r.panic = s.panic /\ r.needed = s.needed
             /\ r.pri = [s.pri EXCEPT ![t] = p] /\ r.base = s.base
  <1> DEFINE r == SetPriority(s, t, p)
  <1>1. CASE t \in Ready(s)
    <2> DEFINE a == posix_runq_remove(s, t)
               b == [a EXCEPT !.pri[t] = p]
    <2>1. /\ a \in SchedState /\ QueuesOK(a) /\ Ready(a) = Ready(s) \ {t}
          /\ Rest(a) = Rest(s) /\ a.cur = s.cur
      BY <1>1, RunqRemoveLemma
    <2> HIDE DEF a
    <2>2. /\ b \in SchedState /\ b.runq = a.runq /\ b.which = a.which
          /\ b.pri = [s.pri EXCEPT ![t] = p] /\ b.base = s.base
          /\ b.cur = s.cur /\ b.panic = s.panic /\ b.needed = s.needed
      BY Zenon, <2>1 DEF SchedState, Rest
    <2> HIDE DEF b
    <2>3. Ready(b) = Ready(a)  BY <2>2 DEF Ready, posix_runq_onrunq
    <2>4. QueuesOK(b)
      <3>1. \A l \in Levels : t \notin Range(a.runq[l])
        BY <2>1 DEF Ready, posix_runq_onrunq
      <3>2. \A l \in Levels : \A u \in Range(a.runq[l]) : b.pri[u] = a.pri[u]
        <4>1. \A l \in Levels : Range(a.runq[l]) \subseteq Thread
          <5>1. ASSUME NEW l \in Levels PROVE Range(a.runq[l]) \subseteq Thread
            <6>1. a.runq[l] \in Seq(Thread)  BY <2>1 DEF SchedState
            <6> QED BY <6>1, SeqLength DEF Range
          <5> QED BY <5>1
        <4>2. a.pri = s.pri /\ s.pri \in [Thread -> Prio]  BY <2>1 DEF Rest, SchedState
        <4> QED BY <4>1, <4>2, <3>1, <2>2
      <3> QED BY <2>1, <2>2, <3>2 DEF QueuesOK, QueuedAtPriority, BitsMatch
    <2>5. r = posix_runq_insert_tail(b, t)
      BY <1>1, OnRunqLemma DEF SetPriority, a, b
    <2>6. t \notin Ready(b)  BY <2>1, <2>3
    <2> HIDE DEF r
    <2>7. /\ r \in SchedState /\ QueuesOK(r) /\ Ready(r) = Ready(b) \cup {t}
          /\ Rest(r) = Rest(b) /\ r.cur = b.cur
      BY <2>2, <2>4, <2>5, <2>6, InsertLemma
    <2>8. Ready(r) = Ready(s)  BY SMTT(30), <1>1, <2>1, <2>3, <2>7
    <2> QED BY <2>2, <2>7, <2>8 DEF Rest, r
  <1>2. CASE t \notin Ready(s)
    <2>1. r = [s EXCEPT !.pri[t] = p]  BY <1>2, OnRunqLemma DEF SetPriority
    <2> HIDE DEF r
    <2>2. /\ r \in SchedState /\ r.runq = s.runq /\ r.which = s.which
          /\ r.pri = [s.pri EXCEPT ![t] = p] /\ r.base = s.base
          /\ r.cur = s.cur /\ r.panic = s.panic /\ r.needed = s.needed
      BY Zenon, <2>1 DEF SchedState
    <2>3. Ready(r) = Ready(s)  BY <2>2 DEF Ready, posix_runq_onrunq
    <2>4. QueuesOK(r)
      <3>1. \A l \in Levels : t \notin Range(s.runq[l])
        BY <1>2 DEF Ready, posix_runq_onrunq
      <3>2. \A l \in Levels : Range(s.runq[l]) \subseteq Thread
        <4>1. ASSUME NEW l \in Levels PROVE Range(s.runq[l]) \subseteq Thread
          <5>1. s.runq[l] \in Seq(Thread)  BY DEF SchedState
          <5> QED BY <5>1, SeqLength DEF Range
        <4> QED BY <4>1
      <3>3. \A l \in Levels : \A u \in Range(s.runq[l]) : r.pri[u] = s.pri[u]
        BY <2>2, <3>1, <3>2 DEF SchedState
      <3> QED BY <2>2, <3>3 DEF QueuesOK, QueuedAtPriority, BitsMatch
    <2> QED BY <2>2, <2>3, <2>4 DEF r
  <1> QED BY <1>1, <1>2

\* A thread made runnable while it is not queued is ready and nothing panics.
LEMMA SetrunnableLemma ==
  ASSUME NEW s \in SchedState, QueuesOK(s), NEW t \in Thread, t \notin Ready(s)
  PROVE  LET r == pthread_sched_setrunnable(s, t)
         IN  /\ r \in SchedState /\ QueuesOK(r) /\ Ready(r) = Ready(s) \cup {t}
             /\ r.cur = s.cur /\ r.panic = s.panic /\ r.pri = s.pri
             /\ CurPrio(r) < posix_runq_maxprio(r) => r.needed
  <1> DEFINE i == posix_runq_insert_tail(s, t)
  <1>1. pthread_sched_setrunnable(s, t) = NotePreempt(i)
    BY OnRunqLemma DEF pthread_sched_setrunnable, posix_sched_setrunnable
  <1>2. /\ i \in SchedState /\ QueuesOK(i) /\ Ready(i) = Ready(s) \cup {t}
        /\ i.cur = s.cur /\ Rest(i) = Rest(s)
    BY InsertLemma
  <1> HIDE DEF i
  <1> DEFINE r == NotePreempt(i)
  <1>3. /\ r \in SchedState /\ QueuesOK(r) /\ Ready(r) = Ready(i)
        /\ r.cur = i.cur /\ r.panic = i.panic /\ r.pri = i.pri
        /\ posix_runq_maxprio(r) = posix_runq_maxprio(i) /\ CurPrio(r) = CurPrio(i)
        /\ i.needed \/ CurPrio(i) < posix_runq_maxprio(i) => r.needed
    BY <1>2, NotePreemptLemma
  <1>4. i.panic = s.panic /\ i.pri = s.pri  BY <1>2 DEF Rest
  <1> HIDE DEF r
  <1>5. pthread_sched_setrunnable(s, t) = r  BY <1>1 DEF r
  <1> QED BY <1>2, <1>3, <1>4, <1>5

\* The running thread that can go on is put back on the run queue.
LEMMA DispatchLemma ==
  ASSUME NEW s \in SchedState, QueuesOK(s), s.cur \in Thread, s.cur \notin Ready(s),
         NEW reason \in {"USERYIELD", "YIELD", "PREEMPT"}
  PROVE  LET r == posix_sched_dispatch(s, reason)
         IN  /\ r \in SchedState /\ QueuesOK(r) /\ Ready(r) = Ready(s) \cup {s.cur}
             /\ r.cur = s.cur /\ r.panic = s.panic /\ r.pri = s.pri
  <1> DEFINE t == s.cur
             tail == posix_runq_insert_tail(s, t)
             head == posix_runq_insert_head(s, t)
             r == posix_sched_dispatch(s, reason)
  <1>1. /\ tail \in SchedState /\ QueuesOK(tail) /\ Ready(tail) = Ready(s) \cup {t}
        /\ tail.cur = t /\ Rest(tail) = Rest(s)
    BY InsertLemma
  <1>2. /\ head \in SchedState /\ QueuesOK(head) /\ Ready(head) = Ready(s) \cup {t}
        /\ head.cur = t /\ Rest(head) = Rest(s)
    BY InsertLemma
  <1> HIDE DEF tail, head
  <1>3. \/ r = tail \/ r = head
        \/ r = [tail EXCEPT !.ticks[t] = SCHED_RR_INTERVAL]
        \/ s.ticks[t] # 1 /\ r = [head EXCEPT !.ticks[t] = @ - 1]
    BY DEF posix_sched_dispatch, tail, head
  <1> HIDE DEF r
  <1>4. CASE r = tail  BY <1>1, <1>4 DEF r, Rest
  <1>5. CASE r = head  BY <1>2, <1>5 DEF r, Rest
  <1>6. CASE r = [tail EXCEPT !.ticks[t] = SCHED_RR_INTERVAL]
    <2>1. /\ r \in SchedState /\ r.runq = tail.runq /\ r.which = tail.which /\ r.pri = tail.pri
          /\ r.cur = t /\ r.panic = tail.panic
      <3>1. SCHED_RR_INTERVAL \in 1 .. SCHED_RR_INTERVAL /\ t \in Thread  BY SchedAssumption
      <3> HIDE DEF t
      <3> QED BY Zenon, <1>1, <1>6, <3>1 DEF SchedState
    <2> QED BY <1>1, <2>1, SameQueueLemma DEF r, Rest
  <1>7. CASE s.ticks[t] # 1 /\ r = [head EXCEPT !.ticks[t] = @ - 1]
    <2>1. head.ticks[t] - 1 \in 1 .. SCHED_RR_INTERVAL
      BY <1>2, <1>7, SchedAssumption DEF SchedState, Rest
    <2>2. /\ r \in SchedState /\ r.runq = head.runq /\ r.which = head.which /\ r.pri = head.pri
          /\ r.cur = t /\ r.panic = head.panic
      BY Zenon, <1>2, <1>7, <2>1 DEF SchedState
    <2> QED BY <1>2, <2>2, SameQueueLemma DEF r, Rest
  <1> QED BY <1>3, <1>4, <1>5, <1>6, <1>7

\* The end of pthread_sched_dispatch: a ready thread of the highest priority
\* runs, the idle thread only when there is none.
LEMMA RunNextLemma ==
  ASSUME NEW c \in SchedState, QueuesOK(c)
  PROVE  LET r == thread_next(c)
         IN  /\ r \in SchedState /\ RunqOK(r) /\ Ready(r) = Ready(c) \ {r.cur}
             /\ r.cur \in Ready(c) \/ (r.cur = Idle /\ Ready(c) = {})
             /\ r.panic = c.panic /\ r.pri = c.pri /\ r.needed = c.needed
             /\ r.cur \in Thread => r.pri[r.cur] >= posix_runq_maxprio(r)
  <1> DEFINE r == thread_next(c)
  <1>3. c.which = {} <=> Ready(c) = {}  BY MaxPrioLemma
  <1>4. \A u : posix_runq_onrunq(c, u) => u \in Thread
    <2>1. ASSUME NEW l \in Levels PROVE Range(c.runq[l]) \subseteq Thread
      <3>1. c.runq[l] \in Seq(Thread)  BY DEF SchedState
      <3> QED BY <3>1, SeqLength DEF Range
    <2> QED BY <2>1 DEF posix_runq_onrunq
  <1>5. CASE c.which = {}
    <2>1. r = [c EXCEPT !.cur = Idle]  BY <1>5 DEF thread_next
    <2> HIDE DEF r
    <2>2. /\ r \in SchedState /\ r.runq = c.runq /\ r.which = c.which /\ r.pri = c.pri
          /\ r.cur = Idle /\ r.panic = c.panic /\ r.needed = c.needed
      BY Zenon, <2>1 DEF SchedState
    <2>3. QueuesOK(r) /\ Ready(r) = Ready(c)  BY <2>2, SameQueueLemma
    <2>4. ~posix_runq_onrunq(r, Idle)  BY <1>4, <2>2, SchedAssumption DEF posix_runq_onrunq
    <2> QED BY <1>3, <1>5, <2>2, <2>3, <2>4, SchedAssumption DEF RunqOK, r
  <1>6. CASE c.which # {}
    <2>1. r = posix_runq_dequeue(c)  BY <1>6 DEF thread_next
    <2> HIDE DEF r
    <2>2. /\ r \in SchedState /\ QueuesOK(r) /\ r.cur \in Ready(c)
          /\ c.pri[r.cur] = posix_runq_maxprio(c)
          /\ Ready(r) = Ready(c) \ {r.cur} /\ Rest(r) = Rest(c)
      BY <1>6, <2>1, DequeueLemma
    <2>3. r.cur \in Thread  BY <2>2 DEF Ready
    <2>4. ~posix_runq_onrunq(r, r.cur)  BY <2>2, <2>3, OnRunqLemma
    <2>5. r.panic = c.panic /\ r.pri = c.pri /\ r.needed = c.needed  BY <2>2 DEF Rest
    <2>6. r.pri[r.cur] >= posix_runq_maxprio(r)
      <3>1. r.pri[r.cur] = posix_runq_maxprio(c) /\ r.pri[r.cur] \in Prio
        BY <2>2, <2>3, <2>5 DEF SchedState
      <3>2. r.which \subseteq c.which /\ c.which \in SUBSET Nat
        BY <1>6, <2>1, SchedAssumption DEF posix_runq_dequeue, ClearIfEmpty, SchedState, Levels
      <3>3. CASE r.which = {}
        <4>1. posix_runq_maxprio(r) = -1  BY <3>3 DEF posix_runq_maxprio
        <4> QED BY <3>1, <4>1, SchedAssumption DEF Prio
      <3>4. CASE r.which # {}
        <4>1. Min(r.which) \in c.which /\ Min(c.which) <= Min(r.which) /\ Min(c.which) \in Nat /\ Min(r.which) \in Nat
          BY <3>2, <3>4, <1>6, MinLemma
        <4>2. posix_runq_maxprio(c) = PRIORITY_MAX - Min(c.which) /\ posix_runq_maxprio(r) = PRIORITY_MAX - Min(r.which)
          BY <1>6, <3>4 DEF posix_runq_maxprio
        <4> QED BY SMTT(30), <3>1, <4>1, <4>2, SchedAssumption
      <3> QED BY <3>3, <3>4
    <2> QED BY <2>2, <2>3, <2>4, <2>5, <2>6 DEF RunqOK, r
  <1> QED BY <1>5, <1>6

\* Clearing PREEMPT_NEEDED leaves the run queue alone.
LEMMA ClearNeededLemma ==
  ASSUME NEW d \in SchedState, QueuesOK(d)
  PROVE  LET c == [d EXCEPT !.needed = FALSE]
         IN  /\ c \in SchedState /\ QueuesOK(c) /\ Ready(c) = Ready(d) /\ c.cur = d.cur
             /\ c.panic = d.panic /\ c.pri = d.pri /\ ~c.needed
  <1> DEFINE c == [d EXCEPT !.needed = FALSE]
  <1>1. /\ c \in SchedState /\ c.runq = d.runq /\ c.which = d.which /\ c.pri = d.pri
        /\ c.cur = d.cur /\ c.panic = d.panic /\ ~c.needed
    BY Zenon DEF SchedState
  <1> HIDE DEF c
  <1>2. QueuesOK(c) /\ Ready(c) = Ready(d)  BY <1>1, SameQueueLemma
  <1> QED BY <1>1, <1>2 DEF c

\* A reschedule of a thread that can go on: it or another ready thread runs,
\* and none that stays ready outranks it.
LEMMA RescheduleLemma ==
  ASSUME NEW s \in SchedState, QueuesOK(s), s.cur \in Thread, s.cur \notin Ready(s),
         NEW reason \in {"USERYIELD", "YIELD", "PREEMPT"}
  PROVE  LET r == pthread_sched_reschedule(s, reason)
         IN  /\ r \in SchedState /\ RunqOK(r)
             /\ r.cur \in Ready(s) \cup {s.cur} /\ r.cur \in Thread
             /\ Ready(r) = (Ready(s) \cup {s.cur}) \ {r.cur}
             /\ r.panic = s.panic /\ r.pri = s.pri /\ ~r.needed
             /\ r.pri[r.cur] >= posix_runq_maxprio(r)
  <1> DEFINE d == posix_sched_dispatch(s, reason)
             r == pthread_sched_reschedule(s, reason)
  <1>1. /\ d \in SchedState /\ QueuesOK(d) /\ Ready(d) = Ready(s) \cup {s.cur}
        /\ d.cur = s.cur /\ d.panic = s.panic /\ d.pri = s.pri
    BY DispatchLemma
  <1> HIDE DEF d
  <1> DEFINE c == [d EXCEPT !.needed = FALSE]
  <1>2. /\ c \in SchedState /\ QueuesOK(c) /\ Ready(c) = Ready(d)
        /\ c.panic = d.panic /\ c.pri = d.pri /\ ~c.needed
    BY <1>1, ClearNeededLemma
  <1> HIDE DEF r, c
  <1>3. /\ r \in SchedState /\ RunqOK(r) /\ Ready(r) = Ready(c) \ {r.cur}
        /\ r.cur \in Ready(c) \/ (r.cur = Idle /\ Ready(c) = {})
        /\ r.panic = c.panic /\ r.pri = c.pri /\ r.needed = c.needed
        /\ r.cur \in Thread => r.pri[r.cur] >= posix_runq_maxprio(r)
    <2>1. r = thread_next(c)  BY DEF pthread_sched_reschedule, c, d, r
    <2> QED BY <1>2, <2>1, RunNextLemma
  <1>4. r.cur \in Thread  BY SMTT(30), <1>1, <1>2, <1>3 DEF Ready
  <1> QED BY <1>1, <1>2, <1>3, <1>4 DEF r

\* A reschedule of a thread that blocks, or of the idle thread.
LEMMA BlockLemma ==
  ASSUME NEW s \in SchedState, QueuesOK(s), NEW reason \in {"BLOCK", "INTERNAL"}
  PROVE  LET r == pthread_sched_reschedule(s, reason)
         IN  /\ r \in SchedState /\ RunqOK(r)
             /\ r.cur \in Ready(s) \/ (r.cur = Idle /\ Ready(s) = {})
             /\ Ready(r) = Ready(s) \ {r.cur}
             /\ r.panic = s.panic /\ r.pri = s.pri /\ ~r.needed
             /\ r.cur \in Thread => r.pri[r.cur] >= posix_runq_maxprio(r)
  <1> DEFINE r == pthread_sched_reschedule(s, reason)
  <1>1. posix_sched_dispatch(s, reason) = s  BY DEF posix_sched_dispatch
  <1> DEFINE c == [s EXCEPT !.needed = FALSE]
  <1>2. /\ c \in SchedState /\ QueuesOK(c) /\ Ready(c) = Ready(s)
        /\ c.panic = s.panic /\ c.pri = s.pri /\ ~c.needed
    BY ClearNeededLemma
  <1>3. r = thread_next(c)  BY <1>1 DEF pthread_sched_reschedule
  <1> HIDE DEF r, c
  <1>4. /\ r \in SchedState /\ RunqOK(r) /\ Ready(r) = Ready(c) \ {r.cur}
        /\ r.cur \in Ready(c) \/ (r.cur = Idle /\ Ready(c) = {})
        /\ r.panic = c.panic /\ r.pri = c.pri /\ r.needed = c.needed
        /\ r.cur \in Thread => r.pri[r.cur] >= posix_runq_maxprio(r)
    BY <1>2, <1>3, RunNextLemma
  <1> QED BY <1>2, <1>4 DEF r

\* A directed switch runs the given thread, and queues the caller if it yields.
LEMMA HandoffLemma ==
  ASSUME NEW s \in SchedState, QueuesOK(s), s.cur \in Thread, s.cur \notin Ready(s),
         NEW t \in Thread, t \notin Ready(s), t # s.cur,
         NEW reason \in {"YIELD", "BLOCK"}
  PROVE  LET r == pthread_sched_handoff(s, reason, t)
         IN  /\ r \in SchedState /\ RunqOK(r) /\ r.cur = t
             /\ Ready(r) = Ready(s) \cup (IF reason = "YIELD" THEN {s.cur} ELSE {})
             /\ r.panic = s.panic
  <1> DEFINE r == pthread_sched_handoff(s, reason, t)
             d == posix_sched_dispatch(s, reason)
  <1>1. /\ d \in SchedState /\ QueuesOK(d) /\ d.panic = s.panic /\ d.pri = s.pri
        /\ Ready(d) = Ready(s) \cup (IF reason = "YIELD" THEN {s.cur} ELSE {})
    <2>1. CASE reason = "YIELD"  BY <2>1, DispatchLemma
    <2>2. CASE reason = "BLOCK"  BY <2>2 DEF posix_sched_dispatch
    <2> QED BY <2>1, <2>2
  <1>2. r = [d EXCEPT !.needed = FALSE, !.cur = t]  BY DEF pthread_sched_handoff
  <1> HIDE DEF r, d
  <1>3. /\ r \in SchedState /\ r.runq = d.runq /\ r.which = d.which /\ r.pri = d.pri
        /\ r.cur = t /\ r.panic = d.panic
    BY Zenon, <1>1, <1>2 DEF SchedState
  <1>4. QueuesOK(r) /\ Ready(r) = Ready(d)  BY <1>1, <1>3, SameQueueLemma
  <1>5. ~posix_runq_onrunq(r, t)  BY <1>1, <1>3, <1>4, OnRunqLemma
  <1> QED BY SMTT(30), <1>1, <1>3, <1>4, <1>5 DEF r, RunqOK

\* A priority change, of a thread that is running, ready or blocked, moves no
\* thread out of its place and leaves a due preemption pending.
LEMMA ChangePriorityLemma ==
  ASSUME NEW s \in SchedState, QueuesOK(s), NEW t \in Thread, NEW p \in Prio,
         CurPrio(s) < posix_runq_maxprio(s) => s.needed
  PROVE  LET r == posix_sched_change_state(s, t, p)
         IN  /\ r \in SchedState /\ QueuesOK(r) /\ Ready(r) = Ready(s)
             /\ r.cur = s.cur /\ r.panic = s.panic
             /\ CurPrio(r) < posix_runq_maxprio(r) => r.needed
  <1> DEFINE r == posix_sched_change_state(s, t, p)
  <1>1. CASE s.base[t] = p
    <2>1. r = s  BY <1>1 DEF posix_sched_change_state
    <2> QED BY <2>1
  <1>2. CASE s.base[t] # p
    <2> DEFINE b == [s EXCEPT !.base[t] = p]
               q == SetPriority(b, t, p)
    <2>1. r = NotePreempt(q)  BY <1>2 DEF posix_sched_change_state
    <2>2. /\ b \in SchedState /\ b.runq = s.runq /\ b.which = s.which /\ b.pri = s.pri
          /\ b.cur = s.cur /\ b.panic = s.panic
      BY Zenon DEF SchedState
    <2> HIDE DEF b
    <2>3. QueuesOK(b) /\ Ready(b) = Ready(s)  BY <2>2, SameQueueLemma
    <2>4. /\ q \in SchedState /\ QueuesOK(q) /\ Ready(q) = Ready(b)
          /\ q.cur = b.cur /\ q.panic = b.panic
      BY Zenon, <2>2, <2>3, SetPriorityLemma
    <2> HIDE DEF q, r
    <2>5. /\ r \in SchedState /\ QueuesOK(r) /\ Ready(r) = Ready(q)
          /\ r.cur = q.cur /\ r.panic = q.panic
          /\ posix_runq_maxprio(r) = posix_runq_maxprio(q) /\ CurPrio(r) = CurPrio(q)
          /\ q.needed \/ CurPrio(q) < posix_runq_maxprio(q) => r.needed
      BY <2>1, <2>4, NotePreemptLemma
    <2> QED BY <2>2, <2>3, <2>4, <2>5 DEF r
  <1> QED BY <1>1, <1>2

\* Lending a priority, or giving it back, changes the priority of a thread and
\* no thread's place; a due preemption stays pending.
LEMMA BumpLemma ==
  ASSUME NEW s \in SchedState, QueuesOK(s), NEW t \in Thread, NEW p \in Prio
  PROVE  LET r == posix_sched_priority_bump(s, t, p)
         IN  /\ r \in SchedState /\ QueuesOK(r) /\ Ready(r) = Ready(s)
             /\ r.cur = s.cur /\ r.panic = s.panic
             /\ (CurPrio(s) < posix_runq_maxprio(s) => s.needed)
                  => (CurPrio(r) < posix_runq_maxprio(r) => r.needed)
  <1> DEFINE r == posix_sched_priority_bump(s, t, p)
             q == SetPriority(s, t, p)
  <1>0. /\ q \in SchedState /\ QueuesOK(q) /\ Ready(q) = Ready(s)
        /\ q.cur = s.cur /\ q.panic = s.panic
    BY SetPriorityLemma, Zenon
  <1>1. ~(p > PRIORITY_MAX)  BY SchedAssumption DEF Prio
  <1>2. CASE s.pri[t] = p
    <2>1. r = s  BY <1>2 DEF posix_sched_priority_bump
    <2> QED BY <2>1
  <1>3. CASE s.pri[t] # p
    <2>1. r = NotePreempt(q)  BY <1>1, <1>3 DEF posix_sched_priority_bump
    <2> HIDE DEF q, r
    <2>3. /\ r \in SchedState /\ QueuesOK(r) /\ Ready(r) = Ready(q)
          /\ r.cur = q.cur /\ r.panic = q.panic
          /\ posix_runq_maxprio(r) = posix_runq_maxprio(q) /\ CurPrio(r) = CurPrio(q)
          /\ q.needed \/ CurPrio(q) < posix_runq_maxprio(q) => r.needed
      BY <1>0, <2>1, NotePreemptLemma
    <2> QED BY <1>0, <2>3 DEF r
  <1> QED BY <1>2, <1>3

LEMMA TransferLemma ==
  ASSUME NEW s \in SchedState, QueuesOK(s), s.cur \in Thread, NEW t \in Thread
  PROVE  LET r == PriorityTransfer(s, t)
         IN  /\ r \in SchedState /\ QueuesOK(r) /\ Ready(r) = Ready(s)
             /\ r.cur = s.cur /\ r.panic = s.panic
  <1>1. CurPrio(s) \in Prio  BY SchedAssumption DEF CurPrio, SchedState
  <1> DEFINE r == posix_sched_priority_bump(s, t, CurPrio(s))
  <1>2. /\ r \in SchedState /\ QueuesOK(r) /\ Ready(r) = Ready(s)
        /\ r.cur = s.cur /\ r.panic = s.panic
    BY <1>1, BumpLemma
  <1>3. PriorityTransfer(s, t) = r \/ PriorityTransfer(s, t) = s  BY DEF PriorityTransfer
  <1> HIDE DEF r
  <1> QED BY <1>2, <1>3

LEMMA TransferUndoLemma ==
  ASSUME NEW s \in SchedState, QueuesOK(s), NEW t \in Thread
  PROVE  LET r == pthread_sched_priority_transfer_undo(s, t)
         IN  /\ r \in SchedState /\ QueuesOK(r) /\ Ready(r) = Ready(s)
             /\ r.cur = s.cur /\ r.panic = s.panic
             /\ (CurPrio(s) < posix_runq_maxprio(s) => s.needed)
                  => (CurPrio(r) < posix_runq_maxprio(r) => r.needed)
  <1>1. s.base[t] \in Prio  BY DEF SchedState
  <1> DEFINE r == posix_sched_priority_bump(s, t, s.base[t])
  <1>2. /\ r \in SchedState /\ QueuesOK(r) /\ Ready(r) = Ready(s)
        /\ r.cur = s.cur /\ r.panic = s.panic
        /\ (CurPrio(s) < posix_runq_maxprio(s) => s.needed)
             => (CurPrio(r) < posix_runq_maxprio(r) => r.needed)
    BY SMTT(30), <1>1, BumpLemma
  <1>3. \/ pthread_sched_priority_transfer_undo(s, t) = r
        \/ pthread_sched_priority_transfer_undo(s, t) = s
    BY SMTT(30) DEF pthread_sched_priority_transfer_undo
  <1> HIDE DEF r
  <1> QED BY <1>2, <1>3

\* pthread_sched_init_schedstate of a thread that is not ready, for a policy that
\* may be new: no thread moves.
LEMMA InitSchedstateLemma ==
  ASSUME NEW s \in SchedState, QueuesOK(s), NEW t \in Thread, t \notin Ready(s),
         NEW policy \in Policies, NEW p \in Prio
  PROVE  LET r == pthread_sched_init_schedstate(s, t, policy, p)
         IN  /\ r \in SchedState /\ QueuesOK(r) /\ Ready(r) = Ready(s)
             /\ r.cur = s.cur /\ r.panic = s.panic /\ r.needed = s.needed
             /\ posix_runq_maxprio(r) = posix_runq_maxprio(s)
             /\ t # s.cur => CurPrio(r) = CurPrio(s)
  <1> DEFINE r == pthread_sched_init_schedstate(s, t, policy, p)
             b == [s EXCEPT !.policy[t] = policy, !.base[t] = p, !.ticks[t] = SCHED_RR_INTERVAL]
  <1>1. SCHED_RR_INTERVAL \in 1 .. SCHED_RR_INTERVAL  BY SchedAssumption
  <1>2. /\ b \in SchedState /\ b.runq = s.runq /\ b.which = s.which /\ b.pri = s.pri
        /\ b.cur = s.cur /\ b.panic = s.panic /\ b.needed = s.needed
    BY Zenon, <1>1 DEF SchedState
  <1>3. QueuesOK(b) /\ Ready(b) = Ready(s)  BY Zenon, <1>2, SameQueueLemma
  <1>4. r = [b EXCEPT !.pri[t] = p]
    BY Zenon DEF pthread_sched_init_schedstate, posix_sched_init_schedstate, SchedState
  <1>5. SetPriority(b, t, p) = [b EXCEPT !.pri[t] = p]
    <2> HIDE DEF b
    <2> QED BY <1>2, <1>3, OnRunqLemma DEF SetPriority
  <1>6. r.which = s.which  BY <1>2, <1>4 DEF SchedState
  <1> HIDE DEF b, r
  <1>7. /\ r \in SchedState /\ QueuesOK(r) /\ Ready(r) = Ready(b)
        /\ r.cur = b.cur /\ r.panic = b.panic /\ r.needed = b.needed
        /\ r.pri = [b.pri EXCEPT ![t] = p]
    <2>1. r = SetPriority(b, t, p)  BY <1>4, <1>5
    <2> QED BY <1>2, <1>3, <2>1, SetPriorityLemma
  <1>8. t # s.cur => CurPrio(r) = CurPrio(s)
    BY <1>2, <1>7 DEF CurPrio, SchedState
  <1>9. posix_runq_maxprio(r) = posix_runq_maxprio(s)  BY <1>6 DEF posix_runq_maxprio
  <1> QED BY SMTT(30), <1>2, <1>3, <1>7, <1>8, <1>9 DEF r

\* enable_preemption() runs a thread that no ready thread outranks, provided a
\* due preemption was pending.
LEMMA EnablePreemptionLemma ==
  ASSUME NEW s \in SchedState, QueuesOK(s), s.cur \in Thread, s.cur \notin Ready(s)
  PROVE  LET r == enable_preemption(s)
         IN  /\ r \in SchedState /\ RunqOK(r) /\ r.cur \in Thread
             /\ r.cur \in Ready(s) \cup {s.cur}
             /\ Ready(r) = (Ready(s) \cup {s.cur}) \ {r.cur}
             /\ r.panic = s.panic
             /\ (s.pri[s.cur] < posix_runq_maxprio(s) => s.needed)
                  => r.pri[r.cur] >= posix_runq_maxprio(r)
  <1>1. CASE s.needed
    <2>1. enable_preemption(s) = pthread_sched_reschedule(s, "YIELD")
      BY SMTT(30), <1>1 DEF enable_preemption
    <2> DEFINE r == pthread_sched_reschedule(s, "YIELD")
    <2>2. /\ r \in SchedState /\ RunqOK(r)
          /\ r.cur \in Ready(s) \cup {s.cur} /\ r.cur \in Thread
          /\ Ready(r) = (Ready(s) \cup {s.cur}) \ {r.cur}
          /\ r.panic = s.panic /\ r.pri[r.cur] >= posix_runq_maxprio(r)
      BY SMTT(30), RescheduleLemma
    <2> HIDE DEF r
    <2> QED BY <2>1, <2>2 DEF r
  <1>2. CASE ~s.needed
    <2>1. enable_preemption(s) = s  BY <1>2 DEF enable_preemption
    <2>2. ~posix_runq_onrunq(s, s.cur)  BY OnRunqLemma
    <2>3. ~(s.pri[s.cur] < posix_runq_maxprio(s)) => s.pri[s.cur] >= posix_runq_maxprio(s)
      <3>1. s.pri[s.cur] \in Int  BY SchedAssumption DEF SchedState, Prio
      <3>2. posix_runq_maxprio(s) \in Int  BY MaxPrioLemma, SchedAssumption DEF Prio
      <3> QED BY <3>1, <3>2
    <2> QED BY <1>2, <2>1, <2>2, <2>3 DEF RunqOK
  <1> QED BY SMTT(30), <1>1, <1>2
=============================================================================
