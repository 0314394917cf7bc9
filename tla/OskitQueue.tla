----------------------------- MODULE OskitQueue -----------------------------
(***************************************************************************)
(* The chain macros of oskit/queue.h on a sequence: the links of a queue   *)
(* whose elements are all distinct.  queue_enter is Append, and            *)
(* queue_remove_first is Head and Tail.                                    *)
(***************************************************************************)
EXTENDS Integers, Sequences, Functions

\* queue_remove: unlink t, wherever it is in the queue.
queue_remove(q, t) ==
  LET i == CHOOSE i \in DOMAIN q : q[i] = t
  IN  SubSeq(q, 1, i - 1) \o SubSeq(q, i + 1, Len(q))

queue_enter_first(q, t) == <<t>> \o q

\* queue_enter_before the element at position i, at the tail when there is none.
queue_enter_before(q, i, t) == SubSeq(q, 1, i - 1) \o <<t>> \o SubSeq(q, i, Len(q))
=============================================================================
