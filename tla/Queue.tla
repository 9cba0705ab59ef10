------------------------------- MODULE Queue --------------------------------
(***************************************************************************)
(* What buffer.c promises its callers, as operators on values: a bounded   *)
(* queue of bytes addressed by TCP sequence number.  A queue q holds the   *)
(* bytes q.kept, oldest first; the newest one has number q.w_seq - 1.      *)
(* RingBuffer shows that struct ringbuf implements these operators, and    *)
(* Tcp uses them for the two buffers of a session.                         *)
(***************************************************************************)
EXTENDS SeqArith, Sequences

Queues(Byte) == [kept : Seq(Byte), w_seq : uint]

\* rb_new and rb_set.
Empty(s) == [kept |-> <<>>, w_seq |-> s]

rb_used(q) == Len(q.kept)

\* rb_avail: how far w_seq is ahead of s; negative when s is beyond it.
rb_avail(q, s) ==
    LET d == IntDiff(q.w_seq, s)
    IN  IF d > rb_used(q) THEN 0 ELSE d

\* Of data, as much as fits in size bytes goes to the end.
Written(q, data, size) ==
    LET old == rb_used(q)
        n   == MinInt(Len(data), size - old)
    IN  [kept  |-> [i \in 1..(old + n) |->
                      IF i <= old THEN q.kept[i] ELSE data[i - old]],
         w_seq |-> SeqAdd(q.w_seq, n)]

\* Everything before s is dropped; s may lie beyond the last byte written.
\* The callers never ask for more than is kept (see AdvanceWithin).
Advanced(q, s) ==
    LET left == IntDiff(q.w_seq, s)
    IN  IF left <= 0 THEN Empty(s)
        ELSE [kept  |-> [i \in 1..left |-> q.kept[rb_used(q) - left + i]],
              w_seq |-> q.w_seq]

AdvanceWithin(q, s) == IntDiff(q.w_seq, s) <= rb_used(q)

\* At most max bytes starting with number s; none unless s is kept.
Peek(q, s, max) ==
    LET back == IntDiff(q.w_seq, s)
        m    == IF back \in 1..rb_used(q) THEN MinInt(back, max) ELSE 0
    IN  [i \in 1..m |-> q.kept[rb_used(q) - back + i]]
=============================================================================
