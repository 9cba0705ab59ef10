----------------------------- MODULE ByteQueue ------------------------------
(***************************************************************************)
(* The abstract specification of one buffer: a client writes, advances and *)
(* reads in any order.  RingBuffer implements it.                          *)
(***************************************************************************)
EXTENDS Queue

CONSTANTS Size,      \* capacity in bytes
          Byte,      \* the values of a byte
          MaxLen     \* bound: longest chunk given to one write or read

VARIABLES kept, w_seq,
          got        \* what the last read returned

vars == <<kept, w_seq, got>>

q == [kept |-> kept, w_seq |-> w_seq]
Becomes(r) == kept' = r.kept /\ w_seq' = r.w_seq

Chunk == UNION {[1..n -> Byte] : n \in 0..MaxLen}

Init == kept = <<>> /\ w_seq \in uint /\ got = <<>>

Write(data) == Becomes(Written(q, data, Size)) /\ UNCHANGED got

Advance(s) == AdvanceWithin(q, s) /\ Becomes(Advanced(q, s)) /\ UNCHANGED got

Read(s, max) == got' = Peek(q, s, max) /\ UNCHANGED <<kept, w_seq>>

Next ==
    \/ \E data \in Chunk : Write(data)
    \/ \E s \in uint : Advance(s)
    \/ \E s \in uint, max \in 0..MaxLen : Read(s, max)

Spec == Init /\ [][Next]_vars
=============================================================================
