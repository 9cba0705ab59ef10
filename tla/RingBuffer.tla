----------------------------- MODULE RingBuffer -----------------------------
(***************************************************************************)
(* struct ringbuf of buffer.c: Size cells that are allocated on the first  *)
(* write and freed when the buffer becomes empty.  w_pos is the cell the   *)
(* next byte goes to and used the number of cells in use behind it.        *)
(***************************************************************************)
EXTENDS SeqArith, Sequences

CONSTANTS Size, Byte, MaxLen,
          NULL,      \* no cells are allocated
          Junk       \* the content of a cell malloc returned and nobody wrote

ASSUME RingBufferAssumption ==
    /\ Size \in Nat \ {0}
    /\ 2 * Size < SeqMod
    /\ MaxLen \in Nat
    /\ Junk \notin Byte
    /\ NULL \notin [0..(Size - 1) -> Byte \cup {Junk}]

VARIABLES p,         \* NULL or the cells
          w_seq, w_pos, used,
          got        \* what the last rb_read copied out

vars == <<p, w_seq, w_pos, used, got>>

Cells == 0..(Size - 1)
Chunk == UNION {[1..n -> Byte] : n \in 0..MaxLen}

\* rb_new, then rb_set with any sequence number.
Init ==
    /\ p = NULL
    /\ w_seq \in uint
    /\ w_pos = 0
    /\ used = 0
    /\ got = <<>>

\* Mutant: every write starts from fresh memory.
Allocated_always_fresh == [c \in Cells |-> Junk]

\* The cells rb_write starts from: the present ones, or fresh memory.
Allocated == IF p = NULL THEN [c \in Cells |-> Junk] ELSE p

\* Mutant: a chunk longer than the room that is left is not cut.
rb_write_uncut(data) ==
    /\ Len(data) > 0
    /\ LET pos == IF p = NULL THEN 0 ELSE w_pos
           old == IF p = NULL THEN 0 ELSE used
           len == Len(data)
           cnt == MinInt(len, Size - pos)
       IN  /\ p' = [c \in Cells |->
                      IF c \in pos..(pos + cnt - 1) THEN data[c - pos + 1]
                      ELSE IF pos + cnt = Size /\ c < len - cnt THEN data[cnt + c + 1]
                      ELSE Allocated[c]]
           /\ used' = old + len
           /\ w_pos' = IF pos + cnt = Size THEN len - cnt ELSE pos + cnt
           /\ w_seq' = SeqAdd(w_seq, len)
    /\ UNCHANGED got

\* The two memcpy calls of rb_write: up to the last cell, then from cell 0.
rb_write(data) ==
    /\ Len(data) > 0
    /\ LET pos == IF p = NULL THEN 0 ELSE w_pos
           old == IF p = NULL THEN 0 ELSE used
           len == MinInt(Len(data), Size - old)
           cnt == MinInt(len, Size - pos)
       IN  /\ p' = [c \in Cells |->
                      IF c \in pos..(pos + cnt - 1) THEN data[c - pos + 1]
                      ELSE IF pos + cnt = Size /\ c < len - cnt THEN data[cnt + c + 1]
                      ELSE Allocated[c]]
           /\ used' = old + len
           /\ w_pos' = IF pos + cnt = Size THEN len - cnt ELSE pos + cnt
           /\ w_seq' = SeqAdd(w_seq, len)
    /\ UNCHANGED got

\* A write of no bytes returns before it allocates anything.
rb_write_nothing(data) == Len(data) = 0 /\ UNCHANGED vars

\* Mutant: the memory of an empty buffer is not given back.
rb_advance_keeps_memory(s) ==
    LET left == IntDiff(w_seq, s)
    IN  /\ left <= used
        /\ used' = IF left <= 0 THEN 0 ELSE left
        /\ w_seq' = IF left <= 0 THEN s ELSE w_seq
        /\ UNCHANGED <<p, w_pos, got>>

\* tcp.c only advances to a number that is not before the bytes kept.
rb_advance(s) ==
    LET left == IntDiff(w_seq, s)
    IN  /\ left <= used
        /\ used' = IF left <= 0 THEN 0 ELSE left
        /\ w_seq' = IF left <= 0 THEN s ELSE w_seq
        /\ IF left <= 0
             THEN p' = NULL /\ w_pos' = 0
             ELSE UNCHANGED <<p, w_pos>>
        /\ UNCHANGED got

\* Mutant: after the first memcpy "back" still counts the bytes copied.
rb_read_same_back(s, max) ==
    LET back == IntDiff(w_seq, s)
        m    == IF back = 0 \/ used < back \/ max = 0 THEN 0 ELSE MinInt(back, max)
        cnt  == IF back > w_pos THEN MinInt(back - w_pos, m) ELSE 0
    IN  /\ got' = [i \in 1..m |->
                     IF i <= cnt THEN p[Size - (back - w_pos) + i - 1]
                                 ELSE p[(w_pos - back + (i - cnt) - 1) % Size]]
        /\ UNCHANGED <<p, w_seq, w_pos, used>>

\* The two memcpy calls of rb_read: the cells before the end of the ring that
\* hold bytes older than cell 0, then the cells behind w_pos.
rb_read(s, max) ==
    LET back == IntDiff(w_seq, s)
        m    == IF back = 0 \/ used < back \/ max = 0 THEN 0 ELSE MinInt(back, max)
        cnt  == IF back > w_pos THEN MinInt(back - w_pos, m) ELSE 0
    IN  /\ got' = [i \in 1..m |->
                     IF i <= cnt THEN p[Size - (back - w_pos) + i - 1]
                                 ELSE p[w_pos - (back - cnt) + (i - cnt) - 1]]
        /\ UNCHANGED <<p, w_seq, w_pos, used>>

Next ==
    \/ \E data \in Chunk : rb_write(data) \/ rb_write_nothing(data)
    \/ \E s \in uint : rb_advance(s)
    \/ \E s \in uint, max \in 0..MaxLen : rb_read(s, max)

Spec == Init /\ [][Next]_vars
-----------------------------------------------------------------------------
(* Properties. *)

\* Every field stays in its range; in particular no more than Size cells are in use
\* and w_pos is always a cell, so no memcpy leaves the allocated block.
TypeOK ==
    /\ p = NULL \/ p \in [Cells -> Byte \cup {Junk}]
    /\ w_seq \in uint
    /\ w_pos \in Cells
    /\ used \in 0..Size
    /\ got \in Seq(Byte)

\* The block is allocated exactly while it holds a byte: the 16 kB of an idle
\* direction of a session are given back by rb_advance and never leaked, and
\* no byte is ever kept without memory behind it.
MemoryHeldIffUsed == (p = NULL) <=> (used = 0)

\* The cell of the byte that was written back bytes ago.
CellOf(back) == IF back > w_pos THEN Size - (back - w_pos) ELSE w_pos - back

\* Every byte that rb_read may return was written: the cells in use behind
\* w_pos, wrapping at cell 0, never hold uninitialised memory.
KeptInitialised == \A back \in 1..used : p[CellOf(back)] \in Byte

\* The ring implements the queue of bytes: the cells in use, oldest first, are
\* its content, whatever order of writes, reads and advances led there.
Queue == INSTANCE ByteQueue WITH kept <- [i \in 1..used |-> p[CellOf(used - i + 1)]]

Implements == Queue!Spec
=============================================================================
