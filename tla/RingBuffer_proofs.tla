------------------------- MODULE RingBuffer_proofs --------------------------
(***************************************************************************)
(* The ring of buffer.c keeps its fields in range, its memory exactly as   *)
(* long as it needs it, and implements the queue of bytes, for every size. *)
(***************************************************************************)
EXTENDS RingBuffer, TLAPS

\* The inductive invariant: besides the properties, a ring without memory has
\* its write position at cell 0, which rb_advance and rb_new see to.
RingInv ==
    /\ TypeOK
    /\ MemoryHeldIffUsed
    /\ KeptInitialised
    /\ p = NULL => w_pos = 0

USE DEF Cells

\* NULL is not a block of cells.
LEMMA NullIsNoBlock == NULL \notin [Cells -> Byte \cup {Junk}]
  BY RingBufferAssumption

\* Sums of sequence numbers are sequence numbers.
LEMMA SeqAddType == ASSUME NEW a \in Int, NEW n \in Int PROVE SeqAdd(a, n) \in uint
  BY SeqModAssumption DEF SeqAdd, uint

\* The signed difference of two sequence numbers is an integer below half the
\* number space.
LEMMA IntDiffType ==
  ASSUME NEW a \in uint, NEW b \in uint
  PROVE  IntDiff(a, b) \in Int
  BY SeqModAssumption DEF IntDiff, uint

\* The smaller of two naturals is one of them.
LEMMA MinIntType ==
  ASSUME NEW a \in Int, NEW b \in Int
  PROVE  /\ MinInt(a, b) \in Int /\ MinInt(a, b) <= a /\ MinInt(a, b) <= b
         /\ MinInt(a, b) = a \/ MinInt(a, b) = b
  BY DEF MinInt

\* A chunk is a sequence of bytes.
LEMMA ChunkType ==
  ASSUME NEW data \in Chunk
  PROVE  Len(data) \in Nat /\ data \in [1..Len(data) -> Byte]
<1>1. PICK n \in 0..MaxLen : data \in [1..n -> Byte]
  BY DEF Chunk
<1>2. Len(data) = n /\ n \in Nat
  BY <1>1, RingBufferAssumption
<1> QED BY <1>1, <1>2

\* The inductive invariant holds initially.
LEMMA InitInv == Init => RingInv
  BY RingBufferAssumption DEF Init, RingInv, TypeOK, MemoryHeldIffUsed, KeptInitialised

\* What rb_write does, counted back from the newest byte: the new bytes are the
\* first of data, and the bytes kept before are where they were.
LEMMA WriteEffect ==
  ASSUME RingInv, NEW data \in Chunk, rb_write(data)
  PROVE  LET len == MinInt(Len(data), Size - used)
         IN  /\ len \in 0..(Size - used) /\ len <= Len(data)
             /\ used' = used + len /\ used' # 0
             /\ w_seq' = SeqAdd(w_seq, len) /\ w_seq' \in uint
             /\ w_pos' \in Cells
             /\ p' \in [Cells -> Byte \cup {Junk}]
             /\ \A b \in 1..len : p'[CellOf(b)'] = data[len - b + 1]
             /\ \A b \in (len + 1)..used' : p'[CellOf(b)'] = p[CellOf(b - len)]
             /\ got' = got
<1> USE RingBufferAssumption
<1>0. Len(data) \in Nat /\ data \in [1..Len(data) -> Byte]
  BY ChunkType
<1> DEFINE pos == IF p = NULL THEN 0 ELSE w_pos
           old == IF p = NULL THEN 0 ELSE used
           len == MinInt(Len(data), Size - old)
           cnt == MinInt(len, Size - pos)
<1>1. pos = w_pos /\ old = used /\ used \in 0..Size /\ w_pos \in Cells /\ w_seq \in uint
  BY DEF RingInv, TypeOK, MemoryHeldIffUsed
<1>2. /\ len \in 0..(Size - used) /\ len <= Len(data) /\ (used < Size => len > 0)
      /\ cnt \in 0..len /\ cnt <= Size - w_pos
      /\ cnt = len \/ cnt = Size - w_pos
  BY <1>0, <1>1 DEF rb_write, MinInt
<1>3. /\ p' = [c \in Cells |->
                 IF c \in pos..(pos + cnt - 1) THEN data[c - pos + 1]
                 ELSE IF pos + cnt = Size /\ c < len - cnt THEN data[cnt + c + 1]
                 ELSE Allocated[c]]
      /\ used' = old + len
      /\ w_pos' = IF pos + cnt = Size THEN len - cnt ELSE pos + cnt
      /\ w_seq' = SeqAdd(w_seq, len)
      /\ got' = got
  BY DEF rb_write
<1>L. len = MinInt(Len(data), Size - used)
  BY <1>1
<1> HIDE DEF pos, old, len, cnt
<1>4. Allocated \in [Cells -> Byte \cup {Junk}]
  BY DEF Allocated, RingInv, TypeOK
<1>5. p' \in [Cells -> Byte \cup {Junk}]
  <2> SUFFICES ASSUME NEW c \in Cells PROVE p'[c] \in Byte \cup {Junk}
    BY <1>3
  <2>1. CASE c \in w_pos..(w_pos + cnt - 1)
    <3>1. p'[c] = data[c - w_pos + 1] /\ c - w_pos + 1 \in 1..Len(data)
      BY <2>1, <1>0, <1>1, <1>2, <1>3
    <3> QED BY <3>1, <1>0
  <2>2. CASE c \notin w_pos..(w_pos + cnt - 1) /\ w_pos + cnt = Size /\ c < len - cnt
    <3>1. p'[c] = data[cnt + c + 1] /\ cnt + c + 1 \in 1..Len(data)
      BY <2>2, <1>0, <1>1, <1>2, <1>3
    <3> QED BY <3>1, <1>0
  <2>3. CASE c \notin w_pos..(w_pos + cnt - 1) /\ ~(w_pos + cnt = Size /\ c < len - cnt)
    BY <2>3, <1>1, <1>3, <1>4
  <2> QED BY <2>1, <2>2, <2>3
<1>6. w_seq' \in uint
  BY <1>1, <1>2, <1>3, SeqModAssumption, SeqAddType DEF uint
<1>7. w_pos' \in Cells
  BY <1>1, <1>2, <1>3
<1>8. used' = used + len /\ used' # 0
  BY <1>1, <1>2, <1>3
<1>9. ASSUME NEW b \in 1..len PROVE p'[CellOf(b)'] = data[len - b + 1]
  <2>1. CASE w_pos + cnt < Size
    <3>1. CellOf(b)' = w_pos + len - b /\ cnt = len
      BY <2>1, <1>1, <1>2, <1>3 DEF CellOf
    <3>2. w_pos + len - b \in w_pos..(w_pos + cnt - 1) /\ w_pos + len - b \in Cells
      BY <2>1, <3>1, <1>1, <1>2
    <3> QED BY <3>1, <3>2, <1>1, <1>2, <1>3
  <2>2. CASE w_pos + cnt = Size /\ b > len - cnt
    <3>0. w_pos' = len - cnt /\ b > w_pos'
      BY <2>2, <1>1, <1>2, <1>3
    <3>1. CellOf(b)' = w_pos + len - b
      BY <2>2, <3>0, <1>1, <1>2 DEF CellOf
    <3>2. w_pos + len - b \in w_pos..(w_pos + cnt - 1) /\ w_pos + len - b \in Cells
      BY <2>2, <3>1, <1>1, <1>2
    <3> QED BY <3>1, <3>2, <1>1, <1>2, <1>3
  <2>3. CASE w_pos + cnt = Size /\ b <= len - cnt
    <3>1. CellOf(b)' = len - cnt - b
      BY <2>3, <1>1, <1>2, <1>3 DEF CellOf
    <3>2. /\ len - cnt - b \in Cells /\ len - cnt - b < len - cnt
          /\ len - cnt - b \notin w_pos..(w_pos + cnt - 1)
      BY <2>3, <3>1, <1>1, <1>2
    <3> QED BY <2>3, <3>1, <3>2, <1>1, <1>2, <1>3
  <2> QED BY <2>1, <2>2, <2>3, <1>1, <1>2
<1>10. ASSUME NEW b \in (len + 1)..used' PROVE p'[CellOf(b)'] = p[CellOf(b - len)]
  <2>1. b - len \in 1..used
    BY <1>2, <1>8, <1>1
  <2>2. used > 0 /\ Allocated = p
    BY <2>1, <1>1 DEF RingInv, MemoryHeldIffUsed, Allocated
  <2>3. CellOf(b)' = CellOf(b - len)
    BY <2>1, <1>1, <1>2, <1>3 DEF CellOf
  <2>4. /\ CellOf(b - len) \in Cells
        /\ CellOf(b - len) \notin w_pos..(w_pos + cnt - 1)
        /\ ~(w_pos + cnt = Size /\ CellOf(b - len) < len - cnt)
    BY <2>1, <1>1, <1>2 DEF CellOf
  <2> QED BY <2>2, <2>3, <2>4, <1>1, <1>3
<1> QED BY <1>L, <1>2, <1>3, <1>5, <1>6, <1>7, <1>8, <1>9, <1>10

\* rb_write keeps the invariant.
LEMMA WriteInv ==
  ASSUME RingInv, NEW data \in Chunk, rb_write(data)
  PROVE  RingInv'
<1> USE RingBufferAssumption
<1> DEFINE len == MinInt(Len(data), Size - used)
<1>1. /\ len \in 0..(Size - used) /\ len <= Len(data)
      /\ used' = used + len /\ used' # 0
      /\ w_seq' \in uint
      /\ w_pos' \in Cells
      /\ p' \in [Cells -> Byte \cup {Junk}]
      /\ \A b \in 1..len : p'[CellOf(b)'] = data[len - b + 1]
      /\ \A b \in (len + 1)..used' : p'[CellOf(b)'] = p[CellOf(b - len)]
      /\ got' = got
  BY WriteEffect
<1>2. Len(data) \in Nat /\ data \in [1..Len(data) -> Byte]
  BY ChunkType
<1>3. used \in 0..Size /\ got \in Seq(Byte)
  BY DEF RingInv, TypeOK
<1> HIDE DEF len
<1>4. TypeOK'
  BY <1>1, <1>3 DEF TypeOK
<1>5. p' # NULL
  BY <1>1, NullIsNoBlock
<1>6. KeptInitialised'
  <2> SUFFICES ASSUME NEW b \in 1..used' PROVE p'[CellOf(b)'] \in Byte
    BY DEF KeptInitialised
  <2>1. CASE b \in 1..len
    BY <2>1, <1>1, <1>2
  <2>2. CASE b \in (len + 1)..used'
    <3>1. b - len \in 1..used
      BY <2>2, <1>1, <1>3
    <3> QED BY <2>2, <3>1, <1>1 DEF RingInv, KeptInitialised
  <2> QED BY <2>1, <2>2, <1>1, <1>3
<1> QED BY <1>1, <1>4, <1>5, <1>6 DEF RingInv, MemoryHeldIffUsed

\* rb_advance keeps the invariant: it only forgets the oldest bytes.
LEMMA AdvanceInv ==
  ASSUME RingInv, NEW s \in uint, rb_advance(s)
  PROVE  RingInv'
<1> DEFINE left == IntDiff(w_seq, s)
<1>1. left \in Int /\ left <= used /\ used \in 0..Size /\ w_seq \in uint /\ got \in Seq(Byte)
  BY IntDiffType DEF rb_advance, RingInv, TypeOK
<1>2. /\ used' = IF left <= 0 THEN 0 ELSE left
      /\ w_seq' = IF left <= 0 THEN s ELSE w_seq
      /\ left <= 0 => p' = NULL /\ w_pos' = 0
      /\ ~(left <= 0) => p' = p /\ w_pos' = w_pos
      /\ got' = got
  BY DEF rb_advance
<1> HIDE DEF left
<1>3. CASE left <= 0
  <2>1. used' = 0 /\ w_seq' = s /\ p' = NULL /\ w_pos' = 0 /\ got' = got
    BY <1>2, <1>3
  <2>2. KeptInitialised'
    BY <2>1 DEF KeptInitialised
  <2> QED BY <1>1, <2>1, <2>2, RingBufferAssumption DEF RingInv, TypeOK, MemoryHeldIffUsed
<1>4. CASE left > 0
  <2>1. used' = left /\ w_seq' = w_seq /\ p' = p /\ w_pos' = w_pos
    BY <1>1, <1>2, <1>4
  <2>a. p # NULL /\ left # 0 /\ left \in 0..Size
    BY <1>1, <1>4, RingBufferAssumption DEF RingInv, MemoryHeldIffUsed
  <2>b. TypeOK'
    BY <1>1, <1>2, <2>1, <2>a DEF RingInv, TypeOK
  <2>2. TypeOK' /\ MemoryHeldIffUsed' /\ (p = NULL => w_pos = 0)'
    BY <2>1, <2>a, <2>b DEF MemoryHeldIffUsed
  <2>3. KeptInitialised'
    BY <1>1, <1>4, <2>1 DEF RingInv, KeptInitialised, CellOf
  <2> QED BY <2>2, <2>3 DEF RingInv
<1> QED BY <1>1, <1>3, <1>4

\* What rb_read copies out, counted back from the newest byte.
LEMMA ReadEffect ==
  ASSUME RingInv, NEW s \in uint, NEW max \in 0..MaxLen, rb_read(s, max)
  PROVE  LET back == IntDiff(w_seq, s)
             m    == IF back \in 1..used THEN MinInt(back, max) ELSE 0
         IN  /\ m \in Nat /\ back \in Int
             /\ got' = [i \in 1..m |-> p[CellOf(back - i + 1)]]
             /\ \A i \in 1..m : back - i + 1 \in 1..used
<1> USE RingBufferAssumption
<1> DEFINE back == IntDiff(w_seq, s)
           m    == IF back \in 1..used THEN MinInt(back, max) ELSE 0
           k    == IF back = 0 \/ used < back \/ max = 0 THEN 0 ELSE MinInt(back, max)
           cnt  == IF back > w_pos THEN MinInt(back - w_pos, k) ELSE 0
<1>1. back \in Int /\ used \in 0..Size /\ w_pos \in Cells /\ max \in Nat
  BY IntDiffType DEF RingInv, TypeOK
<1>2. got' = [i \in 1..k |-> IF i <= cnt THEN p[Size - (back - w_pos) + i - 1]
                                          ELSE p[w_pos - (back - cnt) + (i - cnt) - 1]]
  BY DEF rb_read
<1> HIDE DEF back
<1>3. k \in Int /\ 1..k = 1..m /\ m \in Nat
  BY <1>1 DEF MinInt
<1>4. ASSUME NEW i \in 1..m
      PROVE  /\ back - i + 1 \in 1..used
             /\ got'[i] = p[CellOf(back - i + 1)]
  <2>1. back \in 1..used /\ k = m /\ m <= back /\ m = MinInt(back, max)
    BY <1>1, <1>4 DEF MinInt
  <2>2. CASE i <= cnt
    <3>1. CellOf(back - i + 1) = Size - (back - w_pos) + i - 1
      BY <2>1, <2>2, <1>1 DEF CellOf, MinInt
    <3> QED BY <3>1, <2>1, <2>2, <1>1, <1>2, <1>3
  <2>3. CASE ~(i <= cnt)
    <3>1. CellOf(back - i + 1) = w_pos - (back - cnt) + (i - cnt) - 1
      BY <2>1, <2>3, <1>1 DEF CellOf, MinInt
    <3> QED BY <3>1, <2>1, <2>3, <1>1, <1>2, <1>3
  <2> QED BY <2>2, <2>3
<1>5. got' = [i \in 1..m |-> p[CellOf(back - i + 1)]]
  BY <1>2, <1>3, <1>4
<1> QED BY <1>1, <1>3, <1>4, <1>5 DEF back

\* rb_read keeps the invariant: it returns bytes that were written.
LEMMA ReadInv ==
  ASSUME RingInv, NEW s \in uint, NEW max \in 0..MaxLen, rb_read(s, max)
  PROVE  RingInv'
<1> DEFINE back == IntDiff(w_seq, s)
           m    == IF back \in 1..used THEN MinInt(back, max) ELSE 0
<1>1. /\ m \in Nat
      /\ got' = [i \in 1..m |-> p[CellOf(back - i + 1)]]
      /\ \A i \in 1..m : back - i + 1 \in 1..used
  BY ReadEffect
<1> HIDE DEF back, m
<1>2. UNCHANGED <<p, w_seq, w_pos, used>>
  BY DEF rb_read
<1>3. \A i \in 1..m : p[CellOf(back - i + 1)] \in Byte
  BY <1>1 DEF RingInv, KeptInitialised
<1>4. got' \in Seq(Byte)
  BY <1>1, <1>3
<1> QED BY <1>2, <1>4 DEF RingInv, TypeOK, MemoryHeldIffUsed, KeptInitialised, CellOf

\* Every operation keeps the ring in order.
LEMMA StepInv == RingInv /\ [Next]_vars => RingInv'
<1> SUFFICES ASSUME RingInv, [Next]_vars PROVE RingInv'
  OBVIOUS
<1>1. ASSUME NEW data \in Chunk, rb_write(data) PROVE RingInv'
  BY <1>1, WriteInv
<1>2. ASSUME NEW data \in Chunk, rb_write_nothing(data) PROVE RingInv'
  BY <1>2 DEF rb_write_nothing, vars, RingInv, TypeOK, MemoryHeldIffUsed, KeptInitialised, CellOf
<1>3. ASSUME NEW s \in uint, rb_advance(s) PROVE RingInv'
  BY <1>3, AdvanceInv
<1>4. ASSUME NEW s \in uint, NEW max \in 0..MaxLen, rb_read(s, max) PROVE RingInv'
  BY <1>4, ReadInv
<1>5. CASE UNCHANGED vars
  BY <1>5 DEF vars, RingInv, TypeOK, MemoryHeldIffUsed, KeptInitialised, CellOf
<1> QED BY <1>1, <1>2, <1>3, <1>4, <1>5 DEF Next

\* The fields of struct ringbuf stay in range whatever sequence of rb_write,
\* rb_advance and rb_read tcp.c calls, for every size of the ring.
THEOREM RingTypeCorrect == Spec => []TypeOK
<1>1. RingInv => TypeOK
  BY DEF RingInv
<1> QED BY <1>1, InitInv, StepInv, PTL DEF Spec

\* The cells are allocated exactly while a byte is kept in them.
THEOREM RingMemory == Spec => []MemoryHeldIffUsed
<1>1. RingInv => MemoryHeldIffUsed
  BY DEF RingInv
<1> QED BY <1>1, InitInv, StepInv, PTL DEF Spec

\* No byte that rb_read can return was never written.
THEOREM RingInitialised == Spec => []KeptInitialised
<1>1. RingInv => KeptInitialised
  BY DEF RingInv
<1> QED BY <1>1, InitInv, StepInv, PTL DEF Spec
-----------------------------------------------------------------------------
(* The refinement. *)

\* The content of the queue that a ring stands for.
Content == [i \in 1..used |-> p[CellOf(used - i + 1)]]

\* Its length, and the ring's queue.
LEMMA ContentLen ==
  ASSUME RingInv
  PROVE  /\ Queue!q = [kept |-> Content, w_seq |-> w_seq]
         /\ Len(Content) = used
<1>1. used \in Nat
  BY RingBufferAssumption DEF RingInv, TypeOK
<1> QED BY <1>1 DEF Queue!q, Content

\* rb_write appends to the queue.
LEMMA WriteRefines ==
  ASSUME RingInv, NEW data \in Chunk, rb_write(data)
  PROVE  Queue!Write(data)
<1> DEFINE len == MinInt(Len(data), Size - used)
<1>1. /\ len \in 0..(Size - used) /\ len <= Len(data)
      /\ used' = used + len
      /\ w_seq' = SeqAdd(w_seq, len)
      /\ \A b \in 1..len : p'[CellOf(b)'] = data[len - b + 1]
      /\ \A b \in (len + 1)..used' : p'[CellOf(b)'] = p[CellOf(b - len)]
      /\ got' = got
  BY WriteEffect
<1>2. used \in Nat
  BY RingBufferAssumption DEF RingInv, TypeOK
<1>3. Queue!Written(Queue!q, data, Size) =
        [kept  |-> [i \in 1..(used + len) |-> IF i <= used THEN Content[i] ELSE data[i - used]],
         w_seq |-> SeqAdd(w_seq, len)]
  <2>1. Queue!rb_used(Queue!q) = used /\ Queue!q.kept = Content /\ Queue!q.w_seq = w_seq
    BY ContentLen DEF Queue!rb_used
  <2> QED BY <2>1 DEF Queue!Written, Queue!MinInt, MinInt, Queue!SeqAdd, SeqAdd
<1> DEFINE cell(b) == IF b > w_pos' THEN Size - (b - w_pos') ELSE w_pos' - b
<1>4. \A b : CellOf(b)' = cell(b)
  BY DEF CellOf
<1> HIDE DEF len, cell
<1>b. \A b \in (len + 1)..used' : p'[cell(b)] = p[CellOf(b - len)]
  BY <1>1, <1>4
<1>5. Content' = [i \in 1..used' |-> p'[cell(used' - i + 1)]]
  BY DEF Content, CellOf, cell
<1>6. ASSUME NEW i \in 1..(used + len)
      PROVE  p'[cell(used' - i + 1)] = IF i <= used THEN Content[i] ELSE data[i - used]
  <2>1. CASE i <= used
    <3>1. PICK b \in (len + 1)..used' : b = used' - i + 1 /\ b - len = used - i + 1
      BY <2>1, <1>1, <1>2
    <3>2. p'[cell(b)] = p[CellOf(b - len)]
      BY <1>b
    <3>3. p'[cell(used' - i + 1)] = p[CellOf(used - i + 1)]
      BY <3>1, <3>2
    <3> QED BY <3>3, <2>1, <1>2 DEF Content
  <2>2. CASE i > used
    <3>1. used' - i + 1 \in 1..len /\ len - (used' - i + 1) + 1 = i - used
      <4>1. i \in Int /\ len \in Int /\ used' = used + len /\ i <= used + len
        BY <1>1, <1>2
      <4> QED BY <4>1, <2>2, <1>2
    <3> DEFINE b == used' - i + 1
    <3>2. b \in 1..len /\ p'[cell(b)] = data[len - b + 1]
      BY <3>1, <1>1, <1>4
    <3> QED BY <3>1, <3>2, <1>2, <2>2
  <2> QED BY <2>1, <2>2, <1>1, <1>2
<1>7. Content' = [i \in 1..(used + len) |-> IF i <= used THEN Content[i] ELSE data[i - used]]
  BY <1>1, <1>5, <1>6
<1> QED BY <1>1, <1>3, <1>7 DEF Queue!Write, Queue!Becomes, Content

\* rb_advance takes from the front of the queue.
LEMMA AdvanceRefines ==
  ASSUME RingInv, NEW s \in uint, rb_advance(s)
  PROVE  Queue!Advance(s)
<1> DEFINE left == IntDiff(w_seq, s)
<1>1. left \in Int /\ left <= used /\ used \in 0..Size
  BY IntDiffType DEF rb_advance, RingInv, TypeOK
<1>2. /\ used' = IF left <= 0 THEN 0 ELSE left
      /\ w_seq' = IF left <= 0 THEN s ELSE w_seq
      /\ ~(left <= 0) => p' = p /\ w_pos' = w_pos
      /\ got' = got
  BY DEF rb_advance
<1>3. /\ Queue!AdvanceWithin(Queue!q, s)
      /\ Queue!Advanced(Queue!q, s) =
           IF left <= 0 THEN [kept |-> <<>>, w_seq |-> s]
           ELSE [kept |-> [i \in 1..left |-> Content[used - left + i]], w_seq |-> w_seq]
  <2>1. Queue!rb_used(Queue!q) = used /\ Queue!q.kept = Content /\ Queue!q.w_seq = w_seq
    BY ContentLen DEF Queue!rb_used
  <2>2. Queue!IntDiff(w_seq, s) = left
    BY DEF Queue!IntDiff, IntDiff
  <2> QED BY <1>1, <2>1, <2>2 DEF Queue!Advanced, Queue!AdvanceWithin, Queue!Empty
<1> HIDE DEF left
<1>4. CASE left <= 0
  <2>1. used' = 0 /\ w_seq' = s
    BY <1>2, <1>4
  <2>2. Content' = <<>>
    BY <2>1 DEF Content
  <2> QED BY <1>2, <1>3, <1>4, <2>1, <2>2 DEF Queue!Advance, Queue!Becomes, Content
<1>5. CASE ~(left <= 0)
  <2>1. used' = left /\ w_seq' = w_seq /\ p' = p /\ w_pos' = w_pos
    BY <1>2, <1>5
  <2>2. \A i \in 1..left : Content[used - left + i] = p[CellOf(left - i + 1)]
    <3> SUFFICES ASSUME NEW i \in 1..left
                 PROVE  Content[used - left + i] = p[CellOf(left - i + 1)]
      OBVIOUS
    <3>1. /\ used - left + i \in 1..used
          /\ used - (used - left + i) + 1 = left - i + 1
      BY <1>1, <1>5
    <3> QED BY <3>1 DEF Content
  <2>3. Content' = [i \in 1..left |-> Content[used - left + i]]
    BY <2>1, <2>2 DEF Content, CellOf
  <2> QED BY <1>2, <1>3, <1>5, <2>1, <2>3 DEF Queue!Advance, Queue!Becomes, Content
<1> QED BY <1>4, <1>5

\* rb_read returns a part of the queue.
LEMMA ReadRefines ==
  ASSUME RingInv, NEW s \in uint, NEW max \in 0..MaxLen, rb_read(s, max)
  PROVE  Queue!Read(s, max)
<1> DEFINE back == IntDiff(w_seq, s)
           m    == IF back \in 1..used THEN MinInt(back, max) ELSE 0
<1>1. /\ m \in Nat /\ back \in Int
      /\ got' = [i \in 1..m |-> p[CellOf(back - i + 1)]]
      /\ \A i \in 1..m : back - i + 1 \in 1..used
  BY ReadEffect
<1>2. Queue!Peek(Queue!q, s, max) = [i \in 1..m |-> Content[used - back + i]]
  BY ContentLen DEF Queue!Peek, Queue!rb_used, Queue!IntDiff, IntDiff, Queue!MinInt, MinInt
<1>3. UNCHANGED <<p, w_seq, w_pos, used>> /\ used \in Nat
  BY RingBufferAssumption DEF rb_read, RingInv, TypeOK
<1> HIDE DEF back, m
<1>4. \A i \in 1..m : Content[used - back + i] = p[CellOf(back - i + 1)]
  <2> SUFFICES ASSUME NEW i \in 1..m
               PROVE  Content[used - back + i] = p[CellOf(back - i + 1)]
    OBVIOUS
  <2>1. /\ used - back + i \in 1..used
        /\ used - (used - back + i) + 1 = back - i + 1
    BY <1>1, <1>3
  <2> QED BY <2>1 DEF Content
<1>5. got' = [i \in 1..m |-> Content[used - back + i]]
  BY <1>1, <1>4
<1> QED BY <1>2, <1>3, <1>5 DEF Queue!Read, CellOf

\* The ring of buffer.c is the queue of bytes that Tcp takes it for: every
\* rb_write, rb_advance and rb_read has the effect and the result of the queue's
\* operation, for every size and however the content wraps around the cells.
THEOREM RingImplements == Spec => Implements
<1>1. Init => Queue!Init
  <2> SUFFICES ASSUME Init PROVE Queue!Init
    OBVIOUS
  <2>1. used = 0 /\ got = <<>> /\ w_seq \in uint
    BY DEF Init
  <2>2. Content = <<>>
    BY <2>1 DEF Content
  <2> QED BY <2>1, <2>2 DEF Queue!Init, Content, Queue!uint, uint
<1>2. RingInv /\ [Next]_vars => [Queue!Next]_Queue!vars
  <2> SUFFICES ASSUME RingInv, [Next]_vars PROVE Queue!Next \/ UNCHANGED Queue!vars
    OBVIOUS
  <2> USE DEF Queue!uint, uint, Queue!Chunk, Chunk
  <2>1. ASSUME NEW data \in Chunk, rb_write(data) PROVE Queue!Next
    BY <2>1, WriteRefines DEF Queue!Next
  <2>2. ASSUME NEW data \in Chunk, rb_write_nothing(data) PROVE UNCHANGED vars
    BY <2>2 DEF rb_write_nothing
  <2>3. ASSUME NEW s \in uint, rb_advance(s) PROVE Queue!Next
    BY <2>3, AdvanceRefines DEF Queue!Next
  <2>4. ASSUME NEW s \in uint, NEW max \in 0..MaxLen, rb_read(s, max) PROVE Queue!Next
    BY <2>4, ReadRefines DEF Queue!Next
  <2>5. ASSUME UNCHANGED vars PROVE UNCHANGED Queue!vars
    BY <2>5 DEF vars, Queue!vars, CellOf
  <2> QED BY <2>1, <2>2, <2>3, <2>4, <2>5 DEF Next
<1> QED BY <1>1, <1>2, InitInv, StepInv, PTL DEF Spec, Implements, Queue!Spec
=============================================================================
