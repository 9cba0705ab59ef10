----------------------------- MODULE Tcp_proofs -----------------------------
(***************************************************************************)
(* What the functions of tcp.c and ptrtd-tcp.c do to the daemon's state w, *)
(* field by field, and which of the facts about a session they keep.       *)
(***************************************************************************)
EXTENDS Tcp, TLAPS

\* The daemon's state during a callback.
World == [tcb : Tcb \cup {NULL}, map : TcpMap \cup {NULL}, listed : [Event -> Nat],
          out : Seq(Packet)]
-----------------------------------------------------------------------------
(* Sequence numbers and buffers. *)

\* Sums of sequence numbers are sequence numbers, and plain sums below the wrap.
LEMMA SeqAddFacts ==
  ASSUME NEW a \in Int, NEW n \in Int
  PROVE  SeqAdd(a, n) \in uint /\ (a + n \in 0..(SeqMod - 1) => SeqAdd(a, n) = a + n)
  BY SeqModAssumption DEF SeqAdd, uint

\* The signed difference is an integer, and the plain difference of numbers that
\* are less than half the number space apart.
LEMMA IntDiffFacts ==
  ASSUME NEW a \in uint, NEW b \in uint
  PROVE  /\ IntDiff(a, b) \in Int
         /\ 2 * (a - b) < SeqMod /\ 2 * (b - a) < SeqMod => IntDiff(a, b) = a - b
<1> DEFINE u == (a - b) % SeqMod
<1>1. a \in Int /\ b \in Int /\ 0 <= a /\ a < SeqMod /\ 0 <= b /\ b < SeqMod /\ SeqMod \in Nat
  BY SeqModAssumption DEF uint
<1>2. u \in 0..(SeqMod - 1)
  BY <1>1
<1>3. CASE a >= b
  <2>1. u = a - b
    BY <1>1, <1>3
  <2> QED BY <1>1, <2>1, <1>3 DEF IntDiff
<1>4. CASE a < b
  <2>1. u = a - b + SeqMod
    BY <1>1, <1>4
  <2> QED BY <1>1, <2>1, <1>4 DEF IntDiff
<1> QED BY <1>1, <1>3, <1>4

\* The smaller of two integers.
LEMMA MinIntFacts ==
  ASSUME NEW a \in Int, NEW b \in Int
  PROVE  /\ MinInt(a, b) \in Int /\ MinInt(a, b) <= a /\ MinInt(a, b) <= b
         /\ MinInt(a, b) = a \/ MinInt(a, b) = b
  BY DEF MinInt

\* A function on 1..m is a sequence of length m.
LEMMA FunctionIsSeq ==
  ASSUME NEW S, NEW m \in Nat, NEW k \in [1..m -> S]
  PROVE  k \in Seq(S) /\ Len(k) = m
  OBVIOUS

\* A queue that took bytes.
LEMMA WrittenFacts ==
  ASSUME NEW q \in Queues(Byte), NEW data \in Seq(Byte), rb_used(q) <= BufSize
  PROVE  LET n == MinInt(Len(data), BufSize - rb_used(q))
             r == Written(q, data, BufSize)
         IN  /\ n \in Nat /\ n <= Len(data) /\ n <= BufSize - rb_used(q)
             /\ r \in Queues(Byte)
             /\ rb_used(r) = rb_used(q) + n /\ rb_used(r) <= BufSize
             /\ r.w_seq = SeqAdd(q.w_seq, n)
             /\ \A i \in 1..rb_used(r) :
                  r.kept[i] = IF i <= rb_used(q) THEN q.kept[i] ELSE data[i - rb_used(q)]
<1> DEFINE old == rb_used(q)
           n == MinInt(Len(data), BufSize - old)
           r == Written(q, data, BufSize)
           k == [i \in 1..(old + n) |-> IF i <= old THEN q.kept[i] ELSE data[i - old]]
<1>1. /\ q.kept \in Seq(Byte) /\ q.w_seq \in uint /\ q.w_seq \in Int
      /\ old \in Nat /\ old = Len(q.kept) /\ old <= BufSize
      /\ Len(data) \in Nat /\ BufSize \in Nat
  BY TcpAssumption, SeqModAssumption DEF Queues, rb_used, uint
<1> HIDE DEF old
<1>a. old \in Nat /\ old <= BufSize /\ Len(data) \in Nat /\ BufSize \in Nat
  BY <1>1
<1>2. n \in Nat /\ n <= Len(data) /\ n <= BufSize - old
  <2>1. BufSize - old \in Nat
    BY <1>a
  <2>2. MinInt(Len(data), BufSize - old) \in Nat
    BY <1>a, <2>1 DEF MinInt
  <2> QED
  BY <1>a, <2>1, <2>2, MinIntFacts
<1>5. r = [kept |-> k, w_seq |-> SeqAdd(q.w_seq, n)]
  BY DEF Written, old
<1> HIDE DEF n, r
<1>3. \A i \in 1..(old + n) : (IF i <= old THEN q.kept[i] ELSE data[i - old]) \in Byte
  BY <1>1, <1>2
<1>4. k \in Seq(Byte) /\ Len(k) = old + n
  <2>1. k \in [1..(old + n) -> Byte]
    BY <1>3
  <2> HIDE DEF k
  <2>2. old + n \in Nat
    BY <1>a, <1>2
  <2> QED BY <2>2, <2>1, FunctionIsSeq
<1>6. SeqAdd(q.w_seq, n) \in uint
  BY <1>1, <1>2, SeqAddFacts
<1>7. r.kept = k /\ r.w_seq = SeqAdd(q.w_seq, n)
  BY <1>5
<1>10. \A i \in 1..(old + n) : r.kept[i] = IF i <= old THEN q.kept[i] ELSE data[i - old]
  BY <1>7, <1>1, <1>2
<1> HIDE DEF k
<1>8. r \in Queues(Byte)
  BY <1>4, <1>5, <1>6 DEF Queues
<1>9. rb_used(r) = old + n
  BY <1>4, <1>7 DEF rb_used
<1>11. rb_used(r) <= BufSize
  BY <1>1, <1>2, <1>9
<1> QED BY <1>2, <1>7, <1>8, <1>9, <1>10, <1>11 DEF n, r, old

\* A queue that dropped what comes before s.
LEMMA AdvancedFacts ==
  ASSUME NEW q \in Queues(Byte), NEW s \in uint, AdvanceWithin(q, s)
  PROVE  LET left == IntDiff(q.w_seq, s)
             r == Advanced(q, s)
         IN  /\ r \in Queues(Byte)
             /\ left <= 0 => rb_used(r) = 0 /\ r.w_seq = s
             /\ left > 0 => rb_used(r) = left /\ r.w_seq = q.w_seq
             /\ rb_used(r) <= rb_used(q)
             /\ \A i \in 1..rb_used(r) : r.kept[i] = q.kept[rb_used(q) - left + i]
<1> DEFINE left == IntDiff(q.w_seq, s)
           k == [i \in 1..left |-> q.kept[rb_used(q) - left + i]]
           r == Advanced(q, s)
<1>1. /\ q.kept \in Seq(Byte) /\ q.w_seq \in uint /\ rb_used(q) \in Nat /\ left \in Int
      /\ rb_used(q) = Len(q.kept) /\ left <= rb_used(q)
  BY IntDiffFacts DEF Queues, rb_used, AdvanceWithin
<1>2. CASE left <= 0
  <2>1. r = [kept |-> <<>>, w_seq |-> s]
    BY <1>2 DEF Advanced, Empty
  <2>2. r \in Queues(Byte) /\ rb_used(r) = 0 /\ r.w_seq = s
    BY <2>1 DEF Queues, rb_used
  <2> HIDE DEF left, r
  <2> QED BY <1>1, <1>2, <2>2 DEF left, r
<1>3. CASE left > 0
  <2>1. r = [kept |-> k, w_seq |-> q.w_seq]
    BY <1>3, <1>1 DEF Advanced
  <2>2. \A i \in 1..left : q.kept[rb_used(q) - left + i] \in Byte
    BY <1>1, <1>3
  <2>3. k \in [1..left -> Byte]
    BY <2>2
  <2>4. \A i \in 1..left : k[i] = q.kept[rb_used(q) - left + i]
    OBVIOUS
  <2> HIDE DEF left, r, k
  <2>5. k \in Seq(Byte) /\ Len(k) = left
    BY <1>1, <1>3, <2>3, FunctionIsSeq
  <2>6. r \in Queues(Byte) /\ rb_used(r) = left /\ r.w_seq = q.w_seq /\ r.kept = k
    BY <1>1, <2>1, <2>5 DEF Queues, rb_used
  <2> QED BY <1>1, <1>3, <2>4, <2>6 DEF left, r
<1> QED BY <1>1, <1>2, <1>3
-----------------------------------------------------------------------------
(* Events. *)

\* A pointer of tcb or map names event e.
PointsTo(w, e) ==
    \/ w.tcb # NULL /\ e \in {w.tcb.e_tcb_send, w.tcb.e_timeout}
    \/ w.map # NULL /\ e \in {w.map.e_fd_read, w.map.e_fd_write}

\* The lists hold what the pointers name and, once more, event x, whose callback
\* runs and whose pointer is cleared already; handle_fd_can_write may be listed
\* more often after EAGAIN.
ListedAs(w, x, again) ==
    \A e \in Event :
      LET n == (IF PointsTo(w, e) THEN 1 ELSE 0) + (IF e = x THEN 1 ELSE 0)
      IN  w.listed[e] = n \/ (e = "handle_fd_can_write" /\ again /\ w.listed[e] > n)

\* event_add: one more event of that callback.
LEMMA AddEffect ==
  ASSUME NEW w \in World, NEW e \in Event
  PROVE  LET v == AddEvent(w, e)
         IN  /\ v \in World /\ v.tcb = w.tcb /\ v.map = w.map /\ v.out = w.out
             /\ \A f \in Event : v.listed[f] = IF f = e THEN w.listed[f] + 1 ELSE w.listed[f]
<1> DEFINE l == [w.listed EXCEPT ![e] = @ + 1]
<1>1. l \in [Event -> Nat] /\ \A f \in Event : l[f] = IF f = e THEN w.listed[f] + 1 ELSE w.listed[f]
  BY DEF World
<1>2. AddEvent(w, e) = [w EXCEPT !.listed = l]
  BY DEF AddEvent
<1> HIDE DEF l
<1> QED BY <1>1, <1>2 DEF World

\* event_remove: one event less, or none was listed.
LEMMA RemoveEffect ==
  ASSUME NEW w \in World, NEW e \in Event \cup {NULL}
  PROVE  LET v == RemoveEvent(w, e)
         IN  /\ v \in World /\ v.tcb = w.tcb /\ v.map = w.map /\ v.out = w.out
             /\ \A f \in Event : v.listed[f] = IF f = e /\ w.listed[f] > 0
                                               THEN w.listed[f] - 1 ELSE w.listed[f]
<1>1. NULL \notin Event
  BY TcpAssumption DEF Event, FdEvent, FdWrite, Timer
<1>2. CASE e = NULL \/ w.listed[e] = 0
  <2>1. RemoveEvent(w, e) = w
    BY <1>2 DEF RemoveEvent
  <2> QED BY <1>1, <1>2, <2>1 DEF World
<1>3. CASE e \in Event /\ w.listed[e] # 0
  <2> DEFINE l == [w.listed EXCEPT ![e] = @ - 1]
  <2>1. RemoveEvent(w, e) = [w EXCEPT !.listed = l]
    BY <1>1, <1>3 DEF RemoveEvent
  <2>2. w.listed \in [Event -> Nat] /\ w.listed[e] > 0
    BY <1>3 DEF World
  <2>3. l \in [Event -> Nat] /\ \A f \in Event : l[f] = IF f = e THEN w.listed[f] - 1 ELSE w.listed[f]
    BY <1>3, <2>2
  <2> HIDE DEF l
  <2> QED BY <1>3, <2>1, <2>2, <2>3 DEF World
<1> QED BY <1>2, <1>3

\* The event of the callback that ends is the one that is removed.
LEMMA RemoveListed ==
  ASSUME NEW w \in World, NEW x \in Event \cup {NULL}, NEW again, ListedAs(w, x, again)
  PROVE  ListedAs(RemoveEvent(w, x), NULL, again)
<1> DEFINE v == RemoveEvent(w, x)
<1>1. NULL \notin Event
  BY TcpAssumption DEF Event, FdEvent, FdWrite, Timer
<1>2. /\ v.tcb = w.tcb /\ v.map = w.map
      /\ \A f \in Event : v.listed[f] = IF f = x /\ w.listed[f] > 0
                                        THEN w.listed[f] - 1 ELSE w.listed[f]
  BY RemoveEffect
<1>3. \A f \in Event : w.listed[f] \in Nat
  BY DEF World
<1> HIDE DEF v
<1>4. \A e \in Event : PointsTo(v, e) <=> PointsTo(w, e)
  BY <1>2 DEF PointsTo
<1>5. ListedAs(v, NULL, again)
  BY <1>1, <1>2, <1>3, <1>4 DEF ListedAs
<1> QED BY <1>5 DEF v

\* mark_for_if_write: the write event is listed and pointed to.
LEMMA MarkEffect ==
  ASSUME NEW w \in World, w.tcb # NULL, NEW x, NEW again, ListedAs(w, x, again)
  PROVE  LET v == mark_for_if_write(w)
         IN  /\ v \in World /\ v.map = w.map /\ v.out = w.out
             /\ v.tcb = [w.tcb EXCEPT !.e_tcb_send = "do_tcb_write"]
             /\ v.tcb \in Tcb
             /\ \A e \in Event : e # "do_tcb_write" => v.listed[e] = w.listed[e]
             /\ ListedAs(v, x, again)
<1> DEFINE v == mark_for_if_write(w)
           t == [w.tcb EXCEPT !.e_tcb_send = "do_tcb_write"]
           u == [w EXCEPT !.tcb = t]
<1>1. w.tcb \in Tcb /\ w.map \in TcpMap \cup {NULL}
  BY DEF World
<1>2. t \in Tcb
  BY <1>1 DEF Tcb
<1>3. "do_tcb_write" \in Event
  BY DEF Event
<1>4. CASE w.tcb.e_tcb_send # NULL
  <2>1. w.tcb = t
    BY <1>1, <1>4 DEF Tcb
  <2>2. v = w
    BY <1>4 DEF mark_for_if_write
  <2> QED BY <1>1, <2>1, <2>2
<1>5. CASE w.tcb.e_tcb_send = NULL
  <2>1. v = AddEvent(u, "do_tcb_write")
    BY <1>5 DEF mark_for_if_write
  <2>2. u \in World /\ u.tcb = t /\ u.map = w.map /\ u.out = w.out /\ u.listed = w.listed
    BY <1>2 DEF World
  <2> HIDE DEF v, t, u
  <2>3. /\ v \in World /\ v.tcb = t /\ v.map = w.map /\ v.out = w.out
        /\ \A f \in Event : v.listed[f] = IF f = "do_tcb_write" THEN w.listed[f] + 1 ELSE w.listed[f]
    BY <1>3, <2>1, <2>2, AddEffect
  <2>4. t.e_tcb_send = "do_tcb_write" /\ t.e_timeout = w.tcb.e_timeout /\ t # NULL
    BY <1>1, <1>2, NullAssumption DEF Tcb, t
  <2>5. \A e \in Event : PointsTo(v, e) <=> PointsTo(w, e) \/ e = "do_tcb_write"
    BY <1>5, <2>3, <2>4, TcpAssumption DEF PointsTo, Event, FdEvent, FdWrite, Timer
  <2>6. ~PointsTo(w, "do_tcb_write")
    BY <1>1, <1>5, TcpAssumption DEF PointsTo, Tcb, TcpMap, FdWrite, Timer
  <2>7. \A f \in Event : w.listed[f] \in Nat
    BY DEF World
  <2>8. ListedAs(v, x, again)
    BY <2>3, <2>5, <2>6, <2>7 DEF ListedAs
  <2> QED BY <1>2, <2>3, <2>8 DEF v, t
<1> QED BY <1>1, <1>4, <1>5

\* A change of the tcb that leaves its pointers alone.
LEMMA TcbChange ==
  ASSUME NEW w \in World, w.tcb # NULL, NEW t \in Tcb,
         t.e_tcb_send = w.tcb.e_tcb_send, t.e_timeout = w.tcb.e_timeout,
         NEW x, NEW again, ListedAs(w, x, again)
  PROVE  LET v == [w EXCEPT !.tcb = t]
         IN  /\ v \in World /\ v.tcb = t /\ v.map = w.map /\ v.out = w.out
             /\ v.listed = w.listed /\ v.tcb # NULL
             /\ ListedAs(v, x, again)
<1> DEFINE v == [w EXCEPT !.tcb = t]
<1>1. v \in World /\ v.tcb = t /\ v.map = w.map /\ v.out = w.out /\ v.listed = w.listed
  BY DEF World
<1>2. t # NULL
  BY NullAssumption
<1> HIDE DEF v
<1>3. \A e \in Event : PointsTo(v, e) <=> PointsTo(w, e)
  BY <1>1, <1>2 DEF PointsTo
<1>4. ListedAs(v, x, again)
  BY <1>1, <1>3 DEF ListedAs
<1> QED BY <1>1, <1>2, <1>4 DEF v

\* A packet that is sent.
LEMMA OutChange ==
  ASSUME NEW w \in World, NEW p \in Packet, NEW x, NEW again, ListedAs(w, x, again)
  PROVE  LET v == [w EXCEPT !.out = Append(w.out, p)]
         IN  /\ v \in World /\ v.tcb = w.tcb /\ v.map = w.map /\ v.listed = w.listed
             /\ v.out = Append(w.out, p)
             /\ ListedAs(v, x, again)
<1> DEFINE o == Append(w.out, p)
           v == [w EXCEPT !.out = o]
<1>1. w.out \in Seq(Packet)
  BY DEF World
<1>2. o \in Seq(Packet)
  BY <1>1
<1> HIDE DEF o
<1>3. v \in World /\ v.tcb = w.tcb /\ v.map = w.map /\ v.listed = w.listed /\ v.out = o
  BY <1>2 DEF World
<1> HIDE DEF v
<1>4. ListedAs(v, x, again)
  BY <1>3 DEF ListedAs, PointsTo
<1> QED BY <1>3, <1>4 DEF v, o

\* kill_map removes the map and its events and nothing else.
LEMMA KillEffect ==
  ASSUME NEW w \in World, w.map # NULL, NEW x, NEW again, ListedAs(w, x, again)
  PROVE  LET v == kill_map(w)
         IN  /\ v \in World /\ v.tcb = w.tcb /\ v.map = NULL /\ v.out = w.out
             /\ v.listed["handle_fd_can_write"] <= w.listed["handle_fd_can_write"]
             /\ ListedAs(v, x, again)
<1> DEFINE a == RemoveEvent(w, w.map.e_fd_write)
           b == RemoveEvent(a, w.map.e_fd_read)
           v == [b EXCEPT !.map = NULL]
<1>1. w.map \in TcpMap /\ w.tcb \in Tcb \cup {NULL} /\ \A f \in Event : w.listed[f] \in Nat
  BY DEF World
<1>2. w.map.e_fd_write \in {NULL} \cup FdWrite /\ w.map.e_fd_read \in {NULL, "handle_fd_can_read"}
  BY <1>1 DEF TcpMap
<1>3. /\ a \in World /\ a.tcb = w.tcb /\ a.map = w.map /\ a.out = w.out
      /\ \A f \in Event : a.listed[f] = IF f = w.map.e_fd_write /\ w.listed[f] > 0
                                        THEN w.listed[f] - 1 ELSE w.listed[f]
  BY <1>2, RemoveEffect DEF Event, FdEvent
<1> HIDE DEF a
<1>4. /\ b \in World /\ b.tcb = w.tcb /\ b.map = w.map /\ b.out = w.out
      /\ \A f \in Event : b.listed[f] = IF f = w.map.e_fd_read /\ a.listed[f] > 0
                                        THEN a.listed[f] - 1 ELSE a.listed[f]
  BY <1>2, <1>3, RemoveEffect DEF Event, FdEvent
<1> HIDE DEF b
<1>5. v \in World /\ v.tcb = w.tcb /\ v.map = NULL /\ v.out = w.out /\ v.listed = b.listed
  BY <1>4 DEF World
<1>6. kill_map(w) = v
  <2>1. a.map = w.map
    BY <1>3
  <2> QED BY <2>1 DEF kill_map, a, b
<1> HIDE DEF v
<1>7. \A e \in Event : PointsTo(w, e) <=> PointsTo(v, e) \/ e \in {w.map.e_fd_read, w.map.e_fd_write}
  BY <1>5 DEF PointsTo
<1>8. \A e \in Event : ~(PointsTo(v, e) /\ e \in {w.map.e_fd_read, w.map.e_fd_write})
  BY <1>1, <1>2, <1>5, TcpAssumption DEF PointsTo, Tcb, FdWrite, Timer, Event, FdEvent
<1>9. w.map.e_fd_read = w.map.e_fd_write => w.map.e_fd_read \notin Event
  BY <1>2, TcpAssumption DEF FdWrite, Event, FdEvent, Timer
<1>10. ASSUME NEW e \in Event
       PROVE  /\ v.listed[e] <= w.listed[e]
              /\ LET n == (IF PointsTo(v, e) THEN 1 ELSE 0) + (IF e = x THEN 1 ELSE 0)
                 IN  v.listed[e] = n \/ (e = "handle_fd_can_write" /\ again /\ v.listed[e] > n)
  <2>1. w.listed[e] \in Nat /\ a.listed[e] \in Nat
    BY <1>1, <1>3 DEF World
  <2>2. LET n == (IF PointsTo(w, e) THEN 1 ELSE 0) + (IF e = x THEN 1 ELSE 0)
        IN  w.listed[e] = n \/ (e = "handle_fd_can_write" /\ again /\ w.listed[e] > n)
    BY DEF ListedAs
  <2>3. CASE e \in {w.map.e_fd_read, w.map.e_fd_write}
    <3>1. PointsTo(w, e) /\ ~PointsTo(v, e) /\ w.listed[e] > 0
      BY <1>7, <1>8, <2>1, <2>2, <2>3
    <3>2. v.listed[e] = w.listed[e] - 1
      BY <1>3, <1>4, <1>5, <1>9, <2>1, <2>3, <3>1
    <3> QED BY <2>1, <2>2, <3>1, <3>2
  <2>4. CASE e \notin {w.map.e_fd_read, w.map.e_fd_write}
    <3>1. v.listed[e] = w.listed[e] /\ (PointsTo(w, e) <=> PointsTo(v, e))
      BY <1>3, <1>4, <1>5, <1>7, <2>4
    <3> QED BY <2>1, <2>2, <3>1
  <2> QED BY <2>3, <2>4
<1>11. ListedAs(v, x, again)
  BY <1>10 DEF ListedAs
<1>12. "handle_fd_can_write" \in Event
  BY DEF Event, FdEvent, FdWrite
<1> QED BY <1>5, <1>6, <1>10, <1>11, <1>12

\* Discard removes the tcb and its events and nothing else.
LEMMA DiscardEffect ==
  ASSUME NEW w \in World, w.tcb # NULL, NEW x, NEW again, ListedAs(w, x, again)
  PROVE  LET v == Discard(w)
         IN  /\ v \in World /\ v.tcb = NULL /\ v.map = w.map /\ v.out = w.out
             /\ v.listed["handle_fd_can_write"] = w.listed["handle_fd_can_write"]
             /\ ListedAs(v, x, again)
<1> DEFINE a == RemoveEvent(w, w.tcb.e_tcb_send)
           b == RemoveEvent(a, w.tcb.e_timeout)
           v == [b EXCEPT !.tcb = NULL]
<1>1. w.tcb \in Tcb /\ w.map \in TcpMap \cup {NULL} /\ \A f \in Event : w.listed[f] \in Nat
  BY DEF World
<1>2. w.tcb.e_tcb_send \in {NULL, "do_tcb_write"} /\ w.tcb.e_timeout \in {NULL} \cup Timer
  BY <1>1 DEF Tcb
<1>3. /\ a \in World /\ a.tcb = w.tcb /\ a.map = w.map /\ a.out = w.out
      /\ \A f \in Event : a.listed[f] = IF f = w.tcb.e_tcb_send /\ w.listed[f] > 0
                                        THEN w.listed[f] - 1 ELSE w.listed[f]
  BY <1>2, RemoveEffect DEF Event
<1> HIDE DEF a
<1>4. /\ b \in World /\ b.tcb = w.tcb /\ b.map = w.map /\ b.out = w.out
      /\ \A f \in Event : b.listed[f] = IF f = w.tcb.e_timeout /\ a.listed[f] > 0
                                        THEN a.listed[f] - 1 ELSE a.listed[f]
  BY <1>2, <1>3, RemoveEffect DEF Event
<1> HIDE DEF b
<1>5. v \in World /\ v.tcb = NULL /\ v.map = w.map /\ v.out = w.out /\ v.listed = b.listed
  BY <1>4 DEF World
<1>6. Discard(w) = v
  BY DEF Discard, a, b
<1> HIDE DEF v
<1>7. \A e \in Event : PointsTo(w, e) <=> PointsTo(v, e) \/ e \in {w.tcb.e_tcb_send, w.tcb.e_timeout}
  BY <1>5 DEF PointsTo
<1>8. \A e \in Event : ~(PointsTo(v, e) /\ e \in {w.tcb.e_tcb_send, w.tcb.e_timeout})
  BY <1>1, <1>2, <1>5, TcpAssumption DEF PointsTo, TcpMap, FdWrite, Timer, Event, FdEvent
<1>9. w.tcb.e_tcb_send = w.tcb.e_timeout => w.tcb.e_timeout \notin Event
  BY <1>2, TcpAssumption DEF FdWrite, Event, FdEvent, Timer
<1>10. ASSUME NEW e \in Event
       PROVE  LET n == (IF PointsTo(v, e) THEN 1 ELSE 0) + (IF e = x THEN 1 ELSE 0)
              IN  v.listed[e] = n \/ (e = "handle_fd_can_write" /\ again /\ v.listed[e] > n)
  <2>1. w.listed[e] \in Nat /\ a.listed[e] \in Nat
    BY <1>1, <1>3 DEF World
  <2>2. LET n == (IF PointsTo(w, e) THEN 1 ELSE 0) + (IF e = x THEN 1 ELSE 0)
        IN  w.listed[e] = n \/ (e = "handle_fd_can_write" /\ again /\ w.listed[e] > n)
    BY DEF ListedAs
  <2>3. CASE e \in {w.tcb.e_tcb_send, w.tcb.e_timeout}
    <3>1. PointsTo(w, e) /\ ~PointsTo(v, e) /\ w.listed[e] > 0
      BY <1>7, <1>8, <2>1, <2>2, <2>3
    <3>2. v.listed[e] = w.listed[e] - 1
      BY <1>3, <1>4, <1>5, <1>9, <2>1, <2>3, <3>1
    <3> QED BY <2>1, <2>2, <3>1, <3>2
  <2>4. CASE e \notin {w.tcb.e_tcb_send, w.tcb.e_timeout}
    <3>1. v.listed[e] = w.listed[e] /\ (PointsTo(w, e) <=> PointsTo(v, e))
      BY <1>3, <1>4, <1>5, <1>7, <2>4
    <3> QED BY <2>1, <2>2, <3>1
  <2> QED BY <2>3, <2>4
<1>11. ListedAs(v, x, again)
  BY <1>10 DEF ListedAs
<1>12. v.listed["handle_fd_can_write"] = w.listed["handle_fd_can_write"]
  BY <1>2, <1>3, <1>4, <1>5, TcpAssumption DEF Event, FdEvent, FdWrite, Timer
<1> QED BY <1>5, <1>6, <1>11, <1>12

\* The timer of a tcb is stopped; t is the tcb after that.
LEMMA StopTimer ==
  ASSUME NEW w \in World, w.tcb # NULL, NEW t \in Tcb,
         t.e_tcb_send = w.tcb.e_tcb_send, t.e_timeout = NULL,
         NEW x, NEW again, ListedAs(w, x, again)
  PROVE  LET v == [RemoveEvent(w, w.tcb.e_timeout) EXCEPT !.tcb = t]
         IN  /\ v \in World /\ v.tcb = t /\ v.map = w.map /\ v.out = w.out /\ v.tcb # NULL
             /\ \A e \in Event : e \notin Timer => v.listed[e] = w.listed[e]
             /\ ListedAs(v, x, again)
<1> DEFINE a == RemoveEvent(w, w.tcb.e_timeout)
           v == [a EXCEPT !.tcb = t]
<1>1. w.tcb \in Tcb /\ w.map \in TcpMap \cup {NULL} /\ \A f \in Event : w.listed[f] \in Nat
  BY DEF World
<1>2. w.tcb.e_tcb_send \in {NULL, "do_tcb_write"} /\ w.tcb.e_timeout \in {NULL} \cup Timer
  BY <1>1 DEF Tcb
<1>3. /\ a \in World /\ a.tcb = w.tcb /\ a.map = w.map /\ a.out = w.out
      /\ \A f \in Event : a.listed[f] = IF f = w.tcb.e_timeout /\ w.listed[f] > 0
                                        THEN w.listed[f] - 1 ELSE w.listed[f]
  BY <1>2, RemoveEffect DEF Event
<1> HIDE DEF a
<1>4. v \in World /\ v.tcb = t /\ v.map = w.map /\ v.out = w.out /\ v.listed = a.listed
  BY <1>3 DEF World
<1>5. t # NULL
  BY NullAssumption
<1> HIDE DEF v
<1>6. \A e \in Event : PointsTo(w, e) <=> PointsTo(v, e) \/ e = w.tcb.e_timeout
  BY <1>4, <1>5, TcpAssumption DEF PointsTo, Event, FdEvent, FdWrite, Timer
<1>7. \A e \in Event : ~(PointsTo(v, e) /\ e = w.tcb.e_timeout)
  BY <1>1, <1>2, <1>4, TcpAssumption DEF PointsTo, TcpMap, FdWrite, Timer, Event, FdEvent
<1>8. ASSUME NEW e \in Event
      PROVE  LET n == (IF PointsTo(v, e) THEN 1 ELSE 0) + (IF e = x THEN 1 ELSE 0)
             IN  v.listed[e] = n \/ (e = "handle_fd_can_write" /\ again /\ v.listed[e] > n)
  <2>1. w.listed[e] \in Nat
    BY <1>1
  <2>2. LET n == (IF PointsTo(w, e) THEN 1 ELSE 0) + (IF e = x THEN 1 ELSE 0)
        IN  w.listed[e] = n \/ (e = "handle_fd_can_write" /\ again /\ w.listed[e] > n)
    BY DEF ListedAs
  <2> QED BY <1>3, <1>4, <1>6, <1>7, <2>1, <2>2
<1>9. ListedAs(v, x, again)
  BY <1>8 DEF ListedAs
<1>10. \A e \in Event : e \notin Timer => v.listed[e] = w.listed[e]
  BY <1>2, <1>3, <1>4, TcpAssumption DEF Event, FdEvent, FdWrite, Timer
<1> QED BY <1>4, <1>5, <1>9, <1>10 DEF v, a

\* The timer of a tcb that has none is started; t is the tcb after that.
LEMMA StartTimer ==
  ASSUME NEW w \in World, w.tcb # NULL, w.tcb.e_timeout = NULL, NEW t \in Tcb,
         t.e_tcb_send = w.tcb.e_tcb_send, t.e_timeout \in Timer,
         NEW x, NEW again, ListedAs(w, x, again)
  PROVE  LET v == AddEvent([w EXCEPT !.tcb = t], t.e_timeout)
         IN  /\ v \in World /\ v.tcb = t /\ v.map = w.map /\ v.out = w.out /\ v.tcb # NULL
             /\ \A e \in Event : e \notin Timer => v.listed[e] = w.listed[e]
             /\ ListedAs(v, x, again)
<1> DEFINE a == [w EXCEPT !.tcb = t]
           v == AddEvent(a, t.e_timeout)
<1>1. w.tcb \in Tcb /\ w.map \in TcpMap \cup {NULL} /\ \A f \in Event : w.listed[f] \in Nat
  BY DEF World
<1>2. w.tcb.e_tcb_send \in {NULL, "do_tcb_write"} /\ t.e_timeout \in Event
  BY <1>1 DEF Tcb, Event
<1>3. a \in World /\ a.tcb = t /\ a.map = w.map /\ a.out = w.out /\ a.listed = w.listed
  BY DEF World
<1> HIDE DEF a
<1>4. /\ v \in World /\ v.tcb = t /\ v.map = w.map /\ v.out = w.out
      /\ \A f \in Event : v.listed[f] = IF f = t.e_timeout THEN w.listed[f] + 1 ELSE w.listed[f]
  BY <1>2, <1>3, AddEffect
<1>5. t # NULL
  BY NullAssumption
<1> HIDE DEF v
<1>6. \A e \in Event : PointsTo(v, e) <=> PointsTo(w, e) \/ e = t.e_timeout
  BY <1>4, <1>5, TcpAssumption DEF PointsTo, Event, FdEvent, FdWrite, Timer
<1>7. \A e \in Event : ~(PointsTo(w, e) /\ e = t.e_timeout)
  BY <1>1, <1>2, <1>4, TcpAssumption DEF PointsTo, TcpMap, FdWrite, Timer, Event, FdEvent
<1>8. ASSUME NEW e \in Event
      PROVE  LET n == (IF PointsTo(v, e) THEN 1 ELSE 0) + (IF e = x THEN 1 ELSE 0)
             IN  v.listed[e] = n \/ (e = "handle_fd_can_write" /\ again /\ v.listed[e] > n)
  <2>1. w.listed[e] \in Nat
    BY <1>1
  <2>2. LET n == (IF PointsTo(w, e) THEN 1 ELSE 0) + (IF e = x THEN 1 ELSE 0)
        IN  w.listed[e] = n \/ (e = "handle_fd_can_write" /\ again /\ w.listed[e] > n)
    BY DEF ListedAs
  <2>3. e = t.e_timeout => e # "handle_fd_can_write"
    BY DEF Timer
  <2> QED BY <1>4, <1>6, <1>7, <2>1, <2>2, <2>3
<1>9. ListedAs(v, x, again)
  BY <1>8 DEF ListedAs
<1>10. \A e \in Event : e \notin Timer => v.listed[e] = w.listed[e]
  BY <1>4
<1> QED BY <1>4, <1>5, <1>9, <1>10 DEF v, a

\* A pointer of the map that is NULL is set, and its event listed; m is the map
\* after that.
LEMMA StartMapEvent ==
  ASSUME NEW w \in World, w.map # NULL, NEW m \in TcpMap, NEW e \in FdEvent,
         \/ /\ w.map.e_fd_read = NULL /\ m.e_fd_read = e /\ m.e_fd_write = w.map.e_fd_write
         \/ /\ w.map.e_fd_write = NULL /\ m.e_fd_write = e /\ m.e_fd_read = w.map.e_fd_read,
         NEW x, NEW again, ListedAs(w, x, again)
  PROVE  LET v == AddEvent([w EXCEPT !.map = m], e)
         IN  /\ v \in World /\ v.tcb = w.tcb /\ v.map = m /\ v.out = w.out /\ v.map # NULL
             /\ \A f \in Event : v.listed[f] = IF f = e THEN w.listed[f] + 1 ELSE w.listed[f]
             /\ ListedAs(v, x, again)
<1> DEFINE a == [w EXCEPT !.map = m]
           v == AddEvent(a, e)
<1>1. w.map \in TcpMap /\ w.tcb \in Tcb \cup {NULL} /\ \A f \in Event : w.listed[f] \in Nat
  BY DEF World
<1>2. e \in Event
  BY DEF Event
<1>3. a \in World /\ a.tcb = w.tcb /\ a.map = m /\ a.out = w.out /\ a.listed = w.listed
  BY DEF World
<1> HIDE DEF a
<1>4. /\ v \in World /\ v.tcb = w.tcb /\ v.map = m /\ v.out = w.out
      /\ \A f \in Event : v.listed[f] = IF f = e THEN w.listed[f] + 1 ELSE w.listed[f]
  BY <1>2, <1>3, AddEffect
<1>5. m # NULL
  BY NullAssumption
<1> HIDE DEF v
<1>6. \A f \in Event : PointsTo(v, f) <=> PointsTo(w, f) \/ f = e
  BY <1>4, <1>5, TcpAssumption DEF PointsTo, Event, FdEvent, FdWrite, Timer
<1>7. ~PointsTo(w, e)
  BY <1>1, <1>4, TcpAssumption DEF PointsTo, Tcb, TcpMap, FdWrite, Timer, Event, FdEvent
<1>8. ASSUME NEW f \in Event
      PROVE  LET n == (IF PointsTo(v, f) THEN 1 ELSE 0) + (IF f = x THEN 1 ELSE 0)
             IN  v.listed[f] = n \/ (f = "handle_fd_can_write" /\ again /\ v.listed[f] > n)
  <2>1. w.listed[f] \in Nat
    BY <1>1
  <2>2. LET n == (IF PointsTo(w, f) THEN 1 ELSE 0) + (IF f = x THEN 1 ELSE 0)
        IN  w.listed[f] = n \/ (f = "handle_fd_can_write" /\ again /\ w.listed[f] > n)
    BY DEF ListedAs
  <2> QED BY <1>4, <1>6, <1>7, <2>1, <2>2
<1>9. ListedAs(v, x, again)
  BY <1>8 DEF ListedAs
<1> QED BY <1>4, <1>5, <1>9 DEF v, a

\* The callback of event e begins: the pointer to it, if there is one, is cleared.
LEMMA ClearMapPointer ==
  ASSUME NEW w \in World, w.map # NULL, NEW m \in TcpMap, NEW e \in FdEvent, w.listed[e] > 0,
         \/ /\ e = "handle_fd_can_read" /\ m = [w.map EXCEPT !.e_fd_read = NULL]
         \/ /\ e \in FdWrite /\ m = [w.map EXCEPT !.e_fd_write = NULL]
            /\ w.map.e_fd_write \in {NULL, e},
         NEW again, ListedAs(w, NULL, again)
  PROVE  LET v == [w EXCEPT !.map = m]
         IN  /\ v \in World /\ v.tcb = w.tcb /\ v.map = m /\ v.out = w.out /\ v.map # NULL
             /\ v.listed = w.listed
             /\ ListedAs(v, e, again)
<1> DEFINE v == [w EXCEPT !.map = m]
<1>1. w.map \in TcpMap /\ w.tcb \in Tcb \cup {NULL} /\ \A f \in Event : w.listed[f] \in Nat
  BY DEF World
<1>2. e \in Event /\ NULL \notin Event
  BY TcpAssumption DEF Event, FdEvent, FdWrite, Timer
<1>3. v \in World /\ v.tcb = w.tcb /\ v.map = m /\ v.out = w.out /\ v.listed = w.listed
  BY DEF World
<1>5. m # NULL
  BY NullAssumption
<1> HIDE DEF v
<1>6. \A f \in Event : f # e => (PointsTo(v, f) <=> PointsTo(w, f))
  BY <1>1, <1>2, <1>3, <1>5, TcpAssumption DEF PointsTo, TcpMap, FdEvent, FdWrite
<1>7. ~PointsTo(v, e)
  BY <1>1, <1>2, <1>3, TcpAssumption DEF PointsTo, Tcb, TcpMap, FdWrite, Timer, FdEvent
<1>8. ASSUME NEW f \in Event
      PROVE  LET n == (IF PointsTo(v, f) THEN 1 ELSE 0) + (IF f = e THEN 1 ELSE 0)
             IN  v.listed[f] = n \/ (f = "handle_fd_can_write" /\ again /\ v.listed[f] > n)
  <2>1. w.listed[f] \in Nat
    BY <1>1
  <2>2. LET n == (IF PointsTo(w, f) THEN 1 ELSE 0) + (IF f = NULL THEN 1 ELSE 0)
        IN  w.listed[f] = n \/ (f = "handle_fd_can_write" /\ again /\ w.listed[f] > n)
    BY DEF ListedAs
  <2> QED BY <1>2, <1>3, <1>6, <1>7, <2>1, <2>2
<1>9. ListedAs(v, e, again)
  BY <1>8 DEF ListedAs
<1> QED BY <1>3, <1>5, <1>9 DEF v
-----------------------------------------------------------------------------
(* A session. *)

\* The states in which the FIN is or may have been sent.
Ended == {"FIN_WAIT_1", "FIN_WAIT_2", "CLOSING", "LAST_ACK", "TIME_WAIT"}

\* No number beyond this one was sent: the last byte written, and the FIN.
SendLimit(t) == t.outbuf.w_seq + (IF t.state \in Ended THEN 1 ELSE 0)

\* The numbers of the send side, in a session that began with iss and has read
\* sent bytes from the IPv4 socket: what is unacknowledged is in outbuf.
SendNumbers(t, iss, sent) ==
    LET w == t.outbuf.w_seq
    IN  /\ w = iss + 1 + sent
        /\ t.snd_una <= t.snd_nxt /\ t.snd_nxt <= SendLimit(t)
        /\ rb_used(t.outbuf) <= BufSize
        /\ t.state = "SYN_RECVD" => sent = 0 /\ t.snd_una = iss /\ rb_used(t.outbuf) = 0
        /\ t.state # "SYN_RECVD" => iss + 1 <= t.snd_una /\ w - t.snd_una <= rb_used(t.outbuf)
        /\ t.state = "ESTABLISHED" => rb_used(t.outbuf) = w - t.snd_una
        /\ t.state \in {"FIN_WAIT_2", "TIME_WAIT"} => t.snd_una = w + 1

\* A buffer holds the last of the sent bytes of the stream.
Holds(q, sent) == \A i \in 1..rb_used(q) : q.kept[i] = sent - rb_used(q) + i

\* inbuf holds what was not read yet; a session with application offers its room.
RecvBuffer(t) ==
    /\ rb_used(t.inbuf) <= BufSize /\ IntDiff(t.inbuf.w_seq, t.read_seq) = rb_used(t.inbuf)
    /\ t.state \in {"SYN_RECVD", "ESTABLISHED"} => t.rcv_wnd = rb_left(t.inbuf)

\* The two purposes of e_timeout: data in flight is timed.
TimerOf(t) ==
    /\ t.e_timeout = "tcp_remove" <=> t.state = "TIME_WAIT"
    /\ t.e_timeout = "tcp_timeout" =>
         /\ t.state \in {"ESTABLISHED"} \cup Sending
         /\ t.snd_una < t.snd_nxt /\ t.timeout_mark <= t.snd_nxt
    /\ t.state \in {"ESTABLISHED"} \cup Sending
         /\ t.snd_una < t.snd_nxt /\ t.snd_una < t.outbuf.w_seq => t.e_timeout = "tcp_timeout"

\* CLOSE_WAIT is left before handle_tcp returns.
SessionOK(t, iss, sent) ==
    /\ SendNumbers(t, iss, sent) /\ Holds(t.outbuf, sent) /\ RecvBuffer(t) /\ TimerOf(t)
    /\ t.state # "CLOSE_WAIT"

\* tcb and map live and die together.
Matched(w) ==
    /\ w.map # NULL <=> w.tcb # NULL /\ w.tcb.cb
    /\ w.tcb # NULL => (w.tcb.cb <=> w.tcb.state \in {"SYN_RECVD", "ESTABLISHED"})

\* Which events of the socket are wanted.
Watched(w) ==
    w.tcb # NULL =>
      /\ w.tcb.state = "SYN_RECVD" =>
           /\ w.map.e_fd_read = NULL /\ w.map.e_fd_write \in {NULL, "handle_fd_did_connect"}
           /\ rb_used(w.tcb.inbuf) = 0
      /\ w.tcb.state = "ESTABLISHED" =>
           /\ w.map.e_fd_write \in {NULL, "handle_fd_can_write"}
           /\ w.map.e_fd_read # NULL <=> rb_left(w.tcb.outbuf) > 0
           /\ w.map.e_fd_write # NULL <=> rb_used(w.tcb.inbuf) > 0

DaemonOK(w, iss, sent, again) ==
    /\ w \in World /\ Matched(w) /\ Watched(w) /\ ListedAs(w, NULL, again)
    /\ w.tcb # NULL => SessionOK(w.tcb, iss, sent)

\* The fields of a tcb have their types.
LEMMA TcbTypes ==
  ASSUME NEW t \in Tcb
  PROVE  /\ t # NULL
         /\ t.state \in State /\ t.cb \in BOOLEAN
         /\ t.snd_una \in uint /\ t.snd_nxt \in uint /\ t.snd_wnd \in uint
         /\ t.snd_cwnd \in uint /\ t.snd_max \in uint /\ t.timeout_mark \in uint
         /\ t.rcv_nxt \in uint /\ t.rcv_wnd \in uint /\ t.last_acked \in uint
         /\ t.read_seq \in uint /\ t.inbuf \in Queues(Byte) /\ t.outbuf \in Queues(Byte)
         /\ t.outbuf.w_seq \in uint /\ rb_used(t.outbuf) \in Nat
         /\ t.inbuf.w_seq \in uint /\ rb_used(t.inbuf) \in Nat
         /\ t.e_tcb_send \in {NULL, "do_tcb_write"} /\ t.e_timeout \in {NULL} \cup Timer
<1>1. t.inbuf \in Queues(Byte) /\ t.outbuf \in Queues(Byte)
  BY DEF Tcb
<1>2. \A q \in Queues(Byte) : q.w_seq \in uint /\ rb_used(q) \in Nat
  BY DEF Queues, rb_used
<1> QED BY <1>1, <1>2, NullAssumption DEF Tcb

\* Unsigned values are integers of the number space.
LEMMA UintIsInt == uint \subseteq Int /\ \A a \in uint : 0 <= a /\ a < SeqMod
  BY SeqModAssumption DEF uint

\* The sizes are positive and small against the number space.
LEMMA SizeTypes ==
  /\ Mss \in Int /\ Mss > 0 /\ Mss < SeqMod
  /\ BufSize \in Int /\ BufSize > 0 /\ 2 * BufSize < SeqMod
  /\ SeqMod \in Int /\ SeqMod > 1
  BY TcpAssumption, SeqModAssumption

\* Taking bytes from the front leaves the last ones.
LEMMA HoldsAdvanced ==
  ASSUME NEW q \in Queues(Byte), NEW s \in uint, AdvanceWithin(q, s), NEW sent \in Nat, Holds(q, sent)
  PROVE  Holds(Advanced(q, s), sent)
<1> DEFINE left == IntDiff(q.w_seq, s)
           r == Advanced(q, s)
           old == rb_used(q)
           new == rb_used(r)
<1>1. /\ r \in Queues(Byte)
      /\ left <= 0 => new = 0 /\ r.w_seq = s
      /\ left > 0 => new = left /\ r.w_seq = q.w_seq
      /\ new <= old
      /\ \A i \in 1..new : r.kept[i] = q.kept[old - left + i]
  BY AdvancedFacts
<1>2. q.w_seq \in uint /\ old \in Nat /\ new \in Nat
  BY <1>1 DEF Queues, rb_used
<1>3. left \in Int
  BY <1>2, IntDiffFacts
<1>4. \A i \in 1..old : q.kept[i] = sent - old + i
  BY DEF Holds
<1> HIDE DEF left, r, old, new
<1>5. ASSUME NEW i \in 1..new PROVE r.kept[i] = sent - new + i
  <2>1. new = left /\ i \in Int
    BY <1>1, <1>2, <1>3
  <2>2. old - left + i \in 1..old
    BY <1>1, <1>2, <1>3, <2>1
  <2>3. r.kept[i] = sent - old + (old - left + i)
    BY <1>1, <1>4, <2>2
  <2> QED BY <1>2, <1>3, <2>1, <2>3
<1> QED BY <1>5 DEF Holds, new, r

\* Adding the next bytes, which fit, leaves the last ones.
LEMMA HoldsWritten ==
  ASSUME NEW q \in Queues(Byte), NEW data \in Seq(Byte), rb_used(q) <= BufSize,
         NEW sent \in Nat, Holds(q, sent), Len(data) <= BufSize - rb_used(q),
         \A i \in 1..Len(data) : data[i] = sent + i
  PROVE  Holds(Written(q, data, BufSize), sent + Len(data))
<1> DEFINE n == MinInt(Len(data), BufSize - rb_used(q))
           r == Written(q, data, BufSize)
           old == rb_used(q)
           new == rb_used(r)
           k == Len(data)
<1>1. /\ n \in Nat /\ n <= Len(data) /\ n <= BufSize - rb_used(q)
      /\ r \in Queues(Byte)
      /\ new = old + n /\ new <= BufSize
      /\ \A i \in 1..new : r.kept[i] = IF i <= old THEN q.kept[i] ELSE data[i - old]
  BY WrittenFacts
<1>2. old \in Nat /\ k \in Nat /\ BufSize \in Int
  BY SizeTypes DEF Queues, rb_used
<1>3. n = k
  BY <1>2 DEF MinInt
<1>4. /\ \A i \in 1..old : q.kept[i] = sent - old + i
      /\ \A i \in 1..k : data[i] = sent + i
  BY DEF Holds
<1> HIDE DEF n, r, old, new, k
<1>5. ASSUME NEW i \in 1..new PROVE r.kept[i] = (sent + k) - new + i
  <2>1. new = old + k /\ i \in Int
    BY <1>1, <1>2, <1>3
  <2>2. CASE i <= old
    <3>1. i \in 1..old /\ r.kept[i] = q.kept[i]
      BY <1>1, <1>2, <2>1, <2>2
    <3>2. r.kept[i] = sent - old + i
      BY <1>4, <3>1
    <3> QED BY <1>2, <2>1, <3>2
  <2>3. CASE ~(i <= old)
    <3>1. i - old \in 1..k /\ r.kept[i] = data[i - old]
      BY <1>1, <1>2, <2>1, <2>3
    <3>2. r.kept[i] = sent + (i - old)
      BY <1>4, <3>1
    <3> QED BY <1>2, <2>1, <3>2
  <2> QED BY <2>2, <2>3
<1> QED BY <1>5 DEF Holds, new, r, k

\* What tcp_close leaves behind.
LEMMA CloseEffect ==
  ASSUME NEW w \in World, w.tcb # NULL, NEW x, NEW again, ListedAs(w, x, again)
  PROVE  LET v == tcp_close(w)
         IN  /\ v \in World /\ v.map = w.map /\ ListedAs(v, x, again)
             /\ v.listed["handle_fd_can_write"] = w.listed["handle_fd_can_write"]
             /\ w.tcb.state = "SYN_RECVD" =>
                  /\ v.tcb = NULL
                  /\ \E p \in Packet : "RST" \in p.flags /\ v.out = Append(w.out, p)
             /\ w.tcb.state # "SYN_RECVD" =>
                  /\ v.out = w.out
                  /\ v.tcb \in Tcb
                  /\ v.tcb = [w.tcb EXCEPT !.cb = FALSE, !.rcv_wnd = DrainWnd,
                                !.state = IF @ = "ESTABLISHED" THEN "FIN_WAIT_1" ELSE "LAST_ACK",
                                !.e_tcb_send = "do_tcb_write"]
<1> DEFINE v == tcp_close(w)
<1>1. w.tcb \in Tcb /\ w.out \in Seq(Packet)
  BY DEF World
<1>2. CASE w.tcb.state = "SYN_RECVD"
  <2> DEFINE p == [flags |-> {"RST", "ACK"}, seq |-> w.tcb.snd_nxt, ack |-> w.tcb.rcv_nxt,
                   wnd |-> w.tcb.rcv_wnd, data |-> <<>>]
             t == [w.tcb EXCEPT !.last_acked = w.tcb.rcv_nxt]
             u == [w EXCEPT !.tcb = t]
             a == [u EXCEPT !.out = Append(u.out, p)]
  <2>1. p \in Packet /\ "RST" \in p.flags
    BY <1>1, TcbTypes DEF Packet, Flag
  <2>2. t \in Tcb /\ t.e_tcb_send = w.tcb.e_tcb_send /\ t.e_timeout = w.tcb.e_timeout
    BY <1>1 DEF Tcb
  <2>3. Emit(w, {"RST", "ACK"}, <<>>) = a
    BY DEF Emit, World
  <2> HIDE DEF p, t
  <2>4. /\ u \in World /\ u.tcb = t /\ u.map = w.map /\ u.out = w.out
        /\ u.listed = w.listed /\ u.tcb # NULL /\ ListedAs(u, x, again)
    BY <2>2, TcbChange
  <2> HIDE DEF u
  <2>5. /\ a \in World /\ a.tcb = u.tcb /\ a.map = u.map /\ a.out = Append(u.out, p)
        /\ a.listed = u.listed /\ ListedAs(a, x, again)
    BY <2>1, <2>4, OutChange
  <2> HIDE DEF a
  <2>6. a.tcb # NULL
    BY <2>4, <2>5
  <2>7. v = Discard(a)
    BY <1>2, <2>3 DEF tcp_close
  <2> HIDE DEF v
  <2>8. /\ v \in World /\ v.tcb = NULL /\ v.map = a.map /\ v.out = a.out
        /\ v.listed["handle_fd_can_write"] = a.listed["handle_fd_can_write"]
        /\ ListedAs(v, x, again)
    BY <2>5, <2>6, <2>7, DiscardEffect
  <2> QED BY <1>2, <2>1, <2>4, <2>5, <2>8 DEF v
<1>3. CASE w.tcb.state # "SYN_RECVD"
  <2> DEFINE t == [w.tcb EXCEPT !.cb = FALSE, !.rcv_wnd = DrainWnd,
                     !.state = IF @ = "ESTABLISHED" THEN "FIN_WAIT_1" ELSE "LAST_ACK"]
             u == [w EXCEPT !.tcb = t]
  <2>1. t \in Tcb /\ t.e_tcb_send = w.tcb.e_tcb_send /\ t.e_timeout = w.tcb.e_timeout
    BY <1>1, TcpAssumption DEF Tcb, State
  <2>2. v = mark_for_if_write(u)
    BY <1>3 DEF tcp_close
  <2>3. [t EXCEPT !.e_tcb_send = "do_tcb_write"] =
          [w.tcb EXCEPT !.cb = FALSE, !.rcv_wnd = DrainWnd,
             !.state = IF @ = "ESTABLISHED" THEN "FIN_WAIT_1" ELSE "LAST_ACK",
             !.e_tcb_send = "do_tcb_write"]
    BY <1>1 DEF Tcb
  <2> HIDE DEF t
  <2>4. /\ u \in World /\ u.tcb = t /\ u.map = w.map /\ u.out = w.out
        /\ u.listed = w.listed /\ u.tcb # NULL /\ ListedAs(u, x, again)
    BY <2>1, TcbChange
  <2> HIDE DEF u, v
  <2>5. /\ v \in World /\ v.map = u.map /\ v.out = u.out
        /\ v.tcb = [u.tcb EXCEPT !.e_tcb_send = "do_tcb_write"] /\ v.tcb \in Tcb
        /\ \A e \in Event : e # "do_tcb_write" => v.listed[e] = u.listed[e]
        /\ ListedAs(v, x, again)
    BY <2>2, <2>4, MarkEffect
  <2>6. v.listed["handle_fd_can_write"] = w.listed["handle_fd_can_write"]
    BY <2>4, <2>5 DEF Event, FdEvent, FdWrite
  <2> QED BY <1>3, <2>3, <2>4, <2>5, <2>6 DEF v
<1> QED BY <1>2, <1>3

\* The fields an acknowledgement leaves alone.
SameButAck(t, u) ==
    /\ u.state = t.state /\ u.cb = t.cb /\ u.e_tcb_send = t.e_tcb_send
    /\ u.snd_wnd = t.snd_wnd /\ u.snd_max = t.snd_max
    /\ u.rcv_nxt = t.rcv_nxt /\ u.rcv_wnd = t.rcv_wnd /\ u.last_acked = t.last_acked
    /\ u.read_seq = t.read_seq /\ u.inbuf = t.inbuf

\* What an acknowledgement does to the retransmission timer of tcb t.
Retimed(t, u, ack) ==
    LET hit == /\ t.state \in {"ESTABLISHED"} \cup Sending
               /\ t.e_timeout # NULL /\ ack >= t.timeout_mark
    IN  /\ hit /\ t.snd_una < t.snd_nxt => u.e_timeout = "tcp_timeout" /\ u.timeout_mark = t.snd_nxt
        /\ hit /\ ~(t.snd_una < t.snd_nxt) => u.e_timeout = NULL
        /\ ~hit => u.e_timeout = t.e_timeout /\ u.timeout_mark = t.timeout_mark

\* What an acknowledgement does to the timer and its list.
LEMMA AckTimerEffect ==
  ASSUME NEW w \in World, w.tcb # NULL, NEW ack \in uint,
         NEW x, NEW again, ListedAs(w, x, again)
  PROVE  LET v == AckTimer(w, ack)
         IN  /\ v \in World /\ v.map = w.map /\ v.out = w.out /\ v.tcb \in Tcb
             /\ v.listed["handle_fd_can_write"] = w.listed["handle_fd_can_write"]
             /\ SameButAck(w.tcb, v.tcb) /\ Retimed(w.tcb, v.tcb, ack)
             /\ v.tcb.snd_una = w.tcb.snd_una /\ v.tcb.snd_nxt = w.tcb.snd_nxt
             /\ v.tcb.outbuf = w.tcb.outbuf
             /\ ListedAs(v, x, again)
<1> DEFINE t == w.tcb
           hit == /\ t.state \in {"ESTABLISHED"} \cup Sending
                  /\ t.e_timeout # NULL /\ ack >= t.timeout_mark
           v == AckTimer(w, ack)
           c == SeqAdd(t.snd_cwnd, Mss)
           tn == [t EXCEPT !.snd_cwnd = c, !.e_timeout = NULL]
           n == [RemoveEvent(w, t.e_timeout) EXCEPT !.tcb = tn]
<1>1. t \in Tcb
  BY DEF World
<1>2. c \in uint
  <2>1. t.snd_cwnd \in Int /\ Mss \in Int
    <3>1. t.snd_cwnd \in uint
      BY <1>1 DEF Tcb
    <3> QED BY <3>1, UintIsInt, SizeTypes
  <2> QED BY <2>1, SeqAddFacts
<1>3. CASE ~hit
  <2>1. v = w
    BY <1>3 DEF AckTimer
  <2>2. SameButAck(t, t) /\ Retimed(t, t, ack)
    BY <1>3 DEF SameButAck, Retimed
  <2> HIDE DEF hit
  <2> QED BY <1>1, <2>1, <2>2
<1>4. CASE hit
  <2> DEFINE r == RemoveEvent(w, t.e_timeout)
             a == [r EXCEPT !.tcb.snd_cwnd = SeqAdd(@, Mss)]
  <2>0. r \in World /\ r.tcb = t
    BY <1>1, TcbTypes, RemoveEffect DEF Event
  <2>1. tn \in Tcb /\ tn.e_tcb_send = t.e_tcb_send /\ tn.e_timeout = NULL
    BY <1>1, <1>2 DEF Tcb
  <2>2. a = [r EXCEPT !.tcb = [t EXCEPT !.snd_cwnd = c]]
    BY <2>0
  <2>3. n = [a EXCEPT !.tcb.e_timeout = NULL]
    BY <2>2, <2>0, <1>1 DEF World
  <2> HIDE DEF r, a
  <2>4. /\ n \in World /\ n.tcb = tn /\ n.map = w.map /\ n.out = w.out /\ n.tcb # NULL
        /\ \A e \in Event : e \notin Timer => n.listed[e] = w.listed[e]
        /\ ListedAs(n, x, again)
    BY <2>1, StopTimer
  <2>5. "handle_fd_can_write" \in Event /\ "handle_fd_can_write" \notin Timer
    BY DEF Event, FdEvent, FdWrite, Timer
  <2>6. CASE ~(t.snd_una < t.snd_nxt)
    <3>1. v = n
      BY <1>4, <2>3, <2>6 DEF AckTimer, a, r
    <3>2. SameButAck(t, tn) /\ Retimed(t, tn, ack)
      BY <1>1, <1>4, <2>6 DEF SameButAck, Retimed, Tcb
    <3>3. tn.snd_una = t.snd_una /\ tn.snd_nxt = t.snd_nxt /\ tn.outbuf = t.outbuf
      BY <1>1 DEF Tcb
    <3> HIDE DEF v, n, hit, tn
    <3> QED BY <2>1, <2>4, <2>5, <3>1, <3>2, <3>3 DEF v
  <2>7. CASE t.snd_una < t.snd_nxt
    <3> DEFINE ts == [tn EXCEPT !.e_timeout = "tcp_timeout", !.timeout_mark = t.snd_nxt]
               s == AddEvent([n EXCEPT !.tcb = ts], ts.e_timeout)
    <3>1. /\ ts \in Tcb /\ ts.e_tcb_send = tn.e_tcb_send /\ ts.e_timeout = "tcp_timeout"
          /\ "tcp_timeout" \in Timer
      BY <1>1, <2>1 DEF Tcb, Timer
    <3>2. v = set_timeout(a)
      BY <1>4, <2>7 DEF AckTimer, a, r
    <3>3. set_timeout(a) = AddEvent([a EXCEPT !.tcb = ts], "tcp_timeout")
      <4> DEFINE ta == [t EXCEPT !.snd_cwnd = c]
      <4>1. a \in World /\ a.tcb = ta /\ ta.snd_nxt = t.snd_nxt
        <5>1. ta \in Tcb /\ ta.snd_nxt = t.snd_nxt
          BY <1>1, <1>2 DEF Tcb
        <5> HIDE DEF ta
        <5> QED BY <2>0, <2>2, <5>1 DEF World, ta
      <4>2. ts = [ta EXCEPT !.e_timeout = "tcp_timeout", !.timeout_mark = t.snd_nxt]
        BY <1>1 DEF Tcb
      <4> HIDE DEF ta, ts
      <4> QED BY <4>1, <4>2 DEF set_timeout
    <3>4. [a EXCEPT !.tcb = ts] = [n EXCEPT !.tcb = ts]
      BY <2>3, <2>2, <2>0 DEF World
    <3>5. SameButAck(t, ts) /\ Retimed(t, ts, ack)
      BY <1>1, <1>4, <2>7 DEF SameButAck, Retimed, Tcb
    <3>6. ts.snd_una = t.snd_una /\ ts.snd_nxt = t.snd_nxt /\ ts.outbuf = t.outbuf
      BY <1>1 DEF Tcb
    <3>7. v = s
      BY <3>1, <3>2, <3>3, <3>4
    <3> HIDE DEF v, n, hit, tn, ts
    <3>8. /\ s \in World /\ s.tcb = ts /\ s.map = n.map /\ s.out = n.out
          /\ \A e \in Event : e \notin Timer => s.listed[e] = n.listed[e]
          /\ ListedAs(s, x, again)
      BY <2>1, <2>4, <3>1, StartTimer
    <3> QED BY <2>4, <2>5, <3>1, <3>5, <3>6, <3>7, <3>8 DEF v
  <2> QED BY <2>6, <2>7
<1> QED BY <1>3, <1>4

\* output_space watches the socket once there is room.
LEMMA OutputSpaceEffect ==
  ASSUME NEW w \in World, w.map # NULL, NEW space \in Int,
         NEW x, NEW again, ListedAs(w, x, again)
  PROVE  LET v == output_space(w, space)
         IN  /\ v \in World /\ v.tcb = w.tcb /\ v.out = w.out /\ v.map \in TcpMap
             /\ v.listed["handle_fd_can_write"] = w.listed["handle_fd_can_write"]
             /\ v.map.e_fd_write = w.map.e_fd_write
             /\ v.map.e_fd_read = IF space > 0 THEN "handle_fd_can_read" ELSE w.map.e_fd_read
             /\ ListedAs(v, x, again)
<1> DEFINE v == output_space(w, space)
           m == [w.map EXCEPT !.e_fd_read = "handle_fd_can_read"]
<1>1. w.map \in TcpMap
  BY DEF World
<1>2. CASE space > 0 /\ w.map.e_fd_read = NULL
  <2>1. m \in TcpMap /\ m.e_fd_write = w.map.e_fd_write /\ m.e_fd_read = "handle_fd_can_read"
    BY <1>1 DEF TcpMap
  <2>2. v = AddEvent([w EXCEPT !.map = m], "handle_fd_can_read")
    BY <1>2 DEF output_space
  <2>3. "handle_fd_can_read" \in FdEvent /\ "handle_fd_can_write" \in Event
    BY DEF FdEvent, FdWrite, Event
  <2> HIDE DEF v, m
  <2>4. /\ v \in World /\ v.tcb = w.tcb /\ v.map = m /\ v.out = w.out
        /\ \A f \in Event : v.listed[f] = IF f = "handle_fd_can_read" THEN w.listed[f] + 1
                                          ELSE w.listed[f]
        /\ ListedAs(v, x, again)
    BY <1>2, <2>1, <2>2, <2>3, StartMapEvent
  <2> QED BY <1>2, <2>1, <2>3, <2>4 DEF v
<1>3. CASE ~(space > 0 /\ w.map.e_fd_read = NULL)
  <2>1. v = w
    BY <1>3 DEF output_space
  <2>2. w.map.e_fd_read \in {NULL, "handle_fd_can_read"}
    BY <1>1 DEF TcpMap
  <2> QED BY <1>1, <1>3, <2>1, <2>2
<1> QED BY <1>2, <1>3

\* An acknowledgement moves snd_una, and snd_nxt if it was set back meanwhile,
\* and in ESTABLISHED makes room in outbuf.
LEMMA NewAckEffect ==
  ASSUME NEW w \in World, w.tcb # NULL, NEW ack \in uint,
         w.tcb.state = "ESTABLISHED" =>
           w.map # NULL /\ AdvanceWithin(w.tcb.outbuf, ack),
         NEW x, NEW again, ListedAs(w, x, again)
  PROVE  LET v == NewAck(w, ack)
             t == w.tcb
         IN  /\ v \in World /\ v.out = w.out /\ v.tcb \in Tcb
             /\ v.listed["handle_fd_can_write"] = w.listed["handle_fd_can_write"]
             /\ SameButAck(t, v.tcb)
             /\ v.tcb.snd_una = ack
             /\ v.tcb.snd_nxt = IF ack > t.snd_nxt THEN ack ELSE t.snd_nxt
             /\ v.tcb.outbuf = IF t.state = "ESTABLISHED" THEN Advanced(t.outbuf, ack) ELSE t.outbuf
             /\ Retimed([t EXCEPT !.snd_una = ack,
                                  !.snd_nxt = IF ack > t.snd_nxt THEN ack ELSE t.snd_nxt], v.tcb, ack)
             /\ t.state # "ESTABLISHED" => v.map = w.map
             /\ t.state = "ESTABLISHED" =>
                  /\ v.map \in TcpMap
                  /\ v.map.e_fd_write = w.map.e_fd_write
                  /\ v.map.e_fd_read = IF rb_left(v.tcb.outbuf) > 0 THEN "handle_fd_can_read"
                                       ELSE w.map.e_fd_read
             /\ ListedAs(v, x, again)
<1> DEFINE t == w.tcb
           nxt == IF ack > t.snd_nxt THEN ack ELSE t.snd_nxt
           ta == [t EXCEPT !.snd_una = ack, !.snd_nxt = nxt]
           a == [w EXCEPT !.tcb = ta]
           v == NewAck(w, ack)
<1>1. t \in Tcb
  BY DEF World
<1>2. nxt \in uint
  BY <1>1 DEF Tcb
<1>3. /\ ta \in Tcb /\ ta.e_tcb_send = t.e_tcb_send /\ ta.e_timeout = t.e_timeout
      /\ ta.state = t.state /\ ta.outbuf = t.outbuf /\ ta.snd_una = ack /\ ta.snd_nxt = nxt
      /\ ta.timeout_mark = t.timeout_mark /\ SameButAck(t, ta)
  BY <1>1, <1>2 DEF Tcb, SameButAck
<1>4. [w EXCEPT !.tcb.snd_una = ack, !.tcb.snd_nxt = IF ack > @ THEN ack ELSE @] = a
  BY <1>1 DEF World, Tcb
<1> HIDE DEF nxt, ta
<1>5. /\ a \in World /\ a.tcb = ta /\ a.map = w.map /\ a.out = w.out
      /\ a.listed = w.listed /\ a.tcb # NULL /\ ListedAs(a, x, again)
  BY <1>3, TcbChange
<1>6. CASE t.state # "ESTABLISHED"
  <2>1. v = AckTimer(a, ack)
    BY <1>4, <1>6 DEF NewAck
  <2> HIDE DEF a, v
  <2>2. /\ v \in World /\ v.map = a.map /\ v.out = a.out /\ v.tcb \in Tcb
        /\ v.listed["handle_fd_can_write"] = a.listed["handle_fd_can_write"]
        /\ SameButAck(ta, v.tcb) /\ Retimed(ta, v.tcb, ack)
        /\ v.tcb.snd_una = ta.snd_una /\ v.tcb.snd_nxt = ta.snd_nxt
        /\ v.tcb.outbuf = ta.outbuf
        /\ ListedAs(v, x, again)
    BY <1>5, <2>1, AckTimerEffect
  <2>3. SameButAck(t, v.tcb)
    BY <1>3, <2>2 DEF SameButAck
  <2> QED BY <1>3, <1>5, <1>6, <2>2, <2>3 DEF v, ta, nxt
<1>7. CASE t.state = "ESTABLISHED"
  <2> DEFINE ob == Advanced(t.outbuf, ack)
             tb == [ta EXCEPT !.outbuf = ob]
             b == [a EXCEPT !.tcb = tb]
             c == output_space(b, rb_left(ob))
  <2>1. ob \in Queues(Byte) /\ rb_left(ob) \in Int
    <3>1. t.outbuf \in Queues(Byte)
      BY <1>1 DEF Tcb
    <3>2. ob \in Queues(Byte)
      BY <1>7, <3>1, AdvancedFacts
    <3> HIDE DEF ob
    <3>3. rb_used(ob) \in Nat
      BY <3>2 DEF Queues, rb_used
    <3> QED BY <3>2, <3>3, SizeTypes DEF rb_left
  <2> HIDE DEF ob
  <2>2. /\ tb \in Tcb /\ tb.e_tcb_send = ta.e_tcb_send /\ tb.e_timeout = ta.e_timeout
        /\ tb.outbuf = ob /\ tb.snd_una = ta.snd_una /\ tb.snd_nxt = ta.snd_nxt
        /\ SameButAck(ta, tb) /\ (\A u : Retimed(tb, u, ack) => Retimed(ta, u, ack))
    BY <1>3, <2>1 DEF Tcb, SameButAck, Retimed
  <2>3. [a EXCEPT !.tcb.outbuf = Advanced(@, ack)] = b
    BY <1>3, <1>5 DEF World, ob
  <2>4. v = AckTimer(c, ack)
    <3> HIDE DEF a, b
    <3>1. b.tcb.outbuf = ob
      BY <1>5, <2>2 DEF b, World
    <3> QED BY <1>4, <1>7, <2>3, <3>1 DEF NewAck
  <2> HIDE DEF a, tb, v
  <2>5. /\ b \in World /\ b.tcb = tb /\ b.map = a.map /\ b.out = a.out
        /\ b.listed = a.listed /\ b.tcb # NULL /\ ListedAs(b, x, again)
    BY <1>5, <2>2, TcbChange
  <2> HIDE DEF b
  <2>6. /\ c \in World /\ c.tcb = b.tcb /\ c.out = b.out /\ c.map \in TcpMap
        /\ c.listed["handle_fd_can_write"] = b.listed["handle_fd_can_write"]
        /\ c.map.e_fd_write = b.map.e_fd_write
        /\ c.map.e_fd_read = IF rb_left(ob) > 0 THEN "handle_fd_can_read" ELSE b.map.e_fd_read
        /\ ListedAs(c, x, again)
    BY <1>5, <1>7, <2>1, <2>5, OutputSpaceEffect
  <2> HIDE DEF c
  <2>7. /\ v \in World /\ v.map = c.map /\ v.out = c.out /\ v.tcb \in Tcb
        /\ v.listed["handle_fd_can_write"] = c.listed["handle_fd_can_write"]
        /\ SameButAck(tb, v.tcb) /\ Retimed(tb, v.tcb, ack)
        /\ v.tcb.snd_una = tb.snd_una /\ v.tcb.snd_nxt = tb.snd_nxt
        /\ v.tcb.outbuf = tb.outbuf
        /\ ListedAs(v, x, again)
    BY <2>4, <2>5, <2>6, AckTimerEffect
  <2>8. SameButAck(t, v.tcb)
    BY <1>3, <2>2, <2>7 DEF SameButAck
  <2>9. Retimed(ta, v.tcb, ack)
    BY <2>2, <2>7
  <2> QED BY <1>3, <1>5, <1>7, <2>2, <2>5, <2>6, <2>7, <2>8, <2>9 DEF v, ta, nxt, ob
<1> QED BY <1>6, <1>7

\* The acknowledgement of a segment keeps a session that is established or closing
\* in order, when it acknowledges nothing that was never sent.
LEMMA AckedKeeps ==
  ASSUME NEW w, NEW iss \in Nat, NEW sent \in Nat, iss + sent + 2 < SeqMod, NEW again,
         DaemonOK(w, iss, sent, again), w.tcb # NULL, w.tcb.state # "SYN_RECVD",
         NEW p \in Packet, "ACK" \in p.flags => p.ack <= SendLimit(w.tcb)
  PROVE  LET v == Acked(w, p)
         IN  /\ DaemonOK(v, iss, sent, again) /\ v.tcb # NULL /\ v.out = w.out
             /\ SameButAck(w.tcb, v.tcb)
             /\ v.map = NULL <=> w.map = NULL
             /\ v.listed["handle_fd_can_write"] = w.listed["handle_fd_can_write"]
<1> DEFINE v == Acked(w, p)
           t == w.tcb
           ack == p.ack
           nxt == IF ack > t.snd_nxt THEN ack ELSE t.snd_nxt
           ta == [t EXCEPT !.snd_una = ack, !.snd_nxt = nxt]
<1>1. CASE ~("ACK" \in p.flags /\ p.ack > w.tcb.snd_una)
  <2>1. v = w
    BY <1>1 DEF Acked
  <2> QED BY <2>1 DEF SameButAck
<1>2. CASE "ACK" \in p.flags /\ p.ack > w.tcb.snd_una
  <2>1. w \in World /\ t \in Tcb /\ Matched(w) /\ Watched(w) /\ ListedAs(w, NULL, again)
    BY DEF DaemonOK, World
  <2>2. /\ SendNumbers(t, iss, sent) /\ Holds(t.outbuf, sent) /\ RecvBuffer(t) /\ TimerOf(t)
        /\ t.state # "CLOSE_WAIT"
    BY DEF DaemonOK, SessionOK
  <2>3. ack \in uint
    BY DEF Packet
  <2>4. /\ t.snd_una \in uint /\ t.snd_nxt \in uint /\ t.outbuf.w_seq \in uint
        /\ rb_used(t.outbuf) \in Nat /\ t.state \in State /\ t.timeout_mark \in uint
        /\ t.e_timeout \in {NULL} \cup Timer /\ t.outbuf \in Queues(Byte)
    BY <2>1, TcbTypes
  <2>5. /\ ack \in Int /\ t.snd_una \in Int /\ t.snd_nxt \in Int /\ t.outbuf.w_seq \in Int
        /\ t.timeout_mark \in Int
    BY <2>3, <2>4, UintIsInt
  <2> DEFINE ws == t.outbuf.w_seq
             used == rb_used(t.outbuf)
  <2>6. /\ ack > t.snd_una /\ ack <= ws + 1 /\ ws = iss + 1 + sent
        /\ t.snd_una <= t.snd_nxt /\ t.snd_nxt <= SendLimit(t) /\ ack <= SendLimit(t)
        /\ iss + 1 <= t.snd_una /\ ws - t.snd_una <= used /\ used <= BufSize
        /\ t.state = "ESTABLISHED" => used = ws - t.snd_una /\ SendLimit(t) = ws
        /\ t.state \in {"FIN_WAIT_2", "TIME_WAIT"} => t.snd_una = ws + 1
    BY <1>2, <2>2, <2>5 DEF SendNumbers, SendLimit, Ended
  <2> HIDE DEF ws, used, ack, t
  <2>7. IntDiff(ws, ack) = ws - ack
    <3>1. 2 * (ws - ack) < SeqMod /\ 2 * (ack - ws) < SeqMod
      BY <2>4, <2>5, <2>6, SizeTypes DEF ws, used
    <3> QED BY <2>3, <2>4, <3>1, IntDiffFacts DEF ws
  <2>8. AdvanceWithin(t.outbuf, ack)
    BY <2>4, <2>5, <2>6, <2>7 DEF AdvanceWithin, ws, used
  <2>9. t.state = "ESTABLISHED" => w.map # NULL
    BY <2>1 DEF Matched, t
  <2>10. /\ v \in World /\ v.out = w.out /\ v.tcb \in Tcb
         /\ v.listed["handle_fd_can_write"] = w.listed["handle_fd_can_write"]
         /\ SameButAck(t, v.tcb)
         /\ v.tcb.snd_una = ack /\ v.tcb.snd_nxt = nxt
         /\ v.tcb.outbuf = IF t.state = "ESTABLISHED" THEN Advanced(t.outbuf, ack) ELSE t.outbuf
         /\ Retimed(ta, v.tcb, ack)
         /\ t.state # "ESTABLISHED" => v.map = w.map
         /\ t.state = "ESTABLISHED" =>
              /\ v.map \in TcpMap
              /\ v.map.e_fd_write = w.map.e_fd_write
              /\ v.map.e_fd_read = IF rb_left(v.tcb.outbuf) > 0 THEN "handle_fd_can_read"
                                   ELSE w.map.e_fd_read
         /\ ListedAs(v, NULL, again)
    <3>1. v = NewAck(w, ack)
      BY <1>2 DEF Acked, ack
    <3> HIDE DEF v
    <3> QED BY <2>1, <2>3, <2>8, <2>9, <3>1, NewAckEffect DEF t
  <2> HIDE DEF v
  <2>11. v.tcb # NULL /\ v.tcb.state = t.state /\ v.tcb.cb = t.cb
    BY <2>10, TcbTypes DEF SameButAck
  <2>12. /\ v.tcb.outbuf.w_seq = ws
         /\ rb_used(v.tcb.outbuf) = IF t.state = "ESTABLISHED" THEN ws - ack ELSE used
    <3>1. CASE t.state = "ESTABLISHED"
      <4>1. LET r == Advanced(t.outbuf, ack)
            IN  /\ ws - ack <= 0 => rb_used(r) = 0 /\ r.w_seq = ack
                /\ ws - ack > 0 => rb_used(r) = ws - ack /\ r.w_seq = ws
        BY <2>3, <2>4, <2>7, <2>8, AdvancedFacts DEF ws
      <4>2. ws - ack >= 0 /\ ws \in Int
        BY <2>5, <2>6, <3>1 DEF ws
      <4> QED BY <2>5, <2>10, <3>1, <4>1, <4>2
    <3>2. CASE t.state # "ESTABLISHED"
      BY <2>10, <3>2 DEF ws, used
    <3> QED BY <3>1, <3>2
  <2>13. SendNumbers(v.tcb, iss, sent)
    <3>1. SendLimit(v.tcb) = SendLimit(t)
      BY <2>11, <2>12 DEF SendLimit, ws
    <3>2. ack <= nxt /\ nxt <= SendLimit(t)
      BY <2>5, <2>6
    <3>3. used \in Int /\ ws \in Int
      BY <2>4, <2>5 DEF used, ws
    <3>4. ~(t.state \in {"FIN_WAIT_2", "TIME_WAIT"}) /\ t.state # "SYN_RECVD"
      BY <2>5, <2>6, <3>3 DEF t
    <3> HIDE DEF nxt
    <3>5. /\ rb_used(v.tcb.outbuf) <= BufSize /\ ws - ack <= rb_used(v.tcb.outbuf)
          /\ iss + 1 <= ack
      BY <2>5, <2>6, <2>12, <3>3, SizeTypes
    <3> QED BY <2>6, <2>10, <2>11, <2>12, <3>1, <3>2, <3>4, <3>5 DEF SendNumbers
  <2>14. TimerOf(v.tcb)
    <3>1. /\ ta.state = t.state /\ ta.e_timeout = t.e_timeout /\ ta.timeout_mark = t.timeout_mark
          /\ ta.snd_una = ack /\ ta.snd_nxt = nxt
      BY <2>1 DEF Tcb
    <3>2. ack <= nxt /\ t.snd_nxt <= nxt /\ nxt \in Int
      BY <2>5
    <3> HIDE DEF nxt, ta
    <3>3. CASE t.e_timeout = "tcp_timeout"
      <4>1. /\ t.state \in {"ESTABLISHED"} \cup Sending /\ t.state # "TIME_WAIT"
            /\ t.timeout_mark <= t.snd_nxt /\ t.e_timeout # NULL
        BY <2>2, <3>3, TcpAssumption DEF TimerOf, Sending
      <4>2. CASE ack >= t.timeout_mark
        BY <2>5, <2>10, <2>11, <3>1, <3>2, <4>1, <4>2, TcpAssumption DEF Retimed, TimerOf
      <4>3. CASE ~(ack >= t.timeout_mark)
        <5>1. v.tcb.e_timeout = t.e_timeout /\ v.tcb.timeout_mark = t.timeout_mark
          BY <2>10, <3>1, <4>3 DEF Retimed
        <5>2. ack < nxt /\ t.timeout_mark <= nxt
          BY <2>5, <3>2, <4>1, <4>3
        <5> QED BY <2>10, <2>11, <3>3, <4>1, <5>1, <5>2 DEF TimerOf
      <4> QED BY <4>2, <4>3
    <3>4. CASE t.e_timeout # "tcp_timeout"
      <4>1. t.e_timeout = "tcp_remove" <=> t.state = "TIME_WAIT"
        BY <2>2 DEF TimerOf
      <4>2. v.tcb.e_timeout = t.e_timeout
        BY <2>4, <2>10, <3>1, <3>4, <4>1 DEF Retimed, Sending, Timer
      <4>3. ~(t.state \in {"ESTABLISHED"} \cup Sending /\ t.snd_una < t.snd_nxt /\ t.snd_una < ws)
        BY <2>2, <3>4 DEF TimerOf, ws
      <4>4. ack < nxt /\ ack < ws => t.snd_una < t.snd_nxt /\ t.snd_una < ws
        BY <2>5, <2>6 DEF nxt, ws
      <4> QED BY <2>10, <2>11, <2>12, <3>4, <4>1, <4>2, <4>3, <4>4 DEF TimerOf
    <3> QED BY <3>3, <3>4
  <2>15. RecvBuffer(v.tcb)
    BY <2>2, <2>10 DEF RecvBuffer, SameButAck
  <2>16. Matched(v) /\ (v.map = NULL <=> w.map = NULL)
    <3>1. v.map = NULL <=> w.map = NULL
      BY <2>9, <2>10, NullAssumption
    <3> QED BY <2>1, <2>11, <3>1 DEF Matched, t
  <2>17. Watched(v)
    <3>1. CASE t.state = "ESTABLISHED"
      <4>1. rb_left(v.tcb.outbuf) > 0
        BY <2>4, <2>5, <2>6, <2>12, <3>1, SizeTypes DEF rb_left, ws, used
      <4>2. v.tcb.inbuf = t.inbuf
        BY <2>10 DEF SameButAck
      <4> QED BY <2>1, <2>10, <2>11, <3>1, <4>1, <4>2, TcpAssumption DEF Watched, t
    <3>2. CASE t.state # "ESTABLISHED"
      BY <2>11, <3>2 DEF Watched, t
    <3> QED BY <3>1, <3>2
  <2>18. Holds(v.tcb.outbuf, sent)
    <3>1. Holds(Advanced(t.outbuf, ack), sent)
      BY <2>2, <2>3, <2>4, <2>8, HoldsAdvanced
    <3> QED BY <2>2, <2>10, <3>1
  <2> QED BY <2>2, <2>10, <2>11, <2>13, <2>14, <2>15, <2>16, <2>17, <2>18
          DEF DaemonOK, SessionOK, v, t
<1> QED BY <1>1, <1>2

\* The client's acknowledgement of the SYN establishes the session, and the
\* socket is watched for input.
LEMMA SynAckedEffect ==
  ASSUME NEW w, NEW iss \in Nat, NEW sent \in Nat, iss + sent + 2 < SeqMod, NEW again,
         DaemonOK(w, iss, sent, again), w.tcb # NULL, w.tcb.state = "SYN_RECVD",
         w.tcb.snd_nxt = iss + 1, w.map.e_fd_write = NULL,
         NEW p \in Packet, "ACK" \in p.flags, p.ack = iss + 1
  PROVE  LET a == Acked(w, p)
             v == Settled(a, p)
         IN  /\ DaemonOK(v, iss, sent, again) /\ v.tcb # NULL /\ v.tcb.state = "ESTABLISHED"
             /\ v.out = w.out /\ v.map # NULL
             /\ v.listed["handle_fd_can_write"] = w.listed["handle_fd_can_write"]
             /\ a.tcb.state = "SYN_RECVD"
             /\ v.tcb.e_tcb_send = w.tcb.e_tcb_send /\ v.tcb.rcv_nxt = w.tcb.rcv_nxt
             /\ v.tcb.inbuf = w.tcb.inbuf /\ v.map.e_fd_write = NULL
<1> DEFINE t == w.tcb
           a == Acked(w, p)
           v == Settled(a, p)
           ta == [t EXCEPT !.snd_una = p.ack,
                           !.snd_nxt = IF p.ack > t.snd_nxt THEN p.ack ELSE t.snd_nxt]
<1>1. w \in World /\ t \in Tcb /\ Matched(w) /\ Watched(w) /\ ListedAs(w, NULL, again)
  BY DEF DaemonOK, World
<1>2. SendNumbers(t, iss, sent) /\ Holds(t.outbuf, sent) /\ RecvBuffer(t) /\ TimerOf(t)
  BY DEF DaemonOK, SessionOK
<1>3. p.ack \in uint /\ p.ack \in Int
  BY UintIsInt DEF Packet
<1>4. /\ sent = 0 /\ t.snd_una = iss /\ rb_used(t.outbuf) = 0 /\ t.outbuf.w_seq = iss + 1
      /\ t.e_timeout = NULL
  <2>1. t.e_timeout \in {NULL} \cup Timer
    BY <1>1 DEF Tcb
  <2> QED BY <1>2, <2>1 DEF SendNumbers, TimerOf, Sending, Timer
<1>5. /\ a \in World /\ a.out = w.out /\ a.tcb \in Tcb /\ a.map = w.map
      /\ a.listed["handle_fd_can_write"] = w.listed["handle_fd_can_write"]
      /\ SameButAck(t, a.tcb) /\ a.tcb.snd_una = iss + 1 /\ a.tcb.snd_nxt = iss + 1
      /\ a.tcb.outbuf = t.outbuf
      /\ Retimed(ta, a.tcb, p.ack)
      /\ ListedAs(a, NULL, again)
  <2>1. a = NewAck(w, p.ack)
    BY <1>3, <1>4 DEF Acked
  <2> HIDE DEF a, ta
  <2>2. ~(p.ack > t.snd_nxt)
    BY <1>3
  <2> QED BY <1>1, <1>3, <2>1, <2>2, NewAckEffect DEF ta
<1>6. a.tcb.e_timeout = NULL
  <2>1. ta.state = "SYN_RECVD" /\ ta.e_timeout = NULL
    BY <1>1, <1>4 DEF Tcb
  <2> HIDE DEF a, ta
  <2> QED BY <1>5, <2>1 DEF Retimed, Sending
<1> HIDE DEF a, ta
<1> DEFINE te == [a.tcb EXCEPT !.state = "ESTABLISHED"]
           b == [a EXCEPT !.tcb = te]
<1>7. /\ te \in Tcb /\ te.e_tcb_send = a.tcb.e_tcb_send /\ te.e_timeout = a.tcb.e_timeout
      /\ te.state = "ESTABLISHED" /\ te.snd_una = iss + 1 /\ te.snd_nxt = iss + 1
      /\ te.outbuf = t.outbuf /\ te.inbuf = t.inbuf /\ te.read_seq = t.read_seq
      /\ te.cb = t.cb /\ te.rcv_nxt = t.rcv_nxt /\ te.rcv_wnd = t.rcv_wnd
  BY <1>5 DEF Tcb, State, SameButAck
<1>8. v = output_space(b, rb_left(t.outbuf))
  <2>1. a.tcb.state = "SYN_RECVD" /\ AllAcked(a.tcb, p)
    BY <1>5 DEF AllAcked, SameButAck
  <2>2. [a EXCEPT !.tcb.state = "ESTABLISHED"] = b
    OBVIOUS
  <2> HIDE DEF b, te
  <2> QED BY <1>5, <2>1, <2>2 DEF Settled
<1>9. rb_left(t.outbuf) \in Int /\ rb_left(t.outbuf) > 0
  BY <1>4, SizeTypes DEF rb_left
<1> HIDE DEF te, v
<1>10. /\ b \in World /\ b.tcb = te /\ b.map = a.map /\ b.out = a.out
       /\ b.listed = a.listed /\ b.tcb # NULL /\ ListedAs(b, NULL, again)
  <2>1. a.tcb # NULL
    BY <1>5, TcbTypes
  <2> QED BY <1>5, <1>7, <2>1, TcbChange
<1> HIDE DEF b
<1>11. w.map # NULL /\ t.cb
  BY <1>1 DEF Matched
<1>12. /\ v \in World /\ v.tcb = te /\ v.out = w.out /\ v.map \in TcpMap
       /\ v.listed["handle_fd_can_write"] = b.listed["handle_fd_can_write"]
       /\ v.map.e_fd_write = NULL /\ v.map.e_fd_read = "handle_fd_can_read"
       /\ ListedAs(v, NULL, again)
  BY <1>5, <1>8, <1>9, <1>10, <1>11, OutputSpaceEffect
<1>13. v.map # NULL /\ v.tcb # NULL
  BY <1>7, <1>12, NullAssumption
<1>14. SessionOK(te, iss, sent)
  <2>1. SendNumbers(te, iss, sent)
    BY <1>4, <1>7, SizeTypes DEF SendNumbers, SendLimit, Ended
  <2>2. RecvBuffer(te) /\ TimerOf(te)
    BY <1>2, <1>6, <1>7, TcpAssumption DEF RecvBuffer, TimerOf
  <2> QED BY <1>2, <1>7, <2>1, <2>2 DEF SessionOK
<1>15. Matched(v) /\ Watched(v)
  <2>1. rb_used(te.inbuf) = 0
    BY <1>1, <1>7 DEF Watched
  <2>2. rb_left(te.outbuf) > 0
    BY <1>7, <1>9
  <2>3. Matched(v)
    BY <1>7, <1>11, <1>12, <1>13 DEF Matched
  <2>4. Watched(v)
    BY <1>7, <1>12, <2>1, <2>2, TcpAssumption DEF Watched
  <2> QED BY <2>3, <2>4
<1>16. a.tcb.state = "SYN_RECVD" /\ te.e_tcb_send = t.e_tcb_send
  BY <1>5, <1>7 DEF SameButAck
<1> QED BY <1>5, <1>7, <1>10, <1>12, <1>13, <1>14, <1>15, <1>16 DEF DaemonOK, a, v

\* A FIN that the client acknowledged lies one beyond the last byte.
LEMMA FinAckedFacts ==
  ASSUME NEW t \in Tcb, NEW iss \in Nat, NEW sent \in Nat, iss + sent + 2 < SeqMod,
         SendNumbers(t, iss, sent), t.state # "SYN_RECVD", FinAcked(t)
  PROVE  t.snd_nxt = t.outbuf.w_seq + 1
<1> DEFINE ws == t.outbuf.w_seq
           d == IntDiff(ws, t.snd_nxt)
<1>1. /\ t.snd_una \in uint /\ t.snd_nxt \in uint /\ ws \in uint /\ rb_used(t.outbuf) \in Nat
  BY TcbTypes
<1>2. t.snd_una \in Int /\ t.snd_nxt \in Int /\ ws \in Int
  BY <1>1, UintIsInt
<1>3. /\ t.snd_una <= t.snd_nxt /\ t.snd_nxt <= ws + 1 /\ ws - t.snd_una <= rb_used(t.outbuf)
      /\ rb_used(t.outbuf) <= BufSize
  BY <1>2 DEF SendNumbers, SendLimit
<1>4. d = ws - t.snd_nxt
  <2>1. 2 * (ws - t.snd_nxt) < SeqMod /\ 2 * (t.snd_nxt - ws) < SeqMod
    BY <1>1, <1>2, <1>3, SizeTypes
  <2> HIDE DEF ws
  <2> QED BY <1>1, <2>1, IntDiffFacts
<1>5. d = -1
  BY DEF FinAcked, rb_avail
<1> QED BY <1>2, <1>4, <1>5

\* The other changes of state that come with an acknowledgement of everything.
LEMMA SettledKeeps ==
  ASSUME NEW w, NEW iss \in Nat, NEW sent \in Nat, iss + sent + 2 < SeqMod, NEW again,
         DaemonOK(w, iss, sent, again), w.tcb # NULL, w.tcb.state # "SYN_RECVD",
         NEW p \in Packet
  PROVE  LET v == Settled(w, p)
         IN  /\ DaemonOK(v, iss, sent, again) /\ v.tcb # NULL /\ v.out = w.out
             /\ v.map = w.map /\ v.listed = w.listed
             /\ v = w \/ /\ w.tcb.state = "FIN_WAIT_1" /\ FinAcked(w.tcb)
                         /\ v.tcb = [w.tcb EXCEPT !.state = "FIN_WAIT_2"]
<1> DEFINE t == w.tcb
           u == [t EXCEPT !.state = "FIN_WAIT_2"]
           v == [w EXCEPT !.tcb = u]
<1>1. w \in World /\ t \in Tcb /\ Matched(w) /\ Watched(w) /\ ListedAs(w, NULL, again)
  BY DEF DaemonOK, World
<1>2. SendNumbers(t, iss, sent) /\ Holds(t.outbuf, sent) /\ RecvBuffer(t) /\ TimerOf(t)
  BY DEF DaemonOK, SessionOK
<1>3. CASE AllAcked(t, p) /\ t.state = "FIN_WAIT_1" /\ FinAcked(t)
  <2>1. Settled(w, p) = v
    BY <1>3 DEF Settled
  <2>2. t.snd_una = t.snd_nxt /\ t.snd_nxt = t.outbuf.w_seq + 1
    BY <1>1, <1>2, <1>3, FinAckedFacts DEF AllAcked
  <2>3. /\ u \in Tcb /\ u.e_tcb_send = t.e_tcb_send /\ u.e_timeout = t.e_timeout
        /\ u.state = "FIN_WAIT_2" /\ u.snd_una = t.snd_una /\ u.snd_nxt = t.snd_nxt
        /\ u.outbuf = t.outbuf /\ u.inbuf = t.inbuf /\ u.read_seq = t.read_seq
        /\ u.cb = t.cb /\ u.timeout_mark = t.timeout_mark
    BY <1>1 DEF Tcb, State
  <2> HIDE DEF u
  <2>4. /\ v \in World /\ v.tcb = u /\ v.map = w.map /\ v.out = w.out
        /\ v.listed = w.listed /\ v.tcb # NULL /\ ListedAs(v, NULL, again)
    BY <1>1, <2>3, TcbChange
  <2>5. SendNumbers(u, iss, sent)
    BY <1>2, <1>3, <2>2, <2>3 DEF SendNumbers, SendLimit, Ended
  <2>6. RecvBuffer(u) /\ TimerOf(u)
    <3>1. t.snd_una \in Int /\ t.snd_nxt \in Int
      BY <1>1, TcbTypes, UintIsInt
    <3> QED BY <1>2, <1>3, <2>2, <2>3, <3>1 DEF RecvBuffer, TimerOf
  <2>7. Matched(v) /\ Watched(v)
    BY <1>1, <1>3, <2>3, <2>4 DEF Matched, Watched
  <2>8. SessionOK(u, iss, sent)
    BY <1>2, <2>3, <2>5, <2>6 DEF SessionOK
  <2> HIDE DEF v
  <2> QED BY <1>3, <2>1, <2>4, <2>7, <2>8 DEF DaemonOK, u
<1>4. CASE ~(AllAcked(t, p) /\ t.state = "FIN_WAIT_1" /\ FinAcked(t))
  <2>1. Settled(w, p) = w
    BY <1>4 DEF Settled
  <2> QED BY <2>1
<1> QED BY <1>3, <1>4
-----------------------------------------------------------------------------
(* Windows and segments. *)

\* The fields of a tcb that the facts about a session speak of; e_tcb_send, the
\* windows and last_acked are not among them.
SameSession(t, u) ==
    /\ u.state = t.state /\ u.cb = t.cb /\ u.e_timeout = t.e_timeout
    /\ u.snd_una = t.snd_una /\ u.snd_nxt = t.snd_nxt /\ u.timeout_mark = t.timeout_mark
    /\ u.rcv_nxt = t.rcv_nxt /\ u.rcv_wnd = t.rcv_wnd /\ u.read_seq = t.read_seq
    /\ u.inbuf = t.inbuf /\ u.outbuf = t.outbuf

\* A change of the other fields keeps the session in order.
LEMMA SameSessionKeeps ==
  ASSUME NEW w, NEW iss, NEW sent, NEW again, DaemonOK(w, iss, sent, again), w.tcb # NULL,
         NEW t \in Tcb, SameSession(w.tcb, t), t.e_tcb_send = w.tcb.e_tcb_send
  PROVE  LET v == [w EXCEPT !.tcb = t]
         IN  /\ DaemonOK(v, iss, sent, again) /\ v.tcb = t /\ v.tcb # NULL
             /\ v.map = w.map /\ v.out = w.out /\ v.listed = w.listed
<1> DEFINE v == [w EXCEPT !.tcb = t]
<1>1. w \in World /\ Matched(w) /\ Watched(w) /\ ListedAs(w, NULL, again)
      /\ SessionOK(w.tcb, iss, sent)
  BY DEF DaemonOK
<1>2. /\ v \in World /\ v.tcb = t /\ v.map = w.map /\ v.out = w.out
      /\ v.listed = w.listed /\ v.tcb # NULL /\ ListedAs(v, NULL, again)
  BY <1>1, TcbChange DEF SameSession
<1> HIDE DEF v
<1>3. SessionOK(t, iss, sent)
  BY <1>1 DEF SessionOK, SendNumbers, SendLimit, RecvBuffer, TimerOf, SameSession
<1>4. Matched(v) /\ Watched(v)
  BY <1>1, <1>2 DEF Matched, Watched, SameSession
<1> QED BY <1>2, <1>3, <1>4 DEF DaemonOK, v

\* mark_for_if_write keeps the session in order.
LEMMA MarkKeeps ==
  ASSUME NEW w, NEW iss, NEW sent, NEW again, DaemonOK(w, iss, sent, again), w.tcb # NULL
  PROVE  LET v == mark_for_if_write(w)
         IN  /\ DaemonOK(v, iss, sent, again) /\ v.tcb # NULL /\ v.tcb \in Tcb
             /\ SameSession(w.tcb, v.tcb) /\ v.tcb.e_tcb_send = "do_tcb_write"
             /\ v.tcb = [w.tcb EXCEPT !.e_tcb_send = "do_tcb_write"]
             /\ v.map = w.map /\ v.out = w.out
             /\ \A e \in Event : e # "do_tcb_write" => v.listed[e] = w.listed[e]
<1> DEFINE v == mark_for_if_write(w)
<1>1. w \in World /\ Matched(w) /\ Watched(w) /\ ListedAs(w, NULL, again)
      /\ SessionOK(w.tcb, iss, sent)
  BY DEF DaemonOK
<1>2. /\ v \in World /\ v.map = w.map /\ v.out = w.out
      /\ v.tcb = [w.tcb EXCEPT !.e_tcb_send = "do_tcb_write"]
      /\ v.tcb \in Tcb
      /\ \A e \in Event : e # "do_tcb_write" => v.listed[e] = w.listed[e]
      /\ ListedAs(v, NULL, again)
  BY <1>1, MarkEffect
<1> HIDE DEF v
<1>3. SameSession(w.tcb, v.tcb) /\ v.tcb.e_tcb_send = "do_tcb_write" /\ v.tcb # NULL
  <2>1. w.tcb \in Tcb
    BY <1>1 DEF World
  <2> QED BY <1>2, <2>1, NullAssumption DEF SameSession, Tcb
<1>4. SessionOK(v.tcb, iss, sent)
  BY <1>1, <1>3 DEF SessionOK, SendNumbers, SendLimit, RecvBuffer, TimerOf, SameSession
<1>5. Matched(v) /\ Watched(v)
  BY <1>1, <1>2, <1>3 DEF Matched, Watched, SameSession
<1> QED BY <1>2, <1>3, <1>4, <1>5 DEF DaemonOK, v

\* window_update changes the congestion window and snd_max.
LEMMA WindowUpdate ==
  ASSUME NEW t \in Tcb
  PROVE  LET u == window_update(t)
         IN  /\ u \in Tcb /\ SameSession(t, u) /\ u.e_tcb_send = t.e_tcb_send
             /\ u.last_acked = t.last_acked /\ u.rcv_wnd = t.rcv_wnd
<1> DEFINE cwnd == MinInt(IF t.snd_cwnd = 0 THEN Mss ELSE t.snd_cwnd, t.snd_wnd)
           max == SeqAdd(t.snd_una, cwnd)
<1>1. t.snd_cwnd \in uint /\ t.snd_wnd \in uint /\ t.snd_una \in uint
  BY TcbTypes
<1>2. Mss \in uint
  BY TcpAssumption, SeqModAssumption DEF uint
<1>3. cwnd \in uint
  BY <1>1, <1>2 DEF MinInt
<1>4. max \in uint
  <2>1. t.snd_una \in Int /\ cwnd \in Int
    BY <1>1, <1>3, UintIsInt
  <2> HIDE DEF cwnd
  <2> QED BY <2>1, SeqAddFacts
<1>5. window_update(t) = [t EXCEPT !.snd_cwnd = cwnd, !.snd_max = max]
  BY DEF window_update
<1> HIDE DEF cwnd, max
<1> QED BY <1>3, <1>4, <1>5 DEF Tcb, SameSession

\* The window of a segment.
LEMMA NewWindowKeeps ==
  ASSUME NEW w, NEW iss, NEW sent, NEW again, DaemonOK(w, iss, sent, again), w.tcb # NULL,
         NEW p \in Packet
  PROVE  LET v == NewWindow(w, p)
         IN  /\ DaemonOK(v, iss, sent, again) /\ v.tcb # NULL /\ v.tcb \in Tcb
             /\ SameSession(w.tcb, v.tcb)
             /\ v.map = w.map /\ v.out = w.out
             /\ v.listed["handle_fd_can_write"] = w.listed["handle_fd_can_write"]
<1> DEFINE t == [w.tcb EXCEPT !.snd_wnd = p.wnd]
           u == window_update(t)
           a == [w EXCEPT !.tcb = u]
           v == NewWindow(w, p)
<1>1. w.tcb \in Tcb /\ p.wnd \in uint
  BY DEF DaemonOK, World, Packet
<1>2. t \in Tcb /\ SameSession(w.tcb, t) /\ t.e_tcb_send = w.tcb.e_tcb_send
  BY <1>1 DEF Tcb, SameSession
<1> HIDE DEF t
<1>3. u \in Tcb /\ SameSession(t, u) /\ u.e_tcb_send = t.e_tcb_send
  BY <1>2, WindowUpdate
<1>4. v = a \/ v = mark_for_if_write(a)
  BY DEF NewWindow, t
<1> HIDE DEF u, v
<1>5. SameSession(w.tcb, u)
  BY <1>2, <1>3 DEF SameSession
<1>6. /\ DaemonOK(a, iss, sent, again) /\ a.tcb = u /\ a.tcb # NULL
      /\ a.map = w.map /\ a.out = w.out /\ a.listed = w.listed
  BY <1>2, <1>3, <1>5, SameSessionKeeps
<1> HIDE DEF a
<1>7. CASE v = a
  BY <1>3, <1>5, <1>6, <1>7 DEF v
<1>8. CASE v = mark_for_if_write(a)
  <2>1. /\ DaemonOK(v, iss, sent, again) /\ v.tcb # NULL /\ v.tcb \in Tcb
        /\ SameSession(a.tcb, v.tcb) /\ v.map = a.map /\ v.out = a.out
        /\ \A e \in Event : e # "do_tcb_write" => v.listed[e] = a.listed[e]
    <3>1. a.tcb # NULL /\ DaemonOK(a, iss, sent, again)
      BY <1>6
    <3> QED BY <1>8, <3>1, MarkKeeps
  <2>2. SameSession(w.tcb, v.tcb)
    BY <1>5, <1>6, <2>1 DEF SameSession
  <2>3. "handle_fd_can_write" \in Event
    BY DEF Event, FdEvent, FdWrite
  <2> QED BY <1>6, <2>1, <2>2, <2>3 DEF v
<1> QED BY <1>4, <1>7, <1>8

\* TIME_WAIT begins when the FIN is acknowledged, and then no timer runs.
LEMMA TimeWaitKeeps ==
  ASSUME NEW w, NEW iss \in Nat, NEW sent \in Nat, NEW again, DaemonOK(w, iss, sent, again),
         w.tcb # NULL, w.tcb.state \in {"FIN_WAIT_2", "CLOSING"},
         w.tcb.snd_una = w.tcb.outbuf.w_seq + 1
  PROVE  LET v == TimeWait(w)
         IN  /\ DaemonOK(v, iss, sent, again) /\ v.tcb # NULL /\ v.tcb \in Tcb
             /\ v.tcb.state = "TIME_WAIT" /\ v.tcb.rcv_nxt = w.tcb.rcv_nxt
             /\ v.tcb.outbuf = w.tcb.outbuf
             /\ v.map = w.map /\ v.out = w.out
             /\ v.listed["handle_fd_can_write"] = w.listed["handle_fd_can_write"]
<1> DEFINE t == w.tcb
           u == [t EXCEPT !.state = "TIME_WAIT", !.e_timeout = "tcp_remove"]
           v == AddEvent([w EXCEPT !.tcb = u], u.e_timeout)
<1>1. w \in World /\ t \in Tcb /\ Matched(w) /\ Watched(w) /\ ListedAs(w, NULL, again)
  BY DEF DaemonOK, World
<1>2. SendNumbers(t, iss, sent) /\ Holds(t.outbuf, sent) /\ RecvBuffer(t) /\ TimerOf(t)
  BY DEF DaemonOK, SessionOK
<1>3. t.snd_una \in Int /\ t.snd_nxt \in Int /\ t.outbuf.w_seq \in Int
  BY <1>1, TcbTypes, UintIsInt
<1>4. t.e_timeout = NULL
  <2>1. t.e_timeout \in {NULL} \cup Timer
    BY <1>1, TcbTypes
  <2>2. ~(t.snd_una < t.snd_nxt)
    BY <1>2, <1>3 DEF SendNumbers, SendLimit, Ended
  <2> QED BY <1>2, <2>1, <2>2 DEF TimerOf, Timer
<1>5. /\ u \in Tcb /\ u.e_tcb_send = t.e_tcb_send /\ u.e_timeout = "tcp_remove"
      /\ u.state = "TIME_WAIT" /\ u.cb = t.cb /\ u.snd_una = t.snd_una /\ u.snd_nxt = t.snd_nxt
      /\ u.outbuf = t.outbuf /\ u.inbuf = t.inbuf /\ u.read_seq = t.read_seq
      /\ u.rcv_nxt = t.rcv_nxt
  BY <1>1 DEF Tcb, State, Timer
<1>6. TimeWait(w) = v
  <2>1. [w EXCEPT !.tcb.state = "TIME_WAIT", !.tcb.e_timeout = "tcp_remove"] = [w EXCEPT !.tcb = u]
    BY <1>1 DEF World, Tcb
  <2> HIDE DEF u
  <2> QED BY <1>5, <2>1 DEF TimeWait
<1> HIDE DEF u, v
<1>7. /\ v \in World /\ v.tcb = u /\ v.map = w.map /\ v.out = w.out /\ v.tcb # NULL
      /\ \A e \in Event : e \notin Timer => v.listed[e] = w.listed[e]
      /\ ListedAs(v, NULL, again)
  <2>1. u.e_timeout \in Timer
    BY <1>5 DEF Timer
  <2> QED BY <1>1, <1>4, <1>5, <2>1, StartTimer DEF v
<1>8. SessionOK(u, iss, sent)
  <2>1. SendNumbers(u, iss, sent)
    BY <1>2, <1>5 DEF SendNumbers, SendLimit, Ended
  <2>2. RecvBuffer(u) /\ TimerOf(u)
    BY <1>2, <1>5 DEF RecvBuffer, TimerOf, Sending
  <2> QED BY <1>2, <1>5, <2>1, <2>2 DEF SessionOK
<1>9. Matched(v) /\ Watched(v)
  BY <1>1, <1>5, <1>7 DEF Matched, Watched
<1>10. "handle_fd_can_write" \in Event /\ "handle_fd_can_write" \notin Timer
  BY DEF Event, FdEvent, FdWrite, Timer
<1> QED BY <1>5, <1>6, <1>7, <1>8, <1>9, <1>10 DEF DaemonOK
-----------------------------------------------------------------------------
(* The payload of a segment. *)

\* Signed differences and wrapped sums, without the remainder.
LEMMA IntDiffMeans ==
  ASSUME NEW a \in uint, NEW b \in uint, NEW d \in Int
  PROVE  IntDiff(a, b) = d <=>
           /\ a = b + d \/ a = b + d - SeqMod \/ a = b + d + SeqMod
           /\ 2 * d < SeqMod /\ -SeqMod <= 2 * d
<1> DEFINE u == (a - b) % SeqMod
<1>1. /\ a \in Int /\ b \in Int /\ 0 <= a /\ a < SeqMod /\ 0 <= b /\ b < SeqMod
      /\ SeqMod \in Nat /\ SeqMod > 1
  BY SeqModAssumption DEF uint
<1>2. u \in Int /\ u = IF a >= b THEN a - b ELSE a - b + SeqMod
  BY <1>1
<1>3. IntDiff(a, b) = IF 2 * u < SeqMod THEN u ELSE u - SeqMod
  BY DEF IntDiff
<1> HIDE DEF u
<1> QED BY <1>1, <1>2, <1>3

\* A sum wraps at most once.
LEMMA SeqAddMeans ==
  ASSUME NEW a \in uint, NEW n \in Int, -SeqMod <= n, n <= SeqMod
  PROVE  /\ SeqAdd(a, n) \in uint
         /\ SeqAdd(a, n) = a + n \/ SeqAdd(a, n) = a + n - SeqMod \/ SeqAdd(a, n) = a + n + SeqMod
<1>1. a \in Int /\ 0 <= a /\ a < SeqMod /\ SeqMod \in Nat /\ SeqMod > 1
  BY SeqModAssumption DEF uint
<1>2. SeqAdd(a, n) \in uint
  BY <1>1, SeqAddFacts
<1>3. CASE 0 <= a + n /\ a + n < SeqMod
  BY <1>1, <1>3, SeqAddFacts
<1>4. CASE a + n < 0
  <2>1. (a + n) % SeqMod = a + n + SeqMod
    BY <1>1, <1>4
  <2> QED BY <1>2, <2>1 DEF SeqAdd
<1>5. CASE a + n >= SeqMod
  <2>1. (a + n) % SeqMod = a + n - SeqMod
    BY <1>1, <1>5
  <2> QED BY <1>2, <2>1 DEF SeqAdd
<1> QED BY <1>1, <1>3, <1>4, <1>5

\* Bytes that are added lengthen the distance.
LEMMA IntDiffAdd ==
  ASSUME NEW a \in uint, NEW b \in uint, NEW d \in Int, IntDiff(a, b) = d, 0 <= d,
         NEW n \in Nat, 2 * (d + n) < SeqMod
  PROVE  IntDiff(SeqAdd(a, n), b) = d + n
<1>1. /\ a \in Int /\ b \in Int /\ 0 <= a /\ a < SeqMod /\ 0 <= b /\ b < SeqMod
      /\ SeqMod \in Nat /\ SeqMod > 1
  BY SeqModAssumption DEF uint
<1>2. a = b + d \/ a = b + d - SeqMod \/ a = b + d + SeqMod
  BY IntDiffMeans
<1> DEFINE s == SeqAdd(a, n)
<1>3. s \in uint /\ (s = a + n \/ s = a + n - SeqMod \/ s = a + n + SeqMod)
  BY <1>1, SeqAddMeans
<1> HIDE DEF s
<1>4. s \in Int /\ 0 <= s /\ s < SeqMod
  BY <1>1, <1>3, UintIsInt
<1>5. s = b + (d + n) \/ s = b + (d + n) - SeqMod \/ s = b + (d + n) + SeqMod
  BY <1>1, <1>2, <1>3, <1>4
<1>6. IntDiff(s, b) = d + n
  BY <1>1, <1>3, <1>5, IntDiffMeans
<1> QED BY <1>6 DEF s

\* A change of the tcb that keeps its pointers, its state and its buffers.
LEMMA TcbKeeps ==
  ASSUME NEW w, NEW iss, NEW sent, NEW again, DaemonOK(w, iss, sent, again), w.tcb # NULL,
         NEW t \in Tcb, SessionOK(t, iss, sent), t.state = w.tcb.state, t.cb = w.tcb.cb,
         t.outbuf = w.tcb.outbuf, t.inbuf = w.tcb.inbuf, t.e_tcb_send = w.tcb.e_tcb_send,
         t.e_timeout = w.tcb.e_timeout
  PROVE  LET v == [w EXCEPT !.tcb = t]
         IN  /\ DaemonOK(v, iss, sent, again) /\ v.tcb = t /\ v.tcb # NULL
             /\ v.map = w.map /\ v.out = w.out /\ v.listed = w.listed
<1> DEFINE v == [w EXCEPT !.tcb = t]
<1>1. w \in World /\ Matched(w) /\ Watched(w) /\ ListedAs(w, NULL, again)
  BY DEF DaemonOK
<1>2. /\ v \in World /\ v.tcb = t /\ v.map = w.map /\ v.out = w.out
      /\ v.listed = w.listed /\ v.tcb # NULL /\ ListedAs(v, NULL, again)
  BY <1>1, TcbChange
<1> HIDE DEF v
<1>3. Matched(v) /\ Watched(v)
  BY <1>1, <1>2 DEF Matched, Watched
<1> QED BY <1>2, <1>3 DEF DaemonOK, v

\* rcv_nxt moves on and an acknowledgement is due.
LEMMA AdvanceKeeps ==
  ASSUME NEW w, NEW iss, NEW sent, NEW again, DaemonOK(w, iss, sent, again), w.tcb # NULL,
         NEW n \in Nat
  PROVE  LET v == mark_for_if_write([w EXCEPT !.tcb.rcv_nxt = SeqAdd(@, n)])
         IN  /\ DaemonOK(v, iss, sent, again) /\ v.tcb # NULL /\ v.tcb \in Tcb
             /\ v.tcb.rcv_nxt = SeqAdd(w.tcb.rcv_nxt, n)
             /\ v.tcb.state = w.tcb.state /\ v.tcb.cb = w.tcb.cb
             /\ v.tcb.snd_una = w.tcb.snd_una /\ v.tcb.e_timeout = w.tcb.e_timeout
             /\ v.tcb.outbuf = w.tcb.outbuf /\ v.tcb.inbuf = w.tcb.inbuf
             /\ v.tcb.read_seq = w.tcb.read_seq
             /\ v.map = w.map /\ v.out = w.out
<1> DEFINE nxt == SeqAdd(w.tcb.rcv_nxt, n)
           t == [w.tcb EXCEPT !.rcv_nxt = nxt]
           a == [w EXCEPT !.tcb = t]
           v == mark_for_if_write(a)
<1>1. w.tcb \in Tcb /\ SessionOK(w.tcb, iss, sent)
  BY DEF DaemonOK, World
<1>2. nxt \in uint
  <2>1. w.tcb.rcv_nxt \in Int
    <3>1. w.tcb.rcv_nxt \in uint
      BY <1>1, TcbTypes
    <3> QED BY <3>1, UintIsInt
  <2>2. n \in Int
    OBVIOUS
  <2> QED BY <2>1, <2>2, SeqAddFacts
<1>3. [w EXCEPT !.tcb.rcv_nxt = SeqAdd(@, n)] = a
  OBVIOUS
<1> HIDE DEF nxt
<1>4. /\ t \in Tcb /\ t.state = w.tcb.state /\ t.cb = w.tcb.cb /\ t.outbuf = w.tcb.outbuf
      /\ t.e_tcb_send = w.tcb.e_tcb_send /\ t.e_timeout = w.tcb.e_timeout
      /\ t.snd_una = w.tcb.snd_una /\ t.snd_nxt = w.tcb.snd_nxt /\ t.inbuf = w.tcb.inbuf
      /\ t.read_seq = w.tcb.read_seq /\ t.timeout_mark = w.tcb.timeout_mark
      /\ t.rcv_nxt = nxt /\ t.rcv_wnd = w.tcb.rcv_wnd
  BY <1>1, <1>2 DEF Tcb
<1> HIDE DEF t
<1>5. SessionOK(t, iss, sent)
  BY <1>1, <1>4 DEF SessionOK, SendNumbers, SendLimit, RecvBuffer, TimerOf
<1>6. /\ DaemonOK(a, iss, sent, again) /\ a.tcb = t /\ a.tcb # NULL
      /\ a.map = w.map /\ a.out = w.out
  BY <1>4, <1>5, TcbKeeps
<1> HIDE DEF a
<1>7. /\ DaemonOK(v, iss, sent, again) /\ v.tcb # NULL /\ v.tcb \in Tcb
      /\ SameSession(a.tcb, v.tcb) /\ v.map = a.map /\ v.out = a.out
  BY <1>6, MarkKeeps
<1> HIDE DEF v
<1>8. /\ v.tcb.rcv_nxt = nxt /\ v.tcb.state = w.tcb.state /\ v.tcb.cb = w.tcb.cb
      /\ v.tcb.snd_una = w.tcb.snd_una /\ v.tcb.e_timeout = w.tcb.e_timeout
      /\ v.tcb.outbuf = w.tcb.outbuf /\ v.tcb.inbuf = w.tcb.inbuf
      /\ v.tcb.read_seq = w.tcb.read_seq
  BY <1>4, <1>6, <1>7 DEF SameSession
<1> QED BY <1>3, <1>6, <1>7, <1>8 DEF v, nxt

\* The bytes of a segment go to inbuf, as many as fit, and the socket is watched
\* for output.
LEMMA StoreKeeps ==
  ASSUME NEW w, NEW iss, NEW sent, NEW again, DaemonOK(w, iss, sent, again), w.tcb # NULL,
         w.tcb.state = "ESTABLISHED", NEW data \in Seq(Byte), Len(data) > 0
  PROVE  LET b == Written(w.tcb.inbuf, data, BufSize)
             u == [w EXCEPT !.tcb.inbuf = Written(@, data, BufSize), !.tcb.rcv_wnd = rb_left(b)]
             v == can_read(u)
         IN  /\ DaemonOK(v, iss, sent, again) /\ v.tcb # NULL /\ v.tcb \in Tcb
             /\ v.tcb = [w.tcb EXCEPT !.inbuf = b, !.rcv_wnd = rb_left(b)]
             /\ rb_used(b) <= rb_used(w.tcb.inbuf) + Len(data)
             /\ v.map # NULL /\ v.out = w.out
<1> DEFINE q == w.tcb.inbuf
           b == Written(q, data, BufSize)
           n == MinInt(Len(data), BufSize - rb_used(q))
           t == [w.tcb EXCEPT !.inbuf = b, !.rcv_wnd = rb_left(b)]
           u == [w EXCEPT !.tcb = t]
           v == can_read(u)
           m == [w.map EXCEPT !.e_fd_write = "handle_fd_can_write"]
<1>1. /\ w \in World /\ w.tcb \in Tcb /\ SessionOK(w.tcb, iss, sent)
      /\ Matched(w) /\ Watched(w) /\ ListedAs(w, NULL, again)
  BY DEF DaemonOK, World
<1>2. /\ q \in Queues(Byte) /\ q.w_seq \in uint /\ rb_used(q) \in Nat /\ w.tcb.read_seq \in uint
      /\ rb_used(q) <= BufSize /\ IntDiff(q.w_seq, w.tcb.read_seq) = rb_used(q)
  BY <1>1, TcbTypes DEF SessionOK, RecvBuffer
<1>3. /\ n \in Nat /\ n <= Len(data) /\ n <= BufSize - rb_used(q) /\ b \in Queues(Byte)
      /\ rb_used(b) = rb_used(q) + n /\ rb_used(b) <= BufSize /\ b.w_seq = SeqAdd(q.w_seq, n)
  BY <1>2, WrittenFacts
<1>4. rb_used(b) > 0
  <2>1. n = Len(data) \/ n = BufSize - rb_used(q)
    BY DEF MinInt
  <2>2. Len(data) \in Nat
    OBVIOUS
  <2> HIDE DEF n, b, q
  <2> QED BY <1>2, <1>3, <2>1, <2>2, SizeTypes
<1>5. rb_used(b) <= rb_used(q) + Len(data)
  <2>1. Len(data) \in Nat
    OBVIOUS
  <2> HIDE DEF n, b, q
  <2> QED BY <1>2, <1>3, <2>1
<1> HIDE DEF n, b, q
<1>6. rb_left(b) \in uint
  <2>1. rb_used(b) \in Nat
    BY <1>2, <1>3
  <2> QED BY <1>3, <2>1, SizeTypes DEF rb_left, uint
<1>7. IntDiff(b.w_seq, w.tcb.read_seq) = rb_used(b)
  <2>1. 2 * (rb_used(q) + n) < SeqMod /\ 0 <= rb_used(q) /\ rb_used(q) \in Int
    BY <1>2, <1>3, SizeTypes
  <2> QED BY <1>2, <1>3, <2>1, IntDiffAdd
<1>8. /\ t \in Tcb /\ t.state = w.tcb.state /\ t.cb = w.tcb.cb /\ t.outbuf = w.tcb.outbuf
      /\ t.e_tcb_send = w.tcb.e_tcb_send /\ t.e_timeout = w.tcb.e_timeout
      /\ t.snd_una = w.tcb.snd_una /\ t.snd_nxt = w.tcb.snd_nxt /\ t.inbuf = b
      /\ t.read_seq = w.tcb.read_seq /\ t.timeout_mark = w.tcb.timeout_mark
      /\ t.rcv_wnd = rb_left(b)
  BY <1>1, <1>3, <1>6 DEF Tcb
<1>9. [w EXCEPT !.tcb.inbuf = Written(@, data, BufSize), !.tcb.rcv_wnd = rb_left(b)] = u
  BY <1>1 DEF World, Tcb, b, q
<1>10. t = [w.tcb EXCEPT !.inbuf = b, !.rcv_wnd = rb_left(b)]
  OBVIOUS
<1> HIDE DEF t
<1>11. SessionOK(t, iss, sent)
  <2>1. RecvBuffer(t)
    BY <1>3, <1>7, <1>8 DEF RecvBuffer
  <2>2. SendNumbers(t, iss, sent) /\ TimerOf(t)
    BY <1>1, <1>8 DEF SessionOK, SendNumbers, SendLimit, TimerOf
  <2> QED BY <1>1, <1>8, <2>1, <2>2 DEF SessionOK
<1>12. /\ u \in World /\ u.tcb = t /\ u.map = w.map /\ u.out = w.out
       /\ u.tcb # NULL /\ ListedAs(u, NULL, again)
  BY <1>1, <1>8, TcbChange
<1> HIDE DEF u
<1>13. u.map # NULL /\ u.map \in TcpMap
  BY <1>1, <1>12 DEF Matched, World
<1>14. /\ v \in World /\ v.tcb = t /\ v.out = w.out /\ v.map # NULL
       /\ v.map.e_fd_write = "handle_fd_can_write" /\ v.map.e_fd_read = w.map.e_fd_read
       /\ ListedAs(v, NULL, again)
  <2>1. CASE u.map.e_fd_write = NULL
    <3>1. /\ m \in TcpMap /\ m.e_fd_write = "handle_fd_can_write" /\ m.e_fd_read = u.map.e_fd_read
          /\ "handle_fd_can_write" \in FdEvent
      BY <1>12, <1>13 DEF TcpMap, FdEvent, FdWrite
    <3>2. v = AddEvent([u EXCEPT !.map = m], "handle_fd_can_write")
      BY <1>12, <2>1 DEF can_read
    <3> HIDE DEF v, m
    <3>3. /\ v \in World /\ v.tcb = u.tcb /\ v.map = m /\ v.out = u.out /\ v.map # NULL
          /\ ListedAs(v, NULL, again)
      BY <1>12, <1>13, <2>1, <3>1, <3>2, StartMapEvent
    <3> QED BY <1>12, <3>1, <3>3
  <2>2. CASE u.map.e_fd_write # NULL
    <3>1. v = u
      BY <2>2 DEF can_read
    <3>2. u.map.e_fd_write = "handle_fd_can_write"
      BY <1>1, <1>12, <2>2 DEF Watched
    <3> HIDE DEF v
    <3> QED BY <1>12, <1>13, <3>1, <3>2
  <2> QED BY <2>1, <2>2
<1> HIDE DEF v
<1>15. v.tcb # NULL /\ v.tcb \in Tcb
  BY <1>8, <1>14, NullAssumption
<1>16. Matched(v)
  BY <1>1, <1>8, <1>14, <1>15 DEF Matched
<1>17. Watched(v)
  BY <1>1, <1>4, <1>8, <1>14, <1>15, TcpAssumption DEF Watched
<1>18. DaemonOK(v, iss, sent, again)
  BY <1>11, <1>14, <1>16, <1>17 DEF DaemonOK
<1> QED BY <1>5, <1>9, <1>10, <1>14, <1>15, <1>18 DEF v, b, q

\* rcv_nxt after the payload and the FIN of p.
RcvNxtAfter(t, p) ==
    LET r == IF Len(p.data) = 0 THEN t.rcv_nxt ELSE SeqAdd(t.rcv_nxt, Len(p.data))
    IN  IF "FIN" \in p.flags THEN SeqAdd(r, 1) ELSE r

\* The fields of the tcb that received data leaves alone.
SameButRecv(t, u) ==
    /\ u.state = t.state /\ u.cb = t.cb /\ u.snd_una = t.snd_una
    /\ u.e_timeout = t.e_timeout /\ u.outbuf = t.outbuf

\* tcp_recv_data stores or drops the payload and acknowledges it.
LEMMA RecvDataKeeps ==
  ASSUME NEW w, NEW iss, NEW sent, NEW again, DaemonOK(w, iss, sent, again), w.tcb # NULL,
         w.tcb.state # "SYN_RECVD", NEW p \in Packet
  PROVE  LET v == tcp_recv_data(w, p)
         IN  /\ DaemonOK(v, iss, sent, again) /\ v.tcb # NULL /\ v.tcb \in Tcb
             /\ SameButRecv(w.tcb, v.tcb) /\ v.tcb.rcv_nxt = RcvNxtAfter(w.tcb, p)
             /\ v.out = w.out /\ (v.map = NULL <=> w.map = NULL)
<1> DEFINE n == Len(p.data)
           v == mark_for_if_write([w EXCEPT !.tcb.rcv_nxt = SeqAdd(@, n)])
           b == Written(v.tcb.inbuf, p.data, BufSize)
           u == [v EXCEPT !.tcb.inbuf = Written(@, p.data, BufSize), !.tcb.rcv_wnd = rb_left(b)]
           d == IF n = 0 THEN w ELSE IF w.tcb.cb THEN can_read(u) ELSE v
           z == mark_for_if_write([d EXCEPT !.tcb.rcv_nxt = SeqAdd(@, 1)])
           r == IF n = 0 THEN w.tcb.rcv_nxt ELSE SeqAdd(w.tcb.rcv_nxt, n)
<1>1. p.data \in Seq(Byte) /\ n \in Nat
  BY DEF Packet
<1>2. w.tcb \in Tcb /\ (w.tcb.cb => w.tcb.state = "ESTABLISHED") /\ Matched(w)
  BY DEF DaemonOK, World, Matched
<1>3. tcp_recv_data(w, p) = IF "FIN" \in p.flags THEN z ELSE d
  BY DEF tcp_recv_data
<1> HIDE DEF n
<1>4. /\ DaemonOK(v, iss, sent, again) /\ v.tcb # NULL /\ v.tcb \in Tcb
      /\ v.tcb.rcv_nxt = SeqAdd(w.tcb.rcv_nxt, n)
      /\ SameButRecv(w.tcb, v.tcb)
      /\ v.map = w.map /\ v.out = w.out
  BY <1>1, AdvanceKeeps DEF SameButRecv
<1> HIDE DEF v
<1> DEFINE c == can_read(u)
<1>5. w.tcb.cb /\ n # 0 =>
        /\ DaemonOK(c, iss, sent, again) /\ c.tcb # NULL /\ c.tcb \in Tcb
        /\ c.tcb = [v.tcb EXCEPT !.inbuf = b, !.rcv_wnd = rb_left(b)]
        /\ c.map # NULL /\ c.out = v.out
  <2>1. n # 0 => n > 0
    BY <1>1
  <2>2. w.tcb.cb => v.tcb.state = "ESTABLISHED"
    BY <1>2, <1>4 DEF SameButRecv
  <2> SUFFICES ASSUME w.tcb.cb, n # 0
               PROVE  /\ DaemonOK(c, iss, sent, again) /\ c.tcb # NULL /\ c.tcb \in Tcb
                      /\ c.tcb = [v.tcb EXCEPT !.inbuf = b, !.rcv_wnd = rb_left(b)]
                      /\ c.map # NULL /\ c.out = v.out
    OBVIOUS
  <2>3. Len(p.data) > 0 /\ v.tcb.state = "ESTABLISHED"
    BY <2>1, <2>2 DEF n
  <2> QED BY <1>1, <1>4, <2>3, StoreKeeps
<1> HIDE DEF u, b
<1>6. w.tcb.cb /\ n # 0 => SameButRecv(w.tcb, c.tcb) /\ c.tcb.rcv_nxt = v.tcb.rcv_nxt
  <2> DEFINE y == rb_left(b)
  <2>1. SUFFICES ASSUME w.tcb.cb, n # 0
                 PROVE  SameButRecv(w.tcb, c.tcb) /\ c.tcb.rcv_nxt = v.tcb.rcv_nxt
    OBVIOUS
  <2>2. v.tcb \in Tcb /\ c.tcb = [v.tcb EXCEPT !.inbuf = b, !.rcv_wnd = y]
    BY <1>4, <1>5, <2>1
  <2> HIDE DEF c, y
  <2>3. SameButRecv(v.tcb, c.tcb) /\ c.tcb.rcv_nxt = v.tcb.rcv_nxt
    BY <2>2 DEF SameButRecv, Tcb
  <2> QED BY <1>4, <2>3 DEF SameButRecv
<1>8. /\ DaemonOK(d, iss, sent, again) /\ d.tcb # NULL /\ d.tcb \in Tcb
      /\ SameButRecv(w.tcb, d.tcb) /\ d.tcb.rcv_nxt = r
      /\ d.out = w.out /\ (d.map = NULL <=> w.map = NULL)
  <2>1. CASE n = 0
    BY <1>2, <2>1 DEF SameButRecv
  <2>2. CASE n # 0 /\ w.tcb.cb
    <3>1. w.map # NULL
      BY <1>2, <2>2 DEF Matched
    <3>2. d = c /\ r = SeqAdd(w.tcb.rcv_nxt, n)
      BY <2>2
    <3> HIDE DEF c, d, r
    <3> QED BY <1>4, <1>5, <1>6, <2>2, <3>1, <3>2
  <2>3. CASE n # 0 /\ ~w.tcb.cb
    <3>1. d = v /\ r = SeqAdd(w.tcb.rcv_nxt, n)
      BY <2>3
    <3> HIDE DEF d, r
    <3> QED BY <1>4, <3>1
  <2> QED BY <1>2, <2>1, <2>2, <2>3
<1>9. RcvNxtAfter(w.tcb, p) = IF "FIN" \in p.flags THEN SeqAdd(r, 1) ELSE r
  BY DEF RcvNxtAfter, n
<1> HIDE DEF d, r
<1>10. /\ DaemonOK(z, iss, sent, again) /\ z.tcb # NULL /\ z.tcb \in Tcb
       /\ z.tcb.rcv_nxt = SeqAdd(d.tcb.rcv_nxt, 1)
       /\ SameButRecv(d.tcb, z.tcb)
       /\ z.map = d.map /\ z.out = d.out
  <2>1. 1 \in Nat /\ DaemonOK(d, iss, sent, again) /\ d.tcb # NULL
    BY <1>8
  <2> QED BY <2>1, AdvanceKeeps DEF SameButRecv
<1> HIDE DEF z
<1>11. SameButRecv(w.tcb, z.tcb)
  BY <1>8, <1>10 DEF SameButRecv
<1>12. CASE "FIN" \in p.flags
  BY <1>3, <1>8, <1>9, <1>10, <1>11, <1>12
<1>13. CASE "FIN" \notin p.flags
  BY <1>3, <1>8, <1>9, <1>13
<1> QED BY <1>12, <1>13

\* The sum of sizes of sequence numbers below the wrap.
LEMMA RcvNxtSum ==
  ASSUME NEW t \in Tcb, NEW p \in Packet,
         t.rcv_nxt + Len(p.data) + (IF "FIN" \in p.flags THEN 1 ELSE 0) < SeqMod
  PROVE  RcvNxtAfter(t, p) = t.rcv_nxt + Len(p.data) + (IF "FIN" \in p.flags THEN 1 ELSE 0)
<1> DEFINE n == Len(p.data)
           f == IF "FIN" \in p.flags THEN 1 ELSE 0
           r == IF n = 0 THEN t.rcv_nxt ELSE SeqAdd(t.rcv_nxt, n)
<1>1. n \in Nat /\ f \in 0..1
  BY DEF Packet
<1>2. t.rcv_nxt \in Int /\ 0 <= t.rcv_nxt
  <2>1. t.rcv_nxt \in uint
    BY TcbTypes
  <2> QED BY <2>1, UintIsInt
<1>3. SeqMod \in Int
  BY SizeTypes
<1>4. RcvNxtAfter(t, p) = IF "FIN" \in p.flags THEN SeqAdd(r, 1) ELSE r
  BY DEF RcvNxtAfter
<1>5. t.rcv_nxt + n + f < SeqMod
  OBVIOUS
<1> HIDE DEF n
<1>6. r = t.rcv_nxt + n
  <2>1. t.rcv_nxt + n \in 0..(SeqMod - 1)
    BY <1>1, <1>2, <1>3, <1>5
  <2> QED BY <1>1, <1>2, <2>1, SeqAddFacts
<1> HIDE DEF r
<1>7. CASE "FIN" \in p.flags
  <2>0. f = 1 /\ r \in Int /\ 0 <= r
    BY <1>1, <1>2, <1>6, <1>7
  <2>1. r + 1 < SeqMod /\ 1 \in Int
    BY <1>1, <1>2, <1>3, <1>5, <1>6, <2>0
  <2>2. r + 1 \in 0..(SeqMod - 1)
    BY <1>3, <2>0, <2>1
  <2>3. SeqAdd(r, 1) = r + 1
    BY <2>0, <2>1, <2>2, SeqAddFacts
  <2> QED BY <1>4, <1>6, <1>7, <2>3 DEF n
<1>8. CASE "FIN" \notin p.flags
  BY <1>1, <1>2, <1>4, <1>6, <1>8 DEF n
<1> QED BY <1>7, <1>8
-----------------------------------------------------------------------------
(* The end of a session. *)

\* A session that is no longer established, with the numbers it had.
LEMMA EndedOK ==
  ASSUME NEW t \in Tcb, NEW u \in Tcb, NEW iss \in Nat, NEW sent \in Nat,
         SessionOK(t, iss, sent), t.state = "ESTABLISHED", u.state \in {"FIN_WAIT_1", "LAST_ACK"},
         u.e_timeout = t.e_timeout, u.timeout_mark = t.timeout_mark,
         u.snd_una = t.snd_una, u.snd_nxt = t.snd_nxt, u.outbuf = t.outbuf,
         u.inbuf = t.inbuf, u.read_seq = t.read_seq
  PROVE  SessionOK(u, iss, sent) /\ SendLimit(u) = SendLimit(t) + 1
<1>1. t.snd_nxt \in Int /\ t.snd_una \in Int /\ t.outbuf.w_seq \in Int /\ rb_used(t.outbuf) \in Nat
  <2>1. t.snd_nxt \in uint /\ t.snd_una \in uint /\ t.outbuf.w_seq \in uint
        /\ rb_used(t.outbuf) \in Nat
    BY TcbTypes
  <2> QED BY <2>1, UintIsInt
<1>2. SendNumbers(t, iss, sent) /\ RecvBuffer(t) /\ TimerOf(t)
  BY DEF SessionOK
<1>3. SendLimit(t) = t.outbuf.w_seq /\ SendLimit(u) = t.outbuf.w_seq + 1
  BY <1>1 DEF SendLimit, Ended
<1>4. SendNumbers(u, iss, sent)
  BY <1>1, <1>2, <1>3 DEF SendNumbers
<1>5. RecvBuffer(u) /\ TimerOf(u)
  BY <1>2 DEF RecvBuffer, TimerOf, Sending
<1> QED BY <1>3, <1>4, <1>5 DEF SessionOK

\* The callbacks of the socket give a session up: what is left of it is a tcb that
\* sends the rest and a FIN, or nothing.  x is the event whose callback runs, or NULL.
LEMMA GiveUpKeeps ==
  ASSUME NEW w, NEW iss \in Nat, NEW sent \in Nat, NEW x \in Event \cup {NULL}, NEW again,
         w \in World, w.tcb # NULL, w.map # NULL, ListedAs(w, x, again),
         SessionOK(w.tcb, iss, sent), w.tcb.state \in {"SYN_RECVD", "ESTABLISHED"}
  PROVE  LET v == RemoveEvent(kill_map(tcp_close(w)), x)
         IN  /\ DaemonOK(v, iss, sent, again) /\ v.map = NULL
             /\ v.listed["handle_fd_can_write"] <= w.listed["handle_fd_can_write"]
             /\ w.tcb.state = "SYN_RECVD" =>
                  /\ v.tcb = NULL
                  /\ \E p \in Packet : "RST" \in p.flags /\ v.out = Append(w.out, p)
             /\ w.tcb.state = "ESTABLISHED" =>
                  /\ v.tcb # NULL /\ v.tcb.state = "FIN_WAIT_1" /\ v.out = w.out
                  /\ SendLimit(v.tcb) = SendLimit(w.tcb) + 1 /\ v.tcb.rcv_nxt = w.tcb.rcv_nxt
<1> DEFINE a == tcp_close(w)
           b == kill_map(a)
           v == RemoveEvent(b, x)
           t == [w.tcb EXCEPT !.cb = FALSE, !.rcv_wnd = DrainWnd,
                   !.state = IF @ = "ESTABLISHED" THEN "FIN_WAIT_1" ELSE "LAST_ACK",
                   !.e_tcb_send = "do_tcb_write"]
<1>1. /\ a \in World /\ a.map = w.map /\ ListedAs(a, x, again)
      /\ a.listed["handle_fd_can_write"] = w.listed["handle_fd_can_write"]
      /\ w.tcb.state = "SYN_RECVD" =>
           /\ a.tcb = NULL
           /\ \E p \in Packet : "RST" \in p.flags /\ a.out = Append(w.out, p)
      /\ w.tcb.state # "SYN_RECVD" => a.out = w.out /\ a.tcb \in Tcb /\ a.tcb = t
  BY CloseEffect
<1> HIDE DEF a, t
<1>2. /\ b \in World /\ b.tcb = a.tcb /\ b.map = NULL /\ b.out = a.out
      /\ b.listed["handle_fd_can_write"] <= a.listed["handle_fd_can_write"]
      /\ ListedAs(b, x, again)
  BY <1>1, KillEffect
<1> HIDE DEF b
<1>3. /\ v \in World /\ v.tcb = b.tcb /\ v.map = b.map /\ v.out = b.out
      /\ v.listed["handle_fd_can_write"] <= b.listed["handle_fd_can_write"]
  <2>1. "handle_fd_can_write" \in Event /\ b.listed["handle_fd_can_write"] \in Nat
    BY <1>2 DEF World, Event, FdEvent, FdWrite
  <2>2. /\ v \in World /\ v.tcb = b.tcb /\ v.map = b.map /\ v.out = b.out
        /\ \A f \in Event : v.listed[f] = IF f = x /\ b.listed[f] > 0
                                          THEN b.listed[f] - 1 ELSE b.listed[f]
    BY <1>2, RemoveEffect
  <2> HIDE DEF v
  <2> QED BY <2>1, <2>2
<1>4. ListedAs(v, NULL, again)
  BY <1>2, RemoveListed
<1> HIDE DEF v
<1>5. v.listed["handle_fd_can_write"] <= w.listed["handle_fd_can_write"]
  <2>1. "handle_fd_can_write" \in Event
    BY DEF Event, FdEvent, FdWrite
  <2>2. /\ v.listed["handle_fd_can_write"] \in Nat /\ b.listed["handle_fd_can_write"] \in Nat
        /\ a.listed["handle_fd_can_write"] \in Nat
    BY <1>1, <1>2, <1>3, <2>1 DEF World
  <2> QED BY <1>1, <1>2, <1>3, <2>2
<1>6. CASE w.tcb.state = "SYN_RECVD"
  <2>1. v.tcb = NULL /\ v.map = NULL /\ v.out = a.out
    BY <1>1, <1>2, <1>3, <1>6
  <2>2. Matched(v) /\ Watched(v)
    BY <2>1 DEF Matched, Watched
  <2> QED BY <1>1, <1>3, <1>4, <1>5, <1>6, <2>1, <2>2 DEF DaemonOK, v, b, a
<1>7. CASE w.tcb.state = "ESTABLISHED"
  <2>1. v.tcb = t /\ t \in Tcb /\ v.map = NULL /\ v.out = w.out /\ t # NULL
    BY <1>1, <1>2, <1>3, <1>7, TcbTypes
  <2>2. w.tcb \in Tcb
    BY DEF World
  <2>3. /\ t.state = "FIN_WAIT_1" /\ t.cb = FALSE /\ t.e_timeout = w.tcb.e_timeout
        /\ t.timeout_mark = w.tcb.timeout_mark /\ t.snd_una = w.tcb.snd_una
        /\ t.snd_nxt = w.tcb.snd_nxt /\ t.outbuf = w.tcb.outbuf /\ t.inbuf = w.tcb.inbuf
        /\ t.read_seq = w.tcb.read_seq /\ t.rcv_nxt = w.tcb.rcv_nxt
    BY <1>7, <2>2 DEF t, Tcb
  <2>4. SessionOK(t, iss, sent) /\ SendLimit(t) = SendLimit(w.tcb) + 1
    BY <1>7, <2>1, <2>2, <2>3, EndedOK
  <2>5. Matched(v) /\ Watched(v)
    BY <2>1, <2>3 DEF Matched, Watched
  <2> QED BY <1>3, <1>4, <1>5, <1>7, <2>1, <2>3, <2>4, <2>5 DEF DaemonOK, v, b, a
<1> QED BY <1>6, <1>7

\* The client's FIN in ESTABLISHED: the map goes, the tcb sends the rest and a FIN.
LEMMA RemoteCloseKeeps ==
  ASSUME NEW w, NEW iss \in Nat, NEW sent \in Nat, NEW again,
         DaemonOK(w, iss, sent, again), w.tcb # NULL, w.tcb.state = "ESTABLISHED"
  PROVE  LET v == tcp_remote_close([w EXCEPT !.tcb.state = "CLOSE_WAIT"])
         IN  /\ DaemonOK(v, iss, sent, again) /\ v.tcb # NULL /\ v.tcb.state = "LAST_ACK"
             /\ v.out = w.out /\ v.map = NULL
             /\ SendLimit(v.tcb) = SendLimit(w.tcb) + 1 /\ v.tcb.rcv_nxt = w.tcb.rcv_nxt
<1> DEFINE t == [w.tcb EXCEPT !.state = "CLOSE_WAIT"]
           a == [w EXCEPT !.tcb = t]
           b == kill_map(a)
           v == tcp_close(b)
           u == [b.tcb EXCEPT !.cb = FALSE, !.rcv_wnd = DrainWnd,
                   !.state = IF @ = "ESTABLISHED" THEN "FIN_WAIT_1" ELSE "LAST_ACK",
                   !.e_tcb_send = "do_tcb_write"]
<1>1. w \in World /\ w.tcb \in Tcb /\ Matched(w) /\ ListedAs(w, NULL, again)
      /\ SessionOK(w.tcb, iss, sent)
  BY DEF DaemonOK, World
<1>2. /\ t \in Tcb /\ t.state = "CLOSE_WAIT" /\ t.cb = w.tcb.cb
      /\ t.e_tcb_send = w.tcb.e_tcb_send /\ t.e_timeout = w.tcb.e_timeout
      /\ t.timeout_mark = w.tcb.timeout_mark /\ t.snd_una = w.tcb.snd_una
      /\ t.snd_nxt = w.tcb.snd_nxt /\ t.outbuf = w.tcb.outbuf /\ t.inbuf = w.tcb.inbuf
      /\ t.read_seq = w.tcb.read_seq /\ t.rcv_nxt = w.tcb.rcv_nxt
  BY <1>1 DEF Tcb, State
<1>3. w.tcb.cb /\ w.map # NULL
  BY <1>1 DEF Matched
<1>4. tcp_remote_close([w EXCEPT !.tcb.state = "CLOSE_WAIT"]) = v
  <2>1. [w EXCEPT !.tcb.state = "CLOSE_WAIT"] = a
    OBVIOUS
  <2>2. a.tcb.cb
    BY <1>1, <1>2, <1>3 DEF World
  <2> HIDE DEF a
  <2> QED BY <2>1, <2>2 DEF tcp_remote_close
<1> HIDE DEF t
<1>5. /\ a \in World /\ a.tcb = t /\ a.map = w.map /\ a.out = w.out /\ a.tcb # NULL
      /\ ListedAs(a, NULL, again)
  BY <1>1, <1>2, TcbChange
<1> HIDE DEF a
<1>6. /\ b \in World /\ b.tcb = t /\ b.map = NULL /\ b.out = w.out /\ b.tcb # NULL
      /\ ListedAs(b, NULL, again)
  BY <1>3, <1>5, KillEffect
<1> HIDE DEF b
<1>7. b.tcb.state # "SYN_RECVD"
  BY <1>2, <1>6
<1>8. /\ v \in World /\ v.map = b.map /\ ListedAs(v, NULL, again)
      /\ v.out = b.out /\ v.tcb \in Tcb /\ v.tcb = u
  BY <1>6, <1>7, CloseEffect
<1> HIDE DEF v
<1>9. /\ u.state = "LAST_ACK" /\ u.cb = FALSE /\ u.e_timeout = w.tcb.e_timeout
      /\ u.timeout_mark = w.tcb.timeout_mark /\ u.snd_una = w.tcb.snd_una
      /\ u.snd_nxt = w.tcb.snd_nxt /\ u.outbuf = w.tcb.outbuf /\ u.inbuf = w.tcb.inbuf
      /\ u.read_seq = w.tcb.read_seq /\ u.rcv_nxt = w.tcb.rcv_nxt
  BY <1>2, <1>6 DEF Tcb
<1> HIDE DEF u
<1>10. SessionOK(v.tcb, iss, sent) /\ SendLimit(v.tcb) = SendLimit(w.tcb) + 1
  BY <1>1, <1>8, <1>9, EndedOK
<1>11. v.tcb # NULL /\ v.map = NULL /\ v.out = w.out
  BY <1>6, <1>8, TcbTypes
<1>12. Matched(v) /\ Watched(v)
  BY <1>8, <1>9, <1>11 DEF Matched, Watched
<1> QED BY <1>4, <1>8, <1>9, <1>10, <1>11, <1>12 DEF DaemonOK

\* The states a segment may lead to.
AfterFin(s, r) ==
    \/ r = s
    \/ s = "FIN_WAIT_2" /\ r = "TIME_WAIT"
    \/ s = "FIN_WAIT_1" /\ r = "CLOSING"
    \/ s = "ESTABLISHED" /\ r = "LAST_ACK"

\* The last switch of handle_tcp.
LEMMA ReceiveKeeps ==
  ASSUME NEW w, NEW iss \in Nat, NEW sent \in Nat, NEW again,
         DaemonOK(w, iss, sent, again), w.tcb # NULL, w.tcb.state # "SYN_RECVD",
         NEW p \in Packet
  PROVE  LET v == Receive(w, p)
         IN  /\ DaemonOK(v, iss, sent, again) /\ v.tcb # NULL /\ v.tcb.state # "SYN_RECVD"
             /\ v.out = w.out
             /\ SendLimit(v.tcb) >= SendLimit(w.tcb)
             /\ v.tcb.rcv_nxt \in {w.tcb.rcv_nxt, RcvNxtAfter(w.tcb, p)}
             /\ AfterFin(w.tcb.state, v.tcb.state)
<1> DEFINE t == w.tcb
           v == tcp_recv_data(w, p)
           fin == "FIN" \in p.flags
<1>1. /\ DaemonOK(v, iss, sent, again) /\ v.tcb # NULL /\ v.tcb \in Tcb
      /\ SameButRecv(t, v.tcb) /\ v.tcb.rcv_nxt = RcvNxtAfter(t, p)
      /\ v.out = w.out /\ (v.map = NULL <=> w.map = NULL)
  BY RecvDataKeeps
<1>2. /\ t \in Tcb /\ t.state \in State /\ SendNumbers(t, iss, sent) /\ t.state # "CLOSE_WAIT"
  BY TcbTypes DEF DaemonOK, SessionOK, World
<1>3. t.outbuf.w_seq \in Int
  <2>1. t.outbuf.w_seq \in uint
    BY <1>2, TcbTypes
  <2> QED BY <2>1, UintIsInt
<1>4. /\ v.tcb.state = t.state /\ v.tcb.outbuf = t.outbuf /\ v.tcb.snd_una = t.snd_una
      /\ SendLimit(v.tcb) = SendLimit(t) /\ SendLimit(t) \in Int
  BY <1>1, <1>3 DEF SameButRecv, SendLimit
<1>5. Receive(w, p) =
        CASE t.state = "FIN_WAIT_2"  -> IF fin THEN TimeWait(v) ELSE v
          [] t.state = "FIN_WAIT_1"  -> IF fin THEN [v EXCEPT !.tcb.state = "CLOSING"] ELSE v
          [] t.state = "ESTABLISHED" ->
               IF fin THEN tcp_remote_close([v EXCEPT !.tcb.state = "CLOSE_WAIT"]) ELSE v
          [] OTHER -> w
  BY DEF Receive
<1> HIDE DEF v, fin
<1>6. CASE t.state = "FIN_WAIT_2" /\ fin
  <2>1. Receive(w, p) = TimeWait(v)
    BY <1>5, <1>6
  <2>2. v.tcb.snd_una = v.tcb.outbuf.w_seq + 1
    BY <1>2, <1>4, <1>6 DEF SendNumbers
  <2> DEFINE u == TimeWait(v)
  <2>3. /\ DaemonOK(u, iss, sent, again) /\ u.tcb # NULL /\ u.tcb \in Tcb
        /\ u.tcb.state = "TIME_WAIT" /\ u.tcb.rcv_nxt = v.tcb.rcv_nxt
        /\ u.tcb.outbuf = v.tcb.outbuf /\ u.out = v.out
    BY <1>1, <1>4, <1>6, <2>2, TimeWaitKeeps
  <2> HIDE DEF u
  <2>4. SendLimit(u.tcb) = SendLimit(t)
    BY <1>4, <1>6, <2>3 DEF SendLimit, Ended
  <2> QED BY <1>1, <1>4, <1>6, <2>1, <2>3, <2>4 DEF u, AfterFin
<1>7. CASE t.state = "FIN_WAIT_1" /\ fin
  <2> DEFINE tc == [v.tcb EXCEPT !.state = "CLOSING"]
             u == [v EXCEPT !.tcb = tc]
  <2>1. Receive(w, p) = u
    BY <1>5, <1>7
  <2>2. /\ tc \in Tcb /\ tc.state = "CLOSING" /\ tc.cb = v.tcb.cb
        /\ tc.e_tcb_send = v.tcb.e_tcb_send /\ tc.e_timeout = v.tcb.e_timeout
        /\ tc.timeout_mark = v.tcb.timeout_mark /\ tc.snd_una = v.tcb.snd_una
        /\ tc.snd_nxt = v.tcb.snd_nxt /\ tc.outbuf = v.tcb.outbuf /\ tc.inbuf = v.tcb.inbuf
        /\ tc.read_seq = v.tcb.read_seq /\ tc.rcv_nxt = v.tcb.rcv_nxt
    BY <1>1 DEF Tcb, State
  <2>3. /\ v \in World /\ Matched(v) /\ ListedAs(v, NULL, again) /\ SendNumbers(v.tcb, iss, sent)
        /\ Holds(v.tcb.outbuf, sent) /\ RecvBuffer(v.tcb) /\ TimerOf(v.tcb)
    BY <1>1 DEF DaemonOK, SessionOK
  <2> HIDE DEF tc
  <2>4. /\ u \in World /\ u.tcb = tc /\ u.map = v.map /\ u.out = v.out /\ u.tcb # NULL
        /\ ListedAs(u, NULL, again)
    BY <1>1, <2>2, <2>3, TcbChange
  <2> HIDE DEF u
  <2>5. SendLimit(tc) = SendLimit(t)
    BY <1>4, <1>7, <2>2 DEF SendLimit, Ended
  <2>6. SessionOK(tc, iss, sent)
    <3>1. SendNumbers(tc, iss, sent)
      BY <1>4, <1>7, <2>2, <2>3, <2>5 DEF SendNumbers
    <3>2. RecvBuffer(tc) /\ TimerOf(tc)
      BY <1>4, <1>7, <2>2, <2>3 DEF RecvBuffer, TimerOf, Sending
    <3> QED BY <2>2, <2>3, <3>1, <3>2 DEF SessionOK
  <2>7. ~v.tcb.cb /\ v.map = NULL
    BY <1>1, <1>4, <1>7, <2>3 DEF Matched
  <2>8. ~u.tcb.cb /\ u.map = NULL /\ u.tcb.state = "CLOSING"
    BY <2>2, <2>4, <2>7
  <2>9. Matched(u) /\ Watched(u)
    BY <2>8 DEF Matched, Watched
  <2> QED BY <1>1, <1>4, <1>7, <2>1, <2>2, <2>4, <2>5, <2>6, <2>9 DEF DaemonOK, AfterFin
<1>8. CASE t.state = "ESTABLISHED" /\ fin
  <2> DEFINE u == tcp_remote_close([v EXCEPT !.tcb.state = "CLOSE_WAIT"])
  <2>1. Receive(w, p) = u
    BY <1>5, <1>8
  <2>2. /\ DaemonOK(u, iss, sent, again) /\ u.tcb # NULL /\ u.tcb.state = "LAST_ACK"
        /\ u.out = v.out
        /\ SendLimit(u.tcb) = SendLimit(v.tcb) + 1 /\ u.tcb.rcv_nxt = v.tcb.rcv_nxt
    BY <1>1, <1>4, <1>8, RemoteCloseKeeps
  <2> HIDE DEF u
  <2> QED BY <1>1, <1>4, <1>8, <2>1, <2>2 DEF AfterFin
<1>9. CASE t.state \in {"FIN_WAIT_1", "FIN_WAIT_2", "ESTABLISHED"} /\ ~fin
  <2>1. Receive(w, p) = v
    BY <1>5, <1>9
  <2> QED BY <1>1, <1>4, <1>9, <2>1 DEF AfterFin
<1>10. CASE t.state \notin {"FIN_WAIT_1", "FIN_WAIT_2", "ESTABLISHED"}
  <2>1. Receive(w, p) = w
    BY <1>5, <1>10
  <2> QED BY <1>4, <2>1 DEF AfterFin
<1> QED BY <1>6, <1>7, <1>8, <1>9, <1>10

\* tcp_send of bytes that fit in outbuf; what is watched may have to change then.
LEMMA SendKeeps ==
  ASSUME NEW w, NEW iss \in Nat, NEW sent \in Nat, NEW again, DaemonOK(w, iss, sent, again),
         w.tcb # NULL, w.tcb.state = "ESTABLISHED",
         NEW data \in Seq(Byte), Len(data) <= rb_left(w.tcb.outbuf),
         iss + sent + Len(data) + 2 < SeqMod, \A i \in 1..Len(data) : data[i] = sent + i
  PROVE  LET v == tcp_send(w, data)
         IN  /\ v \in World /\ v.tcb \in Tcb /\ v.map = w.map /\ v.out = w.out
             /\ ListedAs(v, NULL, again)
             /\ SessionOK(v.tcb, iss, sent + Len(data))
             /\ v.tcb.state = "ESTABLISHED" /\ v.tcb.cb = w.tcb.cb
             /\ v.tcb.rcv_nxt = w.tcb.rcv_nxt /\ v.tcb.inbuf = w.tcb.inbuf
             /\ rb_left(v.tcb.outbuf) \in Int /\ rb_left(v.tcb.outbuf) >= 0
             /\ SendLimit(v.tcb) >= SendLimit(w.tcb)
             /\ \A e \in Event : e # "do_tcb_write" => v.listed[e] = w.listed[e]
<1> DEFINE q == w.tcb.outbuf
           n == Len(data)
           b == Written(q, data, BufSize)
           t == [w.tcb EXCEPT !.outbuf = b]
           a == [w EXCEPT !.tcb = t]
           v == tcp_send(w, data)
<1>1. w \in World /\ w.tcb \in Tcb /\ SessionOK(w.tcb, iss, sent) /\ ListedAs(w, NULL, again)
  BY DEF DaemonOK, World
<1>2. /\ q \in Queues(Byte) /\ q.w_seq \in uint /\ rb_used(q) \in Nat /\ n \in Nat
      /\ rb_used(q) <= BufSize /\ q.w_seq = iss + 1 + sent
      /\ rb_used(q) = q.w_seq - w.tcb.snd_una
  BY <1>1, TcbTypes DEF SessionOK, SendNumbers
<1>3. MinInt(n, BufSize - rb_used(q)) = n
  <2>1. n <= BufSize - rb_used(q)
    BY DEF rb_left
  <2> QED BY <1>2, <2>1, SizeTypes DEF MinInt
<1>4. /\ b \in Queues(Byte) /\ rb_used(b) = rb_used(q) + n /\ rb_used(b) <= BufSize
      /\ b.w_seq = SeqAdd(q.w_seq, n)
  BY <1>2, <1>3, WrittenFacts
<1>0. Holds(b, sent + n)
  <2>1. Holds(q, sent)
    BY <1>1 DEF SessionOK
  <2>2. Len(data) <= BufSize - rb_used(q)
    BY DEF rb_left
  <2> HIDE DEF q
  <2> QED BY <1>2, <2>1, <2>2, HoldsWritten
<1> HIDE DEF b, q
<1>5. b.w_seq = iss + 1 + sent + n /\ b.w_seq = q.w_seq + n
  <2> HIDE DEF n
  <2>1. q.w_seq \in Int /\ n \in Int
    BY <1>2
  <2>2. q.w_seq + n \in 0..(SeqMod - 1)
    <3>1. iss + sent + n + 2 < SeqMod
      BY DEF n
    <3> QED BY <1>2, <3>1, SizeTypes
  <2> QED BY <1>2, <1>4, <2>1, <2>2, SeqAddFacts
<1>6. /\ t \in Tcb /\ t.state = w.tcb.state /\ t.cb = w.tcb.cb /\ t.outbuf = b
      /\ t.e_tcb_send = w.tcb.e_tcb_send /\ t.e_timeout = w.tcb.e_timeout
      /\ t.snd_una = w.tcb.snd_una /\ t.snd_nxt = w.tcb.snd_nxt /\ t.inbuf = w.tcb.inbuf
      /\ t.read_seq = w.tcb.read_seq /\ t.timeout_mark = w.tcb.timeout_mark
      /\ t.rcv_nxt = w.tcb.rcv_nxt /\ t.rcv_wnd = w.tcb.rcv_wnd
  BY <1>1, <1>4 DEF Tcb
<1>7. v = a \/ v = mark_for_if_write(a)
  BY DEF tcp_send, b, q
<1> HIDE DEF v, t, n
<1>8. /\ a \in World /\ a.tcb = t /\ a.map = w.map /\ a.out = w.out /\ a.listed = w.listed
      /\ a.tcb # NULL /\ ListedAs(a, NULL, again)
  BY <1>1, <1>6, TcbChange
<1> HIDE DEF a
<1>9. SendLimit(t) = SendLimit(w.tcb) + n /\ SendLimit(w.tcb) \in Int
  <2>1. SendLimit(t) = b.w_seq /\ SendLimit(w.tcb) = q.w_seq
    BY <1>2, <1>4, <1>5, <1>6 DEF SendLimit, Ended, q
  <2> QED BY <1>2, <1>5, <2>1
<1>10. SessionOK(t, iss, sent + n)
  <2>1. SendNumbers(w.tcb, iss, sent) /\ RecvBuffer(w.tcb) /\ TimerOf(w.tcb)
    BY <1>1 DEF SessionOK
  <2>2. w.tcb.snd_una \in Int /\ w.tcb.snd_nxt \in Int
    <3>1. w.tcb.snd_una \in uint /\ w.tcb.snd_nxt \in uint
      BY <1>1, TcbTypes
    <3> QED BY <3>1, UintIsInt
  <2>3. w.tcb.snd_una <= w.tcb.snd_nxt /\ w.tcb.snd_nxt <= SendLimit(w.tcb) /\ iss + 1 <= w.tcb.snd_una
    BY <2>1 DEF SendNumbers
  <2>4. w.tcb.snd_nxt <= SendLimit(t) /\ rb_used(b) = b.w_seq - w.tcb.snd_una
    BY <1>2, <1>4, <1>5, <1>9, <2>2, <2>3
  <2>5. SendNumbers(t, iss, sent + n)
    BY <1>2, <1>4, <1>5, <1>6, <2>2, <2>3, <2>4 DEF SendNumbers
  <2>6. RecvBuffer(t)
    BY <1>6, <2>1 DEF RecvBuffer
  <2>7. t.snd_una < t.snd_nxt => w.tcb.snd_una < w.tcb.outbuf.w_seq
    <3>1. SendLimit(w.tcb) = w.tcb.outbuf.w_seq
      BY <1>2 DEF SendLimit, Ended, q
    <3>2. w.tcb.outbuf.w_seq \in Int
      BY <1>2, UintIsInt DEF q
    <3> QED BY <1>6, <2>2, <2>3, <3>1, <3>2
  <2>8. TimerOf(t)
    BY <1>6, <2>1, <2>7 DEF TimerOf
  <2> QED BY <1>0, <1>6, <2>5, <2>6, <2>8 DEF SessionOK
<1>11. rb_left(b) \in Int /\ rb_left(b) >= 0
  BY <1>2, <1>4, SizeTypes DEF rb_left
<1>12. SendLimit(t) >= SendLimit(w.tcb)
  BY <1>2, <1>9
<1>13. CASE v = a
  BY <1>6, <1>8, <1>10, <1>11, <1>12, <1>13 DEF v, n
<1>14. CASE v = mark_for_if_write(a)
  <2>1. /\ v \in World /\ v.map = a.map /\ v.out = a.out
        /\ v.tcb = [a.tcb EXCEPT !.e_tcb_send = "do_tcb_write"]
        /\ v.tcb \in Tcb /\ \A e \in Event : e # "do_tcb_write" => v.listed[e] = a.listed[e]
        /\ ListedAs(v, NULL, again)
    BY <1>8, <1>14, MarkEffect
  <2>2. /\ SameSession(t, v.tcb)
    BY <1>6, <1>8, <2>1 DEF SameSession, Tcb
  <2>3. SessionOK(v.tcb, iss, sent + n) /\ SendLimit(v.tcb) = SendLimit(t)
    BY <1>10, <2>2 DEF SessionOK, SendNumbers, SendLimit, RecvBuffer, TimerOf, SameSession
  <2> QED BY <1>6, <1>8, <1>11, <1>12, <2>1, <2>2, <2>3 DEF v, n, SameSession
<1> QED BY <1>7, <1>13, <1>14

\* tcp_read returns everything in inbuf, and empties it.
LEMMA ReadableFacts ==
  ASSUME NEW t \in Tcb, RecvBuffer(t)
  PROVE  LET s == SeqAdd(t.read_seq, Len(Readable(t)))
         IN  /\ Readable(t) = t.inbuf.kept /\ Readable(t) \in Seq(Byte)
             /\ Len(Readable(t)) = rb_used(t.inbuf)
             /\ s = t.inbuf.w_seq /\ s \in uint
             /\ Advanced(t.inbuf, s) = Empty(s)
<1> DEFINE q == t.inbuf
           d == rb_used(q)
           r == [i \in 1..d |-> q.kept[i]]
<1>1. /\ q \in Queues(Byte) /\ q.w_seq \in uint /\ d \in Nat /\ t.read_seq \in uint
      /\ d <= BufSize /\ IntDiff(q.w_seq, t.read_seq) = d
  BY TcbTypes DEF RecvBuffer
<1>2. q.kept \in Seq(Byte) /\ d = Len(q.kept)
  BY <1>1 DEF Queues, rb_used
<1>3. rb_avail(q, t.read_seq) = d
  BY <1>1 DEF rb_avail
<1>4. (IF d \in 1..d THEN MinInt(d, d) ELSE 0) = d
  BY <1>1 DEF MinInt
<1>5. Readable(t) = [i \in 1..d |-> q.kept[d - d + i]]
  BY <1>1, <1>3, <1>4 DEF Readable, Peek
<1>6. \A i \in 1..d : d - d + i = i
  BY <1>1
<1>7. Readable(t) = r
  BY <1>5, <1>6
<1>8. r = q.kept
  BY <1>2
<1> HIDE DEF r, d
<1>9. Readable(t) \in Seq(Byte) /\ Len(Readable(t)) = d
  BY <1>2, <1>7, <1>8
<1>10. SeqAdd(t.read_seq, d) = q.w_seq
  <2>1. d \in Int
    BY <1>1
  <2>2. q.w_seq = t.read_seq + d \/ q.w_seq = t.read_seq + d - SeqMod \/ q.w_seq = t.read_seq + d + SeqMod
    BY <1>1, <2>1, IntDiffMeans
  <2>3. -SeqMod <= d /\ d <= SeqMod
    BY <1>1, <2>1, SizeTypes
  <2>4. /\ SeqAdd(t.read_seq, d) \in uint
        /\ \/ SeqAdd(t.read_seq, d) = t.read_seq + d
           \/ SeqAdd(t.read_seq, d) = t.read_seq + d - SeqMod
           \/ SeqAdd(t.read_seq, d) = t.read_seq + d + SeqMod
    BY <1>1, <2>1, <2>3, SeqAddMeans
  <2>5. /\ q.w_seq \in Int /\ t.read_seq \in Int /\ SeqAdd(t.read_seq, d) \in Int
        /\ 0 <= q.w_seq /\ q.w_seq < SeqMod
        /\ 0 <= SeqAdd(t.read_seq, d) /\ SeqAdd(t.read_seq, d) < SeqMod
    BY <1>1, <2>4, UintIsInt
  <2> QED BY <2>1, <2>2, <2>4, <2>5, SizeTypes
<1>11. Advanced(q, q.w_seq) = Empty(q.w_seq)
  <2>1. IntDiff(q.w_seq, q.w_seq) = 0
    <3>1. q.w_seq \in Int
      BY <1>1, UintIsInt
    <3> QED BY <1>1, <3>1, IntDiffFacts, SizeTypes
  <2> QED BY <2>1 DEF Advanced
<1> QED BY <1>1, <1>7, <1>8, <1>9, <1>10, <1>11 DEF d

\* The fields of the tcb that reading from inbuf leaves alone.
SameButRead(t, u) ==
    /\ u.state = t.state /\ u.cb = t.cb /\ u.e_timeout = t.e_timeout
    /\ u.snd_una = t.snd_una /\ u.snd_nxt = t.snd_nxt /\ u.timeout_mark = t.timeout_mark
    /\ u.rcv_nxt = t.rcv_nxt /\ u.outbuf = t.outbuf

\* tcp_read keeps the session in order and empties inbuf; the socket need not be
\* watched for output then.
LEMMA ReadKeeps ==
  ASSUME NEW w, NEW iss, NEW sent, NEW again, DaemonOK(w, iss, sent, again), w.tcb # NULL
  PROVE  LET v == tcp_read(w)
         IN  /\ v \in World /\ v.tcb # NULL /\ v.tcb \in Tcb /\ ListedAs(v, NULL, again)
             /\ SessionOK(v.tcb, iss, sent) /\ rb_used(v.tcb.inbuf) = 0
             /\ SameButRead(w.tcb, v.tcb)
             /\ v.map = w.map /\ v.out = w.out
             /\ \A e \in Event : e # "do_tcb_write" => v.listed[e] = w.listed[e]
<1> DEFINE s == SeqAdd(w.tcb.read_seq, Len(Readable(w.tcb)))
           b == Advanced(w.tcb.inbuf, s)
           t == [w.tcb EXCEPT !.read_seq = s, !.inbuf = b, !.rcv_wnd = rb_left(b)]
           last == SeqAdd(t.last_acked, -1)
           u == [t EXCEPT !.last_acked = last]
           a == [w EXCEPT !.tcb = t]
           c == [w EXCEPT !.tcb = u]
           v == tcp_read(w)
<1>1. w.tcb \in Tcb /\ SessionOK(w.tcb, iss, sent) /\ w \in World /\ ListedAs(w, NULL, again)
  BY DEF DaemonOK, World
<1>2. b = Empty(s) /\ s \in uint
  BY <1>1, ReadableFacts DEF SessionOK
<1>3. v = a \/ v = mark_for_if_write(c)
  <2>1. [w EXCEPT !.tcb.read_seq = s, !.tcb.inbuf = Advanced(@, s), !.tcb.rcv_wnd = rb_left(b)] = a
    BY <1>1 DEF World, Tcb
  <2>2. [a EXCEPT !.tcb.last_acked = SeqAdd(@, -1)] = c
    BY <1>1 DEF World, Tcb
  <2> QED BY <2>1, <2>2 DEF tcp_read
<1> HIDE DEF s, v
<1>4. b \in Queues(Byte) /\ rb_used(b) = 0 /\ b.w_seq = s
  BY <1>2 DEF Empty, Queues, rb_used
<1> HIDE DEF b
<1>5. rb_left(b) \in uint
  BY <1>4, SizeTypes DEF rb_left, uint
<1>6. IntDiff(b.w_seq, s) = rb_used(b) /\ rb_used(b) <= BufSize
  <2>1. s \in Int /\ 0 \in Int
    BY <1>2, UintIsInt
  <2> QED BY <1>2, <1>4, <2>1, IntDiffMeans, SizeTypes
<1>7. /\ t \in Tcb /\ t.e_tcb_send = w.tcb.e_tcb_send /\ SameButRead(w.tcb, t)
      /\ t.inbuf = b /\ t.read_seq = s /\ t.rcv_wnd = rb_left(b)
  BY <1>1, <1>2, <1>4, <1>5 DEF Tcb, SameButRead
<1> HIDE DEF t
<1>8. last \in uint
  <2>1. t.last_acked \in uint
    BY <1>7, TcbTypes
  <2>2. t.last_acked \in Int
    BY <2>1, UintIsInt
  <2>3. -1 \in Int
    OBVIOUS
  <2> QED BY <2>2, <2>3, SeqAddFacts
<1> HIDE DEF last
<1>9. /\ u \in Tcb /\ u.e_tcb_send = t.e_tcb_send /\ SameButRead(t, u)
      /\ u.inbuf = b /\ u.read_seq = s /\ u.rcv_wnd = t.rcv_wnd
  BY <1>7, <1>8 DEF Tcb, SameButRead
<1> HIDE DEF u
<1>10. SameButRead(w.tcb, u)
  BY <1>7, <1>9 DEF SameButRead
<1>11. ASSUME NEW x \in {t, u} PROVE SessionOK(x, iss, sent)
  <2>1. SameButRead(w.tcb, x) /\ x.inbuf = b /\ x.read_seq = s /\ x.rcv_wnd = rb_left(b)
    BY <1>7, <1>9, <1>10
  <2>2. RecvBuffer(x)
    BY <1>6, <2>1 DEF RecvBuffer
  <2>3. SendNumbers(x, iss, sent) /\ TimerOf(x)
    BY <1>1, <2>1 DEF SessionOK, SendNumbers, SendLimit, TimerOf, SameButRead
  <2> QED BY <1>1, <2>1, <2>2, <2>3 DEF SessionOK, SameButRead
<1>12. /\ a \in World /\ a.tcb = t /\ a.map = w.map /\ a.out = w.out
       /\ a.listed = w.listed /\ a.tcb # NULL /\ ListedAs(a, NULL, again)
  BY <1>1, <1>7, TcbChange DEF SameButRead
<1>13. /\ c \in World /\ c.tcb = u /\ c.map = w.map /\ c.out = w.out
       /\ c.listed = w.listed /\ c.tcb # NULL /\ ListedAs(c, NULL, again)
  BY <1>1, <1>7, <1>9, <1>10, TcbChange DEF SameButRead
<1> HIDE DEF a, c
<1>14. CASE v = a
  BY <1>4, <1>7, <1>11, <1>12, <1>14 DEF v
<1>15. CASE v = mark_for_if_write(c)
  <2>1. /\ v \in World /\ v.map = c.map /\ v.out = c.out
        /\ v.tcb = [c.tcb EXCEPT !.e_tcb_send = "do_tcb_write"]
        /\ v.tcb \in Tcb
        /\ \A e \in Event : e # "do_tcb_write" => v.listed[e] = c.listed[e]
        /\ ListedAs(v, NULL, again)
    BY <1>13, <1>15, MarkEffect
  <2>2. SameSession(u, v.tcb) /\ v.tcb # NULL
    BY <1>9, <1>13, <2>1, NullAssumption DEF SameSession, Tcb
  <2>3. SessionOK(v.tcb, iss, sent)
    BY <1>11, <2>2 DEF SessionOK, SendNumbers, SendLimit, RecvBuffer, TimerOf, SameSession
  <2>4. SameButRead(w.tcb, v.tcb) /\ rb_used(v.tcb.inbuf) = 0
    BY <1>4, <1>9, <1>10, <2>2 DEF SameButRead, SameSession
  <2> QED BY <1>13, <2>1, <2>2, <2>3, <2>4 DEF v
<1> QED BY <1>3, <1>14, <1>15
-----------------------------------------------------------------------------
(* Sending. *)

\* What rb_read returns: bytes, no more than were asked for.
LEMMA PeekFacts ==
  ASSUME NEW q \in Queues(Byte), NEW s \in uint, NEW max \in Nat
  PROVE  LET back == IntDiff(q.w_seq, s)
             r == Peek(q, s, max)
         IN  /\ r \in Seq(Byte) /\ Len(r) \in Nat /\ Len(r) <= max
             /\ back \in 1..rb_used(q) => Len(r) = MinInt(back, max)
             /\ back \notin 1..rb_used(q) => Len(r) = 0
             /\ \A i \in 1..Len(r) : r[i] = q.kept[rb_used(q) - back + i]
<1> DEFINE back == IntDiff(q.w_seq, s)
           m == IF back \in 1..rb_used(q) THEN MinInt(back, max) ELSE 0
           k == [i \in 1..m |-> q.kept[rb_used(q) - back + i]]
<1>1. /\ q.kept \in Seq(Byte) /\ q.w_seq \in uint /\ rb_used(q) \in Nat /\ back \in Int
      /\ rb_used(q) = Len(q.kept)
  BY IntDiffFacts DEF Queues, rb_used
<1>2. Peek(q, s, max) = k
  BY DEF Peek
<1> HIDE DEF back
<1>3. m \in Nat /\ m <= max /\ (m > 0 => back \in 1..rb_used(q) /\ m <= back)
  BY <1>1 DEF MinInt
<1>4. \A i \in 1..m : q.kept[rb_used(q) - back + i] \in Byte
  <2> HIDE DEF m
  <2> SUFFICES ASSUME NEW i \in 1..m PROVE q.kept[rb_used(q) - back + i] \in Byte
    OBVIOUS
  <2>1. rb_used(q) - back + i \in 1..Len(q.kept)
    BY <1>1, <1>3
  <2> QED BY <1>1, <2>1
<1>5. k \in [1..m -> Byte]
  BY <1>4
<1>6. \A i \in 1..m : k[i] = q.kept[rb_used(q) - back + i]
  OBVIOUS
<1>7. (back \in 1..rb_used(q) => m = MinInt(back, max)) /\ (back \notin 1..rb_used(q) => m = 0)
  OBVIOUS
<1> HIDE DEF m, k
<1>8. k \in Seq(Byte) /\ Len(k) = m
  BY <1>3, <1>5, FunctionIsSeq
<1> QED BY <1>2, <1>3, <1>6, <1>7, <1>8 DEF back

\* The length of a segment is that of the bytes it carries.
LEMMA SegFacts ==
  ASSUME NEW t \in Tcb
  PROVE  LET n == SegLen(t)
             back == IntDiff(t.outbuf.w_seq, t.snd_nxt)
             data == Peek(t.outbuf, t.snd_nxt, n)
         IN  /\ n \in Nat /\ n <= Mss /\ back \in Int
             /\ n > 0 => back \in 1..rb_used(t.outbuf) /\ n <= back
             /\ data \in Seq(Byte) /\ Len(data) = n
<1> DEFINE q == t.outbuf
           back == IntDiff(q.w_seq, t.snd_nxt)
           wnd == window_size(t)
           len == rb_avail(q, t.snd_nxt)
           max == MinInt(MinInt(len, Mss), wnd)
           n == SegLen(t)
<1>1. /\ q \in Queues(Byte) /\ q.w_seq \in uint /\ rb_used(q) \in Nat /\ t.snd_nxt \in uint
      /\ t.snd_max \in uint
  BY TcbTypes
<1>2. back \in Int /\ wnd \in Int
  BY <1>1, IntDiffFacts DEF window_size
<1>3. len \in Int
  BY <1>2 DEF rb_avail
<1>4. n = IF wnd > 0 /\ len > 0 THEN Len(Peek(q, t.snd_nxt, max)) ELSE 0
  BY DEF SegLen
<1> HIDE DEF n, len, wnd
<1>5. CASE wnd > 0 /\ len > 0
  <2>1. max \in Nat /\ max <= Mss
    BY <1>2, <1>3, <1>5, SizeTypes DEF MinInt
  <2> HIDE DEF max
  <2>2. /\ n \in Nat /\ n <= max
        /\ back \in 1..rb_used(q) => n = MinInt(back, max)
        /\ back \notin 1..rb_used(q) => n = 0
    BY <1>1, <1>4, <1>5, <2>1, PeekFacts
  <2> HIDE DEF back
  <2>3. n <= Mss /\ (n > 0 => back \in 1..rb_used(q) /\ n <= back)
    BY <1>1, <1>2, <2>1, <2>2, SizeTypes DEF MinInt
  <2>4. back \in 1..rb_used(q) => MinInt(back, n) = n
    BY <1>1, <1>2, <2>1, <2>2 DEF MinInt
  <2>5. Peek(q, t.snd_nxt, n) \in Seq(Byte) /\ Len(Peek(q, t.snd_nxt, n)) = n
    BY <1>1, <2>2, <2>4, PeekFacts DEF back
  <2> QED BY <1>2, <2>2, <2>3, <2>5 DEF n, back
<1>6. CASE ~(wnd > 0 /\ len > 0)
  <2>1. n = 0
    BY <1>4, <1>6
  <2>2. Peek(q, t.snd_nxt, n) \in Seq(Byte) /\ Len(Peek(q, t.snd_nxt, n)) = 0
    <3>1. /\ Peek(q, t.snd_nxt, n) \in Seq(Byte)
          /\ Len(Peek(q, t.snd_nxt, n)) \in Nat /\ Len(Peek(q, t.snd_nxt, n)) <= n
      BY <1>1, <2>1, PeekFacts
    <3> QED BY <2>1, <3>1
  <2> QED BY <1>2, <2>1, <2>2, SizeTypes DEF n
<1> QED BY <1>5, <1>6

\* make_tcp_hdr and send_pkt: the packet, and what it acknowledges.
LEMMA EmitEffect ==
  ASSUME NEW w \in World, w.tcb # NULL, NEW flags \in SUBSET Flag, NEW data \in Seq(Byte),
         NEW x, NEW again, ListedAs(w, x, again)
  PROVE  LET v == Emit(w, flags, data)
             p == [flags |-> flags, seq |-> w.tcb.snd_nxt, ack |-> w.tcb.rcv_nxt,
                   wnd |-> w.tcb.rcv_wnd, data |-> data]
         IN  /\ v \in World /\ v.map = w.map /\ v.listed = w.listed
             /\ v.tcb = [w.tcb EXCEPT !.last_acked = w.tcb.rcv_nxt] /\ v.tcb \in Tcb
             /\ v.out = Append(w.out, p) /\ p \in Packet
             /\ ListedAs(v, x, again)
<1> DEFINE p == [flags |-> flags, seq |-> w.tcb.snd_nxt, ack |-> w.tcb.rcv_nxt,
                 wnd |-> w.tcb.rcv_wnd, data |-> data]
           t == [w.tcb EXCEPT !.last_acked = w.tcb.rcv_nxt]
           a == [w EXCEPT !.tcb = t]
           v == Emit(w, flags, data)
<1>1. w.tcb \in Tcb /\ w.tcb.snd_nxt \in uint /\ w.tcb.rcv_nxt \in uint /\ w.tcb.rcv_wnd \in uint
  <2>1. w.tcb \in Tcb
    BY DEF World
  <2> QED BY <2>1, TcbTypes
<1>2. p \in Packet
  BY <1>1 DEF Packet
<1>3. t \in Tcb /\ t.e_tcb_send = w.tcb.e_tcb_send /\ t.e_timeout = w.tcb.e_timeout
  BY <1>1 DEF Tcb
<1>4. /\ a \in World /\ a.tcb = t /\ a.map = w.map /\ a.out = w.out /\ a.listed = w.listed
      /\ ListedAs(a, x, again)
  BY <1>3, TcbChange
<1>5. v = [a EXCEPT !.out = Append(a.out, p)]
  BY <1>4 DEF Emit, World
<1> HIDE DEF p, v, a
<1>6. /\ v \in World /\ v.tcb = a.tcb /\ v.map = a.map /\ v.listed = a.listed
      /\ v.out = Append(a.out, p) /\ ListedAs(v, x, again)
  BY <1>2, <1>4, <1>5, OutChange
<1> QED BY <1>2, <1>3, <1>4, <1>6 DEF p, v

\* Where the next segment lies in the daemon's stream.
LEMMA SegPlace ==
  ASSUME NEW t \in Tcb, NEW iss \in Nat, NEW sent \in Nat, iss + sent + 2 < SeqMod,
         SessionOK(t, iss, sent), t.state # "SYN_RECVD"
  PROVE  LET n == SegLen(t)
             f == IF SegFin(t) THEN 1 ELSE 0
         IN  /\ n \in Nat
             /\ t.snd_nxt >= iss + 1
             /\ t.snd_nxt + n + f <= SendLimit(t)
             /\ SeqAdd(t.snd_nxt, n + f) = t.snd_nxt + n + f
             /\ n > 0 => t.state \in {"ESTABLISHED"} \cup Sending
             /\ SegFin(t) => t.snd_nxt + n = t.outbuf.w_seq
<1> DEFINE n == SegLen(t)
           f == IF SegFin(t) THEN 1 ELSE 0
           s == t.outbuf.w_seq
           back == IntDiff(s, t.snd_nxt)
<1>1. SendNumbers(t, iss, sent) /\ t.state \in State /\ t.state # "CLOSE_WAIT"
  BY TcbTypes DEF SessionOK
<1>2. t.snd_una \in uint /\ t.snd_nxt \in uint /\ s \in uint /\ rb_used(t.outbuf) \in Nat
  BY TcbTypes
<1>3. t.snd_una \in Int /\ t.snd_nxt \in Int /\ s \in Int
  BY <1>2, UintIsInt
<1>4. /\ s = iss + 1 + sent /\ t.snd_una <= t.snd_nxt /\ t.snd_nxt <= SendLimit(t)
      /\ rb_used(t.outbuf) <= BufSize /\ iss + 1 <= t.snd_una /\ s - t.snd_una <= rb_used(t.outbuf)
      /\ t.state \in {"FIN_WAIT_2", "TIME_WAIT"} => t.snd_una = s + 1
  BY <1>1 DEF SendNumbers
<1>5. SendLimit(t) \in {s, s + 1} /\ (t.state \in Sending => SendLimit(t) = s + 1)
  BY <1>3 DEF SendLimit, Sending, Ended
<1>6. n \in Nat /\ back \in Int /\ (n > 0 => back \in 1..rb_used(t.outbuf) /\ n <= back)
  BY SegFacts
<1> HIDE DEF s
<1>7. back = s - t.snd_nxt
  <2>1. 2 * (s - t.snd_nxt) < SeqMod /\ 2 * (t.snd_nxt - s) < SeqMod
    <3>1. SendLimit(t) <= s + 1 /\ SendLimit(t) \in Int
      BY <1>3, <1>5
    <3> QED BY <1>2, <1>3, <1>4, <3>1, SizeTypes
  <2> QED BY <1>2, <2>1, IntDiffFacts
<1> HIDE DEF n, back
<1>8. n > 0 => t.snd_nxt + n <= s
  BY <1>2, <1>3, <1>6, <1>7
<1>9. n > 0 => t.state \in {"ESTABLISHED"} \cup Sending
  <2>1. n > 0 => t.snd_una # s + 1
    BY <1>3, <1>4, <1>6, <1>8
  <2> QED BY <1>1, <1>4, <2>1 DEF State, Sending
<1>10. t.snd_nxt + n <= SendLimit(t)
  BY <1>3, <1>4, <1>5, <1>6, <1>8
<1>11. SegFin(t) => t.snd_nxt + n + 1 <= SendLimit(t) /\ t.snd_nxt + n = s
  <2> SUFFICES ASSUME SegFin(t) PROVE t.snd_nxt + n + 1 <= SendLimit(t) /\ t.snd_nxt + n = s
    OBVIOUS
  <2>1. t.state \in Sending /\ rb_avail(t.outbuf, SeqAdd(t.snd_nxt, n)) = 0
    BY DEF SegFin, n
  <2>2. SendLimit(t) = s + 1
    BY <1>5, <2>1
  <2>3. t.snd_nxt + n \in 0..(SeqMod - 1) /\ n \in Int
    BY <1>3, <1>4, <1>6, <1>10, <2>2, SizeTypes
  <2>4. SeqAdd(t.snd_nxt, n) = t.snd_nxt + n
    BY <1>3, <2>3, SeqAddFacts
  <2> DEFINE z == t.snd_nxt + n
  <2>5. z \in uint /\ z \in Int
    BY <1>3, <2>3 DEF uint
  <2>6. IntDiff(s, z) = s - z
    <3>1. 2 * (s - z) < SeqMod /\ 2 * (z - s) < SeqMod
      BY <1>2, <1>3, <1>4, <1>6, <1>10, <2>2, SizeTypes
    <3> HIDE DEF z
    <3> QED BY <1>2, <2>5, <3>1, IntDiffFacts
  <2>7. rb_avail(t.outbuf, z) = 0
    BY <2>1, <2>4
  <2>8. s - z <= rb_used(t.outbuf)
    BY <1>2, <1>3, <1>4, <1>6
  <2>9. s - z = 0
    <3> HIDE DEF z
    <3>1. rb_avail(t.outbuf, z) = IF IntDiff(s, z) > rb_used(t.outbuf) THEN 0 ELSE IntDiff(s, z)
      BY DEF rb_avail, s
    <3> QED BY <1>2, <1>3, <2>5, <2>6, <2>7, <2>8, <3>1
  <2> QED BY <1>3, <1>6, <2>2, <2>9
<1>12. t.snd_nxt + n + f <= SendLimit(t) /\ f \in {0, 1}
  BY <1>3, <1>5, <1>6, <1>10, <1>11
<1> HIDE DEF f
<1>13. SeqAdd(t.snd_nxt, n + f) = t.snd_nxt + n + f
  <2>1. n + f \in Int /\ t.snd_nxt + (n + f) \in 0..(SeqMod - 1)
    BY <1>3, <1>4, <1>5, <1>6, <1>12, SizeTypes
  <2>2. SeqAdd(t.snd_nxt, n + f) = t.snd_nxt + (n + f)
    BY <1>3, <2>1, SeqAddFacts
  <2> QED BY <1>3, <1>6, <1>12, <2>2
<1>14. t.snd_nxt >= iss + 1
  BY <1>3, <1>4
<1> QED BY <1>6, <1>9, <1>11, <1>12, <1>13, <1>14 DEF n, f, s

\* tcp_send_syn: the daemon's SYN takes the number before the first byte.
LEMMA SendSynKeeps ==
  ASSUME NEW w, NEW iss \in Nat, NEW sent \in Nat, iss + sent + 2 < SeqMod, NEW again,
         DaemonOK(w, iss, sent, again), w.tcb # NULL, w.tcb.state = "SYN_RECVD",
         w.tcb.snd_nxt = iss
  PROVE  LET v == tcp_send_syn(w)
         IN  /\ DaemonOK(v, iss, sent, again) /\ v.tcb # NULL /\ v.tcb \in Tcb
             /\ v.tcb.state = "SYN_RECVD" /\ v.tcb.snd_nxt = iss + 1
             /\ v.tcb.rcv_nxt = w.tcb.rcv_nxt /\ v.tcb.outbuf = w.tcb.outbuf
             /\ v.tcb.e_tcb_send = w.tcb.e_tcb_send
             /\ v.map = w.map /\ v.listed = w.listed
             /\ \E p \in Packet : /\ v.out = Append(w.out, p) /\ p.flags = {"SYN", "ACK"}
                                  /\ p.seq = iss /\ p.ack = w.tcb.rcv_nxt /\ p.data = <<>>
<1> DEFINE p == [flags |-> {"SYN", "ACK"}, seq |-> w.tcb.snd_nxt, ack |-> w.tcb.rcv_nxt,
                 wnd |-> w.tcb.rcv_wnd, data |-> <<>>]
           a == Emit(w, {"SYN", "ACK"}, <<>>)
           nxt == SeqAdd(a.tcb.snd_nxt, 1)
           t == [a.tcb EXCEPT !.snd_nxt = nxt]
           v == [a EXCEPT !.tcb = t]
<1>1. w \in World /\ w.tcb \in Tcb /\ SessionOK(w.tcb, iss, sent) /\ ListedAs(w, NULL, again)
      /\ Matched(w) /\ Watched(w)
  BY DEF DaemonOK, World
<1>2. {"SYN", "ACK"} \in SUBSET Flag /\ <<>> \in Seq(Byte)
  BY DEF Flag
<1>3. /\ a \in World /\ a.map = w.map /\ a.listed = w.listed
      /\ a.tcb = [w.tcb EXCEPT !.last_acked = w.tcb.rcv_nxt] /\ a.tcb \in Tcb
      /\ a.out = Append(w.out, p) /\ p \in Packet
      /\ ListedAs(a, NULL, again)
  BY <1>1, <1>2, EmitEffect
<1>4. /\ p.flags = {"SYN", "ACK"} /\ p.seq = iss /\ p.ack = w.tcb.rcv_nxt /\ p.data = <<>>
  OBVIOUS
<1>5. tcp_send_syn(w) = v
  BY DEF tcp_send_syn
<1> HIDE DEF p, a
<1>6. /\ SameSession(w.tcb, a.tcb) /\ a.tcb.e_tcb_send = w.tcb.e_tcb_send /\ a.tcb # NULL
  BY <1>1, <1>3, TcbTypes DEF SameSession, Tcb
<1>7. nxt = iss + 1 /\ nxt \in uint
  <2>1. a.tcb.snd_nxt = iss
    BY <1>6 DEF SameSession
  <2>2. iss \in Int /\ iss + 1 \in 0..(SeqMod - 1) /\ 1 \in Int
    BY SizeTypes
  <2>3. SeqAdd(iss, 1) = iss + 1 /\ SeqAdd(iss, 1) \in uint
    BY <2>2, SeqAddFacts
  <2> QED BY <2>1, <2>3
<1> HIDE DEF nxt
<1>8. /\ t \in Tcb /\ t.state = w.tcb.state /\ t.cb = w.tcb.cb /\ t.outbuf = w.tcb.outbuf
      /\ t.e_tcb_send = w.tcb.e_tcb_send /\ t.e_timeout = w.tcb.e_timeout
      /\ t.snd_una = w.tcb.snd_una /\ t.snd_nxt = nxt /\ t.inbuf = w.tcb.inbuf
      /\ t.read_seq = w.tcb.read_seq /\ t.rcv_nxt = w.tcb.rcv_nxt /\ t.rcv_wnd = w.tcb.rcv_wnd
  BY <1>3, <1>6, <1>7 DEF Tcb, SameSession
<1> HIDE DEF t
<1>9. SessionOK(t, iss, sent)
  <2>1. SendNumbers(w.tcb, iss, sent) /\ Holds(w.tcb.outbuf, sent) /\ RecvBuffer(w.tcb) /\ TimerOf(w.tcb)
    BY <1>1 DEF SessionOK
  <2>2. w.tcb.outbuf.w_seq = iss + 1 /\ w.tcb.snd_una = iss /\ sent = 0
    BY <2>1 DEF SendNumbers
  <2>3. SendLimit(t) = iss + 1
    BY <1>8, <2>2 DEF SendLimit, Ended
  <2>4. SendNumbers(t, iss, sent)
    BY <1>7, <1>8, <2>1, <2>2, <2>3 DEF SendNumbers
  <2>5. RecvBuffer(t) /\ TimerOf(t)
    BY <1>8, <2>1 DEF RecvBuffer, TimerOf, Sending
  <2> QED BY <1>8, <2>1, <2>4, <2>5 DEF SessionOK
<1>10. /\ v \in World /\ v.tcb = t /\ v.map = a.map /\ v.out = a.out
       /\ v.listed = a.listed /\ v.tcb # NULL /\ ListedAs(v, NULL, again)
  <2>1. t.e_tcb_send = a.tcb.e_tcb_send /\ t.e_timeout = a.tcb.e_timeout
    BY <1>6, <1>8 DEF SameSession
  <2> QED BY <1>3, <1>6, <1>8, <2>1, TcbChange
<1> HIDE DEF v
<1>11. Matched(v) /\ Watched(v)
  BY <1>1, <1>3, <1>8, <1>10 DEF Matched, Watched
<1>12. DaemonOK(v, iss, sent, again)
  BY <1>9, <1>10, <1>11 DEF DaemonOK
<1>13. /\ v.tcb \in Tcb /\ v.tcb.state = "SYN_RECVD" /\ v.tcb.snd_nxt = iss + 1
       /\ v.tcb.rcv_nxt = w.tcb.rcv_nxt /\ v.tcb.outbuf = w.tcb.outbuf
       /\ v.tcb.e_tcb_send = w.tcb.e_tcb_send
       /\ v.map = w.map /\ v.listed = w.listed /\ v.out = Append(w.out, p)
  BY <1>3, <1>7, <1>8, <1>10
<1>14. \E q \in Packet : /\ v.out = Append(w.out, q) /\ q.flags = {"SYN", "ACK"}
                         /\ q.seq = iss /\ q.ack = w.tcb.rcv_nxt /\ q.data = <<>>
  BY <1>3, <1>4, <1>13
<1> QED BY <1>5, <1>10, <1>12, <1>13, <1>14

\* set_timeout starts the retransmission timer.
LEMMA SetTimeoutEffect ==
  ASSUME NEW w \in World, w.tcb # NULL, w.tcb.e_timeout = NULL,
         NEW x, NEW again, ListedAs(w, x, again)
  PROVE  LET v == set_timeout(w)
         IN  /\ v \in World /\ v.map = w.map /\ v.out = w.out /\ v.tcb # NULL
             /\ v.tcb = [w.tcb EXCEPT !.e_timeout = "tcp_timeout", !.timeout_mark = w.tcb.snd_nxt]
             /\ v.tcb \in Tcb
             /\ \A e \in Event : e \notin Timer => v.listed[e] = w.listed[e]
             /\ ListedAs(v, x, again)
<1> DEFINE t == [w.tcb EXCEPT !.e_timeout = "tcp_timeout", !.timeout_mark = w.tcb.snd_nxt]
           v == AddEvent([w EXCEPT !.tcb = t], "tcp_timeout")
<1>1. w.tcb \in Tcb
  BY DEF World
<1>2. t \in Tcb /\ t.e_tcb_send = w.tcb.e_tcb_send /\ t.e_timeout = "tcp_timeout"
  BY <1>1 DEF Tcb, Timer
<1>3. set_timeout(w) = v
  BY <1>1 DEF set_timeout, World, Tcb
<1> HIDE DEF t
<1>4. /\ v \in World /\ v.tcb = t /\ v.map = w.map /\ v.out = w.out /\ v.tcb # NULL
      /\ \A e \in Event : e \notin Timer => v.listed[e] = w.listed[e]
      /\ ListedAs(v, x, again)
  <2>1. t.e_timeout \in Timer
    BY <1>2 DEF Timer
  <2>2. v = AddEvent([w EXCEPT !.tcb = t], t.e_timeout)
    BY <1>2
  <2> HIDE DEF v
  <2> QED BY <1>2, <2>1, <2>2, StartTimer
<1> HIDE DEF v
<1> QED BY <1>2, <1>3, <1>4 DEF t

\* The fields of the tcb that sending leaves alone.
SameButSent(t, u) ==
    /\ u.state = t.state /\ u.cb = t.cb /\ u.e_tcb_send = t.e_tcb_send
    /\ u.snd_una = t.snd_una /\ u.rcv_nxt = t.rcv_nxt /\ u.rcv_wnd = t.rcv_wnd
    /\ u.read_seq = t.read_seq
    /\ u.inbuf = t.inbuf /\ u.outbuf = t.outbuf

\* tcp_send_and_ack sends nothing, or a segment that lies within the stream; a
\* segment with data is covered by the timer.
LEMMA SendAckKeeps ==
  ASSUME NEW w, NEW iss \in Nat, NEW sent \in Nat, iss + sent + 2 < SeqMod, NEW again,
         DaemonOK(w, iss, sent, again), w.tcb # NULL, w.tcb.state # "SYN_RECVD"
  PROVE  LET v == tcp_send_and_ack(w)
         IN  /\ DaemonOK(v, iss, sent, again) /\ v.tcb # NULL /\ v.tcb \in Tcb
             /\ SameButSent(w.tcb, v.tcb) /\ v.map = w.map
             /\ \A e \in Event : e \notin Timer => v.listed[e] = w.listed[e]
             /\ \/ v = w
                \/ \E p \in Packet :
                     /\ v.out = Append(w.out, p)
                     /\ p.flags \in {{"ACK"}, {"ACK", "FIN"}} /\ p.ack = w.tcb.rcv_nxt
                     /\ p.seq >= iss + 1
                     /\ p.seq + Len(p.data) + (IF "FIN" \in p.flags THEN 1 ELSE 0)
                          <= SendLimit(w.tcb)
<1> DEFINE t == w.tcb
           n == SegLen(t)
           data == Peek(t.outbuf, t.snd_nxt, n)
           f == IF SegFin(t) THEN 1 ELSE 0
           flags == IF SegFin(t) THEN {"ACK", "FIN"} ELSE {"ACK"}
           a == IF t.e_timeout = NULL /\ n > 0 THEN set_timeout(w) ELSE w
           b == Emit(a, flags, data)
           p == [flags |-> flags, seq |-> a.tcb.snd_nxt, ack |-> a.tcb.rcv_nxt,
                 wnd |-> a.tcb.rcv_wnd, data |-> data]
           nxt == SeqAdd(b.tcb.snd_nxt, n + f)
           u == [b.tcb EXCEPT !.snd_nxt = nxt]
           v == [b EXCEPT !.tcb = u]
<1>1. w \in World /\ t \in Tcb /\ SessionOK(t, iss, sent) /\ ListedAs(w, NULL, again)
      /\ Matched(w) /\ Watched(w)
  BY DEF DaemonOK, World
<1>2. CASE NothingToSend(t)
  <2>1. tcp_send_and_ack(w) = w
    BY <1>2 DEF tcp_send_and_ack
  <2> QED BY <1>1, <2>1 DEF SameButSent
<1>3. CASE ~NothingToSend(t)
  <2>1. tcp_send_and_ack(w) = v
    BY <1>3 DEF tcp_send_and_ack
  <2>2. /\ n \in Nat /\ t.snd_nxt >= iss + 1 /\ t.snd_nxt + n + f <= SendLimit(t)
        /\ SeqAdd(t.snd_nxt, n + f) = t.snd_nxt + n + f
        /\ n > 0 => t.state \in {"ESTABLISHED"} \cup Sending
        /\ f = 1 => t.snd_nxt + n = t.outbuf.w_seq
    BY <1>1, SegPlace
  <2>3. data \in Seq(Byte) /\ Len(data) = n
    BY <1>1, SegFacts
  <2>4. /\ flags \in SUBSET Flag /\ flags \in {{"ACK"}, {"ACK", "FIN"}}
        /\ (IF "FIN" \in flags THEN 1 ELSE 0) = f /\ f \in {0, 1}
    BY DEF Flag
  <2> HIDE DEF n, data, f, flags
  <2>5. /\ a \in World /\ a.map = w.map /\ a.out = w.out /\ a.tcb # NULL /\ a.tcb \in Tcb
        /\ SameButSent(t, a.tcb) /\ a.tcb.snd_nxt = t.snd_nxt
        /\ IF t.e_timeout = NULL /\ n > 0
             THEN a.tcb.e_timeout = "tcp_timeout" /\ a.tcb.timeout_mark = t.snd_nxt
             ELSE a.tcb.e_timeout = t.e_timeout /\ a.tcb.timeout_mark = t.timeout_mark
        /\ \A e \in Event : e \notin Timer => a.listed[e] = w.listed[e]
        /\ ListedAs(a, NULL, again)
    <3>1. CASE t.e_timeout = NULL /\ n > 0
      <4>1. a = set_timeout(w)
        BY <3>1
      <4>2. /\ a \in World /\ a.map = w.map /\ a.out = w.out /\ a.tcb # NULL
            /\ a.tcb = [t EXCEPT !.e_timeout = "tcp_timeout", !.timeout_mark = t.snd_nxt]
            /\ a.tcb \in Tcb
            /\ \A e \in Event : e \notin Timer => a.listed[e] = w.listed[e]
            /\ ListedAs(a, NULL, again)
        BY <1>1, <3>1, <4>1, SetTimeoutEffect
      <4> HIDE DEF a
      <4>3. /\ SameButSent(t, a.tcb) /\ a.tcb.snd_nxt = t.snd_nxt
            /\ a.tcb.e_timeout = "tcp_timeout" /\ a.tcb.timeout_mark = t.snd_nxt
        BY <1>1, <4>2 DEF SameButSent, Tcb
      <4> QED BY <3>1, <4>2, <4>3
    <3>2. CASE ~(t.e_timeout = NULL /\ n > 0)
      <4>1. a = w
        BY <3>2
      <4> QED BY <1>1, <3>2, <4>1 DEF SameButSent
    <3> QED BY <3>1, <3>2
  <2>6. /\ p.flags = flags /\ p.seq = a.tcb.snd_nxt /\ p.ack = a.tcb.rcv_nxt /\ p.data = data
    OBVIOUS
  <2> HIDE DEF a
  <2>7. /\ b \in World /\ b.map = a.map /\ b.listed = a.listed
        /\ b.tcb = [a.tcb EXCEPT !.last_acked = a.tcb.rcv_nxt] /\ b.tcb \in Tcb
        /\ b.out = Append(a.out, p) /\ p \in Packet
        /\ ListedAs(b, NULL, again)
    BY <2>3, <2>4, <2>5, EmitEffect
  <2> HIDE DEF b, p
  <2>8. /\ SameSession(a.tcb, b.tcb) /\ b.tcb.e_tcb_send = a.tcb.e_tcb_send /\ b.tcb # NULL
    BY <2>5, <2>7, TcbTypes DEF SameSession, Tcb
  <2>9. nxt = t.snd_nxt + n + f /\ nxt \in uint /\ nxt \in Int /\ t.snd_nxt \in Int
    <3>1. b.tcb.snd_nxt = t.snd_nxt
      BY <2>5, <2>8 DEF SameSession
    <3>2. t.snd_nxt \in uint
      BY <1>1, TcbTypes
    <3>3. t.snd_nxt \in Int
      BY <3>2, UintIsInt
    <3>4. n + f \in Int
      BY <2>2, <2>4
    <3>5. SeqAdd(t.snd_nxt, n + f) \in uint
      BY <3>3, <3>4, SeqAddFacts
    <3>6. SeqAdd(t.snd_nxt, n + f) \in Int
      BY <3>5, UintIsInt
    <3> QED BY <2>2, <3>1, <3>3, <3>5, <3>6
  <2> HIDE DEF nxt
  <2>10. /\ u \in Tcb /\ SameButSent(t, u) /\ u.snd_nxt = nxt /\ u.timeout_mark = a.tcb.timeout_mark
         /\ u.e_timeout = a.tcb.e_timeout /\ u.e_timeout = b.tcb.e_timeout
         /\ u.e_tcb_send = b.tcb.e_tcb_send
    <3>1. /\ u \in Tcb /\ SameButSent(b.tcb, u) /\ u.snd_nxt = nxt /\ u.timeout_mark = b.tcb.timeout_mark
          /\ u.e_timeout = b.tcb.e_timeout /\ u.e_tcb_send = b.tcb.e_tcb_send
      BY <2>7, <2>9 DEF Tcb, SameButSent
    <3> HIDE DEF u
    <3> QED BY <2>5, <2>8, <3>1 DEF SameButSent, SameSession
  <2> HIDE DEF u
  <2>11. SessionOK(u, iss, sent)
    <3>1. SendNumbers(t, iss, sent) /\ Holds(t.outbuf, sent) /\ RecvBuffer(t) /\ TimerOf(t)
          /\ t.state # "CLOSE_WAIT"
      BY <1>1 DEF SessionOK
    <3>2. t.snd_una \in uint /\ t.timeout_mark \in uint
      BY <1>1, TcbTypes
    <3>3. t.snd_una \in Int /\ t.timeout_mark \in Int
      BY <3>2, UintIsInt
    <3>4. t.snd_una <= t.snd_nxt
      BY <3>1 DEF SendNumbers
    <3>5. /\ t.snd_una <= nxt /\ t.snd_nxt <= nxt /\ nxt <= SendLimit(t)
          /\ n > 0 => t.snd_una < nxt
      BY <2>2, <2>4, <2>9, <3>3, <3>4
    <3>6. SendLimit(u) = SendLimit(t)
      BY <2>10 DEF SendLimit, SameButSent
    <3>7. SendNumbers(u, iss, sent)
      BY <2>10, <3>1, <3>5, <3>6 DEF SendNumbers, SameButSent
    <3>8. RecvBuffer(u)
      BY <2>10, <3>1 DEF RecvBuffer, SameButSent
    <3>9. TimerOf(u)
      <4>1. CASE t.e_timeout = NULL /\ n > 0
        <5>1. u.e_timeout = "tcp_timeout" /\ u.timeout_mark = t.snd_nxt
          BY <2>5, <2>10, <4>1
        <5>2. u.snd_una < u.snd_nxt /\ u.timeout_mark <= u.snd_nxt
          BY <2>10, <3>5, <4>1, <5>1 DEF SameButSent
        <5>3. u.state \in {"ESTABLISHED"} \cup Sending
          BY <2>2, <2>10, <4>1 DEF SameButSent
        <5> QED BY <5>1, <5>2, <5>3 DEF TimerOf, Sending
      <4>2. CASE ~(t.e_timeout = NULL /\ n > 0)
        <5>1. u.e_timeout = t.e_timeout /\ u.timeout_mark = t.timeout_mark /\ u.state = t.state
              /\ u.snd_una = t.snd_una /\ u.snd_nxt = nxt
          BY <2>5, <2>10, <4>2 DEF SameButSent
        <5>2. u.e_timeout = "tcp_timeout" => u.snd_una < u.snd_nxt /\ u.timeout_mark <= u.snd_nxt
          <6>1. t.e_timeout = "tcp_timeout" => t.snd_una < t.snd_nxt /\ t.timeout_mark <= t.snd_nxt
            BY <3>1 DEF TimerOf
          <6> QED BY <2>9, <3>3, <3>5, <5>1, <6>1
        <5>3. u.snd_una < u.snd_nxt /\ u.snd_una < u.outbuf.w_seq
              => t.e_timeout # NULL \/ t.snd_una < t.snd_nxt
          <6>1. n = 0 /\ f = 1 => t.snd_nxt = t.outbuf.w_seq
            BY <2>2, <2>9
          <6>2. n = 0 /\ f = 0 => nxt = t.snd_nxt
            BY <2>9
          <6>3. u.outbuf.w_seq = t.outbuf.w_seq
            BY <2>10 DEF SameButSent
          <6>4. n = 0 \/ t.e_timeout # NULL
            BY <2>2, <4>2
          <6> QED BY <2>4, <5>1, <6>1, <6>2, <6>3, <6>4
        <5>4. /\ u.state \in {"ESTABLISHED"} \cup Sending
              /\ u.snd_una < u.snd_nxt /\ u.snd_una < u.outbuf.w_seq
              => u.e_timeout = "tcp_timeout"
          <6>1. t.e_timeout \in {NULL, "tcp_timeout", "tcp_remove"} /\ u.outbuf = t.outbuf
            BY <1>1, <2>10, TcbTypes DEF Timer, SameButSent
          <6> QED BY <3>1, <5>1, <5>3, <6>1 DEF TimerOf, Sending
        <5> QED BY <3>1, <5>1, <5>2, <5>4 DEF TimerOf
      <4> QED BY <4>1, <4>2
    <3> QED BY <2>10, <3>1, <3>7, <3>8, <3>9 DEF SessionOK, SameButSent
  <2>12. /\ v \in World /\ v.tcb = u /\ v.map = b.map /\ v.out = b.out
         /\ v.listed = b.listed /\ v.tcb # NULL /\ ListedAs(v, NULL, again)
    BY <2>7, <2>8, <2>10, TcbChange
  <2> HIDE DEF v
  <2>13. Matched(v) /\ Watched(v)
    BY <1>1, <2>5, <2>7, <2>10, <2>12 DEF Matched, Watched, SameButSent
  <2>14. DaemonOK(v, iss, sent, again)
    BY <2>11, <2>12, <2>13 DEF DaemonOK
  <2>15. /\ v.out = Append(w.out, p) /\ p.flags \in {{"ACK"}, {"ACK", "FIN"}}
         /\ p.ack = t.rcv_nxt /\ p.seq >= iss + 1
         /\ p.seq + Len(p.data) + (IF "FIN" \in p.flags THEN 1 ELSE 0) <= SendLimit(t)
    <3>1. p.seq = t.snd_nxt /\ p.ack = t.rcv_nxt
      BY <2>5, <2>6 DEF SameButSent
    <3>2. Len(p.data) = n /\ (IF "FIN" \in p.flags THEN 1 ELSE 0) = f
      BY <2>3, <2>4, <2>6
    <3> QED BY <2>2, <2>4, <2>5, <2>6, <2>7, <2>12, <3>1, <3>2
  <2>16. \A e \in Event : e \notin Timer => v.listed[e] = w.listed[e]
    BY <2>5, <2>7, <2>12
  <2>17. v.tcb \in Tcb /\ SameButSent(w.tcb, v.tcb) /\ v.map = w.map
    BY <2>5, <2>7, <2>10, <2>12
  <2> QED BY <2>1, <2>7, <2>12, <2>14, <2>15, <2>16, <2>17
<1> QED BY <1>2, <1>3
-----------------------------------------------------------------------------
(* The ends of callbacks. *)

\* The tcb forgets an event whose callback runs.
LEMMA ClearTcbPointer ==
  ASSUME NEW w \in World, w.tcb # NULL, NEW t \in Tcb, NEW e,
         \/ /\ e = "do_tcb_write" /\ w.tcb.e_tcb_send = e
            /\ t.e_tcb_send = NULL /\ t.e_timeout = w.tcb.e_timeout
         \/ /\ e \in Timer /\ w.tcb.e_timeout = e
            /\ t.e_timeout = NULL /\ t.e_tcb_send = w.tcb.e_tcb_send,
         NEW again, ListedAs(w, NULL, again)
  PROVE  LET v == [w EXCEPT !.tcb = t]
         IN  /\ v \in World /\ v.tcb = t /\ v.map = w.map /\ v.out = w.out /\ v.tcb # NULL
             /\ v.listed = w.listed
             /\ ListedAs(v, e, again)
<1> DEFINE v == [w EXCEPT !.tcb = t]
<1>1. w.tcb \in Tcb /\ w.map \in TcpMap \cup {NULL} /\ NULL \notin Event
  BY TcpAssumption DEF World, Event, FdEvent, FdWrite, Timer
<1>2. v \in World /\ v.tcb = t /\ v.map = w.map /\ v.out = w.out /\ v.listed = w.listed
  BY DEF World
<1>3. t # NULL
  BY NullAssumption
<1> HIDE DEF v
<1>4. w.tcb.e_tcb_send \in {NULL, "do_tcb_write"} /\ w.tcb.e_timeout \in {NULL, "tcp_timeout", "tcp_remove"}
  BY <1>1, TcbTypes DEF Timer
<1>5. w.map # NULL => /\ w.map.e_fd_read \in {NULL, "handle_fd_can_read"}
                      /\ w.map.e_fd_write \in {NULL, "handle_fd_can_write", "handle_fd_did_connect"}
  BY <1>1 DEF TcpMap, FdWrite
<1>6. PointsTo(w, e) /\ ~PointsTo(v, e)
  BY <1>2, <1>3, <1>4, <1>5, TcpAssumption DEF PointsTo, Timer
<1>7. \A f \in Event : f # e => (PointsTo(v, f) <=> PointsTo(w, f))
  BY <1>1, <1>2, <1>3, <1>4 DEF PointsTo
<1>8. ListedAs(v, e, again)
  BY <1>1, <1>2, <1>6, <1>7 DEF ListedAs
<1> QED BY <1>2, <1>3, <1>8 DEF v

\* The callback of a tcb's event ends: the tcb forgot the event, the loop removes it.
LEMMA TcbEventDone ==
  ASSUME NEW w \in World, w.tcb # NULL, NEW t \in Tcb, NEW e,
         \/ /\ e = "do_tcb_write" /\ w.tcb.e_tcb_send = e
            /\ t.e_tcb_send = NULL /\ t.e_timeout = w.tcb.e_timeout
         \/ /\ e \in Timer /\ w.tcb.e_timeout = e
            /\ t.e_timeout = NULL /\ t.e_tcb_send = w.tcb.e_tcb_send,
         NEW again, ListedAs(w, NULL, again)
  PROVE  LET v == RemoveEvent([w EXCEPT !.tcb = t], e)
         IN  /\ v \in World /\ v.tcb = t /\ v.map = w.map /\ v.out = w.out /\ v.tcb # NULL
             /\ \A f \in Event : f # e => v.listed[f] = w.listed[f]
             /\ ListedAs(v, NULL, again)
<1> DEFINE u == [w EXCEPT !.tcb = t]
           v == RemoveEvent(u, e)
<1>1. e \in Event
  BY DEF Event
<1>2. /\ u \in World /\ u.tcb = t /\ u.map = w.map /\ u.out = w.out /\ u.tcb # NULL
      /\ u.listed = w.listed /\ ListedAs(u, e, again)
  BY ClearTcbPointer
<1> HIDE DEF u
<1>3. /\ v \in World /\ v.tcb = u.tcb /\ v.map = u.map /\ v.out = u.out
      /\ \A f \in Event : v.listed[f] = IF f = e /\ u.listed[f] > 0
                                        THEN u.listed[f] - 1 ELSE u.listed[f]
  BY <1>1, <1>2, RemoveEffect
<1>4. ListedAs(v, NULL, again)
  BY <1>1, <1>2, RemoveListed
<1> HIDE DEF v
<1> QED BY <1>2, <1>3, <1>4 DEF u, v

\* The callback of a map's event ends in the same way.
LEMMA MapEventDone ==
  ASSUME NEW w \in World, w.map # NULL, NEW m \in TcpMap, NEW e \in FdEvent, w.listed[e] > 0,
         \/ /\ e = "handle_fd_can_read" /\ m = [w.map EXCEPT !.e_fd_read = NULL]
         \/ /\ e \in FdWrite /\ m = [w.map EXCEPT !.e_fd_write = NULL]
            /\ w.map.e_fd_write \in {NULL, e},
         NEW again, ListedAs(w, NULL, again)
  PROVE  LET v == RemoveEvent([w EXCEPT !.map = m], e)
         IN  /\ v \in World /\ v.tcb = w.tcb /\ v.map = m /\ v.out = w.out /\ v.map # NULL
             /\ v.listed["handle_fd_can_write"] <= w.listed["handle_fd_can_write"]
             /\ ListedAs(v, NULL, again)
<1> DEFINE u == [w EXCEPT !.map = m]
           v == RemoveEvent(u, e)
<1>1. e \in Event
  BY DEF Event
<1>2. /\ u \in World /\ u.tcb = w.tcb /\ u.map = m /\ u.out = w.out /\ u.map # NULL
      /\ u.listed = w.listed /\ ListedAs(u, e, again)
  BY ClearMapPointer
<1> HIDE DEF u
<1>3. /\ v \in World /\ v.tcb = u.tcb /\ v.map = u.map /\ v.out = u.out
      /\ \A f \in Event : v.listed[f] = IF f = e /\ u.listed[f] > 0
                                        THEN u.listed[f] - 1 ELSE u.listed[f]
  BY <1>1, <1>2, RemoveEffect
<1>4. ListedAs(v, NULL, again)
  BY <1>1, <1>2, RemoveListed
<1>5. "handle_fd_can_write" \in Event /\ w.listed["handle_fd_can_write"] \in Nat
  BY DEF World, Event, FdEvent, FdWrite
<1> HIDE DEF v
<1>6. v.listed["handle_fd_can_write"] <= w.listed["handle_fd_can_write"]
  BY <1>2, <1>3, <1>5
<1> QED BY <1>2, <1>3, <1>4, <1>6 DEF u, v

\* do_tcb_write ends with nothing more to send.
LEMMA WriteDone ==
  ASSUME NEW w, NEW iss, NEW sent, NEW again, DaemonOK(w, iss, sent, again), w.tcb # NULL,
         w.tcb.e_tcb_send = "do_tcb_write"
  PROVE  LET v == RemoveEvent([w EXCEPT !.tcb.e_tcb_send = NULL], "do_tcb_write")
         IN  /\ DaemonOK(v, iss, sent, again) /\ v.tcb # NULL /\ v.tcb \in Tcb
             /\ SameSession(w.tcb, v.tcb) /\ v.tcb.e_tcb_send = NULL
             /\ v.map = w.map /\ v.out = w.out
             /\ \A e \in Event : e # "do_tcb_write" => v.listed[e] = w.listed[e]
<1> DEFINE t == [w.tcb EXCEPT !.e_tcb_send = NULL]
           v == RemoveEvent([w EXCEPT !.tcb = t], "do_tcb_write")
<1>1. w \in World /\ w.tcb \in Tcb /\ SessionOK(w.tcb, iss, sent) /\ ListedAs(w, NULL, again)
      /\ Matched(w) /\ Watched(w)
  BY DEF DaemonOK, World
<1>2. t \in Tcb /\ SameSession(w.tcb, t) /\ t.e_tcb_send = NULL
  BY <1>1 DEF Tcb, SameSession
<1>3. [w EXCEPT !.tcb.e_tcb_send = NULL] = [w EXCEPT !.tcb = t]
  OBVIOUS
<1> HIDE DEF t
<1>4. t.e_timeout = w.tcb.e_timeout
  BY <1>2 DEF SameSession
<1>5. /\ v \in World /\ v.tcb = t /\ v.map = w.map /\ v.out = w.out /\ v.tcb # NULL
      /\ \A f \in Event : f # "do_tcb_write" => v.listed[f] = w.listed[f]
      /\ ListedAs(v, NULL, again)
  BY <1>1, <1>2, <1>4, TcbEventDone
<1> HIDE DEF v
<1>6. SessionOK(t, iss, sent)
  BY <1>1, <1>2 DEF SessionOK, SendNumbers, SendLimit, RecvBuffer, TimerOf, SameSession
<1>7. Matched(v) /\ Watched(v)
  BY <1>1, <1>2, <1>5 DEF Matched, Watched, SameSession
<1>8. DaemonOK(v, iss, sent, again)
  BY <1>5, <1>6, <1>7 DEF DaemonOK
<1> QED BY <1>2, <1>3, <1>5, <1>8 DEF v

\* tcp_timeout: everything unacknowledged is to be sent again.
LEMMA TimeoutKeeps ==
  ASSUME NEW w, NEW iss \in Nat, NEW sent \in Nat, NEW again, DaemonOK(w, iss, sent, again),
         w.tcb # NULL, w.tcb.e_timeout = "tcp_timeout"
  PROVE  LET t == window_update([w.tcb EXCEPT !.e_timeout = NULL, !.snd_nxt = w.tcb.snd_una,
                                              !.snd_cwnd = 0])
             v == RemoveEvent(mark_for_if_write([w EXCEPT !.tcb = t]), "tcp_timeout")
         IN  /\ DaemonOK(v, iss, sent, again) /\ v.tcb # NULL /\ v.tcb \in Tcb
             /\ v.tcb.state = w.tcb.state /\ v.tcb.state # "SYN_RECVD"
             /\ v.tcb.rcv_nxt = w.tcb.rcv_nxt /\ v.tcb.outbuf = w.tcb.outbuf
             /\ v.map = w.map /\ v.out = w.out
             /\ v.listed["handle_fd_can_write"] = w.listed["handle_fd_can_write"]
<1> DEFINE t0 == [w.tcb EXCEPT !.e_timeout = NULL, !.snd_nxt = w.tcb.snd_una, !.snd_cwnd = 0]
           t == window_update(t0)
           a == [w EXCEPT !.tcb = t]
           b == mark_for_if_write(a)
           v == RemoveEvent(b, "tcp_timeout")
<1>1. w \in World /\ w.tcb \in Tcb /\ SessionOK(w.tcb, iss, sent) /\ ListedAs(w, NULL, again)
      /\ Matched(w) /\ Watched(w)
  BY DEF DaemonOK, World
<1>2. 0 \in uint
  BY SeqModAssumption DEF uint
<1>3. /\ t0 \in Tcb /\ t0.e_timeout = NULL /\ t0.snd_nxt = w.tcb.snd_una
      /\ t0.snd_una = w.tcb.snd_una /\ t0.state = w.tcb.state /\ t0.cb = w.tcb.cb
      /\ t0.e_tcb_send = w.tcb.e_tcb_send /\ t0.rcv_nxt = w.tcb.rcv_nxt
      /\ t0.rcv_wnd = w.tcb.rcv_wnd
      /\ t0.read_seq = w.tcb.read_seq /\ t0.inbuf = w.tcb.inbuf /\ t0.outbuf = w.tcb.outbuf
  BY <1>1, <1>2 DEF Tcb
<1> HIDE DEF t0
<1>4. t \in Tcb /\ SameSession(t0, t) /\ t.e_tcb_send = t0.e_tcb_send
  BY <1>3, WindowUpdate
<1> HIDE DEF t
<1>5. /\ t.e_timeout = NULL /\ t.snd_nxt = w.tcb.snd_una
      /\ t.snd_una = w.tcb.snd_una /\ t.state = w.tcb.state /\ t.cb = w.tcb.cb
      /\ t.e_tcb_send = w.tcb.e_tcb_send /\ t.rcv_nxt = w.tcb.rcv_nxt
      /\ t.rcv_wnd = w.tcb.rcv_wnd
      /\ t.read_seq = w.tcb.read_seq /\ t.inbuf = w.tcb.inbuf /\ t.outbuf = w.tcb.outbuf
  BY <1>3, <1>4 DEF SameSession
<1>6. "tcp_timeout" \in Timer /\ "tcp_timeout" \in Event /\ "handle_fd_can_write" \in Event
  BY DEF Timer, Event, FdEvent, FdWrite
<1>7. /\ a \in World /\ a.tcb = t /\ a.map = w.map /\ a.out = w.out /\ a.tcb # NULL
      /\ a.listed = w.listed /\ ListedAs(a, "tcp_timeout", again)
  BY <1>1, <1>4, <1>5, <1>6, ClearTcbPointer
<1> HIDE DEF a
<1>8. /\ b \in World /\ b.map = a.map /\ b.out = a.out
      /\ b.tcb = [a.tcb EXCEPT !.e_tcb_send = "do_tcb_write"] /\ b.tcb \in Tcb
      /\ \A e \in Event : e # "do_tcb_write" => b.listed[e] = a.listed[e]
      /\ ListedAs(b, "tcp_timeout", again)
  BY <1>7, MarkEffect
<1> HIDE DEF b
<1>9. /\ v \in World /\ v.tcb = b.tcb /\ v.map = b.map /\ v.out = b.out
      /\ \A f \in Event : v.listed[f] = IF f = "tcp_timeout" /\ b.listed[f] > 0
                                        THEN b.listed[f] - 1 ELSE b.listed[f]
  BY <1>6, <1>8, RemoveEffect
<1>10. ListedAs(v, NULL, again)
  BY <1>6, <1>8, RemoveListed
<1> HIDE DEF v
<1>11. SameSession(t, v.tcb) /\ v.tcb \in Tcb /\ v.tcb # NULL
  BY <1>4, <1>7, <1>8, <1>9, TcbTypes DEF Tcb, SameSession
<1>12. v.listed["handle_fd_can_write"] = w.listed["handle_fd_can_write"]
  BY <1>6, <1>7, <1>8, <1>9
<1>13. w.tcb.state # "SYN_RECVD" /\ w.tcb.state # "TIME_WAIT"
  BY <1>1 DEF SessionOK, TimerOf, Sending
<1>14. SessionOK(t, iss, sent)
  <2>1. SendNumbers(w.tcb, iss, sent) /\ Holds(w.tcb.outbuf, sent) /\ RecvBuffer(w.tcb)
        /\ w.tcb.state # "CLOSE_WAIT"
    BY <1>1 DEF SessionOK
  <2>2. w.tcb.snd_una \in uint /\ w.tcb.snd_nxt \in uint /\ w.tcb.outbuf.w_seq \in uint
    BY <1>1, TcbTypes
  <2>3. w.tcb.snd_una \in Int /\ w.tcb.snd_nxt \in Int /\ w.tcb.outbuf.w_seq \in Int
    BY <2>2, UintIsInt
  <2>4. SendLimit(t) = SendLimit(w.tcb) /\ SendLimit(t) \in Int
    BY <1>5, <2>3 DEF SendLimit
  <2>5. w.tcb.snd_una <= w.tcb.snd_nxt /\ w.tcb.snd_nxt <= SendLimit(w.tcb)
    BY <2>1 DEF SendNumbers
  <2>6. t.snd_nxt <= SendLimit(t) /\ t.snd_una <= t.snd_nxt
    BY <1>5, <2>3, <2>4, <2>5
  <2>7. SendNumbers(t, iss, sent)
    BY <1>5, <2>1, <2>6 DEF SendNumbers
  <2>8. RecvBuffer(t) /\ TimerOf(t)
    BY <1>5, <1>13, <2>1, <2>3, TcpAssumption DEF RecvBuffer, TimerOf
  <2> QED BY <1>5, <2>1, <2>7, <2>8 DEF SessionOK
<1>15. SessionOK(v.tcb, iss, sent)
  BY <1>11, <1>14 DEF SessionOK, SendNumbers, SendLimit, RecvBuffer, TimerOf, SameSession
<1>16. Matched(v) /\ Watched(v)
  BY <1>1, <1>5, <1>7, <1>8, <1>9, <1>11 DEF Matched, Watched, SameSession
<1>17. /\ v.tcb.state = w.tcb.state /\ v.tcb.rcv_nxt = w.tcb.rcv_nxt
       /\ v.tcb.outbuf = w.tcb.outbuf /\ v.map = w.map /\ v.out = w.out
  BY <1>5, <1>7, <1>8, <1>9, <1>11 DEF SameSession
<1>18. DaemonOK(v, iss, sent, again)
  BY <1>9, <1>10, <1>15, <1>16 DEF DaemonOK
<1> QED BY <1>11, <1>12, <1>13, <1>17, <1>18 DEF v, b, a, t, t0

\* A tcb that has lost its map is deleted.
LEMMA DiscardKeeps ==
  ASSUME NEW w \in World, w.tcb # NULL, w.map = NULL,
         NEW again, ListedAs(w, NULL, again), NEW iss, NEW sent
  PROVE  LET v == Discard(w)
         IN  /\ DaemonOK(v, iss, sent, again) /\ v.tcb = NULL /\ v.map = NULL /\ v.out = w.out
             /\ v.listed["handle_fd_can_write"] = w.listed["handle_fd_can_write"]
<1> DEFINE v == Discard(w)
<1>1. /\ v \in World /\ v.tcb = NULL /\ v.map = w.map /\ v.out = w.out
      /\ v.listed["handle_fd_can_write"] = w.listed["handle_fd_can_write"]
      /\ ListedAs(v, NULL, again)
  BY DiscardEffect
<1> HIDE DEF v
<1>2. Matched(v) /\ Watched(v)
  BY <1>1 DEF Matched, Watched
<1> QED BY <1>1, <1>2 DEF DaemonOK, v

\* A reset deletes the map and the tcb.
LEMMA RstKeeps ==
  ASSUME NEW w, NEW iss, NEW sent, NEW again, DaemonOK(w, iss, sent, again), w.tcb # NULL
  PROVE  LET v == Discard(IF w.tcb.cb THEN kill_map(w) ELSE w)
         IN  /\ DaemonOK(v, iss, sent, again) /\ v.tcb = NULL /\ v.map = NULL /\ v.out = w.out
             /\ v.listed["handle_fd_can_write"] <= w.listed["handle_fd_can_write"]
<1> DEFINE a == IF w.tcb.cb THEN kill_map(w) ELSE w
           v == Discard(a)
<1>1. w \in World /\ Matched(w) /\ ListedAs(w, NULL, again)
  BY DEF DaemonOK
<1>2. "handle_fd_can_write" \in Event /\ w.listed["handle_fd_can_write"] \in Nat
  BY <1>1 DEF World, Event, FdEvent, FdWrite
<1>3. /\ a \in World /\ a.tcb = w.tcb /\ a.map = NULL /\ a.out = w.out
      /\ a.listed["handle_fd_can_write"] <= w.listed["handle_fd_can_write"]
      /\ ListedAs(a, NULL, again)
  <2>1. CASE w.tcb.cb
    <3>1. w.map # NULL
      BY <1>1, <2>1 DEF Matched
    <3>2. a = kill_map(w)
      BY <2>1
    <3> HIDE DEF a
    <3> QED BY <1>1, <3>1, <3>2, KillEffect
  <2>2. CASE ~w.tcb.cb
    <3>1. w.map = NULL
      BY <1>1, <2>2 DEF Matched
    <3>2. a = w
      BY <2>2
    <3> QED BY <1>1, <1>2, <3>1, <3>2
  <2> QED BY <2>1, <2>2
<1> HIDE DEF a
<1>4. a.tcb # NULL
  BY <1>3
<1>5. /\ DaemonOK(v, iss, sent, again) /\ v.tcb = NULL /\ v.map = NULL /\ v.out = a.out
      /\ v.listed["handle_fd_can_write"] = a.listed["handle_fd_can_write"]
  BY <1>3, <1>4, DiscardKeeps
<1> HIDE DEF v
<1> QED BY <1>3, <1>5 DEF v, a

\* tcp_remove: the tcb is deleted with its event, so that the loop finds nothing to remove.
LEMMA RemoveKeeps ==
  ASSUME NEW w, NEW iss, NEW sent, NEW again, DaemonOK(w, iss, sent, again), w.tcb # NULL,
         w.tcb.e_timeout = "tcp_remove"
  PROVE  LET v == RemoveEvent(Discard(w), "tcp_remove")
         IN  /\ DaemonOK(v, iss, sent, again) /\ v.tcb = NULL /\ v.map = NULL /\ v.out = w.out
             /\ v.listed["handle_fd_can_write"] = w.listed["handle_fd_can_write"]
<1> DEFINE v == Discard(w)
<1>1. w \in World /\ Matched(w) /\ ListedAs(w, NULL, again) /\ w.tcb.state = "TIME_WAIT"
  BY DEF DaemonOK, SessionOK, TimerOf
<1>2. w.map = NULL
  BY <1>1 DEF Matched
<1>3. /\ DaemonOK(v, iss, sent, again) /\ v.tcb = NULL /\ v.map = NULL /\ v.out = w.out
      /\ v.listed["handle_fd_can_write"] = w.listed["handle_fd_can_write"]
  BY <1>1, <1>2, DiscardKeeps
<1> HIDE DEF v
<1>4. v.listed["tcp_remove"] = 0
  <2>1. "tcp_remove" \in Event /\ "tcp_remove" # "handle_fd_can_write" /\ ~PointsTo(v, "tcp_remove")
    BY <1>3 DEF Event, Timer, PointsTo
  <2> QED BY <1>3, <2>1, TcpAssumption DEF DaemonOK, ListedAs
<1>5. RemoveEvent(v, "tcp_remove") = v
  BY <1>4 DEF RemoveEvent
<1> QED BY <1>3, <1>5 DEF v

\* A new tcb.
LEMMA NewTcbFacts ==
  ASSUME NEW irs \in uint, NEW wnd \in uint, NEW iss \in Nat, iss + 2 < SeqMod
  PROVE  LET t == NewTcb(irs, wnd, iss)
         IN  /\ t \in Tcb /\ SessionOK(t, iss, 0) /\ t.state = "SYN_RECVD" /\ t.cb = TRUE
             /\ t.snd_nxt = iss /\ t.rcv_nxt = SeqAdd(irs, 1)
             /\ t.e_tcb_send = NULL /\ t.e_timeout = NULL /\ rb_used(t.inbuf) = 0
<1> DEFINE r == SeqAdd(irs, 1)
           s == SeqAdd(iss, 1)
           i == Empty(r)
           o == Empty(s)
           u == [state |-> "SYN_RECVD",
                 snd_una |-> iss, snd_nxt |-> iss, snd_wnd |-> wnd, snd_cwnd |-> 0, snd_max |-> 0,
                 rcv_nxt |-> r, rcv_wnd |-> BufSize,
                 last_acked |-> 0, timeout_mark |-> 0, read_seq |-> r,
                 inbuf |-> i, outbuf |-> o, cb |-> TRUE,
                 e_tcb_send |-> NULL, e_timeout |-> NULL]
           t == NewTcb(irs, wnd, iss)
<1>1. t = window_update(u)
  BY DEF NewTcb
<1>2. r \in uint /\ s \in uint /\ s = iss + 1
  <2>1. irs \in Int
    BY UintIsInt
  <2>2. iss \in Int /\ iss + 1 \in 0..(SeqMod - 1) /\ 1 \in Int
    BY SizeTypes
  <2> QED BY <2>1, <2>2, SeqAddFacts
<1>3. iss \in uint /\ 0 \in uint /\ BufSize \in uint
  <2>1. iss \in uint
    BY SizeTypes DEF uint
  <2>2. 0 \in uint /\ BufSize \in uint
    BY SizeTypes, TcpAssumption DEF uint
  <2> QED BY <2>1, <2>2
<1> HIDE DEF t, r, s
<1>4. /\ i \in Queues(Byte) /\ rb_used(i) = 0 /\ i.w_seq = r
      /\ o \in Queues(Byte) /\ rb_used(o) = 0 /\ o.w_seq = s
  BY <1>2 DEF Empty, Queues, rb_used
<1> HIDE DEF i, o
<1>5. u \in Tcb
  BY <1>2, <1>3, <1>4 DEF Tcb, State
<1>6. /\ u.state = "SYN_RECVD" /\ u.cb = TRUE /\ u.snd_una = iss /\ u.snd_nxt = iss
      /\ u.rcv_nxt = r /\ u.read_seq = r /\ u.inbuf = i /\ u.outbuf = o
      /\ u.e_tcb_send = NULL /\ u.e_timeout = NULL /\ u.rcv_wnd = BufSize
  OBVIOUS
<1> HIDE DEF u
<1>7. t \in Tcb /\ SameSession(u, t) /\ t.e_tcb_send = u.e_tcb_send
  BY <1>1, <1>5, WindowUpdate
<1>8. /\ t.state = "SYN_RECVD" /\ t.cb = TRUE /\ t.snd_una = iss /\ t.snd_nxt = iss
      /\ t.rcv_nxt = r /\ t.read_seq = r /\ t.inbuf = i /\ t.outbuf = o
      /\ t.e_tcb_send = NULL /\ t.e_timeout = NULL /\ t.rcv_wnd = BufSize
  BY <1>6, <1>7 DEF SameSession
<1>9. SendLimit(t) = iss + 1
  BY <1>2, <1>4, <1>8 DEF SendLimit, Ended
<1>10. SendNumbers(t, iss, 0)
  BY <1>2, <1>4, <1>8, <1>9, SizeTypes DEF SendNumbers
<1>11. RecvBuffer(t)
  <2>1. IntDiff(r, r) = 0
    <3>1. r \in Int
      BY <1>2, UintIsInt
    <3> QED BY <1>2, <3>1, IntDiffFacts, SizeTypes
  <2>2. rb_left(i) = BufSize
    BY <1>4, SizeTypes DEF rb_left
  <2> QED BY <1>4, <1>8, <2>1, <2>2, SizeTypes DEF RecvBuffer
<1>12. TimerOf(t)
  BY <1>8, TcpAssumption DEF TimerOf, Sending
<1>13. Holds(t.outbuf, 0)
  BY <1>4, <1>8 DEF Holds
<1> QED BY <1>4, <1>7, <1>8, <1>10, <1>11, <1>12, <1>13 DEF SessionOK, t, r

\* A session begins.
LEMMA OpenKeeps ==
  ASSUME NEW w, NEW iss0, NEW sent0, NEW again, DaemonOK(w, iss0, sent0, again), w.tcb = NULL,
         NEW t \in Tcb, NEW iss, NEW sent, SessionOK(t, iss, sent),
         t.state = "SYN_RECVD", t.cb = TRUE, t.e_tcb_send = NULL, t.e_timeout = NULL,
         rb_used(t.inbuf) = 0
  PROVE  LET m == [e_fd_read |-> NULL, e_fd_write |-> NULL]
             v == [w EXCEPT !.tcb = t, !.map = m]
         IN  /\ DaemonOK(v, iss, sent, again) /\ v.tcb = t /\ v.tcb # NULL /\ v.map = m
             /\ v.map # NULL /\ v.out = w.out /\ v.listed = w.listed
<1> DEFINE m == [e_fd_read |-> NULL, e_fd_write |-> NULL]
           v == [w EXCEPT !.tcb = t, !.map = m]
<1>1. w \in World /\ Matched(w) /\ ListedAs(w, NULL, again) /\ w.map = NULL
  BY DEF DaemonOK, Matched
<1>2. m \in TcpMap /\ m.e_fd_read = NULL /\ m.e_fd_write = NULL
  BY DEF TcpMap
<1> HIDE DEF m
<1>3. /\ v \in World /\ v.tcb = t /\ v.map = m /\ v.out = w.out /\ v.listed = w.listed
  BY <1>1, <1>2 DEF World
<1>4. t # NULL /\ m # NULL /\ NULL \notin Event
  BY <1>2, NullAssumption, TcpAssumption DEF Event, FdEvent, FdWrite, Timer
<1> HIDE DEF v
<1>5. \A e \in Event : ~PointsTo(v, e) /\ ~PointsTo(w, e)
  BY <1>1, <1>2, <1>3, <1>4 DEF PointsTo
<1>6. ListedAs(v, NULL, again)
  BY <1>1, <1>3, <1>5 DEF ListedAs
<1>7. Matched(v) /\ Watched(v)
  BY <1>2, <1>3, <1>4 DEF Matched, Watched
<1> QED BY <1>3, <1>4, <1>6, <1>7 DEF DaemonOK, v, m

\* connect() is in progress: the socket is watched for its end.
LEMMA ConnectKeeps ==
  ASSUME NEW w, NEW iss, NEW sent, NEW again, DaemonOK(w, iss, sent, again), w.tcb # NULL,
         w.tcb.state = "SYN_RECVD", w.map.e_fd_write = NULL
  PROVE  LET v == AddEvent([w EXCEPT !.map.e_fd_write = "handle_fd_did_connect"],
                           "handle_fd_did_connect")
         IN  /\ DaemonOK(v, iss, sent, again) /\ v.tcb = w.tcb /\ v.out = w.out
             /\ v.map # NULL /\ v.map.e_fd_write = "handle_fd_did_connect"
             /\ v.listed["handle_fd_can_write"] = w.listed["handle_fd_can_write"]
<1> DEFINE m == [w.map EXCEPT !.e_fd_write = "handle_fd_did_connect"]
           v == AddEvent([w EXCEPT !.map = m], "handle_fd_did_connect")
<1>1. w \in World /\ Matched(w) /\ Watched(w) /\ ListedAs(w, NULL, again)
      /\ SessionOK(w.tcb, iss, sent)
  BY DEF DaemonOK
<1>2. w.map # NULL /\ w.map \in TcpMap
  BY <1>1 DEF Matched, World
<1>3. /\ m \in TcpMap /\ m.e_fd_write = "handle_fd_did_connect" /\ m.e_fd_read = w.map.e_fd_read
      /\ "handle_fd_did_connect" \in FdEvent
  BY <1>2 DEF TcpMap, FdEvent, FdWrite
<1>4. [w EXCEPT !.map.e_fd_write = "handle_fd_did_connect"] = [w EXCEPT !.map = m]
  OBVIOUS
<1> HIDE DEF m
<1>5. /\ v \in World /\ v.tcb = w.tcb /\ v.map = m /\ v.out = w.out /\ v.map # NULL
      /\ \A f \in Event : v.listed[f] = IF f = "handle_fd_did_connect"
                                        THEN w.listed[f] + 1 ELSE w.listed[f]
      /\ ListedAs(v, NULL, again)
  BY <1>1, <1>2, <1>3, StartMapEvent
<1>6. "handle_fd_can_write" \in Event
  BY DEF Event, FdEvent, FdWrite
<1> HIDE DEF v
<1>7. Matched(v) /\ Watched(v)
  BY <1>1, <1>2, <1>3, <1>5 DEF Matched, Watched
<1> QED BY <1>1, <1>3, <1>4, <1>5, <1>6, <1>7 DEF DaemonOK, v
=============================================================================
