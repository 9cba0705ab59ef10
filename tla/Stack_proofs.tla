---------------------------- MODULE Stack_proofs -----------------------------
(***************************************************************************)
(* Every packet that is handed to send_pkt goes to its next hop once, in   *)
(* order, to the hardware address it announced, behind headers that fit,   *)
(* for any number of neighbors, packets and drivers.                       *)
(***************************************************************************)
EXTENDS Stack, FiniteSetTheorems, SequenceTheorems, WellFoundedInduction, TLAPS

\* A nonempty set of numbers has a least one, by which proofs about recursive
\* functions go by induction.
LEMMA LeastNat ==
  ASSUME NEW T, T \subseteq Nat, T # {}
  PROVE  \E n \in T : \A m \in T : n <= m
<1> DEFINE R == OpToRel(<, Nat)
<1>1. IsWellFoundedOn(R, Nat)
  BY NatLessThanWellFounded
<1>2. \A x, y \in Nat : x < y => <<x, y>> \in R
  BY DEF OpToRel
<1> HIDE DEF R
<1>3. PICK x \in T : \A y \in T : ~ (<<y, x>> \in R)
  BY <1>1, WFMin
<1>4. ASSUME NEW y \in T PROVE x <= y
  <2>1. x \in Nat /\ y \in Nat
    OBVIOUS
  <2>2. ~(y < x)
    BY <1>2, <1>3, <2>1
  <2> QED
    BY <2>1, <2>2
<1> QED
  BY <1>4

\* The packets that wait for neighbor a.
Queue(k, a) == IF a \in DOMAIN k.nlist THEN k.nlist[a].queue ELSE <<>>

\* The lengths of the buffers that are asked for and of the packets that are sent.
BufferLen == 60..1500
SentLen == 60..mtu

\* A packet as a handler leaves it in the buffer that get_buffer made.
Ready(drv, pb) ==
    /\ pb \in Pbuf
    /\ pb.offset = head_size(drv) /\ pb.offset + pb.max = pb.size
    /\ pb.dlen \in 60..mtu /\ (pb.dlen <= pb.max \/ pb.dlen = pb.max + 48)

\* A packet behind the driver's headers.
Headed(drv, pb) ==
    /\ pb \in Pbuf
    /\ pb.offset + pb.max = pb.size
    /\ pb.offset + Frame(drv) + Pi(drv) = head_size(drv)
    /\ pb.dlen - (Frame(drv) + Pi(drv)) \in 60..mtu
    /\ pb.dlen <= pb.max \/ pb.dlen = pb.max + 48

FrameType == [to : Mac \cup {NULL}, pkt : Packet]

\* A frame that was written for next hop h.
FrameOK(drv, h, f, H) ==
    /\ f \in FrameType
    /\ NextHop(f.pkt.dst) = h
    /\ hwaddr_len(drv) > 0 => f.to = H.told[h] /\ (f.to = NULL => h \in H.bare)
    /\ Headed(drv, f.pkt.pb)

\* A packet waits only for the neighbor it is for, and only until that one answers.
NeighborOK(drv, asked, a, n, H) ==
    /\ n \in Neighbors
    /\ hwaddr_len(drv) > 0 => n.linkaddr = H.told[a]
    /\ hwaddr_len(drv) > 0 /\ n.state = "REACHABLE" /\ n.linkaddr = NULL => a \in H.bare
    /\ n.state = "INCOMPLETE" => hwaddr_len(drv) > 0 /\ a \in asked \cup H.bare
    /\ n.queue # <<>> => n.state = "INCOMPLETE"
    /\ \A i \in 1..Len(n.queue) : NextHop(n.queue[i].dst) = a /\ Ready(drv, n.queue[i].pb)

IsLink(k) ==
    k = [drv |-> k.drv, nlist |-> k.nlist, frames |-> k.frames, asked |-> k.asked,
         handed |-> k.handed, written |-> k.written]

LinkTypes(k) ==
    /\ IsLink(k)
    /\ k.drv \in Drivers /\ k.asked \subseteq LinkLocal
    /\ k.handed \in [Addr -> Nat] /\ k.written \in [Addr -> Nat]
    /\ DOMAIN k.nlist \subseteq LinkLocal
    /\ k.nlist = [a \in DOMAIN k.nlist |-> k.nlist[a]]
    /\ k.frames \in Seq(FrameType)

NeighborsOK(k, H) ==
    /\ \A a \in DOMAIN k.nlist : NeighborOK(k.drv, k.asked, a, k.nlist[a], H)
    /\ hwaddr_len(k.drv) > 0 => \A a \in LinkLocal \ DOMAIN k.nlist : H.told[a] = NULL
FramesOK(k, h, H) == \A i \in 1..Len(k.frames) : FrameOK(k.drv, h, k.frames[i], H)

\* The packets written to next hop a up to the last step, when those of the last
\* step are all for h.
Gone(k, h, a) == IF a = h THEN k.written[a] + Len(k.frames) ELSE k.written[a]

Numbered(k, h) ==
    /\ \A i \in 1..Len(k.frames) : k.frames[i].pkt.id = k.written[h] + i
    /\ \A a \in Addr :
         /\ \A i \in 1..Len(Queue(k, a)) : Queue(k, a)[i].id = Gone(k, h, a) + i
         /\ k.handed[a] = Gone(k, h, a) + Len(Queue(k, a))

\* A step writes frames for one next hop only, h.
LinkOK(k, h, H) == LinkTypes(k) /\ NeighborsOK(k, H) /\ FramesOK(k, h, H) /\ Numbered(k, h)

\* The inductive invariant.
HeardOK(H) == H \in [told : [LinkLocal -> Mac \cup {NULL}], bare : SUBSET LinkLocal]
IInv == HeardOK(heard) /\ \E h \in LinkLocal : LinkOK(link, h, heard)
-----------------------------------------------------------------------------
(* The driver's buffers. *)

\* The headers of each driver and the room for them.
LEMMA DriverFacts ==
  ASSUME NEW drv \in Driver
  PROVE  \/ /\ drv \notin Ether
            /\ Frame(drv) = 0 /\ Pi(drv) = 4 /\ head_size(drv) = 4
         \/ /\ drv \in Ether
            /\ Frame(drv) = 14
            /\ \/ Pi(drv) = 4 /\ head_size(drv) = 18
               \/ Pi(drv) = 0 /\ head_size(drv) \in {14, 18}
<1>1. CASE drv = "tun"
  BY <1>1 DEF head_size, Frame, Pi, Ether, Driver
<1>2. CASE drv = "tap"
  BY <1>2 DEF head_size, Frame, Pi, Ether, Driver
<1>3. CASE drv = "tap_bsd"
  BY <1>3 DEF head_size, Frame, Pi, Ether, Driver
<1>4. CASE drv \in {"802ip", "uml_sw"}
  BY <1>4 DEF head_size, Frame, Pi, Ether, Driver
<1> QED
  BY <1>1, <1>2, <1>3, <1>4 DEF Driver

\* What pbuf_drop and pbuf_raise make of a buffer.
LEMMA DropForm ==
  ASSUME NEW s, NEW o, NEW m, NEW d, NEW n, ~(m < n)
  PROVE  pbuf_drop([size |-> s, offset |-> o, max |-> m, dlen |-> d], n) =
           [size |-> s, offset |-> o + n, max |-> m - n, dlen |-> d - n]
<1> DEFINE p == [size |-> s, offset |-> o, max |-> m, dlen |-> d]
           q == [size |-> s, offset |-> o + n, max |-> m - n, dlen |-> d - n]
           r == [p EXCEPT !.max = @ - n, !.offset = @ + n, !.dlen = @ - n]
<1>1. pbuf_drop(p, n) = r
  BY DEF pbuf_drop
<1>2. r = [[[p EXCEPT !.max = @ - n] EXCEPT !.offset = @ + n] EXCEPT !.dlen = @ - n]
  OBVIOUS
<1>3. [p EXCEPT !.max = @ - n] = [size |-> s, offset |-> o, max |-> m - n, dlen |-> d]
  OBVIOUS
<1>4. [[size |-> s, offset |-> o, max |-> m - n, dlen |-> d] EXCEPT !.offset = @ + n] =
        [size |-> s, offset |-> o + n, max |-> m - n, dlen |-> d]
  OBVIOUS
<1>5. [[size |-> s, offset |-> o + n, max |-> m - n, dlen |-> d] EXCEPT !.dlen = @ - n] = q
  OBVIOUS
<1> QED
  BY <1>1, <1>2, <1>3, <1>4, <1>5

\* pbuf_raise, written out.
LEMMA RaiseForm ==
  ASSUME NEW s, NEW o, NEW m, NEW d, NEW n, ~(o < n)
  PROVE  pbuf_raise([size |-> s, offset |-> o, max |-> m, dlen |-> d], n) =
           [size |-> s, offset |-> o - n, max |-> m + n, dlen |-> d + n]
<1> DEFINE p == [size |-> s, offset |-> o, max |-> m, dlen |-> d]
           q == [size |-> s, offset |-> o - n, max |-> m + n, dlen |-> d + n]
           r == [p EXCEPT !.max = @ + n, !.offset = @ - n, !.dlen = @ + n]
<1>1. pbuf_raise(p, n) = r
  BY DEF pbuf_raise
<1>2. r = [[[p EXCEPT !.max = @ + n] EXCEPT !.offset = @ - n] EXCEPT !.dlen = @ + n]
  OBVIOUS
<1>3. [p EXCEPT !.max = @ + n] = [size |-> s, offset |-> o, max |-> m + n, dlen |-> d]
  OBVIOUS
<1>4. [[size |-> s, offset |-> o, max |-> m + n, dlen |-> d] EXCEPT !.offset = @ - n] =
        [size |-> s, offset |-> o - n, max |-> m + n, dlen |-> d]
  OBVIOUS
<1>5. [[size |-> s, offset |-> o - n, max |-> m + n, dlen |-> d] EXCEPT !.dlen = @ + n] = q
  OBVIOUS
<1> QED
  BY <1>1, <1>2, <1>3, <1>4, <1>5

\* What pbuf_raise does when there is room.
LEMMA RaiseFacts ==
  ASSUME NEW p \in Pbuf, NEW n \in Nat, p.offset >= n
  PROVE  /\ pbuf_raise(p, n) \in Pbuf
         /\ pbuf_raise(p, n).size = p.size
         /\ pbuf_raise(p, n).offset = p.offset - n
         /\ pbuf_raise(p, n).max = p.max + n
         /\ pbuf_raise(p, n).dlen = p.dlen + n
<1>1. p.size \in Nat /\ p.offset \in Nat /\ p.max \in Nat /\ p.dlen \in Nat
      /\ p = [size |-> p.size, offset |-> p.offset, max |-> p.max, dlen |-> p.dlen]
  BY DEF Pbuf
<1>2. pbuf_raise(p, n) = [size |-> p.size, offset |-> p.offset - n, max |-> p.max + n, dlen |-> p.dlen + n]
  <2>1. pbuf_raise(p, n) = pbuf_raise([size |-> p.size, offset |-> p.offset, max |-> p.max, dlen |-> p.dlen], n)
    BY <1>1
  <2>2. ~(p.offset < n)
    BY <1>1
  <2> QED
    BY <2>1, <2>2, RaiseForm
<1>3. p.offset - n \in Nat /\ p.max + n \in Nat /\ p.dlen + n \in Nat
  BY <1>1
<1> QED
  BY <1>1, <1>2, <1>3 DEF Pbuf

\* get_buffer leaves room for the headers of its driver.
LEMMA BuiltReady ==
  ASSUME NEW drv \in Driver, NEW n \in BufferLen, NEW len \in SentLen,
         len <= n \/ len = n + 48
  PROVE  Ready(drv, Built(drv, n, len))
<1> DEFINE h == head_size(drv)
<1>1. h \in Nat
  BY DriverFacts
<1> HIDE DEF h
<1>2. n \in Nat /\ len \in Nat /\ n + h \in Nat
  BY <1>1 DEF mtu, BufferLen, SentLen
<1>3. pbuf_drop(pbuf_new(n + h), h) = [size |-> n + h, offset |-> h, max |-> n, dlen |-> 0 - h]
  <2>1. pbuf_new(n + h) = [size |-> n + h, offset |-> 0, max |-> n + h, dlen |-> 0]
    BY DEF pbuf_new
  <2>2. ~(n + h < h) /\ 0 + h = h /\ (n + h) - h = n
    BY <1>1, <1>2
  <2> QED
    BY <2>1, <2>2, DropForm
<1>4. Built(drv, n, len) = [size |-> n + h, offset |-> h, max |-> n, dlen |-> len]
  BY <1>3 DEF Built, h
<1>5. [size |-> n + h, offset |-> h, max |-> n, dlen |-> len] \in Pbuf
  BY <1>1, <1>2 DEF Pbuf
<1> QED
  BY <1>1, <1>2, <1>4, <1>5 DEF Ready, h, SentLen

\* The two calls of pbuf_raise put all headers into that room.
LEMMA SentHeaded ==
  ASSUME NEW drv \in Driver, NEW pb, Ready(drv, pb)
  PROVE  Headed(drv, Sent(drv, pb))
<1> DEFINE F == Frame(drv)
           P == Pi(drv)
           f == IF drv \in Ether THEN pbuf_raise(pb, 14) ELSE pb
           s == Sent(drv, pb)
<1>1. /\ pb \in Pbuf /\ pb.size \in Nat /\ pb.offset \in Nat /\ pb.max \in Nat /\ pb.dlen \in Nat
      /\ pb.offset = head_size(drv) /\ pb.offset + pb.max = pb.size
      /\ pb.dlen \in 60..mtu /\ (pb.dlen <= pb.max \/ pb.dlen = pb.max + 48)
  BY DEF Ready, Pbuf
<1>2. F \in Nat /\ P \in Nat /\ F + P <= head_size(drv) /\ (F = IF drv \in Ether THEN 14 ELSE 0) /\ P \in {0, 4}
      /\ head_size(drv) \in Nat
  BY DriverFacts
<1>3. s = IF P > 0 THEN pbuf_raise(f, 4) ELSE f
  BY DEF Sent
<1> HIDE DEF F, P, s
<1>4. /\ f \in Pbuf /\ f.size = pb.size /\ f.offset = pb.offset - F
      /\ f.max = pb.max + F /\ f.dlen = pb.dlen + F
  <2>1. CASE drv \in Ether
    BY <2>1, <1>1, <1>2, RaiseFacts
  <2>2. CASE drv \notin Ether
    BY <2>2, <1>1, <1>2
  <2> QED BY <2>1, <2>2
<1> HIDE DEF f
<1>5. /\ s \in Pbuf /\ s.size = pb.size /\ s.offset = pb.offset - F - P
      /\ s.max = pb.max + F + P /\ s.dlen = pb.dlen + F + P
  <2>1. CASE P = 4
    <3>1. f.offset >= 4 /\ s = pbuf_raise(f, 4)
      BY <2>1, <1>1, <1>2, <1>3, <1>4
    <3>2. /\ s \in Pbuf /\ s.size = f.size /\ s.offset = f.offset - 4
          /\ s.max = f.max + 4 /\ s.dlen = f.dlen + 4
      BY <3>1, <1>4, RaiseFacts
    <3> QED BY <3>2, <2>1, <1>4
  <2>2. CASE P = 0
    BY <2>2, <1>1, <1>2, <1>3, <1>4
  <2> QED BY <2>1, <2>2, <1>2
<1>6. /\ s.offset + s.max = s.size /\ s.offset + F + P = head_size(drv) /\ s.dlen - (F + P) = pb.dlen
      /\ s.dlen <= s.max \/ s.dlen = s.max + 48
  BY <1>1, <1>2, <1>5
<1> QED
  BY <1>1, <1>5, <1>6 DEF Headed, F, P, s

\* The read buffer of tap has no room for struct tun_pi: the last four bytes of
\* a packet as long as the MTU are cut off; 1276 bytes come whole.
LEMMA ReceivedWhole ==
  ASSUME NEW drv \in Driver, NEW n \in 60..mtu
  PROVE  /\ Received(drv, n).dlen \in 60..mtu
         /\ n <= 1276 => Received(drv, n).dlen = n
<1> DEFINE h == head_size(drv)
           P == Pi(drv)
           F == Frame(drv)
           b == ReadBuffer(drv)
           f == Filled(b, P + F + n)
<1>1. \/ drv \notin Ether /\ drv = "tun" /\ F = 0 /\ P = 4 /\ h = 4
      \/ drv \in Ether /\ drv # "tun" /\ F = 14 /\ ((P = 4 /\ h = 18) \/ (P = 0 /\ h \in {14, 18}))
  BY DriverFacts DEF Driver, Ether
<1>2. n \in Nat /\ n <= 1280
  BY DEF mtu
<1>3. Received(drv, n) = LET p == IF P > 0 THEN pbuf_drop(f, 4) ELSE f
                         IN  IF drv \in Ether THEN pbuf_drop(p, 14) ELSE p
  BY DEF Received
<1>4. b = IF drv = "tun" THEN pbuf_new(1284) ELSE pbuf_drop(pbuf_new(1280 + h), h - 14)
  BY DEF ReadBuffer, mtu
<1> HIDE DEF h, P, F, b
<1>5. CASE drv = "tun"
  <2>1. f = [size |-> 1284, offset |-> 0, max |-> 1284, dlen |-> 4 + n]
    BY <1>1, <1>2, <1>4, <1>5 DEF Filled, pbuf_new
  <2> HIDE DEF f
  <2>2. pbuf_drop(f, 4) = [size |-> 1284, offset |-> 4, max |-> 1280, dlen |-> n]
    <3>1. ~(1284 < 4) /\ 0 + 4 = 4 /\ 1284 - 4 = 1280 /\ (4 + n) - 4 = n
      BY <1>2
    <3> QED
      BY <3>1, <2>1, DropForm
  <2> QED
    BY <2>2, <1>1, <1>2, <1>3, <1>5 DEF mtu
<1>6. CASE drv # "tun"
  <2>1. b = [size |-> 1280 + h, offset |-> h - 14, max |-> 1294, dlen |-> 14 - h]
    <3>1. b = pbuf_drop([size |-> 1280 + h, offset |-> 0, max |-> 1280 + h, dlen |-> 0], h - 14)
      BY <1>4, <1>6 DEF pbuf_new
    <3>2. /\ ~(1280 + h < h - 14) /\ 0 + (h - 14) = h - 14
          /\ (1280 + h) - (h - 14) = 1294 /\ 0 - (h - 14) = 14 - h
      BY <1>1, <1>6
    <3> QED
      BY <3>1, <3>2, DropForm
  <2> DEFINE len == IF P + F + n > 1294 THEN 1294 ELSE P + F + n
  <2>2. f = [size |-> 1280 + h, offset |-> h - 14, max |-> 1294, dlen |-> len]
    BY <2>1 DEF Filled
  <2>3. len \in 74..1294 /\ len >= P + 74 /\ (n <= 1276 => len = P + 14 + n)
    BY <1>1, <1>2, <1>6
  <2> HIDE DEF len, f
  <2>4. CASE P = 4
    <3>1. pbuf_drop(f, 4) = [size |-> 1280 + h, offset |-> (h - 14) + 4, max |-> 1290, dlen |-> len - 4]
      BY <2>2, DropForm
    <3>2. pbuf_drop(pbuf_drop(f, 4), 14) =
            [size |-> 1280 + h, offset |-> ((h - 14) + 4) + 14, max |-> 1290 - 14, dlen |-> (len - 4) - 14]
      <4> DEFINE o == (h - 14) + 4
                 d == len - 4
                 z == 1280 + h
      <4>1. pbuf_drop(f, 4) = [size |-> z, offset |-> o, max |-> 1290, dlen |-> d]
        BY <3>1
      <4>2. ~(1290 < 14)
        OBVIOUS
      <4> HIDE DEF o, d, z
      <4>3. pbuf_drop([size |-> z, offset |-> o, max |-> 1290, dlen |-> d], 14) =
              [size |-> z, offset |-> o + 14, max |-> 1290 - 14, dlen |-> d - 14]
        BY <4>2, DropForm
      <4> QED
        BY <4>1, <4>3 DEF o, d, z
    <3>3. Received(drv, n) = pbuf_drop(pbuf_drop(f, 4), 14)
      BY <2>4, <1>1, <1>3, <1>6
    <3> QED
      <4>1. Received(drv, n).dlen = (len - 4) - 14
        BY <3>2, <3>3
      <4>2. (len - 4) - 14 \in 60..1280 /\ (n <= 1276 => (len - 4) - 14 = n)
        BY <2>3, <2>4, <1>2
      <4> QED
        BY <4>1, <4>2 DEF mtu
  <2>5. CASE P = 0
    <3>1. pbuf_drop(f, 14) = [size |-> 1280 + h, offset |-> (h - 14) + 14, max |-> 1294 - 14, dlen |-> len - 14]
      BY <2>2, DropForm
    <3>2. Received(drv, n) = pbuf_drop(f, 14)
      BY <2>5, <1>1, <1>3, <1>6
    <3> QED
      <4>1. Received(drv, n).dlen = len - 14
        BY <3>1, <3>2
      <4>2. len - 14 \in 60..1280 /\ (n <= 1276 => len - 14 = n)
        BY <2>3, <2>5, <1>2
      <4> QED
        BY <4>1, <4>2 DEF mtu
  <2> QED BY <2>4, <2>5, <1>1, <1>6
<1> QED
  BY <1>5, <1>6

\* Every packet has a next hop on the link.
LEMMA HopOnLink ==
  ASSUME NEW dst \in Addr
  PROVE  NextHop(dst) \in LinkLocal
BY NeighborAssumption DEF NextHop, Addr

-----------------------------------------------------------------------------
(* send_pkt. *)

\* The side with all of its fields given.
Side(d, l, f, q, h, w) ==
    [drv |-> d, nlist |-> l, frames |-> f, asked |-> q, handed |-> h, written |-> w]

\* The fields of a side.
LEMMA SideFields ==
  ASSUME NEW d, NEW l, NEW f, NEW q, NEW h, NEW w
  PROVE  LET k == Side(d, l, f, q, h, w)
         IN  /\ IsLink(k) /\ k.drv = d /\ k.nlist = l /\ k.frames = f
             /\ k.asked = q /\ k.handed = h /\ k.written = w
BY DEF Side, IsLink

\* nlist is replaced.
LEMMA SetNlist ==
  \A d, l, f, q, h, w, x :
    [Side(d, l, f, q, h, w) EXCEPT !.nlist = x] = Side(d, x, f, q, h, w)
BY DEF Side

\* frames is replaced.
LEMMA SetFrames ==
  \A d, l, f, q, h, w, x :
    [Side(d, l, f, q, h, w) EXCEPT !.frames = x] = Side(d, l, x, q, h, w)
BY DEF Side

\* asked is replaced.
LEMMA SetAsked ==
  \A d, l, f, q, h, w, x :
    [Side(d, l, f, q, h, w) EXCEPT !.asked = x] = Side(d, l, f, x, h, w)
BY DEF Side

\* handed is replaced.
LEMMA SetHanded ==
  \A d, l, f, q, h, w, x :
    [Side(d, l, f, q, h, w) EXCEPT !.handed = x] = Side(d, l, f, q, x, w)
BY DEF Side

\* written is replaced.
LEMMA SetWritten ==
  \A d, l, f, q, h, w, x :
    [Side(d, l, f, q, h, w) EXCEPT !.written = x] = Side(d, l, f, q, h, x)
BY DEF Side

\* A frame is written to h when nothing waits for h.
LEMMA WroteKeeps ==
  ASSUME NEW k, NEW H, NEW h \in LinkLocal, LinkOK(k, h, H), Queue(k, h) = <<>>,
         NEW f, FrameOK(k.drv, h, f, H), f.pkt.id = k.handed[h] + 1
  PROVE  LinkOK(Side(k.drv, k.nlist, Append(k.frames, f), k.asked,
                     [k.handed EXCEPT ![h] = @ + 1], k.written), h, H)
<1> DEFINE k2 == Side(k.drv, k.nlist, Append(k.frames, f), k.asked,
                      [k.handed EXCEPT ![h] = @ + 1], k.written)
<1>1. /\ k2.drv = k.drv /\ k2.nlist = k.nlist /\ k2.frames = Append(k.frames, f)
      /\ k2.asked = k.asked /\ k2.handed = [k.handed EXCEPT ![h] = @ + 1]
      /\ k2.written = k.written /\ IsLink(k2)
  BY DEF Side, IsLink
<1> HIDE DEF k2
<1>2. h \in Addr /\ LinkTypes(k) /\ NeighborsOK(k, H) /\ FramesOK(k, h, H) /\ Numbered(k, h)
  BY DEF LinkOK, Addr
<1>3. /\ k.frames \in Seq(FrameType) /\ f \in FrameType
      /\ k.handed \in [Addr -> Nat] /\ k.written \in [Addr -> Nat]
  BY <1>2 DEF LinkTypes, FrameOK
<1>4. /\ Append(k.frames, f) \in Seq(FrameType)
      /\ Len(k.frames) \in Nat /\ Len(Append(k.frames, f)) = Len(k.frames) + 1
      /\ \A i \in 1..Len(k.frames) : Append(k.frames, f)[i] = k.frames[i]
      /\ Append(k.frames, f)[Len(k.frames) + 1] = f
  BY <1>3
<1>5. LinkTypes(k2)
  <2>1. [k.handed EXCEPT ![h] = @ + 1] \in [Addr -> Nat]
    BY <1>2, <1>3
  <2> QED
    BY <1>1, <1>2, <1>4, <2>1 DEF LinkTypes
<1>6. NeighborsOK(k2, H)
  BY <1>1, <1>2 DEF NeighborsOK
<1>7. FramesOK(k2, h, H)
  <2> SUFFICES ASSUME NEW i \in 1..Len(k2.frames) PROVE FrameOK(k.drv, h, k2.frames[i], H)
    BY <1>1 DEF FramesOK
  <2>1. CASE i = Len(k.frames) + 1
    BY <2>1, <1>1, <1>4
  <2>2. CASE i # Len(k.frames) + 1
    <3>1. i \in 1..Len(k.frames)
      BY <2>2, <1>1, <1>4
    <3> QED
      BY <3>1, <1>1, <1>2, <1>4 DEF FramesOK
  <2> QED BY <2>1, <2>2
<1>8. Numbered(k2, h)
  <2>1. \A a : Queue(k2, a) = Queue(k, a)
    BY <1>1 DEF Queue
  <2>2. /\ \A i \in 1..Len(k.frames) : k.frames[i].pkt.id = k.written[h] + i
        /\ k.handed[h] = k.written[h] + Len(k.frames)
    <3>1. k.handed[h] = k.written[h] + Len(k.frames) + Len(Queue(k, h))
      BY <1>2 DEF Numbered, Gone
    <3>2. Len(Queue(k, h)) = 0
      OBVIOUS
    <3>3. k.written[h] \in Nat
      BY <1>2, <1>3
    <3> QED
      BY <1>2, <1>4, <3>1, <3>2, <3>3 DEF Numbered
  <2>3. ASSUME NEW i \in 1..Len(k2.frames) PROVE k2.frames[i].pkt.id = k2.written[h] + i
    <3>0. k.written[h] \in Nat
      BY <1>2, <1>3
    <3>1. CASE i = Len(k.frames) + 1
      BY <3>0, <3>1, <1>1, <1>4, <2>2
    <3>2. CASE i # Len(k.frames) + 1
      <4>1. i \in 1..Len(k.frames)
        BY <3>2, <1>1, <1>4
      <4> QED
        BY <4>1, <1>1, <1>4, <2>2
    <3> QED BY <3>1, <3>2
  <2>4. ASSUME NEW a \in Addr
        PROVE  /\ \A i \in 1..Len(Queue(k2, a)) : Queue(k2, a)[i].id = Gone(k2, h, a) + i
               /\ k2.handed[a] = Gone(k2, h, a) + Len(Queue(k2, a))
    <3>0. k.written[a] \in Nat /\ k.handed[a] \in Nat
      BY <1>3
    <3>1. CASE a = h
      <4>1. Queue(k2, a) = <<>> /\ Len(Queue(k2, a)) = 0
        BY <3>1, <2>1
      <4>2. Gone(k2, h, a) = k.written[h] + (Len(k.frames) + 1) /\ k2.handed[a] = k.handed[h] + 1
        BY <3>1, <1>1, <1>2, <1>3, <1>4 DEF Gone
      <4> QED
        BY <4>1, <4>2, <2>2, <3>0, <3>1, <1>4
    <3>2. CASE a # h
      <4>1. Gone(k2, h, a) = Gone(k, h, a) /\ k2.handed[a] = k.handed[a]
        BY <3>2, <1>1, <1>3 DEF Gone
      <4> QED
        BY <4>1, <2>1, <1>2 DEF Numbered
    <3> QED BY <3>1, <3>2
  <2> QED
    BY <2>3, <2>4 DEF Numbered
<1> QED
  BY <1>5, <1>6, <1>7, <1>8 DEF LinkOK, k2

\* A packet joins the queue of neighbor h, which was asked and has not answered.
LEMMA QueuedKeeps ==
  ASSUME NEW k, NEW H, NEW h \in LinkLocal, LinkOK(k, h, H), NEW p \in Packet,
         NextHop(p.dst) = h, Ready(k.drv, p.pb), p.id = k.handed[h] + 1,
         hwaddr_len(k.drv) > 0,
         NEW l, DOMAIN l = DOMAIN k.nlist \cup {h}, l = [a \in DOMAIN l |-> l[a]],
         \A a \in DOMAIN k.nlist \ {h} : l[a] = k.nlist[a],
         l[h] \in Neighbors, l[h].queue = Append(Queue(k, h), p),
         l[h].state = "INCOMPLETE", l[h].linkaddr = H.told[h],
         NEW q, q \subseteq LinkLocal, k.asked \subseteq q, h \in q \cup H.bare
  PROVE  LinkOK(Side(k.drv, l, k.frames, q, [k.handed EXCEPT ![h] = @ + 1], k.written), h, H)
<1> DEFINE k2 == Side(k.drv, l, k.frames, q, [k.handed EXCEPT ![h] = @ + 1], k.written)
           w == Queue(k, h)
<1>1. /\ k2.drv = k.drv /\ k2.nlist = l /\ k2.frames = k.frames
      /\ k2.asked = q /\ k2.handed = [k.handed EXCEPT ![h] = @ + 1]
      /\ k2.written = k.written /\ IsLink(k2)
  BY DEF Side, IsLink
<1> HIDE DEF k2
<1>2. h \in Addr /\ LinkTypes(k) /\ NeighborsOK(k, H) /\ FramesOK(k, h, H) /\ Numbered(k, h)
  BY DEF LinkOK, Addr
<1>3. k.handed \in [Addr -> Nat] /\ k.written \in [Addr -> Nat]
  BY <1>2 DEF LinkTypes
<1>4. /\ w \in Seq(Packet)
      /\ \A i \in 1..Len(w) : NextHop(w[i].dst) = h /\ Ready(k.drv, w[i].pb)
  <2>1. CASE h \in DOMAIN k.nlist
    BY <2>1, <1>2 DEF NeighborsOK, NeighborOK, Neighbors, Queue
  <2>2. CASE h \notin DOMAIN k.nlist
    BY <2>2 DEF Queue
  <2> QED BY <2>1, <2>2
<1>5. /\ Append(w, p) \in Seq(Packet) /\ Len(w) \in Nat /\ Len(Append(w, p)) = Len(w) + 1
      /\ \A i \in 1..Len(w) : Append(w, p)[i] = w[i]
      /\ Append(w, p)[Len(w) + 1] = p
  BY <1>4
<1> DEFINE w2 == Append(w, p)
<1>6. Queue(k2, h) = w2 /\ \A a : a # h => Queue(k2, a) = Queue(k, a)
  BY <1>1 DEF Queue
<1>w. \A i \in 1..Len(w2) : (i = Len(w) + 1 /\ w2[i] = p) \/ (i \in 1..Len(w) /\ w2[i] = w[i])
  <2> SUFFICES ASSUME NEW i \in 1..Len(w2)
               PROVE  (i = Len(w) + 1 /\ w2[i] = p) \/ (i \in 1..Len(w) /\ w2[i] = w[i])
    OBVIOUS
  <2>1. i \in 1..(Len(w) + 1) /\ Len(w) \in Nat
    BY <1>5
  <2>2. i = Len(w) + 1 \/ i \in 1..Len(w)
    BY <2>1
  <2>3. CASE i = Len(w) + 1
    <3> DEFINE j == Len(w) + 1
    <3>1. w2[j] = p
      BY <1>5
    <3> HIDE DEF w2, w
    <3> QED
      BY <3>1, <2>3, Zenon
  <2>4. CASE i \in 1..Len(w)
    <3>1. w2[i] = w[i]
      BY <2>4, <1>5
    <3> QED
      BY <3>1, <2>4
  <2> QED
    BY <2>2, <2>3, <2>4
<1> HIDE DEF w, w2
<1>7. LinkTypes(k2)
  <2>1. [k.handed EXCEPT ![h] = @ + 1] \in [Addr -> Nat]
    BY <1>2, <1>3
  <2> QED
    BY <1>1, <1>2, <2>1 DEF LinkTypes
<1>8. NeighborsOK(k2, H)
  <2>0. hwaddr_len(k.drv) > 0 => \A a \in LinkLocal \ DOMAIN l : H.told[a] = NULL
    BY <1>2 DEF NeighborsOK
  <2> SUFFICES ASSUME NEW a \in DOMAIN l PROVE NeighborOK(k.drv, q, a, l[a], H)
    BY <1>1, <2>0 DEF NeighborsOK
  <2>1. CASE a = h
    <3>1. l[h].queue = w2
      BY DEF w2, w
    <3>2. \A i \in 1..Len(w2) : NextHop(w2[i].dst) = h /\ Ready(k.drv, w2[i].pb)
      BY <1>w, <1>4
    <3> QED
      BY <2>1, <3>1, <3>2 DEF NeighborOK
  <2>2. CASE a # h
    BY <2>2, <1>2 DEF NeighborsOK, NeighborOK
  <2> QED BY <2>1, <2>2
<1>9. FramesOK(k2, h, H)
  BY <1>1, <1>2 DEF FramesOK
<1>10. Numbered(k2, h)
  <2>1. ASSUME NEW a \in Addr
        PROVE  /\ \A i \in 1..Len(Queue(k2, a)) : Queue(k2, a)[i].id = Gone(k2, h, a) + i
               /\ k2.handed[a] = Gone(k2, h, a) + Len(Queue(k2, a))
    <3>1. Gone(k2, h, a) = Gone(k, h, a)
      BY <1>1 DEF Gone
    <3>2. CASE a # h
      BY <3>1, <3>2, <1>1, <1>2, <1>3, <1>6 DEF Numbered
    <3>3. CASE a = h
      <4>0. Gone(k, h, h) \in Nat /\ Len(w) \in Nat
        <5>1. k.frames \in Seq(FrameType) /\ k.written[h] \in Nat
          BY <1>2, <1>3 DEF LinkTypes
        <5> QED
          BY <5>1, <1>5 DEF Gone
      <4>1. /\ \A i \in 1..Len(w) : w[i].id = Gone(k, h, h) + i
            /\ k.handed[h] = Gone(k, h, h) + Len(w)
        BY <1>2 DEF Numbered, w
      <4>2. k2.handed[h] = k.handed[h] + 1 /\ Len(w2) = Len(w) + 1
        BY <1>1, <1>2, <1>3, <1>5 DEF w2
      <4>3. \A i \in 1..Len(w2) : w2[i].id = Gone(k, h, h) + i
        <5> SUFFICES ASSUME NEW i \in 1..Len(w2) PROVE w2[i].id = Gone(k, h, h) + i
          OBVIOUS
        <5>1. CASE i = Len(w) + 1 /\ w2[i] = p
          BY <5>1, <4>0, <4>1
        <5>2. CASE i \in 1..Len(w) /\ w2[i] = w[i]
          BY <5>2, <4>1
        <5> QED
          BY <5>1, <5>2, <1>w
      <4>4. k2.handed[h] = Gone(k, h, h) + Len(w2)
        BY <4>0, <4>1, <4>2
      <4> QED
        BY <3>1, <3>3, <4>3, <4>4, <1>6
    <3> QED BY <3>2, <3>3
  <2> QED
    BY <2>1, <1>1, <1>2 DEF Numbered
<1> QED
  BY <1>7, <1>8, <1>9, <1>10 DEF LinkOK, k2

\* send_pkt writes the packet or queues it, for next hop h.
LEMMA SendKeeps ==
  ASSUME NEW k, NEW H, NEW h \in LinkLocal, LinkOK(k, h, H), NEW dst \in Addr, NextHop(dst) = h,
         NEW pb, Ready(k.drv, pb)
  PROVE  LinkOK(send_pkt(k, dst, pb), h, H)
<1> DEFINE c == [k.handed EXCEPT ![h] = @ + 1]
           k1 == Side(k.drv, k.nlist, k.frames, k.asked, c, k.written)
           p == [dst |-> dst, id |-> k.handed[h] + 1, pb |-> pb]
           F(mac) == [to |-> mac, pkt |-> [p EXCEPT !.pb = Sent(k.drv, @)]]
<1>1. h \in Addr /\ LinkTypes(k) /\ NeighborsOK(k, H) /\ k.drv \in Driver /\ IsLink(k)
  BY StackAssumption DEF LinkOK, Addr, LinkTypes
<1>2. /\ k1.drv = k.drv /\ k1.nlist = k.nlist /\ k1.frames = k.frames
      /\ k1.asked = k.asked /\ k1.handed = c /\ k1.written = k.written /\ IsLink(k1)
  BY DEF Side, IsLink
<1>3. send_pkt(k, dst, pb) = Route(k1, p)
  <2>1. k = Side(k.drv, k.nlist, k.frames, k.asked, k.handed, k.written)
    BY <1>1 DEF IsLink, Side
  <2>2. [k EXCEPT !.handed[h] = @ + 1] = [k EXCEPT !.handed = c]
    BY <1>1 DEF IsLink
  <2> HIDE DEF c
  <2>3. [k EXCEPT !.handed = c] = k1
    BY <2>1, SetHanded
  <2> QED
    BY <2>2, <2>3 DEF send_pkt
<1>4. p \in Packet /\ NextHop(p.dst) = h /\ p.pb = pb /\ p.id = k.handed[h] + 1
  BY <1>1 DEF Packet, Ready, LinkTypes
<1>5. ASSUME NEW mac \in Mac \cup {NULL},
             hwaddr_len(k.drv) > 0 => mac = H.told[h] /\ (mac = NULL => h \in H.bare)
      PROVE  /\ FrameOK(k.drv, h, F(mac), H) /\ F(mac).pkt.id = k.handed[h] + 1
             /\ send_unicast(k1, p, mac) =
                  Side(k.drv, k.nlist, Append(k.frames, F(mac)), k.asked, c, k.written)
  <2>1. Headed(k.drv, Sent(k.drv, pb)) /\ Sent(k.drv, pb) \in Pbuf
    BY <1>1, SentHeaded DEF Headed
  <2>2. [p EXCEPT !.pb = Sent(k.drv, @)] = [dst |-> dst, id |-> k.handed[h] + 1, pb |-> Sent(k.drv, pb)]
    OBVIOUS
  <2>3. F(mac).to = mac /\ F(mac).pkt = [dst |-> dst, id |-> k.handed[h] + 1, pb |-> Sent(k.drv, pb)]
    BY <2>2
  <2>4. k.handed[h] + 1 \in Nat
    BY <1>1 DEF LinkTypes
  <2>5. F(mac) \in FrameType
    BY <2>1, <2>2, <2>4 DEF FrameType, Packet
  <2>6. send_unicast(k1, p, mac) = [k1 EXCEPT !.frames = Append(k.frames, F(mac))]
    BY <1>2 DEF send_unicast, Side
  <2>7. send_unicast(k1, p, mac) = Side(k.drv, k.nlist, Append(k.frames, F(mac)), k.asked, c, k.written)
    <3> DEFINE fr == Append(k.frames, F(mac))
    <3> HIDE DEF fr, c
    <3>1. [k1 EXCEPT !.frames = fr] = Side(k.drv, k.nlist, fr, k.asked, c, k.written)
      BY SetFrames
    <3> QED
      BY <3>1, <2>6 DEF fr
  <2> HIDE DEF F
  <2> QED
    BY <1>5, <2>1, <2>3, <2>5, <2>7 DEF FrameOK
<1>n. ASSUME NEW a \in DOMAIN k.nlist PROVE NeighborOK(k.drv, k.asked, a, k.nlist[a], H)
  BY <1>1 DEF NeighborsOK
<1> HIDE DEF k1, p, F
<1>6. CASE hwaddr_len(k.drv) = 0
  <2>1. Queue(k, h) = <<>>
    BY <1>6, <1>n DEF Queue, NeighborOK
  <2>2. send_pkt(k, dst, pb) = send_unicast(k1, p, NULL)
    BY <1>2, <1>3, <1>6 DEF Route
  <2>3. /\ FrameOK(k.drv, h, F(NULL), H) /\ F(NULL).pkt.id = k.handed[h] + 1
        /\ send_pkt(k, dst, pb) =
             Side(k.drv, k.nlist, Append(k.frames, F(NULL)), k.asked, c, k.written)
    BY <2>2, <1>5, <1>6
  <2> QED
    BY <2>1, <2>3, WroteKeeps
<1>7. CASE hwaddr_len(k.drv) # 0
  <2>0. hwaddr_len(k.drv) > 0
    BY <1>7 DEF hwaddr_len
  <2>1. CASE h \notin DOMAIN k.nlist
    <3> DEFINE n == [state |-> "INCOMPLETE", linkaddr |-> NULL, queue |-> <<>>]
               n2 == [state |-> "INCOMPLETE", linkaddr |-> NULL, queue |-> Append(<<>>, p)]
               l == With(k.nlist, h, n)
               l2 == With(k.nlist, h, n2)
               q == k.asked \cup {h}
    <3>1. icmp_send_ns(k1, h) = Side(k.drv, k.nlist, k.frames, q, c, k.written)
      <4>1. icmp_send_ns(k1, h) = [k1 EXCEPT !.asked = q]
        BY <1>2 DEF icmp_send_ns, IsLink
      <4> HIDE DEF q
      <4> QED
        BY <4>1, SetAsked DEF k1
    <3>2. add_neighbor(icmp_send_ns(k1, h), h, NULL) = Side(k.drv, l, k.frames, q, c, k.written)
      <4> DEFINE k3 == Side(k.drv, k.nlist, k.frames, q, c, k.written)
      <4>1. IsLink(k3) /\ k3.drv = k.drv /\ k3.nlist = k.nlist
        BY DEF Side, IsLink
      <4>2. [k3 EXCEPT !.nlist = l] = Side(k.drv, l, k.frames, q, c, k.written)
        <5> HIDE DEF l, c, q
        <5> QED BY SetNlist
      <4>3. add_neighbor(k3, h, NULL) = [k3 EXCEPT !.nlist = l]
        BY <4>1, <1>7 DEF add_neighbor, Side
      <4> QED
        BY <3>1, <4>2, <4>3
    <3>3. queue_packet(Side(k.drv, l, k.frames, q, c, k.written), h, p) = Side(k.drv, l2, k.frames, q, c, k.written)
      <4> DEFINE k3 == Side(k.drv, l, k.frames, q, c, k.written)
      <4>1. IsLink(k3) /\ k3.nlist = l
        BY DEF Side, IsLink
      <4>2. [l EXCEPT ![h].queue = Append(@, p)] = l2
        <5>1. l[h] = n /\ h \in DOMAIN l
          BY DEF With
        <5>2. [n EXCEPT !.queue = Append(@, p)] = n2
          OBVIOUS
        <5>3. [l EXCEPT ![h].queue = Append(@, p)] = [l EXCEPT ![h] = n2]
          BY <5>1, <5>2
        <5> HIDE DEF n, n2
        <5> QED
          BY <5>3 DEF With
      <4>3. queue_packet(k3, h, p) = [k3 EXCEPT !.nlist = [l EXCEPT ![h].queue = Append(@, p)]]
        BY <4>1 DEF queue_packet, Side
      <4> HIDE DEF l, l2, k3
      <4>4. [k3 EXCEPT !.nlist = l2] = Side(k.drv, l2, k.frames, q, c, k.written)
        <5> HIDE DEF c, q
        <5> QED BY SetNlist DEF k3
      <4> QED
        BY <4>2, <4>3, <4>4 DEF k3
    <3>4. send_pkt(k, dst, pb) = Side(k.drv, l2, k.frames, q, c, k.written)
      BY <1>2, <1>3, <1>4, <1>7, <2>1, <3>2, <3>3 DEF Route, find_neighbor
    <3>5. /\ DOMAIN l2 = DOMAIN k.nlist \cup {h} /\ l2 = [a \in DOMAIN l2 |-> l2[a]]
          /\ \A a \in DOMAIN k.nlist \ {h} : l2[a] = k.nlist[a]
          /\ l2[h] = n2
      <4> HIDE DEF n2
      <4> QED BY DEF With
    <3>6. /\ n2 \in Neighbors /\ n2.queue = Append(Queue(k, h), p) /\ n2.state = "INCOMPLETE"
          /\ n2.linkaddr = H.told[h]
      BY <1>1, <2>0, <2>1, <1>4 DEF Neighbors, Queue, NeighborsOK
    <3>7. q \subseteq LinkLocal /\ k.asked \subseteq q /\ h \in q \cup H.bare
      BY <1>1 DEF LinkTypes
    <3> HIDE DEF l2, q, n2
    <3>8. /\ p \in Packet /\ NextHop(p.dst) = h /\ Ready(k.drv, p.pb) /\ p.id = k.handed[h] + 1
          /\ hwaddr_len(k.drv) > 0
          /\ l2[h] \in Neighbors /\ l2[h].queue = Append(Queue(k, h), p) /\ l2[h].state = "INCOMPLETE"
          /\ l2[h].linkaddr = H.told[h]
      BY <3>5, <3>6, <1>4, <2>0
    <3>9. LinkOK(Side(k.drv, l2, k.frames, q, [k.handed EXCEPT ![h] = @ + 1], k.written), h, H)
      BY <3>5, <3>7, <3>8, QueuedKeeps
    <3> QED
      BY <3>4, <3>9
  <2>2. CASE h \in DOMAIN k.nlist /\ k.nlist[h].state = "REACHABLE"
    <3> DEFINE mac == k.nlist[h].linkaddr
    <3>1. /\ mac \in Mac \cup {NULL} /\ mac = H.told[h] /\ (mac = NULL => h \in H.bare)
          /\ Queue(k, h) = <<>>
      BY <2>0, <2>2, <1>n DEF NeighborOK, Neighbors, Queue
    <3>2. send_pkt(k, dst, pb) = send_unicast(k1, p, mac)
      BY <1>2, <1>3, <1>4, <1>7, <2>2 DEF Route, find_neighbor
    <3> HIDE DEF mac
    <3>3. /\ FrameOK(k.drv, h, F(mac), H) /\ F(mac).pkt.id = k.handed[h] + 1
          /\ send_pkt(k, dst, pb) =
               Side(k.drv, k.nlist, Append(k.frames, F(mac)), k.asked, c, k.written)
      BY <3>1, <3>2, <1>5
    <3> QED
      BY <3>1, <3>3, WroteKeeps
  <2>3. CASE h \in DOMAIN k.nlist /\ k.nlist[h].state # "REACHABLE"
    <3> DEFINE n == k.nlist[h]
               n2 == [n EXCEPT !.queue = Append(@, p)]
               l2 == [k.nlist EXCEPT ![h] = n2]
    <3>1. NeighborOK(k.drv, k.asked, h, n, H) /\ n \in Neighbors /\ n.state = "INCOMPLETE"
      BY <2>3, <1>n DEF NeighborOK, Neighbors
    <3>2. send_pkt(k, dst, pb) = queue_packet(k1, h, p)
      BY <1>2, <1>3, <1>4, <1>7, <2>3 DEF Route, find_neighbor
    <3>3. queue_packet(k1, h, p) = [k1 EXCEPT !.nlist = [k.nlist EXCEPT ![h].queue = Append(@, p)]]
      BY <1>2 DEF queue_packet, IsLink
    <3>4. [k.nlist EXCEPT ![h].queue = Append(@, p)] = l2
      BY <2>3
    <3>5. /\ DOMAIN l2 = DOMAIN k.nlist \cup {h} /\ l2 = [a \in DOMAIN l2 |-> l2[a]]
          /\ \A a \in DOMAIN k.nlist \ {h} : l2[a] = k.nlist[a]
          /\ l2[h] = n2
      BY <2>3
    <3>6. /\ n2 \in Neighbors /\ n2.queue = Append(Queue(k, h), p) /\ n2.state = "INCOMPLETE"
          /\ n2.linkaddr = H.told[h]
      <4>1. n.queue \in Seq(Packet) /\ Append(n.queue, p) \in Seq(Packet)
        BY <3>1, <1>4 DEF Neighbors
      <4>2. Queue(k, h) = n.queue
        BY <2>3 DEF Queue
      <4>3. n.linkaddr = H.told[h]
        BY <2>0, <3>1 DEF NeighborOK
      <4> QED
        BY <3>1, <4>1, <4>2, <4>3 DEF Neighbors
    <3>7. [k1 EXCEPT !.nlist = l2] = Side(k.drv, l2, k.frames, k.asked, c, k.written)
      <4> HIDE DEF l2
      <4> QED BY SetNlist DEF k1
    <3>8. h \in k.asked \cup H.bare
      BY <3>1 DEF NeighborOK
    <3>9. k.asked \subseteq LinkLocal
      BY <1>1 DEF LinkTypes
    <3>10. send_pkt(k, dst, pb) = Side(k.drv, l2, k.frames, k.asked, c, k.written)
      BY <3>2, <3>3, <3>4, <3>7
    <3> HIDE DEF l2, n2
    <3>11. /\ p \in Packet /\ NextHop(p.dst) = h /\ Ready(k.drv, p.pb) /\ p.id = k.handed[h] + 1
           /\ hwaddr_len(k.drv) > 0
           /\ l2[h] \in Neighbors /\ l2[h].queue = Append(Queue(k, h), p) /\ l2[h].state = "INCOMPLETE"
           /\ l2[h].linkaddr = H.told[h]
      BY <3>5, <3>6, <1>4, <2>0
    <3>12. LinkOK(Side(k.drv, l2, k.frames, k.asked, [k.handed EXCEPT ![h] = @ + 1], k.written), h, H)
      BY <3>5, <3>8, <3>9, <3>11, QueuedKeeps
    <3> QED
      BY <3>10, <3>12
  <2> QED
    BY <2>1, <2>2, <2>3
<1> QED
  BY <1>6, <1>7
-----------------------------------------------------------------------------
(* got_neighbor. *)

\* A function on 1..n is a sequence of length n.
LEMMA SeqOfFcn ==
  ASSUME NEW n \in Nat, NEW S, NEW f \in [1..n -> S]
  PROVE  f \in Seq(S) /\ Len(f) = n
OBVIOUS

\* The frame that packet p makes.
FrameOf(drv, mac, p) == [to |-> mac, pkt |-> [p EXCEPT !.pb = Sent(drv, @)]]

\* The frames of a neighbor's queue, and the list without that queue.
FramesOf(drv, n) == [i \in 1..Len(n.queue) |-> FrameOf(drv, n.linkaddr, n.queue[i])]
Emptied(l, a) == [l EXCEPT ![a].queue = <<>>]
IsNlist(l) == l = [b \in DOMAIN l |-> l[b]]

\* The packets that waited for a neighbor are written one after the other, in the
\* order of the queue.
LEMMA FlushedForm ==
  ASSUME NEW d, NEW l, NEW a \in LinkLocal, a \in DOMAIN l,
         IsNlist(l), l[a].state = "REACHABLE", l[a].queue \in Seq(Packet),
         l[a].queue # <<>> => hwaddr_len(d) > 0,
         \A i \in 1..Len(l[a].queue) : NextHop(l[a].queue[i].dst) = a,
         NEW s, NEW h, NEW w
  PROVE  Flushed(Side(d, l, <<>>, s, h, w), a) =
           Side(d, Emptied(l, a), FramesOf(d, l[a]), s, h, w)
<1> DEFINE q == l[a].queue
           N == Len(q)
           mac == l[a].linkaddr
           k == Side(d, l, <<>>, s, h, w)
           F(i) == FrameOf(d, mac, q[i])
           G(i) == Side(d, l, [j \in 1..i |-> F(j)], s, h, w)
           out[i \in 0..N] == IF i = 0 THEN k ELSE Route(out[i - 1], q[i])
           g == [i \in 0..N |-> G(i)]
<1>1. k.nlist = l
  BY SideFields
<1>2. Flushed(k, a) = [out[N] EXCEPT !.nlist[a].queue = <<>>]
  BY <1>1 DEF Flushed
<1>3. N \in Nat
  OBVIOUS
<1> HIDE DEF q, N, k, out
<1>4. G(0) = k
  <2>1. [j \in 1..0 |-> F(j)] = <<>>
    <3> HIDE DEF F
    <3> QED OBVIOUS
  <2> QED BY <2>1 DEF k
<1>5. ASSUME NEW i \in 1..N PROVE Route(G(i - 1), q[i]) = G(i)
  <2> DEFINE fr == [j \in 1..(i - 1) |-> F(j)]
  <2>1. /\ G(i - 1).drv = d /\ G(i - 1).nlist = l /\ G(i - 1).frames = fr
    <3> HIDE DEF fr
    <3>1. Side(d, l, fr, s, h, w).drv = d /\ Side(d, l, fr, s, h, w).nlist = l
          /\ Side(d, l, fr, s, h, w).frames = fr
      BY SideFields
    <3> QED BY <3>1 DEF fr
  <2>2. NextHop(q[i].dst) = a /\ hwaddr_len(d) # 0
    <3>1. Len(<<>>) = 0
      OBVIOUS
    <3>2. hwaddr_len(d) > 0
      BY <3>1, <1>3 DEF q, N
    <3> QED
      BY <3>2 DEF q, N
  <2> HIDE DEF G
  <2>3. Route(G(i - 1), q[i]) = send_unicast(G(i - 1), q[i], mac)
    BY <2>1, <2>2 DEF Route, find_neighbor
  <2>4. send_unicast(G(i - 1), q[i], mac) = [G(i - 1) EXCEPT !.frames = Append(fr, F(i))]
    <3> DEFINE y == G(i - 1)
    <3>1. y.drv = d /\ y.frames = fr
      BY <2>1
    <3>2. y = Side(d, l, fr, s, h, w)
      BY DEF G
    <3>3. DOMAIN y = DOMAIN Side(d, l, fr, s, h, w) /\ "frames" \in DOMAIN y
      <4> HIDE DEF fr, y
      <4> QED BY <3>2 DEF Side
    <3> HIDE DEF fr, y
    <3> QED
      BY <3>1, <3>3 DEF send_unicast, FrameOf, y
  <2>5. Append(fr, F(i)) = [j \in 1..i |-> F(j)]
    <3> HIDE DEF F
    <3>1. i \in Nat /\ i - 1 \in Nat /\ (i - 1) + 1 = i
      BY <1>3
    <3> DEFINE S == {F(j) : j \in 1..N}
               fi == [j \in 1..i |-> F(j)]
    <3>2. \A j \in 1..i : j \in 1..N
      BY <3>1, <1>3
    <3>3. \A j \in 1..i : F(j) \in S
      BY <3>2
    <3> HIDE DEF S, F
    <3>4. fr \in Seq(S) /\ Len(fr) = i - 1 /\ \A j \in 1..(i - 1) : fr[j] = F(j)
      <4>1. \A j \in 1..(i - 1) : F(j) \in S
        BY <3>1, <3>3
      <4>2. fr \in [1..(i - 1) -> S] /\ \A j \in 1..(i - 1) : fr[j] = F(j)
        BY <4>1
      <4> HIDE DEF fr
      <4> QED
        BY <4>2, <3>1, SeqOfFcn
    <3>5. fi \in Seq(S) /\ Len(fi) = i /\ \A j \in 1..i : fi[j] = F(j)
      <4>1. fi \in [1..i -> S] /\ \A j \in 1..i : fi[j] = F(j)
        BY <3>3
      <4> HIDE DEF fi
      <4> QED
        BY <4>1, <3>1, SeqOfFcn
    <3>6. F(i) \in S
      BY <3>1, <3>3
    <3> HIDE DEF fr, fi
    <3> DEFINE ap == Append(fr, F(i))
    <3>7. ap \in Seq(S) /\ Len(ap) = i /\ (\A j \in 1..(i - 1) : ap[j] = fr[j]) /\ ap[i] = F(i)
      BY <3>1, <3>4, <3>6
    <3> HIDE DEF ap
    <3>8. ASSUME NEW j \in 1..Len(ap) PROVE ap[j] = fi[j]
      <4>1. j = i \/ j \in 1..(i - 1)
        BY <3>1, <3>7
      <4>2. j \in 1..i
        BY <3>7
      <4> QED
        BY <4>1, <4>2, <3>4, <3>5, <3>7
    <3>9. ap = fi
      BY <3>5, <3>7, <3>8, SeqEqual
    <3> QED
      BY <3>9 DEF ap, fi
  <2>6. [G(i - 1) EXCEPT !.frames = Append(fr, F(i))] = G(i)
    <3> DEFINE fi == [j \in 1..i |-> F(j)]
    <3>1. G(i - 1) = Side(d, l, fr, s, h, w) /\ G(i) = Side(d, l, fi, s, h, w)
      BY DEF G
    <3>2. Append(fr, F(i)) = fi
      BY <2>5
    <3> HIDE DEF fr, fi, F
    <3>3. [Side(d, l, fr, s, h, w) EXCEPT !.frames = fi] = Side(d, l, fi, s, h, w)
      BY SetFrames
    <3> QED
      BY <3>1, <3>2, <3>3
  <2> QED
    BY <2>3, <2>4, <2>6
<1> HIDE DEF G
<1>6. g = [i \in 0..N |-> IF i = 0 THEN k ELSE Route(g[i - 1], q[i])]
  <2>1. ASSUME NEW i \in 0..N PROVE g[i] = IF i = 0 THEN k ELSE Route(g[i - 1], q[i])
    <3>1. CASE i = 0
      BY <3>1, <1>4
    <3>2. CASE i # 0
      <4>1. i \in 1..N /\ i - 1 \in 0..N
        BY <3>2, <1>3
      <4>2. g[i - 1] = G(i - 1) /\ g[i] = G(i)
        BY <4>1
      <4> QED
        BY <3>2, <4>1, <4>2, <1>5
    <3> QED BY <3>1, <3>2
  <2> QED
    BY <2>1
<1>7. out = [i \in 0..N |-> IF i = 0 THEN k ELSE Route(out[i - 1], q[i])]
  <2> HIDE DEF g
  <2>1. \E f : f = [i \in 0..N |-> IF i = 0 THEN k ELSE Route(f[i - 1], q[i])]
    BY <1>6
  <2> QED
    BY <2>1 DEF out
<1>8. ASSUME NEW i \in 0..N PROVE out[i] = G(i)
  <2> DEFINE T == {j \in 0..N : out[j] # G(j)}
  <2>1. SUFFICES ASSUME T # {} PROVE FALSE
    OBVIOUS
  <2>2. T \subseteq Nat
    BY <1>3
  <2>3. PICK m \in T : \A j \in T : m <= j
    <3> HIDE DEF T
    <3> QED BY <2>1, <2>2, LeastNat
  <2>4. m \in 0..N /\ out[m] # G(m)
    OBVIOUS
  <2>5. out[m] = IF m = 0 THEN k ELSE Route(out[m - 1], q[m])
    BY <1>7, <2>4
  <2>6. m # 0
    BY <2>4, <2>5, <1>4
  <2>7. m \in 1..N /\ m - 1 \in 0..N /\ ~(m <= m - 1)
    BY <2>4, <2>6, <1>3
  <2>8. out[m - 1] = G(m - 1)
    BY <2>3, <2>7
  <2> QED
    BY <2>4, <2>5, <2>6, <2>7, <2>8, <1>5
<1>9. Flushed(k, a) = [G(N) EXCEPT !.nlist[a].queue = <<>>]
  BY <1>2, <1>3, <1>8
<1> DEFINE fN == FramesOf(d, l[a])
           l0 == Emptied(l, a)
<1>10. G(N) = Side(d, l, fN, s, h, w)
  BY DEF G, N, q, FramesOf
<1> HIDE DEF fN
<1>11. [G(N) EXCEPT !.nlist[a].queue = <<>>] = [G(N) EXCEPT !.nlist = l0]
  <2> HIDE DEF F
  <2>1. G(N).nlist = l /\ "nlist" \in DOMAIN G(N)
    BY <1>10 DEF Side
  <2> QED
    BY <2>1 DEF Emptied
<1>12. [G(N) EXCEPT !.nlist = l0] = Side(d, l0, fN, s, h, w)
  <2> HIDE DEF F
  <2>1. ASSUME NEW x PROVE [G(N) EXCEPT !.nlist = x] = Side(d, x, fN, s, h, w)
    BY <1>10, SetNlist
  <2> QED BY <2>1
<1> QED
  BY <1>9, <1>11, <1>12 DEF k, fN

\* What the neighbors said keeps its type.
LEMMA HeardType ==
  ASSUME NEW G, HeardOK(G), NEW a \in LinkLocal, NEW lladdr \in Mac \cup {NULL}
  PROVE  HeardOK(Heard(G, a, lladdr))
BY DEF HeardOK, Heard

\* A neighbor shows its hardware address, or advertises without: if it is in the
\* list it becomes reachable and what waited for it is written.
LEMMA GotKeeps ==
  ASSUME NEW k, NEW G, HeardOK(G), NEW a \in LinkLocal, LinkOK(k, a, G), k.frames = <<>>,
         NEW lladdr \in Mac \cup {NULL}
  PROVE  /\ LinkOK(got_neighbor(k, a, lladdr), a, Heard(G, a, lladdr))
         /\ got_neighbor(k, a, lladdr).drv = k.drv
<1> DEFINE H == Heard(G, a, lladdr)
           d == k.drv
           q == Queue(k, a)
<1>1. a \in Addr /\ LinkTypes(k) /\ NeighborsOK(k, G) /\ Numbered(k, a) /\ IsLink(k)
  BY DEF LinkOK, Addr, LinkTypes
<1>2. /\ DOMAIN k.nlist \subseteq LinkLocal /\ k.nlist = [b \in DOMAIN k.nlist |-> k.nlist[b]]
      /\ k.handed \in [Addr -> Nat] /\ k.written \in [Addr -> Nat] /\ k.asked \subseteq LinkLocal
      /\ d \in Drivers /\ d \in Driver
  BY <1>1, StackAssumption DEF LinkTypes
<1>3. k = Side(d, k.nlist, <<>>, k.asked, k.handed, k.written)
  BY <1>1 DEF IsLink, Side
<1>h. /\ \A b \in LinkLocal \ {a} : H.told[b] = G.told[b]
      /\ H.told[a] = IF lladdr = NULL THEN G.told[a] ELSE lladdr
      /\ G.bare \subseteq H.bare /\ (lladdr = NULL => a \in H.bare)
  BY DEF Heard, HeardOK
<1> HIDE DEF H
<1>g. \A b \in DOMAIN k.nlist : NeighborOK(d, k.asked, b, k.nlist[b], G)
  BY <1>1 DEF NeighborsOK
<1>4. \A b \in DOMAIN k.nlist \ {a} : NeighborOK(d, k.asked, b, k.nlist[b], H)
  <2>1. ASSUME NEW b \in DOMAIN k.nlist \ {a} PROVE NeighborOK(d, k.asked, b, k.nlist[b], H)
    <3>1. NeighborOK(d, k.asked, b, k.nlist[b], G) /\ H.told[b] = G.told[b]
      BY <1>2, <1>g, <1>h
    <3> QED
      BY <3>1, <1>h DEF NeighborOK
  <2> QED BY <2>1
<1>t. hwaddr_len(d) > 0 => \A b \in LinkLocal \ (DOMAIN k.nlist \cup {a}) : H.told[b] = NULL
  BY <1>1, <1>h DEF NeighborsOK
<1>5. \A b \in Addr :
        /\ \A i \in 1..Len(Queue(k, b)) : Queue(k, b)[i].id = k.written[b] + i
        /\ k.handed[b] = k.written[b] + Len(Queue(k, b))
  <2>1. Len(k.frames) = 0
    OBVIOUS
  <2>2. ASSUME NEW b \in Addr PROVE Gone(k, a, b) = k.written[b]
    BY <2>1, <1>2 DEF Gone
  <2> QED
    BY <2>2, <1>1 DEF Numbered
<1>6. CASE a \notin DOMAIN k.nlist
  <2> DEFINE st == IF hwaddr_len(d) = 0 \/ lladdr # NULL THEN "REACHABLE" ELSE "INCOMPLETE"
             n == [state |-> st, linkaddr |-> lladdr, queue |-> <<>>]
             l == With(k.nlist, a, n)
             k2 == Side(d, l, <<>>, k.asked, k.handed, k.written)
  <2>1. /\ hwaddr_len(d) \in {0, 6} /\ (hwaddr_len(d) > 0 => H.told[a] = lladdr)
        /\ st = "INCOMPLETE" => hwaddr_len(d) > 0 /\ lladdr = NULL
        /\ st \in {"INCOMPLETE", "REACHABLE"}
    BY <1>1, <1>6, <1>h DEF hwaddr_len, NeighborsOK
  <2>2. got_neighbor(k, a, lladdr) = [k EXCEPT !.nlist = l]
    <3>1. got_neighbor(k, a, lladdr) = add_neighbor(k, a, lladdr)
      BY <1>6 DEF got_neighbor, find_neighbor
    <3>2. "nlist" \in DOMAIN k
      BY <1>1 DEF IsLink
    <3> QED
      BY <3>1, <3>2 DEF add_neighbor
  <2>3. [k EXCEPT !.nlist = l] = k2
    <3> HIDE DEF l
    <3> QED BY <1>3, SetNlist
  <2>4. /\ DOMAIN l = DOMAIN k.nlist \cup {a} /\ l = [b \in DOMAIN l |-> l[b]]
        /\ l[a] = n /\ \A b \in DOMAIN k.nlist : l[b] = k.nlist[b]
    <3> HIDE DEF n
    <3> QED BY <1>6 DEF With
  <2> HIDE DEF st
  <2>5. n.state = st /\ n.linkaddr = lladdr /\ n.queue = <<>> /\ n \in Neighbors
    BY <2>1 DEF Neighbors
  <2> HIDE DEF l, n
  <2>6. /\ IsLink(k2) /\ k2.drv = d /\ k2.nlist = l /\ k2.frames = <<>> /\ k2.asked = k.asked
        /\ k2.handed = k.handed /\ k2.written = k.written
    BY SideFields
  <2> HIDE DEF k2
  <2>7. LinkTypes(k2)
    BY <2>4, <2>6, <1>2 DEF LinkTypes
  <2>8. NeighborsOK(k2, H)
    <3>1. NeighborOK(d, k.asked, a, n, H)
      <4>1. Len(n.queue) = 0
        BY <2>5
      <4> QED
        BY <4>1, <2>1, <2>5, <1>h DEF NeighborOK
    <3> QED
      BY <3>1, <2>4, <2>6, <1>4, <1>6, <1>t DEF NeighborsOK
  <2>9. FramesOK(k2, a, H)
    BY <2>6 DEF FramesOK
  <2>10. Numbered(k2, a)
    <3>1. \A b : Queue(k2, b) = Queue(k, b)
      BY <2>4, <2>5, <2>6, <1>6 DEF Queue
    <3>2. \A b \in Addr : Gone(k2, a, b) = k.written[b]
      <4>1. Len(k2.frames) = 0
        BY <2>6
      <4> QED
        BY <4>1, <2>6, <1>2 DEF Gone
    <3> QED
      BY <3>1, <3>2, <2>6, <1>5 DEF Numbered
  <2> QED
    BY <2>2, <2>3, <2>6, <2>7, <2>8, <2>9, <2>10 DEF LinkOK, H
<1>7. CASE a \in DOMAIN k.nlist
  <2> DEFINE o == k.nlist[a]
             mac == IF lladdr # NULL THEN lladdr ELSE o.linkaddr
             n1 == [state |-> "REACHABLE", linkaddr |-> mac, queue |-> o.queue]
             l1 == [k.nlist EXCEPT ![a] = n1]
             k1 == Side(d, l1, <<>>, k.asked, k.handed, k.written)
             n == [state |-> "REACHABLE", linkaddr |-> mac, queue |-> <<>>]
             l == [k.nlist EXCEPT ![a] = n]
             F(i) == FrameOf(d, mac, o.queue[i])
             fr == [i \in 1..Len(o.queue) |-> F(i)]
             k2 == Side(d, l, fr, k.asked, k.handed, k.written)
  <2>1. /\ o \in Neighbors /\ o.queue \in Seq(Packet) /\ o.linkaddr \in Mac \cup {NULL}
        /\ o = [state |-> o.state, linkaddr |-> o.linkaddr, queue |-> o.queue]
        /\ NeighborOK(d, k.asked, a, o, G) /\ q = o.queue
    BY <1>g, <1>7 DEF NeighborOK, Neighbors, Queue
  <2>2. /\ mac \in Mac \cup {NULL}
        /\ hwaddr_len(d) > 0 => mac = H.told[a] /\ (mac = NULL => a \in H.bare)
    BY <2>1, <1>h DEF NeighborOK
  <2>3. got_neighbor(k, a, lladdr) = Flushed(k1, a)
    <3> DEFINE y == [k EXCEPT !.nlist[a].state = "REACHABLE",
                              !.nlist[a].linkaddr = IF lladdr # NULL THEN lladdr ELSE @]
    <3>1. got_neighbor(k, a, lladdr) = Flushed(y, a)
      BY <1>7 DEF got_neighbor, find_neighbor
    <3>2. y = [k EXCEPT !.nlist = [k.nlist EXCEPT ![a] = [[o EXCEPT !.state = "REACHABLE"] EXCEPT !.linkaddr = mac]]]
      BY <1>1, <1>2, <1>7, <2>1 DEF IsLink
    <3>3. [[o EXCEPT !.state = "REACHABLE"] EXCEPT !.linkaddr = mac] = n1
      <4> HIDE DEF mac
      <4>1. [o EXCEPT !.state = "REACHABLE"] = [state |-> "REACHABLE", linkaddr |-> o.linkaddr, queue |-> o.queue]
        BY <2>1
      <4>2. [[state |-> "REACHABLE", linkaddr |-> o.linkaddr, queue |-> o.queue] EXCEPT !.linkaddr = mac] = n1
        <5> HIDE DEF o
        <5> QED OBVIOUS
      <4> QED
        BY <4>1, <4>2
    <3>4. y = [k EXCEPT !.nlist = l1]
      BY <3>2, <3>3
    <3> HIDE DEF l1, y
    <3>5. [k EXCEPT !.nlist = l1] = k1
      BY <1>3, SetNlist
    <3> QED
      BY <3>1, <3>4, <3>5
  <2>4. /\ a \in DOMAIN l1 /\ l1 = [b \in DOMAIN l1 |-> l1[b]] /\ l1[a] = n1
    <3> HIDE DEF n1
    <3> QED BY <1>2, <1>7
  <2>5. n1.state = "REACHABLE" /\ n1.queue = o.queue /\ n1.linkaddr = mac
    OBVIOUS
  <2>6. [l1 EXCEPT ![a].queue = <<>>] = l
    <3>1. [n1 EXCEPT !.queue = <<>>] = n
      <4> HIDE DEF mac
      <4> QED OBVIOUS
    <3>2. [l1 EXCEPT ![a].queue = <<>>] = [l1 EXCEPT ![a] = n]
      BY <2>4, <3>1
    <3> HIDE DEF n1, n
    <3> QED
      BY <3>2, <1>2, <1>7
  <2>7. /\ DOMAIN l = DOMAIN k.nlist /\ l = [b \in DOMAIN l |-> l[b]]
        /\ l[a] = n /\ \A b \in DOMAIN k.nlist \ {a} : l[b] = k.nlist[b]
    <3> HIDE DEF n
    <3> QED BY <1>2, <1>7
  <2>8. n.state = "REACHABLE" /\ n.linkaddr = mac /\ n.queue = <<>> /\ n \in Neighbors
    BY <2>2 DEF Neighbors
  <2>9. /\ \A i \in 1..Len(o.queue) : NextHop(o.queue[i].dst) = a /\ Ready(d, o.queue[i].pb)
        /\ o.queue # <<>> => hwaddr_len(d) > 0
    BY <2>1 DEF NeighborOK
  <2> HIDE DEF n, n1, l, l1, mac, o
  <2>10. Flushed(k1, a) = k2
    <3>1. /\ l1[a].state = "REACHABLE" /\ l1[a].queue = o.queue /\ l1[a].linkaddr = mac
          /\ l1[a].queue \in Seq(Packet) /\ (l1[a].queue # <<>> => hwaddr_len(d) > 0)
          /\ \A i \in 1..Len(l1[a].queue) : NextHop(l1[a].queue[i].dst) = a
      BY <2>1, <2>4, <2>5, <2>9
    <3>3. fr = FramesOf(d, l1[a])
      BY <3>1 DEF FramesOf
    <3> HIDE DEF fr
    <3>2. Flushed(Side(d, l1, <<>>, k.asked, k.handed, k.written), a) =
            Side(d, l, fr, k.asked, k.handed, k.written)
      <4>1. a \in DOMAIN l1 /\ IsNlist(l1) /\ Emptied(l1, a) = l
        BY <2>4, <2>6 DEF IsNlist, Emptied
      <4> HIDE DEF d
      <4> QED
        BY <3>1, <3>3, <4>1, FlushedForm
    <3> QED
      BY <3>2
  <2>11. /\ IsLink(k2) /\ k2.drv = d /\ k2.nlist = l /\ k2.frames = fr /\ k2.asked = k.asked
         /\ k2.handed = k.handed /\ k2.written = k.written
    <3> HIDE DEF fr
    <3> QED BY SideFields
  <2> HIDE DEF k2
  <2>12. ASSUME NEW i \in 1..Len(o.queue) PROVE FrameOK(d, a, F(i), H) /\ F(i).pkt.id = o.queue[i].id
    <3> DEFINE p == o.queue[i]
    <3>1. p \in Packet /\ NextHop(p.dst) = a /\ Ready(d, p.pb)
      BY <2>1, <2>9
    <3>2. Headed(d, Sent(d, p.pb)) /\ Sent(d, p.pb) \in Pbuf
      BY <3>1, <1>2, SentHeaded DEF Headed
    <3> HIDE DEF p
    <3>3. p = [dst |-> p.dst, id |-> p.id, pb |-> p.pb] /\ p.dst \in Addr /\ p.id \in Nat
      BY <3>1 DEF Packet
    <3>4. [p EXCEPT !.pb = Sent(d, @)] = [dst |-> p.dst, id |-> p.id, pb |-> Sent(d, p.pb)]
      BY <3>3
    <3>5. F(i) = [to |-> mac, pkt |-> [dst |-> p.dst, id |-> p.id, pb |-> Sent(d, p.pb)]]
      BY <3>4 DEF FrameOf, p
    <3> HIDE DEF F
    <3>6. F(i) \in FrameType
      BY <3>2, <3>3, <3>5, <2>2 DEF FrameType, Packet
    <3>7. F(i).to = mac /\ F(i).pkt.dst = p.dst /\ F(i).pkt.id = p.id /\ F(i).pkt.pb = Sent(d, p.pb)
      BY <3>5
    <3> QED
      BY <3>1, <3>2, <3>6, <3>7, <2>2 DEF FrameOK, p
  <2>13. /\ fr \in Seq(FrameType) /\ Len(fr) = Len(o.queue)
         /\ \A i \in 1..Len(o.queue) : fr[i] = F(i)
    <3>1. \A i \in 1..Len(o.queue) : F(i) \in FrameType
      BY <2>12 DEF FrameOK
    <3>2. Len(o.queue) \in Nat
      BY <2>1
    <3> HIDE DEF F
    <3> QED
      BY <3>1, <3>2
  <2> HIDE DEF fr, F
  <2>14. LinkTypes(k2)
    BY <2>7, <2>11, <2>13, <1>2 DEF LinkTypes
  <2>15. NeighborsOK(k2, H)
    <3>1. NeighborOK(d, k.asked, a, n, H)
      <4>1. Len(n.queue) = 0
        BY <2>8
      <4> QED
        BY <4>1, <2>2, <2>8 DEF NeighborOK
    <3> QED
      BY <3>1, <2>7, <2>11, <1>4, <1>7, <1>t DEF NeighborsOK
  <2>16. FramesOK(k2, a, H)
    BY <2>11, <2>12, <2>13 DEF FramesOK
  <2>17. Numbered(k2, a)
    <3>0. Len(o.queue) \in Nat /\ \A b \in Addr : k.written[b] \in Nat
      BY <2>1, <1>2
    <3>1. ASSUME NEW i \in 1..Len(k2.frames) PROVE k2.frames[i].pkt.id = k2.written[a] + i
      <4>1. i \in 1..Len(q) /\ k2.frames[i].pkt.id = q[i].id
        BY <2>1, <2>11, <2>12, <2>13
      <4> QED
        BY <4>1, <2>11, <1>1, <1>5
    <3>2. ASSUME NEW b \in Addr
          PROVE  /\ \A i \in 1..Len(Queue(k2, b)) : Queue(k2, b)[i].id = Gone(k2, a, b) + i
                 /\ k2.handed[b] = Gone(k2, a, b) + Len(Queue(k2, b))
      <4>1. CASE b = a
        <5>1. Queue(k2, b) = <<>> /\ Len(Queue(k2, b)) = 0
          BY <4>1, <2>7, <2>8, <2>11, <1>7 DEF Queue
        <5>2. Gone(k2, a, b) = k.written[a] + Len(q) /\ k2.handed[b] = k.handed[a]
          BY <4>1, <2>1, <2>11, <2>13 DEF Gone
        <5>3. k.handed[a] = k.written[a] + Len(q)
          BY <1>1, <1>5
        <5>4. k.written[a] + Len(q) \in Nat
          BY <3>0, <2>1, <1>1
        <5> QED
          BY <5>1, <5>2, <5>3, <5>4
      <4>2. CASE b # a
        <5>1. Queue(k2, b) = Queue(k, b)
          BY <4>2, <2>7, <2>11 DEF Queue
        <5>2. Gone(k2, a, b) = k.written[b]
          BY <4>2, <2>11 DEF Gone
        <5> QED
          BY <5>1, <5>2, <2>11, <1>5
      <4> QED BY <4>1, <4>2
    <3> QED
      BY <3>1, <3>2 DEF Numbered
  <2> QED
    BY <2>3, <2>10, <2>11, <2>14, <2>15, <2>16, <2>17 DEF LinkOK, H
<1> QED
  BY <1>6, <1>7
-----------------------------------------------------------------------------
(* The steps. *)

\* The frames of the last step are all for h.
LEMMA FramesToCount ==
  ASSUME NEW h, NEW H, LinkOK(link, h, H), NEW a, NEW n \in 0..Len(link.frames)
  PROVE  FramesTo(a, n) = IF a = h THEN n ELSE 0
<1>1. Len(link.frames) \in Nat /\ \A i \in 1..Len(link.frames) : NextHop(link.frames[i].pkt.dst) = h
  BY DEF LinkOK, LinkTypes, FramesOK, FrameOK
<1>2. \A i \in 1..n : NextHop(link.frames[i].pkt.dst) = h
  BY <1>1
<1> DEFINE S == {i \in 1..n : NextHop(link.frames[i].pkt.dst) = a}
<1>3. CASE a = h
  <2>1. S = 1..n
    BY <1>2, <1>3
  <2>2. Cardinality(1..n) = n
    <3>1. n \in Nat
      BY <1>1
    <3> QED BY <3>1, FS_Interval
  <2> QED
    BY <1>3, <2>1, <2>2 DEF FramesTo
<1>4. CASE a # h
  <2>1. S = {}
    BY <1>2, <1>4
  <2> QED
    BY <1>4, <2>1, FS_EmptySet DEF FramesTo
<1> QED
  BY <1>3, <1>4

\* When a step begins, the frames of the last one are gone.
LEMMA NowKeeps ==
  ASSUME NEW H, NEW h \in LinkLocal, LinkOK(link, h, H), NEW g \in LinkLocal
  PROVE  LinkOK(now, g, H) /\ now.frames = <<>> /\ now.drv = link.drv /\ link.drv \in Driver
<1> DEFINE w == [a \in Addr |-> link.written[a] + FramesTo(a, Len(link.frames))]
           k == Side(link.drv, link.nlist, <<>>, link.asked, link.handed, w)
           W == link.written
<1>1. LinkTypes(link) /\ NeighborsOK(link, H) /\ Numbered(link, h) /\ IsLink(link)
  BY DEF LinkOK, LinkTypes
<1>2. /\ DOMAIN link.nlist \subseteq LinkLocal /\ IsNlist(link.nlist)
      /\ link.handed \in [Addr -> Nat] /\ link.written \in [Addr -> Nat] /\ link.asked \subseteq LinkLocal
      /\ link.drv \in Drivers /\ link.drv \in Driver /\ Len(link.frames) \in Nat
  BY <1>1, StackAssumption DEF LinkTypes, IsNlist
<1>3. now = k
  <2>1. link = Side(link.drv, link.nlist, link.frames, link.asked, link.handed, link.written)
    BY <1>1 DEF IsLink, Side
  <2>2. now = [[link EXCEPT !.frames = <<>>] EXCEPT !.written = w]
    BY <1>1 DEF now, IsLink
  <2> HIDE DEF w
  <2>3. [link EXCEPT !.frames = <<>>] = Side(link.drv, link.nlist, <<>>, link.asked, link.handed, link.written)
    BY <2>1, SetFrames
  <2>4. [Side(link.drv, link.nlist, <<>>, link.asked, link.handed, link.written) EXCEPT !.written = w] = k
    BY SetWritten
  <2> QED
    BY <2>2, <2>3, <2>4
<1>4. \A a \in Addr : w[a] = Gone(link, h, a) /\ w[a] \in Nat
  <2>1. ASSUME NEW a \in Addr PROVE w[a] = Gone(link, h, a) /\ w[a] \in Nat
    <3>1. FramesTo(a, Len(link.frames)) = IF a = h THEN Len(link.frames) ELSE 0
      BY <1>2, FramesToCount
    <3>2. W[a] \in Nat
      BY <1>2
    <3> QED
      BY <3>1, <3>2, <1>2 DEF Gone
  <2> QED BY <2>1
<1>5. w = [a \in Addr |-> w[a]]
  OBVIOUS
<1> HIDE DEF w
<1>6. /\ IsLink(k) /\ k.drv = link.drv /\ k.nlist = link.nlist /\ k.frames = <<>>
      /\ k.asked = link.asked /\ k.handed = link.handed /\ k.written = w
  BY SideFields
<1> HIDE DEF k
<1>7. w \in [Addr -> Nat]
  BY <1>4, <1>5
<1>8. LinkTypes(k)
  BY <1>2, <1>6, <1>7 DEF LinkTypes, IsNlist
<1>9. NeighborsOK(k, H)
  BY <1>1, <1>6 DEF NeighborsOK
<1>10. FramesOK(k, g, H)
  BY <1>6 DEF FramesOK
<1>11. Numbered(k, g)
  <2>1. \A a : Queue(k, a) = Queue(link, a)
    BY <1>6 DEF Queue
  <2>2. \A a \in Addr : Gone(k, g, a) = Gone(link, h, a)
    <3>1. Len(k.frames) = 0
      BY <1>6
    <3> QED
      BY <3>1, <1>4, <1>6 DEF Gone
  <2> QED
    BY <2>1, <2>2, <1>1, <1>6 DEF Numbered
<1> QED
  BY <1>2, <1>3, <1>6, <1>8, <1>9, <1>10, <1>11 DEF LinkOK

\* Whoever sends a packet, to whichever address.
LEMMA SendsKeeps ==
  ASSUME NEW k, NEW dst \in Addr, NEW n \in BufferLen, NEW len \in SentLen, k.drv \in Driver,
         len <= n \/ len = n + 48,
         HeardOK(heard'), LinkOK(k, NextHop(dst), heard'), Sends(k, dst, n, len)
  PROVE  IInv'
<1>1. NextHop(dst) \in LinkLocal
  BY HopOnLink
<1>2. Ready(k.drv, Built(k.drv, n, len))
  <2>1. \A d \in Driver : Ready(d, Built(d, n, len))
    BY BuiltReady
  <2> QED
    BY <2>1
<1>3. LinkOK(send_pkt(k, dst, Built(k.drv, n, len)), NextHop(dst), heard')
  BY <1>1, <1>2, SendKeeps
<1>4. link' = send_pkt(k, dst, Built(k.drv, n, len))
  BY DEF Sends
<1> QED
  BY <1>1, <1>3, <1>4 DEF IInv

\* The invariant is inductive.
LEMMA NextKeeps ==
  ASSUME IInv, Next
  PROVE  IInv'
<1>0. HeardOK(heard)
  BY DEF IInv
<1>1. PICK h \in LinkLocal : LinkOK(link, h, heard)
  BY DEF IInv
<1>2. /\ \A g \in LinkLocal : LinkOK(now, g, heard)
      /\ now.frames = <<>> /\ now.drv = link.drv /\ link.drv \in Driver
  BY <1>1, NowKeeps
<1>3. ASSUME NEW dst \in Addr, NEW n \in BufferLen, NEW len \in SentLen, len <= n \/ len = n + 48,
             Sends(now, dst, n, len), UNCHANGED heard
      PROVE  IInv'
  <2>1. LinkOK(now, NextHop(dst), heard') /\ now.drv \in Driver /\ HeardOK(heard')
    BY <1>0, <1>2, <1>3, HopOnLink
  <2> QED
    BY <1>3, <2>1, SendsKeeps
<1>4. LinkLocal \subseteq Addr /\ Global \subseteq Addr
  BY DEF Addr
<1>5. /\ \A m \in {60, 64, 68, 72, 128, 1280, 1500} : m \in BufferLen
      /\ \A m \in {60, 64, 72, 1280} : m \in SentLen
      /\ \A m \in SentLen : m \in BufferLen
  BY DEF mtu, BufferLen, SentLen
<1>6. ASSUME NEW n \in PacketLen, handle_packet(Received(link.drv, n).dlen)
      PROVE  IInv'
  <2> DEFINE len == Received(link.drv, n).dlen
  <2>1. len \in SentLen
    BY <1>2, StackAssumption, ReceivedWhole DEF SentLen
  <2> HIDE DEF len
  <2>2. ASSUME NEW src \in Addr, icmp_send_ping_reply(src, len), UNCHANGED heard PROVE IInv'
    <3>1. len \in Nat /\ len <= len
      BY <2>1 DEF SentLen, mtu
    <3> QED
      BY <2>1, <2>2, <3>1, <1>3, <1>5 DEF icmp_send_ping_reply
  <2>3. ASSUME NEW src \in LinkLocal, NEW mac \in Mac \cup {NULL}, NEW mine \in BOOLEAN,
               handle_icmp_ns(src, mac, mine)
        PROVE  IInv'
    <3> DEFINE k == IF hwaddr_len(link.drv) > 0 /\ mac # NULL
                      THEN got_neighbor(now, src, mac) ELSE now
    <3>0. heard' = IF hwaddr_len(link.drv) > 0 /\ mac # NULL THEN Heard(heard, src, mac) ELSE heard
      BY <2>3 DEF handle_icmp_ns
    <3>h. HeardOK(heard')
      BY <3>0, <1>0, HeardType
    <3>1. LinkOK(k, src, heard') /\ k.drv = link.drv
      <4>1. CASE hwaddr_len(link.drv) > 0 /\ mac # NULL
        BY <4>1, <3>0, <1>0, <1>2, GotKeeps
      <4>2. CASE ~(hwaddr_len(link.drv) > 0 /\ mac # NULL)
        BY <4>2, <3>0, <1>2
      <4> QED BY <4>1, <4>2
    <3>2. IF mine THEN icmp_send_na(k, src) ELSE link' = k
      BY <2>3 DEF handle_icmp_ns
    <3> HIDE DEF k
    <3>3. CASE mine
      <4> DEFINE m == IF hwaddr_len(k.drv) > 0 THEN 72 ELSE 64
      <4>1. Sends(k, src, 128, m) /\ m \in SentLen /\ 128 \in BufferLen /\ m <= 128
        BY <3>2, <3>3, <1>5 DEF icmp_send_na
      <4>2. NextHop(src) = src /\ src \in Addr /\ k.drv \in Driver
        BY <3>1, <1>2, <1>4 DEF NextHop
      <4> HIDE DEF m
      <4> QED
        BY <3>1, <3>h, <4>1, <4>2, SendsKeeps
    <3>4. CASE ~mine
      BY <3>1, <3>2, <3>4, <3>h DEF IInv
    <3> QED BY <3>3, <3>4
  <2>4. ASSUME NEW src \in LinkLocal, NEW mac \in Mac \cup {NULL}, handle_icmp_na(src, mac)
        PROVE  IInv'
    <3> DEFINE ll == IF hwaddr_len(link.drv) > 0 THEN mac ELSE NULL
    <3>1. ll \in Mac \cup {NULL}
      OBVIOUS
    <3>2. link' = got_neighbor(now, src, ll) /\ heard' = Heard(heard, src, ll)
      BY <2>4 DEF handle_icmp_na
    <3> HIDE DEF ll
    <3>3. LinkOK(got_neighbor(now, src, ll), src, Heard(heard, src, ll))
      BY <3>1, <1>0, <1>2, GotKeeps
    <3>4. HeardOK(heard')
      BY <3>1, <3>2, <1>0, HeardType
    <3> QED
      BY <3>2, <3>3, <3>4 DEF IInv
  <2>5. ASSUME NEW src \in Global, tcp_fabricate_rst(src), UNCHANGED heard PROVE IInv'
    BY <2>5, <1>3, <1>4, <1>5 DEF tcp_fabricate_rst
  <2>6. CASE link' = now /\ UNCHANGED heard
    BY <2>6, <1>0, <1>1, <1>2 DEF IInv
  <2>7. ASSUME NEW src \in Addr, icmp_send_error(src, len), UNCHANGED heard PROVE IInv'
    <3> DEFINE nlen == Smaller(len, 1232)
               m == nlen + 48
    <3>1. Sends(now, src, nlen, m)
      BY <2>7 DEF icmp_send_error
    <3>2. nlen \in BufferLen /\ m \in SentLen /\ m = nlen + 48
      BY <2>1 DEF Smaller, mtu, BufferLen, SentLen
    <3> HIDE DEF nlen, m
    <3> QED
      BY <3>1, <3>2, <2>7, <1>3
  <2>8. handle_packet(len)
    BY <1>6 DEF len
  <2> QED
    BY <2>2, <2>3, <2>4, <2>5, <2>6, <2>7, <2>8 DEF handle_packet, handle_icmp
<1>7. ASSUME NEW dst \in Global,
             \/ tcp_send_syn(dst) \/ tcp_send_rst(dst) \/ tcp_send_and_ack(dst, 1220)
             \/ udp_send(dst, 65536),
             UNCHANGED heard
      PROVE  IInv'
  <2>1. dst \in Addr
    BY <1>4
  <2>2. CASE tcp_send_syn(dst)
    BY <2>1, <2>2, <1>3, <1>5, <1>7 DEF tcp_send_syn
  <2>3. CASE tcp_send_rst(dst)
    BY <2>1, <2>3, <1>3, <1>5, <1>7 DEF tcp_send_rst
  <2>4. CASE tcp_send_and_ack(dst, 1220)
    <3>1. Sends(now, dst, 1500, 1280)
      BY <2>4 DEF tcp_send_and_ack
    <3> QED
      BY <3>1, <2>1, <1>3, <1>5, <1>7
  <2>5. CASE udp_send(dst, 65536)
    <3>1. Sends(now, dst, 1280, 1280)
      BY <2>5 DEF udp_send, Smaller
    <3> QED
      BY <3>1, <2>1, <1>3, <1>5, <1>7
  <2> QED
    BY <1>7, <2>2, <2>3, <2>4, <2>5
<1> QED
  BY <1>6, <1>7 DEF Next, ReadPacket, SessionSends

\* The initial states satisfy it.
LEMMA InitKeeps ==
  ASSUME Init
  PROVE  IInv
<1> DEFINE z == [a \in Addr |-> 0]
<1>1. PICK drv \in Drivers : link = Side(drv, << >>, <<>>, {}, z, z)
  BY DEF Init, Side
<1>2. z \in [Addr -> Nat] /\ \A a \in Addr : z[a] = 0
  OBVIOUS
<1> HIDE DEF z
<1>3. /\ IsLink(link) /\ link.drv = drv /\ link.nlist = << >> /\ link.frames = <<>>
      /\ link.asked = {} /\ link.handed = z /\ link.written = z
  BY <1>1, SideFields
<1>4. DOMAIN link.nlist = {} /\ Len(link.frames) = 0
  BY <1>3
<1>5. LinkTypes(link)
  <2>1. <<>> \in Seq(FrameType)
    OBVIOUS
  <2>2. link.nlist = [a \in DOMAIN link.nlist |-> link.nlist[a]]
    BY <1>3, <1>4
  <2> QED
    BY <1>2, <1>3, <1>4, <2>1, <2>2 DEF LinkTypes
<1>h. heard = [told |-> [a \in LinkLocal |-> NULL], bare |-> {}]
  BY DEF Init
<1>6. /\ NeighborsOK(link, heard) /\ FramesOK(link, otherlladdr, heard)
      /\ HeardOK(heard)
  BY <1>4, <1>h DEF NeighborsOK, FramesOK, HeardOK
<1>7. Numbered(link, otherlladdr)
  <2>1. \A a : Queue(link, a) = <<>> /\ Len(Queue(link, a)) = 0
    BY <1>4 DEF Queue
  <2>2. \A a \in Addr : Gone(link, otherlladdr, a) = 0 /\ link.handed[a] = 0
    BY <1>2, <1>3, <1>4 DEF Gone
  <2> QED
    BY <2>1, <2>2, <1>4 DEF Numbered
<1> QED
  BY <1>5, <1>6, <1>7, NeighborAssumption DEF IInv, LinkOK

\* Every behaviour keeps the invariant.
LEMMA InvAlways == Spec => []IInv
<1>1. ASSUME IInv, UNCHANGED vars
      PROVE  IInv'
  BY <1>1 DEF IInv, vars
<1>2. IInv /\ [Next]_vars => IInv'
  BY <1>1, NextKeeps
<1> QED
  BY InitKeeps, <1>2, PTL DEF Spec
-----------------------------------------------------------------------------
(* What the invariant says. *)

\* The neighbor list, the frames and the counters keep their types: a neighbor is
\* added only for an address on the link.
THEOREM TypesAlways == Spec => []TypeOK
<1>1. ASSUME IInv PROVE TypeOK
  <2>1. PICK h \in LinkLocal : LinkOK(link, h, heard)
    BY <1>1 DEF IInv
  <2>2. LinkTypes(link) /\ NeighborsOK(link, heard)
    BY <2>1 DEF LinkOK
  <2>3. DOMAIN link = {"drv", "nlist", "frames", "asked", "handed", "written"}
    BY <2>2 DEF LinkTypes, IsLink
  <2>4. \A a \in DOMAIN link.nlist : link.nlist[a] \in Neighbors
    BY <2>2 DEF NeighborsOK, NeighborOK
  <2>5. DOMAIN link.nlist \subseteq Addr
    BY <2>2 DEF LinkTypes, Addr
  <2> QED
    BY <1>1, <2>2, <2>3, <2>4, <2>5 DEF TypeOK, LinkTypes, FrameType, IInv, HeardOK
<1> QED
  BY <1>1, InvAlways, PTL

\* Whatever packets, solicitations and advertisements come in between, send_pkt and
\* got_neighbor write every packet for a next hop once and in order.
THEOREM InOrderAlways == Spec => []InOrder
<1>1. ASSUME IInv PROVE InOrder
  <2>1. PICK h \in LinkLocal : LinkOK(link, h, heard)
    BY <1>1 DEF IInv
  <2>2. /\ LinkTypes(link) /\ Numbered(link, h) /\ Len(link.frames) \in Nat
        /\ \A i \in 1..Len(link.frames) : NextHop(link.frames[i].pkt.dst) = h
    BY <2>1 DEF LinkOK, LinkTypes, FramesOK, FrameOK
  <2>3. ASSUME NEW a, NEW n \in 0..Len(link.frames)
        PROVE  FramesTo(a, n) = IF a = h THEN n ELSE 0
    BY <2>1, FramesToCount
  <2> SUFFICES ASSUME NEW a \in Addr
               PROVE  LET out == link.written[a] + FramesTo(a, Len(link.frames))
                      IN  /\ \A i \in 1..Len(link.frames) :
                               NextHop(link.frames[i].pkt.dst) = a =>
                                 link.frames[i].pkt.id = link.written[a] + FramesTo(a, i)
                          /\ \A i \in 1..Len(Waiting(a)) : Waiting(a)[i].id = out + i
                          /\ link.handed[a] = out + Len(Waiting(a))
    BY DEF InOrder
  <2>4. link.written[a] + FramesTo(a, Len(link.frames)) = Gone(link, h, a)
    <3>1. FramesTo(a, Len(link.frames)) = IF a = h THEN Len(link.frames) ELSE 0
      BY <2>2, <2>3
    <3>2. link.written[a] \in Nat
      BY <2>2 DEF LinkTypes
    <3> QED
      BY <3>1, <3>2, <2>2 DEF Gone
  <2>5. Waiting(a) = Queue(link, a)
    BY DEF Waiting, Queue
  <2>6. ASSUME NEW i \in 1..Len(link.frames), NextHop(link.frames[i].pkt.dst) = a
        PROVE  link.frames[i].pkt.id = link.written[a] + FramesTo(a, i)
    <3>1. a = h
      BY <2>2, <2>6
    <3>2. FramesTo(a, i) = i
      <4>1. i \in 0..Len(link.frames)
        BY <2>2
      <4> QED
        BY <3>1, <4>1, <2>3
    <3> QED
      BY <3>1, <3>2, <2>2 DEF Numbered
  <2> QED
    BY <2>2, <2>4, <2>5, <2>6 DEF Numbered
<1> QED
  BY <1>1, InvAlways, PTL

\* A packet waits only for a neighbor that has not answered and that icmp_send_ns
\* asked for; got_neighbor leaves none behind.  A neighbor that nobody asked has
\* sent an advertisement without the option.
THEOREM WaitsForAnswerAlways == Spec => []WaitsForAnswer
<1>1. IInv => WaitsForAnswer
  BY DEF IInv, LinkOK, NeighborsOK, NeighborOK, WaitsForAnswer
<1> QED
  BY <1>1, InvAlways, PTL

\* On an Ethernet every frame goes to the hardware address that its next hop
\* announced last, in a solicitation or an advertisement.  A next hop that never
\* announced one gets a frame, to an address that was never written, only after an
\* advertisement without the option.
THEOREM FramesAddressedAlways == Spec => []FramesAddressed
<1>1. ASSUME IInv, hwaddr_len(link.drv) > 0, NEW i \in 1..Len(link.frames)
      PROVE  LET hop == NextHop(link.frames[i].pkt.dst)
             IN  /\ link.frames[i].to = heard.told[hop]
                 /\ heard.told[hop] = NULL => hop \in heard.bare
  <2>1. PICK h \in LinkLocal : LinkOK(link, h, heard)
    BY <1>1 DEF IInv
  <2>2. FrameOK(link.drv, h, link.frames[i], heard)
    BY <1>1, <2>1 DEF LinkOK, FramesOK
  <2> QED
    BY <1>1, <2>2 DEF FrameOK
<1>2. IInv => FramesAddressed
  BY <1>1 DEF FramesAddressed
<1> QED
  BY <1>2, InvAlways, PTL

\* The headers that the driver puts before a packet fit into the room get_buffer
\* left, for every driver and every handler that builds a packet, and every packet
\* is within its buffer but the one that icmp_send_error writes 48 bytes too far.
THEOREM HeadersFitAlways == Spec => []HeadersFit
<1>1. ASSUME IInv PROVE HeadersFit
  <2>1. PICK h \in LinkLocal : LinkOK(link, h, heard)
    BY <1>1 DEF IInv
  <2> SUFFICES ASSUME NEW i \in 1..Len(link.frames)
               PROVE  LET pb   == link.frames[i].pkt.pb
                          head == Frame(link.drv) + Pi(link.drv)
                      IN  /\ pb.offset + pb.max = pb.size
                          /\ pb.offset + head = head_size(link.drv)
                          /\ pb.dlen - head \in 60..mtu
                          /\ pb.dlen <= pb.max \/ pb.dlen = pb.max + 48
    BY DEF HeadersFit
  <2> DEFINE pb == link.frames[i].pkt.pb
             F == Frame(link.drv)
             P == Pi(link.drv)
  <2>2. Headed(link.drv, pb)
    BY <2>1 DEF LinkOK, FramesOK, FrameOK
  <2>3. link.drv \in Driver
    BY <2>1, StackAssumption DEF LinkOK, LinkTypes
  <2>4. F \in Nat /\ P \in Nat
    BY <2>3, DriverFacts
  <2> HIDE DEF pb, F, P
  <2>5. pb.offset \in Nat /\ pb.offset + F + P = head_size(link.drv)
        /\ pb.offset + pb.max = pb.size /\ pb.dlen - (F + P) \in 60..mtu
        /\ (pb.dlen <= pb.max \/ pb.dlen = pb.max + 48)
    BY <2>2 DEF Headed, Pbuf, F, P
  <2>6. pb.offset + (F + P) = head_size(link.drv)
    BY <2>4, <2>5
  <2> QED
    BY <2>5, <2>6 DEF pb, F, P
<1> QED
  BY <1>1, InvAlways, PTL

\* The longest segment that fits the MSS the daemon announces is read whole.
THEOREM SegmentsWholeAlways == Spec => []SegmentsWhole
<1>1. ASSUME IInv PROVE SegmentsWhole
  <2>1. link.drv \in Driver
    BY <1>1, StackAssumption DEF IInv, LinkOK, LinkTypes
  <2>2. ASSUME NEW n \in {60, 60 + 1216} PROVE Received(link.drv, n).dlen = n
    <3>1. n \in 60..mtu /\ n <= 1276
      BY DEF mtu
    <3> QED
      BY <3>1, <2>1, ReceivedWhole
  <2> QED
    BY <2>2 DEF SegmentsWhole
<1> QED
  BY <1>1, InvAlways, PTL
=============================================================================
