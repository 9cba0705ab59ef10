--------------------------- MODULE Streams_proofs ---------------------------
(***************************************************************************)
(* The two streams of a session.  What the IPv4 peer sends reaches the     *)
(* client as it was sent, without a hole, a repetition or a byte out of    *)
(* place, whatever is lost and however often the timers run; what is to be *)
(* sent is scheduled, and the daemon does not sleep on it; and the window  *)
(* it offers in return is not taken back.  What is written to the IPv4     *)
(* socket is what the client sent, and what was acknowledged to the client *)
(* is written or held in inbuf.  Built on the inductive invariant of       *)
(* TcpRelay_proofs.                                                        *)
(***************************************************************************)
EXTENDS TcpRelay_proofs

\* The bytes of a segment are those of the stream at its number, and its FIN is
\* behind the last byte that was read from the socket, which is closed then.
Placed(w, iss, sent, p) ==
    /\ iss + 1 <= p.seq
    /\ p.data # <<>> => p.seq + Len(p.data) <= iss + 1 + sent
    /\ \A i \in 1..Len(p.data) : p.data[i] = p.seq - iss - 1 + i
    /\ "FIN" \in p.flags => p.seq + Len(p.data) = iss + 1 + sent /\ w.map = NULL

Segment(p) == "RST" \notin p.flags /\ "SYN" \notin p.flags

\* An open client expects the number of the byte after those it got.
ExpectsNext(w, iss, sent, c) ==
    /\ Len(c.got) <= sent
    /\ c.rcv = iss + 1 + Len(c.got) + (IF c.fin THEN 1 ELSE 0)
    /\ c.fin => Len(c.got) = sent /\ w.map = NULL

SegmentsPlaced(w, iss, sent, out) ==
    \A p \in Packets(out) : Segment(p) => Placed(w, iss, sent, p)

StreamOK(w, iss, sent, out, c) ==
    /\ c.got = Upto(Len(c.got))
    /\ Early(c) => c.got = <<>> /\ ~c.fin
    /\ c.st = "open" => ExpectsNext(w, iss, sent, c) /\ SegmentsPlaced(w, iss, sent, out)

StreamInv == StreamOK(w0, Iss, s_sent, to_client, client)
-----------------------------------------------------------------------------
(* Only do_tcb_write sends segments: everything else sends nothing or a    *)
(* reset.                                                                  *)

\* v is a daemon state in which nothing was sent since w.
Silent(w, v) == "out" \in DOMAIN w => "out" \in DOMAIN v /\ v.out = w.out

\* One packet was sent, that resets the session.
SendsReset(w, v) ==
    "out" \in DOMAIN w =>
      "out" \in DOMAIN v /\ \E p : v.out = Append(w.out, p) /\ "RST" \in p.flags

Resets(w, v) == Silent(w, v) \/ SendsReset(w, v)

\* The functions that touch events, the map and the timer send nothing.
LEMMA SilentEvents ==
  ASSUME NEW w
  PROVE  /\ \A e : Silent(w, AddEvent(w, e)) /\ Silent(w, RemoveEvent(w, e))
         /\ \A m : Silent(w, [w EXCEPT !.map = m])
         /\ \A t : Silent(w, [w EXCEPT !.tcb = t])
  BY DEF Silent, AddEvent, RemoveEvent

\* Silence before and after silence or a reset.
LEMMA SilentTrans ==
  ASSUME NEW w, NEW v, NEW u, Silent(w, v)
  PROVE  (Silent(v, u) => Silent(w, u)) /\ (Resets(v, u) => Resets(w, u))
  BY DEF Silent, Resets, SendsReset

\* A reset before silence.
LEMMA ResetsTrans ==
  ASSUME NEW w, NEW v, NEW u, Resets(w, v), Silent(v, u)
  PROVE  Resets(w, u)
  BY DEF Silent, Resets, SendsReset

\* So do the functions of ptrtd-tcp.c and tcp.c made of them.
LEMMA SilentFunctions ==
  ASSUME NEW w
  PROVE  /\ Silent(w, kill_map(w)) /\ Silent(w, can_read(w)) /\ Silent(w, mark_for_if_write(w))
         /\ Silent(w, Discard(w)) /\ Silent(w, set_timeout(w)) /\ Silent(w, TimeWait(w))
         /\ \A s : Silent(w, output_space(w, s))
  BY DEF Silent, kill_map, can_read, mark_for_if_write, Discard, set_timeout, TimeWait,
         output_space, AddEvent, RemoveEvent

\* Sending bytes only stores them, and reading them only takes them.
LEMMA SilentSend ==
  ASSUME NEW w, NEW data
  PROVE  Silent(w, tcp_send(w, data)) /\ Silent(w, tcp_read(w))
<1>1. Silent(w, tcp_send(w, data))
  <2> DEFINE v == [w EXCEPT !.tcb.outbuf = Written(@, data, BufSize)]
  <2>1. Silent(w, v)
    BY DEF Silent
  <2>2. tcp_send(w, data) = v \/ tcp_send(w, data) = mark_for_if_write(v)
    BY DEF tcp_send
  <2> HIDE DEF v
  <2> QED BY <2>1, <2>2, SilentFunctions, SilentTrans
<1>2. Silent(w, tcp_read(w))
  <2> DEFINE s == SeqAdd(w.tcb.read_seq, Len(Readable(w.tcb)))
             v == [w EXCEPT !.tcb.read_seq = s, !.tcb.inbuf = Advanced(@, s),
                            !.tcb.rcv_wnd = rb_left(Advanced(w.tcb.inbuf, s))]
             u == [v EXCEPT !.tcb.last_acked = SeqAdd(@, -1)]
  <2>1. Silent(w, v) /\ Silent(v, u)
    BY DEF Silent
  <2>2. tcp_read(w) = v \/ tcp_read(w) = mark_for_if_write(u)
    BY DEF tcp_read
  <2> HIDE DEF v, u
  <2> QED BY <2>1, <2>2, SilentFunctions, SilentTrans
<1> QED BY <1>1, <1>2

\* tcp_close resets the session or says nothing, and so do those that call it.
LEMMA CloseResets ==
  ASSUME NEW w
  PROVE  Resets(w, tcp_close(w)) /\ Resets(w, GiveUp(w)) /\ Resets(w, tcp_remote_close(w))
<1>1. ASSUME NEW v PROVE Resets(v, tcp_close(v))
  <2> DEFINE a == Emit(v, {"RST", "ACK"}, <<>>)
             b == [v EXCEPT !.tcb.cb = FALSE,
                            !.tcb.rcv_wnd = DrainWnd,
                            !.tcb.state = IF @ = "ESTABLISHED" THEN "FIN_WAIT_1" ELSE "LAST_ACK"]
  <2>1. SendsReset(v, a)
    <3> DEFINE p == [flags |-> {"RST", "ACK"}, seq |-> v.tcb.snd_nxt, ack |-> v.tcb.rcv_nxt,
                     wnd |-> v.tcb.rcv_wnd, data |-> <<>>]
    <3>1. "out" \in DOMAIN v => "out" \in DOMAIN a /\ a.out = Append(v.out, p)
      BY DEF Emit
    <3>2. "RST" \in p.flags
      OBVIOUS
    <3> HIDE DEF p
    <3> QED BY <3>1, <3>2 DEF SendsReset
  <2>2. Silent(v, b)
    BY DEF Silent
  <2>3. tcp_close(v) = Discard(a) \/ tcp_close(v) = mark_for_if_write(b)
    BY DEF tcp_close
  <2> HIDE DEF a, b
  <2>4. Resets(v, Discard(a))
    <3>1. Resets(v, a)
      BY <2>1 DEF Resets
    <3> QED BY <3>1, SilentFunctions, ResetsTrans
  <2>5. Resets(v, mark_for_if_write(b))
    <3>1. Silent(v, mark_for_if_write(b))
      BY <2>2, SilentFunctions, SilentTrans
    <3> QED BY <3>1 DEF Resets
  <2> QED BY <2>3, <2>4, <2>5
<1>2. Resets(w, GiveUp(w))
  BY <1>1, SilentFunctions, ResetsTrans DEF GiveUp
<1>3. Resets(w, tcp_remote_close(w))
  <2>1. tcp_remote_close(w) = tcp_close(kill_map(w)) \/ tcp_remote_close(w) = tcp_close(w)
    BY DEF tcp_remote_close
  <2> QED BY <1>1, <2>1, SilentFunctions, SilentTrans
<1> QED BY <1>1, <1>2, <1>3

\* An acknowledgement, and the state changes it causes, are not answered.
LEMMA SilentAck ==
  ASSUME NEW w, NEW p
  PROVE  Silent(w, Acked(w, p)) /\ Silent(w, Settled(w, p)) /\ Silent(w, NewWindow(w, p))
<1>1. ASSUME NEW v, NEW ack PROVE Silent(v, AckTimer(v, ack))
  <2> DEFINE a == RemoveEvent(v, v.tcb.e_timeout)
             b == [a EXCEPT !.tcb.snd_cwnd = SeqAdd(@, Mss)]
             c == [b EXCEPT !.tcb.e_timeout = NULL]
  <2>1. Silent(v, a)
    BY SilentEvents
  <2>2. Silent(a, b) /\ Silent(b, c)
    BY DEF Silent
  <2>3. AckTimer(v, ack) \in {v, set_timeout(b), c}
    BY DEF AckTimer
  <2> HIDE DEF a, b, c
  <2>4. Silent(v, b) /\ Silent(v, v)
    BY <2>1, <2>2, SilentTrans DEF Silent
  <2> QED BY <2>2, <2>3, <2>4, SilentFunctions, SilentTrans
<1>2. ASSUME NEW ack PROVE Silent(w, NewAck(w, ack))
  <2> DEFINE v == [w EXCEPT !.tcb.snd_una = ack, !.tcb.snd_nxt = IF ack > @ THEN ack ELSE @]
             u == [v EXCEPT !.tcb.outbuf = Advanced(@, ack)]
             o == output_space(u, rb_left(u.tcb.outbuf))
  <2>1. Silent(w, v) /\ Silent(v, u)
    BY DEF Silent
  <2>2. NewAck(w, ack) = AckTimer(o, ack) \/ NewAck(w, ack) = AckTimer(v, ack)
    BY DEF NewAck
  <2> HIDE DEF v, u
  <2>3. Silent(u, o)
    BY SilentFunctions
  <2> HIDE DEF o
  <2>4. Silent(w, o)
    BY <2>1, <2>3, SilentTrans
  <2> QED BY <1>1, <2>1, <2>2, <2>4, SilentTrans
<1>3. Silent(w, Acked(w, p))
  BY <1>2 DEF Acked, Silent
<1>4. Silent(w, Settled(w, p))
  <2> DEFINE v == [w EXCEPT !.tcb.state = "ESTABLISHED"]
             u == [w EXCEPT !.tcb.state = "FIN_WAIT_2"]
             o == output_space(v, rb_left(w.tcb.outbuf))
  <2>1. Silent(w, v) /\ Silent(w, u) /\ Silent(w, w)
    BY DEF Silent
  <2>2. Settled(w, p) \in {w, o, u}
    BY DEF Settled
  <2> HIDE DEF v, u
  <2>3. Silent(w, o)
    BY <2>1, SilentFunctions, SilentTrans
  <2> HIDE DEF o
  <2> QED BY <2>1, <2>2, <2>3
<1>5. Silent(w, NewWindow(w, p))
  <2> DEFINE v == [w EXCEPT !.tcb = window_update([w.tcb EXCEPT !.snd_wnd = p.wnd])]
  <2>1. Silent(w, v)
    BY SilentEvents
  <2>2. NewWindow(w, p) = v \/ NewWindow(w, p) = mark_for_if_write(v)
    BY DEF NewWindow
  <2> HIDE DEF v
  <2> QED BY <2>1, <2>2, SilentFunctions, SilentTrans
<1> QED BY <1>3, <1>4, <1>5

\* A segment is taken without an answer, unless its FIN resets the session.
LEMMA ReceiveResets ==
  ASSUME NEW w, NEW p
  PROVE  Resets(w, Receive(w, p))
<1> DEFINE v == tcp_recv_data(w, p)
           closing == [v EXCEPT !.tcb.state = "CLOSING"]
           waits == [v EXCEPT !.tcb.state = "CLOSE_WAIT"]
<1>1. Silent(w, v)
  <2> DEFINE a0 == [w EXCEPT !.tcb.rcv_nxt = SeqAdd(@, Len(p.data))]
             a == mark_for_if_write(a0)
             b == [a EXCEPT !.tcb.inbuf = Written(@, p.data, BufSize),
                            !.tcb.rcv_wnd = rb_left(Written(a.tcb.inbuf, p.data, BufSize))]
             d == IF Len(p.data) = 0 THEN w ELSE IF w.tcb.cb THEN can_read(b) ELSE a
             e == [d EXCEPT !.tcb.rcv_nxt = SeqAdd(@, 1)]
  <2>1. v = d \/ v = mark_for_if_write(e)
    BY DEF tcp_recv_data
  <2> HIDE DEF v
  <2>2. d \in {w, can_read(b), a}
    OBVIOUS
  <2>3. Silent(d, e)
    BY DEF Silent
  <2> HIDE DEF d, e
  <2>4. Silent(w, a0) /\ Silent(a, b) /\ Silent(w, w)
    BY DEF Silent
  <2> HIDE DEF a0, b
  <2>5. Silent(w, a)
    BY <2>4, SilentFunctions, SilentTrans
  <2> HIDE DEF a
  <2>6. Silent(w, can_read(b))
    BY <2>4, <2>5, SilentFunctions, SilentTrans
  <2>7. Silent(w, d)
    BY <2>2, <2>4, <2>5, <2>6
  <2> QED BY <2>1, <2>3, <2>7, SilentFunctions, SilentTrans
<1>2. Silent(v, closing) /\ Silent(v, waits) /\ Silent(w, w)
  BY DEF Silent
<1>3. Receive(w, p) \in {w, v, TimeWait(v), closing, tcp_remote_close(waits)}
  BY DEF Receive
<1> HIDE DEF v, closing, waits
<1>4. Silent(w, TimeWait(v)) /\ Silent(w, closing) /\ Silent(w, waits)
  BY <1>1, <1>2, SilentFunctions, SilentTrans
<1>5. Resets(w, tcp_remote_close(waits))
  BY <1>4, CloseResets, SilentTrans
<1> QED BY <1>1, <1>2, <1>3, <1>4, <1>5 DEF Resets
-----------------------------------------------------------------------------
(* What keeps the streams in place. *)

\* The socket is gone for good, and was there when more was read from it.
SocketStays(w, v, sent, more) ==
    /\ w.map = NULL => v.map = NULL
    /\ sent <= more /\ (more # sent => w.map # NULL)

\* More bytes of the IPv4 peer leave the segments where they are.
LEMMA PlacedStays ==
  ASSUME NEW w, NEW v, NEW iss \in Nat, NEW sent \in Nat, NEW more \in Nat,
         SocketStays(w, v, sent, more)
  PROVE  /\ \A p \in Packet : Placed(w, iss, sent, p) => Placed(v, iss, more, p)
         /\ \A c \in ClientState : ExpectsNext(w, iss, sent, c) => ExpectsNext(v, iss, more, c)
<1>1. ASSUME NEW p \in Packet, Placed(w, iss, sent, p) PROVE Placed(v, iss, more, p)
  <2>1. p.seq \in uint /\ p.data \in Seq(Byte)
    BY DEF Packet
  <2>2. p.seq \in Int
    BY <2>1, UintIsInt
  <2>3. Len(p.data) \in Nat
    BY <2>1
  <2> QED BY <1>1, <2>2, <2>3 DEF Placed, SocketStays
<1>2. ASSUME NEW c \in ClientState, ExpectsNext(w, iss, sent, c) PROVE ExpectsNext(v, iss, more, c)
  <2>1. c.got \in Seq(Byte)
    BY DEF ClientState
  <2>2. Len(c.got) \in Nat
    BY <2>1
  <2> QED BY <1>2, <2>2 DEF ExpectsNext, SocketStays
<1> QED BY <1>1, <1>2

\* A packet is added to those on their way to the client.
LEMMA OneSent ==
  ASSUME NEW q \in Seq(Packet), NEW p
  PROVE  Packets(q \o <<p>>) \subseteq Packets(q) \cup {p} /\ q \o <<>> = q
<1> DEFINE T == Packet \cup {p}
<1>1. q \in Seq(T) /\ <<p>> \in Seq(T) /\ Len(<<p>>) = 1 /\ <<p>>[1] = p
  BY SeqMonotonic
<1>2. /\ Len(q \o <<p>>) = Len(q) + 1
      /\ \A i \in 1..(Len(q) + 1) : (q \o <<p>>)[i] = IF i <= Len(q) THEN q[i] ELSE <<p>>[i - Len(q)]
  BY <1>1, ConcatProperties
<1>3. Len(q) \in Nat
  OBVIOUS
<1>4. ASSUME NEW i \in 1..(Len(q) + 1) PROVE (q \o <<p>>)[i] \in Packets(q) \cup {p}
  <2>1. CASE i <= Len(q)
    BY <1>2, <1>3, <2>1 DEF Packets
  <2>2. CASE ~(i <= Len(q))
    <3>1. i - Len(q) = 1
      BY <1>3, <2>2
    <3> QED BY <1>1, <1>2, <2>2, <3>1
  <2> QED BY <2>1, <2>2
<1>5. q \o <<>> = q
  BY ConcatEmptySeq
<1> QED BY <1>2, <1>4, <1>5 DEF Packets

\* What the invariants say of the state in which a step begins.
LEMMA StreamFacts ==
  ASSUME IInv, StreamInv
  PROVE  /\ ProgramTypeOK /\ w0.tcb = tcb /\ w0.map = map /\ w0.out = <<>> /\ "out" \in DOMAIN w0
         /\ client \in ClientState /\ to_client \in Seq(Packet) /\ Packets(to_client) \subseteq Packet
         /\ s_sent \in Nat /\ Iss \in Nat
         /\ client.got = Upto(Len(client.got))
         /\ Early(client) => client.got = <<>> /\ ~client.fin
         /\ client.st = "open" =>
              /\ ExpectsNext(w0, Iss, s_sent, client)
              /\ SegmentsPlaced(w0, Iss, s_sent, to_client)
<1>1. ProgramTypeOK
  BY DEF IInv
<1>2. /\ client \in ClientState /\ to_client \in Seq(Packet) /\ s_sent \in 0..ServerLen
      /\ isn \in Nat
  BY <1>1 DEF ProgramTypeOK
<1>3. s_sent \in Nat
  BY <1>2, Numbers
<1>4. \A i \in 1..Len(to_client) : to_client[i] \in Packet
  BY <1>2
<1>5. Packets(to_client) \subseteq Packet
  BY <1>4 DEF Packets
<1>6. w0.tcb = tcb /\ w0.map = map /\ w0.out = <<>> /\ "out" \in DOMAIN w0
  BY DEF w0
<1> QED BY <1>1, <1>2, <1>3, <1>5, <1>6, IssIsNat DEF StreamInv, StreamOK

\* A socket that is gone stays away while there is a session.
LEMMA SocketGone ==
  ASSUME IInv, LifeStep(w0, w0'), tcb # NULL \/ map' = map
  PROVE  map = NULL => map' = NULL
<1>1. w0.tcb = tcb /\ w0.map = map /\ w0.map' = map'
  BY DEF w0
<1>2. tcb # NULL => tcb.state \in State
  BY TcbTypes DEF IInv, ProgramTypeOK
<1>3. SUFFICES ASSUME map = NULL, tcb # NULL, map' # NULL PROVE FALSE
  OBVIOUS
<1>4. Sock(w0) = "none" /\ Sock(w0') # "none" /\ St(w0) # "CLOSED"
  BY <1>1, <1>2, <1>3 DEF Sock, St, State
<1> QED BY <1>1, <1>4 DEF LifeStep

\* A callback that sends no segment.
LEMMA CallbackStream ==
  ASSUME IInv, StreamInv, IInv', LifeStep(w0, w0'),
         NEW e, NEW v, Ends(e, v), Resets(w0, v),
         client.st = "open" =>
           /\ tcb # NULL \/ map' = map
           /\ isn' = isn /\ s_sent <= s_sent' /\ (s_sent' # s_sent => map # NULL)
  PROVE  StreamInv'
<1>1. /\ w0.tcb = tcb /\ w0.map = map /\ w0.out = <<>> /\ "out" \in DOMAIN w0
      /\ client \in ClientState /\ to_client \in Seq(Packet) /\ Packets(to_client) \subseteq Packet
      /\ s_sent \in Nat /\ Iss \in Nat
      /\ client.got = Upto(Len(client.got))
      /\ Early(client) => client.got = <<>> /\ ~client.fin
      /\ client.st = "open" =>
           /\ ExpectsNext(w0, Iss, s_sent, client)
           /\ SegmentsPlaced(w0, Iss, s_sent, to_client)
  BY StreamFacts
<1>2. client' = client /\ to_client' = to_client \o v.out
  BY DEF Ends
<1>3. \A p \in Packets(to_client') : p \in Packets(to_client) \/ "RST" \in p.flags
  <2>1. CASE Silent(w0, v)
    <3>1. v.out = <<>>
      BY <1>1, <2>1 DEF Silent
    <3> QED BY <1>1, <1>2, <3>1, OneSent
  <2>2. CASE SendsReset(w0, v)
    <3>1. PICK p : v.out = Append(<<>>, p) /\ "RST" \in p.flags
      BY <1>1, <2>2 DEF SendsReset
    <3>2. v.out = <<p>>
      BY <3>1
    <3> QED BY <1>1, <1>2, <3>1, <3>2, OneSent
  <2> QED BY <2>1, <2>2 DEF Resets
<1>4. ASSUME client.st = "open"
      PROVE  ExpectsNext(w0', Iss', s_sent', client) /\ SegmentsPlaced(w0', Iss', s_sent', to_client')
  <2>1. Iss' = Iss
    BY <1>4 DEF Iss
  <2>2. s_sent' \in Nat
    <3>1. s_sent' \in 0..ServerLen
      BY DEF IInv, ProgramTypeOK
    <3> QED BY <3>1, Numbers
  <2>3. SocketStays(w0, w0', s_sent, s_sent')
    <3>1. w0'.map = map'
      BY DEF w0
    <3>2. map = NULL => map' = NULL
      BY <1>4, SocketGone
    <3> QED BY <1>1, <1>4, <3>1, <3>2 DEF SocketStays
  <2> DEFINE u == w0'
             m == s_sent'
  <2> HIDE DEF u, m
  <2>4. /\ \A p \in Packet : Placed(w0, Iss, s_sent, p) => Placed(u, Iss, m, p)
        /\ \A c \in ClientState : ExpectsNext(w0, Iss, s_sent, c) => ExpectsNext(u, Iss, m, c)
    BY <1>1, <2>2, <2>3, PlacedStays DEF u, m
  <2>5. ASSUME NEW p \in Packets(to_client'), Segment(p) PROVE Placed(u, Iss, m, p)
    <3>1. p \in Packets(to_client)
      BY <1>3, <2>5 DEF Segment
    <3> QED BY <1>1, <1>4, <2>4, <2>5, <3>1 DEF SegmentsPlaced
  <2>6. ExpectsNext(u, Iss, m, client) /\ SegmentsPlaced(u, Iss, m, to_client')
    BY <1>1, <1>4, <2>4, <2>5 DEF SegmentsPlaced
  <2> QED BY <2>1, <2>6 DEF u, m
<1> QED BY <1>1, <1>2, <1>4 DEF StreamInv, StreamOK

\* The client or the network does something; the stream it got stays as it is.
LEMMA OutsideStream ==
  ASSUME IInv, StreamInv, UNCHANGED <<relay, server>>,
         Packets(to_client') \subseteq Packets(to_client),
         client'.got = client.got, client'.fin = client.fin,
         Early(client') => Early(client),
         client'.st = "open" => client.st = "open" /\ client'.rcv = client.rcv
  PROVE  StreamInv'
<1>1. /\ client.got = Upto(Len(client.got))
      /\ Early(client) => client.got = <<>> /\ ~client.fin
      /\ client.st = "open" =>
           /\ ExpectsNext(w0, Iss, s_sent, client)
           /\ SegmentsPlaced(w0, Iss, s_sent, to_client)
  BY StreamFacts
<1>2. w0' = w0 /\ Iss' = Iss /\ s_sent' = s_sent
  BY DEF w0, Iss, relay, server
<1>3. client.st = "open" /\ client'.st = "open"
      => ExpectsNext(w0, Iss, s_sent, client') /\ SegmentsPlaced(w0, Iss, s_sent, to_client')
  BY <1>1 DEF ExpectsNext, SegmentsPlaced
<1> QED BY <1>1, <1>2, <1>3 DEF StreamInv, StreamOK
-----------------------------------------------------------------------------
(* The callbacks other than do_tcb_write. *)

\* Removing the event that was called sends nothing more.
LEMMA EndResets ==
  ASSUME NEW w, NEW v, NEW e, Resets(w, v)
  PROVE  Resets(w, RemoveEvent(v, e))
  BY SilentEvents, ResetsTrans

\* The callbacks of the IPv4 socket.
LEMMA SocketStream ==
  ASSUME IInv, StreamInv, IInv', LifeStep(w0, w0'),
         \/ \E k \in 0..BufSize : handle_fd_can_read(k) \/ handle_fd_can_write(k)
         \/ handle_fd_can_read_end \/ handle_fd_can_read_again
         \/ handle_fd_can_write_end \/ handle_fd_can_write_again
         \/ \E ok \in BOOLEAN : handle_fd_did_connect(ok)
  PROVE  StreamInv'
<1> DEFINE Goal == /\ isn' = isn /\ map # NULL /\ s_sent <= s_sent'
                   /\ \E e, v : Resets(w0, v) /\ (Ends(e, v) \/ EndsRemoved(e, v))
<1>1. Goal
  <2>1. s_sent \in Nat
    BY StreamFacts
  <2>2. \A m : Silent(w0, [w0 EXCEPT !.map = m])
    BY SilentEvents
  <2>3. Silent(w0, w0)
    BY DEF Silent
  <2>4. ASSUME NEW k \in 0..BufSize, handle_fd_can_read(k)
        PROVE  Goal
    <3> DEFINE w == tcp_send(w0, [i \in 1..k |-> s_sent + i])
               u == [w EXCEPT !.map.e_fd_read = NULL]
    <3>1. Silent(w0, w) /\ Silent(w, u)
      BY SilentSend DEF Silent
    <3>2. \E e, v : v \in {w0, w, u} /\ (Ends(e, v) \/ EndsRemoved(e, v))
      BY <2>4 DEF handle_fd_can_read
    <3>3. isn' = isn /\ map # NULL /\ s_sent' = s_sent + k
      BY <2>4 DEF handle_fd_can_read, OfMap
    <3> HIDE DEF w, u
    <3>4. \A v \in {w0, w, u} : Resets(w0, v)
      BY <2>3, <3>1, SilentTrans DEF Resets
    <3>5. k \in Nat
      BY SizeTypes
    <3>6. s_sent <= s_sent'
      BY <2>1, <3>3, <3>5
    <3> QED BY <3>2, <3>3, <3>4, <3>6
  <2>5. ASSUME NEW k \in 0..BufSize, handle_fd_can_write(k)
        PROVE  Goal
    <3> DEFINE w == tcp_read(w0)
               u == [w EXCEPT !.map.e_fd_write = NULL]
    <3>1. Silent(w0, w) /\ Silent(w, u)
      BY SilentSend DEF Silent
    <3>2. EndsRemoved("handle_fd_can_write", u) /\ isn' = isn /\ map # NULL /\ s_sent' = s_sent
      BY <2>5 DEF handle_fd_can_write, OfMap
    <3> HIDE DEF w, u
    <3>3. Resets(w0, u)
      BY <3>1, SilentTrans DEF Resets
    <3> QED BY <2>1, <3>2, <3>3
  <2>6. CASE handle_fd_can_read_end
    <3> DEFINE u == [w0 EXCEPT !.map.e_fd_read = NULL]
    <3>1. Silent(w0, u)
      BY DEF Silent
    <3>2. /\ EndsRemoved("handle_fd_can_read", GiveUp(u)) /\ isn' = isn /\ map # NULL
          /\ s_sent' = s_sent
      BY <2>6 DEF handle_fd_can_read_end, OfMap, server
    <3> HIDE DEF u
    <3>3. Resets(w0, GiveUp(u))
      BY <3>1, CloseResets, SilentTrans
    <3> QED BY <2>1, <3>2, <3>3
  <2>7. CASE handle_fd_can_read_again
    <3>1. Ends("handle_fd_can_read", w0) /\ isn' = isn /\ map # NULL /\ s_sent' = s_sent
      BY <2>7 DEF handle_fd_can_read_again, OfMap, server
    <3> QED BY <2>1, <2>3, <3>1 DEF Resets
  <2>8. CASE handle_fd_can_write_end
    <3> DEFINE w == tcp_read(w0)
               u == [w EXCEPT !.map.e_fd_write = NULL]
    <3>1. Silent(w0, w) /\ Silent(w, u)
      BY SilentSend DEF Silent
    <3>2. /\ EndsRemoved("handle_fd_can_write", GiveUp(u)) /\ isn' = isn /\ map # NULL
          /\ s_sent' = s_sent
      BY <2>8 DEF handle_fd_can_write_end, OfMap, server
    <3> HIDE DEF w, u
    <3>3. Silent(w0, u)
      BY <3>1, SilentTrans
    <3>4. Resets(w0, GiveUp(u))
      BY <3>3, CloseResets, SilentTrans
    <3> QED BY <2>1, <3>2, <3>4
  <2>9. CASE handle_fd_can_write_again
    <3> DEFINE w == tcp_read(w0)
               u == [w EXCEPT !.map.e_fd_write = NULL]
    <3>1. Silent(w0, w) /\ Silent(w, u)
      BY SilentSend DEF Silent
    <3>2. /\ Ends("handle_fd_can_write", u) /\ isn' = isn /\ map # NULL
          /\ s_sent' = s_sent
      BY <2>9 DEF handle_fd_can_write_again, OfMap, server
    <3> HIDE DEF w, u
    <3>3. Resets(w0, u)
      BY <3>1, SilentTrans DEF Resets
    <3> QED BY <2>1, <3>2, <3>3
  <2>10. ASSUME NEW ok \in BOOLEAN, handle_fd_did_connect(ok)
         PROVE  Goal
    <3> DEFINE u == [w0 EXCEPT !.map.e_fd_write = NULL]
    <3>1. Silent(w0, u)
      BY DEF Silent
    <3>2. /\ \E v \in {mark_for_if_write(u), GiveUp(u)} : EndsRemoved("handle_fd_did_connect", v)
          /\ isn' = isn /\ map # NULL /\ s_sent' = s_sent
      BY <2>10 DEF handle_fd_did_connect, OfMap, server
    <3> HIDE DEF u
    <3>3. Resets(w0, GiveUp(u))
      BY <3>1, CloseResets, SilentTrans
    <3>4. Resets(w0, mark_for_if_write(u))
      BY <3>1, SilentFunctions, SilentTrans DEF Resets
    <3> QED BY <2>1, <3>2, <3>3, <3>4
  <2> QED BY <2>4, <2>5, <2>6, <2>7, <2>8, <2>9, <2>10
<1>2. PICK e, v : Resets(w0, v) /\ (Ends(e, v) \/ EndsRemoved(e, v))
  BY <1>1
<1>3. PICK u : Resets(w0, u) /\ Ends(e, u)
  BY <1>2, EndResets DEF EndsRemoved
<1>4. tcb # NULL
  <2>1. Matched(w0)
    BY DEF IInv, DaemonOK
  <2> QED BY <1>1, <2>1 DEF Matched, w0
<1> QED BY <1>1, <1>3, <1>4, CallbackStream

\* The timers.
LEMMA TimerStream ==
  ASSUME IInv, StreamInv, IInv', LifeStep(w0, w0'), tcp_timeout \/ tcp_remove
  PROVE  StreamInv'
<1>1. tcb # NULL
  <2>1. PICK e \in Timer : Turn(e)
    BY DEF tcp_timeout, tcp_remove, Timer
  <2>2. e \in Event /\ e # "handle_fd_can_write"
    BY DEF Event, Timer
  <2>3. /\ w0.listed[e] > 0 /\ DaemonOK(w0, Iss, s_sent, Again) /\ w0.tcb = tcb /\ w0.map = map
        /\ map # NULL => map \in TcpMap
    BY <2>1, <2>2, Called
  <2>4. PointsTo(w0, e)
    BY <2>2, <2>3, ListedPoints
  <2>5. map # NULL => e \notin {map.e_fd_read, map.e_fd_write}
    BY <2>3, TcpAssumption DEF TcpMap, FdWrite, Timer
  <2> QED BY <2>3, <2>4, <2>5 DEF PointsTo
<1>2. isn' = isn /\ s_sent' = s_sent /\ \E e, v : Resets(w0, v) /\ EndsRemoved(e, v)
  <2>1. CASE tcp_timeout
    <3> DEFINE t == window_update([tcb EXCEPT !.e_timeout = NULL, !.snd_nxt = tcb.snd_una,
                                              !.snd_cwnd = 0])
               u == [w0 EXCEPT !.tcb = t]
    <3>1. /\ EndsRemoved("tcp_timeout", mark_for_if_write(u))
          /\ isn' = isn /\ s_sent' = s_sent
      BY <2>1 DEF tcp_timeout, server
    <3>2. Silent(w0, u)
      BY SilentEvents
    <3> HIDE DEF u
    <3>3. Resets(w0, mark_for_if_write(u))
      BY <3>2, SilentFunctions, SilentTrans DEF Resets
    <3> QED BY <3>1, <3>3
  <2>2. CASE tcp_remove
    <3>1. EndsRemoved("tcp_remove", Discard(w0)) /\ isn' = isn /\ s_sent' = s_sent
      BY <2>2 DEF tcp_remove, server
    <3> QED BY <3>1, SilentFunctions DEF Resets
  <2> QED BY <2>1, <2>2
<1>3. PICK e, v : Resets(w0, v) /\ Ends(e, v)
  BY <1>2, EndResets DEF EndsRemoved
<1>4. s_sent \in Nat
  BY StreamFacts
<1> QED BY <1>1, <1>2, <1>3, <1>4, CallbackStream
-----------------------------------------------------------------------------
(* handle_tcp. *)

\* A SYN comes to an open client's daemon only while that has its session.
LEMMA SynStream ==
  ASSUME IInv, StreamInv, IInv', LifeStep(w0, w0'), NoWrap, Turn("handle_tcp"),
         NEW connect \in {"ok"} \cup (Outcomes \cap {"refused", "in_progress"}),
         handle_tcp_syn(connect)
  PROVE  StreamInv'
<1>1. tcb = NULL /\ Syn(pkt) /\ Ends("handle_tcp", Accepting(connect))
  BY DEF handle_tcp_syn, Handled, Syn
<1>2. client.st # "open"
  BY <1>1, SynBegins DEF Opened
<1>3. Resets(w0, Accepting(connect))
  <2> DEFINE w == [w0 EXCEPT !.tcb = NewTcb(pkt.seq, pkt.wnd, ((isn + 1) * IssStep) % SeqMod),
                             !.map = [e_fd_read |-> NULL, e_fd_write |-> NULL]]
             u == [w EXCEPT !.map.e_fd_write = "handle_fd_did_connect"]
  <2>1. Silent(w0, w) /\ Silent(w, u)
    BY DEF Silent
  <2>2. connect = "refused" \/ connect = "in_progress" \/ connect = "ok"
    OBVIOUS
  <2>3. Accepting(connect) \in {GiveUp(w), AddEvent(u, "handle_fd_did_connect"), mark_for_if_write(w)}
    BY <2>2 DEF Accepting
  <2> HIDE DEF w, u
  <2>4. Resets(w0, GiveUp(w))
    BY <2>1, CloseResets, SilentTrans
  <2>5. Silent(w0, AddEvent(u, "handle_fd_did_connect")) /\ Silent(w0, mark_for_if_write(w))
    BY <2>1, SilentEvents, SilentFunctions, SilentTrans
  <2> QED BY <2>3, <2>4, <2>5 DEF Resets
<1> QED BY <1>1, <1>2, <1>3, CallbackStream

\* Nothing but a reset is sent for the packet, and no session begins.
HandledQuietly ==
    /\ tcb # NULL \/ map' = map
    /\ isn' = isn /\ s_sent' = s_sent
    /\ \E v : Resets(w0, v) /\ Ends("handle_tcp", v)

\* A segment, a reset and a packet of no session.
LEMMA SegmentQuiet ==
  ASSUME \/ handle_tcp_stray \/ handle_tcp_rst \/ handle_tcp_last_ack \/ handle_tcp_closing
         \/ handle_tcp_old \/ handle_tcp_segment
  PROVE  HandledQuietly
<1> DEFINE last == [ws EXCEPT !.tcb.last_acked = SeqAdd(@, -1)]
<1>1. Silent(w0, wa) /\ Silent(wa, ws) /\ Silent(ws, last) /\ Silent(ws, NewWindow(ws, pkt))
  <2>1. Silent(w0, wa)
    BY SilentAck DEF wa
  <2>2. Silent(wa, ws)
    BY SilentAck DEF ws
  <2>3. Silent(ws, last) /\ Silent(ws, NewWindow(ws, pkt))
    BY SilentAck DEF Silent
  <2> QED BY <2>1, <2>2, <2>3
<1> HIDE DEF last
<1>2. Silent(w0, ws) /\ Silent(w0, last) /\ Silent(w0, NewWindow(ws, pkt))
  BY <1>1, SilentTrans
<1>3. ASSUME handle_tcp_stray PROVE HandledQuietly
  <2> DEFINE p == [flags |-> {"RST", "ACK"}, seq |-> pkt.ack,
                   ack |-> SeqAdd(pkt.seq, 1), wnd |-> 0, data |-> <<>>]
             v == [w0 EXCEPT !.out = <<p>>]
  <2>1. Ends("handle_tcp", v) /\ isn' = isn /\ s_sent' = s_sent
    BY <1>3 DEF handle_tcp_stray, Handled, server
  <2>2. "RST" \in p.flags
    OBVIOUS
  <2> HIDE DEF p
  <2>3. w0.out = <<>>
    BY DEF w0
  <2>4. v.out = Append(w0.out, p) /\ "out" \in DOMAIN v /\ v.map = w0.map
    BY <2>3 DEF w0
  <2>5. Resets(w0, v)
    BY <2>2, <2>4 DEF Resets, SendsReset
  <2>6. map' = map
    BY <2>1, <2>4 DEF Ends, w0
  <2> QED BY <2>1, <2>5, <2>6 DEF HandledQuietly
<1>4. ASSUME handle_tcp_rst PROVE HandledQuietly
  <2> DEFINE u == IF tcb.cb THEN kill_map(w0) ELSE w0
  <2>1. Ends("handle_tcp", Discard(u)) /\ isn' = isn /\ s_sent' = s_sent /\ tcb # NULL
    BY <1>4 DEF handle_tcp_rst, Handled, server
  <2>2. Silent(w0, u)
    BY SilentFunctions DEF Silent
  <2> HIDE DEF u
  <2>3. Resets(w0, Discard(u))
    BY <2>2, SilentFunctions, SilentTrans DEF Resets
  <2> QED BY <2>1, <2>3 DEF HandledQuietly
<1>5. ASSUME handle_tcp_last_ack PROVE HandledQuietly
  <2>1. Ends("handle_tcp", Discard(wa)) /\ isn' = isn /\ s_sent' = s_sent /\ tcb # NULL
    BY <1>5 DEF handle_tcp_last_ack, Handled, server, OfSession
  <2>2. Resets(w0, Discard(wa))
    BY <1>1, SilentFunctions, SilentTrans DEF Resets
  <2> QED BY <2>1, <2>2 DEF HandledQuietly
<1>6. ASSUME handle_tcp_closing PROVE HandledQuietly
  <2>1. /\ \E v \in {TimeWait(wa), wa} : Ends("handle_tcp", v)
        /\ isn' = isn /\ s_sent' = s_sent /\ tcb # NULL
    BY <1>6 DEF handle_tcp_closing, Handled, server, OfSession
  <2>2. \A v \in {TimeWait(wa), wa} : Resets(w0, v)
    BY <1>1, SilentFunctions, SilentTrans DEF Resets
  <2> QED BY <2>1, <2>2 DEF HandledQuietly
<1>7. ASSUME handle_tcp_old PROVE HandledQuietly
  <2>1. /\ \E v \in {ws, mark_for_if_write(last)} : Ends("handle_tcp", v)
        /\ isn' = isn /\ s_sent' = s_sent /\ tcb # NULL
    BY <1>7 DEF handle_tcp_old, Handled, server, OfSession, last
  <2>2. \A v \in {ws, mark_for_if_write(last)} : Resets(w0, v)
    BY <1>2, SilentFunctions, SilentTrans DEF Resets
  <2> QED BY <2>1, <2>2 DEF HandledQuietly
<1>8. ASSUME handle_tcp_segment PROVE HandledQuietly
  <2>1. /\ Ends("handle_tcp", Receive(NewWindow(ws, pkt), pkt))
        /\ isn' = isn /\ s_sent' = s_sent /\ tcb # NULL
    BY <1>8 DEF handle_tcp_segment, Handled, server, OfSession
  <2>2. Resets(w0, Receive(NewWindow(ws, pkt), pkt))
    BY <1>2, ReceiveResets, SilentTrans
  <2> QED BY <2>1, <2>2 DEF HandledQuietly
<1> QED BY <1>3, <1>4, <1>5, <1>6, <1>7, <1>8

\* So the client's stream stays in place.
LEMMA SegmentStream ==
  ASSUME IInv, StreamInv, IInv', LifeStep(w0, w0'),
         \/ handle_tcp_stray \/ handle_tcp_rst \/ handle_tcp_last_ack \/ handle_tcp_closing
         \/ handle_tcp_old \/ handle_tcp_segment
  PROVE  StreamInv'
<1>1. /\ tcb # NULL \/ map' = map
      /\ isn' = isn /\ s_sent' = s_sent
      /\ \E v : Resets(w0, v) /\ Ends("handle_tcp", v)
  BY SegmentQuiet DEF HandledQuietly
<1>2. PICK v : Resets(w0, v) /\ Ends("handle_tcp", v)
  BY <1>1
<1>3. s_sent \in Nat
  BY StreamFacts
<1> QED BY <1>1, <1>2, <1>3, CallbackStream
-----------------------------------------------------------------------------
(* do_tcb_write. *)

\* tcp_send_and_ack sends nothing, or the bytes at snd_nxt, or the FIN.
LEMMA SegmentPlaced ==
  ASSUME NEW w, NEW iss \in Nat, NEW sent \in Nat, iss + sent + 2 < SeqMod, NEW again,
         DaemonOK(w, iss, sent, again), w.tcb # NULL, w.tcb.state # "SYN_RECVD",
         w.out = <<>>
  PROVE  LET v == tcp_send_and_ack(w)
         IN  v.out = <<>> \/ \E p : v.out = <<p>> /\ Placed(w, iss, sent, p)
<1> DEFINE t == w.tcb
           n == SegLen(t)
           data == Peek(t.outbuf, t.snd_nxt, n)
           flags == IF SegFin(t) THEN {"ACK", "FIN"} ELSE {"ACK"}
           a == IF t.e_timeout = NULL /\ n > 0 THEN set_timeout(w) ELSE w
           b == Emit(a, flags, data)
           p == [flags |-> flags, seq |-> a.tcb.snd_nxt, ack |-> a.tcb.rcv_nxt,
                 wnd |-> a.tcb.rcv_wnd, data |-> data]
           v == [b EXCEPT !.tcb.snd_nxt = SeqAdd(@, n + IF SegFin(t) THEN 1 ELSE 0)]
<1>1. w \in World /\ t \in Tcb /\ SessionOK(t, iss, sent) /\ Matched(w)
  BY DEF DaemonOK, World
<1>2. CASE NothingToSend(t)
  BY <1>2 DEF tcp_send_and_ack
<1>3. CASE ~NothingToSend(t)
  <2>1. tcp_send_and_ack(w) = v
    BY <1>3 DEF tcp_send_and_ack
  <2>2. /\ n \in Nat /\ t.snd_nxt >= iss + 1
        /\ SegFin(t) => t.snd_nxt + n = t.outbuf.w_seq
    BY <1>1, SegPlace
  <2>3. /\ n > 0 => /\ IntDiff(t.outbuf.w_seq, t.snd_nxt) \in 1..rb_used(t.outbuf)
                    /\ n <= IntDiff(t.outbuf.w_seq, t.snd_nxt)
        /\ data \in Seq(Byte) /\ Len(data) = n
    BY <1>1, SegFacts
  <2>4. a.tcb.snd_nxt = t.snd_nxt /\ a.out = <<>> /\ "out" \in DOMAIN a
    <3>1. a = w \/ a = set_timeout(w)
      OBVIOUS
    <3>2. "out" \in DOMAIN w /\ "tcb" \in DOMAIN w
      BY <1>1 DEF World
    <3>3. set_timeout(w).out = w.out /\ "out" \in DOMAIN set_timeout(w)
      BY <3>2, SilentFunctions DEF Silent
    <3>4. set_timeout(w).tcb.snd_nxt = t.snd_nxt
      BY <1>1, <3>2 DEF set_timeout, AddEvent, World, Tcb
    <3> QED BY <3>1, <3>2, <3>3, <3>4
  <2>5. v.out = <<p>>
    <3>1. b.out = Append(a.out, p) /\ "out" \in DOMAIN b
      BY <2>4 DEF Emit
    <3>2. v.out = b.out
      <4> HIDE DEF b
      <4> QED BY <3>1
    <3> HIDE DEF a, b, p, v
    <3> QED BY <2>4, <3>1, <3>2
  <2>6. /\ t.snd_nxt \in uint /\ t.outbuf \in Queues(Byte) /\ t.outbuf.w_seq \in uint
        /\ rb_used(t.outbuf) \in Nat
    BY <1>1, TcbTypes
  <2>7. t.snd_nxt \in Int /\ t.outbuf.w_seq = iss + 1 + sent /\ SendNumbers(t, iss, sent)
        /\ Holds(t.outbuf, sent)
    BY <1>1, <2>6, UintIsInt DEF SessionOK, SendNumbers
  <2>8. ASSUME n > 0
        PROVE  /\ t.snd_nxt + n <= iss + 1 + sent
               /\ \A i \in 1..n : data[i] = t.snd_nxt - iss - 1 + i
    <3> DEFINE back == IntDiff(t.outbuf.w_seq, t.snd_nxt)
               used == rb_used(t.outbuf)
    <3>1. back = t.outbuf.w_seq - t.snd_nxt
      <4>1. 2 * (t.outbuf.w_seq - t.snd_nxt) < SeqMod /\ 2 * (t.snd_nxt - t.outbuf.w_seq) < SeqMod
        <5>1. t.snd_nxt <= SendLimit(t) /\ iss + 1 <= t.snd_una /\ rb_used(t.outbuf) <= BufSize
              /\ t.outbuf.w_seq - t.snd_una <= rb_used(t.outbuf) /\ t.snd_una <= t.snd_nxt
          BY <2>7 DEF SendNumbers
        <5>2. t.snd_una \in uint /\ SendLimit(t) \in {t.outbuf.w_seq, t.outbuf.w_seq + 1}
          BY <1>1, <2>7, TcbTypes DEF SendLimit
        <5>3. t.snd_una \in Int
          BY <5>2, UintIsInt
        <5>4. BufSize \in Int /\ 2 * BufSize < SeqMod /\ SeqMod \in Int /\ SeqMod > 1 /\ BufSize > 0
          BY SizeTypes
        <5> DEFINE x == t.outbuf.w_seq
                   y == t.snd_nxt
                   z == t.snd_una
                   k == rb_used(t.outbuf)
        <5>5. x \in Int /\ y \in Int /\ z \in Int /\ k \in Nat
          BY <2>6, <2>7, <5>3, UintIsInt
        <5>6. y <= x + 1 /\ x - z <= k /\ k <= BufSize /\ z <= y
          BY <5>1, <5>2, <5>5
        <5>7. 2 * (x - y) < SeqMod
          <6> HIDE DEF x, y, z, k
          <6> QED BY <5>4, <5>5, <5>6
        <5>8. 2 * (y - x) < SeqMod
          <6> HIDE DEF x, y, z, k
          <6>1. SeqMod > 2
            BY <5>4
          <6> QED BY <5>5, <5>6, <6>1, <5>4
        <5> QED BY <5>7, <5>8
      <4> QED BY <2>6, <4>1, IntDiffFacts
    <3>2. back \in 1..used /\ n <= back /\ used \in Nat
      BY <2>3, <2>6, <2>8
    <3>3. \A i \in 1..n : data[i] = t.outbuf.kept[used - back + i]
      <4>1. \A i \in 1..Len(data) : data[i] = t.outbuf.kept[used - back + i]
        BY <2>2, <2>6, PeekFacts
      <4> QED BY <2>3, <4>1
    <3>4. \A i \in 1..used : t.outbuf.kept[i] = sent - used + i
      BY <2>7 DEF Holds
    <3> HIDE DEF back, used, data, n
    <3>5. ASSUME NEW i \in 1..n PROVE data[i] = t.snd_nxt - iss - 1 + i
      <4>1. used - back + i \in 1..used
        BY <2>2, <3>2
      <4>2. data[i] = sent - used + (used - back + i)
        BY <3>3, <3>4, <4>1
      <4>3. sent - used + (used - back + i) = sent - back + i
        BY <3>2
      <4> QED BY <2>7, <3>1, <4>2, <4>3
    <3> QED BY <2>2, <2>7, <3>1, <3>2, <3>5
  <2>9. p.seq = t.snd_nxt /\ p.data = data /\ p.flags = flags
    BY <2>4
  <2>10. "FIN" \in flags => SegFin(t)
    OBVIOUS
  <2>11. SegFin(t) => w.map = NULL
    <3>1. t.state \in Sending => t.state \notin {"SYN_RECVD", "ESTABLISHED"}
      BY DEF Sending
    <3> QED BY <1>1, <3>1 DEF SegFin, Matched
  <2> HIDE DEF p, data, flags, n, v
  <2>12. p.data # <<>> => n > 0
    BY <2>2, <2>3, <2>9
  <2>13. \A i \in 1..n : n > 0
    BY <2>2
  <2>14. Placed(w, iss, sent, p)
    BY <2>2, <2>3, <2>7, <2>8, <2>9, <2>10, <2>11, <2>12, <2>13 DEF Placed
  <2> QED BY <2>1, <2>5, <2>14
<1> QED BY <1>2, <1>3

\* What do_tcb_write sends is in its place, or is the daemon's SYN.
LEMMA WriteStream ==
  ASSUME IInv, StreamInv, IInv', LifeStep(w0, w0'), NoWrap, do_tcb_write
  PROVE  StreamInv'
<1>1. /\ w0.tcb = tcb /\ w0.map = map /\ w0.out = <<>>
      /\ client \in ClientState /\ to_client \in Seq(Packet) /\ Packets(to_client) \subseteq Packet
      /\ s_sent \in Nat /\ Iss \in Nat
      /\ client.got = Upto(Len(client.got))
      /\ Early(client) => client.got = <<>> /\ ~client.fin
      /\ client.st = "open" =>
           /\ ExpectsNext(w0, Iss, s_sent, client)
           /\ SegmentsPlaced(w0, Iss, s_sent, to_client)
  BY StreamFacts
<1>2. tcb # NULL
  <2>1. "do_tcb_write" \in Event /\ Turn("do_tcb_write")
    BY DEF Event, do_tcb_write
  <2>2. /\ w0.listed["do_tcb_write"] > 0 /\ DaemonOK(w0, Iss, s_sent, Again)
        /\ map # NULL => map \in TcpMap
    BY <2>1, Called
  <2>3. PointsTo(w0, "do_tcb_write")
    BY <2>1, <2>2, ListedPoints
  <2>4. map # NULL => "do_tcb_write" \notin {map.e_fd_read, map.e_fd_write}
    BY <2>2, TcpAssumption DEF TcpMap, FdWrite
  <2> QED BY <1>1, <2>3, <2>4 DEF PointsTo
<1>3. isn' = isn /\ s_sent' = s_sent /\ w0.tcb # NULL
  BY <1>1, <1>2 DEF do_tcb_write, server
<1> DEFINE w == IF tcb.state = "SYN_RECVD" THEN tcp_send_syn(w0) ELSE tcp_send_and_ack(w0)
           u == [w EXCEPT !.tcb.e_tcb_send = NULL]
<1>4. Ends("do_tcb_write", w) \/ Ends("do_tcb_write", RemoveEvent(u, "do_tcb_write"))
  BY DEF do_tcb_write, EndsRemoved
<1>5. w.out = <<>> \/ \E p : w.out = <<p>> /\ (Segment(p) => Placed(w0, Iss, s_sent, p))
  <2>1. CASE tcb.state = "SYN_RECVD"
    <3> DEFINE p == [flags |-> {"SYN", "ACK"}, seq |-> tcb.snd_nxt, ack |-> tcb.rcv_nxt,
                     wnd |-> tcb.rcv_wnd, data |-> <<>>]
    <3>1. tcp_send_syn(w0).out = Append(<<>>, p)
      BY DEF tcp_send_syn, Emit, w0
    <3>2. ~Segment(p)
      BY DEF Segment
    <3> HIDE DEF p
    <3> QED BY <2>1, <3>1, <3>2
  <2>2. CASE tcb.state # "SYN_RECVD"
    <3>1. Iss + s_sent + 2 < SeqMod
      <4>1. Iss + ServerLen + 2 < SeqMod /\ ServerLen \in Nat /\ SeqMod \in Int
        BY Numbers, SizeTypes DEF NoWrap
      <4>2. s_sent <= ServerLen
        BY DEF IInv, ProgramTypeOK
      <4> QED BY <1>1, <4>1, <4>2
    <3>2. DaemonOK(w0, Iss, s_sent, Again)
      BY DEF IInv
    <3> QED BY <1>1, <1>2, <2>2, <3>1, <3>2, SegmentPlaced
  <2> QED BY <2>1, <2>2
<1>6. \A e : "out" \in DOMAIN w => RemoveEvent(u, e).out = w.out
  BY DEF RemoveEvent
<1>7. "out" \in DOMAIN w
  BY DEF tcp_send_syn, tcp_send_and_ack, Emit, w0, set_timeout, AddEvent
<1> HIDE DEF w, u
<1>8. client' = client /\ to_client' = to_client \o w.out
  BY <1>4, <1>6, <1>7 DEF Ends
<1>9. \A p \in Packets(to_client') :
        p \in Packets(to_client) \/ (Segment(p) => Placed(w0, Iss, s_sent, p))
  <2>1. CASE w.out = <<>>
    BY <1>1, <1>8, <2>1, OneSent
  <2>2. ASSUME NEW q, w.out = <<q>>, Segment(q) => Placed(w0, Iss, s_sent, q)
        PROVE  \A p \in Packets(to_client') :
                 p \in Packets(to_client) \/ (Segment(p) => Placed(w0, Iss, s_sent, p))
    <3>1. Packets(to_client') \subseteq Packets(to_client) \cup {q}
      BY <1>1, <1>8, <2>2, OneSent
    <3> QED BY <2>2, <3>1
  <2> QED BY <1>5, <2>1, <2>2
<1>10. Iss' = Iss
  BY <1>3 DEF Iss
<1>11. SocketStays(w0, w0', s_sent, s_sent)
  <2>1. w0'.map = map'
    BY DEF w0
  <2> QED BY <1>1, <1>2, <2>1, SocketGone DEF SocketStays
<1> DEFINE v == w0'
<1> HIDE DEF v
<1>12. /\ \A p \in Packet : Placed(w0, Iss, s_sent, p) => Placed(v, Iss, s_sent, p)
       /\ \A c \in ClientState :
            ExpectsNext(w0, Iss, s_sent, c) => ExpectsNext(v, Iss, s_sent, c)
  BY <1>1, <1>11, PlacedStays DEF v
<1>13. Packets(to_client') \subseteq Packet
  <2>1. to_client' \in Seq(Packet)
    BY DEF IInv, ProgramTypeOK
  <2>2. \A i \in 1..Len(to_client') : to_client'[i] \in Packet
    BY <2>1
  <2> QED BY <2>2 DEF Packets
<1>14. client.st = "open" =>
         ExpectsNext(v, Iss, s_sent, client) /\ SegmentsPlaced(v, Iss, s_sent, to_client')
  BY <1>1, <1>9, <1>12, <1>13 DEF SegmentsPlaced
<1> QED BY <1>1, <1>3, <1>8, <1>10, <1>14 DEF StreamInv, StreamOK, v
-----------------------------------------------------------------------------
(* The client. *)

\* The bytes the client takes are the next ones.
LEMMA TakesStream ==
  ASSUME IInv, StreamInv, NoWrap, client.st = "open", UNCHANGED <<relay, server>>,
         NEW p \in Packets(to_client), p \in Packet, p.flags \cap {"SYN", "RST"} = {},
         client' = ClientTakes(p), Packets(to_client') \subseteq Packets(to_client)
  PROVE  StreamInv'
<1> DEFINE got == Len(client.got)
           f0 == IF client.fin THEN 1 ELSE 0
           new == Len(Fresh(p))
           len == Len(p.data)
           seq == p.seq
           rcv == client.rcv
           old == IntDiff(rcv, seq)
           fin == "FIN" \in p.flags /\ ~client.fin /\ SeqAdd(rcv, new) = SeqAdd(seq, len)
           f == IF fin THEN 1 ELSE 0
           g == client.got \o Fresh(p)
           r == SeqAdd(rcv, new + f)
<1>1. /\ w0.tcb = tcb /\ w0.map = map /\ ProgramTypeOK
      /\ client \in ClientState /\ s_sent \in Nat /\ Iss \in Nat
      /\ client.got = Upto(got)
      /\ ExpectsNext(w0, Iss, s_sent, client)
      /\ SegmentsPlaced(w0, Iss, s_sent, to_client)
  BY StreamFacts
<1>2. Placed(w0, Iss, s_sent, p)
  BY <1>1 DEF SegmentsPlaced, Segment
<1>3. w0' = w0 /\ Iss' = Iss /\ s_sent' = s_sent
  BY DEF w0, Iss, relay, server
<1>4. /\ client'.st = "open" /\ client'.got = g /\ client'.rcv = r
      /\ client'.fin = (client.fin \/ fin)
  BY <1>1 DEF ClientTakes, ClientState
<1>5. /\ client.got \in Seq(Byte) /\ got \in Nat /\ client.fin \in BOOLEAN
      /\ p.data \in Seq(Byte) /\ len \in Nat /\ seq \in uint /\ rcv \in uint
  <2>1. client.got \in Seq(Byte) /\ client.fin \in BOOLEAN /\ rcv \in uint
    BY <1>1 DEF ClientState
  <2>2. p.data \in Seq(Byte) /\ seq \in uint
    BY DEF Packet
  <2> QED BY <2>1, <2>2
<1>6. seq \in Int /\ rcv \in Int
  BY <1>5, UintIsInt
<1>7. /\ Fresh(p) \in Seq(Byte) /\ new \in Nat /\ old \in Int
      /\ new > 0 => old >= 0 /\ new <= len - old
      /\ \A i \in 1..new : Fresh(p)[i] = p.data[old + i]
  <2>1. ClientOK(client)
    BY DEF IInv
  <2> QED BY <1>1, <2>1, FreshFacts
<1>8. /\ Iss + 1 <= seq /\ (len > 0 => seq + len <= Iss + 1 + s_sent)
      /\ \A i \in 1..len : p.data[i] = seq - Iss - 1 + i
      /\ "FIN" \in p.flags => seq + len = Iss + 1 + s_sent /\ map = NULL
  <2>1. len > 0 => p.data # <<>>
    BY <1>5
  <2> QED BY <1>1, <1>2, <2>1 DEF Placed
<1>9. got <= s_sent /\ rcv = Iss + 1 + got + f0 /\ (client.fin => got = s_sent /\ map = NULL)
  BY <1>1 DEF ExpectsNext
<1>10. f0 \in Int /\ (f0 = 0 \/ f0 = 1) /\ (client.fin <=> f0 = 1)
  BY <1>5
<1>11. f \in Int /\ (f = 0 \/ f = 1) /\ (fin <=> f = 1)
  OBVIOUS
<1>12. Len(g) = got + new /\ \A i \in 1..(got + new) :
         g[i] = IF i <= got THEN client.got[i] ELSE Fresh(p)[i - got]
  BY <1>5, <1>7, ConcatProperties
<1>13. /\ ServerLen \in Nat /\ SeqMod \in Int /\ Iss + ServerLen + 2 < SeqMod
       /\ 2 * (ServerLen + 2) < SeqMod /\ s_sent <= ServerLen
  <2>1. s_sent \in 0..ServerLen
    BY <1>1 DEF ProgramTypeOK
  <2> QED BY <2>1, Numbers, SizeTypes DEF NoWrap
<1>14. fin => "FIN" \in p.flags /\ ~client.fin /\ SeqAdd(rcv, new) = SeqAdd(seq, len)
  OBVIOUS
<1>15. client.got = Upto(got)
  BY <1>1
<1> HIDE DEF got, f0, new, len, seq, rcv, old, fin, f
<1>16. new > 0 => old = rcv - seq /\ f0 = 0 /\ got + new <= s_sent
  <2> SUFFICES ASSUME new > 0 PROVE old = rcv - seq /\ f0 = 0 /\ got + new <= s_sent
    OBVIOUS
  <2>1. old >= 0 /\ new <= len - old /\ len > 0 /\ seq + len <= Iss + 1 + s_sent
    BY <1>5, <1>7, <1>8
  <2>2. 2 * (rcv - seq) < SeqMod /\ 2 * (seq - rcv) < SeqMod
    BY <1>1, <1>5, <1>6, <1>8, <1>9, <1>10, <1>13, <2>1
  <2>3. old = rcv - seq
    BY <1>5, <2>2, IntDiffFacts DEF old
  <2>4. rcv + new <= Iss + 1 + s_sent
    BY <1>1, <1>5, <1>6, <1>7, <2>1, <2>3
  <2>5. f0 = 0
    BY <1>1, <1>5, <1>6, <1>7, <1>9, <1>10, <2>4
  <2> QED BY <1>1, <1>5, <1>6, <1>7, <1>9, <2>3, <2>4, <2>5
<1>17. ASSUME NEW i \in 1..new PROVE Fresh(p)[i] = got + i
  <2>1. new > 0 /\ i \in Int /\ 1 <= i /\ i <= new
    BY <1>7
  <2>2. old + i \in 1..len
    BY <1>5, <1>7, <2>1
  <2>3. Fresh(p)[i] = seq - Iss - 1 + (old + i)
    BY <1>7, <1>8, <2>2
  <2> QED BY <1>1, <1>5, <1>6, <1>9, <1>16, <2>1, <2>3
<1>18. g = Upto(got + new)
  <2>1. \A i \in 1..got : client.got[i] = i
    BY <1>15 DEF Upto
  <2>2. ASSUME NEW i \in 1..(got + new) PROVE g[i] = i
    <3>1. CASE i <= got
      BY <1>5, <1>7, <1>12, <2>1, <3>1
    <3>2. CASE ~(i <= got)
      <4>1. i - got \in 1..new /\ got + (i - got) = i
        BY <1>5, <1>7, <3>2
      <4>2. g[i] = Fresh(p)[i - got]
        BY <1>12, <3>2
      <4> QED BY <1>17, <4>1, <4>2
    <3> QED BY <3>1, <3>2
  <2>3. g \in Seq(Byte)
    BY <1>5, <1>7, ConcatProperties
  <2> HIDE DEF g
  <2>4. g = [i \in 1..(got + new) |-> g[i]]
    BY <1>12, <2>3
  <2> QED BY <2>2, <2>4 DEF Upto
<1>19. got + new <= s_sent /\ (client.fin => new = 0 /\ f = 0)
  BY <1>1, <1>5, <1>7, <1>9, <1>10, <1>11, <1>14, <1>16
<1>20. fin => got + new = s_sent /\ map = NULL
  <2> SUFFICES ASSUME fin PROVE got + new = s_sent /\ map = NULL
    OBVIOUS
  <2>1. seq + len = Iss + 1 + s_sent /\ map = NULL /\ SeqAdd(rcv, new) = SeqAdd(seq, len) /\ f0 = 0
    BY <1>8, <1>10, <1>14
  <2>2. seq + len \in 0..(SeqMod - 1) /\ rcv + new \in 0..(SeqMod - 1)
    BY <1>1, <1>5, <1>6, <1>7, <1>9, <1>13, <1>19, <2>1
  <2>3. SeqAdd(rcv, new) = rcv + new /\ SeqAdd(seq, len) = seq + len
    <3>1. new \in Int /\ len \in Int
      BY <1>5, <1>7
    <3> QED BY <1>6, <2>2, <3>1, SeqAddFacts
  <2>4. rcv + new = Iss + 1 + s_sent
    BY <2>1, <2>3
  <2>5. rcv = Iss + 1 + got
    BY <1>1, <1>5, <1>9, <2>1
  <2>6. got + new = s_sent
    BY <1>1, <1>5, <1>7, <2>4, <2>5
  <2> QED BY <2>1, <2>6
<1>21. r = Iss + 1 + (got + new) + (f0 + f)
  <2>1. new + f \in Int /\ rcv + (new + f) \in 0..(SeqMod - 1)
    BY <1>1, <1>5, <1>6, <1>7, <1>9, <1>10, <1>11, <1>13, <1>19
  <2>2. r = rcv + (new + f)
    BY <1>6, <2>1, SeqAddFacts
  <2> QED BY <1>1, <1>5, <1>6, <1>7, <1>9, <1>10, <1>11, <2>2
<1>22. f0 + f = (IF client.fin \/ fin THEN 1 ELSE 0)
  BY <1>10, <1>11, <1>19
<1>23. ExpectsNext(w0, Iss, s_sent, client')
  <2>1. Len(client'.got) = got + new /\ client'.rcv = Iss + 1 + (got + new) + (f0 + f)
    BY <1>4, <1>12, <1>21
  <2>2. client'.fin => got + new = s_sent /\ map = NULL
    BY <1>1, <1>4, <1>5, <1>9, <1>19, <1>20
  <2>3. (IF client'.fin THEN 1 ELSE 0) = f0 + f
    BY <1>4, <1>22
  <2> HIDE DEF g, r
  <2> QED BY <1>1, <1>19, <2>1, <2>2, <2>3 DEF ExpectsNext
<1>24. SegmentsPlaced(w0, Iss, s_sent, to_client')
  BY <1>1 DEF SegmentsPlaced
<1>25. client'.got = Upto(Len(client'.got)) /\ ~Early(client')
  BY <1>4, <1>12, <1>18 DEF Early
<1> QED BY <1>3, <1>23, <1>24, <1>25 DEF StreamInv, StreamOK

\* The client gets the daemon's SYN: it expects the first byte, and no segment is
\* under way yet.
LEMMA OpenedStream ==
  ASSUME IInv, StreamInv, NoWrap, client.st = "syn_sent", UNCHANGED <<relay, server>>,
         NEW p \in Packets(to_client), p.flags = {"SYN", "ACK"},
         client'.st = "open", client'.rcv = SeqAdd(p.seq, 1),
         client'.got = client.got, client'.fin = client.fin,
         Packets(to_client') \subseteq Packets(to_client)
  PROVE  StreamInv'
<1>1. Early(client) /\ client.got = <<>> /\ ~client.fin /\ s_sent \in Nat /\ Iss \in Nat
  BY StreamFacts DEF Early
<1>2. w0' = w0 /\ Iss' = Iss /\ s_sent' = s_sent
  BY DEF w0, Iss, relay, server
<1>3. ToClientOK(w0, Iss, to_client, client)
  BY DEF IInv
<1>4. p.seq = Iss
  BY <1>1, <1>3 DEF ToClientOK
<1>5. SeqAdd(p.seq, 1) = Iss + 1
  <2>1. Iss + ServerLen + 2 < SeqMod /\ ServerLen \in Nat /\ SeqMod \in Int
    BY Numbers, SizeTypes DEF NoWrap
  <2>2. Iss + 1 \in 0..(SeqMod - 1) /\ Iss \in Int
    BY <1>1, <2>1
  <2> QED BY <1>4, <2>2, SeqAddFacts
<1>6. Len(client'.got) = 0 /\ client'.got = <<>>
  BY <1>1
<1>7. ExpectsNext(w0, Iss, s_sent, client')
  BY <1>1, <1>5, <1>6 DEF ExpectsNext
<1>8. SegmentsPlaced(w0, Iss, s_sent, to_client')
  <2>1. \A r \in Packets(to_client) : ~Segment(r)
    BY <1>1, <1>3 DEF ToClientOK, Segment
  <2> QED BY <2>1 DEF SegmentsPlaced
<1>9. client'.got = Upto(Len(client'.got)) /\ ~Early(client')
  BY <1>6 DEF Upto, Early
<1> QED BY <1>2, <1>7, <1>8, <1>9 DEF StreamInv, StreamOK

\* The client receives a packet.
LEMMA ClientReceiveStream ==
  ASSUME IInv, StreamInv, NoWrap, ClientReceive
  PROVE  StreamInv'
<1> DEFINE p == Head(to_client)
           opened == [client EXCEPT !.st = "open", !.rcv = SeqAdd(p.seq, 1), !.una = p.ack,
                                    !.edge = SeqAdd(p.ack, p.wnd)]
           gone == [client EXCEPT !.st = "reset"]
<1>1. client \in ClientState /\ to_client \in Seq(Packet)
  BY StreamFacts
<1>2. to_client # <<>> /\ to_client' = Tail(to_client)
  BY DEF ClientReceive
<1>3. p \in Packet /\ p \in Packets(to_client) /\ Packets(to_client') \subseteq Packets(to_client)
  BY <1>1, <1>2, PacketsTail
<1>4. UNCHANGED <<relay, server>>
  BY DEF ClientReceive, ClientActs
<1>5. \/ client' = gone
      \/ client.st = "reset" /\ client' = client
      \/ p.flags = {"SYN", "ACK"} /\ client.st = "syn_sent" /\ client' = opened
      \/ p.flags \cap {"SYN", "RST"} = {} /\ client.st = "open" /\ client' = ClientTakes(p)
  BY DEF ClientReceive, ClientActs
<1>6. /\ gone.st = "reset" /\ gone.got = client.got /\ gone.fin = client.fin
      /\ opened.st = "open" /\ opened.rcv = SeqAdd(p.seq, 1)
      /\ opened.got = client.got /\ opened.fin = client.fin
  BY <1>1 DEF ClientState
<1> HIDE DEF p, opened, gone
<1>7. CASE client' = gone
  BY <1>3, <1>4, <1>6, <1>7, OutsideStream DEF Early
<1>8. CASE client.st = "reset" /\ client' = client
  BY <1>3, <1>4, <1>8, OutsideStream
<1>9. CASE p.flags = {"SYN", "ACK"} /\ client.st = "syn_sent" /\ client' = opened
  BY <1>3, <1>4, <1>6, <1>9, OpenedStream
<1>10. CASE p.flags \cap {"SYN", "RST"} = {} /\ client.st = "open" /\ client' = ClientTakes(p)
  BY <1>3, <1>4, <1>10, TakesStream
<1> QED BY <1>5, <1>7, <1>8, <1>9, <1>10

\* The client sends, or its user reads: what it got stays.
LEMMA ClientSendsStream ==
  ASSUME IInv, StreamInv,
         \/ ClientSyn \/ ClientRead \/ ClientRexmit \/ ClientAbort
         \/ \E n \in 0..Mss, fin \in BOOLEAN : ClientSend(n, fin)
  PROVE  StreamInv'
<1>1. client \in ClientState
  BY StreamFacts
<1>2. UNCHANGED <<relay, server>> /\ to_client' = to_client
  BY DEF ClientSyn, ClientRead, ClientRexmit, ClientAbort, ClientSend, ClientActs
<1>3. client'.got = client.got /\ client'.fin = client.fin
  BY <1>1 DEF ClientState, ClientSyn, ClientRead, ClientRexmit, ClientAbort, ClientSend, ClientActs
<1>4. Early(client') => Early(client)
  BY <1>1 DEF ClientState, ClientSyn, ClientRead, ClientRexmit, ClientAbort, ClientSend, ClientActs,
              Early
<1>5. client'.st = "open" => client.st = "open" /\ client'.rcv = client.rcv
  BY <1>1 DEF ClientState, ClientSyn, ClientRead, ClientRexmit, ClientAbort, ClientSend, ClientActs
<1> QED BY <1>2, <1>3, <1>4, <1>5, OutsideStream

\* Packets are lost or repeated, select waits or begins a pass, or nothing happens.
LEMMA RestStream ==
  ASSUME IInv, StreamInv,
         \/ Network \/ Waits \/ UNCHANGED vars
         \/ \E ready \in SUBSET (FdEvent \cup {"handle_tcp"}) : SelectFds(ready)
         \/ \E e \in Timer : SelectTimer(e)
         \/ \E e \in FdEvent : dangling_callback(e)
  PROVE  StreamInv'
<1>1. to_client \in Seq(Packet)
  BY StreamFacts
<1>2. UNCHANGED <<relay, server, client>>
  BY DEF Network, LoseToClient, LoseToRelay, DupToRelay, Waits, vars, SelectFds, SelectTimer,
         dangling_callback
<1>3. to_client' = to_client \/ (to_client # <<>> /\ to_client' = Tail(to_client))
  BY DEF Network, LoseToClient, LoseToRelay, DupToRelay, Waits, vars, SelectFds, SelectTimer,
         dangling_callback
<1>4. Packets(to_client') \subseteq Packets(to_client)
  BY <1>1, <1>3, PacketsTail
<1>5. Early(client') => Early(client)
  BY <1>2 DEF Early
<1> QED BY <1>2, <1>4, <1>5, OutsideStream
-----------------------------------------------------------------------------
(* The stream the client gets. *)

LEMMA StreamInit == Init => StreamInv
<1> SUFFICES ASSUME Init PROVE StreamInv
  OBVIOUS
<1>1. client.st = "closed" /\ client.got = <<>> /\ ~client.fin /\ Len(client.got) = 0
  BY DEF Init
<1>2. client.got = Upto(Len(client.got))
  BY <1>1 DEF Upto
<1> QED BY <1>1, <1>2 DEF StreamInv, StreamOK

\* Every step keeps the streams in place.
LEMMA StreamStep ==
  ASSUME IInv, StreamInv, NoWrap, NoWrap', [Next]_vars
  PROVE  StreamInv'
<1>1. IInv' /\ LifeStep(w0, w0')
  BY NextStep
<1>2. CASE SocketCallback
  <2>1. ASSUME NEW e \in FdEvent, dangling_callback(e) PROVE StreamInv'
    BY <2>1, RestStream
  <2> QED BY <1>1, <1>2, <2>1, SocketStream DEF SocketCallback
<1>3. CASE handle_tcp
  <2>1. Turn("handle_tcp")
    BY <1>3 DEF handle_tcp
  <2>2. ASSUME NEW connect \in {"ok"} \cup (Outcomes \cap {"refused", "in_progress"}),
               handle_tcp_syn(connect)
        PROVE  StreamInv'
    BY <1>1, <2>1, <2>2, SynStream
  <2> QED BY <1>1, <1>3, <2>2, SegmentStream DEF handle_tcp
<1>4. CASE tcp_timeout \/ tcp_remove
  BY <1>1, <1>4, TimerStream
<1>5. CASE do_tcb_write
  BY <1>1, <1>5, WriteStream
<1>6. CASE Client
  <2>1. CASE ClientReceive
    BY <2>1, ClientReceiveStream
  <2>2. CASE ClientSyn \/ ClientRead \/ ClientRexmit \/ ClientAbort
    BY <2>2, ClientSendsStream
  <2>3. CASE (\E n \in 1..Mss : ClientSend(n, FALSE)) \/ ClientCloses
    <3>1. 1..Mss \subseteq 0..Mss
      BY SizeTypes
    <3>2. \E n \in 0..Mss, fin \in BOOLEAN : ClientSend(n, fin)
      BY <2>3, <3>1 DEF ClientCloses
    <3> QED BY <3>2, ClientSendsStream
  <2> QED BY <1>6, <2>1, <2>2, <2>3 DEF Client, ClientGoesOn
<1>7. CASE \/ Network \/ Waits \/ UNCHANGED vars
           \/ \E ready \in SUBSET (FdEvent \cup {"handle_tcp"}) : SelectFds(ready)
           \/ \E e \in Timer : SelectTimer(e)
  BY <1>7, RestStream
<1> QED BY <1>2, <1>3, <1>4, <1>5, <1>6, <1>7 DEF Next, Callback

\* The streams are in place as long as no sequence number wraps.
LEMMA StreamAlways == Spec /\ []NoWrap => []StreamInv
<1>1. IInv /\ StreamInv /\ NoWrap /\ NoWrap' /\ [Next]_vars => StreamInv'
  BY StreamStep
<1> QED BY InvAlways, StreamInit, <1>1, PTL DEF Spec

\* What the client got is a prefix of what the IPv4 peer sent: tcp_timeout sets
\* snd_nxt back, acknowledgements move outbuf, and tcp_send_and_ack still sends each
\* byte under its own number and the FIN behind the last one.
THEOREM ClientGetsPrefixAlways == Spec /\ []NoWrap => []ClientGetsPrefix
<1>1. StreamInv => ClientGetsPrefix
  BY DEF StreamInv, StreamOK, ClientGetsPrefix
<1> QED BY StreamAlways, <1>1, PTL
-----------------------------------------------------------------------------
(* Output that waits is not forgotten in select. *)

\* What tcp_send_and_ack leaves in the tcb when it sends.
LEMMA SentFields ==
  ASSUME NEW w \in World, w.tcb # NULL, ~NothingToSend(w.tcb)
  PROVE  LET t == w.tcb
             u == tcp_send_and_ack(w).tcb
         IN  /\ u.snd_nxt = SeqAdd(t.snd_nxt, SegLen(t) + IF SegFin(t) THEN 1 ELSE 0)
             /\ u.snd_max = t.snd_max /\ u.outbuf = t.outbuf /\ u.state = t.state
             /\ SegLen(t) > 0 => u.e_timeout # NULL
<1> DEFINE t == w.tcb
           k == SegLen(t) + IF SegFin(t) THEN 1 ELSE 0
           data == Peek(t.outbuf, t.snd_nxt, SegLen(t))
           flags == IF SegFin(t) THEN {"ACK", "FIN"} ELSE {"ACK"}
           a == IF t.e_timeout = NULL /\ SegLen(t) > 0 THEN set_timeout(w) ELSE w
           b == Emit(a, flags, data)
           v == [b EXCEPT !.tcb.snd_nxt = SeqAdd(@, k)]
<1>1. tcp_send_and_ack(w) = v
  BY DEF tcp_send_and_ack
<1>2. t \in Tcb /\ w \in World
  BY DEF World
<1> DEFINE set == [w EXCEPT !.tcb.e_timeout = "tcp_timeout", !.tcb.timeout_mark = t.snd_nxt]
<1>3. /\ set_timeout(w).tcb = set.tcb
  BY DEF set_timeout, AddEvent
<1>4. /\ set.tcb.snd_nxt = t.snd_nxt /\ set.tcb.snd_max = t.snd_max /\ set.tcb.outbuf = t.outbuf
      /\ set.tcb.state = t.state /\ set.tcb.e_timeout = "tcp_timeout"
      /\ DOMAIN set.tcb = DOMAIN t
  BY <1>2 DEF World, Tcb
<1>5. "tcp_timeout" # NULL
  BY TcpAssumption
<1>6. /\ a.tcb.snd_nxt = t.snd_nxt /\ a.tcb.snd_max = t.snd_max /\ a.tcb.outbuf = t.outbuf
      /\ a.tcb.state = t.state /\ (SegLen(t) > 0 => a.tcb.e_timeout # NULL)
      /\ DOMAIN a.tcb = DOMAIN t
  <2> HIDE DEF set
  <2> QED BY <1>3, <1>4, <1>5
<1>7. DOMAIN t = DOMAIN a.tcb /\ {"snd_nxt", "snd_max", "outbuf", "state", "e_timeout"} \subseteq DOMAIN t
  BY <1>2, <1>6 DEF Tcb
<1>8. "tcb" \in DOMAIN a
  BY <1>2 DEF World, set_timeout, AddEvent
<1> HIDE DEF a
<1>9. /\ b.tcb.snd_nxt = a.tcb.snd_nxt /\ b.tcb.snd_max = a.tcb.snd_max
      /\ b.tcb.outbuf = a.tcb.outbuf /\ b.tcb.state = a.tcb.state
      /\ b.tcb.e_timeout = a.tcb.e_timeout /\ DOMAIN b.tcb = DOMAIN a.tcb /\ "tcb" \in DOMAIN b
  BY <1>7, <1>8 DEF Emit
<1> HIDE DEF b, k
<1>10. /\ v.tcb.snd_nxt = SeqAdd(b.tcb.snd_nxt, k) /\ v.tcb.snd_max = b.tcb.snd_max
       /\ v.tcb.outbuf = b.tcb.outbuf /\ v.tcb.state = b.tcb.state
       /\ v.tcb.e_timeout = b.tcb.e_timeout
  BY <1>7, <1>9
<1> QED BY <1>1, <1>6, <1>9, <1>10 DEF k

\* When tcp_send_and_ack can be called again at once, it has sent data.
LEMMA AgainAfterData ==
  ASSUME NEW w, NEW iss \in Nat, NEW sent \in Nat, iss + sent + 2 < SeqMod, NEW again,
         DaemonOK(w, iss, sent, again), w.tcb # NULL, w.tcb.state # "SYN_RECVD",
         ~NothingToSend(w.tcb), CanDoAgain(tcp_send_and_ack(w).tcb)
  PROVE  SegLen(w.tcb) > 0
<1> DEFINE t == w.tcb
           u == tcp_send_and_ack(w).tcb
           s == t.outbuf.w_seq
           nxt == t.snd_nxt
           used == rb_used(t.outbuf)
           back == IntDiff(s, nxt)
<1>1. w \in World /\ t \in Tcb /\ SessionOK(t, iss, sent) /\ SendNumbers(t, iss, sent)
  BY DEF DaemonOK, World, SessionOK
<1>2. /\ t.snd_una \in uint /\ nxt \in uint /\ s \in uint /\ used \in Nat /\ t.snd_max \in uint
      /\ t.outbuf \in Queues(Byte)
  BY <1>1, TcbTypes
<1>3. t.snd_una \in Int /\ nxt \in Int /\ s \in Int
  BY <1>2, UintIsInt
<1>4. /\ u.snd_nxt = SeqAdd(nxt, SegLen(t) + IF SegFin(t) THEN 1 ELSE 0)
      /\ u.snd_max = t.snd_max /\ u.outbuf = t.outbuf /\ u.state = t.state
  BY <1>1, SentFields
<1>a. CanDoAgain(u)
  OBVIOUS
<1> HIDE DEF u
<1>5. SUFFICES ASSUME SegLen(t) = 0 PROVE FALSE
  <2>1. SegLen(t) \in Nat
    BY <1>1, SegFacts
  <2> QED BY <1>5, <2>1
<1>6. /\ nxt <= s + 1 /\ s - nxt <= used /\ used <= BufSize /\ s = iss + 1 + sent
  <2>1. SendLimit(t) = s \/ SendLimit(t) = s + 1
    BY <1>3 DEF SendLimit
  <2>2. /\ t.snd_una <= nxt /\ nxt <= SendLimit(t) /\ s - t.snd_una <= used /\ used <= BufSize
        /\ s = iss + 1 + sent
    BY <1>1 DEF SendNumbers
  <2> HIDE DEF s, nxt, used
  <2> QED BY <1>2, <1>3, <2>1, <2>2
<1> HIDE DEF s, nxt, used
<1>7. back = s - nxt
  <2>1. 2 * (s - nxt) < SeqMod /\ 2 * (nxt - s) < SeqMod
    BY <1>2, <1>3, <1>6, SizeTypes
  <2> QED BY <1>2, <2>1, IntDiffFacts
<1>8. rb_avail(t.outbuf, nxt) = s - nxt
  <2>1. rb_avail(t.outbuf, nxt) = IF back > used THEN 0 ELSE back
    BY DEF rb_avail, s, used
  <2> QED BY <1>2, <1>3, <1>6, <1>7, <2>1
<1>9. nxt + 0 = nxt /\ SeqAdd(nxt, 0) = nxt
  <2>1. nxt + 0 \in 0..(SeqMod - 1)
    BY <1>2, <1>3 DEF uint
  <2> QED BY <1>3, <2>1, SeqAddFacts
<1>10. CASE SegFin(t)
  <2>1. rb_avail(t.outbuf, SeqAdd(nxt, SegLen(t))) = 0 /\ t.state \in Sending
    BY <1>10 DEF SegFin, nxt
  <2>2. s = nxt
    BY <1>3, <1>5, <1>8, <1>9, <2>1
  <2>3. u.snd_nxt = nxt + 1
    <3>1. nxt + 1 \in 0..(SeqMod - 1)
      BY <1>3, <1>6, <2>2, SizeTypes
    <3> QED BY <1>3, <1>4, <1>5, <1>10, <3>1, SeqAddFacts
  <2>4. IntDiff(s, nxt + 1) = -1
    <3>1. nxt + 1 \in uint
      BY <1>3, <1>6, <2>2, SizeTypes DEF uint
    <3>2. 2 * (s - (nxt + 1)) < SeqMod /\ 2 * ((nxt + 1) - s) < SeqMod
      BY <1>3, <2>2, SizeTypes
    <3>3. IntDiff(s, nxt + 1) = s - (nxt + 1)
      BY <1>2, <3>1, <3>2, IntDiffFacts
    <3> QED BY <1>3, <2>2, <3>3
  <2>5. rb_avail(u.outbuf, u.snd_nxt) = -1
    <3>1. rb_avail(t.outbuf, nxt + 1) = IF IntDiff(s, nxt + 1) > used THEN 0 ELSE IntDiff(s, nxt + 1)
      BY DEF rb_avail, s, used
    <3>2. ~(-1 > used)
      BY <1>2
    <3> QED BY <1>4, <2>3, <2>4, <3>1, <3>2
  <2>6. u.state # "ESTABLISHED"
    BY <1>4, <2>1 DEF Sending
  <2> QED BY <1>a, <2>5, <2>6 DEF CanDoAgain
<1>11. CASE ~SegFin(t)
  <2>1. u.snd_nxt = nxt
    BY <1>4, <1>5, <1>9, <1>11
  <2>2. /\ window_size(t) > 0 /\ rb_avail(t.outbuf, nxt) > -1
        /\ t.state \in Sending \/ rb_avail(t.outbuf, nxt) > 0
    <3>1. window_size(u) = window_size(t)
      BY <1>4, <2>1 DEF window_size, nxt
    <3>2. /\ window_size(u) > 0
          /\ \/ u.state = "ESTABLISHED" /\ rb_avail(u.outbuf, u.snd_nxt) > 0
             \/ u.state \in Sending /\ rb_avail(u.outbuf, u.snd_nxt) > -1
      BY <1>a DEF CanDoAgain
    <3> QED BY <1>3, <1>4, <1>8, <2>1, <3>1, <3>2
  <2>3. rb_avail(t.outbuf, nxt) > 0
    <3>1. CASE t.state \in Sending
      <4>1. rb_avail(t.outbuf, nxt) # 0
        BY <1>5, <1>9, <1>11, <2>2, <3>1 DEF SegFin, nxt
      <4> QED BY <1>3, <1>8, <2>2, <4>1
    <3> QED BY <2>2, <3>1
  <2>4. s - nxt \in 1..used /\ back \in 1..used
    BY <1>2, <1>3, <1>6, <1>7, <1>8, <2>3
  <2> DEFINE wnd == window_size(t)
             m == MinInt(MinInt(rb_avail(t.outbuf, nxt), Mss), wnd)
  <2>5. wnd \in Int /\ wnd > 0
    BY <1>2, <2>2, IntDiffFacts DEF window_size, nxt
  <2> HIDE DEF wnd
  <2>6. m \in Nat /\ m > 0
    BY <1>3, <1>8, <2>3, <2>5, SizeTypes DEF MinInt
  <2>7. SegLen(t) = Len(Peek(t.outbuf, nxt, m))
    BY <2>2, <2>3, <2>5 DEF SegLen, nxt, wnd
  <2> HIDE DEF m
  <2>8. Len(Peek(t.outbuf, nxt, m)) = MinInt(back, m)
    BY <1>2, <2>4, <2>6, PeekFacts DEF s, used
  <2>9. MinInt(back, m) > 0
    BY <1>2, <2>4, <2>6 DEF MinInt
  <2> QED BY <1>5, <2>7, <2>8, <2>9
<1> QED BY <1>10, <1>11

\* A pass ends without do_tcb_write only if it is not listed.
LEMMA EndsAwake ==
  ASSUME NEW e, NEW w, Ends(e, w), e # "do_tcb_write"
  PROVE  NoSleepOnOutput'
<1>1. run' = Rest(e, w) /\ listed' = w.listed
  BY DEF Ends
<1>2. Rest(e, w) = {} => ~(w.listed["do_tcb_write"] > 0)
  BY DEF Rest
<1> QED BY <1>1, <1>2 DEF NoSleepOnOutput, Idle

\* The events of the tcb are listed when the tcb points to them.
LEMMA TcbListed ==
  ASSUME NEW w, NEW iss, NEW sent, DaemonOK(w, iss, sent, Again), w.tcb # NULL
  PROVE  /\ w.tcb.e_tcb_send = NULL => ~(w.listed["do_tcb_write"] > 0)
         /\ w.tcb.e_timeout # NULL => \E e \in Timer : w.listed[e] > 0
<1>1. w \in World /\ ListedAs(w, NULL, Again) /\ w.tcb \in Tcb /\ w.map \in TcpMap \cup {NULL}
  BY DEF DaemonOK, World
<1>2. NULL \notin Event /\ "do_tcb_write" \in Event /\ Timer \subseteq Event
  BY TcpAssumption DEF Event, FdEvent, FdWrite, Timer
<1>3. w.tcb.e_timeout \in {NULL} \cup Timer
  BY <1>1, TcbTypes
<1>4. ASSUME w.tcb.e_tcb_send = NULL PROVE ~(w.listed["do_tcb_write"] > 0)
  <2>1. w.map # NULL => "do_tcb_write" \notin {w.map.e_fd_read, w.map.e_fd_write}
    BY <1>1, TcpAssumption DEF TcpMap, FdWrite
  <2>2. ~PointsTo(w, "do_tcb_write")
    BY <1>3, <1>4, <2>1, TcpAssumption DEF PointsTo, Timer
  <2> QED BY <1>2, <2>2, ListedPoints
<1>5. ASSUME w.tcb.e_timeout # NULL PROVE \E e \in Timer : w.listed[e] > 0
  <2> DEFINE e == w.tcb.e_timeout
  <2>1. e \in Timer /\ e \in Event /\ e # "handle_fd_can_write" /\ e # NULL
    BY <1>2, <1>3, <1>5 DEF Timer
  <2>2. PointsTo(w, e)
    BY DEF PointsTo
  <2> HIDE DEF e
  <2>3. w.listed[e] = (IF PointsTo(w, e) THEN 1 ELSE 0) + (IF e = NULL THEN 1 ELSE 0)
    BY <1>1, <2>1 DEF ListedAs
  <2> QED BY <2>1, <2>2, <2>3
<1> QED BY <1>4, <1>5

\* After do_tcb_write nothing is left to be sent, or data was sent and is timed.
LEMMA WriteAwake ==
  ASSUME IInv, NoWrap, do_tcb_write
  PROVE  NoSleepOnOutput'
<1> DEFINE e == "do_tcb_write"
<1>1. e \in Event /\ Turn(e) /\ e # "handle_fd_can_write"
  BY DEF do_tcb_write, Event
<1>2. /\ w0.listed[e] > 0 /\ w0 \in World /\ DaemonOK(w0, Iss, s_sent, Again)
      /\ HandshakeOK(w0, Iss) /\ Iss \in Nat /\ s_sent \in Nat
      /\ s_sent \in 0..ServerLen /\ w0.tcb = tcb /\ w0.map = map
      /\ tcb # NULL => tcb \in Tcb
      /\ map # NULL => map \in TcpMap
  BY <1>1, Called
<1>3. w0.tcb # NULL /\ w0.tcb.e_tcb_send = e
  <2>1. PointsTo(w0, e)
    BY <1>1, <1>2, ListedPoints
  <2>2. w0.map # NULL => w0.map.e_fd_read # e /\ w0.map.e_fd_write # e
    BY <1>2, TcpAssumption DEF TcpMap, FdWrite
  <2>3. w0.tcb # NULL => w0.tcb.e_timeout # e
    <3>1. w0.tcb # NULL => w0.tcb.e_timeout \in {NULL} \cup Timer
      BY <1>2, TcbTypes
    <3> QED BY <3>1, TcpAssumption DEF Timer
  <2> QED BY <1>2, <2>1, <2>2, <2>3 DEF PointsTo
<1>4. Iss + s_sent + 2 < SeqMod
  <2>1. Iss + ServerLen + 2 < SeqMod /\ ServerLen \in Nat /\ SeqMod \in Int
    BY Numbers, SizeTypes DEF NoWrap
  <2> QED BY <1>2, <2>1
<1>5. ASSUME NEW x, DaemonOK(x, Iss, s_sent, Again), x.tcb # NULL, x.tcb.e_tcb_send = e,
             Ends(e, RemoveEvent([x EXCEPT !.tcb.e_tcb_send = NULL], e))
      PROVE  NoSleepOnOutput'
  <2> DEFINE v == RemoveEvent([x EXCEPT !.tcb.e_tcb_send = NULL], e)
  <2>1. DaemonOK(v, Iss, s_sent, Again) /\ v.tcb # NULL /\ v.tcb.e_tcb_send = NULL
    BY <1>5, WriteDone
  <2>2. Ends(e, v)
    BY <1>5
  <2> HIDE DEF v
  <2>3. ~(v.listed[e] > 0)
    BY <2>1, TcbListed
  <2> QED BY <2>2, <2>3 DEF Ends, NoSleepOnOutput
<1>6. CASE tcb.state = "SYN_RECVD"
  <2> DEFINE w == tcp_send_syn(w0)
  <2>1. Ends(e, RemoveEvent([w EXCEPT !.tcb.e_tcb_send = NULL], e))
    BY <1>6 DEF do_tcb_write, EndsRemoved
  <2>2. w0.tcb.snd_nxt = Iss
    <3>1. InSynRecvd(w0) /\ w0.tcb.e_tcb_send # NULL
      BY <1>2, <1>3, <1>6, TcpAssumption DEF InSynRecvd
    <3> QED BY <1>2, <3>1 DEF HandshakeOK
  <2>3. DaemonOK(w, Iss, s_sent, Again) /\ w.tcb # NULL /\ w.tcb.e_tcb_send = e
    BY <1>2, <1>3, <1>4, <1>6, <2>2, SendSynKeeps
  <2> HIDE DEF w
  <2> QED BY <1>5, <2>1, <2>3
<1>7. CASE tcb.state # "SYN_RECVD"
  <2> DEFINE w == tcp_send_and_ack(w0)
             more == ~NothingToSend(tcb) /\ CanDoAgain(w.tcb)
  <2>1. /\ more => Ends(e, w)
        /\ ~more => Ends(e, RemoveEvent([w EXCEPT !.tcb.e_tcb_send = NULL], e))
    BY <1>7 DEF do_tcb_write, EndsRemoved
  <2>2. DaemonOK(w, Iss, s_sent, Again) /\ w.tcb # NULL /\ SameButSent(w0.tcb, w.tcb)
    BY <1>2, <1>3, <1>4, <1>7, SendAckKeeps
  <2>3. w.tcb.e_tcb_send = e
    BY <1>3, <2>2 DEF SameButSent
  <2>4. CASE more
    <3>1. SegLen(w0.tcb) > 0
      BY <1>2, <1>3, <1>4, <1>7, <2>4, AgainAfterData
    <3>2. w.tcb.e_timeout # NULL
      BY <1>2, <1>3, <2>4, <3>1, SentFields
    <3> HIDE DEF w
    <3>3. \E f \in Timer : w.listed[f] > 0
      BY <2>2, <3>2, TcbListed
    <3>4. listed' = w.listed
      BY <2>1, <2>4 DEF Ends
    <3> QED BY <3>3, <3>4 DEF NoSleepOnOutput
  <2>5. CASE ~more
    <3> HIDE DEF w
    <3> QED BY <1>5, <2>1, <2>2, <2>3, <2>5
  <2> QED BY <2>4, <2>5
<1> QED BY <1>6, <1>7

\* Every step keeps event_loop awake while output waits.
LEMMA AwakeStep ==
  ASSUME IInv, NoSleepOnOutput, NoWrap, [Next]_vars
  PROVE  NoSleepOnOutput'
<1>1. CASE SocketCallback
  <2>1. ASSUME NEW e \in FdEvent, dangling_callback(e) PROVE NoSleepOnOutput'
    BY <2>1 DEF dangling_callback, NoSleepOnOutput, Idle
  <2>2. ASSUME ~(\E e \in FdEvent : dangling_callback(e))
        PROVE  \E e, w : e # "do_tcb_write" /\ Ends(e, w)
    BY <1>1, <2>2 DEF SocketCallback, handle_fd_can_read, handle_fd_can_write,
       handle_fd_can_read_end, handle_fd_can_read_again, handle_fd_can_write_end,
       handle_fd_can_write_again, handle_fd_did_connect, EndsRemoved
  <2> QED BY <2>1, <2>2, EndsAwake
<1>2. CASE handle_tcp
  <2>1. \E w : Ends("handle_tcp", w)
    BY <1>2 DEF handle_tcp, handle_tcp_syn, handle_tcp_stray, handle_tcp_rst, handle_tcp_last_ack,
       handle_tcp_closing, handle_tcp_old, handle_tcp_segment, Handled
  <2> QED BY <2>1, EndsAwake
<1>3. CASE tcp_timeout \/ tcp_remove
  <2>1. \E e, w : e # "do_tcb_write" /\ Ends(e, w)
    BY <1>3 DEF tcp_timeout, tcp_remove, EndsRemoved
  <2> QED BY <2>1, EndsAwake
<1>4. CASE do_tcb_write
  BY <1>4, WriteAwake
<1>5. CASE Client \/ Network \/ Waits \/ UNCHANGED vars
  <2>1. listed' = listed /\ run' = run
    BY <1>5 DEF Client, ClientGoesOn, ClientCloses, ClientSyn, ClientReceive, ClientRead, ClientSend,
       ClientRexmit, ClientAbort, ClientActs, Network, LoseToClient, LoseToRelay, DupToRelay,
       Waits, vars, relay
  <2> QED BY <2>1 DEF NoSleepOnOutput, Idle
<1>6. ASSUME NEW ready, SelectFds(ready) PROVE NoSleepOnOutput'
  <2>1. listed' = listed /\ (run' = {} => ~(listed["do_tcb_write"] > 0))
    BY <1>6 DEF SelectFds, relay
  <2> QED BY <2>1 DEF NoSleepOnOutput, Idle
<1>7. ASSUME NEW e \in Timer, SelectTimer(e) PROVE NoSleepOnOutput'
  BY <1>7 DEF SelectTimer, NoSleepOnOutput, Idle
<1> QED BY <1>1, <1>2, <1>3, <1>4, <1>5, <1>6, <1>7 DEF Next, Callback

\* Output that is left over at the end of a pass comes with a time event: do_tcb_write
\* stays listed only after a segment with data, and that has started the timer.  So
\* event_loop never waits in select without a timeout while output is scheduled.
THEOREM NoSleepOnOutputAlways == Spec /\ []NoWrap => []NoSleepOnOutput
<1>1. Init => NoSleepOnOutput
  BY DEF Init, NoSleepOnOutput, Event
<1>2. IInv /\ NoSleepOnOutput /\ NoWrap /\ [Next]_vars => NoSleepOnOutput'
  BY AwakeStep
<1> QED BY InvAlways, <1>1, <1>2, PTL DEF Spec
-----------------------------------------------------------------------------
(* The window offered to the client. *)

\* The right edge of the window that a session with application offers, BufSize
\* left out.
Offered(t) == t.rcv_nxt - rb_used(t.inbuf)

\* A session that is established after a step offers no less than before it.
Offers(t, u) == u.state = "ESTABLISHED" => Offered(u) >= Offered(t)

\* v has the tcb of w.
KeepsTcb(w, v) == "tcb" \in DOMAIN w => "tcb" \in DOMAIN v /\ v.tcb = w.tcb

\* Events and the map are no part of the tcb.
LEMMA TcbStays ==
  ASSUME NEW w
  PROVE  /\ \A e : KeepsTcb(w, AddEvent(w, e)) /\ KeepsTcb(w, RemoveEvent(w, e))
         /\ \A m : KeepsTcb(w, [w EXCEPT !.map = m])
         /\ KeepsTcb(w, [w EXCEPT !.map.e_fd_read = NULL])
         /\ KeepsTcb(w, [w EXCEPT !.map.e_fd_write = NULL])
         /\ KeepsTcb(w, kill_map(w))
  BY DEF KeepsTcb, AddEvent, RemoveEvent, kill_map

\* What is offered is a number.
LEMMA OfferedIsInt ==
  ASSUME NEW t \in Tcb
  PROVE  t.rcv_nxt \in Int /\ rb_used(t.inbuf) \in Nat /\ Offered(t) \in Int
<1>1. t.rcv_nxt \in uint /\ rb_used(t.inbuf) \in Nat
  BY TcbTypes
<1>2. t.rcv_nxt \in Int
  BY <1>1, UintIsInt
<1> QED BY <1>1, <1>2 DEF Offered

\* Nothing received and nothing read: the offer stands.
LEMMA SameOffer ==
  ASSUME NEW t \in Tcb, NEW u, u.rcv_nxt = t.rcv_nxt, u.inbuf = t.inbuf
  PROVE  Offers(t, u)
<1>1. Offered(u) = Offered(t)
  BY DEF Offered
<1> QED BY <1>1, OfferedIsInt DEF Offers

\* The bytes of a segment move rcv_nxt by their number and fill inbuf by no more.
LEMMA RecvOffers ==
  ASSUME NEW w, NEW iss, NEW sent, NEW again, DaemonOK(w, iss, sent, again), w.tcb # NULL,
         w.tcb.state = "ESTABLISHED", NEW p \in Packet, "FIN" \notin p.flags,
         w.tcb.rcv_nxt + Len(p.data) < SeqMod
  PROVE  Offers(w.tcb, tcp_recv_data(w, p).tcb)
<1> DEFINE n == Len(p.data)
           v == mark_for_if_write([w EXCEPT !.tcb.rcv_nxt = SeqAdd(@, n)])
           b == Written(v.tcb.inbuf, p.data, BufSize)
           u == [v EXCEPT !.tcb.inbuf = Written(@, p.data, BufSize), !.tcb.rcv_wnd = rb_left(b)]
           c == can_read(u)
<1>1. p.data \in Seq(Byte) /\ n \in Nat
  BY DEF Packet
<1>2. w.tcb \in Tcb /\ w.tcb.cb
  BY DEF DaemonOK, World, Matched
<1>3. tcp_recv_data(w, p) = IF n = 0 THEN w ELSE c
  BY <1>2 DEF tcp_recv_data
<1>4. n + w.tcb.rcv_nxt < SeqMod /\ w.tcb.rcv_nxt \in uint /\ w.tcb.rcv_nxt \in Int
  <2>1. w.tcb.rcv_nxt \in Int /\ w.tcb.rcv_nxt \in uint
    BY <1>2, OfferedIsInt, TcbTypes
  <2> QED BY <1>1, <2>1
<1> HIDE DEF n
<1>5. CASE n = 0
  <2>1. tcp_recv_data(w, p) = w
    BY <1>3, <1>5
  <2> QED BY <1>2, <2>1, SameOffer
<1>6. CASE n # 0
  <2>1. /\ DaemonOK(v, iss, sent, again) /\ v.tcb # NULL /\ v.tcb \in Tcb
        /\ v.tcb.rcv_nxt = SeqAdd(w.tcb.rcv_nxt, n)
        /\ v.tcb.state = "ESTABLISHED" /\ v.tcb.inbuf = w.tcb.inbuf
    BY <1>1, AdvanceKeeps
  <2> HIDE DEF v
  <2>2. Len(p.data) > 0
    BY <1>1, <1>6 DEF n
  <2>3. /\ c.tcb \in Tcb /\ c.tcb = [v.tcb EXCEPT !.inbuf = b, !.rcv_wnd = rb_left(b)]
        /\ rb_used(b) <= rb_used(v.tcb.inbuf) + n
    BY <1>1, <2>1, <2>2, StoreKeeps DEF n
  <2> HIDE DEF u, b, c
  <2> DEFINE y == rb_left(b)
  <2>4. c.tcb.rcv_nxt = v.tcb.rcv_nxt /\ c.tcb.inbuf = b
    <3>1. c.tcb = [v.tcb EXCEPT !.inbuf = b, !.rcv_wnd = y]
      BY <2>3
    <3> HIDE DEF y
    <3> QED BY <2>1, <3>1 DEF Tcb
  <2>5. SeqAdd(w.tcb.rcv_nxt, n) = w.tcb.rcv_nxt + n
    <3>1. w.tcb.rcv_nxt + n \in 0..(SeqMod - 1)
      <4>1. 0 <= w.tcb.rcv_nxt
        BY <1>4, UintIsInt
      <4> QED BY <1>1, <1>4, <4>1, SizeTypes
    <3> QED BY <1>1, <1>4, <3>1, SeqAddFacts
  <2>6. rb_used(b) \in Nat /\ rb_used(w.tcb.inbuf) \in Nat
    BY <1>2, <2>3, <2>4, OfferedIsInt
  <2>7. Offered(c.tcb) = w.tcb.rcv_nxt + n - rb_used(b) /\ rb_used(b) <= rb_used(w.tcb.inbuf) + n
    <3>1. Offered(c.tcb) = c.tcb.rcv_nxt - rb_used(c.tcb.inbuf)
      BY DEF Offered
    <3>2. c.tcb.rcv_nxt = w.tcb.rcv_nxt + n /\ c.tcb.inbuf = b
      BY <2>1, <2>4, <2>5
    <3> QED BY <1>1, <1>4, <2>1, <2>3, <2>6, <3>1, <3>2
  <2>8. Offered(c.tcb) >= Offered(w.tcb)
    <3>1. Offered(w.tcb) = w.tcb.rcv_nxt - rb_used(w.tcb.inbuf)
      BY DEF Offered
    <3> QED BY <1>1, <1>4, <2>6, <2>7, <3>1
  <2>9. tcp_recv_data(w, p) = c
    BY <1>3, <1>6
  <2> QED BY <2>8, <2>9 DEF Offers
<1> QED BY <1>5, <1>6

\* So does the last switch of handle_tcp; with a FIN the session is no longer
\* established.
LEMMA ReceiveOffers ==
  ASSUME NEW w, NEW iss \in Nat, NEW sent \in Nat, NEW again, DaemonOK(w, iss, sent, again),
         w.tcb # NULL, w.tcb.state = "ESTABLISHED", NEW p \in Packet,
         w.tcb.rcv_nxt + Len(p.data) < SeqMod
  PROVE  Offers(w.tcb, Receive(w, p).tcb)
<1> DEFINE v == tcp_recv_data(w, p)
<1>1. CASE "FIN" \in p.flags
  <2>1. Receive(w, p) = tcp_remote_close([v EXCEPT !.tcb.state = "CLOSE_WAIT"])
    BY <1>1 DEF Receive
  <2>2. DaemonOK(v, iss, sent, again) /\ v.tcb # NULL /\ SameButRecv(w.tcb, v.tcb)
    BY RecvDataKeeps
  <2> HIDE DEF v
  <2>3. v.tcb.state = "ESTABLISHED"
    BY <2>2 DEF SameButRecv
  <2>4. tcp_remote_close([v EXCEPT !.tcb.state = "CLOSE_WAIT"]).tcb.state = "LAST_ACK"
    BY <2>2, <2>3, RemoteCloseKeeps
  <2> QED BY <2>1, <2>4 DEF Offers
<1>2. CASE "FIN" \notin p.flags
  <2>1. Receive(w, p) = v
    BY <1>2 DEF Receive
  <2> QED BY <1>2, <2>1, RecvOffers
<1> QED BY <1>1, <1>2

\* The acknowledgement of a segment has nothing to do with the offer.
LEMMA SettledOffers ==
  ASSUME IInv, NoWrap, Turn("handle_tcp"), OfSession, tcb.state = "ESTABLISHED"
  PROVE  /\ Acks(pkt) /\ wa.tcb.state = "ESTABLISHED"
         /\ DaemonOK(ws, Iss, s_sent, Again) /\ ws.tcb # NULL /\ ws.tcb \in Tcb
         /\ ws.tcb.state = "ESTABLISHED" /\ ws.tcb.rcv_nxt = tcb.rcv_nxt /\ ws.tcb.inbuf = tcb.inbuf
         /\ ws = wa
<1>1. /\ tcb # NULL /\ tcb \in Tcb /\ Iss + s_sent + 2 < SeqMod
      /\ w0.tcb = tcb /\ DaemonOK(w0, Iss, s_sent, Again) /\ pkt \in Packet
      /\ Iss \in Nat /\ s_sent \in Nat
  BY SegmentBegins, HandleBegins
<1>2. Acks(pkt) /\ pkt.ack <= SendLimit(tcb)
  BY <1>1, SegmentBegins DEF InSynRecvd
<1> HIDE DEF w0, pkt, Iss
<1>3. /\ DaemonOK(wa, Iss, s_sent, Again) /\ wa.tcb # NULL /\ SameButAck(w0.tcb, wa.tcb)
  BY <1>1, <1>2, AckedKeeps DEF wa
<1> HIDE DEF wa
<1>4. wa.tcb.state = "ESTABLISHED" /\ wa.tcb.rcv_nxt = tcb.rcv_nxt /\ wa.tcb.inbuf = tcb.inbuf
  BY <1>1, <1>3 DEF SameButAck
<1>5. ws = wa
  BY <1>4 DEF ws, Settled
<1>6. wa.tcb \in Tcb
  BY <1>3 DEF DaemonOK, World
<1> QED BY <1>2, <1>3, <1>4, <1>5, <1>6

\* An old segment changes last_acked, a new one brings what it has.
LEMMA SegmentOffers ==
  ASSUME IInv, NoWrap, Turn("handle_tcp"), handle_tcp_old \/ handle_tcp_segment,
         tcb.state = "ESTABLISHED"
  PROVE  Offers(tcb, tcb')
<1>1. OfSession
  BY DEF handle_tcp_old, handle_tcp_segment
<1>2. /\ Acks(pkt)
      /\ DaemonOK(ws, Iss, s_sent, Again) /\ ws.tcb # NULL /\ ws.tcb \in Tcb
      /\ ws.tcb.state = "ESTABLISHED" /\ ws.tcb.rcv_nxt = tcb.rcv_nxt /\ ws.tcb.inbuf = tcb.inbuf
  BY <1>1, SettledOffers
<1>3. /\ tcb \in Tcb /\ tcb.rcv_nxt \in ClientSeq /\ pkt \in Packet
      /\ Iss \in Nat /\ s_sent \in Nat /\ Ending(pkt) <= Irs + ClientLen + 2
  BY <1>1, <1>2, SegmentBegins, HandleBegins DEF InSynRecvd
<1>4. CASE handle_tcp_old
  <2> DEFINE x == [ws EXCEPT !.tcb.last_acked = SeqAdd(@, -1)]
             v == mark_for_if_write(x)
  <2>1. tcb' = v.tcb
    BY <1>2, <1>4 DEF handle_tcp_old, Handled, Ends
  <2>2. ws \in World
    BY <1>2 DEF DaemonOK
  <2> HIDE DEF ws
  <2>3. x.tcb.rcv_nxt = ws.tcb.rcv_nxt /\ x.tcb.inbuf = ws.tcb.inbuf
        /\ "tcb" \in DOMAIN x /\ {"rcv_nxt", "inbuf"} \subseteq DOMAIN x.tcb
    BY <1>2, <2>2 DEF World, Tcb
  <2> HIDE DEF x
  <2>4. v.tcb.rcv_nxt = x.tcb.rcv_nxt /\ v.tcb.inbuf = x.tcb.inbuf
    BY <2>3 DEF mark_for_if_write, AddEvent
  <2> QED BY <1>2, <1>3, <2>1, <2>3, <2>4, SameOffer
<1>5. CASE handle_tcp_segment
  <2> DEFINE z == NewWindow(ws, pkt)
  <2>1. tcb' = Receive(z, pkt).tcb /\ pkt.seq >= tcb.rcv_nxt
    BY <1>2, <1>5 DEF handle_tcp_segment, Handled, Ends
  <2> HIDE DEF ws, pkt, Iss
  <2>2. DaemonOK(z, Iss, s_sent, Again) /\ z.tcb # NULL /\ z.tcb \in Tcb /\ SameSession(ws.tcb, z.tcb)
    BY <1>2, <1>3, NewWindowKeeps
  <2> HIDE DEF z
  <2>3. z.tcb.state = "ESTABLISHED" /\ z.tcb.rcv_nxt = tcb.rcv_nxt /\ z.tcb.inbuf = tcb.inbuf
    BY <1>2, <2>2 DEF SameSession
  <2>4. z.tcb.rcv_nxt + Len(pkt.data) < SeqMod
    <3> DEFINE r == tcb.rcv_nxt
               n == Len(pkt.data)
               f == IF "FIN" \in pkt.flags THEN 1 ELSE 0
    <3>1. pkt.seq \in uint /\ pkt.data \in Seq(Byte)
      BY <1>3 DEF Packet
    <3>2. pkt.seq \in Int /\ n \in Nat /\ f \in 0..1 /\ Ending(pkt) = pkt.seq + n + f
      <4>1. pkt.seq \in Int
        BY <3>1, UintIsInt
      <4>2. n \in Nat
        BY <3>1
      <4> QED BY <4>1, <4>2 DEF Ending
    <3>3. /\ Irs \in Int /\ ClientLen \in Int /\ SeqMod \in Int /\ Irs + ClientLen + 2 < SeqMod
          /\ r \in (Irs + 1)..(Irs + ClientLen + 2)
      BY <1>3, Numbers, SizeTypes DEF NoWrap, ClientSeq
    <3> HIDE DEF n, f
    <3>4. r + n < SeqMod
      BY <1>3, <2>1, <3>2, <3>3
    <3> QED BY <2>3, <3>4 DEF n
  <2>5. Offers(z.tcb, Receive(z, pkt).tcb)
    BY <1>3, <2>2, <2>3, <2>4, ReceiveOffers
  <2>6. Offered(z.tcb) = Offered(tcb)
    BY <2>3 DEF Offered
  <2> QED BY <2>1, <2>5, <2>6 DEF Offers
<1> QED BY <1>4, <1>5

\* A session that the relay gives up is no longer established.
LEMMA GivenUp ==
  ASSUME NEW w \in World, w.tcb # NULL, w.tcb.state = "ESTABLISHED", NEW e
  PROVE  RemoveEvent(GiveUp(w), e).tcb.state = "FIN_WAIT_1"
<1> DEFINE a == [w EXCEPT !.tcb.cb = FALSE, !.tcb.rcv_wnd = DrainWnd,
                          !.tcb.state = IF @ = "ESTABLISHED" THEN "FIN_WAIT_1" ELSE "LAST_ACK"]
           b == mark_for_if_write(a)
<1>1. tcp_close(w) = b
  BY DEF tcp_close
<1>2. "tcb" \in DOMAIN a /\ "state" \in DOMAIN a.tcb /\ a.tcb.state = "FIN_WAIT_1"
  BY DEF World, Tcb
<1> HIDE DEF a
<1>3. "tcb" \in DOMAIN b /\ b.tcb.state = "FIN_WAIT_1"
  BY <1>2 DEF mark_for_if_write, AddEvent
<1> HIDE DEF b
<1>4. KeepsTcb(b, kill_map(b)) /\ KeepsTcb(kill_map(b), RemoveEvent(kill_map(b), e))
  BY TcbStays
<1>5. GiveUp(w) = kill_map(b)
  BY <1>1 DEF GiveUp
<1> QED BY <1>3, <1>4, <1>5 DEF KeepsTcb

\* The callbacks of the socket offer what was read from inbuf.
LEMMA SocketOffers ==
  ASSUME IInv, NoWrap, SocketCallback, tcb # NULL, tcb.state = "ESTABLISHED"
  PROVE  Offers(tcb, tcb')
<1>1. /\ "handle_fd_can_read" \in FdEvent /\ "handle_fd_can_read" \in Event
      /\ "handle_fd_can_write" \in FdEvent /\ "handle_fd_can_write" \in Event
      /\ "handle_fd_did_connect" \in FdEvent
  BY DEF FdEvent, FdWrite, Event
<1>2. ProgramTypeOK /\ w0.tcb = tcb /\ w0.map = map /\ tcb \in Tcb /\ map \in TcpMap \cup {NULL}
      /\ "tcb" \in DOMAIN w0 /\ "map" \in DOMAIN w0
  BY DEF IInv, ProgramTypeOK, w0
<1>3. ASSUME NEW e \in FdEvent, dangling_callback(e) PROVE Offers(tcb, tcb')
  <2>1. tcb' = tcb
    BY <1>3 DEF dangling_callback, relay
  <2> QED BY <1>2, <2>1, SameOffer
<1>4. ASSUME NEW k \in 0..BufSize, handle_fd_can_read(k) PROVE Offers(tcb, tcb')
  <2> DEFINE w == tcp_send(w0, [i \in 1..k |-> s_sent + i])
             x == [w EXCEPT !.map.e_fd_read = NULL]
             v == [w0 EXCEPT !.tcb.outbuf = Written(@, [i \in 1..k |-> s_sent + i], BufSize)]
  <2>1. tcb' \in {RemoveEvent(w0, "handle_fd_can_read").tcb, RemoveEvent(x, "handle_fd_can_read").tcb, w.tcb}
    BY <1>4 DEF handle_fd_can_read, EndsRemoved, Ends
  <2>2. /\ "tcb" \in DOMAIN v /\ {"rcv_nxt", "inbuf"} \subseteq DOMAIN v.tcb
        /\ v.tcb.rcv_nxt = tcb.rcv_nxt /\ v.tcb.inbuf = tcb.inbuf
    BY <1>2 DEF Tcb
  <2>3. w = v \/ w = mark_for_if_write(v)
    BY DEF tcp_send
  <2> HIDE DEF v, w
  <2>4. "tcb" \in DOMAIN w /\ w.tcb.rcv_nxt = tcb.rcv_nxt /\ w.tcb.inbuf = tcb.inbuf
    BY <2>2, <2>3 DEF mark_for_if_write, AddEvent
  <2>5. KeepsTcb(w, x) /\ KeepsTcb(x, RemoveEvent(x, "handle_fd_can_read"))
        /\ KeepsTcb(w0, RemoveEvent(w0, "handle_fd_can_read"))
    BY TcbStays
  <2> HIDE DEF x, w0
  <2>6. tcb' \in {tcb, w.tcb}
    BY <1>2, <2>1, <2>4, <2>5 DEF KeepsTcb
  <2> QED BY <1>2, <2>4, <2>6, SameOffer
<1>5. CASE handle_fd_can_read_end
  <2> DEFINE x == [w0 EXCEPT !.map.e_fd_read = NULL]
             e == "handle_fd_can_read"
  <2>1. tcb' = RemoveEvent(GiveUp(x), e).tcb /\ OfMap(e)
    BY <1>5 DEF handle_fd_can_read_end, EndsRemoved, Ends
  <2>2. w0 \in World /\ w0.map # NULL
    BY <1>1, <2>1, Called, CalledOfMap DEF OfMap
  <2>3. x \in World /\ x.tcb = w0.tcb
    BY <2>2, TcpAssumption DEF World, TcpMap
  <2> HIDE DEF x, w0
  <2>4. tcb'.state = "FIN_WAIT_1"
    BY <1>2, <2>1, <2>3, GivenUp
  <2> QED BY <2>4 DEF Offers
<1>6. CASE handle_fd_can_read_again
  <2>1. tcb' = tcb
    BY <1>6 DEF handle_fd_can_read_again, Ends, w0
  <2> QED BY <1>2, <2>1, SameOffer
<1>7. ASSUME OfMap("handle_fd_can_write")
      PROVE  LET r == tcp_read(w0)
                 u == [r EXCEPT !.map.e_fd_write = NULL]
             IN  u \in World /\ u.tcb = r.tcb /\ u.tcb.state = "ESTABLISHED" /\ Offers(tcb, u.tcb)
  <2> DEFINE r == tcp_read(w0)
             u == [r EXCEPT !.map.e_fd_write = NULL]
  <2>1. /\ u \in World /\ u.tcb = r.tcb /\ r.tcb \in Tcb /\ rb_used(r.tcb.inbuf) = 0
        /\ SameButRead(w0.tcb, r.tcb)
    BY <1>7, CanWriteBegins
  <2> HIDE DEF r, u, w0
  <2>2. r.tcb.rcv_nxt = tcb.rcv_nxt /\ r.tcb.state = "ESTABLISHED"
    BY <1>2, <2>1 DEF SameButRead
  <2>3. Offered(r.tcb) = tcb.rcv_nxt - 0 /\ Offered(tcb) = tcb.rcv_nxt - rb_used(tcb.inbuf)
    BY <2>1, <2>2 DEF Offered
  <2>4. tcb.rcv_nxt \in Int /\ rb_used(tcb.inbuf) \in Nat
    BY <1>2, OfferedIsInt
  <2>5. Offered(r.tcb) >= Offered(tcb)
    BY <2>3, <2>4
  <2> QED BY <2>1, <2>2, <2>5 DEF Offers, r, u
<1>8. ASSUME (\E k \in 0..BufSize : handle_fd_can_write(k)) \/ handle_fd_can_write_again
      PROVE  Offers(tcb, tcb')
  <2> DEFINE u == [tcp_read(w0) EXCEPT !.map.e_fd_write = NULL]
             e == "handle_fd_can_write"
  <2>1. OfMap(e) /\ (tcb' = RemoveEvent(u, e).tcb \/ tcb' = u.tcb)
    BY <1>8 DEF handle_fd_can_write, handle_fd_can_write_again, EndsRemoved, Ends
  <2>2. u \in World /\ Offers(tcb, u.tcb)
    BY <1>7, <2>1
  <2> HIDE DEF u
  <2>3. tcb' = u.tcb
    <3>1. "tcb" \in DOMAIN u
      BY <2>2 DEF World
    <3> QED BY <2>1, <3>1, TcbStays DEF KeepsTcb
  <2> QED BY <2>2, <2>3
<1>9. CASE handle_fd_can_write_end
  <2> DEFINE u == [tcp_read(w0) EXCEPT !.map.e_fd_write = NULL]
             e == "handle_fd_can_write"
  <2>1. OfMap(e) /\ tcb' = RemoveEvent(GiveUp(u), e).tcb
    BY <1>9 DEF handle_fd_can_write_end, EndsRemoved, Ends
  <2>2. u \in World /\ u.tcb.state = "ESTABLISHED" /\ u.tcb # NULL
    <3>1. u \in World /\ u.tcb.state = "ESTABLISHED" /\ u.tcb = tcp_read(w0).tcb
      BY <1>7, <2>1
    <3>2. tcp_read(w0).tcb # NULL
      BY <2>1, CanWriteBegins
    <3> QED BY <3>1, <3>2
  <2> HIDE DEF u
  <2>3. tcb'.state = "FIN_WAIT_1"
    BY <2>1, <2>2, GivenUp
  <2> QED BY <2>3 DEF Offers
<1>10. ASSUME NEW ok \in BOOLEAN, handle_fd_did_connect(ok) PROVE FALSE
  <2>1. w0.tcb.state = "SYN_RECVD"
    BY <1>1, <1>10, CalledOfMap DEF handle_fd_did_connect
  <2> QED BY <1>2, <2>1
<1> QED BY <1>3, <1>4, <1>5, <1>6, <1>8, <1>9, <1>10 DEF SocketCallback

\* The timers and do_tcb_write leave the received bytes alone.
LEMMA TimerOffers ==
  ASSUME IInv, NoWrap, tcp_timeout \/ tcp_remove \/ do_tcb_write,
         tcb # NULL, tcb.state = "ESTABLISHED", tcb' # NULL
  PROVE  Offers(tcb, tcb')
<1>1. w0.tcb = tcb /\ tcb \in Tcb /\ "tcb" \in DOMAIN w0
  BY DEF IInv, ProgramTypeOK, w0
<1>2. CASE tcp_timeout
  <2> DEFINE e == "tcp_timeout"
             s == [tcb EXCEPT !.e_timeout = NULL, !.snd_nxt = tcb.snd_una, !.snd_cwnd = 0]
             t == window_update(s)
             x == [w0 EXCEPT !.tcb = t]
             v == mark_for_if_write(x)
  <2>1. tcb' = RemoveEvent(v, e).tcb
    BY <1>2 DEF tcp_timeout, EndsRemoved, Ends
  <2>2. s.rcv_nxt = tcb.rcv_nxt /\ s.inbuf = tcb.inbuf /\ {"rcv_nxt", "inbuf"} \subseteq DOMAIN s
    BY <1>1 DEF Tcb
  <2> HIDE DEF s
  <2>3. t.rcv_nxt = tcb.rcv_nxt /\ t.inbuf = tcb.inbuf /\ {"rcv_nxt", "inbuf"} \subseteq DOMAIN t
    BY <2>2 DEF window_update
  <2> HIDE DEF t
  <2>4. x.tcb = t /\ "tcb" \in DOMAIN x
    BY <1>1
  <2> HIDE DEF x
  <2>5. "tcb" \in DOMAIN v /\ v.tcb.rcv_nxt = tcb.rcv_nxt /\ v.tcb.inbuf = tcb.inbuf
    BY <2>3, <2>4 DEF mark_for_if_write, AddEvent
  <2> HIDE DEF v
  <2>6. tcb' = v.tcb
    BY <2>1, <2>5, TcbStays DEF KeepsTcb
  <2> QED BY <1>1, <2>5, <2>6, SameOffer
<1>3. CASE tcp_remove
  <2> DEFINE a == RemoveEvent(RemoveEvent(w0, w0.tcb.e_tcb_send), w0.tcb.e_timeout)
             d == [a EXCEPT !.tcb = NULL]
  <2>1. tcb' = RemoveEvent(d, "tcp_remove").tcb
    BY <1>3 DEF tcp_remove, EndsRemoved, Ends, Discard
  <2>2. "tcb" \in DOMAIN a
    BY <1>1, TcbStays DEF KeepsTcb
  <2> HIDE DEF a
  <2>3. "tcb" \in DOMAIN d /\ d.tcb = NULL
    BY <2>2
  <2> HIDE DEF d
  <2>4. tcb' = NULL
    BY <2>1, <2>3, TcbStays DEF KeepsTcb
  <2> QED BY <2>4
<1>4. CASE do_tcb_write
  <2> DEFINE e == "do_tcb_write"
             w == tcp_send_and_ack(w0)
             x == [w EXCEPT !.tcb.e_tcb_send = NULL]
  <2>1. Turn(e) /\ e \in Event /\ tcb' \in {w.tcb, RemoveEvent(x, e).tcb}
    BY <1>4 DEF do_tcb_write, EndsRemoved, Ends, Event
  <2>2. DaemonOK(w0, Iss, s_sent, Again) /\ Iss \in Nat /\ s_sent \in Nat /\ s_sent \in 0..ServerLen
    BY <2>1, Called
  <2>3. Iss + s_sent + 2 < SeqMod
    <3>1. Iss + ServerLen + 2 < SeqMod /\ ServerLen \in Nat /\ SeqMod \in Int
      BY Numbers, SizeTypes DEF NoWrap
    <3> QED BY <2>2, <3>1
  <2> HIDE DEF w0, Iss
  <2>4. DaemonOK(w, Iss, s_sent, Again) /\ w.tcb \in Tcb /\ SameButSent(w0.tcb, w.tcb)
    BY <1>1, <2>2, <2>3, SendAckKeeps
  <2> HIDE DEF w
  <2>5. "tcb" \in DOMAIN w /\ w.tcb.rcv_nxt = tcb.rcv_nxt /\ w.tcb.inbuf = tcb.inbuf
    BY <1>1, <2>4 DEF DaemonOK, World, SameButSent
  <2>6. "tcb" \in DOMAIN x /\ x.tcb.rcv_nxt = tcb.rcv_nxt /\ x.tcb.inbuf = tcb.inbuf
    BY <2>4, <2>5 DEF Tcb
  <2> HIDE DEF x
  <2>7. tcb' \in {w.tcb, x.tcb}
    BY <2>1, <2>6, TcbStays DEF KeepsTcb
  <2> QED BY <1>1, <2>5, <2>6, <2>7, SameOffer
<1> QED BY <1>2, <1>3, <1>4

\* Every step of an established session that stays established.
LEMMA OfferStep ==
  ASSUME IInv, NoWrap, [Next]_vars, tcb # NULL, tcb' # NULL, tcb.state = "ESTABLISHED"
  PROVE  Offers(tcb, tcb')
<1>1. w0.tcb = tcb /\ tcb \in Tcb /\ "tcb" \in DOMAIN w0
  BY DEF IInv, ProgramTypeOK, w0
<1>2. CASE SocketCallback
  BY <1>2, SocketOffers
<1>3. CASE handle_tcp
  <2>1. Turn("handle_tcp")
    BY <1>3 DEF handle_tcp
  <2>2. ~(\E connect : handle_tcp_syn(connect)) /\ ~handle_tcp_stray
    BY DEF handle_tcp_syn, handle_tcp_stray
  <2>3. ~handle_tcp_last_ack /\ ~handle_tcp_closing
    <3>1. OfSession => wa.tcb.state = "ESTABLISHED"
      BY <2>1, SettledOffers
    <3> HIDE DEF wa
    <3> QED BY <3>1 DEF handle_tcp_last_ack, handle_tcp_closing
  <2>4. ~handle_tcp_rst
    <3> SUFFICES ASSUME handle_tcp_rst PROVE FALSE
      OBVIOUS
    <3> DEFINE k == IF tcb.cb THEN kill_map(w0) ELSE w0
               a == RemoveEvent(RemoveEvent(k, k.tcb.e_tcb_send), k.tcb.e_timeout)
    <3>1. tcb' = [a EXCEPT !.tcb = NULL].tcb
      BY DEF handle_tcp_rst, Handled, Ends, Discard
    <3>2. "tcb" \in DOMAIN k
      BY <1>1, TcbStays DEF KeepsTcb
    <3> HIDE DEF k
    <3>3. "tcb" \in DOMAIN a
      BY <3>2, TcbStays DEF KeepsTcb
    <3> HIDE DEF a
    <3> QED BY <3>1, <3>3
  <2>5. handle_tcp_old \/ handle_tcp_segment
    BY <1>3, <2>2, <2>3, <2>4 DEF handle_tcp
  <2> QED BY <2>1, <2>5, SegmentOffers
<1>4. CASE tcp_timeout \/ tcp_remove \/ do_tcb_write
  BY <1>4, TimerOffers
<1>5. CASE \/ Client \/ Network \/ Waits \/ UNCHANGED vars
           \/ \E ready \in SUBSET (FdEvent \cup {"handle_tcp"}) : SelectFds(ready)
           \/ \E e \in Timer : SelectTimer(e)
  <2>1. tcb' = tcb
    BY <1>5 DEF Client, ClientGoesOn, ClientCloses, ClientSyn, ClientReceive, ClientRead, ClientSend,
       ClientRexmit, ClientAbort, ClientActs, Network, LoseToClient, LoseToRelay, DupToRelay,
       Waits, SelectFds, SelectTimer, vars, relay
  <2> QED BY <1>1, <2>1, SameOffer
<1> QED BY <1>2, <1>3, <1>4, <1>5 DEF Next, Callback

\* The number space has room for the client's stream and a buffer behind it.
EdgeFits == 2 * (ClientLen + BufSize + 2) < SeqMod

\* The signed difference that stands for the edge is what was offered.
LEMMA EdgeIsOffered ==
  ASSUME EdgeFits, NEW t \in Tcb, RecvBuffer(t), t.state = "ESTABLISHED", t.rcv_nxt \in ClientSeq,
         Irs + ClientLen + 2 < SeqMod
  PROVE  IntDiff(SeqAdd(t.rcv_nxt, t.rcv_wnd), FirstSeq) = Offered(t) + BufSize - (Irs + 1)
<1> DEFINE r == t.rcv_nxt
           k == t.rcv_wnd
           used == rb_used(t.inbuf)
           d == r - (Irs + 1)
<1>1. /\ Irs \in Int /\ Irs >= 0 /\ ClientLen \in Nat /\ SeqMod \in Int /\ BufSize \in Int
      /\ r \in (Irs + 1)..(Irs + ClientLen + 2) /\ r \in Int /\ used \in Nat
  BY Numbers, SizeTypes, OfferedIsInt DEF ClientSeq
<1>2. used <= BufSize /\ k = BufSize - used
  BY DEF RecvBuffer, rb_left
<1>3. r \in uint /\ Offered(t) = r - used
  BY TcbTypes DEF Offered
<1> HIDE DEF r, k, used
<1>4. FirstSeq = Irs + 1 /\ Irs + 1 \in uint
  <2>1. Irs + 1 \in 0..(SeqMod - 1)
    BY <1>1
  <2> QED BY <1>1, <2>1, SeqAddFacts DEF FirstSeq, uint
<1>5. k \in Nat /\ d \in Int /\ 0 <= d /\ 2 * (d + k) < SeqMod /\ 2 * d < SeqMod
  BY <1>1, <1>2 DEF EdgeFits
<1>6. IntDiff(r, Irs + 1) = d
  <2>1. r = (Irs + 1) + d /\ -SeqMod <= 2 * d
    BY <1>1, <1>5
  <2> HIDE DEF d
  <2> QED BY <1>3, <1>4, <1>5, <2>1, IntDiffMeans
<1>7. IntDiff(SeqAdd(r, k), Irs + 1) = d + k
  <2> HIDE DEF d
  <2> QED BY <1>3, <1>4, <1>5, <1>6, IntDiffAdd
<1>8. d + k = Offered(t) + BufSize - (Irs + 1)
  BY <1>1, <1>2, <1>3
<1> QED BY <1>4, <1>7, <1>8 DEF r, k

\* The right edge of the window offered to the client never moves back: tcp_recv_data
\* takes from the window what it adds to rcv_nxt, also when inbuf cannot hold all of
\* it, and tcp_read only opens it.
THEOREM EdgeNeverRetractsAlways ==
  ASSUME EdgeFits
  PROVE  Spec /\ []NoWrap => EdgeNeverRetracts
<1> DEFINE Kept == tcb # NULL /\ tcb' # NULL /\ tcb.state = "ESTABLISHED" /\ tcb'.state = "ESTABLISHED"
                     => Edge' >= Edge
<1>1. ASSUME IInv, IInv', NoWrap, NoWrap', [Next]_vars PROVE Kept
  <2>1. SUFFICES ASSUME tcb # NULL, tcb' # NULL, tcb.state = "ESTABLISHED",
                        tcb'.state = "ESTABLISHED"
                 PROVE  Edge' >= Edge
    OBVIOUS
  <2>2. Offered(tcb') >= Offered(tcb)
    <3>1. Offers(tcb, tcb')
      BY <1>1, <2>1, OfferStep
    <3> QED BY <2>1, <3>1 DEF Offers
  <2>3. tcb \in Tcb /\ RecvBuffer(tcb) /\ tcb.rcv_nxt \in ClientSeq
    BY <1>1, <2>1 DEF IInv, ProgramTypeOK, DaemonOK, SessionOK, RcvNxtOK, w0
  <2>4. tcb' \in Tcb /\ RecvBuffer(tcb') /\ tcb'.rcv_nxt \in ClientSeq
    BY <1>1, <2>1 DEF IInv, ProgramTypeOK, DaemonOK, SessionOK, RcvNxtOK, w0, ClientSeq
  <2>5. Irs + ClientLen + 2 < SeqMod
    BY <1>1 DEF NoWrap
  <2>6. Edge = Offered(tcb) + BufSize - (Irs + 1)
    BY <2>1, <2>3, <2>5, EdgeIsOffered DEF Edge
  <2>7. Edge' = Offered(tcb') + BufSize - (Irs + 1)
    <3>1. Edge' = IntDiff(SeqAdd(tcb'.rcv_nxt, tcb'.rcv_wnd), FirstSeq)
      BY DEF Edge, FirstSeq
    <3> QED BY <2>1, <2>4, <2>5, <3>1, EdgeIsOffered
  <2>8. Offered(tcb) \in Int /\ Offered(tcb') \in Int /\ BufSize \in Int /\ Irs \in Int
    BY <2>3, <2>4, OfferedIsInt, SizeTypes, Numbers
  <2> QED BY <2>2, <2>6, <2>7, <2>8
<1>2. IInv /\ IInv' /\ NoWrap /\ NoWrap' /\ [Next]_vars => [Kept]_vars
  BY <1>1
<1> QED BY InvAlways, <1>2, PTL DEF Spec, EdgeNeverRetracts
-----------------------------------------------------------------------------
(* What each function leaves of the fields that decide about output. *)

SendFields == {"snd_una", "snd_nxt", "snd_wnd", "snd_max", "outbuf", "last_acked", "rcv_nxt",
               "state", "e_tcb_send"}

HasTcb(w) == "tcb" \in DOMAIN w /\ SendFields \subseteq DOMAIN w.tcb

\* v has the fields of w except perhaps those of X.
SameBut(X, w, v) == HasTcb(w) => HasTcb(v) /\ \A f \in SendFields \ X : v.tcb[f] = w.tcb[f]

\* The fields of a tcb are those.
LEMMA TcbHasFields ==
  ASSUME NEW w, w \in World, w.tcb # NULL
  PROVE  HasTcb(w)
  BY DEF World, Tcb, HasTcb, SendFields

\* Two changes after each other.
LEMMA SameButTrans ==
  ASSUME NEW X, NEW Y, NEW w, NEW v, NEW u, SameBut(X, w, v), SameBut(Y, v, u)
  PROVE  SameBut(X \cup Y, w, u)
  BY DEF SameBut

\* The same, spelt out.
LEMMA FieldsSame ==
  ASSUME NEW X, NEW w, NEW v, HasTcb(w), SameBut(X, w, v)
  PROVE  /\ HasTcb(v)
         /\ "snd_una" \notin X => v.tcb.snd_una = w.tcb.snd_una
         /\ "snd_nxt" \notin X => v.tcb.snd_nxt = w.tcb.snd_nxt
         /\ "snd_wnd" \notin X => v.tcb.snd_wnd = w.tcb.snd_wnd
         /\ "snd_max" \notin X => v.tcb.snd_max = w.tcb.snd_max
         /\ "outbuf" \notin X => v.tcb.outbuf = w.tcb.outbuf
         /\ "last_acked" \notin X => v.tcb.last_acked = w.tcb.last_acked
         /\ "rcv_nxt" \notin X => v.tcb.rcv_nxt = w.tcb.rcv_nxt
         /\ "state" \notin X => v.tcb.state = w.tcb.state
         /\ "e_tcb_send" \notin X => v.tcb.e_tcb_send = w.tcb.e_tcb_send
<1>1. HasTcb(v) /\ \A f \in SendFields \ X : v.tcb[f] = w.tcb[f]
  BY DEF SameBut
<1> QED BY <1>1 DEF SendFields

\* Whoever keeps the tcb keeps its fields.
LEMMA KeepsSame ==
  ASSUME NEW w, NEW v, KeepsTcb(w, v)
  PROVE  SameBut({}, w, v)
  BY DEF KeepsTcb, SameBut, HasTcb

\* The relay's side of a callback keeps the tcb.
LEMMA RelaySame ==
  ASSUME NEW w
  PROVE  /\ SameBut({}, w, w) /\ SameBut({}, w, can_read(w)) /\ SameBut({}, w, kill_map(w))
         /\ \A e : SameBut({}, w, AddEvent(w, e)) /\ SameBut({}, w, RemoveEvent(w, e))
         /\ \A s : SameBut({}, w, output_space(w, s))
         /\ \A m : SameBut({}, w, [w EXCEPT !.map = m])
         /\ SameBut({}, w, [w EXCEPT !.map.e_fd_read = NULL])
         /\ SameBut({}, w, [w EXCEPT !.map.e_fd_write = NULL])
<1>1. KeepsTcb(w, w) /\ KeepsTcb(w, can_read(w)) /\ (\A s : KeepsTcb(w, output_space(w, s)))
  BY DEF KeepsTcb, can_read, output_space, AddEvent
<1> QED BY <1>1, TcbStays, KeepsSame

\* Output is scheduled.
Marked(w) == HasTcb(w) => w.tcb.e_tcb_send # NULL

\* mark_for_if_write schedules output and changes nothing else.
LEMMA MarkSame ==
  ASSUME NEW w
  PROVE  SameBut({"e_tcb_send"}, w, mark_for_if_write(w)) /\ (HasTcb(w) => Marked(mark_for_if_write(w)))
<1> DEFINE a == [w EXCEPT !.tcb.e_tcb_send = "do_tcb_write"]
           b == AddEvent(a, "do_tcb_write")
<1>1. SUFFICES ASSUME HasTcb(w)
               PROVE  SameBut({"e_tcb_send"}, w, mark_for_if_write(w)) /\ Marked(mark_for_if_write(w))
  BY DEF SameBut
<1>2. CASE w.tcb.e_tcb_send # NULL
  BY <1>2 DEF mark_for_if_write, SameBut, Marked
<1>3. CASE w.tcb.e_tcb_send = NULL
  <2>1. mark_for_if_write(w) = b
    BY <1>3 DEF mark_for_if_write
  <2>2. SameBut({"e_tcb_send"}, w, a) /\ "tcb" \in DOMAIN a /\ a.tcb.e_tcb_send = "do_tcb_write"
    BY <1>1 DEF SameBut, HasTcb, SendFields
  <2> HIDE DEF a
  <2>3. KeepsTcb(a, b)
    BY TcbStays
  <2>4. SameBut({"e_tcb_send"}, w, b) /\ b.tcb.e_tcb_send = "do_tcb_write"
    BY <2>2, <2>3 DEF KeepsTcb, SameBut, HasTcb
  <2> QED BY <2>1, <2>4, TcpAssumption DEF Marked
<1> QED BY <1>2, <1>3

\* The timer and the receive window are none of these fields.
LEMMA TimerSame ==
  ASSUME NEW w, NEW ack
  PROVE  /\ SameBut({}, w, set_timeout(w)) /\ SameBut({}, w, AckTimer(w, ack))
         /\ SameBut({"state"}, w, TimeWait(w))
<1>1. ASSUME NEW v PROVE SameBut({}, v, set_timeout(v))
  <2> DEFINE a == [v EXCEPT !.tcb.e_timeout = "tcp_timeout", !.tcb.timeout_mark = v.tcb.snd_nxt]
  <2>1. SameBut({}, v, a)
    BY DEF SameBut, HasTcb, SendFields
  <2> HIDE DEF a
  <2>2. SameBut({}, a, AddEvent(a, "tcp_timeout"))
    BY RelaySame
  <2>3. SameBut({} \cup {}, v, AddEvent(a, "tcp_timeout"))
    BY <2>1, <2>2, SameButTrans
  <2> QED BY <2>3 DEF set_timeout, a
<1>2. SameBut({}, w, AckTimer(w, ack))
  <2> DEFINE r == RemoveEvent(w, w.tcb.e_timeout)
             v == [r EXCEPT !.tcb.snd_cwnd = SeqAdd(@, Mss)]
             c == [v EXCEPT !.tcb.e_timeout = NULL]
  <2>1. AckTimer(w, ack) \in {w, set_timeout(v), c}
    BY DEF AckTimer
  <2>2. SameBut({}, w, r) /\ SameBut({}, w, w)
    BY RelaySame
  <2>3. SameBut({}, r, v) /\ SameBut({}, v, c)
    BY DEF SameBut, HasTcb, SendFields
  <2> HIDE DEF r, v, c
  <2>4. SameBut({} \cup {}, w, v)
    BY <2>2, <2>3, SameButTrans
  <2>5. SameBut({} \cup {}, w, c) /\ SameBut({} \cup {}, w, set_timeout(v))
    BY <1>1, <2>3, <2>4, SameButTrans
  <2> QED BY <2>1, <2>2, <2>5
<1>3. SameBut({"state"}, w, TimeWait(w))
  <2> DEFINE a == [w EXCEPT !.tcb.state = "TIME_WAIT", !.tcb.e_timeout = "tcp_remove"]
  <2>1. SameBut({"state"}, w, a)
    BY DEF SameBut, HasTcb, SendFields
  <2> HIDE DEF a
  <2>2. SameBut({}, a, AddEvent(a, "tcp_remove"))
    BY RelaySame
  <2>3. SameBut({"state"} \cup {}, w, AddEvent(a, "tcp_remove"))
    BY <2>1, <2>2, SameButTrans
  <2> QED BY <2>3 DEF TimeWait, a
<1> QED BY <1>1, <1>2, <1>3

\* An acknowledgement moves snd_una and perhaps snd_nxt.
LEMMA AckedSame ==
  ASSUME NEW w, NEW p, HasTcb(w)
  PROVE  LET t == w.tcb
             u == Acked(w, p).tcb
             new == "ACK" \in p.flags /\ p.ack > t.snd_una
         IN  /\ SameBut({"snd_una", "snd_nxt", "outbuf"}, w, Acked(w, p))
             /\ u.snd_una = IF new THEN p.ack ELSE t.snd_una
             /\ u.snd_nxt = IF new /\ p.ack > t.snd_nxt THEN p.ack ELSE t.snd_nxt
             /\ t.state # "ESTABLISHED" => u.outbuf = t.outbuf
<1> DEFINE t == w.tcb
           ack == p.ack
           new == "ACK" \in p.flags /\ ack > t.snd_una
           X == {"snd_una", "snd_nxt", "outbuf"}
           v == [w EXCEPT !.tcb.snd_una = ack, !.tcb.snd_nxt = IF ack > @ THEN ack ELSE @]
           b == [v EXCEPT !.tcb.outbuf = Advanced(@, ack)]
           o == output_space(b, rb_left(b.tcb.outbuf))
           a == Acked(w, p)
<1>1. CASE ~new
  <2>1. a = w
    BY <1>1 DEF Acked
  <2> HIDE DEF a
  <2>2. SameBut(X, w, w)
    BY DEF SameBut
  <2> QED BY <1>1, <2>1, <2>2 DEF a
<1>2. CASE new
  <2>1. a = IF t.state = "ESTABLISHED" THEN AckTimer(o, ack) ELSE AckTimer(v, ack)
    BY <1>2 DEF Acked, NewAck
  <2> HIDE DEF a
  <2>2. /\ HasTcb(v) /\ SameBut({"snd_una", "snd_nxt"}, w, v)
        /\ v.tcb.snd_una = ack /\ v.tcb.snd_nxt = IF ack > t.snd_nxt THEN ack ELSE t.snd_nxt
    BY DEF SameBut, HasTcb, SendFields
  <2> HIDE DEF v
  <2>3. SameBut({"outbuf"}, v, b)
    BY DEF SameBut, HasTcb, SendFields
  <2> HIDE DEF b
  <2>4. SameBut({}, b, o) /\ SameBut({}, o, AckTimer(o, ack)) /\ SameBut({}, v, AckTimer(v, ack))
    BY RelaySame, TimerSame
  <2> HIDE DEF o
  <2>5. SameBut({"outbuf"}, v, AckTimer(o, ack)) /\ SameBut({"outbuf"}, v, AckTimer(v, ack))
    <3>1. SameBut({"outbuf"} \cup {}, v, o)
      BY <2>3, <2>4, SameButTrans
    <3>2. SameBut({"outbuf"} \cup {}, v, AckTimer(o, ack))
      BY <2>4, <3>1, SameButTrans
    <3>3. SameBut({"outbuf"}, v, AckTimer(v, ack))
      BY <2>4 DEF SameBut
    <3> QED BY <3>2, <3>3
  <2>6. SameBut({"outbuf"}, v, a)
    BY <2>1, <2>5
  <2>7. SameBut({"snd_una", "snd_nxt"} \cup {"outbuf"}, w, a)
    BY <2>2, <2>6, SameButTrans
  <2>8. {"snd_una", "snd_nxt"} \cup {"outbuf"} = X
    OBVIOUS
  <2>9. a.tcb.snd_una = v.tcb.snd_una /\ a.tcb.snd_nxt = v.tcb.snd_nxt
    BY <2>2, <2>6, FieldsSame
  <2>10. ASSUME t.state # "ESTABLISHED" PROVE a.tcb.outbuf = t.outbuf
    <3>1. a.tcb.outbuf = v.tcb.outbuf
      BY <2>1, <2>2, <2>4, <2>10, FieldsSame
    <3>2. v.tcb.outbuf = t.outbuf
      BY <2>2, FieldsSame
    <3> QED BY <3>1, <3>2
  <2> QED BY <1>2, <2>2, <2>7, <2>8, <2>9, <2>10 DEF a
<1> QED BY <1>1, <1>2

\* What the acknowledgement of everything does to the state.
LEMMA SettledSame ==
  ASSUME NEW w, NEW p, HasTcb(w)
  PROVE  SameBut({"state"}, w, Settled(w, p)) /\ AfterAck(w.tcb.state, Settled(w, p).tcb.state)
<1> DEFINE v == [w EXCEPT !.tcb.state = "ESTABLISHED"]
           f == [w EXCEPT !.tcb.state = "FIN_WAIT_2"]
           o == output_space(v, rb_left(w.tcb.outbuf))
<1>1. \/ Settled(w, p) = w
      \/ Settled(w, p) = o /\ w.tcb.state = "SYN_RECVD"
      \/ Settled(w, p) = f /\ w.tcb.state = "FIN_WAIT_1"
  BY DEF Settled
<1>2. /\ HasTcb(v) /\ SameBut({"state"}, w, v) /\ v.tcb.state = "ESTABLISHED"
      /\ HasTcb(f) /\ SameBut({"state"}, w, f) /\ f.tcb.state = "FIN_WAIT_2"
      /\ SameBut({"state"}, w, w)
  BY DEF SameBut, HasTcb, SendFields
<1> HIDE DEF v, f
<1>3. SameBut({}, v, o)
  BY RelaySame
<1> HIDE DEF o
<1>4. o.tcb.state = "ESTABLISHED"
  BY <1>2, <1>3, FieldsSame
<1>5. SameBut({"state"} \cup {}, w, o)
  BY <1>2, <1>3, SameButTrans
<1>6. SameBut({"state"}, w, o)
  BY <1>5
<1> QED BY <1>1, <1>2, <1>4, <1>6 DEF AfterAck

\* window_update sets snd_max no further than the window the client offers.
LEMMA WindowEnd ==
  ASSUME NEW t \in Tcb
  PROVE  LET u == window_update(t)
         IN  /\ u.snd_wnd = t.snd_wnd
             /\ \E cwnd \in 0..t.snd_wnd : u.snd_max = SeqAdd(t.snd_una, cwnd)
             /\ \A f \in SendFields \ {"snd_max"} : u[f] = t[f]
<1> DEFINE cwnd == MinInt(IF t.snd_cwnd = 0 THEN Mss ELSE t.snd_cwnd, t.snd_wnd)
           u == window_update(t)
<1>1. t.snd_cwnd \in uint /\ t.snd_wnd \in uint
  BY TcbTypes
<1>2. t.snd_cwnd \in Int /\ t.snd_cwnd >= 0 /\ t.snd_wnd \in Int /\ t.snd_wnd >= 0
  BY <1>1, UintIsInt
<1>3. cwnd \in 0..t.snd_wnd
  BY <1>2, SizeTypes DEF MinInt
<1>4. u = [t EXCEPT !.snd_cwnd = cwnd, !.snd_max = SeqAdd(t.snd_una, cwnd)]
  BY DEF window_update
<1> HIDE DEF cwnd, u
<1>5. /\ u.snd_wnd = t.snd_wnd /\ u.snd_max = SeqAdd(t.snd_una, cwnd)
      /\ \A f \in SendFields \ {"snd_max"} : u[f] = t[f]
  BY <1>4 DEF Tcb, SendFields
<1> QED BY <1>3, <1>5 DEF u

\* A new window starts output if it opens.
LEMMA NewWindowSame ==
  ASSUME NEW w \in World, w.tcb # NULL, NEW p \in Packet
  PROVE  LET v == NewWindow(w, p)
         IN  /\ SameBut({"snd_wnd", "snd_max", "e_tcb_send"}, w, v)
             /\ v.tcb.snd_wnd = p.wnd
             /\ \E cwnd \in 0..p.wnd : v.tcb.snd_max = SeqAdd(w.tcb.snd_una, cwnd)
             /\ \/ Marked(v)
                \/ /\ v.tcb.e_tcb_send = w.tcb.e_tcb_send
                   /\ window_size(w.tcb) <= 0 => ~(window_size(v.tcb) > 0)
<1> DEFINE t == [w.tcb EXCEPT !.snd_wnd = p.wnd]
           u == window_update(t)
           x == [w EXCEPT !.tcb = u]
           m == mark_for_if_write(x)
           X == {"snd_wnd", "snd_max"}
<1>1. HasTcb(w) /\ w.tcb \in Tcb
  BY TcbHasFields DEF World
<1>2. p.wnd \in uint
  BY DEF Packet
<1>3. t \in Tcb /\ t.snd_wnd = p.wnd /\ (\A f \in SendFields \ {"snd_wnd"} : t[f] = w.tcb[f])
  BY <1>1, <1>2 DEF Tcb, SendFields
<1>4. window_size(t) = window_size(w.tcb) /\ t.snd_una = w.tcb.snd_una
  BY <1>1 DEF window_size, Tcb
<1>5. NewWindow(w, p) = IF window_size(t) <= 0 /\ window_size(x.tcb) > 0 THEN m ELSE x
  BY DEF NewWindow
<1> HIDE DEF t
<1>6. /\ u.snd_wnd = t.snd_wnd
      /\ \E cwnd \in 0..t.snd_wnd : u.snd_max = SeqAdd(t.snd_una, cwnd)
      /\ \A f \in SendFields \ {"snd_max"} : u[f] = t[f]
  BY <1>3, WindowEnd
<1>7. u \in Tcb
  BY <1>3, WindowUpdate
<1> HIDE DEF u
<1>8. x.tcb = u /\ x \in World /\ x.tcb # NULL
  BY <1>7, NullAssumption DEF World
<1> HIDE DEF x
<1>9. HasTcb(x)
  BY <1>8, TcbHasFields
<1>10. SameBut(X, w, x)
  BY <1>3, <1>6, <1>8, <1>9 DEF SameBut
<1>11. SameBut({"e_tcb_send"}, x, m) /\ Marked(m)
  BY <1>9, MarkSame
<1> HIDE DEF m
<1>12. m.tcb.snd_wnd = x.tcb.snd_wnd /\ m.tcb.snd_max = x.tcb.snd_max
  BY <1>9, <1>11, FieldsSame
<1>13. x.tcb.e_tcb_send = w.tcb.e_tcb_send
  BY <1>1, <1>10, FieldsSame
<1>14. SameBut(X \cup {"e_tcb_send"}, w, m) /\ SameBut(X \cup {"e_tcb_send"}, w, x)
  <2>1. SameBut(X \cup {"e_tcb_send"}, w, m)
    BY <1>10, <1>11, SameButTrans
  <2>2. SameBut(X \cup {"e_tcb_send"}, w, x)
    BY <1>10 DEF SameBut
  <2> QED BY <2>1, <2>2
<1>15. X \cup {"e_tcb_send"} = {"snd_wnd", "snd_max", "e_tcb_send"}
  OBVIOUS
<1>16. x.tcb.snd_wnd = p.wnd /\ \E cwnd \in 0..p.wnd : x.tcb.snd_max = SeqAdd(w.tcb.snd_una, cwnd)
  BY <1>3, <1>4, <1>6, <1>8
<1> DEFINE v == NewWindow(w, p)
<1>17. CASE v = m
  <2> HIDE DEF v, X
  <2> QED BY <1>11, <1>12, <1>14, <1>15, <1>16, <1>17 DEF v
<1>18. CASE v = x /\ ~(window_size(t) <= 0 /\ window_size(x.tcb) > 0)
  <2> HIDE DEF v, X
  <2> QED BY <1>4, <1>13, <1>14, <1>15, <1>16, <1>18 DEF v
<1> QED BY <1>5, <1>17, <1>18

\* tcp_close of an open session schedules the FIN, and so do those that call it.
LEMMA CloseSame ==
  ASSUME NEW w, HasTcb(w), w.tcb.state # "SYN_RECVD"
  PROVE  /\ SameBut({"state", "e_tcb_send"}, w, tcp_close(w)) /\ Marked(tcp_close(w))
         /\ SameBut({"state", "e_tcb_send"}, w, GiveUp(w)) /\ Marked(GiveUp(w))
         /\ SameBut({"state", "e_tcb_send"}, w, tcp_remote_close(w)) /\ Marked(tcp_remote_close(w))
<1> DEFINE X == {"state", "e_tcb_send"}
<1>1. ASSUME NEW v, HasTcb(v), v.tcb.state # "SYN_RECVD"
      PROVE  SameBut(X, v, tcp_close(v)) /\ Marked(tcp_close(v)) /\ HasTcb(tcp_close(v))
  <2> DEFINE a == [v EXCEPT !.tcb.cb = FALSE, !.tcb.rcv_wnd = DrainWnd,
                            !.tcb.state = IF @ = "ESTABLISHED" THEN "FIN_WAIT_1" ELSE "LAST_ACK"]
  <2>1. tcp_close(v) = mark_for_if_write(a)
    BY <1>1 DEF tcp_close
  <2>2. SameBut({"state"}, v, a) /\ HasTcb(a)
    BY <1>1 DEF SameBut, HasTcb, SendFields
  <2> HIDE DEF a
  <2>3. SameBut({"e_tcb_send"}, a, mark_for_if_write(a)) /\ Marked(mark_for_if_write(a))
    BY <2>2, MarkSame
  <2>4. SameBut({"state"} \cup {"e_tcb_send"}, v, mark_for_if_write(a))
    BY <2>2, <2>3, SameButTrans
  <2>5. SameBut(X, v, mark_for_if_write(a))
    BY <2>4 DEF SameBut
  <2>6. HasTcb(mark_for_if_write(a))
    BY <2>2, <2>3 DEF SameBut
  <2> QED BY <2>1, <2>3, <2>5, <2>6
<1> HIDE DEF X
<1>2. SameBut(X, w, tcp_close(w)) /\ Marked(tcp_close(w)) /\ HasTcb(tcp_close(w))
  BY <1>1
<1>3. SameBut(X, w, GiveUp(w)) /\ Marked(GiveUp(w))
  <2> DEFINE c == tcp_close(w)
  <2>1. KeepsTcb(c, kill_map(c)) /\ SameBut(X, w, c) /\ Marked(c) /\ HasTcb(c) /\ GiveUp(w) = kill_map(c)
    BY <1>2, TcbStays DEF GiveUp
  <2> HIDE DEF c
  <2>2. HasTcb(kill_map(c)) /\ kill_map(c).tcb = c.tcb
    BY <2>1 DEF KeepsTcb, HasTcb
  <2> QED BY <2>1, <2>2 DEF SameBut, Marked
<1>4. SameBut(X, w, tcp_remote_close(w)) /\ Marked(tcp_remote_close(w))
  <2> DEFINE k == IF w.tcb.cb THEN kill_map(w) ELSE w
  <2>1. KeepsTcb(w, k)
    BY TcbStays DEF KeepsTcb
  <2>2. tcp_remote_close(w) = tcp_close(k)
    BY DEF tcp_remote_close
  <2> HIDE DEF k
  <2>3. HasTcb(k) /\ k.tcb = w.tcb
    BY <2>1 DEF KeepsTcb, HasTcb
  <2>4. SameBut(X, k, tcp_close(k)) /\ Marked(tcp_close(k))
    BY <1>1, <2>3
  <2> QED BY <2>2, <2>3, <2>4 DEF SameBut
<1> QED BY <1>2, <1>3, <1>4 DEF X

\* Bytes for the client are scheduled if its window is open.
LEMMA SendSame ==
  ASSUME NEW w, HasTcb(w), NEW data
  PROVE  LET v == tcp_send(w, data)
         IN  /\ SameBut({"outbuf", "e_tcb_send"}, w, v)
             /\ Marked(v) \/ (v.tcb.e_tcb_send = w.tcb.e_tcb_send /\ ~(window_size(v.tcb) > 0))
<1> DEFINE x == [w EXCEPT !.tcb.outbuf = Written(@, data, BufSize)]
           m == mark_for_if_write(x)
           v == tcp_send(w, data)
           X == {"outbuf", "e_tcb_send"}
<1>1. v = IF window_size(x.tcb) > 0 THEN m ELSE x
  BY DEF tcp_send
<1> HIDE DEF v
<1>2. SameBut({"outbuf"}, w, x) /\ HasTcb(x)
  BY DEF SameBut, HasTcb, SendFields
<1> HIDE DEF x
<1>3. SameBut({"e_tcb_send"}, x, m) /\ Marked(m)
  BY <1>2, MarkSame
<1> HIDE DEF m
<1>4. SameBut({"outbuf"} \cup {"e_tcb_send"}, w, m)
  BY <1>2, <1>3, SameButTrans
<1>5. SameBut(X, w, m) /\ SameBut(X, w, x)
  BY <1>2, <1>4 DEF SameBut
<1>6. x.tcb.e_tcb_send = w.tcb.e_tcb_send
  BY <1>2, FieldsSame
<1> HIDE DEF X
<1>7. CASE v = m
  BY <1>3, <1>5, <1>7 DEF v, X
<1>8. CASE v = x /\ ~(window_size(x.tcb) > 0)
  BY <1>5, <1>6, <1>8 DEF v, X
<1> QED BY <1>1, <1>7, <1>8

\* Reading schedules an acknowledgement or leaves these fields alone.
LEMMA ReadSame ==
  ASSUME NEW w, HasTcb(w)
  PROVE  LET v == tcp_read(w)
         IN  SameBut({"last_acked", "e_tcb_send"}, w, v) /\ (Marked(v) \/ SameBut({}, w, v))
<1> DEFINE s == SeqAdd(w.tcb.read_seq, Len(Readable(w.tcb)))
           x == [w EXCEPT !.tcb.read_seq = s, !.tcb.inbuf = Advanced(@, s),
                          !.tcb.rcv_wnd = rb_left(Advanced(w.tcb.inbuf, s))]
           y == [x EXCEPT !.tcb.last_acked = SeqAdd(@, -1)]
           m == mark_for_if_write(y)
           X == {"last_acked", "e_tcb_send"}
           v == tcp_read(w)
<1>1. v = m \/ v = x
  BY DEF tcp_read
<1> HIDE DEF s, v
<1>2. SameBut({}, w, x) /\ HasTcb(x)
  BY DEF SameBut, HasTcb, SendFields
<1> HIDE DEF x
<1>3. SameBut({"last_acked"}, x, y) /\ HasTcb(y)
  BY <1>2 DEF SameBut, HasTcb, SendFields
<1> HIDE DEF y
<1>4. SameBut({"e_tcb_send"}, y, m) /\ Marked(m)
  BY <1>3, MarkSame
<1> HIDE DEF m
<1>5. SameBut(X, w, m) /\ SameBut(X, w, x)
  <2>1. SameBut({} \cup {"last_acked"}, w, y)
    BY <1>2, <1>3, SameButTrans
  <2>2. SameBut(({} \cup {"last_acked"}) \cup {"e_tcb_send"}, w, m)
    BY <1>4, <2>1, SameButTrans
  <2> QED BY <1>2, <2>2 DEF SameBut
<1> QED BY <1>1, <1>2, <1>4, <1>5 DEF v

\* A segment that brings something schedules its acknowledgement.
LEMMA ReceiveSame ==
  ASSUME NEW w, NEW p, HasTcb(w)
  PROVE  LET v == Receive(w, p)
         IN  SameBut({"rcv_nxt", "state", "e_tcb_send"}, w, v) /\ (Marked(v) \/ v = w)
<1> DEFINE X == {"rcv_nxt", "e_tcb_send"}
           Y == {"rcv_nxt", "state", "e_tcb_send"}
           v == tcp_recv_data(w, p)
           fin == "FIN" \in p.flags
           closing == [v EXCEPT !.tcb.state = "CLOSING"]
           waits == [v EXCEPT !.tcb.state = "CLOSE_WAIT"]
<1>1. SameBut(X, w, v) /\ (Marked(v) \/ (v = w /\ ~fin)) /\ HasTcb(v)
  <2> DEFINE a0 == [w EXCEPT !.tcb.rcv_nxt = SeqAdd(@, Len(p.data))]
             a == mark_for_if_write(a0)
             b == [a EXCEPT !.tcb.inbuf = Written(@, p.data, BufSize),
                            !.tcb.rcv_wnd = rb_left(Written(a.tcb.inbuf, p.data, BufSize))]
             d == IF Len(p.data) = 0 THEN w ELSE IF w.tcb.cb THEN can_read(b) ELSE a
             e == [d EXCEPT !.tcb.rcv_nxt = SeqAdd(@, 1)]
             m == mark_for_if_write(e)
  <2>1. v = IF fin THEN m ELSE d
    BY DEF tcp_recv_data
  <2> HIDE DEF v
  <2>2. d \in {w, can_read(b), a}
    OBVIOUS
  <2>3. SameBut({"rcv_nxt"}, w, a0) /\ HasTcb(a0)
    BY DEF SameBut, HasTcb, SendFields
  <2> HIDE DEF a0
  <2>4. SameBut({"e_tcb_send"}, a0, a) /\ Marked(a) /\ HasTcb(a)
    BY <2>3, MarkSame DEF SameBut
  <2>5. SameBut({"rcv_nxt"} \cup {"e_tcb_send"}, w, a)
    BY <2>3, <2>4, SameButTrans
  <2>6. SameBut({}, a, b) /\ HasTcb(b)
    BY <2>4 DEF SameBut, HasTcb, SendFields
  <2> HIDE DEF a, b
  <2>7. SameBut({}, b, can_read(b))
    BY RelaySame
  <2>8. SameBut({} \cup {}, a, can_read(b))
    BY <2>6, <2>7, SameButTrans
  <2>9. SameBut(({"rcv_nxt"} \cup {"e_tcb_send"}) \cup ({} \cup {}), w, can_read(b))
    BY <2>5, <2>8, SameButTrans
  <2>10. Marked(can_read(b)) /\ HasTcb(can_read(b))
    BY <2>4, <2>8, FieldsSame DEF Marked
  <2>11. SameBut(X, w, d) /\ (Marked(d) \/ d = w) /\ HasTcb(d)
    <3>1. SameBut(X, w, w) /\ SameBut(X, w, a) /\ SameBut(X, w, can_read(b))
      BY <2>5, <2>9 DEF SameBut
    <3> HIDE DEF d
    <3> QED BY <2>2, <2>4, <2>10, <3>1
  <2> HIDE DEF d
  <2>12. SameBut({"rcv_nxt"}, d, e) /\ HasTcb(e)
    BY <2>11 DEF SameBut, HasTcb, SendFields
  <2> HIDE DEF e
  <2>13. SameBut({"e_tcb_send"}, e, m) /\ Marked(m)
    BY <2>12, MarkSame
  <2> HIDE DEF m
  <2>14. SameBut(X \cup {"rcv_nxt"}, w, e)
    BY <2>11, <2>12, SameButTrans
  <2>15. SameBut((X \cup {"rcv_nxt"}) \cup {"e_tcb_send"}, w, m)
    BY <2>13, <2>14, SameButTrans
  <2>16. SameBut(X, w, m) /\ HasTcb(m)
    BY <2>15 DEF SameBut
  <2> QED BY <2>1, <2>11, <2>13, <2>16
<1> HIDE DEF v
<1>2. fin => Marked(v)
  BY <1>1
<1>3. /\ SameBut({"state"}, v, closing) /\ HasTcb(closing)
      /\ SameBut({"state"}, v, waits) /\ HasTcb(waits) /\ waits.tcb.state = "CLOSE_WAIT"
  BY <1>1 DEF SameBut, HasTcb, SendFields
<1>4. SameBut({"state"}, v, TimeWait(v))
  BY TimerSame
<1>5. \/ Receive(w, p) \in {w, v}
      \/ Receive(w, p) \in {TimeWait(v), closing, tcp_remote_close(waits)} /\ fin
  BY DEF Receive, v
<1> HIDE DEF closing, waits
<1>6. Marked(v) => Marked(closing) /\ Marked(TimeWait(v))
  <2>1. closing.tcb.e_tcb_send = v.tcb.e_tcb_send
    BY <1>1, <1>3, FieldsSame
  <2>2. TimeWait(v).tcb.e_tcb_send = v.tcb.e_tcb_send
    BY <1>1, <1>4, FieldsSame
  <2> QED BY <1>1, <2>1, <2>2 DEF Marked
<1>7. SameBut({"state", "e_tcb_send"}, waits, tcp_remote_close(waits)) /\ Marked(tcp_remote_close(waits))
  BY <1>3, CloseSame
<1>8. SameBut(X \cup {"state"}, w, closing) /\ SameBut(X \cup {"state"}, w, waits)
      /\ SameBut(X \cup {"state"}, w, TimeWait(v))
  BY <1>1, <1>3, <1>4, SameButTrans
<1>9. SameBut((X \cup {"state"}) \cup {"state", "e_tcb_send"}, w, tcp_remote_close(waits))
  BY <1>7, <1>8, SameButTrans
<1>10. /\ SameBut(Y, w, w) /\ SameBut(Y, w, v) /\ SameBut(Y, w, closing) /\ SameBut(Y, w, TimeWait(v))
       /\ SameBut(Y, w, tcp_remote_close(waits))
  BY <1>1, <1>8, <1>9 DEF SameBut
<1> HIDE DEF Y, X
<1> DEFINE r == Receive(w, p)
<1>11. SameBut(Y, w, r)
  <2> HIDE DEF r
  <2> QED BY <1>5, <1>10 DEF r
<1>12. Marked(r) \/ r = w
  <2> HIDE DEF r
  <2> QED BY <1>1, <1>2, <1>5, <1>6, <1>7 DEF r
<1> QED BY <1>11, <1>12 DEF Y
-----------------------------------------------------------------------------
(* What is to be sent is scheduled. *)

\* All is sent that may be: the client's window is used up, or nothing is left.
Drained(t) == window_size(t) <= 0 \/ t.snd_nxt = SendLimit(t)

\* Why a session may be without e_tcb_send: it still waits for connect(), or it
\* owes the client neither an acknowledgement nor a segment.
Scheduled(t, iss) ==
    \/ t.snd_nxt = iss
    \/ t.e_tcb_send # NULL
    \/ t.last_acked >= t.rcv_nxt /\ Drained(t)

\* snd_max is a number m not beyond the client's buffer, wrapped once at most.
EndsAt(t, iss, m) == m \in iss..(t.snd_una + ClientWnd) /\ t.snd_max \in {m, m - SeqMod}
WindowOK(t, iss) == t.snd_wnd <= ClientWnd /\ \E m \in Int : EndsAt(t, iss, m)

\* The client's buffer is less than half of the number space.
WindowFits == 2 * ClientWnd < SeqMod

\* The session's numbers do not wrap.
Fits(iss, sent) ==
    /\ WindowFits /\ iss \in Nat /\ sent \in Nat /\ sent <= ServerLen
    /\ 2 * (ServerLen + 2) < SeqMod /\ iss + ServerLen + 2 < SeqMod

\* The send side of a session, as integers.
LEMMA SendSide ==
  ASSUME NEW t \in Tcb, NEW iss, NEW sent, Fits(iss, sent), SendNumbers(t, iss, sent)
  PROVE  /\ t.snd_una \in Int /\ t.snd_nxt \in Int /\ SendLimit(t) \in Int
         /\ iss \in Int /\ sent \in Int /\ iss >= 0 /\ sent >= 0 /\ sent <= ServerLen
         /\ ServerLen \in Int /\ ClientWnd \in Int /\ ClientWnd >= 0 /\ SeqMod \in Int
         /\ 2 * ClientWnd < SeqMod /\ 2 * (ServerLen + 2) < SeqMod /\ iss + ServerLen + 2 < SeqMod
         /\ t.outbuf.w_seq = iss + 1 + sent
         /\ SendLimit(t) = iss + 1 + sent + (IF t.state \in Ended THEN 1 ELSE 0)
         /\ iss <= t.snd_una /\ t.snd_una <= t.snd_nxt /\ t.snd_nxt <= SendLimit(t)
         /\ t.state # "SYN_RECVD" => iss + 1 <= t.snd_nxt
<1>1. t.snd_una \in uint /\ t.snd_nxt \in uint
  BY TcbTypes
<1>2. t.snd_una \in Int /\ t.snd_nxt \in Int
  BY <1>1, UintIsInt
<1>3. /\ iss \in Nat /\ sent \in Nat /\ sent <= ServerLen /\ ServerLen \in Nat /\ ClientWnd \in Nat
      /\ 2 * ClientWnd < SeqMod /\ 2 * (ServerLen + 2) < SeqMod /\ iss + ServerLen + 2 < SeqMod
      /\ SeqMod \in Int
  BY Numbers, SizeTypes DEF Fits, WindowFits
<1>4. /\ t.outbuf.w_seq = iss + 1 + sent
      /\ t.snd_una <= t.snd_nxt /\ t.snd_nxt <= SendLimit(t)
      /\ t.state = "SYN_RECVD" => t.snd_una = iss
      /\ t.state # "SYN_RECVD" => iss + 1 <= t.snd_una
  BY DEF SendNumbers
<1>5. SendLimit(t) = iss + 1 + sent + (IF t.state \in Ended THEN 1 ELSE 0)
  BY <1>4 DEF SendLimit
<1>6. SendLimit(t) \in Int
  BY <1>3, <1>5
<1>7. iss <= t.snd_una /\ (t.state # "SYN_RECVD" => iss + 1 <= t.snd_nxt)
  BY <1>2, <1>3, <1>4
<1> QED BY <1>2, <1>3, <1>4, <1>5, <1>6, <1>7

\* What is left of the window.
LEMMA WindowMeans ==
  ASSUME NEW t \in Tcb, NEW iss, NEW sent, Fits(iss, sent), SendNumbers(t, iss, sent),
         NEW m \in Int, EndsAt(t, iss, m)
  PROVE  window_size(t) = m - t.snd_nxt
<1> DEFINE una == t.snd_una
           nxt == t.snd_nxt
           max == t.snd_max
<1>1. /\ una \in Int /\ nxt \in Int /\ iss \in Int /\ sent \in Int /\ iss >= 0 /\ sent >= 0
      /\ sent <= ServerLen
      /\ ServerLen \in Int /\ ClientWnd \in Int /\ SeqMod \in Int
      /\ 2 * ClientWnd < SeqMod /\ 2 * (ServerLen + 2) < SeqMod
      /\ iss <= una /\ una <= nxt /\ nxt <= SendLimit(t) /\ SendLimit(t) \in Int
      /\ SendLimit(t) <= iss + 2 + sent
  BY SendSide
<1>2. max \in uint /\ nxt \in uint
  BY TcbTypes
<1>3. iss <= m /\ m <= una + ClientWnd /\ (max = m \/ max = m - SeqMod)
  BY <1>1 DEF EndsAt
<1> HIDE DEF una, nxt, max
<1>4. m - nxt \in Int /\ 2 * (m - nxt) < SeqMod /\ -SeqMod <= 2 * (m - nxt)
  BY <1>1, <1>3
<1>5. max = nxt + (m - nxt) \/ max = nxt + (m - nxt) - SeqMod
  BY <1>1, <1>3
<1>6. IntDiff(max, nxt) = m - nxt
  BY <1>2, <1>4, <1>5, IntDiffMeans
<1> QED BY <1>6 DEF window_size, max, nxt

\* The size of the window is an integer.
LEMMA WindowIsInt ==
  ASSUME NEW t \in Tcb PROVE window_size(t) \in Int
  BY TcbTypes, IntDiffFacts DEF window_size

\* A window that is used up stays so until the client offers a new one.
LEMMA ClosedStays ==
  ASSUME NEW t \in Tcb, NEW u \in Tcb, NEW iss, NEW sent, NEW after,
         Fits(iss, sent), Fits(iss, after), SendNumbers(t, iss, sent), SendNumbers(u, iss, after),
         WindowOK(t, iss), u.snd_max = t.snd_max, u.snd_wnd = t.snd_wnd,
         t.snd_una <= u.snd_una, t.snd_nxt <= u.snd_nxt
  PROVE  WindowOK(u, iss) /\ (window_size(t) <= 0 => window_size(u) <= 0)
<1>1. PICK m \in Int : EndsAt(t, iss, m)
  BY DEF WindowOK
<1>2. t.snd_una \in Int /\ u.snd_una \in Int /\ t.snd_nxt \in Int /\ u.snd_nxt \in Int
      /\ ClientWnd \in Int /\ iss \in Int
  BY SendSide
<1>3. EndsAt(u, iss, m)
  <2>1. m \in iss..(u.snd_una + ClientWnd)
    BY <1>1, <1>2 DEF EndsAt
  <2> QED BY <1>1, <2>1 DEF EndsAt
<1>4. window_size(t) = m - t.snd_nxt /\ window_size(u) = m - u.snd_nxt
  BY <1>1, <1>3, WindowMeans
<1>5. WindowOK(u, iss)
  BY <1>3 DEF WindowOK
<1> QED BY <1>2, <1>4, <1>5

\* window_update keeps snd_max within the client's buffer.
LEMMA OpenedOK ==
  ASSUME NEW u \in Tcb, NEW iss \in Nat, iss <= u.snd_una, NEW k \in Nat, k <= ClientWnd,
         u.snd_wnd = k, NEW cwnd \in 0..k, u.snd_max = SeqAdd(u.snd_una, cwnd)
  PROVE  WindowOK(u, iss)
<1> DEFINE m == u.snd_una + cwnd
<1>1. u.snd_una \in uint /\ cwnd \in Int /\ 0 <= cwnd
  BY TcbTypes
<1>2. u.snd_una \in Int /\ 0 <= u.snd_una /\ u.snd_una < SeqMod
  BY <1>1, UintIsInt
<1>3. ClientWnd \in Int /\ ClientWnd < SeqMod /\ SeqMod \in Int
  BY Numbers, UintIsInt, SizeTypes
<1>4. cwnd <= ClientWnd
  BY <1>3
<1>5. SeqAdd(u.snd_una, cwnd) \in uint
      /\ (u.snd_max = m \/ u.snd_max = m - SeqMod \/ u.snd_max = m + SeqMod)
  <2>1. -SeqMod <= cwnd /\ cwnd <= SeqMod
    BY <1>1, <1>3, <1>4
  <2> DEFINE y == u.snd_una
             x == SeqAdd(y, cwnd)
  <2>2. y \in uint /\ u.snd_max = x
    BY <1>1
  <2> HIDE DEF y
  <2>3. x \in uint /\ (x = y + cwnd \/ x = y + cwnd - SeqMod \/ x = y + cwnd + SeqMod)
    BY <1>1, <2>1, <2>2, SeqAddMeans
  <2> HIDE DEF x
  <2> QED BY <1>1, <1>2, <1>3, <2>2, <2>3 DEF y, x
<1>6. u.snd_max \in Int /\ u.snd_max < SeqMod
  BY <1>5, UintIsInt
<1>7. u.snd_max # m + SeqMod
  BY <1>1, <1>2, <1>3, <1>6
<1>8. m \in Int /\ m \in iss..(u.snd_una + ClientWnd)
  BY <1>1, <1>2, <1>3, <1>4
<1>9. EndsAt(u, iss, m)
  BY <1>5, <1>7, <1>8 DEF EndsAt
<1> QED BY <1>8, <1>9 DEF WindowOK

\* What is left in outbuf behind snd_nxt, negative once the FIN was sent.
LEMMA LeftToSend ==
  ASSUME NEW t \in Tcb, NEW iss, NEW sent, Fits(iss, sent), SessionOK(t, iss, sent),
         t.state # "SYN_RECVD"
  PROVE  LET s == t.outbuf.w_seq
             nxt == t.snd_nxt
         IN  /\ s \in Int /\ nxt \in Int /\ iss < nxt
             /\ rb_avail(t.outbuf, nxt) = s - nxt /\ IntDiff(s, nxt) = s - nxt
             /\ nxt <= SendLimit(t) /\ SendLimit(t) = s + (IF t.state \in Ended THEN 1 ELSE 0)
             /\ s - nxt <= rb_used(t.outbuf) /\ rb_used(t.outbuf) \in Nat
             /\ SeqAdd(nxt, 0) = nxt
             /\ t.state \notin Ended => t.state = "ESTABLISHED"
             /\ t.state \in Ended /\ t.state \notin Sending => nxt = SendLimit(t)
<1> DEFINE s == t.outbuf.w_seq
           nxt == t.snd_nxt
           used == rb_used(t.outbuf)
<1>1. SendNumbers(t, iss, sent) /\ t.state # "CLOSE_WAIT"
  BY DEF SessionOK
<1>2. /\ t.snd_una \in Int /\ nxt \in Int /\ iss \in Int /\ sent \in Int /\ SeqMod \in Int
      /\ SendLimit(t) \in Int /\ s = iss + 1 + sent
      /\ sent <= ServerLen /\ ServerLen \in Int /\ 2 * (ServerLen + 2) < SeqMod
      /\ SendLimit(t) = iss + 1 + sent + (IF t.state \in Ended THEN 1 ELSE 0)
      /\ iss <= t.snd_una /\ t.snd_una <= nxt /\ nxt <= SendLimit(t)
      /\ iss + 1 <= nxt
  BY <1>1, SendSide
<1>3. s \in uint /\ nxt \in uint /\ used \in Nat /\ t.state \in State
  BY TcbTypes
<1>4. s - t.snd_una <= used /\ (t.state \in {"FIN_WAIT_2", "TIME_WAIT"} => t.snd_una = s + 1)
  BY <1>1 DEF SendNumbers
<1>5. t.state \notin Ended => t.state = "ESTABLISHED"
  BY <1>1, <1>3 DEF Ended, State
<1>6. t.state \in Ended /\ t.state \notin Sending => t.state \in {"FIN_WAIT_2", "TIME_WAIT"}
  BY DEF Ended, Sending
<1>7. SendLimit(t) = s + (IF t.state \in Ended THEN 1 ELSE 0) /\ s \in Int /\ iss < nxt
  BY <1>2
<1> HIDE DEF s, nxt, used
<1>8. s - nxt <= used
  BY <1>2, <1>3, <1>4, <1>7
<1>9. IntDiff(s, nxt) = s - nxt
  <2>1. 2 * (s - nxt) < SeqMod /\ 2 * (nxt - s) < SeqMod
    BY <1>2
  <2> QED BY <1>3, <2>1, IntDiffFacts
<1>10. rb_avail(t.outbuf, nxt) = s - nxt
  <2>1. rb_avail(t.outbuf, nxt) = IF IntDiff(s, nxt) > used THEN 0 ELSE IntDiff(s, nxt)
    BY DEF rb_avail, s, used
  <2> QED BY <1>2, <1>3, <1>7, <1>8, <1>9, <2>1
<1>11. SeqAdd(nxt, 0) = nxt
  <2>1. nxt + 0 \in 0..(SeqMod - 1) /\ nxt + 0 = nxt
    BY <1>2, <1>3 DEF uint
  <2> QED BY <1>2, <2>1, SeqAddFacts
<1>12. t.state \in Ended /\ t.state \notin Sending => nxt = SendLimit(t)
  BY <1>2, <1>4, <1>6, <1>7
<1> QED BY <1>2, <1>3, <1>5, <1>7, <1>8, <1>9, <1>10, <1>11, <1>12 DEF s, nxt, used

\* An open window and bytes behind snd_nxt make a segment.
LEMMA SegmentOfData ==
  ASSUME NEW t \in Tcb, window_size(t) > 0, rb_avail(t.outbuf, t.snd_nxt) > 0
  PROVE  SegLen(t) > 0
<1> DEFINE wnd == window_size(t)
           q == t.outbuf
           len == rb_avail(q, t.snd_nxt)
           back == IntDiff(q.w_seq, t.snd_nxt)
           max == MinInt(MinInt(len, Mss), wnd)
<1>1. /\ q \in Queues(Byte) /\ t.snd_nxt \in uint /\ rb_used(q) \in Nat /\ q.w_seq \in uint
      /\ wnd \in Int
  BY TcbTypes, WindowIsInt
<1>2. back \in Int
  BY <1>1, IntDiffFacts
<1>3. len = IF back > rb_used(q) THEN 0 ELSE back
  BY DEF rb_avail
<1>4. SegLen(t) = Len(Peek(q, t.snd_nxt, max)) /\ wnd > 0 /\ len > 0
  BY DEF SegLen
<1> HIDE DEF back, wnd, len, q
<1>5. len \in Int /\ back \in 1..rb_used(q)
  BY <1>1, <1>2, <1>3, <1>4
<1>6. max \in Nat /\ max > 0
  BY <1>1, <1>4, <1>5, SizeTypes DEF MinInt
<1> HIDE DEF max
<1>7. Len(Peek(q, t.snd_nxt, max)) = MinInt(back, max)
  BY <1>1, <1>5, <1>6, PeekFacts DEF back
<1>8. MinInt(back, max) > 0
  BY <1>2, <1>5, <1>6 DEF MinInt
<1> QED BY <1>4, <1>7, <1>8

\* tcp_send_and_ack found nothing to send, or does not ask to be called again.
LEMMA DrainedWhen ==
  ASSUME NEW t \in Tcb, NEW iss, NEW sent, Fits(iss, sent), SessionOK(t, iss, sent),
         t.state # "SYN_RECVD", NothingToSend(t) \/ ~CanDoAgain(t)
  PROVE  Drained(t)
<1> DEFINE s == t.outbuf.w_seq
           nxt == t.snd_nxt
           avail == rb_avail(t.outbuf, nxt)
           wnd == window_size(t)
<1>1. /\ s \in Int /\ nxt \in Int /\ avail = s - nxt
      /\ nxt <= SendLimit(t) /\ SendLimit(t) = s + (IF t.state \in Ended THEN 1 ELSE 0)
      /\ SeqAdd(nxt, 0) = nxt /\ wnd \in Int
      /\ t.state \notin Ended => t.state = "ESTABLISHED"
      /\ t.state \in Ended /\ t.state \notin Sending => nxt = SendLimit(t)
  BY LeftToSend, WindowIsInt
<1>2. t.state \in Sending => t.state \in Ended
  BY DEF Sending, Ended
<1>3. SUFFICES ASSUME wnd > 0 PROVE nxt = SendLimit(t)
  BY <1>1 DEF Drained
<1>4. CASE NothingToSend(t)
  <2>1. SegLen(t) = 0 /\ ~SegFin(t)
    BY <1>4 DEF NothingToSend
  <2>2. ~(avail > 0)
    BY <1>3, <2>1, SegmentOfData
  <2>3. ~(avail = 0 /\ t.state \in Sending)
    BY <1>1, <1>3, <2>1 DEF SegFin
  <2> HIDE DEF avail, s, nxt
  <2> QED BY <1>1, <1>2, <2>2, <2>3
<1>5. CASE ~CanDoAgain(t)
  <2>1. /\ t.state = "ESTABLISHED" => ~(avail > 0)
        /\ t.state \in Sending => ~(avail > -1)
    BY <1>3, <1>5 DEF CanDoAgain
  <2> HIDE DEF avail, s, nxt
  <2> QED BY <1>1, <1>2, <2>1
<1> QED BY <1>4, <1>5

\* Then tcp_send_and_ack would send at most an acknowledgement.
LEMMA NothingIfDrained ==
  ASSUME NEW t \in Tcb, NEW iss, NEW sent, Fits(iss, sent), SessionOK(t, iss, sent),
         t.state # "SYN_RECVD", Drained(t), t.last_acked >= t.rcv_nxt
  PROVE  NothingToSend(t)
<1> DEFINE s == t.outbuf.w_seq
           nxt == t.snd_nxt
           avail == rb_avail(t.outbuf, nxt)
           wnd == window_size(t)
<1>1. /\ s \in Int /\ nxt \in Int /\ avail = s - nxt
      /\ SendLimit(t) = s + (IF t.state \in Ended THEN 1 ELSE 0)
      /\ SeqAdd(nxt, 0) = nxt /\ wnd \in Int
  BY LeftToSend, WindowIsInt
<1>2. t.state \in Sending => t.state \in Ended
  BY DEF Sending, Ended
<1>3. CASE wnd <= 0
  <2>1. SegLen(t) = 0
    BY <1>1, <1>3 DEF SegLen
  <2>2. ~SegFin(t)
    BY <1>1, <1>3, <2>1 DEF SegFin
  <2> QED BY <2>1, <2>2 DEF NothingToSend
<1>4. CASE nxt = SendLimit(t)
  <2>1. ~(avail > 0) /\ (t.state \in Sending => avail # 0)
    <3> HIDE DEF avail, s, nxt
    <3> QED BY <1>1, <1>2, <1>4
  <2>2. SegLen(t) = 0
    BY <2>1 DEF SegLen
  <2>3. ~SegFin(t)
    BY <1>1, <2>1, <2>2 DEF SegFin
  <2> QED BY <2>2, <2>3 DEF NothingToSend
<1> QED BY <1>3, <1>4 DEF Drained

\* The session t, if there is one, is as it must be, and its numbers do not wrap.
SessionNow(t, iss, sent) == Fits(iss, sent) /\ (t # NULL => t \in Tcb /\ SessionOK(t, iss, sent))

\* The invariant of the send side, and that of the windows the client announces.
OutOK(t, iss) == t # NULL => Scheduled(t, iss) /\ WindowOK(t, iss)
Announced(q) == \A p \in Packets(q) : p.wnd <= ClientWnd

OutInv == OutOK(tcb, Iss) /\ Announced(to_relay)

\* A function that leaves the send variables alone, and schedules what it adds.
LEMMA QuietOutput ==
  ASSUME NEW w, NEW v, NEW iss, NEW sent, NEW after, HasTcb(w), w.tcb # NULL,
         SessionNow(w.tcb, iss, sent), SessionNow(v.tcb, iss, after), OutOK(w.tcb, iss),
         SameBut({"outbuf", "last_acked", "rcv_nxt", "state", "e_tcb_send"}, w, v),
         \/ Marked(v)
         \/ /\ SameBut({"outbuf", "state", "e_tcb_send"}, w, v)
            /\ v.tcb.e_tcb_send = w.tcb.e_tcb_send
            /\ SendLimit(v.tcb) = SendLimit(w.tcb) \/ ~(window_size(v.tcb) > 0)
  PROVE  OutOK(v.tcb, iss)
<1> DEFINE t == w.tcb
           u == v.tcb
<1>1. SUFFICES ASSUME u # NULL PROVE Scheduled(u, iss) /\ WindowOK(u, iss)
  BY DEF OutOK
<1>2. /\ HasTcb(v) /\ u.snd_una = t.snd_una /\ u.snd_nxt = t.snd_nxt
      /\ u.snd_wnd = t.snd_wnd /\ u.snd_max = t.snd_max
  BY FieldsSame
<1>3. /\ t \in Tcb /\ u \in Tcb /\ Fits(iss, sent) /\ Fits(iss, after)
      /\ SendNumbers(t, iss, sent) /\ SendNumbers(u, iss, after)
      /\ Scheduled(t, iss) /\ WindowOK(t, iss)
  BY <1>1 DEF SessionNow, SessionOK, OutOK
<1>4. t.snd_una \in Int /\ t.snd_nxt \in Int
  BY <1>3, SendSide
<1>5. WindowOK(u, iss) /\ (window_size(t) <= 0 => window_size(u) <= 0)
  <2>1. t.snd_una <= u.snd_una /\ t.snd_nxt <= u.snd_nxt
    BY <1>2, <1>4
  <2> QED BY <1>2, <1>3, <2>1, ClosedStays
<1>6. CASE Marked(v)
  BY <1>2, <1>5, <1>6 DEF Marked, Scheduled
<1>7. CASE /\ SameBut({"outbuf", "state", "e_tcb_send"}, w, v)
           /\ u.e_tcb_send = t.e_tcb_send
           /\ SendLimit(u) = SendLimit(t) \/ ~(window_size(u) > 0)
  <2>1. u.last_acked = t.last_acked /\ u.rcv_nxt = t.rcv_nxt
    BY <1>7, FieldsSame
  <2>2. window_size(u) \in Int
    BY <1>3, WindowIsInt
  <2>3. Drained(t) => Drained(u)
    BY <1>2, <1>5, <1>7, <2>2 DEF Drained
  <2> QED BY <1>2, <1>3, <1>5, <1>7, <2>1, <2>3 DEF Scheduled
<1> QED BY <1>6, <1>7

\* The same for a function that changes none of the fields.
LEMMA SameOutput ==
  ASSUME NEW w, NEW v, NEW iss, HasTcb(w), SameBut({}, w, v), w.tcb # NULL, OutOK(w.tcb, iss)
  PROVE  OutOK(v.tcb, iss)
<1> DEFINE t == w.tcb
           u == v.tcb
<1>1. /\ HasTcb(v) /\ u.snd_una = t.snd_una /\ u.snd_nxt = t.snd_nxt /\ u.snd_wnd = t.snd_wnd
      /\ u.snd_max = t.snd_max /\ u.outbuf = t.outbuf /\ u.last_acked = t.last_acked
      /\ u.rcv_nxt = t.rcv_nxt /\ u.state = t.state /\ u.e_tcb_send = t.e_tcb_send
  BY FieldsSame
<1>2. SendLimit(u) = SendLimit(t) /\ window_size(u) = window_size(t)
  BY <1>1 DEF SendLimit, window_size
<1>3. Drained(u) <=> Drained(t)
  BY <1>1, <1>2 DEF Drained
<1>4. ASSUME NEW m \in Int PROVE EndsAt(u, iss, m) <=> EndsAt(t, iss, m)
  BY <1>1 DEF EndsAt
<1>5. WindowOK(u, iss) <=> WindowOK(t, iss)
  BY <1>1, <1>4 DEF WindowOK
<1>6. Scheduled(u, iss) <=> Scheduled(t, iss)
  BY <1>1, <1>3 DEF Scheduled
<1> QED BY <1>5, <1>6 DEF OutOK

\* The relay gives the session up: a FIN is scheduled, or the tcb is gone.
LEMMA GiveUpOutput ==
  ASSUME NEW w, NEW e, NEW iss, NEW sent, NEW after, w \in World, w.tcb # NULL,
         SessionNow(w.tcb, iss, sent), OutOK(w.tcb, iss),
         SessionNow(RemoveEvent(GiveUp(w), e).tcb, iss, after)
  PROVE  OutOK(RemoveEvent(GiveUp(w), e).tcb, iss)
<1> DEFINE g == GiveUp(w)
           v == RemoveEvent(g, e)
<1>1. HasTcb(w)
  BY TcbHasFields
<1>2. CASE w.tcb.state # "SYN_RECVD"
  <2>1. SameBut({"state", "e_tcb_send"}, w, g) /\ Marked(g)
    BY <1>1, <1>2, CloseSame
  <2> HIDE DEF g
  <2>2. KeepsTcb(g, v)
    BY TcbStays
  <2>3. HasTcb(g)
    BY <1>1, <2>1 DEF SameBut
  <2>4. v.tcb = g.tcb /\ HasTcb(v)
    BY <2>2, <2>3 DEF KeepsTcb, HasTcb
  <2>5. SessionNow(v.tcb, iss, after)
    BY DEF g
  <2> HIDE DEF v
  <2>6. SameBut({"outbuf", "last_acked", "rcv_nxt", "state", "e_tcb_send"}, w, v) /\ Marked(v)
    <3>1. Marked(v)
      BY <2>1, <2>3, <2>4 DEF Marked
    <3>2. SameBut({"state", "e_tcb_send"}, w, v)
      BY <2>1, <2>4 DEF SameBut
    <3>3. SameBut({"outbuf", "last_acked", "rcv_nxt", "state", "e_tcb_send"}, w, v)
      BY <3>2 DEF SameBut
    <3> QED BY <3>1, <3>3
  <2>7. OutOK(v.tcb, iss)
    BY <1>1, <2>5, <2>6, QuietOutput
  <2> QED BY <2>7 DEF v, g
<1>3. CASE w.tcb.state = "SYN_RECVD"
  <2> DEFINE x == Emit(w, {"RST", "ACK"}, <<>>)
             a == RemoveEvent(RemoveEvent(x, x.tcb.e_tcb_send), x.tcb.e_timeout)
             d == [a EXCEPT !.tcb = NULL]
  <2>1. g = kill_map(d)
    BY <1>3 DEF GiveUp, tcp_close, Discard
  <2>2. "tcb" \in DOMAIN x
    BY <1>1 DEF HasTcb, Emit
  <2> HIDE DEF x, g
  <2>3. "tcb" \in DOMAIN a
    BY <2>2, TcbStays DEF KeepsTcb
  <2> HIDE DEF a
  <2>4. "tcb" \in DOMAIN d /\ d.tcb = NULL
    BY <2>3
  <2> HIDE DEF d
  <2>5. "tcb" \in DOMAIN g /\ g.tcb = NULL
    BY <2>1, <2>4, TcbStays DEF KeepsTcb
  <2>6. v.tcb = NULL
    BY <2>5, TcbStays DEF KeepsTcb
  <2> HIDE DEF v
  <2>7. OutOK(v.tcb, iss)
    BY <2>6 DEF OutOK
  <2> QED BY <2>7 DEF v, g
<1> QED BY <1>2, <1>3

\* The callbacks of the socket.
LEMMA SocketOutput ==
  ASSUME IInv, OutOK(tcb, Iss), SessionNow(tcb, Iss, s_sent), SessionNow(tcb', Iss, s_sent'),
         SocketCallback
  PROVE  OutOK(tcb', Iss)
<1> DEFINE r == "handle_fd_can_read"
           h == "handle_fd_can_write"
           c == "handle_fd_did_connect"
           X == {"outbuf", "last_acked", "rcv_nxt", "state", "e_tcb_send"}
<1>1. r \in FdEvent /\ r \in Event /\ h \in FdEvent /\ h \in Event /\ c \in FdEvent /\ c \in Event
  BY DEF FdEvent, FdWrite, Event
<1>2. w0.tcb = tcb /\ "tcb" \in DOMAIN w0
  BY DEF w0
<1>3. ASSUME tcb' = tcb PROVE OutOK(tcb', Iss)
  BY <1>3
<1>4. ASSUME NEW e \in FdEvent, OfMap(e)
      PROVE  w0 \in World /\ w0.tcb # NULL /\ HasTcb(w0) /\ w0.map \in TcpMap
  <2>1. w0.tcb # NULL /\ w0.map \in TcpMap /\ e \in Event /\ Turn(e)
    BY <1>4, CalledOfMap DEF OfMap, Event
  <2>2. w0 \in World
    BY <2>1, Called
  <2> QED BY <2>1, <2>2, TcbHasFields
<1>5. ASSUME NEW k \in 0..BufSize, handle_fd_can_read(k) PROVE OutOK(tcb', Iss)
  <2> DEFINE w == tcp_send(w0, [i \in 1..k |-> s_sent + i])
             x == [w EXCEPT !.map.e_fd_read = NULL]
  <2>1. OfMap(r) /\ tcb' \in {RemoveEvent(w0, r).tcb, RemoveEvent(x, r).tcb, w.tcb}
    BY <1>5 DEF handle_fd_can_read, EndsRemoved, Ends
  <2>2. HasTcb(w0) /\ w0.tcb # NULL
    BY <1>1, <1>4, <2>1
  <2> HIDE DEF w0
  <2>3. /\ SameBut({"outbuf", "e_tcb_send"}, w0, w)
        /\ Marked(w) \/ (w.tcb.e_tcb_send = w0.tcb.e_tcb_send /\ ~(window_size(w.tcb) > 0))
    BY <2>2, SendSame
  <2> HIDE DEF w
  <2>4. HasTcb(w)
    BY <2>2, <2>3 DEF SameBut
  <2>5. KeepsTcb(w, x) /\ KeepsTcb(x, RemoveEvent(x, r)) /\ KeepsTcb(w0, RemoveEvent(w0, r))
    BY TcbStays
  <2> HIDE DEF x
  <2>6. tcb' \in {tcb, w.tcb}
    BY <1>2, <2>1, <2>4, <2>5 DEF KeepsTcb, HasTcb
  <2>7. CASE tcb' = w.tcb
    <3>1. SameBut(X, w0, w) /\ SameBut({"outbuf", "state", "e_tcb_send"}, w0, w)
      BY <2>3 DEF SameBut
    <3>2. SessionNow(w0.tcb, Iss, s_sent) /\ SessionNow(w.tcb, Iss, s_sent') /\ OutOK(w0.tcb, Iss)
      BY <1>2, <2>7
    <3> HIDE DEF X, Iss
    <3>3. OutOK(w.tcb, Iss)
      BY <2>2, <2>3, <3>1, <3>2, QuietOutput DEF X
    <3> QED BY <2>7, <3>3
  <2> QED BY <1>3, <2>6, <2>7
<1>6. ASSUME NEW u, u \in World, u.tcb # NULL, OutOK(u.tcb, Iss), SessionNow(u.tcb, Iss, s_sent), NEW e,
             tcb' = RemoveEvent(GiveUp(u), e).tcb
      PROVE  OutOK(tcb', Iss)
  <2> HIDE DEF Iss
  <2>1. SessionNow(RemoveEvent(GiveUp(u), e).tcb, Iss, s_sent')
    BY <1>6
  <2>2. OutOK(RemoveEvent(GiveUp(u), e).tcb, Iss)
    BY <1>6, <2>1, GiveUpOutput
  <2> QED BY <1>6, <2>2
<1>7. CASE handle_fd_can_read_end
  <2> DEFINE x == [w0 EXCEPT !.map.e_fd_read = NULL]
  <2>1. OfMap(r) /\ tcb' = RemoveEvent(GiveUp(x), r).tcb
    BY <1>7 DEF handle_fd_can_read_end, EndsRemoved, Ends
  <2>2. w0 \in World /\ w0.tcb # NULL /\ w0.map \in TcpMap
    BY <1>1, <1>4, <2>1
  <2>3. x \in World /\ x.tcb = w0.tcb
    BY <2>2, TcpAssumption DEF World, TcpMap
  <2> HIDE DEF x, w0
  <2> QED BY <1>2, <1>6, <2>1, <2>2, <2>3
<1>8. CASE handle_fd_can_read_again
  <2>1. tcb' = tcb
    BY <1>8 DEF handle_fd_can_read_again, Ends, w0
  <2> QED BY <1>3, <2>1
<1>9. ASSUME NEW e \in FdEvent, dangling_callback(e) PROVE OutOK(tcb', Iss)
  <2>1. tcb' = tcb
    BY <1>9 DEF dangling_callback, relay
  <2> QED BY <1>3, <2>1
<1>10. ASSUME OfMap(h)
       PROVE  LET q == tcp_read(w0)
                  u == [q EXCEPT !.map.e_fd_write = NULL]
              IN  /\ u \in World /\ u.tcb = q.tcb /\ u.tcb # NULL /\ "tcb" \in DOMAIN u
                  /\ SessionNow(u.tcb, Iss, s_sent) /\ OutOK(u.tcb, Iss)
  <2> DEFINE q == tcp_read(w0)
             u == [q EXCEPT !.map.e_fd_write = NULL]
  <2>1. /\ u \in World /\ u.tcb = q.tcb /\ q.tcb # NULL /\ q.tcb \in Tcb
        /\ SessionOK(q.tcb, Iss, s_sent)
    BY <1>10, CanWriteBegins
  <2>2. HasTcb(w0) /\ w0.tcb # NULL
    BY <1>1, <1>4, <1>10
  <2> HIDE DEF w0
  <2>3. SameBut({"last_acked", "e_tcb_send"}, w0, q) /\ (Marked(q) \/ SameBut({}, w0, q))
    BY <2>2, ReadSame
  <2> HIDE DEF q, Iss
  <2>4. SameBut(X, w0, q)
    BY <2>3 DEF SameBut
  <2> HIDE DEF X
  <2>5. SessionNow(q.tcb, Iss, s_sent)
    BY <2>1 DEF SessionNow
  <2>6. CASE Marked(q)
    <3>1. OutOK(q.tcb, Iss)
      BY <1>2, <2>2, <2>4, <2>5, <2>6, QuietOutput DEF X
    <3> QED BY <2>1, <2>5, <3>1 DEF q, World
  <2>7. CASE SameBut({}, w0, q)
    <3>1. OutOK(q.tcb, Iss)
      BY <1>2, <2>2, <2>7, SameOutput
    <3> QED BY <2>1, <2>5, <3>1 DEF q, World
  <2> QED BY <2>3, <2>6, <2>7
<1>11. ASSUME (\E k \in 0..BufSize : handle_fd_can_write(k)) \/ handle_fd_can_write_again
       PROVE  OutOK(tcb', Iss)
  <2> DEFINE u == [tcp_read(w0) EXCEPT !.map.e_fd_write = NULL]
  <2>1. OfMap(h) /\ (tcb' = RemoveEvent(u, h).tcb \/ tcb' = u.tcb)
    BY <1>11 DEF handle_fd_can_write, handle_fd_can_write_again, EndsRemoved, Ends
  <2>2. "tcb" \in DOMAIN u /\ OutOK(u.tcb, Iss)
    BY <1>10, <2>1
  <2> HIDE DEF u
  <2>3. tcb' = u.tcb
    BY <2>1, <2>2, TcbStays DEF KeepsTcb
  <2> QED BY <2>2, <2>3
<1>12. CASE handle_fd_can_write_end
  <2> DEFINE u == [tcp_read(w0) EXCEPT !.map.e_fd_write = NULL]
  <2>1. OfMap(h) /\ tcb' = RemoveEvent(GiveUp(u), h).tcb
    BY <1>12 DEF handle_fd_can_write_end, EndsRemoved, Ends
  <2>2. u \in World /\ u.tcb # NULL /\ SessionNow(u.tcb, Iss, s_sent) /\ OutOK(u.tcb, Iss)
    BY <1>10, <2>1
  <2> HIDE DEF u
  <2> QED BY <1>6, <2>1, <2>2
<1>13. ASSUME NEW ok \in BOOLEAN, handle_fd_did_connect(ok) PROVE OutOK(tcb', Iss)
  <2> DEFINE x == [w0 EXCEPT !.map.e_fd_write = NULL]
             m == mark_for_if_write(x)
  <2>1. OfMap(c) /\ tcb' \in {RemoveEvent(m, c).tcb, RemoveEvent(GiveUp(x), c).tcb}
    BY <1>13 DEF handle_fd_did_connect, EndsRemoved, Ends
  <2>2. w0 \in World /\ w0.tcb # NULL /\ w0.map \in TcpMap /\ HasTcb(w0)
    BY <1>1, <1>4, <2>1
  <2>3. x \in World /\ x.tcb = w0.tcb /\ HasTcb(x)
    BY <2>2, TcpAssumption DEF World, TcpMap, HasTcb
  <2> HIDE DEF x, w0, Iss
  <2>4. CASE tcb' = RemoveEvent(GiveUp(x), c).tcb
    BY <1>2, <1>6, <2>2, <2>3, <2>4
  <2>5. CASE tcb' = RemoveEvent(m, c).tcb
    <3>1. SameBut({"e_tcb_send"}, x, m) /\ Marked(m)
      BY <2>3, MarkSame
    <3> HIDE DEF m
    <3>2. HasTcb(m) /\ SameBut(X, x, m)
      BY <2>3, <3>1 DEF SameBut
    <3>3. tcb' = m.tcb
      BY <2>5, <3>2, TcbStays DEF KeepsTcb, HasTcb
    <3> HIDE DEF X
    <3>4. SessionNow(x.tcb, Iss, s_sent) /\ SessionNow(m.tcb, Iss, s_sent') /\ OutOK(x.tcb, Iss) /\ x.tcb # NULL
      BY <1>2, <2>2, <2>3, <3>3
    <3>5. OutOK(m.tcb, Iss)
      BY <2>3, <3>1, <3>2, <3>4, QuietOutput DEF X
    <3> QED BY <3>3, <3>5
  <2> QED BY <2>1, <2>4, <2>5
<1> QED BY <1>5, <1>7, <1>8, <1>9, <1>11, <1>12, <1>13 DEF SocketCallback

\* What is marked needs only its window.
LEMMA MarkedOutput ==
  ASSUME NEW w, NEW v, NEW X, NEW iss, HasTcb(w), SameBut(X, w, v),
         {"snd_una", "snd_wnd", "snd_max"} \cap X = {}, WindowOK(w.tcb, iss)
  PROVE  WindowOK(v.tcb, iss) /\ (Marked(v) => OutOK(v.tcb, iss))
<1> DEFINE t == w.tcb
           u == v.tcb
<1>1. HasTcb(v) /\ u.snd_una = t.snd_una /\ u.snd_wnd = t.snd_wnd /\ u.snd_max = t.snd_max
  <2>1. "snd_una" \notin X /\ "snd_wnd" \notin X /\ "snd_max" \notin X
    OBVIOUS
  <2> QED BY <2>1, FieldsSame
<1>2. ASSUME NEW m \in Int PROVE EndsAt(u, iss, m) <=> EndsAt(t, iss, m)
  BY <1>1 DEF EndsAt
<1>3. WindowOK(u, iss)
  BY <1>1, <1>2 DEF WindowOK
<1> QED BY <1>1, <1>3 DEF Marked, OutOK, Scheduled

\* The callback of an event of the tcb has a tcb.
LEMMA CalledOfTcb ==
  ASSUME IInv, NEW e \in Timer \cup {"do_tcb_write"}, Turn(e)
  PROVE  /\ tcb # NULL /\ tcb \in Tcb /\ w0.tcb = tcb /\ w0 \in World /\ HasTcb(w0)
         /\ e = "do_tcb_write" => tcb.e_tcb_send = e
<1>1. e \in Event /\ e \notin FdEvent /\ e # "handle_fd_can_write"
  BY DEF Event, FdEvent, FdWrite, Timer
<1>2. /\ w0.listed[e] > 0 /\ w0 \in World /\ DaemonOK(w0, Iss, s_sent, Again)
      /\ w0.tcb = tcb /\ w0.map = map /\ (tcb # NULL => tcb \in Tcb)
      /\ map # NULL => map \in TcpMap
  BY <1>1, Called
<1>3. PointsTo(w0, e)
  BY <1>1, <1>2, ListedPoints
<1>4. map # NULL => map.e_fd_read # e /\ map.e_fd_write # e
  BY <1>1, <1>2, TcpAssumption DEF TcpMap, FdEvent, FdWrite, Timer
<1>5. w0.tcb # NULL /\ (w0.tcb.e_tcb_send = e \/ w0.tcb.e_timeout = e)
  BY <1>2, <1>3, <1>4 DEF PointsTo
<1>6. tcb.e_timeout \in {NULL} \cup Timer
  BY <1>2, <1>5, TcbTypes
<1>7. e = "do_tcb_write" => tcb.e_timeout # e
  BY <1>6, TcpAssumption DEF Timer
<1>8. HasTcb(w0)
  BY <1>2, <1>5, TcbHasFields
<1> QED BY <1>2, <1>5, <1>7, <1>8

\* tcp_timeout schedules the retransmission.
LEMMA TimeoutOutput ==
  ASSUME IInv, OutOK(tcb, Iss), SessionNow(tcb, Iss, s_sent), tcp_timeout
  PROVE  OutOK(tcb', Iss)
<1> DEFINE e == "tcp_timeout"
           s == [tcb EXCEPT !.e_timeout = NULL, !.snd_nxt = tcb.snd_una, !.snd_cwnd = 0]
           t == window_update(s)
           x == [w0 EXCEPT !.tcb = t]
           v == mark_for_if_write(x)
<1>1. Turn(e) /\ e \in Timer \cup {"do_tcb_write"} /\ tcb' = RemoveEvent(v, e).tcb
  BY DEF tcp_timeout, EndsRemoved, Ends, Timer
<1>2. tcb # NULL /\ tcb \in Tcb /\ w0.tcb = tcb /\ w0 \in World /\ HasTcb(w0)
  BY <1>1, CalledOfTcb
<1>3. /\ s \in Tcb /\ s.snd_una = tcb.snd_una /\ s.snd_wnd = tcb.snd_wnd
  <2>1. tcb.snd_una \in uint /\ 0 \in uint
    BY <1>2, TcbTypes, SizeTypes DEF uint
  <2> QED BY <1>2, <2>1 DEF Tcb
<1> HIDE DEF s
<1>4. /\ t \in Tcb /\ t.snd_wnd = s.snd_wnd
      /\ \E cwnd \in 0..s.snd_wnd : t.snd_max = SeqAdd(s.snd_una, cwnd)
      /\ t.snd_una = s.snd_una
  <2>1. /\ t.snd_wnd = s.snd_wnd /\ (\A f \in SendFields \ {"snd_max"} : t[f] = s[f])
        /\ \E cwnd \in 0..s.snd_wnd : t.snd_max = SeqAdd(s.snd_una, cwnd)
    BY <1>3, WindowEnd
  <2>2. t \in Tcb
    BY <1>3, WindowUpdate
  <2>3. "snd_una" \in SendFields \ {"snd_max"}
    BY DEF SendFields
  <2> HIDE DEF t
  <2> QED BY <2>1, <2>2, <2>3
<1> HIDE DEF t
<1>5. /\ Fits(Iss, s_sent) /\ SendNumbers(tcb, Iss, s_sent) /\ WindowOK(tcb, Iss)
      /\ Iss \in Nat
  BY <1>2 DEF SessionNow, SessionOK, OutOK, Fits
<1> HIDE DEF Iss
<1>6. Iss <= tcb.snd_una
  BY <1>2, <1>5, SendSide
<1>7. t.snd_wnd \in Nat /\ t.snd_wnd <= ClientWnd
  <2>1. tcb.snd_wnd \in uint
    BY <1>2, TcbTypes
  <2>2. tcb.snd_wnd \in Int /\ 0 <= tcb.snd_wnd
    BY <2>1, UintIsInt
  <2>3. tcb.snd_wnd <= ClientWnd
    BY <1>5 DEF WindowOK
  <2> QED BY <1>3, <1>4, <2>2, <2>3
<1>8. WindowOK(t, Iss)
  <2>1. PICK cwnd \in 0..t.snd_wnd : t.snd_max = SeqAdd(t.snd_una, cwnd)
    BY <1>4
  <2>2. Iss <= t.snd_una
    BY <1>3, <1>4, <1>6
  <2> QED BY <1>4, <1>5, <1>7, <2>1, <2>2, OpenedOK
<1>9. x.tcb = t /\ x \in World /\ x.tcb # NULL
  BY <1>2, <1>4, NullAssumption DEF World
<1> HIDE DEF x, w0
<1>10. HasTcb(x)
  BY <1>9, TcbHasFields
<1>11. SameBut({"e_tcb_send"}, x, v) /\ Marked(v) /\ HasTcb(v)
  BY <1>10, MarkSame DEF SameBut
<1> HIDE DEF v
<1>12. OutOK(v.tcb, Iss)
  <2>1. {"snd_una", "snd_wnd", "snd_max"} \cap {"e_tcb_send"} = {}
    OBVIOUS
  <2>2. WindowOK(x.tcb, Iss)
    BY <1>8, <1>9
  <2> QED BY <1>10, <1>11, <2>1, <2>2, MarkedOutput
<1>13. tcb' = v.tcb
  BY <1>1, <1>11, TcbStays DEF KeepsTcb, HasTcb
<1> QED BY <1>12, <1>13

\* tcp_remove leaves no session.
LEMMA RemoveOutput ==
  ASSUME IInv, tcp_remove
  PROVE  OutOK(tcb', Iss)
<1> DEFINE a == RemoveEvent(RemoveEvent(w0, w0.tcb.e_tcb_send), w0.tcb.e_timeout)
           d == [a EXCEPT !.tcb = NULL]
<1>1. tcb' = RemoveEvent(d, "tcp_remove").tcb
  BY DEF tcp_remove, EndsRemoved, Ends, Discard
<1>2. "tcb" \in DOMAIN w0
  BY DEF w0
<1>3. "tcb" \in DOMAIN a
  BY <1>2, TcbStays DEF KeepsTcb
<1> HIDE DEF a
<1>4. "tcb" \in DOMAIN d /\ d.tcb = NULL
  BY <1>3
<1> HIDE DEF d
<1>5. tcb' = NULL
  BY <1>1, <1>4, TcbStays DEF KeepsTcb
<1> QED BY <1>5 DEF OutOK

\* A packet that is sent acknowledges everything and moves snd_nxt at most.
LEMMA SentSame ==
  ASSUME NEW w, HasTcb(w)
  PROVE  LET s == tcp_send_syn(w)
             v == tcp_send_and_ack(w)
             X == {"snd_nxt", "last_acked"}
         IN  /\ SameBut(X, w, s) /\ s.tcb.last_acked = w.tcb.rcv_nxt
             /\ s.tcb.snd_nxt = SeqAdd(w.tcb.snd_nxt, 1)
             /\ SameBut(X, w, v)
             /\ ~NothingToSend(w.tcb) => v.tcb.last_acked = w.tcb.rcv_nxt
             /\ NothingToSend(w.tcb) => v = w
<1> DEFINE t == w.tcb
           X == {"snd_nxt", "last_acked"}
           k == SegLen(t) + IF SegFin(t) THEN 1 ELSE 0
           data == Peek(t.outbuf, t.snd_nxt, SegLen(t))
           flags == IF SegFin(t) THEN {"ACK", "FIN"} ELSE {"ACK"}
           a == IF t.e_timeout = NULL /\ SegLen(t) > 0 THEN set_timeout(w) ELSE w
           b == Emit(a, flags, data)
           v == [b EXCEPT !.tcb.snd_nxt = SeqAdd(@, k)]
<1>1. ASSUME NEW x, HasTcb(x), NEW f, NEW d
      PROVE  LET y == Emit(x, f, d)
             IN  /\ SameBut({"last_acked"}, x, y) /\ y.tcb.last_acked = x.tcb.rcv_nxt
                 /\ y.tcb.snd_nxt = x.tcb.snd_nxt /\ HasTcb(y)
  BY <1>1 DEF Emit, SameBut, HasTcb, SendFields
<1>2. ASSUME NEW x, HasTcb(x), NEW n
      PROVE  LET y == [x EXCEPT !.tcb.snd_nxt = SeqAdd(@, n)]
             IN  /\ SameBut({"snd_nxt"}, x, y) /\ y.tcb.last_acked = x.tcb.last_acked
                 /\ y.tcb.snd_nxt = SeqAdd(x.tcb.snd_nxt, n)
  BY <1>2 DEF SameBut, HasTcb, SendFields
<1>3. /\ SameBut(X, w, tcp_send_syn(w)) /\ tcp_send_syn(w).tcb.last_acked = t.rcv_nxt
      /\ tcp_send_syn(w).tcb.snd_nxt = SeqAdd(t.snd_nxt, 1)
  <2> DEFINE y == Emit(w, {"SYN", "ACK"}, <<>>)
             z == [y EXCEPT !.tcb.snd_nxt = SeqAdd(@, 1)]
  <2>1. SameBut({"last_acked"}, w, y) /\ y.tcb.last_acked = t.rcv_nxt /\ HasTcb(y)
        /\ y.tcb.snd_nxt = t.snd_nxt
    BY <1>1
  <2>2. tcp_send_syn(w) = z
    BY DEF tcp_send_syn
  <2> HIDE DEF y
  <2>3. SameBut({"snd_nxt"}, y, z) /\ z.tcb.last_acked = y.tcb.last_acked
        /\ z.tcb.snd_nxt = SeqAdd(y.tcb.snd_nxt, 1)
    BY <1>2, <2>1
  <2> HIDE DEF z
  <2>4. SameBut({"last_acked"} \cup {"snd_nxt"}, w, z)
    BY <2>1, <2>3, SameButTrans
  <2>5. SameBut(X, w, z)
    BY <2>4 DEF SameBut
  <2> QED BY <2>1, <2>2, <2>3, <2>5
<1>4. tcp_send_and_ack(w) = IF NothingToSend(t) THEN w ELSE v
  BY DEF tcp_send_and_ack
<1>5. SameBut({}, w, a)
  BY RelaySame, TimerSame
<1> HIDE DEF a
<1>6. HasTcb(a) /\ a.tcb.rcv_nxt = t.rcv_nxt
  BY <1>5, FieldsSame
<1>7. SameBut({"last_acked"}, a, b) /\ b.tcb.last_acked = a.tcb.rcv_nxt /\ HasTcb(b)
  BY <1>1, <1>6
<1> HIDE DEF b
<1>8. SameBut({"snd_nxt"}, b, v) /\ v.tcb.last_acked = b.tcb.last_acked
  BY <1>2, <1>7
<1> HIDE DEF v
<1>9. SameBut(X, w, v)
  <2>1. SameBut({} \cup {"last_acked"}, w, b)
    BY <1>5, <1>7, SameButTrans
  <2>2. SameBut(({} \cup {"last_acked"}) \cup {"snd_nxt"}, w, v)
    BY <1>8, <2>1, SameButTrans
  <2> QED BY <2>2 DEF SameBut
<1>10. SameBut(X, w, w)
  BY DEF SameBut
<1> HIDE DEF X
<1>11. CASE NothingToSend(t)
  <2>1. tcp_send_and_ack(w) = w
    BY <1>4, <1>11
  <2> QED BY <1>3, <1>10, <1>11, <2>1 DEF X
<1>12. CASE ~NothingToSend(t)
  <2>1. tcp_send_and_ack(w) = v
    BY <1>4, <1>12
  <2>2. v.tcb.last_acked = t.rcv_nxt
    BY <1>6, <1>7, <1>8
  <2> QED BY <1>3, <1>9, <1>12, <2>1, <2>2 DEF X
<1> QED BY <1>11, <1>12

\* do_tcb_write lets go of its event only when nothing is left to be sent.
LEMMA WriteOutput ==
  ASSUME IInv, OutOK(tcb, Iss), SessionNow(tcb, Iss, s_sent), SessionNow(tcb', Iss, s_sent'),
         do_tcb_write
  PROVE  OutOK(tcb', Iss)
<1> DEFINE e == "do_tcb_write"
           w == IF tcb.state = "SYN_RECVD" THEN tcp_send_syn(w0) ELSE tcp_send_and_ack(w0)
           x == [w EXCEPT !.tcb.e_tcb_send = NULL]
           more == tcb.state # "SYN_RECVD" /\ ~NothingToSend(tcb) /\ CanDoAgain(w.tcb)
           X == {"snd_nxt", "last_acked"}
<1>1. /\ Turn(e) /\ e \in Timer \cup {"do_tcb_write"} /\ s_sent' = s_sent
      /\ more => tcb' = w.tcb
      /\ ~more => tcb' = RemoveEvent(x, e).tcb
  BY DEF do_tcb_write, EndsRemoved, Ends, server
<1>2. /\ tcb # NULL /\ tcb \in Tcb /\ w0.tcb = tcb /\ HasTcb(w0) /\ tcb.e_tcb_send = e
  BY <1>1, CalledOfTcb
<1>3. /\ Fits(Iss, s_sent) /\ SendNumbers(tcb, Iss, s_sent) /\ WindowOK(tcb, Iss)
      /\ SessionOK(tcb, Iss, s_sent)
  BY <1>2 DEF SessionNow, SessionOK, OutOK
<1>4. tcb.state = "SYN_RECVD" => tcb.snd_nxt = Iss
  <2>1. HandshakeOK(w0, Iss)
    BY DEF IInv
  <2> QED BY <1>2, <2>1, TcpAssumption DEF HandshakeOK, InSynRecvd
<1> HIDE DEF w0, Iss
<1>5. /\ SameBut(X, w0, w)
      /\ tcb.state = "SYN_RECVD" => /\ w.tcb.last_acked = tcb.rcv_nxt
                                    /\ w.tcb.snd_nxt = SeqAdd(tcb.snd_nxt, 1)
      /\ tcb.state # "SYN_RECVD" /\ ~NothingToSend(tcb) => w.tcb.last_acked = tcb.rcv_nxt
      /\ tcb.state # "SYN_RECVD" /\ NothingToSend(tcb) => w = w0
  BY <1>2, SentSame
<1> HIDE DEF w
<1>6. /\ HasTcb(w) /\ w.tcb.e_tcb_send = e /\ w.tcb.rcv_nxt = tcb.rcv_nxt /\ w.tcb.state = tcb.state
      /\ w.tcb.outbuf = tcb.outbuf
  BY <1>2, <1>5, FieldsSame
<1>7. WindowOK(w.tcb, Iss) /\ (Marked(w) => OutOK(w.tcb, Iss))
  <2>1. {"snd_una", "snd_wnd", "snd_max"} \cap X = {}
    OBVIOUS
  <2> HIDE DEF X
  <2>2. WindowOK(w0.tcb, Iss)
    BY <1>2, <1>3
  <2> QED BY <1>2, <1>5, <2>1, <2>2, MarkedOutput
<1>8. CASE more
  <2>1. Marked(w)
    BY <1>6, TcpAssumption DEF Marked
  <2> QED BY <1>1, <1>7, <1>8, <2>1
<1>9. CASE ~more
  <2> DEFINE u == x.tcb
  <2>1. HasTcb(x) /\ SameBut({"e_tcb_send"}, w, x)
    BY <1>6 DEF HasTcb, SameBut, SendFields
  <2> HIDE DEF x
  <2>2. tcb' = u
    BY <1>1, <1>9, <2>1, TcbStays DEF KeepsTcb, HasTcb
  <2>3. WindowOK(u, Iss)
    <3>1. {"snd_una", "snd_wnd", "snd_max"} \cap {"e_tcb_send"} = {}
      OBVIOUS
    <3> QED BY <1>6, <1>7, <2>1, <3>1, MarkedOutput
  <2>4. /\ u.snd_nxt = w.tcb.snd_nxt /\ u.snd_max = w.tcb.snd_max /\ u.outbuf = tcb.outbuf
        /\ u.state = tcb.state /\ u.last_acked = w.tcb.last_acked /\ u.rcv_nxt = tcb.rcv_nxt
    BY <1>6, <2>1, FieldsSame
  <2>5. SUFFICES ASSUME u # NULL PROVE u.last_acked >= u.rcv_nxt /\ Drained(u)
    BY <2>2, <2>3 DEF OutOK, Scheduled
  <2>6. u \in Tcb /\ Fits(Iss, s_sent) /\ SessionOK(u, Iss, s_sent)
    BY <1>1, <2>2, <2>5 DEF SessionNow
  <2>7. u.rcv_nxt \in Int
    <3>1. u.rcv_nxt \in uint
      BY <2>6, TcbTypes
    <3> QED BY <3>1, UintIsInt
  <2>8. u.last_acked >= u.rcv_nxt
    <3>1. CASE tcb.state # "SYN_RECVD" /\ NothingToSend(tcb)
      <4>1. tcb.last_acked >= tcb.rcv_nxt
        BY <3>1 DEF NothingToSend
      <4>2. w.tcb.last_acked = tcb.last_acked
        BY <1>2, <1>5, <3>1
      <4> QED BY <2>4, <4>1, <4>2
    <3>2. CASE ~(tcb.state # "SYN_RECVD" /\ NothingToSend(tcb))
      <4>1. u.last_acked = u.rcv_nxt
        BY <1>5, <2>4, <3>2
      <4> QED BY <2>7, <4>1
    <3> QED BY <3>1, <3>2
  <2>9. CASE tcb.state = "SYN_RECVD"
    <3>1. /\ SendLimit(u) = Iss + 1 + s_sent + (IF u.state \in Ended THEN 1 ELSE 0)
          /\ Iss \in Int /\ Iss >= 0 /\ Iss + ServerLen + 2 < SeqMod /\ ServerLen \in Int
          /\ SeqMod \in Int /\ s_sent >= 0 /\ s_sent <= ServerLen /\ s_sent \in Int
      BY <2>6, SendSide DEF SessionOK
    <3>2. s_sent = 0
      BY <1>3, <2>9 DEF SendNumbers
    <3>3. u.state \notin Ended
      BY <2>4, <2>9 DEF Ended
    <3>4. u.snd_nxt = SeqAdd(Iss, 1)
      BY <1>4, <1>5, <2>4, <2>9
    <3>5. SeqAdd(Iss, 1) = Iss + 1
      <4>1. Iss + 1 \in 0..(SeqMod - 1) /\ 1 \in Int
        BY <3>1
      <4> QED BY <3>1, <4>1, SeqAddFacts
    <3>6. u.snd_nxt = SendLimit(u)
      BY <3>1, <3>2, <3>3, <3>4, <3>5
    <3> QED BY <2>8, <3>6 DEF Drained
  <2>10. CASE tcb.state # "SYN_RECVD"
    <3>1. u.state # "SYN_RECVD"
      BY <2>4, <2>10
    <3>2. CASE NothingToSend(tcb)
      <4>1. Drained(tcb)
        BY <1>2, <1>3, <2>10, <3>2, DrainedWhen
      <4>2. w.tcb = tcb
        BY <1>2, <1>5, <2>10, <3>2
      <4>3. u.snd_nxt = tcb.snd_nxt /\ u.snd_max = tcb.snd_max
        BY <2>4, <4>2
      <4>4. SendLimit(u) = SendLimit(tcb) /\ window_size(u) = window_size(tcb)
        BY <2>4, <4>3 DEF SendLimit, window_size
      <4>5. Drained(u)
        BY <4>1, <4>3, <4>4 DEF Drained
      <4> QED BY <2>8, <4>5
    <3>3. CASE ~NothingToSend(tcb)
      <4>1. ~CanDoAgain(w.tcb)
        BY <1>9, <2>10, <3>3
      <4>2. CanDoAgain(u) <=> CanDoAgain(w.tcb)
        <5>1. window_size(u) = window_size(w.tcb)
          BY <2>4 DEF window_size
        <5> QED BY <1>6, <2>4, <5>1 DEF CanDoAgain
      <4>3. Drained(u)
        <5> HIDE DEF u
        <5> QED BY <2>6, <3>1, <4>1, <4>2, DrainedWhen
      <4> QED BY <2>8, <4>3
    <3> QED BY <3>2, <3>3
  <2> QED BY <2>9, <2>10
<1> QED BY <1>8, <1>9

\* A new session's window.
LEMMA NewWindowOK ==
  ASSUME NEW irs \in uint, NEW wnd \in uint, wnd <= ClientWnd, NEW iss \in Nat, iss + 2 < SeqMod
  PROVE  WindowOK(NewTcb(irs, wnd, iss), iss)
<1> DEFINE r == SeqAdd(irs, 1)
           s == SeqAdd(iss, 1)
           u == [state |-> "SYN_RECVD",
                 snd_una |-> iss, snd_nxt |-> iss, snd_wnd |-> wnd, snd_cwnd |-> 0, snd_max |-> 0,
                 rcv_nxt |-> r, rcv_wnd |-> BufSize,
                 last_acked |-> 0, timeout_mark |-> 0, read_seq |-> r,
                 inbuf |-> Empty(r), outbuf |-> Empty(s), cb |-> TRUE,
                 e_tcb_send |-> NULL, e_timeout |-> NULL]
           t == NewTcb(irs, wnd, iss)
<1>1. t = window_update(u)
  BY DEF NewTcb
<1>2. t \in Tcb
  BY NewTcbFacts
<1> HIDE DEF t
<1>3. r \in uint /\ s \in uint /\ irs \in Int /\ iss \in Int
  BY UintIsInt, SeqAddFacts
<1>4. iss \in uint /\ 0 \in uint /\ BufSize \in uint
  <2>1. iss \in uint
    BY SizeTypes DEF uint
  <2>2. 0 \in uint /\ BufSize \in uint
    BY SizeTypes, TcpAssumption DEF uint
  <2> QED BY <2>1, <2>2
<1> HIDE DEF r, s
<1>5. Empty(r) \in Queues(Byte) /\ Empty(s) \in Queues(Byte)
  BY <1>3 DEF Empty, Queues
<1>6. u \in Tcb /\ u.snd_wnd = wnd /\ u.snd_una = iss
  BY <1>3, <1>4, <1>5 DEF Tcb, State
<1> HIDE DEF u
<1>7. /\ t.snd_wnd = wnd /\ (\A f \in SendFields \ {"snd_max"} : t[f] = u[f])
      /\ \E cwnd \in 0..wnd : t.snd_max = SeqAdd(iss, cwnd)
  BY <1>1, <1>6, WindowEnd
<1>8. t.snd_una = iss
  <2>1. "snd_una" \in SendFields \ {"snd_max"}
    BY DEF SendFields
  <2> QED BY <1>6, <1>7, <2>1
<1>9. wnd \in Nat /\ iss <= t.snd_una
  <2>1. wnd \in Int /\ 0 <= wnd
    BY UintIsInt
  <2> QED BY <1>3, <1>8, <2>1
<1>10. PICK cwnd \in 0..wnd : t.snd_max = SeqAdd(t.snd_una, cwnd)
  BY <1>7, <1>8
<1>11. WindowOK(t, iss)
  BY <1>2, <1>7, <1>9, <1>10, OpenedOK
<1> QED BY <1>11 DEF t

\* A SYN opens a session that waits for connect().
LEMMA SynOutput ==
  ASSUME IInv, NoWrap, NoWrap', Announced(to_relay), SessionNow(tcb', Iss', s_sent'),
         Turn("handle_tcp"), NEW connect \in {"ok", "refused", "in_progress"}, handle_tcp_syn(connect)
  PROVE  OutOK(tcb', Iss')
<1> DEFINE iss == Iss'
           t == NewTcb(pkt.seq, pkt.wnd, iss)
           m == [e_fd_read |-> NULL, e_fd_write |-> NULL]
           w == [w0 EXCEPT !.tcb = t, !.map = m]
           v == Accepting(connect)
           i == AddEvent([w EXCEPT !.map.e_fd_write = "handle_fd_did_connect"],
                         "handle_fd_did_connect")
<1>1. tcb = NULL /\ Syn(pkt) /\ isn' = isn + 1 /\ tcb' = v.tcb
  BY DEF handle_tcp_syn, Handled, Ends, Syn
<1>2. pkt.seq \in uint /\ pkt.wnd \in uint /\ pkt.wnd <= ClientWnd
  <2>1. pkt \in Packet /\ pkt \in Packets(to_relay)
    BY HandleBegins
  <2> QED BY <2>1 DEF Announced, Packet
<1>3. NewSession(v, iss)
  BY <1>1, AcceptingFacts
<1>4. v \in {GiveUp(w), i, mark_for_if_write(w)}
  <2>1. v = CASE connect = "refused" -> GiveUp(w)
              [] connect = "in_progress" -> i
              [] connect = "ok" -> mark_for_if_write(w)
    BY <1>1 DEF Accepting, Iss
  <2> HIDE DEF v, w, i
  <2> QED BY <2>1
<1>5. iss \in Nat /\ iss + 2 < SeqMod
  <2>1. iss \in Nat /\ iss + ServerLen + 2 < SeqMod
    BY DEF SessionNow, Fits
  <2> HIDE DEF iss
  <2> QED BY <2>1, Numbers, SizeTypes
<1>6. "tcb" \in DOMAIN w0 /\ "map" \in DOMAIN w0
  BY DEF w0
<1> HIDE DEF iss, pkt, v, w0
<1>7. WindowOK(t, iss) /\ t \in Tcb /\ t.state = "SYN_RECVD"
  BY <1>2, <1>5, NewWindowOK, NewTcbFacts
<1> HIDE DEF t
<1>8. w.tcb = t /\ HasTcb(w)
  BY <1>6, <1>7 DEF HasTcb, Tcb, SendFields
<1>9. CASE v = GiveUp(w)
  <2> DEFINE x == Emit(w, {"RST", "ACK"}, <<>>)
             a == RemoveEvent(RemoveEvent(x, x.tcb.e_tcb_send), x.tcb.e_timeout)
             d == [a EXCEPT !.tcb = NULL]
  <2> HIDE DEF w
  <2>1. GiveUp(w) = kill_map(d)
    BY <1>7, <1>8 DEF GiveUp, tcp_close, Discard
  <2>2. "tcb" \in DOMAIN x
    BY <1>8 DEF HasTcb, Emit
  <2> HIDE DEF x
  <2>3. "tcb" \in DOMAIN a
    BY <2>2, TcbStays DEF KeepsTcb
  <2> HIDE DEF a
  <2>4. "tcb" \in DOMAIN d /\ d.tcb = NULL
    BY <2>3
  <2> HIDE DEF d
  <2>5. kill_map(d).tcb = NULL
    BY <2>4, TcbStays DEF KeepsTcb
  <2>6. tcb' = NULL
    BY <1>1, <1>9, <2>1, <2>5
  <2> QED BY <2>6 DEF OutOK
<1>10. CASE v \in {i, mark_for_if_write(w)}
  <2> DEFINE j == [w EXCEPT !.map.e_fd_write = "handle_fd_did_connect"]
  <2> HIDE DEF w
  <2>1. SameBut({"e_tcb_send"}, w, mark_for_if_write(w))
    BY MarkSame
  <2>2. SameBut({"e_tcb_send"}, w, j)
    BY DEF SameBut, HasTcb
  <2>3. SameBut({}, j, i)
    <3> HIDE DEF j
    <3> QED BY RelaySame DEF j
  <2>4. SameBut({"e_tcb_send"} \cup {}, w, i)
    <3> HIDE DEF j, i
    <3> QED BY <2>2, <2>3, SameButTrans
  <2>5. SameBut({"e_tcb_send"}, w, v)
    <3> HIDE DEF i
    <3>1. SameBut({"e_tcb_send"}, w, i)
      BY <2>4 DEF SameBut
    <3> QED BY <1>10, <2>1, <3>1
  <2>6. WindowOK(v.tcb, iss)
    <3>1. {"snd_una", "snd_wnd", "snd_max"} \cap {"e_tcb_send"} = {}
      OBVIOUS
    <3>2. WindowOK(w.tcb, iss)
      BY <1>7, <1>8
    <3> QED BY <1>8, <2>5, <3>1, <3>2, MarkedOutput
  <2>7. v.tcb # NULL => v.tcb.snd_nxt = iss
    BY <1>3 DEF NewSession
  <2>8. OutOK(v.tcb, iss)
    BY <2>6, <2>7 DEF OutOK, Scheduled
  <2> QED BY <1>1, <2>8 DEF iss
<1> QED BY <1>4, <1>9, <1>10

\* An acknowledgement opens no window and leaves nothing unsent that was sent.
LEMMA AckedOutput ==
  ASSUME NEW w, NEW v, NEW iss, NEW sent, HasTcb(w), w.tcb # NULL, v.tcb # NULL,
         SessionNow(w.tcb, iss, sent), SessionNow(v.tcb, iss, sent), OutOK(w.tcb, iss),
         iss < w.tcb.snd_nxt, SameBut({"snd_una", "snd_nxt", "outbuf", "state"}, w, v),
         w.tcb.snd_una <= v.tcb.snd_una, w.tcb.snd_nxt <= v.tcb.snd_nxt,
         w.tcb.state \in Ended <=> v.tcb.state \in Ended
  PROVE  OutOK(v.tcb, iss)
<1> DEFINE t == w.tcb
           u == v.tcb
<1>1. /\ HasTcb(v) /\ u.snd_wnd = t.snd_wnd /\ u.snd_max = t.snd_max
      /\ u.last_acked = t.last_acked /\ u.rcv_nxt = t.rcv_nxt /\ u.e_tcb_send = t.e_tcb_send
  BY FieldsSame
<1>2. /\ t \in Tcb /\ u \in Tcb /\ Fits(iss, sent)
      /\ SendNumbers(t, iss, sent) /\ SendNumbers(u, iss, sent)
      /\ Scheduled(t, iss) /\ WindowOK(t, iss)
  BY DEF SessionNow, SessionOK, OutOK
<1>3. WindowOK(u, iss) /\ (window_size(t) <= 0 => window_size(u) <= 0)
  BY <1>1, <1>2, ClosedStays
<1>4. /\ t.snd_nxt \in Int /\ iss \in Int /\ u.snd_nxt \in Int /\ u.snd_nxt <= SendLimit(u)
      /\ SendLimit(u) \in Int
      /\ SendLimit(t) = iss + 1 + sent + (IF t.state \in Ended THEN 1 ELSE 0)
      /\ SendLimit(u) = iss + 1 + sent + (IF u.state \in Ended THEN 1 ELSE 0)
  BY <1>2, SendSide
<1>5. SendLimit(u) = SendLimit(t) /\ t.snd_nxt # iss
  BY <1>4
<1>6. t.snd_nxt = SendLimit(t) => u.snd_nxt = SendLimit(u)
  BY <1>4, <1>5
<1>7. Drained(t) => Drained(u)
  BY <1>3, <1>6 DEF Drained
<1>8. Scheduled(u, iss)
  BY <1>1, <1>2, <1>5, <1>7 DEF Scheduled
<1> QED BY <1>3, <1>8 DEF OutOK

\* The session after the acknowledgement of a segment.
LEMMA SegmentOutput ==
  ASSUME IInv, NoWrap, OutOK(tcb, Iss), SessionNow(tcb, Iss, s_sent),
         Turn("handle_tcp"), OfSession, Acks(pkt)
  PROVE  /\ HasTcb(ws) /\ OutOK(ws.tcb, Iss)
         /\ tcb.state # "SYN_RECVD" => HasTcb(wa) /\ OutOK(wa.tcb, Iss)
<1>1. /\ tcb # NULL /\ tcb \in Tcb /\ w0.tcb = tcb /\ w0 \in World /\ pkt \in Packet
  BY SegmentBegins, HandleBegins
<1>2. HasTcb(w0)
  BY <1>1, TcbHasFields
<1>3. "ACK" \in pkt.flags /\ (tcb.state = "SYN_RECVD" => tcb.snd_nxt = Iss + 1)
  <2>1. \/ Syn(pkt) /\ ~Acks(pkt)
        \/ "ACK" \in pkt.flags /\ (InSynRecvd(w0) => tcb.snd_nxt = Iss + 1)
    BY SegmentBegins
  <2> QED BY <1>1, <2>1 DEF InSynRecvd
<1>4. /\ DaemonOK(ws, Iss, s_sent, Again) /\ ws.tcb # NULL /\ ws.tcb \in Tcb
      /\ AfterAck(tcb.state, ws.tcb.state)
  BY SettledSegment
<1>5. tcb.state # "SYN_RECVD" =>
        /\ DaemonOK(wa, Iss, s_sent, Again) /\ wa.tcb # NULL /\ wa.tcb \in Tcb
        /\ wa.tcb.state = tcb.state
  BY AckedSegment
<1>6. /\ SameBut({"snd_una", "snd_nxt", "outbuf"}, w0, wa)
      /\ wa.tcb.snd_una = IF pkt.ack > tcb.snd_una THEN pkt.ack ELSE tcb.snd_una
      /\ wa.tcb.snd_nxt = IF pkt.ack > tcb.snd_una /\ pkt.ack > tcb.snd_nxt
                            THEN pkt.ack ELSE tcb.snd_nxt
  BY <1>1, <1>2, <1>3, AckedSame DEF wa
<1> HIDE DEF w0, Iss
<1>7. HasTcb(wa)
  BY <1>2, <1>6 DEF SameBut
<1>8. SameBut({"state"}, wa, ws)
  <2> HIDE DEF wa, pkt
  <2> QED BY <1>7, SettledSame DEF ws
<1> HIDE DEF wa, ws
<1>9. HasTcb(ws) /\ ws.tcb.snd_una = wa.tcb.snd_una /\ ws.tcb.snd_nxt = wa.tcb.snd_nxt
  BY <1>7, <1>8, FieldsSame
<1>10. Fits(Iss, s_sent) /\ SendNumbers(tcb, Iss, s_sent)
  BY <1>1 DEF SessionNow, SessionOK
<1>11. tcb.snd_una \in Int /\ tcb.snd_nxt \in Int /\ Iss \in Int /\ Iss < tcb.snd_nxt
  <2>1. /\ tcb.snd_una \in Int /\ tcb.snd_nxt \in Int /\ Iss \in Int
        /\ tcb.state # "SYN_RECVD" => Iss + 1 <= tcb.snd_nxt
    BY <1>1, <1>10, SendSide
  <2> QED BY <1>3, <2>1
<1>12. tcb.snd_una <= wa.tcb.snd_una /\ tcb.snd_nxt <= wa.tcb.snd_nxt
  <2>1. pkt.ack \in uint
    BY <1>1 DEF Packet
  <2>2. pkt.ack \in Int
    BY <2>1, UintIsInt
  <2> QED BY <1>6, <1>11, <2>2
<1>13. SessionNow(ws.tcb, Iss, s_sent)
  BY <1>4, <1>10 DEF SessionNow, DaemonOK
<1> DEFINE X == {"snd_una", "snd_nxt", "outbuf", "state"}
<1>14. SameBut(X, w0, ws) /\ SameBut(X, w0, wa)
  <2>1. SameBut({"snd_una", "snd_nxt", "outbuf"} \cup {"state"}, w0, ws)
    BY <1>6, <1>8, SameButTrans
  <2> QED BY <1>6, <2>1 DEF SameBut
<1> HIDE DEF X
<1>15. OutOK(ws.tcb, Iss)
  <2>1. tcb.state \in Ended <=> ws.tcb.state \in Ended
    BY <1>4 DEF AfterAck, Ended
  <2> QED BY <1>1, <1>2, <1>4, <1>9, <1>11, <1>12, <1>13, <1>14, <2>1, AckedOutput DEF X
<1>16. ASSUME tcb.state # "SYN_RECVD" PROVE OutOK(wa.tcb, Iss)
  <2>1. SessionNow(wa.tcb, Iss, s_sent) /\ wa.tcb # NULL /\ wa.tcb.state = tcb.state
    BY <1>5, <1>10, <1>16 DEF SessionNow, DaemonOK
  <2> QED BY <1>1, <1>2, <1>11, <1>12, <1>14, <2>1, AckedOutput DEF X
<1> QED BY <1>7, <1>9, <1>15, <1>16

\* The client's new window, and what the segment brings.
LEMMA WindowOutput ==
  ASSUME NEW w, NEW p \in Packet, p.wnd <= ClientWnd, NEW iss \in Nat, NEW sent \in Nat,
         DaemonOK(w, iss, sent, Again), w.tcb # NULL, w.tcb.state # "SYN_RECVD",
         Fits(iss, sent), OutOK(w.tcb, iss)
  PROVE  OutOK(Receive(NewWindow(w, p), p).tcb, iss)
<1> DEFINE z == NewWindow(w, p)
           v == Receive(z, p)
           t == w.tcb
           u == z.tcb
<1>1. w \in World /\ t \in Tcb /\ SendNumbers(t, iss, sent) /\ Scheduled(t, iss) /\ HasTcb(w)
  BY TcbHasFields DEF DaemonOK, World, SessionOK, OutOK
<1>2. /\ SameBut({"snd_wnd", "snd_max", "e_tcb_send"}, w, z)
      /\ u.snd_wnd = p.wnd
      /\ \E cwnd \in 0..p.wnd : u.snd_max = SeqAdd(t.snd_una, cwnd)
      /\ \/ Marked(z)
         \/ /\ u.e_tcb_send = t.e_tcb_send
            /\ window_size(t) <= 0 => ~(window_size(u) > 0)
  BY <1>1, NewWindowSame
<1>3. DaemonOK(z, iss, sent, Again) /\ u # NULL /\ u \in Tcb
  BY NewWindowKeeps
<1> HIDE DEF z
<1>4. /\ HasTcb(z) /\ u.snd_una = t.snd_una /\ u.snd_nxt = t.snd_nxt /\ u.last_acked = t.last_acked
      /\ u.rcv_nxt = t.rcv_nxt /\ u.state = t.state /\ u.outbuf = t.outbuf
  BY <1>1, <1>2, FieldsSame
<1>5. iss <= u.snd_una
  BY <1>1, <1>4, SendSide
<1>6. WindowOK(u, iss)
  <2>1. PICK cwnd \in 0..p.wnd : u.snd_max = SeqAdd(u.snd_una, cwnd)
    BY <1>2, <1>4
  <2>2. p.wnd \in Nat
    <3>1. p.wnd \in uint
      BY DEF Packet
    <3>2. p.wnd \in Int /\ 0 <= p.wnd
      BY <3>1, UintIsInt
    <3> QED BY <3>2
  <2> QED BY <1>2, <1>3, <1>5, <2>1, <2>2, OpenedOK
<1>7. Scheduled(u, iss)
  <2>1. CASE Marked(z)
    BY <1>4, <2>1 DEF Marked, Scheduled
  <2>2. CASE u.e_tcb_send = t.e_tcb_send /\ (window_size(t) <= 0 => ~(window_size(u) > 0))
    <3>1. window_size(u) \in Int
      BY <1>3, WindowIsInt
    <3>2. SendLimit(u) = SendLimit(t)
      BY <1>4 DEF SendLimit
    <3>3. Drained(t) => Drained(u)
      BY <1>4, <2>2, <3>1, <3>2 DEF Drained
    <3> QED BY <1>1, <1>4, <2>2, <3>3 DEF Scheduled
  <2> QED BY <1>2, <2>1, <2>2
<1>8. SameBut({"rcv_nxt", "state", "e_tcb_send"}, z, v) /\ (Marked(v) \/ v = z)
  BY <1>4, ReceiveSame
<1> HIDE DEF v
<1>9. WindowOK(v.tcb, iss) /\ (Marked(v) => OutOK(v.tcb, iss))
  <2>1. {"snd_una", "snd_wnd", "snd_max"} \cap {"rcv_nxt", "state", "e_tcb_send"} = {}
    OBVIOUS
  <2> QED BY <1>4, <1>6, <1>8, <2>1, MarkedOutput
<1>10. OutOK(v.tcb, iss)
  BY <1>6, <1>7, <1>8, <1>9 DEF OutOK
<1> QED BY <1>10 DEF v, z

\* handle_tcp, apart from a SYN that opens a session.
LEMMA HandleOutput ==
  ASSUME IInv, NoWrap, OutInv, SessionNow(tcb, Iss, s_sent), SessionNow(tcb', Iss, s_sent'),
         Turn("handle_tcp"),
         \/ handle_tcp_stray \/ handle_tcp_rst \/ handle_tcp_last_ack \/ handle_tcp_closing
         \/ handle_tcp_old \/ handle_tcp_segment
  PROVE  OutOK(tcb', Iss)
<1>1. /\ pkt \in Packet /\ pkt.wnd <= ClientWnd /\ FromClient(pkt)
      /\ "tcb" \in DOMAIN w0 /\ w0.tcb = tcb /\ OutOK(tcb, Iss)
      /\ Iss \in Nat /\ s_sent \in Nat
  <2>1. pkt \in Packet /\ pkt \in Packets(to_relay) /\ FromClient(pkt) /\ Iss \in Nat /\ s_sent \in Nat
    BY HandleBegins
  <2>2. "tcb" \in DOMAIN w0 /\ w0.tcb = tcb
    BY DEF w0
  <2> QED BY <2>1, <2>2 DEF OutInv, Announced
<1>2. ASSUME NEW x, "tcb" \in DOMAIN x, tcb' = Discard(x).tcb
      PROVE  OutOK(tcb', Iss)
  <2> DEFINE a == RemoveEvent(RemoveEvent(x, x.tcb.e_tcb_send), x.tcb.e_timeout)
  <2>1. tcb' = [a EXCEPT !.tcb = NULL].tcb
    BY <1>2 DEF Discard
  <2>2. "tcb" \in DOMAIN a
    BY <1>2, TcbStays DEF KeepsTcb
  <2> HIDE DEF a
  <2>3. tcb' = NULL
    BY <2>1, <2>2
  <2> QED BY <2>3 DEF OutOK
<1>3. CASE handle_tcp_stray
  <2>1. tcb' = NULL
    BY <1>3 DEF handle_tcp_stray, Handled, Ends, w0
  <2> QED BY <2>1 DEF OutOK
<1>4. CASE handle_tcp_rst
  <2> DEFINE k == IF tcb.cb THEN kill_map(w0) ELSE w0
  <2>1. tcb' = Discard(k).tcb
    BY <1>4 DEF handle_tcp_rst, Handled, Ends
  <2>2. "tcb" \in DOMAIN k
    BY <1>1, TcbStays DEF KeepsTcb
  <2> HIDE DEF k
  <2> QED BY <1>2, <2>1, <2>2
<1>5. ASSUME OfSession, Acks(pkt)
      PROVE  /\ HasTcb(ws) /\ OutOK(ws.tcb, Iss)
             /\ tcb.state # "SYN_RECVD" => HasTcb(wa) /\ OutOK(wa.tcb, Iss)
             /\ DaemonOK(ws, Iss, s_sent, Again) /\ ws.tcb # NULL /\ ws.tcb.state # "SYN_RECVD"
             /\ tcb.state = "SYN_RECVD" => wa.tcb.state = "SYN_RECVD"
             /\ tcb.state # "SYN_RECVD" =>
                  DaemonOK(wa, Iss, s_sent, Again) /\ wa.tcb # NULL /\ wa.tcb.state = tcb.state
  BY <1>1, <1>5, SegmentOutput, SettledSegment, AckedSegment
<1>6. ASSUME OfSession, ~Acks(pkt)
      PROVE  ~Returns /\ ws = w0 /\ w0.tcb.state = "SYN_RECVD" /\ pkt.seq < tcb.rcv_nxt
  <2>1. Syn(pkt) /\ InSynRecvd(w0) /\ tcb.rcv_nxt = Irs + 1 /\ pkt.seq = Irs
    BY <1>6, SegmentBegins
  <2>2. Irs < Irs + 1
    BY Numbers
  <2> QED BY <1>6, <2>1, <2>2, RepeatedSyn DEF InSynRecvd
<1>7. CASE handle_tcp_last_ack
  <2>1. OfSession /\ Returns /\ wa.tcb.state = "LAST_ACK" /\ tcb' = Discard(wa).tcb
    BY <1>7 DEF handle_tcp_last_ack, Handled, Ends
  <2>2. Acks(pkt)
    BY <1>6, <2>1
  <2>3. HasTcb(wa)
    BY <1>5, <2>1, <2>2
  <2> HIDE DEF wa
  <2> QED BY <1>2, <2>1, <2>3 DEF HasTcb
<1>8. CASE handle_tcp_closing
  <2> DEFINE x == TimeWait(wa)
  <2>1. OfSession /\ Returns /\ wa.tcb.state = "CLOSING" /\ tcb' \in {x.tcb, wa.tcb}
    BY <1>8 DEF handle_tcp_closing, Handled, Ends
  <2>2. Acks(pkt)
    BY <1>6, <2>1
  <2>3. HasTcb(wa) /\ OutOK(wa.tcb, Iss) /\ wa.tcb # NULL /\ DaemonOK(wa, Iss, s_sent, Again)
    BY <1>5, <2>1, <2>2
  <2> HIDE DEF wa, Iss
  <2>4. CASE tcb' = x.tcb
    <3>1. SameBut({"state"}, wa, x) /\ x.tcb.state = "TIME_WAIT"
      <4> DEFINE a == [wa EXCEPT !.tcb.state = "TIME_WAIT", !.tcb.e_timeout = "tcp_remove"]
      <4>1. "tcb" \in DOMAIN a /\ a.tcb.state = "TIME_WAIT" /\ x = AddEvent(a, "tcp_remove")
        BY <2>3 DEF HasTcb, SendFields, TimeWait
      <4> HIDE DEF a
      <4>2. x.tcb = a.tcb
        BY <4>1, TcbStays DEF KeepsTcb
      <4> QED BY <4>1, <4>2, TimerSame
    <3> HIDE DEF x
    <3>2. x.tcb.outbuf = wa.tcb.outbuf /\ x.tcb.e_tcb_send = wa.tcb.e_tcb_send
      BY <2>3, <3>1, FieldsSame
    <3>3. SendLimit(x.tcb) = SendLimit(wa.tcb)
      BY <2>1, <3>1, <3>2 DEF SendLimit, Ended
    <3>4. SameBut({"outbuf", "last_acked", "rcv_nxt", "state", "e_tcb_send"}, wa, x)
      BY <3>1 DEF SameBut
    <3>5. SameBut({"outbuf", "state", "e_tcb_send"}, wa, x)
      BY <3>1 DEF SameBut
    <3>6. SessionNow(wa.tcb, Iss, s_sent) /\ SessionNow(x.tcb, Iss, s_sent')
      BY <2>3, <2>4 DEF SessionNow, DaemonOK, World
    <3>7. OutOK(x.tcb, Iss)
      BY <2>3, <3>2, <3>3, <3>4, <3>5, <3>6, QuietOutput
    <3> QED BY <2>4, <3>7
  <2> QED BY <2>1, <2>3, <2>4
<1>9. CASE handle_tcp_old
  <2>1. /\ OfSession
        /\ tcb' = IF ws.tcb.state = "SYN_RECVD" THEN ws.tcb
                  ELSE mark_for_if_write([ws EXCEPT !.tcb.last_acked = SeqAdd(@, -1)]).tcb
    BY <1>9 DEF handle_tcp_old, Handled, Ends
  <2>2. CASE ~Acks(pkt)
    <3>1. tcb' = tcb
      <4>1. ws = w0 /\ w0.tcb.state = "SYN_RECVD"
        BY <1>6, <2>1, <2>2
      <4> HIDE DEF ws, w0
      <4> QED BY <1>1, <2>1, <4>1
    <3> QED BY <1>1, <3>1
  <2>3. CASE Acks(pkt)
    <3> DEFINE x == [ws EXCEPT !.tcb.last_acked = SeqAdd(@, -1)]
               v == mark_for_if_write(x)
    <3>1. HasTcb(ws) /\ OutOK(ws.tcb, Iss) /\ ws.tcb # NULL /\ ws.tcb.state # "SYN_RECVD"
      BY <1>5, <2>1, <2>3
    <3>2. tcb' = v.tcb
      BY <2>1, <3>1
    <3> HIDE DEF ws, Iss
    <3>3. SameBut({"last_acked"}, ws, x) /\ HasTcb(x)
      BY <3>1 DEF SameBut, HasTcb, SendFields
    <3> HIDE DEF x
    <3>4. SameBut({"e_tcb_send"}, x, v) /\ Marked(v)
      BY <3>3, MarkSame
    <3> HIDE DEF v
    <3>5. SameBut({"last_acked"} \cup {"e_tcb_send"}, ws, v)
      BY <3>3, <3>4, SameButTrans
    <3>6. {"snd_una", "snd_wnd", "snd_max"} \cap ({"last_acked"} \cup {"e_tcb_send"}) = {}
      OBVIOUS
    <3>7. WindowOK(ws.tcb, Iss)
      BY <3>1 DEF OutOK
    <3>8. OutOK(v.tcb, Iss)
      BY <3>1, <3>4, <3>5, <3>6, <3>7, MarkedOutput
    <3> QED BY <3>2, <3>8
  <2> QED BY <2>2, <2>3
<1>10. CASE handle_tcp_segment
  <2>1. OfSession /\ pkt.seq >= ws.tcb.rcv_nxt /\ tcb' = Receive(NewWindow(ws, pkt), pkt).tcb
    BY <1>10 DEF handle_tcp_segment, Handled, Ends
  <2>2. Acks(pkt)
    <3> SUFFICES ASSUME ~Acks(pkt) PROVE FALSE
      OBVIOUS
    <3>1. ws.tcb = tcb /\ pkt.seq < tcb.rcv_nxt
      BY <1>1, <1>6, <2>1
    <3>2. pkt.seq >= tcb.rcv_nxt
      BY <2>1, <3>1
    <3>3. pkt.seq \in uint /\ tcb.rcv_nxt \in ClientSeq
      BY <1>1, <2>1, SegmentBegins DEF Packet
    <3>4. pkt.seq \in Int
      BY <3>3, UintIsInt
    <3>5. tcb.rcv_nxt \in Int
      BY <3>3, Numbers DEF ClientSeq
    <3> HIDE DEF pkt
    <3> QED BY <3>1, <3>2, <3>4, <3>5
  <2>3. /\ OutOK(ws.tcb, Iss) /\ DaemonOK(ws, Iss, s_sent, Again) /\ ws.tcb # NULL
        /\ ws.tcb.state # "SYN_RECVD"
    BY <1>5, <2>1, <2>2
  <2>4. Fits(Iss, s_sent)
    BY DEF SessionNow
  <2> HIDE DEF ws, Iss, pkt
  <2>5. OutOK(Receive(NewWindow(ws, pkt), pkt).tcb, Iss)
    BY <1>1, <2>3, <2>4, WindowOutput
  <2> QED BY <2>1, <2>5
<1> QED BY <1>3, <1>4, <1>7, <1>8, <1>9, <1>10

\* The windows of the packets in front of and in p are those the client announced.
LEMMA AnnouncedMore ==
  ASSUME NEW q \in Seq(Packet), Announced(q), NEW p, p.wnd <= ClientWnd
  PROVE  Announced(q \o <<p>>) /\ Announced(q \o <<>>) /\ Announced(Append(q, p))
<1> DEFINE S == Packet \cup {p}
<1>1. q \in Seq(S) /\ <<p>> \in Seq(S) /\ Len(<<p>>) = 1 /\ <<p>>[1] = p
  OBVIOUS
<1>2. /\ Len(q \o <<p>>) = Len(q) + 1
      /\ \A i \in 1..(Len(q) + 1) : (q \o <<p>>)[i] = IF i <= Len(q) THEN q[i] ELSE <<p>>[i - Len(q)]
  BY <1>1, ConcatProperties
<1>3. Len(q) \in Nat
  OBVIOUS
<1>4. ASSUME NEW i \in 1..Len(q \o <<p>>) PROVE (q \o <<p>>)[i] \in Packets(q) \cup {p}
  <2>1. CASE i <= Len(q)
    BY <1>2, <1>3, <2>1 DEF Packets
  <2>2. CASE ~(i <= Len(q))
    <3>1. i - Len(q) = 1
      BY <1>2, <1>3, <2>2
    <3> QED BY <1>1, <1>2, <2>2, <3>1
  <2> QED BY <2>1, <2>2
<1>5. Announced(q \o <<p>>)
  BY <1>4 DEF Announced, Packets
<1>6. q \o <<>> = q /\ Append(q, p) = q \o <<p>>
  OBVIOUS
<1> QED BY <1>5, <1>6

\* The room in the client's buffer.
LEMMA FreeFits ==
  ASSUME NEW c \in ClientState, ClientOK(c)
  PROVE  ClientFree(c) <= ClientWnd
<1>1. c.got \in Seq(Byte) /\ c.read \in Nat
  BY DEF ClientState
<1>2. Len(c.got) - c.read \in 0..ClientWnd
  BY DEF ClientOK
<1>3. ClientWnd \in Nat
  BY Numbers
<1> QED BY <1>1, <1>2, <1>3 DEF ClientFree

\* The client announces no more than its buffer.
LEMMA ClientAnnounces ==
  ASSUME IInv, IInv', Announced(to_relay), Client
  PROVE  Announced(to_relay')
<1>1. /\ client \in ClientState /\ ClientOK(client) /\ to_relay \in Seq(Packet)
      /\ client' \in ClientState /\ ClientOK(client')
  BY DEF IInv, ProgramTypeOK
<1>2. ClientFree(client) <= ClientWnd /\ ClientFree(client') <= ClientWnd /\ ClientWnd <= ClientWnd
  BY <1>1, FreeFits, Numbers
<1>3. ASSUME NEW p, p.wnd <= ClientWnd, to_relay' \in {to_relay \o <<p>>, to_relay \o <<>>}
      PROVE  Announced(to_relay')
  BY <1>1, <1>3, AnnouncedMore
<1>4. ASSUME NEW c, NEW flags, NEW seq, NEW data, ClientFree(c) <= ClientWnd,
             \/ to_relay' = to_relay \o <<ClientPacket(c, flags, seq, data)>>
             \/ to_relay' = to_relay \o <<>>
      PROVE  Announced(to_relay')
  <2> DEFINE p == ClientPacket(c, flags, seq, data)
  <2>1. p.wnd <= ClientWnd
    BY <1>4 DEF ClientPacket
  <2> HIDE DEF p
  <2> QED BY <1>3, <1>4, <2>1 DEF p
<1>5. CASE ClientSyn
  <2> DEFINE p == [flags |-> {"SYN"}, seq |-> Irs, ack |-> 0, wnd |-> ClientWnd, data |-> <<>>]
  <2>1. to_relay' = to_relay \o <<p>>
    BY <1>5 DEF ClientSyn, ClientActs
  <2>2. p.wnd <= ClientWnd
    BY <1>2
  <2> HIDE DEF p
  <2> QED BY <1>3, <2>1, <2>2
<1>6. ASSUME NEW n, NEW fin, ClientSend(n, fin) PROVE Announced(to_relay')
  <2>1. \E flags, data : to_relay' = to_relay \o <<ClientPacket(client, flags, client.nxt, data)>>
    BY <1>6 DEF ClientSend, ClientActs
  <2> QED BY <1>2, <1>4, <2>1
<1>7. CASE ClientRead
  <2>1. to_relay' = to_relay \o <<ClientPacket(client', {"ACK"}, client.nxt, <<>>)>>
    BY <1>7 DEF ClientRead, ClientActs
  <2> QED BY <1>2, <1>4, <2>1
<1>8. CASE ClientRexmit \/ ClientAbort
  <2>1. \/ to_relay' = to_relay \o <<>>
        \/ to_relay' = to_relay \o <<ClientPacket(client, {"RST", "ACK"}, client.nxt, <<>>)>>
    BY <1>8 DEF ClientRexmit, ClientAbort, ClientActs
  <2> QED BY <1>2, <1>4, <2>1
<1>9. CASE ClientReceive
  <2> DEFINE p == Head(to_client)
             opened == [client EXCEPT !.st = "open", !.rcv = SeqAdd(p.seq, 1), !.una = p.ack,
                                      !.edge = SeqAdd(p.ack, p.wnd)]
  <2>1. \/ to_relay' = to_relay \o <<>>
        \/ to_relay' = to_relay \o <<ClientPacket(client, {"RST"}, p.ack, <<>>)>>
        \/ to_relay' = to_relay \o <<ClientPacket(client', {"ACK"}, client'.nxt, <<>>)>>
    BY <1>9 DEF ClientReceive, ClientActs
  <2> QED BY <1>2, <1>4, <2>1
<1> QED BY <1>5, <1>6, <1>7, <1>8, <1>9 DEF Client, ClientGoesOn, ClientCloses

\* No step puts a larger window in front of the daemon.
LEMMA AnnouncedStep ==
  ASSUME IInv, IInv', Announced(to_relay), [Next]_vars
  PROVE  Announced(to_relay')
<1>1. to_relay \in Seq(Packet)
  BY DEF IInv, ProgramTypeOK
<1>2. CASE SocketCallback \/ tcp_timeout \/ tcp_remove \/ do_tcb_write
  <2>1. to_relay' = to_relay
    BY <1>2 DEF SocketCallback, handle_fd_can_read, handle_fd_can_write, handle_fd_can_read_end,
       handle_fd_can_read_again, handle_fd_can_write_end, handle_fd_can_write_again,
       handle_fd_did_connect, dangling_callback, tcp_timeout, tcp_remove, do_tcb_write
  <2> QED BY <2>1
<1>3. CASE handle_tcp
  <2>1. Turn("handle_tcp") /\ to_relay' = Tail(to_relay)
    BY <1>3 DEF handle_tcp, handle_tcp_syn, handle_tcp_stray, handle_tcp_rst, handle_tcp_last_ack,
       handle_tcp_closing, handle_tcp_old, handle_tcp_segment, Handled
  <2>2. Packets(Tail(to_relay)) \subseteq Packets(to_relay)
    BY <2>1, HandleBegins
  <2> QED BY <2>1, <2>2 DEF Announced
<1>4. CASE Client
  BY <1>4, ClientAnnounces
<1>5. CASE LoseToRelay \/ DupToRelay
  <2>1. /\ to_relay # <<>>
        /\ to_relay' = Tail(to_relay) \/ to_relay' = Append(to_relay, pkt)
    BY <1>5 DEF LoseToRelay, DupToRelay
  <2>2. pkt \in Packets(to_relay) /\ Packets(Tail(to_relay)) \subseteq Packets(to_relay)
    BY <1>1, <2>1, PacketsTail DEF pkt
  <2>3. pkt.wnd <= ClientWnd /\ Announced(Tail(to_relay))
    BY <2>2 DEF Announced
  <2>4. Announced(Append(to_relay, pkt))
    BY <1>1, <2>3, AnnouncedMore
  <2> QED BY <2>1, <2>3, <2>4
<1>6. CASE \/ LoseToClient \/ Waits \/ UNCHANGED vars
           \/ \E ready \in SUBSET (FdEvent \cup {"handle_tcp"}) : SelectFds(ready)
           \/ \E e \in Timer : SelectTimer(e)
  <2>1. to_relay' = to_relay
    BY <1>6 DEF LoseToClient, Waits, SelectFds, SelectTimer, vars
  <2> QED BY <2>1
<1> QED BY <1>2, <1>3, <1>4, <1>5, <1>6 DEF Next, Callback, Network

\* What the invariant of the relay says of the session, before and after a step.
LEMMA SessionIsNow ==
  ASSUME WindowFits, IInv, NoWrap
  PROVE  SessionNow(tcb, Iss, s_sent)
<1>1. /\ isn \in Nat /\ s_sent \in 0..ServerLen /\ (tcb # NULL => tcb \in Tcb)
      /\ DaemonOK(w0, Iss, s_sent, Again) /\ w0.tcb = tcb
  BY DEF IInv, ProgramTypeOK, w0
<1>2. 2 * (ServerLen + 2) < SeqMod /\ Iss + ServerLen + 2 < SeqMod
  BY DEF NoWrap
<1>3. Iss \in Nat
  BY <1>1, IssIsNat
<1> HIDE DEF Iss, w0
<1>4. s_sent \in Nat /\ s_sent <= ServerLen
  BY <1>1, Numbers
<1>5. tcb # NULL => SessionOK(tcb, Iss, s_sent)
  BY <1>1 DEF DaemonOK
<1>6. Fits(Iss, s_sent)
  BY <1>2, <1>3, <1>4 DEF Fits
<1> QED BY <1>1, <1>5, <1>6 DEF SessionNow

LEMMA SessionIsNext ==
  ASSUME WindowFits, IInv', NoWrap'
  PROVE  SessionNow(tcb', Iss', s_sent')
<1>1. /\ isn' \in Nat /\ s_sent' \in 0..ServerLen /\ (tcb' # NULL => tcb' \in Tcb)
      /\ DaemonOK(w0', Iss', s_sent', Again) /\ w0'.tcb = tcb'
  BY DEF IInv, ProgramTypeOK, w0, Again
<1>2. 2 * (ServerLen + 2) < SeqMod /\ Iss' + ServerLen + 2 < SeqMod
  BY DEF NoWrap
<1>3. Iss' \in Nat
  <2> DEFINE k == isn' * IssStep
  <2>1. IssStep \in uint
    BY RelayAssumption
  <2>2. IssStep \in Int
    BY <2>1, UintIsInt
  <2>3. k \in Int
    BY <1>1, <2>2
  <2> HIDE DEF k
  <2>4. k % SeqMod \in Nat
    BY <2>3, SeqModAssumption
  <2> QED BY <2>4 DEF Iss, k
<1> DEFINE iss == Iss'
           w == w0'
           t == tcb'
           sent == s_sent'
<1> HIDE DEF iss, w, t, sent
<1>4. sent \in Nat /\ sent <= ServerLen
  BY <1>1, Numbers DEF sent
<1>5. t # NULL => SessionOK(t, iss, sent)
  BY <1>1 DEF DaemonOK, t, iss, sent
<1>6. Fits(iss, sent)
  BY <1>2, <1>3, <1>4 DEF Fits, iss
<1>7. SessionNow(t, iss, sent)
  BY <1>1, <1>5, <1>6 DEF SessionNow, t
<1> QED BY <1>7 DEF t, iss, sent

\* Every step keeps what is to be sent scheduled.
LEMMA OutStep ==
  ASSUME WindowFits, IInv, IInv', NoWrap, NoWrap', OutInv, [Next]_vars
  PROVE  OutInv'
<1>1. /\ OutOK(tcb, Iss) /\ Announced(to_relay)
      /\ SessionNow(tcb, Iss, s_sent) /\ SessionNow(tcb', Iss', s_sent')
  BY SessionIsNow, SessionIsNext DEF OutInv
<1>2. isn' = isn => Iss' = Iss
  BY DEF Iss
<1>3. ASSUME SocketCallback PROVE OutOK(tcb', Iss')
  <2>1. isn' = isn
    BY <1>3 DEF SocketCallback, handle_fd_can_read, handle_fd_can_write, handle_fd_can_read_end,
       handle_fd_can_read_again, handle_fd_can_write_end, handle_fd_can_write_again,
       handle_fd_did_connect, dangling_callback, relay
  <2>2. SessionNow(tcb', Iss, s_sent')
    BY <1>1, <1>2, <2>1
  <2>3. OutOK(tcb', Iss)
    BY <1>1, <1>3, <2>2, SocketOutput
  <2> QED BY <1>2, <2>1, <2>3
<1>4. ASSUME tcp_timeout \/ tcp_remove \/ do_tcb_write PROVE OutOK(tcb', Iss')
  <2>1. isn' = isn
    BY <1>4 DEF tcp_timeout, tcp_remove, do_tcb_write
  <2>2. SessionNow(tcb', Iss, s_sent')
    BY <1>1, <1>2, <2>1
  <2>3. OutOK(tcb', Iss)
    BY <1>1, <1>4, <2>2, TimeoutOutput, RemoveOutput, WriteOutput
  <2> QED BY <1>2, <2>1, <2>3
<1>5. ASSUME handle_tcp PROVE OutOK(tcb', Iss')
  <2>1. Turn("handle_tcp")
    BY <1>5 DEF handle_tcp
  <2>2. ASSUME NEW connect \in {"ok", "refused", "in_progress"}, handle_tcp_syn(connect)
        PROVE  OutOK(tcb', Iss')
    BY <1>1, <2>1, <2>2, SynOutput
  <2>3. ASSUME \/ handle_tcp_stray \/ handle_tcp_rst \/ handle_tcp_last_ack \/ handle_tcp_closing
               \/ handle_tcp_old \/ handle_tcp_segment
        PROVE  OutOK(tcb', Iss')
    <3>1. isn' = isn
      BY <2>3 DEF handle_tcp_stray, handle_tcp_rst, handle_tcp_last_ack, handle_tcp_closing,
         handle_tcp_old, handle_tcp_segment
    <3>2. SessionNow(tcb', Iss, s_sent')
      BY <1>1, <1>2, <3>1
    <3>3. OutOK(tcb', Iss)
      BY <1>1, <2>1, <2>3, <3>2, HandleOutput
    <3> QED BY <1>2, <3>1, <3>3
  <2> QED BY <1>5, <2>2, <2>3 DEF handle_tcp
<1>6. ASSUME \/ Client \/ Network \/ Waits \/ UNCHANGED vars
             \/ \E ready \in SUBSET (FdEvent \cup {"handle_tcp"}) : SelectFds(ready)
             \/ \E e \in Timer : SelectTimer(e)
      PROVE  OutOK(tcb', Iss')
  <2>1. tcb' = tcb /\ isn' = isn
    BY <1>6 DEF Client, ClientGoesOn, ClientCloses, ClientSyn, ClientReceive, ClientRead, ClientSend,
       ClientRexmit, ClientAbort, ClientActs, Network, LoseToClient, LoseToRelay, DupToRelay,
       Waits, SelectFds, SelectTimer, vars, relay
  <2> QED BY <1>1, <1>2, <2>1
<1>7. OutOK(tcb', Iss')
  BY <1>3, <1>4, <1>5, <1>6 DEF Next, Callback
<1>8. Announced(to_relay')
  BY <1>1, AnnouncedStep
<1> QED BY <1>7, <1>8 DEF OutInv, OutOK, Announced, Scheduled, WindowOK, EndsAt, Drained, SendLimit,
            Packets

\* No session, no packet.
LEMMA OutInit == Init => OutInv
BY DEF Init, OutInv, OutOK, Announced, Packets

\* Whatever tcp_send_and_ack would send now, data, a FIN or an acknowledgement, is
\* scheduled, although its callers decide one by one whether to call
\* mark_for_if_write, and do_tcb_write lets go of its event by a test of its own.
THEOREM OutputScheduledAlways ==
  ASSUME WindowFits
  PROVE  Spec /\ []NoWrap => []OutputScheduled
<1>1. IInv /\ IInv' /\ NoWrap /\ NoWrap' /\ OutInv /\ [Next]_vars => OutInv'
  BY OutStep
<1>2. ASSUME IInv, NoWrap, OutInv PROVE OutputScheduled
  <2> SUFFICES ASSUME tcb # NULL, tcb.state # "SYN_RECVD", tcb.e_tcb_send = NULL
               PROVE  NothingToSend(tcb)
    BY DEF OutputScheduled
  <2>1. /\ tcb \in Tcb /\ Fits(Iss, s_sent) /\ SessionOK(tcb, Iss, s_sent)
        /\ Scheduled(tcb, Iss)
    BY <1>2, SessionIsNow DEF SessionNow, OutInv, OutOK
  <2>2. tcb.snd_nxt \in Int /\ Iss < tcb.snd_nxt
    BY <2>1, LeftToSend
  <2>3. Iss \in Int
    BY <2>1 DEF Fits
  <2>4. tcb.snd_nxt # Iss
    BY <2>2, <2>3
  <2>5. tcb.last_acked >= tcb.rcv_nxt /\ Drained(tcb)
    BY <2>1, <2>4 DEF Scheduled
  <2> QED BY <2>1, <2>5, NothingIfDrained
<1>3. IInv /\ NoWrap /\ OutInv => OutputScheduled
  BY <1>2
<1> QED BY InvAlways, OutInit, <1>1, <1>3, PTL DEF Spec
-----------------------------------------------------------------------------
(* The client's stream on its way to the IPv4 peer. *)

\* The session has its application, and what comes from the client is kept.
Live(t) == t # NULL /\ t.state \in {"SYN_RECVD", "ESTABLISHED"}

\* The bytes of a packet are those of the stream at its number.
DataPlaced(q) ==
    \A p \in Packets(q) :
      p.data # <<>> => Acks(p) /\ \A i \in 1..Len(p.data) : p.data[i] = p.seq - Irs - 1 + i

\* What was acknowledged was written or is in inbuf.
Held(t, got) == got \o t.inbuf.kept = Upto(t.rcv_nxt - (Irs + 1))

\* Number s is acknowledged, or is once the packets before the i-th are taken.
Reached(r, q, s, i) ==
    s <= r \/ \E j \in 1..(i - 1) : q[j].data # <<>> /\ s <= q[j].seq + Len(q[j].data)

InOrder(r, q) == \A i \in 1..Len(q) : q[i].data # <<>> => Reached(r, q, q[i].seq, i)

Follows(r, q, c) ==
    c.st = "open" =>
      c.una <= r /\ (c.nxt <= Irs + ClientLen => Reached(r, q, c.nxt, Len(q) + 1))

Limit(t) == Offered(t) + BufSize

Answers(r, e, out) ==
    \A p \in Packets(out) : "RST" \notin p.flags => p.ack <= r /\ p.ack + p.wnd <= e

Within(e, q) == \A p \in Packets(q) : p.data # <<>> => p.seq + Len(p.data) <= e

EdgeAt(e, c) == c.st = "open" => \E m \in (Irs + 1)..e : c.edge = m % SeqMod

Flows(r, e, q, out, c) ==
    /\ InOrder(r, q) /\ Within(e, q)
    /\ Follows(r, q, c) /\ EdgeAt(e, c)
    /\ c.st # "reset" => Answers(r, e, out)

UploadOK(t, got, q, out, c) ==
    /\ got = Upto(Len(got)) /\ DataPlaced(q)
    /\ c.st = "syn_sent" => c.nxt = Irs + 1
    /\ Live(t) => Held(t, got) /\ Flows(t.rcv_nxt, Limit(t), q, out, c)

UploadInv == UploadOK(tcb, s_got, to_relay, to_client, client)
-----------------------------------------------------------------------------
(* The packets under way. *)

\* The numbers of a packet.
LEMMA PacketNumbers ==
  ASSUME NEW p \in Packet
  PROVE  /\ p.seq \in Int /\ p.ack \in Int /\ p.wnd \in Int /\ p.seq >= 0 /\ p.wnd >= 0
         /\ p.data \in Seq(Byte) /\ Len(p.data) \in Nat
         /\ (p.data # <<>> <=> Len(p.data) > 0)
<1>1. p.seq \in uint /\ p.ack \in uint /\ p.wnd \in uint /\ p.data \in Seq(Byte)
  BY DEF Packet
<1>2. p.seq \in Int /\ p.ack \in Int /\ p.wnd \in Int /\ p.seq >= 0 /\ p.wnd >= 0
  BY <1>1, UintIsInt
<1>3. Len(p.data) \in Nat /\ (p.data # <<>> <=> Len(p.data) > 0)
  BY <1>1
<1> QED BY <1>1, <1>2, <1>3

\* The members of a queue.
LEMMA QueueFacts ==
  ASSUME NEW q \in Seq(Packet)
  PROVE  /\ Len(q) \in Nat /\ Packets(q) \subseteq Packet
         /\ \A i \in 1..Len(q) : q[i] \in Packet /\ q[i] \in Packets(q)
         /\ q # <<>> => /\ Tail(q) \in Seq(Packet) /\ Len(Tail(q)) = Len(q) - 1 /\ Len(q) > 0
                        /\ \A i \in 1..Len(Tail(q)) : Tail(q)[i] = q[i + 1]
                        /\ Head(q) = q[1] /\ Head(q) \in Packet
<1>1. Len(q) \in Nat /\ \A i \in 1..Len(q) : q[i] \in Packet
  OBVIOUS
<1>2. Packets(q) \subseteq Packet /\ \A i \in 1..Len(q) : q[i] \in Packets(q)
  BY <1>1 DEF Packets
<1>3. ASSUME q # <<>>
      PROVE  /\ Tail(q) \in Seq(Packet) /\ Len(Tail(q)) = Len(q) - 1 /\ Len(q) > 0
             /\ \A i \in 1..Len(Tail(q)) : Tail(q)[i] = q[i + 1]
             /\ Head(q) = q[1] /\ Head(q) \in Packet
  BY <1>3, HeadTailProperties
<1> QED BY <1>1, <1>2, <1>3

\* The numbers of the client.
LEMMA ClientTypes ==
  ASSUME NEW c \in ClientState
  PROVE  c.una \in uint /\ c.nxt \in uint /\ c.una \in Int /\ c.nxt \in Int
<1>1. c.una \in uint /\ c.nxt \in uint
  BY DEF ClientState
<1>2. c.una \in Int /\ c.nxt \in Int
  BY <1>1, UintIsInt
<1> QED BY <1>1, <1>2

\* More is acknowledged and more is offered, and the answers say no more than that.
LEMMA FlowsLater ==
  ASSUME NEW q \in Seq(Packet), NEW c \in ClientState, NEW out, NEW out2, Packets(out2) \subseteq Packet,
         NEW r \in Int, NEW r2 \in Int, r <= r2, NEW e \in Int, NEW e2 \in Int, e <= e2,
         Flows(r, e, q, out, c),
         \A p \in Packets(out2) :
           p \in Packets(out) \/ ("RST" \notin p.flags => p.ack <= r2 /\ p.ack + p.wnd <= e2)
  PROVE  Flows(r2, e2, q, out2, c)
<1>1. InOrder(r, q) /\ Within(e, q) /\ Follows(r, q, c) /\ EdgeAt(e, c)
      /\ (c.st # "reset" => Answers(r, e, out))
  BY DEF Flows
<1>2. ASSUME NEW s \in Int, NEW i, Reached(r, q, s, i) PROVE Reached(r2, q, s, i)
  BY <1>2 DEF Reached
<1>3. InOrder(r2, q)
  <2> SUFFICES ASSUME NEW i \in 1..Len(q), q[i].data # <<>> PROVE Reached(r2, q, q[i].seq, i)
    BY DEF InOrder
  <2>1. q[i].seq \in Int
    BY QueueFacts, PacketNumbers
  <2>2. Reached(r, q, q[i].seq, i)
    BY <1>1 DEF InOrder
  <2> QED BY <1>2, <2>1, <2>2
<1>4. Within(e2, q)
  <2> SUFFICES ASSUME NEW p \in Packets(q), p.data # <<>> PROVE p.seq + Len(p.data) <= e2
    BY DEF Within
  <2>1. p.seq \in Int /\ Len(p.data) \in Nat
    BY QueueFacts, PacketNumbers
  <2>2. p.seq + Len(p.data) <= e
    BY <1>1 DEF Within
  <2> QED BY <2>1, <2>2
<1>5. Follows(r2, q, c)
  <2> SUFFICES ASSUME c.st = "open"
               PROVE  c.una <= r2 /\ (c.nxt <= Irs + ClientLen => Reached(r2, q, c.nxt, Len(q) + 1))
    BY DEF Follows
  <2>1. c.una <= r /\ (c.nxt <= Irs + ClientLen => Reached(r, q, c.nxt, Len(q) + 1))
    BY <1>1 DEF Follows
  <2>2. c.una \in Int /\ c.nxt \in Int
    BY ClientTypes
  <2>3. c.una <= r2
    BY <2>1, <2>2
  <2> QED BY <1>2, <2>1, <2>2, <2>3
<1>6. EdgeAt(e2, c)
  BY <1>1, Numbers DEF EdgeAt
<1>7. c.st # "reset" => Answers(r2, e2, out2)
  <2> SUFFICES ASSUME c.st # "reset", NEW p \in Packets(out2), "RST" \notin p.flags
               PROVE  p.ack <= r2 /\ p.ack + p.wnd <= e2
    BY DEF Answers
  <2>1. p.ack \in Int /\ p.wnd \in Int
    BY PacketNumbers
  <2>2. CASE p \in Packets(out)
    <3>1. p.ack <= r /\ p.ack + p.wnd <= e
      BY <1>1, <2>2 DEF Answers
    <3> QED BY <2>1, <3>1
  <2> QED BY <2>2
<1> QED BY <1>3, <1>4, <1>5, <1>6, <1>7 DEF Flows

\* The first packet is taken: the session has its bytes now.
LEMMA FlowsTaken ==
  ASSUME NEW q \in Seq(Packet), q # <<>>, NEW c \in ClientState, NEW out,
         NEW r \in Int, NEW e \in Int, Flows(r, e, q, out, c),
         Head(q).data # <<>> => Head(q).seq + Len(Head(q).data) <= r
  PROVE  Flows(r, e, Tail(q), out, c)
<1> DEFINE t == Tail(q)
           n == Len(q)
<1>1. InOrder(r, q) /\ Within(e, q) /\ Follows(r, q, c) /\ EdgeAt(e, c)
      /\ (c.st # "reset" => Answers(r, e, out))
  BY DEF Flows
<1>2. /\ n \in Nat /\ t \in Seq(Packet) /\ Len(t) = n - 1 /\ n > 0
      /\ \A i \in 1..(n - 1) : t[i] = q[i + 1]
      /\ Head(q) = q[1] /\ \A i \in 1..n : q[i] \in Packet
  BY QueueFacts
<1>3. Packets(t) \subseteq Packets(q)
  BY PacketsTail
<1> HIDE DEF t, n
<1>4. ASSUME NEW s \in Int, NEW i \in 1..n, Reached(r, q, s, i + 1) PROVE Reached(r, t, s, i)
  <2>1. CASE s <= r
    BY <2>1 DEF Reached
  <2>2. ASSUME NEW j \in 1..i, q[j].data # <<>>, s <= q[j].seq + Len(q[j].data)
        PROVE  Reached(r, t, s, i)
    <3>1. j \in 1..n /\ q[j].seq \in Int /\ Len(q[j].data) \in Nat
      <4>1. j \in 1..n
        BY <1>2, <1>4
      <4> QED BY <1>2, <4>1, PacketNumbers
    <3>2. CASE j = 1
      <4>1. q[j].seq + Len(q[j].data) <= r
        BY <1>2, <2>2, <3>2
      <4>2. s <= r
        BY <2>2, <3>1, <4>1
      <4> QED BY <4>2 DEF Reached
    <3>3. CASE j # 1
      <4>1. j - 1 \in 1..(i - 1) /\ j - 1 \in 1..(n - 1) /\ (j - 1) + 1 = j
        BY <1>2, <1>4, <3>3
      <4>2. t[j - 1] = q[j]
        BY <1>2, <4>1
      <4> QED BY <2>2, <4>1, <4>2 DEF Reached
    <3> QED BY <3>2, <3>3
  <2>3. (i + 1) - 1 = i
    BY <1>2
  <2> QED BY <1>4, <2>1, <2>2, <2>3 DEF Reached
<1>5. InOrder(r, t)
  <2> SUFFICES ASSUME NEW i \in 1..(n - 1), t[i].data # <<>> PROVE Reached(r, t, t[i].seq, i)
    BY <1>2 DEF InOrder
  <2>1. i \in 1..n /\ i + 1 \in 1..n /\ t[i] = q[i + 1]
    BY <1>2
  <2>2. Reached(r, q, q[i + 1].seq, i + 1)
    BY <1>1, <2>1 DEF InOrder, n
  <2>3. q[i + 1].seq \in Int
    BY <1>2, <2>1, PacketNumbers
  <2> QED BY <1>4, <2>1, <2>2, <2>3
<1>6. Within(e, t)
  BY <1>1, <1>3 DEF Within
<1>7. Follows(r, t, c)
  <2> SUFFICES ASSUME c.st = "open"
               PROVE  c.una <= r /\ (c.nxt <= Irs + ClientLen => Reached(r, t, c.nxt, Len(t) + 1))
    BY DEF Follows
  <2>1. c.una <= r /\ (c.nxt <= Irs + ClientLen => Reached(r, q, c.nxt, n + 1))
    BY <1>1 DEF Follows, n
  <2>2. Len(t) + 1 = n /\ n \in 1..n /\ c.nxt \in Int
    BY <1>2, ClientTypes
  <2> QED BY <1>4, <2>1, <2>2
<1> QED BY <1>1, <1>5, <1>6, <1>7 DEF Flows, t

\* A packet is added that follows what is under way, and the client goes on behind it,
\* from what was reached before or from what is acknowledged.
LEMMA FlowsMore ==
  ASSUME NEW q \in Seq(Packet), NEW p \in Packet, NEW c \in ClientState, NEW c2 \in ClientState,
         NEW out, NEW out2, NEW r \in Int, NEW e \in Int, Flows(r, e, q, out, c),
         p.data # <<>> => Reached(r, q, p.seq, Len(q) + 1) /\ p.seq + Len(p.data) <= e,
         c2.st = "open" =>
           /\ c2.una <= r
           /\ \/ c2.nxt <= Irs + ClientLen => Reached(r, q, c2.nxt, Len(q) + 1)
              \/ p.data # <<>> /\ c2.nxt <= p.seq + Len(p.data),
         EdgeAt(e, c2), c2.st # "reset" => Answers(r, e, out2)
  PROVE  Flows(r, e, q \o <<p>>, out2, c2)
<1> DEFINE t == q \o <<p>>
           n == Len(q)
<1>1. InOrder(r, q) /\ Within(e, q)
  BY DEF Flows
<1>2. /\ n \in Nat /\ t \in Seq(Packet) /\ Len(t) = n + 1
      /\ \A i \in 1..n : t[i] = q[i]
      /\ t[n + 1] = p /\ \A i \in 1..n : q[i] \in Packet
  OBVIOUS
<1>3. Packets(t) = Packets(q) \cup {p}
  BY PacketsConcat, PacketsSmall
<1> HIDE DEF t, n
<1>4. ASSUME NEW s, NEW i \in 1..(n + 1), Reached(r, q, s, i) PROVE Reached(r, t, s, i)
  <2>1. \A j \in 1..(i - 1) : t[j] = q[j]
    BY <1>2
  <2> QED BY <1>4, <2>1 DEF Reached
<1>5. ASSUME NEW s, Reached(r, q, s, n + 1) PROVE Reached(r, t, s, n + 2)
  <2>1. \A j \in 1..n : t[j] = q[j] /\ j \in 1..(n + 1)
    BY <1>2
  <2>2. (n + 1) - 1 = n /\ (n + 2) - 1 = n + 1
    BY <1>2
  <2> QED BY <1>5, <2>1, <2>2 DEF Reached
<1>6. InOrder(r, t)
  <2> SUFFICES ASSUME NEW i \in 1..(n + 1), t[i].data # <<>> PROVE Reached(r, t, t[i].seq, i)
    BY <1>2 DEF InOrder
  <2>1. CASE i = n + 1
    <3>1. Reached(r, q, p.seq, i)
      BY <1>2, <2>1 DEF n
    <3> QED BY <1>2, <1>4, <2>1, <3>1
  <2>2. CASE i # n + 1
    <3>1. i \in 1..n /\ t[i] = q[i]
      BY <1>2, <2>2
    <3>2. Reached(r, q, q[i].seq, i)
      BY <1>1, <3>1 DEF InOrder, n
    <3> QED BY <1>4, <3>1, <3>2
  <2> QED BY <2>1, <2>2
<1>7. Within(e, t)
  BY <1>1, <1>3 DEF Within
<1>8. Follows(r, t, c2)
  <2> SUFFICES ASSUME c2.st = "open", c2.nxt <= Irs + ClientLen PROVE Reached(r, t, c2.nxt, n + 2)
    <3>1. Len(t) + 1 = n + 2
      BY <1>2
    <3> QED BY <3>1 DEF Follows
  <2>1. CASE Reached(r, q, c2.nxt, n + 1)
    BY <1>5, <2>1
  <2>2. CASE p.data # <<>> /\ c2.nxt <= p.seq + Len(p.data)
    <3>1. n + 1 \in 1..((n + 2) - 1) /\ t[n + 1] = p
      BY <1>2
    <3> QED BY <2>2, <3>1 DEF Reached
  <2> QED BY <2>1, <2>2 DEF n
<1> QED BY <1>6, <1>7, <1>8 DEF Flows, t

\* The client does something but send.
LEMMA FlowsQuiet ==
  ASSUME NEW q \in Seq(Packet), NEW c, NEW c2,
         NEW out, NEW out2, NEW r \in Int, NEW e \in Int, Flows(r, e, q, out, c),
         c2.st = "open" =>
           c2.una <= r /\ (c2.nxt <= Irs + ClientLen => Reached(r, q, c2.nxt, Len(q) + 1)),
         EdgeAt(e, c2), c2.st # "reset" => Answers(r, e, out2)
  PROVE  Flows(r, e, q, out2, c2)
  BY DEF Flows, Follows
-----------------------------------------------------------------------------
(* A step of the daemon. *)

\* What the invariants say of the state now.
LEMMA UploadFacts ==
  ASSUME IInv, UploadInv
  PROVE  /\ to_relay \in Seq(Packet) /\ to_client \in Seq(Packet) /\ client \in ClientState
         /\ s_got \in Seq(Byte) /\ tcb \in Tcb \cup {NULL}
         /\ w0.tcb = tcb /\ w0.map = map /\ w0.out = <<>>
         /\ s_got = Upto(Len(s_got)) /\ DataPlaced(to_relay)
         /\ client.st = "syn_sent" => client.nxt = Irs + 1
         /\ Live(tcb) => /\ tcb \in Tcb /\ tcb.rcv_nxt \in Int /\ Limit(tcb) \in Int
                         /\ tcb.rcv_nxt \in ClientSeq
                         /\ Limit(tcb) = tcb.rcv_nxt + rb_left(tcb.inbuf)
                         /\ Held(tcb, s_got)
                         /\ Flows(tcb.rcv_nxt, Limit(tcb), to_relay, to_client, client)
<1>1. /\ to_relay \in Seq(Packet) /\ to_client \in Seq(Packet) /\ client \in ClientState
      /\ s_got \in Seq(Byte) /\ tcb \in Tcb \cup {NULL}
  BY DEF IInv, ProgramTypeOK
<1>2. w0.tcb = tcb /\ w0.map = map /\ w0.out = <<>>
  BY DEF w0
<1>3. /\ s_got = Upto(Len(s_got)) /\ DataPlaced(to_relay)
      /\ client.st = "syn_sent" => client.nxt = Irs + 1
      /\ Live(tcb) => Held(tcb, s_got) /\ Flows(tcb.rcv_nxt, Limit(tcb), to_relay, to_client, client)
  BY DEF UploadInv, UploadOK
<1>4. ASSUME Live(tcb)
      PROVE  /\ tcb \in Tcb /\ tcb.rcv_nxt \in Int /\ Limit(tcb) \in Int
             /\ tcb.rcv_nxt \in ClientSeq
             /\ Limit(tcb) = tcb.rcv_nxt + rb_left(tcb.inbuf)
  <2>1. tcb # NULL /\ tcb \in Tcb
    BY <1>1, <1>4 DEF Live
  <2>2. tcb.rcv_nxt \in ClientSeq
    BY <1>2, <2>1 DEF IInv, RcvNxtOK
  <2>3. tcb.rcv_nxt \in Int /\ rb_used(tcb.inbuf) \in Nat /\ BufSize \in Int
    BY <2>1, OfferedIsInt, SizeTypes
  <2> QED BY <2>1, <2>2, <2>3 DEF Limit, Offered, rb_left
<1> QED BY <1>1, <1>2, <1>3, <1>4

\* Fewer packets under way.
LEMMA PlacedAfter ==
  ASSUME NEW q, NEW q2, DataPlaced(q), Packets(q2) \subseteq Packets(q)
  PROVE  DataPlaced(q2)
  BY DEF DataPlaced

\* A step of the daemon that acknowledges no more than it holds, and offers no less
\* than before, keeps the client's stream in order.
LEMMA DaemonUpload ==
  ASSUME IInv, UploadInv, IInv', client' = client, s_got' = Upto(Len(s_got')),
         \/ to_relay' = to_relay
         \/ /\ to_relay # <<>> /\ to_relay' = Tail(to_relay)
            /\ Live(tcb') /\ pkt.data # <<>> => pkt.seq + Len(pkt.data) <= tcb'.rcv_nxt,
         Live(tcb') =>
           /\ Live(tcb) /\ tcb.rcv_nxt <= tcb'.rcv_nxt /\ Limit(tcb) <= Limit(tcb')
           /\ Held(tcb', s_got')
           /\ \A p \in Packets(to_client') :
                \/ p \in Packets(to_client)
                \/ "RST" \notin p.flags =>
                     p.ack <= tcb'.rcv_nxt /\ p.ack + p.wnd <= Limit(tcb')
  PROVE  UploadInv'
<1> DEFINE t == tcb'
           q == to_relay'
           out == to_client'
<1>1. /\ to_relay \in Seq(Packet) /\ client \in ClientState /\ DataPlaced(to_relay)
      /\ client.st = "syn_sent" => client.nxt = Irs + 1
      /\ Live(tcb) => /\ tcb.rcv_nxt \in Int /\ Limit(tcb) \in Int
                      /\ Flows(tcb.rcv_nxt, Limit(tcb), to_relay, to_client, client)
  BY UploadFacts
<1>2. t \in Tcb \cup {NULL} /\ out \in Seq(Packet)
  BY DEF IInv, ProgramTypeOK
<1>3. Packets(out) \subseteq Packet
  BY <1>2, QueueFacts
<1>4. DataPlaced(q)
  <2>1. Packets(q) \subseteq Packets(to_relay)
    BY <1>1, PacketsTail
  <2> QED BY <1>1, <2>1, PlacedAfter
<1>5. to_relay # <<>> => pkt = Head(to_relay)
  BY DEF pkt
<1> HIDE DEF t, q, out
<1>6. Live(t) => Held(t, s_got') /\ Flows(t.rcv_nxt, Limit(t), q, out, client)
  <2> SUFFICES ASSUME Live(t) PROVE Held(t, s_got') /\ Flows(t.rcv_nxt, Limit(t), q, out, client)
    OBVIOUS
  <2>1. /\ Live(tcb) /\ tcb.rcv_nxt <= t.rcv_nxt /\ Limit(tcb) <= Limit(t) /\ Held(t, s_got')
        /\ \A p \in Packets(out) :
                \/ p \in Packets(to_client)
                \/ "RST" \notin p.flags => p.ack <= t.rcv_nxt /\ p.ack + p.wnd <= Limit(t)
    BY DEF t, out
  <2>2. t \in Tcb
    BY <1>2 DEF Live
  <2>3. t.rcv_nxt \in Int /\ Limit(t) \in Int
    BY <2>2, OfferedIsInt, SizeTypes DEF Limit
  <2>4. Flows(t.rcv_nxt, Limit(t), to_relay, out, client)
    BY <1>1, <1>3, <2>1, <2>3, FlowsLater
  <2>5. CASE q = to_relay
    BY <2>1, <2>4, <2>5
  <2>6. CASE q # to_relay
    <3>1. /\ to_relay # <<>> /\ q = Tail(to_relay)
          /\ pkt.data # <<>> => pkt.seq + Len(pkt.data) <= t.rcv_nxt
      BY <2>6 DEF t, q
    <3>2. Head(to_relay).data # <<>> => Head(to_relay).seq + Len(Head(to_relay).data) <= t.rcv_nxt
      BY <1>5, <3>1
    <3> QED BY <1>1, <2>1, <2>3, <2>4, <3>1, <3>2, FlowsTaken
  <2> QED BY <2>5, <2>6
<1>7. UploadInv' = UploadOK(t, s_got', q, out, client)
  BY DEF UploadInv, t, q, out
<1> QED BY <1>1, <1>4, <1>6, <1>7 DEF UploadOK

\* So does one that sends nothing or a reset and takes no bytes.
LEMMA QuietUpload ==
  ASSUME IInv, UploadInv, IInv', NEW e, NEW v, Ends(e, v), Resets(w0, v), s_got' = s_got,
         Live(tcb') => Live(tcb) /\ tcb'.rcv_nxt = tcb.rcv_nxt /\ tcb'.inbuf = tcb.inbuf,
         \/ to_relay' = to_relay
         \/ /\ to_relay # <<>> /\ to_relay' = Tail(to_relay)
            /\ Live(tcb') /\ pkt.data # <<>> => pkt.seq + Len(pkt.data) <= tcb.rcv_nxt
  PROVE  UploadInv'
<1>1. /\ to_client \in Seq(Packet) /\ s_got = Upto(Len(s_got)) /\ w0.out = <<>>
      /\ Live(tcb) => Held(tcb, s_got) /\ tcb.rcv_nxt \in Int /\ Limit(tcb) \in Int
  BY UploadFacts
<1>2. client' = client /\ to_client' = to_client \o v.out
  BY DEF Ends
<1>3. v.out = <<>> \/ \E p : v.out = <<p>> /\ "RST" \in p.flags
  <2>1. "out" \in DOMAIN w0
    BY DEF w0
  <2>2. \A p : Append(<<>>, p) = <<p>>
    OBVIOUS
  <2> QED BY <1>1, <2>1, <2>2 DEF Resets, Silent, SendsReset
<1>4. \A p \in Packets(to_client') : p \in Packets(to_client) \/ "RST" \in p.flags
  <2>1. CASE v.out = <<>>
    BY <1>1, <1>2, <2>1, OneSent
  <2>2. ASSUME NEW p, v.out = <<p>>, "RST" \in p.flags
        PROVE  \A r \in Packets(to_client') : r \in Packets(to_client) \/ "RST" \in r.flags
    BY <1>1, <1>2, <2>2, OneSent
  <2> QED BY <1>3, <2>1, <2>2
<1>5. ASSUME Live(tcb')
      PROVE  /\ Live(tcb) /\ tcb.rcv_nxt <= tcb'.rcv_nxt /\ Limit(tcb) <= Limit(tcb')
             /\ Held(tcb', s_got') /\ tcb'.rcv_nxt = tcb.rcv_nxt
  <2> DEFINE t == tcb'
  <2> HIDE DEF t
  <2>1. Live(tcb) /\ t.rcv_nxt = tcb.rcv_nxt /\ t.inbuf = tcb.inbuf
    BY <1>5 DEF t
  <2>2. Limit(t) = Limit(tcb) /\ Held(t, s_got)
    BY <1>1, <2>1 DEF Limit, Offered, Held
  <2>3. tcb.rcv_nxt <= t.rcv_nxt /\ Limit(tcb) <= Limit(t)
    BY <1>1, <2>1, <2>2
  <2> QED BY <2>1, <2>2, <2>3 DEF t
<1> QED BY <1>1, <1>2, <1>4, <1>5, DaemonUpload
-----------------------------------------------------------------------------
(* The callbacks of the IPv4 socket. *)

\* A change of the tcb outside the fields that receive.
LEMMA FieldsStay ==
  ASSUME NEW w, "tcb" \in DOMAIN w, {"rcv_nxt", "inbuf", "state"} \subseteq DOMAIN w.tcb
  PROVE  LET v == mark_for_if_write(w)
         IN  /\ "tcb" \in DOMAIN v /\ {"rcv_nxt", "inbuf", "state"} \subseteq DOMAIN v.tcb
             /\ v.tcb.rcv_nxt = w.tcb.rcv_nxt /\ v.tcb.inbuf = w.tcb.inbuf
             /\ v.tcb.state = w.tcb.state
  BY DEF mark_for_if_write, AddEvent

\* The callbacks that write nothing.
LEMMA SocketUpload ==
  ASSUME IInv, UploadInv, IInv',
         \/ \E k \in 0..BufSize : handle_fd_can_read(k)
         \/ handle_fd_can_read_end \/ handle_fd_can_read_again \/ handle_fd_can_write_end
         \/ \E ok \in BOOLEAN : handle_fd_did_connect(ok)
  PROVE  UploadInv'
<1> DEFINE Same == Live(tcb') => Live(tcb) /\ tcb'.rcv_nxt = tcb.rcv_nxt /\ tcb'.inbuf = tcb.inbuf
           Goal == /\ to_relay' = to_relay /\ s_got' = s_got /\ Same
                   /\ \E e, v : Resets(w0, v) /\ EndsRemoved(e, v)
<1>1. /\ "handle_fd_can_read" \in FdEvent /\ "handle_fd_can_read" \in Event
      /\ "handle_fd_can_write" \in FdEvent /\ "handle_fd_can_write" \in Event
      /\ "handle_fd_did_connect" \in FdEvent /\ "handle_fd_did_connect" \in Event
  BY DEF FdEvent, FdWrite, Event
<1>2. w0.tcb = tcb /\ w0.map = map /\ "tcb" \in DOMAIN w0 /\ "map" \in DOMAIN w0
      /\ "out" \in DOMAIN w0 /\ Silent(w0, w0)
  BY DEF w0, Silent
<1>3. ASSUME NEW e \in FdEvent, OfMap(e)
      PROVE  tcb # NULL /\ tcb \in Tcb /\ w0 \in World /\ Live(tcb)
             /\ (e # "handle_fd_did_connect" => tcb.state = "ESTABLISHED")
             /\ (e = "handle_fd_did_connect" => tcb.state = "SYN_RECVD")
  <2>1. e \in Event /\ Turn(e)
    BY <1>3 DEF OfMap, Event
  <2>2. w0 \in World
    BY <2>1, Called
  <2>3. tcb # NULL /\ tcb \in Tcb
        /\ (e # "handle_fd_did_connect" => tcb.state = "ESTABLISHED")
        /\ (e = "handle_fd_did_connect" => tcb.state = "SYN_RECVD")
    BY <1>2, <1>3, CalledOfMap DEF FdEvent, FdWrite
  <2> QED BY <2>2, <2>3 DEF Live
<1>4. ASSUME NEW k \in 0..BufSize, handle_fd_can_read(k)
      PROVE  /\ to_relay' = to_relay /\ s_got' = s_got /\ Same
             /\ \E e, v : Resets(w0, v) /\ (Ends(e, v) \/ EndsRemoved(e, v))
  <2> DEFINE e == "handle_fd_can_read"
             d == [i \in 1..k |-> s_sent + i]
             v == [w0 EXCEPT !.tcb.outbuf = Written(@, d, BufSize)]
             w == tcp_send(w0, d)
             x == [w EXCEPT !.map.e_fd_read = NULL]
  <2>1. /\ OfMap(e) /\ to_relay' = to_relay /\ s_got' = s_got
        /\ \E u : u \in {w0, w, x} /\ (Ends(e, u) \/ EndsRemoved(e, u))
    BY <1>4 DEF handle_fd_can_read
  <2>2. tcb \in Tcb /\ Live(tcb)
    BY <1>1, <1>3, <2>1
  <2>3. Silent(w0, w) /\ Silent(w, x) /\ KeepsTcb(w, x)
    BY SilentSend, TcbStays DEF Silent
  <2>4. /\ "tcb" \in DOMAIN v /\ {"rcv_nxt", "inbuf", "state"} \subseteq DOMAIN v.tcb
        /\ v.tcb.rcv_nxt = tcb.rcv_nxt /\ v.tcb.inbuf = tcb.inbuf /\ v.tcb.state = tcb.state
    BY <1>2, <2>2 DEF Tcb
  <2>5. w = v \/ w = mark_for_if_write(v)
    BY DEF tcp_send
  <2> HIDE DEF v, w
  <2>6. "tcb" \in DOMAIN w /\ w.tcb.rcv_nxt = tcb.rcv_nxt /\ w.tcb.inbuf = tcb.inbuf
    BY <2>4, <2>5, FieldsStay
  <2> HIDE DEF x
  <2>7. \A u \in {w0, w, x} :
          "tcb" \in DOMAIN u /\ u.tcb.rcv_nxt = tcb.rcv_nxt /\ u.tcb.inbuf = tcb.inbuf
    BY <1>2, <2>3, <2>6 DEF KeepsTcb
  <2>8. \A u \in {w0, w, x} : Resets(w0, u)
    BY <1>2, <2>3, SilentTrans DEF Resets
  <2>9. PICK u : u \in {w0, w, x} /\ (Ends(e, u) \/ EndsRemoved(e, u))
    BY <2>1
  <2>10. tcb' \in {u.tcb, RemoveEvent(u, e).tcb}
    BY <2>9 DEF EndsRemoved, Ends
  <2>11. tcb' = u.tcb
    BY <2>7, <2>9, <2>10, TcbStays DEF KeepsTcb
  <2> QED BY <2>1, <2>2, <2>7, <2>8, <2>9, <2>11
<1>5. ASSUME NEW u \in World, NEW e, u.tcb # NULL, u.tcb.state = "ESTABLISHED",
             EndsRemoved(e, GiveUp(u))
      PROVE  Same
  <2>1. tcb'.state = "FIN_WAIT_1"
    BY <1>5, GivenUp DEF EndsRemoved, Ends
  <2> QED BY <2>1 DEF Live
<1>6. ASSUME handle_fd_can_read_end PROVE Goal
  <2> DEFINE x == [w0 EXCEPT !.map.e_fd_read = NULL]
             e == "handle_fd_can_read"
  <2>1. EndsRemoved(e, GiveUp(x)) /\ OfMap(e) /\ to_relay' = to_relay /\ s_got' = s_got
    BY <1>6 DEF handle_fd_can_read_end, server
  <2>2. w0 \in World /\ w0.map # NULL /\ tcb # NULL /\ tcb.state = "ESTABLISHED"
    BY <1>1, <1>2, <1>3, <2>1 DEF OfMap
  <2>3. x \in World /\ x.tcb = w0.tcb
    BY <2>2, TcpAssumption DEF World, TcpMap
  <2>4. Silent(w0, x)
    BY DEF Silent
  <2> HIDE DEF x
  <2>5. Resets(w0, GiveUp(x))
    BY <2>4, CloseResets, SilentTrans
  <2>6. Same
    BY <1>2, <1>5, <2>1, <2>2, <2>3
  <2> QED BY <2>1, <2>5, <2>6
<1>7. ASSUME handle_fd_can_read_again
      PROVE  /\ to_relay' = to_relay /\ s_got' = s_got /\ Same
             /\ \E e, v : Resets(w0, v) /\ Ends(e, v)
  <2>1. /\ Ends("handle_fd_can_read", w0) /\ OfMap("handle_fd_can_read")
        /\ to_relay' = to_relay /\ s_got' = s_got
    BY <1>7 DEF handle_fd_can_read_again, server
  <2>2. tcb' = tcb /\ Live(tcb)
    BY <1>1, <1>2, <1>3, <2>1 DEF Ends
  <2> QED BY <1>2, <2>1, <2>2 DEF Resets
<1>8. ASSUME handle_fd_can_write_end PROVE Goal
  <2> DEFINE r == tcp_read(w0)
             u == [r EXCEPT !.map.e_fd_write = NULL]
             e == "handle_fd_can_write"
  <2>1. OfMap(e) /\ EndsRemoved(e, GiveUp(u)) /\ to_relay' = to_relay /\ s_got' = s_got
    BY <1>8 DEF handle_fd_can_write_end, server
  <2>2. u \in World /\ u.tcb = r.tcb /\ r.tcb # NULL /\ r.tcb.state = "ESTABLISHED"
    <3>1. u \in World /\ u.tcb = r.tcb /\ r.tcb # NULL /\ SameButRead(w0.tcb, r.tcb)
      BY <2>1, CanWriteBegins
    <3>2. tcb.state = "ESTABLISHED"
      BY <1>1, <1>3, <2>1
    <3> QED BY <1>2, <3>1, <3>2 DEF SameButRead
  <2>3. Silent(w0, r) /\ Silent(r, u)
    BY SilentSend DEF Silent
  <2> HIDE DEF r, u
  <2>4. Resets(w0, GiveUp(u))
    BY <2>3, CloseResets, SilentTrans
  <2>5. Same
    BY <1>5, <2>1, <2>2
  <2> QED BY <2>1, <2>4, <2>5
<1>9. ASSUME NEW ok \in BOOLEAN, handle_fd_did_connect(ok) PROVE Goal
  <2> DEFINE u == [w0 EXCEPT !.map.e_fd_write = NULL]
             e == "handle_fd_did_connect"
             a == mark_for_if_write(u)
             g == GiveUp(u)
  <2>1. /\ OfMap(e) /\ to_relay' = to_relay /\ s_got' = s_got
        /\ EndsRemoved(e, a) \/ EndsRemoved(e, g)
    BY <1>9 DEF handle_fd_did_connect, server
  <2>2. w0 \in World /\ tcb # NULL /\ tcb \in Tcb /\ Live(tcb) /\ tcb.state = "SYN_RECVD"
    BY <1>1, <1>3, <2>1
  <2>3. u.tcb = tcb /\ "tcb" \in DOMAIN u
    BY <1>2
  <2>4. Silent(w0, u)
    BY DEF Silent
  <2> HIDE DEF u
  <2>5. Resets(w0, g) /\ Resets(w0, a)
    <3>1. Resets(w0, g)
      BY <2>4, CloseResets, SilentTrans
    <3>2. Resets(w0, a)
      BY <2>4, SilentFunctions, SilentTrans DEF Resets
    <3> QED BY <3>1, <3>2
  <2>6. ASSUME EndsRemoved(e, a) PROVE Same
    <3>1. {"rcv_nxt", "inbuf", "state"} \subseteq DOMAIN u.tcb
      BY <2>2, <2>3 DEF Tcb
    <3>2. "tcb" \in DOMAIN a /\ a.tcb.rcv_nxt = tcb.rcv_nxt /\ a.tcb.inbuf = tcb.inbuf
      BY <2>3, <3>1, FieldsStay
    <3> HIDE DEF a
    <3>3. tcb' = RemoveEvent(a, e).tcb
      BY <2>6 DEF EndsRemoved, Ends
    <3>4. tcb' = a.tcb
      BY <3>2, <3>3, TcbStays DEF KeepsTcb
    <3> QED BY <2>2, <3>2, <3>4
  <2>7. ASSUME EndsRemoved(e, g) PROVE Same
    <3> DEFINE m == Emit(u, {"RST", "ACK"}, <<>>)
               n == RemoveEvent(RemoveEvent(m, m.tcb.e_tcb_send), m.tcb.e_timeout)
               z == [n EXCEPT !.tcb = NULL]
    <3>1. tcp_close(u) = z
      BY <2>2, <2>3 DEF tcp_close, Discard
    <3>2. "tcb" \in DOMAIN m
      BY <2>3 DEF Emit
    <3> HIDE DEF m
    <3>3. "tcb" \in DOMAIN n
      BY <3>2, TcbStays DEF KeepsTcb
    <3> HIDE DEF n
    <3>4. "tcb" \in DOMAIN z /\ z.tcb = NULL
      BY <3>3
    <3> HIDE DEF z
    <3>5. "tcb" \in DOMAIN g /\ g.tcb = NULL
      BY <3>1, <3>4, TcbStays DEF GiveUp, KeepsTcb
    <3> HIDE DEF g
    <3>6. tcb' = RemoveEvent(g, e).tcb
      BY <2>7 DEF EndsRemoved, Ends
    <3>7. tcb' = NULL
      BY <3>5, <3>6, TcbStays DEF KeepsTcb
    <3> QED BY <3>7 DEF Live
  <2> HIDE DEF a, g
  <2> QED BY <2>1, <2>5, <2>6, <2>7
<1> HIDE DEF Goal
<1>10. /\ to_relay' = to_relay /\ s_got' = s_got /\ Same
       /\ \E e, v : Resets(w0, v) /\ (Ends(e, v) \/ EndsRemoved(e, v))
  BY <1>4, <1>6, <1>7, <1>8, <1>9 DEF Goal
<1>11. PICK e, v : Resets(w0, v) /\ Ends(e, v)
  BY <1>10, EndResets DEF EndsRemoved
<1> QED BY <1>10, <1>11, QuietUpload

\* The first n bytes of a stream.
LEMMA UptoFacts ==
  ASSUME NEW n \in Nat
  PROVE  Upto(n) \in Seq(Nat) /\ Len(Upto(n)) = n /\ \A i \in 1..n : Upto(n)[i] = i
<1>1. Upto(n) \in [1..n -> Nat]
  BY DEF Upto
<1>2. Upto(n) \in Seq(Nat) /\ Len(Upto(n)) = n
  BY <1>1, FunctionIsSeq
<1> QED BY <1>2 DEF Upto

\* write takes all of inbuf.
LEMMA CanWriteUpload ==
  ASSUME ~spoilt', IInv, UploadInv, IInv', NEW k \in 0..BufSize, handle_fd_can_write(k)
  PROVE  UploadInv'
<1> DEFINE e == "handle_fd_can_write"
           data == Readable(tcb)
           r == tcp_read(w0)
           u == [r EXCEPT !.map.e_fd_write = NULL]
<1>1. /\ OfMap(e) /\ EndsRemoved(e, u) /\ to_relay' = to_relay
      /\ k \in 1..Len(data) /\ ~(k < Len(data))
      /\ s_got' = s_got \o SubSeq(data, 1, k)
  BY DEF handle_fd_can_write
<1>2. k = Len(data)
  BY <1>1
<1>3. /\ r \in World /\ r.tcb # NULL /\ r.tcb \in Tcb /\ rb_used(r.tcb.inbuf) = 0
      /\ u \in World /\ u.tcb = r.tcb /\ u.out = <<>>
      /\ SameButRead(w0.tcb, r.tcb) /\ w0.tcb.state = "ESTABLISHED" /\ w0.tcb # NULL
      /\ e \in Event /\ DaemonOK(w0, Iss, s_sent, Again)
  <2>1. e \in FdEvent
    BY DEF FdEvent, FdWrite
  <2> QED BY <1>1, <2>1, CanWriteBegins, CalledOfMap
<1> HIDE DEF u
<1>4. tcb' = r.tcb /\ client' = client /\ to_client' = to_client
  <2>1. RemoveEvent(u, e).tcb = u.tcb /\ RemoveEvent(u, e).out = u.out
    BY <1>3, RemoveEffect
  <2>2. to_client \in Seq(Packet)
    BY UploadFacts
  <2>3. to_client' = to_client \o <<>>
    BY <1>1, <1>3, <2>1 DEF EndsRemoved, Ends
  <2>4. tcb' = r.tcb /\ client' = client
    BY <1>1, <1>3, <2>1 DEF EndsRemoved, Ends
  <2>5. to_client' = to_client
    BY <2>2, <2>3, OneSent
  <2> QED BY <2>4, <2>5
<1> HIDE DEF r
<1>5. /\ tcb # NULL /\ tcb.state = "ESTABLISHED" /\ Live(tcb) /\ w0.tcb = tcb
  BY <1>3, UploadFacts DEF Live
<1>6. /\ tcb \in Tcb /\ s_got \in Seq(Byte) /\ Held(tcb, s_got) /\ tcb.rcv_nxt \in Int
      /\ tcb.rcv_nxt \in ClientSeq
  BY <1>5, UploadFacts
<1>7. data = tcb.inbuf.kept /\ data \in Seq(Byte)
  <2>1. RecvBuffer(tcb)
    BY <1>3, <1>5 DEF DaemonOK, SessionOK
  <2> QED BY <1>6, <2>1, ReadableFacts
<1>8. s_got' = Upto(tcb.rcv_nxt - (Irs + 1))
  <2>1. SubSeq(data, 1, Len(data)) = data
    BY <1>7
  <2>2. s_got' = s_got \o tcb.inbuf.kept
    BY <1>1, <1>2, <1>7, <2>1
  <2> QED BY <1>6, <2>2 DEF Held
<1>9. tcb.rcv_nxt - (Irs + 1) \in Nat
  BY <1>6, Numbers DEF ClientSeq
<1>10. s_got' = Upto(Len(s_got'))
  BY <1>8, <1>9, UptoFacts
<1>11. r.tcb.inbuf.kept = <<>>
  <2>1. r.tcb.inbuf.kept \in Seq(Byte)
    BY <1>3 DEF Tcb, Queues
  <2> QED BY <1>3, <2>1 DEF rb_used
<1>12. r.tcb.rcv_nxt = tcb.rcv_nxt
  BY <1>3, <1>5 DEF SameButRead
<1>13. Held(r.tcb, s_got')
  <2>1. Upto(tcb.rcv_nxt - (Irs + 1)) \in Seq(Nat)
    BY <1>9, UptoFacts
  <2>2. s_got' \o <<>> = s_got'
    BY <1>8, <2>1
  <2> QED BY <1>8, <1>11, <1>12, <2>2 DEF Held
<1>14. tcb.rcv_nxt <= r.tcb.rcv_nxt /\ Limit(tcb) <= Limit(r.tcb)
  <2>1. tcb.rcv_nxt \in Int /\ rb_used(tcb.inbuf) \in Nat /\ BufSize \in Int
    BY <1>6, OfferedIsInt, SizeTypes
  <2> QED BY <1>3, <1>12, <2>1 DEF Limit, Offered
<1> DEFINE t == tcb'
           got == s_got'
           out == to_client'
<1>15. t = r.tcb /\ out = to_client
  BY <1>4
<1> HIDE DEF t, got, out
<1>16. tcb.rcv_nxt <= t.rcv_nxt /\ Limit(tcb) <= Limit(t) /\ Held(t, got)
  BY <1>13, <1>14, <1>15 DEF got
<1> QED BY <1>1, <1>4, <1>5, <1>10, <1>15, <1>16, DaemonUpload DEF t, got, out

\* Nothing of the stream changes.
LEMMA SameUpload ==
  ASSUME UploadInv, UNCHANGED <<tcb, s_got, to_relay, to_client, client>>
  PROVE  UploadInv'
  BY DEF UploadInv

\* What the loop itself does.
LEMMA LoopUpload ==
  ASSUME UploadInv,
         \/ Waits \/ UNCHANGED vars
         \/ \E ready \in SUBSET (FdEvent \cup {"handle_tcp"}) : SelectFds(ready)
         \/ \E e \in Timer : SelectTimer(e)
         \/ \E e \in FdEvent : dangling_callback(e)
  PROVE  UploadInv'
<1>1. UNCHANGED <<tcb, s_got, to_relay, to_client, client>>
  BY DEF Waits, SelectFds, SelectTimer, dangling_callback, vars, relay, server
<1> QED BY <1>1, SameUpload
-----------------------------------------------------------------------------
(* Timers, and what do_tcb_write sends. *)

\* The timers take no bytes.
LEMMA TimerUpload ==
  ASSUME IInv, UploadInv, IInv', tcp_timeout \/ tcp_remove
  PROVE  UploadInv'
<1> DEFINE Same == Live(tcb') => Live(tcb) /\ tcb'.rcv_nxt = tcb.rcv_nxt /\ tcb'.inbuf = tcb.inbuf
<1>1. PICK e \in Timer \cup {"do_tcb_write"} : Turn(e)
  BY DEF tcp_timeout, tcp_remove, Timer
<1>2. tcb # NULL /\ tcb \in Tcb /\ w0.tcb = tcb /\ w0 \in World
  BY <1>1, CalledOfTcb
<1>3. "tcb" \in DOMAIN w0
  BY <1>2 DEF World
<1>4. s_got' = s_got /\ to_relay' = to_relay /\ Same /\ \E f, v : Resets(w0, v) /\ EndsRemoved(f, v)
  <2>1. CASE tcp_timeout
    <3> DEFINE f == "tcp_timeout"
               s == [tcb EXCEPT !.e_timeout = NULL, !.snd_nxt = tcb.snd_una, !.snd_cwnd = 0]
               t == window_update(s)
               x == [w0 EXCEPT !.tcb = t]
               v == mark_for_if_write(x)
    <3>1. /\ s_got' = s_got /\ to_relay' = to_relay /\ EndsRemoved(f, v)
      BY <2>1 DEF tcp_timeout, server
    <3>2. s.rcv_nxt = tcb.rcv_nxt /\ s.inbuf = tcb.inbuf /\ s.state = tcb.state
          /\ {"rcv_nxt", "inbuf", "state"} \subseteq DOMAIN s
      BY <1>2 DEF Tcb
    <3> HIDE DEF s
    <3>3. t.rcv_nxt = tcb.rcv_nxt /\ t.inbuf = tcb.inbuf /\ t.state = tcb.state
          /\ {"rcv_nxt", "inbuf", "state"} \subseteq DOMAIN t
      BY <3>2 DEF window_update
    <3> HIDE DEF t
    <3>4. x.tcb = t /\ "tcb" \in DOMAIN x /\ Silent(w0, x)
      BY <1>3, SilentEvents
    <3> HIDE DEF x
    <3>5. /\ "tcb" \in DOMAIN v /\ v.tcb.rcv_nxt = tcb.rcv_nxt /\ v.tcb.inbuf = tcb.inbuf
          /\ v.tcb.state = tcb.state
      BY <3>3, <3>4, FieldsStay
    <3>6. Resets(w0, v)
      BY <3>4, SilentFunctions, SilentTrans DEF Resets
    <3> HIDE DEF v
    <3>7. tcb' = RemoveEvent(v, f).tcb
      BY <3>1 DEF EndsRemoved, Ends
    <3>8. tcb' = v.tcb
      BY <3>5, <3>7, TcbStays DEF KeepsTcb
    <3> DEFINE n == tcb'
    <3> HIDE DEF n
    <3>9. n.rcv_nxt = tcb.rcv_nxt /\ n.inbuf = tcb.inbuf /\ n.state = tcb.state
      BY <3>5, <3>8 DEF n
    <3>10. Live(n) => Live(tcb)
      BY <1>2, <3>9 DEF Live
    <3> QED BY <3>1, <3>6, <3>9, <3>10 DEF n
  <2>2. CASE tcp_remove
    <3> DEFINE a == RemoveEvent(RemoveEvent(w0, w0.tcb.e_tcb_send), w0.tcb.e_timeout)
               d == [a EXCEPT !.tcb = NULL]
    <3>1. /\ s_got' = s_got /\ to_relay' = to_relay /\ EndsRemoved("tcp_remove", d)
          /\ d = Discard(w0)
      BY <2>2 DEF tcp_remove, server, Discard
    <3>2. "tcb" \in DOMAIN a
      BY <1>3, TcbStays DEF KeepsTcb
    <3>3. Resets(w0, d)
      BY <3>1, SilentFunctions DEF Resets
    <3> HIDE DEF a
    <3>4. "tcb" \in DOMAIN d /\ d.tcb = NULL
      BY <3>2
    <3> HIDE DEF d
    <3>5. tcb' = RemoveEvent(d, "tcp_remove").tcb
      BY <3>1 DEF EndsRemoved, Ends
    <3>6. tcb' = NULL
      BY <3>4, <3>5, TcbStays DEF KeepsTcb
    <3> QED BY <3>1, <3>3, <3>6 DEF Live
  <2> QED BY <2>1, <2>2
<1>5. PICK f, v : Resets(w0, v) /\ Ends(f, v)
  BY <1>4, EndResets DEF EndsRemoved
<1> QED BY <1>4, <1>5, QuietUpload

\* The fields of the tcb that receive.
RecvFields == {"rcv_nxt", "rcv_wnd", "inbuf", "state", "last_acked", "snd_nxt", "e_tcb_send"}
Receives(w) == {"tcb", "out"} \subseteq DOMAIN w /\ RecvFields \subseteq DOMAIN w.tcb
RecvSame(w, v) ==
    /\ Receives(v)
    /\ v.tcb.rcv_nxt = w.tcb.rcv_nxt /\ v.tcb.rcv_wnd = w.tcb.rcv_wnd
    /\ v.tcb.inbuf = w.tcb.inbuf /\ v.tcb.state = w.tcb.state

\* What is sent acknowledges rcv_nxt and offers rcv_wnd.
LEMMA SentAnswer ==
  ASSUME NEW w, Receives(w), w.out = <<>>, NEW v \in {tcp_send_syn(w), tcp_send_and_ack(w)}
  PROVE  /\ RecvSame(w, v)
         /\ \/ v.out = <<>>
            \/ \E p : v.out = <<p>> /\ p.ack = w.tcb.rcv_nxt /\ p.wnd = w.tcb.rcv_wnd
<1> DEFINE t == w.tcb
           k == SegLen(t) + IF SegFin(t) THEN 1 ELSE 0
           data == Peek(t.outbuf, t.snd_nxt, SegLen(t))
           flags == IF SegFin(t) THEN {"ACK", "FIN"} ELSE {"ACK"}
           a == IF t.e_timeout = NULL /\ SegLen(t) > 0 THEN set_timeout(w) ELSE w
           b == Emit(a, flags, data)
           s == [b EXCEPT !.tcb.snd_nxt = SeqAdd(@, k)]
           c == Emit(w, {"SYN", "ACK"}, <<>>)
           d == [c EXCEPT !.tcb.snd_nxt = SeqAdd(@, 1)]
<1>1. ASSUME NEW x, Receives(x), x.out = <<>>, RecvSame(w, x), NEW f, NEW y
      PROVE  LET e == Emit(x, f, y)
             IN  RecvSame(w, e) /\ \E p : e.out = <<p>> /\ p.ack = t.rcv_nxt /\ p.wnd = t.rcv_wnd
  <2> DEFINE p == [flags |-> f, seq |-> x.tcb.snd_nxt, ack |-> x.tcb.rcv_nxt,
                   wnd |-> x.tcb.rcv_wnd, data |-> y]
             e == Emit(x, f, y)
  <2>1. e = [x EXCEPT !.out = Append(@, p), !.tcb.last_acked = x.tcb.rcv_nxt]
    BY DEF Emit
  <2>2. p.ack = t.rcv_nxt /\ p.wnd = t.rcv_wnd
    BY <1>1 DEF RecvSame
  <2> HIDE DEF p
  <2>3. e.out = Append(x.out, p) /\ RecvSame(x, e)
    BY <1>1, <2>1 DEF RecvSame, Receives, RecvFields
  <2> HIDE DEF e
  <2>4. e.out = <<p>>
    BY <1>1, <2>3
  <2>5. RecvSame(w, e)
    BY <1>1, <2>3 DEF RecvSame
  <2> QED BY <2>2, <2>4, <2>5 DEF e
<1>2. ASSUME NEW x, RecvSame(w, x), NEW n
      PROVE  LET y == [x EXCEPT !.tcb.snd_nxt = SeqAdd(@, n)]
             IN  RecvSame(w, y) /\ y.out = x.out
  BY <1>2 DEF RecvSame, Receives, RecvFields
<1>3. RecvSame(w, w)
  BY DEF RecvSame
<1>4. tcp_send_syn(w) = d /\ (tcp_send_and_ack(w) = IF NothingToSend(t) THEN w ELSE s)
  BY DEF tcp_send_syn, tcp_send_and_ack
<1>5. RecvSame(w, d) /\ \E p : d.out = <<p>> /\ p.ack = t.rcv_nxt /\ p.wnd = t.rcv_wnd
  <2>1. RecvSame(w, c) /\ \E p : c.out = <<p>> /\ p.ack = t.rcv_nxt /\ p.wnd = t.rcv_wnd
    BY <1>1, <1>3
  <2> HIDE DEF c
  <2> QED BY <1>2, <2>1
<1>6. RecvSame(w, a) /\ a.out = <<>>
  <2>1. a \in {w, set_timeout(w)}
    OBVIOUS
  <2>2. RecvSame(w, set_timeout(w)) /\ set_timeout(w).out = w.out
    BY DEF set_timeout, AddEvent, RecvSame, Receives, RecvFields
  <2> HIDE DEF a
  <2> QED BY <1>3, <2>1, <2>2
<1> HIDE DEF a
<1>7. RecvSame(w, b) /\ \E p : b.out = <<p>> /\ p.ack = t.rcv_nxt /\ p.wnd = t.rcv_wnd
  BY <1>1, <1>6 DEF RecvSame
<1> HIDE DEF b
<1>8. RecvSame(w, s) /\ \E p : s.out = <<p>> /\ p.ack = t.rcv_nxt /\ p.wnd = t.rcv_wnd
  BY <1>2, <1>7
<1> HIDE DEF s, d
<1> QED BY <1>3, <1>4, <1>5, <1>8

\* What do_tcb_write sends.
LEMMA WriteUpload ==
  ASSUME IInv, UploadInv, IInv', do_tcb_write
  PROVE  UploadInv'
<1> DEFINE e == "do_tcb_write"
           w == IF tcb.state = "SYN_RECVD" THEN tcp_send_syn(w0) ELSE tcp_send_and_ack(w0)
           u == [w EXCEPT !.tcb.e_tcb_send = NULL]
<1>1. /\ tcb # NULL /\ tcb \in Tcb /\ w0.tcb = tcb /\ w0 \in World /\ w0.out = <<>>
      /\ DaemonOK(w0, Iss, s_sent, Again)
  <2>1. Turn(e) /\ e \in Timer \cup {"do_tcb_write"}
    BY DEF do_tcb_write
  <2> QED BY <2>1, CalledOfTcb, UploadFacts DEF IInv
<1>2. Receives(w0)
  BY <1>1 DEF Receives, RecvFields, World, Tcb
<1>3. /\ s_got' = s_got /\ to_relay' = to_relay
      /\ Ends(e, w) \/ Ends(e, RemoveEvent(u, e))
  BY DEF do_tcb_write, EndsRemoved, server
<1>4. /\ RecvSame(w0, w)
      /\ \/ w.out = <<>>
         \/ \E p : w.out = <<p>> /\ p.ack = tcb.rcv_nxt /\ p.wnd = tcb.rcv_wnd
  BY <1>1, <1>2, SentAnswer
<1> HIDE DEF w
<1>5. RecvSame(w0, u) /\ u.out = w.out
  BY <1>4 DEF RecvSame, Receives, RecvFields
<1> HIDE DEF u
<1>6. RemoveEvent(u, e).tcb = u.tcb /\ RemoveEvent(u, e).out = u.out
  BY <1>5, TcbStays, SilentEvents DEF KeepsTcb, Silent, RecvSame, Receives
<1>7. /\ tcb' \in {w.tcb, u.tcb} /\ client' = client /\ to_client' = to_client \o w.out
  BY <1>3, <1>5, <1>6 DEF Ends
<1> DEFINE t == tcb'
           out == to_client'
<1> HIDE DEF t, out
<1>8. t.rcv_nxt = tcb.rcv_nxt /\ t.inbuf = tcb.inbuf /\ t.state = tcb.state
  BY <1>1, <1>4, <1>5, <1>7 DEF t, RecvSame
<1>9. /\ to_client \in Seq(Packet) /\ s_got = Upto(Len(s_got))
      /\ Live(tcb) => Held(tcb, s_got) /\ tcb.rcv_nxt \in Int /\ Limit(tcb) \in Int
                      /\ Limit(tcb) = tcb.rcv_nxt + rb_left(tcb.inbuf)
  BY UploadFacts
<1>10. \A p \in Packets(out) :
          p \in Packets(to_client) \/ (p.ack = tcb.rcv_nxt /\ p.wnd = tcb.rcv_wnd)
  <2>1. CASE w.out = <<>>
    BY <1>7, <1>9, <2>1, OneSent DEF out
  <2>2. ASSUME NEW q, w.out = <<q>>, q.ack = tcb.rcv_nxt /\ q.wnd = tcb.rcv_wnd
        PROVE  \A p \in Packets(out) :
                 p \in Packets(to_client) \/ (p.ack = tcb.rcv_nxt /\ p.wnd = tcb.rcv_wnd)
    <3>1. Packets(out) \subseteq Packets(to_client) \cup {q}
      BY <1>7, <1>9, <2>2, OneSent DEF out
    <3> QED BY <2>2, <3>1
  <2> QED BY <1>4, <2>1, <2>2
<1>11. ASSUME Live(t)
       PROVE  /\ Live(tcb) /\ tcb.rcv_nxt <= t.rcv_nxt /\ Limit(tcb) <= Limit(t)
              /\ Held(t, s_got)
              /\ \A p \in Packets(out) :
                   \/ p \in Packets(to_client)
                   \/ "RST" \notin p.flags => p.ack <= t.rcv_nxt /\ p.ack + p.wnd <= Limit(t)
  <2>1. Live(tcb)
    BY <1>1, <1>8, <1>11 DEF Live
  <2>2. tcb.rcv_nxt \in Int /\ Limit(tcb) \in Int /\ Limit(tcb) = tcb.rcv_nxt + rb_left(tcb.inbuf)
        /\ Held(tcb, s_got)
    BY <1>9, <2>1
  <2>3. Limit(t) = Limit(tcb) /\ Held(t, s_got)
    BY <1>8, <2>2 DEF Limit, Offered, Held
  <2>4. tcb.rcv_wnd = rb_left(tcb.inbuf)
    <3>1. RecvBuffer(tcb)
      BY <1>1 DEF DaemonOK, SessionOK
    <3> QED BY <2>1, <3>1 DEF RecvBuffer, Live
  <2>5. \A p \in Packets(out) :
          p \in Packets(to_client) \/ (p.ack = t.rcv_nxt /\ p.ack + p.wnd = Limit(t))
    BY <1>8, <1>10, <2>2, <2>3, <2>4
  <2> HIDE DEF Limit
  <2>6. tcb.rcv_nxt <= t.rcv_nxt /\ Limit(tcb) <= Limit(t)
    BY <1>8, <2>2, <2>3
  <2>7. t.rcv_nxt <= t.rcv_nxt /\ Limit(t) <= Limit(t)
    BY <1>8, <2>2, <2>3
  <2> QED BY <2>1, <2>3, <2>5, <2>6, <2>7
<1> QED BY <1>3, <1>7, <1>9, <1>11, DaemonUpload DEF t, out
-----------------------------------------------------------------------------
(* handle_tcp. *)

\* Two parts of a sequence.
LEMMA ConcatEqual ==
  ASSUME NEW S, NEW a \in Seq(S), NEW d \in Seq(S), NEW b \in Seq(S), Len(b) = Len(a) + Len(d),
         \A i \in 1..Len(b) : b[i] = IF i <= Len(a) THEN a[i] ELSE d[i - Len(a)]
  PROVE  a \o d = b
<1>1. a \o d \in Seq(S) /\ Len(a \o d) = Len(a) + Len(d)
      /\ \A i \in 1..(Len(a) + Len(d)) :
           (a \o d)[i] = IF i <= Len(a) THEN a[i] ELSE d[i - Len(a)]
  BY ConcatProperties
<1>2. \A i \in 1..Len(b) : (a \o d)[i] = b[i]
  BY <1>1
<1> DEFINE c == a \o d
<1>3. c \in Seq(S) /\ Len(c) = Len(b) /\ \A i \in 1..Len(b) : c[i] = b[i]
  BY <1>1, <1>2
<1> HIDE DEF c
<1>4. c = b
  BY <1>3, SeqEqual
<1> QED BY <1>4 DEF c

\* Two parts of a stream.
LEMMA UptoConcat ==
  ASSUME NEW m \in Nat, NEW d, d \in Seq(Byte), NEW k, k = m + Len(d),
         \A i \in 1..Len(d) : d[i] = m + i
  PROVE  Upto(m) \o d = Upto(k)
<1>1. Upto(m) \in Seq(Nat) /\ Len(Upto(m)) = m /\ \A i \in 1..m : Upto(m)[i] = i
  BY UptoFacts
<1>2. Len(d) \in Nat /\ k \in Nat
  OBVIOUS
<1>3. Upto(k) \in Seq(Nat) /\ Len(Upto(k)) = k /\ \A i \in 1..k : Upto(k)[i] = i
  BY <1>2, UptoFacts
<1>4. d \in Seq(Nat)
  <2>1. \A i \in 1..Len(d) : d[i] \in Nat
    BY <1>2
  <2>2. d \in [1..Len(d) -> Nat]
    BY <2>1
  <2> QED BY <1>2, <2>2, FunctionIsSeq
<1> DEFINE a == Upto(m)
           b == Upto(k)
<1>5. a \in Seq(Nat) /\ Len(a) = m /\ \A i \in 1..m : a[i] = i
  BY <1>1
<1>6. b \in Seq(Nat) /\ Len(b) = k /\ \A i \in 1..k : b[i] = i
  BY <1>3
<1> HIDE DEF a, b
<1>7. ASSUME NEW i \in 1..k PROVE b[i] = IF i <= m THEN a[i] ELSE d[i - m]
  <2>1. CASE i <= m
    BY <1>5, <1>6, <2>1
  <2>2. CASE ~(i <= m)
    <3>1. i - m \in 1..Len(d) /\ m + (i - m) = i
      BY <1>2, <2>2
    <3> QED BY <1>6, <2>2, <3>1
  <2> QED BY <2>1, <2>2
<1>8. a \o d = b
  <2>1. Len(b) = Len(a) + Len(d)
    BY <1>2, <1>5, <1>6
  <2>2. \A i \in 1..Len(b) : b[i] = IF i <= Len(a) THEN a[i] ELSE d[i - Len(a)]
    BY <1>5, <1>6, <1>7
  <2>3. a \in Seq(Nat) /\ b \in Seq(Nat)
    BY <1>5, <1>6
  <2> QED BY <1>4, <2>1, <2>2, <2>3, ConcatEqual
<1> QED BY <1>8 DEF a, b

\* tcp_recv_data stores all of a segment that fits.
LEMMA DataStored ==
  ASSUME NEW w, NEW iss, NEW sent, NEW again, DaemonOK(w, iss, sent, again), w.tcb # NULL,
         w.tcb.state = "ESTABLISHED", NEW p \in Packet, "FIN" \notin p.flags, p.data # <<>>,
         w.tcb.rcv_nxt + Len(p.data) < SeqMod, Len(p.data) <= rb_left(w.tcb.inbuf)
  PROVE  LET u == tcp_recv_data(w, p).tcb
         IN  /\ u.rcv_nxt = w.tcb.rcv_nxt + Len(p.data)
             /\ u.inbuf.kept = w.tcb.inbuf.kept \o p.data
             /\ rb_used(u.inbuf) = rb_used(w.tcb.inbuf) + Len(p.data)
<1> DEFINE n == Len(p.data)
           v == mark_for_if_write([w EXCEPT !.tcb.rcv_nxt = SeqAdd(@, n)])
           b == Written(v.tcb.inbuf, p.data, BufSize)
           u == [v EXCEPT !.tcb.inbuf = Written(@, p.data, BufSize), !.tcb.rcv_wnd = rb_left(b)]
           c == can_read(u)
<1>1. p.data \in Seq(Byte) /\ n \in Nat /\ n > 0
  BY PacketNumbers
<1>2. w.tcb \in Tcb /\ w.tcb.cb /\ RecvBuffer(w.tcb)
  BY DEF DaemonOK, World, Matched, SessionOK
<1>3. tcp_recv_data(w, p) = c
  BY <1>1, <1>2 DEF tcp_recv_data
<1>4. w.tcb.rcv_nxt \in uint /\ w.tcb.rcv_nxt \in Int /\ w.tcb.inbuf \in Queues(Byte)
      /\ rb_used(w.tcb.inbuf) \in Nat /\ rb_used(w.tcb.inbuf) <= BufSize
  <2>1. w.tcb.rcv_nxt \in Int /\ w.tcb.rcv_nxt \in uint /\ w.tcb.inbuf \in Queues(Byte)
        /\ rb_used(w.tcb.inbuf) \in Nat
    BY <1>2, OfferedIsInt, TcbTypes
  <2> QED BY <1>2, <2>1 DEF RecvBuffer
<1>5. n <= BufSize - rb_used(w.tcb.inbuf) /\ w.tcb.rcv_nxt + n < SeqMod
  BY DEF rb_left
<1> HIDE DEF n
<1>6. /\ DaemonOK(v, iss, sent, again) /\ v.tcb # NULL /\ v.tcb \in Tcb
      /\ v.tcb.rcv_nxt = SeqAdd(w.tcb.rcv_nxt, n)
      /\ v.tcb.state = "ESTABLISHED" /\ v.tcb.inbuf = w.tcb.inbuf
  BY <1>1, AdvanceKeeps
<1> HIDE DEF v
<1>7. /\ c.tcb \in Tcb /\ c.tcb = [v.tcb EXCEPT !.inbuf = b, !.rcv_wnd = rb_left(b)]
  BY <1>1, <1>6, StoreKeeps DEF n
<1> DEFINE m == MinInt(n, BufSize - rb_used(w.tcb.inbuf))
<1>8. /\ m \in Nat /\ b \in Queues(Byte) /\ rb_used(b) = rb_used(w.tcb.inbuf) + m
      /\ \A i \in 1..rb_used(b) :
           b.kept[i] = IF i <= rb_used(w.tcb.inbuf) THEN w.tcb.inbuf.kept[i]
                       ELSE p.data[i - rb_used(w.tcb.inbuf)]
  <2> DEFINE q == w.tcb.inbuf
             d == p.data
             x == Written(q, d, BufSize)
  <2>1. b = x
    BY <1>6
  <2>2. q \in Queues(Byte) /\ d \in Seq(Byte) /\ Len(d) = n /\ rb_used(q) \in Nat
        /\ rb_used(q) <= BufSize /\ BufSize \in Nat
    BY <1>1, <1>4, SizeTypes DEF n
  <2>3. /\ MinInt(Len(d), BufSize - rb_used(q)) \in Nat
        /\ x \in Queues(Byte) /\ rb_used(x) = rb_used(q) + MinInt(Len(d), BufSize - rb_used(q))
        /\ \A i \in 1..rb_used(x) :
             x.kept[i] = IF i <= rb_used(q) THEN q.kept[i] ELSE d[i - rb_used(q)]
    <3> HIDE DEF q, d
    <3> QED BY <2>2, WrittenFacts DEF x
  <2> HIDE DEF x, b
  <2> QED BY <2>1, <2>2, <2>3
<1>9. m = n
  BY <1>1, <1>4, <1>5, SizeTypes DEF MinInt
<1> HIDE DEF u, b, c, m
<1> DEFINE y == rb_left(b)
<1>10. c.tcb.rcv_nxt = v.tcb.rcv_nxt /\ c.tcb.inbuf = b
  <2>1. c.tcb = [v.tcb EXCEPT !.inbuf = b, !.rcv_wnd = y]
    BY <1>7
  <2> HIDE DEF y
  <2> QED BY <1>6, <2>1 DEF Tcb
<1>11. SeqAdd(w.tcb.rcv_nxt, n) = w.tcb.rcv_nxt + n
  <2>1. w.tcb.rcv_nxt + n \in 0..(SeqMod - 1)
    <3>1. 0 <= w.tcb.rcv_nxt
      BY <1>4, UintIsInt
    <3> QED BY <1>1, <1>4, <1>5, <3>1, SizeTypes
  <2> QED BY <1>1, <1>4, <2>1, SeqAddFacts
<1>12. b.kept = w.tcb.inbuf.kept \o p.data
  <2> DEFINE k == w.tcb.inbuf.kept
             d == p.data
             l == b.kept
  <2>1. k \in Seq(Byte) /\ Len(k) = rb_used(w.tcb.inbuf) /\ l \in Seq(Byte) /\ Len(l) = rb_used(b)
    BY <1>4, <1>8 DEF Queues, rb_used
  <2>2. d \in Seq(Byte) /\ Len(d) = n
    BY <1>1 DEF n
  <2>3. Len(l) = Len(k) + Len(d)
    BY <1>8, <1>9, <2>1, <2>2
  <2>4. \A i \in 1..Len(l) : l[i] = IF i <= Len(k) THEN k[i] ELSE d[i - Len(k)]
    BY <1>8, <2>1
  <2> HIDE DEF k, d, l
  <2>7. k \o d = l
    BY <2>1, <2>2, <2>3, <2>4, ConcatEqual
  <2> QED BY <2>7 DEF k, d, l
<1> QED BY <1>3, <1>6, <1>8, <1>9, <1>10, <1>11, <1>12 DEF n

\* The treatment of the acknowledgement leaves the bytes alone.
LEMMA SettledUpload ==
  ASSUME IInv, NoWrap, Turn("handle_tcp"), OfSession, Acks(pkt), ws.tcb.state = "ESTABLISHED"
  PROVE  /\ Live(tcb) /\ DaemonOK(ws, Iss, s_sent, Again) /\ ws.tcb # NULL /\ ws.tcb \in Tcb
         /\ ws.tcb.rcv_nxt = tcb.rcv_nxt /\ ws.tcb.inbuf = tcb.inbuf /\ ws.out = <<>>
<1>1. /\ DaemonOK(ws, Iss, s_sent, Again) /\ ws.tcb # NULL /\ ws.tcb \in Tcb /\ ws.out = <<>>
      /\ ws.tcb.rcv_nxt = tcb.rcv_nxt
      /\ AfterAck(tcb.state, ws.tcb.state)
  BY SettledSegment
<1>2. tcb.state \in {"SYN_RECVD", "ESTABLISHED"} /\ tcb # NULL
  BY <1>1 DEF AfterAck, OfSession
<1>3. CASE tcb.state = "ESTABLISHED"
  BY <1>1, <1>2, <1>3, SettledOffers DEF Live
<1>4. CASE tcb.state = "SYN_RECVD"
  <2>1. /\ w0.tcb = tcb /\ w0.map = map /\ w0.out = <<>> /\ DaemonOK(w0, Iss, s_sent, Again)
        /\ pkt \in Packet /\ Iss \in Nat /\ s_sent \in Nat
    BY HandleBegins
  <2>2. /\ Iss + s_sent + 2 < SeqMod
        /\ "ACK" \in pkt.flags
        /\ tcb.snd_nxt = Iss + 1 /\ map.e_fd_write = NULL /\ pkt.ack = Iss + 1
    BY <1>4, SegmentBegins, HandleBegins DEF InSynRecvd
  <2> HIDE DEF w0, Iss, pkt
  <2>3. /\ w0.tcb # NULL /\ w0.tcb.state = "SYN_RECVD"
        /\ w0.tcb.snd_nxt = Iss + 1 /\ w0.map.e_fd_write = NULL
    BY <1>2, <1>4, <2>1, <2>2
  <2>4. LET x == Acked(w0, pkt)
            v == Settled(x, pkt)
        IN  /\ DaemonOK(v, Iss, s_sent, Again) /\ v.tcb # NULL /\ v.tcb.state = "ESTABLISHED"
            /\ v.out = w0.out /\ v.map # NULL
            /\ v.listed["handle_fd_can_write"] = w0.listed["handle_fd_can_write"]
            /\ x.tcb.state = "SYN_RECVD"
            /\ v.tcb.e_tcb_send = w0.tcb.e_tcb_send /\ v.tcb.rcv_nxt = w0.tcb.rcv_nxt
            /\ v.tcb.inbuf = w0.tcb.inbuf /\ v.map.e_fd_write = NULL
    BY <2>1, <2>2, <2>3, SynAckedEffect
  <2>5. ws.tcb.inbuf = tcb.inbuf
    BY <2>1, <2>4 DEF ws, wa
  <2> QED BY <1>1, <1>2, <2>5 DEF Live
<1> QED BY <1>2, <1>3, <1>4

\* A packet that brings no new bytes: of no session, one that ends it, or an old one.
LEMMA OldUpload ==
  ASSUME ~spoilt', IInv, UploadInv, IInv', NoWrap, Turn("handle_tcp"),
         \/ handle_tcp_stray \/ handle_tcp_rst \/ handle_tcp_last_ack \/ handle_tcp_closing
         \/ handle_tcp_old
  PROVE  UploadInv'
<1> DEFINE NoNews ==
             /\ Live(tcb') => Live(tcb) /\ tcb'.rcv_nxt = tcb.rcv_nxt /\ tcb'.inbuf = tcb.inbuf
             /\ Live(tcb') /\ pkt.data # <<>> => pkt.seq + Len(pkt.data) <= tcb.rcv_nxt
<1>1. PICK v : Ends("handle_tcp", v) /\ Resets(w0, v)
  BY SegmentQuiet DEF HandledQuietly
<1>2. to_relay # <<>> /\ to_relay' = Tail(to_relay) /\ s_got' = s_got
  BY HandleBegins DEF handle_tcp_stray, handle_tcp_rst, handle_tcp_last_ack, handle_tcp_closing,
     handle_tcp_old, Handled, server
<1>3. w0.tcb = tcb /\ "tcb" \in DOMAIN w0 /\ pkt \in Packet /\ pkt \in Packets(to_relay)
  BY HandleBegins DEF World
<1>4. ASSUME handle_tcp_stray PROVE NoNews
  <2>1. tcb' = NULL
    BY <1>3, <1>4 DEF handle_tcp_stray, Handled, Ends, w0
  <2> QED BY <2>1 DEF Live
<1>5. ASSUME NEW k, "tcb" \in DOMAIN k, tcb' = Discard(k).tcb
      PROVE  NoNews
  <2> DEFINE a == RemoveEvent(RemoveEvent(k, k.tcb.e_tcb_send), k.tcb.e_timeout)
  <2>1. tcb' = [a EXCEPT !.tcb = NULL].tcb
    BY <1>5 DEF Discard
  <2>2. "tcb" \in DOMAIN a
    BY <1>5, TcbStays DEF KeepsTcb
  <2> HIDE DEF a
  <2>3. tcb' = NULL
    BY <2>1, <2>2
  <2> QED BY <2>3 DEF Live
<1>6. ASSUME handle_tcp_rst PROVE NoNews
  <2> DEFINE k == IF tcb.cb THEN kill_map(w0) ELSE w0
  <2>1. tcb' = Discard(k).tcb
    BY <1>6 DEF handle_tcp_rst, Handled, Ends
  <2>2. "tcb" \in DOMAIN k
    BY <1>3, TcbStays DEF KeepsTcb
  <2> HIDE DEF k
  <2> QED BY <1>5, <2>1, <2>2
<1>7. ASSUME OfSession, Returns
      PROVE  Acks(pkt) /\ tcb.state # "SYN_RECVD" /\ wa \in World /\ wa.tcb # NULL /\ wa.tcb \in Tcb
             /\ wa.tcb.state \in {"LAST_ACK", "CLOSING"}
  <2>1. Acks(pkt)
    BY <1>7, SegmentBegins, RepeatedSyn
  <2>2. wa.tcb.state \in {"LAST_ACK", "CLOSING"}
    BY <1>7 DEF Returns
  <2> HIDE DEF wa
  <2> QED BY <1>7, <2>1, <2>2, AckedSegment DEF DaemonOK
<1>8. ASSUME handle_tcp_last_ack PROVE NoNews
  <2>1. wa \in World /\ tcb' = Discard(wa).tcb
    BY <1>7, <1>8 DEF handle_tcp_last_ack, Handled, Ends
  <2>2. "tcb" \in DOMAIN wa
    BY <2>1 DEF World
  <2> QED BY <1>5, <2>1, <2>2
<1>9. ASSUME handle_tcp_closing PROVE NoNews
  <2>1. wa \in World /\ wa.tcb # NULL /\ wa.tcb \in Tcb /\ wa.tcb.state \in {"LAST_ACK", "CLOSING"}
        /\ tcb' \in {TimeWait(wa).tcb, wa.tcb}
    BY <1>7, <1>9 DEF handle_tcp_closing, Handled, Ends
  <2> HIDE DEF wa
  <2>2. TimeWait(wa).tcb.state = "TIME_WAIT"
    BY <2>1 DEF TimeWait, AddEvent, World, Tcb
  <2>3. tcb'.state \in {"TIME_WAIT", "LAST_ACK", "CLOSING"}
    BY <2>1, <2>2
  <2> QED BY <2>3 DEF Live
<1>10. ASSUME handle_tcp_old PROVE NoNews
  <2> DEFINE x == [ws EXCEPT !.tcb.last_acked = SeqAdd(@, -1)]
             y == mark_for_if_write(x)
  <2>1. OfSession /\ pkt.seq < ws.tcb.rcv_nxt
        /\ tcb' = IF ws.tcb.state = "SYN_RECVD" THEN ws.tcb ELSE y.tcb
    BY <1>10 DEF handle_tcp_old, Handled, Ends
  <2>2. CASE Syn(pkt)
    <3>1. ws = w0 /\ InSynRecvd(w0) /\ ~Acks(pkt)
      BY <2>1, <2>2, SegmentBegins, RepeatedSyn
    <3>2. tcb' = tcb
      BY <1>3, <2>1, <3>1 DEF InSynRecvd
    <3>3. DataPlaced(to_relay)
      BY UploadFacts
    <3>4. pkt.data = <<>>
      BY <1>3, <3>1, <3>3 DEF DataPlaced
    <3> QED BY <3>2, <3>4
  <2>3. CASE ~Syn(pkt)
    <3>1. Acks(pkt)
      BY <2>1, <2>3, SegmentBegins
    <3>2. ws \in World /\ ws.tcb \in Tcb /\ ws.tcb.state # "SYN_RECVD" /\ ws.tcb.rcv_nxt = tcb.rcv_nxt
      BY <2>1, <3>1, SettledSegment DEF DaemonOK
    <3>3. ws.tcb.state = "ESTABLISHED" =>
            Live(tcb) /\ ws.tcb.rcv_nxt = tcb.rcv_nxt /\ ws.tcb.inbuf = tcb.inbuf
      BY <2>1, <3>1, SettledUpload
    <3> HIDE DEF ws
    <3>4. /\ "tcb" \in DOMAIN x /\ {"rcv_nxt", "inbuf", "state"} \subseteq DOMAIN x.tcb
          /\ x.tcb.rcv_nxt = ws.tcb.rcv_nxt /\ x.tcb.inbuf = ws.tcb.inbuf /\ x.tcb.state = ws.tcb.state
      BY <3>2 DEF World, Tcb
    <3> HIDE DEF x
    <3>5. tcb'.rcv_nxt = ws.tcb.rcv_nxt /\ tcb'.inbuf = ws.tcb.inbuf /\ tcb'.state = ws.tcb.state
      BY <2>1, <3>2, <3>4, FieldsStay
    <3>6. Live(tcb') => Live(tcb) /\ tcb'.rcv_nxt = tcb.rcv_nxt /\ tcb'.inbuf = tcb.inbuf
      <4> DEFINE t == tcb'
      <4>1. t.rcv_nxt = ws.tcb.rcv_nxt /\ t.inbuf = ws.tcb.inbuf /\ t.state = ws.tcb.state
        BY <3>5
      <4> HIDE DEF t
      <4>2. Live(t) => Live(tcb) /\ t.rcv_nxt = tcb.rcv_nxt /\ t.inbuf = tcb.inbuf
        BY <3>2, <3>3, <4>1 DEF Live
      <4> QED BY <4>2 DEF t
    <3>7. Live(tcb) /\ pkt.data # <<>> => pkt.seq + Len(pkt.data) <= tcb.rcv_nxt
      <4> SUFFICES ASSUME Live(tcb), pkt.data # <<>> PROVE pkt.seq + Len(pkt.data) <= tcb.rcv_nxt
        OBVIOUS
      <4>1. ~PartlyOld
        BY <1>10 DEF handle_tcp_old
      <4>2. ~(pkt.seq + Len(pkt.data) > tcb.rcv_nxt)
        BY <3>2, <4>1 DEF PartlyOld
      <4>3. pkt.seq \in Int /\ Len(pkt.data) \in Nat /\ tcb.rcv_nxt \in Int
        BY <1>3, PacketNumbers, UploadFacts
      <4> QED BY <4>2, <4>3
    <3> QED BY <3>6, <3>7
  <2> QED BY <2>2, <2>3
<1>11. NoNews
  BY <1>4, <1>6, <1>8, <1>9, <1>10
<1> QED BY <1>1, <1>2, <1>11, QuietUpload

\* The bytes of a segment that comes at or behind rcv_nxt come at rcv_nxt and fit in
\* inbuf, and inbuf takes them.
LEMMA DataUpload ==
  ASSUME IInv, UploadInv, NoWrap, Turn("handle_tcp"), OfSession, Acks(pkt), Live(tcb),
         pkt.data # <<>>, "FIN" \notin pkt.flags, pkt.seq >= tcb.rcv_nxt,
         NEW z, DaemonOK(z, Iss, s_sent, Again), z.tcb # NULL, z.tcb.state = "ESTABLISHED",
         z.tcb.rcv_nxt = tcb.rcv_nxt, z.tcb.inbuf = tcb.inbuf
  PROVE  LET t == tcp_recv_data(z, pkt).tcb
         IN  /\ t.rcv_nxt = tcb.rcv_nxt + Len(pkt.data) /\ pkt.seq = tcb.rcv_nxt
             /\ Limit(t) = Limit(tcb) /\ Held(t, s_got)
<1> DEFINE r == tcb.rcv_nxt
           n == Len(pkt.data)
           f == IF "FIN" \in pkt.flags THEN 1 ELSE 0
           t == tcp_recv_data(z, pkt).tcb
           k == tcb.inbuf.kept
           m == r - (Irs + 1)
<1>1. /\ to_relay \in Seq(Packet) /\ to_relay # <<>> /\ pkt \in Packet /\ pkt = to_relay[1]
      /\ pkt \in Packets(to_relay) /\ Len(to_relay) \in Nat /\ Len(to_relay) > 0
  BY HandleBegins, QueueFacts DEF pkt
<1>2. /\ tcb \in Tcb /\ r \in Int /\ Limit(tcb) \in Int /\ r \in ClientSeq
      /\ Limit(tcb) = r + rb_left(tcb.inbuf) /\ Held(tcb, s_got) /\ DataPlaced(to_relay)
      /\ s_got \in Seq(Byte)
      /\ Flows(r, Limit(tcb), to_relay, to_client, client)
  BY UploadFacts
<1>3. pkt.seq \in Int /\ pkt.data \in Seq(Byte) /\ n \in Nat /\ n > 0
  BY <1>1, PacketNumbers
<1>4. pkt.seq = r
  <2>1. Reached(r, to_relay, pkt.seq, 1)
    <3>1. 1 \in 1..Len(to_relay)
      BY <1>1
    <3> QED BY <1>1, <1>2, <3>1 DEF Flows, InOrder
  <2>2. pkt.seq <= r
    BY <2>1 DEF Reached
  <2> QED BY <1>2, <1>3, <2>2
<1>5. n <= rb_left(tcb.inbuf)
  <2>1. pkt.seq + n <= Limit(tcb)
    BY <1>1, <1>2 DEF Flows, Within
  <2>2. rb_left(tcb.inbuf) \in Int
    BY <1>2, OfferedIsInt, TcbTypes, SizeTypes DEF rb_left
  <2> QED BY <1>2, <1>3, <1>4, <2>1, <2>2
<1>6. r + n < SeqMod
  <2>1. Ending(pkt) <= Irs + ClientLen + 2 /\ Ending(pkt) = pkt.seq + n + f
    BY SegmentBegins DEF Ending, Syn, Acks
  <2>2. /\ Irs \in Int /\ ClientLen \in Int /\ SeqMod \in Int /\ Irs + ClientLen + 2 < SeqMod
    BY Numbers, SizeTypes DEF NoWrap
  <2> HIDE DEF n, r, pkt
  <2> QED BY <1>2, <1>3, <1>4, <2>1, <2>2
<1>7. /\ t.rcv_nxt = r + n /\ t.inbuf.kept = k \o pkt.data
      /\ rb_used(t.inbuf) = rb_used(tcb.inbuf) + n
  <2> DEFINE p == pkt
             i0 == Iss
  <2>1. /\ DaemonOK(z, i0, s_sent, Again) /\ p \in Packet /\ "FIN" \notin p.flags /\ p.data # <<>>
        /\ z.tcb.rcv_nxt + Len(p.data) < SeqMod /\ Len(p.data) <= rb_left(z.tcb.inbuf)
    BY <1>1, <1>5, <1>6
  <2> HIDE DEF p, i0
  <2>2. LET u == tcp_recv_data(z, p).tcb
        IN  /\ u.rcv_nxt = z.tcb.rcv_nxt + Len(p.data)
            /\ u.inbuf.kept = z.tcb.inbuf.kept \o p.data
            /\ rb_used(u.inbuf) = rb_used(z.tcb.inbuf) + Len(p.data)
    BY <2>1, DataStored
  <2> QED BY <2>2 DEF p
<1>8. tcb.inbuf \in Queues(Byte) /\ rb_used(tcb.inbuf) \in Nat /\ k \in Seq(Byte)
  <2>1. tcb.inbuf \in Queues(Byte) /\ rb_used(tcb.inbuf) \in Nat
    BY <1>2, OfferedIsInt, TcbTypes
  <2> QED BY <2>1 DEF Queues
<1>9. pkt.data \in Seq(Byte) /\ \A i \in 1..n : pkt.data[i] = m + i
  <2>1. Irs \in Int
    BY Numbers
  <2>2. \A i \in 1..n : pkt.data[i] = pkt.seq - Irs - 1 + i
    BY <1>1, <1>2 DEF DataPlaced
  <2> HIDE DEF pkt, n
  <2>3. r \in Int
    BY <1>2
  <2> HIDE DEF r
  <2>4. ASSUME NEW i \in 1..n PROVE r - Irs - 1 + i = m + i
    BY <1>3, <2>1, <2>3
  <2>5. r = pkt.seq
    BY <1>4
  <2> HIDE DEF m
  <2> QED BY <1>3, <2>2, <2>4, <2>5
<1>10. m \in Nat /\ (r + n) - (Irs + 1) = m + n
  BY <1>2, <1>3, Numbers DEF ClientSeq
<1> HIDE DEF t, n
<1>11. Limit(t) = Limit(tcb)
  <2>1. Limit(t) = ((r + n) - (rb_used(tcb.inbuf) + n)) + BufSize
        /\ Limit(tcb) = (r - rb_used(tcb.inbuf)) + BufSize
    BY <1>7 DEF Limit, Offered
  <2>2. BufSize \in Int
    BY SizeTypes
  <2> QED BY <1>2, <1>3, <1>8, <2>1, <2>2
<1>12. Held(t, s_got)
  <2>1. s_got \o k = Upto(m)
    BY <1>2 DEF Held
  <2> DEFINE d == pkt.data
  <2>2. d \in Seq(Byte) /\ Len(d) = n /\ \A i \in 1..Len(d) : d[i] = m + i
    BY <1>9 DEF n
  <2> HIDE DEF d, m, k
  <2>3. Upto(m) \o d = Upto(m + n)
    BY <1>10, <2>2, UptoConcat
  <2>4. s_got \o (k \o d) = (s_got \o k) \o d
    <3> DEFINE g == s_got
    <3>1. g \in Seq(Byte) /\ k \in Seq(Byte) /\ d \in Seq(Byte)
      BY <1>2, <1>8, <2>2
    <3> HIDE DEF g
    <3>2. g \o (k \o d) = (g \o k) \o d
      BY <3>1, ConcatAssociative
    <3> QED BY <3>2 DEF g
  <2>5. s_got \o (k \o d) = Upto(m + n)
    BY <2>1, <2>3, <2>4
  <2>6. t.inbuf.kept = k \o d /\ t.rcv_nxt - (Irs + 1) = m + n
    BY <1>7, <1>10 DEF k, d
  <2> QED BY <2>5, <2>6 DEF Held
<1> QED BY <1>4, <1>7, <1>11, <1>12 DEF t, n

\* A segment at or behind rcv_nxt.
LEMMA SegmentUpload ==
  ASSUME IInv, UploadInv, IInv', NoWrap, Turn("handle_tcp"), handle_tcp_segment
  PROVE  UploadInv'
<1> DEFINE z == NewWindow(ws, pkt)
           v == Receive(z, pkt)
           q == to_relay
           p == pkt
           d == tcp_recv_data(z, pkt)
<1>1. /\ OfSession /\ pkt.seq >= ws.tcb.rcv_nxt /\ to_relay' = Tail(q) /\ s_got' = s_got
      /\ tcb' = v.tcb /\ client' = client /\ to_client' = to_client \o v.out
  BY DEF handle_tcp_segment, Handled, Ends, server
<1>2. Acks(pkt)
  <2> SUFFICES ASSUME Syn(pkt) PROVE FALSE
    BY <1>1, SegmentBegins
  <2>1. ws = w0 /\ tcb.rcv_nxt = Irs + 1 /\ pkt.seq = Irs /\ w0.tcb = tcb
    BY <1>1, RepeatedSyn, SegmentBegins, HandleBegins
  <2>2. Irs >= Irs + 1
    BY <1>1, <2>1
  <2> QED BY <2>2, Numbers
<1>3. /\ DaemonOK(ws, Iss, s_sent, Again) /\ ws.tcb # NULL /\ ws.tcb \in Tcb /\ ws.out = <<>>
      /\ ws.tcb.state # "SYN_RECVD" /\ ws.tcb.rcv_nxt = tcb.rcv_nxt
  BY <1>1, <1>2, SettledSegment
<1>4. pkt \in Packet /\ Iss \in Nat /\ s_sent \in Nat /\ q # <<>> /\ pkt \in Packets(q)
  BY HandleBegins
<1>5. ws.tcb.state = "ESTABLISHED" => Live(tcb) /\ ws.tcb.inbuf = tcb.inbuf
  BY <1>1, <1>2, SettledUpload
<1>6. Live(tcb) => tcb \in Tcb /\ tcb.rcv_nxt \in Int /\ Limit(tcb) \in Int /\ Held(tcb, s_got)
  BY UploadFacts
<1>7. pkt.seq \in Int /\ Len(pkt.data) \in Nat /\ (pkt.data # <<>> <=> Len(pkt.data) > 0)
  BY <1>4, PacketNumbers
<1>8. s_got = Upto(Len(s_got)) /\ to_client \in Seq(Packet)
  BY UploadFacts
<1> HIDE DEF ws, w0, Iss, p
<1>9. /\ DaemonOK(z, Iss, s_sent, Again) /\ z.tcb # NULL /\ z.tcb \in Tcb
      /\ SameSession(ws.tcb, z.tcb) /\ z.out = ws.out
  BY <1>3, <1>4, NewWindowKeeps DEF p
<1> HIDE DEF z
<1>10. z.tcb.state = ws.tcb.state /\ z.tcb.rcv_nxt = tcb.rcv_nxt /\ z.tcb.inbuf = ws.tcb.inbuf
  BY <1>3, <1>9 DEF SameSession
<1>11. /\ v.out = z.out /\ v.tcb # NULL /\ v.tcb.state # "SYN_RECVD"
       /\ AfterFin(z.tcb.state, v.tcb.state)
  BY <1>3, <1>4, <1>9, <1>10, ReceiveKeeps
<1>12. to_client' = to_client
  BY <1>1, <1>3, <1>8, <1>9, <1>11
<1>13. ASSUME Live(v.tcb) PROVE z.tcb.state = "ESTABLISHED" /\ "FIN" \notin pkt.flags /\ v = d
  <2>1. z.tcb.state = "ESTABLISHED"
    BY <1>11, <1>13 DEF Live, AfterFin
  <2>2. CASE "FIN" \in pkt.flags
    <3>1. v = tcp_remote_close([d EXCEPT !.tcb.state = "CLOSE_WAIT"])
      BY <2>1, <2>2 DEF Receive
    <3>2. DaemonOK(d, Iss, s_sent, Again) /\ d.tcb # NULL /\ SameButRecv(z.tcb, d.tcb)
      BY <1>4, <1>9, <2>1, RecvDataKeeps
    <3> HIDE DEF d, v
    <3>3. d.tcb.state = "ESTABLISHED"
      BY <2>1, <3>2 DEF SameButRecv
    <3>4. tcp_remote_close([d EXCEPT !.tcb.state = "CLOSE_WAIT"]).tcb.state = "LAST_ACK"
      BY <1>4, <3>2, <3>3, RemoteCloseKeeps
    <3> QED BY <1>13, <3>1, <3>4 DEF Live
  <2>3. "FIN" \notin pkt.flags => v = d
    BY <2>1 DEF Receive
  <2> QED BY <2>1, <2>2, <2>3
<1> HIDE DEF v
<1>14. ASSUME Live(v.tcb)
       PROVE  /\ Live(tcb) /\ tcb.rcv_nxt <= v.tcb.rcv_nxt /\ Limit(tcb) <= Limit(v.tcb)
              /\ Held(v.tcb, s_got)
              /\ pkt.data # <<>> => pkt.seq + Len(pkt.data) <= v.tcb.rcv_nxt
  <2>1. /\ z.tcb.state = "ESTABLISHED" /\ "FIN" \notin pkt.flags /\ v = d
        /\ Live(tcb) /\ z.tcb.inbuf = tcb.inbuf
    BY <1>5, <1>10, <1>13, <1>14
  <2>2. tcb \in Tcb /\ tcb.rcv_nxt \in Int /\ Limit(tcb) \in Int /\ Held(tcb, s_got)
    BY <1>6, <2>1
  <2>3. CASE pkt.data = <<>>
    <3>1. d = z
      BY <1>7, <2>1, <2>3 DEF tcp_recv_data
    <3> HIDE DEF d
    <3>2. Limit(v.tcb) = Limit(tcb) /\ Held(v.tcb, s_got) /\ v.tcb.rcv_nxt = tcb.rcv_nxt
      BY <1>10, <2>1, <2>2, <3>1 DEF Limit, Offered, Held
    <3> QED BY <2>1, <2>2, <2>3, <3>2
  <2>4. CASE pkt.data # <<>>
    <3>1. pkt.seq >= tcb.rcv_nxt
      BY <1>1, <1>3
    <3> HIDE DEF pkt
    <3>2. LET t == tcp_recv_data(z, pkt).tcb
          IN  /\ t.rcv_nxt = tcb.rcv_nxt + Len(pkt.data) /\ pkt.seq = tcb.rcv_nxt
              /\ Limit(t) = Limit(tcb) /\ Held(t, s_got)
      BY <1>1, <1>2, <1>9, <1>10, <2>1, <2>4, <3>1, DataUpload
    <3>3. /\ v.tcb.rcv_nxt = tcb.rcv_nxt + Len(pkt.data) /\ pkt.seq = tcb.rcv_nxt
          /\ Limit(v.tcb) = Limit(tcb) /\ Held(v.tcb, s_got)
      BY <2>1, <3>2
    <3> HIDE DEF d
    <3> QED BY <1>7, <2>1, <2>2, <3>3
  <2> QED BY <2>3, <2>4
<1> QED BY <1>1, <1>4, <1>8, <1>12, <1>14, DaemonUpload

\* A SYN begins a session before the client has sent a byte.
LEMMA SynUpload ==
  ASSUME IInv, UploadInv, NoWrap, NoWrap', Turn("handle_tcp"),
         NEW connect \in {"ok", "refused", "in_progress"}, handle_tcp_syn(connect)
  PROVE  UploadInv'
<1> DEFINE v == Accepting(connect)
           q == Tail(to_relay)
           out == to_client'
           i0 == Iss'
<1>1. /\ tcb = NULL /\ Syn(pkt) /\ isn' = isn + 1 /\ s_got' = <<>> /\ to_relay' = q
      /\ tcb' = v.tcb /\ client' = client /\ out = to_client \o v.out
  BY DEF handle_tcp_syn, Handled, Ends, Syn
<1>2. NewSession(v, i0)
  BY <1>1, AcceptingFacts
<1>3. /\ ~Opened(to_relay, client)
      /\ Early(client) => \A p \in Packets(to_client) : "RST" \in p.flags
  BY <1>1, SynBegins
<1>4. /\ to_relay \in Seq(Packet) /\ to_client \in Seq(Packet) /\ client \in ClientState
      /\ DataPlaced(to_relay) /\ (client.st = "syn_sent" => client.nxt = Irs + 1)
  BY UploadFacts
<1>5. q \in Seq(Packet) /\ Packets(q) \subseteq Packets(to_relay) /\ Len(q) \in Nat
      /\ \A i \in 1..Len(q) : q[i] \in Packets(q)
  BY HandleBegins, QueueFacts
<1> HIDE DEF v, q, i0
<1>6. \A p \in Packets(q) : p.data = <<>>
  BY <1>3, <1>4, <1>5 DEF Opened, DataPlaced
<1>7. client.st # "open" /\ (client.st # "reset" => Early(client))
  BY <1>3, <1>4 DEF Opened, ClientState, Early
<1>8. Packets(out) \subseteq Packets(to_client) \cup Packets(v.out)
  <2>1. v.out \in Seq(Packet)
    BY <1>2 DEF NewSession, DaemonOK, World
  <2> QED BY <1>1, <1>4, <2>1, PacketsConcat
<1>9. \A p \in Packets(v.out) : "RST" \in p.flags
  BY <1>2 DEF NewSession
<1>10. <<>> = Upto(0) /\ Len(<<>>) = 0 /\ <<>> \in Seq(Byte)
  <2>1. Upto(0) = <<>>
    BY DEF Upto
  <2> QED BY <2>1
<1>11. ASSUME Live(v.tcb)
       PROVE  Held(v.tcb, <<>>) /\ v.tcb.rcv_nxt = Irs + 1
  <2>1. v.tcb.state = "SYN_RECVD" /\ v.tcb.rcv_nxt = Irs + 1 /\ DaemonOK(v, i0, 0, Again)
        /\ v.tcb # NULL
    BY <1>2, <1>11 DEF NewSession, Live
  <2>2. rb_used(v.tcb.inbuf) = 0 /\ v.tcb \in Tcb
    BY <2>1 DEF DaemonOK, Watched, World
  <2>3. v.tcb.inbuf.kept = <<>>
    <3>1. v.tcb.inbuf \in Queues(Byte)
      BY <2>2, TcbTypes
    <3>2. v.tcb.inbuf.kept \in Seq(Byte) /\ Len(v.tcb.inbuf.kept) = 0
      BY <2>2, <3>1 DEF Queues, rb_used
    <3> QED BY <3>2
  <2>4. (Irs + 1) - (Irs + 1) = 0
    BY Numbers
  <2> QED BY <1>10, <2>1, <2>3, <2>4 DEF Held
<1>12. ASSUME NEW r, NEW e PROVE Flows(r, e, q, out, client)
  <2>1. InOrder(r, q) /\ Within(e, q)
    BY <1>5, <1>6 DEF InOrder, Within
  <2>2. Follows(r, q, client) /\ EdgeAt(e, client)
    BY <1>7 DEF Follows, EdgeAt
  <2>3. client.st # "reset" => Answers(r, e, out)
    BY <1>3, <1>7, <1>8, <1>9 DEF Answers
  <2> QED BY <2>1, <2>2, <2>3 DEF Flows
<1>13. DataPlaced(q)
  BY <1>6, <1>5 DEF DataPlaced
<1> HIDE DEF out
<1>14. UploadOK(v.tcb, <<>>, q, out, client)
  BY <1>4, <1>10, <1>11, <1>12, <1>13 DEF UploadOK
<1> QED BY <1>1, <1>14 DEF UploadInv, out

\* A packet of handle_tcp.
LEMMA HandleUpload ==
  ASSUME ~spoilt', IInv, UploadInv, IInv', NoWrap, NoWrap', handle_tcp
  PROVE  UploadInv'
<1>1. Turn("handle_tcp")
  BY DEF handle_tcp
<1>2. ASSUME NEW connect \in {"ok"} \cup (Outcomes \cap {"refused", "in_progress"}),
             handle_tcp_syn(connect)
      PROVE  UploadInv'
  <2>1. connect \in {"ok", "refused", "in_progress"}
    OBVIOUS
  <2> QED BY <1>1, <1>2, <2>1, SynUpload
<1> QED BY <1>1, <1>2, OldUpload, SegmentUpload DEF handle_tcp
-----------------------------------------------------------------------------
(* The client. *)

\* The client's window ends where the offer does, or before.
LEMMA EdgeMeans ==
  ASSUME EdgeFits, NoWrap, NEW e \in Int, e <= Irs + ClientLen + 2 + BufSize,
         NEW c \in ClientState, c.st = "open", c.nxt \in ClientSeq, EdgeAt(e, c)
  PROVE  c.nxt + IntDiff(c.edge, c.nxt) <= e
<1>1. PICK m \in (Irs + 1)..e : c.edge = m % SeqMod
  BY DEF EdgeAt
<1> DEFINE x == c.nxt
           d == m - x
           a == SeqAdd(x, d)
<1>2. /\ Irs \in Int /\ ClientLen \in Int /\ BufSize \in Int /\ SeqMod \in Int
      /\ ClientLen >= 0 /\ BufSize >= 0
      /\ 2 * (ClientLen + BufSize + 2) < SeqMod
  BY Numbers, SizeTypes DEF EdgeFits
<1>3. x \in uint /\ x \in Int /\ x >= Irs + 1 /\ x <= Irs + ClientLen + 2
  BY ClientNumbers, <1>2 DEF ClientSeq
<1>4. m \in Int /\ m >= Irs + 1 /\ m <= e
  BY <1>1, <1>2
<1> HIDE DEF x
<1>5. d \in Int /\ 2 * d < SeqMod /\ -SeqMod <= 2 * d /\ -SeqMod <= d /\ d <= SeqMod
  BY <1>2, <1>3, <1>4
<1>6. a = c.edge
  <2>1. x + d = m
    BY <1>3, <1>4
  <2> HIDE DEF d
  <2> QED BY <1>1, <2>1 DEF SeqAdd
<1> HIDE DEF d
<1>7. a \in uint /\ (a = x + d \/ a = x + d - SeqMod \/ a = x + d + SeqMod)
  BY <1>3, <1>5, SeqAddMeans
<1> HIDE DEF a
<1>8. IntDiff(a, x) = d
  BY <1>3, <1>5, <1>7, IntDiffMeans
<1>9. x + d = m
  BY <1>3, <1>4 DEF d
<1> QED BY <1>4, <1>6, <1>8, <1>9 DEF x

\* What the client does while the session lasts, seen from the flow.
Moves(r, e, q, c) ==
    c.st = "open" => c.una <= r /\ (c.nxt <= Irs + ClientLen => Reached(r, q, c.nxt, Len(q) + 1))

\* The client does something but send.
LEMMA SilentUpload ==
  ASSUME IInv, UploadInv, IInv', UNCHANGED <<relay, server>>, to_relay' = to_relay,
         Packets(to_client') \subseteq Packets(to_client),
         client'.st = "syn_sent" => client'.nxt = Irs + 1,
         client'.st # "reset" => client.st # "reset",
         Live(tcb) => Moves(tcb.rcv_nxt, Limit(tcb), to_relay, client')
                      /\ EdgeAt(Limit(tcb), client')
  PROVE  UploadInv'
<1> DEFINE c == client'
           out == to_client'
           q == to_relay
<1>1. tcb' = tcb /\ s_got' = s_got
  BY DEF relay, server
<1>2. /\ s_got = Upto(Len(s_got)) /\ DataPlaced(q)
      /\ Live(tcb) => /\ tcb.rcv_nxt \in Int /\ Limit(tcb) \in Int /\ Held(tcb, s_got)
                      /\ Flows(tcb.rcv_nxt, Limit(tcb), q, to_client, client)
  BY UploadFacts
<1>3. q \in Seq(Packet)
  BY UploadFacts
<1> HIDE DEF c, out, q, Limit
<1>4. ASSUME Live(tcb) PROVE Held(tcb, s_got) /\ Flows(tcb.rcv_nxt, Limit(tcb), q, out, c)
  <2>1. c.st # "reset" => Answers(tcb.rcv_nxt, Limit(tcb), out)
    BY <1>2, <1>4 DEF Flows, Answers, c, out
  <2>2. /\ c.st = "open" => c.una <= tcb.rcv_nxt
                  /\ (c.nxt <= Irs + ClientLen => Reached(tcb.rcv_nxt, q, c.nxt, Len(q) + 1))
        /\ EdgeAt(Limit(tcb), c)
    BY <1>4 DEF Moves, c, q
  <2> QED BY <1>2, <1>3, <1>4, <2>1, <2>2, FlowsQuiet
<1>5. c.st = "syn_sent" => c.nxt = Irs + 1
  BY DEF c
<1>6. UploadOK(tcb, s_got, q, out, c)
  BY <1>2, <1>4, <1>5 DEF UploadOK
<1> QED BY <1>1, <1>6 DEF UploadInv, c, out, q

\* The client sends a packet.
LEMMA PostUpload ==
  ASSUME IInv, UploadInv, IInv', UNCHANGED <<relay, server>>, NEW p, to_relay' = to_relay \o <<p>>,
         Packets(to_client') \subseteq Packets(to_client),
         p.data # <<>> =>
           /\ Acks(p) /\ \A i \in 1..Len(p.data) : p.data[i] = p.seq - Irs - 1 + i
           /\ Live(tcb) => /\ Reached(tcb.rcv_nxt, to_relay, p.seq, Len(to_relay) + 1)
                           /\ p.seq + Len(p.data) <= Limit(tcb),
         client'.st = "syn_sent" => client'.nxt = Irs + 1,
         client'.st # "reset" => client.st # "reset",
         Live(tcb) => /\ \/ Moves(tcb.rcv_nxt, Limit(tcb), to_relay, client')
                         \/ /\ client'.una <= tcb.rcv_nxt
                            /\ p.data # <<>> /\ client'.nxt <= p.seq + Len(p.data)
                      /\ EdgeAt(Limit(tcb), client')
  PROVE  UploadInv'
<1> DEFINE c == client'
           out == to_client'
           q == to_relay
           t == q \o <<p>>
<1>1. tcb' = tcb /\ s_got' = s_got
  BY DEF relay, server
<1>2. /\ s_got = Upto(Len(s_got)) /\ DataPlaced(q) /\ q \in Seq(Packet)
      /\ Live(tcb) => /\ tcb.rcv_nxt \in Int /\ Limit(tcb) \in Int /\ Held(tcb, s_got)
                      /\ Flows(tcb.rcv_nxt, Limit(tcb), q, to_client, client)
  BY UploadFacts
<1>3. c \in ClientState /\ p \in Packet
  <2>1. c \in ClientState /\ t \in Seq(Packet)
    BY DEF IInv, ProgramTypeOK
  <2>2. Len(t) = Len(q) + 1 /\ t[Len(q) + 1] = p /\ Len(q) \in Nat
    BY <1>2
  <2> HIDE DEF t
  <2>3. Len(q) + 1 \in 1..Len(t)
    BY <2>2
  <2> QED BY <2>1, <2>2, <2>3
<1> HIDE DEF c, out, q, Limit
<1>4. ASSUME Live(tcb) PROVE Held(tcb, s_got) /\ Flows(tcb.rcv_nxt, Limit(tcb), t, out, c)
  <2> DEFINE r == tcb.rcv_nxt
             e == Limit(tcb)
  <2>1. c.st # "reset" => Answers(r, e, out)
    BY <1>2, <1>4 DEF Flows, Answers, c, out
  <2>2. /\ c.st = "open" =>
             /\ c.una <= r
             /\ \/ c.nxt <= Irs + ClientLen => Reached(r, q, c.nxt, Len(q) + 1)
                \/ p.data # <<>> /\ c.nxt <= p.seq + Len(p.data)
        /\ EdgeAt(e, c)
    BY <1>4 DEF Moves, c, q
  <2>3. p.data # <<>> => Reached(r, q, p.seq, Len(q) + 1) /\ p.seq + Len(p.data) <= e
    BY <1>4 DEF q
  <2>4. r \in Int /\ e \in Int /\ Held(tcb, s_got) /\ Flows(r, e, q, to_client, client)
    BY <1>2, <1>4
  <2> HIDE DEF r, e
  <2>5. client \in ClientState /\ q \in Seq(Packet)
    BY <1>2, UploadFacts
  <2>6. Flows(r, e, q \o <<p>>, out, c)
    BY <1>3, <2>1, <2>2, <2>3, <2>4, <2>5, FlowsMore
  <2> QED BY <2>4, <2>6 DEF r, e
<1>5. c.st = "syn_sent" => c.nxt = Irs + 1
  BY DEF c
<1>6. DataPlaced(t)
  <2>1. Packets(t) \subseteq Packets(q) \cup {p}
    BY <1>2, OneSent
  <2> HIDE DEF t
  <2> QED BY <1>2, <2>1 DEF DataPlaced
<1> HIDE DEF t
<1>7. UploadOK(tcb, s_got, t, out, c)
  BY <1>2, <1>4, <1>5, <1>6 DEF UploadOK
<1> QED BY <1>1, <1>7 DEF UploadInv, c, out, q, t

\* The flow of an open client.
LEMMA OpenUpload ==
  ASSUME IInv, UploadInv, NoWrap, client.st = "open", Live(tcb)
  PROVE  LET r == tcb.rcv_nxt
             e == Limit(tcb)
         IN  /\ r \in Int /\ e \in Int /\ e <= Irs + ClientLen + 2 + BufSize
             /\ Moves(r, e, to_relay, client) /\ EdgeAt(e, client)
             /\ client.una \in Int /\ client.nxt \in Int /\ client.nxt \in ClientSeq
             /\ client \in ClientState
<1> DEFINE r == tcb.rcv_nxt
           e == Limit(tcb)
<1>1. /\ client \in ClientState /\ client.nxt \in ClientSeq /\ client.una \in ClientSeq
  BY OpenClient
<1>2. client.una \in Int /\ client.nxt \in Int
  BY <1>1, ClientTypes
<1>3. /\ tcb \in Tcb /\ r \in Int /\ e \in Int /\ r \in ClientSeq
      /\ e = r + rb_left(tcb.inbuf) /\ Flows(r, e, to_relay, to_client, client)
  BY UploadFacts
<1>4. Moves(r, e, to_relay, client) /\ EdgeAt(e, client)
  BY <1>3 DEF Flows, Follows, Moves
<1>5. rb_left(tcb.inbuf) \in Int /\ rb_left(tcb.inbuf) <= BufSize /\ BufSize \in Int
  <2>1. rb_used(tcb.inbuf) \in Nat
    BY <1>3, OfferedIsInt
  <2> QED BY <2>1, SizeTypes DEF rb_left
<1>6. r <= Irs + ClientLen + 2 /\ Irs \in Int /\ ClientLen \in Int
  BY <1>3, Numbers DEF ClientSeq
<1> HIDE DEF r, e
<1>7. e <= Irs + ClientLen + 2 + BufSize
  BY <1>3, <1>5, <1>6 DEF r
<1> QED BY <1>1, <1>2, <1>3, <1>4, <1>7 DEF r, e

\* The client sends a SYN, reads, sends again from una, or resets.
LEMMA QuietClientUpload ==
  ASSUME IInv, UploadInv, IInv', NoWrap, ClientSyn \/ ClientRead \/ ClientRexmit \/ ClientAbort
  PROVE  UploadInv'
<1>1. /\ UNCHANGED <<relay, server>> /\ to_client' = to_client
  BY DEF ClientSyn, ClientRead, ClientRexmit, ClientAbort, ClientActs
<1>2. client \in ClientState /\ to_relay \in Seq(Packet)
  BY UploadFacts
<1>3. CASE ClientSyn
  <2> DEFINE p == [flags |-> {"SYN"}, seq |-> Irs, ack |-> 0, wnd |-> ClientWnd, data |-> <<>>]
             c == [client EXCEPT !.st = "syn_sent", !.nxt = FirstSeq]
  <2>1. to_relay' = to_relay \o <<p>> /\ client' = c /\ client.st \in {"closed", "syn_sent"}
    BY <1>3 DEF ClientSyn, ClientActs
  <2>2. p.data = <<>>
    OBVIOUS
  <2>3. c.st = "syn_sent" /\ c.nxt = Irs + 1
    BY <1>2, ClientNumbers DEF ClientState
  <2> HIDE DEF p, c
  <2>4. Moves(tcb.rcv_nxt, Limit(tcb), to_relay, client') /\ EdgeAt(Limit(tcb), client')
    BY <2>1, <2>3 DEF Moves, EdgeAt
  <2> HIDE DEF Limit
  <2> QED BY <1>1, <2>1, <2>2, <2>3, <2>4, PostUpload
<1>4. CASE ClientRead
  <2> DEFINE c == [client EXCEPT !.read = Len(client.got)]
             p == ClientPacket(c, {"ACK"}, client.nxt, <<>>)
  <2>1. to_relay' = to_relay \o <<p>> /\ client' = c /\ client.st = "open"
    BY <1>4 DEF ClientRead, ClientActs
  <2>2. p.data = <<>>
    BY DEF ClientPacket
  <2>3. c.st = "open" /\ c.nxt = client.nxt /\ c.una = client.una /\ c.edge = client.edge
    BY <1>2, <2>1 DEF ClientState
  <2> HIDE DEF p, c
  <2>4. ASSUME Live(tcb)
        PROVE  Moves(tcb.rcv_nxt, Limit(tcb), to_relay, client') /\ EdgeAt(Limit(tcb), client')
    <3>1. Moves(tcb.rcv_nxt, Limit(tcb), to_relay, client) /\ EdgeAt(Limit(tcb), client)
      BY <2>1, <2>4, OpenUpload
    <3> QED BY <2>1, <2>3, <3>1 DEF Moves, EdgeAt
  <2> HIDE DEF Limit
  <2> QED BY <1>1, <2>1, <2>2, <2>3, <2>4, PostUpload
<1>5. CASE ClientRexmit
  <2> DEFINE c == [client EXCEPT !.nxt = client.una]
  <2>1. to_relay' = to_relay \o <<>> /\ client' = c /\ client.st = "open"
    BY <1>5 DEF ClientRexmit, ClientActs
  <2>2. to_relay' = to_relay
    BY <1>2, <2>1, OneSent
  <2>3. c.st = "open" /\ c.nxt = client.una /\ c.una = client.una /\ c.edge = client.edge
    BY <1>2, <2>1 DEF ClientState
  <2> HIDE DEF c
  <2>4. ASSUME Live(tcb)
        PROVE  Moves(tcb.rcv_nxt, Limit(tcb), to_relay, client') /\ EdgeAt(Limit(tcb), client')
    <3>1. Moves(tcb.rcv_nxt, Limit(tcb), to_relay, client) /\ EdgeAt(Limit(tcb), client)
      BY <2>1, <2>4, OpenUpload
    <3> QED BY <2>1, <2>3, <3>1 DEF Moves, EdgeAt, Reached
  <2> HIDE DEF Limit
  <2> QED BY <1>1, <2>1, <2>2, <2>3, <2>4, SilentUpload
<1>6. CASE ClientAbort
  <2> DEFINE c == [client EXCEPT !.st = "reset"]
             p == ClientPacket(client, {"RST", "ACK"}, client.nxt, <<>>)
  <2>1. to_relay' = to_relay \o <<p>> /\ client' = c
    BY <1>6 DEF ClientAbort, ClientActs
  <2>2. p.data = <<>>
    BY DEF ClientPacket
  <2>3. c.st = "reset"
    BY <1>2 DEF ClientState
  <2> HIDE DEF p, c
  <2>4. Moves(tcb.rcv_nxt, Limit(tcb), to_relay, client') /\ EdgeAt(Limit(tcb), client')
    BY <2>1, <2>3 DEF Moves, EdgeAt
  <2> HIDE DEF Limit
  <2> QED BY <1>1, <2>1, <2>2, <2>3, <2>4, PostUpload
<1> QED BY <1>3, <1>4, <1>5, <1>6

\* The client sends the next bytes of its stream, and the FIN.
LEMMA SendUpload ==
  ASSUME IInv, UploadInv, IInv', NoWrap, EdgeFits, NEW n \in Nat, NEW fin \in BOOLEAN,
         ClientSend(n, fin)
  PROVE  UploadInv'
<1> DEFINE x == client.nxt
           from == ClientSent
           f == IF fin THEN 1 ELSE 0
           fl == IF fin THEN {"ACK", "FIN"} ELSE {"ACK"}
           data == [i \in 1..n |-> from + i]
           c == [client EXCEPT !.nxt = SeqAdd(x, n + f)]
           p == ClientPacket(client, fl, x, data)
<1>1. /\ UNCHANGED <<relay, server>> /\ to_client' = to_client
      /\ to_relay' = to_relay \o <<p>> /\ client' = c /\ client.st = "open"
      /\ from + n <= ClientLen /\ n + f <= IntDiff(client.edge, x)
      /\ n > 0 \/ fin
      /\ fin => from + n = ClientLen
  BY DEF ClientSend, ClientActs
<1>2. /\ client \in ClientState /\ x \in ClientSeq /\ x \in uint
  BY <1>1, OpenClient
<1>3. /\ Irs \in Int /\ 0 <= Irs /\ ClientLen \in Int /\ SeqMod \in Int /\ ClientLen + 2 + Irs < SeqMod
      /\ f \in Int /\ f >= 0 /\ n + f \in Int
  BY Numbers, SizeTypes DEF NoWrap
<1>4. x \in Int /\ from = x - (Irs + 1) /\ x >= Irs + 1
  <2>1. x \in Int /\ from = x - Irs - 1
    BY <1>2, ClientNumbers DEF ClientSent
  <2> QED BY <1>2, <1>3, <2>1 DEF ClientSeq
<1> HIDE DEF from
<1>5. Len(data) = n /\ (data # <<>> <=> n > 0) /\ \A i \in 1..n : data[i] = from + i
  <2>1. data \in Seq(Int)
    BY <1>3, <1>4
  <2>2. Len(data) = n
    OBVIOUS
  <2>3. \A i \in 1..n : data[i] = from + i
    OBVIOUS
  <2> HIDE DEF data
  <2> QED BY <2>1, <2>2, <2>3
<1>6. p.data = data /\ p.seq = x /\ p.flags = fl
  BY DEF ClientPacket
<1>7. Acks(p)
  BY <1>6 DEF Acks
<1>8. c.st = "open" /\ c.una = client.una /\ c.edge = client.edge /\ c.nxt = SeqAdd(x, n + f)
  BY <1>1, <1>2 DEF ClientState
<1> HIDE DEF x, data, c, p, f
<1>9. n + f <= ClientLen + 1 - from
  BY <1>1, <1>3, <1>4 DEF f
<1>10. SeqAdd(x, n + f) = x + (n + f)
  <2>1. x + (n + f) \in 0..(SeqMod - 1)
    BY <1>3, <1>4, <1>9
  <2> QED BY <1>3, <1>4, <2>1, SeqAddFacts
<1>11. p.data # <<>> => \A i \in 1..Len(p.data) : p.data[i] = p.seq - Irs - 1 + i
  <2> SUFFICES ASSUME NEW i \in 1..n PROVE data[i] = x - Irs - 1 + i
    BY <1>5, <1>6
  <2>1. data[i] = from + i
    BY <1>5
  <2> QED BY <1>3, <1>4, <2>1
<1>12. ASSUME Live(tcb)
       PROVE  /\ p.data # <<>> => /\ Reached(tcb.rcv_nxt, to_relay, p.seq, Len(to_relay) + 1)
                                  /\ p.seq + Len(p.data) <= Limit(tcb)
              /\ \/ Moves(tcb.rcv_nxt, Limit(tcb), to_relay, client')
                 \/ /\ client'.una <= tcb.rcv_nxt
                    /\ p.data # <<>> /\ client'.nxt <= p.seq + Len(p.data)
              /\ EdgeAt(Limit(tcb), client')
  <2> DEFINE r == tcb.rcv_nxt
             e == Limit(tcb)
             end == IntDiff(client.edge, x)
  <2>1. /\ r \in Int /\ e \in Int /\ e <= Irs + ClientLen + 2 + BufSize
        /\ Moves(r, e, to_relay, client) /\ EdgeAt(e, client)
    BY <1>1, <1>12, OpenUpload
  <2>2. client.edge \in uint
    BY <1>2 DEF ClientState
  <2>3. end \in Int /\ n + f <= end
    BY <1>1, <1>2, <2>2, IntDiffFacts
  <2>4. x + end <= e
    BY <1>1, <1>2, <2>1, EdgeMeans DEF x
  <2> HIDE DEF r, e, end
  <2>5. x + n <= e
    BY <1>3, <1>4, <2>1, <2>3, <2>4
  <2>6. client.una <= r /\ (x <= Irs + ClientLen => Reached(r, to_relay, x, Len(to_relay) + 1))
    BY <1>1, <2>1 DEF Moves, x
  <2>7. n > 0 => x <= Irs + ClientLen
    BY <1>1, <1>3, <1>4
  <2>8. p.data # <<>> => Reached(r, to_relay, p.seq, Len(to_relay) + 1) /\ p.seq + Len(p.data) <= e
    BY <1>5, <1>6, <2>5, <2>6, <2>7
  <2>9. \/ Moves(r, e, to_relay, c)
        \/ c.una <= r /\ p.data # <<>> /\ c.nxt <= p.seq + Len(p.data)
    <3>1. CASE fin
      <4>1. c.nxt = Irs + ClientLen + 2
        BY <1>1, <1>3, <1>4, <1>8, <1>10, <3>1 DEF f
      <4>2. ~(c.nxt <= Irs + ClientLen)
        BY <1>3, <4>1
      <4> QED BY <1>8, <2>6, <4>2 DEF Moves
    <3>2. CASE ~fin
      <4>1. n > 0 /\ c.nxt = x + n
        BY <1>1, <1>3, <1>4, <1>8, <1>10, <3>2 DEF f
      <4>2. c.nxt <= p.seq + Len(p.data) /\ p.data # <<>>
        BY <1>4, <1>5, <1>6, <4>1
      <4> QED BY <1>8, <2>6, <4>2
    <3> QED BY <3>1, <3>2
  <2>10. EdgeAt(e, c)
    BY <1>1, <1>8, <2>1 DEF EdgeAt
  <2> QED BY <1>1, <2>8, <2>9, <2>10 DEF r, e
<1> HIDE DEF Limit
<1> QED BY <1>1, <1>7, <1>8, <1>11, <1>12, PostUpload

\* An answer of the daemon says no more than the daemon knows.
LEMMA AnswerSays ==
  ASSUME IInv, UploadInv, NoWrap, Live(tcb), client.st # "reset",
         NEW p \in Packets(to_client), p \in Packet, "RST" \notin p.flags
  PROVE  /\ p.ack \in Int /\ p.wnd \in Int /\ p.ack <= tcb.rcv_nxt
         /\ \E m \in (Irs + 1)..Limit(tcb) : SeqAdd(p.ack, p.wnd) = m % SeqMod
<1>1. /\ Limit(tcb) \in Int /\ Flows(tcb.rcv_nxt, Limit(tcb), to_relay, to_client, client)
  BY UploadFacts
<1>2. p.ack <= tcb.rcv_nxt /\ p.ack + p.wnd <= Limit(tcb)
  BY <1>1 DEF Flows, Answers
<1>3. p.ack \in Int /\ p.wnd \in Int /\ p.wnd >= 0
  BY PacketNumbers
<1>4. p.ack \in ClientSeq /\ Irs \in Int
  BY Numbers DEF IInv, ToClientOK
<1>5. p.ack >= Irs + 1
  BY <1>4 DEF ClientSeq
<1> HIDE DEF Limit
<1>6. p.ack + p.wnd \in (Irs + 1)..Limit(tcb)
  BY <1>1, <1>2, <1>3, <1>4, <1>5
<1> QED BY <1>2, <1>3, <1>6 DEF SeqAdd

\* The client receives an answer.
LEMMA ReceiveUpload ==
  ASSUME IInv, UploadInv, IInv', NoWrap, ClientReceive
  PROVE  UploadInv'
<1> DEFINE p == Head(to_client)
           opened == [client EXCEPT !.st = "open", !.rcv = SeqAdd(p.seq, 1), !.una = p.ack,
                                    !.edge = SeqAdd(p.ack, p.wnd)]
           gone == [client EXCEPT !.st = "reset"]
           taken == ClientTakes(p)
           c == client'
           Told == Live(tcb) => Moves(tcb.rcv_nxt, Limit(tcb), to_relay, c) /\ EdgeAt(Limit(tcb), c)
<1>1. /\ client \in ClientState /\ to_client \in Seq(Packet) /\ to_relay \in Seq(Packet)
      /\ client.st = "syn_sent" => client.nxt = Irs + 1
  BY UploadFacts
<1>2. to_client # <<>> /\ to_client' = Tail(to_client) /\ UNCHANGED <<relay, server>>
  BY DEF ClientReceive, ClientActs
<1>3. p \in Packet /\ p \in Packets(to_client) /\ Packets(to_client') \subseteq Packets(to_client)
  BY <1>1, <1>2, PacketsTail
<1>4. \/ c = gone /\ to_relay' = to_relay
      \/ /\ "RST" \notin p.flags
         /\ \/ client.st = "reset" /\ c = client
            \/ client.st = "syn_sent" /\ c = opened
            \/ client.st = "open" /\ c = taken
         /\ \/ to_relay' = to_relay
            \/ \E r : to_relay' = to_relay \o <<r>> /\ r.data = <<>>
  <2>1. to_relay \o <<>> = to_relay
    BY <1>1, OneSent
  <2>2. \A x, fl, s : ClientPacket(x, fl, s, <<>>).data = <<>>
    BY DEF ClientPacket
  <2>3. \/ c = gone /\ to_relay' = to_relay \o <<>>
        \/ /\ "RST" \notin p.flags /\ client.st = "reset" /\ c = client
           /\ to_relay' = to_relay \o <<ClientPacket(client, {"RST"}, p.ack, <<>>)>>
        \/ /\ "RST" \notin p.flags /\ client.st = "syn_sent" /\ c = opened
           /\ to_relay' = to_relay \o <<ClientPacket(opened, {"ACK"}, opened.nxt, <<>>)>>
        \/ /\ "RST" \notin p.flags /\ client.st = "open" /\ c = taken
           /\ \/ to_relay' = to_relay \o <<>>
              \/ to_relay' = to_relay \o <<ClientPacket(taken, {"ACK"}, taken.nxt, <<>>)>>
    <3>1. \/ "RST" \in p.flags /\ ClientActs(gone, <<>>)
          \/ /\ "RST" \notin p.flags /\ client.st = "reset"
             /\ ClientActs(client, <<ClientPacket(client, {"RST"}, p.ack, <<>>)>>)
          \/ /\ p.flags = {"SYN", "ACK"} /\ client.st = "syn_sent"
             /\ ClientActs(opened, <<ClientPacket(opened, {"ACK"}, opened.nxt, <<>>)>>)
          \/ /\ p.flags \cap {"SYN", "RST"} = {} /\ client.st = "open"
             /\ \/ ClientActs(taken, <<ClientPacket(taken, {"ACK"}, taken.nxt, <<>>)>>)
                \/ ClientActs(taken, <<>>)
      BY DEF ClientReceive
    <3>2. \A x, s : ClientActs(x, s) => c = x /\ to_relay' = to_relay \o s
      BY DEF ClientActs
    <3> HIDE DEF p, opened, gone, taken, c
    <3>3. /\ p.flags = {"SYN", "ACK"} => "RST" \notin p.flags
          /\ p.flags \cap {"SYN", "RST"} = {} => "RST" \notin p.flags
      OBVIOUS
    <3> QED BY <3>1, <3>2, <3>3
  <2> HIDE DEF p, opened, gone, taken, c
  <2> QED BY <2>1, <2>2, <2>3
<1>5. gone.st = "reset"
  BY <1>1 DEF ClientState
<1>6. /\ opened.st = "open" /\ opened.una = p.ack /\ opened.nxt = client.nxt
      /\ opened.edge = SeqAdd(p.ack, p.wnd)
  BY <1>1 DEF ClientState
<1>7. /\ taken.st = client.st /\ taken.edge = SeqAdd(p.ack, p.wnd)
      /\ taken.una \in {client.una, p.ack} /\ taken.nxt \in {client.nxt, p.ack}
  <2>1. /\ taken.st = client.st /\ taken.edge = SeqAdd(p.ack, p.wnd)
        /\ taken.una = IF IntDiff(p.ack, client.una) > 0 THEN p.ack ELSE client.una
        /\ taken.nxt = IF IntDiff(p.ack, client.nxt) > 0 THEN p.ack ELSE client.nxt
    BY <1>1 DEF ClientState, ClientTakes
  <2> HIDE DEF taken, p
  <2> QED BY <2>1
<1> HIDE DEF p, opened, gone, taken, c
<1>8. Told /\ (c.st # "reset" => client.st # "reset") /\ c.st # "syn_sent"
  <2>1. CASE c.st = "reset"
    BY <2>1 DEF Moves, EdgeAt
  <2>2. ASSUME c.st # "reset"
        PROVE  /\ "RST" \notin p.flags /\ client.st # "reset" /\ c.st = "open"
               /\ \/ client.st = "syn_sent" /\ c = opened
                  \/ client.st = "open" /\ c = taken
    BY <1>4, <1>5, <1>6, <1>7, <2>2
  <2>3. ASSUME c.st # "reset", Live(tcb)
        PROVE  Moves(tcb.rcv_nxt, Limit(tcb), to_relay, c) /\ EdgeAt(Limit(tcb), c)
    <3> DEFINE r == tcb.rcv_nxt
               e == Limit(tcb)
    <3>1. p.ack \in Int /\ p.ack <= r /\ \E m \in (Irs + 1)..e : SeqAdd(p.ack, p.wnd) = m % SeqMod
      BY <1>3, <2>2, <2>3, AnswerSays
    <3>2. r \in ClientSeq /\ r \in Int
      BY <2>3, UploadFacts
    <3>3. Irs + 1 <= r
      BY <3>2, Numbers DEF ClientSeq
    <3>4. client.st = "open" => Moves(r, e, to_relay, client)
      BY <2>3, OpenUpload
    <3> HIDE DEF r, e
    <3>5. EdgeAt(e, c)
      BY <1>6, <1>7, <2>2, <2>3, <3>1 DEF EdgeAt
    <3>6. Moves(r, e, to_relay, c)
      <4>1. CASE client.st = "syn_sent" /\ c = opened
        <5>1. c.una <= r /\ c.nxt <= r
          BY <1>1, <1>6, <3>1, <3>3, <4>1
        <5> QED BY <5>1 DEF Moves, Reached
      <4>2. CASE client.st = "open" /\ c = taken
        <5>1. c.una <= r
          BY <1>7, <3>1, <3>4, <4>2 DEF Moves
        <5>2. c.nxt <= Irs + ClientLen => Reached(r, to_relay, c.nxt, Len(to_relay) + 1)
          <6>1. CASE taken.nxt = client.nxt
            BY <3>4, <4>2, <6>1 DEF Moves
          <6>2. CASE taken.nxt = p.ack
            BY <3>1, <4>2, <6>2 DEF Reached
          <6> QED BY <1>7, <6>1, <6>2
        <5> QED BY <5>1, <5>2 DEF Moves
      <4> QED BY <2>2, <2>3, <4>1, <4>2
    <3> QED BY <3>5, <3>6 DEF r, e
  <2> QED BY <2>1, <2>2, <2>3
<1>9. CASE to_relay' = to_relay
  BY <1>2, <1>3, <1>8, <1>9, SilentUpload DEF c
<1>10. ASSUME NEW r, to_relay' = to_relay \o <<r>>, r.data = <<>>
       PROVE  UploadInv'
  <2> HIDE DEF Limit
  <2> QED BY <1>2, <1>3, <1>8, <1>10, PostUpload DEF c
<1> QED BY <1>4, <1>9, <1>10
-----------------------------------------------------------------------------
(* The network. *)

\* A packet is lost that holds no bytes, or one comes twice.
LEMMA NetworkUpload ==
  ASSUME ~spoilt', IInv, UploadInv, IInv', Network
  PROVE  UploadInv'
<1> DEFINE q == to_relay
           c == client
           r == tcb.rcv_nxt
           e == Limit(tcb)
<1>1. UNCHANGED <<relay, server, client>>
  BY DEF Network, LoseToClient, LoseToRelay, DupToRelay
<1>2. /\ q \in Seq(Packet) /\ to_client \in Seq(Packet) /\ c \in ClientState
      /\ s_got = Upto(Len(s_got)) /\ DataPlaced(q)
      /\ c.st = "syn_sent" => c.nxt = Irs + 1
  BY UploadFacts
<1>3. Live(tcb) => /\ r \in Int /\ e \in Int /\ Held(tcb, s_got) /\ Flows(r, e, q, to_client, c)
  BY UploadFacts
<1>4. Live(tcb) => Moves(r, e, q, c) /\ EdgeAt(e, c)
  BY <1>3 DEF Flows, Follows, Moves
<1>5. CASE LoseToClient
  <2>1. to_client # <<>> /\ to_client' = Tail(to_client) /\ to_relay' = to_relay
    BY <1>5 DEF LoseToClient
  <2>2. Packets(to_client') \subseteq Packets(to_client)
    BY <1>2, <2>1, PacketsTail
  <2> HIDE DEF Limit
  <2> QED BY <1>1, <1>2, <1>4, <2>1, <2>2, SilentUpload
<1>6. CASE LoseToRelay
  <2>1. to_relay # <<>> /\ to_relay' = Tail(to_relay) /\ to_client' = to_client /\ pkt.data = <<>>
    BY <1>6 DEF LoseToRelay
  <2>2. UploadOK(tcb, s_got, Tail(q), to_client, c)
    <3>1. Head(q).data = <<>>
      BY <2>1 DEF pkt
    <3>2. Packets(Tail(q)) \subseteq Packets(q)
      BY <1>2, <2>1, PacketsTail
    <3>3. q # <<>>
      BY <2>1
    <3> HIDE DEF q, c, r, e
    <3>4. DataPlaced(Tail(q))
      BY <1>2, <3>2 DEF DataPlaced
    <3>5. Live(tcb) => Flows(r, e, Tail(q), to_client, c)
      BY <1>2, <1>3, <3>1, <3>3, FlowsTaken
    <3> QED BY <1>2, <1>3, <3>4, <3>5 DEF UploadOK, r, e
  <2>3. tcb' = tcb /\ s_got' = s_got /\ client' = client
    BY <1>1 DEF relay, server
  <2> QED BY <2>1, <2>2, <2>3 DEF UploadInv
<1>7. CASE DupToRelay
  <2> DEFINE p == pkt
  <2>1. q # <<>> /\ to_relay' = Append(q, p) /\ to_client' = to_client
    BY <1>7 DEF DupToRelay
  <2>2. /\ p = q[1] /\ p \in Packet /\ p \in Packets(q) /\ Len(q) \in Nat /\ 1 \in 1..Len(q)
        /\ to_relay' = q \o <<p>>
    <3>1. p = q[1] /\ p \in Packet /\ Len(q) \in Nat /\ 1 \in 1..Len(q) /\ q[1] \in Packets(q)
      BY <1>2, <2>1, QueueFacts DEF pkt
    <3>2. Append(q, p) = q \o <<p>>
      BY <1>2, <3>1
    <3> QED BY <2>1, <3>1, <3>2
  <2>3. p.data # <<>> => Acks(p) /\ \A i \in 1..Len(p.data) : p.data[i] = p.seq - Irs - 1 + i
    BY <1>2, <2>2 DEF DataPlaced
  <2>4. ASSUME Live(tcb), p.data # <<>>
        PROVE  Reached(r, q, p.seq, Len(q) + 1) /\ p.seq + Len(p.data) <= e
    <3>1. Reached(r, q, p.seq, 1)
      BY <1>3, <2>2, <2>4 DEF Flows, InOrder
    <3>2. p.seq <= r
      BY <3>1 DEF Reached
    <3>3. p.seq + Len(p.data) <= e
      BY <1>3, <2>2, <2>4 DEF Flows, Within
    <3> QED BY <3>2, <3>3 DEF Reached
  <2> HIDE DEF p, Limit
  <2> QED BY <1>1, <1>2, <1>4, <2>1, <2>2, <2>3, <2>4, PostUpload
<1> QED BY <1>5, <1>6, <1>7 DEF Network
-----------------------------------------------------------------------------
(* The stream the IPv4 peer gets. *)

\* Every step of the daemon, the client, the peer and the network that throws away no
\* bytes of the client keeps UploadInv.
LEMMA UploadStep ==
  ASSUME ~spoilt', EdgeFits, IInv, UploadInv, NoWrap, NoWrap', [Next]_vars
  PROVE  UploadInv'
<1>1. IInv'
  BY NextStep
<1>2. CASE SocketCallback
  <2>1. ASSUME NEW e \in FdEvent, dangling_callback(e) PROVE UploadInv'
    BY <2>1, LoopUpload
  <2>2. ASSUME NEW k \in 0..BufSize, handle_fd_can_write(k) PROVE UploadInv'
    BY <1>1, <2>2, CanWriteUpload
  <2>3. ~handle_fd_can_write_again
    BY DEF handle_fd_can_write_again
  <2> QED BY <1>1, <1>2, <2>1, <2>2, <2>3, SocketUpload DEF SocketCallback
<1>3. CASE handle_tcp
  BY <1>1, <1>3, HandleUpload
<1>4. CASE tcp_timeout \/ tcp_remove
  BY <1>1, <1>4, TimerUpload
<1>5. CASE do_tcb_write
  BY <1>1, <1>5, WriteUpload
<1>6. CASE Client
  <2>1. CASE ClientReceive
    BY <1>1, <2>1, ReceiveUpload
  <2>2. CASE ClientSyn \/ ClientRead \/ ClientRexmit \/ ClientAbort
    BY <1>1, <2>2, QuietClientUpload
  <2>3. CASE (\E n \in 1..Mss : ClientSend(n, FALSE)) \/ ClientCloses
    <3>1. 1..Mss \subseteq Nat /\ 0..Mss \subseteq Nat
      BY SizeTypes
    <3>2. \E n \in Nat, fin \in BOOLEAN : ClientSend(n, fin)
      BY <2>3, <3>1 DEF ClientCloses
    <3> QED BY <1>1, <3>2, SendUpload
  <2> QED BY <1>6, <2>1, <2>2, <2>3 DEF Client, ClientGoesOn
<1>7. CASE Network
  BY <1>1, <1>7, NetworkUpload
<1>8. CASE \/ Waits \/ UNCHANGED vars
           \/ \E ready \in SUBSET (FdEvent \cup {"handle_tcp"}) : SelectFds(ready)
           \/ \E e \in Timer : SelectTimer(e)
  BY <1>8, LoopUpload
<1> QED BY <1>2, <1>3, <1>4, <1>5, <1>6, <1>7, <1>8 DEF Next, Callback

\* At first nothing is sent and there is no session.
LEMMA UploadInit == Init => UploadInv
<1> SUFFICES ASSUME Init PROVE UploadInv
  OBVIOUS
<1>1. tcb = NULL /\ to_relay = <<>> /\ s_got = <<>> /\ client.st = "closed"
  BY DEF Init
<1>2. Upto(0) = <<>> /\ Len(<<>>) = 0 /\ Packets(<<>>) = {}
  BY DEF Upto, Packets
<1> QED BY <1>1, <1>2 DEF UploadInv, UploadOK, DataPlaced, Live

\* The upload is in order until bytes of it are thrown away.
LEMMA UploadAlways ==
  ASSUME EdgeFits
  PROVE  Spec /\ []NoWrap => [](spoilt \/ UploadInv)
<1>1. /\ TypeOK /\ IInv /\ NoWrap /\ NoWrap' /\ [Next]_vars
      /\ spoilt \/ UploadInv
      => (spoilt \/ UploadInv)'
  BY UploadStep, HistoryStep DEF TypeOK
<1>2. Init => spoilt \/ UploadInv
  BY UploadInit
<1> QED BY InvAlways, TypesAlways, <1>1, <1>2, PTL DEF Spec

\* What is written to the IPv4 socket is a prefix of what the client sent, whatever the
\* client sends again and the network repeats, unless bytes of it were thrown away: by a
\* write that took less than it was given, with a lost packet of data, or with a segment
\* dropped for the old bytes in it.  handle_tcp lets a segment through by a comparison
\* with rcv_nxt and does not look whether it is the next one, which holds because
\* nothing under way is beyond what was sent, in order, and inside the window.
THEOREM UploadIntactAlways ==
  ASSUME EdgeFits
  PROVE  Spec /\ []NoWrap => []UploadIntact
<1>1. spoilt \/ UploadInv => UploadIntact
  BY DEF UploadInv, UploadOK, UploadIntact, ServerGetsPrefix
<1> QED BY UploadAlways, <1>1, PTL

\* Every byte the daemon acknowledged to the client was written to the IPv4 socket or is
\* in inbuf, until bytes are thrown away in one of the three ways: tcp_recv_data adds the
\* length of the segment to rcv_nxt without a look at what rb_write took, and the window
\* the daemon offered keeps the segment within it.
THEOREM AckedIsHeldAlways ==
  ASSUME EdgeFits
  PROVE  Spec /\ []NoWrap => []AckedIsHeld
<1>1. ASSUME IInv, spoilt \/ UploadInv, NoWrap PROVE AckedIsHeld
  <2> SUFFICES ASSUME ~spoilt, tcb # NULL, tcb.state = "ESTABLISHED"
               PROVE  s_got \o tcb.inbuf.kept = Upto(IntDiff(tcb.rcv_nxt, FirstSeq))
    BY DEF AckedIsHeld
  <2>1. Live(tcb) /\ UploadInv
    BY <1>1 DEF Live
  <2>2. tcb.rcv_nxt \in ClientSeq /\ tcb.rcv_nxt \in Int /\ Held(tcb, s_got)
    BY <1>1, <2>1, UploadFacts
  <2>3. IntDiff(tcb.rcv_nxt, FirstSeq) = tcb.rcv_nxt - (Irs + 1)
    <3>1. IntDiff(tcb.rcv_nxt, FirstSeq) = tcb.rcv_nxt - Irs - 1 /\ Irs \in Int
      BY <1>1, <2>2, ClientNumbers, Numbers
    <3> QED BY <2>2, <3>1
  <2> QED BY <2>2, <2>3 DEF Held
<1> QED BY InvAlways, UploadAlways, <1>1, PTL
=============================================================================
