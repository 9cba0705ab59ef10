--------------------------- MODULE TcpRelay_proofs --------------------------
(***************************************************************************)
(* The inductive invariant of TcpRelay and what follows from it.  Its      *)
(* parts are operators on the daemon's state w, its initial sequence       *)
(* number iss, the packets q on their way to it and the client's state c.  *)
(***************************************************************************)
EXTENDS TcpRelay, Tcp_proofs, SequenceTheorems

\* The daemon's initial sequence number in the session it has now.
Iss == (isn * IssStep) % SeqMod

\* Neither stream of a session carries its sequence numbers over the wrap:
\* tcp.c compares them as plain unsigned values.
NoWrap ==
    /\ 2 * (ClientLen + 2) < SeqMod /\ 2 * (ServerLen + 2) < SeqMod
    /\ Irs + ClientLen + 2 < SeqMod
    /\ Iss + ServerLen + 2 < SeqMod

Again == "write_again" \in Outcomes

Packets(q) == {q[i] : i \in 1..Len(q)}

Syn(p) == p.flags = {"SYN"}
Acks(p) == "ACK" \in p.flags /\ "RST" \notin p.flags
Ending(p) == p.seq + Len(p.data) + (IF "FIN" \in p.flags THEN 1 ELSE 0)

InSynRecvd(w) == w.tcb # NULL /\ w.tcb.state = "SYN_RECVD"
Past(w) == w.tcb # NULL /\ w.tcb.state # "SYN_RECVD"
SynSent(w, iss) == InSynRecvd(w) /\ w.tcb.snd_nxt = iss + 1
Connecting(w) == w.map # NULL /\ w.map.e_fd_write = "handle_fd_did_connect"

\* Before the SYN is sent exactly one thing is waited for; then nothing is.
HandshakeOK(w, iss) ==
    InSynRecvd(w) =>
      /\ w.tcb.rcv_nxt = Irs + 1
      /\ w.tcb.e_tcb_send # NULL \/ w.map.e_fd_write # NULL => w.tcb.snd_nxt = iss
      /\ w.tcb.e_tcb_send = NULL \/ w.map.e_fd_write = NULL
      /\ w.listed["handle_fd_can_write"] = 0

\* The callbacks of the pass are those of listed events and of the tun device.
RunOK(r, l, q) ==
    \/ r = {"undefined"}
    \/ /\ \A e \in r : e = "handle_tcp" \/ (e \in Event /\ l[e] > 0)
       /\ "handle_tcp" \in r => q # <<>>
       /\ \A e \in r : e \in Timer \cup {"do_tcb_write"} => r = {e}

\* Sequence numbers of the client: from that after its SYN to that after its FIN.
ClientSeq == (Irs + 1)..(Irs + ClientLen + 2)

\* The client's packets.
FromClient(p) ==
    /\ p.flags \in {{"SYN"}, {"RST"}, {"RST", "ACK"}, {"ACK"}, {"ACK", "FIN"}}
    /\ Syn(p) => p.seq = Irs
    /\ Acks(p) => p.seq >= Irs + 1 /\ Ending(p) <= Irs + ClientLen + 2

\* The client has not seen the daemon's SYN yet.
Early(c) == c.st \in {"closed", "syn_sent"}
HasSyn(q) == \E p \in Packets(q) : Syn(p)
Opened(q, c) == c.st = "open" \/ \E p \in Packets(q) : Acks(p)

\* No SYN comes after another packet.
SynsFirst(q) == \A i, j \in 1..Len(q) : i < j /\ Syn(q[j]) => Syn(q[i])

ToRelayOK(q, c) ==
    /\ \A p \in Packets(q) : FromClient(p)
    /\ SynsFirst(q)
    /\ Early(c) => \A p \in Packets(q) : Syn(p)

\* Of what has been sent, a client that waits for a SYN sees only that SYN.
ToClientOK(w, iss, out, c) ==
    \A p \in Packets(out) :
      "RST" \notin p.flags =>
        /\ p.ack \in ClientSeq
        /\ Early(c) => SynSent(w, iss) /\ p.flags = {"SYN", "ACK"} /\ p.seq = iss /\ p.data = <<>>

\* How far the client and the daemon are.
PhasesOK(w, iss, q, c) ==
    /\ Opened(q, c) => /\ ~Connecting(w)
                       /\ HasSyn(q) => SynSent(w, iss)
                       /\ InSynRecvd(w) => SynSent(w, iss)
    /\ Past(w) \/ w.listed["handle_fd_can_write"] > 0 => ~Early(c) /\ ~HasSyn(q)

\* Nothing is acknowledged that was not sent.
AcksOK(w, iss, q, out, c) ==
    w.tcb # NULL =>
      /\ \A p \in Packets(q) : Acks(p) => p.ack \in (iss + 1)..SendLimit(w.tcb)
      /\ c.st = "open" =>
           /\ c.rcv \in (iss + 1)..SendLimit(w.tcb)
           /\ \A p \in Packets(out) :
                "RST" \notin p.flags /\ "SYN" \notin p.flags =>
                  iss + 1 <= p.seq /\ Ending(p) <= SendLimit(w.tcb)

ClientOK(c) ==
    /\ c.st \in {"syn_sent", "open"} => c.nxt \in ClientSeq
    /\ c.st = "open" => c.una \in ClientSeq
    /\ Len(c.got) - c.read \in 0..ClientWnd

RcvNxtOK(w) == w.tcb # NULL => w.tcb.rcv_nxt \in ClientSeq

\* The inductive invariant.
IInv ==
    /\ ProgramTypeOK
    /\ DaemonOK(w0, Iss, s_sent, Again) /\ HandshakeOK(w0, Iss)
    /\ RunOK(run, listed, to_relay)
    /\ ToRelayOK(to_relay, client) /\ ToClientOK(w0, Iss, to_client, client)
    /\ PhasesOK(w0, Iss, to_relay, client) /\ AcksOK(w0, Iss, to_relay, to_client, client)
    /\ ClientOK(client) /\ RcvNxtOK(w0)
-----------------------------------------------------------------------------
(* Constants and queues of packets. *)

\* The constants are numbers.
LEMMA Numbers ==
  /\ Irs \in uint /\ Irs \in Nat /\ ClientLen \in Nat /\ ServerLen \in Nat
  /\ ClientWnd \in uint /\ ClientWnd \in Nat
<1>1. Irs \in uint /\ ClientLen \in Nat /\ ServerLen \in Nat /\ ClientWnd \in uint
  BY RelayAssumption
<1>2. Irs \in Int /\ 0 <= Irs /\ ClientWnd \in Int /\ 0 <= ClientWnd
  BY <1>1, UintIsInt
<1>3. Irs \in Nat /\ ClientWnd \in Nat
  BY <1>2
<1> QED BY <1>1, <1>3

\* next_isn returns a sequence number.
LEMMA IssIsNat == ASSUME isn \in Nat PROVE Iss \in Nat
<1> DEFINE k == isn * IssStep
<1>1. IssStep \in uint
  BY RelayAssumption
<1>2. IssStep \in Int
  BY <1>1, UintIsInt
<1>3. k \in Int
  BY <1>2
<1> HIDE DEF k
<1>4. k % SeqMod \in Nat
  BY <1>3, SeqModAssumption
<1> QED BY <1>4 DEF Iss, k

\* A packet is added, or several are.
LEMMA PacketsConcat ==
  ASSUME NEW q \in Seq(Packet), NEW r \in Seq(Packet)
  PROVE  q \o r \in Seq(Packet) /\ Packets(q \o r) = Packets(q) \cup Packets(r)
<1>1. /\ q \o r \in Seq(Packet) /\ Len(q \o r) = Len(q) + Len(r)
      /\ \A i \in 1..(Len(q) + Len(r)) : (q \o r)[i] = IF i <= Len(q) THEN q[i] ELSE r[i - Len(q)]
  BY ConcatProperties
<1>2. Len(q) \in Nat /\ Len(r) \in Nat
  OBVIOUS
<1>3. ASSUME NEW i \in 1..Len(q \o r) PROVE (q \o r)[i] \in Packets(q) \cup Packets(r)
  BY <1>1, <1>2 DEF Packets
<1>4. ASSUME NEW i \in 1..Len(q) PROVE q[i] \in Packets(q \o r)
  <2>1. i \in 1..Len(q \o r) /\ (q \o r)[i] = q[i]
    BY <1>1, <1>2
  <2> QED BY <2>1 DEF Packets
<1>5. ASSUME NEW i \in 1..Len(r) PROVE r[i] \in Packets(q \o r)
  <2>1. i + Len(q) \in 1..Len(q \o r) /\ (q \o r)[i + Len(q)] = r[i]
    BY <1>1, <1>2
  <2> QED BY <2>1 DEF Packets
<1> QED BY <1>1, <1>3, <1>4, <1>5 DEF Packets

\* The packets of a queue of one, and of none.
LEMMA PacketsSmall ==
  ASSUME NEW p \in Packet
  PROVE  /\ <<p>> \in Seq(Packet) /\ Packets(<<p>>) = {p}
         /\ <<>> \in Seq(Packet) /\ Packets(<<>>) = {}
<1>1. <<p>> \in Seq(Packet) /\ Len(<<p>>) = 1 /\ <<p>>[1] = p /\ <<>> \in Seq(Packet) /\ Len(<<>>) = 0
  OBVIOUS
<1> QED BY <1>1 DEF Packets

\* The first packet is taken.
LEMMA PacketsTail ==
  ASSUME NEW q \in Seq(Packet), q # <<>>
  PROVE  /\ Head(q) \in Packet /\ Head(q) \in Packets(q) /\ Tail(q) \in Seq(Packet)
         /\ Packets(Tail(q)) \subseteq Packets(q)
         /\ Packets(q) \subseteq Packet
<1>1. /\ Head(q) \in Packet /\ Tail(q) \in Seq(Packet) /\ Len(Tail(q)) = Len(q) - 1
      /\ \A i \in 1..Len(Tail(q)) : Tail(q)[i] = q[i + 1]
      /\ Len(q) \in Nat /\ Len(q) > 0 /\ Head(q) = q[1]
  BY HeadTailProperties
<1>2. ASSUME NEW i \in 1..Len(Tail(q)) PROVE Tail(q)[i] \in Packets(q)
  <2>1. i + 1 \in 1..Len(q) /\ Tail(q)[i] = q[i + 1]
    BY <1>1
  <2> QED BY <2>1 DEF Packets
<1>3. Head(q) \in Packets(q)
  BY <1>1 DEF Packets
<1> QED BY <1>1, <1>2, <1>3 DEF Packets

\* SYNs stay first when the first packet is taken, and when no SYN is added after
\* another packet; a first packet that is none means that there is none.
LEMMA SynsFirstFacts ==
  ASSUME NEW q \in Seq(Packet), SynsFirst(q)
  PROVE  /\ q # <<>> => SynsFirst(Tail(q))
         /\ q # <<>> /\ ~Syn(Head(q)) => ~HasSyn(q)
         /\ \A p \in Packet : (Syn(p) => \A r \in Packets(q) : Syn(r)) => SynsFirst(q \o <<p>>)
<1>1. Len(q) \in Nat
  OBVIOUS
<1>2. ASSUME q # <<>> PROVE SynsFirst(Tail(q))
  <2>1. /\ Len(Tail(q)) = Len(q) - 1
        /\ \A i \in 1..Len(Tail(q)) : Tail(q)[i] = q[i + 1] /\ i + 1 \in 1..Len(q)
    BY <1>1, <1>2, HeadTailProperties
  <2> SUFFICES ASSUME NEW i \in 1..Len(Tail(q)), NEW j \in 1..Len(Tail(q)), i < j, Syn(Tail(q)[j])
               PROVE  Syn(Tail(q)[i])
    BY DEF SynsFirst
  <2>2. i + 1 < j + 1
    BY <1>1, <2>1
  <2> QED BY <2>1, <2>2 DEF SynsFirst
<1>3. ASSUME q # <<>>, ~Syn(Head(q)) PROVE ~HasSyn(q)
  <2>1. Head(q) = q[1] /\ Len(q) > 0
    BY <1>3
  <2>2. ASSUME NEW j \in 1..Len(q) PROVE ~Syn(q[j])
    <3>1. CASE j = 1
      BY <1>3, <2>1, <3>1
    <3>2. CASE j # 1
      <4>1. 1 < j /\ 1 \in 1..Len(q)
        BY <1>1, <3>2
      <4> QED BY <1>3, <2>1, <4>1 DEF SynsFirst
    <3> QED BY <3>1, <3>2
  <2> QED BY <2>2 DEF HasSyn, Packets
<1>4. ASSUME NEW p \in Packet, Syn(p) => \A r \in Packets(q) : Syn(r) PROVE SynsFirst(q \o <<p>>)
  <2> DEFINE s == q \o <<p>>
  <2>1. <<p>> \in Seq(Packet) /\ Len(<<p>>) = 1 /\ <<p>>[1] = p
    OBVIOUS
  <2>2. /\ Len(s) = Len(q) + 1
        /\ \A i \in 1..(Len(q) + 1) : s[i] = IF i <= Len(q) THEN q[i] ELSE <<p>>[i - Len(q)]
    BY <2>1, ConcatProperties
  <2> HIDE DEF s
  <2> SUFFICES ASSUME NEW i \in 1..Len(s), NEW j \in 1..Len(s), i < j, Syn(s[j])
               PROVE  Syn(s[i])
    BY DEF SynsFirst, s
  <2>3. i \in 1..Len(q) /\ s[i] = q[i]
    BY <1>1, <2>2
  <2>4. CASE j <= Len(q)
    <3>1. j \in 1..Len(q) /\ s[j] = q[j]
      BY <1>1, <2>2, <2>4
    <3> QED BY <2>3, <3>1 DEF SynsFirst
  <2>5. CASE ~(j <= Len(q))
    <3>1. j - Len(q) = 1 /\ s[j] = <<p>>[j - Len(q)]
      BY <1>1, <2>2, <2>5
    <3>2. Syn(p)
      BY <2>1, <3>1
    <3> QED BY <1>4, <2>3, <3>2 DEF Packets
  <2> QED BY <2>4, <2>5
<1> QED BY <1>2, <1>3, <1>4
-----------------------------------------------------------------------------
(* The end of a callback. *)

\* While the daemon waits for the answer to its SYN no event is listed.
LEMMA SynSentWaits ==
  ASSUME NEW w, NEW iss \in Nat, NEW sent, DaemonOK(w, iss, sent, Again), HandshakeOK(w, iss),
         SynSent(w, iss), NEW e \in Event
  PROVE  w.listed[e] = 0
<1>1. /\ w \in World /\ w.tcb # NULL /\ w.tcb.state = "SYN_RECVD" /\ w.tcb.snd_nxt # iss
      /\ w.tcb \in Tcb
  BY DEF DaemonOK, World, SynSent, InSynRecvd
<1>2. w.tcb.e_tcb_send = NULL /\ w.map.e_fd_write = NULL /\ w.listed["handle_fd_can_write"] = 0
  BY <1>1 DEF HandshakeOK, InSynRecvd
<1>3. w.map.e_fd_read = NULL
  BY <1>1 DEF DaemonOK, Watched
<1>4. w.tcb.e_timeout = NULL
  <2>1. w.tcb.e_timeout \in {NULL} \cup Timer
    BY <1>1, TcbTypes
  <2> QED BY <1>1, <2>1 DEF DaemonOK, SessionOK, TimerOf, Timer, Sending
<1>5. NULL \notin Event
  BY TcpAssumption DEF Event, FdEvent, FdWrite, Timer
<1>6. ~PointsTo(w, e)
  BY <1>2, <1>3, <1>4, <1>5 DEF PointsTo
<1>7. CASE e = "handle_fd_can_write"
  BY <1>2, <1>7
<1>8. CASE e # "handle_fd_can_write"
  BY <1>5, <1>6, <1>8 DEF DaemonOK, ListedAs
<1> QED BY <1>7, <1>8

\* What is left of a pass are again callbacks of listed events and of the tun device.
LEMMA RunAfter ==
  ASSUME RunOK(run, listed, to_relay), NEW e \in Event \cup {"handle_tcp"}, Turn(e),
         NEW v, v.listed \in [Event -> Nat], NEW q, e # "handle_tcp" => q = to_relay
  PROVE  RunOK(Rest(e, v), v.listed, q) /\ Rest(e, v) \subseteq Event \cup {"handle_tcp"}
<1> DEFINE fds == {f \in run \ {e} : f = "handle_tcp" \/ v.listed[f] > 0}
           more == {f \in {"do_tcb_write"} : v.listed[f] > 0}
<1>1. e # "undefined"
  BY DEF Event, FdEvent, FdWrite, Timer
<1>2. e \in run /\ (e = "handle_tcp" => run = {e})
  BY DEF Turn
<1>3. /\ \A f \in run : f = "handle_tcp" \/ (f \in Event /\ listed[f] > 0)
      /\ "handle_tcp" \in run => to_relay # <<>>
      /\ \A f \in run : f \in Timer \cup {"do_tcb_write"} => run = {f}
  BY <1>1, <1>2 DEF RunOK
<1>4. \A f \in fds : /\ f \in run /\ f # e /\ f # "handle_tcp" => f \in Event /\ v.listed[f] > 0
                     /\ f \notin Timer \cup {"do_tcb_write"} /\ e # "handle_tcp"
  BY <1>2, <1>3
<1>5. RunOK(fds, v.listed, q) /\ fds \subseteq Event \cup {"handle_tcp"}
  BY <1>3, <1>4 DEF RunOK
<1>6. RunOK(more, v.listed, q) /\ more \subseteq Event \cup {"handle_tcp"}
  BY DEF RunOK, Event
<1>7. Rest(e, v) = fds \/ Rest(e, v) = more
  BY DEF Rest
<1> QED BY <1>5, <1>6, <1>7

\* The daemon's state after a callback, its packets sent.
LEMMA AfterCallback ==
  ASSUME NEW v \in World, NEW e, Ends(e, v), to_client \in Seq(Packet)
  PROVE  /\ w0' = [v EXCEPT !.out = <<>>] /\ w0' \in World
         /\ w0'.tcb = v.tcb /\ w0'.map = v.map /\ w0'.listed = v.listed
         /\ tcb' = v.tcb /\ map' = v.map /\ listed' = v.listed
         /\ to_client' \in Seq(Packet) /\ Packets(to_client') = Packets(to_client) \cup Packets(v.out)
         /\ run' = Rest(e, v) /\ client' = client /\ faults' = faults
<1>1. v = [tcb |-> v.tcb, map |-> v.map, listed |-> v.listed, out |-> v.out] /\ v.out \in Seq(Packet)
      /\ v.tcb \in Tcb \cup {NULL} /\ v.map \in TcpMap \cup {NULL} /\ v.listed \in [Event -> Nat]
  BY DEF World
<1>2. /\ tcb' = v.tcb /\ map' = v.map /\ listed' = v.listed
      /\ to_client' = to_client \o v.out /\ run' = Rest(e, v)
      /\ client' = client /\ faults' = faults
  BY DEF Ends
<1>3. w0' = [tcb |-> v.tcb, map |-> v.map, listed |-> v.listed, out |-> <<>>]
  BY <1>2 DEF w0
<1>4. w0' \in World /\ w0' = [v EXCEPT !.out = <<>>]
  <2>1. <<>> \in Seq(Packet)
    OBVIOUS
  <2>2. w0' \in World
    BY <1>1, <1>3, <2>1 DEF World
  <2>3. [v EXCEPT !.out = <<>>]
        = [tcb |-> v.tcb, map |-> v.map, listed |-> v.listed, out |-> <<>>]
    BY <1>1
  <2> QED BY <1>3, <2>2, <2>3
<1>5. to_client' \in Seq(Packet) /\ Packets(to_client') = Packets(to_client) \cup Packets(v.out)
  BY <1>1, <1>2, PacketsConcat
<1> QED BY <1>2, <1>3, <1>4, <1>5

\* That the packets are sent changes nothing about the session.
LEMMA OutIrrelevant ==
  ASSUME NEW v, NEW u \in World, u.tcb = v.tcb, u.map = v.map, u.listed = v.listed,
         NEW iss, NEW sent, DaemonOK(v, iss, sent, Again)
  PROVE  DaemonOK(u, iss, sent, Again)
<1>1. Matched(u) /\ Watched(u) /\ ListedAs(u, NULL, Again)
  BY DEF DaemonOK, Matched, Watched, ListedAs, PointsTo
<1> QED BY <1>1 DEF DaemonOK
-----------------------------------------------------------------------------
(* A callback other than handle_tcp. *)

\* The abstract state of Session, and what its steps may do to it.
St(w) == IF w.tcb = NULL THEN "CLOSED" ELSE w.tcb.state
Sock(w) ==
    IF w.map = NULL THEN "none"
    ELSE IF w.map.e_fd_write = "handle_fd_did_connect" THEN "connecting" ELSE "connected"

LifeStep(w, v) ==
    \/ St(v) = St(w) /\ Sock(v) = Sock(w)
    \/ /\ St(w) = "CLOSED" /\ St(v) = "SYN_RECVD" /\ Sock(v) \in {"connecting", "connected"}
    \/ Sock(w) = "connecting" /\ Sock(v) = "connected" /\ St(v) = St(w)
    \/ /\ St(w) = "SYN_RECVD" /\ Sock(w) = "connected"
       /\ \/ St(v) = "ESTABLISHED" /\ Sock(v) = Sock(w)
          \/ St(v) = "LAST_ACK" /\ Sock(v) = "none"
    \/ St(w) = "ESTABLISHED" /\ St(v) \in {"FIN_WAIT_1", "LAST_ACK"} /\ Sock(v) = "none"
    \/ /\ \/ St(w) = "FIN_WAIT_1" /\ St(v) \in {"FIN_WAIT_2", "CLOSING", "TIME_WAIT"}
          \/ St(w) \in {"FIN_WAIT_2", "CLOSING"} /\ St(v) = "TIME_WAIT"
       /\ Sock(v) = Sock(w)
    \/ St(w) # "CLOSED" /\ St(v) = "CLOSED" /\ Sock(v) = "none"

\* A packet that a callback leading from w to v may send.
SentOK(w, v, iss, p) ==
    "RST" \notin p.flags =>
      /\ v.tcb # NULL /\ p.ack = v.tcb.rcv_nxt
      /\ \/ SynSent(v, iss) /\ p.flags = {"SYN", "ACK"} /\ p.seq = iss /\ p.data = <<>>
         \/ /\ Past(w) /\ Past(v) /\ "SYN" \notin p.flags
            /\ iss + 1 <= p.seq /\ Ending(p) <= SendLimit(v.tcb)

\* What a callback other than handle_tcp may do.
Quiet(w, v, iss, sent) ==
    /\ DaemonOK(v, iss, sent, Again) /\ HandshakeOK(v, iss)
    /\ v.tcb # NULL =>
         /\ w.tcb # NULL /\ v.tcb.rcv_nxt = w.tcb.rcv_nxt /\ SendLimit(v.tcb) >= SendLimit(w.tcb)
         /\ v.tcb.state = "SYN_RECVD" <=> w.tcb.state = "SYN_RECVD"
    /\ Connecting(v) => Connecting(w)
    /\ v.listed["handle_fd_can_write"] > 0 => w.listed["handle_fd_can_write"] > 0
    /\ \A p \in Packets(v.out) : SentOK(w, v, iss, p)
    /\ LifeStep(w, v)

\* The number after the last one that may be sent is a number.
LEMMA SendLimitIsInt ==
  ASSUME NEW t \in Tcb PROVE SendLimit(t) \in Int
<1>1. t.outbuf.w_seq \in uint
  BY TcbTypes
<1>2. t.outbuf.w_seq \in Int
  BY <1>1, UintIsInt
<1> QED BY <1>2 DEF SendLimit

\* Such a callback keeps the invariant.
LEMMA QuietStep ==
  ASSUME IInv, NEW e \in Event, Turn(e), ~SynSent(w0, Iss),
         NEW v, Ends(e, v), Quiet(w0, v, Iss, s_sent'),
         isn' = isn, to_relay' = to_relay, s_sent' \in 0..ServerLen, s_got' \in Seq(Byte)
  PROVE  IInv' /\ LifeStep(w0, w0')
<1>1. /\ ProgramTypeOK /\ DaemonOK(w0, Iss, s_sent, Again) /\ HandshakeOK(w0, Iss)
      /\ RunOK(run, listed, to_relay)
      /\ ToRelayOK(to_relay, client) /\ ToClientOK(w0, Iss, to_client, client)
      /\ PhasesOK(w0, Iss, to_relay, client) /\ AcksOK(w0, Iss, to_relay, to_client, client)
      /\ ClientOK(client) /\ RcvNxtOK(w0)
  BY DEF IInv
<1>2. /\ DaemonOK(v, Iss, s_sent', Again) /\ HandshakeOK(v, Iss)
      /\ v.tcb # NULL =>
           /\ w0.tcb # NULL /\ v.tcb.rcv_nxt = w0.tcb.rcv_nxt
           /\ SendLimit(v.tcb) >= SendLimit(w0.tcb)
           /\ v.tcb.state = "SYN_RECVD" <=> w0.tcb.state = "SYN_RECVD"
      /\ Connecting(v) => Connecting(w0)
      /\ v.listed["handle_fd_can_write"] > 0 => w0.listed["handle_fd_can_write"] > 0
      /\ \A p \in Packets(v.out) : SentOK(w0, v, Iss, p)
      /\ LifeStep(w0, v)
  BY DEF Quiet
<1>3. v \in World /\ w0 \in World /\ to_client \in Seq(Packet) /\ v.listed \in [Event -> Nat]
      /\ v.tcb \in Tcb \cup {NULL} /\ v.map \in TcpMap \cup {NULL} /\ w0.tcb \in Tcb \cup {NULL}
  BY <1>1, <1>2 DEF DaemonOK, ProgramTypeOK, World
<1> DEFINE u == w0'
<1>4. /\ u \in World
      /\ u.tcb = v.tcb /\ u.map = v.map /\ u.listed = v.listed
      /\ tcb' = v.tcb /\ map' = v.map /\ listed' = v.listed
      /\ to_client' \in Seq(Packet) /\ Packets(to_client') = Packets(to_client) \cup Packets(v.out)
      /\ run' = Rest(e, v) /\ client' = client /\ faults' = faults
  BY <1>3, AfterCallback
<1>5. Iss' = Iss
  BY DEF Iss
<1> HIDE DEF u
<1>6. RunOK(run', listed', to_relay') /\ run' \subseteq Event \cup {"handle_tcp"}
  BY <1>1, <1>3, <1>4, RunAfter DEF Event, FdEvent, FdWrite, Timer
<1>7. ProgramTypeOK'
  <2>1. /\ isn \in Nat /\ to_relay \in Seq(Packet) /\ client \in ClientState
        /\ faults \in 0..MaxFaults
    BY <1>1 DEF ProgramTypeOK
  <2> QED BY <1>3, <1>4, <1>6, <2>1 DEF ProgramTypeOK
<1>8. DaemonOK(u, Iss, s_sent', Again)
  BY <1>2, <1>4, OutIrrelevant
<1>9. HandshakeOK(u, Iss)
  BY <1>2, <1>4 DEF HandshakeOK, InSynRecvd
<1>10. ToRelayOK(to_relay, client) /\ ClientOK(client)
  BY <1>1
<1>11. ASSUME NEW p \in Packets(to_client'), "RST" \notin p.flags
       PROVE  /\ p.ack \in ClientSeq
              /\ Early(client) => /\ SynSent(u, Iss) /\ p.flags = {"SYN", "ACK"}
                                  /\ p.seq = Iss /\ p.data = <<>>
  <2>1. CASE p \in Packets(to_client)
    BY <1>1, <1>11, <2>1 DEF ToClientOK
  <2>2. CASE p \in Packets(v.out)
    <3>1. SentOK(w0, v, Iss, p)
      BY <1>2, <2>2
    <3>2. p.ack \in ClientSeq
      BY <1>1, <1>2, <1>11, <3>1 DEF SentOK, RcvNxtOK
    <3>3. Past(w0) => ~Early(client)
      BY <1>1 DEF PhasesOK
    <3>4. SynSent(v, Iss) => SynSent(u, Iss)
      BY <1>4 DEF SynSent, InSynRecvd
    <3> QED BY <1>11, <3>1, <3>2, <3>3, <3>4 DEF SentOK
  <2> QED BY <1>4, <2>1, <2>2
<1>12. ToClientOK(u, Iss, to_client', client)
  BY <1>11 DEF ToClientOK
<1>13. PhasesOK(u, Iss, to_relay, client)
  <2>1. Opened(to_relay, client) => /\ ~Connecting(u) /\ ~HasSyn(to_relay) /\ ~InSynRecvd(u)
    BY <1>1, <1>2, <1>4 DEF PhasesOK, Connecting, InSynRecvd
  <2>2. Past(u) \/ u.listed["handle_fd_can_write"] > 0 => ~Early(client) /\ ~HasSyn(to_relay)
    BY <1>1, <1>2, <1>4 DEF PhasesOK, Past
  <2> QED BY <2>1, <2>2 DEF PhasesOK
<1>14. AcksOK(u, Iss, to_relay, to_client', client)
  <2> SUFFICES ASSUME u.tcb # NULL
               PROVE  /\ \A p \in Packets(to_relay) : Acks(p) => p.ack \in (Iss + 1)..SendLimit(u.tcb)
                      /\ client.st = "open" =>
                           /\ client.rcv \in (Iss + 1)..SendLimit(u.tcb)
                           /\ \A p \in Packets(to_client') :
                                "RST" \notin p.flags /\ "SYN" \notin p.flags =>
                                  Iss + 1 <= p.seq /\ Ending(p) <= SendLimit(u.tcb)
    BY DEF AcksOK
  <2> DEFINE old == SendLimit(w0.tcb)
             new == SendLimit(u.tcb)
  <2>1. w0.tcb # NULL /\ new >= old /\ w0.tcb \in Tcb /\ u.tcb \in Tcb
    BY <1>2, <1>3, <1>4
  <2>2. old \in Int /\ new \in Int
    BY <2>1, SendLimitIsInt
  <2>3. /\ \A p \in Packets(to_relay) : Acks(p) => p.ack \in (Iss + 1)..old
        /\ client.st = "open" =>
             /\ client.rcv \in (Iss + 1)..old
             /\ \A p \in Packets(to_client) :
                  "RST" \notin p.flags /\ "SYN" \notin p.flags =>
                    Iss + 1 <= p.seq /\ Ending(p) <= old
    BY <1>1, <2>1 DEF AcksOK
  <2>4. Iss \in Int
    <3>1. isn \in Nat
      BY <1>1 DEF ProgramTypeOK
    <3>2. Iss \in Nat
      BY <3>1, IssIsNat
    <3> QED BY <3>2
  <2>10. \A p \in Packets(v.out) : "RST" \notin p.flags /\ "SYN" \notin p.flags =>
                    Iss + 1 <= p.seq /\ Ending(p) <= new
    BY <1>2, <1>4 DEF SentOK
  <2>11. \A p \in Packets(to_client) : Ending(p) \in Int
    <3> SUFFICES ASSUME NEW i \in 1..Len(to_client) PROVE Ending(to_client[i]) \in Int
      BY DEF Packets
    <3>1. to_client[i] \in Packet
      BY <1>3
    <3>2. to_client[i].seq \in uint /\ to_client[i].data \in Seq(Byte)
      BY <3>1 DEF Packet
    <3>3. to_client[i].seq \in Int /\ Len(to_client[i].data) \in Nat
      BY <3>2, UintIsInt
    <3> QED BY <3>3 DEF Ending
  <2> HIDE DEF old, new
  <2>5. \A a : a \in (Iss + 1)..old => a \in (Iss + 1)..new
    BY <2>1, <2>2, <2>4
  <2>6. \A p \in Packets(to_client) : "RST" \notin p.flags /\ "SYN" \notin p.flags /\ client.st = "open" =>
                    Iss + 1 <= p.seq /\ Ending(p) <= new
    BY <2>1, <2>2, <2>3, <2>11
  <2> QED BY <1>4, <2>3, <2>5, <2>6, <2>10 DEF new
<1>15. RcvNxtOK(u)
  BY <1>1, <1>2, <1>4 DEF RcvNxtOK
<1>16. IInv'
  BY <1>4, <1>5, <1>6, <1>7, <1>8, <1>9, <1>10, <1>12, <1>13, <1>14, <1>15 DEF IInv, u
<1>17. LifeStep(w0, u)
  BY <1>2, <1>4 DEF LifeStep, St, Sock
<1> QED BY <1>16, <1>17 DEF u
-----------------------------------------------------------------------------
(* The callbacks of the socket, the timers and do_tcb_write. *)

\* An event that is listed is one that tcb or map point to.
LEMMA ListedPoints ==
  ASSUME NEW w, NEW iss, NEW sent, DaemonOK(w, iss, sent, Again), NEW e \in Event,
         e # "handle_fd_can_write", w.listed[e] > 0
  PROVE  PointsTo(w, e)
<1>1. NULL \notin Event
  BY TcpAssumption DEF Event, FdEvent, FdWrite, Timer
<1>2. e # NULL
  BY <1>1
<1>3. w.listed[e] = (IF PointsTo(w, e) THEN 1 ELSE 0) + (IF e = NULL THEN 1 ELSE 0)
  BY DEF DaemonOK, ListedAs
<1> QED BY <1>2, <1>3

\* The state in which a callback is run.
LEMMA Called ==
  ASSUME IInv, NEW e \in Event, Turn(e)
  PROVE  /\ w0.listed[e] > 0 /\ ~SynSent(w0, Iss)
         /\ w0 \in World /\ DaemonOK(w0, Iss, s_sent, Again) /\ HandshakeOK(w0, Iss)
         /\ Iss \in Nat /\ s_sent \in Nat /\ s_sent \in 0..ServerLen /\ s_got \in Seq(Byte)
         /\ w0.tcb = tcb /\ w0.map = map /\ w0.listed = listed /\ w0.out = <<>>
         /\ tcb # NULL => tcb \in Tcb
         /\ map # NULL => map \in TcpMap
<1>1. ProgramTypeOK /\ RunOK(run, listed, to_relay) /\ HandshakeOK(w0, Iss)
      /\ DaemonOK(w0, Iss, s_sent, Again)
  BY DEF IInv
<1>2. e # "handle_tcp" /\ e # "undefined"
  BY DEF Event, FdEvent, FdWrite, Timer
<1>3. w0.tcb = tcb /\ w0.map = map /\ w0.listed = listed /\ w0.out = <<>>
  BY DEF w0
<1>4. w0.listed[e] > 0
  BY <1>1, <1>2, <1>3 DEF RunOK, Turn
<1>5. isn \in Nat /\ s_sent \in 0..ServerLen /\ s_got \in Seq(Byte)
      /\ tcb \in Tcb \cup {NULL} /\ map \in TcpMap \cup {NULL}
  BY <1>1 DEF ProgramTypeOK
<1>6. Iss \in Nat
  BY <1>5, IssIsNat
<1>7. ~SynSent(w0, Iss)
  <2>1. SynSent(w0, Iss) => w0.listed[e] = 0
    BY <1>1, <1>6, SynSentWaits
  <2> QED BY <1>4, <2>1
<1>8. s_sent \in Nat
  BY <1>5, Numbers
<1>9. w0 \in World
  BY <1>1 DEF DaemonOK
<1> QED BY <1>1, <1>3, <1>4, <1>5, <1>6, <1>7, <1>8, <1>9

\* The callback of an event of the map finds the tcb in the state in which the
\* event was wanted.
LEMMA CalledOfMap ==
  ASSUME IInv, NEW e \in FdEvent, OfMap(e)
  PROVE  /\ w0.tcb # NULL /\ w0.map # NULL /\ w0.tcb \in Tcb /\ w0.map \in TcpMap
         /\ w0.tcb.cb
         /\ e = "handle_fd_can_read" =>
              w0.tcb.state = "ESTABLISHED" /\ rb_left(w0.tcb.outbuf) > 0
         /\ e = "handle_fd_can_write" =>
              w0.tcb.state = "ESTABLISHED" /\ w0.map.e_fd_write \in {NULL, e}
         /\ e = "handle_fd_did_connect" =>
              w0.tcb.state = "SYN_RECVD" /\ w0.map.e_fd_write = e
<1>1. e \in Event /\ Turn(e) /\ map # NULL
  BY DEF OfMap, Event
<1>2. /\ w0.listed[e] > 0 /\ DaemonOK(w0, Iss, s_sent, Again) /\ HandshakeOK(w0, Iss)
      /\ w0.tcb = tcb /\ w0.map = map /\ w0.listed = listed
      /\ tcb # NULL => tcb \in Tcb
      /\ map # NULL => map \in TcpMap
  BY <1>1, Called
<1>3. w0.map # NULL /\ w0.tcb # NULL /\ w0.tcb.cb /\ w0.tcb.state \in {"SYN_RECVD", "ESTABLISHED"}
  BY <1>1, <1>2 DEF DaemonOK, Matched
<1>4. w0.tcb \in Tcb /\ w0.map \in TcpMap
  BY <1>2, <1>3
<1>5. /\ w0.tcb.e_tcb_send \in {NULL, "do_tcb_write"} /\ w0.tcb.e_timeout \in {NULL} \cup Timer
      /\ w0.map.e_fd_read \in {NULL, "handle_fd_can_read"} /\ w0.map.e_fd_write \in {NULL} \cup FdWrite
  BY <1>4, TcbTypes DEF TcpMap
<1>6. NULL \notin Event
  BY TcpAssumption DEF Event, FdEvent, FdWrite, Timer
<1>7. e # "handle_fd_can_write" => PointsTo(w0, e)
  BY <1>1, <1>2, ListedPoints
<1>8. e # "handle_fd_can_write" => e \in {w0.map.e_fd_read, w0.map.e_fd_write}
  BY <1>1, <1>5, <1>6, <1>7 DEF PointsTo, FdEvent, FdWrite, Timer
<1>9. CASE e = "handle_fd_can_read"
  <2>1. w0.map.e_fd_read = e /\ e # NULL
    BY <1>1, <1>5, <1>6, <1>8, <1>9 DEF FdWrite
  <2> QED BY <1>2, <1>3, <1>4, <1>9, <2>1 DEF DaemonOK, Watched
<1>10. CASE e = "handle_fd_can_write"
  <2>1. w0.tcb.state # "SYN_RECVD"
    BY <1>2, <1>3, <1>10 DEF HandshakeOK, InSynRecvd
  <2> QED BY <1>2, <1>3, <1>4, <1>10, <2>1 DEF DaemonOK, Watched
<1>11. CASE e = "handle_fd_did_connect"
  <2>1. w0.map.e_fd_write = e /\ e # NULL
    BY <1>1, <1>5, <1>6, <1>8, <1>11 DEF FdWrite
  <2>2. w0.tcb.state # "ESTABLISHED"
    BY <1>2, <1>3, <1>11, <2>1 DEF DaemonOK, Watched
  <2> QED BY <1>3, <1>4, <1>11, <2>1, <2>2
<1> QED BY <1>9, <1>10, <1>11 DEF FdEvent, FdWrite

\* No packet is sent by a callback that leaves out as it was.
LEMMA NothingSent ==
  ASSUME NEW w, NEW v, NEW iss, v.out = <<>>
  PROVE  \A p \in Packets(v.out) : SentOK(w, v, iss, p)
<1>1. Len(<<>>) = 0
  OBVIOUS
<1> QED BY <1>1 DEF Packets

\* A callback that stays in ESTABLISHED and sends nothing.
LEMMA QuietEstablished ==
  ASSUME NEW w, NEW v, NEW iss, NEW sent, DaemonOK(v, iss, sent, Again),
         w.tcb # NULL, v.tcb # NULL, w.map # NULL, v.map # NULL,
         w.tcb.state = "ESTABLISHED", v.tcb.state = "ESTABLISHED",
         v.tcb.rcv_nxt = w.tcb.rcv_nxt, SendLimit(v.tcb) >= SendLimit(w.tcb),
         w.map.e_fd_write # "handle_fd_did_connect",
         v.map.e_fd_write # "handle_fd_did_connect",
         v.listed["handle_fd_can_write"] > 0 => w.listed["handle_fd_can_write"] > 0,
         v.out = <<>>
  PROVE  Quiet(w, v, iss, sent)
<1>1. HandshakeOK(v, iss)
  BY DEF HandshakeOK, InSynRecvd
<1>2. ~Connecting(v)
  BY DEF Connecting
<1>3. LifeStep(w, v)
  BY DEF LifeStep, St, Sock
<1>4. \A p \in Packets(v.out) : SentOK(w, v, iss, p)
  BY NothingSent
<1> QED BY <1>1, <1>2, <1>3, <1>4 DEF Quiet

\* handle_fd_can_read with bytes to read: what was read fits into outbuf, and the
\* socket is watched for more unless outbuf is full now.
LEMMA CanReadStep ==
  ASSUME IInv, NoWrap, NEW k \in 0..BufSize, handle_fd_can_read(k)
  PROVE  IInv' /\ LifeStep(w0, w0')
<1> DEFINE e == "handle_fd_can_read"
           data == [i \in 1..k |-> s_sent + i]
           w == tcp_send(w0, data)
           m == [w.map EXCEPT !.e_fd_read = NULL]
           v == IF rb_left(w.tcb.outbuf) = 0 THEN RemoveEvent([w EXCEPT !.map = m], e) ELSE w
<1>1. e \in FdEvent /\ e \in Event /\ OfMap(e) /\ Turn(e)
  BY DEF handle_fd_can_read, OfMap, FdEvent, Event
<1>2. /\ w0.listed[e] > 0 /\ ~SynSent(w0, Iss)
      /\ w0 \in World /\ DaemonOK(w0, Iss, s_sent, Again)
      /\ Iss \in Nat /\ s_sent \in Nat /\ s_sent \in 0..ServerLen /\ s_got \in Seq(Byte)
      /\ w0.tcb = tcb /\ w0.out = <<>>
  BY <1>1, Called
<1>3. /\ w0.tcb # NULL /\ w0.map # NULL /\ w0.tcb \in Tcb /\ w0.map \in TcpMap
      /\ w0.tcb.cb /\ w0.tcb.state = "ESTABLISHED" /\ rb_left(w0.tcb.outbuf) > 0
  BY <1>1, CalledOfMap
<1>4. k \in 1..MinInt(rb_left(w0.tcb.outbuf), ServerLen - s_sent)
  BY <1>2, <1>3 DEF handle_fd_can_read
<1>5. rb_used(w0.tcb.outbuf) \in Nat /\ ServerLen \in Nat /\ BufSize \in Int
  BY <1>3, TcbTypes, Numbers, SizeTypes
<1>6. k \in Nat /\ k > 0 /\ k <= rb_left(w0.tcb.outbuf) /\ s_sent + k <= ServerLen
  BY <1>2, <1>4, <1>5 DEF MinInt, rb_left
<1>7. data \in Seq(Byte) /\ Len(data) = k /\ \A i \in 1..Len(data) : data[i] = s_sent + i
  <2>1. \A i \in 1..k : s_sent + i \in 1..ServerLen
    BY <1>2, <1>5, <1>6
  <2>2. data \in [1..k -> Byte]
    BY <2>1, RelayAssumption
  <2>3. \A i \in 1..k : data[i] = s_sent + i
    OBVIOUS
  <2> HIDE DEF data
  <2>4. data \in Seq(Byte) /\ Len(data) = k
    BY <1>6, <2>2, FunctionIsSeq
  <2> QED BY <2>3, <2>4
<1>8. Iss + s_sent + Len(data) + 2 < SeqMod
  <2>1. Iss + ServerLen + 2 < SeqMod
    BY DEF NoWrap
  <2>2. SeqMod \in Int
    BY SizeTypes
  <2> QED BY <1>2, <1>5, <1>6, <1>7, <2>1, <2>2
<1>9. /\ UNCHANGED <<isn, to_relay, s_got>> /\ s_sent' = s_sent + k
      /\ Ends(e, v)
  <2>1. w \in World
    BY <1>2, <1>3, <1>6, <1>7, <1>8, SendKeeps
  <2>2. [w EXCEPT !.map.e_fd_read = NULL] = [w EXCEPT !.map = m]
    BY <2>1 DEF World
  <2>3. k # 0
    BY <1>6
  <2> QED BY <2>2, <2>3 DEF handle_fd_can_read, EndsRemoved
<1> HIDE DEF data
<1>10. /\ w \in World /\ w.tcb \in Tcb /\ w.map = w0.map /\ w.out = w0.out
       /\ ListedAs(w, NULL, Again)
       /\ SessionOK(w.tcb, Iss, s_sent + k)
       /\ w.tcb.state = "ESTABLISHED" /\ w.tcb.cb = w0.tcb.cb
       /\ w.tcb.rcv_nxt = w0.tcb.rcv_nxt /\ w.tcb.inbuf = w0.tcb.inbuf
       /\ rb_left(w.tcb.outbuf) \in Int /\ rb_left(w.tcb.outbuf) >= 0
       /\ SendLimit(w.tcb) >= SendLimit(w0.tcb)
       /\ \A f \in Event : f # "do_tcb_write" => w.listed[f] = w0.listed[f]
  <2>1. Len(data) <= rb_left(w0.tcb.outbuf)
    BY <1>6, <1>7
  <2>2. /\ w \in World /\ w.tcb \in Tcb /\ w.map = w0.map /\ w.out = w0.out
        /\ ListedAs(w, NULL, Again)
        /\ SessionOK(w.tcb, Iss, s_sent + Len(data))
        /\ w.tcb.state = "ESTABLISHED" /\ w.tcb.cb = w0.tcb.cb
        /\ w.tcb.rcv_nxt = w0.tcb.rcv_nxt /\ w.tcb.inbuf = w0.tcb.inbuf
        /\ rb_left(w.tcb.outbuf) \in Int /\ rb_left(w.tcb.outbuf) >= 0
        /\ SendLimit(w.tcb) >= SendLimit(w0.tcb)
        /\ \A f \in Event : f # "do_tcb_write" => w.listed[f] = w0.listed[f]
    <3>1. /\ DaemonOK(w0, Iss, s_sent, Again) /\ Iss \in Nat /\ s_sent \in Nat
          /\ w0.tcb # NULL /\ w0.tcb.state = "ESTABLISHED" /\ data \in Seq(Byte)
          /\ \A i \in 1..Len(data) : data[i] = s_sent + i
      BY <1>2, <1>3, <1>7
    <3> HIDE DEF w0, Iss, Again
    <3> QED BY <1>8, <2>1, <3>1, SendKeeps, ZenonT(30)
  <2> HIDE DEF w
  <2>3. s_sent + Len(data) = s_sent + k
    BY <1>7
  <2> QED BY <2>2, <2>3
<1> HIDE DEF w
<1>11. /\ w0.map.e_fd_write \in {NULL, "handle_fd_can_write"} /\ w0.map.e_fd_read # NULL
       /\ w0.map.e_fd_write # NULL <=> rb_used(w0.tcb.inbuf) > 0
  BY <1>2, <1>3 DEF DaemonOK, Watched
<1>12. w.tcb # NULL
  BY <1>10, TcbTypes
<1>13. "handle_fd_can_write" \in Event /\ "handle_fd_can_read" \in Event
       /\ NULL # "handle_fd_can_write" /\ NULL # "handle_fd_did_connect"
  BY TcpAssumption DEF Event, FdEvent, FdWrite
<1>14. /\ v \in World /\ v.tcb = w.tcb /\ v.map # NULL /\ v.out = w.out /\ ListedAs(v, NULL, Again)
       /\ v.map.e_fd_write = w0.map.e_fd_write
       /\ v.map.e_fd_read # NULL <=> rb_left(w.tcb.outbuf) > 0
       /\ v.listed["handle_fd_can_write"] <= w0.listed["handle_fd_can_write"]
       /\ v.listed["handle_fd_can_write"] \in Int
       /\ w0.listed["handle_fd_can_write"] \in Int
  <2>0. w0.listed["handle_fd_can_write"] \in Int
    BY <1>2, <1>13 DEF World
  <2>1. CASE rb_left(w.tcb.outbuf) = 0
    <3> DEFINE u == RemoveEvent([w EXCEPT !.map = m], e)
    <3>1. m \in TcpMap /\ m.e_fd_write = w0.map.e_fd_write /\ m.e_fd_read = NULL
      BY <1>3, <1>10 DEF TcpMap
    <3>2. w.listed[e] > 0 /\ w.map # NULL
      BY <1>2, <1>3, <1>10, <1>13
    <3>3. /\ u \in World /\ u.tcb = w.tcb /\ u.map = m /\ u.out = w.out /\ u.map # NULL
          /\ u.listed["handle_fd_can_write"] <= w.listed["handle_fd_can_write"]
          /\ ListedAs(u, NULL, Again)
      BY <1>1, <1>10, <3>1, <3>2, MapEventDone
    <3>4. v = u
      BY <2>1
    <3> HIDE DEF u, m, v
    <3>5. v.listed["handle_fd_can_write"] \in Int
      BY <1>13, <3>3, <3>4 DEF World
    <3> QED BY <1>10, <1>13, <2>0, <2>1, <3>1, <3>3, <3>4, <3>5
  <2>2. CASE rb_left(w.tcb.outbuf) # 0
    <3>1. v = w
      BY <2>2
    <3> HIDE DEF v
    <3> QED BY <1>3, <1>10, <1>11, <1>13, <2>0, <2>2, <3>1
  <2> QED BY <2>1, <2>2
<1> HIDE DEF v
<1>15. DaemonOK(v, Iss, s_sent', Again)
  <2>1. Matched(v)
    BY <1>3, <1>10, <1>12, <1>14 DEF Matched
  <2>2. Watched(v)
    BY <1>10, <1>11, <1>14 DEF Watched
  <2> QED BY <1>9, <1>10, <1>14, <2>1, <2>2 DEF DaemonOK
<1>16. Quiet(w0, v, Iss, s_sent')
  BY <1>2, <1>3, <1>10, <1>11, <1>12, <1>13, <1>14, <1>15, QuietEstablished
<1>17. s_sent' \in 0..ServerLen /\ s_got' \in Seq(Byte)
  BY <1>2, <1>5, <1>6, <1>9
<1> QED BY <1>1, <1>2, <1>9, <1>16, <1>17, QuietStep

\* A callback of the socket gives up a session: w is the state in which it does so.
LEMMA QuietGiveUp ==
  ASSUME NEW w, NEW iss \in Nat, NEW sent \in Nat, DaemonOK(w, iss, sent, Again), w.tcb # NULL,
         w.tcb \in Tcb, w.tcb.state \in {"SYN_RECVD", "ESTABLISHED"}, w.map # NULL,
         NEW e \in FdEvent,
         NEW u \in World, u.tcb # NULL, u.tcb \in Tcb, u.map # NULL, ListedAs(u, e, Again),
         SessionOK(u.tcb, iss, sent), u.tcb.state = w.tcb.state,
         u.tcb.rcv_nxt = w.tcb.rcv_nxt, u.tcb.outbuf = w.tcb.outbuf,
         u.listed["handle_fd_can_write"] <= w.listed["handle_fd_can_write"], u.out = <<>>
  PROVE  Quiet(w, RemoveEvent(GiveUp(u), e), iss, sent)
<1> DEFINE v == RemoveEvent(kill_map(tcp_close(u)), e)
<1>1. e \in Event \cup {NULL} /\ "handle_fd_can_write" \in Event
  BY DEF Event, FdEvent, FdWrite
<1>2. /\ DaemonOK(v, iss, sent, Again) /\ v.map = NULL
      /\ v.listed["handle_fd_can_write"] <= u.listed["handle_fd_can_write"]
      /\ u.tcb.state = "SYN_RECVD" =>
           /\ v.tcb = NULL
           /\ \E p \in Packet : "RST" \in p.flags /\ v.out = Append(u.out, p)
      /\ u.tcb.state = "ESTABLISHED" =>
           /\ v.tcb # NULL /\ v.tcb.state = "FIN_WAIT_1" /\ v.out = u.out
           /\ SendLimit(v.tcb) = SendLimit(u.tcb) + 1 /\ v.tcb.rcv_nxt = u.tcb.rcv_nxt
  BY <1>1, GiveUpKeeps
<1>3. RemoveEvent(GiveUp(u), e) = v
  BY DEF GiveUp
<1> HIDE DEF v
<1>4. v \in World /\ w \in World
  BY <1>2 DEF DaemonOK
<1>5. v.listed["handle_fd_can_write"] > 0 => w.listed["handle_fd_can_write"] > 0
  <2>1. /\ v.listed["handle_fd_can_write"] \in Int /\ w.listed["handle_fd_can_write"] \in Int
        /\ u.listed["handle_fd_can_write"] \in Int
    BY <1>1, <1>4 DEF World
  <2> QED BY <1>2, <2>1
<1>6. ~Connecting(v) /\ HandshakeOK(v, iss)
  BY <1>2 DEF Connecting, HandshakeOK, InSynRecvd
<1>7. CASE w.tcb.state = "SYN_RECVD"
  <2>1. v.tcb = NULL /\ v.map = NULL
    BY <1>2, <1>7
  <2>2. PICK p \in Packet : "RST" \in p.flags /\ v.out = Append(u.out, p)
    BY <1>2, <1>7
  <2>3. v.out = <<p>>
    BY <2>2
  <2>4. Packets(v.out) = {p}
    BY <2>3, PacketsSmall
  <2>5. \A r \in Packets(v.out) : SentOK(w, v, iss, r)
    BY <2>2, <2>4 DEF SentOK
  <2>6. LifeStep(w, v)
    BY <1>7, <2>1 DEF LifeStep, St, Sock
  <2> QED BY <1>2, <1>3, <1>5, <1>6, <2>1, <2>5, <2>6 DEF Quiet
<1>8. CASE w.tcb.state = "ESTABLISHED"
  <2>1. /\ v.tcb # NULL /\ v.tcb.state = "FIN_WAIT_1" /\ v.out = <<>> /\ v.map = NULL
        /\ SendLimit(v.tcb) = SendLimit(u.tcb) + 1 /\ v.tcb.rcv_nxt = w.tcb.rcv_nxt
    BY <1>2, <1>8
  <2>2. SendLimit(u.tcb) = SendLimit(w.tcb)
    BY DEF SendLimit
  <2>3. SendLimit(w.tcb) \in Int
    BY SendLimitIsInt
  <2>4. SendLimit(v.tcb) >= SendLimit(w.tcb)
    BY <2>1, <2>2, <2>3
  <2>5. \A r \in Packets(v.out) : SentOK(w, v, iss, r)
    BY <2>1, NothingSent
  <2>6. LifeStep(w, v)
    BY <1>8, <2>1 DEF LifeStep, St, Sock
  <2> QED BY <1>2, <1>3, <1>5, <1>6, <1>8, <2>1, <2>4, <2>5, <2>6 DEF Quiet
<1> QED BY <1>7, <1>8

\* The end of the IPv4 peer's stream, or an error.
LEMMA CanReadEndStep ==
  ASSUME IInv, handle_fd_can_read_end
  PROVE  IInv' /\ LifeStep(w0, w0')
<1> DEFINE e == "handle_fd_can_read"
           m == [w0.map EXCEPT !.e_fd_read = NULL]
           u == [w0 EXCEPT !.map = m]
           v == RemoveEvent(GiveUp(u), e)
<1>1. e \in FdEvent /\ e \in Event /\ OfMap(e) /\ Turn(e)
  BY DEF handle_fd_can_read_end, OfMap, FdEvent, Event
<1>2. /\ w0.listed[e] > 0 /\ ~SynSent(w0, Iss)
      /\ w0 \in World /\ DaemonOK(w0, Iss, s_sent, Again)
      /\ Iss \in Nat /\ s_sent \in Nat /\ s_sent \in 0..ServerLen /\ s_got \in Seq(Byte)
      /\ w0.tcb = tcb /\ w0.out = <<>>
  BY <1>1, Called
<1>3. /\ w0.tcb # NULL /\ w0.map # NULL /\ w0.tcb \in Tcb /\ w0.map \in TcpMap
      /\ w0.tcb.state = "ESTABLISHED"
  BY <1>1, CalledOfMap
<1>4. /\ UNCHANGED <<isn, to_relay, s_sent, s_got>> /\ Ends(e, v)
  <2>1. [w0 EXCEPT !.map.e_fd_read = NULL] = u
    BY <1>2 DEF World
  <2> QED BY <2>1 DEF handle_fd_can_read_end, EndsRemoved, server
<1>5. m \in TcpMap
  BY <1>3 DEF TcpMap
<1>6. ListedAs(w0, NULL, Again) /\ SessionOK(w0.tcb, Iss, s_sent)
  BY <1>2, <1>3 DEF DaemonOK
<1>7. /\ u \in World /\ u.tcb = w0.tcb /\ u.map = m /\ u.out = w0.out /\ u.map # NULL
      /\ u.listed = w0.listed
      /\ ListedAs(u, e, Again)
  BY <1>1, <1>2, <1>3, <1>5, <1>6, ClearMapPointer
<1> HIDE DEF u
<1>8. u.listed["handle_fd_can_write"] <= w0.listed["handle_fd_can_write"]
  <2>1. w0.listed["handle_fd_can_write"] \in Int
    BY <1>2 DEF World, Event, FdEvent, FdWrite
  <2> QED BY <1>7, <2>1
<1>9. Quiet(w0, v, Iss, s_sent)
  BY <1>1, <1>2, <1>3, <1>6, <1>7, <1>8, QuietGiveUp
<1> HIDE DEF v
<1> QED BY <1>1, <1>2, <1>4, <1>9, QuietStep

\* EAGAIN from read changes nothing.
LEMMA CanReadAgainStep ==
  ASSUME IInv, handle_fd_can_read_again
  PROVE  IInv' /\ LifeStep(w0, w0')
<1> DEFINE e == "handle_fd_can_read"
<1>1. e \in FdEvent /\ e \in Event /\ OfMap(e) /\ Turn(e)
  BY DEF handle_fd_can_read_again, OfMap, FdEvent, Event
<1>2. /\ w0.listed[e] > 0 /\ ~SynSent(w0, Iss)
      /\ w0 \in World /\ DaemonOK(w0, Iss, s_sent, Again)
      /\ Iss \in Nat /\ s_sent \in Nat /\ s_sent \in 0..ServerLen /\ s_got \in Seq(Byte)
      /\ w0.tcb = tcb /\ w0.out = <<>>
  BY <1>1, Called
<1>3. /\ w0.tcb # NULL /\ w0.map # NULL /\ w0.tcb \in Tcb /\ w0.map \in TcpMap
      /\ w0.tcb.state = "ESTABLISHED"
  BY <1>1, CalledOfMap
<1>4. /\ UNCHANGED <<isn, to_relay, s_sent, s_got>> /\ Ends(e, w0)
  BY DEF handle_fd_can_read_again, server
<1>5. w0.map.e_fd_write # "handle_fd_did_connect"
  BY <1>2, <1>3, TcpAssumption DEF DaemonOK, Watched
<1>6. SendLimit(w0.tcb) >= SendLimit(w0.tcb)
  BY <1>3, SendLimitIsInt
<1>7. Quiet(w0, w0, Iss, s_sent)
  BY <1>2, <1>3, <1>5, <1>6, QuietEstablished
<1> QED BY <1>1, <1>2, <1>4, <1>7, QuietStep

\* What the callback for output to the socket begins with: everything in inbuf is
\* read, and the map forgets the event.
LEMMA CanWriteBegins ==
  ASSUME IInv, OfMap("handle_fd_can_write")
  PROVE  LET e == "handle_fd_can_write"
             r == tcp_read(w0)
             m == [r.map EXCEPT !.e_fd_write = NULL]
             u == [r EXCEPT !.map = m]
         IN  /\ e \in FdEvent /\ e \in Event /\ Turn(e)
             /\ r \in World /\ [r EXCEPT !.map.e_fd_write = NULL] = u
             /\ DaemonOK(w0, Iss, s_sent, Again) /\ rb_used(r.tcb.inbuf) = 0
             /\ r.tcb # NULL /\ r.tcb \in Tcb /\ r.map # NULL /\ r.map = w0.map
             /\ r.listed[e] = w0.listed[e] /\ r.listed[e] > 0
             /\ m \in TcpMap /\ m.e_fd_read = w0.map.e_fd_read /\ m.e_fd_write = NULL
             /\ r.map.e_fd_write \in {NULL, e}
             /\ u \in World /\ u.tcb = r.tcb /\ u.map = m /\ u.map # NULL
             /\ u.out = <<>> /\ r.out = <<>>
             /\ u.listed = r.listed /\ ListedAs(u, e, Again) /\ ListedAs(r, NULL, Again)
             /\ SameButRead(w0.tcb, r.tcb) /\ SessionOK(r.tcb, Iss, s_sent)
             /\ w0.tcb.state = "ESTABLISHED"
<1> DEFINE e == "handle_fd_can_write"
           r == tcp_read(w0)
           m == [r.map EXCEPT !.e_fd_write = NULL]
           u == [r EXCEPT !.map = m]
<1>1. e \in FdEvent /\ e \in Event /\ Turn(e) /\ e \in FdWrite
  BY DEF OfMap, FdEvent, FdWrite, Event
<1>2. /\ w0.listed[e] > 0 /\ w0 \in World /\ DaemonOK(w0, Iss, s_sent, Again)
      /\ w0.out = <<>>
  BY <1>1, Called
<1>3. /\ w0.tcb # NULL /\ w0.map # NULL /\ w0.tcb \in Tcb /\ w0.map \in TcpMap
      /\ w0.tcb.state = "ESTABLISHED" /\ w0.map.e_fd_write \in {NULL, e}
  BY <1>1, CalledOfMap
<1>4. /\ r \in World /\ r.tcb # NULL /\ r.tcb \in Tcb /\ ListedAs(r, NULL, Again)
      /\ SessionOK(r.tcb, Iss, s_sent) /\ rb_used(r.tcb.inbuf) = 0
      /\ SameButRead(w0.tcb, r.tcb)
      /\ r.map = w0.map /\ r.out = w0.out
      /\ \A f \in Event : f # "do_tcb_write" => r.listed[f] = w0.listed[f]
  BY <1>2, <1>3, ReadKeeps
<1>5. [r EXCEPT !.map.e_fd_write = NULL] = u
  BY <1>4 DEF World
<1> HIDE DEF r
<1>6. r \in World /\ ListedAs(r, NULL, Again) /\ SessionOK(r.tcb, Iss, s_sent)
  BY <1>4
<1>7. r.listed[e] = w0.listed[e] /\ r.map # NULL
  BY <1>1, <1>3, <1>4
<1>8. m \in TcpMap /\ m.e_fd_read = w0.map.e_fd_read /\ m.e_fd_write = NULL
  BY <1>3, <1>4 DEF TcpMap
<1>9. /\ u \in World /\ u.tcb = r.tcb /\ u.map = m /\ u.out = r.out /\ u.map # NULL
      /\ u.listed = r.listed
      /\ ListedAs(u, e, Again)
  BY <1>1, <1>2, <1>3, <1>4, <1>6, <1>7, <1>8, ClearMapPointer
<1> QED BY <1>1, <1>2, <1>3, <1>4, <1>5, <1>6, <1>7, <1>8, <1>9 DEF r

\* write takes some of the bytes: the event is gone until there is more.
LEMMA CanWriteStep ==
  ASSUME IInv, NEW k \in 0..BufSize, handle_fd_can_write(k)
  PROVE  IInv' /\ LifeStep(w0, w0')
<1> DEFINE e == "handle_fd_can_write"
           r == tcp_read(w0)
           m == [r.map EXCEPT !.e_fd_write = NULL]
           u == [r EXCEPT !.map = m]
           v == RemoveEvent(u, e)
<1>1. OfMap(e)
  BY DEF handle_fd_can_write
<1>2. /\ e \in FdEvent /\ e \in Event /\ Turn(e)
      /\ r \in World /\ [r EXCEPT !.map.e_fd_write = NULL] = u
      /\ DaemonOK(w0, Iss, s_sent, Again) /\ rb_used(r.tcb.inbuf) = 0
      /\ r.tcb # NULL /\ r.tcb \in Tcb /\ r.map # NULL /\ r.map = w0.map
      /\ r.listed[e] = w0.listed[e] /\ r.listed[e] > 0
      /\ m \in TcpMap /\ m.e_fd_read = w0.map.e_fd_read /\ m.e_fd_write = NULL
      /\ r.map.e_fd_write \in {NULL, e}
      /\ r.out = <<>> /\ ListedAs(r, NULL, Again)
      /\ SameButRead(w0.tcb, r.tcb) /\ SessionOK(r.tcb, Iss, s_sent)
      /\ w0.tcb.state = "ESTABLISHED"
  BY <1>1, CanWriteBegins
<1>3. /\ ~SynSent(w0, Iss) /\ w0 \in World /\ DaemonOK(w0, Iss, s_sent, Again)
      /\ s_sent \in 0..ServerLen /\ s_got \in Seq(Byte)
      /\ w0.tcb = tcb /\ w0.out = <<>>
  BY <1>2, Called
<1>4. /\ w0.tcb # NULL /\ w0.map # NULL /\ w0.tcb \in Tcb /\ w0.map \in TcpMap
  BY <1>1, <1>2, CalledOfMap
<1>5. UNCHANGED <<isn, to_relay, s_sent>> /\ Ends(e, v)
  BY <1>2 DEF handle_fd_can_write, EndsRemoved
<1>6. s_got' \in Seq(Byte)
  <2>1. RecvBuffer(w0.tcb)
    BY <1>3, <1>4 DEF DaemonOK, SessionOK
  <2>2. Readable(tcb) \in Seq(Byte)
    BY <1>3, <1>4, <2>1, ReadableFacts
  <2>3. k \in 1..Len(Readable(tcb)) /\ s_got' = s_got \o SubSeq(Readable(tcb), 1, k)
    BY DEF handle_fd_can_write
  <2>4. SubSeq(Readable(tcb), 1, k) \in Seq(Byte)
    <3> DEFINE d == Readable(tcb)
    <3> HIDE DEF d
    <3>1. d \in Seq(Byte) /\ k \in 1..Len(d)
      BY <2>2, <2>3 DEF d
    <3>2. SubSeq(d, 1, k) \in Seq(Byte)
      BY <3>1
    <3> QED BY <3>2 DEF d
  <2>5. s_got \o SubSeq(Readable(tcb), 1, k) \in Seq(Byte)
    BY <1>3, <2>4
  <2> QED BY <2>3, <2>5
<1> HIDE DEF r
<1>7. /\ v \in World /\ v.tcb = r.tcb /\ v.map = m /\ v.out = r.out /\ v.map # NULL
      /\ v.listed["handle_fd_can_write"] <= r.listed["handle_fd_can_write"]
      /\ ListedAs(v, NULL, Again)
  BY <1>2, MapEventDone DEF FdWrite
<1> HIDE DEF v, m
<1>8. /\ r.tcb.state = "ESTABLISHED" /\ r.tcb.rcv_nxt = w0.tcb.rcv_nxt
      /\ SendLimit(r.tcb) = SendLimit(w0.tcb) /\ r.tcb.outbuf = w0.tcb.outbuf
  BY <1>2 DEF SameButRead, SendLimit
<1>9. DaemonOK(v, Iss, s_sent, Again)
  <2>0. Matched(w0) /\ Watched(w0) /\ r.tcb.cb = w0.tcb.cb /\ r.tcb.state = w0.tcb.state
    BY <1>2 DEF DaemonOK, SameButRead
  <2>1. Matched(v)
    BY <2>0, <1>2, <1>4, <1>7 DEF Matched
  <2>2. Watched(v)
    BY <2>0, <1>2, <1>4, <1>7, <1>8 DEF Watched
  <2> QED BY <1>2, <1>7, <2>1, <2>2 DEF DaemonOK
<1>10. v.listed[e] > 0 => w0.listed[e] > 0
  <2>1. v.listed[e] \in Int /\ w0.listed[e] \in Int /\ r.listed[e] \in Int
    BY <1>2, <1>3, <1>7 DEF World
  <2> QED BY <1>2, <1>7, <2>1
<1>11. SendLimit(r.tcb) >= SendLimit(w0.tcb)
  BY <1>4, <1>8, SendLimitIsInt
<1>12. w0.map.e_fd_write # "handle_fd_did_connect" /\ v.map.e_fd_write # "handle_fd_did_connect"
  BY <1>2, <1>7, TcpAssumption
<1>13. Quiet(w0, v, Iss, s_sent)
  BY <1>2, <1>4, <1>7, <1>8, <1>9, <1>10, <1>11, <1>12, QuietEstablished
<1> QED BY <1>2, <1>3, <1>5, <1>6, <1>13, QuietStep

\* EAGAIN from write: the map forgets the event, the list does not.
LEMMA CanWriteAgainStep ==
  ASSUME IInv, handle_fd_can_write_again
  PROVE  IInv' /\ LifeStep(w0, w0')
<1> DEFINE e == "handle_fd_can_write"
           r == tcp_read(w0)
           m == [r.map EXCEPT !.e_fd_write = NULL]
           v == [r EXCEPT !.map = m]
<1>1. OfMap(e)
  BY DEF handle_fd_can_write_again
<1>2. /\ e \in FdEvent /\ e \in Event /\ Turn(e)
      /\ r \in World /\ [r EXCEPT !.map.e_fd_write = NULL] = v
      /\ DaemonOK(w0, Iss, s_sent, Again) /\ rb_used(r.tcb.inbuf) = 0
      /\ r.tcb # NULL /\ r.tcb \in Tcb /\ r.map # NULL /\ r.map = w0.map
      /\ r.listed[e] = w0.listed[e] /\ r.listed[e] > 0
      /\ m \in TcpMap /\ m.e_fd_read = w0.map.e_fd_read /\ m.e_fd_write = NULL
      /\ r.map.e_fd_write \in {NULL, e}
      /\ v \in World /\ v.tcb = r.tcb /\ v.map = m /\ v.map # NULL
      /\ v.out = <<>> /\ v.listed = r.listed /\ ListedAs(v, e, Again)
      /\ SameButRead(w0.tcb, r.tcb) /\ SessionOK(r.tcb, Iss, s_sent)
      /\ w0.tcb.state = "ESTABLISHED"
  BY <1>1, CanWriteBegins
<1>3. /\ ~SynSent(w0, Iss) /\ w0 \in World /\ DaemonOK(w0, Iss, s_sent, Again)
      /\ s_sent \in 0..ServerLen /\ s_got \in Seq(Byte)
  BY <1>2, Called
<1>4. /\ w0.tcb # NULL /\ w0.map # NULL /\ w0.tcb \in Tcb /\ w0.map \in TcpMap
  BY <1>1, <1>2, CalledOfMap
<1>5. UNCHANGED <<isn, to_relay, s_sent, s_got>> /\ Ends(e, v)
  BY <1>2 DEF handle_fd_can_write_again, server
<1> HIDE DEF r
<1> HIDE DEF v, m
<1>8. /\ r.tcb.state = "ESTABLISHED" /\ r.tcb.rcv_nxt = w0.tcb.rcv_nxt
      /\ SendLimit(r.tcb) = SendLimit(w0.tcb) /\ r.tcb.outbuf = w0.tcb.outbuf
  BY <1>2 DEF SameButRead, SendLimit
<1>9. DaemonOK(v, Iss, s_sent, Again)
  <2>0. Matched(w0) /\ Watched(w0) /\ r.tcb.cb = w0.tcb.cb /\ r.tcb.state = w0.tcb.state
    BY <1>2 DEF DaemonOK, SameButRead
  <2>1. Matched(v)
    BY <2>0, <1>2, <1>4 DEF Matched
  <2>2. Watched(v)
    BY <2>0, <1>2, <1>4, <1>8 DEF Watched
  <2>3. ListedAs(v, NULL, Again)
    <3>1. Again /\ NULL \notin Event
      BY TcpAssumption DEF handle_fd_can_write_again, Again, Event, FdEvent, FdWrite, Timer
    <3> SUFFICES ASSUME NEW f \in Event
                 PROVE  LET n == (IF PointsTo(v, f) THEN 1 ELSE 0) + (IF f = NULL THEN 1 ELSE 0)
                        IN  v.listed[f] = n \/ (f = "handle_fd_can_write" /\ Again /\ v.listed[f] > n)
      BY DEF ListedAs
    <3>2. LET n == (IF PointsTo(v, f) THEN 1 ELSE 0) + (IF f = e THEN 1 ELSE 0)
          IN  v.listed[f] = n \/ (f = "handle_fd_can_write" /\ Again /\ v.listed[f] > n)
      BY <1>2 DEF ListedAs
    <3>3. v.listed[f] \in Int
      BY <1>2 DEF World
    <3>4. f # NULL
      BY <3>1
    <3>5. CASE f = e
      BY <3>1, <3>2, <3>3, <3>4, <3>5
    <3>6. CASE f # e
      BY <3>2, <3>4, <3>6
    <3> QED BY <3>5, <3>6
  <2> QED BY <1>2, <2>1, <2>2, <2>3 DEF DaemonOK
<1>11. SendLimit(r.tcb) >= SendLimit(w0.tcb)
  BY <1>4, <1>8, SendLimitIsInt
<1>12. w0.map.e_fd_write # "handle_fd_did_connect" /\ v.map.e_fd_write # "handle_fd_did_connect"
  BY <1>2, TcpAssumption
<1>13. Quiet(w0, v, Iss, s_sent)
  BY <1>2, <1>4, <1>8, <1>9, <1>11, <1>12, QuietEstablished
<1> QED BY <1>2, <1>3, <1>5, <1>13, QuietStep

\* write fails, or is given nothing.
LEMMA CanWriteEndStep ==
  ASSUME IInv, handle_fd_can_write_end
  PROVE  IInv' /\ LifeStep(w0, w0')
<1> DEFINE e == "handle_fd_can_write"
           r == tcp_read(w0)
           m == [r.map EXCEPT !.e_fd_write = NULL]
           u == [r EXCEPT !.map = m]
           v == RemoveEvent(GiveUp(u), e)
<1>1. OfMap(e)
  BY DEF handle_fd_can_write_end
<1>2. /\ e \in FdEvent /\ e \in Event /\ Turn(e)
      /\ r \in World /\ [r EXCEPT !.map.e_fd_write = NULL] = u
      /\ r.tcb # NULL /\ r.tcb \in Tcb
      /\ r.listed[e] = w0.listed[e]
      /\ u \in World /\ u.tcb = r.tcb /\ u.map # NULL
      /\ u.out = <<>> /\ u.listed = r.listed /\ ListedAs(u, e, Again)
      /\ SameButRead(w0.tcb, r.tcb) /\ SessionOK(r.tcb, Iss, s_sent)
      /\ w0.tcb.state = "ESTABLISHED"
  BY <1>1, CanWriteBegins
<1>3. /\ ~SynSent(w0, Iss) /\ w0 \in World /\ DaemonOK(w0, Iss, s_sent, Again)
      /\ Iss \in Nat /\ s_sent \in Nat /\ s_sent \in 0..ServerLen /\ s_got \in Seq(Byte)
  BY <1>2, Called
<1>4. /\ w0.tcb # NULL /\ w0.map # NULL /\ w0.tcb \in Tcb /\ w0.map \in TcpMap
  BY <1>1, <1>2, CalledOfMap
<1>5. UNCHANGED <<isn, to_relay, s_sent, s_got>> /\ Ends(e, v)
  BY <1>2 DEF handle_fd_can_write_end, EndsRemoved, server
<1> HIDE DEF r
<1> HIDE DEF u
<1>6. /\ r.tcb.state = "ESTABLISHED" /\ r.tcb.rcv_nxt = w0.tcb.rcv_nxt
      /\ r.tcb.outbuf = w0.tcb.outbuf
  BY <1>2 DEF SameButRead
<1>7. u.listed[e] <= w0.listed[e]
  <2>1. w0.listed[e] \in Int
    BY <1>2, <1>3 DEF World
  <2> QED BY <1>2, <2>1
<1>8. Quiet(w0, v, Iss, s_sent)
  BY <1>2, <1>3, <1>4, <1>6, <1>7, QuietGiveUp
<1> HIDE DEF v
<1> QED BY <1>2, <1>3, <1>5, <1>8, QuietStep

\* The connect that was in progress ends: the daemon's SYN is due, or the session ends.
LEMMA DidConnectStep ==
  ASSUME IInv, NEW ok \in BOOLEAN, handle_fd_did_connect(ok)
  PROVE  IInv' /\ LifeStep(w0, w0')
<1> DEFINE e == "handle_fd_did_connect"
           m == [w0.map EXCEPT !.e_fd_write = NULL]
           u == [w0 EXCEPT !.map = m]
<1>1. e \in FdEvent /\ e \in Event /\ e \in FdWrite /\ OfMap(e) /\ Turn(e)
      /\ "handle_fd_can_write" \in Event
  BY DEF handle_fd_did_connect, OfMap, FdEvent, FdWrite, Event
<1>2. /\ w0.listed[e] > 0 /\ ~SynSent(w0, Iss)
      /\ w0 \in World /\ DaemonOK(w0, Iss, s_sent, Again) /\ HandshakeOK(w0, Iss)
      /\ Iss \in Nat /\ s_sent \in Nat /\ s_sent \in 0..ServerLen /\ s_got \in Seq(Byte)
      /\ w0.tcb = tcb /\ w0.out = <<>>
  BY <1>1, Called
<1>3. /\ w0.tcb # NULL /\ w0.map # NULL /\ w0.tcb \in Tcb /\ w0.map \in TcpMap
      /\ w0.tcb.state = "SYN_RECVD" /\ w0.map.e_fd_write = e
  BY <1>1, CalledOfMap
<1>4. /\ UNCHANGED <<isn, to_relay, s_sent, s_got>>
      /\ Ends(e, RemoveEvent(IF ok THEN mark_for_if_write(u) ELSE GiveUp(u), e))
  <2>1. [w0 EXCEPT !.map.e_fd_write = NULL] = u
    BY <1>2 DEF World
  <2> QED BY <2>1 DEF handle_fd_did_connect, EndsRemoved, server
<1>5. m \in TcpMap /\ m.e_fd_write = NULL /\ m.e_fd_read = w0.map.e_fd_read
  BY <1>3 DEF TcpMap
<1>6. ListedAs(w0, NULL, Again) /\ SessionOK(w0.tcb, Iss, s_sent)
  BY <1>2, <1>3 DEF DaemonOK
<1>7. /\ u \in World /\ u.tcb = w0.tcb /\ u.map = m /\ u.out = w0.out /\ u.map # NULL
      /\ u.listed = w0.listed
      /\ ListedAs(u, e, Again)
  BY <1>1, <1>2, <1>3, <1>5, <1>6, ClearMapPointer
<1> HIDE DEF u, m
<1>8. CASE ~ok
  <2>1. u.listed["handle_fd_can_write"] <= w0.listed["handle_fd_can_write"]
    <3>1. w0.listed["handle_fd_can_write"] \in Int
      BY <1>1, <1>2 DEF World
    <3> QED BY <1>7, <3>1
  <2>2. Quiet(w0, RemoveEvent(GiveUp(u), e), Iss, s_sent)
    BY <1>1, <1>2, <1>3, <1>6, <1>7, <2>1, QuietGiveUp
  <2>3. Ends(e, RemoveEvent(GiveUp(u), e))
    BY <1>4, <1>8
  <2> QED BY <1>1, <1>2, <1>4, <2>2, <2>3, QuietStep
<1>9. CASE ok
  <2> DEFINE x == mark_for_if_write(u)
             v == RemoveEvent(x, e)
             t == [w0.tcb EXCEPT !.e_tcb_send = "do_tcb_write"]
  <2>1. /\ x \in World /\ x.map = m /\ x.out = <<>> /\ x.tcb = t /\ x.tcb \in Tcb
        /\ \A f \in Event : f # "do_tcb_write" => x.listed[f] = w0.listed[f]
        /\ ListedAs(x, e, Again)
    BY <1>2, <1>3, <1>7, MarkEffect
  <2> HIDE DEF x
  <2>2. /\ v \in World /\ v.tcb = t /\ v.map = m /\ v.out = <<>>
        /\ \A f \in Event : v.listed[f] = IF f = e /\ x.listed[f] > 0 THEN x.listed[f] - 1 ELSE x.listed[f]
    BY <1>1, <2>1, RemoveEffect
  <2>3. ListedAs(v, NULL, Again)
    BY <1>1, <2>1, RemoveListed
  <2>4. Ends(e, v)
    BY <1>4, <1>9 DEF x
  <2> HIDE DEF v
  <2>5. /\ t \in Tcb /\ t.state = "SYN_RECVD" /\ t.cb = w0.tcb.cb /\ t.e_timeout = w0.tcb.e_timeout
        /\ t.snd_una = w0.tcb.snd_una /\ t.snd_nxt = w0.tcb.snd_nxt
        /\ t.timeout_mark = w0.tcb.timeout_mark /\ t.rcv_wnd = w0.tcb.rcv_wnd
        /\ t.rcv_nxt = w0.tcb.rcv_nxt /\ t.read_seq = w0.tcb.read_seq
        /\ t.inbuf = w0.tcb.inbuf /\ t.outbuf = w0.tcb.outbuf /\ t.e_tcb_send = "do_tcb_write"
    BY <1>3, <2>1 DEF Tcb
  <2> HIDE DEF t
  <2>6. SessionOK(t, Iss, s_sent)
    BY <1>3, <1>6, <2>5 DEF SessionOK, SendNumbers, RecvBuffer, TimerOf, SendLimit
  <2>7. w0.map.e_fd_read = NULL /\ w0.tcb.cb /\ rb_used(w0.tcb.inbuf) = 0
    BY <1>2, <1>3 DEF DaemonOK, Watched, Matched
  <2>8. t # NULL /\ v.map # NULL
    BY <1>7, <2>2, <2>5, TcbTypes
  <2>9. DaemonOK(v, Iss, s_sent, Again)
    <3>1. Matched(v)
      BY <2>2, <2>5, <2>7, <2>8 DEF Matched
    <3>2. Watched(v)
      BY <1>5, <2>2, <2>5, <2>7 DEF Watched
    <3> QED BY <2>2, <2>3, <2>6, <3>1, <3>2 DEF DaemonOK
  <2>10. v.listed["handle_fd_can_write"] = w0.listed["handle_fd_can_write"]
    BY <1>1, <2>1, <2>2
  <2>11. HandshakeOK(v, Iss)
    <3>1. InSynRecvd(w0) /\ w0.map.e_fd_write # NULL
      BY <1>3, TcpAssumption DEF InSynRecvd
    <3>2. /\ w0.tcb.rcv_nxt = Irs + 1 /\ w0.tcb.snd_nxt = Iss
          /\ w0.listed["handle_fd_can_write"] = 0
      BY <1>2, <3>1 DEF HandshakeOK
    <3> QED BY <1>5, <2>2, <2>5, <2>10, <3>2 DEF HandshakeOK
  <2>12. ~Connecting(v) /\ Sock(v) = "connected" /\ Sock(w0) = "connecting"
    BY <1>3, <1>5, <2>2, <2>8, TcpAssumption DEF Connecting, Sock
  <2>13. LifeStep(w0, v)
    BY <1>3, <2>2, <2>5, <2>8, <2>12 DEF LifeStep, St
  <2>14. \A p \in Packets(v.out) : SentOK(w0, v, Iss, p)
    BY <2>2, NothingSent
  <2>15. SendLimit(v.tcb) >= SendLimit(w0.tcb)
    <3>1. SendLimit(w0.tcb) \in Int /\ SendLimit(v.tcb) = SendLimit(w0.tcb)
      BY <1>3, <2>2, <2>5, SendLimitIsInt DEF SendLimit
    <3> QED BY <3>1
  <2>16. Quiet(w0, v, Iss, s_sent)
    BY <1>3, <2>2, <2>5, <2>9, <2>10, <2>11, <2>12, <2>13, <2>14, <2>15 DEF Quiet
  <2> QED BY <1>1, <1>2, <1>4, <2>4, <2>16, QuietStep
<1> QED BY <1>8, <1>9

\* The retransmission timer.
LEMMA TimeoutStep ==
  ASSUME IInv, tcp_timeout
  PROVE  IInv' /\ LifeStep(w0, w0')
<1> DEFINE e == "tcp_timeout"
           t == window_update([w0.tcb EXCEPT !.e_timeout = NULL, !.snd_nxt = w0.tcb.snd_una,
                                             !.snd_cwnd = 0])
           v == RemoveEvent(mark_for_if_write([w0 EXCEPT !.tcb = t]), e)
<1>1. e \in Event /\ Turn(e) /\ "handle_fd_can_write" \in Event /\ e # "handle_fd_can_write"
  BY DEF tcp_timeout, Event, FdEvent, FdWrite, Timer
<1>2. /\ w0.listed[e] > 0 /\ ~SynSent(w0, Iss)
      /\ w0 \in World /\ DaemonOK(w0, Iss, s_sent, Again)
      /\ Iss \in Nat /\ s_sent \in Nat /\ s_sent \in 0..ServerLen /\ s_got \in Seq(Byte)
      /\ w0.tcb = tcb /\ w0.map = map /\ w0.out = <<>>
      /\ tcb # NULL => tcb \in Tcb
      /\ map # NULL => map \in TcpMap
  BY <1>1, Called
<1>3. w0.tcb # NULL /\ w0.tcb.e_timeout = e
  <2>1. PointsTo(w0, e)
    BY <1>1, <1>2, ListedPoints
  <2>2. w0.map # NULL => w0.map.e_fd_read # e /\ w0.map.e_fd_write # e
    BY <1>2, TcpAssumption DEF TcpMap, FdWrite
  <2>3. w0.tcb # NULL => w0.tcb.e_tcb_send # e
    <3>1. w0.tcb # NULL => w0.tcb.e_tcb_send \in {NULL, "do_tcb_write"}
      BY <1>2, TcbTypes
    <3> QED BY <3>1, TcpAssumption
  <2> QED BY <2>1, <2>2, <2>3 DEF PointsTo
<1>4. UNCHANGED <<isn, to_relay, s_sent, s_got>> /\ Ends(e, v)
  BY <1>2 DEF tcp_timeout, EndsRemoved, server
<1>5. /\ DaemonOK(v, Iss, s_sent, Again) /\ v.tcb # NULL /\ v.tcb \in Tcb
      /\ v.tcb.state = w0.tcb.state /\ v.tcb.state # "SYN_RECVD"
      /\ v.tcb.rcv_nxt = w0.tcb.rcv_nxt /\ v.tcb.outbuf = w0.tcb.outbuf
      /\ v.map = w0.map /\ v.out = w0.out
      /\ v.listed["handle_fd_can_write"] = w0.listed["handle_fd_can_write"]
  BY <1>2, <1>3, TimeoutKeeps
<1> HIDE DEF v
<1>6. HandshakeOK(v, Iss) /\ (Connecting(v) => Connecting(w0)) /\ LifeStep(w0, v)
  BY <1>3, <1>5 DEF HandshakeOK, InSynRecvd, Connecting, LifeStep, St, Sock
<1>7. SendLimit(v.tcb) >= SendLimit(w0.tcb)
  <2>1. SendLimit(v.tcb) = SendLimit(w0.tcb) /\ SendLimit(w0.tcb) \in Int
    BY <1>2, <1>3, <1>5, SendLimitIsInt DEF SendLimit
  <2> QED BY <2>1
<1>8. \A p \in Packets(v.out) : SentOK(w0, v, Iss, p)
  BY <1>2, <1>5, NothingSent
<1>9. Quiet(w0, v, Iss, s_sent)
  BY <1>3, <1>5, <1>6, <1>7, <1>8 DEF Quiet
<1> QED BY <1>1, <1>2, <1>4, <1>9, QuietStep

\* The end of TIME_WAIT.
LEMMA RemoveStep ==
  ASSUME IInv, tcp_remove
  PROVE  IInv' /\ LifeStep(w0, w0')
<1> DEFINE e == "tcp_remove"
           v == RemoveEvent(Discard(w0), e)
<1>1. e \in Event /\ Turn(e) /\ "handle_fd_can_write" \in Event /\ e # "handle_fd_can_write"
  BY DEF tcp_remove, Event, FdEvent, FdWrite, Timer
<1>2. /\ w0.listed[e] > 0 /\ ~SynSent(w0, Iss)
      /\ w0 \in World /\ DaemonOK(w0, Iss, s_sent, Again)
      /\ Iss \in Nat /\ s_sent \in Nat /\ s_sent \in 0..ServerLen /\ s_got \in Seq(Byte)
      /\ w0.tcb = tcb /\ w0.map = map /\ w0.out = <<>>
      /\ tcb # NULL => tcb \in Tcb
      /\ map # NULL => map \in TcpMap
  BY <1>1, Called
<1>3. w0.tcb # NULL /\ w0.tcb.e_timeout = e
  <2>1. PointsTo(w0, e)
    BY <1>1, <1>2, ListedPoints
  <2>2. w0.map # NULL => w0.map.e_fd_read # e /\ w0.map.e_fd_write # e
    BY <1>2, TcpAssumption DEF TcpMap, FdWrite
  <2>3. w0.tcb # NULL => w0.tcb.e_tcb_send # e
    <3>1. w0.tcb # NULL => w0.tcb.e_tcb_send \in {NULL, "do_tcb_write"}
      BY <1>2, TcbTypes
    <3> QED BY <3>1, TcpAssumption
  <2> QED BY <2>1, <2>2, <2>3 DEF PointsTo
<1>4. UNCHANGED <<isn, to_relay, s_sent, s_got>> /\ Ends(e, v)
  BY <1>2 DEF tcp_remove, EndsRemoved, server
<1>5. /\ DaemonOK(v, Iss, s_sent, Again) /\ v.tcb = NULL /\ v.map = NULL /\ v.out = w0.out
      /\ v.listed["handle_fd_can_write"] = w0.listed["handle_fd_can_write"]
  BY <1>2, <1>3, RemoveKeeps
<1> HIDE DEF v
<1>6. HandshakeOK(v, Iss) /\ ~Connecting(v)
  BY <1>5 DEF HandshakeOK, InSynRecvd, Connecting
<1>7. LifeStep(w0, v)
  <2>1. w0.tcb.state # "CLOSED"
    BY <1>2, <1>3, TcbTypes DEF State
  <2> QED BY <1>3, <1>5, <2>1 DEF LifeStep, St, Sock
<1>8. \A p \in Packets(v.out) : SentOK(w0, v, Iss, p)
  BY <1>2, <1>5, NothingSent
<1>9. Quiet(w0, v, Iss, s_sent)
  BY <1>3, <1>5, <1>6, <1>7, <1>8 DEF Quiet
<1> QED BY <1>1, <1>2, <1>4, <1>9, QuietStep

\* do_tcb_write sends the SYN once, or segments that lie within the stream.
LEMMA WriteStep ==
  ASSUME IInv, NoWrap, do_tcb_write
  PROVE  IInv' /\ LifeStep(w0, w0')
<1> DEFINE e == "do_tcb_write"
<1>1. e \in Event /\ Turn(e) /\ "handle_fd_can_write" \in Event /\ e # "handle_fd_can_write"
      /\ "handle_fd_can_write" \notin Timer
  BY DEF do_tcb_write, Event, FdEvent, FdWrite, Timer
<1>2. /\ w0.listed[e] > 0 /\ ~SynSent(w0, Iss)
      /\ w0 \in World /\ DaemonOK(w0, Iss, s_sent, Again) /\ HandshakeOK(w0, Iss)
      /\ Iss \in Nat /\ s_sent \in Nat /\ s_sent \in 0..ServerLen /\ s_got \in Seq(Byte)
      /\ w0.tcb = tcb /\ w0.map = map /\ w0.out = <<>>
      /\ tcb # NULL => tcb \in Tcb
      /\ map # NULL => map \in TcpMap
  BY <1>1, Called
<1>3. w0.tcb # NULL /\ w0.tcb.e_tcb_send = e /\ w0.tcb \in Tcb
  <2>1. PointsTo(w0, e)
    BY <1>1, <1>2, ListedPoints
  <2>2. w0.map # NULL => w0.map.e_fd_read # e /\ w0.map.e_fd_write # e
    BY <1>2, TcpAssumption DEF TcpMap, FdWrite
  <2>3. w0.tcb # NULL => w0.tcb.e_timeout # e
    <3>1. w0.tcb # NULL => w0.tcb.e_timeout \in {NULL} \cup Timer
      BY <1>2, TcbTypes
    <3> QED BY <3>1, TcpAssumption DEF Timer
  <2> QED BY <1>2, <2>1, <2>2, <2>3 DEF PointsTo
<1>4. Iss + s_sent + 2 < SeqMod
  <2>1. Iss + ServerLen + 2 < SeqMod /\ ServerLen \in Nat /\ SeqMod \in Int
    BY Numbers, SizeTypes DEF NoWrap
  <2> QED BY <1>2, <2>1
<1>5. UNCHANGED <<isn, to_relay, s_sent, s_got>>
  BY DEF do_tcb_write, server
<1>6. CASE w0.tcb.state = "SYN_RECVD"
  <2> DEFINE w == tcp_send_syn(w0)
             v == RemoveEvent([w EXCEPT !.tcb.e_tcb_send = NULL], e)
  <2>1. Ends(e, v)
    BY <1>2, <1>6 DEF do_tcb_write, EndsRemoved
  <2>2. /\ w0.tcb.snd_nxt = Iss /\ w0.tcb.rcv_nxt = Irs + 1 /\ w0.map.e_fd_write = NULL
        /\ w0.listed["handle_fd_can_write"] = 0
    <3>1. InSynRecvd(w0) /\ w0.tcb.e_tcb_send # NULL
      BY <1>3, <1>6, TcpAssumption DEF InSynRecvd
    <3> QED BY <1>2, <3>1 DEF HandshakeOK
  <2>3. /\ DaemonOK(w, Iss, s_sent, Again) /\ w.tcb # NULL /\ w.tcb \in Tcb
        /\ w.tcb.state = "SYN_RECVD" /\ w.tcb.snd_nxt = Iss + 1
        /\ w.tcb.rcv_nxt = w0.tcb.rcv_nxt /\ w.tcb.outbuf = w0.tcb.outbuf
        /\ w.tcb.e_tcb_send = w0.tcb.e_tcb_send
        /\ w.map = w0.map /\ w.listed = w0.listed
        /\ \E p \in Packet : /\ w.out = Append(w0.out, p) /\ p.flags = {"SYN", "ACK"}
                             /\ p.seq = Iss /\ p.ack = w0.tcb.rcv_nxt /\ p.data = <<>>
    BY <1>2, <1>3, <1>4, <1>6, <2>2, SendSynKeeps
  <2> HIDE DEF w
  <2>4. w.tcb.e_tcb_send = "do_tcb_write"
    BY <1>3, <2>3
  <2>5. /\ DaemonOK(v, Iss, s_sent, Again) /\ v.tcb # NULL /\ v.tcb \in Tcb
        /\ SameSession(w.tcb, v.tcb) /\ v.tcb.e_tcb_send = NULL
        /\ v.map = w.map /\ v.out = w.out
        /\ \A f \in Event : f # "do_tcb_write" => v.listed[f] = w.listed[f]
    BY <2>3, <2>4, WriteDone
  <2> HIDE DEF v
  <2>6. /\ v.tcb.state = "SYN_RECVD" /\ v.tcb.snd_nxt = Iss + 1 /\ v.tcb.rcv_nxt = w0.tcb.rcv_nxt
        /\ v.tcb.outbuf = w0.tcb.outbuf /\ v.map = w0.map
        /\ v.listed["handle_fd_can_write"] = w0.listed["handle_fd_can_write"]
    BY <1>1, <2>3, <2>5 DEF SameSession
  <2>7. HandshakeOK(v, Iss)
    BY <2>2, <2>5, <2>6 DEF HandshakeOK
  <2>8. ~Connecting(v) /\ LifeStep(w0, v)
    BY <1>3, <1>6, <2>2, <2>5, <2>6, TcpAssumption DEF Connecting, LifeStep, St, Sock
  <2>9. SendLimit(v.tcb) >= SendLimit(w0.tcb)
    <3>1. SendLimit(v.tcb) = SendLimit(w0.tcb) /\ SendLimit(w0.tcb) \in Int
      BY <1>3, <1>6, <2>6, SendLimitIsInt DEF SendLimit
    <3> QED BY <3>1
  <2>10. \A p \in Packets(v.out) : SentOK(w0, v, Iss, p)
    <3>1. PICK p \in Packet : /\ w.out = Append(w0.out, p) /\ p.flags = {"SYN", "ACK"}
                              /\ p.seq = Iss /\ p.ack = w0.tcb.rcv_nxt /\ p.data = <<>>
      BY <2>3
    <3>2. v.out = <<p>>
      BY <1>2, <2>5, <3>1
    <3>3. Packets(v.out) = {p}
      BY <3>2, PacketsSmall
    <3>4. SynSent(v, Iss)
      BY <2>5, <2>6 DEF SynSent, InSynRecvd
    <3>5. SentOK(w0, v, Iss, p)
      BY <2>5, <2>6, <3>1, <3>4 DEF SentOK
    <3> QED BY <3>3, <3>5
  <2>11. Quiet(w0, v, Iss, s_sent)
    BY <1>3, <1>6, <2>5, <2>6, <2>7, <2>8, <2>9, <2>10 DEF Quiet
  <2> QED BY <1>1, <1>2, <1>5, <2>1, <2>11, QuietStep
<1>7. CASE w0.tcb.state # "SYN_RECVD"
  <2> DEFINE w == tcp_send_and_ack(w0)
             u == RemoveEvent([w EXCEPT !.tcb.e_tcb_send = NULL], e)
  <2>1. Ends(e, w) \/ Ends(e, u)
    BY <1>2, <1>7 DEF do_tcb_write, EndsRemoved
  <2>2. /\ DaemonOK(w, Iss, s_sent, Again) /\ w.tcb # NULL /\ w.tcb \in Tcb
        /\ SameButSent(w0.tcb, w.tcb) /\ w.map = w0.map
        /\ \A f \in Event : f \notin Timer => w.listed[f] = w0.listed[f]
        /\ \/ w = w0
           \/ \E p \in Packet :
                /\ w.out = Append(w0.out, p)
                /\ p.flags \in {{"ACK"}, {"ACK", "FIN"}} /\ p.ack = w0.tcb.rcv_nxt
                /\ p.seq >= Iss + 1
                /\ p.seq + Len(p.data) + (IF "FIN" \in p.flags THEN 1 ELSE 0)
                     <= SendLimit(w0.tcb)
    BY <1>2, <1>3, <1>4, <1>7, SendAckKeeps
  <2> HIDE DEF w
  <2>3. /\ w.tcb.state = w0.tcb.state /\ w.tcb.rcv_nxt = w0.tcb.rcv_nxt
        /\ w.tcb.outbuf = w0.tcb.outbuf /\ w.tcb.e_tcb_send = e
    BY <1>3, <2>2 DEF SameButSent
  <2>4. /\ DaemonOK(u, Iss, s_sent, Again) /\ u.tcb # NULL /\ u.tcb \in Tcb
        /\ SameSession(w.tcb, u.tcb) /\ u.map = w.map /\ u.out = w.out
        /\ \A f \in Event : f # "do_tcb_write" => u.listed[f] = w.listed[f]
    BY <2>2, <2>3, WriteDone
  <2> HIDE DEF u
  <2>5. PICK v : /\ v \in {w, u} /\ Ends(e, v)
    BY <2>1
  <2>6. /\ DaemonOK(v, Iss, s_sent, Again) /\ v.tcb # NULL /\ v.tcb \in Tcb
        /\ v.tcb.state = w0.tcb.state /\ v.tcb.rcv_nxt = w0.tcb.rcv_nxt
        /\ v.tcb.outbuf = w0.tcb.outbuf /\ v.map = w0.map /\ v.out = w.out
        /\ v.listed["handle_fd_can_write"] = w0.listed["handle_fd_can_write"]
    BY <1>1, <2>2, <2>3, <2>4, <2>5 DEF SameSession
  <2>7. HandshakeOK(v, Iss) /\ (Connecting(v) => Connecting(w0)) /\ LifeStep(w0, v)
    BY <1>3, <1>7, <2>6 DEF HandshakeOK, InSynRecvd, Connecting, LifeStep, St, Sock
  <2>8. SendLimit(v.tcb) = SendLimit(w0.tcb) /\ SendLimit(w0.tcb) \in Int
    BY <1>3, <2>6, SendLimitIsInt DEF SendLimit
  <2>9. SendLimit(v.tcb) >= SendLimit(w0.tcb)
    BY <2>8
  <2>10. \A p \in Packets(v.out) : SentOK(w0, v, Iss, p)
    <3>1. CASE w = w0
      BY <1>2, <2>6, <3>1, NothingSent
    <3>2. CASE w # w0
      <4>1. PICK p \in Packet :
                /\ w.out = Append(w0.out, p)
                /\ p.flags \in {{"ACK"}, {"ACK", "FIN"}} /\ p.ack = w0.tcb.rcv_nxt
                /\ p.seq >= Iss + 1
                /\ p.seq + Len(p.data) + (IF "FIN" \in p.flags THEN 1 ELSE 0)
                     <= SendLimit(w0.tcb)
        BY <2>2, <3>2
      <4>2. v.out = <<p>>
        BY <1>2, <2>6, <4>1
      <4>3. Packets(v.out) = {p}
        BY <4>2, PacketsSmall
      <4>4. Past(w0) /\ Past(v)
        BY <1>3, <1>7, <2>6 DEF Past
      <4>5. Iss + 1 <= p.seq /\ Ending(p) <= SendLimit(v.tcb)
        <5>1. p.seq \in uint
          BY DEF Packet
        <5>2. p.seq \in Int
          BY <5>1, UintIsInt
        <5> QED BY <1>2, <2>8, <4>1, <5>2 DEF Ending
      <4>6. SentOK(w0, v, Iss, p)
        BY <2>6, <4>1, <4>4, <4>5 DEF SentOK
      <4> QED BY <4>3, <4>6
    <3> QED BY <3>1, <3>2
  <2>11. Quiet(w0, v, Iss, s_sent)
    <3>1. v.listed["handle_fd_can_write"] > 0 => w0.listed["handle_fd_can_write"] > 0
      BY <2>6
    <3> QED BY <1>3, <2>6, <2>7, <2>9, <2>10, <3>1 DEF Quiet
  <2> QED BY <1>1, <1>2, <1>5, <2>5, <2>11, QuietStep
<1> QED BY <1>6, <1>7
-----------------------------------------------------------------------------
(* The loop, the client and the network: the daemon's state stays as it is. *)

\* What has to be shown of a step that leaves the daemon alone.
LEMMA SameDaemon ==
  ASSUME IInv, UNCHANGED <<relay, server>>, ProgramTypeOK', RunOK(run', listed, to_relay'),
         ToRelayOK(to_relay', client'), ToClientOK(w0, Iss, to_client', client'),
         PhasesOK(w0, Iss, to_relay', client'), AcksOK(w0, Iss, to_relay', to_client', client'),
         ClientOK(client')
  PROVE  IInv' /\ LifeStep(w0, w0')
<1>1. /\ tcb' = tcb /\ map' = map /\ listed' = listed /\ isn' = isn /\ s_sent' = s_sent
  BY DEF relay, server
<1>2. w0' = w0 /\ Iss' = Iss
  BY <1>1 DEF w0, Iss
<1>3. /\ DaemonOK(w0, Iss, s_sent, Again) /\ HandshakeOK(w0, Iss) /\ RcvNxtOK(w0)
  BY DEF IInv
<1>4. IInv'
  BY <1>1, <1>2, <1>3 DEF IInv
<1>5. LifeStep(w0, w0)
  BY DEF LifeStep
<1> QED BY <1>2, <1>4, <1>5

\* A step of the loop changes run only.
LEMMA LoopStep ==
  ASSUME IInv, UNCHANGED <<relay, to_relay, to_client, client, server, faults>>,
         RunOK(run', listed, to_relay), run' \subseteq Event \cup {"handle_tcp", "undefined"}
  PROVE  IInv' /\ LifeStep(w0, w0')
<1>1. /\ to_relay' = to_relay /\ to_client' = to_client /\ client' = client
      /\ UNCHANGED <<relay, server>>
  OBVIOUS
<1>2. /\ ProgramTypeOK /\ ToRelayOK(to_relay, client) /\ ToClientOK(w0, Iss, to_client, client)
      /\ PhasesOK(w0, Iss, to_relay, client) /\ AcksOK(w0, Iss, to_relay, to_client, client)
      /\ ClientOK(client)
  BY DEF IInv
<1>3. ProgramTypeOK'
  BY <1>2 DEF ProgramTypeOK, relay, server
<1> QED BY <1>1, <1>2, <1>3, SameDaemon

\* select, the timers, and the callback of a map that is gone.
LEMMA SelectSteps ==
  ASSUME IInv,
         \/ Waits
         \/ \E ready \in SUBSET (FdEvent \cup {"handle_tcp"}) : SelectFds(ready)
         \/ \E e \in Timer : SelectTimer(e)
         \/ \E e \in FdEvent : dangling_callback(e)
  PROVE  IInv' /\ LifeStep(w0, w0')
<1>1. RunOK(run, listed, to_relay) /\ run \subseteq Event \cup {"handle_tcp", "undefined"}
  BY DEF IInv, ProgramTypeOK
<1>2. CASE Waits
  <2>1. UNCHANGED vars
    BY <1>2 DEF Waits
  <2> QED BY <1>1, <2>1, LoopStep DEF vars
<1>3. ASSUME NEW ready \in SUBSET (FdEvent \cup {"handle_tcp"}), SelectFds(ready)
      PROVE  IInv' /\ LifeStep(w0, w0')
  <2>1. UNCHANGED <<relay, to_relay, to_client, client, server, faults>>
    BY <1>3 DEF SelectFds
  <2>2. \/ run' = ready /\ ready \subseteq CanBeReady
        \/ run' = {e \in {"do_tcb_write"} : listed[e] > 0}
    BY <1>3 DEF SelectFds
  <2>3. CASE run' = ready /\ ready \subseteq CanBeReady
    <3>1. \A e \in ready : /\ e = "handle_tcp" \/ (e \in Event /\ listed[e] > 0)
                           /\ e = "handle_tcp" => to_relay # <<>>
                           /\ e \notin Timer \cup {"do_tcb_write"}
      BY <2>3 DEF CanBeReady, Event, FdEvent, FdWrite, Timer
    <3>2. RunOK(run', listed, to_relay) /\ run' \subseteq Event \cup {"handle_tcp", "undefined"}
      BY <2>3, <3>1 DEF RunOK
    <3> QED BY <2>1, <3>2, LoopStep
  <2>4. CASE run' = {e \in {"do_tcb_write"} : listed[e] > 0}
    <3>1. RunOK(run', listed, to_relay) /\ run' \subseteq Event \cup {"handle_tcp", "undefined"}
      BY <2>4 DEF RunOK, Event
    <3> QED BY <2>1, <3>1, LoopStep
  <2> QED BY <2>2, <2>3, <2>4
<1>4. ASSUME NEW e \in Timer, SelectTimer(e)
      PROVE  IInv' /\ LifeStep(w0, w0')
  <2>1. UNCHANGED <<relay, to_relay, to_client, client, server, faults>> /\ run' = {e} /\ listed[e] > 0
    BY <1>4 DEF SelectTimer
  <2>2. RunOK(run', listed, to_relay) /\ run' \subseteq Event \cup {"handle_tcp", "undefined"}
    BY <2>1 DEF RunOK, Event, Timer
  <2> QED BY <2>1, <2>2, LoopStep
<1>5. ASSUME NEW e \in FdEvent, dangling_callback(e)
      PROVE  IInv' /\ LifeStep(w0, w0')
  <2>1. UNCHANGED <<relay, to_relay, to_client, client, server, faults>> /\ run' = {"undefined"}
    BY <1>5 DEF dangling_callback
  <2>2. RunOK(run', listed, to_relay) /\ run' \subseteq Event \cup {"handle_tcp", "undefined"}
    BY <2>1 DEF RunOK
  <2> QED BY <2>1, <2>2, LoopStep
<1> QED BY <1>2, <1>3, <1>4, <1>5

\* A step of the client or the network that begins nothing.
LEMMA OutsideStep ==
  ASSUME IInv, Idle, UNCHANGED <<relay, run, server>>,
         client' \in ClientState, ClientOK(client'), faults' \in 0..MaxFaults,
         to_relay' \in Seq(Packet), to_client' \in Seq(Packet),
         ToRelayOK(to_relay', client'), Packets(to_client') \subseteq Packets(to_client),
         Early(client') => Early(client), HasSyn(to_relay') => HasSyn(to_relay),
         Opened(to_relay', client') => Opened(to_relay, client),
         tcb # NULL =>
           \A p \in Packets(to_relay') :
             Acks(p) => p \in Packets(to_relay) \/ p.ack \in (Iss + 1)..SendLimit(tcb),
         client'.st = "open" =>
           client.st = "open" /\ (tcb # NULL => client'.rcv \in (Iss + 1)..SendLimit(tcb))
  PROVE  IInv' /\ LifeStep(w0, w0')
<1>1. /\ ProgramTypeOK /\ ToClientOK(w0, Iss, to_client, client)
      /\ PhasesOK(w0, Iss, to_relay, client) /\ AcksOK(w0, Iss, to_relay, to_client, client)
  BY DEF IInv
<1>2. run' = {} /\ w0.tcb = tcb
  BY DEF Idle, w0
<1>3. RunOK(run', listed, to_relay')
  BY <1>2 DEF RunOK
<1>4. ProgramTypeOK'
  BY <1>1, <1>2 DEF ProgramTypeOK, relay, server
<1>5. ToClientOK(w0, Iss, to_client', client')
  BY <1>1 DEF ToClientOK
<1>6. PhasesOK(w0, Iss, to_relay', client')
  BY <1>1 DEF PhasesOK
<1>7. AcksOK(w0, Iss, to_relay', to_client', client')
  BY <1>1, <1>2 DEF AcksOK
<1> QED BY <1>3, <1>4, <1>5, <1>6, <1>7, SameDaemon

\* Packets are lost and duplicated.
LEMMA NetworkStep ==
  ASSUME IInv, Network
  PROVE  IInv' /\ LifeStep(w0, w0')
<1>1. /\ ProgramTypeOK /\ ToRelayOK(to_relay, client) /\ ClientOK(client)
      /\ AcksOK(w0, Iss, to_relay, to_client, client) /\ w0.tcb = tcb
  BY DEF IInv, w0
<1>2. /\ to_relay \in Seq(Packet) /\ to_client \in Seq(Packet) /\ client \in ClientState
      /\ faults \in 0..MaxFaults /\ MaxFaults \in Nat
  BY <1>1, RelayAssumption DEF ProgramTypeOK
<1>3. ASSUME Idle, UNCHANGED <<relay, run, server>>, client' = client, faults' = faults + 1,
             faults < MaxFaults,
             to_relay' \in Seq(Packet), to_client' \in Seq(Packet), SynsFirst(to_relay'),
             Packets(to_relay') \subseteq Packets(to_relay),
             Packets(to_client') \subseteq Packets(to_client)
      PROVE  IInv' /\ LifeStep(w0, w0')
  <2>1. faults' \in 0..MaxFaults
    BY <1>2, <1>3
  <2>2. ToRelayOK(to_relay', client)
    BY <1>1, <1>3 DEF ToRelayOK
  <2>3. /\ HasSyn(to_relay') => HasSyn(to_relay)
        /\ Opened(to_relay', client) => Opened(to_relay, client)
    BY <1>3 DEF HasSyn, Opened
  <2>4. client.st = "open" /\ tcb # NULL => client.rcv \in (Iss + 1)..SendLimit(tcb)
    BY <1>1 DEF AcksOK
  <2> QED BY <1>1, <1>2, <1>3, <2>1, <2>2, <2>3, <2>4, OutsideStep
<1>4. SynsFirst(to_relay)
  BY <1>1 DEF ToRelayOK
<1>5. CASE LoseToClient
  <2>1. /\ to_client # <<>> /\ to_client' = Tail(to_client) /\ to_relay' = to_relay
        /\ Idle /\ UNCHANGED <<relay, run, server>> /\ client' = client /\ faults' = faults + 1
        /\ faults < MaxFaults
    BY <1>5 DEF LoseToClient
  <2>2. to_client' \in Seq(Packet) /\ Packets(to_client') \subseteq Packets(to_client)
    BY <1>2, <2>1, PacketsTail
  <2> QED BY <1>2, <1>3, <1>4, <2>1, <2>2
<1>6. CASE LoseToRelay
  <2>1. /\ to_relay # <<>> /\ to_relay' = Tail(to_relay) /\ to_client' = to_client
        /\ Idle /\ UNCHANGED <<relay, run, server>> /\ client' = client /\ faults' = faults + 1
        /\ faults < MaxFaults
    BY <1>6 DEF LoseToRelay
  <2>2. to_relay' \in Seq(Packet) /\ Packets(to_relay') \subseteq Packets(to_relay)
    BY <1>2, <2>1, PacketsTail
  <2>3. SynsFirst(to_relay')
    BY <1>2, <1>4, <2>1, SynsFirstFacts
  <2> QED BY <1>2, <1>3, <2>1, <2>2, <2>3
<1>7. CASE DupToRelay
  <2>1. /\ to_relay # <<>> /\ to_relay' = Append(to_relay, pkt) /\ to_client' = to_client
        /\ Idle /\ UNCHANGED <<relay, run, server>> /\ client' = client /\ faults' = faults + 1
        /\ faults < MaxFaults /\ "SYN" \notin pkt.flags
    BY <1>7 DEF DupToRelay
  <2>2. pkt \in Packet /\ pkt \in Packets(to_relay)
    BY <1>2, <2>1, PacketsTail DEF pkt
  <2>3. <<pkt>> \in Seq(Packet) /\ Packets(<<pkt>>) = {pkt}
    BY <2>2, PacketsSmall
  <2>4. to_relay' = to_relay \o <<pkt>>
    BY <1>2, <2>1, <2>2
  <2>5. to_relay' \in Seq(Packet) /\ Packets(to_relay') \subseteq Packets(to_relay)
    BY <1>2, <2>2, <2>3, <2>4, PacketsConcat
  <2>6. ~Syn(pkt)
    BY <2>1 DEF Syn
  <2>7. SynsFirst(to_relay')
    BY <1>2, <1>4, <2>2, <2>4, <2>6, SynsFirstFacts
  <2> QED BY <1>2, <1>3, <2>1, <2>5, <2>7
<1> QED BY <1>5, <1>6, <1>7 DEF Network

\* A packet the client makes.
LEMMA ClientPacketFacts ==
  ASSUME NEW c \in ClientState, ClientOK(c), NEW flags \in SUBSET Flag, NEW seq \in uint,
         NEW data \in Seq(Byte)
  PROVE  LET p == ClientPacket(c, flags, seq, data)
         IN  /\ p \in Packet /\ p.flags = flags /\ p.seq = seq /\ p.data = data /\ p.ack = c.rcv
             /\ ClientFree(c) \in Int /\ 0 <= ClientFree(c) /\ ClientFree(c) <= ClientWnd
<1>1. c.rcv \in uint /\ c.got \in Seq(Byte) /\ c.read \in Nat
  BY DEF ClientState
<1>2. Len(c.got) - c.read \in 0..ClientWnd
  BY DEF ClientOK
<1>3. ClientWnd \in uint /\ ClientWnd \in Nat /\ SeqMod \in Int /\ ClientWnd < SeqMod
  BY Numbers, SizeTypes, UintIsInt
<1>4. ClientFree(c) \in Int /\ 0 <= ClientFree(c) /\ ClientFree(c) <= ClientWnd
  BY <1>2, <1>3 DEF ClientFree
<1> DEFINE f == ClientFree(c)
<1>5. f \in 0..(SeqMod - 1)
  <2> HIDE DEF f
  <2>1. f \in Int /\ 0 <= f /\ f <= ClientWnd
    BY <1>4 DEF f
  <2> QED BY <1>3, <2>1
<1>6. f \in uint
  BY <1>5 DEF uint
<1> QED BY <1>1, <1>4, <1>6 DEF ClientPacket, Packet

\* A packet other than a SYN is added to those on their way to the daemon.
LEMMA OneMore ==
  ASSUME NEW q \in Seq(Packet), NEW c0, ToRelayOK(q, c0), NEW c, ~Early(c),
         NEW p \in Packet, FromClient(p), ~Syn(p)
  PROVE  LET r == q \o <<p>>
         IN  /\ r \in Seq(Packet) /\ Packets(r) = Packets(q) \cup {p} /\ ToRelayOK(r, c)
             /\ HasSyn(r) => HasSyn(q)
<1> DEFINE r == q \o <<p>>
<1>1. <<p>> \in Seq(Packet) /\ Packets(<<p>>) = {p}
  BY PacketsSmall
<1>2. r \in Seq(Packet) /\ Packets(r) = Packets(q) \cup {p}
  BY <1>1, PacketsConcat
<1>3. SynsFirst(r)
  BY SynsFirstFacts DEF ToRelayOK
<1> HIDE DEF r
<1>4. ToRelayOK(r, c) /\ (HasSyn(r) => HasSyn(q))
  BY <1>2, <1>3 DEF ToRelayOK, HasSyn
<1> QED BY <1>2, <1>4 DEF r

\* The client's first number, and those it uses, lie below the wrap.
LEMMA ClientNumbers ==
  ASSUME NoWrap
  PROVE  /\ FirstSeq = Irs + 1 /\ FirstSeq \in uint
         /\ ClientSeq \subseteq uint /\ FirstSeq \in ClientSeq
         /\ \A s \in ClientSeq : s \in Int /\ IntDiff(s, FirstSeq) = s - Irs - 1
<1>1. /\ Irs \in Nat /\ ClientLen \in Nat /\ SeqMod \in Int
      /\ Irs + ClientLen + 2 < SeqMod /\ 2 * (ClientLen + 2) < SeqMod
  BY Numbers, SizeTypes DEF NoWrap
<1>2. Irs + 1 \in 0..(SeqMod - 1)
  BY <1>1
<1>3. FirstSeq = Irs + 1 /\ FirstSeq \in uint
  BY <1>1, <1>2, SeqAddFacts DEF FirstSeq
<1>4. \A s \in ClientSeq : s \in Int /\ s \in 0..(SeqMod - 1) /\ Irs + 1 <= s /\ s <= Irs + ClientLen + 2
  BY <1>1 DEF ClientSeq
<1>5. ClientSeq \subseteq uint /\ FirstSeq \in ClientSeq
  <2>1. Irs + 1 \in ClientSeq
    BY <1>1 DEF ClientSeq
  <2> QED BY <1>3, <1>4, <2>1 DEF uint
<1>6. ASSUME NEW s \in ClientSeq PROVE s \in Int /\ IntDiff(s, FirstSeq) = s - Irs - 1
  <2>1. s \in uint /\ s \in Int /\ Irs + 1 <= s /\ s <= Irs + ClientLen + 2
    BY <1>4, <1>5
  <2>2. 2 * (s - FirstSeq) < SeqMod /\ 2 * (FirstSeq - s) < SeqMod
    BY <1>1, <1>3, <2>1
  <2>3. IntDiff(s, FirstSeq) = s - FirstSeq
    BY <1>3, <2>1, <2>2, IntDiffFacts
  <2> QED BY <1>1, <1>3, <2>1, <2>3
<1> QED BY <1>3, <1>5, <1>6

\* The client sends nothing and is in c afterwards.
LEMMA ClientSilent ==
  ASSUME IInv, NEW c \in ClientState, ClientOK(c), ~Early(c),
         c.st = "open" =>
           client.st = "open" /\ (tcb # NULL => c.rcv \in (Iss + 1)..SendLimit(tcb)),
         ClientActs(c, <<>>), faults' \in 0..MaxFaults,
         to_client' \in Seq(Packet), Packets(to_client') \subseteq Packets(to_client)
  PROVE  IInv' /\ LifeStep(w0, w0')
<1>1. ProgramTypeOK /\ ToRelayOK(to_relay, client)
  BY DEF IInv
<1>2. to_relay \in Seq(Packet)
  BY <1>1 DEF ProgramTypeOK
<1>3. Idle /\ client' = c /\ to_relay' = to_relay /\ UNCHANGED <<relay, run, server>>
  <2>1. to_relay \o <<>> = to_relay
    BY <1>2, ConcatEmptySeq
  <2> QED BY <2>1 DEF ClientActs
<1>4. ToRelayOK(to_relay, c) /\ (Opened(to_relay, c) => Opened(to_relay, client))
  BY <1>1 DEF ToRelayOK, Opened
<1> QED BY <1>2, <1>3, <1>4, OutsideStep

\* The client sends p and is in c afterwards.
LEMMA ClientSends ==
  ASSUME IInv, NEW c \in ClientState, ClientOK(c), ~Early(c),
         c.st = "open" =>
           client.st = "open" /\ (tcb # NULL => c.rcv \in (Iss + 1)..SendLimit(tcb)),
         NEW p \in Packet, FromClient(p), ~Syn(p),
         Acks(p) =>
           client.st = "open" /\ (tcb # NULL => p.ack \in (Iss + 1)..SendLimit(tcb)),
         ClientActs(c, <<p>>), faults' \in 0..MaxFaults,
         to_client' \in Seq(Packet), Packets(to_client') \subseteq Packets(to_client)
  PROVE  IInv' /\ LifeStep(w0, w0')
<1>1. ProgramTypeOK /\ ToRelayOK(to_relay, client)
  BY DEF IInv
<1>2. to_relay \in Seq(Packet)
  BY <1>1 DEF ProgramTypeOK
<1>3. Idle /\ client' = c /\ to_relay' = to_relay \o <<p>> /\ UNCHANGED <<relay, run, server>>
  BY DEF ClientActs
<1>4. /\ to_relay' \in Seq(Packet) /\ Packets(to_relay') = Packets(to_relay) \cup {p}
      /\ ToRelayOK(to_relay', c) /\ (HasSyn(to_relay') => HasSyn(to_relay))
  BY <1>1, <1>2, <1>3, OneMore
<1>5. Opened(to_relay', c) => Opened(to_relay, client)
  BY <1>4 DEF Opened
<1>6. tcb # NULL =>
        \A r \in Packets(to_relay') :
          Acks(r) => r \in Packets(to_relay) \/ r.ack \in (Iss + 1)..SendLimit(tcb)
  BY <1>4
<1> QED BY <1>3, <1>4, <1>5, <1>6, OutsideStep

\* The client while its end of the session is open.
LEMMA OpenClient ==
  ASSUME IInv, NoWrap, client.st = "open"
  PROVE  /\ client \in ClientState /\ ClientOK(client)
         /\ client.nxt \in ClientSeq /\ client.nxt \in uint
         /\ client.una \in ClientSeq /\ client.una \in uint
         /\ tcb # NULL => client.rcv \in (Iss + 1)..SendLimit(tcb)
         /\ to_client \in Seq(Packet) /\ faults \in 0..MaxFaults
<1>1. ProgramTypeOK /\ ClientOK(client) /\ AcksOK(w0, Iss, to_relay, to_client, client) /\ w0.tcb = tcb
  BY DEF IInv, w0
<1>2. client.nxt \in ClientSeq /\ client.una \in ClientSeq
  BY <1>1 DEF ClientOK
<1>3. client.nxt \in uint /\ client.una \in uint
  BY <1>2, ClientNumbers
<1>4. tcb # NULL => client.rcv \in (Iss + 1)..SendLimit(tcb)
  BY <1>1 DEF AcksOK
<1> QED BY <1>1, <1>2, <1>3, <1>4 DEF ProgramTypeOK

\* An acknowledgement without data is a packet a client may send.
LEMMA AckFacts ==
  ASSUME NoWrap, NEW c \in ClientState, ClientOK(c), NEW seq \in ClientSeq
  PROVE  LET p == ClientPacket(c, {"ACK"}, seq, <<>>)
         IN  p \in Packet /\ FromClient(p) /\ ~Syn(p) /\ p.ack = c.rcv
<1> DEFINE p == ClientPacket(c, {"ACK"}, seq, <<>>)
<1>1. seq \in uint /\ seq \in Int
  BY ClientNumbers
<1>2. p \in Packet /\ p.flags = {"ACK"} /\ p.seq = seq /\ p.data = <<>> /\ p.ack = c.rcv
  <2> DEFINE fl == {"ACK"}
             d == <<>>
             r == ClientPacket(c, fl, seq, d)
  <2>1. fl \in SUBSET Flag /\ d \in Seq(Byte)
    BY DEF Flag
  <2>2. p = r
    OBVIOUS
  <2> HIDE DEF fl, d
  <2>3. r \in Packet /\ r.flags = fl /\ r.seq = seq /\ r.data = d /\ r.ack = c.rcv
    BY <1>1, <2>1, ClientPacketFacts
  <2> QED BY <2>2, <2>3 DEF fl, d
<1> HIDE DEF p
<1>3. Irs \in Nat /\ ClientLen \in Nat /\ seq >= Irs + 1 /\ seq <= Irs + ClientLen + 2
  BY Numbers DEF ClientSeq
<1>4. Len(p.data) = 0
  BY <1>2
<1>5. Ending(p) = seq
  BY <1>1, <1>2, <1>4 DEF Ending
<1>6. FromClient(p) /\ ~Syn(p)
  BY <1>2, <1>3, <1>5 DEF FromClient, Syn
<1> QED BY <1>2, <1>6 DEF p

\* The user of an open client reads, its data is sent again, it is reset.
LEMMA ClientReadStep ==
  ASSUME IInv, NoWrap, ClientRead
  PROVE  IInv' /\ LifeStep(w0, w0')
<1> DEFINE c == [client EXCEPT !.read = Len(client.got)]
           p == ClientPacket(c, {"ACK"}, client.nxt, <<>>)
<1>1. /\ client.st = "open" /\ ClientActs(c, <<p>>) /\ UNCHANGED <<to_client, faults>>
  BY DEF ClientRead
<1>2. /\ client \in ClientState /\ ClientOK(client)
      /\ client.nxt \in ClientSeq /\ client.una \in ClientSeq
      /\ tcb # NULL => client.rcv \in (Iss + 1)..SendLimit(tcb)
      /\ to_client \in Seq(Packet) /\ faults \in 0..MaxFaults
  BY <1>1, OpenClient
<1>3. client.got \in Seq(Byte)
  BY <1>2 DEF ClientState
<1>4. Len(client.got) \in Nat
  BY <1>3
<1>5. /\ c \in ClientState /\ c.st = client.st /\ c.nxt = client.nxt /\ c.una = client.una
      /\ c.rcv = client.rcv /\ c.got = client.got /\ c.read = Len(client.got)
  BY <1>2, <1>4 DEF ClientState
<1> HIDE DEF c
<1>6. ClientOK(c)
  <2>1. Len(c.got) - c.read = 0 /\ 0 \in 0..ClientWnd
    BY <1>4, <1>5, Numbers
  <2> QED BY <1>2, <1>5, <2>1 DEF ClientOK
<1>7. p \in Packet /\ FromClient(p) /\ ~Syn(p) /\ p.ack = c.rcv
  BY <1>2, <1>5, <1>6, AckFacts
<1> HIDE DEF p
<1>8. ~Early(c)
  BY <1>1, <1>5 DEF Early
<1> QED BY <1>1, <1>2, <1>5, <1>6, <1>7, <1>8, ClientSends

\* The client goes back to what is not acknowledged.
LEMMA ClientRexmitStep ==
  ASSUME IInv, NoWrap, ClientRexmit
  PROVE  IInv' /\ LifeStep(w0, w0')
<1> DEFINE c == [client EXCEPT !.nxt = client.una]
<1>1. /\ client.st = "open" /\ ClientActs(c, <<>>) /\ UNCHANGED <<to_client, faults>>
  BY DEF ClientRexmit
<1>2. /\ client \in ClientState /\ ClientOK(client)
      /\ client.una \in ClientSeq /\ client.una \in uint
      /\ tcb # NULL => client.rcv \in (Iss + 1)..SendLimit(tcb)
      /\ to_client \in Seq(Packet) /\ faults \in 0..MaxFaults
  BY <1>1, OpenClient
<1>3. /\ c \in ClientState /\ c.st = client.st /\ c.nxt = client.una /\ c.una = client.una
      /\ c.rcv = client.rcv /\ c.got = client.got /\ c.read = client.read
  BY <1>2 DEF ClientState
<1> HIDE DEF c
<1>4. ClientOK(c) /\ ~Early(c)
  BY <1>1, <1>2, <1>3 DEF ClientOK, Early
<1> QED BY <1>1, <1>2, <1>3, <1>4, ClientSilent

\* The client resets the connection.
LEMMA ClientAbortStep ==
  ASSUME IInv, NoWrap, ClientAbort
  PROVE  IInv' /\ LifeStep(w0, w0')
<1> DEFINE c == [client EXCEPT !.st = "reset"]
           p == ClientPacket(client, {"RST", "ACK"}, client.nxt, <<>>)
<1>1. /\ client.st = "open" /\ ClientActs(c, <<p>>) /\ UNCHANGED to_client
      /\ faults' = faults + 1 /\ faults < MaxFaults
  BY DEF ClientAbort
<1>2. /\ client \in ClientState /\ ClientOK(client)
      /\ client.nxt \in ClientSeq /\ client.nxt \in uint
      /\ to_client \in Seq(Packet) /\ faults \in 0..MaxFaults
  BY <1>1, OpenClient
<1>3. /\ c \in ClientState /\ c.st = "reset" /\ c.nxt = client.nxt
      /\ c.got = client.got /\ c.read = client.read
  BY <1>2 DEF ClientState
<1> HIDE DEF c
<1>4. ClientOK(c) /\ ~Early(c)
  BY <1>2, <1>3 DEF ClientOK, Early
<1>5. p \in Packet /\ p.flags = {"RST", "ACK"}
  <2> DEFINE fl == {"RST", "ACK"}
             d == <<>>
             r == ClientPacket(client, fl, client.nxt, d)
  <2>1. fl \in SUBSET Flag /\ d \in Seq(Byte)
    BY DEF Flag
  <2>2. p = r
    OBVIOUS
  <2> HIDE DEF fl, d
  <2>3. r \in Packet /\ r.flags = fl /\ r.seq = client.nxt /\ r.data = d /\ r.ack = client.rcv
    BY <1>2, <2>1, ClientPacketFacts
  <2> QED BY <2>2, <2>3 DEF fl, d
<1> HIDE DEF p
<1>6. FromClient(p) /\ ~Syn(p) /\ ~Acks(p)
  BY <1>5 DEF FromClient, Syn, Acks
<1>7. faults' \in 0..MaxFaults
  BY <1>1, <1>2, RelayAssumption
<1> QED BY <1>1, <1>2, <1>3, <1>4, <1>5, <1>6, <1>7, ClientSends

\* The client's SYN follows only SYNs.
LEMMA ClientSynStep ==
  ASSUME IInv, NoWrap, ClientSyn
  PROVE  IInv' /\ LifeStep(w0, w0')
<1> DEFINE c == [client EXCEPT !.st = "syn_sent", !.nxt = FirstSeq]
           p == [flags |-> {"SYN"}, seq |-> Irs, ack |-> 0, wnd |-> ClientWnd, data |-> <<>>]
<1>1. /\ client.st \in {"closed", "syn_sent"} /\ ClientActs(c, <<p>>) /\ UNCHANGED <<to_client, faults>>
  BY DEF ClientSyn
<1>2. /\ ProgramTypeOK /\ ToRelayOK(to_relay, client) /\ ToClientOK(w0, Iss, to_client, client)
      /\ PhasesOK(w0, Iss, to_relay, client) /\ ClientOK(client)
  BY DEF IInv
<1>3. client \in ClientState /\ to_relay \in Seq(Packet)
  BY <1>2 DEF ProgramTypeOK
<1>4. FirstSeq \in uint /\ FirstSeq \in ClientSeq
  BY ClientNumbers
<1>5. /\ c \in ClientState /\ c.st = "syn_sent" /\ c.nxt = FirstSeq
      /\ c.got = client.got /\ c.read = client.read
  BY <1>3, <1>4 DEF ClientState
<1>6. p \in Packet /\ Syn(p) /\ ~Acks(p) /\ FromClient(p)
  <2>1. Irs \in uint /\ ClientWnd \in uint /\ 0 \in uint
    BY Numbers, SizeTypes DEF uint
  <2>2. p \in Packet
    BY <2>1 DEF Packet, Flag
  <2> QED BY <2>2 DEF Syn, Acks, FromClient
<1>7. Idle /\ client' = c /\ to_relay' = to_relay \o <<p>> /\ UNCHANGED <<relay, run, server>>
  BY <1>1 DEF ClientActs
<1> HIDE DEF c, p
<1>8. Early(client) /\ Early(c) /\ c.st # "open"
  BY <1>1, <1>5 DEF Early
<1>9. <<p>> \in Seq(Packet) /\ Packets(<<p>>) = {p}
  BY <1>6, PacketsSmall
<1>10. to_relay' \in Seq(Packet) /\ Packets(to_relay') = Packets(to_relay) \cup {p}
  BY <1>3, <1>7, <1>9, PacketsConcat
<1>11. \A r \in Packets(to_relay') : Syn(r) /\ ~Acks(r) /\ FromClient(r)
  BY <1>2, <1>6, <1>8, <1>10 DEF ToRelayOK, Syn, Acks
<1>12. SynsFirst(to_relay')
  <2>1. \A r \in Packets(to_relay) : Syn(r)
    BY <1>10, <1>11
  <2> QED BY <1>2, <1>3, <1>6, <1>7, <2>1, SynsFirstFacts DEF ToRelayOK
<1>13. ToRelayOK(to_relay', c)
  BY <1>11, <1>12 DEF ToRelayOK
<1>14. ToClientOK(w0, Iss, to_client', c)
  BY <1>1, <1>2, <1>8 DEF ToClientOK
<1>15. PhasesOK(w0, Iss, to_relay', c)
  <2>1. ~Opened(to_relay', c)
    BY <1>8, <1>11 DEF Opened
  <2>2. ~(Past(w0) \/ w0.listed["handle_fd_can_write"] > 0)
    BY <1>2, <1>8 DEF PhasesOK
  <2> QED BY <2>1, <2>2 DEF PhasesOK
<1>16. AcksOK(w0, Iss, to_relay', to_client', c)
  BY <1>8, <1>11 DEF AcksOK
<1>17. ClientOK(c)
  BY <1>2, <1>4, <1>5 DEF ClientOK
<1>18. run' = {}
  BY <1>7 DEF Idle
<1>19. RunOK(run', listed, to_relay')
  BY <1>18 DEF RunOK
<1>20. ProgramTypeOK'
  BY <1>1, <1>2, <1>5, <1>7, <1>10, <1>18 DEF ProgramTypeOK, relay, server
<1> QED BY <1>7, <1>13, <1>14, <1>15, <1>16, <1>17, <1>19, <1>20, SameDaemon

\* The client's segments lie within its stream.
LEMMA ClientSendStep ==
  ASSUME IInv, NoWrap, NEW n \in Nat, NEW fin \in BOOLEAN, ClientSend(n, fin)
  PROVE  IInv' /\ LifeStep(w0, w0')
<1> DEFINE from == ClientSent
           f == IF fin THEN 1 ELSE 0
           fl == IF fin THEN {"ACK", "FIN"} ELSE {"ACK"}
           d == [i \in 1..n |-> from + i]
           c == [client EXCEPT !.nxt = SeqAdd(client.nxt, n + f)]
           p == ClientPacket(client, fl, client.nxt, d)
<1>1. /\ client.st = "open" /\ from + n <= ClientLen
      /\ ClientActs(c, <<p>>) /\ UNCHANGED <<to_client, faults>>
  BY DEF ClientSend
<1>2. /\ client \in ClientState /\ ClientOK(client)
      /\ client.nxt \in ClientSeq /\ client.nxt \in uint /\ client.una \in ClientSeq
      /\ tcb # NULL => client.rcv \in (Iss + 1)..SendLimit(tcb)
      /\ to_client \in Seq(Packet) /\ faults \in 0..MaxFaults
  BY <1>1, OpenClient
<1>3. from = client.nxt - Irs - 1 /\ client.nxt \in Int
  BY <1>2, ClientNumbers DEF ClientSent
<1>4. f \in 0..1 /\ fl \in SUBSET Flag /\ (f = 1 <=> "FIN" \in fl) /\ "ACK" \in fl
      /\ "RST" \notin fl /\ "SYN" \notin fl /\ fl \in {{"ACK"}, {"ACK", "FIN"}}
  BY DEF Flag
<1> HIDE DEF from, f, fl
<1>5. /\ Irs \in Nat /\ ClientLen \in Nat /\ SeqMod \in Int
      /\ Irs + ClientLen + 2 < SeqMod
      /\ client.nxt >= Irs + 1 /\ client.nxt <= Irs + ClientLen + 2
  BY <1>2, Numbers, SizeTypes DEF NoWrap, ClientSeq
<1>6. client.nxt + (n + f) \in 0..(SeqMod - 1) /\ n + f \in Int
      /\ client.nxt + n + f <= Irs + ClientLen + 2 /\ from \in Nat
  <2>1. f \in Int /\ 0 <= f /\ f <= 1 /\ n \in Int /\ 0 <= n
    BY <1>4
  <2>2. from \in Nat
    BY <1>3, <1>5
  <2>3. client.nxt - Irs - 1 + n <= ClientLen
    BY <1>1, <1>3
  <2> QED BY <1>3, <1>5, <2>1, <2>2, <2>3
<1>7. SeqAdd(client.nxt, n + f) = client.nxt + n + f /\ SeqAdd(client.nxt, n + f) \in uint
  <2>1. SeqAdd(client.nxt, n + f) = client.nxt + (n + f) /\ SeqAdd(client.nxt, n + f) \in uint
    BY <1>3, <1>6, SeqAddFacts
  <2>2. client.nxt + (n + f) = client.nxt + n + f
    BY <1>3, <1>4
  <2> QED BY <2>1, <2>2
<1>8. SeqAdd(client.nxt, n + f) \in ClientSeq
  <2>1. client.nxt + n + f \in ClientSeq
    BY <1>3, <1>4, <1>5, <1>6 DEF ClientSeq
  <2> QED BY <1>7, <2>1
<1>9. /\ c \in ClientState /\ c.st = client.st /\ c.nxt = SeqAdd(client.nxt, n + f)
      /\ c.una = client.una /\ c.rcv = client.rcv /\ c.got = client.got /\ c.read = client.read
  BY <1>2, <1>7 DEF ClientState
<1> HIDE DEF c
<1>10. ClientOK(c) /\ ~Early(c)
  BY <1>1, <1>2, <1>8, <1>9 DEF ClientOK, Early
<1>11. d \in Seq(Byte) /\ Len(d) = n
  <2>1. \A i \in 1..n : from + i \in 1..ClientLen
    BY <1>1, <1>5, <1>6
  <2>2. d \in [1..n -> Byte]
    BY <2>1, RelayAssumption
  <2> HIDE DEF d
  <2> QED BY <2>2, FunctionIsSeq
<1> HIDE DEF d
<1>12. p \in Packet /\ p.flags = fl /\ p.seq = client.nxt /\ p.data = d /\ p.ack = client.rcv
  BY <1>2, <1>4, <1>11, ClientPacketFacts
<1> HIDE DEF p
<1>13. Ending(p) = client.nxt + n + f
  <2>1. (IF "FIN" \in p.flags THEN 1 ELSE 0) = f
    BY <1>4, <1>12
  <2>2. Len(p.data) = n /\ p.seq = client.nxt
    BY <1>11, <1>12
  <2> QED BY <2>1, <2>2 DEF Ending
<1>14. ~Syn(p)
  BY <1>4, <1>12 DEF Syn
<1>15. FromClient(p)
  <2>1. p.seq >= Irs + 1 /\ Ending(p) <= Irs + ClientLen + 2
    BY <1>5, <1>6, <1>12, <1>13
  <2> QED BY <1>4, <1>12, <1>14, <2>1 DEF FromClient
<1> QED BY <1>1, <1>2, <1>9, <1>10, <1>12, <1>14, <1>15, ClientSends

\* The room in the client's buffer.
LEMMA ClientFreeFacts ==
  ASSUME NEW c \in ClientState, ClientOK(c)
  PROVE  /\ c.got \in Seq(Byte) /\ c.read \in Nat /\ Len(c.got) \in Nat
         /\ ClientFree(c) \in Int /\ 0 <= ClientFree(c)
         /\ ClientFree(c) = ClientWnd - (Len(c.got) - c.read)
<1>1. c.got \in Seq(Byte) /\ c.read \in Nat /\ ClientWnd \in Nat
  BY Numbers DEF ClientState
<1>2. Len(c.got) - c.read \in 0..ClientWnd /\ Len(c.got) \in Nat
  BY <1>1 DEF ClientOK
<1> QED BY <1>1, <1>2 DEF ClientFree

\* What is new in a segment starts where the client's stream ends, and fits.
LEMMA FreshFacts ==
  ASSUME client \in ClientState, ClientOK(client), NEW p \in Packet
  PROVE  LET old == IntDiff(client.rcv, p.seq)
             new == Len(Fresh(p))
         IN  /\ Fresh(p) \in Seq(Byte) /\ new \in Nat /\ old \in Int
             /\ new <= ClientFree(client)
             /\ new > 0 => old >= 0 /\ new <= Len(p.data) - old
             /\ \A i \in 1..new : Fresh(p)[i] = p.data[old + i]
<1> DEFINE old == IntDiff(client.rcv, p.seq)
           n == MinInt(Len(p.data) - old, ClientFree(client))
           d == p.data
<1>1. client.rcv \in uint /\ p.seq \in uint /\ d \in Seq(Byte)
  BY DEF ClientState, Packet
<1>2. old \in Int /\ Len(d) \in Nat
  BY <1>1, IntDiffFacts
<1>3. ClientFree(client) \in Int /\ 0 <= ClientFree(client)
  BY ClientFreeFacts
<1>4. Fresh(p) = IF old < 0 \/ n <= 0 THEN <<>> ELSE SubSeq(d, old + 1, old + n)
  BY DEF Fresh
<1>5. n \in Int /\ n <= Len(d) - old /\ n <= ClientFree(client)
  BY <1>2, <1>3 DEF MinInt
<1> HIDE DEF old, n, d
<1>6. CASE old < 0 \/ n <= 0
  <2>1. Fresh(p) = <<>>
    BY <1>4, <1>6
  <2>2. Fresh(p) \in Seq(Byte) /\ Len(Fresh(p)) = 0
    BY <2>1
  <2> QED BY <1>2, <1>3, <2>2 DEF old, d
<1>7. CASE ~(old < 0 \/ n <= 0)
  <2>1. Fresh(p) = SubSeq(d, old + 1, old + n)
    BY <1>4, <1>7
  <2>2. old + 1 \in 1..(Len(d) + 1) /\ old + n \in 0..Len(d) /\ old + 1 \in Int /\ old + n \in Int
        /\ old + n - (old + 1) + 1 = n /\ old >= 0 /\ n > 0
    BY <1>2, <1>5, <1>7
  <2>3. /\ SubSeq(d, old + 1, old + n) \in Seq(Byte)
        /\ Len(SubSeq(d, old + 1, old + n)) = n
        /\ \A i \in 1..n : SubSeq(d, old + 1, old + n)[i] = d[old + i]
    <3> DEFINE a == old + 1
               b == old + n
    <3>1. a \in Int /\ b \in Int /\ 1 <= a /\ a <= b /\ b <= Len(d) /\ b - a + 1 = n
      BY <1>2, <1>5, <1>7
    <3> HIDE DEF a, b
    <3>2. /\ SubSeq(d, a, b) \in Seq(Byte) /\ Len(SubSeq(d, a, b)) = b - a + 1
          /\ \A i \in 1..(b - a + 1) : SubSeq(d, a, b)[i] = d[a + i - 1]
      BY <1>1, <3>1, SubSeqProperties
    <3>3. \A i \in 1..n : a + i - 1 = old + i
      BY <1>2, <1>5 DEF a
    <3> QED BY <3>1, <3>2, <3>3 DEF a, b
  <2>4. Fresh(p) \in Seq(Byte) /\ Len(Fresh(p)) = n /\ n \in Nat
    BY <1>5, <2>1, <2>2, <2>3
  <2> QED BY <1>2, <1>5, <2>1, <2>2, <2>3, <2>4 DEF old, d
<1> QED BY <1>6, <1>7

\* The client's acknowledgements stay within what the daemon may have sent.
LEMMA TakesWithin ==
  ASSUME IInv, NoWrap, client.st = "open", tcb # NULL,
         NEW p \in Packets(to_client), p \in Packet, p.flags \cap {"SYN", "RST"} = {}
  PROVE  ClientTakes(p).rcv \in (Iss + 1)..SendLimit(tcb)
<1> DEFINE rcv == client.rcv
           len == Len(p.data)
           new == Len(Fresh(p))
           fin == "FIN" \in p.flags /\ ~client.fin /\ SeqAdd(rcv, new) = SeqAdd(p.seq, len)
           f == IF fin THEN 1 ELSE 0
           L == SendLimit(tcb)
           seq == p.seq
           old == IntDiff(rcv, seq)
<1>1. /\ ProgramTypeOK /\ AcksOK(w0, Iss, to_relay, to_client, client) /\ w0.tcb = tcb
      /\ DaemonOK(w0, Iss, s_sent, Again) /\ ClientOK(client)
  BY DEF IInv, w0
<1>2. client \in ClientState /\ tcb \in Tcb /\ isn \in Nat /\ s_sent \in 0..ServerLen
  BY <1>1 DEF ProgramTypeOK
<1>3. rcv \in (Iss + 1)..L /\ Iss + 1 <= seq /\ Ending(p) <= L
  BY <1>1 DEF AcksOK
<1>4. Iss \in Nat /\ L \in Int
  BY <1>2, IssIsNat, SendLimitIsInt
<1>5. L <= Iss + ServerLen + 2
  <2>1. SendNumbers(tcb, Iss, s_sent)
    BY <1>1 DEF DaemonOK, SessionOK
  <2>2. tcb.outbuf.w_seq = Iss + 1 + s_sent
    BY <2>1 DEF SendNumbers
  <2>3. s_sent \in Int /\ s_sent <= ServerLen /\ ServerLen \in Nat
    BY <1>2, Numbers
  <2>4. L = Iss + 1 + s_sent \/ L = Iss + 1 + s_sent + 1
    BY <1>4, <2>2, <2>3 DEF SendLimit
  <2> QED BY <1>4, <2>3, <2>4
<1>6. /\ ServerLen \in Nat /\ SeqMod \in Int /\ Iss + ServerLen + 2 < SeqMod
      /\ 2 * (ServerLen + 2) < SeqMod
  BY Numbers, SizeTypes DEF NoWrap
<1>7. seq \in uint /\ rcv \in uint /\ p.data \in Seq(Byte)
  BY <1>2 DEF ClientState, Packet
<1>8. seq \in Int /\ rcv \in Int /\ len \in Nat /\ Iss + 1 <= rcv /\ rcv <= L
  <2>1. seq \in Int /\ rcv \in Int
    BY <1>7, UintIsInt
  <2>2. len \in Nat
    BY <1>7
  <2>3. Iss + 1 <= rcv /\ rcv <= L
    BY <1>3, <1>4, <2>1
  <2> QED BY <2>1, <2>2, <2>3
<1>9. /\ new \in Nat /\ new > 0 => old >= 0 /\ new <= len - old
  BY <1>1, <1>2, FreshFacts
<1>10. ClientTakes(p).rcv = SeqAdd(rcv, new + f)
  BY <1>2 DEF ClientTakes, ClientState
<1>11. f \in 0..1 /\ (f = 1 => "FIN" \in p.flags /\ SeqAdd(rcv, new) = SeqAdd(seq, len))
  OBVIOUS
<1>12. seq + len <= L /\ ("FIN" \in p.flags => seq + len + 1 <= L)
  BY <1>3, <1>4, <1>8 DEF Ending
<1> HIDE DEF rcv, len, new, fin, f, L, seq, old
<1>13. 2 * (rcv - seq) < SeqMod /\ 2 * (seq - rcv) < SeqMod
  BY <1>3, <1>4, <1>5, <1>6, <1>8, <1>12
<1>14. old = rcv - seq
  BY <1>7, <1>13, IntDiffFacts DEF old
<1>15. rcv + new <= L /\ new \in Nat
  <2>1. new \in Nat
    BY <1>1, <1>2, FreshFacts DEF new
  <2>2. CASE new > 0
    BY <1>4, <1>8, <1>9, <1>12, <1>14, <2>1, <2>2
  <2>3. CASE ~(new > 0)
    BY <1>4, <1>8, <2>1, <2>3
  <2> QED BY <2>1, <2>2, <2>3
<1>16. SeqAdd(rcv, new) = rcv + new
  <2>1. rcv + new \in 0..(SeqMod - 1) /\ new \in Int
    BY <1>4, <1>5, <1>6, <1>8, <1>15
  <2> QED BY <1>8, <2>1, SeqAddFacts
<1>17. SeqAdd(seq, len) = seq + len
  <2>1. seq + len \in 0..(SeqMod - 1) /\ len \in Int
    BY <1>3, <1>4, <1>5, <1>6, <1>8, <1>12
  <2> QED BY <1>8, <2>1, SeqAddFacts
<1>18. rcv + (new + f) <= L /\ new + f \in Int /\ new + f >= 0
  <2>1. f \in Int /\ (f = 0 \/ f = 1)
    BY <1>11
  <2>2. CASE f = 0
    BY <1>4, <1>8, <1>15, <2>2
  <2>3. CASE f = 1
    <3>1. rcv + new = seq + len /\ seq + len + 1 <= L
      BY <1>11, <1>12, <1>16, <1>17, <2>3
    <3> QED BY <1>4, <1>8, <1>15, <2>3, <3>1
  <2> QED BY <2>1, <2>2, <2>3
<1>19. SeqAdd(rcv, new + f) = rcv + (new + f)
  <2>1. rcv + (new + f) \in 0..(SeqMod - 1)
    BY <1>4, <1>5, <1>6, <1>8, <1>18
  <2> QED BY <1>8, <1>18, <2>1, SeqAddFacts
<1>20. rcv + (new + f) \in (Iss + 1)..L
  BY <1>4, <1>8, <1>18
<1> QED BY <1>10, <1>19, <1>20 DEF L

\* A segment is taken.
LEMMA TakesStep ==
  ASSUME IInv, NoWrap, client.st = "open", to_client # <<>>, to_client' = Tail(to_client),
         faults' = faults,
         Head(to_client).flags \cap {"SYN", "RST"} = {},
         LET c == ClientTakes(Head(to_client))
         IN  ClientActs(c, <<>>) \/ ClientActs(c, <<ClientPacket(c, {"ACK"}, c.nxt, <<>>)>>)
  PROVE  IInv' /\ LifeStep(w0, w0')
<1> DEFINE p == Head(to_client)
           c == ClientTakes(p)
           a == ClientPacket(c, {"ACK"}, c.nxt, <<>>)
           new == Len(Fresh(p))
<1>1. ToClientOK(w0, Iss, to_client, client)
  BY DEF IInv
<1>2. /\ client \in ClientState /\ ClientOK(client)
      /\ client.nxt \in ClientSeq /\ client.una \in ClientSeq
      /\ to_client \in Seq(Packet) /\ faults \in 0..MaxFaults
  BY OpenClient
<1>3. /\ p \in Packet /\ p \in Packets(to_client)
      /\ to_client' \in Seq(Packet) /\ Packets(to_client') \subseteq Packets(to_client)
  BY <1>2, PacketsTail
<1>4. tcb # NULL => c.rcv \in (Iss + 1)..SendLimit(tcb)
  BY <1>3, TakesWithin
<1>5. ClientActs(c, <<>>) \/ ClientActs(c, <<a>>)
  OBVIOUS
<1> HIDE DEF p
<1>6. "RST" \notin p.flags
  BY DEF p
<1>7. p.ack \in ClientSeq
  BY <1>1, <1>3, <1>6 DEF ToClientOK
<1>8. p.ack \in uint /\ p.wnd \in uint /\ p.seq \in uint
  BY <1>3 DEF Packet
<1>9. /\ Fresh(p) \in Seq(Byte) /\ new \in Nat /\ new <= ClientFree(client)
  BY <1>2, <1>3, FreshFacts
<1>10. /\ client.got \in Seq(Byte) /\ client.read \in Nat /\ Len(client.got) \in Nat
       /\ ClientFree(client) = ClientWnd - (Len(client.got) - client.read)
       /\ ClientWnd \in Nat /\ Len(client.got) - client.read \in 0..ClientWnd
  BY <1>2, ClientFreeFacts, Numbers DEF ClientOK
<1>11. client.got \o Fresh(p) \in Seq(Byte) /\ Len(client.got \o Fresh(p)) = Len(client.got) + new
  BY <1>9, <1>10
<1>12. \A k \in {new, new + 1} : SeqAdd(client.rcv, k) \in uint
  <2>1. client.rcv \in uint
    BY <1>2 DEF ClientState
  <2>3. client.rcv \in Int
    BY <2>1, UintIsInt
  <2>2. client.rcv \in Int /\ new \in Int /\ new + 1 \in Int
    BY <1>9, <2>3
  <2> QED BY <2>2, SeqAddFacts
<1>13. SeqAdd(p.ack, p.wnd) \in uint
  BY <1>8, UintIsInt, SeqAddFacts
<1>14. /\ c \in ClientState /\ c.st = "open"
       /\ c.got = client.got \o Fresh(p) /\ c.read = client.read
       /\ c.nxt \in {client.nxt, p.ack} /\ c.una \in {client.una, p.ack}
  <2> DEFINE fin == "FIN" \in p.flags /\ ~client.fin
                    /\ SeqAdd(client.rcv, new) = SeqAdd(p.seq, Len(p.data))
             k == new + IF fin THEN 1 ELSE 0
  <2>1. k \in {new, new + 1}
    BY <1>9
  <2>2. c = [client EXCEPT !.got = client.got \o Fresh(p), !.rcv = SeqAdd(client.rcv, k),
                           !.fin = client.fin \/ fin,
                           !.una = IF IntDiff(p.ack, client.una) > 0 THEN p.ack ELSE client.una,
                           !.nxt = IF IntDiff(p.ack, client.nxt) > 0 THEN p.ack ELSE client.nxt,
                           !.edge = SeqAdd(p.ack, p.wnd)]
    BY <1>2 DEF ClientTakes, ClientState
  <2>3. client.fin \in BOOLEAN /\ (client.fin \/ fin) \in BOOLEAN
    BY <1>2 DEF ClientState
  <2> DEFINE fn == client.fin \/ fin
             g == client.got \o Fresh(p)
  <2>4. SeqAdd(client.rcv, k) \in uint
    BY <1>12, <2>1
  <2>5. c = [client EXCEPT !.got = g, !.rcv = SeqAdd(client.rcv, k), !.fin = fn,
                           !.una = IF IntDiff(p.ack, client.una) > 0 THEN p.ack ELSE client.una,
                           !.nxt = IF IntDiff(p.ack, client.nxt) > 0 THEN p.ack ELSE client.nxt,
                           !.edge = SeqAdd(p.ack, p.wnd)]
    BY <2>2
  <2>6. fn \in BOOLEAN /\ g \in Seq(Byte)
    BY <1>11, <2>3
  <2>7. client.una \in uint /\ client.nxt \in uint
    BY <1>2 DEF ClientState
  <2> HIDE DEF fn, g, k, c
  <2>8. c \in ClientState
    BY <1>2, <1>8, <1>13, <2>4, <2>5, <2>6, <2>7 DEF ClientState
  <2>9. /\ c.st = "open" /\ c.got = g /\ c.read = client.read
        /\ c.nxt \in {client.nxt, p.ack} /\ c.una \in {client.una, p.ack}
    BY <1>2, <2>5 DEF ClientState
  <2> QED BY <2>8, <2>9 DEF g
<1> HIDE DEF c
<1>15. ClientOK(c) /\ ~Early(c)
  <2>1. c.nxt \in ClientSeq /\ c.una \in ClientSeq
    BY <1>2, <1>7, <1>14
  <2>2. Len(c.got) - c.read \in 0..ClientWnd
    <3>1. Len(c.got) = Len(client.got) + new /\ c.read = client.read
      BY <1>11, <1>14
    <3> QED BY <1>9, <1>10, <3>1
  <2> QED BY <1>14, <2>1, <2>2 DEF ClientOK, Early
<1>16. a \in Packet /\ FromClient(a) /\ ~Syn(a) /\ a.ack = c.rcv
  <2>1. c.nxt \in ClientSeq
    BY <1>2, <1>7, <1>14
  <2> QED BY <1>14, <1>15, <2>1, AckFacts
<1> HIDE DEF a
<1>17. CASE ClientActs(c, <<>>)
  BY <1>2, <1>3, <1>4, <1>14, <1>15, <1>17, ClientSilent
<1>18. CASE ClientActs(c, <<a>>)
  BY <1>2, <1>3, <1>4, <1>14, <1>15, <1>16, <1>18, ClientSends
<1> QED BY <1>5, <1>17, <1>18

\* The daemon's SYN opens the client's end: the daemon waits for the answer then.
LEMMA OpenedStep ==
  ASSUME IInv, NoWrap, client.st = "syn_sent", to_client # <<>>, to_client' = Tail(to_client),
         faults' = faults, Head(to_client).flags = {"SYN", "ACK"},
         LET p == Head(to_client)
             c == [client EXCEPT !.st = "open", !.rcv = SeqAdd(p.seq, 1), !.una = p.ack,
                                 !.edge = SeqAdd(p.ack, p.wnd)]
         IN  ClientActs(c, <<ClientPacket(c, {"ACK"}, c.nxt, <<>>)>>)
  PROVE  IInv' /\ LifeStep(w0, w0')
<1> DEFINE p == Head(to_client)
           c == [client EXCEPT !.st = "open", !.rcv = SeqAdd(p.seq, 1), !.una = p.ack,
                               !.edge = SeqAdd(p.ack, p.wnd)]
           a == ClientPacket(c, {"ACK"}, c.nxt, <<>>)
<1>1. /\ ProgramTypeOK /\ ToRelayOK(to_relay, client) /\ ToClientOK(w0, Iss, to_client, client)
      /\ DaemonOK(w0, Iss, s_sent, Again) /\ HandshakeOK(w0, Iss) /\ ClientOK(client)
      /\ w0.tcb = tcb /\ w0.map = map
  BY DEF IInv, w0
<1>2. /\ client \in ClientState /\ to_client \in Seq(Packet) /\ to_relay \in Seq(Packet)
      /\ isn \in Nat
  BY <1>1 DEF ProgramTypeOK
<1>3. /\ p \in Packet /\ p \in Packets(to_client)
      /\ to_client' \in Seq(Packet) /\ Packets(to_client') \subseteq Packets(to_client)
  BY <1>2, PacketsTail
<1>4. ClientActs(c, <<a>>)
  OBVIOUS
<1>5. p.flags = {"SYN", "ACK"} /\ Early(client)
  BY DEF Early
<1> HIDE DEF p
<1>6. p.ack \in ClientSeq /\ SynSent(w0, Iss) /\ p.seq = Iss
  BY <1>1, <1>3, <1>5 DEF ToClientOK
<1>7. /\ Iss \in Nat /\ Irs \in Nat /\ ServerLen \in Nat /\ SeqMod \in Int
      /\ Iss + ServerLen + 2 < SeqMod
  BY <1>2, IssIsNat, Numbers, SizeTypes DEF NoWrap
<1>8. SeqAdd(p.seq, 1) = Iss + 1 /\ SeqAdd(p.seq, 1) \in uint
  <2>1. Iss + 1 \in 0..(SeqMod - 1) /\ Iss \in Int
    BY <1>7
  <2> QED BY <1>6, <2>1, SeqAddFacts
<1>9. p.ack \in uint /\ p.wnd \in uint
  BY <1>3 DEF Packet
<1>10. SeqAdd(p.ack, p.wnd) \in uint
  BY <1>9, UintIsInt, SeqAddFacts
<1>11. /\ c \in ClientState /\ c.st = "open" /\ c.rcv = Iss + 1 /\ c.una = p.ack
       /\ c.nxt = client.nxt /\ c.got = client.got /\ c.read = client.read
  BY <1>2, <1>8, <1>9, <1>10 DEF ClientState
<1> HIDE DEF c
<1>12. c.nxt \in ClientSeq
  BY <1>1, <1>11 DEF ClientOK
<1>13. ClientOK(c) /\ ~Early(c)
  BY <1>1, <1>6, <1>11, <1>12 DEF ClientOK, Early
<1>14. a \in Packet /\ FromClient(a) /\ ~Syn(a) /\ a.ack = Iss + 1
  <2>1. a \in Packet /\ FromClient(a) /\ ~Syn(a) /\ a.ack = c.rcv
    BY <1>11, <1>12, <1>13, AckFacts
  <2> QED BY <1>11, <2>1
<1> HIDE DEF a
<1>15. Idle /\ client' = c /\ to_relay' = to_relay \o <<a>> /\ UNCHANGED <<relay, run, server>>
  BY <1>4 DEF ClientActs
<1>16. /\ to_relay' \in Seq(Packet) /\ Packets(to_relay') = Packets(to_relay) \cup {a}
       /\ ToRelayOK(to_relay', c) /\ (HasSyn(to_relay') => HasSyn(to_relay))
  BY <1>1, <1>2, <1>13, <1>14, <1>15, OneMore
<1>17. /\ InSynRecvd(w0) /\ tcb # NULL /\ tcb.state = "SYN_RECVD" /\ tcb.snd_nxt = Iss + 1
  BY <1>1, <1>6 DEF SynSent, InSynRecvd
<1>18. map.e_fd_write = NULL /\ w0.listed["handle_fd_can_write"] = 0
  BY <1>1, <1>7, <1>17 DEF HandshakeOK
<1>19. SendLimit(tcb) = Iss + 1
  <2>1. SendNumbers(tcb, Iss, s_sent)
    BY <1>1, <1>17 DEF DaemonOK, SessionOK
  <2>2. tcb.outbuf.w_seq = Iss + 1 + 0
    BY <1>17, <2>1 DEF SendNumbers
  <2> QED BY <1>7, <1>17, <2>2 DEF SendLimit, Ended
<1>20. Iss + 1 \in (Iss + 1)..SendLimit(tcb)
  BY <1>7, <1>19
<1>21. ToClientOK(w0, Iss, to_client', c)
  BY <1>1, <1>3, <1>13 DEF ToClientOK
<1>22. PhasesOK(w0, Iss, to_relay', c)
  <2>1. ~Connecting(w0)
    BY <1>1, <1>18, TcpAssumption DEF Connecting
  <2>2. ~Past(w0) /\ ~(w0.listed["handle_fd_can_write"] > 0)
    BY <1>1, <1>17, <1>18 DEF Past
  <2> QED BY <1>6, <2>1, <2>2 DEF PhasesOK
<1>23. AcksOK(w0, Iss, to_relay', to_client', c)
  <2>1. \A r \in Packets(to_relay) : ~Acks(r)
    BY <1>1, <1>5 DEF ToRelayOK, Syn, Acks
  <2>2. \A r \in Packets(to_relay') : Acks(r) => r.ack \in (Iss + 1)..SendLimit(tcb)
    BY <1>14, <1>16, <1>20, <2>1
  <2>3. \A r \in Packets(to_client') : "RST" \notin r.flags => "SYN" \in r.flags
    BY <1>1, <1>3, <1>5 DEF ToClientOK
  <2> QED BY <1>1, <1>11, <1>20, <2>2, <2>3 DEF AcksOK
<1>24. run' = {}
  BY <1>15 DEF Idle
<1>25. RunOK(run', listed, to_relay')
  BY <1>24 DEF RunOK
<1>26. ProgramTypeOK'
  BY <1>1, <1>3, <1>11, <1>15, <1>16, <1>24 DEF ProgramTypeOK, relay, server
<1> QED BY <1>13, <1>15, <1>16, <1>21, <1>22, <1>23, <1>25, <1>26, SameDaemon

\* The client receives a packet.
LEMMA ClientReceiveStep ==
  ASSUME IInv, NoWrap, ClientReceive
  PROVE  IInv' /\ LifeStep(w0, w0')
<1> DEFINE p == Head(to_client)
<1>1. to_client # <<>> /\ to_client' = Tail(to_client) /\ faults' = faults
  BY DEF ClientReceive
<1>2. /\ ProgramTypeOK /\ ClientOK(client)
  BY DEF IInv
<1>3. /\ client \in ClientState /\ to_client \in Seq(Packet) /\ faults \in 0..MaxFaults
  BY <1>2 DEF ProgramTypeOK
<1>4. /\ p \in Packet /\ to_client' \in Seq(Packet) /\ Packets(to_client') \subseteq Packets(to_client)
  BY <1>1, <1>3, PacketsTail
<1>5. CASE "RST" \in p.flags /\ ClientActs([client EXCEPT !.st = "reset"], <<>>)
  <2> DEFINE c == [client EXCEPT !.st = "reset"]
  <2>1. /\ c \in ClientState /\ c.st = "reset" /\ c.nxt = client.nxt
        /\ c.got = client.got /\ c.read = client.read
    BY <1>3 DEF ClientState
  <2>2. ClientActs(c, <<>>)
    BY <1>5
  <2> HIDE DEF c
  <2>3. ClientOK(c) /\ ~Early(c)
    BY <1>2, <2>1 DEF ClientOK, Early
  <2> QED BY <1>1, <1>3, <1>4, <2>1, <2>2, <2>3, ClientSilent
<1>6. CASE /\ client.st = "reset"
           /\ ClientActs(client, <<ClientPacket(client, {"RST"}, p.ack, <<>>)>>)
  <2> DEFINE fl == {"RST"}
             d == <<>>
             a == ClientPacket(client, fl, p.ack, d)
  <2>1. fl \in SUBSET Flag /\ d \in Seq(Byte) /\ p.ack \in uint
    BY <1>4 DEF Flag, Packet
  <2>2. ClientActs(client, <<a>>)
    BY <1>6
  <2> HIDE DEF fl, d
  <2>3. a \in Packet /\ a.flags = fl
    BY <1>2, <1>3, <2>1, ClientPacketFacts
  <2> HIDE DEF a
  <2>4. FromClient(a) /\ ~Syn(a) /\ ~Acks(a)
    BY <2>3 DEF fl, FromClient, Syn, Acks
  <2>5. ~Early(client) /\ client.st # "open"
    BY <1>6 DEF Early
  <2> QED BY <1>1, <1>2, <1>3, <1>4, <2>2, <2>3, <2>4, <2>5, ClientSends
<1>7. CASE /\ p.flags = {"SYN", "ACK"} /\ client.st = "syn_sent"
           /\ LET c == [client EXCEPT !.st = "open", !.rcv = SeqAdd(p.seq, 1), !.una = p.ack,
                                      !.edge = SeqAdd(p.ack, p.wnd)]
              IN  ClientActs(c, <<ClientPacket(c, {"ACK"}, c.nxt, <<>>)>>)
  BY <1>1, <1>7, OpenedStep
<1>8. CASE /\ p.flags \cap {"SYN", "RST"} = {} /\ client.st = "open"
           /\ LET c == ClientTakes(p)
              IN  ClientActs(c, <<>>) \/ ClientActs(c, <<ClientPacket(c, {"ACK"}, c.nxt, <<>>)>>)
  BY <1>1, <1>8, TakesStep
<1> QED BY <1>5, <1>6, <1>7, <1>8 DEF ClientReceive
-----------------------------------------------------------------------------
(* handle_tcp. *)

\* The socket of a session past the handshake.
LEMMA SockOfState ==
  ASSUME NEW w, NEW iss, NEW sent, DaemonOK(w, iss, sent, Again), ~InSynRecvd(w)
  PROVE  /\ ~Connecting(w)
         /\ Sock(w) = IF w.tcb # NULL /\ w.tcb.state = "ESTABLISHED" THEN "connected" ELSE "none"
<1>1. CASE w.tcb = NULL
  BY <1>1 DEF DaemonOK, Matched, Connecting, Sock
<1>2. CASE w.tcb # NULL /\ w.tcb.state = "ESTABLISHED"
  <2>1. w.map # NULL /\ w.map.e_fd_write # "handle_fd_did_connect"
    BY <1>2, TcpAssumption DEF DaemonOK, Matched, Watched
  <2> QED BY <1>2, <2>1 DEF Connecting, Sock
<1>3. CASE w.tcb # NULL /\ w.tcb.state # "ESTABLISHED"
  <2>1. w.map = NULL
    BY <1>3 DEF DaemonOK, Matched, InSynRecvd
  <2> QED BY <1>3, <2>1 DEF Connecting, Sock
<1> QED BY <1>1, <1>2, <1>3

\* What handle_tcp is called with.
LEMMA HandleBegins ==
  ASSUME IInv, Turn("handle_tcp")
  PROVE  /\ to_relay # <<>> /\ to_relay \in Seq(Packet)
         /\ pkt \in Packet /\ pkt \in Packets(to_relay) /\ FromClient(pkt)
         /\ Tail(to_relay) \in Seq(Packet) /\ Packets(Tail(to_relay)) \subseteq Packets(to_relay)
         /\ SynsFirst(Tail(to_relay))
         /\ ~Syn(pkt) => ~HasSyn(to_relay) /\ ~Early(client)
         /\ w0.tcb = tcb /\ w0.map = map /\ w0.listed = listed /\ w0.out = <<>>
         /\ w0 \in World /\ DaemonOK(w0, Iss, s_sent, Again)
         /\ tcb # NULL => tcb \in Tcb
         /\ isn \in Nat /\ Iss \in Nat /\ s_sent \in Nat /\ s_sent \in 0..ServerLen
<1>1. /\ ProgramTypeOK /\ RunOK(run, listed, to_relay) /\ ToRelayOK(to_relay, client)
      /\ DaemonOK(w0, Iss, s_sent, Again)
  BY DEF IInv
<1>2. to_relay # <<>>
  BY <1>1 DEF RunOK, Turn
<1>3. /\ to_relay \in Seq(Packet) /\ isn \in Nat /\ s_sent \in 0..ServerLen
      /\ tcb \in Tcb \cup {NULL}
  BY <1>1 DEF ProgramTypeOK
<1>4. /\ pkt \in Packet /\ pkt \in Packets(to_relay) /\ Tail(to_relay) \in Seq(Packet)
      /\ Packets(Tail(to_relay)) \subseteq Packets(to_relay)
  BY <1>2, <1>3, PacketsTail DEF pkt
<1>5. FromClient(pkt) /\ (~Syn(pkt) => ~Early(client)) /\ SynsFirst(to_relay)
  BY <1>1, <1>4 DEF ToRelayOK
<1>6. SynsFirst(Tail(to_relay)) /\ (~Syn(pkt) => ~HasSyn(to_relay))
  BY <1>2, <1>3, <1>5, SynsFirstFacts DEF pkt
<1>7. w0.tcb = tcb /\ w0.map = map /\ w0.listed = listed /\ w0.out = <<>>
  BY DEF w0
<1>8. Iss \in Nat /\ s_sent \in Nat
  BY <1>3, IssIsNat, Numbers
<1>9. w0 \in World
  BY <1>1 DEF DaemonOK
<1> QED BY <1>1, <1>2, <1>3, <1>4, <1>5, <1>6, <1>7, <1>8, <1>9

\* A packet other than a SYN leaves the session past the handshake, or none.
LEMMA SegmentStep ==
  ASSUME IInv, Turn("handle_tcp"), ~Syn(pkt), NEW v, Handled(v), UNCHANGED <<isn, server>>,
         DaemonOK(v, Iss, s_sent, Again), \A p \in Packets(v.out) : "RST" \in p.flags,
         v.tcb # NULL =>
           tcb # NULL /\ Past(v) /\ SendLimit(v.tcb) >= SendLimit(tcb)
             /\ v.tcb.rcv_nxt \in ClientSeq,
         LifeStep(w0, v)
  PROVE  IInv' /\ LifeStep(w0, w0')
<1> DEFINE e == "handle_tcp"
           q == Tail(to_relay)
<1>1. /\ ProgramTypeOK /\ RunOK(run, listed, to_relay) /\ ToRelayOK(to_relay, client)
      /\ ToClientOK(w0, Iss, to_client, client)
      /\ AcksOK(w0, Iss, to_relay, to_client, client) /\ ClientOK(client)
  BY DEF IInv
<1>2. /\ to_relay \in Seq(Packet) /\ q \in Seq(Packet) /\ Packets(q) \subseteq Packets(to_relay)
      /\ SynsFirst(q) /\ ~HasSyn(to_relay) /\ ~Early(client)
      /\ w0.tcb = tcb /\ isn \in Nat /\ Iss \in Nat
      /\ tcb # NULL => tcb \in Tcb
  BY HandleBegins
<1>3. v \in World /\ to_client \in Seq(Packet) /\ v.listed \in [Event -> Nat]
      /\ v.tcb \in Tcb \cup {NULL} /\ v.map \in TcpMap \cup {NULL}
  BY <1>1 DEF DaemonOK, ProgramTypeOK, World
<1>4. Ends(e, v) /\ to_relay' = q
  BY DEF Handled
<1> HIDE DEF q
<1> DEFINE u == w0'
<1>5. /\ u \in World
      /\ u.tcb = v.tcb /\ u.map = v.map /\ u.listed = v.listed
      /\ tcb' = v.tcb /\ map' = v.map /\ listed' = v.listed
      /\ to_client' \in Seq(Packet) /\ Packets(to_client') = Packets(to_client) \cup Packets(v.out)
      /\ run' = Rest(e, v) /\ client' = client /\ faults' = faults
  BY <1>3, <1>4, AfterCallback
<1>6. Iss' = Iss /\ s_sent' = s_sent /\ s_got' = s_got
  BY DEF Iss, server
<1> HIDE DEF u
<1>7. RunOK(run', listed', to_relay') /\ run' \subseteq Event \cup {"handle_tcp"}
  BY <1>1, <1>3, <1>5, RunAfter
<1>8. ProgramTypeOK'
  BY <1>1, <1>2, <1>3, <1>4, <1>5, <1>6, <1>7 DEF ProgramTypeOK
<1>9. DaemonOK(u, Iss, s_sent, Again)
  BY <1>5, OutIrrelevant
<1>10. ~InSynRecvd(u)
  BY <1>5 DEF InSynRecvd, Past
<1>11. HandshakeOK(u, Iss)
  BY <1>10 DEF HandshakeOK
<1>12. ToRelayOK(q, client)
  BY <1>1, <1>2 DEF ToRelayOK
<1>13. ToClientOK(u, Iss, to_client', client)
  BY <1>1, <1>2, <1>5 DEF ToClientOK
<1>14. PhasesOK(u, Iss, q, client)
  <2>1. ~HasSyn(q)
    BY <1>2 DEF HasSyn
  <2>2. ~Connecting(u)
    BY <1>9, <1>10, SockOfState
  <2> QED BY <1>2, <1>10, <2>1, <2>2 DEF PhasesOK
<1>15. AcksOK(u, Iss, q, to_client', client)
  <2> SUFFICES ASSUME u.tcb # NULL
               PROVE  /\ \A p \in Packets(q) : Acks(p) => p.ack \in (Iss + 1)..SendLimit(u.tcb)
                      /\ client.st = "open" =>
                           /\ client.rcv \in (Iss + 1)..SendLimit(u.tcb)
                           /\ \A p \in Packets(to_client') :
                                "RST" \notin p.flags /\ "SYN" \notin p.flags =>
                                  Iss + 1 <= p.seq /\ Ending(p) <= SendLimit(u.tcb)
    BY DEF AcksOK
  <2> DEFINE old == SendLimit(tcb)
             new == SendLimit(u.tcb)
  <2>1. tcb # NULL /\ new >= old /\ tcb \in Tcb /\ u.tcb \in Tcb
    BY <1>2, <1>3, <1>5
  <2>2. old \in Int /\ new \in Int /\ Iss \in Int
    BY <1>2, <2>1, SendLimitIsInt
  <2>3. /\ \A p \in Packets(to_relay) : Acks(p) => p.ack \in (Iss + 1)..old
        /\ client.st = "open" =>
             /\ client.rcv \in (Iss + 1)..old
             /\ \A p \in Packets(to_client) :
                  "RST" \notin p.flags /\ "SYN" \notin p.flags =>
                    Iss + 1 <= p.seq /\ Ending(p) <= old
    BY <1>1, <1>2, <2>1 DEF AcksOK
  <2>4. \A p \in Packets(to_client) : Ending(p) \in Int
    <3> SUFFICES ASSUME NEW i \in 1..Len(to_client) PROVE Ending(to_client[i]) \in Int
      BY DEF Packets
    <3>1. to_client[i] \in Packet
      BY <1>3
    <3>2. to_client[i].seq \in uint /\ to_client[i].data \in Seq(Byte)
      BY <3>1 DEF Packet
    <3>3. to_client[i].seq \in Int /\ Len(to_client[i].data) \in Nat
      BY <3>2, UintIsInt
    <3> QED BY <3>3 DEF Ending
  <2> HIDE DEF old, new
  <2>5. \A a : a \in (Iss + 1)..old => a \in (Iss + 1)..new
    BY <2>1, <2>2
  <2>6. \A p \in Packets(to_client) : "RST" \notin p.flags /\ "SYN" \notin p.flags /\ client.st = "open" =>
                    Iss + 1 <= p.seq /\ Ending(p) <= new
    BY <2>1, <2>2, <2>3, <2>4
  <2>7. \A p \in Packets(to_client') : "RST" \notin p.flags => p \in Packets(to_client)
    BY <1>5
  <2> QED BY <1>2, <2>3, <2>5, <2>6, <2>7 DEF new
<1>16. RcvNxtOK(u)
  BY <1>5 DEF RcvNxtOK
<1>17. IInv'
  BY <1>1, <1>4, <1>5, <1>6, <1>7, <1>8, <1>9, <1>11, <1>12, <1>13, <1>14, <1>15, <1>16 DEF IInv, u
<1>18. LifeStep(w0, u)
  BY <1>5 DEF LifeStep, St, Sock
<1> QED BY <1>17, <1>18 DEF u

\* A packet of no session is answered with a reset.
LEMMA StrayStep ==
  ASSUME IInv, Turn("handle_tcp"), handle_tcp_stray
  PROVE  IInv' /\ LifeStep(w0, w0')
<1> DEFINE p == [flags |-> {"RST", "ACK"}, seq |-> pkt.ack,
                 ack |-> SeqAdd(pkt.seq, 1), wnd |-> 0, data |-> <<>>]
           v == [w0 EXCEPT !.out = <<p>>]
<1>1. tcb = NULL /\ ~Syn(pkt) /\ Handled(v) /\ UNCHANGED <<isn, server>>
  BY DEF handle_tcp_stray, Syn
<1>2. /\ pkt \in Packet /\ w0.tcb = tcb /\ w0 \in World /\ DaemonOK(w0, Iss, s_sent, Again)
  BY HandleBegins
<1>3. p \in Packet /\ "RST" \in p.flags
  <2>1. pkt.ack \in uint /\ pkt.seq \in uint /\ 0 \in uint
    BY <1>2, SizeTypes DEF Packet, uint
  <2>2. pkt.seq \in Int
    BY <2>1, UintIsInt
  <2>3. SeqAdd(pkt.seq, 1) \in uint
    BY <2>2, SeqAddFacts
  <2> QED BY <2>1, <2>3 DEF Packet, Flag
<1> HIDE DEF p
<1>4. <<p>> \in Seq(Packet) /\ Packets(<<p>>) = {p}
  BY <1>3, PacketsSmall
<1>5. /\ v \in World /\ v.tcb = w0.tcb /\ v.map = w0.map /\ v.listed = w0.listed /\ v.out = <<p>>
  BY <1>2, <1>4 DEF World
<1> HIDE DEF v
<1>6. DaemonOK(v, Iss, s_sent, Again)
  BY <1>2, <1>5, OutIrrelevant
<1>7. LifeStep(w0, v)
  BY <1>5 DEF LifeStep, St, Sock
<1> QED BY <1>1, <1>2, <1>3, <1>4, <1>5, <1>6, <1>7, SegmentStep

\* The client's reset.
LEMMA RstStep ==
  ASSUME IInv, Turn("handle_tcp"), handle_tcp_rst
  PROVE  IInv' /\ LifeStep(w0, w0')
<1> DEFINE v == Discard(IF w0.tcb.cb THEN kill_map(w0) ELSE w0)
<1>1. /\ w0.tcb = tcb /\ w0.out = <<>> /\ DaemonOK(w0, Iss, s_sent, Again)
      /\ tcb # NULL => tcb \in Tcb
  BY HandleBegins
<1>2. tcb # NULL /\ "RST" \in pkt.flags /\ Handled(v) /\ UNCHANGED <<isn, server>>
  BY <1>1 DEF handle_tcp_rst
<1>3. /\ DaemonOK(v, Iss, s_sent, Again) /\ v.tcb = NULL /\ v.map = NULL /\ v.out = <<>>
  BY <1>1, <1>2, RstKeeps
<1> HIDE DEF v
<1>4. ~Syn(pkt)
  BY <1>2 DEF Syn
<1>5. LifeStep(w0, v)
  <2>1. w0.tcb # NULL /\ w0.tcb.state # "CLOSED"
    BY <1>1, <1>2, TcbTypes DEF State
  <2> QED BY <1>3, <2>1 DEF LifeStep, St, Sock
<1>6. Packets(v.out) = {}
  <2>1. Len(<<>>) = 0
    OBVIOUS
  <2> QED BY <1>3, <2>1 DEF Packets
<1> QED BY <1>2, <1>3, <1>4, <1>5, <1>6, SegmentStep

\* The two kinds of packets of a session that do not reset it.
LEMMA SegmentBegins ==
  ASSUME IInv, NoWrap, Turn("handle_tcp"), OfSession
  PROVE  /\ tcb # NULL /\ tcb \in Tcb /\ Iss + s_sent + 2 < SeqMod
         /\ Packets(<<>>) = {}
         /\ tcb.rcv_nxt \in ClientSeq
         /\ \/ Syn(pkt) /\ ~Acks(pkt) /\ InSynRecvd(w0) /\ tcb.rcv_nxt = Irs + 1 /\ pkt.seq = Irs
            \/ /\ ~Syn(pkt) /\ Acks(pkt) /\ "ACK" \in pkt.flags
               /\ pkt.ack \in (Iss + 1)..SendLimit(tcb)
               /\ pkt.ack <= SendLimit(tcb)
               /\ Ending(pkt) <= Irs + ClientLen + 2
               /\ InSynRecvd(w0) => /\ tcb.snd_nxt = Iss + 1 /\ map.e_fd_write = NULL
                                    /\ pkt.ack = Iss + 1
<1>1. /\ PhasesOK(w0, Iss, to_relay, client) /\ HandshakeOK(w0, Iss)
      /\ AcksOK(w0, Iss, to_relay, to_client, client) /\ RcvNxtOK(w0)
  BY DEF IInv
<1>2. /\ pkt \in Packet /\ pkt \in Packets(to_relay) /\ FromClient(pkt)
      /\ w0.tcb = tcb /\ w0.map = map /\ DaemonOK(w0, Iss, s_sent, Again)
      /\ tcb # NULL => tcb \in Tcb
      /\ Iss \in Nat /\ s_sent \in Nat /\ s_sent \in 0..ServerLen
  BY HandleBegins
<1>3. tcb # NULL /\ tcb \in Tcb /\ "RST" \notin pkt.flags /\ tcb.rcv_nxt \in ClientSeq
  BY <1>1, <1>2 DEF OfSession, RcvNxtOK
<1>4. Iss + s_sent + 2 < SeqMod
  <2>1. Iss + ServerLen + 2 < SeqMod /\ ServerLen \in Nat /\ SeqMod \in Int
    BY Numbers, SizeTypes DEF NoWrap
  <2> QED BY <1>2, <2>1
<1>5. Packets(<<>>) = {}
  <2>1. Len(<<>>) = 0
    OBVIOUS
  <2> QED BY <2>1 DEF Packets
<1>6. CASE Syn(pkt)
  <2>1. HasSyn(to_relay)
    BY <1>2, <1>6 DEF HasSyn
  <2>2. InSynRecvd(w0)
    BY <1>1, <1>2, <1>3, <2>1 DEF PhasesOK, Past, InSynRecvd
  <2>3. tcb.rcv_nxt = Irs + 1 /\ pkt.seq = Irs /\ ~Acks(pkt)
    BY <1>1, <1>2, <1>6, <2>2 DEF HandshakeOK, FromClient, Syn, Acks
  <2> QED BY <1>3, <1>4, <1>5, <1>6, <2>2, <2>3
<1>7. CASE ~Syn(pkt)
  <2>1. Acks(pkt) /\ "ACK" \in pkt.flags
    <3>1. pkt.flags \in {{"ACK"}, {"ACK", "FIN"}}
      BY <1>2, <1>3, <1>7 DEF FromClient, Syn
    <3> QED BY <1>3, <3>1 DEF Acks
  <2>2. pkt.ack \in (Iss + 1)..SendLimit(tcb) /\ Ending(pkt) <= Irs + ClientLen + 2
    BY <1>1, <1>2, <1>3, <2>1 DEF AcksOK, FromClient
  <2>3. SendLimit(tcb) \in Int
    BY <1>3, SendLimitIsInt
  <2>4. pkt.ack <= SendLimit(tcb) /\ pkt.ack \in Int
    BY <1>2, <2>2, <2>3
  <2>5. ASSUME InSynRecvd(w0)
        PROVE  tcb.snd_nxt = Iss + 1 /\ map.e_fd_write = NULL /\ pkt.ack = Iss + 1
    <3>1. SynSent(w0, Iss)
      BY <1>1, <1>2, <2>1, <2>5 DEF PhasesOK, Opened
    <3>2. tcb.snd_nxt = Iss + 1 /\ tcb.snd_nxt # Iss /\ tcb.state = "SYN_RECVD"
      BY <1>2, <3>1 DEF SynSent, InSynRecvd
    <3>3. map.e_fd_write = NULL
      BY <1>1, <1>2, <2>5, <3>2 DEF HandshakeOK
    <3>4. SendLimit(tcb) = Iss + 1
      <4>1. SendNumbers(tcb, Iss, s_sent)
        BY <1>2, <1>3 DEF DaemonOK, SessionOK
      <4>2. tcb.outbuf.w_seq = Iss + 1 + 0
        BY <3>2, <4>1 DEF SendNumbers
      <4> QED BY <1>2, <3>2, <4>2 DEF SendLimit, Ended
    <3> QED BY <1>2, <2>2, <2>4, <3>2, <3>3, <3>4
  <2> QED BY <1>3, <1>4, <1>5, <1>7, <2>1, <2>2, <2>4, <2>5
<1> QED BY <1>6, <1>7

\* SendLimit depends on the session's numbers alone, so two tcbs of the session in
\* the same state have the same; it grows when the session ends.
LEMMA SameLimit ==
  ASSUME NEW t \in Tcb, NEW u \in Tcb, NEW iss, NEW sent,
         SessionOK(t, iss, sent), SessionOK(u, iss, sent),
         u.state = t.state \/ u.state \in Ended \/ t.state \notin Ended
  PROVE  SendLimit(u) >= SendLimit(t)
<1>1. u.outbuf.w_seq = t.outbuf.w_seq
  BY DEF SessionOK, SendNumbers
<1>2. t.outbuf.w_seq \in uint
  BY TcbTypes
<1>3. t.outbuf.w_seq \in Int
  BY <1>2, UintIsInt
<1> QED BY <1>1, <1>3 DEF SendLimit

\* A session after the acknowledgement in a packet: not set up yet, or past that.
LEMMA AckedSegment ==
  ASSUME IInv, NoWrap, Turn("handle_tcp"), OfSession, Acks(pkt)
  PROVE  /\ tcb.state = "SYN_RECVD" => wa.tcb.state = "SYN_RECVD"
         /\ tcb.state # "SYN_RECVD" =>
              /\ DaemonOK(wa, Iss, s_sent, Again) /\ wa.tcb # NULL /\ wa.tcb \in Tcb /\ wa.out = <<>>
              /\ wa.tcb.state = tcb.state /\ wa.tcb.rcv_nxt = tcb.rcv_nxt
              /\ SendLimit(wa.tcb) >= SendLimit(tcb) /\ (wa.map = NULL <=> map = NULL)
<1>1. /\ tcb # NULL /\ tcb \in Tcb /\ Iss + s_sent + 2 < SeqMod
      /\ "ACK" \in pkt.flags /\ pkt.ack <= SendLimit(tcb)
      /\ tcb.state = "SYN_RECVD" =>
           tcb.snd_nxt = Iss + 1 /\ map.e_fd_write = NULL /\ pkt.ack = Iss + 1
  BY SegmentBegins, HandleBegins DEF InSynRecvd
<1>2. /\ w0.tcb = tcb /\ w0.map = map /\ w0.out = <<>> /\ DaemonOK(w0, Iss, s_sent, Again)
      /\ pkt \in Packet /\ Iss \in Nat /\ s_sent \in Nat
  BY HandleBegins
<1>3. wa = Acked(w0, pkt)
  BY DEF wa
<1> HIDE DEF w0, wa, pkt, Iss
<1>4. CASE tcb.state = "SYN_RECVD"
  <2>1. /\ w0.tcb # NULL /\ w0.tcb.state = "SYN_RECVD"
        /\ w0.tcb.snd_nxt = Iss + 1 /\ w0.map.e_fd_write = NULL
        /\ "ACK" \in pkt.flags /\ pkt.ack = Iss + 1
    BY <1>1, <1>2, <1>4
  <2>2. LET a == Acked(w0, pkt)
            v == Settled(a, pkt)
        IN  /\ DaemonOK(v, Iss, s_sent, Again) /\ v.tcb # NULL /\ v.tcb.state = "ESTABLISHED"
            /\ v.out = w0.out /\ v.map # NULL
            /\ v.listed["handle_fd_can_write"] = w0.listed["handle_fd_can_write"]
            /\ a.tcb.state = "SYN_RECVD"
            /\ v.tcb.e_tcb_send = w0.tcb.e_tcb_send /\ v.tcb.rcv_nxt = w0.tcb.rcv_nxt
            /\ v.tcb.inbuf = w0.tcb.inbuf /\ v.map.e_fd_write = NULL
    BY <1>1, <1>2, <2>1, SynAckedEffect
  <2> QED BY <1>3, <1>4, <2>2
<1>5. CASE tcb.state # "SYN_RECVD"
  <2>1. /\ DaemonOK(wa, Iss, s_sent, Again) /\ wa.tcb # NULL /\ wa.out = w0.out
        /\ SameButAck(w0.tcb, wa.tcb) /\ (wa.map = NULL <=> w0.map = NULL)
    <3>1. /\ w0.tcb # NULL /\ w0.tcb.state # "SYN_RECVD"
          /\ "ACK" \in pkt.flags => pkt.ack <= SendLimit(w0.tcb)
      BY <1>1, <1>2, <1>5
    <3>2. LET v == Acked(w0, pkt)
          IN  /\ DaemonOK(v, Iss, s_sent, Again) /\ v.tcb # NULL /\ v.out = w0.out
              /\ SameButAck(w0.tcb, v.tcb)
              /\ v.map = NULL <=> w0.map = NULL
              /\ v.listed["handle_fd_can_write"] = w0.listed["handle_fd_can_write"]
      BY <1>1, <1>2, <3>1, AckedKeeps
    <3> QED BY <1>3, <3>2
  <2>2. wa.tcb \in Tcb /\ SessionOK(wa.tcb, Iss, s_sent) /\ SessionOK(tcb, Iss, s_sent)
    BY <1>1, <1>2, <2>1 DEF DaemonOK, World
  <2>3. wa.tcb.state = tcb.state /\ wa.tcb.rcv_nxt = tcb.rcv_nxt
    BY <1>2, <2>1 DEF SameButAck
  <2>4. SendLimit(wa.tcb) >= SendLimit(tcb)
    BY <1>1, <2>2, <2>3, SameLimit
  <2> QED BY <1>2, <1>5, <2>1, <2>2, <2>3, <2>4
<1> QED BY <1>4, <1>5

\* The states an acknowledgement may lead to.
AfterAck(s, r) == r = s \/ (s = "FIN_WAIT_1" /\ r = "FIN_WAIT_2") \/ (s = "SYN_RECVD" /\ r = "ESTABLISHED")

\* The session that handle_tcp goes on with is past the handshake.
LEMMA SettledSegment ==
  ASSUME IInv, NoWrap, Turn("handle_tcp"), OfSession, Acks(pkt)
  PROVE  /\ DaemonOK(ws, Iss, s_sent, Again) /\ ws.tcb # NULL /\ ws.tcb \in Tcb /\ ws.out = <<>>
         /\ ws.tcb.state # "SYN_RECVD" /\ ws.tcb.rcv_nxt = tcb.rcv_nxt
         /\ SendLimit(ws.tcb) >= SendLimit(tcb)
         /\ AfterAck(tcb.state, ws.tcb.state)
<1>1. /\ tcb # NULL /\ tcb \in Tcb /\ Iss + s_sent + 2 < SeqMod
      /\ "ACK" \in pkt.flags /\ pkt.ack <= SendLimit(tcb)
      /\ tcb.state = "SYN_RECVD" =>
           tcb.snd_nxt = Iss + 1 /\ map.e_fd_write = NULL /\ pkt.ack = Iss + 1
  BY SegmentBegins, HandleBegins DEF InSynRecvd
<1>2. /\ w0.tcb = tcb /\ w0.map = map /\ w0.out = <<>> /\ DaemonOK(w0, Iss, s_sent, Again)
      /\ pkt \in Packet /\ Iss \in Nat /\ s_sent \in Nat
  BY HandleBegins
<1>3. wa = Acked(w0, pkt) /\ ws = Settled(wa, pkt)
  BY DEF wa, ws
<1>4. tcb.state # "SYN_RECVD" =>
        /\ DaemonOK(wa, Iss, s_sent, Again) /\ wa.tcb # NULL /\ wa.tcb \in Tcb /\ wa.out = <<>>
        /\ wa.tcb.state = tcb.state /\ wa.tcb.rcv_nxt = tcb.rcv_nxt
  BY AckedSegment
<1> HIDE DEF w0, wa, ws, pkt, Iss
<1>5. /\ DaemonOK(ws, Iss, s_sent, Again) /\ ws.tcb # NULL /\ ws.out = <<>>
      /\ ws.tcb.state # "SYN_RECVD" /\ ws.tcb.rcv_nxt = tcb.rcv_nxt
      /\ AfterAck(tcb.state, ws.tcb.state)
  <2>1. CASE tcb.state = "SYN_RECVD"
    <3>1. /\ w0.tcb # NULL /\ w0.tcb.state = "SYN_RECVD"
          /\ w0.tcb.snd_nxt = Iss + 1 /\ w0.map.e_fd_write = NULL
          /\ "ACK" \in pkt.flags /\ pkt.ack = Iss + 1
      BY <1>1, <1>2, <2>1
    <3>2. LET a == Acked(w0, pkt)
              v == Settled(a, pkt)
          IN  /\ DaemonOK(v, Iss, s_sent, Again) /\ v.tcb # NULL /\ v.tcb.state = "ESTABLISHED"
              /\ v.out = w0.out /\ v.map # NULL
              /\ v.listed["handle_fd_can_write"] = w0.listed["handle_fd_can_write"]
              /\ a.tcb.state = "SYN_RECVD"
              /\ v.tcb.e_tcb_send = w0.tcb.e_tcb_send /\ v.tcb.rcv_nxt = w0.tcb.rcv_nxt
              /\ v.tcb.inbuf = w0.tcb.inbuf /\ v.map.e_fd_write = NULL
      BY <1>1, <1>2, <3>1, SynAckedEffect
    <3> QED BY <1>2, <1>3, <2>1, <3>2 DEF AfterAck
  <2>2. CASE tcb.state # "SYN_RECVD"
    <3>0. DaemonOK(wa, Iss, s_sent, Again) /\ wa.tcb # NULL /\ wa.tcb.state # "SYN_RECVD"
      BY <1>4, <2>2
    <3>1. LET v == Settled(wa, pkt)
          IN  /\ DaemonOK(v, Iss, s_sent, Again) /\ v.tcb # NULL /\ v.out = wa.out
              /\ v.map = wa.map /\ v.listed = wa.listed
              /\ v = wa \/ /\ wa.tcb.state = "FIN_WAIT_1" /\ FinAcked(wa.tcb)
                           /\ v.tcb = [wa.tcb EXCEPT !.state = "FIN_WAIT_2"]
      BY <1>1, <1>2, <3>0, SettledKeeps
    <3>2. CASE ws = wa
      BY <1>3, <1>4, <2>2, <3>1, <3>2 DEF AfterAck
    <3>3. CASE /\ wa.tcb.state = "FIN_WAIT_1"
               /\ ws.tcb = [wa.tcb EXCEPT !.state = "FIN_WAIT_2"]
      <4>1. ws.tcb.state = "FIN_WAIT_2" /\ ws.tcb.rcv_nxt = wa.tcb.rcv_nxt
        BY <1>4, <2>2, <3>3 DEF Tcb
      <4> QED BY <1>3, <1>4, <2>2, <3>1, <3>3, <4>1 DEF AfterAck
    <3> QED BY <1>3, <3>1, <3>2, <3>3
  <2> QED BY <2>1, <2>2
<1>6. ws.tcb \in Tcb /\ SessionOK(ws.tcb, Iss, s_sent) /\ SessionOK(tcb, Iss, s_sent)
  BY <1>1, <1>2, <1>5 DEF DaemonOK, World
<1>7. SendLimit(ws.tcb) >= SendLimit(tcb)
  <2>1. ws.tcb.state = tcb.state \/ ws.tcb.state \in Ended \/ tcb.state \notin Ended
    BY <1>5 DEF AfterAck, Ended
  <2> QED BY <1>1, <1>6, <2>1, SameLimit
<1> QED BY <1>5, <1>6, <1>7

\* A SYN that comes again acknowledges nothing.
LEMMA RepeatedSyn ==
  ASSUME IInv, NoWrap, Turn("handle_tcp"), OfSession, Syn(pkt)
  PROVE  ~Returns /\ ws = w0
<1>1. "ACK" \notin pkt.flags
  BY DEF Syn
<1>2. wa = w0 /\ ~AllAcked(wa.tcb, pkt)
  BY <1>1 DEF wa, Acked, AllAcked
<1> QED BY <1>2 DEF ws, Settled, Returns

\* The packet that acknowledges everything in LAST_ACK ends the session.
LEMMA LastAckStep ==
  ASSUME IInv, NoWrap, Turn("handle_tcp"), handle_tcp_last_ack
  PROVE  IInv' /\ LifeStep(w0, w0')
<1>1. /\ OfSession /\ Returns /\ wa.tcb.state = "LAST_ACK"
      /\ Handled(Discard(wa)) /\ UNCHANGED <<isn, server>>
  BY DEF handle_tcp_last_ack
<1>2. ~Syn(pkt) /\ Acks(pkt)
  BY <1>1, SegmentBegins, RepeatedSyn
<1>3. tcb.state # "SYN_RECVD" /\ DaemonOK(wa, Iss, s_sent, Again) /\ wa.tcb # NULL /\ wa.out = <<>>
  BY <1>1, <1>2, AckedSegment
<1>4. wa \in World /\ wa.map = NULL /\ ListedAs(wa, NULL, Again)
  BY <1>1, <1>3 DEF DaemonOK, Matched
<1>5. tcb # NULL /\ tcb \in Tcb /\ Packets(<<>>) = {} /\ w0.tcb = tcb
  BY <1>1, SegmentBegins, HandleBegins
<1> DEFINE v == Discard(wa)
<1>6. DaemonOK(v, Iss, s_sent, Again) /\ v.tcb = NULL /\ v.map = NULL /\ v.out = wa.out
  BY <1>3, <1>4, DiscardKeeps
<1>7. Handled(v)
  BY <1>1
<1> HIDE DEF v
<1>8. LifeStep(w0, v)
  <2>1. w0.tcb # NULL /\ w0.tcb.state # "CLOSED"
    BY <1>5, TcbTypes DEF State
  <2> QED BY <1>6, <2>1 DEF LifeStep, St, Sock
<1>9. Packets(v.out) = {}
  BY <1>3, <1>5, <1>6
<1> QED BY <1>1, <1>2, <1>6, <1>7, <1>8, <1>9, SegmentStep

\* An acknowledgement in CLOSING: TIME_WAIT begins once the FIN is acknowledged.
LEMMA ClosingStep ==
  ASSUME IInv, NoWrap, Turn("handle_tcp"), handle_tcp_closing
  PROVE  IInv' /\ LifeStep(w0, w0')
<1> DEFINE v == IF FinAcked(wa.tcb) THEN TimeWait(wa) ELSE wa
<1>1. /\ OfSession /\ Returns /\ wa.tcb.state = "CLOSING"
      /\ Handled(v) /\ UNCHANGED <<isn, server>>
  BY DEF handle_tcp_closing
<1>2. ~Syn(pkt) /\ Acks(pkt)
  BY <1>1, SegmentBegins, RepeatedSyn
<1>3. /\ tcb.state # "SYN_RECVD"
      /\ DaemonOK(wa, Iss, s_sent, Again) /\ wa.tcb # NULL /\ wa.tcb \in Tcb /\ wa.out = <<>>
      /\ wa.tcb.state = tcb.state /\ wa.tcb.rcv_nxt = tcb.rcv_nxt
      /\ SendLimit(wa.tcb) >= SendLimit(tcb)
  BY <1>1, <1>2, AckedSegment
<1>4. /\ tcb # NULL /\ tcb \in Tcb /\ Packets(<<>>) = {} /\ w0.tcb = tcb
      /\ DaemonOK(w0, Iss, s_sent, Again) /\ tcb.rcv_nxt \in ClientSeq
      /\ Iss \in Nat /\ s_sent \in Nat /\ Iss + s_sent + 2 < SeqMod
  BY <1>1, SegmentBegins, HandleBegins
<1>5. wa.tcb.snd_una = wa.tcb.snd_nxt
  BY <1>1 DEF Returns, AllAcked
<1>6. /\ DaemonOK(v, Iss, s_sent, Again) /\ v.tcb # NULL /\ v.tcb \in Tcb /\ v.out = <<>>
      /\ v.tcb.state \in {"CLOSING", "TIME_WAIT"} /\ v.tcb.rcv_nxt = tcb.rcv_nxt
  <2>1. CASE FinAcked(wa.tcb)
    <3>1. SendNumbers(wa.tcb, Iss, s_sent)
      BY <1>3 DEF DaemonOK, SessionOK
    <3>2. wa.tcb.snd_nxt = wa.tcb.outbuf.w_seq + 1
      BY <1>3, <1>4, <2>1, <3>1, FinAckedFacts
    <3>3. wa.tcb.snd_una = wa.tcb.outbuf.w_seq + 1 /\ wa.tcb.state \in {"FIN_WAIT_2", "CLOSING"}
      BY <1>1, <1>5, <3>2
    <3> DEFINE x == TimeWait(wa)
    <3>4. /\ DaemonOK(x, Iss, s_sent, Again) /\ x.tcb # NULL /\ x.tcb \in Tcb
          /\ x.tcb.state = "TIME_WAIT" /\ x.tcb.rcv_nxt = wa.tcb.rcv_nxt
          /\ x.tcb.outbuf = wa.tcb.outbuf
          /\ x.map = wa.map /\ x.out = wa.out
          /\ x.listed["handle_fd_can_write"] = wa.listed["handle_fd_can_write"]
      BY <1>3, <1>4, <3>3, TimeWaitKeeps
    <3>5. v = x
      BY <2>1
    <3> HIDE DEF x, v
    <3> QED BY <1>3, <3>4, <3>5
  <2>2. CASE ~FinAcked(wa.tcb)
    BY <1>1, <1>3, <2>2
  <2> QED BY <2>1, <2>2
<1> HIDE DEF v
<1>7. Past(v) /\ ~InSynRecvd(v) /\ ~InSynRecvd(w0) /\ tcb.state = "CLOSING"
  BY <1>1, <1>3, <1>4, <1>6 DEF Past, InSynRecvd
<1>8. SendLimit(v.tcb) >= SendLimit(tcb)
  <2>1. SessionOK(v.tcb, Iss, s_sent) /\ SessionOK(tcb, Iss, s_sent)
    BY <1>4, <1>6 DEF DaemonOK
  <2> QED BY <1>4, <1>6, <2>1, SameLimit DEF Ended
<1>9. LifeStep(w0, v)
  <2>1. Sock(w0) = "none" /\ Sock(v) = "none"
    BY <1>4, <1>6, <1>7, SockOfState
  <2> QED BY <1>4, <1>6, <1>7, <2>1 DEF LifeStep, St
<1> QED BY <1>1, <1>2, <1>4, <1>6, <1>7, <1>8, <1>9, SegmentStep

\* A packet is dropped.
LEMMA DropStep ==
  ASSUME IInv, Turn("handle_tcp"), Handled(w0), UNCHANGED <<isn, server>>
  PROVE  IInv' /\ LifeStep(w0, w0')
<1> DEFINE e == "handle_tcp"
           q == Tail(to_relay)
<1>1. /\ ProgramTypeOK /\ RunOK(run, listed, to_relay) /\ ToRelayOK(to_relay, client)
      /\ ToClientOK(w0, Iss, to_client, client) /\ PhasesOK(w0, Iss, to_relay, client)
      /\ AcksOK(w0, Iss, to_relay, to_client, client) /\ ClientOK(client)
  BY DEF IInv
<1>2. /\ q \in Seq(Packet) /\ Packets(q) \subseteq Packets(to_relay) /\ SynsFirst(q)
      /\ w0.tcb = tcb /\ w0.map = map /\ w0.listed = listed /\ w0.out = <<>> /\ w0 \in World
  BY HandleBegins
<1>3. Ends(e, w0) /\ to_relay' = q
  BY DEF Handled
<1>4. /\ tcb' = tcb /\ map' = map /\ listed' = listed /\ run' = Rest(e, w0)
      /\ client' = client /\ faults' = faults /\ to_client' = to_client \o <<>>
      /\ to_client \in Seq(Packet) /\ listed \in [Event -> Nat]
  BY <1>1, <1>2, <1>3 DEF Ends, ProgramTypeOK
<1>5. to_client' = to_client
  BY <1>4
<1> HIDE DEF q, w0
<1>6. RunOK(run', listed, q) /\ run' \subseteq Event \cup {"handle_tcp"}
  <2>1. RunOK(Rest(e, w0), w0.listed, q) /\ Rest(e, w0) \subseteq Event \cup {"handle_tcp"}
    BY <1>1, <1>2, <1>4, RunAfter
  <2> QED BY <1>2, <1>4, <2>1
<1>7. UNCHANGED <<relay, server>>
  BY <1>4 DEF relay
<1>8. ProgramTypeOK'
  BY <1>1, <1>2, <1>3, <1>4, <1>5, <1>6, <1>7 DEF ProgramTypeOK, server
<1>9. ToRelayOK(q, client)
  BY <1>1, <1>2 DEF ToRelayOK
<1>10. PhasesOK(w0, Iss, q, client)
  BY <1>1, <1>2 DEF PhasesOK, Opened, HasSyn
<1>11. AcksOK(w0, Iss, q, to_client, client)
  BY <1>1, <1>2 DEF AcksOK
<1> QED BY <1>1, <1>3, <1>4, <1>5, <1>6, <1>7, <1>8, <1>9, <1>10, <1>11, SameDaemon

\* The socket exists in SYN_RECVD, and its connection stands once the SYN is answered.
LEMMA AckedSock ==
  ASSUME IInv, NoWrap, Turn("handle_tcp"), OfSession, Acks(pkt), tcb.state = "SYN_RECVD"
  PROVE  Sock(w0) = "connected"
<1>1. map.e_fd_write = NULL /\ tcb # NULL
  BY SegmentBegins, HandleBegins DEF InSynRecvd
<1>2. w0.tcb = tcb /\ w0.map = map /\ DaemonOK(w0, Iss, s_sent, Again)
  BY HandleBegins
<1>3. w0.map # NULL
  BY <1>1, <1>2 DEF DaemonOK, Matched
<1> QED BY <1>1, <1>2, <1>3, TcpAssumption DEF Sock

\* The session follows its life when a segment leads it through an acknowledgement
\* and then perhaps a FIN.
LEMMA SegmentLife ==
  ASSUME IInv, NoWrap, Turn("handle_tcp"), OfSession, Acks(pkt), NEW s, NEW v,
         AfterAck(tcb.state, s), AfterFin(s, v.tcb.state), s # "SYN_RECVD",
         DaemonOK(v, Iss, s_sent, Again), v.tcb # NULL, v.tcb.state # "SYN_RECVD"
  PROVE  LifeStep(w0, v)
<1>1. w0.tcb = tcb /\ DaemonOK(w0, Iss, s_sent, Again) /\ tcb # NULL
  BY HandleBegins DEF OfSession
<1>2. Sock(v) = IF v.tcb.state = "ESTABLISHED" THEN "connected" ELSE "none"
  BY SockOfState DEF InSynRecvd
<1>3. St(w0) = tcb.state /\ St(v) = v.tcb.state
  BY <1>1 DEF St
<1>4. CASE tcb.state = "SYN_RECVD"
  <2>1. Sock(w0) = "connected" /\ s = "ESTABLISHED"
    BY <1>4, AckedSock DEF AfterAck
  <2>2. v.tcb.state \in {"ESTABLISHED", "LAST_ACK"}
    BY <2>1 DEF AfterFin
  <2> QED BY <1>2, <1>3, <1>4, <2>1, <2>2 DEF LifeStep
<1>5. CASE tcb.state # "SYN_RECVD"
  <2>1. Sock(w0) = IF tcb.state = "ESTABLISHED" THEN "connected" ELSE "none"
    BY <1>1, <1>5, SockOfState DEF InSynRecvd
  <2>2. s = tcb.state \/ (tcb.state = "FIN_WAIT_1" /\ s = "FIN_WAIT_2")
    BY <1>5 DEF AfterAck
  <2>3. \/ v.tcb.state = tcb.state
        \/ tcb.state = "FIN_WAIT_1" /\ v.tcb.state \in {"FIN_WAIT_2", "CLOSING", "TIME_WAIT"}
        \/ tcb.state = "FIN_WAIT_2" /\ v.tcb.state = "TIME_WAIT"
        \/ tcb.state = "ESTABLISHED" /\ v.tcb.state = "LAST_ACK"
    BY <2>2 DEF AfterFin
  <2> QED BY <1>2, <1>3, <2>1, <2>3 DEF LifeStep
<1> QED BY <1>4, <1>5

\* An old segment is acknowledged again; a SYN that comes again is not.
LEMMA OldStep ==
  ASSUME IInv, NoWrap, Turn("handle_tcp"), handle_tcp_old
  PROVE  IInv' /\ LifeStep(w0, w0')
<1>1. /\ OfSession /\ UNCHANGED <<isn, server>>
      /\ Handled(IF ws.tcb.state = "SYN_RECVD" THEN ws
                 ELSE mark_for_if_write([ws EXCEPT !.tcb.last_acked = SeqAdd(@, -1)]))
  BY DEF handle_tcp_old
<1>2. CASE Syn(pkt)
  <2>1. ws = w0 /\ w0.tcb.state = "SYN_RECVD"
    BY <1>1, <1>2, RepeatedSyn, SegmentBegins DEF InSynRecvd
  <2> HIDE DEF ws, w0
  <2>2. Handled(w0)
    BY <1>1, <2>1
  <2> QED BY <1>1, <2>2, DropStep
<1>3. CASE ~Syn(pkt)
  <2>1. Acks(pkt)
    BY <1>1, <1>3, SegmentBegins
  <2>2. /\ DaemonOK(ws, Iss, s_sent, Again) /\ ws.tcb # NULL /\ ws.tcb \in Tcb /\ ws.out = <<>>
        /\ ws.tcb.state # "SYN_RECVD" /\ ws.tcb.rcv_nxt = tcb.rcv_nxt
        /\ SendLimit(ws.tcb) >= SendLimit(tcb)
        /\ AfterAck(tcb.state, ws.tcb.state)
    BY <1>1, <2>1, SettledSegment
  <2>3. tcb # NULL /\ tcb \in Tcb /\ Packets(<<>>) = {} /\ tcb.rcv_nxt \in ClientSeq
    BY <1>1, SegmentBegins
  <2> HIDE DEF ws, w0, Iss, pkt
  <2> DEFINE l == SeqAdd(ws.tcb.last_acked, -1)
             t == [ws.tcb EXCEPT !.last_acked = l]
             x == [ws EXCEPT !.tcb = t]
             v == mark_for_if_write(x)
  <2>4. Handled(v)
    <3>1. [ws EXCEPT !.tcb.last_acked = SeqAdd(@, -1)] = x
      BY <2>2 DEF DaemonOK, World, Tcb
    <3> QED BY <1>1, <2>2, <3>1
  <2>5. l \in uint
    <3>1. ws.tcb.last_acked \in uint
      BY <2>2, TcbTypes
    <3>2. ws.tcb.last_acked \in Int
      BY <3>1, UintIsInt
    <3> QED BY <3>2, SeqAddFacts
  <2> HIDE DEF l
  <2>6. t \in Tcb /\ SameSession(ws.tcb, t) /\ t.e_tcb_send = ws.tcb.e_tcb_send
    BY <2>2, <2>5 DEF Tcb, SameSession
  <2> HIDE DEF t
  <2>7. DaemonOK(x, Iss, s_sent, Again) /\ x.tcb = t /\ x.tcb # NULL
        /\ x.map = ws.map /\ x.out = ws.out /\ x.listed = ws.listed
    BY <2>2, <2>6, SameSessionKeeps
  <2> HIDE DEF x
  <2>8. /\ DaemonOK(v, Iss, s_sent, Again) /\ v.tcb # NULL /\ v.tcb \in Tcb
        /\ SameSession(x.tcb, v.tcb) /\ v.tcb.e_tcb_send = "do_tcb_write"
        /\ v.tcb = [x.tcb EXCEPT !.e_tcb_send = "do_tcb_write"]
        /\ v.map = x.map /\ v.out = x.out
        /\ \A e \in Event : e # "do_tcb_write" => v.listed[e] = x.listed[e]
    BY <2>7, MarkKeeps
  <2> HIDE DEF v
  <2>9. /\ v.tcb.state = ws.tcb.state /\ v.tcb.rcv_nxt = ws.tcb.rcv_nxt
        /\ v.tcb.outbuf = ws.tcb.outbuf /\ v.out = <<>>
    BY <2>2, <2>6, <2>7, <2>8 DEF SameSession
  <2>10. SendLimit(v.tcb) = SendLimit(ws.tcb) /\ Past(v)
    BY <2>2, <2>8, <2>9 DEF SendLimit, Past
  <2>11. LifeStep(w0, v)
    <3>1. AfterFin(ws.tcb.state, v.tcb.state) /\ v.tcb.state # "SYN_RECVD"
      BY <2>2, <2>9 DEF AfterFin
    <3> QED BY <1>1, <2>1, <2>2, <2>8, <3>1, SegmentLife
  <2>12. v.tcb.rcv_nxt \in ClientSeq /\ SendLimit(v.tcb) >= SendLimit(tcb) /\ Packets(v.out) = {}
    BY <2>2, <2>3, <2>9, <2>10
  <2> QED BY <1>1, <1>3, <2>3, <2>4, <2>8, <2>10, <2>11, <2>12, SegmentStep
<1> QED BY <1>2, <1>3

\* A segment with something new.
LEMMA NewSegmentStep ==
  ASSUME IInv, NoWrap, Turn("handle_tcp"), handle_tcp_segment
  PROVE  IInv' /\ LifeStep(w0, w0')
<1> DEFINE z == NewWindow(ws, pkt)
           v == Receive(z, pkt)
<1>1. /\ OfSession /\ UNCHANGED <<isn, server>> /\ pkt.seq >= ws.tcb.rcv_nxt /\ Handled(v)
  BY DEF handle_tcp_segment
<1>2. Acks(pkt) /\ ~Syn(pkt)
  <2> SUFFICES ASSUME Syn(pkt) PROVE FALSE
    BY <1>1, SegmentBegins
  <2>1. ws = w0 /\ tcb.rcv_nxt = Irs + 1 /\ pkt.seq = Irs /\ w0.tcb = tcb
    BY <1>1, RepeatedSyn, SegmentBegins, HandleBegins
  <2>2. Irs >= Irs + 1
    BY <1>1, <2>1
  <2> QED BY <2>2, Numbers
<1>3. /\ DaemonOK(ws, Iss, s_sent, Again) /\ ws.tcb # NULL /\ ws.tcb \in Tcb /\ ws.out = <<>>
      /\ ws.tcb.state # "SYN_RECVD" /\ ws.tcb.rcv_nxt = tcb.rcv_nxt
      /\ SendLimit(ws.tcb) >= SendLimit(tcb)
      /\ AfterAck(tcb.state, ws.tcb.state)
  BY <1>1, <1>2, SettledSegment
<1>4. /\ tcb # NULL /\ tcb \in Tcb /\ Packets(<<>>) = {} /\ tcb.rcv_nxt \in ClientSeq
      /\ Ending(pkt) <= Irs + ClientLen + 2
  BY <1>1, <1>2, SegmentBegins
<1>5. pkt \in Packet /\ Iss \in Nat /\ s_sent \in Nat
  BY HandleBegins
<1> HIDE DEF ws, w0, Iss, pkt
<1>6. /\ DaemonOK(z, Iss, s_sent, Again) /\ z.tcb # NULL /\ z.tcb \in Tcb
      /\ SameSession(ws.tcb, z.tcb)
      /\ z.map = ws.map /\ z.out = ws.out
      /\ z.listed["handle_fd_can_write"] = ws.listed["handle_fd_can_write"]
  BY <1>3, <1>5, NewWindowKeeps
<1> HIDE DEF z
<1>7. z.tcb.state = ws.tcb.state /\ z.tcb.rcv_nxt = tcb.rcv_nxt /\ z.tcb.outbuf = ws.tcb.outbuf
  BY <1>3, <1>6 DEF SameSession
<1>8. z.tcb.state # "SYN_RECVD" /\ SendLimit(z.tcb) = SendLimit(ws.tcb)
  BY <1>3, <1>7 DEF SendLimit
<1>9. /\ DaemonOK(v, Iss, s_sent, Again) /\ v.tcb # NULL /\ v.tcb.state # "SYN_RECVD"
      /\ v.out = z.out
      /\ SendLimit(v.tcb) >= SendLimit(z.tcb)
      /\ v.tcb.rcv_nxt \in {z.tcb.rcv_nxt, RcvNxtAfter(z.tcb, pkt)}
      /\ AfterFin(z.tcb.state, v.tcb.state)
  BY <1>5, <1>6, <1>8, ReceiveKeeps
<1> HIDE DEF v
<1>10. v.tcb.rcv_nxt \in ClientSeq
  <2> DEFINE r == tcb.rcv_nxt
             n == Len(pkt.data)
             f == IF "FIN" \in pkt.flags THEN 1 ELSE 0
  <2>1. pkt.seq \in uint /\ pkt.data \in Seq(Byte)
    BY <1>5 DEF Packet
  <2>2. pkt.seq \in Int /\ n \in Nat /\ f \in 0..1 /\ Ending(pkt) = pkt.seq + n + f
    <3>1. pkt.seq \in Int
      BY <2>1, UintIsInt
    <3>2. n \in Nat
      BY <2>1
    <3> QED BY <3>1, <3>2 DEF Ending
  <2>3. pkt.seq >= r /\ z.tcb.rcv_nxt = r
    BY <1>1, <1>3, <1>7
  <2>4. /\ Irs \in Int /\ ClientLen \in Int /\ SeqMod \in Int /\ Irs + ClientLen + 2 < SeqMod
        /\ r \in (Irs + 1)..(Irs + ClientLen + 2)
    BY <1>4, Numbers, SizeTypes DEF NoWrap, ClientSeq
  <2> HIDE DEF r, n, f
  <2>5. /\ r + n + f <= Irs + ClientLen + 2 /\ r + n + f < SeqMod /\ r + n + f >= Irs + 1
        /\ r + n + f \in Int
    BY <1>4, <2>2, <2>3, <2>4
  <2>6. z.tcb.rcv_nxt + Len(pkt.data) + (IF "FIN" \in pkt.flags THEN 1 ELSE 0) < SeqMod
    BY <2>3, <2>5 DEF n, f
  <2>7. RcvNxtAfter(z.tcb, pkt) = r + n + f
    BY <1>5, <1>6, <2>3, <2>6, RcvNxtSum DEF n, f
  <2>8. v.tcb.rcv_nxt \in {r, r + n + f}
    BY <1>9, <2>3, <2>7
  <2> QED BY <2>4, <2>5, <2>8 DEF ClientSeq
<1>11. SendLimit(v.tcb) >= SendLimit(tcb)
  <2>1. v.tcb \in Tcb
    BY <1>9 DEF DaemonOK, World
  <2>2. SendLimit(v.tcb) \in Int /\ SendLimit(ws.tcb) \in Int /\ SendLimit(tcb) \in Int
    BY <1>3, <1>4, <2>1, SendLimitIsInt
  <2> QED BY <1>3, <1>8, <1>9, <2>2
<1>12. LifeStep(w0, v)
  <2>1. AfterFin(ws.tcb.state, v.tcb.state)
    BY <1>7, <1>9
  <2> QED BY <1>1, <1>2, <1>3, <1>9, <2>1, SegmentLife
<1>13. Past(v) /\ Packets(v.out) = {}
  BY <1>3, <1>4, <1>6, <1>9 DEF Past
<1> QED BY <1>1, <1>2, <1>4, <1>9, <1>10, <1>11, <1>12, <1>13, SegmentStep

\* A SYN for the listening tcb comes before the client has heard of a session.
LEMMA SynBegins ==
  ASSUME IInv, NoWrap, Turn("handle_tcp"), tcb = NULL, Syn(pkt)
  PROVE  /\ pkt.seq = Irs /\ pkt.wnd \in uint
         /\ ~Opened(to_relay, client) /\ listed["handle_fd_can_write"] = 0
         /\ Early(client) => \A p \in Packets(to_client) : "RST" \in p.flags
         /\ SeqAdd(Irs, 1) = Irs + 1 /\ Irs + 1 \in ClientSeq
<1>1. /\ PhasesOK(w0, Iss, to_relay, client) /\ ToClientOK(w0, Iss, to_client, client) /\ ProgramTypeOK
  BY DEF IInv
<1>2. /\ pkt \in Packet /\ pkt \in Packets(to_relay) /\ FromClient(pkt)
      /\ w0.tcb = tcb /\ w0.listed = listed
  BY HandleBegins
<1>3. HasSyn(to_relay) /\ ~SynSent(w0, Iss)
  BY <1>2 DEF HasSyn, SynSent, InSynRecvd
<1>4. listed["handle_fd_can_write"] \in Nat /\ ~(listed["handle_fd_can_write"] > 0)
  BY <1>1, <1>2, <1>3 DEF PhasesOK, ProgramTypeOK, Event, FdEvent, FdWrite
<1>5. Irs \in Int /\ ClientLen \in Nat /\ 0 <= Irs /\ Irs + 1 < SeqMod /\ SeqMod \in Int
  BY Numbers, SizeTypes DEF NoWrap
<1>6. SeqAdd(Irs, 1) = Irs + 1
  <2>1. Irs + 1 \in 0..(SeqMod - 1)
    BY <1>5
  <2> QED BY <1>5, <2>1, SeqAddFacts
<1>7. Irs + 1 \in ClientSeq
  BY <1>5 DEF ClientSeq
<1>8. ~Opened(to_relay, client)
  BY <1>1, <1>3 DEF PhasesOK
<1>9. Early(client) => \A p \in Packets(to_client) : "RST" \in p.flags
  BY <1>1, <1>3 DEF ToClientOK
<1>10. pkt.seq = Irs /\ pkt.wnd \in uint
  BY <1>2 DEF FromClient, Packet
<1>11. listed["handle_fd_can_write"] = 0
  BY <1>4
<1> QED BY <1>6, <1>7, <1>8, <1>9, <1>10, <1>11

\* What incoming() makes of the SYN: a session that waits for the connection or is
\* about to send its SYN, or a reset.
NewSession(v, iss) ==
    /\ DaemonOK(v, iss, 0, Again) /\ v.listed["handle_fd_can_write"] = 0
    /\ \A p \in Packets(v.out) : "RST" \in p.flags
    /\ v.tcb # NULL =>
         /\ v.tcb.state = "SYN_RECVD" /\ v.tcb.rcv_nxt = Irs + 1 /\ v.tcb.snd_nxt = iss
         /\ v.tcb.e_tcb_send = NULL \/ v.map.e_fd_write = NULL
    /\ LifeStep(w0, v)

\* The three results of socket and connect.
LEMMA AcceptingFacts ==
  ASSUME IInv, NoWrap, NoWrap', Turn("handle_tcp"), tcb = NULL, Syn(pkt), isn' = isn + 1,
         NEW connect \in {"ok", "refused", "in_progress"}
  PROVE  NewSession(Accepting(connect), Iss')
<1> DEFINE iss == Iss'
           t == NewTcb(pkt.seq, pkt.wnd, iss)
           m == [e_fd_read |-> NULL, e_fd_write |-> NULL]
           w == [w0 EXCEPT !.tcb = t, !.map = m]
           v == Accepting(connect)
<1>1. /\ pkt.seq = Irs /\ pkt.wnd \in uint /\ SeqAdd(Irs, 1) = Irs + 1
      /\ listed["handle_fd_can_write"] = 0
  BY SynBegins
<1>2. /\ w0.tcb = NULL /\ w0.listed = listed /\ w0.out = <<>> /\ isn \in Nat /\ w0.map = map
      /\ DaemonOK(w0, Iss, s_sent, Again) /\ w0 \in World
  BY HandleBegins
<1>3. iss \in Nat /\ iss + 2 < SeqMod
  <2>1. iss = ((isn + 1) * IssStep) % SeqMod
    BY DEF Iss
  <2> DEFINE k == (isn + 1) * IssStep
  <2>2. IssStep \in uint
    BY RelayAssumption
  <2>3. IssStep \in Int
    BY <2>2, UintIsInt
  <2>4. k \in Int
    BY <1>2, <2>3
  <2> HIDE DEF k
  <2>5. k % SeqMod \in Nat
    BY <2>4, SeqModAssumption
  <2>6. iss \in Nat
    BY <2>1, <2>5 DEF k
  <2>7. iss + ServerLen + 2 < SeqMod
    BY DEF NoWrap
  <2> HIDE DEF iss
  <2> QED BY <2>6, <2>7, Numbers, SizeTypes
<1>4. v = CASE connect = "refused" -> GiveUp(w)
            [] connect = "in_progress" ->
                 AddEvent([w EXCEPT !.map.e_fd_write = "handle_fd_did_connect"],
                          "handle_fd_did_connect")
            [] connect = "ok" -> mark_for_if_write(w)
  BY DEF Accepting, Iss
<1>5. w0.map = NULL /\ Sock(w0) = "none" /\ St(w0) = "CLOSED"
  BY <1>2 DEF DaemonOK, Matched, Sock, St
<1>6. Packets(<<>>) = {}
  <2>1. Len(<<>>) = 0
    OBVIOUS
  <2> QED BY <2>1 DEF Packets
<1> HIDE DEF iss, pkt, w0, v
<1>7. /\ t \in Tcb /\ SessionOK(t, iss, 0) /\ t.state = "SYN_RECVD" /\ t.cb = TRUE
      /\ t.snd_nxt = iss /\ t.rcv_nxt = SeqAdd(pkt.seq, 1)
      /\ t.e_tcb_send = NULL /\ t.e_timeout = NULL /\ rb_used(t.inbuf) = 0
  <2>1. pkt.seq \in uint
    BY <1>1, Numbers
  <2> QED BY <1>1, <1>3, <2>1, NewTcbFacts
<1> HIDE DEF t
<1>8. /\ DaemonOK(w, iss, 0, Again) /\ w.tcb = t /\ w.tcb # NULL /\ w.map = m
      /\ w.map # NULL /\ w.out = w0.out /\ w.listed = w0.listed
  <2> DEFINE none == 0
  <2>1. /\ DaemonOK(w0, Iss, s_sent, Again) /\ w0.tcb = NULL /\ t \in Tcb /\ SessionOK(t, iss, none)
        /\ t.state = "SYN_RECVD" /\ t.cb = TRUE /\ t.e_tcb_send = NULL /\ t.e_timeout = NULL
        /\ rb_used(t.inbuf) = 0
    BY <1>2, <1>7
  <2> HIDE DEF none
  <2>2. LET mm == [e_fd_read |-> NULL, e_fd_write |-> NULL]
            ww == [w0 EXCEPT !.tcb = t, !.map = mm]
        IN  /\ DaemonOK(ww, iss, none, Again) /\ ww.tcb = t /\ ww.tcb # NULL /\ ww.map = mm
            /\ ww.map # NULL /\ ww.out = w0.out /\ ww.listed = w0.listed
    BY <2>1, OpenKeeps
  <2> QED BY <2>2 DEF none
<1>9. w.map.e_fd_write = NULL /\ w.out = <<>> /\ w.listed["handle_fd_can_write"] = 0
  BY <1>1, <1>2, <1>8
<1> HIDE DEF w, m
<1>10. w.tcb.state = "SYN_RECVD" /\ w.tcb.snd_nxt = iss /\ w.tcb.rcv_nxt = Irs + 1
       /\ w.tcb.e_tcb_send = NULL
  BY <1>1, <1>7, <1>8
<1>11. CASE connect = "refused"
  <2> DEFINE x == RemoveEvent(GiveUp(w), NULL)
  <2>1. w \in World /\ ListedAs(w, NULL, Again) /\ SessionOK(w.tcb, iss, 0)
        /\ w.listed["handle_fd_can_write"] \in Nat
    BY <1>8, <1>9 DEF DaemonOK
  <2>2. LET y == RemoveEvent(kill_map(tcp_close(w)), NULL)
        IN  /\ DaemonOK(y, iss, 0, Again) /\ y.map = NULL
            /\ y.listed["handle_fd_can_write"] <= w.listed["handle_fd_can_write"]
            /\ w.tcb.state = "SYN_RECVD" =>
                 /\ y.tcb = NULL
                 /\ \E p \in Packet : "RST" \in p.flags /\ y.out = Append(w.out, p)
            /\ w.tcb.state = "ESTABLISHED" =>
                 /\ y.tcb # NULL /\ y.tcb.state = "FIN_WAIT_1" /\ y.out = w.out
                 /\ SendLimit(y.tcb) = SendLimit(w.tcb) + 1 /\ y.tcb.rcv_nxt = w.tcb.rcv_nxt
    BY <1>3, <1>8, <1>10, <2>1, GiveUpKeeps
  <2>3. v = RemoveEvent(kill_map(tcp_close(w)), NULL)
    BY <1>4, <1>11 DEF GiveUp, RemoveEvent
  <2>4. /\ DaemonOK(v, iss, 0, Again) /\ v.map = NULL /\ v.tcb = NULL
        /\ v.listed["handle_fd_can_write"] <= w.listed["handle_fd_can_write"]
        /\ \E p \in Packet : "RST" \in p.flags /\ v.out = Append(w.out, p)
    BY <1>10, <2>2, <2>3
  <2>5. v.listed["handle_fd_can_write"] = 0
    <3>1. v.listed["handle_fd_can_write"] \in Nat
      BY <2>4 DEF DaemonOK, World, Event, FdEvent, FdWrite
    <3> QED BY <1>9, <2>4, <3>1
  <2>6. PICK p \in Packet : "RST" \in p.flags /\ v.out = Append(w.out, p)
    BY <2>4
  <2>7. v.out = <<p>>
    BY <1>9, <2>6
  <2>8. \A r \in Packets(v.out) : "RST" \in r.flags
    BY <2>6, <2>7, PacketsSmall
  <2>9. LifeStep(w0, v)
    BY <1>5, <2>4 DEF LifeStep, St, Sock
  <2> QED BY <2>4, <2>5, <2>8, <2>9 DEF NewSession, v, iss
<1>12. CASE connect = "in_progress"
  <2> DEFINE y == AddEvent([w EXCEPT !.map.e_fd_write = "handle_fd_did_connect"],
                           "handle_fd_did_connect")
  <2>1. /\ DaemonOK(y, iss, 0, Again) /\ y.tcb = w.tcb /\ y.out = w.out
        /\ y.map # NULL /\ y.map.e_fd_write = "handle_fd_did_connect"
        /\ y.listed["handle_fd_can_write"] = w.listed["handle_fd_can_write"]
    BY <1>8, <1>9, <1>10, ConnectKeeps
  <2>2. v = y
    BY <1>4, <1>12
  <2> HIDE DEF y
  <2>3. LifeStep(w0, v)
    BY <1>5, <1>8, <1>10, <2>1, <2>2 DEF LifeStep, St, Sock
  <2>4. \A p \in Packets(v.out) : "RST" \in p.flags
    BY <1>6, <1>9, <2>1, <2>2
  <2> QED BY <1>9, <1>10, <2>1, <2>2, <2>3, <2>4 DEF NewSession, v, iss
<1>13. CASE connect = "ok"
  <2> DEFINE y == mark_for_if_write(w)
  <2>1. /\ DaemonOK(y, iss, 0, Again) /\ y.tcb # NULL /\ y.tcb \in Tcb
        /\ SameSession(w.tcb, y.tcb) /\ y.tcb.e_tcb_send = "do_tcb_write"
        /\ y.tcb = [w.tcb EXCEPT !.e_tcb_send = "do_tcb_write"]
        /\ y.map = w.map /\ y.out = w.out
        /\ \A e \in Event : e # "do_tcb_write" => y.listed[e] = w.listed[e]
    BY <1>8, MarkKeeps
  <2>2. v = y
    BY <1>4, <1>13
  <2> HIDE DEF y
  <2>3. /\ v.tcb.state = "SYN_RECVD" /\ v.tcb.rcv_nxt = Irs + 1 /\ v.tcb.snd_nxt = iss
        /\ v.map.e_fd_write = NULL /\ v.map # NULL
    BY <1>8, <1>9, <1>10, <2>1, <2>2 DEF SameSession
  <2>4. v.listed["handle_fd_can_write"] = 0
    BY <1>9, <2>1, <2>2 DEF Event, FdEvent, FdWrite
  <2>5. LifeStep(w0, v)
    BY <1>5, <2>1, <2>2, <2>3, TcpAssumption DEF LifeStep, St, Sock
  <2>6. \A p \in Packets(v.out) : "RST" \in p.flags
    BY <1>6, <1>9, <2>1, <2>2
  <2> QED BY <2>1, <2>2, <2>3, <2>4, <2>5, <2>6 DEF NewSession, v, iss
<1> QED BY <1>11, <1>12, <1>13

\* A SYN opens a session.
LEMMA SynStep ==
  ASSUME IInv, NoWrap, NoWrap', Turn("handle_tcp"),
         NEW connect \in {"ok", "refused", "in_progress"}, handle_tcp_syn(connect)
  PROVE  IInv' /\ LifeStep(w0, w0')
<1> DEFINE e == "handle_tcp"
           q == Tail(to_relay)
           v == Accepting(connect)
           iss == Iss'
<1>1. /\ ProgramTypeOK /\ RunOK(run, listed, to_relay) /\ ToRelayOK(to_relay, client)
      /\ ToClientOK(w0, Iss, to_client, client) /\ ClientOK(client)
  BY DEF IInv
<1>2. tcb = NULL /\ Syn(pkt) /\ isn' = isn + 1 /\ s_sent' = 0 /\ s_got' = <<>> /\ Handled(v)
  BY DEF handle_tcp_syn, Syn
<1>3. NewSession(v, iss)
  BY <1>2, AcceptingFacts
<1>4. /\ ~Opened(to_relay, client) /\ Irs + 1 \in ClientSeq
      /\ Early(client) => \A p \in Packets(to_client) : "RST" \in p.flags
  BY <1>2, SynBegins
<1>5. /\ to_relay \in Seq(Packet) /\ q \in Seq(Packet) /\ Packets(q) \subseteq Packets(to_relay)
      /\ SynsFirst(q) /\ isn \in Nat
  BY HandleBegins
<1> HIDE DEF v, iss
<1>6. /\ DaemonOK(v, iss, 0, Again) /\ v.listed["handle_fd_can_write"] = 0
      /\ \A p \in Packets(v.out) : "RST" \in p.flags
      /\ v.tcb # NULL =>
           /\ v.tcb.state = "SYN_RECVD" /\ v.tcb.rcv_nxt = Irs + 1 /\ v.tcb.snd_nxt = iss
           /\ v.tcb.e_tcb_send = NULL \/ v.map.e_fd_write = NULL
      /\ LifeStep(w0, v)
  BY <1>3 DEF NewSession
<1>7. v \in World /\ to_client \in Seq(Packet) /\ v.listed \in [Event -> Nat]
      /\ v.tcb \in Tcb \cup {NULL} /\ v.map \in TcpMap \cup {NULL}
  BY <1>1, <1>6 DEF DaemonOK, ProgramTypeOK, World
<1>8. Ends(e, v) /\ to_relay' = q
  BY <1>2 DEF Handled
<1> HIDE DEF q
<1> DEFINE u == w0'
<1>9. /\ u \in World
      /\ u.tcb = v.tcb /\ u.map = v.map /\ u.listed = v.listed
      /\ tcb' = v.tcb /\ map' = v.map /\ listed' = v.listed
      /\ to_client' \in Seq(Packet) /\ Packets(to_client') = Packets(to_client) \cup Packets(v.out)
      /\ run' = Rest(e, v) /\ client' = client /\ faults' = faults
  BY <1>7, <1>8, AfterCallback
<1> HIDE DEF u
<1>10. RunOK(run', listed', to_relay') /\ run' \subseteq Event \cup {"handle_tcp"}
  BY <1>1, <1>7, <1>9, RunAfter
<1>11. ProgramTypeOK'
  <2>1. isn' \in Nat /\ s_sent' \in 0..ServerLen /\ s_got' \in Seq(Byte)
    BY <1>2, <1>5, Numbers
  <2>2. client \in ClientState /\ faults \in 0..MaxFaults
    BY <1>1 DEF ProgramTypeOK
  <2> QED BY <1>5, <1>7, <1>8, <1>9, <1>10, <2>1, <2>2 DEF ProgramTypeOK
<1>12. DaemonOK(u, iss, 0, Again)
  BY <1>6, <1>9, OutIrrelevant
<1>13. HandshakeOK(u, iss)
  BY <1>6, <1>9 DEF HandshakeOK, InSynRecvd
<1>14. ToRelayOK(q, client)
  BY <1>1, <1>5 DEF ToRelayOK
<1>15. ToClientOK(u, iss, to_client', client)
  BY <1>1, <1>4, <1>6, <1>9 DEF ToClientOK
<1>16. ~Opened(q, client)
  BY <1>4, <1>5 DEF Opened
<1>17. PhasesOK(u, iss, q, client)
  BY <1>6, <1>9, <1>16 DEF PhasesOK, Past
<1>18. AcksOK(u, iss, q, to_client', client)
  BY <1>16 DEF AcksOK, Opened
<1>19. RcvNxtOK(u)
  BY <1>4, <1>6, <1>9 DEF RcvNxtOK
<1>20. IInv'
  BY <1>1, <1>2, <1>8, <1>9, <1>10, <1>11, <1>12, <1>13, <1>14, <1>15, <1>17, <1>18, <1>19
     DEF IInv, u, iss
<1>21. LifeStep(w0, u)
  BY <1>6, <1>9 DEF LifeStep, St, Sock
<1> QED BY <1>20, <1>21 DEF u
-----------------------------------------------------------------------------
(* The specification. *)

\* The initial state.
LEMMA InitInv == Init => IInv
<1> SUFFICES ASSUME Init PROVE IInv
  OBVIOUS
<1>1. /\ tcb = NULL /\ map = NULL /\ listed = [e \in Event |-> 0] /\ isn = 0 /\ run = {}
      /\ to_relay = <<>> /\ to_client = <<>> /\ s_sent = 0 /\ s_got = <<>> /\ faults = 0
      /\ client = [st |-> "closed", una |-> Irs, nxt |-> Irs, edge |-> Irs, rcv |-> 0,
                   got |-> <<>>, read |-> 0, fin |-> FALSE]
  BY DEF Init
<1>2. /\ w0.tcb = NULL /\ w0.map = NULL /\ w0.listed = listed /\ w0.out = <<>>
      /\ w0 = [tcb |-> NULL, map |-> NULL, listed |-> listed, out |-> <<>>]
  BY <1>1 DEF w0
<1>3. Irs \in uint /\ 0 \in uint /\ MaxFaults \in Nat /\ ServerLen \in Nat /\ ClientWnd \in Nat
  BY Numbers, RelayAssumption, SizeTypes DEF uint
<1>4. client \in ClientState
  BY <1>1, <1>3 DEF ClientState
<1>5. ProgramTypeOK
  BY <1>1, <1>3, <1>4 DEF ProgramTypeOK
<1>6. w0 \in World
  BY <1>1, <1>2 DEF World
<1>7. NULL \notin Event
  BY TcpAssumption DEF Event, FdEvent, FdWrite, Timer
<1>8. ListedAs(w0, NULL, Again)
  BY <1>1, <1>2, <1>7 DEF ListedAs, PointsTo
<1>9. DaemonOK(w0, Iss, s_sent, Again)
  BY <1>2, <1>6, <1>8 DEF DaemonOK, Matched, Watched
<1>10. Packets(<<>>) = {} /\ SynsFirst(<<>>)
  <2>1. Len(<<>>) = 0
    OBVIOUS
  <2> QED BY <2>1 DEF Packets, SynsFirst
<1>11. HandshakeOK(w0, Iss) /\ RunOK(run, listed, to_relay) /\ RcvNxtOK(w0)
  BY <1>1, <1>2 DEF HandshakeOK, InSynRecvd, RunOK, RcvNxtOK
<1>12. ToRelayOK(to_relay, client) /\ ToClientOK(w0, Iss, to_client, client)
  BY <1>1, <1>10 DEF ToRelayOK, ToClientOK
<1>13. PhasesOK(w0, Iss, to_relay, client) /\ AcksOK(w0, Iss, to_relay, to_client, client)
  <2>1. listed["handle_fd_can_write"] = 0
    BY <1>1 DEF Event, FdEvent, FdWrite
  <2> QED BY <1>1, <1>2, <1>10, <2>1 DEF PhasesOK, Opened, Past, AcksOK
<1>14. ClientOK(client)
  <2>1. Len(client.got) = 0 /\ client.read = 0 /\ client.st = "closed"
    BY <1>1
  <2> QED BY <1>3, <2>1 DEF ClientOK
<1> QED BY <1>5, <1>9, <1>11, <1>12, <1>13, <1>14 DEF IInv

\* Every step keeps the invariant and is a step of Session or changes nothing there.
LEMMA NextStep ==
  ASSUME IInv, NoWrap, NoWrap', [Next]_vars
  PROVE  IInv' /\ LifeStep(w0, w0')
<1>1. CASE Waits \/ (\E ready \in SUBSET (FdEvent \cup {"handle_tcp"}) : SelectFds(ready))
             \/ (\E e \in Timer : SelectTimer(e)) \/ (\E e \in FdEvent : dangling_callback(e))
  BY <1>1, SelectSteps
<1>2. ASSUME NEW k \in 0..BufSize, handle_fd_can_read(k) \/ handle_fd_can_write(k)
      PROVE  IInv' /\ LifeStep(w0, w0')
  BY <1>2, CanReadStep, CanWriteStep
<1>3. CASE handle_fd_can_read_end \/ handle_fd_can_read_again
             \/ handle_fd_can_write_end \/ handle_fd_can_write_again
  BY <1>3, CanReadEndStep, CanReadAgainStep, CanWriteEndStep, CanWriteAgainStep
<1>4. ASSUME NEW ok \in BOOLEAN, handle_fd_did_connect(ok) PROVE IInv' /\ LifeStep(w0, w0')
  BY <1>4, DidConnectStep
<1>5. CASE handle_tcp
  <2>1. Turn("handle_tcp")
    BY <1>5 DEF handle_tcp
  <2>2. ASSUME NEW connect \in {"ok"} \cup (Outcomes \cap {"refused", "in_progress"}),
               handle_tcp_syn(connect)
        PROVE  IInv' /\ LifeStep(w0, w0')
    BY <2>1, <2>2, SynStep
  <2>3. CASE handle_tcp_stray \/ handle_tcp_rst
    BY <2>1, <2>3, StrayStep, RstStep
  <2>4. CASE handle_tcp_last_ack \/ handle_tcp_closing
    BY <2>1, <2>4, LastAckStep, ClosingStep
  <2>5. CASE handle_tcp_old \/ handle_tcp_segment
    BY <2>1, <2>5, OldStep, NewSegmentStep
  <2> QED BY <1>5, <2>2, <2>3, <2>4, <2>5 DEF handle_tcp
<1>6. CASE tcp_timeout \/ tcp_remove \/ do_tcb_write
  BY <1>6, TimeoutStep, RemoveStep, WriteStep
<1>7. CASE ClientSyn \/ ClientReceive \/ ClientRead \/ ClientRexmit \/ ClientAbort
  BY <1>7, ClientSynStep, ClientReceiveStep, ClientReadStep, ClientRexmitStep, ClientAbortStep
<1>8. CASE (\E n \in 1..Mss : ClientSend(n, FALSE)) \/ (\E n \in 0..Mss : ClientSend(n, TRUE))
  <2>1. \A n \in 0..Mss : n \in Nat
    BY SizeTypes
  <2>2. \A n \in 1..Mss : n \in Nat
    BY SizeTypes
  <2>3. ASSUME NEW n \in 1..Mss, ClientSend(n, FALSE) PROVE IInv' /\ LifeStep(w0, w0')
    <3>1. n \in Nat /\ FALSE \in BOOLEAN
      BY <2>2
    <3> QED BY <2>3, <3>1, ClientSendStep
  <2>4. ASSUME NEW n \in 0..Mss, ClientSend(n, TRUE) PROVE IInv' /\ LifeStep(w0, w0')
    <3>1. n \in Nat /\ TRUE \in BOOLEAN
      BY <2>1
    <3> QED BY <2>4, <3>1, ClientSendStep
  <2> QED BY <1>8, <2>3, <2>4
<1>9. CASE Network
  BY <1>9, NetworkStep
<1>10. CASE UNCHANGED vars
  <2>1. UNCHANGED <<relay, to_relay, to_client, client, server, faults>> /\ run' = run
    BY <1>10 DEF vars
  <2>2. RunOK(run', listed, to_relay) /\ run' \subseteq Event \cup {"handle_tcp", "undefined"}
    BY <2>1 DEF IInv, ProgramTypeOK
  <2> QED BY <2>1, <2>2, LoopStep
<1> QED BY <1>1, <1>2, <1>3, <1>4, <1>5, <1>6, <1>7, <1>8, <1>9, <1>10
        DEF Next, Callback, SocketCallback, Client, ClientGoesOn, ClientCloses

\* What was thrown away stays thrown away.
LEMMA HistoryStep ==
  ASSUME spoilt \in BOOLEAN, [Next]_vars
  PROVE  spoilt' \in BOOLEAN /\ (spoilt => spoilt')
<1> DEFINE Goal == spoilt' \in BOOLEAN /\ (spoilt => spoilt')
<1>1. ASSUME spoilt' = spoilt PROVE Goal
  BY <1>1
<1>2. ASSUME NEW k, handle_fd_can_write(k) PROVE Goal
  <2>1. spoilt' = (spoilt \/ k < Len(Readable(tcb)))
    BY <1>2 DEF handle_fd_can_write
  <2> QED BY <2>1
<1>3. ASSUME handle_fd_can_write_again PROVE Goal
  BY <1>3 DEF handle_fd_can_write_again
<1>4. ASSUME handle_tcp_old PROVE Goal
  <2>1. spoilt' = (spoilt \/ PartlyOld)
    BY <1>4 DEF handle_tcp_old
  <2>2. PartlyOld \in BOOLEAN
    BY DEF PartlyOld
  <2> HIDE DEF PartlyOld
  <2> QED BY <2>1, <2>2
<1>5. ASSUME LoseToRelay PROVE Goal
  <2>1. spoilt' = (spoilt \/ pkt.data # <<>>)
    BY <1>5 DEF LoseToRelay
  <2> QED BY <2>1
<1> SUFFICES Goal
  OBVIOUS
<1> HIDE DEF Goal
<1>6. CASE SocketCallback
  <2>1. ASSUME NEW k, handle_fd_can_read(k) PROVE Goal
    BY <1>1, <2>1 DEF handle_fd_can_read
  <2>2. ASSUME NEW e, dangling_callback(e) PROVE Goal
    BY <1>1, <2>2 DEF dangling_callback
  <2>3. ASSUME NEW ok, handle_fd_did_connect(ok) PROVE Goal
    BY <1>1, <2>3 DEF handle_fd_did_connect
  <2>4. ASSUME handle_fd_can_read_end \/ handle_fd_can_read_again \/ handle_fd_can_write_end
        PROVE  Goal
    BY <1>1, <2>4 DEF handle_fd_can_read_end, handle_fd_can_read_again, handle_fd_can_write_end
  <2> QED BY <1>2, <1>3, <1>6, <2>1, <2>2, <2>3, <2>4 DEF SocketCallback
<1>7. CASE handle_tcp
  <2>1. ASSUME NEW connect, handle_tcp_syn(connect) PROVE Goal
    BY <1>1, <2>1 DEF handle_tcp_syn
  <2>2. ASSUME \/ handle_tcp_stray \/ handle_tcp_rst \/ handle_tcp_last_ack
               \/ handle_tcp_closing \/ handle_tcp_segment
        PROVE  Goal
    BY <1>1, <2>2 DEF handle_tcp_stray, handle_tcp_rst, handle_tcp_last_ack,
       handle_tcp_closing, handle_tcp_segment
  <2> QED BY <1>4, <1>7, <2>1, <2>2 DEF handle_tcp
<1>8. CASE tcp_timeout \/ tcp_remove \/ do_tcb_write
  BY <1>1, <1>8 DEF tcp_timeout, tcp_remove, do_tcb_write
<1>9. CASE Client
  <2>1. CASE ClientReceive
    BY <1>1, <2>1 DEF ClientReceive, ClientActs
  <2>2. ASSUME NEW n, NEW fin, ClientSend(n, fin) PROVE Goal
    BY <1>1, <2>2 DEF ClientSend, ClientActs
  <2>3. CASE ClientSyn \/ ClientRead \/ ClientRexmit \/ ClientAbort
    BY <1>1, <2>3 DEF ClientSyn, ClientRead, ClientRexmit, ClientAbort, ClientActs
  <2> QED BY <1>9, <2>1, <2>2, <2>3 DEF Client, ClientGoesOn, ClientCloses
<1>10. CASE Network
  BY <1>1, <1>5, <1>10 DEF Network, LoseToClient, DupToRelay
<1>11. CASE \/ Waits \/ UNCHANGED vars
            \/ \E ready \in SUBSET (FdEvent \cup {"handle_tcp"}) : SelectFds(ready)
            \/ \E e \in Timer : SelectTimer(e)
  BY <1>1, <1>11 DEF Waits, SelectFds, SelectTimer, vars
<1> QED BY <1>6, <1>7, <1>8, <1>9, <1>10, <1>11 DEF Next, Callback

\* The invariant holds as long as no sequence number wraps.
LEMMA InvAlways == Spec /\ []NoWrap => []IInv
<1>1. IInv /\ NoWrap /\ NoWrap' /\ [Next]_vars => IInv'
  BY NextStep
<1> QED BY InitInv, <1>1, PTL DEF Spec

\* Every variable keeps its type: sequence numbers stay 32-bit values, and no event
\* is listed a negative number of times although event_remove is called for events
\* that may have been taken out already.
THEOREM TypesAlways == Spec /\ []NoWrap => []TypeOK
<1>1. Spec => [](spoilt \in BOOLEAN)
  <2>1. Init => spoilt \in BOOLEAN
    BY DEF Init
  <2>2. spoilt \in BOOLEAN /\ [Next]_vars => (spoilt \in BOOLEAN)'
    BY HistoryStep
  <2> QED BY <2>1, <2>2, PTL DEF Spec
<1>2. IInv /\ spoilt \in BOOLEAN => TypeOK
  BY DEF IInv, TypeOK
<1> QED BY InvAlways, <1>1, <1>2, PTL

\* tcb and tcp_map live and die together, so handle_tcp calls no callback of a freed
\* map and no callback of the socket uses a freed tcb.
THEOREM MapMatchesTcbAlways == Spec /\ []NoWrap => []MapMatchesTcb
<1>1. IInv => MapMatchesTcb
  BY DEF IInv, DaemonOK, Matched, MapMatchesTcb, w0
<1> QED BY InvAlways, <1>1, PTL

\* The event lists hold what the pointers of tcb and map name: no event outlives the
\* struct its callback uses, none is listed twice, and no pointer dangles, with the
\* one exception of handle_fd_can_write after EAGAIN.
THEOREM EventsMatchAlways == Spec /\ []NoWrap => []EventsMatch
<1>1. ASSUME IInv PROVE EventsMatch
  <2>1. DaemonOK(w0, Iss, s_sent, Again) /\ w0.tcb = tcb /\ w0.map = map /\ w0.listed = listed
    BY <1>1 DEF IInv, w0
  <2>2. NULL \notin Event
    BY TcpAssumption DEF Event, FdEvent, FdWrite, Timer
  <2> SUFFICES ASSUME NEW e \in Event
               PROVE  LET n == IF Pointed(e) THEN 1 ELSE 0
                      IN  \/ listed[e] = n
                          \/ e = "handle_fd_can_write" /\ "write_again" \in Outcomes /\ listed[e] > n
    BY DEF EventsMatch
  <2> DEFINE n == IF PointsTo(w0, e) THEN 1 ELSE 0
             k == n + IF e = NULL THEN 1 ELSE 0
  <2>3. listed[e] = k \/ (e = "handle_fd_can_write" /\ Again /\ listed[e] > k)
    BY <2>1 DEF DaemonOK, ListedAs
  <2>4. k = n
    BY <2>2
  <2>5. Pointed(e) <=> PointsTo(w0, e)
    BY <2>1 DEF Pointed, PointsTo
  <2> QED BY <2>3, <2>4, <2>5 DEF Again
<1>2. IInv => EventsMatch
  BY <1>1
<1> QED BY InvAlways, <1>2, PTL

\* The one e_timeout of a tcb serves tcp_remove exactly in TIME_WAIT, and as
\* retransmission timer runs only while something is unacknowledged.
THEOREM TimerPurposeAlways == Spec /\ []NoWrap => []TimerPurpose
<1>1. IInv => TimerPurpose
  BY DEF IInv, DaemonOK, SessionOK, TimerOf, TimerPurpose, w0
<1> QED BY InvAlways, <1>1, PTL

\* The daemon implements Session: the tcb follows the TCP state diagram, and the
\* client's connection is established only after connect() succeeded.
THEOREM FollowsLifeAlways == Spec /\ []NoWrap => FollowsLife
<1>1. Init => Life!Init
  BY DEF Init, Life!Init
<1>2. ASSUME IInv, NoWrap, NoWrap', [Next]_vars PROVE [Life!Next]_(Life!vars)
  <2>1. LifeStep(w0, w0')
    BY <1>2, NextStep
  <2>2. w0.tcb = tcb /\ w0.map = map /\ w0'.tcb = tcb' /\ w0'.map = map'
    BY DEF w0
  <2> QED BY <2>1, <2>2 DEF LifeStep, St, Sock, Life!Next, Life!vars, Life!Open, Life!Connected,
             Life!Establish, Life!Close, Life!Finish, Life!Gone
<1>3. IInv /\ NoWrap /\ NoWrap' /\ [Next]_vars => [Life!Next]_(Life!vars)
  BY <1>2
<1> QED BY InvAlways, <1>1, <1>3, PTL DEF Spec, FollowsLife, Life!Spec

\* While a session is established the socket is watched for input exactly when
\* outbuf has room and for output exactly when inbuf holds something: no wakeup
\* between the two sides is lost.
THEOREM SocketWatchedAlways == Spec /\ []NoWrap => []SocketWatched
<1>1. IInv => SocketWatched
  BY DEF IInv, DaemonOK, Watched, SocketWatched, w0
<1> QED BY InvAlways, <1>1, PTL

\* Data in flight is covered by the retransmission timer, although set_timeout,
\* tcp_timeout and the acknowledgements handle the one event independently.
THEOREM UnackedIsTimedAlways == Spec /\ []NoWrap => []UnackedIsTimed
<1>1. IInv => UnackedIsTimed
  BY DEF IInv, DaemonOK, SessionOK, TimerOf, UnackedIsTimed, w0
<1> QED BY InvAlways, <1>1, PTL

\* Every byte read from the IPv4 socket that the client has not acknowledged is in
\* outbuf, at the place from which tcp_send_and_ack takes it again.
THEOREM UnackedIsKeptAlways == Spec /\ []NoWrap => []UnackedIsKept
<1>1. ASSUME IInv, tcb # NULL, tcb.state \in {"ESTABLISHED"} \cup Sending
      PROVE  LET n == IntDiff(tcb.outbuf.w_seq, tcb.snd_una)
             IN  /\ n <= rb_used(tcb.outbuf)
                 /\ Peek(tcb.outbuf, tcb.snd_una, n) = [i \in 1..n |-> s_sent - n + i]
  <2> DEFINE q == tcb.outbuf
             una == tcb.snd_una
             n == IntDiff(q.w_seq, una)
             used == rb_used(q)
             m == IF n \in 1..used THEN MinInt(n, n) ELSE 0
  <2>1. tcb \in Tcb /\ SessionOK(tcb, Iss, s_sent) /\ s_sent \in Nat
    BY <1>1 DEF IInv, ProgramTypeOK, DaemonOK, w0
  <2>2. q.w_seq \in uint /\ una \in uint /\ used \in Nat /\ tcb.snd_nxt \in uint
    BY <2>1, TcbTypes
  <2>3. q.w_seq \in Int /\ una \in Int /\ tcb.snd_nxt \in Int
    BY <2>2, UintIsInt
  <2>4. /\ una <= tcb.snd_nxt /\ tcb.snd_nxt <= q.w_seq + 1
        /\ q.w_seq - una <= used /\ used <= BufSize
    BY <1>1, <2>1, <2>3 DEF SessionOK, SendNumbers, SendLimit, Sending
  <2>5. n = q.w_seq - una
    <3>1. 2 * (q.w_seq - una) < SeqMod /\ 2 * (una - q.w_seq) < SeqMod
      BY <2>2, <2>3, <2>4, SizeTypes
    <3> HIDE DEF q, una
    <3> QED BY <2>2, <3>1, IntDiffFacts
  <2>6. \A i \in 1..used : q.kept[i] = s_sent - used + i
    BY <2>1 DEF SessionOK, Holds
  <2>7. Peek(q, una, n) = [i \in 1..m |-> q.kept[used - n + i]]
    BY DEF Peek
  <2> HIDE DEF n, used, q, una
  <2>8. n \in Int /\ n <= used
    BY <2>3, <2>4, <2>5
  <2>9. 1..m = 1..n
    BY <2>2, <2>8 DEF MinInt
  <2>10. ASSUME NEW i \in 1..n PROVE q.kept[used - n + i] = s_sent - n + i
    <3>1. used - n + i \in 1..used
      BY <2>2, <2>8
    <3>2. q.kept[used - n + i] = s_sent - used + (used - n + i)
      BY <2>6, <3>1
    <3> QED BY <2>1, <2>2, <2>8, <3>2
  <2>11. [i \in 1..m |-> q.kept[used - n + i]] = [i \in 1..n |-> s_sent - n + i]
    BY <2>9, <2>10
  <2>12. Peek(q, una, n) = [i \in 1..n |-> s_sent - n + i]
    BY <2>7, <2>11
  <2> QED BY <2>8, <2>12 DEF n, used, q, una
<1>2. IInv => UnackedIsKept
  BY <1>1 DEF UnackedIsKept
<1> QED BY InvAlways, <1>2, PTL
=============================================================================
