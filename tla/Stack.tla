------------------------------- MODULE Stack --------------------------------
(***************************************************************************)
(* The daemon below the sessions: a driver reads a packet, handle_packet   *)
(* gives it to ICMP, TCP or UDP, and every answer leaves through send_pkt, *)
(* the neighbor list and the driver.  What a TCP session does with a       *)
(* segment is in TcpRelay, how it is found in TcbTable and what happens to *)
(* datagrams in UdpRelay; here TCP and UDP may send at any time.           *)
(***************************************************************************)
EXTENDS Neighbor, FiniteSetsExt

CONSTANTS
    Drivers,        \* the drivers the daemon may run with
    PacketLen,      \* lengths of the packets that come
    MaxHanded       \* bound: unicast packets handed to send_pkt

ASSUME StackAssumption ==
    /\ Drivers \subseteq Driver
    /\ PacketLen \subseteq 60..mtu
    /\ MaxHanded \in Nat

VARIABLES
    link,           \* see Neighbor
    heard           \* history: what neighbors on an Ethernet said of themselves:
                    \*    told   the last hardware address each announced, or NULL
                    \*    bare   those that sent an advertisement without one

vars == <<link, heard>>

TypeOK ==
    /\ DOMAIN link = {"drv", "nlist", "frames", "asked", "handed", "written"}
    /\ link.drv \in Drivers
    /\ DOMAIN link.nlist \subseteq Addr
    /\ \A a \in DOMAIN link.nlist : link.nlist[a] \in Neighbors
    /\ link.frames \in Seq([to : Mac \cup {NULL}, pkt : Packet])
    /\ link.asked \subseteq LinkLocal
    /\ link.handed \in [Addr -> Nat] /\ link.written \in [Addr -> Nat]
    /\ heard \in [told : [LinkLocal -> Mac \cup {NULL}], bare : SUBSET LinkLocal]

\* init_iface; icmp_init_iface advertises mylladdr to all hosts, which is
\* multicast and needs no neighbor.
Init ==
    /\ \E drv \in Drivers :
         link = [drv |-> drv, nlist |-> << >>, frames |-> <<>>, asked |-> {},
                 handed |-> [a \in Addr |-> 0], written |-> [a \in Addr |-> 0]]
    /\ heard = [told |-> [a \in LinkLocal |-> NULL], bare |-> {}]

\* How many of the first n frames of link are for next hop a.
FramesTo(a, n) == Cardinality({i \in 1..n : NextHop(link.frames[i].pkt.dst) = a})

\* The link side when a step begins.
now == [link EXCEPT !.frames = <<>>,
                    !.written = [a \in Addr |-> @[a] + FramesTo(a, Len(link.frames))]]

MaySend == FoldFunction(LAMBDA n, sum : n + sum, 0, link.handed) < MaxHanded

\* send_pkt for a packet of len bytes in a buffer that get_buffer made for n.
Sends(k, a, n, len) == MaySend /\ link' = send_pkt(k, a, Built(k.drv, n, len))

Smaller(m, n) == IF m < n THEN m ELSE n

\* What is known of the neighbors after src has shown lladdr, or none.
Heard(was, src, lladdr) ==
    [told |-> IF lladdr = NULL THEN was.told ELSE [was.told EXCEPT ![src] = lladdr],
     bare |-> IF lladdr = NULL THEN was.bare \cup {src} ELSE was.bare]
-----------------------------------------------------------------------------
(* handle_icmp *)

icmp_send_ping_reply(src, len) == Sends(now, src, len, len)

\* To one neighbor; the option is there when hwaddr_len is not 0.
icmp_send_na(k, dest) ==
    Sends(k, dest, 128, IF hwaddr_len(k.drv) > 0 THEN 72 ELSE 64)

\* A solicitation: its sender's hardware address if it has the option, and an
\* advertisement back if it asks for mylladdr.  tun has no hardware addresses.
handle_icmp_ns(src, lladdr, mine) ==
    LET shown == hwaddr_len(link.drv) > 0 /\ lladdr # NULL
        k     == IF shown THEN got_neighbor(now, src, lladdr) ELSE now
    IN  /\ IF mine THEN icmp_send_na(k, src) ELSE link' = k
        /\ heard' = IF shown THEN Heard(heard, src, lladdr) ELSE heard

\* An advertisement may lack the option too: then got_neighbor takes the sender
\* for reachable without a hardware address.
handle_icmp_na(src, lladdr) ==
    LET ll == IF hwaddr_len(link.drv) > 0 THEN lladdr ELSE NULL
    IN  link' = got_neighbor(now, src, ll) /\ heard' = Heard(heard, src, ll)

handle_icmp(len) ==
    \/ \E src \in Addr : icmp_send_ping_reply(src, len) /\ UNCHANGED heard
    \/ \E src \in LinkLocal, mac \in Mac \cup {NULL}, mine \in BOOLEAN :
         handle_icmp_ns(src, mac, mine)
    \/ \E src \in LinkLocal, mac \in Mac \cup {NULL} : handle_icmp_na(src, mac)

\* A protocol the daemon does not know.  The buffer is as long as the packet that
\* is quoted, without room for the 48 bytes of headers before it.
icmp_send_error(src, len) ==
    LET nlen == Smaller(len, 1232) IN Sends(now, src, nlen, nlen + 48)
-----------------------------------------------------------------------------
(* TCP and UDP *)

\* A segment of no session is answered at once.
tcp_fabricate_rst(src) == Sends(now, src, 60, 60)

tcp_send_syn(dst) == Sends(now, dst, 68, 64)
tcp_send_rst(dst) == Sends(now, dst, 60, 60)

\* mss is 1220.
tcp_send_and_ack(dst, data) == data \in 0..1220 /\ Sends(now, dst, 1500, 60 + data)

\* The rest of a longer datagram is cut off.
udp_send(dst, len) == Sends(now, dst, 1280, Smaller(len, 1232) + 48)
-----------------------------------------------------------------------------
\* A segment of a session, a datagram and hop-by-hop options lead to nothing here.
handle_packet(len) ==
    \/ handle_icmp(len)
    \/ \E src \in Global : tcp_fabricate_rst(src) /\ UNCHANGED heard
    \/ link' = now /\ UNCHANGED heard
    \/ \E src \in Addr : icmp_send_error(src, len) /\ UNCHANGED heard

\* The read callback of the driver.  Frames of other protocols are dropped.
ReadPacket == \E n \in PacketLen : handle_packet(Received(link.drv, n).dlen)

\* The sessions and the maps, with the longest segment and datagram.
SessionSends ==
    /\ \E dst \in Global :
         \/ tcp_send_syn(dst) \/ tcp_send_rst(dst) \/ tcp_send_and_ack(dst, 1220)
         \/ udp_send(dst, 65536)
    /\ UNCHANGED heard

Next == ReadPacket \/ SessionSends

Spec == Init /\ [][Next]_vars
-----------------------------------------------------------------------------
(* Properties *)

Waiting(a) == IF a \in DOMAIN link.nlist THEN link.nlist[a].queue ELSE <<>>

\* However packets, solicitations and advertisements are interleaved, each next
\* hop gets every packet once and in the order send_pkt was called: after what
\* was written before come the frames of the last step, then the queue, and
\* these are all.
InOrder ==
    \A a \in Addr :
      LET out == link.written[a] + FramesTo(a, Len(link.frames))
      IN  /\ \A i \in 1..Len(link.frames) :
               NextHop(link.frames[i].pkt.dst) = a =>
                 link.frames[i].pkt.id = link.written[a] + FramesTo(a, i)
          /\ \A i \in 1..Len(Waiting(a)) : Waiting(a)[i].id = out + i
          /\ link.handed[a] = out + Len(Waiting(a))

\* No packet waits behind an answer that has come, or for an answer that nobody
\* was asked for: a neighbor with a queue is incomplete and was solicited.  The
\* exception is a neighbor that came into the list by an advertisement without
\* the option: add_neighbor leaves it incomplete and send_pkt asks only for those
\* that are not in the list.
WaitsForAnswer ==
    \A a \in DOMAIN link.nlist :
      link.nlist[a].queue # <<>> =>
        link.nlist[a].state = "INCOMPLETE" /\ a \in link.asked \cup heard.bare

\* A frame on an Ethernet goes to the hardware address that its next hop announced
\* last, before or while the packet waited.  It goes to an uninitialised one only
\* when the next hop announced none but sent an advertisement without the option.
FramesAddressed ==
    hwaddr_len(link.drv) > 0 =>
      \A i \in 1..Len(link.frames) :
        LET hop == NextHop(link.frames[i].pkt.dst)
        IN  /\ link.frames[i].to = heard.told[hop]
            /\ heard.told[hop] = NULL => hop \in heard.bare

\* Whichever handler built a packet and however long it waited, the room that
\* get_buffer left is what the driver's headers take, with or without struct
\* tun_pi: no header is left out or written over the packet.  The packet itself
\* is within the buffer, but that of icmp_send_error, which is written 48 bytes
\* beyond its end.
HeadersFit ==
    \A i \in 1..Len(link.frames) :
      LET pb   == link.frames[i].pkt.pb
          head == Frame(link.drv) + Pi(link.drv)
      IN  /\ pb.offset + pb.max = pb.size
          /\ pb.offset + head = head_size(link.drv)
          /\ pb.dlen - head \in 60..mtu
          /\ pb.dlen <= pb.max \/ pb.dlen = pb.max + 48

\* A segment as long as the MSS that tcp_send_syn announces (1216 bytes, after 60
\* bytes of headers) comes whole through every driver's read buffer.
SegmentsWhole == \A n \in {60, 60 + 1216} : Received(link.drv, n).dlen = n
=============================================================================
