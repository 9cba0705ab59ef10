------------------------------ MODULE Neighbor ------------------------------
(***************************************************************************)
(* icmp.c: the neighbors on the link and how send_pkt gets a packet to the *)
(* next hop.  The operators take the link side k of the daemon and return  *)
(* it as the function of that name leaves it:                              *)
(*    drv         the driver of the interface, see Link                    *)
(*    nlist       the known neighbors by address (an address is added only *)
(*                when find_neighbor fails, so the list's order is moot)   *)
(*    frames      unicast packets the last step wrote to the device, and   *)
(*                to which hardware address                                *)
(*    asked       addresses a neighbor solicitation was sent for           *)
(*    handed      for each next hop, how many unicast packets send_pkt was *)
(*                called with (history)                                    *)
(*    written     and how many of them the steps before the last wrote     *)
(*                (history)                                                *)
(* A packet is its destination, its number among those for its next hop,   *)
(* and its pbuf.                                                           *)
(***************************************************************************)
EXTENDS Link, Sequences

CONSTANTS
    otherlladdr,  \* fe80::1, the host's end of the link
    LinkLocal,    \* addresses in fe80::/16
    Global,       \* addresses that are reached through otherlladdr
    Mac,          \* hardware addresses
    NULL

ASSUME NeighborAssumption ==
    /\ otherlladdr \in LinkLocal
    /\ LinkLocal \cap Global = {}
    /\ NULL \notin Mac \cup LinkLocal \cup Global

Addr == LinkLocal \cup Global
Pbuf == [size : Nat, offset : Nat, max : Nat, dlen : Nat]
Packet == [dst : Addr, id : Nat, pb : Pbuf]

\* A linkaddr of NULL is memory that was never written.
Neighbors == [state : {"INCOMPLETE", "REACHABLE"},
              linkaddr : Mac \cup {NULL}, queue : Seq(Packet)]

\* Mutant: every address is taken for a neighbor on the link.
NextHop_on_link(dst) == dst

NextHop(dst) == IF dst \in LinkLocal THEN dst ELSE otherlladdr

find_neighbor(k, a) == a \in DOMAIN k.nlist

With(nlist, a, n) == [b \in DOMAIN nlist \cup {a} |-> IF b = a THEN n ELSE nlist[b]]

add_neighbor(k, a, lladdr) ==
    [k EXCEPT !.nlist = With(@, a,
        [state    |-> IF hwaddr_len(k.drv) = 0 \/ lladdr # NULL THEN "REACHABLE" ELSE "INCOMPLETE",
         linkaddr |-> lladdr,
         queue    |-> <<>>])]

\* Mutant: a packet replaces the one that waits.
queue_packet_one(k, a, p) == [k EXCEPT !.nlist[a].queue = <<p>>]

queue_packet(k, a, p) == [k EXCEPT !.nlist[a].queue = Append(@, p)]

send_unicast(k, p, mac) ==
    [k EXCEPT !.frames = Append(@, [to |-> mac, pkt |-> [p EXCEPT !.pb = Sent(k.drv, @)]])]

\* The solicitation goes to a multicast address, which send_pkt writes at once.
icmp_send_ns(k, a) == [k EXCEPT !.asked = @ \cup {a}]

\* The part of send_pkt behind the test for a multicast destination.
Route(k, p) ==
    LET hop == NextHop(p.dst)
    IN  IF hwaddr_len(k.drv) = 0 THEN send_unicast(k, p, NULL)
        ELSE IF ~find_neighbor(k, hop)
          THEN queue_packet(add_neighbor(icmp_send_ns(k, hop), hop, NULL), hop, p)
        ELSE IF k.nlist[hop].state = "REACHABLE"
          THEN send_unicast(k, p, k.nlist[hop].linkaddr)
        ELSE queue_packet(k, hop, p)

send_pkt(k, dst, pb) ==
    LET hop == NextHop(dst)
    IN  Route([k EXCEPT !.handed[hop] = @ + 1],
              [dst |-> dst, id |-> k.handed[hop] + 1, pb |-> pb])

\* The queue goes out through send_pkt, which finds the neighbor reachable.
Flushed(k, a) ==
    LET n == k.nlist[a]
        out[i \in 0..Len(n.queue)] == IF i = 0 THEN k ELSE Route(out[i - 1], n.queue[i])
    IN  [out[Len(n.queue)] EXCEPT !.nlist[a].queue = <<>>]

\* Mutant: the queue of a neighbor that answers is left alone.
got_neighbor_keeps_queue(k, a, lladdr) ==
    IF find_neighbor(k, a)
      THEN [k EXCEPT !.nlist[a].state = "REACHABLE",
                     !.nlist[a].linkaddr = IF lladdr # NULL THEN lladdr ELSE @]
      ELSE add_neighbor(k, a, lladdr)

\* Mutant: the hardware address of a neighbor that was waited for is not kept.
got_neighbor_no_copy(k, a, lladdr) ==
    IF find_neighbor(k, a)
      THEN Flushed([k EXCEPT !.nlist[a].state = "REACHABLE"], a)
      ELSE add_neighbor(k, a, lladdr)

got_neighbor(k, a, lladdr) ==
    IF find_neighbor(k, a)
      THEN Flushed([k EXCEPT !.nlist[a].state = "REACHABLE",
                             !.nlist[a].linkaddr = IF lladdr # NULL THEN lladdr ELSE @], a)
      ELSE add_neighbor(k, a, lladdr)
=============================================================================
