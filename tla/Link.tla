-------------------------------- MODULE Link --------------------------------
(***************************************************************************)
(* pbuf.c, ether.c and the drivers of if_tuntap.c, if_uml_sw.c and         *)
(* if_802ip.c: how a packet gets from the device into a buffer and from a  *)
(* buffer to the device, as arithmetic on lengths.  A pbuf is              *)
(*    size    bytes allocated                                              *)
(*    offset  where the packet begins, the room for headers before it      *)
(*    max     bytes from there to the end                                  *)
(*    dlen    length of the packet                                         *)
(***************************************************************************)
EXTENDS Integers

\* The registered drivers.  "tap_bsd" is tap in a build without
\* HAVE_LINUX_IF_TUN_H; tun refuses to start there.
Driver == {"tun", "tap", "tap_bsd", "802ip", "uml_sw"}
Ether == Driver \ {"tun"}

hwaddr_len(drv) == IF drv \in Ether THEN 6 ELSE 0
mtu == 1280

\* The 4 bytes struct tun_pi puts before a packet.
Pi(drv) == IF drv \in {"tun", "tap"} THEN 4 ELSE 0
Frame(drv) == IF drv \in Ether THEN 14 ELSE 0

\* Mutant: tap leaves no room for struct tun_pi.
head_size_ether(drv) == Frame(drv) + (IF drv = "tun" THEN 4 ELSE 0)

\* ether_setup, and tap_new_if, which adds 4 in every build; tun_get_buf's 4.
head_size(drv) == Frame(drv) + (IF drv \in {"tun", "tap", "tap_bsd"} THEN 4 ELSE 0)

pbuf_new(n) == [size |-> n, offset |-> 0, max |-> n, dlen |-> 0]

pbuf_drop(p, n) ==
    IF p.max < n THEN p
    ELSE [p EXCEPT !.max = @ - n, !.offset = @ + n, !.dlen = @ - n]

pbuf_raise(p, n) ==
    IF p.offset < n THEN p
    ELSE [p EXCEPT !.max = @ + n, !.offset = @ - n, !.dlen = @ + n]

\* iface->get_buffer, filled with a packet of len bytes.
Built(drv, n, len) ==
    [pbuf_drop(pbuf_new(n + head_size(drv)), head_size(drv)) EXCEPT !.dlen = len]

\* ether_send_unicast and ether_send_multicast put the frame's header before
\* the packet, tuntap_do_send struct tun_pi before that; both ignore the result
\* of pbuf_raise.
Sent(drv, p) ==
    LET f == IF drv \in Ether THEN pbuf_raise(p, 14) ELSE p
    IN  IF Pi(drv) > 0 THEN pbuf_raise(f, 4) ELSE f

\* Mutant: all of the room for headers is left out, the frame's header too.
ReadBuffer_packet(drv) ==
    IF drv = "tun" THEN pbuf_new(mtu + 4)
    ELSE pbuf_drop(pbuf_new(mtu + head_size(drv)), head_size(drv))

\* The buffer a read callback reads into.
ReadBuffer(drv) ==
    IF drv = "tun" THEN pbuf_new(mtu + 4)
    ELSE pbuf_drop(pbuf_new(mtu + head_size(drv)), head_size(drv) - 14)

\* The rest of a frame that is longer than the buffer is lost.
Filled(p, n) == [p EXCEPT !.dlen = IF n > p.max THEN p.max ELSE n]

\* A packet of n bytes as pkt_handler gets it: tuntap_do_read drops struct tun_pi
\* and ether_pkt_in the frame's header.
Received(drv, n) ==
    LET f == Filled(ReadBuffer(drv), Pi(drv) + Frame(drv) + n)
        p == IF Pi(drv) > 0 THEN pbuf_drop(f, 4) ELSE f
    IN  IF drv \in Ether THEN pbuf_drop(p, 14) ELSE p
=============================================================================
