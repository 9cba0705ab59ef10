------------------------------ MODULE TcpRelay ------------------------------
(***************************************************************************)
(* One TCP session through the daemon: an IPv6 client, the network between *)
(* it and the tun device, handle_tcp and the other callbacks of tcp.c, the *)
(* tcp_map of ptrtd-tcp.c, the IPv4 socket, and the passes of event_loop   *)
(* that run the callbacks.                                                 *)
(*                                                                         *)
(* Streams: the client sends the bytes 1..ClientLen and the IPv4 peer the  *)
(* bytes 1..ServerLen, so a byte's value is its place in its stream.       *)
(***************************************************************************)
EXTENDS Tcp, FiniteSets

CONSTANTS
    Irs,          \* the client's initial sequence number
    IssStep,      \* distance of the daemon's initial sequence numbers, 2^16
    ClientLen, ServerLen,
    ClientWnd,    \* size of the client's receive buffer
    NetCap,       \* bound: the daemon starts no pass with more packets in flight
    MaxSyn,       \* bound: sessions the client's SYNs may start (one more if it repeats one)
    MaxFaults,    \* bound: losses, duplications and resets by the client
    Faults,       \* which of the faults below the network and client commit
    Outcomes      \* which of the unusual results below system calls may have

AllFaults == {"lose_out", "lose_data", "lose_ack", "lose_in", "dup_in", "rexmit", "abort"}
AllOutcomes == {"refused", "in_progress", "eof", "client_fin", "short_write", "write_again",
                "read_again", "error"}

ASSUME RelayAssumption ==
    /\ Irs \in uint /\ IssStep \in uint
    /\ ClientLen \in Nat /\ ServerLen \in Nat /\ ClientWnd \in uint
    /\ NetCap \in Nat \ {0} /\ MaxSyn \in Nat \ {0} /\ MaxFaults \in Nat
    /\ Faults \subseteq AllFaults
    /\ Outcomes \subseteq AllOutcomes
    /\ 1..ClientLen \subseteq Byte /\ 1..ServerLen \subseteq Byte

VARIABLES
    tcb, map, listed,     \* the daemon's session, see Tcp
    isn,                  \* the static counter of next_isn
    run,                  \* callbacks still to be run in this pass of event_loop
    to_relay, to_client,  \* packets on their way
    client,               \* the client's end of the session
    s_sent,               \* bytes of the IPv4 peer that the daemon has read
    s_got,                \* bytes the daemon has written to the IPv4 socket
    spoilt,               \* history: bytes of the client's stream were thrown away
    faults                \* faults so far

relay == <<tcb, map, listed, isn>>
server == <<s_sent, s_got>>
vars == <<relay, run, to_relay, to_client, client, server, spoilt, faults>>

\* The client: una, nxt and edge are its send variables, rcv the next number it
\* expects, got what it received, read how much of that its user has taken.
ClientState == [st : {"closed", "syn_sent", "open", "reset"},
                una : uint, nxt : uint, edge : uint, rcv : uint,
                got : Seq(Byte), read : Nat, fin : BOOLEAN]

Init ==
    /\ tcb = NULL /\ map = NULL /\ listed = [e \in Event |-> 0] /\ isn = 0
    /\ run = {}
    /\ to_relay = <<>> /\ to_client = <<>>
    /\ client = [st |-> "closed", una |-> Irs, nxt |-> Irs, edge |-> Irs, rcv |-> 0,
                 got |-> <<>>, read |-> 0, fin |-> FALSE]
    /\ s_sent = 0 /\ s_got = <<>> /\ spoilt = FALSE
    /\ faults = 0
-----------------------------------------------------------------------------
(* The passes of event_loop. *)

\* select: no callback is running.
Idle == run = {}

\* A pass begins; NetCap bounds the packets the client has not received yet.
Begins == Idle /\ Len(to_client) < NetCap

w0 == [tcb |-> tcb, map |-> map, listed |-> listed, out |-> <<>>]

\* What is left of a pass once callback e has led to w: the fd events that are
\* still listed, then handle_tcp (the tun device's event is the last of its
\* list), then the always events.
Rest(e, w) ==
    LET fds == {f \in run \ {e} : f = "handle_tcp" \/ w.listed[f] > 0}
    IN  IF fds # {} \/ e = "do_tcb_write" THEN fds
        ELSE {f \in {"do_tcb_write"} : w.listed[f] > 0}

\* Callback e ends with the daemon in w.
Ends(e, w) ==
    /\ tcb' = w.tcb /\ map' = w.map /\ listed' = w.listed
    /\ to_client' = to_client \o w.out
    /\ run' = Rest(e, w)
    /\ UNCHANGED <<client, faults>>

\* Fd callback e ends with a result of 0 and the loop removes its event.
EndsRemoved(e, w) == Ends(e, RemoveEvent(w, e))

\* A closed descriptor among the events makes every select fail with EBADF.
StaleFd == map = NULL /\ \E e \in FdEvent : listed[e] > 0

\* Callbacks whose descriptor can be ready now.
CanBeReady ==
    {e \in FdWrite : listed[e] > 0}
    \cup {e \in {"handle_fd_can_read"} :
            /\ listed[e] > 0
            /\ s_sent < ServerLen \/ Outcomes \cap {"eof", "error", "read_again"} # {}}
    \cup {e \in {"handle_tcp"} : to_relay # <<>>}

\* select returns with the descriptors of ready; when it fails only the always
\* events run.
SelectFds(ready) ==
    /\ Begins
    /\ \/ /\ ~StaleFd
          /\ ready # {} /\ ready \subseteq CanBeReady
          /\ to_relay # <<>> => "handle_tcp" \in ready
          /\ run' = ready
       \/ /\ StaleFd /\ ready = {}
          /\ run' = {e \in {"do_tcb_write"} : listed[e] > 0}
    /\ UNCHANGED <<relay, to_relay, to_client, client, server, spoilt, faults>>

\* The first time event runs: it is due, or select found nothing ready while an
\* always event is listed (event_loop then waits for no time at all).
SelectTimer(e) ==
    /\ Begins /\ Len(to_relay) < NetCap
    /\ listed[e] > 0
    /\ run' = {e}
    /\ UNCHANGED <<relay, to_relay, to_client, client, server, spoilt, faults>>

\* The callback of a map's event runs before that of the tun device.
Turn(e) == e \in run /\ (e = "handle_tcp" => run = {e})
-----------------------------------------------------------------------------
(* The callbacks of the IPv4 socket. *)

\* A callback of an event that outlived its map reads freed memory.
Undefined == run = {"undefined"}

dangling_callback(e) ==
    /\ Turn(e) /\ map = NULL
    /\ run' = {"undefined"}
    /\ UNCHANGED <<relay, to_relay, to_client, client, server, spoilt, faults>>

\* The callback of event e, whose map exists, is next.
OfMap(e) == Turn(e) /\ map # NULL

\* read returns k bytes; without room in outbuf nothing is read and the event
\* is removed, but not the pointer to it.
handle_fd_can_read(k) ==
    LET space == rb_left(tcb.outbuf)
        w     == tcp_send(w0, [i \in 1..k |-> s_sent + i])
    IN  /\ OfMap("handle_fd_can_read")
        /\ k \in IF space = 0 THEN {0} ELSE 1..MinInt(space, ServerLen - s_sent)
        /\ IF k = 0 THEN EndsRemoved("handle_fd_can_read", w0)
           ELSE IF rb_left(w.tcb.outbuf) = 0
             THEN EndsRemoved("handle_fd_can_read", [w EXCEPT !.map.e_fd_read = NULL])
             ELSE Ends("handle_fd_can_read", w)
        /\ s_sent' = s_sent + k
        /\ UNCHANGED <<isn, to_relay, s_got, spoilt>>

\* tcp_close and kill_map, as the callbacks of the socket end a session.
GiveUp(w) == kill_map(tcp_close(w))

\* read returns 0 at the end of the stream, or fails.
handle_fd_can_read_end ==
    /\ OfMap("handle_fd_can_read")
    /\ rb_left(tcb.outbuf) > 0
    /\ \/ "eof" \in Outcomes /\ s_sent = ServerLen
       \/ "error" \in Outcomes
    /\ EndsRemoved("handle_fd_can_read", GiveUp([w0 EXCEPT !.map.e_fd_read = NULL]))
    /\ UNCHANGED <<isn, to_relay, server, spoilt>>

\* read fails with EAGAIN.
handle_fd_can_read_again ==
    /\ OfMap("handle_fd_can_read")
    /\ rb_left(tcb.outbuf) > 0
    /\ "read_again" \in Outcomes
    /\ Ends("handle_fd_can_read", w0)
    /\ UNCHANGED <<isn, to_relay, server, spoilt>>

\* write takes the first k of the bytes tcp_read returned; its result is not
\* compared with their number, and the others are gone.
handle_fd_can_write(k) ==
    LET data == Readable(tcb)
    IN  /\ OfMap("handle_fd_can_write")
        /\ k \in 1..Len(data) /\ (k = Len(data) \/ "short_write" \in Outcomes)
        /\ EndsRemoved("handle_fd_can_write", [tcp_read(w0) EXCEPT !.map.e_fd_write = NULL])
        /\ s_got' = s_got \o SubSeq(data, 1, k)
        /\ spoilt' = (spoilt \/ k < Len(data))
        /\ UNCHANGED <<isn, to_relay, s_sent>>

\* write fails, or was given nothing to write.
handle_fd_can_write_end ==
    /\ OfMap("handle_fd_can_write")
    /\ Readable(tcb) = <<>> \/ "error" \in Outcomes
    /\ EndsRemoved("handle_fd_can_write",
                   GiveUp([tcp_read(w0) EXCEPT !.map.e_fd_write = NULL]))
    /\ UNCHANGED <<isn, to_relay, server, spoilt>>

\* write fails with EAGAIN: the event stays listed, the map forgets it, and the
\* bytes tcp_read returned are gone.
handle_fd_can_write_again ==
    /\ OfMap("handle_fd_can_write")
    /\ Readable(tcb) # <<>> /\ "write_again" \in Outcomes
    /\ Ends("handle_fd_can_write", [tcp_read(w0) EXCEPT !.map.e_fd_write = NULL])
    /\ spoilt' = TRUE
    /\ UNCHANGED <<isn, to_relay, server>>

\* The connect that was in progress has failed or succeeded.
handle_fd_did_connect(ok) ==
    LET w == [w0 EXCEPT !.map.e_fd_write = NULL]
    IN  /\ OfMap("handle_fd_did_connect")
        /\ ok \/ "refused" \in Outcomes
        /\ EndsRemoved("handle_fd_did_connect",
                       IF ok THEN mark_for_if_write(w) ELSE GiveUp(w))
        /\ UNCHANGED <<isn, to_relay, server, spoilt>>
-----------------------------------------------------------------------------
(* handle_tcp, called with the packet read from the tun device. *)

pkt == Head(to_relay)

\* handle_tcp takes the packet and leaves the daemon in w.
Handled(w) ==
    /\ Ends("handle_tcp", w)
    /\ to_relay' = Tail(to_relay)

\* Mutant: the client is answered before the connection to the IPv4 host stands.
Accepting_early(connect) ==
    LET w == [w0 EXCEPT !.tcb = NewTcb(pkt.seq, pkt.wnd, ((isn + 1) * IssStep) % SeqMod),
                        !.map = [e_fd_read |-> NULL, e_fd_write |-> NULL]]
    IN  CASE connect = "refused" -> GiveUp(w)
          [] connect = "in_progress" ->
               mark_for_if_write(
                 AddEvent([w EXCEPT !.map.e_fd_write = "handle_fd_did_connect"],
                          "handle_fd_did_connect"))
          [] connect = "ok" -> mark_for_if_write(w)

\* tcb_find returned the listening tcb, and incoming() starts to connect.
\* socket and connect fail, succeed or are in progress.
Accepting(connect) ==
    LET w == [w0 EXCEPT !.tcb = NewTcb(pkt.seq, pkt.wnd, ((isn + 1) * IssStep) % SeqMod),
                        !.map = [e_fd_read |-> NULL, e_fd_write |-> NULL]]
    IN  CASE connect = "refused" -> GiveUp(w)
          [] connect = "in_progress" ->
               AddEvent([w EXCEPT !.map.e_fd_write = "handle_fd_did_connect"],
                        "handle_fd_did_connect")
          [] connect = "ok" -> mark_for_if_write(w)

handle_tcp_syn(connect) ==
    /\ tcb = NULL /\ pkt.flags = {"SYN"}
    /\ isn' = isn + 1
    /\ s_sent' = 0 /\ s_got' = <<>>
    /\ Handled(Accepting(connect))
    /\ UNCHANGED spoilt

\* tcp_fabricate_rst answers a packet of no session.
handle_tcp_stray ==
    /\ tcb = NULL /\ pkt.flags # {"SYN"}
    /\ Handled([w0 EXCEPT !.out = <<[flags |-> {"RST", "ACK"}, seq |-> pkt.ack,
                                     ack |-> SeqAdd(pkt.seq, 1), wnd |-> 0, data |-> <<>>]>>])
    /\ UNCHANGED <<isn, server, spoilt>>

handle_tcp_rst ==
    /\ tcb # NULL /\ "RST" \in pkt.flags
    /\ Handled(Discard(IF tcb.cb THEN kill_map(w0) ELSE w0))
    /\ UNCHANGED <<isn, server, spoilt>>

\* A packet of the session that does not reset it, its acknowledgement done.
wa == Acked(w0, pkt)
OfSession == tcb # NULL /\ "RST" \notin pkt.flags

\* In LAST_ACK and CLOSING handle_tcp returns once everything is acknowledged.
Returns == AllAcked(wa.tcb, pkt) /\ wa.tcb.state \in {"LAST_ACK", "CLOSING"}

\* Mutant: the last acknowledgement does not delete the tcb.
handle_tcp_last_ack_stays ==
    /\ OfSession /\ Returns /\ wa.tcb.state = "LAST_ACK"
    /\ Handled(wa)
    /\ UNCHANGED <<isn, server, spoilt>>

handle_tcp_last_ack ==
    /\ OfSession /\ Returns /\ wa.tcb.state = "LAST_ACK"
    /\ Handled(Discard(wa))
    /\ UNCHANGED <<isn, server, spoilt>>

handle_tcp_closing ==
    /\ OfSession /\ Returns /\ wa.tcb.state = "CLOSING"
    /\ Handled(IF FinAcked(wa.tcb) THEN TimeWait(wa) ELSE wa)
    /\ UNCHANGED <<isn, server, spoilt>>

ws == Settled(wa, pkt)

\* The bytes of pkt are old, but not all of them.
PartlyOld == pkt.data # <<>> /\ pkt.seq + Len(pkt.data) > ws.tcb.rcv_nxt

\* A duplicate or keepalive: acknowledge it again.  Bytes that are new are
\* dropped with the old ones.
handle_tcp_old ==
    /\ OfSession /\ ~Returns /\ pkt.seq < ws.tcb.rcv_nxt
    /\ Handled(IF ws.tcb.state = "SYN_RECVD" THEN ws
               ELSE mark_for_if_write([ws EXCEPT !.tcb.last_acked = SeqAdd(@, -1)]))
    /\ spoilt' = (spoilt \/ PartlyOld)
    /\ UNCHANGED <<isn, server>>

\* Mutant: the test for old segments is missing.
handle_tcp_segment_any ==
    /\ OfSession /\ ~Returns
    /\ Handled(Receive(NewWindow(ws, pkt), pkt))
    /\ UNCHANGED <<isn, server, spoilt>>

handle_tcp_segment ==
    /\ OfSession /\ ~Returns /\ pkt.seq >= ws.tcb.rcv_nxt
    /\ Handled(Receive(NewWindow(ws, pkt), pkt))
    /\ UNCHANGED <<isn, server, spoilt>>
-----------------------------------------------------------------------------
(* Time and always events. *)

tcp_timeout ==
    LET t == window_update([tcb EXCEPT !.e_timeout = NULL, !.snd_nxt = tcb.snd_una,
                                       !.snd_cwnd = 0])
    IN  /\ Turn("tcp_timeout")
        /\ EndsRemoved("tcp_timeout", mark_for_if_write([w0 EXCEPT !.tcb = t]))
        /\ UNCHANGED <<isn, to_relay, server, spoilt>>

tcp_remove ==
    /\ Turn("tcp_remove")
    /\ EndsRemoved("tcp_remove", Discard(w0))
    /\ UNCHANGED <<isn, to_relay, server, spoilt>>

do_tcb_write ==
    LET w    == IF tcb.state = "SYN_RECVD" THEN tcp_send_syn(w0) ELSE tcp_send_and_ack(w0)
        more == tcb.state # "SYN_RECVD" /\ ~NothingToSend(tcb) /\ CanDoAgain(w.tcb)
    IN  /\ Turn("do_tcb_write")
        /\ IF more THEN Ends("do_tcb_write", w)
                   ELSE EndsRemoved("do_tcb_write", [w EXCEPT !.tcb.e_tcb_send = NULL])
        /\ UNCHANGED <<isn, to_relay, server, spoilt>>
-----------------------------------------------------------------------------
(* The client, external: any conforming TCP.  It and the network act while *)
(* the daemon waits in select; the daemon's callbacks read one packet and  *)
(* append to the other queue, so they commute with these steps.            *)

FirstSeq == SeqAdd(Irs, 1)
ClientSent == IntDiff(client.nxt, FirstSeq)            \* bytes of its stream (and FIN) sent
ClientFree(c) == ClientWnd - (Len(c.got) - c.read)     \* room in its receive buffer

ClientPacket(c, flags, seq, data) ==
    [flags |-> flags, seq |-> seq, ack |-> c.rcv, wnd |-> ClientFree(c), data |-> data]

ClientActs(c, sent) ==
    /\ Idle
    /\ client' = c
    /\ to_relay' = to_relay \o sent
    /\ UNCHANGED <<relay, run, server, spoilt>>

ClientSyn ==
    /\ client.st = "closed" \/ (client.st = "syn_sent" /\ "rexmit" \in Faults)
    /\ isn < MaxSyn \/ (isn = MaxSyn /\ tcb # NULL)
    /\ Len(to_relay) < NetCap
    /\ ClientActs([client EXCEPT !.st = "syn_sent", !.nxt = FirstSeq],
                  <<[flags |-> {"SYN"}, seq |-> Irs, ack |-> 0, wnd |-> ClientWnd, data |-> <<>>]>>)
    /\ UNCHANGED <<to_client, faults>>

\* The next n bytes, and the FIN when fin.
ClientSend(n, fin) ==
    LET from == ClientSent
        last == from + n = ClientLen
    IN  /\ client.st = "open" /\ Len(to_relay) < NetCap
        /\ from + n <= ClientLen /\ n <= Mss
        /\ n + (IF fin THEN 1 ELSE 0) <= IntDiff(client.edge, client.nxt)
        /\ n > 0 \/ fin
        /\ fin => last /\ "client_fin" \in Outcomes
        /\ ClientActs([client EXCEPT !.nxt = SeqAdd(@, n + IF fin THEN 1 ELSE 0)],
                      <<ClientPacket(client, IF fin THEN {"ACK", "FIN"} ELSE {"ACK"},
                                     client.nxt, [i \in 1..n |-> from + i])>>)
        /\ UNCHANGED <<to_client, faults>>

\* Its user takes what was received; it advertises the new window.
ClientRead ==
    LET c == [client EXCEPT !.read = Len(client.got)]
    IN  /\ client.st = "open" /\ client.read < Len(client.got) /\ Len(to_relay) < NetCap
        /\ ClientActs(c, <<ClientPacket(c, {"ACK"}, client.nxt, <<>>)>>)
        /\ UNCHANGED <<to_client, faults>>

ClientRexmit ==
    /\ client.st = "open" /\ client.una # client.nxt
    /\ "rexmit" \in Faults
    /\ ClientActs([client EXCEPT !.nxt = client.una], <<>>)
    /\ UNCHANGED <<to_client, faults>>

ClientAbort ==
    /\ client.st = "open" /\ "abort" \in Faults /\ faults < MaxFaults /\ Len(to_relay) < NetCap
    /\ ClientActs([client EXCEPT !.st = "reset"],
                  <<ClientPacket(client, {"RST", "ACK"}, client.nxt, <<>>)>>)
    /\ faults' = faults + 1
    /\ UNCHANGED to_client

\* The bytes of a segment that the client has not received and has room for.
Fresh(p) ==
    LET old == IntDiff(client.rcv, p.seq)
        n   == MinInt(Len(p.data) - old, ClientFree(client))
    IN  IF old < 0 \/ n <= 0 THEN <<>> ELSE SubSeq(p.data, old + 1, old + n)

ClientTakes(p) ==
    LET new == Len(Fresh(p))
        end == SeqAdd(p.seq, Len(p.data))
        fin == "FIN" \in p.flags /\ ~client.fin /\ SeqAdd(client.rcv, new) = end
    IN  [client EXCEPT !.got = @ \o Fresh(p),
                       !.rcv = SeqAdd(@, new + IF fin THEN 1 ELSE 0),
                       !.fin = @ \/ fin,
                       !.una = IF IntDiff(p.ack, @) > 0 THEN p.ack ELSE @,
                       !.nxt = IF IntDiff(p.ack, @) > 0 THEN p.ack ELSE @,
                       !.edge = SeqAdd(p.ack, p.wnd)]

ClientReceive ==
    /\ to_client # <<>> /\ to_client' = Tail(to_client)
    /\ UNCHANGED faults
    /\ LET p     == Head(to_client)
           opened == [client EXCEPT !.st = "open", !.rcv = SeqAdd(p.seq, 1), !.una = p.ack,
                                    !.edge = SeqAdd(p.ack, p.wnd)]
           ack(c) == <<ClientPacket(c, {"ACK"}, c.nxt, <<>>)>>
           taken == ClientTakes(p)
       IN  \/ /\ "RST" \in p.flags
              /\ ClientActs([client EXCEPT !.st = "reset"], <<>>)
           \/ /\ "RST" \notin p.flags /\ client.st = "reset"
              /\ ClientActs(client, <<ClientPacket(client, {"RST"}, p.ack, <<>>)>>)
           \/ /\ p.flags = {"SYN", "ACK"} /\ client.st = "syn_sent"
              /\ ClientActs(opened, ack(opened))
           \/ /\ p.flags \cap {"SYN", "RST"} = {} /\ client.st = "open"
              /\ ClientActs(taken, IF p.data # <<>> \/ "FIN" \in p.flags THEN ack(taken) ELSE <<>>)
-----------------------------------------------------------------------------
(* The network, external. *)

LoseToClient ==
    /\ Idle /\ to_client # <<>> /\ faults < MaxFaults
    /\ \/ "lose_out" \in Faults
       \/ "lose_data" \in Faults /\ Head(to_client).data # <<>>
    /\ to_client' = Tail(to_client)
    /\ faults' = faults + 1
    /\ UNCHANGED <<relay, run, to_relay, client, server, spoilt>>

LoseToRelay ==
    /\ Idle /\ to_relay # <<>> /\ faults < MaxFaults
    /\ \/ "lose_in" \in Faults
       \/ "lose_ack" \in Faults /\ pkt.flags = {"ACK"} /\ pkt.data = <<>>
    /\ to_relay' = Tail(to_relay)
    /\ faults' = faults + 1
    /\ spoilt' = (spoilt \/ pkt.data # <<>>)
    /\ UNCHANGED <<relay, run, to_client, client, server>>

\* A copy of a packet arrives after those that are under way.  A copy of a SYN
\* is what ClientSyn sends when the client repeats it.
DupToRelay ==
    /\ Idle /\ to_relay # <<>> /\ "dup_in" \in Faults /\ faults < MaxFaults
    /\ "SYN" \notin pkt.flags
    /\ to_relay' = Append(to_relay, pkt)
    /\ faults' = faults + 1
    /\ UNCHANGED <<relay, run, to_client, client, server, spoilt>>
-----------------------------------------------------------------------------
SocketCallback ==
    \/ \E k \in 0..BufSize : handle_fd_can_read(k) \/ handle_fd_can_write(k)
    \/ \E e \in FdEvent : dangling_callback(e)
    \/ handle_fd_can_read_end \/ handle_fd_can_read_again
    \/ handle_fd_can_write_end \/ handle_fd_can_write_again
    \/ \E ok \in BOOLEAN : handle_fd_did_connect(ok)

handle_tcp ==
    /\ Turn("handle_tcp")
    /\ \/ \E connect \in {"ok"} \cup (Outcomes \cap {"refused", "in_progress"}) :
            handle_tcp_syn(connect)
       \/ handle_tcp_stray \/ handle_tcp_rst \/ handle_tcp_last_ack \/ handle_tcp_closing
       \/ handle_tcp_old \/ handle_tcp_segment

Callback == SocketCallback \/ handle_tcp \/ tcp_timeout \/ tcp_remove \/ do_tcb_write

ClientGoesOn ==
    \/ ClientSyn \/ ClientReceive \/ ClientRead
    \/ \E n \in 1..Mss : ClientSend(n, FALSE)

ClientCloses == \E n \in 0..Mss : ClientSend(n, TRUE)

Client == ClientGoesOn \/ ClientCloses \/ ClientRexmit \/ ClientAbort

Network == LoseToClient \/ LoseToRelay \/ DupToRelay

\* event_loop waits in select and nobody has anything for it; after undefined
\* behaviour nothing more is said about the daemon.
Waits ==
    /\ Undefined \/ (Idle /\ to_relay = <<>> /\ to_client = <<>>)
    /\ UNCHANGED vars

Next ==
    \/ Waits
    \/ \E ready \in SUBSET (FdEvent \cup {"handle_tcp"}) : SelectFds(ready)
    \/ \E e \in Timer : SelectTimer(e)
    \/ Callback
    \/ Client
    \/ Network

Spec == Init /\ [][Next]_vars

\* Callbacks whose descriptor must become ready; the IPv4 peer need never close.
MustBeReady ==
    CanBeReady \ {e \in {"handle_fd_can_read"} : s_sent = ServerLen}

\* A pass that began is completed.  Descriptors that are ready again and again
\* are reported (time events are at least 500 ms apart and cannot keep a pass
\* from them); a timer runs when it is due.  The client keeps going,
\* but need never close.
Fairness ==
    /\ []<>Idle
    /\ SF_vars(SelectFds(MustBeReady))
    /\ WF_vars(\E e \in Timer : SelectTimer(e))
    /\ WF_vars(ClientGoesOn)

FairSpec == Spec /\ Fairness
-----------------------------------------------------------------------------
(* Properties. *)

\* The types of all variables but the history.
ProgramTypeOK ==
    /\ tcb \in Tcb \cup {NULL}
    /\ map \in TcpMap \cup {NULL}
    /\ listed \in [Event -> Nat]
    /\ isn \in Nat
    /\ run \subseteq Event \cup {"handle_tcp", "undefined"}
    /\ to_relay \in Seq(Packet) /\ to_client \in Seq(Packet)
    /\ client \in ClientState
    /\ s_sent \in 0..ServerLen /\ s_got \in Seq(Byte)
    /\ faults \in 0..MaxFaults

\* Every variable keeps its type; sequence numbers stay 32-bit values and no
\* event is listed a negative number of times.
TypeOK == ProgramTypeOK /\ spoilt \in BOOLEAN

\* tcb and map live and die together: the map exists exactly while the tcb has
\* its callbacks, which is exactly in SYN_RECVD and ESTABLISHED.  So the calls
\* t->cb->output_buffer_space that handle_tcp makes without a test of t->cb
\* never reach a freed map, and no fd callback uses a freed tcb.
MapMatchesTcb ==
    /\ map # NULL <=> tcb # NULL /\ tcb.cb
    /\ tcb # NULL => (tcb.cb <=> tcb.state \in {"SYN_RECVD", "ESTABLISHED"})

\* The event lists hold exactly the events the pointers of tcb and map name: no
\* event outlives the struct its callback would use, none is listed twice, and
\* no pointer names an event that was removed.  The one exception is
\* handle_fd_can_write after EAGAIN, which stays listed while map forgets it.
Pointed(e) ==
    \/ tcb # NULL /\ e \in {tcb.e_tcb_send, tcb.e_timeout}
    \/ map # NULL /\ e \in {map.e_fd_read, map.e_fd_write}

EventsMatch ==
    \A e \in Event :
      LET n == IF Pointed(e) THEN 1 ELSE 0
      IN  \/ listed[e] = n
          \/ e = "handle_fd_can_write" /\ "write_again" \in Outcomes /\ listed[e] > n

\* A tcb has one e_timeout for two purposes.  The retransmission timer runs only
\* while something is unacknowledged, so TIME_WAIT never overwrites (and loses)
\* a timer that is still listed, and tcp_remove runs only in TIME_WAIT.
TimerPurpose ==
    tcb # NULL =>
      /\ tcb.e_timeout = "tcp_remove" <=> tcb.state = "TIME_WAIT"
      /\ tcb.e_timeout = "tcp_timeout" =>
           /\ tcb.state \in {"ESTABLISHED"} \cup Sending
           /\ tcb.snd_una < tcb.snd_nxt /\ tcb.timeout_mark <= tcb.snd_nxt

\* Data in flight is always covered by the retransmission timer, whichever way
\* acknowledgements, timeouts and new data are interleaved.
UnackedIsTimed ==
    tcb # NULL /\ tcb.state \in {"ESTABLISHED"} \cup Sending
      /\ tcb.snd_una < tcb.snd_nxt /\ tcb.snd_una < tcb.outbuf.w_seq
      => tcb.e_timeout = "tcp_timeout"

\* No lost wakeup between the two sides: while a session is established the
\* IPv4 socket is watched for input exactly when outbuf has room, and for
\* output exactly when inbuf holds something.
SocketWatched ==
    tcb # NULL /\ tcb.state = "ESTABLISHED" =>
      /\ map.e_fd_read # NULL <=> rb_left(tcb.outbuf) > 0
      /\ map.e_fd_write # NULL <=> rb_used(tcb.inbuf) > 0

\* Whatever tcp_send_and_ack would send now, data, a FIN or an acknowledgement,
\* is scheduled: e_tcb_send is set.  The callers decide piecemeal when to call
\* mark_for_if_write.
OutputScheduled ==
    tcb # NULL /\ tcb.state # "SYN_RECVD" /\ ~NothingToSend(tcb) => tcb.e_tcb_send # NULL

\* Output that is left over at the end of a pass comes with a time event, so
\* event_loop does not block in select with a NULL timeout while it waits.
NoSleepOnOutput == Idle /\ listed["do_tcb_write"] > 0 => \E e \in Timer : listed[e] > 0

\* The session lives as Session promises: the tcb follows the TCP state diagram
\* and a client sees its connection established only after connect() succeeded,
\* whatever is lost, repeated or refused.
Life == INSTANCE Session WITH
    st <- IF tcb = NULL THEN "CLOSED" ELSE tcb.state,
    sock <- IF map = NULL THEN "none"
            ELSE IF map.e_fd_write = "handle_fd_did_connect" THEN "connecting"
            ELSE "connected"

FollowsLife == Life!Spec

Upto(n) == [i \in 1..n |-> i]

\* Neither stream is reordered, duplicated or has holes: what each end received
\* is a prefix of what the other sent.
ClientGetsPrefix == client.got = Upto(Len(client.got))
ServerGetsPrefix == s_got = Upto(Len(s_got))

\* Repetitions, duplicates and lost answers alone never harm the client's stream.
\* The daemon takes the first segment that is not old for the next one, so the
\* stream is only broken once bytes were thrown away: by a write that did not take
\* all it was given, with a packet of data lost on the way, or with a segment
\* that was dropped because some of its bytes were old.
UploadIntact == ~spoilt => ServerGetsPrefix

\* Every byte the daemon acknowledged to the client has been written to the
\* IPv4 socket or is in inbuf: tcp_recv_data advances rcv_nxt by the length of
\* the segment whether or not rb_write had room for all of it.  This holds until
\* bytes are thrown away as UploadIntact says.
AckedIsHeld ==
    ~spoilt /\ tcb # NULL /\ tcb.state = "ESTABLISHED" =>
      s_got \o tcb.inbuf.kept = Upto(IntDiff(tcb.rcv_nxt, FirstSeq))

\* Every byte read from the IPv4 socket that the client has not acknowledged
\* can still be retransmitted from outbuf, however often the timer fired.
UnackedIsKept ==
    tcb # NULL /\ tcb.state \in {"ESTABLISHED"} \cup Sending =>
      LET n == IntDiff(tcb.outbuf.w_seq, tcb.snd_una)
      IN  /\ n <= rb_used(tcb.outbuf)
          /\ Peek(tcb.outbuf, tcb.snd_una, n) = [i \in 1..n |-> s_sent - n + i]

\* The right edge of the window offered to the client never moves back while
\* the session is established.
Edge == IntDiff(SeqAdd(tcb.rcv_nxt, tcb.rcv_wnd), FirstSeq)
EdgeNeverRetracts ==
    [][tcb # NULL /\ tcb' # NULL /\ tcb.state = "ESTABLISHED" /\ tcb'.state = "ESTABLISHED"
         => Edge' >= Edge]_vars

\* The client has sent its FIN; the IPv4 peer has closed and the daemon knows.
ClientClosed == ClientSent > ClientLen
ServerClosed ==
    tcb # NULL /\ tcb.state \in {"FIN_WAIT_1", "FIN_WAIT_2", "CLOSING", "TIME_WAIT"}

\* When the IPv4 peer closes, its stream and its end reach a client that does
\* not close, although the client's window closes in between and the session
\* begins to close with bytes still to be sent.
ServerStreamArrives ==
    ServerClosed ~> ClientClosed \/ (client.got = Upto(ServerLen) /\ client.fin)

\* Both streams, each longer than a buffer, arrive unless a side closes.
BothStreamsArrive ==
    <>(ClientClosed \/ ServerClosed
         \/ (client.got = Upto(ServerLen) /\ s_got = Upto(ClientLen)))

\* Everything the client sent is acknowledged to it in the end.
ClientIsAcked == <>[](client.una = client.nxt)

\* Once the client has closed, the tcb and with it the memory of the session is
\* given back, by whichever side closed first, unless the session gets into
\* CLOSING.
SessionFreed ==
    ClientClosed /\ tcb # NULL ~> tcb = NULL \/ tcb.state = "CLOSING"

\* When the tcb of a session the client has not seen reset is deleted, the
\* client has everything that was read from the IPv4 socket.
QueuedIsDelivered == tcb = NULL /\ isn > 0 /\ client.st = "open" => Len(client.got) = s_sent
=============================================================================
