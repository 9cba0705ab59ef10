-------------------------------- MODULE Tcp ---------------------------------
(***************************************************************************)
(* One session of tcp.c and the struct tcp_map that ptrtd-tcp.c ties to    *)
(* it, as operators on a record w, the daemon's state during a callback:   *)
(*   w.tcb     the struct tcb, or NULL once tcb_delete freed it            *)
(*   w.map     the struct tcp_map, or NULL once kill_map freed it          *)
(*   w.listed  for each callback, how many events of the lists of event.c  *)
(*             carry it.  The pointers to those events are fields of tcb   *)
(*             and map, so that the two can disagree as they can in C.     *)
(*   w.out     the packets given to send_pkt so far                        *)
(* A pointer to an event is NULL or the name of the event's callback.      *)
(***************************************************************************)
EXTENDS Queue

CONSTANTS NULL,
          Byte,
          Mss,         \* t->mss, 1220 in the program
          BufSize,     \* capacity of inbuf and outbuf, 16 * 1024
          DrainWnd     \* rcv_wnd of a session without application, 1000

ASSUME TcpAssumption ==
    /\ Mss \in Nat \ {0} /\ Mss < SeqMod
    /\ BufSize \in Nat \ {0} /\ 2 * BufSize < SeqMod
    /\ DrainWnd \in uint
    /\ NULL \notin {"do_tcb_write", "tcp_timeout", "tcp_remove", "handle_fd_can_read",
                    "handle_fd_can_write", "handle_fd_did_connect"}

State == {"SYN_RECVD", "ESTABLISHED", "FIN_WAIT_1", "FIN_WAIT_2", "CLOSE_WAIT",
          "CLOSING", "LAST_ACK", "TIME_WAIT"}

Timer == {"tcp_timeout", "tcp_remove"}
FdWrite == {"handle_fd_can_write", "handle_fd_did_connect"}
FdEvent == FdWrite \cup {"handle_fd_can_read"}
Event == FdEvent \cup Timer \cup {"do_tcb_write"}

\* The fields of struct tcb that steer it; cb says whether t->cb is set.
Tcb == [state : State,
        snd_una : uint, snd_nxt : uint, snd_wnd : uint, snd_cwnd : uint, snd_max : uint,
        rcv_nxt : uint, rcv_wnd : uint, last_acked : uint, timeout_mark : uint,
        read_seq : uint, inbuf : Queues(Byte), outbuf : Queues(Byte), cb : BOOLEAN,
        e_tcb_send : {NULL, "do_tcb_write"}, e_timeout : {NULL} \cup Timer]

TcpMap == [e_fd_read : {NULL, "handle_fd_can_read"}, e_fd_write : {NULL} \cup FdWrite]

\* NULL is no struct.
ASSUME NullAssumption == NULL \notin Tcb /\ NULL \notin TcpMap

Flag == {"SYN", "ACK", "FIN", "RST"}
Packet == [flags : SUBSET Flag, seq : uint, ack : uint, wnd : uint, data : Seq(Byte)]
-----------------------------------------------------------------------------
(* event.c, as tcp.c and ptrtd-tcp.c use it. *)

AddEvent(w, e) == [w EXCEPT !.listed[e] = @ + 1]

\* Mutant: an event is taken out although it is in no list.
RemoveEvent_unlisted(w, e) == IF e = NULL THEN w ELSE [w EXCEPT !.listed[e] = @ - 1]

\* del_event of an event that is no longer in its list changes nothing.
RemoveEvent(w, e) ==
    IF e = NULL \/ w.listed[e] = 0 THEN w ELSE [w EXCEPT !.listed[e] = @ - 1]
-----------------------------------------------------------------------------
(* ptrtd-tcp.c, the callbacks of tcp_map_cb. *)

\* Mutant: the event that waits for input outlives the map.
kill_map_forgets_read(w) == [RemoveEvent(w, w.map.e_fd_write) EXCEPT !.map = NULL]

kill_map(w) ==
    [RemoveEvent(RemoveEvent(w, w.map.e_fd_write), w.map.e_fd_read) EXCEPT !.map = NULL]

output_space(w, space) ==
    IF space > 0 /\ w.map.e_fd_read = NULL
      THEN AddEvent([w EXCEPT !.map.e_fd_read = "handle_fd_can_read"], "handle_fd_can_read")
      ELSE w

can_read(w) ==
    IF w.map.e_fd_write = NULL
      THEN AddEvent([w EXCEPT !.map.e_fd_write = "handle_fd_can_write"], "handle_fd_can_write")
      ELSE w
-----------------------------------------------------------------------------
(* tcp.c. *)

\* Mutant: one byte too many is offered.
rb_left_over(q) == BufSize - rb_used(q) + 1

rb_left(q) == BufSize - rb_used(q)

\* make_tcp_hdr and send_pkt.
Emit(w, flags, data) ==
    LET t == w.tcb
        p == [flags |-> flags, seq |-> t.snd_nxt, ack |-> t.rcv_nxt,
              wnd |-> t.rcv_wnd, data |-> data]
    IN  [w EXCEPT !.out = Append(@, p), !.tcb.last_acked = t.rcv_nxt]

mark_for_if_write(w) ==
    IF w.tcb.e_tcb_send # NULL THEN w
    ELSE AddEvent([w EXCEPT !.tcb.e_tcb_send = "do_tcb_write"], "do_tcb_write")

\* The removal of both events followed by tcb_delete that tcp_remove,
\* tcp_close and handle_tcp spell out.
Discard(w) ==
    [RemoveEvent(RemoveEvent(w, w.tcb.e_tcb_send), w.tcb.e_timeout) EXCEPT !.tcb = NULL]

window_size(t) == IntDiff(t.snd_max, t.snd_nxt)

window_update(t) ==
    LET cwnd == MinInt(IF t.snd_cwnd = 0 THEN Mss ELSE t.snd_cwnd, t.snd_wnd)
    IN  [t EXCEPT !.snd_cwnd = cwnd, !.snd_max = SeqAdd(t.snd_una, cwnd)]

\* A new tcb for a SYN, as handle_tcp fills it in after tcb_new zeroed it.
NewTcb(irs, wnd, iss) ==
    window_update(
      [state |-> "SYN_RECVD",
       snd_una |-> iss, snd_nxt |-> iss, snd_wnd |-> wnd, snd_cwnd |-> 0, snd_max |-> 0,
       rcv_nxt |-> SeqAdd(irs, 1), rcv_wnd |-> BufSize,
       last_acked |-> 0, timeout_mark |-> 0, read_seq |-> SeqAdd(irs, 1),
       inbuf |-> Empty(SeqAdd(irs, 1)), outbuf |-> Empty(SeqAdd(iss, 1)), cb |-> TRUE,
       e_tcb_send |-> NULL, e_timeout |-> NULL])

\* Mutant: the callbacks stay with the closing session.
tcp_close_keeps_cb(w) ==
    IF w.tcb.state = "SYN_RECVD"
      THEN Discard(Emit(w, {"RST", "ACK"}, <<>>))
      ELSE mark_for_if_write(
             [w EXCEPT !.tcb.rcv_wnd = DrainWnd,
                       !.tcb.state = IF @ = "ESTABLISHED" THEN "FIN_WAIT_1" ELSE "LAST_ACK"])

\* Every caller passes hard = 0.
tcp_close(w) ==
    IF w.tcb.state = "SYN_RECVD"
      THEN Discard(Emit(w, {"RST", "ACK"}, <<>>))
      ELSE mark_for_if_write(
             [w EXCEPT !.tcb.cb = FALSE,
                       !.tcb.rcv_wnd = DrainWnd,
                       !.tcb.state = IF @ = "ESTABLISHED" THEN "FIN_WAIT_1" ELSE "LAST_ACK"])

\* The closing callback kills the map.
tcp_remote_close(w) == tcp_close(IF w.tcb.cb THEN kill_map(w) ELSE w)

set_timeout(w) ==
    AddEvent([w EXCEPT !.tcb.e_timeout = "tcp_timeout", !.tcb.timeout_mark = w.tcb.snd_nxt],
             "tcp_timeout")

\* Mutant: new data does not schedule its transmission.
tcp_send_unmarked(w, data) == [w EXCEPT !.tcb.outbuf = Written(@, data, BufSize)]

tcp_send(w, data) ==
    LET v == [w EXCEPT !.tcb.outbuf = Written(@, data, BufSize)]
    IN  IF window_size(v.tcb) > 0 THEN mark_for_if_write(v) ELSE v

\* tcp_read with room for every byte of inbuf (65536 against 16 * 1024).
Readable(t) == Peek(t.inbuf, t.read_seq, rb_avail(t.inbuf, t.read_seq))

\* Mutant: no window update is forced when a full buffer is emptied.
tcp_read_silent(w) ==
    LET t == w.tcb
        s == SeqAdd(t.read_seq, Len(Readable(t)))
    IN  [w EXCEPT !.tcb.read_seq = s, !.tcb.inbuf = Advanced(@, s),
                  !.tcb.rcv_wnd = rb_left(Advanced(t.inbuf, s))]

tcp_read(w) ==
    LET t == w.tcb
        s == SeqAdd(t.read_seq, Len(Readable(t)))
        v == [w EXCEPT !.tcb.read_seq = s, !.tcb.inbuf = Advanced(@, s),
                       !.tcb.rcv_wnd = rb_left(Advanced(t.inbuf, s))]
    IN  IF rb_left(t.inbuf) = 0
          THEN mark_for_if_write([v EXCEPT !.tcb.last_acked = SeqAdd(@, -1)])
          ELSE v

\* The segment tcp_send_and_ack builds: how much data, and whether the FIN.
Sending == {"FIN_WAIT_1", "CLOSING", "LAST_ACK"}

SegLen(t) ==
    LET wnd == window_size(t)
        len == rb_avail(t.outbuf, t.snd_nxt)
    IN  IF wnd > 0 /\ len > 0
          THEN Len(Peek(t.outbuf, t.snd_nxt, MinInt(MinInt(len, Mss), wnd)))
          ELSE 0

SegFin(t) ==
    /\ SegLen(t) < window_size(t)
    /\ rb_avail(t.outbuf, SeqAdd(t.snd_nxt, SegLen(t))) = 0
    /\ t.state \in Sending

\* Mutant: an acknowledgement alone is no reason to send.
NothingToSend_but_acks(t) == SegLen(t) = 0 /\ ~SegFin(t)

NothingToSend(t) == SegLen(t) = 0 /\ ~SegFin(t) /\ t.last_acked >= t.rcv_nxt

\* Mutant: the payload is taken from snd_una.
tcp_send_and_ack_from_una(w) ==
    LET t    == w.tcb
        data == Peek(t.outbuf, t.snd_una, SegLen(t))
        v    == IF t.e_timeout = NULL /\ SegLen(t) > 0 THEN set_timeout(w) ELSE w
        u    == Emit(v, IF SegFin(t) THEN {"ACK", "FIN"} ELSE {"ACK"}, data)
    IN  IF NothingToSend(t) THEN w
        ELSE [u EXCEPT !.tcb.snd_nxt = SeqAdd(@, SegLen(t) + IF SegFin(t) THEN 1 ELSE 0)]

\* Mutant: the retransmission timer starts with the last of several segments.
tcp_send_and_ack_timed_last(w) ==
    LET t    == w.tcb
        data == Peek(t.outbuf, t.snd_nxt, SegLen(t))
        last == rb_avail(t.outbuf, SeqAdd(t.snd_nxt, SegLen(t))) = 0
        v    == IF t.e_timeout = NULL /\ SegLen(t) > 0 /\ last THEN set_timeout(w) ELSE w
        u    == Emit(v, IF SegFin(t) THEN {"ACK", "FIN"} ELSE {"ACK"}, data)
    IN  IF NothingToSend(t) THEN w
        ELSE [u EXCEPT !.tcb.snd_nxt = SeqAdd(@, SegLen(t) + IF SegFin(t) THEN 1 ELSE 0)]

tcp_send_and_ack(w) ==
    LET t    == w.tcb
        data == Peek(t.outbuf, t.snd_nxt, SegLen(t))
        v    == IF t.e_timeout = NULL /\ SegLen(t) > 0 THEN set_timeout(w) ELSE w
        u    == Emit(v, IF SegFin(t) THEN {"ACK", "FIN"} ELSE {"ACK"}, data)
    IN  IF NothingToSend(t) THEN w
        ELSE [u EXCEPT !.tcb.snd_nxt = SeqAdd(@, SegLen(t) + IF SegFin(t) THEN 1 ELSE 0)]

\* Its result: can it be called again at once?
CanDoAgain(t) ==
    /\ window_size(t) > 0
    /\ \/ t.state = "ESTABLISHED" /\ rb_avail(t.outbuf, t.snd_nxt) > 0
       \/ t.state \in Sending /\ rb_avail(t.outbuf, t.snd_nxt) > -1

tcp_send_syn(w) == [Emit(w, {"SYN", "ACK"}, <<>>) EXCEPT !.tcb.snd_nxt = SeqAdd(@, 1)]

\* Mutant: the window is reduced twice.
tcp_recv_data_twice(w, p) ==
    LET n == Len(p.data)
        v == mark_for_if_write([w EXCEPT !.tcb.rcv_nxt = SeqAdd(@, n)])
        u == [v EXCEPT !.tcb.inbuf = Written(@, p.data, BufSize),
                       !.tcb.rcv_wnd = rb_left(Written(v.tcb.inbuf, p.data, BufSize)) - n]
        d == IF n = 0 THEN w ELSE IF w.tcb.cb THEN can_read(u) ELSE v
    IN  IF "FIN" \in p.flags
          THEN mark_for_if_write([d EXCEPT !.tcb.rcv_nxt = SeqAdd(@, 1)])
          ELSE d

\* The payload of a segment.  Without application it is thrown away.
tcp_recv_data(w, p) ==
    LET n == Len(p.data)
        v == mark_for_if_write([w EXCEPT !.tcb.rcv_nxt = SeqAdd(@, n)])
        u == [v EXCEPT !.tcb.inbuf = Written(@, p.data, BufSize),
                       !.tcb.rcv_wnd = rb_left(Written(v.tcb.inbuf, p.data, BufSize))]
        d == IF n = 0 THEN w ELSE IF w.tcb.cb THEN can_read(u) ELSE v
    IN  IF "FIN" \in p.flags
          THEN mark_for_if_write([d EXCEPT !.tcb.rcv_nxt = SeqAdd(@, 1)])
          ELSE d

\* Mutants: a timer that has nothing left to guard is taken out of the list but
\* not forgotten; a timer is never started again.
AckTimer_dangling(w, ack) ==
    LET t == w.tcb
        v == [RemoveEvent(w, t.e_timeout) EXCEPT !.tcb.snd_cwnd = SeqAdd(@, Mss)]
    IN  IF /\ t.state \in {"ESTABLISHED"} \cup Sending
           /\ t.e_timeout # NULL
           /\ ack >= t.timeout_mark
          THEN IF t.snd_una < t.snd_nxt THEN set_timeout(v) ELSE v
          ELSE w

AckTimer_stops(w, ack) ==
    LET t == w.tcb
        v == [RemoveEvent(w, t.e_timeout) EXCEPT !.tcb.snd_cwnd = SeqAdd(@, Mss)]
    IN  IF /\ t.state \in {"ESTABLISHED"} \cup Sending
           /\ t.e_timeout # NULL
           /\ ack >= t.timeout_mark
          THEN [v EXCEPT !.tcb.e_timeout = NULL]
          ELSE w

\* handle_tcp's treatment of a new acknowledgement, RTT estimation left out.
AckTimer(w, ack) ==
    LET t == w.tcb
        v == [RemoveEvent(w, t.e_timeout) EXCEPT !.tcb.snd_cwnd = SeqAdd(@, Mss)]
    IN  IF /\ t.state \in {"ESTABLISHED"} \cup Sending
           /\ t.e_timeout # NULL
           /\ ack >= t.timeout_mark
          THEN IF t.snd_una < t.snd_nxt THEN set_timeout(v)
                                        ELSE [v EXCEPT !.tcb.e_timeout = NULL]
          ELSE w

\* Mutant: everything sent is dropped, not only what is acknowledged.
NewAck_drops_sent(w, ack) ==
    LET v == [w EXCEPT !.tcb.snd_una = ack,
                       !.tcb.snd_nxt = IF ack > @ THEN ack ELSE @]
        u == [v EXCEPT !.tcb.outbuf = Advanced(@, v.tcb.snd_nxt)]
    IN  IF w.tcb.state = "ESTABLISHED"
          THEN AckTimer(output_space(u, rb_left(u.tcb.outbuf)), ack)
          ELSE AckTimer(v, ack)

\* Mutant: the map is told of the room there was before the bytes are dropped.
NewAck_told_early(w, ack) ==
    LET v == [w EXCEPT !.tcb.snd_una = ack,
                       !.tcb.snd_nxt = IF ack > @ THEN ack ELSE @]
        u == [v EXCEPT !.tcb.outbuf = Advanced(@, ack)]
    IN  IF w.tcb.state = "ESTABLISHED"
          THEN AckTimer(output_space(u, rb_left(v.tcb.outbuf)), ack)
          ELSE AckTimer(v, ack)

NewAck(w, ack) ==
    LET v == [w EXCEPT !.tcb.snd_una = ack,
                       !.tcb.snd_nxt = IF ack > @ THEN ack ELSE @]
        u == [v EXCEPT !.tcb.outbuf = Advanced(@, ack)]
    IN  IF w.tcb.state = "ESTABLISHED"
          THEN AckTimer(output_space(u, rb_left(u.tcb.outbuf)), ack)
          ELSE AckTimer(v, ack)

Acked(w, p) ==
    IF "ACK" \in p.flags /\ p.ack > w.tcb.snd_una THEN NewAck(w, p.ack) ELSE w

\* Everything sent is acknowledged.
AllAcked(t, p) == "ACK" \in p.flags /\ t.snd_una = t.snd_nxt

FinAcked(t) == rb_avail(t.outbuf, t.snd_nxt) = -1

\* The state changes that an acknowledgement of everything sent causes in the
\* states in which handle_tcp goes on with the segment.
Settled(w, p) ==
    LET t == w.tcb
        v == [w EXCEPT !.tcb.state = "ESTABLISHED"]
    IN  IF ~AllAcked(t, p) THEN w
        ELSE IF t.state = "SYN_RECVD" THEN output_space(v, rb_left(t.outbuf))
        ELSE IF t.state = "FIN_WAIT_1" /\ FinAcked(t)
               THEN [w EXCEPT !.tcb.state = "FIN_WAIT_2"]
        ELSE w

\* Mutant: a window that opens again does not start the transmission.
NewWindow_unmarked(w, p) == [w EXCEPT !.tcb = window_update([w.tcb EXCEPT !.snd_wnd = p.wnd])]

\* The window the segment advertises; sending starts again if it was closed.
NewWindow(w, p) ==
    LET t == [w.tcb EXCEPT !.snd_wnd = p.wnd]
        v == [w EXCEPT !.tcb = window_update(t)]
    IN  IF window_size(t) <= 0 /\ window_size(v.tcb) > 0 THEN mark_for_if_write(v) ELSE v

\* TIME_WAIT begins: the tcb is removed two minutes later.
TimeWait(w) ==
    AddEvent([w EXCEPT !.tcb.state = "TIME_WAIT", !.tcb.e_timeout = "tcp_remove"], "tcp_remove")

\* The last switch of handle_tcp.
Receive(w, p) ==
    LET v   == tcp_recv_data(w, p)
        fin == "FIN" \in p.flags
    IN  CASE w.tcb.state = "FIN_WAIT_2"  -> IF fin THEN TimeWait(v) ELSE v
          [] w.tcb.state = "FIN_WAIT_1"  -> IF fin THEN [v EXCEPT !.tcb.state = "CLOSING"] ELSE v
          [] w.tcb.state = "ESTABLISHED" ->
               IF fin THEN tcp_remote_close([v EXCEPT !.tcb.state = "CLOSE_WAIT"]) ELSE v
          [] OTHER -> w
=============================================================================
