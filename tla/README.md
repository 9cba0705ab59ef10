# ptrtd in TLA+

ptrtd is a transport relay translator (RFC 3142): IPv6 clients open TCP sessions
to "fake" IPv6 addresses, the daemon answers them with a TCP implementation of
its own on top of a tun or tap device, opens an ordinary IPv4 connection to the
real host and copies the bytes both ways.  It is one process with one thread; a
`select` loop calls everything else.  This directory models that program, checks
the models with TLC and proves their safety properties, for every value of the
constants, with TLAPS.

## 1. The system

| part | state | operations | talks to |
|---|---|---|---|
| event loop (`event.c`) | three doubly linked lists: time (sorted), fd, always; `sigint_received` | `add_*_event`, `resched_time_event`, `remove_event`, `event_loop` | calls every other part; they change its lists while it walks them |
| TCP endpoint (`tcp.c`, `tcb.h`) | per session a `tcb`: state, send and receive variables, two ring buffers, one timer pointer, one always event | `handle_tcp`, `tcp_send`, `tcp_read`, `tcp_close`, `tcp_accept`, `do_tcb_write`, `tcp_timeout`, `tcp_remove` | called for packets and timers; calls back into the relay (`incoming_session`, `output_buffer_space`, `data_available`, `closing`) |
| TCP relay (`ptrtd-tcp.c`) | per session a `tcp_map`: tcb, descriptor, read and write event | `handle_fd_can_read`, `handle_fd_can_write`, `handle_fd_did_connect`, the callbacks | IPv4 socket below, `tcp.c` above |
| ring buffer (`buffer.c`) | memory, `w_pos`, `used`, `w_seq` | `rb_write`, `rb_read`, `rb_advance`, `rb_set` | used by `tcp.c`, addressed by sequence number |
| session table (`tcb.c`, `rbtree.c`) | a red-black tree of tcbs | `tcb_new`, `tcb_find`, `tcb_delete` | `handle_tcp`; the status page walks it |
| ICMPv6 and neighbors (`icmp.c`) | list of neighbors, each with a state, a hardware address and a queue of packets | `handle_icmp`, `send_pkt`, `got_neighbor` | every packet leaves through `send_pkt` |
| dispatch, start-up (`ptrtd.c`) | none | `handle_packet`, `main` | drivers, protocols |
| UDP relay (`udp.c`, `ptrtd-udp.c`) | `udp_map` per client port, with socket and stale timer | `incoming`, `handle_udp_read`, `remove_udp_map` | as for TCP |
| drivers (`if_*.c`, `ether.c`, `pbuf.c`) | packet buffers with room for headers | `get_buffer`, `send_unicast`, the read callbacks | device below, `handle_packet` and `send_pkt` above |
| status page (`http_status.c`) | none | `write_status_report` | reads the session table between two walks of the loop |
| `util.c`, configuration file | none | formatting, parsing | |

What is hard in it: callbacks that free or move what the loop and other
callbacks point to; two directions of a session that wake each other through
events; one timer pointer for two purposes; sequence numbers compared in several
ways; packets that are lost, repeated or duplicated; system calls that take a
part, would block or fail; both sides closing at the same time; maps that time
out while answers are under way; and lengths that four drivers have to agree on.
`PROJECT.json` lists these hazards line by line, with the properties aimed at
each.

The properties that make each part correct:

- ring buffer: it behaves as a bounded queue of bytes, whatever wraps, and never
  returns memory nobody wrote;
- event loop: lists stay linked and sorted, and a pass calls each event it took
  exactly once and no removed one;
- TCP endpoint and relay: the stream to the client is whole and in order, that to
  the IPv4 peer until the code throws bytes of it away; acknowledged bytes are held
  as long, unacknowledged ones can be sent again and are timed; nothing that should wake a side is forgotten; tcb, map and events are
  freed together; streams arrive and closed sessions are given back;
- neighbors and drivers: packets leave once, in order, to the address that was
  announced last, with all of their headers, and arrive whole;
- session table: the tree stays a red-black tree of the sessions that exist; a
  session can be found, gets only its own segments, and is on the status page;
- UDP relay: a socket, a read event and a timer for each map and for nothing
  else; answers reach the port that asked; the map that was idle longest is removed
  first.

## 2. Modules

| module | models | remarks |
|---|---|---|
| `SeqArith` | `uint` sequence numbers and `int` differences | width `SeqMod` |
| `Queue` | what `buffer.c` promises, as operators | used by `Tcp` |
| `ByteQueue` | the same as a state machine | abstract |
| `RingBuffer` | `buffer.c` cell by cell | implements `ByteQueue` |
| `RingBuffer_proofs` | theorems about it | TLAPS |
| `Tcp` | `tcp.c` and `tcp_map` as operators on one session | a callback maps the daemon `w` to the daemon it leaves behind |
| `TcpRelay` | callbacks, loop passes, client, network, IPv4 socket | `MCTcpRelay` for TLC |
| `Session` | the promised life of a session | abstract |
| `EventLoop` | `event.c` with its pointers | `MCEventLoop` for TLC |
| `EventSet` | what a pass of the loop promises | abstract |
| `RbTree` | `rbtree.c` as operators on the pointers of its nodes | |
| `TcbTable` | `tcb.c` and `http_status.c` over `RbTree` | `MCTcbTable` for TLC |
| `Link` | `pbuf.c`, `ether.c` and the drivers, as arithmetic on lengths | |
| `Neighbor` | `icmp.c`: neighbor list and `send_pkt`, as operators | uses `Link` |
| `Stack` | `handle_packet` and everything that sends | composes `Link` and `Neighbor`; `MCStack` for TLC |
| `UdpRelay` | `udp.c`, `ptrtd-udp.c` | `MCUdpRelay` for TLC |
| `UdpRelay_proofs` | theorems about it | TLAPS |
| `Tcp_proofs` | lemmas: what each function of `tcp.c` does to a consistent daemon | TLAPS |
| `TcpRelay_proofs` | theorems about the relay, client and network together | on `Tcp_proofs` |
| `Streams_proofs` | theorems about the two streams of a session: what each side gets, when it is sent, the window that is offered | on `TcpRelay_proofs` |
| `Stack_proofs` | theorems about the packets that leave | TLAPS |
| `EventLoop_proofs` | theorems about the lists and the passes | TLAPS |
| `TcbTable_proofs` | theorems about the tree, the lookup and the walk | TLAPS |

### RingBuffer

`p`, `w_pos`, `used`, `w_seq` are the fields of `struct ringbuf`; `got` is what
the last `rb_read` copied out.  A fresh block holds `Junk`.  The refinement
mapping reads the kept bytes back from `w_pos`.

### Tcp and TcpRelay

The daemon's side of a session is `tcb` (fields of `struct tcb`), `map` (fields
of `struct tcp_map`) and `listed`, how many events with a given callback are in
the lists.  An operator named after a C function takes a record `w` of these and
of the packets sent, and returns it as the function leaves it, nested calls
included.  `tcb.cb` says whether the application is still attached.

An action of `TcpRelay` is one callback that `event_loop` makes, from its call
to its return.  `run` is what is left of the current pass.  `SelectFds` and
`SelectTimer` begin a pass; the callbacks of the socket's events run before that
of the tun device, whose event is the oldest and hence the last of its list, and
the always event runs at the end, as in `event_loop`.  A pass in which a time
event runs looks at no descriptor.  The client and the network act only while
the daemon waits in `select`: what happens during a pass is seen by the next one.

`handle_tcp` is split by its early returns: `handle_tcp_syn`, `_stray`, `_rst`,
`_last_ack`, `_closing`, `_old`, `_segment`.  `handle_fd_can_read` and
`handle_fd_can_write` are split by the result of the system call; `Outcomes`
says which unusual results a run admits: `refused`, `in_progress` (connect),
`eof`, `error`, `read_again`, `write_again`, `short_write`.  After a callback of
a freed map nothing more is said (`dangling_callback`).

The client is a correct TCP: it respects the window, keeps what it received, and
sends again what was not acknowledged, possibly cut into other segments.
`Faults` says what may happen to packets.  The bytes of a stream are 1, 2, 3...,
so that a byte tells its place.  The network copies no SYN: a copy would be what
`ClientSyn` sends when the client repeats it.

`spoilt` (history) records that bytes of the client's stream were thrown away: by
a `write` that took less than it was given, or none after EAGAIN; with a packet of
data that was lost; or with a segment that was dropped although not all of it was
old (`PartlyOld`).  The daemon notices none of these.  `TypeOK` is `ProgramTypeOK`,
what holds of the program's own variables, and that `spoilt` is a truth value.

Left out of `tcp.c`: the round trip estimate (it decides how long the timer
waits; a timer may fire at any time here), options, checksums, logging.
`DrainWnd` and `Mss` stand for the constants of the code.

### EventLoop

`l` holds `next`, `prev` and the heads; an event that was removed keeps its
pointers, as in the code, where nothing frees it.  A callback is any sequence of
calls of the functions of `event.c`, under what all callbacks of the daemon
respect: an event is removed only while it is listed, and a callback removes its
own event only if that is a time event, and last (`tcp_remove`).  `left` is the
time until an event is due, recomputed from the clock in each pass: negative for
one that is late, by at most `MaxLate`.  The refinement mapping to `EventSet` takes for the
events still to be called those that are listed from the loop's pointer on, and
in a walk of the time list those that are due (`Part`, `Ahead`, `Todo`,
`Running`).

### RbTree and TcbTable

A tree is the fields of `struct rb_node` as functions of the node; the mirrored
halves of `rbtree.c` are one definition with the side as a parameter, and a loop
is a recursive function of the number of iterations (`Loop`).  `tcblist` is the
tree, `tcbs` the tcbs that are allocated.  A session may stay or end with every
segment it gets.  A freed node's pointers are null in the model, so a pointer
that is followed after `rb_erase` would show.  Addresses and ports may be 0: a tcb
with `::` and port 0 for both ends compares equal to the listener (`LikeListener`), so that
`tcb_insert` leaves it out.  When it is deleted `rb_erase` of the zeroed node sets the
root to null (`Lost`), and the next `tcb_find` calls itself without end; nothing is
said after that.  `pages` is what the last step
wrote for the status page.

### Link, Neighbor and Stack

`link` is the interface with its driver, the neighbor list and the frames of the
last step; `handed` and `written` count packets for each next hop (history).  A
packet carries its pbuf, which is allocated as each handler does and raised by
the driver when it is sent, at once or out of the queue.  `Init` chooses the
driver; `tap_bsd` is tap in a build without Linux's `if_tun.h`.  Here a TCP
session or a UDP map may send at any time.  `heard` (history) is what the neighbors on
an Ethernet said of themselves: the address each announced last (`told`), and which of
them sent an advertisement without the option for it (`bare`).

### UdpRelay

`ulist` gives the socket of each map; `fds`, `reads` and `timers` are what
exists in the kernel and the event lists, so that a leak shows.  A socket stands
for its port.  Timers are all set for 600 seconds, so that the order in which
they were set is the order in which they are due; `remove_udp_map` may run at any
time, since `event_loop` runs a time event early when an always event keeps it
from waiting.  `used` (history) orders the maps by traffic.  Without a descriptor
for a new socket, or when `recvfrom` fails, the daemon exits, as the code does.

## 3. Runs

All runs finish in less than five minutes with two workers.

| run | question | result |
|---|---|---|
| `RingBuffer` | does the ring of cells behave as a queue of bytes? | yes |
| `RelayFaults` | do tcb, map and events stay consistent, and is the socket watched for what it should be, when connects are refused, calls fail, buffers fill and packets are lost, repeated, duplicated? | yes, but for the event that `handle_fd_can_write` leaves behind after EAGAIN |
| `RelayUpload` | what can break the client's stream: losses either way, duplicates, repetitions, short writes? | bytes that are thrown away (`spoilt`), and nothing else |
| `RelayDownload` | does the IPv4 peer's stream survive losses and early timers? | yes |
| `Live` | do streams arrive, and are closed sessions freed? | yes, also when segments and retransmissions are lost |
| `EventLoop` | do the walks survive what callbacks do to the lists? | yes |
| `Stack` | do packets leave once, in order, addressed and with room for their headers, and come in whole? | yes, but for neighbors that sent an advertisement without option and the 48 bytes of an ICMP error, and up to the announced MSS |
| `TcbTable` | does the tree survive every order of insertions and removals; does a segment find its client's session? | yes, until a tcb that compares equal to the listener is deleted |
| `UdpRelay` | do sockets, events and timers follow the maps; do answers reach the port that asked? | yes, unless a new map has got the port of a removed one |
| `BugUnsentDropped` | does the client get what was queued when it closes? | no |
| `BugPartlyOld` | does a stream survive a repetition cut differently? | no |
| `BugWrongHost` | does a segment reach the session of its host? | no |

Every property of a passing run has a mutant: a plausible error in one
definition, kept next to it (`\* Mutant:`), with which TLC finds the property
violated.

### What the violations show

- `BugUnsentDropped` (`tcp.c:554`): in LAST_ACK an acknowledgement of what was
  *sent* deletes the tcb, though `outbuf` may hold more.
- `BugPartlyOld` (`tcp.c:580`): a segment that begins before `rcv_nxt` is dropped
  whole, and one that begins behind it is taken as the next.  A client that
  repeats an old segment together with new bytes thereby loses the new ones.
- `BugWrongHost` (`tcb.c:46`): `tcbcmp` compares `raddr` twice and `laddr` never.

Met while modelling, each with a hazard entry, and admitted in the runs, with the
exception that it takes named in the property:

- a short `write`, or EAGAIN, loses acknowledged bytes (`UploadIntact`, `AckedIsHeld`
  say nothing once `spoilt`); after EAGAIN an event stays listed without a pointer
  (`EventsMatch`);
- an advertisement without the address option makes a neighbor reachable nowhere, or
  adds one that is never asked (`FramesAddressed`, `WaitsForAnswer`);
- an ICMP error is written 48 bytes beyond its buffer (`icmp.c:210`, `HeadersFit`);
- a SYN from `::` port 0 to port 0 gets a tcb that is in no tree and whose deletion empties
  it (`RedBlack`, `SessionsFound`, `PageListsSessions`);
- in CLOSING `handle_tcp` returns before it looks at the window, and if that was closed
  the session stays (`SessionFreed`).

Met and kept out by the constants or by what the model says nothing of, also with
hazard entries: a FIN closes the socket before `inbuf` is written; a lost SYN-ACK is
never repeated, nor is a FIN sent alone; a lost window update stops a session for good;
around a wrap `<` takes a repeated segment for new data (`Irs = 61`); tap cuts packets
of more than 1276 bytes; the second status page of one call has no rows; a UDP answer
comes from a prefix that was never set.

### Bounds

- `RingBuffer`: three cells, chunks of up to three bytes, numbers modulo 8: every
  combination of write position, fill and wrap occurs.
- `TcpRelay`: buffers of one or two bytes and streams of up to three; `inbuf` fills
  and empties in `RelayUpload` and `Live`, `outbuf` in `RelayFaults`, `RelayDownload`
  and `Live`; windows of one or two bytes, so they close; segments
  of one or two bytes; `SeqMod` 64, enough for both streams.  `NetCap` bounds
  packets in flight when a pass begins, `MaxFaults` the faults, `MaxSyn` the
  sessions (two, one after the other, in `RelayFaults`).  In `RelayUpload` a repetition
  may be cut otherwise than the segments it repeats, and so be partly old.
  In `Live` the client's window is one byte, so that it closes after each, and up
  to two packets with data are lost: a segment and its retransmission, or two
  segments.
- `EventLoop`: two fd, three always and two time events, delays of one and two, a time
  event up to one late: an always event between two others while the walk is on any of
  the three (fd events share the list code), a time event before or after the other.
- `Stack`: every driver, two link-local addresses, one of them the gateway, and
  one beyond it; three packets handed to `send_pkt`, so that two wait while a
  third comes; packets of the shortest and the longest length.
  Two hardware addresses, so that a neighbor may change its own; they are a symmetry
  set, since nothing but equality is asked of them.
- `TcbTable`: nine segments: of two clients, two ports each, to two ports of a host,
  one of them to port 0, and the one that compares equal to the listener.  Seven
  sessions and the listener are in the tree at most, that is every shape of a tree of eight
  nodes that insertions and removals reach: each case of both repairs, on
  both sides, with repairs that go up to the root.
- `UdpRelay`: three client ports, two of one host, and two sockets, so that the
  descriptors run out and ports are used again; receive buffers of two, two
  datagrams that may still be answered.

### Fairness

`Live` assumes: a pass that began is completed (`[]<>Idle`:
callbacks do not block); a descriptor that is ready again and again is reported
(strong fairness of `SelectFds`: a pass that only runs a time event looks at no
descriptor, but time events are rare); a timer runs when it is due; the client
answers, reads and sends what it has.  Neither the client nor the IPv4 peer has
to close.  Packets that only open a connection, acknowledge, announce a window or
end a stream are not lost, since the code has no timer for them.

## 4. Proofs

Every theorem is about `Spec` of the module it extends and holds for every value
of the constants that the named `ASSUME`s of that module admit; TLC evaluates
these in the runs.

| module | theorems | for any |
|---|---|---|
| `RingBuffer_proofs` | `RingTypeCorrect`, `RingMemory`, `RingInitialised`, `RingImplements` | size, bytes, `SeqMod > 2 * Size` |
| `TcpRelay_proofs` | `TypesAlways`, `MapMatchesTcbAlways`, `EventsMatchAlways`, `TimerPurposeAlways`, `FollowsLifeAlways`, `SocketWatchedAlways`, `UnackedIsTimedAlways`, `UnackedIsKeptAlways` | buffer sizes, windows, segment sizes, stream lengths, outcomes of system calls and faults |
| `Streams_proofs` | `ClientGetsPrefixAlways`, `NoSleepOnOutputAlways`, `OutputScheduledAlways`, `EdgeNeverRetractsAlways` | the same; the last two with `WindowFits` and `EdgeFits` |
| | `UploadIntactAlways`, `AckedIsHeldAlways` | the same, with `EdgeFits`; short writes, losses and repetitions of any cut included |
| `EventLoop_proofs` | `TypesAlways`, `ListsLinkedAlways`, `TimeSortedAlways`, `PassesAreExactAlways` | finite sets of events of each kind |
| `Stack_proofs` | `TypesAlways`, `InOrderAlways`, `WaitsForAnswerAlways`, `FramesAddressedAlways`, `HeadersFitAlways`, `SegmentsWholeAlways` | addresses, packets, drivers |
| `TcbTable_proofs` | `TypesAlways`, `RedBlackAlways`, `SessionsFoundAlways`, `ClientsKeptApartAlways`, `PageListsSessionsAlways` | number of sessions, addresses, ports |
| `UdpRelay_proofs` | `MapsMatchEventsAlways`, `AnswersReachAskerAlways`, `IdleLongestFirstAlways` | clients, sockets, datagrams |

A theorem `XAlways` states the property `X` of the runs.  None of the properties
is inductive as it stands; each module therefore has one invariant that is, and
the lemmas that every action keeps it.

### The ring buffer

A ring without memory must also have `w_pos = 0`, or the first write after it was
emptied would not start at cell 0; `RingInv` adds this.  `WriteEffect` states the
two `memcpy` calls once, counted back from the newest byte; `WriteInv` and
`WriteRefines` rest on it, and `ReadEffect` does the same for `rb_read`.

### The TCP relay

The theorems have the form `Spec /\ []NoWrap => []X`.  `NoWrap` says that no
stream carries its sequence numbers over the wrap; it is a condition on behaviours
since the daemon's first number depends on how many sessions there were.  It is
needed: `tcp.c:580` compares sequence numbers as plain unsigned values, and past
the wrap it takes a repetition for new data (the hazard `numeric_edge` of that
line).  In the `Relay*` runs and in `Live` it holds in every state.

`Tcp_proofs` says of each function of `tcp.c` and each callback what it does to a
daemon `w` for which `DaemonOK` holds: tcb and map point to each other as
`Matched` says, the lists hold the events they point to, `outbuf` ends at the last
byte read from the socket, holds the last bytes of that stream and begins at or
before `snd_una`, and the timer has the purpose the state asks for.  A callback
that frees the session leaves the daemon without events, and the lemmas follow
that through the nested calls.

`DaemonOK` alone does not survive a packet: an acknowledgement of bytes that were
never sent would move `snd_una` past the end of `outbuf`, and a SYN that comes
while the session is open would take it for a new one.  `IInv` of
`TcpRelay_proofs` therefore also says what can be on its way:

- `HandshakeOK`: before the SYN-ACK is sent exactly one thing is waited for, the
  connect or the output event;
- `ToRelayOK`: the client's packets have numbers of its stream, and no SYN is
  behind another packet;
- `ToClientOK`, `PhasesOK`: a client that waits for the SYN-ACK can see only that
  one, and once it has seen it no connect is pending;
- `AcksOK`: nothing is acknowledged, by the client or in a packet, that was not
  sent (`SendLimit`);
- `RunOK`: the callbacks of the pass are those of listed events, so that none of a
  freed map runs.

`NextStep` shows that each step keeps `IInv` and is a step of `Session` or a
stutter; from it follow all eight theorems.  `EventsMatch` is proved with its
exemption, as it is checked: where `write_again` is among the outcomes,
`handle_fd_can_write` may be listed once more than `map` says, and outlive the map.
`spoilt` follows from nothing in the daemon; `HistoryStep` says how a step changes it.

### The stream to the client

Only `do_tcb_write` sends segments: everything else that a callback does is
`Silent` or sends one reset (`Resets`).  Its segments are copied from `outbuf`,
whose bytes `IInv` already places in the stream, so each is `Placed`: its bytes
are those of the stream at its number.  `StreamInv` says this of every segment
on its way to an open client, and `ExpectsNext` that the client waits for the
byte after those it has.  A FIN needs more: it must be behind the *last* byte, so
nothing may be read from the socket once it was sent.  That is why `Placed` also
says that the map is gone then; without it the invariant is not inductive.

`NoSleepOnOutput` rests on what `do_tcb_write` returns: it asks to be called again
only after a segment with data, and that segment started the timer.  Outside a
pass the daemon may therefore wait with its always event listed only if something
has listed it since.

`OutputScheduled` is not inductive: that nothing is to be sent *now* says nothing of
what the next acknowledgement brings.  `OutInv` gives each open session one reason
to be without an output event (`Scheduled`): its SYN-ACK was not sent, or nothing is
owed to the client and it is `Drained`, that is, its window is closed or `snd_nxt` is
at the end of all there is to send.  Most functions leave the variables of the send
side alone or call `mark_for_if_write` (`SameBut`, `Marked`).  The others have a lemma
each:

- an acknowledgement moves `snd_una` and `snd_nxt` but not `snd_max`, so a closed
  window stays closed (`AckedOutput`); the window of the segment then either opens
  nothing or schedules (`WindowOutput`);
- `do_tcb_write` lets go of its event only when the session is drained, because what
  is left fits in no window or was all sent (`WriteOutput`);
- bytes that arrive from the socket while the window is open are scheduled, and
  `tcp_timeout` schedules what it takes back (`SocketOutput`, `TimeoutOutput`).

`window_size` is a signed difference.  That an acknowledgement cannot open a window
by wrapping it needs `WindowOK`: `snd_max` is not further from `snd_una` than the
client's buffer is large, which in turn needs that the client announces no more
(`Announced`).  `WindowFits` says that this buffer is less than half of the number
space: a 16-bit window against 2^32 in the program, 1 or 2 against 64 in the runs.

`EdgeNeverRetracts` is about the window that is offered in the other direction.
`rcv_wnd` is the room in `inbuf`, so the edge is `rcv_nxt` less what waits there, plus
`BufSize`; `Offered` names the first part, and `OfferStep` shows that no step of an
open session lowers it.  `tcp_recv_data` takes from the window at most what it adds to
`rcv_nxt`, also when `inbuf` cannot hold all of it, and `tcp_read` only opens it.
`EdgeFits` says that the sequence numbers of the client's stream and a buffer more fit
in half of the number space, without which the signed difference that `Edge` takes
says nothing; in the program that is 2^31 against a buffer of 16 KB.

### The stream to the IPv4 peer

`handle_tcp` drops a segment that begins before `rcv_nxt` and takes every other as
the next one; `tcp_recv_data` adds its length to `rcv_nxt` whatever `rb_write` took.
Both are right only if nothing on its way leaves a hole, and if no segment is longer
than the room in `inbuf`.  The daemon looks at neither, so `UploadInv` has to say it of
everything that is under way:

- `DataPlaced`: the bytes of a packet are those of the stream at its number;
- `InOrder`: each packet begins at or before `rcv_nxt`, or at or before the end of a
  packet ahead of it (`Reached`), and what the client sends next does too (`Follows`);
- `Within`, `EdgeAt`, `Answers`: no packet ends beyond the window that was offered,
  because the client keeps to the edge it was told, and no answer under way tells it
  one beyond `Limit`, the present edge, or acknowledges more than `rcv_nxt`;
- `Held`: what was written to the socket and what waits in `inbuf` is the stream up
  to `rcv_nxt`.

That `Limit` never falls is `OfferStep` again, on which this proof rests.

`UploadInv` cannot hold always, since the code does lose bytes and goes on as if
nothing had happened.  The invariant is `spoilt \/ UploadInv`, and both theorems have
the form `ASSUME EdgeFits PROVE Spec /\ []NoWrap => []X` with `~spoilt` as the premise of `X`.
No behaviour is left out; the proof shows that each step that does not set `spoilt` keeps
`UploadInv`, so that three things alone can break the stream:

- the `write` to the socket takes less than it is given.  `tcp_read` has taken
  the bytes out of `inbuf` by then, and what is not written is gone;
- a packet with data of the client is lost; the one after it is taken in its place.
  Repetitions and duplicates do no harm, nor does the loss of whatever the daemon sends;
- a packet begins before `rcv_nxt` and ends behind it.  It is dropped, and what follows
  is taken in its place: `BugPartlyOld`.

`EdgeFits` and `NoWrap` are as above.

### The event loop

`ListsOK` says that each list is doubly linked from its head, ends, and holds only
events of its own type; `SortedBy` that the time list is in order; `LoopOK`
that the pointer the loop kept is to a listed event, or null.  The point of the
proof is that `event_loop` takes `next` of an event *after* its callback returned:
a callback may add at the head, remove other events and, for a time event, remove
its own.  A time event that removed itself is `Loose`: it is in no list but keeps
its `next`, and the `remove_event` that the loop does after the callback then
changes nothing.  `PassesAreExactAlways` is the refinement of `EventSet`: each
step of the walk is a step there, or a stutter.

What is behind an event is a recursive function of the number of steps (`Behind`).
That it is closed, and least, is shown by the least number that would be a
counterexample (`LeastNat`), as is what `Flushed` of `Neighbor` leaves for
`Stack_proofs`.

### Packets that leave

`LinkOK` relates the counters to the queues: the packets that wait for a next hop
are numbered without gap after those that were written to it, a packet waits only
for the neighbor it is for, and only while that one was asked and has not
answered, or came into the list by an advertisement without option; the address in
the list is the one the neighbor told last (`heard`); a packet in a queue has the room in
front of it that `get_buffer` left.  A step writes frames for one next hop only, so `IInv` names it.

### The session table

No induction over trees can be put to the provers, so the invariant carries what
such an induction would compute.  `TreeInv(t, S, D, h)` says that `t` is a
red-black tree of the nodes `S`, where `D` gives the nodes at and below each node
and `h` the black nodes on the way down from it:

- `Shape`: parents and children agree, `D` of a node is the node and what is below
  its children, and all on one side of a node come before it in the order of
  `tcbcmp`, seen from that side (`Before`);
- `HtOK`: a node has the same height on both sides; `RedOK`: no red node is the root
  or below a red one; `Clear`: a node that is not linked has null pointers.

Each assignment of `rbtree.c` then has a lemma that says which `D` and `h` describe
the tree after it: a rotation (`TurnedShape`), a new leaf (`LinkSays`), a node that
leaves its place to its only child (`CutSays`), a node that takes the place of another
(`RenameSays`).  Induction is by a least counterexample (`LeastNat`), over the size of
`D`.

A loop runs as many times as there are nodes and stops changing anything before.
`RunEnds` shows this from a set `Q[k]` for each `k`, such that an iteration leads from
`Q[k]` to `Q[k - 1]` or changes nothing; an operator cannot be the parameter of a
lemma, so each loop has a copy of it (`InsertLoop`, `EraseLoop`, ...).  What is in
`Q[k]` is the loop's invariant, with a measure of at most `k`:

- `InsertInv`: one red node may be below a red parent, or be a red root; the measure is
  the number of nodes that are not at or below it.
- `EraseInv`: the subtree at `node` lacks a black node, or `node` is the root or red.
  `BlackSiblingSays`, `OuterNephewSays` and `BorrowSays` are the cases of
  `__rb_erase_color`; only the one that recolors goes on, one level up
  (`LighterSays`).
- `OnWay`: the search has not passed a tcb that compares equal, and where it ends is
  the place for the key, on the right side of every node above (`Place`).
- `LastIn`, `Walk`: the way up of `rb_next` and the walk of the status page.

A node with two children is the hard case of `rb_erase`: its successor is taken out of
its own place and put into that of the node, in one sequence of assignments that differs
when the successor is the node's child.  `MovedSays` shows that the outcome is that of a
`Cut` of the successor followed by a renaming, for both.

`Table` is the inductive invariant: such a tree of `tcbs` less `LikeListener` exists, with
the listener in it, and no two of them compare equal.  The last part is what `tcb_new`
relies on, which ignores the result of `tcb_insert`: `handle_tcp` has searched with the
same comparison and found the listener, so no tcb compares equal to the new one
(`FindSays`), unless the listener itself does.  Such a one is not linked, and its deletion
leads to `Lost`, where the theorems end.  `TcbTableAssumption` only says that addresses
and ports are natural numbers.  From `TreeInv` follows what `IsRedBlack` says of the
pointers alone (`AboveSays`, `BlacksSays`).

### The UDP relay

`Sockets` says that the sockets, read events and timers are those of the maps, one
each, and that the timers are in the order of use; `Owners` that a datagram on its
way belongs to the port its socket was opened for.

### Only model-checked

- Liveness (`Live`): fairness is beyond the prover.

## 5. Not modelled

- `util.c` (addresses, checksums, allocation) and the configuration file: no state
  that outlives a call, and `handle_packet` ignores the checksum it computes.
- Process set-up: options, opening and configuring devices, `daemon()`; the second
  SIGINT, which aborts.
- The layout of packets, HTML, logging and the debugging files of sessions.
- `rb_last`, `rb_prev` and `rb_replace_node`, which nothing calls, and
  `tap802ipd`, a program of its own.
- Fatal errors of the device (`exit (1)` after a failed read).

## 6. Plan

1. Done: ring buffer with proofs; TCP session and relay; event loop; neighbors and
   drivers; session table with its tree; UDP relay.
2. Done: the proofs of section 4.
