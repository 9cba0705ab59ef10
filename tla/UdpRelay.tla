------------------------------ MODULE UdpRelay ------------------------------
(***************************************************************************)
(* udp.c and ptrtd-udp.c: every client port that sends datagrams gets a    *)
(* map with a socket of its own, which lives until no datagram has passed  *)
(* through it for ten minutes.                                             *)
(*                                                                         *)
(* A socket stands for its port, which another socket may get once it is   *)
(* closed.  A datagram carries the client port that asked, and whether the *)
(* map it left through has been removed since.  An answer leaves through   *)
(* send_pkt, see Stack.                                                    *)
(***************************************************************************)
EXTENDS Naturals, Sequences, FiniteSets, Functions

CONSTANTS
    Asker,      \* addresses and ports of clients
    Socket,     \* the sockets a process may have open
    RcvBuf,     \* datagrams a socket's receive buffer holds
    MaxAsked,   \* bound: datagrams that may still be answered
    NULL

ASSUME UdpAssumption ==
    /\ \A a \in Asker : a \in [raddr : {a.raddr}, rport : {a.rport}]
    /\ RcvBuf \in Nat \ {0} /\ MaxAsked \in Nat \ {0}

VARIABLES
    up,         \* the daemon runs
    udp_list,   \* the udp_sockets that are open
    ulist,      \* the socket (fd) of each map, by the client's raddr and rport
    fds,        \* sockets that are open
    reads,      \* sockets with a read event (e_fd_read)
    timers,     \* the maps by when their timers (e_stale) are due
    waiting,    \* datagrams in the receive buffers
    asked,      \* datagrams the IPv4 hosts got and may answer
    answer,     \* the last datagram that was relayed back
    used        \* history: the maps by when they last carried a datagram

events == <<reads, timers>>
vars == <<up, udp_list, ulist, fds, events, waiting, asked, answer, used>>

Datagram == [asker : Asker, gone : BOOLEAN]

Init ==
    /\ up = TRUE
    /\ udp_list = {"udp_listener"}
    /\ ulist = << >> /\ fds = {} /\ reads = {} /\ timers = <<>>
    /\ waiting = [s \in Socket |-> <<>>]
    /\ asked = {} /\ answer = NULL /\ used = <<>>

\* A list without its entry a.
Without(seq, a) ==
    LET i == CHOOSE j \in DOMAIN seq : seq[j] = a
    IN  IF a \in Range(seq)
          THEN [j \in 1..(Len(seq) - 1) |-> seq[IF j < i THEN j ELSE j + 1]]
          ELSE seq

\* All timers are set for the same 600 seconds, so that the one that is set last
\* is due last.
Last(seq, a) == Append(Without(seq, a), a)
-----------------------------------------------------------------------------
(* handle_udp: a datagram from client port a. *)

\* Mutant: the client's port takes no part in the search.
Found_by_raddr(a) == {m \in DOMAIN ulist : m.raddr = a.raddr}

\* The search of udp_get_map.
Found(a) == {m \in DOMAIN ulist : m = a}

\* The end of incoming: the datagram leaves through socket s of map m.
SendTo(a, m, s) ==
    /\ asked' = asked \cup {[to |-> s, dg |-> [asker |-> a, gone |-> FALSE]]}
    /\ timers' = Last(timers, m)
    /\ used' = Last(used, m)

\* Its map exists.
incoming(a) ==
    /\ \E m \in Found(a) : SendTo(a, m, ulist[m])
    /\ UNCHANGED <<up, ulist, fds, reads>>

\* udp_get_map makes a map with a new socket.
incoming_new(a) ==
    /\ Found(a) = {}
    /\ \E s \in Socket \ fds :
         /\ fds' = fds \cup {s}
         /\ ulist' = [m \in DOMAIN ulist \cup {a} |-> IF m = a THEN s ELSE ulist[m]]
         /\ reads' = reads \cup {s}
         /\ SendTo(a, a, s)
    /\ UNCHANGED up

\* There is no descriptor left for the socket: the daemon exits.
incoming_exits(a) ==
    /\ Found(a) = {} /\ Socket \ fds = {}
    /\ up' = FALSE
    /\ UNCHANGED <<ulist, fds, events, asked, used>>

\* The lookup takes the first udp_socket, whatever the destination.
handle_udp ==
    /\ up /\ udp_list # {} /\ Cardinality(asked) < MaxAsked
    /\ \E a \in Asker : incoming(a) \/ incoming_new(a) \/ incoming_exits(a)
    /\ UNCHANGED <<udp_list, waiting, answer>>
-----------------------------------------------------------------------------
(* Answers. *)

\* An IPv4 host answers.  The network may lose the answer, and the kernel drops it
\* when the port is closed or the receive buffer has no room.
HostAnswers ==
    /\ \E q \in asked :
         /\ asked' = asked \ {q}
         /\ \/ /\ q.to \in fds /\ Len(waiting[q.to]) < RcvBuf
               /\ waiting' = [waiting EXCEPT ![q.to] = Append(@, q.dg)]
            \/ UNCHANGED waiting
    /\ up
    /\ UNCHANGED <<up, udp_list, ulist, fds, events, answer, used>>

\* The first 12 bytes of the address an answer comes from are memory that was
\* never written: the prefix, by chance, or not.
Prefix == {"prefix", "garbage"}

\* Mutant: the answer does not set the timer again.
Returned_timer_runs(m) == used' = Last(used, m) /\ UNCHANGED timers

\* The end of handle_udp_read.
Returned(m) == used' = Last(used, m) /\ timers' = Last(timers, m)

\* The read event of map m.
handle_udp_read(m) ==
    LET s == ulist[m]
    IN  /\ up /\ s \in reads /\ waiting[s] # <<>>
        /\ \E pfx \in Prefix :
             answer' = [dg |-> Head(waiting[s]), from |-> pfx, to |-> m]
        /\ waiting' = [waiting EXCEPT ![s] = Tail(@)]
        /\ Returned(m)
        /\ UNCHANGED <<up, udp_list, ulist, fds, reads, asked>>

\* recvfrom fails, with whatever is pending on the socket: the daemon exits.
handle_udp_read_exits(m) ==
    /\ up /\ ulist[m] \in reads
    /\ up' = FALSE
    /\ UNCHANGED <<udp_list, ulist, fds, events, waiting, asked, answer, used>>
-----------------------------------------------------------------------------
\* Mutant: the socket is not closed.
Closed_leaks(s) == fds' = fds /\ UNCHANGED <<waiting, asked>>

\* What waits in the socket is lost; an answer that comes later may meet another
\* socket with the same port.
Closed(s) ==
    /\ fds' = fds \ {s}
    /\ waiting' = [waiting EXCEPT ![s] = <<>>]
    /\ asked' = {IF q.to = s THEN [q EXCEPT !.dg.gone = TRUE] ELSE q : q \in asked}

\* The callback of the first timer; event_loop then removes its event.  It may
\* run before it is due, when there are always events and nothing is ready.
remove_udp_map ==
    /\ up /\ timers # <<>>
    /\ LET m == Head(timers)
       IN  /\ ulist' = Restrict(ulist, DOMAIN ulist \ {m})
           /\ reads' = reads \ {ulist[m]}
           /\ Closed(ulist[m])
           /\ timers' = Tail(timers)
           /\ used' = Without(used, m)
    /\ UNCHANGED <<up, udp_list, answer>>

\* SIGINT ended event_loop, and main closes the listener and returns.
ptrtd_udp_finish ==
    /\ up
    /\ up' = FALSE /\ udp_list' = udp_list \ {"udp_listener"}
    /\ reads' = {} /\ timers' = <<>>
    /\ UNCHANGED <<ulist, fds, waiting, asked, answer, used>>

Exited == ~up /\ UNCHANGED vars

Next ==
    \/ handle_udp
    \/ HostAnswers
    \/ \E m \in DOMAIN ulist : handle_udp_read(m) \/ handle_udp_read_exits(m)
    \/ remove_udp_map
    \/ ptrtd_udp_finish
    \/ Exited

Spec == Init /\ [][Next]_vars
-----------------------------------------------------------------------------
(* Properties *)

\* While the daemon runs, every map has a socket, a read event and a timer of its
\* own, and none of the three outlives its map: no callback gets a map that was
\* freed, and long uptime does not use up the descriptors.
MapsMatchEvents ==
    up => /\ IsInjective(ulist)
          /\ fds = Range(ulist) /\ reads = fds
          /\ Len(timers) = Cardinality(DOMAIN ulist) /\ Range(timers) = DOMAIN ulist
          /\ \A s \in Socket \ fds : waiting[s] = <<>>

\* An answer goes to the client port that asked, whatever maps come and go in
\* between.  The exception is an answer to a map that was removed meanwhile, when
\* a new map has got its port.
AnswersReachAsker ==
    answer # NULL => answer.dg.gone \/ answer.to = answer.dg.asker

\* The map that is removed has been idle for longer than every other one: traffic
\* in either direction keeps a map.
IdleLongestFirst ==
    [][\A m \in DOMAIN ulist \ DOMAIN ulist' : m = Head(used)]_vars
=============================================================================
