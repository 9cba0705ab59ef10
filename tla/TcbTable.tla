------------------------------ MODULE TcbTable ------------------------------
(***************************************************************************)
(* tcb.c: the red-black tree of tcbs, the lookup that gives a segment to   *)
(* its session, and the page http_status.c writes by walking the tree.     *)
(* What a session does with a segment is in TcpRelay; here it may stay or  *)
(* end.  Segments numbers the addresses and ports of the segments that may *)
(* come.  A number also stands for the tcb (or the needle) with these      *)
(* addresses and ports, and 0 for the tcb of tcp_listen(cb, NULL, 0).      *)
(*                                                                         *)
(* Nothing keeps a segment from :: port 0 to port 0 out, and its tcb would *)
(* compare equal to the listener.  tcb_insert refuses it and tcb_new goes  *)
(* on: the tcb is allocated and not in the tree, and when it is deleted    *)
(* rb_erase takes it for the only node and empties the root.               *)
(***************************************************************************)
EXTENDS RbTree, Integers

CONSTANT Segments

Listener == 0

\* 0 is port 0 and the address ::, which no one tests for.
ASSUME TcbTableAssumption ==
    /\ Segments \in Seq([laddr : Nat, lport : Nat, raddr : Nat, rport : Nat])
    /\ \A i, j \in DOMAIN Segments : Segments[i] = Segments[j] => i = j
    /\ Node = {Listener} \cup DOMAIN Segments /\ NULL \notin Node

Key(n) == IF n = Listener THEN [laddr |-> 0, lport |-> 0, raddr |-> 0, rport |-> 0]
          ELSE Segments[n]

VARIABLES
    tcblist,  \* the tree
    tcbs,     \* the allocated tcbs
    pages     \* the status pages written in the last step, one per connection

vars == <<tcblist, tcbs, pages>>

TypeOK ==
    /\ tcblist \in Tree
    /\ Listener \in tcbs /\ tcbs \subseteq Node
    /\ pages \in Seq([rows : Seq(Node), connection_count : Nat])

Sessions == tcbs \ {Listener}

\* The root was emptied.  The next segment finds no listener, and tcb_find calls
\* itself without end; nothing more is said about the daemon.
Lost == tcblist.root = NULL
-----------------------------------------------------------------------------
(* tcb.c *)

\* Mutant: the remote port takes no part in the comparison.
tcbcmp_no_rport(m, n) ==
    LET a == Key(m)
        b == Key(n)
    IN  IF a.lport # b.lport THEN b.lport - a.lport ELSE a.raddr - b.raddr

\* laddr takes no part, raddr is compared twice.
tcbcmp(m, n) ==
    LET a == Key(m)
        b == Key(n)
    IN  IF a.rport # b.rport THEN b.rport - a.rport
        ELSE IF a.lport # b.lport THEN b.lport - a.lport
        ELSE a.raddr - b.raddr

\* The way down to where k is or would be linked: [at, parent, side].
Descend(t, k) ==
    LET Step(w) ==
          IF w.at = NULL THEN w
          ELSE LET c == tcbcmp(k, w.at)
                   s == IF c < 0 THEN "rb_left" ELSE "rb_right"
               IN  IF c = 0 THEN w ELSE [at |-> t.kid[s][w.at], parent |-> w.at, side |-> s]
    IN  Loop(Step, [at |-> t.root, parent |-> NULL, side |-> "rb_left"])

\* Mutant: the arguments of the comparison are swapped.
tcb_find_rb_swapped(t, k) ==
    LET Step(n) == IF n = NULL \/ tcbcmp(n, k) = 0 THEN n
                   ELSE t.kid[IF tcbcmp(n, k) < 0 THEN "rb_left" ELSE "rb_right"][n]
    IN  Loop(Step, t.root)

tcb_find_rb(t, k) == Descend(t, k).at

\* A tcb that compares equal to a member stays out; tcb_new ignores that.
tcb_insert(t, k) ==
    LET w == Descend(t, k)
    IN  IF w.at # NULL THEN t
        ELSE rb_insert_color(rb_link_node(t, k, w.parent, w.side), k)

\* The tcb for a segment: its session, else the listener unless the port is 0.
\* (The last call recurses for ever without a listener: Lost.)
tcb_find(t, k) ==
    LET own == tcb_find_rb(t, k)
    IN  IF own # NULL THEN own
        ELSE IF Key(k).lport > 0 THEN tcb_find_rb(t, Listener)
        ELSE NULL

tcb_new(k) == tcblist' = tcb_insert(tcblist, k) /\ tcbs' = tcbs \cup {k}
tcb_delete(k) == tcblist' = rb_erase(tcblist, k) /\ tcbs' = tcbs \ {k}
-----------------------------------------------------------------------------
\* tcp_listen.
Init ==
    /\ tcblist = tcb_insert(RB_ROOT, Listener)
    /\ tcbs = {Listener}
    /\ pages = <<>>

\* No tcb, or the listener and no SYN.
tcp_fabricate_rst == UNCHANGED <<tcblist, tcbs>>

\* incoming_session may close the session at once: then the new tcb is deleted.
handle_tcp_syn(seg) ==
    \/ tcb_new(seg)
    \/ /\ tcblist' = rb_erase(tcb_insert(tcblist, seg), seg)
       /\ UNCHANGED tcbs

\* A reset, or the last acknowledgement, ends the session.
handle_tcp_session(t) ==
    \/ UNCHANGED <<tcblist, tcbs>>
    \/ tcb_delete(t)

handle_tcp ==
    /\ \E seg \in DOMAIN Segments :
         LET t == tcb_find(tcblist, seg)
         IN  \/ t \in {NULL, Listener} /\ tcp_fabricate_rst
             \/ t = Listener /\ handle_tcp_syn(seg)
             \/ t \notin {NULL, Listener} /\ handle_tcp_session(t)
    /\ pages' = <<>>

\* tcp_abort and tcp_remove.
SessionEnds ==
    /\ \E t \in Sessions : tcb_delete(t)
    /\ pages' = <<>>

\* The rows of a page: the walk over the tree.
Rows(t) ==
    LET Step(w) == IF w.tcb = NULL THEN w
                   ELSE [rows |-> Append(w.rows, w.tcb), tcb |-> rb_next(t, w.tcb)]
    IN  Loop(Step, [rows |-> <<>>, tcb |-> rb_first(t)]).rows

\* n connections are accepted.  The cursor is set before the first one and
\* neither it nor the count is reset: only the first page has rows.
write_status_report(n) ==
    /\ pages' = [i \in 1..n |-> [rows             |-> IF i = 1 THEN Rows(tcblist) ELSE <<>>,
                                 connection_count |-> Len(Rows(tcblist))]]
    /\ UNCHANGED <<tcblist, tcbs>>

Next ==
    \/ ~Lost /\ handle_tcp
    \/ ~Lost /\ SessionEnds
    \/ \E n \in 1..2 : ~Lost /\ write_status_report(n)
    \/ Lost /\ UNCHANGED vars

Spec == Init /\ [][Next]_vars
-----------------------------------------------------------------------------
(* Properties *)

\* The tcbs that tcb_insert refuses: those that compare equal to the listener.
LikeListener == {t \in Node \ {Listener} : tcbcmp(t, Listener) = 0}

\* However sessions come and go, rb_insert_color and rb_erase leave a red-black
\* tree: no pointer to a freed tcb stays, parents and children agree, and no path
\* is more than twice as long as another.  Every allocated tcb is in it, but one
\* that compares equal to the listener, and only the deletion of such a one
\* empties the tree.
RedBlack == ~Lost => IsRedBlack(tcblist) /\ Linked(tcblist) = tcbs \ LikeListener

\* Every session is the one that is found for its segments: tcb_new never meets
\* a session that compares equal, because handle_tcp has looked for it with the
\* same comparison, and no rotation moves a tcb off the path of the search.  The
\* exception is the tcb that compares equal to the listener.
SessionsFound ==
    ~Lost => \A t \in Sessions \ LikeListener : tcb_find(tcblist, t) = t

\* No session gets a segment of another client, or between other ports.
ClientsKeptApart ==
    \A seg \in DOMAIN Segments :
      LET t == tcb_find(tcblist, seg)
      IN  t \notin {NULL, Listener} =>
            /\ Key(t).raddr = Key(seg).raddr
            /\ Key(t).rport = Key(seg).rport
            /\ Key(t).lport = Key(seg).lport

\* Whatever the shape of the tree, the first page that is written has a row for
\* every tcb of the tree, once, in the order of tcbcmp, so that the listener is
\* the last one, and its total is the number of rows.
PageListsSessions ==
    pages # <<>> =>
      LET rows == pages[1].rows
          listed == tcbs \ LikeListener
      IN  /\ {rows[i] : i \in DOMAIN rows} = listed
          /\ \A i, j \in DOMAIN rows : i < j => tcbcmp(rows[i], rows[j]) < 0
          /\ rows[Len(rows)] = Listener
          /\ pages[1].connection_count = Cardinality(listed)

\* A session gets only segments for the host it relays to.
HostsKeptApart ==
    \A seg \in DOMAIN Segments :
      LET t == tcb_find(tcblist, seg)
      IN  t \notin {NULL, Listener} => Key(t).laddr = Key(seg).laddr
=============================================================================
