--------------------------- MODULE UdpRelay_proofs ---------------------------
(***************************************************************************)
(* Every map of the UDP relay has a socket, a read event and a timer of    *)
(* its own, answers reach the client port that asked, and the map that is  *)
(* removed is the one that was idle longest: for any number of clients,    *)
(* sockets and datagrams.                                                  *)
(***************************************************************************)
EXTENDS UdpRelay, FiniteSetTheorems, SequenceTheorems, TLAPS

\* Every variable keeps its type.
Types ==
    /\ up \in BOOLEAN
    /\ DOMAIN ulist \subseteq Asker /\ ulist \in [DOMAIN ulist -> Socket]
    /\ timers \in Seq(Asker)
    /\ waiting \in [Socket -> Seq(Datagram)]
    /\ asked \subseteq [to : Socket, dg : Datagram]

\* A list names every map exactly once.
Lists(seq) == IsInjective(seq) /\ Range(seq) = DOMAIN ulist

\* The sockets and their events are those of the maps; the timers are in the order
\* in which the maps were last used.
Sockets ==
    /\ IsInjective(ulist)
    /\ fds = Range(ulist) /\ reads = fds
    /\ timers = used /\ Lists(timers)
    /\ \A s \in Socket \ fds : waiting[s] = <<>>

\* A datagram whose map still exists, in or on its way to socket s, belongs to the
\* client port that s was opened for.
Owned(dg, s) == dg.gone \/ (dg.asker \in DOMAIN ulist /\ ulist[dg.asker] = s)

Owners ==
    /\ \A q \in asked : Owned(q.dg, q.to)
    /\ \A s \in Socket : \A i \in 1..Len(waiting[s]) : Owned(waiting[s][i], s)

Inv == Types /\ AnswersReachAsker /\ (up => Sockets /\ Owners)
-----------------------------------------------------------------------------
(* Lists. *)

\* An entry is taken out of a list that names it once.
LEMMA WithoutFacts ==
  ASSUME NEW S, NEW seq \in Seq(S), IsInjective(seq), NEW a \in S
  PROVE  /\ Without(seq, a) \in Seq(S) /\ IsInjective(Without(seq, a))
         /\ Range(Without(seq, a)) = Range(seq) \ {a}
<1> DEFINE i == CHOOSE j \in DOMAIN seq : seq[j] = a
           n == Len(seq) - 1
           r == [j \in 1..n |-> seq[IF j < i THEN j ELSE j + 1]]
<1>1. Len(seq) \in Nat /\ DOMAIN seq = 1..Len(seq) /\ \A j \in 1..Len(seq) : seq[j] \in S
  OBVIOUS
<1>2. CASE a \notin Range(seq)
  BY <1>2 DEF Without
<1>3. CASE a \in Range(seq)
  <2>1. i \in 1..Len(seq) /\ seq[i] = a
    BY <1>1, <1>3 DEF Range
  <2>2. Without(seq, a) = r
    BY <1>3 DEF Without
  <2> HIDE DEF i
  <2>3. n \in Nat /\ \A j \in 1..n : (IF j < i THEN j ELSE j + 1) \in 1..Len(seq)
    BY <1>1, <2>1
  <2>4. r \in [1..n -> S]
    BY <1>1, <2>3
  <2>5. r \in Seq(S) /\ DOMAIN r = 1..n
    BY <2>3, <2>4
  <2>6. \A j \in 1..n : r[j] = seq[IF j < i THEN j ELSE j + 1]
    OBVIOUS
  <2> HIDE DEF r, n
  <2>7. IsInjective(r)
    <3> SUFFICES ASSUME NEW j \in 1..n, NEW k \in 1..n, r[j] = r[k]
                 PROVE  j = k
      BY <2>5 DEF IsInjective
    <3>1. (IF j < i THEN j ELSE j + 1) = (IF k < i THEN k ELSE k + 1)
      BY <1>1, <2>3, <2>6 DEF IsInjective
    <3> QED BY <2>1, <2>3, <3>1
  <2>8. ASSUME NEW b \in Range(r) PROVE b \in Range(seq) \ {a}
    <3>1. PICK j \in 1..n : b = r[j]
      BY <2>5 DEF Range
    <3>2. (IF j < i THEN j ELSE j + 1) # i
      BY <2>1, <2>3
    <3> QED BY <1>1, <2>1, <2>3, <2>6, <3>1, <3>2 DEF IsInjective, Range
  <2>9. ASSUME NEW b \in Range(seq) \ {a} PROVE b \in Range(r)
    <3>1. PICK k \in 1..Len(seq) : b = seq[k]
      BY <1>1 DEF Range
    <3>2. k # i
      BY <2>1, <3>1
    <3> DEFINE j == IF k < i THEN k ELSE k - 1
    <3>3. j \in 1..n /\ (IF j < i THEN j ELSE j + 1) = k
      BY <1>1, <2>1, <3>2 DEF n
    <3> HIDE DEF j
    <3> QED BY <2>5, <2>6, <3>1, <3>3 DEF Range
  <2> QED BY <2>2, <2>5, <2>7, <2>8, <2>9
<1> QED BY <1>2, <1>3

\* A map that is used goes to the end of its list.
LEMMA LastFacts ==
  ASSUME NEW S, NEW seq \in Seq(S), IsInjective(seq), NEW a \in S
  PROVE  /\ Last(seq, a) \in Seq(S) /\ IsInjective(Last(seq, a))
         /\ Range(Last(seq, a)) = Range(seq) \cup {a}
<1> DEFINE r == Without(seq, a)
           n == Len(r)
<1>1. r \in Seq(S) /\ IsInjective(r) /\ Range(r) = Range(seq) \ {a}
  BY WithoutFacts
<1>2. Last(seq, a) = Append(r, a)
  BY DEF Last
<1> HIDE DEF r
<1>3. n \in Nat /\ DOMAIN r = 1..n
  BY <1>1
<1>4. /\ Append(r, a) \in Seq(S) /\ DOMAIN Append(r, a) = 1..(n + 1)
      /\ \A i \in 1..n : Append(r, a)[i] = r[i]
      /\ Append(r, a)[n + 1] = a
  BY <1>1
<1>5. IsInjective(Append(r, a))
  <2>1. \A i \in 1..n : r[i] # a
    BY <1>1, <1>3 DEF Range
  <2> QED BY <1>1, <1>3, <1>4, <2>1 DEF IsInjective
<1>6. Range(Append(r, a)) = Range(r) \cup {a}
  <2>1. \A i \in 1..(n + 1) : i \in 1..n \/ i = n + 1
    BY <1>3
  <2>2. \A i \in 1..n : i \in 1..(n + 1)
    BY <1>3
  <2>3. n + 1 \in 1..(n + 1)
    BY <1>3
  <2> QED BY <1>3, <1>4, <2>1, <2>2, <2>3 DEF Range
<1> QED BY <1>1, <1>2, <1>4, <1>5, <1>6

\* The first entry is taken out of a list that names every map once.
LEMMA TailFacts ==
  ASSUME NEW S, NEW seq \in Seq(S), IsInjective(seq), seq # <<>>
  PROVE  Tail(seq) = Without(seq, Head(seq))
<1> DEFINE i == CHOOSE j \in DOMAIN seq : seq[j] = Head(seq)
<1>1. Len(seq) \in Nat \ {0} /\ DOMAIN seq = 1..Len(seq) /\ Head(seq) = seq[1]
  OBVIOUS
<1>2. 1 \in DOMAIN seq
  BY <1>1
<1>3. i \in DOMAIN seq /\ seq[i] = Head(seq)
  BY <1>1, <1>2
<1> HIDE DEF i
<1>4. i = 1
  BY <1>1, <1>2, <1>3 DEF IsInjective
<1>5. Head(seq) \in Range(seq)
  BY <1>1, <1>2 DEF Range
<1>6. Without(seq, Head(seq)) = [j \in 1..(Len(seq) - 1) |-> seq[IF j < i THEN j ELSE j + 1]]
  BY <1>5 DEF Without, i
<1>7. \A j \in 1..(Len(seq) - 1) : ~(j < i)
  BY <1>1, <1>4
<1>8. [j \in 1..(Len(seq) - 1) |-> seq[IF j < i THEN j ELSE j + 1]]
        = [j \in 1..(Len(seq) - 1) |-> seq[j + 1]]
  BY <1>7
<1>9. Tail(seq) = [j \in 1..(Len(seq) - 1) |-> seq[j + 1]]
  <2>1. Tail(seq) \in Seq(S) /\ Len(Tail(seq)) = Len(seq) - 1
    OBVIOUS
  <2>2. \A j \in 1..(Len(seq) - 1) : Tail(seq)[j] = seq[j + 1]
    OBVIOUS
  <2>3. Tail(seq) = [j \in 1..Len(Tail(seq)) |-> Tail(seq)[j]]
    <3>1. Tail(seq) \in [1..Len(Tail(seq)) -> S]
      BY <2>1, LenProperties
    <3> QED BY <3>1
  <2> QED BY <2>1, <2>2, <2>3
<1> QED BY <1>6, <1>8, <1>9

\* A list that names the maps once is as long as there are maps.
LEMMA ListLength ==
  ASSUME NEW S, NEW seq \in Seq(S), IsInjective(seq)
  PROVE  Len(seq) = Cardinality(Range(seq))
<1>1. Len(seq) \in Nat /\ DOMAIN seq = 1..Len(seq)
  OBVIOUS
<1>2. seq \in Bijection(1..Len(seq), Range(seq))
  BY <1>1 DEF Bijection, Injection, Surjection, IsInjective, Range
<1>3. ExistsBijection(1..Len(seq), Range(seq))
  BY <1>2 DEF ExistsBijection
<1> QED BY <1>1, <1>3, FS_CountingElements
-----------------------------------------------------------------------------
(* The invariant. *)

\* The first map is made by the first datagram.
LEMMA InitInv == Init => Inv
<1> SUFFICES ASSUME Init PROVE Inv
  OBVIOUS
<1>1. DOMAIN ulist = {} /\ ulist \in [DOMAIN ulist -> Socket]
  BY DEF Init
<1>2. timers \in Seq(Asker) /\ waiting \in [Socket -> Seq(Datagram)] /\ DOMAIN timers = {}
  BY DEF Init
<1>3. Types
  BY <1>1, <1>2 DEF Init, Types
<1>4. Sockets
  BY <1>1, <1>2 DEF Init, Sockets, Lists, IsInjective, Range
<1>5. Owners
  BY DEF Init, Owners
<1> QED BY <1>3, <1>4, <1>5 DEF Inv, AnswersReachAsker, Init

\* A datagram goes out through an existing map or through a new one.
LEMMA DatagramInv ==
  ASSUME Inv, handle_udp
  PROVE  Inv'
<1>1. up /\ Types /\ AnswersReachAsker /\ Sockets /\ Owners
  BY DEF Inv, handle_udp
<1>2. PICK a \in Asker : incoming(a) \/ incoming_new(a) \/ incoming_exits(a)
  BY DEF handle_udp
<1>3. AnswersReachAsker' /\ waiting' = waiting
  BY <1>1 DEF AnswersReachAsker, handle_udp
<1>4. /\ DOMAIN ulist \subseteq Asker /\ ulist \in [DOMAIN ulist -> Socket]
      /\ timers \in Seq(Asker) /\ waiting \in [Socket -> Seq(Datagram)]
      /\ asked \subseteq [to : Socket, dg : Datagram] /\ IsInjective(timers)
      /\ used = timers /\ Range(timers) = DOMAIN ulist
  BY <1>1 DEF Types, Sockets, Lists
<1>5. CASE incoming(a)
  <2>1. a \in DOMAIN ulist /\ SendTo(a, a, ulist[a])
    BY <1>5 DEF incoming, Found
  <2>2. UNCHANGED <<up, ulist, fds, reads>>
    BY <1>5 DEF incoming
  <2>3. ulist[a] \in Socket
    BY <1>4, <2>1
  <2>4. /\ timers' \in Seq(Asker) /\ IsInjective(timers') /\ used' = timers'
        /\ Range(timers') = DOMAIN ulist
    <3>1. timers' = Last(timers, a) /\ used' = Last(timers, a)
      BY <1>4, <2>1 DEF SendTo
    <3>2. Range(Last(timers, a)) = DOMAIN ulist \cup {a}
      BY <1>4, LastFacts
    <3> QED BY <1>4, <2>1, <3>1, <3>2, LastFacts
  <2>5. asked' \subseteq [to : Socket, dg : Datagram]
    <3>1. [asker |-> a, gone |-> FALSE] \in Datagram
      BY DEF Datagram
    <3>2. [to |-> ulist[a], dg |-> [asker |-> a, gone |-> FALSE]] \in [to : Socket, dg : Datagram]
      BY <2>3, <3>1
    <3> QED BY <1>4, <2>1, <3>2 DEF SendTo
  <2>6. Types' /\ Sockets'
    BY <1>1, <1>3, <2>2, <2>4, <2>5 DEF Types, Sockets, Lists
  <2>7. Owners'
    BY <1>1, <1>3, <2>1, <2>2 DEF Owners, Owned, SendTo
  <2> QED BY <1>3, <2>6, <2>7 DEF Inv
<1>6. CASE incoming_new(a)
  <2>1. PICK s \in Socket \ fds :
          /\ fds' = fds \cup {s}
          /\ ulist' = [m \in DOMAIN ulist \cup {a} |-> IF m = a THEN s ELSE ulist[m]]
          /\ reads' = reads \cup {s}
          /\ SendTo(a, a, s)
    BY <1>6 DEF incoming_new
  <2>2. a \notin DOMAIN ulist /\ up' = up
    BY <1>6 DEF incoming_new, Found
  <2>3. /\ DOMAIN ulist' = DOMAIN ulist \cup {a} /\ ulist'[a] = s
        /\ \A m \in DOMAIN ulist : ulist'[m] = ulist[m]
        /\ ulist' \in [DOMAIN ulist \cup {a} -> Socket]
    BY <1>4, <2>1, <2>2
  <2>4. \A m \in DOMAIN ulist : ulist[m] # s
    BY <1>1, <2>1 DEF Sockets, Range
  <2>5. IsInjective(ulist') /\ Range(ulist') = fds'
    <3>1. IsInjective(ulist')
      BY <1>1, <2>3, <2>4 DEF Sockets, IsInjective
    <3>2. Range(ulist') = Range(ulist) \cup {s}
      BY <2>3 DEF Range
    <3> QED BY <1>1, <2>1, <3>1, <3>2 DEF Sockets
  <2>6. /\ timers' \in Seq(Asker) /\ IsInjective(timers') /\ used' = timers'
        /\ Range(timers') = DOMAIN ulist'
    BY <1>4, <2>1, <2>3, LastFacts DEF SendTo
  <2>7. asked' \subseteq [to : Socket, dg : Datagram]
    <3>1. [asker |-> a, gone |-> FALSE] \in Datagram
      BY DEF Datagram
    <3>2. [to |-> s, dg |-> [asker |-> a, gone |-> FALSE]] \in [to : Socket, dg : Datagram]
      BY <2>1, <3>1
    <3> QED BY <1>4, <2>1, <3>2 DEF SendTo
  <2>8. Types' /\ Sockets'
    <3>1. Types'
      BY <1>1, <1>3, <2>2, <2>3, <2>6, <2>7 DEF Types
    <3>2. \A t \in Socket \ fds' : waiting'[t] = <<>>
      BY <1>1, <1>3, <2>1 DEF Sockets
    <3> QED BY <1>1, <2>1, <2>5, <2>6, <3>1, <3>2 DEF Sockets, Lists
  <2>9. Owners'
    <3>1. \A dg, t : Owned(dg, t) => Owned(dg, t)'
      BY <2>3 DEF Owned
    <3>2. \A q \in asked' : Owned(q.dg, q.to)'
      BY <1>1, <2>1, <2>3, <3>1 DEF Owners, Owned, SendTo
    <3> QED BY <1>1, <1>3, <3>1, <3>2 DEF Owners
  <2> QED BY <1>3, <2>8, <2>9 DEF Inv
<1>7. CASE incoming_exits(a)
  BY <1>1, <1>3, <1>7 DEF incoming_exits, Inv, Types, events
<1> QED BY <1>2, <1>5, <1>6, <1>7

\* A host's answer waits in the socket that asked, or is lost.
LEMMA AnswerInv ==
  ASSUME Inv, HostAnswers
  PROVE  Inv'
<1>1. up /\ Types /\ AnswersReachAsker /\ Sockets /\ Owners
  BY DEF Inv, HostAnswers
<1>2. UNCHANGED <<up, udp_list, ulist, fds, reads, timers, answer, used>>
  BY DEF HostAnswers, events
<1>3. PICK q \in asked :
         /\ asked' = asked \ {q}
         /\ \/ /\ q.to \in fds
               /\ waiting' = [waiting EXCEPT ![q.to] = Append(@, q.dg)]
            \/ UNCHANGED waiting
  BY DEF HostAnswers
<1>4. /\ waiting \in [Socket -> Seq(Datagram)] /\ q \in [to : Socket, dg : Datagram]
      /\ Owned(q.dg, q.to)
  BY <1>1 DEF Types, Owners
<1>5. \A dg, t : Owned(dg, t) <=> Owned(dg, t)'
  BY <1>2 DEF Owned
<1>6. AnswersReachAsker'
  BY <1>1, <1>2 DEF AnswersReachAsker
<1>7. CASE UNCHANGED waiting
  BY <1>1, <1>2, <1>3, <1>5, <1>6, <1>7 DEF Inv, Types, Sockets, Lists, Owners
<1>8. CASE q.to \in fds /\ waiting' = [waiting EXCEPT ![q.to] = Append(@, q.dg)]
  <2> DEFINE s == q.to
             new == Append(waiting[s], q.dg)
  <2>1. s \in Socket /\ q.dg \in Datagram /\ waiting[s] \in Seq(Datagram)
    BY <1>4
  <2>2. /\ new \in Seq(Datagram) /\ Len(new) = Len(waiting[s]) + 1
        /\ \A i \in 1..Len(waiting[s]) : new[i] = waiting[s][i]
        /\ new[Len(waiting[s]) + 1] = q.dg
    BY <2>1
  <2>3. /\ waiting' \in [Socket -> Seq(Datagram)] /\ waiting'[s] = new
        /\ \A t \in Socket \ {s} : waiting'[t] = waiting[t]
    BY <1>4, <1>8, <2>1, <2>2
  <2>4. \A i \in 1..Len(new) : Owned(new[i], s)
    <3>1. \A i \in 1..Len(waiting[s]) : Owned(waiting[s][i], s)
      BY <1>1, <2>1 DEF Owners
    <3>2. Len(waiting[s]) \in Nat
      BY <2>1
    <3> HIDE DEF new
    <3> QED BY <1>4, <2>2, <3>1, <3>2
  <2> HIDE DEF new
  <2>5. Types'
    BY <1>1, <1>2, <1>3, <2>3 DEF Types
  <2>6. Sockets'
    BY <1>1, <1>2, <1>8, <2>3 DEF Sockets, Lists
  <2>7. Owners'
    <3>1. \A t \in Socket : \A i \in 1..Len(waiting'[t]) : Owned(waiting'[t][i], t)
      BY <1>1, <2>3, <2>4 DEF Owners
    <3>2. \A r \in asked' : Owned(r.dg, r.to)
      BY <1>1, <1>3 DEF Owners
    <3> QED BY <1>5, <3>1, <3>2 DEF Owners
  <2> QED BY <1>6, <2>5, <2>6, <2>7 DEF Inv
<1> QED BY <1>3, <1>7, <1>8

\* An answer is relayed to the owner of the socket it came through.
LEMMA ReadInv ==
  ASSUME Inv, NEW m \in DOMAIN ulist, handle_udp_read(m)
  PROVE  Inv'
<1> DEFINE s == ulist[m]
<1>1. up /\ Types /\ Sockets /\ Owners
  BY DEF Inv, handle_udp_read
<1>2. /\ UNCHANGED <<up, udp_list, ulist, fds, reads, asked>> /\ waiting[s] # <<>>
      /\ waiting' = [waiting EXCEPT ![s] = Tail(@)]
      /\ used' = Last(used, m) /\ timers' = Last(timers, m)
  BY DEF handle_udp_read, Returned
<1>3. PICK pfx \in Prefix : answer' = [dg |-> Head(waiting[s]), from |-> pfx, to |-> m]
  BY DEF handle_udp_read
<1>4. /\ m \in Asker /\ s \in Socket /\ waiting \in [Socket -> Seq(Datagram)]
      /\ timers \in Seq(Asker) /\ IsInjective(timers) /\ used = timers
      /\ Range(timers) = DOMAIN ulist
  BY <1>1 DEF Types, Sockets, Lists
<1>5. /\ waiting[s] \in Seq(Datagram) /\ Len(waiting[s]) \in Nat \ {0}
      /\ Head(waiting[s]) = waiting[s][1] /\ Tail(waiting[s]) \in Seq(Datagram)
      /\ Len(Tail(waiting[s])) = Len(waiting[s]) - 1
      /\ \A i \in 1..(Len(waiting[s]) - 1) : Tail(waiting[s])[i] = waiting[s][i + 1]
  BY <1>2, <1>4
<1>6. /\ waiting' \in [Socket -> Seq(Datagram)] /\ waiting'[s] = Tail(waiting[s])
      /\ \A t \in Socket \ {s} : waiting'[t] = waiting[t]
  BY <1>2, <1>4, <1>5
<1>7. \A i \in 1..Len(waiting[s]) : Owned(waiting[s][i], s)
  BY <1>1, <1>4 DEF Owners
<1>8. AnswersReachAsker'
  <2>1. Owned(Head(waiting[s]), s)
    BY <1>5, <1>7
  <2>2. Head(waiting[s]).gone \/ Head(waiting[s]).asker = m
    BY <1>1, <2>1 DEF Owned, Sockets, IsInjective
  <2>3. answer'.dg = Head(waiting[s]) /\ answer'.to = m
    BY <1>3
  <2> QED BY <2>2, <2>3 DEF AnswersReachAsker
<1>9. /\ timers' \in Seq(Asker) /\ IsInjective(timers') /\ used' = timers'
      /\ Range(timers') = DOMAIN ulist
  <2>1. Range(Last(timers, m)) = DOMAIN ulist \cup {m}
    BY <1>4, LastFacts
  <2>2. Range(Last(timers, m)) = DOMAIN ulist
    BY <2>1
  <2> QED BY <1>2, <1>4, <2>2, LastFacts
<1>10. Types'
  BY <1>1, <1>2, <1>6, <1>9 DEF Types
<1>11. Sockets'
  <2>1. s \in fds
    BY <1>1 DEF Sockets, Range
  <2> QED BY <1>1, <1>2, <1>6, <1>9, <2>1 DEF Sockets, Lists
<1>12. Owners'
  <2>1. \A dg, t : Owned(dg, t) <=> Owned(dg, t)'
    BY <1>2 DEF Owned
  <2>2. \A i \in 1..Len(Tail(waiting[s])) : Owned(Tail(waiting[s])[i], s)
    BY <1>5, <1>7
  <2>3. \A t \in Socket : \A i \in 1..Len(waiting'[t]) : Owned(waiting'[t][i], t)
    BY <1>1, <1>6, <2>2 DEF Owners
  <2> QED BY <1>1, <1>2, <2>1, <2>3 DEF Owners
<1> QED BY <1>8, <1>10, <1>11, <1>12 DEF Inv

\* A stale map is removed with its socket and its events; what is on its way to
\* the socket is marked.
LEMMA RemoveInv ==
  ASSUME Inv, remove_udp_map
  PROVE  Inv' /\ DOMAIN ulist \ DOMAIN ulist' = {Head(used)}
<1> DEFINE m == Head(timers)
           s == ulist[m]
<1>1. up /\ Types /\ AnswersReachAsker /\ Sockets /\ Owners /\ timers # <<>>
  BY DEF Inv, remove_udp_map
<1>2. /\ timers \in Seq(Asker) /\ IsInjective(timers) /\ used = timers
      /\ Range(timers) = DOMAIN ulist /\ waiting \in [Socket -> Seq(Datagram)]
      /\ DOMAIN ulist \subseteq Asker /\ ulist \in [DOMAIN ulist -> Socket]
      /\ asked \subseteq [to : Socket, dg : Datagram]
  BY <1>1 DEF Types, Sockets, Lists
<1>3. /\ ulist' = Restrict(ulist, DOMAIN ulist \ {m}) /\ reads' = reads \ {s}
      /\ fds' = fds \ {s} /\ waiting' = [waiting EXCEPT ![s] = <<>>]
      /\ asked' = {IF q.to = s THEN [q EXCEPT !.dg.gone = TRUE] ELSE q : q \in asked}
      /\ timers' = Tail(timers) /\ used' = Without(used, m) /\ up' = up /\ answer' = answer
  BY DEF remove_udp_map, Closed
<1>4. m \in DOMAIN ulist
  <2>1. m = timers[1] /\ 1 \in DOMAIN timers
    BY <1>1, <1>2
  <2> QED BY <1>2, <2>1 DEF Range
<1>5. s \in Socket /\ m \in Asker
  BY <1>2, <1>4
<1>6. /\ timers' = Without(timers, m) /\ timers' \in Seq(Asker) /\ IsInjective(timers')
      /\ used' = timers' /\ Range(timers') = DOMAIN ulist \ {m}
  <2>1. Tail(timers) = Without(timers, m)
    BY <1>1, <1>2, TailFacts
  <2> HIDE DEF m
  <2>2. /\ Without(timers, m) \in Seq(Asker) /\ IsInjective(Without(timers, m))
        /\ Range(Without(timers, m)) = DOMAIN ulist \ {m}
    BY <1>2, <1>5, WithoutFacts
  <2> QED BY <1>2, <1>3, <2>1, <2>2
<1> HIDE DEF m
<1>7. /\ DOMAIN ulist' = DOMAIN ulist \ {m}
      /\ \A k \in DOMAIN ulist \ {m} : ulist'[k] = ulist[k]
      /\ ulist' \in [DOMAIN ulist \ {m} -> Socket]
  BY <1>2, <1>3 DEF Restrict
<1>8. \A k \in DOMAIN ulist \ {m} : ulist[k] # s
  BY <1>1, <1>4 DEF Sockets, IsInjective
<1>9. IsInjective(ulist') /\ Range(ulist') = fds'
  <2>1. IsInjective(ulist')
    BY <1>1, <1>7 DEF Sockets, IsInjective
  <2>2. Range(ulist') = Range(ulist) \ {s}
    BY <1>4, <1>7, <1>8 DEF Range
  <2> QED BY <1>1, <1>3, <2>1, <2>2 DEF Sockets
<1>10. /\ waiting' \in [Socket -> Seq(Datagram)] /\ waiting'[s] = <<>>
       /\ \A t \in Socket \ {s} : waiting'[t] = waiting[t]
  BY <1>2, <1>3, <1>5
<1>11. asked' \subseteq [to : Socket, dg : Datagram]
  <2> SUFFICES ASSUME NEW q \in asked
               PROVE  [q EXCEPT !.dg.gone = TRUE] \in [to : Socket, dg : Datagram]
    BY <1>2, <1>3
  <2>1. q.dg \in Datagram /\ q \in [to : Socket, dg : Datagram]
    BY <1>2
  <2>2. [q.dg EXCEPT !.gone = TRUE] \in Datagram
    BY <2>1 DEF Datagram
  <2> QED BY <2>1, <2>2
<1>12. Types'
  BY <1>1, <1>3, <1>6, <1>7, <1>10, <1>11, <1>2 DEF Types
<1>13. Sockets'
  <2>1. \A t \in Socket \ fds' : waiting'[t] = <<>>
    BY <1>1, <1>3, <1>10 DEF Sockets
  <2> QED BY <1>1, <1>3, <1>6, <1>7, <1>9, <2>1 DEF Sockets, Lists
<1>14. Owners'
  <2>1. \A dg, t : t # s /\ Owned(dg, t) => Owned(dg, t)'
    BY <1>7, <1>8 DEF Owned
  <2>2. \A t \in Socket : \A i \in 1..Len(waiting'[t]) : Owned(waiting[t][i], t)'
    <3> SUFFICES ASSUME NEW t \in Socket, NEW i \in 1..Len(waiting'[t])
                 PROVE  Owned(waiting[t][i], t)'
      OBVIOUS
    <3>1. t # s
      BY <1>10
    <3>2. waiting'[t] = waiting[t] /\ Owned(waiting[t][i], t)
      BY <1>1, <1>10, <3>1 DEF Owners
    <3> QED BY <1>7, <1>8, <3>1, <3>2 DEF Owned
  <2>3. ASSUME NEW r \in asked' PROVE Owned(r.dg, r.to)'
    <3>1. PICK q \in asked : r = IF q.to = s THEN [q EXCEPT !.dg.gone = TRUE] ELSE q
      BY <1>3
    <3>2. q \in [to : Socket, dg : Datagram] /\ Owned(q.dg, q.to)
      BY <1>1, <1>2 DEF Owners
    <3>3. CASE q.to = s
      <4>1. r.dg.gone = TRUE
        BY <3>1, <3>2, <3>3 DEF Datagram
      <4> QED BY <4>1 DEF Owned
    <3>4. CASE q.to # s
      BY <2>1, <3>1, <3>2, <3>4
    <3> QED BY <3>3, <3>4
  <2> QED BY <2>2, <2>3 DEF Owners
<1>15. AnswersReachAsker'
  BY <1>1, <1>3 DEF AnswersReachAsker
<1> QED BY <1>2, <1>4, <1>7, <1>12, <1>13, <1>14, <1>15 DEF Inv, m

\* Only remove_udp_map removes a map.
LEMMA MapsStay ==
  ASSUME Inv, [Next]_vars, ~remove_udp_map
  PROVE  DOMAIN ulist \subseteq DOMAIN ulist'
<1>1. CASE handle_udp
  <2>1. PICK a \in Asker : incoming(a) \/ incoming_new(a) \/ incoming_exits(a)
    BY <1>1 DEF handle_udp
  <2>2. ulist' = ulist
          \/ \E s : ulist' = [m \in DOMAIN ulist \cup {a} |-> IF m = a THEN s ELSE ulist[m]]
    BY <2>1 DEF incoming, incoming_new, incoming_exits
  <2> QED BY <2>2
<1>2. CASE ~handle_udp
  <2>1. ulist' = ulist
    BY <1>2 DEF Next, HostAnswers, handle_udp_read, handle_udp_read_exits, ptrtd_udp_finish, Exited, vars
  <2> QED BY <2>1
<1> QED BY <1>1, <1>2

\* Every step keeps the invariant.
LEMMA NextInv ==
  ASSUME Inv, [Next]_vars
  PROVE  Inv'
<1>1. CASE handle_udp
  BY <1>1, DatagramInv
<1>2. CASE HostAnswers
  BY <1>2, AnswerInv
<1>3. CASE \E m \in DOMAIN ulist : handle_udp_read(m)
  BY <1>3, ReadInv
<1>4. CASE remove_udp_map
  BY <1>4, RemoveInv
<1>5. CASE ptrtd_udp_finish
  <2>1. timers' \in Seq(Asker)
    BY <1>5 DEF ptrtd_udp_finish
  <2> QED BY <1>5, <2>1 DEF ptrtd_udp_finish, Inv, Types, AnswersReachAsker
<1>6. CASE Exited \/ UNCHANGED vars
  BY <1>6 DEF Exited, vars, events, Inv, Types, AnswersReachAsker, Sockets, Lists, Owners, Owned
<1>7. CASE \E m \in DOMAIN ulist : handle_udp_read_exits(m)
  BY <1>7 DEF handle_udp_read_exits, events, Inv, Types, AnswersReachAsker
<1> QED BY <1>1, <1>2, <1>3, <1>4, <1>5, <1>6, <1>7 DEF Next

\* The invariant implies the properties of the run.
LEMMA InvImplies == Inv => MapsMatchEvents /\ AnswersReachAsker
<1> SUFFICES ASSUME Inv, up PROVE MapsMatchEvents
  BY DEF Inv, MapsMatchEvents
<1>1. Sockets /\ timers \in Seq(Asker)
  BY DEF Inv, Types
<1>2. Len(timers) = Cardinality(DOMAIN ulist)
  BY <1>1, ListLength DEF Sockets, Lists
<1> QED BY <1>1, <1>2 DEF MapsMatchEvents, Sockets, Lists
-----------------------------------------------------------------------------
\* While the daemon runs no socket, read event or timer outlives its map, and none
\* is missing: remove_udp_map, udp_get_map and the timer that every datagram sets
\* again agree, however many clients there are.
THEOREM MapsMatchEventsAlways == Spec => []MapsMatchEvents
<1>1. Init => Inv
  BY InitInv
<1>2. Inv /\ [Next]_vars => Inv'
  BY NextInv
<1>3. Inv => MapsMatchEvents
  BY InvImplies
<1> QED BY <1>1, <1>2, <1>3, PTL DEF Spec

\* handle_udp_read sends an answer to the client port that asked, unless the map
\* the question left through was removed meanwhile.
THEOREM AnswersReachAskerAlways == Spec => []AnswersReachAsker
<1>1. Init => Inv
  BY InitInv
<1>2. Inv /\ [Next]_vars => Inv'
  BY NextInv
<1>3. Inv => AnswersReachAsker
  BY InvImplies
<1> QED BY <1>1, <1>2, <1>3, PTL DEF Spec

\* remove_udp_map removes the map that has been idle for longer than every other
\* one.
THEOREM IdleLongestFirstAlways == Spec => IdleLongestFirst
<1>1. Init => Inv
  BY InitInv
<1>2. Inv /\ [Next]_vars => Inv'
  BY NextInv
<1>3. Inv /\ [Next]_vars => [\A m \in DOMAIN ulist \ DOMAIN ulist' : m = Head(used)]_vars
  <2> SUFFICES ASSUME Inv, [Next]_vars
               PROVE  \A m \in DOMAIN ulist \ DOMAIN ulist' : m = Head(used)
    OBVIOUS
  <2>1. CASE remove_udp_map
    BY <2>1, RemoveInv
  <2>2. CASE ~remove_udp_map
    BY <2>2, MapsStay
  <2> QED BY <2>1, <2>2
<1> QED BY <1>1, <1>2, <1>3, PTL DEF Spec, IdleLongestFirst
=============================================================================
