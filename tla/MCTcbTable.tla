----------------------------- MODULE MCTcbTable -----------------------------
EXTENDS TcbTable

Quad(h, l, c, r) == [laddr |-> h, lport |-> l, raddr |-> c, rport |-> r]

\* Two clients with two ports each to two ports of a host, a segment to port 0,
\* and the one that compares equal to the listener.
MCSegments ==
    [i \in 1..9 |-> IF i = 9 THEN Quad(1, 0, 0, 0)
                    ELSE IF i = 8 THEN Quad(1, 0, 1, 1)
                    ELSE Quad(1, IF i < 5 THEN 80 ELSE 443, 1 + (i % 2), 1 + ((i \div 2) % 2))]
MCNode == {Listener} \cup DOMAIN MCSegments

\* The same client and ports to two hosts.
MCTwoHosts == <<Quad(1, 80, 1, 1), Quad(2, 80, 1, 1), Quad(1, 80, 1, 2), Quad(2, 80, 2, 1)>>
MCTwoHostsNode == {Listener} \cup DOMAIN MCTwoHosts
=============================================================================
