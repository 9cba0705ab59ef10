----------------------------- MODULE MCUdpRelay -----------------------------
EXTENDS UdpRelay, TLC

\* Two ports of one client and a port of another.
MCAsker == [raddr : {"c"}, rport : {1, 2}] \cup {[raddr |-> "d", rport |-> 1]}

MCSymmetry == Permutations(Socket)
=============================================================================
