----------------------------- MODULE MCTcpRelay -----------------------------
EXTENDS TcpRelay
MCByte == 1..3
=============================================================================
