------------------------------ MODULE Session -------------------------------
(***************************************************************************)
(* What the daemon promises about the life of one relayed session: the     *)
(* IPv6 side follows the TCP state diagram (without CLOSE_WAIT, because    *)
(* there are no half-open sessions), the IPv4 socket exists exactly while  *)
(* the session is being set up or established, and the client's connection *)
(* is established only after the IPv4 connection is.                       *)
(***************************************************************************)
VARIABLES st,        \* "CLOSED" or the state of the tcb
          sock       \* the IPv4 socket: "none", "connecting", "connected"

vars == <<st, sock>>

Init == st = "CLOSED" /\ sock = "none"

Open ==
    /\ st = "CLOSED" /\ st' = "SYN_RECVD"
    /\ sock' \in {"connecting", "connected"}

Connected ==
    /\ sock = "connecting" /\ sock' = "connected"
    /\ UNCHANGED st

\* The client's acknowledgement; its first segment may carry a FIN already.
Establish ==
    /\ st = "SYN_RECVD" /\ sock = "connected"
    /\ \/ st' = "ESTABLISHED" /\ UNCHANGED sock
       \/ st' = "LAST_ACK" /\ sock' = "none"

\* The IPv4 side ends (FIN_WAIT_1), or the client's FIN arrives (LAST_ACK).
Close ==
    /\ st = "ESTABLISHED" /\ st' \in {"FIN_WAIT_1", "LAST_ACK"}
    /\ sock' = "none"

\* The daemon's FIN is acknowledged, the client's FIN arrives, or both at once.
Finish ==
    /\ \/ st = "FIN_WAIT_1" /\ st' \in {"FIN_WAIT_2", "CLOSING", "TIME_WAIT"}
       \/ st \in {"FIN_WAIT_2", "CLOSING"} /\ st' = "TIME_WAIT"
    /\ UNCHANGED sock

\* Connection refused, reset by the client, last acknowledgement, or timeout.
Gone == st # "CLOSED" /\ st' = "CLOSED" /\ sock' = "none"

Next == Open \/ Connected \/ Establish \/ Close \/ Finish \/ Gone

Spec == Init /\ [][Next]_vars
=============================================================================
