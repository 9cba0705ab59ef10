CONSTANTS
    SeqMod = 64
    NULL = NULL
    Byte <- MCByte
    Mss = 1
    BufSize = 2
    DrainWnd = 1
    Irs = 4
    IssStep = 20
    ClientLen = 0
    ServerLen = 3
    ClientWnd = 2
    NetCap = 2
    MaxSyn = 1
    MaxFaults = 2
    Faults = {"lose_out", "lose_ack", "dup_in", "rexmit"}
    Outcomes = {"eof", "client_fin"}
SPECIFICATION Spec
INVARIANTS ClientGetsPrefix UnackedIsKept UnackedIsTimed OutputScheduled NoSleepOnOutput
