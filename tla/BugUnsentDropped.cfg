CONSTANTS
    SeqMod = 64
    NULL = NULL
    Byte <- MCByte
    Mss = 2
    BufSize = 2
    DrainWnd = 1
    Irs = 4
    IssStep = 20
    ClientLen = 2
    ServerLen = 3
    ClientWnd = 2
    NetCap = 2
    MaxSyn = 1
    MaxFaults = 0
    Faults = {}
    Outcomes = {"client_fin"}
SPECIFICATION Spec
INVARIANT QueuedIsDelivered
