CONSTANTS
    SeqMod = 64
    NULL = NULL
    Byte <- MCByte
    Mss = 2
    BufSize = 2
    DrainWnd = 1
    Irs = 4
    IssStep = 20
    ClientLen = 3
    ServerLen = 3
    ClientWnd = 1
    NetCap = 2
    MaxSyn = 1
    MaxFaults = 2
    Faults = {"lose_data"}
    Outcomes = {"in_progress", "eof", "client_fin"}
SPECIFICATION FairSpec
PROPERTIES BothStreamsArrive ClientIsAcked ServerStreamArrives SessionFreed
