CONSTANTS
    SeqMod = 64
    NULL = NULL
    Byte <- MCByte
    Mss = 1
    BufSize = 1
    DrainWnd = 1
    Irs = 4
    IssStep = 16
    ClientLen = 1
    ServerLen = 2
    ClientWnd = 1
    NetCap = 2
    MaxSyn = 2
    MaxFaults = 1
    Faults = {"lose_out", "lose_in", "dup_in", "rexmit", "abort"}
    Outcomes = {"refused", "in_progress", "eof", "client_fin", "write_again", "read_again", "error"}
SPECIFICATION Spec
INVARIANTS TypeOK MapMatchesTcb EventsMatch TimerPurpose SocketWatched
PROPERTY FollowsLife
