CONSTANTS
    SeqMod = 64
    NULL = NULL
    Byte <- MCByte
    Mss = 2
    BufSize = 2
    DrainWnd = 1
    Irs = 4
    IssStep = 20
    ClientLen = 3
    ServerLen = 1
    ClientWnd = 2
    NetCap = 2
    MaxSyn = 1
    MaxFaults = 1
    Faults = {"lose_out", "lose_in", "dup_in", "rexmit"}
    Outcomes = {"client_fin", "short_write"}
SPECIFICATION Spec
INVARIANTS UploadIntact AckedIsHeld
PROPERTY EdgeNeverRetracts
