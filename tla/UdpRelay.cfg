CONSTANTS
    NULL = NULL
    Asker <- MCAsker
    Socket = {s1, s2}
    RcvBuf = 2
    MaxAsked = 2
SYMMETRY MCSymmetry
SPECIFICATION Spec
INVARIANTS MapsMatchEvents AnswersReachAsker
PROPERTY IdleLongestFirst
