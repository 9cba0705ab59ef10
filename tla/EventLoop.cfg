CONSTANTS
    Fd = {f1, f2}
    Always = {a1, a2, a3}
    Time = {t1, t2}
    Delay = {1, 2}
    MaxLate = 1
    NULL = NULL
SYMMETRY MCSymmetry
SPECIFICATION Spec
INVARIANTS TypeOK ListsLinked TimeSorted
PROPERTY PassesAreExact
