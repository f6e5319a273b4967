SPECIFICATION Spec
CONSTANTS
    a = a
    b = b
    c = c
    s1 = s1
    s2 = s2
    Node = {a, b}
    SnapshotId = {s1}
    NoId = NoId
    Operator = Operator
    InitCounter = 0
    MaxTransfer = 1
    MaxBegin = 2
    MaxEarly = 0
    MaxDeath = 0
    MaxFailure = 0
SYMMETRY PairSymmetry
INVARIANTS CutConserves
CHECK_DEADLOCK FALSE
