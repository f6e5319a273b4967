SPECIFICATION Spec
CONSTANTS
    a = a
    b = b
    c = c
    s1 = s1
    s2 = s2
    Node = {a, b, c}
    SnapshotId = {s1}
    NoId = NoId
    Operator = Operator
    InitCounter = 0
    MaxTransfer = 0
    MaxBegin = 6
    MaxEarly = 1
    MaxDeath = 0
    MaxFailure = 0
SYMMETRY Symmetry
INVARIANTS CompleteMatches
CHECK_DEADLOCK FALSE
