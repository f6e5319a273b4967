SPECIFICATION Spec
CONSTANTS
    a = a
    b = b
    c = c
    s1 = s1
    s2 = s2
    Node = {a, b, c}
    SnapshotId = {s1}
    NoId = NoId
    Operator = Operator
    InitCounter = 0
    MaxTransfer = 2
    MaxBegin = 3
    MaxEarly = 0
    MaxDeath = 0
    MaxFailure = 0
SYMMETRY Symmetry
PROPERTIES NoOvertaking
CHECK_DEADLOCK FALSE
