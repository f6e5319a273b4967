SPECIFICATION LiveSpec
CONSTANTS
    a = a
    b = b
    c = c
    s1 = s1
    s2 = s2
    Node = {a, b, c}
    SnapshotId = {s1, s2}
    NoId = NoId
    Operator = Operator
    InitCounter = 0
    MaxTransfer = 0
    MaxBegin = 6
    MaxEarly = 0
    MaxDeath = 1
    MaxFailure = 1
PROPERTIES Completes NeverPinned
CHECK_DEADLOCK FALSE
