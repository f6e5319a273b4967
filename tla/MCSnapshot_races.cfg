SPECIFICATION Spec
CONSTANTS
    a = a
    b = b
    c = c
    s1 = s1
    s2 = s2
    Node = {a, b, c}
    SnapshotId = {s1, s2}
    NoId = NoId
    Operator = Operator
    InitCounter = 0
    MaxTransfer = 1
    MaxBegin = 4
    MaxEarly = 1
    MaxDeath = 0
    MaxFailure = 0
SYMMETRY Symmetry
INVARIANTS TypeOK LiveConservation SeqMatch CutAccounts
PROPERTIES StoredOnce
CHECK_DEADLOCK FALSE
