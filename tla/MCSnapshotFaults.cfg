SPECIFICATION FaultSpec
CONSTANTS
    a = a
    b = b
    s1 = s1
    s2 = s2
    Node = {a, b}
    SnapshotId = {s1, s2}
    NoId = NoId
    Operator = Operator
    InitCounter = 0
    MaxTransfer = 2
    MaxBegin = 4
    MaxEarly = 0
    MaxDeath = 0
    MaxFailure = 1
    MaxRaise = 1
SYMMETRY PairSymmetry
INVARIANTS RaisesOnlyLose OnceMatches OnceAccounts
CHECK_DEADLOCK FALSE
