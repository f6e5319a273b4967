SPECIFICATION Spec
CONSTANTS
    a = a
    b = b
    Node = {a, b}
    Script <- TwoScripts
    InitCounter = 1
    MaxBefore = 0
    MaxTransfer = 1
    MaxRun = 1
    MaxFailure = 0
    MaxMissing = 0
    MaxAgain = 0
INVARIANTS RestoreConserves
CHECK_DEADLOCK FALSE
