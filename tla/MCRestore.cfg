SPECIFICATION ClientSpec
CONSTANTS
    a = a
    b = b
    Node = {a, b}
    Script <- OneScript
    InitCounter = 1
    MaxBefore = 1
    MaxTransfer = 2
    MaxRun = 2
    MaxFailure = 1
    MaxMissing = 1
    MaxAgain = 1
    NoAnswer = NoAnswer
    Host <- Hosts
    StablePolls = 2
    MaxPoll = 3
    MaxGiveUp = 1
INVARIANTS TypeOK RestoreConserves NeverForges ChannelsWhole VerdictSound
PROPERTIES CatchesUp
CHECK_DEADLOCK FALSE
