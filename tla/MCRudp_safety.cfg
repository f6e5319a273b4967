SPECIFICATION Spec
CONSTANTS
    a = a
    b = b
    m1 = m1
    m2 = m2
    Flow <- OneWay
    Payload <- Payloads
    MaxSend = 4
    MaxFail = 1
SYMMETRY Symmetry
INVARIANTS TypeOK InOrder NothingLost BufferAhead
