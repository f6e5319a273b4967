SPECIFICATION LiveSpec
CONSTANTS
    a = a
    b = b
    m1 = m1
    m2 = m2
    Flow <- OneWay
    Payload <- Payloads
    MaxSend = 2
    MaxFail = 1
PROPERTIES EventuallyDelivered
