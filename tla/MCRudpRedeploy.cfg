SPECIFICATION RedeploySpec
CONSTANTS
    a = a
    b = b
    m1 = m1
    Flow <- OneWay
    Payload = {m1}
    MaxSend = 2
    MaxFail = 0
    Redeployable = {b}
    MaxRedeploy = 1
PROPERTIES EventuallyDelivered
