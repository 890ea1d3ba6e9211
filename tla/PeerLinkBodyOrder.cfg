\* One message with a body of 9 bytes.
CONSTANTS
    a = a
    b = b
    End = {a, b}
    Junk = Junk
    AppMsgs <- OneBody
    ProcessResults = {"continue", "throw"}
    MaxPkt = 12
    ReadMax = 8
    Cuts = {4}
    MaxMsgs <- OneNone
SPECIFICATION Spec
INVARIANTS InOrderDelivery
\* Both ends may be quiet or gone.
CHECK_DEADLOCK FALSE
