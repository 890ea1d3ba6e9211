\* Header-only traffic: PING, PONG and messages without a body.
CONSTANTS
    a = a
    b = b
    End = {a, b}
    Junk = Junk
    AppMsgs <- HeaderMsgs
    ProcessResults = {"continue", "stop"}
    MaxPkt = 12
    ReadMax = 8
    Cuts = {4}
    MaxMsgs <- OneOne
SPECIFICATION FairSpec
INVARIANTS InOrderDelivery
PROPERTIES ImplementsChannel ReceiveTerminates EventuallyHandled
\* Both ends may be quiet or gone.
CHECK_DEADLOCK FALSE
