\* Traffic with bodies of the sizes that make protocol::receive differ.
CONSTANTS
    a = a
    b = b
    End = {a, b}
    Junk = Junk
    AppMsgs <- BodyMsgs
    ProcessResults = {"continue", "throw"}
    MaxPkt = 12
    ReadMax = 8
    Cuts = {4}
    MaxMsgs <- TwoNone
SPECIFICATION Spec
INVARIANTS TypeOK StreamIsPackets NoLostWakeup BufferIsWindow
\* Both ends may be quiet or gone.
CHECK_DEADLOCK FALSE
