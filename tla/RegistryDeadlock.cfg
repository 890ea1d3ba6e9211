\* Two threads, as in sunum.cpp.
CONSTANTS
    Inbound = {}
    Outbound = {o1}
    Io = io
    Callers = {main}
    MaxCon = 0
    SendPing = FALSE
    MaxCasts = 1
    None = None
SPECIFICATION FairSpec
PROPERTIES BroadcastReturns
\* A thread may wait for itself: the property says so.
CHECK_DEADLOCK FALSE
