\* A broadcast without an originating peer, as in sunum.cpp.
CONSTANTS
    Inbound = {}
    Outbound = {o1}
    Io = io
    Callers = {main}
    MaxCon = 0
    SendPing = FALSE
    MaxCasts = 1
    None = None
SPECIFICATION Spec
INVARIANTS CallerReaches
\* A thread may wait for itself: see RegistryDeadlock.cfg.
CHECK_DEADLOCK FALSE
