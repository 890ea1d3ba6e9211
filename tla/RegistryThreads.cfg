\* Two threads, as in sunum.cpp: main broadcasts while the other runs the peers.
CONSTANTS
    Inbound = {i1, i2}
    Outbound = {o1}
    Io = io
    Callers = {main}
    MaxCon = 0
    SendPing = FALSE
    MaxCasts = 2
    None = None
SPECIFICATION Spec
SYMMETRY Symmetry
INVARIANTS  ListedOnce ConnectionsExact RelayReaches
\* A thread may wait for itself: see RegistryDeadlock.cfg.
CHECK_DEADLOCK FALSE
