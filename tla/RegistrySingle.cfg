\* One thread, as in p2p_test.cpp: every broadcast comes from a read handler.
CONSTANTS
    Inbound = {i1, i2}
    Outbound = {o1}
    Io = io
    Callers = {}
    MaxCon = 1
    SendPing = TRUE
    MaxCasts = 1
    None = None
SPECIFICATION FairSpec
INVARIANTS TypeOK ListedOnce ConnectionsExact RelayReaches NoSelfLock
PROPERTIES LostPeersGo
