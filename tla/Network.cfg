\* Two calls, or a call and a lost connection, in six topologies.
CONSTANTS
    n1 = n1
    n2 = n2
    n3 = n3
    n4 = n4
    Node = {n1, n2, n3, n4}
    Link = {1, 2, 3}
    Topologies <- MCTopologies
    Class <- MCClass
    Offers <- MCOffers
    TtlValues = 3
    MaxEvents = 2
SPECIFICATION FairSpec
INVARIANTS TypeOK TtlBounds FloodExact
PROPERTIES UsesChannels Drains
\* A network that has handled every message is quiet.
CHECK_DEADLOCK FALSE
