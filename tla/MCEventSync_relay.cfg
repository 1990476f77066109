CONSTANTS
    Nodes = {1, 2, 3}
    Ops = {a}
    Links <- ChainLinks
    BatchLimit = 2
    FaultCounts <- OneFault
    a = a
    b = b
SPECIFICATION FairSpec
PROPERTIES GossipSpec EventsSpread
