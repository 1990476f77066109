CONSTANTS
    Nodes = {1, 2}
    Ops = {a, b}
    Links <- AllLinks
    BatchLimit = 2
    FaultCounts <- NoFaults
    a = a
    b = b
SPECIFICATION FairSpec
PROPERTIES EventuallyConsistent
