CONSTANTS
    Nodes = {1, 2}
    Ops = {a, b}
    Links <- AllLinks
    BatchLimit = 1
    FaultCounts <- OneFault
    a = a
    b = b
SPECIFICATION Spec
SYMMETRY MCSymmetry
INVARIANTS TypeOK EventIdentity PushedIsHeld AppliedOnce GapFree
