CONSTANTS
    A = A
    B = B
    Nodes = {A, B}
    VersionIds = {1, 2, 3, 4}
    Starts <- Either
    Creators = {A}
    MaxJobs = 2
    MaxRequests = 1
    MaxFaults = 1
    CopyEdits = FALSE
    InOrder = FALSE
SPECIFICATION Spec
INVARIANTS TypeOK Projected
PROPERTIES MainBranch
CHECK_DEADLOCK FALSE
