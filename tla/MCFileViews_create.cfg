CONSTANTS
    A = A
    B = B
    Nodes = {A, B}
    VersionIds = {1, 2, 3}
    Starts <- Empty
    Creators = {A, B}
    MaxJobs = 1
    MaxRequests = 1
    MaxFaults = 0
    CopyEdits = FALSE
    InOrder = TRUE
SPECIFICATION Spec
INVARIANTS Converged
CHECK_DEADLOCK FALSE
