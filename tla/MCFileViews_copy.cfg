CONSTANTS
    A = A
    B = B
    Nodes = {A, B}
    VersionIds = {1, 2, 3, 4, 5}
    Starts <- NotEmpty
    Creators = {A}
    MaxJobs = 1
    MaxRequests = 1
    MaxFaults = 0
    CopyEdits = TRUE
    InOrder = TRUE
SPECIFICATION Spec
INVARIANTS HeadsShown
CHECK_DEADLOCK FALSE
