CONSTANTS
    A = A
    B = B
    Nodes = {A, B}
    VersionIds = {1, 2, 3}
    Starts <- NotEmpty
    Creators = {A}
    MaxJobs = 1
    MaxRequests = 2
    MaxFaults = 0
    CopyEdits = FALSE
    InOrder = TRUE
SPECIFICATION Spec
INVARIANTS MatchedIsParent
CHECK_DEADLOCK FALSE
