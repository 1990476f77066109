\* Two files, of which one may be uploaded or in the trash.
CONSTANTS
    f1 = f1
    f2 = f2
    p1 = p1
    p2 = p2
    Files = {f1, f2}
    Paths = {p1, p2}
    Home <- MCHome
    CopyPath = copy
    Found = {f1}
    MaxRequests = 2
    MaxActs = 3
    MaxFaults = 1
    None = None
SPECIFICATION FairSpec
INVARIANTS
    TypeOK
    SpinnersHonest
    SuccessIsTrue
PROPERTIES
    SpinnersEnd
    ReadinessCatchesUp
CHECK_DEADLOCK FALSE
