\* Two jobs, one fault; room for one request of each kind.
CONSTANTS
    JobIds = {1, 2}
    Inputs = {0, 2, 3}
    MaxRetention = 2
    LoadSlots = {1}
    PollSlots = {2}
    UserSlots = {3}
    MaxActs = 3
    MaxFaults = 1
    None = None
SPECIFICATION FairSpec
INVARIANTS
    TypeOK
    FlagsHonest
PROPERTIES
    RetentionCatchesUp
    PurgeEnds
    TasksCatchUp
CHECK_DEADLOCK FALSE
