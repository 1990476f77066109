\* Two devices, two evacuations, one fault. The one change of a status is at a: where it is at b, the devices
\* have changed their names.
CONSTANTS
    a = a
    b = b
    Nodes = {a, b}
    JobIds = {1, 2}
    LoadSlots = {1}
    TickSlots = {2}
    PostSlots = {3}
    Changing = {a}
    MaxChanges = 1
    MaxActs = 2
    MaxFaults = 1
    None = None
SPECIFICATION FairSpec
INVARIANTS
    TypeOK
    AnnouncedTruly
PROPERTIES
    TrackingEnds
    CardsCatchUp
CHECK_DEADLOCK FALSE
