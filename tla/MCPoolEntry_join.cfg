\* Two devices, one token, two procedures of users, three things users do, one fault.
CONSTANTS
    deviceA = deviceA
    deviceB = deviceB
    token1 = token1
    procP = procP
    procQ = procQ
    Joiners = {deviceA, deviceB}
    Invites = {token1}
    Procs = {procP, procQ}
    MaxPolls = 1
    MaxActs = 3
    MaxFaults = 1
    None = None
SPECIFICATION FairSpec
INVARIANTS
    TypeOK
    InviteOnce
    MembersApproved
PROPERTIES
    AnswersCome
    ApprovedGetsIn
CHECK_DEADLOCK FALSE
