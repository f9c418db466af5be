SPECIFICATION FairSpec
CONSTANTS
    TaskIds = {1}
    Keys = {1}
    Models = {m1}
    Inputs = {in1}
    Segments = {a}
    Requests <- MCRequests
    Owners = {o1, o2}
    Reliable = {o2}
    MaxRows = 2
    MaxPending = 2
    TaskTimeout = 2
    Chunks = 2
    MaxFaults = 2
    NoTask = NoTask
    NoOwner = NoOwner
    m1 = m1
    in1 = in1
    a = a
INVARIANTS
    TypeOK
    Restrained
    PublicationHolds
PROPERTIES
    RunsEnd
