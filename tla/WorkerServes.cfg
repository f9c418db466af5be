SPECIFICATION FairSpec
CONSTANTS
    TaskIds = {1, 2}
    Keys = {1, 2}
    Models = {m1}
    Inputs = {in1}
    Segments = {a}
    Requests <- MCRequests
    Owners = {o2}
    Reliable = {o2}
    MaxRows = 1
    MaxPending = 2
    TaskTimeout = 2
    Chunks = 1
    MaxFaults = 2
    NoTask = NoTask
    NoOwner = NoOwner
    m1 = m1
    in1 = in1
    a = a
PROPERTIES
    QueueServed
