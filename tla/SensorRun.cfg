SPECIFICATION FairSpec
CONSTANTS
    TaskIds = {1, 2, 3}
    Keys <- MCKeys
    Models = {m1}
    Inputs = {in1}
    Segments = {a, b}
    Requests <- MCRequests
    Owners = {o1}
    MaxRows = 0
    MaxPending = 3
    TaskTimeout = 1
    NoTask = NoTask
    NoOwner = NoOwner
    Shards = 2
    RequestOf <- MCRequestOf
    HttpAttempts = 2
    MaxPokes = 2
    MaxFaults = 2
    Stops = {"sigterm", "task_timeout", "sigkill"}
    o1 = o1
    m1 = m1
    in1 = in1
    a = a
    b = b
INVARIANTS
    TypeOK
    SuccessIsComplete
    OneTaskPerShard
    NoSilentOrphan
PROPERTIES
    SensorEnds
CHECK_DEADLOCK FALSE
