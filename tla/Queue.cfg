SPECIFICATION Spec
CONSTANTS
    TaskIds = {1, 2, 3}
    Keys = {k1, k2}
    Models = {m1, m2}
    Inputs = {in1}
    Segments = {a, b, c}
    Requests <- QueueRequests
    Owners = {o1, o2}
    ModelsOf <- TwoProcesses
    MaxRows = 0
    MaxPending = 2
    TaskTimeout = 1
    Retention = 0
    Skew = 0
    MaxClock = 2
    NoTask = NoTask
    NoOwner = NoOwner
    o1 = o1
    o2 = o2
    m1 = m1
    m2 = m2
    k1 = k1
    k2 = k2
    in1 = in1
    a = a
    b = b
    c = c
SYMMETRY KeySymmetry
INVARIANTS
    TypeOK
    Admission
    OneActivePerOwner
PROPERTIES
    OldestFirst
    FollowsLifecycle
    TerminalIsFinal
    CancelNotLost
CHECK_DEADLOCK FALSE
