SPECIFICATION Spec
CONSTANTS
    TaskIds = {1}
    Keys = {k1}
    Models = {m1, m2}
    Inputs = {in1}
    Segments = {a, b, c}
    Requests <- ClockRequests
    Owners = {o1, o2}
    ModelsOf <- ClockProcesses
    MaxRows = 0
    MaxPending = 2
    TaskTimeout = 3
    Retention = 1
    Skew = 1
    MaxClock = 8
    NoTask = NoTask
    NoOwner = NoOwner
    o1 = o1
    o2 = o2
    m1 = m1
    m2 = m2
    k1 = k1
    k2 = k2
    in1 = in1
    a = a
    b = b
    c = c
SYMMETRY ProcessSymmetry
PROPERTIES
    NoRevival
    LiveNotFailed
CHECK_DEADLOCK FALSE
