SPECIFICATION Spec
CONSTANTS
    TaskIds = {1, 2}
    Keys = {1, 2}
    Models = {m1}
    Inputs = {in1}
    Segments = {a}
    Requests <- MCRequests
    Owners = {o1, o2}
    Reliable = {o2}
    MaxRows = 1
    MaxPending = 2
    TaskTimeout = 1
    Chunks = 1
    MaxFaults = 1
    NoTask = NoTask
    NoOwner = NoOwner
    m1 = m1
    in1 = in1
    a = a
VIEW WithoutHistory
INVARIANTS
    CleanOutput
