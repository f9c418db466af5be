SPECIFICATION Spec
CONSTANTS
    probe = probe
    other = other
    Requests <- MCRequests
    NoRequest = NoRequest
    MaxTasks = 2
    MaxFaults = 0
INVARIANT ConsumerTold
CHECK_DEADLOCK FALSE
