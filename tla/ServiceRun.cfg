SPECIFICATION Spec
CONSTANTS
    probe = probe
    other = other
    Requests <- MCRequests
    NoRequest = NoRequest
    MaxTasks = 2
    MaxFaults = 2
INVARIANTS
    TypeOK
    ClosedAfterUse
PROPERTIES
    ShutdownEnds
    CleanupDone
\* The process has stopped.
CHECK_DEADLOCK FALSE
