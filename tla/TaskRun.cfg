SPECIFICATION RunSpec
CONSTANTS
    Files = {1, 2, 3}
    Content <- FileContent
    ChunkSize = 3
    BatchSize = 2
    MaxParts = 4
    MaxRuns = 2
    MaxChanges = 1
    None = None
    Values = {0, 1, 3}
    Unusable = Unusable
    MaxSamples = 1
    MaxReadings = 6
INVARIANTS
    RunTypeOK
    PartsFollowInput
    MarkedIsComplete
    TasksDoNotOverlap
    StatisticsExact
PROPERTIES
    RunsEnd
CHECK_DEADLOCK FALSE
