SPECIFICATION Spec
CONSTANTS
    MaxAttempts = 3
    first = first
    second = second
    Parts <- MCParts
    Settings <- MCSettings
    NoFile = NoFile
INVARIANTS
    TypeOK
    MetadataIntact
    SuccessIsComplete
PROPERTY DataKept
\* The operator has ended and the bound of executions is reached.
CHECK_DEADLOCK FALSE
