SPECIFICATION Spec
CONSTANTS
    init1 = init1
    init2 = init2
    insert_y = insert_y
    flip = flip
    Calls = {init1, init2, insert_y, flip}
    Initializers = {init1, init2}
    Contents <- MCContents
    Empty = {}
    NoContent = NoContent
    NoAnswer = NoAnswer
    Change <- MCChange
    Answer <- MCAnswer
    MaxAttempts = 2
SYMMETRY Starters
INVARIANTS
    TypeOK
    NoLateEffect
PROPERTIES
    ImplementsContract
CHECK_DEADLOCK FALSE
