SPECIFICATION Spec
CONSTANTS
    o1 = o1
    o2 = o2
    m1 = m1
    in1 = in1
    a = a
    b = b
    k1 = k1
    k2 = k2
    post = post
    repost = repost
    other = other
    claim = claim
    abort = abort
    up = up
    Migrations = {up}
    NoTable = NoTable
    Null = NoOwner
    Calls = {post, repost, other, claim, abort, up}
    Processes = {o1, o2}
    ProcessOf <- MCProcessOf
    PoolSize = 2
    MaxFailures = 1
    Ids = {1, 2, 3}
    Rows <- StoreRows
    NoRow = NoTask
    IdOf <- StoreId
    KeyOf <- StoreKey
    Change <- StoreChange
    Answer <- StoreAnswer
    NoAnswer = NoAnswer
    CallOf <- MCCallOf
    NoArgument = NoArgument
    TaskIds = {1, 2, 3}
    Keys = {k1, k2}
    Models = {m1}
    Inputs = {in1}
    Segments = {a, b}
    Requests <- MCRequests
    Owners = {o1, o2}
    MaxRows = 0
    MaxPending = 2
    TaskTimeout = 1
    NoTask = NoTask
    NoOwner = NoOwner
INVARIANTS
    TypeOK
    SnapshotSuffices
PROPERTIES
    ImplementsContract
CHECK_DEADLOCK FALSE
