SPECIFICATION Spec
CONSTANTS
    Producer = {p1}
    Worker = w
    Thread = {p1, w}
    Closer = {c1}
    Record <- MCRecord
    Stub = Stub
    NULL = NULL
    NoMsg = NoMsg
    PoolSize = 2
    Logs = 5
    Shutdowns = 1
    Quiet = TRUE
    StartFails = FALSE
INVARIANT
    NoFreedRecord
