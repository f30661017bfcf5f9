SPECIFICATION FairSpec
CONSTANTS
    Producer = {p1}
    Worker = w
    Thread = {p1, w}
    Closer = {c1}
    Record <- MCRecord
    Stub = Stub
    NULL = NULL
    NoMsg = NoMsg
    PoolSize = 3
    Logs = 4
    Shutdowns = 1
    Quiet = TRUE
    StartFails = FALSE
PROPERTIES
    EveryLogWritten
    ShutdownReturns
    EnqueueReturns
