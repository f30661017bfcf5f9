SPECIFICATION Spec
CONSTANTS
    Producer = {p1, p2}
    Worker = w
    Thread = {p1, p2, w}
    Closer = {c1}
    Record <- MCRecord
    Stub = Stub
    NULL = NULL
    NoMsg = NoMsg
    PoolSize = 2
    Logs = 2
    Shutdowns = 1
    Quiet = TRUE
    StartFails = TRUE
CONSTRAINT UntilUndefined
INVARIANTS
    TypeOK
    OneHolder
    ShutdownDrains
    NeverTerminated
PROPERTIES
    ImplementsService
