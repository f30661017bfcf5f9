SPECIFICATION Spec
CONSTANTS
    Popper = {p1}
    Pusher = {w1, w2}
    Thread = {p1, w1, w2}
    Record = {r1, r2, r3}
    Stub = Stub
    NULL = NULL
INVARIANTS
    SoundUntilAba
    NoAba
PROPERTIES
    NoDoubleHandout
    ImplementsPool
