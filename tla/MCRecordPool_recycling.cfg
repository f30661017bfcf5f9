SPECIFICATION FilledSpec
CONSTANTS
    Popper = {p1, p2}
    Pusher = {w1}
    Thread = {p1, p2, w1}
    Record = {r1, r2, r3}
    Stub = Stub
    NULL = NULL
INVARIANT
    AllNodesBack
