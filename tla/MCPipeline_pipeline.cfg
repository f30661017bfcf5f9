SPECIFICATION Spec
CONSTANTS
    Config <- MCConfig
    NoServer = NoServer
    MaxBuilds = 2
    Worker = {w1, w2}
    e1 = e1
    e2 = e2
    e3 = e3
    Event = {e1, e2, e3}
    NoEvent = NoEvent
    Decodes <- MCDecodes
    Buffered = {2}
CHECK_DEADLOCK FALSE
INVARIANTS
    TypeOK
    BuiltFromGivenPieces
    ResultOfOwnEvent
    HooksInOrder
PROPERTIES
    ImplementsService
