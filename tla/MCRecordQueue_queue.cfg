SPECIFICATION FairSpec
CONSTANTS
    Thread = {p1, p2}
    Record = {r1, r2, r3, r4}
    Stub = Stub
    NULL = NULL
INVARIANTS
    Separate
    QueueSound
    DummyNotFree
    SpinsForAProducer
PROPERTIES
    PopInOrder
    NothingDiscarded
    EveryPushPopped
