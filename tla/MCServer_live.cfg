SPECIFICATION FairSpec
CONSTANTS
    Submitter = {s1}
    Worker = {w1, w2}
    Owner = owner
    Stopper = {other}
    Event = {e1}
    NoEvent = NoEvent
    NoWorker = NoWorker
    queue_capacity = 2
    enable_backpressure = TRUE
    Limit = 8
    Wrap = 8
    Mode = {"graceful", "force"}
    MaxStarts = 2
    MaxShutdowns = 1
CHECK_DEADLOCK FALSE
PROPERTIES
    ShutdownEndsWorkers
    EventTaken
    IdleServerRests
