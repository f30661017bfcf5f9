SPECIFICATION FairSpec
CONSTANTS
    Submitter = {s1}
    Worker = {w1}
    Owner = owner
    Stopper = {}
    Event = {e1}
    NoEvent = NoEvent
    NoWorker = NoWorker
    queue_capacity = 1
    enable_backpressure = TRUE
    Limit = 8
    Wrap = 8
    Mode = {"graceful"}
    MaxStarts = 1
    MaxShutdowns = 0
CHECK_DEADLOCK FALSE
PROPERTIES
    NoSpinWorkerLoop
