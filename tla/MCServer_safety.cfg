SPECIFICATION Spec
CONSTANTS
    Submitter = {s1, s2}
    Worker = {w1, w2}
    Owner = owner
    Stopper = {other}
    Event = {e1, e2, e3}
    NoEvent = NoEvent
    NoWorker = NoWorker
    queue_capacity = 1
    enable_backpressure = TRUE
    Limit = 8
    Wrap = 8
    Mode = {"graceful", "force"}
    MaxStarts = 2
    MaxShutdowns = 1
CHECK_DEADLOCK FALSE
SYMMETRY Symmetry
INVARIANTS
    DepthTracksQueue
    OvershootBounded
    MetricsAddUp
    StoppedIsDrained
