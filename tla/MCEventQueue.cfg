CONSTANTS
    x1 = x1
    x2 = x2
    e1 = e1
    e2 = e2
    e3 = e3
    e4 = e4
    NoEvent = NoEvent
    Free = Free
    Child <- MCChild
    Awaited <- MCAwaited
    Executors <- MCExecutors2
    Events <- MCEvents4
    BatchSize = 2
SPECIFICATION Safety
CHECK_DEADLOCK FALSE
INVARIANT WakeupCovered
INVARIANT DrainedOnReturn
INVARIANT BatchBoundsOverrun
