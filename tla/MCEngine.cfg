CONSTANTS
    w1 = w1
    w2 = w2
    q1 = q1
    s1 = s1
    s2 = s2
    Pill = Pill
    Workers <- MCWorkers
    ByQueue <- MCByQueue1
    ByWorker <- MCByWorker2
SPECIFICATION Spec
INVARIANT InOnePlace
INVARIANT InstanceWhenUsed
INVARIANT QuietWhenDown
PROPERTY DestructionEnds
PROPERTY ImplementsAsyncLoads
