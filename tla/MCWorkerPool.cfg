CONSTANTS
    w1 = w1
    w2 = w2
    t1 = t1
    t2 = t2
    t3 = t3
    Pill = Pill
    Workers <- MCWorkers
    Tasks <- MCTasks
SPECIFICATION Spec
INVARIANT PillPerWorker
INVARIANT DrainedWhenJoined
PROPERTY ShutdownEnds
