CONSTANTS
    n1 = n1
    n2 = n2
    g1 = g1
    g2 = g2
    g3 = g3
    l1 = l1
    l2 = l2
    e1 = e1
    e2 = e2
    e3 = e3
    first = first
    second = second
    None = None
    Nothing = Nothing
    Names <- MCNames2
    Gets <- MCGets3
    Loads <- MCLoads2
    Entries <- MCEntries
    Resource <- MCResource
SPECIFICATION RegSpec
CHECK_DEADLOCK FALSE
INVARIANT OneInstance
INVARIANT CalledOnce
INVARIANT RegistryOutlivesLoads
INVARIANT ReadyMeansLoaded
PROPERTY AnsweredUnlessFailed
PROPERTY ReadyUnlessFailed
