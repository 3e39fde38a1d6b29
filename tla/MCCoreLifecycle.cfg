CONSTANTS
    Ints <- MCInts
    InitialDefaults <- MCDefaults
    MaxCores = 3
    Asserts = "off"
SPECIFICATION Spec
CHECK_DEADLOCK FALSE
INVARIANT ThreadsHaveLog
INVARIANT CleanBetweenCores
PROPERTY ConstructionEnds
