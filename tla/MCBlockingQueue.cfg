CONSTANTS
    c1 = c1
    c2 = c2
    c3 = c3
    p1 = p1
    p2 = p2
    a = a
    b = b
    nothing = nothing
    Poppers <- MCPoppers
    Pushers <- MCPushers
    Items <- MCItems
    Nothing = nothing
    MaxLen = 3
SPECIFICATION Spec
INVARIANT WakeupCovered
PROPERTY ImplementsChannel
