CONSTANTS
    g1 = g1
    g2 = g2
    Nil = Nil
    GVRs <- MCGVRs
    MaxHealthCalls = 3
    MaxSetCalls = 1
    MaxHandlers = 3
SPECIFICATION Spec
SYMMETRY MCSymmetry
INVARIANT TypeOK
INVARIANT StartedOncePerHandler
INVARIANT RegisteredStarted
PROPERTY HandlerClosedByOwner
