CONSTANTS
    g1 = g1
    g2 = g2
    Nil = Nil
    GVRs <- MCGVRs
    MaxHealthCalls = 2
    MaxSetCalls = 1
    MaxHandlers = 2
SPECIFICATION Spec
INVARIANT FinalStatusShutdown
