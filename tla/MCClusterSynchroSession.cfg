CONSTANTS
    g1 = g1
    g2 = g2
    Nil = Nil
    GVRs <- MCGVRsOne
    MaxHealthCalls = 3
    MaxSetCalls = 1
    MaxHandlers = 2
SPECIFICATION Spec
PROPERTY ImplementsRunnerSession
