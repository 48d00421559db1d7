CONSTANTS
    g1 = g1
    g2 = g2
    Nil = Nil
    GVRs <- MCGVRsNone
    MaxHealthCalls = 3
    MaxSetCalls = 1
    MaxHandlers = 2
SPECIFICATION FairSpec
PROPERTY HealthyLeadsToRunning
PROPERTY UnhealthyLeadsToStopped
