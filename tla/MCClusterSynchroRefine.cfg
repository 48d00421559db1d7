CONSTANTS
    g1 = g1
    g2 = g2
    Nil = Nil
    GVRs <- MCGVRs
    MaxHealthCalls = 1
    MaxSetCalls = 2
    MaxHandlers = 1
SPECIFICATION Spec
SYMMETRY MCSymmetry
PROPERTY ImplementsStore
PROPERTY RefreshConverges
INVARIANT RegistryHasVersions
INVARIANT NoLostResources
