CONSTANTS
    g1 = g1
    g2 = g2
    Nil = Nil
    GVRs <- MCGVRsOne
    MaxHealthCalls = 1
    MaxSetCalls = 2
    MaxHandlers = 1
SPECIFICATION FairSpec
PROPERTY ResourcesApplied
PROPERTY ShutdownCompletes
\* Every state of this run is, leaving g2 unused, a state of the
\* refresher_store run, which checks for deadlock.  Here a state without a
\* successor must count as stuttering forever, so that a Shutdown that hangs
\* shows as a behaviour violating ShutdownCompletes.
CHECK_DEADLOCK FALSE
