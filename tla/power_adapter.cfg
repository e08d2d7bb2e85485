\* An adapter event with the AC and both batteries registered: spec.md 4.4
\* stops the tier at the first HANDLED, and spwr_notify_bat returns it.
CONSTANTS
    b1 = b1
    b2 = b2
    Bats <- MCBats
    RegOf <- MCRegOf
    ChanOf <- MCChanOf
    InstOf <- MCInstOf
    Events <- MCEvents
    PsrcVals = {0, 1}
    Fallible = {}
    MaxEvents = 1
    MaxEnv = 1
    MaxUser = 1
    MaxProbes = 1
    MaxBatOps = 2
SPECIFICATION Spec
INVARIANT
    AdapterReachesAll
CHECK_DEADLOCK FALSE
