\* Two batteries and the AC on one dispatch chain; every request and
\* registration of the AC may fail; the batteries' notifiers come and go.
CONSTANTS
    b1 = b1
    b2 = b2
    Bats <- MCBats
    RegOf <- MCRegOf
    ChanOf <- MCChanOf
    InstOf <- MCInstOf
    Events <- MCEvents
    PsrcVals = {0, 1}
    Fallible = {"ec", "bind", "psy", "notif"}
    MaxEvents = 2
    MaxEnv = 1
    MaxUser = 1
    MaxProbes = 2
    MaxBatOps = 2
SPECIFICATION Spec
INVARIANTS
    TypeOK
    BatteryEventsReachOwner
PROPERTIES
    AcRefines
    AcCallsReturn
CHECK_DEADLOCK FALSE
