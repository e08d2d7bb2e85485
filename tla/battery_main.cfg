\* All event kinds (one event), both packs in the same unit; any SSAM request
\* may fail.
CONSTANTS
  b1 = b1
  b2 = b2
  z = z
  Bix <- MCBix
  ZeroBix = z
  UnitOf <- MCUnitSame
  WarnOf <- MCWarn
  AlarmValues = {3}
  EventKinds = {"BIX", "BST", "ADAPTER"}
  Fallible = {"ec"}
  MaxEnv = 2
  MaxEvents = 1
  MaxResumes = 1
  MaxUser = 1
  MaxProbes = 1
SPECIFICATION Spec
\* The driver is reactive: once the bounded environment has stopped,
\* every context is idle and nothing is enabled.
CHECK_DEADLOCK FALSE
INVARIANTS
  WorkGoneWhenFreed
  NotifierGoneWhenFreed
PROPERTIES
  CallsReturn
