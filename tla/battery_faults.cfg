\* Pack b2 reports mA units, so the recheck re-adds the battery; registering
\* the power supply, the notifier or the alarm attribute may fail.
CONSTANTS
  b1 = b1
  b2 = b2
  z = z
  Bix <- MCBix
  ZeroBix = z
  UnitOf <- MCUnitMixed
  WarnOf <- MCWarn
  AlarmValues = {3}
  EventKinds = {"BIX", "BST", "ADAPTER"}
  Fallible = {"psy", "notif", "file"}
  MaxEnv = 2
  MaxEvents = 2
  MaxResumes = 1
  MaxUser = 1
  MaxProbes = 2
SPECIFICATION Spec
\* The driver is reactive: once the bounded environment has stopped,
\* every context is idle and nothing is enabled.
CHECK_DEADLOCK FALSE
INVARIANTS
  TypeOK
  NotifierGoneWhenFreed
  PropsMatchUnit
