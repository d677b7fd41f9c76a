CONSTANTS
  NULL = NULL
  Thread = {a, b, c, d}
SPECIFICATION Spec
CHECK_DEADLOCK FALSE
INVARIANTS
  LockIsExclusive
  SignalNotMissed
PROPERTY ImplementsMonitor
