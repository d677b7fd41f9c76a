\* Randomised time slices (-rs): any delay, including one shorter than the
\* tick that enabling interrupts costs.
CONSTANTS
  main = main  a = a  b = b
  s1 = s1  s2 = s2
  NULL = NULL
  Thread = {main, a, b}
  Main = main
  Sem = {s1, s2}
  DeviceSem = {s2}
  InitialValue <- LockAndDevice
  MaxValue = 2
  SystemTick = 2
  UserTick = 1
  TimerDelays = {1, 4}
SPECIFICATION Spec
INVARIANTS
  ReadyListExact
  QueuesExact
  CarcassDeletedByNext
  NoLostWakeup
  InterruptLevelRight
  YieldRequestConsumed
  StatusFollowsThread
PROPERTY ImplementsSemaphore
