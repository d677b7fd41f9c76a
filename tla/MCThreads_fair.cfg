\* Fixed time slices of TimerTicks: liveness.
CONSTANTS
  main = main  a = a  b = b
  s1 = s1  s2 = s2
  NULL = NULL
  Thread = {main, a, b}
  Main = main
  Sem = {s2}
  DeviceSem = {s2}
  InitialValue <- DeviceOnly
  MaxValue = 2
  SystemTick = 2
  UserTick = 1
  TimerDelays = {4}
SPECIFICATION FairSpec
PROPERTIES
  ReadyThreadsRun
  ImplementsFairSemaphore
