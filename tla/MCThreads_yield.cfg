\* The ticks and the time slice of stats.h, and two threads.
CONSTANTS
  main = main  a = a  b = b
  s1 = s1  s2 = s2
  NULL = NULL
  Thread = {main, a}
  Main = main
  Sem = {s2}
  DeviceSem = {s2}
  InitialValue <- DeviceOnly
  MaxValue = 2
  SystemTick = 10
  UserTick = 1
  TimerDelays = {100}
SPECIFICATION FairSpec
PROPERTIES
  YieldReturns
