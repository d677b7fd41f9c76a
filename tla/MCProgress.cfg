\* Three threads, so that two wait for the disk's lock while one has it, and
\* two that echo up to three characters.  Threads may all wait for input, for
\* a lost message or for nothing more.  The disk's latency depends on the
\* sector; the delays of the other devices are fixed.
CONSTANTS
  NULL = NULL  EOF = EOF  None = None
  Thread = {"a", "b", "c"}
  Sector = {1, 2}
  Data = {"d1", "d2"}
  Echoer = {"a", "b"}
  Char = {"x", "y", "z"}
  Byte = {"x", "y", "z"}
  Nil = Nil
  Device = {timer, disk, console}
  Timer = timer
  Poller = {console}
  TimerDelay = {3}
  PollDelay = {3}
  RequestDelay = {1, 4}
  SystemTick = 2
  UserTick = 1
SPECIFICATION ProgressSpec
CHECK_DEADLOCK FALSE
INVARIANTS
  EchoIsExact
  HaltsOnlyWithoutTimer
PROPERTIES
  ClockIsExact
  EveryInterruptTaken
  SectorsAreAtomic
  DevicesAnswer
  TestEndsUnlessLost
  SelfTestEnds
