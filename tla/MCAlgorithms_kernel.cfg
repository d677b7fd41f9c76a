\* Starting and stopping Nachos.
CONSTANTS
  NULL = NULL
  Thread = {"main", "t1", "t2"}
  Main = "main"
  NoThread = "none"
  StackSize = 16
  PageSize = 4
  NumPhysPages = 2
  Table <- Tables
  Address = {0, 1, 2, 3, 4, 6, 7, 8, 11, 12, 255}
SPECIFICATION KernelSpec
CHECK_DEADLOCK FALSE
INVARIANT
  AssignedBeforeUse
