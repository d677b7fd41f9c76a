\* Nachos exits and threads finish.
\* Two forked threads on the smallest stacks; page tables of up to three pages.
CONSTANTS
  NULL = NULL
  Thread = {"main", "t1", "t2"}
  Main = "main"
  NoThread = "none"
  StackSize = 16
  PageSize = 4
  NumPhysPages = 2
  Table <- Tables
  Address = {0, 1, 2, 3, 4, 6, 7, 8, 11, 12, 255}
SPECIFICATION Spec
CHECK_DEADLOCK FALSE
INVARIANTS
  HashTableIsExact
  WordsHoldMarks
  ProductIsExact
  TranslationsAgree
  LoadedAsLinked
  StartsAsTold
  SwitchIsTransparent
PROPERTY
  ListsAreSequences
