\* A producer, a waiting consumer and a third thread that comes in between;
\* items that can be told apart.
CONSTANTS
  NULL = NULL
  Thread = {a, b, c}
  Item = {x, y}
SPECIFICATION FairSpec
CHECK_DEADLOCK FALSE
INVARIANT
  SynchListInv
PROPERTIES
  ImplementsFifo
  ItemsAreTaken
