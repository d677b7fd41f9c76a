\* Three names for three entries, the second of which straddles; four sectors
\* for files, so that the disk and the directory can both be full.
\* The clock is bounded, Nachos may have exited and all mail been read.
CONSTANTS
  NULL = NULL  None = None  f1 = f1  f2 = f2  f3 = f3
  NumSectors = 9
  Name = {f1, f2, f3}
  NumDirEntries = 3
  SplitEntry = 2
  NumDirect = 2
  Size = {0, 2}
  MaxOpen = 1
  Machine = {0, 1}
  Client = {"t1", "t2", "t3"}
  Host <- Hosts
  Box = {0, 1}
  Message <- Messages
  Reliability = 50
  MaxTries = 2
SPECIFICATION ServicesSpec
SYMMETRY Symmetry
CHECK_DEADLOCK FALSE
INVARIANTS
  LatencyIsExact
  FilesAreSound
  PrintsWhatWasCopied
  MailIsExact
PROPERTY
  ImplementsByteFile
