SPECIFICATION FairSpec
CONSTANTS
  t1 = t1
  t2 = t2
  Free = Free
  NoJob = NoJob
  Threads <- MCThreads
  MaxLines = 2
  MaxChanges = 1
  MaxQueued = 1
INVARIANTS
  TypeOK
  InOrder
PROPERTIES
  PrintedOnReturn
  FrameIsCurrent
  CallsReturn
\* Threads end once the display has stopped.
CHECK_DEADLOCK FALSE
