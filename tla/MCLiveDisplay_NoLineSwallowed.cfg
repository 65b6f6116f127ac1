SPECIFICATION Spec
CONSTANTS
  t1 = t1
  t2 = t2
  Free = Free
  NoJob = NoJob
  Threads <- MCThreads
  MaxLines = 1
  MaxChanges = 1
  MaxQueued = 1
INVARIANT
  NoLineSwallowed
CHECK_DEADLOCK FALSE
