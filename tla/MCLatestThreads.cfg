SPECIFICATION LFairSpec
CONSTANTS
  t1 = t1
  t2 = t2
  Nobody = Nobody
  Threads <- MCThreads
  MaxTime = 1
  MaxNotify = 0
  MaxSent <- MCMaxSent
INVARIANTS
  LTypeOK
  NothingStranded
  GoneIsTold
PROPERTIES
  NewestWins
  SentIsShown
  EndWakes
\* Threads end, and the app with them.
CHECK_DEADLOCK FALSE
