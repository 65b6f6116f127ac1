SPECIFICATION LSpec
CONSTANTS
  t1 = t1
  t2 = t2
  Nobody = Nobody
  Threads <- MCThreads
  MaxTime = 2
  MaxNotify = 1
  MaxSent <- MCOneSent
INVARIANTS
  RunningCount
  NoLostNotify
PROPERTIES
  SettleIsQuiet
  SettledIsSent
\* Threads end, and the app with them.
CHECK_DEADLOCK FALSE
