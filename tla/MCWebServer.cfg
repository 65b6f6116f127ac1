SPECIFICATION FairSpec
CONSTANTS
  c1 = c1
  c2 = c2
  c3 = c3
  c4 = c4
  NoConn = NoConn
  Conns <- MCConns
  MaxPending = 2
  MaxSessions = 1
INVARIANTS
  TypeOK
  CountsGivenBack
  StoppedIsEnded
PROPERTIES
  StopReturns
\* The server ends.
CHECK_DEADLOCK FALSE
