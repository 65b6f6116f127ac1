SPECIFICATION FairSpec
CONSTANTS
  c1 = c1
  c2 = c2
  Reader = Reader
  Handler = Handler
  Answer = Answer
  Nobody = Nobody
  NoReply = NoReply
  Callers <- MCCallers
  Spawned = TRUE
  PipeCap = 1
  MaxCalls = 2
  MaxSaid = 1
PROPERTIES
  WaitEndsOnClose
CHECK_DEADLOCK FALSE
