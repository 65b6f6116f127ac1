SPECIFICATION FairSpec
CONSTANTS
  c1 = c1
  c2 = c2
  Reader = Reader
  Handler = Handler
  Answer = Answer
  Nobody = Nobody
  NoReply = NoReply
  Callers <- MCCallers
  Spawned = TRUE
  PipeCap = 1
  MaxCalls = 2
  MaxSaid = 2
ACTION_CONSTRAINT NumberedFirst
INVARIANTS
  TypeOK
  OwnReply
  HistoryFirst
  ClosedIsTrue
PROPERTIES
  OutputEndWakes
  ShutdownEndsAgent
\* Threads stop once the calls and messages the bounds allow have been made.
CHECK_DEADLOCK FALSE
