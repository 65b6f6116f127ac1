SPECIFICATION EagerSpec
CONSTANTS
  Window = 1
  Limit = 1
  Chunk = 1
  MaxInput = 1
  OutCap = 1
  InCap = 1
  InboxCap = 1
  WaitTicks = 1
  MaxMade = 4
  MaxTyped = 3
PROPERTY
  WritesWaitForPage
\* A session ends.
CHECK_DEADLOCK FALSE
