SPECIFICATION FairSpec
CONSTANTS
  r1 = r1
  r2 = r2
  s1 = s1
  s2 = s2
  k1 = k1
  k2 = k2
  NoAnswer = NoAnswer
  Requests <- TwoRequests
  IdOf <- CountedIds
  Sessions <- TwoSessions
  Cancellers <- TwoCancellers
INVARIANTS
  TypeOK
  NoSecondAnswer
  NeverForgotten
PROPERTIES
  OnlyItsSession
  CancelAnswers
\* The agent makes each request once.
CHECK_DEADLOCK FALSE
