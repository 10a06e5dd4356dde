SPECIFICATION FairSpec
CONSTANTS
  Callers = {p1, p2}
  MaxCalls = 3
  Cap = 2
  MayFail = TRUE
  MaySignal = TRUE
CHECK_DEADLOCK FALSE
INVARIANTS
  TypeOK
  OwnReply
  ReplyOnce
PROPERTIES
  CallReturns
