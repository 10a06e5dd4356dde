SPECIFICATION Spec
CONSTANTS
  Size = 16
  Lens = {4}
  BodyBits <- ReadyBits
  MaxMsgs = 4
  MayFail = FALSE
  MayRcv = FALSE
  MayReset = FALSE
CHECK_DEADLOCK FALSE
INVARIANTS
  NoTornRead
