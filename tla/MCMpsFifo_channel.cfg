SPECIFICATION FairSpec
CONSTANTS
  Size = 12
  Lens = {2, 3, 4, 6}
  BodyBits <- ReadyBits
  MaxMsgs = 4
  MayFail = FALSE
  MayRcv = TRUE
  MayReset = TRUE
CONSTRAINT BeforeRace
CHECK_DEADLOCK FALSE
INVARIANTS
  TypeOK
PROPERTIES
  IsChannel
  Delivered
