SPECIFICATION Spec
CONSTANTS
  Size = 16
  Lens = {4}
  BodyBits <- PacketBits
  MaxMsgs = 6
  MayFail = TRUE
  MayRcv = TRUE
  MayReset = TRUE
VIEW Shape
CHECK_DEADLOCK FALSE
INVARIANTS
  IndicesInFifo
