SPECIFICATION FairSpec
CONSTANTS
  Invalid = Invalid
  Bufs = {b1, b2, b3}
  MaxAlloc = 1
  MaxFree = 1
  Thresh = 1
  Ctx0 = {timer}
  Ctx1 = {app}
PROPERTIES
  FreedEventually
