SPECIFICATION Spec
CONSTANTS
  Invalid = Invalid
  Bufs = {b1, b2, b3}
  MaxAlloc = 2
  MaxFree = 2
  Thresh = 0
  Ctx0 = {timer, irq}
  Ctx1 = {app, irq1}
SYMMETRY Symmetry
INVARIANTS
  TypeOK
  BookKeepExclusive
  NoBufferShared
  NoBufferLost
PROPERTIES
  FlushedBeforeFreed
CONSTRAINT BeforeOverrun
