SPECIFICATION Spec
CONSTANTS
  Rx = {0}
  Tx = {1}
  DescLen = 2
  DefaultWeight = 1
  Budget = 1
  Ports = {0, 1}
  MayStop = TRUE
INVARIANTS
  TypeOK
  BuffersAccounted
  EngineOwnsLive
  ClosedIsQuiet
  RxRingInOrder
  TxRingInOrder
CHECK_DEADLOCK FALSE
