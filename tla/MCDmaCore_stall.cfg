SPECIFICATION Spec
CONSTANTS
  Rx = {0}
  Tx = {1}
  DescLen = 3
  DefaultWeight = 2
  Budget = 3
  Ports = {0}
  MayStop = FALSE
INVARIANTS
  NoRingDeadlock
CHECK_DEADLOCK FALSE
