SPECIFICATION FairSpec
CONSTANTS
  Rx = {0}
  Tx = {1}
  DescLen = 2
  DefaultWeight = 2
  Budget = 1
  Ports = {0}
  MayStop = FALSE
INVARIANTS
  RunIsDue
  NoLostPacketEvent
PROPERTIES
  NotedIsServed
  PacketIsRead
  QueueWakes
CHECK_DEADLOCK FALSE
