SPECIFICATION FairSpec
CONSTANTS
  QLen = 2
  FifoCap = 3
  MaxMsgs = 4
  MayFail = TRUE
  MayUnregister = TRUE
CHECK_DEADLOCK FALSE
INVARIANTS
  TypeOK
  AccountedOnce
  NullOnlyUnregistering
PROPERTIES
  IsLossyChannel
  Settles
