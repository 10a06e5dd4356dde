SPECIFICATION FairSpec
CONSTANTS
  Proc = {1, 2}
  Ops <- MCOps
INVARIANTS
  TypeOK
  OneCmv
  ClosedWhileBooting
  NoStaleFlag
  OwnReply
PROPERTIES
  ReadyOpens
