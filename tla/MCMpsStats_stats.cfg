SPECIFICATION FairSpec
CONSTANTS
  Requests <- MCRequests
  Answered <- MCAnswered
  Bits = {0, 1}
  PointerBits = {1}
INVARIANTS
  TypeOK
  AnswersRequest
  NoFalseReady
PROPERTIES
  RequestReturns
