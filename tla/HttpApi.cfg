\* Bodies below, at and above the limit, one of them longer than what is drained.
CONSTANTS
  MaxBody = 1
  MaxDrain = 2
  Sizes = {1, 2, 3}
  HeadersLimit = 1
  RequestLimit = 3
  Checking = 2
SPECIFICATION FairSpec
INVARIANTS
  AnswersAlike
  ReceiveIsBounded
  
PROPERTIES
  OnlyWholeRequestsAct
  ConnectionEnds
\* The connection closes.
CHECK_DEADLOCK FALSE
