SPECIFICATION Spec
CONSTANTS
  Requests <- TwoRequests
  Resumables <- AnyOfTwo
  MayFail = TRUE
  Delays = {1}
PROPERTY EveryRequestAnswered
