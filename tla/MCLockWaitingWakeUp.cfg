SPECIFICATION Spec
CONSTANTS
  Requests <- FourRequests
  Resumables <- SecondOfFour
  MayFail = FALSE
  Delays = {1}
INVARIANT NoForgottenWaiter
