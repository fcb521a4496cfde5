SPECIFICATION Spec
CONSTANTS
  Requests <- ThreeRequests
  Resumables <- AnyOfThree
  MayFail = TRUE
  Delays = {0, 1}
INVARIANT AnsweredOnce
INVARIANT QueuedIsCancellable
INVARIANT NoStaleWaiter
INVARIANT NoForgottenLegacy
PROPERTY AnsweredUnlessStuck
