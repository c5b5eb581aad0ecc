\* Responses are lost, late and repeated while the device changes its version or is removed,
\* max_retry changes, and ids go round
SPECIFICATION Spec
CONSTANTS
  Versions <- AnyVersion
  Routers = {r1}
  SendResults <- NeverFails
  RetryTimeouts = {1}
  MaxRetries = {0, 1}
  LinqNetwMaxRetry = 1
  TickMod = 1024
  IdMod = 4
  None = None
  MaxRequests = 2
  MaxCallbackSends = 0
  MaxAnswers = 2
  MaxEpochs = 1
  MaxLate = 0
INVARIANTS
  AnswersLatest
  RetryBudget
