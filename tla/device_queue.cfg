\* One versioned device whose socket may fail: three requests, one retry, callbacks that send
SPECIFICATION Spec
CONSTANTS
  Versions <- Versioned
  Routers = {r1}
  SendResults <- MayFail
  RetryTimeouts = {1}
  MaxRetries = {1}
  LinqNetwMaxRetry = 1
  TickMod = 1024
  IdMod = 1024
  None = None
  MaxRequests = 3
  MaxCallbackSends = 1
  MaxAnswers = 1
  MaxEpochs = 1
  MaxLate = 1
INVARIANTS
  TypeOK
  EachOnceInOrder
  OneAtATime
  StalledOnlyAfterSendFailure
PROPERTY
  PatientRetries
