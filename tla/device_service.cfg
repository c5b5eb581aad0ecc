\* Sends never fail and the main loop polls, the device reconnects and is found again: every
\* request ends, by its own answer, and the queue is a RequestService
SPECIFICATION FairSpec
CONSTANTS
  Versions <- Versioned
  Routers = {r1, r2}
  SendResults <- NeverFails
  RetryTimeouts = {1}
  MaxRetries = {1}
  LinqNetwMaxRetry = 1
  TickMod = 1024
  IdMod = 1024
  None = None
  MaxRequests = 2
  MaxCallbackSends = 1
  MaxAnswers = 1
  MaxEpochs = 2
  MaxLate = 1
PROPERTIES
  EveryRequestEnds
  ImplementsService
  AddressedToLatestRoute
