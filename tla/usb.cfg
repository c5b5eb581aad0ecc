\* Four requests to a device that is slow, fails, and is unplugged once
SPECIFICATION Spec
CONSTANTS
  MaxRequests = 4
  MaxUnplugs = 1
  None = None
INVARIANTS
  TypeOK
  OwnAnswer
  AnswersAdvance
PROPERTIES
  SendReturns
CHECK_DEADLOCK FALSE
