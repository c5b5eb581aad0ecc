\* A connection is made and closed
SPECIFICATION Spec
CONSTANTS
  Endpoints = {a}
  HashValues = {0}
  Peers = {}
  Serials = {}
  MaxConnections = 10
  MaxSockets = 1
  Listens = FALSE
  Connects = TRUE
  Again = FALSE
PROPERTY
  CloseLowersNodeCount
CHECK_DEADLOCK FALSE
