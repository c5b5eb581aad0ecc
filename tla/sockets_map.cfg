\* Five connects, also to endpoints in use, and any closes over four endpoints, with
\* collisions in four and eight slots
SPECIFICATION Spec
CONSTANTS
  Endpoints = {a, b, c, d}
  HashValues = {0, 1, 4}
  Peers = {}
  Serials = {}
  MaxConnections = 10
  MaxSockets = 5
  Listens = FALSE
  Connects = TRUE
  Again = TRUE
SYMMETRY Symmetry
INVARIANTS
  MapsConsistent
  ConnectionHasNode
PROPERTIES
  OthersKept
  HandlesHold
CHECK_DEADLOCK FALSE
