\* Three sockets, so that no map is resized; an application that uses no endpoint twice
SPECIFICATION Spec
CONSTANTS
  Endpoints = {a, b, c}
  HashValues = {0, 1}
  Peers = {p}
  Serials = {d}
  MaxConnections = 3
  MaxSockets = 3
  Listens = TRUE
  Connects = TRUE
  Again = FALSE
INVARIANTS
  TypeOK
  OpenIsPolled
CHECK_DEADLOCK FALSE
