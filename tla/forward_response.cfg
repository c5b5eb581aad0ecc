\* As in hops, without retries: the answer to the request of c comes back through h
SPECIFICATION Spec
CONSTANTS
  c = c
  h = h
  b = b
  Instances = {c, h, b}
  Topologies <- Triangles
  Home = h
  Device = d
  Askers = {c}
  MaxRetry = 0
  None = None
  MaxBeats = 1
  MaxAlerts = 1
  MaxChannel = 1
INVARIANTS
  ForwardedResponseAccepted
CHECK_DEADLOCK FALSE
