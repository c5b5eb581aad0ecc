\* The asker c, the hub h of the device and a bystander, each connected to the other two
SPECIFICATION Spec
CONSTANTS
  c = c
  h = h
  b = b
  Instances = {c, h, b}
  Topologies <- Triangles
  Home = h
  Device = d
  Askers = {c}
  MaxRetry = 1
  None = None
  MaxBeats = 1
  MaxAlerts = 1
  MaxChannel = 1
INVARIANTS
  TypeOK
  OneHop
  AlertOnce
  RetriesMultiply
PROPERTIES
  EveryAskEnds
CHECK_DEADLOCK FALSE
