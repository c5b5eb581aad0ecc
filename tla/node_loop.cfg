\* shutdown() from a task or a continuation, with an update of two files under way
SPECIFICATION Spec
CONSTANTS
  Serials = {a, b}
  None = None
  MaxRuns = 1
  Packets = {1, 2, 3}
  Dashboards <- TwoFiles
  ShutdownFrom <- OutsidePoll
  RemoveFrom <- Tasks
INVARIANTS
  TypeOK
  LoopPollsOpen
  SettledIsOver
  CacheWithinTable
  UpdateInOrder
PROPERTIES
  ShutdownSettles
CHECK_DEADLOCK FALSE
