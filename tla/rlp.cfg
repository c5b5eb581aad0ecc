\* Trees of three children, and lists of two, with lengths on both sides of every boundary
SPECIFICATION Spec
CONSTANTS
  Strings <- Boundary
  Numbers <- Edges
  Lists <- Nested
  MaxPush = 3
  MaxDepth = 2
  MaxArray = 600
  None = None
INVARIANTS
  ReadsBack
  EndFound
  NumbersReadBack
CHECK_DEADLOCK FALSE
