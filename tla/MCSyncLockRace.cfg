CONSTANTS
  Proc = {p1, p2}
  Empty = Empty
  NoFile = NoFile
  Waits = FALSE
  MaxPolls = 0
SPECIFICATION Spec
INVARIANTS MutualExclusion
CHECK_DEADLOCK FALSE
