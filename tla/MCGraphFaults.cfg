CONSTANTS
  a = a
  b = b
  c = c
  Proc = {p1, p2}
  File = {a, b}
  Rank <- MCRank
  Cand <- MCCandOne
  MaxVer = 1
  None = None
  Stale = Stale
  Ops = {"index", "sync", "transition", "targeted"}
  MaxAutoSync = 1
  Faults = {"crash", "fail", "skip", "blind"}
SPECIFICATION Spec
INVARIANTS PartialIsMarked WriterIsMarked
PROPERTIES FullIndexRepairs
CHECK_DEADLOCK FALSE
