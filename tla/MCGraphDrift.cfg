CONSTANTS
  a = a
  b = b
  c = c
  Proc = {p1}
  File = {a, b, c}
  Rank <- MCRank
  Cand <- MCCandTwo
  MaxVer = 1
  None = None
  Stale = Stale
  Ops = {"sync"}
  MaxAutoSync = 0
  Faults = {}
SPECIFICATION Spec
PROPERTIES SyncConverges
CHECK_DEADLOCK FALSE
