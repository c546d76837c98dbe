CONSTANTS
  a = a
  b = b
  c = c
  Proc = {p1}
  File = {a, b}
  Rank <- MCRank
  Cand <- MCCandOne
  MaxVer = 1
  None = None
  Stale = Stale
  Ops = {"sync"}
  MaxAutoSync = 0
  Faults = {"fail"}
SPECIFICATION Spec
PROPERTIES SyncRedoesAbandonedWork
CHECK_DEADLOCK FALSE
