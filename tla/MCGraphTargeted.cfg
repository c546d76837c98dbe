CONSTANTS
  a = a
  b = b
  c = c
  Proc = {p1}
  File = {a, b}
  Rank <- MCRank
  Cand <- MCCandOne
  MaxVer = 1
  None = None
  Stale = Stale
  Ops = {"targeted"}
  MaxAutoSync = 0
  Faults = {"fail"}
SPECIFICATION Spec
INVARIANTS NoSilentPartialGraph
CHECK_DEADLOCK FALSE
