CONSTANTS
  a = a
  b = b
  c = c
  Proc = {p1}
  File = {a, b, c}
  Rank <- MCRank
  Cand <- MCCandTwo
  MaxVer = 1
  None = None
  Stale = Stale
  Ops = {"sync", "targeted"}
  MaxAutoSync = 0
  Faults = {"crash", "fail"}
SPECIFICATION Spec
INVARIANTS UnmarkedIsNotTorn
CHECK_DEADLOCK FALSE
