CONSTANTS
  a = a
  b = b
  c = c
  Proc = {p1}
  File = {a, b}
  Rank <- MCRank
  Cand <- MCCandOne
  MaxVer = 2
  None = None
  Stale = Stale
  Ops = {"index", "sync", "transition", "targeted"}
  MaxAutoSync = 1
  Faults = {"skip"}
SPECIFICATION FairSpec
INVARIANTS UnmarkedIsNotTorn
PROPERTIES SyncCoversScan LockReleased
CHECK_DEADLOCK FALSE
