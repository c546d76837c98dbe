CONSTANTS
  Proc = {p1, p2, p3}
  Empty = Empty
  NoFile = NoFile
  Waits = TRUE
  MaxPolls = 1
SPECIFICATION FairSpec
INVARIANTS ExclusiveUnlessEvicted HolderOwnsFile
PROPERTIES FreshReadingNeverEvicts AttemptEnds ImplementsAdvisoryLock
CHECK_DEADLOCK FALSE
