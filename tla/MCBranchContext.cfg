\* Two branches and a detached HEAD: the second branch may borrow the first
\* one's database, get a copy of it, or have its own.
CONSTANTS
  Branch = {main, topic}
  Default = main
  Detached = detached
  MaxCheckouts = 3
  MaxCrashes = 1
  None = none
  Free = free
SPECIFICATION FairSpec
INVARIANTS ForeignRowsExplained TornIsMarked
PROPERTIES PublishedFits FollowsCheckout
CHECK_DEADLOCK FALSE
