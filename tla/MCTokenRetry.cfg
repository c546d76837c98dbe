\* Finding: an upload that fails saves the delta it still owes, and counts it again.
SPECIFICATION LedgerSpec
CONSTANTS
  Server = {s1}
  Command = {c1}
  NoFile = NoFile
  Interval = 3
  Cooldown = 2
  MaxEarned = 2
  MaxTime = 4
CONSTRAINT OneWrong
INVARIANTS RetriesCountOnce
CHECK_DEADLOCK FALSE
