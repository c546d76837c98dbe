\* A server, a second one of the same project, and a command.
SPECIFICATION LedgerSpec
CONSTANTS
  Server = {s1, s2}
  Command = {c1}
  NoFile = NoFile
  Interval = 3
  Cooldown = 2
  MaxEarned = 2
  MaxTime = 4
CONSTRAINT OneWrong
SYMMETRY Servers
INVARIANTS LedgerTypeOK NothingLost NothingCountedTwice
CHECK_DEADLOCK FALSE
