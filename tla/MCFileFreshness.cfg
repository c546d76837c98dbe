CONSTANTS
  A = A
  B = B
  C = C
  Content = {A, B, C}
  Absent = Absent
  NoRow = NoRow
  SizeOf <- MCSize
  MaxTime = 4
  Backdates = TRUE
  Ops = {"index", "sync", "lazy"}
SPECIFICATION FairSpec
INVARIANTS StampTellsContent
PROPERTIES SyncEndsFresh StaleRowIsRefreshed
CHECK_DEADLOCK FALSE
