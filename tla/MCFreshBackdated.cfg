CONSTANTS
  A = A
  B = B
  C = C
  Content = {A, B, C}
  Absent = Absent
  NoRow = NoRow
  SizeOf <- MCSize
  MaxTime = 4
  Backdates = TRUE
  Ops = {"lazy"}
SPECIFICATION FairSpec
PROPERTIES ChangesArePickedUp
CHECK_DEADLOCK FALSE
