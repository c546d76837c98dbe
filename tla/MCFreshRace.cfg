CONSTANTS
  A = A
  B = B
  C = C
  Content = {A, B, C}
  Absent = Absent
  NoRow = NoRow
  SizeOf <- MCSize
  MaxTime = 4
  Backdates = FALSE
  Ops = {"sync"}
SPECIFICATION Spec
INVARIANTS EditsAreSeen
CHECK_DEADLOCK FALSE
