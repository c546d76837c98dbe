\* Two instances over one agent and two preferences.
SPECIFICATION Spec
CONSTANTS
  Instance = {i1, i2}
  Agent = {a1}
  Preference = {f1, f2}
  Absent = Absent
  Garbage = Garbage
  MaxEdits = 4
INVARIANTS PendingIsSum
PROPERTIES SavesExactlyOwnEdits UploadTimeNeverGoesBack GarbageNeverOverwritten
CHECK_DEADLOCK FALSE
