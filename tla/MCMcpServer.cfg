\* Four calls: one reads the served graph, two read graphs they name, one edits;
\* so a third read waits for a permit.  The client may close its end at any time.
CONSTANTS
  Read = {r1}
  Snapshot = {g1, g2}
  Edit = {e1}
  MaxReads = 2
  IdleTimeout = TRUE
  Nobody = nobody
SPECIFICATION FairSpec
INVARIANTS EndOfInputAnswersAll IdleExitAbandonsNoCall CheckpointAfterCalls
PROPERTIES ImplementsRequestService ClosedConnectionEndsServer SilentServerLeaves
\* The server stops when it has exited.
CHECK_DEADLOCK FALSE
