\* Finding: an edit is handled while reads that came before it are still running.
\* Two reads of named graphs, one of the served graph, one edit.
CONSTANTS
  Read = {r1}
  Snapshot = {g1, g2}
  Edit = {e1}
  MaxReads = 2
  IdleTimeout = TRUE
  Nobody = nobody
SPECIFICATION Spec
INVARIANTS EditsRunAlone
\* The server stops when it has exited.
CHECK_DEADLOCK FALSE
