\* Two threads and three files; a thread can outlive two of its workers.
SPECIFICATION Spec
CONSTANTS
  N = 3
  Thread = {t1, t2}
  NoFile = NoFile
INVARIANTS FileInOnePlace FreshWorkerForEachFile WritesWholeBatch
PROPERTIES PoolReturns
CHECK_DEADLOCK FALSE
