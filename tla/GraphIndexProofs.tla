-------------------------- MODULE GraphIndexProofs --------------------------
(***************************************************************************)
(* Proofs about GraphIndex, for any number of processes, files, versions   *)
(* and candidates and for every choice of operations and faults: types,    *)
(* one writer at a time, the sentinel over every writer, that a full index *)
(* or a recovery that ends leaves a whole graph, whatever it found, that   *)
(* an unmarked graph is not torn and, with one candidate per reference,    *)
(* whole, and that an operation runs down to its end.                      *)
(***************************************************************************)
EXTENDS GraphIndex, FiniteSetTheorems, TLAPS

\* The lock and the process counters tell the same story, and the operation
\* in the job record is one that can be at that step.
LockDiscipline ==
  /\ \A p \in Proc : pc[p] \in Working => lock = p
  /\ lock \in Proc => pc[lock] \in Working
  /\ \A p \in Proc : pc[p] \in IndexSteps => job.op \in {"index", "recover"}
  /\ \A p \in Proc : pc[p] \in SyncSteps => job.op \in {"sync", "transition", "targeted"}

\* From the sentinel step on, an operation other than a targeted sync is
\* marked; before that step it wrote nothing, except that a recovery may have
\* restored indexes, and that one found the mark.
MarkedSoFar ==
  \A p \in Proc :
    /\ pc[p] \in Working \ {"mark", "smark"} /\ job.op # "targeted" => dirty
    /\ pc[p] = "smark" => ~job.wrote
    /\ pc[p] = "mark" => dirty \/ ~job.wrote

\* The tables hold nothing beyond what the steps before step s of a full index
\* have put there: nodes N, edges E and B, rows R, references U.
Holds(N, L, B, R, U) == nodes = N /\ local = L /\ binds = B /\ rows = R /\ refs = U

Nothing == [f \in File |-> 0]
FullBinds == Resolution(Present(job.batch), Present(job.batch))

IndexProgress ==
  \A p \in Proc :
    /\ pc[p] \in {"xall", "inodes"} => Holds(Nothing, {}, {}, Nothing, {})
    /\ pc[p] = "iedges" => Holds(job.batch, {}, {}, Nothing, {})
    /\ pc[p] = "irows" => Holds(job.batch, Present(job.batch), FullBinds, Nothing, {})
    /\ pc[p] = "irefs" => Holds(job.batch, Present(job.batch), FullBinds, job.batch, {})
    /\ pc[p] = "endbulk" =>
         Holds(job.batch, Present(job.batch), FullBinds, job.batch, Present(job.batch))
    /\ pc[p] = "iend" => Whole

IInv == TypeOK /\ LockDiscipline /\ MarkedSoFar /\ IndexProgress

Op == {"none", "index", "recover", "sync", "transition", "targeted"}

\* The empty job, with an operation named in it or not, is a job.
LEMMA NoJobType ==
  ASSUME GraphAssumption
  PROVE  NoJob \in Job /\ \A o \in Op, w \in BOOLEAN :
           [NoJob EXCEPT !.op = o] \in Job /\ [NoJob EXCEPT !.op = o, !.wrote = w] \in Job
<1>1. [f \in File |-> 0] \in [File -> Version]
  BY GraphAssumption DEF Version
<1>2. NoJob \in Job
  BY <1>1 DEF NoJob, Job
<1>. QED
  BY <1>2 DEF NoJob, Job, Op

\* The fields of a job have their types, and an update of some fields by
\* values of their types gives a job.
LEMMA JobFields ==
  ASSUME NEW j \in Job
  PROVE  /\ j.op \in Op /\ j.seen \in [File -> Version] /\ j.batch \in [File -> Version]
         /\ j.gone \subseteq File /\ j.todo \subseteq File /\ j.done \subseteq File
         /\ j.touched \subseteq File /\ j.skipped \subseteq File /\ j.wrote \in BOOLEAN
  BY DEF Job, Op

LEMMA JobScan ==
  ASSUME NEW j \in Job, NEW v \in [File -> Version], NEW G \in SUBSET File, NEW D \in SUBSET File
  PROVE  [j EXCEPT !.seen = v, !.gone = G, !.todo = D] \in Job
  BY DEF Job

LEMMA JobExtracted ==
  ASSUME NEW j \in Job, NEW v \in [File -> Version], NEW S \in SUBSET File
  PROVE  /\ [j EXCEPT !.skipped = S, !.batch = v] \in Job
         /\ \A w \in [File -> Version] : [j EXCEPT !.seen = w, !.skipped = S, !.batch = v] \in Job
  BY DEF Job

LEMMA JobWrote ==
  ASSUME NEW j \in Job, NEW D \in SUBSET File, NEW T \in SUBSET File, NEW G \in SUBSET File
  PROVE  /\ [j EXCEPT !.wrote = TRUE] \in Job
         /\ [j EXCEPT !.wrote = TRUE, !.done = D, !.touched = T] \in Job
         /\ [j EXCEPT !.gone = G, !.done = D] \in Job
  BY DEF Job

\* Every step keeps the types.
LEMMA TypePreserved ==
  ASSUME GraphAssumption, TypeOK, [Next]_vars
  PROVE  TypeOK'
<1> USE DEF TypeOK, Version, Goto, Idle, Opening, Working, IndexSteps, SyncSteps
<1>1. ASSUME UNCHANGED vars PROVE TypeOK'
  BY <1>1 DEF vars, tables
<1>2. ASSUME NEW f \in File, Edit(f) PROVE TypeOK'
  BY <1>2 DEF Edit, tables
<1>3. ASSUME NEW p \in Proc, NEW op \in {"sync", "transition", "targeted"}, StartSync(p, op) PROVE TypeOK'
  <2>1. job' \in Job
    BY <1>3, NoJobType DEF StartSync, Op
  <2>. QED
    BY <1>3, <2>1 DEF StartSync, tables, LockFree
<1>4. ASSUME NEW p \in Proc, OpenProject(p) PROVE TypeOK'
  BY <1>4 DEF OpenProject, tables
<1>5. ASSUME NEW p \in Proc, Close(p) PROVE TypeOK'
  BY <1>5 DEF Close, tables
<1>6. ASSUME NEW p \in Proc, StartIndex(p) PROVE TypeOK'
  <2>1. job' \in Job
    BY <1>6, NoJobType DEF StartIndex, Op
  <2>. QED
    BY <1>6, <2>1 DEF StartIndex, tables, LockFree
<1>7. ASSUME NEW p \in Proc, ProbeWriter(p) PROVE TypeOK'
  BY <1>7 DEF ProbeWriter, tables, LockFree
<1>8. ASSUME NEW p \in Proc, LockRecovery(p) PROVE TypeOK'
  <2>1. job' \in Job
    BY <1>8, NoJobType DEF LockRecovery, Op
  <2>. QED
    BY <1>8, <2>1 DEF LockRecovery, tables, LockFree
<1>9. ASSUME NEW p \in Proc, WriteSentinel(p) PROVE TypeOK'
  BY <1>9 DEF WriteSentinel, tables
<1>10. ASSUME NEW p \in Proc, BeginBulkLoad(p) PROVE TypeOK'
  BY <1>10, JobWrote DEF BeginBulkLoad, tables
<1>11. ASSUME NEW p \in Proc, Clear(p) PROVE TypeOK'
  BY <1>11 DEF Clear, tables
<1>12. ASSUME NEW p \in Proc, ExtractAll(p) PROVE TypeOK'
  <2>1. PICK S \in SUBSET File :
          job' = [job EXCEPT !.seen = disk, !.skipped = S,
                             !.batch = [f \in File |-> IF f \in S THEN 0 ELSE disk[f]]]
    BY <1>12 DEF ExtractAll, Present
  <2>2. [f \in File |-> IF f \in S THEN 0 ELSE disk[f]] \in [File -> Version]
    OBVIOUS
  <2>3. job' \in Job
    BY <2>1, <2>2, JobExtracted
  <2>. QED
    BY <1>12, <2>3 DEF ExtractAll, tables
<1>13. ASSUME NEW p \in Proc, InsertAllNodes(p) PROVE TypeOK'
  BY <1>13, JobFields DEF InsertAllNodes, tables, Stored
<1>14. ASSUME NEW p \in Proc, InsertAllEdges(p) PROVE TypeOK'
  BY <1>14, JobFields DEF InsertAllEdges, tables, Present, Resolution
<1>15. ASSUME NEW p \in Proc, UpsertAllFiles(p) PROVE TypeOK'
  BY <1>15, JobFields DEF UpsertAllFiles, tables, Stored
<1>16. ASSUME NEW p \in Proc, InsertAllRefs(p) PROVE TypeOK'
  BY <1>16, JobFields DEF InsertAllRefs, tables, Present
<1>17. ASSUME NEW p \in Proc, EndBulkLoad(p) PROVE TypeOK'
  BY <1>17 DEF EndBulkLoad, tables
<1>18. ASSUME NEW p \in Proc, Scan(p) PROVE TypeOK'
  <2>1. PICK G \in SUBSET File, D \in SUBSET File :
          job' = [job EXCEPT !.seen = disk, !.gone = G, !.todo = D]
    <3>1. CASE FullSync
      BY <1>18, <3>1 DEF Scan, FullSync
    <3>2. CASE job.op = "targeted"
      BY <1>18, <3>2 DEF Scan, FullSync, Present
    <3>. QED
      BY <1>18, <3>1, <3>2 DEF Scan
  <2>2. job' \in Job
    BY <2>1, JobScan
  <2>. QED
    BY <1>18, <2>2 DEF Scan, tables
<1>19. ASSUME NEW p \in Proc, RefuseTransition(p) PROVE TypeOK'
  BY <1>19, NoJobType DEF RefuseTransition, tables
<1>20. ASSUME NEW p \in Proc, RemoveNodes(p) PROVE TypeOK'
  <2>1. PICK f \in job.gone : DeleteNodes(f) /\
          \E T \in {job.touched, job.touched \cup {f}} :
            job' = [job EXCEPT !.wrote = TRUE, !.done = {f}, !.touched = T]
    BY <1>20 DEF RemoveNodes
  <2>2. /\ f \in File /\ {f} \in SUBSET File
        /\ {job.touched, job.touched \cup {f}} \subseteq SUBSET File
    BY JobFields
  <2>3. job' \in Job
    <3>1. PICK T \in SUBSET File : job' = [job EXCEPT !.wrote = TRUE, !.done = {f}, !.touched = T]
      BY <2>1, <2>2
    <3>. QED
      BY <2>2, <3>1, JobWrote
  <2>4. /\ nodes' \in [File -> Version] /\ local' \subseteq File /\ refs' \subseteq File
        /\ binds' \subseteq File \X File
    BY <2>1, <2>2 DEF DeleteNodes
  <2>. QED
    BY <1>20, <2>3, <2>4 DEF RemoveNodes, tables
<1>21. ASSUME NEW p \in Proc, RemoveRow(p) PROVE TypeOK'
  <2>1. job' \in Job
    BY <1>21, JobFields, JobWrote DEF RemoveRow
  <2>. QED
    BY <1>21, <2>1 DEF RemoveRow, tables
<1>22. ASSUME NEW p \in Proc, Extract(p) PROVE TypeOK'
  <2>1. PICK S \in SUBSET File :
          job' = [job EXCEPT !.skipped = S,
                             !.batch = [f \in File |-> IF f \in job.todo \ S THEN disk[f] ELSE 0]]
    BY <1>22, JobFields DEF Extract
  <2>2. [f \in File |-> IF f \in job.todo \ S THEN disk[f] ELSE 0] \in [File -> Version]
    BY GraphAssumption
  <2>3. job' \in Job
    BY <2>1, <2>2, JobExtracted
  <2>. QED
    BY <1>22, <2>3 DEF Extract, tables
<1>23. ASSUME NEW p \in Proc, ReplaceFile(p) PROVE TypeOK'
  <2>1. PICK f \in Present(job.batch) : DeleteNodes(f) /\
          job' = [job EXCEPT !.wrote = TRUE, !.done = job.done \cup {f},
                             !.touched = job.touched \cup {f}]
    BY <1>23 DEF ReplaceFile
  <2>2. /\ f \in File
        /\ job.done \cup {f} \in SUBSET File
        /\ job.touched \cup {f} \in SUBSET File
    BY JobFields DEF Present
  <2>3. job' \in Job
    BY <2>1, <2>2, JobWrote
  <2>4. /\ nodes' \in [File -> Version] /\ local' \subseteq File /\ refs' \subseteq File
        /\ binds' \subseteq File \X File
    BY <2>1, <2>2 DEF DeleteNodes
  <2>. QED
    BY <1>23, <2>3, <2>4 DEF ReplaceFile, tables
<1>24. ASSUME NEW p \in Proc, InsertNodes(p) PROVE TypeOK'
  BY <1>24, JobFields DEF InsertNodes, tables
<1>25. ASSUME NEW p \in Proc, InsertRefs(p) PROVE TypeOK'
  BY <1>25, JobFields DEF InsertRefs, tables
<1>26. ASSUME NEW p \in Proc, UpsertFile(p) PROVE TypeOK'
  BY <1>26, JobFields DEF UpsertFile, tables
<1>27. ASSUME NEW p \in Proc, InsertQueuedEdges(p) PROVE TypeOK'
  BY <1>27, JobFields DEF InsertQueuedEdges, tables
<1>28. ASSUME NEW p \in Proc, Resolve(p) PROVE TypeOK'
  BY <1>28 DEF Resolve, tables, Resolution, Present, SkipsResolution, FullSync
<1>29. ASSUME NEW p \in Proc, Finish(p) PROVE TypeOK'
  BY <1>29, NoJobType DEF Finish, tables
<1>30. ASSUME NEW p \in Proc, Fail(p) PROVE TypeOK'
  BY <1>30, NoJobType DEF Fail, LeavesNoMark, tables
<1>31. ASSUME NEW p \in Proc, Crash(p) PROVE TypeOK'
  BY <1>31, NoJobType DEF Crash, LeavesNoMark, tables
<1>q. QED
  BY <1>1, <1>2, <1>3, <1>4, <1>5, <1>6, <1>7, <1>8, <1>9, <1>10, <1>11, <1>12, <1>13, <1>14, <1>15, <1>16, <1>17, <1>18, <1>19, <1>20, <1>21, <1>22, <1>23, <1>24, <1>25, <1>26, <1>27, <1>28, <1>29, <1>30, <1>31 DEF Next, Work

\* Every step keeps the lock discipline: only the lock holder is at work.
LEMMA DisciplinePreserved ==
  ASSUME GraphAssumption, TypeOK, LockDiscipline, [Next]_vars
  PROVE  LockDiscipline'
<1> USE DEF TypeOK, LockDiscipline, Goto, NoJob, Job, Idle, Opening, Working, IndexSteps, SyncSteps
<1>1. ASSUME UNCHANGED vars PROVE LockDiscipline'
  BY <1>1 DEF vars, tables
<1>2. ASSUME NEW f \in File, Edit(f) PROVE LockDiscipline'
  BY <1>2 DEF Edit, tables
<1>3. ASSUME NEW p \in Proc, NEW op \in {"sync", "transition", "targeted"}, StartSync(p, op) PROVE LockDiscipline'
  BY <1>3 DEF StartSync, tables, LockFree
<1>4. ASSUME NEW p \in Proc, OpenProject(p) PROVE LockDiscipline'
  BY <1>4 DEF OpenProject, tables
<1>5. ASSUME NEW p \in Proc, Close(p) PROVE LockDiscipline'
  BY <1>5 DEF Close, tables
<1>6. ASSUME NEW p \in Proc, StartIndex(p) PROVE LockDiscipline'
  BY <1>6 DEF StartIndex, tables, LockFree
<1>7. ASSUME NEW p \in Proc, ProbeWriter(p) PROVE LockDiscipline'
  BY <1>7 DEF ProbeWriter, tables, LockFree
<1>8. ASSUME NEW p \in Proc, LockRecovery(p) PROVE LockDiscipline'
  <2>1. CASE lock' = p /\ LockFree /\ Goto(p, "mark")
    <3>1. job'.op = "recover"
      BY <1>8, <2>1 DEF LockRecovery, Goto
    <3>. QED
      BY <2>1, <3>1 DEF LockFree
  <2>2. CASE UNCHANGED <<lock, job>> /\ pc' \in {[pc EXCEPT ![p] = "ready"], [pc EXCEPT ![p] = "closed"]}
    BY <1>8, <2>2 DEF LockRecovery
  <2>. QED
    BY <1>8, <2>1, <2>2 DEF LockRecovery
<1>9. ASSUME NEW p \in Proc, WriteSentinel(p) PROVE LockDiscipline'
  BY <1>9 DEF WriteSentinel, tables
<1>10. ASSUME NEW p \in Proc, BeginBulkLoad(p) PROVE LockDiscipline'
  BY <1>10 DEF BeginBulkLoad, tables
<1>11. ASSUME NEW p \in Proc, Clear(p) PROVE LockDiscipline'
  BY <1>11 DEF Clear, tables
<1>12. ASSUME NEW p \in Proc, ExtractAll(p) PROVE LockDiscipline'
  BY <1>12 DEF ExtractAll, tables, Present
<1>13. ASSUME NEW p \in Proc, InsertAllNodes(p) PROVE LockDiscipline'
  BY <1>13 DEF InsertAllNodes, tables, Stored
<1>14. ASSUME NEW p \in Proc, InsertAllEdges(p) PROVE LockDiscipline'
  BY <1>14 DEF InsertAllEdges, tables, Present, Resolution
<1>15. ASSUME NEW p \in Proc, UpsertAllFiles(p) PROVE LockDiscipline'
  BY <1>15 DEF UpsertAllFiles, tables, Stored
<1>16. ASSUME NEW p \in Proc, InsertAllRefs(p) PROVE LockDiscipline'
  BY <1>16 DEF InsertAllRefs, tables, Present
<1>17. ASSUME NEW p \in Proc, EndBulkLoad(p) PROVE LockDiscipline'
  BY <1>17 DEF EndBulkLoad, tables
<1>18. ASSUME NEW p \in Proc, Scan(p) PROVE LockDiscipline'
  <2>1. job'.op = job.op
    BY <1>18 DEF Scan
  <2>2. /\ pc[p] = "scan" /\ pc' = [pc EXCEPT ![p] = "remove"] /\ lock' = lock
    BY <1>18 DEF Scan
  <2>. QED
    BY <2>1, <2>2
<1>19. ASSUME NEW p \in Proc, RefuseTransition(p) PROVE LockDiscipline'
  BY <1>19 DEF RefuseTransition, tables
<1>20. ASSUME NEW p \in Proc, RemoveNodes(p) PROVE LockDiscipline'
  BY <1>20 DEF RemoveNodes, tables, DeleteNodes, FullSync
<1>21. ASSUME NEW p \in Proc, RemoveRow(p) PROVE LockDiscipline'
  BY <1>21 DEF RemoveRow, tables
<1>22. ASSUME NEW p \in Proc, Extract(p) PROVE LockDiscipline'
  BY <1>22 DEF Extract, tables
<1>23. ASSUME NEW p \in Proc, ReplaceFile(p) PROVE LockDiscipline'
  BY <1>23 DEF ReplaceFile, tables, DeleteNodes, Present
<1>24. ASSUME NEW p \in Proc, InsertNodes(p) PROVE LockDiscipline'
  BY <1>24 DEF InsertNodes, tables
<1>25. ASSUME NEW p \in Proc, InsertRefs(p) PROVE LockDiscipline'
  BY <1>25 DEF InsertRefs, tables
<1>26. ASSUME NEW p \in Proc, UpsertFile(p) PROVE LockDiscipline'
  BY <1>26 DEF UpsertFile, tables
<1>27. ASSUME NEW p \in Proc, InsertQueuedEdges(p) PROVE LockDiscipline'
  BY <1>27 DEF InsertQueuedEdges, tables
<1>28. ASSUME NEW p \in Proc, Resolve(p) PROVE LockDiscipline'
  BY <1>28 DEF Resolve, tables, Resolution, Present, SkipsResolution, FullSync
<1>29. ASSUME NEW p \in Proc, Finish(p) PROVE LockDiscipline'
  BY <1>29 DEF Finish, tables
<1>30. ASSUME NEW p \in Proc, Fail(p) PROVE LockDiscipline'
  BY <1>30 DEF Fail, tables, LeavesNoMark
<1>31. ASSUME NEW p \in Proc, Crash(p) PROVE LockDiscipline'
  BY <1>31 DEF Crash, tables, LeavesNoMark
<1>q. QED
  BY <1>1, <1>2, <1>3, <1>4, <1>5, <1>6, <1>7, <1>8, <1>9, <1>10, <1>11, <1>12, <1>13, <1>14, <1>15, <1>16, <1>17, <1>18, <1>19, <1>20, <1>21, <1>22, <1>23, <1>24, <1>25, <1>26, <1>27, <1>28, <1>29, <1>30, <1>31 DEF Next, Work

\* Every step keeps the sentinel over the writer.
LEMMA MarkedPreserved ==
  ASSUME GraphAssumption, TypeOK, LockDiscipline, MarkedSoFar, [Next]_vars
  PROVE  MarkedSoFar'
<1> USE DEF TypeOK, LockDiscipline, MarkedSoFar, Goto, NoJob, Job, Idle, Opening, Working, IndexSteps, SyncSteps
<1>1. ASSUME UNCHANGED vars PROVE MarkedSoFar'
  BY <1>1 DEF vars, tables
<1>2. ASSUME NEW f \in File, Edit(f) PROVE MarkedSoFar'
  BY <1>2 DEF Edit, tables
<1>3. ASSUME NEW p \in Proc, NEW op \in {"sync", "transition", "targeted"}, StartSync(p, op) PROVE MarkedSoFar'
  BY <1>3 DEF StartSync, tables, LockFree
<1>4. ASSUME NEW p \in Proc, OpenProject(p) PROVE MarkedSoFar'
  BY <1>4 DEF OpenProject, tables
<1>5. ASSUME NEW p \in Proc, Close(p) PROVE MarkedSoFar'
  BY <1>5 DEF Close, tables
<1>6. ASSUME NEW p \in Proc, StartIndex(p) PROVE MarkedSoFar'
  BY <1>6 DEF StartIndex, tables, LockFree
<1>7. ASSUME NEW p \in Proc, ProbeWriter(p) PROVE MarkedSoFar'
  BY <1>7 DEF ProbeWriter, tables, LockFree
<1>8. ASSUME NEW p \in Proc, LockRecovery(p) PROVE MarkedSoFar'
  BY <1>8 DEF LockRecovery, tables, LockFree
<1>9. ASSUME NEW p \in Proc, WriteSentinel(p) PROVE MarkedSoFar'
  BY <1>9 DEF WriteSentinel, tables
<1>10. ASSUME NEW p \in Proc, BeginBulkLoad(p) PROVE MarkedSoFar'
  BY <1>10 DEF BeginBulkLoad, tables
<1>11. ASSUME NEW p \in Proc, Clear(p) PROVE MarkedSoFar'
  BY <1>11 DEF Clear, tables
<1>12. ASSUME NEW p \in Proc, ExtractAll(p) PROVE MarkedSoFar'
  BY <1>12 DEF ExtractAll, tables, Present
<1>13. ASSUME NEW p \in Proc, InsertAllNodes(p) PROVE MarkedSoFar'
  BY <1>13 DEF InsertAllNodes, tables, Stored
<1>14. ASSUME NEW p \in Proc, InsertAllEdges(p) PROVE MarkedSoFar'
  BY <1>14 DEF InsertAllEdges, tables, Present, Resolution
<1>15. ASSUME NEW p \in Proc, UpsertAllFiles(p) PROVE MarkedSoFar'
  BY <1>15 DEF UpsertAllFiles, tables, Stored
<1>16. ASSUME NEW p \in Proc, InsertAllRefs(p) PROVE MarkedSoFar'
  BY <1>16 DEF InsertAllRefs, tables, Present
<1>17. ASSUME NEW p \in Proc, EndBulkLoad(p) PROVE MarkedSoFar'
  BY <1>17 DEF EndBulkLoad, tables
<1>18. ASSUME NEW p \in Proc, Scan(p) PROVE MarkedSoFar'
  <2>1. job'.op = job.op /\ job'.wrote = job.wrote /\ dirty' = dirty
    BY <1>18 DEF Scan
  <2>2. /\ pc[p] = "scan" /\ pc' = [pc EXCEPT ![p] = "remove"] /\ lock' = lock
    BY <1>18 DEF Scan
  <2>. QED
    BY <2>1, <2>2
<1>19. ASSUME NEW p \in Proc, RefuseTransition(p) PROVE MarkedSoFar'
  BY <1>19 DEF RefuseTransition, tables
<1>20. ASSUME NEW p \in Proc, RemoveNodes(p) PROVE MarkedSoFar'
  BY <1>20 DEF RemoveNodes, tables, DeleteNodes, FullSync
<1>21. ASSUME NEW p \in Proc, RemoveRow(p) PROVE MarkedSoFar'
  BY <1>21 DEF RemoveRow, tables
<1>22. ASSUME NEW p \in Proc, Extract(p) PROVE MarkedSoFar'
  BY <1>22 DEF Extract, tables
<1>23. ASSUME NEW p \in Proc, ReplaceFile(p) PROVE MarkedSoFar'
  BY <1>23 DEF ReplaceFile, tables, DeleteNodes, Present
<1>24. ASSUME NEW p \in Proc, InsertNodes(p) PROVE MarkedSoFar'
  BY <1>24 DEF InsertNodes, tables
<1>25. ASSUME NEW p \in Proc, InsertRefs(p) PROVE MarkedSoFar'
  BY <1>25 DEF InsertRefs, tables
<1>26. ASSUME NEW p \in Proc, UpsertFile(p) PROVE MarkedSoFar'
  BY <1>26 DEF UpsertFile, tables
<1>27. ASSUME NEW p \in Proc, InsertQueuedEdges(p) PROVE MarkedSoFar'
  BY <1>27 DEF InsertQueuedEdges, tables
<1>28. ASSUME NEW p \in Proc, Resolve(p) PROVE MarkedSoFar'
  BY <1>28 DEF Resolve, tables, Resolution, Present, SkipsResolution, FullSync
<1>29. ASSUME NEW p \in Proc, Finish(p) PROVE MarkedSoFar'
  BY <1>29 DEF Finish, tables
<1>30. ASSUME NEW p \in Proc, Fail(p) PROVE MarkedSoFar'
  BY <1>30 DEF Fail, tables, LeavesNoMark
<1>31. ASSUME NEW p \in Proc, Crash(p) PROVE MarkedSoFar'
  BY <1>31 DEF Crash, tables, LeavesNoMark
<1>q. QED
  BY <1>1, <1>2, <1>3, <1>4, <1>5, <1>6, <1>7, <1>8, <1>9, <1>10, <1>11, <1>12, <1>13, <1>14, <1>15, <1>16, <1>17, <1>18, <1>19, <1>20, <1>21, <1>22, <1>23, <1>24, <1>25, <1>26, <1>27, <1>28, <1>29, <1>30, <1>31 DEF Next, Work

\* Every step keeps the record of how far a full index has come: nobody but the
\* process at work writes the tables, and each of its steps adds one part.
LEMMA ProgressPreserved ==
  ASSUME GraphAssumption, TypeOK, LockDiscipline, IndexProgress, [Next]_vars
  PROVE  IndexProgress'
<1> USE DEF LockDiscipline, IndexProgress, Holds, Nothing, FullBinds, Whole, TypeOK, Goto, Idle, Opening, Working, IndexSteps, SyncSteps
<1>1. ASSUME UNCHANGED vars PROVE IndexProgress'
  BY <1>1 DEF vars, tables
<1>2. ASSUME NEW f \in File, Edit(f) PROVE IndexProgress'
  BY <1>2 DEF Edit, tables
<1>3. ASSUME NEW p \in Proc, NEW op \in {"sync", "transition", "targeted"}, StartSync(p, op) PROVE IndexProgress'
  BY <1>3 DEF StartSync, tables, LockFree
<1>4. ASSUME NEW p \in Proc, OpenProject(p) PROVE IndexProgress'
  BY <1>4 DEF OpenProject, tables
<1>5. ASSUME NEW p \in Proc, Close(p) PROVE IndexProgress'
  BY <1>5 DEF Close, tables
<1>6. ASSUME NEW p \in Proc, StartIndex(p) PROVE IndexProgress'
  BY <1>6 DEF StartIndex, tables, LockFree
<1>7. ASSUME NEW p \in Proc, ProbeWriter(p) PROVE IndexProgress'
  BY <1>7 DEF ProbeWriter, tables, LockFree
<1>8. ASSUME NEW p \in Proc, LockRecovery(p) PROVE IndexProgress'
  BY <1>8 DEF LockRecovery, tables, LockFree
<1>9. ASSUME NEW p \in Proc, WriteSentinel(p) PROVE IndexProgress'
  BY <1>9 DEF WriteSentinel, tables
<1>10. ASSUME NEW p \in Proc, BeginBulkLoad(p) PROVE IndexProgress'
  BY <1>10 DEF BeginBulkLoad, tables
<1>11. ASSUME NEW p \in Proc, Clear(p) PROVE IndexProgress'
  BY <1>11 DEF Clear, tables
<1>12. ASSUME NEW p \in Proc, ExtractAll(p) PROVE IndexProgress'
  BY <1>12 DEF ExtractAll, tables
<1>13. ASSUME NEW p \in Proc, InsertAllNodes(p) PROVE IndexProgress'
  <2>1. job.batch \in [File -> Version]
    BY JobFields
  <2>2. Stored(nodes) = job.batch
    BY <1>13, <2>1 DEF InsertAllNodes, Stored, Version
  <2>. QED
    BY <1>13, <2>2 DEF InsertAllNodes, tables
<1>14. ASSUME NEW p \in Proc, InsertAllEdges(p) PROVE IndexProgress'
  BY <1>14 DEF InsertAllEdges, tables
<1>15. ASSUME NEW p \in Proc, UpsertAllFiles(p) PROVE IndexProgress'
  BY <1>15 DEF UpsertAllFiles, tables, Stored
<1>16. ASSUME NEW p \in Proc, InsertAllRefs(p) PROVE IndexProgress'
  BY <1>16 DEF InsertAllRefs, tables
<1>17. ASSUME NEW p \in Proc, EndBulkLoad(p) PROVE IndexProgress'
  BY <1>17 DEF EndBulkLoad, tables
<1>18. ASSUME NEW p \in Proc, Scan(p) PROVE IndexProgress'
  BY <1>18 DEF Scan, tables, FullSync
<1>19. ASSUME NEW p \in Proc, RefuseTransition(p) PROVE IndexProgress'
  BY <1>19 DEF RefuseTransition, tables
<1>20. ASSUME NEW p \in Proc, RemoveNodes(p) PROVE IndexProgress'
  BY <1>20 DEF RemoveNodes, tables, DeleteNodes
<1>21. ASSUME NEW p \in Proc, RemoveRow(p) PROVE IndexProgress'
  BY <1>21 DEF RemoveRow, tables
<1>22. ASSUME NEW p \in Proc, Extract(p) PROVE IndexProgress'
  BY <1>22 DEF Extract, tables
<1>23. ASSUME NEW p \in Proc, ReplaceFile(p) PROVE IndexProgress'
  BY <1>23 DEF ReplaceFile, tables, DeleteNodes
<1>24. ASSUME NEW p \in Proc, InsertNodes(p) PROVE IndexProgress'
  BY <1>24 DEF InsertNodes, tables
<1>25. ASSUME NEW p \in Proc, InsertRefs(p) PROVE IndexProgress'
  BY <1>25 DEF InsertRefs, tables
<1>26. ASSUME NEW p \in Proc, UpsertFile(p) PROVE IndexProgress'
  BY <1>26 DEF UpsertFile, tables
<1>27. ASSUME NEW p \in Proc, InsertQueuedEdges(p) PROVE IndexProgress'
  BY <1>27 DEF InsertQueuedEdges, tables
<1>28. ASSUME NEW p \in Proc, Resolve(p) PROVE IndexProgress'
  BY <1>28 DEF Resolve, tables
<1>29. ASSUME NEW p \in Proc, Finish(p) PROVE IndexProgress'
  BY <1>29 DEF Finish, tables
<1>30. ASSUME NEW p \in Proc, Fail(p) PROVE IndexProgress'
  BY <1>30 DEF Fail, tables, LeavesNoMark
<1>31. ASSUME NEW p \in Proc, Crash(p) PROVE IndexProgress'
  BY <1>31 DEF Crash, tables, LeavesNoMark
<1> HIDE DEF LockDiscipline, IndexProgress, TypeOK, Goto
<1>q. QED
  BY <1>1, <1>2, <1>3, <1>4, <1>5, <1>6, <1>7, <1>8, <1>9, <1>10, <1>11, <1>12, <1>13, <1>14, <1>15, <1>16, <1>17, <1>18, <1>19, <1>20, <1>21, <1>22, <1>23, <1>24, <1>25, <1>26, <1>27, <1>28, <1>29, <1>30, <1>31 DEF Next, Work
-----------------------------------------------------------------------------
LEMMA InitInv ==
  ASSUME GraphAssumption, Init
  PROVE  IInv
<1> USE DEF Init, Version
<1>1. TypeOK
  <2>1. /\ disk \in [File -> Version] /\ rows \in [File -> Version]
        /\ Present(rows) \subseteq File
    BY GraphAssumption DEF Present
  <2>2. binds \subseteq File \X File
    BY <2>1 DEF Resolution, Present
  <2>. QED
    BY <2>1, <2>2, NoJobType DEF TypeOK, Idle
<1>2. LockDiscipline /\ MarkedSoFar /\ IndexProgress
  BY GraphAssumption
  DEF LockDiscipline, MarkedSoFar, IndexProgress, Working, IndexSteps, SyncSteps
<1>. QED
  BY <1>1, <1>2 DEF IInv

\* The inductive invariant holds in every reachable state.
THEOREM Invariance == Spec => []IInv
<1>1. Init => IInv
  BY InitInv, GraphAssumption
<1>2. IInv /\ [Next]_vars => IInv'
  BY GraphAssumption, TypePreserved, DisciplinePreserved, MarkedPreserved, ProgressPreserved DEF IInv
<1>. QED
  BY <1>1, <1>2, PTL DEF Spec

\* Every reachable state has the types of TypeOK.
THEOREM TypeCorrect == Spec => []TypeOK
<1>1. IInv => TypeOK
  BY DEF IInv
<1>. QED
  BY <1>1, Invariance, PTL

\* The sentinel stands while a full index, a recovery or a full sync that has
\* begun to write holds the lock.
THEOREM SentinelOverWriter == Spec => []WriterIsMarked
<1>1. IInv => WriterIsMarked
  BY DEF IInv, TypeOK, LockDiscipline, MarkedSoFar, WriterIsMarked, Working, IndexSteps, SyncSteps
<1>. QED
  BY <1>1, Invariance, PTL

\* A full index or a recovery that runs to its end leaves a whole graph behind,
\* whatever faults, crashes and edits came before or during it.
THEOREM RepairComplete == Spec => FullIndexRepairs
<1>1. IInv /\ [Next]_vars =>
        [\A p \in Proc : pc[p] = "iend" /\ pc'[p] = "ready" => Whole']_vars
  <2> SUFFICES ASSUME IInv, Next, NEW p \in Proc, pc[p] = "iend", pc'[p] = "ready"
               PROVE  Whole'
    BY DEF vars
  <2>1. Whole
    BY DEF IInv, IndexProgress
  <2>2. Finish(p) \/ Fail(p) \/ Crash(p)
    <3> USE DEF IInv, TypeOK, Goto
    <3>1. ASSUME NEW f \in File, Edit(f) PROVE FALSE
      BY <3>1 DEF Edit
    <3>2. ASSUME NEW q \in Proc,
                 \/ OpenProject(q) \/ Close(q) \/ StartIndex(q)
                 \/ \E op \in {"sync", "transition", "targeted"} : StartSync(q, op)
          PROVE  FALSE
      BY <3>2 DEF OpenProject, Close, StartIndex, StartSync
    <3>3. ASSUME NEW q \in Proc, Work(q) PROVE Finish(p)
      BY <3>3 DEF Work, ProbeWriter, LockRecovery, WriteSentinel, BeginBulkLoad, Clear,
                  ExtractAll, InsertAllNodes, InsertAllEdges, UpsertAllFiles, InsertAllRefs,
                  EndBulkLoad, Scan, RefuseTransition, RemoveNodes, RemoveRow, Extract,
                  ReplaceFile, InsertNodes, InsertRefs, UpsertFile, InsertQueuedEdges,
                  Resolve, Finish
    <3>4. ASSUME NEW q \in Proc, Fail(q) \/ Crash(q) PROVE Fail(p) \/ Crash(p)
      BY <3>4 DEF Fail, Crash
    <3> HIDE DEF IInv, TypeOK, Goto
    <3>. QED
      BY <3>1, <3>2, <3>3, <3>4 DEF Next
  <2>3. UNCHANGED tables
    BY <2>2 DEF Finish, Fail, Crash, tables
  <2>. QED
    BY <2>1, <2>3 DEF Whole, tables
<1>. QED
  BY <1>1, Invariance, PTL DEF Spec, FullIndexRepairs

-----------------------------------------------------------------------------
(* The central invariant: without a sentinel and a writer the graph is     *)
(* whole, unless lost names the reason.  Where a reference has at most one  *)
(* candidate that means: as a full index would leave it.  With two, syncs  *)
(* drift from a full index (see SyncConverges), but nothing is torn.       *)

OneCandidate == \A f \in File : \A g, h \in Cand[f] : g = h

\* The edges that join a file of F to a candidate of its reference in F.
Among(F) == {e \in F \X F : e[2] \in Cand[e[1]]}

\* The edges B are edges among the files of F; where a reference has at most one
\* candidate, they are all of them.
Fits(B, F) == B \subseteq Among(F) /\ (OneCandidate => Among(F) \subseteq B)

\* The files outside D are whole, and nothing is stored of an edge of D.
WholeBut(D) ==
  /\ ~bulk
  /\ \A f \in File \ D : nodes[f] = rows[f]
  /\ local = Present(rows) \ D
  /\ refs \ D = Present(rows) \ D
  /\ Fits(binds, Present(rows) \ D)

\* What a sync has taken in hand, and that it has begun to write by then.
BatchOf(p) ==
  /\ pc[p] \in {"smark", "scan", "remove"} => job.done = {}
  /\ pc[p] \in {"drop", "nodes", "refs", "row", "resolve"} =>
       /\ job.done \subseteq Present(job.batch) /\ job.done \subseteq job.touched
       /\ Present(job.batch) \subseteq job.todo
       /\ job.done # {} => job.wrote
  /\ pc[p] \in {"forget", "nodes", "refs", "row"} => job.wrote
  /\ pc[p] = "forget" => job.done # {} /\ job.done \subseteq job.gone

\* How far a sync that started on a whole graph has come with the files in hand.
ProgressOf(p) ==
  /\ pc[p] = "mark" /\ ~dirty => WholeBut({})
  /\ pc[p] \in {"smark", "scan", "remove", "send"} => WholeBut({})
  /\ pc[p] \in {"forget", "drop", "nodes", "refs", "row"} => WholeBut(job.done)
  /\ pc[p] = "forget" =>
       /\ \A f \in job.done : nodes[f] = 0
       /\ refs \cap job.done = {}
  /\ pc[p] \in {"drop", "refs", "row"} => \A f \in job.done : nodes[f] = job.batch[f]
  /\ pc[p] \in {"drop", "row"} => job.done \subseteq refs
  /\ pc[p] = "drop" => \A f \in job.done : rows[f] = job.batch[f]
  /\ pc[p] = "resolve" =>
       /\ ~bulk /\ nodes = rows /\ local = Present(rows) /\ refs = Present(rows)
       /\ Fits(binds, Present(rows) \ job.done)

BatchOK == \A p \in Proc : BatchOf(p)
SyncProgress == \A p \in Proc : ProgressOf(p)

\* The graph at rest.
AtRest == ~Writing /\ ~dirty => WholeBut({})

PInv == BatchOK /\ (~lost => SyncProgress /\ AtRest)

\* Resolution binds a reference to a candidate, to the only one if there is one.
LEMMA BestAmongCandidates ==
  ASSUME GraphAssumption, NEW F \in SUBSET File, NEW D \in SUBSET File
  PROVE  /\ Resolution(F, D) \subseteq {e \in F \X D : e[2] \in Cand[e[1]]}
         /\ OneCandidate => Resolution(F, D) = {e \in F \X D : e[2] \in Cand[e[1]]}
<1>1. \A f \in F : Best(f, D) \subseteq Cand[f] \cap D
  BY DEF Best
<1>2. OneCandidate => \A f \in F : Best(f, D) = Cand[f] \cap D
  BY GraphAssumption DEF OneCandidate, Best
<1>. QED
  BY <1>1, <1>2 DEF Resolution

LEMMA WholeIsWhole ==
  ASSUME GraphAssumption, TypeOK
  PROVE  /\ Whole => WholeBut({})
         /\ OneCandidate /\ WholeBut({}) => Whole
<1>1. Present(rows) \in SUBSET File
  BY DEF Present
<1>2. /\ Resolution(Present(rows), Present(rows)) \subseteq Among(Present(rows))
      /\ OneCandidate => Resolution(Present(rows), Present(rows)) = Among(Present(rows))
  BY <1>1, BestAmongCandidates DEF Among
<1>3. nodes = rows <=> \A f \in File : nodes[f] = rows[f]
  BY DEF TypeOK
<1>4. Present(rows) \ {} = Present(rows)
  OBVIOUS
<1>5. Whole => WholeBut({})
  <2> SUFFICES ASSUME Whole PROVE WholeBut({})
    OBVIOUS
  <2>1. /\ ~bulk /\ nodes = rows /\ local = Present(rows) /\ refs = Present(rows)
        /\ binds = Resolution(Present(rows), Present(rows))
    BY DEF Whole
  <2>2. Fits(binds, Present(rows))
    BY <1>2, <2>1 DEF Fits
  <2>. QED
    BY <1>3, <1>4, <2>1, <2>2 DEF WholeBut
<1>6. ASSUME OneCandidate, WholeBut({}) PROVE Whole
  <2>1. /\ ~bulk /\ nodes = rows /\ local = Present(rows) /\ refs = Present(rows)
        /\ Fits(binds, Present(rows))
    BY <1>3, <1>4, <1>6 DEF WholeBut
  <2>2. binds = Resolution(Present(rows), Present(rows))
    <3>1. binds \subseteq Among(Present(rows)) /\ Among(Present(rows)) \subseteq binds
      BY <1>6, <2>1 DEF Fits
    <3>2. binds = Among(Present(rows))
      BY <3>1
    <3>. QED
      BY <1>2, <1>6, <3>2
  <2>. QED
    BY <2>1, <2>2 DEF Whole
<1>. QED
  BY <1>5, <1>6

\* Only the holder of the lock is at work, also after its step.
LEMMA OthersRest ==
  ASSUME TypeOK, LockDiscipline, NEW p \in Proc, pc[p] \in Working, NEW l, Goto(p, l)
  PROVE  \A q \in Proc \ {p} : pc'[q] \notin Working
BY DEF TypeOK, LockDiscipline, Goto

\* A process that is not at work has nothing in hand.
LEMMA WorkerOnly ==
  ASSUME NEW p \in Proc, \A q \in Proc \ {p} : pc'[q] \notin Working
  PROVE  (BatchOf(p)' => BatchOK') /\ (ProgressOf(p)' => SyncProgress')
BY DEF BatchOK, SyncProgress, BatchOf, ProgressOf, Working, IndexSteps, SyncSteps

\* Every step keeps the record of what a sync has in hand.
LEMMA BatchPreserved ==
  ASSUME GraphAssumption, TypeOK, LockDiscipline, BatchOK, [Next]_vars
  PROVE  BatchOK'
<1> USE DEF Working, IndexSteps, SyncSteps
<1>1. ASSUME UNCHANGED <<pc, job>> PROVE BatchOK'
  BY <1>1 DEF BatchOK, BatchOf, Present
<1>2. ASSUME NEW p \in Proc, NEW l \in {"ready", "closed", "probe", "lockrec"}, Goto(p, l),
             job' = job
      PROVE  BatchOK'
  BY <1>2 DEF BatchOK, BatchOf, Goto, TypeOK, Present
<1>3. ASSUME NEW p \in Proc, NEW l, Goto(p, l), job'.done = {},
             l \notin {"drop", "nodes", "refs", "row", "resolve", "forget"},
             \A q \in Proc \ {p} : pc'[q] \notin Working
      PROVE  BatchOK'
  <2>1. pc'[p] = l
    BY <1>3 DEF Goto, TypeOK
  <2>2. BatchOf(p)'
    BY <1>3, <2>1 DEF BatchOf
  <2>. QED
    BY <1>3, <2>2, WorkerOnly
<1>4. ASSUME NEW p \in Proc, pc[p] \in Working, NEW l, Goto(p, l),
             l \in IndexSteps \cup {"send"}
      PROVE  BatchOK'
  <2>1. pc'[p] = l
    BY <1>4 DEF Goto, TypeOK
  <2>2. BatchOf(p)'
    BY <1>4, <2>1 DEF BatchOf
  <2>. QED
    BY <1>4, <2>2, WorkerOnly, OthersRest
<1>5. NoJob.done = {} /\ \A o, w : [NoJob EXCEPT !.op = o].done = {}
                                   /\ [NoJob EXCEPT !.op = o, !.wrote = w].done = {}
  BY DEF NoJob
<1>6. LockFree => \A q \in Proc : pc[q] \notin Working
  BY GraphAssumption DEF LockFree, LockDiscipline
<1>7. ASSUME NEW p \in Proc, OpenProject(p) \/ Close(p) \/ ProbeWriter(p) PROVE BatchOK'
  BY <1>2, <1>7 DEF OpenProject, Close, ProbeWriter
<1>8. ASSUME NEW p \in Proc, LockRecovery(p) PROVE BatchOK'
  <2>1. CASE LockFree /\ dirty
    <3>1. Goto(p, "mark") /\ job' = [NoJob EXCEPT !.op = "recover", !.wrote = bulk]
      BY <1>8, <2>1 DEF LockRecovery
    <3>3. job'.done = {}
      BY <3>1 DEF NoJob
    <3>2. \A q \in Proc \ {p} : pc'[q] \notin Working
      BY <1>6, <2>1, <3>1 DEF Goto, TypeOK
    <3>. QED
      BY <1>3, <3>1, <3>2, <3>3
  <2>2. CASE ~(LockFree /\ dirty)
    BY <1>2, <1>8, <2>2 DEF LockRecovery
  <2>. QED
    BY <2>1, <2>2
<1>9. ASSUME NEW p \in Proc, NEW l \in {"mark", "scan", "smark"}, LockFree, Goto(p, l),
             job'.done = {}
      PROVE  BatchOK'
  <2>1. \A q \in Proc \ {p} : pc'[q] \notin Working
    BY <1>6, <1>9 DEF Goto, TypeOK
  <2>. QED
    BY <1>3, <1>9, <2>1
<1>10. ASSUME NEW p \in Proc, StartIndex(p) PROVE BatchOK'
  BY <1>5, <1>9, <1>10 DEF StartIndex
<1>11. ASSUME NEW p \in Proc, NEW op \in {"sync", "transition", "targeted"}, StartSync(p, op)
       PROVE  BatchOK'
  BY <1>5, <1>9, <1>11 DEF StartSync
<1>12. ASSUME NEW p \in Proc, pc[p] \in Working, NEW l, Goto(p, l), BatchOf(p)' PROVE BatchOK'
  BY <1>12, WorkerOnly, OthersRest
<1>13. ASSUME NEW p \in Proc, WriteSentinel(p) PROVE BatchOK'
  <2>1. CASE pc[p] = "mark"
    BY <1>4, <1>13, <2>1 DEF WriteSentinel
  <2>2. CASE pc[p] = "smark"
    <3>1. Goto(p, "scan") /\ job'.done = {}
      BY <1>13, <2>2 DEF WriteSentinel, BatchOK, BatchOf
    <3>. QED
      BY <1>3, <2>2, <3>1, OthersRest
  <2>. QED
    BY <1>13, <2>1, <2>2 DEF WriteSentinel
<1>14. ASSUME NEW p \in Proc,
              BeginBulkLoad(p) \/ Clear(p) \/ ExtractAll(p) \/ InsertAllNodes(p)
              \/ InsertAllEdges(p) \/ UpsertAllFiles(p) \/ InsertAllRefs(p) \/ EndBulkLoad(p)
              \/ Resolve(p)
       PROVE  BatchOK'
  BY <1>4, <1>14 DEF BeginBulkLoad, Clear, ExtractAll, InsertAllNodes, InsertAllEdges,
                     UpsertAllFiles, InsertAllRefs, EndBulkLoad, Resolve
<1>15. ASSUME NEW p \in Proc, Scan(p) PROVE BatchOK'
  <2>1. pc[p] = "scan" /\ Goto(p, "remove")
    BY <1>15 DEF Scan
  <2>2. job'.done = {}
    <3>1. job'.done = job.done
      <4>1. ASSUME NEW G, NEW D, job' = [job EXCEPT !.seen = disk, !.gone = G, !.todo = D]
            PROVE  job'.done = job.done
        BY <4>1 DEF TypeOK, Job
      <4>2. CASE FullSync
        BY <1>15, <4>1, <4>2 DEF Scan, FullSync
      <4>3. CASE job.op = "targeted"
        BY <1>15, <4>1, <4>3 DEF Scan, FullSync
      <4>. QED
        BY <1>15, <4>2, <4>3 DEF Scan
    <3>. QED
      BY <2>1, <3>1 DEF BatchOK, BatchOf
  <2>. QED
    BY <1>3, <2>1, <2>2, OthersRest
<1>16. ASSUME NEW p \in Proc, RemoveNodes(p) PROVE BatchOK'
  <2>1. /\ pc[p] = "remove" /\ Goto(p, "forget")
        /\ job'.wrote = TRUE /\ job'.gone = job.gone
        /\ job'.done # {} /\ job'.done \subseteq job.gone
    BY <1>16, JobFields DEF RemoveNodes, TypeOK, Job
  <2>2. BatchOf(p)'
    BY <2>1 DEF BatchOf, Goto, TypeOK
  <2>. QED
    BY <1>12, <2>1, <2>2
<1>17. ASSUME NEW p \in Proc, RemoveRow(p) PROVE BatchOK'
  <2>1. pc[p] = "forget" /\ Goto(p, "remove") /\ job'.done = {}
    BY <1>17 DEF RemoveRow, TypeOK, Job
  <2>. QED
    BY <1>3, <2>1, OthersRest
<1>18. ASSUME NEW p \in Proc, Extract(p) PROVE BatchOK'
  <2>1. PICK S \in SUBSET job.todo :
          job' = [job EXCEPT !.skipped = S,
                             !.batch = [f \in File |-> IF f \in job.todo \ S THEN disk[f] ELSE 0]]
    BY <1>18 DEF Extract
  <2>2. /\ pc[p] = "remove" /\ Goto(p, "drop")
        /\ job'.done = job.done /\ job'.todo = job.todo
        /\ job'.batch = [f \in File |-> IF f \in job.todo \ S THEN disk[f] ELSE 0]
    BY <1>18, <2>1 DEF Extract, TypeOK, Job
  <2>3. Present(job'.batch) \subseteq job'.todo
    BY <2>2 DEF Present
  <2>4. job'.done = {}
    BY <2>2 DEF BatchOK, BatchOf
  <2>5. BatchOf(p)'
    BY <2>2, <2>3, <2>4 DEF BatchOf, Goto, TypeOK, Present
  <2>. QED
    BY <1>12, <2>2, <2>5
<1>19. ASSUME NEW p \in Proc, ReplaceFile(p) PROVE BatchOK'
  <2>1. PICK f \in Present(job.batch) :
          job' = [job EXCEPT !.wrote = TRUE, !.done = job.done \cup {f},
                             !.touched = job.touched \cup {f}]
    BY <1>19 DEF ReplaceFile
  <2>2. /\ pc[p] = "drop" /\ Goto(p, "nodes")
        /\ job'.wrote = TRUE /\ job'.done = job.done \cup {f}
        /\ job'.touched = job.touched \cup {f}
        /\ job'.batch = job.batch /\ job'.todo = job.todo
    BY <1>19, <2>1 DEF ReplaceFile, TypeOK, Job
  <2>3. BatchOf(p)'
    BY <2>2 DEF BatchOK, BatchOf, Goto, TypeOK, Present
  <2>. QED
    BY <1>12, <2>2, <2>3
<1>20. ASSUME NEW p \in Proc,
              InsertNodes(p) \/ InsertRefs(p) \/ UpsertFile(p) \/ InsertQueuedEdges(p)
       PROVE  BatchOK'
  <2>1. PICK l \in {"refs", "row", "drop", "resolve"} : Goto(p, l)
    BY <1>20 DEF InsertNodes, InsertRefs, UpsertFile, InsertQueuedEdges
  <2>2. pc[p] \in {"drop", "nodes", "refs", "row"} /\ job' = job
    BY <1>20 DEF InsertNodes, InsertRefs, UpsertFile, InsertQueuedEdges
  <2>3. l \in {"refs", "row"} => pc[p] \in {"nodes", "refs"}
    BY <1>20, <2>1 DEF InsertNodes, InsertRefs, UpsertFile, InsertQueuedEdges, Goto, TypeOK
  <2>4. BatchOf(p)'
    BY <2>1, <2>2, <2>3 DEF BatchOK, BatchOf, Goto, TypeOK, Present
  <2>. QED
    BY <1>12, <2>1, <2>2, <2>4
<1>21. ASSUME NEW p \in Proc, RefuseTransition(p) \/ Finish(p) \/ Fail(p) PROVE BatchOK'
  <2>1. /\ pc[p] \in Working /\ job' = NoJob
        /\ Goto(p, "ready") \/ Goto(p, "closed")
    BY <1>21 DEF RefuseTransition, Finish, Fail
  <2>. QED
    BY <1>3, <1>5, <2>1, OthersRest
<1>22. ASSUME NEW p \in Proc, Crash(p) PROVE BatchOK'
  <2>1. CASE lock = p
    BY <1>3, <1>5, <1>22, <2>1, OthersRest DEF Crash, LockDiscipline
  <2>2. CASE lock # p
    BY <1>2, <1>22, <2>2 DEF Crash
  <2>. QED
    BY <2>1, <2>2
<1>23. CASE UNCHANGED vars
  BY <1>1, <1>23 DEF vars
<1>24. ASSUME NEW f \in File, Edit(f) PROVE BatchOK'
  BY <1>1, <1>24 DEF Edit
<1>. QED
  BY <1>7, <1>8, <1>10, <1>11, <1>13, <1>14, <1>15, <1>16, <1>17, <1>18, <1>19, <1>20, <1>21,
     <1>22, <1>23, <1>24 DEF Next, Work

\* Where no step has touched the tables, a whole graph is still whole.
LEMMA Untouched ==
  ASSUME UNCHANGED tables
  PROVE  WholeBut({})' <=> WholeBut({})
BY DEF tables, WholeBut, Present, Fits, Among

\* Until something is lost, every step keeps the record of how far a sync has
\* come, and the graph whole wherever nobody writes and no sentinel stands.
LEMMA SyncPreserved ==
  ASSUME GraphAssumption, TypeOK, LockDiscipline, MarkedSoFar, IndexProgress,
         BatchOK, SyncProgress, AtRest, [Next]_vars, ~lost'
  PROVE  SyncProgress' /\ AtRest'
<1> USE DEF Working, IndexSteps, SyncSteps
<1> DEFINE Goal == SyncProgress' /\ AtRest'
<1>1. ASSUME tables' = tables, dirty' = dirty, pc' = pc, job' = job PROVE Goal
  BY <1>1 DEF tables, SyncProgress, ProgressOf, AtRest, Writing, WholeBut, Present, Fits, Among
<1>2. ASSUME NEW p \in Proc, pc[p] \notin Working, NEW l \in {"ready", "closed", "probe", "lockrec"},
             Goto(p, l), UNCHANGED <<tables, dirty, job>>
      PROVE  Goal
  <2>1. \A q \in Proc : pc'[q] \in Working => pc'[q] = pc[q]
    BY <1>2 DEF Goto, TypeOK
  <2>2. Writing' <=> Writing
    BY <1>2 DEF Goto, TypeOK, Writing
  <2>3. AtRest'
    BY <1>2, <2>2, Untouched DEF AtRest
  <2>4. \A q \in Proc : pc'[q] \in Working => ProgressOf(q)'
    BY <1>2, <2>1
    DEF tables, SyncProgress, ProgressOf, WholeBut, Present, Fits, Among
  <2>5. SyncProgress'
    BY <2>4 DEF SyncProgress, ProgressOf
  <2>. QED
    BY <2>3, <2>5
<1>3. LockFree => \A q \in Proc : pc[q] \notin Working
  BY GraphAssumption DEF LockFree, LockDiscipline
\* The worker goes on: only its own progress is to be shown.
<1>4. ASSUME NEW p \in Proc, pc[p] \in Working \/ LockFree, NEW l \in Working, Goto(p, l),
             ProgressOf(p)'
      PROVE  Goal
  <2>1. \A q \in Proc \ {p} : pc'[q] \notin Working
    BY <1>3, <1>4, OthersRest DEF Goto, TypeOK
  <2>2. Writing'
    BY <1>4 DEF Writing, Goto, TypeOK
  <2>. QED
    BY <1>4, <2>1, <2>2, WorkerOnly DEF AtRest
\* The worker stops: only the state of the graph is to be shown.
<1>5. ASSUME NEW p \in Proc, pc[p] \in Working, NEW l \in {"ready", "closed"}, Goto(p, l),
             dirty' \/ WholeBut({})'
      PROVE  Goal
  <2>1. \A q \in Proc \ {p} : pc'[q] \notin Working
    BY <1>5, OthersRest
  <2>2. ProgressOf(p)'
    BY <1>5 DEF ProgressOf, Goto, TypeOK
  <2>. QED
    BY <1>5, <2>1, <2>2, WorkerOnly DEF AtRest
<1> HIDE DEF Goal
<1>6. ASSUME NEW p \in Proc, OpenProject(p) \/ Close(p) \/ ProbeWriter(p) PROVE Goal
  BY <1>2, <1>6 DEF OpenProject, Close, ProbeWriter
<1>7. ASSUME NEW p \in Proc, LockRecovery(p) PROVE Goal
  <2>1. CASE LockFree /\ dirty
    <3>1. Goto(p, "mark") /\ dirty'
      BY <1>7, <2>1 DEF LockRecovery
    <3>2. ProgressOf(p)'
      BY <3>1 DEF ProgressOf, Goto, TypeOK
    <3>. QED
      BY <1>4, <2>1, <3>1, <3>2
  <2>2. CASE ~(LockFree /\ dirty)
    BY <1>2, <1>7, <2>2 DEF LockRecovery, tables
  <2>. QED
    BY <2>1, <2>2
\* An operation starts on a graph at rest.
<1>8. ASSUME NEW p \in Proc, LockFree, NEW l \in {"mark", "scan", "smark"}, Goto(p, l),
             l = "mark" \/ ~dirty, UNCHANGED <<tables, dirty>>
      PROVE  Goal
  <2>1. ~dirty => WholeBut({})'
    BY <1>3, <1>8, Untouched DEF AtRest, Writing
  <2>2. ProgressOf(p)'
    BY <1>8, <2>1 DEF ProgressOf, Goto, TypeOK
  <2>. QED
    BY <1>4, <1>8, <2>2
<1>9. ASSUME NEW p \in Proc, StartIndex(p) PROVE Goal
  BY <1>8, <1>9 DEF StartIndex
<1>10. ASSUME NEW p \in Proc, NEW op \in {"sync", "transition", "targeted"}, StartSync(p, op)
       PROVE  Goal
  <2>1. LockFree /\ UNCHANGED <<tables, dirty>> /\ ~dirty
    BY <1>10 DEF StartSync
  <2>2. PICK l \in {"scan", "smark"} : Goto(p, l)
    BY <1>10 DEF StartSync
  <2>. QED
    BY <1>8, <2>1, <2>2
\* The steps of a full index before its last are under the sentinel.
<1>11. ASSUME NEW p \in Proc, pc[p] \in Working, NEW l \in IndexSteps \ {"mark"}, Goto(p, l)
       PROVE  Goal
  <2>1. ProgressOf(p)'
    BY <1>11 DEF ProgressOf, Goto, TypeOK
  <2>. QED
    BY <1>4, <1>11, <2>1
<1>12. ASSUME NEW p \in Proc,
              BeginBulkLoad(p) \/ Clear(p) \/ ExtractAll(p) \/ InsertAllNodes(p)
              \/ InsertAllEdges(p) \/ UpsertAllFiles(p) \/ InsertAllRefs(p) \/ EndBulkLoad(p)
       PROVE  Goal
  BY <1>11, <1>12 DEF BeginBulkLoad, Clear, ExtractAll, InsertAllNodes, InsertAllEdges,
                      UpsertAllFiles, InsertAllRefs, EndBulkLoad
\* Nothing is written before the first removal.
<1>13. ASSUME NEW p \in Proc, pc[p] \in {"smark", "scan", "remove", "send"},
              NEW l \in {"scan", "remove"}, Goto(p, l), UNCHANGED tables
       PROVE  Goal
  <2>1. WholeBut({})'
    BY <1>13, Untouched DEF SyncProgress, ProgressOf
  <2>2. ProgressOf(p)'
    BY <1>13, <2>1 DEF ProgressOf, Goto, TypeOK
  <2>. QED
    BY <1>4, <1>13, <2>2
<1>14. ASSUME NEW p \in Proc, WriteSentinel(p) PROVE Goal
  <2>1. CASE pc[p] = "mark"
    BY <1>11, <1>14, <2>1 DEF WriteSentinel
  <2>2. CASE pc[p] = "smark"
    BY <1>13, <1>14, <2>2 DEF WriteSentinel
  <2>. QED
    BY <1>14, <2>1, <2>2 DEF WriteSentinel
<1>15. ASSUME NEW p \in Proc, Scan(p) PROVE Goal
  BY <1>13, <1>15 DEF Scan
\* The first commit of a removal or of a rewrite takes one more file in hand.
<1>16. ASSUME NEW f \in File, NEW D \in SUBSET File, WholeBut(D), DeleteNodes(f),
              UNCHANGED <<rows, bulk>>
       PROVE  /\ ~bulk'
              /\ \A g \in File \ (D \cup {f}) : nodes'[g] = rows'[g]
              /\ local' = Present(rows') \ (D \cup {f})
              /\ refs' \ (D \cup {f}) = Present(rows') \ (D \cup {f})
              /\ Fits(binds', Present(rows') \ (D \cup {f}))
  <2>1. Fits(binds', Present(rows) \ (D \cup {f}))
    BY <1>16 DEF DeleteNodes, WholeBut, Among, Fits
  <2>. QED
    BY <1>16, <2>1 DEF DeleteNodes, WholeBut, TypeOK
<1>17. ASSUME NEW p \in Proc, RemoveNodes(p) PROVE Goal
  <2>1. PICK f \in job.gone : DeleteNodes(f) /\ job'.done = {f}
    BY <1>17 DEF RemoveNodes, TypeOK, Job
  <2>2. f \in File
    BY JobFields DEF TypeOK
  <2>3. /\ pc[p] = "remove" /\ Goto(p, "forget") /\ UNCHANGED <<rows, bulk>>
    BY <1>17 DEF RemoveNodes
  <2>4. WholeBut({})
    BY <2>3 DEF SyncProgress, ProgressOf
  <2>5. WholeBut({f})'
    <3>1. /\ ~bulk'
          /\ \A g \in File \ ({} \cup {f}) : nodes'[g] = rows'[g]
          /\ local' = Present(rows') \ ({} \cup {f})
          /\ refs' \ ({} \cup {f}) = Present(rows') \ ({} \cup {f})
          /\ Fits(binds', Present(rows') \ ({} \cup {f}))
      BY <1>16, <2>1, <2>2, <2>3, <2>4
    <3>. QED
      BY <3>1 DEF WholeBut
  <2>6. nodes'[f] = 0 /\ f \notin refs'
    BY <2>1, <2>2 DEF DeleteNodes, TypeOK
  <2>7. WholeBut(job.done)'
    BY <2>1, <2>5 DEF WholeBut
  <2>8. ProgressOf(p)'
    BY <2>1, <2>3, <2>6, <2>7 DEF ProgressOf, Goto, TypeOK
  <2>. QED
    BY <1>4, <2>3, <2>8
<1>18. ASSUME NEW p \in Proc, RemoveRow(p) PROVE Goal
  <2>1. /\ pc[p] = "forget" /\ Goto(p, "remove")
        /\ UNCHANGED <<nodes, local, refs, binds, bulk>>
        /\ rows' = [f \in File |-> IF f \in job.done THEN 0 ELSE rows[f]]
    BY <1>18 DEF RemoveRow
  <2>2. /\ WholeBut(job.done) /\ refs \cap job.done = {}
        /\ \A f \in job.done : nodes[f] = 0
    BY <2>1 DEF SyncProgress, ProgressOf
  <2>3. Present(rows') = Present(rows) \ job.done
    BY <2>1 DEF Present
  <2>4. WholeBut({})'
    BY <2>1, <2>2, <2>3 DEF WholeBut, TypeOK, Present
  <2>5. ProgressOf(p)'
    BY <2>1, <2>4 DEF ProgressOf, Goto, TypeOK
  <2>. QED
    BY <1>4, <2>1, <2>5
<1>19. ASSUME NEW p \in Proc, Extract(p) PROVE Goal
  <2>1. PICK S \in SUBSET job.todo :
          job' = [job EXCEPT !.skipped = S,
                             !.batch = [f \in File |-> IF f \in job.todo \ S THEN disk[f] ELSE 0]]
    BY <1>19 DEF Extract
  <2>2. job'.done = job.done
    BY <2>1 DEF TypeOK, Job
  <2>3. pc[p] = "remove" /\ Goto(p, "drop") /\ UNCHANGED tables
    BY <1>19 DEF Extract
  <2>4. job'.done = {}
    BY <2>2, <2>3 DEF BatchOK, BatchOf
  <2>5. WholeBut({})'
    BY <2>3, Untouched DEF SyncProgress, ProgressOf
  <2>6. WholeBut(job.done)'
    BY <2>4, <2>5 DEF WholeBut
  <2>7. ProgressOf(p)'
    BY <2>3, <2>4, <2>6 DEF ProgressOf, Goto, TypeOK
  <2>. QED
    BY <1>4, <2>3, <2>7
<1>20. ASSUME NEW p \in Proc, ReplaceFile(p) PROVE Goal
  <2>1. PICK f \in Present(job.batch) : DeleteNodes(f) /\ job'.done = job.done \cup {f}
    BY <1>20 DEF ReplaceFile, TypeOK, Job
  <2>2. f \in File /\ job.done \in SUBSET File
    BY JobFields DEF TypeOK, Present
  <2>3. pc[p] = "drop" /\ Goto(p, "nodes") /\ UNCHANGED <<rows, bulk>>
    BY <1>20 DEF ReplaceFile
  <2>4. WholeBut(job.done)
    BY <2>3 DEF SyncProgress, ProgressOf
  <2>5. WholeBut(job.done)'
    <3>1. /\ ~bulk'
          /\ \A g \in File \ (job.done \cup {f}) : nodes'[g] = rows'[g]
          /\ local' = Present(rows') \ (job.done \cup {f})
          /\ refs' \ (job.done \cup {f}) = Present(rows') \ (job.done \cup {f})
          /\ Fits(binds', Present(rows') \ (job.done \cup {f}))
      BY <1>16, <2>1, <2>2, <2>3, <2>4
    <3>. QED
      BY <2>1, <3>1 DEF WholeBut
  <2>6. ProgressOf(p)'
    BY <2>3, <2>5 DEF ProgressOf, Goto, TypeOK
  <2>. QED
    BY <1>4, <2>3, <2>6
\* The later commits of a rewrite touch only the files in hand.
<1>21. ASSUME NEW p \in Proc, NEW l \in {"refs", "row", "drop"}, pc[p] \in Working, Goto(p, l),
              job' = job, WholeBut(job.done)',
              \A f \in job.done : nodes'[f] = job.batch[f],
              l \in {"row", "drop"} => job.done \subseteq refs',
              l = "drop" => \A f \in job.done : rows'[f] = job.batch[f]
       PROVE  Goal
  <2>1. ProgressOf(p)'
    BY <1>21 DEF ProgressOf, Goto, TypeOK
  <2>. QED
    BY <1>4, <1>21, <2>1
<1>22. ASSUME NEW p \in Proc, InsertNodes(p) PROVE Goal
  <2>1. /\ pc[p] = "nodes" /\ Goto(p, "refs") /\ job' = job
        /\ UNCHANGED <<rows, local, refs, binds, bulk>>
        /\ nodes' = [f \in File |-> IF f \in job.done THEN job.batch[f] ELSE nodes[f]]
    BY <1>22 DEF InsertNodes
  <2>2. WholeBut(job.done)
    BY <2>1 DEF SyncProgress, ProgressOf
  <2>3. WholeBut(job.done)'
    BY <2>1, <2>2 DEF WholeBut, Present
  <2>4. \A f \in job.done : nodes'[f] = job.batch[f]
    BY <2>1, JobFields DEF TypeOK
  <2>. QED
    BY <1>21, <2>1, <2>3, <2>4
<1>23. ASSUME NEW p \in Proc, InsertRefs(p) PROVE Goal
  <2>1. /\ pc[p] = "refs" /\ Goto(p, "row") /\ job' = job
        /\ UNCHANGED <<rows, nodes, local, binds, bulk>> /\ refs' = refs \cup job.done
    BY <1>23 DEF InsertRefs
  <2>2. WholeBut(job.done) /\ \A f \in job.done : nodes[f] = job.batch[f]
    BY <2>1 DEF SyncProgress, ProgressOf
  <2>3. WholeBut(job.done)'
    BY <2>1, <2>2 DEF WholeBut, Present
  <2>4. (\A f \in job.done : nodes'[f] = job.batch[f]) /\ job.done \subseteq refs'
    BY <2>1, <2>2
  <2>. QED
    BY <1>21, <2>1, <2>3, <2>4
<1>24. ASSUME NEW p \in Proc, UpsertFile(p) PROVE Goal
  <2>1. /\ pc[p] = "row" /\ Goto(p, "drop") /\ job' = job
        /\ UNCHANGED <<nodes, local, refs, binds, bulk>>
        /\ rows' = [f \in File |-> IF f \in job.done THEN job.batch[f] ELSE rows[f]]
    BY <1>24 DEF UpsertFile
  <2>2. /\ WholeBut(job.done) /\ job.done \subseteq refs
        /\ \A f \in job.done : nodes[f] = job.batch[f]
    BY <2>1 DEF SyncProgress, ProgressOf
  <2>3. Present(rows') \ job.done = Present(rows) \ job.done
    BY <2>1 DEF Present
  <2>4. WholeBut(job.done)'
    BY <2>1, <2>2, <2>3 DEF WholeBut
  <2>5. /\ \A f \in job.done : nodes'[f] = job.batch[f] /\ rows'[f] = job.batch[f]
        /\ job.done \subseteq refs'
    BY <2>1, <2>2, JobFields DEF TypeOK
  <2>. QED
    BY <1>21, <2>1, <2>4, <2>5
<1>25. ASSUME NEW p \in Proc, InsertQueuedEdges(p) \/ Resolve(p) PROVE Goal
  <2>1. CASE InsertQueuedEdges(p)
    <3>1. /\ pc[p] = "drop" /\ Goto(p, "resolve") /\ job' = job
          /\ UNCHANGED <<rows, nodes, refs, binds, bulk>> /\ local' = local \cup job.done
      BY <2>1 DEF InsertQueuedEdges
    <3>2. /\ WholeBut(job.done) /\ job.done \subseteq refs
          /\ \A f \in job.done : nodes[f] = job.batch[f] /\ rows[f] = job.batch[f]
      BY <3>1 DEF SyncProgress, ProgressOf
    <3>3. job.done \subseteq Present(rows)
      BY <3>1, <3>2 DEF BatchOK, BatchOf, Present
    <3>4. \A f \in File : nodes[f] = rows[f]
      BY <3>2 DEF WholeBut
    <3>5. nodes' = rows'
      BY <3>1, <3>4 DEF TypeOK
    <3>6. /\ ~bulk' /\ local' = Present(rows') /\ refs' = Present(rows')
          /\ Fits(binds', Present(rows') \ job'.done)
      BY <3>1, <3>2, <3>3 DEF WholeBut
    <3>7. ProgressOf(p)'
      BY <3>1, <3>5, <3>6 DEF ProgressOf, Goto, TypeOK
    <3>. QED
      BY <1>4, <3>1, <3>7
  <2>2. CASE Resolve(p)
    <3>1. /\ pc[p] = "resolve" /\ Goto(p, "send")
          /\ UNCHANGED <<rows, nodes, local, refs, bulk>>
      BY <2>2 DEF Resolve
    <3>2. /\ ~bulk /\ nodes = rows /\ local = Present(rows) /\ refs = Present(rows)
          /\ Fits(binds, Present(rows) \ job.done)
      BY <3>1 DEF SyncProgress, ProgressOf
    <3>3. job.done \subseteq job.touched /\ (job.todo = {} => job.done = {})
      BY <3>1 DEF BatchOK, BatchOf
    <3> DEFINE attempted == {f \in refs : f \in job.done \/ Cand[f] \cap job.touched # {}}
    <3>4. Fits(binds', Present(rows))
      <4>1. CASE SkipsResolution
        <5>1. job.done = {} /\ binds' = binds
          BY <2>2, <3>3, <4>1 DEF Resolve, SkipsResolution
        <5>2. Present(rows) \ job.done = Present(rows)
          BY <5>1
        <5>. QED
          BY <3>2, <5>1, <5>2
      <4>2. CASE ~SkipsResolution
        <5> DEFINE Hits == {e \in attempted \X Present(rows) : e[2] \in Cand[e[1]]}
        <5>1. binds' = binds \cup Resolution(attempted, Present(rows))
          BY <2>2, <3>2, <4>2 DEF Resolve
        <5>2. attempted \in SUBSET File /\ Present(rows) \in SUBSET File
          BY DEF TypeOK, Present
        <5>3. /\ Resolution(attempted, Present(rows)) \subseteq Hits
              /\ OneCandidate => Resolution(attempted, Present(rows)) = Hits
          BY <5>2, BestAmongCandidates
        <5>4. attempted = {f \in Present(rows) : f \in job.done \/ Cand[f] \cap job.touched # {}}
          BY <3>2
        <5>5. Hits \subseteq Among(Present(rows))
          BY <5>4 DEF Among
        <5>6. Among(Present(rows)) \subseteq Among(Present(rows) \ job.done) \cup Hits
          BY <3>3, <5>4 DEF Among
        <5>7. Among(Present(rows) \ job.done) \subseteq Among(Present(rows))
          BY DEF Among
        <5> HIDE DEF attempted, Hits
        <5>. QED
          BY <3>2, <5>1, <5>3, <5>5, <5>6, <5>7 DEF Fits
      <4>. QED
        BY <4>1, <4>2
    <3>5. WholeBut({})'
      BY <3>1, <3>2, <3>4 DEF WholeBut, Present
    <3>6. ProgressOf(p)'
      BY <3>1, <3>5 DEF ProgressOf, Goto, TypeOK
    <3>. QED
      BY <1>4, <3>1, <3>6
  <2>. QED
    BY <1>25, <2>1, <2>2
<1>26. ASSUME NEW p \in Proc, RefuseTransition(p) PROVE Goal
  <2>1. WholeBut({})'
    BY <1>26, Untouched DEF RefuseTransition, SyncProgress, ProgressOf
  <2>. QED
    BY <1>5, <1>26, <2>1 DEF RefuseTransition
<1>27. ASSUME NEW p \in Proc, Finish(p) PROVE Goal
  <2>1. WholeBut({})
    BY <1>27, WholeIsWhole DEF Finish, IndexProgress, SyncProgress, ProgressOf
  <2>. QED
    BY <1>5, <1>27, <2>1, Untouched DEF Finish
\* A worker that is interrupted leaves a mark, unless it had not begun to write.
<1>28. ASSUME NEW p \in Proc, pc[p] \in Working, ~LeavesNoMark, ~lost PROVE dirty \/ WholeBut({})
  <2>1. CASE pc[p] \in {"mark", "smark"}
    BY <2>1 DEF SyncProgress, ProgressOf
  <2>2. CASE pc[p] \in Working \ {"mark", "smark"} /\ job.op # "targeted"
    BY <2>2 DEF MarkedSoFar
  <2>3. CASE pc[p] \in SyncSteps \ {"smark"} /\ ~job.wrote
    <3>1. pc[p] \in {"scan", "remove", "send", "drop", "resolve"}
      BY <2>3 DEF BatchOK, BatchOf
    <3>2. CASE pc[p] \in {"drop", "resolve"}
      <4>1. job.done = {}
        BY <2>3, <3>2 DEF BatchOK, BatchOf
      <4>. QED
        BY <3>2, <4>1 DEF SyncProgress, ProgressOf, WholeBut
    <3>. QED
      BY <3>1, <3>2 DEF SyncProgress, ProgressOf
  <2>. QED
    BY <1>28, <2>1, <2>2, <2>3 DEF LeavesNoMark, LockDiscipline
<1>29. ASSUME NEW p \in Proc, Fail(p) PROVE Goal
  <2>1. /\ pc[p] \in Working /\ ~LeavesNoMark /\ ~lost
        /\ UNCHANGED <<tables, dirty>>
    BY <1>29 DEF Fail
  <2>2. PICK l \in {"ready", "closed"} : Goto(p, l)
    BY <1>29 DEF Fail
  <2>. QED
    BY <1>5, <1>28, <2>1, <2>2, Untouched
<1>30. ASSUME NEW p \in Proc, Crash(p) PROVE Goal
  <2>1. CASE lock = p
    <3>1. /\ pc[p] \in Working /\ ~LeavesNoMark /\ ~lost /\ Goto(p, "closed")
          /\ UNCHANGED <<tables, dirty>>
      BY <1>30, <2>1 DEF Crash, LockDiscipline
    <3>. QED
      BY <1>5, <1>28, <3>1, Untouched
  <2>2. CASE lock # p
    BY <1>2, <1>30, <2>2 DEF Crash, LockDiscipline
  <2>. QED
    BY <2>1, <2>2
<1>31. ASSUME UNCHANGED vars PROVE Goal
  <2>1. tables' = tables /\ dirty' = dirty /\ pc' = pc /\ job' = job
    BY <1>31 DEF vars, tables
  <2>. QED
    BY <1>1, <2>1
<1>32. ASSUME NEW f \in File, Edit(f) PROVE Goal
  BY <1>1, <1>32 DEF Edit
<1>. QED
  BY <1>6, <1>7, <1>9, <1>10, <1>12, <1>14, <1>15, <1>17, <1>18, <1>19, <1>20, <1>22, <1>23,
     <1>24, <1>25, <1>26, <1>27, <1>29, <1>30, <1>31, <1>32 DEF Next, Work, Goal

\* What was lost stays lost.
LEMMA LostStays ==
  ASSUME [Next]_vars, lost
  PROVE  lost'
<1>1. ASSUME NEW p \in Proc, Work(p) PROVE lost'
  BY <1>1 DEF Work, ProbeWriter, LockRecovery, WriteSentinel, BeginBulkLoad, Clear,
              ExtractAll, InsertAllNodes, InsertAllEdges, UpsertAllFiles, InsertAllRefs,
              EndBulkLoad, Scan, RefuseTransition, RemoveNodes, RemoveRow, Extract,
              ReplaceFile, InsertNodes, InsertRefs, UpsertFile, InsertQueuedEdges,
              Resolve, Finish
<1>2. ASSUME NEW p \in Proc,
             \/ OpenProject(p) \/ Close(p) \/ StartIndex(p) \/ Fail(p) \/ Crash(p)
             \/ \E op \in {"sync", "transition", "targeted"} : StartSync(p, op)
      PROVE  lost'
  BY <1>2 DEF OpenProject, Close, StartIndex, Fail, Crash, StartSync
<1>. QED
  BY <1>1, <1>2 DEF Next, Edit, vars

\* The initial graph is whole, and nobody has anything in hand.
LEMMA InitWhole ==
  ASSUME GraphAssumption, Init
  PROVE  PInv
<1>1. TypeOK
  BY InitInv DEF IInv
<1>2. Whole
  BY DEF Init, Whole
<1>3. WholeBut({})
  BY <1>1, <1>2, WholeIsWhole
<1>4. BatchOK /\ SyncProgress
  BY DEF Init, BatchOK, BatchOf, SyncProgress, ProgressOf
<1>. QED
  BY <1>3, <1>4 DEF PInv, AtRest

LEMMA WholenessInvariant == Spec => []PInv
<1>1. Init => PInv
  BY InitWhole, GraphAssumption
<1>2. ASSUME IInv, PInv, [Next]_vars PROVE PInv'
  <2>1. BatchOK'
    BY <1>2, GraphAssumption, BatchPreserved DEF PInv, IInv
  <2>2. ~lost' => ~lost
    BY <1>2, LostStays
  <2>. QED
    BY <1>2, <2>1, <2>2, GraphAssumption, SyncPreserved DEF PInv, IInv
<1>. QED
  BY <1>1, <1>2, Invariance, PTL DEF Spec

\* However many candidates a reference has, a graph that nobody writes and no
\* sentinel marks is not torn, until an interruption left no mark: syncs may drift
\* from a full index in which candidate a reference is bound to and whether it is
\* bound (SyncConverges), and in nothing else.
THEOREM UnmarkedGraphsAreNotTorn ==
  Spec => []UnmarkedIsNotTorn
<1>1. IInv /\ PInv => UnmarkedIsNotTorn
  <2> SUFFICES ASSUME IInv, PInv, ~lost, ~Writing, ~dirty PROVE NotTorn
    BY DEF UnmarkedIsNotTorn
  <2>1. WholeBut({})
    BY DEF PInv, AtRest
  <2>2. nodes = rows
    BY <2>1 DEF WholeBut, IInv, TypeOK
  <2>3. Present(rows) \ {} = Present(rows)
    OBVIOUS
  <2>. QED
    BY <2>1, <2>2, <2>3 DEF WholeBut, Fits, NotTorn, Among
<1>. QED
  BY <1>1, Invariance, WholenessInvariant, PTL

\* Where every reference has at most one candidate, the graph is whole whenever
\* nobody writes and no sentinel stands, until an interruption left no mark.
THEOREM PartialGraphsAreMarked ==
  ASSUME OneCandidate
  PROVE  Spec => []PartialIsMarked
<1>1. IInv /\ PInv => PartialIsMarked
  BY GraphAssumption, WholeIsWhole DEF IInv, PInv, AtRest, PartialIsMarked, NoSilentPartialGraph
<1>. QED
  BY <1>1, Invariance, WholenessInvariant, PTL

-----------------------------------------------------------------------------
(* What a full sync's scan saw ends up in the rows.                        *)

AfterScan == {"remove", "forget", "drop", "nodes", "refs", "row", "resolve", "send"}
AfterExtract == {"drop", "nodes", "refs", "row", "resolve", "send"}

\* The rows agree with the scan but for the files still to be removed or
\* written, and with the batch where the sync is past a file.
CoversOf(p) ==
  /\ pc[p] \in AfterScan /\ FullSync =>
       /\ \A f \in job.todo : job.seen[f] # 0
       /\ \A f \in job.gone : job.seen[f] = 0
       /\ \A f \in File \ (job.todo \cup job.gone) : rows[f] = job.seen[f]
  /\ pc[p] = "forget" => job.done \subseteq job.gone
  /\ pc[p] \in AfterExtract => job.gone = {}
  /\ pc[p] = "drop" => \A f \in job.done : rows[f] = job.batch[f]
  /\ pc[p] \in {"resolve", "send"} => \A f \in Present(job.batch) : rows[f] = job.batch[f]

CoverOK == \A p \in Proc : CoversOf(p)

\* Every step keeps the agreement of the rows with the scan.
LEMMA CoverPreserved ==
  ASSUME GraphAssumption, TypeOK, LockDiscipline, BatchOK, CoverOK, [Next]_vars
  PROVE  CoverOK'
<1> USE DEF Working, IndexSteps, SyncSteps, AfterScan, AfterExtract
<1>1. ASSUME rows' = rows, pc' = pc, job' = job PROVE CoverOK'
  BY <1>1 DEF CoverOK, CoversOf, Present, FullSync
<1>2. LockFree => \A q \in Proc : pc[q] \notin Working
  BY GraphAssumption DEF LockFree, LockDiscipline
\* Outside the steps after a scan there is nothing to agree with.
<1>3. ASSUME NEW p \in Proc, pc[p] \in Working \/ LockFree,
             NEW l \in (Idle \cup Opening \cup Working) \ AfterScan, Goto(p, l)
      PROVE  CoverOK'
  <2>1. \A q \in Proc \ {p} : pc'[q] \notin Working
    BY <1>2, <1>3, OthersRest DEF Goto, TypeOK
  <2>2. \A q \in Proc : pc'[q] \notin AfterScan
    BY <1>3, <2>1 DEF Goto, TypeOK
  <2>. QED
    BY <2>2 DEF CoverOK, CoversOf
<1>4. ASSUME NEW p \in Proc, pc[p] \notin Working, NEW l \in Idle \cup Opening, Goto(p, l),
             rows' = rows, job' = job
      PROVE  CoverOK'
  <2>1. \A q \in Proc : pc'[q] \in AfterScan => pc'[q] = pc[q]
    BY <1>4 DEF Goto, TypeOK, Idle, Opening
  <2>. QED
    BY <1>4, <2>1 DEF CoverOK, CoversOf, Present, FullSync
<1>5. ASSUME NEW p \in Proc, pc[p] \in Working, NEW l \in AfterScan, Goto(p, l), CoversOf(p)'
      PROVE  CoverOK'
  <2>1. \A q \in Proc \ {p} : pc'[q] \notin AfterScan
    BY <1>5, OthersRest
  <2>. QED
    BY <1>5, <2>1 DEF CoverOK, CoversOf
<1>6. ASSUME NEW p \in Proc, OpenProject(p) \/ Close(p) \/ ProbeWriter(p) PROVE CoverOK'
  BY <1>4, <1>6 DEF OpenProject, Close, ProbeWriter, tables, Idle, Opening
<1>7. ASSUME NEW p \in Proc, LockRecovery(p) PROVE CoverOK'
  <2>1. CASE LockFree /\ dirty
    BY <1>3, <1>7, <2>1 DEF LockRecovery
  <2>2. CASE ~(LockFree /\ dirty)
    BY <1>4, <1>7, <2>2 DEF LockRecovery, Idle, Opening
  <2>. QED
    BY <2>1, <2>2
<1>8. ASSUME NEW p \in Proc, StartIndex(p) PROVE CoverOK'
  BY <1>3, <1>8 DEF StartIndex
<1>9. ASSUME NEW p \in Proc, NEW op \in {"sync", "transition", "targeted"}, StartSync(p, op)
      PROVE  CoverOK'
  BY <1>3, <1>9 DEF StartSync
<1>10. ASSUME NEW p \in Proc,
              BeginBulkLoad(p) \/ Clear(p) \/ ExtractAll(p) \/ InsertAllNodes(p)
              \/ InsertAllEdges(p) \/ UpsertAllFiles(p) \/ InsertAllRefs(p) \/ EndBulkLoad(p)
       PROVE  CoverOK'
  BY <1>3, <1>10 DEF BeginBulkLoad, Clear, ExtractAll, InsertAllNodes, InsertAllEdges,
                     UpsertAllFiles, InsertAllRefs, EndBulkLoad
<1>11. ASSUME NEW p \in Proc, WriteSentinel(p) PROVE CoverOK'
  BY <1>3, <1>11 DEF WriteSentinel
<1>12. ASSUME NEW p \in Proc, RefuseTransition(p) \/ Finish(p) \/ Fail(p) PROVE CoverOK'
  <2>1. pc[p] \in Working /\ (Goto(p, "ready") \/ Goto(p, "closed"))
    BY <1>12 DEF RefuseTransition, Finish, Fail
  <2>. QED
    BY <1>3, <2>1 DEF Idle
<1>13. ASSUME NEW p \in Proc, Crash(p) PROVE CoverOK'
  <2>1. CASE lock = p
    BY <1>3, <1>13, <2>1 DEF Crash, LockDiscipline, Idle
  <2>2. CASE lock # p
    BY <1>4, <1>13, <2>2 DEF Crash, LockDiscipline, Idle, tables
  <2>. QED
    BY <2>1, <2>2
<1>14. ASSUME NEW p \in Proc, Scan(p) PROVE CoverOK'
  <2>1. pc[p] = "scan" /\ Goto(p, "remove") /\ rows' = rows
    BY <1>14 DEF Scan, tables
  <2>2. ASSUME job.op \in {"sync", "transition"}
        PROVE  /\ job'.seen = disk
               /\ job'.gone = {f \in File : disk[f] = 0 /\ rows[f] # 0}
               /\ job'.todo = {f \in File : disk[f] # 0 /\ disk[f] # rows[f]}
    BY <1>14, <2>2 DEF Scan, FullSync, TypeOK, Job
  <2>3. job'.op = job.op
    <3>1. ASSUME NEW G, NEW D, job' = [job EXCEPT !.seen = disk, !.gone = G, !.todo = D]
          PROVE  job'.op = job.op
      BY <3>1 DEF TypeOK, Job
    <3>2. CASE FullSync
      BY <1>14, <3>1, <3>2 DEF Scan, FullSync
    <3>3. CASE job.op = "targeted"
      BY <1>14, <3>1, <3>3 DEF Scan, FullSync
    <3>. QED
      BY <1>14, <3>2, <3>3 DEF Scan
  <2>4. CoversOf(p)'
    BY <2>1, <2>2, <2>3 DEF CoversOf, Goto, TypeOK, FullSync
  <2>. QED
    BY <1>5, <2>1, <2>4
<1>15. ASSUME NEW p \in Proc, RemoveNodes(p) PROVE CoverOK'
  <2>1. PICK f \in job.gone :
          job'.done = {f} /\ job'.op = job.op /\ job'.seen = job.seen
          /\ job'.gone = job.gone /\ job'.todo = job.todo
    BY <1>15 DEF RemoveNodes, TypeOK, Job
  <2>2. pc[p] = "remove" /\ Goto(p, "forget") /\ rows' = rows
    BY <1>15 DEF RemoveNodes
  <2>3. CoversOf(p)'
    BY <2>1, <2>2 DEF CoverOK, CoversOf, Goto, TypeOK, FullSync
  <2>. QED
    BY <1>5, <2>2, <2>3
<1>16. ASSUME NEW p \in Proc, RemoveRow(p) PROVE CoverOK'
  <2>1. /\ pc[p] = "forget" /\ Goto(p, "remove")
        /\ rows' = [f \in File |-> IF f \in job.done THEN 0 ELSE rows[f]]
        /\ job'.op = job.op /\ job'.seen = job.seen /\ job'.todo = job.todo
        /\ job'.gone = job.gone \ job.done
    BY <1>16 DEF RemoveRow, TypeOK, Job
  <2>2. CoversOf(p)'
    BY <2>1 DEF CoverOK, CoversOf, Goto, TypeOK, FullSync
  <2>. QED
    BY <1>5, <2>1, <2>2
<1>17. ASSUME NEW p \in Proc, Extract(p) PROVE CoverOK'
  <2>1. PICK S \in SUBSET job.todo :
          job' = [job EXCEPT !.skipped = S,
                             !.batch = [f \in File |-> IF f \in job.todo \ S THEN disk[f] ELSE 0]]
    BY <1>17 DEF Extract
  <2>2. /\ job'.op = job.op /\ job'.seen = job.seen /\ job'.todo = job.todo
        /\ job'.gone = job.gone /\ job'.done = job.done
    BY <2>1 DEF TypeOK, Job
  <2>3. pc[p] = "remove" /\ Goto(p, "drop") /\ rows' = rows /\ job.gone = {}
    BY <1>17 DEF Extract, tables
  <2>4. job.done = {}
    BY <2>3 DEF BatchOK, BatchOf
  <2>5. CoversOf(p)'
    BY <2>2, <2>3, <2>4 DEF CoverOK, CoversOf, Goto, TypeOK, FullSync
  <2>. QED
    BY <1>5, <2>3, <2>5
<1>18. ASSUME NEW p \in Proc, ReplaceFile(p) PROVE CoverOK'
  <2>1. /\ job'.op = job.op /\ job'.seen = job.seen /\ job'.todo = job.todo
        /\ job'.gone = job.gone
    BY <1>18 DEF ReplaceFile, TypeOK, Job
  <2>2. pc[p] = "drop" /\ Goto(p, "nodes") /\ rows' = rows
    BY <1>18 DEF ReplaceFile
  <2>3. CoversOf(p)'
    BY <2>1, <2>2 DEF CoverOK, CoversOf, Goto, TypeOK, FullSync
  <2>. QED
    BY <1>5, <2>2, <2>3
<1>19. ASSUME NEW p \in Proc,
              InsertNodes(p) \/ InsertRefs(p) \/ InsertQueuedEdges(p) \/ Resolve(p)
       PROVE  CoverOK'
  <2>1. PICK l \in {"refs", "row", "resolve", "send"} :
          /\ Goto(p, l)
          /\ l = "resolve" => pc[p] = "drop" /\ Present(job.batch) \subseteq job.done
          /\ l = "send" => pc[p] = "resolve"
    BY <1>19 DEF InsertNodes, InsertRefs, InsertQueuedEdges, Resolve
  <2>2. pc[p] \in AfterExtract /\ rows' = rows /\ job' = job
    BY <1>19 DEF InsertNodes, InsertRefs, InsertQueuedEdges, Resolve
  <2>3. CoversOf(p)'
    BY <2>1, <2>2 DEF CoverOK, CoversOf, Goto, TypeOK, FullSync, Present
  <2>. QED
    BY <1>5, <2>1, <2>2, <2>3
<1>20. ASSUME NEW p \in Proc, UpsertFile(p) PROVE CoverOK'
  <2>1. /\ pc[p] = "row" /\ Goto(p, "drop") /\ job' = job
        /\ rows' = [f \in File |-> IF f \in job.done THEN job.batch[f] ELSE rows[f]]
    BY <1>20 DEF UpsertFile
  <2>2. job.done \subseteq File /\ job.done \subseteq job.todo
    BY <2>1, JobFields DEF BatchOK, BatchOf, TypeOK
  <2>3. CoversOf(p)'
    BY <2>1, <2>2 DEF CoverOK, CoversOf, Goto, TypeOK, FullSync
  <2>. QED
    BY <1>5, <2>1, <2>3
<1>21. ASSUME UNCHANGED vars PROVE CoverOK'
  BY <1>1, <1>21 DEF vars
<1>22. ASSUME NEW f \in File, Edit(f) PROVE CoverOK'
  BY <1>1, <1>22 DEF Edit, tables
<1>. QED
  BY <1>6, <1>7, <1>8, <1>9, <1>10, <1>11, <1>12, <1>13, <1>14, <1>15, <1>16, <1>17, <1>18,
     <1>19, <1>20, <1>21, <1>22 DEF Next, Work

\* A sync leaves its last step by finishing or by an interruption.
LEMMA EndOfSync ==
  ASSUME TypeOK, Next, NEW p \in Proc, pc[p] = "send", pc'[p] = "ready"
  PROVE  rows' = rows
<1>1. ASSUME NEW f \in File, Edit(f) PROVE FALSE
  BY <1>1 DEF Edit
<1>2. ASSUME NEW q \in Proc,
             \/ OpenProject(q) \/ Close(q) \/ StartIndex(q)
             \/ \E op \in {"sync", "transition", "targeted"} : StartSync(q, op)
      PROVE  rows' = rows
  BY <1>2 DEF OpenProject, Close, StartIndex, StartSync, tables
<1>3. ASSUME NEW q \in Proc, Work(q) PROVE Finish(p)
  BY <1>3 DEF TypeOK, Goto, Work, ProbeWriter, LockRecovery, WriteSentinel, BeginBulkLoad,
              Clear, ExtractAll, InsertAllNodes, InsertAllEdges, UpsertAllFiles, InsertAllRefs,
              EndBulkLoad, Scan, RefuseTransition, RemoveNodes, RemoveRow, Extract,
              ReplaceFile, InsertNodes, InsertRefs, UpsertFile, InsertQueuedEdges,
              Resolve, Finish
<1>4. ASSUME NEW q \in Proc, Fail(q) \/ Crash(q) PROVE rows' = rows
  BY <1>4 DEF Fail, Crash, tables
<1>. QED
  BY <1>1, <1>2, <1>3, <1>4 DEF Next, Finish, tables

\* A sync that reports success has recorded every accepted file at the version
\* its scan saw, unless the file changed before its extraction.
THEOREM ScanIsCovered == Spec => SyncCoversScan
<1>1. Init => BatchOK /\ CoverOK
  BY DEF Init, BatchOK, BatchOf, CoverOK, CoversOf, AfterScan, AfterExtract
<1>2. IInv /\ BatchOK /\ CoverOK /\ [Next]_vars => BatchOK' /\ CoverOK'
  BY GraphAssumption, BatchPreserved, CoverPreserved DEF IInv
<1>3. IInv /\ CoverOK /\ [Next]_vars =>
        [\A p \in Proc : pc[p] = "send" /\ pc'[p] = "ready" /\ FullSync =>
           \A f \in File \ job.skipped :
             (f \in job.todo => job.batch[f] = job.seen[f]) => rows'[f] = job.seen[f]]_vars
  <2> SUFFICES ASSUME IInv, CoverOK, Next, NEW p \in Proc, pc[p] = "send", pc'[p] = "ready",
                      FullSync, NEW f \in File, f \in job.todo => job.batch[f] = job.seen[f]
               PROVE  rows'[f] = job.seen[f]
    BY DEF vars
  <2>1. rows[f] = job.seen[f]
    BY DEF CoverOK, CoversOf, AfterScan, AfterExtract, Present
  <2>2. rows' = rows
    BY EndOfSync DEF IInv
  <2>. QED
    BY <2>1, <2>2
<1>. QED
  BY <1>1, <1>2, <1>3, Invariance, PTL DEF Spec, SyncCoversScan

-----------------------------------------------------------------------------
(* What LockReleased rests on beside the fairness: an operation runs down. *)

\* How far a step is from the end of its operation, one file in hand.
PlaceRank(l) ==
  CASE l \in Idle -> 0
    [] l = "iend" -> 1
    [] l \in {"endbulk", "send"} -> 2
    [] l \in {"irefs", "resolve"} -> 3
    [] l = "irows" -> 4
    [] l \in {"iedges", "drop"} -> 5
    [] l \in {"inodes", "row"} -> 6
    [] l \in {"xall", "refs"} -> 7
    [] l \in {"clear", "nodes"} -> 8
    [] l \in {"bulk", "forget"} -> 9
    [] l \in {"mark", "remove"} -> 10
    [] l \in {"lockrec", "scan"} -> 11
    [] l \in {"probe", "smark"} -> 12

\* What the files still to be removed or rewritten cost.
FilesLeft(l, j) ==
  CASE l \in {"smark", "scan"} -> 6 * Cardinality(File)
    [] l \in {"remove", "forget"} -> 2 * Cardinality(j.gone) + 4 * Cardinality(j.todo)
    [] l \in {"drop", "nodes", "refs", "row"} -> 4 * Cardinality(Present(j.batch) \ j.done)
    [] OTHER -> 0

\* A bound on the steps that the operation of p, or its opening, still takes.
StepsLeft(p) == PlaceRank(pc[p]) + FilesLeft(pc[p], job)

Begins(p) ==
  \/ OpenProject(p) \/ StartIndex(p)
  \/ \E op \in {"sync", "transition", "targeted"} : StartSync(p, op)

LEMMA RankType == \A l \in Idle \cup Opening \cup Working : PlaceRank(l) \in 0..12
  BY DEF PlaceRank, Idle, Opening, Working, IndexSteps, SyncSteps

LEMMA Sizes ==
  ASSUME GraphAssumption, NEW S \in SUBSET File
  PROVE  IsFiniteSet(S) /\ Cardinality(S) \in Nat /\ Cardinality(S) <= Cardinality(File)
<1>1. IsFiniteSet(File)
  BY GraphAssumption DEF GraphAssumption
<1>2. IsFiniteSet(S) /\ Cardinality(S) <= Cardinality(File)
  BY <1>1, FS_Subset
<1>. QED
  BY <1>2, FS_CardinalityType

LEMMA SmallerSizes ==
  ASSUME GraphAssumption, NEW S \in SUBSET File, NEW T \in SUBSET S
  PROVE  /\ Cardinality(T) \in Nat /\ Cardinality(T) <= Cardinality(S)
         /\ T # S => Cardinality(T) < Cardinality(S)
<1>1. IsFiniteSet(S) /\ Cardinality(S) \in Nat
  BY Sizes
<1>2. /\ IsFiniteSet(T) /\ Cardinality(T) <= Cardinality(S)
      /\ Cardinality(S) = Cardinality(T) => S = T
  BY <1>1, FS_Subset
<1>3. Cardinality(T) \in Nat
  BY <1>2, FS_CardinalityType
<1>. QED
  BY <1>1, <1>2, <1>3

LEMMA FilesLeftType == ASSUME GraphAssumption, NEW j \in Job, NEW l PROVE FilesLeft(l, j) \in Nat
<1>1. j.gone \in SUBSET File /\ j.todo \in SUBSET File
      /\ Present(j.batch) \ j.done \in SUBSET File /\ File \in SUBSET File
  BY JobFields DEF Present
<1>2. /\ Cardinality(j.gone) \in Nat /\ Cardinality(j.todo) \in Nat
      /\ Cardinality(Present(j.batch) \ j.done) \in Nat /\ Cardinality(File) \in Nat
  BY <1>1, Sizes
<1>. QED
  BY <1>2 DEF FilesLeft

\* The steps of an operation, one by one.
LEMMA WorkRunsDown ==
  ASSUME GraphAssumption, TypeOK, LockDiscipline, BatchOK, NEW p \in Proc, Work(p)
  PROVE  StepsLeft(p)' < StepsLeft(p)
<1> USE DEF Goto
<1>1. /\ job \in Job /\ job.gone \in SUBSET File /\ job.todo \in SUBSET File
      /\ job.done \in SUBSET File
  BY JobFields DEF TypeOK
<1>2. pc \in [Proc -> Idle \cup Opening \cup Working] /\ FilesLeft(pc[p], job) \in Nat
  BY FilesLeftType DEF TypeOK
\* Where no file is counted any more, the place is all that counts.
<1>3. ASSUME NEW l \in Idle \cup IndexSteps \cup {"lockrec", "resolve", "send"}, pc'[p] = l,
             PlaceRank(l) < PlaceRank(pc[p])
      PROVE  StepsLeft(p)' < StepsLeft(p)
  <2>1. FilesLeft(l, job') = 0
    BY <1>3 DEF FilesLeft, Idle, IndexSteps
  <2>2. PlaceRank(l) \in 0..12 /\ PlaceRank(pc[p]) \in 0..12
    BY <1>2, <1>3, RankType DEF Opening, Working, SyncSteps
  <2>3. StepsLeft(p)' = PlaceRank(l)
    BY <1>3, <2>1, <2>2 DEF StepsLeft, FilesLeft
  <2>. QED
    BY <1>2, <1>3, <2>2, <2>3 DEF StepsLeft
<1>4. CASE ProbeWriter(p) \/ LockRecovery(p)
  <2>1. /\ pc[p] \in {"probe", "lockrec"} /\ pc'[p] \in Idle \cup IndexSteps \cup {"lockrec"}
        /\ PlaceRank(pc'[p]) < PlaceRank(pc[p])
    BY <1>2, <1>4 DEF ProbeWriter, LockRecovery, PlaceRank, Idle, IndexSteps
  <2>. QED
    BY <1>3, <2>1
<1>5. CASE \/ BeginBulkLoad(p) \/ Clear(p) \/ ExtractAll(p) \/ InsertAllNodes(p)
           \/ InsertAllEdges(p) \/ UpsertAllFiles(p) \/ InsertAllRefs(p) \/ EndBulkLoad(p)
           \/ WriteSentinel(p) /\ pc[p] = "mark"
  <2>1. \/ pc[p] = "mark" /\ pc'[p] = "bulk"
        \/ pc[p] = "bulk" /\ pc'[p] = "clear"
        \/ pc[p] = "clear" /\ pc'[p] = "xall"
        \/ pc[p] = "xall" /\ pc'[p] = "inodes"
        \/ pc[p] = "inodes" /\ pc'[p] = "iedges"
        \/ pc[p] = "iedges" /\ pc'[p] = "irows"
        \/ pc[p] = "irows" /\ pc'[p] = "irefs"
        \/ pc[p] = "irefs" /\ pc'[p] = "endbulk"
        \/ pc[p] = "endbulk" /\ pc'[p] = "iend"
    BY <1>2, <1>5 DEF BeginBulkLoad, Clear, ExtractAll, InsertAllNodes, InsertAllEdges,
                      UpsertAllFiles, InsertAllRefs, EndBulkLoad, WriteSentinel
  <2>2. pc'[p] \in IndexSteps /\ PlaceRank(pc'[p]) < PlaceRank(pc[p])
    BY <2>1 DEF PlaceRank, IndexSteps, Idle
  <2>. QED
    BY <1>3, <2>2
<1>6. CASE RefuseTransition(p) \/ Finish(p) \/ InsertQueuedEdges(p) \/ Resolve(p)
  <2>1. /\ pc'[p] \in Idle \cup {"resolve", "send"}
        /\ PlaceRank(pc'[p]) < PlaceRank(pc[p])
    BY <1>2, <1>6 DEF RefuseTransition, Finish, InsertQueuedEdges, Resolve, PlaceRank, Idle
  <2>. QED
    BY <1>3, <2>1
<1>7. CASE WriteSentinel(p) /\ pc[p] = "smark"
  <2>1. pc'[p] = "scan"
    BY <1>2, <1>7 DEF WriteSentinel
  <2>2. Cardinality(File) \in Nat
    BY Sizes
  <2>. QED
    BY <1>7, <2>1, <2>2 DEF StepsLeft, FilesLeft, PlaceRank, Idle
<1>8. CASE Scan(p)
  <2>1. pc[p] = "scan" /\ pc'[p] = "remove" /\ job'.gone \in SUBSET File /\ job'.todo \in SUBSET File
    <3>1. ASSUME NEW G \in SUBSET File, NEW D \in SUBSET File,
                 job' = [job EXCEPT !.seen = disk, !.gone = G, !.todo = D]
          PROVE  job'.gone \in SUBSET File /\ job'.todo \in SUBSET File
      BY <1>1, <3>1 DEF Job
    <3>2. {f \in File : disk[f] = 0 /\ rows[f] # 0} \in SUBSET File
      OBVIOUS
    <3>3. {f \in File : disk[f] # 0 /\ disk[f] # rows[f]} \in SUBSET File
      OBVIOUS
    <3>4. \A F \in SUBSET File : F \ Present(disk) \in SUBSET File
                               /\ F \cap Present(disk) \in SUBSET File
      OBVIOUS
    <3>5. job'.gone \in SUBSET File /\ job'.todo \in SUBSET File
      <4>1. CASE FullSync
        BY <1>8, <3>1, <3>2, <3>3, <4>1 DEF Scan, FullSync
      <4>2. CASE job.op = "targeted"
        <5>1. PICK F \in SUBSET File :
                job' = [job EXCEPT !.seen = disk, !.gone = F \ Present(disk),
                                   !.todo = F \cap Present(disk)]
          BY <1>8, <4>2 DEF Scan, FullSync
        <5>2. F \ Present(disk) \in SUBSET File /\ F \cap Present(disk) \in SUBSET File
          BY <3>4
        <5>. QED
          BY <3>1, <5>1, <5>2
      <4>. QED
        BY <1>8, <4>1, <4>2 DEF Scan
    <3>. QED
      BY <1>2, <1>8, <3>5 DEF Scan
  <2>2. /\ Cardinality(job'.gone) \in Nat /\ Cardinality(job'.gone) <= Cardinality(File)
        /\ Cardinality(job'.todo) \in Nat /\ Cardinality(job'.todo) <= Cardinality(File)
        /\ Cardinality(File) \in Nat
    BY <2>1, Sizes
  <2>. QED
    BY <2>1, <2>2 DEF StepsLeft, FilesLeft, PlaceRank, Idle
<1>9. CASE RemoveNodes(p)
  <2>1. /\ pc[p] = "remove" /\ pc'[p] = "forget"
        /\ job'.gone = job.gone /\ job'.todo = job.todo
    BY <1>1, <1>2, <1>9 DEF RemoveNodes, Job
  <2>2. Cardinality(job.gone) \in Nat /\ Cardinality(job.todo) \in Nat
    BY <1>1, Sizes
  <2>. QED
    BY <2>1, <2>2 DEF StepsLeft, FilesLeft, PlaceRank, Idle
<1>10. CASE RemoveRow(p)
  <2>1. /\ pc[p] = "forget" /\ pc'[p] = "remove"
        /\ job'.gone = job.gone \ job.done /\ job'.todo = job.todo
    BY <1>1, <1>2, <1>10 DEF RemoveRow, Job
  <2>2. job.done # {} /\ job.done \subseteq job.gone
    BY <2>1 DEF BatchOK, BatchOf
  <2>3. job.gone \ job.done \in SUBSET job.gone /\ job.gone \ job.done # job.gone
    BY <2>2
  <2>4. /\ Cardinality(job.gone \ job.done) \in Nat
        /\ Cardinality(job.gone \ job.done) < Cardinality(job.gone)
    BY <1>1, <2>3, SmallerSizes
  <2>5. Cardinality(job.gone) \in Nat /\ Cardinality(job.todo) \in Nat
    BY <1>1, Sizes
  <2>. QED
    BY <2>1, <2>4, <2>5 DEF StepsLeft, FilesLeft, PlaceRank, Idle
<1>11. CASE Extract(p)
  <2>1. PICK S \in SUBSET job.todo :
          job' = [job EXCEPT !.skipped = S,
                             !.batch = [f \in File |-> IF f \in job.todo \ S THEN disk[f] ELSE 0]]
    BY <1>11 DEF Extract
  <2>2. /\ pc[p] = "remove" /\ pc'[p] = "drop"
        /\ job'.batch = [f \in File |-> IF f \in job.todo \ S THEN disk[f] ELSE 0]
    BY <1>1, <1>2, <1>11, <2>1 DEF Extract, Job
  <2>3. Present(job'.batch) \ job'.done \in SUBSET job.todo
    BY <2>2 DEF Present
  <2>4. /\ Cardinality(Present(job'.batch) \ job'.done) \in Nat
        /\ Cardinality(Present(job'.batch) \ job'.done) <= Cardinality(job.todo)
    BY <1>1, <2>3, SmallerSizes
  <2>5. Cardinality(job.gone) \in Nat /\ Cardinality(job.todo) \in Nat
    BY <1>1, Sizes
  <2>. QED
    BY <2>2, <2>4, <2>5 DEF StepsLeft, FilesLeft, PlaceRank, Idle, Present
<1>12. CASE ReplaceFile(p)
  <2>1. PICK f \in Present(job.batch) \ job.done :
          job' = [job EXCEPT !.wrote = TRUE, !.done = @ \cup {f}, !.touched = @ \cup {f}]
    BY <1>12 DEF ReplaceFile
  <2>2. /\ pc[p] = "drop" /\ pc'[p] = "nodes"
        /\ job'.batch = job.batch /\ job'.done = job.done \cup {f}
    BY <1>1, <1>2, <1>12, <2>1 DEF ReplaceFile, Job
  <2> DEFINE Rest == Present(job.batch) \ job.done
  <2>3. Present(job.batch) \ (job.done \cup {f}) = Rest \ {f} /\ f \in Rest
    BY <2>1
  <2>4. Rest \in SUBSET File /\ Rest \ {f} \in SUBSET Rest /\ Rest \ {f} # Rest
    BY <2>3 DEF Present
  <2>6. FilesLeft("drop", job) = 4 * Cardinality(Rest)
    BY DEF FilesLeft
  <2>7. Present(job'.batch) \ job'.done = Rest \ {f}
    BY <2>2, <2>3
  <2>8. FilesLeft("nodes", job') = 4 * Cardinality(Rest \ {f})
    BY <2>7 DEF FilesLeft
  <2> HIDE DEF Rest
  <2>5. /\ Cardinality(Rest) \in Nat /\ Cardinality(Rest \ {f}) \in Nat
        /\ Cardinality(Rest \ {f}) < Cardinality(Rest)
    BY <2>4, Sizes, SmallerSizes
  <2>. QED
    BY <2>2, <2>5, <2>6, <2>8 DEF StepsLeft, PlaceRank, Idle, FilesLeft
<1>13. CASE InsertNodes(p) \/ InsertRefs(p) \/ UpsertFile(p)
  <2>1. /\ pc[p] \in {"nodes", "refs", "row"} /\ pc'[p] \in {"refs", "row", "drop"} /\ job' = job
        /\ PlaceRank(pc'[p]) < PlaceRank(pc[p])
    BY <1>2, <1>13 DEF InsertNodes, InsertRefs, UpsertFile, PlaceRank, Idle
  <2>2. PlaceRank(pc'[p]) \in 0..12 /\ PlaceRank(pc[p]) \in 0..12
    BY <2>1, RankType DEF Working, SyncSteps
  <2>3. FilesLeft(pc'[p], job') = FilesLeft(pc[p], job)
    BY <2>1 DEF FilesLeft
  <2>. QED
    BY <1>2, <2>1, <2>2, <2>3 DEF StepsLeft
<1>14. WriteSentinel(p) => pc[p] \in {"mark", "smark"}
  BY DEF WriteSentinel
<1>. QED
  BY <1>4, <1>5, <1>6, <1>7, <1>8, <1>9, <1>10, <1>11, <1>12, <1>13, <1>14 DEF Work

\* What other processes do does not reach the operation under way.
LEMMA OthersLeaveIt ==
  ASSUME GraphAssumption, TypeOK, LockDiscipline, NEW p \in Proc, NEW q \in Proc \ {p},
         \/ OpenProject(q) \/ Close(q) \/ Begins(q) \/ Work(q) \/ Fail(q) \/ Crash(q)
  PROVE  StepsLeft(p)' = StepsLeft(p)
<1>1. pc'[p] = pc[p]
  BY DEF TypeOK, Goto, OpenProject, Close, Begins, StartIndex, StartSync, Fail, Crash,
         Work, ProbeWriter, LockRecovery, WriteSentinel, BeginBulkLoad, Clear,
         ExtractAll, InsertAllNodes, InsertAllEdges, UpsertAllFiles, InsertAllRefs, EndBulkLoad,
         Scan, RefuseTransition, RemoveNodes, RemoveRow, Extract, ReplaceFile, InsertNodes,
         InsertRefs, UpsertFile, InsertQueuedEdges, Resolve, Finish
<1>2. CASE pc[p] \in Working
  <2>1. lock = p /\ ~LockFree /\ pc[q] \notin Working
    BY <1>2, GraphAssumption DEF LockDiscipline, LockFree
  <2>2. job' = job
    BY <2>1 DEF OpenProject, Close, Begins, StartIndex, StartSync, Fail, Crash,
         Work, ProbeWriter, LockRecovery, WriteSentinel, BeginBulkLoad, Clear,
         ExtractAll, InsertAllNodes, InsertAllEdges, UpsertAllFiles, InsertAllRefs, EndBulkLoad,
         Scan, RefuseTransition, RemoveNodes, RemoveRow, Extract, ReplaceFile, InsertNodes,
         InsertRefs, UpsertFile, InsertQueuedEdges, Resolve, Finish,
         Working, IndexSteps, SyncSteps
  <2>. QED
    BY <1>1, <2>2 DEF StepsLeft, FilesLeft, Present
<1>3. CASE pc[p] \notin Working
  BY <1>1, <1>3 DEF StepsLeft, FilesLeft, Working, SyncSteps
<1>. QED
  BY <1>2, <1>3

\* An operation that has begun cannot go on for ever, however many files it
\* removes and rewrites: every step of it lowers a natural number, at most
\* 6 * Cardinality(File) + 12 at its start, and nothing else raises that number but
\* the start of another.
THEOREM OperationsRunDown ==
  Spec => [][\A p \in Proc : /\ StepsLeft(p) \in Nat
                             /\ Work(p) => StepsLeft(p)' < StepsLeft(p)
                             /\ StepsLeft(p)' <= StepsLeft(p) \/ Begins(p)]_vars
<1>1. Init => BatchOK
  BY DEF Init, BatchOK, BatchOf
<1>2. IInv /\ BatchOK /\ [Next]_vars => BatchOK'
  BY GraphAssumption, BatchPreserved DEF IInv
<1>3. IInv /\ BatchOK /\ [Next]_vars =>
        [\A p \in Proc : /\ StepsLeft(p) \in Nat
                         /\ Work(p) => StepsLeft(p)' < StepsLeft(p)
                         /\ StepsLeft(p)' <= StepsLeft(p) \/ Begins(p)]_vars
  <2> SUFFICES ASSUME IInv, BatchOK, Next, NEW p \in Proc
               PROVE  /\ StepsLeft(p) \in Nat
                      /\ Work(p) => StepsLeft(p)' < StepsLeft(p)
                      /\ StepsLeft(p)' <= StepsLeft(p) \/ Begins(p)
    BY DEF vars
  <2>1. TypeOK /\ LockDiscipline
    BY DEF IInv
  <2>2. StepsLeft(p) \in Nat
    <3>1. PlaceRank(pc[p]) \in 0..12 /\ FilesLeft(pc[p], job) \in Nat
      BY <2>1, GraphAssumption, RankType, FilesLeftType DEF TypeOK
    <3>. QED
      BY <3>1 DEF StepsLeft
  <2>3. Work(p) => StepsLeft(p)' < StepsLeft(p)
    BY <2>1, GraphAssumption, WorkRunsDown
  <2>4. ASSUME Close(p) \/ Fail(p) \/ Crash(p) PROVE StepsLeft(p)' = 0
    <3>1. pc'[p] \in Idle
      BY <2>1, <2>4 DEF Close, Fail, Crash, Goto, TypeOK, Idle
    <3>. QED
      BY <3>1 DEF StepsLeft, FilesLeft, PlaceRank, Idle
  <2>5. ASSUME NEW f \in File, Edit(f) PROVE StepsLeft(p)' = StepsLeft(p)
    BY <2>5 DEF Edit, StepsLeft, FilesLeft, Present
  <2>6. ASSUME NEW q \in Proc \ {p},
               \/ OpenProject(q) \/ Close(q) \/ Begins(q) \/ Work(q) \/ Fail(q) \/ Crash(q)
        PROVE  StepsLeft(p)' = StepsLeft(p)
    BY <2>1, <2>6, GraphAssumption, OthersLeaveIt
  <2>7. StepsLeft(p)' \in Nat
    <3>1. pc'[p] \in Idle \cup Opening \cup Working /\ job' \in Job
      BY TypePreserved, GraphAssumption DEF IInv, TypeOK
    <3>2. PlaceRank(pc'[p]) \in 0..12 /\ FilesLeft(pc'[p], job') \in Nat
      BY <3>1, GraphAssumption, RankType, FilesLeftType
    <3>. QED
      BY <3>2 DEF StepsLeft
  <2>. QED
    BY <2>2, <2>3, <2>4, <2>5, <2>6, <2>7 DEF Next, Begins
<1>. QED
  BY <1>1, <1>2, <1>3, Invariance, PTL DEF Spec
=============================================================================
