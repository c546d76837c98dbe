----------------------------- MODULE GraphIndex -----------------------------
(***************************************************************************)
(* One project database and the operations that rewrite it                 *)
(* (tokensave/indexing.rs, tokensave/mod.rs, tokensave/guard.rs):          *)
(*   index      the full index: clear everything, insert everything        *)
(*   sync       the incremental sync: what changed since the stored rows   *)
(*   transition the sync after a branch switch, refused above a file limit *)
(*   targeted   sync_single_files: the stale files one caller asked about  *)
(*   recover    the full index an open runs when it finds the sentinel     *)
(* Every commit of the database is one step; a process may die, or a step  *)
(* fail, between any two of them.  The sync lock is one step here: the     *)
(* lockfile protocol is module SyncLock.                                   *)
(*                                                                         *)
(* The graph is abstracted to what the operations can leave inconsistent:  *)
(* which version of a file the tables hold, whether the edges and the raw  *)
(* references its extraction produced were stored, and where its reference *)
(* to a symbol of another file is bound.                                   *)
(***************************************************************************)
EXTENDS Naturals, FiniteSets

CONSTANTS
  Proc,      \* processes that open the project
  File,      \* source files of the project
  Rank,      \* the resolver's order of preference among candidate files
  Cand,      \* the files that define the symbol a file refers to
  MaxVer,    \* versions of a file's content; 0 means the file is absent
  None,      \* nobody holds the sync lock
  Stale,     \* the lockfile of a process that died
  Ops,       \* operations the processes run: index, sync, transition, targeted
  MaxAutoSync, \* max_auto_sync_files; 0 means no limit
  Faults     \* crash, fail, skip (extraction of a file), blind (resolver)

ASSUME GraphAssumption ==
  /\ IsFiniteSet(File)
  /\ MaxVer \in Nat \ {0}
  /\ Rank \in [File -> Nat] /\ \A f, g \in File : Rank[f] = Rank[g] => f = g
  /\ Cand \in [File -> SUBSET File] /\ \A f \in File : f \notin Cand[f]
  /\ None \notin Proc /\ Stale \notin Proc /\ None # Stale
  /\ Ops \subseteq {"index", "sync", "transition", "targeted"}
  /\ MaxAutoSync \in Nat
  /\ Faults \subseteq {"crash", "fail", "skip", "blind"}

VARIABLES
  disk,      \* version of every file in the working tree
  rows,      \* files table: the version whose hash and stat are recorded
  nodes,     \* nodes table: the version the stored nodes come from
  local,     \* files whose extracted edges are stored
  refs,      \* files whose raw references are in unresolved_refs
  binds,     \* resolved cross-file edges <<referring file, defining file>>
  bulk,      \* secondary indexes and FTS triggers are dropped
  dirty,     \* the .tokensave/dirty sentinel exists
  lock,      \* holder of the sync lock
  pc,        \* where each process stands
  job,       \* working state of the operation that holds the lock
  lost       \* history: an interruption left no mark, or its mark was reused

tables == <<rows, nodes, local, refs, binds, bulk>>
vars == <<disk, rows, nodes, local, refs, binds, bulk, dirty, lock, pc, job, lost>>

Version == 0..MaxVer

Idle == {"closed", "ready"}
Opening == {"probe", "lockrec"}
IndexSteps == {"mark", "bulk", "clear", "xall", "inodes", "iedges", "irows", "irefs", "endbulk", "iend"}
SyncSteps == {"smark", "scan", "remove", "forget", "drop", "nodes", "refs", "row",
              "resolve", "send"}
Working == IndexSteps \cup SyncSteps

\* gone: rows to delete; todo: files to extract; batch: extracted versions
\* (0 = none); done: files written; touched: files whose names changed;
\* wrote: some table was changed; skipped: files the extractor gave up on.
NoJob == [op |-> "none", seen |-> [f \in File |-> 0], gone |-> {}, todo |-> {},
          batch |-> [f \in File |-> 0], done |-> {}, touched |-> {},
          wrote |-> FALSE, skipped |-> {}]

Job == [op : {"none", "index", "recover", "sync", "transition", "targeted"},
        seen : [File -> Version], gone : SUBSET File, todo : SUBSET File,
        batch : [File -> Version], done : SUBSET File, touched : SUBSET File,
        wrote : BOOLEAN, skipped : SUBSET File]

TypeOK ==
  /\ disk \in [File -> Version] /\ rows \in [File -> Version] /\ nodes \in [File -> Version]
  /\ local \subseteq File /\ refs \subseteq File /\ binds \subseteq File \X File
  /\ bulk \in BOOLEAN /\ dirty \in BOOLEAN /\ lost \in BOOLEAN
  /\ lock \in Proc \cup {None, Stale}
  /\ pc \in [Proc -> Idle \cup Opening \cup Working]
  /\ job \in Job

\* sync_with_progress_internal runs both for sync and for sync_branch_context.
FullSync == job.op \in {"sync", "transition"}

Present(v) == {f \in File : v[f] # 0}

\* The candidate the resolver binds a reference of f to, among the files in D.
Best(f, D) == {g \in Cand[f] \cap D : \A h \in Cand[f] \cap D : Rank[g] <= Rank[h]}

\* The edges resolution produces for the references of files F when the nodes
\* of files D are loaded.
Resolution(F, D) == {e \in F \X D : e[2] \in Best(e[1], D)}

LockFree == lock \in {None, Stale}

-----------------------------------------------------------------------------
\* What "complete" means: the tables describe the recorded files, whole.
Whole ==
  /\ ~bulk
  /\ nodes = rows
  /\ local = Present(rows)
  /\ refs = Present(rows)
  /\ binds = Resolution(Present(rows), Present(rows))

\* A fresh project: any working tree, an index of it or an empty one.
Init ==
  /\ disk \in [File -> {0, 1}]
  /\ rows \in {disk, [f \in File |-> 0]}
  /\ nodes = rows /\ local = Present(rows) /\ refs = Present(rows)
  /\ binds = Resolution(Present(rows), Present(rows))
  /\ bulk = FALSE /\ dirty = FALSE /\ lock = None /\ lost = FALSE
  /\ pc = [p \in Proc |-> "closed"]
  /\ job = NoJob

Goto(p, l) == pc' = [pc EXCEPT ![p] = l]

\* An editor, a build or git changes, creates or deletes a file.
Edit(f) ==
  /\ \E v \in Version \ {disk[f]} : disk' = [disk EXCEPT ![f] = v]
  /\ UNCHANGED <<tables, dirty, lock, pc, job, lost>>

-----------------------------------------------------------------------------
\* Opening a project.

\* crashed = has_dirty_sentinel(..)
OpenProject(p) ==
  /\ pc[p] = "closed"
  /\ Goto(p, IF dirty THEN "probe" ELSE "ready")
  /\ UNCHANGED <<disk, tables, dirty, lock, job, lost>>

\* !sync_in_progress(..): a live holder means no recovery by this open.
ProbeWriter(p) ==
  /\ pc[p] = "probe"
  /\ Goto(p, IF LockFree THEN "lockrec" ELSE "ready")
  /\ UNCHANGED <<disk, tables, dirty, lock, job, lost>>

\* try_acquire_sync_lock(..)?, then the sentinel is read again under the lock;
\* recovery restores the dropped indexes before anything else.
LockRecovery(p) ==
  /\ pc[p] = "lockrec"
  /\ \/ /\ LockFree /\ dirty
        /\ lock' = p
        /\ bulk' = FALSE
        /\ job' = [NoJob EXCEPT !.op = "recover", !.wrote = bulk]
        /\ Goto(p, "mark")
     \/ /\ LockFree /\ ~dirty
        /\ Goto(p, "ready")
        /\ UNCHANGED <<lock, bulk, job>>
     \/ /\ ~LockFree
        /\ Goto(p, "closed")
        /\ UNCHANGED <<lock, bulk, job>>
  /\ UNCHANGED <<disk, rows, nodes, local, refs, binds, dirty, lost>>

Close(p) ==
  /\ pc[p] = "ready"
  /\ Goto(p, "closed")
  /\ UNCHANGED <<disk, tables, dirty, lock, job, lost>>

-----------------------------------------------------------------------------
\* The full index.

StartIndex(p) ==
  /\ "index" \in Ops
  /\ pc[p] = "ready" /\ LockFree
  /\ lock' = p
  /\ job' = [NoJob EXCEPT !.op = "index"]
  /\ Goto(p, "mark")
  /\ UNCHANGED <<disk, tables, dirty, lost>>

\* Mutant of WriteSentinel: only the full index marks the project.
WriteSentinel_IndexOnly(p) ==
  /\ pc[p] \in {"mark", "smark"}
  /\ dirty' = (dirty \/ pc[p] = "mark")
  /\ Goto(p, IF pc[p] = "mark" THEN "bulk" ELSE "scan")
  /\ UNCHANGED <<disk, tables, lock, job, lost>>

\* write_dirty_sentinel, under the lock: full index, recovery and full sync.
WriteSentinel(p) ==
  /\ pc[p] \in {"mark", "smark"}
  /\ dirty' = TRUE
  /\ Goto(p, IF pc[p] = "mark" THEN "bulk" ELSE "scan")
  /\ UNCHANGED <<disk, tables, lock, job, lost>>

BeginBulkLoad(p) ==
  /\ pc[p] = "bulk"
  /\ bulk' = TRUE
  /\ job' = [job EXCEPT !.wrote = TRUE]
  /\ Goto(p, "clear")
  /\ UNCHANGED <<disk, rows, nodes, local, refs, binds, dirty, lock, lost>>

\* Mutant of Clear: the raw references survive.
Clear_KeepsRefs(p) ==
  /\ pc[p] = "clear"
  /\ rows' = [f \in File |-> 0] /\ nodes' = [f \in File |-> 0]
  /\ local' = {} /\ binds' = {}
  /\ Goto(p, "xall")
  /\ UNCHANGED <<disk, refs, bulk, dirty, lock, job, lost>>

Clear(p) ==
  /\ pc[p] = "clear"
  /\ rows' = [f \in File |-> 0] /\ nodes' = [f \in File |-> 0]
  /\ local' = {} /\ refs' = {} /\ binds' = {}
  /\ Goto(p, "xall")
  /\ UNCHANGED <<disk, bulk, dirty, lock, job, lost>>

\* Extraction reads the working tree; a file it gives up on is left out.
ExtractAll(p) ==
  /\ pc[p] = "xall"
  /\ \E S \in IF "skip" \in Faults THEN SUBSET Present(disk) ELSE {{}} :
       job' = [job EXCEPT !.seen = disk, !.skipped = S,
                          !.batch = [f \in File |-> IF f \in S THEN 0 ELSE disk[f]]]
  /\ Goto(p, "inodes")
  /\ UNCHANGED <<disk, tables, dirty, lock, lost>>

\* A table after the upsert of the whole batch: no row is taken away.
Stored(table) == [f \in File |-> IF job.batch[f] # 0 THEN job.batch[f] ELSE table[f]]

InsertAllNodes(p) ==
  /\ pc[p] = "inodes"
  /\ nodes' = Stored(nodes)
  /\ Goto(p, "iedges")
  /\ UNCHANGED <<disk, rows, local, refs, binds, bulk, dirty, lock, job, lost>>

\* Extracted and resolved edges go in together: resolution was in memory.
InsertAllEdges(p) ==
  /\ pc[p] = "iedges"
  /\ local' = local \cup Present(job.batch)
  /\ binds' = binds \cup Resolution(Present(job.batch), Present(job.batch))
  /\ Goto(p, "irows")
  /\ UNCHANGED <<disk, rows, nodes, refs, bulk, dirty, lock, job, lost>>

UpsertAllFiles(p) ==
  /\ pc[p] = "irows"
  /\ rows' = Stored(rows)
  /\ Goto(p, "irefs")
  /\ UNCHANGED <<disk, nodes, local, refs, binds, bulk, dirty, lock, job, lost>>

InsertAllRefs(p) ==
  /\ pc[p] = "irefs"
  /\ refs' = refs \cup Present(job.batch)
  /\ Goto(p, "endbulk")
  /\ UNCHANGED <<disk, rows, nodes, local, binds, bulk, dirty, lock, job, lost>>

EndBulkLoad(p) ==
  /\ pc[p] = "endbulk"
  /\ bulk' = FALSE
  /\ Goto(p, "iend")
  /\ UNCHANGED <<disk, rows, nodes, local, refs, binds, dirty, lock, job, lost>>

\* clear_dirty_sentinel, then the guard is dropped; the last step of every
\* operation that succeeds.
Finish(p) ==
  /\ pc[p] \in {"iend", "send"}
  /\ dirty' = FALSE
  /\ lock' = None
  /\ job' = NoJob
  /\ Goto(p, "ready")
  /\ UNCHANGED <<disk, tables, lost>>

-----------------------------------------------------------------------------
\* The incremental operations.

\* sync goes on to write the sentinel; sync_single_files does not.
StartSync(p, op) ==
  /\ op \in Ops \ {"index"}
  /\ pc[p] = "ready" /\ LockFree
  /\ lock' = p
  /\ lost' = (lost \/ dirty)
  /\ job' = [NoJob EXCEPT !.op = op]
  /\ Goto(p, IF op = "targeted" THEN "scan" ELSE "smark")
  /\ UNCHANGED <<disk, tables, dirty>>

\* Mutant of Scan: files without a row yet are not picked up.
Scan_KnownFiles(p) ==
  /\ pc[p] = "scan"
  /\ job' = [job EXCEPT !.seen = disk,
                        !.gone = {f \in File : disk[f] = 0 /\ rows[f] # 0},
                        !.todo = {f \in Present(rows) : disk[f] # 0 /\ disk[f] # rows[f]}]
  /\ Goto(p, "remove")
  /\ UNCHANGED <<disk, tables, dirty, lock, lost>>

\* sync compares the tree with the rows.  A targeted sync takes the files F its
\* caller found stale before it had the lock, as they are now, unchecked.
Scan(p) ==
  /\ pc[p] = "scan"
  /\ \/ /\ FullSync
        /\ job' = [job EXCEPT !.seen = disk,
                             !.gone = {f \in File : disk[f] = 0 /\ rows[f] # 0},
                             !.todo = {f \in File : disk[f] # 0 /\ disk[f] # rows[f]}]
     \/ /\ job.op = "targeted"
        /\ \E F \in SUBSET File \ {{}} :
             job' = [job EXCEPT !.seen = disk, !.gone = F \ Present(disk),
                                !.todo = F \cap Present(disk)]
  /\ Goto(p, "remove")
  /\ UNCHANGED <<disk, tables, dirty, lock, lost>>

\* A branch switch that changed too many files is left to an explicit sync:
\* the sentinel is removed and an error returned.
RefuseTransition(p) ==
  /\ pc[p] = "remove" /\ job.op = "transition" /\ ~job.wrote
  /\ MaxAutoSync # 0 /\ Cardinality(job.gone \cup job.todo) > MaxAutoSync
  /\ dirty' = FALSE
  /\ lock' = None
  /\ job' = NoJob
  /\ Goto(p, "ready")
  /\ UNCHANGED <<disk, tables, lost>>

\* The transition is within the limit, or the operation knows none.
WithinLimit == job.wrote \/ job.op # "transition" \/ MaxAutoSync = 0
                 \/ Cardinality(job.gone \cup job.todo) <= MaxAutoSync

\* Mutant of DeleteNodes: only the edges that start at the file go.
DeleteNodes_OutgoingOnly(f) ==
  /\ nodes' = [nodes EXCEPT ![f] = 0]
  /\ local' = local \ {f}
  /\ refs' = refs \ {f}
  /\ binds' = {e \in binds : f # e[1]}

DeleteNodes(f) ==
  /\ nodes' = [nodes EXCEPT ![f] = 0]
  /\ local' = local \ {f}
  /\ refs' = refs \ {f}
  /\ binds' = {e \in binds : f \notin {e[1], e[2]}}

\* delete_file, first commit: the nodes and every edge at either end.  Only
\* the full sync adds the deleted names to the touched set.
RemoveNodes(p) ==
  /\ pc[p] = "remove" /\ WithinLimit
  /\ \E f \in job.gone :
       /\ DeleteNodes(f)
       /\ job' = [job EXCEPT !.wrote = TRUE, !.done = {f},
                             !.touched = IF FullSync THEN @ \cup {f} ELSE @]
  /\ Goto(p, "forget")
  /\ UNCHANGED <<disk, rows, bulk, dirty, lock, lost>>

\* Mutant of RemoveRow: the removal list never shrinks.
RemoveRow_KeepsList(p) ==
  /\ pc[p] = "forget"
  /\ rows' = [f \in File |-> IF f \in job.done THEN 0 ELSE rows[f]]
  /\ job' = [job EXCEPT !.done = {}]
  /\ Goto(p, "remove")
  /\ UNCHANGED <<disk, nodes, local, refs, binds, bulk, dirty, lock, lost>>

\* delete_file, second commit: the files row.
RemoveRow(p) ==
  /\ pc[p] = "forget"
  /\ rows' = [f \in File |-> IF f \in job.done THEN 0 ELSE rows[f]]
  /\ job' = [job EXCEPT !.gone = @ \ job.done, !.done = {}]
  /\ Goto(p, "remove")
  /\ UNCHANGED <<disk, nodes, local, refs, binds, bulk, dirty, lock, lost>>

\* The workers read the files again: a file edited since the scan contributes
\* what it holds now, one deleted since, or given up on, contributes nothing.
Extract(p) ==
  /\ pc[p] = "remove" /\ WithinLimit /\ job.gone = {}
  /\ \E S \in IF "skip" \in Faults THEN SUBSET job.todo ELSE {{}} :
       job' = [job EXCEPT !.skipped = S,
                          !.batch = [f \in File |-> IF f \in job.todo \ S THEN disk[f] ELSE 0]]
  /\ Goto(p, "drop")
  /\ UNCHANGED <<disk, tables, dirty, lock, lost>>

\* Per extracted file, four commits: old nodes out, new nodes, references, row.
ReplaceFile(p) ==
  /\ pc[p] = "drop"
  /\ \E f \in Present(job.batch) \ job.done :
       /\ DeleteNodes(f)
       /\ job' = [job EXCEPT !.wrote = TRUE, !.done = @ \cup {f}, !.touched = @ \cup {f}]
  /\ Goto(p, "nodes")
  /\ UNCHANGED <<disk, rows, bulk, dirty, lock, lost>>

\* The file being rewritten is the one of done whose nodes are missing.
InsertNodes(p) ==
  /\ pc[p] = "nodes"
  /\ nodes' = [f \in File |-> IF f \in job.done THEN job.batch[f] ELSE nodes[f]]
  /\ Goto(p, "refs")
  /\ UNCHANGED <<disk, rows, local, refs, binds, bulk, dirty, lock, job, lost>>

InsertRefs(p) ==
  /\ pc[p] = "refs"
  /\ refs' = refs \cup job.done
  /\ Goto(p, "row")
  /\ UNCHANGED <<disk, rows, nodes, local, binds, bulk, dirty, lock, job, lost>>

UpsertFile(p) ==
  /\ pc[p] = "row"
  /\ rows' = [f \in File |-> IF f \in job.done THEN job.batch[f] ELSE rows[f]]
  /\ Goto(p, "drop")
  /\ UNCHANGED <<disk, nodes, local, refs, binds, bulk, dirty, lock, job, lost>>

\* Phase 2: the queued edges of every file just written.
InsertQueuedEdges(p) ==
  /\ pc[p] = "drop" /\ Present(job.batch) \subseteq job.done
  /\ local' = local \cup job.done
  /\ Goto(p, "resolve")
  /\ UNCHANGED <<disk, rows, nodes, refs, binds, bulk, dirty, lock, job, lost>>

\* The pass is skipped when sync had nothing to extract, and when a targeted
\* sync neither extracted nor touched anything.
SkipsResolution ==
  job.todo = {} /\ (FullSync \/ job.touched = {})

\* References of rewritten files and references to touched names are
\* attempted again; new edges are added, and none is taken away.
Resolve(p) ==
  /\ pc[p] = "resolve"
  /\ LET attempted == {f \in refs : f \in job.done \/ Cand[f] \cap job.touched # {}}
     IN  \/ /\ binds' = IF SkipsResolution THEN binds
                        ELSE binds \cup Resolution(attempted, Present(nodes))
            /\ UNCHANGED lost
         \* get_all_nodes_for_resolution failed: unwrap_or_default()
         \/ /\ "blind" \in Faults /\ ~SkipsResolution
            /\ lost' = TRUE
            /\ UNCHANGED binds
  /\ Goto(p, "send")
  /\ UNCHANGED <<disk, rows, nodes, local, refs, bulk, dirty, lock, job>>

-----------------------------------------------------------------------------
\* Interruptions.

\* A targeted sync that had begun to write leaves no sentinel of its own.
LeavesNoMark == job.op = "targeted" /\ job.wrote

\* Mutant of Fail: dropping the guard removes the sentinel too.
Fail_ClearsSentinel(p) ==
  /\ "fail" \in Faults
  /\ pc[p] \in Working
  /\ lock' = None /\ dirty' = FALSE
  /\ lost' = (lost \/ LeavesNoMark)
  /\ job' = NoJob
  /\ Goto(p, IF job.op = "recover" THEN "closed" ELSE "ready")
  /\ UNCHANGED <<disk, tables>>

\* A database error, a moved checkout or the shutdown flag: the operation
\* returns early, the guard is dropped, the sentinel stays.  An open whose
\* recovery fails fails as a whole.
Fail(p) ==
  /\ "fail" \in Faults
  /\ pc[p] \in Working
  /\ lock' = None
  /\ lost' = (lost \/ LeavesNoMark)
  /\ job' = NoJob
  /\ Goto(p, IF job.op = "recover" THEN "closed" ELSE "ready")
  /\ UNCHANGED <<disk, tables, dirty>>

\* The process is killed: its lockfile stays behind.
Crash(p) ==
  /\ "crash" \in Faults
  /\ pc[p] # "closed"
  /\ lock' = IF lock = p THEN Stale ELSE lock
  /\ lost' = (lost \/ (lock = p /\ LeavesNoMark))
  /\ job' = IF lock = p THEN NoJob ELSE job
  /\ Goto(p, "closed")
  /\ UNCHANGED <<disk, tables, dirty>>

Work(p) ==
  \/ ProbeWriter(p) \/ LockRecovery(p) \/ WriteSentinel(p)
  \/ BeginBulkLoad(p) \/ Clear(p) \/ ExtractAll(p) \/ InsertAllNodes(p)
  \/ InsertAllEdges(p) \/ UpsertAllFiles(p) \/ InsertAllRefs(p) \/ EndBulkLoad(p)
  \/ Scan(p) \/ RefuseTransition(p) \/ RemoveNodes(p) \/ RemoveRow(p) \/ Extract(p) \/ ReplaceFile(p)
  \/ InsertNodes(p) \/ InsertRefs(p) \/ UpsertFile(p) \/ InsertQueuedEdges(p)
  \/ Resolve(p) \/ Finish(p)

Next ==
  \/ \E f \in File : Edit(f)
  \/ \E p \in Proc :
       \/ OpenProject(p) \/ Close(p)
       \/ StartIndex(p) \/ (\E op \in {"sync", "transition", "targeted"} : StartSync(p, op))
       \/ Work(p) \/ Fail(p) \/ Crash(p)

Spec == Init /\ [][Next]_vars

\* A running operation takes its next step.
FairSpec == Spec /\ \A p \in Proc : WF_vars(Work(p))

-----------------------------------------------------------------------------
Writing == \E p \in Proc : pc[p] \in Working

\* docs/reliability/CRASH-RECOVERY-CONTRACT.md, invariant 1: "A failed or
\* interrupted index operation must never silently expose a partially updated
\* graph as complete."  With no writer and no sentinel the graph is complete.
NoSilentPartialGraph == ~Writing /\ ~dirty => Whole

\* cancel.rs: leaving a sync early leaves "the index correctly marked dirty, so
\* the next sync redoes the abandoned work": after a sync that succeeds, every
\* recorded file has its nodes and its extracted edges.
SyncRedoesAbandonedWork ==
  [][\A p \in Proc : pc[p] = "send" /\ pc'[p] = "ready" /\ FullSync =>
       nodes' = rows' /\ local' = Present(rows')]_vars

\* indexing.rs: the references are kept to keep "sync convergent with a full
\* reindex": a sync that succeeds binds them the way a full index would.
SyncConverges ==
  [][\A p \in Proc : pc[p] = "send" /\ pc'[p] = "ready" /\ FullSync =>
       binds' = Resolution(Present(rows'), Present(rows'))]_vars

\* The same, as far as the sentinel protocol carries it: until a targeted sync
\* is cut short after its first write, or an incremental operation starts on
\* an already marked graph, or resolution runs blind.  It holds where a reference
\* has at most one candidate; with several, see SyncConverges.
PartialIsMarked == ~lost => NoSilentPartialGraph

\* Nothing is torn: the tables agree on which version of which files they hold,
\* every recorded file has its nodes, edges and references, and every resolved
\* edge joins two recorded files, the second a candidate for the first's reference.
NotTorn ==
  /\ ~bulk /\ nodes = rows
  /\ local = Present(rows) /\ refs = Present(rows)
  /\ binds \subseteq {e \in Present(rows) \X Present(rows) : e[2] \in Cand[e[1]]}

\* What is left of it where a reference has several candidates: an unmarked graph
\* may differ from a full index's in which candidate a reference is bound to, or
\* whether it is bound, and in nothing else: no half-written file passes for whole
\* and no edge leads to a file that is gone.
UnmarkedIsNotTorn == ~lost /\ ~Writing /\ ~dirty => NotTorn

\* The sentinel stands for as long as a full index, a recovery or a sync may
\* have torn the tables: no other process clears it meanwhile.
WriterIsMarked ==
  lock \in Proc /\ job.wrote /\ job.op # "targeted" => dirty

\* Whatever an interruption leaves behind, a recovery or a full index that
\* runs to its end repairs it completely.
FullIndexRepairs ==
  [][\A p \in Proc : pc[p] = "iend" /\ pc'[p] = "ready" => Whole']_vars

\* A sync that reports success has recorded every file the extractor accepted
\* at the version its scan saw, unless the file changed before extraction.
SyncCoversScan ==
  [][\A p \in Proc :
       pc[p] = "send" /\ pc'[p] = "ready" /\ FullSync =>
         \A f \in File \ job.skipped :
           (f \in job.todo => job.batch[f] = job.seen[f]) => rows'[f] = job.seen[f]]_vars

\* Every operation ends and gives the sync lock back.
LockReleased == \A p \in Proc : lock = p ~> lock # p
=============================================================================
