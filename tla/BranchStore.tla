---------------------------- MODULE BranchStore -----------------------------
(***************************************************************************)
(* The databases of a project's branches and the file that names them:     *)
(* branch.rs, branch/gc.rs and `tokensave branch` of commands.rs.  Every   *)
(* command reads branch-meta.json, works on its copy, changes files on     *)
(* disk and saves the copy.  Some hold branch-add.lock meanwhile, some     *)
(* sync.lock, gc both, and remove, removeall and the timestamp of          *)
(* `branch add` none.  A lock is one step here (SyncLock has its protocol) *)
(* and falls free when its holder dies.                                    *)
(***************************************************************************)
EXTENDS BranchMeta, Naturals

CONSTANTS
  Proc,          \* processes that run commands
  Server,        \* those of them that may serve an index
  NoProc,        \* a lock nobody holds
  NoMeta,        \* the copy of a process that runs no command
  MaxOps         \* bound: commands started, those of git included

ASSUME ProcAssumption ==
  /\ NoProc \notin Proc
  /\ NoMeta \notin Meta
  /\ Server \subseteq Proc
  /\ MaxOps \in Nat

VARIABLES
  meta,          \* branch-meta.json
  disk,          \* database files that exist
  refs,          \* local git branches
  branchLock,    \* holder of branch-add.lock
  syncLock,      \* holder of sync.lock
  pc,            \* where each process stands in its command
  job,           \* the working state of its command
  handle,        \* the database a process works with
  registry,      \* the database its entry in ~/.tokensave/servers names
  ops,           \* commands started so far
  moved,         \* history: hashed files that a rename gave to another branch
  strayed        \* history: files whose deletion or revival the metadata missed

vars == <<meta, disk, refs, branchLock, syncLock, pc, job, handle, registry,
          ops, moved, strayed>>

\* Which locks a command holds from its load to its save.
Guarded == {"branch", "sync", "both", "none"}

\* next: the metadata it will save.  todo: branches gc has yet to consider.
\* doomed: files it is about to unlink.  cut: files it unlinked and that the
\* saved metadata may still name.  keep: gc's protected files.  late: servers
\* that registered or switched since keep was read.  overtaken: locks of the
\* commands that changed the metadata since it was loaded.
Job == [guarded : Guarded, gc : BOOLEAN, next : Meta \cup {NoMeta}, target : File \cup {NoFile},
        todo : SUBSET Branch, doomed : SUBSET File, cut : SUBSET File,
        keep : SUBSET File, late : SUBSET Proc, overtaken : SUBSET Guarded]

TypeOK ==
  /\ meta \in Meta
  /\ meta.default \in Tracked(meta)
  /\ disk \subseteq File
  /\ refs \subseteq Branch
  /\ branchLock \in Proc \cup {NoProc} /\ syncLock \in Proc \cup {NoProc}
  /\ pc \in [Proc -> {"idle", "copy", "gc", "unlink", "save"}]
  /\ job \in [Proc -> Job]
  /\ handle \in [Proc -> File \cup {NoFile}]
  /\ registry \in [Proc -> File \cup {NoFile}]
  /\ ops \in 0..MaxOps
  /\ moved \subseteq File /\ strayed \subseteq File

\* A job that will save m; the rest is filled in by the command.
NewJob(guarded, m) ==
  [guarded |-> guarded, gc |-> FALSE, next |-> m, target |-> NoFile,
   todo |-> {}, doomed |-> {}, cut |-> {}, keep |-> {}, late |-> {},
   overtaken |-> {}]

NoJob == NewJob("none", NoMeta)

Files(m) == {m.file[b] : b \in Tracked(m)}

Init ==
  /\ meta \in {m \in Meta : Settled(m)}
  /\ disk = Files(meta)
  /\ refs \in SUBSET Branch
  /\ branchLock = NoProc /\ syncLock = NoProc
  /\ pc = [p \in Proc |-> "idle"]
  /\ job = [p \in Proc |-> NoJob]
  /\ handle = [p \in Proc |-> NoFile] /\ registry = [p \in Proc |-> NoFile]
  /\ ops = 0 /\ moved = {} /\ strayed = {}

\* Hashed files that belong to another branch than the one they are named for.
Misnamed(m) ==
  {HashedFile[o] : o \in {o \in Branch : \E b \in Branch \ {o} : m.file[b] = HashedFile[o]}}

Goto(p, l) == pc' = [pc EXCEPT ![p] = l]

TakesBranchLock(g) == g \in {"branch", "both"}
TakesSyncLock(g)   == g \in {"sync", "both"}

\* Mutant of Start: the metadata is loaded before the branch lock is asked for,
\* so that a holder makes no difference to it.
Start_LoadsFirst(p, l, j) ==
  /\ pc[p] = "idle" /\ ops < MaxOps
  /\ TakesSyncLock(j.guarded) => syncLock = NoProc
  /\ branchLock' = IF TakesBranchLock(j.guarded) THEN p ELSE branchLock
  /\ syncLock' = IF TakesSyncLock(j.guarded) THEN p ELSE syncLock
  /\ ops' = ops + 1
  /\ job' = [job EXCEPT ![p] = j]
  /\ Goto(p, l)
  /\ UNCHANGED <<meta, disk, refs, handle, registry, moved, strayed>>

\* A command takes its locks and loads the metadata; it goes on at l.
Start(p, l, j) ==
  /\ pc[p] = "idle" /\ ops < MaxOps
  /\ TakesBranchLock(j.guarded) => branchLock = NoProc
  /\ TakesSyncLock(j.guarded) => syncLock = NoProc
  /\ branchLock' = IF TakesBranchLock(j.guarded) THEN p ELSE branchLock
  /\ syncLock' = IF TakesSyncLock(j.guarded) THEN p ELSE syncLock
  /\ ops' = ops + 1
  /\ job' = [job EXCEPT ![p] = j]
  /\ Goto(p, l)
  /\ UNCHANGED <<meta, disk, refs, handle, registry, moved, strayed>>

\* Guards dropped; the job is over.
Leave(p) ==
  /\ Goto(p, "idle")
  /\ branchLock' = IF branchLock = p THEN NoProc ELSE branchLock
  /\ syncLock' = IF syncLock = p THEN NoProc ELSE syncLock

-----------------------------------------------------------------------------
\* Mutant of StartTrack: the entry is saved first, the copy left to the first open.
StartTrack_NoCopy(p, b) ==
  /\ b \notin Tracked(meta)
  /\ \E a \in (Tracked(meta) \cap refs) \cup {meta.default} : meta.file[a] \in disk
  /\ Start(p, "save", NewJob("branch", AddBranch(meta, b, UniqueFile(meta, b))))

\* `branch add`, its hook and auto-track: any tracked branch that git knows may
\* turn out the nearest ancestor; its database must exist.
StartTrack(p, b) ==
  LET f == UniqueFile(meta, b) IN
  /\ b \notin Tracked(meta)
  /\ \E a \in (Tracked(meta) \cap refs) \cup {meta.default} : meta.file[a] \in disk
  /\ Start(p, "copy", [NewJob("branch", AddBranch(meta, b, f)) EXCEPT !.target = f])

\* The snapshot is renamed over the target, whatever was there.
Copy(p) ==
  /\ pc[p] = "copy"
  /\ disk' = disk \cup {job[p].target}
  /\ Goto(p, "save")
  /\ UNCHANGED <<meta, refs, branchLock, syncLock, job, handle, registry, ops, moved, strayed>>

\* Mutant of StartSetDefault: an untracked name becomes the default as it is.
StartSetDefault_Untracked(p, b) ==
  /\ b # meta.default /\ b \in Tracked(meta) \cup refs
  /\ Start(p, "save", NewJob("branch", SetDefault(meta, b)))

\* `branch set-default`: promote a tracked branch, rename the default's entry
\* to another one that git knows.
StartSetDefault(p, b) ==
  \/ /\ b \in Tracked(meta) \ {meta.default}
     /\ Start(p, "save", NewJob("branch", SetDefault(meta, b)))
  \/ /\ b \in refs \ Tracked(meta)
     /\ Start(p, "save", NewJob("branch", RenameDefault(meta, b)))

\* Every open: the default is gone and the one git points to has no entry.
StartReconcile(p, b) ==
  /\ meta.default \notin refs
  /\ b \in refs \ Tracked(meta)
  /\ Start(p, "save", NewJob("branch", RenameDefault(meta, b)))

\* last_synced_at, under the sync lock of a sync or, after `branch add`, bare.
StartTouch(p, guarded) ==
  /\ guarded \in {"sync", "none"}
  /\ Start(p, "save", NewJob(guarded, meta))

\* `branch remove` of one branch, `removeall` of all but the default.
StartRemove(p, S) ==
  LET others == Tracked(meta) \ {meta.default} IN
  /\ S # {} /\ (S = others \/ \E b \in others : S = {b})
  /\ Start(p, "unlink", [NewJob("none", RemoveBranches(meta, S)) EXCEPT
                           !.doomed = {meta.file[b] : b \in S}])

\* gc protects the database its caller has just resolved or, in a server's lazy
\* sync, the one it started with, besides those of the registered servers.
StartGc(p, own) ==
  /\ own \in {{}, {handle[p]}}
  /\ registry[p] = NoFile => own = {handle[p]}
  /\ Start(p, "gc", [NewJob("both", meta) EXCEPT
                       !.gc = TRUE,
                       !.todo = Tracked(meta) \ (refs \cup {meta.default}),
                       !.keep = (own \cup {registry[q] : q \in Proc}) \ {NoFile}])

\* Mutant of Spared: the protected files are collected and never asked for.
Spared_Unprotected(j, b) ==
  \/ j.next.file[b] = TokensaveDb
  \/ \E o \in Branch \ {b} : j.next.file[o] = j.next.file[b]
  \/ b \in refs

\* What gc leaves alone: files outside branches/, protected ones, those that
\* another branch shares, and branches git has again.
Spared(j, b) ==
  \/ j.next.file[b] \in j.keep \cup {TokensaveDb}
  \/ \E o \in Branch \ {b} : j.next.file[o] = j.next.file[b]
  \/ b \in refs

GcSkip(p, b) ==
  /\ pc[p] = "gc" /\ b \in job[p].todo
  /\ Spared(job[p], b)
  /\ job' = [job EXCEPT ![p].todo = @ \ {b}]
  /\ UNCHANGED <<meta, disk, refs, branchLock, syncLock, pc, handle, registry, ops, moved, strayed>>

GcCondemn(p, b) ==
  /\ pc[p] = "gc" /\ b \in job[p].todo
  /\ ~Spared(job[p], b)
  /\ job' = [job EXCEPT ![p] = [job[p] EXCEPT !.todo = @ \ {b},
                                              !.doomed = {job[p].next.file[b]},
                                              !.next = RemoveBranches(@, {b})]]
  /\ Goto(p, "unlink")
  /\ UNCHANGED <<meta, disk, refs, branchLock, syncLock, handle, registry, ops, moved, strayed>>

GcDone(p) ==
  /\ pc[p] = "gc" /\ job[p].todo = {}
  /\ job' = [job EXCEPT ![p] = NoJob]
  /\ Leave(p)
  /\ UNCHANGED <<meta, disk, refs, handle, registry, ops, moved, strayed>>

\* One database and its sidecars; a file that is gone already is no error.
Unlink(p, f) ==
  /\ pc[p] = "unlink" /\ f \in job[p].doomed
  /\ disk' = disk \ {f}
  /\ job' = [job EXCEPT ![p].doomed = @ \ {f}, ![p].cut = @ \cup {f}]
  /\ Goto(p, IF job[p].doomed = {f} THEN "save" ELSE "unlink")
  /\ UNCHANGED <<meta, refs, branchLock, syncLock, handle, registry, ops, moved, strayed>>

\* The commands that have loaded the metadata learn that it was changed.
Overtake(p, q) ==
  IF q # p /\ pc[q] # "idle" /\ meta' # meta
  THEN [job[q] EXCEPT !.overtaken = @ \cup {job[p].guarded}]
  ELSE job[q]

\* branch-meta.json is replaced by the copy, whatever it says by now.
Save(p) ==
  /\ pc[p] = "save"
  /\ meta' = job[p].next
  /\ moved' = moved \cup Misnamed(meta')
  /\ strayed' = IF job[p].overtaken = {} THEN strayed
                ELSE strayed \cup job[p].cut \cup (Files(meta') \ Files(meta))
  /\ job' = [q \in Proc |->
               IF q # p THEN Overtake(p, q)
               ELSE IF job[p].gc THEN [job[p] EXCEPT !.cut = {}, !.overtaken = {}]
               ELSE NoJob]
  /\ IF job[p].gc THEN Goto(p, "gc") /\ UNCHANGED <<branchLock, syncLock>> ELSE Leave(p)
  /\ UNCHANGED <<disk, refs, handle, registry, ops>>

\* A copy, an unlink, git or the save fails; what is done stays done.
Abandon(p) ==
  /\ pc[p] # "idle"
  /\ strayed' = strayed \cup job[p].cut
  /\ job' = [job EXCEPT ![p] = NoJob]
  /\ Leave(p)

Fail(p) ==
  /\ Abandon(p)
  /\ UNCHANGED <<meta, disk, refs, handle, registry, ops, moved>>

\* The process dies: its guards are stale, its entry in servers/ is reaped.
Crash(p) ==
  /\ Abandon(p)
  /\ handle' = [handle EXCEPT ![p] = NoFile]
  /\ registry' = [registry EXCEPT ![p] = NoFile]
  /\ UNCHANGED <<meta, disk, refs, ops, moved>>

-----------------------------------------------------------------------------
\* resolve_db_for_branch: the branch's own database, else that of an ancestor
\* git knows, else the default's, as long as the file is there.
Resolved(b) ==
  IF b \in Tracked(meta) /\ meta.file[b] \in disk THEN {meta.file[b]}
  ELSE {meta.file[a] : a \in (Tracked(meta) \cap refs) \cup {meta.default}} \cap disk

\* b is the branch checked out where the process runs.
OpenIndex(p, b) ==
  /\ p \in Server
  /\ pc[p] = "idle" /\ handle[p] = NoFile
  /\ ops < MaxOps /\ ops' = ops + 1
  /\ b \in refs
  /\ \E f \in Resolved(b) : handle' = [handle EXCEPT ![p] = f]
  /\ UNCHANGED <<meta, disk, refs, branchLock, syncLock, pc, job, registry, moved, strayed>>

\* Every gc under way has missed what p does to what it serves.
Missed(p) ==
  job' = [q \in Proc |-> IF job[q].gc THEN [job[q] EXCEPT !.late = @ \cup {p}] ELSE job[q]]

\* A server announces itself once, with the database it started with.
Register(p) ==
  /\ pc[p] = "idle" /\ handle[p] # NoFile /\ registry[p] = NoFile
  /\ registry' = [registry EXCEPT ![p] = handle[p]]
  /\ Missed(p)
  /\ UNCHANGED <<meta, disk, refs, branchLock, syncLock, pc, handle, ops, moved, strayed>>

\* BranchRuntime::lease after a checkout of b: another database, same entry.
Switch(p, b) ==
  /\ pc[p] = "idle" /\ registry[p] # NoFile
  /\ b \in refs
  /\ \E f \in Resolved(b) : handle' = [handle EXCEPT ![p] = f]
  /\ Missed(p)
  /\ UNCHANGED <<meta, disk, refs, branchLock, syncLock, pc, registry, ops, moved, strayed>>

Exit(p) ==
  /\ pc[p] = "idle" /\ handle[p] # NoFile
  /\ handle' = [handle EXCEPT ![p] = NoFile]
  /\ registry' = [registry EXCEPT ![p] = NoFile]
  /\ UNCHANGED <<meta, disk, refs, branchLock, syncLock, pc, job, ops, moved, strayed>>

\* git branch and git branch -D take no lock of tokensave.
GitBranch(b) ==
  /\ ops < MaxOps /\ ops' = ops + 1
  /\ refs' \in {refs \cup {b}, refs \ {b}} /\ refs' # refs
  /\ UNCHANGED <<meta, disk, branchLock, syncLock, pc, job, handle, registry, moved, strayed>>

Next ==
  \/ \E b \in Branch : GitBranch(b)
  \/ \E p \in Proc :
       \/ \E b \in Branch :
            \/ StartTrack(p, b) \/ StartSetDefault(p, b) \/ StartReconcile(p, b)
            \/ GcSkip(p, b) \/ GcCondemn(p, b)
            \/ OpenIndex(p, b) \/ Switch(p, b)
       \/ \E g \in Guarded : StartTouch(p, g)
       \/ \E S \in SUBSET Branch : StartRemove(p, S)
       \/ \E own \in SUBSET (File \cup {NoFile}) : StartGc(p, own)
       \/ \E f \in File : Unlink(p, f)
       \/ Copy(p) \/ Save(p) \/ GcDone(p) \/ Fail(p) \/ Crash(p)
       \/ Register(p) \/ Exit(p)

Spec == Init /\ [][Next]_vars

-----------------------------------------------------------------------------
\* The locks whose holders a command's own locks keep out.
Excluded(g) == CASE g = "branch" -> {"branch", "both"}
                 [] g = "sync"   -> {"sync", "both"}
                 [] g = "both"   -> {"branch", "sync", "both"}
                 [] g = "none"   -> {}

\* A command that another one with no lock in common overtook.
Exposed(p) == job[p].overtaken \ Excluded(job[p].guarded) # {}

Table == INSTANCE BranchTable WITH table <- meta

\* Two branches never share a database (branch.rs, unique_branch_db_file),
\* unless it is a hashed file that `set-default` or the reconciliation of a
\* renamed default has given to another branch than its name says.
OwnFiles ==
  \A a \in Tracked(meta), b \in Tracked(meta) :
    a # b /\ meta.file[a] = meta.file[b] => meta.file[a] \in moved

\* The database of a tracked branch exists: `branch add` copies before it saves,
\* every deletion is followed by a save.  The exceptions are a deletion in
\* progress, one that was cut short or missed by a save from an older copy of
\* the metadata, and the shared files of OwnFiles.
TrackedHasFile ==
  Files(meta) \subseteq disk \cup moved \cup strayed \cup UNION {job[p].cut : p \in Proc}

\* Every change of branch-meta.json is one whole command applied to what it says
\* at that moment, with the locks that each command takes (guard.rs): no update
\* is lost, except to a command that shares no lock with the one it overtakes.
ImplementsBranchTable ==
  /\ Table!Init
  /\ [][Table!Next \/ \E p \in Proc : Exposed(p) /\ meta' = job[p].next]_meta

\* gc deletes no database of the default branch or of a branch other than the
\* one it drops, none its caller has just opened, and none that a registered
\* server started with, unless the server registered or was switched after gc
\* looked, or a command without a lock changed the metadata meanwhile.
GcSparesOthers ==
  [][\A p \in Proc, f \in disk :
       f \notin disk' /\ pc[p] = "unlink" /\ pc'[p] = "save" /\ job[p].gc =>
         /\ f \in Files(meta) /\ ~Exposed(p) =>
              \E b \in Branch \ {meta.default} :
                {o \in Branch : meta.file[o] = f} = {b} /\ b \notin Tracked(job[p].next)
         /\ registry[p] \in {NoFile, handle[p]} => f # handle[p]
         /\ \A q \in Proc : registry[q] = f => q \in job[p].late]_vars

\* branch/gc.rs: "Never delete default, checked-out, shared, or served databases."
\* The servers are those that had registered, and were serving what they serve,
\* when gc looked for them.
GcSparesServed ==
  [][\A p \in Proc, q \in Proc :
       pc[p] = "unlink" /\ pc'[p] = "save" /\ job[p].gc
         /\ registry[q] # NoFile /\ q \notin job[p].late =>
           handle[q] \notin disk \ disk']_vars
=============================================================================
