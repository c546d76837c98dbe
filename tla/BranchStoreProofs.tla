------------------------- MODULE BranchStoreProofs --------------------------
(***************************************************************************)
(* Proofs about BranchStore, for any branches, names of files, processes   *)
(* and number of commands.                                                 *)
(***************************************************************************)
EXTENDS BranchStore, TLAPS

Sound(m) == m \in Meta /\ m.default \in Tracked(m)

\* What gc has yet to consider are branches of its copy other than the default.
Copies(j) ==
  /\ Sound(j.next)
  /\ j.todo \subseteq Tracked(j.next) \ {j.next.default}

Label == {"idle", "copy", "gc", "unlink", "save"}

Jobs ==
  \A p \in Proc :
    /\ pc[p] = "idle" => job[p] = NoJob
    /\ pc[p] # "idle" => Copies(job[p])
    /\ pc[p] = "copy" => job[p].target \in File

TInv == TypeOK /\ Jobs

-----------------------------------------------------------------------------
\* The methods of BranchMeta keep the metadata sound, and change the set of
\* tracked branches as their names say.
LEMMA MetaMethods ==
  ASSUME BranchAssumption, NEW m, Sound(m)
  PROVE  /\ \A b \in Branch, f \in File :
              Sound(AddBranch(m, b, f)) /\ Tracked(AddBranch(m, b, f)) = Tracked(m) \cup {b}
         /\ \A b \in Tracked(m) : Sound(SetDefault(m, b))
         /\ \A b \in Branch \ Tracked(m) : Sound(RenameDefault(m, b))
         /\ \A S : m.default \notin S =>
              /\ Sound(RemoveBranches(m, S))
              /\ Tracked(RemoveBranches(m, S)) = Tracked(m) \ S
              /\ RemoveBranches(m, S).default = m.default
              /\ \A b \in Branch \ S : RemoveBranches(m, S).file[b] = m.file[b]
         /\ \A b \in Branch : UniqueFile(m, b) \in File \ {TokensaveDb}
         /\ \A b \in Tracked(m) : m.file[b] \in File
         /\ Files(m) \subseteq File
<1>. m \in Meta /\ m.default \in Tracked(m)
  BY DEF Sound
<1>1. ASSUME NEW b \in Branch, NEW f \in File
      PROVE  Sound(AddBranch(m, b, f)) /\ Tracked(AddBranch(m, b, f)) = Tracked(m) \cup {b}
  BY <1>1, BranchAssumption DEF BranchAssumption, Sound, AddBranch, Tracked, Meta
<1>2. ASSUME NEW b \in Tracked(m) PROVE Sound(SetDefault(m, b))
  BY <1>2 DEF Sound, SetDefault, Tracked, Meta
<1>3. ASSUME NEW b \in Branch \ Tracked(m) PROVE Sound(RenameDefault(m, b))
  <2>. DEFINE r == RenameDefault(m, b)
  <2>1. b # m.default /\ b \in Branch /\ m.default \in Branch
    BY <1>3 DEF Tracked, Meta
  <2>2. r \in Meta /\ r.default = b /\ r.file[b] = m.file[m.default]
    BY <2>1 DEF RenameDefault, Meta
  <2>. QED
    BY <2>1, <2>2 DEF Sound, Tracked
<1>4. ASSUME NEW S, m.default \notin S
      PROVE  /\ Sound(RemoveBranches(m, S))
             /\ Tracked(RemoveBranches(m, S)) = Tracked(m) \ S
             /\ RemoveBranches(m, S).default = m.default
             /\ \A b \in Branch \ S : RemoveBranches(m, S).file[b] = m.file[b]
  BY <1>4, BranchAssumption DEF BranchAssumption, Sound, RemoveBranches, Tracked, Meta
<1>5. \A b \in Branch : UniqueFile(m, b) \in File \ {TokensaveDb}
  BY BranchAssumption DEF BranchAssumption, UniqueFile
<1>6. \A b \in Tracked(m) : m.file[b] \in File
  BY DEF Tracked, Meta
<1>. QED
  BY <1>1, <1>2, <1>3, <1>4, <1>5, <1>6 DEF Files

\* gc drops one branch at a time.
LEMMA RemoveOne ==
  ASSUME BranchAssumption, NEW m, Sound(m), NEW b \in Branch, b # m.default
  PROVE  /\ Sound(RemoveBranches(m, {b}))
         /\ Tracked(RemoveBranches(m, {b})) = Tracked(m) \ {b}
         /\ RemoveBranches(m, {b}).default = m.default
         /\ \A o \in Branch \ {b} : RemoveBranches(m, {b}).file[o] = m.file[o]
<1>1. m.default \notin {b}
  OBVIOUS
<1>. QED BY <1>1, MetaMethods

\* The jobs that the commands start with are jobs, and their fields are these.
LEMMA NewJobs ==
  ASSUME NEW g \in Guarded, NEW m \in Meta \cup {NoMeta}
  PROVE  /\ NewJob(g, m) \in Job
         /\ NewJob(g, m).guarded = g /\ ~NewJob(g, m).gc /\ NewJob(g, m).next = m
         /\ NewJob(g, m).target = NoFile /\ NewJob(g, m).todo = {}
         /\ NewJob(g, m).doomed = {} /\ NewJob(g, m).cut = {} /\ NewJob(g, m).keep = {}
         /\ NewJob(g, m).late = {} /\ NewJob(g, m).overtaken = {}
BY DEF NewJob, Job

LEMMA NoJobType == NoJob \in Job
BY NewJobs DEF NoJob, Guarded

\* A command that starts with a proper job leaves everything typed.
LEMMA StartTyped ==
  ASSUME BranchAssumption, ProcAssumption, TInv,
         NEW p \in Proc, NEW l \in Label \ {"idle"}, NEW j \in Job,
         Copies(j), l = "copy" => j.target \in File, Start(p, l, j)
  PROVE  TInv'
<1>1. TypeOK'
  BY ProcAssumption DEF TInv, TypeOK, Start, Goto, Label, ProcAssumption
<1>2. Jobs'
  <2>. SUFFICES ASSUME NEW q \in Proc
                PROVE  /\ pc'[q] = "idle" => job'[q] = NoJob
                       /\ pc'[q] # "idle" => Copies(job'[q])
                       /\ pc'[q] = "copy" => job'[q].target \in File
    BY DEF Jobs, Copies
  <2>1. CASE q = p
    BY <2>1 DEF TInv, TypeOK, Start, Goto, Label
  <2>2. CASE q # p
    BY <2>2 DEF TInv, TypeOK, Jobs, Start, Goto
  <2>. QED BY <2>1, <2>2
<1>. QED BY <1>1, <1>2 DEF TInv

\* The steps of a command after its start, and those of servers and of git.
Continue(p) ==
  \/ \E b \in Branch : GcSkip(p, b) \/ GcCondemn(p, b)
  \/ \E f \in File : Unlink(p, f)
  \/ Copy(p) \/ Save(p) \/ GcDone(p) \/ Fail(p) \/ Crash(p)

Serve(p) == Register(p) \/ Exit(p) \/ \E b \in Branch : OpenIndex(p, b) \/ Switch(p, b)

\* The metadata n is what one whole command makes of m.
StepTo(m, n) ==
  \/ n = m
  \/ \E b \in Branch \ Tracked(m) : n = AddBranch(m, b, UniqueFile(m, b))
  \/ \E b \in Tracked(m) \ {m.default} : n = SetDefault(m, b)
  \/ \E b \in Branch \ Tracked(m) : n = RenameDefault(m, b)
  \/ \E S \in SUBSET (Tracked(m) \ {m.default}) : n = RemoveBranches(m, S)

\* Branches of m share no file outside X.
OwnIn(m, X) ==
  \A a \in Tracked(m), b \in Tracked(m) : a # b /\ m.file[a] = m.file[b] => m.file[a] \in X

OwnInv == Misnamed(meta) \subseteq moved /\ OwnIn(meta, moved)

\* What gc knows of the servers: it protects the database its process has
\* resolved and those of the registered servers that have not changed since.
Protects(p, keep, late) ==
  /\ registry[p] \in {NoFile, handle[p]} /\ handle[p] # NoFile => handle[p] \in keep
  /\ \A q \in Proc \ late : registry[q] # NoFile => registry[q] \in keep

\* A job as a command makes it from the metadata it has just loaded.
Fresh(p, l, j) ==
  /\ j \in Job /\ l \in Label \ {"idle"} /\ Copies(j)
  /\ j.cut = {} /\ j.overtaken = {}
  /\ StepTo(meta, j.next)
  /\ l = "gc" => j.next = meta
  /\ l = "copy" => j.target \in File
  /\ l # "copy" => j.target = NoFile
  /\ Files(j.next) \subseteq Files(meta) \cup {j.target}
  /\ l # "unlink" => j.doomed = {}
  /\ j.doomed # {} => j.next # meta
  /\ OwnInv => OwnIn(j.next, moved) /\ j.doomed \cap Files(j.next) \subseteq moved
  /\ j.gc => l = "gc" /\ j.guarded = "both" /\ Protects(p, j.keep, j.late)

\* Every step starts a command, continues one, or is a server's or git's.
LEMMA Steps ==
  ASSUME BranchAssumption, ProcAssumption, TInv, Next
  PROVE  \/ \E b \in Branch : GitBranch(b)
         \/ \E p \in Proc : Continue(p) \/ Serve(p)
         \/ \E p \in Proc : \E l, j : Fresh(p, l, j) /\ Start(p, l, j)
<1>. Sound(meta)
  BY DEF TInv, TypeOK, Sound
<1>. meta \in Meta /\ meta.default \in Tracked(meta) /\ meta.default \in Branch
  BY DEF TInv, TypeOK, Meta
<1>. {"branch", "sync", "both", "none"} = Guarded /\ meta \in Meta \cup {NoMeta}
  BY DEF Guarded
<1>1. ASSUME NEW p \in Proc, NEW b \in Branch, StartTrack(p, b)
      PROVE  \E l, j : Fresh(p, l, j) /\ Start(p, l, j)
  <2>. DEFINE f == UniqueFile(meta, b)
              n == AddBranch(meta, b, f)
              j == [NewJob("branch", n) EXCEPT !.target = f]
  <2>1. b \notin Tracked(meta) /\ Start(p, "copy", j)
    BY <1>1 DEF StartTrack
  <2>2. f \in File /\ Sound(n) /\ Tracked(n) = Tracked(meta) \cup {b}
    BY MetaMethods
  <2>3. n \in Meta /\ n.file[b] = f /\ \A o \in Branch \ {b} : n.file[o] = meta.file[o]
    BY <2>2 DEF AddBranch, Meta, Sound
  <2>4. j \in Job /\ j.next = n /\ j.target = f /\ j.todo = {} /\ j.cut = {} /\ j.doomed = {}
        /\ j.overtaken = {} /\ ~j.gc
    BY <2>2, <2>3, NewJobs DEF Job
  <2>5. Files(n) \subseteq Files(meta) \cup {f}
    BY <2>2, <2>3 DEF Files, Tracked
  <2>6. ASSUME OwnInv PROVE OwnIn(n, moved)
    <3>1. \A o \in Tracked(meta) \ {b} : meta.file[o] = f => f \in moved
      <4>. SUFFICES ASSUME NEW o \in Tracked(meta) \ {b}, meta.file[o] = f PROVE f \in moved
        OBVIOUS
      <4>1. f = HashedFile[b]
        BY DEF UniqueFile
      <4>2. f \in Misnamed(meta)
        BY <4>1 DEF Misnamed, Tracked
      <4>. QED BY <4>2, <2>6 DEF OwnInv
    <3>. QED
      BY <3>1, <2>1, <2>2, <2>3, <2>6 DEF OwnIn, OwnInv, Tracked
  <2>7. StepTo(meta, n)
    BY <2>1 DEF StepTo
  <2>8. Fresh(p, "copy", j)
    BY <2>2, <2>4, <2>5, <2>6, <2>7 DEF Fresh, Label, Copies
  <2>. QED BY <2>1, <2>8
<1>2. ASSUME NEW p \in Proc, NEW g \in Guarded, NEW n, Sound(n), StepTo(meta, n),
             Files(n) \subseteq Files(meta), OwnInv => OwnIn(n, moved),
             Start(p, "save", NewJob(g, n))
      PROVE  \E l, j : Fresh(p, l, j) /\ Start(p, l, j)
  <2>. DEFINE j == NewJob(g, n)
  <2>1. n \in Meta \cup {NoMeta}
    BY <1>2 DEF Sound
  <2>2. Fresh(p, "save", j)
    BY <2>1, <1>2, NewJobs DEF Fresh, Label, Copies
  <2>. QED BY <2>2, <1>2
<1>3. ASSUME NEW b \in Branch \ Tracked(meta)
      PROVE  /\ Sound(RenameDefault(meta, b)) /\ StepTo(meta, RenameDefault(meta, b))
             /\ Files(RenameDefault(meta, b)) \subseteq Files(meta)
             /\ OwnInv => OwnIn(RenameDefault(meta, b), moved)
  <2>. DEFINE n == RenameDefault(meta, b)
  <2>1. b # meta.default /\ b \in Branch
    BY <1>3
  <2>2. n.file[b] = meta.file[meta.default] /\ n.file[meta.default] = NoFile
        /\ \A o \in Branch \ {b, meta.default} : n.file[o] = meta.file[o]
    BY <2>1 DEF RenameDefault, Meta
  <2>3. \A o \in Tracked(n) : o = b \/ o \in Tracked(meta) \ {b, meta.default}
    BY <2>2 DEF Tracked
  <2>4. Files(n) \subseteq Files(meta)
    BY <2>2, <2>3 DEF Files, Tracked
  <2>5. OwnInv => OwnIn(n, moved)
    BY <2>2, <2>3 DEF OwnInv, OwnIn, Tracked
  <2>. QED BY <2>4, <2>5, MetaMethods DEF StepTo
<1>4. ASSUME NEW b \in Tracked(meta) \ {meta.default}
      PROVE  /\ Sound(SetDefault(meta, b)) /\ StepTo(meta, SetDefault(meta, b))
             /\ Files(SetDefault(meta, b)) \subseteq Files(meta)
             /\ OwnInv => OwnIn(SetDefault(meta, b), moved)
  <2>. DEFINE n == SetDefault(meta, b)
  <2>1. n.file = meta.file
    BY DEF SetDefault, Meta
  <2>2. Tracked(n) = Tracked(meta) /\ Files(n) = Files(meta)
    BY <2>1 DEF Files, Tracked
  <2>3. OwnInv => OwnIn(n, moved)
    BY <2>1, <2>2 DEF OwnInv, OwnIn
  <2>. QED BY <2>2, <2>3, MetaMethods DEF StepTo
<1>5. ASSUME NEW p \in Proc, NEW b \in Branch, StartSetDefault(p, b) \/ StartReconcile(p, b)
      PROVE  \E l, j : Fresh(p, l, j) /\ Start(p, l, j)
  <2>1. CASE b \in Tracked(meta) \ {meta.default} /\ Start(p, "save", NewJob("branch", SetDefault(meta, b)))
    BY <2>1, <1>2, <1>4
  <2>2. CASE b \notin Tracked(meta) /\ Start(p, "save", NewJob("branch", RenameDefault(meta, b)))
    BY <2>2, <1>2, <1>3
  <2>. QED BY <1>5, <2>1, <2>2 DEF StartSetDefault, StartReconcile
<1>6. ASSUME NEW p \in Proc, NEW g \in Guarded, StartTouch(p, g)
      PROVE  \E l, j : Fresh(p, l, j) /\ Start(p, l, j)
  BY <1>6, <1>2 DEF StartTouch, StepTo, OwnInv
<1>7. ASSUME NEW p \in Proc, NEW S \in SUBSET Branch, StartRemove(p, S)
      PROVE  \E l, j : Fresh(p, l, j) /\ Start(p, l, j)
  <2>. DEFINE n == RemoveBranches(meta, S)
              d == {meta.file[b] : b \in S}
              j == [NewJob("none", n) EXCEPT !.doomed = d]
  <2>1. S # {} /\ S \subseteq Tracked(meta) \ {meta.default} /\ Start(p, "unlink", j)
    BY <1>7 DEF StartRemove
  <2>2. Sound(n) /\ Tracked(n) = Tracked(meta) \ S /\ \A b \in Branch \ S : n.file[b] = meta.file[b]
    BY <2>1, MetaMethods
  <2>3. n \in Meta /\ d \subseteq File
    <3>1. \A b \in S : meta.file[b] \in File
      BY <2>1, MetaMethods
    <3>. QED BY <3>1, <2>2 DEF Sound
  <2>4. j \in Job /\ j.next = n /\ j.target = NoFile /\ j.todo = {} /\ j.cut = {} /\ j.doomed = d
        /\ j.overtaken = {} /\ ~j.gc
    BY <2>3, NewJobs DEF Job
  <2>5. Files(n) \subseteq Files(meta) /\ n # meta
    BY <2>1, <2>2 DEF Files, Tracked
  <2>6. ASSUME OwnInv PROVE OwnIn(n, moved) /\ d \cap Files(n) \subseteq moved
    BY <2>1, <2>2, <2>6 DEF OwnInv, OwnIn, Files, Tracked
  <2>7. StepTo(meta, n)
    BY <2>1 DEF StepTo
  <2>8. Fresh(p, "unlink", j)
    BY <2>2, <2>4, <2>5, <2>6, <2>7 DEF Fresh, Label, Copies
  <2>. QED BY <2>1, <2>8
<1>8. ASSUME NEW p \in Proc, NEW own \in SUBSET (File \cup {NoFile}), StartGc(p, own)
      PROVE  \E l, j : Fresh(p, l, j) /\ Start(p, l, j)
  <2>. DEFINE t == Tracked(meta) \ (refs \cup {meta.default})
              k == (own \cup {registry[q] : q \in Proc}) \ {NoFile}
              j == [NewJob("both", meta) EXCEPT !.gc = TRUE, !.todo = t, !.keep = k]
  <2>1. Start(p, "gc", j) /\ (registry[p] = NoFile => own = {handle[p]})
    BY <1>8 DEF StartGc
  <2>2. t \subseteq Branch /\ k \subseteq File
    BY DEF Tracked, TInv, TypeOK
  <2>3. j \in Job /\ j.next = meta /\ j.target = NoFile /\ j.todo = t /\ j.keep = k /\ j.late = {}
        /\ j.cut = {} /\ j.doomed = {} /\ j.overtaken = {} /\ j.gc /\ j.guarded = "both"
    <3>. DEFINE e == NewJob("both", meta)
    <3>1. e \in Job /\ e.next = meta /\ e.target = NoFile /\ e.late = {} /\ e.cut = {}
          /\ e.doomed = {} /\ e.overtaken = {} /\ e.guarded = "both"
      BY NewJobs
    <3>. HIDE DEF e, t, k
    <3>2. [e EXCEPT !.gc = TRUE, !.todo = t, !.keep = k] \in Job
      BY <2>2, <3>1 DEF Job
    <3>. QED BY <3>1, <3>2 DEF Job, e, t, k
  <2>4. Protects(p, k, {})
    BY <2>1 DEF Protects
  <2>5. Fresh(p, "gc", j)
    BY <2>3, <2>4 DEF Fresh, Label, Copies, StepTo, OwnInv
  <2>. QED BY <2>1, <2>5
<1>. QED
  BY <1>1, <1>5, <1>6, <1>7, <1>8 DEF Next, Continue, Serve

-----------------------------------------------------------------------------
\* A process that leaves has no job; the others keep theirs.
LEMMA LeaveTyped ==
  ASSUME TInv, NEW p \in Proc, job' = [job EXCEPT ![p] = NoJob], Leave(p)
  PROVE  /\ pc' \in [Proc -> Label] /\ job' \in [Proc -> Job] /\ Jobs'
         /\ branchLock' \in Proc \cup {NoProc} /\ syncLock' \in Proc \cup {NoProc}
<1>1. pc' = [pc EXCEPT ![p] = "idle"]
  BY DEF Leave, Goto
<1>2. pc' \in [Proc -> Label] /\ job' \in [Proc -> Job]
  BY <1>1, NoJobType DEF TInv, TypeOK, Label
<1>3. branchLock' \in Proc \cup {NoProc} /\ syncLock' \in Proc \cup {NoProc}
  BY DEF TInv, TypeOK, Leave
<1>4. Jobs'
  BY <1>1 DEF TInv, TypeOK, Jobs, Copies, Sound
<1>. QED BY <1>2, <1>3, <1>4

LEMMA ContinueTyped ==
  ASSUME BranchAssumption, ProcAssumption, TInv, NEW p \in Proc, Continue(p)
  PROVE  TInv'
<1>. /\ TypeOK /\ Jobs /\ job[p] \in Job /\ pc[p] \in Label /\ Label = {"idle", "copy", "gc", "unlink", "save"}
     /\ pc \in [Proc -> Label] /\ job \in [Proc -> Job]
  BY DEF TInv, TypeOK, Label
<1>1. ASSUME NEW b \in Branch, GcSkip(p, b) PROVE TInv'
  <2>1. job' = [job EXCEPT ![p] = [job[p] EXCEPT !.todo = @ \ {b}]] /\ pc' = pc /\ pc[p] = "gc"
    BY <1>1 DEF GcSkip
  <2>2. job' \in [Proc -> Job] /\ job'[p].next = job[p].next /\ job'[p].todo = job[p].todo \ {b}
        /\ \A q \in Proc \ {p} : job'[q] = job[q]
    BY <2>1 DEF Job
  <2>3. Jobs'
    BY <2>1, <2>2 DEF Jobs, Copies, Sound
  <2>. QED BY <2>1, <2>2, <2>3, <1>1 DEF TInv, TypeOK, GcSkip
<1>2. ASSUME NEW b \in Branch, GcCondemn(p, b) PROVE TInv'
  <2>. DEFINE n == RemoveBranches(job[p].next, {b})
              j == [job[p] EXCEPT !.todo = @ \ {b}, !.doomed = {job[p].next.file[b]},
                                !.next = RemoveBranches(@, {b})]
  <2>1. job' = [job EXCEPT ![p] = j] /\ pc' = [pc EXCEPT ![p] = "unlink"] /\ pc[p] = "gc"
        /\ b \in job[p].todo
    BY <1>2 DEF GcCondemn, Goto
  <2>2. Copies(job[p])
    BY <2>1 DEF Jobs
  <2>3. b \in Tracked(job[p].next) \ {job[p].next.default} /\ Sound(job[p].next)
    BY <2>1, <2>2 DEF Copies
  <2>4. Sound(n) /\ Tracked(n) = Tracked(job[p].next) \ {b} /\ n.default = job[p].next.default
        /\ job[p].next.file[b] \in File
    <3>1. b \in Branch /\ b # job[p].next.default
      BY <2>3 DEF Tracked
    <3>2. job[p].next.file[b] \in File
      BY <2>3, MetaMethods
    <3>. QED BY <2>3, <3>1, <3>2, RemoveOne
  <2>5. j \in Job /\ j.next = n /\ j.todo = job[p].todo \ {b}
    BY <2>4 DEF Job, Sound
  <2>6. Copies(j)
    BY <2>2, <2>4, <2>5 DEF Copies
  <2>. HIDE DEF j
  <2>7. job' \in [Proc -> Job] /\ pc' \in [Proc -> Label]
    BY <2>1, <2>5
  <2>8. Jobs'
    BY <2>1, <2>6 DEF Jobs, Copies, Sound
  <2>. QED BY <2>7, <2>8, <1>2 DEF TInv, TypeOK, GcCondemn
<1>3. ASSUME NEW f \in File, Unlink(p, f) PROVE TInv'
  <2>. DEFINE j == [job[p] EXCEPT !.doomed = @ \ {f}, !.cut = @ \cup {f}]
  <2>1. job' = [job EXCEPT ![p] = j] /\ pc' = [pc EXCEPT ![p] = IF job[p].doomed = {f} THEN "save" ELSE "unlink"]
        /\ pc[p] = "unlink" /\ disk' = disk \ {f}
    BY <1>3 DEF Unlink, Goto
  <2>2. j \in Job /\ j.next = job[p].next /\ j.todo = job[p].todo
    BY DEF Job
  <2>. HIDE DEF j
  <2>3. job' \in [Proc -> Job] /\ pc' \in [Proc -> Label] /\ disk' \subseteq File
    BY <2>1, <2>2 DEF TypeOK
  <2>4. Jobs'
    BY <2>1, <2>2 DEF Jobs, Copies, Sound
  <2>. QED BY <2>3, <2>4, <1>3 DEF TInv, TypeOK, Unlink
<1>4. CASE Copy(p)
  <2>1. pc' = [pc EXCEPT ![p] = "save"] /\ job' = job /\ disk' = disk \cup {job[p].target} /\ pc[p] = "copy"
    BY <1>4 DEF Copy, Goto
  <2>2. disk' \subseteq File /\ pc' \in [Proc -> Label]
    BY <2>1 DEF TypeOK, Jobs
  <2>3. Jobs'
    BY <2>1 DEF Jobs, Copies, Sound
  <2>. QED BY <2>2, <2>3, <1>4 DEF TInv, TypeOK, Copy
<1>5. CASE Save(p)
  <2>1. Sound(job[p].next)
    BY <1>5 DEF Save, Jobs, Copies
  <2>2. meta' \in Meta /\ meta'.default \in Tracked(meta') /\ Files(meta') \subseteq File
    BY <1>5, <2>1, MetaMethods DEF Save, Sound, Tracked, Files
  <2>3. Misnamed(meta') \subseteq File
    BY BranchAssumption DEF BranchAssumption, Misnamed
  <2>4. moved' \subseteq File /\ strayed' \subseteq File
    <3>1. job[p].cut \subseteq File
      BY DEF Job
    <3>. QED BY <3>1, <2>2, <2>3, <1>5 DEF Save, TypeOK
  <2>5. \A q \in Proc \ {p} : /\ job'[q] \in Job
                              /\ job'[q].next = job[q].next /\ job'[q].todo = job[q].todo
                              /\ job'[q].target = job[q].target
                              /\ pc[q] = "idle" => job'[q] = job[q]
    <3>. SUFFICES ASSUME NEW q \in Proc \ {p}
                  PROVE  /\ job'[q] \in Job
                         /\ job'[q].next = job[q].next /\ job'[q].todo = job[q].todo
                         /\ job'[q].target = job[q].target
                         /\ pc[q] = "idle" => job'[q] = job[q]
      OBVIOUS
    <3>1. job'[q] = Overtake(p, q)
      BY <1>5 DEF Save
    <3>2. job[p].guarded \in Guarded /\ job[q] \in Job
      BY DEF Job
    <3>. DEFINE e == [job[q] EXCEPT !.overtaken = @ \cup {job[p].guarded}]
    <3>4. job'[q] = IF q # p /\ pc[q] # "idle" /\ meta' # meta THEN e ELSE job[q]
      BY <3>1 DEF Overtake
    <3>3. job'[q] = job[q] \/ (pc[q] # "idle" /\ job'[q] = e)
      <4>. HIDE DEF e
      <4>. QED BY <3>4
    <3>. QED BY <3>2, <3>3 DEF Job
  <2>6. /\ job'[p] \in Job
        /\ job[p].gc => job'[p].next = job[p].next /\ job'[p].todo = job[p].todo
        /\ ~job[p].gc => job'[p] = NoJob
    <3>1. job'[p] = IF job[p].gc THEN [job[p] EXCEPT !.cut = {}, !.overtaken = {}] ELSE NoJob
      BY <1>5 DEF Save
    <3>2. [job[p] EXCEPT !.cut = {}, !.overtaken = {}] \in Job
      BY DEF Job
    <3>3. /\ [job[p] EXCEPT !.cut = {}, !.overtaken = {}].next = job[p].next
          /\ [job[p] EXCEPT !.cut = {}, !.overtaken = {}].todo = job[p].todo
      BY DEF Job
    <3>. QED BY <3>1, <3>2, <3>3, NoJobType
  <2>7. job' \in [Proc -> Job]
    <3>1. job' = [q \in Proc |-> job'[q]]
      BY <1>5 DEF Save
    <3>. QED BY <3>1, <2>5, <2>6
  <2>8. /\ pc' = [pc EXCEPT ![p] = IF job[p].gc THEN "gc" ELSE "idle"]
        /\ branchLock' \in Proc \cup {NoProc} /\ syncLock' \in Proc \cup {NoProc}
    BY <1>5 DEF Save, Leave, Goto, TypeOK
  <2>9. Jobs'
    <3>. SUFFICES ASSUME NEW q \in Proc
                  PROVE  /\ pc'[q] = "idle" => job'[q] = NoJob
                         /\ pc'[q] # "idle" => Copies(job'[q])
                         /\ pc'[q] = "copy" => job'[q].target \in File
      BY DEF Jobs, Copies, Sound
    <3>1. CASE q = p
      <4>1. Copies(job[p])
        BY <1>5 DEF Save, Jobs
      <4>2. job[p].gc => Copies(job'[p])
        BY <4>1, <2>6 DEF Copies
      <4>. QED BY <3>1, <4>2, <2>6, <2>8
    <3>2. CASE q # p
      <4>1. pc'[q] = pc[q]
        BY <2>8, <3>2
      <4>. QED BY <4>1, <3>2, <2>5 DEF Jobs, Copies
    <3>. QED BY <3>1, <3>2
  <2>10. pc' \in [Proc -> Label]
    BY <2>8
  <2>. QED BY <2>2, <2>4, <2>7, <2>8, <2>9, <2>10, <1>5 DEF TInv, TypeOK, Save
<1>6. CASE GcDone(p)
  <2>1. job' = [job EXCEPT ![p] = NoJob] /\ Leave(p)
    BY <1>6 DEF GcDone
  <2>. QED BY <2>1, LeaveTyped, <1>6 DEF TInv, TypeOK, GcDone
<1>7. CASE Fail(p) \/ Crash(p)
  <2>1. job' = [job EXCEPT ![p] = NoJob] /\ Leave(p) /\ strayed' = strayed \cup job[p].cut
    BY <1>7 DEF Fail, Crash, Abandon
  <2>2. strayed' \subseteq File
    BY <2>1 DEF TypeOK, Job
  <2>. QED BY <2>1, <2>2, LeaveTyped, <1>7 DEF TInv, TypeOK, Fail, Crash
<1>. QED
  BY <1>1, <1>2, <1>3, <1>4, <1>5, <1>6, <1>7 DEF Continue

\* Servers change handles, registry entries and what a gc has missed.
LEMMA ServeTyped ==
  ASSUME BranchAssumption, ProcAssumption, TInv, NEW p \in Proc, Serve(p)
  PROVE  /\ TInv' /\ pc' = pc
         /\ \A q \in Proc : job'[q] = job[q] \/ (job[q].gc /\ job'[q] = [job[q] EXCEPT !.late = @ \cup {p}])
<1>. /\ TypeOK /\ Jobs /\ job \in [Proc -> Job] /\ Sound(meta)
  BY DEF TInv, TypeOK, Sound
<1>1. pc' = pc /\ UNCHANGED <<meta, disk, refs, branchLock, syncLock, moved, strayed>>
  BY DEF Serve, Register, Exit, OpenIndex, Switch
<1>2. \A q \in Proc : job'[q] = job[q] \/ (job[q].gc /\ job'[q] = [job[q] EXCEPT !.late = @ \cup {p}])
  <2>1. job' = job \/ Missed(p)
    BY DEF Serve, Register, Exit, OpenIndex, Switch
  <2>2. ASSUME Missed(p), NEW q \in Proc
        PROVE  job'[q] = job[q] \/ (job[q].gc /\ job'[q] = [job[q] EXCEPT !.late = @ \cup {p}])
    <3>. DEFINE e == [job[q] EXCEPT !.late = @ \cup {p}]
    <3>1. job'[q] = IF job[q].gc THEN e ELSE job[q]
      BY <2>2 DEF Missed
    <3>. HIDE DEF e
    <3>2. job'[q] = job[q] \/ (job[q].gc /\ job'[q] = e)
      BY <3>1
    <3>. QED BY <3>2 DEF e
  <2>. QED BY <2>1, <2>2
<1>3. \A q \in Proc : job'[q] \in Job /\ job'[q].next = job[q].next /\ job'[q].todo = job[q].todo
                      /\ job'[q].target = job[q].target /\ (~job[q].gc => job'[q] = job[q])
  <2>. SUFFICES ASSUME NEW q \in Proc
                PROVE  /\ job'[q] \in Job /\ job'[q].next = job[q].next /\ job'[q].todo = job[q].todo
                       /\ job'[q].target = job[q].target /\ (~job[q].gc => job'[q] = job[q])
    OBVIOUS
  <2>. DEFINE e == [job[q] EXCEPT !.late = @ \cup {p}]
  <2>1. job[q] \in Job
    OBVIOUS
  <2>2. e \in Job /\ e.next = job[q].next /\ e.todo = job[q].todo /\ e.target = job[q].target
    BY <2>1 DEF Job
  <2>3. job'[q] = job[q] \/ (job[q].gc /\ job'[q] = e)
    BY <1>2
  <2>. HIDE DEF e
  <2>. QED BY <2>1, <2>2, <2>3
<1>4. job' \in [Proc -> Job]
  <2>1. job' = [q \in Proc |-> job'[q]]
    BY DEF Serve, Register, Exit, OpenIndex, Switch, Missed
  <2>. QED BY <2>1, <1>3
<1>5. Jobs'
  <2>1. ~NoJob.gc
    BY NewJobs DEF NoJob, Guarded
  <2>. QED BY <1>1, <1>3, <2>1 DEF Jobs, Copies, Sound
<1>6. \A b \in Branch : Resolved(b) \subseteq File
  BY MetaMethods DEF Resolved, TypeOK, Files
<1>7. handle' \in [Proc -> File \cup {NoFile}] /\ registry' \in [Proc -> File \cup {NoFile}]
  BY <1>6 DEF Serve, Register, Exit, OpenIndex, Switch, TypeOK
<1>8. ops' \in 0..MaxOps
  BY ProcAssumption DEF Serve, Register, Exit, OpenIndex, Switch, TypeOK, ProcAssumption
<1>. QED BY <1>1, <1>2, <1>4, <1>5, <1>7, <1>8 DEF TInv, TypeOK

LEMMA NextTyped ==
  ASSUME BranchAssumption, ProcAssumption, TInv, Next
  PROVE  TInv'
<1>1. ASSUME NEW b \in Branch, GitBranch(b) PROVE TInv'
  BY <1>1 DEF TInv, TypeOK, Jobs, Copies, Sound, GitBranch
<1>2. ASSUME NEW p \in Proc, NEW l, NEW j, Fresh(p, l, j), Start(p, l, j) PROVE TInv'
  BY <1>2, StartTyped DEF Fresh
<1>. QED BY <1>1, <1>2, Steps, ContinueTyped, ServeTyped

LEMMA InitTyped ==
  ASSUME BranchAssumption, ProcAssumption, Init
  PROVE  TInv
<1>1. Sound(meta)
  BY DEF Init, Settled, Sound
<1>2. Files(meta) \subseteq File
  BY <1>1, MetaMethods
<1>. QED
  BY <1>1, <1>2, NoJobType, ProcAssumption DEF Init, TInv, TypeOK, Jobs, Sound, ProcAssumption

\* For every set of branches and processes: the metadata is well-formed and its
\* default branch is tracked, whichever commands overtake each other.
THEOREM TypeCorrect == Spec => []TypeOK
<1>1. TInv /\ UNCHANGED vars => TInv'
  BY DEF TInv, TypeOK, Jobs, Copies, Sound, vars
<1>2. TInv => TypeOK
  BY DEF TInv
<1>. QED
  BY <1>1, <1>2, InitTyped, NextTyped, BranchAssumption, ProcAssumption, PTL DEF Spec

-----------------------------------------------------------------------------
\* A running command holds its locks, and no command they exclude overtakes it.
Holds(p) ==
  /\ TakesBranchLock(job[p].guarded) => branchLock = p
  /\ TakesSyncLock(job[p].guarded) => syncLock = p
  /\ job[p].overtaken \cap Excluded(job[p].guarded) = {}

\* Where a command stands tells what it has done and has yet to do.
Stage(p) ==
  /\ pc[p] # "unlink" => job[p].doomed = {}
  /\ pc[p] \in {"copy", "gc"} => job[p].cut = {}
  /\ job[p].gc \/ pc[p] \in {"gc", "unlink"} => job[p].target = NoFile

Cuts == UNION {job[p].cut : p \in Proc}

\* What a command that nobody has overtaken will save follows from what
\* branch-meta.json still says.
Current(p) ==
  /\ StepTo(meta, job[p].next)
  /\ pc[p] = "gc" => job[p].next = meta
  /\ Files(job[p].next) \subseteq Files(meta) \cup {job[p].target}
  /\ (job[p].cut \cup job[p].doomed) \cap Files(job[p].next) \subseteq moved
  /\ job[p].cut \cup job[p].doomed # {} => job[p].next # meta
  /\ pc[p] = "save" /\ job[p].target # NoFile =>
       job[p].target \in disk \cup moved \cup strayed \cup Cuts

\* What gc is about to unlink is a file that it does not protect and, as far as
\* it knows, the file of one branch only: the one it drops.
Careful(p) ==
  /\ job[p].guarded = "both"
  /\ Protects(p, job[p].keep, job[p].late)
  /\ job[p].doomed \cap job[p].keep = {}
  /\ pc[p] = "unlink" /\ job[p].overtaken = {} =>
       \E b \in Tracked(meta) \ {meta.default} :
         /\ job[p].doomed \subseteq {meta.file[b]}
         /\ \A o \in Branch \ {b} : meta.file[o] # meta.file[b]
         /\ job[p].next = RemoveBranches(meta, {b})

Working(p) ==
  /\ Holds(p)
  /\ Stage(p)
  /\ OwnIn(job[p].next, moved)
  /\ job[p].overtaken = {} => Current(p)
  /\ job[p].gc => Careful(p)

Works == OwnInv /\ TrackedHasFile /\ \A p \in Proc : pc[p] # "idle" => Working(p)

\* The inductive invariant.
IInv == TInv /\ Works

\* Where the database of a tracked branch may be, TrackedHasFile says.
Kept == disk \cup moved \cup strayed \cup Cuts

\* Another process's step as q, which runs a command, sees it.
Bystander(q) ==
  /\ pc'[q] = pc[q] /\ handle'[q] = handle[q] /\ registry'[q] = registry[q]
  /\ job'[q].guarded = job[q].guarded /\ job'[q].gc = job[q].gc
  /\ job'[q].next = job[q].next /\ job'[q].target = job[q].target
  /\ job'[q].doomed = job[q].doomed /\ job'[q].cut = job[q].cut /\ job'[q].keep = job[q].keep
  /\ branchLock = q => branchLock' = q
  /\ syncLock = q => syncLock' = q
  /\ job'[q].overtaken \cap Excluded(job[q].guarded) = {}
  /\ job'[q].overtaken = {} => job[q].overtaken = {} /\ meta' = meta /\ Kept \subseteq Kept'
  /\ moved \subseteq moved'
  /\ job[q].late \subseteq job'[q].late
  /\ \A r \in Proc : registry'[r] \in {registry[r], NoFile} \/ r \in job'[q].late

\* A bystander's command stands as well after the step as before it.
LEMMA BystanderWorks ==
  ASSUME NEW q \in Proc, Working(q), Bystander(q)
  PROVE  Working(q)'
<1>1. Holds(q)'
  BY DEF Working, Bystander, Holds
<1>2. Stage(q)'
  BY DEF Working, Bystander, Stage
<1>3. OwnIn(job[q].next, moved)'
  BY DEF Working, Bystander, OwnIn
<1>4. job'[q].overtaken = {} => Current(q)'
  <2>. SUFFICES ASSUME job'[q].overtaken = {} PROVE Current(q)'
    OBVIOUS
  <2>1. Current(q) /\ meta' = meta /\ Kept \subseteq Kept'
    BY DEF Working, Bystander
  <2>2. StepTo(meta, job[q].next)' /\ Files(job[q].next)' = Files(job[q].next) /\ Files(meta)' = Files(meta)
    BY <2>1 DEF Current, Bystander
  <2>3. pc[q] = "save" /\ job[q].target # NoFile => job[q].target \in Kept'
    BY <2>1 DEF Current, Kept
  <2>. QED BY <2>1, <2>2, <2>3 DEF Current, Bystander, Kept
<1>5. job'[q].gc => Careful(q)'
  <2>. SUFFICES ASSUME job'[q].gc PROVE Careful(q)'
    OBVIOUS
  <2>1. Careful(q)
    BY DEF Working, Bystander
  <2>2. Protects(q, job[q].keep, job[q].late)'
    BY <2>1 DEF Careful, Protects, Bystander
  <2>3. job'[q].overtaken = {} => job[q].overtaken = {} /\ meta' = meta
    BY DEF Bystander
  <2>. QED BY <2>1, <2>2, <2>3 DEF Careful, Bystander
<1>. QED BY <1>1, <1>2, <1>3, <1>4, <1>5 DEF Working

LEMMA NoCut == NoJob.cut = {} /\ ~NoJob.gc
BY NewJobs DEF NoJob, Guarded

\* A command starts from what branch-meta.json says.
LEMMA StartWorks ==
  ASSUME BranchAssumption, ProcAssumption, TInv, Works,
         NEW p \in Proc, NEW l, NEW j, Fresh(p, l, j), Start(p, l, j)
  PROVE  Works'
<1>. /\ pc \in [Proc -> Label] /\ job \in [Proc -> Job] /\ NoProc \notin Proc
     /\ pc[p] = "idle" /\ pc' = [pc EXCEPT ![p] = l] /\ job' = [job EXCEPT ![p] = j]
     /\ UNCHANGED <<meta, disk, refs, handle, registry, moved, strayed>>
  BY DEF TInv, TypeOK, Label, ProcAssumption, Start, Goto
<1>1. job[p].cut = {} /\ j.cut = {}
  BY NoCut DEF TInv, Jobs, Fresh
<1>2. Cuts' = Cuts /\ Kept' = Kept
  <2>1. \A q \in Proc : job'[q].cut = job[q].cut
    BY <1>1
  <2>. QED BY <2>1 DEF Cuts, Kept
<1>3. OwnInv' /\ TrackedHasFile'
  BY <1>2 DEF Works, OwnInv, TrackedHasFile, Kept, Cuts
<1>4. ASSUME NEW q \in Proc \ {p}, pc'[q] # "idle" PROVE Working(q)'
  <2>1. pc'[q] = pc[q] /\ job'[q] = job[q] /\ Working(q)
    BY <1>4 DEF Works
  <2>2. (branchLock = q => branchLock' = q) /\ (syncLock = q => syncLock' = q)
    BY DEF Start
  <2>3. Bystander(q)
    BY <2>1, <2>2, <1>2 DEF Bystander, Working, Holds
  <2>. QED BY <2>1, <2>3, BystanderWorks
<1>5. Working(p)'
  <2>1. pc'[p] = l /\ job'[p] = j
    BY DEF TInv, TypeOK
  <2>2. Holds(p)'
    BY <2>1 DEF Holds, Start, Fresh
  <2>3. Stage(p)'
    BY <2>1 DEF Stage, Fresh
  <2>4. OwnIn(j.next, moved) /\ j.doomed \cap Files(j.next) \subseteq moved
    BY DEF Fresh, Works
  <2>5. Current(p)'
    <3>1. StepTo(meta, j.next)' /\ Files(job[p].next)' = Files(j.next) /\ Files(meta)' = Files(meta)
      BY <2>1 DEF Fresh
    <3>2. l = "save" => j.target = NoFile
      BY DEF Fresh
    <3>. QED BY <2>1, <2>4, <3>1, <3>2 DEF Current, Fresh
  <2>6. j.gc => Careful(p)'
    BY <2>1 DEF Careful, Fresh, Protects
  <2>. QED BY <2>1, <2>2, <2>3, <2>4, <2>5, <2>6 DEF Working, OwnIn
<1>. QED BY <1>3, <1>4, <1>5 DEF Works

\* A step of p that changes no metadata, neither frees a lock of another
\* process nor serves a database, and keeps the files where they may be.
LEMMA OthersWork ==
  ASSUME BranchAssumption, ProcAssumption, TInv, Works, NEW p \in Proc,
         meta' = meta, Kept \subseteq Kept', moved' = moved,
         \A q \in Proc \ {p} : /\ pc'[q] = pc[q] /\ job'[q] = job[q]
                               /\ handle'[q] = handle[q] /\ registry'[q] = registry[q]
                               /\ branchLock = q => branchLock' = q
                               /\ syncLock = q => syncLock' = q,
         registry'[p] \in {registry[p], NoFile},
         pc'[p] # "idle" => Working(p)'
  PROVE  Works'
<1>1. OwnInv' /\ TrackedHasFile'
  BY DEF Works, OwnInv, TrackedHasFile, Kept, Cuts, OwnIn, Misnamed, Tracked, Files
<1>2. ASSUME NEW q \in Proc \ {p}, pc'[q] # "idle" PROVE Working(q)'
  <2>1. Working(q)
    BY <1>2 DEF Works
  <2>2. Bystander(q)
    BY <2>1 DEF Bystander, Working, Holds
  <2>. QED BY <2>1, <2>2, BystanderWorks
<1>. QED BY <1>1, <1>2 DEF Works

\* A command that ends without saving leaves what it cut among the strayed.
LEMMA LeaveWorks ==
  ASSUME BranchAssumption, ProcAssumption, TInv, Works, NEW p \in Proc,
         Leave(p), job' = [job EXCEPT ![p] = NoJob],
         UNCHANGED <<meta, disk, moved>>, strayed \subseteq strayed', job[p].cut \subseteq strayed',
         registry' \in {registry, [registry EXCEPT ![p] = NoFile]},
         handle' \in {handle, [handle EXCEPT ![p] = NoFile]}
  PROVE  Works'
<1>. /\ pc \in [Proc -> Label] /\ job \in [Proc -> Job]
     /\ registry \in [Proc -> File \cup {NoFile}] /\ handle \in [Proc -> File \cup {NoFile}]
     /\ pc' = [pc EXCEPT ![p] = "idle"]
  BY DEF TInv, TypeOK, Label, Leave, Goto
<1>1. Kept \subseteq Kept'
  <2>1. \A q \in Proc \ {p} : job'[q].cut = job[q].cut
    OBVIOUS
  <2>. QED BY <2>1 DEF Kept, Cuts
<1>2. \A q \in Proc \ {p} : (branchLock = q => branchLock' = q) /\ (syncLock = q => syncLock' = q)
  BY DEF Leave
<1>. QED BY <1>1, <1>2, OthersWork

LEMMA GcSkipWorks ==
  ASSUME BranchAssumption, ProcAssumption, TInv, Works,
         NEW p \in Proc, NEW b \in Branch, GcSkip(p, b)
  PROVE  Works'
<1>. DEFINE j == [job[p] EXCEPT !.todo = @ \ {b}]
<1>. /\ pc[p] = "gc" /\ pc' = pc /\ job' = [job EXCEPT ![p] = j]
     /\ UNCHANGED <<meta, disk, refs, branchLock, syncLock, handle, registry, moved, strayed>>
     /\ job \in [Proc -> Job] /\ job[p] \in Job
  BY DEF TInv, TypeOK, GcSkip
<1>1. /\ j.guarded = job[p].guarded /\ j.gc = job[p].gc /\ j.next = job[p].next
      /\ j.target = job[p].target /\ j.doomed = job[p].doomed /\ j.cut = job[p].cut
      /\ j.keep = job[p].keep /\ j.late = job[p].late /\ j.overtaken = job[p].overtaken
  BY DEF Job
<1>. HIDE DEF j
<1>2. Kept' = Kept
  <2>1. \A q \in Proc : job'[q].cut = job[q].cut
    BY <1>1
  <2>. QED BY <2>1 DEF Cuts, Kept
<1>3. Working(p)'
  <2>1. Working(p) /\ job'[p] = j
    BY DEF Works
  <2>2. Bystander(p)
    BY <2>1, <1>1, <1>2 DEF Bystander, Working, Holds
  <2>. QED BY <2>1, <2>2, BystanderWorks
<1>. QED BY <1>2, <1>3, OthersWork

LEMMA GcCondemnWorks ==
  ASSUME BranchAssumption, ProcAssumption, TInv, Works,
         NEW p \in Proc, NEW b \in Branch, GcCondemn(p, b)
  PROVE  Works'
<1>. DEFINE m == job[p].next
            n == RemoveBranches(m, {b})
            j == [job[p] EXCEPT !.todo = @ \ {b}, !.doomed = {job[p].next.file[b]},
                                !.next = RemoveBranches(@, {b})]
<1>. /\ pc[p] = "gc" /\ pc' = [pc EXCEPT ![p] = "unlink"] /\ job' = [job EXCEPT ![p] = j]
     /\ ~Spared(job[p], b) /\ b \in job[p].todo
     /\ UNCHANGED <<meta, disk, refs, branchLock, syncLock, handle, registry, moved, strayed>>
     /\ pc \in [Proc -> Label] /\ job \in [Proc -> Job] /\ job[p] \in Job
  BY DEF TInv, TypeOK, GcCondemn, Goto, Label
<1>0. Working(p) /\ Copies(job[p])
  BY DEF Works, TInv, Jobs
<1>1. /\ j.guarded = job[p].guarded /\ j.gc = job[p].gc /\ j.next = n
      /\ j.target = job[p].target /\ j.doomed = {m.file[b]} /\ j.cut = job[p].cut
      /\ j.keep = job[p].keep /\ j.late = job[p].late /\ j.overtaken = job[p].overtaken
  BY DEF Job
<1>2. /\ Sound(m) /\ b \in Tracked(m) \ {m.default}
      /\ Tracked(n) = Tracked(m) \ {b} /\ \A o \in Branch \ {b} : n.file[o] = m.file[o]
      /\ n # m
  <2>1. Sound(m) /\ b \in Tracked(m) \ {m.default}
    BY <1>0 DEF Copies
  <2>. HIDE DEF m, j
  <2>2. b \in Branch /\ b # m.default
    BY <2>1 DEF Tracked
  <2>3. Tracked(n) = Tracked(m) \ {b} /\ \A o \in Branch \ {b} : n.file[o] = m.file[o]
    BY <2>1, <2>2, RemoveOne
  <2>. QED BY <2>1, <2>3
<1>3. /\ \A o \in Branch \ {b} : m.file[o] # m.file[b]
      /\ m.file[b] \notin job[p].keep
  BY DEF Spared
<1>. HIDE DEF j, n, m
<1>4. Kept' = Kept
  <2>1. \A q \in Proc : job'[q].cut = job[q].cut
    BY <1>1
  <2>. QED BY <2>1 DEF Cuts, Kept
<1>5. Working(p)'
  <2>1. pc'[p] = "unlink" /\ job'[p] = j
    OBVIOUS
  <2>2. Holds(p)'
    BY <1>0, <1>1, <2>1 DEF Working, Holds
  <2>3. Stage(p)'
    BY <1>0, <1>1, <2>1 DEF Working, Stage
  <2>4. OwnIn(n, moved)
    BY <1>0, <1>2 DEF Working, OwnIn, Tracked, m
  <2>5. Files(n) \subseteq Files(m) /\ m.file[b] \notin Files(n)
    BY <1>2, <1>3 DEF Files, Tracked
  <2>6. ASSUME job[p].overtaken = {} PROVE Current(p)'
    <3>1. Current(p) /\ m = meta /\ job[p].cut = {} /\ job[p].target = NoFile
      BY <2>6, <1>0 DEF Working, Current, Stage, m
    <3>2. StepTo(meta, n)
      BY <1>2, <3>1 DEF StepTo, n
    <3>3. StepTo(meta, job[p].next)' /\ Files(job[p].next)' = Files(n) /\ Files(meta)' = Files(meta)
      BY <2>1, <1>1, <3>2
    <3>. QED BY <2>1, <2>5, <1>1, <1>2, <3>1, <3>3 DEF Current
  <2>7. ASSUME job[p].gc PROVE Careful(p)'
    <3>1. Careful(p)
      BY <1>0, <2>7 DEF Working
    <3>2. Protects(p, job[p].keep, job[p].late)'
      BY <3>1, <2>1, <1>1 DEF Careful, Protects
    <3>3. ASSUME job[p].overtaken = {}
          PROVE  /\ b \in Tracked(meta) \ {meta.default}
                 /\ j.doomed \subseteq {meta.file[b]}
                 /\ \A o \in Branch \ {b} : meta.file[o] # meta.file[b]
                 /\ j.next = RemoveBranches(meta, {b})
      <4>1. m = meta
        BY <1>0, <3>3 DEF Working, Current, m
      <4>. QED BY <4>1, <1>1, <1>2, <1>3 DEF n
    <3>4. j.guarded = "both" /\ j.doomed \cap j.keep = {} /\ j.overtaken = job[p].overtaken
      BY <3>1, <1>1, <1>3 DEF Careful
    <3>. HIDE DEF Careful
    <3>. QED
      <4>1. job[p].overtaken = {} =>
              \E o \in Tracked(meta) \ {meta.default} :
                /\ j.doomed \subseteq {meta.file[o]}
                /\ \A r \in Branch \ {o} : meta.file[r] # meta.file[o]
                /\ j.next = RemoveBranches(meta, {o})
        BY <3>3
      <4>2. Tracked(meta)' = Tracked(meta) /\ \A S : RemoveBranches(meta, S)' = RemoveBranches(meta, S)
        BY DEF Tracked, RemoveBranches
      <4>. QED BY <2>1, <3>2, <3>4, <4>1, <4>2 DEF Careful
  <2>. QED BY <2>1, <2>2, <2>3, <2>4, <2>6, <2>7, <1>1 DEF Working, OwnIn
<1>. QED BY <1>4, <1>5, OthersWork

LEMMA UnlinkWorks ==
  ASSUME BranchAssumption, ProcAssumption, TInv, Works,
         NEW p \in Proc, NEW f \in File, Unlink(p, f)
  PROVE  Works'
<1>. DEFINE j == [job[p] EXCEPT !.doomed = @ \ {f}, !.cut = @ \cup {f}]
            l == IF job[p].doomed = {f} THEN "save" ELSE "unlink"
<1>. /\ pc[p] = "unlink" /\ f \in job[p].doomed /\ disk' = disk \ {f}
     /\ pc' = [pc EXCEPT ![p] = l] /\ job' = [job EXCEPT ![p] = j]
     /\ UNCHANGED <<meta, refs, branchLock, syncLock, handle, registry, moved, strayed>>
     /\ pc \in [Proc -> Label] /\ job \in [Proc -> Job] /\ job[p] \in Job
  BY DEF TInv, TypeOK, Unlink, Goto, Label
<1>0. Working(p)
  BY DEF Works
<1>1. /\ j.guarded = job[p].guarded /\ j.gc = job[p].gc /\ j.next = job[p].next
      /\ j.target = job[p].target /\ j.doomed = job[p].doomed \ {f} /\ j.cut = job[p].cut \cup {f}
      /\ j.keep = job[p].keep /\ j.late = job[p].late /\ j.overtaken = job[p].overtaken
  BY DEF Job
<1>2. l \in {"save", "unlink"} /\ (l = "save" => j.doomed = {})
  BY <1>1
<1>. HIDE DEF j, l
<1>3. Kept \subseteq Kept'
  <2>1. job'[p].cut = job[p].cut \cup {f} /\ \A q \in Proc \ {p} : job'[q].cut = job[q].cut
    BY <1>1
  <2>2. Cuts \cup {f} \subseteq Cuts'
    BY <2>1 DEF Cuts
  <2>. QED BY <2>2 DEF Kept
<1>4. Working(p)'
  <2>1. pc'[p] = l /\ job'[p] = j
    OBVIOUS
  <2>2. Holds(p)'
    BY <1>0, <1>1, <2>1 DEF Working, Holds
  <2>3. Stage(p)'
    BY <1>0, <1>1, <1>2, <2>1 DEF Working, Stage
  <2>4. ASSUME job[p].overtaken = {} PROVE Current(p)'
    <3>1. Current(p) /\ job[p].target = NoFile
      BY <2>4, <1>0 DEF Working, Stage
    <3>2. StepTo(meta, job[p].next)' /\ Files(job[p].next)' = Files(job[p].next) /\ Files(meta)' = Files(meta)
      BY <2>1, <1>1, <3>1 DEF Current
    <3>3. j.cut \cup j.doomed = job[p].cut \cup job[p].doomed
      BY <1>1
    <3>. QED BY <2>1, <1>1, <1>2, <3>1, <3>2, <3>3 DEF Current
  <2>5. ASSUME job[p].gc PROVE Careful(p)'
    <3>1. Careful(p)
      BY <1>0, <2>5 DEF Working
    <3>2. Protects(p, job[p].keep, job[p].late)'
      BY <3>1, <2>1, <1>1 DEF Careful, Protects
    <3>. QED BY <3>1, <3>2, <2>1, <1>1 DEF Careful
  <2>. QED BY <2>1, <2>2, <2>3, <2>4, <2>5, <1>0, <1>1 DEF Working, OwnIn
<1>. QED BY <1>3, <1>4, OthersWork

LEMMA CopyWorks ==
  ASSUME BranchAssumption, ProcAssumption, TInv, Works, NEW p \in Proc, Copy(p)
  PROVE  Works'
<1>. /\ pc[p] = "copy" /\ disk' = disk \cup {job[p].target} /\ pc' = [pc EXCEPT ![p] = "save"]
     /\ UNCHANGED <<meta, refs, branchLock, syncLock, job, handle, registry, moved, strayed>>
     /\ pc \in [Proc -> Label]
  BY DEF TInv, TypeOK, Copy, Goto, Label
<1>1. Kept' = Kept \cup {job[p].target}
  BY DEF Kept, Cuts
<1>2. Working(p)'
  <2>1. Working(p) /\ pc'[p] = "save"
    BY DEF Works
  <2>2. Holds(p)' /\ Stage(p)'
    BY <2>1 DEF Working, Holds, Stage
  <2>3. ASSUME job[p].overtaken = {} PROVE Current(p)'
    <3>1. Current(p)
      BY <2>1, <2>3 DEF Working
    <3>2. StepTo(meta, job[p].next)'
      BY <3>1 DEF Current
    <3>. QED BY <2>1, <3>1, <3>2 DEF Current, Files, Tracked
  <2>4. job[p].gc => Careful(p)'
    <3>1. job[p].gc => Careful(p)
      BY <2>1 DEF Working
    <3>. QED BY <2>1, <3>1 DEF Careful, Protects
  <2>. QED BY <2>1, <2>2, <2>3, <2>4 DEF Working, OwnIn
<1>. QED BY <1>1, <1>2, OthersWork

\* What a command saves replaces the metadata: the commands that loaded the
\* old one are overtaken, unless nothing changes.
LEMMA SaveWorks ==
  ASSUME BranchAssumption, ProcAssumption, TInv, Works, NEW p \in Proc, Save(p)
  PROVE  Works'
<1>. DEFINE n == job[p].next
            e == [job[p] EXCEPT !.cut = {}, !.overtaken = {}]
<1>. /\ pc[p] = "save" /\ meta' = n /\ moved' = moved \cup Misnamed(meta')
     /\ UNCHANGED <<disk, refs, handle, registry>>
     /\ pc \in [Proc -> Label] /\ job \in [Proc -> Job] /\ job[p] \in Job
     /\ pc' = [pc EXCEPT ![p] = IF job[p].gc THEN "gc" ELSE "idle"]
  BY DEF TInv, TypeOK, Save, Leave, Goto, Label
<1>0. Working(p)
  BY DEF Works
<1>1. /\ job'[p] = IF job[p].gc THEN e ELSE NoJob
      /\ e.guarded = job[p].guarded /\ e.gc = job[p].gc /\ e.next = n
      /\ e.target = job[p].target /\ e.doomed = job[p].doomed /\ e.cut = {}
      /\ e.keep = job[p].keep /\ e.late = job[p].late /\ e.overtaken = {}
  BY DEF Job, Save
<1>. HIDE DEF e
<1>2. ASSUME NEW q \in Proc \ {p}
      PROVE  /\ job'[q].guarded = job[q].guarded /\ job'[q].gc = job[q].gc
             /\ job'[q].next = job[q].next /\ job'[q].target = job[q].target
             /\ job'[q].doomed = job[q].doomed /\ job'[q].cut = job[q].cut
             /\ job'[q].keep = job[q].keep /\ job'[q].late = job[q].late
             /\ job'[q].overtaken \subseteq job[q].overtaken \cup {job[p].guarded}
             /\ job[q].overtaken \subseteq job'[q].overtaken
             /\ pc[q] # "idle" /\ job'[q].overtaken = {} => meta' = meta
  <2>. DEFINE d == [job[q] EXCEPT !.overtaken = @ \cup {job[p].guarded}]
  <2>1. /\ d.guarded = job[q].guarded /\ d.gc = job[q].gc /\ d.next = job[q].next
        /\ d.target = job[q].target /\ d.doomed = job[q].doomed /\ d.cut = job[q].cut
        /\ d.keep = job[q].keep /\ d.late = job[q].late
        /\ d.overtaken = job[q].overtaken \cup {job[p].guarded}
    <3>. job[q] \in Job
      OBVIOUS
    <3>. QED BY DEF Job
  <2>2. job'[q] = IF q # p /\ pc[q] # "idle" /\ meta' # meta THEN d ELSE job[q]
    BY DEF Save, Overtake
  <2>. HIDE DEF d
  <2>. QED BY <2>1, <2>2
<1>3. Files(meta') \subseteq Kept'
  <2>. SUFFICES ASSUME NEW f \in Files(n) PROVE f \in Kept'
    OBVIOUS
  <2>1. \A q \in Proc \ {p} : job[q].cut \subseteq Cuts'
    BY <1>2 DEF Cuts
  <2>2. f \in Files(meta) => f \in disk \cup moved \cup strayed \/ \E q \in Proc : f \in job[q].cut
    BY DEF Works, TrackedHasFile
  <2>3. CASE job[p].overtaken # {}
    <3>1. strayed' = strayed \cup job[p].cut \cup (Files(n) \ Files(meta))
      BY <2>3 DEF Save
    <3>. QED BY <2>1, <2>2, <3>1 DEF Kept
  <2>4. CASE job[p].overtaken = {}
    <3>1. strayed' = strayed /\ Current(p)
      BY <2>4, <1>0 DEF Save, Working
    <3>2. f \in job[p].cut => f \in moved
      BY <3>1 DEF Current
    <3>3. f \in Files(meta) => f \in Kept'
      BY <2>1, <2>2, <3>1, <3>2 DEF Kept
    <3>4. f \notin Files(meta) => f = job[p].target /\ f # NoFile
      <4>1. Files(n) \subseteq File
        BY MetaMethods DEF TInv, Jobs, Copies
      <4>. QED BY <3>1, <4>1, BranchAssumption DEF Current, BranchAssumption
    <3>5. f \notin Files(meta) => f \in disk \cup moved \cup strayed \/ \E q \in Proc : f \in job[q].cut
      BY <3>1, <3>4 DEF Current, Cuts
    <3>. QED BY <2>1, <3>1, <3>2, <3>3, <3>5 DEF Kept
  <2>. QED BY <2>3, <2>4
<1>4. OwnInv'
  BY <1>0 DEF Working, OwnInv, OwnIn
<1>5. TrackedHasFile'
  BY <1>3 DEF TrackedHasFile, Kept, Cuts
<1>6. ASSUME NEW q \in Proc \ {p}, pc'[q] # "idle" PROVE Working(q)'
  <2>1. Working(q) /\ pc'[q] = pc[q] /\ Holds(p) /\ pc[p] # "idle"
    BY <1>6, <1>0 DEF Works, Working
  <2>2. (branchLock = q => branchLock' = q) /\ (syncLock = q => syncLock' = q)
    BY DEF Save, Leave
  <2>3. job[p].guarded \notin Excluded(job[q].guarded)
    <3>1. job[p].guarded \in Guarded /\ job[q].guarded \in Guarded
      BY DEF Job
    <3>. QED
      BY <2>1, <3>1 DEF Working, Holds, TakesBranchLock, TakesSyncLock, Excluded, Guarded
  <2>4. job'[q].overtaken \cap Excluded(job[q].guarded) = {}
    BY <1>2, <2>1, <2>3 DEF Working, Holds
  <2>5. ASSUME job'[q].overtaken = {} PROVE job[q].overtaken = {} /\ meta' = meta /\ Kept \subseteq Kept'
    <3>1. job[q].overtaken = {} /\ meta' = meta
      BY <1>2, <1>6, <2>1, <2>5
    <3>2. job[p].overtaken = {} => job[p].cut = {}
      BY <3>1, <1>0 DEF Working, Current
    <3>3. strayed \cup job[p].cut \subseteq strayed'
      BY <3>2 DEF Save
    <3>4. Cuts \subseteq Cuts' \cup job[p].cut
      BY <1>2 DEF Cuts
    <3>. QED BY <3>1, <3>3, <3>4 DEF Kept
  <2>6. Bystander(q)
    BY <1>2, <2>1, <2>2, <2>4, <2>5 DEF Bystander
  <2>. QED BY <2>1, <2>6, BystanderWorks
<1>7. ASSUME pc'[p] # "idle" PROVE Working(p)'
  <2>1. job[p].gc /\ pc'[p] = "gc" /\ job'[p] = e
    BY <1>7, <1>1
  <2>2. Holds(p)'
    BY <1>0, <1>1, <2>1 DEF Working, Holds, Save
  <2>3. Stage(p)' /\ job[p].target = NoFile /\ job[p].doomed = {}
    BY <1>0, <1>1, <2>1 DEF Working, Stage
  <2>4. Current(p)'
    <3>1. StepTo(meta, job[p].next)' /\ Files(job[p].next)' = Files(meta)'
      BY <2>1, <1>1 DEF StepTo
    <3>. QED BY <2>1, <2>3, <1>1, <3>1 DEF Current
  <2>5. Careful(p)'
    <3>1. Careful(p)
      BY <1>0, <2>1 DEF Working
    <3>2. Protects(p, job[p].keep, job[p].late)'
      BY <3>1, <2>1, <1>1 DEF Careful, Protects
    <3>. QED BY <3>1, <3>2, <2>1, <1>1, <2>3 DEF Careful
  <2>6. OwnIn(job[p].next, moved)'
    BY <1>0, <1>1, <2>1 DEF Working, OwnIn
  <2>. QED BY <2>2, <2>3, <2>4, <2>5, <2>6 DEF Working
<1>. QED BY <1>4, <1>5, <1>6, <1>7 DEF Works

\* A server is idle; a gc under way learns that it has missed what it did.
LEMMA ServeWorks ==
  ASSUME BranchAssumption, ProcAssumption, TInv, Works, NEW p \in Proc, Serve(p)
  PROVE  Works'
<1>. /\ pc' = pc /\ pc[p] = "idle" /\ UNCHANGED <<meta, disk, refs, branchLock, syncLock, moved, strayed>>
     /\ job \in [Proc -> Job]
     /\ registry \in [Proc -> File \cup {NoFile}] /\ handle \in [Proc -> File \cup {NoFile}]
  BY DEF TInv, TypeOK, Serve, Register, Exit, OpenIndex, Switch
<1>1. ASSUME NEW q \in Proc
      PROVE  /\ job'[q].guarded = job[q].guarded /\ job'[q].gc = job[q].gc
             /\ job'[q].next = job[q].next /\ job'[q].target = job[q].target
             /\ job'[q].doomed = job[q].doomed /\ job'[q].cut = job[q].cut
             /\ job'[q].keep = job[q].keep /\ job'[q].overtaken = job[q].overtaken
             /\ job[q].late \subseteq job'[q].late
  <2>. DEFINE e == [job[q] EXCEPT !.late = @ \cup {p}]
  <2>1. /\ e.guarded = job[q].guarded /\ e.gc = job[q].gc /\ e.next = job[q].next
        /\ e.target = job[q].target /\ e.doomed = job[q].doomed /\ e.cut = job[q].cut
        /\ e.keep = job[q].keep /\ e.overtaken = job[q].overtaken
        /\ job[q].late \subseteq e.late
    <3>. job[q] \in Job
      OBVIOUS
    <3>. QED BY DEF Job
  <2>2. job'[q] = job[q] \/ (job[q].gc /\ job'[q] = e)
    BY ServeTyped
  <2>. HIDE DEF e
  <2>. QED BY <2>1, <2>2
<1>2. Cuts' = Cuts /\ Kept' = Kept
  BY <1>1 DEF Cuts, Kept
<1>3. OwnInv' /\ TrackedHasFile'
  BY <1>2 DEF Works, OwnInv, TrackedHasFile, Kept, Cuts, OwnIn, Misnamed, Tracked, Files
<1>4. ASSUME NEW q \in Proc, pc'[q] # "idle" PROVE Working(q)'
  <2>1. Working(q) /\ q # p
    BY <1>4 DEF Works
  <2>2. handle'[q] = handle[q] /\ \A r \in Proc \ {p} : registry'[r] = registry[r]
    BY <2>1 DEF Serve, Register, Exit, OpenIndex, Switch
  <2>3. CASE job[q].gc
    <3>1. registry'[p] \in {registry[p], NoFile} \/ p \in job'[q].late
      <4>1. CASE \E b \in Branch : OpenIndex(p, b) \/ Switch(p, b)
        BY <4>1 DEF OpenIndex, Switch
      <4>2. CASE Exit(p)
        BY <4>2 DEF Exit
      <4>3. CASE Register(p)
        <5>1. job'[q] = [job[q] EXCEPT !.late = @ \cup {p}]
          BY <4>3, <2>3 DEF Register, Missed
        <5>2. job[q] \in Job
          OBVIOUS
        <5>. QED BY <5>1, <5>2 DEF Job
      <4>. QED BY <4>1, <4>2, <4>3 DEF Serve
    <3>2. Bystander(q)
      BY <1>1, <1>2, <2>1, <2>2, <3>1 DEF Bystander, Working, Holds
    <3>. QED BY <2>1, <3>2, BystanderWorks
  <2>4. CASE ~job[q].gc
    <3>1. Holds(q)' /\ Stage(q)' /\ OwnIn(job[q].next, moved)'
      BY <1>1, <2>1 DEF Working, Holds, Stage, OwnIn
    <3>2. ASSUME job[q].overtaken = {} PROVE Current(q)'
      <4>1. Current(q)
        BY <2>1, <3>2 DEF Working
      <4>2. StepTo(meta, job[q].next)' /\ Files(job[q].next)' = Files(job[q].next) /\ Files(meta)' = Files(meta)
        BY <1>1, <4>1 DEF Current
      <4>. QED BY <4>1, <4>2, <1>1, <1>2 DEF Current
    <3>. QED BY <3>1, <3>2, <1>1, <2>4 DEF Working
  <2>. QED BY <2>3, <2>4
<1>. QED BY <1>3, <1>4 DEF Works

LEMMA InitWorks ==
  ASSUME BranchAssumption, ProcAssumption, Init
  PROVE  Works
<1>1. ASSUME NEW b \in Branch PROVE meta.file[b] \in {NoFile, TokensaveDb, PlainFile[b], HashedFile[b]}
  BY <1>1 DEF Init, Settled, Tracked
<1>2. Misnamed(meta) = {}
  <2>. SUFFICES ASSUME NEW o \in Branch, NEW b \in Branch \ {o}, meta.file[b] = HashedFile[o] PROVE FALSE
    BY DEF Misnamed
  <2>. QED BY <1>1, BranchAssumption DEF BranchAssumption
<1>3. OwnIn(meta, moved)
  BY DEF Init, Settled, OwnIn, Tracked
<1>4. TrackedHasFile
  BY DEF Init, TrackedHasFile
<1>. QED BY <1>2, <1>3, <1>4 DEF Works, OwnInv, Init

LEMMA NextWorks ==
  ASSUME BranchAssumption, ProcAssumption, TInv, Works, Next
  PROVE  Works'
<1>1. ASSUME NEW p \in Proc, Continue(p) PROVE Works'
  <2>0. Proc # {} /\ job[p] \in Job
    BY DEF TInv, TypeOK
  <2>1. CASE GcDone(p)
    <3>1. pc[p] = "gc" /\ Leave(p) /\ job' = [job EXCEPT ![p] = NoJob]
          /\ UNCHANGED <<meta, disk, moved, strayed, registry, handle>>
      BY <2>1 DEF GcDone
    <3>2. job[p].cut = {}
      BY <3>1 DEF Works, Working, Stage
    <3>. QED BY <3>1, <3>2, LeaveWorks
  <2>2. CASE Fail(p) \/ Crash(p)
    <3>1. /\ Leave(p) /\ job' = [job EXCEPT ![p] = NoJob] /\ strayed' = strayed \cup job[p].cut
          /\ UNCHANGED <<meta, disk, moved>>
          /\ registry' \in {registry, [registry EXCEPT ![p] = NoFile]}
          /\ handle' \in {handle, [handle EXCEPT ![p] = NoFile]}
      BY <2>2 DEF Fail, Crash, Abandon
    <3>. QED BY <3>1, LeaveWorks
  <2>. QED
    BY <1>1, <2>1, <2>2, GcSkipWorks, GcCondemnWorks, UnlinkWorks, CopyWorks, SaveWorks DEF Continue
<1>2. ASSUME NEW b \in Branch, GitBranch(b) PROVE Works'
  <2>. UNCHANGED <<meta, disk, branchLock, syncLock, pc, job, handle, registry, moved, strayed>>
    BY <1>2 DEF GitBranch
  <2>1. OwnInv' /\ TrackedHasFile'
    BY DEF Works, OwnInv, TrackedHasFile, OwnIn, Misnamed, Tracked, Files
  <2>2. ASSUME NEW q \in Proc, pc'[q] # "idle" PROVE Working(q)'
    <3>1. Working(q) /\ Kept' = Kept
      BY <2>2 DEF Works, Kept, Cuts
    <3>2. Bystander(q)
      BY <3>1 DEF Bystander, Working, Holds
    <3>. QED BY <3>1, <3>2, BystanderWorks
  <2>. QED BY <2>1, <2>2 DEF Works
<1>. QED BY <1>1, <1>2, Steps, StartWorks, ServeWorks

LEMMA Invariance == Spec => []IInv
<1>1. Init => IInv
  BY InitTyped, InitWorks, BranchAssumption, ProcAssumption DEF IInv
<1>2. IInv /\ Next => IInv'
  BY NextTyped, NextWorks, BranchAssumption, ProcAssumption DEF IInv
<1>3. IInv /\ UNCHANGED vars => IInv'
  <2>. SUFFICES ASSUME IInv, UNCHANGED vars PROVE IInv'
    OBVIOUS
  <2>. UNCHANGED <<meta, disk, refs, branchLock, syncLock, pc, job, handle, registry, ops, moved, strayed>>
    BY DEF vars
  <2>1. TInv'
    BY DEF IInv, TInv, TypeOK, Jobs, Copies, Sound
  <2>2. OwnInv' /\ TrackedHasFile' /\ Kept' = Kept
    BY DEF IInv, Works, OwnInv, OwnIn, Misnamed, Tracked, Files, TrackedHasFile, Kept, Cuts
  <2>3. ASSUME NEW q \in Proc, pc'[q] # "idle" PROVE Working(q)'
    <3>1. Working(q)
      BY <2>3 DEF IInv, Works
    <3>2. Bystander(q)
      BY <2>2, <3>1 DEF Bystander, Working, Holds
    <3>. QED BY <3>1, <3>2, BystanderWorks
  <2>. QED BY <2>1, <2>2, <2>3 DEF IInv, Works
<1>. QED BY <1>1, <1>2, <1>3, PTL DEF Spec

\* For every set of branches and processes: two branches share a database only
\* if it is a hashed file that a rename gave to a branch of another name.
THEOREM OwnFilesHolds == Spec => []OwnFiles
<1>1. IInv => OwnFiles
  BY DEF IInv, Works, OwnInv, OwnIn, OwnFiles
<1>. QED BY <1>1, Invariance, PTL

\* For every set of branches and processes: a tracked branch has its database,
\* the exceptions that TrackedHasFile lists apart.
THEOREM TrackedFilesHold == Spec => []TrackedHasFile
<1>1. IInv => TrackedHasFile
  BY DEF IInv, Works
<1>. QED BY <1>1, Invariance, PTL

\* Only a save changes the metadata, only a copy and an unlink which files exist.
LEMMA Effects ==
  ASSUME Next
  PROVE  \/ UNCHANGED <<meta, disk>>
         \/ disk' = disk /\ \E p \in Proc : Save(p)
         \/ meta' = meta /\ \E p \in Proc : Copy(p) \/ \E f \in File : Unlink(p, f)
<1>. DEFINE Same == UNCHANGED <<meta, disk>>
<1>1. ASSUME NEW p \in Proc, NEW l, NEW j, Start(p, l, j) PROVE Same
  BY <1>1 DEF Start
<1>2. \A b \in Branch : GitBranch(b) => Same
  BY DEF GitBranch
<1>3. \A p \in Proc : \A b \in Branch :
        StartTrack(p, b) \/ StartSetDefault(p, b) \/ StartReconcile(p, b) => Same
  BY <1>1 DEF StartTrack, StartSetDefault, StartReconcile
<1>4. \A p \in Proc : /\ \A g \in Guarded : StartTouch(p, g) => Same
                      /\ \A S \in SUBSET Branch : StartRemove(p, S) => Same
                      /\ \A own \in SUBSET (File \cup {NoFile}) : StartGc(p, own) => Same
  BY <1>1 DEF StartTouch, StartRemove, StartGc
<1>5. \A p \in Proc : \A b \in Branch :
        GcSkip(p, b) \/ GcCondemn(p, b) \/ OpenIndex(p, b) \/ Switch(p, b) => Same
  BY DEF GcSkip, GcCondemn, OpenIndex, Switch
<1>6. \A p \in Proc : GcDone(p) \/ Fail(p) \/ Crash(p) \/ Register(p) \/ Exit(p) => Same
  BY DEF GcDone, Fail, Crash, Register, Exit
<1>7. \A p \in Proc : /\ Save(p) => disk' = disk
                      /\ Copy(p) => meta' = meta
                      /\ \A f \in File : Unlink(p, f) => meta' = meta
  BY DEF Save, Copy, Unlink
<1>. HIDE DEF Same
<1>8. \/ Same
      \/ disk' = disk /\ \E p \in Proc : Save(p)
      \/ meta' = meta /\ \E p \in Proc : Copy(p) \/ \E f \in File : Unlink(p, f)
  BY <1>2, <1>3, <1>4, <1>5, <1>6, <1>7 DEF Next
<1>. QED BY <1>8 DEF Same

\* BranchStore implements BranchTable, for every set of branches and processes:
\* what a command saves is one step of the table from what branch-meta.json says
\* then, unless a command that shares no lock with it came between.
THEOREM Refinement == Spec => ImplementsBranchTable
<1>1. Init => Table!Init
  BY DEF Init, Table!Init, Table!Settled, Settled, Table!Meta, Meta, Table!Tracked, Tracked
<1>2. ASSUME IInv, [Next]_vars
      PROVE  [Table!Next \/ \E p \in Proc : Exposed(p) /\ meta' = job[p].next]_meta
  <2>. SUFFICES ASSUME Next, meta' # meta
                PROVE  Table!Next \/ \E p \in Proc : Exposed(p) /\ meta' = job[p].next
    BY <1>2 DEF vars
  <2>1. PICK p \in Proc : Save(p)
    BY Effects
  <2>2. meta' = job[p].next /\ pc[p] # "idle"
    BY <2>1 DEF Save
  <2>3. Working(p)
    BY <1>2, <2>2 DEF IInv, Works
  <2>4. CASE ~Exposed(p)
    <3>1. StepTo(meta, meta')
      BY <2>2, <2>3, <2>4 DEF Working, Holds, Exposed, Current
    <3>2. meta \in Meta
      BY <1>2 DEF IInv, TInv, TypeOK
    <3>3. \A S \in SUBSET (Tracked(meta) \ {meta.default}) : S \in SUBSET Branch
      BY DEF Tracked
    <3>4. \A b \in Tracked(meta) : b \in Branch
      BY DEF Tracked
    <3>. QED
      BY <3>1, <3>3, <3>4 DEF StepTo, Table!Next, Table!Track, Table!Promote, Table!Rename, Table!Drop,
         Table!Tracked, Tracked, Table!AddBranch, AddBranch, Table!UniqueFile, UniqueFile,
         Table!SetDefault, SetDefault, Table!RenameDefault, RenameDefault,
         Table!RemoveBranches, RemoveBranches
  <2>. QED BY <2>2, <2>4
<1>. QED
  BY <1>1, <1>2, Invariance, PTL DEF Spec, ImplementsBranchTable

\* For every set of branches and processes: the databases that gc leaves alone.
THEOREM GcSparesOthersHolds == Spec => GcSparesOthers
<1>. DEFINE Spares(p, f) ==
       f \notin disk' /\ pc[p] = "unlink" /\ pc'[p] = "save" /\ job[p].gc =>
         /\ f \in Files(meta) /\ ~Exposed(p) =>
              \E b \in Branch \ {meta.default} :
                {o \in Branch : meta.file[o] = f} = {b} /\ b \notin Tracked(job[p].next)
         /\ registry[p] \in {NoFile, handle[p]} => f # handle[p]
         /\ \A q \in Proc : registry[q] = f => q \in job[p].late
<1>1. ASSUME IInv, Next, NEW p \in Proc, NEW f \in disk,
             f \notin disk', pc[p] = "unlink", pc'[p] = "save", job[p].gc
      PROVE  Spares(p, f)
  <2>1. f \in job[p].doomed
    <3>0. pc \in [Proc -> Label]
      BY <1>1 DEF IInv, TInv, TypeOK, Label
    <3>1. PICK g \in File : Unlink(p, g)
      <4>1. PICK r \in Proc : disk' # disk /\ (Copy(r) \/ \E g \in File : Unlink(r, g))
        BY <1>1, Effects
      <4>2. r = p
        BY <4>1, <3>0, <1>1 DEF Copy, Unlink, Goto
      <4>. QED BY <4>1, <4>2, <1>1 DEF Copy
    <3>. QED BY <3>1, <1>1 DEF Unlink
  <2>2. Working(p) /\ Careful(p) /\ f \in File
    BY <1>1 DEF IInv, Works, Working, TInv, TypeOK
  <2>3. f \notin job[p].keep
    BY <2>1, <2>2 DEF Careful
  <2>4. f # NoFile
    BY <2>2, BranchAssumption DEF BranchAssumption
  <2>5. registry[p] \in {NoFile, handle[p]} => f # handle[p]
    BY <2>2, <2>3, <2>4 DEF Careful, Protects
  <2>6. \A q \in Proc : registry[q] = f => q \in job[p].late
    BY <2>2, <2>3, <2>4 DEF Careful, Protects
  <2>7. ASSUME ~Exposed(p)
        PROVE  \E b \in Branch \ {meta.default} :
                 {o \in Branch : meta.file[o] = f} = {b} /\ b \notin Tracked(job[p].next)
    <3>1. job[p].overtaken = {}
      BY <2>2, <2>7 DEF Working, Holds, Exposed
    <3>2. PICK b \in Tracked(meta) \ {meta.default} :
            /\ job[p].doomed \subseteq {meta.file[b]}
            /\ \A o \in Branch \ {b} : meta.file[o] # meta.file[b]
            /\ job[p].next = RemoveBranches(meta, {b})
      BY <1>1, <2>2, <3>1 DEF Careful
    <3>3. b \in Branch /\ f = meta.file[b]
      BY <2>1, <3>2 DEF Tracked
    <3>4. b \notin Tracked(job[p].next)
      BY <3>2, <3>3 DEF Tracked, RemoveBranches, TInv, TypeOK, Meta, IInv
    <3>. QED BY <3>2, <3>3, <3>4
  <2>. QED BY <2>5, <2>6, <2>7
<1>2. IInv /\ [Next]_vars => [\A p \in Proc, f \in disk : Spares(p, f)]_vars
  BY <1>1
<1>. QED
  BY <1>2, Invariance, PTL DEF Spec, GcSparesOthers
=============================================================================
