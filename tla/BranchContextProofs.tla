------------------------- MODULE BranchContextProofs -------------------------
(***************************************************************************)
(* Proofs about BranchContext, for any branches and any bounds on the      *)
(* checkouts and the kills.                                                *)
(***************************************************************************)
EXTENDS BranchContext, TLAPS

-----------------------------------------------------------------------------
(* Jobs.                                                                   *)

LEMMA WithJob ==
  ASSUME NEW h \in Handle \cup {None}, NEW m \in Mode
  PROVE  /\ With(h, m) \in Job
         /\ With(h, m).handle = h /\ With(h, m).mode = m
         /\ With(h, m).hops = 0 /\ With(h, m).late = FALSE
  BY DEF With, Job

LEMMA IdleJob == Idle \in Job
  BY WithJob DEF Idle, Mode

LEMMA SeenJob ==
  ASSUME NEW j \in Job, NEW s \in Tree
  PROVE  LET k == [j EXCEPT !.seen = s] IN
         /\ k \in Job /\ k.seen = s /\ k.handle = j.handle /\ k.mode = j.mode
         /\ k.got = j.got /\ k.hops = j.hops /\ k.late = j.late
  BY DEF Job

LEMMA GotJob ==
  ASSUME NEW j \in Job, NEW s \in Tree
  PROVE  LET k == [j EXCEPT !.got = s] IN
         /\ k \in Job /\ k.got = s /\ k.handle = j.handle /\ k.mode = j.mode
         /\ k.seen = j.seen /\ k.hops = j.hops /\ k.late = j.late
  BY DEF Job

LEMMA LateJob ==
  ASSUME NEW j \in Job
  PROVE  LET k == [j EXCEPT !.late = TRUE] IN
         /\ k \in Job /\ k.late = TRUE /\ k.handle = j.handle /\ k.mode = j.mode
         /\ k.seen = j.seen /\ k.got = j.got /\ k.hops = j.hops
  BY DEF Job

LEMMA HopJob ==
  ASSUME NEW j \in Job
  PROVE  LET k == [j EXCEPT !.hops = IF @ = 0 THEN 1 ELSE 2] IN
         /\ k \in Job /\ k.hops = (IF j.hops = 0 THEN 1 ELSE 2)
         /\ k.handle = j.handle /\ k.mode = j.mode
         /\ k.seen = j.seen /\ k.got = j.got /\ k.late = j.late
  BY DEF Job

-----------------------------------------------------------------------------
(* Steps of one task.                                                      *)

\* What the tasks hold.
TasksOK == at \in [Task -> Place] /\ job \in [Task -> Job]

\* The other tasks stay where they are.
Alone(t) == \A u \in Task : u # t => at'[u] = at[u] /\ job'[u] = job[u]

LEMMA Moves ==
  ASSUME TasksOK, NEW t \in Task, NEW p \in Place, Go(t, p), UNCHANGED job
  PROVE  TasksOK' /\ Alone(t) /\ at'[t] = p /\ job'[t] = job[t]
  BY DEF TasksOK, Alone, Go

LEMMA MovesWith ==
  ASSUME TasksOK, NEW t \in Task, NEW p \in Place, NEW j \in Job, Go(t, p), Set(t, j)
  PROVE  TasksOK' /\ Alone(t) /\ at'[t] = p /\ job'[t] = j
  BY DEF TasksOK, Alone, Go, Set

\* Where a task may be when it holds nothing.
Out == {"idle", "down", "leased"}

LEMMA Tasks == /\ "call" \in Task /\ "own" \in Task /\ Out \subseteq Place
  BY DEF Task, Out, Place

LEMMA Ends ==
  ASSUME TasksOK, want \in Head, NEW t \in Task,
         Abandon(t) \/ LeaveTargeted(t) \/ (t = "call" /\ EndCall)
  PROVE  /\ TasksOK' /\ Alone(t) /\ at'[t] \in Out /\ job'[t] = Idle
         /\ want' \in Head
         /\ t = "call" => at'[t] \in {"idle", "leased"}
         /\ t = "own" => at'[t] \in {"idle", "down"} /\ want' = want
<1>1. PICK p \in Out : /\ Go(t, p) /\ Set(t, Idle) /\ want' \in {want, Detached}
                       /\ t = "own" => want' = want
                       /\ t = "call" => p \in {"idle", "leased"}
                       /\ t = "own" => p \in {"idle", "down"}
  BY DEF Abandon, LeaveTargeted, EndCall, Out, Task
<1>2. TasksOK' /\ Alone(t) /\ at'[t] = p /\ job'[t] = Idle
  BY <1>1, MovesWith, IdleJob, Tasks
<1> QED
  BY <1>1, <1>2 DEF Head

-----------------------------------------------------------------------------
(* Types, handles and what the tasks have read.                            *)

\* The part of TypeOK that is not about the tasks.
StoreOK ==
  /\ tree \in Tree /\ tree.stamp <= checkouts
  /\ checkouts \in 0 .. MaxCheckouts /\ crashes \in 0 .. MaxCrashes
  /\ tracked \subseteq Branch /\ Default \in tracked
  /\ rows \in [Branch -> SUBSET Tree]
  /\ torn \subseteq Branch /\ dirty \in BOOLEAN
  /\ lock \in Task \cup {Free}
  /\ initial \in Handle \cup {None} /\ current \in Handle \cup {None}
  /\ want \in Head
  /\ foreign \in [Branch -> SUBSET {"borrowed", "back", "late", "pruned", "copied"}]
  /\ unmarked \in [Branch -> SUBSET {"targeted", "cleared", "copied"}]

LEMMA TypeParts == TypeOK <=> TasksOK /\ StoreOK
  BY DEF TypeOK, TasksOK, StoreOK

\* A handle serves a tracked branch: the one it was opened on unless it borrows.
Good(h) == h \in Handle /\ h.db \in tracked /\ (h.fallback \/ h.db = h.branch)

\* Where a task has a handle; where it has read the tree, once and twice.
Holding == {"opened", "begin", "scan", "stale", "wait", "check", "prune", "read",
            "confirm", "write", "publish"}
Scanned == {"wait", "check", "prune", "read", "confirm", "write"}

JobOK(t) ==
  /\ at[t] \in Holding => Good(H(t))
  /\ at[t] \in {"opened", "stale", "wait", "check", "prune"} => job[t].mode = "targeted"
  /\ at[t] \in {"begin", "scan"} => job[t].mode # "targeted"
  /\ at[t] \in Scanned => job[t].seen \in Tree
  /\ at[t] = "write" \/ (at[t] = "confirm" /\ job[t].mode # "sync") =>
       job[t].got \in Tree

ServerOK ==
  /\ initial # None => Good(initial)
  /\ current # None => Good(current)
  /\ at["call"] # "idle" => Up

Base == TasksOK /\ StoreOK /\ ServerOK /\ \A t \in Task : JobOK(t)

\* A handle stays good: databases are only added.
LEMMA GoodStays ==
  ASSUME NEW h, Good(h), tracked \subseteq tracked'
  PROVE  Good(h)'
  BY DEF Good

\* Everything but the tasks stays.
Quiet == UNCHANGED <<git, crashes, storage, lock, handles, history>>

LEMMA QuietStore ==
  ASSUME StoreOK, Quiet, want' \in Head
  PROVE  StoreOK' /\ UNCHANGED <<tracked, initial, current>>
  BY DEF StoreOK, Quiet, git, storage, handles, history

\* When one task steps it is enough to look at that task.
LEMMA OneTask ==
  ASSUME Base, TasksOK', NEW t \in Task, Alone(t), tracked \subseteq tracked',
         UNCHANGED handles, JobOK(t)', t = "call" => (at'[t] # "idle" => Up)
  PROVE  ServerOK' /\ \A u \in Task : JobOK(u)'
<1>1. Up' = Up /\ initial' = initial /\ current' = current
  BY DEF Up, handles
<1>2. ServerOK'
  <2>1. (initial # None => Good(initial))'
    BY <1>1, GoodStays DEF Base, ServerOK
  <2>2. (current # None => Good(current))'
    BY <1>1, GoodStays DEF Base, ServerOK
  <2>3. (at["call"] # "idle" => Up)'
    BY <1>1, Tasks DEF Base, ServerOK, Alone
  <2> QED
    BY <2>1, <2>2, <2>3 DEF ServerOK
<1>3. ASSUME NEW u \in Task, u # t PROVE JobOK(u)'
  <2>1. at'[u] = at[u] /\ job'[u] = job[u] /\ JobOK(u)
    BY <1>3 DEF Base, Alone
  <2>2. (at[u] \in Holding => Good(H(u)))'
    BY <2>1, GoodStays DEF JobOK, H
  <2> QED
    BY <2>1, <2>2 DEF JobOK, Scanned
<1> QED
  BY <1>2, <1>3

\* A task that lets go needs nothing.
LEMMA OutJob == ASSUME NEW t \in Task, at[t] \in Out \cup {"open"} PROVE JobOK(t)
  BY DEF JobOK, Out, Holding, Scanned
LEMMA OutJobNext == ASSUME NEW t \in Task, at'[t] \in Out \cup {"open"} PROVE JobOK(t)'
  BY DEF JobOK, Out, Holding, Scanned

LEMMA InitBase == Init => Base
<1> SUFFICES ASSUME Init PROVE Base
  OBVIOUS
<1>1. TasksOK
  BY IdleJob DEF Init, TasksOK, Place, Task
<1>2. StoreOK
  <2>1. tree \in Tree /\ tree.stamp = 0 /\ 0 \in 0 .. MaxCheckouts /\ 0 \in 0 .. MaxCrashes
    BY ContextAssumption DEF Init, Tree
  <2>2. \A b \in Branch : [head |-> b, stamp |-> 0] \in Tree
    BY ContextAssumption DEF Tree, Head
  <2>3. rows \in [Branch -> SUBSET Tree]
    BY <2>2 DEF Init
  <2>4. tracked \subseteq Branch /\ Default \in tracked /\ want \in Head
    BY DEF Init, Head
  <2>5. /\ foreign \in [Branch -> SUBSET {"borrowed", "back", "late", "pruned", "copied"}]
        /\ unmarked \in [Branch -> SUBSET {"targeted", "cleared", "copied"}]
    BY DEF Init
  <2>6. tree.stamp <= checkouts /\ checkouts \in 0 .. MaxCheckouts /\ crashes \in 0 .. MaxCrashes
    BY <2>1 DEF Init
  <2> QED
    BY <2>1, <2>3, <2>4, <2>5, <2>6 DEF Init, StoreOK
<1>3. ServerOK
  BY DEF Init, ServerOK, Up, Task
<1>4. ASSUME NEW t \in Task PROVE JobOK(t)
  BY OutJob DEF Init, Out, Task
<1> QED
  BY <1>1, <1>2, <1>3, <1>4 DEF Base

-----------------------------------------------------------------------------
(* Every action keeps them.                                                *)

LEMMA EndsBase ==
  ASSUME Base, NEW t \in Task,
         Abandon(t) \/ LeaveTargeted(t) \/ (t = "call" /\ EndCall),
         UNCHANGED handles, tracked \subseteq tracked', at[t] \notin {"idle", "down"},
         t = "call" => Up
  PROVE  TasksOK' /\ Alone(t) /\ ServerOK' /\ want' \in Head /\ \A u \in Task : JobOK(u)'
<1>1. /\ TasksOK' /\ Alone(t) /\ at'[t] \in Out /\ want' \in Head
  BY Ends DEF Base, StoreOK
<1> QED
  BY <1>1, OutJobNext, OneTask

\* A call is under way only while the server is up.
LEMMA CallUp == ASSUME Base, NEW t \in Task, at[t] # "idle" PROVE t = "call" => Up
  BY DEF Base, ServerOK

\* A step that moves one task and nothing else.
LEMMA QuietBase ==
  ASSUME Base, Quiet, want' \in Head, NEW t \in Task, TasksOK', Alone(t), JobOK(t)',
         t = "call" => (at'[t] # "idle" => Up)
  PROVE  Base'
<1>1. StoreOK' /\ UNCHANGED <<tracked, initial, current>>
  BY QuietStore DEF Base
<1>2. ServerOK' /\ \A u \in Task : JobOK(u)'
  BY <1>1, OneTask DEF handles
<1> QED
  BY <1>1, <1>2 DEF Base

LEMMA QuietEnds ==
  ASSUME Base, Quiet, NEW t \in Task,
         Abandon(t) \/ LeaveTargeted(t) \/ (t = "call" /\ EndCall),
         at[t] \notin {"idle", "down"}
  PROVE  Base'
<1>1. TasksOK' /\ Alone(t) /\ ServerOK' /\ want' \in Head /\ \A u \in Task : JobOK(u)'
  BY EndsBase, CallUp DEF Quiet, storage, handles
<1>2. StoreOK'
  BY <1>1, QuietStore DEF Base
<1> QED
  BY <1>1, <1>2 DEF Base

LEMMA ResolvedGood ==
  ASSUME NEW head \in Head, NEW T \in SUBSET Branch, Default \in T, NEW h \in Resolved(head, T)
  PROVE  /\ h \in Handle /\ h.branch = head /\ h.db \in T
         /\ h.fallback \/ h.db = h.branch
<1>1. CASE head \in T
  <2>1. h = [branch |-> head, db |-> head, fallback |-> FALSE]
    BY <1>1 DEF Resolved
  <2> QED
    BY <1>1, <2>1 DEF Handle
<1>2. CASE head \notin T
  <2>1. PICK b \in T : h = [branch |-> head, db |-> b, fallback |-> TRUE]
    BY <1>2 DEF Resolved
  <2>2. b \in Branch
    BY <2>1
  <2> QED
    BY <2>1, <2>2 DEF Handle
<1> QED
  BY <1>1, <1>2

LEMMA StartBase == Base /\ Start => Base'
<1> SUFFICES ASSUME Base, Start PROVE Base'
  OBVIOUS
<1>1. TasksOK' /\ Alone("own") /\ at'["own"] = "open"
  BY Moves, Tasks DEF Start, Base, Place
<1> QED
  BY <1>1, QuietBase, OutJobNext, Tasks DEF Start, Quiet, Base, StoreOK

LEMMA LeaseBase == Base /\ Lease => Base'
<1> SUFFICES ASSUME Base, Lease PROVE Base'
  OBVIOUS
<1>0. Quiet /\ want' \in Head /\ Up
  BY DEF Lease, Quiet, LeaseKeep, LeaseRefresh, LeaseSwitch, Base, StoreOK, Tree
<1>1. CASE LeaseKeep \/ LeaseSwitch
  <2>1. TasksOK' /\ Alone("call") /\ at'["call"] \in {"leased", "open"}
    BY <1>1, Moves, Tasks DEF LeaseKeep, LeaseSwitch, Base, Place
  <2> QED
    BY <1>0, <2>1, QuietBase, OutJobNext, Tasks DEF Out
<1>2. CASE LeaseRefresh
  <2>1. current \in Handle /\ Good(current)
    BY <1>2 DEF LeaseRefresh, Base, StoreOK, ServerOK
  <2>2. With(current, "targeted") \in Job /\ With(current, "targeted").handle = current
        /\ With(current, "targeted").mode = "targeted"
    BY <2>1, WithJob DEF Mode
  <2>3. /\ TasksOK' /\ Alone("call") /\ at'["call"] = "stale"
        /\ job'["call"] = With(current, "targeted")
    BY <1>2, <2>2, MovesWith, Tasks DEF LeaseRefresh, Base, Place
  <2>4. Good(current)'
    BY <1>0, <2>1, GoodStays DEF Quiet, storage, handles, Good
  <2>5. current' = current
    BY <1>0 DEF Quiet, handles
  <2>6. JobOK("call")'
    BY <2>2, <2>3, <2>4, <2>5 DEF JobOK, H, Scanned
  <2> QED
    BY <1>0, <2>3, <2>6, QuietBase, Tasks
<1> QED
  BY <1>1, <1>2 DEF Lease

LEMMA StartLazyBase == Base /\ StartLazy => Base'
<1> SUFFICES ASSUME Base, StartLazy PROVE Base'
  OBVIOUS
<1>0. Quiet /\ want' \in Head
  BY DEF StartLazy, Quiet, Base, StoreOK
<1>1. initial \in Handle /\ Good(initial)
  BY DEF StartLazy, Base, StoreOK, ServerOK, Up
<1>2. With(initial, "targeted") \in Job /\ With(initial, "targeted").handle = initial
      /\ With(initial, "targeted").mode = "targeted"
  BY <1>1, WithJob DEF Mode
<1>3. /\ TasksOK' /\ Alone("own") /\ at'["own"] = "stale"
      /\ job'["own"] = With(initial, "targeted")
  BY <1>2, MovesWith, Tasks DEF StartLazy, Base, Place
<1>4. Good(initial)' /\ initial' = initial
  BY <1>0, <1>1, GoodStays DEF Quiet, storage, handles, Good
<1>5. JobOK("own")'
  BY <1>2, <1>3, <1>4 DEF JobOK, H, Scanned
<1> QED
  BY <1>0, <1>3, <1>5, QuietBase, Tasks

LEMMA AnswerBase == Base /\ Answer => Base'
  BY QuietEnds, Tasks DEF Answer, Quiet

LEMMA SwitchOpenedBase == Base /\ SwitchOpened => Base'
<1> SUFFICES ASSUME Base, SwitchOpened PROVE Base'
  OBVIOUS
<1>0. Quiet /\ at["call"] = "opened" /\ Good(H("call")) /\ Up /\ job["call"] \in Job
      /\ want \in Head
  BY Tasks DEF SwitchOpened, Quiet, Base, JobOK, Holding, ServerOK, TasksOK, StoreOK
<1>1. tracked' = tracked
  BY <1>0 DEF Quiet, storage
<1>2. CASE Go("call", "publish") /\ UNCHANGED <<job, want>>
  <2>1. TasksOK' /\ Alone("call") /\ at'["call"] = "publish" /\ job'["call"] = job["call"]
    BY <1>2, Moves, Tasks DEF Base, Place
  <2>2. JobOK("call")'
    BY <1>0, <1>1, <2>1 DEF JobOK, H, Good, Scanned
  <2> QED
    BY <1>0, <1>2, <2>1, <2>2, QuietBase, Tasks
<1>3. CASE Go("call", "begin") /\ Set("call", With(H("call"), "sync")) /\ UNCHANGED want
  <2>1. With(H("call"), "sync") \in Job /\ With(H("call"), "sync").handle = H("call")
        /\ With(H("call"), "sync").mode = "sync"
    BY <1>0, WithJob DEF Mode, Good
  <2>2. /\ TasksOK' /\ Alone("call") /\ at'["call"] = "begin"
        /\ job'["call"] = With(H("call"), "sync")
    BY <1>3, <2>1, MovesWith, Tasks DEF Base, Place
  <2>3. JobOK("call")'
    BY <1>0, <1>1, <2>1, <2>2 DEF JobOK, H, Good, Scanned
  <2> QED
    BY <1>0, <1>3, <2>2, <2>3, QuietBase, Tasks
<1>4. CASE EndCall
  BY <1>0, <1>4, QuietEnds, Tasks
<1> QED
  BY <1>2, <1>3, <1>4 DEF SwitchOpened

LEMMA AutoTrackStore ==
  ASSUME Base, AutoTrack
  PROVE  /\ tracked \subseteq tracked' /\ tracked' \subseteq Branch
         /\ rows' \in [Branch -> SUBSET Tree] /\ torn' \subseteq Branch
         /\ foreign' \in [Branch -> SUBSET {"borrowed", "back", "late", "pruned", "copied"}]
         /\ unmarked' \in [Branch -> SUBSET {"targeted", "cleared", "copied"}]
<1> USE DEF Base, StoreOK
<1>1. CASE UNCHANGED <<tracked, rows, torn, foreign, unmarked>>
  BY <1>1
<1>2. ASSUME tree.head \in Branch \ tracked,
             NEW parent \in tracked, NEW half \in TornIn(parent),
             tracked' = tracked \cup {tree.head},
             rows' = [rows EXCEPT ![tree.head] = rows[parent]],
             foreign' = [foreign EXCEPT ![tree.head] = {"copied"} \cup foreign[parent]],
             torn' = IF half THEN torn \cup {tree.head} ELSE torn,
             unmarked' = IF half THEN [unmarked EXCEPT ![tree.head] = {"copied"}]
                         ELSE unmarked
      PROVE  /\ tracked \subseteq tracked' /\ tracked' \subseteq Branch
             /\ rows' \in [Branch -> SUBSET Tree] /\ torn' \subseteq Branch
             /\ foreign' \in [Branch -> SUBSET {"borrowed", "back", "late", "pruned", "copied"}]
             /\ unmarked' \in [Branch -> SUBSET {"targeted", "cleared", "copied"}]
  <2>1. parent \in Branch /\ rows[parent] \in SUBSET Tree
        /\ foreign[parent] \in SUBSET {"borrowed", "back", "late", "pruned", "copied"}
    BY <1>2
  <2>2. rows' \in [Branch -> SUBSET Tree]
    BY <1>2, <2>1
  <2>3. foreign' \in [Branch -> SUBSET {"borrowed", "back", "late", "pruned", "copied"}]
    BY <1>2, <2>1
  <2>4. unmarked' \in [Branch -> SUBSET {"targeted", "cleared", "copied"}]
    BY <1>2
  <2> QED
    BY <1>2, <2>2, <2>3, <2>4
<1> QED
  BY <1>1, <1>2 DEF AutoTrack

\* What Open does to its task.
LEMMA OpenTask ==
  ASSUME Base, NEW t \in Task, Open(t)
  PROVE  \/ /\ Abandon(t)
         \/ \E h \in Resolved(tree.head, tracked'), p \in {"opened", "begin"} :
              /\ Go(t, p) /\ UNCHANGED want
              /\ Set(t, With(h, IF p = "opened" THEN "targeted" ELSE "index"))
  BY DEF Open

LEMMA OpenBase == ASSUME Base, NEW t \in Task, Open(t) PROVE Base'
<1>1. /\ at[t] = "open" /\ AutoTrack
      /\ UNCHANGED <<git, crashes, dirty, lock, handles>>
  BY DEF Open
<1>2. /\ tracked \subseteq tracked' /\ tracked' \subseteq Branch /\ Default \in tracked'
      /\ tree.head \in Head /\ UNCHANGED <<initial, current, tree>>
  BY <1>1, AutoTrackStore DEF Base, StoreOK, Tree, handles, git
<1>3. want' \in Head => StoreOK'
  BY <1>1, <1>2, AutoTrackStore DEF Base, StoreOK, git, handles
<1>4. CASE Abandon(t)
  <2>1. TasksOK' /\ ServerOK' /\ want' \in Head /\ \A u \in Task : JobOK(u)'
    BY <1>1, <1>2, <1>4, EndsBase, CallUp
  <2> QED
    BY <1>3, <2>1 DEF Base
<1>5. ASSUME NEW h \in Resolved(tree.head, tracked'), NEW p \in {"opened", "begin"},
             Go(t, p), UNCHANGED want,
             Set(t, With(h, IF p = "opened" THEN "targeted" ELSE "index"))
      PROVE  Base'
  <2> DEFINE j == With(h, IF p = "opened" THEN "targeted" ELSE "index")
  <2>1. h \in Handle /\ h.db \in tracked' /\ (h.fallback \/ h.db = h.branch)
    BY <1>2, <1>5, ResolvedGood
  <2>2. j \in Job /\ j.handle = h /\ (p = "begin" <=> j.mode # "targeted")
    BY <2>1, WithJob DEF Mode
  <2>3. TasksOK' /\ Alone(t) /\ at'[t] = p /\ job'[t] = j
    BY <1>5, <2>2, MovesWith DEF Base, Place
  <2>4. JobOK(t)'
    BY <2>1, <2>2, <2>3 DEF JobOK, H, Good, Scanned
  <2>5. ServerOK' /\ \A u \in Task : JobOK(u)'
    BY <1>1, <1>2, <2>3, <2>4, OneTask, CallUp
  <2>6. want' \in Head
    BY <1>5 DEF Base, StoreOK
  <2> QED
    BY <1>3, <2>3, <2>5, <2>6 DEF Base
<1> QED
  BY <1>4, <1>5, OpenTask

LEMMA ServeOpenedBase == Base /\ ServeOpened => Base'
<1> SUFFICES ASSUME Base, ServeOpened PROVE Base'
  OBVIOUS
<1>1. Good(H("own")) /\ tracked' = tracked /\ initial' = H("own") /\ current' = current
  BY Tasks DEF Base, JobOK, Holding, ServeOpened, storage
<1>2. StoreOK'
  BY <1>1 DEF Base, StoreOK, ServeOpened, git, storage, history, Good
<1>3. TasksOK' /\ Alone("own") /\ at'["own"] = "stale" /\ job'["own"] = job["own"]
  BY Moves, Tasks DEF ServeOpened, Base, Place
<1>4. JobOK("own")'
  BY <1>1, <1>3, Tasks DEF Base, JobOK, H, Good, Scanned, ServeOpened
<1>5. JobOK("call")'
  BY <1>1, <1>3, Tasks DEF Base, JobOK, H, Good, Scanned, Alone
<1>6. ServerOK'
  BY <1>1, <1>3, Tasks, ContextAssumption DEF Base, ServerOK, Good, Up, StoreOK
<1> QED
  BY <1>2, <1>3, <1>4, <1>5, <1>6 DEF Base, Task


LEMMA PublishBase == Base /\ Publish => Base'
<1> SUFFICES ASSUME Base, Publish PROVE Base'
  OBVIOUS
<1>1. /\ Good(H("call")) /\ Up /\ at["call"] = "publish"
      /\ UNCHANGED <<git, crashes, storage, lock, initial, history>>
  BY Tasks DEF Base, JobOK, Holding, ServerOK, Publish
<1>2. tracked' = tracked /\ initial' = initial
  BY <1>1 DEF storage
<1>3. CASE current' = H("call") /\ Go("call", "leased") /\ Set("call", Idle) /\ UNCHANGED want
  <2>1. TasksOK' /\ Alone("call") /\ at'["call"] = "leased"
    BY <1>3, MovesWith, IdleJob, Tasks DEF Base, Out
  <2>2. StoreOK'
    BY <1>1, <1>3 DEF Base, StoreOK, git, storage, history, Good
  <2>3. JobOK("call")'
    BY <2>1, OutJobNext, Tasks DEF Out
  <2>4. JobOK("own")'
    BY <1>2, <2>1, Tasks DEF Base, JobOK, H, Good, Scanned, Alone
  <2>5. ServerOK'
    BY <1>1, <1>2, <1>3 DEF Base, ServerOK, Good, Up
  <2> QED
    BY <2>1, <2>2, <2>3, <2>4, <2>5 DEF Base, Task
<1>4. CASE EndCall /\ UNCHANGED current
  <2>1. Quiet
    BY <1>1, <1>4 DEF Quiet, handles
  <2> QED
    BY <1>1, <1>4, <2>1, QuietEnds, Tasks
<1> QED
  BY <1>3, <1>4 DEF Publish

LEMMA FindStaleBase == ASSUME Base, NEW t \in Task, FindStale(t) PROVE Base'
<1>1. at[t] = "stale" /\ Quiet /\ job[t] \in Job /\ tree \in Tree /\ want \in Head
  BY DEF FindStale, Quiet, Base, TasksOK, StoreOK
<1>2. CASE LeaveTargeted(t)
  BY <1>1, <1>2, QuietEnds
<1>3. CASE Go(t, "wait") /\ Set(t, [job[t] EXCEPT !.seen = tree]) /\ UNCHANGED want
  <2> DEFINE j == [job[t] EXCEPT !.seen = tree]
  <2>3. j \in Job /\ j.handle = job[t].handle /\ j.mode = job[t].mode /\ j.seen = tree
    BY <1>1, SeenJob
  <2> HIDE DEF j
  <2>4. TasksOK' /\ Alone(t) /\ at'[t] = "wait" /\ job'[t] = j
    BY <1>3, <2>3, MovesWith DEF Base, Place, j
  <2>1. /\ TasksOK' /\ Alone(t) /\ at'[t] = "wait"
        /\ job'[t].handle = job[t].handle /\ job'[t].mode = job[t].mode /\ job'[t].seen = tree
    BY <2>3, <2>4
  <2>2. JobOK(t)' /\ want' \in Head
    BY <1>1, <1>3, <2>1 DEF Base, JobOK, H, Good, Holding, Scanned, Quiet, storage, git
  <2> QED
    BY <1>1, <2>1, <2>2, QuietBase, CallUp
<1> QED
  BY <1>2, <1>3 DEF FindStale

LEMMA ScanBase == ASSUME Base, NEW t \in Task, Scan(t) PROVE Base'
<1>1. at[t] = "scan" /\ Quiet /\ job[t] \in Job /\ tree \in Tree /\ want' \in Head
  BY DEF Scan, Quiet, Base, TasksOK, StoreOK
<1> DEFINE p == IF job[t].mode = "sync" THEN "confirm" ELSE "read"
<1>2. /\ TasksOK' /\ Alone(t) /\ at'[t] = p
      /\ job'[t].handle = job[t].handle /\ job'[t].mode = job[t].mode /\ job'[t].seen = tree
  <2> DEFINE j == [job[t] EXCEPT !.seen = tree]
  <2>1. j \in Job /\ j.handle = job[t].handle /\ j.mode = job[t].mode /\ j.seen = tree
    BY <1>1, SeenJob
  <2> HIDE DEF j
  <2>2. TasksOK' /\ Alone(t) /\ at'[t] = p /\ job'[t] = j
    BY <2>1, MovesWith DEF Base, Place, Scan, j
  <2> QED
    BY <2>1, <2>2
<1>3. JobOK(t)'
  BY <1>1, <1>2 DEF Base, JobOK, H, Good, Holding, Scanned, Quiet, storage, git
<1> QED
  BY <1>1, <1>2, <1>3, QuietBase, CallUp

LEMMA ReadBase == ASSUME Base, NEW t \in Task, Read(t) PROVE Base'
<1>1. at[t] = "read" /\ Quiet /\ job[t] \in Job /\ tree \in Tree /\ want' \in Head
  BY DEF Read, Quiet, Base, TasksOK, StoreOK
<1> DEFINE p == IF job[t].mode = "sync" THEN "write" ELSE "confirm"
<1>2. /\ TasksOK' /\ Alone(t) /\ at'[t] = p
      /\ job'[t].handle = job[t].handle /\ job'[t].mode = job[t].mode
      /\ job'[t].seen = job[t].seen /\ job'[t].got = tree
  <2> DEFINE j == [job[t] EXCEPT !.got = tree]
  <2>1. /\ j \in Job /\ j.handle = job[t].handle /\ j.mode = job[t].mode
        /\ j.seen = job[t].seen /\ j.got = tree
    BY <1>1, GotJob
  <2> HIDE DEF j
  <2>2. TasksOK' /\ Alone(t) /\ at'[t] = p /\ job'[t] = j
    BY <2>1, MovesWith DEF Base, Place, Read, j
  <2> QED
    BY <2>1, <2>2
<1>3. JobOK(t)'
  BY <1>1, <1>2 DEF Base, JobOK, H, Good, Holding, Scanned, Quiet, storage, git
<1> QED
  BY <1>1, <1>2, <1>3, QuietBase, CallUp

\* A step that takes or frees the lock, or marks a database.
LEMMA LockStore ==
  ASSUME StoreOK, want' \in Head, lock' \in Task \cup {Free}, dirty' \in BOOLEAN,
         torn' \subseteq Branch,
         UNCHANGED <<git, crashes, tracked, rows, handles, history>>
  PROVE  StoreOK' /\ tracked' = tracked /\ UNCHANGED handles
  BY DEF StoreOK, git, handles, history

LEMMA AwaitLockBase == ASSUME Base, NEW t \in Task, AwaitLock(t) PROVE Base'
<1>1. /\ at[t] = "wait" /\ want \in Head /\ lock' \in Task \cup {Free}
      /\ UNCHANGED <<git, crashes, storage, handles, history>>
  BY DEF AwaitLock, Base, StoreOK
<1>2. want' \in Head => StoreOK' /\ tracked' = tracked
  BY <1>1, LockStore DEF Base, StoreOK, storage
<1>3. CASE LeaveTargeted(t)
  <2>1. TasksOK' /\ ServerOK' /\ want' \in Head /\ \A u \in Task : JobOK(u)'
    BY <1>1, <1>3, EndsBase, CallUp DEF storage
  <2> QED
    BY <1>2, <2>1 DEF Base
<1>4. CASE Go(t, "check") /\ UNCHANGED <<job, want>>
  <2>1. TasksOK' /\ Alone(t) /\ at'[t] = "check" /\ job'[t] = job[t]
    BY <1>4, Moves DEF Base, Place
  <2>2. JobOK(t)'
    BY <1>1, <2>1 DEF Base, JobOK, H, Good, Holding, Scanned, storage
  <2>3. ServerOK' /\ \A u \in Task : JobOK(u)'
    BY <1>1, <2>1, <2>2, OneTask, CallUp DEF storage
  <2> QED
    BY <1>1, <1>2, <1>4, <2>1, <2>3 DEF Base
<1> QED
  BY <1>3, <1>4 DEF AwaitLock

LEMMA CheckBase == ASSUME Base, NEW t \in Task, Check(t) PROVE Base'
<1>1. /\ at[t] = "check" /\ want \in Head /\ lock' \in Task \cup {Free}
      /\ UNCHANGED <<git, crashes, storage, handles, history>>
  BY DEF Check, Release, Base, StoreOK
<1>2. want' \in Head => StoreOK' /\ tracked' = tracked
  BY <1>1, LockStore DEF Base, StoreOK, storage
<1>3. CASE LeaveTargeted(t)
  <2>1. TasksOK' /\ ServerOK' /\ want' \in Head /\ \A u \in Task : JobOK(u)'
    BY <1>1, <1>3, EndsBase, CallUp DEF storage
  <2> QED
    BY <1>2, <2>1 DEF Base
<1>4. CASE Go(t, "prune") /\ UNCHANGED <<job, want>>
  <2>1. TasksOK' /\ Alone(t) /\ at'[t] = "prune" /\ job'[t] = job[t]
    BY <1>4, Moves DEF Base, Place
  <2>2. JobOK(t)'
    BY <1>1, <2>1 DEF Base, JobOK, H, Good, Holding, Scanned, storage
  <2>3. ServerOK' /\ \A u \in Task : JobOK(u)'
    BY <1>1, <2>1, <2>2, OneTask, CallUp DEF storage
  <2> QED
    BY <1>1, <1>2, <1>4, <2>1, <2>3 DEF Base
<1> QED
  BY <1>3, <1>4 DEF Check

LEMMA ConfirmBase == ASSUME Base, NEW t \in Task, Confirm(t) PROVE Base'
<1>1. /\ at[t] = "confirm" /\ want \in Head /\ lock' \in Task \cup {Free}
      /\ torn' \subseteq Branch /\ tracked' = tracked
      /\ UNCHANGED <<git, crashes, tracked, rows, dirty, handles, history>>
  BY DEF Confirm, Release, Base, StoreOK, JobOK, Holding, Good, H, Db
<1>2. want' \in Head => StoreOK'
  BY <1>1, LockStore DEF Base, StoreOK
<1>3. CASE LeaveTargeted(t) \/ Abandon(t)
  <2>1. TasksOK' /\ ServerOK' /\ want' \in Head /\ \A u \in Task : JobOK(u)'
    BY <1>1, <1>3, EndsBase, CallUp
  <2> QED
    BY <1>2, <2>1 DEF Base
<1>4. CASE Go(t, IF job[t].mode = "sync" THEN "read" ELSE "write") /\ UNCHANGED <<job, want>>
  <2>1. /\ TasksOK' /\ Alone(t) /\ job'[t] = job[t]
        /\ at'[t] = IF job[t].mode = "sync" THEN "read" ELSE "write"
    BY <1>4, Moves DEF Base, Place
  <2>2. JobOK(t)'
    BY <1>1, <2>1 DEF Base, JobOK, H, Good, Holding, Scanned
  <2>3. ServerOK' /\ \A u \in Task : JobOK(u)'
    BY <1>1, <2>1, <2>2, OneTask, CallUp
  <2> QED
    BY <1>1, <1>2, <1>4, <2>1, <2>3 DEF Base
<1> QED
  BY <1>3, <1>4 DEF Confirm

-----------------------------------------------------------------------------
(* The writes, and the environment.                                        *)

\* How a write brings in rows of another checkout.
Cause == {"borrowed", "back", "late", "pruned"}

LEMMA CausesType == ASSUME NEW t, NEW p PROVE Causes(t, p) \subseteq Cause
  BY DEF Causes, Cause

LEMMA EnterStore ==
  ASSUME StoreOK, NEW b \in Branch, NEW rs \in SUBSET Tree, NEW causes \in SUBSET Cause,
         Enter(b, rs, causes)
  PROVE  /\ rows' \in [Branch -> SUBSET Tree]
         /\ foreign' \in [Branch -> SUBSET {"borrowed", "back", "late", "pruned", "copied"}]
         /\ rows'[b] = rs
         /\ foreign'[b] = IF Foreign(b, rs) = {} THEN {} ELSE foreign[b] \cup causes
         /\ \A c \in Branch : c # b => rows'[c] = rows[c] /\ foreign'[c] = foreign[c]
  BY DEF Enter, StoreOK, Cause

LEMMA WrittenType ==
  ASSUME Base, NEW t \in Task, at[t] = "write" PROVE Written(t) \in SUBSET Tree
<1>1. /\ Db(t) \in Branch /\ rows[Db(t)] \in SUBSET Tree
      /\ job[t].seen \in Tree /\ job[t].got \in Tree /\ job[t].mode \in Mode
  BY DEF Base, JobOK, Holding, Scanned, Good, H, Db, StoreOK, TasksOK, Job, Handle
<1>2. Fresh(Db(t), job[t].seen) \in SUBSET Tree
  BY <1>1 DEF Fresh
<1>3. CASE job[t].mode = "targeted"
  BY <1>1, <1>2, <1>3 DEF Written, Db
<1>4. CASE job[t].mode = "sync"
  BY <1>1, <1>4 DEF Written, Db
<1>5. CASE job[t].mode = "index"
  BY <1>1, <1>5 DEF Written, Db
<1> QED
  BY <1>1, <1>3, <1>4, <1>5 DEF Mode

LEMMA PruneBase == ASSUME Base, NEW t \in Task, Prune(t) PROVE Base'
<1>1. /\ at[t] = "prune" /\ want \in Head /\ Good(H(t)) /\ Db(t) \in Branch
      /\ rows[Db(t)] \cup {tree} \in SUBSET Tree
      /\ UNCHANGED <<git, crashes, tracked, torn, dirty, lock, handles, job, want, unmarked>>
  BY DEF Prune, Base, StoreOK, JobOK, Holding, Good, H, Db, Handle
<1>2. /\ rows' \in [Branch -> SUBSET Tree]
      /\ foreign' \in [Branch -> SUBSET {"borrowed", "back", "late", "pruned", "copied"}]
  <2>1. CASE UNCHANGED <<rows, foreign>>
    BY <2>1 DEF Base, StoreOK
  <2>2. CASE Enter(Db(t), rows[Db(t)] \cup {tree}, Causes(t, TRUE))
    BY <1>1, <2>2, EnterStore, CausesType DEF Base
  <2> QED
    BY <2>1, <2>2 DEF Prune
<1>3. StoreOK'
  BY <1>1, <1>2 DEF Base, StoreOK, git, handles
<1>4. TasksOK' /\ Alone(t) /\ at'[t] = "read" /\ job'[t] = job[t]
  BY <1>1, Moves DEF Prune, Base, Place
<1>5. JobOK(t)'
  BY <1>1, <1>4 DEF Base, JobOK, H, Good, Holding, Scanned
<1>6. ServerOK' /\ \A u \in Task : JobOK(u)'
  BY <1>1, <1>4, <1>5, OneTask, CallUp
<1> QED
  BY <1>3, <1>4, <1>6 DEF Base

LEMMA BeginBase == ASSUME Base, NEW t \in Task, Begin(t) PROVE Base'
<1>1. /\ at[t] = "begin" /\ want \in Head /\ Good(H(t)) /\ Db(t) \in Branch /\ job[t] \in Job
      /\ UNCHANGED <<git, crashes, tracked, torn, handles, unmarked>>
  BY DEF Begin, Base, StoreOK, TasksOK, JobOK, Holding, Good, H, Db, Handle
<1>2. CASE /\ lock' = t /\ dirty' = TRUE
           /\ IF job[t].mode = "index" THEN Enter(Db(t), {}, {}) ELSE UNCHANGED <<rows, foreign>>
           /\ Go(t, "scan") /\ UNCHANGED <<job, want>>
  <2>1. /\ rows' \in [Branch -> SUBSET Tree]
        /\ foreign' \in [Branch -> SUBSET {"borrowed", "back", "late", "pruned", "copied"}]
    <3>1. CASE UNCHANGED <<rows, foreign>>
      BY <3>1 DEF Base, StoreOK
    <3>2. CASE Enter(Db(t), {}, {})
      <4>1. {} \in SUBSET Tree /\ {} \in SUBSET Cause /\ StoreOK
        BY DEF Base
      <4> QED
        BY <1>1, <3>2, <4>1, EnterStore
    <3> QED
      BY <1>2, <3>1, <3>2
  <2>2. StoreOK'
    BY <1>1, <1>2, <2>1 DEF Base, StoreOK, git, handles
  <2>3. TasksOK' /\ Alone(t) /\ at'[t] = "scan" /\ job'[t] = job[t]
    BY <1>2, Moves DEF Base, Place
  <2>4. JobOK(t)'
    BY <1>1, <2>3 DEF Base, JobOK, H, Good, Holding, Scanned
  <2>5. ServerOK' /\ \A u \in Task : JobOK(u)'
    BY <1>1, <2>3, <2>4, OneTask, CallUp
  <2> QED
    BY <2>2, <2>3, <2>5 DEF Base
<1>3. CASE Abandon(t) /\ UNCHANGED <<lock, dirty, rows, foreign>>
  <2>1. Quiet
    BY <1>1, <1>3 DEF Quiet, storage, history
  <2> QED
    BY <1>1, <1>3, <2>1, QuietEnds
<1>4. CASE /\ Go(t, "opened") /\ Set(t, With(H(t), "targeted"))
           /\ UNCHANGED <<lock, dirty, rows, foreign, want>>
  <2>1. Quiet /\ want' \in Head
    BY <1>1, <1>4 DEF Quiet, storage, history
  <2>2. With(H(t), "targeted") \in Job /\ With(H(t), "targeted").handle = H(t)
        /\ With(H(t), "targeted").mode = "targeted"
    BY <1>1, WithJob DEF Mode, Good
  <2>3. TasksOK' /\ Alone(t) /\ at'[t] = "opened" /\ job'[t] = With(H(t), "targeted")
    BY <1>4, <2>2, MovesWith DEF Base, Place
  <2>4. JobOK(t)'
    BY <1>1, <2>2, <2>3 DEF JobOK, H, Good, Scanned
  <2> QED
    BY <1>1, <2>1, <2>3, <2>4, QuietBase, CallUp
<1> QED
  BY <1>2, <1>3, <1>4 DEF Begin

LEMMA WriteBase == ASSUME Base, NEW t \in Task, Write(t) PROVE Base'
<1>1. /\ at[t] = "write" /\ want \in Head /\ Good(H(t)) /\ Db(t) \in Branch /\ job[t] \in Job
      /\ Written(t) \in SUBSET Tree /\ Enter(Db(t), Written(t), Causes(t, FALSE))
      /\ UNCHANGED <<git, crashes, tracked, handles>>
  BY WrittenType DEF Write, Base, StoreOK, TasksOK, JobOK, Holding, Good, H, Db, Handle
<1>2. /\ rows' \in [Branch -> SUBSET Tree]
      /\ foreign' \in [Branch -> SUBSET {"borrowed", "back", "late", "pruned", "copied"}]
  BY <1>1, EnterStore, CausesType DEF Base
<1>3. /\ torn' \subseteq Branch /\ dirty' = FALSE /\ lock' \in Task \cup {Free}
      /\ unmarked' \in [Branch -> SUBSET {"targeted", "cleared", "copied"}]
  BY DEF Write, Release, Base, StoreOK
<1>4. want' \in Head => StoreOK'
  BY <1>1, <1>2, <1>3 DEF Base, StoreOK, git, handles
<1>5. CASE LeaveTargeted(t)
  <2>1. TasksOK' /\ ServerOK' /\ want' \in Head /\ \A u \in Task : JobOK(u)'
    BY <1>1, <1>5, EndsBase, CallUp
  <2> QED
    BY <1>4, <2>1 DEF Base
<1>6. ASSUME NEW p \in {"publish", "opened"}, Go(t, p), Set(t, With(H(t), "targeted")),
             UNCHANGED want
      PROVE  Base'
  <2>2. With(H(t), "targeted") \in Job /\ With(H(t), "targeted").handle = H(t)
        /\ With(H(t), "targeted").mode = "targeted"
    BY <1>1, WithJob DEF Mode, Good
  <2>3. TasksOK' /\ Alone(t) /\ at'[t] = p /\ job'[t] = With(H(t), "targeted")
    BY <1>6, <2>2, MovesWith DEF Base, Place
  <2>4. JobOK(t)'
    BY <1>1, <2>2, <2>3 DEF JobOK, H, Good, Scanned
  <2>5. ServerOK' /\ \A u \in Task : JobOK(u)'
    BY <1>1, <2>3, <2>4, OneTask, CallUp
  <2> QED
    BY <1>1, <1>4, <1>6, <2>3, <2>5 DEF Base
<1>7. job[t].mode \in Mode
  BY <1>1 DEF Job
<1> QED
  BY <1>5, <1>6, <1>7 DEF Write, Mode

\* A checkout changes no job but for what it remembers of checkouts.
Watching(t) ==
  at[t] \in {"prune", "scan", "confirm"} \/ (at[t] = "read" /\ job[t].mode # "sync")
Waiting(t) == at[t] = "read" /\ job[t].mode = "sync"

LEMMA CheckoutJobs ==
  ASSUME TasksOK, Checkout, NEW t \in Task
  PROVE  /\ job' \in [Task -> Job]
         /\ job'[t].handle = job[t].handle /\ job'[t].mode = job[t].mode
         /\ job'[t].seen = job[t].seen /\ job'[t].got = job[t].got
         /\ job'[t].hops = IF Watching(t) THEN IF job[t].hops = 0 THEN 1 ELSE 2
                           ELSE job[t].hops
         /\ job'[t].late = IF Waiting(t) THEN TRUE ELSE job[t].late
<1> DEFINE next(u) ==
      IF Waiting(u) THEN [job[u] EXCEPT !.late = TRUE]
      ELSE IF Watching(u) THEN [job[u] EXCEPT !.hops = IF @ = 0 THEN 1 ELSE 2]
      ELSE job[u]
<1>1. job' = [u \in Task |-> next(u)]
  BY DEF Checkout, Waiting, Watching
<1>2. \A u \in Task : job[u] \in Job
  BY DEF TasksOK
<1>3. ASSUME NEW u \in Task
      PROVE  /\ next(u) \in Job
             /\ next(u).handle = job[u].handle /\ next(u).mode = job[u].mode
             /\ next(u).seen = job[u].seen /\ next(u).got = job[u].got
             /\ next(u).hops = IF Watching(u) THEN IF job[u].hops = 0 THEN 1 ELSE 2
                               ELSE job[u].hops
             /\ next(u).late = IF Waiting(u) THEN TRUE ELSE job[u].late
  <2>1. CASE Waiting(u)
    <3>1. ~Watching(u)
      BY <2>1 DEF Waiting, Watching
    <3> QED
      BY <1>2, <2>1, <3>1, LateJob
  <2>2. CASE ~Waiting(u) /\ Watching(u)
    BY <1>2, <2>2, HopJob
  <2>3. CASE ~Waiting(u) /\ ~Watching(u)
    BY <1>2, <2>3
  <2> QED
    BY <2>1, <2>2, <2>3
<1> HIDE DEF next
<1> QED
  BY <1>1, <1>3

LEMMA CheckoutBase == Base /\ Checkout => Base'
<1> SUFFICES ASSUME Base, Checkout PROVE Base'
  OBVIOUS
<1>1. /\ TasksOK /\ at' = at /\ tracked' = tracked /\ UNCHANGED handles
  BY DEF Checkout, storage, Base
<1>2. TasksOK'
  BY <1>1, CheckoutJobs, Tasks DEF TasksOK
<1>3. tree' \in Tree /\ tree'.stamp <= checkouts' /\ checkouts' \in 0 .. MaxCheckouts
  <2>1. PICK h \in Head, s \in {0, 1} : tree' = [head |-> h, stamp |-> tree.stamp + s]
    BY DEF Checkout
  <2>2. tree.stamp \in 0 .. MaxCheckouts /\ tree.stamp <= checkouts
    BY DEF Base, StoreOK, Tree
  <2>3. checkouts' = checkouts + 1 /\ checkouts < MaxCheckouts /\ checkouts \in 0 .. MaxCheckouts
    BY DEF Checkout, Base, StoreOK
  <2>4. tree.stamp + s \in 0 .. MaxCheckouts /\ tree.stamp + s <= checkouts'
    BY <2>2, <2>3, ContextAssumption
  <2> QED
    BY <2>1, <2>3, <2>4, ContextAssumption DEF Tree
<1>4. StoreOK'
  BY <1>3 DEF Base, StoreOK, Checkout, storage, handles, history
<1>5. ASSUME NEW t \in Task PROVE JobOK(t)'
  BY <1>1, CheckoutJobs DEF Base, JobOK, H, Good, Holding, Scanned
<1>6. ServerOK'
  BY <1>1 DEF Base, ServerOK, Good, Up, handles
<1> QED
  BY <1>2, <1>4, <1>5, <1>6 DEF Base

\* Who holds the lock, and that nothing but a targeted sync holds it without
\* the sentinel.
Inside == {"check", "prune", "scan", "read", "confirm", "write"}
LockOK ==
  \A t \in Task :
    /\ lock = t <=> at[t] \in Inside
    /\ lock = t /\ job[t].mode # "targeted" => dirty

LEMMA CrashBase == Base /\ LockOK /\ Crash => Base'
<1> SUFFICES ASSUME Base, LockOK, Crash PROVE Base'
  OBVIOUS
<1> DEFINE t == lock
           cut == t # Free /\ (at[t] = "write" \/ job[t].mode = "index")
<1>1. TasksOK' /\ \A u \in Task : at'[u] \in Out
  BY IdleJob DEF Crash, TasksOK, Out, Place, Task
<1>2. lock' = Free /\ initial' = None /\ current' = None /\ want' = Detached
      /\ UNCHANGED <<git, tracked, dirty>> /\ crashes' \in 0 .. MaxCrashes
  BY ContextAssumption DEF Crash, Base, StoreOK
<1>3. /\ rows' \in [Branch -> SUBSET Tree] /\ torn' \subseteq Branch
      /\ foreign' \in [Branch -> SUBSET {"borrowed", "back", "late", "pruned", "copied"}]
      /\ unmarked' \in [Branch -> SUBSET {"targeted", "cleared", "copied"}]
  <2>1. CASE ~cut
    BY <2>1 DEF Crash, Base, StoreOK
  <2>2. CASE cut /\ at[t] = "write"
    <3>1. t \in Task /\ Good(H(t)) /\ Db(t) \in Branch /\ job[t].got \in Tree
      BY <2>2 DEF Base, StoreOK, JobOK, Holding, Good, H, Db, Handle
    <3>2. Enter(Db(t), rows[Db(t)] \cup {job[t].got}, Causes(t, FALSE))
      BY <2>2 DEF Crash
    <3>3. rows[Db(t)] \cup {job[t].got} \in SUBSET Tree
      BY <3>1 DEF Base, StoreOK
    <3>4. /\ rows' \in [Branch -> SUBSET Tree]
          /\ foreign' \in [Branch -> SUBSET {"borrowed", "back", "late", "pruned", "copied"}]
      BY <3>1, <3>2, <3>3, EnterStore, CausesType DEF Base
    <3> QED
      BY <2>2, <3>1, <3>4 DEF Crash, Base, StoreOK
  <2>3. CASE cut /\ at[t] # "write"
    <3>1. torn' = torn \cup {Db(t)} /\ UNCHANGED <<rows, foreign>>
          /\ unmarked' = IF job[t].mode = "targeted"
                         THEN [unmarked EXCEPT ![Db(t)] = @ \cup {"targeted"}]
                         ELSE unmarked
      BY <2>3 DEF Crash
    <3>2. Db(t) \in Branch
      <4>1. t \in Task
        BY <2>3 DEF Base, StoreOK
      <4>2. at[t] \in Inside
        BY <4>1 DEF LockOK
      <4>3. Good(H(t))
        BY <4>1, <4>2 DEF Base, JobOK, Inside, Holding
      <4>4. tracked \subseteq Branch
        BY DEF Base, StoreOK
      <4> QED
        BY <4>3, <4>4 DEF Good, H, Db
    <3> QED
      BY <3>1, <3>2 DEF Base, StoreOK
  <2> QED
    BY <2>1, <2>2, <2>3
<1>4. StoreOK'
  BY <1>2, <1>3, ContextAssumption DEF Base, StoreOK, git, Head
<1>5. ServerOK'
  BY <1>2, Tasks DEF ServerOK, Crash
<1> QED
  BY <1>1, <1>4, <1>5, OutJobNext DEF Base

LEMMA BaseNext == Base /\ LockOK /\ [Next]_vars => Base'
<1> SUFFICES ASSUME Base, LockOK, [Next]_vars PROVE Base'
  OBVIOUS
<1>1. CASE Start \/ Lease \/ StartLazy \/ Checkout \/ Crash
  BY <1>1, StartBase, LeaseBase, StartLazyBase, CheckoutBase, CrashBase
<1>2. CASE SwitchOpened \/ Publish \/ Answer \/ ServeOpened
  BY <1>2, SwitchOpenedBase, PublishBase, AnswerBase, ServeOpenedBase
<1>3. ASSUME NEW t \in Task, Open(t) \/ Sync(t) PROVE Base'
  BY <1>3, OpenBase, FindStaleBase, AwaitLockBase, CheckBase, PruneBase, BeginBase,
     ScanBase, ReadBase, ConfirmBase, WriteBase DEF Sync
<1>4. CASE UNCHANGED vars
  <2>1. Quiet /\ UNCHANGED <<at, job, want>>
    BY <1>4 DEF vars, Quiet
  <2>2. TasksOK' /\ Alone("own") /\ want' \in Head /\ tracked' = tracked
    BY <2>1 DEF Base, StoreOK, TasksOK, Alone, Quiet, storage
  <2>3. JobOK("own")'
    BY <2>1, <2>2, Tasks DEF Base, JobOK, H, Good, Scanned
  <2> QED
    BY <2>1, <2>2, <2>3, QuietBase, Tasks
<1> QED
  BY <1>1, <1>2, <1>3, <1>4, Tasks DEF Next, Call, Own

-----------------------------------------------------------------------------
(* The lock, and what a job remembers of checkouts.                        *)

\* What a job remembers tells whether the tree is, and what it read was, on the
\* handle's branch.
Before == {"opened", "stale", "wait", "check", "begin", "publish"}
WatchOK(t) ==
  LET j == job[t] B == job[t].handle.branch IN
  /\ at[t] \in Before => j.hops = 0 /\ j.late = FALSE
  /\ Watching(t) =>
       /\ j.hops = 0 => tree.head = B
       /\ j.hops = 1 => tree.head # B
       /\ at[t] \in {"read", "confirm"} /\ j.mode # "targeted" /\ j.hops = 0 =>
            j.seen = tree
       /\ at[t] = "confirm" /\ j.mode # "sync" /\ j.hops = 0 => j.got = tree
  /\ Waiting(t) =>
       /\ j.late \/ tree.head = B
       /\ j.hops = 2 \/ (j.seen.head = B /\ (j.late \/ tree = j.seen))
  /\ at[t] = "write" /\ j.mode = "sync" =>
       /\ j.late \/ j.got.head = B
       /\ j.hops = 2 \/ (j.seen.head = B /\ (j.late \/ j.got = j.seen))
  /\ at[t] = "write" /\ j.mode # "sync" /\ j.hops # 2 =>
       j.got.head = B /\ (j.mode = "index" => j.seen.head = B)

Watch == LockOK /\ \A t \in Task : WatchOK(t)

LEMMA InitWatch == Init => Watch
  BY ContextAssumption DEF Init, Watch, LockOK, WatchOK, Inside, Before, Watching, Waiting,
     Idle, With, Task

\* A task that is not reading or writing needs a fresh memory, or none.
LEMMA FreshWatch ==
  ASSUME NEW t \in Task, at'[t] \notin Inside \/ at'[t] = "check",
         at'[t] \in Out \cup {"open"} \/ (job'[t].hops = 0 /\ job'[t].late = FALSE)
  PROVE  WatchOK(t)'
  BY DEF WatchOK, Inside, Out, Before, Watching, Waiting

\* When one task steps the other's memory stays true.
LEMMA OthersWatch ==
  ASSUME Watch, NEW t \in Task, Alone(t), tree' = tree, WatchOK(t)'
  PROVE  \A u \in Task : WatchOK(u)'
<1>1. ASSUME NEW u \in Task, u # t PROVE WatchOK(u)'
  <2>1. at'[u] = at[u] /\ job'[u] = job[u] /\ WatchOK(u)
    BY <1>1 DEF Alone, Watch
  <2> QED
    BY <2>1 DEF WatchOK, Watching, Waiting
<1> QED
  BY <1>1

\* The three ways a step treats the lock: it keeps it, takes it or leaves it.
LEMMA LockKept ==
  ASSUME LockOK, NEW t \in Task, Alone(t), lock' = lock, dirty' = dirty,
         at'[t] \in Inside <=> at[t] \in Inside,
         at[t] \in Inside => job'[t].mode = job[t].mode
  PROVE  LockOK'
  BY DEF LockOK, Alone
LEMMA LockTaken ==
  ASSUME LockOK, NEW t \in Task, Alone(t), lock = Free, lock' = t,
         at'[t] \in Inside, job'[t].mode # "targeted" => dirty'
  PROVE  LockOK'
  BY ContextAssumption DEF LockOK, Alone
LEMMA LockLeft ==
  ASSUME LockOK, NEW t \in Task, Alone(t), Release(t), lock = t, at'[t] \notin Inside
  PROVE  LockOK'
  BY ContextAssumption DEF LockOK, Alone, Release

\* A step outside the lock.
LEMMA OutsideWatch ==
  ASSUME Watch, NEW t \in Task, Alone(t), tree' = tree, lock' = lock, dirty' = dirty,
         at[t] \notin Inside, at'[t] \notin Inside,
         at'[t] \in Out \cup {"open"} \/ (job'[t].hops = 0 /\ job'[t].late = FALSE)
  PROVE  Watch'
<1>1. LockOK'
  BY LockKept DEF Watch
<1>2. \A u \in Task : WatchOK(u)'
  BY FreshWatch, OthersWatch
<1> QED
  BY <1>1, <1>2 DEF Watch

\* Leaving an outside place for nowhere.
LEMMA OutsideEnds ==
  ASSUME Base, Watch, NEW t \in Task,
         Abandon(t) \/ LeaveTargeted(t) \/ (t = "call" /\ EndCall),
         tree' = tree, lock' = lock, dirty' = dirty, at[t] \notin Inside
  PROVE  Watch'
<1>1. Alone(t) /\ at'[t] \in Out
  BY Ends DEF Base, StoreOK
<1>2. at'[t] \notin Inside
  BY <1>1 DEF Out, Inside
<1> QED
  BY <1>1, <1>2, OutsideWatch

\* The handle of a place before the lock has no memory yet.
LEMMA BeforeFresh ==
  ASSUME Watch, NEW t \in Task, at[t] \in Before
  PROVE  job[t].hops = 0 /\ job[t].late = FALSE
  BY DEF Watch, WatchOK

LEMMA ServingWatch ==
  ASSUME Base, Watch, Start \/ Lease \/ StartLazy \/ Answer \/ ServeOpened \/ Publish
  PROVE  Watch'
<1>1. TasksOK /\ UNCHANGED <<tree, lock, dirty>>
  BY DEF Base, Start, Lease, StartLazy, Answer, ServeOpened, Publish, git, storage
<1>2. CASE Start
  <2>1. Alone("own") /\ at'["own"] = "open" /\ at["own"] = "down"
    BY <1>1, <1>2, Moves, Tasks DEF Start, Place
  <2> QED
    BY <1>1, <2>1, OutsideWatch, Tasks DEF Inside
<1>3. CASE Lease
  <2>1. CASE LeaseKeep \/ LeaseSwitch
    <3>1. Alone("call") /\ at'["call"] \in {"leased", "open"} /\ at["call"] = "idle"
      BY <1>1, <2>1, Moves, Tasks DEF LeaseKeep, LeaseSwitch, Place
    <3> QED
      BY <1>1, <3>1, OutsideWatch, Tasks DEF Inside, Out
  <2>2. CASE LeaseRefresh
    <3> DEFINE j == With(current, "targeted")
    <3>1. j \in Job /\ j.hops = 0 /\ j.late = FALSE
      BY WithJob DEF Mode, Base, StoreOK
    <3> HIDE DEF j
    <3>2. Go("call", "stale") /\ Set("call", j) /\ at["call"] = "idle"
      BY <2>2 DEF LeaseRefresh, j
    <3>3. Alone("call") /\ at'["call"] = "stale" /\ job'["call"] = j
      BY <1>1, <3>1, <3>2, MovesWith, Tasks DEF Place
    <3> QED
      BY <1>1, <3>1, <3>2, <3>3, OutsideWatch, Tasks DEF Inside
  <2> QED
    BY <1>3, <2>1, <2>2 DEF Lease
<1>4. CASE StartLazy
  <2> DEFINE j == With(initial, "targeted")
  <2>1. j \in Job /\ j.hops = 0 /\ j.late = FALSE
    BY WithJob DEF Mode, Base, StoreOK
  <2> HIDE DEF j
  <2>2. Go("own", "stale") /\ Set("own", j) /\ at["own"] = "idle"
    BY <1>4 DEF StartLazy, j
  <2>3. Alone("own") /\ at'["own"] = "stale" /\ job'["own"] = j
    BY <1>1, <2>1, <2>2, MovesWith, Tasks DEF Place
  <2> QED
    BY <1>1, <2>1, <2>2, <2>3, OutsideWatch, Tasks DEF Inside
<1>5. CASE Answer
  BY <1>1, <1>5, OutsideEnds, Tasks DEF Answer, Inside
<1>6. CASE ServeOpened
  <2>1. Alone("own") /\ at'["own"] = "stale" /\ job'["own"] = job["own"] /\ at["own"] = "opened"
    BY <1>1, <1>6, Moves, Tasks DEF ServeOpened, Place
  <2>2. job["own"].hops = 0 /\ job["own"].late = FALSE
    BY <2>1, BeforeFresh, Tasks DEF Before
  <2> QED
    BY <1>1, <2>1, <2>2, OutsideWatch, Tasks DEF Inside
<1>7. CASE Publish
  <2>1. CASE Go("call", "leased") /\ Set("call", Idle)
    <3>1. Alone("call") /\ at'["call"] = "leased" /\ at["call"] = "publish"
      BY <1>1, <1>7, <2>1, MovesWith, IdleJob, Tasks DEF Place, Publish
    <3> QED
      BY <1>1, <3>1, OutsideWatch, Tasks DEF Inside, Out
  <2>2. CASE EndCall
    BY <1>1, <1>7, <2>2, OutsideEnds, Tasks DEF Publish, Inside
  <2> QED
    BY <1>7, <2>1, <2>2 DEF Publish
<1> QED
  BY <1>2, <1>3, <1>4, <1>5, <1>6, <1>7

LEMMA SwitchOpenedWatch == Base /\ Watch /\ SwitchOpened => Watch'
<1> SUFFICES ASSUME Base, Watch, SwitchOpened PROVE Watch'
  OBVIOUS
<1>1. TasksOK /\ UNCHANGED <<tree, lock, dirty>> /\ at["call"] = "opened" /\ Good(H("call"))
  BY Tasks DEF Base, SwitchOpened, git, storage, JobOK, Holding
<1>2. CASE Go("call", "publish") /\ UNCHANGED <<job, want>>
  <2>1. Alone("call") /\ at'["call"] = "publish" /\ job'["call"] = job["call"]
    BY <1>1, <1>2, Moves, Tasks DEF Place
  <2>2. job["call"].hops = 0 /\ job["call"].late = FALSE
    BY <1>1, BeforeFresh, Tasks DEF Before
  <2> QED
    BY <1>1, <2>1, <2>2, OutsideWatch, Tasks DEF Inside
<1>3. CASE Go("call", "begin") /\ Set("call", With(H("call"), "sync"))
  <2> DEFINE j == With(H("call"), "sync")
  <2>1. j \in Job /\ j.hops = 0 /\ j.late = FALSE
    BY <1>1, WithJob DEF Mode, Good
  <2> HIDE DEF j
  <2>2. Go("call", "begin") /\ Set("call", j)
    BY <1>3 DEF j
  <2>3. Alone("call") /\ at'["call"] = "begin" /\ job'["call"] = j
    BY <1>1, <2>1, <2>2, MovesWith, Tasks DEF Place
  <2> QED
    BY <1>1, <2>1, <2>3, OutsideWatch, Tasks DEF Inside
<1>4. CASE EndCall
  BY <1>1, <1>4, OutsideEnds, Tasks DEF Inside
<1> QED
  BY <1>2, <1>3, <1>4 DEF SwitchOpened

LEMMA OpenWatch == ASSUME Base, Watch, NEW t \in Task, Open(t) PROVE Watch'
<1>1. /\ TasksOK /\ UNCHANGED <<tree, lock, dirty>> /\ at[t] = "open"
      /\ tracked' \subseteq Branch /\ Default \in tracked' /\ tree.head \in Head
  BY AutoTrackStore DEF Base, StoreOK, Open, git, Tree
<1>2. CASE Abandon(t)
  BY <1>1, <1>2, OutsideEnds DEF Inside
<1>3. ASSUME NEW h \in Resolved(tree.head, tracked'), NEW p \in {"opened", "begin"},
             Go(t, p), Set(t, With(h, IF p = "opened" THEN "targeted" ELSE "index"))
      PROVE  Watch'
  <2> DEFINE j == With(h, IF p = "opened" THEN "targeted" ELSE "index")
  <2>1. j \in Job /\ j.hops = 0 /\ j.late = FALSE
    BY <1>1, <1>3, ResolvedGood, WithJob DEF Mode
  <2> HIDE DEF j
  <2>2. Go(t, p) /\ Set(t, j)
    BY <1>3 DEF j
  <2>3. Alone(t) /\ at'[t] = p /\ job'[t] = j
    BY <1>1, <2>1, <2>2, MovesWith DEF Place
  <2> QED
    BY <1>1, <2>1, <2>3, OutsideWatch DEF Inside
<1> QED
  BY <1>2, <1>3, OpenTask

LEMMA FindStaleWatch == ASSUME Base, Watch, NEW t \in Task, FindStale(t) PROVE Watch'
<1>1. /\ TasksOK /\ UNCHANGED <<tree, lock, dirty>> /\ at[t] = "stale"
      /\ job[t] \in Job /\ tree \in Tree
  BY DEF Base, StoreOK, TasksOK, FindStale, git, storage
<1>2. CASE LeaveTargeted(t)
  BY <1>1, <1>2, OutsideEnds DEF Inside
<1>3. CASE Go(t, "wait") /\ Set(t, [job[t] EXCEPT !.seen = tree])
  <2> DEFINE j == [job[t] EXCEPT !.seen = tree]
  <2>1. j \in Job /\ j.hops = job[t].hops /\ j.late = job[t].late
    BY <1>1, SeenJob
  <2>2. j.hops = 0 /\ j.late = FALSE
    BY <1>1, <2>1, BeforeFresh DEF Before
  <2> HIDE DEF j
  <2>3. Go(t, "wait") /\ Set(t, j)
    BY <1>3 DEF j
  <2>4. Alone(t) /\ at'[t] = "wait" /\ job'[t] = j
    BY <1>1, <2>1, <2>3, MovesWith DEF Place
  <2> QED
    BY <1>1, <2>2, <2>4, OutsideWatch DEF Inside
<1> QED
  BY <1>2, <1>3 DEF FindStale

LEMMA AwaitLockWatch == ASSUME Base, Watch, NEW t \in Task, AwaitLock(t) PROVE Watch'
<1>1. /\ TasksOK /\ UNCHANGED <<tree, dirty>> /\ at[t] = "wait"
      /\ job[t].mode = "targeted"
  BY DEF Base, JobOK, AwaitLock, git, storage
<1>2. CASE lock' = lock /\ LeaveTargeted(t)
  BY <1>1, <1>2, OutsideEnds DEF Inside
<1>3. CASE lock = Free /\ lock' = t /\ Go(t, "check") /\ UNCHANGED job
  <2>1. Alone(t) /\ at'[t] = "check" /\ job'[t] = job[t]
    BY <1>1, <1>3, Moves DEF Place
  <2>2. LockOK'
    BY <1>1, <1>3, <2>1, LockTaken DEF Inside, Watch
  <2>3. \A u \in Task : WatchOK(u)'
    BY <1>1, <2>1, BeforeFresh, FreshWatch, OthersWatch DEF Before
  <2> QED
    BY <2>2, <2>3 DEF Watch
<1> QED
  BY <1>2, <1>3 DEF AwaitLock

\* Leaving an inside place.
LEMMA InsideEnds ==
  ASSUME Base, Watch, NEW t \in Task, Abandon(t) \/ LeaveTargeted(t), tree' = tree,
         Release(t), at[t] \in Inside
  PROVE  Watch'
<1>1. Alone(t) /\ at'[t] \in Out
  BY Ends DEF Base, StoreOK
<1>2. LockOK'
  BY <1>1, LockLeft DEF Watch, LockOK, Out, Inside
<1>3. \A u \in Task : WatchOK(u)'
  BY <1>1, FreshWatch, OthersWatch DEF Out, Inside
<1> QED
  BY <1>2, <1>3 DEF Watch

LEMMA CheckWatch == ASSUME Base, Watch, NEW t \in Task, Check(t) PROVE Watch'
<1>1. /\ TasksOK /\ UNCHANGED <<tree, dirty>> /\ at[t] = "check"
      /\ job[t].mode = "targeted" /\ job[t].hops = 0
  BY BeforeFresh DEF Base, JobOK, Check, git, storage, Before
<1>2. CASE Release(t) /\ LeaveTargeted(t)
  BY <1>1, <1>2, InsideEnds DEF Inside
<1>3. CASE OnCheckout(H(t)) /\ Go(t, "prune") /\ UNCHANGED <<lock, job>>
  <2>1. Alone(t) /\ at'[t] = "prune" /\ job'[t] = job[t]
    BY <1>1, <1>3, Moves DEF Place
  <2>2. LockOK'
    BY <1>1, <1>3, <2>1, LockKept DEF Inside, Watch
  <2>3. WatchOK(t)'
    BY <1>1, <1>3, <2>1 DEF WatchOK, Watching, Waiting, Before, OnCheckout, H
  <2> QED
    BY <1>1, <2>1, <2>2, <2>3, OthersWatch DEF Watch
<1> QED
  BY <1>2, <1>3 DEF Check

LEMMA PruneWatch == ASSUME Base, Watch, NEW t \in Task, Prune(t) PROVE Watch'
<1>1. /\ TasksOK /\ UNCHANGED <<tree, dirty, lock, job>> /\ at[t] = "prune"
      /\ job[t].mode = "targeted" /\ Go(t, "read") /\ WatchOK(t)
  BY DEF Base, JobOK, Prune, git, Watch
<1>2. Alone(t) /\ at'[t] = "read" /\ job'[t] = job[t]
  BY <1>1, Moves DEF Place
<1>3. LockOK'
  BY <1>1, <1>2, LockKept DEF Inside, Watch
<1>4. WatchOK(t)'
  BY <1>1, <1>2 DEF WatchOK, Watching, Waiting, Before
<1> QED
  BY <1>1, <1>2, <1>3, <1>4, OthersWatch DEF Watch

LEMMA BeginWatch == ASSUME Base, Watch, NEW t \in Task, Begin(t) PROVE Watch'
<1>1. /\ TasksOK /\ UNCHANGED tree /\ at[t] = "begin" /\ Good(H(t))
      /\ job[t].mode # "targeted" /\ job[t].hops = 0
  BY BeforeFresh DEF Base, JobOK, Begin, git, Before, Holding
<1>2. CASE Abandon(t) /\ UNCHANGED <<lock, dirty>>
  BY <1>1, <1>2, OutsideEnds DEF Inside
<1>3. CASE Go(t, "opened") /\ Set(t, With(H(t), "targeted")) /\ UNCHANGED <<lock, dirty>>
  <2> DEFINE j == With(H(t), "targeted")
  <2>1. j \in Job /\ j.hops = 0 /\ j.late = FALSE
    BY <1>1, WithJob DEF Mode, Good
  <2> HIDE DEF j
  <2>2. Go(t, "opened") /\ Set(t, j)
    BY <1>3 DEF j
  <2>3. Alone(t) /\ at'[t] = "opened" /\ job'[t] = j
    BY <1>1, <2>1, <2>2, MovesWith DEF Place
  <2> QED
    BY <1>1, <1>3, <2>1, <2>3, OutsideWatch DEF Inside
<1>4. CASE /\ lock = Free /\ OnCheckout(H(t)) /\ lock' = t /\ dirty' = TRUE
           /\ Go(t, "scan") /\ UNCHANGED job
  <2>1. Alone(t) /\ at'[t] = "scan" /\ job'[t] = job[t]
    BY <1>1, <1>4, Moves DEF Place
  <2>2. LockOK'
    BY <1>1, <1>4, <2>1, LockTaken DEF Inside, Watch
  <2>3. WatchOK(t)'
    BY <1>1, <1>4, <2>1 DEF WatchOK, Watching, Waiting, Before, OnCheckout, H
  <2> QED
    BY <1>1, <2>1, <2>2, <2>3, OthersWatch DEF Watch
<1> QED
  BY <1>2, <1>3, <1>4 DEF Begin

LEMMA ScanWatch == ASSUME Base, Watch, NEW t \in Task, Scan(t) PROVE Watch'
<1>1. /\ TasksOK /\ UNCHANGED <<tree, dirty, lock>> /\ at[t] = "scan" /\ WatchOK(t)
      /\ job[t] \in Job /\ job[t].mode # "targeted" /\ tree \in Tree
  BY DEF Base, StoreOK, TasksOK, JobOK, Scan, git, storage, Watch
<1> DEFINE j == [job[t] EXCEPT !.seen = tree]
           p == IF job[t].mode = "sync" THEN "confirm" ELSE "read"
<1>2. /\ j \in Job /\ j.seen = tree /\ j.handle = job[t].handle /\ j.mode = job[t].mode
      /\ j.hops = job[t].hops /\ j.late = job[t].late
  BY <1>1, SeenJob
<1>3. p \in {"confirm", "read"} /\ (p = "confirm" <=> job[t].mode = "sync")
  OBVIOUS
<1>4. Go(t, p) /\ Set(t, j)
  BY DEF Scan
<1> HIDE DEF j, p
<1>5. Alone(t) /\ at'[t] = p /\ job'[t] = j
  BY <1>1, <1>2, <1>3, <1>4, MovesWith DEF Place
<1>6. LockOK'
  BY <1>1, <1>2, <1>3, <1>5, LockKept DEF Inside, Watch
<1>7. WatchOK(t)'
  BY <1>1, <1>2, <1>3, <1>5 DEF WatchOK, Watching, Waiting, Before
<1> QED
  BY <1>1, <1>5, <1>6, <1>7, OthersWatch DEF Watch

LEMMA ReadWatch == ASSUME Base, Watch, NEW t \in Task, Read(t) PROVE Watch'
<1>1. /\ TasksOK /\ UNCHANGED <<tree, dirty, lock>> /\ at[t] = "read" /\ WatchOK(t)
      /\ job[t] \in Job /\ tree \in Tree
  BY DEF Base, StoreOK, TasksOK, Read, git, storage, Watch
<1> DEFINE j == [job[t] EXCEPT !.got = tree]
           p == IF job[t].mode = "sync" THEN "write" ELSE "confirm"
<1>2. /\ j \in Job /\ j.got = tree /\ j.handle = job[t].handle /\ j.mode = job[t].mode
      /\ j.hops = job[t].hops /\ j.late = job[t].late /\ j.seen = job[t].seen
  BY <1>1, GotJob
<1>3. p \in {"confirm", "write"} /\ (p = "write" <=> job[t].mode = "sync")
  OBVIOUS
<1>4. Go(t, p) /\ Set(t, j)
  BY DEF Read
<1> HIDE DEF j, p
<1>5. Alone(t) /\ at'[t] = p /\ job'[t] = j
  BY <1>1, <1>2, <1>3, <1>4, MovesWith DEF Place
<1>6. LockOK'
  BY <1>1, <1>2, <1>3, <1>5, LockKept DEF Inside, Watch
<1>7. WatchOK(t)'
  BY <1>1, <1>2, <1>3, <1>5 DEF WatchOK, Watching, Waiting, Before
<1> QED
  BY <1>1, <1>5, <1>6, <1>7, OthersWatch DEF Watch

LEMMA ConfirmWatch == ASSUME Base, Watch, NEW t \in Task, Confirm(t) PROVE Watch'
<1>1. /\ TasksOK /\ UNCHANGED <<tree, dirty>> /\ at[t] = "confirm" /\ WatchOK(t)
      /\ job[t] \in Job /\ job[t].hops \in 0 .. 2
  BY DEF Base, TasksOK, Job, Confirm, git, Watch
<1>2. CASE Release(t) /\ (Abandon(t) \/ LeaveTargeted(t))
  BY <1>1, <1>2, InsideEnds DEF Inside
<1> DEFINE p == IF job[t].mode = "sync" THEN "read" ELSE "write"
<1>3. CASE OnCheckout(H(t)) /\ Go(t, p) /\ UNCHANGED <<lock, job>>
  <2>1. p \in {"read", "write"} /\ (p = "read" <=> job[t].mode = "sync")
    OBVIOUS
  <2> HIDE DEF p
  <2>2. Alone(t) /\ at'[t] = p /\ job'[t] = job[t]
    BY <1>1, <1>3, <2>1, Moves DEF Place
  <2>3. LockOK'
    BY <1>1, <1>3, <2>1, <2>2, LockKept DEF Inside, Watch
  <2>4. tree.head = job[t].handle.branch /\ job[t].hops \in {0, 2}
    BY <1>1, <1>3 DEF WatchOK, Watching, OnCheckout, H
  <2>5. /\ job[t].mode # "targeted" /\ job[t].hops = 0 => job[t].seen = tree
        /\ job[t].mode # "sync" /\ job[t].hops = 0 => job[t].got = tree
    BY <1>1 DEF WatchOK, Watching
  <2>6. WatchOK(t)'
    BY <1>1, <2>1, <2>2, <2>4, <2>5 DEF WatchOK, Watching, Waiting, Before
  <2> QED
    BY <1>1, <2>2, <2>3, <2>6, OthersWatch DEF Watch
<1> QED
  BY <1>2, <1>3 DEF Confirm

LEMMA WriteWatch == ASSUME Base, Watch, NEW t \in Task, Write(t) PROVE Watch'
<1>1. /\ TasksOK /\ UNCHANGED tree /\ at[t] = "write" /\ Good(H(t)) /\ job[t] \in Job
      /\ Release(t)
  BY DEF Base, TasksOK, JobOK, Holding, Write, git
<1>2. CASE LeaveTargeted(t)
  BY <1>1, <1>2, InsideEnds DEF Inside
<1>3. ASSUME NEW p \in {"publish", "opened"}, Go(t, p), Set(t, With(H(t), "targeted"))
      PROVE  Watch'
  <2> DEFINE j == With(H(t), "targeted")
  <2>1. j \in Job /\ j.hops = 0 /\ j.late = FALSE
    BY <1>1, WithJob DEF Mode, Good
  <2> HIDE DEF j
  <2>2. Go(t, p) /\ Set(t, j)
    BY <1>3 DEF j
  <2>3. Alone(t) /\ at'[t] = p /\ job'[t] = j
    BY <1>1, <2>1, <2>2, MovesWith DEF Place
  <2>4. LockOK'
    BY <1>1, <2>3, LockLeft DEF Inside, Watch, LockOK
  <2>5. \A u \in Task : WatchOK(u)'
    BY <1>1, <2>1, <2>3, FreshWatch, OthersWatch DEF Inside
  <2> QED
    BY <2>4, <2>5 DEF Watch
<1>4. job[t].mode \in Mode
  BY <1>1 DEF Job
<1> QED
  BY <1>2, <1>3, <1>4 DEF Write, Mode

LEMMA CheckoutWatch == ASSUME Base, Watch, Checkout PROVE Watch'
<1>1. TasksOK /\ UNCHANGED <<at, lock, dirty>> /\ tree'.head # tree.head
  BY DEF Base, Checkout, storage
<1>2. ASSUME NEW t \in Task
      PROVE  WatchOK(t)' /\ (lock' = t <=> at'[t] \in Inside)
             /\ (lock' = t /\ job'[t].mode # "targeted" => dirty')
  <2>1. /\ job'[t].handle = job[t].handle /\ job'[t].mode = job[t].mode
        /\ job'[t].seen = job[t].seen /\ job'[t].got = job[t].got
        /\ job'[t].hops = IF Watching(t) THEN IF job[t].hops = 0 THEN 1 ELSE 2
                          ELSE job[t].hops
        /\ job'[t].late = IF Waiting(t) THEN TRUE ELSE job[t].late
    BY <1>1, CheckoutJobs
  <2>2. Watching(t)' = Watching(t) /\ Waiting(t)' = Waiting(t) /\ ~(Watching(t) /\ Waiting(t))
    BY <1>1, <2>1 DEF Watching, Waiting
  <2>3. WatchOK(t) /\ LockOK
    BY DEF Watch
  <2>4. CASE Watching(t)
    <3>2. at[t] \notin Before /\ at[t] # "write"
      BY <2>4 DEF Watching, Before
    <3>3. job'[t].hops # 0 /\ (job'[t].hops = 1 => tree.head = job[t].handle.branch)
      BY <2>1, <2>3, <2>4 DEF WatchOK
    <3> QED
      BY <1>1, <2>1, <2>2, <2>3, <2>4, <3>2, <3>3 DEF WatchOK, LockOK
  <2>5. CASE ~Watching(t) /\ Waiting(t)
    <3>1. at[t] \notin Before /\ at[t] # "write"
      BY <2>5 DEF Waiting, Before
    <3> QED
      BY <1>1, <2>1, <2>2, <2>3, <2>5, <3>1 DEF WatchOK, LockOK
  <2>6. CASE ~Watching(t) /\ ~Waiting(t)
    BY <1>1, <2>1, <2>2, <2>3, <2>6 DEF WatchOK, LockOK
  <2> QED
    BY <2>4, <2>5, <2>6
<1> QED
  BY <1>2 DEF Watch, LockOK

LEMMA CrashWatch == ASSUME Crash PROVE Watch'
<1>1. lock' = Free /\ at' = [t \in Task |-> IF t = "own" THEN "down" ELSE "idle"]
  BY DEF Crash
<1>2. ASSUME NEW t \in Task PROVE at'[t] \in {"down", "idle"}
  BY <1>1
<1>3. LockOK'
  BY <1>1, <1>2, ContextAssumption DEF LockOK, Inside
<1>4. ASSUME NEW t \in Task PROVE WatchOK(t)'
  BY <1>2, FreshWatch DEF Out, Inside
<1> QED
  BY <1>3, <1>4 DEF Watch

LEMMA WatchNext == ASSUME Base, Watch, [Next]_vars PROVE Watch'
<1>1. CASE Start \/ Lease \/ StartLazy \/ Answer \/ ServeOpened \/ Publish
  BY <1>1, ServingWatch
<1>2. CASE SwitchOpened \/ Checkout \/ Crash
  BY <1>2, SwitchOpenedWatch, CheckoutWatch, CrashWatch
<1>3. ASSUME NEW t \in Task, Open(t) \/ Sync(t) PROVE Watch'
  BY <1>3, OpenWatch, FindStaleWatch, AwaitLockWatch, CheckWatch, PruneWatch, BeginWatch,
     ScanWatch, ReadWatch, ConfirmWatch, WriteWatch DEF Sync
<1>4. CASE UNCHANGED vars
  BY <1>4 DEF vars, Watch, LockOK, WatchOK, Watching, Waiting, git, storage
<1> QED
  BY <1>1, <1>2, <1>3, <1>4, Tasks DEF Next, Call, Own

\* Every state has its types, the lock one holder, and true memories.
LEMMA BaseInvariant == Spec => [](Base /\ Watch)
<1>1. Init => Base /\ Watch
  BY InitBase, InitWatch
<1>2. Base /\ Watch /\ [Next]_vars => (Base /\ Watch)'
  BY BaseNext, WatchNext DEF Watch
<1> QED
  BY <1>1, <1>2, PTL DEF Spec

\* The type invariant, whatever branches, checkouts and kills there are.
THEOREM ContextTypeCorrect == Spec => []TypeOK
<1>1. Base => TypeOK
  BY TypeParts DEF Base
<1> QED
  BY <1>1, BaseInvariant, PTL

-----------------------------------------------------------------------------
(* Interrupted writes.                                                     *)

\* A database whose last write stopped in the middle is covered by the sentinel
\* but for the three named ways, for any number of kills.
LEMMA TornNext == ASSUME Base, Watch, TornIsMarked, [Next]_vars PROVE TornIsMarked'
<1>1. CASE UNCHANGED <<torn, dirty, unmarked>>
  BY <1>1 DEF TornIsMarked
<1>2. ASSUME NEW t \in Task, Open(t) PROVE TornIsMarked'
  <2>1. dirty' = dirty /\ AutoTrack
    BY <1>2 DEF Open
  <2>2. \A b \in torn' : (b \in torn /\ unmarked'[b] = unmarked[b]) \/ unmarked'[b] # {}
    BY <2>1 DEF AutoTrack, Base, StoreOK
  <2> QED
    BY <2>1, <2>2 DEF TornIsMarked
<1>3. ASSUME NEW t \in Task, Begin(t) PROVE TornIsMarked'
  BY <1>3 DEF Begin, TornIsMarked
<1>4. ASSUME NEW t \in Task, Confirm(t) PROVE TornIsMarked'
  <2>1. lock = t /\ dirty' = dirty /\ unmarked' = unmarked
    BY <1>4 DEF Watch, LockOK, Confirm, Inside, history
  <2>2. torn' = torn \/ (job[t].mode = "index" /\ dirty)
    BY <1>4, <2>1 DEF Confirm, Watch, LockOK
  <2> QED
    BY <2>1, <2>2 DEF TornIsMarked
<1>5. ASSUME NEW t \in Task, Write(t) PROVE TornIsMarked'
  BY <1>5 DEF Write, TornIsMarked, Base, StoreOK
<1>6. CASE Crash
  <2>1. CASE UNCHANGED <<torn, unmarked>>
    BY <1>6, <2>1 DEF Crash, TornIsMarked
  <2>2. CASE ~UNCHANGED <<torn, unmarked>>
    <3>1. /\ lock # Free /\ torn' = torn \cup {Db(lock)} /\ dirty' = dirty
          /\ unmarked' = IF job[lock].mode = "targeted"
                         THEN [unmarked EXCEPT ![Db(lock)] = @ \cup {"targeted"}]
                         ELSE unmarked
      BY <1>6, <2>2 DEF Crash
    <3>2. lock \in Task
      BY <3>1 DEF Base, StoreOK
    <3>3. job[lock].mode # "targeted" => dirty
      BY <3>2 DEF Watch, LockOK
    <3>4. \A b \in Branch : unmarked[b] \subseteq unmarked'[b]
      BY <3>1 DEF Base, StoreOK
    <3>5. torn' \subseteq Branch
      BY <1>6, BaseNext DEF Base, StoreOK, Watch, Next
    <3>6. job[lock].mode = "targeted" => unmarked'[Db(lock)] # {}
      BY <3>1, <3>5 DEF Base, StoreOK
    <3> QED
      BY <3>1, <3>3, <3>4, <3>5, <3>6 DEF TornIsMarked, Base, StoreOK
  <2> QED
    BY <2>1, <2>2
<1>7. ASSUME NEW t \in Task, Sync(t) PROVE TornIsMarked'
  BY <1>1, <1>3, <1>4, <1>5, <1>7 DEF Sync, FindStale, AwaitLock, Check, Prune, Scan, Read,
     storage, history
<1> QED
  BY <1>1, <1>2, <1>6, <1>7, Tasks DEF Next, Call, Own, vars, storage, history, Start, Lease,
     StartLazy, SwitchOpened, Publish, Answer, ServeOpened, Checkout

\* An interrupted write is found at the next open, but for the three named ways.
THEOREM TornDatabasesAreMarked == Spec => []TornIsMarked
<1>1. Init => TornIsMarked
  BY DEF Init, TornIsMarked
<1>2. Base /\ Watch /\ TornIsMarked /\ [Next]_vars => TornIsMarked'
  BY TornNext
<1> QED
  BY <1>1, <1>2, BaseInvariant, PTL DEF Spec

-----------------------------------------------------------------------------
(* Rows of other checkouts.                                                *)

\* Each of the memories of a job is a cause.
LEMMA SomeCause ==
  ASSUME NEW t \in Task, NEW p \in BOOLEAN
  PROVE  /\ job[t].hops = 2 => Causes(t, p) # {}
         /\ job[t].late => Causes(t, p) # {}
         /\ p /\ job[t].hops \in {1, 2} => Causes(t, p) # {}
<1>1. job[t].hops = 2 => "back" \in Causes(t, p)
  BY DEF Causes
<1>2. job[t].late => "late" \in Causes(t, p)
  BY DEF Causes
<1>3. p /\ job[t].hops \in {1, 2} => "pruned" \in Causes(t, p)
  BY DEF Causes
<1> QED
  BY <1>1, <1>2, <1>3

\* A row of another checkout that a write adds has a cause.
LEMMA WriteCause ==
  ASSUME Base, Watch, NEW t \in Task, at[t] = "write", Causes(t, FALSE) = {}
  PROVE  /\ job[t].got.head = Db(t)
         /\ job[t].mode # "targeted" => job[t].seen.head = Db(t)
         /\ job[t].mode = "sync" => job[t].got = job[t].seen
<1>1. WatchOK(t) /\ Good(H(t)) /\ job[t].hops # 2 /\ ~job[t].late /\ job[t].mode \in Mode
  BY SomeCause DEF Watch, Base, TasksOK, JobOK, Holding, Job
<1>2. ~H(t).fallback /\ Db(t) = job[t].handle.branch
  <2>1. H(t).fallback => "borrowed" \in Causes(t, FALSE)
    BY DEF Causes
  <2> QED
    BY <1>1, <2>1 DEF Good, Db, H
<1> QED
  BY <1>1, <1>2 DEF WatchOK, Mode

\* A database that a handle of its own may be published over: what it has of
\* other checkouts came in by more than the copy.
Fit(b) == Foreign(b, rows[b]) = {} \/ foreign[b] \ {"copied"} # {}

\* What a step must not spoil.
RowsKeep ==
  /\ ForeignRowsExplained => ForeignRowsExplained'
  /\ \A b \in tracked : Fit(b) => Fit(b)'

LEMMA SameRows == ASSUME UNCHANGED <<rows, foreign>> PROVE RowsKeep
  BY DEF RowsKeep, ForeignRowsExplained, Fit

\* A write that has a cause for what it adds spoils nothing.
LEMMA EnterKeeps ==
  ASSUME Base, NEW b \in Branch, NEW rs \in SUBSET Tree, NEW causes \in SUBSET Cause,
         Enter(b, rs, causes), causes = {} => Foreign(b, rs) \subseteq Foreign(b, rows[b])
  PROVE  RowsKeep
<1>1. /\ rows'[b] = rs
      /\ foreign'[b] = IF Foreign(b, rs) = {} THEN {} ELSE foreign[b] \cup causes
      /\ \A c \in Branch : c # b => rows'[c] = rows[c] /\ foreign'[c] = foreign[c]
  BY EnterStore DEF Base
<1>2. "copied" \notin causes
  BY DEF Cause
<1>3. ForeignRowsExplained => ForeignRowsExplained'
  <2>1. ASSUME ForeignRowsExplained, NEW c \in Branch, Foreign(c, rows'[c]) # {}
        PROVE  foreign'[c] # {}
    <3>1. CASE c # b
      BY <1>1, <2>1, <3>1 DEF ForeignRowsExplained
    <3>2. CASE c = b
      <4>1. foreign[b] # {} \/ causes # {}
        BY <1>1, <2>1, <3>2 DEF ForeignRowsExplained
      <4> QED
        BY <1>1, <2>1, <3>2, <4>1
    <3> QED
      BY <3>1, <3>2
  <2> QED
    BY <2>1 DEF ForeignRowsExplained
<1>4. ASSUME NEW c \in tracked, Fit(c) PROVE Fit(c)'
  <2>1. CASE c # b
    BY <1>1, <1>4, <2>1 DEF Fit, Base, StoreOK
  <2>2. CASE c = b /\ Foreign(b, rs) # {}
    <3>1. foreign[b] \ {"copied"} # {} \/ causes # {}
      BY <1>4, <2>2 DEF Fit
    <3> QED
      BY <1>1, <1>2, <2>2, <3>1 DEF Fit
  <2>3. CASE c = b /\ Foreign(b, rs) = {}
    BY <1>1, <2>3 DEF Fit
  <2> QED
    BY <2>1, <2>2, <2>3
<1> QED
  BY <1>3, <1>4 DEF RowsKeep

\* Only the pruning, the clearing, the writing and the copying change rows.
LEMMA RowsNext == ASSUME Base, Watch, [Next]_vars PROVE RowsKeep
<1>1. ASSUME NEW t \in Task, Open(t) PROVE RowsKeep
  <2>1. CASE UNCHANGED <<rows, foreign>>
    BY <2>1, SameRows
  <2>2. CASE ~UNCHANGED <<rows, foreign>>
    <3>1. /\ \A b \in tracked : rows'[b] = rows[b] /\ foreign'[b] = foreign[b]
          /\ \A b \in Branch : \/ rows'[b] = rows[b] /\ foreign'[b] = foreign[b]
                              \/ "copied" \in foreign'[b]
      BY <1>1, <2>2 DEF Open, AutoTrack, Base, StoreOK
    <3> QED
      BY <3>1 DEF RowsKeep, ForeignRowsExplained, Fit, Base, StoreOK
  <2> QED
    BY <2>1, <2>2
<1>2. ASSUME NEW t \in Task, Prune(t) PROVE RowsKeep
  <2>1. CASE UNCHANGED <<rows, foreign>>
    BY <2>1, SameRows
  <2>2. CASE Enter(Db(t), rows[Db(t)] \cup {tree}, Causes(t, TRUE))
    <3>1. at[t] = "prune" /\ WatchOK(t) /\ Good(H(t)) /\ job[t].hops \in 0 .. 2
      BY <1>2 DEF Prune, Watch, Base, TasksOK, Job, JobOK, Holding
    <3>2. Causes(t, TRUE) = {} => tree.head = Db(t)
      <4>1. H(t).fallback => "borrowed" \in Causes(t, TRUE)
        BY DEF Causes
      <4>2. Causes(t, TRUE) = {} => ~H(t).fallback /\ job[t].hops = 0
        <5>1. job[t].hops \in {1, 2} => Causes(t, TRUE) # {}
          BY SomeCause
        <5>2. job[t].hops \in {0, 1, 2}
          BY <3>1
        <5> QED
          BY <4>1, <5>1, <5>2
      <4>3. Causes(t, TRUE) = {} => Db(t) = job[t].handle.branch
        BY <3>1, <4>2 DEF Good, Db, H
      <4>4. job[t].hops = 0 => tree.head = job[t].handle.branch
        BY <3>1 DEF WatchOK, Watching
      <4> QED
        BY <4>2, <4>3, <4>4
    <3>3. Db(t) \in Branch /\ rows[Db(t)] \cup {tree} \in SUBSET Tree
      BY <3>1 DEF Base, StoreOK, Good, H, Db, Handle
    <3>4. Causes(t, TRUE) = {} =>
            Foreign(Db(t), rows[Db(t)] \cup {tree}) \subseteq Foreign(Db(t), rows[Db(t)])
      BY <3>2 DEF Foreign
    <3> QED
      BY <2>2, <3>3, <3>4, EnterKeeps, CausesType
  <2> QED
    BY <1>2, <2>1, <2>2 DEF Prune
<1>3. ASSUME NEW t \in Task, Begin(t) PROVE RowsKeep
  <2>1. CASE UNCHANGED <<rows, foreign>>
    BY <2>1, SameRows
  <2>2. CASE Enter(Db(t), {}, {})
    <3>1. Db(t) \in Branch /\ {} \in SUBSET Tree /\ {} \in SUBSET Cause /\ Foreign(Db(t), {}) = {}
      BY <1>3 DEF Begin, Base, StoreOK, JobOK, Holding, Good, H, Db, Handle, Foreign
    <3> QED
      BY <2>2, <3>1, EnterKeeps
  <2> QED
    BY <1>3, <2>1, <2>2 DEF Begin
<1>4. ASSUME NEW t \in Task, at[t] = "write", NEW rs \in SUBSET Tree,
             Enter(Db(t), rs, Causes(t, FALSE)),
             rs \subseteq rows[Db(t)] \cup {job[t].got} \cup
                          (IF job[t].mode = "targeted" THEN {} ELSE {job[t].seen})
      PROVE  RowsKeep
  <2>1. Db(t) \in Branch
    BY <1>4 DEF Base, StoreOK, JobOK, Holding, Good, H, Db, Handle
  <2>2. Causes(t, FALSE) = {} => Foreign(Db(t), rs) \subseteq Foreign(Db(t), rows[Db(t)])
    BY <1>4, WriteCause DEF Foreign
  <2> QED
    BY <1>4, <2>1, <2>2, EnterKeeps, CausesType
<1>5. ASSUME NEW t \in Task, Write(t) PROVE RowsKeep
  <2>1. at[t] = "write" /\ Enter(Db(t), Written(t), Causes(t, FALSE))
    BY <1>5 DEF Write
  <2>2. Written(t) \subseteq rows[Db(t)] \cup {job[t].got} \cup
                          (IF job[t].mode = "targeted" THEN {} ELSE {job[t].seen})
    <3>1. job[t].mode \in Mode
      BY DEF Base, TasksOK, Job
    <3>2. CASE job[t].mode = "targeted"
      BY <3>2 DEF Written, Fresh, Db
    <3>3. CASE job[t].mode = "sync"
      BY <3>3 DEF Written, Db
    <3>4. CASE job[t].mode = "index"
      BY <3>4 DEF Written, Db
    <3> QED
      BY <3>1, <3>2, <3>3, <3>4 DEF Mode
  <2> QED
    BY <1>4, <2>1, <2>2, WrittenType
<1>6. CASE Crash
  <2>1. CASE UNCHANGED <<rows, foreign>>
    BY <2>1, SameRows
  <2>2. CASE ~UNCHANGED <<rows, foreign>>
    <3> DEFINE rs == rows[Db(lock)] \cup {job[lock].got}
    <3>1. /\ lock # Free /\ at[lock] = "write"
          /\ Enter(Db(lock), rs, Causes(lock, FALSE))
      BY <1>6, <2>2 DEF Crash
    <3>2. lock \in Task
      BY <3>1 DEF Base, StoreOK
    <3>3. Db(lock) \in Branch /\ job[lock].got \in Tree
      BY <3>1, <3>2 DEF Base, StoreOK, JobOK, Holding, Good, H, Db, Handle
    <3>4. rs \in SUBSET Tree
      BY <3>3 DEF Base, StoreOK
    <3> QED
      BY <1>4, <3>1, <3>2, <3>4
  <2> QED
    BY <2>1, <2>2
<1>7. ASSUME NEW t \in Task, Sync(t) PROVE RowsKeep
  BY <1>2, <1>3, <1>5, <1>7, SameRows DEF Sync, FindStale, AwaitLock, Check, Scan, Read,
     Confirm, storage, history
<1> QED
  BY <1>1, <1>6, <1>7, SameRows, Tasks DEF Next, Call, Own, vars, storage, history, Start,
     Lease, StartLazy, SwitchOpened, Publish, Answer, ServeOpened, Checkout

\* However many branches, checkouts and kills: rows of another branch come into
\* a database only in the five named ways.
THEOREM ForeignRowsAreExplained == Spec => []ForeignRowsExplained
<1>1. Init => ForeignRowsExplained
  BY DEF Init, ForeignRowsExplained, Foreign
<1>2. Base /\ Watch /\ ForeignRowsExplained /\ [Next]_vars => ForeignRowsExplained'
  BY RowsNext DEF RowsKeep
<1> QED
  BY <1>1, <1>2, BaseInvariant, PTL DEF Spec

-----------------------------------------------------------------------------
(* What the lease publishes.                                               *)

\* A call about to publish a handle of its own found its database fit.
PublishOK ==
  at["call"] = "publish" /\ ~H("call").fallback /\ want # Detached => Fit(Db("call"))

\* A full sync leaves its database fit, however much it held of its parent.
LEMMA SyncFits ==
  ASSUME Base, Watch, NEW t \in Task, at[t] = "write", job[t].mode = "sync", Write(t),
         NEW b \in Branch, b = Db(t)
  PROVE  Fit(b)'
<1>1. PICK rs \in SUBSET Tree, causes \in SUBSET Cause :
        rs = Written(t) /\ causes = Causes(t, FALSE) /\ Enter(b, rs, causes)
  BY WrittenType, CausesType DEF Write
<1>2. /\ rows'[b] = Written(t)
      /\ foreign'[b] = IF Foreign(b, Written(t)) = {} THEN {}
                       ELSE foreign[b] \cup Causes(t, FALSE)
  BY <1>1, EnterStore DEF Base
<1>3. CASE Causes(t, FALSE) = {}
  <2>1. job[t].seen.head = b /\ job[t].got = job[t].seen
    BY <1>3, WriteCause
  <2>2. Foreign(b, Written(t)) = {}
    BY <2>1 DEF Written, Foreign
  <2> QED
    BY <1>2, <2>2 DEF Fit
<1>4. CASE Causes(t, FALSE) # {}
  <2>1. PICK c \in Causes(t, FALSE) : c # "copied"
    BY <1>4, CausesType DEF Cause
  <2>2. Foreign(b, rows'[b]) = {} \/ c \in foreign'[b] \ {"copied"}
    BY <1>2, <2>1
  <2> QED
    BY <2>2 DEF Fit
<1> QED
  BY <1>3, <1>4

\* The server's own task leaves the call alone.
LEMMA OwnAlone ==
  ASSUME TasksOK, Start \/ StartLazy \/ Own
  PROVE  at'["call"] = at["call"] /\ job'["call"] = job["call"] /\ want' = want
<1>1. \A p : Go("own", p) => at'["call"] = at["call"]
  BY Tasks DEF Go, TasksOK
<1>2. \A j : Set("own", j) => job'["call"] = job["call"]
  BY Tasks DEF Set, TasksOK
<1>3. Abandon("own") \/ LeaveTargeted("own") =>
        at'["call"] = at["call"] /\ job'["call"] = job["call"] /\ want' = want
  BY <1>1, <1>2 DEF Abandon, LeaveTargeted
<1>4. CASE Start \/ StartLazy \/ ServeOpened \/ Open("own")
  BY <1>1, <1>2, <1>3, <1>4 DEF Start, StartLazy, ServeOpened, Open
<1>5. CASE FindStale("own") \/ AwaitLock("own") \/ Check("own") \/ Prune("own") \/ Begin("own")
  BY <1>1, <1>2, <1>3, <1>5 DEF FindStale, AwaitLock, Check, Prune, Begin
<1>6. CASE Scan("own") \/ Read("own") \/ Confirm("own")
  BY <1>1, <1>2, <1>3, <1>6 DEF Scan, Read, Confirm
<1>7. CASE Write("own")
  <2>1. job["own"].mode \in Mode
    BY Tasks DEF TasksOK, Job
  <2> QED
    BY <1>1, <1>2, <1>3, <1>7, <2>1 DEF Write, Mode
<1> QED
  BY <1>4, <1>5, <1>6, <1>7 DEF Own, Sync

\* A call gets ready to publish only after the open or after its sync.
LEMMA CallPlace ==
  ASSUME TasksOK, Lease \/ Publish \/ Answer \/ Open("call") \/ FindStale("call")
           \/ AwaitLock("call") \/ Check("call") \/ Prune("call") \/ Begin("call")
           \/ Scan("call") \/ Read("call") \/ Confirm("call")
  PROVE  at'["call"] # "publish"
<1>1. \A p : Go("call", p) => at'["call"] = p
  BY Tasks DEF Go, TasksOK
<1>2. Abandon("call") \/ LeaveTargeted("call") \/ EndCall => at'["call"] # "publish"
  BY <1>1 DEF Abandon, LeaveTargeted, EndCall
<1>3. CASE Lease \/ Publish \/ Answer \/ Open("call")
  BY <1>1, <1>2, <1>3 DEF Lease, LeaseKeep, LeaseRefresh, LeaseSwitch, Publish, Answer, Open
<1>4. CASE FindStale("call") \/ AwaitLock("call") \/ Check("call") \/ Prune("call")
           \/ Begin("call")
  BY <1>1, <1>2, <1>4 DEF FindStale, AwaitLock, Check, Prune, Begin
<1>5. CASE Scan("call") \/ Read("call") \/ Confirm("call")
  BY <1>1, <1>2, <1>5 DEF Scan, Read, Confirm
<1> QED
  BY <1>3, <1>4, <1>5

LEMMA PublishNext == ASSUME Base, Watch, PublishOK, [Next]_vars PROVE PublishOK'
<1>1. ASSUME at'["call"] = at["call"], job'["call"].handle = job["call"].handle, want' = want
      PROVE  PublishOK'
  <2>1. at["call"] = "publish" => Db("call") \in tracked
    BY Tasks DEF Base, JobOK, Holding, Good, H, Db
  <2> DEFINE b == Db("call")
  <2>2. \A c \in tracked : Fit(c) => Fit(c)'
    BY RowsNext DEF RowsKeep
  <2> QED
    BY <1>1, <2>1, <2>2 DEF PublishOK, H, Db, Fit
<1>2. ASSUME at'["call"] # "publish" PROVE PublishOK'
  BY <1>2 DEF PublishOK
<1>3. CASE Start \/ StartLazy \/ Own
  BY <1>1, <1>3, OwnAlone DEF Base
<1>4. CASE Lease \/ (Call /\ ~SwitchOpened /\ ~Write("call"))
  BY <1>2, <1>4, CallPlace DEF Base, Call, Sync
<1>5. CASE SwitchOpened
  <2>1. CASE /\ H("call").fallback \/ want = Detached
             /\ UNCHANGED <<job, want>>
    BY <2>1 DEF PublishOK, H
  <2>2. CASE EndCall \/ Go("call", "begin")
    BY <1>2, <2>2, Tasks DEF EndCall, Go, Base, TasksOK
  <2> QED
    BY <1>5, <2>1, <2>2 DEF SwitchOpened
<1>6. CASE Write("call")
  <2>1. /\ Good(H("call")) /\ Db("call") \in Branch /\ at["call"] = "write"
        /\ job["call"].mode \in Mode
    BY <1>6, Tasks DEF Write, Base, StoreOK, TasksOK, Job, JobOK, Holding, Good, H, Db, Handle
  <2>2. CASE job["call"].mode # "sync"
    BY <1>2, <1>6, <2>1, <2>2, Tasks DEF Write, Mode, LeaveTargeted, Go, Base, TasksOK
  <2>3. CASE job["call"].mode = "sync"
    <3>1. job'["call"].handle = H("call")
      BY <1>6, <2>3, Tasks DEF Write, Set, With, Base, TasksOK
    <3> DEFINE b == Db("call")
    <3>2. \A c \in Branch : c = Db("call") => Fit(c)'
      BY <1>6, <2>1, <2>3, SyncFits, Tasks
    <3> QED
      BY <2>1, <3>1, <3>2 DEF PublishOK, H, Db, Fit
  <2> QED
    BY <2>2, <2>3
<1>7. CASE Checkout
  BY <1>1, <1>7, CheckoutJobs, Tasks DEF Checkout, Base
<1>8. CASE Crash
  BY <1>2, <1>8, Tasks DEF Crash
<1>9. CASE UNCHANGED vars
  BY <1>1, <1>9 DEF vars
<1> QED
  BY <1>3, <1>4, <1>5, <1>6, <1>7, <1>8, <1>9 DEF Next, Call, Sync

\* Whatever the branches and the checkouts: lease publishes a handle for the
\* branch that is checked out, and a handle of its own over a database whose
\* rows of other branches, if any, came in by more than the copy.
THEOREM PublishedHandlesFit == Spec => PublishedFits
<1> DEFINE Fits == current' # current /\ current' # None =>
                     /\ OnCheckout(current')
                     /\ \/ current'.fallback \/ Foreign(current'.db, rows[current'.db]) = {}
                        \/ foreign[current'.db] \ {"copied"} # {}
<1>1. Init => PublishOK
  BY DEF Init, PublishOK
<1>2. Base /\ Watch /\ PublishOK /\ [Next]_vars => PublishOK'
  BY PublishNext
<1>3. Spec => []PublishOK
  BY <1>1, <1>2, BaseInvariant, PTL DEF Spec
<1>4. ASSUME Base, PublishOK, Next PROVE Fits
  <2>1. CASE Publish
    <3>1. ASSUME current' # current
          PROVE  /\ at["call"] = "publish" /\ current' = H("call") /\ tree.head = want
                 /\ H("call").branch = want /\ Good(H("call"))
      BY <1>4, <2>1, <3>1, Tasks DEF Publish, Base, JobOK, Holding
    <3>2. ASSUME current' # current PROVE H("call").fallback \/ Fit(Db("call"))
      <4>1. want = Detached => H("call").fallback
        BY <3>1, <3>2, ContextAssumption DEF Good, Handle
      <4> QED
        BY <1>4, <3>1, <3>2, <4>1 DEF PublishOK
    <3> QED
      BY <3>1, <3>2 DEF OnCheckout, Fit, Db, H
  <2>2. CASE ~Publish
    <3>1. UNCHANGED current \/ current' = None
      BY <1>4, <2>2 DEF Next, Call, Own, Sync, Start, Lease, StartLazy, Open, SwitchOpened, Answer,
         ServeOpened, FindStale, AwaitLock, Check, Prune, Begin, Scan, Read, Confirm,
         Write, Checkout, Crash, handles
    <3> QED
      BY <3>1
  <2> QED
    BY <2>1, <2>2
<1>5. Base /\ PublishOK /\ [Next]_vars => [Fits]_vars
  BY <1>4
<1> QED
  BY <1>3, <1>5, BaseInvariant, PTL DEF Spec, PublishedFits

=============================================================================
