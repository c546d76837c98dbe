---------------------------- MODULE BranchContext ----------------------------
(***************************************************************************)
(* Which database a server reads and writes while git changes the branch   *)
(* under it: BranchRuntime::lease (src/src/tokensave/runtime.rs), the      *)
(* handles that TokenSave::open_with makes (tokensave/mod.rs), and the     *)
(* three ways a handle writes (tokensave/indexing.rs): a targeted sync, a  *)
(* full sync and the full index of a recovery, each comparing the checkout *)
(* with its handle at two places of its own (ensure_current_checkout).     *)
(*                                                                         *)
(* One server has two tasks: "call", the tool call that holds the branch   *)
(* lease (the others queue for it), and "own", which starts the server and *)
(* then runs its catch-up and lazy syncs on the handle of the start.  The  *)
(* server may be killed at any step and started again.                     *)
(*                                                                         *)
(* The files of the tree, and the rows of a database, are abstracted to    *)
(* the states of the tree they were read from: a branch and a second.  A   *)
(* database that mixes two checkouts holds rows of both.                   *)
(***************************************************************************)
EXTENDS Integers, FiniteSets

CONSTANTS
  Branch,        \* the local branches
  Default,       \* the default branch: always has a database
  Detached,      \* what HEAD names when it names no branch
  MaxCheckouts,  \* bound on the checkouts of a behaviour
  MaxCrashes,    \* bound on the times the server is killed
  None,          \* no handle
  Free           \* nobody holds the sync lock

Head == Branch \cup {Detached}
Task == {"call", "own"}
Mode == {"targeted", "sync", "index"}

\* A state of the working tree: its checkout and the mtime of its files.
Tree == [head : Head, stamp : 0 .. MaxCheckouts]
\* A TokenSave: active_branch, the branch that serves it, and whether
\* fallback_warning is set.
Handle == [branch : Head, db : Branch, fallback : BOOLEAN]

ASSUME ContextAssumption ==
  /\ Default \in Branch /\ Detached \notin Branch
  /\ MaxCheckouts \in Nat /\ MaxCrashes \in Nat
  /\ Free \notin Task /\ None \notin Handle

VARIABLES
  tree,       \* the working tree
  checkouts,  \* checkouts so far
  crashes,    \* kills so far
  tracked,    \* the branches with a database of their own
  rows,       \* per database: the states of the tree its rows come from
  torn,       \* the databases whose last write stopped in the middle
  dirty,      \* the project's dirty sentinel
  lock,       \* the holder of the sync lock
  initial,    \* the server's startup handle; None while the server is down
  current,    \* BranchRuntime.current
  at,         \* per task: where it is
  job,        \* per task: the handle it works on and what it has read
  want,       \* the branch lease read first
  foreign,    \* per database: how rows of other checkouts came into it
  unmarked    \* per torn database: how the sentinel came to miss it

storage == <<tracked, rows, torn, dirty>>
history == <<foreign, unmarked>>
handles == <<initial, current>>
git == <<tree, checkouts>>
vars == <<git, crashes, storage, lock, handles, at, job, want, history>>

Place ==
  {"down", "idle", "open", "opened", "begin", "scan", "stale", "wait", "check",
   "prune", "read", "confirm", "write", "publish", "leased"}

\* A job also remembers the checkouts between its two checks (2 for more) and
\* whether one came between the second check and the reading.
With(h, mode) == [handle |-> h, mode |-> mode, seen |-> None, got |-> None,
                  hops |-> 0, late |-> FALSE]
Job == [handle : Handle \cup {None}, mode : Mode, seen : Tree \cup {None},
        got : Tree \cup {None}, hops : 0 .. 2, late : BOOLEAN]
Idle == With(None, "targeted")

Init ==
  /\ tree \in [head : Head, stamp : {0}] /\ checkouts = 0 /\ crashes = 0
  /\ tracked \in {T \in SUBSET Branch : Default \in T}
  /\ rows = [b \in Branch |->
               IF b \in tracked THEN {[head |-> b, stamp |-> 0]} ELSE {}]
  /\ torn = {} /\ dirty = FALSE /\ lock = Free
  /\ initial = None /\ current = None
  /\ at = [t \in Task |-> IF t = "own" THEN "down" ELSE "idle"]
  /\ job = [t \in Task |-> Idle] /\ want = Detached
  /\ foreign = [b \in Branch |-> {}] /\ unmarked = [b \in Branch |-> {}]

-----------------------------------------------------------------------------
(* The tests the code makes.                                               *)

Up == initial # None
Serving == IF current # None THEN current ELSE initial
H(t) == job[t].handle
Db(t) == job[t].handle.db

\* ensure_current_checkout: the checkout is the one the handle was opened on.
OnCheckout(h) == tree.head = h.branch

\* branch_drift: the tree is on another branch that has its own database.
Drifted(h) == tree.head # h.db /\ tree.head \in tracked

\* resolve_db_for_branch: an untracked branch borrows a tracked one's
\* database, a detached HEAD the default's.
Resolved(head, T) ==
  IF head \in T THEN {[branch |-> head, db |-> head, fallback |-> FALSE]}
  ELSE {[branch |-> head, db |-> b, fallback |-> TRUE] :
          b \in IF head = Detached THEN {Default} ELSE T}

Foreign(b, rs) == {r \in rs : r.head # b}

-----------------------------------------------------------------------------
(* How a task ends, with success or without.                               *)

Go(t, place) == at' = [at EXCEPT ![t] = place]
Set(t, j) == job' = [job EXCEPT ![t] = j]
Release(t) == lock' = IF lock = t THEN Free ELSE lock

\* The call answers with an error or with its result; the lease is released.
EndCall ==
  /\ Go("call", "idle") /\ Set("call", Idle) /\ want' = Detached

\* An error: the call reports it, a server that cannot open exits, and a
\* background sync logs it.
Abandon(t) ==
  IF t = "call" THEN EndCall
  ELSE Go(t, IF Up THEN "idle" ELSE "down") /\ Set(t, Idle) /\ UNCHANGED want

\* sync_if_stale_silent returns Ok whether it wrote or not.
LeaveTargeted(t) ==
  /\ IF t = "call" THEN Go(t, "leased") ELSE Go(t, "idle")
  /\ Set(t, Idle) /\ UNCHANGED want

-----------------------------------------------------------------------------
(* Opening a handle and the lease.                                         *)

\* main.rs: the server process starts and opens the project.
Start ==
  /\ at["own"] = "down" /\ Go("own", "open")
  /\ UNCHANGED <<git, crashes, storage, lock, handles, job, want, history>>

\* lease: the call takes the mutex and compares the checkout with the handle
\* that serves.  On a match it goes on, after a targeted sync when 30 s have
\* passed on a handle of its own; otherwise it opens the project again.
LeaseKeep ==
  /\ Up /\ at["call"] = "idle" /\ OnCheckout(Serving)
  /\ Go("call", "leased") /\ UNCHANGED job
LeaseRefresh ==
  /\ Up /\ at["call"] = "idle" /\ OnCheckout(Serving)
  /\ current # None /\ ~current.fallback
  /\ Go("call", "stale") /\ Set("call", With(current, "targeted"))
\* Mutant of LeaseSwitch: a HEAD that names no branch is not a mismatch.
LeaseSwitch_Named ==
  /\ Up /\ at["call"] = "idle" /\ ~OnCheckout(Serving) /\ tree.head # Detached
  /\ Go("call", "open") /\ UNCHANGED job
LeaseSwitch ==
  /\ Up /\ at["call"] = "idle" /\ ~OnCheckout(Serving)
  /\ Go("call", "open") /\ UNCHANGED job
Lease ==
  /\ LeaseKeep \/ LeaseRefresh \/ LeaseSwitch
  /\ want' = tree.head
  /\ UNCHANGED <<git, crashes, storage, lock, handles, history>>

\* The auto-track of open_with: an untracked branch gets a copy of a tracked
\* one's database.  It is off by configuration, or fails, at any time.  A copy
\* taken while the parent is written holds half of that write.
TornIn(b) ==
  {b \in torn} \cup
  {lock # Free /\ Db(lock) = b /\
     (at[lock] = "write" \/ job[lock].mode = "index")}
AutoTrack ==
  \/ UNCHANGED <<tracked, rows, torn, foreign, unmarked>>
  \/ /\ tree.head \in Branch \ tracked
     /\ \E parent \in tracked : \E half \in TornIn(parent) :
          LET b == tree.head IN
          /\ tracked' = tracked \cup {b}
          /\ rows' = [rows EXCEPT ![b] = rows[parent]]
          /\ foreign' = [foreign EXCEPT ![b] = {"copied"} \cup foreign[parent]]
          /\ torn' = IF half THEN torn \cup {b} ELSE torn
          /\ unmarked' = IF half THEN [unmarked EXCEPT ![b] = {"copied"}]
                         ELSE unmarked

\* open_with: track, resolve, and look at the sentinel.  A sentinel that no
\* running sync owns asks for a full index, which a handle that borrows its
\* database refuses.
Open(t) ==
  /\ at[t] = "open" /\ AutoTrack
  /\ \E h \in Resolved(tree.head, tracked') :
       \/ /\ dirty => lock # Free
          /\ Go(t, "opened") /\ Set(t, With(h, "targeted"))
          /\ UNCHANGED want
       \/ /\ dirty /\ lock = Free /\ h.db = h.branch
          /\ Go(t, "begin") /\ Set(t, With(h, "index")) /\ UNCHANGED want
       \/ /\ dirty /\ lock = Free /\ h.db # h.branch
          /\ Abandon(t)
  /\ UNCHANGED <<git, crashes, dirty, lock, handles>>

\* The server serves what it opened, and catches up on it.
ServeOpened ==
  /\ at["own"] = "opened" /\ initial' = H("own")
  /\ Go("own", "stale") /\ UNCHANGED job
  /\ UNCHANGED <<git, crashes, storage, lock, current, want, history>>

\* lease after the open: only a handle of its own is synced, and only if
\* find_stale_files_bounded allows a sync at all.
SwitchOpened ==
  /\ at["call"] = "opened"
  /\ \/ /\ H("call").fallback \/ want = Detached
        /\ Go("call", "publish") /\ UNCHANGED <<job, want>>
     \/ /\ ~H("call").fallback /\ want # Detached
        /\ ~Drifted(H("call")) /\ rows[Db("call")] # {}
        /\ Go("call", "begin") /\ Set("call", With(H("call"), "sync"))
        /\ UNCHANGED want
     \/ /\ ~H("call").fallback /\ want # Detached
        /\ Drifted(H("call")) \/ rows[Db("call")] = {}
        /\ EndCall
  /\ UNCHANGED <<git, crashes, storage, lock, handles, history>>

\* The second comparison of lease, and the publication.
Publish ==
  /\ at["call"] = "publish"
  /\ \/ /\ tree.head = want /\ H("call").branch = want
        /\ current' = H("call")
        /\ Go("call", "leased") /\ Set("call", Idle) /\ UNCHANGED want
     \/ /\ tree.head # want \/ H("call").branch # want
        /\ EndCall /\ UNCHANGED current
  /\ UNCHANGED <<git, crashes, storage, lock, initial, history>>

\* maybe_sync_if_stale: a call on the startup handle that is not refused for
\* drift starts the lazy sync of that handle and waits for it or not.
StartLazy ==
  /\ at["call"] = "leased" /\ current = None /\ ~Drifted(initial)
  /\ at["own"] = "idle"
  /\ Go("own", "stale") /\ Set("own", With(initial, "targeted"))
  /\ UNCHANGED <<git, crashes, storage, lock, handles, want, history>>

\* The tool runs, or is refused for drift; nothing here depends on which.
Answer ==
  /\ at["call"] = "leased" /\ EndCall
  /\ UNCHANGED <<git, crashes, storage, lock, handles, history>>

-----------------------------------------------------------------------------
(* The targeted sync: sync_if_stale_silent and sync_single_files.          *)

\* Rows a walk by mtime leaves alone: recorded as late as the tree's files.
Fresh(b, seen) == {r \in rows[b] : seen.stamp <= r.stamp}

\* find_stale_files_bounded.
FindStale(t) ==
  /\ at[t] = "stale"
  /\ LET none == Drifted(H(t)) \/ rows[Db(t)] = {} \/ Fresh(Db(t), tree) = rows[Db(t)]
     IN \/ none /\ LeaveTargeted(t)
        \/ ~none /\ Go(t, "wait") /\ Set(t, [job[t] EXCEPT !.seen = tree])
                 /\ UNCHANGED want
  /\ UNCHANGED <<git, crashes, storage, lock, handles, history>>

\* The lock is taken when it is free, unless somebody else has refreshed the
\* listed files meanwhile, and given up on after 30 s.
AwaitLock(t) ==
  /\ at[t] = "wait"
  /\ \/ lock = Free /\ lock' = t /\ Go(t, "check") /\ UNCHANGED <<job, want>>
     \/ /\ lock # Free \/ Fresh(Db(t), tree) = rows[Db(t)]
        /\ UNCHANGED lock /\ LeaveTargeted(t)
  /\ UNCHANGED <<git, crashes, storage, handles, history>>

\* The first check of sync_single_files.
Check(t) ==
  /\ at[t] = "check"
  /\ \/ /\ OnCheckout(H(t)) /\ Go(t, "prune") /\ UNCHANGED <<lock, job, want>>
     \/ /\ ~OnCheckout(H(t)) /\ Release(t) /\ LeaveTargeted(t)
  /\ UNCHANGED <<git, crashes, storage, handles, history>>

\* How a write of the task may bring in another checkout: the handle borrows
\* its database, git went away and came back between the checks, the files
\* were read after the second check, or pruned after the first.
Causes(t, pruning) ==
  {c \in {"borrowed", "back", "late", "pruned"} :
     CASE c = "borrowed" -> H(t).fallback
       [] c = "back" -> job[t].hops >= 2
       [] c = "late" -> job[t].late
       [] c = "pruned" -> pruning /\ job[t].hops >= 1}
Enter(b, rs, causes) ==
  /\ rows' = [rows EXCEPT ![b] = rs]
  /\ foreign' = [foreign EXCEPT ![b] =
                   IF Foreign(b, rs) = {} THEN {} ELSE @ \cup causes]

\* The rows of listed files that are gone from the tree are deleted.
Prune(t) ==
  /\ at[t] = "prune" /\ Go(t, "read")
  /\ \/ UNCHANGED <<rows, foreign>>
     \/ Enter(Db(t), rows[Db(t)] \cup {tree}, Causes(t, TRUE))
  /\ UNCHANGED <<git, crashes, tracked, torn, dirty, lock, handles, job, want,
                 unmarked>>

-----------------------------------------------------------------------------
(* The full sync (sync_with_progress_internal, comparing contents) and the *)
(* full index (index_all_with_lock).                                       *)

\* Mutant of Begin: a sync writes no sentinel.
Begin_Unmarked(t) ==
  LET index == job[t].mode = "index" IN
  /\ at[t] = "begin"
  /\ IF lock = Free /\ OnCheckout(H(t))
     THEN /\ lock' = t /\ Go(t, "scan") /\ UNCHANGED <<dirty, job, want>>
          /\ IF index THEN Enter(Db(t), {}, {}) ELSE UNCHANGED <<rows, foreign>>
     ELSE Abandon(t) /\ UNCHANGED <<lock, dirty, rows, foreign>>
  /\ UNCHANGED <<git, crashes, tracked, torn, handles, unmarked>>

\* The lock, the first check, the sentinel; the index also clears the database.
Begin(t) ==
  LET index == job[t].mode = "index" IN
  /\ at[t] = "begin"
  /\ \/ /\ lock = Free /\ OnCheckout(H(t)) /\ (index => dirty)
        /\ lock' = t /\ dirty' = TRUE
        /\ IF index THEN Enter(Db(t), {}, {}) ELSE UNCHANGED <<rows, foreign>>
        /\ Go(t, "scan") /\ UNCHANGED <<job, want>>
     \/ /\ lock # Free \/ (~OnCheckout(H(t)) /\ (index => dirty))
        /\ Abandon(t) /\ UNCHANGED <<lock, dirty, rows, foreign>>
     \/ /\ lock = Free /\ index /\ ~dirty  \* another writer finished the recovery
        /\ Go(t, "opened") /\ Set(t, With(H(t), "targeted"))
        /\ UNCHANGED <<lock, dirty, rows, foreign, want>>
  /\ UNCHANGED <<git, crashes, tracked, torn, handles, unmarked>>

\* The list of files, with the hash of each in a sync.
Scan(t) ==
  /\ at[t] = "scan" /\ Set(t, [job[t] EXCEPT !.seen = tree])
  /\ Go(t, IF job[t].mode = "sync" THEN "confirm" ELSE "read")
  /\ UNCHANGED <<git, crashes, storage, lock, handles, want, history>>

\* Extraction reads the listed files (again).  A sync reads after its second
\* check, the other two before it.
Read(t) ==
  /\ at[t] = "read" /\ Set(t, [job[t] EXCEPT !.got = tree])
  /\ Go(t, IF job[t].mode = "sync" THEN "write" ELSE "confirm")
  /\ UNCHANGED <<git, crashes, storage, lock, handles, want, history>>

\* Mutant of Confirm: no second check.
Confirm_Trusting(t) ==
  /\ at[t] = "confirm"
  /\ Go(t, IF job[t].mode = "sync" THEN "read" ELSE "write")
  /\ UNCHANGED <<git, crashes, storage, lock, handles, job, want, history>>

\* The second check.  A sync or an index that fails it leaves the sentinel; an
\* index has already emptied its database.
Confirm(t) ==
  /\ at[t] = "confirm"
  /\ \/ /\ OnCheckout(H(t))
        /\ Go(t, IF job[t].mode = "sync" THEN "read" ELSE "write")
        /\ UNCHANGED <<torn, lock, job, want>>
     \/ /\ ~OnCheckout(H(t)) /\ Release(t)
        /\ IF job[t].mode = "targeted" THEN LeaveTargeted(t) ELSE Abandon(t)
        /\ torn' = IF job[t].mode = "index" THEN torn \cup {Db(t)} ELSE torn
  /\ UNCHANGED <<git, crashes, tracked, rows, dirty, handles, history>>

\* Mutant of Written: every sync finds changed files by their mtime.
Written_ByTime(t) ==
  LET j == job[t] IN
  IF j.mode = "index" THEN {j.seen, j.got}
  ELSE IF j.seen = j.got THEN Fresh(j.handle.db, j.seen) \cup {j.got}
  ELSE rows[j.handle.db] \cup {j.got}

\* What a finished write leaves: listed files as read, the others as they were.
\* Listed and read states that differ leave rows of the old, the listed and
\* the read tree.
Written(t) ==
  LET j == job[t] old == rows[j.handle.db] IN
  CASE j.mode = "targeted" ->
         IF j.seen = j.got THEN Fresh(j.handle.db, j.seen) \cup {j.got}
         ELSE old \cup {j.got}
    [] j.mode = "sync" ->
         IF \A r \in old : r.head = j.seen.head THEN {j.seen}
         ELSE IF j.seen = j.got THEN {j.got}
         ELSE old \cup {j.seen, j.got}
    [] j.mode = "index" -> {j.seen, j.got}

\* The rows are written and the sentinel is cleared, whichever database it was
\* meant for.
Write(t) ==
  LET whole == IF job[t].mode = "index" THEN torn \ {Db(t)} ELSE torn IN
  /\ at[t] = "write" /\ Enter(Db(t), Written(t), Causes(t, FALSE))
  /\ torn' = whole /\ dirty' = FALSE /\ Release(t)
  /\ unmarked' = [b \in Branch |->
                    IF b \in whole THEN unmarked[b] \cup {"cleared"} ELSE {}]
  /\ CASE job[t].mode = "targeted" -> LeaveTargeted(t)
       [] job[t].mode = "sync" ->
            Go(t, "publish") /\ Set(t, With(H(t), "targeted")) /\ UNCHANGED want
       [] job[t].mode = "index" ->
            Go(t, "opened") /\ Set(t, With(H(t), "targeted")) /\ UNCHANGED want
  /\ UNCHANGED <<git, crashes, tracked, handles>>

-----------------------------------------------------------------------------
(* The environment.                                                        *)

\* git checkout.  The files it writes get the current second, which may be the
\* one they already have.
Checkout ==
  /\ checkouts < MaxCheckouts /\ checkouts' = checkouts + 1
  /\ \E h \in Head \ {tree.head}, s \in {0, 1} :
       tree' = [head |-> h, stamp |-> tree.stamp + s]
  /\ job' = [t \in Task |->
       LET reading == at[t] = "read" checked == reading /\ job[t].mode = "sync" IN
       IF checked THEN [job[t] EXCEPT !.late = TRUE]
       ELSE IF reading \/ at[t] \in {"prune", "scan", "confirm"}
       THEN [job[t] EXCEPT !.hops = IF @ = 0 THEN 1 ELSE 2]
       ELSE job[t]]
  /\ UNCHANGED <<crashes, storage, lock, handles, at, want, history>>

\* The server is killed.  What it was writing stays as far as it was written;
\* the lock is freed by its death.
Crash ==
  /\ at["own"] # "down" /\ crashes < MaxCrashes /\ crashes' = crashes + 1
  /\ LET t == lock
         cut == t # Free /\ (at[t] = "write" \/ job[t].mode = "index")
         b == Db(t)
     IN IF ~cut THEN UNCHANGED <<rows, torn, foreign, unmarked>>
        ELSE /\ torn' = torn \cup {b}
             /\ IF at[t] = "write"
                THEN Enter(b, rows[b] \cup {job[t].got}, Causes(t, FALSE))
                ELSE UNCHANGED <<rows, foreign>>
             /\ unmarked' = IF job[t].mode = "targeted"
                            THEN [unmarked EXCEPT ![b] = @ \cup {"targeted"}]
                            ELSE unmarked
  /\ lock' = Free /\ initial' = None /\ current' = None
  /\ at' = [t \in Task |-> IF t = "own" THEN "down" ELSE "idle"]
  /\ job' = [t \in Task |-> Idle] /\ want' = Detached
  /\ UNCHANGED <<git, tracked, dirty>>

-----------------------------------------------------------------------------
(* The specification.                                                      *)

Sync(t) ==
  \/ FindStale(t) \/ AwaitLock(t) \/ Check(t) \/ Prune(t)
  \/ Begin(t) \/ Scan(t) \/ Read(t) \/ Confirm(t) \/ Write(t)
Call == Open("call") \/ SwitchOpened \/ Publish \/ Answer \/ Sync("call")
Own == Open("own") \/ ServeOpened \/ Sync("own")

Next == Start \/ Lease \/ StartLazy \/ Call \/ Own \/ Checkout \/ Crash

Spec == Init /\ [][Next]_vars

\* Calls keep coming, and a task runs until it ends.
Fairness == WF_vars(Lease) /\ WF_vars(Call) /\ WF_vars(Own)
FairSpec == Spec /\ Fairness

-----------------------------------------------------------------------------
(* Properties.                                                             *)

TypeOK ==
  /\ tree \in Tree /\ tree.stamp <= checkouts
  /\ checkouts \in 0 .. MaxCheckouts /\ crashes \in 0 .. MaxCrashes
  /\ tracked \subseteq Branch /\ Default \in tracked
  /\ rows \in [Branch -> SUBSET Tree]
  /\ torn \subseteq Branch /\ dirty \in BOOLEAN
  /\ lock \in Task \cup {Free}
  /\ initial \in Handle \cup {None} /\ current \in Handle \cup {None}
  /\ at \in [Task -> Place]
  /\ job \in [Task -> Job]
  /\ want \in Head
  /\ foreign \in [Branch -> SUBSET {"borrowed", "back", "late", "pruned", "copied"}]
  /\ unmarked \in [Branch -> SUBSET {"targeted", "cleared", "copied"}]

\* A database holds rows of another branch only if one of five things put them
\* there: it was copied from its parent, a handle that borrows it was synced,
\* git went away and came back between the two checks of a write, or moved
\* between the first check and the pruning of deleted files or between the
\* second check of a full sync and its reading (ensure_current_checkout,
\* tokensave/guard.rs, and the writers of tokensave/indexing.rs).
ForeignRowsExplained ==
  \A b \in Branch : Foreign(b, rows[b]) # {} => foreign[b] # {}

\* A database whose last write stopped in the middle is covered by the dirty
\* sentinel, except when a targeted sync wrote (it writes none), when another
\* write cleared the sentinel of the whole project, or when the copy of a
\* database was taken in the middle of a write (tokensave/guard.rs).
TornIsMarked ==
  \A b \in torn : dirty \/ unmarked[b] # {}

\* lease publishes a handle only for the branch that is checked out, and a
\* handle of its own only over an index of that branch's files, however much
\* the copy it was opened on held of its parent, unless git moved during the
\* sync (BranchRuntime::lease, tokensave/runtime.rs).
PublishedFits ==
  [][current' # current /\ current' # None =>
       /\ OnCheckout(current')
       /\ \/ current'.fallback \/ Foreign(current'.db, rows[current'.db]) = {}
          \/ foreign[current'.db] \ {"copied"} # {}]_vars

\* Once git stays put, a server that gets calls serves the branch that is
\* checked out, unless an interrupted write that it may not repair, or that
\* emptied the branch's database, keeps it from opening it
\* (BranchRuntime::lease: a failed transition is tried again).
FollowsCheckout ==
  <>[](~Up \/ OnCheckout(Serving) \/ dirty \/
       (tree.head \in tracked /\ rows[tree.head] = {}))

=============================================================================
