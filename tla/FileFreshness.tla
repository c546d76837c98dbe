---------------------------- MODULE FileFreshness ----------------------------
(***************************************************************************)
(* How the row of one source file follows the file (sync.rs,               *)
(* tokensave/indexing.rs, tokensave/staleness.rs, extraction_worker.rs).   *)
(* A row records the hash of a content next to an mtime and a size; the    *)
(* full sync skips a file whose mtime and size equal the recorded ones,    *)
(* the lazy sync one whose mtime is not newer.  Stat and read are separate *)
(* system calls and the file may change between them.                      *)
(*                                                                         *)
(* The sync lock is one step here, and storing a row is one step: the      *)
(* lockfile is module SyncLock, the tables are module GraphIndex.          *)
(***************************************************************************)
EXTENDS Naturals

CONSTANTS
  Content,     \* what the file may contain, as far as its hash tells
  Absent,      \* the file does not exist
  NoRow,       \* the files table has no row for it
  SizeOf,      \* size in bytes of each content
  MaxTime,     \* mtimes 1..MaxTime, in nanoseconds; each is given out once
  Backdates,   \* a writer may set an mtime of the past (mv, cp -p, tar, rsync -a)
  Ops          \* operations that run: index, sync, lazy

ASSUME FreshnessAssumption ==
  /\ Absent \notin Content
  /\ SizeOf \in [Content -> Nat]
  /\ NoRow \notin [hash : Content, mtime : Nat, size : Nat]
  /\ MaxTime \in Nat \ {0}
  /\ Backdates \in BOOLEAN
  /\ Ops \subseteq {"index", "sync", "lazy"}

VARIABLES
  content,     \* the file: its content or Absent
  mtime,       \* its modification time
  used,        \* mtimes some write has carried
  row,         \* the files row, or NoRow
  raced,       \* history: an edit fell between the read and the stat of the row
  op,          \* the operation that holds the sync lock
  step,        \* where it stands
  stat,        \* (mtime, size) its scan saw
  got,         \* the extractor's record under construction
  calm,        \* history: "start" / "read" happened and no edit since
  lazy         \* the lazy sync: idle, wanting the lock, or having waited for it

file == <<content, mtime, used>>
vars == <<content, mtime, used, row, raced, op, step, stat, got, calm, lazy>>

Time == 0..MaxTime

\* current_timestamp() is in seconds, file_stat in nanoseconds: the fallback
\* mtime of a file that vanished is older than any real one.
SecondsFallback == 0

Size == {0} \cup {SizeOf[c] : c \in Content}

Row == [hash : Content, mtime : Time, size : Size]

Steps == {"idle", "scanned", "hash", "touch", "clear", "read", "restat", "store", "end"}

Exists == content # Absent

\* The row describes the file as it is.
UpToDate == IF Exists THEN row # NoRow /\ row.hash = content ELSE row = NoRow

Init ==
  /\ content \in Content \cup {Absent} /\ mtime = 1 /\ used = {1}
  /\ row = NoRow /\ raced = FALSE
  /\ op = "none" /\ step = "idle"
  /\ stat = [mtime |-> 0, size |-> 0]
  /\ got \in {[hash |-> c, mtime |-> 0, raced |-> FALSE] : c \in Content}
  /\ calm = {} /\ lazy = "idle"

TypeOK ==
  /\ content \in Content \cup {Absent} /\ mtime \in Time /\ used \subseteq Time
  /\ row \in Row \cup {NoRow} /\ raced \in BOOLEAN
  /\ op \in {"none", "index", "sync", "lazy"} /\ step \in Steps
  /\ stat \in [mtime : Time, size : Size]
  /\ got \in [hash : Content, mtime : Time, raced : BOOLEAN]
  /\ calm \subseteq {"start", "read"}
  /\ lazy \in {"idle", "want", "waited"}

-----------------------------------------------------------------------------
\* Somebody writes, creates or deletes the file.  No two writes carry the same
\* mtime: the resolution of file_stat is a nanosecond.
Edit ==
  /\ \E c \in (Content \cup {Absent}) \ {content}, t \in Time \ (used \cup {SecondsFallback}) :
       /\ Backdates \/ \A u \in used : t > u
       /\ content' = c /\ mtime' = t /\ used' = used \cup {t}
  /\ calm' = {}
  /\ UNCHANGED <<row, raced, op, step, stat, got, lazy>>

\* `touch`: a new mtime over the same content.
Touch ==
  /\ Exists
  /\ \E t \in Time \ used :
       /\ \A u \in used : t > u
       /\ mtime' = t /\ used' = used \cup {t}
  /\ UNCHANGED <<content, row, raced, op, step, stat, got, calm, lazy>>

-----------------------------------------------------------------------------
\* The extraction every operation shares: read, parse, then stat.

\* read_source_file; a file that is gone contributes nothing.
ReadSource ==
  /\ step = "read"
  /\ got' = IF Exists THEN [got EXCEPT !.hash = content] ELSE got
  /\ calm' = calm \cup {"read"}
  /\ step' = IF Exists THEN "restat" ELSE "end"
  /\ UNCHANGED <<file, row, raced, op, stat, lazy>>

\* file_stat(..).map_or_else(current_timestamp, ..), after the parse.
StatSource ==
  /\ step = "restat"
  /\ got' = [got EXCEPT !.mtime = IF Exists THEN mtime ELSE SecondsFallback,
                        !.raced = "read" \notin calm]
  /\ step' = "store"
  /\ UNCHANGED <<file, row, raced, op, stat, calm, lazy>>

\* The record: hash and size of what was read, mtime of what was there later.
StoreRow ==
  /\ step = "store"
  /\ row' = [hash |-> got.hash, mtime |-> got.mtime, size |-> SizeOf[got.hash]]
  /\ raced' = got.raced
  /\ step' = "end"
  /\ UNCHANGED <<file, op, stat, got, calm, lazy>>

\* The guard is dropped.
Unlock ==
  /\ step = "end"
  /\ op' = "none" /\ step' = "idle"
  /\ lazy' = IF op = "lazy" THEN "idle" ELSE lazy
  /\ UNCHANGED <<file, row, raced, stat, got, calm>>

-----------------------------------------------------------------------------
\* The full index: every row goes, every file is extracted.

StartIndex ==
  /\ "index" \in Ops /\ step = "idle"
  /\ op' = "index" /\ step' = "clear" /\ calm' = {"start"}
  /\ UNCHANGED <<file, row, raced, stat, got, lazy>>

ClearRows ==
  /\ step = "clear" /\ op = "index"
  /\ row' = NoRow
  /\ step' = "read"
  /\ UNCHANGED <<file, raced, op, stat, got, calm, lazy>>

-----------------------------------------------------------------------------
\* The full incremental sync.

StartSync ==
  /\ "sync" \in Ops /\ step = "idle"
  /\ op' = "sync" /\ calm' = {"start"}
  /\ IF Exists
     THEN stat' = [mtime |-> mtime, size |-> SizeOf[content]] /\ step' = "scanned"
     ELSE stat' = stat /\ step' = "clear"
  /\ UNCHANGED <<file, row, raced, got, lazy>>

\* Mutant of Prefilter: mtimes are ordered, as in the lazy sync, not compared.
Prefilter_Newer ==
  /\ step = "scanned"
  /\ step' = IF row # NoRow /\ row.mtime >= stat.mtime /\ row.size = stat.size
             THEN "end" ELSE "hash"
  /\ UNCHANGED <<file, row, raced, op, stat, got, calm, lazy>>

\* modified_at != mtime || size != size: only then is the file read.
Prefilter ==
  /\ step = "scanned"
  /\ step' = IF row # NoRow /\ row.mtime = stat.mtime /\ row.size = stat.size
             THEN "end" ELSE "hash"
  /\ UNCHANGED <<file, row, raced, op, stat, got, calm, lazy>>

\* A file missing from the scan loses its row.
RemoveDeleted ==
  /\ step = "clear" /\ op = "sync"
  /\ row' = NoRow
  /\ step' = "end"
  /\ UNCHANGED <<file, raced, op, stat, got, calm, lazy>>

\* The content is hashed; one that is unreadable by now is skipped.
HashSource ==
  /\ step = "hash"
  /\ step' = CASE ~Exists -> "end"
               [] Exists /\ row # NoRow /\ row.hash = content -> "touch"
               [] OTHER -> "read"
  /\ UNCHANGED <<file, row, raced, op, stat, got, calm, lazy>>

\* Mutant of RecordTouch: the stat is taken when the row is written.
RecordTouch_Late ==
  /\ step = "touch"
  /\ row' = IF Exists THEN [row EXCEPT !.mtime = mtime, !.size = SizeOf[content]] ELSE row
  /\ raced' = FALSE
  /\ step' = "end"
  /\ UNCHANGED <<file, op, stat, got, calm, lazy>>

\* Same hash: the row takes the stat of the scan, which is older than the read.
RecordTouch ==
  /\ step = "touch"
  /\ row' = [row EXCEPT !.mtime = stat.mtime, !.size = stat.size]
  /\ raced' = FALSE
  /\ step' = "end"
  /\ UNCHANGED <<file, op, stat, got, calm, lazy>>

-----------------------------------------------------------------------------
\* The lazy sync of the MCP server and of the tools: sync_if_stale_silent.

\* Mutant of Stale: a file without a row is nobody's business.
Stale_IndexedOnly ==
  row # NoRow /\ (~Exists \/ mtime > row.mtime)

\* check_file_staleness
Stale ==
  \/ row # NoRow /\ ~Exists
  \/ row # NoRow /\ Exists /\ mtime > row.mtime
  \/ row = NoRow /\ Exists

\* Without the lock: another operation may be half-way through the row.
LazyCheck ==
  /\ "lazy" \in Ops /\ lazy = "idle" /\ Stale
  /\ lazy' = "want"
  /\ UNCHANGED <<file, row, raced, op, step, stat, got, calm>>

\* A peer has the lock: poll it.
LazyWait ==
  /\ lazy = "want" /\ step # "idle" /\ op # "lazy"
  /\ lazy' = "waited"
  /\ UNCHANGED <<file, row, raced, op, step, stat, got, calm>>

\* The lock is free.  Only a caller that waited for it checks again.
LazyStart ==
  /\ lazy \in {"want", "waited"} /\ step = "idle"
  /\ IF lazy = "waited" /\ ~Stale
     THEN lazy' = "idle" /\ UNCHANGED <<op, step, calm>>
     ELSE /\ op' = "lazy" /\ calm' = {"start"}
          /\ step' = IF Exists THEN "read" ELSE "clear"
          /\ UNCHANGED lazy
  /\ UNCHANGED <<file, row, raced, stat, got>>

\* sync_single_files prunes what does not exist any more.
LazyRemove ==
  /\ step = "clear" /\ op = "lazy"
  /\ row' = NoRow
  /\ step' = "end"
  /\ UNCHANGED <<file, raced, op, stat, got, calm, lazy>>

\* Thirty seconds of polling are over.
LazyGiveUp ==
  /\ lazy = "waited" /\ op # "lazy"
  /\ lazy' = "idle"
  /\ UNCHANGED <<file, row, raced, op, step, stat, got, calm>>

-----------------------------------------------------------------------------
Running ==
  \/ ReadSource \/ StatSource \/ StoreRow \/ Unlock
  \/ ClearRows \/ Prefilter \/ RemoveDeleted \/ HashSource \/ RecordTouch \/ LazyRemove

Lazy == LazyCheck \/ LazyWait \/ LazyStart

Next == Edit \/ Touch \/ StartIndex \/ StartSync \/ Running \/ Lazy \/ LazyGiveUp

Spec == Init /\ [][Next]_vars
FairSpec == Spec /\ WF_vars(Running) /\ WF_vars(Lazy)

-----------------------------------------------------------------------------
\* CHANGELOG.md on file_stat: a sync "no longer serves a stale view of a file
\* edited within the same second at an unchanged byte size": a row with the
\* file's mtime and size holds the file's hash, so skipping the file is safe.
EditsAreSeen ==
  step = "idle" /\ row # NoRow /\ Exists /\ row.mtime = mtime /\ row.size = SizeOf[content]
    => row.hash = content

\* The same, and by the mtime alone, for every row but the ones whose file was
\* edited while it was being parsed; a row the scan only touched is no
\* exception, whatever happens between its stat, its read and its write.
StampTellsContent ==
  ~raced /\ row # NoRow /\ Exists /\ row.mtime = mtime => row.hash = content

\* The row passes for current although its file was edited during the parse.
Hidden == raced /\ row # NoRow /\ Exists /\ row.mtime = mtime

\* A full sync during which nobody edits the file leaves the row describing
\* it, also when the mtime went backwards, unless its scan met a raced row with
\* the very stat the file has.
SyncEndsFresh ==
  [][step = "end" /\ op = "sync" /\ step' = "idle" /\ "start" \in calm
       => \/ UpToDate
          \/ raced /\ row # NoRow /\ row.mtime = stat.mtime /\ row.size = stat.size]_vars

\* The file was replaced by one that is older than its row.
Backdated == row # NoRow /\ Exists /\ mtime < row.mtime

\* docs/guide/INDEXING.md: the lazy sync "picks up any changes made while no
\* agent was attached": as long as it is asked again and again, a row that is
\* out of date does not stay so (the rows EditsAreSeen is about apart).
ChangesArePickedUp == ~UpToDate ~> UpToDate \/ Hidden

\* The same with both exceptions the code leaves: a row hidden by an edit
\* during the parse, and a file that is older than its row.
StaleRowIsRefreshed == ~UpToDate ~> UpToDate \/ Hidden \/ Backdated
=============================================================================
