------------------------------ MODULE SyncLock ------------------------------
(***************************************************************************)
(* The lockfile protocol of tokensave/guard.rs, used twice in a project's  *)
(* .tokensave directory: sync.lock (Waits = FALSE: a live holder is an     *)
(* error) and branch-add.lock (Waits = TRUE: a live holder is polled until *)
(* a timeout).  One filesystem call is one step, so the gaps between       *)
(* create, write, read, kill -0, unlink and create are all visible.        *)
(***************************************************************************)
EXTENDS Naturals

CONSTANTS
  Proc,        \* process ids; one that died is never reused
  Empty,       \* contents of a lockfile whose creator has not written its pid
  NoFile,      \* the lockfile does not exist
  Waits,       \* poll while the holder is alive (branch-add.lock)
  MaxPolls     \* polls that fit in BRANCH_OPERATION_LOCK_TIMEOUT

ASSUME LockAssumption ==
  /\ Empty \notin Proc
  /\ NoFile \notin [owner : Proc, pid : Proc \cup {Empty}]
  /\ Waits \in BOOLEAN
  /\ MaxPolls \in Nat

VARIABLES
  lockfile,    \* NoFile, or the linked inode: who created it, what it says
  pc,          \* where each process stands in the protocol
  seen,        \* the contents the current attempt has in hand
  polls,       \* polls made by the current attempt
  evicted      \* history: the lockfile of a live holder was unlinked

vars == <<lockfile, pc, seen, polls, evicted>>

File == [owner : Proc, pid : Proc \cup {Empty}]

PC == {"out", "exists", "probing", "reclaiming", "recreating",
       "waiting", "created", "held", "dead"}

Alive(p) == pc[p] # "dead"

\* What is_pid_alive answers about contents x; contents that do not parse as a
\* pid are never asked about and count as stale.
NamesLiveProcess(x) == x # Empty /\ Alive(x)

\* A process that owns a guard, or is about to: its file was created.
Inside(p) == pc[p] \in {"created", "held"}

TypeOK ==
  /\ lockfile \in File \cup {NoFile}
  /\ pc \in [Proc -> PC]
  /\ seen \in [Proc -> Proc \cup {Empty}]
  /\ polls \in [Proc -> 0..MaxPolls]
  /\ evicted \in BOOLEAN

\* Some processes may have died earlier, one of them holding the lock and
\* before or after it wrote its pid.
Init ==
  /\ pc \in [Proc -> {"out", "dead"}]
  /\ lockfile \in {NoFile} \cup {f \in File : pc[f.owner] = "dead" /\ f.pid \in {Empty, f.owner}}
  /\ seen = [p \in Proc |-> Empty]
  /\ polls = [p \in Proc |-> 0]
  /\ evicted = FALSE

Goto(p, l) == pc' = [pc EXCEPT ![p] = l]

-----------------------------------------------------------------------------
\* Mutant of CreateNew: open(create) without create_new takes any file over.
CreateNew_Truncates(p) ==
  /\ pc[p] = "out"
  /\ polls' = [polls EXCEPT ![p] = 0]
  /\ lockfile' = [owner |-> p, pid |-> Empty] /\ Goto(p, "created")
  /\ UNCHANGED <<seen, evicted>>

\* create_new(true): succeeds only when the path is free.
CreateNew(p) ==
  /\ pc[p] = "out"
  /\ polls' = [polls EXCEPT ![p] = 0]
  /\ IF lockfile = NoFile
     THEN lockfile' = [owner |-> p, pid |-> Empty] /\ Goto(p, "created")
     ELSE UNCHANGED lockfile /\ Goto(p, "exists")
  /\ UNCHANGED <<seen, evicted>>

\* write!(f, "{pid}") goes to the inode the handle was opened on, which may
\* have been unlinked since.
WritePid(p) ==
  /\ pc[p] = "created"
  /\ lockfile' = IF lockfile # NoFile /\ lockfile.owner = p
                 THEN [lockfile EXCEPT !.pid = p] ELSE lockfile
  /\ Goto(p, "held")
  /\ UNCHANGED <<seen, polls, evicted>>

\* read_to_string(..).unwrap_or_default(): a missing file reads as empty.
ReadPid(p) ==
  /\ pc[p] = "exists"
  /\ seen' = [seen EXCEPT ![p] = IF lockfile = NoFile THEN Empty ELSE lockfile.pid]
  /\ Goto(p, "probing")
  /\ UNCHANGED <<lockfile, polls, evicted>>

\* The process named by the contents is alive: an error, or a wait.
Refuse(p) ==
  /\ pc[p] = "probing"
  /\ NamesLiveProcess(seen[p])
  /\ Goto(p, IF Waits THEN "waiting" ELSE "out")
  /\ seen' = [seen EXCEPT ![p] = Empty]
  /\ UNCHANGED <<lockfile, polls, evicted>>

\* Mutant of DeclareStale: is_pid_alive is not asked.
DeclareStale_Unasked(p) ==
  /\ pc[p] = "probing"
  /\ Goto(p, "reclaiming")
  /\ UNCHANGED <<lockfile, seen, polls, evicted>>

DeclareStale(p) ==
  /\ pc[p] = "probing"
  /\ ~NamesLiveProcess(seen[p])
  /\ Goto(p, "reclaiming")
  /\ UNCHANGED <<lockfile, seen, polls, evicted>>

\* remove_file(&lock_path): whatever file is linked there by now.
Unlink(p) ==
  /\ pc[p] = "reclaiming"
  /\ evicted' = (evicted \/ (lockfile # NoFile /\ Inside(lockfile.owner)))
  /\ lockfile' = NoFile
  /\ Goto(p, "recreating")
  /\ seen' = [seen EXCEPT ![p] = Empty]
  /\ UNCHANGED polls

\* Mutant of Recreate: the second open overwrites what a third process made.
Recreate_Truncates(p) ==
  /\ pc[p] = "recreating"
  /\ lockfile' = [owner |-> p, pid |-> Empty] /\ Goto(p, "created")
  /\ UNCHANGED <<seen, polls, evicted>>

\* Mutant of Recreate: the error path tidies the lockfile away.
Recreate_TidiesUp(p) ==
  /\ pc[p] = "recreating"
  /\ IF lockfile = NoFile
     THEN lockfile' = [owner |-> p, pid |-> Empty] /\ Goto(p, "created")
     ELSE lockfile' = NoFile /\ Goto(p, "out")
  /\ UNCHANGED <<seen, polls, evicted>>

\* The second create_new(true): failure is an error for both locks.
Recreate(p) ==
  /\ pc[p] = "recreating"
  /\ IF lockfile = NoFile
     THEN lockfile' = [owner |-> p, pid |-> Empty] /\ Goto(p, "created")
     ELSE UNCHANGED lockfile /\ Goto(p, "out")
  /\ UNCHANGED <<seen, polls, evicted>>

\* Drop of the guard removes the path without looking at the contents.
Release(p) ==
  /\ pc[p] = "held"
  /\ evicted' = (evicted \/ (lockfile # NoFile /\ lockfile.owner # p /\ Inside(lockfile.owner)))
  /\ lockfile' = NoFile
  /\ Goto(p, "out")
  /\ UNCHANGED <<seen, polls>>

\* Mutant of Poll: the clock is restarted by every poll.
Poll_Uncounted(p) ==
  /\ pc[p] = "waiting"
  /\ IF lockfile = NoFile
     THEN lockfile' = [owner |-> p, pid |-> Empty] /\ Goto(p, "created")
     ELSE UNCHANGED lockfile /\ Goto(p, "exists")
  /\ UNCHANGED <<seen, polls, evicted>>

\* branch-add.lock: sleep 50 ms and try again, from the first create on.
Poll(p) ==
  /\ pc[p] = "waiting"
  /\ polls[p] < MaxPolls
  /\ polls' = [polls EXCEPT ![p] = @ + 1]
  /\ IF lockfile = NoFile
     THEN lockfile' = [owner |-> p, pid |-> Empty] /\ Goto(p, "created")
     ELSE UNCHANGED lockfile /\ Goto(p, "exists")
  /\ UNCHANGED <<seen, evicted>>

\* started.elapsed() >= timeout; slow polls may use up the time early.
TimeOut(p) ==
  /\ pc[p] = "waiting"
  /\ Goto(p, "out")
  /\ UNCHANGED <<lockfile, seen, polls, evicted>>

\* SIGKILL or power loss: no destructor runs, the lockfile stays.
Crash(p) ==
  /\ Alive(p)
  /\ Goto(p, "dead")
  /\ UNCHANGED <<lockfile, seen, polls, evicted>>

Step(p) ==
  \/ WritePid(p) \/ ReadPid(p) \/ Refuse(p) \/ DeclareStale(p)
  \/ Unlink(p) \/ Recreate(p) \/ Release(p) \/ Poll(p) \/ TimeOut(p)

Next == \E p \in Proc : CreateNew(p) \/ Step(p) \/ Crash(p)

Spec == Init /\ [][Next]_vars

\* A running process is scheduled; nobody is obliged to try, or to die.
FairSpec == Spec /\ \A p \in Proc : WF_vars(Step(p))

-----------------------------------------------------------------------------
\* The section title of guard.rs, "Sync lock - prevents concurrent sync/index
\* operations": two processes never own a guard at the same time.
MutualExclusion == \A p, q \in Proc : pc[p] = "held" /\ pc[q] = "held" => p = q

\* The protocol excludes as long as no reclaim deleted the file of a live
\* holder: no crash, stale file, lost write or double reclaim breaks it
\* otherwise.
ExclusiveUnlessEvicted == ~evicted => \A p, q \in Proc : Inside(p) /\ Inside(q) => p = q

\* Until an eviction, a holder's own file is the one on disk, so the Drop that
\* removes the path removes its own file and sync_in_progress sees the holder.
HolderOwnsFile ==
  ~evicted => \A p \in Proc : Inside(p) => lockfile # NoFile /\ lockfile.owner = p

\* A contender whose reading still describes the file never deletes the file
\* of a live process: an eviction takes an empty or an outdated reading.
FreshReadingNeverEvicts ==
  [][\A p \in Proc :
       /\ pc[p] = "reclaiming" /\ pc'[p] = "recreating"
       /\ lockfile # NoFile
       /\ seen[p] = lockfile.pid /\ seen[p] # Empty
       => ~Alive(lockfile.owner)]_vars

\* An attempt that met a lockfile ends: with the guard, with an error (holder
\* alive, lost reclaim, timeout) or with the process; it never polls forever.
AttemptEnds ==
  \A p \in Proc : pc[p] = "exists" ~> pc[p] \in {"held", "out", "dead"}

\* The lockfile implements the abstract lock.
Abstract == INSTANCE AdvisoryLock
              WITH holders <- {p \in Proc : Inside(p)}, broken <- evicted
ImplementsAdvisoryLock == Abstract!Spec
=============================================================================
