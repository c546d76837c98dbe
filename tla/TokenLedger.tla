---------------------------- MODULE TokenLedger -----------------------------
(***************************************************************************)
(* How saved tokens reach the worldwide counter: MCP servers of a project  *)
(* (src/src/mcp/server.rs) keep a running total, mirror it in the          *)
(* project's database and in the global database's row of the project, and *)
(* upload what they have not uploaded; commands (src/src/global.rs,        *)
(* src/src/main.rs) add what the row lacks to the pending count of         *)
(* state.toml and upload that.  Uploads share one daily gate in            *)
(* src/src/cloud.rs.                                                       *)
(*                                                                         *)
(* Calls of one server are serialized by the branch lease, so each server  *)
(* is one sequence of steps; all servers, commands and the service         *)
(* interleave.  A load and a save of state.toml are atomic (UserConfig).   *)
(* One database per project; time in units of the 30 s check interval.     *)
(***************************************************************************)
EXTENDS StateMerge, FiniteSets, Functions

CONSTANTS Server, Command,
          NoFile,               \* no state.toml
          Interval, Cooldown,   \* UPLOAD_INTERVAL, FAILED_ATTEMPT_COOLDOWN
          MaxEarned, MaxTime    \* bounds: tokens credited, the time

Proc == Server \cup Command

State == [pending : Nat, uploadAt : Nat, attemptAt : Nat]

ASSUME LedgerAssumption ==
  /\ IsFiniteSet(Server) /\ IsFiniteSet(Command)
  /\ Server \cap Command = {}
  /\ NoFile \notin State
  /\ Interval \in Nat /\ Cooldown \in 1..Interval
  /\ MaxEarned \in Nat /\ MaxTime \in Nat

VARIABLES
  db,       \* tokens_saved in the project's database
  row,      \* the project's tokens in the global database
  file,     \* state.toml
  service,  \* what the worldwide counter received
  time,
  pc,
  saved, flushed,  \* per server: tokens_saved, last_flushed_tokens
  at,              \* per process: the time its decision was taken at
  cfg,             \* per process: the loaded configuration
  baseline,        \* per process: its baseline
  sent,            \* per process: what its upload carried, 0 if none succeeded
  seen,            \* per process: the total it read (current, tokens)
  previous,        \* per command: the row it read
  earned,   \* history: tokens credited so far
  doubled,  \* history: the ways a token was counted again
  lost      \* history: the ways a token was dropped

ledger == <<db, row, file, service>>
totals == <<saved, flushed>>
locals == <<cfg, baseline, sent>>
reads == <<seen, previous>>
history == <<earned, doubled, lost>>
ledgerVars == <<ledger, time, pc, totals, at, locals, reads, history>>

NoState == [pending |-> 0, uploadAt |-> 0, attemptAt |-> 0]

\* What a server whose upload failed at time 1 left behind.
Backlog == [pending |-> 1, uploadAt |-> 0, attemptAt |-> 1]

LedgerInit ==
  /\ db = 0 /\ row = 0 /\ service = 0
  /\ file \in {NoFile, Backlog}
  /\ time = Interval
  /\ pc = [p \in Proc |-> "new"]
  /\ saved = [s \in Server |-> 0] /\ flushed = [s \in Server |-> 0]
  /\ at = [p \in Proc |-> 0]
  /\ cfg = [p \in Proc |-> NoState]
  /\ baseline = [p \in Proc |-> NoFile]
  /\ sent = [p \in Proc |-> 0]
  /\ seen = [p \in Proc |-> 0] /\ previous = [c \in Command |-> 0]
  /\ earned = (IF file = NoFile THEN 0 ELSE file.pending)
  /\ doubled = {} /\ lost = {}

Goto(p, label) == pc' = [pc EXCEPT ![p] = label]

-----------------------------------------------------------------------------
(* The configuration file and the service, for every process.              *)

UploadIsDue(c, now) ==
  /\ c.pending > 0
  /\ ~(c.attemptAt > c.uploadAt /\ now - c.attemptAt < Cooldown)
  /\ now - c.uploadAt >= Interval

Loaded == IF file = NoFile THEN NoState ELSE file

\* The loaded file with a delta added in memory.
With(delta) == [Loaded EXCEPT !.pending = @ + delta]

Take(p, c, label) ==
  /\ baseline' = [baseline EXCEPT ![p] = file]
  /\ cfg' = [cfg EXCEPT ![p] = c]
  /\ Goto(p, label)

\* Go on to the upload if it is due, with the attempt stamped; else to the save.
TakeToUpload(p, c, now, post, save) ==
  IF UploadIsDue(c, now) THEN Take(p, [c EXCEPT !.attemptAt = now], post)
                         ELSE Take(p, c, save)

Merged(p) ==
  IF baseline[p] = NoFile THEN cfg[p]
  ELSE [pending |-> MergeCounterDelta(baseline[p].pending, cfg[p].pending, file.pending),
        uploadAt |-> MergeMonotonic(baseline[p].uploadAt, cfg[p].uploadAt, file.uploadAt),
        attemptAt |-> MergeMonotonic(baseline[p].attemptAt, cfg[p].attemptAt, file.attemptAt)]

BasePending(p) == IF baseline[p] = NoFile THEN 0 ELSE baseline[p].pending

\* The upload counts; it fails; or it counts and the answer is lost.
Post(p, next) ==
  /\ \/ /\ service' = service + cfg[p].pending
        /\ sent' = [sent EXCEPT ![p] = cfg[p].pending]
        /\ cfg' = [cfg EXCEPT ![p] = [@ EXCEPT !.pending = 0, !.uploadAt = at[p]]]
        /\ UNCHANGED doubled
     \/ UNCHANGED <<service, cfg, sent, doubled>>
     \/ /\ service' = service + cfg[p].pending
        /\ doubled' = doubled \cup {"lost answer"}
        /\ UNCHANGED <<cfg, sent>>
  /\ Goto(p, next)
  /\ UNCHANGED <<db, row, file, time, totals, at, baseline, reads, earned, lost>>

\* What a save that succeeds does wrong: it replaces a file its load did not
\* find, or takes off what another upload already took off.
BlindSave(p) == baseline[p] = NoFile /\ file # NoFile
SameUploadedTwice(p) ==
  baseline[p] # NoFile /\ cfg[p].pending < baseline[p].pending
  /\ file.pending < baseline[p].pending - cfg[p].pending

Saved(p) == file' = Merged(p)
SaveFails == file' = file

\* The configuration and what was read are locals of the flush.
DropLocals(p) ==
  /\ cfg' = [cfg EXCEPT ![p] = NoState]
  /\ baseline' = [baseline EXCEPT ![p] = NoFile]
  /\ sent' = [sent EXCEPT ![p] = 0]
  /\ seen' = [seen EXCEPT ![p] = 0]

Exit(p) ==
  /\ DropLocals(p)
  /\ at' = [at EXCEPT ![p] = 0]
  /\ saved' = [s \in Server |-> IF s = p THEN 0 ELSE saved[s]]
  /\ flushed' = [s \in Server |-> IF s = p THEN 0 ELSE flushed[s]]
  /\ previous' = [c \in Command |-> IF c = p THEN 0 ELSE previous[c]]
  /\ Goto(p, "gone")

-----------------------------------------------------------------------------
(* A server.                                                               *)

\* new_inner: the persisted total, then the global row.
Open(s) ==
  /\ pc[s] = "new"
  /\ saved' = [saved EXCEPT ![s] = db]
  /\ flushed' = [flushed EXCEPT ![s] = db]
  /\ Goto(s, "register")
  /\ UNCHANGED <<ledger, time, at, locals, reads, history>>

Register(s) ==
  /\ pc[s] = "register"
  /\ row' = saved[s]
  /\ Goto(s, "idle")
  /\ UNCHANGED <<db, file, service, time, totals, at, locals, reads, history>>

\* A tool call that is credited tokens, or none; the flush check follows.
Call(s) ==
  /\ pc[s] = "idle"
  /\ \/ /\ earned < MaxEarned
        /\ saved' = [saved EXCEPT ![s] = @ + 1]
        /\ earned' = earned + 1
        /\ Goto(s, "toDb")
     \/ /\ Goto(s, "gate")
        /\ UNCHANGED <<saved, earned>>
  /\ UNCHANGED <<ledger, time, flushed, at, locals, reads, doubled, lost>>

ToDb(s) ==
  /\ pc[s] \in {"toDb", "exitDb"}
  /\ db' = saved[s]
  /\ Goto(s, IF pc[s] = "toDb" THEN "toRow" ELSE "exitRow")
  /\ UNCHANGED <<row, file, service, time, totals, at, locals, reads, history>>

ToRow(s) ==
  /\ pc[s] \in {"toRow", "exitRow"}
  /\ row' = saved[s]
  /\ Goto(s, IF pc[s] = "toRow" THEN "gate" ELSE "exitLoad")
  /\ UNCHANGED <<db, file, service, time, totals, at, locals, reads, history>>

\* maybe_flush_worldwide, up to the configuration.
Gate(s) ==
  /\ pc[s] = "gate"
  /\ IF time = at[s] THEN Goto(s, "idle") /\ UNCHANGED at
     ELSE /\ at' = [at EXCEPT ![s] = time]
          /\ Goto(s, IF saved[s] <= flushed[s] THEN "idle" ELSE "load")
  /\ UNCHANGED <<ledger, time, totals, locals, reads, history>>

\* A flush that is not due saves nothing.
FlushLoad(s) ==
  /\ pc[s] = "load"
  /\ LET c == With(saved[s] - flushed[s])
     IN IF UploadIsDue(c, at[s])
        THEN /\ Take(s, [c EXCEPT !.attemptAt = at[s]], "post")
             /\ seen' = [seen EXCEPT ![s] = saved[s]]
        ELSE Goto(s, "idle") /\ UNCHANGED <<cfg, baseline, seen>>
  /\ UNCHANGED <<ledger, time, totals, at, sent, previous, history>>

FlushPost(s) == pc[s] = "post" /\ Post(s, "save")

\* Mutant of FlushSave: a success is noted in the file only.
FlushSave_NeverAdvances(s) ==
  /\ pc[s] = "save"
  /\ \/ /\ Saved(s)
        /\ doubled' = doubled \cup {w \in {"retry", "race"} :
                         \/ w = "retry" /\ sent[s] = 0
                         \/ w = "race" /\ SameUploadedTwice(s)}
        /\ lost' = lost \cup {w \in {"blind"} : BlindSave(s)}
     \/ /\ SaveFails
        /\ doubled' = doubled \cup {w \in {"unsaved"} : sent[s] > 0}
        /\ UNCHANGED lost
  /\ DropLocals(s)
  /\ Goto(s, "idle")
  /\ UNCHANGED <<db, row, service, time, totals, at, previous, earned>>

\* Only a success moves last_flushed_tokens; the file is saved either way.
FlushSave(s) ==
  /\ pc[s] = "save"
  /\ \/ /\ Saved(s)
        /\ doubled' = doubled \cup {w \in {"retry", "race"} :
                         \/ w = "retry" /\ sent[s] = 0
                         \/ w = "race" /\ SameUploadedTwice(s)}
        /\ lost' = lost \cup {w \in {"blind"} : BlindSave(s)}
     \/ /\ SaveFails
        /\ doubled' = doubled \cup {w \in {"unsaved"} : sent[s] > 0}
        /\ UNCHANGED lost
  /\ flushed' = IF sent[s] > 0 THEN [flushed EXCEPT ![s] = seen[s]] ELSE flushed
  /\ DropLocals(s)
  /\ Goto(s, "idle")
  /\ UNCHANGED <<db, row, service, time, saved, at, previous, earned>>

Shutdown(s) ==
  /\ pc[s] = "idle"
  /\ Goto(s, "exitDb")
  /\ UNCHANGED <<ledger, time, totals, at, locals, reads, history>>

\* Mutant of ExitLoad: like the periodic flush, it saves nothing when no upload
\* is due.
ExitLoad_LikeFlush(s) ==
  /\ pc[s] = "exitLoad"
  /\ LET c == With(saved[s] - flushed[s])
     IN IF saved[s] > flushed[s] /\ UploadIsDue(c, time)
        THEN /\ Take(s, [c EXCEPT !.attemptAt = time], "exitPost")
             /\ at' = [at EXCEPT ![s] = time]
             /\ UNCHANGED <<totals, sent, reads>>
        ELSE Exit(s)
  /\ UNCHANGED <<ledger, time, history>>

ExitLoad(s) ==
  /\ pc[s] = "exitLoad"
  /\ IF saved[s] > flushed[s]
     THEN /\ TakeToUpload(s, With(saved[s] - flushed[s]), time, "exitPost", "exitSave")
          /\ at' = [at EXCEPT ![s] = time]
          /\ UNCHANGED <<totals, sent, reads>>
     ELSE Exit(s)
  /\ UNCHANGED <<ledger, time, history>>

ExitPost(s) == pc[s] = "exitPost" /\ Post(s, "exitSave")

\* The process ends: the file is the only thing that remembers.
ExitSave(s) ==
  /\ pc[s] = "exitSave"
  /\ \/ /\ Saved(s)
        /\ doubled' = doubled \cup {w \in {"race"} : SameUploadedTwice(s)}
        /\ lost' = lost \cup {w \in {"blind"} : BlindSave(s)}
     \/ /\ SaveFails
        /\ doubled' = doubled \cup {w \in {"unsaved"} : sent[s] > 0}
        /\ lost' = lost \cup {w \in {"unsaved"} : sent[s] = 0}
  /\ Exit(s)
  /\ UNCHANGED <<db, row, service, time, earned>>

\* The client kills the server.
Kill(s) ==
  /\ pc[s] \notin {"new", "gone"}
  /\ doubled' = doubled \cup {w \in {"killed"} : sent[s] > 0}
  /\ lost' = lost \cup {w \in {"killed"} : sent[s] = 0 /\ saved[s] > flushed[s]}
  /\ Exit(s)
  /\ UNCHANGED <<ledger, time, earned>>

-----------------------------------------------------------------------------
(* A command: the flush of main, then update_global_db (init and sync).    *)

CommandLoad(c) ==
  /\ pc[c] = "new"
  /\ TakeToUpload(c, With(0), time, "post", "save")
  /\ at' = [at EXCEPT ![c] = time]
  /\ UNCHANGED <<ledger, time, totals, sent, reads, history>>

CommandPost(c) == pc[c] = "post" /\ Post(c, "save")

CommandSave(c) ==
  /\ pc[c] = "save"
  /\ \/ /\ Saved(c)
        /\ doubled' = doubled \cup {w \in {"race"} : SameUploadedTwice(c)}
        /\ lost' = lost \cup {w \in {"blind"} : BlindSave(c)}
     \/ /\ SaveFails
        /\ doubled' = doubled \cup {w \in {"unsaved"} : sent[c] > 0}
        /\ UNCHANGED lost
  /\ DropLocals(c)
  /\ at' = [at EXCEPT ![c] = 0]
  /\ Goto(c, "readDb")
  /\ UNCHANGED <<db, row, service, time, totals, previous, earned>>

ReadDb(c) ==
  /\ pc[c] = "readDb"
  /\ seen' = [seen EXCEPT ![c] = db]
  /\ Goto(c, "readRow")
  /\ UNCHANGED <<ledger, time, totals, at, locals, previous, history>>

ReadRow(c) ==
  /\ pc[c] = "readRow"
  /\ previous' = [previous EXCEPT ![c] = row]
  /\ Goto(c, "writeRow")
  /\ UNCHANGED <<ledger, time, totals, at, locals, seen, history>>

WriteRow(c) ==
  /\ pc[c] = "writeRow"
  /\ row' = seen[c]
  /\ IF seen[c] > previous[c]
     THEN Goto(c, "addLoad") /\ UNCHANGED <<totals, at, locals, reads>>
     ELSE Exit(c)
  /\ UNCHANGED <<db, file, service, time, history>>

AddLoad(c) ==
  /\ pc[c] = "addLoad"
  /\ Take(c, With(seen[c] - previous[c]), "addSave")
  /\ UNCHANGED <<ledger, time, totals, at, sent, reads, history>>

AddSave(c) ==
  /\ pc[c] = "addSave"
  /\ \/ /\ Saved(c)
        /\ doubled' = doubled \cup {"row"}
        /\ lost' = lost \cup {w \in {"blind"} : BlindSave(c)}
     \/ SaveFails /\ UNCHANGED <<doubled, lost>>
  /\ Exit(c)
  /\ UNCHANGED <<db, row, service, time, earned>>

-----------------------------------------------------------------------------
Tick ==
  /\ time < MaxTime
  /\ time' = time + 1
  /\ UNCHANGED <<ledger, pc, totals, at, locals, reads, history>>

ServerStep(s) ==
  Open(s) \/ Register(s) \/ Call(s) \/ ToDb(s) \/ ToRow(s) \/ Gate(s)
  \/ FlushLoad(s) \/ FlushPost(s) \/ FlushSave(s)
  \/ Shutdown(s) \/ ExitLoad(s) \/ ExitPost(s) \/ ExitSave(s) \/ Kill(s)

CommandStep(c) ==
  CommandLoad(c) \/ CommandPost(c) \/ CommandSave(c)
  \/ ReadDb(c) \/ ReadRow(c) \/ WriteRow(c) \/ AddLoad(c) \/ AddSave(c)

LedgerNext ==
  \/ \E s \in Server : ServerStep(s)
  \/ \E c \in Command : CommandStep(c)
  \/ Tick

LedgerSpec == LedgerInit /\ [][LedgerNext]_ledgerVars

-----------------------------------------------------------------------------
(* Properties.                                                             *)

LedgerTypeOK ==
  /\ db \in Nat /\ row \in Nat /\ service \in Nat /\ time \in Nat /\ earned \in Nat
  /\ file \in State \cup {NoFile}
  /\ saved \in [Server -> Nat] /\ flushed \in [Server -> Nat]
  /\ \A s \in Server : flushed[s] <= saved[s]
  /\ cfg \in [Proc -> State] /\ baseline \in [Proc -> State \cup {NoFile}]
  /\ at \in [Proc -> Nat] /\ sent \in [Proc -> Nat] /\ seen \in [Proc -> Nat]
  /\ previous \in [Command -> Nat]

\* A process that is gone owes nothing: Exit clears its totals and its upload.
Owed == SumFunction([s \in Server |-> saved[s] - flushed[s]])
Uploaded == SumFunction(sent)
FileTokens == IF file = NoFile THEN 0 ELSE file.pending

\* Tokens counted, pending or still owed; an upload whose save is to come has
\* not yet been taken off.
Balance == service + FileTokens + Owed - Uploaded

(***************************************************************************)
(* "Nothing is lost by declining to upload": a token that was credited is  *)
(* in the worldwide counter, in the file or in a server that still owes    *)
(* it, unless a server was killed, its last save failed, or an instance    *)
(* that had found no file replaced one.  No interleaving of flushes, saves *)
(* and commands drops one otherwise.                                       *)
(***************************************************************************)
NothingLost == lost = {} => Balance >= earned

(***************************************************************************)
(* A token is counted once, except in the ways the code leaves open: an    *)
(* answer that was lost or a save that failed after the upload counted,    *)
(* two uploads of the same pending count at the same time, a flush that    *)
(* failed and saved the delta it still owes, and a command that met the    *)
(* project's database and row out of step.                                 *)
(***************************************************************************)
NothingCountedTwice == doubled = {} => Balance <= earned

(***************************************************************************)
(* What the comment on maybe_flush_worldwide says: "writing it while       *)
(* last_flushed_tokens stays put would count the same tokens twice", so    *)
(* that the accumulated total is not persisted then.  Retries after failed *)
(* uploads alone would never count a token again.  An upload that fails    *)
(* does persist the total (finding token_retry).                           *)
(***************************************************************************)
RetriesCountOnce == doubled \subseteq {"retry"} => Balance <= earned
=============================================================================
