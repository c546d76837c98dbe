---------------------------- MODULE WorkerPool ------------------------------
(***************************************************************************)
(* The extraction worker pool (src/src/extraction_worker.rs) and the check *)
(* its callers make of its outcome.  A batch of files is shared by threads *)
(* that each drive one worker process over a pair of pipes.  A round trip  *)
(* has a watchdog that kills the worker when the time is up, while the     *)
(* answer may be arriving; a worker that was killed or that died is        *)
(* replaced, and a thread whose replacement cannot be spawned gives up.    *)
(* A shutdown request stops threads from pulling more files.               *)
(*                                                                         *)
(* Files are their positions in the batch.  What a file extracts to is not *)
(* modelled: an answer holds data or not (unreadable file, no extractor).  *)
(***************************************************************************)
EXTENDS Integers

CONSTANTS N,        \* number of files in the batch
          Thread,   \* worker threads, one per worker process
          NoFile

File == 1..N

ASSUME PoolAssumption == N \in Nat /\ NoFile \notin File

VARIABLES
  next,       \* position of the queue's front: the queue holds next..N
  pc,         \* per thread: where it is in worker_thread
  job,        \* per thread: the file in its hands, or NoFile
  worker,     \* per thread: the state of its worker process
  pipe,       \* per thread: the file whose answer waits to be read, or NoFile
  got,        \* per thread: the file whose answer was read, NoFile for an error
  watchdog,   \* per thread: the watchdog of the round trip
  results,    \* the (position, file answered for) pairs pushed to results
  skipped,    \* files reported as timed out or crashed
  empty,      \* files whose answer held no data: recorded nowhere by the code
  cancelled,  \* the process-wide shutdown flag
  caller      \* the caller of extract_files

vars == <<next, pc, job, worker, pipe, got, watchdog, results, skipped, empty,
          cancelled, caller>>

(***************************************************************************)
(* "killed" is a worker its own watchdog killed, "dead" one that exited,   *)
(* crashed or was killed from outside.                                     *)
(***************************************************************************)
WorkerState == {"ready", "busy", "dead", "killed"}
Over == {"left", "gaveUp"}

TypeOK ==
  /\ next \in 1..(N + 1)
  /\ pc \in [Thread -> {"idle", "send", "wait", "read", "judge", "respawn", "drop"} \cup Over]
  /\ job \in [Thread -> File \cup {NoFile}]
  /\ worker \in [Thread -> WorkerState]
  /\ pipe \in [Thread -> File \cup {NoFile}]
  /\ got \in [Thread -> File \cup {NoFile}]
  /\ watchdog \in [Thread -> {"off", "armed", "fired", "done"}]
  /\ results \subseteq File \X File
  /\ skipped \subseteq File
  /\ empty \subseteq File
  /\ cancelled \in BOOLEAN
  /\ caller \in {"waiting", "checking", "writing", "patching", "interrupted"}

Init ==
  /\ next = 1
  /\ pc = [t \in Thread |-> "idle"]
  /\ job = [t \in Thread |-> NoFile]
  /\ worker = [t \in Thread |-> "ready"]
  /\ pipe = [t \in Thread |-> NoFile]
  /\ got = [t \in Thread |-> NoFile]
  /\ watchdog = [t \in Thread |-> "off"]
  /\ results = {} /\ skipped = {} /\ empty = {}
  /\ cancelled = FALSE
  /\ caller = "waiting"

Outcome == <<results, skipped, empty>>
RoundTrip == <<pipe, got, watchdog>>

-----------------------------------------------------------------------------
(* The loop of worker_thread.                                              *)

\* The shutdown check, then the front of the queue.
Pull(t) ==
  /\ pc[t] = "idle" /\ ~cancelled /\ next <= N
  /\ job' = [job EXCEPT ![t] = next]
  /\ next' = next + 1
  /\ pc' = [pc EXCEPT ![t] = "send"]
  /\ UNCHANGED <<worker, RoundTrip, Outcome, cancelled, caller>>

\* Leaving drops the handle, which closes the worker's stdin and waits.
Leave(t) ==
  /\ pc[t] = "idle" /\ (cancelled \/ next > N)
  /\ pc' = [pc EXCEPT ![t] = "drop"]
  /\ UNCHANGED <<next, job, worker, RoundTrip, Outcome, cancelled, caller>>

\* wait() returns once the worker has exited.
Reap(t) ==
  /\ pc[t] = "drop" /\ worker[t] \in {"dead", "killed"}
  /\ pc' = [pc EXCEPT ![t] = "left"]
  /\ UNCHANGED <<next, job, worker, RoundTrip, Outcome, cancelled, caller>>

\* The request reaches a worker that lives, and the watchdog starts; writing
\* to the pipe of a worker that died is the error of the round trip.
Send(t) ==
  /\ pc[t] = "send"
  /\ \/ /\ worker[t] = "ready"
        /\ worker' = [worker EXCEPT ![t] = "busy"]
        /\ watchdog' = [watchdog EXCEPT ![t] = "armed"]
        /\ pc' = [pc EXCEPT ![t] = "wait"]
     \/ /\ worker[t] \in {"dead", "killed"}
        /\ pc' = [pc EXCEPT ![t] = "judge"]
        /\ UNCHANGED <<worker, watchdog>>
  /\ UNCHANGED <<next, job, pipe, got, Outcome, cancelled, caller>>

\* read_message: the answer in the pipe, or the end of a dead worker's pipe.
Read(t) ==
  /\ pc[t] = "wait"
  /\ \/ pipe[t] # NoFile
     \/ worker[t] \in {"dead", "killed"}
  /\ got' = [got EXCEPT ![t] = pipe[t]]
  /\ pipe' = [pipe EXCEPT ![t] = NoFile]
  /\ pc' = [pc EXCEPT ![t] = "read"]
  /\ UNCHANGED <<next, job, worker, watchdog, Outcome, cancelled, caller>>

\* cancel_tx.send reaches a watchdog that has not fired; the scope then joins
\* the watchdog, so a kill that was decided has been carried out.
JoinWatchdog(t) ==
  /\ pc[t] = "read" /\ watchdog[t] \in {"armed", "done"}
  /\ watchdog' = [watchdog EXCEPT ![t] = IF @ = "armed" THEN "off" ELSE @]
  /\ pc' = [pc EXCEPT ![t] = "judge"]
  /\ UNCHANGED <<next, job, worker, pipe, got, Outcome, cancelled, caller>>

\* Mutant of Verdict: an answer that was read counts, though the watchdog has fired.
Verdict_AnswerFirst(t) == IF got[t] = NoFile THEN "skip" ELSE "answer"

\* What the round trip came to: the flag is read before the result.
Verdict(t) ==
  IF watchdog[t] = "done" \/ got[t] = NoFile THEN "skip" ELSE "answer"

\* The answer goes to results if it holds data.  It is filed at the position
\* of the request, under the path the answer names.
FileAnswer(t) ==
  /\ pc[t] = "judge" /\ Verdict(t) = "answer"
  /\ \/ results' = results \cup {<<job[t], got[t]>>} /\ UNCHANGED empty
     \/ empty' = empty \cup {job[t]} /\ UNCHANGED results
  /\ job' = [job EXCEPT ![t] = NoFile]
  /\ got' = [got EXCEPT ![t] = NoFile]
  /\ pc' = [pc EXCEPT ![t] = "idle"]
  /\ UNCHANGED <<next, worker, pipe, watchdog, skipped, cancelled, caller>>

\* Mutant of Skip: a late answer is kept and the timeout reported as well.
Skip_KeepsLateAnswer(t) ==
  /\ pc[t] = "judge" /\ Verdict(t) = "skip"
  /\ skipped' = skipped \cup {job[t]}
  /\ results' = IF got[t] = NoFile THEN results ELSE results \cup {<<job[t], got[t]>>}
  /\ job' = [job EXCEPT ![t] = NoFile]
  /\ got' = [got EXCEPT ![t] = NoFile]
  /\ pc' = [pc EXCEPT ![t] = "respawn"]
  /\ UNCHANGED <<next, worker, pipe, watchdog, empty, cancelled, caller>>

\* A timeout or a crash: the file is skipped, and the worker replaced.
Skip(t) ==
  /\ pc[t] = "judge" /\ Verdict(t) = "skip"
  /\ skipped' = skipped \cup {job[t]}
  /\ job' = [job EXCEPT ![t] = NoFile]
  /\ got' = [got EXCEPT ![t] = NoFile]
  /\ pc' = [pc EXCEPT ![t] = "respawn"]
  /\ UNCHANGED <<next, worker, pipe, watchdog, results, empty, cancelled, caller>>

\* A new worker has pipes of its own; without one the thread returns.
Respawn(t) ==
  /\ pc[t] = "respawn"
  /\ \/ /\ worker' = [worker EXCEPT ![t] = "ready"]
        /\ pc' = [pc EXCEPT ![t] = "idle"]
     \/ /\ pc' = [pc EXCEPT ![t] = "gaveUp"]
        /\ UNCHANGED worker
  /\ pipe' = [pipe EXCEPT ![t] = NoFile]
  /\ watchdog' = [watchdog EXCEPT ![t] = "off"]
  /\ UNCHANGED <<next, job, got, Outcome, cancelled, caller>>

-----------------------------------------------------------------------------
(* The watchdog of the round trip in flight.                               *)

\* recv_timeout times out: the flag is set first.
WatchdogFires(t) ==
  /\ watchdog[t] = "armed"
  /\ watchdog' = [watchdog EXCEPT ![t] = "fired"]
  /\ UNCHANGED <<next, pc, job, worker, pipe, got, Outcome, cancelled, caller>>

WatchdogKills(t) ==
  /\ watchdog[t] = "fired"
  /\ watchdog' = [watchdog EXCEPT ![t] = "done"]
  /\ worker' = [worker EXCEPT ![t] = "killed"]
  /\ UNCHANGED <<next, pc, job, pipe, got, Outcome, cancelled, caller>>

-----------------------------------------------------------------------------
(* The worker process: worker_main and what can happen to a process.       *)

WorkerAnswers(t) ==
  /\ worker[t] = "busy" /\ pipe[t] = NoFile
  /\ worker' = [worker EXCEPT ![t] = "ready"]
  /\ pipe' = [pipe EXCEPT ![t] = job[t]]
  /\ UNCHANGED <<next, pc, job, got, watchdog, Outcome, cancelled, caller>>

\* A grammar aborts, or the process is killed from outside, busy or not.
WorkerDies(t) ==
  /\ worker[t] \in {"ready", "busy"} /\ pc[t] \notin Over
  /\ worker' = [worker EXCEPT ![t] = "dead"]
  /\ UNCHANGED <<next, pc, job, RoundTrip, Outcome, cancelled, caller>>

\* Mutant of WorkerExits: the handle's drop does not close stdin first.
WorkerExits_StdinOpen(t) ==
  /\ worker[t] = "ready" /\ pc[t] = "left"
  /\ worker' = [worker EXCEPT ![t] = "dead"]
  /\ UNCHANGED <<next, pc, job, RoundTrip, Outcome, cancelled, caller>>

\* End of file on stdin, once the thread has closed it.
WorkerExits(t) ==
  /\ worker[t] = "ready" /\ pc[t] = "drop"
  /\ worker' = [worker EXCEPT ![t] = "dead"]
  /\ UNCHANGED <<next, pc, job, RoundTrip, Outcome, cancelled, caller>>

-----------------------------------------------------------------------------
(* The shutdown request and the caller.                                    *)

RequestShutdown ==
  /\ ~cancelled
  /\ cancelled' = TRUE
  /\ UNCHANGED <<next, pc, job, worker, RoundTrip, Outcome, caller>>

\* extract_files returns when every thread has been joined.  A full index or a
\* full sync looks at the shutdown flag next; a targeted sync writes at once the
\* files it got ("patching") and looks at the flag afterwards.
Join ==
  /\ caller = "waiting" /\ \A t \in Thread : pc[t] \in Over
  /\ caller' \in {"checking", "patching"}
  /\ UNCHANGED <<next, pc, job, worker, RoundTrip, Outcome, cancelled>>

\* Mutant of CheckCancelled: the caller trusts an outcome that came back.
CheckCancelled_Trusting ==
  /\ caller = "checking"
  /\ caller' = "writing"
  /\ UNCHANGED <<next, pc, job, worker, RoundTrip, Outcome, cancelled>>

\* The check of a full operation before it writes what was extracted.
CheckCancelled ==
  /\ caller = "checking"
  /\ caller' = IF cancelled THEN "interrupted" ELSE "writing"
  /\ UNCHANGED <<next, pc, job, worker, RoundTrip, Outcome, cancelled>>

ThreadStep(t) ==
  Pull(t) \/ Leave(t) \/ Reap(t) \/ Send(t) \/ Read(t) \/ JoinWatchdog(t)
  \/ FileAnswer(t) \/ Skip(t) \/ Respawn(t)

WatchdogStep(t) == WatchdogFires(t) \/ WatchdogKills(t)

WorkerStep(t) == WorkerAnswers(t) \/ WorkerDies(t) \/ WorkerExits(t)

Next ==
  \/ \E t \in Thread : ThreadStep(t) \/ WatchdogStep(t) \/ WorkerStep(t)
  \/ RequestShutdown \/ Join \/ CheckCancelled

(***************************************************************************)
(* Threads, timers and the caller run on; a worker exits when its stdin is *)
(* closed.  Nothing makes a worker answer: it may hang on a file for ever. *)
(***************************************************************************)
Fairness ==
  /\ \A t \in Thread : /\ WF_vars(ThreadStep(t))
                       /\ WF_vars(WatchdogStep(t))
                       /\ WF_vars(WorkerExits(t))
  /\ WF_vars(Join \/ CheckCancelled)

Spec == Init /\ [][Next]_vars /\ Fairness

-----------------------------------------------------------------------------
(* Properties.                                                             *)

Answered == {r[1] : r \in results}
InHand == {f \in File : \E t \in Thread : job[t] = f}
Waiting == {f \in File : f >= next}

(***************************************************************************)
(* A file is in one place: waiting, in one thread's hands, extracted,      *)
(* answered without data, or skipped.  A timeout whose answer arrives late *)
(* does not make a file both skipped and extracted, and an answer is filed *)
(* under the file it was computed for, though the thread never compares    *)
(* the path of the answer with the request.                                *)
(***************************************************************************)
FileInOnePlace ==
  /\ File = Waiting \cup InHand \cup Answered \cup empty \cup skipped
  /\ \A r \in results : r[1] = r[2]
  /\ Answered \cap empty = {} /\ (Answered \cup empty) \cap skipped = {}
  /\ Waiting \cap (Answered \cup empty \cup skipped) = {}
  /\ InHand \cap (Waiting \cup Answered \cup empty \cup skipped) = {}
  /\ \A t, u \in Thread : job[t] = job[u] /\ job[t] # NoFile => t = u

(***************************************************************************)
(* "if a worker dies, only the in-flight file is lost": a thread never     *)
(* pulls a file for a worker its own watchdog killed, nor one whose pipe   *)
(* still holds an earlier answer, however the answer and the kill raced.   *)
(***************************************************************************)
FreshWorkerForEachFile ==
  \A t \in Thread :
    pc[t] \in {"idle", "send"} => worker[t] # "killed" /\ pipe[t] = NoFile

(***************************************************************************)
(* A full index or sync writes an outcome to the graph only if every file  *)
(* of the batch was attempted, or every thread gave up for want of a       *)
(* worker: what a shutdown cut short is never written as if it were the    *)
(* batch.                                                                  *)
(***************************************************************************)
WritesWholeBatch ==
  caller = "writing" =>
    \/ File = Answered \cup empty \cup skipped
    \/ \A t \in Thread : pc[t] = "gaveUp"

(***************************************************************************)
(* The pool always returns, whatever hangs or dies: the watchdog unblocks  *)
(* the read, and a worker is never waited for with its stdin open.         *)
(***************************************************************************)
PoolReturns == <>(caller \in {"writing", "patching", "interrupted"})
=============================================================================
