------------------------------ MODULE McpServer ------------------------------
(***************************************************************************)
(* The serve loop of the MCP server (src/src/mcp/server.rs): a reader task *)
(* feeds the loop; the loop answers a request itself or, when the tool     *)
(* only reads, spawns a task for it, writes what the tasks answer, and     *)
(* leaves on end of input, on a signal, on a dead client or when idle.     *)
(* Local tool calls pass one at a time through the branch lease            *)
(* (BranchContext) and may start detached work: the lazy sync and the      *)
(* version reindex, beside the startup catch-up sync.                      *)
(*                                                                         *)
(* The semaphore and the in-flight counter are the sets of requests that   *)
(* hold them.  Lines the loop answers or drops at once, without a graph,   *)
(* change nothing here and are left out; so is the time between checks.    *)
(***************************************************************************)
EXTENDS Sequences, FiniteSets, Integers

CONSTANTS
  Read,         \* calls of read-only tools on the local graph
  Snapshot,     \* calls of read-only tools on a graph named by graph_root
  Edit,         \* calls of the other tools on the local graph
  MaxReads,     \* MAX_CONCURRENT_READS
  IdleTimeout,  \* whether --idle-timeout-secs is given
  Nobody

Request == Read \cup Snapshot \cup Edit
Spawned == Read \cup Snapshot

ASSUME RequestAssumption ==
  /\ Read \cap Snapshot = {} /\ Edit \cap Spawned = {}
  /\ Nobody \notin Request
  /\ IsFiniteSet(Request)
  /\ MaxReads \in Nat \ {0}
  /\ IdleTimeout \in BOOLEAN

VARIABLES
  open,       \* the client still holds the server's standard input open
  lines,      \* the line channel
  closed,     \* input_closed; the loop's response sender is dropped with it
  loop,       \* where the serve loop is
  held,       \* the request the loop has taken and not passed on
  call,       \* per request: how far its handling is
  inFlight,   \* the requests counted by in_flight
  permits,    \* the requests holding a permit of the semaphore
  lease,      \* who holds the branch lease
  responses,  \* the response channel
  written,    \* the requests whose response reached the client
  lazy,       \* a lazy sync is running: lazy_sync_in_flight
  catchUp,    \* startup_catch_up_done
  reindex,    \* the version reindex: "never", "running" or "done"
  why,        \* why the loop ended
  overtime    \* the shutdown did not wait for every request

queues == <<lines, responses>>
running == <<call, inFlight, permits, lease>>
detached == <<lazy, catchUp, reindex>>
ending == <<why, overtime>>
vars == <<open, queues, closed, loop, held, running, written,
          detached, ending>>

Init ==
  /\ open = TRUE /\ closed = FALSE
  /\ lines = <<>> /\ responses = <<>>
  /\ loop = "parked" /\ held = Nobody
  /\ call = [r \in Request |-> "new"]
  /\ inFlight = {} /\ permits = {} /\ written = {}
  /\ lease = Nobody
  /\ lazy = FALSE /\ catchUp = FALSE /\ reindex = "never"
  /\ why = "none" /\ overtime = FALSE

\* The request is being handled.
Busy == {"lease", "fresh", "lazy", "dispatch"}
\* The request's task has not ended: it still holds a response sender.
Alive == Busy \cup {"answered"}

\* The process has not exited.
Up == loop # "exited"

Step(r, stage) == call' = [call EXCEPT ![r] = stage]

-----------------------------------------------------------------------------
(* The client.                                                             *)

\* What is sent after the loop has ended is read by nobody: left out.
Send(r) ==
  /\ open /\ call[r] = "new" /\ why = "none"
  /\ Step(r, "sent")
  /\ lines' = Append(lines, r)
  /\ UNCHANGED <<open, responses, closed, loop, held, inFlight, permits, lease,
                 written, detached, ending>>

CloseInput ==
  /\ Up /\ open /\ open' = FALSE
  /\ UNCHANGED <<queues, closed, loop, held, running, written, detached,
                 ending>>

-----------------------------------------------------------------------------
(* The serve loop.                                                         *)

Break(reason) == loop' = "draining" /\ why' = reason

\* A call of a read-only tool waits for a permit, and the loop with it; any other
\* call is handled by the loop.
TakeLine ==
  /\ loop = "parked" /\ ~closed /\ lines # <<>>
  /\ LET r == Head(lines) IN
       /\ lines' = Tail(lines)
       /\ held' = r
       /\ \/ r \in Spawned /\ loop' = "admitting" /\ UNCHANGED call
          \/ r \in Edit /\ loop' = "handling" /\ Step(r, "lease")
  /\ UNCHANGED <<open, responses, closed, inFlight, permits, lease,
                 written, detached, ending>>

\* Mutant of FreePermit: one read too many.
FreePermit_OneMore == Cardinality(permits) <= MaxReads

FreePermit == Cardinality(permits) < MaxReads

SpawnTask ==
  /\ loop = "admitting" /\ FreePermit
  /\ permits' = permits \cup {held}
  /\ inFlight' = inFlight \cup {held}
  /\ Step(held, IF held \in Snapshot THEN "dispatch" ELSE "lease")
  /\ loop' = "parked" /\ held' = Nobody
  /\ UNCHANGED <<open, queues, closed, lease, written, detached, ending>>

\* The client may be gone: the write fails and ends the loop.
Deliver(r) ==
  \/ written' = written \cup {r} /\ loop' = "parked" /\ UNCHANGED why
  \/ ~open /\ Break("gone") /\ UNCHANGED written

WriteHandled ==
  /\ loop = "handling" /\ call[held] = "answered"
  /\ Step(held, "over")
  /\ Deliver(held)
  /\ held' = Nobody
  /\ UNCHANGED <<open, queues, closed, inFlight, permits, lease,
                 detached, overtime>>

WriteResponse ==
  /\ loop = "parked" /\ responses # <<>>
  /\ responses' = Tail(responses)
  /\ Deliver(Head(responses))
  /\ UNCHANGED <<open, lines, closed, held, running, detached, overtime>>

\* Mutant of InputCloses: end of input ends the loop at once.
InputCloses_Leaves ==
  /\ loop = "parked" /\ ~closed /\ ~open /\ lines = <<>>
  /\ closed' = TRUE /\ Break("end of input")
  /\ UNCHANGED <<open, queues, held, running, written, detached, overtime>>

\* End of input: the loop drops its response sender.
InputCloses ==
  /\ loop = "parked" /\ ~closed /\ ~open /\ lines = <<>>
  /\ closed' = TRUE
  /\ UNCHANGED <<open, queues, loop, held, running, written, detached,
                 ending>>

Leave == /\ held' = Nobody
         /\ UNCHANGED <<open, queues, closed, running, written, detached,
                        overtime>>

\* The response channel is empty and nobody can send on it any more.
ResponsesEnd ==
  /\ loop = "parked" /\ closed /\ responses = <<>>
  /\ \A r \in Spawned : call[r] \notin Alive
  /\ Break("end of input") /\ Leave

\* A signal or the orphan watchdog, retained until the loop parks.
Stopped == loop = "parked" /\ Break("stop") /\ Leave

defer_idle_exit == ~catchUp \/ reindex = "running"

\* The deadline passes while the loop is parked, with no startup work running.
\* When some is, the deadline is set again: nothing changes.
DeadlinePasses ==
  /\ IdleTimeout /\ loop = "parked" /\ ~defer_idle_exit
  /\ loop' = "expired"
  /\ UNCHANGED <<open, queues, closed, held, running, written, detached,
                 ending>>

\* Mutant of IdleExit: the test before calls ran concurrently.
IdleExit_IgnoresCalls ==
  /\ loop = "expired" /\ Break("idle") /\ Leave

\* The second half of the test: in_flight is read after the flags.
IdleExit ==
  /\ loop = "expired"
  /\ \/ inFlight = {} /\ Break("idle") /\ Leave
     \/ /\ inFlight # {} /\ loop' = "parked"
        /\ UNCHANGED <<open, queues, closed, held, running, written,
                       detached, ending>>

\* Mutant of Drain: the tasks are not waited for.
Drain_NoWait ==
  /\ loop = "draining" /\ loop' = "shutdown"
  /\ UNCHANGED <<open, queues, closed, held, running, written, detached, ending>>

\* The tasks still running are given five seconds.
Drain ==
  /\ loop = "draining"
  /\ \/ (\A r \in Spawned : call[r] \notin Alive) /\ UNCHANGED overtime
     \/ (\E r \in Spawned : call[r] \in Alive) /\ overtime' = TRUE
  /\ loop' = "shutdown"
  /\ UNCHANGED <<open, queues, closed, held, running, written, detached, why>>

\* shutdown persists the counters and checkpoints; then the process exits.
Shutdown ==
  /\ loop = "shutdown" /\ loop' = "exited"
  /\ UNCHANGED <<open, queues, closed, held, running, written, detached,
                 ending>>

-----------------------------------------------------------------------------
(* A tool call.                                                            *)

\* The loop, the channels and the background work are left alone.
Aside == UNCHANGED <<open, lines, closed, loop, held, written, ending>>

\* Mutant of Answer: the counter is not decremented.
Answer_KeepsCount(r) == Step(r, "answered") /\ UNCHANGED inFlight

\* handle_request returns; a spawned call stops being counted.
Answer(r) ==
  /\ Step(r, "answered")
  /\ inFlight' = inFlight \ {r}

\* The lease is for the startup graph, which is kept fresh; or for another
\* branch's graph; or the branch cannot be prepared or is refused.
TakeLease(r) ==
  /\ Up /\ call[r] = "lease" /\ lease = Nobody
  /\ \/ /\ lease' = r
        /\ \E stage \in {"fresh", "dispatch"} : Step(r, stage)
        /\ UNCHANGED inFlight
     \/ Answer(r) /\ UNCHANGED lease
  /\ Aside /\ UNCHANGED <<responses, permits, detached>>

\* The first call that finishes its freshness check starts the reindex.
maybe_reindex_on_version_bump ==
  reindex' = (IF reindex = "never" THEN "running" ELSE reindex)

\* A check may be due; if no lazy sync is in flight, it starts one.
maybe_sync_if_stale(r) ==
  /\ Up /\ call[r] = "fresh"
  /\ \/ ~lazy /\ lazy' = TRUE /\ Step(r, "lazy") /\ UNCHANGED reindex
     \/ Step(r, "dispatch") /\ maybe_reindex_on_version_bump /\ UNCHANGED lazy
  /\ Aside /\ UNCHANGED <<responses, inFlight, permits, lease, catchUp>>

\* The lazy sync ended or the call's budget did.
StopWaiting(r) ==
  /\ Up /\ call[r] = "lazy"
  /\ Step(r, "dispatch") /\ maybe_reindex_on_version_bump
  /\ Aside /\ UNCHANGED <<responses, inFlight, permits, lease, lazy, catchUp>>

Release(r) == lease' = (IF lease = r THEN Nobody ELSE lease)

Dispatch(r) ==
  /\ Up /\ call[r] = "dispatch"
  /\ Answer(r) /\ Release(r)
  /\ Aside /\ UNCHANGED <<responses, permits, detached>>

\* Mutant of Panic: the lease is not released by unwinding.
Panic_KeepsLease(r) ==
  /\ Up /\ r \in Spawned /\ call[r] = "dispatch"
  /\ Step(r, "panicked")
  /\ permits' = permits \ {r}
  /\ Aside /\ UNCHANGED <<responses, inFlight, lease, detached>>

\* A handler panics: its task ends uncounted and unanswered.
Panic(r) ==
  /\ Up /\ r \in Spawned /\ call[r] = "dispatch"
  /\ Step(r, "panicked") /\ Release(r)
  /\ permits' = permits \ {r}
  /\ Aside /\ UNCHANGED <<responses, inFlight, detached>>

SendResponse(r) ==
  /\ Up /\ r \in Spawned /\ call[r] = "answered"
  /\ responses' = Append(responses, r)
  /\ permits' = permits \ {r}
  /\ Step(r, "over")
  /\ Aside /\ UNCHANGED <<inFlight, lease, detached>>

-----------------------------------------------------------------------------
(* The detached work: work that panics never says that it is done.         *)

Background ==
  /\ Up
  /\ UNCHANGED <<open, queues, closed, loop, held, running, written, ending>>

CatchUpEnds ==
  ~catchUp /\ catchUp' = TRUE /\ Background /\ UNCHANGED <<lazy, reindex>>

LazySyncEnds ==
  lazy /\ lazy' = FALSE /\ Background /\ UNCHANGED <<catchUp, reindex>>

ReindexEnds ==
  /\ reindex = "running" /\ reindex' = "done"
  /\ Background /\ UNCHANGED <<lazy, catchUp>>

-----------------------------------------------------------------------------
Handle(r) == \/ TakeLease(r) \/ maybe_sync_if_stale(r) \/ StopWaiting(r)
             \/ Dispatch(r) \/ Panic(r) \/ SendResponse(r)

Serve == \/ TakeLine \/ SpawnTask \/ WriteHandled \/ WriteResponse \/ InputCloses
         \/ ResponsesEnd \/ DeadlinePasses \/ IdleExit \/ Drain \/ Shutdown

Outside == (\E r \in Request : Send(r)) \/ CloseInput \/ Stopped

Work == CatchUpEnds \/ LazySyncEnds \/ ReindexEnds

Next == Serve \/ (\E r \in Request : Handle(r)) \/ Work \/ Outside

\* What select! waits for, the deadline aside.
Wake == TakeLine \/ WriteResponse \/ InputCloses \/ ResponsesEnd

\* The runtime runs every task that can run and handlers return; a call that waits
\* for the lazy sync has a budget.  Detached work may never end.
\* The deadline is a fresh timer each time the loop parks, so it does not win
\* over a ready branch for ever.  The client and the signals need do nothing.
Fairness ==
  /\ WF_vars(Serve) /\ SF_vars(Wake)
  /\ \A r \in Request : WF_vars(Handle(r))

Spec == Init /\ [][Next]_vars
FairSpec == Spec /\ Fairness

-----------------------------------------------------------------------------
(* Properties.                                                             *)

Stage == {"new", "sent", "over", "panicked", "lease", "fresh", "lazy", "dispatch",
          "answered"}
Loop == {"parked", "admitting", "handling", "expired", "draining", "shutdown", "exited"}
Reason == {"none", "end of input", "stop", "gone", "idle"}

\* Every variable is in range; never more than MaxReads requests hold a permit.
TypeOK ==
  /\ open \in BOOLEAN /\ closed \in BOOLEAN /\ overtime \in BOOLEAN
  /\ lines \in Seq(Request) /\ responses \in Seq(Request)
  /\ loop \in Loop /\ held \in Request \cup {Nobody} /\ lease \in Request \cup {Nobody}
  /\ call \in [Request -> Stage]
  /\ inFlight \subseteq Spawned /\ written \subseteq Request
  /\ permits \subseteq Spawned /\ Cardinality(permits) <= MaxReads
  /\ lazy \in BOOLEAN /\ catchUp \in BOOLEAN
  /\ reindex \in {"never", "running", "done"}
  /\ why \in Reason

\* A client that closes its end loses no answer: when the loop ends at the end of
\* input, every request sent was answered, unless its handler panicked.
EndOfInputAnswersAll ==
  why = "end of input" =>
    \A r \in Request : call[r] \in {"new", "panicked"} \/ r \in written

\* "A server with a request in flight is not idle": the idle deadline never ends
\* the server under a call that is being handled, nor under the catch-up sync.  (It
\* may under a reindex: a call that starts one and returns between the two halves
\* of the test escapes both.)
IdleExitAbandonsNoCall ==
  why = "idle" => /\ \A r \in Request : call[r] \notin Busy
                  /\ catchUp

\* "They hold the database, and the shutdown checkpoints it": when the server
\* shuts down no call is being handled, unless the five seconds ran out.
CheckpointAfterCalls ==
  loop \in {"shutdown", "exited"} /\ ~overtime =>
    \A r \in Request : call[r] \notin Alive

\* The server leaves once its client has closed the connection, whatever panics.
ClosedConnectionEndsServer == ~open ~> loop = "exited"

\* With a deadline, the server of a silent client leaves once its startup work is
\* done, unless a handler panicked: its call stays counted for ever.
SilentServerLeaves ==
  IdleTimeout /\ []<>~defer_idle_exit =>
    <>(loop = "exited" \/ \E r \in Request : call[r] = "panicked")

\* CHANGELOG.md:176: "Everything that changes the index -- an edit, a rename, a
\* sync -- still runs alone, in the order it arrived."
EditsRunAlone ==
  \A e \in Edit : call[e] = "dispatch" => \A r \in Spawned : call[r] \notin Busy
-----------------------------------------------------------------------------
(* What the client sees of all this is RequestService.                     *)

Elements(s) == {s[i] : i \in 1..Len(s)}

\* A read that waits for a permit is not taken up yet.
Waiting == IF loop = "admitting" THEN <<held>> \o lines ELSE lines

\* An answer is ready from when it is known until it is written.  One that was in
\* the channel again after it was written would be at no stage of the service.
Progress(r) ==
  LET sending == r \in Elements(responses)
  IN  CASE call[r] = "new"  -> "new"
        [] call[r] = "sent" -> "queued"
        [] call[r] \in Busy -> "working"
        [] call[r] = "answered" -> IF r \in Edit THEN "working" ELSE "ready"
        [] call[r] = "panicked" -> "dropped"
        [] call[r] = "over" ->
             IF r \in written THEN IF sending THEN "repeated" ELSE "answered"
             ELSE IF sending THEN "ready" ELSE "dropped"

Seen == [r \in Request |-> Progress(r)]

Service == INSTANCE RequestService
             WITH Read <- Spawned, queue <- Waiting, stage <- Seen, ended <- why

\* However tasks, channels, permits and background work interleave, the client sees
\* requests taken up in its order and answered once, never more than MaxReads reads
\* under way, none taken up during an edit, and an end that abandons nothing it
\* should not.
ImplementsRequestService == Service!Spec
=============================================================================
