--------------------------- MODULE RequestService ---------------------------
(***************************************************************************)
(* What the MCP server promises its client, without the tasks, channels,   *)
(* counters and locks that bring it about (mcp/server.rs).  Requests are   *)
(* taken up in the order they were sent, and each once; reads are worked   *)
(* on side by side up to a limit, edits one at a time, and none is taken   *)
(* up while an edit is worked on; every answer is given once, by a server  *)
(* that has not ended.  McpServer implements it.                           *)
(***************************************************************************)
EXTENDS Sequences, FiniteSets, Naturals

CONSTANTS
  Read,      \* requests that only read
  Edit,      \* requests that change something
  MaxReads   \* how many reads are worked on at a time

Request == Read \cup Edit

VARIABLES
  open,      \* the client still sends
  queue,     \* requests not taken up yet, in the order they were sent
  stage,     \* per request: "new", "queued", "working", "ready" (its answer is
             \* known), "answered" or "dropped" (it never will be)
  ended      \* "none", or why the server ended

vars == <<open, queue, stage, ended>>

Init ==
  /\ open = TRUE /\ queue = <<>> /\ ended = "none"
  /\ stage = [r \in Request |-> "new"]

At(s, S) == {r \in S : stage[r] = s}

Move(r, from, to) == stage[r] = from /\ stage' = [stage EXCEPT ![r] = to]

Ask(r) ==
  /\ open /\ ended = "none"
  /\ Move(r, "new", "queued") /\ queue' = Append(queue, r)
  /\ UNCHANGED <<open, ended>>

Close == open /\ open' = FALSE /\ UNCHANGED <<queue, stage, ended>>

TakeUp ==
  /\ ended = "none" /\ queue # <<>>
  /\ At("working", Edit) = {}
  /\ Head(queue) \in Read => Cardinality(At("working", Read)) < MaxReads
  /\ Move(Head(queue), "queued", "working") /\ queue' = Tail(queue)
  /\ UNCHANGED <<open, ended>>

\* The work on a read ends with its answer, or without: it panicked.  Work may end
\* after the server did.
WorkEnds(r) ==
  /\ r \in Read
  /\ Move(r, "working", "ready") \/ Move(r, "working", "dropped")
  /\ UNCHANGED <<open, queue, ended>>

\* The answer to an edit is given by who worked on it.
Leaves(r, to) == Move(r, IF r \in Edit THEN "working" ELSE "ready", to)

Reply(r) ==
  /\ ended = "none" /\ Leaves(r, "answered")
  /\ UNCHANGED <<open, queue, ended>>

\* The client is gone: the answer is lost, and the server ends.
ReplyFails(r) ==
  /\ ended = "none" /\ ~open /\ Leaves(r, "dropped")
  /\ ended' = "gone"
  /\ UNCHANGED <<open, queue>>

\* No edit is cut off.  The end of input ends the server when nothing is left to
\* do or to say; idleness, when nothing is being done; a signal, at once.
End(reason) ==
  /\ ended = "none" /\ ended' = reason
  /\ At("working", Edit) = {}
  /\ reason = "end of input" =>
       ~open /\ queue = <<>> /\ At("working", Read) = {} /\ At("ready", Read) = {}
  /\ reason = "idle" => At("working", Read) = {}
  /\ UNCHANGED <<open, queue, stage>>

Next ==
  \/ Close \/ TakeUp
  \/ \E r \in Request : Ask(r) \/ WorkEnds(r) \/ Reply(r) \/ ReplyFails(r)
  \/ \E reason \in {"end of input", "stop", "idle"} : End(reason)

Spec == Init /\ [][Next]_vars
=============================================================================
