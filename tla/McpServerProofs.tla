--------------------------- MODULE McpServerProofs ---------------------------
(***************************************************************************)
(* Proofs about the serve loop (McpServer), for any number of requests of  *)
(* each kind and any number of permits: types, the three ways in which an  *)
(* answer or a checkpoint could be missed, and that the loop implements    *)
(* RequestService.                                                         *)
(***************************************************************************)
EXTENDS McpServer, FiniteSetTheorems, TLAPS

LEMMA AppendElements ==
  ASSUME NEW S, NEW s \in Seq(S), NEW x \in S
  PROVE  Elements(Append(s, x)) = Elements(s) \cup {x}
  BY DEF Elements

LEMMA TailElements ==
  ASSUME NEW S, NEW s \in Seq(S), s # <<>>
  PROVE  /\ Head(s) \in S /\ Tail(s) \in Seq(S)
         /\ Elements(s) = Elements(Tail(s)) \cup {Head(s)}
<1>1. /\ Len(s) \in Nat \ {0} /\ Head(s) = s[1] /\ Tail(s) \in Seq(S)
      /\ Len(Tail(s)) = Len(s) - 1
      /\ \A i \in 1..Len(Tail(s)) : Tail(s)[i] = s[i + 1]
  OBVIOUS
<1>2. \A i \in 1..Len(s) : i # 1 => i - 1 \in 1..Len(Tail(s)) /\ s[i] = Tail(s)[i - 1]
  BY <1>1
<1>3. \A i \in 1..Len(Tail(s)) : i + 1 \in 1..Len(s)
  BY <1>1
<1>4. 1 \in 1..Len(s) /\ s[1] \in S
  BY <1>1
<1>5. ASSUME NEW x \in Elements(s) PROVE x \in Elements(Tail(s)) \cup {Head(s)}
  <2>1. PICK i \in 1..Len(s) : x = s[i]
    BY DEF Elements
  <2> QED
    BY <2>1, <1>1, <1>2 DEF Elements
<1>6. Elements(Tail(s)) \cup {Head(s)} \subseteq Elements(s)
  BY <1>1, <1>3, <1>4 DEF Elements
<1> QED
  BY <1>1, <1>4, <1>5, <1>6

-----------------------------------------------------------------------------
(* Type correctness.                                                       *)

LEMMA PermitsBound ==
  ASSUME TypeOK, NEW r \in Spawned
  PROVE  /\ Cardinality(permits) < MaxReads => Cardinality(permits \cup {r}) <= MaxReads
         /\ Cardinality(permits \ {r}) <= MaxReads
<1>1. IsFiniteSet(permits)
  BY FS_Subset, RequestAssumption DEF TypeOK, Request, Spawned
<1>2. Cardinality(permits) \in Nat
  BY <1>1, FS_CardinalityType
<1>3. Cardinality(permits \cup {r}) \in {Cardinality(permits), Cardinality(permits) + 1}
  BY <1>1, <1>2, FS_AddElement
<1>4. Cardinality(permits \ {r}) \in {Cardinality(permits), Cardinality(permits) - 1}
  BY <1>1, <1>2, FS_RemoveElement
<1> QED
  BY <1>2, <1>3, <1>4, RequestAssumption DEF TypeOK

\* What the loop holds, when it holds a request.
HeldOK ==
  /\ loop = "admitting" => held \in Spawned
  /\ loop = "handling" => held \in Edit

\* What the proofs use of the kinds of requests.
LEMMA Kinds == /\ Spawned \subseteq Request /\ Edit \subseteq Request
               /\ Spawned \cap Edit = {} /\ Request = Spawned \cup Edit
               /\ Nobody \notin Request
  BY RequestAssumption DEF Request, Spawned

LEMMA InitType == Init => TypeOK /\ HeldOK
<1> SUFFICES ASSUME Init PROVE TypeOK /\ HeldOK
  OBVIOUS
<1>1. Cardinality(permits) <= MaxReads
  BY FS_EmptySet, RequestAssumption DEF Init
<1>2. call \in [Request -> Stage]
  BY DEF Init, Stage
<1>3. lines \in Seq(Request) /\ responses \in Seq(Request)
  BY DEF Init
<1>4. loop \in Loop /\ why \in Reason /\ HeldOK
  BY DEF Init, Loop, Reason, HeldOK
<1>5. /\ inFlight \subseteq Spawned /\ permits \subseteq Spawned /\ written \subseteq Request
      /\ held \in Request \cup {Nobody} /\ lease \in Request \cup {Nobody}
  BY DEF Init
<1>6. /\ open \in BOOLEAN /\ closed \in BOOLEAN /\ overtime \in BOOLEAN
      /\ lazy \in BOOLEAN /\ catchUp \in BOOLEAN
      /\ reindex \in {"never", "running", "done"}
  BY DEF Init
<1> QED
  BY <1>1, <1>2, <1>3, <1>4, <1>5, <1>6 DEF TypeOK

\* A step that moves one call leaves every call at a stage.
LEMMA StepStage ==
  ASSUME TypeOK, NEW r \in Request, NEW stage \in Stage, Step(r, stage)
  PROVE  /\ call' \in [Request -> Stage]
         /\ call'[r] = stage
         /\ \A q \in Request : q # r => call'[q] = call[q]
  BY DEF TypeOK, Step

LEMMA ServeType ==
  TypeOK /\ HeldOK /\ Serve => TypeOK' /\ HeldOK'
<1> SUFFICES ASSUME TypeOK, HeldOK, Serve PROVE TypeOK' /\ HeldOK'
  OBVIOUS
<1> USE DEF TypeOK, HeldOK
<1>1. CASE TakeLine
  <2>1. /\ Head(lines) \in Request /\ Tail(lines) \in Seq(Request)
    BY <1>1, TailElements DEF TakeLine
  <2>2. call' \in [Request -> Stage] /\ loop' \in Loop
    BY <1>1 DEF TakeLine, Step, Stage, Loop
  <2> QED
    BY <1>1, <2>1, <2>2 DEF TakeLine, detached, ending
<1>2. CASE SpawnTask
  <2>1. held \in Spawned /\ held \in Request
    BY <1>2, Kinds DEF SpawnTask
  <2>2. call' \in [Request -> Stage] /\ loop' \in Loop
    BY <1>2 DEF SpawnTask, Step, Stage, Loop
  <2>3. permits' \subseteq Spawned /\ Cardinality(permits') <= MaxReads
    BY <1>2, <2>1, PermitsBound DEF SpawnTask, FreePermit
  <2> QED
    BY <1>2, <2>1, <2>2, <2>3 DEF SpawnTask, queues, detached, ending
<1>3. CASE WriteHandled
  <2>1. held \in Request
    BY <1>3, Kinds DEF WriteHandled
  <2>2. call' \in [Request -> Stage] /\ loop' \in {"parked", "draining"} /\ why' \in Reason
    BY <1>3 DEF WriteHandled, Deliver, Break, Step, Stage, Reason
  <2> QED
    BY <1>3, <2>1, <2>2 DEF WriteHandled, Deliver, Loop, queues, detached
<1>4. CASE WriteResponse
  <2>1. /\ Head(responses) \in Request /\ Tail(responses) \in Seq(Request)
    BY <1>4, TailElements DEF WriteResponse
  <2>2. /\ loop' \in {"parked", "draining"} /\ why' \in Reason
        /\ written' \subseteq Request
    BY <1>4, <2>1 DEF WriteResponse, Deliver, Break, Reason
  <2> QED
    BY <1>4, <2>1, <2>2 DEF WriteResponse, Loop, running, detached
<1>5. CASE InputCloses
  <2>1. loop' \in Loop /\ loop' \notin {"admitting", "handling"} /\ why' \in Reason
    BY <1>5 DEF InputCloses, Break, Loop, Reason, ending
  <2> QED
    BY <1>5, <2>1 DEF InputCloses, queues, running, detached, ending
<1>6. CASE ResponsesEnd
  <2>1. loop' \in Loop /\ loop' \notin {"admitting", "handling"} /\ why' \in Reason
    BY <1>6 DEF ResponsesEnd, Break, Loop, Reason, ending
  <2> QED
    BY <1>6, <2>1 DEF ResponsesEnd, Break, Leave, queues, running, detached
<1>7. CASE DeadlinePasses
  <2>1. loop' \in Loop /\ loop' \notin {"admitting", "handling"} /\ why' \in Reason
    BY <1>7 DEF DeadlinePasses, Break, Loop, Reason, ending
  <2> QED
    BY <1>7, <2>1 DEF DeadlinePasses, queues, running, detached, ending
<1>8. CASE IdleExit
  <2>1. loop' \in {"parked", "draining"} /\ why' \in Reason
    BY <1>8 DEF IdleExit, Break, Reason, ending
  <2>2. /\ held' \in Request \cup {Nobody}
        /\ UNCHANGED <<open, queues, closed, running, written, detached, overtime>>
    BY <1>8 DEF IdleExit, Leave, ending
  <2> QED
    BY <2>1, <2>2 DEF Loop, queues, running, detached
<1>9. CASE Drain
  <2>1. loop' \in Loop /\ loop' \notin {"admitting", "handling"} /\ why' \in Reason
    BY <1>9 DEF Drain, Break, Loop, Reason, ending
  <2> QED
    BY <1>9, <2>1 DEF Drain, queues, running, detached
<1>10. CASE Shutdown
  <2>1. loop' \in Loop /\ loop' \notin {"admitting", "handling"} /\ why' \in Reason
    BY <1>10 DEF Shutdown, Break, Loop, Reason, ending
  <2> QED
    BY <1>10, <2>1 DEF Shutdown, queues, running, detached, ending
<1> QED
  BY <1>1, <1>2, <1>3, <1>4, <1>5, <1>6, <1>7, <1>8, <1>9, <1>10 DEF Serve

LEMMA HandleType ==
  ASSUME TypeOK, HeldOK, NEW r \in Request, Handle(r)
  PROVE  TypeOK' /\ HeldOK'
<1> USE DEF Answer
<1>1. CASE TakeLease(r)
  <2>1. call' \in [Request -> Stage]
    BY <1>1 DEF TakeLease, Step, Stage, TypeOK
  <2> QED
    BY <1>1, <2>1, Kinds DEF TakeLease, TypeOK, HeldOK, Aside, ending, detached
<1>2. CASE maybe_sync_if_stale(r)
  <2>1. call' \in [Request -> Stage]
    BY <1>2 DEF maybe_sync_if_stale, Step, Stage, TypeOK
  <2> QED
    BY <1>2, <2>1 DEF maybe_sync_if_stale, TypeOK, HeldOK, Aside, ending, detached, maybe_reindex_on_version_bump
<1>3. CASE StopWaiting(r)
  <2>1. call' \in [Request -> Stage]
    BY <1>3 DEF StopWaiting, Step, Stage, TypeOK
  <2> QED
    BY <1>3, <2>1, Kinds DEF StopWaiting, TypeOK, HeldOK, Aside, ending, detached, maybe_reindex_on_version_bump
<1>4. CASE Dispatch(r)
  <2>1. call' \in [Request -> Stage]
    BY <1>4 DEF Dispatch, Step, Stage, TypeOK
  <2> QED
    BY <1>4, <2>1, Kinds DEF Dispatch, TypeOK, HeldOK, Aside, ending, detached, Release
<1>5. CASE Panic(r)
  <2>1. call' \in [Request -> Stage]
    BY <1>5 DEF Panic, Step, Stage, TypeOK
  <2> QED
    BY <1>5, <2>1, PermitsBound, Kinds DEF Panic, TypeOK, HeldOK, Aside, ending, detached, Release
<1>6. CASE SendResponse(r)
  <2>1. call' \in [Request -> Stage]
    BY <1>6 DEF SendResponse, Step, Stage, TypeOK
  <2>2. responses' \in Seq(Request)
    BY <1>6 DEF SendResponse, TypeOK
  <2>3. permits' \subseteq Spawned /\ Cardinality(permits') <= MaxReads
    BY <1>6, PermitsBound DEF SendResponse, TypeOK
  <2> QED
    BY <1>6, <2>1, <2>2, <2>3 DEF SendResponse, TypeOK, HeldOK, Aside, ending, detached
<1> QED
  BY <1>1, <1>2, <1>3, <1>4, <1>5, <1>6 DEF Handle

LEMMA StepType == TypeOK /\ HeldOK /\ [Next]_vars => TypeOK' /\ HeldOK'
<1> SUFFICES ASSUME TypeOK, HeldOK, [Next]_vars PROVE TypeOK' /\ HeldOK'
  OBVIOUS
<1>1. CASE Serve
  BY <1>1, ServeType
<1>2. CASE \E r \in Request : Handle(r)
  BY <1>2, HandleType
<1>3. CASE Work
  BY <1>3 DEF Work, CatchUpEnds, LazySyncEnds, ReindexEnds, Background, TypeOK, HeldOK,
              queues, running, ending
<1>4. CASE \E r \in Request : Send(r)
  BY <1>4 DEF Send, Step, Stage, TypeOK, HeldOK, detached, ending
<1>5. CASE CloseInput
  BY <1>5 DEF CloseInput, TypeOK, HeldOK, queues, running, detached, ending
<1>6. CASE Stopped
  BY <1>6 DEF Stopped, Break, Leave, TypeOK, HeldOK, Loop, Reason, queues, running, detached
<1>7. CASE UNCHANGED vars
  BY <1>7 DEF vars, queues, running, detached, ending, TypeOK, HeldOK
<1> QED
  BY <1>1, <1>2, <1>3, <1>4, <1>5, <1>6, <1>7 DEF Next, Outside

\* Every variable stays in range, and never more than MaxReads read-only calls hold
\* a permit of the semaphore.
THEOREM ServerTypeCorrect == Spec => []TypeOK
<1>1. Spec => [](TypeOK /\ HeldOK)
  BY InitType, StepType, PTL DEF Spec
<1> QED
  BY <1>1, PTL

-----------------------------------------------------------------------------
(* The safety invariants.                                                  *)

\* The loop has no reason to have ended while it serves, and holds a request only
\* while it passes it on.
LoopInv ==
  /\ why = "none" <=> loop \in {"parked", "admitting", "handling", "expired"}
  /\ held # Nobody => loop \in {"admitting", "handling"}

\* Where a request is that is not being handled; and after the end of input, every
\* request is settled.
AnswerInv ==
  /\ why = "none" => \A r \in Request :
       /\ call[r] = "sent" => r \in Elements(lines) \/ r = held
       /\ call[r] = "over" => r \in written \/ r \in Elements(responses)
  /\ closed => ~open /\ lines = <<>>
  /\ why = "end of input" => \A r \in Request :
       call[r] \in {"new", "panicked"} \/ (call[r] = "over" /\ r \in written)

\* Calls being handled are counted, or handled by the loop.
BusyInv ==
  /\ \A e \in Edit : call[e] \in Alive => loop = "handling" /\ held = e
  /\ \A r \in Spawned : call[r] \in Busy => r \in inFlight
  /\ loop = "expired" => catchUp
  /\ IdleExitAbandonsNoCall
  /\ CheckpointAfterCalls

IInv == TypeOK /\ HeldOK /\ LoopInv /\ AnswerInv /\ BusyInv

LEMMA InitIInv == Init => IInv
<1> SUFFICES ASSUME Init PROVE IInv
  OBVIOUS
<1>1. TypeOK /\ HeldOK
  BY InitType
<1>2. \A r \in Request : call[r] = "new"
  BY DEF Init
<1>3. LoopInv
  BY DEF Init, LoopInv
<1>4. AnswerInv
  BY <1>2 DEF Init, AnswerInv
<1>5. BusyInv
  BY <1>2, Kinds DEF Init, BusyInv, Alive, Busy, IdleExitAbandonsNoCall, CheckpointAfterCalls
<1> QED
  BY <1>1, <1>3, <1>4, <1>5 DEF IInv

LEMMA LoopStep == TypeOK /\ HeldOK /\ LoopInv /\ [Next]_vars => LoopInv'
<1> SUFFICES ASSUME TypeOK, HeldOK, LoopInv, [Next]_vars PROVE LoopInv'
  OBVIOUS
<1> USE DEF LoopInv
<1>1. CASE Serve
  BY <1>1 DEF Serve, TakeLine, SpawnTask, WriteHandled, WriteResponse, Deliver, InputCloses,
              ResponsesEnd, DeadlinePasses, IdleExit, Drain, Shutdown, Break, Leave, ending
<1>2. ASSUME NEW r \in Request, Handle(r) PROVE LoopInv'
  BY <1>2 DEF Handle, TakeLease, maybe_sync_if_stale, StopWaiting, Dispatch, Panic,
              SendResponse, Aside, ending
<1>3. CASE Work
  BY <1>3 DEF Work, CatchUpEnds, LazySyncEnds, ReindexEnds, Background, ending
<1>4. CASE Outside
  BY <1>4 DEF Outside, Send, CloseInput, Stopped, Break, Leave, ending
<1>5. CASE UNCHANGED vars
  BY <1>5 DEF vars, ending
<1> QED
  BY <1>1, <1>2, <1>3, <1>4, <1>5 DEF Next

\* A stage of one call is all that Step changes.
LEMMA StepFacts ==
  ASSUME TypeOK, NEW r \in Request, NEW stage, Step(r, stage)
  PROVE  /\ call'[r] = stage
         /\ \A q \in Request : q # r => call'[q] = call[q]
  BY DEF TypeOK, Step

LEMMA AnswerStep == IInv /\ [Next]_vars => AnswerInv'
<1> SUFFICES ASSUME IInv, [Next]_vars PROVE AnswerInv'
  OBVIOUS
<1>0. TypeOK /\ HeldOK /\ LoopInv /\ AnswerInv /\ BusyInv
  BY DEF IInv
<1>1. CASE TakeLine
  <2>1. /\ Head(lines) \in Request
        /\ Elements(lines) = Elements(lines') \cup {held'}
    BY <1>0, <1>1, TailElements DEF TakeLine, TypeOK
  <2>2. \A q \in Request : call'[q] = call[q] \/ call'[q] = "lease"
    BY <1>0, <1>1, <2>1, StepFacts DEF TakeLine
  <2>3. held = Nobody /\ why = "none"
    BY <1>0, <1>1 DEF TakeLine, LoopInv
  <2> QED
    BY <1>0, <1>1, <2>1, <2>2, <2>3, Kinds DEF TakeLine, AnswerInv, ending
<1>2. CASE SpawnTask
  <2>1. held \in Request /\ why = "none"
    BY <1>0, <1>2, Kinds DEF SpawnTask, HeldOK, LoopInv
  <2>2. /\ call'[held] \in {"dispatch", "lease"}
        /\ \A q \in Request : q # held => call'[q] = call[q]
    BY <1>0, <1>2, <2>1, StepFacts DEF SpawnTask
  <2> QED
    BY <1>0, <1>2, <2>1, <2>2 DEF SpawnTask, AnswerInv, queues, ending
<1>3. CASE WriteHandled
  <2>1. held \in Request /\ why = "none"
    BY <1>0, <1>3, Kinds DEF WriteHandled, HeldOK, LoopInv
  <2>2. /\ call'[held] = "over"
        /\ \A q \in Request : q # held => call'[q] = call[q]
    BY <1>0, <1>3, <2>1, StepFacts DEF WriteHandled
  <2> QED
    BY <1>0, <1>3, <2>1, <2>2 DEF WriteHandled, Deliver, Break, AnswerInv, queues
<1>4. CASE WriteResponse
  <2>1. /\ Head(responses) \in Request
        /\ Elements(responses) = Elements(responses') \cup {Head(responses)}
    BY <1>0, <1>4, TailElements DEF WriteResponse, TypeOK
  <2>2. why = "none"
    BY <1>0, <1>4 DEF WriteResponse, LoopInv
  <2> QED
    BY <1>0, <1>4, <2>1, <2>2 DEF WriteResponse, Deliver, Break, AnswerInv, running
<1>5. CASE InputCloses
  BY <1>0, <1>5 DEF InputCloses, AnswerInv, queues, running, ending
<1>6. CASE ResponsesEnd
  <2>1. \A r \in Request : call[r] \notin Alive
    BY <1>0, <1>6, Kinds DEF ResponsesEnd, BusyInv
  <2>2. held = Nobody /\ why = "none" /\ lines = <<>> /\ responses = <<>>
    BY <1>0, <1>6 DEF ResponsesEnd, LoopInv, AnswerInv
  <2>3. Elements(<<>>) = {}
    BY DEF Elements
  <2>4. \A r \in Request : call[r] \in {"new", "panicked"} \/ (call[r] = "over" /\ r \in written)
    BY <1>0, <2>1, <2>2, <2>3, Kinds DEF AnswerInv, TypeOK, Stage, Alive, Busy
  <2> QED
    BY <1>0, <1>6, <2>2, <2>4 DEF ResponsesEnd, Break, Leave, AnswerInv, queues, running
<1>7. CASE DeadlinePasses
  BY <1>0, <1>7 DEF DeadlinePasses, AnswerInv, queues, running, ending
<1>8. CASE IdleExit
  <2>1. UNCHANGED <<lines, responses, closed, call, written, open>>
    BY <1>8 DEF IdleExit, Leave, queues, running
  <2>2. why' = "idle" \/ UNCHANGED <<held, why>>
    BY <1>8 DEF IdleExit, Break, ending
  <2> QED
    BY <1>0, <2>1, <2>2 DEF AnswerInv
<1>9. CASE Drain \/ Shutdown
  <2>1. UNCHANGED <<lines, responses, closed, call, written, open, held, why>>
    BY <1>9 DEF Drain, Shutdown, queues, running, ending
  <2> QED
    BY <1>0, <2>1 DEF AnswerInv
<1>10. ASSUME NEW r \in Request, Handle(r) PROVE AnswerInv'
  <2>1. call[r] \in Alive
    BY <1>10 DEF Handle, TakeLease, maybe_sync_if_stale, StopWaiting, Dispatch, Panic,
                 SendResponse, Alive, Busy
  <2>2. /\ UNCHANGED <<open, lines, closed, held, written, why>>
        /\ \A q \in Request : q # r => call'[q] = call[q]
    BY <1>0, <1>10, StepFacts
    DEF Handle, TakeLease, maybe_sync_if_stale, StopWaiting, Dispatch, Panic, SendResponse,
        Answer, Aside, ending
  <2>3. CASE SendResponse(r)
    <3>1. Elements(responses') = Elements(responses) \cup {r} /\ call'[r] = "over"
      BY <1>0, <2>3, AppendElements, StepFacts DEF SendResponse, TypeOK
    <3> QED
      BY <1>0, <2>1, <2>2, <3>1 DEF AnswerInv, Alive, Busy
  <2>4. CASE ~SendResponse(r)
    <3>1. UNCHANGED responses /\ call'[r] \notin {"sent", "over"}
      BY <1>0, <1>10, <2>4, StepFacts
      DEF Handle, TakeLease, maybe_sync_if_stale, StopWaiting, Dispatch, Panic, Answer
    <3> QED
      BY <1>0, <2>1, <2>2, <3>1 DEF AnswerInv, Alive, Busy
  <2> QED
    BY <2>3, <2>4
<1>11. CASE Work
  <2>1. UNCHANGED <<lines, responses, closed, call, written, open, held, why>>
    BY <1>11 DEF Work, CatchUpEnds, LazySyncEnds, ReindexEnds, Background, queues, running,
                 ending
  <2> QED
    BY <1>0, <2>1 DEF AnswerInv
<1>12. ASSUME NEW r \in Request, Send(r) PROVE AnswerInv'
  <2>1. Elements(lines') = Elements(lines) \cup {r}
    BY <1>0, <1>12, AppendElements DEF Send, TypeOK
  <2>2. /\ call'[r] = "sent"
        /\ \A q \in Request : q # r => call'[q] = call[q]
    BY <1>0, <1>12, StepFacts DEF Send
  <2> QED
    BY <1>0, <1>12, <2>1, <2>2 DEF Send, AnswerInv, ending
<1>13. CASE CloseInput
  BY <1>0, <1>13 DEF CloseInput, AnswerInv, queues, running, ending
<1>14. CASE Stopped
  BY <1>0, <1>14 DEF Stopped, Break, Leave, AnswerInv, queues, running
<1>15. CASE UNCHANGED vars
  BY <1>0, <1>15 DEF vars, AnswerInv, queues, running, ending
<1> QED
  BY <1>1, <1>2, <1>3, <1>4, <1>5, <1>6, <1>7, <1>8, <1>9, <1>10, <1>11, <1>12, <1>13,
     <1>14, <1>15 DEF Next, Serve, Outside

LEMMA BusyStep == IInv /\ [Next]_vars => BusyInv'
<1> SUFFICES ASSUME IInv, [Next]_vars PROVE BusyInv'
  OBVIOUS
<1>0. TypeOK /\ HeldOK /\ LoopInv /\ BusyInv
  BY DEF IInv
<1> USE DEF BusyInv, IdleExitAbandonsNoCall, CheckpointAfterCalls
<1>1. CASE TakeLine
  <2>1. Head(lines) \in Request
    BY <1>0, <1>1, TailElements DEF TakeLine, TypeOK
  <2>2. \A q \in Request : \/ call'[q] = call[q]
                           \/ q \in Edit /\ loop' = "handling" /\ held' = q
    BY <1>0, <1>1, <2>1, StepFacts DEF TakeLine
  <2>3. /\ loop = "parked" /\ loop' \in {"admitting", "handling"} /\ why = "none"
        /\ UNCHANGED <<inFlight, catchUp, why, overtime>>
    BY <1>0, <1>1 DEF TakeLine, LoopInv, detached, ending
  <2> QED
    BY <1>0, <2>2, <2>3, Kinds
<1>2. CASE SpawnTask
  <2>1. held \in Spawned /\ why = "none"
    BY <1>0, <1>2, Kinds DEF SpawnTask, HeldOK, LoopInv
  <2>2. \A q \in Request : q # held => call'[q] = call[q]
    BY <1>0, <1>2, <2>1, StepFacts, Kinds DEF SpawnTask
  <2>3. /\ loop = "admitting" /\ loop' = "parked" /\ inFlight' = inFlight \cup {held}
        /\ UNCHANGED <<catchUp, why, overtime>>
    BY <1>2 DEF SpawnTask, detached, ending
  <2> QED
    BY <1>0, <2>1, <2>2, <2>3, Kinds
<1>3. CASE WriteHandled
  <2>1. held \in Edit /\ why = "none"
    BY <1>0, <1>3 DEF WriteHandled, HeldOK, LoopInv
  <2>2. /\ call'[held] = "over"
        /\ \A q \in Request : q # held => call'[q] = call[q]
    BY <1>0, <1>3, <2>1, StepFacts, Kinds DEF WriteHandled
  <2>3. /\ loop' \in {"parked", "draining"} /\ why' \in {"none", "gone"}
        /\ UNCHANGED <<inFlight, catchUp>>
    BY <1>3, <2>1 DEF WriteHandled, Deliver, Break, detached
  <2> QED
    BY <1>0, <2>1, <2>2, <2>3, Kinds DEF Alive, Busy
<1>4. CASE WriteResponse \/ InputCloses \/ DeadlinePasses
  <2>1. /\ loop = "parked" /\ why = "none"
        /\ loop' \in {"parked", "draining", "expired"} /\ why' \in {"none", "gone"}
        /\ loop' = "expired" => catchUp
        /\ UNCHANGED <<call, inFlight, catchUp>>
    BY <1>0, <1>4 DEF WriteResponse, InputCloses, DeadlinePasses, defer_idle_exit, Deliver,
                      Break, LoopInv, running, detached, ending
  <2> QED
    BY <1>0, <2>1
<1>5. CASE ResponsesEnd \/ Stopped
  <2>1. /\ loop = "parked" /\ loop' = "draining" /\ why' \in {"end of input", "stop"}
        /\ UNCHANGED <<call, inFlight, catchUp>>
    BY <1>5 DEF ResponsesEnd, Stopped, Break, Leave, running, detached
  <2> QED
    BY <1>0, <2>1
<1>6. CASE IdleExit
  <2>1. /\ loop = "expired" /\ UNCHANGED <<call, inFlight, catchUp>>
        /\ \/ inFlight = {} /\ loop' = "draining" /\ why' = "idle"
           \/ loop' = "parked" /\ UNCHANGED why
    BY <1>6 DEF IdleExit, Break, Leave, running, detached, ending
  <2>2. why = "none"
    BY <1>0, <2>1 DEF LoopInv
  <2> QED
    BY <1>0, <2>1, <2>2, Kinds DEF Alive, Busy
<1>7. CASE Drain
  <2>1. /\ loop = "draining" /\ loop' = "shutdown"
        /\ overtime' # TRUE => \A r \in Spawned : call[r] \notin Alive
        /\ UNCHANGED <<call, inFlight, catchUp, why>>
    BY <1>7 DEF Drain, running, detached
  <2> QED
    BY <1>0, <2>1, Kinds
<1>8. CASE Shutdown
  <2>1. /\ loop = "shutdown" /\ loop' = "exited"
        /\ UNCHANGED <<call, inFlight, catchUp, why, overtime>>
    BY <1>8 DEF Shutdown, running, detached, ending
  <2> QED
    BY <1>0, <2>1
<1>9. ASSUME NEW r \in Request, Handle(r) PROVE BusyInv'
  <2>1. /\ call[r] \in Alive
        /\ call'[r] \in Busy => call[r] \in Busy
        /\ call'[r] \notin Alive => r \in Spawned
    BY <1>0, <1>9, StepFacts
    DEF Handle, TakeLease, maybe_sync_if_stale, StopWaiting, Dispatch, Panic, SendResponse,
        Answer, Alive, Busy
  <2>2. \A q \in Request : q # r => call'[q] = call[q]
    BY <1>0, <1>9, StepFacts
    DEF Handle, TakeLease, maybe_sync_if_stale, StopWaiting, Dispatch, Panic, SendResponse,
        Answer
  <2>3. /\ UNCHANGED <<loop, held, why, overtime, catchUp>>
        /\ inFlight' = inFlight \/ (inFlight' = inFlight \ {r} /\ call'[r] = "answered")
    BY <1>0, <1>9, StepFacts
    DEF Handle, TakeLease, maybe_sync_if_stale, StopWaiting, Dispatch, Panic, SendResponse,
        Answer, Aside, ending, detached
  <2> QED
    BY <1>0, <2>1, <2>2, <2>3, Kinds DEF Alive, Busy
<1>10. CASE Work
  <2>1. UNCHANGED <<call, inFlight, loop, held, why, overtime>> /\ (catchUp => catchUp')
    BY <1>10 DEF Work, CatchUpEnds, LazySyncEnds, ReindexEnds, Background, running, ending
  <2> QED
    BY <1>0, <2>1
<1>11. ASSUME NEW r \in Request, Send(r) PROVE BusyInv'
  <2>1. /\ call'[r] = "sent" /\ \A q \in Request : q # r => call'[q] = call[q]
        /\ UNCHANGED <<inFlight, loop, held, why, overtime, catchUp>>
    BY <1>0, <1>11, StepFacts DEF Send, detached, ending
  <2> QED
    BY <1>0, <2>1, Kinds DEF Alive, Busy
<1>12. CASE CloseInput \/ UNCHANGED vars
  <2>1. UNCHANGED <<call, inFlight, loop, held, why, overtime, catchUp>>
    BY <1>12 DEF CloseInput, vars, running, detached, ending
  <2> QED
    BY <1>0, <2>1
<1> QED
  BY <1>1, <1>2, <1>3, <1>4, <1>5, <1>6, <1>7, <1>8, <1>9, <1>10, <1>11, <1>12
  DEF Next, Serve, Outside

LEMMA ServerInductive == Spec => []IInv
<1>1. IInv /\ [Next]_vars => IInv'
  BY StepType, LoopStep, AnswerStep, BusyStep DEF IInv
<1> QED
  BY InitIInv, <1>1, PTL DEF Spec

\* No answer is lost at the end of input: the loop leaves only when each request the
\* client sent has its response written, or its handler panicked.
THEOREM EndOfInputLosesNothing == Spec => []EndOfInputAnswersAll
<1>1. IInv => EndOfInputAnswersAll
  BY DEF IInv, AnswerInv, EndOfInputAnswersAll
<1> QED
  BY ServerInductive, <1>1, PTL

\* The idle deadline never ends a server that is handling a call or still catching
\* up: every call being handled is counted, although the two halves of the test are
\* not one step.
THEOREM IdleServerIsIdle == Spec => []IdleExitAbandonsNoCall
<1>1. IInv => IdleExitAbandonsNoCall
  BY DEF IInv, BusyInv
<1> QED
  BY ServerInductive, <1>1, PTL

\* The database is checkpointed under no call, unless the drain ran out of time.
THEOREM CheckpointIsLast == Spec => []CheckpointAfterCalls
<1>1. IInv => CheckpointAfterCalls
  BY DEF IInv, BusyInv
<1> QED
  BY ServerInductive, <1>1, PTL
-----------------------------------------------------------------------------
(* The server implements RequestService.                                   *)

Distinct(s) == \A i, j \in 1..Len(s) : s[i] = s[j] => i = j

LEMMA AppendDistinct ==
  ASSUME NEW S, NEW s \in Seq(S), NEW x \in S, Distinct(s), x \notin Elements(s)
  PROVE  Distinct(Append(s, x))
<1>1. /\ Len(Append(s, x)) = Len(s) + 1 /\ Len(s) \in Nat
      /\ \A i \in 1..Len(s) : Append(s, x)[i] = s[i]
      /\ Append(s, x)[Len(s) + 1] = x
  OBVIOUS
<1> QED
  BY <1>1 DEF Distinct, Elements

LEMMA TailDistinct ==
  ASSUME NEW S, NEW s \in Seq(S), s # <<>>, Distinct(s)
  PROVE  Distinct(Tail(s)) /\ Head(s) \notin Elements(Tail(s))
<1>1. /\ Len(s) \in Nat \ {0} /\ Head(s) = s[1]
      /\ Len(Tail(s)) = Len(s) - 1
      /\ \A i \in 1..Len(Tail(s)) : Tail(s)[i] = s[i + 1] /\ i + 1 \in 1..Len(s)
  OBVIOUS
<1>2. 1 \in 1..Len(s)
  BY <1>1
<1> QED
  BY <1>1, <1>2 DEF Distinct, Elements

\* A request is in one place: sent once into the channel of lines, and taken out of it
\* before it is handled; its answer once in the channel of responses, and taken out of
\* it before it is written.  A read under way holds a permit.
OnceInv ==
  /\ Distinct(lines) /\ Distinct(responses)
  /\ \A r \in Elements(lines) : call[r] = "sent"
  /\ loop = "admitting" => call[held] = "sent" /\ held \notin Elements(lines)
  /\ \A r \in Elements(responses) : r \in Spawned /\ call[r] = "over" /\ r \notin written
  /\ \A r \in written : call[r] = "over"
  /\ \A r \in Spawned : call[r] \in Alive => r \in permits
LEMMA InitOnce == Init => OnceInv
<1> SUFFICES ASSUME Init PROVE OnceInv
  OBVIOUS
<1>1. /\ lines = <<>> /\ responses = <<>> /\ written = {} /\ loop = "parked"
      /\ \A r \in Request : call[r] = "new"
  BY DEF Init
<1>2. Elements(<<>>) = {} /\ Distinct(<<>>)
  BY DEF Elements, Distinct
<1> QED
  BY <1>1, <1>2, Kinds DEF OnceInv, Alive, Busy

LEMMA OnceStep == IInv /\ OnceInv /\ [Next]_vars => OnceInv'
<1> SUFFICES ASSUME IInv, OnceInv, [Next]_vars PROVE OnceInv'
  OBVIOUS
<1>0. TypeOK /\ HeldOK /\ LoopInv /\ BusyInv
  BY DEF IInv
<1> USE DEF OnceInv
<1>1. CASE TakeLine
  <2>1. /\ Head(lines) \in Request /\ Elements(lines) = Elements(lines') \cup {held'}
        /\ held' = Head(lines) /\ held' \notin Elements(lines') /\ Distinct(lines')
    BY <1>0, <1>1, TailElements, TailDistinct DEF TakeLine, TypeOK
  <2>2. call[held'] = "sent" /\ call'[held'] # "over"
    BY <1>0, <1>1, <2>1, StepFacts DEF TakeLine
  <2>3. \A q \in Request : q # held' => call'[q] = call[q]
    BY <1>0, <1>1, <2>1, StepFacts DEF TakeLine
  <2>4. /\ loop' = "admitting" => call' = call
        /\ held' \in Spawned => call' = call
        /\ UNCHANGED <<responses, written, permits>>
    BY <1>1, <2>1, Kinds DEF TakeLine
  <2>5. Elements(lines) \subseteq Request /\ written \subseteq Request
    BY <1>0 DEF TypeOK, Elements
  <2>6. \A r \in Elements(lines') : call'[r] = "sent"
    BY <2>1, <2>3, <2>5
  <2>7. loop' = "admitting" => call'[held'] = "sent"
    BY <2>2, <2>4
  <2>8. \A r \in Elements(responses) \cup written : call'[r] = "over"
    BY <2>2, <2>3, <2>5, Kinds
  <2>9. \A r \in Spawned : call'[r] = call[r]
    BY <2>1, <2>3, <2>4, Kinds
  <2> QED
    BY <2>1, <2>4, <2>6, <2>7, <2>8, <2>9
<1>2. CASE SpawnTask
  <2>1. held \in Spawned /\ call[held] = "sent" /\ held \notin Elements(lines)
    BY <1>0, <1>2 DEF SpawnTask, HeldOK
  <2>2. /\ call'[held] \in Busy
        /\ \A q \in Request : q # held => call'[q] = call[q]
    BY <1>0, <1>2, <2>1, StepFacts, Kinds DEF SpawnTask, Busy
  <2>3. /\ loop' = "parked" /\ permits' = permits \cup {held}
        /\ UNCHANGED <<lines, responses, written>>
    BY <1>2 DEF SpawnTask, queues
  <2>4. Elements(lines) \subseteq Request
    BY <1>0 DEF TypeOK, Elements
  <2> QED
    BY <1>0, <2>1, <2>2, <2>3, <2>4, Kinds DEF TypeOK
<1>3. CASE WriteHandled
  <2>1. held \in Edit /\ call[held] = "answered" /\ held \notin Spawned
    BY <1>0, <1>3, Kinds DEF WriteHandled, HeldOK
  <2>2. /\ call'[held] = "over"
        /\ \A q \in Request : q # held => call'[q] = call[q]
    BY <1>0, <1>3, <2>1, StepFacts, Kinds DEF WriteHandled
  <2>3. /\ loop' \in {"parked", "draining"} /\ written' \subseteq written \cup {held}
        /\ UNCHANGED <<lines, responses, permits>>
    BY <1>3 DEF WriteHandled, Deliver, Break, queues
  <2>4. Elements(lines) \subseteq Request
    BY <1>0 DEF TypeOK, Elements
  <2> QED
    BY <1>0, <2>1, <2>2, <2>3, <2>4, Kinds DEF TypeOK
<1>4. CASE WriteResponse
  <2>1. /\ Elements(responses) = Elements(responses') \cup {Head(responses)}
        /\ Head(responses) \notin Elements(responses') /\ Distinct(responses')
    BY <1>0, <1>4, TailElements, TailDistinct DEF WriteResponse, TypeOK
  <2>2. /\ loop' \in {"parked", "draining"} /\ written' \subseteq written \cup {Head(responses)}
        /\ UNCHANGED <<lines, call, permits>>
    BY <1>4 DEF WriteResponse, Deliver, Break, running
  <2> QED
    BY <2>1, <2>2
<1>5. CASE InputCloses \/ ResponsesEnd \/ DeadlinePasses \/ IdleExit \/ Drain \/ Shutdown
           \/ Work \/ CloseInput \/ Stopped \/ UNCHANGED vars
  <2>1. UNCHANGED <<lines, responses, call, written, permits>>
    BY <1>5 DEF InputCloses, ResponsesEnd, DeadlinePasses, IdleExit, Drain, Shutdown, Work,
                CatchUpEnds, LazySyncEnds, ReindexEnds, Background, CloseInput, Stopped,
                Leave, queues, running, vars
  <2>2. loop' = "admitting" => loop = "admitting" /\ held' = held
    BY <1>5 DEF InputCloses, ResponsesEnd, DeadlinePasses, IdleExit, Drain, Shutdown, Work,
                CatchUpEnds, LazySyncEnds, ReindexEnds, Background, CloseInput, Stopped,
                Break, ending, vars
  <2> QED
    BY <2>1, <2>2
<1>6. ASSUME NEW r \in Request, Handle(r) PROVE OnceInv'
  <2>1. call[r] \in Alive
    BY <1>6 DEF Handle, TakeLease, maybe_sync_if_stale, StopWaiting, Dispatch, Panic,
                SendResponse, Alive, Busy
  <2>2. /\ UNCHANGED <<lines, held, loop, written>>
        /\ \A q \in Request : q # r => call'[q] = call[q]
    BY <1>0, <1>6, StepFacts
    DEF Handle, TakeLease, maybe_sync_if_stale, StopWaiting, Dispatch, Panic, SendResponse,
        Answer, Aside
  <2>3. /\ permits \ {r} \subseteq permits'
        /\ call'[r] \in Alive => permits' = permits
    BY <1>0, <1>6, StepFacts
    DEF Handle, TakeLease, maybe_sync_if_stale, StopWaiting, Dispatch, Panic, SendResponse,
        Answer, Alive, Busy
  <2>4. \/ UNCHANGED responses
        \/ /\ r \in Spawned /\ call'[r] = "over" /\ r \notin Elements(responses)
           /\ Distinct(responses') /\ Elements(responses') = Elements(responses) \cup {r}
    <3>1. r \notin Elements(responses)
      BY <2>1 DEF Alive, Busy
    <3>2. CASE SendResponse(r)
      BY <1>0, <3>1, <3>2, AppendElements, AppendDistinct, StepFacts DEF SendResponse, TypeOK
    <3>3. CASE ~SendResponse(r)
      BY <1>6, <3>3
      DEF Handle, TakeLease, maybe_sync_if_stale, StopWaiting, Dispatch, Panic
    <3> QED
      BY <3>2, <3>3
  <2>5. /\ r \notin Elements(lines) /\ r \notin Elements(responses) /\ r \notin written
        /\ loop = "admitting" => r # held
    BY <2>1 DEF Alive, Busy
  <2>6. Elements(lines) \subseteq Request /\ written \subseteq Request
    BY <1>0 DEF TypeOK, Elements
  <2> QED
    BY <1>0, <2>1, <2>2, <2>3, <2>4, <2>5, <2>6, Kinds DEF HeldOK
<1>7. ASSUME NEW r \in Request, Send(r) PROVE OnceInv'
  <2>1. /\ call[r] = "new" /\ call'[r] = "sent"
        /\ \A q \in Request : q # r => call'[q] = call[q]
        /\ UNCHANGED <<responses, loop, held, permits, written>>
    BY <1>0, <1>7, StepFacts DEF Send
  <2>2. r \notin Elements(lines)
    BY <2>1
  <2>3. Elements(lines') = Elements(lines) \cup {r} /\ Distinct(lines')
    BY <1>0, <1>7, <2>2, AppendElements, AppendDistinct DEF Send, TypeOK
  <2>4. Elements(lines) \subseteq Request /\ written \subseteq Request
    BY <1>0 DEF TypeOK, Elements
  <2> QED
    BY <1>0, <2>1, <2>2, <2>3, <2>4, Kinds DEF HeldOK, Alive, Busy
<1> QED
  BY <1>1, <1>2, <1>3, <1>4, <1>5, <1>6, <1>7 DEF Next, Serve, Outside

LEMMA OnceInductive == Spec => []OnceInv
  BY ServerInductive, InitOnce, OnceStep, PTL DEF Spec
\* What the client sees of a request depends on its stage, the channel of responses
\* and what was written.
LEMMA Unmoved ==
  ASSUME NEW r, call'[r] = call[r], r \in written' <=> r \in written,
         r \in Elements(responses') <=> r \in Elements(responses)
  PROVE  Progress(r)' = Progress(r)
  BY DEF Progress

LEMMA SeenMoves ==
  ASSUME NEW r \in Request, NEW from, NEW to, Progress(r) = from, Progress(r)' = to,
         \A q \in Request : q # r => Progress(q)' = Progress(q)
  PROVE  Service!Move(r, from, to)
<1>1. Seen[r] = from
  BY DEF Seen
<1>2. Seen' = [Seen EXCEPT ![r] = to]
  BY DEF Seen
<1> QED
  BY <1>1, <1>2 DEF Service!Move

LEMMA SeenStays ==
  ASSUME \A q \in Request : Progress(q)' = Progress(q)
  PROVE  Seen' = Seen
  BY DEF Seen

\* A line taken by the loop and put back in front of the rest.
LEMMA FrontOfQueue ==
  ASSUME NEW S, NEW s \in Seq(S), NEW x \in S
  PROVE  /\ Head(<<x>> \o s) = x /\ Tail(<<x>> \o s) = s /\ <<x>> \o s # <<>>
         /\ \A y \in S : <<x>> \o Append(s, y) = Append(<<x>> \o s, y)
         /\ s # <<>> => <<Head(s)>> \o Tail(s) = s
<1>1. <<x>> \in Seq(S) /\ Len(<<x>>) = 1
  OBVIOUS
<1>2. Head(<<x>> \o s) = x /\ <<x>> \o s # <<>>
  BY <1>1
<1>3. Tail(<<x>> \o s) = s
  BY <1>1
<1>4. ASSUME NEW y \in S PROVE <<x>> \o Append(s, y) = Append(<<x>> \o s, y)
  BY <1>1
<1>5. ASSUME s # <<>> PROVE <<Head(s)>> \o Tail(s) = s
  BY <1>5
<1> QED
  BY <1>2, <1>3, <1>4, <1>5
LEMMA NobodyEdits ==
  ASSUME IInv, loop # "handling"
  PROVE  Service!At("working", Edit) = {}
<1>1. \A e \in Edit : call[e] \in Stage /\ call[e] \notin Alive
  BY Kinds DEF IInv, BusyInv, TypeOK
<1>2. \A e \in Edit : Progress(e) # "working"
  BY <1>1 DEF Progress, Alive, Busy, Stage
<1> QED
  BY <1>2, Kinds DEF Service!At, Seen

LEMMA WorkingHoldPermits ==
  ASSUME IInv, OnceInv
  PROVE  /\ Service!At("working", Spawned) \subseteq permits
         /\ Cardinality(Service!At("working", Spawned)) \in Nat
         /\ Cardinality(Service!At("working", Spawned)) <= Cardinality(permits)
         /\ Cardinality(permits) \in Nat
<1>1. \A r \in Spawned : call[r] \in Stage /\ (Progress(r) = "working" => call[r] \in Alive)
  BY Kinds DEF IInv, TypeOK, Progress, Alive, Busy, Stage
<1>2. Service!At("working", Spawned) \subseteq permits
  BY <1>1, Kinds DEF OnceInv, Service!At, Seen
<1>3. IsFiniteSet(permits)
  BY FS_Subset, RequestAssumption DEF IInv, TypeOK, Request, Spawned
<1> QED
  BY <1>2, <1>3, FS_Subset, FS_CardinalityType

LEMMA SameCardinality == \A S : Service!Cardinality(S) = Cardinality(S)
  BY DEF Service!Cardinality, Cardinality

LEMMA SameRequests == Service!Request = Request
  BY DEF Service!Request, Request, Spawned

\* The loop's steps on a line.
LEMMA TakeLineRefines ==
  ASSUME IInv, OnceInv, TakeLine
  PROVE  Service!TakeUp \/ UNCHANGED Service!vars
<1>0. TypeOK /\ HeldOK /\ LoopInv /\ BusyInv
  BY DEF IInv
<1> SUFFICES ASSUME NEW r, r = Head(lines)
             PROVE  Service!TakeUp \/ UNCHANGED Service!vars
  OBVIOUS
<1>1. /\ r \in Request /\ lines \in Seq(Request) /\ lines # <<>> /\ Waiting = lines
      /\ why = "none" /\ call[r] = "sent"
      /\ UNCHANGED <<open, why, responses, written>>
  BY <1>0, TailElements DEF TakeLine, TypeOK, LoopInv, OnceInv, Waiting, ending
<1>2. CASE r \in Spawned
  <2>1. call' = call /\ loop' = "admitting" /\ held' = r /\ lines' = Tail(lines)
    BY <1>2, Kinds DEF TakeLine
  <2>2. Seen' = Seen
    BY <1>1, <2>1, Unmoved, SeenStays
  <2>3. Waiting' = <<r>> \o Tail(lines)
    BY <2>1 DEF Waiting
  <2>4. Waiting' = Waiting
    BY <1>1, <2>3, FrontOfQueue
  <2> QED
    BY <1>1, <2>2, <2>4 DEF Service!vars
<1>3. CASE r \notin Spawned
  <2>1. /\ Step(r, "lease") /\ loop' = "handling" /\ lines' = Tail(lines)
        /\ loop # "handling"
    BY <1>3 DEF TakeLine
  <2>2. /\ Progress(r) = "queued" /\ Progress(r)' = "working"
        /\ \A q \in Request : q # r => Progress(q)' = Progress(q)
    <3>1. call'[r] = "lease" /\ \A q \in Request : q # r => call'[q] = call[q]
      BY <1>0, <1>1, <2>1, StepFacts
    <3> QED
      BY <1>1, <3>1, Unmoved DEF Progress, Busy
  <2>3. Service!Move(r, "queued", "working")
    BY <1>1, <2>2, SeenMoves
  <2>4. Waiting' = Tail(Waiting)
    BY <1>1, <2>1 DEF Waiting
  <2> QED
    BY <1>1, <1>3, <2>1, <2>3, <2>4, NobodyEdits DEF Service!TakeUp
<1> QED
  BY <1>2, <1>3

LEMMA SpawnTaskRefines ==
  ASSUME IInv, OnceInv, SpawnTask
  PROVE  Service!TakeUp
<1>0. TypeOK /\ HeldOK /\ LoopInv /\ BusyInv
  BY DEF IInv
<1> SUFFICES ASSUME NEW r, r = held
             PROVE  Service!TakeUp
  OBVIOUS
<1>1. /\ r \in Spawned /\ r \in Request /\ lines \in Seq(Request)
      /\ Waiting = <<r>> \o lines /\ Waiting' = lines
      /\ why = "none" /\ call[r] = "sent" /\ loop # "handling"
      /\ UNCHANGED <<open, why, responses, written>>
  BY <1>0, Kinds DEF SpawnTask, TypeOK, HeldOK, LoopInv, OnceInv, Waiting, ending, queues
<1>2. Head(Waiting) = r /\ Tail(Waiting) = lines /\ Waiting # <<>>
  BY <1>1, FrontOfQueue
<1>3. /\ Progress(r) = "queued" /\ Progress(r)' = "working"
      /\ \A q \in Request : q # r => Progress(q)' = Progress(q)
  <2>1. call'[r] \in Busy /\ \A q \in Request : q # r => call'[q] = call[q]
    BY <1>0, <1>1, StepFacts DEF SpawnTask, Busy
  <2> QED
    BY <1>1, <2>1, Unmoved DEF Progress, Busy
<1>4. Service!Move(r, "queued", "working")
  BY <1>1, <1>3, SeenMoves
<1>5. Cardinality(Service!At("working", Spawned)) < MaxReads
  BY WorkingHoldPermits, RequestAssumption DEF SpawnTask, FreePermit
<1>6. Service!At("working", Edit) = {}
  BY <1>1, NobodyEdits
<1>7. Service!Move(Head(Waiting), "queued", "working")
  BY <1>2, <1>4 DEF Service!Move
<1>8. Waiting' = Tail(Waiting)
  BY <1>1, <1>2
<1> QED
  BY <1>1, <1>2, <1>5, <1>6, <1>7, <1>8, SameCardinality DEF Service!TakeUp

\* The loop's steps on an answer.
LEMMA WriteHandledRefines ==
  ASSUME IInv, OnceInv, WriteHandled
  PROVE  \E r \in Request : Service!Reply(r) \/ Service!ReplyFails(r)
<1>0. TypeOK /\ HeldOK /\ LoopInv /\ BusyInv
  BY DEF IInv
<1> SUFFICES ASSUME NEW r, r = held
             PROVE  r \in Request /\ (Service!Reply(r) \/ Service!ReplyFails(r))
  OBVIOUS
<1>1. /\ r \in Edit /\ r \in Request /\ r \notin Spawned /\ why = "none"
      /\ call[r] = "answered" /\ r \notin Elements(responses) /\ r \notin written
      /\ loop # "admitting" /\ loop' # "admitting"
      /\ UNCHANGED <<open, lines, responses>>
  BY <1>0, Kinds DEF WriteHandled, Deliver, Break, HeldOK, LoopInv, OnceInv, queues
<1>2. call'[r] = "over" /\ \A q \in Request : q # r => call'[q] = call[q]
  BY <1>0, <1>1, StepFacts DEF WriteHandled
<1>3. Waiting' = Waiting
  BY <1>1 DEF Waiting
<1>4. Progress(r) = "working"
  BY <1>1 DEF Progress, Busy
<1>5. CASE written' = written \cup {r} /\ why' = why
  <2>1. Progress(r)' = "answered"
    BY <1>1, <1>2, <1>5 DEF Progress, Busy
  <2>2. \A q \in Request : q # r => Progress(q)' = Progress(q)
    BY <1>1, <1>2, <1>5, Unmoved
  <2>3. Service!Move(r, "working", "answered")
    BY <1>1, <1>4, <2>1, <2>2, SeenMoves
  <2> QED
    BY <1>1, <1>3, <1>5, <2>3 DEF Service!Reply, Service!Leaves
<1>6. CASE ~open /\ why' = "gone" /\ written' = written
  <2>1. Progress(r)' = "dropped"
    BY <1>1, <1>2, <1>6 DEF Progress, Busy
  <2>2. \A q \in Request : q # r => Progress(q)' = Progress(q)
    BY <1>1, <1>2, <1>6, Unmoved
  <2>3. Service!Move(r, "working", "dropped")
    BY <1>1, <1>4, <2>1, <2>2, SeenMoves
  <2> QED
    BY <1>1, <1>3, <1>6, <2>3 DEF Service!ReplyFails, Service!Leaves
<1> QED
  BY <1>5, <1>6 DEF WriteHandled, Deliver, Break
LEMMA WriteResponseRefines ==
  ASSUME IInv, OnceInv, WriteResponse
  PROVE  \E r \in Request : Service!Reply(r) \/ Service!ReplyFails(r)
<1>0. TypeOK /\ LoopInv
  BY DEF IInv
<1> SUFFICES ASSUME NEW r, r = Head(responses)
             PROVE  r \in Request /\ (Service!Reply(r) \/ Service!ReplyFails(r))
  OBVIOUS
<1>1. /\ Elements(responses) = Elements(responses') \cup {r}
      /\ r \notin Elements(responses')
  BY <1>0, TailElements, TailDistinct DEF WriteResponse, TypeOK, OnceInv
<1>2. /\ r \in Spawned /\ r \in Request /\ r \notin Edit
      /\ call[r] = "over" /\ r \notin written /\ why = "none"
      /\ loop # "admitting" /\ loop' # "admitting"
      /\ UNCHANGED <<open, lines, call>>
  BY <1>0, <1>1, Kinds DEF WriteResponse, Deliver, Break, LoopInv, OnceInv, running
<1>3. Waiting' = Waiting
  BY <1>2 DEF Waiting
<1>4. Progress(r) = "ready"
  BY <1>1, <1>2 DEF Progress, Busy
<1>5. CASE written' = written \cup {r} /\ why' = why
  <2>1. Progress(r)' = "answered"
    BY <1>1, <1>2, <1>5 DEF Progress, Busy
  <2>2. \A q \in Request : q # r => Progress(q)' = Progress(q)
    BY <1>1, <1>2, <1>5, Unmoved
  <2>3. Service!Move(r, "ready", "answered")
    BY <1>2, <1>4, <2>1, <2>2, SeenMoves
  <2> QED
    BY <1>2, <1>3, <1>5, <2>3 DEF Service!Reply, Service!Leaves
<1>6. CASE ~open /\ why' = "gone" /\ written' = written
  <2>1. Progress(r)' = "dropped"
    BY <1>1, <1>2, <1>6 DEF Progress, Busy
  <2>2. \A q \in Request : q # r => Progress(q)' = Progress(q)
    BY <1>1, <1>2, <1>6, Unmoved
  <2>3. Service!Move(r, "ready", "dropped")
    BY <1>2, <1>4, <2>1, <2>2, SeenMoves
  <2> QED
    BY <1>2, <1>3, <1>6, <2>3 DEF Service!ReplyFails, Service!Leaves
<1> QED
  BY <1>2, <1>5, <1>6 DEF WriteResponse, Deliver, Break

\* The ways to end.
LEMMA EndRefines ==
  ASSUME IInv, OnceInv, ResponsesEnd \/ IdleExit \/ Stopped
  PROVE  \/ \E reason \in {"end of input", "stop", "idle"} : Service!End(reason)
         \/ UNCHANGED Service!vars
<1>0. TypeOK /\ LoopInv /\ AnswerInv /\ BusyInv
  BY DEF IInv
<1>1. /\ why = "none" /\ loop \in {"parked", "expired"} /\ loop' # "admitting"
      /\ UNCHANGED <<open, lines, responses, call, written>>
  BY <1>0 DEF ResponsesEnd, IdleExit, Stopped, Break, Leave, LoopInv, queues, running
<1>2. UNCHANGED <<open, Waiting, Seen>>
  <2>1. \A r \in Request : Progress(r)' = Progress(r)
    BY <1>1, Unmoved
  <2> QED
    BY <1>1, <2>1, SeenStays DEF Waiting
<1>3. Service!At("working", Edit) = {}
  BY <1>1, NobodyEdits
<1>4. CASE ResponsesEnd
  <2>1. ~open /\ Waiting = <<>>
    BY <1>0, <1>4 DEF ResponsesEnd, AnswerInv, Waiting
  <2>2. ASSUME NEW r \in Spawned PROVE Progress(r) \notin {"working", "ready"}
    <3>1. call[r] \in Stage /\ call[r] \notin Alive /\ responses = <<>>
      BY <1>0, <1>4, Kinds DEF ResponsesEnd, TypeOK
    <3>2. Elements(<<>>) = {}
      BY DEF Elements
    <3> QED
      BY <3>1, <3>2 DEF Progress, Alive, Busy, Stage
  <2>3. Service!At("working", Spawned) = {} /\ Service!At("ready", Spawned) = {}
    BY <2>2, Kinds DEF Service!At, Seen
  <2>4. why' = "end of input"
    BY <1>4 DEF ResponsesEnd, Break
  <2> QED
    BY <1>1, <1>2, <1>3, <2>1, <2>3, <2>4 DEF Service!End
<1>5. CASE Stopped
  BY <1>1, <1>2, <1>3, <1>5 DEF Service!End, Stopped, Break
<1>6. CASE IdleExit /\ why' = "idle" /\ inFlight = {}
  <2>1. ASSUME NEW r \in Spawned PROVE Progress(r) # "working"
    <3>1. call[r] \in Stage /\ call[r] \notin Busy /\ r \notin Edit
      BY <1>0, <1>6, Kinds DEF BusyInv, TypeOK
    <3> QED
      BY <3>1 DEF Progress, Busy, Stage
  <2>2. Service!At("working", Spawned) = {}
    BY <2>1, Kinds DEF Service!At, Seen
  <2> QED
    BY <1>1, <1>2, <1>3, <1>6, <2>2 DEF Service!End
<1>7. CASE IdleExit /\ why' = why
  BY <1>2, <1>7 DEF Service!vars
<1> QED
  BY <1>4, <1>5, <1>6, <1>7 DEF IdleExit, Break, ending

\* The steps of a call: the client sees the end of the work on a read, and no other.
LEMMA HandleRefines ==
  ASSUME IInv, OnceInv, NEW r \in Request, Handle(r)
  PROVE  Service!WorkEnds(r) \/ UNCHANGED Service!vars
<1>0. TypeOK
  BY DEF IInv
<1>1. /\ UNCHANGED <<open, lines, loop, held, written, why>>
      /\ \A q \in Request : q # r => call'[q] = call[q]
  BY <1>0, StepFacts
  DEF Handle, TakeLease, maybe_sync_if_stale, StopWaiting, Dispatch, Panic, SendResponse,
      Answer, Aside, ending
<1>2. Waiting' = Waiting
  BY <1>1 DEF Waiting
<1>3. CASE SendResponse(r)
  <2>1. /\ r \in Spawned /\ r \notin Edit /\ call[r] = "answered" /\ call'[r] = "over"
        /\ Elements(responses') = Elements(responses) \cup {r} /\ r \notin written
    BY <1>0, <1>3, AppendElements, StepFacts, Kinds DEF SendResponse, TypeOK, OnceInv
  <2>2. Progress(r) = "ready" /\ Progress(r)' = "ready"
    BY <1>1, <2>1 DEF Progress, Busy
  <2>3. \A q \in Request : q # r => Progress(q)' = Progress(q)
    BY <1>1, <2>1, Unmoved
  <2>4. Seen' = Seen
    BY <2>2, <2>3, SeenStays
  <2> QED
    BY <1>1, <1>2, <2>4 DEF Service!vars
<1>4. CASE ~SendResponse(r)
  <2>1. /\ call[r] \in Busy /\ UNCHANGED responses
        /\ call'[r] \in Busy \cup {"answered"} \/ (r \in Spawned /\ call'[r] = "panicked")
    BY <1>0, <1>4, StepFacts
    DEF Handle, TakeLease, maybe_sync_if_stale, StopWaiting, Dispatch, Panic, Answer, Busy
  <2>2. \A q \in Request : q # r => Progress(q)' = Progress(q)
    BY <1>1, <2>1, Unmoved
  <2>3. Progress(r) = "working"
    BY <2>1 DEF Progress, Busy
  <2>4. CASE call'[r] \in Busy \/ (call'[r] = "answered" /\ r \in Edit)
    <3>1. Progress(r)' = "working"
      BY <2>4 DEF Progress, Busy
    <3> QED
      BY <1>1, <1>2, <2>2, <2>3, <3>1, SeenStays DEF Service!vars
  <2>5. CASE call'[r] = "answered" /\ r \notin Edit
    <3>1. Progress(r)' = "ready"
      BY <2>5 DEF Progress, Busy
    <3>2. Service!Move(r, "working", "ready")
      BY <2>2, <2>3, <3>1, SeenMoves
    <3> QED
      BY <1>1, <1>2, <2>5, <3>2, Kinds DEF Service!WorkEnds
  <2>6. CASE r \in Spawned /\ call'[r] = "panicked"
    <3>1. Progress(r)' = "dropped"
      BY <2>6 DEF Progress, Busy
    <3>2. Service!Move(r, "working", "dropped")
      BY <2>2, <2>3, <3>1, SeenMoves
    <3> QED
      BY <1>1, <1>2, <2>6, <3>2 DEF Service!WorkEnds
  <2> QED
    BY <2>1, <2>4, <2>5, <2>6
<1> QED
  BY <1>3, <1>4

LEMMA SendRefines ==
  ASSUME IInv, OnceInv, NEW r \in Request, Send(r)
  PROVE  Service!Ask(r)
<1>0. TypeOK /\ HeldOK
  BY DEF IInv
<1>1. /\ open /\ why = "none" /\ call[r] = "new" /\ call'[r] = "sent"
      /\ lines' = Append(lines, r) /\ lines \in Seq(Request)
      /\ UNCHANGED <<open, why, responses, written, loop, held>>
      /\ \A q \in Request : q # r => call'[q] = call[q]
  BY <1>0, StepFacts DEF Send, ending, TypeOK
<1>2. Progress(r) = "new" /\ Progress(r)' = "queued"
  BY <1>1 DEF Progress, Busy
<1>3. \A q \in Request : q # r => Progress(q)' = Progress(q)
  BY <1>1, Unmoved
<1>4. Service!Move(r, "new", "queued")
  BY <1>2, <1>3, SeenMoves
<1>5. Waiting' = Append(Waiting, r)
  <2>1. CASE loop = "admitting"
    <3>1. held \in Request
      BY <1>0, <2>1, Kinds DEF HeldOK
    <3>2. <<held>> \o Append(lines, r) = Append(<<held>> \o lines, r)
      BY <1>1, <3>1, FrontOfQueue
    <3> QED
      BY <1>1, <2>1, <3>2 DEF Waiting
  <2>2. CASE loop # "admitting"
    BY <1>1, <2>2 DEF Waiting
  <2> QED
    BY <2>1, <2>2
<1> QED
  BY <1>1, <1>4, <1>5 DEF Service!Ask

\* What the client does not see.
LEMMA UnseenRefines ==
  ASSUME IInv, InputCloses \/ DeadlinePasses \/ Drain \/ Shutdown \/ Work \/ UNCHANGED vars
  PROVE  UNCHANGED Service!vars
<1>1. UNCHANGED <<open, lines, responses, call, written, why>>
  BY DEF InputCloses, DeadlinePasses, Drain, Shutdown, Work, CatchUpEnds, LazySyncEnds,
         ReindexEnds, Background, queues, running, ending, vars
<1>2. Waiting' = Waiting
  BY DEF InputCloses, DeadlinePasses, Drain, Shutdown, Work, CatchUpEnds, LazySyncEnds,
         ReindexEnds, Background, queues, running, ending, vars, Waiting
<1>3. Seen' = Seen
  BY <1>1, Unmoved, SeenStays
<1> QED
  BY <1>1, <1>2, <1>3 DEF Service!vars

\* The server implements the service: whatever tasks, channels, permits and background
\* work do, requests are taken up in the order sent and each once, at most MaxReads
\* reads are under way and none is taken up during an edit, an answer is written once,
\* and the server ends only as the service may.
THEOREM ServesAsPromised == Spec => ImplementsRequestService
<1>1. Init => Service!Init
  <2> SUFFICES ASSUME Init PROVE Service!Init
    OBVIOUS
  <2>1. open = TRUE /\ Waiting = <<>> /\ why = "none" /\ \A r \in Request : call[r] = "new"
    BY DEF Init, Waiting
  <2>2. Seen = [r \in Request |-> "new"]
    BY <2>1 DEF Seen, Progress, Busy
  <2> QED
    BY <2>1, <2>2, SameRequests DEF Service!Init
<1>2. IInv /\ OnceInv /\ [Next]_vars => [Service!Next]_(Service!vars)
  <2> SUFFICES ASSUME IInv, OnceInv, [Next]_vars
               PROVE  Service!Next \/ UNCHANGED Service!vars
    OBVIOUS
  <2>1. CASE TakeLine \/ SpawnTask
    BY <2>1, TakeLineRefines, SpawnTaskRefines DEF Service!Next
  <2>2. CASE WriteHandled \/ WriteResponse
    <3>1. \E r \in Request : Service!Reply(r) \/ Service!ReplyFails(r)
      BY <2>2, WriteHandledRefines, WriteResponseRefines
    <3> QED
      BY <3>1, SameRequests DEF Service!Next
  <2>3. CASE ResponsesEnd \/ IdleExit \/ Stopped
    BY <2>3, EndRefines DEF Service!Next
  <2>4. CASE \E r \in Request : Handle(r)
    BY <2>4, HandleRefines, SameRequests DEF Service!Next
  <2>5. CASE \E r \in Request : Send(r)
    BY <2>5, SendRefines, SameRequests DEF Service!Next
  <2>6. CASE CloseInput
    <3>1. UNCHANGED <<lines, responses, call, written, loop, held, why>> /\ open /\ open' = FALSE
      BY <2>6 DEF CloseInput, queues, running, ending
    <3>2. Seen' = Seen /\ Waiting' = Waiting
      BY <3>1, Unmoved, SeenStays DEF Waiting
    <3> QED
      BY <3>1, <3>2 DEF Service!Close, Service!Next
  <2>7. CASE InputCloses \/ DeadlinePasses \/ Drain \/ Shutdown \/ Work \/ UNCHANGED vars
    BY <2>7, UnseenRefines
  <2> QED
    BY <2>1, <2>2, <2>3, <2>4, <2>5, <2>6, <2>7 DEF Next, Serve, Outside
<1> QED
  BY <1>1, <1>2, ServerInductive, OnceInductive, PTL
  DEF Spec, ImplementsRequestService, Service!Spec
=============================================================================
