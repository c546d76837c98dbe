------------------------- MODULE WorkerPoolProofs ---------------------------
(***************************************************************************)
(* The extraction worker pool, for every number of files and threads.      *)
(*                                                                         *)
(* ThreadInv ties a thread's place in its loop to its file, pipe, worker   *)
(* and watchdog: it says that only a round trip in flight has an answer or *)
(* a running watchdog behind it, hence that a kill and a late answer       *)
(* always belong to the file the thread still holds. The last part shows   *)
(* that the pool has a bounded number of steps and is never stuck on them. *)
(***************************************************************************)
EXTENDS WorkerPool, TLAPS

ThreadInv ==
  \A t \in Thread :
    /\ job[t] # NoFile <=> pc[t] \in {"send", "wait", "read", "judge"}
    /\ worker[t] = "busy" => pc[t] = "wait" /\ pipe[t] = NoFile
    /\ pipe[t] # NoFile => pc[t] = "wait" /\ pipe[t] = job[t]
    /\ got[t] # NoFile => pc[t] \in {"read", "judge"} /\ got[t] = job[t]
    /\ watchdog[t] \in {"armed", "fired"} => pc[t] \in {"wait", "read"}
    /\ watchdog[t] = "done" => pc[t] \in {"wait", "read", "judge", "respawn"}
    /\ worker[t] = "killed" => watchdog[t] = "done" \/ pc[t] = "gaveUp"
    /\ pc[t] \in {"left", "drop"} => cancelled \/ next > N

CallerInv == caller # "waiting" => \A t \in Thread : pc[t] \in Over

IInv == TypeOK /\ ThreadInv /\ FileInOnePlace /\ CallerInv /\ WritesWholeBatch

-----------------------------------------------------------------------------
LEMMA TypeInit == Init => TypeOK
<1> SUFFICES ASSUME Init PROVE TypeOK
  OBVIOUS
<1>1. next \in 1..(N + 1)
  BY PoolAssumption DEF Init
<1>2. job \in [Thread -> File \cup {NoFile}]
  BY DEF Init
<1>3. pipe \in [Thread -> File \cup {NoFile}]
  BY DEF Init
<1>4. got \in [Thread -> File \cup {NoFile}]
  BY DEF Init
<1>5. QED
  BY <1>1, <1>2, <1>3, <1>4 DEF Init, TypeOK, WorkerState, Over

\* A step leads from typed states to typed states, once the file in a
\* thread's hands is known to be one (ThreadInv).
LEMMA TypeStep == TypeOK /\ ThreadInv /\ [Next]_vars => TypeOK'
<1> SUFFICES ASSUME TypeOK, ThreadInv, [Next]_vars PROVE TypeOK'
  OBVIOUS
<1> USE DEF TypeOK, WorkerState, Over, Outcome, RoundTrip
<1>1. ASSUME NEW t \in Thread, ThreadStep(t) PROVE TypeOK'
  <2>1. CASE Pull(t)
    <3>1. next \in File /\ next + 1 \in 1..(N + 1)
      BY <2>1, PoolAssumption DEF Pull, File
    <3> QED BY <2>1, <3>1 DEF Pull
  <2>2. CASE Leave(t)         BY <2>2 DEF Leave
  <2>3. CASE Reap(t)          BY <2>3 DEF Reap
  <2>4. CASE Send(t)          BY <2>4 DEF Send
  <2>5. CASE Read(t)          BY <2>5 DEF Read
  <2>6. CASE JoinWatchdog(t)  BY <2>6 DEF JoinWatchdog
  <2>7. CASE FileAnswer(t)
    <3>1. job[t] \in File /\ got[t] \in File
      BY <2>7 DEF FileAnswer, Verdict, ThreadInv
    <3> QED BY <2>7, <3>1 DEF FileAnswer
  <2>8. CASE Skip(t)
    <3>1. job[t] \in File
      BY <2>8 DEF Skip, ThreadInv
    <3> QED BY <2>8, <3>1 DEF Skip
  <2>9. CASE Respawn(t)       BY <2>9 DEF Respawn
  <2> QED BY <1>1, <2>1, <2>2, <2>3, <2>4, <2>5, <2>6, <2>7, <2>8, <2>9 DEF ThreadStep
<1>2. ASSUME NEW t \in Thread, WatchdogStep(t) \/ WorkerStep(t) PROVE TypeOK'
  BY <1>2 DEF WatchdogStep, WatchdogFires, WatchdogKills, WorkerStep,
              WorkerAnswers, WorkerDies, WorkerExits
<1>3. CASE RequestShutdown \/ Join \/ CheckCancelled
  BY <1>3 DEF RequestShutdown, Join, CheckCancelled
<1>4. CASE UNCHANGED vars
  BY <1>4 DEF vars
<1> QED BY <1>1, <1>2, <1>3, <1>4 DEF Next

\* Each step keeps every thread's place in step with its round trip.
LEMMA ThreadStepInv == TypeOK /\ ThreadInv /\ [Next]_vars => ThreadInv'
<1> SUFFICES ASSUME TypeOK, ThreadInv, [Next]_vars PROVE ThreadInv'
  OBVIOUS
<1> USE DEF TypeOK, ThreadInv, Over, Outcome, RoundTrip
<1>1. ASSUME NEW t \in Thread, ThreadStep(t) PROVE ThreadInv'
  <2>1. CASE Pull(t)
    <3>1. next # NoFile
      BY <2>1, PoolAssumption DEF Pull, File
    <3> QED BY <2>1, <3>1, PoolAssumption DEF Pull
  <2>2. CASE Leave(t)         BY <2>2 DEF Leave
  <2>3. CASE Reap(t)          BY <2>3 DEF Reap
  <2>4. CASE Send(t)          BY <2>4 DEF Send
  <2>5. CASE Read(t)          BY <2>5 DEF Read
  <2>6. CASE JoinWatchdog(t)  BY <2>6 DEF JoinWatchdog
  <2>7. CASE FileAnswer(t)    BY <2>7 DEF FileAnswer, Verdict
  <2>8. CASE Skip(t)          BY <2>8 DEF Skip
  <2>9. CASE Respawn(t)       BY <2>9 DEF Respawn
  <2> QED BY <1>1, <2>1, <2>2, <2>3, <2>4, <2>5, <2>6, <2>7, <2>8, <2>9 DEF ThreadStep
<1>2. ASSUME NEW t \in Thread, WatchdogStep(t) PROVE ThreadInv'
  BY <1>2 DEF WatchdogStep, WatchdogFires, WatchdogKills
<1>3. ASSUME NEW t \in Thread, WorkerStep(t) PROVE ThreadInv'
  <2>1. CASE WorkerAnswers(t)  BY <2>1 DEF WorkerAnswers
  <2>2. CASE WorkerDies(t)     BY <2>2 DEF WorkerDies
  <2>3. CASE WorkerExits(t)    BY <2>3 DEF WorkerExits
  <2> QED BY <1>3, <2>1, <2>2, <2>3 DEF WorkerStep
<1>4. CASE RequestShutdown \/ Join \/ CheckCancelled
  BY <1>4 DEF RequestShutdown, Join, CheckCancelled
<1>5. CASE UNCHANGED vars
  BY <1>5 DEF vars
<1> QED BY <1>1, <1>2, <1>3, <1>4, <1>5 DEF Next

-----------------------------------------------------------------------------
(* Where the files are.                                                    *)

\* A file between the queue and an outcome is moved, never copied: only
\* Pull, FileAnswer and Skip touch the places.
LEMMA FilesUnmoved ==
  ASSUME FileInOnePlace, UNCHANGED <<next, job, Outcome>>
  PROVE  FileInOnePlace'
BY DEF FileInOnePlace, Answered, InHand, Waiting, Outcome

LEMMA FilesStep ==
  TypeOK /\ ThreadInv /\ FileInOnePlace /\ [Next]_vars => FileInOnePlace'
<1> SUFFICES ASSUME TypeOK, ThreadInv, FileInOnePlace, [Next]_vars
             PROVE  FileInOnePlace'
  OBVIOUS
<1>1. ASSUME NEW t \in Thread, Pull(t) PROVE FileInOnePlace'
  <2>1. /\ next \in File /\ next' = next + 1 /\ job' = [job EXCEPT ![t] = next]
        /\ job[t] = NoFile /\ UNCHANGED Outcome
    BY <1>1, PoolAssumption DEF Pull, TypeOK, ThreadInv, File
  <2>2. Waiting' = Waiting \ {next} /\ next \in Waiting
    BY <2>1, PoolAssumption DEF Waiting, File, TypeOK
  <2>3. InHand' = InHand \cup {next}
    BY <2>1, PoolAssumption DEF InHand, TypeOK
  <2>4. Answered' = Answered /\ UNCHANGED <<results, empty, skipped>>
    BY <2>1 DEF Answered, Outcome
  <2>5. \A u, v \in Thread : job'[u] = job'[v] /\ job'[u] # NoFile => u = v
    <3>1. \A u \in Thread : job[u] # next
      BY <2>2, <2>1, PoolAssumption DEF FileInOnePlace, InHand
    <3> QED BY <3>1, <2>1 DEF FileInOnePlace, TypeOK
  <2> QED BY <2>2, <2>3, <2>4, <2>5 DEF FileInOnePlace
<1>2. ASSUME NEW t \in Thread, FileAnswer(t) PROVE FileInOnePlace'
  <2>1. /\ job[t] \in File /\ got[t] = job[t] /\ UNCHANGED <<next, skipped>>
        /\ job' = [job EXCEPT ![t] = NoFile]
    BY <1>2 DEF FileAnswer, Verdict, TypeOK, ThreadInv
  <2>2. Waiting' = Waiting
    BY <2>1 DEF Waiting
  <2>3. InHand' = InHand \ {job[t]} /\ job[t] \in InHand
    BY <2>1, PoolAssumption DEF InHand, FileInOnePlace, TypeOK
  <2>4. \A u, v \in Thread : job'[u] = job'[v] /\ job'[u] # NoFile => u = v
    BY <2>1 DEF FileInOnePlace, TypeOK
  <2>5. CASE results' = results \cup {<<job[t], got[t]>>} /\ UNCHANGED empty
    <3>1. Answered' = Answered \cup {job[t]}
      <4>1. <<job[t], got[t]>>[1] = job[t]
        OBVIOUS
      <4>2. \A f : f \in Answered' <=> \E r \in results' : f = r[1]
        BY DEF Answered
      <4>3. \A f : f \in Answered <=> \E r \in results : f = r[1]
        BY DEF Answered
      <4> QED BY <2>5, <4>1, <4>2, <4>3
    <3>2. \A r \in results' : r[1] = r[2]
      BY <2>5, <2>1 DEF FileInOnePlace
    <3> QED BY <2>1, <2>2, <2>3, <2>4, <2>5, <3>1, <3>2 DEF FileInOnePlace
  <2>6. CASE empty' = empty \cup {job[t]} /\ UNCHANGED results
    <3>1. Answered' = Answered
      BY <2>6 DEF Answered
    <3> QED BY <2>1, <2>2, <2>3, <2>4, <2>6, <3>1 DEF FileInOnePlace
  <2> QED BY <1>2, <2>5, <2>6 DEF FileAnswer
<1>3. ASSUME NEW t \in Thread, Skip(t) PROVE FileInOnePlace'
  <2>1. /\ job[t] \in File /\ UNCHANGED <<next, results, empty>>
        /\ skipped' = skipped \cup {job[t]} /\ job' = [job EXCEPT ![t] = NoFile]
    BY <1>3 DEF Skip, TypeOK, ThreadInv
  <2>2. Waiting' = Waiting /\ Answered' = Answered
    BY <2>1 DEF Waiting, Answered
  <2>3. InHand' = InHand \ {job[t]} /\ job[t] \in InHand
    BY <2>1, PoolAssumption DEF InHand, FileInOnePlace, TypeOK
  <2>4. \A u, v \in Thread : job'[u] = job'[v] /\ job'[u] # NoFile => u = v
    BY <2>1 DEF FileInOnePlace, TypeOK
  <2> QED BY <2>1, <2>2, <2>3, <2>4 DEF FileInOnePlace
<1>4. CASE UNCHANGED <<next, job, Outcome>>
  BY <1>4, FilesUnmoved
<1>5. ASSUME NEW t \in Thread, ThreadStep(t) PROVE FileInOnePlace'
  BY <1>5, <1>1, <1>2, <1>3, <1>4
  DEF ThreadStep, Leave, Reap, Send, Read, JoinWatchdog, Respawn, Outcome
<1>6. ASSUME NEW t \in Thread, WatchdogStep(t) \/ WorkerStep(t)
      PROVE  UNCHANGED <<next, job, Outcome>>
  BY <1>6 DEF WatchdogStep, WatchdogFires, WatchdogKills, WorkerStep,
              WorkerAnswers, WorkerDies, WorkerExits
<1>7. CASE RequestShutdown \/ Join \/ CheckCancelled \/ UNCHANGED vars
  BY <1>7, <1>4 DEF RequestShutdown, Join, CheckCancelled, vars, Outcome
<1> QED BY <1>4, <1>5, <1>6, <1>7 DEF Next

-----------------------------------------------------------------------------
(* What the caller writes.                                                 *)

\* Once the threads are joined nothing moves but the shutdown flag, so what
\* the caller checked is what it writes.
LEMMA CallerStep ==
  TypeOK /\ ThreadInv /\ FileInOnePlace /\ CallerInv /\ WritesWholeBatch /\ [Next]_vars
     => CallerInv' /\ WritesWholeBatch'
<1> SUFFICES ASSUME TypeOK, ThreadInv, FileInOnePlace, CallerInv, WritesWholeBatch,
                    [Next]_vars
             PROVE  CallerInv' /\ WritesWholeBatch'
  OBVIOUS
<1>1. CASE CheckCancelled
  <2>1. \A t \in Thread : pc[t] \in Over
    BY <1>1 DEF CallerInv, CheckCancelled
  <2>2. InHand = {}
    BY <2>1, PoolAssumption DEF InHand, ThreadInv, Over
  <2>3. ASSUME caller' = "writing", NEW t \in Thread, pc[t] # "gaveUp"
        PROVE  File = Answered \cup empty \cup skipped
    <3>1. next > N
      BY <1>1, <2>1, <2>3 DEF CheckCancelled, ThreadInv, Over
    <3>2. Waiting = {}
      BY <3>1, PoolAssumption DEF Waiting, File, TypeOK
    <3> QED BY <2>2, <3>2 DEF FileInOnePlace
  <2> QED BY <1>1, <2>1, <2>3 DEF CheckCancelled, CallerInv, WritesWholeBatch,
         Answered, Outcome
<1>2. CASE Join
  BY <1>2 DEF Join, CallerInv, WritesWholeBatch
<1>3. CASE RequestShutdown \/ UNCHANGED vars
  BY <1>3 DEF RequestShutdown, vars, Outcome, CallerInv, WritesWholeBatch, Answered
<1>4. ASSUME NEW t \in Thread, ThreadStep(t) PROVE CallerInv' /\ WritesWholeBatch'
  <2>1. pc[t] \notin Over /\ caller' = caller
    BY <1>4 DEF ThreadStep, Pull, Leave, Reap, Send, Read, JoinWatchdog, FileAnswer,
                Skip, Respawn, Over
  <2> QED BY <2>1 DEF CallerInv, WritesWholeBatch
<1>5. ASSUME NEW t \in Thread, WatchdogStep(t) \/ WorkerStep(t)
      PROVE  CallerInv' /\ WritesWholeBatch'
  BY <1>5 DEF WatchdogStep, WatchdogFires, WatchdogKills, WorkerStep, WorkerAnswers,
              WorkerDies, WorkerExits, Outcome, CallerInv, WritesWholeBatch, Answered
<1> QED BY <1>1, <1>2, <1>3, <1>4, <1>5 DEF Next

-----------------------------------------------------------------------------
LEMMA IInvInit == Init => IInv
<1> SUFFICES ASSUME Init PROVE IInv
  OBVIOUS
<1>1. TypeOK
  BY TypeInit
<1>2. ThreadInv /\ CallerInv /\ WritesWholeBatch
  BY DEF Init, ThreadInv, CallerInv, WritesWholeBatch
<1>3. Waiting = File /\ InHand = {} /\ Answered = {} /\ empty = {} /\ skipped = {}
  BY PoolAssumption DEF Init, Waiting, InHand, Answered, File
<1>4. FileInOnePlace
  BY <1>3 DEF Init, FileInOnePlace
<1> QED BY <1>1, <1>2, <1>4 DEF IInv

LEMMA Inductive == Spec => []IInv
<1>1. IInv /\ [Next]_vars => IInv'
  BY TypeStep, ThreadStepInv, FilesStep, CallerStep DEF IInv
<1> QED BY IInvInit, <1>1, PTL DEF Spec

\* The state keeps its types, whatever the number of files and threads.
THEOREM PoolTypeCorrect == Spec => []TypeOK
<1>1. IInv => TypeOK
  BY DEF IInv
<1> QED BY <1>1, Inductive, PTL

\* No file is lost, done twice, or filed under another's name, for every
\* batch and every way the watchdogs, workers and threads interleave.
THEOREM EachFileInOnePlace == Spec => []FileInOnePlace
<1>1. IInv => FileInOnePlace
  BY DEF IInv
<1> QED BY <1>1, Inductive, PTL

\* A thread never asks a worker that its watchdog killed, nor reads an answer
\* left over from an earlier file.
THEOREM WorkersAreFresh == Spec => []FreshWorkerForEachFile
<1>1. IInv => FreshWorkerForEachFile
  BY DEF IInv, ThreadInv, FreshWorkerForEachFile
<1> QED BY <1>1, Inductive, PTL

\* A batch cut short by a shutdown is never written.
THEOREM OnlyWholeBatchesWritten == Spec => []WritesWholeBatch
<1>1. IInv => WritesWholeBatch
  BY DEF IInv
<1> QED BY <1>1, Inductive, PTL

-----------------------------------------------------------------------------
(* What PoolReturns rests on beside the fairness: a thread, its worker and *)
(* its watchdogs run down, and what a thread waits for is on its way.      *)

\* How far a place in worker_thread is from the next pull, or from the end.
PlaceRank(l) ==
  CASE l \in Over -> 0
    [] l = "drop" -> 1
    [] l = "idle" -> 2
    [] l = "respawn" -> 4
    [] l = "judge" -> 5
    [] l = "read" -> 6
    [] l = "wait" -> 7
    [] l = "send" -> 11

\* What the worker and the watchdog of a thread may still do by themselves.
WorkerRank(w) == CASE w = "busy" -> 2 [] w = "ready" -> 1 [] w \in {"dead", "killed"} -> 0
WatchdogRank(d) == CASE d = "armed" -> 2 [] d = "fired" -> 1 [] d \in {"off", "done"} -> 0

Rank(t) == PlaceRank(pc[t]) + WorkerRank(worker[t]) + WatchdogRank(watchdog[t])

\* A bound on the steps that thread t, its worker and its watchdog still take:
\* fewer than sixteen for each file that is in the queue.
StepsLeft(t) == 16 * (N + 1 - next) + Rank(t)

OwnStep(t) == ThreadStep(t) \/ WatchdogStep(t) \/ WorkerStep(t)

LEMMA RankType ==
  /\ TypeOK => \A t \in Thread : Rank(t) \in 0..15
  /\ TypeOK' => \A t \in Thread : Rank(t)' \in 0..15
BY DEF TypeOK, Rank, PlaceRank, WorkerRank, WatchdogRank, WorkerState, Over

LEMMA StepsLeftType == ASSUME TypeOK, NEW t \in Thread PROVE StepsLeft(t) \in Nat
<1>1. Rank(t) \in 0..15 /\ N \in Nat /\ next \in 1..(N + 1)
  BY RankType, PoolAssumption DEF TypeOK
<1>. QED
  BY <1>1 DEF StepsLeft

\* A step of one thread's own takes the next file or goes on in its round trip.
LEMMA OwnStepRanks ==
  ASSUME TypeOK, ThreadInv, NEW t \in Thread, OwnStep(t)
  PROVE  \/ next' = next + 1 /\ next <= N
         \/ next' = next /\ Rank(t)' < Rank(t)
<1> USE DEF TypeOK, WorkerState, Over, RoundTrip, Rank, PlaceRank, WorkerRank, WatchdogRank
<1>1. CASE Pull(t)
  BY <1>1 DEF Pull
<1>2. CASE Leave(t) \/ Reap(t) \/ Read(t)
  BY <1>2 DEF Leave, Reap, Read
<1>3. CASE Send(t)
  <2>1. watchdog[t] \in {"off", "done"}
    BY <1>3 DEF Send, ThreadInv
  <2>. QED
    BY <1>3, <2>1 DEF Send
<1>4. CASE JoinWatchdog(t)
  BY <1>4 DEF JoinWatchdog
<1>5. CASE FileAnswer(t) \/ Skip(t)
  BY <1>5 DEF FileAnswer, Skip
<1>6. CASE Respawn(t)
  BY <1>6 DEF Respawn
<1>7. CASE WatchdogStep(t)
  BY <1>7 DEF WatchdogStep, WatchdogFires, WatchdogKills
<1>8. CASE WorkerStep(t)
  BY <1>8 DEF WorkerStep, WorkerAnswers, WorkerDies, WorkerExits
<1>. QED
  BY <1>1, <1>2, <1>3, <1>4, <1>5, <1>6, <1>7, <1>8 DEF OwnStep, ThreadStep

\* A step of another thread leaves it alone, but may take a file.
LEMMA OtherStepRanks ==
  ASSUME TypeOK, NEW t \in Thread, NEW u \in Thread \ {t}, OwnStep(u)
  PROVE  Rank(t)' = Rank(t) /\ (next' = next \/ next' = next + 1)
<1>1. pc'[t] = pc[t] /\ worker'[t] = worker[t] /\ watchdog'[t] = watchdog[t]
      /\ (next' = next \/ next' = next + 1)
  <2> USE DEF TypeOK, RoundTrip
  <2>1. CASE ThreadStep(u)
    BY <2>1 DEF ThreadStep, Pull, Leave, Reap, Send, Read, JoinWatchdog, FileAnswer, Skip, Respawn
  <2>2. CASE WatchdogStep(u) \/ WorkerStep(u)
    BY <2>2 DEF WatchdogStep, WatchdogFires, WatchdogKills, WorkerStep, WorkerAnswers,
                WorkerDies, WorkerExits
  <2>. QED
    BY <2>1, <2>2 DEF OwnStep
<1>. QED
  BY <1>1 DEF Rank

\* The pool cannot keep itself busy for ever: whatever hangs, dies, is killed or is
\* respawned, every step of a thread, its worker or its watchdog lowers a natural
\* number, and no other step raises it.
THEOREM PoolRunsDown ==
  Spec => [][\A t \in Thread : /\ StepsLeft(t) \in Nat
                               /\ StepsLeft(t)' <= StepsLeft(t)
                               /\ OwnStep(t) => StepsLeft(t)' < StepsLeft(t)]_vars
<1>1. IInv /\ [Next]_vars =>
        [\A t \in Thread : /\ StepsLeft(t) \in Nat
                           /\ StepsLeft(t)' <= StepsLeft(t)
                           /\ OwnStep(t) => StepsLeft(t)' < StepsLeft(t)]_vars
  <2> SUFFICES ASSUME IInv, Next, NEW t \in Thread
               PROVE  /\ StepsLeft(t) \in Nat
                      /\ StepsLeft(t)' <= StepsLeft(t)
                      /\ OwnStep(t) => StepsLeft(t)' < StepsLeft(t)
    BY DEF vars
  <2>1. TypeOK /\ ThreadInv /\ TypeOK'
    BY TypeStep DEF IInv
  <2>2. /\ N \in Nat /\ next \in Int /\ next' \in Int
        /\ Rank(t) \in 0..15 /\ Rank(t)' \in 0..15
    <3>1. Rank(t)' \in 0..15
      BY <2>1, RankType
    <3>. QED
      BY <2>1, <3>1, RankType, PoolAssumption DEF TypeOK
  <2>3. StepsLeft(t) \in Nat
    BY <2>1, StepsLeftType
  <2>4. ASSUME OwnStep(t) PROVE StepsLeft(t)' < StepsLeft(t)
    <3>1. \/ next' = next + 1
          \/ next' = next /\ Rank(t)' < Rank(t)
      BY <2>1, <2>4, OwnStepRanks
    <3>. QED
      BY <2>2, <3>1 DEF StepsLeft
  <2>5. ASSUME NEW u \in Thread \ {t}, OwnStep(u) PROVE StepsLeft(t)' <= StepsLeft(t)
    <3>1. Rank(t)' = Rank(t) /\ (next' = next \/ next' = next + 1)
      BY <2>1, <2>5, OtherStepRanks
    <3>. QED
      BY <2>2, <3>1 DEF StepsLeft
  <2>6. ASSUME RequestShutdown \/ Join \/ CheckCancelled PROVE StepsLeft(t)' = StepsLeft(t)
    BY <2>6 DEF RequestShutdown, Join, CheckCancelled, RoundTrip, StepsLeft, Rank
  <2>7. StepsLeft(t)' \in Int
    BY <2>2 DEF StepsLeft
  <2>. QED
    BY <2>3, <2>4, <2>5, <2>6, <2>7 DEF Next, OwnStep
<1>. QED
  BY <1>1, Inductive, PTL DEF Spec

\* While a thread waits for its worker the watchdog is running or has killed it.
Watched(t) ==
  /\ pc[t] \in {"wait", "read"} => watchdog[t] # "off"
  /\ pc[t] = "wait" /\ watchdog[t] = "done" => worker[t] \in {"dead", "killed"}

\* What a thread cannot go on without is there, or the watchdog brings it about:
\* an answer or the end of a dead worker's pipe; a watchdog to be joined; a worker
\* that is not held up by an earlier file when the thread writes a request to it
\* or waits for its exit.
NotHeldUp(t) ==
  /\ pc[t] = "wait" =>
       pipe[t] # NoFile \/ worker[t] \in {"dead", "killed"} \/ watchdog[t] \in {"armed", "fired"}
  /\ pc[t] = "read" => watchdog[t] \in {"armed", "fired", "done"}
  /\ pc[t] \in {"send", "drop"} => worker[t] # "busy"

LEMMA WatchedStep ==
  ASSUME TypeOK, ThreadInv, \A t \in Thread : Watched(t), [Next]_vars
  PROVE  \A t \in Thread : Watched(t)'
<1> SUFFICES ASSUME NEW t \in Thread PROVE Watched(t)'
  OBVIOUS
<1> USE DEF TypeOK, ThreadInv, Watched, Outcome, RoundTrip
<1>1. ASSUME NEW u \in Thread, ThreadStep(u) PROVE Watched(t)'
  <2>1. CASE Pull(u) \/ Leave(u) \/ Reap(u)   BY <2>1 DEF Pull, Leave, Reap
  <2>2. CASE Send(u)                          BY <2>2 DEF Send
  <2>3. CASE Read(u)                          BY <2>3 DEF Read
  <2>4. CASE JoinWatchdog(u)                  BY <2>4 DEF JoinWatchdog
  <2>5. CASE FileAnswer(u) \/ Skip(u)         BY <2>5 DEF FileAnswer, Skip
  <2>6. CASE Respawn(u)                       BY <2>6 DEF Respawn
  <2>. QED
    BY <1>1, <2>1, <2>2, <2>3, <2>4, <2>5, <2>6 DEF ThreadStep
<1>2. ASSUME NEW u \in Thread, WatchdogStep(u) PROVE Watched(t)'
  BY <1>2 DEF WatchdogStep, WatchdogFires, WatchdogKills
<1>3. ASSUME NEW u \in Thread, WorkerStep(u) PROVE Watched(t)'
  BY <1>3 DEF WorkerStep, WorkerAnswers, WorkerDies, WorkerExits
<1>4. CASE RequestShutdown \/ Join \/ CheckCancelled \/ UNCHANGED vars
  BY <1>4 DEF RequestShutdown, Join, CheckCancelled, vars
<1>. QED
  BY <1>1, <1>2, <1>3, <1>4 DEF Next

\* No thread waits for what nobody brings: the watchdog outlives every wait.
THEOREM NoThreadIsHeldUp == Spec => [](\A t \in Thread : NotHeldUp(t))
<1>1. Init => \A t \in Thread : Watched(t)
  BY DEF Init, Watched
<1>2. IInv /\ (\A t \in Thread : Watched(t)) /\ [Next]_vars => (\A t \in Thread : Watched(t))'
  BY WatchedStep DEF IInv
<1>3. IInv /\ (\A t \in Thread : Watched(t)) => \A t \in Thread : NotHeldUp(t)
  BY DEF IInv, TypeOK, ThreadInv, Watched, NotHeldUp
<1>. QED
  BY <1>1, <1>2, <1>3, Inductive, PTL DEF Spec
=============================================================================
