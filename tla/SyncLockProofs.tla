--------------------------- MODULE SyncLockProofs ---------------------------
(***************************************************************************)
(* What holds of the lockfile protocol for any set of processes, with any  *)
(* number of crashes and any leftover lockfile: exclusion, the refinement  *)
(* of AdvisoryLock, and that an attempt has a bounded number of steps.     *)
(***************************************************************************)
EXTENDS SyncLock, TLAPS

USE DEF File, PC, Alive, Inside, NamesLiveProcess, Goto

\* The contents of a lockfile are nothing yet, or the pid of its creator.
OwnerWrites == lockfile # NoFile => lockfile.pid \in {Empty, lockfile.owner}

\* A contender about to unlink has read nothing, or a pid that is still dead.
ReclaimsDead == \A p \in Proc : pc[p] = "reclaiming" => ~NamesLiveProcess(seen[p])

\* The inductive invariant.
IInv == TypeOK /\ OwnerWrites /\ ReclaimsDead /\ HolderOwnsFile

\* Every variable keeps its type in every step.
LEMMA TypePreserved == TypeOK /\ [Next]_vars => TypeOK'
<1> SUFFICES ASSUME TypeOK, [Next]_vars PROVE TypeOK'
  OBVIOUS
<1> USE LockAssumption DEF TypeOK
<1>1. ASSUME NEW p \in Proc, CreateNew(p) PROVE TypeOK'
  BY <1>1 DEF CreateNew
<1>2. ASSUME NEW p \in Proc, WritePid(p) PROVE TypeOK'
  BY <1>2 DEF WritePid
<1>3. ASSUME NEW p \in Proc, ReadPid(p) PROVE TypeOK'
  BY <1>3 DEF ReadPid
<1>4. ASSUME NEW p \in Proc, Refuse(p) PROVE TypeOK'
  BY <1>4 DEF Refuse
<1>5. ASSUME NEW p \in Proc, DeclareStale(p) PROVE TypeOK'
  BY <1>5 DEF DeclareStale
<1>6. ASSUME NEW p \in Proc, Unlink(p) PROVE TypeOK'
  BY <1>6 DEF Unlink
<1>7. ASSUME NEW p \in Proc, Recreate(p) PROVE TypeOK'
  BY <1>7 DEF Recreate
<1>8. ASSUME NEW p \in Proc, Release(p) PROVE TypeOK'
  BY <1>8 DEF Release
<1>9. ASSUME NEW p \in Proc, Poll(p) PROVE TypeOK'
  BY <1>9 DEF Poll
<1>10. ASSUME NEW p \in Proc, TimeOut(p) PROVE TypeOK'
  BY <1>10 DEF TimeOut
<1>11. ASSUME NEW p \in Proc, Crash(p) PROVE TypeOK'
  BY <1>11 DEF Crash
<1>12. CASE UNCHANGED vars
  BY <1>12 DEF vars
<1> QED
  BY <1>1, <1>2, <1>3, <1>4, <1>5, <1>6, <1>7, <1>8, <1>9, <1>10, <1>11, <1>12
  DEF Next, Step

\* The other conjuncts of the invariant, step by step.
LEMMA InvPreserved ==
  IInv /\ [Next]_vars => (OwnerWrites /\ ReclaimsDead /\ HolderOwnsFile)'
<1> SUFFICES ASSUME IInv, [Next]_vars
             PROVE (OwnerWrites /\ ReclaimsDead /\ HolderOwnsFile)'
  OBVIOUS
<1> DEFINE Goal == (OwnerWrites /\ ReclaimsDead /\ HolderOwnsFile)'
<1> USE LockAssumption DEF IInv, TypeOK, OwnerWrites, ReclaimsDead, HolderOwnsFile
<1>1. ASSUME NEW p \in Proc, CreateNew(p) PROVE Goal
  BY <1>1 DEF CreateNew
<1>2. ASSUME NEW p \in Proc, WritePid(p) PROVE Goal
  BY <1>2 DEF WritePid
<1>3. ASSUME NEW p \in Proc, ReadPid(p) PROVE Goal
  BY <1>3 DEF ReadPid
<1>4. ASSUME NEW p \in Proc, Refuse(p) PROVE Goal
  BY <1>4 DEF Refuse
<1>5. ASSUME NEW p \in Proc, DeclareStale(p) PROVE Goal
  BY <1>5 DEF DeclareStale
<1>6. ASSUME NEW p \in Proc, Unlink(p) PROVE Goal
  BY <1>6 DEF Unlink
<1>7. ASSUME NEW p \in Proc, Recreate(p) PROVE Goal
  BY <1>7 DEF Recreate
<1>8. ASSUME NEW p \in Proc, Release(p) PROVE Goal
  BY <1>8 DEF Release
<1>9. ASSUME NEW p \in Proc, Poll(p) PROVE Goal
  BY <1>9 DEF Poll
<1>10. ASSUME NEW p \in Proc, TimeOut(p) PROVE Goal
  BY <1>10 DEF TimeOut
<1>11. ASSUME NEW p \in Proc, Crash(p) PROVE Goal
  BY <1>11 DEF Crash
<1>12. CASE UNCHANGED vars
  BY <1>12 DEF vars
<1> QED
  BY <1>1, <1>2, <1>3, <1>4, <1>5, <1>6, <1>7, <1>8, <1>9, <1>10, <1>11, <1>12
  DEF Next, Step

\* A leftover lockfile belongs to a dead process, so nobody is inside.
LEMMA InitInv == Init => IInv
<1> SUFFICES ASSUME Init PROVE IInv
  OBVIOUS
<1> USE DEF Init
<1>1. pc \in [Proc -> PC] /\ \A p \in Proc : pc[p] \in {"out", "dead"}
  OBVIOUS
<1>2. lockfile \in File \cup {NoFile}
  OBVIOUS
<1>3. OwnerWrites
  BY LockAssumption DEF OwnerWrites
<1>4. 0 \in 0..MaxPolls
  BY LockAssumption
<1>5. TypeOK
  BY <1>1, <1>2, <1>4 DEF TypeOK
<1>6. ReclaimsDead /\ HolderOwnsFile
  BY <1>1 DEF ReclaimsDead, HolderOwnsFile
<1> QED
  BY <1>3, <1>5, <1>6 DEF IInv

\* The strengthened invariant holds in every reachable state.
THEOREM Invariance == Spec => []IInv
<1>1. IInv /\ [Next]_vars => IInv'
  BY TypePreserved, InvPreserved DEF IInv
<1> QED
  BY InitInv, <1>1, PTL DEF Spec

\* Type correctness of the lockfile protocol.
THEOREM TypeCorrect == Spec => []TypeOK
<1>1. IInv => TypeOK
  BY DEF IInv
<1> QED
  BY Invariance, <1>1, PTL

\* A holder's own lockfile is the linked one until an eviction (the Drop in
\* guard.rs removes the path without looking).
THEOREM OwnFile == Spec => []HolderOwnsFile
<1>1. IInv => HolderOwnsFile
  BY DEF IInv
<1> QED
  BY Invariance, <1>1, PTL

\* Mutual exclusion up to the first eviction of a live holder.
THEOREM Exclusion == Spec => []ExclusiveUnlessEvicted
<1>1. HolderOwnsFile => ExclusiveUnlessEvicted
  BY DEF HolderOwnsFile, ExclusiveUnlessEvicted
<1> QED
  BY OwnFile, <1>1, PTL

\* A reading that still describes the file never deletes a live holder's file.
THEOREM FreshReading == Spec => FreshReadingNeverEvicts
<1> DEFINE Fresh ==
      \A p \in Proc :
        /\ pc[p] = "reclaiming" /\ pc'[p] = "recreating"
        /\ lockfile # NoFile
        /\ seen[p] = lockfile.pid /\ seen[p] # Empty
        => ~Alive(lockfile.owner)
<1>1. IInv => Fresh
  BY DEF IInv, TypeOK, OwnerWrites, ReclaimsDead
<1>2. IInv /\ [Next]_vars => [Fresh]_vars
  BY <1>1
<1> QED
  BY Invariance, <1>2, PTL DEF Spec, FreshReadingNeverEvicts

\* The lockfile protocol implements the abstract lock, for any set of processes:
\* guards are handed out one at a time until a live holder is evicted.
THEOREM Implementation == Spec => ImplementsAdvisoryLock
<1> DEFINE H == {p \in Proc : Inside(p)}
<1>1. Init => Abstract!Init
  BY DEF Init, Abstract!Init
<1>2. IInv /\ [Next]_vars => [Abstract!Next]_(Abstract!vars)
  <2> SUFFICES ASSUME IInv, [Next]_vars PROVE [Abstract!Next]_(Abstract!vars)
    OBVIOUS
  <2> USE DEF IInv, TypeOK, HolderOwnsFile, Abstract!vars
  <2> DEFINE Stays == H' = H /\ evicted' = evicted
             Enters(p) == Abstract!Acquire(p)
             Leaves(p) == Abstract!Leave(p)
  <2>1. ASSUME NEW p \in Proc, CreateNew(p) PROVE Stays \/ Enters(p)
    <3>1. CASE lockfile = NoFile
      <4>1. H' = H \cup {p} /\ p \notin H /\ (H = {} \/ evicted)
        BY <2>1, <3>1 DEF CreateNew
      <4> QED
        BY <2>1, <4>1 DEF CreateNew, Abstract!Acquire
    <3>2. CASE lockfile # NoFile
      BY <2>1, <3>2 DEF CreateNew
    <3> QED
      BY <3>1, <3>2
  <2>2. ASSUME NEW p \in Proc, WritePid(p) PROVE Stays
    BY <2>2 DEF WritePid
  <2>3. ASSUME NEW p \in Proc, ReadPid(p) \/ Refuse(p) \/ DeclareStale(p) \/ TimeOut(p)
        PROVE Stays
    BY <2>3 DEF ReadPid, Refuse, DeclareStale, TimeOut
  <2>4. ASSUME NEW p \in Proc, Unlink(p) PROVE Stays \/ Abstract!Evict
    <3>1. H' = H
      BY <2>4 DEF Unlink
    <3>2. CASE lockfile # NoFile /\ Inside(lockfile.owner)
      <4>1. lockfile.owner \in H /\ evicted' = TRUE
        BY <2>4, <3>2 DEF Unlink
      <4> QED
        BY <3>1, <4>1 DEF Abstract!Evict
    <3>3. CASE ~(lockfile # NoFile /\ Inside(lockfile.owner))
      BY <2>4, <3>1, <3>3 DEF Unlink
    <3> QED
      BY <3>2, <3>3
  <2>5. ASSUME NEW p \in Proc, Recreate(p) PROVE Stays \/ Enters(p)
    <3>1. CASE lockfile = NoFile
      <4>1. H' = H \cup {p} /\ p \notin H /\ (H = {} \/ evicted)
        BY <2>5, <3>1 DEF Recreate
      <4> QED
        BY <2>5, <4>1 DEF Recreate, Abstract!Acquire
    <3>2. CASE lockfile # NoFile
      BY <2>5, <3>2 DEF Recreate
    <3> QED
      BY <3>1, <3>2
  <2>6. ASSUME NEW p \in Proc, Release(p) PROVE Leaves(p)
    <3>1. H' = H \ {p} /\ p \in H
      BY <2>6 DEF Release
    <3>2. evicted' = evicted
      BY <2>6 DEF Release
    <3> QED
      BY <3>1, <3>2 DEF Abstract!Leave
  <2>7. ASSUME NEW p \in Proc, Poll(p) PROVE Stays \/ Enters(p)
    <3>1. CASE lockfile = NoFile
      <4>1. H' = H \cup {p} /\ p \notin H /\ (H = {} \/ evicted)
        BY <2>7, <3>1 DEF Poll
      <4> QED
        BY <2>7, <4>1 DEF Poll, Abstract!Acquire
    <3>2. CASE lockfile # NoFile
      BY <2>7, <3>2 DEF Poll
    <3> QED
      BY <3>1, <3>2
  <2>8. ASSUME NEW p \in Proc, Crash(p) PROVE Stays \/ Leaves(p)
    <3>1. CASE Inside(p)
      <4>1. H' = H \ {p} /\ p \in H
        BY <2>8, <3>1 DEF Crash
      <4> QED
        BY <2>8, <4>1 DEF Crash, Abstract!Leave
    <3>2. CASE ~Inside(p)
      BY <2>8, <3>2 DEF Crash
    <3> QED
      BY <3>1, <3>2
  <2>9. CASE UNCHANGED vars
    BY <2>9 DEF vars
  <2> HIDE DEF Stays, Enters, Leaves
  <2>10. Stays => UNCHANGED Abstract!vars
    BY DEF Stays
  <2>11. \A p \in Proc : Enters(p) \/ Leaves(p) => Abstract!Next
    BY DEF Enters, Leaves, Abstract!Next
  <2>12. Abstract!Evict => Abstract!Next
    BY DEF Abstract!Next
  <2> QED
    BY <2>1, <2>2, <2>3, <2>4, <2>5, <2>6, <2>7, <2>8, <2>9, <2>10, <2>11, <2>12
    DEF Next, Step
<1> QED
  BY <1>1, <1>2, Invariance, PTL DEF Spec, ImplementsAdvisoryLock, Abstract!Spec

-----------------------------------------------------------------------------
(* What AttemptEnds rests on beside the fairness: an attempt runs down.    *)

\* How far a place is from the end of an attempt, between two polls.
PlaceRank(l) ==
  CASE l \in {"out", "dead"} -> 0
    [] l = "held" -> 1
    [] l = "created" -> 2
    [] l = "recreating" -> 3
    [] l = "reclaiming" -> 4
    [] l = "waiting" -> 5
    [] l = "probing" -> 6
    [] l = "exists" -> 7

\* A bound on the steps an attempt of p still has: four for each poll.
StepsLeft(p) == 4 * (MaxPolls - polls[p]) + PlaceRank(pc[p])

LEMMA RankType == \A l \in PC : PlaceRank(l) \in 0..7
  BY DEF PlaceRank

LEMMA StepsLeftType == ASSUME TypeOK, NEW p \in Proc PROVE StepsLeft(p) \in Nat
<1>1. pc[p] \in PC /\ polls[p] \in 0..MaxPolls /\ MaxPolls \in Nat
  BY LockAssumption DEF TypeOK
<1>. QED
  BY <1>1, RankType DEF StepsLeft

\* An attempt, once begun, cannot go round for ever: every step of its process
\* lowers a natural number, and nothing that another process does raises it.
\* The loop of acquire_branch_operation_lock comes back to the first create, but
\* not with as many polls left; a reclaim that is lost is not tried again.
THEOREM AttemptsRunDown ==
  Spec => [][\A p \in Proc :
                /\ StepsLeft(p) \in Nat
                /\ Step(p) => StepsLeft(p)' < StepsLeft(p)
                /\ ~CreateNew(p) => StepsLeft(p)' <= StepsLeft(p)]_vars
<1>1. IInv /\ [Next]_vars =>
        [\A p \in Proc : /\ StepsLeft(p) \in Nat
                         /\ Step(p) => StepsLeft(p)' < StepsLeft(p)
                         /\ ~CreateNew(p) => StepsLeft(p)' <= StepsLeft(p)]_vars
  <2> SUFFICES ASSUME IInv, Next, NEW p \in Proc
               PROVE  /\ StepsLeft(p) \in Nat
                      /\ Step(p) => StepsLeft(p)' < StepsLeft(p)
                      /\ ~CreateNew(p) => StepsLeft(p)' <= StepsLeft(p)
    BY DEF vars
  <2>1. StepsLeft(p) \in Nat
    BY StepsLeftType DEF IInv
  <2>2. pc[p] \in PC /\ polls[p] \in 0..MaxPolls /\ MaxPolls \in Nat
    BY LockAssumption DEF IInv, TypeOK
  <2>3. ASSUME Step(p) PROVE StepsLeft(p)' < StepsLeft(p)
    <3> USE DEF StepsLeft, PlaceRank
    <3>1. CASE Poll(p)
      <4>1. /\ pc[p] = "waiting" /\ pc'[p] \in {"created", "exists"}
            /\ polls'[p] = polls[p] + 1
        BY <3>1 DEF Poll, IInv, TypeOK
      <4>. QED
        BY <2>2, <4>1
    <3>2. CASE WritePid(p) \/ ReadPid(p) \/ Refuse(p) \/ DeclareStale(p)
      BY <2>2, <3>2 DEF WritePid, ReadPid, Refuse, DeclareStale, IInv, TypeOK
    <3>3. CASE Unlink(p) \/ Recreate(p) \/ Release(p) \/ TimeOut(p)
      BY <2>2, <3>3 DEF Unlink, Recreate, Release, TimeOut, IInv, TypeOK
    <3>. QED
      BY <2>3, <3>1, <3>2, <3>3 DEF Step
  <2>4. ASSUME NEW q \in Proc \ {p}, CreateNew(q) \/ Step(q) \/ Crash(q)
        PROVE  StepsLeft(p)' = StepsLeft(p)
    <3>1. pc'[p] = pc[p] /\ polls'[p] = polls[p]
      BY <2>4 DEF CreateNew, Step, WritePid, ReadPid, Refuse, DeclareStale, Unlink, Recreate,
                  Release, Poll, TimeOut, Crash, IInv, TypeOK
    <3>. QED
      BY <3>1 DEF StepsLeft
  <2>5. ASSUME Crash(p) PROVE StepsLeft(p)' <= StepsLeft(p)
    <3>1. pc'[p] = "dead" /\ polls'[p] = polls[p]
      BY <2>5 DEF Crash, IInv, TypeOK
    <3>2. PlaceRank("dead") = 0 /\ PlaceRank(pc[p]) \in Nat
      BY <2>2, RankType DEF PlaceRank
    <3>. QED
      BY <2>2, <3>1, <3>2 DEF StepsLeft
  <2>6. StepsLeft(p)' \in Nat
    <3>1. pc'[p] \in PC /\ polls'[p] \in 0..MaxPolls
      BY TypePreserved DEF IInv, TypeOK
    <3>. QED
      BY <2>2, <3>1, RankType DEF StepsLeft
  <2>. QED
    BY <2>1, <2>3, <2>4, <2>5, <2>6 DEF Next
<1>. QED
  BY <1>1, Invariance, PTL DEF Spec
=============================================================================
