---------------------------- MODULE AdvisoryLock ----------------------------
(***************************************************************************)
(* What a lockfile promises its callers, with the files abstracted away:   *)
(* at most one process is inside until the day a live holder is evicted.   *)
(* From then on ("broken") nothing is promised.  SyncLock implements it.   *)
(***************************************************************************)
CONSTANT Proc            \* operating-system process ids

VARIABLES
  holders,               \* processes that own a guard object
  broken                 \* TRUE once a live holder's lockfile was deleted

vars == <<holders, broken>>

Init == holders = {} /\ broken = FALSE

\* A guard is handed out only while nobody has one, unless the lock broke.
Acquire(p) ==
  /\ p \notin holders
  /\ holders = {} \/ broken
  /\ holders' = holders \cup {p}
  /\ UNCHANGED broken

\* Drop of the guard, or death of its process.
Leave(p) ==
  /\ p \in holders
  /\ holders' = holders \ {p}
  /\ UNCHANGED broken

\* Somebody deletes the lockfile of a live holder.
Evict ==
  /\ holders # {}
  /\ broken' = TRUE
  /\ UNCHANGED holders

Next == Evict \/ \E p \in Proc : Acquire(p) \/ Leave(p)

Spec == Init /\ [][Next]_vars
=============================================================================
