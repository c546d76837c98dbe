----------------------------- MODULE MCSyncLock -----------------------------
(* Instances of SyncLock: three processes, any of them dead at the start.   *)
EXTENDS SyncLock, TLC

Symmetry == Permutations(Proc)
=============================================================================
