---------------------------- MODULE BranchTable -----------------------------
(***************************************************************************)
(* What callers take branch-meta.json for: one table, on which every       *)
(* command acts in one step.  BranchStore implements it, except where a    *)
(* command is overtaken by one that its locks do not exclude.              *)
(***************************************************************************)
EXTENDS BranchMeta

VARIABLE table

Init == table \in {m \in Meta : Settled(m)}

Track(b) ==
  /\ b \notin Tracked(table)
  /\ table' = AddBranch(table, b, UniqueFile(table, b))

Promote(b) ==
  /\ b \in Tracked(table) \ {table.default}
  /\ table' = SetDefault(table, b)

Rename(b) ==
  /\ b \notin Tracked(table)
  /\ table' = RenameDefault(table, b)

\* The default keeps its entry.
Drop(S) ==
  /\ S \subseteq Tracked(table) \ {table.default}
  /\ table' = RemoveBranches(table, S)

Next ==
  \/ \E b \in Branch : Track(b) \/ Promote(b) \/ Rename(b)
  \/ \E S \in SUBSET Branch : Drop(S)

Spec == Init /\ [][Next]_table
=============================================================================
