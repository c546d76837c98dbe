--------------------------- MODULE MCBranchStore ----------------------------
(* Instances of BranchStore: the three names, say feature/x, feature_x and   *)
(* feature.x, are sanitized to the same file name.                           *)
EXTENDS BranchStore, TLC

CONSTANTS a, b, c, plain, ha, hb, hc

MCPlainFile == [n \in Branch |-> plain]

MCHashedFile == a :> ha @@ b :> hb @@ c :> hc

\* A permutation of the names takes their hashed files along.
Symmetry ==
  {f @@ [h \in {ha, hb, hc} |-> CHOOSE i \in {ha, hb, hc} :
           \E n \in Branch : MCHashedFile[n] = h /\ MCHashedFile[f[n]] = i] :
     f \in Permutations(Branch)}
=============================================================================
