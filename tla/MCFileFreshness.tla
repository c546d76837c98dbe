--------------------------- MODULE MCFileFreshness ---------------------------
(* Instances of FileFreshness: three contents, two of them of equal size.   *)
EXTENDS FileFreshness

CONSTANTS A, B, C

MCSize == [c \in Content |-> IF c = C THEN 2 ELSE 1]
=============================================================================
