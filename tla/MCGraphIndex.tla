---------------------------- MODULE MCGraphIndex ----------------------------
(* Instances of GraphIndex with two or three files: a refers to a symbol   *)
(* that one other file defines, or two.                                    *)
EXTENDS GraphIndex

CONSTANTS a, b, c

\* The preference order of the candidates is a, b, c.
MCRank == [f \in File |-> CASE f = a -> 1 [] f = b -> 2 [] f = c -> 3]

\* a refers to a symbol that only b defines.
MCCandOne == [f \in File |-> IF f = a THEN {b} ELSE {}]

\* a refers to a symbol that both b and c define.
MCCandTwo == [f \in File |-> IF f = a THEN {b, c} ELSE {}]
=============================================================================
