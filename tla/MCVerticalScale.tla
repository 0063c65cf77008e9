--------------------------- MODULE MCVerticalScale ---------------------------
(* Instances of VerticalScale for TLC. *)
EXTENDS VerticalScale, TLC

CONSTANTS small, large, bad, other

\* Executions scale to the large class; bad lacks parameters, other has an
\* unknown type.
Mixed == [e \in Executions |-> IF e = bad THEN None ELSE large]
AllBut == Executions \ {other}

Symmetry == Permutations(Instances) \cup Permutations(Executions)
=============================================================================
