-------------------------- MODULE MCRunMaterializer --------------------------
(* Instances of RunMaterializer for TLC. *)
EXTENDS RunMaterializer, TLC

\* The list can turn the dense expression into the sparse one and back, the form
\* also into one of another time zone.
Dense == [fires |-> {2, 3, 4}, offset |-> 2]
Sparse == [fires |-> {4}, offset |-> 2]
Elsewhere == [fires |-> {3}, offset |-> 1]
ThreeSchedules == {Dense, Sparse, Elsewhere}
Symmetry == Permutations(Passes)
=============================================================================
