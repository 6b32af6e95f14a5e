------------------------ MODULE MCPrewarmSnapshots ------------------------
(* PrewarmSnapshots for TLC. *)
EXTENDS PrewarmSnapshots, TLC

\* Processes are interchangeable.
Symmetry == Permutations(Refreshers)
=============================================================================
