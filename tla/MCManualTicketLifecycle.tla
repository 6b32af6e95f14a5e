----------------------- MODULE MCManualTicketLifecycle -----------------------
(* Instances of ManualTicketLifecycle for TLC. *)
EXTENDS ManualTicketLifecycle, TLC

Symmetry == Permutations(Evaluators)
=============================================================================
