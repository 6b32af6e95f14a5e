-------------------------- MODULE MCTicketPipeline --------------------------
(* A small instance of the pipeline for TLC. *)
EXTENDS TicketPipeline, TLC

Symmetry == Permutations(Tickets) \cup Permutations(Workers)
=============================================================================
