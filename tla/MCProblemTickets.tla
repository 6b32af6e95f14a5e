------------------------- MODULE MCProblemTickets -------------------------
EXTENDS ProblemTickets, TLC

\* Operators' requests are interchangeable, and so are the jobs.
Symmetry == Permutations(Requests) \union Permutations(Jobs)
=============================================================================
