------------------------ MODULE MCClosedTicketSync ------------------------
EXTENDS ClosedTicketSync, TLC

\* Of four tickets the eldest is out of the window and the third is still open;
\* agents work on the second and the third.
Numbered == 1 .. 4
Eldest == {1}
Unclosed == {3}
Moving == {2, 3}
Symmetry == Permutations(Syncs)
=============================================================================
