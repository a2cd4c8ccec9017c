---------------------- MODULE MCKnowledgeGenerations ----------------------
\* Three processes and three generations: one to roll back to, and two
\* publishers that start from the same one.
EXTENDS KnowledgeGenerations, TLC

CONSTANTS p1, p2, p3, g1, g2, g3

MCProc == {p1, p2, p3}
MCGen == {g1, g2, g3}
Symmetry == Permutations(MCProc) \cup Permutations(MCGen)
=============================================================================
