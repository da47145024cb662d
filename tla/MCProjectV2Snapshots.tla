------------------------- MODULE MCProjectV2Snapshots -------------------------
EXTENDS ProjectV2Snapshots, TLC

CONSTANTS s1, s2, e1, e2, e3, e4

\* Two sessions, as in two tabs, with four saves between them.
MCSession == {s1, s2}
MCEdit == {e1, e2, e3, e4}

Symmetry == Permutations(MCSession) \cup Permutations(MCEdit)
=============================================================================
