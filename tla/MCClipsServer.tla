--------------------------- MODULE MCClipsServer ---------------------------
EXTENDS ClipsServer, TLC

CONSTANTS e1, e2, home, work

Symmetry == Permutations(Endpoints) \cup Permutations(Paths)
=============================================================================
