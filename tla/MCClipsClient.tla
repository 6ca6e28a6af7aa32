--------------------------- MODULE MCClipsClient ---------------------------
(* The client library with its callers as interchangeable model values.    *)
EXTENDS ClipsClient, TLC

Symmetry == Permutations(Callers)
=============================================================================
