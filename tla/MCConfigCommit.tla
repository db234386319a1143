--------------------------- MODULE MCConfigCommit ---------------------------
(* ConfigCommit with two processes, one power failure and one edit.          *)
EXTENDS ConfigCommit, TLC
CONSTANTS w1, w2
Symmetry == Permutations(Writers)
=============================================================================
