--------------------------- MODULE MCImageQueries ---------------------------
(* A small instance of the image query handler for TLC. *)
EXTENDS ImageQueries, TLC

CONSTANTS r1, r2, w1

QueryLimits == [x \in Events |-> 1]

Symmetry == Permutations({r1, r2})
=============================================================================
