-------------------------------- MODULE Sums --------------------------------
(***************************************************************************)
(* The sum of natural numbers over a finite set, as the number of points   *)
(* below them: it needs no order and no recursion, so that a proof may add *)
(* or move a point.                                                        *)
(***************************************************************************)
EXTENDS Naturals, FiniteSets

Points(v, S) == UNION {{x} \X (1..v[x]) : x \in S}
SumOver(v, S) == Cardinality(Points(v, S))

=============================================================================
