--------------------------- MODULE MCPyramidShard ---------------------------
(* Instances of PyramidShard for TLC. *)
EXTENDS PyramidShard

CONSTANTS p1, p2, b1, b2

TwoParts == {p1, p2}
TwoB     == {b1, b2}
\* Validator 1 is more than two thirds: validator 0 may lag behind it.
HeavyOne  == [n \in Node |-> IF n = 1 THEN 3 ELSE 1]
=============================================================================
