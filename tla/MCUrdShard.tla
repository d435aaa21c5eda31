----------------------------- MODULE MCUrdShard -----------------------------
(* Instances of UrdShard for TLC. *)
EXTENDS UrdShard, TLC

CONSTANTS l, v1, v2, p1, p2

TwoValidators == {v1, v2}
OnePart  == {p1}
TwoParts == {p1, p2}
EqualVotes == [n \in Node |-> 1]       \* the bundled configurations give every peer one vote

Symmetry == Permutations(Validator) \cup Permutations(Part)
=============================================================================
