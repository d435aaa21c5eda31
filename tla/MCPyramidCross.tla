--------------------------- MODULE MCPyramidCross ---------------------------
(* Instances of PyramidCross for TLC. *)
EXTENDS PyramidCross

CONSTANTS i1, i2, i3, b1, b2, k1, k2, k3

transfer(from, to, n) == [from |-> from, to |-> to, money |-> n]

\* Two B shards over the same two I shards, moving money both ways, and a transfer
\* inside i1 that changes a balance they read.
Keys     == {k1, k2, k3}
TwoI     == {i1, i2}
TwoB     == {b1, b2}
Same     == b1 :> TwoI @@ b2 :> TwoI
OwnedTwo == k1 :> i1 @@ k2 :> i2 @@ k3 :> i1
OneInner == [s \in Shard |-> IF s = i1 THEN <<transfer(k1, k3, 1)>> ELSE <<>>]
Back     == b1 :> <<transfer(k1, k2, 1)>> @@ b2 :> <<transfer(k2, k1, 1)>>

\* The example configuration: i2 is related to both B shards.  Both of them move
\* money through its key.
ThreeI     == {i1, i2, i3}
Overlap    == b1 :> {i1, i2} @@ b2 :> {i2, i3}
OwnedThree == k1 :> i1 @@ k2 :> i2 @@ k3 :> i3
NoInner    == [s \in Shard |-> <<>>]
Through    == b1 :> <<transfer(k1, k2, 1)>> @@ b2 :> <<transfer(k2, k3, 1)>>
=============================================================================
