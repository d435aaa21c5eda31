--------------------------- MODULE MCPyramidStore ---------------------------
(* An instance of PyramidStore for TLC. *)
EXTENDS PyramidStore

CONSTANTS i, b

ka == <<0>>
kb == <<1>>
kc == <<1, 0>>
OneI == {i}
Numbers == i :> 1 @@ b :> 2
Owners == ka :> i @@ kb :> i @@ kc :> b

leg(k, m) == [key |-> k, money |-> m]
tx(from, to) == [from |-> from, to |-> to]

\* Inside the shard: the first fails unless the second has been executed before.
Inner == i :> {tx(<<leg(ka, 4)>>, <<leg(kb, 4)>>), tx(<<leg(kb, 2)>>, <<leg(ka, 2)>>)}
\* Between shards, with several legs on either side.
Cross == {tx(<<leg(ka, 1), leg(kc, 2)>>, <<leg(kb, 3)>>),
          tx(<<leg(kb, 2)>>, <<leg(ka, 1), leg(kc, 1)>>)}
\* kb is a prefix of kc.
SomeLimits == {<<ka, kc>>, <<kb, <<2>>>>}
=============================================================================
