----------------------------- MODULE MCMiniBank -----------------------------
(* Instances of MiniBank for TLC. *)
EXTENDS MiniBank

CONSTANTS s1, s2, s3, a, b, c, d

TwoShards   == <<s1, s2>>
Accounts    == {a, b, c}
HomeOf      == a :> s1 @@ b :> s2 @@ c :> s1

transfer(from, to, n) == [from |-> <<from>>, fromMoney |-> <<n>>, to |-> <<to>>, toMoney |-> <<n>>]

\* Two transfers over both shards that compete for b, and one inside s1.
Transfers == {transfer(a, b, 1), transfer(b, c, 2), transfer(a, c, 1)}

\* A transfer over three shards, one over two of them that competes with it, and one
\* inside s1.
ThreeShards   == <<s1, s2, s3>>
FourAccounts  == {a, b, c, d}
HomeOfThree   == a :> s1 @@ b :> s2 @@ c :> s3 @@ d :> s1
WideTransfers == {[from |-> <<a, b>>, fromMoney |-> <<1, 1>>, to |-> <<c>>, toMoney |-> <<2>>],
                  transfer(b, a, 1), transfer(a, d, 1)}
=============================================================================
