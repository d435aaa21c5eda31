------------------------------ MODULE KeyRanges ------------------------------
(***************************************************************************)
(* The key ranges of the shards, held as Urd holds them (RangeList) and as *)
(* Pyramid does (RangeTree), against the set of keys they stand for.       *)
(***************************************************************************)
EXTENDS Integers, Sequences

CONSTANT N   \* the keys are 0 .. N

ASSUME NAssumption == N \in Nat

List == INSTANCE RangeList
Tree == INSTANCE RangeTree

VARIABLES lists,   \* RangeList.lists
          tree,    \* a RangeTree
          keys     \* the keys in the ranges

vars == <<lists, tree, keys>>

Init == lists = <<>> /\ tree = Tree!NewRangeTree /\ keys = {}

\* [low, high)
span(low, high) == low .. high - 1

AddRange(low, high) ==
    /\ lists' = List!AddRange(lists, low, high)
    /\ tree'  = Tree!AddRange(tree, low, high)
    /\ keys'  = keys \cup span(low, high)

DeleteRange(low, high) ==
    /\ lists' = List!DeleteRange(lists, low, high)
    /\ tree'  = Tree!DeleteRange(tree, low, high)
    /\ keys'  = keys \ span(low, high)

Next == \E low, high \in 0 .. N : AddRange(low, high) \/ DeleteRange(low, high)

Spec == Init /\ [][Next]_vars
-----------------------------------------------------------------------------
\* Search of the list answers whether a key is in a range, after any ranges have
\* been added, joined, cut and deleted.
ListExact == \A p \in 0 .. N : List!Search(lists, p) <=> p \in keys

\* Search of the tree answers whether a key is in a range, and the ranges it gives
\* out are in order and inside the keys: the bound a node takes from its parent stays
\* right, and AddRange and DeleteRange never reach their panics.
TreeExact == LET r == Tree!Range(tree) IN
    /\ \A p \in 0 .. N : Tree!Search(tree, p) <=> p \in keys
    /\ \A n \in DOMAIN r : 0 <= r[n][1] /\ r[n][1] <= r[n][2] /\ r[n][2] <= N
    /\ \A n \in 1 .. Len(r) - 1 : r[n][2] <= r[n + 1][1]

\* Add, which builds the union of a B shard's ranges from those of its I shards,
\* loses and adds no key, from a tree to a list or from a list to a tree.
AddRebuilds ==
    /\ List!Add(<<>>, Tree!Range(tree)) = lists
    /\ \A p \in 0 .. N : Tree!Search(Tree!Add(Tree!NewRangeTree, List!Range(lists)), p) <=> p \in keys
=============================================================================
