------------------------------ MODULE BlockPool ------------------------------
(***************************************************************************)
(* State.block_pool: the newest blocks of a node's own shard, oldest       *)
(* first.  Leaders and validators keep one each.                           *)
(***************************************************************************)
EXTENDS Integers, Sequences

PoolCap == 7                                \* append_block keeps seven blocks

\* fetch_block(k) is not nil; fetch_block(1) is the newest block.
has_block(p, k) == k <= Len(p)
fetch_block(p, k) == p[Len(p) + 1 - k]

append_block(p, b) == Append(IF Len(p) = PoolCap THEN Tail(p) ELSE p, b)

\* Mutant: the block executed is j-1.
commit_and_execution_j_1(p) == IF has_block(p, 1) THEN fetch_block(p, 1).view ELSE 0

\* commit_and_execution_j_2: the view of the block passed to abci.Execution,
\* which also labels its outputs; 0 when there is none yet.
commit_and_execution_j_2(p) == IF has_block(p, 2) THEN fetch_block(p, 2).view ELSE 0
=============================================================================
