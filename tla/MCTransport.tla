----------------------------- MODULE MCTransport -----------------------------
(* An instance of Transport for TLC: three validators, and blocks of two    *)
(* shards at several stages of the pipeline.                                *)
EXTENDS Transport

PerVotes == (0 :> 1) @@ (1 :> 1) @@ (2 :> 2)

Chains == <<"A", "B">>
Tx(n) == <<"tx", n>>
At(view) == [at |-> view, reading |-> "monotonic"]
\* The hash of a block that is not shown
Hidden(chain, view) == Sum256(<<"block", chain, view>>)

\* A certificate of shard chain for the block of a view
Certificate(chain, view, forHash, last) ==
    [Code |-> TRUE, View |-> view, Round |-> Round, ForHash |-> forHash, ForNecessaryData |-> last,
     Sign |-> {chain}, SignerIndexer |-> BitVectorOf({0, 2})]

\* What a shard has for each: two, one or no transactions
OutputsOf(m) == IF m = 1 THEN << <<Tx(1), Tx(2)>>, <<>> >> ELSE << <<Tx(3)>>, <<Tx(4)>> >>

\* The messages a leader has when it makes the block of view 0, 1, 2; and of view 2 if the shards
\* do not agree on what A did
Early(view, other) == [m \in 1 .. 2 |->
    CrossShardMessage(Chains[m], Certificate(Chains[m], view, Hidden(Chains[m], view),
                                             <<Hidden(Chains[m], IF m = 1 /\ other THEN 100 ELSE view - 1)>>),
                      view, <<>>, m, <<>>)]

Make(m, view, last, finished, ptxs, cross, outputs) ==
    [chain |-> Chains[m], me |-> m, view |-> view, pool |-> view, last |-> last, time |-> At(view),
     finished |-> finished, ptxs |-> ptxs, cross |-> cross, outputs |-> outputs]

First  == Make(1, 0, <<>>, <<>>, <<<<Tx(5)>>>>, <<<<>>>>, <<>>)
Second == Make(1, 1, Hidden("A", 0), Early(0, FALSE), <<<<>>>>, <<>>, OutputsOf(1))
\* Shard m's block of view 3, the first whose successor's message has proofs
Third(m, other) == Make(m, 3, Hidden(Chains[m], 2), Early(2, other /\ m = 2), <<<<Tx(6)>>>>, <<<<Tx(7)>>>>, OutputsOf(m))
\* The messages about them, to A
About(thirds) == [m \in 1 .. 2 |->
    CrossShardMessage(Chains[m], Certificate(Chains[m], 4, Hidden(Chains[m], 4), <<BlockHash(UrdBlock(thirds[m]))>>),
                      5, UrdBlock(thirds[m]), 1, OutputsOf(m)[1])]
AllThirds == {<<Third(1, FALSE), Third(2, other)>> : other \in BOOLEAN}

\* The first two blocks; A's block of view 4, and blocks of views 6 and 7 that stand for all later
\* ones, with agreeing and with other intentions
AllUrdBlocks ==
    {[system |-> "urd", number |-> 1, made |-> First, prev |-> <<>>, outputs |-> <<>>, pool |-> 1],
     [system |-> "urd", number |-> 2, made |-> Second, prev |-> <<First>>, outputs |-> << <<>>, <<>> >>, pool |-> 2]}
    \cup UNION {UNION {
        {[system |-> "urd",
          number |-> IF view = 4 THEN 3 ELSE view - 2,
          made |-> Make(1, view, BlockHash(UrdBlock(thirds[1])), about,
                        IF view = 4 THEN <<>> ELSE <<<<Tx(8)>>>>, <<>>, OutputsOf(1)),
          prev |-> <<thirds[1]>>, outputs |-> OutputsOf(1), pool |-> IF view = 4 THEN 5 ELSE 7] :
            view \in IF about[2].IntentionBrief = about[1].IntentionBrief THEN {4, 6} ELSE {7}} :
        about \in {About(thirds)}} : thirds \in AllThirds}

PyramidBlock(number, height, type, txs, cross, datas, relation) ==
    [system |-> "pyramid", number |-> number, prev |-> <<>>, outputs |-> <<>>, pool |-> 0, made |->
      [Header |-> [BlockType |-> type, HashPointer |-> Hidden("P", 1), ChainID |-> "P", Height |-> height, Time |-> At(2),
                   BodyRoot |-> <<>>, CrossShardBodyRoot |-> <<>>, StateRoot |-> Hidden("state", 1),
                   ReceiptRoot |-> Hidden("receipts", 1), RelationRoot |-> <<>>],
       Body |-> [BodyTxs |-> txs], CrossShardBody |-> [CrossShardTxs |-> cross, CrossShardDatas |-> datas],
       Relation |-> relation]]
NoRelation == [RelatedCommitStatus |-> <<>>, RelatedHash |-> <<>>, MyCommitStatus |-> <<>>]

\* An empty block, one inside an I shard, one of a B shard with the data it locks
AllPyramidBlocks == {PyramidBlock(1, 2, 0, <<>>, <<>>, <<>>, NoRelation),
                     PyramidBlock(2, 2, 0, <<Tx(1), Tx(2)>>, <<>>, <<>>, NoRelation),
                     PyramidBlock(3, 3, 1, <<>>, <<Tx(3)>>, <<Tx(4)>>, NoRelation)}

\* The hash of the block before, and another
AllVoteData == {<<Hidden("A", 0)>>, <<Hidden("A", 1)>>}

AllBlocks == AllUrdBlocks \cup AllPyramidBlocks
\* There is another proposal for the first view of Urd, and two are for one height of Pyramid.
AllHeads == {[system |-> "urd", number |-> b, chain |-> "A", view |-> <<0, 1, 4, 6, 7, 0>>[b]] : b \in 1 .. 6}
            \cup {[system |-> "pyramid", number |-> b, chain |-> "P", view |-> <<2, 2, 3>>[b]] : b \in 1 .. 3}
=============================================================================
