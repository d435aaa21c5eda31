---------------------------- MODULE PyramidCross ----------------------------
(***************************************************************************)
(* Pyramid's shards together (pyramid/consensus/main.go) with their bank   *)
(* (pyramid/abci/minibank).  An I shard executes its own transfers; a B    *)
(* shard proposes blocks of transfers over the I shards it is related to,  *)
(* filled with the balances of its replica of their stores.  Each of them  *)
(* accepts the block, by locking the keys with their new balances, or      *)
(* refuses it; the B shard commits or aborts; they release the locks.      *)
(*                                                                         *)
(* What the nodes of a shard do to agree is PyramidShard's subject: here a *)
(* shard is one state, and a height is a block (executed) and a wait (the  *)
(* I shard's for MessageOK, the B shard's for the I shards' blocks).  What *)
(* the proposer of a height has received is some of what was sent to it.   *)
(***************************************************************************)
EXTENDS Integers, Sequences, SequencesExt

CONSTANTS IShard, BShard,
          Related,      \* RelatedShards of each B shard
          Key,
          Owner,        \* the shard whose range a key is in
          InitBalance,
          InnerTx,      \* the transfers that reach each shard's mempool, in order
          CrossTx,      \* those that reach each B shard's cross_shard_mempool
          MaxBlockTx,   \* maxBlockTxNum
          MaxHeight,    \* bound: no shard executes a block past this height
          None

Shard == IShard \cup BShard
Transfer == [from : Key, to : Key, money : Nat]

\* ShardIdentity is one of the two.
ASSUME ShardAssumption == IShard \cap BShard = {}
ASSUME RelatedAssumption == Related \in [BShard -> SUBSET IShard]
ASSUME OwnerAssumption == Owner \in [Key -> Shard]
\* ValidateTx: keys of the shard's ranges
ASSUME TransferAssumption ==
    /\ InnerTx \in [Shard -> Seq(Transfer)] /\ CrossTx \in [BShard -> Seq(Transfer)]
    /\ \A s \in Shard : \A tx \in ToSet(InnerTx[s]) : {Owner[tx.from], Owner[tx.to]} = {s}
    /\ \A b \in BShard : \A tx \in ToSet(CrossTx[b]) :
           {Owner[tx.from], Owner[tx.to]} \subseteq Related[b] \cup {b}
ASSUME BoundAssumption == MaxHeight \in Nat \ {0} /\ MaxBlockTx \in Nat \ {0}

\* RelatedShards of an I shard
BsOf(i) == {b \in BShard : i \in Related[b]}

VARIABLES
    height,       \* ConsensusState.Height
    executed,     \* the block of the height is executed: Step is Commit
    app,          \* Application: money (the store), locked (LockedKeys), seen (its blocks)
    mempool,      \* mempool
    crossPool,    \* cross_shard_mempool of a B shard
    pending,      \* the block of pendingCrossShardBlockHash, or None
    sentBlocks,   \* the cross-shard blocks the B shards have sent
    commits,      \* the MessageCommits they have sent
    chain,        \* the blocks of each I shard
    shardHeight   \* shardHeight[b][i]: how many of them B shard b has executed

vars == <<height, executed, app, mempool, crossPool, pending, sentBlocks, commits, chain, shardHeight>>

Init ==
    /\ height      = [s \in Shard |-> 1]
    /\ executed    = [s \in Shard |-> FALSE]
    /\ app         = [s \in Shard |-> [money |-> [k \in Key |-> InitBalance], locked |-> <<>>, seen |-> {}]]
    /\ mempool     = InnerTx
    /\ crossPool   = CrossTx
    /\ pending     = [b \in BShard |-> None]
    /\ sentBlocks  = {}
    /\ commits     = {}
    /\ chain       = [i \in IShard |-> <<>>]
    /\ shardHeight = [b \in BShard |-> [i \in Related[b] |-> 0]]

-----------------------------------------------------------------------------
(* The bank. *)

KeysOf(tx) == {tx.from, tx.to}
BlockKeys(c) == UNION {KeysOf(c.txs[n]) : n \in DOMAIN c.txs}

\* requireLock of every key: CheckLock, and what PreExecutionI asks
unlocked(a, keys) == keys \cap DOMAIN a.locked = {}

\* ReapTx: transfers in order, without those that touch a locked key
Reapable(a, pool) == SelectSeq(pool, LAMBDA tx : unlocked(a, KeysOf(tx)))
ReapTx(a, pool) == {SubSeq(Reapable(a, pool), 1, n) : n \in 0 .. Min({MaxBlockTx, Len(Reapable(a, pool))})}

\* Update: RemoveTx of every transfer of a block
Update(pool, txs) == SelectSeq(pool, LAMBDA tx : tx \notin ToSet(txs))

\* doTransfer's conditions, for a balance read from db
transferable(a, tx, fromBalance) == unlocked(a, KeysOf(tx)) /\ fromBalance >= tx.money

moved(money, tx, fromBalance, toBalance) ==
    [money EXCEPT ![tx.from] = fromBalance - tx.money, ![tx.to] = toBalance + tx.money]

\* ExecutionInnerShard
ExecutionInnerShard(a, txs) ==
    [a EXCEPT !.money = FoldLeft(LAMBDA money, tx :
        IF transferable(a, tx, money[tx.from]) THEN moved(money, tx, money[tx.from], money[tx.to])
        ELSE money, @, txs)]

\* FillData: the balances each transfer reads, after those before it in the block
FillData(a, txs) ==
    FoldLeft(LAMBDA acc, tx :
        LET from == acc.money[tx.from]
            to   == acc.money[tx.to]
            ok   == transferable(a, tx, from)
        IN  [money |-> IF ok THEN moved(acc.money, tx, from, to) ELSE acc.money,
             data  |-> Append(acc.data, [ok |-> ok, from |-> from, to |-> to])],
        [money |-> a.money, data |-> <<>>], txs).data

\* PreExecutionI: the loop that compares the data with the store ranges over
\* BodyTxs, of which a cross-shard block has none.
PreExecutionI(a, c) == unlocked(a, BlockKeys(c))

\* AcceptCrossShard: the keys of shard i are locked with the balances they will
\* have.  (by is no part of the code: the block that set the lock.)
AcceptCrossShard(a, c, i, ifcommit) ==
    LET good == {n \in DOMAIN c.txs : c.data[n].ok /\ transferable(a, c.txs[n], c.data[n].from)}
        mem  == FoldLeftDomain(LAMBDA money, n :
                    IF n \in good THEN moved(money, c.txs[n], c.data[n].from, c.data[n].to)
                    ELSE money, a.money, c.txs)
        keys == {k \in UNION {KeysOf(c.txs[n]) : n \in good} : Owner[k] = i}
    IN  [a EXCEPT !.seen = @ \cup {c},
                  !.locked = IF ~ifcommit THEN @
                             ELSE [k \in keys \cup DOMAIN @ |->
                                       IF k \in keys THEN [value |-> mem[k], by |-> c] ELSE @[k]]]

\* Mutant: an abort does not undo the locks.
AcceptCommitShard_no_undo(a, d, i) ==
    LET held == {k \in BlockKeys(d.block) : d.commit /\ Owner[k] = i} \cap DOMAIN a.locked
    IN  IF d.block \notin a.seen THEN a
        ELSE [a EXCEPT !.money = [k \in Key |-> IF k \in held THEN a.locked[k].value ELSE @[k]],
                       !.locked = [k \in DOMAIN @ \ held |-> @[k]]]

\* AcceptCommitShard for one MessageCommit: releaseLock or undoLock of every key of
\* the block that is in the range of shard i.
AcceptCommitShard(a, d, i) ==
    LET held == {k \in BlockKeys(d.block) : Owner[k] = i} \cap DOMAIN a.locked
    IN  IF d.block \notin a.seen THEN a
        ELSE [a EXCEPT !.money = [k \in Key |-> IF d.commit /\ k \in held THEN a.locked[k].value ELSE @[k]],
                       !.locked = [k \in DOMAIN @ \ held |-> @[k]]]

\* processIBlock, in the shard itself and in the B shards
processIBlock(a, block, i) ==
    CASE block.type = "Inner"  -> ExecutionInnerShard(a, block.txs)
      [] block.type = "Accept" -> AcceptCrossShard(a, block.block, i, block.ok)
      [] block.type = "Commit" -> FoldLeft(LAMBDA x, d : AcceptCommitShard(x, d, i), a, block.commits)

-----------------------------------------------------------------------------
(* I shards. *)

\* What shard i has accepted or refused, and the commits it has executed
Accepted(i) == {x \in ToSet(chain[i]) : x.type = "Accept"}
Answered(i) == {x.block : x \in Accepted(i)}
Decisions(i) == UNION {ToSet(x.commits) : x \in {y \in ToSet(chain[i]) : y.type = "Commit"}}

crossShardBlockPool(i) == {c \in sentBlocks : i \in Related[c.chain]} \ Answered(i)
commitPool(i) == {d \in commits : i \in Related[d.block.chain]} \ Decisions(i)

ready(s) == ~executed[s] /\ height[s] <= MaxHeight

\* doPrecommit of an I shard
ExecuteI(i, block) ==
    /\ ready(i)
    /\ app' = [app EXCEPT ![i] = processIBlock(@, block, i)]
    /\ chain' = [chain EXCEPT ![i] = Append(@, block)]
    /\ executed' = [executed EXCEPT ![i] = TRUE]
    /\ UNCHANGED <<height, crossPool, pending, sentBlocks, commits, shardHeight>>

\* createIBlockTxs: a cross-shard block that has come; else the commits that have
\* come; else transfers of the mempool.
IAccept(i) == \E c \in crossShardBlockPool(i) :
    /\ ExecuteI(i, [type |-> "Accept", block |-> c, ok |-> PreExecutionI(app[i], c)])
    /\ UNCHANGED mempool

ICommit(i) == \E D \in SUBSET commitPool(i) \ {{}} : \E q \in SetToSeqs(D) :
    /\ ExecuteI(i, [type |-> "Commit", commits |-> q])
    /\ UNCHANGED mempool

IInner(i) == \E txs \in ReapTx(app[i], mempool[i]) :
    /\ ExecuteI(i, [type |-> "Inner", txs |-> txs])
    /\ mempool' = [mempool EXCEPT ![i] = Update(@, txs)]

\* doCommit of an I shard: bcount is 0, MessageOK has come from every B shard.
INext(i) ==
    /\ executed[i] /\ \A b \in BsOf(i) : height[b] > height[i]
    /\ height' = [height EXCEPT ![i] = @ + 1]
    /\ executed' = [executed EXCEPT ![i] = FALSE]
    /\ UNCHANGED <<app, mempool, crossPool, pending, sentBlocks, commits, chain, shardHeight>>

-----------------------------------------------------------------------------
(* B shards. *)

\* createBBlockTxs and processBBlock, no block pending: a cross-shard block
BCross(b) == \E txs \in ReapTx(app[b], crossPool[b]) \ {<<>>} :
    LET c == [chain |-> b, height |-> height[b], txs |-> txs, data |-> FillData(app[b], txs)]
    IN  /\ ready(b) /\ pending[b] = None
        /\ pending' = [pending EXCEPT ![b] = c]
        /\ sentBlocks' = sentBlocks \cup {c}
        /\ executed' = [executed EXCEPT ![b] = TRUE]
        /\ UNCHANGED <<height, app, mempool, crossPool, commits, chain, shardHeight>>

\* The MessageAccepts for the pending block of b
accepts(b) == [i \in {j \in Related[b] : pending[b] \in Answered(j)} |->
                   \E x \in Accepted(i) : x.block = pending[b] /\ x.ok]

\* Mutant: maCount is not looked at.
maCountZero_any(b) == TRUE

\* maCount == 0
maCountZero(b) == DOMAIN accepts(b) = Related[b]

\* Every shard has answered: commit if all have accepted.
BCommit(b) ==
    /\ ready(b) /\ pending[b] # None /\ maCountZero(b)
    /\ commits' = commits \cup {[block |-> pending[b],
                                 commit |-> \A i \in DOMAIN accepts(b) : accepts(b)[i]]}
    /\ crossPool' = [crossPool EXCEPT ![b] = Update(@, pending[b].txs)]
    /\ pending' = [pending EXCEPT ![b] = None]
    /\ executed' = [executed EXCEPT ![b] = TRUE]
    /\ UNCHANGED <<height, app, mempool, sentBlocks, chain, shardHeight>>

BInner(b) == \E txs \in ReapTx(app[b], mempool[b]) :
    /\ ready(b)
    /\ app' = [app EXCEPT ![b] = ExecutionInnerShard(@, txs)]
    /\ mempool' = [mempool EXCEPT ![b] = Update(@, txs)]
    /\ executed' = [executed EXCEPT ![b] = TRUE]
    /\ UNCHANGED <<height, crossPool, pending, sentBlocks, commits, chain, shardHeight>>

\* The next block of I shard i: doMessage of a CrossShardBlock in a B shard
Synchronize(b, i) ==
    /\ i \in Related[b] /\ shardHeight[b][i] < Len(chain[i])
    /\ app' = [app EXCEPT ![b] = processIBlock(@, chain[i][shardHeight[b][i] + 1], i)]
    /\ shardHeight' = [shardHeight EXCEPT ![b][i] = @ + 1]
    /\ UNCHANGED <<height, executed, mempool, crossPool, pending, sentBlocks, commits, chain>>

\* Mutant: the B shard does not wait for the I shards.
synchronized_any(b) == TRUE

synchronized(b) == \A i \in Related[b] : shardHeight[b][i] >= height[b]

\* doCommit of a B shard; MessageOK goes out.
BNext(b) ==
    /\ executed[b] /\ synchronized(b)
    /\ height' = [height EXCEPT ![b] = @ + 1]
    /\ executed' = [executed EXCEPT ![b] = FALSE]
    /\ UNCHANGED <<app, mempool, crossPool, pending, sentBlocks, commits, chain, shardHeight>>

Next == \/ \E i \in IShard : IAccept(i) \/ ICommit(i) \/ IInner(i) \/ INext(i)
        \/ \E b \in BShard : BCross(b) \/ BCommit(b) \/ BInner(b) \/ BNext(b)
        \/ \E b \in BShard, i \in IShard : Synchronize(b, i)

Spec == Init /\ [][Next]_vars
-----------------------------------------------------------------------------
\* Two-phase commit: an I shard carries a cross-shard block out only if every I shard
\* of the B shard has accepted it, and no two shards decide it differently, whatever
\* they interleave with it and however the heights of the shards differ.
OneFate == \A i, j \in IShard : \A d \in Decisions(i) :
    /\ d.commit /\ j \in Related[d.block.chain] => \E x \in Accepted(j) : x.block = d.block /\ x.ok
    /\ \A e \in Decisions(j) : e.block = d.block => e.commit = d.commit

\* A key is locked only for a block that its shard accepted and that is not decided
\* there: no lock outlives its block, although any block may remove it earlier.
NoLeakedLock == \A i \in IShard : \A k \in DOMAIN app[i].locked :
    LET c == app[i].locked[k].by
    IN  /\ \E x \in Accepted(i) : x.block = c /\ x.ok
        /\ \A d \in Decisions(i) : d.block # c

\* The barrier between I and B shards: a B shard is where its I shards are, or one
\* height ahead, so it never fills a block from a replica that is two blocks old.
InStep == \A b \in BShard : \A i \in Related[b] :
    height[i] <= height[b] /\ height[b] <= height[i] + 1

-----------------------------------------------------------------------------
(* What messages of the code promise and the code does not keep. *)

\* "The sum of FromMoney and ToMoney is not equal": transfers move money and do not
\* make any.  When nothing is locked or under way, the total is what it was.
Quiet == /\ \A s \in Shard : app[s].locked = <<>>
         /\ \A b \in BShard : pending[b] = None
         /\ \A i \in IShard : commitPool(i) = {}
Conserved == Quiet =>
    FoldSet(LAMBDA k, sum : sum + app[Owner[k]].money[k], 0, Key)
        = FoldSet(LAMBDA k, sum : sum + InitBalance, 0, Key)
=============================================================================
