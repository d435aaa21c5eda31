---------------------------- MODULE PyramidStore ----------------------------
(***************************************************************************)
(* Pyramid's bank over its stores (pyramid/abci/minibank): a transfer with *)
(* several legs runs over a MemoryDB (a write buffer and a read buffer     *)
(* over the block's results over the disk), a RangeDB (the same, for the   *)
(* keys of one shard) or a CrossShardDB (the write buffer over the         *)
(* balances that came with the block).  A B shard fills a cross-shard      *)
(* block with the balances its transfers read; the I shards replay the     *)
(* block over them, lock the results, and write or forget them later.      *)
(*                                                                         *)
(* Every call holds abciLock or the node's stateMtx, so a call is one      *)
(* action.  PyramidCross models the agreement between the shards: here a B *)
(* shard decides once every I shard has answered, and their heights may    *)
(* differ by any number.                                                   *)
(***************************************************************************)
EXTENDS KVStore, FiniteSets, FiniteSetsExt, TLC

CONSTANTS IShard,
          B,            \* the one B shard; it has a copy of every I shard's keys
          ChainNo,      \* the bytes of a shard's name
          Owner,        \* the keys (byte strings), and the shard whose range each is in
          InnerTx,      \* the transfers an I shard may be sent
          CrossTx,      \* the transfers the B shard may be sent
          Digit,        \* values per byte; a uint32 is two of them here
          InitBalance,
          MaxBlockTx,   \* maxBlockTxNum
          MaxChain,     \* bound: blocks of an I shard
          MaxCross,     \* bound: blocks of the B shard
          Limits        \* the [start, end) limits of the iterators

Key == DOMAIN Owner
W == Digit * Digit                             \* 2^32
Keys(S) == {k \in Key : Owner[k] \in S}        \* KeyRangeTree, AllShardRangeTree

VARIABLES
    disk,      \* DBConn of each application
    blockDB,   \* blockDBConn of each application
    locked,    \* LockedKeys of each application
    chain,     \* the blocks each I shard has executed
    cross,     \* the cross-shard blocks of the B shard
    synced,    \* how many blocks of each I shard the B shard has executed
    iter,      \* an open iterator, or Nil
    visited,   \* the keys it has returned
    ledger,    \* history: the balances of each I shard, kept the simplest way
    promise    \* history: the balance the last accepted block gives each key

history == <<ledger, promise>>
vars == <<disk, blockDB, locked, chain, cross, synced, iter, visited, history>>

App == IShard \cup {B}

\* Uint32ToBytes and BytesToUint32, little-endian
Uint32ToBytes(n) == <<n % Digit, n \div Digit>>
BytesToUint32(bz) == bz[1] + Digit * bz[2]

-----------------------------------------------------------------------------
(* The databases of one execution.  data is the cross-shard data of a CrossShardDB, *)
(* and Nil in the two others; range is every key in a MemoryDB.                      *)

NewDB(store, range, data) ==
    [store |-> store, range |-> range, data |-> data, mem |-> <<>>, write |-> <<>>, read |-> <<>>]

Stored(db) == [k \in {x \in Key : Get(db.store, x) # Nil} |-> BytesToUint32(Get(db.store, k))]

\* What Get sees: the buffers hide what is below them.
Visible(db) == IF db.data = Nil THEN db.write @@ db.read @@ db.mem @@ Stored(db) ELSE db.write @@ db.data

\* RangeDB refuses a key out of its range, CrossShardDB one that the block has not brought.
GetFails(db, key) == key \notin db.range \/ (db.data # Nil /\ key \notin DOMAIN Visible(db))

\* A key that is nowhere, or cannot be read, has the initial balance.
Balance(db, key) == IF key \in db.range \cap DOMAIN Visible(db) THEN Visible(db)[key] ELSE InitBalance

\* Mutant: a balance found in memDB is not recorded as read.
Remember_only_disk(db, key) ==
    IF db.data # Nil \/ key \notin db.range \/ key \in DOMAIN db.write \cup DOMAIN db.read \cup DOMAIN db.mem THEN db
    ELSE [db EXCEPT !.read = key :> Balance(db, key) @@ @,
                    !.mem  = @ @@ [k \in {key} \cap DOMAIN Stored(db) |-> Balance(db, k)]]

\* What Get leaves behind in a MemoryDB: readBuffer, and memDB if the key was on disk.
Remember(db, key) ==
    IF db.data # Nil \/ key \notin db.range \/ key \in DOMAIN db.write \cup DOMAIN db.read THEN db
    ELSE [db EXCEPT !.read = key :> Balance(db, key) @@ @,
                    !.mem  = @ @@ [k \in {key} \cap DOMAIN Stored(db) |-> Balance(db, k)]]


CommitWrite(db, do) == [db EXCEPT !.mem = IF do THEN db.write @@ @ ELSE @, !.write = <<>>, !.read = <<>>]

\* Write: one batch, of the keys in range
Write(db) == BatchWrite(db.store,
    FoldSet(LAMBDA k, batch : PrefixBatchSet(batch, k, Uint32ToBytes(db.mem[k])),
            NewBatch, DOMAIN db.mem \cap db.range))

-----------------------------------------------------------------------------
(* Transfers: sequences of legs [key, money], from and to. *)

Total(legs) == FoldLeft(LAMBDA sum, leg : (sum + leg.money) % W, 0, legs)

\* ValidateTransferTx: the sums are compared modulo 2^32.
ValidateTransferTx(tx) == tx.from # <<>> /\ tx.to # <<>> /\ Total(tx.from) = Total(tx.to)

Touched(tx) == {leg.key : leg \in ToSet(tx.from \o tx.to)}
TxsKeys(txs) == UNION {Touched(tx) : tx \in ToSet(txs)}

\* generateAccounts draws a key again until it is new, so no key has two legs.  Nothing
\* after it looks: doTransfer would carry out only the last leg of such a key.
generateAccounts(tx) == Cardinality(Touched(tx)) = Len(tx.from \o tx.to)
ASSUME GeneratorAssumption ==
    \A tx \in CrossTx \cup UNION {InnerTx[i] : i \in IShard} : generateAccounts(tx)

\* The first two loops of doTransfer: every balance is read before one is written.
ReadLeg(run, leg, isFrom, locks) ==
    LET balance == Balance(run.db, leg.key)
    IN  IF \/ ~run.ok \/ leg.key \in DOMAIN locks
           \/ isFrom /\ ~GetFails(run.db, leg.key) /\ balance < leg.money
        THEN [run EXCEPT !.ok = FALSE]
        ELSE [run EXCEPT !.db = Remember(@, leg.key),
                         !.out = Append(@, (balance + (IF isFrom THEN W - leg.money ELSE leg.money)) % W)]

\* The other two: Set refuses a key that is out of range, and ends the transfer.
SetLeg(run, key, value) ==
    IF ~run.ok \/ key \notin run.db.range THEN [run EXCEPT !.ok = FALSE]
    ELSE [run EXCEPT !.db.write = key :> value @@ @]

doTransfer(db, tx, locks) ==
    LET afterFrom == FoldLeft(LAMBDA run, leg : ReadLeg(run, leg, TRUE, locks),
                              [db |-> db, ok |-> ValidateTransferTx(tx), out |-> <<>>], tx.from)
        afterTo == FoldLeft(LAMBDA run, leg : ReadLeg(run, leg, FALSE, locks), afterFrom, tx.to)
        legs == tx.from \o tx.to
    IN  FoldLeft(LAMBDA run, n : SetLeg(run, legs[n].key, run.out[n]), afterTo, [n \in DOMAIN legs |-> n])

\* execute and CommitWrite of every transfer of a block; data[n] is what brings the
\* balances of the n-th, reads[n] what the n-th has read.
ExecuteAll(db, txs, data, locks) ==
    FoldLeft(LAMBDA acc, n :
        IF data # Nil /\ ~data[n].ok THEN [acc EXCEPT !.ok = Append(@, FALSE)]
        ELSE LET run == doTransfer([acc.db EXCEPT !.data = IF data = Nil THEN Nil ELSE data[n].values], txs[n], locks)
             IN  [db |-> CommitWrite(run.db, run.ok), ok |-> Append(acc.ok, run.ok),
                  reads |-> Append(acc.reads, run.db.read)],
        [db |-> db, ok |-> <<>>, reads |-> <<>>], [n \in DOMAIN txs |-> n])

\* CrossShardDataBytes and NewCrossShardDataFromBytes: two lists, by key
CrossShardDataBytes(reads, ok) ==
    LET keys == SetToSortSeq(DOMAIN reads, Less)
    IN  [Keys |-> keys, Values |-> [n \in DOMAIN keys |-> reads[keys[n]]], OK |-> ok]
NewCrossShardDataFromBytes(bd) ==
    [ok |-> bd.OK,
     values |-> FoldLeft(LAMBDA m, n : bd.Keys[n] :> bd.Values[n] @@ m, <<>>, [n \in DOMAIN bd.Keys |-> n])]

-----------------------------------------------------------------------------
(* The meaning of a transfer, on a map of balances: every key pays the sum of its  *)
(* from legs and is paid the sum of its to legs, or nothing happens.               *)

SumOn(legs, k) == FoldLeft(LAMBDA sum, leg : sum + (IF leg.key = k THEN leg.money ELSE 0), 0, legs)
Plain(money, tx, locks) ==
    IF /\ ValidateTransferTx(tx) /\ Touched(tx) \cap DOMAIN locks = {}
       /\ \A k \in DOMAIN money : money[k] >= SumOn(tx.from, k)
    THEN [k \in DOMAIN money |-> (money[k] - SumOn(tx.from, k) + SumOn(tx.to, k)) % W]
    ELSE money
PlainAll(money, txs, locks) == FoldLeft(LAMBDA m, tx : Plain(m, tx, locks), money, txs)

MoneyOf(store) == [k \in Key |-> Balance(NewDB(store, Key, Nil), k)]

-----------------------------------------------------------------------------
(* Application. *)

\* Block.Hash: no two blocks have the same, and none is the name of a height.
Hash(block) == <<1, ChainNo[block.chain], block.height>>
HeightKey(block) == <<block.height, ChainNo[block.chain]>>
StoreBlock(db, block) == SetBlockByHeight(db, HeightKey(block), Hash(block), <<block>>)

\* requireLock of every key: CheckLock and PreExecutionI.  The data of a block are not
\* compared with the disk: that loop ranges over BodyTxs, and a cross-shard block has none.
unlocked(a, txs) == TxsKeys(txs) \cap DOMAIN locked[a] = {}

\* ReapTx: up to maxBlockTxNum of the transfers that wait, none of which is locked.
\* What waits, and in which order, is up to the clients.
Reap(a, S) == {txs \in SeqOf({tx \in S : unlocked(a, <<tx>>)}, MaxBlockTx) :
                  txs # <<>> /\ IsInjective(txs)}

\* ExecutionInnerShard of a block of shard i, at application a
ExecutionInnerShard(a, block, i) ==
    /\ disk' = [disk EXCEPT ![a] =
                   Write(ExecuteAll(NewDB(@, Keys({i}), Nil), block.txs, Nil, locked[a]).db)]
    /\ blockDB' = [blockDB EXCEPT ![a] = StoreBlock(@, block)]
    /\ UNCHANGED locked

\* FillData
FillData(txs) ==
    LET run == ExecuteAll(NewDB(disk[B], Keys(App), Nil), txs, Nil, locked[B])
    IN  [n \in DOMAIN txs |-> CrossShardDataBytes(IF run.ok[n] THEN run.reads[n] ELSE <<>>, run.ok[n])]

\* The balances of a replay, for the keys of shard i that its good transfers touch
Replayed(a, c, i) ==
    LET run  == ExecuteAll(NewDB(disk[a], Key, Nil), c.txs,
                           [n \in DOMAIN c.txs |-> NewCrossShardDataFromBytes(c.data[n])], locked[a])
        good == SelectSeq([n \in DOMAIN c.txs |-> n], LAMBDA n : run.ok[n])
        mem  == [run.db EXCEPT !.data = Nil]
    IN  [k \in TxsKeys([n \in DOMAIN good |-> c.txs[good[n]]]) \cap Keys({i}) |-> Balance(mem, k)]

\* AcceptCrossShard: setLock keeps a lock that is there.
AcceptCrossShard(a, c, i, ifcommit) ==
    /\ locked' = [locked EXCEPT ![a] = IF ifcommit THEN @ @@ Replayed(a, c, i) ELSE @]
    /\ blockDB' = [blockDB EXCEPT ![a] = StoreBlock(SetState(@, Hash(c), <<"ok">>), c)]
    /\ UNCHANGED disk

\* releaseLock: the balance goes into the batch.
releaseLock(a, key, batch) == PrefixBatchSet(batch, key, Uint32ToBytes(locked[a][key]))

\* AcceptCommitShard of one hash: releaseLock or undoLock of the keys of shard i
AcceptCommitShard(a, hs, commit, i) ==
    LET bz    == GetBlockByHash(blockDB[a], hs)
        known == bz # Nil /\ GetState(blockDB[a], hs) = <<"ok">>
        held  == IF known THEN TxsKeys(bz[1].txs) \cap Keys({i}) \cap DOMAIN locked[a] ELSE {}
    IN  /\ disk' = [disk EXCEPT ![a] =
                       IF commit THEN BatchWrite(@, FoldSet(LAMBDA k, batch : releaseLock(a, k, batch), NewBatch, held))
                       ELSE @]
        /\ locked' = [locked EXCEPT ![a] = [k \in DOMAIN @ \ held |-> @[k]]]
        /\ UNCHANGED blockDB

\* processIBlock
processIBlock(a, block, i) ==
    \/ block.type = "Inner" /\ ExecutionInnerShard(a, block, i)
    \/ block.type = "Accept" /\ AcceptCrossShard(a, block.block, i, block.ok)
    \/ block.type = "Commit" /\ AcceptCommitShard(a, Hash(block.block), block.ok, i)

-----------------------------------------------------------------------------
Init ==
    /\ disk    = [a \in App |-> <<>>]
    /\ blockDB = [a \in App |-> <<>>]
    /\ locked  = [a \in App |-> <<>>]
    /\ chain   = [i \in IShard |-> <<>>]
    /\ cross   = <<>>
    /\ synced  = [i \in IShard |-> 0]
    /\ iter    = Nil
    /\ visited = <<>>
    /\ ledger  = [k \in Key |-> InitBalance]
    /\ promise = [k \in Key |-> InitBalance]

\* An I shard executes a block.
Execute(i, block) ==
    /\ iter = Nil /\ Len(chain[i]) < MaxChain
    /\ processIBlock(i, block, i)
    /\ chain' = [chain EXCEPT ![i] = Append(@, block)]
    /\ UNCHANGED <<cross, synced, iter, visited>>

InnerBlock(i) == \E txs \in Reap(i, InnerTx[i]) :
    /\ Execute(i, [type |-> "Inner", chain |-> i, height |-> Len(chain[i]) + 1, txs |-> txs])
    /\ ledger' = [k \in Key |-> IF Owner[k] = i THEN PlainAll(ledger, txs, locked[i])[k] ELSE ledger[k]]
    /\ UNCHANGED promise

Answers(i) == {x \in ToSet(chain[i]) : x.type = "Accept"}
Decided(i) == {x.block : x \in {y \in ToSet(chain[i]) : y.type = "Commit"}}
Answered(i, c) == \E x \in Answers(i) : x.block = c

AcceptBlock(i) == \E c \in ToSet(cross) :
    /\ ~Answered(i, c)
    /\ Execute(i, [type |-> "Accept", block |-> c, ok |-> unlocked(i, c.txs)])
    /\ promise' = [k \in Key |-> IF Owner[k] = i /\ unlocked(i, c.txs) /\ k \in c.good THEN c.plain[k] ELSE promise[k]]
    /\ UNCHANGED ledger

\* The B shard's decision: every I shard has answered, and every one has accepted.
CommitBlock(i) == \E c \in ToSet(cross) :
    LET ok == \A j \in IShard : \E x \in Answers(j) : x.block = c /\ x.ok
    IN  /\ \A j \in IShard : Answered(j, c)
        /\ c \notin Decided(i)
        /\ Execute(i, [type |-> "Commit", block |-> c, ok |-> ok])
        /\ ledger' = [k \in Key |-> IF ok /\ Owner[k] = i /\ k \in TxsKeys(c.txs) \cap DOMAIN locked[i]
                                    THEN promise[k] ELSE ledger[k]]
        /\ UNCHANGED promise

\* A B shard has one block pending at a time.
CrossBlock == \E txs \in Reap(B, CrossTx) :
    /\ iter = Nil /\ Len(cross) < MaxCross
    /\ \A i \in IShard : \A c \in ToSet(cross) : Answered(i, c)
    /\ \E data \in {FillData(txs)} : LET good == SelectSeq([n \in DOMAIN txs |-> n], LAMBDA n : data[n].OK) IN
           cross' = Append(cross, [chain |-> B, height |-> Len(cross) + 1, txs |-> txs, data |-> data,
                                   good  |-> TxsKeys([n \in DOMAIN good |-> txs[good[n]]]),
                                   plain |-> PlainAll(MoneyOf(disk[B]), txs, locked[B])])
    /\ UNCHANGED <<disk, blockDB, locked, chain, synced, iter, visited, history>>

\* The B shard executes the next block of an I shard.
Synchronize(i) ==
    /\ iter = Nil /\ synced[i] < Len(chain[i])
    /\ processIBlock(B, chain[i][synced[i] + 1], i)
    /\ synced' = [synced EXCEPT ![i] = @ + 1]
    /\ UNCHANGED <<chain, cross, iter, visited, history>>

\* A tool that opens a store and visits a range of it (CompareRange).  No node
\* runs then: every block has been executed everywhere.
OpenIterator(i, db, limits, isReverse) ==
    /\ iter = Nil /\ Len(chain[i]) = MaxChain /\ synced[i] = MaxChain
    /\ iter' = Checked(PrefixIterator(db, limits[1], limits[2], isReverse))
    /\ visited' = <<>>
    /\ UNCHANGED <<disk, blockDB, locked, chain, cross, synced, history>>

Visit ==
    /\ iter # Nil /\ ~iter.isInvalid
    /\ visited' = Append(visited, fromDataKey(iter.at))
    /\ iter' = Checked(IteratorNext(iter))
    /\ UNCHANGED <<disk, blockDB, locked, chain, cross, synced, history>>

\* PrefixIterator.Close returns the error of the iterator below and closes nothing: the user
\* only stops using it.
CloseIterator ==
    /\ iter # Nil /\ iter.isInvalid
    /\ iter' = Nil /\ visited' = <<>>
    /\ UNCHANGED <<disk, blockDB, locked, chain, cross, synced, history>>

Next == \/ \E i \in IShard : InnerBlock(i) \/ AcceptBlock(i) \/ CommitBlock(i) \/ Synchronize(i)
        \/ CrossBlock
        \/ \E i \in IShard, limits \in Limits, rev \in BOOLEAN :
               OpenIterator(i, disk[i], limits, rev) \/ OpenIterator(i, blockDB[i], limits, rev)
        \/ Visit
        \/ CloseIterator

Spec == Init /\ [][Next]_vars
-----------------------------------------------------------------------------

\* The balances that an I shard locks are those the B shard computed when it filled the
\* block, although the I shard replays it over the recorded reads only, with its own locks.
ReplayAgrees == \A i \in IShard : \A k \in DOMAIN locked[i] : locked[i][k] = promise[k]

\* An iterator that is used up has returned every key of its range once and in order,
\* and no key of another name space.
IteratorExact == iter # Nil /\ iter.isInvalid =>
    LET inRange == {k \in DOMAIN iter.view : ~Less(k, iter.start) /\ Less(k, iter.end)}
        sorted  == SetToSortSeq({Tail(k) : k \in inRange}, Less)
    IN  visited = IF iter.isReverse THEN Reverse(sorted) ELSE sorted
=============================================================================
