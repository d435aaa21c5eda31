------------------------------ MODULE MiniBank ------------------------------
(***************************************************************************)
(* The application of every Urd shard (urd/abci/minibank): accounts split  *)
(* over shards, transfers inside a shard, and transfers over several       *)
(* shards in two phases.  Pre-execution locks a shard's accounts and sends *)
(* their balances, as a relay, to every shard of the transfer; a relay     *)
(* comes back in a later block of each shard, which unlocks and transfers. *)
(*                                                                         *)
(* The pipeline of UrdLeaders delivers the relays: those that block v of a *)
(* shard produces are in block v + RelayDelay of every shard (its property *)
(* PipelineRounds), in the order of ShardIDList.  A transfer stands for    *)
(* its own bytes and hash; the accounts of one are distinct, as the        *)
(* importer generates them.                                                *)
(***************************************************************************)
EXTENDS Integers, SequencesExt

CONSTANTS ShardIDList,    \* the shards, in the order every node knows them
          Account,
          Home,           \* KeyRangeTrees: the shard of each account
          Tx,             \* the transfers: from, fromMoney, to, toMoney, as sequences
          InitBalance,    \* initBalance
          Modulus,        \* balances are uint32: 2^32 in the code
          Nil,            \* a nil *BankData, and a missing RelayTransferTxSet
          MaxTxBlock,     \* bound: later blocks carry no transfers
          MaxBlock        \* bound: no later block is executed

Shard == Range(ShardIDList)
RelayDelay == 4

keys(tx) == tx.from \o tx.to
Shards(tx) == {Home[k] : k \in Range(keys(tx))}
Crosses(tx) == \E s, t \in Shards(tx) : s # t

ASSUME ShardsAssumption == ShardIDList \in Seq(Shard) /\ IsInjective(ShardIDList)
ASSUME HomeAssumption == Home \in [Account -> Shard]
ASSUME TxAssumption == \A tx \in Tx : /\ tx.from \in Seq(Account) /\ tx.fromMoney \in Seq(Nat)
                                       /\ tx.to \in Seq(Account) /\ tx.toMoney \in Seq(Nat)
                                       /\ IsInjective(keys(tx))
ASSUME FiniteAssumption == IsFiniteSet(Tx)
ASSUME BalanceAssumption == InitBalance \in Nat /\ Modulus \in Nat /\ InitBalance < Modulus
ASSUME BoundAssumption == MaxTxBlock \in Nat /\ MaxBlock \in Nat

\* Nil is neither the data of a relay nor a set of them.
Money == 0 .. (Modulus - 1)
BankData == UNION {[D -> Money] : D \in SUBSET Account}
ASSUME NilAssumption == /\ Nil \notin BankData /\ Nil # <<>>
                        /\ \A tx \in Tx : Nil \notin [Shards(tx) -> BankData \cup {<<>>}]

VARIABLES
    money,      \* balance of every account, in the store of its shard
    wlocked,    \* the accounts that are write-locked
    sets,       \* sets[s][tx]: the RelayTransferTxSet stored at s under tx's hash
    undo,       \* undo[s][tx]: the data stored at s under "undo" and tx's hash
    out,        \* out[s][v][t]: the relays block v of s sends to t (OPTxs)
    applied     \* applied[s][tx]: how often s has carried out tx (history)

vars == <<money, wlocked, sets, undo, out, applied>>

\* The number of blocks s has executed.
height(s) == Len(out[s])

\* An account is created with initBalance when it is first read.
Init ==
    /\ money   = [k \in Account |-> InitBalance]
    /\ wlocked = {}
    /\ sets    = [s \in Shard |-> [tx \in Tx |-> Nil]]
    /\ undo    = [s \in Shard |-> [tx \in Tx |-> <<>>]]
    /\ out     = [s \in Shard |-> <<>>]
    /\ applied = [s \in Shard |-> [tx \in Tx |-> 0]]

-----------------------------------------------------------------------------
(* Operations on st, the part of the state that belongs to one shard s. *)

sum(m) == FoldLeft(LAMBDA a, b : (a + b) % Modulus, 0, m)

ValidateTransferTx(tx) ==
    /\ Len(tx.from) = Len(tx.fromMoney) /\ Len(tx.to) = Len(tx.toMoney)
    /\ tx.from # <<>> /\ tx.to # <<>>
    /\ sum(tx.fromMoney) = sum(tx.toMoney)

\* Mutant: a key nobody sent is read as 0.
readable_missing(st, s, k, retain) == Home[k] = s => k \notin st.wlocked

\* db.Get of a key of s, or of a key another shard's relay has loaded (retain).
readable(st, s, k, retain) == IF Home[k] = s THEN k \notin st.wlocked ELSE k \in DOMAIN retain
Get(st, s, k, retain) == IF Home[k] = s THEN st.money[k]
                         ELSE IF k \in DOMAIN retain THEN retain[k] ELSE 0

\* Mutant: the balance is not compared.
sufficient_always(st, s, tx, retain) == TRUE

sufficient(st, s, tx, retain) ==
    \A i \in DOMAIN tx.from : Get(st, s, tx.from[i], retain) >= tx.fromMoney[i]

\* doTransfer: all keys are read before any of the shard's own is written.
doTransfer(st, s, tx, retain) ==
    LET debit(k)  == {i \in DOMAIN tx.from : tx.from[i] = k /\ Home[k] = s}
        credit(k) == {i \in DOMAIN tx.to : tx.to[i] = k /\ Home[k] = s}
        balance(k) == st.money[k] - MapThenSumSet(LAMBDA i : tx.fromMoney[i], debit(k))
                                  + MapThenSumSet(LAMBDA i : tx.toMoney[i], credit(k))
    IN  IF /\ s \in Shards(tx) /\ ValidateTransferTx(tx)
           /\ \A k \in Range(keys(tx)) : readable(st, s, k, retain)
           /\ sufficient(st, s, tx, retain)
        THEN [st EXCEPT !.money = [k \in Account |-> balance(k) % Modulus],
                        !.applied[tx] = @ + 1]
        ELSE st

\* A set is stored as protobuf bytes, which turn a nil element into an empty one.
stored(datas) == [t \in DOMAIN datas |-> IF datas[t] = Nil THEN <<>> ELSE datas[t]]

isRelayTransferTxSetFinish(set) == \A t \in DOMAIN set : set[t] # Nil

\* Mutant: the set starts empty for every relay.
insertBankData_alone(data, chain, set) ==
    [t \in DOMAIN set |-> IF t = chain THEN data ELSE <<>>]

insertBankDataToRelayTxSet(data, chain, set) ==
    IF chain \in DOMAIN set THEN [set EXCEPT ![chain] = data] ELSE set

\* The lock is a byte in front of the balance, which Get has stored before.
WLock(st, K) == [st EXCEPT !.wlocked = @ \cup K]
WUnlock(st, K) == [st EXCEPT !.wlocked = @ \ K]

\* unlockTransfer: a relay of the transfer r.tx from shard chain.  The set with
\* the relay's data in it is used here and not stored again.
unlockTransfer(st, s, chain, r) ==
    IF st.sets[r.tx] = Nil
    THEN [st EXCEPT !.undo[r.tx] = [t \in DOMAIN @ \cup {chain} |->
                                       IF t = chain THEN r.data ELSE @[t]]]
    ELSE LET set    == insertBankDataToRelayTxSet(r.data, chain, st.sets[r.tx])
             retain == [k \in UNION {DOMAIN set[t] : t \in DOMAIN set} |-> set[Home[k]][k]]
         IN  IF isRelayTransferTxSetFinish(set)
             THEN doTransfer(WUnlock(st, DOMAIN set[s]), s, r.tx, retain)
             ELSE st

\* execute: a transfer of the block's PTXS, which must be inside the shard.
execute(st, s, tx) == IF Crosses(tx) THEN st ELSE doTransfer(st, s, tx, <<>>)

\* lockTransfer: store the set, with the data that came before, and lock.
lockTransfer(st, s, tx) ==
    LET set == stored([t \in Shards(tx) |-> IF t \in DOMAIN st.undo[tx] THEN st.undo[tx][t] ELSE Nil])
    IN  WLock([st EXCEPT !.sets[tx] = set], {k \in Range(keys(tx)) : Home[k] = s})

\* Mutants: a transfer may be pre-executed again; a locked account is no conflict.
committed_never(st, tx) == FALSE
conflicts_in_block(acc, tx, own) == {i \in own : keys(tx)[i] \in acc.wlocks}

\* pre_doTransfer refuses a transfer whose set is stored ...
committed(st, tx) == st.sets[tx] # Nil
\* ... and one with an account that is locked, or claimed earlier in the block.
conflicts(acc, tx, own) == {i \in own : keys(tx)[i] \in acc.st.wlocked \cup acc.wlocks}

\* One transfer of preExecution: pre_doTransfer, the relays, lockTransfer.  After
\* a conflict the accounts before it stay claimed for the rest of the block.
preExecute(acc, s, tx) ==
    LET own  == {i \in DOMAIN keys(tx) : Home[keys(tx)[i]] = s}
        mine == {keys(tx)[i] : i \in own}
        bad  == conflicts(acc, tx, own)
        data == [k \in mine |-> acc.st.money[k]]
    IN  IF \/ ~Crosses(tx) \/ s \notin Shards(tx)
           \/ committed(acc.st, tx) \/ ~ValidateTransferTx(tx)
        THEN acc
        ELSE IF bad # {}
        THEN [acc EXCEPT !.wlocks = @ \cup {keys(tx)[i] : i \in {j \in own : j < Min(bad)}}]
        ELSE [st     |-> lockTransfer(acc.st, s, tx),
              wlocks |-> acc.wlocks \cup mine,
              relays |-> [t \in Shard |-> IF t \in Shards(tx)
                                          THEN Append(acc.relays[t], [tx |-> tx, data |-> data])
                                          ELSE acc.relays[t]]]

preExecution(st, s, cross) ==
    FoldLeft(LAMBDA acc, tx : preExecute(acc, s, tx),
             [st |-> st, wlocks |-> {}, relays |-> [t \in Shard |-> <<>>]], cross)

-----------------------------------------------------------------------------
\* The CTXS of block v of shard s: per source shard, its relays to s.
CTXS(s, v) == [i \in DOMAIN ShardIDList |->
                  IF v > RelayDelay THEN out[ShardIDList[i]][v - RelayDelay][s] ELSE <<>>]

local(s) == [money |-> money, wlocked |-> wlocked, sets |-> sets[s],
             undo |-> undo[s], applied |-> applied[s]]

executeCTXS(st, s, v) ==
    LET from(a, i) == FoldLeft(LAMBDA b, r : unlockTransfer(b, s, ShardIDList[i], r),
                               a, CTXS(s, v)[i])
    IN  FoldLeftDomain(from, st, ShardIDList)

\* Execution of the next block of s: relays, then txs, then cross_shard_txs.
Execution(s, txs, cross) ==
    LET v     == height(s) + 1
        moved == FoldLeft(LAMBDA st, tx : execute(st, s, tx), executeCTXS(local(s), s, v), txs)
        final == preExecution(moved, s, cross)
    IN  /\ v <= MaxBlock
        /\ \A t \in Shard : height(s) <= height(t)         \* UrdLeaders: ViewSkew
        /\ money'   = final.st.money
        /\ wlocked' = final.st.wlocked
        /\ sets'    = [sets EXCEPT ![s] = final.st.sets]
        /\ undo'    = [undo EXCEPT ![s] = final.st.undo]
        /\ applied' = [applied EXCEPT ![s] = final.st.applied]
        /\ out'     = [out EXCEPT ![s] = Append(@, final.relays)]

\* What a leader's two mempools may hold: the importer gives each shard its own
\* transfers, and the mempool does not refuse a transfer it has seen before.
Mempool(s, crossing) ==
    {tx \in Tx : Crosses(tx) = crossing /\ s \in Shards(tx)}

Blocks(S, v) == IF v > MaxTxBlock THEN {<<>>} ELSE {<<>>} \cup {<<tx>> : tx \in S}
                                                   \cup {<<x, y>> : x, y \in S}

Next == \E s \in Shard :
    \E txs \in Blocks(Mempool(s, FALSE), height(s) + 1),
       cross \in Blocks(Mempool(s, TRUE), height(s) + 1) : Execution(s, txs, cross)

Spec == Init /\ [][Next]_vars
-----------------------------------------------------------------------------
\* The relays of s to t that t has yet to execute.
Pending(s, t) == UNION {Range(out[s][v][t]) :
                           v \in {w \in 1 .. height(s) : w + RelayDelay > height(t)}}

\* An account is locked exactly while one transfer of its shard waits for the
\* shard's own relay to come back: no lock is leaked by a transfer that fails in
\* another shard, and none is released by another transfer (lockTransfer, WUnlock).
LocksMatchRelays ==
    /\ wlocked = UNION {DOMAIN r.data : r \in UNION {Pending(s, s) : s \in Shard}}
    /\ \A s \in Shard : \A q, r \in Pending(s, s) : q.tx # r.tx => DOMAIN q.data \cap DOMAIN r.data = {}

\* A transfer over several shards is carried out at most once in each, however
\* often a leader proposes it again and in whatever order its relays come.
AppliedAtMostOnce == \A s \in Shard, tx \in Tx : Crosses(tx) => applied[s][tx] <= 1

\* A shard carries out such a transfer only if every shard of it has locked it.
AppliedOnlyIfAllLocked == \A s \in Shard, tx \in Tx :
    Crosses(tx) /\ applied[s][tx] > 0 => \A t \in Shards(tx) : sets[t][tx] # Nil

\* What tx takes from and gives to account k, and what that has come to at k's shard.
amount(ks, ms, k) == MapThenSumSet(LAMBDA i : ms[i], {i \in DOMAIN ks : ks[i] = k})
Change(tx, k) == amount(tx.to, tx.toMoney, k) - amount(tx.from, tx.fromMoney, k)
Valid == {tx \in Tx : ValidateTransferTx(tx)}
Net(counts, k) == LET f == [tx \in Valid |-> counts[tx] * Change(tx, k)]
                  IN  MapThenSumSet(LAMBDA tx : f[tx], Valid)

\* The books: every account holds what it held at first, less the debits and plus the
\* credits of the transfers its shard has carried out, as a uint32.  This is never
\* negative: a balance wraps around when a credit goes past 2^32 and never at a
\* debit, although doTransfer may run blocks after the transfer was pre-executed.
BooksBalance == \A k \in Account :
    LET total == InitBalance + Net(applied[Home[k]], k)
    IN  total >= 0 /\ money[k] = total % Modulus

\* When the data of every other shard came before the lock (it waited under "undo"),
\* the shard's own relay carries the transfer out, unless a balance is too low.
LateLockApplies == \A s \in Shard : \A v \in 1 .. height(s) : \A r \in Range(out[s][v][s]) :
    LET set    == sets[s][r.tx]
        had(k) == IF Home[k] = s THEN r.data[k] ELSE set[Home[k]][k]
    IN  v + RelayDelay <= height(s) /\ (\A t \in Shards(r.tx) \ {s} : set[t] # <<>>) =>
            (applied[s][r.tx] = 1) = (\A i \in DOMAIN r.tx.from : had(r.tx.from[i]) >= r.tx.fromMoney[i])

\* With no relay on its way, what has left the From accounts has reached the To
\* accounts: ValidateTransferTx refuses a transfer whose "FromMoney and ToMoney are
\* not equal" (types.go:97).
DebitsEqualCredits ==
    (\A s, t \in Shard : Pending(s, t) = {}) =>
        MapThenSumSet(LAMBDA k : money[k], Account) = Cardinality(Account) * InitBalance
=============================================================================
