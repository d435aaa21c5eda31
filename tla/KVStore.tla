------------------------------- MODULE KVStore -------------------------------
(***************************************************************************)
(* The key-value store of a node: PrefixStore (utils/store) over RocksDB   *)
(* (libs/db).  A database is a function from byte strings to byte strings, *)
(* and a byte string a sequence of digits.  PrefixStore keeps state and     *)
(* data apart by the first byte of a key.  RocksDB itself is a map  *)
(* with atomic batches, and an iterator reads the map as it was when the   *)
(* iterator was made.                                                      *)
(***************************************************************************)
EXTENDS Integers, Sequences, SequencesExt

CONSTANT Nil                \* a nil slice

stateKey == <<0>>
dataKey  == <<1>>

\* bytes.Join; a nil slice adds nothing
toDataKey(bz)   == IF bz = Nil THEN dataKey ELSE dataKey \o bz
toStateKey(bz)  == stateKey \o bz
\* bytes.TrimPrefix
fromDataKey(bz) == IF IsPrefix(dataKey, bz) THEN Tail(bz) ELSE bz

-----------------------------------------------------------------------------
(* RocksDB. *)

\* Get; the key is never empty under PrefixStore.
DBGet(db, key) == IF key \in DOMAIN db THEN db[key] ELSE Nil

\* Set and SetSync: a nil value is an error and changes nothing.
DBSet(db, key, value) == IF value = Nil THEN db
                         ELSE [k \in DOMAIN db \cup {key} |-> IF k = key THEN value ELSE db[k]]

\* A batch is the sequence of its operations, or Nil once it is closed.
NewBatch == <<>>

BatchSet(batch, key, value) ==
    IF batch = Nil \/ value = Nil THEN batch ELSE Append(batch, [key |-> key, value |-> value])

\* Write and WriteSync: all operations at once, in order; a closed batch writes nothing.
BatchWrite(db, batch) ==
    IF batch = Nil THEN db
    ELSE FoldLeft(LAMBDA d, o : DBSet(d, o.key, o.value), db, batch)

-----------------------------------------------------------------------------
(* Iterators. *)

\* bytes.Compare(a, b) < 0
Less(a, b) == \/ IsStrictPrefix(a, b)
              \/ \E n \in DOMAIN a \cap DOMAIN b :
                     /\ \A m \in 1 .. (n - 1) : a[m] = b[m]
                     /\ a[n] < b[n]

Least(S) == IF S = {} THEN Nil ELSE CHOOSE x \in S : \A y \in S \ {x} : Less(x, y)
Greatest(S) == IF S = {} THEN Nil ELSE CHOOSE x \in S : \A y \in S \ {x} : Less(y, x)

\* The positions of gorocksdb's iterator; Nil when it is not valid.
Seek(db, key)   == Least({k \in DOMAIN db : ~Less(k, key)})
SeekToFirst(db) == Least(DOMAIN db)
SeekToLast(db)  == Greatest(DOMAIN db)
After(db, key)  == Least({k \in DOMAIN db : Less(key, k)})
Before(db, key) == Greatest({k \in DOMAIN db : Less(k, key)})

\* Mutant: the reverse iterator begins at the end, which is exclusive.
newRocksDBIterator_inclusive(db, start, end, isReverse) ==
    [view |-> db, start |-> start, end |-> end, isReverse |-> isReverse, isInvalid |-> FALSE,
     at |-> CASE isReverse /\ end = Nil -> SeekToLast(db)
              [] isReverse /\ end # Nil -> IF Seek(db, end) = Nil THEN SeekToLast(db) ELSE Seek(db, end)
              [] ~isReverse -> IF start = Nil THEN SeekToFirst(db) ELSE Seek(db, start)]

\* newRocksDBIterator: a reverse one begins at the last key before the end.
newRocksDBIterator(db, start, end, isReverse) ==
    [view |-> db, start |-> start, end |-> end, isReverse |-> isReverse, isInvalid |-> FALSE,
     at |-> CASE isReverse /\ end = Nil -> SeekToLast(db)
              [] isReverse /\ end # Nil -> IF Seek(db, end) = Nil THEN SeekToLast(db)
                                           ELSE Before(db, Seek(db, end))
              [] ~isReverse -> IF start = Nil THEN SeekToFirst(db) ELSE Seek(db, start)]

\* Valid
InDomain(it) == /\ ~it.isInvalid /\ it.at # Nil
                /\ IF it.isReverse THEN it.start = Nil \/ ~Less(it.at, it.start)
                   ELSE it.end = Nil \/ Less(it.at, it.end)

\* Valid makes an iterator that is invalid once invalid for ever.
Checked(it) == [it EXCEPT !.isInvalid = ~InDomain(it)]

\* Next of a valid iterator; of another one it panics.
IteratorNext(it) == [it EXCEPT !.at = IF it.isReverse THEN Before(it.view, @) ELSE After(it.view, @)]

-----------------------------------------------------------------------------
(* PrefixStore. *)

Get(db, key)         == DBGet(db, toDataKey(key))
Set(db, key, value)  == DBSet(db, toDataKey(key), value)
GetState(db, key)         == DBGet(db, toStateKey(key))
SetState(db, key, value)  == DBSet(db, toStateKey(key), value)

\* PrefixBatch
PrefixBatchSet(batch, key, value) == BatchSet(batch, toDataKey(key), value)

\* Iterator and ReverseIterator.  A nil limit is the empty key, so that a nil end
\* leaves nothing to visit.
PrefixIterator(db, start, end, isReverse) ==
    newRocksDBIterator(db, toDataKey(start), toDataKey(end), isReverse)

GetBlockByHash(db, hs) == Get(db, hs)

\* SetBlockByHeight: the hash under the height and the chain, then the block under it
SetBlockByHeight(db, heightKey, hs, block) == Set(SetState(db, heightKey, hs), hs, block)
=============================================================================
