------------------------------- MODULE Merkle -------------------------------
(***************************************************************************)
(* The Merkle trees of crypto/merkle.  A byte string is a tuple: the empty *)
(* one, or a tag and what the bytes are made from.  A hash is a byte       *)
(* string that keeps what was hashed: no two inputs have the same one.     *)
(***************************************************************************)
EXTENDS Integers, Sequences

MaxAunts == 100

\* hash.Sum, and the three hashes made with it
Sum256(bz)         == <<"sum", bz>>
emptyHash          == <<"empty">>
leafHash(leaf)     == <<"leaf", leaf>>
innerHash(l, r)    == <<"inner", l, r>>

\* len(bz) == HashSize
isHash(bz) == bz # <<>> /\ bz[1] \in {"sum", "empty", "leaf", "inner"}

\* The largest power of 2 below length; length > 1
getSplitPoint(length) ==
    LET power[e \in 0 .. length] == IF e = 0 THEN 1 ELSE 2 * power[e - 1]
    IN  CHOOSE k \in {power[e] : e \in 0 .. length} : k < length /\ length <= 2 * k

\* The hash of every run items[lo .. hi] of a list, cut at the split point
HashOfRun(items) ==
    LET run[r \in {p \in (1 .. Len(items)) \X (1 .. Len(items)) : p[1] <= p[2]}] ==
            LET mid == r[1] + getSplitPoint(r[2] - r[1] + 1) - 1
            IN  IF r[1] = r[2] THEN leafHash(items[r[1]])
                ELSE innerHash(run[<<r[1], mid>>], run[<<mid + 1, r[2]>>])
    IN  run

HashFromByteSlices(items) == IF items = <<>> THEN emptyHash ELSE HashOfRun(items)[<<1, Len(items)>>]

\* The iterative variant.  In a round neighbours are joined, and a last one alone is kept.
Collapse(hashes) == [n \in 1 .. ((Len(hashes) + 1) \div 2) |->
                        IF 2 * n <= Len(hashes) THEN innerHash(hashes[2 * n - 1], hashes[2 * n])
                        ELSE hashes[2 * n - 1]]
HashFromByteSlicesIterative(items) ==
    LET after[rounds \in 0 .. Len(items)] ==
            IF rounds = 0 THEN [n \in DOMAIN items |-> leafHash(items[n])] ELSE Collapse(after[rounds - 1])
    IN  IF items = <<>> THEN emptyHash ELSE after[Len(items)][1]

\* trailsFromByteSlices and FlattenAunts: the siblings on the way up from an item
FlattenAunts(items, i) ==
    LET hash == HashOfRun(items)
        aunts[r \in DOMAIN hash] ==
            LET mid == r[1] + getSplitPoint(r[2] - r[1] + 1) - 1
            IN  CASE r[1] = r[2] -> <<>>
                  [] r[1] < r[2] /\ i <= mid -> Append(aunts[<<r[1], mid>>], hash[<<mid + 1, r[2]>>])
                  [] OTHER -> Append(aunts[<<mid + 1, r[2]>>], hash[<<r[1], mid>>])
    IN  aunts[<<1, Len(items)>>]

ProofsFromByteSlices(items) ==
    [root |-> HashFromByteSlices(items),
     proofs |-> [n \in DOMAIN items |-> [Total |-> Len(items), Index |-> n - 1,
                                         LeafHash |-> leafHash(items[n]), Aunts |-> FlattenAunts(items, n)]]]

\* The root above a leaf hash, with the first so many aunts; empty (nil) if their number is not right
computeHashFromAunts(index, total, leaf, aunts) ==
    LET root[q \in (0 .. index) \X (1 .. total) \X (0 .. Len(aunts))] ==
            LET i == q[1]    t == q[2]    m == q[3]
                numLeft == getSplitPoint(t)
                left    == i < numLeft
                below   == IF left THEN root[<<i, numLeft, m - 1>>] ELSE root[<<i - numLeft, t - numLeft, m - 1>>]
            IN  IF t = 1 THEN IF m = 0 THEN leaf ELSE <<>>
                ELSE IF m = 0 \/ below = <<>> THEN <<>>
                ELSE IF left THEN innerHash(below, aunts[m]) ELSE innerHash(aunts[m], below)
    IN  IF index >= total \/ index < 0 THEN <<>> ELSE root[<<index, total, Len(aunts)>>]

ComputeRootHash(p) == computeHashFromAunts(p.Index, p.Total, p.LeafHash, p.Aunts)

\* Verify
Verifies(p, root, leaf) == /\ p.Total >= 0 /\ p.Index >= 0
                           /\ p.LeafHash = leafHash(leaf)
                           /\ ComputeRootHash(p) = root

ValidateProof(p) == /\ p.Total >= 0 /\ p.Index >= 0
                    /\ isHash(p.LeafHash) /\ Len(p.Aunts) <= MaxAunts
                    /\ \A n \in DOMAIN p.Aunts : isHash(p.Aunts[n])

\* utils.IntToBytes
IntToBytes(n) == <<"int", n>>

ContentHash(p) == HashFromByteSlices(<<IntToBytes(p.Index), IntToBytes(p.Total), p.LeafHash,
                                       HashFromByteSlices(p.Aunts)>>)
=============================================================================
