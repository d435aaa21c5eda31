----------------------------- MODULE BitVector -----------------------------
(***************************************************************************)
(* The bit vectors in which a certificate names its voters                 *)
(* (utils/bit-vector.go).  A byte is the set of its bits that are 1.  The  *)
(* operations that nobody calls (Or, And, Not, Sub) are left out.          *)
(***************************************************************************)
EXTENDS Integers, Sequences, FiniteSets

CONSTANT ByteBits       \* bits per byte: 8

ASSUME ByteAssumption == ByteBits \in Nat \ {0}

NewBitVector(bits) ==
    [Bits |-> bits, Elems |-> [n \in 1 .. ((bits + ByteBits - 1) \div ByteBits) |-> {}]]

\* Byte: the number of unused bits, then the bytes
Byte(bv) == [useless |-> ByteBits * Len(bv.Elems) - bv.Bits, elems |-> bv.Elems]

NewBitArrayFromByte(buf) == [Bits |-> Len(buf.elems) * ByteBits - buf.useless, Elems |-> buf.elems]

GetIndex(bv, i) == i < bv.Bits /\ i % ByteBits \in bv.Elems[i \div ByteBits + 1]

SetIndex(bv, i, v) ==
    IF i >= bv.Bits THEN bv
    ELSE [bv EXCEPT !.Elems[i \div ByteBits + 1] = IF v THEN @ \cup {i % ByteBits} ELSE @ \ {i % ByteBits}]

\* The indexes a vector stands for
Members(bv) == {i \in 0 .. (bv.Bits - 1) : GetIndex(bv, i)}
=============================================================================
