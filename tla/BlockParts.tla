----------------------------- MODULE BlockParts -----------------------------
(***************************************************************************)
(* How a block travels: its bytes are cut into parts, each with a Merkle   *)
(* proof, and a proposal brings the root.  Urd and Pyramid have the same   *)
(* code (block-part.go), with View in one and Height in the other; the     *)
(* names are Urd's.  A message is a number here.  Its BlockBytes bytes are *)
(* a sequence of that length in which every byte tells the message and its *)
(* place.                                                                  *)
(***************************************************************************)
EXTENDS Merkle, FiniteSets

CONSTANTS BlockBytes,    \* bytes of a block
          MaxPartSize    \* maxPartSize

ASSUME PartsAssumption == BlockBytes \in Nat \ {0} /\ MaxPartSize \in Nat \ {0}

\* proto.Marshal, and proto.Unmarshal of bytes that are a message's
Marshal(msg) == [n \in 1 .. BlockBytes |-> <<"byte", n, msg>>]
Unmarshals(bz) == bz # <<>> /\ bz = Marshal(bz[1][3])
Unmarshal(bz) == bz[1][3]

SplitByteArray(data, size) ==
    [n \in 1 .. ((Len(data) + size - 1) \div size) |->
        SubSeq(data, (n - 1) * size + 1, IF n * size > Len(data) THEN Len(data) ELSE n * size)]

PartLeaf(bytes) == <<"raw", bytes>>

\* PartSetFromBlock
PartSetFromBlock(chain, view, round, bytes, hash) ==
    LET list == SplitByteArray(bytes, MaxPartSize)
        tree == ProofsFromByteSlices([n \in DOMAIN list |-> PartLeaf(list[n])])
    IN  [Header |-> [ChainID |-> chain, View |-> view, Round |-> round, Total |-> Len(list), Root |-> tree.root],
         Parts |-> [n \in DOMAIN list |-> [ChainID |-> chain, View |-> view, Round |-> round,
                                           Bytes |-> list[n], Proof |-> tree.proofs[n]]],
         BlockHeaderHash |-> hash]

\* ValidateBasic of a header and of a part
ValidateHeader(h) == h.View >= 0 /\ h.Round >= 0 /\ h.Total >= 0 /\ h.ChainID # "" /\ isHash(h.Root)
ValidatePart(p) == p.View >= 0 /\ p.Round >= 0 /\ p.Bytes # <<>> /\ p.ChainID # "" /\ ValidateProof(p.Proof)

\* Part.Verify
VerifyPart(p, h) == /\ Verifies(p.Proof, h.Root, PartLeaf(p.Bytes))
                    /\ h.Total = p.Proof.Total /\ h.ChainID = p.ChainID

\* AddPart takes the part: its place, from 0, is free, and it belongs to the header.
Takes(h, have, p) ==
    /\ p.Proof.Index \notin DOMAIN have
    /\ h.View = p.View /\ h.Round = p.Round
    /\ VerifyPart(p, h)

IsComplete(h, have) == Cardinality(DOMAIN have) = h.Total
=============================================================================
