---------------------------- MODULE PyramidTypes ----------------------------
(***************************************************************************)
(* The blocks of Pyramid (pyramid/types).  Their roots do not go over the  *)
(* wire before they are filled in: a receiver computes them itself.        *)
(***************************************************************************)
EXTENDS Merkle

TxHash(tx) == Sum256(tx)
\* Txs.Hash
PTxsHash(txs) == HashFromByteSlices([n \in DOMAIN txs |-> TxHash(txs[n])])

BodyRoot(body) == PTxsHash(body.BodyTxs)
CrossShardBodyRoot(body) == HashFromByteSlices(<<PTxsHash(body.CrossShardTxs), HashFromByteSlices(body.CrossShardDatas)>>)
RelationHash(r) == HashFromByteSlices(<<HashFromByteSlices(r.RelatedCommitStatus),
                                        HashFromByteSlices(r.RelatedHash), r.MyCommitStatus>>)

\* fillHeader: the hash of the relation goes into ReceiptRoot, since nobody sets RelationRoot.
fillHeader(b) ==
    LET h == b.Header
        FillRoot(root, computed) == IF isHash(root) THEN root ELSE computed
    IN  [b EXCEPT !.Header =
          [h EXCEPT !.BodyRoot           = FillRoot(h.BodyRoot, BodyRoot(b.Body)),
                    !.ReceiptRoot        = IF isHash(h.RelationRoot) THEN h.ReceiptRoot ELSE RelationHash(b.Relation),
                    !.CrossShardBodyRoot = FillRoot(h.CrossShardBodyRoot, CrossShardBodyRoot(b.CrossShardBody))]]

HeaderHash(h) ==
    HashFromByteSlices(<<IntToBytes(h.BlockType), h.HashPointer, <<"str", h.ChainID>>, IntToBytes(h.Height),
                         <<"time", h.Time.at>>, h.BodyRoot, h.CrossShardBodyRoot, h.StateRoot,
                         h.ReceiptRoot, h.RelationRoot>>)

\* Hash computes from the header with its roots.  It also leaves them in the block, which is
\* not in the model: a block encoded after Hash brings roots that it was not sent with.
PBlockHash(b) == HeaderHash(fillHeader(b).Header)

\* Block.ToProto: the header as it is, without the clock reading
PBlockToProto(b) == [b EXCEPT !.Header.Time.reading = "none"]

\* ValidateBasic accepts every block.
PValidateBlock(b) == TRUE
=============================================================================
