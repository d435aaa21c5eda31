------------------------------ MODULE UrdTypes ------------------------------
(***************************************************************************)
(* The blocks and cross-shard messages of Urd (urd/types): their hashes,   *)
(* Merkle proofs, checks and what of them goes over the wire.              *)
(*                                                                         *)
(* A pointer or slice that may be nil is a sequence of at most one         *)
(* element.  ToProto and its inverse are shown only where they lose or add *)
(* something: nil and empty lists, the clock reading of a time, the bit    *)
(* vector of a vote and the roots of a header.                             *)
(***************************************************************************)
EXTENDS Merkle, BitVector

\* mustBytes of the types of a header
StringBytes(s) == <<"str", s>>
TimeBytes(t)   == <<"time", t.at>>
\* proto.Marshal of a message that is only hashed
MustProtoBytes(type, msg) == <<"proto", type, msg>>

-----------------------------------------------------------------------------
(* AggregatedVote. *)

AggVoteToProto(v)   == [v EXCEPT !.SignerIndexer = Byte(@)]
NewAggVoteFromProto(p) == [p EXCEPT !.SignerIndexer = NewBitArrayFromByte(@)]
AggVoteHash(v) == HashFromByteSlices(<<MustProtoBytes("AggregatedVote", AggVoteToProto(v))>>)

GetLastHashOfAggVote(v) == IF v.ForNecessaryData = <<>> THEN <<>> ELSE v.ForNecessaryData[1]

-----------------------------------------------------------------------------
(* Txs, CommitIntention, CommitCertificate and their proofs. *)

TxsHash(txs) == HashFromByteSlices(txs)

BriefHash(brief) == HashFromByteSlices(brief)
RightHash(ci) == HashFromByteSlices([n \in DOMAIN ci.AggregatedSignatures |-> AggVoteHash(ci.AggregatedSignatures[n])])
CommitIntentionHash(ci) == HashFromByteSlices(<<BriefHash(ci.IntentionHash), RightHash(ci)>>)
CIToProto(ci) == [ci EXCEPT !.AggregatedSignatures = [n \in DOMAIN @ |-> AggVoteToProto(@[n])]]
NewCIFromProto(p) == [p EXCEPT !.AggregatedSignatures = [n \in DOMAIN @ |-> NewAggVoteFromProto(@[n])]]

\* ProofOfIntention: Verify and Hash
IntentionVerifies(poi, root, leftHash) ==
    Verifies(poi.IntentionHashProof, root, HashFromByteSlices(<<leftHash, poi.RightHash>>))
ProofOfIntentionHash(poi) == HashFromByteSlices(<<ContentHash(poi.IntentionHashProof), poi.RightHash>>)

\* CommitCertificateCore.Verify and CommitCertificate.Hash
CoreVerifies(core) == IntentionVerifies(core.MKProof, core.Hash, BriefHash(core.IntentionBrief))
CommitCertificateHash(cc) ==
    HashFromByteSlices([n \in DOMAIN cc |->
        HashFromByteSlices(<<cc[n].Hash, BriefHash(cc[n].IntentionBrief), ProofOfIntentionHash(cc[n].MKProof)>>)])

\* CommitCertificate.Result: the places where two shards have different intentions.  A brief
\* longer than the certificate, at which the code would index past the end, has no place here:
\* both have one entry per shard (make_block).
Disagree(cc, i) == \E m, n \in DOMAIN cc :
    LET said(k) == IF i \in DOMAIN cc[k].IntentionBrief THEN cc[k].IntentionBrief[i] ELSE <<>>
    IN  said(m) # <<>> /\ said(n) # <<>> /\ said(m) # said(n)

\* OutputTxsProof: Verify, with the root that its own first proof gives, and Hash
OutputTxsVerifies(proof, root, txs) ==
    LET optRoot == ComputeRootHash(proof.OPTProof)
    IN  Verifies(proof.OPTProof, optRoot, TxsHash(txs)) /\ Verifies(proof.BlockProof, root, optRoot)
OutputTxsProofHash(proof) == HashFromByteSlices(<<ContentHash(proof.BlockProof), ContentHash(proof.OPTProof)>>)

-----------------------------------------------------------------------------
(* Block. *)

CommitTxsListRoot(b) ==
    HashFromByteSlices(<<HashFromByteSlices([n \in DOMAIN b.CTXS |-> TxsHash(b.CTXS[n])]),
                         HashFromByteSlices([n \in DOMAIN b.CTXSProof |-> OutputTxsProofHash(b.CTXSProof[n])])>>)

\* A root that is there is not computed again: a receiver keeps the one it was sent.
Fill(root, present, computed) == IF root = <<>> /\ present THEN computed ELSE root

fillInHeader(b) ==
    LET h == b.Header
    IN  [b EXCEPT !.Header =
          [h EXCEPT !.PrepareRoot           = Fill(h.PrepareRoot, b.PTXS # <<>>, TxsHash(b.PTXS[1])),
                    !.CrossShardRoot        = Fill(h.CrossShardRoot, b.CrossShardTxs # <<>>, TxsHash(b.CrossShardTxs[1])),
                    !.OutputTxsRoot         = Fill(h.OutputTxsRoot, TRUE, HashFromByteSlices(b.OPT)),
                    !.LastAggSigRoot        = Fill(h.LastAggSigRoot, b.AggSigVote # <<>>, AggVoteHash(b.AggSigVote[1])),
                    !.CommitIntentionRoot   = Fill(h.CommitIntentionRoot, b.CI # <<>>, CommitIntentionHash(b.CI[1])),
                    !.CommitCertificateRoot = Fill(h.CommitCertificateRoot, TRUE, CommitCertificateHash(b.CC)),
                    !.CommitTxsListRoot     = Fill(h.CommitTxsListRoot, TRUE, CommitTxsListRoot(b))]]

\* calBlockHashAndProof: CrossShardRoot and the clock reading are not hashed.
HashOfHeader(h) ==
    ProofsFromByteSlices(<<HashFromByteSlices(<<StringBytes(h.ChainID), IntToBytes(h.View), IntToBytes(h.Round),
                                                TimeBytes(h.Time), h.LastAggSigRoot, h.CommitCertificateRoot>>),
                           h.HashPointer, h.PrepareRoot, h.OutputTxsRoot, h.CommitIntentionRoot,
                           h.CommitTxsListRoot, h.StateRoot>>)
calBlockHashAndProof(block) == HashOfHeader(fillInHeader(block).Header)

BlockHash(block) == calBlockHashAndProof(block).root
\* ProofOfIndex, from 0
ProofOfIndex(block, i) == calBlockHashAndProof(block).proofs[i + 1]
GetOutputTxsProof(block) == ProofOfIndex(block, 3)
GetCommitIntentionProof(block) == ProofOfIndex(block, 4)

\* GetOutputTxsProofOf, index from 1
GetOutputTxsProofOf(block, index) ==
    [BlockProof |-> GetOutputTxsProof(block), OPTProof |-> ProofsFromByteSlices(block.OPT).proofs[index]]

\* Header.ToProto: without CrossShardRoot and the clock reading
HeaderToProto(h) == [h EXCEPT !.CrossShardRoot = <<>>, !.Time = [@ EXCEPT !.reading = "none"]]

\* Txs.ToProto and back: a message is always there, and an empty list comes back as nil.
TxsOverWire(txs) == IF txs = <<>> \/ txs = <<<<>>>> THEN <<>> ELSE txs

\* Mutant: the roots are filled in after the header has been taken.
BlockToProto_unfilled(block) ==
    [block EXCEPT !.Header = HeaderToProto(@), !.PTXS = TxsOverWire(@), !.CrossShardTxs = TxsOverWire(@),
                  !.AggSigVote = [n \in DOMAIN @ |-> AggVoteToProto(@[n])],
                  !.CI = [n \in DOMAIN @ |-> CIToProto(@[n])]]

BlockToProto(block) ==
    [fillInHeader(block) EXCEPT !.Header = HeaderToProto(@), !.PTXS = TxsOverWire(@), !.CrossShardTxs = TxsOverWire(@),
                                !.AggSigVote = [n \in DOMAIN @ |-> AggVoteToProto(@[n])],
                                !.CI = [n \in DOMAIN @ |-> CIToProto(@[n])]]
NewBlockFromProto(p) ==
    [p EXCEPT !.AggSigVote = [n \in DOMAIN @ |-> NewAggVoteFromProto(@[n])],
              !.CI = [n \in DOMAIN @ |-> NewCIFromProto(@[n])]]

\* Block.ValidateBasic
ValidateBlock(b) ==
    /\ b.Header.View > 5 =>
         LET ci == b.CI[1]
             last(n) == GetLastHashOfAggVote(ci.AggregatedSignatures[n])
         IN  /\ Len(ci.IntentionHash) = Len(ci.AggregatedSignatures)
             /\ \A n \in DOMAIN ci.IntentionHash : ci.IntentionHash[n] = last(n)
             /\ Len(b.CC) = Len(ci.IntentionHash)
             /\ \A n \in DOMAIN b.CC : b.CC[n].Hash = last(n) /\ CoreVerifies(b.CC[n])
    /\ Len(b.CTXS) = Len(b.CTXSProof) /\ Len(b.CTXS) = Len(b.CC)
    /\ \A n \in DOMAIN b.CC : \/ Disagree(b.CC, n)
                              \/ OutputTxsVerifies(b.CTXSProof[n],
                                                   GetLastHashOfAggVote(b.CI[1].AggregatedSignatures[n]), b.CTXS[n])

-----------------------------------------------------------------------------
(* CrossShardMessage. *)

\* CrossShardCommunicate: what a shard sends to the index-th one (from 1) about its block j-2,
\* whose hash the votes for block j-1 name; with fewer than four blocks only the votes
CrossShardMessage(chain, aggVote, pool, block, index, txs) ==
    LET later == IF pool >= 4 THEN 1 .. 1 ELSE {}
    IN  [SourceChain |-> chain, AggVote |-> aggVote,
         IntentionBrief   |-> IF pool >= 4 THEN block.CI[1].IntentionHash ELSE <<>>,
         ProofOfIntention |-> [n \in later |-> [IntentionHashProof |-> GetCommitIntentionProof(block),
                                                RightHash |-> RightHash(block.CI[1])]],
         OPTXs            |-> IF pool >= 4 THEN txs ELSE <<>>,
         OutputTxsProof   |-> [n \in later |-> GetOutputTxsProofOf(block, index)]]

CSMToProto(csm) == [csm EXCEPT !.AggVote = AggVoteToProto(@)]
NewCSMFromProto(p) == [p EXCEPT !.AggVote = NewAggVoteFromProto(@)]

\* Mutant: the outputs are not checked.
ValidateCSM_no_outputs(csm) ==
    \A n \in DOMAIN csm.ProofOfIntention :
        IntentionVerifies(csm.ProofOfIntention[n], GetLastHashOfAggVote(csm.AggVote), BriefHash(csm.IntentionBrief))

\* CrossShardMessage.ValidateBasic: a proof that is not there is not checked.
ValidateCSM(csm) ==
    LET last == GetLastHashOfAggVote(csm.AggVote)
    IN  /\ \A n \in DOMAIN csm.ProofOfIntention :
              IntentionVerifies(csm.ProofOfIntention[n], last, BriefHash(csm.IntentionBrief))
        /\ \A n \in DOMAIN csm.OutputTxsProof : OutputTxsVerifies(csm.OutputTxsProof[n], last, csm.OPTXs)

\* make_block, with pool blocks before it, the messages of the last view (the one of the shard
\* itself is number me) and the outputs the application has for each shard
MakeBlock(chain, me, view, pool, lastHash, time, finished, ptxs, cross, outputs) ==
    LET shards(least) == IF pool >= least THEN DOMAIN finished ELSE {}
    IN  [Header |-> [HashPointer |-> lastHash, ChainID |-> chain, View |-> view, Round |-> 0, Time |-> time,
                     PrepareRoot |-> <<>>, CrossShardRoot |-> <<>>, OutputTxsRoot |-> <<>>, LastAggSigRoot |-> <<>>,
                     CommitIntentionRoot |-> <<>>, CommitCertificateRoot |-> <<>>, CommitTxsListRoot |-> <<>>,
                     StateRoot |-> <<>>],
         PTXS |-> ptxs, CrossShardTxs |-> cross,
         OPT  |-> [n \in DOMAIN outputs |-> TxsHash(outputs[n])],
         AggSigVote |-> [n \in 1 .. (IF pool >= 1 THEN 1 ELSE 0) |-> finished[me].AggVote],
         CI   |-> [n \in 1 .. (IF pool >= 2 THEN 1 ELSE 0) |->
                      [AggregatedSignatures |-> [m \in DOMAIN finished |-> finished[m].AggVote],
                       IntentionHash        |-> [m \in DOMAIN finished |-> GetLastHashOfAggVote(finished[m].AggVote)]]],
         CC   |-> [n \in shards(4) |-> [Hash           |-> GetLastHashOfAggVote(finished[n].AggVote),
                                        MKProof        |-> finished[n].ProofOfIntention[1],
                                        IntentionBrief |-> finished[n].IntentionBrief]],
         CTXS      |-> [n \in shards(4) |-> finished[n].OPTXs],
         CTXSProof |-> [n \in shards(4) |-> finished[n].OutputTxsProof[1]]]
=============================================================================
