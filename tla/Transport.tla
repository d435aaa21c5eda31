------------------------------ MODULE Transport ------------------------------
(***************************************************************************)
(* One block on its way: the leader's proposal and parts to a follower,    *)
(* the votes for it back, the certificate made from them, and, in Urd, the *)
(* cross-shard messages that carry the certificate, with the proofs about  *)
(* the block before it.  The network may bring the proposal and the parts  *)
(* in any order and again, with parts of other blocks between them.        *)
(*                                                                         *)
(* The blocks of the instance are numbered.  In the state a part is        *)
(* <<block, place>>, and a vote is for the block or for none (0).          *)
(***************************************************************************)
EXTENDS UrdTypes, PyramidTypes, BlockParts, Votes, SequencesExt

CONSTANTS Heads,       \* [system, number, chain, view] of every block
          Blocks,      \* [system, number, made: the block, in Urd what make_block is given,
                       \*  prev: in Urd, that of the block before it or <<>>,
                       \*  outputs: of prev, for each shard, pool: blocks that the leader has]
          Leader,      \* the proposer's index
          VoteData,    \* what the votes of Urd may have as ForNecessaryData
          MaxEarly     \* bound: parts that arrive before the proposal

UrdBlock(m) == MakeBlock(m.chain, m.me, m.view, m.pool, m.last, m.time, m.finished, m.ptxs, m.cross, m.outputs)
BlockOf(x) == IF x.system = "urd" THEN UrdBlock(x.made) ELSE x.made

ViewOf(s, header) == IF s = "urd" THEN header.View ELSE header.Height
HashOf(s, b) == IF s = "urd" THEN BlockHash(b) ELSE PBlockHash(b)
ToProto(s, b) == IF s = "urd" THEN BlockToProto(b) ELSE PBlockToProto(b)
FromProto(s, m) == IF s = "urd" THEN NewBlockFromProto(m) ELSE m

\* A number stands for one block of its system, which has a head.
ASSUME HeadsAssumption ==
    /\ \A g, h \in Heads : g.system = h.system /\ g.number = h.number => g = h
    /\ \A x \in Blocks : \E h \in Heads :
         /\ h.system = x.system /\ h.number = x.number
         /\ LET header == BlockOf(x).Header IN h.chain = header.ChainID /\ h.view = ViewOf(x.system, header)

\* A slice, and the fields of a certificate
IsList(s) == Len(s) \in Nat /\ s = [n \in 1 .. Len(s) |-> s[n]]
IsAggVote(v) ==
    /\ v = [Code |-> v.Code, View |-> v.View, Round |-> v.Round, ForHash |-> v.ForHash,
            ForNecessaryData |-> v.ForNecessaryData, Sign |-> v.Sign, SignerIndexer |-> v.SignerIndexer]
    /\ v.SignerIndexer \in [Bits : Nat, Elems : Seq(SUBSET (0 .. (ByteBits - 1)))]

\* What make_block is given.  The messages of the last view have passed ValidateBasic, and those that
\* come when there are four blocks have their proofs.
IsMade(m) ==
    /\ IsList(m.finished) /\ IsList(m.outputs) /\ IsList(m.ptxs) /\ IsList(m.cross)
    /\ \A n \in DOMAIN m.outputs : IsList(m.outputs[n])
    /\ \A n \in DOMAIN m.ptxs : IsList(m.ptxs[n])
    /\ m.time = [at |-> m.time.at, reading |-> m.time.reading]
    /\ m.view \in Nat /\ m.pool \in Nat /\ (m.view > 5 => m.pool >= 4)
    /\ m.pool >= 1 => m.me \in DOMAIN m.finished
    /\ \A n \in DOMAIN m.finished :
         LET csm == m.finished[n]
         IN  /\ IsAggVote(csm.AggVote) /\ ValidateCSM(csm)
             /\ m.pool >= 4 => 1 \in DOMAIN csm.ProofOfIntention /\ 1 \in DOMAIN csm.OutputTxsProof

\* A message with proofs is about a block that has a CommitIntention.
ASSUME BlocksAssumption ==
    \A x \in Blocks :
      IF x.system = "urd"
      THEN /\ IsMade(x.made)
           /\ x.pool \in Nat /\ IsList(x.outputs)
           /\ x.outputs # <<>> /\ x.pool >= 4 =>
                LET m == x.prev[1] IN IsMade(m) /\ m.pool >= 2 /\ x.outputs = m.outputs
      ELSE /\ DOMAIN x.made = {"Header", "Body", "CrossShardBody", "Relation"}
           /\ LET h == x.made.Header
              IN  h = [BlockType |-> h.BlockType, HashPointer |-> h.HashPointer, ChainID |-> h.ChainID,
                       Height |-> h.Height, Time |-> [at |-> h.Time.at, reading |-> h.Time.reading],
                       BodyRoot |-> h.BodyRoot, CrossShardBodyRoot |-> h.CrossShardBodyRoot,
                       StateRoot |-> h.StateRoot, ReceiptRoot |-> h.ReceiptRoot, RelationRoot |-> h.RelationRoot]
           /\ x.outputs = <<>>

VARIABLES wire,        \* the block: what is sent of it, and what a receiver makes of that
          proposed,    \* the follower has the proposal
          early,       \* retainBlockParts, randomHeaderBuffer
          parts,       \* PartSet.Parts: from places to parts
          rebuilt,     \* GenBlock: Nil, the number of the block, or 0 if it fails
          seen,        \* the block's parts that arrived so far
          votes, maj,  \* the votes, and the majority of Pyramid's VoteSet
          cert,        \* the certificate, Nil before it is made
          answer       \* what became of the last cross-shard message, Nil if there was none

vars == <<wire, proposed, early, parts, rebuilt, seen, votes, maj, cert, answer>>

\* A message of a leader to shard number to, as it arrives.  The outputs should be the ones that the
\* block before has for that shard, and the brief that block's.
Delivered(x, prev, hash, to, outs, brief) ==
    LET vote == [ForNecessaryData |-> <<hash>>, SignerIndexer |-> NewBitVector(N)]
        csm  == CrossShardMessage(prev.Header.ChainID, vote, x.pool, prev, to, x.outputs[outs])
    IN  NewCSMFromProto(CSMToProto(IF brief = "own" THEN csm
                                   ELSE [csm EXCEPT !.IntentionBrief = Append(@, <<"str", brief>>)]))

\* Whether Receive accepts such a message; same: outs has the outputs that the block has for to
Verdict(csm, same, brief) ==
    [same |-> same, brief |-> brief, proofs |-> Len(csm.OutputTxsProof), ok |-> ValidateCSM(csm)]
Received(x, prev, to, outs, brief) ==
    Verdict(Delivered(x, prev, BlockHash(prev), to, outs, brief), x.outputs[outs] = x.outputs[to], brief)
Messages(x) == {Received(x, UrdBlock(x.prev[1]), to, outs, brief) :
                  to \in DOMAIN x.outputs, outs \in DOMAIN x.outputs, brief \in {"own", "other"}}

\* What GenBlock finds out about the block b that NewBlockFromBytes made of the message of x: its chain
\* and view, whether ValidateBasic accepts it, and whether it has the hash of x and would be sent as x
Judged(x, b) ==
    [system |-> x.system, number |-> x.number, chain |-> b.Header.ChainID, view |-> ViewOf(x.system, b.Header),
     valid |-> IF x.system = "urd" THEN ValidateBlock(b) ELSE PValidateBlock(b),
     hash  |-> HashOf(x.system, b) = HashOf(x.system, BlockOf(x)),
     again |-> ToProto(x.system, b) = ToProto(x.system, BlockOf(x)),
     messages |-> Messages(x)]
Wire == UNION {{Judged(x, b) : b \in {FromProto(x.system, ToProto(x.system, BlockOf(x)))}} : x \in Blocks}

system == wire.system
blk    == wire.number

\* The part sets of the blocks and, one by one, their parts
PartSets == {[system |-> h.system,
              set |-> PartSetFromBlock(h.chain, h.view, Round, Marshal(h.number), h.number)] : h \in Heads}
AllParts == UNION {{[system |-> ps.system, id |-> <<ps.set.BlockHeaderHash, n>>, part |-> ps.set.Parts[n]] :
                       n \in DOMAIN ps.set.Parts} : ps \in PartSets}

PartSet == (CHOOSE ps \in PartSets : ps.system = system /\ ps.set.BlockHeaderHash = blk).set
View    == PartSet.Header.View
PartIds == {x.id : x \in {y \in AllParts : y.system = system}}
PartOf(id) == (CHOOSE x \in AllParts : x.system = system /\ x.id = id).part
OwnParts == {id \in PartIds : id[1] = blk}

-----------------------------------------------------------------------------
(* The follower. *)

\* GenBlock: the bytes joined, unmarshalled and checked.  The bytes of another block have another hash.
GenBlock(have) ==
    LET h  == PartSet.Header
        bz == FlattenSeq([n \in 1 .. h.Total |-> PartOf(have[n - 1]).Bytes])
    IN  IF /\ Unmarshals(bz) /\ Unmarshal(bz) = blk
           /\ wire.chain = h.ChainID /\ wire.view = h.View
           /\ wire.valid
           /\ wire.hash
        THEN blk ELSE 0

AddPart(have, id) ==
    LET p == PartOf(id)
        i == p.Proof.Index
    IN  IF Takes(PartSet.Header, have, p)
        THEN [n \in DOMAIN have \cup {i} |-> IF n = i THEN id ELSE have[n]] ELSE have

\* A complete set is made a block.
Collected(have) == IF IsComplete(PartSet.Header, have) THEN GenBlock(have) ELSE Nil

\* Proposal.SignBytes
ProposalSignBytes(n) == <<"Proposal", n>>

\* The proposal, which the proposer must have signed; then the parts that came before it, which
\* nobody looks at again
ReceiveProposal(signer) ==
    LET msg  == ProposalSignBytes(blk)
        have == FoldLeft(AddPart, <<>>, early)
    IN  /\ ~proposed
        /\ ValidateHeader(PartSet.Header)
        /\ VerifySignature(Sign(signer, msg), msg, Leader)
        /\ proposed' = TRUE
        /\ parts' = have
        /\ early' = <<>>
        /\ rebuilt' = Collected(have)
        /\ UNCHANGED <<wire, seen, votes, maj, cert, answer>>

ReceivePart(id) ==
    LET p == PartOf(id)
    IN  /\ ValidatePart(p)
        /\ p.ChainID = PartSet.Header.ChainID /\ p.View = View
        /\ seen' = seen \cup ({id} \cap OwnParts)
        /\ \/ /\ ~proposed /\ Len(early) < MaxEarly
              /\ early' = Append(early, id)
              /\ UNCHANGED <<parts, rebuilt>>
           \/ /\ proposed
              /\ parts' = AddPart(parts, id)
              /\ rebuilt' = IF parts' = parts THEN rebuilt ELSE Collected(parts')
              /\ UNCHANGED early
        /\ UNCHANGED <<wire, proposed, votes, maj, cert, answer>>

-----------------------------------------------------------------------------
(* The collector of votes: the leader in Urd, every node in Pyramid. *)

\* What a vote may say
Ballot == IF system = "urd" THEN [ok : BOOLEAN, hash : {0, blk}, data : VoteData] ELSE [ok : BOOLEAN, hash : {0, blk}]

\* A vote of validator i, which signer has signed; one that is refused changes nothing
AddVote(i, signer, vote) ==
    /\ \/ /\ system = "urd"
          /\ LET sig == Sign(signer, VoteSignBytes(vote.ok, View, vote.hash, vote.data))
             IN  votes' = addVote(votes, i, vote, sig, View, blk)
          /\ UNCHANGED maj
       \/ /\ system = "pyramid"
          /\ LET sig == Sign(signer, PrecommitSignBytes(vote.ok, View, vote.hash))
             IN  votes' = AddPrecommit(votes, i, vote, sig, View)
          /\ maj' = Maj23(votes', maj, vote)
    /\ votes' # votes
    /\ UNCHANGED <<wire, proposed, early, parts, rebuilt, seen, cert, answer>>

\* GetMaj23 in Urd, once there is a quorum; next_step never waits for votes if it takes none to have
\* one.  GenerateAggregatePrecommitSignature in Pyramid, by a node that has the block
MakeCertificate ==
    /\ cert = Nil
    /\ \/ /\ system = "urd" /\ ~isQuorum([i \in Validator |-> Nil]) /\ isQuorum(votes)
          /\ cert' = getMaj23(votes, View, blk)
       \/ /\ system = "pyramid" /\ maj # Nil /\ rebuilt \notin {Nil, 0}
          /\ cert' = PrecommitAggregated(votes, maj, [View |-> View])
    /\ UNCHANGED <<wire, proposed, early, parts, rebuilt, seen, votes, maj, answer>>

\* CrossShardCommunicate, and Receive in the other shard
ReceiveCSM(a) ==
    /\ system = "urd" /\ cert # Nil
    /\ answer' = a
    /\ UNCHANGED <<wire, proposed, early, parts, rebuilt, seen, votes, maj, cert>>

-----------------------------------------------------------------------------
Init == /\ wire \in Wire
        /\ proposed = FALSE /\ early = <<>> /\ parts = <<>> /\ rebuilt = Nil /\ seen = {}
        /\ votes = [i \in Validator |-> Nil] /\ maj = Nil /\ cert = Nil /\ answer = Nil

Next == \/ \E signer \in Validator : ReceiveProposal(signer)
        \/ \E id \in PartIds : ReceivePart(id)
        \/ \E vote \in Ballot, i, signer \in Validator : AddVote(i, signer, vote)
        \/ MakeCertificate
        \/ \E a \in wire.messages : ReceiveCSM(a)

Spec == Init /\ [][Next]_vars

-----------------------------------------------------------------------------
(* Properties. *)

(* A follower that has the proposal and has been sent every part of the block, in whatever order,
   before or after the proposal and with parts of other blocks between them, has the block: AddPart
   took every part and nothing else, GenBlock accepted the bytes (ValidateBasic, and the hash
   computed from what the codec keeps is the one the leader proposed), as read it is encoded again
   to the same bytes, and the follower never has another. *)
BlockRebuilt == /\ proposed /\ OwnParts \subseteq seen => rebuilt = blk
                /\ rebuilt # Nil => rebuilt = blk /\ wire.again

\* Urd: the certificate holds what each voter it names has signed, but the last hash it carries is only
\* that of some voter, perhaps of one it does not name; if all votes are the same, it verifies.
UrdSound(c) ==
    LET named == Members(c.SignerIndexer)
    IN  /\ \A i \in named :
             /\ i \in Voted(votes) /\ votes[i].ok = c.Code /\ votes[i].hash = c.ForHash
             /\ Sign(i, VoteSignBytes(c.Code, View, c.ForHash, votes[i].data)) \subseteq c.Sign
        /\ Power(named) >= (2 * VotesNeeded) \div 3
        /\ \E i \in Voted(votes) : c.ForNecessaryData = votes[i].data
        /\ (\A i, j \in Voted(votes) : votes[i] = votes[j]) =>
             VerifyAggregateSignature(c.Sign, VoteSignBytes(c.Code, View, c.ForHash, c.ForNecessaryData), Byte(c.SignerIndexer))

\* Pyramid: the signature verifies against exactly the voters named.
PyramidSound(c) ==
    LET named == Members(c.ValidatorBitVector)
    IN  /\ named \subseteq Agreeing(votes, [ok |-> c.Code, hash |-> c.BlockHeaderHash])
        /\ 3 * Power(named) > 2 * VotesNeeded
        /\ VerifySignatures(c)

(* The voters that a certificate names after it went through the bit vector's bytes have voted what it
   says of the block, with the power the collector asks for, although other votes came between theirs
   (getMaj23, GetMaj23AggreSig). *)
CertificateSound ==
    cert # Nil =>
      IF system = "urd" THEN UrdSound(NewAggVoteFromProto(AggVoteToProto(cert)))
      ELSE PyramidSound(NewPrecommitAggregatedFromProto(PrecommitAggregatedToProto(cert)))

(* A cross-shard message with proofs is accepted exactly if it brings the outputs that the block
   before has for the shard the proof is about, and that block's brief.  And the root in the proposal is
   the one that the iterative algorithm computes from the parts that were collected. *)
ProofsExact ==
    /\ answer # Nil => (answer.ok <=> answer.proofs = 0 \/ (answer.same /\ answer.brief = "own"))
    /\ rebuilt # Nil => PartSet.Header.Root = HashFromByteSlicesIterative(
                        [n \in 1 .. Cardinality(DOMAIN parts) |-> PartLeaf(PartOf(parts[n - 1]).Bytes)])
=============================================================================
