-------------------------------- MODULE Votes --------------------------------
(***************************************************************************)
(* Votes and the certificates made from them: the signatures (utils/signer *)
(* over a BLS library), hotstuff's HeightDataPackage (Urd) and the VoteSet *)
(* of precommits (Pyramid).  A signature is the set of who signed what:    *)
(* aggregation is union, and a signature verifies against some keys and a  *)
(* message if it is exactly theirs.  The hash of a block is an identifier. *)
(*                                                                         *)
(* votes[i] is Nil or the vote of validator i: [ok, hash], and in Urd data, *)
(* its ForNecessaryData, which is the hash of the block before.            *)
(***************************************************************************)
EXTENDS BitVector, FiniteSetsExt

CONSTANTS N,            \* validators 0 .. N-1
          PerVote,      \* the power of each
          Round,
          Nil

Validator == 0 .. (N - 1)

ASSUME VotesAssumption == N \in Nat /\ PerVote \in [Validator -> Nat]

VotesNeeded == MapThenSumSet(LAMBDA i : PerVote[i], Validator)
Power(S) == MapThenSumSet(LAMBDA i : PerVote[i], S)

-----------------------------------------------------------------------------
(* Signatures. *)

Sign(i, msg) == {<<i, msg>>}
AggregateSignatures(sigs) == UNION sigs
VerifySignature(sig, msg, i) == i < N /\ sig = Sign(i, msg)
VerifyAggregateSignature(sig, msg, buf) ==
    LET bitMap == NewBitArrayFromByte(buf)
    IN  bitMap.Bits = N /\ sig = {<<i, msg>> : i \in Members(bitMap)}

\* The bytes that are signed, with -1 for the validator.
VoteSignBytes(ok, view, hash, data) == <<"Vote", ok, view, Round, hash, data, -1>>
PrecommitSignBytes(ok, height, hash) == <<"Precommit", ok, height, Round, hash, -1>>

BitVectorOf(S) == FoldSet(LAMBDA i, bv : SetIndex(bv, i, TRUE), NewBitVector(N), S)

Voted(votes)          == {i \in Validator : votes[i] # Nil}
Agreeing(votes, vote) == {i \in Voted(votes) : votes[i] = vote}

-----------------------------------------------------------------------------
(* hotstuff. *)

\* addVote: signature, hash, and one vote of each.  Nothing compares the data of two votes.
addVote(votes, i, vote, sig, view, hash) ==
    IF ~VerifySignature(sig, VoteSignBytes(vote.ok, view, vote.hash, vote.data), i) \/ vote.hash # hash \/ votes[i] # Nil
    THEN votes ELSE [votes EXCEPT ![i] = vote]

VotesTotal(votes, ok) == Power({i \in Voted(votes) : votes[i].ok = ok})
isQuorum(votes) == \E ok \in BOOLEAN : VotesTotal(votes, ok) >= (2 * VotesNeeded) \div 3

\* Mutant: VotesBitVector, which has every vote, is taken.
getMaj23_everyone(votes, view, hash) ==
    LET last == Max(Voted(votes))
    IN  [Code |-> VotesTotal(votes, TRUE) >= (2 * VotesNeeded) \div 3, View |-> view, Round |-> Round, ForHash |-> hash,
         ForNecessaryData |-> votes[last].data,
         Sign |-> AggregateSignatures({Sign(i, VoteSignBytes(votes[i].ok, view, votes[i].hash, votes[i].data)) :
                                       i \in Voted(votes)}),
         SignerIndexer |-> BitVectorOf(Voted(votes))]

\* getMaj23: the bit vector has the votes with the code of the majority, the signature is of all the
\* votes, and the data are those of the last one, whatever its code.
getMaj23(votes, view, hash) ==
    LET ok   == VotesTotal(votes, TRUE) >= (2 * VotesNeeded) \div 3
        last == Max(Voted(votes))
    IN  [Code |-> ok, View |-> view, Round |-> Round, ForHash |-> hash, ForNecessaryData |-> votes[last].data,
         Sign |-> AggregateSignatures({Sign(i, VoteSignBytes(votes[i].ok, view, votes[i].hash, votes[i].data)) :
                                       i \in Voted(votes)}),
         SignerIndexer |-> BitVectorOf({i \in Voted(votes) : votes[i].ok = ok})]

-----------------------------------------------------------------------------
(* Pyramid. *)

\* AddPrecommit and AddVote: a second vote of a validator changes nothing.
AddPrecommit(votes, i, vote, sig, height) ==
    IF ~VerifySignature(sig, PrecommitSignBytes(vote.ok, height, vote.hash), i) \/ votes[i] # Nil
    THEN votes ELSE [votes EXCEPT ![i] = vote]

\* The first vote that has more than two thirds behind it stays the majority.
Maj23(votes, maj, vote) ==
    IF maj = Nil /\ Power(Agreeing(votes, vote)) > (2 * VotesNeeded) \div 3 THEN vote ELSE maj

GetMaj23AggreSig(votes, maj, height) ==
    [sig |-> AggregateSignatures({Sign(i, PrecommitSignBytes(votes[i].ok, height, votes[i].hash)) :
                                  i \in Agreeing(votes, maj)}),
     bv  |-> Byte(BitVectorOf(Agreeing(votes, maj)))]

\* GenerateAggregatePrecommitSignature and NewPrecommitAggregated
PrecommitAggregated(votes, maj, header) ==
    LET s == GetMaj23AggreSig(votes, maj, header.View)
    IN  [Code |-> maj.ok, ValidatorBitVector |-> NewBitArrayFromByte(s.bv), Header |-> header,
         BlockHeaderHash |-> maj.hash, AggregatedSignatures |-> s.sig]

\* ToProto and its inverse
PrecommitAggregatedToProto(p) == [p EXCEPT !.ValidatorBitVector = Byte(@)]
NewPrecommitAggregatedFromProto(p) == [p EXCEPT !.ValidatorBitVector = NewBitArrayFromByte(@)]

\* VerifySignatures: as if of the precommit the certificate stands for
VerifySignatures(p) == VerifyAggregateSignature(p.AggregatedSignatures,
                                                PrecommitSignBytes(p.Code, p.Header.View, p.BlockHeaderHash),
                                                Byte(p.ValidatorBitVector))
=============================================================================
