-------------------------- MODULE TransportProofs ---------------------------
(***************************************************************************)
(* Blocks, certificates and cross-shard messages on their way, proved for  *)
(* any validators and voting powers, any blocks that leaders make, any     *)
(* size of parts and any order in which things arrive:                     *)
(*   - who is named after the bit vector of a certificate went over the    *)
(*     network has voted as it says, with enough power;                    *)
(*   - the Merkle trees: an item's own proof verifies, no other item does, *)
(*     two lists have two roots, and both algorithms give the same root;   *)
(*   - a block is the same block at the receiver, which has it as soon as  *)
(*     it has all parts, and never another;                                *)
(*   - a cross-shard message is accepted with the right contents only.     *)
(***************************************************************************)
EXTENDS Transport, FiniteSums, SequenceTheorems

(***************************************************************************)
(* Certificates.  First the places in a bit vector.                        *)
(***************************************************************************)

\* How many bytes there are, what byte n of a set of validators has, and the vector of the set.
Bytes == (N + ByteBits - 1) \div ByteBits
Cell(S, n) == {b \in 0 .. (ByteBits - 1) : ByteBits * (n - 1) + b \in S}
Cells(S) == [n \in 1 .. Bytes |-> Cell(S, n)]
Vector(S) == [Bits |-> N, Elems |-> Cells(S)]

\* There are enough bytes, and no negative number of them.
LEMMA BytesNat == Bytes \in Nat /\ N \in Nat /\ ByteBits \in Nat \ {0}
<1>1. N \in Nat /\ ByteBits \in Nat \ {0} /\ N + ByteBits - 1 \in Nat
  BY VotesAssumption, ByteAssumption
<1> QED BY <1>1, DivMod DEF Bytes

\* The place of a validator.
LEMMA Place ==
    ASSUME NEW i \in Validator
    PROVE  /\ i \div ByteBits + 1 \in 1 .. Bytes /\ i % ByteBits \in 0 .. (ByteBits - 1) /\ i \in 0 .. (N - 1)
           /\ ByteBits * ((i \div ByteBits + 1) - 1) + (i % ByteBits) = i
<1> DEFINE b == ByteBits
           q == i \div b
           r == i % b
           m == N + b - 1
           s == m % b
<1>1. N \in Nat /\ b \in Nat \ {0} /\ i \in Nat /\ i <= N - 1 /\ m \in Nat /\ i \in 0 .. (N - 1)
  BY VotesAssumption, ByteAssumption DEF Validator
<1>2. q \in Nat /\ r \in 0 .. (b - 1) /\ i = b * q + r
  BY <1>1, DivMod
<1>3. Bytes \in Nat /\ s \in 0 .. (b - 1) /\ m = b * Bytes + s
  BY <1>1, DivMod DEF Bytes
<1> HIDE DEF b, q, r, s
<1>4. q + 1 <= Bytes
  <2> SUFFICES ASSUME Bytes <= q PROVE FALSE
    BY <1>2, <1>3
  <2>1. b * Bytes <= b * q /\ b * Bytes \in Int /\ b * q \in Int
    BY <1>1, <1>2, <1>3, TimesMonotone
  <2> QED BY <1>1, <1>2, <1>3, <2>1
<1>5. (q + 1) - 1 = q /\ q + 1 \in 1 .. Bytes
  BY <1>2, <1>3, <1>4
<1> QED BY <1>1, <1>2, <1>5 DEF b, q, r

\* Only one validator has a place.
LEMMA PlaceUnique ==
    ASSUME NEW n \in 1 .. Bytes, NEW b \in 0 .. (ByteBits - 1), NEW i \in Validator
    PROVE  ByteBits * (n - 1) + b = i <=> n = i \div ByteBits + 1 /\ b = i % ByteBits
<1>1. n - 1 \in Nat /\ ByteBits \in Nat \ {0} /\ n \in Int
  BY BytesNat
<1>2. (ByteBits * (n - 1) + b) \div ByteBits = n - 1 /\ (ByteBits * (n - 1) + b) % ByteBits = b
  BY <1>1, DivModUnique
<1>3. (n - 1) + 1 = n
  BY <1>1
<1>4. ByteBits * ((i \div ByteBits + 1) - 1) + (i % ByteBits) = i
  BY Place
<1> QED BY <1>2, <1>3, <1>4, Zenon

\* A vector stands for its set.
LEMMA MembersVector ==
    ASSUME NEW S \in SUBSET Validator
    PROVE  Members(Vector(S)) = S
<1>1. ASSUME NEW i \in Validator PROVE GetIndex(Vector(S), i) <=> i \in S
  <2> DEFINE n == i \div ByteBits + 1
             r == i % ByteBits
  <2>1. n \in 1 .. Bytes /\ r \in 0 .. (ByteBits - 1) /\ i < N /\ ByteBits * (n - 1) + r = i
    BY Place, BytesNat
  <2>2. GetIndex(Vector(S), i) <=> r \in Cells(S)[n]
    BY <2>1 DEF GetIndex, Vector
  <2> HIDE DEF n, r
  <2>3. Cells(S)[n] = Cell(S, n)
    BY <2>1 DEF Cells
  <2> QED BY <2>1, <2>2, <2>3 DEF Cell
<1>2. Members(Vector(S)) = {i \in Validator : GetIndex(Vector(S), i)}
  BY DEF Members, Vector, Validator
<1> QED BY <1>1, <1>2

\* NewBitVector is the vector of no validator.
LEMMA EmptyVector == NewBitVector(N) = Vector({})
<1>1. Cells({}) = [n \in 1 .. Bytes |-> {}]
  BY DEF Cells, Cell
<1> QED BY <1>1 DEF NewBitVector, Vector, Bytes

\* SetIndex adds a validator.
LEMMA SetVector ==
    ASSUME NEW S \in SUBSET Validator, NEW i \in Validator
    PROVE  SetIndex(Vector(S), i, TRUE) = Vector(S \cup {i})
<1> DEFINE n == i \div ByteBits + 1
           r == i % ByteBits
<1>1. n \in 1 .. Bytes /\ r \in 0 .. (ByteBits - 1) /\ ~ (i >= N)
  BY Place, BytesNat
<1>2. SetIndex(Vector(S), i, TRUE) = [Vector(S) EXCEPT !.Elems[n] = @ \cup {r}]
  BY <1>1 DEF SetIndex, Vector
<1>3. ASSUME NEW k \in 1 .. Bytes
      PROVE  Cell(S \cup {i}, k) = IF k = n THEN Cell(S, k) \cup {r} ELSE Cell(S, k)
  <2>1. ASSUME NEW b \in 0 .. (ByteBits - 1)
        PROVE  ByteBits * (k - 1) + b = i <=> k = n /\ b = r
    BY PlaceUnique
  <2> HIDE DEF n, r
  <2>2. ASSUME NEW b \in 0 .. (ByteBits - 1)
        PROVE  b \in Cell(S \cup {i}, k) <=> b \in Cell(S, k) \/ (k = n /\ b = r)
    BY <2>1 DEF Cell
  <2>3. Cell(S \cup {i}, k) \subseteq 0 .. (ByteBits - 1) /\ Cell(S, k) \subseteq 0 .. (ByteBits - 1)
    BY DEF Cell
  <2> QED BY <1>1, <2>2, <2>3
<1> HIDE DEF n, r
<1>4. [Vector(S) EXCEPT !.Elems[n] = @ \cup {r}] = [Bits |-> N, Elems |-> [Cells(S) EXCEPT ![n] = @ \cup {r}]]
  BY DEF Vector
<1>5. [Cells(S) EXCEPT ![n] = @ \cup {r}] = Cells(S \cup {i})
  BY <1>1, <1>3 DEF Cells
<1> QED BY <1>2, <1>4, <1>5 DEF Vector
\* The vector of a finite set, built by SetIndex one by one in any order.
LEMMA BitVectorOfIs ==
    ASSUME NEW S \in SUBSET Validator, IsFiniteSet(S)
    PROVE  BitVectorOf(S) = Vector(S)
<1> DEFINE step(g, s) == IF s = {} THEN NewBitVector(N) ELSE SetIndex(g[s \ {pick(s)}], pick(s), TRUE)
           A(g) == g = [s \in SUBSET S |-> step(g, s)]
           table == CHOOSE g : A(g)
           V == [s \in SUBSET S |-> Vector(s)]
<1>1. BitVectorOf(S) = table[S]
  BY DEF BitVectorOf, FoldSet, MapThenFoldSet, pick
<1>2. ASSUME NEW g, NEW s \in SUBSET S, s # {} => g[s \ {pick(s)}] = Vector(s \ {pick(s)})
      PROVE  step(g, s) = Vector(s)
  <2>1. CASE s = {}
    BY <2>1, EmptyVector
  <2>2. CASE s # {}
    <3> DEFINE i == pick(s)
               u == s \ {i}
    <3>1. i \in s
      BY <2>2, PickIn
    <3>2. i \in Validator /\ u \in SUBSET Validator /\ u \cup {i} = s
      BY <3>1
    <3>3. step(g, s) = SetIndex(Vector(u), i, TRUE)
      BY <1>2, <2>2
    <3> HIDE DEF i, u, step
    <3>4. SetIndex(Vector(u), i, TRUE) = Vector(u \cup {i})
      BY <3>2, SetVector
    <3> QED BY <3>2, <3>3, <3>4
  <2> QED BY <2>1, <2>2
<1>3. A(V)
  <2>1. ASSUME NEW s \in SUBSET S PROVE V[s] = step(V, s)
    <3>1. s \ {pick(s)} \in SUBSET S
      OBVIOUS
    <3>2. V[s \ {pick(s)}] = Vector(s \ {pick(s)}) /\ V[s] = Vector(s)
      BY <3>1
    <3> HIDE DEF V, step
    <3> QED BY <1>2, <3>2
  <2>2. V = [s \in SUBSET S |-> V[s]]
    OBVIOUS
  <2> HIDE DEF V, step
  <2> QED BY <2>1, <2>2
<1>4. A(table)
  <2> HIDE DEF A, V
  <2> QED BY <1>3
<1> HIDE DEF table
<1>5. \A s \in SUBSET S : table[s] = step(table, s)
  <2> HIDE DEF step
  <2> QED BY <1>4, Zenon
<1> DEFINE T == {s \in SUBSET S : table[s] # Vector(s)}
<1>6. T = {}
  <2> SUFFICES ASSUME T # {} PROVE FALSE
    OBVIOUS
  <2>1. T \in SUBSET SUBSET S
    OBVIOUS
  <2>2. PICK x \in T : \A y \in T : y \subseteq x => y = x
    <3> HIDE DEF T
    <3> QED BY <2>1, MinimalSubset
  <2>3. x # {} => table[x \ {pick(x)}] = Vector(x \ {pick(x)})
    <3> SUFFICES ASSUME x # {} PROVE table[x \ {pick(x)}] = Vector(x \ {pick(x)})
      OBVIOUS
    <3>1. pick(x) \in x
      BY PickIn
    <3>2. x \ {pick(x)} \in SUBSET S /\ x \ {pick(x)} \subseteq x /\ x \ {pick(x)} # x
      BY <2>2, <3>1
    <3> QED BY <2>2, <3>2
  <2> HIDE DEF step
  <2>4. step(table, x) = Vector(x)
    BY <1>2, <2>2, <2>3
  <2> QED BY <1>5, <2>2, <2>4
<1> QED BY <1>1, <1>6

(***************************************************************************)
(* The bytes of bit vectors.                                               *)
(***************************************************************************)

\* The cells of a vector, as a sequence.
LEMMA CellsSeq ==
    ASSUME NEW S
    PROVE  Len(Cells(S)) = Bytes /\ DOMAIN Cells(S) = 1 .. Bytes /\ \A n \in 1 .. Bytes : Cells(S)[n] = Cell(S, n)
BY BytesNat DEF Cells

\* What is read from the bytes of a vector is the vector.
LEMMA ByteRoundTrip ==
    ASSUME NEW S
    PROVE  NewBitArrayFromByte(Byte(Vector(S))) = Vector(S)
<1>1. Byte(Vector(S)) = [useless |-> ByteBits * Bytes - N, elems |-> Cells(S)]
  BY CellsSeq DEF Byte, Vector
<1>2. NewBitArrayFromByte(Byte(Vector(S))) = [Bits |-> Bytes * ByteBits - (ByteBits * Bytes - N), Elems |-> Cells(S)]
  BY <1>1, CellsSeq DEF NewBitArrayFromByte
<1>3. Bytes * ByteBits - (ByteBits * Bytes - N) = N
  BY BytesNat
<1> QED BY <1>2, <1>3 DEF Vector

(***************************************************************************)
(* The inductive invariant.                                                *)
(***************************************************************************)

\* What the collector has.
VotesInv == /\ votes \in [Validator -> Ballot \cup {Nil}]
            /\ system = "urd" => \A i \in Voted(votes) : votes[i].hash = blk
MajInv == maj # Nil => maj \in Ballot /\ 3 * Power(Agreeing(votes, maj)) > 2 * VotesNeeded

\* The certificate of either system names the voters S.  That of Urd was made of the votes of V, and
\* its data are those of the last of them.
UrdBytes(i) == VoteSignBytes(votes[i].ok, View, blk, votes[i].data)
UrdCert(S) ==
    /\ cert = [Code |-> cert.Code, View |-> View, Round |-> Round, ForHash |-> blk, ForNecessaryData |-> cert.ForNecessaryData,
               Sign |-> cert.Sign, SignerIndexer |-> Vector(S)]
    /\ Power(S) >= (2 * VotesNeeded) \div 3 /\ S # {}
    /\ \E V \in SUBSET Voted(votes) :
         /\ S = {i \in V : votes[i].ok = cert.Code}
         /\ cert.Sign = {<<i, UrdBytes(i)>> : i \in V}
         /\ \E i \in V : cert.ForNecessaryData = votes[i].data /\ \A j \in V : j <= i
PyramidCert(S) ==
    /\ cert = [Code |-> cert.Code, ValidatorBitVector |-> Vector(S), Header |-> [View |-> View],
               BlockHeaderHash |-> cert.BlockHeaderHash,
               AggregatedSignatures |-> {<<i, PrecommitSignBytes(cert.Code, View, cert.BlockHeaderHash)>> : i \in S}]
    /\ S \subseteq Agreeing(votes, [ok |-> cert.Code, hash |-> cert.BlockHeaderHash])
    /\ 3 * Power(S) > 2 * VotesNeeded
CertInv == cert # Nil =>
    \E S \in SUBSET Validator : IF system = "urd" THEN UrdCert(S) ELSE PyramidCert(S)

VotingInv == VotesInv /\ MajInv /\ CertInv

(***************************************************************************)
(* Voting power.                                                           *)
(***************************************************************************)

\* Power is the sum of FiniteSums.
LEMMA PowerSum == \A S : Power(S) = SumOf(PerVote, S)
<1> SUFFICES ASSUME NEW S PROVE Power(S) = SumOf(PerVote, S)
  OBVIOUS
<1>1. Power(S) = (CHOOSE g : g = [s \in SUBSET S |-> IF s = {} THEN 0
                     ELSE PerVote[CHOOSE x \in s : TRUE] + g[s \ {CHOOSE x \in s : TRUE}]])[S]
  BY DEF Power, MapThenSumSet, MapThenFoldSet
<1> QED BY <1>1 DEF SumOf, SumTable, IsSum, SumStep, pick

\* More voters have more power.
LEMMA PowerGrows ==
    ASSUME NEW S \in SUBSET Validator, NEW U \in SUBSET S
    PROVE  IsFiniteSet(S) /\ Power(S) \in Nat /\ Power(U) \in Nat /\ Power(U) <= Power(S)
<1>1. IsFiniteSet(Validator)
  BY VotesAssumption, FS_Interval DEF Validator
<1>2. IsFiniteSet(S) /\ IsFiniteSet(U)
  BY <1>1, FS_Subset
<1>3. \A x \in S : PerVote[x] \in Nat
  BY VotesAssumption
<1>4. SumOf(PerVote, S) \in Nat /\ SumOf(PerVote, U) \in Nat
  BY <1>2, <1>3, SumNat
<1>5. SumOf(PerVote, U) <= SumOf(PerVote, S)
  BY <1>2, <1>3, SumMonotone
<1> QED BY <1>2, <1>4, <1>5, PowerSum

LEMMA NeededNat == VotesNeeded \in Nat
<1>1. VotesNeeded = Power(Validator)
  BY DEF VotesNeeded, Power
<1> QED BY <1>1, PowerGrows

\* More than the quotient of a third is more than a third.
LEMMA TwoThirds == ASSUME NEW p \in Nat, NEW v \in Nat, p > (2 * v) \div 3 PROVE 3 * p > 2 * v
OBVIOUS

(***************************************************************************)
(* The steps.                                                              *)
(***************************************************************************)

\* A vote that is taken is the first of its validator.
LEMMA AddVoteTakes ==
    ASSUME VotesInv, NEW i \in Validator, NEW signer, NEW vote \in Ballot, AddVote(i, signer, vote)
    PROVE  /\ votes[i] = Nil /\ votes' = [votes EXCEPT ![i] = vote] /\ (system = "urd" => vote.hash = blk)
           /\ maj' = maj \/ (maj' = vote /\ Power(Agreeing(votes', vote)) > (2 * VotesNeeded) \div 3)
           /\ UNCHANGED <<wire, cert>>
<1>1. CASE system = "urd"
  <2> DEFINE sig == Sign(signer, VoteSignBytes(vote.ok, View, vote.hash, vote.data))
  <2>1. votes' = addVote(votes, i, vote, sig, View, blk) /\ votes' # votes
        /\ maj' = maj /\ UNCHANGED <<wire, cert>>
    BY <1>1 DEF AddVote
  <2> HIDE DEF sig
  <2> QED BY <2>1 DEF addVote
<1>2. CASE system # "urd"
  <2> DEFINE sig == Sign(signer, PrecommitSignBytes(vote.ok, View, vote.hash))
  <2>1. votes' = AddPrecommit(votes, i, vote, sig, View) /\ votes' # votes
        /\ maj' = Maj23(votes', maj, vote) /\ UNCHANGED <<wire, cert>>
    BY <1>2 DEF AddVote
  <2> HIDE DEF sig
  <2>2. votes[i] = Nil /\ votes' = [votes EXCEPT ![i] = vote]
    BY <2>1 DEF AddPrecommit
  <2>3. maj' = maj \/ (maj' = vote /\ Power(Agreeing(votes', vote)) > (2 * VotesNeeded) \div 3)
    BY <2>1 DEF Maj23
  <2> QED BY <1>2, <2>1, <2>2, <2>3
<1> QED BY <1>1, <1>2

\* Who agreed still does.
LEMMA AgreeingGrows ==
    ASSUME VotesInv, NEW i \in Validator, NEW vote, votes[i] = Nil, votes' = [votes EXCEPT ![i] = vote], NEW v
    PROVE  Agreeing(votes, v) \subseteq Agreeing(votes', v) /\ Agreeing(votes', v) \in SUBSET Validator
BY DEF VotesInv, Agreeing, Voted

\* So does who was named.
LEMMA UrdCertStays ==
    ASSUME VotesInv, NEW i \in Validator, NEW vote, votes[i] = Nil, votes' = [votes EXCEPT ![i] = vote],
           NEW S, UrdCert(S), cert' = cert, View' = View, blk' = blk
    PROVE  UrdCert(S)'
<1>1. ASSUME NEW j \in Voted(votes) PROVE j \in Voted(votes') /\ votes'[j] = votes[j]
  BY <1>1 DEF VotesInv, Voted
<1>2. PICK V \in SUBSET Voted(votes) :
         /\ S = {j \in V : votes[j].ok = cert.Code}
         /\ cert.Sign = {<<j, UrdBytes(j)>> : j \in V}
         /\ \E k \in V : cert.ForNecessaryData = votes[k].data /\ \A j \in V : j <= k
  BY DEF UrdCert
<1>3. ASSUME NEW j \in V PROVE j \in Voted(votes') /\ votes'[j] = votes[j] /\ UrdBytes(j)' = UrdBytes(j)
  <2>1. j \in Voted(votes') /\ votes'[j] = votes[j]
    BY <1>1, <1>2
  <2> QED BY <2>1 DEF UrdBytes
<1>4. /\ V \in SUBSET Voted(votes')
      /\ S = {j \in V : votes'[j].ok = cert.Code}
      /\ \E k \in V : cert.ForNecessaryData = votes'[k].data /\ \A j \in V : j <= k
  BY <1>2, <1>3
<1>5. cert.Sign = {<<j, UrdBytes(j)'>> : j \in V}
  BY <1>2, <1>3
<1>6. \E W \in SUBSET Voted(votes') :
         /\ S = {j \in W : votes'[j].ok = cert'.Code}
         /\ cert'.Sign = {<<j, UrdBytes(j)'>> : j \in W}
         /\ \E k \in W : cert'.ForNecessaryData = votes'[k].data /\ \A j \in W : j <= k
  BY <1>4, <1>5
<1>7. /\ cert' = [Code |-> cert'.Code, View |-> View, Round |-> Round, ForHash |-> blk,
                  ForNecessaryData |-> cert'.ForNecessaryData, Sign |-> cert'.Sign, SignerIndexer |-> Vector(S)]
      /\ Power(S) >= (2 * VotesNeeded) \div 3 /\ S # {}
  BY DEF UrdCert
<1> QED BY <1>6, <1>7 DEF UrdCert

LEMMA AddVoteStep ==
    ASSUME VotingInv, NEW i \in Validator, NEW signer \in Validator, NEW vote \in Ballot, AddVote(i, signer, vote)
    PROVE  VotingInv'
<1>1. VotesInv /\ MajInv /\ CertInv
  BY DEF VotingInv
<1>2. /\ votes[i] = Nil /\ votes' = [votes EXCEPT ![i] = vote] /\ (system = "urd" => vote.hash = blk)
      /\ maj' = maj \/ (maj' = vote /\ Power(Agreeing(votes', vote)) > (2 * VotesNeeded) \div 3)
      /\ wire' = wire /\ cert' = cert
  BY <1>1, AddVoteTakes
<1>3. system' = system /\ blk' = blk /\ View' = View /\ Ballot' = Ballot
  BY <1>2 DEF system, blk, View, PartSet, Ballot
<1>4. \A v : Agreeing(votes, v) \subseteq Agreeing(votes', v) /\ Agreeing(votes', v) \in SUBSET Validator
  BY <1>1, <1>2, AgreeingGrows
<1>5. VotesInv'
  <2>1. votes' \in [Validator -> Ballot \cup {Nil}]
    BY <1>1, <1>2 DEF VotesInv
  <2>2. ASSUME system = "urd", NEW j \in Voted(votes') PROVE votes'[j].hash = blk
    <3>1. CASE j = i
      BY <1>1, <1>2, <2>2, <3>1 DEF VotesInv
    <3>2. CASE j # i
      BY <1>1, <1>2, <2>2, <3>2 DEF VotesInv, Voted
    <3> QED BY <3>1, <3>2
  <2> QED BY <1>3, <2>1, <2>2 DEF VotesInv
<1>6. MajInv'
  <2> SUFFICES ASSUME maj' # Nil
               PROVE  maj' \in Ballot /\ 3 * Power(Agreeing(votes', maj')) > 2 * VotesNeeded
    BY <1>3 DEF MajInv
  <2>1. CASE maj' = maj
    <3> DEFINE p == Power(Agreeing(votes, maj))
               q == Power(Agreeing(votes', maj))
    <3>1. p \in Nat /\ q \in Nat /\ p <= q
      BY <1>4, PowerGrows
    <3>2. maj \in Ballot /\ 3 * p > 2 * VotesNeeded
      BY <1>1, <2>1 DEF MajInv
    <3> HIDE DEF p, q
    <3>3. 3 * q > 2 * VotesNeeded
      BY <3>1, <3>2, NeededNat
    <3> QED BY <2>1, <3>2, <3>3 DEF q
  <2>2. CASE maj' = vote /\ Power(Agreeing(votes', vote)) > (2 * VotesNeeded) \div 3
    <3>1. Power(Agreeing(votes', vote)) \in Nat
      BY <1>4, PowerGrows
    <3>2. 3 * Power(Agreeing(votes', vote)) > 2 * VotesNeeded
      BY <2>2, <3>1, NeededNat, TwoThirds
    <3> QED BY <2>2, <3>2
  <2> QED BY <1>2, <2>1, <2>2
<1>7. CertInv'
  <2> SUFFICES ASSUME cert # Nil
               PROVE  \E S \in SUBSET Validator : (IF system = "urd" THEN UrdCert(S) ELSE PyramidCert(S))'
    BY <1>2 DEF CertInv
  <2>1. PICK S \in SUBSET Validator : IF system = "urd" THEN UrdCert(S) ELSE PyramidCert(S)
    BY <1>1 DEF CertInv
  <2>2. UrdCert(S) => UrdCert(S)'
    BY <1>1, <1>2, <1>3, UrdCertStays
  <2>3. PyramidCert(S) => PyramidCert(S)'
    BY <1>2, <1>3, <1>4 DEF PyramidCert
  <2>4. (IF system = "urd" THEN UrdCert(S) ELSE PyramidCert(S))'
    BY <1>3, <2>1, <2>2, <2>3
  <2> QED BY <2>4
<1> QED BY <1>5, <1>6, <1>7 DEF VotingInv

\* Some validator is the last of those who voted.
LEMMA LastOf ==
    ASSUME NEW V \in SUBSET Validator, V # {}
    PROVE  Max(V) \in V /\ \A j \in V : j <= Max(V)
<1>1. V \subseteq Int /\ IsFiniteSet(V)
  <2>1. Validator \subseteq Int /\ IsFiniteSet(Validator)
    BY VotesAssumption, FS_Interval DEF Validator
  <2> QED BY <2>1, FS_Subset
<1>2. Max(V) \in V /\ \A j \in V : Max(V) >= j
  BY <1>1, MaxIn DEF Positions
<1> QED BY <1>1, <1>2

\* getMaj23 names the voters whose code has the power.
LEMMA UrdCertMade ==
    ASSUME VotesInv, system = "urd", ~isQuorum([i \in Validator |-> Nil]), isQuorum(votes),
           cert' = getMaj23(votes, View, blk), UNCHANGED <<wire, votes>>
    PROVE  \E S \in SUBSET Validator : UrdCert(S)'
<1> DEFINE Y == {i \in Voted(votes) : votes[i].ok = TRUE}
           d == (2 * VotesNeeded) \div 3
           ok == Power(Y) >= d
           V == Voted(votes)
           S == {i \in V : votes[i].ok = ok}
           last == Max(V)
           sig == AggregateSignatures({Sign(i, VoteSignBytes(votes[i].ok, View, votes[i].hash, votes[i].data)) : i \in V})
<1>1. cert' = [Code |-> ok, View |-> View, Round |-> Round, ForHash |-> blk, ForNecessaryData |-> votes[last].data,
               Sign |-> sig, SignerIndexer |-> BitVectorOf(S)]
  BY DEF getMaj23, VotesTotal
<1>2. blk' = blk /\ View' = View
  BY DEF blk, system, View, PartSet
<1>3. S \in SUBSET Validator /\ Y \in SUBSET Validator /\ V \in SUBSET Validator
  BY DEF Voted
<1>9. Power(Y) \in Nat /\ d \in Int
  <2>1. d \in Int
    BY NeededNat
  <2> HIDE DEF Y
  <2> QED BY <1>3, <2>1, PowerGrows
<1>4. Power(S) >= d
  <2>1. Power(Y) >= d \/ Power({i \in Voted(votes) : votes[i].ok = FALSE}) >= d
    BY DEF isQuorum, VotesTotal
  <2>2. CASE Power(Y) >= d
    <3>1. ok = TRUE
      <4> HIDE DEF Y, d
      <4> QED BY <1>9, <2>2
    <3> QED BY <2>2, <3>1
  <2>3. CASE ~(Power(Y) >= d)
    <3>1. ok = FALSE
      <4> HIDE DEF Y, d
      <4> QED BY <1>9, <2>3
    <3>2. S = {i \in Voted(votes) : votes[i].ok = FALSE}
      BY <3>1
    <3> QED BY <2>1, <2>3, <3>2
  <2> QED BY <2>2, <2>3
<1>12. S # {}
  <2> DEFINE none == [i \in Validator |-> Nil]
  <2>1. VotesTotal(none, TRUE) = Power({})
    <3>1. {i \in Voted(none) : none[i].ok = TRUE} = {}
      BY DEF Voted
    <3> QED BY <3>1 DEF VotesTotal
  <2>2. ~(Power({}) >= d)
    BY <2>1 DEF isQuorum
  <2> HIDE DEF S, d, none
  <2> QED BY <1>4, <2>2
<1>5. sig = {<<i, UrdBytes(i)>> : i \in V}
  <2>1. ASSUME NEW i \in V
        PROVE  Sign(i, VoteSignBytes(votes[i].ok, View, votes[i].hash, votes[i].data)) = {<<i, UrdBytes(i)>>}
    <3>1. votes[i].hash = blk
      BY <2>1 DEF VotesInv
    <3> QED BY <3>1 DEF Sign, UrdBytes
  <2> HIDE DEF V
  <2> QED BY <2>1 DEF AggregateSignatures
<1>6. BitVectorOf(S) = Vector(S)
  <2> HIDE DEF S
  <2>1. IsFiniteSet(S)
    BY <1>3, PowerGrows
  <2> QED BY <1>3, <2>1, BitVectorOfIs
<1>7. last \in V /\ \A j \in V : j <= last
  <2>1. V # {}
    <3> SUFFICES ASSUME V = {} PROVE FALSE
      OBVIOUS
    <3>1. votes = [i \in Validator |-> Nil]
      BY DEF VotesInv, Voted
    <3> QED BY <3>1
  <2> HIDE DEF V
  <2> QED BY <1>3, <2>1, LastOf
<1>10. PICK U \in SUBSET Validator : U = S
  BY <1>3
<1>11. U = {i \in V : votes[i].ok = ok}
  BY <1>10
<1> HIDE DEF S, ok, sig, V, last
<1>8. UrdCert(U)'
  <2>1. cert'.Code = ok /\ cert'.Sign = sig /\ cert'.ForNecessaryData = votes[last].data
    BY <1>1
  <2>2. cert' = [Code |-> cert'.Code, View |-> View, Round |-> Round, ForHash |-> blk,
                 ForNecessaryData |-> cert'.ForNecessaryData, Sign |-> cert'.Sign, SignerIndexer |-> Vector(U)]
    BY <1>1, <1>6, <1>10, <2>1
  <2>3. \A i : UrdBytes(i)' = UrdBytes(i)
    BY <1>2 DEF UrdBytes
  <2>4. /\ V \in SUBSET Voted(votes')
        /\ U = {i \in V : votes'[i].ok = cert'.Code}
        /\ cert'.Sign = {<<i, UrdBytes(i)'>> : i \in V}
        /\ \E i \in V : cert'.ForNecessaryData = votes'[i].data /\ \A j \in V : j <= i
    <3>1. V \in SUBSET Voted(votes')
      BY DEF V
    <3>2. U = {i \in V : votes'[i].ok = cert'.Code}
      BY <1>11, <2>1
    <3>3. cert'.Sign = {<<i, UrdBytes(i)'>> : i \in V}
      BY <1>5, <2>1, <2>3
    <3> QED BY <1>7, <2>1, <3>1, <3>2, <3>3
  <2> QED BY <1>2, <1>4, <1>10, <1>12, <2>2, <2>4 DEF UrdCert
<1> QED BY <1>8

\* The precommits that are aggregated are those for the majority.
LEMMA PyramidCertMade ==
    ASSUME VotesInv, MajInv, system # "urd", maj # Nil, cert' = PrecommitAggregated(votes, maj, [View |-> View]),
           UNCHANGED <<wire, votes>>
    PROVE  \E S \in SUBSET Validator : PyramidCert(S)'
<1> DEFINE S == Agreeing(votes, maj)
           bytes(i) == PrecommitSignBytes(votes[i].ok, View, votes[i].hash)
           sig == AggregateSignatures({Sign(i, bytes(i)) : i \in S})
           msg == PrecommitSignBytes(maj.ok, View, maj.hash)
<1>1. S \in SUBSET Validator /\ \A i \in S : votes[i] = maj
  BY DEF Agreeing, Voted
<1>2. BitVectorOf(S) = Vector(S)
  <2> HIDE DEF S
  <2>1. IsFiniteSet(S)
    BY <1>1, PowerGrows
  <2> QED BY <1>1, <2>1, BitVectorOfIs
<1>3. cert' = [Code |-> maj.ok, ValidatorBitVector |-> NewBitArrayFromByte(Byte(BitVectorOf(S))), Header |-> [View |-> View],
               BlockHeaderHash |-> maj.hash, AggregatedSignatures |-> sig]
  BY DEF PrecommitAggregated, GetMaj23AggreSig
<1>4. sig = {<<i, msg>> : i \in S}
  <2>1. \A i \in S : Sign(i, bytes(i)) = {<<i, msg>>}
    BY <1>1 DEF Sign
  <2> HIDE DEF S, bytes, msg
  <2> QED BY <2>1 DEF AggregateSignatures
<1>5. maj = [ok |-> maj.ok, hash |-> maj.hash] /\ 3 * Power(S) > 2 * VotesNeeded
  BY DEF MajInv, Ballot
<1>6. View' = View
  BY DEF View, PartSet, system, blk
<1> HIDE DEF sig
<1>7. cert' = [Code |-> maj.ok, ValidatorBitVector |-> Vector(S), Header |-> [View |-> View],
               BlockHeaderHash |-> maj.hash, AggregatedSignatures |-> {<<i, msg>> : i \in S}]
  BY <1>2, <1>3, <1>4, ByteRoundTrip
<1>8. cert'.Code = maj.ok /\ cert'.BlockHeaderHash = maj.hash
  BY <1>7
<1>10. PICK U \in SUBSET Validator : U = S
  BY <1>1
<1>9. PyramidCert(U)'
  <2>1. U \subseteq Agreeing(votes', [ok |-> cert'.Code, hash |-> cert'.BlockHeaderHash])
    BY <1>5, <1>8, <1>10
  <2>2. cert' = [Code |-> cert'.Code, ValidatorBitVector |-> Vector(U), Header |-> [View |-> View],
                 BlockHeaderHash |-> cert'.BlockHeaderHash,
                 AggregatedSignatures |-> {<<i, PrecommitSignBytes(cert'.Code, View, cert'.BlockHeaderHash)>> : i \in U}]
    BY <1>7, <1>8, <1>10
  <2>3. 3 * Power(U) > 2 * VotesNeeded
    BY <1>5, <1>10
  <2> QED BY <1>6, <2>1, <2>2, <2>3 DEF PyramidCert
<1> QED BY <1>9

LEMMA MakeCertificateStep ==
    ASSUME VotingInv, MakeCertificate
    PROVE  VotingInv'
<1>1. VotesInv /\ MajInv
  BY DEF VotingInv
<1>2. wire' = wire /\ votes' = votes /\ maj' = maj
  BY DEF MakeCertificate
<1>3. system' = system /\ blk' = blk /\ Ballot' = Ballot
  BY <1>2 DEF system, blk, Ballot
<1>4. VotesInv' /\ MajInv'
  BY <1>1, <1>2, <1>3 DEF VotesInv, MajInv
<1>5. CertInv'
  <2>1. CASE system = "urd"
    <3>1. \E S \in SUBSET Validator : UrdCert(S)'
      BY <1>1, <1>2, <2>1, UrdCertMade DEF MakeCertificate
    <3> QED BY <1>3, <2>1, <3>1 DEF CertInv
  <2>2. CASE system # "urd"
    <3>1. \E S \in SUBSET Validator : PyramidCert(S)'
      BY <1>1, <1>2, <2>2, PyramidCertMade DEF MakeCertificate
    <3> QED BY <1>3, <2>2, <3>1 DEF CertInv
  <2> QED BY <2>1, <2>2
<1> QED BY <1>4, <1>5 DEF VotingInv

\* Every other step leaves votes and certificate alone.
LEMMA OtherStep ==
    ASSUME VotingInv, UNCHANGED <<wire, votes, maj, cert>>
    PROVE  VotingInv'
<1>1. system' = system /\ blk' = blk /\ View' = View /\ Ballot' = Ballot
  BY DEF system, blk, View, PartSet, Ballot
<1>2. VotesInv' /\ MajInv'
  BY <1>1 DEF VotingInv, VotesInv, MajInv
<1>3. \A S : (UrdCert(S)' <=> UrdCert(S)) /\ (PyramidCert(S)' <=> PyramidCert(S))
  BY <1>1 DEF UrdCert, UrdBytes, PyramidCert
<1>4. CertInv'
  BY <1>1, <1>3 DEF VotingInv, CertInv
<1> QED BY <1>2, <1>4 DEF VotingInv

LEMMA StepKeepsVoting == VotingInv /\ [Next]_vars => VotingInv'
<1> SUFFICES ASSUME VotingInv, [Next]_vars PROVE VotingInv'
  OBVIOUS
<1>1. ASSUME NEW signer \in Validator, ReceiveProposal(signer) PROVE VotingInv'
  BY <1>1, OtherStep DEF ReceiveProposal
<1>2. ASSUME NEW id \in PartIds, ReceivePart(id) PROVE VotingInv'
  BY <1>2, OtherStep DEF ReceivePart
<1>3. ASSUME NEW i \in Validator, NEW signer \in Validator, NEW vote \in Ballot, AddVote(i, signer, vote) PROVE VotingInv'
  BY <1>3, AddVoteStep
<1>4. ASSUME MakeCertificate PROVE VotingInv'
  BY <1>4, MakeCertificateStep
<1>5. ASSUME NEW a \in wire.messages, ReceiveCSM(a) PROVE VotingInv'
  BY <1>5, OtherStep DEF ReceiveCSM
<1>6. ASSUME UNCHANGED vars PROVE VotingInv'
  BY <1>6, OtherStep DEF vars
<1> QED BY <1>1, <1>2, <1>3, <1>4, <1>5, <1>6 DEF Next

\* No one has voted in the first state.
LEMMA InitVoting == Init => VotingInv
<1> SUFFICES ASSUME Init PROVE VotingInv
  OBVIOUS
<1>1. votes = [i \in Validator |-> Nil] /\ maj = Nil /\ cert = Nil
  BY DEF Init
<1>2. VotesInv
  BY <1>1 DEF VotesInv, Voted
<1> QED BY <1>1, <1>2 DEF VotingInv, MajInv, CertInv
\* A certificate of Urd over the wire.
LEMMA UrdCertSound ==
    ASSUME VotesInv, cert # Nil, system = "urd", NEW S \in SUBSET Validator, UrdCert(S)
    PROVE  CertificateSound
<1> DEFINE c == NewAggVoteFromProto(AggVoteToProto(cert))
           data == cert.ForNecessaryData
           msg == VoteSignBytes(cert.Code, View, blk, data)
<1>2. AggVoteToProto(cert) = [Code |-> cert.Code, View |-> View, Round |-> Round, ForHash |-> blk,
          ForNecessaryData |-> data, Sign |-> cert.Sign, SignerIndexer |-> Byte(Vector(S))]
  <2> DEFINE r == [Code |-> cert.Code, View |-> View, Round |-> Round, ForHash |-> blk,
          ForNecessaryData |-> data, Sign |-> cert.Sign, SignerIndexer |-> Vector(S)]
  <2>1. cert = r
    BY DEF UrdCert
  <2> HIDE DEF data
  <2>2. AggVoteToProto(r) = [r EXCEPT !.SignerIndexer = Byte(Vector(S))]
    BY DEF AggVoteToProto
  <2>3. [r EXCEPT !.SignerIndexer = Byte(Vector(S))] = [Code |-> cert.Code, View |-> View, Round |-> Round, ForHash |-> blk,
          ForNecessaryData |-> data, Sign |-> cert.Sign, SignerIndexer |-> Byte(Vector(S))]
    OBVIOUS
  <2> HIDE DEF r
  <2>4. AggVoteToProto(cert) = AggVoteToProto(r)
    BY <2>1
  <2> QED BY <2>2, <2>3, <2>4
<1>3. c = [Code |-> cert.Code, View |-> View, Round |-> Round, ForHash |-> blk,
          ForNecessaryData |-> data, Sign |-> cert.Sign, SignerIndexer |-> NewBitArrayFromByte(Byte(Vector(S)))]
  BY <1>2 DEF NewAggVoteFromProto
<1>4. c.SignerIndexer = Vector(S) /\ c.Code = cert.Code /\ c.ForHash = blk /\ c.Sign = cert.Sign /\ c.ForNecessaryData = data
  BY <1>3, ByteRoundTrip
<1>5. Members(Vector(S)) = S /\ NewBitArrayFromByte(Byte(Vector(S))) = Vector(S) /\ Vector(S).Bits = N
  BY MembersVector, ByteRoundTrip DEF Vector
<1>6. PICK V \in SUBSET Voted(votes) :
         /\ S = {i \in V : votes[i].ok = cert.Code}
         /\ cert.Sign = {<<i, UrdBytes(i)>> : i \in V}
         /\ \E i \in V : data = votes[i].data /\ \A j \in V : j <= i
  BY DEF UrdCert
<1>7. Power(S) >= (2 * VotesNeeded) \div 3 /\ S # {}
  BY DEF UrdCert
<1> HIDE DEF c, data
<1>8. ASSUME NEW i \in S
      PROVE  /\ i \in Voted(votes) /\ votes[i].ok = cert.Code /\ votes[i].hash = blk
             /\ Sign(i, VoteSignBytes(cert.Code, View, blk, votes[i].data)) \subseteq cert.Sign
  <2>1. i \in V /\ i \in Voted(votes) /\ votes[i].ok = cert.Code /\ votes[i].hash = blk
    BY <1>6 DEF VotesInv
  <2>2. <<i, UrdBytes(i)>> \in cert.Sign
    BY <1>6, <2>1
  <2>3. UrdBytes(i) = VoteSignBytes(cert.Code, View, blk, votes[i].data)
    BY <2>1 DEF UrdBytes
  <2> QED BY <2>1, <2>2, <2>3 DEF Sign
<1>9. ASSUME \A i, j \in Voted(votes) : votes[i] = votes[j]
      PROVE  VerifyAggregateSignature(cert.Sign, msg, Byte(Vector(S)))
  <2>1. PICK k \in V : data = votes[k].data
    BY <1>6
  <2>2. \A i \in V : votes[i] = votes[k]
    BY <1>6, <1>9, <2>1
  <2>3. S = V
    BY <1>6, <1>7, <2>2
  <2>4. ASSUME NEW i \in S PROVE UrdBytes(i) = msg
    <3>1. votes[i].ok = cert.Code /\ votes[i].data = data
      BY <1>6, <2>1, <2>2, <2>3
    <3> QED BY <3>1 DEF UrdBytes
  <2> HIDE DEF msg
  <2>5. cert.Sign = {<<i, msg>> : i \in S}
    BY <1>6, <2>3, <2>4
  <2> QED BY <1>5, <2>5 DEF VerifyAggregateSignature
<1>10. \E i \in Voted(votes) : data = votes[i].data
  BY <1>6
<1>11. UrdSound(c)
  BY <1>4, <1>5, <1>7, <1>8, <1>9, <1>10 DEF UrdSound
<1> QED BY <1>11 DEF CertificateSound, c

\* A certificate of Pyramid over the wire.
LEMMA PyramidCertSound ==
    ASSUME cert # Nil, system # "urd", NEW S \in SUBSET Validator, PyramidCert(S)
    PROVE  CertificateSound
<1> DEFINE c == NewPrecommitAggregatedFromProto(PrecommitAggregatedToProto(cert))
           hash == cert.BlockHeaderHash
           said == [ok |-> cert.Code, hash |-> hash]
           sig == {<<i, PrecommitSignBytes(cert.Code, View, hash)>> : i \in S}
           r == [Code |-> cert.Code, ValidatorBitVector |-> Vector(S), Header |-> [View |-> View],
                 BlockHeaderHash |-> hash, AggregatedSignatures |-> sig]
<1>1. cert = r
  BY DEF PyramidCert
<1>2. PrecommitAggregatedToProto(r) = [Code |-> cert.Code, ValidatorBitVector |-> Byte(Vector(S)), Header |-> [View |-> View],
                 BlockHeaderHash |-> hash, AggregatedSignatures |-> sig]
  <2>1. PrecommitAggregatedToProto(r) = [r EXCEPT !.ValidatorBitVector = Byte(@)]
    <3> HIDE DEF r
    <3> QED BY DEF PrecommitAggregatedToProto
  <2> HIDE DEF hash, sig
  <2>2. [r EXCEPT !.ValidatorBitVector = Byte(@)]
        = [Code |-> cert.Code, ValidatorBitVector |-> Byte(Vector(S)), Header |-> [View |-> View],
           BlockHeaderHash |-> hash, AggregatedSignatures |-> sig]
    OBVIOUS
  <2> QED BY <2>1, <2>2
<1>3. NewPrecommitAggregatedFromProto(PrecommitAggregatedToProto(r))
        = [Code |-> cert.Code, ValidatorBitVector |-> NewBitArrayFromByte(Byte(Vector(S))), Header |-> [View |-> View],
           BlockHeaderHash |-> hash, AggregatedSignatures |-> sig]
  BY <1>2 DEF NewPrecommitAggregatedFromProto
<1>4. c = [Code |-> cert.Code, ValidatorBitVector |-> Vector(S), Header |-> [View |-> View],
           BlockHeaderHash |-> hash, AggregatedSignatures |-> sig]
  <2>1. c = NewPrecommitAggregatedFromProto(PrecommitAggregatedToProto(r))
    <3> HIDE DEF r
    <3> QED BY <1>1
  <2> HIDE DEF c, r, hash, sig
  <2> QED BY <1>3, <2>1, ByteRoundTrip
<1>5. S \subseteq Agreeing(votes, said) /\ 3 * Power(S) > 2 * VotesNeeded
  BY DEF PyramidCert
<1>7. Members(Vector(S)) = S
  BY MembersVector
<1> HIDE DEF c, hash, sig
<1>8. c.ValidatorBitVector = Vector(S) /\ c.Code = cert.Code /\ c.BlockHeaderHash = hash
      /\ c.AggregatedSignatures = sig /\ c.Header.View = View
  BY <1>4
<1>9. VerifySignatures(c)
  <2>1. NewBitArrayFromByte(Byte(Vector(S))) = Vector(S) /\ Vector(S).Bits = N
    BY ByteRoundTrip DEF Vector
  <2>2. sig = {<<i, PrecommitSignBytes(cert.Code, View, hash)>> : i \in Members(Vector(S))}
    BY <1>7 DEF sig
  <2> QED BY <1>8, <2>1, <2>2 DEF VerifySignatures, VerifyAggregateSignature
<1>10. PyramidSound(c)
  BY <1>5, <1>7, <1>8, <1>9 DEF PyramidSound
<1> QED BY <1>10 DEF CertificateSound, c

\* The votes counted are votes for the block (Urd, whatever their data) or for what they say (Pyramid),
\* a majority has its power for good, and a certificate names voters whose code is its own: in Urd
\* exactly those of some who voted, whose signatures it has and whose last one gave it its data.
THEOREM VotingCorrect == Spec => []VotingInv
<1> QED BY InitVoting, StepKeepsVoting, PTL DEF Spec

\* A certificate that went through the bit vector's bytes (bit-vector.go Byte, NewBitArrayFromByte)
\* names validators who voted what it says of the block, with the power of a quorum; in Pyramid its
\* signature verifies against exactly them, and in Urd (getMaj23), where it has the signatures of all
\* votes and the last hash of one, it does so if all votes were the same.
THEOREM CertificateSoundCorrect == Spec => []CertificateSound
<1>1. VotingInv => CertificateSound
  <2> SUFFICES ASSUME VotingInv, cert # Nil PROVE CertificateSound
    BY DEF CertificateSound
  <2>1. PICK S \in SUBSET Validator : IF system = "urd" THEN UrdCert(S) ELSE PyramidCert(S)
    BY DEF VotingInv, CertInv
  <2>2. VotesInv
    BY DEF VotingInv
  <2> QED BY <2>1, <2>2, UrdCertSound, PyramidCertSound
<1> QED BY <1>1, VotingCorrect, PTL

(***************************************************************************)
(* Merkle trees.  The recursive tables exist, by induction on the length   *)
(* of a run or the number of aunts.                                        *)
(***************************************************************************)

\* The powers of two up to k.
PowerStep(g, e) == IF e = 0 THEN 1 ELSE 2 * g[e - 1]
IsPower(g, n) == g = [e \in 0 .. n |-> PowerStep(g, e)]

LEMMA PowerExists == ASSUME NEW n \in Nat PROVE \E g : IsPower(g, n)
<1> DEFINE G == {k \in 0 .. n : \E g : IsPower(g, k)}
<1>1. 0 \in G
  <2> DEFINE g == [e \in 0 .. 0 |-> 1]
  <2>1. \A e \in 0 .. 0 : PowerStep(g, e) = 1
    BY DEF PowerStep
  <2>2. g = [e \in 0 .. 0 |-> PowerStep(g, e)]
    BY <2>1, Zenon
  <2> QED BY <2>2 DEF IsPower
<1>2. ASSUME NEW k \in 1 .. n, k - 1 \in G PROVE k \in G
  <2>1. PICK g : IsPower(g, k - 1)
    BY <1>2
  <2>2. \A e \in 0 .. (k - 1) : g[e] = PowerStep(g, e)
    BY <2>1, Zenon DEF IsPower
  <2> DEFINE h == [e \in 0 .. k |-> IF e = k THEN 2 * g[k - 1] ELSE g[e]]
  <2>3. ASSUME NEW e \in 0 .. k PROVE h[e] = PowerStep(h, e)
    <3>1. CASE e = k
      <4>1. h[e] = 2 * g[k - 1] /\ k - 1 \in 0 .. k /\ k - 1 # k /\ e # 0
        BY <3>1
      <4>2. h[k - 1] = g[k - 1]
        BY <4>1
      <4> QED BY <3>1, <4>1, <4>2 DEF PowerStep
    <3>2. CASE e # k
      <4>1. e \in 0 .. (k - 1) /\ h[e] = g[e]
        BY <3>2
      <4>2. e # 0 => e - 1 \in 0 .. k /\ e - 1 # k
        BY <4>1
      <4>3. e # 0 => h[e - 1] = g[e - 1]
        BY <4>2
      <4> QED BY <2>2, <4>1, <4>3 DEF PowerStep
    <3> QED BY <3>1, <3>2
  <2>4. h = [e \in 0 .. k |-> h[e]]
    OBVIOUS
  <2> HIDE DEF h
  <2>5. h = [e \in 0 .. k |-> PowerStep(h, e)]
    BY <2>3, <2>4, Zenon
  <2> QED BY <2>5 DEF IsPower
<1> HIDE DEF G
<1>3. \A k \in 0 .. n : k \in G
  BY <1>1, <1>2, Induct
<1> QED BY <1>3 DEF G

\* Both halves of a run have an element.
LEMMA SplitPoint ==
    ASSUME NEW n \in Nat, n > 1
    PROVE  getSplitPoint(n) \in 1 .. (n - 1)
<1> DEFINE power == CHOOSE g : IsPower(g, n)
           S == {power[e] : e \in 0 .. n}
<1>1. getSplitPoint(n) = CHOOSE k \in S : k < n /\ n <= 2 * k
  BY DEF getSplitPoint, IsPower, PowerStep
<1>2. IsPower(power, n)
  BY PowerExists
<1> HIDE DEF power
<1>3. \A e \in 0 .. n : power[e] = PowerStep(power, e)
  BY <1>2, Zenon DEF IsPower
<1> DEFINE G == {e \in 0 .. n : power[e] \in Nat /\ power[e] > e}
<1>4. \A e \in 0 .. n : e \in G
  <2>1. 0 \in G
    BY <1>3 DEF PowerStep
  <2>2. ASSUME NEW e \in 1 .. n, e - 1 \in G PROVE e \in G
    BY <1>3, <2>2 DEF PowerStep
  <2> HIDE DEF G
  <2> QED BY <2>1, <2>2, Induct
<1>5. \E k \in S : k < n /\ n <= 2 * k
  <2> SUFFICES ASSUME \A k \in S : k < n => ~(n <= 2 * k) PROVE FALSE
    OBVIOUS
  <2> DEFINE B == {e \in 0 .. n : power[e] < n}
  <2>1. 0 \in B
    BY <1>3 DEF PowerStep
  <2>2. ASSUME NEW e \in 1 .. n, e - 1 \in B PROVE e \in B
    <3>1. e - 1 \in 0 .. n /\ power[e - 1] < n /\ power[e - 1] \in Nat
      BY <1>4, <2>2
    <3>2. ~(n <= 2 * power[e - 1])
      BY <3>1
    <3>3. power[e] = 2 * power[e - 1]
      BY <1>3 DEF PowerStep
    <3> QED BY <3>1, <3>2, <3>3
  <2> HIDE DEF B
  <2>3. \A e \in 0 .. n : e \in B
    BY <2>1, <2>2, Induct
  <2>4. power[n] < n /\ power[n] > n /\ power[n] \in Nat
    BY <1>4, <2>3 DEF B
  <2> QED BY <2>4
<1>6. PICK k \in S : k = getSplitPoint(n) /\ k < n /\ n <= 2 * k
  BY <1>1, <1>5
<1>7. k \in Nat
  BY <1>4
<1> QED BY <1>6, <1>7

\* The runs of a list of n items, and those of at most k items; where a run is cut.
Runs(n) == {p \in (1 .. n) \X (1 .. n) : p[1] <= p[2]}
Short(n, k) == {r \in Runs(n) : r[2] - r[1] < k}
Mid(r) == r[1] + getSplitPoint(r[2] - r[1] + 1) - 1

\* The halves of a run are shorter runs.
LEMMA Halves ==
    ASSUME NEW n \in Nat, NEW r \in Runs(n)
    PROVE  /\ r[1] \in 1 .. n /\ r[2] \in 1 .. n /\ r = <<r[1], r[2]>> /\ r[1] <= r[2]
           /\ r[1] # r[2] => /\ Mid(r) \in r[1] .. (r[2] - 1)
                             /\ Mid(r) - r[1] + 1 = getSplitPoint(r[2] - r[1] + 1)
                             /\ <<r[1], Mid(r)>> \in Short(n, r[2] - r[1])
                             /\ <<Mid(r) + 1, r[2]>> \in Short(n, r[2] - r[1])
<1>1. r[1] \in 1 .. n /\ r[2] \in 1 .. n /\ r = <<r[1], r[2]>> /\ r[1] <= r[2]
  BY DEF Runs
<1>2. ASSUME r[1] # r[2] PROVE /\ Mid(r) \in r[1] .. (r[2] - 1)
                               /\ Mid(r) - r[1] + 1 = getSplitPoint(r[2] - r[1] + 1)
  <2> DEFINE l == r[2] - r[1] + 1
  <2>1. l \in Nat /\ l > 1
    BY <1>1, <1>2
  <2> HIDE DEF l
  <2>2. getSplitPoint(l) \in 1 .. (l - 1)
    BY <2>1, SplitPoint
  <2> QED BY <1>1, <2>1, <2>2 DEF Mid, l
<1>3. ASSUME r[1] # r[2] PROVE /\ <<r[1], Mid(r)>> \in Short(n, r[2] - r[1])
                               /\ <<Mid(r) + 1, r[2]>> \in Short(n, r[2] - r[1])
  <2> DEFINE m == Mid(r)
  <2>1. m \in Int /\ r[1] <= m /\ m < r[2]
    BY <1>1, <1>2, <1>3
  <2> HIDE DEF m
  <2>2. m \in 1 .. n /\ m + 1 \in 1 .. n /\ m - r[1] < r[2] - r[1] /\ r[2] - (m + 1) < r[2] - r[1]
    BY <1>1, <2>1
  <2> QED BY <1>1, <2>1, <2>2 DEF Short, Runs, m
<1> QED BY <1>1, <1>2, <1>3

\* The ends of a run.
LEMMA RunEnds ==
    ASSUME NEW n \in Nat, NEW r \in Runs(n)
    PROVE  r[1] \in Int /\ r[2] \in Int /\ 1 <= r[1] /\ r[1] <= r[2] /\ r[2] <= n
<1>1. r[1] \in 1 .. n /\ r[2] \in 1 .. n /\ r[1] <= r[2]
  BY Halves
<1> QED BY <1>1

\* A run is a short one if it is.
LEMMA ShortIs ==
    ASSUME NEW n \in Nat, NEW k \in Int, NEW r
    PROVE  r \in Short(n, k) <=> r \in Runs(n) /\ r[2] - r[1] < k
BY DEF Short

\* A run shorter than a short one is among the shorter ones.
LEMMA ShorterRuns ==
    ASSUME NEW n \in Nat, NEW k \in 1 .. n, NEW r \in Short(n, k), NEW p \in Short(n, r[2] - r[1])
    PROVE  p \in Runs(n) /\ p \in Short(n, k - 1)
<1>1. r \in Runs(n) /\ r[2] - r[1] < k
  BY ShortIs
<1>2. r[1] \in Int /\ r[2] \in Int
  BY <1>1, RunEnds
<1>3. p \in Runs(n) /\ p[2] - p[1] < r[2] - r[1]
  BY <1>2, ShortIs
<1>4. p[1] \in Int /\ p[2] \in Int
  BY <1>3, RunEnds
<1> QED BY <1>1, <1>2, <1>3, <1>4, ShortIs

\* No run is shorter than one item.
LEMMA NoShort ==
    ASSUME NEW n \in Nat, NEW r \in Short(n, 0)
    PROVE  FALSE
<1>1. r \in Runs(n) /\ r[2] - r[1] < 0
  BY ShortIs
<1>2. r[1] \in Int /\ r[2] \in Int /\ r[1] <= r[2]
  BY <1>1, RunEnds
<1> QED BY <1>1, <1>2

\* The equations of the tables of HashOfRun and of FlattenAunts: c tells which, for which items, and
\* for the aunts of which of them.
TreeStep(g, r, c) ==
    IF r[1] = r[2] THEN IF c.aunts THEN <<>> ELSE leafHash(c.items[r[1]])
    ELSE IF ~c.aunts THEN innerHash(g[<<r[1], Mid(r)>>], g[<<Mid(r) + 1, r[2]>>])
    ELSE IF c.i <= Mid(r) THEN Append(g[<<r[1], Mid(r)>>], c.hash[<<Mid(r) + 1, r[2]>>])
    ELSE Append(g[<<Mid(r) + 1, r[2]>>], c.hash[<<r[1], Mid(r)>>])

\* A step uses a table only at the halves of the run.
LEMMA TreeLocal ==
    ASSUME NEW n \in Nat, NEW r \in Runs(n), NEW c, NEW g, NEW h,
           \A q \in Short(n, r[2] - r[1]) : g[q] = h[q]
    PROVE  TreeStep(g, r, c) = TreeStep(h, r, c)
<1>1. CASE r[1] = r[2]
  BY <1>1 DEF TreeStep
<1>2. CASE r[1] # r[2]
  <2>1. <<r[1], Mid(r)>> \in Short(n, r[2] - r[1]) /\ <<Mid(r) + 1, r[2]>> \in Short(n, r[2] - r[1])
    BY <1>2, Halves
  <2>2. g[<<r[1], Mid(r)>>] = h[<<r[1], Mid(r)>>] /\ g[<<Mid(r) + 1, r[2]>>] = h[<<Mid(r) + 1, r[2]>>]
    BY <2>1
  <2> QED BY <1>2, <2>2 DEF TreeStep
<1> QED BY <1>1, <1>2

\* The tables exist.
LEMMA TreeTable ==
    ASSUME NEW n \in Nat, NEW c
    PROVE  \E g : g = [r \in Runs(n) |-> TreeStep(g, r, c)]
<1> DEFINE Is(g, k) == g = [r \in Short(n, k) |-> TreeStep(g, r, c)]
           G == {k \in 0 .. n : \E g : Is(g, k)}
<1>1. 0 \in G
  <2>1. Short(n, 0) = {}
    <3> SUFFICES ASSUME NEW r \in Short(n, 0) PROVE FALSE
      OBVIOUS
    <3> QED BY NoShort
  <2> DEFINE g == [r \in Short(n, 0) |-> 0]
  <2>2. Is(g, 0)
    BY <2>1
  <2> QED BY <2>2
<1>2. ASSUME NEW k \in 1 .. n, k - 1 \in G PROVE k \in G
  <2>1. PICK g : Is(g, k - 1)
    BY <1>2
  <2> DEFINE h == [r \in Short(n, k) |-> TreeStep(g, r, c)]
  <2>2. \A r \in Short(n, k - 1) : g[r] = TreeStep(g, r, c)
    <3> HIDE DEF h
    <3> QED BY <2>1, Zenon
  <2>3. ASSUME NEW r \in Short(n, k - 1) PROVE r \in Short(n, k)
    <3>1. r \in Runs(n) /\ r[2] - r[1] < k - 1
      BY ShortIs
    <3>2. r[1] \in Int /\ r[2] \in Int
      BY <3>1, RunEnds
    <3> QED BY <1>2, <3>1, <3>2, ShortIs
  <2>4. \A r \in Short(n, k - 1) : g[r] = h[r]
    BY <2>2, <2>3
  <2>5. ASSUME NEW r \in Short(n, k) PROVE TreeStep(g, r, c) = TreeStep(h, r, c)
    <3>1. r \in Runs(n) /\ r[2] - r[1] < k
      BY ShortIs
    <3>2. r[1] \in Int /\ r[2] \in Int
      BY <3>1, RunEnds
    <3>3. ASSUME NEW q \in Short(n, r[2] - r[1]) PROVE q \in Short(n, k - 1)
      <4>1. q \in Runs(n) /\ q[2] - q[1] < r[2] - r[1]
        BY <3>2, ShortIs
      <4>2. q[1] \in Int /\ q[2] \in Int
        BY <4>1, RunEnds
      <4> QED BY <1>2, <3>1, <3>2, <4>1, <4>2, ShortIs
    <3> HIDE DEF h
    <3> QED BY <2>4, <3>1, <3>3, TreeLocal
  <2>6. \A r \in Short(n, k) : h[r] = TreeStep(g, r, c)
    OBVIOUS
  <2>7. h = [r \in Short(n, k) |-> h[r]]
    OBVIOUS
  <2> HIDE DEF h
  <2>8. h = [r \in Short(n, k) |-> TreeStep(h, r, c)]
    BY <2>5, <2>6, <2>7, Zenon
  <2>9. Is(h, k)
    BY <2>8
  <2> HIDE DEF Is
  <2> QED BY <1>2, <2>9
<1>3. \A k \in 0 .. n : k \in G
  <2> HIDE DEF G
  <2> QED BY <1>1, <1>2, Induct
<1>4. Short(n, n) = Runs(n)
  <2>1. ASSUME NEW r \in Runs(n) PROVE r[2] - r[1] < n
    BY RunEnds
  <2> QED BY <2>1 DEF Short
<1>5. PICK g : Is(g, n)
  BY <1>3
<1> QED BY <1>4, <1>5

\* The hash of a run of items.
LEMMA HashTable ==
    ASSUME NEW items, Len(items) \in Nat
    PROVE  /\ DOMAIN HashOfRun(items) = Runs(Len(items))
           /\ \A r \in Runs(Len(items)) : HashOfRun(items)[r] =
                 IF r[1] = r[2] THEN leafHash(items[r[1]])
                 ELSE innerHash(HashOfRun(items)[<<r[1], Mid(r)>>], HashOfRun(items)[<<Mid(r) + 1, r[2]>>])
<1> DEFINE n == Len(items)
           c == [aunts |-> FALSE, items |-> items]
           step(g, r) == IF r[1] = r[2] THEN leafHash(items[r[1]])
                         ELSE innerHash(g[<<r[1], Mid(r)>>], g[<<Mid(r) + 1, r[2]>>])
           A(g) == g = [r \in Runs(n) |-> step(g, r)]
           H == HashOfRun(items)
<1>1. H = CHOOSE g : A(g)
  BY DEF HashOfRun, Runs, Mid
<1>2. \A g : \A r \in Runs(n) : TreeStep(g, r, c) = step(g, r)
  BY DEF TreeStep
<1>3. PICK g : g = [r \in Runs(n) |-> TreeStep(g, r, c)]
  BY TreeTable
<1>4. A(g)
  <2> HIDE DEF step, c
  <2> QED BY <1>2, <1>3, Zenon
<1>5. A(H)
  <2> HIDE DEF A, H
  <2> QED BY <1>1, <1>4
<1> HIDE DEF H
<1>6. DOMAIN H = Runs(n) /\ \A r \in Runs(n) : H[r] = step(H, r)
  <2> HIDE DEF step
  <2> QED BY <1>5, Zenon
<1> QED BY <1>6 DEF H

\* The aunts of item i below every run, as ProofsFromByteSlices collects them.
AuntsOf(items, i) ==
    CHOOSE g : g = [r \in Runs(Len(items)) |->
                      TreeStep(g, r, [aunts |-> TRUE, items |-> items, hash |-> HashOfRun(items), i |-> i])]

LEMMA AuntTable ==
    ASSUME NEW items, Len(items) \in Nat, NEW i
    PROVE  /\ FlattenAunts(items, i) = AuntsOf(items, i)[<<1, Len(items)>>]
           /\ \A r \in Runs(Len(items)) : AuntsOf(items, i)[r] =
                 IF r[1] = r[2] THEN <<>>
                 ELSE IF i <= Mid(r)
                 THEN Append(AuntsOf(items, i)[<<r[1], Mid(r)>>], HashOfRun(items)[<<Mid(r) + 1, r[2]>>])
                 ELSE Append(AuntsOf(items, i)[<<Mid(r) + 1, r[2]>>], HashOfRun(items)[<<r[1], Mid(r)>>])
<1> DEFINE n == Len(items)
           H == HashOfRun(items)
           c == [aunts |-> TRUE, items |-> items, hash |-> H, i |-> i]
           A(g) == g = [r \in Runs(n) |-> TreeStep(g, r, c)]
           T == AuntsOf(items, i)
           own(g, r) == CASE r[1] = r[2] -> <<>>
                  [] r[1] < r[2] /\ i <= Mid(r) -> Append(g[<<r[1], Mid(r)>>], H[<<Mid(r) + 1, r[2]>>])
                  [] OTHER -> Append(g[<<Mid(r) + 1, r[2]>>], H[<<r[1], Mid(r)>>])
           O(g) == g = [r \in DOMAIN H |-> own(g, r)]
<1>1. FlattenAunts(items, i) = (CHOOSE g : O(g))[<<1, n>>]
  BY DEF FlattenAunts, Mid
<1>2. DOMAIN H = Runs(n) /\ n \in Nat
  BY HashTable
<1>3. ASSUME NEW g, NEW r \in Runs(n) PROVE TreeStep(g, r, c) = own(g, r)
  <2>1. r[1] = r[2] \/ (r[1] # r[2] /\ r[1] < r[2])
    BY <1>2, RunEnds
  <2>2. c.aunts /\ c.i = i /\ c.hash = H
    OBVIOUS
  <2> HIDE DEF c, H
  <2>3. CASE r[1] = r[2]
    <3>1. ~(r[1] < r[2])
      <4>1. r[1] \in Int /\ r[2] \in Int
        BY <1>2, RunEnds
      <4> QED BY <2>3, <4>1
    <3> QED BY <2>2, <2>3, <3>1 DEF TreeStep
  <2>4. CASE r[1] # r[2] /\ r[1] < r[2] /\ i <= Mid(r)
    BY <2>2, <2>4 DEF TreeStep
  <2>5. CASE r[1] # r[2] /\ r[1] < r[2] /\ ~(i <= Mid(r))
    BY <2>2, <2>5 DEF TreeStep
  <2> QED BY <2>1, <2>3, <2>4, <2>5
<1> HIDE DEF c, H, own
<1>4. \A g : A(g) <=> O(g)
  <2> SUFFICES ASSUME NEW g PROVE A(g) <=> O(g)
    OBVIOUS
  <2>1. [r \in Runs(n) |-> TreeStep(g, r, c)] = [r \in DOMAIN H |-> own(g, r)]
    BY <1>2, <1>3, Zenon
  <2> QED BY <2>1, Zenon
<1>5. (CHOOSE g : O(g)) = (CHOOSE g : A(g))
  <2> HIDE DEF A, O
  <2> QED BY <1>4, Zenon
<1>6. T = CHOOSE g : A(g)
  BY DEF AuntsOf, c, H
<1>7. \E g : A(g)
  BY <1>2, TreeTable
<1>8. A(T)
  <2> HIDE DEF A, T
  <2> QED BY <1>6, <1>7
<1> HIDE DEF T
<1>9. \A r \in Runs(n) : T[r] = TreeStep(T, r, c)
  BY <1>8, Zenon
<1>10. c.aunts /\ c.i = i /\ c.hash = H
  BY DEF c
<1> DEFINE step(r) == IF r[1] = r[2] THEN <<>>
                      ELSE IF i <= Mid(r) THEN Append(T[<<r[1], Mid(r)>>], H[<<Mid(r) + 1, r[2]>>])
                      ELSE Append(T[<<Mid(r) + 1, r[2]>>], H[<<r[1], Mid(r)>>])
<1>11. ASSUME NEW r \in Runs(n) PROVE TreeStep(T, r, c) = step(r)
  BY <1>10, Zenon DEF TreeStep
<1>12. FlattenAunts(items, i) = T[<<1, n>>]
  BY <1>1, <1>5, <1>6, Zenon
<1>13. \A r \in Runs(n) : T[r] = step(r)
  <2> HIDE DEF step
  <2> QED BY <1>9, <1>11, Zenon
<1> QED BY <1>12, <1>13 DEF T, H

\* The hashes of the runs.
Hashes(items) == {HashOfRun(items)[r] : r \in Runs(Len(items))}

\* The aunts are hashes of runs.
LEMMA AuntsSeq ==
    ASSUME NEW items, Len(items) \in Nat, NEW i
    PROVE  \A r \in Runs(Len(items)) : AuntsOf(items, i)[r] \in Seq(Hashes(items))
<1> DEFINE n == Len(items)
           T == AuntsOf(items, i)
           H == HashOfRun(items)
           S == Hashes(items)
           G == {k \in 0 .. n : \A r \in Short(n, k) : T[r] \in Seq(S)}
<1>0. n \in Nat
  OBVIOUS
<1>1. \A r \in Runs(n) : H[r] \in S
  BY DEF Hashes
<1>2. \A r \in Runs(n) : T[r] = IF r[1] = r[2] THEN <<>>
                                ELSE IF i <= Mid(r) THEN Append(T[<<r[1], Mid(r)>>], H[<<Mid(r) + 1, r[2]>>])
                                ELSE Append(T[<<Mid(r) + 1, r[2]>>], H[<<r[1], Mid(r)>>])
  BY AuntTable, Zenon
<1> HIDE DEF n, T, H, S
<1>3. 0 \in G
  <2> SUFFICES ASSUME NEW r \in Short(n, 0) PROVE FALSE
    BY <1>0
  <2> QED BY <1>0, NoShort
<1>4. ASSUME NEW k \in 1 .. n, k - 1 \in G PROVE k \in G
  <2> SUFFICES ASSUME NEW r \in Short(n, k) PROVE T[r] \in Seq(S)
    BY <1>0
  <2>1. r \in Runs(n) /\ r[2] - r[1] < k
    BY <1>0, ShortIs
  <2>2. r[1] \in Int /\ r[2] \in Int
    BY <1>0, <2>1, RunEnds
  <2>3. ASSUME NEW q \in Short(n, r[2] - r[1]) PROVE q \in Runs(n) /\ T[q] \in Seq(S)
    <3>1. q \in Runs(n) /\ q \in Short(n, k - 1)
      BY <1>0, ShorterRuns
    <3> QED BY <1>4, <3>1
  <2>4. CASE r[1] = r[2]
    <3>1. T[r] = <<>>
      BY <1>2, <2>1, <2>4
    <3> QED BY <3>1
  <2>5. CASE r[1] # r[2]
    <3> DEFINE lo == <<r[1], Mid(r)>>
               hi == <<Mid(r) + 1, r[2]>>
    <3>1. lo \in Short(n, r[2] - r[1]) /\ hi \in Short(n, r[2] - r[1])
      BY <1>0, <2>1, <2>5, Halves
    <3>2. T[r] = IF i <= Mid(r) THEN Append(T[lo], H[hi]) ELSE Append(T[hi], H[lo])
      BY <1>2, <2>1, <2>5
    <3> HIDE DEF lo, hi
    <3>3. T[lo] \in Seq(S) /\ T[hi] \in Seq(S) /\ H[lo] \in S /\ H[hi] \in S
      BY <1>1, <2>3, <3>1
    <3> QED BY <3>2, <3>3
  <2> QED BY <2>4, <2>5
<1>5. n \in G
  <2> HIDE DEF G
  <2>1. \A k \in 0 .. n : k \in G
    BY <1>0, <1>3, <1>4, Induct
  <2> QED BY <1>0, <2>1
<1>6. ASSUME NEW r \in Runs(n) PROVE T[r] \in Seq(S)
  <2>1. r[2] - r[1] < n
    BY <1>0, RunEnds
  <2>2. r \in Short(n, n)
    BY <1>0, <2>1, ShortIs
  <2> QED BY <1>5, <2>2
<1> QED BY <1>6 DEF n, T, S

\* The table of computeHashFromAunts: which places it has, and its equation.
Places(index, total, m) == (0 .. index) \X (1 .. total) \X (0 .. m)
RootStep(g, q, leaf, aunts) ==
    IF q[2] = 1 THEN IF q[3] = 0 THEN leaf ELSE <<>>
    ELSE IF q[3] = 0 THEN <<>>
    ELSE IF q[1] < getSplitPoint(q[2])
    THEN IF g[<<q[1], getSplitPoint(q[2]), q[3] - 1>>] = <<>> THEN <<>>
         ELSE innerHash(g[<<q[1], getSplitPoint(q[2]), q[3] - 1>>], aunts[q[3]])
    ELSE IF g[<<q[1] - getSplitPoint(q[2]), q[2] - getSplitPoint(q[2]), q[3] - 1>>] = <<>> THEN <<>>
         ELSE innerHash(aunts[q[3]], g[<<q[1] - getSplitPoint(q[2]), q[2] - getSplitPoint(q[2]), q[3] - 1>>])

\* A step looks one aunt further down.
LEMMA RootBelow ==
    ASSUME NEW index \in Nat, NEW total \in Nat, NEW m \in Nat, NEW q \in Places(index, total, m)
    PROVE  /\ q[1] \in 0 .. index /\ q[2] \in 1 .. total /\ q[3] \in 0 .. m /\ q = <<q[1], q[2], q[3]>>
           /\ q[2] # 1 /\ q[3] # 0 =>
                 /\ getSplitPoint(q[2]) \in 1 .. (q[2] - 1)
                 /\ q[1] < getSplitPoint(q[2])
                       => <<q[1], getSplitPoint(q[2]), q[3] - 1>> \in Places(index, total, q[3] - 1)
                 /\ ~(q[1] < getSplitPoint(q[2]))
                       => <<q[1] - getSplitPoint(q[2]), q[2] - getSplitPoint(q[2]), q[3] - 1>>
                             \in Places(index, total, q[3] - 1)
<1>1. q[1] \in 0 .. index /\ q[2] \in 1 .. total /\ q[3] \in 0 .. m /\ q = <<q[1], q[2], q[3]>>
  BY DEF Places
<1>2. ASSUME q[2] # 1, q[3] # 0 PROVE getSplitPoint(q[2]) \in 1 .. (q[2] - 1)
  <2> DEFINE t == q[2]
  <2>1. t \in Nat /\ t > 1
    BY <1>1, <1>2
  <2> HIDE DEF t
  <2>2. getSplitPoint(t) \in 1 .. (t - 1)
    BY <2>1, SplitPoint
  <2> QED BY <2>2 DEF t
<1>3. ASSUME q[2] # 1, q[3] # 0
      PROVE  /\ q[1] < getSplitPoint(q[2])
                   => <<q[1], getSplitPoint(q[2]), q[3] - 1>> \in Places(index, total, q[3] - 1)
             /\ ~(q[1] < getSplitPoint(q[2]))
                   => <<q[1] - getSplitPoint(q[2]), q[2] - getSplitPoint(q[2]), q[3] - 1>>
                         \in Places(index, total, q[3] - 1)
  <2> DEFINE k == getSplitPoint(q[2])
  <2>1. k \in 1 .. (q[2] - 1)
    BY <1>2, <1>3
  <2> HIDE DEF k
  <2>2. k \in 1 .. total /\ q[2] - k \in 1 .. total /\ q[3] - 1 \in 0 .. (q[3] - 1)
    BY <1>1, <1>3, <2>1
  <2>3. ~(q[1] < k) => q[1] - k \in 0 .. index
    BY <1>1, <2>1
  <2> QED BY <1>1, <2>2, <2>3 DEF Places, k
<1> QED BY <1>1, <1>2, <1>3

\* A step uses a table only where there are fewer aunts.
LEMMA RootLocal ==
    ASSUME NEW index \in Nat, NEW total \in Nat, NEW m \in Nat, NEW q \in Places(index, total, m),
           NEW leaf, NEW aunts, NEW g, NEW h,
           q[3] # 0 => \A p \in Places(index, total, q[3] - 1) : g[p] = h[p]
    PROVE  RootStep(g, q, leaf, aunts) = RootStep(h, q, leaf, aunts)
<1>1. CASE q[2] = 1 \/ q[3] = 0
  BY <1>1 DEF RootStep
<1>2. CASE q[2] # 1 /\ q[3] # 0
  <2> DEFINE k == getSplitPoint(q[2])
             a == <<q[1], k, q[3] - 1>>
             b == <<q[1] - k, q[2] - k, q[3] - 1>>
  <2>1. q[1] < k => a \in Places(index, total, q[3] - 1)
    BY <1>2, RootBelow
  <2>2. ~(q[1] < k) => b \in Places(index, total, q[3] - 1)
    BY <1>2, RootBelow
  <2> HIDE DEF a, b
  <2>3. (q[1] < k => g[a] = h[a]) /\ (~(q[1] < k) => g[b] = h[b])
    BY <1>2, <2>1, <2>2
  <2>4. ASSUME NEW t
        PROVE  RootStep(t, q, leaf, aunts) =
                 IF q[1] < k THEN IF t[a] = <<>> THEN <<>> ELSE innerHash(t[a], aunts[q[3]])
                 ELSE IF t[b] = <<>> THEN <<>> ELSE innerHash(aunts[q[3]], t[b])
    BY <1>2, Zenon DEF RootStep, a, b
  <2> HIDE DEF k
  <2> QED BY <2>3, <2>4
<1> QED BY <1>1, <1>2

\* The table exists.
AreRoots(g, index, total, n, leaf, aunts) == g = [q \in Places(index, total, n) |-> RootStep(g, q, leaf, aunts)]

LEMMA RootExists ==
    ASSUME NEW index \in Nat, NEW total \in Nat, NEW n \in Nat, NEW leaf, NEW aunts
    PROVE  \E g : AreRoots(g, index, total, n, leaf, aunts)
<1> DEFINE D(m) == Places(index, total, m)
           Is(g, m) == g = [q \in D(m) |-> RootStep(g, q, leaf, aunts)]
           G == {m \in 0 .. n : \E g : Is(g, m)}
<1>1. 0 \in G
  <2> DEFINE g == [q \in D(0) |-> RootStep(<<>>, q, leaf, aunts)]
  <2>1. ASSUME NEW q \in D(0), NEW h PROVE RootStep(<<>>, q, leaf, aunts) = RootStep(h, q, leaf, aunts)
    <3>1. q[3] \in 0 .. 0
      BY RootBelow
    <3>2. q[3] = 0
      BY <3>1
    <3> QED BY <3>2, RootLocal
  <2>2. g = [q \in D(0) |-> g[q]] /\ \A q \in D(0) : g[q] = RootStep(<<>>, q, leaf, aunts)
    OBVIOUS
  <2> HIDE DEF g, D
  <2>3. g = [q \in D(0) |-> RootStep(g, q, leaf, aunts)]
    BY <2>1, <2>2, Zenon
  <2>4. Is(g, 0)
    BY <2>3
  <2> HIDE DEF Is
  <2> QED BY <2>4
<1>2. ASSUME NEW m \in 1 .. n, m - 1 \in G PROVE m \in G
  <2>1. PICK g : Is(g, m - 1)
    BY <1>2
  <2> DEFINE h == [q \in D(m) |-> RootStep(g, q, leaf, aunts)]
  <2>2. \A q \in D(m - 1) : g[q] = RootStep(g, q, leaf, aunts)
    <3> HIDE DEF h, D
    <3> QED BY <2>1, Zenon
  <2>3. ASSUME NEW j \in 0 .. m, NEW q \in D(j) PROVE q \in D(m)
    BY <1>2 DEF Places
  <2>4. \A q \in D(m - 1) : g[q] = h[q]
    <3>1. m - 1 \in 0 .. m
      BY <1>2
    <3>2. \A q \in D(m - 1) : q \in D(m)
      BY <2>3, <3>1
    <3>3. \A q \in D(m) : h[q] = RootStep(g, q, leaf, aunts)
      OBVIOUS
    <3> HIDE DEF h, D
    <3> QED BY <2>2, <3>2, <3>3
  <2>5. ASSUME NEW q \in D(m) PROVE RootStep(g, q, leaf, aunts) = RootStep(h, q, leaf, aunts)
    <3>0. m \in Nat
      BY <1>2
    <3>1. q[3] \in 0 .. m
      BY <3>0, RootBelow
    <3>2. ASSUME q[3] # 0, NEW p \in D(q[3] - 1) PROVE g[p] = h[p]
      <4>1. p \in D(m - 1)
        BY <1>2, <3>1, <3>2 DEF Places
      <4> HIDE DEF h, D
      <4> QED BY <2>4, <4>1
    <3> HIDE DEF h
    <3> QED BY <3>0, <3>2, RootLocal
  <2>6. h = [q \in D(m) |-> h[q]] /\ \A q \in D(m) : h[q] = RootStep(g, q, leaf, aunts)
    OBVIOUS
  <2> HIDE DEF h, D
  <2>7. h = [q \in D(m) |-> RootStep(h, q, leaf, aunts)]
    BY <2>5, <2>6, Zenon
  <2>8. Is(h, m)
    BY <2>7
  <2> HIDE DEF Is
  <2> QED BY <1>2, <2>8
<1>3. \A m \in 0 .. n : m \in G
  <2> HIDE DEF G
  <2> QED BY <1>1, <1>2, Induct
<1>4. PICK g : Is(g, n)
  BY <1>3
<1> QED BY <1>4 DEF AreRoots

\* The roots that the first so many aunts give.
RootsOf(index, total, leaf, aunts) ==
    CHOOSE g : g = [q \in Places(index, total, Len(aunts)) |-> RootStep(g, q, leaf, aunts)]
RootsHold(g, index, total, leaf, aunts) ==
    \A q \in Places(index, total, Len(aunts)) : g[q] = RootStep(g, q, leaf, aunts)

LEMMA RootTable ==
    ASSUME NEW index \in Nat, NEW total \in Nat, NEW leaf, NEW aunts, Len(aunts) \in Nat
    PROVE  /\ computeHashFromAunts(index, total, leaf, aunts) =
                IF index >= total THEN <<>> ELSE RootsOf(index, total, leaf, aunts)[<<index, total, Len(aunts)>>]
           /\ RootsHold(RootsOf(index, total, leaf, aunts), index, total, leaf, aunts)
<1> DEFINE m == Len(aunts)
           D == Places(index, total, m)
           A(g) == g = [q \in D |-> RootStep(g, q, leaf, aunts)]
           R == RootsOf(index, total, leaf, aunts)
           own(g, q) == LET i == q[1]    t == q[2]    l == q[3]
                            numLeft == getSplitPoint(t)
                            left    == i < numLeft
                            below   == IF left THEN g[<<i, numLeft, l - 1>>] ELSE g[<<i - numLeft, t - numLeft, l - 1>>]
                        IN  IF t = 1 THEN IF l = 0 THEN leaf ELSE <<>>
                            ELSE IF l = 0 \/ below = <<>> THEN <<>>
                            ELSE IF left THEN innerHash(below, aunts[l]) ELSE innerHash(aunts[l], below)
           O(g) == g = [q \in D |-> own(g, q)]
<1>1. computeHashFromAunts(index, total, leaf, aunts) =
        IF index >= total \/ index < 0 THEN <<>> ELSE (CHOOSE g : O(g))[<<index, total, m>>]
  BY DEF computeHashFromAunts, Places
<1>2. ASSUME NEW g, NEW q PROVE RootStep(g, q, leaf, aunts) = own(g, q)
  <2> DEFINE k == getSplitPoint(q[2])
             a == g[<<q[1], k, q[3] - 1>>]
             b == g[<<q[1] - k, q[2] - k, q[3] - 1>>]
  <2>1. RootStep(g, q, leaf, aunts) =
          IF q[2] = 1 THEN IF q[3] = 0 THEN leaf ELSE <<>>
          ELSE IF q[3] = 0 THEN <<>>
          ELSE IF q[1] < k THEN IF a = <<>> THEN <<>> ELSE innerHash(a, aunts[q[3]])
          ELSE IF b = <<>> THEN <<>> ELSE innerHash(aunts[q[3]], b)
    BY Zenon DEF RootStep
  <2>2. own(g, q) =
          IF q[2] = 1 THEN IF q[3] = 0 THEN leaf ELSE <<>>
          ELSE IF q[3] = 0 \/ (IF q[1] < k THEN a ELSE b) = <<>> THEN <<>>
          ELSE IF q[1] < k THEN innerHash(IF q[1] < k THEN a ELSE b, aunts[q[3]])
          ELSE innerHash(aunts[q[3]], IF q[1] < k THEN a ELSE b)
    BY Zenon
  <2> HIDE DEF own, a, b, k
  <2> DEFINE left == q[1] < k
  <2>3. CASE left
    BY <2>1, <2>2, <2>3
  <2>4. CASE ~left
    BY <2>1, <2>2, <2>4
  <2> QED BY <2>3, <2>4
<1> HIDE DEF own
<1>3. \A g : A(g) <=> O(g)
  <2> SUFFICES ASSUME NEW g PROVE A(g) <=> O(g)
    OBVIOUS
  <2>1. [q \in D |-> RootStep(g, q, leaf, aunts)] = [q \in D |-> own(g, q)]
    BY <1>2, Zenon
  <2> QED BY <2>1, Zenon
<1>4. (CHOOSE g : O(g)) = (CHOOSE g : A(g))
  <2> HIDE DEF A, O
  <2> QED BY <1>3, Zenon
<1>5. R = CHOOSE g : A(g)
  BY DEF RootsOf
<1>6. \E g : A(g)
  <2>1. m \in Nat
    OBVIOUS
  <2>2. PICK g : AreRoots(g, index, total, m, leaf, aunts)
    BY <2>1, RootExists
  <2>3. A(g)
    BY <2>2 DEF AreRoots
  <2> QED BY <2>3
<1>7. A(R)
  <2> HIDE DEF A, R
  <2> QED BY <1>5, <1>6
<1> HIDE DEF R
<1>8. \A q \in D : R[q] = RootStep(R, q, leaf, aunts)
  <2> HIDE DEF D
  <2> QED BY <1>7, Zenon
<1>9. computeHashFromAunts(index, total, leaf, aunts) = IF index >= total \/ index < 0 THEN <<>> ELSE R[<<index, total, m>>]
  <2> HIDE DEF A, O
  <2> QED BY <1>1, <1>4, <1>5, Zenon
<1>10. ~(index < 0)
  OBVIOUS
<1> QED BY <1>8, <1>9, <1>10, Zenon DEF R, RootsHold

\* The place of a run around item i in the table, with m aunts.
At(i, r, m) == <<i - r[1], r[2] - r[1] + 1, m>>
Lower(r) == <<r[1], Mid(r)>>
Upper(r) == <<Mid(r) + 1, r[2]>>

\* The halves again, with item i in one of them.
LEMMA InHalf ==
    ASSUME NEW n \in Nat, NEW i \in Int, NEW r \in Runs(n), r[1] <= i, i <= r[2], r[1] # r[2]
    PROVE  /\ Lower(r) \in Short(n, r[2] - r[1]) /\ Upper(r) \in Short(n, r[2] - r[1])
           /\ Lower(r) \in Runs(n) /\ Upper(r) \in Runs(n)
           /\ i <= Mid(r) => Lower(r)[1] <= i /\ i <= Lower(r)[2]
           /\ ~(i <= Mid(r)) => Upper(r)[1] <= i /\ i <= Upper(r)[2]
<1>1. Mid(r) \in r[1] .. (r[2] - 1) /\ r[1] \in Int /\ r[2] \in Int
  BY Halves, RunEnds
<1>2. Lower(r) \in Short(n, r[2] - r[1]) /\ Upper(r) \in Short(n, r[2] - r[1])
  BY Halves DEF Lower, Upper
<1>3. Lower(r) \in Runs(n) /\ Upper(r) \in Runs(n)
  BY <1>2 DEF Short
<1>4. Lower(r)[1] = r[1] /\ Lower(r)[2] = Mid(r) /\ Upper(r)[1] = Mid(r) + 1 /\ Upper(r)[2] = r[2]
  BY DEF Lower, Upper
<1>5. ~(i <= Mid(r)) => Mid(r) + 1 <= i
  BY <1>1
<1> QED BY <1>2, <1>3, <1>4, <1>5

\* The table at the place of a run.
RootIs(R, i, r, m, leaf, aunts) ==
    R[At(i, r, m)] =
        IF r[1] = r[2] THEN IF m = 0 THEN leaf ELSE <<>>
        ELSE IF m = 0 THEN <<>>
        ELSE IF i <= Mid(r)
        THEN IF R[At(i, Lower(r), m - 1)] = <<>> THEN <<>> ELSE innerHash(R[At(i, Lower(r), m - 1)], aunts[m])
        ELSE IF R[At(i, Upper(r), m - 1)] = <<>> THEN <<>> ELSE innerHash(aunts[m], R[At(i, Upper(r), m - 1)])

\* The place of i in the halves of a run a .. b that is cut after d.
LEMMA Shift ==
    ASSUME NEW a \in Int, NEW b \in Int, NEW d \in Int, NEW i \in Int
    PROVE  /\ (i - a) - (d - a + 1) = i - (d + 1)
           /\ (b - a + 1) - (d - a + 1) = b - (d + 1) + 1
           /\ i - a < d - a + 1 <=> i <= d
           /\ a # b => b - a + 1 # 1
OBVIOUS

LEMMA RootAt ==
    ASSUME NEW n \in Nat, NEW i \in 1 .. n, NEW r \in Runs(n), r[1] <= i, i <= r[2],
           NEW leaf, NEW aunts, Len(aunts) \in Nat, NEW m \in 0 .. Len(aunts)
    PROVE  RootIs(RootsOf(i - 1, n, leaf, aunts), i, r, m, leaf, aunts)
<1> DEFINE R == RootsOf(i - 1, n, leaf, aunts)
           q == At(i, r, m)
           k == getSplitPoint(q[2])
<1>1. r[1] \in Int /\ r[2] \in Int /\ 1 <= r[1] /\ r[1] <= r[2] /\ r[2] <= n
  BY RunEnds
<1>2. q[1] = i - r[1] /\ q[2] = r[2] - r[1] + 1 /\ q[3] = m
  BY DEF At
<1>3. i - r[1] \in 0 .. (i - 1) /\ r[2] - r[1] + 1 \in 1 .. n /\ i - 1 \in Nat
  BY <1>1
<1>4. q \in Places(i - 1, n, Len(aunts))
  BY <1>3 DEF Places, At
<1> HIDE DEF q
<1>5. R[q] = RootStep(R, q, leaf, aunts)
  <2> DEFINE j == i - 1
  <2>1. j \in Nat /\ q \in Places(j, n, Len(aunts))
    BY <1>3, <1>4
  <2> HIDE DEF j
  <2>2. RootsHold(RootsOf(j, n, leaf, aunts), j, n, leaf, aunts)
    BY <2>1, RootTable
  <2> QED BY <2>1, <2>2, Zenon DEF j, RootsHold
<1> HIDE DEF R
<1>6. CASE r[1] = r[2]
  <2>1. q[2] = 1
    BY <1>1, <1>2, <1>6
  <2>2. R[q] = IF m = 0 THEN leaf ELSE <<>>
    BY <1>2, <1>5, <2>1 DEF RootStep
  <2> QED BY <1>6, <2>2 DEF RootIs, q, R
<1>7. CASE r[1] # r[2]
  <2>1. Mid(r) \in r[1] .. (r[2] - 1) /\ k = Mid(r) - r[1] + 1
    BY <1>2, <1>7, Halves
  <2>2. q[2] # 1 /\ (q[1] < k <=> i <= Mid(r))
    <3> DEFINE d == Mid(r)
    <3>1. d \in Int /\ i \in Int
      BY <1>1, <2>1
    <3> HIDE DEF d
    <3>2. r[2] - r[1] + 1 # 1 /\ (i - r[1] < d - r[1] + 1 <=> i <= d)
      BY <1>1, <1>7, <3>1, Shift, Zenon
    <3> HIDE DEF k
    <3> QED BY <1>2, <2>1, <3>2, Zenon DEF d
  <2>3. /\ <<q[1], k, q[3] - 1>> = At(i, Lower(r), m - 1)
        /\ <<q[1] - k, q[2] - k, q[3] - 1>> = At(i, Upper(r), m - 1)
    <3> DEFINE d == Mid(r)
    <3>1. d \in Int /\ i \in Int /\ m \in Int
      BY <1>1, <2>1
    <3>2. k = d - r[1] + 1
      BY <2>1
    <3> HIDE DEF d, k
    <3>3. /\ q[1] = i - r[1] /\ q[3] - 1 = m - 1
          /\ q[1] - k = i - (d + 1) /\ q[2] - k = r[2] - (d + 1) + 1
      <4> DEFINE s == r[1]
                 t == r[2]
      <4>1. s \in Int /\ t \in Int
        BY <1>1
      <4> HIDE DEF s, t
      <4>2. (i - s) - (d - s + 1) = i - (d + 1)
        BY <3>1, <4>1, SMT
      <4>3. (t - s + 1) - (d - s + 1) = t - (d + 1) + 1
        BY <3>1, <4>1, Shift, SMT
      <4> QED BY <1>2, <3>2, <4>2, <4>3, Zenon DEF s, t
    <3> QED BY <3>2, <3>3 DEF At, Lower, Upper, d
  <2> DEFINE a == R[At(i, Lower(r), m - 1)]
             b == R[At(i, Upper(r), m - 1)]
  <2>4. R[q] = IF m = 0 THEN <<>>
               ELSE IF q[1] < k THEN IF a = <<>> THEN <<>> ELSE innerHash(a, aunts[m])
               ELSE IF b = <<>> THEN <<>> ELSE innerHash(aunts[m], b)
    <3>1. RootStep(R, q, leaf, aunts) =
            IF q[3] = 0 THEN <<>>
            ELSE IF q[1] < k THEN IF R[<<q[1], k, q[3] - 1>>] = <<>> THEN <<>>
                                  ELSE innerHash(R[<<q[1], k, q[3] - 1>>], aunts[q[3]])
            ELSE IF R[<<q[1] - k, q[2] - k, q[3] - 1>>] = <<>> THEN <<>>
                 ELSE innerHash(aunts[q[3]], R[<<q[1] - k, q[2] - k, q[3] - 1>>])
      BY <2>2, Zenon DEF RootStep
    <3> QED BY <1>2, <1>5, <2>3, <3>1, Zenon
  <2> HIDE DEF a, b, k
  <2>5. R[q] = IF m = 0 THEN <<>>
               ELSE IF i <= Mid(r) THEN IF a = <<>> THEN <<>> ELSE innerHash(a, aunts[m])
               ELSE IF b = <<>> THEN <<>> ELSE innerHash(aunts[m], b)
    BY <2>2, <2>4, Zenon
  <2> QED BY <1>7, <2>5, Zenon DEF a, b, q, R, RootIs
<1> QED BY <1>6, <1>7

\* A hash is not nil.
LEMMA HashNotNil ==
    ASSUME NEW items, Len(items) \in Nat, NEW r \in Runs(Len(items))
    PROVE  HashOfRun(items)[r] # <<>>
<1> DEFINE a == HashOfRun(items)[<<r[1], Mid(r)>>]
           b == HashOfRun(items)[<<Mid(r) + 1, r[2]>>]
<1>1. HashOfRun(items)[r] = IF r[1] = r[2] THEN leafHash(items[r[1]]) ELSE innerHash(a, b)
  BY HashTable, Zenon
<1> HIDE DEF a, b
<1>2. leafHash(items[r[1]]) # <<>> /\ innerHash(a, b) # <<>>
  BY DEF leafHash, innerHash
<1> QED BY <1>1, <1>2

\* The aunts of an item within a run, from those within its halves.
AuntIs(T, H, i, q) == T[q] = IF q[1] = q[2] THEN <<>>
                             ELSE IF i <= Mid(q) THEN Append(T[Lower(q)], H[Upper(q)])
                             ELSE Append(T[Upper(q)], H[Lower(q)])
LEMMA AuntHalves ==
    ASSUME NEW items, Len(items) \in Nat, NEW i, NEW q \in Runs(Len(items))
    PROVE  AuntIs(AuntsOf(items, i), HashOfRun(items), i, q)
BY AuntTable, Zenon DEF AuntIs, Lower, Upper

\* An item's own aunts lead from its hash to the hash of every run around it.
LEMMA OwnRoots ==
    ASSUME NEW items, Len(items) \in Nat, NEW i \in 1 .. Len(items),
           NEW aunts, aunts = FlattenAunts(items, i), Len(aunts) \in Nat,
           NEW r \in Runs(Len(items)), r[1] <= i, i <= r[2],
           Len(AuntsOf(items, i)[r]) <= Len(aunts),
           \A j \in 1 .. Len(AuntsOf(items, i)[r]) : aunts[j] = AuntsOf(items, i)[r][j]
    PROVE  RootsOf(i - 1, Len(items), leafHash(items[i]), aunts)[At(i, r, Len(AuntsOf(items, i)[r]))] = HashOfRun(items)[r]
<1> DEFINE n == Len(items)
           T == AuntsOf(items, i)
           H == HashOfRun(items)
           S == Hashes(items)
           R == RootsOf(i - 1, n, leafHash(items[i]), aunts)
           Fits(q) == /\ q[1] <= i /\ i <= q[2] /\ Len(T[q]) <= Len(aunts)
                      /\ \A j \in 1 .. Len(T[q]) : aunts[j] = T[q][j]
           G == {k \in 0 .. n : \A q \in Short(n, k) : Fits(q) => R[At(i, q, Len(T[q]))] = H[q]}
<1>1. n \in Nat /\ i \in 1 .. n /\ i \in Int
  OBVIOUS
<1>2. \A q \in Runs(n) : T[q] \in Seq(S) /\ H[q] \in S /\ H[q] # <<>>
  BY AuntsSeq, HashNotNil DEF Hashes
<1>3. \A q \in Runs(n) : T[q] = IF q[1] = q[2] THEN <<>>
                                ELSE IF i <= Mid(q) THEN Append(T[Lower(q)], H[Upper(q)])
                                ELSE Append(T[Upper(q)], H[Lower(q)])
  <2> TAKE q \in Runs(n)
  <2>1. AuntIs(T, H, i, q)
    BY AuntHalves
  <2> HIDE DEF T, H
  <2> QED BY <2>1 DEF AuntIs
<1>4. \A q \in Runs(n) : H[q] = IF q[1] = q[2] THEN leafHash(items[q[1]]) ELSE innerHash(H[Lower(q)], H[Upper(q)])
  BY HashTable, Zenon DEF Lower, Upper
<1>5. ASSUME NEW q \in Runs(n), q[1] <= i, i <= q[2], NEW m \in 0 .. Len(aunts)
      PROVE  RootIs(R, i, q, m, leafHash(items[i]), aunts)
  BY <1>1, <1>5, RootAt
<1> HIDE DEF n, T, H, S, R
<1>6. 0 \in G
  <2> SUFFICES ASSUME NEW q \in Short(n, 0) PROVE FALSE
    BY <1>1
  <2> QED BY <1>1, NoShort
<1>7. ASSUME NEW k \in 1 .. n, k - 1 \in G PROVE k \in G
  <2> SUFFICES ASSUME NEW q \in Short(n, k), Fits(q) PROVE R[At(i, q, Len(T[q]))] = H[q]
    BY <1>1
  <2>1. q \in Runs(n) /\ q[2] - q[1] < k
    BY <1>1, ShortIs
  <2>2. q[1] \in Int /\ q[2] \in Int
    BY <1>1, <2>1, RunEnds
  <2>3. ASSUME NEW p \in Short(n, q[2] - q[1]), Fits(p) PROVE R[At(i, p, Len(T[p]))] = H[p]
    <3>1. p \in Runs(n) /\ p \in Short(n, k - 1)
      BY <1>1, ShorterRuns
    <3> HIDE DEF Fits
    <3> QED BY <1>7, <2>3, <3>1
  <2>4. q[1] <= i /\ i <= q[2] /\ Len(T[q]) \in 0 .. Len(aunts)
    <3>1. T[q] \in Seq(S)
      BY <1>2, <2>1
    <3>2. Len(T[q]) \in Nat
      BY <3>1
    <3> QED BY <3>2
  <2>5. CASE q[1] = q[2]
    <3>1. T[q] = <<>> /\ H[q] = leafHash(items[q[1]])
      BY <1>3, <1>4, <2>1, <2>5
    <3>2. Len(T[q]) = 0 /\ q[1] = i
      BY <1>1, <2>2, <2>4, <2>5, <3>1
    <3>3. RootIs(R, i, q, 0, leafHash(items[i]), aunts)
      BY <1>5, <2>1, <2>4, <3>2
    <3>4. R[At(i, q, 0)] = leafHash(items[i])
      BY <2>5, <3>3, Zenon DEF RootIs
    <3> QED BY <3>1, <3>2, <3>4
  <2>6. CASE q[1] # q[2] /\ i <= Mid(q)
    <3> DEFINE p == Lower(q)
               u == Upper(q)
               m == Len(T[q])
    <3>1. p \in Short(n, q[2] - q[1]) /\ p \in Runs(n) /\ u \in Runs(n) /\ p[1] <= i /\ i <= p[2]
      BY <1>1, <2>1, <2>4, <2>6, InHalf
    <3>2. T[q] = Append(T[p], H[u]) /\ H[q] = innerHash(H[p], H[u])
      BY <1>3, <1>4, <2>1, <2>6
    <3>3. T[p] \in Seq(S) /\ H[u] \in S /\ H[p] # <<>>
      BY <1>2, <3>1
    <3> HIDE DEF p, u
    <3>4. /\ Len(T[p]) \in Nat /\ m = Len(T[p]) + 1 /\ T[q][m] = H[u]
          /\ \A j \in 1 .. Len(T[p]) : T[q][j] = T[p][j]
      BY <3>2, <3>3
    <3> HIDE DEF m
    <3>5. m \in 0 .. Len(aunts) /\ m # 0 /\ m - 1 = Len(T[p]) /\ aunts[m] = H[u]
      <4>1. m \in 1 .. Len(T[q])
        BY <2>4, <3>4 DEF m
      <4> QED BY <2>4, <3>4, <4>1
    <3>6. Fits(p)
      <4>1. Len(T[p]) <= Len(aunts)
        BY <3>4, <3>5
      <4>2. ASSUME NEW j \in 1 .. Len(T[p]) PROVE aunts[j] = T[p][j]
        <5>1. j \in 1 .. Len(T[q])
          BY <3>4 DEF m
        <5> QED BY <3>4, <5>1
      <4> QED BY <3>1, <4>1, <4>2
    <3>7. R[At(i, p, m - 1)] = H[p]
      BY <2>3, <3>1, <3>5, <3>6
    <3>8. R[At(i, q, m)] = innerHash(H[p], aunts[m])
      <4>1. R[At(i, q, m)] = IF R[At(i, p, m - 1)] = <<>> THEN <<>> ELSE innerHash(R[At(i, p, m - 1)], aunts[m])
        <5>1. RootIs(R, i, q, m, leafHash(items[i]), aunts)
          BY <1>5, <2>1, <2>4, <3>5
        <5> QED BY <2>6, <3>5, <5>1, Zenon DEF RootIs, p
      <4> QED BY <3>3, <3>7, <4>1
    <3> QED BY <3>2, <3>5, <3>8 DEF m
  <2>7. CASE q[1] # q[2] /\ ~(i <= Mid(q))
    <3> DEFINE p == Upper(q)
               u == Lower(q)
               m == Len(T[q])
    <3>1. p \in Short(n, q[2] - q[1]) /\ p \in Runs(n) /\ u \in Runs(n) /\ p[1] <= i /\ i <= p[2]
      BY <1>1, <2>1, <2>4, <2>7, InHalf
    <3>2. T[q] = Append(T[p], H[u]) /\ H[q] = innerHash(H[u], H[p])
      BY <1>3, <1>4, <2>1, <2>7
    <3>3. T[p] \in Seq(S) /\ H[u] \in S /\ H[p] # <<>>
      BY <1>2, <3>1
    <3> HIDE DEF p, u
    <3>4. /\ Len(T[p]) \in Nat /\ m = Len(T[p]) + 1 /\ T[q][m] = H[u]
          /\ \A j \in 1 .. Len(T[p]) : T[q][j] = T[p][j]
      BY <3>2, <3>3
    <3> HIDE DEF m
    <3>5. m \in 0 .. Len(aunts) /\ m # 0 /\ m - 1 = Len(T[p]) /\ aunts[m] = H[u]
      <4>1. m \in 1 .. Len(T[q])
        BY <2>4, <3>4 DEF m
      <4> QED BY <2>4, <3>4, <4>1
    <3>6. Fits(p)
      <4>1. Len(T[p]) <= Len(aunts)
        BY <3>4, <3>5
      <4>2. ASSUME NEW j \in 1 .. Len(T[p]) PROVE aunts[j] = T[p][j]
        <5>1. j \in 1 .. Len(T[q])
          BY <3>4 DEF m
        <5> QED BY <3>4, <5>1
      <4> QED BY <3>1, <4>1, <4>2
    <3>7. R[At(i, p, m - 1)] = H[p]
      BY <2>3, <3>1, <3>5, <3>6
    <3>8. R[At(i, q, m)] = innerHash(aunts[m], H[p])
      <4>1. R[At(i, q, m)] = IF R[At(i, p, m - 1)] = <<>> THEN <<>> ELSE innerHash(aunts[m], R[At(i, p, m - 1)])
        <5>1. RootIs(R, i, q, m, leafHash(items[i]), aunts)
          BY <1>5, <2>1, <2>4, <3>5
        <5> QED BY <2>7, <3>5, <5>1, Zenon DEF RootIs, p
      <4> QED BY <3>3, <3>7, <4>1
    <3> QED BY <3>2, <3>5, <3>8 DEF m
  <2> QED BY <2>5, <2>6, <2>7
<1>8. n \in G
  <2> HIDE DEF G
  <2>1. \A k \in 0 .. n : k \in G
    BY <1>1, <1>6, <1>7, Induct
  <2> QED BY <1>1, <2>1
<1>9. r \in Short(n, n)
  <2>1. r \in Runs(n)
    BY DEF n
  <2>2. r[2] - r[1] < n
    BY <1>1, <2>1, RunEnds
  <2> QED BY <1>1, <2>1, <2>2, ShortIs
<1>10. Fits(r)
  BY DEF T
<1> HIDE DEF Fits
<1>11. R[At(i, r, Len(T[r]))] = H[r]
  BY <1>8, <1>9, <1>10
<1> QED BY <1>11 DEF R, T, H, n

\* The whole list is a run, and its hash the root.
LEMMA WholeRun ==
    ASSUME NEW items, Len(items) \in Nat, NEW i \in 1 .. Len(items)
    PROVE  /\ <<1, Len(items)>> \in Runs(Len(items))
           /\ \A m : At(i, <<1, Len(items)>>, m) = <<i - 1, Len(items), m>>
           /\ HashFromByteSlices(items) = HashOfRun(items)[<<1, Len(items)>>]
<1> DEFINE n == Len(items)
<1>1. n \in Nat /\ n >= 1 /\ 1 \in 1 .. n /\ n \in 1 .. n /\ n - 1 + 1 = n
  OBVIOUS
<1>2. items # <<>>
  <2>1. Len(<<>>) = 0
    OBVIOUS
  <2> QED BY <1>1, <2>1
<1> HIDE DEF n
<1>3. <<1, n>> \in Runs(n)
  BY <1>1 DEF Runs
<1>4. \A m : At(i, <<1, n>>, m) = <<i - 1, n, m>>
  BY <1>1 DEF At
<1> QED BY <1>2, <1>3, <1>4 DEF n, HashFromByteSlices

(* The proof that ProofsFromByteSlices makes for an item is accepted by Verify against the root of the
   items, however many they are: trailsFromByteSlices and computeHashFromAunts cut a list in the same way
   and meet the aunts in the same order. *)
THEOREM MerkleComplete ==
    ASSUME NEW S, NEW items \in Seq(S), NEW i \in 1 .. Len(items)
    PROVE  LET made == ProofsFromByteSlices(items)
           IN  Verifies(made.proofs[i], made.root, items[i])
<1> DEFINE n == Len(items)
           A == FlattenAunts(items, i)
           T == AuntsOf(items, i)
           w == <<1, n>>
           p == [Total |-> n, Index |-> i - 1, LeafHash |-> leafHash(items[i]), Aunts |-> A]
           R == RootsOf(i - 1, n, leafHash(items[i]), A)
<1>1. n \in Nat /\ i \in DOMAIN items /\ i - 1 \in Nat /\ i - 1 >= 0 /\ n >= 0 /\ ~(i - 1 >= n) /\ 1 <= i /\ i <= n
  OBVIOUS
<1>2. ProofsFromByteSlices(items).proofs[i] = p /\ ProofsFromByteSlices(items).root = HashFromByteSlices(items)
  BY <1>1 DEF ProofsFromByteSlices
<1>3. w \in Runs(n) /\ At(i, w, Len(A)) = <<i - 1, n, Len(A)>> /\ HashFromByteSlices(items) = HashOfRun(items)[w]
  BY <1>1, WholeRun
<1>4. A = T[w]
  BY <1>1, AuntTable
<1>5. T[w] \in Seq(Hashes(items))
  BY <1>1, <1>3, AuntsSeq
<1>6. Len(A) \in Nat
  BY <1>4, <1>5
<1>7. w[1] <= i /\ i <= w[2] /\ Len(T[w]) <= Len(A)
  BY <1>1, <1>4, <1>6
<1>8. R[At(i, w, Len(A))] = HashOfRun(items)[w]
  <2> HIDE DEF A, T, w, n, R
  <2>1. /\ A = FlattenAunts(items, i) /\ Len(AuntsOf(items, i)[w]) <= Len(A)
        /\ \A j \in 1 .. Len(AuntsOf(items, i)[w]) : A[j] = AuntsOf(items, i)[w][j]
        /\ w \in Runs(Len(items)) /\ i \in 1 .. Len(items) /\ Len(items) \in Nat
    BY <1>1, <1>3, <1>4, <1>7 DEF A, T, n
  <2> QED BY <1>4, <1>6, <1>7, <2>1, OwnRoots DEF T, n, R
<1>9. computeHashFromAunts(i - 1, n, leafHash(items[i]), A) = R[<<i - 1, n, Len(A)>>]
  <2> DEFINE j == i - 1
             leaf == leafHash(items[i])
  <2> HIDE DEF A, j, leaf, n
  <2>1. j \in Nat /\ n \in Nat /\ ~(j >= n)
    BY <1>1 DEF j
  <2>2. computeHashFromAunts(j, n, leaf, A) = IF j >= n THEN <<>> ELSE RootsOf(j, n, leaf, A)[<<j, n, Len(A)>>]
    BY <1>6, <2>1, RootTable
  <2> QED BY <2>1, <2>2, Zenon DEF j, leaf
<1>10. ComputeRootHash(p) = HashFromByteSlices(items)
  <2> HIDE DEF A, T, R, n, w
  <2> QED BY <1>3, <1>8, <1>9 DEF ComputeRootHash
<1>11. Verifies(p, HashFromByteSlices(items), items[i])
  <2>1. p.Total = n /\ p.Index = i - 1 /\ p.LeafHash = leafHash(items[i])
    OBVIOUS
  <2> HIDE DEF p
  <2> QED BY <1>1, <1>10, <2>1 DEF Verifies
<1> HIDE DEF p
<1> QED BY <1>2, <1>11

\* Who reaches the hash of a run, with whatever aunts, started from the hash of the item.
LEMMA SoundRoots ==
    ASSUME NEW items, Len(items) \in Nat, NEW i \in 1 .. Len(items), NEW leaf, NEW aunts, Len(aunts) \in Nat,
           NEW r \in Runs(Len(items)), r[1] <= i, i <= r[2], NEW l \in 0 .. Len(aunts),
           RootsOf(i - 1, Len(items), leaf, aunts)[At(i, r, l)] = HashOfRun(items)[r]
    PROVE  leaf = leafHash(items[i])
<1> DEFINE n == Len(items)
           H == HashOfRun(items)
           R == RootsOf(i - 1, n, leaf, aunts)
           Meets(q) == q[1] <= i /\ i <= q[2] /\ \E m \in 0 .. Len(aunts) : R[At(i, q, m)] = H[q]
           G == {k \in 0 .. n : \A q \in Short(n, k) : Meets(q) => leaf = leafHash(items[i])}
<1>1. n \in Nat /\ i \in 1 .. n /\ i \in Int
  OBVIOUS
<1>2. \A q \in Runs(n) : H[q] # <<>>
  BY HashNotNil
<1>3. \A q \in Runs(n) : H[q] = IF q[1] = q[2] THEN leafHash(items[q[1]]) ELSE innerHash(H[Lower(q)], H[Upper(q)])
  BY HashTable, Zenon DEF Lower, Upper
<1>4. ASSUME NEW q \in Runs(n), q[1] <= i, i <= q[2], NEW m \in 0 .. Len(aunts)
      PROVE  RootIs(R, i, q, m, leaf, aunts)
  BY <1>1, <1>4, RootAt
<1> HIDE DEF n, H, R
<1>5. 0 \in G
  <2> SUFFICES ASSUME NEW q \in Short(n, 0) PROVE FALSE
    BY <1>1
  <2> QED BY <1>1, NoShort
<1>6. ASSUME NEW k \in 1 .. n, k - 1 \in G PROVE k \in G
  <2> SUFFICES ASSUME NEW q \in Short(n, k), q[1] <= i, i <= q[2],
                      NEW m \in 0 .. Len(aunts), R[At(i, q, m)] = H[q]
               PROVE  leaf = leafHash(items[i])
    BY <1>1
  <2>1. q \in Runs(n) /\ q[2] - q[1] < k
    BY <1>1, ShortIs
  <2>2. q[1] \in Int /\ q[2] \in Int
    BY <1>1, <2>1, RunEnds
  <2>3. ASSUME NEW p \in Short(n, q[2] - q[1]), Meets(p) PROVE leaf = leafHash(items[i])
    <3>1. p \in Runs(n) /\ p \in Short(n, k - 1)
      BY <1>1, ShorterRuns
    <3> HIDE DEF Meets
    <3> QED BY <1>6, <2>3, <3>1
  <2>4. RootIs(R, i, q, m, leaf, aunts) /\ H[q] # <<>>
    BY <1>2, <1>4, <2>1
  <2>5. CASE q[1] = q[2]
    <3>1. q[1] = i
      BY <1>1, <2>2, <2>5
    <3>2. H[q] = leafHash(items[i])
      BY <1>3, <2>1, <2>5, <3>1
    <3>3. R[At(i, q, m)] = IF m = 0 THEN leaf ELSE <<>>
      BY <2>4, <2>5, Zenon DEF RootIs
    <3> QED BY <2>4, <3>2, <3>3
  <2>6. CASE q[1] # q[2]
    <3> DEFINE a == Lower(q)
               b == Upper(q)
               ra == R[At(i, a, m - 1)]
               rb == R[At(i, b, m - 1)]
    <3>1. H[q] = innerHash(H[a], H[b])
      BY <1>3, <2>1, <2>6
    <3>2. /\ a \in Short(n, q[2] - q[1]) /\ b \in Short(n, q[2] - q[1])
          /\ i <= Mid(q) => a[1] <= i /\ i <= a[2]
          /\ ~(i <= Mid(q)) => b[1] <= i /\ i <= b[2]
      BY <1>1, <2>1, <2>6, InHalf
    <3>3. R[At(i, q, m)] = IF m = 0 THEN <<>>
                           ELSE IF i <= Mid(q) THEN IF ra = <<>> THEN <<>> ELSE innerHash(ra, aunts[m])
                           ELSE IF rb = <<>> THEN <<>> ELSE innerHash(aunts[m], rb)
      BY <2>4, <2>6, Zenon DEF RootIs
    <3> HIDE DEF ra, rb, a, b
    <3>4. m # 0
      BY <2>4, <3>3
    <3>5. m - 1 \in 0 .. Len(aunts)
      BY <3>4
    <3>6. CASE i <= Mid(q)
      <4>1. innerHash(H[a], H[b]) = innerHash(ra, aunts[m])
        BY <2>4, <3>1, <3>3, <3>4, <3>6
      <4>2. ra = H[a]
        BY <4>1 DEF innerHash
      <4>3. Meets(a)
        BY <3>2, <3>5, <3>6, <4>2 DEF ra
      <4> HIDE DEF Meets
      <4> QED BY <2>3, <3>2, <4>3
    <3>7. CASE ~(i <= Mid(q))
      <4>1. innerHash(H[a], H[b]) = innerHash(aunts[m], rb)
        BY <2>4, <3>1, <3>3, <3>4, <3>7
      <4>2. rb = H[b]
        BY <4>1 DEF innerHash
      <4>3. Meets(b)
        BY <3>2, <3>5, <3>7, <4>2 DEF rb
      <4> HIDE DEF Meets
      <4> QED BY <2>3, <3>2, <4>3
    <3> QED BY <3>6, <3>7
  <2> QED BY <2>5, <2>6
<1>7. n \in G
  <2> HIDE DEF G
  <2>1. \A k \in 0 .. n : k \in G
    BY <1>1, <1>5, <1>6, Induct
  <2> QED BY <1>1, <2>1
<1>8. r \in Short(n, n)
  <2>1. r \in Runs(n)
    BY DEF n
  <2>2. r[2] - r[1] < n
    BY <1>1, <2>1, RunEnds
  <2> QED BY <1>1, <2>1, <2>2, ShortIs
<1>9. Meets(r)
  BY DEF R, H, n
<1> HIDE DEF Meets
<1> QED BY <1>7, <1>8, <1>9

(* Verify accepts, against the root of a list and with the list's length as Total, only the item at the
   proof's Index, whatever aunts the proof has.  That the totals are the same, as Part.Verify checks, is
   needed: with another Total the last of three items passes as the second of two. *)
THEOREM MerkleSound ==
    ASSUME NEW S, NEW items \in Seq(S), items # <<>>, NEW p, NEW leaf, p.Total = Len(items), p.Index \in Int,
           Len(p.Aunts) \in Nat, Verifies(p, HashFromByteSlices(items), leaf)
    PROVE  p.Index \in 0 .. (Len(items) - 1) /\ leaf = items[p.Index + 1]
<1> DEFINE n == Len(items)
           idx == p.Index
           A == p.Aunts
           L == p.LeafHash
           R == RootsOf(idx, n, L, A)
<1>1. n \in Nat /\ n >= 1 /\ idx \in Nat /\ L = leafHash(leaf)
  BY DEF Verifies
<1>2. computeHashFromAunts(idx, n, L, A) = HashFromByteSlices(items)
  BY DEF Verifies, ComputeRootHash
<1> HIDE DEF idx, A, L
<1>3. computeHashFromAunts(idx, n, L, A) = IF idx >= n THEN <<>> ELSE R[<<idx, n, Len(A)>>]
  <2>1. Len(A) \in Nat
    BY DEF A
  <2> HIDE DEF n
  <2> QED BY <1>1, <2>1, RootTable
<1>4. <<1, n>> \in Runs(n) /\ HashFromByteSlices(items) = HashOfRun(items)[<<1, n>>]
  <2>1. 1 \in 1 .. n
    BY <1>1
  <2> QED BY <1>1, <2>1, WholeRun
<1>5. HashFromByteSlices(items) # <<>>
  BY <1>1, <1>4, HashNotNil
<1>6. idx < n /\ R[<<idx, n, Len(A)>>] = HashOfRun(items)[<<1, n>>]
  <2> HIDE DEF n, R
  <2>1. ~(idx >= n)
    BY <1>2, <1>3, <1>5
  <2>2. idx < n
    BY <1>1, <2>1
  <2> QED BY <1>2, <1>3, <1>4, <2>1, <2>2, Zenon
<1> DEFINE i == idx + 1
           w == <<1, n>>
<1>7. i \in 1 .. n /\ i - 1 = idx
  BY <1>1, <1>6
<1> HIDE DEF i, w
<1>8. At(i, w, Len(A)) = <<idx, n, Len(A)>> /\ w \in Runs(n) /\ w[1] <= i /\ i <= w[2]
  <2>1. At(i, <<1, n>>, Len(A)) = <<i - 1, n, Len(A)>>
    BY <1>1, <1>7, WholeRun
  <2>2. w[1] = 1 /\ w[2] = n
    BY DEF w
  <2> HIDE DEF n
  <2> QED BY <1>1, <1>4, <1>7, <2>1, <2>2 DEF w
<1>9. RootsOf(i - 1, n, L, A)[At(i, w, Len(A))] = HashOfRun(items)[w]
  <2> HIDE DEF n
  <2> QED BY <1>6, <1>7, <1>8 DEF w
<1>10. Len(A) \in Nat /\ Len(A) \in 0 .. Len(A)
  BY DEF A
<1>11. L = leafHash(items[i])
  BY <1>1, <1>7, <1>8, <1>9, <1>10, SoundRoots
<1>12. leaf = items[i]
  BY <1>1, <1>11 DEF leafHash
<1> QED BY <1>1, <1>6, <1>12 DEF idx, i

-----------------------------------------------------------------------------
(* The iterative variant. *)

\* What every table of powers has.
LEMMA PowerFacts ==
    ASSUME NEW n \in Nat, NEW g, IsPower(g, n)
    PROVE  /\ g[0] = 1 /\ \A e \in 1 .. n : g[e] = 2 * g[e - 1]
           /\ \A e \in 0 .. n : g[e] \in Nat /\ g[e] > e
<1>1. \A e \in 0 .. n : g[e] = PowerStep(g, e)
  BY Zenon DEF IsPower
<1>2. g[0] = 1 /\ \A e \in 1 .. n : g[e] = 2 * g[e - 1]
  BY <1>1 DEF PowerStep
<1> DEFINE G == {e \in 0 .. n : g[e] \in Nat /\ g[e] > e}
<1>3. 0 \in G
  BY <1>2
<1>4. ASSUME NEW e \in 1 .. n, e - 1 \in G PROVE e \in G
  BY <1>2, <1>4
<1>5. \A e \in 0 .. n : e \in G
  <2> HIDE DEF G
  <2> QED BY <1>3, <1>4, Induct
<1> QED BY <1>2, <1>5

\* Two tables have the same powers, and a larger power is at least twice a smaller one.
LEMMA PowersAgree ==
    ASSUME NEW m \in Nat, NEW n \in Nat, NEW g, NEW h, IsPower(g, m), IsPower(h, n), m <= n
    PROVE  \A e \in 0 .. m : g[e] = h[e]
<1>1. /\ g[0] = 1 /\ \A e \in 1 .. m : g[e] = 2 * g[e - 1]
      /\ h[0] = 1 /\ \A e \in 1 .. n : h[e] = 2 * h[e - 1]
  BY PowerFacts
<1> DEFINE G == {e \in 0 .. m : g[e] = h[e]}
<1>2. 0 \in G
  BY <1>1
<1>3. ASSUME NEW e \in 1 .. m, e - 1 \in G PROVE e \in G
  <2>1. e \in 1 .. n
    OBVIOUS
  <2> QED BY <1>1, <1>3, <2>1
<1>4. \A e \in 0 .. m : e \in G
  <2> HIDE DEF G
  <2> QED BY <1>2, <1>3, Induct
<1> QED BY <1>4

LEMMA PowersGrow ==
    ASSUME NEW n \in Nat, NEW g, IsPower(g, n), NEW d \in 0 .. n, NEW e \in 0 .. n, d < e
    PROVE  2 * g[d] <= g[e]
<1>1. /\ \A k \in 1 .. n : g[k] = 2 * g[k - 1]
      /\ \A k \in 0 .. n : g[k] \in Nat
  BY PowerFacts
<1> DEFINE G == {k \in 0 .. n : d < k => 2 * g[d] <= g[k]}
<1>2. 0 \in G
  OBVIOUS
<1>3. ASSUME NEW k \in 1 .. n, k - 1 \in G PROVE k \in G
  <2>1. g[k] = 2 * g[k - 1] /\ g[k - 1] \in Nat /\ g[d] \in Nat
    BY <1>1
  <2>2. d < k => d = k - 1 \/ d < k - 1
    OBVIOUS
  <2>3. d < k - 1 => 2 * g[d] <= g[k - 1]
    BY <1>3
  <2>4. d < k => 2 * g[d] <= g[k]
    BY <2>1, <2>2, <2>3
  <2> QED BY <2>4
<1>4. \A k \in 0 .. n : k \in G
  <2> HIDE DEF G
  <2> QED BY <1>2, <1>3, Induct
<1> QED BY <1>4

\* The split point is the only power of 2 between half the length and the length.
LEMMA SplitIs ==
    ASSUME NEW n \in Nat, NEW g, IsPower(g, n), NEW e \in 0 .. n, NEW l \in 1 .. n, g[e] < l, l <= 2 * g[e]
    PROVE  getSplitPoint(l) = g[e]
<1> DEFINE power == CHOOSE h : IsPower(h, l)
           S == {power[d] : d \in 0 .. l}
<1>1. getSplitPoint(l) = CHOOSE k \in S : k < l /\ l <= 2 * k
  BY DEF getSplitPoint, IsPower, PowerStep
<1>2. IsPower(power, l) /\ l \in Nat /\ l <= n
  BY PowerExists
<1> HIDE DEF power
<1>3. \A d \in 0 .. l : power[d] = g[d] /\ d \in 0 .. n
  BY <1>2, PowersAgree
<1>4. g[e] \in Nat /\ g[e] > e
  BY PowerFacts
<1>5. e \in 0 .. l
  BY <1>2, <1>4
<1>6. g[e] \in S
  BY <1>3, <1>5
<1>7. ASSUME NEW k \in S, k < l, l <= 2 * k PROVE k = g[e]
  <2>1. PICK d \in 0 .. l : k = g[d] /\ d \in 0 .. n
    BY <1>3
  <2>2. g[d] \in Nat
    BY <2>1, PowerFacts
  <2>3. CASE d < e
    <3>1. 2 * g[d] <= g[e]
      BY <2>1, <2>3, PowersGrow
    <3> QED BY <1>2, <1>4, <1>7, <2>1, <2>2, <3>1
  <2>4. CASE e < d
    <3>1. 2 * g[e] <= g[d]
      BY <2>1, <2>4, PowersGrow
    <3> QED BY <1>2, <1>4, <1>7, <2>1, <2>2, <3>1
  <2>5. CASE d = e
    BY <2>1, <2>5
  <2> QED BY <1>2, <2>1, <2>3, <2>4, <2>5
<1> HIDE DEF S
<1> QED BY <1>1, <1>6, <1>7

\* The rounds.
RoundStep(g, k, items) == IF k = 0 THEN [n \in DOMAIN items |-> leafHash(items[n])] ELSE Collapse(g[k - 1])
AreRounds(g, m, items) == g = [k \in 0 .. m |-> RoundStep(g, k, items)]

LEMMA RoundsExist == ASSUME NEW m \in Nat, NEW items PROVE \E g : AreRounds(g, m, items)
<1> DEFINE G == {k \in 0 .. m : \E g : AreRounds(g, k, items)}
<1>1. 0 \in G
  <2> DEFINE first == [n \in DOMAIN items |-> leafHash(items[n])]
             g == [e \in 0 .. 0 |-> first]
  <2>1. \A e \in 0 .. 0 : RoundStep(g, e, items) = first
    BY DEF RoundStep
  <2> HIDE DEF first
  <2>2. g = [e \in 0 .. 0 |-> RoundStep(g, e, items)]
    BY <2>1, Zenon
  <2> QED BY <2>2 DEF AreRounds
<1>2. ASSUME NEW k \in 1 .. m, k - 1 \in G PROVE k \in G
  <2>1. PICK g : AreRounds(g, k - 1, items)
    BY <1>2
  <2>2. \A e \in 0 .. (k - 1) : g[e] = RoundStep(g, e, items)
    BY <2>1, Zenon DEF AreRounds
  <2> DEFINE h == [e \in 0 .. k |-> IF e = k THEN Collapse(g[k - 1]) ELSE g[e]]
  <2>3. ASSUME NEW e \in 0 .. k PROVE h[e] = RoundStep(h, e, items)
    <3>1. CASE e = k
      <4>1. h[e] = Collapse(g[k - 1]) /\ k - 1 \in 0 .. k /\ k - 1 # k /\ e # 0
        BY <3>1
      <4>2. h[k - 1] = g[k - 1]
        BY <4>1
      <4> QED BY <3>1, <4>1, <4>2 DEF RoundStep
    <3>2. CASE e # k
      <4>1. e \in 0 .. (k - 1) /\ h[e] = g[e]
        BY <3>2
      <4>2. e # 0 => e - 1 \in 0 .. k /\ e - 1 # k
        BY <4>1
      <4>3. e # 0 => h[e - 1] = g[e - 1]
        BY <4>2
      <4> HIDE DEF h
      <4> QED BY <2>2, <4>1, <4>3 DEF RoundStep
    <3> QED BY <3>1, <3>2
  <2>4. h = [e \in 0 .. k |-> h[e]]
    OBVIOUS
  <2> HIDE DEF h
  <2>5. h = [e \in 0 .. k |-> RoundStep(h, e, items)]
    BY <2>3, <2>4, Zenon
  <2> QED BY <2>5 DEF AreRounds
<1> HIDE DEF G
<1>3. \A k \in 0 .. m : k \in G
  BY <1>1, <1>2, Induct
<1> QED BY <1>3 DEF G

\* The q-th run of p items, or what there is of it.
Piece(q, p, n) == <<(q - 1) * p + 1, IF q * p > n THEN n ELSE q * p>>

\* The hashes are those of the runs of p items.
Covers(hashes, p, items) ==
    /\ Len(hashes) \in Nat /\ Len(hashes) >= 1
    /\ (Len(hashes) - 1) * p < Len(items) /\ Len(items) <= Len(hashes) * p
    /\ \A q \in 1 .. Len(hashes) : hashes[q] = HashOfRun(items)[Piece(q, p, Len(items))]

\* Two neighbours are the halves of a run of twice as many items, as getSplitPoint cuts it.
LEMMA Neighbours ==
    ASSUME NEW items, Len(items) \in Nat, NEW g, IsPower(g, Len(items)), NEW e \in 0 .. Len(items),
           NEW q \in Nat \ {0}, (2 * q - 1) * g[e] < Len(items)
    PROVE  HashOfRun(items)[Piece(q, 2 * g[e], Len(items))] =
             innerHash(HashOfRun(items)[Piece(2 * q - 1, g[e], Len(items))], HashOfRun(items)[Piece(2 * q, g[e], Len(items))])
<1> DEFINE n == Len(items)
           H == HashOfRun(items)
           p == g[e]
           c == (2 * q - 1) * p
           z == IF c + p > n THEN n ELSE c + p
           r == <<c - p + 1, z>>
<1>1. p \in Nat /\ p > 0 /\ n \in Nat
  BY PowerFacts
<1>2. IsPower(g, n) /\ e \in 0 .. n /\ q \in Nat \ {0}
  OBVIOUS
<1> HIDE DEF p, n
<1>3. /\ c \in Nat /\ c >= p /\ c < n
      /\ ((2 * q - 1) - 1) * p = c - p /\ (2 * q) * p = c + p /\ (q - 1) * (2 * p) = c - p /\ q * (2 * p) = c + p
  <2>1. c \in Nat /\ c >= p
    <3>1. q - 1 \in Nat
      BY <1>2
    <3>2. (q - 1) * p \in Nat
      BY <1>1, <3>1
    <3>3. c = 2 * ((q - 1) * p) + p
      BY <1>1, <1>2
    <3> QED BY <1>1, <3>2, <3>3
  <2>2. c < n
    BY DEF p, n
  <2>3. ((2 * q - 1) - 1) * p = c - p
    BY <1>1, <1>2
  <2>4. (2 * q) * p = c + p
    BY <1>1, <1>2
  <2>5. (q - 1) * (2 * p) = c - p
    BY <1>1, <1>2
  <2>6. q * (2 * p) = c + p
    BY <1>1, <1>2
  <2> QED BY <2>1, <2>2, <2>3, <2>4, <2>5, <2>6
<1> HIDE DEF c
<1>4. Piece(q, 2 * p, n) = r
  BY <1>3 DEF Piece
<1>5. Piece(2 * q - 1, p, n) = <<c - p + 1, c>>
  <2>1. ~(c > n)
    BY <1>1, <1>3
  <2>2. (2 * q - 1) * p = c
    BY DEF c
  <2> QED BY <1>3, <2>1, <2>2 DEF Piece
<1>6. Piece(2 * q, p, n) = <<c + 1, z>>
  <2>1. (2 * q - 1) * p = c
    BY DEF c
  <2> QED BY <1>3, <2>1 DEF Piece
<1>7. z \in Nat /\ c < z /\ z <= n /\ z <= c + p
  BY <1>1, <1>3
<1> HIDE DEF z
<1>8. r \in Runs(n) /\ r[1] = c - p + 1 /\ r[2] = z /\ r[1] # r[2]
  BY <1>1, <1>3, <1>7 DEF Runs
<1> DEFINE l == r[2] - r[1] + 1
<1>9. l \in 1 .. n /\ p < l /\ l <= 2 * p
  BY <1>1, <1>3, <1>7, <1>8
<1> HIDE DEF l
<1>10. getSplitPoint(l) = p
  BY <1>1, <1>2, <1>9, SplitIs DEF p
<1>11. Mid(r) = c
  <2>1. Mid(r) = r[1] + p - 1
    BY <1>10 DEF Mid, l
  <2> QED BY <1>1, <1>3, <1>8, <2>1
<1> HIDE DEF r
<1>12. H[r] = innerHash(H[<<r[1], Mid(r)>>], H[<<Mid(r) + 1, r[2]>>])
  <2>1. H[r] = IF r[1] = r[2] THEN leafHash(items[r[1]]) ELSE innerHash(H[<<r[1], Mid(r)>>], H[<<Mid(r) + 1, r[2]>>])
    BY <1>8, HashTable, Zenon DEF n
  <2> QED BY <1>8, <2>1
<1>13. H[r] = innerHash(H[<<c - p + 1, c>>], H[<<c + 1, z>>])
  BY <1>8, <1>11, <1>12
<1> HIDE DEF H
<1>14. H[Piece(q, 2 * p, n)] = innerHash(H[Piece(2 * q - 1, p, n)], H[Piece(2 * q, p, n)])
  BY <1>4, <1>5, <1>6, <1>13
<1> QED BY <1>14 DEF H, p, n

\* A round doubles the runs.
LEMMA CollapseCovers ==
    ASSUME NEW items, Len(items) \in Nat, NEW g, IsPower(g, Len(items)), NEW e \in 0 .. Len(items),
           NEW hashes, Covers(hashes, g[e], items)
    PROVE  Covers(Collapse(hashes), 2 * g[e], items)
<1> DEFINE n == Len(items)
           H == HashOfRun(items)
           p == g[e]
           L == Len(hashes)
           K == (L + 1) \div 2
           C == Collapse(hashes)
<1>1. p \in Nat \ {0} /\ n \in Nat
  BY PowerFacts
<1>2. /\ L \in Nat /\ L >= 1 /\ (L - 1) * p < n /\ n <= L * p
      /\ \A q \in 1 .. L : hashes[q] = H[Piece(q, p, n)]
  BY DEF Covers
<1>3. K \in Nat /\ K >= 1 /\ 2 * K - 1 <= L /\ L <= 2 * K
  BY <1>2
<1>4. C = [q \in 1 .. K |-> IF 2 * q <= L THEN innerHash(hashes[2 * q - 1], hashes[2 * q]) ELSE hashes[2 * q - 1]]
  BY DEF Collapse
<1>5. ASSUME NEW q \in Nat \ {0}, 2 * q <= L
      PROVE  H[Piece(q, 2 * p, n)] = innerHash(H[Piece(2 * q - 1, p, n)], H[Piece(2 * q, p, n)])
  <2>1. (2 * q - 1) * p < n
    <3>1. p * (2 * q - 1) <= p * (L - 1)
      <4>1. 2 * q - 1 \in Int /\ L - 1 \in Int /\ 2 * q - 1 <= L - 1
        BY <1>2, <1>5
      <4> HIDE DEF p, L
      <4> QED BY <1>1, <4>1, TimesMonotone
    <3>2. p * (2 * q - 1) = (2 * q - 1) * p /\ p * (L - 1) = (L - 1) * p /\ (2 * q - 1) * p \in Int /\ (L - 1) * p \in Int
      <4> HIDE DEF p, L
      <4> QED BY <1>1, <1>2
    <3> HIDE DEF p, L, n
    <3> QED BY <1>1, <1>2, <3>1, <3>2
  <2> QED BY <2>1, Neighbours
<1> HIDE DEF n, H, p, L, K, C
<1>6. Len(C) = K
  BY <1>3, <1>4
<1>7. (K - 1) * (2 * p) < n
  <2>1. p * (2 * K - 2) <= p * (L - 1)
    BY <1>1, <1>2, <1>3, TimesMonotone
  <2>2. p * (2 * K - 2) = (K - 1) * (2 * p) /\ p * (L - 1) = (L - 1) * p /\ (K - 1) * (2 * p) \in Int /\ (L - 1) * p \in Int
    BY <1>1, <1>2, <1>3
  <2> QED BY <1>1, <1>2, <2>1, <2>2
<1>8. n <= K * (2 * p)
  <2>1. p * L <= p * (2 * K)
    BY <1>1, <1>2, <1>3, TimesMonotone
  <2>2. p * (2 * K) = K * (2 * p) /\ p * L = L * p /\ K * (2 * p) \in Int /\ L * p \in Int
    BY <1>1, <1>2, <1>3
  <2> QED BY <1>1, <1>2, <2>1, <2>2
<1>9. ASSUME NEW q \in 1 .. K PROVE C[q] = H[Piece(q, 2 * p, n)]
  <2>1. q \in Nat \ {0} /\ q <= K /\ 2 * q - 1 \in 1 .. L
    <3>1. L \in Nat
      BY <1>2
    <3> QED BY <1>3, <3>1
  <2>2. C[q] = IF 2 * q <= L THEN innerHash(hashes[2 * q - 1], hashes[2 * q]) ELSE hashes[2 * q - 1]
    BY <1>4
  <2>3. CASE 2 * q <= L
    <3>1. 2 * q \in 1 .. L
      BY <1>2, <2>1, <2>3
    <3>2. hashes[2 * q - 1] = H[Piece(2 * q - 1, p, n)] /\ hashes[2 * q] = H[Piece(2 * q, p, n)]
      BY <1>2, <2>1, <3>1
    <3>3. H[Piece(q, 2 * p, n)] = innerHash(H[Piece(2 * q - 1, p, n)], H[Piece(2 * q, p, n)])
      BY <1>5, <2>1, <2>3
    <3> QED BY <2>2, <2>3, <3>2, <3>3
  <2>4. CASE ~(2 * q <= L)
    <3>1. 2 * q - 1 = L
      BY <1>2, <2>1, <2>4
    <3>2. C[q] = H[Piece(2 * q - 1, p, n)]
      BY <1>2, <2>1, <2>2, <2>4
    <3>3. Piece(2 * q - 1, p, n) = Piece(q, 2 * p, n)
      <4> DEFINE c == (2 * q - 1) * p
      <4>1. ((2 * q - 1) - 1) * p = (q - 1) * (2 * p) /\ q * (2 * p) = c + p /\ c \in Int /\ n <= c
        BY <1>1, <1>2, <2>1, <3>1
      <4>2. (IF c > n THEN n ELSE c) = n /\ (IF q * (2 * p) > n THEN n ELSE q * (2 * p)) = n
        <5> HIDE DEF c
        <5> QED BY <1>1, <4>1
      <4> QED BY <4>1, <4>2 DEF Piece
    <3> QED BY <3>2, <3>3
  <2> QED BY <2>3, <2>4
<1>10. Covers(C, 2 * p, items)
  BY <1>3, <1>6, <1>7, <1>8, <1>9 DEF Covers, n, H
<1> QED BY <1>10 DEF C, p

(* The two algorithms of crypto/merkle compute the same root: joining neighbours round after round, where
   a last one alone is kept, and cutting at the largest power of 2 below the length. *)
THEOREM IterativeAgrees ==
    ASSUME NEW S, NEW items \in Seq(S)
    PROVE  HashFromByteSlicesIterative(items) = HashFromByteSlices(items)
<1>1. CASE items = <<>>
  BY <1>1 DEF HashFromByteSlicesIterative, HashFromByteSlices
<1>2. CASE items # <<>>
  <2> DEFINE n == Len(items)
             t == CHOOSE h : AreRounds(h, n, items)
  <2>1. n \in Nat /\ n >= 1 /\ DOMAIN items = 1 .. n
    BY <1>2
  <2>2. HashFromByteSlicesIterative(items) = t[n][1]
    BY <1>2 DEF HashFromByteSlicesIterative, AreRounds, RoundStep
  <2>3. AreRounds(t, n, items)
    <3> HIDE DEF n
    <3> QED BY <2>1, RoundsExist
  <2> HIDE DEF t
  <2>4. \A k \in 0 .. n : t[k] = RoundStep(t, k, items)
    BY <2>3, Zenon DEF AreRounds
  <2>5. PICK g : IsPower(g, n)
    BY <2>1, PowerExists
  <2>6. /\ g[0] = 1 /\ \A e \in 1 .. n : g[e] = 2 * g[e - 1]
        /\ \A e \in 0 .. n : g[e] \in Nat /\ g[e] > e
    BY <2>1, <2>5, PowerFacts
  <2> DEFINE G == {k \in 0 .. n : Covers(t[k], g[k], items)}
  <2>7. 0 \in G
    <3>1. t[0] = [k \in 1 .. n |-> leafHash(items[k])]
      BY <2>1, <2>4 DEF RoundStep
    <3>2. Len(t[0]) = n /\ \A q \in 1 .. n : t[0][q] = leafHash(items[q])
      BY <2>1, <3>1
    <3>3. ASSUME NEW q \in 1 .. n PROVE leafHash(items[q]) = HashOfRun(items)[Piece(q, 1, n)]
      <4>1. Piece(q, 1, n) = <<q, q>>
        <5>1. (q - 1) * 1 + 1 = q /\ q * 1 = q /\ ~(q > n)
          BY <2>1
        <5> QED BY <5>1 DEF Piece
      <4>2. <<q, q>> \in Runs(n)
        BY <2>1 DEF Runs
      <4>3. HashOfRun(items)[<<q, q>>] = leafHash(items[q])
        <5> DEFINE w == <<q, q>>
        <5>1. w \in Runs(n) /\ w[1] = q /\ w[2] = q
          BY <4>2
        <5> HIDE DEF w
        <5>2. HashOfRun(items)[w] =
                IF w[1] = w[2] THEN leafHash(items[w[1]])
                ELSE innerHash(HashOfRun(items)[<<w[1], Mid(w)>>], HashOfRun(items)[<<Mid(w) + 1, w[2]>>])
          BY <2>1, <5>1, HashTable, Zenon
        <5>3. HashOfRun(items)[w] = leafHash(items[q])
          BY <5>1, <5>2
        <5> QED BY <5>3 DEF w
      <4> QED BY <4>1, <4>3
    <3>4. Covers(t[0], 1, items)
      BY <2>1, <3>2, <3>3 DEF Covers
    <3> QED BY <2>1, <2>6, <3>4
  <2>8. ASSUME NEW k \in 1 .. n, k - 1 \in G PROVE k \in G
    <3>1. k - 1 \in 0 .. n /\ Covers(t[k - 1], g[k - 1], items) /\ k \in 0 .. n /\ k # 0
      BY <2>1, <2>8
    <3>2. t[k] = Collapse(t[k - 1])
      BY <2>4, <3>1 DEF RoundStep
    <3>3. Covers(Collapse(t[k - 1]), 2 * g[k - 1], items)
      BY <2>1, <2>5, <3>1, CollapseCovers
    <3> QED BY <2>6, <3>1, <3>2, <3>3
  <2>9. Covers(t[n], g[n], items)
    <3>1. \A k \in 0 .. n : k \in G
      <4> HIDE DEF G
      <4> QED BY <2>1, <2>7, <2>8, Induct
    <3> QED BY <2>1, <3>1
  <2> DEFINE L == Len(t[n])
             p == g[n]
  <2>10. /\ L \in Nat /\ L >= 1 /\ (L - 1) * p < n
         /\ t[n][1] = HashOfRun(items)[Piece(1, p, n)]
    BY <2>9 DEF Covers
  <2>11. p \in Nat /\ p > n
    BY <2>1, <2>6
  <2>12. Piece(1, p, n) = <<1, n>>
    <3> HIDE DEF p
    <3>1. (1 - 1) * p + 1 = 1 /\ 1 * p = p
      BY <2>11
    <3> QED BY <2>11, <3>1 DEF Piece
  <2>13. HashFromByteSlices(items) = HashOfRun(items)[<<1, n>>]
    BY <1>2 DEF HashFromByteSlices
  <2> QED BY <2>2, <2>10, <2>12, <2>13
<1> QED BY <1>1, <1>2

\* Two runs with the same items.
SameRun(a, b, r, q) == /\ r[2] - r[1] = q[2] - q[1]
                       /\ \A i \in 0 .. (r[2] - r[1]) : a[r[1] + i] = b[q[1] + i]

\* Runs with the same hash have the same items, so as many.
LEMMA RunInjective ==
    ASSUME NEW a, Len(a) \in Nat, NEW b, Len(b) \in Nat
    PROVE  \A r \in Runs(Len(a)), q \in Runs(Len(b)) : HashOfRun(a)[r] = HashOfRun(b)[q] => SameRun(a, b, r, q)
<1> DEFINE n == Len(a)
           m == Len(b)
           H == HashOfRun(a)
           K == HashOfRun(b)
           G == {k \in 0 .. n : \A r \in Short(n, k), q \in Runs(m) : H[r] = K[q] => SameRun(a, b, r, q)}
<1>1. n \in Nat /\ m \in Nat
  OBVIOUS
<1>2. \A r \in Runs(n) : H[r] = IF r[1] = r[2] THEN leafHash(a[r[1]]) ELSE innerHash(H[Lower(r)], H[Upper(r)])
  BY HashTable, Zenon DEF Lower, Upper
<1>3. \A q \in Runs(m) : K[q] = IF q[1] = q[2] THEN leafHash(b[q[1]]) ELSE innerHash(K[Lower(q)], K[Upper(q)])
  BY HashTable, Zenon DEF Lower, Upper
<1> HIDE DEF n, m, H, K
<1>4. 0 \in G
  <2> SUFFICES ASSUME NEW r \in Short(n, 0) PROVE FALSE
    BY <1>1
  <2> QED BY <1>1, NoShort
<1>5. ASSUME NEW k \in 1 .. n, k - 1 \in G PROVE k \in G
  <2> SUFFICES ASSUME NEW r \in Short(n, k), NEW q \in Runs(m), H[r] = K[q] PROVE SameRun(a, b, r, q)
    BY <1>1
  <2>1. r \in Runs(n) /\ r[2] - r[1] < k
    BY <1>1, ShortIs
  <2>2. /\ r[1] \in Int /\ r[2] \in Int /\ r[1] <= r[2]
        /\ q[1] \in Int /\ q[2] \in Int /\ q[1] <= q[2]
    BY <1>1, <2>1, RunEnds
  <2>3. ASSUME NEW p \in Short(n, r[2] - r[1]), NEW s \in Runs(m), H[p] = K[s] PROVE SameRun(a, b, p, s)
    <3>1. p \in Runs(n) /\ p \in Short(n, k - 1)
      BY <1>1, ShorterRuns
    <3> QED BY <1>5, <2>3, <3>1
  <2>4. \A u, v, w : leafHash(u) # innerHash(v, w)
    BY DEF leafHash, innerHash
  <2>5. CASE r[1] = r[2]
    <3>1. K[q] = leafHash(a[r[1]])
      BY <1>2, <2>1, <2>5
    <3>2. q[1] = q[2]
      BY <1>3, <2>4, <3>1
    <3>3. leafHash(a[r[1]]) = leafHash(b[q[1]])
      BY <1>3, <3>1, <3>2
    <3>4. a[r[1]] = b[q[1]]
      BY <3>3 DEF leafHash
    <3>5. r[2] - r[1] = q[2] - q[1] /\ r[2] - r[1] = 0 /\ r[1] + 0 = r[1] /\ q[1] + 0 = q[1]
      BY <2>2, <2>5, <3>2
    <3>6. \A i \in 0 .. 0 : a[r[1] + i] = b[q[1] + i]
      BY <3>4, <3>5
    <3> QED BY <3>5, <3>6 DEF SameRun
  <2>6. CASE r[1] # r[2]
    <3>1. K[q] = innerHash(H[Lower(r)], H[Upper(r)])
      BY <1>2, <2>1, <2>6
    <3>2. q[1] # q[2]
      BY <1>3, <2>4, <3>1
    <3>3. innerHash(H[Lower(r)], H[Upper(r)]) = innerHash(K[Lower(q)], K[Upper(q)])
      BY <1>3, <3>1, <3>2
    <3>4. H[Lower(r)] = K[Lower(q)] /\ H[Upper(r)] = K[Upper(q)]
      BY <3>3 DEF innerHash
    <3>5. Lower(r) \in Short(n, r[2] - r[1]) /\ Upper(r) \in Short(n, r[2] - r[1]) /\ Mid(r) \in r[1] .. (r[2] - 1)
      BY <1>1, <2>1, <2>6, Halves DEF Lower, Upper
    <3>6. Lower(q) \in Runs(m) /\ Upper(q) \in Runs(m) /\ Mid(q) \in q[1] .. (q[2] - 1)
      <4>1. /\ Lower(q) \in Short(m, q[2] - q[1]) /\ Upper(q) \in Short(m, q[2] - q[1])
            /\ Mid(q) \in q[1] .. (q[2] - 1)
        BY <1>1, <3>2, Halves DEF Lower, Upper
      <4>2. q[2] - q[1] \in Int
        BY <2>2
      <4> QED BY <1>1, <4>1, <4>2, ShortIs
    <3>7. SameRun(a, b, Lower(r), Lower(q)) /\ SameRun(a, b, Upper(r), Upper(q))
      BY <2>3, <3>4, <3>5, <3>6
    <3> DEFINE x == Mid(r)
               y == Mid(q)
               r1 == r[1]
               r2 == r[2]
               q1 == q[1]
               q2 == q[2]
    <3>8. /\ x - r1 = y - q1 /\ \A i \in 0 .. (x - r1) : a[r1 + i] = b[q1 + i]
          /\ r2 - (x + 1) = q2 - (y + 1) /\ \A i \in 0 .. (r2 - (x + 1)) : a[x + 1 + i] = b[y + 1 + i]
      BY <3>7 DEF SameRun, Lower, Upper
    <3>9. x \in r1 .. (r2 - 1) /\ y \in q1 .. (q2 - 1) /\ r1 \in Int /\ r2 \in Int /\ q1 \in Int /\ q2 \in Int
      BY <2>2, <3>5, <3>6
    <3> HIDE DEF x, y, r1, r2, q1, q2
    <3>10. r2 - r1 = q2 - q1
      BY <3>8, <3>9
    <3>11. ASSUME NEW i \in 0 .. (r2 - r1) PROVE a[r1 + i] = b[q1 + i]
      <4>1. CASE i <= x - r1
        <5>1. i \in 0 .. (x - r1)
          BY <3>9, <4>1
        <5> QED BY <3>8, <5>1
      <4>2. CASE i > x - r1
        <5> DEFINE j == i - (x - r1) - 1
        <5>1. j \in 0 .. (r2 - (x + 1)) /\ x + 1 + j = r1 + i /\ y + 1 + j = q1 + i
          BY <3>8, <3>9, <3>10, <4>2
        <5> HIDE DEF j
        <5>2. a[x + 1 + j] = b[y + 1 + j]
          BY <3>8, <5>1
        <5> QED BY <5>1, <5>2
      <4>3. i <= x - r1 \/ i > x - r1
        BY <3>9
      <4> QED BY <4>1, <4>2, <4>3, Zenon
    <3> QED BY <3>10, <3>11 DEF SameRun, r1, r2, q1, q2
  <2> QED BY <2>5, <2>6
<1>6. \A k \in 0 .. n : k \in G
  <2> HIDE DEF G
  <2> QED BY <1>1, <1>4, <1>5, Induct
<1>7. ASSUME NEW r \in Runs(n), NEW q \in Runs(m), H[r] = K[q] PROVE SameRun(a, b, r, q)
  <2>1. r[1] \in Int /\ r[2] \in Int /\ 1 <= r[1] /\ r[2] <= n
    BY <1>1, RunEnds
  <2>2. r \in Short(n, n) /\ n \in G
    BY <1>1, <1>6, <2>1, ShortIs
  <2> QED BY <1>7, <2>2
<1> QED BY <1>7 DEF n, m, H, K

(* HashFromByteSlices tells all lists apart: which items there are, in which order and how many. *)
THEOREM HashInjective ==
    ASSUME NEW a, IsList(a), NEW b, IsList(b), HashFromByteSlices(a) = HashFromByteSlices(b)
    PROVE  a = b
<1>1. /\ Len(a) \in Nat /\ a = [i \in 1 .. Len(a) |-> a[i]]
      /\ Len(b) \in Nat /\ b = [i \in 1 .. Len(b) |-> b[i]]
  BY DEF IsList
<1>2. ASSUME NEW c, Len(c) \in Nat, c = [i \in 1 .. Len(c) |-> c[i]], c # <<>>
      PROVE  /\ 1 \in 1 .. Len(c) /\ <<1, Len(c)>> \in Runs(Len(c))
             /\ HashFromByteSlices(c) = HashOfRun(c)[<<1, Len(c)>>] /\ HashFromByteSlices(c) # emptyHash
  <2>1. Len(c) # 0
    <3>1. ASSUME Len(c) = 0 PROVE c = <<>>
      <4>1. 1 .. Len(c) = {}
        BY <3>1
      <4>2. c = [i \in {} |-> c[i]]
        BY <1>2, <4>1
      <4> QED BY <4>2
    <3> QED BY <1>2, <3>1
  <2>2. 1 \in 1 .. Len(c)
    BY <1>2, <2>1
  <2>3. <<1, Len(c)>> \in Runs(Len(c)) /\ HashFromByteSlices(c) = HashOfRun(c)[<<1, Len(c)>>]
    BY <1>2, <2>2, WholeRun
  <2> DEFINE r == <<1, Len(c)>>
             u == HashOfRun(c)[<<r[1], Mid(r)>>]
             v == HashOfRun(c)[<<Mid(r) + 1, r[2]>>]
  <2>4. HashOfRun(c)[r] = IF r[1] = r[2] THEN leafHash(c[r[1]]) ELSE innerHash(u, v)
    <3>1. \A p \in Runs(Len(c)) : HashOfRun(c)[p] = IF p[1] = p[2] THEN leafHash(c[p[1]])
            ELSE innerHash(HashOfRun(c)[<<p[1], Mid(p)>>], HashOfRun(c)[<<Mid(p) + 1, p[2]>>])
      BY <1>2, HashTable, Zenon
    <3>2. r \in Runs(Len(c))
      BY <2>3
    <3> HIDE DEF r
    <3> QED BY <3>1, <3>2
  <2> HIDE DEF u, v
  <2>5. leafHash(c[r[1]]) # emptyHash /\ innerHash(u, v) # emptyHash
    <3> HIDE DEF r
    <3> QED BY DEF leafHash, innerHash, emptyHash
  <2>6. HashOfRun(c)[r] # emptyHash
    <3> HIDE DEF r
    <3> QED BY <2>4, <2>5
  <2> QED BY <2>2, <2>3, <2>6
<1>3. HashFromByteSlices(<<>>) = emptyHash
  BY DEF HashFromByteSlices
<1>4. CASE a = <<>>
  <2>1. HashFromByteSlices(b) = emptyHash
    BY <1>3, <1>4
  <2> QED BY <1>1, <1>2, <1>4, <2>1
<1>5. CASE a # <<>>
  <2>1. /\ 1 \in 1 .. Len(a) /\ <<1, Len(a)>> \in Runs(Len(a))
        /\ HashFromByteSlices(a) = HashOfRun(a)[<<1, Len(a)>>] /\ HashFromByteSlices(a) # emptyHash
    BY <1>1, <1>2, <1>5
  <2>2. b # <<>>
    BY <1>3, <2>1
  <2>3. /\ 1 \in 1 .. Len(b) /\ <<1, Len(b)>> \in Runs(Len(b))
        /\ HashFromByteSlices(b) = HashOfRun(b)[<<1, Len(b)>>]
    BY <1>1, <1>2, <2>2
  <2> DEFINE r == <<1, Len(a)>>
             q == <<1, Len(b)>>
  <2>4. SameRun(a, b, r, q)
    <3>1. r \in Runs(Len(a)) /\ q \in Runs(Len(b)) /\ HashOfRun(a)[r] = HashOfRun(b)[q]
      BY <2>1, <2>3
    <3> HIDE DEF r, q
    <3> QED BY <1>1, <3>1, RunInjective
  <2>5. Len(a) - 1 = Len(b) - 1 /\ \A i \in 0 .. (Len(a) - 1) : a[1 + i] = b[1 + i]
    <3>1. r[1] = 1 /\ r[2] = Len(a) /\ q[1] = 1 /\ q[2] = Len(b)
      OBVIOUS
    <3> HIDE DEF r, q
    <3> QED BY <2>4, <3>1 DEF SameRun
  <2>6. Len(a) = Len(b)
    <3> DEFINE x == Len(a)
               y == Len(b)
    <3>1. x \in Nat /\ y \in Nat /\ x - 1 = y - 1
      BY <1>1, <2>5
    <3> HIDE DEF x, y
    <3>2. x = y
      BY <3>1
    <3> QED BY <3>2 DEF x, y
  <2>7. ASSUME NEW i \in 1 .. Len(a) PROVE a[i] = b[i]
    <3>1. i - 1 \in 0 .. (Len(a) - 1) /\ 1 + (i - 1) = i
      BY <1>1
    <3> QED BY <2>5, <3>1
  <2> QED BY <1>1, <2>6, <2>7
<1> QED BY <1>4, <1>5

(***************************************************************************)
(* A block over the wire: what fillInHeader, BlockToProto and              *)
(* NewBlockFromProto leave of the block that make_block makes.             *)
(***************************************************************************)

\* What a certificate becomes on the wire is turned back.
LEMMA VoteRoundTrip ==
    ASSUME NEW v, IsAggVote(v)
    PROVE  NewAggVoteFromProto(AggVoteToProto(v)) = v
<1> DEFINE bv == v.SignerIndexer
<1>1. bv = [Bits |-> bv.Bits, Elems |-> bv.Elems] /\ bv.Bits \in Int /\ Len(bv.Elems) \in Int
  BY DEF IsAggVote
<1>2. v = [Code |-> v.Code, View |-> v.View, Round |-> v.Round, ForHash |-> v.ForHash,
           ForNecessaryData |-> v.ForNecessaryData, Sign |-> v.Sign, SignerIndexer |-> bv]
  BY DEF IsAggVote
<1> HIDE DEF bv
<1>3. NewBitArrayFromByte(Byte(bv)) = bv
  <2>1. Byte(bv) = [useless |-> ByteBits * Len(bv.Elems) - bv.Bits, elems |-> bv.Elems]
    BY DEF Byte
  <2>2. NewBitArrayFromByte(Byte(bv)) =
           [Bits |-> Len(bv.Elems) * ByteBits - (ByteBits * Len(bv.Elems) - bv.Bits), Elems |-> bv.Elems]
    BY <2>1 DEF NewBitArrayFromByte
  <2> DEFINE len == Len(bv.Elems)
             bits == bv.Bits
  <2>3. len * ByteBits - (ByteBits * len - bits) = bits
    <3>1. len \in Int /\ bits \in Int /\ ByteBits \in Int
      BY <1>1, ByteAssumption
    <3> HIDE DEF len, bits
    <3> QED BY <3>1
  <2> QED BY <1>1, <2>2, <2>3
<1>4. AggVoteToProto(v) = [Code |-> v.Code, View |-> v.View, Round |-> v.Round, ForHash |-> v.ForHash,
                           ForNecessaryData |-> v.ForNecessaryData, Sign |-> v.Sign, SignerIndexer |-> Byte(bv)]
  BY <1>2 DEF AggVoteToProto
<1>5. NewAggVoteFromProto(AggVoteToProto(v)) =
         [Code |-> v.Code, View |-> v.View, Round |-> v.Round, ForHash |-> v.ForHash,
          ForNecessaryData |-> v.ForNecessaryData, Sign |-> v.Sign, SignerIndexer |-> NewBitArrayFromByte(Byte(bv))]
  BY <1>4 DEF NewAggVoteFromProto
<1> QED BY <1>2, <1>3, <1>5

\* Votes and intentions, as the lists of at most one that a block has.
VoteList(vs) == Len(vs) \in Nat /\ vs = [n \in 1 .. Len(vs) |-> vs[n]] /\ \A n \in 1 .. Len(vs) : IsAggVote(vs[n])
IsIntention(ci) ==
    /\ ci = [AggregatedSignatures |-> ci.AggregatedSignatures, IntentionHash |-> ci.IntentionHash]
    /\ VoteList(ci.AggregatedSignatures)

LEMMA VotesRoundTrip ==
    ASSUME NEW vs, VoteList(vs)
    PROVE  LET p == [n \in DOMAIN vs |-> AggVoteToProto(vs[n])]
           IN  [n \in DOMAIN p |-> NewAggVoteFromProto(p[n])] = vs
<1> DEFINE p == [n \in DOMAIN vs |-> AggVoteToProto(vs[n])]
<1>1. DOMAIN vs = 1 .. Len(vs) /\ vs = [n \in 1 .. Len(vs) |-> vs[n]]
  BY DEF VoteList
<1>2. \A n \in 1 .. Len(vs) : NewAggVoteFromProto(p[n]) = vs[n]
  BY <1>1, VoteRoundTrip DEF VoteList
<1>3. DOMAIN p = 1 .. Len(vs)
  BY <1>1
<1> HIDE DEF p
<1>4. [n \in DOMAIN p |-> NewAggVoteFromProto(p[n])] = [n \in 1 .. Len(vs) |-> vs[n]]
  BY <1>2, <1>3
<1> QED BY <1>1, <1>4 DEF p

LEMMA IntentionRoundTrip ==
    ASSUME NEW ci, IsIntention(ci)
    PROVE  NewCIFromProto(CIToProto(ci)) = ci
<1> DEFINE vs == ci.AggregatedSignatures
           p == [n \in DOMAIN vs |-> AggVoteToProto(vs[n])]
<1>1. ci = [AggregatedSignatures |-> vs, IntentionHash |-> ci.IntentionHash]
  BY DEF IsIntention
<1>2. CIToProto(ci) = [AggregatedSignatures |-> p, IntentionHash |-> ci.IntentionHash]
  <2> HIDE DEF vs
  <2> QED BY <1>1 DEF CIToProto
<1>3. NewCIFromProto(CIToProto(ci)) = [AggregatedSignatures |-> [n \in DOMAIN p |-> NewAggVoteFromProto(p[n])],
                                       IntentionHash |-> ci.IntentionHash]
  <2> HIDE DEF p
  <2> QED BY <1>2 DEF NewCIFromProto
<1>4. [n \in DOMAIN p |-> NewAggVoteFromProto(p[n])] = vs
  BY VotesRoundTrip DEF IsIntention
<1> QED BY <1>1, <1>3, <1>4

\* A header with the roots z, and the roots that fillInHeader leaves in the header of b.
HeaderOf(m, time, z) ==
    [HashPointer |-> m.last, ChainID |-> m.chain, View |-> m.view, Round |-> 0, Time |-> time,
     PrepareRoot |-> z.prepare, CrossShardRoot |-> z.cross, OutputTxsRoot |-> z.outputs, LastAggSigRoot |-> z.votes,
     CommitIntentionRoot |-> z.intention, CommitCertificateRoot |-> z.certificate, CommitTxsListRoot |-> z.txs,
     StateRoot |-> <<>>]
Roots(b, z) ==
    [prepare |-> Fill(z.prepare, b.PTXS # <<>>, TxsHash(b.PTXS[1])),
     cross |-> Fill(z.cross, b.CrossShardTxs # <<>>, TxsHash(b.CrossShardTxs[1])),
     outputs |-> Fill(z.outputs, TRUE, HashFromByteSlices(b.OPT)),
     votes |-> Fill(z.votes, b.AggSigVote # <<>>, AggVoteHash(b.AggSigVote[1])),
     intention |-> Fill(z.intention, b.CI # <<>>, CommitIntentionHash(b.CI[1])),
     certificate |-> Fill(z.certificate, TRUE, CommitCertificateHash(b.CC)),
     txs |-> Fill(z.txs, TRUE, CommitTxsListRoot(b))]
NoRoots == [prepare |-> <<>>, cross |-> <<>>, outputs |-> <<>>, votes |-> <<>>, intention |-> <<>>,
            certificate |-> <<>>, txs |-> <<>>]
NoCross(z) == [prepare |-> z.prepare, cross |-> <<>>, outputs |-> z.outputs, votes |-> z.votes,
               intention |-> z.intention, certificate |-> z.certificate, txs |-> z.txs]
HeaderFields == {"HashPointer", "ChainID", "View", "Round", "Time", "PrepareRoot", "CrossShardRoot", "OutputTxsRoot",
                 "LastAggSigRoot", "CommitIntentionRoot", "CommitCertificateRoot", "CommitTxsListRoot", "StateRoot"}
BlockFields == {"Header", "PTXS", "CrossShardTxs", "OPT", "AggSigVote", "CI", "CC", "CTXS", "CTXSProof"}

LEMMA FillIs ==
    ASSUME NEW m, NEW time, NEW z, NEW b, DOMAIN b = BlockFields, b.Header = HeaderOf(m, time, z)
    PROVE  LET f == fillInHeader(b)
           IN  /\ DOMAIN f = BlockFields /\ f.Header = HeaderOf(m, time, Roots(b, z)) /\ f.PTXS = b.PTXS
               /\ f.CrossShardTxs = b.CrossShardTxs /\ f.OPT = b.OPT /\ f.CC = b.CC /\ f.CTXS = b.CTXS
               /\ f.CTXSProof = b.CTXSProof /\ f.AggSigVote = b.AggSigVote /\ f.CI = b.CI
<1> DEFINE h == b.Header
           f == [h EXCEPT !.PrepareRoot           = Roots(b, z).prepare,
                          !.CrossShardRoot        = Roots(b, z).cross,
                          !.OutputTxsRoot         = Roots(b, z).outputs,
                          !.LastAggSigRoot        = Roots(b, z).votes,
                          !.CommitIntentionRoot   = Roots(b, z).intention,
                          !.CommitCertificateRoot = Roots(b, z).certificate,
                          !.CommitTxsListRoot     = Roots(b, z).txs]
<1>1. /\ h.PrepareRoot = z.prepare /\ h.CrossShardRoot = z.cross /\ h.OutputTxsRoot = z.outputs
      /\ h.LastAggSigRoot = z.votes /\ h.CommitIntentionRoot = z.intention
      /\ h.CommitCertificateRoot = z.certificate /\ h.CommitTxsListRoot = z.txs
  BY DEF HeaderOf
<1>2. f = HeaderOf(m, time, Roots(b, z))
  <2> DEFINE y == Roots(b, z)
  <2> HIDE DEF y
  <2>0. h = HeaderOf(m, time, z)
    OBVIOUS
  <2> HIDE DEF h
  <2> DEFINE HF == DOMAIN HeaderOf(m, time, z)
             e == [h EXCEPT !.PrepareRoot = y.prepare, !.CrossShardRoot = y.cross, !.OutputTxsRoot = y.outputs,
                            !.LastAggSigRoot = y.votes, !.CommitIntentionRoot = y.intention,
                            !.CommitCertificateRoot = y.certificate, !.CommitTxsListRoot = y.txs]
  <2>1. e = [k \in DOMAIN h |-> e[k]]
    OBVIOUS
  <2>2. DOMAIN h = DOMAIN HeaderOf(m, time, y)
    BY <2>0 DEF HeaderOf
  <2>3. \A k \in DOMAIN h : e[k] = HeaderOf(m, time, y)[k]
    <3>1. DOMAIN h = HeaderFields
      BY <2>0 DEF HeaderOf, HeaderFields
    <3>2. /\ h.HashPointer = m.last /\ h.ChainID = m.chain /\ h.View = m.view /\ h.Round = 0 /\ h.Time = time
          /\ h.StateRoot = <<>>
      BY <2>0 DEF HeaderOf
    <3>3. /\ e.HashPointer = m.last /\ e.ChainID = m.chain /\ e.View = m.view /\ e.Round = 0 /\ e.Time = time
          /\ e.StateRoot = <<>> /\ e.PrepareRoot = y.prepare /\ e.CrossShardRoot = y.cross
      BY <3>1, <3>2 DEF HeaderFields
    <3>4. /\ e.OutputTxsRoot = y.outputs /\ e.LastAggSigRoot = y.votes /\ e.CommitIntentionRoot = y.intention
          /\ e.CommitCertificateRoot = y.certificate /\ e.CommitTxsListRoot = y.txs
      BY <3>1 DEF HeaderFields
    <3> HIDE DEF e
    <3> SUFFICES ASSUME NEW k \in HeaderFields PROVE e[k] = HeaderOf(m, time, y)[k]
      BY <3>1
    <3> QED BY <3>3, <3>4 DEF HeaderOf, HeaderFields
  <2>4. HeaderOf(m, time, y) = [k \in DOMAIN h |-> HeaderOf(m, time, y)[k]]
    BY <2>2 DEF HeaderOf
  <2>5. e = HeaderOf(m, time, y)
    BY <2>1, <2>3, <2>4
  <2> QED BY <2>5 DEF y
<1>3. fillInHeader(b) = [b EXCEPT !.Header = f]
  <2>1. /\ Roots(b, z).prepare = Fill(h.PrepareRoot, b.PTXS # <<>>, TxsHash(b.PTXS[1]))
        /\ Roots(b, z).cross = Fill(h.CrossShardRoot, b.CrossShardTxs # <<>>, TxsHash(b.CrossShardTxs[1]))
        /\ Roots(b, z).outputs = Fill(h.OutputTxsRoot, TRUE, HashFromByteSlices(b.OPT))
        /\ Roots(b, z).votes = Fill(h.LastAggSigRoot, b.AggSigVote # <<>>, AggVoteHash(b.AggSigVote[1]))
        /\ Roots(b, z).intention = Fill(h.CommitIntentionRoot, b.CI # <<>>, CommitIntentionHash(b.CI[1]))
        /\ Roots(b, z).certificate = Fill(h.CommitCertificateRoot, TRUE, CommitCertificateHash(b.CC))
        /\ Roots(b, z).txs = Fill(h.CommitTxsListRoot, TRUE, CommitTxsListRoot(b))
    BY <1>1 DEF Roots
  <2> QED BY <2>1 DEF fillInHeader
<1> HIDE DEF f
<1>4. fillInHeader(b) = [b EXCEPT !.Header = HeaderOf(m, time, Roots(b, z))]
  BY <1>2, <1>3
<1> QED BY <1>4 DEF BlockFields

\* What is sent of a block: with the roots, without the clock reading and CrossShardRoot.
LEMMA ProtoIs ==
    ASSUME NEW m, NEW time, time = [at |-> time.at, reading |-> time.reading], NEW z,
           NEW b, DOMAIN b = BlockFields, b.Header = HeaderOf(m, time, z)
    PROVE  LET p == BlockToProto(b)
           IN  /\ DOMAIN p = BlockFields /\ p = [k \in BlockFields |-> p[k]]
               /\ p.Header = HeaderOf(m, [at |-> time.at, reading |-> "none"], NoCross(Roots(b, z)))
               /\ p.PTXS = TxsOverWire(b.PTXS) /\ p.CrossShardTxs = TxsOverWire(b.CrossShardTxs)
               /\ p.OPT = b.OPT /\ p.CC = b.CC /\ p.CTXS = b.CTXS /\ p.CTXSProof = b.CTXSProof
               /\ p.AggSigVote = [n \in DOMAIN b.AggSigVote |-> AggVoteToProto(b.AggSigVote[n])]
               /\ p.CI = [n \in DOMAIN b.CI |-> CIToProto(b.CI[n])]
<1> DEFINE y == Roots(b, z)
           f == fillInHeader(b)
           p == BlockToProto(b)
           none == [at |-> time.at, reading |-> "none"]
           aggs == [n \in DOMAIN b.AggSigVote |-> AggVoteToProto(b.AggSigVote[n])]
           cis == [n \in DOMAIN b.CI |-> CIToProto(b.CI[n])]
<1>2. /\ DOMAIN f = BlockFields /\ f.Header = HeaderOf(m, time, y) /\ f.PTXS = b.PTXS
      /\ f.CrossShardTxs = b.CrossShardTxs /\ f.OPT = b.OPT /\ f.CC = b.CC /\ f.CTXS = b.CTXS
      /\ f.CTXSProof = b.CTXSProof /\ f.AggSigVote = b.AggSigVote /\ f.CI = b.CI
  <2> HIDE DEF p, y, aggs, cis, none
  <2> QED BY FillIs DEF y
<1>3. HeaderToProto(HeaderOf(m, time, y)) = HeaderOf(m, none, NoCross(y))
  <2> DEFINE h == HeaderOf(m, time, y)
             e == [h EXCEPT !.CrossShardRoot = <<>>, !.Time = none]
             g == HeaderOf(m, none, NoCross(y))
  <2>1. HeaderToProto(h) = e
    <3>1. HeaderToProto(h) = [h EXCEPT !.CrossShardRoot = <<>>, !.Time = [h.Time EXCEPT !.reading = "none"]]
      BY DEF HeaderToProto
    <3>2. h.Time = time
      BY DEF HeaderOf
    <3>3. [time EXCEPT !.reading = "none"] = none
      OBVIOUS
    <3> HIDE DEF h, none
    <3> QED BY <3>1, <3>2, <3>3
  <2> HIDE DEF y, none
  <2>2. DOMAIN h = HeaderFields /\ DOMAIN g = HeaderFields /\ g = [k \in HeaderFields |-> g[k]]
    BY DEF HeaderOf, HeaderFields
  <2>3. ASSUME NEW k \in HeaderFields \ {"Time", "CrossShardRoot"} PROVE h[k] = g[k]
    BY DEF HeaderOf, HeaderFields, NoCross
  <2>4. g.Time = none /\ g.CrossShardRoot = <<>>
    BY DEF HeaderOf, NoCross
  <2> HIDE DEF h, g
  <2>5. e = [k \in HeaderFields |-> g[k]]
    BY <2>2, <2>3, <2>4 DEF HeaderFields
  <2> QED BY <2>1, <2>2, <2>5 DEF h, g
<1>4. p = [f EXCEPT !.Header = HeaderOf(m, none, NoCross(y)), !.PTXS = TxsOverWire(b.PTXS),
                    !.CrossShardTxs = TxsOverWire(b.CrossShardTxs), !.AggSigVote = aggs, !.CI = cis]
  <2>1. p = [f EXCEPT !.Header = HeaderToProto(f.Header), !.PTXS = TxsOverWire(f.PTXS),
                      !.CrossShardTxs = TxsOverWire(f.CrossShardTxs),
                      !.AggSigVote = [n \in DOMAIN f.AggSigVote |-> AggVoteToProto(f.AggSigVote[n])],
                      !.CI = [n \in DOMAIN f.CI |-> CIToProto(f.CI[n])]]
    BY DEF BlockToProto
  <2> HIDE DEF f, p, y, none
  <2> QED BY <1>2, <1>3, <2>1
<1> HIDE DEF f, y, none, aggs, cis
<1>5. DOMAIN p = BlockFields /\ p = [k \in BlockFields |-> p[k]]
  BY <1>2, <1>4
<1>6. /\ p.Header = HeaderOf(m, none, NoCross(y)) /\ p.PTXS = TxsOverWire(b.PTXS)
      /\ p.CrossShardTxs = TxsOverWire(b.CrossShardTxs) /\ p.AggSigVote = aggs /\ p.CI = cis
  BY <1>2, <1>4 DEF BlockFields
<1>7. p.OPT = b.OPT /\ p.CC = b.CC /\ p.CTXS = b.CTXS /\ p.CTXSProof = b.CTXSProof
  BY <1>2, <1>4 DEF BlockFields
<1> QED BY <1>5, <1>6, <1>7 DEF y, none, aggs, cis

\* What a receiver makes of it.
LEMMA BackIs ==
    ASSUME NEW p, DOMAIN p = BlockFields
    PROVE  LET r == NewBlockFromProto(p)
           IN  /\ DOMAIN r = BlockFields /\ r.Header = p.Header /\ r.PTXS = p.PTXS /\ r.CrossShardTxs = p.CrossShardTxs
               /\ r.OPT = p.OPT /\ r.CC = p.CC /\ r.CTXS = p.CTXS /\ r.CTXSProof = p.CTXSProof
               /\ r.AggSigVote = [n \in DOMAIN p.AggSigVote |-> NewAggVoteFromProto(p.AggSigVote[n])]
               /\ r.CI = [n \in DOMAIN p.CI |-> NewCIFromProto(p.CI[n])]
<1> DEFINE r == NewBlockFromProto(p)
           aggs == [n \in DOMAIN p.AggSigVote |-> NewAggVoteFromProto(p.AggSigVote[n])]
           cis == [n \in DOMAIN p.CI |-> NewCIFromProto(p.CI[n])]
<1>1. r = [p EXCEPT !.AggSigVote = aggs, !.CI = cis]
  BY DEF NewBlockFromProto
<1> HIDE DEF aggs, cis
<1>2. /\ DOMAIN r = BlockFields /\ r.Header = p.Header /\ r.PTXS = p.PTXS /\ r.CrossShardTxs = p.CrossShardTxs
      /\ r.OPT = p.OPT /\ r.CC = p.CC /\ r.CTXS = p.CTXS /\ r.CTXSProof = p.CTXSProof
      /\ r.AggSigVote = aggs /\ r.CI = cis
  BY <1>1 DEF BlockFields
<1> QED BY <1>2 DEF aggs, cis

\* The hash of a list is not nil.
LEMMA ListHash ==
    ASSUME NEW s, IsList(s)
    PROVE  HashFromByteSlices(s) # <<>>
<1>1. CASE s = <<>>
  BY <1>1 DEF HashFromByteSlices, emptyHash
<1>2. CASE s # <<>>
  <2>1. Len(s) \in Nat /\ s = [n \in 1 .. Len(s) |-> s[n]]
    BY DEF IsList
  <2>2. Len(s) # 0
    <3>1. ASSUME Len(s) = 0 PROVE s = <<>>
      <4>1. 1 .. Len(s) = {}
        BY <3>1
      <4>2. s = [n \in {} |-> s[n]]
        BY <2>1, <4>1
      <4> QED BY <4>2
    <3> QED BY <1>2, <3>1
  <2>3. 1 \in 1 .. Len(s)
    BY <2>1, <2>2
  <2>4. /\ <<1, Len(s)>> \in Runs(Len(s))
        /\ HashFromByteSlices(s) = HashOfRun(s)[<<1, Len(s)>>]
    BY <2>1, <2>3, WholeRun
  <2> QED BY <2>1, <2>4, HashNotNil
<1> QED BY <1>1, <1>2

\* The fields of a block as make_block makes it, and what they are if it has enough blocks before it.
Intention(m) == [AggregatedSignatures |-> [n \in DOMAIN m.finished |-> m.finished[n].AggVote],
                 IntentionHash |-> [n \in DOMAIN m.finished |-> GetLastHashOfAggVote(m.finished[n].AggVote)]]
LEMMA MadeIs ==
    ASSUME NEW m
    PROVE  LET b == UrdBlock(m)
               late == IF m.pool >= 4 THEN DOMAIN m.finished ELSE {}
           IN  /\ DOMAIN b = BlockFields /\ b.Header = HeaderOf(m, m.time, NoRoots) /\ b.PTXS = m.ptxs
               /\ b.CrossShardTxs = m.cross /\ b.OPT = [n \in DOMAIN m.outputs |-> TxsHash(m.outputs[n])]
               /\ b.AggSigVote = [n \in 1 .. (IF m.pool >= 1 THEN 1 ELSE 0) |-> m.finished[m.me].AggVote]
               /\ b.CI = [n \in 1 .. (IF m.pool >= 2 THEN 1 ELSE 0) |-> Intention(m)]
               /\ b.CC = [n \in late |-> [Hash           |-> GetLastHashOfAggVote(m.finished[n].AggVote),
                                          MKProof        |-> m.finished[n].ProofOfIntention[1],
                                          IntentionBrief |-> m.finished[n].IntentionBrief]]
               /\ b.CTXS = [n \in late |-> m.finished[n].OPTXs]
               /\ b.CTXSProof = [n \in late |-> m.finished[n].OutputTxsProof[1]]
<1> DEFINE b == UrdBlock(m)
<1>1. b.Header = HeaderOf(m, m.time, NoRoots)
  BY DEF UrdBlock, MakeBlock, HeaderOf, NoRoots
<1>2. DOMAIN b = BlockFields
  BY DEF UrdBlock, MakeBlock, BlockFields
<1>3. /\ b.PTXS = m.ptxs /\ b.CrossShardTxs = m.cross /\ b.OPT = [n \in DOMAIN m.outputs |-> TxsHash(m.outputs[n])]
      /\ b.AggSigVote = [n \in 1 .. (IF m.pool >= 1 THEN 1 ELSE 0) |-> m.finished[m.me].AggVote]
  BY DEF UrdBlock, MakeBlock
<1>4. b.CI = [n \in 1 .. (IF m.pool >= 2 THEN 1 ELSE 0) |-> Intention(m)]
  BY DEF UrdBlock, MakeBlock, Intention
<1>5. LET late == IF m.pool >= 4 THEN DOMAIN m.finished ELSE {}
      IN  /\ b.CC = [n \in late |-> [Hash           |-> GetLastHashOfAggVote(m.finished[n].AggVote),
                                     MKProof        |-> m.finished[n].ProofOfIntention[1],
                                     IntentionBrief |-> m.finished[n].IntentionBrief]]
          /\ b.CTXS = [n \in late |-> m.finished[n].OPTXs]
          /\ b.CTXSProof = [n \in late |-> m.finished[n].OutputTxsProof[1]]
  BY DEF UrdBlock, MakeBlock
<1> HIDE DEF b
<1> QED BY <1>1, <1>2, <1>3, <1>4, <1>5 DEF b

\* The votes and the intention of such a block are lists of at most one.
LEMMA MadeShapes ==
    ASSUME NEW m, IsMade(m)
    PROVE  LET b == UrdBlock(m)
           IN  /\ VoteList(b.AggSigVote)
               /\ Len(b.CI) \in Nat /\ b.CI = [n \in 1 .. Len(b.CI) |-> b.CI[n]]
               /\ \A n \in 1 .. Len(b.CI) : IsIntention(b.CI[n])
               /\ IsList(b.OPT) /\ IsList(b.CC) /\ IsList(b.PTXS)
               /\ \A n \in DOMAIN b.PTXS : IsList(b.PTXS[n])
<1> DEFINE b == UrdBlock(m)
           fin == m.finished
           k == Len(fin)
<1>1. k \in Nat /\ DOMAIN fin = 1 .. k /\ m.pool \in Nat
  BY DEF IsMade, IsList
<1>2. \A n \in 1 .. k : IsAggVote(fin[n].AggVote)
  BY <1>1 DEF IsMade
<1>3. VoteList(b.AggSigVote)
  <2> DEFINE one == IF m.pool >= 1 THEN 1 ELSE 0
  <2>1. b.AggSigVote = [n \in 1 .. one |-> fin[m.me].AggVote] /\ one \in Nat
    BY MadeIs, <1>1
  <2>2. m.pool >= 1 => IsAggVote(fin[m.me].AggVote)
    BY <1>1, <1>2 DEF IsMade
  <2>3. \A n \in 1 .. one : IsAggVote(fin[m.me].AggVote)
    BY <1>1, <2>2
  <2> HIDE DEF one, b, fin
  <2> QED BY <2>1, <2>3 DEF VoteList
<1>4. IsIntention(Intention(m))
  <2> DEFINE aggs == [n \in 1 .. k |-> fin[n].AggVote]
  <2>1. VoteList(aggs)
    <3> HIDE DEF fin, k
    <3> QED BY <1>1, <1>2 DEF VoteList
  <2>2. Intention(m).AggregatedSignatures = aggs
    BY <1>1 DEF Intention
  <2>3. Intention(m) = [AggregatedSignatures |-> Intention(m).AggregatedSignatures,
                        IntentionHash |-> Intention(m).IntentionHash]
    BY DEF Intention
  <2> HIDE DEF aggs
  <2> QED BY <2>1, <2>2, <2>3 DEF IsIntention
<1>5. /\ Len(b.CI) \in Nat /\ b.CI = [n \in 1 .. Len(b.CI) |-> b.CI[n]]
      /\ \A n \in 1 .. Len(b.CI) : IsIntention(b.CI[n])
  <2> DEFINE one == IF m.pool >= 2 THEN 1 ELSE 0
  <2>1. b.CI = [n \in 1 .. one |-> Intention(m)] /\ one \in Nat
    BY MadeIs, <1>1
  <2> HIDE DEF one, b
  <2> QED BY <1>4, <2>1
<1>6. IsList(b.OPT)
  <2>1. b.OPT = [n \in DOMAIN m.outputs |-> TxsHash(m.outputs[n])]
    BY MadeIs
  <2>2. Len(m.outputs) \in Nat /\ DOMAIN m.outputs = 1 .. Len(m.outputs)
    BY DEF IsMade, IsList
  <2> HIDE DEF b
  <2> QED BY <2>1, <2>2 DEF IsList
<1>7. IsList(b.CC)
  <2> DEFINE core(n) == [Hash |-> GetLastHashOfAggVote(fin[n].AggVote), MKProof |-> fin[n].ProofOfIntention[1],
                         IntentionBrief |-> fin[n].IntentionBrief]
             l == IF m.pool >= 4 THEN k ELSE 0
  <2>1. b.CC = [n \in IF m.pool >= 4 THEN DOMAIN fin ELSE {} |-> core(n)]
    BY MadeIs
  <2>2. l \in Nat /\ (IF m.pool >= 4 THEN DOMAIN fin ELSE {}) = 1 .. l
    BY <1>1
  <2> HIDE DEF b, core, l
  <2>3. b.CC = [n \in 1 .. l |-> core(n)]
    BY <2>1, <2>2
  <2> QED BY <2>2, <2>3 DEF IsList
<1>8. IsList(b.PTXS) /\ \A n \in DOMAIN b.PTXS : IsList(b.PTXS[n])
  BY MadeIs DEF IsMade
<1> QED BY <1>3, <1>5, <1>6, <1>7, <1>8

\* The roots of a block are computed once: what a receiver fills in changes none that is hashed.
LEMMA RootsKept ==
    ASSUME NEW m, IsMade(m), NEW r, r.PTXS = TxsOverWire(UrdBlock(m).PTXS),
           r.AggSigVote = UrdBlock(m).AggSigVote, r.CI = UrdBlock(m).CI
    PROVE  LET y == Roots(UrdBlock(m), NoRoots)
           IN  NoCross(Roots(r, NoCross(y))) = NoCross(y)
<1> DEFINE b == UrdBlock(m)
           y == Roots(b, NoRoots)
           x == Roots(r, NoCross(y))
<1>1. \A a, c : \A present : a # <<>> => Fill(a, present, c) = a
  BY DEF Fill
<1>2. /\ NoCross(y).prepare = y.prepare /\ NoCross(y).outputs = y.outputs /\ NoCross(y).votes = y.votes
      /\ NoCross(y).intention = y.intention /\ NoCross(y).certificate = y.certificate /\ NoCross(y).txs = y.txs
  <2> HIDE DEF y
  <2> QED BY DEF NoCross
<1>3. /\ x.prepare = Fill(y.prepare, r.PTXS # <<>>, TxsHash(r.PTXS[1]))
      /\ x.outputs = Fill(y.outputs, TRUE, HashFromByteSlices(r.OPT))
      /\ x.votes = Fill(y.votes, r.AggSigVote # <<>>, AggVoteHash(r.AggSigVote[1]))
      /\ x.intention = Fill(y.intention, r.CI # <<>>, CommitIntentionHash(r.CI[1]))
      /\ x.certificate = Fill(y.certificate, TRUE, CommitCertificateHash(r.CC))
      /\ x.txs = Fill(y.txs, TRUE, CommitTxsListRoot(r))
  <2> HIDE DEF y
  <2> QED BY <1>2 DEF Roots
<1>4. /\ y.prepare = IF b.PTXS # <<>> THEN TxsHash(b.PTXS[1]) ELSE <<>>
      /\ y.outputs = HashFromByteSlices(b.OPT)
      /\ y.votes = IF b.AggSigVote # <<>> THEN AggVoteHash(b.AggSigVote[1]) ELSE <<>>
      /\ y.intention = IF b.CI # <<>> THEN CommitIntentionHash(b.CI[1]) ELSE <<>>
      /\ y.certificate = CommitCertificateHash(b.CC)
      /\ y.txs = CommitTxsListRoot(b)
  <2> HIDE DEF b
  <2> QED BY DEF Roots, NoRoots, Fill
<1> HIDE DEF x, y
<1>5. \A u : IsList(<<u>>)
  BY DEF IsList
<1>6. \A u, v : IsList(<<u, v>>)
  BY DEF IsList
<1>7. x.prepare = y.prepare
  <2>1. CASE b.PTXS = <<>>
    <3>1. r.PTXS = <<>> /\ y.prepare = <<>>
      BY <1>4, <2>1 DEF TxsOverWire
    <3> QED BY <1>3, <3>1 DEF Fill
  <2>2. CASE b.PTXS # <<>>
    <3>1. 1 \in DOMAIN b.PTXS
      <4>1. IsList(b.PTXS)
        BY MadeShapes
      <4> HIDE DEF b
      <4>2. Len(b.PTXS) \in Nat /\ b.PTXS = [n \in 1 .. Len(b.PTXS) |-> b.PTXS[n]]
        BY <4>1 DEF IsList
      <4>3. Len(b.PTXS) # 0
        <5>1. ASSUME Len(b.PTXS) = 0 PROVE b.PTXS = <<>>
          <6>1. 1 .. Len(b.PTXS) = {}
            BY <5>1
          <6>2. b.PTXS = [n \in {} |-> b.PTXS[n]]
            BY <4>2, <6>1
          <6> QED BY <6>2
        <5> QED BY <2>2, <5>1
      <4> QED BY <4>2, <4>3
    <3>2. IsList(b.PTXS[1])
      BY <3>1, MadeShapes
    <3>3. TxsHash(b.PTXS[1]) # <<>>
      BY <3>2, ListHash DEF TxsHash
    <3> QED BY <1>1, <1>3, <1>4, <2>2, <3>3
  <2> QED BY <2>1, <2>2
<1>8. x.outputs = y.outputs
  <2>1. HashFromByteSlices(b.OPT) # <<>>
    BY MadeShapes, ListHash
  <2> QED BY <1>1, <1>3, <1>4, <2>1
<1>9. x.votes = y.votes
  <2>1. \A v : AggVoteHash(v) # <<>>
    BY <1>5, ListHash DEF AggVoteHash
  <2>2. CASE b.AggSigVote = <<>>
    BY <1>3, <1>4, <2>2 DEF Fill
  <2>3. CASE b.AggSigVote # <<>>
    BY <1>1, <1>3, <1>4, <2>1, <2>3
  <2> QED BY <2>2, <2>3
<1>10. x.intention = y.intention
  <2>1. \A ci : CommitIntentionHash(ci) # <<>>
    BY <1>6, ListHash DEF CommitIntentionHash
  <2>2. CASE b.CI = <<>>
    BY <1>3, <1>4, <2>2 DEF Fill
  <2>3. CASE b.CI # <<>>
    BY <1>1, <1>3, <1>4, <2>1, <2>3
  <2> QED BY <2>2, <2>3
<1>11. x.certificate = y.certificate
  <2> DEFINE cc == b.CC
             core(n) == HashFromByteSlices(<<cc[n].Hash, BriefHash(cc[n].IntentionBrief), ProofOfIntentionHash(cc[n].MKProof)>>)
  <2>1. Len(cc) \in Nat /\ DOMAIN cc = 1 .. Len(cc)
    BY MadeShapes DEF IsList
  <2>2. CommitCertificateHash(cc) = HashFromByteSlices([n \in DOMAIN cc |-> core(n)])
    BY DEF CommitCertificateHash
  <2> HIDE DEF cc, core
  <2>3. IsList([n \in DOMAIN cc |-> core(n)])
    BY <2>1 DEF IsList
  <2>4. CommitCertificateHash(cc) # <<>>
    BY <2>2, <2>3, ListHash
  <2> QED BY <1>1, <1>3, <1>4, <2>4 DEF cc
<1>12. x.txs = y.txs
  <2>1. CommitTxsListRoot(b) # <<>>
    BY <1>6, ListHash DEF CommitTxsListRoot
  <2> QED BY <1>1, <1>3, <1>4, <2>1
<1>13. NoCross(x) = NoCross(y)
  BY <1>7, <1>8, <1>9, <1>10, <1>11, <1>12 DEF NoCross
<1> QED BY <1>13 DEF x, y

\* The block as a receiver has it, and what that is sent as.
NoReading(time) == [at |-> time.at, reading |-> "none"]
Returned(m) == NewBlockFromProto(BlockToProto(UrdBlock(m)))
LEMMA ReturnedIs ==
    ASSUME NEW m, IsMade(m)
    PROVE  LET b == UrdBlock(m)
               r == Returned(m)
           IN  /\ DOMAIN r = BlockFields
               /\ r.Header = HeaderOf(m, NoReading(m.time), NoCross(Roots(b, NoRoots)))
               /\ r.PTXS = TxsOverWire(b.PTXS) /\ r.CrossShardTxs = TxsOverWire(b.CrossShardTxs)
               /\ r.OPT = b.OPT /\ r.CC = b.CC /\ r.CTXS = b.CTXS /\ r.CTXSProof = b.CTXSProof
               /\ r.AggSigVote = b.AggSigVote /\ r.CI = b.CI
<1> DEFINE b == UrdBlock(m)
           p == BlockToProto(b)
           r == NewBlockFromProto(p)
<1>1. DOMAIN b = BlockFields /\ b.Header = HeaderOf(m, m.time, NoRoots)
  BY MadeIs
<1>2. m.time = [at |-> m.time.at, reading |-> m.time.reading]
  BY DEF IsMade
<1>3. /\ VoteList(b.AggSigVote) /\ Len(b.CI) \in Nat /\ b.CI = [n \in 1 .. Len(b.CI) |-> b.CI[n]]
      /\ \A n \in 1 .. Len(b.CI) : IsIntention(b.CI[n])
  BY MadeShapes
<1> HIDE DEF b
<1>4. /\ DOMAIN p = BlockFields
      /\ p.Header = HeaderOf(m, [at |-> m.time.at, reading |-> "none"], NoCross(Roots(b, NoRoots)))
      /\ p.PTXS = TxsOverWire(b.PTXS) /\ p.CrossShardTxs = TxsOverWire(b.CrossShardTxs)
      /\ p.OPT = b.OPT /\ p.CC = b.CC /\ p.CTXS = b.CTXS /\ p.CTXSProof = b.CTXSProof
      /\ p.AggSigVote = [n \in DOMAIN b.AggSigVote |-> AggVoteToProto(b.AggSigVote[n])]
      /\ p.CI = [n \in DOMAIN b.CI |-> CIToProto(b.CI[n])]
  BY <1>1, <1>2, ProtoIs
<1> HIDE DEF p
<1>5. /\ DOMAIN r = BlockFields /\ r.Header = p.Header /\ r.PTXS = p.PTXS /\ r.CrossShardTxs = p.CrossShardTxs
      /\ r.OPT = p.OPT /\ r.CC = p.CC /\ r.CTXS = p.CTXS /\ r.CTXSProof = p.CTXSProof
      /\ r.AggSigVote = [n \in DOMAIN p.AggSigVote |-> NewAggVoteFromProto(p.AggSigVote[n])]
      /\ r.CI = [n \in DOMAIN p.CI |-> NewCIFromProto(p.CI[n])]
  BY <1>4, BackIs
<1> HIDE DEF r
<1>6. r.AggSigVote = b.AggSigVote
  <2> DEFINE vs == b.AggSigVote
             q == [n \in DOMAIN vs |-> AggVoteToProto(vs[n])]
  <2>1. [n \in DOMAIN q |-> NewAggVoteFromProto(q[n])] = vs
    <3>1. VoteList(vs)
      BY <1>3
    <3> HIDE DEF vs
    <3> QED BY <3>1, VotesRoundTrip
  <2>2. p.AggSigVote = q
    BY <1>4
  <2> HIDE DEF q
  <2> QED BY <1>5, <2>1, <2>2
<1>7. r.CI = b.CI
  <2>1. DOMAIN b.CI = 1 .. Len(b.CI)
    BY <1>3
  <2>2. DOMAIN p.CI = 1 .. Len(b.CI) /\ \A n \in 1 .. Len(b.CI) : p.CI[n] = CIToProto(b.CI[n])
    BY <1>4, <2>1
  <2>3. \A n \in 1 .. Len(b.CI) : NewCIFromProto(p.CI[n]) = b.CI[n]
    BY <1>3, <2>2, IntentionRoundTrip
  <2>4. r.CI = [n \in 1 .. Len(b.CI) |-> b.CI[n]]
    BY <1>5, <2>2, <2>3
  <2> QED BY <1>3, <2>4
<1>8. r = Returned(m)
  BY DEF r, p, b, Returned
<1>9. /\ DOMAIN r = BlockFields
      /\ r.Header = HeaderOf(m, NoReading(m.time), NoCross(Roots(b, NoRoots)))
      /\ r.PTXS = TxsOverWire(b.PTXS) /\ r.CrossShardTxs = TxsOverWire(b.CrossShardTxs)
      /\ r.OPT = b.OPT /\ r.CC = b.CC /\ r.CTXS = b.CTXS /\ r.CTXSProof = b.CTXSProof
  BY <1>4, <1>5 DEF NoReading
<1> QED BY <1>6, <1>7, <1>8, <1>9 DEF b

\* The hash of a block leaves out CrossShardRoot and the clock reading.
LEMMA HashOfHeaderIs ==
    ASSUME NEW m, NEW t, NEW u, t.at = u.at, NEW y, NEW z, NoCross(y) = NoCross(z)
    PROVE  HashOfHeader(HeaderOf(m, t, y)) = HashOfHeader(HeaderOf(m, u, z))
<1> DEFINE g == HeaderOf(m, t, y)
           h == HeaderOf(m, u, z)
<1>1. /\ y.prepare = z.prepare /\ y.outputs = z.outputs /\ y.votes = z.votes /\ y.intention = z.intention
      /\ y.certificate = z.certificate /\ y.txs = z.txs
  BY DEF NoCross
<1>2. /\ g.ChainID = h.ChainID /\ g.View = h.View /\ g.Round = h.Round /\ g.HashPointer = h.HashPointer
      /\ g.StateRoot = h.StateRoot /\ g.Time = t /\ h.Time = u
  BY DEF HeaderOf
<1>3. /\ g.PrepareRoot = h.PrepareRoot /\ g.OutputTxsRoot = h.OutputTxsRoot /\ g.LastAggSigRoot = h.LastAggSigRoot
      /\ g.CommitIntentionRoot = h.CommitIntentionRoot /\ g.CommitCertificateRoot = h.CommitCertificateRoot
      /\ g.CommitTxsListRoot = h.CommitTxsListRoot
  BY <1>1 DEF HeaderOf
<1> HIDE DEF g, h
<1>4. TimeBytes(g.Time) = TimeBytes(h.Time)
  BY <1>2 DEF TimeBytes
<1>5. HashOfHeader(g) = HashOfHeader(h)
  BY <1>2, <1>3, <1>4 DEF HashOfHeader
<1> QED BY <1>5 DEF g, h

\* A receiver computes the hash that the leader has, and would send what the leader sent.
LEMMA ReturnedSame ==
    ASSUME NEW m, IsMade(m)
    PROVE  BlockHash(Returned(m)) = BlockHash(UrdBlock(m)) /\ BlockToProto(Returned(m)) = BlockToProto(UrdBlock(m))
<1> DEFINE b == UrdBlock(m)
           r == Returned(m)
           y == Roots(b, NoRoots)
           x == Roots(r, NoCross(y))
           none == NoReading(m.time)
<1>1. DOMAIN b = BlockFields /\ b.Header = HeaderOf(m, m.time, NoRoots)
  BY MadeIs
<1>2. m.time = [at |-> m.time.at, reading |-> m.time.reading]
  BY DEF IsMade
<1>3. /\ DOMAIN r = BlockFields /\ r.Header = HeaderOf(m, none, NoCross(y))
      /\ r.PTXS = TxsOverWire(b.PTXS) /\ r.CrossShardTxs = TxsOverWire(b.CrossShardTxs)
      /\ r.OPT = b.OPT /\ r.CC = b.CC /\ r.CTXS = b.CTXS /\ r.CTXSProof = b.CTXSProof
      /\ r.AggSigVote = b.AggSigVote /\ r.CI = b.CI
  BY ReturnedIs
<1>4. NoCross(x) = NoCross(y)
  BY <1>3, RootsKept
<1> HIDE DEF b, r
<1>5. none = [at |-> none.at, reading |-> none.reading] /\ none.at = m.time.at
  BY DEF NoReading
<1> HIDE DEF y
<1>6. fillInHeader(b).Header = HeaderOf(m, m.time, y)
  BY <1>1, FillIs DEF y
<1>7. fillInHeader(r).Header = HeaderOf(m, none, x)
  BY <1>3, FillIs
<1>8. BlockHash(r) = BlockHash(b)
  <2>1. \A a : BlockHash(a) = HashOfHeader(fillInHeader(a).Header).root
    BY DEF BlockHash, calBlockHashAndProof
  <2>2. HashOfHeader(HeaderOf(m, none, x)) = HashOfHeader(HeaderOf(m, m.time, y))
    <3> HIDE DEF none, x
    <3> QED BY <1>4, <1>5, HashOfHeaderIs
  <2> QED BY <1>6, <1>7, <2>1, <2>2
<1>9. BlockToProto(r) = BlockToProto(b)
  <2> DEFINE p == BlockToProto(b)
             q == BlockToProto(r)
  <2>1. /\ DOMAIN p = BlockFields /\ p = [k \in BlockFields |-> p[k]]
        /\ p.Header = HeaderOf(m, [at |-> m.time.at, reading |-> "none"], NoCross(y))
        /\ p.PTXS = TxsOverWire(b.PTXS) /\ p.CrossShardTxs = TxsOverWire(b.CrossShardTxs)
        /\ p.OPT = b.OPT /\ p.CC = b.CC /\ p.CTXS = b.CTXS /\ p.CTXSProof = b.CTXSProof
        /\ p.AggSigVote = [n \in DOMAIN b.AggSigVote |-> AggVoteToProto(b.AggSigVote[n])]
        /\ p.CI = [n \in DOMAIN b.CI |-> CIToProto(b.CI[n])]
    BY <1>1, <1>2, ProtoIs DEF y
  <2> HIDE DEF none, x
  <2>2. /\ DOMAIN q = BlockFields /\ q = [k \in BlockFields |-> q[k]]
        /\ q.Header = HeaderOf(m, [at |-> none.at, reading |-> "none"], NoCross(x))
        /\ q.PTXS = TxsOverWire(r.PTXS) /\ q.CrossShardTxs = TxsOverWire(r.CrossShardTxs)
        /\ q.OPT = r.OPT /\ q.CC = r.CC /\ q.CTXS = r.CTXS /\ q.CTXSProof = r.CTXSProof
        /\ q.AggSigVote = [n \in DOMAIN r.AggSigVote |-> AggVoteToProto(r.AggSigVote[n])]
        /\ q.CI = [n \in DOMAIN r.CI |-> CIToProto(r.CI[n])]
    <3>1. LET z == NoCross(y) IN x = Roots(r, z)
      BY DEF x
    <3> QED BY <1>3, <1>5, <3>1, ProtoIs
  <2>3. \A txs : TxsOverWire(TxsOverWire(txs)) = TxsOverWire(txs)
    BY DEF TxsOverWire
  <2> HIDE DEF p, q
  <2>4. q.Header = p.Header
    BY <1>4, <1>5, <2>1, <2>2
  <2>5. q.PTXS = p.PTXS /\ q.CrossShardTxs = p.CrossShardTxs
    BY <1>3, <2>1, <2>2, <2>3
  <2>6. q.OPT = p.OPT /\ q.CC = p.CC /\ q.CTXS = p.CTXS /\ q.CTXSProof = p.CTXSProof
    BY <1>3, <2>1, <2>2
  <2>7. q.AggSigVote = p.AggSigVote /\ q.CI = p.CI
    BY <1>3, <2>1, <2>2
  <2>8. \A k \in BlockFields : q[k] = p[k]
    BY <2>4, <2>5, <2>6, <2>7 DEF BlockFields
  <2>9. q = p
    BY <2>1, <2>2, <2>8
  <2> QED BY <2>9 DEF p, q
<1> QED BY <1>8, <1>9 DEF b, r

\* The parts of a made block that ValidateBasic looks at.
LEMMA MadeParts ==
    ASSUME NEW m, IsMade(m)
    PROVE  LET b == UrdBlock(m)
               fin == m.finished
               l == IF m.pool >= 4 THEN Len(fin) ELSE 0
               ci == b.CI[1]
           IN  /\ l \in Nat /\ Len(fin) \in Nat /\ DOMAIN fin = 1 .. Len(fin)
               /\ Len(b.CC) = l /\ Len(b.CTXS) = l /\ Len(b.CTXSProof) = l
               /\ DOMAIN b.CC = 1 .. l
               /\ \A n \in 1 .. l : /\ b.CC[n] = [Hash           |-> GetLastHashOfAggVote(fin[n].AggVote),
                                                  MKProof        |-> fin[n].ProofOfIntention[1],
                                                  IntentionBrief |-> fin[n].IntentionBrief]
                                    /\ b.CTXS[n] = fin[n].OPTXs /\ b.CTXSProof[n] = fin[n].OutputTxsProof[1]
               /\ m.pool >= 2 =>
                    /\ Len(ci.IntentionHash) = Len(fin) /\ Len(ci.AggregatedSignatures) = Len(fin)
                    /\ DOMAIN ci.IntentionHash = 1 .. Len(fin)
                    /\ \A n \in 1 .. Len(fin) : /\ ci.AggregatedSignatures[n] = fin[n].AggVote
                                                /\ ci.IntentionHash[n] = GetLastHashOfAggVote(fin[n].AggVote)
<1> DEFINE b == UrdBlock(m)
           fin == m.finished
           k == Len(fin)
           l == IF m.pool >= 4 THEN k ELSE 0
           core(n) == [Hash |-> GetLastHashOfAggVote(fin[n].AggVote), MKProof |-> fin[n].ProofOfIntention[1],
                       IntentionBrief |-> fin[n].IntentionBrief]
<1>1. k \in Nat /\ DOMAIN fin = 1 .. k /\ m.pool \in Nat /\ l \in Nat
  BY DEF IsMade, IsList
<1>2. (IF m.pool >= 4 THEN DOMAIN fin ELSE {}) = 1 .. l
  BY <1>1
<1>3. /\ b.CC = [n \in 1 .. l |-> core(n)] /\ b.CTXS = [n \in 1 .. l |-> fin[n].OPTXs]
      /\ b.CTXSProof = [n \in 1 .. l |-> fin[n].OutputTxsProof[1]]
  <2> HIDE DEF l
  <2> QED BY <1>2, MadeIs
<1>4. /\ Len(b.CC) = l /\ Len(b.CTXS) = l /\ Len(b.CTXSProof) = l
      /\ DOMAIN b.CC = 1 .. l
      /\ \A n \in 1 .. l : b.CC[n] = core(n) /\ b.CTXS[n] = fin[n].OPTXs /\ b.CTXSProof[n] = fin[n].OutputTxsProof[1]
  <2> HIDE DEF l, b, core, fin
  <2> QED BY <1>1, <1>3
<1>5. ASSUME m.pool >= 2
      PROVE  LET ci == b.CI[1]
             IN  /\ Len(ci.IntentionHash) = k /\ Len(ci.AggregatedSignatures) = k /\ DOMAIN ci.IntentionHash = 1 .. k
                 /\ \A n \in 1 .. k : /\ ci.AggregatedSignatures[n] = fin[n].AggVote
                                      /\ ci.IntentionHash[n] = GetLastHashOfAggVote(fin[n].AggVote)
  <2>1. b.CI = [n \in 1 .. (IF m.pool >= 2 THEN 1 ELSE 0) |-> Intention(m)]
    BY MadeIs
  <2>2. b.CI[1] = Intention(m)
    <3> HIDE DEF b
    <3> QED BY <1>5, <2>1
  <2>3. /\ Intention(m).AggregatedSignatures = [n \in 1 .. k |-> fin[n].AggVote]
        /\ Intention(m).IntentionHash = [n \in 1 .. k |-> GetLastHashOfAggVote(fin[n].AggVote)]
    BY <1>1 DEF Intention
  <2> HIDE DEF b, k, fin
  <2> QED BY <1>1, <2>2, <2>3
<1> QED BY <1>1, <1>4, <1>5

(* make_block makes a block that ValidateBasic accepts, at every view and with any number of shards, from
   messages that passed their own ValidateBasic: the intentions are the hashes that the certificates name,
   and the proofs that came with the messages are proofs against those. *)
THEOREM MakeBlockValid ==
    ASSUME NEW m, IsMade(m)
    PROVE  ValidateBlock(UrdBlock(m))
<1> DEFINE b == UrdBlock(m)
           fin == m.finished
           k == Len(fin)
           l == IF m.pool >= 4 THEN k ELSE 0
           ci == b.CI[1]
           last(n) == GetLastHashOfAggVote(ci.AggregatedSignatures[n])
<1>1. /\ l \in Nat /\ k \in Nat /\ DOMAIN fin = 1 .. k
      /\ Len(b.CC) = l /\ Len(b.CTXS) = l /\ Len(b.CTXSProof) = l /\ DOMAIN b.CC = 1 .. l
  BY MadeParts
<1>2. \A n \in 1 .. l : /\ b.CC[n] = [Hash           |-> GetLastHashOfAggVote(fin[n].AggVote),
                                      MKProof        |-> fin[n].ProofOfIntention[1],
                                      IntentionBrief |-> fin[n].IntentionBrief]
                        /\ b.CTXS[n] = fin[n].OPTXs /\ b.CTXSProof[n] = fin[n].OutputTxsProof[1]
  BY MadeParts
<1>3. m.pool >= 2 => /\ Len(ci.IntentionHash) = k /\ Len(ci.AggregatedSignatures) = k /\ DOMAIN ci.IntentionHash = 1 .. k
                     /\ \A n \in 1 .. k : /\ ci.AggregatedSignatures[n] = fin[n].AggVote
                                          /\ ci.IntentionHash[n] = GetLastHashOfAggVote(fin[n].AggVote)
  BY MadeParts
<1>4. b.Header.View = m.view /\ m.view \in Nat /\ m.pool \in Nat /\ (m.view > 5 => m.pool >= 4)
  <2>1. b.Header = HeaderOf(m, m.time, NoRoots)
    BY MadeIs
  <2>2. b.Header.View = m.view
    BY <2>1 DEF HeaderOf
  <2> QED BY <2>2 DEF IsMade
<1>5. ASSUME NEW n \in 1 .. l
      PROVE  /\ b.CC[n].Hash = last(n) /\ CoreVerifies(b.CC[n])
             /\ OutputTxsVerifies(b.CTXSProof[n], last(n), b.CTXS[n])
  <2>1. m.pool >= 4 /\ m.pool >= 2 /\ n \in 1 .. k /\ n \in DOMAIN fin
    BY <1>1, <1>4
  <2>2. last(n) = GetLastHashOfAggVote(fin[n].AggVote)
    BY <1>3, <2>1
  <2>3. ValidateCSM(fin[n]) /\ 1 \in DOMAIN fin[n].ProofOfIntention /\ 1 \in DOMAIN fin[n].OutputTxsProof
    BY <2>1 DEF IsMade
  <2> DEFINE h == GetLastHashOfAggVote(fin[n].AggVote)
  <2>4. /\ IntentionVerifies(fin[n].ProofOfIntention[1], h, BriefHash(fin[n].IntentionBrief))
        /\ OutputTxsVerifies(fin[n].OutputTxsProof[1], h, fin[n].OPTXs)
    <3> DEFINE c == fin[n]
    <3>1. ValidateCSM(c) /\ 1 \in DOMAIN c.ProofOfIntention /\ 1 \in DOMAIN c.OutputTxsProof
      BY <2>3
    <3> HIDE DEF c
    <3>2. LET g == GetLastHashOfAggVote(c.AggVote)
          IN  /\ IntentionVerifies(c.ProofOfIntention[1], g, BriefHash(c.IntentionBrief))
              /\ OutputTxsVerifies(c.OutputTxsProof[1], g, c.OPTXs)
      BY <3>1 DEF ValidateCSM
    <3> QED BY <3>2 DEF c
  <2> HIDE DEF b, h, last, fin
  <2>5. b.CC[n].Hash = h /\ b.CC[n].MKProof = fin[n].ProofOfIntention[1] /\ b.CC[n].IntentionBrief = fin[n].IntentionBrief
    <3>1. b.CC[n] = [Hash |-> GetLastHashOfAggVote(fin[n].AggVote), MKProof |-> fin[n].ProofOfIntention[1],
                     IntentionBrief |-> fin[n].IntentionBrief]
      BY <1>2, Zenon
    <3>2. b.CC[n] = [Hash |-> h, MKProof |-> fin[n].ProofOfIntention[1], IntentionBrief |-> fin[n].IntentionBrief]
      BY <3>1 DEF h
    <3> QED BY <3>2
  <2>6. CoreVerifies(b.CC[n])
    BY <2>4, <2>5 DEF CoreVerifies
  <2>7. last(n) = h
    BY <2>2 DEF h
  <2> QED BY <1>2, <2>4, <2>5, <2>6, <2>7
<1> HIDE DEF b
<1>6. b.Header.View > 5 => /\ Len(ci.IntentionHash) = Len(ci.AggregatedSignatures)
                           /\ \A n \in DOMAIN ci.IntentionHash : ci.IntentionHash[n] = last(n)
                           /\ Len(b.CC) = Len(ci.IntentionHash)
                           /\ \A n \in DOMAIN b.CC : b.CC[n].Hash = last(n) /\ CoreVerifies(b.CC[n])
  <2> SUFFICES ASSUME m.pool >= 4
               PROVE  /\ Len(ci.IntentionHash) = Len(ci.AggregatedSignatures)
                      /\ \A n \in DOMAIN ci.IntentionHash : ci.IntentionHash[n] = last(n)
                      /\ Len(b.CC) = Len(ci.IntentionHash)
                      /\ \A n \in DOMAIN b.CC : b.CC[n].Hash = last(n) /\ CoreVerifies(b.CC[n])
    BY <1>4
  <2>1. l = k /\ m.pool >= 2
    BY <1>4
  <2> HIDE DEF l, k, ci
  <2>2. \A n \in DOMAIN ci.IntentionHash : ci.IntentionHash[n] = last(n)
    BY <1>3, <2>1
  <2> HIDE DEF last
  <2> QED BY <1>1, <1>3, <1>5, <2>1, <2>2
<1> HIDE DEF l, k
<1>7. Len(b.CTXS) = Len(b.CTXSProof) /\ Len(b.CTXS) = Len(b.CC)
  BY <1>1
<1>8. \A n \in DOMAIN b.CC : \/ Disagree(b.CC, n)
                             \/ OutputTxsVerifies(b.CTXSProof[n], last(n), b.CTXS[n])
  BY <1>1, <1>5
<1>9. ValidateBlock(b)
  BY <1>6, <1>7, <1>8, Zenon DEF ValidateBlock
<1> QED BY <1>9 DEF b

\* What is sent of a Pyramid block, as a receiver has it.
PyramidFields == {"Header", "Body", "CrossShardBody", "Relation"}
PHeaderOf(h, time) ==
    [BlockType |-> h.BlockType, HashPointer |-> h.HashPointer, ChainID |-> h.ChainID, Height |-> h.Height, Time |-> time,
     BodyRoot |-> h.BodyRoot, CrossShardBodyRoot |-> h.CrossShardBodyRoot, StateRoot |-> h.StateRoot,
     ReceiptRoot |-> h.ReceiptRoot, RelationRoot |-> h.RelationRoot]
LEMMA PProtoIs ==
    ASSUME NEW b, DOMAIN b = PyramidFields, NEW t,
           b.Header = PHeaderOf(b.Header, [at |-> t.at, reading |-> t.reading])
    PROVE  LET r == PBlockToProto(b)
           IN  /\ DOMAIN r = PyramidFields /\ r = [k \in PyramidFields |-> r[k]]
               /\ r.Header = PHeaderOf(b.Header, NoReading(t))
               /\ r.Body = b.Body /\ r.CrossShardBody = b.CrossShardBody /\ r.Relation = b.Relation
<1> DEFINE h == b.Header
           g == [h EXCEPT !.Time.reading = "none"]
           r == PBlockToProto(b)
<1>1. r = [b EXCEPT !.Header = g]
  BY DEF PBlockToProto
<1>2. g = [h EXCEPT !.Time = NoReading(t)]
  <2>1. h.Time = [at |-> t.at, reading |-> t.reading]
    BY DEF PHeaderOf
  <2>2. [h.Time EXCEPT !.reading = "none"] = NoReading(t)
    BY <2>1 DEF NoReading
  <2>3. g = [h EXCEPT !.Time = [h.Time EXCEPT !.reading = "none"]]
    OBVIOUS
  <2> QED BY <2>2, <2>3
<1>3. g = PHeaderOf(h, NoReading(t))
  <2>1. h = PHeaderOf(h, [at |-> t.at, reading |-> t.reading])
    OBVIOUS
  <2> HIDE DEF g, h
  <2>2. [h EXCEPT !.Time = NoReading(t)] = PHeaderOf(h, NoReading(t))
    BY <2>1 DEF PHeaderOf
  <2> QED BY <1>2, <2>2
<1> HIDE DEF g, r
<1>4. /\ DOMAIN r = PyramidFields /\ r = [k \in PyramidFields |-> r[k]] /\ r.Header = g
      /\ r.Body = b.Body /\ r.CrossShardBody = b.CrossShardBody /\ r.Relation = b.Relation
  BY <1>1 DEF PyramidFields
<1> QED BY <1>3, <1>4 DEF r

\* The hash of a block is the same with another clock reading.
PHashOf(h, body, receipt, cross) ==
    HashFromByteSlices(<<IntToBytes(h.BlockType), h.HashPointer, <<"str", h.ChainID>>, IntToBytes(h.Height),
                         <<"time", h.Time.at>>, body, cross, h.StateRoot, receipt, h.RelationRoot>>)
LEMMA PHashIs ==
    ASSUME NEW b, DOMAIN b = PyramidFields, NEW h, NEW t, b.Header = PHeaderOf(h, t)
    PROVE  PBlockHash(b) = PHashOf(b.Header, IF isHash(h.BodyRoot) THEN h.BodyRoot ELSE BodyRoot(b.Body),
                                   IF isHash(h.RelationRoot) THEN h.ReceiptRoot ELSE RelationHash(b.Relation),
                                   IF isHash(h.CrossShardBodyRoot) THEN h.CrossShardBodyRoot
                                   ELSE CrossShardBodyRoot(b.CrossShardBody))
<1> DEFINE g == b.Header
           body == IF isHash(h.BodyRoot) THEN h.BodyRoot ELSE BodyRoot(b.Body)
           receipt == IF isHash(h.RelationRoot) THEN h.ReceiptRoot ELSE RelationHash(b.Relation)
           cross == IF isHash(h.CrossShardBodyRoot) THEN h.CrossShardBodyRoot ELSE CrossShardBodyRoot(b.CrossShardBody)
           f == [g EXCEPT !.BodyRoot = body, !.ReceiptRoot = receipt, !.CrossShardBodyRoot = cross]
<1>1. /\ g.BodyRoot = h.BodyRoot /\ g.RelationRoot = h.RelationRoot /\ g.ReceiptRoot = h.ReceiptRoot
      /\ g.CrossShardBodyRoot = h.CrossShardBodyRoot
  BY DEF PHeaderOf
<1>2. fillHeader(b) = [b EXCEPT !.Header = f]
  <2>1. fillHeader(b) = [b EXCEPT !.Header =
          [g EXCEPT !.BodyRoot = IF isHash(g.BodyRoot) THEN g.BodyRoot ELSE BodyRoot(b.Body),
                    !.ReceiptRoot = IF isHash(g.RelationRoot) THEN g.ReceiptRoot ELSE RelationHash(b.Relation),
                    !.CrossShardBodyRoot = IF isHash(g.CrossShardBodyRoot) THEN g.CrossShardBodyRoot
                                           ELSE CrossShardBodyRoot(b.CrossShardBody)]]
    BY DEF fillHeader
  <2> HIDE DEF g
  <2> QED BY <1>1, <2>1
<1> HIDE DEF body, receipt, cross
<1>3. fillHeader(b).Header = f
  <2> HIDE DEF f
  <2> QED BY <1>2 DEF PyramidFields
<1>4. /\ DOMAIN g = {"BlockType", "HashPointer", "ChainID", "Height", "Time", "BodyRoot", "CrossShardBodyRoot",
                     "StateRoot", "ReceiptRoot", "RelationRoot"}
  BY DEF PHeaderOf
<1> HIDE DEF g
<1>5. /\ f.BodyRoot = body /\ f.ReceiptRoot = receipt /\ f.CrossShardBodyRoot = cross
      /\ f.BlockType = g.BlockType /\ f.HashPointer = g.HashPointer /\ f.ChainID = g.ChainID /\ f.Height = g.Height
      /\ f.Time = g.Time /\ f.StateRoot = g.StateRoot /\ f.RelationRoot = g.RelationRoot
  BY <1>4
<1> HIDE DEF f
<1>6. HeaderHash(f) = PHashOf(g, body, receipt, cross)
  BY <1>5 DEF HeaderHash, PHashOf
<1>7. PBlockHash(b) = HeaderHash(f)
  BY <1>3 DEF PBlockHash
<1> QED BY <1>6, <1>7 DEF g, body, receipt, cross

LEMMA PReturnedSame ==
    ASSUME NEW b, DOMAIN b = PyramidFields, b.Header = PHeaderOf(b.Header, [at |-> b.Header.Time.at, reading |-> b.Header.Time.reading])
    PROVE  LET r == PBlockToProto(b)
           IN  /\ PBlockHash(r) = PBlockHash(b) /\ PBlockToProto(r) = PBlockToProto(b)
               /\ r.Header.ChainID = b.Header.ChainID /\ r.Header.Height = b.Header.Height
<1> DEFINE r == PBlockToProto(b)
           h == b.Header
           t == h.Time
           q == PBlockToProto(r)
<1>1. /\ DOMAIN r = PyramidFields /\ r = [k \in PyramidFields |-> r[k]] /\ r.Header = PHeaderOf(h, NoReading(t))
      /\ r.Body = b.Body /\ r.CrossShardBody = b.CrossShardBody /\ r.Relation = b.Relation
  BY PProtoIs
<1>2. h = PHeaderOf(h, [at |-> t.at, reading |-> t.reading])
  OBVIOUS
<1> HIDE DEF r, h
<1>3. /\ r.Header.Time = NoReading(t) /\ r.Header.BlockType = h.BlockType /\ r.Header.HashPointer = h.HashPointer
      /\ r.Header.ChainID = h.ChainID /\ r.Header.Height = h.Height /\ r.Header.StateRoot = h.StateRoot
      /\ r.Header.RelationRoot = h.RelationRoot /\ r.Header.BodyRoot = h.BodyRoot
      /\ r.Header.CrossShardBodyRoot = h.CrossShardBodyRoot /\ r.Header.ReceiptRoot = h.ReceiptRoot
  BY <1>1 DEF PHeaderOf
<1>4. NoReading(t).at = t.at /\ NoReading(t) = [at |-> t.at, reading |-> NoReading(t).reading]
      /\ NoReading(NoReading(t)) = NoReading(t)
  BY DEF NoReading
<1> DEFINE body == IF isHash(h.BodyRoot) THEN h.BodyRoot ELSE BodyRoot(b.Body)
           receipt == IF isHash(h.RelationRoot) THEN h.ReceiptRoot ELSE RelationHash(b.Relation)
           cross == IF isHash(h.CrossShardBodyRoot) THEN h.CrossShardBodyRoot ELSE CrossShardBodyRoot(b.CrossShardBody)
<1>5. PBlockHash(b) = PHashOf(h, body, receipt, cross)
  BY <1>2, PHashIs DEF h
<1>6. PBlockHash(r) = PHashOf(r.Header, body, receipt, cross)
  BY <1>1, PHashIs
<1> HIDE DEF body, receipt, cross
<1>7. PHashOf(r.Header, body, receipt, cross) = PHashOf(h, body, receipt, cross)
  BY <1>3, <1>4 DEF PHashOf
<1>8. r.Header = PHeaderOf(r.Header, [at |-> NoReading(t).at, reading |-> NoReading(t).reading])
  <2>1. PHeaderOf(r.Header, NoReading(t)) = PHeaderOf(h, NoReading(t))
    BY <1>3 DEF PHeaderOf
  <2> QED BY <1>1, <1>4, <2>1
<1>9. /\ DOMAIN q = PyramidFields /\ q = [k \in PyramidFields |-> q[k]]
      /\ q.Header = PHeaderOf(r.Header, NoReading(NoReading(t)))
      /\ q.Body = r.Body /\ q.CrossShardBody = r.CrossShardBody /\ q.Relation = r.Relation
  BY <1>1, <1>8, PProtoIs
<1> HIDE DEF q
<1>10. q.Header = r.Header
  <2>1. PHeaderOf(r.Header, NoReading(t)) = PHeaderOf(h, NoReading(t))
    BY <1>3 DEF PHeaderOf
  <2> QED BY <1>1, <1>4, <1>9, <2>1
<1>11. \A k \in PyramidFields : q[k] = r[k]
  BY <1>9, <1>10 DEF PyramidFields
<1>12. q = r
  BY <1>1, <1>9, <1>11
<1> QED BY <1>3, <1>5, <1>6, <1>7, <1>12 DEF r, h, q

\* The block that is sent is accepted, as far as that depends on the block alone, and is the one that
\* the parts are of.
Survives(w) == /\ w.valid /\ w.hash /\ w.again
               /\ \E h \in Heads : h.system = w.system /\ h.number = w.number /\ h.chain = w.chain /\ h.view = w.view

(* Every block survives the way: NewBlockFromBytes makes of what BlockToProto sends a block that
   ValidateBasic accepts, with the leader's hash, which is sent as the leader's was. *)
THEOREM BlockSurvives == \A w \in Wire : Survives(w)
<1> SUFFICES ASSUME NEW w \in Wire PROVE Survives(w)
  OBVIOUS
<1>1. PICK x \in Blocks : w \in {Judged(x, b) : b \in {FromProto(x.system, ToProto(x.system, BlockOf(x)))}}
  BY Zenon DEF Wire
<1> DEFINE r == FromProto(x.system, ToProto(x.system, BlockOf(x)))
<1>2. w = Judged(x, r)
  BY <1>1
<1> HIDE DEF r
<1>3. /\ w.system = x.system /\ w.number = x.number /\ w.chain = r.Header.ChainID /\ w.view = ViewOf(x.system, r.Header)
      /\ w.valid = IF x.system = "urd" THEN ValidateBlock(r) ELSE PValidateBlock(r)
      /\ w.hash = (HashOf(x.system, r) = HashOf(x.system, BlockOf(x)))
      /\ w.again = (ToProto(x.system, r) = ToProto(x.system, BlockOf(x)))
  BY <1>2 DEF Judged
<1>4. PICK h \in Heads : /\ h.system = x.system /\ h.number = x.number
                         /\ h.chain = BlockOf(x).Header.ChainID /\ h.view = ViewOf(x.system, BlockOf(x).Header)
  BY HeadsAssumption
<1>5. CASE x.system = "urd"
  <2> DEFINE m == x.made
             b == UrdBlock(m)
  <2>1. IsMade(m) /\ BlockOf(x) = b
    BY <1>5, BlocksAssumption DEF BlockOf
  <2>2. r = Returned(m)
    BY <1>5, <2>1 DEF r, FromProto, ToProto, Returned
  <2>3. /\ r.Header = HeaderOf(m, NoReading(m.time), NoCross(Roots(b, NoRoots)))
        /\ r.CC = b.CC /\ r.CTXS = b.CTXS /\ r.CTXSProof = b.CTXSProof /\ r.CI = b.CI
    BY <2>1, <2>2, ReturnedIs
  <2>4. b.Header = HeaderOf(m, m.time, NoRoots)
    BY MadeIs
  <2>5. ValidateBlock(b) /\ BlockHash(r) = BlockHash(b) /\ BlockToProto(r) = BlockToProto(b)
    BY <2>1, <2>2, MakeBlockValid, ReturnedSame
  <2> HIDE DEF b, m
  <2>6. r.Header.View = b.Header.View /\ r.Header.ChainID = b.Header.ChainID
    BY <2>3, <2>4 DEF HeaderOf
  <2>7. ValidateBlock(r)
    BY <2>3, <2>5, <2>6 DEF ValidateBlock
  <2>8. w.valid /\ w.hash /\ w.again
    BY <1>3, <1>5, <2>1, <2>5, <2>7 DEF HashOf, ToProto
  <2>9. h.chain = w.chain /\ h.view = w.view
    BY <1>3, <1>4, <1>5, <2>1, <2>6 DEF ViewOf
  <2> QED BY <1>3, <1>4, <2>8, <2>9 DEF Survives
<1>6. CASE x.system # "urd"
  <2> DEFINE b == x.made
  <2>1. BlockOf(x) = b /\ r = PBlockToProto(b)
    BY <1>6 DEF r, BlockOf, FromProto, ToProto
  <2>2. DOMAIN b = PyramidFields
    BY <1>6, BlocksAssumption DEF PyramidFields
  <2>3. b.Header = PHeaderOf(b.Header, [at |-> b.Header.Time.at, reading |-> b.Header.Time.reading])
    BY <1>6, BlocksAssumption DEF PHeaderOf
  <2> HIDE DEF b
  <2>4. /\ PBlockHash(r) = PBlockHash(b) /\ PBlockToProto(r) = PBlockToProto(b)
        /\ r.Header.ChainID = b.Header.ChainID /\ r.Header.Height = b.Header.Height
    BY <2>1, <2>2, <2>3, PReturnedSame
  <2>5. w.valid /\ w.hash /\ w.again
    BY <1>3, <1>6, <2>1, <2>4 DEF HashOf, ToProto, PValidateBlock
  <2>6. h.chain = w.chain /\ h.view = w.view
    BY <1>3, <1>4, <1>6, <2>1, <2>4 DEF ViewOf
  <2> QED BY <1>3, <1>4, <2>5, <2>6 DEF Survives
<1> QED BY <1>5, <1>6

(***************************************************************************)
(* Cross-shard messages.                                                   *)
(***************************************************************************)

\* A list is a sequence of its items.
LEMMA ListSeq ==
    ASSUME NEW s, IsList(s)
    PROVE  s \in Seq({s[i] : i \in 1 .. Len(s)})
BY DEF IsList

\* The proof of an item is accepted for that item and no other.
OwnTree(items, i, leaf) ==
    LET made == ProofsFromByteSlices(items)
    IN  /\ Verifies(made.proofs[i], made.root, leaf) <=> leaf = items[i]
        /\ ComputeRootHash(made.proofs[i]) = made.root /\ made.root = HashFromByteSlices(items)
LEMMA OwnProof ==
    ASSUME NEW items, IsList(items), NEW i \in 1 .. Len(items), NEW leaf
    PROVE  OwnTree(items, i, leaf)
<1> DEFINE made == ProofsFromByteSlices(items)
           p == made.proofs[i]
<1>1. Verifies(p, made.root, items[i])
  BY ListSeq, MerkleComplete
<1>2. made.root = HashFromByteSlices(items)
  BY DEF ProofsFromByteSlices
<1> HIDE DEF made, p
<1>3. /\ p.Total >= 0 /\ p.Index >= 0 /\ p.LeafHash = leafHash(items[i]) /\ ComputeRootHash(p) = made.root
  BY <1>1 DEF Verifies
<1>4. leafHash(leaf) = leafHash(items[i]) <=> leaf = items[i]
  BY DEF leafHash
<1>5. Verifies(p, made.root, leaf) <=> leaf = items[i]
  BY <1>3, <1>4 DEF Verifies
<1> QED BY <1>2, <1>3, <1>5 DEF OwnTree, made, p

\* The proofs that a message takes from a block: those of its fourth and fifth item, which are the root of
\* the outputs and the hash of the CommitIntention.
LEMMA BlockProofs ==
    ASSUME NEW m, IsMade(m), m.pool >= 2, NEW leaf
    PROVE  LET b == UrdBlock(m)
           IN  /\ Verifies(GetOutputTxsProof(b), BlockHash(b), leaf) <=> leaf = HashFromByteSlices(b.OPT)
               /\ Verifies(GetCommitIntentionProof(b), BlockHash(b), leaf) <=> leaf = CommitIntentionHash(b.CI[1])
<1> DEFINE b == UrdBlock(m)
           y == Roots(b, NoRoots)
           h == fillInHeader(b).Header
           pack == HashFromByteSlices(<<StringBytes(h.ChainID), IntToBytes(h.View), IntToBytes(h.Round),
                                        TimeBytes(h.Time), h.LastAggSigRoot, h.CommitCertificateRoot>>)
           items == <<pack, h.HashPointer, h.PrepareRoot, h.OutputTxsRoot, h.CommitIntentionRoot,
                      h.CommitTxsListRoot, h.StateRoot>>
<1>1. DOMAIN b = BlockFields /\ b.Header = HeaderOf(m, m.time, NoRoots)
  BY MadeIs
<1>2. b.CI # <<>>
  <2>1. b.CI = [n \in 1 .. (IF m.pool >= 2 THEN 1 ELSE 0) |-> Intention(m)]
    BY MadeIs
  <2> HIDE DEF b
  <2>2. 1 \in DOMAIN b.CI
    BY <2>1
  <2> QED BY <2>2
<1> HIDE DEF b
<1>3. h = HeaderOf(m, m.time, y)
  BY <1>1, FillIs
<1>4. y.outputs = HashFromByteSlices(b.OPT) /\ y.intention = CommitIntentionHash(b.CI[1])
  BY <1>2 DEF Roots, NoRoots, Fill
<1>5. calBlockHashAndProof(b) = ProofsFromByteSlices(items)
  BY DEF calBlockHashAndProof, HashOfHeader
<1> HIDE DEF y, h
<1>6. h.OutputTxsRoot = y.outputs /\ h.CommitIntentionRoot = y.intention
  BY <1>3 DEF HeaderOf
<1> HIDE DEF pack
<1>7. IsList(items) /\ Len(items) = 7 /\ items[4] = h.OutputTxsRoot /\ items[5] = h.CommitIntentionRoot
  BY DEF IsList
<1> HIDE DEF items
<1>8. /\ BlockHash(b) = ProofsFromByteSlices(items).root
      /\ GetOutputTxsProof(b) = ProofsFromByteSlices(items).proofs[4]
      /\ GetCommitIntentionProof(b) = ProofsFromByteSlices(items).proofs[5]
  BY <1>5 DEF BlockHash, GetOutputTxsProof, GetCommitIntentionProof, ProofOfIndex
<1>9. 4 \in 1 .. Len(items) /\ 5 \in 1 .. Len(items)
  BY <1>7
<1> DEFINE tree == ProofsFromByteSlices(items)
<1>10. ASSUME NEW i \in 1 .. Len(items) PROVE Verifies(tree.proofs[i], tree.root, leaf) <=> leaf = items[i]
  <2>1. OwnTree(items, i, leaf)
    BY <1>7, OwnProof
  <2> QED BY <2>1, Zenon DEF OwnTree
<1> HIDE DEF tree
<1>11. /\ Verifies(tree.proofs[4], tree.root, leaf) <=> leaf = items[4]
       /\ Verifies(tree.proofs[5], tree.root, leaf) <=> leaf = items[5]
  BY <1>9, <1>10
<1>12. /\ Verifies(GetOutputTxsProof(b), BlockHash(b), leaf) <=> leaf = items[4]
       /\ Verifies(GetCommitIntentionProof(b), BlockHash(b), leaf) <=> leaf = items[5]
  BY <1>8, <1>11 DEF tree
<1> QED BY <1>4, <1>6, <1>7, <1>12 DEF b

\* The outputs are accepted that the block has for the shard.
LEMMA OutputsExact ==
    ASSUME NEW m, IsMade(m), m.pool >= 2, NEW to \in DOMAIN m.outputs, NEW txs, IsList(txs)
    PROVE  LET b == UrdBlock(m)
           IN  OutputTxsVerifies(GetOutputTxsProofOf(b, to), BlockHash(b), txs) <=> txs = m.outputs[to]
<1> DEFINE b == UrdBlock(m)
           opt == b.OPT
           made == ProofsFromByteSlices(opt)
           proof == GetOutputTxsProofOf(b, to)
           root == ComputeRootHash(proof.OPTProof)
<1>1. /\ opt = [n \in DOMAIN m.outputs |-> TxsHash(m.outputs[n])] /\ IsList(opt)
  BY MadeIs, MadeShapes
<1>2. Len(m.outputs) \in Nat /\ DOMAIN m.outputs = 1 .. Len(m.outputs) /\ IsList(m.outputs[to])
  BY DEF IsMade, IsList
<1>3. to \in 1 .. Len(opt) /\ opt[to] = TxsHash(m.outputs[to])
  <2> HIDE DEF opt
  <2> QED BY <1>1, <1>2
<1>4. proof.BlockProof = GetOutputTxsProof(b) /\ proof.OPTProof = made.proofs[to]
  BY DEF GetOutputTxsProofOf
<1> HIDE DEF proof, made
<1>5. /\ Verifies(made.proofs[to], made.root, TxsHash(txs)) <=> TxsHash(txs) = opt[to]
      /\ ComputeRootHash(made.proofs[to]) = made.root /\ made.root = HashFromByteSlices(opt)
  <2> HIDE DEF opt
  <2>1. OwnTree(opt, to, TxsHash(txs))
    BY <1>1, <1>3, OwnProof
  <2> QED BY <2>1, Zenon DEF OwnTree, made
<1>6. Verifies(GetOutputTxsProof(b), BlockHash(b), HashFromByteSlices(opt))
  BY BlockProofs
<1>7. TxsHash(txs) = TxsHash(m.outputs[to]) <=> txs = m.outputs[to]
  BY <1>2, HashInjective DEF TxsHash
<1> HIDE DEF opt, b
<1>8. root = HashFromByteSlices(opt)
  BY <1>4, <1>5
<1>9. Verifies(proof.OPTProof, root, TxsHash(txs)) <=> txs = m.outputs[to]
  BY <1>3, <1>4, <1>5, <1>7, <1>8
<1>10. Verifies(proof.BlockProof, BlockHash(b), root)
  BY <1>4, <1>6, <1>8
<1>11. OutputTxsVerifies(proof, BlockHash(b), txs) <=> txs = m.outputs[to]
  BY <1>9, <1>10 DEF OutputTxsVerifies
<1> QED BY <1>11 DEF proof, b

\* The brief is accepted that the block's CommitIntention has.
LEMMA BriefExact ==
    ASSUME NEW m, IsMade(m), m.pool >= 2, NEW brief, IsList(brief)
    PROVE  LET b == UrdBlock(m)
               poi == [IntentionHashProof |-> GetCommitIntentionProof(b), RightHash |-> RightHash(b.CI[1])]
           IN  IntentionVerifies(poi, BlockHash(b), BriefHash(brief)) <=> brief = b.CI[1].IntentionHash
<1> DEFINE b == UrdBlock(m)
           ci == b.CI[1]
           right == RightHash(ci)
           poi == [IntentionHashProof |-> GetCommitIntentionProof(b), RightHash |-> right]
<1>1. IsList(ci.IntentionHash)
  <2>1. b.CI = [n \in 1 .. (IF m.pool >= 2 THEN 1 ELSE 0) |-> Intention(m)]
    BY MadeIs
  <2>2. ci = Intention(m)
    <3> HIDE DEF b
    <3> QED BY <2>1
  <2>3. Len(m.finished) \in Nat /\ DOMAIN m.finished = 1 .. Len(m.finished)
    BY DEF IsMade, IsList
  <2>4. Intention(m).IntentionHash = [n \in 1 .. Len(m.finished) |-> GetLastHashOfAggVote(m.finished[n].AggVote)]
    BY <2>3 DEF Intention
  <2> HIDE DEF ci
  <2> QED BY <2>2, <2>3, <2>4 DEF IsList
<1> DEFINE leaf == HashFromByteSlices(<<BriefHash(brief), right>>)
<1>2. Verifies(GetCommitIntentionProof(b), BlockHash(b), leaf) <=> leaf = CommitIntentionHash(ci)
  BY BlockProofs
<1>3. poi.IntentionHashProof = GetCommitIntentionProof(b) /\ poi.RightHash = right
  OBVIOUS
<1> HIDE DEF poi, b
<1>4. CommitIntentionHash(ci) = HashFromByteSlices(<<BriefHash(ci.IntentionHash), right>>)
  BY DEF CommitIntentionHash
<1> HIDE DEF ci, right
<1>5. leaf = CommitIntentionHash(ci) <=> brief = ci.IntentionHash
  <2>1. ASSUME leaf = CommitIntentionHash(ci) PROVE brief = ci.IntentionHash
    <3> DEFINE u == BriefHash(brief)
               v == BriefHash(ci.IntentionHash)
    <3>1. IsList(<<u, right>>) /\ IsList(<<v, right>>)
      <4> HIDE DEF u, v
      <4> QED BY DEF IsList
    <3>2. <<u, right>> = <<v, right>>
      BY <1>4, <2>1, <3>1, HashInjective
    <3>3. u = v
      <4> HIDE DEF u, v
      <4> QED BY <3>2
    <3> QED BY <1>1, <3>3, HashInjective DEF BriefHash
  <2>2. ASSUME brief = ci.IntentionHash PROVE leaf = CommitIntentionHash(ci)
    BY <1>4, <2>2
  <2> QED BY <2>1, <2>2
<1> HIDE DEF leaf
<1>6. IntentionVerifies(poi, BlockHash(b), BriefHash(brief)) <=> Verifies(GetCommitIntentionProof(b), BlockHash(b), leaf)
  BY <1>3 DEF IntentionVerifies, leaf
<1>7. IntentionVerifies(poi, BlockHash(b), BriefHash(brief)) <=> brief = ci.IntentionHash
  BY <1>2, <1>5, <1>6
<1> QED BY <1>1, <1>7 DEF poi, b, ci, right

\* What arrives of a message: everything but the bit vector of the votes as it was sent.
LEMMA DeliveredIs ==
    ASSUME NEW x, NEW prev, NEW hash, NEW to, NEW outs, NEW brief
    PROVE  LET d == Delivered(x, prev, hash, to, outs, brief)
               c == CrossShardMessage(prev.Header.ChainID,
                        [ForNecessaryData |-> <<hash>>, SignerIndexer |-> NewBitVector(N)], x.pool, prev, to, x.outputs[outs])
           IN  /\ GetLastHashOfAggVote(d.AggVote) = hash
               /\ d.ProofOfIntention = c.ProofOfIntention /\ d.OutputTxsProof = c.OutputTxsProof /\ d.OPTXs = c.OPTXs
               /\ d.IntentionBrief = IF brief = "own" THEN c.IntentionBrief
                                     ELSE Append(c.IntentionBrief, <<"str", brief>>)
<1> DEFINE vote == [ForNecessaryData |-> <<hash>>, SignerIndexer |-> NewBitVector(N)]
           c == CrossShardMessage(prev.Header.ChainID, vote, x.pool, prev, to, x.outputs[outs])
           other == [c EXCEPT !.IntentionBrief = Append(@, <<"str", brief>>)]
           e == IF brief = "own" THEN c ELSE other
           p == CSMToProto(e)
           d == NewCSMFromProto(p)
           F == {"SourceChain", "AggVote", "IntentionBrief", "ProofOfIntention", "OPTXs", "OutputTxsProof"}
<1>1. DOMAIN c = F /\ c.AggVote = vote
  BY DEF CrossShardMessage
<1> HIDE DEF c, vote
<1>2. /\ DOMAIN e = F /\ e.AggVote = vote /\ e.ProofOfIntention = c.ProofOfIntention
      /\ e.OutputTxsProof = c.OutputTxsProof /\ e.OPTXs = c.OPTXs
      /\ e.IntentionBrief = IF brief = "own" THEN c.IntentionBrief ELSE Append(c.IntentionBrief, <<"str", brief>>)
  <2>1. CASE brief = "own"
    BY <1>1, <2>1
  <2>2. CASE brief # "own"
    <3>1. e = [c EXCEPT !.IntentionBrief = Append(c.IntentionBrief, <<"str", brief>>)]
      BY <2>2
    <3> HIDE DEF e
    <3> QED BY <1>1, <2>2, <3>1
  <2> QED BY <2>1, <2>2
<1> HIDE DEF e, other
<1>3. /\ DOMAIN p = F /\ p.AggVote = AggVoteToProto(vote) /\ p.ProofOfIntention = e.ProofOfIntention
      /\ p.OutputTxsProof = e.OutputTxsProof /\ p.OPTXs = e.OPTXs /\ p.IntentionBrief = e.IntentionBrief
  BY <1>2 DEF CSMToProto
<1> HIDE DEF p
<1>4. /\ d.AggVote = NewAggVoteFromProto(p.AggVote) /\ d.ProofOfIntention = p.ProofOfIntention
      /\ d.OutputTxsProof = p.OutputTxsProof /\ d.OPTXs = p.OPTXs /\ d.IntentionBrief = p.IntentionBrief
  BY <1>3 DEF NewCSMFromProto
<1>5. NewAggVoteFromProto(AggVoteToProto(vote)).ForNecessaryData = <<hash>>
  BY DEF vote, NewAggVoteFromProto, AggVoteToProto
<1> HIDE DEF d
<1>6. GetLastHashOfAggVote(d.AggVote) = hash
  BY <1>3, <1>4, <1>5 DEF GetLastHashOfAggVote
<1>7. d = Delivered(x, prev, hash, to, outs, brief)
  BY DEF d, p, e, other, c, vote, Delivered
<1> QED BY <1>2, <1>3, <1>4, <1>6, <1>7 DEF c, vote

(* For every block of a leader, every shard and all outputs and briefs: a message with proofs is accepted
   exactly if it brings the block's own ones; one without proofs always. *)
THEOREM MessageExact ==
    ASSUME NEW x \in Blocks, NEW a \in Messages(x)
    PROVE  a.ok <=> a.proofs = 0 \/ (a.same /\ a.brief = "own")
<1> DEFINE m == x.prev[1]
           prev == UrdBlock(m)
           hash == BlockHash(prev)
<1>1. PICK to \in DOMAIN x.outputs, outs \in DOMAIN x.outputs, brief \in {"own", "other"} :
         a = Received(x, prev, to, outs, brief)
  BY DEF Messages
<1> DEFINE d == Delivered(x, prev, hash, to, outs, brief)
           vote == [ForNecessaryData |-> <<hash>>, SignerIndexer |-> NewBitVector(N)]
           c == CrossShardMessage(prev.Header.ChainID, vote, x.pool, prev, to, x.outputs[outs])
           own == [IntentionHashProof |-> GetCommitIntentionProof(prev), RightHash |-> RightHash(prev.CI[1])]
<1>2. a = [same |-> x.outputs[outs] = x.outputs[to], brief |-> brief,
           proofs |-> Len(d.OutputTxsProof), ok |-> ValidateCSM(d)]
  BY <1>1 DEF Received, Verdict
<1>3. /\ GetLastHashOfAggVote(d.AggVote) = hash
      /\ d.ProofOfIntention = c.ProofOfIntention /\ d.OutputTxsProof = c.OutputTxsProof /\ d.OPTXs = c.OPTXs
      /\ d.IntentionBrief = IF brief = "own" THEN c.IntentionBrief ELSE Append(c.IntentionBrief, <<"str", brief>>)
  <2> HIDE DEF prev, hash, d
  <2> QED BY DeliveredIs DEF d
<1>4. x.outputs # <<>>
  <2>1. DOMAIN <<>> = {}
    OBVIOUS
  <2> QED BY <2>1
<1>5. x.system = "urd" /\ x.pool \in Nat
  BY <1>4, BlocksAssumption
<1> HIDE DEF prev, hash, d
<1>6. a.proofs = Len(d.OutputTxsProof) /\ a.ok = ValidateCSM(d) /\ a.same = (x.outputs[outs] = x.outputs[to]) /\ a.brief = brief
  BY <1>2
<1>7. CASE ~ (x.pool >= 4)
  <2>1. c.ProofOfIntention = <<>> /\ c.OutputTxsProof = <<>>
    BY <1>7 DEF CrossShardMessage
  <2> HIDE DEF c
  <2>2. Len(d.OutputTxsProof) = 0 /\ DOMAIN d.ProofOfIntention = {} /\ DOMAIN d.OutputTxsProof = {}
    BY <1>3, <2>1
  <2>3. ValidateCSM(d)
    BY <2>2 DEF ValidateCSM
  <2> QED BY <1>6, <2>2, <2>3
<1>8. CASE x.pool >= 4
  <2>1. IsMade(m) /\ m.pool >= 2 /\ x.outputs = m.outputs
    BY <1>4, <1>5, <1>8, BlocksAssumption
  <2> HIDE DEF m
  <2>2. /\ c.ProofOfIntention = [n \in 1 .. 1 |-> own] /\ c.OutputTxsProof = [n \in 1 .. 1 |-> GetOutputTxsProofOf(prev, to)]
        /\ c.OPTXs = x.outputs[outs] /\ c.IntentionBrief = prev.CI[1].IntentionHash
    BY <1>8 DEF CrossShardMessage
  <2> HIDE DEF c, own
  <2>3. /\ DOMAIN d.ProofOfIntention = 1 .. 1 /\ d.ProofOfIntention[1] = own
        /\ DOMAIN d.OutputTxsProof = 1 .. 1 /\ d.OutputTxsProof[1] = GetOutputTxsProofOf(prev, to)
        /\ Len(d.OutputTxsProof) = 1 /\ d.OPTXs = x.outputs[outs]
    BY <1>3, <2>2
  <2>4. ValidateCSM(d) <=> /\ IntentionVerifies(own, hash, BriefHash(d.IntentionBrief))
                           /\ OutputTxsVerifies(GetOutputTxsProofOf(prev, to), hash, x.outputs[outs])
    <3>1. ValidateCSM(d) <=>
            /\ \A n \in 1 .. 1 : IntentionVerifies(d.ProofOfIntention[n], hash, BriefHash(d.IntentionBrief))
            /\ \A n \in 1 .. 1 : OutputTxsVerifies(d.OutputTxsProof[n], hash, d.OPTXs)
      BY <1>3, <2>3 DEF ValidateCSM
    <3>2. \A n \in 1 .. 1 : n = 1
      OBVIOUS
    <3>3. 1 \in 1 .. 1
      OBVIOUS
    <3> QED BY <2>3, <3>1, <3>2, <3>3
  <2> DEFINE ih == prev.CI[1].IntentionHash
  <2>5. IsList(ih)
    <3>1. prev.CI = [n \in 1 .. (IF m.pool >= 2 THEN 1 ELSE 0) |-> Intention(m)]
      BY MadeIs DEF prev
    <3>2. prev.CI[1] = Intention(m)
      BY <2>1, <3>1
    <3>3. Len(m.finished) \in Nat /\ DOMAIN m.finished = 1 .. Len(m.finished)
      BY <2>1 DEF IsMade, IsList
    <3>4. Intention(m).IntentionHash = [n \in 1 .. Len(m.finished) |-> GetLastHashOfAggVote(m.finished[n].AggVote)]
      BY <3>3 DEF Intention
    <3> QED BY <3>2, <3>3, <3>4 DEF IsList
  <2>6. IsList(d.IntentionBrief) /\ (d.IntentionBrief = ih <=> brief = "own")
    <3> DEFINE more == Append(ih, <<"str", brief>>)
    <3>1. d.IntentionBrief = IF brief = "own" THEN ih ELSE more
      BY <1>3, <2>2
    <3> HIDE DEF ih
    <3>2. ih \in Seq({ih[i] : i \in 1 .. Len(ih)} \cup {<<"str", brief>>}) /\ Len(ih) \in Nat
      BY <2>5 DEF IsList
    <3>3. IsList(more) /\ Len(more) = Len(ih) + 1
      BY <3>2 DEF IsList
    <3>4. more # ih
      <4> HIDE DEF more
      <4>1. ASSUME more = ih PROVE FALSE
        <5>1. Len(ih) = Len(ih) + 1
          BY <3>3, <4>1
        <5> DEFINE l == Len(ih)
        <5>2. l \in Nat /\ l = l + 1
          BY <3>2, <5>1
        <5> HIDE DEF l
        <5> QED BY <5>2
      <4> QED BY <4>1
    <3> HIDE DEF more
    <3> QED BY <2>5, <3>1, <3>3, <3>4
  <2>7. IntentionVerifies(own, hash, BriefHash(d.IntentionBrief)) <=> brief = "own"
    <3>1. IntentionVerifies(own, hash, BriefHash(d.IntentionBrief)) <=> d.IntentionBrief = ih
      BY <2>1, <2>6, BriefExact DEF own, hash, prev
    <3> QED BY <2>6, <3>1
  <2>8. OutputTxsVerifies(GetOutputTxsProofOf(prev, to), hash, x.outputs[outs]) <=> x.outputs[outs] = x.outputs[to]
    <3>1. to \in DOMAIN m.outputs /\ IsList(x.outputs[outs])
      BY <2>1 DEF IsMade
    <3>2. OutputTxsVerifies(GetOutputTxsProofOf(prev, to), hash, x.outputs[outs]) <=> x.outputs[outs] = m.outputs[to]
      BY <2>1, <3>1, OutputsExact DEF hash, prev
    <3> QED BY <2>1, <3>2
  <2>9. a.proofs # 0 /\ (a.brief = "own" <=> brief = "own") /\ (a.same <=> x.outputs[outs] = x.outputs[to])
    <3>1. a.proofs = 1 /\ (a.brief = "own" <=> brief = "own")
      BY <1>6, <2>3
    <3>2. a.same = (x.outputs[outs] = x.outputs[to])
      BY <1>6
    <3>3. a.same <=> x.outputs[outs] = x.outputs[to]
      BY <3>2, Zenon
    <3>4. a.proofs # 0
      BY <3>1
    <3> QED BY <3>1, <3>3, <3>4, Zenon
  <2>10. a.ok <=> ValidateCSM(d)
    BY <1>6
  <2> HIDE DEF c, own, vote
  <2> QED BY <2>4, <2>7, <2>8, <2>9, <2>10
<1> QED BY <1>7, <1>8

(***************************************************************************)
(* The parts of a block.                                                   *)
(***************************************************************************)

\* How many parts there are, where part n ends, and the parts.
Total == (BlockBytes + MaxPartSize - 1) \div MaxPartSize
End(n) == IF n * MaxPartSize > BlockBytes THEN BlockBytes ELSE n * MaxPartSize
Cut(msg) == SplitByteArray(Marshal(msg), MaxPartSize)
Leaves(msg) == [n \in 1 .. Total |-> PartLeaf(Cut(msg)[n])]

\* No part is empty, one starts after the other, and the last one ends with the block.
LEMMA PartEnds ==
    /\ Total \in Nat /\ Total >= 1
    /\ \A n \in 1 .. Total : /\ End(n) \in 1 .. BlockBytes /\ (n - 1) * MaxPartSize + 1 \in 1 .. End(n)
                             /\ n > 1 => End(n - 1) = (n - 1) * MaxPartSize
    /\ End(Total) = BlockBytes /\ BlockBytes \in Nat \ {0}
<1> DEFINE M == MaxPartSize
           B == BlockBytes
           s == (B + M - 1) % M
<1>1. M \in Nat \ {0} /\ B \in Nat \ {0} /\ B + M - 1 \in Nat
  BY PartsAssumption
<1>2. Total \in Nat /\ s \in 0 .. (M - 1) /\ B + M - 1 = M * Total + s
  BY <1>1, DivMod DEF Total
<1>3. M * Total \in Int
  BY <1>1, <1>2
<1> HIDE DEF M, B, s
<1>4. M * Total >= B /\ M * Total <= B + M - 1
  BY <1>1, <1>2, <1>3
<1>5. Total >= 1
  <2> SUFFICES ASSUME Total = 0 PROVE FALSE
    BY <1>2
  <2>1. M * Total = 0
    BY <1>1
  <2> QED BY <1>1, <1>4, <2>1
<1>6. ASSUME NEW n \in 1 .. Total
      PROVE  /\ (n - 1) * M \in Nat /\ n * M = (n - 1) * M + M /\ (n - 1) * M < B
  <2>1. (n - 1) \in Nat /\ n \in Nat
    BY <1>2
  <2>2. (n - 1) * M \in Nat /\ n * M = (n - 1) * M + M /\ M * n = n * M /\ n * M \in Int
    BY <1>1, <2>1
  <2>3. M * n <= M * Total
    BY <1>1, <1>2, <2>1, TimesMonotone
  <2> QED BY <1>1, <1>3, <1>4, <2>2, <2>3
<1>7. ASSUME NEW n \in 1 .. Total
      PROVE  /\ End(n) \in 1 .. B /\ (n - 1) * M + 1 \in 1 .. End(n)
             /\ n > 1 => End(n - 1) = (n - 1) * M
  <2>1. /\ (n - 1) * M \in Nat /\ n * M = (n - 1) * M + M /\ (n - 1) * M < B
    BY <1>6
  <2>2. End(n) = IF n * M > B THEN B ELSE n * M
    BY DEF End, M, B
  <2>3. End(n - 1) = IF (n - 1) * M > B THEN B ELSE (n - 1) * M
    BY DEF End, M, B
  <2> DEFINE a == (n - 1) * M
             b == n * M
  <2> HIDE DEF a, b
  <2>4. a \in Nat /\ b = a + M /\ a < B
    BY <2>1 DEF a, b
  <2>5. End(n) = (IF b > B THEN B ELSE b) /\ End(n - 1) = IF a > B THEN B ELSE a
    BY <2>2, <2>3 DEF a, b
  <2>6. End(n) \in 1 .. B /\ a + 1 \in 1 .. End(n) /\ End(n - 1) = a
    BY <1>1, <2>4, <2>5
  <2> QED BY <2>6 DEF a
<1>8. End(Total) = B
  <2>1. End(Total) = IF Total * M > B THEN B ELSE Total * M
    BY DEF End, M, B
  <2>2. Total * M = M * Total
    BY <1>1, <1>2
  <2> QED BY <1>1, <1>3, <1>4, <2>1, <2>2
<1> QED BY <1>1, <1>2, <1>5, <1>7, <1>8 DEF M, B

\* A part is the bytes of its place.
LEMMA CutIs ==
    ASSUME NEW msg
    PROVE  /\ Cut(msg) = [n \in 1 .. Total |-> SubSeq(Marshal(msg), (n - 1) * MaxPartSize + 1, End(n))]
           /\ Len(Cut(msg)) = Total /\ DOMAIN Cut(msg) = 1 .. Total
<1>1. Len(Marshal(msg)) = BlockBytes
  BY PartsAssumption DEF Marshal
<1>2. Cut(msg) = [n \in 1 .. Total |-> SubSeq(Marshal(msg), (n - 1) * MaxPartSize + 1, End(n))]
  BY <1>1 DEF Cut, SplitByteArray, Total, End
<1>3. Total \in Nat
  BY PartEnds
<1> QED BY <1>2, <1>3

\* It is not empty, and its first byte tells which part of which message it is.
LEMMA PartTells ==
    ASSUME NEW msg, NEW n \in 1 .. Total
    PROVE  Cut(msg)[n] # <<>> /\ Cut(msg)[n][1] = <<"byte", (n - 1) * MaxPartSize + 1, msg>>
<1> DEFINE a == (n - 1) * MaxPartSize + 1
           d == Marshal(msg)
<1>1. a \in 1 .. End(n) /\ End(n) \in 1 .. BlockBytes /\ BlockBytes \in Nat \ {0}
  BY PartEnds
<1>2. Cut(msg)[n] = SubSeq(d, a, End(n))
  BY CutIs
<1> HIDE DEF a
<1>3. d \in Seq({<<"byte", k, msg>> : k \in 1 .. BlockBytes}) /\ Len(d) = BlockBytes /\ d[a] = <<"byte", a, msg>>
  BY <1>1 DEF Marshal
<1> HIDE DEF d
<1>4. SubSeq(d, a, End(n))[1] = d[a] /\ Len(SubSeq(d, a, End(n))) = End(n) - a + 1
  BY <1>1, <1>3
<1>5. SubSeq(d, a, End(n)) # <<>>
  <2>1. End(n) - a + 1 # 0 /\ Len(<<>>) = 0
    BY <1>1
  <2> QED BY <1>4, <2>1
<1> QED BY <1>2, <1>3, <1>4, <1>5 DEF a

\* The leaves of the tree.
LEMMA LeavesSeq ==
    ASSUME NEW msg
    PROVE  /\ Leaves(msg) \in Seq({Leaves(msg)[n] : n \in 1 .. Total}) /\ Len(Leaves(msg)) = Total
           /\ Leaves(msg) = [n \in DOMAIN Cut(msg) |-> PartLeaf(Cut(msg)[n])]
           /\ Leaves(msg) # <<>>
<1>1. Total \in Nat /\ Total >= 1
  BY PartEnds
<1>2. Leaves(msg) = [n \in DOMAIN Cut(msg) |-> PartLeaf(Cut(msg)[n])]
  BY CutIs DEF Leaves
<1>3. Leaves(msg) = [n \in 1 .. Total |-> Leaves(msg)[n]]
  BY DEF Leaves
<1> DEFINE L == Leaves(msg)
<1> HIDE DEF L
<1>4. L = [n \in 1 .. Total |-> L[n]]
  BY <1>3 DEF L
<1>5. L \in Seq({L[n] : n \in 1 .. Total}) /\ Len(L) = Total /\ L # <<>>
  BY <1>1, <1>4
<1> QED BY <1>2, <1>5 DEF L

\* The parts joined are the message.
LEMMA Joined ==
    ASSUME NEW msg
    PROVE  FlattenSeq([n \in 1 .. Total |-> Cut(msg)[n]]) = Marshal(msg)
<1> DEFINE q == [n \in 1 .. Total |-> Cut(msg)[n]]
           d == Marshal(msg)
           A(g) == g = [n \in 1 .. Total |-> IF n = 1 THEN q[n] ELSE g[n - 1] \o q[n]]
           V == [n \in 1 .. Total |-> SubSeq(d, 1, End(n))]
           D == {<<"byte", k, msg>> : k \in 1 .. BlockBytes}
<1>1. Total \in Nat /\ Total >= 1 /\ BlockBytes \in Nat \ {0}
  BY PartEnds
<1>2. Len(q) = Total
  BY <1>1
<1>3. FlattenSeq(q) = (CHOOSE g : A(g))[Total]
  <2> HIDE DEF q
  <2>1. Len(q) # 0
    BY <1>1, <1>2
  <2> QED BY <1>2, <2>1, Zenon DEF FlattenSeq
<1>4. d \in Seq(D) /\ Len(d) = BlockBytes
  BY <1>1 DEF Marshal
<1> HIDE DEF d, D
<1>5. ASSUME NEW n \in 1 .. Total PROVE q[n] = SubSeq(d, (n - 1) * MaxPartSize + 1, End(n))
  BY CutIs DEF d
<1> HIDE DEF q
<1>6. ASSUME NEW n \in 1 .. Total, NEW g, n # 1 => g[n - 1] = SubSeq(d, 1, End(n - 1))
      PROVE  (IF n = 1 THEN q[n] ELSE g[n - 1] \o q[n]) = SubSeq(d, 1, End(n))
  <2>1. /\ End(n) \in 1 .. BlockBytes /\ (n - 1) * MaxPartSize + 1 \in 1 .. End(n)
        /\ n > 1 => End(n - 1) = (n - 1) * MaxPartSize
    BY PartEnds
  <2>2. CASE n = 1
    <3>1. (n - 1) * MaxPartSize + 1 = 1
      BY <2>2, PartsAssumption
    <3> QED BY <1>5, <2>2, <3>1
  <2>3. CASE n # 1
    <3> DEFINE a == (n - 1) * MaxPartSize
               e == End(n)
    <3>1. g[n - 1] = SubSeq(d, 1, a) /\ q[n] = SubSeq(d, a + 1, e)
      BY <1>1, <1>5, <1>6, <2>1, <2>3
    <3>2. a + 1 \in 1 .. e /\ e \in 1 .. BlockBytes /\ a \in Int
      <4>1. (n - 1) \in Int /\ MaxPartSize \in Int
        BY PartsAssumption
      <4> QED BY <2>1, <4>1
    <3> HIDE DEF a, e
    <3>3. a \in Nat /\ a + 1 <= e /\ e <= Len(d) /\ e \in Nat
      BY <1>1, <1>4, <3>2
    <3>4. SubSeq(d, 1, a) \o SubSeq(d, a + 1, e) = SubSeq(d, 1, e)
      BY <1>4, <3>3
    <3> QED BY <2>3, <3>1, <3>4 DEF e
  <2> QED BY <2>2, <2>3
<1>7. A(V)
  <2>1. ASSUME NEW n \in 1 .. Total PROVE V[n] = IF n = 1 THEN q[n] ELSE V[n - 1] \o q[n]
    <3>1. n # 1 => n - 1 \in 1 .. Total
      BY <1>1
    <3>2. n # 1 => V[n - 1] = SubSeq(d, 1, End(n - 1))
      BY <3>1
    <3>3. V[n] = SubSeq(d, 1, End(n))
      OBVIOUS
    <3> HIDE DEF V
    <3> QED BY <1>6, <3>2, <3>3
  <2>2. V = [n \in 1 .. Total |-> V[n]]
    OBVIOUS
  <2> HIDE DEF V
  <2> QED BY <2>1, <2>2, Zenon
<1> DEFINE F == CHOOSE g : A(g)
<1>8. A(F)
  <2> HIDE DEF A, V
  <2> QED BY <1>7
<1> HIDE DEF F
<1>9. \A n \in 1 .. Total : F[n] = IF n = 1 THEN q[n] ELSE F[n - 1] \o q[n]
  BY <1>8, Zenon
<1> DEFINE G == {k \in 0 .. Total : k # 0 => F[k] = SubSeq(d, 1, End(k))}
<1>10. 0 \in G
  BY <1>1
<1>11. ASSUME NEW k \in 1 .. Total, k - 1 \in G PROVE k \in G
  <2>1. k # 1 => F[k - 1] = SubSeq(d, 1, End(k - 1))
    BY <1>1, <1>11
  <2>2. F[k] = SubSeq(d, 1, End(k))
    BY <1>6, <1>9, <2>1
  <2> QED BY <1>1, <2>2
<1>12. Total \in G
  <2> HIDE DEF G
  <2>1. \A k \in 0 .. Total : k \in G
    BY <1>1, <1>10, <1>11, Induct
  <2> QED BY <1>1, <2>1
<1>13. F[Total] = SubSeq(d, 1, BlockBytes)
  BY <1>1, <1>12, PartEnds
<1>14. SubSeq(d, 1, BlockBytes) = d
  BY <1>1, <1>4
<1> QED BY <1>3, <1>13, <1>14 DEF F, q, d

\* The part set of the block with a head.
SetOf(h) == PartSetFromBlock(h.chain, h.view, Round, Marshal(h.number), h.number)

LEMMA SetIs ==
    ASSUME NEW h
    PROVE  /\ SetOf(h).Header = [ChainID |-> h.chain, View |-> h.view, Round |-> Round, Total |-> Total,
                                 Root |-> HashFromByteSlices(Leaves(h.number))]
           /\ SetOf(h).BlockHeaderHash = h.number /\ DOMAIN SetOf(h).Parts = 1 .. Total
           /\ \A n \in 1 .. Total : SetOf(h).Parts[n] =
                 [ChainID |-> h.chain, View |-> h.view, Round |-> Round, Bytes |-> Cut(h.number)[n],
                  Proof |-> ProofsFromByteSlices(Leaves(h.number)).proofs[n]]
<1> DEFINE c == Cut(h.number)
           l == Leaves(h.number)
           made == ProofsFromByteSlices(l)
<1>1. Len(c) = Total /\ DOMAIN c = 1 .. Total
  BY CutIs
<1>2. l = [n \in DOMAIN c |-> PartLeaf(c[n])]
  BY LeavesSeq
<1>3. made.root = HashFromByteSlices(l)
  BY DEF ProofsFromByteSlices
<1>4. SetOf(h) = [Header |-> [ChainID |-> h.chain, View |-> h.view, Round |-> Round, Total |-> Len(c), Root |-> made.root],
                  Parts |-> [n \in DOMAIN c |-> [ChainID |-> h.chain, View |-> h.view, Round |-> Round,
                                                 Bytes |-> c[n], Proof |-> made.proofs[n]]],
                  BlockHeaderHash |-> h.number]
  <2> HIDE DEF l
  <2> QED BY <1>2 DEF SetOf, PartSetFromBlock, Cut
<1> HIDE DEF c, made, l
<1>5. /\ SetOf(h).Header = [ChainID |-> h.chain, View |-> h.view, Round |-> Round, Total |-> Total, Root |-> HashFromByteSlices(l)]
      /\ SetOf(h).BlockHeaderHash = h.number /\ DOMAIN SetOf(h).Parts = 1 .. Total
  BY <1>1, <1>3, <1>4
<1>6. ASSUME NEW n \in 1 .. Total
      PROVE  SetOf(h).Parts[n] = [ChainID |-> h.chain, View |-> h.view, Round |-> Round, Bytes |-> c[n], Proof |-> made.proofs[n]]
  BY <1>1, <1>4
<1> QED BY <1>5, <1>6 DEF c, made, l

\* The proof of a part.
LEMMA ProofIs ==
    ASSUME NEW msg, NEW n \in 1 .. Total
    PROVE  LET p == ProofsFromByteSlices(Leaves(msg)).proofs[n]
           IN  /\ p.Total = Total /\ p.Index = n - 1 /\ Len(p.Aunts) \in Nat
               /\ Verifies(p, HashFromByteSlices(Leaves(msg)), PartLeaf(Cut(msg)[n]))
<1> DEFINE l == Leaves(msg)
           p == ProofsFromByteSlices(l).proofs[n]
           S == {l[k] : k \in 1 .. Total}
<1>1. l \in Seq(S) /\ Len(l) = Total /\ Total \in Nat
  BY LeavesSeq, PartEnds
<1>2. l[n] = PartLeaf(Cut(msg)[n])
  BY DEF Leaves
<1> HIDE DEF l, S
<1>3. DOMAIN l = 1 .. Total
  BY <1>1
<1>4. p = [Total |-> Len(l), Index |-> n - 1, LeafHash |-> leafHash(l[n]), Aunts |-> FlattenAunts(l, n)]
  BY <1>3 DEF ProofsFromByteSlices
<1>5. FlattenAunts(l, n) \in Seq(Hashes(l))
  <2>1. <<1, Len(l)>> \in Runs(Len(l))
    BY <1>1, WholeRun
  <2>2. Len(l) \in Nat
    BY <1>1
  <2>3. AuntsOf(l, n)[<<1, Len(l)>>] \in Seq(Hashes(l))
    BY <2>1, <2>2, AuntsSeq
  <2> QED BY <2>2, <2>3, AuntTable
<1>6. Len(FlattenAunts(l, n)) \in Nat
  BY <1>5
<1>7. n \in 1 .. Len(l)
  BY <1>1
<1>8. Verifies(p, ProofsFromByteSlices(l).root, l[n])
  BY <1>1, <1>7, MerkleComplete
<1>9. ProofsFromByteSlices(l).root = HashFromByteSlices(l)
  BY DEF ProofsFromByteSlices
<1> HIDE DEF p
<1>10. p.Total = Total /\ p.Index = n - 1 /\ Len(p.Aunts) \in Nat
  BY <1>1, <1>4, <1>6
<1>11. Verifies(p, HashFromByteSlices(l), PartLeaf(Cut(msg)[n]))
  BY <1>2, <1>8, <1>9
<1> QED BY <1>10, <1>11 DEF p, l

\* AddPart takes a part if and only if it belongs to the block and its place is free.
LEMMA TakesIff ==
    ASSUME NEW g \in Heads, NEW h \in Heads, g.system = h.system, NEW n \in 1 .. Total, NEW have
    PROVE  Takes(SetOf(h).Header, have, SetOf(g).Parts[n]) <=> g.number = h.number /\ (n - 1) \notin DOMAIN have
<1> DEFINE p == SetOf(g).Parts[n]
           q == SetOf(h).Header
           pr == ProofsFromByteSlices(Leaves(g.number)).proofs[n]
           root == HashFromByteSlices(Leaves(h.number))
<1>1. p = [ChainID |-> g.chain, View |-> g.view, Round |-> Round, Bytes |-> Cut(g.number)[n], Proof |-> pr]
  BY SetIs
<1>2. q = [ChainID |-> h.chain, View |-> h.view, Round |-> Round, Total |-> Total, Root |-> root]
  BY SetIs
<1>3. /\ pr.Total = Total /\ pr.Index = n - 1 /\ Len(pr.Aunts) \in Nat
      /\ Verifies(pr, HashFromByteSlices(Leaves(g.number)), PartLeaf(Cut(g.number)[n]))
  BY ProofIs
<1> HIDE DEF p, q, pr, root
<1>4. Takes(q, have, p) <=> /\ (n - 1) \notin DOMAIN have
                            /\ h.view = g.view /\ h.chain = g.chain
                            /\ Verifies(pr, root, PartLeaf(Cut(g.number)[n]))
  BY <1>1, <1>2, <1>3 DEF Takes, VerifyPart
<1>5. CASE g.number = h.number
  <2>1. g = h
    BY <1>5, HeadsAssumption
  <2>2. Verifies(pr, root, PartLeaf(Cut(g.number)[n]))
    BY <1>3, <2>1 DEF root
  <2>3. Takes(q, have, p) <=> (n - 1) \notin DOMAIN have
    BY <1>4, <2>1, <2>2
  <2> QED BY <1>5, <2>3 DEF p, q
<1>6. CASE g.number # h.number
  <2> SUFFICES ASSUME Verifies(pr, root, PartLeaf(Cut(g.number)[n])) PROVE FALSE
    BY <1>4, <1>6 DEF p, q
  <2> DEFINE l == Leaves(h.number)
             S == {l[k] : k \in 1 .. Total}
             leaf == PartLeaf(Cut(g.number)[n])
  <2>1. l \in Seq(S) /\ Len(l) = Total /\ l # <<>>
    BY LeavesSeq
  <2>2. l[n] = PartLeaf(Cut(h.number)[n])
    BY DEF Leaves
  <2>3. Verifies(pr, HashFromByteSlices(l), leaf)
    BY DEF root
  <2> HIDE DEF l, S, leaf
  <2>4. pr.Index \in Int /\ pr.Index + 1 = n
    BY <1>3
  <2>5. leaf = l[n]
    BY <1>3, <2>1, <2>3, <2>4, MerkleSound
  <2>6. Cut(g.number)[n] = Cut(h.number)[n]
    BY <2>2, <2>5 DEF leaf, PartLeaf
  <2>7. <<"byte", (n - 1) * MaxPartSize + 1, g.number>> = <<"byte", (n - 1) * MaxPartSize + 1, h.number>>
    BY <2>6, PartTells
  <2> QED BY <1>6, <2>7
<1> QED BY <1>5, <1>6 DEF p, q

-----------------------------------------------------------------------------
(* The parts in the state. *)

\* The parts of a system's blocks.
LEMMA PartOfIs ==
    ASSUME NEW h \in Heads, h.system = system, NEW n \in 1 .. Total
    PROVE  <<h.number, n>> \in PartIds /\ PartOf(<<h.number, n>>) = SetOf(h).Parts[n]
<1> DEFINE x == [system |-> h.system, id |-> <<h.number, n>>, part |-> SetOf(h).Parts[n]]
           ps == [system |-> h.system, set |-> SetOf(h)]
<1>1. ps \in PartSets
  BY DEF PartSets, SetOf
<1>2. SetOf(h).BlockHeaderHash = h.number /\ n \in DOMAIN SetOf(h).Parts
  BY SetIs
<1>3. x \in AllParts
  <2>1. x \in {[system |-> ps.system, id |-> <<ps.set.BlockHeaderHash, m>>, part |-> ps.set.Parts[m]] : m \in DOMAIN ps.set.Parts}
    BY <1>2
  <2> HIDE DEF x, ps
  <2> QED BY <1>1, <2>1 DEF AllParts
<1>4. x.system = system /\ x.id = <<h.number, n>> /\ x.part = SetOf(h).Parts[n]
  OBVIOUS
<1>5. ASSUME NEW y \in AllParts, y.system = system, y.id = <<h.number, n>> PROVE y = x
  <2>1. PICK qs \in PartSets : y \in {[system |-> qs.system, id |-> <<qs.set.BlockHeaderHash, m>>, part |-> qs.set.Parts[m]] :
                                        m \in DOMAIN qs.set.Parts}
    BY Zenon DEF AllParts
  <2>2. PICK g \in Heads : qs = [system |-> g.system, set |-> SetOf(g)]
    BY DEF PartSets, SetOf
  <2>3. PICK m \in DOMAIN SetOf(g).Parts :
           y = [system |-> g.system, id |-> <<SetOf(g).BlockHeaderHash, m>>, part |-> SetOf(g).Parts[m]]
    BY <2>1, <2>2
  <2>4. SetOf(g).BlockHeaderHash = g.number
    BY SetIs
  <2>5. g.number = h.number /\ m = n /\ g.system = h.system
    BY <1>5, <2>3, <2>4
  <2>6. g = h
    BY <2>5, HeadsAssumption
  <2> QED BY <2>3, <2>4, <2>5, <2>6
<1> HIDE DEF x
<1>6. (CHOOSE y \in AllParts : y.system = system /\ y.id = <<h.number, n>>) = x
  BY <1>3, <1>4, <1>5
<1>7. PartOf(<<h.number, n>>) = SetOf(h).Parts[n]
  BY <1>4, <1>6, Zenon DEF PartOf
<1>8. <<h.number, n>> \in PartIds
  BY <1>3, <1>4 DEF PartIds
<1> QED BY <1>7, <1>8

LEMMA PartIdsAre ==
    ASSUME NEW id \in PartIds
    PROVE  \E h \in Heads, n \in 1 .. Total : h.system = system /\ id = <<h.number, n>>
<1>1. PICK y \in AllParts : y.system = system /\ y.id = id
  BY DEF PartIds
<1>2. PICK qs \in PartSets : y \in {[system |-> qs.system, id |-> <<qs.set.BlockHeaderHash, m>>, part |-> qs.set.Parts[m]] :
                                      m \in DOMAIN qs.set.Parts}
  BY Zenon DEF AllParts
<1>3. PICK g \in Heads : qs = [system |-> g.system, set |-> SetOf(g)]
  BY DEF PartSets, SetOf
<1>4. PICK m \in DOMAIN SetOf(g).Parts :
         y = [system |-> g.system, id |-> <<SetOf(g).BlockHeaderHash, m>>, part |-> SetOf(g).Parts[m]]
  BY <1>2, <1>3
<1>5. SetOf(g).BlockHeaderHash = g.number /\ m \in 1 .. Total
  BY SetIs
<1> QED BY <1>1, <1>4, <1>5

\* The block that travels has a head, and its part set is the one of PartSet.
LEMMA OwnSet ==
    ASSUME wire \in Wire
    PROVE  \E h \in Heads : h.system = system /\ h.number = blk /\ PartSet = SetOf(h)
<1>1. PICK x \in Blocks : wire.system = x.system /\ wire.number = x.number
  <2>1. PICK x \in Blocks : wire \in {Judged(x, b) : b \in {FromProto(x.system, ToProto(x.system, BlockOf(x)))}}
    BY Zenon DEF Wire
  <2>2. PICK b : wire = Judged(x, b)
    BY <2>1
  <2> QED BY <2>2 DEF Judged
<1>2. PICK h \in Heads : h.system = system /\ h.number = blk
  BY <1>1, HeadsAssumption DEF system, blk
<1> DEFINE ps == [system |-> h.system, set |-> SetOf(h)]
<1>3. ps \in PartSets /\ ps.system = system /\ ps.set.BlockHeaderHash = blk
  <2>1. SetOf(h).BlockHeaderHash = h.number
    BY SetIs
  <2>2. ps \in PartSets
    BY DEF PartSets, SetOf
  <2> QED BY <1>2, <2>1, <2>2
<1>4. ASSUME NEW qs \in PartSets, qs.system = system, qs.set.BlockHeaderHash = blk PROVE qs = ps
  <2>1. PICK g \in Heads : qs = [system |-> g.system, set |-> SetOf(g)]
    BY DEF PartSets, SetOf
  <2>2. g.number = blk /\ g.system = system
    BY <1>4, <2>1, SetIs
  <2>3. g = h
    BY <1>2, <2>2, HeadsAssumption
  <2> QED BY <2>1, <2>3
<1> HIDE DEF ps
<1> DEFINE Own(qs) == qs.system = system /\ qs.set.BlockHeaderHash = blk
<1>5. ps \in PartSets /\ Own(ps) /\ \A qs \in PartSets : Own(qs) => qs = ps
  BY <1>3, <1>4
<1>6. PartSet = (CHOOSE qs \in PartSets : Own(qs)).set
  BY DEF PartSet
<1> HIDE DEF Own
<1>7. (CHOOSE qs \in PartSets : Own(qs)) = ps
  BY <1>5
<1>8. PartSet = SetOf(h)
  <2>1. ps.set = SetOf(h)
    BY DEF ps
  <2> QED BY <1>6, <1>7, <2>1, Zenon
<1> QED BY <1>2, <1>8

\* The block's own parts.
LEMMA OwnPartsAre ==
    ASSUME wire \in Wire
    PROVE  OwnParts = {<<blk, n>> : n \in 1 .. Total}
<1>1. PICK h \in Heads : h.system = system /\ h.number = blk
  BY OwnSet
<1>2. ASSUME NEW n \in 1 .. Total PROVE <<blk, n>> \in OwnParts
  <2>1. <<blk, n>> \in PartIds
    BY <1>1, PartOfIs
  <2> QED BY <2>1 DEF OwnParts
<1>3. ASSUME NEW id \in OwnParts PROVE \E n \in 1 .. Total : id = <<blk, n>>
  <2>1. id \in PartIds /\ id[1] = blk
    BY DEF OwnParts
  <2>2. PICK g \in Heads, n \in 1 .. Total : id = <<g.number, n>>
    BY <2>1, PartIdsAre
  <2>3. g.number = blk
    BY <2>1, <2>2
  <2> QED BY <2>2, <2>3
<1> QED BY <1>2, <1>3

\* The part set of block b with those of its parts that are in S.
Slots(b, S) == {i \in 0 .. (Total - 1) : <<b, i + 1>> \in S}
Have(b, S) == [i \in Slots(b, S) |-> <<b, i + 1>>]

\* AddPart adds a part of the block, and leaves out a part of another one.
LEMMA AddOne ==
    ASSUME wire \in Wire, NEW S, NEW id \in PartIds
    PROVE  AddPart(Have(blk, S), id) = Have(blk, S \cup {id})
<1>1. PICK h \in Heads : h.system = system /\ h.number = blk /\ PartSet = SetOf(h)
  BY OwnSet
<1>2. PICK g \in Heads, n \in 1 .. Total : g.system = system /\ id = <<g.number, n>>
  BY PartIdsAre
<1> DEFINE p == SetOf(g).Parts[n]
           have == Have(blk, S)
<1>3. PartOf(id) = p
  BY <1>2, PartOfIs
<1>4. p.Proof.Index = n - 1
  <2>1. p.Proof = ProofsFromByteSlices(Leaves(g.number)).proofs[n]
    <3>1. p = [ChainID |-> g.chain, View |-> g.view, Round |-> Round, Bytes |-> Cut(g.number)[n],
               Proof |-> ProofsFromByteSlices(Leaves(g.number)).proofs[n]]
      BY SetIs
    <3> HIDE DEF p
    <3> QED BY <3>1
  <2> HIDE DEF p
  <2> QED BY <2>1, ProofIs
<1>5. Takes(PartSet.Header, have, p) <=> g.number = blk /\ (n - 1) \notin DOMAIN have
  <2> HIDE DEF have
  <2> QED BY <1>1, <1>2, TakesIff
<1> HIDE DEF p
<1>6. AddPart(have, id) = IF g.number = blk /\ (n - 1) \notin DOMAIN have
                          THEN [m \in DOMAIN have \cup {n - 1} |-> IF m = n - 1 THEN id ELSE have[m]] ELSE have
  <2> HIDE DEF have
  <2> QED BY <1>3, <1>4, <1>5 DEF AddPart
<1>7. n - 1 \in 0 .. (Total - 1) /\ (n - 1) + 1 = n /\ Total \in Nat
  BY PartEnds
<1>8. DOMAIN have = Slots(blk, S) /\ \A m \in Slots(blk, S) : have[m] = <<blk, m + 1>>
  BY DEF Have
<1>9. CASE g.number = blk
  <2>1. Slots(blk, S \cup {id}) = Slots(blk, S) \cup {n - 1}
    <3>1. ASSUME NEW i \in 0 .. (Total - 1) PROVE <<blk, i + 1>> = id <=> i = n - 1
      <4>1. id = <<blk, n>>
        BY <1>2, <1>9
      <4>2. i + 1 = n <=> i = n - 1
        BY <1>7
      <4> QED BY <4>1, <4>2
    <3> QED BY <1>7, <3>1 DEF Slots
  <2>2. CASE (n - 1) \in Slots(blk, S)
    <3>1. Slots(blk, S \cup {id}) = Slots(blk, S)
      BY <2>1, <2>2
    <3>2. AddPart(have, id) = have
      BY <1>6, <1>8, <2>2
    <3> QED BY <3>1, <3>2 DEF Have
  <2>3. CASE (n - 1) \notin Slots(blk, S)
    <3>1. AddPart(have, id) = [m \in Slots(blk, S) \cup {n - 1} |-> IF m = n - 1 THEN id ELSE have[m]]
      BY <1>6, <1>8, <1>9, <2>3
    <3>2. ASSUME NEW m \in Slots(blk, S) \cup {n - 1} PROVE (IF m = n - 1 THEN id ELSE have[m]) = <<blk, m + 1>>
      BY <1>2, <1>7, <1>8, <1>9
    <3> QED BY <2>1, <3>1, <3>2 DEF Have
  <2> QED BY <2>2, <2>3
<1>10. CASE g.number # blk
  <2>1. \A i \in 0 .. (Total - 1) : <<blk, i + 1>> # id
    BY <1>2, <1>10
  <2>2. Slots(blk, S \cup {id}) = Slots(blk, S)
    BY <2>1 DEF Slots
  <2> QED BY <1>6, <1>10, <2>2 DEF Have
<1> QED BY <1>9, <1>10

\* The parts that came early, added one by one.
LEMMA AddAll ==
    ASSUME wire \in Wire, NEW q \in Seq(PartIds)
    PROVE  FoldLeft(AddPart, <<>>, q) = Have(blk, Range(q))
<1> DEFINE S == DOMAIN q
           In(s) == {q[i] : i \in s}
           step(g, s) == IF s = {} THEN <<>> ELSE AddPart(g[s \ {Max(s)}], q[Max(s)])
           A(g) == g = [s \in SUBSET S |-> step(g, s)]
           table == CHOOSE g : A(g)
           V == [s \in SUBSET S |-> Have(blk, In(s))]
<1>1. FoldLeft(AddPart, <<>>, q) = table[S]
  BY DEF FoldLeft, MapThenFoldSet
<1>2. Positions(S) /\ IsFiniteSet(S) /\ \A i \in S : q[i] \in PartIds
  <2>1. S = 1 .. Len(q) /\ Len(q) \in Nat
    BY LenProperties
  <2>2. IsFiniteSet(S)
    BY <2>1, FS_Interval
  <2>3. \A i \in S : q[i] \in PartIds
    BY <2>1
  <2> QED BY <2>1, <2>2, <2>3 DEF Positions
<1>3. ASSUME NEW s \in SUBSET S, s # {} PROVE Max(s) \in s
  <2>1. Positions(s)
    BY <1>2, PositionsIn
  <2> QED BY <1>3, <2>1, MaxIn
<1> HIDE DEF S
<1>4. ASSUME NEW g, NEW s \in SUBSET S, s # {} => g[s \ {Max(s)}] = Have(blk, In(s \ {Max(s)}))
      PROVE  step(g, s) = Have(blk, In(s))
  <2>1. CASE s = {}
    <3>1. Slots(blk, In(s)) = {}
      BY <2>1 DEF Slots
    <3>2. Have(blk, In(s)) = <<>>
      BY <3>1 DEF Have
    <3> QED BY <2>1, <3>2
  <2>2. CASE s # {}
    <3> DEFINE i == Max(s)
               u == s \ {i}
    <3>1. i \in s
      BY <1>3, <2>2
    <3>2. q[i] \in PartIds /\ In(u) \cup {q[i]} = In(s)
      BY <1>2, <3>1
    <3>3. step(g, s) = AddPart(Have(blk, In(u)), q[i])
      BY <1>4, <2>2
    <3> HIDE DEF i, u, step, In
    <3>4. AddPart(Have(blk, In(u)), q[i]) = Have(blk, In(u) \cup {q[i]})
      BY <3>2, AddOne
    <3> QED BY <3>2, <3>3, <3>4
  <2> QED BY <2>1, <2>2
<1> HIDE DEF In
<1>5. A(V)
  <2>1. ASSUME NEW s \in SUBSET S PROVE V[s] = step(V, s)
    <3>1. s \ {Max(s)} \in SUBSET S
      OBVIOUS
    <3>2. V[s \ {Max(s)}] = Have(blk, In(s \ {Max(s)})) /\ V[s] = Have(blk, In(s))
      BY <3>1
    <3> HIDE DEF V, step
    <3> QED BY <1>4, <3>2
  <2>2. V = [s \in SUBSET S |-> V[s]]
    OBVIOUS
  <2> HIDE DEF V, step
  <2> QED BY <2>1, <2>2
<1>6. A(table)
  <2> HIDE DEF A, V
  <2> QED BY <1>5
<1> HIDE DEF table
<1>7. \A s \in SUBSET S : table[s] = step(table, s)
  <2> HIDE DEF step
  <2> QED BY <1>6, Zenon
<1> DEFINE T == {s \in SUBSET S : table[s] # Have(blk, In(s))}
<1>8. T = {}
  <2> SUFFICES ASSUME T # {} PROVE FALSE
    OBVIOUS
  <2>1. T \in SUBSET SUBSET S
    OBVIOUS
  <2>2. PICK x \in T : \A y \in T : y \subseteq x => y = x
    <3> HIDE DEF T
    <3> QED BY <1>2, <2>1, MinimalSubset
  <2>3. x # {} => table[x \ {Max(x)}] = Have(blk, In(x \ {Max(x)}))
    <3> SUFFICES ASSUME x # {} PROVE table[x \ {Max(x)}] = Have(blk, In(x \ {Max(x)}))
      OBVIOUS
    <3>1. Max(x) \in x
      BY <1>3, <2>2
    <3>2. x \ {Max(x)} \in SUBSET S /\ x \ {Max(x)} \subseteq x /\ x \ {Max(x)} # x
      BY <2>2, <3>1
    <3> QED BY <2>2, <3>2
  <2> HIDE DEF step
  <2>4. step(table, x) = Have(blk, In(x))
    BY <1>4, <2>2, <2>3
  <2> QED BY <1>7, <2>2, <2>4
<1>9. table[S] = Have(blk, In(S))
  BY <1>8
<1> QED BY <1>1, <1>9 DEF In, S, Range

\* Only the block's own parts matter.
LEMMA HaveOwn ==
    ASSUME wire \in Wire, NEW S
    PROVE  Have(blk, S) = Have(blk, OwnParts \cap S)
<1>1. \A i \in 0 .. (Total - 1) : <<blk, i + 1>> \in OwnParts
  <2> SUFFICES ASSUME NEW i \in 0 .. (Total - 1) PROVE <<blk, i + 1>> \in OwnParts
    OBVIOUS
  <2>1. i + 1 \in 1 .. Total
    BY PartEnds
  <2> QED BY <2>1, OwnPartsAre
<1>2. Slots(blk, S) = Slots(blk, OwnParts \cap S)
  BY <1>1 DEF Slots
<1> QED BY <1>2 DEF Have

(***************************************************************************)
(* The block is rebuilt.                                                   *)
(***************************************************************************)

\* The part set that has all parts of the block, and the leaves of the tree over them.
LEMMA WholeSet ==
    ASSUME wire \in Wire
    PROVE  LET have == Have(blk, OwnParts)
           IN  /\ DOMAIN have = 0 .. (Total - 1) /\ Cardinality(DOMAIN have) = Total
               /\ \A n \in 1 .. Total : PartOf(have[n - 1]).Bytes = Cut(blk)[n]
               /\ PartSet.Header.Root = HashFromByteSlices(Leaves(blk))
<1>1. PICK h \in Heads : h.system = system /\ h.number = blk /\ PartSet = SetOf(h)
  BY OwnSet
<1>2. PartSet.Header = [ChainID |-> h.chain, View |-> h.view, Round |-> Round, Total |-> Total,
                        Root |-> HashFromByteSlices(Leaves(h.number))]
  BY <1>1, SetIs
<1>3. Total \in Nat /\ OwnParts = {<<blk, n>> : n \in 1 .. Total}
  BY PartEnds, OwnPartsAre
<1> DEFINE have == Have(blk, OwnParts)
           all == 0 .. (Total - 1)
<1>4. Slots(blk, OwnParts) = all
  <2> SUFFICES ASSUME NEW i \in all PROVE <<blk, i + 1>> \in OwnParts
    BY DEF Slots
  <2>1. i + 1 \in 1 .. Total
    BY <1>3
  <2> QED BY <1>3, <2>1
<1>5. DOMAIN have = all /\ Cardinality(all) = Total
  BY <1>3, <1>4, FS_Interval DEF Have
<1>6. ASSUME NEW n \in 1 .. Total PROVE PartOf(have[n - 1]).Bytes = Cut(blk)[n]
  <2>1. n - 1 \in all /\ (n - 1) + 1 = n
    BY <1>3
  <2>2. have[n - 1] = <<h.number, n>>
    BY <1>1, <1>4, <2>1 DEF Have
  <2>3. PartOf(<<h.number, n>>) = SetOf(h).Parts[n]
    BY <1>1, PartOfIs
  <2>4. SetOf(h).Parts[n] = [ChainID |-> h.chain, View |-> h.view, Round |-> Round, Bytes |-> Cut(h.number)[n],
                             Proof |-> ProofsFromByteSlices(Leaves(h.number)).proofs[n]]
    BY SetIs
  <2> HIDE DEF have
  <2>5. PartOf(have[n - 1]) = SetOf(h).Parts[n]
    BY <2>2, <2>3
  <2>6. PartOf(have[n - 1]).Bytes = Cut(h.number)[n]
    BY <2>4, <2>5
  <2> QED BY <1>1, <2>6
<1>7. PartSet.Header.Root = HashFromByteSlices(Leaves(blk))
  BY <1>1, <1>2
<1> HIDE DEF have, all
<1>8. DOMAIN have = all /\ Cardinality(DOMAIN have) = Total
  BY <1>5
<1> QED BY <1>6, <1>7, <1>8 DEF have, all

\* A set is complete with all parts, and then they are the block.
LEMMA CollectedIs ==
    ASSUME wire \in Wire, NEW S \in SUBSET OwnParts
    PROVE  Collected(Have(blk, S)) = IF S = OwnParts THEN blk ELSE Nil
<1>1. PICK h \in Heads : h.system = system /\ h.number = blk /\ PartSet = SetOf(h)
  BY OwnSet
<1>2. PartSet.Header = [ChainID |-> h.chain, View |-> h.view, Round |-> Round, Total |-> Total,
                        Root |-> HashFromByteSlices(Leaves(h.number))]
  BY <1>1, SetIs
<1>3. PartSet.Header.Total = Total /\ PartSet.Header.ChainID = h.chain /\ PartSet.Header.View = h.view
  BY <1>2
<1>4. h.chain = wire.chain /\ h.view = wire.view
  BY <1>1, HeadsAssumption, BlockSurvives DEF Survives, system, blk
<1>5. Total \in Nat /\ Total >= 1 /\ BlockBytes \in Nat \ {0}
  BY PartEnds
<1>6. OwnParts = {<<blk, n>> : n \in 1 .. Total}
  BY OwnPartsAre
<1> DEFINE all == 0 .. (Total - 1)
<1>7. IsComplete(PartSet.Header, Have(blk, S)) <=> S = OwnParts
  <2>1. DOMAIN Have(blk, S) = Slots(blk, S)
    BY DEF Have
  <2>2. Slots(blk, S) \in SUBSET all
    BY DEF Slots
  <2>3. IsFiniteSet(all) /\ Cardinality(all) = Total
    BY <1>5, FS_Interval
  <2>4. Cardinality(Slots(blk, S)) = Total <=> Slots(blk, S) = all
    <3> HIDE DEF all
    <3> QED BY <2>2, <2>3, FS_Subset
  <2>5. Slots(blk, S) = all <=> S = OwnParts
    <3>1. ASSUME Slots(blk, S) = all PROVE OwnParts \subseteq S
      <4> SUFFICES ASSUME NEW n \in 1 .. Total PROVE <<blk, n>> \in S
        BY <1>6
      <4>1. n - 1 \in all /\ (n - 1) + 1 = n
        BY <1>5
      <4> HIDE DEF all
      <4>2. <<blk, (n - 1) + 1>> \in S
        BY <3>1, <4>1 DEF Slots
      <4> QED BY <4>1, <4>2
    <3>2. ASSUME S = OwnParts PROVE all \subseteq Slots(blk, S)
      <4> SUFFICES ASSUME NEW i \in all PROVE <<blk, i + 1>> \in OwnParts
        BY <3>2 DEF Slots
      <4>1. i + 1 \in 1 .. Total
        BY <1>5
      <4> QED BY <1>6, <4>1
    <3> QED BY <2>2, <3>1, <3>2
  <2> QED BY <1>3, <2>1, <2>4, <2>5 DEF IsComplete
<1>8. ASSUME S = OwnParts PROVE GenBlock(Have(blk, S)) = blk
  <2> DEFINE have == Have(blk, S)
             bz == FlattenSeq([n \in 1 .. PartSet.Header.Total |-> PartOf(have[n - 1]).Bytes])
             d == Marshal(blk)
  <2>1. ASSUME NEW n \in 1 .. Total PROVE PartOf(have[n - 1]).Bytes = Cut(blk)[n]
    BY <1>8, WholeSet
  <2> HIDE DEF have
  <2>2. [n \in 1 .. PartSet.Header.Total |-> PartOf(have[n - 1]).Bytes] = [n \in 1 .. Total |-> Cut(blk)[n]]
    BY <1>3, <2>1
  <2>3. bz = d
    BY <2>2, Joined
  <2>4. d # <<>> /\ d[1][3] = blk
    <3>1. d[1] = <<"byte", 1, blk>> /\ Len(d) = BlockBytes
      BY <1>5 DEF Marshal
    <3> HIDE DEF d
    <3>2. Len(<<>>) = 0
      OBVIOUS
    <3>3. d # <<>>
      BY <1>5, <3>1, <3>2
    <3> QED BY <3>1, <3>3
  <2>5. Unmarshals(d) /\ Unmarshal(d) = blk
    <3>1. d = Marshal(blk)
      OBVIOUS
    <3> HIDE DEF d
    <3> QED BY <2>4, <3>1 DEF Unmarshals, Unmarshal
  <2>6. GenBlock(have) = IF /\ Unmarshals(bz) /\ Unmarshal(bz) = blk
                            /\ wire.chain = PartSet.Header.ChainID /\ wire.view = PartSet.Header.View
                            /\ wire.valid /\ wire.hash
                         THEN blk ELSE 0
    BY DEF GenBlock
  <2> HIDE DEF bz, d
  <2>7. Unmarshals(bz) /\ Unmarshal(bz) = blk
    BY <2>3, <2>5
  <2>8. GenBlock(have) = blk
    BY <1>3, <1>4, <2>6, <2>7, BlockSurvives DEF Survives
  <2> QED BY <2>8 DEF have
<1> QED BY <1>7, <1>8 DEF Collected

\* The parts of a system's blocks, and those of a block.
Ids(sys) == {<<h.number, n>> : h \in {g \in Heads : g.system = sys}, n \in 1 .. Total}
Own(b) == {<<b, n>> : n \in 1 .. Total}

LEMMA IdsAre == PartIds = Ids(wire.system)
<1>1. ASSUME NEW id \in PartIds PROVE id \in Ids(wire.system)
  BY PartIdsAre DEF Ids, system
<1>2. ASSUME NEW id \in Ids(wire.system) PROVE id \in PartIds
  <2>1. PICK h \in Heads, n \in 1 .. Total : h.system = system /\ id = <<h.number, n>>
    BY DEF Ids, system
  <2> QED BY <2>1, PartOfIs
<1> QED BY <1>1, <1>2

\* The follower has all parts of the block that came to it and no other, and the block when it has all:
\* before the proposal they are among the early ones, then in the part set.
AssemblyInv ==
    /\ wire \in Wire /\ proposed \in BOOLEAN
    /\ early \in Seq(Ids(wire.system)) /\ seen \in SUBSET Own(wire.number)
    /\ proposed => /\ parts = Have(wire.number, seen)
                   /\ rebuilt = IF seen = Own(wire.number) THEN wire.number ELSE Nil
    /\ ~proposed => parts = <<>> /\ rebuilt = Nil /\ seen = Own(wire.number) \cap Range(early)

(* What the follower has of the block is AssemblyInv, always. *)
THEOREM AssemblyCorrect == Spec => []AssemblyInv
<1>1. Init => AssemblyInv
  <2> SUFFICES ASSUME Init PROVE AssemblyInv
    OBVIOUS
  <2>1. early = <<>> /\ proposed = FALSE /\ seen = {} /\ parts = <<>> /\ rebuilt = Nil /\ wire \in Wire
    BY DEF Init
  <2>2. Range(early) = {} /\ early \in Seq(Ids(wire.system))
    BY <2>1 DEF Range
  <2> QED BY <2>1, <2>2 DEF AssemblyInv
<1>2. AssemblyInv /\ [Next]_vars => AssemblyInv'
  <2> SUFFICES ASSUME AssemblyInv, [Next]_vars PROVE AssemblyInv'
    OBVIOUS
  <2> DEFINE w == wire
             b == wire.number
             own == Own(b)
             ids == Ids(wire.system)
  <2>1. w \in Wire /\ proposed \in BOOLEAN /\ early \in Seq(ids) /\ seen \in SUBSET own
    BY DEF AssemblyInv
  <2>2. proposed => parts = Have(b, seen) /\ rebuilt = IF seen = own THEN b ELSE Nil
    BY DEF AssemblyInv
  <2>3. ~proposed => parts = <<>> /\ rebuilt = Nil /\ seen = own \cap Range(early)
    BY DEF AssemblyInv
  <2>4. PartIds = ids /\ OwnParts = own /\ blk = b
    BY <2>1, IdsAre, OwnPartsAre DEF Own, blk
  <2>5. ASSUME NEW signer \in Validator, ReceiveProposal(signer) PROVE AssemblyInv'
    <3> DEFINE have == FoldLeft(AddPart, <<>>, early)
    <3>1. /\ ~proposed /\ proposed' = TRUE /\ parts' = have /\ early' = <<>> /\ rebuilt' = Collected(have)
          /\ wire' = wire /\ seen' = seen
      BY <2>5 DEF ReceiveProposal
    <3>2. have = Have(blk, Range(early))
      BY <2>1, <2>4, AddAll
    <3>3. Have(blk, Range(early)) = Have(blk, seen)
      BY <2>1, <2>3, <2>4, <3>1, HaveOwn
    <3>4. Collected(Have(blk, seen)) = IF seen = OwnParts THEN blk ELSE Nil
      BY <2>1, <2>4, CollectedIs
    <3> HIDE DEF have
    <3>5. parts' = Have(b, seen) /\ rebuilt' = IF seen = own THEN b ELSE Nil
      BY <2>4, <3>1, <3>2, <3>3, <3>4
    <3>6. <<>> \in Seq(ids)
      OBVIOUS
    <3> QED BY <2>1, <3>1, <3>5, <3>6 DEF AssemblyInv
  <2>6. ASSUME NEW id \in PartIds, ReceivePart(id) PROVE AssemblyInv'
    <3>1. seen' = seen \cup ({id} \cap own) /\ wire' = wire /\ proposed' = proposed
      BY <2>4, <2>6 DEF ReceivePart
    <3>2. seen' \in SUBSET own
      BY <2>1, <3>1
    <3>3. CASE ~proposed
      <4>1. early' = Append(early, id) /\ parts' = parts /\ rebuilt' = rebuilt
        BY <2>6, <3>3 DEF ReceivePart
      <4>2. early' \in Seq(ids) /\ Range(early') = Range(early) \cup {id}
        <5>1. id \in ids /\ Len(early) \in Nat /\ early' \in Seq(ids)
          BY <2>1, <2>4, <4>1
        <5>2. /\ DOMAIN early = 1 .. Len(early) /\ DOMAIN early' = 1 .. (Len(early) + 1)
              /\ early'[Len(early) + 1] = id /\ \A n \in 1 .. Len(early) : early'[n] = early[n]
          BY <2>1, <4>1, <5>1
        <5>3. DOMAIN early' = DOMAIN early \cup {Len(early) + 1}
          BY <5>1, <5>2
        <5> QED BY <5>1, <5>2, <5>3 DEF Range
      <4>3. seen' = own \cap Range(early')
        BY <2>3, <3>1, <3>3, <4>2
      <4> HIDE DEF own, ids
      <4> QED BY <2>1, <2>3, <3>1, <3>2, <3>3, <4>1, <4>2, <4>3 DEF AssemblyInv, own, ids
    <3>4. CASE proposed
      <4>1. parts' = AddPart(parts, id) /\ early' = early /\ rebuilt' = IF parts' = parts THEN rebuilt ELSE Collected(parts')
        BY <2>6, <3>4 DEF ReceivePart
      <4>2. parts = Have(blk, seen)
        BY <2>2, <2>4, <3>4
      <4>3. parts' = Have(blk, seen \cup {id})
        BY <2>1, <4>1, <4>2, AddOne
      <4>4. Have(blk, seen \cup {id}) = Have(blk, seen')
        <5>1. own \cap (seen \cup {id}) = seen'
          BY <2>1, <3>1
        <5>2. Have(blk, seen \cup {id}) = Have(blk, OwnParts \cap (seen \cup {id}))
          BY <2>1, HaveOwn
        <5> QED BY <2>4, <5>1, <5>2
      <4>5. parts' = Have(blk, seen')
        BY <4>3, <4>4
      <4>6. Collected(Have(blk, seen)) = (IF seen = own THEN blk ELSE Nil)
        BY <2>1, <2>4, CollectedIs
      <4>7. Collected(Have(blk, seen')) = (IF seen' = own THEN blk ELSE Nil)
        BY <2>1, <2>4, <3>2, CollectedIs
      <4>8. rebuilt' = IF seen' = own THEN blk ELSE Nil
        <5> HIDE DEF own
        <5>1. rebuilt = Collected(Have(blk, seen))
          BY <2>2, <2>4, <3>4, <4>6
        <5>2. CASE parts' = parts
          BY <4>1, <4>2, <4>5, <4>7, <5>1, <5>2
        <5>3. CASE parts' # parts
          BY <4>1, <4>5, <4>7, <5>3
        <5> QED BY <5>2, <5>3
      <4> HIDE DEF own, ids
      <4> QED BY <2>1, <2>4, <3>1, <3>2, <3>4, <4>1, <4>5, <4>8 DEF AssemblyInv, own, ids
    <3> QED BY <2>1, <3>3, <3>4
  <2>7. CASE \/ \E vote \in Ballot, i, signer \in Validator : AddVote(i, signer, vote)
             \/ MakeCertificate
             \/ \E a \in wire.messages : ReceiveCSM(a)
             \/ UNCHANGED vars
    <3>1. UNCHANGED <<wire, proposed, early, parts, rebuilt, seen>>
      BY <2>7 DEF AddVote, MakeCertificate, ReceiveCSM, vars
    <3> QED BY <3>1 DEF AssemblyInv
  <2> QED BY <2>5, <2>6, <2>7 DEF Next
<1> QED BY <1>1, <1>2, PTL DEF Spec

(* For every division of the bytes into parts and every order, loss and repetition of what arrives: a
   follower that has the proposal and all parts of the block has the block, and it never has another one. *)
THEOREM BlockRebuiltCorrect == Spec => []BlockRebuilt
<1>1. AssemblyInv => BlockRebuilt
  <2> SUFFICES ASSUME AssemblyInv PROVE BlockRebuilt
    OBVIOUS
  <2>1. wire \in Wire /\ Survives(wire) /\ proposed \in BOOLEAN /\ seen \in SUBSET Own(blk)
    BY BlockSurvives DEF AssemblyInv, blk
  <2>2. OwnParts = Own(blk)
    BY <2>1, OwnPartsAre DEF Own
  <2>3. proposed => rebuilt = IF seen = Own(blk) THEN blk ELSE Nil
    BY DEF AssemblyInv, blk
  <2>4. ~proposed => rebuilt = Nil
    BY DEF AssemblyInv
  <2>5. proposed /\ OwnParts \subseteq seen => rebuilt = blk
    BY <2>1, <2>2, <2>3
  <2>6. rebuilt # Nil => rebuilt = blk /\ wire.again
    BY <2>1, <2>3, <2>4 DEF Survives
  <2> QED BY <2>5, <2>6 DEF BlockRebuilt
<1> QED BY <1>1, AssemblyCorrect, PTL

\* The last answer is one to a message about the block before.
AnswerInv == wire \in Wire /\ (answer = Nil \/ answer \in wire.messages)

(* Of the messages of any leader exactly those with the right outputs and the right brief are accepted, and
   the root in the proposal is the one that the iterative algorithm computes from the parts collected. *)
THEOREM ProofsExactCorrect == Spec => []ProofsExact
<1>1. Init => AnswerInv
  BY DEF Init, AnswerInv
<1>2. AnswerInv /\ [Next]_vars => AnswerInv'
  <2> SUFFICES ASSUME AnswerInv, [Next]_vars PROVE AnswerInv'
    OBVIOUS
  <2>1. CASE \E a \in wire.messages : ReceiveCSM(a)
    BY <2>1 DEF ReceiveCSM, AnswerInv
  <2>2. CASE \/ \E signer \in Validator : ReceiveProposal(signer)
             \/ \E id \in PartIds : ReceivePart(id)
             \/ \E vote \in Ballot, i, signer \in Validator : AddVote(i, signer, vote)
             \/ MakeCertificate
             \/ UNCHANGED vars
    <3>1. UNCHANGED <<wire, answer>>
      BY <2>2 DEF ReceiveProposal, ReceivePart, AddVote, MakeCertificate, vars
    <3> QED BY <3>1 DEF AnswerInv
  <2> QED BY <2>1, <2>2 DEF Next
<1>3. AnswerInv /\ AssemblyInv => ProofsExact
  <2> SUFFICES ASSUME AnswerInv, AssemblyInv PROVE ProofsExact
    OBVIOUS
  <2>1. answer # Nil => (answer.ok <=> answer.proofs = 0 \/ (answer.same /\ answer.brief = "own"))
    <3> SUFFICES ASSUME answer # Nil
                 PROVE  answer.ok <=> answer.proofs = 0 \/ (answer.same /\ answer.brief = "own")
      OBVIOUS
    <3>1. PICK x \in Blocks : wire \in {Judged(x, b) : b \in {FromProto(x.system, ToProto(x.system, BlockOf(x)))}}
      BY Zenon DEF Wire, AnswerInv
    <3>2. PICK b : wire = Judged(x, b)
      BY <3>1
    <3>3. answer \in Messages(x)
      BY <3>2 DEF Judged, AnswerInv
    <3> QED BY <3>3, MessageExact
  <2>2. ASSUME rebuilt # Nil
        PROVE  PartSet.Header.Root = HashFromByteSlicesIterative(
                   [n \in 1 .. Cardinality(DOMAIN parts) |-> PartLeaf(PartOf(parts[n - 1]).Bytes)])
    <3>1. wire \in Wire /\ OwnParts = Own(blk)
      BY OwnPartsAre DEF AnswerInv, Own
    <3>2. parts = Have(blk, OwnParts)
      BY <2>2, <3>1 DEF AssemblyInv, blk
    <3>3. /\ Cardinality(DOMAIN parts) = Total /\ PartSet.Header.Root = HashFromByteSlices(Leaves(blk))
          /\ \A n \in 1 .. Total : PartOf(parts[n - 1]).Bytes = Cut(blk)[n]
      BY <3>1, <3>2, WholeSet
    <3>4. [n \in 1 .. Cardinality(DOMAIN parts) |-> PartLeaf(PartOf(parts[n - 1]).Bytes)] = Leaves(blk)
      BY <3>3 DEF Leaves
    <3>5. HashFromByteSlicesIterative(Leaves(blk)) = HashFromByteSlices(Leaves(blk))
      BY LeavesSeq, IterativeAgrees
    <3> QED BY <3>3, <3>4, <3>5
  <2> QED BY <2>1, <2>2 DEF ProofsExact
<1>4. Spec => []AnswerInv
  BY <1>1, <1>2, PTL DEF Spec
<1> QED BY <1>3, <1>4, AssemblyCorrect, PTL
=============================================================================
