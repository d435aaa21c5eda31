--------------------------- MODULE UrdShardProofs ---------------------------
(***************************************************************************)
(* One Urd shard, proved for every set of validators, every voting power,  *)
(* every number of parts and views, and every order, loss and repetition   *)
(* of messages: pools, certificates, votes and execution.                  *)
(***************************************************************************)
EXTENDS UrdShard, FiniteSums, SequenceTheorems

(***************************************************************************)
(* The inductive invariant.                                                *)
(***************************************************************************)

\* Where the nodes are: a block for every view of the leader, and no validator
\* further than the block after the last one proposed.
PlaceInv ==
    /\ Len(chain) = view[Leader] /\ view[Leader] <= MaxView + 1
    /\ step[Leader] = "" => view[Leader] = 0
    /\ step[Leader] \in {"leader-vote", "leader-wait"} => view[Leader] \in 1 .. MaxView
    /\ \A n \in Validator : view[n] <= Len(chain) + 1

\* Nothing is received before it is proposed, and a part in use has its part set.
ArrivedInv == \A n \in Validator : /\ blocks[n] \subseteq 1 .. Len(chain)
                                   /\ \A x \in parts[n] : x[1] \in blocks[n]
                                   /\ \A x \in retained[n] : x[1] \in 1 .. Len(chain)

\* The block of a view, with its counts from the first view verify_block examines.
ChainInv == \A i \in 1 .. Len(chain) :
    /\ chain[i].view = i
    /\ i >= 5 => chain[i].ci = ShardIDCount /\ chain[i].cc = ShardIDCount

\* p holds the newest seven of the first h blocks of c.
PoolOf(p, h, c) ==
    /\ Len(p) = IF h < 7 THEN h ELSE 7
    /\ \A i \in 1 .. Len(p) : p[i] = c[h - Len(p) + i]

PoolInv == \A n \in Node : PoolOf(pool[n], Height(n), chain)

\* A vote accepts a block that was proposed, on top of the block before it.
VoteInv == /\ IsFiniteSet(sent)
           /\ \A m \in sent : m.ok /\ m.view \in 1 .. Len(chain) /\ m.last = m.view - 1

\* The leader counts votes for its last block, its own among them.
BallotInv == /\ view[Leader] > 0 => votes # {}
             /\ \A m \in votes : m.view = view[Leader]

Certified(w) == enough(VotesTotal({m \in sent : m.view = w}))

\* The leader's own CSM certifies its last block.
OwnInv == own # Nil => /\ own = [for |-> view[Leader], last |-> view[Leader] - 1, ok |-> TRUE]
                       /\ Certified(view[Leader])

\* The leader proposes on top of certified blocks only.
CertInv == \A w \in 1 .. (Len(chain) - 1) : Certified(w)

\* A node executes the block two before the newest one in its pool.
ExecInv == \A n \in Node : executed[n] = 0 \/ executed[n] <= Height(n) - 2

ShardInv == /\ TypeOK /\ PlaceInv /\ ArrivedInv /\ NothingLost
            /\ ChainInv /\ PoolInv /\ VoteInv /\ BallotInv
            /\ OwnInv /\ CertificateChain /\ CertInv /\ ExecInv

-----------------------------------------------------------------------------
(* Voting power. *)

\* The power of a vote is its voter's.
weight == [m \in Vote |-> PerVote[m.voter]]

\* Power is a sum over a finite set of votes.
LEMMA PowerSum ==
    ASSUME NEW S \in SUBSET Vote, IsFiniteSet(S)
    PROVE  Power(S) = SumOf(weight, S)
<1> DEFINE A(g) == g = [s \in SUBSET S |-> IF s = {} THEN 0 ELSE PerVote[pick(s).voter] + g[s \ {pick(s)}]]
<1>1. Power(S) = (CHOOSE g : A(g))[S]
  BY DEF Power, MapThenSumSet, MapThenFoldSet, pick
<1>2. ASSUME NEW g PROVE A(g) <=> IsSum(g, S, weight)
  <2>1. ASSUME NEW s \in SUBSET S
        PROVE  SumStep(g, s, weight) = IF s = {} THEN 0 ELSE PerVote[pick(s).voter] + g[s \ {pick(s)}]
    <3>1. CASE s = {}
      BY <3>1 DEF SumStep
    <3>2. CASE s # {}
      <4>1. pick(s) \in Vote
        BY <3>2, PickIn
      <4>2. weight[pick(s)] = PerVote[pick(s).voter]
        BY <4>1 DEF weight
      <4> QED BY <3>2, <4>2 DEF SumStep
    <3> QED BY <3>1, <3>2
  <2>2. [s \in SUBSET S |-> SumStep(g, s, weight)]
        = [s \in SUBSET S |-> IF s = {} THEN 0 ELSE PerVote[pick(s).voter] + g[s \ {pick(s)}]]
    BY <2>1
  <2> QED BY <2>2 DEF IsSum
<1>3. IsSum(SumTable(S, weight), S, weight)
  BY SumExists
<1>4. A(CHOOSE g : A(g))
  <2>1. \E g : A(g)
    BY <1>2, <1>3
  <2> HIDE DEF A
  <2> QED BY <2>1
<1>5. IsSum(CHOOSE g : A(g), S, weight)
  <2> HIDE DEF A
  <2> QED BY <1>2, <1>4
<1>6. (CHOOSE g : A(g))[S] = SumTable(S, weight)[S]
  <2> DEFINE f == CHOOSE g : A(g)
             h == SumTable(S, weight)
  <2>1. IsSum(f, S, weight) /\ IsSum(h, S, weight)
    BY <1>3, <1>5
  <2>2. S \in SUBSET S
    OBVIOUS
  <2> HIDE DEF f, h
  <2>3. f[S] = h[S]
    BY <2>1, <2>2, SumUnique
  <2> QED BY <2>3 DEF f, h
<1> QED BY <1>1, <1>6 DEF SumOf

\* The power a quorum is measured against is a number.
LEMMA Needed == VotesNeeded \in Nat
<1>1. IsFiniteSet(Node)
  BY ValidatorAssumption, FS_AddElement DEF Node
<1>2. VotesNeeded = SumOf(PerVote, Node)
  <2>1. VotesNeeded = (CHOOSE g : g = [s \in SUBSET Node |->
                           IF s = {} THEN 0 ELSE PerVote[CHOOSE x \in s : TRUE]
                                                 + g[s \ {CHOOSE x \in s : TRUE}]])[Node]
    BY DEF VotesNeeded, MapThenSumSet, MapThenFoldSet
  <2> QED BY <2>1 DEF SumOf, SumTable, IsSum, SumStep, pick
<1>3. \A n \in Node : PerVote[n] \in Nat
  BY PerVoteAssumption
<1> QED BY <1>1, <1>2, <1>3, SumNat

\* More votes have no less power, and are enough if fewer are.
LEMMA PowerGrows ==
    ASSUME NEW S \in SUBSET Vote, IsFiniteSet(S), NEW U \in SUBSET S
    PROVE  /\ Power(S) \in Nat /\ Power(U) \in Nat /\ Power(U) <= Power(S)
           /\ enough(Power(U)) => enough(Power(S))
<1>1. IsFiniteSet(U) /\ U \in SUBSET Vote
  BY FS_Subset
<1>2. \A m \in S : weight[m] \in Nat
  <2>1. \A m \in S : m \in Vote /\ m.voter \in Node
    BY DEF Vote
  <2> QED BY <2>1, PerVoteAssumption DEF weight
<1>3. SumOf(weight, S) \in Nat /\ SumOf(weight, U) \in Nat /\ SumOf(weight, U) <= SumOf(weight, S)
  BY <1>1, <1>2, SumNat, SumMonotone
<1>4. Power(S) \in Nat /\ Power(U) \in Nat /\ Power(U) <= Power(S)
  BY <1>1, <1>3, PowerSum
<1>5. enough(Power(U)) => enough(Power(S))
  <2> DEFINE p == Power(S)
             q == Power(U)
             t == VotesNeeded
  <2>1. p \in Nat /\ q \in Nat /\ q <= p /\ t \in Nat
    BY <1>4, Needed
  <2> HIDE DEF p, q, t
  <2>2. q >= (2 * t) \div 3 => p >= (2 * t) \div 3
    BY <2>1
  <2> QED BY <2>2 DEF p, q, t, enough
<1> QED BY <1>4, <1>5

\* Without a rejecting vote, a quorum is one of accepting votes.
LEMMA QuorumAccepts ==
    ASSUME NEW vs \in SUBSET Vote, IsFiniteSet(vs), \A m \in vs : m.ok, isQuorum(vs)
    PROVE  enough(VotesTotal(vs))
<1> DEFINE Y == {m \in vs : m.ok}
           N == {m \in vs : ~m.ok}
<1>1. N = {} /\ N \in SUBSET Y /\ Y \in SUBSET Vote /\ IsFiniteSet(Y)
  BY FS_Subset
<1>2. enough(Power(Y)) \/ enough(Power(N))
  BY DEF isQuorum, VotesTotal, RejectTotal
<1>3. enough(Power(N)) => enough(Power(Y))
  <2> HIDE DEF Y, N
  <2> QED BY <1>1, PowerGrows
<1> QED BY <1>2, <1>3 DEF VotesTotal

\* What is certified stays so while votes are added.
LEMMA CertifiedStays ==
    ASSUME sent \subseteq sent', sent' \subseteq Vote, IsFiniteSet(sent'), NEW w, Certified(w)
    PROVE  Certified(w)'
<1> DEFINE U == {m \in {x \in sent : x.view = w} : m.ok}
           S == {m \in {x \in sent' : x.view = w} : m.ok}
<1>1. U \in SUBSET S /\ S \in SUBSET Vote /\ IsFiniteSet(S)
  BY FS_Subset
<1>2. enough(Power(U))
  BY DEF Certified, VotesTotal
<1>3. enough(Power(S))
  <2> HIDE DEF U, S
  <2> QED BY <1>1, <1>2, PowerGrows
<1> QED BY <1>3 DEF Certified, VotesTotal
-----------------------------------------------------------------------------
(* Pools. *)

\* A chain or a pool grows at its end.
LEMMA Longer ==
    ASSUME NEW c \in Seq(Block), NEW b \in Block
    PROVE  /\ Append(c, b) \in Seq(Block) /\ Len(c) \in Nat /\ Len(Append(c, b)) = Len(c) + 1
           /\ \A i \in 1 .. Len(c) : Append(c, b)[i] = c[i]
           /\ Append(c, b)[Len(c) + 1] = b
BY AppendProperties, LenProperties

\* append_block takes the newest blocks at h to the newest at h + 1, also at its
\* limit of seven.
LEMMA AppendPool ==
    ASSUME NEW p \in Seq(Block), NEW c \in Seq(Block), NEW h \in Nat, PoolOf(p, h, c),
           h + 1 <= Len(c), NEW b \in Block, b = c[h + 1]
    PROVE  append_block(p, b) \in Seq(Block) /\ PoolOf(append_block(p, b), h + 1, c)
<1> DEFINE n == Len(p)
           q == IF n = 7 THEN Tail(p) ELSE p
<1>1. /\ n \in Nat /\ n = IF h < 7 THEN h ELSE 7
      /\ \A i \in 1 .. n : p[i] = c[h - n + i]
      /\ p = <<>> => n = 0
      /\ Len(p) = n
  BY LenProperties DEF PoolOf
<1>2. p # <<>> => /\ Tail(p) \in Seq(Block) /\ Len(Tail(p)) = n - 1
                  /\ \A i \in 1 .. Len(Tail(p)) : Tail(p)[i] = p[i + 1]
  BY HeadTailProperties
<1> HIDE DEF n
<1>3. /\ q \in Seq(Block) /\ Len(q) = IF h < 7 THEN h ELSE 6
      /\ \A i \in 1 .. Len(q) : q[i] = c[h - Len(q) + i]
  <2>1. CASE n = 7
    <3>1. p # <<>> /\ n - 1 = 6 /\ q = Tail(p) /\ ~(h < 7)
      BY <1>1, <2>1
    <3>2. /\ Tail(p) \in Seq(Block) /\ Len(Tail(p)) = 6
          /\ \A i \in 1 .. 6 : Tail(p)[i] = p[i + 1]
      BY <1>2, <3>1, Zenon
    <3>3. ASSUME NEW i \in 1 .. 6 PROVE p[i + 1] = c[h - 6 + i]
      <4>1. h - 7 + (i + 1) = h - 6 + i /\ i + 1 \in 1 .. n
        BY <2>1
      <4> QED BY <1>1, <2>1, <4>1
    <3> QED BY <3>1, <3>2, <3>3
  <2>2. CASE n # 7
    <3>1. q = p /\ h < 7
      BY <1>1, <2>2
    <3> QED BY <1>1, <3>1
  <2> QED BY <2>1, <2>2
<1>4. append_block(p, b) = Append(q, b)
  BY <1>1 DEF append_block, PoolCap
<1> HIDE DEF q
<1> DEFINE r == Append(q, b)
           k == Len(q)
<1>5. /\ r \in Seq(Block) /\ Len(r) = k + 1 /\ k \in Nat
      /\ (\A i \in 1 .. k : r[i] = q[i]) /\ r[k + 1] = b
  <2> HIDE DEF q
  <2>1. q \in Seq(Block)
    BY <1>3, Zenon
  <2> QED BY <2>1, Longer, Zenon
<1>6. k = (IF h < 7 THEN h ELSE 6) /\ \A i \in 1 .. k : q[i] = c[h - k + i]
  BY <1>3
<1> HIDE DEF r, k
<1>7. Len(r) = IF h + 1 < 7 THEN h + 1 ELSE 7
  BY <1>5, <1>6
<1>8. ASSUME NEW i \in 1 .. Len(r) PROVE r[i] = c[h + 1 - Len(r) + i]
  <2>1. h + 1 - Len(r) + i = h - k + i
    BY <1>5
  <2>2. CASE i = k + 1
    <3>1. h - k + i = h + 1
      BY <1>5, <2>2
    <3> QED BY <1>5, <2>1, <2>2, <3>1
  <2>3. CASE i # k + 1
    <3>1. i \in 1 .. k
      BY <1>5, <2>3
    <3> QED BY <1>5, <1>6, <2>1, <3>1
  <2> QED BY <2>2, <2>3
<1>9. \A i \in 1 .. Len(r) : r[i] = c[h + 1 - Len(r) + i]
  BY <1>8, Zenon
<1>10. PoolOf(r, h + 1, c)
  <2> DEFINE g == h + 1
  <2>1. Len(r) = (IF g < 7 THEN g ELSE 7) /\ \A i \in 1 .. Len(r) : r[i] = c[g - Len(r) + i]
    BY <1>7, <1>9
  <2> HIDE DEF g, r
  <2>2. PoolOf(r, g, c)
    BY <2>1 DEF PoolOf
  <2> QED BY <2>2 DEF g
<1> QED BY <1>4, <1>5, <1>10, Zenon DEF r

\* fetch_block(1) and fetch_block(2) are the last block and the one before.
LEMMA FetchPool ==
    ASSUME NEW p \in Seq(Block), NEW c, NEW h \in Nat, PoolOf(p, h, c)
    PROVE  /\ has_block(p, 1) <=> h >= 1
           /\ has_block(p, 2) <=> h >= 2
           /\ h >= 1 => fetch_block(p, 1) = c[h]
           /\ h >= 2 => fetch_block(p, 2) = c[h - 1]
<1> DEFINE n == Len(p)
<1>1. n \in Nat /\ n = (IF h < 7 THEN h ELSE 7) /\ \A i \in 1 .. n : p[i] = c[h - n + i]
  BY LenProperties DEF PoolOf
<1>2. /\ has_block(p, 1) <=> 1 <= n
      /\ has_block(p, 2) <=> 2 <= n
      /\ fetch_block(p, 1) = p[n + 1 - 1] /\ fetch_block(p, 2) = p[n + 1 - 2]
  BY DEF has_block, fetch_block
<1> HIDE DEF n
<1>3. (1 <= n <=> h >= 1) /\ (2 <= n <=> h >= 2)
  BY <1>1
<1>4. ASSUME h >= 1 PROVE p[n + 1 - 1] = c[h]
  <2>1. n + 1 - 1 \in 1 .. n /\ h - n + (n + 1 - 1) = h
    BY <1>1, <1>4
  <2> QED BY <1>1, <2>1
<1>5. ASSUME h >= 2 PROVE p[n + 1 - 2] = c[h - 1]
  <2>1. n + 1 - 2 \in 1 .. n /\ h - n + (n + 1 - 2) = h - 1
    BY <1>1, <1>5
  <2> QED BY <1>1, <2>1
<1> QED BY <1>2, <1>3, <1>4, <1>5

\* A pool does not notice.
LEMMA PoolStays ==
    ASSUME NEW p \in Seq(Block), NEW c \in Seq(Block), NEW d, NEW h \in 0 .. Len(c), PoolOf(p, h, c),
           \A i \in 1 .. Len(c) : d[i] = c[i]
    PROVE  PoolOf(p, h, d)
<1> DEFINE n == Len(p)
           l == Len(c)
<1>1. n \in Nat /\ n = (IF h < 7 THEN h ELSE 7) /\ \A i \in 1 .. n : p[i] = c[h - n + i]
  BY LenProperties DEF PoolOf
<1>2. l \in Nat /\ h \in 0 .. l /\ \A i \in 1 .. l : d[i] = c[i]
  BY LenProperties
<1> HIDE DEF n, l
<1>3. ASSUME NEW i \in 1 .. n PROVE p[i] = d[h - n + i]
  <2>1. h - n + i \in 1 .. l
    BY <1>1, <1>2
  <2> QED BY <1>1, <1>2, <2>1
<1> QED BY <1>1, <1>3 DEF PoolOf, n

\* A pool is a window of the chain.
LEMMA PoolWindow ==
    ASSUME NEW p \in Seq(Block), NEW c \in Seq(Block), NEW h \in 0 .. Len(c), PoolOf(p, h, c)
    PROVE  p = SubSeq(c, IF h > PoolCap THEN h - PoolCap + 1 ELSE 1, h)
<1> DEFINE n == Len(p)
           f == IF h > 7 THEN h - 7 + 1 ELSE 1
           l == Len(c)
<1>1. n \in Nat /\ n = (IF h < 7 THEN h ELSE 7) /\ \A i \in 1 .. n : p[i] = c[h - n + i]
  BY LenProperties DEF PoolOf
<1>2. l \in Nat /\ h \in 0 .. l /\ p \in [1 .. n -> Block]
  BY LenProperties
<1> HIDE DEF n, l
<1>3. f \in Int /\ h \in Int /\ h + 1 - f = n
  BY <1>1, <1>2
<1>4. \A i \in 1 .. n : c[h - n + i] = c[i + f - 1]
  <2> SUFFICES ASSUME NEW i \in 1 .. n PROVE h - n + i = i + f - 1
    OBVIOUS
  <2> HIDE DEF f
  <2> QED BY <1>1, <1>2, <1>3
<1> HIDE DEF f
<1>5. f >= 1
  BY <1>1, <1>2 DEF f
<1>6. \A i \in f .. h : c[i] \in Block
  <2>1. \A i \in 1 .. l : c[i] \in Block
    BY ElementOfSeq DEF l
  <2> QED BY <1>2, <1>3, <1>5, <2>1
<1>7. /\ SubSeq(c, f, h) \in Seq(Block)
      /\ Len(SubSeq(c, f, h)) = IF f <= h THEN h - f + 1 ELSE 0
      /\ \A i \in 1 .. h - f + 1 : SubSeq(c, f, h)[i] = c[f + i - 1]
  BY <1>3, <1>6, SubSeqProperties
<1> DEFINE q == SubSeq(c, f, h)
<1> HIDE DEF q
<1>8. q \in Seq(Block) /\ Len(q) = n /\ \A i \in 1 .. n : q[i] = c[f + i - 1]
  <2>1. (IF f <= h THEN h - f + 1 ELSE 0) = n /\ h - f + 1 = n
    BY <1>1, <1>2, <1>3
  <2> QED BY <1>7, <2>1 DEF q
<1>9. \A i \in 1 .. n : p[i] = q[i]
  <2> SUFFICES ASSUME NEW i \in 1 .. n PROVE p[i] = q[i]
    OBVIOUS
  <2>1. f + i - 1 = i + f - 1
    BY <1>1, <1>3
  <2> QED BY <1>1, <1>4, <1>8, <2>1
<1>10. Len(p) = Len(q) /\ \A i \in 1 .. Len(p) : p[i] = q[i]
  BY <1>8, <1>9, Zenon DEF n
<1>11. p = q
  BY <1>8, <1>10, SeqEqual
<1> QED BY <1>11 DEF f, q, PoolCap
-----------------------------------------------------------------------------
(* Frames: what a step that leaves chain, pools and cast votes alone keeps. *)

\* Neither a message nor a count of votes disturbs the chain, the pools, the votes
\* cast or what was executed.
LEMMA Frame ==
    ASSUME ShardInv, UNCHANGED <<view, pool, executed, sent, chain>>,
           TypeOK', PlaceInv', ArrivedInv', NothingLost', BallotInv', OwnInv'
    PROVE  ShardInv'
<1>1. \A n \in Node : Height(n)' = Height(n)
  BY DEF Height
<1>2. ChainInv'
  BY DEF ShardInv, ChainInv
<1>3. PoolInv'
  BY <1>1 DEF ShardInv, PoolInv, PoolOf
<1>4. VoteInv'
  BY DEF ShardInv, VoteInv
<1>5. CertificateChain'
  BY DEF ShardInv, CertificateChain
<1>6. CertInv'
  BY DEF ShardInv, CertInv, Certified
<1>7. ExecInv'
  BY <1>1 DEF ShardInv, ExecInv
<1> QED BY <1>2, <1>3, <1>4, <1>5, <1>6, <1>7 DEF ShardInv

\* Views are numbers.
LEMMA Views ==
    ASSUME TypeOK
    PROVE  \A n \in Node : view[n] \in Nat /\ view[n] <= MaxView + 2 /\ Height(n) \in Nat
<1>1. \A n \in Node : view[n] \in 0 .. (MaxView + 2)
  BY DEF TypeOK
<1>2. \A n \in Node : view[n] \in Nat /\ view[n] <= MaxView + 2
  BY <1>1, MaxViewAssumption
<1>3. \A n \in Node : Height(n) \in Nat
  BY <1>2 DEF Height
<1> QED BY <1>2, <1>3

StepName == {"", "validator-wait", "leader-vote", "leader-wait", "stopped"}

\* Nor does a step of the leader that counts votes or CSMs disturb the validators.
LEMMA CountFrame ==
    ASSUME ShardInv, UNCHANGED <<view, data, pool, executed, net, sent, chain>>,
           step' \in [Node -> StepName], busy' \in [Node -> BOOLEAN],
           step'[Leader] = step[Leader]
             \/ (step'[Leader] = "leader-wait" /\ step[Leader] \in {"leader-vote", "leader-wait"}),
           votes' \subseteq sent, own' \in AggregatedVote, others' \in BOOLEAN,
           BallotInv', OwnInv'
    PROVE  ShardInv'
<1>1. TypeOK'
  BY DEF ShardInv, TypeOK, StepName, data
<1>2. PlaceInv'
  BY DEF ShardInv, PlaceInv
<1>3. ArrivedInv' /\ NothingLost'
  BY DEF ShardInv, ArrivedInv, NothingLost, data
<1> QED BY <1>1, <1>2, <1>3, Frame

-----------------------------------------------------------------------------
(* The leader's steps. *)

\* The leader returns, waiting for votes or for CSMs.
LEMMA LeaderReturnsKeeps == ASSUME ShardInv, LeaderReturns PROVE ShardInv'
<1>1. step' \in [Node -> StepName] /\ busy' \in [Node -> BOOLEAN]
  BY DEF ShardInv, TypeOK, StepName, LeaderReturns
<1>2. BallotInv' /\ OwnInv'
  BY DEF ShardInv, BallotInv, OwnInv, Certified, LeaderReturns, leaderVars
<1> QED BY <1>1, <1>2, CountFrame DEF ShardInv, TypeOK, LeaderReturns, leaderVars

\* The CSMs of the other shards arrive.
LEMMA ReceiveCSMsKeeps == ASSUME ShardInv, ReceiveCSMs PROVE ShardInv'
<1>1. step' \in [Node -> StepName] /\ busy' \in [Node -> BOOLEAN]
  BY DEF ShardInv, TypeOK, StepName, ReceiveCSMs
<1>2. BallotInv' /\ OwnInv'
  BY DEF ShardInv, BallotInv, OwnInv, Certified, ReceiveCSMs
<1> QED BY <1>1, <1>2, CountFrame DEF ShardInv, TypeOK, ReceiveCSMs

\* A vote arrives, late, out of order or once more.
LEMMA ReceiveVoteKeeps == ASSUME ShardInv, NEW m \in sent, ReceiveVote(m) PROVE ShardInv'
<1>1. step' \in [Node -> StepName] /\ busy' \in [Node -> BOOLEAN]
  BY DEF ShardInv, TypeOK, StepName, ReceiveVote
<1>2. BallotInv'
  BY DEF ShardInv, BallotInv, ReceiveVote, addVote_ok
<1>3. OwnInv'
  BY DEF ShardInv, OwnInv, Certified, ReceiveVote
<1>4. votes' \subseteq sent
  BY DEF ShardInv, TypeOK, ReceiveVote
<1> QED BY <1>1, <1>2, <1>3, <1>4, CountFrame DEF ShardInv, TypeOK, ReceiveVote

\* Whichever vote getMaj23 copies the last hash from, and although it may take a
\* quorum of rejections for one, the certificate is for the leader's last block.
LEMMA CommunicateKeeps == ASSUME ShardInv, Communicate PROVE ShardInv'
<1>1. PICK m \in votes :
        own' = [for |-> view[Leader], last |-> m.last, ok |-> enough(VotesTotal(votes))]
  BY DEF Communicate, getMaj23
<1>2. votes \subseteq sent /\ sent \subseteq Vote /\ IsFiniteSet(sent) /\ IsFiniteSet(votes)
  BY FS_Subset DEF ShardInv, TypeOK, VoteInv
<1>3. \A x \in votes : x.ok /\ x.view = view[Leader] /\ x.last = view[Leader] - 1
  BY <1>2 DEF ShardInv, VoteInv, BallotInv
<1>4. enough(VotesTotal(votes))
  BY <1>2, <1>3, QuorumAccepts DEF Communicate
<1>5. own' = [for |-> view[Leader], last |-> view[Leader] - 1, ok |-> TRUE]
  <2>1. enough(VotesTotal(votes)) = TRUE
    BY <1>4 DEF enough
  <2> QED BY <1>1, <1>3, <2>1
<1>6. Certified(view[Leader])
  <2> DEFINE w == view[Leader]
             U == {x \in votes : x.ok}
             S == {x \in {y \in sent : y.view = w} : x.ok}
  <2>1. S \in SUBSET Vote /\ IsFiniteSet(S) /\ U \in SUBSET S
    BY <1>2, <1>3, FS_Subset
  <2>2. enough(Power(U))
    BY <1>4 DEF VotesTotal
  <2>3. enough(Power(S))
    <3> HIDE DEF U, S
    <3> QED BY <2>1, <2>2, PowerGrows
  <2> QED BY <2>3 DEF Certified, VotesTotal
<1>7. view' = view /\ sent' = sent /\ votes' = votes
  BY DEF Communicate
<1>8. OwnInv' /\ BallotInv'
  BY <1>5, <1>6, <1>7 DEF ShardInv, OwnInv, BallotInv, Certified
<1>9. own' \in AggregatedVote
  <2>1. view[Leader] \in View /\ view[Leader] - 1 \in View
    BY MaxViewAssumption DEF ShardInv, PlaceInv, Communicate, View
  <2> QED BY <1>5, <2>1 DEF AggregatedVote
<1>10. step' \in [Node -> StepName] /\ busy' \in [Node -> BOOLEAN]
  BY DEF ShardInv, TypeOK, StepName, Communicate, next_step
<1>11. step'[Leader] = step[Leader] \/ (step'[Leader] = "leader-wait" /\ step[Leader] = "leader-vote")
  BY DEF ShardInv, TypeOK, Communicate, next_step, Node
<1> QED BY <1>2, <1>7, <1>8, <1>9, <1>10, <1>11, CountFrame DEF ShardInv, TypeOK, Communicate

-----------------------------------------------------------------------------
(* What a validator receives. *)

\* Arrivals change only what a validator holds.
LEMMA ArrivalFrame ==
    ASSUME ShardInv, UNCHANGED <<step, view, pool, executed, sent, leaderVars>>,
           busy' \in [Node -> BOOLEAN], blocks' \in [Validator -> SUBSET View],
           parts' \in [Validator -> SUBSET (View \X Part)],
           retained' \in [Validator -> SUBSET (View \X Part)],
           net' \in [Validator -> SUBSET Message], ArrivedInv', NothingLost'
    PROVE  ShardInv'
<1>1. TypeOK'
  BY DEF ShardInv, TypeOK, leaderVars
<1>2. PlaceInv' /\ BallotInv' /\ OwnInv'
  BY DEF ShardInv, PlaceInv, BallotInv, OwnInv, Certified, leaderVars
<1> QED BY <1>1, <1>2, Frame DEF leaderVars

\* The order of a proposal and its parts does not matter: the new part set takes
\* the retained parts.
LEMMA ReceiveProposalKeeps ==
    ASSUME ShardInv, NEW n \in Validator, NEW v \in View, ReceiveProposal(n, v) PROVE ShardInv'
<1> USE DEF deliver
<1>1. /\ blocks \in [Validator -> SUBSET View] /\ parts \in [Validator -> SUBSET (View \X Part)]
      /\ retained \in [Validator -> SUBSET (View \X Part)] /\ net \in [Validator -> SUBSET Message]
      /\ busy \in [Node -> BOOLEAN] /\ n \in Node
  BY DEF ShardInv, TypeOK, Node
<1>2. /\ v \in 1 .. Len(chain) /\ net' = [net EXCEPT ![n] = @ \ {<<v, Header>>}]
      /\ retained' = retained /\ chain' = chain /\ view' = view
  BY DEF ReceiveProposal, leaderVars
<1>3. net' \in [Validator -> SUBSET Message]
  BY <1>1, <1>2
<1>4. CASE (old(n, v) \/ v \in blocks[n]) /\ UNCHANGED <<blocks, parts, busy>>
  <2>1. ArrivedInv'
    BY <1>2, <1>4 DEF ShardInv, ArrivedInv
  <2>2. NothingLost'
    <3> SUFFICES ASSUME NEW k \in Validator, NEW w \in 1 .. Len(chain), w >= view[k]
                 PROVE  /\ <<w, Header>> \notin net'[k] => w \in blocks[k]
                        /\ \A p \in Part : <<w, p>> \notin net'[k] \/ <<w, p>> \in retained[k] =>
                               IF w \in blocks[k] THEN <<w, p>> \in parts[k] ELSE <<w, p>> \in retained[k]
      BY <1>2, <1>4 DEF NothingLost
    <3>1. /\ <<w, Header>> \notin net[k] => w \in blocks[k]
          /\ \A p \in Part : <<w, p>> \notin net[k] \/ <<w, p>> \in retained[k] =>
                 IF w \in blocks[k] THEN <<w, p>> \in parts[k] ELSE <<w, p>> \in retained[k]
      BY DEF ShardInv, NothingLost
    <3>2. \A p \in Part : <<w, p>> \notin net'[k] => <<w, p>> \notin net[k]
      BY <1>1, <1>2, HeaderAssumption
    <3>3. <<w, Header>> \notin net'[k] => <<w, Header>> \notin net[k] \/ (k = n /\ w = v)
      BY <1>1, <1>2
    <3>4. k = n /\ w = v => w \in blocks[k]
      <4>1. \A x \in Node : view[x] \in Int
        BY Views DEF ShardInv
      <4> QED BY <1>1, <1>4, <4>1 DEF old
    <3> QED BY <3>1, <3>2, <3>3, <3>4
  <2>3. UNCHANGED <<step, view, pool, executed, sent, leaderVars, busy, blocks, parts, retained>>
    BY <1>4 DEF ReceiveProposal
  <2> QED BY <1>1, <1>3, <2>1, <2>2, <2>3, ArrivalFrame
<1>5. CASE /\ ~old(n, v) /\ v \notin blocks[n]
           /\ blocks' = [blocks EXCEPT ![n] = @ \cup {v}]
           /\ parts' = [parts EXCEPT ![n] = @ \cup {x \in retained[n] : x[1] = v}]
           /\ busy' = [busy EXCEPT ![n] = TRUE]
  <2>1. ArrivedInv'
    BY <1>1, <1>2, <1>5 DEF ShardInv, ArrivedInv
  <2>2. /\ blocks' \in [Validator -> SUBSET View] /\ parts' \in [Validator -> SUBSET (View \X Part)]
        /\ busy' \in [Node -> BOOLEAN]
    BY <1>1, <1>5
  <2>3. NothingLost'
    <3> SUFFICES ASSUME NEW k \in Validator, NEW w \in 1 .. Len(chain), w >= view[k]
                 PROVE  /\ <<w, Header>> \notin net'[k] => w \in blocks'[k]
                        /\ \A p \in Part : <<w, p>> \notin net'[k] \/ <<w, p>> \in retained[k] =>
                               IF w \in blocks'[k] THEN <<w, p>> \in parts'[k] ELSE <<w, p>> \in retained[k]
      BY <1>2 DEF NothingLost
    <3>1. /\ <<w, Header>> \notin net[k] => w \in blocks[k]
          /\ \A p \in Part : <<w, p>> \notin net[k] \/ <<w, p>> \in retained[k] =>
                 IF w \in blocks[k] THEN <<w, p>> \in parts[k] ELSE <<w, p>> \in retained[k]
      BY DEF ShardInv, NothingLost
    <3>2. \A p \in Part : <<w, p>> \notin net'[k] => <<w, p>> \notin net[k]
      BY <1>1, <1>2, HeaderAssumption
    <3>3. <<w, Header>> \notin net'[k] => <<w, Header>> \notin net[k] \/ (k = n /\ w = v)
      BY <1>1, <1>2
    <3>4. CASE k = n /\ w = v
      <4>1. w \in blocks'[k] /\ w \notin blocks[k]
        BY <1>1, <1>5, <3>4
      <4>2. \A p \in Part : <<w, p>> \in retained[k] => <<w, p>> \in parts'[k]
        BY <1>1, <1>5, <3>4
      <4> QED BY <3>1, <3>2, <4>1, <4>2
    <3>5. CASE ~(k = n /\ w = v)
      <4>1. w \in blocks'[k] <=> w \in blocks[k]
        BY <1>1, <1>5, <3>5
      <4>2. parts[k] \subseteq parts'[k]
        BY <1>1, <1>5
      <4> QED BY <3>1, <3>2, <3>3, <3>5, <4>1, <4>2
    <3> QED BY <3>4, <3>5
  <2>4. UNCHANGED <<step, view, pool, executed, sent, leaderVars, retained>>
    BY DEF ReceiveProposal
  <2> QED BY <1>1, <1>3, <2>1, <2>2, <2>3, <2>4, ArrivalFrame
<1> QED BY <1>4, <1>5 DEF ReceiveProposal

\* A part goes into its part set, or is retained until there is one.
LEMMA ReceivePartKeeps ==
    ASSUME ShardInv, NEW n \in Validator, NEW v \in View, NEW q \in Part, ReceivePart(n, v, q)
    PROVE  ShardInv'
<1> USE DEF deliver
<1>1. /\ blocks \in [Validator -> SUBSET View] /\ parts \in [Validator -> SUBSET (View \X Part)]
      /\ retained \in [Validator -> SUBSET (View \X Part)] /\ net \in [Validator -> SUBSET Message]
      /\ busy \in [Node -> BOOLEAN] /\ n \in Node
  BY DEF ShardInv, TypeOK, Node
<1>2. /\ v \in 1 .. Len(chain) /\ net' = [net EXCEPT ![n] = @ \ {<<v, q>>}]
      /\ blocks' = blocks /\ chain' = chain /\ view' = view
      /\ UNCHANGED <<step, view, pool, executed, sent, leaderVars>>
  BY DEF ReceivePart, leaderVars
<1>3. net' \in [Validator -> SUBSET Message]
  BY <1>1, <1>2
<1>4. \/ (old(n, v) \/ <<v, q>> \in parts[n]) /\ UNCHANGED <<parts, retained, busy>>
      \/ /\ ~old(n, v) /\ v \notin blocks[n]
         /\ retained' = [retained EXCEPT ![n] = @ \cup {<<v, q>>}]
         /\ UNCHANGED <<parts, busy>>
      \/ /\ ~old(n, v) /\ v \in blocks[n] /\ <<v, q>> \notin parts[n]
         /\ parts' = [parts EXCEPT ![n] = @ \cup {<<v, q>>}]
         /\ busy' = [busy EXCEPT ![n] = TRUE]
         /\ UNCHANGED retained
  BY DEF ReceivePart, append_part
<1>5. /\ parts' \in [Validator -> SUBSET (View \X Part)]
      /\ retained' \in [Validator -> SUBSET (View \X Part)]
      /\ busy' \in [Node -> BOOLEAN]
  <2>1. <<v, q>> \in View \X Part
    OBVIOUS
  <2>2. parts' \in [Validator -> SUBSET (View \X Part)]
    BY <1>1, <1>4, <2>1
  <2>3. retained' \in [Validator -> SUBSET (View \X Part)]
    BY <1>1, <1>4, <2>1
  <2>4. busy' \in [Node -> BOOLEAN]
    BY <1>1, <1>4
  <2> QED BY <2>2, <2>3, <2>4
<1>6. ArrivedInv'
  BY <1>1, <1>2, <1>4 DEF ShardInv, ArrivedInv
<1>7. NothingLost'
  <2> SUFFICES ASSUME NEW k \in Validator, NEW w \in 1 .. Len(chain), w >= view[k]
               PROVE  /\ <<w, Header>> \notin net'[k] => w \in blocks[k]
                      /\ \A p \in Part : <<w, p>> \notin net'[k] \/ <<w, p>> \in retained'[k] =>
                             IF w \in blocks[k] THEN <<w, p>> \in parts'[k] ELSE <<w, p>> \in retained'[k]
    BY <1>2 DEF NothingLost
  <2>1. /\ <<w, Header>> \notin net[k] => w \in blocks[k]
        /\ \A p \in Part : <<w, p>> \notin net[k] \/ <<w, p>> \in retained[k] =>
               IF w \in blocks[k] THEN <<w, p>> \in parts[k] ELSE <<w, p>> \in retained[k]
    BY DEF ShardInv, NothingLost
  <2>2. <<w, Header>> \notin net'[k] => <<w, Header>> \notin net[k]
    BY <1>1, <1>2, HeaderAssumption
  <2>3. parts[k] \subseteq parts'[k] /\ retained[k] \subseteq retained'[k]
    BY <1>1, <1>4
  <2>4. ASSUME NEW p \in Part, <<w, p>> \notin net'[k] \/ <<w, p>> \in retained'[k]
        PROVE  IF w \in blocks[k] THEN <<w, p>> \in parts'[k] ELSE <<w, p>> \in retained'[k]
    <3>1. CASE k = n /\ w = v /\ p = q
      <4>1. ~old(n, v)
        <5>1. view[n] \in Int
          BY <1>1, Views DEF ShardInv
        <5> QED BY <3>1, <5>1 DEF old
      <4>2. CASE <<v, q>> \in parts[n] /\ UNCHANGED <<parts, retained>>
        \* a part in a part set that exists, or one retained before
        <5>1. v \in blocks[n]
          <6>1. \A x \in parts[n] : x[1] \in blocks[n]
            BY DEF ShardInv, ArrivedInv
          <6>2. <<v, q>>[1] \in blocks[n]
            BY <4>2, <6>1
          <6> QED BY <6>2
        <5> QED BY <3>1, <4>2, <5>1
      <4>3. CASE <<v, q>> \in retained'[n] /\ v \notin blocks[n]
        BY <3>1, <4>3
      <4>4. CASE <<v, q>> \in parts'[n] /\ v \in blocks[n]
        BY <3>1, <4>4
      <4> QED BY <1>1, <1>4, <4>1, <4>2, <4>3, <4>4
    <3>2. CASE ~(k = n /\ w = v /\ p = q)
      <4>1. <<w, p>> \notin net[k] \/ <<w, p>> \in retained[k]
        BY <1>1, <1>2, <1>4, <2>4, <3>2
      <4> QED BY <2>1, <2>3, <4>1
    <3> QED BY <3>1, <3>2
  <2> QED BY <2>1, <2>2, <2>4
<1> QED BY <1>1, <1>2, <1>3, <1>5, <1>6, <1>7, ArrivalFrame

-----------------------------------------------------------------------------
(* A validator's own steps. *)

\* A validator that starts may hold parts already; they stay.
LEMMA StartValidatorKeeps ==
    ASSUME ShardInv, NEW n \in Validator, StartValidator(n) PROVE ShardInv'
<1>1. /\ n \in Node /\ n # Leader /\ Leader \in Node /\ view \in [Node -> 0 .. (MaxView + 2)]
      /\ step \in [Node -> StepName]
  BY LeaderAssumption DEF Node, ShardInv, TypeOK, StepName
<1>2. /\ view' = [view EXCEPT ![n] = 1] /\ step' = [step EXCEPT ![n] = "validator-wait"]
      /\ view[n] = 0
      /\ UNCHANGED <<busy, data, pool, executed, net, sent, leaderVars>>
  BY DEF StartValidator
<1>3. view' \in [Node -> 0 .. (MaxView + 2)] /\ step' \in [Node -> StepName]
  <2>1. 1 \in 0 .. (MaxView + 2)
    BY MaxViewAssumption
  <2> QED BY <1>1, <1>2, <2>1 DEF StepName
<1>4. TypeOK'
  BY <1>2, <1>3 DEF ShardInv, TypeOK, StepName, data, leaderVars
<1>5. view'[Leader] = view[Leader] /\ step'[Leader] = step[Leader]
  BY <1>1, <1>2
<1>6. \A k \in Validator : view'[k] = view[k] \/ (k = n /\ view'[k] = 1)
  BY <1>1, <1>2 DEF Node
<1>7. PlaceInv'
  <2>1. Len(chain) \in Nat
    BY LenProperties DEF ShardInv, TypeOK
  <2>2. \A k \in Validator : view'[k] <= Len(chain) + 1
    <3> DEFINE l == Len(chain)
    <3>1. l \in Nat /\ \A k \in Validator : view[k] <= l + 1
      BY <2>1 DEF ShardInv, PlaceInv
    <3> HIDE DEF l
    <3>2. 1 <= l + 1
      BY <3>1
    <3>3. \A k \in Validator : view'[k] <= l + 1
      BY <1>6, <3>1, <3>2, Zenon
    <3> QED BY <3>3 DEF l
  <2>3. chain' = chain
    BY <1>2 DEF leaderVars
  <2> QED BY <1>5, <2>2, <2>3 DEF ShardInv, PlaceInv
<1>8. \A k \in Node : Height(k)' = Height(k)
  BY <1>1, <1>2 DEF Height
<1>9. ArrivedInv' /\ ChainInv' /\ VoteInv' /\ CertificateChain'
  BY <1>2 DEF ShardInv, ArrivedInv, ChainInv, VoteInv, CertificateChain, data, leaderVars
<1>10. NothingLost'
  <2> SUFFICES ASSUME NEW k \in Validator, NEW w \in 1 .. Len(chain), w >= view'[k]
               PROVE  /\ <<w, Header>> \notin net[k] => w \in blocks[k]
                      /\ \A p \in Part : <<w, p>> \notin net[k] \/ <<w, p>> \in retained[k] =>
                             IF w \in blocks[k] THEN <<w, p>> \in parts[k] ELSE <<w, p>> \in retained[k]
    BY <1>2 DEF NothingLost, data, leaderVars
  <2>1. w >= view[k]
    BY <1>2, <1>6
  <2> QED BY <2>1 DEF ShardInv, NothingLost
<1>11. PoolInv'
  BY <1>2, <1>8 DEF ShardInv, PoolInv, PoolOf, leaderVars
<1>12. ExecInv'
  BY <1>2, <1>8 DEF ShardInv, ExecInv
<1>13. BallotInv' /\ OwnInv' /\ CertInv'
  BY <1>2, <1>5 DEF ShardInv, BallotInv, OwnInv, CertInv, Certified, leaderVars
<1> QED BY <1>4, <1>7, <1>9, <1>10, <1>11, <1>12, <1>13 DEF ShardInv

\* A validator whose block is not complete returns.
LEMMA ValidatorReturnsKeeps ==
    ASSUME ShardInv, NEW n \in Validator, ValidatorReturns(n) PROVE ShardInv'
<1>1. n \in Node /\ n # Leader
  BY LeaderAssumption DEF Node
<1>2. step' \in [Node -> StepName] /\ busy' \in [Node -> BOOLEAN] /\ step'[Leader] = step[Leader]
  BY <1>1 DEF ShardInv, TypeOK, StepName, ValidatorReturns, Node
<1>3. BallotInv' /\ OwnInv'
  BY DEF ShardInv, BallotInv, OwnInv, Certified, ValidatorReturns, leaderVars
<1> QED BY <1>2, <1>3, CountFrame DEF ShardInv, TypeOK, ValidatorReturns, leaderVars

\* A node at height h votes for, and executes by, the blocks below h.
LEMMA PoolReads ==
    ASSUME ShardInv, NEW n \in Node
    PROVE  /\ top_hash(pool[n]) = Height(n)
           /\ has_block(pool[n], 1) <=> Height(n) >= 1
           /\ commit_and_execution_j_2(pool[n]) = IF Height(n) >= 2 THEN Height(n) - 1 ELSE 0
           /\ Height(n) >= 2 => /\ fetch_block(pool[n], 1).view = Height(n)
                                /\ fetch_block(pool[n], 2).view = Height(n) - 1
           /\ Height(n) \in 0 .. Len(chain) /\ Len(chain) \in Nat
<1> DEFINE h == Height(n)
           p == pool[n]
<1>1. p \in Seq(Block) /\ PoolOf(p, h, chain) /\ h \in Nat
  BY Views DEF ShardInv, TypeOK, PoolInv
<1>2. Len(chain) \in Nat /\ Len(chain) = view[Leader] /\ \A k \in Validator : view[k] <= Len(chain) + 1
  BY LenProperties DEF ShardInv, TypeOK, PlaceInv
<1>3. h \in 0 .. Len(chain)
  <2>1. CASE n = Leader
    BY <1>1, <1>2, <2>1 DEF Height
  <2>2. CASE n \in Validator /\ n # Leader
    <3>1. view[n] \in Nat
      BY Views DEF ShardInv
    <3> QED BY <1>2, <2>2, <3>1 DEF Height
  <2> QED BY <2>1, <2>2 DEF Node
<1>4. \A i \in 1 .. Len(chain) : chain[i].view = i
  BY DEF ShardInv, ChainInv
<1> HIDE DEF h, p
<1>5. /\ has_block(p, 1) <=> h >= 1
      /\ has_block(p, 2) <=> h >= 2
      /\ h >= 1 => fetch_block(p, 1) = chain[h]
      /\ h >= 2 => fetch_block(p, 2) = chain[h - 1]
  BY <1>1, FetchPool
<1>6. (h >= 1 => chain[h].view = h) /\ (h >= 2 => chain[h - 1].view = h - 1)
  BY <1>2, <1>3, <1>4
<1>7. top_hash(p) = h
  BY <1>1, <1>5, <1>6 DEF top_hash
<1>8. commit_and_execution_j_2(p) = IF h >= 2 THEN h - 1 ELSE 0
  BY <1>1, <1>5, <1>6 DEF commit_and_execution_j_2
<1>9. h >= 2 => fetch_block(p, 1).view = h /\ fetch_block(p, 2).view = h - 1
  BY <1>1, <1>5, <1>6
<1> QED BY <1>2, <1>3, <1>5, <1>7, <1>8, <1>9 DEF h, p

\* The votes cast grow by one accepting vote for a block of the chain.
LEMMA OneVote ==
    ASSUME ShardInv, NEW m \in Vote, m.ok, m.last = m.view - 1, sent' = sent \cup {m},
           m.view \in 1 .. Len(chain'), Len(chain) \in Nat, Len(chain') \in Nat, Len(chain) <= Len(chain')
    PROVE  VoteInv' /\ sent' \subseteq Vote /\ \A w : Certified(w) => Certified(w)'
<1>1. sent' \subseteq Vote /\ sent \subseteq sent'
  BY DEF ShardInv, TypeOK
<1>2. IsFiniteSet(sent')
  BY FS_AddElement DEF ShardInv, VoteInv
<1>3. VoteInv'
  BY <1>2 DEF ShardInv, VoteInv
<1>4. \A w : Certified(w) => Certified(w)'
  BY <1>1, <1>2, CertifiedStays
<1> QED BY <1>1, <1>3, <1>4

\* No block is rejected: its hashes and its counts are the ones the validator expects.
LEMMA BlocksVerify ==
    ASSUME ShardInv, NEW n \in Validator, view[n] \in 1 .. Len(chain)
    PROVE  verify_block(pool[n], chain[view[n]])
<1>1. n \in Node /\ n # Leader /\ view[n] \in Nat
  BY LeaderAssumption, Views DEF ShardInv, Node
<1> DEFINE v == view[n]
<1>2. Height(n) = v - 1 /\ v \in 1 .. Len(chain) /\ Len(chain) \in Nat
  BY <1>1, PoolReads DEF Height
<1>3. chain[v].view = v /\ (v >= 5 => chain[v].ci = ShardIDCount /\ chain[v].cc = ShardIDCount)
  BY DEF ShardInv, ChainInv
<1>4. v >= 2 => chain[v].agg = [for |-> v - 1, last |-> v - 2, ok |-> TRUE]
  BY <1>1, <1>2 DEF ShardInv, CertificateChain
<1>5. Height(n) >= 2 => /\ fetch_block(pool[n], 1).view = Height(n)
                        /\ fetch_block(pool[n], 2).view = Height(n) - 1
  BY <1>1, PoolReads
<1> HIDE DEF v
<1>6. v >= 5 => fetch_block(pool[n], 2).view = chain[v].agg.last /\ fetch_block(pool[n], 1).view = chain[v].agg.for
  BY <1>1, <1>2, <1>4, <1>5
<1>7. verify_block(pool[n], chain[v])
  BY <1>3, <1>6 DEF verify_block
<1> QED BY <1>7 DEF v

\* A validator assembles, verifies and votes for its block and enters the next view.
LEMMA ValidateKeeps ==
    ASSUME ShardInv, NEW n \in Validator, Validate(n) PROVE ShardInv'
<1> DEFINE v == view[n]
           b == chain[v]
           l == Len(chain)
           m == generate_vote(n, b, top_hash(pool[n]), TRUE)
           exec == commit_and_execution_j_2(pool[n])
<1>1. n \in Node /\ n # Leader /\ Leader \in Node /\ v \in Nat /\ l \in Nat
  BY LeaderAssumption, Views, PoolReads DEF ShardInv, Node
<1>2. v \in 1 .. l
  BY DEF Validate, isComplete, ShardInv, ArrivedInv
<1>3. verify_block(pool[n], b)
  BY <1>2, BlocksVerify
<1>4. verify_block(pool[n], b) = TRUE
  BY <1>3 DEF verify_block
<1>5. /\ sent' = sent \cup {m}
      /\ executed' = [executed EXCEPT ![n] = IF exec = 0 THEN @ ELSE exec]
      /\ view' = [view EXCEPT ![n] = @ + 1]
      /\ prune(n, v + 1)
      /\ pool' = [pool EXCEPT ![n] = append_block(@, b)]
      /\ UNCHANGED <<step, busy, leaderVars>>
  BY <1>3, <1>4 DEF Validate
<1>6. Height(n) = v - 1 /\ top_hash(pool[n]) = v - 1 /\ exec = IF v - 1 >= 2 THEN v - 2 ELSE 0
  <2>1. Height(n) = v - 1
    BY <1>1, <1>2 DEF Height
  <2>2. v - 1 - 1 = v - 2
    BY <1>1
  <2> QED BY <1>1, <2>1, <2>2, PoolReads
<1>7. b \in Block /\ b.view = v /\ v \in View /\ v - 1 \in View
  <2>1. b \in Block
    BY <1>2, ElementOfSeq DEF ShardInv, TypeOK
  <2>2. l <= MaxView + 1
    BY DEF ShardInv, PlaceInv
  <2>3. b.view = v
    BY <1>2 DEF ShardInv, ChainInv
  <2> HIDE DEF v, b, l
  <2> QED BY <1>1, <1>2, <2>1, <2>2, <2>3, MaxViewAssumption DEF View
<1>8. m = [view |-> v, last |-> v - 1, voter |-> n, ok |-> TRUE]
  BY <1>6, <1>7 DEF generate_vote
<1>9. m \in Vote /\ m.ok /\ m.view = v /\ m.last = v - 1
  <2> HIDE DEF m, v
  <2> QED BY <1>1, <1>7, <1>8 DEF Vote
<1>10. chain' = chain /\ own' = own /\ votes' = votes /\ others' = others /\ step' = step /\ busy' = busy
  BY <1>5 DEF leaderVars
<1>11. VoteInv' /\ sent' \subseteq Vote /\ \A w : Certified(w) => Certified(w)'
  <2> HIDE DEF m, v
  <2> QED BY <1>1, <1>2, <1>5, <1>9, <1>10, OneVote DEF l
<1>12. /\ view'[n] = v + 1 /\ \A k \in Node : k # n => view'[k] = view[k]
       /\ view' \in [Node -> 0 .. (MaxView + 2)]
  <2>1. v + 1 \in 0 .. (MaxView + 2)
    <3>1. l <= MaxView + 1
      BY DEF ShardInv, PlaceInv
    <3> HIDE DEF v, l
    <3> QED BY <1>1, <1>2, <3>1, MaxViewAssumption
  <2> QED BY <1>1, <1>5, <2>1 DEF ShardInv, TypeOK
<1>13. /\ Height(n)' = v
       /\ \A k \in Node : k # n => Height(k)' = Height(k)
  BY <1>1, <1>12 DEF Height
<1>14. /\ blocks' = [blocks EXCEPT ![n] = {w \in @ : w >= v + 1}]
       /\ parts' = [parts EXCEPT ![n] = {x \in @ : x[1] >= v + 1}]
       /\ retained' = [retained EXCEPT ![n] = {x \in @ : x[1] >= v + 1}]
       /\ net' = [net EXCEPT ![n] = {x \in @ : x[1] >= v + 1}]
  BY <1>5 DEF prune
<1>15. /\ executed' \in [Node -> View] /\ \A k \in Node : k # n => executed'[k] = executed[k]
       /\ executed'[n] = executed[n] \/ executed'[n] = v - 2
  <2>1. exec = 0 \/ (exec = v - 2 /\ v - 2 \in View)
    BY <1>1, <1>6, <1>7, MaxViewAssumption DEF View
  <2>2. executed \in [Node -> View]
    BY DEF ShardInv, TypeOK
  <2> HIDE DEF v, exec
  <2> QED BY <1>1, <1>5, <2>1, <2>2
<1>16. pool' \in [Node -> Seq(Block)] /\ PoolInv'
  <2>1. pool \in [Node -> Seq(Block)] /\ chain \in Seq(Block) /\ \A k \in Node : PoolOf(pool[k], Height(k), chain)
    BY DEF ShardInv, TypeOK, PoolInv
  <2>2. append_block(pool[n], b) \in Seq(Block) /\ PoolOf(append_block(pool[n], b), v, chain)
    <3>1. PoolOf(pool[n], v - 1, chain) /\ pool[n] \in Seq(Block) /\ v - 1 \in Nat /\ (v - 1) + 1 = v
      <4>1. PoolOf(pool[n], v - 1, chain) /\ pool[n] \in Seq(Block)
        BY <1>1, <1>6, <2>1, Zenon
      <4>2. v - 1 \in Nat /\ (v - 1) + 1 = v
        BY <1>1, <1>2
      <4> QED BY <4>1, <4>2
    <3>2. v <= Len(chain)
      BY <1>1, <1>2
    <3> DEFINE h == v - 1
    <3>3. h + 1 = v /\ h \in Nat /\ PoolOf(pool[n], h, chain)
      BY <3>1
    <3>4. b = chain[h + 1]
      BY <3>3
    <3> HIDE DEF h, v, b
    <3> QED BY <1>7, <2>1, <3>1, <3>2, <3>3, <3>4, AppendPool
  <2>3. pool' \in [Node -> Seq(Block)] /\ pool'[n] = append_block(pool[n], b)
        /\ \A k \in Node : k # n => pool'[k] = pool[k]
    <3> HIDE DEF b
    <3> QED BY <1>1, <1>5, <2>1, <2>2
  <2>4. \A k \in Node : PoolOf(pool'[k], Height(k)', chain)
    <3> HIDE DEF b, v
    <3> QED BY <1>13, <2>1, <2>2, <2>3
  <2> QED BY <1>10, <2>3, <2>4 DEF PoolInv, PoolOf
<1>17. TypeOK'
  <2>1. /\ blocks' \in [Validator -> SUBSET View] /\ parts' \in [Validator -> SUBSET (View \X Part)]
        /\ retained' \in [Validator -> SUBSET (View \X Part)] /\ net' \in [Validator -> SUBSET Message]
    <3>1. /\ blocks \in [Validator -> SUBSET View] /\ parts \in [Validator -> SUBSET (View \X Part)]
          /\ retained \in [Validator -> SUBSET (View \X Part)] /\ net \in [Validator -> SUBSET Message]
      BY DEF ShardInv, TypeOK
    <3> HIDE DEF v
    <3> QED BY <1>14, <3>1
  <2>2. votes' \subseteq sent'
    BY <1>5, <1>10 DEF ShardInv, TypeOK
  <2> QED BY <1>10, <1>11, <1>12, <1>15, <1>16, <2>1, <2>2 DEF ShardInv, TypeOK
<1>18. PlaceInv'
  <2>1. \A k \in Validator : view'[k] <= l + 1
    <3> HIDE DEF l
    <3>1. v + 1 <= l + 1
      BY <1>1, <1>2
    <3>2. \A k \in Validator : view[k] <= l + 1
      BY DEF ShardInv, PlaceInv, l
    <3> HIDE DEF v
    <3> QED BY <1>12, <3>1, <3>2 DEF Node
  <2>2. view'[Leader] = view[Leader]
    BY <1>1, <1>12
  <2> QED BY <1>10, <2>1, <2>2 DEF ShardInv, PlaceInv
<1>19. ArrivedInv'
  <2>1. /\ blocks \in [Validator -> SUBSET View] /\ parts \in [Validator -> SUBSET (View \X Part)]
        /\ retained \in [Validator -> SUBSET (View \X Part)]
    BY DEF ShardInv, TypeOK
  <2> HIDE DEF v
  <2> QED BY <1>10, <1>14, <2>1 DEF ShardInv, ArrivedInv
<1>20. NothingLost'
  <2> SUFFICES ASSUME NEW k \in Validator, NEW w \in 1 .. Len(chain), w >= view'[k]
               PROVE  /\ <<w, Header>> \notin net'[k] => w \in blocks'[k]
                      /\ \A p \in Part : <<w, p>> \notin net'[k] \/ <<w, p>> \in retained'[k] =>
                             IF w \in blocks'[k] THEN <<w, p>> \in parts'[k] ELSE <<w, p>> \in retained'[k]
    BY <1>10 DEF NothingLost
  <2>1. w >= view[k] /\ (k = n => w >= v + 1)
    BY <1>1, <1>12 DEF Node
  <2>2. /\ <<w, Header>> \notin net[k] => w \in blocks[k]
        /\ \A p \in Part : <<w, p>> \notin net[k] \/ <<w, p>> \in retained[k] =>
               IF w \in blocks[k] THEN <<w, p>> \in parts[k] ELSE <<w, p>> \in retained[k]
    BY <2>1 DEF ShardInv, NothingLost
  <2>3. \A x : <<w, x>>[1] = w
    OBVIOUS
  <2>4. /\ w \in blocks'[k] <=> w \in blocks[k]
        /\ \A x : <<w, x>> \in parts'[k] <=> <<w, x>> \in parts[k]
        /\ \A x : <<w, x>> \in retained'[k] <=> <<w, x>> \in retained[k]
        /\ \A x : <<w, x>> \in net'[k] <=> <<w, x>> \in net[k]
    <3>1. /\ blocks \in [Validator -> SUBSET View] /\ parts \in [Validator -> SUBSET (View \X Part)]
          /\ retained \in [Validator -> SUBSET (View \X Part)] /\ net \in [Validator -> SUBSET Message]
      BY DEF ShardInv, TypeOK
    <3> HIDE DEF v
    <3>2. CASE k = n
      BY <1>14, <2>1, <2>3, <3>1, <3>2
    <3>3. CASE k # n
      BY <1>14, <3>1, <3>3
    <3> QED BY <3>2, <3>3
  <2> QED BY <2>2, <2>4
<1>21. ChainInv' /\ CertificateChain'
  BY <1>10 DEF ShardInv, ChainInv, CertificateChain
<1>22. view'[Leader] = view[Leader]
  BY <1>1, <1>12
<1>23. BallotInv'
  BY <1>10, <1>22 DEF ShardInv, BallotInv
<1>24. OwnInv'
  BY <1>10, <1>11, <1>22 DEF ShardInv, OwnInv
<1>25. CertInv'
  BY <1>10, <1>11 DEF ShardInv, CertInv
<1>26. ExecInv'
  <2>1. \A k \in Node : executed[k] = 0 \/ executed[k] <= Height(k) - 2
    BY DEF ShardInv, ExecInv
  <2>2. executed[n] \in Int
    <3>1. executed[n] \in View
      BY <1>1 DEF ShardInv, TypeOK
    <3> QED BY <3>1, MaxViewAssumption DEF View
  <2>3. executed'[n] = 0 \/ executed'[n] <= v - 2
    BY <1>1, <1>6, <1>15, <2>1, <2>2
  <2> HIDE DEF v
  <2> QED BY <1>13, <1>15, <2>1, <2>3 DEF ExecInv
<1> QED BY <1>11, <1>16, <1>17, <1>18, <1>19, <1>20, <1>21, <1>23, <1>24, <1>25, <1>26 DEF ShardInv

-----------------------------------------------------------------------------
(* Proposing. *)

\* A proposal, the first one or one on top of a certified block.
LEMMA ProposeStep ==
    ASSUME ShardInv, doPropose, view[Leader] <= MaxView, view[Leader] = 0 \/ own # Nil,
           step' \in [Node -> StepName], busy' \in [Node -> BOOLEAN],
           step'[Leader] \in {"leader-vote", "leader-wait", "stopped"},
           step'[Leader] \in {"leader-vote", "leader-wait"} => view[Leader] + 1 <= MaxView
    PROVE  ShardInv'
<1> DEFINE u == view[Leader]
           v == u + 1
           b == make_block(pool[Leader], v)
           m == generate_vote(Leader, b, top_hash(pool[Leader]), TRUE)
           exec == commit_and_execution_j_2(pool[Leader])
<1>1. /\ Leader \in Node /\ Leader \notin Validator /\ u \in Nat /\ Height(Leader) = u
      /\ Len(chain) = u /\ u <= MaxView /\ MaxView \in Nat /\ (u = 0 \/ own # Nil) /\ view[Leader] = u
  BY LeaderAssumption, MaxViewAssumption, Views DEF ShardInv, Node, PlaceInv, Height
<1>2. /\ executed' = [executed EXCEPT ![Leader] = IF exec = 0 THEN @ ELSE exec]
      /\ view' = [view EXCEPT ![Leader] = v]
      /\ chain' = Append(chain, b)
      /\ net' = [n \in Validator |-> net[n] \cup ({v} \X (Part \cup {Header}))]
      /\ votes' = {m} /\ sent' = sent \cup {m}
      /\ pool' = [pool EXCEPT ![Leader] = append_block(@, b)]
      /\ own' = Nil /\ others' = FALSE
      /\ blocks' = blocks /\ parts' = parts /\ retained' = retained
  BY DEF doPropose, data
<1>3. /\ top_hash(pool[Leader]) = u /\ (has_block(pool[Leader], 1) <=> u >= 1)
      /\ exec = IF u >= 2 THEN u - 1 ELSE 0
  BY <1>1, PoolReads
<1> HIDE DEF u
<1>4. v \in View /\ u \in View /\ v - 1 = u /\ v <= MaxView + 1
  BY <1>1, MaxViewAssumption DEF View
<1>5. /\ b.view = v /\ b.agg = (IF u >= 1 THEN own ELSE Nil) /\ b \in Block
      /\ v >= 5 => b.ci = ShardIDCount /\ b.cc = ShardIDCount
  <2>1. own \in AggregatedVote /\ Nil \in AggregatedVote
    BY DEF ShardInv, TypeOK, AggregatedVote
  <2>2. v >= 5 => has_block(pool[Leader], 2) /\ has_block(pool[Leader], 4)
    <3>1. Len(pool[Leader]) = IF u < 7 THEN u ELSE 7
      BY <1>1 DEF ShardInv, PoolInv, PoolOf
    <3> QED BY <1>1, <3>1 DEF has_block
  <2> HIDE DEF v
  <2> QED BY <1>3, <1>4, <2>1, <2>2, ShardIDAssumption DEF Block, make_block
<1>6. m = [view |-> v, last |-> u, voter |-> Leader, ok |-> TRUE]
  BY <1>3, <1>5 DEF generate_vote
<1>7. m \in Vote /\ m.ok /\ m.view = v /\ m.last = m.view - 1
  <2>1. m.last = u /\ m.view = v /\ m.ok
    <3> HIDE DEF m, v
    <3> QED BY <1>6
  <2>2. m \in Vote
    <3> HIDE DEF m, v, u
    <3> QED BY <1>1, <1>4, <1>6 DEF Vote
  <2> QED BY <1>4, <2>1, <2>2
<1> HIDE DEF m, b
<1>8. /\ chain' \in Seq(Block) /\ Len(chain') = v /\ chain'[v] = b
      /\ \A i \in 1 .. u : chain'[i] = chain[i]
  <2>1. chain \in Seq(Block)
    BY DEF ShardInv, TypeOK
  <2>2. /\ Append(chain, b) \in Seq(Block) /\ Len(Append(chain, b)) = Len(chain) + 1
        /\ \A i \in 1 .. Len(chain) : Append(chain, b)[i] = chain[i]
        /\ Append(chain, b)[Len(chain) + 1] = b
    BY <1>5, <2>1, Longer, Zenon
  <2> QED BY <1>1, <1>2, <2>2, Zenon
<1>9. VoteInv' /\ sent' \subseteq Vote /\ \A w : Certified(w) => Certified(w)'
  <2>1. Len(chain) \in Nat /\ Len(chain') \in Nat /\ Len(chain) <= Len(chain') /\ m.view \in 1 .. Len(chain')
    BY <1>1, <1>7, <1>8
  <2> HIDE DEF v, u
  <2> QED BY <1>2, <1>7, <2>1, OneVote
<1>10. /\ view'[Leader] = v /\ \A k \in Validator : view'[k] = view[k]
       /\ view' \in [Node -> 0 .. (MaxView + 2)]
  <2>1. v \in 0 .. (MaxView + 2)
    BY <1>1, <1>4, MaxViewAssumption
  <2> HIDE DEF v
  <2> QED BY <1>1, <1>2, <2>1 DEF ShardInv, TypeOK, Node
<1>11. Height(Leader)' = v /\ \A k \in Validator : Height(k)' = Height(k)
  BY <1>1, <1>10 DEF Height
<1>12. PlaceInv'
  <2>1. \A k \in Validator : view'[k] <= v + 1
    <3>1. \A k \in Validator : view[k] <= u + 1 /\ view[k] \in Nat
      BY <1>1, Views DEF ShardInv, PlaceInv, Node
    <3> QED BY <1>1, <1>10, <3>1
  <2>2. step'[Leader] \in {"leader-vote", "leader-wait"} => v \in 1 .. MaxView
    BY <1>1, MaxViewAssumption
  <2> HIDE DEF v
  <2> QED BY <1>4, <1>8, <1>10, <2>1, <2>2 DEF PlaceInv
<1>13. ArrivedInv'
  <2>1. 1 .. u \subseteq 1 .. v
    BY <1>1
  <2>2. \A k \in Validator : blocks[k] \subseteq 1 .. u /\ \A x \in retained[k] : x[1] \in 1 .. u
    BY <1>1 DEF ShardInv, ArrivedInv
  <2> HIDE DEF v, u
  <2> QED BY <1>2, <1>8, <2>1, <2>2 DEF ShardInv, ArrivedInv
<1>14. NothingLost'
  <2> SUFFICES ASSUME NEW k \in Validator, NEW w \in 1 .. v, w >= view[k]
               PROVE  /\ <<w, Header>> \notin net'[k] => w \in blocks[k]
                      /\ \A p \in Part : <<w, p>> \notin net'[k] \/ <<w, p>> \in retained[k] =>
                             IF w \in blocks[k] THEN <<w, p>> \in parts[k] ELSE <<w, p>> \in retained[k]
    BY <1>2, <1>8, <1>10 DEF NothingLost
  <2>1. net'[k] = net[k] \cup ({v} \X (Part \cup {Header}))
    BY <1>2
  <2>2. CASE w = v
    \* the new block's messages are all on their way
    <3>1. <<w, Header>> \in net'[k] /\ \A p \in Part : <<w, p>> \in net'[k]
      BY <2>1, <2>2
    <3>2. w \notin blocks[k]
      BY <1>1, <2>2 DEF ShardInv, ArrivedInv
    <3> QED BY <3>1, <3>2
  <2>3. CASE w # v
    <3>1. w \in 1 .. Len(chain)
      BY <1>1, <2>3
    <3>2. /\ <<w, Header>> \notin net[k] => w \in blocks[k]
          /\ \A p \in Part : <<w, p>> \notin net[k] \/ <<w, p>> \in retained[k] =>
                 IF w \in blocks[k] THEN <<w, p>> \in parts[k] ELSE <<w, p>> \in retained[k]
      BY <3>1 DEF ShardInv, NothingLost
    <3> QED BY <2>1, <3>2
  <2> QED BY <2>2, <2>3
<1>15. ChainInv'
  <2> SUFFICES ASSUME NEW i \in 1 .. v
               PROVE  /\ chain'[i].view = i
                      /\ i >= 5 => chain'[i].ci = ShardIDCount /\ chain'[i].cc = ShardIDCount
    BY <1>8 DEF ChainInv
  <2>1. CASE i = v
    BY <1>5, <1>8, <2>1
  <2>2. CASE i # v
    <3>1. i \in 1 .. u
      BY <1>1, <2>2
    <3> QED BY <1>1, <1>8, <3>1 DEF ShardInv, ChainInv
  <2> QED BY <2>1, <2>2
<1>16. pool' \in [Node -> Seq(Block)] /\ PoolInv'
  <2>1. /\ pool \in [Node -> Seq(Block)] /\ chain \in Seq(Block)
        /\ \A k \in Node : PoolOf(pool[k], Height(k), chain) /\ Height(k) \in 0 .. Len(chain)
    BY PoolReads DEF ShardInv, TypeOK, PoolInv
  <2>2. ASSUME NEW k \in Node PROVE PoolOf(pool[k], Height(k), chain')
    <3> DEFINE h == Height(k)
               c == chain'
    <3>1. pool[k] \in Seq(Block) /\ chain \in Seq(Block) /\ h \in 0 .. Len(chain) /\ PoolOf(pool[k], h, chain)
      BY <2>1
    <3>2. \A i \in 1 .. Len(chain) : c[i] = chain[i]
      BY <1>1, <1>8
    <3> HIDE DEF h, c
    <3>3. PoolOf(pool[k], h, c)
      BY <3>1, <3>2, PoolStays
    <3> QED BY <3>3 DEF h, c
  <2>3. append_block(pool[Leader], b) \in Seq(Block) /\ PoolOf(append_block(pool[Leader], b), v, chain')
    <3>1. PoolOf(pool[Leader], u, chain') /\ pool[Leader] \in Seq(Block)
      BY <1>1, <2>1, <2>2
    <3>2. u \in Nat /\ u + 1 <= Len(chain') /\ b = chain'[u + 1]
      BY <1>1, <1>8
    <3> DEFINE c == chain'
    <3>3. c \in Seq(Block) /\ PoolOf(pool[Leader], u, c) /\ u + 1 <= Len(c) /\ b = c[u + 1]
      BY <1>8, <3>1, <3>2
    <3> HIDE DEF u, c
    <3>4. append_block(pool[Leader], b) \in Seq(Block) /\ PoolOf(append_block(pool[Leader], b), u + 1, c)
      BY <1>5, <3>1, <3>2, <3>3, AppendPool
    <3> QED BY <3>4 DEF c
  <2>4. /\ pool' \in [Node -> Seq(Block)] /\ pool'[Leader] = append_block(pool[Leader], b)
        /\ \A k \in Node : k # Leader => pool'[k] = pool[k]
    BY <1>1, <1>2, <2>1, <2>3
  <2>5. \A k \in Node : PoolOf(pool'[k], Height(k)', chain')
    <3> HIDE DEF v
    <3> QED BY <1>11, <2>2, <2>3, <2>4 DEF Node
  <2> QED BY <2>4, <2>5 DEF PoolInv, PoolOf
<1>17. /\ executed' \in [Node -> View] /\ \A k \in Node : k # Leader => executed'[k] = executed[k]
       /\ executed'[Leader] = executed[Leader] \/ executed'[Leader] = u - 1
  <2>1. exec = 0 \/ (exec = u - 1 /\ u - 1 \in View)
    BY <1>1, <1>3, <1>4, MaxViewAssumption DEF View
  <2>2. executed \in [Node -> View]
    BY DEF ShardInv, TypeOK
  <2> HIDE DEF u, exec
  <2> QED BY <1>1, <1>2, <2>1, <2>2
<1>18. ExecInv'
  <2>1. \A k \in Node : executed[k] = 0 \/ executed[k] <= Height(k) - 2
    BY DEF ShardInv, ExecInv
  <2>2. executed[Leader] \in Int
    <3>1. executed[Leader] \in View
      BY <1>1 DEF ShardInv, TypeOK
    <3> QED BY <3>1, MaxViewAssumption DEF View
  <2>3. executed'[Leader] = 0 \/ executed'[Leader] <= v - 2
    BY <1>1, <1>17, <2>1, <2>2
  <2> HIDE DEF v
  <2> QED BY <1>1, <1>11, <1>17, <2>1, <2>3 DEF ExecInv, Node
<1>19. BallotInv'
  BY <1>2, <1>7, <1>10 DEF BallotInv
<1>20. OwnInv'
  BY <1>2 DEF OwnInv
<1>21. CertificateChain'
  <2> SUFFICES ASSUME NEW i \in 2 .. v PROVE chain'[i].agg = [for |-> i - 1, last |-> i - 2, ok |-> TRUE]
    BY <1>8 DEF CertificateChain
  <2>1. CASE i = v
    <3>1. u >= 1 /\ u - 1 = v - 2 /\ own # Nil
      BY <1>1, <2>1
    <3>2. own = [for |-> u, last |-> u - 1, ok |-> TRUE]
      BY <1>1, <3>1 DEF ShardInv, OwnInv
    <3>3. b.agg = own
      BY <1>5, <3>1
    <3> QED BY <1>4, <1>8, <2>1, <3>1, <3>2, <3>3
  <2>2. CASE i # v
    <3>1. i \in 2 .. u /\ i \in 1 .. u
      BY <1>1, <2>2
    <3> QED BY <1>1, <1>8, <3>1 DEF ShardInv, CertificateChain
  <2> QED BY <2>1, <2>2
<1>22. CertInv'
  <2>1. ASSUME NEW w \in 1 .. u PROVE Certified(w)
    <3>1. CASE w = u
      <4>1. own # Nil
        BY <1>1, <3>1
      <4> QED BY <1>1, <3>1, <4>1 DEF ShardInv, OwnInv
    <3>2. CASE w # u
      <4>1. w \in 1 .. (Len(chain) - 1)
        BY <1>1, <3>2
      <4> QED BY <4>1 DEF ShardInv, CertInv
    <3> QED BY <3>1, <3>2
  <2>2. Len(chain') - 1 = u
    BY <1>1, <1>8
  <2> HIDE DEF u
  <2> QED BY <1>9, <2>1, <2>2 DEF CertInv
<1>23. TypeOK'
  <2>1. net' \in [Validator -> SUBSET Message]
    <3>1. net \in [Validator -> SUBSET Message]
      BY DEF ShardInv, TypeOK
    <3>2. {v} \X (Part \cup {Header}) \subseteq Message
      BY <1>4 DEF Message
    <3> HIDE DEF v
    <3> QED BY <1>2, <3>1, <3>2
  <2>2. votes' \subseteq sent' /\ own' \in AggregatedVote /\ others' \in BOOLEAN
    BY <1>2 DEF AggregatedVote
  <2> QED BY <1>2, <1>8, <1>9, <1>10, <1>16, <1>17, <2>1, <2>2 DEF ShardInv, TypeOK, StepName
<1> QED BY <1>9, <1>12, <1>13, <1>14, <1>15, <1>16, <1>18, <1>19, <1>20, <1>21, <1>22, <1>23 DEF ShardInv

\* The first proposal.
LEMMA StartLeaderKeeps == ASSUME ShardInv, StartLeader PROVE ShardInv'
<1>1. Leader \in Node /\ view[Leader] = 0 /\ view[Leader] + 1 <= MaxView /\ view[Leader] <= MaxView
  <2>1. Leader \in Node /\ view[Leader] = 0
    BY DEF ShardInv, PlaceInv, StartLeader, Node
  <2> QED BY <2>1, MaxViewAssumption
<1>2. step' \in [Node -> StepName] /\ busy' \in [Node -> BOOLEAN] /\ step'[Leader] = "leader-vote"
  BY <1>1 DEF ShardInv, TypeOK, StepName, StartLeader
<1> QED BY <1>1, <1>2, ProposeStep DEF StartLeader

\* A later proposal, the last of which ends the leader.
LEMMA ProposeKeeps == ASSUME ShardInv, Propose PROVE ShardInv'
<1>1. Leader \in Node /\ view[Leader] \in 1 .. MaxView /\ own # Nil
  BY DEF ShardInv, PlaceInv, Propose, isCrossShardMessageComplete, Node
<1>2. view'[Leader] = view[Leader] + 1
  BY <1>1 DEF Propose, doPropose, ShardInv, TypeOK
<1>3. /\ step'[Leader] = IF view[Leader] + 1 > MaxView THEN "stopped" ELSE next_step(votes')
      /\ next_step(votes') \in {"leader-vote", "leader-wait"}
  BY <1>1, <1>2 DEF Propose, ShardInv, TypeOK, next_step
<1>4. step' \in [Node -> StepName]
  BY <1>3 DEF Propose, ShardInv, TypeOK, StepName
<1>5. busy' \in [Node -> BOOLEAN]
  <2>1. (view'[Leader] <= MaxView) \in BOOLEAN
    OBVIOUS
  <2> QED BY <2>1 DEF Propose, ShardInv, TypeOK
<1>6. view[Leader] <= MaxView /\ step'[Leader] \in {"leader-vote", "leader-wait", "stopped"}
      /\ (step'[Leader] \in {"leader-vote", "leader-wait"} => view[Leader] + 1 <= MaxView)
  BY <1>1, <1>3, MaxViewAssumption
<1> QED BY <1>1, <1>4, <1>5, <1>6, ProposeStep DEF Propose

-----------------------------------------------------------------------------
(* The theorems. *)

\* Nothing has been proposed at the start.
LEMMA InitShard == ASSUME Init PROVE ShardInv
<1>1. /\ Leader \in Node /\ 0 \in View /\ 0 \in 0 .. (MaxView + 2) /\ 0 <= MaxView + 1
  BY MaxViewAssumption DEF Node, View
<1>2. <<>> \in Seq(Block) /\ Len(chain) = 0 /\ chain = <<>>
  BY EmptySeq DEF Init
<1>3. \A n \in Node : view[n] = 0 /\ Height(n) = 0 /\ pool[n] = <<>> /\ executed[n] = 0 /\ step[n] = ""
  BY DEF Init, Height
<1>4. TypeOK
  <2>1. pool \in [Node -> Seq(Block)] /\ chain \in Seq(Block)
    BY <1>2 DEF Init
  <2>2. own \in AggregatedVote
    BY DEF Init, AggregatedVote
  <2>3. view \in [Node -> 0 .. (MaxView + 2)] /\ executed \in [Node -> View]
    BY <1>1 DEF Init
  <2>4. /\ step \in [Node -> {"", "validator-wait", "leader-vote", "leader-wait", "stopped"}]
        /\ busy \in [Node -> BOOLEAN] /\ blocks \in [Validator -> SUBSET View]
        /\ parts \in [Validator -> SUBSET (View \X Part)] /\ retained \in [Validator -> SUBSET (View \X Part)]
        /\ net \in [Validator -> SUBSET Message] /\ sent \subseteq Vote /\ votes \subseteq sent /\ others \in BOOLEAN
    BY DEF Init
  <2> QED BY <2>1, <2>2, <2>3, <2>4 DEF TypeOK
<1>5. PlaceInv
  <2>1. \A n \in Validator : view[n] = 0
    BY <1>3 DEF Node
  <2>2. view[Leader] = 0 /\ step[Leader] = ""
    BY <1>1, <1>3
  <2>3. step[Leader] \notin {"leader-vote", "leader-wait"}
    BY <2>2
  <2>4. 0 <= Len(chain) + 1
    BY <1>2
  <2>5. \A n \in Validator : view[n] <= Len(chain) + 1
    BY <2>1, <2>4
  <2> QED BY <1>1, <1>2, <2>2, <2>3, <2>5 DEF PlaceInv
<1>6. ArrivedInv /\ NothingLost /\ ChainInv /\ CertificateChain /\ CertInv
  <2>1. 1 .. Len(chain) = {} /\ 2 .. Len(chain) = {} /\ 1 .. (Len(chain) - 1) = {}
    BY <1>2
  <2>2. \A n \in Validator : blocks[n] = {} /\ parts[n] = {} /\ retained[n] = {}
    BY DEF Init
  <2> QED BY <2>1, <2>2, Zenon DEF ArrivedInv, NothingLost, ChainInv, CertificateChain, CertInv
<1>7. PoolInv
  <2>1. PoolOf(<<>>, 0, chain)
    <3>1. Len(<<>>) = 0
      OBVIOUS
    <3> QED BY <3>1 DEF PoolOf
  <2> QED BY <1>3, <2>1 DEF PoolInv
<1>8. VoteInv
  BY FS_EmptySet DEF Init, VoteInv
<1>9. BallotInv /\ OwnInv
  <2>1. ~(view[Leader] > 0)
    <3>1. view[Leader] = 0
      BY <1>1, <1>3, Zenon
    <3> QED BY <3>1
  <2>2. votes = {} /\ own = Nil
    BY DEF Init
  <2> QED BY <2>1, <2>2 DEF BallotInv, OwnInv
<1>10. ExecInv
  BY <1>3 DEF ExecInv
<1> QED BY <1>4, <1>5, <1>6, <1>7, <1>8, <1>9, <1>10 DEF ShardInv

\* Every step of the leader and of a validator keeps the invariant.
LEMMA NextShard == ASSUME ShardInv, Next PROVE ShardInv'
<1>1. CASE LeaderNext
  BY <1>1, StartLeaderKeeps, CommunicateKeeps, ProposeKeeps, LeaderReturnsKeeps, ReceiveCSMsKeeps,
     ReceiveVoteKeeps DEF LeaderNext
<1>2. ASSUME NEW n \in Validator, ValidatorNext(n) PROVE ShardInv'
  BY <1>2, StartValidatorKeeps, ValidateKeeps, ValidatorReturnsKeeps, ReceiveProposalKeeps,
     ReceivePartKeeps DEF ValidatorNext
<1> QED BY <1>1, <1>2 DEF Next

\* The inductive invariant holds in every reachable state, for every shard.
THEOREM UrdShardCorrect == Spec => []ShardInv
<1>1. Init => ShardInv
  BY InitShard
<1>2. ShardInv /\ [Next]_vars => ShardInv'
  <2> SUFFICES ASSUME ShardInv, [Next]_vars PROVE ShardInv'
    OBVIOUS
  <2>1. CASE UNCHANGED vars
    <3>1. /\ UNCHANGED <<view, pool, executed, sent, chain>>
          /\ UNCHANGED <<step, busy, blocks, parts, retained, net, votes, own, others>>
      BY <2>1 DEF vars, data, leaderVars
    <3>2. TypeOK'
      BY <3>1 DEF ShardInv, TypeOK
    <3>3. PlaceInv' /\ ArrivedInv' /\ NothingLost'
      BY <3>1 DEF ShardInv, PlaceInv, ArrivedInv, NothingLost
    <3>4. BallotInv' /\ OwnInv'
      BY <3>1 DEF ShardInv, BallotInv, OwnInv, Certified
    <3> QED BY <3>1, <3>2, <3>3, <3>4, Frame
  <2> QED BY <2>1, NextShard
<1> QED BY <1>1, <1>2, PTL DEF Spec

\* State, BlockData and HeightDataPackage stay well formed.
THEOREM ShardTypeCorrect == Spec => []TypeOK
<1>1. ShardInv => TypeOK
  BY DEF ShardInv
<1> QED BY <1>1, UrdShardCorrect, PTL

\* Whatever order proposals and parts come in, append_block keeps every pool a
\* window of the newest seven blocks of the leader's chain.
THEOREM PoolsFollowChainCorrect == Spec => []PoolsFollowChain
<1>1. ShardInv => PoolsFollowChain
  <2> SUFFICES ASSUME ShardInv, NEW n \in Node
               PROVE  pool[n] = SubSeq(chain, IF Height(n) > PoolCap THEN Height(n) - PoolCap + 1 ELSE 1, Height(n))
    BY DEF PoolsFollowChain
  <2> DEFINE h == Height(n)
             p == pool[n]
  <2>1. p \in Seq(Block) /\ chain \in Seq(Block) /\ PoolOf(p, h, chain) /\ h \in 0 .. Len(chain)
    BY PoolReads DEF ShardInv, TypeOK, PoolInv
  <2> HIDE DEF h, p
  <2>2. p = SubSeq(chain, IF h > PoolCap THEN h - PoolCap + 1 ELSE 1, h)
    BY <2>1, PoolWindow
  <2> QED BY <2>2 DEF h, p
<1> QED BY <1>1, UrdShardCorrect, PTL

\* addPart and addPartSetHeader lose no message of the current or a later view.
THEOREM NothingLostCorrect == Spec => []NothingLost
<1>1. ShardInv => NothingLost
  BY DEF ShardInv
<1> QED BY <1>1, UrdShardCorrect, PTL

\* The certificate in each block is for the block before it, whichever vote
\* getMaj23 copied the last hash from.
THEOREM CertificateChainCorrect == Spec => []CertificateChain
<1>1. ShardInv => CertificateChain
  BY DEF ShardInv
<1> QED BY <1>1, UrdShardCorrect, PTL

\* verify_block never rejects a block of a correct leader, for none of its four reasons.
THEOREM NoRejectCorrect == Spec => []NoReject
<1>1. ShardInv => NoReject
  BY DEF ShardInv, VoteInv, NoReject
<1> QED BY <1>1, UrdShardCorrect, PTL

\* What commit_and_execution_j_2 executes, and the block after it, are certified.
THEOREM UrdCertifiedExecutionCorrect == Spec => []CertifiedExecution
<1>1. ShardInv => CertifiedExecution
  <2> SUFFICES ASSUME ShardInv, NEW n \in Node, executed[n] > 0, NEW w \in 1 .. (executed[n] + 1)
               PROVE  Certified(w)
    BY DEF CertifiedExecution, Certified
  <2> DEFINE e == executed[n]
             h == Height(n)
             l == Len(chain)
  <2>1. e \in Int
    <3>1. e \in View
      BY DEF ShardInv, TypeOK
    <3> QED BY <3>1, MaxViewAssumption DEF View
  <2>2. (e = 0 \/ e <= h - 2) /\ h \in 0 .. l /\ l \in Nat /\ e > 0 /\ w \in 1 .. (e + 1)
    BY PoolReads DEF ShardInv, ExecInv
  <2> HIDE DEF e, h, l
  <2>3. w \in 1 .. (l - 1)
    BY <2>1, <2>2
  <2> QED BY <2>3 DEF l, ShardInv, CertInv
<1> QED BY <1>1, UrdShardCorrect, PTL
=============================================================================
