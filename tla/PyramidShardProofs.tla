------------------------- MODULE PyramidShardProofs -------------------------
(***************************************************************************)
(* Certified execution and the wait for the B shards in a Pyramid I shard, *)
(* proved for every number of validators, every voting power, every set of *)
(* B shards and every height.                                              *)
(***************************************************************************)
EXTENDS PyramidShard, FiniteSums

Step == {"NewHeight", "Propose", "Prevote", "Precommit", "Commit", "Crashed"}

TypeOK ==
    /\ height \in [Node -> Height]
    /\ step \in [Node -> Step]
    /\ busy \in [Node -> BOOLEAN]
    /\ proposal \in [Node -> BOOLEAN]
    /\ parts \in [Node -> SUBSET Part]
    /\ buffer \in [Node -> SUBSET Part]
    /\ prevotes \in [Node -> SUBSET Node]
    /\ precommits \in [Node -> SUBSET Node]
    /\ relay \in [Node -> SUBSET Message]
    /\ bseen \in [Node -> SUBSET BShard]
    /\ net \in [Node -> SUBSET Message]
    /\ sent \subseteq Message
    /\ iblock \subseteq Height
    /\ bheight \in [BShard -> Height]

\* Only what was sent is on its way or put aside.
Origin == \A n \in Node : net[n] \subseteq sent /\ relay[n] \subseteq sent

\* A B shard has left the heights it sent a MessageOK for.
OKInv == \A m \in sent : m.kind = "OK" => m.height <= bheight[m.from]

\* A B shard counted at a height has left it, for whichever height its MessageOK was.
SeenInv == \A n \in Node : \A b \in bseen[n] : height[n] <= bheight[b]

\* The votes in heightDatas were cast, and for the height of the node.
VotesInv == \A n \in Node : /\ prevotes[n] \subseteq Voters("Prevote", height[n])
                            /\ precommits[n] \subseteq Voters("Precommit", height[n])

Certified(kind, h) == 3 * Power(Voters(kind, h)) > 2 * Power(Node)

\* A node precommits what more than two thirds have prevoted.
PrecommitInv == \A m \in sent : m.kind = "Precommit" => Certified("Prevote", m.height)

\* A node executes what more than two thirds have precommitted.
ExecuteInv == \A n \in Node : \A h \in 1 .. Executed(n) : Certified("Precommit", h)

(***************************************************************************)
(* The inductive invariants: one for the wait, one for the votes.          *)
(***************************************************************************)
WaitInv == TypeOK /\ Origin /\ OKInv /\ SeenInv /\ BShardsFirst

CertInv == VotesInv /\ PrecommitInv /\ ExecuteInv

-----------------------------------------------------------------------------
(* Voting power and messages. *)

\* Power is a sum over a finite set.
LEMMA PowerSum == \A S : Power(S) = SumOf(Vote, S)
<1> SUFFICES ASSUME NEW S PROVE Power(S) = SumOf(Vote, S)
  OBVIOUS
<1>1. Power(S) = (CHOOSE g : g = [s \in SUBSET S |->
                      IF s = {} THEN 0 ELSE Vote[CHOOSE x \in s : TRUE]
                                            + g[s \ {CHOOSE x \in s : TRUE}]])[S]
  BY DEF Power, MapThenSumSet, MapThenFoldSet
<1> QED BY <1>1 DEF SumOf, SumTable, IsSum, SumStep, pick

\* More voters have no less power.
LEMMA PowerGrows ==
    ASSUME NEW S \in SUBSET Node, NEW U \in SUBSET S
    PROVE  Power(S) \in Nat /\ Power(U) \in Nat /\ Power(U) <= Power(S)
<1>1. IsFiniteSet(Node)
  BY NAssumption, FS_Interval DEF Node
<1>2. IsFiniteSet(S) /\ IsFiniteSet(U)
  BY <1>1, FS_Subset
<1>3. (\A x \in S : Vote[x] \in Nat) /\ (\A x \in U : Vote[x] \in Nat)
  BY VoteAssumption
<1>4. SumOf(Vote, S) \in Nat /\ SumOf(Vote, U) \in Nat
  BY <1>2, <1>3, SumNat
<1>5. SumOf(Vote, U) <= SumOf(Vote, S)
  BY <1>2, <1>3, SumMonotone
<1> QED BY <1>4, <1>5, PowerSum

\* Nobody has no power.
LEMMA PowerEmpty == Power({}) = 0
BY PowerSum, SumUnfold, FS_EmptySet

\* HasMaj23, with its rounded division, means more than two thirds.
LEMMA Maj23 ==
    ASSUME NEW U \in SUBSET Node, NEW S \in SUBSET U, HasMaj23(S)
    PROVE  3 * Power(U) > 2 * Power(Node)
<1> DEFINE p == Power(S)
           q == Power(U)
           t == Power(Node)
<1>1. p \in Nat /\ q \in Nat /\ t \in Nat /\ p <= q
  BY PowerGrows
<1>2. p > (2 * t) \div 3
  BY DEF HasMaj23
<1> HIDE DEF p, q, t
<1>3. 3 * q > 2 * t
  BY <1>1, <1>2
<1> QED BY <1>3 DEF q, t

\* Who sends the messages of each kind.
LEMMA Kinds ==
    ASSUME NEW m \in Message
    PROVE  /\ m.height \in Height
           /\ m.kind = "OK" => m.from \in BShard
           /\ m.kind \in {"Proposal", "Prevote", "Precommit"} => m.from \in Node
           /\ m.kind = "Part" => m.from \in Part
BY DEF Message, Proposal, BlockPart, Prevote, Precommit, MessageOK

\* Voters are nodes, and a sent vote stays sent.
LEMMA VotersGrow ==
    ASSUME sent \subseteq sent', sent' \subseteq Message, NEW h,
           NEW kind \in {"Prevote", "Precommit"}
    PROVE  /\ Voters(kind, h)' \in SUBSET Node
           /\ Voters(kind, h) \in SUBSET Voters(kind, h)'
           /\ Certified(kind, h) => Certified(kind, h)'
<1> DEFINE V == Voters(kind, h)
           W == Voters(kind, h)'
<1>1. W \in SUBSET Node
  BY Kinds DEF Voters, From
<1>2. V \in SUBSET W
  BY DEF Voters, From
<1>3. Power(V) \in Nat /\ Power(W) \in Nat /\ Power(V) <= Power(W) /\ Power(Node) \in Nat
  BY <1>1, <1>2, PowerGrows
<1>4. 3 * Power(V) > 2 * Power(Node) => 3 * Power(W) > 2 * Power(Node)
  <2> HIDE DEF V, W
  <2> QED BY <1>3
<1> QED BY <1>1, <1>2, <1>4 DEF Certified

-----------------------------------------------------------------------------
(* What every step has to show. *)

\* A step that keeps heights and messages, and counts only B shards that have left
\* the height, keeps the wait.
LEMMA WaitFrame ==
    ASSUME WaitInv, TypeOK', height' = height, bheight' = bheight, sent' = sent,
           \A n \in Node : net'[n] \subseteq sent /\ relay'[n] \subseteq sent,
           \A n \in Node : \A b \in bseen'[n] : height[n] <= bheight[b]
    PROVE  WaitInv'
<1>1. Origin' /\ OKInv' /\ SeenInv' /\ BShardsFirst'
  BY DEF WaitInv, Origin, OKInv, SeenInv, BShardsFirst
<1> QED BY <1>1 DEF WaitInv

\* A step that only adds messages keeps the certificates there are.
LEMMA CertFrame ==
    ASSUME CertInv, VotesInv', sent \subseteq sent', sent' \subseteq Message,
           \A m \in sent' \ sent : m.kind = "Precommit" => Certified("Prevote", m.height)',
           \A n \in Node : \A h \in (1 .. Executed(n))' :
               h \in 1 .. Executed(n) \/ Certified("Precommit", h)'
    PROVE  CertInv'
<1>1. PrecommitInv'
  <2> SUFFICES ASSUME NEW m \in sent', m.kind = "Precommit"
               PROVE  Certified("Prevote", m.height)'
    BY DEF PrecommitInv
  <2>1. m \in sent => Certified("Prevote", m.height)
    BY DEF CertInv, PrecommitInv
  <2> QED BY <2>1, VotersGrow
<1>2. ExecuteInv'
  <2> SUFFICES ASSUME NEW n \in Node, NEW h \in (1 .. Executed(n))'
               PROVE  Certified("Precommit", h)'
    BY DEF ExecuteInv
  <2>1. h \in 1 .. Executed(n) => Certified("Precommit", h)
    BY DEF CertInv, ExecuteInv
  <2> QED BY <2>1, VotersGrow
<1> QED BY <1>1, <1>2 DEF CertInv

\* The votes are still those of the height when none changes.
LEMMA VotesFrame ==
    ASSUME CertInv, height' = height, sent' = sent,
           prevotes' = prevotes, precommits' = precommits
    PROVE  VotesInv'
BY DEF CertInv, VotesInv, Voters

\* A step that changes neither heights, steps, votes nor messages keeps both.
LEMMA QuietStep ==
    ASSUME WaitInv, CertInv, TypeOK',
           UNCHANGED <<height, step, prevotes, precommits, bseen, sent, bheight>>,
           \A n \in Node : net'[n] \subseteq sent /\ relay'[n] \subseteq sent
    PROVE  WaitInv' /\ CertInv'
<1>1. WaitInv'
  BY WaitFrame DEF WaitInv, SeenInv
<1>2. VotesInv'
  BY VotesFrame
<1>3. \A n \in Node : Executed(n)' = Executed(n)
  BY DEF Executed
<1>4. sent' \subseteq Message
  BY DEF TypeOK
<1>5. CertInv'
  BY <1>2, <1>3, <1>4, CertFrame
<1> QED BY <1>1, <1>5

-----------------------------------------------------------------------------
(* enterNewHeight: Start and DoCommit. *)

\* What was put aside for a height is of that height, and was sent.
LEMMA RelayedVotes ==
    ASSUME WaitInv, NEW n \in Node, NEW kind
    PROVE  /\ Relayed(n, kind) \subseteq Voters(kind, height[n] + 1)
           /\ kind = "Part" => Relayed(n, kind) \subseteq Part
           /\ kind = "OK" => Relayed(n, kind) \subseteq BShard
           /\ kind = "OK" => \A b \in Relayed(n, kind) : height[n] + 1 <= bheight[b]
<1>1. relay[n] \subseteq sent /\ sent \subseteq Message
  BY DEF WaitInv, Origin, TypeOK
<1>2. Relayed(n, kind) \subseteq Voters(kind, height[n] + 1)
  BY <1>1 DEF Relayed, Voters, From
<1>3. (kind = "Part" => Relayed(n, kind) \subseteq Part)
      /\ (kind = "OK" => Relayed(n, kind) \subseteq BShard)
  BY <1>1, Kinds DEF Relayed, From
<1>4. kind = "OK" => \A b \in Relayed(n, kind) : height[n] + 1 <= bheight[b]
  BY <1>1 DEF Relayed, From, WaitInv, OKInv
<1> QED BY <1>2, <1>3, <1>4

\* A node that every B shard lets go begins the next height with what was put aside.
LEMMA EnterStep ==
    ASSUME WaitInv, CertInv, NEW n \in Node, enterNewHeight(n), height[n] < MaxHeight,
           \A b \in BShard : height[n] <= bheight[b],
           height[n] = 0 \/ step[n] = "Commit",
           busy' \in [Node -> BOOLEAN], iblock' = iblock, bheight' = bheight
    PROVE  WaitInv' /\ CertInv'
<1> DEFINE h == height[n] + 1
           M == IF Proposer(h) = n THEN createBlockAndBroadcast(h) ELSE {}
<1>1. TypeOK
  BY DEF WaitInv
<1>2. h \in Height /\ height[n] \in Height
  <2>1. height[n] \in Height
    BY <1>1 DEF TypeOK
  <2> QED BY <2>1, HeightAssumption DEF Height
<1>3. /\ height' = [height EXCEPT ![n] = h]
      /\ step' = [step EXCEPT ![n] = "Propose"]
      /\ prevotes' = [prevotes EXCEPT ![n] = Relayed(n, "Prevote")]
      /\ precommits' = [precommits EXCEPT ![n] = Relayed(n, "Precommit")]
      /\ bseen' = [bseen EXCEPT ![n] = Relayed(n, "OK")]
      /\ relay' = [relay EXCEPT ![n] = {m \in relay[n] : m.height >= h}]
      /\ sent' = sent \cup M
      /\ net' = [u \in Node |-> IF u \in Node \ {n} THEN net[u] \cup M ELSE net[u]]
  BY DEF enterNewHeight, clearVotes, Send
<1>4. M \subseteq Message /\ \A m \in M : m.kind \in {"Proposal", "Part"}
  <2>1. CASE Proposer(h) = n
    <3>1. M = {[kind |-> "Proposal", height |-> h, from |-> n]}
              \cup {[kind |-> "Part", height |-> h, from |-> p] : p \in Part}
      BY <2>1 DEF createBlockAndBroadcast
    <3> HIDE DEF M, h
    <3> QED BY <1>2, <3>1 DEF Message, Proposal, BlockPart
  <2>2. CASE Proposer(h) # n
    BY <2>2
  <2> QED BY <2>1, <2>2
<1> HIDE DEF M
<1>5. sent \subseteq sent' /\ sent' \subseteq Message
  BY <1>1, <1>3, <1>4 DEF TypeOK
<1>6. /\ Relayed(n, "Prevote") \subseteq Voters("Prevote", h)
      /\ Relayed(n, "Precommit") \subseteq Voters("Precommit", h)
      /\ Relayed(n, "Part") \subseteq Part /\ Relayed(n, "OK") \subseteq BShard
      /\ \A b \in Relayed(n, "OK") : h <= bheight[b]
  BY RelayedVotes
<1>7. /\ \A g : \A kind \in {"Prevote", "Precommit"} :
             Voters(kind, g) \subseteq Voters(kind, g)' /\ Voters(kind, g)' \subseteq Node
  BY <1>5, VotersGrow
<1> HIDE DEF h
<1>8. TypeOK'
  <2>1. height' \in [Node -> Height] /\ step' \in [Node -> Step]
    BY <1>1, <1>2, <1>3 DEF TypeOK, Step
  <2>2. /\ prevotes' \in [Node -> SUBSET Node] /\ precommits' \in [Node -> SUBSET Node]
        /\ bseen' \in [Node -> SUBSET BShard]
    <3>1. Relayed(n, "Prevote") \subseteq Node /\ Relayed(n, "Precommit") \subseteq Node
      BY <1>6, <1>7
    <3> QED BY <1>1, <1>3, <1>6, <3>1 DEF TypeOK
  <2>3. proposal' \in [Node -> BOOLEAN]
    BY <1>1 DEF TypeOK, enterNewHeight
  <2>4. parts' \in [Node -> SUBSET Part] /\ buffer' \in [Node -> SUBSET Part]
    <3>1. \E x, y \in SUBSET Part : /\ parts' = [parts EXCEPT ![n] = x]
                                    /\ buffer' = [buffer EXCEPT ![n] = y]
      BY <1>6 DEF enterNewHeight
    <3> QED BY <1>1, <3>1 DEF TypeOK
  <2>5. relay' \in [Node -> SUBSET Message] /\ net' \in [Node -> SUBSET Message]
    BY <1>1, <1>3, <1>4 DEF TypeOK
  <2> QED BY <1>1, <1>5, <2>1, <2>2, <2>3, <2>4, <2>5 DEF TypeOK
<1>9. Origin'
  BY <1>1, <1>3 DEF WaitInv, Origin, TypeOK
<1>10. OKInv'
  <2>1. \A m \in M : m.kind # "OK"
    BY <1>4
  <2> QED BY <1>3, <2>1 DEF WaitInv, OKInv
<1>11. SeenInv'
  BY <1>1, <1>3, <1>6 DEF WaitInv, SeenInv, TypeOK
<1>12. BShardsFirst'
  <2> SUFFICES ASSUME NEW u \in Node, NEW b \in BShard PROVE height'[u] <= bheight'[b] + 1
    BY DEF BShardsFirst
  <2>1. height[n] \in Int /\ bheight[b] \in Int
    BY <1>1, <1>2, HeightAssumption DEF TypeOK, Height
  <2>2. CASE u = n
    <3>1. height'[n] = height[n] + 1
      BY <1>1, <1>3 DEF TypeOK, h
    <3> QED BY <2>1, <2>2, <3>1
  <2>3. CASE u # n
    BY <1>1, <1>3, <2>3 DEF TypeOK, WaitInv, BShardsFirst
  <2> QED BY <2>2, <2>3
<1>13. VotesInv'
  <2> SUFFICES ASSUME NEW u \in Node
               PROVE  /\ prevotes'[u] \subseteq Voters("Prevote", height[u])'
                      /\ precommits'[u] \subseteq Voters("Precommit", height[u])'
    BY DEF VotesInv
  <2>1. CASE u = n
    <3>1. /\ prevotes'[n] = Relayed(n, "Prevote") /\ precommits'[n] = Relayed(n, "Precommit")
          /\ height'[n] = h
      BY <1>1, <1>3 DEF TypeOK
    <3> QED BY <1>6, <1>7, <2>1, <3>1 DEF Voters
  <2>2. CASE u # n
    <3>1. prevotes'[u] = prevotes[u] /\ precommits'[u] = precommits[u] /\ height'[u] = height[u]
      BY <1>1, <1>3, <2>2 DEF TypeOK
    <3>2. /\ prevotes[u] \subseteq Voters("Prevote", height[u])
          /\ precommits[u] \subseteq Voters("Precommit", height[u])
      BY DEF CertInv, VotesInv
    <3> QED BY <1>7, <3>1, <3>2 DEF Voters
  <2> QED BY <2>1, <2>2
<1>14. \A u \in Node : \A k \in (1 .. Executed(u))' : k \in 1 .. Executed(u)
  <2> SUFFICES ASSUME NEW u \in Node, NEW k \in (1 .. Executed(u))' PROVE k \in 1 .. Executed(u)
    OBVIOUS
  <2>1. CASE u = n
    <3>1. step'[n] = "Propose" /\ height'[n] = height[n] + 1
      BY <1>1, <1>3 DEF TypeOK, h
    <3>2. height[n] \in Nat
      BY <1>2, HeightAssumption DEF Height
    <3>3. Executed(n)' = height[n]
      BY <3>1, <3>2 DEF Executed
    <3> QED BY <2>1, <3>2, <3>3 DEF Executed
  <2>2. CASE u # n
    <3>1. Executed(u)' = Executed(u)
      BY <1>1, <1>3, <2>2 DEF Executed, TypeOK
    <3> QED BY <3>1
  <2> QED BY <2>1, <2>2
<1>15. \A m \in sent' \ sent : m.kind # "Precommit"
  BY <1>3, <1>4
<1>16. CertInv'
  BY <1>5, <1>13, <1>14, <1>15, CertFrame
<1> QED BY <1>8, <1>9, <1>10, <1>11, <1>12, <1>16 DEF WaitInv

\* Start begins height 1, which no B shard has to be waited for.
LEMMA StartKeeps ==
    ASSUME WaitInv, CertInv, NEW n \in Node, Start(n)
    PROVE  WaitInv' /\ CertInv'
<1>1. /\ height[n] = 0 /\ enterNewHeight(n) /\ iblock' = iblock /\ bheight' = bheight
      /\ busy' = [busy EXCEPT ![n] = \E m \in relay[n] : m.height = 1 /\ m.kind # "Part"]
  BY DEF Start
<1>2. busy' \in [Node -> BOOLEAN]
  <2>1. busy \in [Node -> BOOLEAN]
    BY DEF WaitInv, TypeOK
  <2>2. (\E m \in relay[n] : m.height = 1 /\ m.kind # "Part") \in BOOLEAN
    OBVIOUS
  <2> QED BY <1>1, <2>1, <2>2
<1>3. \A b \in BShard : height[n] <= bheight[b]
  <2>1. \A b \in BShard : bheight[b] \in Height
    BY DEF WaitInv, TypeOK
  <2> QED BY <1>1, <2>1, HeightAssumption DEF Height
<1>4. height[n] < MaxHeight
  BY <1>1, HeightAssumption
<1> QED BY <1>1, <1>2, <1>3, <1>4, EnterStep

\* DoCommit begins the next height once every B shard is in bseen.
LEMMA CommitKeeps ==
    ASSUME WaitInv, CertInv, NEW n \in Node, DoCommit(n)
    PROVE  WaitInv' /\ CertInv'
<1>1. /\ step[n] = "Commit" /\ bseen[n] = BShard /\ height[n] < MaxHeight
      /\ enterNewHeight(n) /\ busy' = busy /\ iblock' = iblock /\ bheight' = bheight
  BY DEF DoCommit, BCountZero
<1>2. \A b \in BShard : height[n] <= bheight[b]
  BY <1>1 DEF WaitInv, SeenInv
<1>3. busy' \in [Node -> BOOLEAN]
  BY <1>1 DEF WaitInv, TypeOK
<1> QED BY <1>1, <1>2, <1>3, EnterStep

-----------------------------------------------------------------------------
(* Messages. *)

\* A message delivered was sent, and the others are still on their way.
LEMMA Delivered ==
    ASSUME WaitInv, NEW n \in Node, NEW m, deliver(n, m)
    PROVE  /\ m \in sent /\ m \in Message
           /\ net' \in [Node -> SUBSET Message]
           /\ \A u \in Node : net'[u] \subseteq sent
BY DEF WaitInv, TypeOK, Origin, deliver

\* A message of another height changes nothing but what is put aside, and a proposal
\* or a part nothing but the block.
LEMMA BlockMessages ==
    ASSUME WaitInv, CertInv, NEW n \in Node, NEW m,
           Ignore(n, m) \/ PutAside(n, m) \/ ReceiveProposal(n, m) \/ ReceivePart(n, m)
    PROVE  WaitInv' /\ CertInv'
<1>1. TypeOK /\ deliver(n, m)
  BY DEF WaitInv, Ignore, PutAside, ReceiveProposal, ReceivePart
<1>2. /\ m \in sent /\ m \in Message /\ net' \in [Node -> SUBSET Message]
      /\ \A u \in Node : net'[u] \subseteq sent
  BY <1>1, Delivered
<1>3. UNCHANGED <<height, step, prevotes, precommits, bseen, sent, iblock, bheight>>
  BY DEF Ignore, PutAside, ReceiveProposal, ReceivePart, data
<1>4. /\ relay' \in [Node -> SUBSET Message]
      /\ \A u \in Node : relay'[u] \subseteq sent
  <2>1. relay' = relay \/ relay' = [relay EXCEPT ![n] = relay[n] \cup {m}]
    BY <1>1 DEF Ignore, PutAside, ReceiveProposal, ReceivePart, TypeOK
  <2> QED BY <1>1, <1>2, <2>1 DEF TypeOK, WaitInv, Origin
<1>5. /\ busy' \in [Node -> BOOLEAN] /\ proposal' \in [Node -> BOOLEAN]
      /\ parts' \in [Node -> SUBSET Part] /\ buffer' \in [Node -> SUBSET Part]
  <2>1. CASE Ignore(n, m) \/ PutAside(n, m)
    BY <1>1, <2>1 DEF Ignore, PutAside, data, TypeOK
  <2>2. CASE ReceiveProposal(n, m)
    BY <1>1, <2>2 DEF ReceiveProposal, TypeOK
  <2>3. CASE ReceivePart(n, m)
    <3>1. m.from \in Part
      BY <1>2, <2>3, Kinds DEF ReceivePart
    <3>2. /\ parts' \in {parts, [parts EXCEPT ![n] = parts[n] \cup {m.from}]}
          /\ buffer' \in {buffer, [buffer EXCEPT ![n] = buffer[n] \cup {m.from}]}
          /\ busy' \in {busy, [busy EXCEPT ![n] = TRUE]} /\ proposal' = proposal
      BY <2>3 DEF ReceivePart
    <3>3. parts \in [Node -> SUBSET Part] /\ buffer \in [Node -> SUBSET Part]
      BY <1>1 DEF TypeOK
    <3>4. parts' \in [Node -> SUBSET Part] /\ buffer' \in [Node -> SUBSET Part]
      BY <3>1, <3>2, <3>3
    <3>5. busy \in [Node -> BOOLEAN] /\ proposal \in [Node -> BOOLEAN]
      BY <1>1 DEF TypeOK
    <3> QED BY <3>2, <3>4, <3>5
  <2> QED BY <2>1, <2>2, <2>3
<1>6. TypeOK'
  BY <1>1, <1>2, <1>3, <1>4, <1>5 DEF TypeOK
<1> QED BY <1>2, <1>3, <1>4, <1>6, QuietStep

\* A vote of the height is counted once, and was cast for it.
LEMMA VoteKeeps ==
    ASSUME WaitInv, CertInv, NEW n \in Node, NEW m, ReceiveVote(n, m)
    PROVE  WaitInv' /\ CertInv'
<1>1. TypeOK /\ deliver(n, m) /\ m.height = height[n]
  BY DEF WaitInv, ReceiveVote
<1>2. /\ m \in sent /\ m \in Message /\ net' \in [Node -> SUBSET Message]
      /\ \A u \in Node : net'[u] \subseteq sent
  BY <1>1, Delivered
<1>3. /\ UNCHANGED <<height, step, proposal, parts, buffer, relay, bseen, sent, iblock, bheight>>
      /\ busy' = [busy EXCEPT ![n] = TRUE]
  BY DEF ReceiveVote
<1>4. \/ /\ m.kind = "Prevote" /\ precommits' = precommits
         /\ prevotes' = [prevotes EXCEPT ![n] = prevotes[n] \cup {m.from}]
      \/ /\ m.kind = "Precommit" /\ prevotes' = prevotes
         /\ precommits' = [precommits EXCEPT ![n] = precommits[n] \cup {m.from}]
  BY DEF ReceiveVote
<1>5. m.from \in Node
  BY <1>2, <1>4, Kinds
<1>6. m.from \in Voters(m.kind, height[n])
  BY <1>1, <1>2 DEF Voters, From
<1>7. TypeOK'
  <2>1. prevotes' \in [Node -> SUBSET Node] /\ precommits' \in [Node -> SUBSET Node]
    BY <1>1, <1>4, <1>5 DEF TypeOK
  <2> QED BY <1>1, <1>2, <1>3, <2>1 DEF TypeOK
<1>8. WaitInv'
  BY <1>2, <1>3, <1>7, WaitFrame DEF WaitInv, Origin, SeenInv
<1>9. VotesInv'
  <2> SUFFICES ASSUME NEW u \in Node
               PROVE  /\ prevotes'[u] \subseteq Voters("Prevote", height[u])
                      /\ precommits'[u] \subseteq Voters("Precommit", height[u])
    BY <1>3 DEF VotesInv, Voters
  <2>1. /\ prevotes[u] \subseteq Voters("Prevote", height[u])
        /\ precommits[u] \subseteq Voters("Precommit", height[u])
    BY DEF CertInv, VotesInv
  <2> QED BY <1>1, <1>4, <1>6, <2>1 DEF TypeOK
<1>10. \A u \in Node : Executed(u)' = Executed(u)
  BY <1>3 DEF Executed
<1>11. CertInv'
  BY <1>1, <1>3, <1>9, <1>10, CertFrame DEF TypeOK
<1> QED BY <1>8, <1>11

\* A MessageOK counts a B shard that has left the height of the node: the height it
\* is about is that one, or a later one.
LEMMA OKKeeps ==
    ASSUME WaitInv, CertInv, NEW n \in Node, NEW m, ReceiveOK(n, m)
    PROVE  WaitInv' /\ CertInv'
<1>1. TypeOK /\ deliver(n, m) /\ m.kind = "OK"
  BY DEF WaitInv, ReceiveOK
<1>2. /\ m \in sent /\ m \in Message /\ net' \in [Node -> SUBSET Message]
      /\ \A u \in Node : net'[u] \subseteq sent
  BY <1>1, Delivered
<1>3. UNCHANGED <<height, data, sent, iblock, bheight>>
  BY DEF ReceiveOK
<1>4. m.from \in BShard /\ m.height \in Height
  BY <1>1, <1>2, Kinds
<1>5. height[n] <= bheight[m.from]
  <2>1. m.height <= bheight[m.from]
    BY <1>1, <1>2 DEF WaitInv, OKInv
  <2>2. m.height \in Int /\ height[n] \in Int /\ bheight[m.from] \in Int
    BY <1>1, <1>4, HeightAssumption DEF TypeOK, Height
  <2>3. m.height >= height[n]
    <3>1. m.height = height[n] \/ m.height > height[n]
      BY DEF ReceiveOK, current
    <3> QED BY <2>2, <3>1
  <2> QED BY <2>1, <2>2, <2>3
<1>6. relay' = relay \/ relay' = [relay EXCEPT ![n] = relay[n] \cup {m}]
  BY DEF ReceiveOK
<1>7. \/ /\ height[n] = 0 /\ step' = [step EXCEPT ![n] = "Crashed"]
         /\ bseen' = bseen /\ busy' = busy
      \/ /\ step' = step
         /\ \/ bseen' = bseen /\ busy' = busy
            \/ /\ bseen' = [bseen EXCEPT ![n] = bseen[n] \cup {m.from}]
               /\ busy' = [busy EXCEPT ![n] = TRUE]
  BY DEF ReceiveOK
<1>8. TypeOK'
  <2>1. relay' \in [Node -> SUBSET Message]
    BY <1>1, <1>2, <1>6 DEF TypeOK
  <2>2. step' \in [Node -> Step] /\ bseen' \in [Node -> SUBSET BShard] /\ busy' \in [Node -> BOOLEAN]
    <3>1. step' = step \/ step' = [step EXCEPT ![n] = "Crashed"]
      BY <1>7
    <3>2. bseen' = bseen \/ bseen' = [bseen EXCEPT ![n] = bseen[n] \cup {m.from}]
      BY <1>7
    <3>3. busy' = busy \/ busy' = [busy EXCEPT ![n] = TRUE]
      BY <1>7
    <3>4. step' \in [Node -> Step]
      BY <1>1, <3>1 DEF TypeOK, Step
    <3>5. bseen' \in [Node -> SUBSET BShard]
      BY <1>1, <1>4, <3>2 DEF TypeOK
    <3>6. busy' \in [Node -> BOOLEAN]
      BY <1>1, <3>3 DEF TypeOK
    <3> QED BY <3>4, <3>5, <3>6
  <2> QED BY <1>1, <1>2, <1>3, <2>1, <2>2 DEF TypeOK, data
<1>9. \A u \in Node : relay'[u] \subseteq sent
  BY <1>1, <1>2, <1>6 DEF TypeOK, WaitInv, Origin
<1>10. \A u \in Node : \A b \in bseen'[u] : height[u] <= bheight[b]
  BY <1>1, <1>5, <1>7 DEF TypeOK, WaitInv, SeenInv
<1>11. WaitInv'
  BY <1>2, <1>3, <1>8, <1>9, <1>10, WaitFrame
<1>12. VotesInv'
  BY <1>3, VotesFrame DEF data
<1>13. \A u \in Node : \A k \in (1 .. Executed(u))' : k \in 1 .. Executed(u)
  <2> SUFFICES ASSUME NEW u \in Node, NEW k \in (1 .. Executed(u))' PROVE k \in 1 .. Executed(u)
    OBVIOUS
  <2>1. CASE step' = step
    BY <1>3, <2>1 DEF Executed
  <2>2. CASE height[n] = 0 /\ step' = [step EXCEPT ![n] = "Crashed"]
    <3>1. CASE u = n
      <4>1. height'[n] = 0 /\ step'[n] = "Crashed"
        BY <1>1, <1>3, <2>2 DEF TypeOK
      <4>2. Executed(n)' = 0 - 1
        BY <4>1 DEF Executed
      <4> QED BY <3>1, <4>2
    <3>2. CASE u # n
      <4>1. Executed(u)' = Executed(u)
        BY <1>1, <1>3, <2>2, <3>2 DEF Executed, TypeOK
      <4> QED BY <4>1
    <3> QED BY <3>1, <3>2
  <2> QED BY <1>7, <2>1, <2>2
<1>14. CertInv'
  BY <1>1, <1>3, <1>12, <1>13, CertFrame DEF TypeOK
<1> QED BY <1>11, <1>14

-----------------------------------------------------------------------------
(* handleStateTransition and the B shards. *)

\* A vote that n casts: in its own set, and in a message to the others.
LEMMA CastVote ==
    ASSUME WaitInv, CertInv, NEW n \in Node, NEW kind \in {"Prevote", "Precommit"},
           NEW next \in {"Prevote", "Precommit"}, step[n] # "Commit",
           kind = "Prevote" => /\ prevotes' = [prevotes EXCEPT ![n] = prevotes[n] \cup {n}]
                               /\ precommits' = precommits,
           kind = "Precommit" => /\ precommits' = [precommits EXCEPT ![n] = precommits[n] \cup {n}]
                                 /\ prevotes' = prevotes /\ HasMaj23(prevotes[n]),
           Send(Node \ {n}, {[kind |-> kind, height |-> height[n], from |-> n]}),
           step' = [step EXCEPT ![n] = next],
           UNCHANGED <<height, busy, proposal, parts, buffer, relay, bseen, iblock, bheight>>
    PROVE  WaitInv' /\ CertInv'
<1> DEFINE m == [kind |-> kind, height |-> height[n], from |-> n]
<1>1. TypeOK
  BY DEF WaitInv
<1>2. /\ sent' = sent \cup {m}
      /\ net' = [u \in Node |-> IF u \in Node \ {n} THEN net[u] \cup {m} ELSE net[u]]
  BY DEF Send
<1>3. m \in Message /\ m.kind = kind /\ m.height = height[n] /\ m.from = n
  <2>1. height[n] \in Height
    BY <1>1 DEF TypeOK
  <2> QED BY <2>1 DEF Message, Prevote, Precommit
<1> HIDE DEF m
<1>4. sent \subseteq sent' /\ sent' \subseteq Message
  BY <1>1, <1>2, <1>3 DEF TypeOK
<1>5. \A g : \A k \in {"Prevote", "Precommit"} :
          Voters(k, g) \subseteq Voters(k, g)' /\ Voters(k, g)' \in SUBSET Node
  BY <1>4, VotersGrow
<1>6. TypeOK'
  <2>1. step' \in [Node -> Step]
    BY <1>1 DEF TypeOK, Step
  <2>2. net' \in [Node -> SUBSET Message]
    BY <1>1, <1>2, <1>3 DEF TypeOK
  <2>3. prevotes' \in [Node -> SUBSET Node] /\ precommits' \in [Node -> SUBSET Node]
    <3>1. prevotes \in [Node -> SUBSET Node] /\ precommits \in [Node -> SUBSET Node]
      BY <1>1 DEF TypeOK
    <3>2. CASE kind = "Prevote"
      BY <3>1, <3>2
    <3>3. CASE kind = "Precommit"
      BY <3>1, <3>3
    <3> QED BY <3>2, <3>3
  <2> QED BY <1>1, <1>4, <2>1, <2>2, <2>3 DEF TypeOK
<1>7. WaitInv'
  <2>1. Origin'
    BY <1>2 DEF WaitInv, Origin
  <2>2. OKInv'
    BY <1>2, <1>3 DEF WaitInv, OKInv
  <2>3. SeenInv' /\ BShardsFirst'
    BY DEF WaitInv, SeenInv, BShardsFirst
  <2> QED BY <1>6, <2>1, <2>2, <2>3 DEF WaitInv
<1>8. VotesInv'
  <2> SUFFICES ASSUME NEW u \in Node
               PROVE  /\ prevotes'[u] \subseteq Voters("Prevote", height[u])'
                      /\ precommits'[u] \subseteq Voters("Precommit", height[u])'
    BY DEF VotesInv
  <2>1. /\ prevotes[u] \subseteq Voters("Prevote", height[u])
        /\ precommits[u] \subseteq Voters("Precommit", height[u])
    BY DEF CertInv, VotesInv
  <2>2. n \in Voters(kind, height[n])'
    BY <1>2, <1>3 DEF Voters, From
  <2>3. height' = height
    OBVIOUS
  <2>4. /\ prevotes[u] \subseteq Voters("Prevote", height[u])'
        /\ precommits[u] \subseteq Voters("Precommit", height[u])'
    BY <1>2, <2>1, <2>3 DEF Voters, From
  <2>5. CASE kind = "Prevote"
    BY <1>1, <2>2, <2>4, <2>5 DEF TypeOK
  <2>6. CASE kind = "Precommit"
    BY <1>1, <2>2, <2>4, <2>6 DEF TypeOK
  <2> QED BY <2>5, <2>6
<1>9. ASSUME NEW x \in sent' \ sent, x.kind = "Precommit"
      PROVE  Certified("Prevote", x.height)'
  <2>1. x = m
    BY <1>2, <1>9
  <2>2. kind = "Precommit" /\ x.height = height[n]
    BY <1>3, <1>9, <2>1
  <2>3. HasMaj23(prevotes[n])
    BY <2>2
  <2>4. prevotes[n] \subseteq Voters("Prevote", x.height)
    BY <2>2 DEF CertInv, VotesInv
  <2>5. /\ Voters("Prevote", x.height)' \in SUBSET Node
        /\ prevotes[n] \in SUBSET Voters("Prevote", x.height)'
    BY <1>5, <2>4
  <2>6. 3 * Power(Voters("Prevote", x.height)') > 2 * Power(Node)
    <3> DEFINE V == Voters("Prevote", x.height)'
    <3>1. V \in SUBSET Node /\ prevotes[n] \in SUBSET V
      BY <2>5
    <3> HIDE DEF V
    <3>2. 3 * Power(V) > 2 * Power(Node)
      BY <2>3, <3>1, Maj23
    <3> QED BY <3>2 DEF V
  <2> QED BY <2>6 DEF Certified
<1>10. \A u \in Node : Executed(u)' = Executed(u)
  BY <1>1 DEF Executed, TypeOK
<1>11. CertInv'
  BY <1>4, <1>8, <1>9, <1>10, CertFrame
<1> QED BY <1>7, <1>11

\* DoPropose casts the prevote, DoPrevote the precommit of a prevoted block.
LEMMA VotingKeeps ==
    ASSUME WaitInv, CertInv, NEW n \in Node, DoPropose(n) \/ DoPrevote(n)
    PROVE  WaitInv' /\ CertInv'
<1>1. CASE DoPropose(n)
  <2>1. /\ step[n] # "Commit"
        /\ prevotes' = [prevotes EXCEPT ![n] = prevotes[n] \cup {n}]
        /\ precommits' = precommits
        /\ Send(Node \ {n}, {[kind |-> "Prevote", height |-> height[n], from |-> n]})
        /\ step' = [step EXCEPT ![n] = "Prevote"]
        /\ UNCHANGED <<height, busy, proposal, parts, buffer, relay, bseen, iblock, bheight>>
    BY <1>1 DEF DoPropose
  <2> QED BY <2>1, CastVote
<1>2. CASE DoPrevote(n)
  <2>1. /\ step[n] # "Commit" /\ HasMaj23(prevotes[n])
        /\ precommits' = [precommits EXCEPT ![n] = precommits[n] \cup {n}]
        /\ prevotes' = prevotes
        /\ Send(Node \ {n}, {[kind |-> "Precommit", height |-> height[n], from |-> n]})
        /\ step' = [step EXCEPT ![n] = "Precommit"]
        /\ UNCHANGED <<height, busy, proposal, parts, buffer, relay, bseen, iblock, bheight>>
    BY <1>2 DEF DoPrevote, FinishPrevote
  <2> QED BY <2>1, CastVote
<1> QED BY <1>1, <1>2

\* DoPrecommit executes a block that has the precommits.
LEMMA PrecommitKeeps ==
    ASSUME WaitInv, CertInv, NEW n \in Node, DoPrecommit(n)
    PROVE  WaitInv' /\ CertInv'
<1>1. /\ HasMaj23(precommits[n]) /\ step' = [step EXCEPT ![n] = "Commit"]
      /\ iblock' \in {iblock, iblock \cup {height[n]}}
      /\ UNCHANGED <<height, busy, data, relay, bseen, net, sent, bheight>>
  BY DEF DoPrecommit, FinishPrecommit
<1>2. TypeOK
  BY DEF WaitInv
<1>3. TypeOK'
  <2>1. iblock' \subseteq Height /\ step' \in [Node -> Step]
    BY <1>1, <1>2 DEF TypeOK, Step
  <2> QED BY <1>1, <1>2, <2>1 DEF TypeOK, data
<1>4. WaitInv'
  BY <1>1, <1>3, WaitFrame DEF WaitInv, Origin, SeenInv
<1>5. VotesInv'
  BY <1>1, VotesFrame DEF data
<1>6. Certified("Precommit", height[n])'
  <2>1. precommits[n] \in SUBSET Voters("Precommit", height[n])
    BY DEF CertInv, VotesInv
  <2>2. Voters("Precommit", height[n]) \in SUBSET Node
    BY <1>2, Kinds DEF Voters, From, TypeOK
  <2>3. Certified("Precommit", height[n])
    BY <1>1, <2>1, <2>2, Maj23 DEF Certified
  <2> QED BY <1>1, <2>3 DEF Certified, Voters
<1>7. \A u \in Node : \A h \in (1 .. Executed(u))' :
          h \in 1 .. Executed(u) \/ Certified("Precommit", h)'
  <2> SUFFICES ASSUME NEW u \in Node, NEW h \in (1 .. Executed(u))'
               PROVE  h \in 1 .. Executed(u) \/ Certified("Precommit", h)'
    OBVIOUS
  <2>1. CASE u # n
    BY <1>1, <1>2, <2>1 DEF Executed, TypeOK
  <2>2. CASE u = n
    <3>1. height[n] \in Nat
      BY <1>2, HeightAssumption DEF TypeOK, Height
    <3>2. step'[n] = "Commit" /\ height'[n] = height[n]
      BY <1>1, <1>2 DEF TypeOK
    <3>3. h \in 1 .. height[n]
      BY <2>2, <3>2 DEF Executed
    <3>4. h = height[n] \/ h \in 1 .. Executed(n)
      BY <3>1, <3>3 DEF Executed
    <3>5. CASE h = height[n]
      BY <1>1, <1>6, <3>5 DEF Certified, Voters
    <3> QED BY <2>2, <3>4, <3>5
  <2> QED BY <2>1, <2>2
<1>8. CertInv'
  BY <1>1, <1>2, <1>5, <1>7, CertFrame DEF TypeOK
<1> QED BY <1>4, <1>8

\* Return and a message of another shard only touch the lock.
LEMMA LockKeeps ==
    ASSUME WaitInv, CertInv, NEW n \in Node, Return(n) \/ ReceiveCross(n)
    PROVE  WaitInv' /\ CertInv'
<1>1. /\ \E x \in BOOLEAN : busy' = [busy EXCEPT ![n] = x]
      /\ UNCHANGED <<height, step, data, relay, bseen, net, sent, iblock, bheight>>
  BY DEF Return, ReceiveCross
<1>2. TypeOK'
  BY <1>1 DEF WaitInv, TypeOK, data
<1> QED BY <1>1, <1>2, QuietStep DEF data, WaitInv, Origin

\* A B shard that leaves a height says so, and only then.
LEMMA BShardKeeps ==
    ASSUME WaitInv, CertInv, NEW b \in BShard, BCommit(b)
    PROVE  WaitInv' /\ CertInv'
<1> DEFINE m == [kind |-> "OK", height |-> bheight[b] + 1, from |-> b]
<1>1. /\ (bheight[b] + 1) \in iblock /\ bheight' = [bheight EXCEPT ![b] = bheight[b] + 1]
      /\ sent' = sent \cup {m}
      /\ net' = [u \in Node |-> IF u \in Node THEN net[u] \cup {m} ELSE net[u]]
      /\ UNCHANGED <<height, step, busy, data, relay, bseen, iblock>>
  BY DEF BCommit, Send
<1>2. TypeOK
  BY DEF WaitInv
<1>3. /\ bheight[b] + 1 \in Height
      /\ m \in Message /\ m.kind = "OK" /\ m.height = bheight[b] + 1 /\ m.from = b
  <2>1. bheight[b] + 1 \in Height
    BY <1>1, <1>2 DEF TypeOK
  <2> QED BY <2>1 DEF Message, MessageOK
<1> HIDE DEF m
<1>4. \A c \in BShard : bheight[c] \in Int /\ bheight'[c] \in Int /\ bheight[c] <= bheight'[c]
  <2>1. \A c \in BShard : bheight[c] \in Int
    BY <1>2, HeightAssumption DEF TypeOK, Height
  <2> QED BY <1>1, <1>2, <2>1 DEF TypeOK
<1>5. sent \subseteq sent' /\ sent' \subseteq Message
  BY <1>1, <1>2, <1>3 DEF TypeOK
<1>6. TypeOK'
  <2>1. net' \in [Node -> SUBSET Message]
    BY <1>1, <1>2, <1>3 DEF TypeOK
  <2>2. bheight' \in [BShard -> Height]
    BY <1>1, <1>2, <1>3 DEF TypeOK
  <2> QED BY <1>1, <1>2, <1>5, <2>1, <2>2 DEF TypeOK, data
<1>7. Origin'
  BY <1>1 DEF WaitInv, Origin
<1>8. OKInv'
  <2> SUFFICES ASSUME NEW x \in sent', x.kind = "OK" PROVE x.height <= bheight'[x.from]
    BY DEF OKInv
  <2>1. CASE x = m
    BY <1>1, <1>2, <1>3, <1>4, <2>1 DEF TypeOK
  <2>2. CASE x \in sent
    <3>1. x \in Message /\ x.height <= bheight[x.from]
      BY <1>2, <2>2 DEF WaitInv, OKInv, TypeOK
    <3>2. x.from \in BShard /\ x.height \in Int
      BY <3>1, Kinds, HeightAssumption DEF Height
    <3> QED BY <1>4, <3>1, <3>2
  <2> QED BY <1>1, <2>1, <2>2
<1>9. \A n \in Node : height[n] \in Int /\ height'[n] = height[n] /\ bseen'[n] = bseen[n]
                      /\ bseen[n] \subseteq BShard
  BY <1>1, <1>2, HeightAssumption DEF TypeOK, Height
<1>10. SeenInv'
  <2> SUFFICES ASSUME NEW n \in Node, NEW c \in bseen'[n] PROVE height'[n] <= bheight'[c]
    BY DEF SeenInv
  <2>1. c \in BShard /\ height[n] <= bheight[c]
    BY <1>9 DEF WaitInv, SeenInv
  <2> QED BY <1>4, <1>9, <2>1
<1>11. BShardsFirst'
  <2> SUFFICES ASSUME NEW n \in Node, NEW c \in BShard PROVE height'[n] <= bheight'[c] + 1
    BY DEF BShardsFirst
  <2>1. height[n] <= bheight[c] + 1
    BY DEF WaitInv, BShardsFirst
  <2> QED BY <1>4, <1>9, <2>1
<1>12. VotesInv'
  <2> SUFFICES ASSUME NEW u \in Node
               PROVE  /\ prevotes'[u] \subseteq Voters("Prevote", height[u])'
                      /\ precommits'[u] \subseteq Voters("Precommit", height[u])'
    BY DEF VotesInv
  <2>1. /\ prevotes[u] \subseteq Voters("Prevote", height[u])
        /\ precommits[u] \subseteq Voters("Precommit", height[u])
    BY DEF CertInv, VotesInv
  <2> QED BY <1>1, <2>1 DEF Voters, From, data
<1>13. \A u \in Node : Executed(u)' = Executed(u)
  BY <1>1 DEF Executed
<1>14. \A x \in sent' \ sent : x.kind # "Precommit"
  BY <1>1, <1>3
<1>15. CertInv'
  BY <1>5, <1>12, <1>13, <1>14, CertFrame
<1> QED BY <1>6, <1>7, <1>8, <1>10, <1>11, <1>15 DEF WaitInv

-----------------------------------------------------------------------------
(* The theorems. *)

\* Nothing is sent, counted or executed before the first Start.
LEMMA InitKeeps == Init => WaitInv /\ CertInv
<1> SUFFICES ASSUME Init PROVE WaitInv /\ CertInv
  OBVIOUS
<1>1. 0 \in Height
  BY HeightAssumption DEF Height
<1>2. TypeOK
  BY <1>1 DEF Init, TypeOK, Step
<1>3. Origin /\ OKInv /\ SeenInv
  BY DEF Init, Origin, OKInv, SeenInv
<1>4. BShardsFirst
  BY DEF Init, BShardsFirst
<1>5. VotesInv /\ PrecommitInv
  BY DEF Init, VotesInv, PrecommitInv
<1>6. ExecuteInv
  <2>1. \A n \in Node : Executed(n) = 0 - 1
    BY DEF Init, Executed
  <2> QED BY <2>1 DEF ExecuteInv
<1> QED BY <1>2, <1>3, <1>4, <1>5, <1>6 DEF WaitInv, CertInv

\* Every step keeps both invariants.
LEMMA NextKeeps == WaitInv /\ CertInv /\ [Next]_vars => (WaitInv /\ CertInv)'
<1> SUFFICES ASSUME WaitInv, CertInv, [Next]_vars PROVE WaitInv' /\ CertInv'
  OBVIOUS
<1>1. CASE UNCHANGED vars
  <2>1. UNCHANGED <<height, step, busy, proposal, parts, buffer, prevotes, precommits,
                    relay, bseen, net, sent, iblock, bheight>>
    BY <1>1 DEF vars, data
  <2>2. TypeOK'
    BY <2>1 DEF WaitInv, TypeOK
  <2> QED BY <2>1, <2>2, QuietStep DEF WaitInv, Origin
<1>2. ASSUME NEW n \in Node, Start(n) PROVE WaitInv' /\ CertInv'
  BY <1>2, StartKeeps
<1>3. ASSUME NEW n \in Node, DoPropose(n) \/ DoPrevote(n) PROVE WaitInv' /\ CertInv'
  BY <1>3, VotingKeeps
<1>4. ASSUME NEW n \in Node, DoPrecommit(n) PROVE WaitInv' /\ CertInv'
  BY <1>4, PrecommitKeeps
<1>5. ASSUME NEW n \in Node, DoCommit(n) PROVE WaitInv' /\ CertInv'
  BY <1>5, CommitKeeps
<1>6. ASSUME NEW n \in Node, Return(n) \/ ReceiveCross(n) PROVE WaitInv' /\ CertInv'
  BY <1>6, LockKeeps
<1>7. ASSUME NEW n \in Node, NEW m \in net[n], Receive(n, m) PROVE WaitInv' /\ CertInv'
  <2>1. CASE Ignore(n, m) \/ PutAside(n, m) \/ ReceiveProposal(n, m) \/ ReceivePart(n, m)
    BY <2>1, BlockMessages
  <2>2. CASE ReceiveVote(n, m)
    BY <2>2, VoteKeeps
  <2>3. CASE ReceiveOK(n, m)
    BY <2>3, OKKeeps
  <2> QED BY <1>7, <2>1, <2>2, <2>3 DEF Receive
<1>8. ASSUME NEW b \in BShard, BCommit(b) PROVE WaitInv' /\ CertInv'
  BY <1>8, BShardKeeps
<1> QED BY <1>1, <1>2, <1>3, <1>4, <1>5, <1>6, <1>7, <1>8 DEF Next

\* Every node of an I shard keeps both inductive invariants, whatever the order of
\* messages, of those put aside and of early MessageOKs.
THEOREM ShardCorrect == Spec => [](WaitInv /\ CertInv)
<1> QED BY InitKeeps, NextKeeps, PTL DEF Spec

\* No node begins a height before every B shard has left the one before.
THEOREM BShardsFirstCorrect == Spec => []BShardsFirst
<1>1. WaitInv /\ CertInv => BShardsFirst
  BY DEF WaitInv
<1> QED BY <1>1, ShardCorrect, PTL

\* What a node executes has the precommits, so somebody precommitted it, so it has
\* the prevotes.
THEOREM CertifiedExecutionCorrect == Spec => []CertifiedExecution
<1>1. WaitInv /\ CertInv => CertifiedExecution
  <2> SUFFICES ASSUME WaitInv, CertInv, NEW n \in Node, NEW h \in 1 .. Executed(n)
               PROVE  Certified("Precommit", h) /\ Certified("Prevote", h)
    BY DEF CertifiedExecution, Certified
  <2>1. Certified("Precommit", h)
    BY DEF CertInv, ExecuteInv
  <2>2. Voters("Precommit", h) # {}
    <3>1. Power(Node) \in Nat
      BY PowerGrows
    <3> QED BY <2>1, <3>1, PowerEmpty DEF Certified
  <2>3. PICK m \in sent : m.height = h /\ m.kind = "Precommit"
    BY <2>2 DEF Voters, From
  <2> QED BY <2>1, <2>3 DEF CertInv, PrecommitInv
<1> QED BY <1>1, ShardCorrect, PTL
=============================================================================
