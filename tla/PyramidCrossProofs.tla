------------------------- MODULE PyramidCrossProofs -------------------------
(***************************************************************************)
(* Pyramid's shards together, for every set of I and B shards, every       *)
(* relation between them and every transfer: the barrier of the heights,   *)
(* the two-phase commit of cross-shard blocks, and the locks they leave.   *)
(***************************************************************************)
EXTENDS PyramidCross, FiniteSums

(***************************************************************************)
(* The barrier.                                                            *)
(***************************************************************************)
TypeOK ==
    /\ height \in [Shard -> Nat]
    /\ executed \in [Shard -> BOOLEAN]
    /\ chain = [i \in IShard |-> chain[i]] /\ \A i \in IShard : \E T : chain[i] \in Seq(T)
    /\ shardHeight = [b \in BShard |-> shardHeight[b]]
    /\ \A b \in BShard : shardHeight[b] \in [Related[b] -> Nat]

\* An I shard has one block for each height it has been through, and one for the
\* height it is in once that is executed.
ChainInv == \A i \in IShard : Len(chain[i]) = IF executed[i] THEN height[i] ELSE height[i] - 1

\* A B shard has executed nothing an I shard has not, and all of the heights it left.
ReplicaInv == \A b \in BShard : \A i \in Related[b] :
    shardHeight[b][i] <= Len(chain[i]) /\ height[b] <= shardHeight[b][i] + 1

BarrierInv == TypeOK /\ ChainInv /\ ReplicaInv /\ InStep

\* The I shards of a B shard are shards, and not that one.
LEMMA Shards == /\ IShard \subseteq Shard /\ BShard \subseteq Shard
                /\ \A i \in IShard : i \notin BShard
                /\ \A b \in BShard : Related[b] \subseteq IShard
BY ShardAssumption, RelatedAssumption DEF Shard

\* A sequence with one more element.
LEMMA Longer ==
    ASSUME NEW s, \E T : s \in Seq(T), NEW e
    PROVE  /\ \E T : Append(s, e) \in Seq(T)
           /\ Len(s) \in Nat /\ Len(Append(s, e)) = Len(s) + 1
           /\ ToSet(Append(s, e)) = ToSet(s) \cup {e}
<1>1. PICK T : s \in Seq(T)
  OBVIOUS
<1> DEFINE U == T \cup {e}
<1>2. s \in Seq(U) /\ e \in U
  <2>1. Len(s) \in Nat /\ s \in [1 .. Len(s) -> T]
    BY <1>1
  <2> QED BY <2>1
<1> HIDE DEF U
<1> DEFINE r == Append(s, e)
<1>3. r \in Seq(U) /\ Len(s) \in Nat /\ Len(r) = Len(s) + 1
  BY <1>2
<1>4. (\A n \in 1 .. Len(s) : r[n] = s[n]) /\ r[Len(s) + 1] = e
  BY <1>2
<1>5. DOMAIN s = 1 .. Len(s) /\ DOMAIN r = 1 .. Len(r)
  BY <1>2, <1>3
<1> HIDE DEF r
<1>6. ToSet(r) = ToSet(s) \cup {e}
  <2>1. \A n \in DOMAIN r : n \in DOMAIN s \/ n = Len(s) + 1
    BY <1>3, <1>5
  <2>2. \A n \in DOMAIN s : n \in DOMAIN r
    BY <1>3, <1>5
  <2>3. Len(s) + 1 \in DOMAIN r
    BY <1>3, <1>5
  <2> QED BY <1>4, <1>5, <2>1, <2>2, <2>3 DEF ToSet
<1> QED BY <1>3, <1>6 DEF r

\* An I shard that executes a block.
LEMMA ExecuteBarrier ==
    ASSUME BarrierInv, NEW i \in IShard, NEW block, ExecuteI(i, block)
    PROVE  BarrierInv'
<1>1. /\ ~executed[i] /\ chain' = [chain EXCEPT ![i] = Append(chain[i], block)]
      /\ executed' = [executed EXCEPT ![i] = TRUE]
      /\ UNCHANGED <<height, shardHeight>>
  BY DEF ExecuteI, ready
<1>2. TypeOK
  BY DEF BarrierInv
<1>3. /\ \E T : Append(chain[i], block) \in Seq(T)
      /\ Len(chain[i]) \in Nat /\ Len(Append(chain[i], block)) = Len(chain[i]) + 1
  BY <1>2, Longer DEF TypeOK
<1>4. /\ chain'[i] = Append(chain[i], block)
      /\ \A j \in IShard : j # i => chain'[j] = chain[j]
  BY <1>1, <1>2 DEF TypeOK
<1>5. TypeOK'
  <2>1. executed' \in [Shard -> BOOLEAN]
    BY <1>1, <1>2 DEF TypeOK
  <2>2. chain' = [j \in IShard |-> chain'[j]]
    BY <1>1, <1>2 DEF TypeOK
  <2>3. \A j \in IShard : \E T : chain'[j] \in Seq(T)
    BY <1>2, <1>3, <1>4 DEF TypeOK
  <2> QED BY <1>1, <1>2, <2>1, <2>2, <2>3 DEF TypeOK
<1>6. executed'[i] /\ \A j \in Shard : j # i => executed'[j] = executed[j]
  BY <1>1, <1>2, Shards DEF TypeOK
<1>7. ASSUME NEW j \in IShard
      PROVE  /\ Len(chain'[j]) = IF executed'[j] THEN height'[j] ELSE height'[j] - 1
             /\ Len(chain[j]) \in Int /\ Len(chain[j]) <= Len(chain'[j])
  <2>1. height[j] \in Nat /\ Len(chain[j]) = IF executed[j] THEN height[j] ELSE height[j] - 1
    BY <1>2, Shards DEF TypeOK, BarrierInv, ChainInv
  <2>2. CASE j = i
    BY <1>1, <1>3, <1>4, <1>6, <2>1, <2>2
  <2>3. CASE j # i
    BY <1>1, <1>4, <1>6, <2>1, <2>3, Shards
  <2> QED BY <2>2, <2>3
<1>8. ReplicaInv'
  <2> SUFFICES ASSUME NEW b \in BShard, NEW j \in Related[b]
               PROVE  shardHeight'[b][j] <= Len(chain'[j]) /\ height'[b] <= shardHeight'[b][j] + 1
    BY DEF ReplicaInv
  <2>1. shardHeight[b][j] \in Nat /\ j \in IShard
    BY <1>2, Shards DEF TypeOK
  <2>2. shardHeight[b][j] <= Len(chain[j]) /\ height[b] <= shardHeight[b][j] + 1
    BY DEF BarrierInv, ReplicaInv
  <2>3. Len(chain[j]) <= Len(chain'[j]) /\ Len(chain[j]) \in Int /\ Len(chain'[j]) \in Int
    <3>1. Len(chain'[j]) = Len(chain[j]) \/ Len(chain'[j]) = Len(chain[j]) + 1
      BY <1>3, <1>4, <2>1
    <3> QED BY <1>7, <2>1, <3>1
  <2> QED BY <1>1, <2>1, <2>2, <2>3
<1>9. InStep'
  BY <1>1 DEF BarrierInv, InStep
<1> QED BY <1>5, <1>7, <1>8, <1>9 DEF BarrierInv, ChainInv

\* A step of a B shard that leaves heights and chains alone.
LEMMA BlockBarrier ==
    ASSUME BarrierInv, NEW b \in BShard, executed' = [executed EXCEPT ![b] = TRUE],
           UNCHANGED <<height, chain, shardHeight>>
    PROVE  BarrierInv'
<1>1. \A i \in IShard : executed'[i] = executed[i]
  BY Shards DEF BarrierInv, TypeOK
<1>2. executed' \in [Shard -> BOOLEAN]
  BY DEF BarrierInv, TypeOK
<1>3. TypeOK'
  BY <1>2 DEF BarrierInv, TypeOK
<1>4. ChainInv'
  BY <1>1 DEF BarrierInv, ChainInv
<1>5. ReplicaInv' /\ InStep'
  BY DEF BarrierInv, ReplicaInv, InStep
<1> QED BY <1>3, <1>4, <1>5 DEF BarrierInv

\* An I shard leaves its height after every B shard related to it.
LEMMA INextBarrier ==
    ASSUME BarrierInv, NEW i \in IShard, INext(i)
    PROVE  BarrierInv'
<1>1. /\ executed[i] /\ \A b \in BShard : i \in Related[b] => height[b] > height[i]
      /\ height' = [height EXCEPT ![i] = height[i] + 1]
      /\ executed' = [executed EXCEPT ![i] = FALSE]
      /\ UNCHANGED <<chain, shardHeight>>
  BY DEF INext, BsOf
<1>2. TypeOK /\ height[i] \in Nat
  BY Shards DEF BarrierInv, TypeOK
<1>3. TypeOK'
  <2>1. height[i] + 1 \in Nat
    BY <1>2
  <2>2. height' \in [Shard -> Nat]
    BY <1>1, <1>2, <2>1 DEF TypeOK
  <2>3. executed' \in [Shard -> BOOLEAN]
    BY <1>1, <1>2 DEF TypeOK
  <2> QED BY <1>1, <1>2, <2>2, <2>3 DEF TypeOK
<1>4. /\ height'[i] = height[i] + 1 /\ ~executed'[i]
      /\ \A s \in Shard : s # i => height'[s] = height[s] /\ executed'[s] = executed[s]
  BY <1>1, <1>2, Shards DEF TypeOK
<1>5. ChainInv'
  <2> SUFFICES ASSUME NEW j \in IShard
               PROVE  Len(chain[j]) = IF executed'[j] THEN height'[j] ELSE height'[j] - 1
    BY <1>1 DEF ChainInv
  <2>1. Len(chain[j]) = IF executed[j] THEN height[j] ELSE height[j] - 1
    BY DEF BarrierInv, ChainInv
  <2> QED BY <1>1, <1>2, <1>4, <2>1, Shards
<1>6. ReplicaInv'
  <2>1. \A b \in BShard : height'[b] = height[b]
    BY <1>4, Shards
  <2> QED BY <1>1, <2>1 DEF BarrierInv, ReplicaInv
<1>7. InStep'
  <2> SUFFICES ASSUME NEW b \in BShard, NEW j \in Related[b]
               PROVE  height'[j] <= height'[b] /\ height'[b] <= height'[j] + 1
    BY DEF InStep
  <2>1. /\ height'[b] = height[b] /\ height[b] \in Nat /\ height[j] \in Nat /\ j \in Shard
        /\ height[j] <= height[b] /\ height[b] <= height[j] + 1
    BY <1>2, <1>4, Shards DEF TypeOK, BarrierInv, InStep
  <2>2. CASE j = i
    BY <1>1, <1>4, <2>1, <2>2
  <2>3. CASE j # i
    BY <1>4, <2>1, <2>3
  <2> QED BY <2>2, <2>3
<1> QED BY <1>3, <1>5, <1>6, <1>7 DEF BarrierInv

\* A B shard leaves its height once it has executed the I shards' blocks of it.
LEMMA BNextBarrier ==
    ASSUME BarrierInv, NEW b \in BShard, BNext(b)
    PROVE  BarrierInv'
<1>1. /\ executed[b] /\ \A i \in Related[b] : shardHeight[b][i] >= height[b]
      /\ height' = [height EXCEPT ![b] = height[b] + 1]
      /\ executed' = [executed EXCEPT ![b] = FALSE]
      /\ UNCHANGED <<chain, shardHeight>>
  BY DEF BNext, synchronized
<1>2. TypeOK /\ height[b] \in Nat
  BY Shards DEF BarrierInv, TypeOK
<1>3. TypeOK'
  <2>1. height[b] + 1 \in Nat
    BY <1>2
  <2>2. height' \in [Shard -> Nat]
    BY <1>1, <1>2, <2>1 DEF TypeOK
  <2>3. executed' \in [Shard -> BOOLEAN]
    BY <1>1, <1>2 DEF TypeOK
  <2> QED BY <1>1, <1>2, <2>2, <2>3 DEF TypeOK
<1>4. /\ height'[b] = height[b] + 1
      /\ \A s \in Shard : s # b => height'[s] = height[s] /\ executed'[s] = executed[s]
  BY <1>1, <1>2, Shards DEF TypeOK
<1>5. \A i \in IShard : height'[i] = height[i] /\ executed'[i] = executed[i]
  BY <1>4, Shards
<1>6. ChainInv'
  BY <1>1, <1>5 DEF BarrierInv, ChainInv
<1>7. ASSUME NEW c \in BShard, NEW i \in Related[c]
      PROVE  /\ shardHeight[c][i] <= Len(chain[i]) /\ height'[c] <= shardHeight[c][i] + 1
             /\ height'[i] <= height'[c] /\ height'[c] <= height'[i] + 1
  <2>1. /\ shardHeight[c][i] \in Nat /\ height[c] \in Nat /\ height[i] \in Nat
        /\ i \in IShard /\ height'[i] = height[i]
    BY <1>2, <1>5, Shards DEF TypeOK
  <2>2. /\ shardHeight[c][i] <= Len(chain[i]) /\ height[c] <= shardHeight[c][i] + 1
        /\ height[i] <= height[c] /\ height[c] <= height[i] + 1
    BY DEF BarrierInv, ReplicaInv, InStep
  <2>3. Len(chain[i]) \in Int /\ Len(chain[i]) <= height[i]
    BY <2>1 DEF BarrierInv, ChainInv
  <2>4. CASE c = b
    BY <1>1, <1>4, <2>1, <2>2, <2>3, <2>4
  <2>5. CASE c # b
    BY <1>4, <2>1, <2>2, <2>5, Shards
  <2> QED BY <2>4, <2>5
<1>8. ReplicaInv' /\ InStep'
  BY <1>1, <1>7 DEF ReplicaInv, InStep
<1> QED BY <1>3, <1>6, <1>8 DEF BarrierInv

\* A B shard executes the next block of an I shard.
LEMMA SynchronizeBarrier ==
    ASSUME BarrierInv, NEW b \in BShard, NEW i \in IShard, Synchronize(b, i)
    PROVE  BarrierInv'
<1>1. /\ i \in Related[b] /\ shardHeight[b][i] < Len(chain[i])
      /\ shardHeight' = [shardHeight EXCEPT ![b][i] = shardHeight[b][i] + 1]
      /\ UNCHANGED <<height, executed, chain>>
  BY DEF Synchronize
<1>2. TypeOK
  BY DEF BarrierInv
<1>3. /\ shardHeight'[b] = [shardHeight[b] EXCEPT ![i] = shardHeight[b][i] + 1]
      /\ \A c \in BShard : c # b => shardHeight'[c] = shardHeight[c]
      /\ shardHeight' = [c \in BShard |-> shardHeight'[c]]
  BY <1>1, <1>2 DEF TypeOK
<1>4. \A c \in BShard : shardHeight'[c] \in [Related[c] -> Nat]
  BY <1>1, <1>2, <1>3 DEF TypeOK
<1>5. TypeOK'
  BY <1>1, <1>2, <1>3, <1>4 DEF TypeOK
<1>6. ReplicaInv'
  <2> SUFFICES ASSUME NEW c \in BShard, NEW j \in Related[c]
               PROVE  shardHeight'[c][j] <= Len(chain[j]) /\ height[c] <= shardHeight'[c][j] + 1
    BY <1>1 DEF ReplicaInv
  <2>1. /\ shardHeight[c][j] \in Nat /\ height[c] \in Nat /\ j \in IShard /\ height[j] \in Nat
        /\ shardHeight[c][j] <= Len(chain[j]) /\ height[c] <= shardHeight[c][j] + 1
    BY <1>2, Shards DEF TypeOK, BarrierInv, ReplicaInv
  <2>2. Len(chain[j]) \in Int
    BY <2>1 DEF BarrierInv, ChainInv
  <2>3. CASE c = b /\ j = i
    <3>1. shardHeight'[c][j] = shardHeight[c][j] + 1
      BY <1>1, <1>2, <1>3, <2>3 DEF TypeOK
    <3> QED BY <1>1, <2>1, <2>2, <2>3, <3>1
  <2>4. CASE c # b \/ j # i
    <3>1. shardHeight'[c][j] = shardHeight[c][j]
      BY <1>1, <1>2, <1>3, <2>4 DEF TypeOK
    <3> QED BY <2>1, <3>1
  <2> QED BY <2>3, <2>4
<1>7. ChainInv' /\ InStep'
  BY <1>1 DEF BarrierInv, ChainInv, InStep
<1> QED BY <1>5, <1>6, <1>7 DEF BarrierInv

(***************************************************************************)
(* The two-phase commit.                                                   *)
(***************************************************************************)

\* A cross-shard block is of its sender and of a height that it has executed.
SentInv == \A c \in sentBlocks :
    /\ c.chain \in BShard /\ c.height \in Nat
    /\ c.height < height[c.chain] \/ (c.height = height[c.chain] /\ executed[c.chain])

\* The pending block was sent, and is not decided.
PendingInv ==
    /\ pending = [b \in BShard |-> pending[b]]
    /\ \A b \in BShard : pending[b] # None =>
           /\ pending[b] \in sentBlocks /\ pending[b].chain = b
           /\ \A d \in commits : d.block # pending[b]

AcceptedBy(i, c) == \E x \in Accepted(i) : x.block = c /\ x.ok

\* A MessageCommit is the only one of its block; every I shard has answered the block,
\* and accepted it if it commits.
CommitInv == \A d \in commits :
    /\ d.block \in sentBlocks
    /\ \A i \in Related[d.block.chain] : d.block \in Answered(i) /\ (d.commit => AcceptedBy(i, d.block))
    /\ \A e \in commits : e.block = d.block => e.commit = d.commit

\* What an I shard has carried out or undone was decided, and concerns it.
DecidedInv == \A i \in IShard : \A d \in Decisions(i) : d \in commits /\ i \in Related[d.block.chain]

FateInv == SentInv /\ PendingInv /\ CommitInv /\ DecidedInv /\ IsFiniteSet(commits)

(***************************************************************************)
(* The locks.                                                              *)
(***************************************************************************)

\* a is an Application, and its LockedKeys a function.
IsApp(a) == /\ a = [money |-> a.money, locked |-> a.locked, seen |-> a.seen]
            /\ a.locked = [k \in DOMAIN a.locked |-> a.locked[k]]

\* Shard i holds every lock for a block it has seen, on a key of its own range.
HeldBySeen(a, i) == \A k \in DOMAIN a.locked :
    /\ a.locked[k].by \in a.seen
    /\ k \in BlockKeys(a.locked[k].by) /\ Owner[k] = i

AppInv == /\ app = [s \in Shard |-> app[s]]
          /\ \A i \in IShard : IsApp(app[i]) /\ HeldBySeen(app[i], i)

LockInv == AppInv /\ NoLeakedLock

PyramidInv == BarrierInv /\ FateInv /\ LockInv
-----------------------------------------------------------------------------
(* The two-phase commit is kept. *)

\* A block adds to what its shard has answered or decided, and to no other's.
LEMMA Grown ==
    ASSUME TypeOK, NEW i \in IShard, NEW block, ExecuteI(i, block)
    PROVE  /\ \A j \in IShard : j # i => ToSet(chain'[j]) = ToSet(chain[j])
           /\ ToSet(chain'[i]) = ToSet(chain[i]) \cup {block}
           /\ \A j \in IShard : j # i => Accepted(j)' = Accepted(j) /\ Decisions(j)' = Decisions(j)
           /\ Accepted(i)' = Accepted(i) \cup {x \in {block} : x.type = "Accept"}
           /\ block.type # "Commit" => Decisions(i)' = Decisions(i)
           /\ block.type = "Commit" => Decisions(i)' = Decisions(i) \cup ToSet(block.commits)
<1>1. chain' = [chain EXCEPT ![i] = Append(chain[i], block)]
  BY DEF ExecuteI
<1>2. /\ chain'[i] = Append(chain[i], block)
      /\ \A j \in IShard : j # i => chain'[j] = chain[j]
  BY <1>1 DEF TypeOK
<1>3. ToSet(Append(chain[i], block)) = ToSet(chain[i]) \cup {block}
  BY Longer DEF TypeOK
<1>4. ToSet(chain'[i]) = ToSet(chain[i]) \cup {block}
  BY <1>2, <1>3
<1>5. ASSUME NEW j \in IShard, j # i
      PROVE  /\ ToSet(chain'[j]) = ToSet(chain[j])
             /\ Accepted(j)' = Accepted(j) /\ Decisions(j)' = Decisions(j)
  <2>1. ToSet(chain'[j]) = ToSet(chain[j])
    BY <1>2, <1>5
  <2> QED BY <2>1 DEF Accepted, Decisions
<1>6. Accepted(i)' = Accepted(i) \cup {x \in {block} : x.type = "Accept"}
  BY <1>4 DEF Accepted
<1> DEFINE C == {y \in ToSet(chain[i]) : y.type = "Commit"}
           N == {y \in ToSet(chain'[i]) : y.type = "Commit"}
<1>7. Decisions(i) = UNION {ToSet(x.commits) : x \in C} /\ Decisions(i)' = UNION {ToSet(x.commits) : x \in N}
  BY DEF Decisions, ToSet
<1>8. CASE block.type = "Commit"
  <2>1. N = C \cup {block}
    BY <1>4, <1>8
  <2> HIDE DEF C, N
  <2> QED BY <1>4, <1>5, <1>6, <1>7, <1>8, <2>1
<1>9. CASE block.type # "Commit"
  <2>1. N = C
    BY <1>4, <1>9
  <2> HIDE DEF C, N
  <2> QED BY <1>4, <1>5, <1>6, <1>7, <1>9, <2>1
<1> QED BY <1>8, <1>9

\* What shards have answered and accepted stays so while chains grow.
LEMMA CommitsStand ==
    ASSUME FateInv, \A i \in IShard : Accepted(i) \subseteq Accepted(i)',
           commits' = commits, sentBlocks \subseteq sentBlocks'
    PROVE  CommitInv'
<1> SUFFICES ASSUME NEW d \in commits
             PROVE  /\ d.block \in sentBlocks'
                    /\ \A i \in Related[d.block.chain] :
                           d.block \in Answered(i)' /\ (d.commit => AcceptedBy(i, d.block)')
                    /\ \A e \in commits : e.block = d.block => e.commit = d.commit
  BY DEF CommitInv, AcceptedBy
<1>1. /\ d.block \in sentBlocks
      /\ \A e \in commits : e.block = d.block => e.commit = d.commit
      /\ \A i \in Related[d.block.chain] : d.block \in Answered(i) /\ (d.commit => AcceptedBy(i, d.block))
  BY DEF FateInv, CommitInv
<1>2. d.block.chain \in BShard
  BY <1>1 DEF FateInv, SentInv
<1>3. ASSUME NEW i \in Related[d.block.chain]
      PROVE  d.block \in Answered(i)' /\ (d.commit => AcceptedBy(i, d.block)')
  <2>1. i \in IShard
    BY <1>2, Shards
  <2>2. Accepted(i) \subseteq Accepted(i)'
    BY <2>1
  <2> QED BY <1>1, <2>2 DEF Answered, AcceptedBy
<1> QED BY <1>1, <1>3

\* A block of an I shard.
LEMMA ExecuteFate ==
    ASSUME BarrierInv, FateInv, NEW i \in IShard, NEW block, ExecuteI(i, block),
           block.type = "Commit" => ToSet(block.commits) \subseteq commitPool(i)
    PROVE  FateInv'
<1>1. /\ executed' = [executed EXCEPT ![i] = TRUE]
      /\ UNCHANGED <<height, pending, sentBlocks, commits>>
  BY DEF ExecuteI
<1>2. TypeOK
  BY DEF BarrierInv
<1>3. SentInv'
  <2>1. \A b \in BShard : executed'[b] = executed[b]
    BY <1>1, <1>2, Shards DEF TypeOK
  <2> QED BY <1>1, <2>1 DEF FateInv, SentInv
<1>4. PendingInv'
  BY <1>1 DEF FateInv, PendingInv
<1>5. \A j \in IShard : Accepted(j) \subseteq Accepted(j)'
  <2> SUFFICES ASSUME NEW j \in IShard PROVE Accepted(j) \subseteq Accepted(j)'
    OBVIOUS
  <2>1. ToSet(chain[j]) \subseteq ToSet(chain'[j])
    BY <1>2, Grown
  <2> QED BY <2>1 DEF Accepted
<1>6. CommitInv'
  BY <1>1, <1>5, CommitsStand
<1>7. DecidedInv'
  <2> SUFFICES ASSUME NEW j \in IShard, NEW d \in Decisions(j)'
               PROVE  d \in commits /\ j \in Related[d.block.chain]
    BY <1>1 DEF DecidedInv
  <2>1. CASE d \in Decisions(j)
    BY <2>1 DEF FateInv, DecidedInv
  <2>2. CASE d \notin Decisions(j)
    <3>1. j = i /\ block.type = "Commit" /\ d \in ToSet(block.commits)
      BY <1>2, <2>2, Grown
    <3> QED BY <3>1 DEF commitPool
  <2> QED BY <2>1, <2>2
<1> QED BY <1>1, <1>3, <1>4, <1>6, <1>7 DEF FateInv

\* The other steps leave the chains alone.
LEMMA ChainsAlone ==
    ASSUME chain' = chain
    PROVE  /\ \A i \in IShard : Accepted(i)' = Accepted(i) /\ Answered(i)' = Answered(i)
           /\ \A i \in IShard : Decisions(i)' = Decisions(i)
BY DEF Accepted, Answered, Decisions

\* A new cross-shard block is not one that was sent before: its height was not executed.
LEMMA CrossFate ==
    ASSUME BarrierInv, FateInv, NEW b \in BShard, BCross(b)
    PROVE  FateInv'
<1>1. PICK txs : LET c == [chain |-> b, height |-> height[b], txs |-> txs, data |-> FillData(app[b], txs)]
                 IN  /\ ready(b) /\ pending[b] = None
                     /\ pending' = [pending EXCEPT ![b] = c]
                     /\ sentBlocks' = sentBlocks \cup {c}
                     /\ executed' = [executed EXCEPT ![b] = TRUE]
                     /\ UNCHANGED <<height, app, mempool, crossPool, commits, chain, shardHeight>>
  BY DEF BCross
<1> DEFINE c == [chain |-> b, height |-> height[b], txs |-> txs, data |-> FillData(app[b], txs)]
<1>2. /\ ~executed[b] /\ pending' = [pending EXCEPT ![b] = c] /\ sentBlocks' = sentBlocks \cup {c}
      /\ executed' = [executed EXCEPT ![b] = TRUE] /\ UNCHANGED <<height, commits, chain>>
  BY <1>1 DEF ready
<1>3. c.chain = b /\ c.height = height[b]
  OBVIOUS
<1> HIDE DEF c
<1>4. TypeOK /\ height[b] \in Nat
  BY Shards DEF BarrierInv, TypeOK
<1>5. executed'[b] /\ \A s \in BShard : s # b => executed'[s] = executed[s]
  BY <1>2, <1>4, Shards DEF TypeOK
<1>6. c \notin sentBlocks
  BY <1>2, <1>3, <1>4 DEF FateInv, SentInv
<1>7. SentInv'
  <2> SUFFICES ASSUME NEW x \in sentBlocks'
               PROVE  /\ x.chain \in BShard /\ x.height \in Nat
                      /\ x.height < height[x.chain] \/ (x.height = height[x.chain] /\ executed'[x.chain])
    BY <1>2 DEF SentInv
  <2>1. CASE x = c
    BY <1>3, <1>4, <1>5, <2>1
  <2>2. CASE x \in sentBlocks
    BY <1>5, <2>2 DEF FateInv, SentInv
  <2> QED BY <1>2, <2>1, <2>2
<1>8. PendingInv'
  <2>1. pending' = [d \in BShard |-> pending'[d]] /\ pending'[b] = c
    BY <1>2 DEF FateInv, PendingInv
  <2>2. \A d \in BShard : d # b => pending'[d] = pending[d]
    BY <1>2 DEF FateInv, PendingInv
  <2>3. \A d \in commits : d.block # c
    BY <1>6 DEF FateInv, CommitInv
  <2> QED BY <1>2, <1>3, <2>1, <2>2, <2>3 DEF FateInv, PendingInv
<1>9. CommitInv'
  BY <1>2, ChainsAlone, CommitsStand
<1>10. DecidedInv'
  BY <1>2, ChainsAlone DEF FateInv, DecidedInv
<1> QED BY <1>2, <1>7, <1>8, <1>9, <1>10 DEF FateInv

\* The decision about the pending block: the first, and after every answer.
LEMMA CommitFate ==
    ASSUME BarrierInv, FateInv, NEW b \in BShard, BCommit(b)
    PROVE  FateInv'
<1> DEFINE c == pending[b]
           d == [block |-> pending[b], commit |-> \A i \in DOMAIN accepts(b) : accepts(b)[i]]
<1>1. /\ c # None /\ DOMAIN accepts(b) = Related[b]
      /\ commits' = commits \cup {d} /\ pending' = [pending EXCEPT ![b] = None]
      /\ executed' = [executed EXCEPT ![b] = TRUE] /\ UNCHANGED <<height, sentBlocks, chain>>
  BY DEF BCommit, maCountZero
<1>2. c \in sentBlocks /\ c.chain = b /\ \A e \in commits : e.block # c
  BY <1>1 DEF FateInv, PendingInv
<1>3. ASSUME NEW i \in Related[b]
      PROVE  c \in Answered(i) /\ (d.commit => AcceptedBy(i, c))
  <2>1. i \in {j \in Related[b] : pending[b] \in Answered(j)}
    BY <1>1 DEF accepts
  <2>2. accepts(b)[i] = \E x \in Accepted(i) : x.block = c /\ x.ok
    BY <2>1 DEF accepts
  <2> QED BY <1>1, <2>1, <2>2 DEF AcceptedBy
<1>4. d.block = c
  OBVIOUS
<1> HIDE DEF c, d
<1>5. SentInv'
  <2>1. executed'[b] /\ \A s \in BShard : s # b => executed'[s] = executed[s]
    BY <1>1, Shards DEF BarrierInv, TypeOK
  <2> QED BY <1>1, <2>1 DEF FateInv, SentInv
<1>6. PendingInv'
  <2>1. pending' = [s \in BShard |-> pending'[s]] /\ pending'[b] = None
    BY <1>1 DEF FateInv, PendingInv
  <2>2. \A s \in BShard : s # b => pending'[s] = pending[s]
    BY <1>1 DEF FateInv, PendingInv
  <2>3. ASSUME NEW s \in BShard, pending'[s] # None
        PROVE  /\ pending'[s] \in sentBlocks' /\ pending'[s].chain = s
               /\ \A e \in commits' : e.block # pending'[s]
    <3>1. s # b /\ pending'[s] = pending[s]
      BY <2>1, <2>2, <2>3
    <3>2. /\ pending[s] \in sentBlocks /\ pending[s].chain = s
          /\ \A e \in commits : e.block # pending[s]
      BY <2>3, <3>1 DEF FateInv, PendingInv
    <3>3. d.block # pending[s]
      BY <1>2, <1>4, <3>1, <3>2
    <3> QED BY <1>1, <3>1, <3>2, <3>3
  <2> QED BY <2>1, <2>3 DEF PendingInv
<1>7. CommitInv'
  <2> SUFFICES ASSUME NEW x \in commits'
               PROVE  /\ x.block \in sentBlocks
                      /\ \A i \in Related[x.block.chain] :
                             x.block \in Answered(i)' /\ (x.commit => AcceptedBy(i, x.block)')
                      /\ \A e \in commits' : e.block = x.block => e.commit = x.commit
    BY <1>1 DEF CommitInv, AcceptedBy
  <2>1. x.block \in sentBlocks
    BY <1>1, <1>2, <1>4 DEF FateInv, CommitInv
  <2>2. x.block.chain \in BShard
    BY <2>1 DEF FateInv, SentInv
  <2>3. ASSUME NEW i \in Related[x.block.chain]
        PROVE  x.block \in Answered(i)' /\ (x.commit => AcceptedBy(i, x.block)')
    <3>1. i \in IShard
      BY <2>2, Shards
    <3>2. x.block \in Answered(i) /\ (x.commit => AcceptedBy(i, x.block))
      BY <1>1, <1>2, <1>3, <1>4 DEF FateInv, CommitInv
    <3> QED BY <1>1, <3>1, <3>2, ChainsAlone DEF AcceptedBy
  <2>4. \A e \in commits' : e.block = x.block => e.commit = x.commit
    BY <1>1, <1>2, <1>4 DEF FateInv, CommitInv
  <2> QED BY <2>1, <2>3, <2>4
<1>8. DecidedInv'
  BY <1>1, ChainsAlone DEF FateInv, DecidedInv
<1>9. IsFiniteSet(commits')
  BY <1>1, FS_AddElement DEF FateInv
<1> QED BY <1>5, <1>6, <1>7, <1>8, <1>9 DEF FateInv

\* A step that decides nothing and sends no cross-shard block: a shard executes a
\* block of its own or leaves its height, or a B shard executes an I shard's block.
LEMMA QuietFate ==
    ASSUME BarrierInv, FateInv, UNCHANGED <<pending, sentBlocks, commits, chain>>,
           \A b \in BShard : \/ height'[b] = height[b] /\ (executed[b] => executed'[b])
                            \/ height'[b] = height[b] + 1
    PROVE  FateInv'
<1>1. SentInv'
  <2> SUFFICES ASSUME NEW x \in sentBlocks
               PROVE  /\ x.chain \in BShard /\ x.height \in Nat
                      /\ x.height < height'[x.chain] \/ (x.height = height'[x.chain] /\ executed'[x.chain])
    BY DEF SentInv
  <2>1. /\ x.chain \in BShard /\ x.height \in Nat
        /\ x.height < height[x.chain] \/ (x.height = height[x.chain] /\ executed[x.chain])
    BY DEF FateInv, SentInv
  <2>2. height[x.chain] \in Nat
    BY <2>1, Shards DEF BarrierInv, TypeOK
  <2> QED BY <2>1, <2>2
<1>2. PendingInv'
  BY DEF FateInv, PendingInv
<1>3. CommitInv' /\ DecidedInv'
  BY ChainsAlone, CommitsStand DEF FateInv, DecidedInv
<1> QED BY <1>1, <1>2, <1>3 DEF FateInv
-----------------------------------------------------------------------------
(* The MessageCommits of a block, one after the other, as FoldLeft takes them. *)

\* g is the fold's table: what the commits at the positions s of q make of a.
CommitStep(g, s, q, a, i) ==
    IF s = {} THEN a ELSE AcceptCommitShard(g[s \ {Max(s)}], q[Max(s)], i)
IsFold(g, S, q, a, i) == g = [s \in SUBSET S |-> CommitStep(g, s, q, a, i)]

FoldTable(S, q, a, i) == CHOOSE g : IsFold(g, S, q, a, i)

\* Two tables agree wherever both are defined.
LEMMA FoldUnique ==
    ASSUME NEW S, Positions(S), NEW U \in SUBSET S, NEW q, NEW a, NEW i, NEW g, NEW h,
           IsFold(g, S, q, a, i), IsFold(h, U, q, a, i)
    PROVE  \A s \in SUBSET U : g[s] = h[s]
<1> DEFINE T == {s \in SUBSET U : g[s] # h[s]}
<1> SUFFICES ASSUME T # {} PROVE FALSE
  OBVIOUS
<1>1. PICK x \in T : \A y \in T : y \subseteq x => y = x
  <2>1. T \in SUBSET SUBSET S /\ IsFiniteSet(S)
    BY PositionsIn
  <2> HIDE DEF T
  <2> QED BY <2>1, MinimalSubset
<1>2. g[x] = CommitStep(g, x, q, a, i) /\ h[x] = CommitStep(h, x, q, a, i)
  <2>1. \A s \in SUBSET S : g[s] = CommitStep(g, s, q, a, i)
    BY Zenon DEF IsFold
  <2>2. \A s \in SUBSET U : h[s] = CommitStep(h, s, q, a, i)
    BY Zenon DEF IsFold
  <2> QED BY <1>1, <2>1, <2>2
<1>3. CASE x = {}
  BY <1>1, <1>2, <1>3 DEF CommitStep
<1>4. CASE x # {}
  <2> DEFINE y == x \ {Max(x)}
  <2>1. Max(x) \in x
    <3>1. Positions(x)
      BY <1>1, PositionsIn
    <3> QED BY <1>4, <3>1, MaxIn
  <2>2. y \in SUBSET U /\ y \subseteq x /\ y # x
    BY <1>1, <2>1
  <2>3. g[y] = h[y]
    BY <1>1, <2>2
  <2>4. g[x] = AcceptCommitShard(g[y], q[Max(x)], i) /\ h[x] = AcceptCommitShard(h[y], q[Max(x)], i)
    BY <1>2, <1>4 DEF CommitStep
  <2> HIDE DEF y
  <2> QED BY <1>1, <2>3, <2>4
<1> QED BY <1>3, <1>4

\* Every finite set of positions has a table.
LEMMA FoldExists ==
    ASSUME NEW S, Positions(S), NEW q, NEW a, NEW i
    PROVE  IsFold(FoldTable(S, q, a, i), S, q, a, i)
<1> SUFFICES \E g : IsFold(g, S, q, a, i)
  BY DEF FoldTable
<1> DEFINE T == {U \in SUBSET S : ~ \E g : IsFold(g, U, q, a, i)}
<1> SUFFICES ASSUME T # {} PROVE FALSE
  OBVIOUS
<1>1. PICK x \in T : \A y \in T : y \subseteq x => y = x
  <2>1. T \in SUBSET SUBSET S /\ IsFiniteSet(S)
    BY PositionsIn
  <2> HIDE DEF T
  <2> QED BY <2>1, MinimalSubset
<1>2. \A s \in SUBSET x : s # x => IsFold(FoldTable(s, q, a, i), s, q, a, i)
  <2> SUFFICES ASSUME NEW s \in SUBSET x, s # x PROVE IsFold(FoldTable(s, q, a, i), s, q, a, i)
    OBVIOUS
  <2>1. s \in SUBSET S /\ s \notin T
    BY <1>1
  <2>2. \E g : IsFold(g, s, q, a, i)
    BY <2>1
  <2> QED BY <2>2 DEF FoldTable
<1>3. Positions(x)
  BY <1>1, PositionsIn
<1>4. \A s \in SUBSET x : s # {} => Max(s) \in s
  <2> SUFFICES ASSUME NEW s \in SUBSET x, s # {} PROVE Max(s) \in s
    OBVIOUS
  <2>1. Positions(s)
    BY <1>3, PositionsIn
  <2> QED BY <2>1, MaxIn
<1> HIDE DEF T
<1> DEFINE low(s) == FoldTable(s, q, a, i)[s]
           g == [s \in SUBSET x |->
                    IF s = x THEN IF x = {} THEN a
                                  ELSE AcceptCommitShard(low(x \ {Max(x)}), q[Max(x)], i)
                    ELSE low(s)]
<1>5. ASSUME NEW s \in SUBSET x PROVE g[s] = CommitStep(g, s, q, a, i)
  <2>1. CASE s = {} /\ s = x
    BY <2>1 DEF CommitStep
  <2>2. CASE s # {} /\ s = x
    <3>1. x \ {Max(x)} \in SUBSET x /\ x \ {Max(x)} # x
      BY <1>4, <2>2
    <3>2. g[x \ {Max(x)}] = low(x \ {Max(x)})
      BY <3>1
    <3>3. g[s] = AcceptCommitShard(low(x \ {Max(x)}), q[Max(x)], i)
      BY <2>2
    <3> HIDE DEF g, low
    <3> QED BY <2>2, <3>2, <3>3 DEF CommitStep
  <2>3. CASE s # x
    <3>1. g[s] = low(s)
      BY <2>3
    <3>2. IsFold(FoldTable(s, q, a, i), s, q, a, i)
      BY <1>2, <2>3
    <3>3. low(s) = CommitStep(FoldTable(s, q, a, i), s, q, a, i)
      <4> DEFINE f == FoldTable(s, q, a, i)
      <4>1. f = [u \in SUBSET s |-> CommitStep(f, u, q, a, i)]
        BY <3>2 DEF IsFold
      <4> HIDE DEF f
      <4>2. f[s] = CommitStep(f, s, q, a, i)
        BY <4>1, Zenon
      <4> QED BY <4>2 DEF f
    <3>4. CASE s = {}
      BY <3>1, <3>3, <3>4 DEF CommitStep
    <3>5. CASE s # {}
      <4> DEFINE y == s \ {Max(s)}
      <4>1. y \in SUBSET s /\ y \in SUBSET x /\ y # x
        BY <2>3
      <4>2. g[y] = low(y)
        BY <4>1
      <4>3. IsFold(FoldTable(y, q, a, i), y, q, a, i)
        BY <1>2, <4>1
      <4>4. FoldTable(s, q, a, i)[y] = low(y)
        <5>1. Positions(s)
          BY <1>3, PositionsIn
        <5> HIDE DEF y
        <5> QED BY <3>2, <4>1, <4>3, <5>1, FoldUnique
      <4>5. low(s) = AcceptCommitShard(FoldTable(s, q, a, i)[y], q[Max(s)], i)
        BY <3>3, <3>5 DEF CommitStep
      <4>6. CommitStep(g, s, q, a, i) = AcceptCommitShard(g[y], q[Max(s)], i)
        BY <3>5 DEF CommitStep
      <4> HIDE DEF g, low, y
      <4> QED BY <3>1, <4>2, <4>4, <4>5, <4>6
    <3> QED BY <3>4, <3>5
  <2> QED BY <2>1, <2>2, <2>3
<1>6. g = [s \in SUBSET x |-> g[s]]
  OBVIOUS
<1> HIDE DEF g
<1>7. g = [s \in SUBSET x |-> CommitStep(g, s, q, a, i)]
  BY <1>5, <1>6, Zenon
<1> QED BY <1>1, <1>7 DEF T, IsFold

\* The application of shard i after the commits at the positions s of q: it still
\* holds some of its locks, none of them for one of their blocks.
Released(s, x, q, a, i) ==
    /\ IsApp(x) /\ HeldBySeen(x, i) /\ x.seen = a.seen
    /\ \A k \in DOMAIN x.locked : /\ k \in DOMAIN a.locked /\ x.locked[k] = a.locked[k]
                                  /\ \A n \in s : q[n].block # x.locked[k].by

\* One commit: every key its block locked is free.
LEMMA ReleaseOne ==
    ASSUME NEW s, NEW m \in s, NEW x, NEW q, NEW a, NEW i, Released(s \ {m}, x, q, a, i)
    PROVE  Released(s, AcceptCommitShard(x, q[m], i), q, a, i)
<1> DEFINE d == q[m]
           r == AcceptCommitShard(x, d, i)
           held == {k \in BlockKeys(d.block) : Owner[k] = i} \cap DOMAIN x.locked
<1>1. IsApp(x) /\ HeldBySeen(x, i) /\ x.seen = a.seen
  BY DEF Released
<1>2. \A k \in DOMAIN x.locked : /\ k \in DOMAIN a.locked /\ x.locked[k] = a.locked[k]
                                 /\ \A n \in s \ {m} : q[n].block # x.locked[k].by
  BY DEF Released
<1>3. CASE d.block \notin x.seen
  <2>1. r = x
    BY <1>3 DEF AcceptCommitShard
  <2>2. \A k \in DOMAIN x.locked : d.block # x.locked[k].by
    BY <1>1, <1>3 DEF HeldBySeen
  <2> HIDE DEF r
  <2>3. Released(s, r, q, a, i)
    BY <1>1, <1>2, <2>1, <2>2 DEF Released
  <2> QED BY <2>3 DEF r
<1>4. CASE d.block \in x.seen
  <2> DEFINE money == [k \in Key |-> IF d.commit /\ k \in held THEN x.locked[k].value ELSE x.money[k]]
             locked == [k \in DOMAIN x.locked \ held |-> x.locked[k]]
  <2>1. r = [x EXCEPT !.money = money, !.locked = locked]
    BY <1>4 DEF AcceptCommitShard
  <2>2. /\ DOMAIN locked = DOMAIN x.locked \ held
        /\ \A k \in DOMAIN locked : locked[k] = x.locked[k]
        /\ locked = [k \in DOMAIN locked |-> locked[k]]
    OBVIOUS
  <2>3. \A k \in DOMAIN locked : d.block # x.locked[k].by
    BY <1>1, <2>2 DEF HeldBySeen
  <2> HIDE DEF r, money, locked
  <2>4. r = [money |-> money, locked |-> locked, seen |-> x.seen]
    BY <1>1, <2>1 DEF IsApp
  <2>5. r.locked = locked /\ r.seen = x.seen /\ r.money = money
    BY <2>4
  <2>6. IsApp(r)
    BY <2>2, <2>4, <2>5 DEF IsApp
  <2>7. HeldBySeen(r, i)
    BY <1>1, <2>2, <2>5 DEF HeldBySeen
  <2>8. Released(s, r, q, a, i)
    BY <1>1, <1>2, <2>2, <2>3, <2>5, <2>6, <2>7 DEF Released
  <2> QED BY <2>8 DEF r
<1> QED BY <1>3, <1>4

\* All commits of a block.
LEMMA ReleaseAll ==
    ASSUME NEW q, NEW N \in Nat, DOMAIN q = 1 .. N, NEW a, NEW i, IsApp(a), HeldBySeen(a, i)
    PROVE  Released(DOMAIN q, FoldLeft(LAMBDA x, d : AcceptCommitShard(x, d, i), a, q), q, a, i)
<1> DEFINE S == DOMAIN q
           g == FoldTable(S, q, a, i)
<1>1. Positions(S)
  BY FS_Interval DEF Positions
<1>2. FoldLeft(LAMBDA x, d : AcceptCommitShard(x, d, i), a, q) = g[S]
  BY DEF FoldLeft, MapThenFoldSet, FoldTable, IsFold, CommitStep
<1> HIDE DEF S
<1>3. \A s \in SUBSET S : g[s] = CommitStep(g, s, q, a, i)
  <2>1. IsFold(g, S, q, a, i)
    BY <1>1, FoldExists
  <2> HIDE DEF g
  <2> QED BY <2>1, Zenon DEF IsFold
<1> HIDE DEF g
<1> DEFINE T == {s \in SUBSET S : ~Released(s, g[s], q, a, i)}
<1>4. ASSUME T # {} PROVE FALSE
  <2>1. PICK x \in T : \A y \in T : y \subseteq x => y = x
    <3>1. T \in SUBSET SUBSET S /\ IsFiniteSet(S)
      BY <1>1, PositionsIn
    <3> HIDE DEF T
    <3> QED BY <1>1, <1>4, <3>1, MinimalSubset
  <2>2. g[x] = CommitStep(g, x, q, a, i)
    BY <1>3, <2>1
  <2>3. CASE x = {}
    <3>1. g[x] = a
      BY <2>2, <2>3 DEF CommitStep
    <3> QED BY <2>1, <2>3, <3>1 DEF Released
  <2>4. CASE x # {}
    <3>1. Positions(x)
      BY <1>1, <2>1, PositionsIn
    <3>2. Max(x) \in x
      BY <2>4, <3>1, MaxIn
    <3>3. x \ {Max(x)} \in SUBSET S /\ x \ {Max(x)} # x
      BY <2>1, <3>2
    <3>4. Released(x \ {Max(x)}, g[x \ {Max(x)}], q, a, i)
      BY <2>1, <3>3
    <3>5. g[x] = AcceptCommitShard(g[x \ {Max(x)}], q[Max(x)], i)
      BY <2>2, <2>4 DEF CommitStep
    <3>6. Released(x, AcceptCommitShard(g[x \ {Max(x)}], q[Max(x)], i), q, a, i)
      <4> DEFINE m == Max(x)
                 v == g[x \ {m}]
      <4>1. m \in x /\ Released(x \ {m}, v, q, a, i)
        BY <3>2, <3>4
      <4> HIDE DEF m, v
      <4>2. Released(x, AcceptCommitShard(v, q[m], i), q, a, i)
        BY <4>1, ReleaseOne
      <4> QED BY <4>2 DEF m, v
    <3> QED BY <2>1, <3>5, <3>6
  <2> QED BY <2>3, <2>4
<1>5. Released(S, g[S], q, a, i)
  BY <1>4
<1> QED BY <1>2, <1>5 DEF S
-----------------------------------------------------------------------------
(* The locks are kept. *)

\* Shard i has x for its application: what its locks must satisfy.
LEMMA LockFrame ==
    ASSUME LockInv, NEW i \in IShard, NEW x, app' = [app EXCEPT ![i] = x],
           IsApp(x), HeldBySeen(x, i),
           \A k \in DOMAIN x.locked : /\ \E y \in Accepted(i)' : y.block = x.locked[k].by /\ y.ok
                                     /\ \A d \in Decisions(i)' : d.block # x.locked[k].by,
           \A j \in IShard : j # i => Accepted(j)' = Accepted(j) /\ Decisions(j)' = Decisions(j)
    PROVE  LockInv'
<1>1. /\ app' = [s \in Shard |-> app'[s]] /\ app'[i] = x
      /\ \A s \in Shard : s # i => app'[s] = app[s]
  BY Shards DEF LockInv, AppInv
<1>2. AppInv'
  <2>1. \A j \in IShard : IsApp(app'[j]) /\ HeldBySeen(app'[j], j)
    BY <1>1, Shards DEF LockInv, AppInv
  <2> QED BY <1>1, <2>1 DEF AppInv, IsApp, HeldBySeen
<1>3. NoLeakedLock'
  <2> SUFFICES ASSUME NEW j \in IShard, NEW k \in DOMAIN app'[j].locked
               PROVE  /\ \E y \in Accepted(j)' : y.block = app'[j].locked[k].by /\ y.ok
                      /\ \A d \in Decisions(j)' : d.block # app'[j].locked[k].by
    BY DEF NoLeakedLock
  <2>1. CASE j = i
    BY <1>1, <2>1
  <2>2. CASE j # i
    <3>1. app'[j] = app[j] /\ Accepted(j)' = Accepted(j) /\ Decisions(j)' = Decisions(j)
      BY <1>1, <2>2, Shards
    <3> QED BY <3>1 DEF LockInv, NoLeakedLock
  <2> QED BY <2>1, <2>2
<1> QED BY <1>2, <1>3 DEF LockInv

\* The transfers of a shard's own change balances only.
LEMMA InnerLock ==
    ASSUME PyramidInv, NEW i \in IShard, IInner(i)
    PROVE  LockInv'
<1>1. PICK txs : ExecuteI(i, [type |-> "Inner", txs |-> txs])
  BY DEF IInner
<1> DEFINE block == [type |-> "Inner", txs |-> txs]
           a == app[i]
           x == ExecutionInnerShard(a, txs)
<1>2. app' = [app EXCEPT ![i] = x]
  BY <1>1 DEF ExecuteI, processIBlock
<1>3. IsApp(a) /\ HeldBySeen(a, i) /\ TypeOK /\ LockInv
  BY DEF PyramidInv, LockInv, AppInv, BarrierInv
<1>4. \E money : x = [a EXCEPT !.money = money]
  BY DEF ExecutionInnerShard
<1>5. block.type = "Inner"
  OBVIOUS
<1>6. /\ Accepted(i)' = Accepted(i) /\ Decisions(i)' = Decisions(i)
      /\ \A j \in IShard : j # i => Accepted(j)' = Accepted(j) /\ Decisions(j)' = Decisions(j)
  <2> HIDE DEF block
  <2> QED BY <1>1, <1>3, <1>5, Grown DEF block
<1> HIDE DEF x
<1>7. PICK money : x = [a EXCEPT !.money = money]
  BY <1>4
<1>8. x = [money |-> money, locked |-> a.locked, seen |-> a.seen]
  BY <1>3, <1>7 DEF IsApp
<1>9. x.locked = a.locked /\ x.seen = a.seen /\ x.money = money
  BY <1>8
<1>10. IsApp(x) /\ HeldBySeen(x, i)
  BY <1>3, <1>8, <1>9 DEF IsApp, HeldBySeen
<1>11. \A k \in DOMAIN x.locked : /\ \E y \in Accepted(i)' : y.block = x.locked[k].by /\ y.ok
                                  /\ \A d \in Decisions(i)' : d.block # x.locked[k].by
  BY <1>3, <1>6, <1>9 DEF LockInv, NoLeakedLock
<1> QED BY <1>2, <1>3, <1>6, <1>10, <1>11, LockFrame

\* A shard that accepts a block locks keys of the block in its own range.
LEMMA AcceptLock ==
    ASSUME PyramidInv, NEW i \in IShard, IAccept(i)
    PROVE  LockInv'
<1>1. PICK c \in crossShardBlockPool(i) :
          ExecuteI(i, [type |-> "Accept", block |-> c, ok |-> PreExecutionI(app[i], c)])
  BY DEF IAccept
<1> DEFINE a == app[i]
           ok == PreExecutionI(a, c)
           block == [type |-> "Accept", block |-> c, ok |-> ok]
           x == AcceptCrossShard(a, c, i, ok)
<1>2. app' = [app EXCEPT ![i] = x]
  BY <1>1 DEF ExecuteI, processIBlock
<1>3. IsApp(a) /\ HeldBySeen(a, i) /\ TypeOK /\ LockInv /\ FateInv
  BY DEF PyramidInv, LockInv, AppInv, BarrierInv
<1>4. block.type = "Accept" /\ block.block = c /\ block.ok = ok
  OBVIOUS
<1>5. /\ Accepted(i)' = Accepted(i) \cup {block} /\ Decisions(i)' = Decisions(i)
      /\ \A j \in IShard : j # i => Accepted(j)' = Accepted(j) /\ Decisions(j)' = Decisions(j)
  <2>1. ExecuteI(i, block)
    BY <1>1
  <2> HIDE DEF block
  <2> QED BY <1>3, <1>4, <2>1, Grown
<1>6. \A d \in Decisions(i) : d.block # c
  <2> SUFFICES ASSUME NEW d \in Decisions(i) PROVE d.block \in Answered(i)
    BY <1>1 DEF crossShardBlockPool
  <2> QED BY <1>3 DEF FateInv, DecidedInv, CommitInv
<1>7. \E locked :
          /\ x = [a EXCEPT !.seen = a.seen \cup {c}, !.locked = locked]
          /\ locked = [k \in DOMAIN locked |-> locked[k]]
          /\ \A k \in DOMAIN locked :
                 \/ k \in DOMAIN a.locked /\ locked[k] = a.locked[k]
                 \/ ok /\ locked[k].by = c /\ k \in BlockKeys(c) /\ Owner[k] = i
  <2> DEFINE good == {n \in DOMAIN c.txs : c.data[n].ok /\ transferable(a, c.txs[n], c.data[n].from)}
             mem  == FoldLeftDomain(LAMBDA money, n :
                         IF n \in good THEN moved(money, c.txs[n], c.data[n].from, c.data[n].to)
                         ELSE money, a.money, c.txs)
             keys == {k \in UNION {KeysOf(c.txs[n]) : n \in good} : Owner[k] = i}
             new == [k \in keys \cup DOMAIN a.locked |->
                        IF k \in keys THEN [value |-> mem[k], by |-> c] ELSE a.locked[k]]
  <2>1. x = [a EXCEPT !.seen = a.seen \cup {c}, !.locked = IF ~ok THEN a.locked ELSE new]
    BY DEF AcceptCrossShard
  <2>2. \A k \in keys : k \in BlockKeys(c) /\ Owner[k] = i
    BY DEF BlockKeys
  <2> HIDE DEF mem, keys, good, x, ok
  <2>3. CASE ~ok
    <3>1. x = [a EXCEPT !.seen = a.seen \cup {c}, !.locked = a.locked]
      BY <2>1, <2>3
    <3>2. a.locked = [k \in DOMAIN a.locked |-> a.locked[k]]
      BY <1>3 DEF IsApp
    <3> QED BY <3>1, <3>2
  <2>4. CASE ok
    <3>1. x = [a EXCEPT !.seen = a.seen \cup {c}, !.locked = new]
      BY <2>1, <2>4
    <3>2. DOMAIN new = keys \cup DOMAIN a.locked /\ new = [k \in DOMAIN new |-> new[k]]
      OBVIOUS
    <3>3. \A k \in DOMAIN new :
             \/ k \in DOMAIN a.locked /\ new[k] = a.locked[k]
             \/ new[k].by = c /\ k \in keys
      OBVIOUS
    <3> HIDE DEF new
    <3> QED BY <2>2, <2>4, <3>1, <3>2, <3>3
  <2> QED BY <2>3, <2>4
<1> HIDE DEF x, ok, block
<1>8. PICK locked :
          /\ x = [a EXCEPT !.seen = a.seen \cup {c}, !.locked = locked]
          /\ locked = [k \in DOMAIN locked |-> locked[k]]
          /\ \A k \in DOMAIN locked :
                 \/ k \in DOMAIN a.locked /\ locked[k] = a.locked[k]
                 \/ ok /\ locked[k].by = c /\ k \in BlockKeys(c) /\ Owner[k] = i
  BY <1>7
<1>9. x = [money |-> a.money, locked |-> locked, seen |-> a.seen \cup {c}]
  BY <1>3, <1>8 DEF IsApp
<1>10. x.locked = locked /\ x.seen = a.seen \cup {c} /\ x.money = a.money
  BY <1>9
<1>11. IsApp(x)
  BY <1>8, <1>9, <1>10 DEF IsApp
<1>12. HeldBySeen(x, i)
  BY <1>3, <1>8, <1>10 DEF HeldBySeen
<1>13. \A k \in DOMAIN x.locked : /\ \E y \in Accepted(i)' : y.block = x.locked[k].by /\ y.ok
                                  /\ \A d \in Decisions(i)' : d.block # x.locked[k].by
  BY <1>3, <1>4, <1>5, <1>6, <1>8, <1>10 DEF LockInv, NoLeakedLock
<1> QED BY <1>2, <1>3, <1>5, <1>11, <1>12, <1>13, LockFrame

\* The order in which a block takes its commits.
LEMMA CommitOrder ==
    ASSUME FateInv, NEW i, NEW D \in SUBSET commitPool(i), NEW q \in SetToSeqs(D)
    PROVE  /\ ToSet(q) \subseteq commitPool(i)
           /\ Cardinality(D) \in Nat /\ DOMAIN q = 1 .. Cardinality(D)
<1>1. IsFiniteSet(D)
  <2>1. D \subseteq commits /\ IsFiniteSet(commits)
    BY DEF FateInv, commitPool
  <2> QED BY <2>1, FS_Subset
<1>2. Cardinality(D) \in Nat
  BY <1>1, FS_CardinalityType
<1>3. q \in [1 .. Cardinality(D) -> D]
  BY DEF SetToSeqs
<1> QED BY <1>2, <1>3 DEF ToSet

\* A shard that executes commits leaves no lock for their blocks.
LEMMA CommitLock ==
    ASSUME PyramidInv, NEW i \in IShard, ICommit(i)
    PROVE  LockInv'
<1>0. PICK D \in SUBSET commitPool(i) : \E q \in SetToSeqs(D) :
          ExecuteI(i, [type |-> "Commit", commits |-> q])
  BY DEF ICommit
<1>1. PICK q \in SetToSeqs(D) : ExecuteI(i, [type |-> "Commit", commits |-> q])
  BY <1>0
<1> DEFINE a == app[i]
           block == [type |-> "Commit", commits |-> q]
           x == FoldLeft(LAMBDA y, d : AcceptCommitShard(y, d, i), a, q)
<1>2. app' = [app EXCEPT ![i] = x]
  BY <1>1 DEF ExecuteI, processIBlock
<1>3. IsApp(a) /\ HeldBySeen(a, i) /\ TypeOK /\ LockInv /\ FateInv
  BY DEF PyramidInv, LockInv, AppInv, BarrierInv
<1>4. block.type = "Commit" /\ block.commits = q
  OBVIOUS
<1>5. /\ Accepted(i)' = Accepted(i) /\ Decisions(i)' = Decisions(i) \cup ToSet(q)
      /\ \A j \in IShard : j # i => Accepted(j)' = Accepted(j) /\ Decisions(j)' = Decisions(j)
  <2>1. ExecuteI(i, block)
    BY <1>1
  <2> HIDE DEF block
  <2> QED BY <1>3, <1>4, <2>1, Grown
<1>6. Released(DOMAIN q, x, q, a, i)
  <2> DEFINE n == Cardinality(D)
  <2>1. n \in Nat /\ DOMAIN q = 1 .. n
    BY <1>1, <1>3, CommitOrder
  <2> HIDE DEF n
  <2> HIDE DEF a
  <2> QED BY <1>3, <2>1, ReleaseAll
<1> HIDE DEF x
<1>7. IsApp(x) /\ HeldBySeen(x, i)
  BY <1>6 DEF Released
<1>8. \A k \in DOMAIN x.locked : /\ k \in DOMAIN a.locked /\ x.locked[k] = a.locked[k]
                                 /\ \A d \in ToSet(q) : d.block # x.locked[k].by
  BY <1>6 DEF Released, ToSet
<1>9. \A k \in DOMAIN x.locked : /\ \E y \in Accepted(i)' : y.block = x.locked[k].by /\ y.ok
                                 /\ \A d \in Decisions(i)' : d.block # x.locked[k].by
  BY <1>3, <1>5, <1>8 DEF LockInv, NoLeakedLock
<1> QED BY <1>2, <1>3, <1>5, <1>7, <1>9, LockFrame

\* The other steps leave the applications of the I shards alone.
LEMMA QuietLock ==
    ASSUME LockInv, chain' = chain, app' = [s \in Shard |-> app'[s]],
           \A i \in IShard : app'[i] = app[i]
    PROVE  LockInv'
<1>1. AppInv'
  BY DEF LockInv, AppInv, IsApp, HeldBySeen
<1>2. NoLeakedLock'
  BY ChainsAlone DEF LockInv, NoLeakedLock
<1> QED BY <1>1, <1>2 DEF LockInv
-----------------------------------------------------------------------------
(* The theorems. *)

\* Nothing is executed, sent or locked at first.
LEMMA InitKeeps == Init => PyramidInv
<1> SUFFICES ASSUME Init PROVE PyramidInv
  OBVIOUS
<1>1. /\ \A s \in Shard : height[s] = 1 /\ executed[s] = FALSE
      /\ \A i \in IShard : chain[i] = <<>>
      /\ \A b \in BShard : shardHeight[b] = [i \in Related[b] |-> 0] /\ pending[b] = None
      /\ sentBlocks = {} /\ commits = {}
  BY Shards DEF Init
<1>2. TypeOK
  <2>1. height \in [Shard -> Nat] /\ executed \in [Shard -> BOOLEAN]
    BY DEF Init
  <2>2. chain = [i \in IShard |-> chain[i]] /\ \A i \in IShard : \E T : chain[i] \in Seq(T)
    <3>1. <<>> \in Seq(Int)
      OBVIOUS
    <3>2. \A i \in IShard : chain[i] \in Seq(Int)
      BY <1>1, <3>1, Zenon
    <3> QED BY <3>2 DEF Init
  <2>3. shardHeight = [b \in BShard |-> shardHeight[b]] /\ \A b \in BShard : shardHeight[b] \in [Related[b] -> Nat]
    BY <1>1 DEF Init
  <2> QED BY <2>1, <2>2, <2>3 DEF TypeOK
<1>3. ChainInv /\ InStep
  BY <1>1, Shards DEF ChainInv, InStep
<1>4. ReplicaInv
  <2> SUFFICES ASSUME NEW b \in BShard, NEW i \in Related[b]
               PROVE  shardHeight[b][i] <= Len(chain[i]) /\ height[b] <= shardHeight[b][i] + 1
    BY DEF ReplicaInv
  <2>1. shardHeight[b][i] = 0 /\ chain[i] = <<>> /\ height[b] = 1
    BY <1>1, Shards
  <2> QED BY <2>1
<1>5. SentInv /\ PendingInv /\ CommitInv /\ IsFiniteSet(commits)
  BY <1>1, FS_EmptySet DEF Init, SentInv, PendingInv, CommitInv
<1>6. DecidedInv
  <2>1. \A i \in IShard : Decisions(i) = {}
    BY <1>1 DEF Decisions, ToSet
  <2> QED BY <2>1 DEF DecidedInv
<1>7. LockInv
  <2>1. /\ app = [s \in Shard |-> app[s]]
        /\ \A i \in IShard : app[i] = [money |-> [k \in Key |-> InitBalance], locked |-> <<>>, seen |-> {}]
    BY Shards DEF Init
  <2>2. \A i \in IShard : app[i].locked = <<>> /\ IsApp(app[i])
    BY <2>1 DEF IsApp
  <2>3. \A i \in IShard : DOMAIN app[i].locked = {}
    BY <2>2
  <2> QED BY <2>1, <2>2, <2>3 DEF LockInv, AppInv, HeldBySeen, NoLeakedLock
<1> QED BY <1>2, <1>3, <1>4, <1>5, <1>6, <1>7 DEF PyramidInv, BarrierInv, FateInv

\* A block of an I shard keeps the invariant.
LEMMA IStepKeeps ==
    ASSUME PyramidInv, NEW i \in IShard, IAccept(i) \/ ICommit(i) \/ IInner(i)
    PROVE  PyramidInv'
<1>1. BarrierInv /\ FateInv
  BY DEF PyramidInv
<1>2. CASE IAccept(i)
  <2>1. PICK c : ExecuteI(i, [type |-> "Accept", block |-> c, ok |-> PreExecutionI(app[i], c)])
    BY <1>2 DEF IAccept
  <2> DEFINE block == [type |-> "Accept", block |-> c, ok |-> PreExecutionI(app[i], c)]
  <2>2. ExecuteI(i, block) /\ block.type = "Accept"
    BY <2>1
  <2> HIDE DEF block
  <2> QED BY <1>1, <1>2, <2>2, ExecuteBarrier, ExecuteFate, AcceptLock DEF PyramidInv
<1>3. CASE ICommit(i)
  <2>1. PICK D \in SUBSET commitPool(i) : \E q \in SetToSeqs(D) :
            ExecuteI(i, [type |-> "Commit", commits |-> q])
    BY <1>3 DEF ICommit
  <2>2. PICK q \in SetToSeqs(D) : ExecuteI(i, [type |-> "Commit", commits |-> q])
    BY <2>1
  <2> DEFINE block == [type |-> "Commit", commits |-> q]
  <2>3. ExecuteI(i, block) /\ block.commits = q
    BY <2>2
  <2>4. ToSet(q) \subseteq commitPool(i)
    BY <1>1, CommitOrder
  <2> HIDE DEF block
  <2> QED BY <1>1, <1>3, <2>3, <2>4, ExecuteBarrier, ExecuteFate, CommitLock DEF PyramidInv
<1>4. CASE IInner(i)
  <2>1. PICK txs : ExecuteI(i, [type |-> "Inner", txs |-> txs])
    BY <1>4 DEF IInner
  <2> DEFINE block == [type |-> "Inner", txs |-> txs]
  <2>2. ExecuteI(i, block) /\ block.type = "Inner"
    BY <2>1
  <2> HIDE DEF block
  <2> QED BY <1>1, <1>4, <2>2, ExecuteBarrier, ExecuteFate, InnerLock DEF PyramidInv
<1> QED BY <1>2, <1>3, <1>4

\* A block of a B shard keeps the invariant.
LEMMA BStepKeeps ==
    ASSUME PyramidInv, NEW b \in BShard, BCross(b) \/ BCommit(b) \/ BInner(b)
    PROVE  PyramidInv'
<1>1. BarrierInv /\ FateInv /\ LockInv
  BY DEF PyramidInv
<1>2. executed' = [executed EXCEPT ![b] = TRUE] /\ UNCHANGED <<height, chain, shardHeight>>
  BY DEF BCross, BCommit, BInner
<1>3. BarrierInv'
  BY <1>1, <1>2, BlockBarrier
<1>4. FateInv'
  <2>1. CASE BCross(b)
    BY <1>1, <2>1, CrossFate
  <2>2. CASE BCommit(b)
    BY <1>1, <2>2, CommitFate
  <2>3. CASE BInner(b)
    <3>1. UNCHANGED <<pending, sentBlocks, commits, chain, height>>
      BY <2>3 DEF BInner
    <3>2. \A c \in BShard : executed[c] => executed'[c]
      BY <1>1, <1>2, Shards DEF BarrierInv, TypeOK
    <3> QED BY <1>1, <3>1, <3>2, QuietFate
  <2> QED BY <2>1, <2>2, <2>3
<1>5. LockInv'
  <2>1. app' = app \/ \E x : app' = [app EXCEPT ![b] = x]
    BY DEF BCross, BCommit, BInner
  <2>2. app' = [s \in Shard |-> app'[s]] /\ \A i \in IShard : app'[i] = app[i]
    BY <1>1, <2>1, Shards DEF LockInv, AppInv
  <2> QED BY <1>1, <1>2, <2>2, QuietLock
<1> QED BY <1>3, <1>4, <1>5 DEF PyramidInv

\* A shard that leaves its height keeps the invariant, and so does a B shard that
\* executes a block of an I shard.
LEMMA HeightKeeps ==
    ASSUME PyramidInv,
           \/ \E i \in IShard : INext(i)
           \/ \E b \in BShard : BNext(b)
           \/ \E b \in BShard, i \in IShard : Synchronize(b, i)
    PROVE  PyramidInv'
<1>1. BarrierInv /\ FateInv /\ LockInv /\ TypeOK
  BY DEF PyramidInv, BarrierInv
<1>2. BarrierInv'
  BY <1>1, INextBarrier, BNextBarrier, SynchronizeBarrier
<1>3. UNCHANGED <<pending, sentBlocks, commits, chain>>
  BY DEF INext, BNext, Synchronize
<1>4. \A b \in BShard : \/ height'[b] = height[b] /\ (executed[b] => executed'[b])
                       \/ height'[b] = height[b] + 1
  <2>1. CASE \E i \in IShard : INext(i)
    BY <1>1, <2>1, Shards DEF INext, TypeOK
  <2>2. CASE \E b \in BShard : BNext(b)
    BY <1>1, <2>2, Shards DEF BNext, TypeOK
  <2>3. CASE \E b \in BShard, i \in IShard : Synchronize(b, i)
    BY <2>3 DEF Synchronize
  <2> QED BY <2>1, <2>2, <2>3
<1>5. FateInv'
  BY <1>1, <1>3, <1>4, QuietFate
<1>6. LockInv'
  <2>1. app' = app \/ \E b \in BShard : \E x : app' = [app EXCEPT ![b] = x]
    BY DEF INext, BNext, Synchronize
  <2>2. app' = [s \in Shard |-> app'[s]] /\ \A i \in IShard : app'[i] = app[i]
    BY <1>1, <2>1, Shards DEF LockInv, AppInv
  <2> QED BY <1>1, <1>3, <2>2, QuietLock
<1> QED BY <1>2, <1>5, <1>6 DEF PyramidInv

\* Every step keeps the invariant.
LEMMA NextKeeps == PyramidInv /\ [Next]_vars => PyramidInv'
<1> SUFFICES ASSUME PyramidInv, [Next]_vars PROVE PyramidInv'
  OBVIOUS
<1>1. CASE UNCHANGED vars
  <2>1. UNCHANGED <<height, executed, app, pending, sentBlocks, commits, chain, shardHeight>>
    BY <1>1 DEF vars
  <2>2. BarrierInv'
    BY <2>1 DEF PyramidInv, BarrierInv, TypeOK, ChainInv, ReplicaInv, InStep
  <2>3. FateInv'
    BY <2>1, QuietFate DEF PyramidInv
  <2>4. LockInv'
    BY <2>1, QuietLock DEF PyramidInv, LockInv, AppInv
  <2> QED BY <2>2, <2>3, <2>4 DEF PyramidInv
<1>2. ASSUME NEW i \in IShard, IAccept(i) \/ ICommit(i) \/ IInner(i) PROVE PyramidInv'
  BY <1>2, IStepKeeps
<1>3. ASSUME NEW b \in BShard, BCross(b) \/ BCommit(b) \/ BInner(b) PROVE PyramidInv'
  BY <1>3, BStepKeeps
<1>4. CASE \/ \E i \in IShard : INext(i)
           \/ \E b \in BShard : BNext(b)
           \/ \E b \in BShard, i \in IShard : Synchronize(b, i)
  BY <1>4, HeightKeeps
<1> QED BY <1>1, <1>2, <1>3, <1>4 DEF Next

\* The barrier, the two-phase commit and the locks together are inductive.
THEOREM PyramidCorrect == Spec => []PyramidInv
<1> QED BY InitKeeps, NextKeeps, PTL DEF Spec

\* A B shard is at the height of each of its I shards or at the next one.
THEOREM InStepCorrect == Spec => []InStep
<1>1. PyramidInv => InStep
  BY DEF PyramidInv, BarrierInv
<1> QED BY <1>1, PyramidCorrect, PTL

\* A cross-shard block is carried out only if every I shard accepted it, and no two
\* I shards decide it differently.
THEOREM OneFateCorrect == Spec => []OneFate
<1>1. PyramidInv => OneFate
  <2> SUFFICES ASSUME PyramidInv, NEW i \in IShard, NEW j \in IShard, NEW d \in Decisions(i)
               PROVE  /\ d.commit /\ j \in Related[d.block.chain] =>
                             \E x \in Accepted(j) : x.block = d.block /\ x.ok
                      /\ \A e \in Decisions(j) : e.block = d.block => e.commit = d.commit
    BY DEF OneFate
  <2>1. d \in commits
    BY DEF PyramidInv, FateInv, DecidedInv
  <2>2. \A e \in Decisions(j) : e \in commits
    BY DEF PyramidInv, FateInv, DecidedInv
  <2> QED BY <2>1, <2>2 DEF PyramidInv, FateInv, CommitInv, AcceptedBy
<1> QED BY <1>1, PyramidCorrect, PTL

\* A key is locked only for a block that its shard accepted and has not decided.
THEOREM NoLeakedLockCorrect == Spec => []NoLeakedLock
<1>1. PyramidInv => NoLeakedLock
  BY DEF PyramidInv, LockInv
<1> QED BY <1>1, PyramidCorrect, PTL
=============================================================================
