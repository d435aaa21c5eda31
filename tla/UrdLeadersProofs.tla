-------------------------- MODULE UrdLeadersProofs --------------------------
(***************************************************************************)
(* The leaders, proved for every set of shards and every MaxView: their    *)
(* lock step, and then the contents of their blocks and the absence of     *)
(* crashes.  The lock step says which CSMs a block is made of; the second  *)
(* part what is in them.                                                   *)
(***************************************************************************)
EXTENDS UrdLeaders, SequenceTheorems, TLAPS

CSMap == [Shard -> CrossShardMessage \cup {NoCSM}]

-----------------------------------------------------------------------------
(* Facts about the block pool. *)

\* The bounds of a pool's length, as inequalities.
LEMMA InRange == \A n : n \in 1 .. 7 => n \in Nat /\ 1 <= n /\ n <= 7
OBVIOUS

\* A pool at its limit of seven loses its oldest block, any other is kept.
LEMMA DropOldest ==
    ASSUME NEW p \in Seq(Block), Len(p) <= 7
    PROVE  /\ (IF Len(p) = 7 THEN Tail(p) ELSE p) \in Seq(Block)
           /\ Len(IF Len(p) = 7 THEN Tail(p) ELSE p) \in Nat
           /\ Len(IF Len(p) = 7 THEN Tail(p) ELSE p) <= 6
<1> DEFINE n == Len(p)
           q == IF n = 7 THEN Tail(p) ELSE p
<1>1. n \in Nat /\ n <= 7
  BY LenProperties
<1>2. p # <<>> => Tail(p) \in Seq(Block) /\ Len(Tail(p)) = n - 1
  BY HeadTailProperties
<1>3. p = <<>> => n = 0
  OBVIOUS
<1>4. Len(p) = n
  OBVIOUS
<1> HIDE DEF n
<1> SUFFICES q \in Seq(Block) /\ Len(q) \in Nat /\ Len(q) <= 6
  BY <1>4
<1>5. CASE n = 7
  BY <1>2, <1>3, <1>5
<1>6. CASE n # 7
  BY <1>1, <1>4, <1>6
<1> QED BY <1>5, <1>6

\* append_block returns a pool of one to seven blocks whose newest is the one added.
LEMMA AppendBlock ==
    ASSUME NEW p \in Seq(Block), NEW b \in Block, Len(p) <= 7
    PROVE  /\ append_block(p, b) \in Seq(Block)
           /\ Len(append_block(p, b)) \in 1 .. 7
           /\ fetch_block(append_block(p, b), 1) = b
<1> DEFINE q == IF Len(p) = 7 THEN Tail(p) ELSE p
<1>1. q \in Seq(Block) /\ Len(q) \in Nat /\ Len(q) <= 6
  BY DropOldest
<1>2. append_block(p, b) = Append(q, b)
  BY DEF append_block, PoolCap
<1> HIDE DEF q
<1>3. /\ Append(q, b) \in Seq(Block)
      /\ Len(Append(q, b)) = Len(q) + 1
      /\ Append(q, b)[Len(q) + 1] = b
  BY <1>1, AppendProperties
<1>4. Len(Append(q, b)) \in 1 .. 7
  BY <1>1, <1>3
<1>5. fetch_block(Append(q, b), 1) = Append(q, b)[Len(q) + 1]
  BY <1>1, <1>3 DEF fetch_block
<1> QED
  BY <1>2, <1>3, <1>4, <1>5

\* A block of the pool can be fetched when the pool is long enough.
LEMMA FetchBlock ==
    ASSUME NEW p \in Seq(Block), NEW k \in 1 .. Len(p)
    PROVE  fetch_block(p, k) \in Block
BY DEF fetch_block

\* The outputs of commit_and_execution_j_2 are labelled by a view.
LEMMA ExecutedView ==
    ASSUME NEW p \in Seq(Block)
    PROVE  commit_and_execution_j_2(p) \in View
<1>1. CASE has_block(p, 2)
  <2>1. fetch_block(p, 2) \in Block
    BY <1>1, FetchBlock DEF has_block
  <2> QED
    BY <1>1, <2>1 DEF commit_and_execution_j_2, Block
<1>2. CASE ~has_block(p, 2)
  BY <1>2, MaxViewAssumption DEF commit_and_execution_j_2, View
<1> QED BY <1>1, <1>2

\* make_block builds a block whenever no nil pointer is met.
LEMMA MakeBlock ==
    ASSUME NEW s \in Shard, NEW v \in View, NEW p \in Seq(Block),
           NEW fin \in CSMap, NEW opt \in View, make_block_safe(s, p, fin)
    PROVE  make_block(s, v, p, fin, opt) \in Block
<1> DEFINE b == make_block(s, v, p, fin, opt)
<1>0. Len(p) \in Nat
  BY LenProperties
<1>1. 0 \in View
  BY MaxViewAssumption DEF View
<1>2. b.last \in View
  <2>1. CASE has_block(p, 1)
    <3>1. fetch_block(p, 1) \in Block
      BY <2>1, FetchBlock DEF has_block
    <3> QED BY <2>1, <3>1 DEF make_block, Block
  <2>2. CASE ~has_block(p, 1)
    BY <2>2, <1>1 DEF make_block
  <2> QED BY <2>1, <2>2
<1>3. b.agg \in View
  <2>1. CASE Len(p) >= 1
    <3>1. fin[s] \in CrossShardMessage
      BY <2>1 DEF make_block_safe, CSMap
    <3> QED BY <2>1, <3>1 DEF make_block, CrossShardMessage
  <2>2. CASE ~(Len(p) >= 1)
    BY <2>2, <1>1 DEF make_block
  <2> QED BY <2>1, <2>2
<1>4. Len(p) >= 2 => \A t \in Shard : fin[t] \in CrossShardMessage
  BY DEF make_block_safe, CSMap
<1>5. b.ci \in IntentionBrief
  <2>1. CASE Len(p) >= 2
    <3>1. [t \in Shard |-> fin[t].last] \in [Shard -> View]
      BY <1>4, <2>1 DEF CrossShardMessage
    <3> QED BY <2>1, <3>1 DEF make_block, IntentionBrief
  <2>2. CASE ~(Len(p) >= 2)
    BY <2>2 DEF make_block, IntentionBrief
  <2> QED BY <2>1, <2>2
<1>6. b.cc \in CommitCertificate /\ b.ctxs \in [Shard -> View] \cup {Nil}
  <2>1. CASE Len(p) >= 4
    <3>1. \A t \in Shard : fin[t] \in CrossShardMessage
      <4>1. Len(p) >= 2
        BY <1>0, <2>1
      <4> QED BY <1>4, <4>1
    <3>2. \A t \in Shard : /\ [hash |-> fin[t].last, brief |-> fin[t].brief]
                                \in [hash : View, brief : IntentionBrief]
                           /\ fin[t].opt \in View
      BY <3>1 DEF CrossShardMessage
    <3> QED BY <2>1, <3>2 DEF make_block, CommitCertificate
  <2>2. CASE ~(Len(p) >= 4)
    BY <2>2 DEF make_block, CommitCertificate
  <2> QED BY <2>1, <2>2
<1> QED
  BY <1>2, <1>3, <1>5, <1>6 DEF make_block, Block

-----------------------------------------------------------------------------
(* What doPropose and leader_wait leave behind, without the blocks' contents. *)

\* The type of the variables that only the leader's own handlers change.
OwnTypes ==
    /\ step \in [Shard -> {"", "leader-vote", "leader-wait", "stopped", "crashed"}]
    /\ view \in [Shard -> View]
    /\ finished \in [Shard -> CSMap]
    /\ j_1finished \in [Shard -> CSMap]
    /\ pool \in [Shard -> Seq(Block)]
    /\ j_1_txs \in [Shard -> View]
    /\ j_2_txs \in [Shard -> View]
    /\ executed \in [Shard -> View]

Crashed(s) == /\ step' = [step EXCEPT ![s] = "crashed"]
              /\ UNCHANGED <<view, finished>>

Advanced(s) ==
    /\ view' = [view EXCEPT ![s] = view[s] + 1]
    /\ finished' = [finished EXCEPT ![s] = [t \in Shard |-> NoCSM]]
    /\ step' = [step EXCEPT ![s] = IF view[s] + 1 > MaxView THEN "stopped" ELSE "leader-vote"]

Waiting(s, fin) == /\ step' = [step EXCEPT ![s] = "leader-wait"]
                   /\ finished' = [finished EXCEPT ![s] = fin]
                   /\ UNCHANGED view

\* A crash keeps the types and the pool.
LEMMA CrashEffect ==
    ASSUME OwnTypes, PoolInv, NEW s \in Shard, crash(s)
    PROVE  OwnTypes' /\ PoolInv' /\ Crashed(s)
<1>1. OwnTypes'
  BY DEF crash, OwnTypes
<1>2. PoolInv'
  BY DEF crash, PoolInv
<1>3. Crashed(s)
  BY DEF crash, Crashed
<1> QED BY <1>1, <1>2, <1>3

\* doPropose either crashes or enters the next view with a new newest block.
LEMMA ProposeEffect ==
    ASSUME OwnTypes, PoolInv, NEW s \in Shard, view[s] <= MaxView,
           NEW fin \in CSMap, doPropose(s, fin, "leader-vote")
    PROVE  OwnTypes' /\ PoolInv' /\ (Crashed(s) \/ Advanced(s))
<1> DEFINE opt == commit_and_execution_j_2(pool[s])
           v   == view[s] + 1
           b   == make_block(s, v, pool[s], fin, opt)
<1>1. CASE ~make_block_safe(s, pool[s], fin)
  BY <1>1, CrashEffect DEF doPropose
<1>2. CASE make_block_safe(s, pool[s], fin)
  <2>1. pool[s] \in Seq(Block) /\ view[s] \in View
    BY DEF OwnTypes
  <2>2. opt \in View
    BY <2>1, ExecutedView
  <2>3. v \in View /\ v >= 1
    BY <2>1, MaxViewAssumption DEF View
  <2>4. b \in Block
    BY <1>2, <2>1, <2>2, <2>3, MakeBlock
  <2>5. Len(pool[s]) <= 7 /\ (view[s] # 0 => has_block(pool[s], 1))
    <3>1. CASE view[s] = 0
      BY <3>1 DEF PoolInv
    <3>2. CASE view[s] # 0
      <4>1. Len(pool[s]) \in 1 .. 7
        BY <3>2 DEF PoolInv, PoolCap
      <4> QED BY <4>1, InRange DEF has_block
    <3> QED BY <3>1, <3>2
  <2>6. /\ append_block(pool[s], b) \in Seq(Block)
        /\ Len(append_block(pool[s], b)) \in 1 .. 7
        /\ fetch_block(append_block(pool[s], b), 1) = b
    BY <2>1, <2>4, <2>5, AppendBlock
  <2>7. /\ executed' = [executed EXCEPT ![s] = IF opt = 0 THEN executed[s] ELSE opt]
        /\ view' = [view EXCEPT ![s] = v]
        /\ j_1finished' = [j_1finished EXCEPT ![s] = fin]
        /\ finished' = [finished EXCEPT ![s] = [t \in Shard |-> NoCSM]]
        /\ j_2_txs' = [j_2_txs EXCEPT ![s] = j_1_txs[s]]
        /\ j_1_txs' = [j_1_txs EXCEPT ![s] = opt]
        /\ pool' = [pool EXCEPT ![s] = append_block(pool[s], b)]
        /\ step' = [step EXCEPT ![s] = IF v > MaxView THEN "stopped" ELSE "leader-vote"]
    BY <1>2 DEF doPropose, OwnTypes
  <2>8. b.view = v /\ b.last = view[s]
    <3>1. CASE view[s] = 0
      <4>1. ~has_block(pool[s], 1)
        BY <3>1 DEF PoolInv, has_block
      <4> QED BY <3>1, <4>1 DEF make_block
    <3>2. CASE view[s] # 0
      <4>1. has_block(pool[s], 1) /\ fetch_block(pool[s], 1).view = view[s]
        BY <2>5, <3>2 DEF PoolInv
      <4> QED BY <4>1 DEF make_block
    <3> QED BY <3>1, <3>2
  <2> HIDE DEF opt, v, b
  <2>9. OwnTypes'
    BY <2>2, <2>3, <2>6, <2>7 DEF OwnTypes, CSMap
  <2>10. PoolInv'
    <3> SUFFICES ASSUME NEW u \in Shard
                 PROVE  IF view'[u] = 0 THEN pool'[u] = <<>>
                        ELSE /\ Len(pool'[u]) \in 1 .. PoolCap
                             /\ fetch_block(pool'[u], 1).view = view'[u]
                             /\ fetch_block(pool'[u], 1).last = view'[u] - 1
      BY DEF PoolInv, fetch_block
    <3>1. CASE u = s
      <4>1. view'[u] = v /\ pool'[u] = append_block(pool[s], b)
        BY <2>7, <3>1 DEF OwnTypes
      <4>2. v # 0 /\ v - 1 = view[s]
        BY <2>1, <2>3 DEF v, View
      <4> QED BY <2>6, <2>8, <4>1, <4>2 DEF PoolCap
    <3>2. CASE u # s
      <4>1. view'[u] = view[u] /\ pool'[u] = pool[u]
        BY <2>7, <3>2 DEF OwnTypes
      <4> QED BY <4>1 DEF PoolInv
    <3> QED BY <3>1, <3>2
  <2>11. Advanced(s)
    BY <2>7 DEF Advanced, v
  <2> QED BY <2>9, <2>10, <2>11
<1> QED BY <1>1, <1>2

\* leader_wait proposes when every shard's CSM is there, and waits otherwise.
LEMMA WaitEffect ==
    ASSUME OwnTypes, PoolInv, NEW s \in Shard, view[s] <= MaxView,
           NEW fin \in CSMap, leader_wait(s, fin)
    PROVE  /\ OwnTypes' /\ PoolInv'
           /\ \/ (\A t \in Shard : fin[t] # NoCSM) /\ (Crashed(s) \/ Advanced(s))
              \/ Waiting(s, fin)
<1>1. CASE isCrossShardMessageComplete(fin)
  <2>1. doPropose(s, fin, "leader-vote")
    BY <1>1 DEF leader_wait
  <2> QED BY <1>1, <2>1, ProposeEffect DEF isCrossShardMessageComplete
<1>2. CASE ~isCrossShardMessageComplete(fin)
  <2>1. /\ finished' = [finished EXCEPT ![s] = fin]
        /\ step' = [step EXCEPT ![s] = "leader-wait"]
        /\ UNCHANGED <<view, j_1finished, pool, j_1_txs, j_2_txs, executed>>
    BY <1>2 DEF leader_wait
  <2>2. OwnTypes'
    BY <2>1 DEF OwnTypes
  <2>3. PoolInv'
    BY <2>1 DEF PoolInv, fetch_block
  <2>4. Waiting(s, fin)
    BY <2>1 DEF Waiting
  <2> QED BY <2>2, <2>3, <2>4
<1> QED BY <1>1, <1>2

-----------------------------------------------------------------------------
(* The parts of the invariant that a leader's step, view and hashes decide. *)

SharedTypes == /\ lastHash \in [Shard -> [Shard -> View]]
               /\ store \in [Shard -> [Shard -> [View -> CrossShardMessage \cup {NoCSM}]]]
               /\ msgs \subseteq CrossShardMessage

\* TypeOK splits into what a handler writes and what the leaders share.
LEMMA TypeParts == TypeOK <=> OwnTypes /\ SharedTypes
BY DEF TypeOK, OwnTypes, SharedTypes, CSMap

\* A view is a natural number.
LEMMA ViewInt == \A n \in View : n \in Int /\ n >= 0
BY MaxViewAssumption DEF View

LeaderInv == /\ StepInv
             /\ FinishedInv
             /\ KnowledgeInv
             /\ OwnInv
             /\ BarrierInv

\* fin and last agree: fin[t] is present exactly when last[t] has reached v.
Agrees(fin, last, v) == \A t \in Shard :
    IF fin[t] = NoCSM THEN last[t] = v - 1
    ELSE last[t] = v /\ fin[t].for = v /\ fin[t].src = t

\* The tail of every handler: with fin and last in agreement and no hash ahead of
\* its shard's own certificate, leader_wait preserves the lock step.
LEMMA AfterWait ==
    ASSUME OwnTypes, PoolInv, LeaderInv, lastHash \in [Shard -> [Shard -> View]],
           NEW s \in Shard, NEW fin \in CSMap, NEW last \in [Shard -> View],
           1 <= view[s], view[s] <= MaxView,
           leader_wait(s, fin), lastHash' = [lastHash EXCEPT ![s] = last],
           Agrees(fin, last, view[s]),
           last[s] = view[s],
           \A t \in Shard : t # s => last[t] <= lastHash[t][t]
    PROVE  OwnTypes' /\ PoolInv' /\ LeaderInv'
<1>1. /\ OwnTypes' /\ PoolInv'
      /\ \/ (\A t \in Shard : fin[t] # NoCSM) /\ (Crashed(s) \/ Advanced(s))
         \/ Waiting(s, fin)
  BY WaitEffect
<1>2. /\ \A t, u \in Shard : lastHash[t][u] \in Int
      /\ \A t \in Shard : last[t] \in Int /\ view[t] \in Int /\ view[t] >= 0
      /\ MaxView \in Int
  <2>1. \A t \in Shard : view[t] \in View /\ last[t] \in View
    BY DEF OwnTypes
  <2>2. \A t, u \in Shard : lastHash[t][u] \in View
    OBVIOUS
  <2> QED BY <2>1, <2>2, ViewInt, MaxViewAssumption
<1>3. lastHash'[s] = last /\ \A t \in Shard : t # s => lastHash'[t] = lastHash[t]
  OBVIOUS
<1>4. \A t \in Shard : lastHash'[t][t] >= lastHash[t][t]
  BY <1>2, <1>3 DEF LeaderInv, OwnInv, Certified
<1>5. KnowledgeInv'
  <2> SUFFICES ASSUME NEW u \in Shard, NEW t \in Shard
               PROVE  lastHash'[u][t] <= lastHash'[t][t]
    BY DEF KnowledgeInv, Certified
  <2>1. CASE u = s /\ t = s
    BY <1>2, <1>3, <2>1
  <2>2. CASE u = s /\ t # s
    BY <1>3, <2>2
  <2>3. CASE u # s
    <3>1. lastHash'[u][t] = lastHash[u][t] /\ lastHash[u][t] <= lastHash[t][t]
      BY <1>3, <2>3 DEF LeaderInv, KnowledgeInv, Certified
    <3>2. lastHash'[t][t] \in Int
      BY <1>2, <1>3
    <3> QED BY <1>2, <1>4, <3>1, <3>2
  <2> QED BY <2>1, <2>2, <2>3
<1>6. CASE Waiting(s, fin)
  <2>1. /\ view' = view /\ finished' = [finished EXCEPT ![s] = fin]
        /\ step' = [step EXCEPT ![s] = "leader-wait"]
    BY <1>6 DEF Waiting
  <2>2. StepInv'
    BY <1>2, <1>3, <2>1, MaxViewAssumption DEF LeaderInv, StepInv, Certified, OwnTypes
  <2>3. FinishedInv'
    <3> SUFFICES ASSUME NEW u \in Shard, NEW t \in Shard, step'[u] # "crashed"
                 PROVE  IF finished'[u][t] = NoCSM
                        THEN lastHash'[u][t] = IF view'[u] = 0 THEN 0 ELSE view'[u] - 1
                        ELSE /\ lastHash'[u][t] = view'[u]
                             /\ finished'[u][t].for = view'[u]
                             /\ finished'[u][t].src = t
      BY DEF FinishedInv
    <3>1. CASE u = s
      <4>1. finished'[u] = fin /\ lastHash'[u] = last /\ view'[u] = view[s]
        BY <1>3, <2>1, <3>1 DEF OwnTypes
      <4>2. view[s] # 0
        BY <1>2
      <4> QED BY <4>1, <4>2 DEF Agrees
    <3>2. CASE u # s
      <4>1. /\ finished'[u] = finished[u] /\ lastHash'[u] = lastHash[u]
            /\ view'[u] = view[u] /\ step'[u] = step[u]
        BY <1>3, <2>1, <3>2 DEF OwnTypes
      <4> QED BY <4>1 DEF LeaderInv, FinishedInv
    <3> QED BY <3>1, <3>2
  <2>4. OwnInv'
    BY <1>2, <1>3, <2>1 DEF LeaderInv, OwnInv, Certified
  <2>5. BarrierInv'
    BY <1>2, <1>3, <1>4, <2>1 DEF LeaderInv, BarrierInv, Certified
  <2> QED BY <1>1, <1>5, <2>2, <2>3, <2>4, <2>5 DEF LeaderInv
<1>7. CASE (\A t \in Shard : fin[t] # NoCSM) /\ Crashed(s)
  <2>1. /\ view' = view /\ finished' = finished
        /\ step' = [step EXCEPT ![s] = "crashed"]
    BY <1>7 DEF Crashed
  <2>2. StepInv'
    BY <1>2, <1>3, <2>1 DEF LeaderInv, StepInv, Certified, OwnTypes
  <2>3. FinishedInv'
    BY <1>2, <1>3, <2>1 DEF LeaderInv, FinishedInv, OwnTypes
  <2>4. OwnInv'
    BY <1>2, <1>3, <2>1 DEF LeaderInv, OwnInv, Certified
  <2>5. BarrierInv'
    BY <1>2, <1>3, <1>4, <2>1 DEF LeaderInv, BarrierInv, Certified
  <2> QED BY <1>1, <1>5, <2>2, <2>3, <2>4, <2>5 DEF LeaderInv
<1>8. CASE (\A t \in Shard : fin[t] # NoCSM) /\ Advanced(s)
  <2>1. /\ view' = [view EXCEPT ![s] = view[s] + 1]
        /\ finished' = [finished EXCEPT ![s] = [t \in Shard |-> NoCSM]]
        /\ step' = [step EXCEPT ![s] = IF view[s] + 1 > MaxView THEN "stopped"
                                                              ELSE "leader-vote"]
    BY <1>8 DEF Advanced
  <2>2. \A t \in Shard : last[t] = view[s]
    BY <1>8 DEF Agrees
  <2>3. \A t \in Shard : lastHash'[t][t] >= view[s]
    BY <1>2, <1>3, <2>2
  <2>4. \A t \in Shard : view'[t] = IF t = s THEN view[s] + 1 ELSE view[t]
    BY <2>1 DEF OwnTypes
  <2>5. StepInv'
    <3> SUFFICES ASSUME NEW u \in Shard
                 PROVE  /\ step'[u] = "leader-vote" =>
                            view'[u] >= 1 /\ view'[u] <= MaxView /\ lastHash'[u][u] = view'[u] - 1
                        /\ step'[u] = "leader-wait" =>
                            view'[u] >= 1 /\ view'[u] <= MaxView /\ lastHash'[u][u] = view'[u]
                        /\ step'[u] = "" => view'[u] = 0
      BY DEF StepInv, Certified
    <3>1. CASE u = s
      <4>1. /\ step'[u] = IF view[s] + 1 > MaxView THEN "stopped" ELSE "leader-vote"
            /\ view'[u] = view[s] + 1 /\ lastHash'[u][u] = view[s]
        BY <1>3, <2>1, <2>4, <3>1 DEF OwnTypes
      <4>2. view[s] + 1 >= 1 /\ (view[s] + 1) - 1 = view[s]
            /\ (~(view[s] + 1 > MaxView) => view[s] + 1 <= MaxView)
        BY <1>2
      <4> QED BY <4>1, <4>2
    <3>2. CASE u # s
      BY <1>3, <2>1, <2>4, <3>2 DEF LeaderInv, StepInv, Certified, OwnTypes
    <3> QED BY <3>1, <3>2
  <2>6. FinishedInv'
    <3> SUFFICES ASSUME NEW u \in Shard, NEW t \in Shard, step'[u] # "crashed"
                 PROVE  IF finished'[u][t] = NoCSM
                        THEN lastHash'[u][t] = IF view'[u] = 0 THEN 0 ELSE view'[u] - 1
                        ELSE /\ lastHash'[u][t] = view'[u]
                             /\ finished'[u][t].for = view'[u]
                             /\ finished'[u][t].src = t
      BY DEF FinishedInv
    <3>1. CASE u = s
      <4>1. finished'[u][t] = NoCSM /\ lastHash'[u][t] = view[s] /\ view'[u] = view[s] + 1
        BY <1>3, <2>1, <2>2, <2>4, <3>1 DEF OwnTypes
      <4>2. view[s] + 1 # 0 /\ (view[s] + 1) - 1 = view[s]
        BY <1>2
      <4> QED BY <4>1, <4>2
    <3>2. CASE u # s
      <4>1. /\ finished'[u] = finished[u] /\ lastHash'[u] = lastHash[u]
            /\ view'[u] = view[u] /\ step'[u] = step[u]
        BY <1>3, <2>1, <3>2 DEF OwnTypes
      <4> QED BY <4>1 DEF LeaderInv, FinishedInv
    <3> QED BY <3>1, <3>2
  <2>7. OwnInv'
    <3> SUFFICES ASSUME NEW u \in Shard
                 PROVE  lastHash'[u][u] <= view'[u] /\ view'[u] <= lastHash'[u][u] + 1
      BY DEF OwnInv, Certified
    <3>1. CASE u = s
      BY <1>2, <1>3, <2>4, <3>1
    <3>2. CASE u # s
      BY <1>3, <2>4, <3>2 DEF LeaderInv, OwnInv, Certified
    <3> QED BY <3>1, <3>2
  <2>8. BarrierInv'
    <3> SUFFICES ASSUME NEW u \in Shard, NEW t \in Shard
                 PROVE  view'[u] <= lastHash'[t][t] + 1
      BY DEF BarrierInv, Certified
    <3>0. lastHash'[t][t] \in Int
      BY <1>2, <1>3
    <3>1. CASE u = s
      BY <1>2, <2>3, <2>4, <3>0, <3>1
    <3>2. CASE u # s
      <4>1. view[u] <= lastHash[t][t] + 1
        BY DEF LeaderInv, BarrierInv, Certified
      <4> QED BY <1>2, <1>4, <2>4, <3>0, <3>2, <4>1
    <3> QED BY <3>1, <3>2
  <2> QED BY <1>1, <1>5, <2>5, <2>6, <2>7, <2>8 DEF LeaderInv
<1> QED BY <1>1, <1>6, <1>7, <1>8

\* A crash preserves the lock step, with or without one more hash extended.
LEMMA AfterCrash ==
    ASSUME OwnTypes, PoolInv, LeaderInv, NEW s \in Shard, crash(s),
           \A u, t \in Shard : /\ lastHash'[u][t] <= lastHash[t][t]
                               /\ lastHash'[t][t] = lastHash[t][t]
                               /\ u # s => lastHash'[u] = lastHash[u]
    PROVE  OwnTypes' /\ PoolInv' /\ LeaderInv'
<1>1. OwnTypes' /\ PoolInv' /\ Crashed(s)
  BY CrashEffect
<1>2. /\ view' = view /\ finished' = finished
      /\ step' = [step EXCEPT ![s] = "crashed"]
  BY <1>1 DEF Crashed
<1>3. StepInv'
  BY <1>2 DEF LeaderInv, StepInv, Certified, OwnTypes
<1>4. FinishedInv'
  <2> SUFFICES ASSUME NEW u \in Shard, NEW t \in Shard, step'[u] # "crashed"
               PROVE  IF finished'[u][t] = NoCSM
                      THEN lastHash'[u][t] = IF view'[u] = 0 THEN 0 ELSE view'[u] - 1
                      ELSE /\ lastHash'[u][t] = view'[u]
                           /\ finished'[u][t].for = view'[u]
                           /\ finished'[u][t].src = t
    BY DEF FinishedInv
  <2>1. u # s /\ step'[u] = step[u] /\ lastHash'[u] = lastHash[u]
    BY <1>2 DEF OwnTypes
  <2> QED BY <1>2, <2>1 DEF LeaderInv, FinishedInv
<1>5. KnowledgeInv' /\ OwnInv' /\ BarrierInv'
  BY <1>2 DEF LeaderInv, KnowledgeInv, OwnInv, BarrierInv, Certified
<1> QED BY <1>1, <1>3, <1>4, <1>5 DEF LeaderInv

-----------------------------------------------------------------------------
(* The handlers, one by one. *)

\* Sending messages does not disturb what the stores hold.
LEMMA StoreFrame ==
    ASSUME StoreInv, store' = store, msgs \subseteq msgs'
    PROVE  StoreInv'
<1> SUFFICES ASSUME NEW u \in Shard, NEW t \in Shard, NEW h \in View,
                    store'[u][t][h] # NoCSM
             PROVE  /\ store'[u][t][h] \in msgs' /\ store'[u][t][h].src = t
                    /\ store'[u][t][h].last = h
  BY DEF StoreInv
<1>1. store[u][t][h] # NoCSM =>
          store[u][t][h] \in msgs /\ store[u][t][h].src = t /\ store[u][t][h].last = h
  BY DEF StoreInv
<1> QED BY <1>1

\* Start keeps the invariant: the first block needs no CSM.
LEMMA StartStep ==
    ASSUME LockStepInv, NEW s \in Shard, Start(s)
    PROVE  LockStepInv'
<1>1. OwnTypes /\ SharedTypes /\ LeaderInv /\ PoolInv /\ MessageInv /\ StoreInv
  BY TypeParts DEF LockStepInv, LeaderInv
<1>2. /\ step[s] = "" /\ doPropose(s, finished[s], "leader-vote")
      /\ lastHash' = lastHash /\ store' = store /\ msgs' = msgs
  BY DEF Start
<1>3. view[s] = 0
  BY <1>1, <1>2 DEF LeaderInv, StepInv
<1>4. \A u, t \in Shard : /\ lastHash[u][t] \in Int /\ lastHash[u][t] >= 0
                          /\ view[t] \in Int
  <2>1. \A u, t \in Shard : lastHash[u][t] \in View /\ view[t] \in View
    BY <1>1 DEF SharedTypes, OwnTypes
  <2> QED BY <2>1, ViewInt
<1>5. OwnTypes' /\ PoolInv' /\ (Crashed(s) \/ Advanced(s))
  <2>1. finished[s] \in CSMap
    BY <1>1 DEF OwnTypes
  <2>2. view[s] <= MaxView
    BY <1>3, MaxViewAssumption
  <2> QED BY <1>1, <1>2, <2>1, <2>2, ProposeEffect
<1>6. LeaderInv'
  <2>1. CASE Crashed(s)
    <3>1. /\ view' = view /\ finished' = finished
          /\ step' = [step EXCEPT ![s] = "crashed"]
      BY <2>1 DEF Crashed
    <3> QED
      BY <1>1, <1>2, <3>1 DEF LeaderInv, StepInv, FinishedInv, KnowledgeInv, OwnInv,
         BarrierInv, Certified, OwnTypes
  <2>2. CASE Advanced(s)
    <3>1. /\ view' = [view EXCEPT ![s] = 1]
          /\ finished' = [finished EXCEPT ![s] = [t \in Shard |-> NoCSM]]
          /\ step' = [step EXCEPT ![s] = "leader-vote"]
      <4>1. view[s] + 1 = 1 /\ ~(view[s] + 1 > MaxView)
        BY <1>3, MaxViewAssumption
      <4> QED BY <2>2, <4>1 DEF Advanced
    <3>2. \A t \in Shard : lastHash[s][t] = 0
      <4> SUFFICES ASSUME NEW t \in Shard PROVE lastHash[s][t] = 0
        OBVIOUS
      <4>1. step[s] # "crashed"
        BY <1>2
      <4> QED BY <1>1, <1>3, <4>1 DEF LeaderInv, FinishedInv
    <3>3. StepInv'
      <4> SUFFICES ASSUME NEW u \in Shard
                   PROVE  /\ step'[u] = "leader-vote" =>
                              view'[u] >= 1 /\ view'[u] <= MaxView /\ lastHash[u][u] = view'[u] - 1
                          /\ step'[u] = "leader-wait" =>
                              view'[u] >= 1 /\ view'[u] <= MaxView /\ lastHash[u][u] = view'[u]
                          /\ step'[u] = "" => view'[u] = 0
        BY <1>2 DEF StepInv, Certified
      <4>1. CASE u = s
        <5>1. step'[u] = "leader-vote" /\ view'[u] = 1 /\ lastHash[u][u] = 0
          BY <1>1, <3>1, <3>2, <4>1 DEF OwnTypes
        <5> QED BY <5>1, MaxViewAssumption
      <4>2. CASE u # s
        BY <1>1, <3>1, <4>2 DEF LeaderInv, StepInv, Certified, OwnTypes
      <4> QED BY <4>1, <4>2
    <3>4. FinishedInv'
      <4> SUFFICES ASSUME NEW u \in Shard, NEW t \in Shard, step'[u] # "crashed"
                   PROVE  IF finished'[u][t] = NoCSM
                          THEN lastHash[u][t] = IF view'[u] = 0 THEN 0 ELSE view'[u] - 1
                          ELSE /\ lastHash[u][t] = view'[u]
                               /\ finished'[u][t].for = view'[u]
                               /\ finished'[u][t].src = t
        BY <1>2 DEF FinishedInv
      <4>1. CASE u = s
        <5>1. finished'[u][t] = NoCSM /\ view'[u] = 1 /\ lastHash[u][t] = 0
          BY <1>1, <3>1, <3>2, <4>1 DEF OwnTypes
        <5> QED BY <5>1
      <4>2. CASE u # s
        <5>1. finished'[u] = finished[u] /\ view'[u] = view[u] /\ step'[u] = step[u]
          BY <1>1, <3>1, <4>2 DEF OwnTypes
        <5> QED BY <1>1, <5>1 DEF LeaderInv, FinishedInv
      <4> QED BY <4>1, <4>2
    <3>5. KnowledgeInv'
      BY <1>1, <1>2 DEF LeaderInv, KnowledgeInv, Certified
    <3>6. OwnInv' /\ BarrierInv'
      <4> SUFFICES ASSUME NEW u \in Shard, NEW t \in Shard
                   PROVE  /\ lastHash[u][u] <= view'[u] /\ view'[u] <= lastHash[u][u] + 1
                          /\ view'[u] <= lastHash[t][t] + 1
        BY <1>2 DEF OwnInv, BarrierInv, Certified
      <4>1. CASE u = s
        <5>1. view'[u] = 1 /\ lastHash[u][u] = 0
          BY <1>1, <3>1, <3>2, <4>1 DEF OwnTypes
        <5> QED BY <1>4, <5>1
      <4>2. CASE u # s
        <5>1. view'[u] = view[u]
          BY <1>1, <3>1, <4>2 DEF OwnTypes
        <5> QED BY <1>1, <5>1 DEF LeaderInv, OwnInv, BarrierInv, Certified
      <4> QED BY <4>1, <4>2
    <3> QED BY <3>3, <3>4, <3>5, <3>6 DEF LeaderInv
  <2> QED BY <1>5, <2>1, <2>2
<1>7. SharedTypes' /\ MessageInv' /\ StoreInv'
  <2>1. SharedTypes'
    BY <1>1, <1>2 DEF SharedTypes
  <2>2. MessageInv'
    BY <1>1, <1>2 DEF MessageInv, Certified
  <2>3. StoreInv'
    BY <1>1, <1>2, StoreFrame
  <2> QED BY <2>1, <2>2, <2>3
<1> QED BY <1>5, <1>6, <1>7, TypeParts, PTL DEF LockStepInv, LeaderInv

\* The CSM of a leader in step leader-vote certifies its newest block.
LEMMA MakeCSM ==
    ASSUME OwnTypes, PoolInv, StepInv, NEW s \in Shard, NEW t \in Shard,
           step[s] = "leader-vote"
    PROVE  /\ make_csm(s, t) \in CrossShardMessage
           /\ make_csm(s, t).src = s /\ make_csm(s, t).dst = t
           /\ make_csm(s, t).for = view[s] /\ make_csm(s, t).last = view[s] - 1
<1> DEFINE p == pool[s]
<1>1. view[s] \in View /\ j_2_txs[s] \in View /\ p \in Seq(Block) /\ 0 \in View
  <2>1. view[s] \in View /\ j_2_txs[s] \in View /\ p \in Seq(Block)
    BY DEF OwnTypes
  <2>2. 0 \in View
    BY MaxViewAssumption DEF View
  <2> QED BY <2>1, <2>2
<1>2. view[s] # 0
  <2>1. view[s] >= 1
    BY DEF StepInv
  <2> QED BY <1>1, <2>1, ViewInt
<1>3. Len(p) \in Nat /\ 1 <= Len(p)
  <2>1. Len(p) \in 1 .. 7
    BY <1>2 DEF PoolInv, PoolCap
  <2> QED BY <2>1, InRange
<1>4. fetch_block(p, 1) \in Block /\ fetch_block(p, 1).last = view[s] - 1
  <2>1. fetch_block(p, 1) \in Block
    BY <1>1, <1>3, FetchBlock
  <2> QED BY <1>2, <2>1 DEF PoolInv
<1>5. Len(p) >= 4 => fetch_block(p, 2) \in Block
  <2>1. Len(p) >= 4 => 2 \in 1 .. Len(p)
    BY <1>3
  <2> QED BY <1>1, <2>1, FetchBlock
<1>6. make_csm(s, t) = [dst |-> t, src |-> s,
                        last |-> fetch_block(p, 1).last, for |-> view[s],
                        brief |-> IF Len(p) >= 4 THEN fetch_block(p, 2).ci ELSE Nil,
                        opt   |-> IF Len(p) >= 4 THEN j_2_txs[s] ELSE 0,
                        proof |-> IF Len(p) >= 4 /\ fetch_block(p, 2).opt = j_2_txs[s]
                                    THEN fetch_block(p, 2).view ELSE 0]
  BY DEF make_csm
<1>7. fetch_block(p, 1).last \in View
  BY <1>4 DEF Block
<1>8. (IF Len(p) >= 4 THEN fetch_block(p, 2).ci ELSE Nil) \in IntentionBrief
  BY <1>5 DEF Block, IntentionBrief
<1>9. (IF Len(p) >= 4 THEN j_2_txs[s] ELSE 0) \in View
  BY <1>1
<1>10. (IF Len(p) >= 4 /\ fetch_block(p, 2).opt = j_2_txs[s]
          THEN fetch_block(p, 2).view ELSE 0) \in View
  BY <1>1, <1>5 DEF Block
<1> HIDE DEF p
<1> QED
  BY <1>1, <1>4, <1>6, <1>7, <1>8, <1>9, <1>10 DEF CrossShardMessage

\* redo_CrossShardMessage at quorum time finds only a CSM of the current view,
\* from a shard whose CSM of this view is still missing.
LEMMA RedoIsCurrent ==
    ASSUME LockStepInv, NEW s \in Shard, NEW t \in Shard, t # s,
           step[s] = "leader-vote", redo_CrossShardMessage(s, t) # NoCSM
    PROVE  /\ redo_CrossShardMessage(s, t) \in CrossShardMessage
           /\ redo_CrossShardMessage(s, t).src = t
           /\ redo_CrossShardMessage(s, t).for = view[s]
           /\ redo_CrossShardMessage(s, t).for <= lastHash[t][t]
           /\ finished[s][t] = NoCSM
<1> DEFINE m == redo_CrossShardMessage(s, t)
<1>1. /\ lastHash[s][t] \in View /\ lastHash[t][t] \in View /\ lastHash[s][s] \in View
      /\ view[s] \in View /\ view[t] \in View
  BY DEF LockStepInv, TypeOK
<1>2. /\ lastHash[s][t] \in Int /\ lastHash[t][t] \in Int /\ lastHash[s][s] \in Int
      /\ view[s] \in Int /\ view[t] \in Int
  BY <1>1, ViewInt
<1>3. m \in msgs /\ m.src = t /\ m.last = lastHash[s][t]
  BY <1>1 DEF LockStepInv, StoreInv, redo_CrossShardMessage
<1>4. m \in CrossShardMessage /\ m.for = lastHash[s][t] + 1 /\ m.for <= lastHash[t][t]
  <2>1. m \in CrossShardMessage
    BY <1>3 DEF LockStepInv, TypeOK
  <2>2. m.for = m.last + 1 /\ m.for <= lastHash[m.src][m.src]
    BY <1>3 DEF LockStepInv, MessageInv, Certified
  <2> QED BY <1>3, <2>1, <2>2
<1>5. lastHash[s][s] = view[s] - 1 /\ view[s] >= 1
  BY DEF LockStepInv, StepInv, Certified
<1>6. lastHash[t][t] <= view[t] /\ view[t] <= lastHash[s][s] + 1
  BY DEF LockStepInv, OwnInv, BarrierInv, Certified
<1>7. lastHash[s][t] + 1 <= view[s]
  <2> HIDE DEF m
  <2> QED BY <1>2, <1>4, <1>5, <1>6
<1>8. finished[s][t] = NoCSM
  <2>1. finished[s][t] # NoCSM => lastHash[s][t] = view[s]
    BY DEF LockStepInv, FinishedInv
  <2> QED BY <1>2, <1>7, <2>1
<1>9. lastHash[s][t] = view[s] - 1
  <2>1. view[s] # 0
    BY <1>2, <1>5
  <2> QED BY <1>8, <2>1 DEF LockStepInv, FinishedInv
<1> QED BY <1>2, <1>3, <1>4, <1>8, <1>9

\* A quorum keeps the invariant: redo, the broadcast and the wait together.
LEMMA QuorumStep ==
    ASSUME LockStepInv, NEW s \in Shard, Quorum(s)
    PROVE  LockStepInv'
<1> DEFINE redo(t)  == t # s /\ redo_CrossShardMessage(s, t) # NoCSM
           own      == make_csm(s, s)
           extended == [t \in Shard |-> IF t = s THEN own
                                        ELSE IF redo(t) THEN redo_CrossShardMessage(s, t)
                                        ELSE finished[s][t]]
           last     == [t \in Shard |-> IF t = s \/ redo(t) THEN extended[t].for
                                                           ELSE lastHash[s][t]]
<1>1. OwnTypes /\ SharedTypes /\ LeaderInv /\ PoolInv /\ MessageInv /\ StoreInv /\ StepInv
  BY TypeParts DEF LockStepInv, LeaderInv
<1>2. step[s] = "leader-vote" /\ store' = store
  BY DEF Quorum
<1>3. /\ \A u, t \in Shard : lastHash[u][t] \in View /\ lastHash[u][t] \in Int
      /\ view[s] \in View /\ view[s] \in Int
  <2>1. (\A u, t \in Shard : lastHash[u][t] \in View) /\ view[s] \in View
    BY <1>1 DEF SharedTypes, OwnTypes
  <2> QED BY <2>1, ViewInt
<1>4. 1 <= view[s] /\ view[s] <= MaxView /\ lastHash[s][s] = view[s] - 1
  BY <1>1, <1>2, <1>3 DEF StepInv, Certified
<1>5. \A t \in Shard : /\ make_csm(s, t) \in CrossShardMessage
                       /\ make_csm(s, t).src = s /\ make_csm(s, t).dst = t
                       /\ make_csm(s, t).for = view[s] /\ make_csm(s, t).last = view[s] - 1
  BY <1>1, <1>2, MakeCSM
<1>6. CASE ~communicate_safe(pool[s], j_2_txs[s])
  <2>1. crash(s) /\ lastHash' = lastHash /\ msgs' = msgs
    BY <1>6 DEF Quorum
  <2>2. OwnTypes' /\ PoolInv' /\ LeaderInv'
    <3>1. \A u, t \in Shard : lastHash[u][t] <= lastHash[t][t]
      BY <1>1 DEF LeaderInv, KnowledgeInv, Certified
    <3> QED BY <1>1, <2>1, <3>1, AfterCrash
  <2>3. SharedTypes' /\ MessageInv'
    BY <1>1, <1>2, <2>1 DEF SharedTypes, MessageInv, Certified
  <2>4. StoreInv'
    BY <1>1, <1>2, <2>1, StoreFrame
  <2> QED BY <2>2, <2>3, <2>4, TypeParts, PTL DEF LockStepInv, LeaderInv
<1>7. CASE communicate_safe(pool[s], j_2_txs[s])
  <2>1. /\ lastHash' = [lastHash EXCEPT ![s] = last]
        /\ msgs' = msgs \cup {make_csm(s, t) : t \in Shard \ {s}}
        /\ leader_wait(s, extended)
    <3>1. /\ lastHash' = [lastHash EXCEPT ![s] =
                 [t \in Shard |-> IF t = s \/ redo(t) THEN extended[t].for ELSE lastHash[s][t]]]
          /\ msgs' = msgs \cup {make_csm(s, t) : t \in Shard \ {s}}
          /\ leader_wait(s, extended)
      BY <1>1, <1>7 DEF Quorum, SharedTypes
    <3> QED BY <3>1
  <2>2. ASSUME NEW t \in Shard
        PROVE  /\ extended[t] \in CrossShardMessage \cup {NoCSM}
               /\ last[t] \in View
               /\ IF extended[t] = NoCSM THEN last[t] = view[s] - 1
                  ELSE last[t] = view[s] /\ extended[t].for = view[s] /\ extended[t].src = t
               /\ t # s => last[t] <= lastHash[t][t]
               /\ t = s => last[t] = view[s]
    <3>1. CASE t = s
      <4>1. extended[t] = make_csm(s, s) /\ last[t] = make_csm(s, s).for
        BY <3>1
      <4>2. make_csm(s, s) # NoCSM
        BY <1>5, NoCSMAssumption
      <4> QED BY <1>3, <1>5, <3>1, <4>1, <4>2
    <3>2. CASE t # s /\ redo_CrossShardMessage(s, t) # NoCSM
      <4>1. /\ extended[t] = redo_CrossShardMessage(s, t)
            /\ last[t] = redo_CrossShardMessage(s, t).for
        BY <3>2
      <4>2. /\ redo_CrossShardMessage(s, t) \in CrossShardMessage
            /\ redo_CrossShardMessage(s, t).src = t
            /\ redo_CrossShardMessage(s, t).for = view[s]
            /\ redo_CrossShardMessage(s, t).for <= lastHash[t][t]
        BY <1>2, <3>2, RedoIsCurrent
      <4> HIDE DEF extended, last
      <4> QED BY <1>3, <3>2, <4>1, <4>2
    <3>3. CASE t # s /\ ~(redo_CrossShardMessage(s, t) # NoCSM)
      <4>1. extended[t] = finished[s][t] /\ last[t] = lastHash[s][t]
        BY <3>3
      <4>2. finished[s][t] \in CrossShardMessage \cup {NoCSM}
        BY <1>1 DEF OwnTypes, CSMap
      <4>3. IF finished[s][t] = NoCSM THEN lastHash[s][t] = view[s] - 1
            ELSE /\ lastHash[s][t] = view[s]
                 /\ finished[s][t].for = view[s] /\ finished[s][t].src = t
        <5>1. view[s] # 0 /\ step[s] # "crashed"
          BY <1>2, <1>3, <1>4
        <5> QED BY <1>1, <5>1 DEF LeaderInv, FinishedInv
      <4>4. lastHash[s][t] <= lastHash[t][t]
        BY <1>1 DEF LeaderInv, KnowledgeInv, Certified
      <4> HIDE DEF extended, last
      <4> QED BY <1>3, <3>3, <4>1, <4>2, <4>3, <4>4
    <3> QED BY <3>1, <3>2, <3>3
  <2>3. extended \in CSMap /\ last \in [Shard -> View]
    BY <2>2 DEF CSMap
  <2>4. Agrees(extended, last, view[s])
    BY <2>2 DEF Agrees
  <2>5. last[s] = view[s] /\ \A t \in Shard : t # s => last[t] <= lastHash[t][t]
    BY <2>2
  <2> HIDE DEF extended, last
  <2>6. OwnTypes' /\ PoolInv' /\ LeaderInv'
    <3>1. lastHash \in [Shard -> [Shard -> View]]
      BY <1>1 DEF SharedTypes
    <3> QED BY <1>1, <1>4, <2>1, <2>3, <2>4, <2>5, <3>1, AfterWait
  <2>7. SharedTypes'
    BY <1>1, <1>2, <1>5, <2>1, <2>3 DEF SharedTypes
  <2>8. MessageInv'
    <3> SUFFICES ASSUME NEW m \in msgs'
                 PROVE  m.src # m.dst /\ m.for = m.last + 1 /\ m.for <= lastHash'[m.src][m.src]
      BY DEF MessageInv, Certified
    <3>1. lastHash'[s][s] = view[s] /\ \A t \in Shard : t # s => lastHash'[t] = lastHash[t]
      BY <1>1, <2>1, <2>5 DEF SharedTypes
    <3>2. CASE m \in msgs
      <4>1. m.src \in Shard /\ m.for \in Int /\ m.src # m.dst
            /\ m.for = m.last + 1 /\ m.for <= lastHash[m.src][m.src]
        <5>1. m \in CrossShardMessage
          BY <1>1, <3>2 DEF SharedTypes
        <5>2. m.src \in Shard /\ m.for \in View
          BY <5>1 DEF CrossShardMessage
        <5> QED BY <1>1, <3>2, <5>2, ViewInt DEF MessageInv, Certified
      <4>2. CASE m.src = s
        BY <1>3, <1>4, <3>1, <4>1, <4>2
      <4>3. CASE m.src # s
        BY <3>1, <4>1, <4>3
      <4> QED BY <4>2, <4>3
    <3>3. CASE m \notin msgs
      <4>1. PICK t \in Shard \ {s} : m = make_csm(s, t)
        BY <2>1, <3>3
      <4> QED BY <1>3, <1>5, <3>1, <4>1
    <3> QED BY <3>2, <3>3
  <2>9. StoreInv'
    BY <1>1, <1>2, <2>1, StoreFrame
  <2> QED BY <2>6, <2>7, <2>8, <2>9, TypeParts, PTL DEF LockStepInv, LeaderInv
<1> QED BY <1>6, <1>7

\* A CSM keeps the invariant, in each of the three steps it may arrive in.
LEMMA ReceiveStep ==
    ASSUME LockStepInv, NEW s \in Shard, NEW m \in msgs, ReceiveCSM(s, m)
    PROVE  LockStepInv'
<1> DEFINE ext  == extends(s, m)
           last == IF ext THEN [lastHash[s] EXCEPT ![m.src] = m.for] ELSE lastHash[s]
           fin  == IF ext THEN [finished[s] EXCEPT ![m.src] = m] ELSE finished[s]
<1>1. OwnTypes /\ SharedTypes /\ LeaderInv /\ PoolInv /\ MessageInv /\ StoreInv /\ StepInv
  BY TypeParts DEF LockStepInv, LeaderInv
<1>2. /\ m.dst = s
      /\ store' = [store EXCEPT ![s][m.src][m.last] = m]
      /\ lastHash' = IF ext THEN [lastHash EXCEPT ![s][m.src] = m.for] ELSE lastHash
      /\ msgs' = msgs
      /\ \/ step[s] = "" /\ crash(s)
         \/ /\ step[s] = "leader-vote"
            /\ finished' = [finished EXCEPT ![s] = fin]
            /\ UNCHANGED <<step, view, j_1finished, pool, j_1_txs, j_2_txs, executed>>
         \/ step[s] = "leader-wait" /\ leader_wait(s, fin)
  BY DEF ReceiveCSM
<1>3. /\ m \in CrossShardMessage /\ m.src \in Shard /\ m.src # s
      /\ m.last \in View /\ m.for \in View /\ m.last \in Int /\ m.for \in Int
      /\ m.for = m.last + 1 /\ m.for <= lastHash[m.src][m.src]
  <2>1. m \in CrossShardMessage
    BY <1>1 DEF SharedTypes
  <2>2. m.src \in Shard /\ m.last \in View /\ m.for \in View
    BY <2>1 DEF CrossShardMessage
  <2>3. m.src # m.dst /\ m.for = m.last + 1 /\ m.for <= lastHash[m.src][m.src]
    BY <1>1 DEF MessageInv, Certified
  <2> QED BY <1>2, <2>1, <2>2, <2>3, ViewInt
<1>4. /\ \A u, t \in Shard : lastHash[u][t] \in View /\ lastHash[u][t] \in Int
      /\ view[s] \in View /\ view[s] \in Int
  <2>1. (\A u, t \in Shard : lastHash[u][t] \in View) /\ view[s] \in View
    BY <1>1 DEF SharedTypes, OwnTypes
  <2> QED BY <2>1, ViewInt
<1>5. lastHash' = [lastHash EXCEPT ![s] = last] /\ last \in [Shard -> View]
  <2>1. CASE ext
    BY <1>1, <1>2, <1>3, <2>1 DEF SharedTypes
  <2>2. CASE ~ext
    BY <1>1, <1>2, <2>2 DEF SharedTypes
  <2> QED BY <2>1, <2>2
<1>6. fin \in CSMap
  BY <1>1, <1>3 DEF OwnTypes, CSMap
<1>7. SharedTypes'
  <2>1. lastHash' \in [Shard -> [Shard -> View]]
    BY <1>1, <1>5 DEF SharedTypes
  <2>2. store' \in [Shard -> [Shard -> [View -> CrossShardMessage \cup {NoCSM}]]]
    BY <1>1, <1>2, <1>3 DEF SharedTypes
  <2>3. msgs' \subseteq CrossShardMessage
    BY <1>1, <1>2 DEF SharedTypes
  <2> QED BY <2>1, <2>2, <2>3 DEF SharedTypes
<1>8. \A t \in Shard : /\ last[t] = IF ext /\ t = m.src THEN m.for ELSE lastHash[s][t]
                       /\ fin[t] = IF ext /\ t = m.src THEN m ELSE finished[s][t]
  BY <1>1, <1>3 DEF SharedTypes, OwnTypes, CSMap
<1>9. \A u, t \in Shard : /\ lastHash'[u][t] <= lastHash[t][t]
                          /\ lastHash'[t][t] = lastHash[t][t]
                          /\ u # s => lastHash'[u] = lastHash[u]
  <2>1. \A u, t \in Shard : lastHash[u][t] <= lastHash[t][t]
    BY <1>1 DEF LeaderInv, KnowledgeInv, Certified
  <2>2. lastHash'[s] = last /\ \A u \in Shard : u # s => lastHash'[u] = lastHash[u]
    BY <1>1, <1>5 DEF SharedTypes
  <2>3. ASSUME NEW t \in Shard PROVE last[t] <= lastHash[t][t]
    <3>1. last[t] = IF ext /\ t = m.src THEN m.for ELSE lastHash[s][t]
      BY <1>8
    <3> HIDE DEF ext, last
    <3> QED BY <1>3, <2>1, <3>1
  <2>4. last[s] = lastHash[s][s]
    BY <1>3, <1>8
  <2> HIDE DEF last
  <2> QED BY <2>1, <2>2, <2>3, <2>4
<1>10. MessageInv'
  BY <1>1, <1>2, <1>9 DEF MessageInv, Certified, SharedTypes, CrossShardMessage
<1>11. StoreInv'
  <2> SUFFICES ASSUME NEW u \in Shard, NEW t \in Shard, NEW h \in View,
                      store'[u][t][h] # NoCSM
               PROVE  /\ store'[u][t][h] \in msgs' /\ store'[u][t][h].src = t
                      /\ store'[u][t][h].last = h
    BY DEF StoreInv
  <2>1. store'[u][t][h] = IF u = s /\ t = m.src /\ h = m.last THEN m ELSE store[u][t][h]
    BY <1>1, <1>2, <1>3 DEF SharedTypes
  <2>2. store[u][t][h] # NoCSM =>
          store[u][t][h] \in msgs /\ store[u][t][h].src = t /\ store[u][t][h].last = h
    BY <1>1 DEF StoreInv
  <2>3. msgs' = msgs
    BY <1>2
  <2>4. CASE u = s /\ t = m.src /\ h = m.last
    BY <2>1, <2>3, <2>4
  <2>5. CASE ~(u = s /\ t = m.src /\ h = m.last)
    <3>1. store'[u][t][h] = store[u][t][h]
      BY <2>1, <2>5
    <3> QED BY <2>2, <2>3, <3>1
  <2> QED BY <2>4, <2>5
<1>12. ASSUME step[s] \in {"leader-vote", "leader-wait"}
       PROVE  Agrees(fin, last, view[s]) /\ view[s] # 0
  <2>1. view[s] # 0 /\ step[s] # "crashed"
    <3>1. view[s] >= 1
      BY <1>1, <1>12 DEF StepInv
    <3> QED BY <1>4, <1>12, <3>1
  <2> SUFFICES ASSUME NEW t \in Shard
               PROVE  IF fin[t] = NoCSM THEN last[t] = view[s] - 1
                      ELSE last[t] = view[s] /\ fin[t].for = view[s] /\ fin[t].src = t
    BY <2>1 DEF Agrees
  <2>2. IF finished[s][t] = NoCSM THEN lastHash[s][t] = view[s] - 1
        ELSE /\ lastHash[s][t] = view[s]
             /\ finished[s][t].for = view[s] /\ finished[s][t].src = t
    BY <1>1, <2>1 DEF LeaderInv, FinishedInv
  <2>3. CASE ext /\ t = m.src
    <3>1. finished[s][t] = NoCSM /\ lastHash[s][t] = m.last
      BY <2>3 DEF extends
    <3>2. fin[t] = m /\ last[t] = m.for /\ m # NoCSM
      BY <1>3, <1>8, <2>3, NoCSMAssumption
    <3>3. m.for = view[s]
      BY <1>3, <1>4, <2>2, <3>1
    <3> HIDE DEF fin, last, ext
    <3> QED BY <2>3, <3>2, <3>3
  <2>4. CASE ~(ext /\ t = m.src)
    <3>1. fin[t] = finished[s][t] /\ last[t] = lastHash[s][t]
      BY <1>8, <2>4
    <3> HIDE DEF fin, last, ext
    <3> QED BY <2>2, <3>1
  <2> QED BY <2>3, <2>4
<1> HIDE DEF ext, fin, last
<1>13. CASE step[s] = "" /\ crash(s)
  <2>1. OwnTypes' /\ PoolInv' /\ LeaderInv'
    BY <1>1, <1>9, <1>13, AfterCrash
  <2> QED BY <1>7, <1>10, <1>11, <2>1, TypeParts, PTL DEF LockStepInv, LeaderInv
<1>14. CASE /\ step[s] = "leader-vote"
            /\ finished' = [finished EXCEPT ![s] = fin]
            /\ UNCHANGED <<step, view, j_1finished, pool, j_1_txs, j_2_txs, executed>>
  <2>1. OwnTypes'
    BY <1>1, <1>6, <1>14 DEF OwnTypes
  <2>2. PoolInv'
    BY <1>1, <1>14 DEF PoolInv, fetch_block
  <2>3. StepInv' /\ KnowledgeInv' /\ OwnInv' /\ BarrierInv'
    BY <1>1, <1>9, <1>14 DEF LeaderInv, StepInv, KnowledgeInv, OwnInv, BarrierInv, Certified
  <2>4. FinishedInv'
    <3> SUFFICES ASSUME NEW u \in Shard, NEW t \in Shard, step'[u] # "crashed"
                 PROVE  IF finished'[u][t] = NoCSM
                        THEN lastHash'[u][t] = IF view'[u] = 0 THEN 0 ELSE view'[u] - 1
                        ELSE /\ lastHash'[u][t] = view'[u]
                             /\ finished'[u][t].for = view'[u]
                             /\ finished'[u][t].src = t
      BY DEF FinishedInv
    <3>1. CASE u = s
      <4>1. finished'[u] = fin /\ lastHash'[u] = last /\ view'[u] = view[s]
        BY <1>1, <1>5, <1>14, <3>1 DEF OwnTypes, SharedTypes
      <4> QED BY <1>12, <1>14, <4>1 DEF Agrees
    <3>2. CASE u # s
      <4>1. /\ finished'[u] = finished[u] /\ lastHash'[u] = lastHash[u]
            /\ view'[u] = view[u] /\ step'[u] = step[u]
        BY <1>1, <1>9, <1>14, <3>2 DEF OwnTypes
      <4> QED BY <1>1, <4>1 DEF LeaderInv, FinishedInv
    <3> QED BY <3>1, <3>2
  <2> QED BY <1>7, <1>10, <1>11, <2>1, <2>2, <2>3, <2>4, TypeParts, PTL DEF LockStepInv
<1>15. CASE step[s] = "leader-wait" /\ leader_wait(s, fin)
  <2>1. view[s] >= 1 /\ view[s] <= MaxView /\ lastHash[s][s] = view[s]
    BY <1>1, <1>15 DEF StepInv, Certified
  <2>2. last[s] = view[s] /\ \A t \in Shard : t # s => last[t] <= lastHash[t][t]
    <3>1. lastHash'[s] = last
      BY <1>1, <1>5 DEF SharedTypes
    <3> QED BY <1>9, <2>1, <3>1
  <2>3. OwnTypes' /\ PoolInv' /\ LeaderInv'
    <3>1. lastHash \in [Shard -> [Shard -> View]]
      BY <1>1 DEF SharedTypes
    <3>2. 1 <= view[s]
      BY <1>4, <2>1
    <3> QED BY <1>1, <1>5, <1>6, <1>12, <1>15, <2>1, <2>2, <3>1, <3>2, AfterWait
  <2> QED BY <1>7, <1>10, <1>11, <2>3, TypeParts, PTL DEF LockStepInv, LeaderInv
<1> QED BY <1>2, <1>13, <1>14, <1>15

-----------------------------------------------------------------------------
\* The initial state satisfies the invariant.
LEMMA InitLockStep == Init => LockStepInv
<1> SUFFICES ASSUME Init PROVE LockStepInv
  OBVIOUS
<1>1. 0 \in View
  BY MaxViewAssumption DEF View
<1>2. TypeOK
  <2>1. OwnTypes
    <3>1. <<>> \in Seq(Block)
      OBVIOUS
    <3> QED BY <1>1, <3>1 DEF Init, OwnTypes, CSMap
  <2>2. SharedTypes
    BY <1>1 DEF Init, SharedTypes
  <2> QED BY <2>1, <2>2, TypeParts
<1>3. StepInv /\ PoolInv /\ MessageInv /\ StoreInv
  BY DEF Init, StepInv, PoolInv, MessageInv, StoreInv
<1>4. FinishedInv /\ KnowledgeInv /\ OwnInv /\ BarrierInv
  <2>1. \A s, t \in Shard : /\ view[s] = 0 /\ lastHash[s][t] = 0
                            /\ finished[s][t] = NoCSM
    BY DEF Init
  <2>2. FinishedInv
    BY <2>1 DEF FinishedInv
  <2>3. KnowledgeInv /\ OwnInv /\ BarrierInv
    BY <2>1 DEF KnowledgeInv, OwnInv, BarrierInv, Certified
  <2> QED BY <2>2, <2>3
<1> QED BY <1>2, <1>3, <1>4 DEF LockStepInv

\* Every handler, and stuttering, preserves the invariant.
LEMMA NextLockStep == LockStepInv /\ [Next]_vars => LockStepInv'
<1> SUFFICES ASSUME LockStepInv, [Next]_vars PROVE LockStepInv'
  OBVIOUS
<1>1. CASE UNCHANGED vars
  <2>1. /\ step' = step /\ view' = view /\ lastHash' = lastHash /\ finished' = finished
        /\ j_1finished' = j_1finished /\ store' = store /\ pool' = pool
        /\ j_1_txs' = j_1_txs /\ j_2_txs' = j_2_txs /\ executed' = executed /\ msgs' = msgs
    BY <1>1 DEF vars
  <2>2. TypeOK'
    BY <2>1 DEF LockStepInv, TypeOK
  <2>3. StepInv' /\ PoolInv'
    BY <2>1 DEF LockStepInv, StepInv, PoolInv, Certified, fetch_block
  <2>4. MessageInv'
    BY <2>1 DEF LockStepInv, MessageInv, Certified
  <2>5. StoreInv'
    BY <2>1, StoreFrame DEF LockStepInv
  <2>6. FinishedInv'
    BY <2>1 DEF LockStepInv, FinishedInv
  <2>7. KnowledgeInv' /\ OwnInv' /\ BarrierInv'
    BY <2>1 DEF LockStepInv, KnowledgeInv, OwnInv, BarrierInv, Certified
  <2> QED BY <2>2, <2>3, <2>4, <2>5, <2>6, <2>7 DEF LockStepInv
<1>2. ASSUME NEW s \in Shard, Start(s) PROVE LockStepInv'
  BY <1>2, StartStep
<1>3. ASSUME NEW s \in Shard, Quorum(s) PROVE LockStepInv'
  BY <1>3, QuorumStep
<1>4. ASSUME NEW s \in Shard, NEW m \in msgs, ReceiveCSM(s, m) PROVE LockStepInv'
  BY <1>4, ReceiveStep
<1> QED BY <1>1, <1>2, <1>3, <1>4 DEF Next

(***************************************************************************)
(* The lock-step invariant, the type invariant in it, holds in every       *)
(* reachable state, for every set of shards, every MaxView and any loss,   *)
(* duplication and reordering of CSMs.                                     *)
(***************************************************************************)
THEOREM LockStepCorrect == Spec => []LockStepInv
<1>1. Init => LockStepInv
  BY InitLockStep
<1>2. LockStepInv /\ [Next]_vars => LockStepInv'
  BY NextLockStep
<1> QED BY <1>1, <1>2, PTL DEF Spec

\* Two leaders are never more than one view apart (isCrossShardMessageComplete).
THEOREM ViewSkewCorrect == Spec => []ViewSkew
<1>1. LockStepInv => ViewSkew
  <2> SUFFICES ASSUME LockStepInv, NEW s \in Shard, NEW t \in Shard
               PROVE  view[s] <= view[t] + 1
    BY DEF ViewSkew
  <2>1. view[s] \in View /\ view[t] \in View /\ lastHash[t][t] \in View
    BY DEF LockStepInv, TypeOK
  <2>2. view[s] <= lastHash[t][t] + 1 /\ lastHash[t][t] <= view[t]
    BY DEF LockStepInv, BarrierInv, OwnInv, Certified
  <2> QED BY <2>1, <2>2, ViewInt
<1> QED BY <1>1, LockStepCorrect, PTL

-----------------------------------------------------------------------------
(* The leaders implement the barrier LockStep. *)

\* What a step does to the abstract state: it moves one shard s by one of the
\* three abstract actions, or leaves the abstract state alone.
Moves(s) == /\ \A t \in Shard : t # s => view'[t] = view[t] /\ lastHash'[t][t] = lastHash[t][t]
            /\ \/ view'[s] = view[s] /\ lastHash'[s][s] = lastHash[s][s]
               \/ view'[s] = view[s] /\ lastHash'[s][s] = lastHash[s][s] + 1
               \/ view'[s] = view[s] + 1 /\ lastHash'[s][s] = lastHash[s][s]
               \/ /\ lastHash[s][s] = view[s] - 1
                  /\ view'[s] = view[s] + 1 /\ lastHash'[s][s] = lastHash[s][s] + 1

\* Moves is an abstract step, because the invariant holds before and after it.
LEMMA MovesRefine ==
    ASSUME LockStepInv, LockStepInv', NEW s \in Shard, Moves(s)
    PROVE  [Abstract!Next]_(Abstract!vars)
<1>1. /\ view \in [Shard -> View] /\ view' \in [Shard -> View]
      /\ \A t \in Shard : lastHash[t][t] \in View /\ lastHash'[t][t] \in View
  <2>1. OwnTypes /\ SharedTypes /\ OwnTypes' /\ SharedTypes'
    BY TypeParts, PTL DEF LockStepInv
  <2> QED BY <2>1 DEF OwnTypes, SharedTypes
<1>2. \A t \in Shard : /\ view[t] \in Int /\ view'[t] \in Int
                       /\ lastHash[t][t] \in Int /\ lastHash'[t][t] \in Int
  BY <1>1, ViewInt
<1>3. \A t \in Shard : lastHash[t][t] <= view[t] /\ view[t] <= lastHash[t][t] + 1
  BY DEF LockStepInv, OwnInv, Certified
<1>4. \A t \in Shard : lastHash'[t][t] <= view'[t] /\ view'[t] <= lastHash'[t][t] + 1
  BY DEF LockStepInv, OwnInv, Certified
<1>5. \A t \in Shard : view'[s] <= lastHash'[t][t] + 1
  BY DEF LockStepInv, BarrierInv, Certified
<1>6. \A t \in Shard : t # s => view'[t] = view[t] /\ lastHash'[t][t] = lastHash[t][t]
  BY DEF Moves
<1> DEFINE c == [t \in Shard |-> lastHash[t][t]]
           d == [t \in Shard |-> lastHash'[t][t]]
<1>7. CASE view'[s] = view[s] /\ lastHash'[s][s] = lastHash[s][s]
  <2>1. view' = view /\ d = c
    BY <1>1, <1>6, <1>7
  <2> QED BY <2>1 DEF Abstract!vars, Certified
<1>8. CASE view'[s] = view[s] /\ lastHash'[s][s] = lastHash[s][s] + 1
  <2>1. view' = view /\ d = [c EXCEPT ![s] = c[s] + 1]
    <3>1. view' = view
      BY <1>1, <1>6, <1>8
    <3>2. d = [c EXCEPT ![s] = c[s] + 1]
      BY <1>6, <1>8
    <3> QED BY <3>1, <3>2
  <2>2. c[s] = view[s] - 1
    BY <1>2, <1>3, <1>4, <1>8
  <2>3. Abstract!Certify(s)
    BY <2>1, <2>2 DEF Abstract!Certify, Certified
  <2> QED BY <2>3 DEF Abstract!Next
<1>9. CASE view'[s] = view[s] + 1 /\ lastHash'[s][s] = lastHash[s][s]
  <2>1. d = c /\ view' = [view EXCEPT ![s] = view[s] + 1]
    BY <1>1, <1>6, <1>9
  <2>2. c[s] = view[s]
    BY <1>2, <1>3, <1>4, <1>9
  <2>3. \A t \in Shard : c[t] >= view[s]
    <3> SUFFICES ASSUME NEW t \in Shard PROVE lastHash[t][t] >= view[s]
      OBVIOUS
    <3>1. lastHash'[t][t] = lastHash[t][t]
      BY <1>6, <1>9
    <3> QED BY <1>2, <1>5, <1>9, <3>1
  <2>4. Abstract!Propose(s)
    BY <2>1, <2>2, <2>3 DEF Abstract!Propose, Certified
  <2> QED BY <2>4 DEF Abstract!Next
<1>10. CASE /\ lastHash[s][s] = view[s] - 1
            /\ view'[s] = view[s] + 1 /\ lastHash'[s][s] = lastHash[s][s] + 1
  <2>1. /\ d = [c EXCEPT ![s] = c[s] + 1]
        /\ view' = [view EXCEPT ![s] = view[s] + 1]
    BY <1>1, <1>6, <1>10
  <2>2. c[s] = view[s] - 1
    BY <1>10
  <2>3. \A t \in Shard \ {s} : c[t] >= view[s]
    <3> SUFFICES ASSUME NEW t \in Shard \ {s} PROVE lastHash[t][t] >= view[s]
      OBVIOUS
    <3>1. lastHash'[t][t] = lastHash[t][t]
      BY <1>6
    <3> QED BY <1>2, <1>5, <1>10, <3>1
  <2>4. Abstract!CertifyAndPropose(s)
    BY <2>1, <2>2, <2>3 DEF Abstract!CertifyAndPropose, Certified
  <2> QED BY <2>4 DEF Abstract!Next
<1> QED BY <1>7, <1>8, <1>9, <1>10 DEF Moves

\* Every handler moves one shard by an abstract step, or none.
LEMMA HandlersMove ==
    ASSUME LockStepInv, NEW s \in Shard,
           Start(s) \/ Quorum(s) \/ \E m \in msgs : ReceiveCSM(s, m)
    PROVE  Moves(s)
<1>1. OwnTypes /\ SharedTypes /\ PoolInv /\ MessageInv /\ StepInv
  BY TypeParts DEF LockStepInv
<1>2. /\ view[s] \in Int /\ lastHash[s][s] \in Int /\ finished[s] \in CSMap
      /\ MaxView \in Int /\ 0 <= MaxView
  <2>1. view[s] \in View /\ lastHash[s][s] \in View /\ finished[s] \in CSMap
    BY <1>1 DEF OwnTypes, SharedTypes
  <2> QED BY <2>1, ViewInt, MaxViewAssumption
<1>3. ASSUME Crashed(s) \/ Advanced(s) \/ \E fin : Waiting(s, fin)
      PROVE  /\ view'[s] \in {view[s], view[s] + 1}
             /\ \A t \in Shard : t # s => view'[t] = view[t]
  BY <1>1, <1>3 DEF Crashed, Advanced, Waiting, OwnTypes
<1>4. CASE Start(s)
  <2>1. doPropose(s, finished[s], "leader-vote") /\ lastHash' = lastHash /\ view[s] = 0
    BY <1>1, <1>4 DEF Start, StepInv
  <2>2. Crashed(s) \/ Advanced(s)
    BY <1>1, <1>2, <2>1, ProposeEffect
  <2> QED BY <1>3, <2>1, <2>2 DEF Moves
<1>5. CASE Quorum(s)
  <2>1. step[s] = "leader-vote"
    BY <1>5 DEF Quorum
  <2>2. lastHash[s][s] = view[s] - 1 /\ view[s] <= MaxView
    BY <1>1, <2>1 DEF StepInv, Certified
  <2>3. CASE ~communicate_safe(pool[s], j_2_txs[s])
    <3>1. crash(s) /\ lastHash' = lastHash
      BY <1>5, <2>3 DEF Quorum
    <3> QED BY <3>1 DEF Moves, crash
  <2>4. CASE communicate_safe(pool[s], j_2_txs[s])
    <3> DEFINE ext == [t \in Shard |-> IF t = s THEN make_csm(s, s)
                         ELSE IF t # s /\ redo_CrossShardMessage(s, t) # NoCSM
                              THEN redo_CrossShardMessage(s, t)
                              ELSE finished[s][t]]
    <3>1. /\ leader_wait(s, ext)
          /\ lastHash' = [lastHash EXCEPT ![s] = [t \in Shard |->
                 IF t = s \/ (t # s /\ redo_CrossShardMessage(s, t) # NoCSM)
                 THEN ext[t].for ELSE lastHash[s][t]]]
      BY <1>1, <1>5, <2>4 DEF Quorum, SharedTypes
    <3>2. lastHash'[s][s] = view[s] /\ \A t \in Shard : t # s => lastHash'[t] = lastHash[t]
      <4>1. make_csm(s, s).for = view[s]
        BY <1>1, <2>1, MakeCSM
      <4> QED BY <1>1, <3>1, <4>1 DEF SharedTypes
    <3>3. ext \in CSMap
      <4>1. \A t \in Shard : t # s /\ redo_CrossShardMessage(s, t) # NoCSM =>
                             redo_CrossShardMessage(s, t) \in CrossShardMessage
        BY <2>1, RedoIsCurrent
      <4>2. make_csm(s, s) \in CrossShardMessage
        BY <1>1, <2>1, MakeCSM
      <4> QED BY <1>2, <4>1, <4>2 DEF CSMap
    <3> HIDE DEF ext
    <3>4. Crashed(s) \/ Advanced(s) \/ Waiting(s, ext)
      BY <1>1, <2>2, <3>1, <3>3, WaitEffect
    <3>5. /\ view'[s] \in {view[s], view[s] + 1}
          /\ \A t \in Shard : t # s => view'[t] = view[t]
      BY <1>3, <3>4
    <3>6. lastHash'[s][s] = lastHash[s][s] + 1
      BY <1>2, <2>2, <3>2
    <3> QED BY <2>2, <3>2, <3>5, <3>6 DEF Moves
  <2> QED BY <2>3, <2>4
<1>6. ASSUME NEW m \in msgs, ReceiveCSM(s, m) PROVE Moves(s)
  <2>1. m.src \in Shard /\ m.src # s /\ m \in CrossShardMessage
    <3>1. m \in CrossShardMessage
      BY <1>1 DEF SharedTypes
    <3>2. m.src # m.dst /\ m.dst = s
      BY <1>1, <1>6 DEF MessageInv, ReceiveCSM
    <3> QED BY <3>1, <3>2 DEF CrossShardMessage
  <2>2. lastHash' = lastHash \/ lastHash' = [lastHash EXCEPT ![s][m.src] = m.for]
    BY <1>6 DEF ReceiveCSM
  <2>3. \A t \in Shard : lastHash'[t][t] = lastHash[t][t]
    <3>1. CASE lastHash' = lastHash
      BY <3>1
    <3>2. CASE lastHash' = [lastHash EXCEPT ![s][m.src] = m.for]
      <4>1. \A t, u \in Shard :
                lastHash'[t][u] = IF t = s /\ u = m.src THEN m.for ELSE lastHash[t][u]
        BY <1>1, <2>1, <3>2 DEF SharedTypes
      <4> QED BY <2>1, <4>1
    <3> QED BY <2>2, <3>1, <3>2
  <2> DEFINE fin == IF extends(s, m) THEN [finished[s] EXCEPT ![m.src] = m] ELSE finished[s]
  <2>4. \/ crash(s)
        \/ view' = view
        \/ step[s] = "leader-wait" /\ leader_wait(s, fin)
    BY <1>6 DEF ReceiveCSM
  <2>5. fin \in CSMap
    BY <1>2, <2>1 DEF CSMap
  <2> HIDE DEF fin
  <2>6. CASE crash(s) \/ view' = view
    BY <2>3, <2>6 DEF crash, Moves
  <2>7. CASE step[s] = "leader-wait" /\ leader_wait(s, fin)
    <3>1. view[s] <= MaxView
      BY <1>1, <2>7 DEF StepInv
    <3>2. Crashed(s) \/ Advanced(s) \/ Waiting(s, fin)
      BY <1>1, <2>5, <2>7, <3>1, WaitEffect
    <3>3. /\ view'[s] \in {view[s], view[s] + 1}
          /\ \A t \in Shard : t # s => view'[t] = view[t]
      BY <1>3, <3>2
    <3> QED BY <2>3, <3>3 DEF Moves
  <2> QED BY <2>4, <2>6, <2>7
<1> QED BY <1>4, <1>5, <1>6

\* The leaders implement the barrier: with view as proposed and the hash of a
\* shard's own CSMs as certified, every handler is a LockStep step or a stutter.
THEOREM RefinementCorrect == Spec => RefinesLockStep
<1>1. Init => Abstract!Init
  BY DEF Init, Abstract!Init, Certified
<1>2. LockStepInv /\ LockStepInv' /\ [Next]_vars => [Abstract!Next]_(Abstract!vars)
  <2> SUFFICES ASSUME LockStepInv, LockStepInv', [Next]_vars
               PROVE  [Abstract!Next]_(Abstract!vars)
    OBVIOUS
  <2>1. CASE UNCHANGED vars
    BY <2>1 DEF vars, Abstract!vars, Certified
  <2>2. CASE Next
    <3>1. PICK s \in Shard : Start(s) \/ Quorum(s) \/ \E m \in msgs : ReceiveCSM(s, m)
      BY <2>2 DEF Next
    <3>2. Moves(s)
      BY <3>1, HandlersMove
    <3> QED BY <3>2, MovesRefine
  <2> QED BY <2>1, <2>2
<1> QED BY <1>1, <1>2, LockStepCorrect, PTL DEF Spec, RefinesLockStep, Abstract!Spec

(***************************************************************************)
(* The contents of the blocks.                                             *)
(***************************************************************************)

\* The CI, the outputs and the block that view v of any shard has or refers to.
CIOf(v)   == IF v >= 3 THEN [t \in Shard |-> v - 2] ELSE Nil
OptOf(v)  == IF v >= 3 THEN v - 2 ELSE 0
CtxsOf(v) == IF v >= 5 THEN [t \in Shard |-> v - 4] ELSE Nil
CCOf(v)   == IF v >= 5 THEN [t \in Shard |-> [hash |-> v - 2,
                                              brief |-> [u \in Shard |-> v - 4]]]
             ELSE Nil

BlockOf(v) == [view |-> v, last |-> v - 1, agg |-> v - 1, ci |-> CIOf(v),
               cc |-> CCOf(v), ctxs |-> CtxsOf(v), opt |-> OptOf(v)]

\* The pool p is the one of view v: the last seven blocks, none missing.
PoolOf(p, v) == /\ Len(p) = IF v < 7 THEN v ELSE 7
                /\ \A i \in 1 .. Len(p) : p[i] = BlockOf(v - Len(p) + i)

\* The message m carries what its round asks for.
CSMOf(m) == /\ m.last = m.for - 1
            /\ m.brief = IF m.for >= 4 THEN [t \in Shard |-> m.for - 3] ELSE Nil
            /\ m.opt   = IF m.for >= 4 THEN m.for - 3 ELSE 0
            /\ m.proof = IF m.for >= 4 THEN m.for - 1 ELSE 0

(***************************************************************************)
(* The inductive invariant.  The pool and the pending outputs of a leader  *)
(* are functions of its view, a CSM is a function of the view it is for,   *)
(* and within the start-up skew nothing is sent to a leader not started.   *)
(***************************************************************************)
PoolExact == \A s \in Shard : PoolOf(pool[s], view[s])

OutputsExact == \A s \in Shard :
    /\ j_1_txs[s] = OptOf(view[s])
    /\ j_2_txs[s] = IF view[s] >= 4 THEN view[s] - 3 ELSE 0
    /\ executed[s] = OptOf(view[s])

MessagesExact == \A m \in msgs : CSMOf(m)

FinishedExact == \A s, t \in Shard : finished[s][t] # NoCSM => CSMOf(finished[s][t])

SkewInv == StartSkewBounded /\ msgs # {} => \A t \in Shard : step[t] # ""

PipelineInv == /\ PoolExact
               /\ OutputsExact
               /\ MessagesExact
               /\ FinishedExact
               /\ SkewInv
               /\ NoCrash

-----------------------------------------------------------------------------
(* The block pool and the block of the next view. *)

\* append_block takes the pool of one view to the pool of the next, at its limit of
\* seven blocks too.
LEMMA AppendRound ==
    ASSUME NEW p \in Seq(Block), NEW v \in Nat, PoolOf(p, v), NEW b, b = BlockOf(v + 1)
    PROVE  PoolOf(append_block(p, b), v + 1)
<1> DEFINE n == Len(p)
           q == IF n = 7 THEN Tail(p) ELSE p
<1>0. /\ n \in Nat
      /\ n = IF v < 7 THEN v ELSE 7
      /\ \A i \in 1 .. n : p[i] = BlockOf(v - n + i)
      /\ p = <<>> => n = 0
      /\ Len(p) = n
  BY LenProperties DEF PoolOf
<1>1. p # <<>> => /\ Tail(p) \in Seq(Block) /\ Len(Tail(p)) = n - 1
                  /\ \A i \in 1 .. Len(Tail(p)) : Tail(p)[i] = p[i + 1]
  BY HeadTailProperties
<1> HIDE DEF n
<1>2. /\ q \in Seq(Block) /\ Len(q) = IF v < 7 THEN v ELSE 6
      /\ \A i \in 1 .. Len(q) : q[i] = BlockOf(v - Len(q) + i)
  <2>1. CASE n = 7
    <3>0. p # <<>> /\ n - 1 = 6 /\ q = Tail(p)
      BY <1>0, <2>1
    <3>1. /\ Tail(p) \in Seq(Block) /\ Len(Tail(p)) = 6
          /\ \A i \in 1 .. 6 : Tail(p)[i] = p[i + 1]
      BY <1>1, <3>0, Zenon
    <3>2. ASSUME NEW i \in 1 .. 6 PROVE p[i + 1] = BlockOf(v - 6 + i)
      <4>1. v - 7 + (i + 1) = v - 6 + i /\ i + 1 \in 1 .. n
        BY <2>1
      <4> QED BY <1>0, <2>1, <4>1
    <3>3. ~(v < 7)
      BY <1>0, <2>1
    <3> QED BY <3>0, <3>1, <3>2, <3>3
  <2>2. CASE n # 7
    <3>1. q = p /\ v < 7
      BY <1>0, <2>2
    <3> QED BY <1>0, <3>1
  <2> QED BY <2>1, <2>2
<1>3. append_block(p, b) = Append(q, b)
  BY <1>0 DEF append_block, PoolCap
<1> HIDE DEF q
<1>4. /\ Len(Append(q, b)) = Len(q) + 1
      /\ \A i \in 1 .. Len(q) : Append(q, b)[i] = q[i]
      /\ Append(q, b)[Len(q) + 1] = b
  <2>1. q \in Seq(Block \cup {b}) /\ b \in Block \cup {b}
    BY <1>2
  <2> QED BY <2>1, AppendProperties
<1>5. Len(q) \in Nat
  BY <1>2
<1>6. ASSUME NEW i \in 1 .. Len(Append(q, b))
      PROVE  Append(q, b)[i] = BlockOf(v + 1 - Len(Append(q, b)) + i)
  <2>1. v + 1 - Len(Append(q, b)) + i = v - Len(q) + i
    BY <1>4, <1>5
  <2>2. CASE i = Len(q) + 1
    <3>1. v - Len(q) + i = v + 1
      BY <2>2, <1>5
    <3> QED BY <2>1, <2>2, <3>1, <1>4
  <2>3. CASE i # Len(q) + 1
    <3>1. i \in 1 .. Len(q)
      BY <2>3, <1>4, <1>5
    <3> QED BY <2>1, <3>1, <1>2, <1>4
  <2> QED BY <2>2, <2>3
<1>7. Len(Append(q, b)) = IF v + 1 < 7 THEN v + 1 ELSE 7
  BY <1>2, <1>4
<1> DEFINE r == Append(q, b)
<1>8. Len(r) = (IF v + 1 < 7 THEN v + 1 ELSE 7) /\ append_block(p, b) = r
  BY <1>3, <1>7
<1>9. \A i \in 1 .. Len(r) : r[i] = BlockOf(v + 1 - Len(r) + i)
  BY <1>6
<1> HIDE DEF r
<1>10. PoolOf(r, v + 1)
  BY <1>8, <1>9 DEF PoolOf
<1> QED BY <1>8, <1>10

\* fetch_block(1) and fetch_block(2) are the blocks of the view and of the one before.
LEMMA FetchRound ==
    ASSUME NEW p \in Seq(Block), NEW v \in Nat, PoolOf(p, v)
    PROVE  /\ Len(p) = IF v < 7 THEN v ELSE 7
           /\ v >= 1 => fetch_block(p, 1) = BlockOf(v)
           /\ v >= 2 => fetch_block(p, 2) = BlockOf(v - 1)
<1>1. /\ Len(p) \in Nat /\ Len(p) = IF v < 7 THEN v ELSE 7
      /\ \A i \in 1 .. Len(p) : p[i] = BlockOf(v - Len(p) + i)
  BY LenProperties DEF PoolOf
<1>2. ASSUME NEW k \in {1, 2}, v >= k PROVE fetch_block(p, k) = BlockOf(v + 1 - k)
  <2>1. Len(p) + 1 - k \in 1 .. Len(p)
    BY <1>1, <1>2
  <2>2. v - Len(p) + (Len(p) + 1 - k) = v + 1 - k
    BY <1>1
  <2> QED BY <1>1, <2>1, <2>2 DEF fetch_block
<1>3. v + 1 - 1 = v /\ v + 1 - 2 = v - 1
  OBVIOUS
<1> QED BY <1>1, <1>2, <1>3

\* A brief of every shard is not nil, because there is a shard.
LEMMA BriefNotNil == \A s \in Shard : \A n : [t \in Shard |-> n] # Nil
<1> SUFFICES ASSUME NEW s \in Shard, NEW n, [t \in Shard |-> n] = <<>> PROVE FALSE
  BY DEF Nil
<1>1. DOMAIN [t \in Shard |-> n] = Shard
  OBVIOUS
<1>2. DOMAIN <<>> = {}
  OBVIOUS
<1> QED BY <1>1, <1>2

\* With the CSMs of view v, make_block meets no nil pointer and makes exactly the
\* block of view v + 1; at view 0 it needs no CSM.
LEMMA NextBlock ==
    ASSUME NEW s \in Shard, NEW v \in Nat, NEW p \in Seq(Block), PoolOf(p, v), NEW fin,
           v >= 1 => \A t \in Shard : fin[t] # NoCSM /\ fin[t].for = v /\ CSMOf(fin[t])
    PROVE  /\ make_block_safe(s, p, fin)
           /\ commit_and_execution_j_2(p) = OptOf(v + 1)
           /\ make_block(s, v + 1, p, fin, commit_and_execution_j_2(p)) = BlockOf(v + 1)
<1> DEFINE n   == Len(p)
           opt == commit_and_execution_j_2(p)
<1>1. /\ n \in Nat /\ n = IF v < 7 THEN v ELSE 7
      /\ n >= 1 <=> v >= 1
      /\ n >= 2 <=> v >= 2
      /\ n >= 4 <=> v >= 4
  <2>1. n \in Nat /\ n = IF v < 7 THEN v ELSE 7
    BY FetchRound, LenProperties
  <2> HIDE DEF n
  <2> QED BY <2>1
<1>2. /\ v >= 1 => fetch_block(p, 1) = BlockOf(v)
      /\ v >= 2 => fetch_block(p, 2) = BlockOf(v - 1)
  BY FetchRound
<1>3. /\ has_block(p, 1) <=> v >= 1
      /\ has_block(p, 2) <=> v >= 2
  BY <1>1 DEF has_block
<1> HIDE DEF n
<1>4. \A t \in Shard : v >= 1 =>
          /\ fin[t] # NoCSM /\ fin[t].for = v /\ fin[t].last = v - 1
          /\ v >= 4 => fin[t].brief = [u \in Shard |-> v - 3] /\ fin[t].opt = v - 3
  BY DEF CSMOf
<1>5. make_block_safe(s, p, fin)
  <2>1. v >= 4 => \A t \in Shard : fin[t].brief # Nil
    <3> SUFFICES ASSUME v >= 4, NEW t \in Shard PROVE fin[t].brief # Nil
      OBVIOUS
    <3>1. fin[t].brief = [u \in Shard |-> v - 3]
      BY <1>4
    <3> QED BY <3>1, BriefNotNil
  <2>2. /\ n >= 1 => fin[s] # NoCSM
        /\ n >= 2 => \A t \in Shard : fin[t] # NoCSM
        /\ n >= 4 => \A t \in Shard : fin[t].brief # Nil
    BY <1>1, <1>4, <2>1
  <2> QED BY <2>2 DEF make_block_safe, n
<1>6. opt = OptOf(v + 1)
  <2>1. CASE v >= 2
    <3>1. fetch_block(p, 2).view = v - 1
      BY <1>2, <2>1 DEF BlockOf
    <3> QED BY <1>3, <2>1, <3>1 DEF commit_and_execution_j_2, OptOf
  <2>2. CASE ~(v >= 2)
    BY <1>3, <2>2 DEF commit_and_execution_j_2, OptOf
  <2> QED BY <2>1, <2>2
<1> HIDE DEF opt
<1> DEFINE last == IF has_block(p, 1) THEN fetch_block(p, 1).view ELSE 0
           agg  == IF n >= 1 THEN fin[s].for ELSE 0
           ci   == IF n >= 2 THEN [t \in Shard |-> fin[t].last] ELSE Nil
           cc   == IF n >= 4
                   THEN [t \in Shard |-> [hash |-> fin[t].last, brief |-> fin[t].brief]]
                   ELSE Nil
           ctxs == IF n >= 4 THEN [t \in Shard |-> fin[t].opt] ELSE Nil
<1>7. last = v /\ agg = v
  <2>1. CASE v >= 1
    <3>1. fetch_block(p, 1).view = v
      BY <1>2, <2>1 DEF BlockOf
    <3> QED BY <1>1, <1>3, <1>4, <2>1, <3>1
  <2>2. CASE ~(v >= 1)
    BY <1>1, <1>3, <2>2
  <2> QED BY <2>1, <2>2
<1>8. ci = CIOf(v + 1)
  <2>1. CASE v >= 2
    <3>1. \A t \in Shard : fin[t].last = (v + 1) - 2
      BY <1>4, <2>1
    <3> QED BY <1>1, <2>1, <3>1 DEF CIOf
  <2>2. CASE ~(v >= 2)
    BY <1>1, <2>2 DEF CIOf
  <2> QED BY <2>1, <2>2
<1>9. cc = CCOf(v + 1) /\ ctxs = CtxsOf(v + 1)
  <2>1. CASE v >= 4
    <3>1. \A t \in Shard : /\ fin[t].last = (v + 1) - 2 /\ fin[t].opt = (v + 1) - 4
                           /\ fin[t].brief = [u \in Shard |-> (v + 1) - 4]
      <4>1. v - 3 = (v + 1) - 4 /\ v - 1 = (v + 1) - 2 /\ v >= 1
        BY <2>1
      <4> QED BY <1>4, <2>1, <4>1
    <3>2. v + 1 >= 5 /\ n >= 4
      BY <1>1, <2>1
    <3> QED BY <3>1, <3>2 DEF CCOf, CtxsOf
  <2>2. CASE ~(v >= 4)
    BY <1>1, <2>2 DEF CCOf, CtxsOf
  <2> QED BY <2>1, <2>2
<1>10. make_block(s, v + 1, p, fin, opt) =
         [view |-> v + 1, last |-> last, agg |-> agg, ci |-> ci, cc |-> cc,
          ctxs |-> ctxs, opt |-> opt]
  BY DEF make_block, n
<1>11. v = (v + 1) - 1
  OBVIOUS
<1> HIDE DEF last, agg, ci, cc, ctxs
<1>12. make_block(s, v + 1, p, fin, opt) = BlockOf(v + 1)
  BY <1>6, <1>7, <1>8, <1>9, <1>10, <1>11 DEF BlockOf
<1> QED BY <1>5, <1>6, <1>12 DEF opt

-----------------------------------------------------------------------------
(* The handlers. *)

\* The parts of the invariant that a handler of leader s restores when it proposes
\* or waits, and that it has not crashed.
Restored(s) == /\ PoolExact' /\ OutputsExact' /\ FinishedExact'
               /\ \A t \in Shard : t # s => step'[t] = step[t] /\ view'[t] = view[t]
               /\ step'[s] \in {"leader-vote", "leader-wait", "stopped"}

\* doPropose with the CSMs of the leader's view does not crash and keeps the pool,
\* the pending outputs and the finished CSMs exact.
LEMMA ProposeRound ==
    ASSUME OwnTypes, PipelineInv, NEW s \in Shard, NEW fin,
           view[s] >= 1 => \A t \in Shard :
               fin[t] # NoCSM /\ fin[t].for = view[s] /\ CSMOf(fin[t]),
           doPropose(s, fin, "leader-vote")
    PROVE  Restored(s)
<1> DEFINE v   == view[s]
           opt == commit_and_execution_j_2(pool[s])
           b   == make_block(s, v + 1, pool[s], fin, opt)
<1>1. /\ v \in Nat /\ pool[s] \in Seq(Block) /\ PoolOf(pool[s], v)
      /\ j_1_txs[s] = OptOf(v)
  <2>1. view[s] \in View /\ pool[s] \in Seq(Block)
    BY DEF OwnTypes
  <2> QED BY <2>1, ViewInt DEF PipelineInv, PoolExact, OutputsExact
<1>2. make_block_safe(s, pool[s], fin) /\ opt = OptOf(v + 1) /\ b = BlockOf(v + 1)
  <2> DEFINE p == pool[s]
  <2>1. /\ v \in Nat /\ p \in Seq(Block) /\ PoolOf(p, v)
        /\ v >= 1 => \A t \in Shard : fin[t] # NoCSM /\ fin[t].for = v /\ CSMOf(fin[t])
    BY <1>1
  <2> SUFFICES /\ make_block_safe(s, p, fin)
               /\ commit_and_execution_j_2(p) = OptOf(v + 1)
               /\ make_block(s, v + 1, p, fin, commit_and_execution_j_2(p)) = BlockOf(v + 1)
    OBVIOUS
  <2> HIDE DEF p, v
  <2> QED BY <2>1, NextBlock
<1>3. /\ executed' = [executed EXCEPT ![s] = IF opt = 0 THEN @ ELSE opt]
      /\ view'     = [view EXCEPT ![s] = v + 1]
      /\ finished' = [finished EXCEPT ![s] = [t \in Shard |-> NoCSM]]
      /\ j_2_txs'  = [j_2_txs EXCEPT ![s] = j_1_txs[s]]
      /\ j_1_txs'  = [j_1_txs EXCEPT ![s] = opt]
      /\ pool' = [pool EXCEPT ![s] = append_block(pool[s], b)]
      /\ step' = [step EXCEPT ![s] = IF v + 1 > MaxView THEN "stopped" ELSE "leader-vote"]
  BY <1>2 DEF doPropose
<1>4. PoolOf(append_block(pool[s], b), v + 1)
  BY <1>1, <1>2, AppendRound
<1> HIDE DEF b
<1>5. PoolExact'
  <2> SUFFICES ASSUME NEW u \in Shard PROVE PoolOf(pool'[u], view'[u])
    BY DEF PoolExact
  <2>1. pool \in [Shard -> Seq(Block)] /\ view \in [Shard -> View]
    BY DEF OwnTypes
  <2>2. CASE u = s
    BY <1>3, <1>4, <2>1, <2>2
  <2>3. CASE u # s
    BY <1>3, <2>1, <2>3 DEF PipelineInv, PoolExact
  <2> QED BY <2>2, <2>3
<1>6. OutputsExact'
  <2> SUFFICES ASSUME NEW u \in Shard
               PROVE  /\ j_1_txs'[u] = OptOf(view'[u])
                      /\ j_2_txs'[u] = IF view'[u] >= 4 THEN view'[u] - 3 ELSE 0
                      /\ executed'[u] = OptOf(view'[u])
    BY DEF OutputsExact
  <2>1. /\ view \in [Shard -> View] /\ j_1_txs \in [Shard -> View]
        /\ j_2_txs \in [Shard -> View] /\ executed \in [Shard -> View]
    BY DEF OwnTypes
  <2>2. CASE u = s
    <3>1. /\ j_1_txs'[s] = OptOf(v + 1) /\ view'[s] = v + 1 /\ j_2_txs'[s] = OptOf(v)
          /\ executed'[s] = IF opt = 0 THEN executed[s] ELSE opt
      BY <1>1, <1>2, <1>3, <2>1
    <3>2. executed[s] = OptOf(v)
      BY DEF PipelineInv, OutputsExact
    <3>3. OptOf(v + 1) = 0 => OptOf(v) = 0
      BY <1>1 DEF OptOf
    <3>4. OptOf(v) = IF v + 1 >= 4 THEN (v + 1) - 3 ELSE 0
      BY <1>1 DEF OptOf
    <3> HIDE DEF opt
    <3> QED BY <1>2, <2>2, <3>1, <3>2, <3>3, <3>4
  <2>3. CASE u # s
    <3>1. /\ j_1_txs'[u] = j_1_txs[u] /\ j_2_txs'[u] = j_2_txs[u]
          /\ view'[u] = view[u] /\ executed'[u] = executed[u]
      BY <1>3, <2>1, <2>3
    <3> QED BY <3>1 DEF PipelineInv, OutputsExact
  <2> QED BY <2>2, <2>3
<1>7. FinishedExact'
  <2> SUFFICES ASSUME NEW u \in Shard, NEW t \in Shard, finished'[u][t] # NoCSM
               PROVE  CSMOf(finished'[u][t])
    BY DEF FinishedExact
  <2>1. finished \in [Shard -> CSMap]
    BY DEF OwnTypes
  <2>2. u # s
    BY <1>3, <2>1
  <2>3. finished'[u] = finished[u]
    BY <1>3, <2>1, <2>2
  <2> QED BY <2>3 DEF PipelineInv, FinishedExact
<1>8. /\ \A t \in Shard : t # s => step'[t] = step[t] /\ view'[t] = view[t]
      /\ step'[s] \in {"leader-vote", "leader-wait", "stopped"}
  <2>1. DOMAIN step = Shard /\ DOMAIN view = Shard
    BY DEF OwnTypes
  <2> QED BY <1>3, <2>1
<1> QED BY <1>5, <1>6, <1>7, <1>8 DEF Restored

\* The tail of a handler, leader_wait, with CSMs of the leader's view in fin.
LEMMA WaitRound ==
    ASSUME OwnTypes, PipelineInv, NEW s \in Shard, NEW fin \in CSMap,
           \A t \in Shard : fin[t] # NoCSM => fin[t].for = view[s] /\ CSMOf(fin[t]),
           leader_wait(s, fin)
    PROVE  Restored(s)
<1>1. CASE isCrossShardMessageComplete(fin)
  <2>1. doPropose(s, fin, "leader-vote")
    BY <1>1 DEF leader_wait
  <2> QED BY <1>1, <2>1, ProposeRound DEF isCrossShardMessageComplete
<1>2. CASE ~isCrossShardMessageComplete(fin)
  <2>1. /\ finished' = [finished EXCEPT ![s] = fin]
        /\ step' = [step EXCEPT ![s] = "leader-wait"]
        /\ view' = view /\ pool' = pool /\ j_1_txs' = j_1_txs /\ j_2_txs' = j_2_txs
        /\ executed' = executed
    BY <1>2 DEF leader_wait
  <2>2. PoolExact' /\ OutputsExact'
    BY <2>1 DEF PipelineInv, PoolExact, OutputsExact
  <2>3. FinishedExact'
    <3> SUFFICES ASSUME NEW u \in Shard, NEW t \in Shard, finished'[u][t] # NoCSM
                 PROVE  CSMOf(finished'[u][t])
      BY DEF FinishedExact
    <3>1. finished \in [Shard -> CSMap]
      BY DEF OwnTypes
    <3>2. CASE u = s
      BY <2>1, <3>1, <3>2
    <3>3. CASE u # s
      <4>1. finished'[u] = finished[u]
        BY <2>1, <3>1, <3>3
      <4> QED BY <4>1 DEF PipelineInv, FinishedExact
    <3> QED BY <3>2, <3>3
  <2>4. /\ \A t \in Shard : t # s => step'[t] = step[t] /\ view'[t] = view[t]
        /\ step'[s] \in {"leader-vote", "leader-wait", "stopped"}
    <3>1. DOMAIN step = Shard
      BY DEF OwnTypes
    <3> QED BY <2>1, <3>1
  <2> QED BY <2>2, <2>3, <2>4 DEF Restored
<1> QED BY <1>1, <1>2

\* A handler that restores the parts and sends only exact CSMs, none while a leader
\* has not started and the skew is bounded, keeps the invariant.
LEMMA RestoredKeeps ==
    ASSUME OwnTypes, PipelineInv, NEW s \in Shard, Restored(s),
           \A m \in msgs' : CSMOf(m),
           StartSkewBounded /\ msgs' # {} => \A t \in Shard : t # s => step[t] # ""
    PROVE  PipelineInv'
<1>1. /\ PoolExact' /\ OutputsExact' /\ FinishedExact' /\ MessagesExact'
  BY DEF Restored, MessagesExact
<1>2. /\ step'[s] # "" /\ step'[s] # "crashed"
      /\ \A t \in Shard : t # s => step'[t] = step[t] /\ view'[t] = view[t]
  BY DEF Restored
<1>3. SkewInv'
  BY <1>2 DEF SkewInv
<1>4. NoCrash'
  <2> SUFFICES ASSUME NEW t \in Shard, step'[t] = "crashed"
               PROVE  view'[t] = 0 /\ ~StartSkewBounded
    BY DEF NoCrash
  <2>1. t # s /\ step[t] = "crashed"
    BY <1>2
  <2>2. view[t] = 0 /\ ~StartSkewBounded
    BY <2>1 DEF PipelineInv, NoCrash
  <2> QED BY <1>2, <2>1, <2>2
<1> QED BY <1>1, <1>3, <1>4 DEF PipelineInv

\* Start proposes the first block of all, which needs nothing.
LEMMA StartRound ==
    ASSUME LockStepInv, PipelineInv, NEW s \in Shard, Start(s)
    PROVE  PipelineInv'
<1>1. OwnTypes /\ StepInv
  BY TypeParts DEF LockStepInv
<1>2. step[s] = "" /\ doPropose(s, finished[s], "leader-vote") /\ msgs' = msgs
  BY DEF Start
<1>3. ~(view[s] >= 1)
  <2>1. view[s] = 0
    BY <1>1, <1>2 DEF StepInv
  <2> QED BY <2>1
<1>4. Restored(s)
  BY <1>1, <1>2, <1>3, ProposeRound
<1>5. /\ \A m \in msgs' : CSMOf(m)
      /\ StartSkewBounded /\ msgs' # {} => \A t \in Shard : t # s => step[t] # ""
  BY <1>2 DEF PipelineInv, MessagesExact, SkewInv
<1> QED BY <1>1, <1>4, <1>5, RestoredKeeps

\* CrossShardCommunicate finds the CI and the outputs it sends, and the CSM it makes is
\* the one of its round, with proofs that verify against the hash it extends.
LEMMA MakeRound ==
    ASSUME OwnTypes, PoolInv, StepInv, PipelineInv, NEW s \in Shard,
           step[s] = "leader-vote"
    PROVE  /\ communicate_safe(pool[s], j_2_txs[s])
           /\ \A t \in Shard : CSMOf(make_csm(s, t))
<1> DEFINE p == pool[s]
           v == view[s]
<1>1. v \in Nat /\ v >= 1 /\ p \in Seq(Block)
  <2>1. view[s] \in View /\ pool[s] \in Seq(Block) /\ view[s] >= 1
    BY DEF OwnTypes, StepInv
  <2> QED BY <2>1, ViewInt
<1>2. PoolOf(p, v) /\ j_2_txs[s] = IF v >= 4 THEN v - 3 ELSE 0
  BY DEF PipelineInv, PoolExact, OutputsExact
<1>3. /\ Len(p) = IF v < 7 THEN v ELSE 7
      /\ v >= 1 => fetch_block(p, 1) = BlockOf(v)
      /\ v >= 2 => fetch_block(p, 2) = BlockOf(v - 1)
  <2> HIDE DEF p, v
  <2> QED BY <1>1, <1>2, FetchRound
<1>4. Len(p) >= 4 <=> v >= 4
  <2> DEFINE n == Len(p)
  <2>1. n = IF v < 7 THEN v ELSE 7
    BY <1>3
  <2> HIDE DEF n, p, v
  <2>2. n >= 4 <=> v >= 4
    BY <1>1, <2>1
  <2> QED BY <2>2 DEF n
<1>5. v >= 4 => /\ fetch_block(p, 2).ci = [t \in Shard |-> v - 3]
                /\ fetch_block(p, 2).opt = v - 3 /\ fetch_block(p, 2).view = v - 1
  <2> SUFFICES ASSUME v >= 4
               PROVE  /\ fetch_block(p, 2).ci = [t \in Shard |-> v - 3]
                      /\ fetch_block(p, 2).opt = v - 3 /\ fetch_block(p, 2).view = v - 1
    OBVIOUS
  <2>1. /\ (v - 1) - 2 = v - 3 /\ v - 1 >= 3
        /\ fetch_block(p, 2) = BlockOf(v - 1)
    BY <1>1, <1>3
  <2> HIDE DEF p, v
  <2>2. CIOf(v - 1) = [t \in Shard |-> v - 3] /\ OptOf(v - 1) = v - 3
    BY <2>1 DEF CIOf, OptOf
  <2> QED BY <2>1, <2>2 DEF BlockOf
<1>6. communicate_safe(p, j_2_txs[s])
  <2> SUFFICES ASSUME v >= 4 PROVE fetch_block(p, 2).ci # Nil /\ j_2_txs[s] # 0
    BY <1>4 DEF communicate_safe
  <2>1. fetch_block(p, 2).ci # Nil
    BY <1>5, BriefNotNil
  <2>2. j_2_txs[s] # 0
    BY <1>1, <1>2
  <2> QED BY <2>1, <2>2
<1>7. ASSUME NEW t \in Shard PROVE CSMOf(make_csm(s, t))
  <2> DEFINE m == make_csm(s, t)
  <2>1. m.for = v /\ m.last = v - 1
    BY MakeCSM
  <2>2. /\ m.brief = IF v >= 4 THEN fetch_block(p, 2).ci ELSE Nil
        /\ m.opt = IF v >= 4 THEN j_2_txs[s] ELSE 0
        /\ m.proof = IF v >= 4 /\ fetch_block(p, 2).opt = j_2_txs[s]
                       THEN fetch_block(p, 2).view ELSE 0
    BY <1>4 DEF make_csm
  <2> HIDE DEF m, p, v
  <2>3. CSMOf(m)
    BY <1>2, <1>5, <2>1, <2>2 DEF CSMOf
  <2> QED BY <2>3 DEF m
<1> QED BY <1>6, <1>7

\* Quorum: what the leader sends and what it takes from its store are CSMs of its view.
LEMMA QuorumRound ==
    ASSUME LockStepInv, PipelineInv, NEW s \in Shard, Quorum(s)
    PROVE  PipelineInv'
<1> DEFINE redo(t)  == t # s /\ redo_CrossShardMessage(s, t) # NoCSM
           extended == [t \in Shard |-> IF t = s THEN make_csm(s, s)
                                        ELSE IF redo(t) THEN redo_CrossShardMessage(s, t)
                                        ELSE finished[s][t]]
<1>1. OwnTypes /\ SharedTypes /\ PoolInv /\ StepInv /\ StoreInv /\ FinishedInv
  BY TypeParts DEF LockStepInv
<1>2. /\ step[s] = "leader-vote"
      /\ StartSkewBounded => \A t \in Shard : step[t] # ""
  BY DEF Quorum
<1>3. communicate_safe(pool[s], j_2_txs[s]) /\ \A t \in Shard : CSMOf(make_csm(s, t))
  BY <1>1, <1>2, MakeRound
<1>4. \A t \in Shard : /\ make_csm(s, t) \in CrossShardMessage
                       /\ make_csm(s, t).for = view[s]
  BY <1>1, <1>2, MakeCSM
<1>5. /\ msgs' = msgs \cup {make_csm(s, t) : t \in Shard \ {s}}
      /\ leader_wait(s, extended)
  BY <1>3 DEF Quorum
<1>6. ASSUME NEW t \in Shard
      PROVE  /\ extended[t] \in CrossShardMessage \cup {NoCSM}
             /\ extended[t] # NoCSM => extended[t].for = view[s] /\ CSMOf(extended[t])
  <2>1. CASE t = s
    BY <1>3, <1>4, <2>1
  <2>2. CASE redo(t)
    <3> DEFINE r == redo_CrossShardMessage(s, t)
    <3>1. extended[t] = r
      BY <2>2
    <3>2. r \in CrossShardMessage /\ r.for = view[s]
      BY <1>2, <2>2, RedoIsCurrent
    <3>3. r \in msgs
      <4>1. lastHash[s][t] \in View
        BY <1>1 DEF SharedTypes
      <4> QED BY <1>1, <2>2, <4>1 DEF StoreInv, redo_CrossShardMessage
    <3>4. CSMOf(r)
      BY <3>3 DEF PipelineInv, MessagesExact
    <3> HIDE DEF r
    <3> QED BY <3>1, <3>2, <3>4
  <2>3. CASE t # s /\ ~redo(t)
    <3>1. extended[t] = finished[s][t] /\ finished[s][t] \in CrossShardMessage \cup {NoCSM}
      BY <1>1, <2>3 DEF OwnTypes, CSMap
    <3>2. finished[s][t] # NoCSM => finished[s][t].for = view[s]
      BY <1>1, <1>2 DEF FinishedInv
    <3>3. finished[s][t] # NoCSM => CSMOf(finished[s][t])
      BY DEF PipelineInv, FinishedExact
    <3> HIDE DEF extended
    <3> QED BY <3>1, <3>2, <3>3
  <2> QED BY <2>1, <2>2, <2>3
<1>7. extended \in CSMap
  BY <1>6 DEF CSMap
<1> HIDE DEF extended
<1>8. Restored(s)
  BY <1>1, <1>5, <1>6, <1>7, WaitRound
<1>9. \A m \in msgs' : CSMOf(m)
  BY <1>3, <1>5 DEF PipelineInv, MessagesExact
<1> QED BY <1>1, <1>2, <1>8, <1>9, RestoredKeeps

\* ReceiveCSM: a CSM that extends the hash the leader knows is the one of its view; only
\* a leader that has not started is killed, and within the skew there is none.
LEMMA ReceiveRound ==
    ASSUME LockStepInv, PipelineInv, NEW s \in Shard, NEW m \in msgs, ReceiveCSM(s, m)
    PROVE  PipelineInv'
<1> DEFINE ext == extends(s, m)
           fin == IF ext THEN [finished[s] EXCEPT ![m.src] = m] ELSE finished[s]
<1>1. /\ OwnTypes /\ SharedTypes /\ PoolInv /\ StepInv /\ StoreInv /\ FinishedInv
      /\ MessageInv
  BY TypeParts DEF LockStepInv
<1>2. /\ msgs' = msgs
      /\ \/ step[s] = "" /\ crash(s)
         \/ /\ step[s] = "leader-vote"
            /\ finished' = [finished EXCEPT ![s] = fin]
            /\ UNCHANGED <<step, view, pool, j_1_txs, j_2_txs, executed>>
         \/ step[s] = "leader-wait" /\ leader_wait(s, fin)
  BY DEF ReceiveCSM
<1>3. /\ m \in CrossShardMessage /\ m.src \in Shard /\ m.last \in Int /\ m.for = m.last + 1
      /\ CSMOf(m)
  <2>1. m \in CrossShardMessage /\ m.for = m.last + 1 /\ CSMOf(m)
    BY <1>1 DEF SharedTypes, MessageInv, PipelineInv, MessagesExact
  <2>2. m.src \in Shard /\ m.last \in View
    BY <2>1 DEF CrossShardMessage
  <2> QED BY <2>1, <2>2, ViewInt
<1>4. /\ finished \in [Shard -> CSMap] /\ finished[s] \in CSMap
      /\ fin \in CSMap
      /\ \A t \in Shard : fin[t] = IF ext /\ t = m.src THEN m ELSE finished[s][t]
  BY <1>1, <1>3 DEF OwnTypes, CSMap
<1>5. \A t \in Shard : finished[s][t] # NoCSM => CSMOf(finished[s][t])
  BY DEF PipelineInv, FinishedExact
<1>6. \A n \in msgs' : CSMOf(n)
  BY <1>2 DEF PipelineInv, MessagesExact
<1>7. CASE step[s] = "" /\ crash(s)
  <2>1. /\ step' = [step EXCEPT ![s] = "crashed"]
        /\ view' = view /\ finished' = finished /\ pool' = pool
        /\ j_1_txs' = j_1_txs /\ j_2_txs' = j_2_txs /\ executed' = executed
    BY <1>7 DEF crash
  <2>2. PoolExact' /\ OutputsExact' /\ MessagesExact' /\ FinishedExact'
    BY <1>2, <2>1 DEF PipelineInv, PoolExact, OutputsExact, MessagesExact, FinishedExact
  <2>3. ~StartSkewBounded /\ view[s] = 0
    BY <1>1, <1>7 DEF PipelineInv, SkewInv, StepInv
  <2>4. SkewInv'
    BY <2>3 DEF SkewInv
  <2>5. NoCrash'
    BY <1>1, <2>1, <2>3 DEF PipelineInv, NoCrash, OwnTypes
  <2> QED BY <2>2, <2>4, <2>5 DEF PipelineInv
<1>8. CASE /\ step[s] = "leader-vote"
           /\ finished' = [finished EXCEPT ![s] = fin]
           /\ UNCHANGED <<step, view, pool, j_1_txs, j_2_txs, executed>>
  <2>1. PoolExact' /\ OutputsExact' /\ MessagesExact' /\ SkewInv' /\ NoCrash'
    BY <1>2, <1>8 DEF PipelineInv, PoolExact, OutputsExact, MessagesExact, SkewInv, NoCrash
  <2>2. FinishedExact'
    <3> SUFFICES ASSUME NEW u \in Shard, NEW t \in Shard, finished'[u][t] # NoCSM
                 PROVE  CSMOf(finished'[u][t])
      BY DEF FinishedExact
    <3> HIDE DEF ext, fin
    <3>1. CASE u = s
      BY <1>3, <1>4, <1>5, <1>8, <3>1
    <3>2. CASE u # s
      <4>1. finished'[u] = finished[u]
        BY <1>4, <1>8, <3>2
      <4> QED BY <4>1 DEF PipelineInv, FinishedExact
    <3> QED BY <3>1, <3>2
  <2> QED BY <2>1, <2>2 DEF PipelineInv
<1>9. CASE step[s] = "leader-wait" /\ leader_wait(s, fin)
  <2>1. view[s] \in Int /\ view[s] >= 1
    <3>1. view[s] \in View /\ view[s] >= 1
      BY <1>1, <1>9 DEF OwnTypes, StepInv
    <3> QED BY <3>1, ViewInt
  <2>2. ASSUME NEW t \in Shard, fin[t] # NoCSM
        PROVE  fin[t].for = view[s] /\ CSMOf(fin[t])
    <3>1. CASE ext /\ t = m.src
      <4>1. finished[s][t] = NoCSM /\ lastHash[s][t] = m.last
        BY <3>1 DEF extends
      <4>2. lastHash[s][t] = view[s] - 1
        BY <1>1, <1>9, <2>1, <4>1 DEF FinishedInv
      <4>3. fin[t] = m
        BY <1>4, <3>1
      <4> HIDE DEF ext, fin
      <4> QED BY <1>3, <2>1, <4>1, <4>2, <4>3
    <3>2. CASE ~(ext /\ t = m.src)
      <4>1. fin[t] = finished[s][t]
        BY <1>4, <3>2
      <4>2. finished[s][t] # NoCSM => finished[s][t].for = view[s]
        BY <1>1, <1>9 DEF FinishedInv
      <4> HIDE DEF ext, fin
      <4> QED BY <1>5, <2>2, <4>1, <4>2
    <3> QED BY <3>1, <3>2
  <2>3. Restored(s)
    <3> HIDE DEF fin
    <3> QED BY <1>1, <1>4, <1>9, <2>2, WaitRound
  <2>4. StartSkewBounded /\ msgs' # {} => \A t \in Shard : t # s => step[t] # ""
    BY <1>2 DEF PipelineInv, SkewInv
  <2> QED BY <1>1, <1>6, <2>3, <2>4, RestoredKeeps
<1> QED BY <1>2, <1>7, <1>8, <1>9

-----------------------------------------------------------------------------
(* The theorems. *)

\* Initially there are no blocks, no messages and no outputs.
LEMMA InitPipeline == Init => PipelineInv
<1> SUFFICES ASSUME Init PROVE PipelineInv
  OBVIOUS
<1>1. PoolExact
  <2> SUFFICES ASSUME NEW s \in Shard PROVE PoolOf(pool[s], view[s])
    BY DEF PoolExact
  <2>1. pool[s] = <<>> /\ view[s] = 0
    BY DEF Init
  <2> QED BY <2>1 DEF PoolOf
<1>2. OutputsExact
  <2> SUFFICES ASSUME NEW s \in Shard
               PROVE  /\ j_1_txs[s] = OptOf(view[s])
                      /\ j_2_txs[s] = IF view[s] >= 4 THEN view[s] - 3 ELSE 0
                      /\ executed[s] = OptOf(view[s])
    BY DEF OutputsExact
  <2>1. j_1_txs[s] = 0 /\ j_2_txs[s] = 0 /\ executed[s] = 0 /\ view[s] = 0
    BY DEF Init
  <2>2. OptOf(0) = 0
    BY DEF OptOf
  <2> QED BY <2>1, <2>2
<1>3. MessagesExact /\ FinishedExact /\ SkewInv /\ NoCrash
  BY DEF Init, MessagesExact, FinishedExact, SkewInv, NoCrash
<1> QED BY <1>1, <1>2, <1>3 DEF PipelineInv

\* Every step of a leader keeps the invariant.
LEMMA NextPipeline == LockStepInv /\ PipelineInv /\ [Next]_vars => PipelineInv'
<1> SUFFICES ASSUME LockStepInv, PipelineInv, [Next]_vars PROVE PipelineInv'
  OBVIOUS
<1>1. CASE UNCHANGED vars
  BY <1>1 DEF vars, PipelineInv, PoolExact, OutputsExact, MessagesExact, FinishedExact,
              SkewInv, NoCrash
<1>2. CASE Next
  <2>1. PICK s \in Shard : Start(s) \/ Quorum(s) \/ \E m \in msgs : ReceiveCSM(s, m)
    BY <1>2 DEF Next
  <2> QED BY <2>1, StartRound, QuorumRound, ReceiveRound
<1> QED BY <1>1, <1>2

\* The pools, the pending outputs and the CSMs are always those of their views.
THEOREM PipelineCorrect == Spec => []PipelineInv
<1>1. Init => PipelineInv
  BY InitPipeline
<1>2. LockStepInv /\ PipelineInv /\ [Next]_vars => PipelineInv'
  BY NextPipeline
<1> QED BY <1>1, <1>2, LockStepCorrect, PTL DEF Spec

\* Every block of every pool carries the CSM data of exactly the documented rounds,
\* from every shard (make_block, append_block, CrossShardCommunicate).
THEOREM PipelineRoundsCorrect == Spec => []PipelineRounds
<1>1. PipelineInv => PipelineRounds
  <2> SUFFICES ASSUME PipelineInv, NEW s \in Shard, NEW i \in 1 .. Len(pool[s])
               PROVE  LET b == pool[s][i]
                          v == view[s] - Len(pool[s]) + i
                      IN  /\ b.view = v /\ b.last = v - 1 /\ b.agg = v - 1
                          /\ b.opt = IF v >= 3 THEN v - 2 ELSE 0
                          /\ b.ci  = IF v >= 3 THEN [t \in Shard |-> v - 2] ELSE Nil
                          /\ b.ctxs = IF v >= 5 THEN [t \in Shard |-> v - 4] ELSE Nil
                          /\ b.cc  = IF v >= 5
                                     THEN [t \in Shard |->
                                             [hash |-> v - 2, brief |-> [u \in Shard |-> v - 4]]]
                                     ELSE Nil
    BY DEF PipelineRounds
  <2> DEFINE v == view[s] - Len(pool[s]) + i
             b == pool[s][i]
  <2>1. b = BlockOf(v)
    BY DEF PipelineInv, PoolExact, PoolOf
  <2> HIDE DEF v, b
  <2>2. /\ b.view = v /\ b.last = v - 1 /\ b.agg = v - 1 /\ b.opt = OptOf(v)
        /\ b.ci = CIOf(v) /\ b.ctxs = CtxsOf(v) /\ b.cc = CCOf(v)
    BY <2>1 DEF BlockOf
  <2> QED BY <2>2 DEF OptOf, CIOf, CtxsOf, CCOf, v, b
<1> QED BY <1>1, PipelineCorrect, PTL

\* No leader that has started crashes, and none does within the start-up skew
\* (the thresholds on block_pool_size in make_block and CrossShardCommunicate).
THEOREM NoCrashCorrect == Spec => []NoCrash
<1>1. PipelineInv => NoCrash
  BY DEF PipelineInv
<1> QED BY <1>1, PipelineCorrect, PTL

-----------------------------------------------------------------------------
(* Action properties. *)

\* Where leader_wait leaves fin: in finished, or in j_1finished once it proposes.
LEMMA WaitKeeps ==
    ASSUME OwnTypes, NEW s \in Shard, NEW fin, leader_wait(s, fin)
    PROVE  /\ \A u \in Shard : u # s => view'[u] = view[u] /\ finished'[u] = finished[u]
           /\ IF view'[s] = view[s]
              THEN finished'[s] = fin \/ finished'[s] = finished[s]
              ELSE j_1finished'[s] = fin
<1>0. view \in [Shard -> View] /\ DOMAIN finished = Shard /\ DOMAIN j_1finished = Shard
  BY DEF OwnTypes
<1>1. CASE isCrossShardMessageComplete(fin) /\ make_block_safe(s, pool[s], fin)
  <2>1. /\ view' = [view EXCEPT ![s] = view[s] + 1]
        /\ j_1finished' = [j_1finished EXCEPT ![s] = fin]
        /\ finished' = [finished EXCEPT ![s] = [t \in Shard |-> NoCSM]]
    BY <1>1 DEF leader_wait, doPropose
  <2>2. view[s] + 1 # view[s]
    BY <1>0, ViewInt
  <2> QED BY <1>0, <2>1, <2>2
<1>2. CASE isCrossShardMessageComplete(fin) /\ ~make_block_safe(s, pool[s], fin)
  BY <1>2 DEF leader_wait, doPropose, crash
<1>3. CASE ~isCrossShardMessageComplete(fin)
  <2>1. finished' = [finished EXCEPT ![s] = fin] /\ view' = view
    BY <1>3 DEF leader_wait
  <2> QED BY <1>0, <2>1
<1> QED BY <1>1, <1>2, <1>3

\* A CSM that a leader has collected stays until the block made with it.
THEOREM FinishedKeptCorrect == Spec => FinishedKept
<1>1. LockStepInv /\ [Next]_vars =>
          [\A s, t \in Shard : finished[s][t] # NoCSM =>
              IF view'[s] = view[s] THEN finished'[s][t] = finished[s][t]
                                    ELSE j_1finished'[s][t] = finished[s][t]]_vars
  <2> SUFFICES ASSUME LockStepInv, Next, NEW u \in Shard, NEW t \in Shard,
                      finished[u][t] # NoCSM
               PROVE  IF view'[u] = view[u] THEN finished'[u][t] = finished[u][t]
                                            ELSE j_1finished'[u][t] = finished[u][t]
    OBVIOUS
  <2>0. /\ OwnTypes /\ SharedTypes /\ StepInv /\ FinishedInv
        /\ view \in [Shard -> View] /\ DOMAIN finished = Shard /\ DOMAIN j_1finished = Shard
    BY TypeParts DEF LockStepInv, OwnTypes
  <2>1. PICK s \in Shard : Start(s) \/ Quorum(s) \/ \E m \in msgs : ReceiveCSM(s, m)
    BY DEF Next
  <2>2. ASSUME NEW fin, leader_wait(s, fin),
               \A r \in Shard : finished[s][r] # NoCSM => fin[r] = finished[s][r]
        PROVE  IF view'[u] = view[u] THEN finished'[u][t] = finished[u][t]
                                     ELSE j_1finished'[u][t] = finished[u][t]
    BY <2>0, <2>2, WaitKeeps
  <2>3. CASE Start(s)
    <3>1. doPropose(s, finished[s], "leader-vote")
      BY <2>3 DEF Start
    <3>2. CASE make_block_safe(s, pool[s], finished[s])
      <4>1. /\ view' = [view EXCEPT ![s] = view[s] + 1]
            /\ j_1finished' = [j_1finished EXCEPT ![s] = finished[s]]
            /\ finished' = [finished EXCEPT ![s] = [r \in Shard |-> NoCSM]]
        BY <3>1, <3>2 DEF doPropose
      <4>2. view[s] + 1 # view[s]
        BY <2>0, ViewInt
      <4> QED BY <2>0, <4>1, <4>2
    <3>3. CASE ~make_block_safe(s, pool[s], finished[s])
      BY <3>1, <3>3 DEF doPropose, crash
    <3> QED BY <3>2, <3>3
  <2>4. CASE Quorum(s)
    <3> DEFINE redo(r)  == r # s /\ redo_CrossShardMessage(s, r) # NoCSM
               extended == [r \in Shard |-> IF r = s THEN make_csm(s, s)
                                            ELSE IF redo(r) THEN redo_CrossShardMessage(s, r)
                                            ELSE finished[s][r]]
    <3>1. step[s] = "leader-vote"
      BY <2>4 DEF Quorum
    <3>2. CASE ~communicate_safe(pool[s], j_2_txs[s])
      BY <2>4, <3>2 DEF Quorum, crash
    <3>3. CASE communicate_safe(pool[s], j_2_txs[s])
      <4>1. leader_wait(s, extended)
        BY <2>4, <3>3 DEF Quorum
      <4>2. finished[s][s] = NoCSM
        <5>1. view[s] \in Int
          BY <2>0, ViewInt
        <5>2. lastHash[s][s] = view[s] - 1
          BY <2>0, <3>1 DEF StepInv, Certified
        <5>3. finished[s][s] # NoCSM => lastHash[s][s] = view[s]
          BY <2>0, <3>1 DEF FinishedInv
        <5> QED BY <5>1, <5>2, <5>3
      <4>3. ASSUME NEW r \in Shard, finished[s][r] # NoCSM
            PROVE  extended[r] = finished[s][r]
        BY <3>1, <4>2, <4>3, RedoIsCurrent
      <4> HIDE DEF extended
      <4> QED BY <2>2, <4>1, <4>3
    <3> QED BY <3>2, <3>3
  <2>5. ASSUME NEW m \in msgs, ReceiveCSM(s, m)
        PROVE  IF view'[u] = view[u] THEN finished'[u][t] = finished[u][t]
                                     ELSE j_1finished'[u][t] = finished[u][t]
    <3> DEFINE fin == IF extends(s, m) THEN [finished[s] EXCEPT ![m.src] = m] ELSE finished[s]
    <3>1. \/ crash(s)
          \/ finished' = [finished EXCEPT ![s] = fin] /\ view' = view
          \/ leader_wait(s, fin)
      BY <2>5 DEF ReceiveCSM
    <3>2. ASSUME NEW r \in Shard, finished[s][r] # NoCSM
          PROVE  fin[r] = finished[s][r]
      BY <2>0, <3>2 DEF extends, OwnTypes, CSMap
    <3> HIDE DEF fin
    <3>3. CASE crash(s)
      BY <3>3 DEF crash
    <3>4. CASE finished' = [finished EXCEPT ![s] = fin] /\ view' = view
      BY <2>0, <3>2, <3>4
    <3>5. CASE leader_wait(s, fin)
      BY <2>2, <3>2, <3>5
    <3> QED BY <3>1, <3>3, <3>4, <3>5
  <2> QED BY <2>1, <2>3, <2>4, <2>5
<1> QED BY <1>1, LockStepCorrect, PTL DEF Spec, FinishedKept

\* A leader follows each shard's hash chain one certified block at a time: extendHash
\* from doMessage and from redo neither skips a CSM nor applies one twice.
THEOREM HashChainCorrect == Spec => HashChain
<1>1. LockStepInv /\ [Next]_vars =>
          [\A s, t \in Shard : lastHash'[s][t] \in {lastHash[s][t], lastHash[s][t] + 1}]_vars
  <2> SUFFICES ASSUME LockStepInv, Next, NEW u \in Shard, NEW t \in Shard
               PROVE  lastHash'[u][t] \in {lastHash[u][t], lastHash[u][t] + 1}
    OBVIOUS
  <2>0. /\ OwnTypes /\ SharedTypes /\ PoolInv /\ StepInv /\ FinishedInv /\ MessageInv
        /\ lastHash \in [Shard -> [Shard -> View]]
    BY TypeParts DEF LockStepInv, SharedTypes
  <2>1. PICK s \in Shard : Start(s) \/ Quorum(s) \/ \E m \in msgs : ReceiveCSM(s, m)
    BY DEF Next
  <2>2. view[s] \in Int
    <3>1. view[s] \in View
      BY <2>0 DEF OwnTypes
    <3> QED BY <3>1, ViewInt
  <2>3. CASE Start(s)
    BY <2>3 DEF Start
  <2>4. CASE Quorum(s)
    <3> DEFINE redo(r)  == r # s /\ redo_CrossShardMessage(s, r) # NoCSM
               extended == [r \in Shard |-> IF r = s THEN make_csm(s, s)
                                            ELSE IF redo(r) THEN redo_CrossShardMessage(s, r)
                                            ELSE finished[s][r]]
    <3>1. step[s] = "leader-vote"
      BY <2>4 DEF Quorum
    <3>2. CASE ~communicate_safe(pool[s], j_2_txs[s])
      BY <2>4, <3>2 DEF Quorum
    <3>3. CASE communicate_safe(pool[s], j_2_txs[s])
      <4>1. lastHash' = [lastHash EXCEPT ![s] =
               [r \in Shard |-> IF r = s \/ redo(r) THEN extended[r].for ELSE lastHash[s][r]]]
        BY <2>0, <2>4, <3>3 DEF Quorum
      <4>2. extended[s].for = view[s] /\ lastHash[s][s] = view[s] - 1
        <5>1. make_csm(s, s).for = view[s]
          BY <2>0, <3>1, MakeCSM
        <5> QED BY <2>0, <3>1, <5>1 DEF StepInv, Certified
      <4>3. ASSUME NEW r \in Shard, redo(r)
            PROVE  extended[r].for = view[s] /\ lastHash[s][r] = view[s] - 1
        <5>1. redo_CrossShardMessage(s, r).for = view[s] /\ finished[s][r] = NoCSM
          BY <3>1, <4>3, RedoIsCurrent
        <5>2. view[s] # 0
          <6>1. view[s] >= 1
            BY <2>0, <3>1 DEF StepInv
          <6> QED BY <2>2, <6>1
        <5>3. lastHash[s][r] = view[s] - 1
          BY <2>0, <3>1, <5>1, <5>2 DEF FinishedInv
        <5> QED BY <4>3, <5>1, <5>3
      <4>4. \A r \in Shard : r = s \/ redo(r) => extended[r].for = lastHash[s][r] + 1
        <5> HIDE DEF extended
        <5> QED BY <2>2, <4>2, <4>3
      <4> HIDE DEF extended, redo
      <4> QED BY <2>0, <4>1, <4>4
    <3> QED BY <3>2, <3>3
  <2>5. ASSUME NEW m \in msgs, ReceiveCSM(s, m)
        PROVE  lastHash'[u][t] \in {lastHash[u][t], lastHash[u][t] + 1}
    <3>1. lastHash' = IF extends(s, m) THEN [lastHash EXCEPT ![s][m.src] = m.for] ELSE lastHash
      BY <2>5 DEF ReceiveCSM
    <3>2. m.for = m.last + 1 /\ m.src \in Shard
      <4>1. m \in CrossShardMessage
        BY <2>0 DEF SharedTypes
      <4> QED BY <2>0, <4>1 DEF MessageInv, CrossShardMessage
    <3>3. CASE extends(s, m)
      <4>1. lastHash[s][m.src] = m.last
        BY <3>3 DEF extends
      <4> QED BY <2>0, <3>1, <3>2, <3>3, <4>1
    <3>4. CASE ~extends(s, m)
      BY <3>1, <3>4
    <3> QED BY <3>3, <3>4
  <2> QED BY <2>1, <2>3, <2>4, <2>5
<1> QED BY <1>1, LockStepCorrect, PTL DEF Spec, HashChain
=============================================================================
