----------------------------- MODULE UrdLeaders -----------------------------
(***************************************************************************)
(* The leaders of the Urd shards: the cross-shard half of urd/consensus.   *)
(*                                                                         *)
(* A shard's leader proposes one block per view.  When it has a quorum of  *)
(* votes for the block it sends every other leader a CrossShardMessage     *)
(* (CSM), and it proposes the next block once it holds a CSM of every      *)
(* shard (its own included) for the view it is in.  Blocks are pipelined:  *)
(* what a block says about other shards comes from the CSMs of the view    *)
(* before, and what it executes comes from blocks proposed earlier.        *)
(*                                                                         *)
(* Every handler runs under the process's stateLock, so one action here is *)
(* one whole handler.  Votes are abstracted to the event Quorum; a shard   *)
(* has one proposer and one block per view, so the hash of a shard's block *)
(* is its view, and 0 is the nil hash.  Likewise the output transactions   *)
(* of executing block v are the label v, and 0 is the empty list.          *)
(***************************************************************************)
EXTENDS BlockPool

CONSTANTS Shard,             \* the shards; s also names the leader of shard s
          MaxView,           \* a leader stops once its view exceeds this (100 in the code)
          NoCSM,             \* a missing entry of a map of CSMs
          StartSkewBounded   \* TRUE: every process starts within the 10 s sleep of view 1

ASSUME MaxViewAssumption == MaxView \in Nat \ {0}
ASSUME SkewAssumption == StartSkewBounded \in BOOLEAN

View == 0 .. (MaxView + 1)
Nil  == <<>>                                \* a nil slice or pointer

IntentionBrief == [Shard -> View] \cup {Nil}

CrossShardMessage ==
    [dst : Shard, src : Shard, last : View, for : View,
     brief : IntentionBrief, opt : View, proof : View]

ASSUME NoCSMAssumption == NoCSM \notin CrossShardMessage

CommitCertificate == [Shard -> [hash : View, brief : IntentionBrief]] \cup {Nil}

Block == [view : View, last : View, agg : View, ci : IntentionBrief,
          cc : CommitCertificate, ctxs : [Shard -> View] \cup {Nil}, opt : View]

VARIABLES
    step,         \* State.step, and "stopped"/"crashed" once the process is gone
    view,         \* HotStuffState.View
    lastHash,     \* lastHash[s][t]: block_data.lastHash[t] at leader s
    finished,     \* finished[s][t]: block_data.finished[t] at leader s
    j_1finished,  \* block_data.j_1finished
    store,        \* store[s][t][h]: what leader s stored under the key "t:h"
    pool,         \* block_pool
    j_1_txs,      \* block_data.j_1_cross_shard_txs
    j_2_txs,      \* block_data.j_2_cross_shard_txs
    executed,     \* view of the last block passed to abci.Execution
    msgs          \* every CSM ever sent: it may be delivered late, twice or never

vars == <<step, view, lastHash, finished, j_1finished, store, pool,
          j_1_txs, j_2_txs, executed, msgs>>

Init ==
    /\ step        = [s \in Shard |-> ""]
    /\ view        = [s \in Shard |-> 0]
    /\ lastHash    = [s \in Shard |-> [t \in Shard |-> 0]]
    /\ finished    = [s \in Shard |-> [t \in Shard |-> NoCSM]]
    /\ j_1finished = [s \in Shard |-> [t \in Shard |-> NoCSM]]
    /\ store       = [s \in Shard |-> [t \in Shard |-> [h \in View |-> NoCSM]]]
    /\ pool        = [s \in Shard |-> <<>>]
    /\ j_1_txs     = [s \in Shard |-> 0]
    /\ j_2_txs     = [s \in Shard |-> 0]
    /\ executed    = [s \in Shard |-> 0]
    /\ msgs        = {}

-----------------------------------------------------------------------------
(* Making a block from the CSMs of the view before (fin). *)

\* No nil pointer is dereferenced by make_block.
make_block_safe(s, p, fin) ==
    /\ Len(p) >= 1 => fin[s] # NoCSM
    /\ Len(p) >= 2 => \A t \in Shard : fin[t] # NoCSM
    /\ Len(p) >= 4 => \A t \in Shard : fin[t].brief # Nil

make_block(s, v, p, fin, opt) ==
    [view |-> v,
     last |-> IF has_block(p, 1) THEN fetch_block(p, 1).view ELSE 0,
     agg  |-> IF Len(p) >= 1 THEN fin[s].for ELSE 0,
     ci   |-> IF Len(p) >= 2 THEN [t \in Shard |-> fin[t].last] ELSE Nil,
     cc   |-> IF Len(p) >= 4
                THEN [t \in Shard |-> [hash |-> fin[t].last, brief |-> fin[t].brief]]
                ELSE Nil,
     ctxs |-> IF Len(p) >= 4 THEN [t \in Shard |-> fin[t].opt] ELSE Nil,
     opt  |-> opt]

\* A nil dereference or an index out of range kills the process.
crash(s) == /\ step' = [step EXCEPT ![s] = "crashed"]
            /\ UNCHANGED <<view, finished, j_1finished, pool, j_1_txs, j_2_txs, executed>>

\* doPropose with the CSMs in fin, next_step after it, and the stop at View > 100.
doPropose(s, fin, next) ==
    LET opt == commit_and_execution_j_2(pool[s])
        v   == view[s] + 1
    IN  IF make_block_safe(s, pool[s], fin)
        THEN /\ executed' = [executed EXCEPT ![s] = IF opt = 0 THEN @ ELSE opt]
             /\ view'     = [view EXCEPT ![s] = v]
             /\ j_1finished' = [j_1finished EXCEPT ![s] = fin]
             /\ finished' = [finished EXCEPT ![s] = [t \in Shard |-> NoCSM]]
             /\ j_2_txs'  = [j_2_txs EXCEPT ![s] = j_1_txs[s]]
             /\ j_1_txs'  = [j_1_txs EXCEPT ![s] = opt]
             /\ pool' = [pool EXCEPT ![s] =
                            append_block(@, make_block(s, v, @, fin, opt))]
             /\ step' = [step EXCEPT ![s] = IF v > MaxView THEN "stopped" ELSE next]
        ELSE crash(s)

\* Mutant: one CSM may be missing.
isCrossShardMessageComplete_but_one(fin) ==
    \E u \in Shard : \A t \in Shard \ {u} : fin[t] # NoCSM

isCrossShardMessageComplete(fin) == \A t \in Shard : fin[t] # NoCSM

\* handle_state_transition in step leader-wait, with finished = fin.
leader_wait(s, fin) ==
    IF isCrossShardMessageComplete(fin)
    THEN doPropose(s, fin, "leader-vote")
    ELSE /\ finished' = [finished EXCEPT ![s] = fin]
         /\ step' = [step EXCEPT ![s] = "leader-wait"]
         /\ UNCHANGED <<view, j_1finished, pool, j_1_txs, j_2_txs, executed>>

-----------------------------------------------------------------------------
(* The handlers. *)

\* Start at view 0: propose the first block, with no transition after it.
Start(s) ==
    /\ step[s] = ""
    /\ doPropose(s, finished[s], "leader-vote")
    /\ UNCHANGED <<lastHash, store, msgs>>

\* The CSM the leader of s sends to t about the view it is in.
communicate_safe(p, txs) ==
    Len(p) >= 4 => fetch_block(p, 2).ci # Nil /\ txs # 0

\* Mutant: the sender's threshold is one above the receiver's.
make_csm_late(s, t) ==
    LET p == pool[s]
    IN  [dst |-> t, src |-> s,
         last |-> fetch_block(p, 1).last, for |-> view[s],
         brief |-> IF Len(p) > 4 THEN fetch_block(p, 2).ci ELSE Nil,
         opt   |-> IF Len(p) > 4 THEN j_2_txs[s] ELSE 0,
         proof |-> IF Len(p) > 4 /\ fetch_block(p, 2).opt = j_2_txs[s]
                     THEN fetch_block(p, 2).view ELSE 0]

\* The proofs are Merkle proofs from block_j_2: they verify against its hash, if
\* the outputs sent are the ones that block has the hashes of.
make_csm(s, t) ==
    LET p == pool[s]
    IN  [dst |-> t, src |-> s,
         last |-> fetch_block(p, 1).last, for |-> view[s],
         brief |-> IF Len(p) >= 4 THEN fetch_block(p, 2).ci ELSE Nil,
         opt   |-> IF Len(p) >= 4 THEN j_2_txs[s] ELSE 0,
         proof |-> IF Len(p) >= 4 /\ fetch_block(p, 2).opt = j_2_txs[s]
                     THEN fetch_block(p, 2).view ELSE 0]

\* Mutants: the stored CSM is not tried again; it is looked up under the hash it
\* extended before; its key lacks the hash.
redo_never(s, t) == NoCSM
redo_previous(s, t) == store[s][t][IF lastHash[s][t] = 0 THEN 0 ELSE lastHash[s][t] - 1]
redo_first(s, t) == store[s][t][0]

\* redo_CrossShardMessage: the stored CSM that extends lastHash[t], if any.
redo_CrossShardMessage(s, t) == store[s][t][lastHash[s][t]]

\* The vote that completes a quorum: CrossShardCommunicate, then leader-wait.
Quorum(s) ==
    /\ step[s] = "leader-vote"
    /\ StartSkewBounded => \A t \in Shard : step[t] # ""
    /\ LET redo(t)  == t # s /\ redo_CrossShardMessage(s, t) # NoCSM
           own      == make_csm(s, s)
           extended == [t \in Shard |-> IF t = s THEN own
                                        ELSE IF redo(t) THEN redo_CrossShardMessage(s, t)
                                        ELSE finished[s][t]]
       IN  IF communicate_safe(pool[s], j_2_txs[s])
           THEN /\ lastHash' = [lastHash EXCEPT ![s] =
                       [t \in Shard |-> IF t = s \/ redo(t) THEN extended[t].for ELSE @[t]]]
                /\ msgs' = msgs \cup {make_csm(s, t) : t \in Shard \ {s}}
                /\ leader_wait(s, extended)
           ELSE /\ crash(s)
                /\ UNCHANGED <<lastHash, msgs>>
    /\ UNCHANGED store

\* Mutant: the hash is not compared.
extends_any_hash(s, m) == finished[s][m.src] = NoCSM

\* The CSM m extends the chain that leader s knows of m's shard.
extends(s, m) == finished[s][m.src] = NoCSM /\ lastHash[s][m.src] = m.last

\* ValidateBasic: the proofs, where there are any, verify against the last hash.
ValidateBasic(m) == m.brief # Nil => m.proof = m.last

\* A CSM arrives.  A second copy or a bad proof is an error that changes nothing.
ReceiveCSM(s, m) ==
    /\ m.dst = s /\ ValidateBasic(m)
    /\ step[s] \in {"", "leader-vote", "leader-wait"}
    /\ store[s][m.src][m.last] = NoCSM
    /\ store' = [store EXCEPT ![s][m.src][m.last] = m]
    /\ lastHash' = IF extends(s, m) THEN [lastHash EXCEPT ![s][m.src] = m.for] ELSE lastHash
    /\ LET fin == IF extends(s, m) THEN [finished[s] EXCEPT ![m.src] = m] ELSE finished[s]
       IN  \/ /\ step[s] = ""          \* IsQuorum of a nil HeightDataPackage
              /\ crash(s)
           \/ /\ step[s] = "leader-vote"
              /\ finished' = [finished EXCEPT ![s] = fin]
              /\ UNCHANGED <<step, view, j_1finished, pool, j_1_txs, j_2_txs, executed>>
           \/ /\ step[s] = "leader-wait"
              /\ leader_wait(s, fin)
    /\ UNCHANGED msgs

Next == \E s \in Shard : \/ Start(s)
                         \/ Quorum(s)
                         \/ \E m \in msgs : ReceiveCSM(s, m)

Spec == Init /\ [][Next]_vars
-----------------------------------------------------------------------------
(* Type invariant: every map has the shape BlockData and State declare. *)
TypeOK ==
    /\ step \in [Shard -> {"", "leader-vote", "leader-wait", "stopped", "crashed"}]
    /\ view \in [Shard -> View]
    /\ lastHash \in [Shard -> [Shard -> View]]
    /\ finished \in [Shard -> [Shard -> CrossShardMessage \cup {NoCSM}]]
    /\ j_1finished \in [Shard -> [Shard -> CrossShardMessage \cup {NoCSM}]]
    /\ store \in [Shard -> [Shard -> [View -> CrossShardMessage \cup {NoCSM}]]]
    /\ pool \in [Shard -> Seq(Block)]
    /\ j_1_txs \in [Shard -> View]
    /\ j_2_txs \in [Shard -> View]
    /\ executed \in [Shard -> View]
    /\ msgs \subseteq CrossShardMessage

(***************************************************************************)
(* The lock-step invariant, in named parts.  Certified(s) is what shard s  *)
(* itself knows to be certified: the last hash its own CSMs extended.      *)
(***************************************************************************)
Certified(s) == lastHash[s][s]

\* A leader's step says whether its own CSM of the view has been made.
StepInv == \A s \in Shard :
    /\ step[s] = "leader-vote" => view[s] >= 1 /\ view[s] <= MaxView /\ Certified(s) = view[s] - 1
    /\ step[s] = "leader-wait" => view[s] >= 1 /\ view[s] <= MaxView /\ Certified(s) = view[s]
    /\ step[s] = "" => view[s] = 0

\* A CSM certifies one block on top of the one before it, and is never early.
MessageInv == \A m \in msgs :
    m.src # m.dst /\ m.for = m.last + 1 /\ m.for <= Certified(m.src)

\* The newest block of the pool is the block of the leader's view.
PoolInv == \A s \in Shard :
    IF view[s] = 0 THEN pool[s] = <<>>
    ELSE /\ Len(pool[s]) \in 1 .. PoolCap
         /\ fetch_block(pool[s], 1).view = view[s]
         /\ fetch_block(pool[s], 1).last = view[s] - 1

\* The store holds, under each key, a CSM of that shard that extends that hash.
StoreInv == \A s, t \in Shard, h \in View :
    store[s][t][h] # NoCSM =>
        store[s][t][h] \in msgs /\ store[s][t][h].src = t /\ store[s][t][h].last = h

\* finished[t] is present exactly when lastHash[t] has reached the view.
FinishedInv == \A s, t \in Shard :
    step[s] # "crashed" =>
        IF finished[s][t] = NoCSM
        THEN lastHash[s][t] = IF view[s] = 0 THEN 0 ELSE view[s] - 1
        ELSE lastHash[s][t] = view[s] /\ finished[s][t].for = view[s] /\ finished[s][t].src = t

\* No leader believes more about a shard than the shard has certified itself.
KnowledgeInv == \A s, t \in Shard : lastHash[s][t] <= Certified(t)

\* A leader that did not crash is at most one view ahead of its own certificate.
OwnInv == \A s \in Shard : Certified(s) <= view[s] /\ view[s] <= Certified(s) + 1

\* No leader is more than one view past what any shard has certified.
BarrierInv == \A s, t \in Shard : view[s] <= Certified(t) + 1

\* The inductive invariant behind the lock step of the leaders
\* (handle_state_transition, extendHash, redo_CrossShardMessage).
LockStepInv == /\ TypeOK
               /\ StepInv
               /\ PoolInv
               /\ MessageInv
               /\ StoreInv
               /\ FinishedInv
               /\ KnowledgeInv
               /\ OwnInv
               /\ BarrierInv

\* Safety of the barrier (isCrossShardMessageComplete before doPropose): two
\* leaders are never more than one view apart, whatever is lost or reordered.
ViewSkew == \A s, t \in Shard : view[s] <= view[t] + 1

(***************************************************************************)
(* The pipeline.  What the block of view v carries, as the comments on     *)
(* types.Header and types.CrossShardMessage count the rounds:              *)
(* AggSigVote of v-1, CI of v-2, CC and CTXS of v-4.                       *)
(***************************************************************************)
\* Every block in a pool carries exactly the CSM data of the documented rounds,
\* from every shard: no CSM is used a view late or early (make_block).
PipelineRounds == \A s \in Shard : \A i \in 1 .. Len(pool[s]) :
    LET b == pool[s][i]
        v == view[s] - Len(pool[s]) + i
    IN  /\ b.view = v /\ b.last = v - 1 /\ b.agg = v - 1
        /\ b.opt = IF v >= 3 THEN v - 2 ELSE 0
        /\ b.ci  = IF v >= 3 THEN [t \in Shard |-> v - 2] ELSE Nil
        /\ b.ctxs = IF v >= 5 THEN [t \in Shard |-> v - 4] ELSE Nil
        /\ b.cc  = IF v >= 5 THEN [t \in Shard |-> [hash |-> v - 2,
                                            brief |-> [u \in Shard |-> v - 4]]]
                   ELSE Nil

\* A started leader never dereferences a missing CSM, proof, CI or output list: the
\* thresholds 1, 2 and 4 on block_pool_size agree between sender and receiver.  Only a
\* CSM that finds its receiver not started kills it, and that takes a process that
\* starts after the sleep of view 1.
NoCrash == \A s \in Shard : step[s] = "crashed" => view[s] = 0 /\ ~StartSkewBounded

\* What a leader has collected for its view is not replaced by a stored message
\* of a later view (redo does not look at finished), and is what it proposes with.
FinishedKept == [][\A s, t \in Shard :
    finished[s][t] # NoCSM =>
        IF view'[s] = view[s] THEN finished'[s][t] = finished[s][t]
                              ELSE j_1finished'[s][t] = finished[s][t]]_vars

\* A chain of hashes is followed one certified block at a time: no CSM is skipped
\* and none is applied twice (extendHash from doMessage and from redo).
HashChain == [][\A s, t \in Shard :
    lastHash'[s][t] \in {lastHash[s][t], lastHash[s][t] + 1}]_vars

\* The leaders implement the abstract barrier.
Abstract == INSTANCE LockStep WITH proposed  <- view,
                                   certified <- [s \in Shard |-> Certified(s)]
RefinesLockStep == Abstract!Spec

(***************************************************************************)
(* Liveness.  Validators vote and the network delivers; the CSMs of the    *)
(* last view are excepted because Stop panics while they may still wait in *)
(* their sending goroutines.                                               *)
(***************************************************************************)
Fairness == \A s \in Shard :
    /\ WF_vars(Start(s))
    /\ WF_vars(Quorum(s))
    /\ WF_vars(\E m \in msgs : m.for < MaxView /\ ReceiveCSM(s, m))

FairSpec == Spec /\ Fairness

\* Unless a late starter is killed, every leader reaches the last view: no order of
\* deliveries leaves a leader waiting for a CSM that sits in its store or that it
\* dropped.
AllReachLastView ==
    [](\A s \in Shard : step[s] # "crashed") => \A s \in Shard : <>(view[s] >= MaxView)
=============================================================================
