------------------------------ MODULE UrdShard ------------------------------
(***************************************************************************)
(* One Urd shard: its leader and its validators (urd/consensus and         *)
(* core/hotstuff).  The leader sends each block as a proposal (the header  *)
(* of a part set) and parts; a validator assembles the part set, validates *)
(* the block, votes and moves to the next view; the leader collects votes. *)
(*                                                                         *)
(* Every handler holds stateLock until handle_state_transition returns.    *)
(* busy[n] is that lock while the recursion of handle_state_transition     *)
(* runs, one action per iteration, so votes leave in the middle of a       *)
(* handler as they do in the code.  The CSMs of the other shards are one   *)
(* flag: UrdLeaders is about them.  There is one block per view, so a      *)
(* block's hash is its view, and 0 is the nil hash.                        *)
(***************************************************************************)
EXTENDS BlockPool, FiniteSetsExt

CONSTANTS Validator,         \* the nodes of the shard other than its leader
          Leader,
          PerVote,           \* voting power of every node
          Part,              \* the parts of a block
          Header,            \* stands for the proposal among a block's messages
          ShardIDCount,      \* the length of ShardIDList
          MaxView,           \* the leader stops once its view exceeds this (100)
          StartSkewBounded   \* TRUE: all nodes start within the sleep of view 1

Node == Validator \cup {Leader}
View == 0 .. (MaxView + 1)
Nil  == <<>>

ASSUME LeaderAssumption == Leader \notin Validator
ASSUME ValidatorAssumption == IsFiniteSet(Validator)
ASSUME PerVoteAssumption == PerVote \in [Node -> Nat]
ASSUME HeaderAssumption == Header \notin Part
ASSUME MaxViewAssumption == MaxView \in Nat \ {0}
ASSUME ShardIDAssumption == ShardIDCount \in Nat \ {0}

\* A message about the block of view m[1]: its proposal or one of its parts.
Message == View \X (Part \cup {Header})
Vote == [view : View, last : View, voter : Node, ok : BOOLEAN]
AggregatedVote == [for : View, last : View, ok : BOOLEAN] \cup {Nil}
\* ci and cc are the lengths of CI.IntentionHash and CC, 0 for none.
Block == [view : View, agg : AggregatedVote, ci : Nat, cc : Nat]

VARIABLES
    step,      \* State.step, and "stopped" once the leader is gone
    view,      \* HotStuffState.View, and block_data.retainView
    busy,      \* stateLock is held by a running handle_state_transition
    blocks,    \* the views that have a part set in block_data.blocks
    parts,     \* the parts in those part sets, as <<view, part>>
    retained,  \* block_data.retainBlockParts, as <<view, part>>
    pool,      \* block_pool
    executed,  \* view of the last block passed to abci.Execution
    chain,     \* the blocks the leader has proposed
    net,       \* net[n]: messages of view[n] or later that have not reached n yet
    sent,      \* every vote ever cast; a vote may arrive late, twice or never
    votes,     \* the leader's HeightDataPackage.Votes
    own,       \* AggVote of the leader's own CSM in finished, or Nil
    others     \* finished holds a CSM of every other shard

data == <<blocks, parts, retained>>
leaderVars == <<chain, votes, own, others>>
vars == <<step, view, busy, data, pool, executed, net, sent, leaderVars>>

Init ==
    /\ step     = [n \in Node |-> ""]
    /\ view     = [n \in Node |-> 0]
    /\ busy     = [n \in Node |-> FALSE]
    /\ blocks   = [n \in Validator |-> {}]
    /\ parts    = [n \in Validator |-> {}]
    /\ retained = [n \in Validator |-> {}]
    /\ pool     = [n \in Node |-> <<>>]
    /\ executed = [n \in Node |-> 0]
    /\ chain    = <<>>
    /\ net      = [n \in Validator |-> {}]
    /\ sent     = {}
    /\ votes    = {}
    /\ own      = Nil
    /\ others   = FALSE

-----------------------------------------------------------------------------
(* Counting votes: HeightDataPackage. *)

Power(vs) == MapThenSumSet(LAMBDA m : PerVote[m.voter], vs)
VotesNeeded == MapThenSumSet(LAMBDA n : PerVote[n], Node)

enough(power) == power >= (2 * VotesNeeded) \div 3
VotesTotal(vs) == Power({m \in vs : m.ok})
RejectTotal(vs) == Power({m \in vs : ~m.ok})

\* Mutant: the votes must be more than all of them.
isQuorum_more(vs) == VotesTotal(vs) > VotesNeeded \/ RejectTotal(vs) > VotesNeeded

isQuorum(vs) == enough(VotesTotal(vs)) \/ enough(RejectTotal(vs))

\* addVote accepts a vote of the leader's view, one of each voter.
addVote_ok(m) == /\ m.view = view[Leader]
                 /\ \A w \in votes : w.voter # m.voter

\* getMaj23 takes the last hash from the vote with the highest index, whoever
\* cast it and whether or not it is on the majority's side.
getMaj23(vs) == {[for |-> view[Leader], last |-> m.last, ok |-> enough(VotesTotal(vs))] : m \in vs}

top_hash(p) == IF has_block(p, 1) THEN fetch_block(p, 1).view ELSE 0

\* Mutant: the last hash is read after append_block.
generate_vote_late(n, b, last, ok) == [view |-> b.view, last |-> b.view, voter |-> n, ok |-> ok]

generate_vote(n, b, last, ok) == [view |-> b.view, last |-> last, voter |-> n, ok |-> ok]

-----------------------------------------------------------------------------
(* The leader. *)

\* The step after an iteration that leaves the leader with the votes vs.
next_step(vs) == IF isQuorum(vs) THEN "leader-wait" ELSE "leader-vote"

\* Mutant: the certificates come a block late.
make_block_late(p, v) ==
    [view |-> v,
     agg  |-> IF has_block(p, 1) THEN own ELSE Nil,
     ci   |-> IF has_block(p, 2) THEN ShardIDCount ELSE 0,
     cc   |-> IF has_block(p, 5) THEN ShardIDCount ELSE 0]

\* make_block: with one block in the pool it has the certificate of that block, with two an
\* intention hash and with four a certificate core for every id of ShardIDList.
make_block(p, v) ==
    [view |-> v,
     agg  |-> IF has_block(p, 1) THEN own ELSE Nil,
     ci   |-> IF has_block(p, 2) THEN ShardIDCount ELSE 0,
     cc   |-> IF has_block(p, 4) THEN ShardIDCount ELSE 0]

\* doPropose: execute block j-2, enter the next view, send the block, vote for it.
doPropose ==
    LET v    == view[Leader] + 1
        b    == make_block(pool[Leader], v)
        mine == generate_vote(Leader, b, top_hash(pool[Leader]), TRUE)
        exec == commit_and_execution_j_2(pool[Leader])
    IN  /\ executed' = [executed EXCEPT ![Leader] = IF exec = 0 THEN @ ELSE exec]
        /\ view'   = [view EXCEPT ![Leader] = v]
        /\ chain'  = Append(chain, b)
        /\ net'    = [n \in Validator |-> net[n] \cup ({v} \X (Part \cup {Header}))]
        /\ votes'  = {mine}
        /\ sent'   = sent \cup {mine}
        /\ pool'   = [pool EXCEPT ![Leader] = append_block(@, b)]
        /\ own'    = Nil
        /\ others' = FALSE
        /\ UNCHANGED data

\* Start of the leader.  It sleeps 10 s in view 1 before it sends anything.
StartLeader ==
    /\ step[Leader] = ""
    /\ StartSkewBounded => \A n \in Validator : view[n] # 0
    /\ doPropose
    /\ step' = [step EXCEPT ![Leader] = "leader-vote"]
    /\ UNCHANGED busy

\* The leader accepts a vote.  A vote addVote refuses changes nothing.
ReceiveVote(m) ==
    /\ step[Leader] \in {"leader-vote", "leader-wait"} /\ ~busy[Leader]
    /\ addVote_ok(m)
    /\ votes' = votes \cup {m}
    /\ busy' = [busy EXCEPT ![Leader] = TRUE]
    /\ UNCHANGED <<step, view, data, pool, executed, net, sent, chain, own, others>>

\* The last CSM of another shard that the leader needs for its view arrives.
ReceiveCSMs ==
    /\ step[Leader] \in {"leader-vote", "leader-wait"} /\ ~busy[Leader]
    /\ ~others
    /\ others' = TRUE
    /\ busy' = [busy EXCEPT ![Leader] = TRUE]
    /\ UNCHANGED <<step, view, data, pool, executed, net, sent, chain, votes, own>>

\* handle_state_transition at a quorum: CrossShardCommunicate makes the own CSM.
Communicate ==
    /\ busy[Leader] /\ step[Leader] = "leader-vote" /\ isQuorum(votes)
    /\ own' \in getMaj23(votes)
    /\ step' = [step EXCEPT ![Leader] = next_step(votes)]
    /\ UNCHANGED <<view, busy, data, pool, executed, net, sent, chain, votes, others>>

isCrossShardMessageComplete == own # Nil /\ others

\* Mutant: the leader does not stop.
Propose_no_stop ==
    /\ busy[Leader] /\ step[Leader] = "leader-wait" /\ isCrossShardMessageComplete
    /\ doPropose
    /\ step' = [step EXCEPT ![Leader] = next_step(votes')]
    /\ UNCHANGED busy

\* handle_state_transition with every CSM: propose, and stop past MaxView.
Propose ==
    /\ busy[Leader] /\ step[Leader] = "leader-wait" /\ isCrossShardMessageComplete
    /\ doPropose
    /\ step' = [step EXCEPT ![Leader] = IF view'[Leader] > MaxView THEN "stopped"
                                                                   ELSE next_step(votes')]
    /\ busy' = [busy EXCEPT ![Leader] = view'[Leader] <= MaxView]

\* handle_state_transition with nothing to do returns and releases the lock.
LeaderReturns ==
    /\ busy[Leader]
    /\ \/ step[Leader] = "leader-vote" /\ ~isQuorum(votes)
       \/ step[Leader] = "leader-wait" /\ ~isCrossShardMessageComplete
    /\ busy' = [busy EXCEPT ![Leader] = FALSE]
    /\ UNCHANGED <<step, view, data, pool, executed, net, sent, leaderVars>>

-----------------------------------------------------------------------------
(* A validator. *)

\* Mutant: Start does not look at the view.
StartValidator_again(n) ==
    /\ ~busy[n]
    /\ view' = [view EXCEPT ![n] = 1]
    /\ step' = [step EXCEPT ![n] = "validator-wait"]
    /\ UNCHANGED <<busy, data, pool, executed, net, sent, leaderVars>>

\* Start of a validator: view 1, whatever has arrived, and no transition.
StartValidator(n) ==
    /\ view[n] = 0 /\ ~busy[n]
    /\ view' = [view EXCEPT ![n] = 1]
    /\ step' = [step EXCEPT ![n] = "validator-wait"]
    /\ UNCHANGED <<busy, data, pool, executed, net, sent, leaderVars>>

\* A message about a proposed block reaches n, for the first time or once more.
deliver(n, m) == /\ ~busy[n]
                 /\ m[1] \in 1 .. Len(chain)
                 /\ net' = [net EXCEPT ![n] = @ \ {m}]

old(n, v) == v < view[n]

\* Mutant: retained parts are not replayed.
ReceiveProposal_no_replay(n, v) ==
    /\ deliver(n, <<v, Header>>)
    /\ \/ (old(n, v) \/ v \in blocks[n]) /\ UNCHANGED <<blocks, busy>>
       \/ /\ ~old(n, v) /\ v \notin blocks[n]
          /\ blocks' = [blocks EXCEPT ![n] = @ \cup {v}]
          /\ busy' = [busy EXCEPT ![n] = TRUE]
    /\ UNCHANGED <<step, view, parts, retained, pool, executed, sent, leaderVars>>

\* addPartSetHeader: a new part set takes the parts that came before it.
ReceiveProposal(n, v) ==
    /\ deliver(n, <<v, Header>>)
    /\ \/ (old(n, v) \/ v \in blocks[n]) /\ UNCHANGED <<blocks, parts, busy>>
       \/ /\ ~old(n, v) /\ v \notin blocks[n]
          /\ blocks' = [blocks EXCEPT ![n] = @ \cup {v}]
          /\ parts' = [parts EXCEPT ![n] = @ \cup {x \in retained[n] : x[1] = v}]
          /\ busy' = [busy EXCEPT ![n] = TRUE]
    /\ UNCHANGED <<step, view, retained, pool, executed, sent, leaderVars>>

append_part(n, v, p) == retained' = [retained EXCEPT ![n] = @ \cup {<<v, p>>}]

\* addPart: without its part set a part is retained, which is an error, so that
\* no transition follows; an old or a known part is an error too.
ReceivePart(n, v, p) ==
    /\ deliver(n, <<v, p>>)
    /\ \/ (old(n, v) \/ <<v, p>> \in parts[n]) /\ UNCHANGED <<parts, retained, busy>>
       \/ /\ ~old(n, v) /\ v \notin blocks[n]
          /\ append_part(n, v, p)
          /\ UNCHANGED <<parts, busy>>
       \/ /\ ~old(n, v) /\ v \in blocks[n] /\ <<v, p>> \notin parts[n]
          /\ parts' = [parts EXCEPT ![n] = @ \cup {<<v, p>>}]
          /\ busy' = [busy EXCEPT ![n] = TRUE]
          /\ UNCHANGED retained
    /\ UNCHANGED <<step, view, blocks, pool, executed, sent, leaderVars>>

\* isComplete, and getBlock without its errors: that GenBlock accepts what the leader cut up
\* is BlockRebuilt of Transport.
isComplete(n, v) == v \in blocks[n] /\ \A p \in Part : <<v, p>> \in parts[n]

\* verify_block checks from view 5 on: the hashes of blocks j-2 and j-1, and the
\* number of intention hashes and of certificate cores.
verify_block(p, b) ==
    b.view >= 5 => /\ fetch_block(p, 2).view = b.agg.last
                   /\ fetch_block(p, 1).view = b.agg.for
                   /\ b.ci = ShardIDCount
                   /\ b.cc = ShardIDCount

\* Mutant: the parts of the view entered are dropped too.
prune_too_much(n, v) ==
    /\ blocks' = [blocks EXCEPT ![n] = {w \in @ : w > v}]
    /\ parts' = [parts EXCEPT ![n] = {x \in @ : x[1] > v}]
    /\ retained' = [retained EXCEPT ![n] = {x \in @ : x[1] > v}]
    /\ net' = [net EXCEPT ![n] = {x \in @ : x[1] >= v}]

\* block_data.next drops everything about earlier views.
prune(n, v) ==
    /\ blocks' = [blocks EXCEPT ![n] = {w \in @ : w >= v}]
    /\ parts' = [parts EXCEPT ![n] = {x \in @ : x[1] >= v}]
    /\ retained' = [retained EXCEPT ![n] = {x \in @ : x[1] >= v}]
    /\ net' = [net EXCEPT ![n] = {x \in @ : x[1] >= v}]

\* handle_state_transition with the block of the view complete: doValidate.
\* A rejected block leaves everything in place and the recursion never returns.
Validate(n) ==
    /\ busy[n] /\ step[n] = "validator-wait" /\ isComplete(n, view[n])
    /\ LET b    == chain[view[n]]
           ok   == verify_block(pool[n], b)
           exec == commit_and_execution_j_2(pool[n])
       IN  /\ sent' = sent \cup {generate_vote(n, b, top_hash(pool[n]), ok)}
           /\ \/ /\ ok
                 /\ executed' = [executed EXCEPT ![n] = IF exec = 0 THEN @ ELSE exec]
                 /\ view' = [view EXCEPT ![n] = @ + 1]
                 /\ prune(n, view[n] + 1)
                 /\ pool' = [pool EXCEPT ![n] = append_block(@, b)]
              \/ ~ok /\ UNCHANGED <<executed, view, data, pool, net>>
    /\ UNCHANGED <<step, busy, leaderVars>>

\* Otherwise it returns; a message before Start has set the step by then.
ValidatorReturns(n) ==
    /\ busy[n] /\ ~isComplete(n, view[n])
    /\ step' = [step EXCEPT ![n] = "validator-wait"]
    /\ busy' = [busy EXCEPT ![n] = FALSE]
    /\ UNCHANGED <<view, data, pool, executed, net, sent, leaderVars>>

-----------------------------------------------------------------------------
LeaderNext == \/ StartLeader
              \/ Communicate
              \/ Propose
              \/ LeaderReturns
              \/ ReceiveCSMs
              \/ \E m \in sent : ReceiveVote(m)

ValidatorNext(n) == \/ StartValidator(n)
                    \/ Validate(n)
                    \/ ValidatorReturns(n)
                    \/ \E v \in View : \/ ReceiveProposal(n, v)
                                       \/ \E p \in Part : ReceivePart(n, v, p)

Next == LeaderNext \/ \E n \in Validator : ValidatorNext(n)

Spec == Init /\ [][Next]_vars
-----------------------------------------------------------------------------
(* Type invariant: the maps of BlockData, State and HeightDataPackage. *)
TypeOK ==
    /\ step \in [Node -> {"", "validator-wait", "leader-vote", "leader-wait", "stopped"}]
    /\ view \in [Node -> 0 .. (MaxView + 2)]
    /\ busy \in [Node -> BOOLEAN]
    /\ blocks \in [Validator -> SUBSET View]
    /\ parts \in [Validator -> SUBSET (View \X Part)]
    /\ retained \in [Validator -> SUBSET (View \X Part)]
    /\ pool \in [Node -> Seq(Block)]
    /\ executed \in [Node -> View]
    /\ chain \in Seq(Block)
    /\ net \in [Validator -> SUBSET Message]
    /\ sent \subseteq Vote
    /\ votes \subseteq sent
    /\ own \in AggregatedVote
    /\ others \in BOOLEAN

\* The view of the newest block in n's pool: a validator's view is the next one.
Height(n) == IF n = Leader THEN view[n] ELSE IF view[n] = 0 THEN 0 ELSE view[n] - 1

\* Every pool is a window of at most seven blocks of the one chain the leader
\* proposed, ending where the node is: blocks assembled from parts in any order,
\* early, late or twice, are appended in order and without gaps.
PoolsFollowChain == \A n \in Node :
    pool[n] = SubSeq(chain, IF Height(n) > PoolCap THEN Height(n) - PoolCap + 1 ELSE 1, Height(n))

\* The certificate in each block is an accepting one for the block before, on top
\* of the block before that, whichever votes reached the leader and in whatever
\* order (getMaj23 copies the last hash from a single vote).
CertificateChain == \A i \in 2 .. Len(chain) :
    chain[i].agg = [for |-> i - 1, last |-> i - 2, ok |-> TRUE]

\* No validator of a correct shard rejects a block, for none of the four reasons of
\* verify_block, the first block it examines (view 5) included; so none is caught in the
\* recursion a rejection starts in handle_state_transition.
NoReject == \A m \in sent : m.ok

\* A node executes a block only when votes of at least (2/3, rounded down) of the
\* voting power were cast for it and for the block after it.
CertifiedExecution == \A n \in Node : executed[n] > 0 =>
    \A w \in 1 .. executed[n] + 1 : enough(VotesTotal({m \in sent : m.view = w}))

\* A message of the current or a later view that was delivered is not lost: its
\* part set exists, and a part is in it, or is retained until it exists.
NothingLost == \A n \in Validator : \A v \in 1 .. Len(chain) : v >= view[n] =>
    /\ <<v, Header>> \notin net[n] => v \in blocks[n]
    /\ \A p \in Part : <<v, p>> \notin net[n] \/ <<v, p>> \in retained[n] =>
           IF v \in blocks[n] THEN <<v, p>> \in parts[n] ELSE <<v, p>> \in retained[n]

(***************************************************************************)
(* Liveness.  A goroutine that holds the lock goes on, and a message is    *)
(* delivered in the end as long as its sender lives: the leader's messages *)
(* until it stops.  Nothing is assumed about the other shards' CSMs.       *)
(***************************************************************************)
Delivery(n) ==
    /\ \A v \in View : WF_vars(step[Leader] # "stopped" /\ ReceiveProposal(n, v) /\ net' # net)
    /\ \A v \in View, p \in Part :
           WF_vars(step[Leader] # "stopped" /\ ReceivePart(n, v, p) /\ net' # net)

Fairness ==
    /\ WF_vars(StartLeader) /\ WF_vars(Communicate) /\ WF_vars(Propose) /\ WF_vars(LeaderReturns)
    /\ WF_vars(\E m \in sent : ReceiveVote(m))
    /\ \A n \in Validator : /\ WF_vars(StartValidator(n)) /\ WF_vars(Validate(n))
                            /\ WF_vars(ValidatorReturns(n)) /\ Delivery(n)

FairSpec == Spec /\ Fairness

\* Every validator votes for every block proposed, unless the leader stops first:
\* no order of proposal and parts leaves a complete block unexamined.
CatchUp == \A n \in Validator, v \in 1 .. MaxView :
    Len(chain) >= v ~> view[n] > v \/ step[Leader] = "stopped"

\* The leader stops at its last view, or ends up waiting for another shard's CSM:
\* its own shard never holds it up.
LeaderProgress ==
    \/ <>(step[Leader] = "stopped")
    \/ <>[](step[Leader] = "leader-wait" /\ own # Nil /\ ~others)
=============================================================================
