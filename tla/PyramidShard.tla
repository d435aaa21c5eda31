---------------------------- MODULE PyramidShard ----------------------------
(***************************************************************************)
(* Consensus inside one Pyramid I shard (pyramid/consensus): one proposer  *)
(* per height, parts, prevotes, precommits, and the wait for MessageOK of  *)
(* every B shard before the next height.  Messages of a later height are   *)
(* put aside in relayMessageChannel and replayed when it begins.  There is *)
(* no round but 0, so a vote is its voter: it can only be for the block of *)
(* the height's proposer, and its code is decided by the chain.            *)
(*                                                                         *)
(* Every handler holds stateMtx; busy[n] is that lock while                *)
(* handleStateTransition recurses, one action per iteration.  A running    *)
(* handler reads only its own node and its sends only add to sent, so the  *)
(* steps of the others commute with it: they are taken when none runs.     *)
(***************************************************************************)
EXTENDS Integers, FiniteSets, FiniteSetsExt

CONSTANTS N,           \* validators 0 .. N-1
          Vote,        \* voting power of each
          Part,        \* the parts of a block
          BShard,      \* RelatedShards: the B shards
          MaxHeight    \* bound: no node goes past this height

Node == 0 .. (N - 1)
Height == 0 .. MaxHeight
Proposer(h) == h % N                                     \* calculateProposer, round 0

ASSUME NAssumption == N \in Nat \ {0}
ASSUME VoteAssumption == Vote \in [Node -> Nat]
ASSUME HeightAssumption == MaxHeight \in Nat \ {0}

Proposal  == [kind : {"Proposal"}, height : Height, from : Node]
BlockPart == [kind : {"Part"}, height : Height, from : Part]
Prevote   == [kind : {"Prevote"}, height : Height, from : Node]
Precommit == [kind : {"Precommit"}, height : Height, from : Node]
MessageOK == [kind : {"OK"}, height : Height, from : BShard]
Message   == Proposal \cup BlockPart \cup Prevote \cup Precommit \cup MessageOK

VARIABLES
    height,      \* ConsensusState.Height
    step,        \* ConsensusState.Step, and "Crashed"
    busy,        \* stateMtx is held by a running handleStateTransition
    proposal,    \* heightDatas.Proposal is set
    parts,       \* the parts in heightDatas.PartSet
    buffer,      \* randomHeaderBuffer, without the parts of earlier heights
    prevotes,    \* the voters in heightDatas.Prevotes
    precommits,  \* the voters in heightDatas.Precommits
    relay,       \* relayMessageChannel
    bseen,       \* bseen; bcount is the number of B shards not in it
    net,         \* the messages on their way to each node, in no order
    sent,        \* history: every message sent
    iblock,      \* the heights whose block was sent to the B shards
    bheight      \* height each B shard has committed

data == <<proposal, parts, buffer, prevotes, precommits>>
vars == <<height, step, busy, data, relay, bseen, net, sent, iblock, bheight>>

Init ==
    /\ height     = [n \in Node |-> 0]
    /\ step       = [n \in Node |-> "NewHeight"]
    /\ busy       = [n \in Node |-> FALSE]
    /\ proposal   = [n \in Node |-> FALSE]
    /\ parts      = [n \in Node |-> {}]
    /\ buffer     = [n \in Node |-> {}]
    /\ prevotes   = [n \in Node |-> {}]
    /\ precommits = [n \in Node |-> {}]
    /\ relay      = [n \in Node |-> {}]
    /\ bseen      = [n \in Node |-> {}]
    /\ net        = [n \in Node |-> {}]
    /\ sent       = {}
    /\ iblock     = {}
    /\ bheight    = [b \in BShard |-> 0]

-----------------------------------------------------------------------------
Power(S) == MapThenSumSet(LAMBDA n : Vote[n], S)

HasMaj23(S) == Power(S) > (2 * Power(Node)) \div 3

\* SendInternal and SendTo: Sender.Send skips the node itself.
Send(to, M) == /\ sent' = sent \cup M
               /\ net' = [n \in Node |-> IF n \in to THEN net[n] \cup M ELSE net[n]]

\* The senders of the messages of one type, which doMessage tells apart.
From(M, kind) == {m.from : m \in {x \in M : x.kind = kind}}

\* createBlockAndBroadcast: the proposer's own copy is complete at once.
createBlockAndBroadcast(h) ==
    {[kind |-> "Proposal", height |-> h, from |-> Proposer(h)]}
    \cup {[kind |-> "Part", height |-> h, from |-> p] : p \in Part}

\* Mutant: the messages put aside are not handled again.
Relayed_lost(n, kind) == {}

\* What the messages put aside for the next height add to it.
Relayed(n, kind) == From({m \in relay[n] : m.height = height[n] + 1}, kind)

\* Mutant: the votes of the height before are kept.
clearVotes_skipped(n, kind) ==
    (IF kind = "Prevote" THEN prevotes[n] ELSE precommits[n]) \cup Relayed(n, kind)

\* clearPrevote and clearPrecommit, then what was put aside
clearVotes(n, kind) == Relayed(n, kind)

\* enterNewHeight, Next, NextHeight and enterNewRound: everything is cleared, the
\* proposer makes its block, and the messages put aside for the height are handled.
enterNewHeight(n) ==
    LET h        == height[n] + 1
        mine     == Proposer(h) = n
        proposed == mine \/ Relayed(n, "Proposal") # {}
    IN  /\ height'     = [height EXCEPT ![n] = h]
        /\ step'       = [step EXCEPT ![n] = "Propose"]
        /\ proposal'   = [proposal EXCEPT ![n] = proposed]
        /\ parts'      = [parts EXCEPT ![n] = IF mine THEN Part
                                              ELSE IF proposed THEN Relayed(n, "Part") ELSE {}]
        /\ buffer'     = [buffer EXCEPT ![n] = IF proposed THEN {} ELSE Relayed(n, "Part")]
        /\ prevotes'   = [prevotes EXCEPT ![n] = clearVotes(n, "Prevote")]
        /\ precommits' = [precommits EXCEPT ![n] = clearVotes(n, "Precommit")]
        /\ bseen'      = [bseen EXCEPT ![n] = Relayed(n, "OK")]
        /\ relay'      = [relay EXCEPT ![n] = {m \in @ : m.height >= h}]
        /\ Send(Node \ {n}, IF mine THEN createBlockAndBroadcast(h) ELSE {})

\* No handler is running.
Idle == \A n \in Node : ~busy[n]

\* Start: height 1.  A transition follows only if a message was put aside for it.
Start(n) ==
    /\ Idle /\ height[n] = 0 /\ step[n] # "Crashed"
    /\ enterNewHeight(n)
    /\ busy' = [busy EXCEPT ![n] = \E m \in relay[n] : m.height = 1 /\ m.kind # "Part"]
    /\ UNCHANGED <<iblock, bheight>>

-----------------------------------------------------------------------------
(* Messages: one is delivered once, when no handler runs. *)

deliver(n, m) == /\ Idle /\ step[n] # "Crashed"
                 /\ m \in net[n]
                 /\ net' = [net EXCEPT ![n] = @ \ {m}]

\* A message of an earlier height.
Ignore(n, m) ==
    /\ deliver(n, m) /\ m.height < height[n]
    /\ UNCHANGED <<height, step, busy, data, relay, bseen, sent, iblock, bheight>>

\* addRelayMessageIfOverTime: the first message of a later height is put aside,
\* but the caller is told to go on with it.
FirstOfHeight(n, m) == \A x \in relay[n] : x.height # m.height

\* A message of a later height.  For all but MessageOK, going on changes nothing.
PutAside(n, m) ==
    /\ deliver(n, m) /\ m.height > height[n]
    /\ m.kind # "OK" \/ ~FirstOfHeight(n, m)
    /\ relay' = [relay EXCEPT ![n] = @ \cup {m}]
    /\ UNCHANGED <<height, step, busy, data, bseen, sent, iblock, bheight>>

\* AddProposal: the part set takes the parts that came before.
ReceiveProposal(n, m) ==
    /\ deliver(n, m) /\ m.kind = "Proposal" /\ m.height = height[n] /\ ~proposal[n]
    /\ proposal' = [proposal EXCEPT ![n] = TRUE]
    /\ parts' = [parts EXCEPT ![n] = buffer[n]]
    /\ buffer' = [buffer EXCEPT ![n] = {}]
    /\ busy' = [busy EXCEPT ![n] = TRUE]
    /\ UNCHANGED <<height, step, prevotes, precommits, relay, bseen, sent, iblock, bheight>>

\* AddPart
ReceivePart(n, m) ==
    /\ deliver(n, m) /\ m.kind = "Part" /\ m.height = height[n] /\ m.from \notin parts[n]
    /\ \/ /\ ~proposal[n]
          /\ buffer' = [buffer EXCEPT ![n] = @ \cup {m.from}]
          /\ UNCHANGED <<parts, busy>>
       \/ /\ proposal[n]
          /\ parts' = [parts EXCEPT ![n] = @ \cup {m.from}]
          /\ busy' = [busy EXCEPT ![n] = TRUE]
          /\ UNCHANGED buffer
    /\ UNCHANGED <<height, step, proposal, prevotes, precommits, relay, bseen, sent, iblock, bheight>>

\* AddPrevote and AddPrecommit; a second vote of a voter changes nothing.
ReceiveVote(n, m) ==
    /\ deliver(n, m) /\ m.height = height[n]
    /\ \/ /\ m.kind = "Prevote" /\ m.from \notin prevotes[n]
          /\ prevotes' = [prevotes EXCEPT ![n] = @ \cup {m.from}]
          /\ UNCHANGED precommits
       \/ /\ m.kind = "Precommit" /\ m.from \notin precommits[n]
          /\ precommits' = [precommits EXCEPT ![n] = @ \cup {m.from}]
          /\ UNCHANGED prevotes
    /\ busy' = [busy EXCEPT ![n] = TRUE]
    /\ UNCHANGED <<height, step, proposal, parts, buffer, relay, bseen, sent, iblock, bheight>>

\* A MessageOK counts for the height of the node: an early one too, if it is the
\* first message of its height.
current(n, m) == \/ m.height = height[n]
                 \/ m.height > height[n] /\ FirstOfHeight(n, m)

\* MessageOK.  Before Start the map bseen is nil.
ReceiveOK(n, m) ==
    /\ deliver(n, m) /\ m.kind = "OK" /\ current(n, m)
    /\ relay' = IF m.height > height[n] THEN [relay EXCEPT ![n] = @ \cup {m}] ELSE relay
    /\ \/ /\ height[n] = 0
          /\ step' = [step EXCEPT ![n] = "Crashed"]
          /\ UNCHANGED <<bseen, busy>>
       \/ /\ height[n] > 0 /\ m.from \in bseen[n]
          /\ UNCHANGED <<step, bseen, busy>>
       \/ /\ height[n] > 0 /\ m.from \notin bseen[n]
          /\ bseen' = [bseen EXCEPT ![n] = @ \cup {m.from}]
          /\ busy' = [busy EXCEPT ![n] = TRUE]
          /\ UNCHANGED step
    /\ UNCHANGED <<height, data, sent, iblock, bheight>>

\* CrossShardBlock and MessageCommit also end in a transition; that makes a difference
\* only to a proposer that has started and not handled a message yet.
ReceiveCross(n) ==
    /\ Idle /\ step[n] = "Propose" /\ proposal[n] /\ parts[n] = Part
    /\ busy' = [busy EXCEPT ![n] = TRUE]
    /\ UNCHANGED <<height, step, data, relay, bseen, net, sent, iblock, bheight>>

-----------------------------------------------------------------------------
(* handleStateTransition, one iteration at a time. *)

FinishProposal(n) == proposal[n] /\ parts[n] = Part

\* doPropose
DoPropose(n) ==
    /\ busy[n] /\ step[n] = "Propose" /\ FinishProposal(n)
    /\ prevotes' = [prevotes EXCEPT ![n] = @ \cup {n}]
    /\ Send(Node \ {n}, {[kind |-> "Prevote", height |-> height[n], from |-> n]})
    /\ step' = [step EXCEPT ![n] = "Prevote"]
    /\ UNCHANGED <<height, busy, proposal, parts, buffer, precommits, relay, bseen, iblock, bheight>>

FinishPrevote(n) == HasMaj23(prevotes[n])
FinishPrecommit(n) == HasMaj23(precommits[n])

\* doPrevote
DoPrevote(n) ==
    /\ busy[n] /\ step[n] = "Prevote" /\ FinishPrevote(n)
    /\ precommits' = [precommits EXCEPT ![n] = @ \cup {n}]
    /\ Send(Node \ {n}, {[kind |-> "Precommit", height |-> height[n], from |-> n]})
    /\ step' = [step EXCEPT ![n] = "Precommit"]
    /\ UNCHANGED <<height, busy, proposal, parts, buffer, prevotes, relay, bseen, iblock, bheight>>

\* doPrecommit: execute the block; the proposer sends it to the B shards.
DoPrecommit(n) ==
    /\ busy[n] /\ step[n] = "Precommit" /\ FinishPrecommit(n)
    /\ iblock' = IF Proposer(height[n]) = n THEN iblock \cup {height[n]} ELSE iblock
    /\ step' = [step EXCEPT ![n] = "Commit"]
    /\ UNCHANGED <<height, busy, data, relay, bseen, net, sent, bheight>>

\* Mutant: bcount begins one too low.
BCountZero_but_one(n) == Cardinality(BShard \ bseen[n]) <= 1

\* bcount == 0
BCountZero(n) == bseen[n] = BShard

\* doCommit, once bcount is 0: the next height.
DoCommit(n) ==
    /\ busy[n] /\ step[n] = "Commit" /\ BCountZero(n)
    /\ height[n] < MaxHeight
    /\ enterNewHeight(n)
    /\ UNCHANGED <<busy, iblock, bheight>>

\* Nothing to do: the handler returns.
Return(n) ==
    /\ busy[n]
    /\ \/ step[n] = "Propose" /\ ~FinishProposal(n)
       \/ step[n] = "Prevote" /\ ~FinishPrevote(n)
       \/ step[n] = "Precommit" /\ ~FinishPrecommit(n)
       \/ step[n] = "Commit" /\ (~BCountZero(n) \/ height[n] = MaxHeight)
    /\ busy' = [busy EXCEPT ![n] = FALSE]
    /\ UNCHANGED <<height, step, data, relay, bseen, net, sent, iblock, bheight>>

\* A B shard leaves its height once it holds this shard's block of it, and says so.
BCommit(b) ==
    /\ Idle /\ (bheight[b] + 1) \in iblock
    /\ bheight' = [bheight EXCEPT ![b] = @ + 1]
    /\ Send(Node, {[kind |-> "OK", height |-> bheight[b] + 1, from |-> b]})
    /\ UNCHANGED <<height, step, busy, data, relay, bseen, iblock>>

Receive(n, m) == \/ Ignore(n, m)
                 \/ PutAside(n, m)
                 \/ ReceiveProposal(n, m)
                 \/ ReceivePart(n, m)
                 \/ ReceiveVote(n, m)
                 \/ ReceiveOK(n, m)

Next == \/ \E n \in Node : \/ Start(n)
                           \/ DoPropose(n)
                           \/ DoPrevote(n)
                           \/ DoPrecommit(n)
                           \/ DoCommit(n)
                           \/ Return(n)
                           \/ ReceiveCross(n)
                           \/ \E m \in net[n] : Receive(n, m)
        \/ \E b \in BShard : BCommit(b)

Spec == Init /\ [][Next]_vars
-----------------------------------------------------------------------------
Voters(kind, h) == From({m \in sent : m.height = h}, kind)
Executed(n) == IF step[n] = "Commit" THEN height[n] ELSE height[n] - 1

\* A node executes a block only when more than two thirds of the power precommitted
\* it, and somebody precommits only when more than two thirds prevoted it: votes of
\* another height that were put aside and replayed are never counted.
CertifiedExecution == \A n \in Node : \A h \in 1 .. Executed(n) :
    /\ 3 * Power(Voters("Precommit", h)) > 2 * Power(Node)
    /\ 3 * Power(Voters("Prevote", h)) > 2 * Power(Node)

\* No node begins a height before every B shard has left the one before, although
\* a MessageOK may be counted early, for a height it is not about.
BShardsFirst == \A n \in Node, b \in BShard : height[n] <= bheight[b] + 1

(***************************************************************************)
(* Liveness: handlers run, and a message sent is delivered, once.          *)
(***************************************************************************)
Fairness ==
    /\ \A n \in Node : /\ WF_vars(Start(n)) /\ WF_vars(DoPropose(n)) /\ WF_vars(DoPrevote(n))
                       /\ WF_vars(DoPrecommit(n)) /\ WF_vars(DoCommit(n)) /\ WF_vars(Return(n))
                       /\ \A m \in Message : WF_vars(Receive(n, m))
    /\ \A b \in BShard : WF_vars(BCommit(b))

FairSpec == Spec /\ Fairness

\* If no node crashes, every node executes every block: no order of messages, put
\* aside or not, leaves a node waiting, the proposer included, which sends nothing
\* to itself.
AllExecute == [](\A n \in Node : step[n] # "Crashed") => \A n \in Node : <>(Executed(n) = MaxHeight)
=============================================================================
