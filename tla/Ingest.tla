------------------------------- MODULE Ingest -------------------------------
(***************************************************************************)
(* How a transaction gets into a block: the importer of a node adds it to  *)
(* its own mempool and, in Pyramid, sends it to the other nodes of the     *)
(* shard (utils/p2p Sender and Receiver); their receivers add it to        *)
(* theirs; the proposer of a height reaps a block, and each node that      *)
(* executes the block removes its transactions.  In Urd the leader alone   *)
(* imports, before it starts, and removes what it proposes.                *)
(*                                                                         *)
(* The nodes' steps interleave, and so do the goroutines of one node: the  *)
(* importer, a Send for every message and peer, a reader per connection.   *)
(* AddTx is two steps, the push and the entry in txsMap, since it holds no *)
(* lock.  ReapTx and Update hold stateMtx and only pushes run beside them: *)
(* each is one step.  What the nodes do to agree on a block is             *)
(* PyramidShard's and UrdShard's subject: a block is agreed when reaped.   *)
(***************************************************************************)
EXTENDS Integers, Sequences, SequencesExt, FiniteSets

CONSTANTS N,          \* nodes 0 .. N-1
          Tx,
          Imported,   \* the transactions of each node's importer, in order
          Lockable,   \* the transactions that share a key with cross-shard ones
          Retries,    \* how often TcpDial tries again
          Size,       \* bytes of each transaction
          MaxBytes,   \* max_bytes of an Urd block
          MaxTxs,     \* maxBlockTxNum of a Pyramid block
          MaxLag,     \* bound: agreed blocks that some node has not executed
          Breakable,  \* bound: the connections that may break
          Nil

Node == 0 .. (N - 1)
Leader == 0                  \* LeaderIndex of an Urd shard
Queue == INSTANCE CList WITH Element <- Tx

ASSUME NodeAssumption == N \in Nat \ {0} /\ MaxLag \in Nat /\ Retries \in Nat
ASSUME TxAssumption == IsFiniteSet(Tx) /\ Nil \notin Tx
ASSUME ImportAssumption ==
    /\ Imported \in [Node -> Seq(Tx)]
    /\ \A m, n \in Node : m # n => ToSet(Imported[m]) \cap ToSet(Imported[n]) = {}
    /\ \A n \in Node : IsInjective(Imported[n])
\* Otherwise ReapTx of Urd never gets past the transaction.
ASSUME SizeAssumption == MaxTxs \in Nat \ {0} /\ \A t \in Tx : Size[t] < MaxBytes

VARIABLES
    system,     \* "urd" or "pyramid": whose mempool it is
    listening,  \* the nodes whose Receiver has started
    conn,       \* connMap: conn[m][n] of m's connection to n
    wire,       \* wire[m][n]: the lines written and not read, in order
    sending,    \* sending[n]: the Sends of n, with the tries they have left
    importing,  \* how many transactions the importer of a node has added
    adding,     \* the transactions of a node whose AddTx has pushed and not stored
    list,       \* Mempool.txs
    txsMap,     \* Mempool.txsMap: the transactions it has an element for
    locked,     \* the transactions that touch a locked key
    started,    \* the nodes whose Sender, importer and consensus have started
    turn,       \* the proposer of the next height
    blocks,     \* the agreed blocks that some node has not executed
    ahead,      \* how many of them a node has executed
    queue,      \* history: what each mempool should hold, in order
    executed,   \* history: the transactions each node has executed
    late,       \* history: those it executed before its AddTx had ended
    agreed,     \* history: the transactions of all blocks
    twice,      \* history: those that are in two blocks
    lost,       \* history: <<m, n>> if a Send of m to n has failed
    missed      \* history: a consensus started when not every node was up

net     == <<listening, conn, wire, sending, lost>>
pool    == <<adding, list, txsMap, queue>>
life    == <<started, missed>>
chain   == <<turn, blocks, ahead, executed, late, agreed, twice>>
vars    == <<system, net, importing, pool, locked, life, chain>>

Pairs(x) == [m \in Node |-> [n \in Node |-> x]]

Init ==
    /\ system \in {"urd", "pyramid"}
    /\ listening = {}
    /\ conn      = Pairs("none")
    /\ wire      = Pairs(<<>>)
    /\ sending   = [n \in Node |-> {}]
    /\ lost      = {}
    /\ importing = [n \in Node |-> 0]
    /\ adding    = [n \in Node |-> {}]
    /\ list      = [n \in Node |-> Queue!New]
    /\ txsMap    = [n \in Node |-> {}]
    /\ queue     = [n \in Node |-> <<>>]
    /\ locked    = {}
    /\ started   = {}
    /\ missed    = FALSE
    /\ turn      = 0
    /\ blocks    = <<>>
    /\ ahead     = [n \in Node |-> 0]
    /\ executed  = [n \in Node |-> {}]
    /\ late      = [n \in Node |-> {}]
    /\ agreed    = {}
    /\ twice     = {}

-----------------------------------------------------------------------------
(* Mempool. *)

\* The first step of AddTx; ValidateTx has been passed.
Push(n, t) ==
    /\ list' = [list EXCEPT ![n] = Queue!PushBack(@, t)]
    /\ queue' = [queue EXCEPT ![n] = Append(@, t)]
    /\ adding' = [adding EXCEPT ![n] = @ \cup {t}]
    /\ UNCHANGED txsMap

\* The second: txsMap.Store
Store(n, t) ==
    /\ t \in adding[n]
    /\ adding' = [adding EXCEPT ![n] = @ \ {t}]
    /\ txsMap' = [txsMap EXCEPT ![n] = @ \cup {t}]
    /\ UNCHANGED <<system, net, importing, list, queue, locked, life, chain>>

Listed(n) == Queue!Forward(list[n], Cardinality(Tx))

\* Mutant: one byte less fits.
ReapBytes_strict(n) ==
    LET bytes(k) == FoldLeft(LAMBDA sum, t : sum + Size[t], 0, SubSeq(Listed(n), 1, k))
        fit == {k \in 0 .. Len(Listed(n)) : k = 0 \/ bytes(k) < MaxBytes - 1}
    IN  SubSeq(Listed(n), 1, CHOOSE k \in fit : \A j \in fit : j <= k)

\* ReapTx of Urd: transactions in order, as long as their bytes are below the limit
ReapBytes(n) ==
    LET bytes(k) == FoldLeft(LAMBDA sum, t : sum + Size[t], 0, SubSeq(Listed(n), 1, k))
        fit == {k \in 0 .. Len(Listed(n)) : k = 0 \/ bytes(k) < MaxBytes}
    IN  SubSeq(Listed(n), 1, CHOOSE k \in fit : \A j \in fit : j <= k)

\* ReapTx of Pyramid: a number of them, without those that are locked
ReapTxs(n) ==
    FoldLeft(LAMBDA txs, t : IF t \in locked \/ Len(txs) >= MaxTxs THEN txs ELSE Append(txs, t),
             <<>>, Listed(n))

ReapTx(n) == IF system = "urd" THEN ReapBytes(n) ELSE ReapTxs(n)

\* Mutant: the element stays in the list.
RemoveTx_forgets(m, t) ==
    IF t \in m.map THEN [m EXCEPT !.map = @ \ {t}, !.queue = RemoveFirst(@, t)] ELSE m

\* RemoveTx: the element that txsMap has for the transaction, if any, and its entry
RemoveTx(m, t) ==
    IF t \in m.map
    THEN [list |-> Queue!RemoveElement(m.list, t), map |-> m.map \ {t}, queue |-> RemoveFirst(m.queue, t)]
    ELSE m

-----------------------------------------------------------------------------
(* Importer, Sender and Receiver. *)

\* Receiver.Start; in Urd no transaction comes that way.
ReceiverStart(n) ==
    /\ system = "pyramid" /\ n \notin listening
    /\ listening' = listening \cup {n}
    /\ UNCHANGED <<system, conn, wire, sending, lost, importing, pool, locked, life, chain>>

\* Sender.Start connects to the peers that are up and only reports the errors.
SenderStart(m) ==
    conn' = [conn EXCEPT ![m] = [n \in Node |-> IF n \in listening \ {m} THEN "up" ELSE @[n]]]

\* main after its sleeps: Sender.Start, StartMempool and consensus.Start.  Consensus
\* sends its messages once, so whoever has no receiver by now misses them for good.
NodeStart(m) ==
    /\ m \in listening \ started
    /\ started' = started \cup {m}
    /\ missed' = (missed \/ listening # Node)
    /\ SenderStart(m)
    /\ UNCHANGED <<system, listening, wire, sending, lost, importing, pool, locked, chain>>

\* StartMempool (Pyramid) and Start (Urd) of the importer: AddTx of the next
\* transaction, and SendToShard, which starts a Send for every peer.
Import(n) ==
    LET t  == Imported[n][importing[n] + 1]
        to == IF system = "urd" THEN {} ELSE Node \ {n}
    IN  /\ IF system = "urd" THEN n = Leader ELSE n \in started
        /\ importing[n] < Len(Imported[n]) /\ adding[n] \cap ToSet(Imported[n]) = {}
        /\ importing' = [importing EXCEPT ![n] = @ + 1]
        /\ Push(n, t)
        /\ sending' = [sending EXCEPT ![n] = @ \cup {[tx |-> t, to |-> p, left |-> Retries] : p \in to}]
        /\ UNCHANGED <<system, listening, conn, wire, lost, locked, life, chain>>

\* TcpDial that has a connection, or makes one, and writes
Write(m, s) ==
    /\ \/ conn[m][s.to] = "up"
       \/ conn[m][s.to] = "none" /\ s.to \in listening
    /\ conn' = [conn EXCEPT ![m][s.to] = "up"]
    /\ wire' = [wire EXCEPT ![m][s.to] = Append(@, s.tx)]
    /\ sending' = [sending EXCEPT ![m] = @ \ {s}]
    /\ UNCHANGED <<system, listening, lost, importing, pool, locked, life, chain>>

\* TcpDial that cannot connect gives up at once; one whose write fails tries again, on
\* the same connection, and then gives up.
WriteFails(m, s) ==
    /\ \/ /\ conn[m][s.to] = "none" /\ s.to \notin listening
          /\ sending' = [sending EXCEPT ![m] = @ \ {s}]
          /\ lost' = lost \cup {<<m, s.to>>}
       \/ /\ conn[m][s.to] = "broken" /\ s.left = 0
          /\ sending' = [sending EXCEPT ![m] = @ \ {s}]
          /\ UNCHANGED lost
       \/ /\ conn[m][s.to] = "broken" /\ s.left > 0
          /\ sending' = [sending EXCEPT ![m] = (@ \ {s}) \cup {[s EXCEPT !.left = @ - 1]}]
          /\ UNCHANGED lost
    /\ UNCHANGED <<system, listening, conn, wire, importing, pool, locked, life, chain>>

\* The network or the deadline of 30 minutes ends a connection.  Some of what was
\* written can still be read; connMap keeps the connection.
Break(m, n) ==
    /\ conn[m][n] = "up" /\ <<m, n>> \in Breakable
    /\ conn' = [conn EXCEPT ![m][n] = "broken"]
    /\ \E k \in 0 .. Len(wire[m][n]) : wire' = [wire EXCEPT ![m][n] = SubSeq(@, 1, k)]
    /\ UNCHANGED <<system, listening, sending, lost, importing, pool, locked, life, chain>>

\* Mutant: the reader is made anew for every line, and what it had buffered is gone.
Unread_none(lines) == <<>>

\* What is left when the first line has been read
Unread(lines) == Tail(lines)

\* handleConnection: the reader takes a line, and AddTx begins.  It reads the next one
\* when AddTx has returned.
Read(m, n) ==
    /\ wire[m][n] # <<>> /\ adding[n] \cap ToSet(Imported[m]) = {}
    /\ wire' = [wire EXCEPT ![m][n] = Unread(@)]
    /\ Push(n, Head(wire[m][n]))
    /\ UNCHANGED <<system, listening, conn, sending, lost, importing, locked, life, chain>>
-----------------------------------------------------------------------------
(* Blocks. *)

\* setLock: the shard executes its acceptance of a cross-shard block over a key of the
\* transaction, once more or for the first time.
Lock(t) ==
    /\ started # {} /\ t \notin locked
    /\ locked' = locked \cup {t}
    /\ UNCHANGED <<system, net, importing, pool, life, chain>>

\* releaseLock, undoLock; that no key stays locked is PyramidCross's subject.
Unlock(t) ==
    /\ t \in locked
    /\ locked' = locked \ {t}
    /\ UNCHANGED <<system, net, importing, pool, life, chain>>

\* Update; every caller passes nil for the second argument, the commit status.
Update(n, txs) ==
    \E m \in {FoldLeft(RemoveTx, [list |-> list[n], map |-> txsMap[n], queue |-> queue[n]], txs)} :
        /\ list' = [list EXCEPT ![n] = m.list]
        /\ txsMap' = [txsMap EXCEPT ![n] = m.map]
        /\ queue' = [queue EXCEPT ![n] = m.queue]
        /\ UNCHANGED adding

Agree(txs) == /\ agreed' = agreed \cup ToSet(txs)
              /\ twice' = twice \cup (agreed \cap ToSet(txs))

\* createIBlockTxs: the proposer of the height has executed every block before.
ProposePyramid(n) ==
    /\ system = "pyramid" /\ turn = n /\ n \in started
    /\ ahead[n] = Len(blocks) /\ Len(blocks) < MaxLag
    /\ \E txs \in {ReapTx(n)} : Agree(txs) /\ blocks' = Append(blocks, txs)
    /\ turn' = (turn + 1) % N
    /\ UNCHANGED <<system, net, importing, pool, locked, life, ahead, executed, late>>

\* updateIState of a node that executes the next block.  A block that all have
\* executed is of no more interest.
ExecuteBlock(n) ==
    LET txs  == blocks[ahead[n] + 1]
        last == ahead[n] = 0 /\ \A m \in Node \ {n} : ahead[m] > 0
    IN  /\ n \in started /\ ahead[n] < Len(blocks)
        /\ Update(n, txs)
        /\ executed' = [executed EXCEPT ![n] = @ \cup ToSet(txs)]
        /\ late' = [late EXCEPT ![n] = @ \cup (ToSet(txs) \ txsMap[n])]
        /\ blocks' = IF last THEN Tail(blocks) ELSE blocks
        /\ ahead' = [m \in Node |-> ahead[m] + (IF m = n THEN 1 ELSE 0) - (IF last THEN 1 ELSE 0)]
        /\ UNCHANGED <<system, net, importing, locked, life, turn, agreed, twice>>

\* make_block of the Urd leader, which has imported everything, and the Update after it
ProposeUrd ==
    LET txs == ReapTx(Leader)
    IN  /\ system = "urd" /\ importing[Leader] = Len(Imported[Leader]) /\ adding[Leader] = {}
        /\ Agree(txs)
        /\ Update(Leader, txs)
        /\ executed' = [executed EXCEPT ![Leader] = @ \cup ToSet(txs)]
        /\ UNCHANGED <<system, net, importing, locked, life, turn, blocks, ahead, late>>

Next == \/ \E n \in Node : \/ ReceiverStart(n) \/ NodeStart(n) \/ Import(n)
                           \/ ProposePyramid(n) \/ ExecuteBlock(n)
                           \/ \E s \in sending[n] : Write(n, s) \/ WriteFails(n, s)
                           \/ \E t \in Tx : Store(n, t)
                           \/ \E m \in Node : Break(m, n) \/ Read(m, n)
        \/ \E t \in Lockable : Lock(t)
        \/ \E t \in Tx : Unlock(t)
        \/ ProposeUrd

\* No node missed the start of consensus, and no connection, which consensus uses too, is broken.
Whole == ~missed /\ \A m, n \in Node : conn[m][n] # "broken"

\* The goroutines run; nothing makes a connection break, a node start or a key be locked.
\* Consensus goes on only while it can send what it has to: the proposers take turns, and
\* there is no second round without one.  That of Urd goes on (LeaderProgress of UrdShard).
\* Keys are locked again and again, but not for ever: importers have finitely many
\* cross-shard transactions, and each lock is released (NoLeakedLock of PyramidCross).
Fairness ==
    /\ \A n \in Node :
           /\ WF_vars(NodeStart(n))
           /\ WF_vars(Import(n) \/ \E t \in ToSet(Imported[n]) : Store(n, t))
           /\ WF_vars(\E s \in sending[n] : Write(n, s) \/ WriteFails(n, s))
           /\ \A m \in Node \ {n} : WF_vars(Read(m, n) \/ \E t \in ToSet(Imported[m]) : Store(n, t))
           /\ WF_vars(Whole /\ (ProposePyramid(n) \/ ExecuteBlock(n)))
    /\ WF_vars(ProposeUrd)
    /\ <>[](locked = {})

Spec == Init /\ [][Next]_vars /\ Fairness
-----------------------------------------------------------------------------
\* The list of a mempool is the queue it stands for: both directions visit it, in
\* order, its operations never panic, and whoever waits for an element waits only as
\* long as there is none (no wake-up is lost and no WaitGroup is used up twice).
ListSound == \A n \in Node :
    LET l == list[n]
        q == queue[n]
        size == Cardinality(Tx) + 1
    IN  /\ ~l.panic /\ l.len = Len(q)
        /\ Queue!Forward(l, size) = q /\ Queue!Backward(l, size) = Reverse(q)
        /\ Queue!FrontWaits(l) <=> q = <<>>
        /\ \A k \in DOMAIN q : /\ Queue!NextWaits(l, q[k]) <=> k = Len(q)
                               /\ Queue!PrevWaits(l, q[k]) <=> k = 1
        /\ \A e \in l.removed : ~Queue!NextWaits(l, e) /\ ~Queue!PrevWaits(l, e)
        /\ \A e \in Tx : l.nextWg[e] >= 0 /\ l.prevWg[e] >= 0 /\ l.wg >= 0

\* Nothing remembers what has been executed: a transaction is in a mempool after its
\* block, or in a second block, only if AddTx of some node ended after that node had
\* executed the first one.
ReturnsOnlyLate ==
    /\ \A n \in Node : ToSet(queue[n]) \cap executed[n] \subseteq late[n]
    /\ twice \subseteq UNION {late[n] : n \in Node}

Importer == {n \in Node : Imported[n] # <<>>}

\* Every transaction that is imported gets into a block, unless a node was not up when
\* consensus started or a connection breaks: neither one that is locked when its turn
\* comes, however often cross-shard transactions lock it before they end, nor a full
\* block, nor another node that proposes from a mempool it has not reached, keeps it out for ever.
EventuallyAgreed == \A n \in Importer :
    importing[n] = Len(Imported[n]) ~> ToSet(Imported[n]) \subseteq agreed \/ ~Whole

\* A transaction that is sent to a node is added to its mempool, unless the connection
\* has broken or could not be made: nothing else is lost on the way.
ArrivesOrBroken == \A m \in Importer : \A n \in Node \ {m}, t \in ToSet(Imported[m]) :
    (\E s \in sending[m] : s.to = n /\ s.tx = t)
        ~> t \in ToSet(queue[n]) \/ conn[m][n] = "broken" \/ <<m, n>> \in lost
=============================================================================
