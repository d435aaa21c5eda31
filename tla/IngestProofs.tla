---------------------------- MODULE IngestProofs ----------------------------
(***************************************************************************)
(* Mempools and their lists, proved for any nodes, transactions, files and *)
(* bounds.  The linked list needs elements that are new when pushed; that  *)
(* they are is a fact about importers, senders, connections and receivers  *)
(* together: no transaction comes to a node twice.                         *)
(***************************************************************************)
EXTENDS Ingest, FiniteSums, SequenceTheorems

(***************************************************************************)
(* The inductive invariant.                                                *)
(***************************************************************************)

\* The fields of a list.
IsList(l) ==
    /\ l = [head |-> l.head, tail |-> l.tail, len |-> l.len, wg |-> l.wg,
            next |-> l.next, nextWg |-> l.nextWg, prev |-> l.prev, prevWg |-> l.prevWg,
            removed |-> l.removed, panic |-> l.panic]
    /\ l.next = [e \in Tx |-> l.next[e]] /\ l.nextWg = [e \in Tx |-> l.nextWg[e]]
    /\ l.prev = [e \in Tx |-> l.prev[e]] /\ l.prevWg = [e \in Tx |-> l.prevWg[e]]

\* An element that was never in the list.
Fresh(l, e) == /\ e \notin l.removed /\ l.next[e] = Nil /\ l.nextWg[e] = 1
               /\ l.prev[e] = Nil /\ l.prevWg[e] = 1

\* The k-th element of q, and what is beside it.
Placed(l, q, k) ==
    /\ q[k] \notin l.removed
    /\ l.next[q[k]] = (IF k = Len(q) THEN Nil ELSE q[k + 1]) /\ l.nextWg[q[k]] = (IF k = Len(q) THEN 1 ELSE 0)
    /\ l.prev[q[k]] = (IF k = 1 THEN Nil ELSE q[k - 1]) /\ l.prevWg[q[k]] = (IF k = 1 THEN 1 ELSE 0)

\* The list l is the queue q.
Linked(l, q) ==
    /\ IsList(l) /\ q \in Seq(Tx) /\ IsInjective(q)
    /\ l.panic = FALSE /\ l.len = Len(q) /\ l.wg = (IF q = <<>> THEN 1 ELSE 0)
    /\ l.head = (IF q = <<>> THEN Nil ELSE q[1]) /\ l.tail = (IF q = <<>> THEN Nil ELSE q[Len(q)])
    /\ \A k \in DOMAIN q : Placed(l, q, k)
    /\ l.removed \subseteq Tx /\ \A e \in l.removed : l.nextWg[e] = 0 /\ l.prevWg[e] = 0
    /\ \A e \in Tx : e \in l.removed \/ e \in ToSet(q) \/ Fresh(l, e)

\* Every element of a list either waits for its entry in txsMap or has it.
MapInv(n) == /\ Linked(list[n], queue[n])
             /\ adding[n] \cup txsMap[n] = ToSet(queue[n]) /\ adding[n] \cap txsMap[n] = {}

\* What an importer has read, and what has come to a node.
Sent(m) == {Imported[m][i] : i \in 1 .. importing[m]}
Came(n) == ToSet(queue[n]) \cup list[n].removed

\* A Send that is under way, and the lines to a node.
SendInv(m) == /\ importing[m] \in 0 .. Len(Imported[m])
              /\ sending[m] \subseteq [tx : Sent(m), to : Node \ {m}, left : Nat]
WireInv(m, n) == /\ wire[m][n] \in Seq(Tx) /\ IsInjective(wire[m][n])
                 /\ ToSet(wire[m][n]) \subseteq Sent(m) /\ (n = m => wire[m][n] = <<>>)

\* A transaction is on its way to a node at most once ...
OnceInv(m) == \A s \in sending[m] :
    /\ s.tx \notin ToSet(wire[m][s.to])
    /\ \A r \in sending[m] : r.tx = s.tx /\ r.to = s.to => r = s

\* ... and on its way to a node it has not come to.
CameInv(m, n) == /\ \A s \in sending[m] : s.to = n => s.tx \notin Came(n)
                 /\ ToSet(wire[m][n]) \cap Came(n) = {}

\* What a node has still to execute.
Pending(n) == UNION {ToSet(blocks[i]) : i \in (ahead[n] + 1) .. Len(blocks)}

\* A node has executed, or will, what is agreed; what it has executed in time is gone.
ChainInv(n) ==
    /\ ahead[n] \in 0 .. Len(blocks)
    /\ executed[n] \subseteq late[n] \cup list[n].removed
    /\ system = "pyramid" \/ n = Leader => agreed \subseteq executed[n] \cup Pending(n)

TypeInv == /\ system \in {"urd", "pyramid"} /\ blocks \in Seq(Seq(Tx))
           /\ DOMAIN list = Node /\ DOMAIN txsMap = Node /\ DOMAIN queue = Node /\ DOMAIN adding = Node
           /\ DOMAIN executed = Node /\ DOMAIN late = Node /\ DOMAIN ahead = Node
           /\ DOMAIN importing = Node /\ DOMAIN sending = Node /\ DOMAIN wire = Node
           /\ \A m \in Node : DOMAIN wire[m] = Node
           /\ system = "urd" => blocks = <<>>

PoolInv == \A n \in Node : MapInv(n)
WayInv == /\ \A m \in Node : SendInv(m) /\ OnceInv(m)
          /\ \A m, n \in Node : WireInv(m, n) /\ CameInv(m, n)
          /\ \A n \in Node : Came(n) \subseteq UNION {Sent(m) : m \in Node}
BlockInv == /\ \A n \in Node : ChainInv(n)
            /\ twice \subseteq UNION {late[n] : n \in Node}

IngestInv == TypeInv /\ PoolInv /\ WayInv /\ BlockInv

(***************************************************************************)
(* Sequences without repetitions.                                          *)
(***************************************************************************)

\* What a sequence of transactions is.
LEMMA SeqFacts ==
    ASSUME NEW S, NEW q \in Seq(S)
    PROVE  /\ Len(q) \in Nat /\ DOMAIN q = 1 .. Len(q) /\ (q = <<>> <=> Len(q) = 0)
           /\ \A i \in 1 .. Len(q) : q[i] \in S /\ q[i] \in ToSet(q)
           /\ \A e \in ToSet(q) : e \in S /\ \E i \in 1 .. Len(q) : q[i] = e
<1>1. Len(q) \in Nat /\ DOMAIN q = 1 .. Len(q) /\ \A i \in 1 .. Len(q) : q[i] \in S
  BY LenProperties
<1>2. q = <<>> <=> Len(q) = 0
  BY EmptySeq
<1>3. \A i \in 1 .. Len(q) : q[i] \in ToSet(q)
  BY <1>1 DEF ToSet
<1>4. \A e \in ToSet(q) : \E i \in 1 .. Len(q) : q[i] = e
  BY <1>1 DEF ToSet
<1> QED BY <1>1, <1>2, <1>3, <1>4

\* Injectivity, on positions.
LEMMA Distinct ==
    ASSUME NEW S, NEW q \in Seq(S)
    PROVE  IsInjective(q) <=> \A i, j \in 1 .. Len(q) : q[i] = q[j] => i = j
<1>1. DOMAIN q = 1 .. Len(q)
  BY LenProperties
<1> QED BY <1>1 DEF IsInjective

\* Append of something new.
LEMMA AppendNew ==
    ASSUME NEW S, NEW q \in Seq(S), NEW e \in S
    PROVE  /\ Append(q, e) \in Seq(S) /\ Len(Append(q, e)) = Len(q) + 1 /\ Append(q, e) # <<>>
           /\ \A i \in 1 .. Len(q) : Append(q, e)[i] = q[i]
           /\ Append(q, e)[Len(q) + 1] = e
           /\ ToSet(Append(q, e)) = ToSet(q) \cup {e}
           /\ IsInjective(q) /\ e \notin ToSet(q) => IsInjective(Append(q, e))
<1> DEFINE r == Append(q, e)
<1>1. /\ r \in Seq(S) /\ Len(r) = Len(q) + 1 /\ r # <<>>
      /\ \A i \in 1 .. Len(q) : r[i] = q[i]
      /\ r[Len(q) + 1] = e
  BY AppendProperties
<1>2. Len(q) \in Nat
  BY SeqFacts
<1> HIDE DEF r
<1>3. \A i \in 1 .. Len(r) : i \in 1 .. Len(q) \/ i = Len(q) + 1
  BY <1>1, <1>2
<1>4. ASSUME NEW x PROVE x \in ToSet(r) <=> x \in ToSet(q) \cup {e}
  <2>1. ASSUME x \in ToSet(r) PROVE x \in ToSet(q) \cup {e}
    <3>1. PICK i \in 1 .. Len(r) : r[i] = x
      BY <1>1, <2>1, SeqFacts
    <3>2. \A j \in 1 .. Len(q) : q[j] \in ToSet(q)
      BY SeqFacts
    <3> QED BY <1>1, <1>3, <3>1, <3>2
  <2>2. ASSUME x \in ToSet(q) PROVE x \in ToSet(r)
    <3>1. PICK i \in 1 .. Len(q) : q[i] = x
      BY <2>2, SeqFacts
    <3>2. i \in 1 .. Len(r) /\ r[i] = x
      BY <1>1, <1>2, <3>1
    <3> QED BY <1>1, <3>2, SeqFacts
  <2>3. ASSUME x = e PROVE x \in ToSet(r)
    <3>1. Len(q) + 1 \in 1 .. Len(r)
      BY <1>1, <1>2
    <3> QED BY <1>1, <2>3, <3>1, SeqFacts
  <2> QED BY <2>1, <2>2, <2>3
<1>5. ToSet(r) = ToSet(q) \cup {e}
  BY <1>4
<1>6. ASSUME IsInjective(q), e \notin ToSet(q) PROVE IsInjective(r)
  <2>1. \A i, j \in 1 .. Len(q) : q[i] = q[j] => i = j
    BY <1>6, Distinct
  <2>2. \A i \in 1 .. Len(q) : q[i] # e
    BY <1>6, SeqFacts
  <2>3. \A i, j \in 1 .. Len(r) : r[i] = r[j] => i = j
    BY <1>1, <1>3, <2>1, <2>2
  <2> QED BY <1>1, <2>3, Distinct
<1> QED BY <1>1, <1>5, <1>6 DEF r

\* Part of a sequence.
LEMMA PartOf ==
    ASSUME NEW S, NEW q \in Seq(S), NEW a \in Nat, NEW b \in 0 .. Len(q), a >= 1, a <= b + 1
    PROVE  /\ SubSeq(q, a, b) \in Seq(S) /\ Len(SubSeq(q, a, b)) = (b + 1) - a
           /\ \A i \in 1 .. (b + 1) - a : SubSeq(q, a, b)[i] = q[(a + i) - 1] /\ (a + i) - 1 \in 1 .. Len(q)
<1>1. Len(q) \in Nat /\ \A i \in 1 .. Len(q) : q[i] \in S
  BY SeqFacts
<1>2. \A i \in a .. b : q[i] \in S
  BY <1>1
<1>3. a \in Int /\ b \in Int
  BY <1>1
<1>4. /\ SubSeq(q, a, b) \in Seq(S)
      /\ Len(SubSeq(q, a, b)) = IF a <= b THEN b - a + 1 ELSE 0
      /\ \A i \in 1 .. b - a + 1 : SubSeq(q, a, b)[i] = q[a + i - 1]
  BY <1>2, <1>3, SubSeqProperties
<1>5. b - a + 1 = (b + 1) - a /\ \A i \in 1 .. (b + 1) - a : a + i - 1 = (a + i) - 1 /\ (a + i) - 1 \in 1 .. Len(q)
  BY <1>1
<1>6. Len(SubSeq(q, a, b)) = (b + 1) - a
  BY <1>1, <1>4
<1> QED BY <1>4, <1>5, <1>6

\* A prefix has no other elements, and none twice.
LEMMA Prefix ==
    ASSUME NEW S, NEW q \in Seq(S), NEW k \in 0 .. Len(q)
    PROVE  /\ SubSeq(q, 1, k) \in Seq(S) /\ ToSet(SubSeq(q, 1, k)) \subseteq ToSet(q)
           /\ IsInjective(q) => IsInjective(SubSeq(q, 1, k))
<1> DEFINE r == SubSeq(q, 1, k)
<1>1. Len(q) \in Nat /\ \A i \in 1 .. Len(q) : q[i] \in S /\ q[i] \in ToSet(q)
  BY SeqFacts
<1>2. r \in Seq(S) /\ Len(r) = k /\ \A i \in 1 .. k : r[i] = q[i] /\ i \in 1 .. Len(q)
  <2>1. /\ r \in Seq(S) /\ Len(r) = (k + 1) - 1
        /\ \A i \in 1 .. (k + 1) - 1 : r[i] = q[(1 + i) - 1] /\ (1 + i) - 1 \in 1 .. Len(q)
    BY <1>1, PartOf
  <2> QED BY <1>1, <2>1
<1> HIDE DEF r
<1>3. ToSet(r) \subseteq ToSet(q)
  BY <1>1, <1>2, SeqFacts
<1>4. ASSUME IsInjective(q) PROVE IsInjective(r)
  <2>1. \A i, j \in 1 .. Len(q) : q[i] = q[j] => i = j
    BY <1>4, Distinct
  <2>2. \A i, j \in 1 .. Len(r) : r[i] = r[j] => i = j
    BY <1>2, <2>1
  <2> QED BY <1>2, <2>2, Distinct
<1> QED BY <1>2, <1>3, <1>4 DEF r

\* The first element and the others.
LEMMA HeadTail ==
    ASSUME NEW S, NEW q \in Seq(S), q # <<>>
    PROVE  /\ Head(q) \in ToSet(q) /\ Head(q) = q[1] /\ Tail(q) \in Seq(S) /\ Len(Tail(q)) = Len(q) - 1
           /\ \A i \in 1 .. Len(q) - 1 : Tail(q)[i] = q[i + 1]
           /\ ToSet(Tail(q)) \subseteq ToSet(q)
           /\ IsInjective(q) => IsInjective(Tail(q)) /\ Head(q) \notin ToSet(Tail(q))
<1> DEFINE r == Tail(q)
<1>1. /\ Len(q) \in Nat /\ Len(q) # 0 /\ \A i \in 1 .. Len(q) : q[i] \in S /\ q[i] \in ToSet(q)
  BY SeqFacts
<1>2. r \in Seq(S) /\ Len(r) = Len(q) - 1 /\ \A i \in 1 .. Len(q) - 1 : r[i] = q[i + 1]
  BY HeadTailProperties
<1>3. Head(q) = q[1]
  OBVIOUS
<1>4. \A i \in 1 .. Len(r) : i + 1 \in 1 .. Len(q) /\ i + 1 # 1 /\ i \in 1 .. Len(q) - 1
  BY <1>1, <1>2
<1> HIDE DEF r
<1>5. \A i \in 1 .. Len(r) : r[i] = q[i + 1]
  BY <1>2, <1>4
<1>6. ToSet(r) \subseteq ToSet(q)
  <2>1. \A e \in ToSet(r) : \E i \in 1 .. Len(r) : r[i] = e
    BY <1>2, SeqFacts
  <2> QED BY <1>1, <1>4, <1>5, <2>1
<1>7. ASSUME IsInjective(q) PROVE IsInjective(r) /\ Head(q) \notin ToSet(r)
  <2>1. \A i, j \in 1 .. Len(q) : q[i] = q[j] => i = j
    BY <1>7, Distinct
  <2>2. \A i, j \in 1 .. Len(r) : r[i] = r[j] => i = j
    <3> SUFFICES ASSUME NEW i \in 1 .. Len(r), NEW j \in 1 .. Len(r), r[i] = r[j] PROVE i = j
      OBVIOUS
    <3>1. i + 1 = j + 1
      BY <1>4, <1>5, <2>1
    <3> QED BY <3>1
  <2>3. IsInjective(r)
    BY <1>2, <2>2, Distinct
  <2>4. ASSUME Head(q) \in ToSet(r) PROVE FALSE
    <3>1. PICK i \in 1 .. Len(r) : r[i] = q[1]
      BY <1>2, <1>3, <2>4, SeqFacts
    <3>2. 1 \in 1 .. Len(q)
      BY <1>1
    <3> QED BY <1>4, <1>5, <2>1, <3>1, <3>2
  <2> QED BY <2>3, <2>4
<1>8. Head(q) \in ToSet(q)
  <2>1. 1 \in 1 .. Len(q)
    BY <1>1
  <2> QED BY <1>1, <1>3, <2>1
<1> QED BY <1>2, <1>3, <1>6, <1>7, <1>8 DEF r

\* Where RemoveFirst takes an element out of a sequence that has it once.
LEMMA RemoveOnce ==
    ASSUME NEW S, NEW q \in Seq(S), IsInjective(q), NEW i \in 1 .. Len(q)
    PROVE  /\ RemoveFirst(q, q[i]) \in Seq(S) /\ Len(RemoveFirst(q, q[i])) = Len(q) - 1
           /\ \A k \in 1 .. Len(q) - 1 : RemoveFirst(q, q[i])[k] = (IF k < i THEN q[k] ELSE q[k + 1])
<1> DEFINE e == q[i]
           I == {j \in 1 .. Len(q) : q[j] = e}
           a == SubSeq(q, 1, i - 1)
           b == SubSeq(q, i + 1, Len(q))
<1>1. Len(q) \in Nat /\ \A j \in 1 .. Len(q) : q[j] = e => j = i
  <2>1. \A j, k \in 1 .. Len(q) : q[j] = q[k] => j = k
    BY Distinct
  <2> QED BY <2>1, SeqFacts
<1>2. I = {i}
  BY <1>1
<1>3. Min({i}) = i
  BY DEF Min
<1>4. SelectInSeq(q, LAMBDA v : v = e) = i
  BY <1>2, <1>3 DEF SelectInSeq
<1>5. RemoveFirst(q, e) = RemoveAt(q, i)
  BY <1>4 DEF RemoveFirst
<1>6. RemoveFirst(q, e) = a \o b
  BY <1>5 DEF RemoveAt
<1>7. a \in Seq(S) /\ Len(a) = i - 1 /\ \A k \in 1 .. i - 1 : a[k] = q[k]
  <2>1. i - 1 \in 0 .. Len(q) /\ 1 \in Nat /\ 1 <= (i - 1) + 1
    BY <1>1
  <2>2. /\ a \in Seq(S) /\ Len(a) = ((i - 1) + 1) - 1
        /\ \A k \in 1 .. ((i - 1) + 1) - 1 : a[k] = q[(1 + k) - 1]
    BY <2>1, PartOf
  <2> QED BY <2>1, <2>2
<1>8. b \in Seq(S) /\ Len(b) = Len(q) - i /\ \A k \in 1 .. Len(q) - i : b[k] = q[i + k]
  <2>1. Len(q) \in 0 .. Len(q) /\ i + 1 \in Nat /\ i + 1 >= 1 /\ i + 1 <= Len(q) + 1
    BY <1>1
  <2>2. /\ b \in Seq(S) /\ Len(b) = (Len(q) + 1) - (i + 1)
        /\ \A k \in 1 .. (Len(q) + 1) - (i + 1) : b[k] = q[((i + 1) + k) - 1]
    BY <2>1, PartOf
  <2>3. (Len(q) + 1) - (i + 1) = Len(q) - i /\ \A k \in Int : ((i + 1) + k) - 1 = i + k
    BY <1>1
  <2> HIDE DEF b
  <2>4. \A k \in 1 .. Len(q) - i : b[k] = q[((i + 1) + k) - 1] /\ ((i + 1) + k) - 1 = i + k
    <3> SUFFICES ASSUME NEW k \in 1 .. Len(q) - i PROVE b[k] = q[((i + 1) + k) - 1] /\ ((i + 1) + k) - 1 = i + k
      OBVIOUS
    <3>1. k \in 1 .. (Len(q) + 1) - (i + 1) /\ k \in Int
      BY <1>1
    <3> QED BY <2>2, <2>3, <3>1
  <2> QED BY <2>2, <2>3, <2>4
<1> HIDE DEF a, b, e
<1>9. /\ a \o b \in Seq(S) /\ Len(a \o b) = (i - 1) + (Len(q) - i)
      /\ \A k \in 1 .. (i - 1) + (Len(q) - i) : (a \o b)[k] = IF k <= i - 1 THEN a[k] ELSE b[k - (i - 1)]
  <2>1. /\ a \o b \in Seq(S) /\ Len(a \o b) = Len(a) + Len(b)
        /\ \A k \in 1 .. Len(a) + Len(b) : (a \o b)[k] = IF k <= Len(a) THEN a[k] ELSE b[k - Len(a)]
    BY <1>7, <1>8, ConcatProperties
  <2>2. Len(a) = i - 1 /\ Len(b) = Len(q) - i
    BY <1>7, <1>8
  <2> QED BY <2>1, <2>2
<1>10. (i - 1) + (Len(q) - i) = Len(q) - 1
  BY <1>1
<1>11. ASSUME NEW k \in 1 .. Len(q) - 1 PROVE (a \o b)[k] = (IF k < i THEN q[k] ELSE q[k + 1])
  <2>1. (a \o b)[k] = IF k <= i - 1 THEN a[k] ELSE b[k - (i - 1)]
    BY <1>9, <1>10
  <2>2. CASE k < i
    <3>1. k <= i - 1 /\ k \in 1 .. i - 1
      BY <1>1, <2>2
    <3> QED BY <1>7, <2>1, <2>2, <3>1
  <2>3. CASE ~ (k < i)
    <3>1. ~ (k <= i - 1) /\ k - (i - 1) \in 1 .. Len(q) - i /\ i + (k - (i - 1)) = k + 1
      BY <1>1, <2>3
    <3>2. b[k - (i - 1)] = q[i + (k - (i - 1))]
      BY <1>8, <3>1
    <3> QED BY <2>1, <2>3, <3>1, <3>2
  <2> QED BY <2>2, <2>3
<1> QED BY <1>6, <1>9, <1>10, <1>11 DEF e

\* What is left, then.
LEMMA RemoveSet ==
    ASSUME NEW S, NEW q \in Seq(S), IsInjective(q), NEW e \in ToSet(q)
    PROVE  /\ RemoveFirst(q, e) \in Seq(S) /\ IsInjective(RemoveFirst(q, e))
           /\ ToSet(RemoveFirst(q, e)) = ToSet(q) \ {e}
<1>1. PICK i \in 1 .. Len(q) : q[i] = e
  BY SeqFacts
<1> DEFINE r == RemoveFirst(q, e)
           n == Len(q)
<1>2. /\ r \in Seq(S) /\ Len(r) = n - 1
      /\ \A k \in 1 .. n - 1 : r[k] = (IF k < i THEN q[k] ELSE q[k + 1])
  BY <1>1, RemoveOnce
<1>3. n \in Nat /\ (\A j, k \in 1 .. n : q[j] = q[k] => j = k) /\ \A j \in 1 .. n : q[j] \in ToSet(q)
  BY Distinct, SeqFacts
<1>4. i \in 1 .. n
  OBVIOUS
<1> HIDE DEF r, n
<1>5. \A k \in 1 .. n - 1 : k \in 1 .. n /\ k + 1 \in 1 .. n
  BY <1>3
<1>6. \A j, k \in 1 .. Len(r) : r[j] = r[k] => j = k
  <2> SUFFICES ASSUME NEW j \in 1 .. n - 1, NEW k \in 1 .. n - 1, r[j] = r[k] PROVE j = k
    BY <1>2
  <2>1. (IF j < i THEN j ELSE j + 1) = (IF k < i THEN k ELSE k + 1)
    BY <1>2, <1>3, <1>5
  <2> QED BY <1>3, <1>4, <2>1
<1>7. IsInjective(r)
  BY <1>2, <1>6, Distinct
<1>8. ASSUME NEW x PROVE x \in ToSet(r) <=> x \in ToSet(q) \ {e}
  <2>1. ASSUME x \in ToSet(r) PROVE x \in ToSet(q) \ {e}
    <3>1. PICK k \in 1 .. n - 1 : r[k] = x
      BY <1>2, <2>1, SeqFacts
    <3>2. PICK j \in 1 .. n : x = q[j] /\ j # i
      BY <1>2, <1>3, <1>4, <1>5, <3>1
    <3> QED BY <1>1, <1>3, <1>4, <3>2
  <2>2. ASSUME x \in ToSet(q) \ {e} PROVE x \in ToSet(r)
    <3>1. PICK j \in 1 .. n : q[j] = x
      BY <2>2, SeqFacts DEF n
    <3>2. j # i
      BY <1>1, <2>2, <3>1
    <3>3. CASE j < i
      <4>1. j \in 1 .. n - 1 /\ r[j] = x
        BY <1>2, <1>3, <1>4, <3>1, <3>3
      <4> QED BY <1>2, <4>1, SeqFacts
    <3>4. CASE j > i
      <4>1. j - 1 \in 1 .. n - 1 /\ ~ (j - 1 < i) /\ (j - 1) + 1 = j
        BY <1>3, <1>4, <3>4
      <4>2. r[j - 1] = x
        BY <1>2, <3>1, <4>1
      <4> QED BY <1>2, <4>1, <4>2, SeqFacts
    <3> QED BY <1>3, <1>4, <3>2, <3>3, <3>4
  <2> QED BY <2>1, <2>2
<1> QED BY <1>2, <1>7, <1>8 DEF r

(***************************************************************************)
(* The operations of the list, field by field, and the queue it stands     *)
(* for.                                                                    *)
(***************************************************************************)

\* A new list is the empty queue.
LEMMA NewLinked == Linked(Queue!New, <<>>)
<1> DEFINE l == Queue!New
<1>1. /\ l.head = Nil /\ l.tail = Nil /\ l.len = 0 /\ l.wg = 1 /\ l.removed = {} /\ l.panic = FALSE
      /\ l.next = [e \in Tx |-> Nil] /\ l.prev = [e \in Tx |-> Nil]
      /\ l.nextWg = [e \in Tx |-> 1] /\ l.prevWg = [e \in Tx |-> 1]
  BY DEF Queue!New, Queue!waitGroup1
<1>2. l = [head |-> l.head, tail |-> l.tail, len |-> l.len, wg |-> l.wg,
           next |-> l.next, nextWg |-> l.nextWg, prev |-> l.prev, prevWg |-> l.prevWg,
           removed |-> l.removed, panic |-> l.panic]
  BY DEF Queue!New
<1> HIDE DEF l
<1>3. IsList(l)
  BY <1>1, <1>2 DEF IsList
<1>4. \A e \in Tx : Fresh(l, e)
  BY <1>1 DEF Fresh
<1>5. <<>> \in Seq(Tx) /\ Len(<<>>) = 0 /\ DOMAIN <<>> = {} /\ IsInjective(<<>>)
  <2>1. <<>> \in Seq(Tx) /\ Len(<<>>) = 0 /\ DOMAIN <<>> = {}
    OBVIOUS
  <2> QED BY <2>1 DEF IsInjective
<1>6. Linked(l, <<>>)
  BY <1>1, <1>3, <1>4, <1>5 DEF Linked
<1> QED BY <1>6 DEF l

\* PushBack, field by field.
LEMMA PushFields ==
    ASSUME NEW l, IsList(l), NEW e \in Tx, l.tail = Nil \/ l.tail \in Tx \ {e}
    PROVE  LET r == Queue!PushBack(l, e)
           IN  /\ IsList(r) /\ r.len = l.len + 1 /\ r.wg = (IF l.len = 0 THEN l.wg - 1 ELSE l.wg)
               /\ r.tail = e /\ r.head = (IF l.tail = Nil THEN e ELSE l.head)
               /\ r.removed = l.removed /\ r.panic = l.panic
               /\ \A x \in Tx :
                     /\ r.next[x] = (IF l.tail # Nil /\ x = l.tail THEN e ELSE l.next[x])
                     /\ r.nextWg[x] = (IF l.tail # Nil /\ x = l.tail
                                       THEN Queue!Relinked(l.nextWg[x], l.next[x], e) ELSE l.nextWg[x])
                     /\ r.prev[x] = (IF l.tail # Nil /\ x = e THEN l.tail ELSE l.prev[x])
                     /\ r.prevWg[x] = (IF l.tail # Nil /\ x = e
                                       THEN Queue!Relinked(l.prevWg[x], l.prev[x], l.tail) ELSE l.prevWg[x])
<1> DEFINE g == [l EXCEPT !.len = @ + 1, !.wg = IF l.len = 0 THEN @ - 1 ELSE @, !.tail = e]
           s == Queue!SetPrev(g, e, l.tail)
           t == Queue!SetNext(s, l.tail, e)
           r == Queue!PushBack(l, e)
<1>1. /\ IsList(g) /\ g.len = l.len + 1 /\ g.wg = (IF l.len = 0 THEN l.wg - 1 ELSE l.wg) /\ g.tail = e
      /\ g.head = l.head /\ g.removed = l.removed /\ g.panic = l.panic
      /\ g.next = l.next /\ g.prev = l.prev /\ g.nextWg = l.nextWg /\ g.prevWg = l.prevWg
  <2>1. l = [head |-> l.head, tail |-> l.tail, len |-> l.len, wg |-> l.wg,
             next |-> l.next, nextWg |-> l.nextWg, prev |-> l.prev, prevWg |-> l.prevWg,
             removed |-> l.removed, panic |-> l.panic]
    BY DEF IsList
  <2>2. /\ g.len = l.len + 1 /\ g.wg = (IF l.len = 0 THEN l.wg - 1 ELSE l.wg) /\ g.tail = e
        /\ g.head = l.head /\ g.removed = l.removed /\ g.panic = l.panic
        /\ g.next = l.next /\ g.prev = l.prev /\ g.nextWg = l.nextWg /\ g.prevWg = l.prevWg
    BY <2>1
  <2>3. g = [head |-> g.head, tail |-> g.tail, len |-> g.len, wg |-> g.wg,
             next |-> g.next, nextWg |-> g.nextWg, prev |-> g.prev, prevWg |-> g.prevWg,
             removed |-> g.removed, panic |-> g.panic]
    <3> DEFINE c == l.len + 1
               w == IF l.len = 0 THEN l.wg - 1 ELSE l.wg
               g1 == [l EXCEPT !.len = c]
               g2 == [g1 EXCEPT !.wg = w]
    <3>1. g = [g2 EXCEPT !.tail = e]
      BY <2>1
    <3>2. g1 = [head |-> g1.head, tail |-> g1.tail, len |-> g1.len, wg |-> g1.wg,
                next |-> g1.next, nextWg |-> g1.nextWg, prev |-> g1.prev, prevWg |-> g1.prevWg,
                removed |-> g1.removed, panic |-> g1.panic]
      BY <2>1
    <3> HIDE DEF g, g1, c, w
    <3>3. g2 = [head |-> g2.head, tail |-> g2.tail, len |-> g2.len, wg |-> g2.wg,
                next |-> g2.next, nextWg |-> g2.nextWg, prev |-> g2.prev, prevWg |-> g2.prevWg,
                removed |-> g2.removed, panic |-> g2.panic]
      BY <3>2
    <3> HIDE DEF g2
    <3> QED BY <3>1, <3>3
  <2> HIDE DEF g
  <2> QED BY <2>2, <2>3 DEF IsList
<1>2. CASE l.tail = Nil
  <2>1. r = [g EXCEPT !.head = e]
    BY <1>2 DEF Queue!PushBack
  <2> HIDE DEF g, r
  <2>2. /\ IsList(r) /\ r.len = g.len /\ r.wg = g.wg /\ r.tail = g.tail /\ r.head = e
        /\ r.removed = g.removed /\ r.panic = g.panic
        /\ r.next = g.next /\ r.prev = g.prev /\ r.nextWg = g.nextWg /\ r.prevWg = g.prevWg
    BY <1>1, <2>1 DEF IsList
  <2>3. \A x \in Tx : /\ r.next[x] = (IF l.tail # Nil /\ x = l.tail THEN e ELSE l.next[x])
                      /\ r.nextWg[x] = (IF l.tail # Nil /\ x = l.tail
                                        THEN Queue!Relinked(l.nextWg[x], l.next[x], e) ELSE l.nextWg[x])
                      /\ r.prev[x] = (IF l.tail # Nil /\ x = e THEN l.tail ELSE l.prev[x])
                      /\ r.prevWg[x] = (IF l.tail # Nil /\ x = e
                                        THEN Queue!Relinked(l.prevWg[x], l.prev[x], l.tail) ELSE l.prevWg[x])
    BY <1>1, <1>2, <2>2
  <2>4. r.len = l.len + 1 /\ r.wg = (IF l.len = 0 THEN l.wg - 1 ELSE l.wg)
               /\ r.tail = e /\ r.head = (IF l.tail = Nil THEN e ELSE l.head)
               /\ r.removed = l.removed /\ r.panic = l.panic
    BY <1>1, <1>2, <2>2
  <2> QED BY <2>2, <2>3, <2>4 DEF r
<1>3. CASE l.tail # Nil
  <2>1. r = t
    BY <1>3 DEF Queue!PushBack
  <2>2. s = [g EXCEPT !.prev[e] = l.tail, !.prevWg[e] = Queue!Relinked(@, g.prev[e], l.tail)]
    BY DEF Queue!SetPrev
  <2>3. t = [s EXCEPT !.next[l.tail] = e, !.nextWg[l.tail] = Queue!Relinked(@, s.next[l.tail], e)]
    BY DEF Queue!SetNext
  <2> HIDE DEF g, s, t, r
  <2>4. /\ IsList(s) /\ s.len = g.len /\ s.wg = g.wg /\ s.tail = g.tail /\ s.head = g.head
        /\ s.removed = g.removed /\ s.panic = g.panic /\ s.next = g.next /\ s.nextWg = g.nextWg
        /\ s.prev = [g.prev EXCEPT ![e] = l.tail]
        /\ s.prevWg = [g.prevWg EXCEPT ![e] = Queue!Relinked(g.prevWg[e], g.prev[e], l.tail)]
    BY <1>1, <2>2 DEF IsList
  <2>5. /\ IsList(t) /\ t.len = s.len /\ t.wg = s.wg /\ t.tail = s.tail /\ t.head = s.head
        /\ t.removed = s.removed /\ t.panic = s.panic /\ t.prev = s.prev /\ t.prevWg = s.prevWg
        /\ t.next = [s.next EXCEPT ![l.tail] = e]
        /\ t.nextWg = [s.nextWg EXCEPT ![l.tail] = Queue!Relinked(s.nextWg[l.tail], s.next[l.tail], e)]
    BY <2>3, <2>4 DEF IsList
  <2>6. \A x \in Tx : /\ r.next[x] = (IF l.tail # Nil /\ x = l.tail THEN e ELSE l.next[x])
                      /\ r.nextWg[x] = (IF l.tail # Nil /\ x = l.tail
                                        THEN Queue!Relinked(l.nextWg[x], l.next[x], e) ELSE l.nextWg[x])
    BY <1>1, <1>3, <2>1, <2>4, <2>5 DEF IsList
  <2>7. \A x \in Tx : /\ r.prev[x] = (IF l.tail # Nil /\ x = e THEN l.tail ELSE l.prev[x])
                      /\ r.prevWg[x] = (IF l.tail # Nil /\ x = e
                                        THEN Queue!Relinked(l.prevWg[x], l.prev[x], l.tail) ELSE l.prevWg[x])
    BY <1>1, <1>3, <2>1, <2>4, <2>5 DEF IsList
  <2>8. r.len = l.len + 1 /\ r.wg = (IF l.len = 0 THEN l.wg - 1 ELSE l.wg)
               /\ r.tail = e /\ r.head = (IF l.tail = Nil THEN e ELSE l.head)
               /\ r.removed = l.removed /\ r.panic = l.panic /\ IsList(r)
    BY <1>1, <1>3, <2>1, <2>4, <2>5
  <2> QED BY <2>6, <2>7, <2>8 DEF r
<1> QED BY <1>2, <1>3

\* The links around an element that PushBack adds, or Remove takes out.
LEMMA RelinkedCases ==
    /\ \A x \in Tx : Queue!Relinked(1, Nil, x) = 0 /\ Queue!Relinked(0, x, Nil) = 1
    /\ \A x, y \in Tx : Queue!Relinked(0, x, y) = 0
BY TxAssumption DEF Queue!Relinked, Queue!waitGroup1

\* PushBack of a new element appends it to the queue.
LEMMA PushLinked ==
    ASSUME NEW l, NEW q, Linked(l, q), NEW e \in Tx, e \notin l.removed, e \notin ToSet(q)
    PROVE  Linked(Queue!PushBack(l, e), Append(q, e)) /\ Queue!PushBack(l, e).removed = l.removed
<1> DEFINE r == Queue!PushBack(l, e)
           p == Append(q, e)
           n == Len(q)
<1>1. /\ IsList(l) /\ q \in Seq(Tx) /\ IsInjective(q)
      /\ l.panic = FALSE /\ l.len = Len(q) /\ l.wg = (IF q = <<>> THEN 1 ELSE 0)
      /\ l.head = (IF q = <<>> THEN Nil ELSE q[1]) /\ l.tail = (IF q = <<>> THEN Nil ELSE q[Len(q)])
      /\ \A k \in DOMAIN q : Placed(l, q, k)
      /\ l.removed \subseteq Tx /\ \A x \in l.removed : l.nextWg[x] = 0 /\ l.prevWg[x] = 0
      /\ \A x \in Tx : x \in l.removed \/ x \in ToSet(q) \/ Fresh(l, x)
  BY DEF Linked
<1>2. /\ n \in Nat /\ DOMAIN q = 1 .. n /\ (q = <<>> <=> n = 0)
      /\ \A i \in 1 .. n : q[i] \in Tx /\ q[i] \in ToSet(q)
      /\ \A x \in ToSet(q) : x \in Tx /\ \E i \in 1 .. n : q[i] = x
  BY <1>1, SeqFacts
<1>3. \A i, j \in 1 .. n : q[i] = q[j] => i = j
  BY <1>1, Distinct
<1>4. /\ p \in Seq(Tx) /\ Len(p) = n + 1 /\ p # <<>> /\ (\A i \in 1 .. n : p[i] = q[i])
      /\ p[n + 1] = e /\ ToSet(p) = ToSet(q) \cup {e} /\ IsInjective(p)
  BY <1>1, AppendNew
<1>5. l.tail = Nil <=> n = 0
  BY <1>1, <1>2, TxAssumption
<1>6. n # 0 => n \in 1 .. n /\ l.tail = q[n] /\ l.tail \in Tx \ {e}
  BY <1>1, <1>2
<1>7. /\ IsList(r) /\ r.len = l.len + 1 /\ r.wg = (IF l.len = 0 THEN l.wg - 1 ELSE l.wg)
      /\ r.tail = e /\ r.head = (IF l.tail = Nil THEN e ELSE l.head)
      /\ r.removed = l.removed /\ r.panic = l.panic
      /\ \A x \in Tx :
            /\ r.next[x] = (IF l.tail # Nil /\ x = l.tail THEN e ELSE l.next[x])
            /\ r.nextWg[x] = (IF l.tail # Nil /\ x = l.tail
                              THEN Queue!Relinked(l.nextWg[x], l.next[x], e) ELSE l.nextWg[x])
            /\ r.prev[x] = (IF l.tail # Nil /\ x = e THEN l.tail ELSE l.prev[x])
            /\ r.prevWg[x] = (IF l.tail # Nil /\ x = e
                              THEN Queue!Relinked(l.prevWg[x], l.prev[x], l.tail) ELSE l.prevWg[x])
  BY <1>1, <1>5, <1>6, PushFields
<1>8. DOMAIN p = 1 .. n + 1
  BY <1>4, SeqFacts
<1> HIDE DEF r, p, n
<1>9. Fresh(l, e)
  BY <1>1
<1>10. ASSUME NEW k \in 1 .. n + 1 PROVE Placed(r, p, k)
  <2>1. CASE k = n + 1
    <3>1. p[k] = e /\ k = Len(p)
      BY <1>4, <2>1
    <3>2. e # l.tail
      BY <1>5, <1>6, TxAssumption
    <3>3. e \notin r.removed /\ r.next[e] = Nil /\ r.nextWg[e] = 1
      BY <1>7, <1>9, <3>2 DEF Fresh
    <3>4. CASE n = 0
      <4>1. r.prev[e] = Nil /\ r.prevWg[e] = 1
        BY <1>5, <1>7, <1>9, <3>4 DEF Fresh
      <4> QED BY <1>2, <2>1, <3>1, <3>3, <3>4, <4>1 DEF Placed
    <3>5. CASE n # 0
      <4>1. r.prev[e] = l.tail /\ r.prevWg[e] = Queue!Relinked(l.prevWg[e], l.prev[e], l.tail)
        BY <1>5, <1>7, <3>5
      <4>2. l.prevWg[e] = 1 /\ l.prev[e] = Nil
        BY <1>9 DEF Fresh
      <4>3. r.prevWg[e] = 0
        BY <1>6, <3>5, <4>1, <4>2, RelinkedCases
      <4>4. k # 1 /\ p[k - 1] = l.tail
        BY <1>2, <1>4, <1>6, <2>1, <3>5
      <4> QED BY <3>1, <3>3, <4>1, <4>3, <4>4 DEF Placed
    <3> QED BY <3>4, <3>5
  <2>2. CASE k # n + 1
    <3>1. k \in 1 .. n /\ p[k] = q[k] /\ q[k] \in Tx /\ q[k] \in ToSet(q) /\ q[k] # e /\ k # Len(p)
      BY <1>2, <1>4, <2>2
    <3>2. Placed(l, q, k)
      BY <1>1, <1>2, <3>1
    <3>3. /\ q[k] \notin l.removed
          /\ l.next[q[k]] = (IF k = n THEN Nil ELSE q[k + 1]) /\ l.nextWg[q[k]] = (IF k = n THEN 1 ELSE 0)
          /\ l.prev[q[k]] = (IF k = 1 THEN Nil ELSE q[k - 1]) /\ l.prevWg[q[k]] = (IF k = 1 THEN 1 ELSE 0)
      BY <3>2 DEF Placed, n
    <3>4. q[k] = l.tail <=> k = n
      BY <1>2, <1>3, <1>6, <3>1
    <3>5. l.tail # Nil
      BY <1>2, <1>5, <3>1
    <3>6. r.next[q[k]] = p[k + 1]
      <4>1. CASE k = n
        BY <1>4, <1>7, <3>1, <3>4, <3>5, <4>1
      <4>2. CASE k # n
        <5>1. k + 1 \in 1 .. n
          BY <1>2, <3>1, <4>2
        <5> QED BY <1>4, <1>7, <3>1, <3>3, <3>4, <4>2, <5>1
      <4> QED BY <4>1, <4>2
    <3>7. r.nextWg[q[k]] = 0
      <4>1. CASE k = n
        <5>1. r.nextWg[q[k]] = Queue!Relinked(1, Nil, e)
          BY <1>7, <3>1, <3>3, <3>4, <3>5, <4>1
        <5> QED BY <5>1, RelinkedCases
      <4>2. CASE k # n
        BY <1>7, <3>1, <3>3, <3>4, <4>2
      <4> QED BY <4>1, <4>2
    <3>8. /\ r.prev[q[k]] = (IF k = 1 THEN Nil ELSE p[k - 1])
          /\ r.prevWg[q[k]] = (IF k = 1 THEN 1 ELSE 0)
      <4>1. r.prev[q[k]] = l.prev[q[k]] /\ r.prevWg[q[k]] = l.prevWg[q[k]]
        BY <1>7, <3>1
      <4>2. k # 1 => k - 1 \in 1 .. n
        BY <1>2, <3>1
      <4> QED BY <1>4, <3>3, <4>1, <4>2
    <3> QED BY <1>7, <3>1, <3>3, <3>6, <3>7, <3>8 DEF Placed
  <2> QED BY <2>1, <2>2
<1>11. \A x \in r.removed : r.nextWg[x] = 0 /\ r.prevWg[x] = 0
  <2> SUFFICES ASSUME NEW x \in r.removed PROVE r.nextWg[x] = 0 /\ r.prevWg[x] = 0
    OBVIOUS
  <2>1. x \in Tx /\ x \in l.removed /\ x # e /\ l.nextWg[x] = 0 /\ l.prevWg[x] = 0
    BY <1>1, <1>7
  <2>2. l.tail # Nil => x # l.tail
    <3>1. ASSUME l.tail # Nil PROVE l.tail \notin l.removed
      <4>1. n \in 1 .. n /\ l.tail = q[n]
        BY <1>5, <1>6, <3>1
      <4>2. Placed(l, q, n)
        BY <1>1, <1>2, <4>1
      <4> QED BY <4>1, <4>2 DEF Placed
    <3> QED BY <2>1, <3>1
  <2> QED BY <1>7, <2>1, <2>2
<1>12. ASSUME NEW x \in Tx PROVE x \in r.removed \/ x \in ToSet(p) \/ Fresh(r, x)
  <2> SUFFICES ASSUME x \notin r.removed, x \notin ToSet(p) PROVE Fresh(r, x)
    OBVIOUS
  <2>1. Fresh(l, x) /\ x # e
    BY <1>1, <1>4, <1>7
  <2>2. l.tail # Nil => x # l.tail
    <3>1. ASSUME l.tail # Nil PROVE l.tail \in ToSet(q)
      BY <1>2, <1>5, <1>6, <3>1
    <3> QED BY <1>4, <3>1
  <2>3. r.next[x] = l.next[x] /\ r.nextWg[x] = l.nextWg[x] /\ r.prev[x] = l.prev[x] /\ r.prevWg[x] = l.prevWg[x]
    BY <1>7, <2>1, <2>2
  <2> QED BY <1>7, <2>1, <2>3 DEF Fresh
<1>13. r.panic = FALSE /\ r.len = Len(p) /\ r.wg = 0 /\ r.tail = p[Len(p)]
  BY <1>1, <1>2, <1>4, <1>7
<1>14. r.head = p[1]
  <2>1. CASE n = 0
    BY <1>4, <1>5, <1>7, <2>1
  <2>2. CASE n # 0
    <3>1. 1 \in 1 .. n
      BY <1>2, <2>2
    <3> QED BY <1>1, <1>2, <1>4, <1>5, <1>7, <2>2, <3>1
  <2> QED BY <2>1, <2>2
<1>15. Linked(r, p)
  BY <1>1, <1>4, <1>7, <1>8, <1>10, <1>11, <1>12, <1>13, <1>14 DEF Linked
<1> QED BY <1>7, <1>15 DEF r, p

\* Remove of an element that is in its place, field by field.
LEMMA RemoveFields ==
    ASSUME NEW l, IsList(l), NEW e \in Tx, NEW a, NEW b, a = l.prev[e], b = l.next[e],
           a = Nil \/ a \in Tx \ {e}, b = Nil \/ b \in Tx \ {e}, l.head # Nil, l.tail # Nil,
           a = Nil => l.head = e, b = Nil => l.tail = e
    PROVE  LET r == Queue!RemoveElement(l, e)
           IN  /\ IsList(r) /\ r.len = l.len - 1 /\ r.wg = (IF l.len = 1 THEN 1 ELSE l.wg)
               /\ r.head = (IF a = Nil THEN b ELSE l.head) /\ r.tail = (IF b = Nil THEN a ELSE l.tail)
               /\ r.removed = l.removed \cup {e} /\ r.panic = l.panic
               /\ \A x \in Tx :
                     /\ r.next[x] = (IF a # Nil /\ x = a THEN b ELSE l.next[x])
                     /\ r.nextWg[x] = (IF a # Nil /\ x = a THEN Queue!Relinked(l.nextWg[x], l.next[x], b)
                                       ELSE IF x = e /\ b = Nil THEN l.nextWg[x] - 1 ELSE l.nextWg[x])
                     /\ r.prev[x] = (IF b # Nil /\ x = b THEN a ELSE l.prev[x])
                     /\ r.prevWg[x] = (IF b # Nil /\ x = b THEN Queue!Relinked(l.prevWg[x], l.prev[x], a)
                                       ELSE IF x = e /\ a = Nil THEN l.prevWg[x] - 1 ELSE l.prevWg[x])
<1> DEFINE less == [l EXCEPT !.len = @ - 1, !.wg = IF l.len = 1 THEN Queue!waitGroup1 ELSE @]
           left == IF a = Nil THEN [less EXCEPT !.head = b] ELSE Queue!SetNext(less, a, b)
           both == IF b = Nil THEN [left EXCEPT !.tail = a] ELSE Queue!SetPrev(left, b, a)
           r == Queue!RemoveElement(l, e)
<1>1. r = Queue!SetRemoved(both, e)
  BY DEF Queue!RemoveElement
<1>2. /\ IsList(less) /\ less.len = l.len - 1 /\ less.wg = (IF l.len = 1 THEN 1 ELSE l.wg)
      /\ less.head = l.head /\ less.tail = l.tail /\ less.removed = l.removed /\ less.panic = l.panic
      /\ less.next = l.next /\ less.prev = l.prev /\ less.nextWg = l.nextWg /\ less.prevWg = l.prevWg
  <2> DEFINE c == l.len - 1
             w == IF l.len = 1 THEN 1 ELSE l.wg
             g == [l EXCEPT !.len = c]
  <2>1. less = [g EXCEPT !.wg = w]
    BY DEF Queue!waitGroup1, IsList
  <2> HIDE DEF less, c, w
  <2>2. /\ IsList(g) /\ g.len = c /\ g.wg = l.wg
        /\ g.head = l.head /\ g.tail = l.tail /\ g.removed = l.removed /\ g.panic = l.panic
        /\ g.next = l.next /\ g.prev = l.prev /\ g.nextWg = l.nextWg /\ g.prevWg = l.prevWg
    BY DEF IsList
  <2> HIDE DEF g
  <2>3. /\ IsList(less) /\ less.len = g.len /\ less.wg = w
        /\ less.head = g.head /\ less.tail = g.tail /\ less.removed = g.removed /\ less.panic = g.panic
        /\ less.next = g.next /\ less.prev = g.prev /\ less.nextWg = g.nextWg /\ less.prevWg = g.prevWg
    BY <2>1, <2>2 DEF IsList
  <2> QED BY <2>2, <2>3 DEF c, w
<1> HIDE DEF less
<1>3. /\ IsList(left) /\ left.len = less.len /\ left.wg = less.wg /\ left.tail = less.tail
      /\ left.removed = less.removed /\ left.panic = less.panic
      /\ left.prev = less.prev /\ left.prevWg = less.prevWg
      /\ left.head = (IF a = Nil THEN b ELSE less.head)
      /\ \A x \in Tx : /\ left.next[x] = (IF a # Nil /\ x = a THEN b ELSE l.next[x])
                       /\ left.nextWg[x] = (IF a # Nil /\ x = a THEN Queue!Relinked(l.nextWg[x], l.next[x], b)
                                            ELSE l.nextWg[x])
  <2>1. CASE a = Nil
    <3>1. left = [less EXCEPT !.head = b]
      BY <2>1
    <3> HIDE DEF left
    <3>2. /\ IsList(left) /\ left.len = less.len /\ left.wg = less.wg /\ left.tail = less.tail
          /\ left.removed = less.removed /\ left.panic = less.panic
          /\ left.prev = less.prev /\ left.prevWg = less.prevWg /\ left.head = b
          /\ left.next = less.next /\ left.nextWg = less.nextWg
      BY <1>2, <3>1 DEF IsList
    <3> QED BY <1>2, <2>1, <3>2
  <2>2. CASE a # Nil
    <3>1. left = [less EXCEPT !.next[a] = b, !.nextWg[a] = Queue!Relinked(@, less.next[a], b)]
      BY <2>2 DEF Queue!SetNext
    <3> HIDE DEF left
    <3>2. /\ IsList(left) /\ left.len = less.len /\ left.wg = less.wg /\ left.tail = less.tail
          /\ left.removed = less.removed /\ left.panic = less.panic
          /\ left.prev = less.prev /\ left.prevWg = less.prevWg /\ left.head = less.head
          /\ left.next = [less.next EXCEPT ![a] = b]
          /\ left.nextWg = [less.nextWg EXCEPT ![a] = Queue!Relinked(less.nextWg[a], less.next[a], b)]
      BY <1>2, <3>1 DEF IsList
    <3> QED BY <1>2, <2>2, <3>2 DEF IsList
  <2> QED BY <2>1, <2>2
<1> HIDE DEF left
<1>4. /\ IsList(both) /\ both.len = left.len /\ both.wg = left.wg /\ both.head = left.head
      /\ both.removed = left.removed /\ both.panic = left.panic
      /\ both.next = left.next /\ both.nextWg = left.nextWg
      /\ both.tail = (IF b = Nil THEN a ELSE left.tail)
      /\ \A x \in Tx : /\ both.prev[x] = (IF b # Nil /\ x = b THEN a ELSE l.prev[x])
                       /\ both.prevWg[x] = (IF b # Nil /\ x = b THEN Queue!Relinked(l.prevWg[x], l.prev[x], a)
                                            ELSE l.prevWg[x])
  <2>1. CASE b = Nil
    <3>1. both = [left EXCEPT !.tail = a]
      BY <2>1
    <3> HIDE DEF both
    <3>2. /\ IsList(both) /\ both.len = left.len /\ both.wg = left.wg /\ both.head = left.head
          /\ both.removed = left.removed /\ both.panic = left.panic
          /\ both.prev = left.prev /\ both.prevWg = left.prevWg /\ both.tail = a
          /\ both.next = left.next /\ both.nextWg = left.nextWg
      BY <1>3, <3>1 DEF IsList
    <3> QED BY <1>2, <1>3, <2>1, <3>2
  <2>2. CASE b # Nil
    <3>1. both = [left EXCEPT !.prev[b] = a, !.prevWg[b] = Queue!Relinked(@, left.prev[b], a)]
      BY <2>2 DEF Queue!SetPrev
    <3> HIDE DEF both
    <3>2. /\ IsList(both) /\ both.len = left.len /\ both.wg = left.wg /\ both.head = left.head
          /\ both.removed = left.removed /\ both.panic = left.panic
          /\ both.next = left.next /\ both.nextWg = left.nextWg /\ both.tail = left.tail
          /\ both.prev = [left.prev EXCEPT ![b] = a]
          /\ both.prevWg = [left.prevWg EXCEPT ![b] = Queue!Relinked(left.prevWg[b], left.prev[b], a)]
      BY <1>3, <3>1 DEF IsList
    <3> QED BY <1>2, <1>3, <2>2, <3>2 DEF IsList
  <2> QED BY <2>1, <2>2
<1> HIDE DEF both
<1> DEFINE pw == IF both.prev[e] = Nil THEN both.prevWg[e] - 1 ELSE both.prevWg[e]
           nw == IF both.next[e] = Nil THEN both.nextWg[e] - 1 ELSE both.nextWg[e]
<1>5. r = [both EXCEPT !.removed = @ \cup {e}, !.prevWg[e] = pw, !.nextWg[e] = nw]
  BY <1>1 DEF Queue!SetRemoved
<1> HIDE DEF r, pw, nw
<1>6. /\ IsList(r) /\ r.len = both.len /\ r.wg = both.wg /\ r.head = both.head /\ r.tail = both.tail
      /\ r.removed = both.removed \cup {e} /\ r.panic = both.panic
      /\ r.next = both.next /\ r.prev = both.prev
      /\ r.prevWg = [both.prevWg EXCEPT ![e] = pw] /\ r.nextWg = [both.nextWg EXCEPT ![e] = nw]
  <2> DEFINE g == [both EXCEPT !.removed = @ \cup {e}]
             h == [g EXCEPT !.prevWg[e] = pw]
  <2>1. r = [h EXCEPT !.nextWg[e] = nw]
    BY <1>4, <1>5 DEF IsList
  <2>0. g = [both EXCEPT !.removed = @ \cup {e}] /\ h = [g EXCEPT !.prevWg[e] = pw]
    OBVIOUS
  <2> HIDE DEF g, h
  <2>2. /\ IsList(g) /\ g.len = both.len /\ g.wg = both.wg /\ g.head = both.head /\ g.tail = both.tail
        /\ g.removed = both.removed \cup {e} /\ g.panic = both.panic
        /\ g.next = both.next /\ g.prev = both.prev /\ g.prevWg = both.prevWg /\ g.nextWg = both.nextWg
    BY <1>4, <2>0 DEF IsList
  <2>3. /\ IsList(h) /\ h.len = g.len /\ h.wg = g.wg /\ h.head = g.head /\ h.tail = g.tail
        /\ h.removed = g.removed /\ h.panic = g.panic
        /\ h.next = g.next /\ h.prev = g.prev /\ h.prevWg = [g.prevWg EXCEPT ![e] = pw] /\ h.nextWg = g.nextWg
    BY <2>2, <2>0 DEF IsList
  <2>4. /\ IsList(r) /\ r.len = h.len /\ r.wg = h.wg /\ r.head = h.head /\ r.tail = h.tail
        /\ r.removed = h.removed /\ r.panic = h.panic
        /\ r.next = h.next /\ r.prev = h.prev /\ r.prevWg = h.prevWg /\ r.nextWg = [h.nextWg EXCEPT ![e] = nw]
    BY <2>1, <2>3 DEF IsList
  <2> QED BY <2>2, <2>3, <2>4
<1>7. both.prev[e] = a /\ both.next[e] = b /\ both.prevWg[e] = l.prevWg[e] /\ both.nextWg[e] = l.nextWg[e]
  BY <1>3, <1>4
<1>8. /\ pw = (IF a = Nil THEN l.prevWg[e] - 1 ELSE l.prevWg[e])
      /\ nw = (IF b = Nil THEN l.nextWg[e] - 1 ELSE l.nextWg[e])
  BY <1>7 DEF pw, nw
<1>9. ASSUME NEW x \in Tx
      PROVE  /\ r.next[x] = (IF a # Nil /\ x = a THEN b ELSE l.next[x])
             /\ r.nextWg[x] = (IF a # Nil /\ x = a THEN Queue!Relinked(l.nextWg[x], l.next[x], b)
                               ELSE IF x = e /\ b = Nil THEN l.nextWg[x] - 1 ELSE l.nextWg[x])
  <2>1. r.nextWg[x] = (IF x = e THEN nw ELSE both.nextWg[x])
    BY <1>4, <1>6 DEF IsList
  <2> QED BY <1>3, <1>4, <1>6, <1>8, <2>1
<1>10. ASSUME NEW x \in Tx
       PROVE  /\ r.prev[x] = (IF b # Nil /\ x = b THEN a ELSE l.prev[x])
              /\ r.prevWg[x] = (IF b # Nil /\ x = b THEN Queue!Relinked(l.prevWg[x], l.prev[x], a)
                                ELSE IF x = e /\ a = Nil THEN l.prevWg[x] - 1 ELSE l.prevWg[x])
  <2>1. r.prevWg[x] = (IF x = e THEN pw ELSE both.prevWg[x])
    BY <1>4, <1>6 DEF IsList
  <2> QED BY <1>3, <1>4, <1>6, <1>8, <2>1
<1>11. /\ IsList(r) /\ r.len = l.len - 1 /\ r.wg = (IF l.len = 1 THEN 1 ELSE l.wg)
       /\ r.head = (IF a = Nil THEN b ELSE l.head) /\ r.tail = (IF b = Nil THEN a ELSE l.tail)
       /\ r.removed = l.removed \cup {e} /\ r.panic = l.panic
  BY <1>2, <1>3, <1>4, <1>6
<1> QED BY <1>9, <1>10, <1>11 DEF r

\* Remove of an element takes it out of the queue.
LEMMA RemoveLinked ==
    ASSUME NEW l, NEW q, Linked(l, q), NEW e \in ToSet(q)
    PROVE  /\ Linked(Queue!RemoveElement(l, e), RemoveFirst(q, e))
           /\ Queue!RemoveElement(l, e).removed = l.removed \cup {e}
           /\ ToSet(RemoveFirst(q, e)) = ToSet(q) \ {e}
<1> DEFINE r == Queue!RemoveElement(l, e)
           p == RemoveFirst(q, e)
           n == Len(q)
<1>1. /\ IsList(l) /\ q \in Seq(Tx) /\ IsInjective(q)
      /\ l.panic = FALSE /\ l.len = Len(q) /\ l.wg = (IF q = <<>> THEN 1 ELSE 0)
      /\ l.head = (IF q = <<>> THEN Nil ELSE q[1]) /\ l.tail = (IF q = <<>> THEN Nil ELSE q[Len(q)])
      /\ \A k \in DOMAIN q : Placed(l, q, k)
      /\ l.removed \subseteq Tx /\ \A x \in l.removed : l.nextWg[x] = 0 /\ l.prevWg[x] = 0
      /\ \A x \in Tx : x \in l.removed \/ x \in ToSet(q) \/ Fresh(l, x)
  BY DEF Linked
<1>2. /\ n \in Nat /\ DOMAIN q = 1 .. n /\ (q = <<>> <=> n = 0)
      /\ \A k \in 1 .. n : q[k] \in Tx /\ q[k] \in ToSet(q)
      /\ \A x \in ToSet(q) : x \in Tx /\ \E k \in 1 .. n : q[k] = x
  BY <1>1, SeqFacts
<1>3. \A j, k \in 1 .. n : q[j] = q[k] => j = k
  BY <1>1, Distinct
<1>4. PICK i \in 1 .. n : q[i] = e
  BY <1>2
<1>5. /\ p \in Seq(Tx) /\ Len(p) = n - 1
      /\ \A k \in 1 .. n - 1 : p[k] = (IF k < i THEN q[k] ELSE q[k + 1])
  BY <1>1, <1>4, RemoveOnce
<1>6. IsInjective(p) /\ ToSet(p) = ToSet(q) \ {e}
  BY <1>1, RemoveSet
<1>7. e \in Tx
  BY <1>2
<1> HIDE DEF n
<1>8. ASSUME NEW k \in 1 .. n
      PROVE  /\ q[k] \notin l.removed
             /\ l.next[q[k]] = (IF k = n THEN Nil ELSE q[k + 1]) /\ l.nextWg[q[k]] = (IF k = n THEN 1 ELSE 0)
             /\ l.prev[q[k]] = (IF k = 1 THEN Nil ELSE q[k - 1]) /\ l.prevWg[q[k]] = (IF k = 1 THEN 1 ELSE 0)
  <2>1. Placed(l, q, k)
    BY <1>1, <1>2
  <2> QED BY <2>1 DEF Placed, n
<1> DEFINE a == IF i = 1 THEN Nil ELSE q[i - 1]
           b == IF i = n THEN Nil ELSE q[i + 1]
<1>9. a = l.prev[e] /\ b = l.next[e]
  BY <1>4, <1>8
<1>10. /\ i # 1 => i - 1 \in 1 .. n /\ a = q[i - 1] /\ a \in Tx \ {e} /\ a # Nil
       /\ i # n => i + 1 \in 1 .. n /\ b = q[i + 1] /\ b \in Tx \ {e} /\ b # Nil
       /\ (i = 1 => a = Nil) /\ (i = n => b = Nil)
  <2>1. i # 1 => i - 1 \in 1 .. n /\ i - 1 # i
    BY <1>2
  <2>2. i # n => i + 1 \in 1 .. n /\ i + 1 # i
    BY <1>2
  <2> QED BY <1>2, <1>3, <1>4, <2>1, <2>2, TxAssumption
<1>11. /\ l.head # Nil /\ l.tail # Nil /\ (a = Nil => l.head = e) /\ (b = Nil => l.tail = e)
  <2>1. n # 0 /\ 1 \in 1 .. n /\ n \in 1 .. n
    BY <1>2, <1>4
  <2>2. l.head = q[1] /\ l.tail = q[n] /\ q[1] \in Tx /\ q[n] \in Tx
    BY <1>1, <1>2, <2>1 DEF n
  <2> QED BY <1>4, <1>10, <2>2, TxAssumption
<1> HIDE DEF a, b
<1>12. /\ IsList(r) /\ r.len = l.len - 1 /\ r.wg = (IF l.len = 1 THEN 1 ELSE l.wg)
       /\ r.head = (IF a = Nil THEN b ELSE l.head) /\ r.tail = (IF b = Nil THEN a ELSE l.tail)
       /\ r.removed = l.removed \cup {e} /\ r.panic = l.panic
       /\ \A x \in Tx :
             /\ r.next[x] = (IF a # Nil /\ x = a THEN b ELSE l.next[x])
             /\ r.nextWg[x] = (IF a # Nil /\ x = a THEN Queue!Relinked(l.nextWg[x], l.next[x], b)
                               ELSE IF x = e /\ b = Nil THEN l.nextWg[x] - 1 ELSE l.nextWg[x])
             /\ r.prev[x] = (IF b # Nil /\ x = b THEN a ELSE l.prev[x])
             /\ r.prevWg[x] = (IF b # Nil /\ x = b THEN Queue!Relinked(l.prevWg[x], l.prev[x], a)
                               ELSE IF x = e /\ a = Nil THEN l.prevWg[x] - 1 ELSE l.prevWg[x])
  <2>1. /\ IsList(l) /\ e \in Tx /\ a = l.prev[e] /\ b = l.next[e]
        /\ (a = Nil \/ a \in Tx \ {e}) /\ (b = Nil \/ b \in Tx \ {e}) /\ l.head # Nil /\ l.tail # Nil
        /\ (a = Nil => l.head = e) /\ (b = Nil => l.tail = e)
    BY <1>1, <1>7, <1>9, <1>10, <1>11
  <2> QED BY <2>1, RemoveFields
<1>13. DOMAIN p = 1 .. n - 1
  BY <1>5, SeqFacts
<1> HIDE DEF r, p
<1>14. /\ \A j \in 1 .. n : (a # Nil /\ q[j] = a) <=> (i # 1 /\ j = i - 1)
       /\ \A j \in 1 .. n : (b # Nil /\ q[j] = b) <=> (i # n /\ j = i + 1)
       /\ \A j \in 1 .. n : q[j] = e <=> j = i
  <2> SUFFICES ASSUME NEW j \in 1 .. n
               PROVE  /\ (a # Nil /\ q[j] = a) <=> (i # 1 /\ j = i - 1)
                      /\ (b # Nil /\ q[j] = b) <=> (i # n /\ j = i + 1)
                      /\ q[j] = e <=> j = i
    OBVIOUS
  <2>1. (a # Nil /\ q[j] = a) <=> (i # 1 /\ j = i - 1)
    <3>1. i # 1 => (q[j] = q[i - 1] <=> j = i - 1)
      BY <1>3, <1>10
    <3> QED BY <1>10, <3>1
  <2>2. (b # Nil /\ q[j] = b) <=> (i # n /\ j = i + 1)
    <3>1. i # n => (q[j] = q[i + 1] <=> j = i + 1)
      BY <1>3, <1>10
    <3> QED BY <1>10, <3>1
  <2>3. q[j] = e <=> j = i
    BY <1>3, <1>4
  <2> QED BY <2>1, <2>2, <2>3
<1>15. ASSUME NEW k \in 1 .. n - 1 PROVE Placed(r, p, k)
  <2> DEFINE j == IF k < i THEN k ELSE k + 1
             x == q[j]
  <2>1. j \in 1 .. n /\ j # i /\ p[k] = x /\ x \in Tx
    BY <1>2, <1>5
  <2>2. x # e /\ x \notin r.removed
    BY <1>8, <1>12, <1>14, <2>1
  <2>3. r.next[x] = (IF k = n - 1 THEN Nil ELSE p[k + 1]) /\ r.nextWg[x] = (IF k = n - 1 THEN 1 ELSE 0)
    <3>1. CASE i # 1 /\ k = i - 1
      <4>1. j = i - 1 /\ a # Nil /\ x = a
        BY <1>10, <3>1
      <4>2. l.next[x] = e /\ l.nextWg[x] = 0
        <5>1. j # n /\ j + 1 = i
          BY <1>2, <3>1
        <5> QED BY <1>4, <1>8, <2>1, <5>1
      <4>3. r.next[x] = b /\ r.nextWg[x] = Queue!Relinked(0, e, b)
        BY <1>12, <2>1, <4>1, <4>2
      <4>4. CASE i = n
        <5>1. k = n - 1
          BY <3>1, <4>4
        <5> QED BY <1>7, <1>10, <4>3, <4>4, <5>1, RelinkedCases
      <4>5. CASE i # n
        <5>1. k # n - 1 /\ k + 1 \in 1 .. n - 1 /\ ~ (k + 1 < i) /\ (k + 1) + 1 = i + 1
          BY <1>2, <3>1, <4>5
        <5>2. p[k + 1] = b
          BY <1>5, <1>10, <4>5, <5>1
        <5> QED BY <1>7, <1>10, <4>3, <4>5, <5>1, <5>2, RelinkedCases
      <4> QED BY <4>4, <4>5
    <3>2. CASE ~ (i # 1 /\ k = i - 1)
      <4>1. ~ (i # 1 /\ j = i - 1)
        BY <1>2, <3>2
      <4>2. r.next[x] = l.next[x] /\ r.nextWg[x] = l.nextWg[x]
        BY <1>12, <1>14, <2>1, <2>2, <4>1
      <4>3. l.next[x] = (IF j = n THEN Nil ELSE q[j + 1]) /\ l.nextWg[x] = (IF j = n THEN 1 ELSE 0)
        BY <1>8, <2>1
      <4>4. j = n <=> k = n - 1
        BY <1>2, <3>2
      <4>5. ASSUME k # n - 1 PROVE p[k + 1] = q[j + 1]
        <5>1. k + 1 \in 1 .. n - 1 /\ (k < i <=> k + 1 < i)
          BY <1>2, <3>2, <4>5
        <5> QED BY <1>5, <5>1
      <4> HIDE DEF x, j
      <4> QED BY <4>2, <4>3, <4>4, <4>5
    <3> QED BY <3>1, <3>2
  <2>4. r.prev[x] = (IF k = 1 THEN Nil ELSE p[k - 1]) /\ r.prevWg[x] = (IF k = 1 THEN 1 ELSE 0)
    <3>1. CASE k = i
      <4>1. i # n /\ j = i + 1 /\ b # Nil /\ x = b
        BY <1>2, <1>10, <3>1
      <4>2. l.prev[x] = e /\ l.prevWg[x] = 0
        <5>1. j # 1 /\ j - 1 = i
          BY <1>2, <3>1
        <5> QED BY <1>4, <1>8, <2>1, <5>1
      <4>3. r.prev[x] = a /\ r.prevWg[x] = Queue!Relinked(0, e, a)
        BY <1>12, <2>1, <4>1, <4>2
      <4>4. CASE i = 1
        BY <1>7, <1>10, <3>1, <4>3, <4>4, RelinkedCases
      <4>5. CASE i # 1
        <5>1. k # 1 /\ k - 1 \in 1 .. n - 1 /\ k - 1 < i /\ k - 1 = i - 1
          BY <1>2, <3>1, <4>5
        <5>2. p[k - 1] = a
          BY <1>5, <1>10, <4>5, <5>1
        <5> QED BY <1>7, <1>10, <4>3, <4>5, <5>1, <5>2, RelinkedCases
      <4> QED BY <4>4, <4>5
    <3>2. CASE k # i
      <4>1. ~ (i # n /\ j = i + 1)
        BY <1>2, <3>2
      <4>2. r.prev[x] = l.prev[x] /\ r.prevWg[x] = l.prevWg[x]
        BY <1>12, <1>14, <2>1, <2>2, <4>1
      <4>3. l.prev[x] = (IF j = 1 THEN Nil ELSE q[j - 1]) /\ l.prevWg[x] = (IF j = 1 THEN 1 ELSE 0)
        BY <1>8, <2>1
      <4>4. j = 1 <=> k = 1
        BY <1>2, <3>2
      <4>5. ASSUME k # 1 PROVE p[k - 1] = q[j - 1]
        <5>1. k - 1 \in 1 .. n - 1 /\ (k < i <=> k - 1 < i)
          BY <1>2, <3>2, <4>5
        <5>2. j - 1 = IF k - 1 < i THEN k - 1 ELSE (k - 1) + 1
          BY <1>2, <5>1
        <5> QED BY <1>5, <5>1, <5>2
      <4> HIDE DEF x, j
      <4> QED BY <4>2, <4>3, <4>4, <4>5
    <3> QED BY <3>1, <3>2
  <2> HIDE DEF x
  <2> QED BY <1>5, <2>1, <2>2, <2>3, <2>4 DEF Placed
<1>16. ASSUME NEW x \in Tx, x # e, \A k \in 1 .. n : q[k] # x
       PROVE  /\ r.next[x] = l.next[x] /\ r.nextWg[x] = l.nextWg[x]
              /\ r.prev[x] = l.prev[x] /\ r.prevWg[x] = l.prevWg[x]
  <2>1. ~ (a # Nil /\ x = a) /\ ~ (b # Nil /\ x = b)
    BY <1>10, <1>16
  <2> QED BY <1>12, <1>16, <2>1
<1>17. r.removed \subseteq Tx /\ \A x \in r.removed : r.nextWg[x] = 0 /\ r.prevWg[x] = 0
  <2>1. r.nextWg[e] = 0 /\ r.prevWg[e] = 0
    <3>1. l.nextWg[e] = (IF b = Nil THEN 1 ELSE 0) /\ l.prevWg[e] = (IF a = Nil THEN 1 ELSE 0)
      BY <1>4, <1>8, <1>10
    <3>2. ~ (a # Nil /\ e = a) /\ ~ (b # Nil /\ e = b)
      BY <1>10
    <3> QED BY <1>7, <1>12, <3>1, <3>2
  <2>2. ASSUME NEW x \in l.removed, x # e PROVE r.nextWg[x] = 0 /\ r.prevWg[x] = 0
    <3>1. x \in Tx /\ \A k \in 1 .. n : q[k] # x
      BY <1>1, <1>8
    <3> QED BY <1>1, <1>16, <2>2, <3>1
  <2> QED BY <1>1, <1>7, <1>12, <2>1, <2>2
<1>18. ASSUME NEW x \in Tx PROVE x \in r.removed \/ x \in ToSet(p) \/ Fresh(r, x)
  <2> SUFFICES ASSUME x \notin r.removed, x \notin ToSet(p) PROVE Fresh(r, x)
    OBVIOUS
  <2>1. x # e /\ x \notin l.removed /\ x \notin ToSet(q)
    BY <1>6, <1>12
  <2>2. Fresh(l, x) /\ \A k \in 1 .. n : q[k] # x
    BY <1>1, <1>2, <2>1
  <2> QED BY <1>16, <2>1, <2>2 DEF Fresh
<1>19. r.panic = FALSE /\ r.len = Len(p) /\ (p = <<>> <=> n = 1)
  <2>1. p = <<>> <=> Len(p) = 0
    BY <1>5, SeqFacts
  <2> QED BY <1>1, <1>2, <1>5, <1>12, <2>1 DEF n
<1>20. r.wg = (IF p = <<>> THEN 1 ELSE 0)
  BY <1>1, <1>2, <1>4, <1>12, <1>19 DEF n
<1>21. r.head = (IF p = <<>> THEN Nil ELSE p[1])
  <2>1. CASE n = 1
    <3>1. i = 1 /\ i = n
      BY <2>1
    <3> QED BY <1>10, <1>12, <1>19, <2>1, <3>1
  <2>2. CASE n # 1
    <3>1. 1 \in 1 .. n - 1 /\ q # <<>> /\ 1 + 1 = 2
      BY <1>2, <1>4, <2>2
    <3>2. p[1] = (IF 1 < i THEN q[1] ELSE q[2])
      BY <1>5, <3>1
    <3>3. CASE i = 1
      <4>1. i # n /\ ~ (1 < i) /\ i + 1 = 2
        BY <2>2, <3>3
      <4> QED BY <1>10, <1>12, <1>19, <2>2, <3>2, <3>3, <4>1
    <3>4. CASE i # 1
      <4>1. 1 < i
        BY <1>2, <3>4
      <4> QED BY <1>1, <1>10, <1>12, <1>19, <2>2, <3>1, <3>2, <3>4, <4>1
    <3> QED BY <3>3, <3>4
  <2> QED BY <2>1, <2>2
<1>22. r.tail = (IF p = <<>> THEN Nil ELSE p[Len(p)])
  <2>1. CASE n = 1
    <3>1. i = 1 /\ i = n
      BY <2>1
    <3> QED BY <1>10, <1>12, <1>19, <2>1, <3>1
  <2>2. CASE n # 1
    <3>1. n - 1 \in 1 .. n - 1 /\ q # <<>> /\ (n - 1) + 1 = n
      BY <1>2, <1>4, <2>2
    <3>2. p[n - 1] = (IF n - 1 < i THEN q[n - 1] ELSE q[n])
      BY <1>5, <3>1
    <3>3. CASE i = n
      <4>1. i # 1 /\ n - 1 < i
        BY <1>2, <2>2, <3>3
      <4> QED BY <1>5, <1>10, <1>12, <1>19, <2>2, <3>2, <3>3, <4>1
    <3>4. CASE i # n
      <4>1. ~ (n - 1 < i)
        BY <1>2, <3>4
      <4>2. l.tail = q[n]
        BY <1>1, <3>1 DEF n
      <4> QED BY <1>5, <1>10, <1>12, <1>19, <2>2, <3>2, <3>4, <4>1, <4>2
    <3> QED BY <3>3, <3>4
  <2> QED BY <2>1, <2>2
<1>23. Linked(r, p)
  BY <1>5, <1>6, <1>12, <1>13, <1>15, <1>17, <1>18, <1>19, <1>20, <1>21, <1>22 DEF Linked
<1> QED BY <1>6, <1>12, <1>23 DEF r, p

(***************************************************************************)
(* Walking through the list.                                               *)
(***************************************************************************)

\* link leads through q.
Chained(q, link) == \A k \in 1 .. Len(q) : link[q[k]] = (IF k = Len(q) THEN Nil ELSE q[k + 1])

\* A walk along such links visits the queue and stops.
LEMMA WalkChained ==
    ASSUME NEW q \in Seq(Tx), NEW from, from = (IF q = <<>> THEN Nil ELSE q[1]),
           NEW link, Chained(q, link), NEW n \in Nat, Len(q) <= n
    PROVE  Queue!Walk(from, link, n) = q
<1> DEFINE step(g, k) == IF k = 1 THEN from ELSE IF g[k - 1] = Nil THEN Nil ELSE link[g[k - 1]]
           A(g) == g = [k \in 1 .. n |-> step(g, k)]
           at == CHOOSE g : A(g)
           w == [k \in 1 .. n |-> IF k <= Len(q) THEN q[k] ELSE Nil]
           visits == CHOOSE m \in 0 .. n : \A k \in 1 .. n : at[k] # Nil <=> k <= m
<1>1. Queue!Walk(from, link, n) = [k \in 1 .. visits |-> at[k]]
  BY DEF Queue!Walk
<1>2. /\ Len(q) \in Nat /\ (q = <<>> <=> Len(q) = 0) /\ \A i \in 1 .. Len(q) : q[i] \in Tx /\ q[i] # Nil
  BY SeqFacts, TxAssumption
<1>3. \A k \in 1 .. n : w[k] = IF k <= Len(q) THEN q[k] ELSE Nil
  OBVIOUS
<1>4. ASSUME NEW k \in 1 .. n PROVE w[k] = step(w, k)
  <2>1. CASE k = 1
    <3>1. 1 <= Len(q) <=> q # <<>>
      BY <1>2
    <3> QED BY <1>3, <2>1, <3>1
  <2>2. CASE k # 1
    <3>1. k - 1 \in 1 .. n /\ (k - 1) + 1 = k /\ k \in Int
      BY <2>2
    <3>2. CASE k - 1 <= Len(q)
      <4>1. k - 1 \in 1 .. Len(q) /\ w[k - 1] = q[k - 1] /\ q[k - 1] # Nil
        BY <1>2, <1>3, <3>1, <3>2
      <4>2. link[q[k - 1]] = (IF k - 1 = Len(q) THEN Nil ELSE q[(k - 1) + 1])
        BY <4>1 DEF Chained
      <4>3. k <= Len(q) <=> k - 1 # Len(q)
        BY <1>2, <3>1, <3>2
      <4>4. step(w, k) = link[q[k - 1]]
        BY <2>2, <4>1
      <4>5. w[k] = IF k <= Len(q) THEN q[k] ELSE Nil
        BY <1>3
      <4> HIDE DEF w, step
      <4> QED BY <3>1, <4>2, <4>3, <4>4, <4>5
    <3>3. CASE ~ (k - 1 <= Len(q))
      <4>1. w[k - 1] = Nil
        BY <1>3, <3>1, <3>3
      <4>2. ~ (k <= Len(q))
        BY <1>2, <3>1, <3>3
      <4> HIDE DEF w
      <4> QED BY <1>3, <2>2, <4>1, <4>2
    <3> QED BY <3>2, <3>3
  <2> QED BY <2>1, <2>2
<1>5. A(w)
  <2>1. w = [k \in 1 .. n |-> w[k]]
    OBVIOUS
  <2> HIDE DEF w, step
  <2> QED BY <1>4, <2>1
<1>6. A(at)
  <2> HIDE DEF A, w
  <2> QED BY <1>5
<1> HIDE DEF w, at
<1>7. \A k \in 1 .. n : at[k] = step(at, k)
  <2> HIDE DEF step
  <2> QED BY <1>6, Zenon
<1>8. \A k \in 1 .. n : at[k] = w[k]
  <2> DEFINE G == {k \in 0 .. n : k = 0 \/ at[k] = w[k]}
  <2>1. 0 \in G
    OBVIOUS
  <2>2. ASSUME NEW k \in 1 .. n, k - 1 \in G PROVE k \in G
    <3>1. k \in 0 .. n /\ (k = 1 \/ at[k - 1] = w[k - 1])
      BY <2>2
    <3>2. at[k] = w[k]
      BY <1>4, <1>7, <3>1
    <3> QED BY <3>1, <3>2
  <2>3. \A k \in 0 .. n : k \in G
    <3> HIDE DEF G
    <3> QED BY <2>1, <2>2, Induct
  <2> QED BY <2>3
<1>9. \A k \in 1 .. n : at[k] # Nil <=> k <= Len(q)
  <2> SUFFICES ASSUME NEW k \in 1 .. n PROVE at[k] # Nil <=> k <= Len(q)
    OBVIOUS
  <2>1. k <= Len(q) => k \in 1 .. Len(q)
    BY <1>2
  <2> QED BY <1>2, <1>3, <1>8, <2>1
<1>10. visits = Len(q)
  <2> DEFINE P(m) == \A k \in 1 .. n : at[k] # Nil <=> k <= m
  <2>1. Len(q) \in 0 .. n /\ P(Len(q))
    BY <1>2, <1>9
  <2>2. ASSUME NEW m \in 0 .. n, P(m) PROVE m = Len(q)
    <3>1. m \in 1 .. n => m <= Len(q)
      BY <1>9, <2>2
    <3>2. Len(q) \in 1 .. n => Len(q) <= m
      BY <1>2, <1>9, <2>2
    <3> QED BY <1>2, <3>1, <3>2
  <2>3. visits = CHOOSE m \in 0 .. n : P(m)
    OBVIOUS
  <2> HIDE DEF P, visits
  <2> QED BY <2>1, <2>2, <2>3
<1> HIDE DEF visits
<1>11. Queue!Walk(from, link, n) = [k \in 1 .. Len(q) |-> at[k]]
  BY <1>1, <1>10
<1>12. \A k \in 1 .. Len(q) : at[k] = q[k]
  <2>1. \A k \in 1 .. Len(q) : k \in 1 .. n /\ k <= Len(q)
    BY <1>2
  <2> QED BY <1>3, <1>8, <2>1
<1>13. q = [k \in 1 .. Len(q) |-> q[k]]
  BY LenProperties
<1> QED BY <1>11, <1>12, <1>13, Zenon

\* A queue is never longer than there are transactions.
LEMMA QueueBound ==
    ASSUME NEW q \in Seq(Tx), IsInjective(q)
    PROVE  Cardinality(Tx) \in Nat /\ Len(q) <= Cardinality(Tx)
<1>1. Len(q) \in Nat /\ q \in [1 .. Len(q) -> Tx]
  BY LenProperties
<1>2. q \in Injection(1 .. Len(q), Tx)
  BY <1>1 DEF Injection, IsInjective
<1>3. IsFiniteSet(Tx)
  BY TxAssumption
<1>4. Cardinality(1 .. Len(q)) <= Cardinality(Tx)
  BY <1>2, <1>3, FS_Injection
<1>5. Cardinality(1 .. Len(q)) = IF 1 > Len(q) THEN 0 ELSE Len(q) - 1 + 1
  BY <1>1, FS_Interval
<1>6. Cardinality(Tx) \in Nat
  BY <1>3, FS_CardinalityType
<1> QED BY <1>1, <1>4, <1>5, <1>6

\* Front and Next visit the queue, Back and Prev the reverse.
LEMMA WalkLinked ==
    ASSUME NEW l, NEW q, Linked(l, q), NEW n \in Nat, n >= Cardinality(Tx)
    PROVE  Queue!Forward(l, n) = q /\ Queue!Backward(l, n) = Reverse(q)
<1>1. /\ q \in Seq(Tx) /\ IsInjective(q)
      /\ l.head = (IF q = <<>> THEN Nil ELSE q[1]) /\ l.tail = (IF q = <<>> THEN Nil ELSE q[Len(q)])
      /\ \A k \in DOMAIN q : Placed(l, q, k)
  BY DEF Linked
<1>2. /\ Len(q) \in Nat /\ DOMAIN q = 1 .. Len(q) /\ (q = <<>> <=> Len(q) = 0)
      /\ \A i \in 1 .. Len(q) : q[i] \in Tx
  BY <1>1, SeqFacts
<1>3. Len(q) <= n
  BY <1>1, <1>2, QueueBound
<1>4. Queue!Forward(l, n) = q
  <2>1. Chained(q, l.next)
    BY <1>1, <1>2 DEF Chained, Placed
  <2>2. Queue!Walk(l.head, l.next, n) = q
    BY <1>1, <1>3, <2>1, WalkChained
  <2> QED BY <2>2 DEF Queue!Forward
<1>5. Queue!Backward(l, n) = Reverse(q)
  <2> DEFINE r == Reverse(q)
             m == Len(q)
  <2>1. r = [i \in 1 .. m |-> q[(m - i) + 1]]
    BY DEF Reverse
  <2> HIDE DEF r, m
  <2>2. \A i \in 1 .. m : (m - i) + 1 \in 1 .. m
    BY <1>2 DEF m
  <2>3. r \in Seq(Tx) /\ Len(r) = m /\ \A i \in 1 .. m : r[i] = q[(m - i) + 1]
    <3>1. \A i \in 1 .. m : q[(m - i) + 1] \in Tx
      BY <1>2, <2>2 DEF m
    <3>2. r \in [1 .. m -> Tx] /\ m \in Nat
      BY <1>2, <2>1, <3>1 DEF m
    <3> QED BY <2>1, <3>2
  <2>4. Chained(r, l.prev)
    <3> SUFFICES ASSUME NEW k \in 1 .. m PROVE l.prev[r[k]] = (IF k = m THEN Nil ELSE r[k + 1])
      BY <2>3 DEF Chained
    <3>1. Placed(l, q, (m - k) + 1) /\ r[k] = q[(m - k) + 1]
      BY <1>1, <1>2, <2>2, <2>3 DEF m
    <3>2. l.prev[r[k]] = (IF (m - k) + 1 = 1 THEN Nil ELSE q[((m - k) + 1) - 1])
      BY <3>1 DEF Placed
    <3>3. CASE k = m
      BY <1>2, <3>2, <3>3 DEF m
    <3>4. CASE k # m
      <4>0. m \in Nat /\ k \in Int
        BY <1>2 DEF m
      <4>1. k + 1 \in 1 .. m /\ (m - k) + 1 # 1 /\ ((m - k) + 1) - 1 = (m - (k + 1)) + 1
        BY <3>4, <4>0
      <4> QED BY <2>3, <3>2, <3>4, <4>1
    <3> QED BY <3>3, <3>4
  <2>5. l.tail = (IF r = <<>> THEN Nil ELSE r[1])
    <3>1. r = <<>> <=> m = 0
      BY <2>3, SeqFacts
    <3>2. m # 0 => 1 \in 1 .. m /\ (m - 1) + 1 = m
      BY <1>2 DEF m
    <3>3. m # 0 => r[1] = q[m]
      BY <2>3, <3>2
    <3> QED BY <1>1, <1>2, <3>1, <3>3 DEF m
  <2>6. Len(r) <= n
    BY <1>3, <2>3 DEF m
  <2>7. Queue!Walk(l.tail, l.prev, n) = r
    BY <2>3, <2>4, <2>5, <2>6, WalkChained
  <2> QED BY <2>7 DEF Queue!Backward, r
<1> QED BY <1>4, <1>5

\* What ListSound says of a list, from the invariant.
LEMMA LinkedSound ==
    ASSUME \A n \in Node : Linked(list[n], queue[n])
    PROVE  ListSound
<1> SUFFICES ASSUME NEW n \in Node
             PROVE  LET l == list[n]
                        q == queue[n]
                        size == Cardinality(Tx) + 1
                    IN  /\ ~l.panic /\ l.len = Len(q)
                        /\ Queue!Forward(l, size) = q /\ Queue!Backward(l, size) = Reverse(q)
                        /\ Queue!FrontWaits(l) <=> q = <<>>
                        /\ \A k \in DOMAIN q : /\ Queue!NextWaits(l, q[k]) <=> k = Len(q)
                                               /\ Queue!PrevWaits(l, q[k]) <=> k = 1
                        /\ \A e \in l.removed : ~Queue!NextWaits(l, e) /\ ~Queue!PrevWaits(l, e)
                        /\ \A e \in Tx : l.nextWg[e] >= 0 /\ l.prevWg[e] >= 0 /\ l.wg >= 0
  BY DEF ListSound
<1> DEFINE l == list[n]
           q == queue[n]
           size == Cardinality(Tx) + 1
<1>1. Linked(l, q)
  OBVIOUS
<1> HIDE DEF l, q, size
<1>2. /\ IsList(l) /\ q \in Seq(Tx) /\ IsInjective(q)
      /\ l.panic = FALSE /\ l.len = Len(q) /\ l.wg = (IF q = <<>> THEN 1 ELSE 0)
      /\ \A k \in DOMAIN q : Placed(l, q, k)
      /\ l.removed \subseteq Tx /\ (\A e \in l.removed : l.nextWg[e] = 0 /\ l.prevWg[e] = 0)
      /\ \A e \in Tx : e \in l.removed \/ e \in ToSet(q) \/ Fresh(l, e)
  BY <1>1 DEF Linked
<1>3. size \in Nat /\ size >= Cardinality(Tx)
  <2>1. Cardinality(Tx) \in Nat
    BY TxAssumption, FS_CardinalityType
  <2> QED BY <2>1 DEF size
<1>4. Queue!Forward(l, size) = q /\ Queue!Backward(l, size) = Reverse(q)
  BY <1>1, <1>3, WalkLinked
<1>5. Queue!FrontWaits(l) <=> q = <<>>
  BY <1>2 DEF Queue!FrontWaits
<1>6. ASSUME NEW k \in DOMAIN q PROVE (Queue!NextWaits(l, q[k]) <=> k = Len(q)) /\ (Queue!PrevWaits(l, q[k]) <=> k = 1)
  <2>1. Placed(l, q, k)
    BY <1>2
  <2> QED BY <2>1 DEF Placed, Queue!NextWaits, Queue!PrevWaits
<1>7. ASSUME NEW e \in l.removed PROVE ~Queue!NextWaits(l, e) /\ ~Queue!PrevWaits(l, e)
  BY <1>2 DEF Queue!NextWaits, Queue!PrevWaits
<1>8. ASSUME NEW e \in Tx PROVE l.nextWg[e] >= 0 /\ l.prevWg[e] >= 0 /\ l.wg >= 0
  <2>1. CASE e \in l.removed
    BY <1>2, <2>1
  <2>2. CASE e \in ToSet(q)
    <3>1. PICK k \in DOMAIN q : q[k] = e
      BY <2>2 DEF ToSet
    <3>2. Placed(l, q, k)
      BY <1>2
    <3> QED BY <1>2, <3>1, <3>2 DEF Placed
  <2>3. CASE Fresh(l, e)
    BY <1>2, <2>3 DEF Fresh
  <2> QED BY <1>2, <2>1, <2>2, <2>3
<1>9. ~l.panic /\ l.len = Len(q)
  BY <1>2
<1> QED BY <1>4, <1>5, <1>6, <1>7, <1>8, <1>9 DEF l, q, size

(***************************************************************************)
(* The folds of ReapTx and Update, as FoldLeft takes them.                 *)
(***************************************************************************)

\* A step of one of the folds: p says of which.
Do(x, e, p) ==
    CASE p.do = "reap"   -> IF e \in p.locked \/ Len(x) >= MaxTxs THEN x ELSE Append(x, e)
      [] p.do = "remove" -> RemoveTx(x, e)

\* g is the fold's table: what the elements at the positions s of q make of a.
FoldStep(g, s, q, a, p) == IF s = {} THEN a ELSE Do(g[s \ {Max(s)}], q[Max(s)], p)
IsFold(g, S, q, a, p) == g = [s \in SUBSET S |-> FoldStep(g, s, q, a, p)]

FoldTable(S, q, a, p) == CHOOSE g : IsFold(g, S, q, a, p)

\* Two tables agree wherever both are defined.
LEMMA FoldUnique ==
    ASSUME NEW S, Positions(S), NEW U \in SUBSET S, NEW q, NEW a, NEW p, NEW g, NEW h,
           IsFold(g, S, q, a, p), IsFold(h, U, q, a, p)
    PROVE  \A s \in SUBSET U : g[s] = h[s]
<1> DEFINE T == {s \in SUBSET U : g[s] # h[s]}
<1> SUFFICES ASSUME T # {} PROVE FALSE
  OBVIOUS
<1>1. PICK x \in T : \A y \in T : y \subseteq x => y = x
  <2>1. T \in SUBSET SUBSET S /\ IsFiniteSet(S)
    BY PositionsIn
  <2> HIDE DEF T
  <2> QED BY <2>1, MinimalSubset
<1>2. g[x] = FoldStep(g, x, q, a, p) /\ h[x] = FoldStep(h, x, q, a, p)
  <2>1. \A s \in SUBSET S : g[s] = FoldStep(g, s, q, a, p)
    BY Zenon DEF IsFold
  <2>2. \A s \in SUBSET U : h[s] = FoldStep(h, s, q, a, p)
    BY Zenon DEF IsFold
  <2> QED BY <1>1, <2>1, <2>2
<1>3. CASE x = {}
  BY <1>1, <1>2, <1>3 DEF FoldStep
<1>4. CASE x # {}
  <2> DEFINE y == x \ {Max(x)}
  <2>1. Max(x) \in x
    <3>1. Positions(x)
      BY <1>1, PositionsIn
    <3> QED BY <1>4, <3>1, MaxIn
  <2>2. y \in SUBSET U /\ y \subseteq x /\ y # x
    BY <1>1, <2>1
  <2>3. g[y] = h[y]
    BY <1>1, <2>2
  <2>4. g[x] = Do(g[y], q[Max(x)], p) /\ h[x] = Do(h[y], q[Max(x)], p)
    BY <1>2, <1>4 DEF FoldStep
  <2> HIDE DEF y
  <2> QED BY <1>1, <2>3, <2>4
<1> QED BY <1>3, <1>4

\* Every finite set of positions has a table.
LEMMA FoldExists ==
    ASSUME NEW S, Positions(S), NEW q, NEW a, NEW p
    PROVE  IsFold(FoldTable(S, q, a, p), S, q, a, p)
<1> SUFFICES \E g : IsFold(g, S, q, a, p)
  BY DEF FoldTable
<1> DEFINE T == {U \in SUBSET S : ~ \E g : IsFold(g, U, q, a, p)}
<1> SUFFICES ASSUME T # {} PROVE FALSE
  OBVIOUS
<1>1. PICK x \in T : \A y \in T : y \subseteq x => y = x
  <2>1. T \in SUBSET SUBSET S /\ IsFiniteSet(S)
    BY PositionsIn
  <2> HIDE DEF T
  <2> QED BY <2>1, MinimalSubset
<1>2. \A s \in SUBSET x : s # x => IsFold(FoldTable(s, q, a, p), s, q, a, p)
  <2> SUFFICES ASSUME NEW s \in SUBSET x, s # x PROVE IsFold(FoldTable(s, q, a, p), s, q, a, p)
    OBVIOUS
  <2>1. s \in SUBSET S /\ s \notin T
    BY <1>1
  <2>2. \E g : IsFold(g, s, q, a, p)
    BY <2>1
  <2> QED BY <2>2 DEF FoldTable
<1>3. Positions(x)
  BY <1>1, PositionsIn
<1>4. \A s \in SUBSET x : s # {} => Max(s) \in s
  <2> SUFFICES ASSUME NEW s \in SUBSET x, s # {} PROVE Max(s) \in s
    OBVIOUS
  <2>1. Positions(s)
    BY <1>3, PositionsIn
  <2> QED BY <2>1, MaxIn
<1> HIDE DEF T
<1> DEFINE low(s) == FoldTable(s, q, a, p)[s]
           g == [s \in SUBSET x |->
                    IF s = x THEN IF x = {} THEN a
                                  ELSE Do(low(x \ {Max(x)}), q[Max(x)], p)
                    ELSE low(s)]
<1>5. ASSUME NEW s \in SUBSET x PROVE g[s] = FoldStep(g, s, q, a, p)
  <2>1. CASE s = {} /\ s = x
    BY <2>1 DEF FoldStep
  <2>2. CASE s # {} /\ s = x
    <3>1. x \ {Max(x)} \in SUBSET x /\ x \ {Max(x)} # x
      BY <1>4, <2>2
    <3>2. g[x \ {Max(x)}] = low(x \ {Max(x)})
      BY <3>1
    <3>3. g[s] = Do(low(x \ {Max(x)}), q[Max(x)], p)
      BY <2>2
    <3> HIDE DEF g, low
    <3> QED BY <2>2, <3>2, <3>3 DEF FoldStep
  <2>3. CASE s # x
    <3>1. g[s] = low(s)
      BY <2>3
    <3>2. IsFold(FoldTable(s, q, a, p), s, q, a, p)
      BY <1>2, <2>3
    <3>3. low(s) = FoldStep(FoldTable(s, q, a, p), s, q, a, p)
      <4> DEFINE f == FoldTable(s, q, a, p)
      <4>1. f = [u \in SUBSET s |-> FoldStep(f, u, q, a, p)]
        BY <3>2 DEF IsFold
      <4> HIDE DEF f
      <4>2. f[s] = FoldStep(f, s, q, a, p)
        BY <4>1, Zenon
      <4> QED BY <4>2 DEF f
    <3>4. CASE s = {}
      BY <3>1, <3>3, <3>4 DEF FoldStep
    <3>5. CASE s # {}
      <4> DEFINE y == s \ {Max(s)}
      <4>1. y \in SUBSET s /\ y \in SUBSET x /\ y # x
        BY <2>3
      <4>2. g[y] = low(y)
        BY <4>1
      <4>3. IsFold(FoldTable(y, q, a, p), y, q, a, p)
        BY <1>2, <4>1
      <4>4. FoldTable(s, q, a, p)[y] = low(y)
        <5>1. Positions(s)
          BY <1>3, PositionsIn
        <5> HIDE DEF y
        <5> QED BY <3>2, <4>1, <4>3, <5>1, FoldUnique
      <4>5. low(s) = Do(FoldTable(s, q, a, p)[y], q[Max(s)], p)
        BY <3>3, <3>5 DEF FoldStep
      <4>6. FoldStep(g, s, q, a, p) = Do(g[y], q[Max(s)], p)
        BY <3>5 DEF FoldStep
      <4> HIDE DEF g, low, y
      <4> QED BY <3>1, <4>2, <4>4, <4>5, <4>6
    <3> QED BY <3>4, <3>5
  <2> QED BY <2>1, <2>2, <2>3
<1>6. g = [s \in SUBSET x |-> g[s]]
  OBVIOUS
<1> HIDE DEF g
<1>7. g = [s \in SUBSET x |-> FoldStep(g, s, q, a, p)]
  BY <1>5, <1>6, Zenon
<1> QED BY <1>1, <1>7 DEF T, IsFold

\* The states the fold goes through.
Run(q, a, p) == [k \in 0 .. Len(q) |-> FoldTable(DOMAIN q, q, a, p)[1 .. k]]

\* The largest number up to k.
LEMMA Upto ==
    ASSUME NEW k \in Nat, k # 0
    PROVE  /\ 1 .. k # {} /\ Max(1 .. k) = k /\ (1 .. k) \ {k} = 1 .. (k - 1)
<1>1. k \in 1 .. k /\ \A y \in 1 .. k : k >= y
  OBVIOUS
<1>2. \A x \in 1 .. k : (\A y \in 1 .. k : x >= y) => x = k
  BY <1>1
<1>3. Max(1 .. k) = k
  <2> DEFINE S == 1 .. k
  <2>1. k \in S /\ (\A y \in S : k >= y) /\ \A x \in S : (\A y \in S : x >= y) => x = k
    BY <1>1, <1>2
  <2> HIDE DEF S
  <2>2. Max(S) = k
    BY <2>1 DEF Max
  <2> QED BY <2>2 DEF S
<1> QED BY <1>1, <1>3

\* A fold is a sequence of steps.
LEMMA RunSteps ==
    ASSUME NEW T, NEW q \in Seq(T), NEW a, NEW p
    PROVE  /\ Len(q) \in Nat /\ DOMAIN q = 1 .. Len(q)
           /\ Run(q, a, p)[0] = a
           /\ \A k \in 1 .. Len(q) : Run(q, a, p)[k] = Do(Run(q, a, p)[k - 1], q[k], p)
<1> DEFINE S == DOMAIN q
           n == Len(q)
           g == FoldTable(S, q, a, p)
           h == Run(q, a, p)
<1>1. n \in Nat /\ S = 1 .. n
  BY LenProperties
<1>2. Positions(S) /\ IsFiniteSet(1 .. n)
  <2>1. IsFiniteSet(1 .. n)
    BY <1>1, FS_Interval
  <2>2. S \subseteq Int
    BY <1>1
  <2> QED BY <1>1, <2>1, <2>2 DEF Positions
<1>3. IsFold(g, S, q, a, p)
  BY <1>2, FoldExists
<1>4. \A k \in 0 .. n : h[k] = g[1 .. k]
  BY DEF Run
<1> HIDE DEF S, g, h, n
<1>5. \A s \in SUBSET S : g[s] = FoldStep(g, s, q, a, p)
  BY <1>3, Zenon DEF IsFold
<1>6. h[0] = a
  <2>1. 1 .. 0 = {} /\ 0 \in 0 .. n
    BY <1>1
  <2>2. {} \in SUBSET S
    OBVIOUS
  <2>3. g[{}] = a
    BY <1>5, <2>2 DEF FoldStep
  <2> QED BY <1>4, <2>1, <2>3
<1>7. ASSUME NEW k \in 1 .. n PROVE h[k] = Do(h[k - 1], q[k], p)
  <2>1. k \in Nat /\ k # 0 /\ k \in 0 .. n /\ k - 1 \in 0 .. n /\ 1 .. k \in SUBSET S
    BY <1>1
  <2>2. 1 .. k # {} /\ Max(1 .. k) = k /\ (1 .. k) \ {k} = 1 .. (k - 1)
    BY <2>1, Upto
  <2> DEFINE U == 1 .. k
             V == 1 .. (k - 1)
  <2>3. U # {} /\ Max(U) = k /\ U \ {k} = V /\ U \in SUBSET S /\ h[k] = g[U] /\ h[k - 1] = g[V]
    BY <1>4, <2>1, <2>2
  <2> HIDE DEF U, V
  <2>4. g[U] = Do(g[U \ {Max(U)}], q[Max(U)], p)
    BY <1>5, <2>3 DEF FoldStep
  <2> QED BY <2>3, <2>4
<1> QED BY <1>1, <1>6, <1>7 DEF S, n, h

\* Where a fold ends.
LEMMA RunEnd ==
    ASSUME NEW T, NEW q \in Seq(T), NEW a, NEW p, NEW f, IsFold(f, DOMAIN q, q, a, p)
    PROVE  f[DOMAIN q] = Run(q, a, p)[Len(q)]
<1> DEFINE S == DOMAIN q
           n == Len(q)
           g == FoldTable(S, q, a, p)
<1>1. n \in Nat /\ S = 1 .. n
  BY LenProperties
<1>2. Positions(S)
  <2>1. IsFiniteSet(1 .. n)
    BY <1>1, FS_Interval
  <2>2. S \subseteq Int
    BY <1>1
  <2> QED BY <1>1, <2>1, <2>2 DEF Positions
<1>3. IsFold(g, S, q, a, p) /\ IsFold(f, S, q, a, p)
  BY <1>2, FoldExists
<1>4. Run(q, a, p)[n] = g[S]
  <2>1. n \in 0 .. Len(q)
    BY <1>1
  <2> QED BY <1>1, <2>1 DEF Run
<1> HIDE DEF S, g, n
<1>5. f[S] = g[S]
  BY <1>2, <1>3, FoldUnique
<1> QED BY <1>4, <1>5 DEF S, n

\* The transactions of a Pyramid block.
LEMMA ReapFold ==
    ASSUME NEW T, NEW q \in Seq(T), NEW a
    PROVE  FoldLeft(LAMBDA txs, t : IF t \in locked \/ Len(txs) >= MaxTxs THEN txs ELSE Append(txs, t), a, q) = Run(q, a, [do |-> "reap", locked |-> locked])[Len(q)]
<1> DEFINE p == [do |-> "reap", locked |-> locked]
           S == DOMAIN q
           step(x, e) == IF e \in locked \/ Len(x) >= MaxTxs THEN x ELSE Append(x, e)
           A(g) == g = [u \in SUBSET S |-> IF u = {} THEN a ELSE step(g[u \ {Max(u)}], q[Max(u)])]
<1>1. FoldLeft(LAMBDA txs, t : IF t \in locked \/ Len(txs) >= MaxTxs THEN txs ELSE Append(txs, t), a, q) = (CHOOSE g : A(g))[S]
  BY DEF FoldLeft, MapThenFoldSet
<1>2. \A x, e : Do(x, e, p) = step(x, e)
  BY DEF Do
<1> HIDE DEF p, S, step
<1>3. ASSUME NEW g PROVE A(g) <=> IsFold(g, S, q, a, p)
  <2>1. \A u \in SUBSET S : FoldStep(g, u, q, a, p) = IF u = {} THEN a ELSE step(g[u \ {Max(u)}], q[Max(u)])
    BY <1>2 DEF FoldStep
  <2> QED BY <2>1 DEF IsFold
<1>4. \E g : IsFold(g, S, q, a, p)
  <2>1. Positions(S)
    <3>1. Len(q) \in Nat /\ S = 1 .. Len(q)
      BY LenProperties DEF S
    <3>2. IsFiniteSet(1 .. Len(q))
      BY <3>1, FS_Interval
    <3> QED BY <3>1, <3>2 DEF Positions
  <2> QED BY <2>1, FoldExists
<1> HIDE DEF A
<1>5. IsFold(CHOOSE g : A(g), S, q, a, p)
  BY <1>3, <1>4
<1>6. (CHOOSE g : A(g))[S] = Run(q, a, p)[Len(q)]
  <2> DEFINE f == CHOOSE g : A(g)
  <2>1. IsFold(f, DOMAIN q, q, a, p)
    BY <1>5 DEF S
  <2> HIDE DEF f
  <2>2. f[DOMAIN q] = Run(q, a, p)[Len(q)]
    BY <2>1, RunEnd
  <2> QED BY <2>2 DEF f, S
<1> QED BY <1>1, <1>6 DEF p

\* The transactions of a block, one after the other.
LEMMA RemoveFold ==
    ASSUME NEW T, NEW q \in Seq(T), NEW a
    PROVE  FoldLeft(RemoveTx, a, q) = Run(q, a, [do |-> "remove"])[Len(q)]
<1> DEFINE p == [do |-> "remove"]
           S == DOMAIN q
           A(g) == g = [u \in SUBSET S |-> IF u = {} THEN a ELSE RemoveTx(g[u \ {Max(u)}], q[Max(u)])]
<1>1. FoldLeft(RemoveTx, a, q) = (CHOOSE g : A(g))[S]
  BY DEF FoldLeft, MapThenFoldSet
<1>2. \A x, e : Do(x, e, p) = RemoveTx(x, e)
  BY DEF Do
<1> HIDE DEF p, S
<1>3. ASSUME NEW g PROVE A(g) <=> IsFold(g, S, q, a, p)
  <2>1. \A u \in SUBSET S : FoldStep(g, u, q, a, p) = IF u = {} THEN a ELSE RemoveTx(g[u \ {Max(u)}], q[Max(u)])
    BY <1>2 DEF FoldStep
  <2> QED BY <2>1 DEF IsFold
<1>4. \E g : IsFold(g, S, q, a, p)
  <2>1. Positions(S)
    <3>1. Len(q) \in Nat /\ S = 1 .. Len(q)
      BY LenProperties DEF S
    <3>2. IsFiniteSet(1 .. Len(q))
      BY <3>1, FS_Interval
    <3> QED BY <3>1, <3>2 DEF Positions
  <2> QED BY <2>1, FoldExists
<1> HIDE DEF A
<1>5. IsFold(CHOOSE g : A(g), S, q, a, p)
  BY <1>3, <1>4
<1>6. (CHOOSE g : A(g))[S] = Run(q, a, p)[Len(q)]
  <2> DEFINE f == CHOOSE g : A(g)
  <2>1. IsFold(f, DOMAIN q, q, a, p)
    BY <1>5 DEF S
  <2> HIDE DEF f
  <2>2. f[DOMAIN q] = Run(q, a, p)[Len(q)]
    BY <2>1, RunEnd
  <2> QED BY <2>2 DEF f, S
<1> QED BY <1>1, <1>6 DEF p

\* The transactions of a block of Pyramid come from the list.
LEMMA ReapTxsFrom ==
    ASSUME NEW q \in Seq(Tx)
    PROVE  LET r == FoldLeft(LAMBDA txs, t : IF t \in locked \/ Len(txs) >= MaxTxs THEN txs ELSE Append(txs, t), <<>>, q)
           IN  r \in Seq(Tx) /\ ToSet(r) \subseteq ToSet(q)
<1> DEFINE p == [do |-> "reap", locked |-> locked]
           h == Run(q, <<>>, p)
           n == Len(q)
<1>1. FoldLeft(LAMBDA txs, t : IF t \in locked \/ Len(txs) >= MaxTxs THEN txs ELSE Append(txs, t), <<>>, q) = h[n]
  BY ReapFold
<1>2. n \in Nat /\ h[0] = <<>> /\ \A k \in 1 .. n : h[k] = Do(h[k - 1], q[k], p)
  BY RunSteps
<1>3. \A x, e : Do(x, e, p) = IF e \in locked \/ Len(x) >= MaxTxs THEN x ELSE Append(x, e)
  BY DEF Do
<1>4. \A k \in 1 .. n : q[k] \in Tx /\ q[k] \in ToSet(q)
  BY SeqFacts
<1> HIDE DEF h, p, n
<1> DEFINE P(x) == x \in Seq(Tx) /\ ToSet(x) \subseteq ToSet(q)
           G == {k \in 0 .. n : P(h[k])}
<1>5. 0 \in G
  <2>1. <<>> \in Seq(Tx) /\ ToSet(<<>>) = {}
    BY DEF ToSet
  <2>2. P(h[0])
    BY <1>2, <2>1
  <2> HIDE DEF P
  <2> QED BY <1>2, <2>2
<1>6. ASSUME NEW k \in 1 .. n, k - 1 \in G PROVE k \in G
  <2>1. k \in 0 .. n /\ P(h[k - 1])
    BY <1>2, <1>6
  <2>2. h[k] = IF q[k] \in locked \/ Len(h[k - 1]) >= MaxTxs THEN h[k - 1] ELSE Append(h[k - 1], q[k])
    BY <1>2, <1>3
  <2>3. P(Append(h[k - 1], q[k]))
    BY <1>4, <2>1, AppendNew
  <2>4. P(h[k])
    <3> HIDE DEF P
    <3> QED BY <2>1, <2>2, <2>3
  <2> QED BY <2>1, <2>4
<1>7. \A k \in 0 .. n : k \in G
  <2> HIDE DEF G
  <2> QED BY <1>2, <1>5, <1>6, Induct
<1>8. P(h[n])
  BY <1>2, <1>7
<1> QED BY <1>1, <1>8

\* ReapTx takes transactions of the mempool.
LEMMA ReapFrom ==
    ASSUME NEW n \in Node, Linked(list[n], queue[n])
    PROVE  ReapTx(n) \in Seq(Tx) /\ ToSet(ReapTx(n)) \subseteq ToSet(queue[n])
<1> DEFINE q == queue[n]
<1>1. Listed(n) = q /\ q \in Seq(Tx)
  <2>1. Cardinality(Tx) \in Nat /\ Cardinality(Tx) >= Cardinality(Tx)
    BY TxAssumption, FS_CardinalityType
  <2>2. q \in Seq(Tx)
    BY DEF Linked
  <2> QED BY <2>1, <2>2, WalkLinked DEF Listed
<1> HIDE DEF q
<1>2. ReapBytes(n) \in Seq(Tx) /\ ToSet(ReapBytes(n)) \subseteq ToSet(q)
  <2> DEFINE bytes(k) == FoldLeft(LAMBDA sum, t : sum + Size[t], 0, SubSeq(Listed(n), 1, k))
             fit == {k \in 0 .. Len(Listed(n)) : k = 0 \/ bytes(k) < MaxBytes}
             m == CHOOSE k \in fit : \A j \in fit : j <= k
  <2>1. ReapBytes(n) = SubSeq(Listed(n), 1, m)
    BY DEF ReapBytes
  <2>2. Len(q) \in Nat
    BY <1>1, SeqFacts
  <2> HIDE DEF bytes
  <2>3. fit \subseteq 0 .. Len(q) /\ 0 \in fit
    BY <1>1, <2>2
  <2> HIDE DEF fit
  <2>4. Positions(fit) /\ fit # {}
    <3>1. IsFiniteSet(0 .. Len(q))
      BY <2>2, FS_Interval
    <3>2. IsFiniteSet(fit)
      BY <2>3, <3>1, FS_Subset
    <3>3. 0 .. Len(q) \subseteq Int
      BY <2>2
    <3> QED BY <2>3, <3>2, <3>3 DEF Positions
  <2>5. Max(fit) \in fit /\ \A j \in fit : j <= Max(fit)
    <3>1. Max(fit) \in fit /\ \A j \in fit : Max(fit) >= j
      BY <2>4, MaxIn
    <3>2. \A j \in fit : j \in Int
      BY <2>4 DEF Positions
    <3> QED BY <3>1, <3>2
  <2>6. m \in fit
    <3> DEFINE P(k) == \A j \in fit : j <= k
    <3>1. \E k \in fit : P(k)
      BY <2>5
    <3>2. m = CHOOSE k \in fit : P(k)
      OBVIOUS
    <3> HIDE DEF P, m
    <3> QED BY <3>1, <3>2
  <2>7. m \in 0 .. Len(q)
    BY <2>3, <2>6
  <2> HIDE DEF m
  <2>8. SubSeq(q, 1, m) \in Seq(Tx) /\ ToSet(SubSeq(q, 1, m)) \subseteq ToSet(q)
    BY <1>1, <2>7, Prefix
  <2> QED BY <1>1, <2>1, <2>8
<1>3. ReapTxs(n) \in Seq(Tx) /\ ToSet(ReapTxs(n)) \subseteq ToSet(q)
  <2>1. Listed(n) \in Seq(Tx)
    BY <1>1
  <2>2. ReapTxs(n) \in Seq(Tx) /\ ToSet(ReapTxs(n)) \subseteq ToSet(Listed(n))
    BY <2>1, ReapTxsFrom DEF ReapTxs
  <2> QED BY <1>1, <2>2
<1> QED BY <1>2, <1>3 DEF ReapTx, q

\* The mempool x, which was m and has an AddTx under way for A, without the transactions in D.
Kept(x, m, A, D) == /\ Linked(x.list, x.queue)
                    /\ A \cup x.map = ToSet(x.queue) /\ A \cap x.map = {} /\ x.map = m.map \ D
                    /\ x.list.removed = m.list.removed \cup (m.map \cap D)

\* RemoveTx removes one more.
LEMMA RemoveTxKeeps ==
    ASSUME NEW x, NEW m, NEW A, NEW D, Kept(x, m, A, D), NEW t
    PROVE  Kept(RemoveTx(x, t), m, A, D \cup {t})
<1>1. CASE t \in x.map
  <2> DEFINE l == Queue!RemoveElement(x.list, t)
             q == RemoveFirst(x.queue, t)
             s == x.map \ {t}
             y == RemoveTx(x, t)
  <2>1. y.list = l /\ y.map = s /\ y.queue = q
    BY <1>1 DEF RemoveTx
  <2>2. t \in ToSet(x.queue) /\ Linked(x.list, x.queue)
    BY <1>1 DEF Kept
  <2>3. Linked(l, q) /\ l.removed = x.list.removed \cup {t} /\ ToSet(q) = ToSet(x.queue) \ {t}
    BY <2>2, RemoveLinked
  <2> HIDE DEF l, q, y
  <2>4. A \cup s = ToSet(q) /\ A \cap s = {} /\ s = m.map \ (D \cup {t})
    BY <1>1, <2>3 DEF Kept
  <2>5. l.removed = m.list.removed \cup (m.map \cap (D \cup {t}))
    BY <1>1, <2>3 DEF Kept
  <2> HIDE DEF s
  <2>6. Kept(y, m, A, D \cup {t})
    BY <2>1, <2>3, <2>4, <2>5 DEF Kept
  <2> QED BY <2>6 DEF y
<1>2. CASE t \notin x.map
  <2>1. RemoveTx(x, t) = x
    BY <1>2 DEF RemoveTx
  <2>2. x.map = m.map \ (D \cup {t}) /\ x.list.removed = m.list.removed \cup (m.map \cap (D \cup {t}))
    BY <1>2 DEF Kept
  <2> QED BY <2>1, <2>2 DEF Kept
<1> QED BY <1>1, <1>2

\* Update removes all of a block that have an entry.
LEMMA UpdateKeeps ==
    ASSUME NEW m, NEW A, NEW q \in Seq(Tx), Kept(m, m, A, {})
    PROVE  Kept(FoldLeft(RemoveTx, m, q), m, A, ToSet(q))
<1> DEFINE p == [do |-> "remove"]
           h == Run(q, m, p)
           n == Len(q)
           D(k) == {q[i] : i \in 1 .. k}
<1>1. FoldLeft(RemoveTx, m, q) = h[n]
  BY RemoveFold
<1>2. n \in Nat /\ DOMAIN q = 1 .. n /\ h[0] = m /\ \A k \in 1 .. n : h[k] = Do(h[k - 1], q[k], p)
  BY RunSteps
<1>3. \A x, e : Do(x, e, p) = RemoveTx(x, e)
  BY DEF Do
<1> HIDE DEF h, p, n
<1>4. D(0) = {} /\ D(n) = ToSet(q)
  BY <1>2 DEF ToSet
<1>5. ASSUME NEW k \in 1 .. n PROVE D(k) = D(k - 1) \cup {q[k]}
  <2>1. \A i : i \in 1 .. k <=> i \in 1 .. (k - 1) \/ i = k
    BY <1>2
  <2> QED BY <2>1
<1> HIDE DEF D
<1> DEFINE P(k) == Kept(h[k], m, A, D(k))
           G == {k \in 0 .. n : P(k)}
<1>6. P(0)
  BY <1>2, <1>4
<1>7. ASSUME NEW k \in 1 .. n, P(k - 1) PROVE P(k)
  <2>1. h[k] = RemoveTx(h[k - 1], q[k])
    BY <1>2, <1>3
  <2>2. Kept(RemoveTx(h[k - 1], q[k]), m, A, D(k - 1) \cup {q[k]})
    BY <1>7, RemoveTxKeeps
  <2> QED BY <1>5, <2>1, <2>2
<1> HIDE DEF P
<1>8. 0 \in G /\ \A k \in 1 .. n : k - 1 \in G => k \in G
  BY <1>2, <1>6, <1>7
<1>9. \A k \in 0 .. n : k \in G
  <2> HIDE DEF G
  <2> QED BY <1>2, <1>8, Induct
<1>10. P(n)
  BY <1>2, <1>9
<1> QED BY <1>1, <1>4, <1>10 DEF P

(***************************************************************************)
(* The steps.  First what a part of the invariant does not depend on.      *)
(***************************************************************************)

LEMMA PoolFrame == ASSUME PoolInv, UNCHANGED pool PROVE PoolInv'
<1>1. list' = list /\ queue' = queue /\ adding' = adding /\ txsMap' = txsMap
  BY DEF pool
<1>2. \A n \in Node : MapInv(n)' <=> MapInv(n)
  BY <1>1 DEF MapInv
<1> QED BY <1>2 DEF PoolInv

LEMMA WayFrame ==
    ASSUME WayInv, UNCHANGED <<wire, sending, importing>>, \A n \in Node : Came(n)' = Came(n)
    PROVE  WayInv'
<1>1. \A m \in Node : Sent(m)' = Sent(m)
  BY DEF Sent
<1>2. \A m \in Node : SendInv(m)' /\ OnceInv(m)'
  <2> SUFFICES ASSUME NEW m \in Node PROVE SendInv(m)' /\ OnceInv(m)'
    OBVIOUS
  <2>1. SendInv(m) /\ OnceInv(m)
    BY DEF WayInv
  <2>2. SendInv(m)'
    BY <1>1, <2>1 DEF SendInv
  <2>3. OnceInv(m)'
    BY <2>1 DEF OnceInv
  <2> QED BY <2>2, <2>3
<1>3. \A m, n \in Node : WireInv(m, n)' /\ CameInv(m, n)'
  <2> SUFFICES ASSUME NEW m \in Node, NEW n \in Node PROVE WireInv(m, n)' /\ CameInv(m, n)'
    OBVIOUS
  <2>1. WireInv(m, n) /\ CameInv(m, n)
    BY DEF WayInv
  <2>2. WireInv(m, n)'
    BY <1>1, <2>1 DEF WireInv
  <2>3. CameInv(m, n)'
    BY <2>1 DEF CameInv
  <2> QED BY <2>2, <2>3
<1>4. (UNION {Sent(m) : m \in Node})' = UNION {Sent(m) : m \in Node}
  BY <1>1
<1>5. \A n \in Node : (Came(n) \subseteq UNION {Sent(m) : m \in Node})'
  BY <1>4 DEF WayInv
<1> QED BY <1>2, <1>3, <1>5 DEF WayInv

LEMMA BlockFrame ==
    ASSUME BlockInv, UNCHANGED <<system, chain>>, \A n \in Node : list'[n].removed = list[n].removed
    PROVE  BlockInv'
<1>1. /\ turn' = turn /\ blocks' = blocks /\ ahead' = ahead /\ executed' = executed /\ late' = late
      /\ agreed' = agreed /\ twice' = twice /\ system' = system
  BY DEF chain
<1>2. ASSUME NEW n \in Node PROVE ChainInv(n)'
  <2>1. Pending(n)' = Pending(n)
    BY <1>1 DEF Pending
  <2>2. ChainInv(n)
    BY DEF BlockInv
  <2> QED BY <1>1, <2>1, <2>2 DEF ChainInv
<1>3. (twice \subseteq UNION {late[n] : n \in Node})'
  BY <1>1 DEF BlockInv
<1> QED BY <1>2, <1>3 DEF BlockInv

\* Only pushes and removals change what has come.
LEMMA CameSame == ASSUME UNCHANGED <<list, queue>> PROVE \A n \in Node : Came(n)' = Came(n) /\ list'[n].removed = list[n].removed
BY DEF Came

\* Starting, connecting, locking and unlocking.
LEMMA IdleStep ==
    ASSUME IngestInv, UNCHANGED <<system, wire, sending, importing, pool, chain>>
    PROVE  IngestInv'
<1>1. UNCHANGED <<list, queue>> /\ UNCHANGED <<wire, sending, importing>> /\ UNCHANGED <<system, chain>> /\ UNCHANGED pool
  BY DEF pool
<1>2. TypeInv /\ PoolInv /\ WayInv /\ BlockInv
  BY DEF IngestInv
<1>3. \A n \in Node : Came(n)' = Came(n) /\ list'[n].removed = list[n].removed
  BY <1>1, CameSame
<1>4. TypeInv'
  BY <1>2 DEF TypeInv, pool, chain
<1>5. PoolInv'
  BY <1>1, <1>2, PoolFrame
<1>6. WayInv'
  BY <1>1, <1>2, <1>3, WayFrame
<1>7. BlockInv'
  BY <1>1, <1>2, <1>3, BlockFrame
<1> QED BY <1>4, <1>5, <1>6, <1>7 DEF IngestInv

LEMMA StoreStep ==
    ASSUME IngestInv, NEW n \in Node, NEW t \in Tx, Store(n, t)
    PROVE  IngestInv'
<1>1. TypeInv /\ PoolInv /\ WayInv /\ BlockInv
  BY DEF IngestInv
<1>2. /\ UNCHANGED <<list, queue>> /\ UNCHANGED <<wire, sending, importing>> /\ UNCHANGED <<system, chain>>
      /\ t \in adding[n] /\ adding' = [adding EXCEPT ![n] = @ \ {t}]
      /\ txsMap' = [txsMap EXCEPT ![n] = @ \cup {t}]
  BY DEF Store, net
<1>3. \A k \in Node : Came(k)' = Came(k) /\ list'[k].removed = list[k].removed
  BY <1>2, CameSame
<1>4. TypeInv'
  BY <1>1, <1>2 DEF TypeInv, chain
<1>5. ASSUME NEW k \in Node PROVE MapInv(k)'
  <2>1. MapInv(k)
    BY <1>1 DEF PoolInv
  <2>2. DOMAIN adding = Node /\ DOMAIN txsMap = Node
    BY <1>1 DEF TypeInv
  <2>3. CASE k = n
    <3>1. adding'[k] = adding[k] \ {t} /\ txsMap'[k] = txsMap[k] \cup {t} /\ t \in adding[k]
      BY <1>2, <2>2, <2>3
    <3>2. /\ adding'[k] \cup txsMap'[k] = ToSet(queue[k]) /\ adding'[k] \cap txsMap'[k] = {}
      BY <2>1, <3>1 DEF MapInv
    <3> QED BY <1>2, <2>1, <3>2 DEF MapInv
  <2>4. CASE k # n
    <3>1. adding'[k] = adding[k] /\ txsMap'[k] = txsMap[k]
      BY <1>2, <2>2, <2>4
    <3> QED BY <1>2, <2>1, <3>1 DEF MapInv
  <2> QED BY <2>3, <2>4
<1>6. WayInv'
  BY <1>1, <1>2, <1>3, WayFrame
<1>7. BlockInv'
  BY <1>1, <1>2, <1>3, BlockFrame
<1> QED BY <1>4, <1>5, <1>6, <1>7 DEF IngestInv, PoolInv

\* What is in the list has not been removed.
LEMMA QueueIsNotRemoved ==
    ASSUME NEW l, NEW q, Linked(l, q)
    PROVE  ToSet(q) \cap l.removed = {}
<1> SUFFICES ASSUME NEW e \in ToSet(q) PROVE e \notin l.removed
  OBVIOUS
<1>1. PICK k \in DOMAIN q : q[k] = e
  BY DEF ToSet
<1>2. Placed(l, q, k)
  BY DEF Linked
<1> QED BY <1>1, <1>2 DEF Placed

\* What an importer has read comes from its file.
LEMMA SentFrom ==
    ASSUME NEW m \in Node, SendInv(m)
    PROVE  Sent(m) \subseteq Tx /\ Sent(m) \subseteq ToSet(Imported[m])
<1> SUFFICES ASSUME NEW i \in 1 .. importing[m] PROVE Imported[m][i] \in Tx /\ Imported[m][i] \in ToSet(Imported[m])
  BY DEF Sent
<1>1. Imported[m] \in Seq(Tx)
  BY ImportAssumption
<1>2. Len(Imported[m]) \in Nat
  BY <1>1, SeqFacts
<1>3. i \in 1 .. Len(Imported[m])
  BY <1>2 DEF SendInv
<1> QED BY <1>1, <1>3, SeqFacts

\* The importers have different transactions.
LEMMA SentApart ==
    ASSUME WayInv, NEW m \in Node, NEW n \in Node, m # n
    PROVE  Sent(m) \cap Sent(n) = {}
<1>1. SendInv(m) /\ SendInv(n)
  BY DEF WayInv
<1>2. Sent(m) \subseteq ToSet(Imported[m]) /\ Sent(n) \subseteq ToSet(Imported[n])
  BY <1>1, SentFrom
<1>3. ToSet(Imported[m]) \cap ToSet(Imported[n]) = {}
  BY ImportAssumption
<1> QED BY <1>2, <1>3

\* Steps of Sends and connections.
LEMMA NetStep ==
    ASSUME IngestInv, UNCHANGED <<system, importing, pool, chain>>, WayInv',
           DOMAIN sending' = Node, DOMAIN wire' = Node, \A m \in Node : DOMAIN wire'[m] = Node
    PROVE  IngestInv'
<1>1. UNCHANGED <<list, queue>> /\ UNCHANGED <<system, chain>> /\ UNCHANGED pool
  BY DEF pool
<1>2. TypeInv /\ PoolInv /\ BlockInv
  BY DEF IngestInv
<1>3. \A n \in Node : list'[n].removed = list[n].removed
  BY <1>1, CameSame
<1>4. TypeInv'
  BY <1>2 DEF TypeInv, pool, chain
<1>5. PoolInv'
  BY <1>1, <1>2, PoolFrame
<1>6. BlockInv'
  BY <1>1, <1>2, <1>3, BlockFrame
<1> QED BY <1>4, <1>5, <1>6 DEF IngestInv

LEMMA WriteStep ==
    ASSUME IngestInv, NEW m \in Node, NEW s \in sending[m], Write(m, s)
    PROVE  IngestInv'
<1>1. TypeInv /\ WayInv
  BY DEF IngestInv
<1> DEFINE to == s.to
           line == wire[m][to]
<1>2. /\ UNCHANGED <<system, importing, pool, chain>> /\ UNCHANGED <<list, queue>>
      /\ wire' = [wire EXCEPT ![m][to] = Append(@, s.tx)]
      /\ sending' = [sending EXCEPT ![m] = @ \ {s}]
  BY DEF Write, pool
<1>3. /\ DOMAIN sending = Node /\ DOMAIN wire = Node /\ \A k \in Node : DOMAIN wire[k] = Node
  BY <1>1 DEF TypeInv
<1>4. /\ SendInv(m) /\ OnceInv(m) /\ WireInv(m, to) /\ CameInv(m, to) /\ to \in Node \ {m} /\ s.tx \in Sent(m)
      /\ s.tx \notin ToSet(line) /\ s.tx \notin Came(to)
  <2>1. SendInv(m) /\ OnceInv(m)
    BY <1>1 DEF WayInv
  <2>2. s \in [tx : Sent(m), to : Node \ {m}, left : Nat]
    BY <2>1 DEF SendInv
  <2>3. to \in Node \ {m} /\ s.tx \in Sent(m)
    BY <2>2
  <2>4. WireInv(m, to) /\ CameInv(m, to)
    BY <1>1, <2>3 DEF WayInv
  <2> QED BY <2>1, <2>3, <2>4 DEF OnceInv, CameInv
<1>5. /\ DOMAIN sending' = Node /\ DOMAIN wire' = Node /\ \A k \in Node : DOMAIN wire'[k] = Node
      /\ wire'[m][to] = Append(line, s.tx) /\ sending'[m] = sending[m] \ {s}
      /\ \A k, n \in Node : ~ (k = m /\ n = to) => wire'[k][n] = wire[k][n]
      /\ \A k \in Node : k # m => sending'[k] = sending[k]
  BY <1>2, <1>3, <1>4
<1>6. /\ \A k \in Node : Sent(k)' = Sent(k)
      /\ \A k \in Node : Came(k)' = Came(k)
  BY <1>2 DEF Sent, Came
<1> HIDE DEF line
<1>7. line \in Seq(Tx) /\ IsInjective(line) /\ ToSet(line) \subseteq Sent(m) /\ ToSet(line) \cap Came(to) = {} /\ s.tx \in Tx
  <2>1. Sent(m) \subseteq Tx
    BY <1>4, SentFrom
  <2> QED BY <1>4, <2>1 DEF WireInv, CameInv, line
<1>8. /\ Append(line, s.tx) \in Seq(Tx) /\ IsInjective(Append(line, s.tx))
      /\ ToSet(Append(line, s.tx)) = ToSet(line) \cup {s.tx}
  <2>1. s.tx \notin ToSet(line)
    BY <1>4
  <2> QED BY <1>7, <2>1, AppendNew
<1>9. ASSUME NEW k \in Node PROVE SendInv(k)' /\ OnceInv(k)'
  <2>1. SendInv(k) /\ OnceInv(k) /\ sending'[k] \subseteq sending[k]
    BY <1>1, <1>5 DEF WayInv
  <2>2. SendInv(k)'
    BY <1>2, <1>6, <2>1 DEF SendInv
  <2>3. ASSUME NEW r \in sending'[k] PROVE r.tx \notin ToSet(wire'[k][r.to])
    <3>1. r \in sending[k] /\ r.tx \notin ToSet(wire[k][r.to])
      BY <2>1, <2>3 DEF OnceInv
    <3>2. r.to \in Node
      <4>1. r \in [tx : Sent(k), to : Node \ {k}, left : Nat]
        BY <2>1, <3>1 DEF SendInv
      <4> QED BY <4>1
    <3>3. CASE k = m /\ r.to = to
      <4>1. r # s /\ r \in sending[m]
        BY <1>5, <2>3, <3>3
      <4>2. r.tx # s.tx
        BY <1>4, <3>3, <4>1 DEF OnceInv
      <4> QED BY <1>5, <1>8, <3>1, <3>3, <4>2 DEF line
    <3>4. CASE ~ (k = m /\ r.to = to)
      BY <1>5, <3>1, <3>2, <3>4
    <3> QED BY <3>3, <3>4
  <2>4. OnceInv(k)'
    BY <2>1, <2>3 DEF OnceInv
  <2> QED BY <2>2, <2>4
<1>10. ASSUME NEW k \in Node, NEW n \in Node PROVE WireInv(k, n)' /\ CameInv(k, n)'
  <2>1. WireInv(k, n) /\ CameInv(k, n) /\ sending'[k] \subseteq sending[k]
    BY <1>1, <1>5 DEF WayInv
  <2>2. CASE k = m /\ n = to
    <3> DEFINE now == Append(line, s.tx)
    <3>0. /\ wire'[k][n] = now /\ now \in Seq(Tx) /\ IsInjective(now) /\ ToSet(now) = ToSet(line) \cup {s.tx}
          /\ k = m /\ n = to /\ n # m /\ s.tx \in Sent(m) /\ s.tx \notin Came(n)
          /\ ToSet(line) \subseteq Sent(m) /\ ToSet(line) \cap Came(n) = {}
      BY <1>4, <1>5, <1>7, <1>8, <2>2
    <3> HIDE DEF now, to
    <3>1. WireInv(k, n)'
      BY <1>6, <3>0 DEF WireInv
    <3>2. ToSet(wire'[k][n]) \cap Came(n) = {}
      BY <3>0
    <3> QED BY <1>6, <2>1, <3>1, <3>2 DEF CameInv
  <2>3. CASE ~ (k = m /\ n = to)
    <3>1. wire'[k][n] = wire[k][n]
      BY <1>5, <2>3
    <3>2. WireInv(k, n)'
      BY <1>6, <2>1, <3>1 DEF WireInv
    <3> QED BY <1>6, <2>1, <3>1, <3>2 DEF CameInv
  <2> QED BY <2>2, <2>3
<1>11. \A n \in Node : (Came(n) \subseteq UNION {Sent(k) : k \in Node})'
  <2>1. (UNION {Sent(k) : k \in Node})' = UNION {Sent(k) : k \in Node}
    BY <1>6
  <2> QED BY <1>1, <1>6, <2>1 DEF WayInv
<1>12. WayInv'
  BY <1>9, <1>10, <1>11 DEF WayInv
<1> QED BY <1>2, <1>5, <1>12, NetStep

LEMMA WriteFailsStep ==
    ASSUME IngestInv, NEW m \in Node, NEW s \in sending[m], WriteFails(m, s)
    PROVE  IngestInv'
<1>1. TypeInv /\ WayInv
  BY DEF IngestInv
<1> DEFINE again == [s EXCEPT !.left = @ - 1]
<1>2. /\ UNCHANGED <<system, importing, pool, chain>> /\ UNCHANGED <<list, queue>> /\ wire' = wire
      /\ \/ sending' = [sending EXCEPT ![m] = @ \ {s}]
         \/ s.left > 0 /\ sending' = [sending EXCEPT ![m] = (@ \ {s}) \cup {again}]
  BY DEF WriteFails, pool
<1>3. /\ DOMAIN sending = Node /\ DOMAIN wire = Node /\ \A k \in Node : DOMAIN wire[k] = Node
  BY <1>1 DEF TypeInv
<1>4. s \in [tx : Sent(m), to : Node \ {m}, left : Nat] /\ OnceInv(m)
  BY <1>1 DEF WayInv, SendInv
<1>5. s.left > 0 => again \in [tx : Sent(m), to : Node \ {m}, left : Nat] /\ again.tx = s.tx /\ again.to = s.to
  BY <1>4
<1> HIDE DEF again
<1>6. /\ DOMAIN sending' = Node
      /\ \A k \in Node : k # m => sending'[k] = sending[k]
      /\ \/ sending'[m] = sending[m] \ {s}
         \/ s.left > 0 /\ sending'[m] = (sending[m] \ {s}) \cup {again}
  BY <1>2, <1>3
<1>7. /\ \A k \in Node : Sent(k)' = Sent(k)
      /\ \A k \in Node : Came(k)' = Came(k)
  BY <1>2 DEF Sent, Came
\* Every Send that is left has one before for the same transaction and node.
<1>8. ASSUME NEW k \in Node, NEW r \in sending'[k]
      PROVE  /\ r \in [tx : Sent(k), to : Node \ {k}, left : Nat]
             /\ (r \in sending[k] /\ (k = m => r # s)) \/ (k = m /\ r = again /\ r.tx = s.tx /\ r.to = s.to)
  <2>1. \A u \in sending[k] : u \in [tx : Sent(k), to : Node \ {k}, left : Nat]
    BY <1>1 DEF WayInv, SendInv
  <2> QED BY <1>5, <1>6, <1>8, <2>1
<1>9. ASSUME NEW k \in Node PROVE SendInv(k)' /\ OnceInv(k)'
  <2>1. SendInv(k) /\ OnceInv(k)
    BY <1>1 DEF WayInv
  <2>2. SendInv(k)'
    BY <1>2, <1>7, <1>8, <2>1 DEF SendInv
  <2>3. ASSUME NEW r \in sending'[k] PROVE \E u \in sending[k] : u.tx = r.tx /\ u.to = r.to
    BY <1>8, <2>3
  <2>4. ASSUME NEW r \in sending'[k] PROVE r.tx \notin ToSet(wire'[k][r.to])
    BY <1>2, <2>1, <2>3, <2>4 DEF OnceInv
  <2>5. ASSUME NEW r \in sending'[k], NEW u \in sending'[k], u.tx = r.tx, u.to = r.to PROVE u = r
    <3>1. /\ (r \in sending[k] /\ (k = m => r # s)) \/ (k = m /\ r = again /\ r.tx = s.tx /\ r.to = s.to)
          /\ (u \in sending[k] /\ (k = m => u # s)) \/ (k = m /\ u = again /\ u.tx = s.tx /\ u.to = s.to)
      BY <1>8, <2>5
    <3> QED BY <1>4, <2>1, <2>5, <3>1 DEF OnceInv
  <2> QED BY <2>2, <2>4, <2>5 DEF OnceInv
<1>10. ASSUME NEW k \in Node, NEW n \in Node PROVE WireInv(k, n)' /\ CameInv(k, n)'
  <2>1. WireInv(k, n) /\ CameInv(k, n)
    BY <1>1 DEF WayInv
  <2>2. WireInv(k, n)'
    BY <1>2, <1>7, <2>1 DEF WireInv
  <2>3. ASSUME NEW r \in sending'[k], r.to = n PROVE r.tx \notin Came(n)
    <3>1. (r \in sending[k]) \/ (k = m /\ r.tx = s.tx /\ r.to = s.to)
      BY <1>8, <2>3
    <3> QED BY <2>1, <2>3, <3>1 DEF CameInv
  <2> QED BY <1>2, <1>7, <2>1, <2>2, <2>3 DEF CameInv
<1>11. \A n \in Node : (Came(n) \subseteq UNION {Sent(k) : k \in Node})'
  <2>1. (UNION {Sent(k) : k \in Node})' = UNION {Sent(k) : k \in Node}
    BY <1>7
  <2> QED BY <1>1, <1>7, <2>1 DEF WayInv
<1>12. WayInv'
  BY <1>9, <1>10, <1>11 DEF WayInv
<1> QED BY <1>2, <1>3, <1>6, <1>12, NetStep

LEMMA BreakStep ==
    ASSUME IngestInv, NEW m \in Node, NEW n \in Node, Break(m, n)
    PROVE  IngestInv'
<1>1. TypeInv /\ WayInv
  BY DEF IngestInv
<1> DEFINE line == wire[m][n]
<1>2. PICK j \in 0 .. Len(line) : wire' = [wire EXCEPT ![m][n] = SubSeq(@, 1, j)]
  BY DEF Break
<1>3. UNCHANGED <<system, importing, pool, chain>> /\ UNCHANGED <<list, queue>> /\ sending' = sending
  BY DEF Break, pool
<1>4. /\ DOMAIN sending = Node /\ DOMAIN wire = Node /\ \A k \in Node : DOMAIN wire[k] = Node
  BY <1>1 DEF TypeInv
<1>5. WireInv(m, n) /\ CameInv(m, n)
  BY <1>1 DEF WayInv
<1>6. /\ DOMAIN wire' = Node /\ \A k \in Node : DOMAIN wire'[k] = Node
      /\ wire'[m][n] = SubSeq(line, 1, j)
      /\ \A k, p \in Node : ~ (k = m /\ p = n) => wire'[k][p] = wire[k][p]
  BY <1>2, <1>4
<1>7. /\ \A k \in Node : Sent(k)' = Sent(k)
      /\ \A k \in Node : Came(k)' = Came(k)
  BY <1>3 DEF Sent, Came
<1> HIDE DEF line
<1>8. /\ SubSeq(line, 1, j) \in Seq(Tx) /\ ToSet(SubSeq(line, 1, j)) \subseteq ToSet(line) /\ IsInjective(SubSeq(line, 1, j))
  <2>1. line \in Seq(Tx) /\ IsInjective(line)
    BY <1>5 DEF WireInv, line
  <2> QED BY <2>1, Prefix
<1>9. line = <<>> => SubSeq(line, 1, j) = <<>>
  <2>1. Len(<<>>) = 0
    OBVIOUS
  <2> QED BY <2>1
\* There is less on every wire.
<1>10. ASSUME NEW k \in Node, NEW p \in Node
       PROVE  wire'[k][p] \in Seq(Tx) /\ IsInjective(wire'[k][p]) /\ ToSet(wire'[k][p]) \subseteq ToSet(wire[k][p])
              /\ (wire[k][p] = <<>> => wire'[k][p] = <<>>)
  <2>1. CASE k = m /\ p = n
    BY <1>6, <1>8, <1>9, <2>1 DEF line
  <2>2. CASE ~ (k = m /\ p = n)
    <3>1. WireInv(k, p)
      BY <1>1 DEF WayInv
    <3> QED BY <1>6, <2>2, <3>1 DEF WireInv
  <2> QED BY <2>1, <2>2
<1>11. ASSUME NEW k \in Node PROVE SendInv(k)' /\ OnceInv(k)'
  <2>1. SendInv(k) /\ OnceInv(k)
    BY <1>1 DEF WayInv
  <2>2. SendInv(k)'
    BY <1>3, <1>7, <2>1 DEF SendInv
  <2>3. ASSUME NEW r \in sending[k] PROVE r.tx \notin ToSet(wire'[k][r.to])
    <3>1. r \in [tx : Sent(k), to : Node \ {k}, left : Nat]
      BY <2>1 DEF SendInv
    <3>2. r.to \in Node /\ r.tx \notin ToSet(wire[k][r.to])
      BY <2>1, <3>1 DEF OnceInv
    <3> QED BY <1>10, <3>2
  <2> QED BY <1>3, <2>1, <2>2, <2>3 DEF OnceInv
<1>12. ASSUME NEW k \in Node, NEW p \in Node PROVE WireInv(k, p)' /\ CameInv(k, p)'
  <2>1. WireInv(k, p) /\ CameInv(k, p)
    BY <1>1 DEF WayInv
  <2>2. WireInv(k, p)'
    BY <1>7, <1>10, <2>1 DEF WireInv
  <2>3. ToSet(wire'[k][p]) \cap Came(p) = {}
    BY <1>10, <2>1 DEF CameInv
  <2> QED BY <1>3, <1>7, <2>1, <2>2, <2>3 DEF CameInv
<1>13. \A p \in Node : (Came(p) \subseteq UNION {Sent(k) : k \in Node})'
  <2>1. (UNION {Sent(k) : k \in Node})' = UNION {Sent(k) : k \in Node}
    BY <1>7
  <2> QED BY <1>1, <1>7, <2>1 DEF WayInv
<1>14. WayInv'
  BY <1>11, <1>12, <1>13 DEF WayInv
<1> QED BY <1>3, <1>4, <1>6, <1>14, NetStep

\* The first step of AddTx of a transaction that has not come before.
LEMMA PushStep ==
    ASSUME IngestInv, NEW n \in Node, NEW t \in Tx, t \notin Came(n), Push(n, t)
    PROVE  /\ PoolInv' /\ Came(n)' = Came(n) \cup {t}
           /\ \A k \in Node : k # n => Came(k)' = Came(k)
           /\ \A k \in Node : list'[k].removed = list[k].removed
           /\ DOMAIN list' = Node /\ DOMAIN queue' = Node /\ DOMAIN adding' = Node /\ txsMap' = txsMap
<1>1. /\ DOMAIN list = Node /\ DOMAIN queue = Node /\ DOMAIN adding = Node
  BY DEF IngestInv, TypeInv
<1>2. MapInv(n) /\ \A k \in Node : MapInv(k)
  BY DEF IngestInv, PoolInv
<1> DEFINE l == Queue!PushBack(list[n], t)
           q == Append(queue[n], t)
<1>3. /\ list'[n] = l /\ queue'[n] = q /\ adding'[n] = adding[n] \cup {t} /\ txsMap' = txsMap
      /\ \A k \in Node : k # n => list'[k] = list[k] /\ queue'[k] = queue[k] /\ adding'[k] = adding[k]
      /\ DOMAIN list' = Node /\ DOMAIN queue' = Node /\ DOMAIN adding' = Node
  BY <1>1 DEF Push
<1>4. Linked(list[n], queue[n]) /\ t \notin list[n].removed /\ t \notin ToSet(queue[n])
  BY <1>2 DEF MapInv, Came
<1>5. Linked(l, q) /\ l.removed = list[n].removed
  BY <1>4, PushLinked
<1>6. ToSet(q) = ToSet(queue[n]) \cup {t}
  <2>1. queue[n] \in Seq(Tx)
    BY <1>4 DEF Linked
  <2> QED BY <2>1, AppendNew
<1> HIDE DEF l, q
<1>7. ASSUME NEW k \in Node PROVE MapInv(k)'
  <2>1. CASE k = n
    <3>1. /\ adding'[n] \cup txsMap'[n] = ToSet(q) /\ adding'[n] \cap txsMap'[n] = {}
      BY <1>2, <1>3, <1>4, <1>6 DEF MapInv
    <3> QED BY <1>3, <1>5, <2>1, <3>1 DEF MapInv
  <2>2. CASE k # n
    BY <1>2, <1>3, <2>2 DEF MapInv
  <2> QED BY <2>1, <2>2
<1>8. Came(n)' = Came(n) \cup {t}
  BY <1>3, <1>5, <1>6 DEF Came
<1>9. \A k \in Node : k # n => Came(k)' = Came(k)
  BY <1>3 DEF Came
<1>10. \A k \in Node : list'[k].removed = list[k].removed
  BY <1>3, <1>5
<1> QED BY <1>3, <1>7, <1>8, <1>9, <1>10 DEF PoolInv

LEMMA ReadStep ==
    ASSUME IngestInv, NEW m \in Node, NEW n \in Node, Read(m, n)
    PROVE  IngestInv'
<1>1. TypeInv /\ PoolInv /\ WayInv /\ BlockInv
  BY DEF IngestInv
<1> DEFINE line == wire[m][n]
           t == Head(line)
<1>2. /\ line # <<>> /\ wire' = [wire EXCEPT ![m][n] = Tail(@)] /\ Push(n, t)
      /\ UNCHANGED <<system, chain>> /\ sending' = sending /\ importing' = importing
  BY DEF Read, Unread
<1>3. WireInv(m, n) /\ CameInv(m, n) /\ SendInv(m) /\ OnceInv(m)
  BY <1>1 DEF WayInv
<1>4. line \in Seq(Tx) /\ IsInjective(line) /\ ToSet(line) \subseteq Sent(m) /\ n # m /\ ToSet(line) \cap Came(n) = {}
  BY <1>2, <1>3 DEF WireInv, CameInv
<1>5. /\ DOMAIN wire = Node /\ \A k \in Node : DOMAIN wire[k] = Node
  BY <1>1 DEF TypeInv
<1>6. /\ DOMAIN wire' = Node /\ \A k \in Node : DOMAIN wire'[k] = Node
      /\ wire'[m][n] = Tail(line)
      /\ \A k, p \in Node : ~ (k = m /\ p = n) => wire'[k][p] = wire[k][p]
  BY <1>2, <1>5
<1> HIDE DEF line
<1>7. /\ t \in ToSet(line) /\ Tail(line) \in Seq(Tx) /\ IsInjective(Tail(line))
      /\ ToSet(Tail(line)) \subseteq ToSet(line) /\ t \notin ToSet(Tail(line))
  BY <1>2, <1>4, HeadTail
<1> HIDE DEF t
<1>8. t \in Sent(m) /\ t \in Tx /\ t \notin Came(n)
  <2>1. Sent(m) \subseteq Tx
    BY <1>3, SentFrom
  <2> QED BY <1>4, <1>7, <2>1
<1>9. /\ PoolInv' /\ Came(n)' = Came(n) \cup {t}
      /\ \A k \in Node : k # n => Came(k)' = Came(k)
      /\ \A k \in Node : list'[k].removed = list[k].removed
      /\ DOMAIN list' = Node /\ DOMAIN queue' = Node /\ DOMAIN adding' = Node /\ txsMap' = txsMap
  BY <1>2, <1>8, PushStep
<1>10. \A k \in Node : Sent(k)' = Sent(k)
  BY <1>2 DEF Sent
<1>11. TypeInv'
  BY <1>1, <1>2, <1>6, <1>9 DEF TypeInv, chain
<1>12. BlockInv'
  BY <1>1, <1>2, <1>9, BlockFrame
<1>13. \A k \in Node : k # m => t \notin Sent(k)
  BY <1>1, <1>8, SentApart
\* There is less on every wire.
<1>14. ASSUME NEW k \in Node, NEW p \in Node
       PROVE  wire'[k][p] \in Seq(Tx) /\ IsInjective(wire'[k][p]) /\ ToSet(wire'[k][p]) \subseteq ToSet(wire[k][p])
              /\ (p = k => wire'[k][p] = <<>>) /\ (p = n => t \notin ToSet(wire'[k][p]))
  <2>1. WireInv(k, p)
    BY <1>1 DEF WayInv
  <2>2. CASE k = m /\ p = n
    BY <1>4, <1>6, <1>7, <2>2 DEF line
  <2>3. CASE ~ (k = m /\ p = n)
    BY <1>6, <1>13, <2>1, <2>3 DEF WireInv
  <2> QED BY <2>2, <2>3
<1>15. ASSUME NEW k \in Node PROVE SendInv(k)' /\ OnceInv(k)'
  <2>1. SendInv(k) /\ OnceInv(k)
    BY <1>1 DEF WayInv
  <2>2. SendInv(k)'
    BY <1>2, <1>10, <2>1 DEF SendInv
  <2>3. ASSUME NEW r \in sending[k] PROVE r.tx \notin ToSet(wire'[k][r.to])
    <3>1. r \in [tx : Sent(k), to : Node \ {k}, left : Nat]
      BY <2>1 DEF SendInv
    <3>2. r.to \in Node /\ r.tx \notin ToSet(wire[k][r.to])
      BY <2>1, <3>1 DEF OnceInv
    <3> QED BY <1>14, <3>2
  <2> QED BY <1>2, <2>1, <2>2, <2>3 DEF OnceInv
<1>16. ASSUME NEW k \in Node, NEW p \in Node PROVE WireInv(k, p)' /\ CameInv(k, p)'
  <2>1. WireInv(k, p) /\ CameInv(k, p) /\ SendInv(k)
    BY <1>1 DEF WayInv
  <2>0. wire'[k][p] \in Seq(Tx) /\ IsInjective(wire'[k][p]) /\ ToSet(wire'[k][p]) \subseteq ToSet(wire[k][p])
        /\ (p = k => wire'[k][p] = <<>>) /\ (p = n => t \notin ToSet(wire'[k][p]))
    BY <1>14
  <2>2. WireInv(k, p)'
    BY <1>10, <2>0, <2>1 DEF WireInv
  <2>3. CASE p # n
    <3>1. ToSet(wire'[k][p]) \cap Came(p) = {}
      BY <2>0, <2>1 DEF CameInv
    <3> QED BY <1>2, <1>9, <2>1, <2>2, <2>3, <3>1 DEF CameInv
  <2>4. CASE p = n
    <3>1. ToSet(wire'[k][p]) \cap (Came(n) \cup {t}) = {}
      <4>1. ToSet(wire[k][n]) \cap Came(n) = {}
        BY <2>1, <2>4 DEF CameInv
      <4> QED BY <2>0, <2>4, <4>1
    <3>2. ASSUME NEW r \in sending[k], r.to = n PROVE r.tx \notin Came(n) \cup {t}
      <4>1. r.tx \notin Came(n)
        BY <2>1, <2>4, <3>2 DEF CameInv
      <4>2. r.tx \in Sent(k)
        <5>1. r \in [tx : Sent(k), to : Node \ {k}, left : Nat]
          BY <2>1 DEF SendInv
        <5> QED BY <5>1
      <4>3. CASE k = m
        BY <1>3, <1>7, <3>2, <4>1, <4>3 DEF OnceInv, line
      <4>4. CASE k # m
        BY <1>13, <4>1, <4>2, <4>4
      <4> QED BY <4>3, <4>4
    <3> QED BY <1>2, <1>9, <2>2, <2>4, <3>1, <3>2 DEF CameInv
  <2> QED BY <2>3, <2>4
<1>17. \A p \in Node : (Came(p) \subseteq UNION {Sent(k) : k \in Node})'
  <2>1. (UNION {Sent(k) : k \in Node})' = UNION {Sent(k) : k \in Node}
    BY <1>10
  <2>2. \A p \in Node : Came(p) \subseteq UNION {Sent(k) : k \in Node}
    BY <1>1 DEF WayInv
  <2>3. \A p \in Node : Came(p)' \subseteq Came(p) \cup {t}
    BY <1>9
  <2>4. t \in UNION {Sent(k) : k \in Node}
    BY <1>8
  <2> QED BY <2>1, <2>2, <2>3, <2>4
<1>18. WayInv'
  BY <1>15, <1>16, <1>17 DEF WayInv
<1> QED BY <1>9, <1>11, <1>12, <1>18 DEF IngestInv

LEMMA ImportStep ==
    ASSUME IngestInv, NEW n \in Node, Import(n)
    PROVE  IngestInv'
<1>1. TypeInv /\ PoolInv /\ WayInv /\ BlockInv
  BY DEF IngestInv
<1> DEFINE t == Imported[n][importing[n] + 1]
           to == IF system = "urd" THEN {} ELSE Node \ {n}
           new == {[tx |-> t, to |-> p, left |-> Retries] : p \in to}
<1>2. /\ importing[n] < Len(Imported[n])
      /\ importing' = [importing EXCEPT ![n] = @ + 1] /\ Push(n, t)
      /\ sending' = [sending EXCEPT ![n] = @ \cup new]
      /\ UNCHANGED <<system, chain>> /\ wire' = wire
  BY DEF Import
<1>3. /\ DOMAIN sending = Node /\ DOMAIN importing = Node
  BY <1>1 DEF TypeInv
<1>4. /\ DOMAIN sending' = Node /\ DOMAIN importing' = Node
      /\ importing'[n] = importing[n] + 1 /\ sending'[n] = sending[n] \cup new
      /\ \A k \in Node : k # n => importing'[k] = importing[k] /\ sending'[k] = sending[k]
  BY <1>2, <1>3
<1>5. /\ Imported[n] \in Seq(Tx) /\ Len(Imported[n]) \in Nat /\ importing[n] \in 0 .. Len(Imported[n])
      /\ \A i \in 1 .. Len(Imported[n]) : Imported[n][i] \in Tx /\ Imported[n][i] \in ToSet(Imported[n])
      /\ \A i, j \in 1 .. Len(Imported[n]) : Imported[n][i] = Imported[n][j] => i = j
  <2>1. Imported[n] \in Seq(Tx) /\ IsInjective(Imported[n])
    BY ImportAssumption
  <2>2. importing[n] \in 0 .. Len(Imported[n])
    BY <1>1 DEF WayInv, SendInv
  <2> DEFINE f == Imported[n]
  <2> HIDE DEF f
  <2>3. \A i, j \in 1 .. Len(f) : f[i] = f[j] => i = j
    BY <2>1, Distinct DEF f
  <2>4. Len(f) \in Nat /\ \A i \in 1 .. Len(f) : f[i] \in Tx /\ f[i] \in ToSet(f)
    <3>1. f \in Seq(Tx)
      BY <2>1 DEF f
    <3> QED BY <3>1, SeqFacts
  <2> QED BY <2>1, <2>2, <2>3, <2>4 DEF f
<1>6. importing[n] + 1 \in 1 .. Len(Imported[n]) /\ importing'[n] \in 0 .. Len(Imported[n])
  BY <1>2, <1>4, <1>5
<1>7. t \in Tx /\ t \in ToSet(Imported[n]) /\ t \notin Sent(n)
  <2>1. t \in Tx /\ t \in ToSet(Imported[n])
    BY <1>5, <1>6
  <2>2. ASSUME NEW i \in 1 .. importing[n], t = Imported[n][i] PROVE FALSE
    <3>1. i \in 1 .. Len(Imported[n]) /\ i # importing[n] + 1
      BY <1>5
    <3> QED BY <1>5, <1>6, <2>2, <3>1
  <2> QED BY <2>1, <2>2 DEF Sent
<1>8. Sent(n)' = Sent(n) \cup {t} /\ \A k \in Node : k # n => Sent(k)' = Sent(k)
  <2>1. \A i : i \in 1 .. importing'[n] <=> i \in 1 .. importing[n] \/ i = importing[n] + 1
    BY <1>4, <1>5
  <2>2. Sent(n)' = Sent(n) \cup {t}
    BY <2>1 DEF Sent
  <2> QED BY <1>4, <2>2 DEF Sent
<1>9. \A k \in Node : t \notin Sent(k)
  <2> SUFFICES ASSUME NEW k \in Node, k # n PROVE t \notin Sent(k)
    BY <1>7
  <2>1. SendInv(k)
    BY <1>1 DEF WayInv
  <2>2. Sent(k) \subseteq ToSet(Imported[k])
    BY <2>1, SentFrom
  <2>3. ToSet(Imported[k]) \cap ToSet(Imported[n]) = {}
    BY ImportAssumption
  <2> QED BY <1>7, <2>2, <2>3
<1>10. /\ \A k \in Node : t \notin Came(k)
       /\ \A k, p \in Node : t \notin ToSet(wire[k][p])
       /\ \A k \in Node : \A r \in sending[k] : r \in [tx : Sent(k), to : Node \ {k}, left : Nat] /\ r.tx # t
  <2>1. \A k \in Node : t \notin Came(k)
    BY <1>1, <1>9 DEF WayInv
  <2>2. \A k, p \in Node : t \notin ToSet(wire[k][p])
    BY <1>1, <1>9 DEF WayInv, WireInv
  <2>3. ASSUME NEW k \in Node, NEW r \in sending[k] PROVE r \in [tx : Sent(k), to : Node \ {k}, left : Nat] /\ r.tx # t
    <3>1. r \in [tx : Sent(k), to : Node \ {k}, left : Nat]
      BY <1>1 DEF WayInv, SendInv
    <3>2. r.tx \in Sent(k)
      BY <3>1
    <3> QED BY <1>9, <3>1, <3>2
  <2> QED BY <2>1, <2>2, <2>3
<1>11. \A r \in new : r \in [tx : Sent(n) \cup {t}, to : Node \ {n}, left : Nat] /\ r.tx = t /\ r.to # n
  BY NodeAssumption
<1>12. \A r, u \in new : u.to = r.to => u = r
  OBVIOUS
<1> HIDE DEF t, to, new
<1>13. /\ PoolInv' /\ Came(n)' = Came(n) \cup {t}
       /\ \A k \in Node : k # n => Came(k)' = Came(k)
       /\ \A k \in Node : list'[k].removed = list[k].removed
       /\ DOMAIN list' = Node /\ DOMAIN queue' = Node /\ DOMAIN adding' = Node /\ txsMap' = txsMap
  BY <1>2, <1>7, <1>10, PushStep
<1>14. TypeInv'
  BY <1>1, <1>2, <1>4, <1>13 DEF TypeInv, chain
<1>15. BlockInv'
  BY <1>1, <1>2, <1>13, BlockFrame
<1>16. \A k \in Node : Sent(k) \subseteq Sent(k)'
  BY <1>8
<1>17. ASSUME NEW k \in Node PROVE SendInv(k)' /\ OnceInv(k)'
  <2>1. SendInv(k) /\ OnceInv(k)
    BY <1>1 DEF WayInv
  <2>2. CASE k # n
    <3>1. sending'[k] = sending[k] /\ importing'[k] = importing[k] /\ Sent(k)' = Sent(k)
      BY <1>4, <1>8, <2>2
    <3> QED BY <1>2, <2>1, <3>1 DEF SendInv, OnceInv
  <2>3. CASE k = n
    <3>1. ASSUME NEW r \in sending'[n] PROVE r \in [tx : Sent(n)', to : Node \ {n}, left : Nat]
      <4>1. CASE r \in sending[n]
        BY <1>8, <1>10, <4>1
      <4>2. CASE r \in new
        BY <1>8, <1>11, <4>2
      <4> QED BY <1>4, <3>1, <4>1, <4>2
    <3>2. SendInv(k)'
      BY <1>6, <2>3, <3>1 DEF SendInv
    <3>3. ASSUME NEW r \in sending'[n] PROVE r.tx \notin ToSet(wire[n][r.to])
      <4>1. CASE r \in sending[n]
        BY <2>1, <2>3, <4>1 DEF OnceInv
      <4>2. CASE r \in new
        <5>1. r.tx = t /\ r.to \in Node
          BY <1>11, <4>2
        <5> QED BY <1>10, <5>1
      <4> QED BY <1>4, <3>3, <4>1, <4>2
    <3>4. ASSUME NEW r \in sending'[n], NEW u \in sending'[n], u.tx = r.tx, u.to = r.to PROVE u = r
      <4>1. CASE r \in sending[n] /\ u \in sending[n]
        BY <2>1, <2>3, <3>4, <4>1 DEF OnceInv
      <4>2. CASE r \in new /\ u \in new
        BY <1>12, <3>4, <4>2
      <4>3. CASE (r \in new /\ u \in sending[n]) \/ (r \in sending[n] /\ u \in new)
        BY <1>10, <1>11, <3>4, <4>3
      <4> QED BY <1>4, <3>4, <4>1, <4>2, <4>3
    <3> QED BY <1>2, <2>3, <3>2, <3>3, <3>4 DEF OnceInv
  <2> QED BY <2>2, <2>3
<1>18. ASSUME NEW k \in Node, NEW p \in Node PROVE WireInv(k, p)' /\ CameInv(k, p)'
  <2>1. WireInv(k, p) /\ CameInv(k, p)
    BY <1>1 DEF WayInv
  <2>2. WireInv(k, p)'
    BY <1>2, <1>16, <2>1 DEF WireInv
  <2>3. Came(p)' \subseteq Came(p) \cup {t} /\ (p # n => Came(p)' = Came(p))
    BY <1>13
  <2>4. ToSet(wire[k][p]) \cap Came(p)' = {}
    BY <1>10, <2>1, <2>3 DEF CameInv
  <2>5. ASSUME NEW r \in sending'[k], r.to = p PROVE r.tx \notin Came(p)'
    <3>1. CASE r \in sending[k]
      BY <1>10, <2>1, <2>3, <2>5, <3>1 DEF CameInv
    <3>2. CASE k = n /\ r \in new
      BY <1>10, <1>11, <2>3, <2>5, <3>2
    <3> QED BY <1>4, <2>5, <3>1, <3>2
  <2> QED BY <1>2, <2>2, <2>4, <2>5 DEF CameInv
<1>19. \A p \in Node : (Came(p) \subseteq UNION {Sent(k) : k \in Node})'
  <2>1. UNION {Sent(k) : k \in Node} \subseteq (UNION {Sent(k) : k \in Node})'
    BY <1>16
  <2>2. \A p \in Node : Came(p) \subseteq UNION {Sent(k) : k \in Node}
    BY <1>1 DEF WayInv
  <2>3. \A p \in Node : Came(p)' \subseteq Came(p) \cup {t}
    BY <1>13
  <2>4. t \in (UNION {Sent(k) : k \in Node})'
    BY <1>8
  <2> QED BY <2>1, <2>2, <2>3, <2>4
<1>20. WayInv'
  BY <1>17, <1>18, <1>19 DEF WayInv
<1> QED BY <1>13, <1>14, <1>15, <1>20 DEF IngestInv

\* Update removes what has an entry in txsMap, and nothing else has come or gone.
LEMMA UpdateStep ==
    ASSUME IngestInv, NEW n \in Node, NEW txs \in Seq(Tx), Update(n, txs)
    PROVE  /\ PoolInv' /\ \A k \in Node : Came(k)' = Came(k)
           /\ list'[n].removed = list[n].removed \cup (txsMap[n] \cap ToSet(txs))
           /\ \A k \in Node : k # n => list'[k].removed = list[k].removed
           /\ DOMAIN list' = Node /\ DOMAIN queue' = Node /\ DOMAIN txsMap' = Node /\ adding' = adding
<1>1. /\ DOMAIN list = Node /\ DOMAIN queue = Node /\ DOMAIN txsMap = Node
  BY DEF IngestInv, TypeInv
<1>2. MapInv(n) /\ \A k \in Node : MapInv(k)
  BY DEF IngestInv, PoolInv
<1> DEFINE m == [list |-> list[n], map |-> txsMap[n], queue |-> queue[n]]
           x == FoldLeft(RemoveTx, m, txs)
           D == ToSet(txs)
<1>3. list' = [list EXCEPT ![n] = x.list] /\ txsMap' = [txsMap EXCEPT ![n] = x.map]
      /\ queue' = [queue EXCEPT ![n] = x.queue] /\ adding' = adding
  BY DEF Update
<1>4. m.list = list[n] /\ m.map = txsMap[n] /\ m.queue = queue[n]
  OBVIOUS
<1> HIDE DEF m
<1>5. Kept(m, m, adding[n], {})
  BY <1>2, <1>4 DEF Kept, MapInv
<1>6. Kept(x, m, adding[n], D)
  BY <1>5, UpdateKeeps
<1> HIDE DEF x, D
<1>7. /\ list'[n] = x.list /\ txsMap'[n] = x.map /\ queue'[n] = x.queue
      /\ \A k \in Node : k # n => list'[k] = list[k] /\ queue'[k] = queue[k] /\ txsMap'[k] = txsMap[k]
      /\ DOMAIN list' = Node /\ DOMAIN queue' = Node /\ DOMAIN txsMap' = Node
  BY <1>1, <1>3
<1>8. /\ Linked(x.list, x.queue)
      /\ adding[n] \cup x.map = ToSet(x.queue) /\ adding[n] \cap x.map = {} /\ x.map = txsMap[n] \ D
      /\ x.list.removed = list[n].removed \cup (txsMap[n] \cap D)
  BY <1>4, <1>6 DEF Kept
<1>9. ASSUME NEW k \in Node PROVE MapInv(k)' /\ Came(k)' = Came(k)
  <2>1. CASE k = n
    <3>1. MapInv(k)'
      BY <1>3, <1>7, <1>8, <2>1 DEF MapInv
    <3>2. ToSet(queue[n]) = adding[n] \cup txsMap[n]
      BY <1>2 DEF MapInv
    <3>3. ToSet(x.queue) \cup x.list.removed = ToSet(queue[n]) \cup list[n].removed
      BY <1>8, <3>2
    <3> QED BY <1>7, <2>1, <3>1, <3>3 DEF Came
  <2>2. CASE k # n
    <3>1. MapInv(k)'
      BY <1>2, <1>3, <1>7, <2>2 DEF MapInv
    <3> QED BY <1>7, <2>2, <3>1 DEF Came
  <2> QED BY <2>1, <2>2
<1>10. list'[n].removed = list[n].removed \cup (txsMap[n] \cap ToSet(txs))
  BY <1>7, <1>8 DEF D
<1> QED BY <1>3, <1>7, <1>9, <1>10 DEF PoolInv

\* What is left to execute, element by element.
LEMMA PendingIs == \A n : \A x : x \in Pending(n) <=> \E i \in (ahead[n] + 1) .. Len(blocks) : x \in ToSet(blocks[i])
BY DEF Pending

\* What is in a mempool and was executed there came late.
LEMMA ReturnedIsLate ==
    ASSUME IngestInv, NEW n \in Node
    PROVE  ToSet(queue[n]) \cap executed[n] \subseteq late[n]
<1>1. Linked(list[n], queue[n])
  BY DEF IngestInv, PoolInv, MapInv
<1>2. ToSet(queue[n]) \cap list[n].removed = {}
  BY <1>1, QueueIsNotRemoved
<1>3. executed[n] \subseteq late[n] \cup list[n].removed
  BY DEF IngestInv, BlockInv, ChainInv
<1> QED BY <1>2, <1>3

LEMMA ProposePyramidStep ==
    ASSUME IngestInv, NEW n \in Node, ProposePyramid(n)
    PROVE  IngestInv'
<1>1. TypeInv /\ PoolInv /\ WayInv /\ BlockInv
  BY DEF IngestInv
<1> DEFINE txs == ReapTx(n)
           D == ToSet(txs)
           L == Len(blocks)
<1>2. /\ system = "pyramid" /\ ahead[n] = L /\ agreed' = agreed \cup D /\ twice' = twice \cup (agreed \cap D)
      /\ blocks' = Append(blocks, txs)
      /\ UNCHANGED <<system, wire, sending, importing>> /\ UNCHANGED pool /\ UNCHANGED <<ahead, executed, late>>
  BY DEF ProposePyramid, Agree, net
<1>3. UNCHANGED <<wire, sending, importing>> /\ UNCHANGED <<list, queue>> /\ system' = system
  BY <1>2 DEF pool
<1>4. Linked(list[n], queue[n]) /\ ChainInv(n)
  BY <1>1 DEF PoolInv, MapInv, BlockInv
<1>5. txs \in Seq(Tx) /\ D \subseteq ToSet(queue[n])
  BY <1>4, ReapFrom
<1> HIDE DEF txs, D
<1>6. /\ blocks \in Seq(Seq(Tx)) /\ L \in Nat /\ blocks' \in Seq(Seq(Tx)) /\ Len(blocks') = L + 1
      /\ (\A i \in 1 .. L : blocks'[i] = blocks[i]) /\ blocks'[L + 1] = txs
  <2>1. blocks \in Seq(Seq(Tx))
    BY <1>1 DEF TypeInv
  <2>2. L \in Nat
    BY <2>1, SeqFacts
  <2> QED BY <1>2, <1>5, <2>1, <2>2, AppendNew
<1> HIDE DEF L
<1>7. TypeInv'
  BY <1>1, <1>2, <1>3, <1>6 DEF TypeInv, pool
<1>8. PoolInv'
  BY <1>1, <1>2, PoolFrame
<1>9. WayInv'
  <2>1. \A k \in Node : Came(k)' = Came(k)
    BY <1>3, CameSame
  <2> QED BY <1>1, <1>3, <2>1, WayFrame
<1>10. ASSUME NEW k \in Node PROVE ChainInv(k)'
  <2>1. /\ ahead[k] \in 0 .. L /\ executed[k] \subseteq late[k] \cup list[k].removed
        /\ agreed \subseteq executed[k] \cup Pending(k)
    BY <1>1, <1>2 DEF BlockInv, ChainInv, L
  <2>2. ahead'[k] \in 0 .. Len(blocks')
    BY <1>2, <1>6, <2>1
  <2>3. Pending(k) \subseteq Pending(k)'
    <3> SUFFICES ASSUME NEW x \in Pending(k) PROVE x \in Pending(k)'
      OBVIOUS
    <3>1. PICK i \in (ahead[k] + 1) .. L : x \in ToSet(blocks[i])
      BY PendingIs DEF L
    <3>2. i \in 1 .. L /\ i \in (ahead'[k] + 1) .. Len(blocks')
      BY <1>2, <1>6, <2>1
    <3>3. x \in ToSet(blocks'[i])
      BY <1>6, <3>1, <3>2
    <3> QED BY <3>2, <3>3 DEF Pending
  <2>4. D \subseteq Pending(k)'
    <3>1. L + 1 \in (ahead'[k] + 1) .. Len(blocks')
      BY <1>2, <1>6, <2>1
    <3>2. D = ToSet(blocks'[L + 1])
      BY <1>6 DEF D
    <3> QED BY <3>1, <3>2 DEF Pending
  <2>5. executed'[k] \subseteq late'[k] \cup list'[k].removed
    BY <1>2, <1>3, <2>1
  <2>6. agreed' \subseteq executed'[k] \cup Pending(k)'
    BY <1>2, <2>1, <2>3, <2>4
  <2> QED BY <2>2, <2>5, <2>6 DEF ChainInv
<1>11. agreed \cap D \subseteq late[n]
  <2>1. Pending(n) = {}
    <3>1. (ahead[n] + 1) .. Len(blocks) = {}
      BY <1>2, <1>6 DEF L
    <3> QED BY <3>1 DEF Pending
  <2>2. agreed \subseteq executed[n]
    BY <1>2, <1>4, <2>1 DEF ChainInv
  <2>3. ToSet(queue[n]) \cap executed[n] \subseteq late[n]
    BY ReturnedIsLate
  <2> QED BY <1>5, <2>2, <2>3
<1>12. (twice \subseteq UNION {late[k] : k \in Node})'
  <2>1. twice \subseteq UNION {late[k] : k \in Node}
    BY <1>1 DEF BlockInv
  <2>2. late[n] \subseteq UNION {late[k] : k \in Node}
    OBVIOUS
  <2>3. (UNION {late[k] : k \in Node})' = UNION {late[k] : k \in Node}
    BY <1>2
  <2>4. twice' \subseteq UNION {late[k] : k \in Node}
    BY <1>2, <1>11, <2>1, <2>2
  <2> QED BY <2>3, <2>4
<1> QED BY <1>7, <1>8, <1>9, <1>10, <1>12 DEF IngestInv, BlockInv

LEMMA ProposeUrdStep ==
    ASSUME IngestInv, ProposeUrd
    PROVE  IngestInv'
<1>1. TypeInv /\ PoolInv /\ WayInv /\ BlockInv /\ Leader \in Node
  BY NodeAssumption DEF IngestInv, Leader, Node
<1> DEFINE txs == ReapTx(Leader)
           D == ToSet(txs)
<1>2. /\ system = "urd" /\ adding[Leader] = {} /\ agreed' = agreed \cup D /\ twice' = twice \cup (agreed \cap D)
      /\ Update(Leader, txs) /\ executed' = [executed EXCEPT ![Leader] = @ \cup D]
      /\ UNCHANGED <<wire, sending, importing>> /\ UNCHANGED <<system, blocks, ahead, late>>
  BY DEF ProposeUrd, Agree, net
<1>3. MapInv(Leader) /\ ChainInv(Leader)
  BY <1>1 DEF PoolInv, BlockInv
<1>4. txs \in Seq(Tx) /\ D \subseteq ToSet(queue[Leader]) /\ D \subseteq txsMap[Leader]
  <2>1. Linked(list[Leader], queue[Leader])
    BY <1>3 DEF MapInv
  <2>2. txs \in Seq(Tx) /\ D \subseteq ToSet(queue[Leader])
    BY <1>1, <2>1, ReapFrom
  <2> HIDE DEF D
  <2>3. ToSet(queue[Leader]) \subseteq txsMap[Leader]
    BY <1>2, <1>3 DEF MapInv
  <2> QED BY <2>2, <2>3
<1>5. /\ PoolInv' /\ \A k \in Node : Came(k)' = Came(k)
      /\ list'[Leader].removed = list[Leader].removed \cup (txsMap[Leader] \cap D)
      /\ \A k \in Node : k # Leader => list'[k].removed = list[k].removed
      /\ DOMAIN list' = Node /\ DOMAIN queue' = Node /\ DOMAIN txsMap' = Node /\ adding' = adding
  BY <1>1, <1>2, <1>4, UpdateStep
<1> HIDE DEF txs, D
<1>6. /\ DOMAIN executed' = Node /\ executed'[Leader] = executed[Leader] \cup D
      /\ \A k \in Node : k # Leader => executed'[k] = executed[k]
  <2>1. DOMAIN executed = Node
    BY <1>1 DEF TypeInv
  <2> QED BY <1>1, <1>2, <2>1
<1>7. TypeInv'
  BY <1>1, <1>2, <1>5, <1>6 DEF TypeInv
<1>8. WayInv'
  BY <1>1, <1>2, <1>5, WayFrame
<1>9. \A k \in Node : Pending(k)' = Pending(k)
  BY <1>2 DEF Pending
<1>10. ASSUME NEW k \in Node PROVE ChainInv(k)'
  <2>1. ChainInv(k)
    BY <1>1 DEF BlockInv
  <2>2. CASE k = Leader
    <3>1. executed'[k] \subseteq late'[k] \cup list'[k].removed
      BY <1>2, <1>4, <1>5, <1>6, <2>1, <2>2 DEF ChainInv
    <3>2. agreed' \subseteq executed'[k] \cup Pending(k)'
      BY <1>2, <1>6, <1>9, <2>1, <2>2 DEF ChainInv
    <3> QED BY <1>2, <2>1, <3>1, <3>2 DEF ChainInv
  <2>3. CASE k # Leader
    <3>1. executed'[k] \subseteq late'[k] \cup list'[k].removed
      BY <1>2, <1>5, <1>6, <2>1, <2>3 DEF ChainInv
    <3> QED BY <1>2, <2>1, <2>3, <3>1 DEF ChainInv
  <2> QED BY <2>2, <2>3
<1>11. agreed \cap D \subseteq late[Leader]
  <2>1. Pending(Leader) = {}
    <3>1. blocks = <<>> /\ Len(<<>>) = 0
      BY <1>1, <1>2 DEF TypeInv
    <3>2. ahead[Leader] \in 0 .. Len(blocks)
      BY <1>3 DEF ChainInv
    <3>3. (ahead[Leader] + 1) .. Len(blocks) = {}
      BY <3>1, <3>2
    <3> QED BY <3>3 DEF Pending
  <2>2. agreed \subseteq executed[Leader]
    BY <1>3, <2>1 DEF ChainInv
  <2>3. ToSet(queue[Leader]) \cap executed[Leader] \subseteq late[Leader]
    BY <1>1, ReturnedIsLate
  <2> QED BY <1>4, <2>2, <2>3
<1>12. (twice \subseteq UNION {late[k] : k \in Node})'
  <2>1. twice \subseteq UNION {late[k] : k \in Node}
    BY <1>1 DEF BlockInv
  <2>2. late[Leader] \subseteq UNION {late[k] : k \in Node}
    BY <1>1
  <2>3. (UNION {late[k] : k \in Node})' = UNION {late[k] : k \in Node}
    BY <1>2
  <2>4. twice' \subseteq UNION {late[k] : k \in Node}
    BY <1>2, <1>11, <2>1, <2>2
  <2> QED BY <2>3, <2>4
<1> QED BY <1>5, <1>7, <1>8, <1>10, <1>12 DEF IngestInv, BlockInv

\* A block that all have executed goes, and everyone's count with it.
LEMMA PendingAfter ==
    ASSUME TypeInv, NEW n \in Node, NEW last \in BOOLEAN, ahead[n] < Len(blocks),
           \A k \in Node : ahead[k] \in 0 .. Len(blocks),
           last => ahead[n] = 0 /\ \A k \in Node \ {n} : ahead[k] > 0,
           blocks' = (IF last THEN Tail(blocks) ELSE blocks),
           ahead' = [k \in Node |-> ahead[k] + (IF k = n THEN 1 ELSE 0) - (IF last THEN 1 ELSE 0)],
           NEW k \in Node
    PROVE  /\ blocks' \in Seq(Seq(Tx)) /\ ahead'[k] \in 0 .. Len(blocks')
           /\ Pending(k) \subseteq (IF k = n THEN ToSet(blocks[ahead[n] + 1]) ELSE {}) \cup Pending(k)'
<1> DEFINE L == Len(blocks)
<1>1. blocks \in Seq(Seq(Tx)) /\ L \in Nat /\ blocks # <<>>
  <2>1. blocks \in Seq(Seq(Tx))
    BY DEF TypeInv
  <2>2. L \in Nat /\ (blocks = <<>> <=> L = 0)
    BY <2>1, SeqFacts
  <2> QED BY <2>1, <2>2
<1>2. ahead[n] \in 0 .. L /\ ahead[k] \in 0 .. L /\ ahead[n] < L
  OBVIOUS
<1>3. ASSUME NEW x \in Pending(k), k # n \/ x \notin ToSet(blocks[ahead[n] + 1])
      PROVE  \E i \in (ahead[k] + 1) .. L : x \in ToSet(blocks[i]) /\ (k = n => i # ahead[n] + 1)
  BY <1>3, PendingIs
<1>4. CASE ~last
  <2>1. blocks' = blocks /\ ahead'[k] = ahead[k] + (IF k = n THEN 1 ELSE 0)
    BY <1>2, <1>4
  <2>2. ahead'[k] \in 0 .. Len(blocks')
    BY <1>1, <1>2, <2>1
  <2>3. ASSUME NEW x \in Pending(k), k # n \/ x \notin ToSet(blocks[ahead[n] + 1]) PROVE x \in Pending(k)'
    <3>1. PICK i \in (ahead[k] + 1) .. L : x \in ToSet(blocks[i]) /\ (k = n => i # ahead[n] + 1)
      BY <1>3, <2>3
    <3>2. i \in (ahead'[k] + 1) .. Len(blocks') /\ x \in ToSet(blocks'[i])
      BY <1>1, <1>2, <2>1, <3>1
    <3> QED BY <3>2 DEF Pending
  <2> QED BY <1>1, <2>1, <2>2, <2>3
<1>5. CASE last
  <2>1. blocks' = Tail(blocks) /\ ahead[n] = 0 /\ (k # n => ahead[k] > 0)
    BY <1>5
  <2>5. ahead'[k] = ahead[k] + (IF k = n THEN 1 ELSE 0) - 1
    BY <1>5
  <2>6. k = n => ahead'[k] = 0 /\ ahead[k] = 0
    BY <2>1, <2>5
  <2>7. k # n => ahead'[k] = ahead[k] - 1 /\ ahead[k] > 0
    BY <1>2, <2>1, <2>5
  <2>2. blocks' \in Seq(Seq(Tx)) /\ Len(blocks') = L - 1 /\ \A i \in 1 .. L - 1 : blocks'[i] = blocks[i + 1]
    BY <1>1, <2>1, HeadTail
  <2>8. ahead'[k] \in 0 .. L - 1
    <3>1. CASE k = n
      <4>1. L - 1 \in Nat /\ L > 0
        BY <1>1, <1>2, <2>1
      <4> QED BY <2>6, <3>1, <4>1
    <3>2. CASE k # n
      <4>1. ahead'[k] = ahead[k] - 1 /\ ahead[k] > 0 /\ ahead[k] \in Int /\ ahead[k] <= L /\ L \in Nat
        BY <1>1, <1>2, <2>7, <3>2
      <4>2. ahead[k] - 1 \in 0 .. L - 1
        <5> DEFINE a == ahead[k]
        <5>1. a \in Int /\ a > 0 /\ a <= L /\ L \in Nat
          BY <4>1
        <5> HIDE DEF a, L
        <5>2. a - 1 \in 0 .. L - 1
          BY <5>1
        <5> QED BY <5>2 DEF a
      <4> QED BY <4>1, <4>2
    <3> QED BY <3>1, <3>2
  <2>3. ahead'[k] \in 0 .. Len(blocks')
    BY <2>2, <2>8
  <2>4. ASSUME NEW x \in Pending(k), k # n \/ x \notin ToSet(blocks[ahead[n] + 1]) PROVE x \in Pending(k)'
    <3>1. PICK i \in (ahead[k] + 1) .. L : x \in ToSet(blocks[i]) /\ (k = n => i # ahead[n] + 1)
      BY <1>3, <2>4
    <3>4. i \in Int /\ i <= L /\ ahead'[k] + 1 <= i - 1
      <4>1. CASE k = n
        BY <1>1, <2>1, <2>6, <3>1, <4>1
      <4>2. CASE k # n
        BY <1>1, <1>2, <2>7, <3>1, <4>2
      <4> QED BY <4>1, <4>2
    <3>2. i - 1 \in 1 .. L - 1 /\ (i - 1) + 1 = i /\ i - 1 \in (ahead'[k] + 1) .. Len(blocks')
      BY <1>1, <2>2, <2>8, <3>4
    <3>3. blocks'[i - 1] = blocks[i]
      BY <2>2, <3>2
    <3> QED BY <3>1, <3>2, <3>3 DEF Pending
  <2> QED BY <2>2, <2>3, <2>4
<1> QED BY <1>4, <1>5

LEMMA ExecuteBlockStep ==
    ASSUME IngestInv, NEW n \in Node, ExecuteBlock(n)
    PROVE  IngestInv'
<1>1. TypeInv /\ PoolInv /\ WayInv /\ BlockInv
  BY DEF IngestInv
<1> DEFINE txs == blocks[ahead[n] + 1]
           D == ToSet(txs)
           last == ahead[n] = 0 /\ \A k \in Node \ {n} : ahead[k] > 0
<1>2. /\ ahead[n] < Len(blocks) /\ Update(n, txs)
      /\ executed' = [executed EXCEPT ![n] = @ \cup D]
      /\ late' = [late EXCEPT ![n] = @ \cup (D \ txsMap[n])]
      /\ blocks' = (IF last THEN Tail(blocks) ELSE blocks)
      /\ ahead' = [k \in Node |-> ahead[k] + (IF k = n THEN 1 ELSE 0) - (IF last THEN 1 ELSE 0)]
      /\ UNCHANGED <<wire, sending, importing>> /\ UNCHANGED <<system, agreed, twice>>
  BY DEF ExecuteBlock, net
<1>3. /\ \A k \in Node : ahead[k] \in 0 .. Len(blocks)
      /\ blocks \in Seq(Seq(Tx)) /\ Len(blocks) \in Nat
  <2>1. blocks \in Seq(Seq(Tx))
    BY <1>1 DEF TypeInv
  <2> QED BY <1>1, <2>1, SeqFacts DEF BlockInv, ChainInv
<1>4. txs \in Seq(Tx)
  <2>1. ahead[n] + 1 \in 1 .. Len(blocks)
    BY <1>2, <1>3
  <2> QED BY <1>3, <2>1, SeqFacts
<1>5. last \in BOOLEAN /\ (last => ahead[n] = 0 /\ \A k \in Node \ {n} : ahead[k] > 0)
  OBVIOUS
<1> HIDE DEF last
<1>6. ASSUME NEW k \in Node
      PROVE  /\ blocks' \in Seq(Seq(Tx)) /\ ahead'[k] \in 0 .. Len(blocks')
             /\ Pending(k) \subseteq (IF k = n THEN D ELSE {}) \cup Pending(k)'
  BY <1>1, <1>2, <1>3, <1>5, PendingAfter
<1>7. /\ PoolInv' /\ \A k \in Node : Came(k)' = Came(k)
      /\ list'[n].removed = list[n].removed \cup (txsMap[n] \cap D)
      /\ \A k \in Node : k # n => list'[k].removed = list[k].removed
      /\ DOMAIN list' = Node /\ DOMAIN queue' = Node /\ DOMAIN txsMap' = Node /\ adding' = adding
  BY <1>2, <1>4, UpdateStep
<1> HIDE DEF txs, D
<1>8. /\ DOMAIN executed' = Node /\ executed'[n] = executed[n] \cup D
      /\ DOMAIN late' = Node /\ late'[n] = late[n] \cup (D \ txsMap[n]) /\ DOMAIN ahead' = Node
      /\ \A k \in Node : k # n => executed'[k] = executed[k] /\ late'[k] = late[k]
  <2>1. DOMAIN executed = Node /\ DOMAIN late = Node
    BY <1>1 DEF TypeInv
  <2> QED BY <1>2, <2>1
<1>9. TypeInv'
  <2>1. system # "urd"
    <3>1. Len(<<>>) = 0
      OBVIOUS
    <3>2. ahead[n] \in 0 .. Len(blocks)
      BY <1>3
    <3> QED BY <1>1, <1>2, <1>3, <3>1, <3>2 DEF TypeInv
  <2> QED BY <1>1, <1>2, <1>6, <1>7, <1>8, <2>1 DEF TypeInv
<1>10. WayInv'
  BY <1>1, <1>2, <1>7, WayFrame
<1>11. ASSUME NEW k \in Node PROVE ChainInv(k)'
  <2>1. ChainInv(k)
    BY <1>1 DEF BlockInv
  <2>2. ahead'[k] \in 0 .. Len(blocks') /\ Pending(k) \subseteq (IF k = n THEN D ELSE {}) \cup Pending(k)'
    BY <1>6
  <2>3. executed'[k] \subseteq late'[k] \cup list'[k].removed
    <3>1. executed[k] \subseteq late[k] \cup list[k].removed
      BY <2>1 DEF ChainInv
    <3>2. CASE k = n
      BY <1>7, <1>8, <3>1, <3>2
    <3>3. CASE k # n
      BY <1>7, <1>8, <3>1, <3>3
    <3> QED BY <3>2, <3>3
  <2>4. (system = "pyramid" \/ k = Leader) => agreed' \subseteq executed'[k] \cup Pending(k)'
    <3> SUFFICES ASSUME system = "pyramid" \/ k = Leader PROVE agreed \subseteq executed'[k] \cup Pending(k)'
      BY <1>2
    <3>1. agreed \subseteq executed[k] \cup Pending(k)
      BY <2>1 DEF ChainInv
    <3> QED BY <1>8, <2>2, <3>1
  <2> QED BY <1>2, <2>2, <2>3, <2>4 DEF ChainInv
<1>12. (twice \subseteq UNION {late[k] : k \in Node})'
  <2>1. twice \subseteq UNION {late[k] : k \in Node}
    BY <1>1 DEF BlockInv
  <2>2. \A k \in Node : late[k] \subseteq late'[k]
    BY <1>8
  <2> QED BY <1>2, <2>1, <2>2
<1> QED BY <1>7, <1>9, <1>10, <1>11, <1>12 DEF IngestInv, BlockInv

LEMMA InitHolds == Init => IngestInv
<1> SUFFICES ASSUME Init PROVE IngestInv
  OBVIOUS
<1>1. /\ system \in {"urd", "pyramid"} /\ blocks = <<>> /\ agreed = {} /\ twice = {}
      /\ wire = Pairs(<<>>) /\ sending = [n \in Node |-> {}] /\ importing = [n \in Node |-> 0]
      /\ adding = [n \in Node |-> {}] /\ list = [n \in Node |-> Queue!New] /\ txsMap = [n \in Node |-> {}]
      /\ queue = [n \in Node |-> <<>>] /\ ahead = [n \in Node |-> 0]
      /\ executed = [n \in Node |-> {}] /\ late = [n \in Node |-> {}]
  BY DEF Init
<1>2. <<>> \in Seq(Seq(Tx)) /\ <<>> \in Seq(Tx) /\ Len(<<>>) = 0 /\ ToSet(<<>>) = {} /\ IsInjective(<<>>)
  BY DEF ToSet, IsInjective
<1>3. TypeInv
  BY <1>1, <1>2 DEF TypeInv, Pairs
<1>4. Queue!New.removed = {}
  BY DEF Queue!New
<1>5. ASSUME NEW n \in Node PROVE MapInv(n) /\ Came(n) = {} /\ Sent(n) = {} /\ SendInv(n) /\ OnceInv(n) /\ ChainInv(n)
  <2>1. list[n] = Queue!New /\ queue[n] = <<>> /\ adding[n] = {} /\ txsMap[n] = {} /\ importing[n] = 0 /\ sending[n] = {}
        /\ ahead[n] = 0 /\ executed[n] = {} /\ late[n] = {}
    BY <1>1
  <2>2. MapInv(n)
    BY <1>2, <2>1, NewLinked DEF MapInv
  <2>3. Came(n) = {}
    BY <1>2, <1>4, <2>1 DEF Came
  <2>4. Sent(n) = {}
    BY <2>1 DEF Sent
  <2>5. SendInv(n)
    <3>1. Imported[n] \in Seq(Tx)
      BY ImportAssumption
    <3>2. Len(Imported[n]) \in Nat
      BY <3>1, SeqFacts
    <3> QED BY <2>1, <3>2 DEF SendInv
  <2>6. OnceInv(n)
    BY <2>1 DEF OnceInv
  <2>7. ChainInv(n)
    BY <1>1, <1>2, <2>1 DEF ChainInv
  <2> QED BY <2>2, <2>3, <2>4, <2>5, <2>6, <2>7
<1>6. ASSUME NEW m \in Node, NEW n \in Node PROVE WireInv(m, n) /\ CameInv(m, n)
  <2>1. wire[m][n] = <<>> /\ sending[m] = {}
    BY <1>1 DEF Pairs
  <2> QED BY <1>2, <2>1 DEF WireInv, CameInv
<1>7. PoolInv
  BY <1>5 DEF PoolInv
<1>8. WayInv
  BY <1>5, <1>6 DEF WayInv
<1>9. BlockInv
  BY <1>1, <1>5 DEF BlockInv
<1> QED BY <1>3, <1>7, <1>8, <1>9 DEF IngestInv

\* Every step keeps the invariant.
LEMMA StepHolds == IngestInv /\ [Next]_vars => IngestInv'
<1> SUFFICES ASSUME IngestInv, [Next]_vars PROVE IngestInv'
  OBVIOUS
<1>1. ASSUME NEW n \in Node, ReceiverStart(n) PROVE IngestInv'
  <2>1. UNCHANGED <<system, wire, sending, importing, pool, chain>>
    BY <1>1 DEF ReceiverStart
  <2> QED BY <2>1, IdleStep
<1>2. ASSUME NEW n \in Node, NodeStart(n) PROVE IngestInv'
  <2>1. UNCHANGED <<system, wire, sending, importing, pool, chain>>
    BY <1>2 DEF NodeStart
  <2> QED BY <2>1, IdleStep
<1>3. ASSUME NEW n \in Node, Import(n) PROVE IngestInv'
  BY <1>3, ImportStep
<1>4. ASSUME NEW n \in Node, ProposePyramid(n) PROVE IngestInv'
  BY <1>4, ProposePyramidStep
<1>5. ASSUME NEW n \in Node, ExecuteBlock(n) PROVE IngestInv'
  BY <1>5, ExecuteBlockStep
<1>6. ASSUME NEW n \in Node, NEW s \in sending[n], Write(n, s) PROVE IngestInv'
  BY <1>6, WriteStep
<1>7. ASSUME NEW n \in Node, NEW s \in sending[n], WriteFails(n, s) PROVE IngestInv'
  BY <1>7, WriteFailsStep
<1>8. ASSUME NEW n \in Node, NEW t \in Tx, Store(n, t) PROVE IngestInv'
  BY <1>8, StoreStep
<1>9. ASSUME NEW n \in Node, NEW m \in Node, Break(m, n) PROVE IngestInv'
  BY <1>9, BreakStep
<1>10. ASSUME NEW n \in Node, NEW m \in Node, Read(m, n) PROVE IngestInv'
  BY <1>10, ReadStep
<1>11. ASSUME NEW t \in Tx, Unlock(t) PROVE IngestInv'
  <2>1. UNCHANGED <<system, wire, sending, importing, pool, chain>>
    BY <1>11 DEF Unlock, net
  <2> QED BY <2>1, IdleStep
<1>12. ASSUME ProposeUrd PROVE IngestInv'
  BY <1>12, ProposeUrdStep
<1>14. ASSUME NEW t \in Lockable, Lock(t) PROVE IngestInv'
  <2>1. UNCHANGED <<system, wire, sending, importing, pool, chain>>
    BY <1>14 DEF Lock, net
  <2> QED BY <2>1, IdleStep
<1>13. ASSUME UNCHANGED vars PROVE IngestInv'
  <2>1. UNCHANGED <<system, wire, sending, importing, pool, chain>>
    BY <1>13 DEF vars, net
  <2> QED BY <2>1, IdleStep
<1> QED BY <1>1, <1>2, <1>3, <1>4, <1>5, <1>6, <1>7, <1>8, <1>9, <1>10, <1>11, <1>12, <1>13, <1>14 DEF Next

\* The invariant holds in every state: no transaction is on its way to a node twice or
\* to a node it has come to, every list is linked, and what a node executes is either
\* removed from its mempool or counted as late.
THEOREM IngestCorrect == Spec => []IngestInv
<1>1. Init => IngestInv
  BY InitHolds
<1>2. IngestInv /\ [Next]_vars => IngestInv'
  BY StepHolds
<1> QED BY <1>1, <1>2, PTL DEF Spec

\* The concurrent list of every mempool (libs/clist under mempool.go) is the queue it
\* stands for, never panics and loses no wake-up, whatever AddTx, Update and the network do.
THEOREM ListSoundCorrect == Spec => []ListSound
<1>1. IngestInv => ListSound
  <2> SUFFICES ASSUME IngestInv PROVE ListSound
    OBVIOUS
  <2>1. \A n \in Node : Linked(list[n], queue[n])
    BY DEF IngestInv, PoolInv, MapInv
  <2> QED BY <2>1, LinkedSound
<1> QED BY <1>1, IngestCorrect, PTL

\* A transaction is in a mempool after its block, or in a second block, only where AddTx
\* of some node ended after that node had executed the first one (mempool.go Update).
THEOREM ReturnsOnlyLateCorrect == Spec => []ReturnsOnlyLate
<1>1. IngestInv => ReturnsOnlyLate
  <2> SUFFICES ASSUME IngestInv PROVE ReturnsOnlyLate
    OBVIOUS
  <2>1. \A n \in Node : ToSet(queue[n]) \cap executed[n] \subseteq late[n]
    BY ReturnedIsLate
  <2>2. twice \subseteq UNION {late[n] : n \in Node}
    BY DEF IngestInv, BlockInv
  <2> QED BY <2>1, <2>2 DEF ReturnsOnlyLate
<1> QED BY <1>1, IngestCorrect, PTL
=============================================================================
