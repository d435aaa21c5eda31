--------------------------- MODULE MiniBankProofs ---------------------------
(***************************************************************************)
(* The bank of Urd, proved for any shards, accounts, transfers and blocks: *)
(* locks and relays, how often a transfer is carried out, and balances.    *)
(***************************************************************************)
EXTENDS MiniBank, FiniteSums, SequenceTheorems

(***************************************************************************)
(* The inductive invariant.  Each shard is described by its own state, by  *)
(* got[c], the relays of shard c that it has executed, and by mine, the    *)
(* relays it has sent to itself.                                           *)
(***************************************************************************)

Own(s, tx) == {k \in Range(keys(tx)) : Home[k] = s}

\* r is a relay that shard c may send to shard s.
IsRelay(r, c, s) == /\ r.tx \in Tx /\ Crosses(r.tx) /\ ValidateTransferTx(r.tx)
                    /\ c \in Shards(r.tx) /\ s \in Shards(r.tx)
                    /\ r.data \in [Own(c, r.tx) -> Money]

IsState(st) ==
    /\ st = [money |-> st.money, wlocked |-> st.wlocked, sets |-> st.sets,
             undo |-> st.undo, applied |-> st.applied]
    /\ st.money \in [Account -> Money] /\ st.wlocked \subseteq Account
    /\ st.sets = [tx \in Tx |-> st.sets[tx]] /\ st.undo = [tx \in Tx |-> st.undo[tx]]
    /\ st.applied \in [Tx -> Nat]

\* A shard sends one relay for a transfer, and no more than that arrives.
GotInv(s, got, mine) ==
    /\ got[s] \subseteq mine
    /\ \A c \in Shard : \A r \in got[c] : /\ IsRelay(r, c, s)
                                          /\ \A q \in got[c] : q.tx = r.tx => q = r

\* A set is stored exactly for the transfers that a relay was sent for.
MineInv(st, s, mine) ==
    /\ \A r \in mine : /\ IsRelay(r, s, s) /\ st.sets[r.tx] # Nil
                       /\ \A q \in mine : q.tx = r.tx => q = r
    /\ \A tx \in Tx : st.sets[tx] # Nil => \E r \in mine : r.tx = tx

\* "undo" has what came before the set was stored, and all of it.
UndoInv(st, s, got) == \A tx \in Tx :
    /\ \A c \in DOMAIN st.undo[tx] : /\ c \in Shard \ {s}
                                     /\ \E r \in got[c] : r.tx = tx /\ st.undo[tx][c] = r.data
    /\ st.sets[tx] = Nil => \A c \in Shard : \A r \in got[c] : r.tx = tx => c \in DOMAIN st.undo[tx]

\* The stored set has what was under "undo".
SetInv(st) == \A tx \in Tx : st.sets[tx] # Nil =>
    st.sets[tx] = [t \in Shards(tx) |-> IF t \in DOMAIN st.undo[tx] THEN st.undo[tx][t] ELSE <<>>]

\* The locks of the shard are those of its own relays that have not come back, no two
\* of them share an account, and a locked balance is the one that was sent.
LockInv(st, s, got, mine) ==
    /\ \A k \in Account : Home[k] = s =>
           (k \in st.wlocked <=> \E r \in mine \ got[s] : k \in DOMAIN r.data)
    /\ \A r, q \in mine \ got[s] : r # q => DOMAIN r.data \cap DOMAIN q.data = {}
    /\ \A r \in mine \ got[s] : \A k \in DOMAIN r.data : st.money[k] = r.data[k]

\* The relay of c is the one that made s carry out tx: all others came before the lock.
Decisive(st, s, got, tx, c) == /\ c \in Shards(tx) /\ c \notin DOMAIN st.undo[tx]
                               /\ \E r \in got[c] : r.tx = tx
                               /\ Shards(tx) \ {s, c} \subseteq DOMAIN st.undo[tx]

OnceInv(st, s, got) == \A tx \in Tx : Crosses(tx) =>
    /\ st.applied[tx] \in {0, 1}
    /\ st.applied[tx] = 1 => st.sets[tx] # Nil /\ \E c \in Shard : Decisive(st, s, got, tx, c)

\* The balances that r and the relays before it carry are enough.
Enough(early, s, r) == \A i \in DOMAIN r.tx.from :
    LET k == r.tx.from[i]
    IN  (IF Home[k] = s THEN r.data[k] ELSE early[r.tx][Home[k]][k]) >= r.tx.fromMoney[i]

LateInv(st, s, got) == \A r \in got[s] : Shards(r.tx) \ {s} \subseteq DOMAIN st.undo[r.tx] =>
    (st.applied[r.tx] = 1 <=> Enough(st.undo, s, r))

\* The balances of the shard's accounts are what its transfers have made of them.
BooksInv(st, s) == \A k \in Account : Home[k] = s =>
    LET total == InitBalance + Net(st.applied, k)
    IN  total >= 0 /\ st.money[k] = total % Modulus

ShardInv(st, s, got, mine) ==
    /\ IsState(st) /\ GotInv(s, got, mine) /\ MineInv(st, s, mine) /\ UndoInv(st, s, got)
    /\ SetInv(st) /\ LockInv(st, s, got, mine) /\ OnceInv(st, s, got) /\ LateInv(st, s, got)
    /\ BooksInv(st, s)

Relay == [tx : Tx, data : BankData]

Got(s) == [c \in Shard |-> UNION {Range(out[c][v][s]) :
                                     v \in {w \in 1 .. height(c) : w + RelayDelay <= height(s)}}]
Mine(s) == UNION {Range(out[s][v][s]) : v \in 1 .. height(s)}

\* No two shards are more than a block apart.
HeightInv == \A s, t \in Shard : height(s) <= height(t) + 1

\* The relays of a block: one for a transfer, the same to every shard of it, and none
\* for a transfer of an earlier block.
MailInv == \A s \in Shard : \A v \in 1 .. height(s) :
    /\ \A t \in Shard : /\ \A i, j \in DOMAIN out[s][v][t] : out[s][v][t][i].tx = out[s][v][t][j].tx => i = j
                        /\ Range(out[s][v][t]) = {r \in Range(out[s][v][s]) : t \in Shards(r.tx)}
    /\ \A w \in 1 .. height(s) : w # v =>
           \A r \in Range(out[s][v][s]), q \in Range(out[s][w][s]) : r.tx # q.tx

BankInv == /\ out \in [Shard -> Seq([Shard -> Seq(Relay)])] /\ wlocked \subseteq Account
           /\ DOMAIN sets = Shard /\ DOMAIN undo = Shard /\ DOMAIN applied = Shard
           /\ HeightInv /\ MailInv
           /\ \A s \in Shard : ShardInv(local(s), s, Got(s), Mine(s))

-----------------------------------------------------------------------------
(* Accounts of a transfer. *)

\* The accounts of a transfer, and the shards they are in.
LEMMA TxKeys ==
    ASSUME NEW tx \in Tx
    PROVE  /\ Range(keys(tx)) \subseteq Account
           /\ \A i \in DOMAIN tx.from : tx.from[i] \in Range(keys(tx))
           /\ \A i \in DOMAIN tx.to : tx.to[i] \in Range(keys(tx))
<1> DEFINE f == tx.from
           g == tx.to
           m == Len(f)
           n == Len(g)
<1>1. f \in Seq(Account) /\ g \in Seq(Account)
  BY TxAssumption
<1> HIDE DEF f, g
<1>2. m \in Nat /\ n \in Nat /\ DOMAIN f = 1 .. m /\ DOMAIN g = 1 .. n
  BY <1>1, LenProperties
<1>3. /\ f \o g \in Seq(Account) /\ Len(f \o g) = m + n
      /\ \A i \in 1 .. (m + n) : (f \o g)[i] = IF i <= m THEN f[i] ELSE g[i - m]
  BY <1>1, ConcatProperties
<1> DEFINE h == f \o g
           l == Len(h)
<1>4. h \in Seq(Account)
  BY <1>3
<1>5. DOMAIN h = 1 .. (m + n)
  <2> HIDE DEF h
  <2>1. DOMAIN h = 1 .. Len(h)
    BY <1>4, LenProperties
  <2> QED BY <1>3, <2>1 DEF h
<1>6. \A i \in 1 .. (m + n) : h[i] = IF i <= m THEN f[i] ELSE g[i - m]
  BY <1>3
<1>7. \A i \in DOMAIN h : h[i] \in Account
  <2> HIDE DEF h
  <2>1. DOMAIN h = 1 .. Len(h)
    BY <1>4, LenProperties
  <2> QED BY <1>4, <2>1, ElementOfSeq
<1> HIDE DEF h, m, n
<1>8. ASSUME NEW i \in 1 .. m PROVE f[i] \in Range(h)
  <2>1. i \in 1 .. (m + n) /\ i <= m
    BY <1>2
  <2> QED BY <1>5, <1>6, <2>1 DEF Range
<1>9. ASSUME NEW i \in 1 .. n PROVE g[i] \in Range(h)
  <2>1. m + i \in 1 .. (m + n) /\ ~(m + i <= m) /\ (m + i) - m = i
    BY <1>2
  <2>2. h[m + i] = g[i]
    BY <1>6, <2>1
  <2> QED BY <1>5, <2>1, <2>2 DEF Range
<1>10. h = keys(tx)
  BY DEF h, f, g, keys
<1>11. Range(h) \subseteq Account
  BY <1>7 DEF Range
<1> QED BY <1>2, <1>8, <1>9, <1>10, <1>11 DEF f, g

\* Every shard of a transfer has accounts in it.
LEMMA TxShards ==
    ASSUME NEW tx \in Tx
    PROVE  /\ Shards(tx) \subseteq Shard
           /\ \A s : s \in Shards(tx) <=> Own(s, tx) # {}
           /\ \A s : Own(s, tx) \subseteq Account /\ \A k \in Own(s, tx) : Home[k] = s
           /\ \A k \in Range(keys(tx)) : Home[k] \in Shards(tx) /\ k \in Own(Home[k], tx)
BY TxKeys, HomeAssumption DEF Shards, Own

-----------------------------------------------------------------------------
(* Transfers. *)

\* A balance in range is not changed by the modulus.
LEMMA InRange == \A x \in Money : (x - 0 + 0) % Modulus = x
BY BalanceAssumption DEF Money

\* The sum that MapThenSumSet computes.
LEMMA SumIs ==
    ASSUME NEW w, NEW S
    PROVE  MapThenSumSet(LAMBDA i : w[i], S) = SumOf(w, S)
<1>1. MapThenSumSet(LAMBDA i : w[i], S)
        = (CHOOSE g : g = [s \in SUBSET S |->
                             IF s = {} THEN 0 ELSE w[CHOOSE x \in s : TRUE]
                                                   + g[s \ {CHOOSE x \in s : TRUE}]])[S]
  BY DEF MapThenSumSet, MapThenFoldSet
<1> QED BY <1>1 DEF SumOf, SumTable, IsSum, SumStep, pick

\* Sums of amounts.
LEMMA Amounts ==
    ASSUME NEW n \in Nat, NEW w \in [1 .. n -> Nat], NEW S \in SUBSET (1 .. n)
    PROVE  /\ SumOf(w, S) \in Nat
           /\ S = {} => SumOf(w, S) = 0
           /\ \A i : S = {i} => SumOf(w, S) = w[i]
<1>1. IsFiniteSet(1 .. n)
  BY FS_Interval
<1>2. \A U \in SUBSET (1 .. n) : IsFiniteSet(U)
  BY <1>1, FS_Subset
<1>3. SumOf(w, S) \in Nat
  BY <1>2, SumNat
<1>4. S = {} => SumOf(w, S) = 0
  BY <1>2, SumUnfold
<1>5. ASSUME NEW i, S = {i} PROVE SumOf(w, S) = w[i]
  <2>1. pick(S) = i /\ S \ {i} = {}
    BY <1>5, PickIn
  <2>2. SumOf(w, S) = w[i] + SumOf(w, {})
    BY <1>2, <1>5, <2>1, SumUnfold
  <2>3. SumOf(w, {}) = 0
    BY <1>2, SumUnfold
  <2> QED BY <1>5, <2>2, <2>3
<1> QED BY <1>3, <1>4, <1>5

\* An account pays once in a transfer.
LEMMA PaysOnce ==
    ASSUME NEW tx \in Tx, NEW i \in DOMAIN tx.from, NEW j \in DOMAIN tx.from, tx.from[i] = tx.from[j]
    PROVE  i = j
<1> DEFINE f == tx.from
           g == tx.to
           h == f \o g
           m == Len(f)
           n == Len(g)
<1>1. f \in Seq(Account) /\ g \in Seq(Account) /\ IsInjective(h)
  BY TxAssumption DEF keys
<1>2. i \in DOMAIN f /\ j \in DOMAIN f /\ f[i] = f[j]
  OBVIOUS
<1> HIDE DEF f, g
<1>3. m \in Nat /\ n \in Nat /\ DOMAIN f = 1 .. m
  BY <1>1, LenProperties
<1>4. /\ h \in Seq(Account) /\ Len(h) = m + n
      /\ \A l \in 1 .. (m + n) : h[l] = IF l <= m THEN f[l] ELSE g[l - m]
  BY <1>1, ConcatProperties
<1> HIDE DEF h, m, n
<1>5. DOMAIN h = 1 .. (m + n)
  BY <1>4, LenProperties
<1>6. i \in DOMAIN h /\ j \in DOMAIN h /\ h[i] = h[j]
  BY <1>2, <1>3, <1>4, <1>5
<1> QED BY <1>1, <1>6 DEF IsInjective

\* What a valid transfer takes from an account and gives to it: natural numbers, and no
\* more is taken than what each debit of the account is at most.
LEMMA AmountOf ==
    ASSUME NEW tx \in Tx, ValidateTransferTx(tx), NEW k
    PROVE  /\ amount(tx.from, tx.fromMoney, k) = SumOf(tx.fromMoney, {i \in DOMAIN tx.from : tx.from[i] = k})
           /\ amount(tx.to, tx.toMoney, k) = SumOf(tx.toMoney, {i \in DOMAIN tx.to : tx.to[i] = k})
           /\ amount(tx.from, tx.fromMoney, k) \in Nat
           /\ amount(tx.to, tx.toMoney, k) \in Nat
           /\ (\A i \in DOMAIN tx.from : tx.from[i] # k) => amount(tx.from, tx.fromMoney, k) = 0
           /\ (\A i \in DOMAIN tx.to : tx.to[i] # k) => amount(tx.to, tx.toMoney, k) = 0
           /\ \A b \in Nat : (\A i \in DOMAIN tx.from : tx.from[i] = k => b >= tx.fromMoney[i])
                             => amount(tx.from, tx.fromMoney, k) <= b
<1>1. /\ tx.from \in Seq(Account) /\ tx.fromMoney \in Seq(Nat)
      /\ tx.to \in Seq(Account) /\ tx.toMoney \in Seq(Nat)
      /\ Len(tx.from) = Len(tx.fromMoney) /\ Len(tx.to) = Len(tx.toMoney)
  BY TxAssumption DEF ValidateTransferTx
<1> DEFINE m == Len(tx.fromMoney)
           n == Len(tx.toMoney)
           w == tx.fromMoney
           u == tx.toMoney
           D == {i \in DOMAIN tx.from : tx.from[i] = k}
           C == {i \in DOMAIN tx.to : tx.to[i] = k}
           less == amount(tx.from, tx.fromMoney, k)
           more == amount(tx.to, tx.toMoney, k)
<1>2. m \in Nat /\ w \in [1 .. m -> Nat] /\ D \in SUBSET (1 .. m)
  BY <1>1, LenProperties
<1>3. n \in Nat /\ u \in [1 .. n -> Nat] /\ C \in SUBSET (1 .. n)
  BY <1>1, LenProperties
<1>4. less = MapThenSumSet(LAMBDA i : w[i], D) /\ more = MapThenSumSet(LAMBDA i : u[i], C)
  BY DEF amount
<1>5. \A i, j \in D : i = j
  BY PaysOnce
<1>6. (\A i \in DOMAIN tx.from : tx.from[i] # k) => D = {}
  OBVIOUS
<1>7. (\A i \in DOMAIN tx.to : tx.to[i] # k) => C = {}
  OBVIOUS
<1>8. ASSUME NEW b \in Nat, \A i \in D : b >= w[i] PROVE less <= b
  <2> HIDE DEF m, n, w, u, D, C, less
  <2>1. less = SumOf(w, D)
    BY <1>4, SumIs
  <2>2. CASE D = {}
    BY <1>2, <2>1, <2>2, Amounts
  <2>3. CASE D # {}
    <3>1. PICK i \in D : D = {i}
      BY <1>5, <2>3
    <3>2. SumOf(w, D) = w[i] /\ w[i] \in Nat
      BY <1>2, <3>1, Amounts
    <3> QED BY <1>8, <2>1, <3>2
  <2> QED BY <2>2, <2>3
<1>9. \A b \in Nat : (\A i \in DOMAIN tx.from : tx.from[i] = k => b >= tx.fromMoney[i]) => less <= b
  BY <1>8
<1> HIDE DEF m, n, w, u, D, C, less, more
<1>10. less = SumOf(w, D) /\ more = SumOf(u, C)
  BY <1>4, SumIs
<1>11. SumOf(w, D) \in Nat /\ (D = {} => SumOf(w, D) = 0)
  BY <1>2, Amounts
<1>12. SumOf(u, C) \in Nat /\ (C = {} => SumOf(u, C) = 0)
  BY <1>3, Amounts
<1> QED BY <1>6, <1>7, <1>9, <1>10, <1>11, <1>12 DEF less, more, w, u, D, C

\* doTransfer goes through.
Can(st, s, tx, retain) == /\ s \in Shards(tx) /\ ValidateTransferTx(tx)
                          /\ \A k \in Range(keys(tx)) : readable(st, s, k, retain)
                          /\ sufficient(st, s, tx, retain)

\* What doTransfer changes when it goes through: balances of the shard's own accounts.
Moved(st, r, s, tx) ==
    /\ IsState(r) /\ r.wlocked = st.wlocked /\ r.sets = st.sets /\ r.undo = st.undo
    /\ r.applied = [st.applied EXCEPT ![tx] = @ + 1]
    /\ \A k \in Account : k \notin Own(s, tx) => r.money[k] = st.money[k]
    /\ ValidateTransferTx(tx)
    /\ \A k \in Account : Home[k] = s =>
           /\ amount(tx.from, tx.fromMoney, k) <= st.money[k]
           /\ r.money[k] = (st.money[k] - amount(tx.from, tx.fromMoney, k)
                                        + amount(tx.to, tx.toMoney, k)) % Modulus

\* doTransfer writes only accounts of the transfer in the shard, or nothing.
LEMMA Transfer ==
    ASSUME NEW st, IsState(st), NEW s, NEW tx \in Tx, NEW retain
    PROVE  /\ ~Can(st, s, tx, retain) => doTransfer(st, s, tx, retain) = st
           /\ Can(st, s, tx, retain) => Moved(st, doTransfer(st, s, tx, retain), s, tx)
<1> DEFINE debit(k)  == {i \in DOMAIN tx.from : tx.from[i] = k /\ Home[k] = s}
           credit(k) == {i \in DOMAIN tx.to : tx.to[i] = k /\ Home[k] = s}
           less(k) == MapThenSumSet(LAMBDA i : tx.fromMoney[i], debit(k))
           more(k) == MapThenSumSet(LAMBDA i : tx.toMoney[i], credit(k))
           money1 == [k \in Account |-> (st.money[k] - less(k) + more(k)) % Modulus]
           r == doTransfer(st, s, tx, retain)
<1>1. ASSUME ~Can(st, s, tx, retain) PROVE r = st
  BY <1>1 DEF Can, doTransfer
<1>2. ASSUME Can(st, s, tx, retain) PROVE Moved(st, r, s, tx)
  <2>1. r = [st EXCEPT !.money = money1, !.applied[tx] = @ + 1]
    BY <1>2 DEF Can, doTransfer
  <2>0. ValidateTransferTx(tx) /\ sufficient(st, s, tx, retain)
    BY <1>2 DEF Can
  <2>2. ASSUME NEW k \in Account
        PROVE  /\ less(k) \in Nat /\ more(k) \in Nat
               /\ debit(k) = {} => less(k) = 0
               /\ credit(k) = {} => more(k) = 0
               /\ Home[k] = s => /\ less(k) = amount(tx.from, tx.fromMoney, k)
                                 /\ more(k) = amount(tx.to, tx.toMoney, k)
    <3> DEFINE w == tx.fromMoney
               u == tx.toMoney
               D == debit(k)
               C == credit(k)
               L == amount(tx.from, tx.fromMoney, k)
               M == amount(tx.to, tx.toMoney, k)
    <3>1. /\ L = SumOf(w, {i \in DOMAIN tx.from : tx.from[i] = k}) /\ L \in Nat
          /\ M = SumOf(u, {i \in DOMAIN tx.to : tx.to[i] = k}) /\ M \in Nat
      BY <2>0, AmountOf
    <3>2. Home[k] = s => /\ D = {i \in DOMAIN tx.from : tx.from[i] = k}
                         /\ C = {i \in DOMAIN tx.to : tx.to[i] = k}
      OBVIOUS
    <3>3. Home[k] # s => D = {} /\ C = {}
      OBVIOUS
    <3>4. SumOf(w, {}) = 0 /\ SumOf(u, {}) = 0
      BY SumUnfold, FS_EmptySet
    <3>5. less(k) = MapThenSumSet(LAMBDA i : w[i], D) /\ more(k) = MapThenSumSet(LAMBDA i : u[i], C)
      OBVIOUS
    <3> HIDE DEF less, more, w, u, D, C, L, M
    <3>6. less(k) = SumOf(w, D) /\ more(k) = SumOf(u, C)
      BY <3>5, SumIs
    <3>7. CASE Home[k] = s
      <4>1. SumOf(w, D) = L /\ SumOf(u, C) = M
        BY <3>1, <3>2, <3>7
      <4> QED BY <3>1, <3>4, <3>6, <4>1 DEF D, C, L, M
    <3>8. CASE Home[k] # s
      BY <3>3, <3>4, <3>6, <3>8
    <3> QED BY <3>7, <3>8
  <2>3. \A k \in Account : k \notin Own(s, tx) => debit(k) = {} /\ credit(k) = {}
    BY TxKeys DEF Own
  <2>4. \A k \in Account : st.money[k] \in Money
    BY DEF IsState
  <2> HIDE DEF less, more, debit, credit
  <2>5. ASSUME NEW k \in Account PROVE money1[k] \in Money /\ (k \notin Own(s, tx) => money1[k] = st.money[k])
    <3>1. money1[k] = (st.money[k] - less(k) + more(k)) % Modulus
      OBVIOUS
    <3>2. st.money[k] - less(k) + more(k) \in Int
      BY <2>2, <2>4, BalanceAssumption DEF Money
    <3>3. Modulus \in Nat /\ Modulus > 0
      BY BalanceAssumption
    <3>4. money1[k] \in Money
      <4> DEFINE x == st.money[k] - less(k) + more(k)
      <4> HIDE DEF x
      <4>1. x % Modulus \in 0 .. (Modulus - 1)
        BY <3>2, <3>3 DEF x
      <4> QED BY <3>1, <4>1 DEF x, Money
    <3>5. ASSUME k \notin Own(s, tx) PROVE money1[k] = st.money[k]
      <4>1. less(k) = 0 /\ more(k) = 0
        BY <2>2, <2>3, <3>5
      <4> QED BY <2>4, <3>1, <4>1, InRange
    <3> QED BY <3>4, <3>5
  <2>10. ASSUME NEW k \in Account, Home[k] = s
         PROVE  /\ amount(tx.from, tx.fromMoney, k) <= st.money[k]
                /\ money1[k] = (st.money[k] - amount(tx.from, tx.fromMoney, k)
                                            + amount(tx.to, tx.toMoney, k)) % Modulus
    <3>1. \A i \in DOMAIN tx.from : tx.from[i] = k => st.money[k] >= tx.fromMoney[i]
      BY <2>0, <2>10 DEF sufficient, Get
    <3>2. st.money[k] \in Nat
      BY <2>4, BalanceAssumption DEF Money
    <3> QED BY <2>0, <2>2, <2>10, <3>1, <3>2, AmountOf
  <2>6. money1 \in [Account -> Money]
    <3>1. money1 = [k \in Account |-> money1[k]]
      OBVIOUS
    <3> HIDE DEF money1
    <3> QED BY <2>5, <3>1
  <2> HIDE DEF money1, r
  <2>7. /\ r.money = money1 /\ r.wlocked = st.wlocked /\ r.sets = st.sets /\ r.undo = st.undo
        /\ r.applied = [st.applied EXCEPT ![tx] = @ + 1]
        /\ r = [money |-> r.money, wlocked |-> r.wlocked, sets |-> r.sets,
                undo |-> r.undo, applied |-> r.applied]
    BY <2>1 DEF IsState
  <2>8. r.applied \in [Tx -> Nat]
    BY <2>7 DEF IsState
  <2>9. IsState(r)
    BY <2>6, <2>7, <2>8 DEF IsState
  <2> QED BY <2>0, <2>5, <2>7, <2>9, <2>10 DEF Moved
<1> HIDE DEF r
<1>3. (~Can(st, s, tx, retain) => r = st) /\ (Can(st, s, tx, retain) => Moved(st, r, s, tx))
  BY <1>1, <1>2
<1> QED BY <1>3 DEF r

\* What the transfers carried out have come to at an account.
LEMMA NetIs ==
    ASSUME NEW counts, NEW k
    PROVE  Net(counts, k) = SumOf([tx \in Valid |-> counts[tx] * Change(tx, k)], Valid)
<1> DEFINE f == [tx \in Valid |-> counts[tx] * Change(tx, k)]
<1>1. Net(counts, k) = MapThenSumSet(LAMBDA tx : f[tx], Valid)
  BY DEF Net
<1> HIDE DEF f
<1>2. Net(counts, k) = SumOf(f, Valid)
  BY <1>1, SumIs
<1> QED BY <1>2 DEF f

\* A transfer that goes through keeps the books.
LEMMA BooksMoved ==
    ASSUME NEW st, IsState(st), NEW s, NEW tx \in Tx, NEW r, Moved(st, r, s, tx), BooksInv(st, s)
    PROVE  BooksInv(r, s)
<1> SUFFICES ASSUME NEW k \in Account, Home[k] = s
             PROVE  /\ InitBalance + Net(r.applied, k) >= 0
                    /\ r.money[k] = (InitBalance + Net(r.applied, k)) % Modulus
  BY DEF BooksInv
<1> DEFINE f == [z \in Valid |-> st.applied[z] * Change(z, k)]
           g == [z \in Valid |-> r.applied[z] * Change(z, k)]
           less == amount(tx.from, tx.fromMoney, k)
           more == amount(tx.to, tx.toMoney, k)
           total == InitBalance + Net(st.applied, k)
<1>1. /\ st.applied \in [Tx -> Nat] /\ r.applied = [st.applied EXCEPT ![tx] = @ + 1]
      /\ tx \in Valid /\ less <= st.money[k] /\ r.money[k] = (st.money[k] - less + more) % Modulus
      /\ st.money[k] \in Nat
  BY BalanceAssumption DEF Moved, IsState, Valid, Money
<1>2. less \in Nat /\ more \in Nat /\ Change(tx, k) = more - less
  BY <1>1, AmountOf DEF Valid, Change
<1>3. ASSUME NEW z \in Valid PROVE Change(z, k) \in Int
  <2>1. z \in Tx /\ ValidateTransferTx(z)
    BY DEF Valid
  <2>2. amount(z.from, z.fromMoney, k) \in Nat /\ amount(z.to, z.toMoney, k) \in Nat
    BY <2>1, AmountOf
  <2> QED BY <2>2 DEF Change
<1>4. IsFiniteSet(Valid)
  BY FiniteAssumption, FS_Subset DEF Valid
<1>5. ASSUME NEW z \in Valid
      PROVE  f[z] \in Int /\ g[z] \in Int /\ (z # tx => g[z] = f[z]) /\ (z = tx => g[z] - f[z] = Change(tx, k))
  <2> DEFINE a == st.applied[z]
             b == r.applied[z]
             c == Change(z, k)
  <2>1. a \in Nat /\ c \in Int /\ b = IF z = tx THEN a + 1 ELSE a
    BY <1>1, <1>3 DEF Valid
  <2>2. f[z] = a * c /\ g[z] = b * c
    OBVIOUS
  <2> HIDE DEF a, b, c, f, g
  <2>3. (a + 1) * c = a * c + c /\ a * c \in Int
    BY <2>1
  <2>4. CASE z = tx
    BY <2>1, <2>2, <2>3, <2>4 DEF c
  <2>5. CASE z # tx
    BY <2>1, <2>2, <2>3, <2>5
  <2> QED BY <2>4, <2>5
<1>6. Net(st.applied, k) = SumOf(f, Valid) /\ Net(r.applied, k) = SumOf(g, Valid)
  BY NetIs
<1>7. total >= 0 /\ st.money[k] = total % Modulus
  BY DEF BooksInv
<1> HIDE DEF f, g
<1>8. SumOf(f, Valid) \in Int /\ SumOf(g, Valid) = SumOf(f, Valid) + (g[tx] - f[tx])
  <2>1. \A x \in Valid : f[x] \in Int /\ g[x] \in Int
    BY <1>5
  <2>2. \A x \in Valid : x # tx => g[x] = f[x]
    BY <1>5
  <2>3. tx \in Valid
    BY <1>1
  <2> QED BY <1>4, <2>1, <2>2, <2>3, SumChange
<1> HIDE DEF less, more
<1>9. /\ total \in Nat /\ InitBalance + Net(r.applied, k) = total + (more - less)
      /\ st.money[k] + (more - less) = st.money[k] - less + more
  BY <1>1, <1>2, <1>5, <1>6, <1>7, <1>8, BalanceAssumption
<1> HIDE DEF total
<1>10. (total % Modulus) + (more - less) >= 0 /\ more - less \in Int
  BY <1>1, <1>2, <1>7
<1>11. Modulus \in Nat \ {0}
  BY BalanceAssumption
<1>12. total + (more - less) >= 0 /\ (total + (more - less)) % Modulus = ((total % Modulus) + (more - less)) % Modulus
  BY <1>9, <1>10, <1>11, ModPlus
<1> QED BY <1>1, <1>7, <1>9, <1>12

-----------------------------------------------------------------------------
(* Relays: unlockTransfer. *)

\* One more relay of c has been executed.
Plus(got, c, r) == [got EXCEPT ![c] = @ \cup {r}]

\* Accounts of other shards are left alone.
Frame(st, st1, s) == \A k \in Account : Home[k] # s =>
    st1.money[k] = st.money[k] /\ (k \in st1.wlocked <=> k \in st.wlocked)

\* The data of a relay is data.
LEMMA RelayData ==
    ASSUME NEW r, NEW c, NEW s, IsRelay(r, c, s)
    PROVE  /\ r.data \in BankData /\ r.data # Nil /\ DOMAIN r.data = Own(c, r.tx)
           /\ r.tx \in Tx /\ Crosses(r.tx) /\ ValidateTransferTx(r.tx)
           /\ c \in Shards(r.tx) /\ s \in Shards(r.tx)
<1>1. r.tx \in Tx /\ r.data \in [Own(c, r.tx) -> Money]
  BY DEF IsRelay
<1>2. Own(c, r.tx) \in SUBSET Account
  BY <1>1, TxShards
<1>3. r.data \in BankData
  BY <1>1, <1>2 DEF BankData
<1>4. r.data # Nil
  BY <1>3, NilAssumption
<1> QED BY <1>1, <1>3, <1>4 DEF IsRelay

\* What executing one more relay does to the relays executed.
LEMMA PlusGot ==
    ASSUME NEW s \in Shard, NEW got, got = [u \in Shard |-> got[u]], NEW mine, GotInv(s, got, mine),
           NEW c \in Shard, NEW r, IsRelay(r, c, s), \A q \in got[c] : q.tx # r.tx,
           c = s => r \in mine
    PROVE  /\ GotInv(s, Plus(got, c, r), mine)
           /\ Plus(got, c, r) = [u \in Shard |-> Plus(got, c, r)[u]]
           /\ Plus(got, c, r)[c] = got[c] \cup {r}
           /\ \A u \in Shard : u # c => Plus(got, c, r)[u] = got[u]
<1> DEFINE g == Plus(got, c, r)
<1>1. /\ g[c] = got[c] \cup {r} /\ \A u \in Shard : u # c => g[u] = got[u]
      /\ g = [u \in Shard |-> g[u]]
  BY DEF Plus
<1> HIDE DEF g
<1>2. g[s] \subseteq mine
  BY <1>1 DEF GotInv
<1>3. ASSUME NEW u \in Shard, NEW x \in g[u] PROVE IsRelay(x, u, s) /\ \A y \in g[u] : y.tx = x.tx => y = x
  BY <1>1 DEF GotInv
<1>4. GotInv(s, g, mine)
  BY <1>2, <1>3 DEF GotInv
<1> QED BY <1>1, <1>4 DEF g

\* A relay that comes before the set is stored is kept under "undo".
LEMMA EarlyRelay ==
    ASSUME NEW st, NEW s \in Shard, NEW got, got = [u \in Shard |-> got[u]], NEW mine,
           ShardInv(st, s, got, mine),
           NEW c \in Shard, NEW r, IsRelay(r, c, s), \A q \in got[c] : q.tx # r.tx,
           c = s => r \in mine, st.sets[r.tx] = Nil
    PROVE  /\ ShardInv(unlockTransfer(st, s, c, r), s, Plus(got, c, r), mine)
           /\ Frame(st, unlockTransfer(st, s, c, r), s)
<1> DEFINE x == unlockTransfer(st, s, c, r)
           g == Plus(got, c, r)
           tx == r.tx
           data == [t \in DOMAIN st.undo[tx] \cup {c} |-> IF t = c THEN r.data ELSE st.undo[tx][t]]
<1>0. /\ IsState(st) /\ GotInv(s, got, mine) /\ MineInv(st, s, mine) /\ UndoInv(st, s, got)
      /\ SetInv(st) /\ LockInv(st, s, got, mine) /\ OnceInv(st, s, got) /\ LateInv(st, s, got)
      /\ BooksInv(st, s)
  BY DEF ShardInv
<1>1. tx \in Tx
  BY DEF IsRelay
<1>2. c # s
  BY <1>0 DEF MineInv
<1>3. x = [st EXCEPT !.undo[tx] = data]
  BY DEF unlockTransfer
<1>4. /\ GotInv(s, g, mine) /\ g[c] = got[c] \cup {r} /\ \A u \in Shard : u # c => g[u] = got[u]
  BY <1>0, PlusGot
<1> HIDE DEF x, g
<1>5. /\ x.money = st.money /\ x.wlocked = st.wlocked /\ x.sets = st.sets /\ x.applied = st.applied
      /\ x.undo = [st.undo EXCEPT ![tx] = data]
      /\ x = [money |-> x.money, wlocked |-> x.wlocked, sets |-> x.sets,
              undo |-> x.undo, applied |-> x.applied]
  BY <1>0, <1>3 DEF IsState
<1>6. /\ x.undo[tx] = data /\ \A y \in Tx : y # tx => x.undo[y] = st.undo[y]
      /\ x.undo = [y \in Tx |-> x.undo[y]]
  BY <1>0, <1>1, <1>5 DEF IsState
<1>7. /\ DOMAIN data = DOMAIN st.undo[tx] \cup {c} /\ data[c] = r.data
      /\ \A t \in DOMAIN st.undo[tx] : t # c => data[t] = st.undo[tx][t]
  OBVIOUS
<1> HIDE DEF data
<1>8. IsState(x)
  BY <1>0, <1>5, <1>6 DEF IsState
<1>9. MineInv(x, s, mine)
  BY <1>0, <1>5 DEF MineInv
<1>10. UndoInv(x, s, g)
  <2> SUFFICES ASSUME NEW y \in Tx
               PROVE  /\ \A u \in DOMAIN x.undo[y] : /\ u \in Shard \ {s}
                                                    /\ \E q \in g[u] : q.tx = y /\ x.undo[y][u] = q.data
                      /\ x.sets[y] = Nil => \A u \in Shard : \A q \in g[u] : q.tx = y => u \in DOMAIN x.undo[y]
    BY DEF UndoInv
  <2>0. /\ \A u \in DOMAIN st.undo[y] : /\ u \in Shard \ {s}
                                        /\ \E q \in got[u] : q.tx = y /\ st.undo[y][u] = q.data
        /\ st.sets[y] = Nil => \A u \in Shard : \A q \in got[u] : q.tx = y => u \in DOMAIN st.undo[y]
    BY <1>0 DEF UndoInv
  <2>1. CASE y = tx
    <3>1. ASSUME NEW u \in DOMAIN x.undo[y]
          PROVE  u \in Shard \ {s} /\ \E q \in g[u] : q.tx = y /\ x.undo[y][u] = q.data
      <4>1. CASE u = c
        BY <1>2, <1>4, <1>6, <1>7, <2>1, <4>1
      <4>2. CASE u # c
        <5>1. u \in DOMAIN st.undo[y] /\ x.undo[y][u] = st.undo[y][u]
          BY <1>6, <1>7, <2>1, <3>1, <4>2
        <5>2. u \in Shard \ {s} /\ g[u] = got[u]
          BY <1>4, <2>0, <4>2, <5>1
        <5> QED BY <2>0, <5>1, <5>2
      <4> QED BY <4>1, <4>2
    <3>2. ASSUME NEW u \in Shard, NEW q \in g[u], q.tx = y PROVE u \in DOMAIN x.undo[y]
      BY <1>4, <1>6, <1>7, <2>0, <2>1, <3>2
    <3> QED BY <3>1, <3>2
  <2>2. CASE y # tx
    <3>1. x.undo[y] = st.undo[y] /\ x.sets[y] = st.sets[y]
      BY <1>5, <1>6, <2>2
    <3>2. \A u \in Shard : \A q \in got[u] : q \in g[u]
      BY <1>4
    <3>3. \A u \in Shard : \A q \in g[u] : q.tx = y => q \in got[u]
      BY <1>4, <2>2
    <3> QED BY <2>0, <3>1, <3>2, <3>3
  <2> QED BY <2>1, <2>2
<1>11. SetInv(x)
  BY <1>0, <1>5, <1>6 DEF SetInv
<1>12. LockInv(x, s, g, mine)
  BY <1>0, <1>2, <1>4, <1>5 DEF LockInv
<1>13. OnceInv(x, s, g)
  <2> SUFFICES ASSUME NEW y \in Tx, Crosses(y)
               PROVE  /\ x.applied[y] \in {0, 1}
                      /\ x.applied[y] = 1 => x.sets[y] # Nil /\ \E u \in Shard : Decisive(x, s, g, y, u)
    BY DEF OnceInv
  <2>1. /\ st.applied[y] \in {0, 1}
        /\ st.applied[y] = 1 => st.sets[y] # Nil /\ \E u \in Shard : Decisive(st, s, got, y, u)
    BY <1>0 DEF OnceInv
  <2>2. CASE y = tx
    BY <1>5, <2>1, <2>2
  <2>3. CASE y # tx
    <3>1. \A u \in Shard : Decisive(st, s, got, y, u) => Decisive(x, s, g, y, u)
      BY <1>4, <1>6, <2>3 DEF Decisive
    <3> QED BY <1>5, <2>1, <3>1
  <2> QED BY <2>2, <2>3
<1>14. LateInv(x, s, g)
  <2> SUFFICES ASSUME NEW q \in got[s], Shards(q.tx) \ {s} \subseteq DOMAIN x.undo[q.tx]
               PROVE  x.applied[q.tx] = 1 <=> Enough(x.undo, s, q)
    BY <1>2, <1>4 DEF LateInv
  <2>1. q.tx \in Tx /\ q.tx # tx
    BY <1>0 DEF GotInv, MineInv, IsRelay
  <2>2. x.undo[q.tx] = st.undo[q.tx]
    BY <1>6, <2>1
  <2>3. st.applied[q.tx] = 1 <=> Enough(st.undo, s, q)
    BY <1>0, <2>2 DEF LateInv
  <2> QED BY <1>5, <2>2, <2>3 DEF Enough
<1>15. Frame(st, x, s)
  BY <1>5 DEF Frame
<1>16. BooksInv(x, s)
  BY <1>0, <1>5 DEF BooksInv
<1> QED BY <1>4, <1>8, <1>9, <1>10, <1>11, <1>12, <1>13, <1>14, <1>15, <1>16 DEF ShardInv, x, g

\* What unlockTransfer makes of the stored set and the relay.
SetWith(st, c, r) == insertBankDataToRelayTxSet(r.data, c, st.sets[r.tx])
RetainOf(set) == [k \in UNION {DOMAIN set[t] : t \in DOMAIN set} |-> set[Home[k]][k]]
Unlocked(st, set, s) == [st EXCEPT !.wlocked = @ \ DOMAIN set[s]]

\* The set has the data of r and what came before.
Filled(st, s, c, r, set) ==
    /\ c \notin DOMAIN st.undo[r.tx]
    /\ DOMAIN set = Shards(r.tx)
    /\ set[c] = r.data /\ DOMAIN set[c] = Own(c, r.tx)
    /\ \A t \in Shards(r.tx) : t # c => IF t \in DOMAIN st.undo[r.tx]
                                        THEN set[t] = st.undo[r.tx][t] /\ DOMAIN set[t] = Own(t, r.tx)
                                        ELSE DOMAIN set[t] = {}
    /\ DOMAIN set[s] = IF c = s THEN Own(s, r.tx) ELSE {}

\* With the set stored, the data is in it, none of it nil, and unlockTransfer goes on
\* to doTransfer.
LEMMA SetFilled ==
    ASSUME NEW st, NEW s \in Shard, NEW got, got = [u \in Shard |-> got[u]], NEW mine,
           ShardInv(st, s, got, mine),
           NEW c \in Shard, NEW r, IsRelay(r, c, s), \A q \in got[c] : q.tx # r.tx,
           st.sets[r.tx] # Nil
    PROVE  /\ Filled(st, s, c, r, SetWith(st, c, r))
           /\ unlockTransfer(st, s, c, r) = doTransfer(Unlocked(st, SetWith(st, c, r), s), s, r.tx,
                                                       RetainOf(SetWith(st, c, r)))
<1> DEFINE tx == r.tx
           set == SetWith(st, c, r)
           old == st.sets[tx]
           early == st.undo[tx]
<1>0. /\ IsState(st) /\ GotInv(s, got, mine) /\ MineInv(st, s, mine) /\ UndoInv(st, s, got)
      /\ SetInv(st) /\ LockInv(st, s, got, mine) /\ OnceInv(st, s, got) /\ LateInv(st, s, got)
  BY DEF ShardInv
<1>1. /\ r.data # Nil /\ DOMAIN r.data = Own(c, tx) /\ tx \in Tx /\ c \in Shards(tx) /\ s \in Shards(tx)
  BY RelayData
<1>2. old = [t \in Shards(tx) |-> IF t \in DOMAIN early THEN early[t] ELSE <<>>]
  BY <1>0, <1>1 DEF SetInv
<1>3. \A t \in DOMAIN early : /\ t \in Shard \ {s}
                              /\ \E q \in got[t] : q.tx = tx /\ early[t] = q.data
  BY <1>0, <1>1 DEF UndoInv
<1>4. ASSUME NEW t \in DOMAIN early PROVE early[t] # Nil /\ DOMAIN early[t] = Own(t, tx)
  <2>1. PICK q \in got[t] : q.tx = tx /\ early[t] = q.data
    BY <1>3, <1>4
  <2>2. IsRelay(q, t, s)
    BY <1>0, <1>3, <1>4 DEF GotInv
  <2> QED BY <2>1, <2>2, RelayData
<1>5. c \notin DOMAIN early /\ s \notin DOMAIN early
  BY <1>3
<1>6. set = [old EXCEPT ![c] = r.data]
  BY <1>1, <1>2 DEF SetWith, insertBankDataToRelayTxSet
<1> HIDE DEF set, old, early, tx
<1>7. /\ DOMAIN set = Shards(tx) /\ set[c] = r.data
      /\ \A t \in Shards(tx) : t # c => set[t] = IF t \in DOMAIN early THEN early[t] ELSE <<>>
  BY <1>1, <1>2, <1>6
<1>8. DOMAIN <<>> = {} /\ <<>> # Nil
  BY NilAssumption
<1>9. ASSUME NEW t \in Shards(tx), t # c
      PROVE  IF t \in DOMAIN early THEN set[t] = early[t] /\ DOMAIN set[t] = Own(t, tx)
             ELSE DOMAIN set[t] = {}
  <2>1. set[t] = IF t \in DOMAIN early THEN early[t] ELSE <<>>
    BY <1>7, <1>9
  <2>2. CASE t \in DOMAIN early
    BY <1>4, <2>1, <2>2
  <2>3. CASE t \notin DOMAIN early
    <3>1. set[t] = <<>>
      BY <2>1, <2>3
    <3> QED BY <1>8, <2>3, <3>1
  <2> QED BY <2>2, <2>3
<1>10. isRelayTransferTxSetFinish(set)
  <2>1. ASSUME NEW t \in Shards(tx) PROVE set[t] # Nil
    <3>1. CASE t = c
      BY <1>1, <1>7, <3>1
    <3>2. CASE t # c
      BY <1>4, <1>7, <1>8, <3>2
    <3> QED BY <3>1, <3>2
  <2> QED BY <1>7, <2>1 DEF isRelayTransferTxSetFinish
<1>11. DOMAIN set[s] = IF c = s THEN Own(s, tx) ELSE {}
  BY <1>1, <1>5, <1>7, <1>9
<1>12. DOMAIN set[c] = Own(c, tx)
  BY <1>1, <1>7
<1>13. unlockTransfer(st, s, c, r) = doTransfer(Unlocked(st, set, s), s, tx, RetainOf(set))
  BY <1>10 DEF unlockTransfer, WUnlock, Unlocked, RetainOf, SetWith, set, tx
<1> QED BY <1>5, <1>7, <1>9, <1>11, <1>12, <1>13 DEF Filled, set, tx, early

\* A transfer that goes through has read its accounts of the shard, so none of them
\* was locked: what is locked keeps the balance that was sent.
LEMMA TransferLocks ==
    ASSUME NEW st, IsState(st), NEW s \in Shard, NEW tx \in Tx, NEW retain, NEW got, NEW mine,
           \A r \in mine : IsRelay(r, s, s), LockInv(st, s, got, mine)
    PROVE  /\ LockInv(doTransfer(st, s, tx, retain), s, got, mine)
           /\ Frame(st, doTransfer(st, s, tx, retain), s)
<1> DEFINE x == doTransfer(st, s, tx, retain)
<1>1. CASE ~Can(st, s, tx, retain)
  <2>1. x = st
    BY <1>1, Transfer
  <2> QED BY <2>1 DEF Frame
<1>2. CASE Can(st, s, tx, retain)
  <2>1. Moved(st, x, s, tx)
    BY <1>2, Transfer
  <2> HIDE DEF x
  <2>2. x.wlocked = st.wlocked /\ \A k \in Account : k \notin Own(s, tx) => x.money[k] = st.money[k]
    BY <2>1 DEF Moved
  <2>3. \A k \in Own(s, tx) : k \notin st.wlocked /\ Home[k] = s
    BY <1>2 DEF Can, readable, Own
  <2>4. ASSUME NEW r \in mine \ got[s], NEW k \in DOMAIN r.data PROVE x.money[k] = r.data[k]
    <3>1. k \in Account /\ Home[k] = s
      BY RelayData, TxShards
    <3>2. k \in st.wlocked /\ st.money[k] = r.data[k]
      BY <3>1 DEF LockInv
    <3> QED BY <2>2, <2>3, <3>1, <3>2
  <2>5. LockInv(x, s, got, mine)
    BY <2>2, <2>4 DEF LockInv
  <2>6. Frame(st, x, s)
    BY <2>2, <2>3 DEF Frame
  <2> QED BY <2>5, <2>6 DEF x
<1> QED BY <1>1, <1>2

\* The shard's own relay releases the locks of its transfer and no other; a relay of
\* another shard releases none.
LEMMA Release ==
    ASSUME NEW st, IsState(st), NEW s \in Shard, NEW got, got = [u \in Shard |-> got[u]], NEW mine,
           \A q \in mine : IsRelay(q, s, s), LockInv(st, s, got, mine),
           NEW c \in Shard, NEW r, IsRelay(r, c, s), \A q \in got[c] : q.tx # r.tx,
           c = s => r \in mine,
           NEW set, DOMAIN set[s] = IF c = s THEN Own(s, r.tx) ELSE {}
    PROVE  /\ IsState(Unlocked(st, set, s))
           /\ Unlocked(st, set, s).money = st.money /\ Unlocked(st, set, s).sets = st.sets
           /\ Unlocked(st, set, s).undo = st.undo /\ Unlocked(st, set, s).applied = st.applied
           /\ Unlocked(st, set, s).wlocked = st.wlocked \ DOMAIN set[s]
           /\ LockInv(Unlocked(st, set, s), s, Plus(got, c, r), mine)
           /\ Frame(st, Unlocked(st, set, s), s)
<1> DEFINE x == Unlocked(st, set, s)
           g == Plus(got, c, r)
           D == DOMAIN set[s]
<1>1. x = [st EXCEPT !.wlocked = @ \ D]
  BY DEF Unlocked
<1> HIDE DEF x, D
<1>2. /\ x.money = st.money /\ x.sets = st.sets /\ x.undo = st.undo /\ x.applied = st.applied
      /\ x.wlocked = st.wlocked \ D
      /\ x = [money |-> x.money, wlocked |-> x.wlocked, sets |-> x.sets,
              undo |-> x.undo, applied |-> x.applied]
  BY <1>1 DEF IsState
<1>3. IsState(x)
  BY <1>2 DEF IsState
<1>4. DOMAIN r.data = Own(c, r.tx) /\ r.tx \in Tx
  BY RelayData
<1>5. \A k \in D : Home[k] = s
  BY <1>4, TxShards DEF D
<1>6. LockInv(x, s, g, mine)
  <2>1. CASE c = s
    <3>1. g[s] = got[s] \cup {r} /\ D = DOMAIN r.data
      BY <1>4, <2>1 DEF Plus, D
    <3>2. r \in mine \ got[s] /\ mine \ g[s] = (mine \ got[s]) \ {r}
      BY <2>1, <3>1
    <3>3. \A q \in mine \ g[s] : DOMAIN q.data \cap D = {}
      BY <3>1, <3>2 DEF LockInv
    <3>4. ASSUME NEW k \in Account, Home[k] = s
          PROVE  k \in x.wlocked <=> \E q \in mine \ g[s] : k \in DOMAIN q.data
      <4>1. k \in st.wlocked <=> \E q \in mine \ got[s] : k \in DOMAIN q.data
        BY <3>4 DEF LockInv
      <4> QED BY <1>2, <3>1, <3>2, <3>3, <4>1
    <3> QED BY <1>2, <3>2, <3>4 DEF LockInv
  <2>2. CASE c # s
    <3>1. g[s] = got[s] /\ D = {}
      BY <2>2 DEF Plus, D
    <3>2. x.wlocked = st.wlocked /\ x.money = st.money
      BY <1>2, <3>1
    <3> HIDE DEF g
    <3> QED BY <3>1, <3>2 DEF LockInv
  <2> QED BY <2>1, <2>2
<1>7. Frame(st, x, s)
  BY <1>2, <1>5 DEF Frame
<1>8. /\ IsState(x) /\ x.money = st.money /\ x.sets = st.sets /\ x.undo = st.undo
      /\ x.applied = st.applied /\ x.wlocked = st.wlocked \ D
      /\ LockInv(x, s, g, mine) /\ Frame(st, x, s)
  BY <1>2, <1>3, <1>6, <1>7
<1> QED BY <1>8, Zenon DEF x, g, D

\* doTransfer after the relay of c goes through only if all other shards came before.
LEMMA OthersEarly ==
    ASSUME NEW y, NEW s \in Shard, NEW c \in Shard, NEW tx \in Tx, NEW set, NEW early,
           DOMAIN set = Shards(tx), DOMAIN set[c] = Own(c, tx),
           \A t \in Shards(tx) : t # c => IF t \in DOMAIN early
                                          THEN set[t] = early[t] /\ DOMAIN set[t] = Own(t, tx)
                                          ELSE DOMAIN set[t] = {},
           Can(y, s, tx, RetainOf(set))
    PROVE  Shards(tx) \ {s, c} \subseteq DOMAIN early
<1> SUFFICES ASSUME NEW t \in Shards(tx), t # s, t # c, t \notin DOMAIN early PROVE FALSE
  OBVIOUS
<1>1. PICK k \in Own(t, tx) : TRUE
  BY TxShards
<1>2. k \in Range(keys(tx)) /\ Home[k] = t
  BY DEF Own
<1>3. k \in DOMAIN RetainOf(set)
  BY <1>2 DEF Can, readable
<1>4. PICK u \in Shards(tx) : k \in DOMAIN set[u]
  BY <1>3 DEF RetainOf
<1>5. DOMAIN set[u] \subseteq Own(u, tx)
  BY <1>4
<1>6. u = t
  BY <1>2, <1>4, <1>5 DEF Own
<1> QED BY <1>4, <1>6

\* When all other shards came before and the shard's own relay comes, nothing but a low
\* balance stands in the way.
LEMMA LateRelay ==
    ASSUME NEW y, NEW s \in Shard, NEW r, IsRelay(r, s, s), NEW set, NEW early,
           DOMAIN set = Shards(r.tx), DOMAIN set[s] = Own(s, r.tx),
           \A t \in Shards(r.tx) : t # s => IF t \in DOMAIN early[r.tx]
                                            THEN /\ set[t] = early[r.tx][t]
                                                 /\ DOMAIN set[t] = Own(t, r.tx)
                                            ELSE DOMAIN set[t] = {},
           Shards(r.tx) \ {s} \subseteq DOMAIN early[r.tx],
           y.wlocked \cap Own(s, r.tx) = {},
           \A k \in Own(s, r.tx) : y.money[k] = r.data[k]
    PROVE  Can(y, s, r.tx, RetainOf(set)) <=> Enough(early, s, r)
<1> DEFINE tx == r.tx
           retain == RetainOf(set)
<1>1. tx \in Tx /\ ValidateTransferTx(tx) /\ s \in Shards(tx)
  BY RelayData
<1>2. ASSUME NEW k \in Range(keys(tx)), Home[k] # s
      PROVE  k \in DOMAIN retain /\ retain[k] = early[tx][Home[k]][k]
  <2>1. Home[k] \in Shards(tx) /\ k \in Own(Home[k], tx)
    BY <1>1, TxShards
  <2>2. set[Home[k]] = early[tx][Home[k]] /\ k \in DOMAIN set[Home[k]]
    BY <1>2, <2>1
  <2> QED BY <2>1, <2>2 DEF RetainOf
<1>3. ASSUME NEW k \in Range(keys(tx)) PROVE readable(y, s, k, retain)
  <2>1. CASE Home[k] = s
    BY <2>1 DEF readable, Own
  <2>2. CASE Home[k] # s
    BY <1>2, <2>2 DEF readable
  <2> QED BY <2>1, <2>2
<1>4. ASSUME NEW k \in Range(keys(tx))
      PROVE  Get(y, s, k, retain) = IF Home[k] = s THEN r.data[k] ELSE early[tx][Home[k]][k]
  <2>1. CASE Home[k] = s
    <3>1. k \in Own(s, tx)
      BY <2>1 DEF Own
    <3> QED BY <2>1, <3>1 DEF Get
  <2>2. CASE Home[k] # s
    BY <1>2, <2>2 DEF Get
  <2> QED BY <2>1, <2>2
<1>5. \A i \in DOMAIN tx.from : tx.from[i] \in Range(keys(tx))
  BY <1>1, TxKeys
<1> HIDE DEF retain
<1>6. sufficient(y, s, tx, retain) <=> Enough(early, s, r)
  BY <1>4, <1>5 DEF sufficient, Enough, tx
<1> QED BY <1>1, <1>3, <1>6 DEF Can, retain

\* A relay that comes when the set is stored: locks are released and the transfer
\* is carried out if the balances are there.
LEMMA StoredRelay ==
    ASSUME NEW st, NEW s \in Shard, NEW got, got = [u \in Shard |-> got[u]], NEW mine,
           ShardInv(st, s, got, mine),
           NEW c \in Shard, NEW r, IsRelay(r, c, s), \A q \in got[c] : q.tx # r.tx,
           c = s => r \in mine, st.sets[r.tx] # Nil
    PROVE  /\ ShardInv(unlockTransfer(st, s, c, r), s, Plus(got, c, r), mine)
           /\ Frame(st, unlockTransfer(st, s, c, r), s)
<1> DEFINE x == unlockTransfer(st, s, c, r)
           g == Plus(got, c, r)
           tx == r.tx
           set == SetWith(st, c, r)
           retain == RetainOf(set)
           y == Unlocked(st, set, s)
<1>0. /\ IsState(st) /\ GotInv(s, got, mine) /\ MineInv(st, s, mine) /\ UndoInv(st, s, got)
      /\ SetInv(st) /\ LockInv(st, s, got, mine) /\ OnceInv(st, s, got) /\ LateInv(st, s, got)
      /\ BooksInv(st, s)
  BY DEF ShardInv
<1>1. tx \in Tx /\ Crosses(tx) /\ c \in Shards(tx) /\ s \in Shards(tx)
  BY RelayData
<1>2. /\ c \notin DOMAIN st.undo[tx] /\ DOMAIN set = Shards(tx)
      /\ DOMAIN set[c] = Own(c, tx)
      /\ \A t \in Shards(tx) : t # c => IF t \in DOMAIN st.undo[tx]
                                        THEN set[t] = st.undo[tx][t] /\ DOMAIN set[t] = Own(t, tx)
                                        ELSE DOMAIN set[t] = {}
      /\ DOMAIN set[s] = IF c = s THEN Own(s, tx) ELSE {}
      /\ x = doTransfer(y, s, tx, retain)
  <2> HIDE DEF x, g, retain, y, set, tx
  <2>1. Filled(st, s, c, r, SetWith(st, c, r))
    BY SetFilled
  <2>2. unlockTransfer(st, s, c, r) = doTransfer(Unlocked(st, SetWith(st, c, r), s), s, r.tx,
                                                    RetainOf(SetWith(st, c, r)))
    BY SetFilled
  <2> QED BY <2>1, <2>2 DEF Filled, set, x, y, retain, tx
<1>3. /\ GotInv(s, g, mine) /\ g[c] = got[c] \cup {r} /\ \A u \in Shard : u # c => g[u] = got[u]
  BY <1>0, PlusGot
<1>4. \A q \in mine : IsRelay(q, s, s)
  BY <1>0 DEF MineInv
<1> HIDE DEF set, g
<1>5. /\ IsState(y) /\ y.money = st.money /\ y.sets = st.sets /\ y.undo = st.undo
      /\ y.applied = st.applied /\ y.wlocked = st.wlocked \ DOMAIN set[s]
      /\ LockInv(y, s, g, mine) /\ Frame(st, y, s)
  <2>1. DOMAIN set[s] = IF c = s THEN Own(s, r.tx) ELSE {}
    BY <1>2
  <2> QED BY <1>0, <1>4, <2>1, Release DEF g
<1> HIDE DEF x, y, retain
<1>6. LockInv(x, s, g, mine) /\ Frame(st, x, s)
  <2>1. LockInv(x, s, g, mine) /\ Frame(y, x, s)
    BY <1>1, <1>2, <1>4, <1>5, TransferLocks
  <2> QED BY <1>5, <2>1 DEF Frame
<1>7. /\ ~Can(y, s, tx, retain) => x = y
      /\ Can(y, s, tx, retain) => Moved(y, x, s, tx)
  BY <1>1, <1>2, <1>5, Transfer
<1>8. IsState(x) /\ x.sets = st.sets /\ x.undo = st.undo
  BY <1>5, <1>7 DEF Moved
<1>9. x.applied = IF Can(y, s, tx, retain) THEN [st.applied EXCEPT ![tx] = @ + 1] ELSE st.applied
  BY <1>5, <1>7 DEF Moved
<1>10. Can(y, s, tx, retain) => Shards(tx) \ {s, c} \subseteq DOMAIN st.undo[tx]
  BY <1>1, <1>2, OthersEarly DEF retain
<1>11. Shards(tx) \ {s, c} \subseteq DOMAIN st.undo[tx] => st.applied[tx] = 0
  <2> SUFFICES ASSUME Shards(tx) \ {s, c} \subseteq DOMAIN st.undo[tx], st.applied[tx] = 1 PROVE FALSE
    BY <1>0, <1>1 DEF OnceInv
  <2>1. PICK u \in Shard : Decisive(st, s, got, tx, u)
    BY <1>0, <1>1 DEF OnceInv
  <2>2. u # c
    BY <2>1 DEF Decisive
  <2>3. u = s
    BY <2>1, <2>2 DEF Decisive
  <2>4. c \in DOMAIN st.undo[tx]
    BY <1>1, <2>1, <2>2, <2>3 DEF Decisive
  <2> QED BY <1>2, <2>4
<1>12. /\ \A z \in Tx : z # tx => x.applied[z] = st.applied[z]
       /\ x.applied[tx] = IF Can(y, s, tx, retain) THEN 1 ELSE st.applied[tx]
  <2>1. st.applied \in [Tx -> Nat]
    BY <1>0 DEF IsState
  <2>2. CASE Can(y, s, tx, retain)
    <3>1. x.applied = [st.applied EXCEPT ![tx] = @ + 1] /\ st.applied[tx] = 0
      BY <1>9, <1>10, <1>11, <2>2
    <3> QED BY <1>1, <2>1, <2>2, <3>1
  <2>3. CASE ~Can(y, s, tx, retain)
    BY <1>9, <2>3
  <2> QED BY <2>2, <2>3
<1>13. MineInv(x, s, mine) /\ SetInv(x)
  BY <1>0, <1>8 DEF MineInv, SetInv
<1>14. \A u \in Shard : got[u] \subseteq g[u] /\ \A q \in g[u] : q.tx # tx => q \in got[u]
  BY <1>3
<1>15. UndoInv(x, s, g)
  <2> SUFFICES ASSUME NEW z \in Tx
               PROVE  /\ \A u \in DOMAIN x.undo[z] : /\ u \in Shard \ {s}
                                                    /\ \E q \in g[u] : q.tx = z /\ x.undo[z][u] = q.data
                      /\ x.sets[z] = Nil => \A u \in Shard : \A q \in g[u] : q.tx = z => u \in DOMAIN x.undo[z]
    BY DEF UndoInv
  <2>0. /\ \A u \in DOMAIN st.undo[z] : /\ u \in Shard \ {s}
                                        /\ \E q \in got[u] : q.tx = z /\ st.undo[z][u] = q.data
        /\ st.sets[z] = Nil => \A u \in Shard : \A q \in got[u] : q.tx = z => u \in DOMAIN st.undo[z]
    BY <1>0 DEF UndoInv
  <2>1. st.sets[z] = Nil => z # tx
    OBVIOUS
  <2> QED BY <1>8, <1>14, <2>0, <2>1
<1>16. \A z \in Tx, u \in Shard : Decisive(st, s, got, z, u) => Decisive(x, s, g, z, u)
  BY <1>8, <1>14 DEF Decisive
<1>17. Can(y, s, tx, retain) => Decisive(x, s, g, tx, c)
  BY <1>1, <1>2, <1>3, <1>8, <1>10 DEF Decisive
<1>18. OnceInv(x, s, g)
  <2> SUFFICES ASSUME NEW z \in Tx, Crosses(z)
               PROVE  /\ x.applied[z] \in {0, 1}
                      /\ x.applied[z] = 1 => x.sets[z] # Nil /\ \E u \in Shard : Decisive(x, s, g, z, u)
    BY DEF OnceInv
  <2>1. /\ st.applied[z] \in {0, 1}
        /\ st.applied[z] = 1 => st.sets[z] # Nil /\ \E u \in Shard : Decisive(st, s, got, z, u)
    BY <1>0 DEF OnceInv
  <2>2. CASE z = tx /\ Can(y, s, tx, retain)
    BY <1>8, <1>12, <1>17, <2>2
  <2>3. CASE ~(z = tx /\ Can(y, s, tx, retain))
    <3>1. x.applied[z] = st.applied[z]
      BY <1>12, <2>3
    <3> QED BY <1>8, <1>16, <2>1, <3>1
  <2> QED BY <2>2, <2>3
<1>19. LateInv(x, s, g)
  <2> SUFFICES ASSUME NEW q \in g[s], Shards(q.tx) \ {s} \subseteq DOMAIN x.undo[q.tx]
               PROVE  x.applied[q.tx] = 1 <=> Enough(x.undo, s, q)
    BY DEF LateInv
  <2>0. q.tx \in Tx
    BY <1>3 DEF GotInv, IsRelay
  <2>1. CASE q.tx # tx
    <3>1. q \in got[s] /\ x.applied[q.tx] = st.applied[q.tx]
      BY <1>12, <1>14, <2>0, <2>1
    <3> QED BY <1>0, <1>8, <3>1 DEF LateInv
  <2>2. CASE q.tx = tx
    <3>1. c = s
      BY <1>1, <1>2, <1>8, <2>2
    <3>2. q = r
      BY <1>3, <2>2, <3>1
    <3>3. st.applied[tx] = 0
      BY <1>8, <1>11, <2>2, <3>1
    <3>4. x.applied[tx] = 1 <=> Can(y, s, tx, retain)
      BY <1>12, <3>3
    <3>5. y.wlocked \cap Own(s, tx) = {}
      BY <1>2, <1>5, <3>1
    <3>6. \A k \in Own(s, tx) : y.money[k] = r.data[k]
      <4>1. r \in mine \ got[s] /\ DOMAIN r.data = Own(s, tx)
        BY <3>1, RelayData
      <4> QED BY <1>0, <1>5, <4>1 DEF LockInv
    <3>7. Shards(tx) \ {s} \subseteq DOMAIN st.undo[tx] /\ DOMAIN set[s] = Own(s, tx) /\ IsRelay(r, s, s)
      BY <1>2, <1>8, <2>2, <3>1
    <3>8. Can(y, s, r.tx, RetainOf(set)) <=> Enough(st.undo, s, r)
      <4> DEFINE early == st.undo
      <4>1. \A t \in Shards(r.tx) : t # s => IF t \in DOMAIN early[r.tx]
                                             THEN /\ set[t] = early[r.tx][t]
                                                  /\ DOMAIN set[t] = Own(t, r.tx)
                                             ELSE DOMAIN set[t] = {}
        BY <1>2, <3>1
      <4>2. DOMAIN set = Shards(r.tx) /\ Shards(r.tx) \ {s} \subseteq DOMAIN early[r.tx]
        BY <1>2, <3>7
      <4> HIDE DEF early
      <4>3. Can(y, s, r.tx, RetainOf(set)) <=> Enough(early, s, r)
        BY <3>5, <3>6, <3>7, <4>1, <4>2, LateRelay
      <4> QED BY <4>3 DEF early
    <3> QED BY <1>8, <2>2, <3>2, <3>4, <3>8 DEF retain
  <2> QED BY <2>1, <2>2
<1>20. BooksInv(x, s)
  <2>1. BooksInv(y, s)
    BY <1>0, <1>5 DEF BooksInv
  <2> QED BY <1>1, <1>5, <1>7, <2>1, BooksMoved
<1> QED BY <1>3, <1>6, <1>8, <1>13, <1>15, <1>18, <1>19, <1>20 DEF ShardInv, x, g

\* A relay of c reaches s.
LEMMA Relayed ==
    ASSUME NEW st, NEW s \in Shard, NEW got, got = [u \in Shard |-> got[u]], NEW mine,
           ShardInv(st, s, got, mine),
           NEW c \in Shard, NEW r, IsRelay(r, c, s), \A q \in got[c] : q.tx # r.tx,
           c = s => r \in mine
    PROVE  /\ ShardInv(unlockTransfer(st, s, c, r), s, Plus(got, c, r), mine)
           /\ Frame(st, unlockTransfer(st, s, c, r), s)
BY EarlyRelay, StoredRelay

-----------------------------------------------------------------------------
(* Transfers of the block: execute and preExecute. *)

\* A transfer inside the shard leaves locks, relays and other transfers alone.
LEMMA Executed ==
    ASSUME NEW st, NEW s \in Shard, NEW got, NEW mine, ShardInv(st, s, got, mine), NEW tx \in Tx
    PROVE  /\ ShardInv(execute(st, s, tx), s, got, mine)
           /\ Frame(st, execute(st, s, tx), s)
<1> DEFINE x == execute(st, s, tx)
<1>0. /\ IsState(st) /\ GotInv(s, got, mine) /\ MineInv(st, s, mine) /\ UndoInv(st, s, got)
      /\ SetInv(st) /\ LockInv(st, s, got, mine) /\ OnceInv(st, s, got) /\ LateInv(st, s, got)
      /\ BooksInv(st, s)
  BY DEF ShardInv
<1>1. CASE Crosses(tx)
  <2>1. x = st
    BY <1>1 DEF execute
  <2> QED BY <2>1 DEF Frame
<1>2. CASE ~Crosses(tx)
  <2>1. x = doTransfer(st, s, tx, <<>>)
    BY <1>2 DEF execute
  <2> HIDE DEF x
  <2>2. LockInv(x, s, got, mine) /\ Frame(st, x, s)
    <3>1. \A r \in mine : IsRelay(r, s, s)
      BY <1>0 DEF MineInv
    <3> QED BY <1>0, <2>1, <3>1, TransferLocks
  <2>3. x = st \/ Moved(st, x, s, tx)
    BY <1>0, <2>1, Transfer
  <2>4. IsState(x) /\ x.sets = st.sets /\ x.undo = st.undo
    BY <1>0, <2>3 DEF Moved
  <2>5. \A z \in Tx : Crosses(z) => x.applied[z] = st.applied[z]
    <3>1. st.applied \in [Tx -> Nat]
      BY <1>0 DEF IsState
    <3>2. x.applied = st.applied \/ x.applied = [st.applied EXCEPT ![tx] = @ + 1]
      BY <2>3 DEF Moved
    <3> QED BY <1>2, <3>1, <3>2
  <2>6. MineInv(x, s, mine) /\ UndoInv(x, s, got) /\ SetInv(x)
    BY <1>0, <2>4 DEF MineInv, UndoInv, SetInv
  <2>7. OnceInv(x, s, got)
    BY <1>0, <2>4, <2>5 DEF OnceInv, Decisive
  <2>8. LateInv(x, s, got)
    <3> SUFFICES ASSUME NEW q \in got[s], Shards(q.tx) \ {s} \subseteq DOMAIN x.undo[q.tx]
                 PROVE  x.applied[q.tx] = 1 <=> Enough(x.undo, s, q)
      BY DEF LateInv
    <3>1. q.tx \in Tx /\ Crosses(q.tx)
      BY <1>0 DEF GotInv, IsRelay
    <3>2. st.applied[q.tx] = 1 <=> Enough(st.undo, s, q)
      BY <1>0, <2>4 DEF LateInv
    <3> QED BY <2>4, <2>5, <3>1, <3>2
  <2>9. BooksInv(x, s)
    BY <1>0, <2>3, BooksMoved
  <2> QED BY <1>0, <2>2, <2>4, <2>6, <2>7, <2>8, <2>9 DEF ShardInv, x
<1> QED BY <1>1, <1>2

\* The relays of a block: one for a transfer, the same to every shard of it.
Letters(relays, s) == \A t \in Shard :
    /\ \A i, j \in DOMAIN relays[t] : relays[t][i].tx = relays[t][j].tx => i = j
    /\ Range(relays[t]) = {r \in Range(relays[s]) : t \in Shards(r.tx)}

\* Where pre-execution is, when the shard had sent mine before.
PreInv(acc, s, got, mine) ==
    /\ acc = [st |-> acc.st, wlocks |-> acc.wlocks, relays |-> acc.relays]
    /\ acc.relays \in [Shard -> Seq(Relay)]
    /\ ShardInv(acc.st, s, got, mine \cup Range(acc.relays[s]))
    /\ Letters(acc.relays, s)
    /\ \A r \in Range(acc.relays[s]), q \in mine : r.tx # q.tx

\* The relay that preExecute makes.
NewRelay(st, s, tx) == [tx |-> tx, data |-> [k \in Own(s, tx) |-> st.money[k]]]

\* What lockTransfer does.
Locked(st, x, s, tx) ==
    /\ IsState(x) /\ x.money = st.money /\ x.undo = st.undo /\ x.applied = st.applied
    /\ x.wlocked = st.wlocked \cup Own(s, tx)
    /\ x.sets = [st.sets EXCEPT ![tx] = [t \in Shards(tx) |-> IF t \in DOMAIN st.undo[tx]
                                                              THEN st.undo[tx][t] ELSE <<>>]]
    /\ x.sets[tx] # Nil

\* The stored set is a set, with the data that came before.
LEMMA LockStored ==
    ASSUME NEW st, NEW s \in Shard, NEW got, NEW mine, ShardInv(st, s, got, mine), NEW tx \in Tx
    PROVE  Locked(st, lockTransfer(st, s, tx), s, tx)
<1> DEFINE x == lockTransfer(st, s, tx)
           early == st.undo[tx]
           datas == [t \in Shards(tx) |-> IF t \in DOMAIN early THEN early[t] ELSE Nil]
           set == [t \in Shards(tx) |-> IF t \in DOMAIN early THEN early[t] ELSE <<>>]
<1>0. IsState(st) /\ GotInv(s, got, mine) /\ UndoInv(st, s, got)
  BY DEF ShardInv
<1>1. ASSUME NEW t \in DOMAIN early PROVE early[t] # Nil /\ early[t] \in BankData
  <2>1. PICK q \in got[t] : t \in Shard /\ q.tx = tx /\ early[t] = q.data
    BY <1>0, <1>1 DEF UndoInv
  <2>2. IsRelay(q, t, s)
    BY <1>0, <2>1 DEF GotInv
  <2> QED BY <2>1, <2>2, RelayData
<1>2. stored(datas) = set
  <2>1. DOMAIN datas = Shards(tx)
    OBVIOUS
  <2>2. \A t \in Shards(tx) : (IF datas[t] = Nil THEN <<>> ELSE datas[t])
                              = IF t \in DOMAIN early THEN early[t] ELSE <<>>
    BY <1>1
  <2> HIDE DEF datas, early
  <2>3. [t \in Shards(tx) |-> IF datas[t] = Nil THEN <<>> ELSE datas[t]]
        = [t \in Shards(tx) |-> IF t \in DOMAIN early THEN early[t] ELSE <<>>]
    BY <2>2
  <2> QED BY <2>1, <2>3 DEF stored
<1>3. set \in [Shards(tx) -> BankData \cup {<<>>}]
  BY <1>1
<1>4. set # Nil
  <2> HIDE DEF set
  <2> QED BY <1>3, NilAssumption
<1>5. x = [st EXCEPT !.sets[tx] = set, !.wlocked = @ \cup Own(s, tx)]
  BY <1>2 DEF lockTransfer, WLock, Own
<1> HIDE DEF x, set
<1>6. /\ x.money = st.money /\ x.undo = st.undo /\ x.applied = st.applied
      /\ x.wlocked = st.wlocked \cup Own(s, tx) /\ x.sets = [st.sets EXCEPT ![tx] = set]
      /\ x = [money |-> x.money, wlocked |-> x.wlocked, sets |-> x.sets,
              undo |-> x.undo, applied |-> x.applied]
  BY <1>0, <1>5 DEF IsState
<1>7. x.sets = [y \in Tx |-> x.sets[y]] /\ x.sets[tx] = set
  BY <1>0, <1>6 DEF IsState
<1>8. x.wlocked \subseteq Account
  BY <1>0, <1>6, TxShards DEF IsState
<1>9. IsState(x)
  BY <1>0, <1>6, <1>7, <1>8 DEF IsState
<1> QED BY <1>4, <1>6, <1>7, <1>9 DEF Locked, x, set

\* Locking a transfer that has no set, on accounts that are free.
LEMMA LockKeeps ==
    ASSUME NEW st, NEW s \in Shard, NEW got, NEW mine, ShardInv(st, s, got, mine),
           NEW tx \in Tx, Crosses(tx), s \in Shards(tx), ValidateTransferTx(tx),
           st.sets[tx] = Nil, st.wlocked \cap Own(s, tx) = {},
           NEW x, Locked(st, x, s, tx)
    PROVE  /\ ShardInv(x, s, got, mine \cup {NewRelay(st, s, tx)})
           /\ Frame(st, x, s)
           /\ \A q \in mine : q.tx # tx
<1> DEFINE r == NewRelay(st, s, tx)
           m == mine \cup {r}
<1>0. /\ IsState(st) /\ GotInv(s, got, mine) /\ MineInv(st, s, mine) /\ UndoInv(st, s, got)
      /\ SetInv(st) /\ LockInv(st, s, got, mine) /\ OnceInv(st, s, got) /\ LateInv(st, s, got)
      /\ BooksInv(st, s)
  BY DEF ShardInv
<1>1. /\ IsState(x) /\ x.money = st.money /\ x.undo = st.undo /\ x.applied = st.applied
      /\ x.wlocked = st.wlocked \cup Own(s, tx) /\ x.sets[tx] # Nil
      /\ x.sets[tx] = [t \in Shards(tx) |-> IF t \in DOMAIN st.undo[tx] THEN st.undo[tx][t] ELSE <<>>]
      /\ \A z \in Tx : z # tx => x.sets[z] = st.sets[z]
  BY <1>0 DEF Locked, IsState
<1>2. Own(s, tx) \subseteq Account /\ \A k \in Own(s, tx) : Home[k] = s
  BY TxShards
<1>3. r.tx = tx /\ r.data \in [Own(s, tx) -> Money] /\ \A k \in Own(s, tx) : r.data[k] = st.money[k]
  BY <1>0, <1>2 DEF NewRelay, IsState
<1> HIDE DEF r
<1>4. IsRelay(r, s, s) /\ DOMAIN r.data = Own(s, tx)
  BY <1>3 DEF IsRelay
<1>5. \A q \in mine : q.tx # tx
  BY <1>0 DEF MineInv
<1>6. r \notin mine /\ r \notin got[s]
  BY <1>0, <1>3, <1>5 DEF GotInv
<1>7. GotInv(s, got, m)
  BY <1>0 DEF GotInv
<1>8. MineInv(x, s, m)
  <2>1. ASSUME NEW p \in m PROVE /\ IsRelay(p, s, s) /\ x.sets[p.tx] # Nil
                                 /\ \A q \in m : q.tx = p.tx => q = p
    <3>1. CASE p = r
      BY <1>1, <1>3, <1>4, <1>5, <3>1
    <3>2. CASE p # r
      <4>1. p \in mine /\ p.tx \in Tx
        BY <1>0, <3>2 DEF MineInv, IsRelay
      <4> QED BY <1>0, <1>1, <1>3, <1>5, <4>1 DEF MineInv
    <3> QED BY <3>1, <3>2
  <2>2. ASSUME NEW z \in Tx, x.sets[z] # Nil PROVE \E q \in m : q.tx = z
    <3>1. CASE z = tx
      BY <1>3, <3>1
    <3>2. CASE z # tx
      <4>1. st.sets[z] # Nil
        BY <1>1, <2>2, <3>2
      <4> QED BY <1>0, <4>1 DEF MineInv
    <3> QED BY <3>1, <3>2
  <2> QED BY <2>1, <2>2 DEF MineInv
<1>9. UndoInv(x, s, got)
  BY <1>0, <1>1 DEF UndoInv
<1>10. SetInv(x)
  <2> SUFFICES ASSUME NEW z \in Tx, x.sets[z] # Nil
               PROVE  x.sets[z] = [t \in Shards(z) |-> IF t \in DOMAIN x.undo[z] THEN x.undo[z][t] ELSE <<>>]
    BY DEF SetInv
  <2>1. CASE z = tx
    BY <1>1, <2>1
  <2>2. CASE z # tx
    <3>1. x.sets[z] = st.sets[z] /\ st.sets[z] # Nil
      BY <1>1, <2>2
    <3> QED BY <1>0, <1>1, <3>1 DEF SetInv
  <2> QED BY <2>1, <2>2
<1>11. m \ got[s] = (mine \ got[s]) \cup {r}
  BY <1>6
<1>12. \A q \in mine \ got[s] : DOMAIN q.data \subseteq st.wlocked
  <2> SUFFICES ASSUME NEW q \in mine \ got[s], NEW k \in DOMAIN q.data PROVE k \in st.wlocked
    OBVIOUS
  <2>1. IsRelay(q, s, s)
    BY <1>0 DEF MineInv
  <2>2. k \in Account /\ Home[k] = s
    BY <2>1, RelayData, TxShards
  <2> QED BY <1>0, <2>2 DEF LockInv
<1>13. LockInv(x, s, got, m)
  <2> HIDE DEF m
  <2>1. ASSUME NEW k \in Account, Home[k] = s
        PROVE  k \in x.wlocked <=> \E q \in m \ got[s] : k \in DOMAIN q.data
    <3>1. k \in st.wlocked <=> \E q \in mine \ got[s] : k \in DOMAIN q.data
      BY <1>0, <2>1 DEF LockInv
    <3> QED BY <1>1, <1>4, <1>11, <3>1
  <2>2. \A p, q \in m \ got[s] : p # q => DOMAIN p.data \cap DOMAIN q.data = {}
    <3>1. \A p, q \in mine \ got[s] : p # q => DOMAIN p.data \cap DOMAIN q.data = {}
      BY <1>0 DEF LockInv
    <3>2. \A q \in mine \ got[s] : DOMAIN q.data \cap DOMAIN r.data = {}
      BY <1>4, <1>12
    <3> QED BY <1>11, <3>1, <3>2
  <2>3. ASSUME NEW q \in m \ got[s], NEW k \in DOMAIN q.data PROVE x.money[k] = q.data[k]
    <3>1. \A p \in mine \ got[s] : \A j \in DOMAIN p.data : st.money[j] = p.data[j]
      BY <1>0 DEF LockInv
    <3> QED BY <1>1, <1>3, <1>4, <1>11, <2>3, <3>1
  <2> QED BY <2>1, <2>2, <2>3 DEF LockInv
<1>14. OnceInv(x, s, got)
  <2>1. \A z \in Tx, u \in Shard : Decisive(st, s, got, z, u) => Decisive(x, s, got, z, u)
    BY <1>1 DEF Decisive
  <2>2. \A z \in Tx : st.sets[z] # Nil => x.sets[z] # Nil
    BY <1>1
  <2> QED BY <1>0, <1>1, <2>1, <2>2 DEF OnceInv
<1>15. LateInv(x, s, got)
  BY <1>0, <1>1 DEF LateInv
<1>16. Frame(st, x, s)
  BY <1>1, <1>2 DEF Frame
<1> HIDE DEF m
<1>17. BooksInv(x, s)
  BY <1>0, <1>1 DEF BooksInv
<1>18. ShardInv(x, s, got, m)
  BY <1>1, <1>7, <1>8, <1>9, <1>10, <1>13, <1>14, <1>15, <1>17 DEF ShardInv
<1> QED BY <1>5, <1>16, <1>18 DEF m, r

\* One more letter at the end of a sequence.
LEMMA Posted ==
    ASSUME NEW q \in Seq(Relay), NEW r \in Relay
    PROVE  /\ Append(q, r) \in Seq(Relay)
           /\ Range(Append(q, r)) = Range(q) \cup {r}
           /\ (\A x \in Range(q) : x.tx # r.tx)
              /\ (\A i, j \in DOMAIN q : q[i].tx = q[j].tx => i = j)
                => \A i, j \in DOMAIN Append(q, r) : Append(q, r)[i].tx = Append(q, r)[j].tx => i = j
<1> DEFINE p == Append(q, r)
           n == Len(q)
<1>1. /\ p \in Seq(Relay) /\ n \in Nat /\ Len(p) = n + 1
      /\ \A i \in 1 .. n : p[i] = q[i]
      /\ p[n + 1] = r
  BY AppendProperties, LenProperties
<1>2. DOMAIN q = 1 .. n
  BY LenProperties
<1> HIDE DEF p, n
<1>3. DOMAIN p = 1 .. (n + 1)
  <2>1. DOMAIN p = 1 .. Len(p)
    BY <1>1, LenProperties
  <2> QED BY <1>1, <2>1
<1>4. /\ \A i \in DOMAIN p : i \in DOMAIN q \/ i = n + 1
      /\ \A i \in DOMAIN q : i \in DOMAIN p
      /\ n + 1 \in DOMAIN p
  BY <1>1, <1>2, <1>3
<1>5. \A i \in DOMAIN q : p[i] = q[i]
  BY <1>1, <1>2
<1>6. Range(p) = Range(q) \cup {r}
  BY <1>1, <1>4, <1>5 DEF Range
<1>7. ASSUME \A x \in Range(q) : x.tx # r.tx, \A i, j \in DOMAIN q : q[i].tx = q[j].tx => i = j,
             NEW i \in DOMAIN p, NEW j \in DOMAIN p, p[i].tx = p[j].tx
      PROVE  i = j
  <2>1. \A k \in DOMAIN q : q[k].tx # r.tx
    BY <1>7 DEF Range
  <2> QED BY <1>1, <1>4, <1>5, <1>7, <2>1
<1> QED BY <1>1, <1>6, <1>7 DEF p

\* One transfer of pre-execution.
LEMMA PreExecuted ==
    ASSUME NEW acc, NEW s \in Shard, NEW got, NEW mine, PreInv(acc, s, got, mine), NEW tx \in Tx
    PROVE  /\ PreInv(preExecute(acc, s, tx), s, got, mine)
           /\ Frame(acc.st, preExecute(acc, s, tx).st, s)
<1> DEFINE own  == {i \in DOMAIN keys(tx) : Home[keys(tx)[i]] = s}
           keep == {keys(tx)[i] : i \in own}
           bad  == conflicts(acc, tx, own)
           data == [k \in keep |-> acc.st.money[k]]
           x == preExecute(acc, s, tx)
           st == acc.st
           claimed == [acc EXCEPT !.wlocks = @ \cup {keys(tx)[i] : i \in {j \in own : j < Min(bad)}}]
           r == [tx |-> tx, data |-> data]
           relays == [t \in Shard |-> IF t \in Shards(tx) THEN Append(acc.relays[t], r) ELSE acc.relays[t]]
           made == [st |-> lockTransfer(st, s, tx), wlocks |-> acc.wlocks \cup keep, relays |-> relays]
           refused == \/ ~Crosses(tx) \/ s \notin Shards(tx)
                      \/ committed(st, tx) \/ ~ValidateTransferTx(tx)
           m == mine \cup Range(acc.relays[s])
<1>0. /\ acc = [st |-> acc.st, wlocks |-> acc.wlocks, relays |-> acc.relays]
      /\ acc.relays \in [Shard -> Seq(Relay)]
      /\ ShardInv(acc.st, s, got, m) /\ Letters(acc.relays, s)
      /\ \A p \in Range(acc.relays[s]), q \in mine : p.tx # q.tx
  BY DEF PreInv
<1>1. x = IF refused THEN acc ELSE IF bad # {} THEN claimed ELSE made
  BY DEF preExecute
<1>2. keep = Own(s, tx)
  BY DEF Own, Range
<1> HIDE DEF x, keep
<1>3. CASE refused
  <2>1. x = acc
    <3> HIDE DEF refused, bad, claimed, made
    <3> QED BY <1>1, <1>3
  <2>2. Frame(acc.st, acc.st, s)
    BY DEF Frame
  <2> QED BY <2>1, <2>2 DEF x
<1>4. CASE ~refused /\ bad # {}
  <2>1. x = claimed
    BY <1>1, <1>4
  <2>2. x.st = acc.st /\ x.relays = acc.relays /\ x = [st |-> x.st, wlocks |-> x.wlocks, relays |-> x.relays]
    <3> DEFINE W == acc.wlocks \cup {keys(tx)[i] : i \in {j \in own : j < Min(bad)}}
    <3>1. x = [acc EXCEPT !.wlocks = W]
      BY <2>1
    <3> HIDE DEF W
    <3> QED BY <1>0, <3>1
  <2>3. PreInv(x, s, got, mine)
    <3> HIDE DEF m
    <3> QED BY <1>0, <2>2 DEF PreInv, m
  <2>4. Frame(acc.st, x.st, s)
    BY <2>2 DEF Frame
  <2> QED BY <2>3, <2>4 DEF x
<1>5. CASE ~refused /\ bad = {}
  <2>1. x = made
    BY <1>1, <1>5
  <2>2. Crosses(tx) /\ s \in Shards(tx) /\ st.sets[tx] = Nil /\ ValidateTransferTx(tx)
    BY <1>5 DEF committed
  <2>3. st.wlocked \cap Own(s, tx) = {}
    <3>1. \A i \in own : keys(tx)[i] \notin st.wlocked
      BY <1>5 DEF conflicts
    <3>2. \A k \in keep : \E i \in own : k = keys(tx)[i]
      BY DEF keep
    <3> QED BY <1>2, <3>1, <3>2
  <2>4. r = NewRelay(st, s, tx)
    BY <1>2 DEF NewRelay
  <2>5. Locked(st, lockTransfer(st, s, tx), s, tx)
    BY <1>0, LockStored
  <2> DEFINE y == lockTransfer(st, s, tx)
  <2>6. x.st = y /\ x.relays = relays /\ x = [st |-> x.st, wlocks |-> x.wlocks, relays |-> x.relays]
    <3> HIDE DEF relays, y
    <3> QED BY <2>1 DEF y
  <2> HIDE DEF y, r, m
  <2>7. ShardInv(y, s, got, m \cup {r}) /\ Frame(st, y, s) /\ \A q \in m : q.tx # tx
    BY <1>0, <2>2, <2>3, <2>4, <2>5, LockKeeps DEF y
  <2>8. r.tx = tx /\ r \in Relay
    <3>1. IsState(st)
      BY <1>0 DEF ShardInv
    <3>2. Own(s, tx) \in SUBSET Account
      BY TxShards
    <3>3. data \in BankData
      BY <1>2, <3>1, <3>2 DEF BankData, IsState
    <3> HIDE DEF data
    <3> QED BY <3>3 DEF r, Relay
  <2>9. ASSUME NEW t \in Shard
        PROVE  /\ relays[t] \in Seq(Relay)
               /\ Range(relays[t]) = Range(acc.relays[t]) \cup IF t \in Shards(tx) THEN {r} ELSE {}
               /\ \A i, j \in DOMAIN relays[t] : relays[t][i].tx = relays[t][j].tx => i = j
    <3> DEFINE q == acc.relays[t]
    <3>1. /\ q \in Seq(Relay) /\ \A i, j \in DOMAIN q : q[i].tx = q[j].tx => i = j
          /\ Range(q) \subseteq Range(acc.relays[s])
      BY <1>0 DEF Letters
    <3>2. relays[t] = IF t \in Shards(tx) THEN Append(q, r) ELSE q
      OBVIOUS
    <3> HIDE DEF q
    <3>3. \A p \in Range(q) : p.tx # r.tx
      BY <2>7, <2>8, <3>1 DEF m
    <3>4. /\ Append(q, r) \in Seq(Relay)
          /\ Range(Append(q, r)) = Range(q) \cup {r}
          /\ \A i, j \in DOMAIN Append(q, r) : Append(q, r)[i].tx = Append(q, r)[j].tx => i = j
      BY <2>8, <3>1, <3>3, Posted
    <3> DEFINE z == relays[t]
               a == Append(q, r)
    <3>5. /\ a \in Seq(Relay) /\ Range(a) = Range(q) \cup {r}
          /\ \A i, j \in DOMAIN a : a[i].tx = a[j].tx => i = j
          /\ z = IF t \in Shards(tx) THEN a ELSE q
      BY <3>2, <3>4
    <3> HIDE DEF z, a
    <3>6. CASE t \in Shards(tx)
      <4>1. z = a
        BY <3>5, <3>6
      <4>2. /\ z \in Seq(Relay) /\ Range(z) = Range(q) \cup {r}
            /\ \A i, j \in DOMAIN z : z[i].tx = z[j].tx => i = j
        BY <3>5, <4>1
      <4> QED BY <3>6, <4>2 DEF q, z
    <3>7. CASE t \notin Shards(tx)
      <4>1. z = q
        BY <3>5, <3>7
      <4>2. /\ z \in Seq(Relay) /\ Range(z) = Range(q)
            /\ \A i, j \in DOMAIN z : z[i].tx = z[j].tx => i = j
        BY <3>1, <4>1
      <4> QED BY <3>7, <4>2 DEF q, z
    <3> QED BY <3>6, <3>7
  <2>10. relays = [t \in Shard |-> relays[t]]
    OBVIOUS
  <2> HIDE DEF relays
  <2>11. relays \in [Shard -> Seq(Relay)]
    BY <2>9, <2>10
  <2>12. Range(relays[s]) = Range(acc.relays[s]) \cup {r}
    BY <2>2, <2>9
  <2>13. Letters(relays, s)
    <3> SUFFICES ASSUME NEW t \in Shard
                 PROVE  /\ \A i, j \in DOMAIN relays[t] : relays[t][i].tx = relays[t][j].tx => i = j
                        /\ Range(relays[t]) = {p \in Range(relays[s]) : t \in Shards(p.tx)}
      BY DEF Letters
    <3>1. Range(acc.relays[t]) = {p \in Range(acc.relays[s]) : t \in Shards(p.tx)}
      BY <1>0 DEF Letters
    <3>2. \A i, j \in DOMAIN relays[t] : relays[t][i].tx = relays[t][j].tx => i = j
      BY <2>9
    <3>3. Range(relays[t]) = Range(acc.relays[t]) \cup IF t \in Shards(tx) THEN {r} ELSE {}
      BY <2>9
    <3> DEFINE A == Range(relays[t])
               B == Range(relays[s])
               C == Range(acc.relays[t])
               D == Range(acc.relays[s])
    <3>4. A = C \cup (IF t \in Shards(tx) THEN {r} ELSE {}) /\ B = D \cup {r}
          /\ C = {p \in D : t \in Shards(p.tx)}
      BY <2>12, <3>1, <3>3
    <3> HIDE DEF A, B, C, D
    <3>5. A = {p \in B : t \in Shards(p.tx)}
      BY <2>8, <3>4
    <3> QED BY <3>2, <3>5 DEF A, B
  <2>14. mine \cup Range(relays[s]) = m \cup {r}
    BY <2>12 DEF m
  <2>15. \A p \in Range(relays[s]), q \in mine : p.tx # q.tx
    BY <1>0, <2>7, <2>8, <2>12 DEF m
  <2>16. PreInv(x, s, got, mine)
    BY <2>6, <2>7, <2>11, <2>13, <2>14, <2>15 DEF PreInv
  <2> QED BY <2>6, <2>7, <2>16 DEF x
<1> HIDE DEF refused, bad
<1> QED BY <1>3, <1>4, <1>5 DEF x

-----------------------------------------------------------------------------
(* The folds of a block, one after the other, as FoldLeft takes them. *)

\* A step of one of the folds: p says of which.
Do(x, e, p) ==
    CASE p.do = "relay"   -> unlockTransfer(x, p.s, p.c, e)
      [] p.do = "ctxs"    -> FoldLeft(LAMBDA b, r : unlockTransfer(b, p.s, ShardIDList[e], r), x, p.c[e])
      [] p.do = "execute" -> execute(x, p.s, e)
      [] p.do = "pre"     -> preExecute(x, p.s, e)

\* g is the fold's table: what the elements at the positions s of q make of a.
FoldStep(g, s, q, a, p) == IF s = {} THEN a ELSE Do(g[s \ {Max(s)}], q[Max(s)], p)
IsFold(g, S, q, a, p) == g = [s \in SUBSET S |-> FoldStep(g, s, q, a, p)]

FoldTable(S, q, a, p) == CHOOSE g : IsFold(g, S, q, a, p)

\* Two tables agree wherever both are defined.
LEMMA FoldUnique ==
    ASSUME NEW S, Positions(S), NEW U \in SUBSET S, NEW q, NEW a, NEW p, NEW g, NEW h,
           IsFold(g, S, q, a, p), IsFold(h, U, q, a, p)
    PROVE  \A s \in SUBSET U : g[s] = h[s]
<1> DEFINE T == {s \in SUBSET U : g[s] # h[s]}
<1> SUFFICES ASSUME T # {} PROVE FALSE
  OBVIOUS
<1>1. PICK x \in T : \A y \in T : y \subseteq x => y = x
  <2>1. T \in SUBSET SUBSET S /\ IsFiniteSet(S)
    BY PositionsIn
  <2> HIDE DEF T
  <2> QED BY <2>1, MinimalSubset
<1>2. g[x] = FoldStep(g, x, q, a, p) /\ h[x] = FoldStep(h, x, q, a, p)
  <2>1. \A s \in SUBSET S : g[s] = FoldStep(g, s, q, a, p)
    BY Zenon DEF IsFold
  <2>2. \A s \in SUBSET U : h[s] = FoldStep(h, s, q, a, p)
    BY Zenon DEF IsFold
  <2> QED BY <1>1, <2>1, <2>2
<1>3. CASE x = {}
  BY <1>1, <1>2, <1>3 DEF FoldStep
<1>4. CASE x # {}
  <2> DEFINE y == x \ {Max(x)}
  <2>1. Max(x) \in x
    <3>1. Positions(x)
      BY <1>1, PositionsIn
    <3> QED BY <1>4, <3>1, MaxIn
  <2>2. y \in SUBSET U /\ y \subseteq x /\ y # x
    BY <1>1, <2>1
  <2>3. g[y] = h[y]
    BY <1>1, <2>2
  <2>4. g[x] = Do(g[y], q[Max(x)], p) /\ h[x] = Do(h[y], q[Max(x)], p)
    BY <1>2, <1>4 DEF FoldStep
  <2> HIDE DEF y
  <2> QED BY <1>1, <2>3, <2>4
<1> QED BY <1>3, <1>4

\* Every finite set of positions has a table.
LEMMA FoldExists ==
    ASSUME NEW S, Positions(S), NEW q, NEW a, NEW p
    PROVE  IsFold(FoldTable(S, q, a, p), S, q, a, p)
<1> SUFFICES \E g : IsFold(g, S, q, a, p)
  BY DEF FoldTable
<1> DEFINE T == {U \in SUBSET S : ~ \E g : IsFold(g, U, q, a, p)}
<1> SUFFICES ASSUME T # {} PROVE FALSE
  OBVIOUS
<1>1. PICK x \in T : \A y \in T : y \subseteq x => y = x
  <2>1. T \in SUBSET SUBSET S /\ IsFiniteSet(S)
    BY PositionsIn
  <2> HIDE DEF T
  <2> QED BY <2>1, MinimalSubset
<1>2. \A s \in SUBSET x : s # x => IsFold(FoldTable(s, q, a, p), s, q, a, p)
  <2> SUFFICES ASSUME NEW s \in SUBSET x, s # x PROVE IsFold(FoldTable(s, q, a, p), s, q, a, p)
    OBVIOUS
  <2>1. s \in SUBSET S /\ s \notin T
    BY <1>1
  <2>2. \E g : IsFold(g, s, q, a, p)
    BY <2>1
  <2> QED BY <2>2 DEF FoldTable
<1>3. Positions(x)
  BY <1>1, PositionsIn
<1>4. \A s \in SUBSET x : s # {} => Max(s) \in s
  <2> SUFFICES ASSUME NEW s \in SUBSET x, s # {} PROVE Max(s) \in s
    OBVIOUS
  <2>1. Positions(s)
    BY <1>3, PositionsIn
  <2> QED BY <2>1, MaxIn
<1> HIDE DEF T
<1> DEFINE low(s) == FoldTable(s, q, a, p)[s]
           g == [s \in SUBSET x |->
                    IF s = x THEN IF x = {} THEN a
                                  ELSE Do(low(x \ {Max(x)}), q[Max(x)], p)
                    ELSE low(s)]
<1>5. ASSUME NEW s \in SUBSET x PROVE g[s] = FoldStep(g, s, q, a, p)
  <2>1. CASE s = {} /\ s = x
    BY <2>1 DEF FoldStep
  <2>2. CASE s # {} /\ s = x
    <3>1. x \ {Max(x)} \in SUBSET x /\ x \ {Max(x)} # x
      BY <1>4, <2>2
    <3>2. g[x \ {Max(x)}] = low(x \ {Max(x)})
      BY <3>1
    <3>3. g[s] = Do(low(x \ {Max(x)}), q[Max(x)], p)
      BY <2>2
    <3> HIDE DEF g, low
    <3> QED BY <2>2, <3>2, <3>3 DEF FoldStep
  <2>3. CASE s # x
    <3>1. g[s] = low(s)
      BY <2>3
    <3>2. IsFold(FoldTable(s, q, a, p), s, q, a, p)
      BY <1>2, <2>3
    <3>3. low(s) = FoldStep(FoldTable(s, q, a, p), s, q, a, p)
      <4> DEFINE f == FoldTable(s, q, a, p)
      <4>1. f = [u \in SUBSET s |-> FoldStep(f, u, q, a, p)]
        BY <3>2 DEF IsFold
      <4> HIDE DEF f
      <4>2. f[s] = FoldStep(f, s, q, a, p)
        BY <4>1, Zenon
      <4> QED BY <4>2 DEF f
    <3>4. CASE s = {}
      BY <3>1, <3>3, <3>4 DEF FoldStep
    <3>5. CASE s # {}
      <4> DEFINE y == s \ {Max(s)}
      <4>1. y \in SUBSET s /\ y \in SUBSET x /\ y # x
        BY <2>3
      <4>2. g[y] = low(y)
        BY <4>1
      <4>3. IsFold(FoldTable(y, q, a, p), y, q, a, p)
        BY <1>2, <4>1
      <4>4. FoldTable(s, q, a, p)[y] = low(y)
        <5>1. Positions(s)
          BY <1>3, PositionsIn
        <5> HIDE DEF y
        <5> QED BY <3>2, <4>1, <4>3, <5>1, FoldUnique
      <4>5. low(s) = Do(FoldTable(s, q, a, p)[y], q[Max(s)], p)
        BY <3>3, <3>5 DEF FoldStep
      <4>6. FoldStep(g, s, q, a, p) = Do(g[y], q[Max(s)], p)
        BY <3>5 DEF FoldStep
      <4> HIDE DEF g, low, y
      <4> QED BY <3>1, <4>2, <4>4, <4>5, <4>6
    <3> QED BY <3>4, <3>5
  <2> QED BY <2>1, <2>2, <2>3
<1>6. g = [s \in SUBSET x |-> g[s]]
  OBVIOUS
<1> HIDE DEF g
<1>7. g = [s \in SUBSET x |-> FoldStep(g, s, q, a, p)]
  BY <1>5, <1>6, Zenon
<1> QED BY <1>1, <1>7 DEF T, IsFold

\* The states the fold goes through.
Run(q, a, p) == [k \in 0 .. Len(q) |-> FoldTable(DOMAIN q, q, a, p)[1 .. k]]

\* The largest number up to k.
LEMMA Upto ==
    ASSUME NEW k \in Nat, k # 0
    PROVE  /\ 1 .. k # {} /\ Max(1 .. k) = k /\ (1 .. k) \ {k} = 1 .. (k - 1)
<1>1. k \in 1 .. k /\ \A y \in 1 .. k : k >= y
  OBVIOUS
<1>2. \A x \in 1 .. k : (\A y \in 1 .. k : x >= y) => x = k
  BY <1>1
<1>3. Max(1 .. k) = k
  <2> DEFINE S == 1 .. k
  <2>1. k \in S /\ (\A y \in S : k >= y) /\ \A x \in S : (\A y \in S : x >= y) => x = k
    BY <1>1, <1>2
  <2> HIDE DEF S
  <2>2. Max(S) = k
    BY <2>1 DEF Max
  <2> QED BY <2>2 DEF S
<1> QED BY <1>1, <1>3

\* A fold is a sequence of steps.
LEMMA RunSteps ==
    ASSUME NEW T, NEW q \in Seq(T), NEW a, NEW p
    PROVE  /\ Len(q) \in Nat /\ DOMAIN q = 1 .. Len(q)
           /\ Run(q, a, p)[0] = a
           /\ \A k \in 1 .. Len(q) : Run(q, a, p)[k] = Do(Run(q, a, p)[k - 1], q[k], p)
<1> DEFINE S == DOMAIN q
           n == Len(q)
           g == FoldTable(S, q, a, p)
           h == Run(q, a, p)
<1>1. n \in Nat /\ S = 1 .. n
  BY LenProperties
<1>2. Positions(S) /\ IsFiniteSet(1 .. n)
  <2>1. IsFiniteSet(1 .. n)
    BY <1>1, FS_Interval
  <2>2. S \subseteq Int
    BY <1>1
  <2> QED BY <1>1, <2>1, <2>2 DEF Positions
<1>3. IsFold(g, S, q, a, p)
  BY <1>2, FoldExists
<1>4. \A k \in 0 .. n : h[k] = g[1 .. k]
  BY DEF Run
<1> HIDE DEF S, g, h, n
<1>5. \A s \in SUBSET S : g[s] = FoldStep(g, s, q, a, p)
  BY <1>3, Zenon DEF IsFold
<1>6. h[0] = a
  <2>1. 1 .. 0 = {} /\ 0 \in 0 .. n
    BY <1>1
  <2>2. {} \in SUBSET S
    OBVIOUS
  <2>3. g[{}] = a
    BY <1>5, <2>2 DEF FoldStep
  <2> QED BY <1>4, <2>1, <2>3
<1>7. ASSUME NEW k \in 1 .. n PROVE h[k] = Do(h[k - 1], q[k], p)
  <2>1. k \in Nat /\ k # 0 /\ k \in 0 .. n /\ k - 1 \in 0 .. n /\ 1 .. k \in SUBSET S
    BY <1>1
  <2>2. 1 .. k # {} /\ Max(1 .. k) = k /\ (1 .. k) \ {k} = 1 .. (k - 1)
    BY <2>1, Upto
  <2> DEFINE U == 1 .. k
             V == 1 .. (k - 1)
  <2>3. U # {} /\ Max(U) = k /\ U \ {k} = V /\ U \in SUBSET S /\ h[k] = g[U] /\ h[k - 1] = g[V]
    BY <1>4, <2>1, <2>2
  <2> HIDE DEF U, V
  <2>4. g[U] = Do(g[U \ {Max(U)}], q[Max(U)], p)
    BY <1>5, <2>3 DEF FoldStep
  <2> QED BY <2>3, <2>4
<1> QED BY <1>1, <1>6, <1>7 DEF S, n, h

\* Where a fold ends.
LEMMA RunEnd ==
    ASSUME NEW T, NEW q \in Seq(T), NEW a, NEW p, NEW f, IsFold(f, DOMAIN q, q, a, p)
    PROVE  f[DOMAIN q] = Run(q, a, p)[Len(q)]
<1> DEFINE S == DOMAIN q
           n == Len(q)
           g == FoldTable(S, q, a, p)
<1>1. n \in Nat /\ S = 1 .. n
  BY LenProperties
<1>2. Positions(S)
  <2>1. IsFiniteSet(1 .. n)
    BY <1>1, FS_Interval
  <2>2. S \subseteq Int
    BY <1>1
  <2> QED BY <1>1, <2>1, <2>2 DEF Positions
<1>3. IsFold(g, S, q, a, p) /\ IsFold(f, S, q, a, p)
  BY <1>2, FoldExists
<1>4. Run(q, a, p)[n] = g[S]
  <2>1. n \in 0 .. Len(q)
    BY <1>1
  <2> QED BY <1>1, <2>1 DEF Run
<1> HIDE DEF S, g, n
<1>5. f[S] = g[S]
  BY <1>2, <1>3, FoldUnique
<1> QED BY <1>4, <1>5 DEF S, n

\* The relays of one shard.
LEMMA RelayFold ==
    ASSUME NEW T, NEW q \in Seq(T), NEW a, NEW s, NEW c
    PROVE  FoldLeft(LAMBDA b, r : unlockTransfer(b, s, c, r), a, q) = Run(q, a, [do |-> "relay", s |-> s, c |-> c])[Len(q)]
<1> DEFINE p == [do |-> "relay", s |-> s, c |-> c]
           S == DOMAIN q
           A(g) == g = [u \in SUBSET S |-> IF u = {} THEN a ELSE unlockTransfer(g[u \ {Max(u)}], s, c, q[Max(u)])]
<1>1. FoldLeft(LAMBDA b, r : unlockTransfer(b, s, c, r), a, q) = (CHOOSE g : A(g))[S]
  BY DEF FoldLeft, MapThenFoldSet
<1>2. \A x, e : Do(x, e, p) = unlockTransfer(x, s, c, e)
  BY DEF Do
<1> HIDE DEF p, S
<1>3. ASSUME NEW g PROVE A(g) <=> IsFold(g, S, q, a, p)
  <2>1. \A u \in SUBSET S : FoldStep(g, u, q, a, p) = IF u = {} THEN a ELSE unlockTransfer(g[u \ {Max(u)}], s, c, q[Max(u)])
    BY <1>2 DEF FoldStep
  <2> QED BY <2>1 DEF IsFold
<1>4. \E g : IsFold(g, S, q, a, p)
  <2>1. Positions(S)
    <3>1. Len(q) \in Nat /\ S = 1 .. Len(q)
      BY LenProperties DEF S
    <3>2. IsFiniteSet(1 .. Len(q))
      BY <3>1, FS_Interval
    <3> QED BY <3>1, <3>2 DEF Positions
  <2> QED BY <2>1, FoldExists
<1> HIDE DEF A
<1>5. IsFold(CHOOSE g : A(g), S, q, a, p)
  BY <1>3, <1>4
<1>6. (CHOOSE g : A(g))[S] = Run(q, a, p)[Len(q)]
  <2> DEFINE f == CHOOSE g : A(g)
  <2>1. IsFold(f, DOMAIN q, q, a, p)
    BY <1>5 DEF S
  <2> HIDE DEF f
  <2>2. f[DOMAIN q] = Run(q, a, p)[Len(q)]
    BY <2>1, RunEnd
  <2> QED BY <2>2 DEF f, S
<1> QED BY <1>1, <1>6 DEF p

\* The transfers inside the shard.
LEMMA ExecuteFold ==
    ASSUME NEW T, NEW q \in Seq(T), NEW a, NEW s
    PROVE  FoldLeft(LAMBDA st, tx : execute(st, s, tx), a, q) = Run(q, a, [do |-> "execute", s |-> s, c |-> 0])[Len(q)]
<1> DEFINE p == [do |-> "execute", s |-> s, c |-> 0]
           S == DOMAIN q
           A(g) == g = [u \in SUBSET S |-> IF u = {} THEN a ELSE execute(g[u \ {Max(u)}], s, q[Max(u)])]
<1>1. FoldLeft(LAMBDA st, tx : execute(st, s, tx), a, q) = (CHOOSE g : A(g))[S]
  BY DEF FoldLeft, MapThenFoldSet
<1>2. \A x, e : Do(x, e, p) = execute(x, s, e)
  BY DEF Do
<1> HIDE DEF p, S
<1>3. ASSUME NEW g PROVE A(g) <=> IsFold(g, S, q, a, p)
  <2>1. \A u \in SUBSET S : FoldStep(g, u, q, a, p) = IF u = {} THEN a ELSE execute(g[u \ {Max(u)}], s, q[Max(u)])
    BY <1>2 DEF FoldStep
  <2> QED BY <2>1 DEF IsFold
<1>4. \E g : IsFold(g, S, q, a, p)
  <2>1. Positions(S)
    <3>1. Len(q) \in Nat /\ S = 1 .. Len(q)
      BY LenProperties DEF S
    <3>2. IsFiniteSet(1 .. Len(q))
      BY <3>1, FS_Interval
    <3> QED BY <3>1, <3>2 DEF Positions
  <2> QED BY <2>1, FoldExists
<1> HIDE DEF A
<1>5. IsFold(CHOOSE g : A(g), S, q, a, p)
  BY <1>3, <1>4
<1>6. (CHOOSE g : A(g))[S] = Run(q, a, p)[Len(q)]
  <2> DEFINE f == CHOOSE g : A(g)
  <2>1. IsFold(f, DOMAIN q, q, a, p)
    BY <1>5 DEF S
  <2> HIDE DEF f
  <2>2. f[DOMAIN q] = Run(q, a, p)[Len(q)]
    BY <2>1, RunEnd
  <2> QED BY <2>2 DEF f, S
<1> QED BY <1>1, <1>6 DEF p

\* The transfers over several shards.
LEMMA PreFold ==
    ASSUME NEW T, NEW q \in Seq(T), NEW a, NEW s
    PROVE  FoldLeft(LAMBDA acc, tx : preExecute(acc, s, tx), a, q) = Run(q, a, [do |-> "pre", s |-> s, c |-> 0])[Len(q)]
<1> DEFINE p == [do |-> "pre", s |-> s, c |-> 0]
           S == DOMAIN q
           A(g) == g = [u \in SUBSET S |-> IF u = {} THEN a ELSE preExecute(g[u \ {Max(u)}], s, q[Max(u)])]
<1>1. FoldLeft(LAMBDA acc, tx : preExecute(acc, s, tx), a, q) = (CHOOSE g : A(g))[S]
  BY DEF FoldLeft, MapThenFoldSet
<1>2. \A x, e : Do(x, e, p) = preExecute(x, s, e)
  BY DEF Do
<1> HIDE DEF p, S
<1>3. ASSUME NEW g PROVE A(g) <=> IsFold(g, S, q, a, p)
  <2>1. \A u \in SUBSET S : FoldStep(g, u, q, a, p) = IF u = {} THEN a ELSE preExecute(g[u \ {Max(u)}], s, q[Max(u)])
    BY <1>2 DEF FoldStep
  <2> QED BY <2>1 DEF IsFold
<1>4. \E g : IsFold(g, S, q, a, p)
  <2>1. Positions(S)
    <3>1. Len(q) \in Nat /\ S = 1 .. Len(q)
      BY LenProperties DEF S
    <3>2. IsFiniteSet(1 .. Len(q))
      BY <3>1, FS_Interval
    <3> QED BY <3>1, <3>2 DEF Positions
  <2> QED BY <2>1, FoldExists
<1> HIDE DEF A
<1>5. IsFold(CHOOSE g : A(g), S, q, a, p)
  BY <1>3, <1>4
<1>6. (CHOOSE g : A(g))[S] = Run(q, a, p)[Len(q)]
  <2> DEFINE f == CHOOSE g : A(g)
  <2>1. IsFold(f, DOMAIN q, q, a, p)
    BY <1>5 DEF S
  <2> HIDE DEF f
  <2>2. f[DOMAIN q] = Run(q, a, p)[Len(q)]
    BY <2>1, RunEnd
  <2> QED BY <2>2 DEF f, S
<1> QED BY <1>1, <1>6 DEF p

\* The positions of the shards, and the relays of all of them.
Places == [i \in DOMAIN ShardIDList |-> i]

LEMMA CtxsFold ==
    ASSUME NEW a, NEW s, NEW v
    PROVE  /\ Places \in Seq(Nat) /\ Len(Places) = Len(ShardIDList)
           /\ executeCTXS(a, s, v)
                = Run(Places, a, [do |-> "ctxs", s |-> s, c |-> CTXS(s, v)])[Len(ShardIDList)]
<1> DEFINE p == [do |-> "ctxs", s |-> s, c |-> CTXS(s, v)]
           q == Places
           c == CTXS(s, v)
           S == DOMAIN q
           step(x, e) == FoldLeft(LAMBDA b, r : unlockTransfer(b, s, ShardIDList[e], r), x, c[e])
           A(g) == g = [u \in SUBSET S |-> IF u = {} THEN a ELSE step(g[u \ {Max(u)}], q[Max(u)])]
<1>0. q \in Seq(Nat) /\ Len(q) = Len(ShardIDList)
  <2>1. Len(ShardIDList) \in Nat /\ DOMAIN ShardIDList = 1 .. Len(ShardIDList)
    BY ShardsAssumption, LenProperties
  <2>2. q = [i \in 1 .. Len(ShardIDList) |-> i]
    BY <2>1 DEF Places
  <2> QED BY <2>1, <2>2
<1>1. executeCTXS(a, s, v) = (CHOOSE g : A(g))[S]
  BY DEF executeCTXS, FoldLeftDomain, FoldLeft, MapThenFoldSet, Places
<1>2. \A x, e : Do(x, e, p) = step(x, e)
  BY DEF Do
<1> HIDE DEF p, S, step, q
<1>3. ASSUME NEW g PROVE A(g) <=> IsFold(g, S, q, a, p)
  <2>1. \A u \in SUBSET S : FoldStep(g, u, q, a, p) = IF u = {} THEN a ELSE step(g[u \ {Max(u)}], q[Max(u)])
    BY <1>2 DEF FoldStep
  <2> QED BY <2>1 DEF IsFold
<1>4. \E g : IsFold(g, S, q, a, p)
  <2>1. Positions(S)
    <3>1. Len(q) \in Nat /\ S = 1 .. Len(q)
      BY <1>0, LenProperties DEF S
    <3>2. IsFiniteSet(1 .. Len(q))
      BY <3>1, FS_Interval
    <3> QED BY <3>1, <3>2 DEF Positions
  <2> QED BY <2>1, FoldExists
<1> HIDE DEF A
<1>5. IsFold(CHOOSE g : A(g), S, q, a, p)
  BY <1>3, <1>4
<1>6. (CHOOSE g : A(g))[S] = Run(q, a, p)[Len(q)]
  <2> DEFINE f == CHOOSE g : A(g)
  <2>1. IsFold(f, DOMAIN q, q, a, p)
    BY <1>5 DEF S
  <2> HIDE DEF f
  <2>2. f[DOMAIN q] = Run(q, a, p)[Len(q)]
    BY <1>0, <2>1, RunEnd
  <2> QED BY <2>2 DEF f, S
<1> QED BY <1>0, <1>1, <1>6 DEF p, q

-----------------------------------------------------------------------------
(* The relays of a block. *)

\* All of R have been executed too.
PlusAll(got, c, R) == [got EXCEPT ![c] = @ \cup R]

\* q is what shard c sends s in one block: nothing s has had before.
News(q, c, s, got, mine) ==
    /\ \A k \in DOMAIN q : /\ IsRelay(q[k], c, s)
                           /\ c = s => q[k] \in mine
                           /\ \A g \in got[c] : g.tx # q[k].tx
    /\ \A i, j \in DOMAIN q : q[i].tx = q[j].tx => i = j

\* Frames add up.
LEMMA FrameTwice == \A s, a, b, c : Frame(a, b, s) /\ Frame(b, c, s) => Frame(a, c, s)
BY DEF Frame

\* The relays of one shard.
LEMMA RelaysOfOne ==
    ASSUME NEW st, NEW s \in Shard, NEW got, got = [u \in Shard |-> got[u]], NEW mine,
           ShardInv(st, s, got, mine), NEW c \in Shard,
           NEW T, NEW q \in Seq(T), News(q, c, s, got, mine)
    PROVE  LET x == FoldLeft(LAMBDA b, r : unlockTransfer(b, s, c, r), st, q)
           IN  ShardInv(x, s, PlusAll(got, c, Range(q)), mine) /\ Frame(st, x, s)
<1> DEFINE p == [do |-> "relay", s |-> s, c |-> c]
           n == Len(q)
           h == Run(q, st, p)
           first(k) == {q[j] : j \in 1 .. k}
           G == {k \in 0 .. n : /\ ShardInv(h[k], s, PlusAll(got, c, first(k)), mine)
                                /\ Frame(st, h[k], s)}
<1>1. /\ n \in Nat /\ DOMAIN q = 1 .. n
      /\ h[0] = st /\ \A k \in 1 .. n : h[k] = Do(h[k - 1], q[k], p)
  BY RunSteps
<1>2. \A x, e : Do(x, e, p) = unlockTransfer(x, s, c, e)
  BY DEF Do
<1>3. FoldLeft(LAMBDA b, r : unlockTransfer(b, s, c, r), st, q) = h[n]
  BY RelayFold
<1> HIDE DEF h, n, p
<1>4. 0 \in G
  <2>1. first(0) = {}
    OBVIOUS
  <2>2. PlusAll(got, c, {}) = got
    BY DEF PlusAll
  <2>3. Frame(st, st, s)
    BY DEF Frame
  <2> HIDE DEF first
  <2>4. ShardInv(h[0], s, PlusAll(got, c, first(0)), mine) /\ Frame(st, h[0], s)
    BY <1>1, <2>1, <2>2, <2>3
  <2>5. 0 \in 0 .. n
    BY <1>1
  <2> QED BY <2>4, <2>5
<1>5. ASSUME NEW k \in 1 .. n, k - 1 \in G PROVE k \in G
  <2> DEFINE x == h[k - 1]
             g == PlusAll(got, c, first(k - 1))
             r == q[k]
  <2>1. ShardInv(x, s, g, mine) /\ Frame(st, x, s)
    BY <1>5
  <2>2. g = [u \in Shard |-> g[u]] /\ g[c] = got[c] \cup first(k - 1)
    BY DEF PlusAll
  <2>3. IsRelay(r, c, s) /\ (c = s => r \in mine) /\ \A z \in got[c] : z.tx # r.tx
    BY <1>1 DEF News
  <2>4. \A z \in first(k - 1) : z.tx # r.tx
    <3> SUFFICES ASSUME NEW j \in 1 .. (k - 1) PROVE q[j].tx # q[k].tx
      OBVIOUS
    <3>1. j \in DOMAIN q /\ k \in DOMAIN q /\ j # k
      BY <1>1
    <3> QED BY <3>1 DEF News
  <2>5. \A z \in g[c] : z.tx # r.tx
    BY <2>2, <2>3, <2>4
  <2> HIDE DEF g, x, r
  <2>6. ShardInv(unlockTransfer(x, s, c, r), s, Plus(g, c, r), mine) /\ Frame(x, unlockTransfer(x, s, c, r), s)
    BY <2>1, <2>2, <2>3, <2>5, Relayed
  <2>7. h[k] = unlockTransfer(x, s, c, r)
    BY <1>1, <1>2 DEF x, r
  <2>8. Plus(g, c, r) = PlusAll(got, c, first(k))
    <3>1. first(k) = first(k - 1) \cup {r}
      <4>1. 1 .. k = (1 .. (k - 1)) \cup {k}
        BY <1>1
      <4> QED BY <4>1 DEF r
    <3> DEFINE F == first(k - 1)
               E == first(k)
    <3>2. E = F \cup {r} /\ g = [got EXCEPT ![c] = @ \cup F]
      BY <3>1 DEF g, PlusAll
    <3> HIDE DEF F, E
    <3>3. [g EXCEPT ![c] = @ \cup {r}] = [got EXCEPT ![c] = @ \cup E]
      BY <3>2
    <3> QED BY <3>3 DEF Plus, PlusAll, E
  <2>9. Frame(st, h[k], s)
    BY <2>1, <2>6, <2>7, FrameTwice
  <2> HIDE DEF first
  <2> QED BY <1>1, <2>6, <2>7, <2>8, <2>9
<1>6. n \in G
  <2>1. n \in 0 .. n
    BY <1>1
  <2> HIDE DEF G
  <2> QED BY <1>1, <1>4, <1>5, <2>1, Induct
<1>7. first(n) = Range(q)
  BY <1>1 DEF Range
<1> HIDE DEF first
<1> QED BY <1>3, <1>6, <1>7

\* Block v of s has the relays of every shard that make got into next.
Arrive(s, v, got, next, mine) == \A i \in DOMAIN ShardIDList :
    /\ CTXS(s, v)[i] \in Seq(Relay) /\ News(CTXS(s, v)[i], ShardIDList[i], s, got, mine)
    /\ next[ShardIDList[i]] = got[ShardIDList[i]] \cup Range(CTXS(s, v)[i])

\* The relays of all shards.
LEMMA RelaysOfAll ==
    ASSUME NEW st, NEW s \in Shard, NEW got, got = [u \in Shard |-> got[u]], NEW mine,
           ShardInv(st, s, got, mine), NEW v,
           NEW next, next = [u \in Shard |-> next[u]],
           Arrive(s, v, got, next, mine)
    PROVE  ShardInv(executeCTXS(st, s, v), s, next, mine) /\ Frame(st, executeCTXS(st, s, v), s)
<1> DEFINE ctxs == CTXS(s, v)
           p == [do |-> "ctxs", s |-> s, c |-> ctxs]
           q == Places
           n == Len(ShardIDList)
           h == Run(q, st, p)
           done(k) == {ShardIDList[j] : j \in 1 .. k}
           part(k) == [c \in Shard |-> IF c \in done(k) THEN next[c] ELSE got[c]]
           G == {k \in 0 .. n : ShardInv(h[k], s, part(k), mine) /\ Frame(st, h[k], s)}
<1>0. q \in Seq(Nat) /\ Len(q) = n /\ executeCTXS(st, s, v) = h[n]
  BY CtxsFold
<1>1. /\ n \in Nat /\ DOMAIN q = 1 .. n
      /\ h[0] = st /\ \A k \in 1 .. n : h[k] = Do(h[k - 1], q[k], p)
  <2>1. /\ Len(q) \in Nat /\ DOMAIN q = 1 .. Len(q)
        /\ h[0] = st /\ \A k \in 1 .. Len(q) : h[k] = Do(h[k - 1], q[k], p)
    <3> HIDE DEF q, p
    <3> QED BY <1>0, RunSteps
  <2> HIDE DEF n, q
  <2> QED BY <1>0, <2>1
<1>2. DOMAIN ShardIDList = 1 .. n /\ \A k \in 1 .. n : q[k] = k /\ ShardIDList[k] \in Shard
  <2>1. DOMAIN ShardIDList = 1 .. n
    BY ShardsAssumption, LenProperties
  <2> QED BY <2>1 DEF Places, Shard, Range
<1>3. \A x, e : Do(x, e, p) = FoldLeft(LAMBDA b, r : unlockTransfer(b, s, ShardIDList[e], r), x, ctxs[e])
  <2> HIDE DEF ctxs
  <2> QED BY DEF Do
<1>4. \A i, j \in 1 .. n : ShardIDList[i] = ShardIDList[j] => i = j
  BY <1>2, ShardsAssumption DEF IsInjective
<1> HIDE DEF h, n, p, q, ctxs
<1>5. 0 \in G
  <2>1. done(0) = {}
    OBVIOUS
  <2>2. part(0) = got
    <3> HIDE DEF done
    <3> QED BY <2>1
  <2>3. Frame(st, st, s)
    BY DEF Frame
  <2> HIDE DEF part
  <2>4. ShardInv(h[0], s, part(0), mine) /\ Frame(st, h[0], s)
    BY <1>1, <2>2, <2>3
  <2>5. 0 \in 0 .. n
    BY <1>1
  <2> QED BY <2>4, <2>5
<1>6. ASSUME NEW k \in 1 .. n, k - 1 \in G PROVE k \in G
  <2> DEFINE x == h[k - 1]
             g == part(k - 1)
             c == ShardIDList[k]
             z == ctxs[k]
             y == FoldLeft(LAMBDA b, r : unlockTransfer(b, s, c, r), x, z)
  <2>1. ShardInv(x, s, g, mine) /\ Frame(st, x, s)
    BY <1>6
  <2>2. c \in Shard /\ z \in Seq(Relay) /\ News(z, c, s, got, mine) /\ next[c] = got[c] \cup Range(z)
    <3>1. k \in DOMAIN ShardIDList /\ c \in Shard
      BY <1>2
    <3> HIDE DEF c
    <3>2. /\ CTXS(s, v)[k] \in Seq(Relay) /\ News(CTXS(s, v)[k], c, s, got, mine)
          /\ next[c] = got[c] \cup Range(CTXS(s, v)[k])
      BY <3>1 DEF Arrive, c
    <3> QED BY <3>1, <3>2 DEF ctxs
  <2>3. c \notin done(k - 1)
    <3> SUFFICES ASSUME NEW j \in 1 .. (k - 1), ShardIDList[j] = c PROVE FALSE
      OBVIOUS
    <3>1. j \in 1 .. n /\ j # k
      BY <1>1
    <3> QED BY <1>4, <3>1
  <2>4. g = [u \in Shard |-> g[u]] /\ g[c] = got[c]
    <3> HIDE DEF done
    <3> QED BY <2>2, <2>3
  <2>5. News(z, c, s, g, mine)
    <3> HIDE DEF g
    <3> QED BY <2>2, <2>4 DEF News
  <2>6. done(k) = done(k - 1) \cup {c}
    <3>1. 1 .. k = (1 .. (k - 1)) \cup {k}
      BY <1>1
    <3> QED BY <3>1
  <2>7. PlusAll(g, c, Range(z)) = part(k)
    <3> DEFINE R == Range(z)
               D == done(k - 1)
               E == done(k)
    <3>1. /\ g = [u \in Shard |-> IF u \in D THEN next[u] ELSE got[u]]
          /\ part(k) = [u \in Shard |-> IF u \in E THEN next[u] ELSE got[u]]
          /\ E = D \cup {c} /\ c \notin D /\ next[c] = got[c] \cup R /\ c \in Shard /\ g[c] = got[c]
      BY <2>2, <2>3, <2>4, <2>6
    <3> HIDE DEF R, D, E, g, part
    <3>2. [g EXCEPT ![c] = @ \cup R] = part(k)
      BY <3>1
    <3> QED BY <3>2 DEF PlusAll, R
  <2> HIDE DEF x, g, c, z, part
  <2>8. ShardInv(y, s, PlusAll(g, c, Range(z)), mine) /\ Frame(x, y, s)
    BY <2>1, <2>2, <2>4, <2>5, RelaysOfOne
  <2>9. h[k] = y
    <3>1. h[k] = Do(h[k - 1], k, p)
      BY <1>1, <1>2
    <3>2. Do(x, k, p) = FoldLeft(LAMBDA b, r : unlockTransfer(b, s, ShardIDList[k], r), x, ctxs[k])
      BY <1>3
    <3> QED BY <3>1, <3>2 DEF x, c, z
  <2> HIDE DEF y
  <2>10. Frame(st, h[k], s)
    BY <2>1, <2>8, <2>9, FrameTwice
  <2>11. ShardInv(h[k], s, part(k), mine)
    BY <2>7, <2>8, <2>9
  <2>12. k \in 0 .. n
    BY <1>1
  <2> QED BY <2>10, <2>11, <2>12
<1>7. n \in G
  <2>1. n \in 0 .. n
    BY <1>1
  <2> HIDE DEF G
  <2> QED BY <1>1, <1>5, <1>6, <2>1, Induct
<1>8. part(n) = next
  <2>1. \A u \in Shard : u \in done(n)
    BY <1>2 DEF Shard, Range
  <2> HIDE DEF done
  <2> QED BY <2>1
<1> HIDE DEF part
<1> QED BY <1>0, <1>7, <1>8

\* The transfers inside the shard.
LEMMA ExecutedAll ==
    ASSUME NEW st, NEW s \in Shard, NEW got, NEW mine, ShardInv(st, s, got, mine), NEW q \in Seq(Tx)
    PROVE  LET x == FoldLeft(LAMBDA a, tx : execute(a, s, tx), st, q)
           IN  ShardInv(x, s, got, mine) /\ Frame(st, x, s)
<1> DEFINE p == [do |-> "execute", s |-> s, c |-> 0]
           n == Len(q)
           h == Run(q, st, p)
           G == {k \in 0 .. n : ShardInv(h[k], s, got, mine) /\ Frame(st, h[k], s)}
<1>1. /\ n \in Nat /\ DOMAIN q = 1 .. n
      /\ h[0] = st /\ \A k \in 1 .. n : h[k] = Do(h[k - 1], q[k], p)
  BY RunSteps
<1>2. \A x, e : Do(x, e, p) = execute(x, s, e)
  BY DEF Do
<1>3. FoldLeft(LAMBDA a, tx : execute(a, s, tx), st, q) = h[n]
  BY ExecuteFold
<1>4. \A k \in 1 .. n : q[k] \in Tx
  BY <1>1, ElementOfSeq
<1> HIDE DEF h, n, p
<1>5. 0 \in G
  <2>1. Frame(st, st, s)
    BY DEF Frame
  <2>2. 0 \in 0 .. n
    BY <1>1
  <2> QED BY <1>1, <2>1, <2>2
<1>6. ASSUME NEW k \in 1 .. n, k - 1 \in G PROVE k \in G
  <2> DEFINE x == h[k - 1]
             tx == q[k]
  <2>1. ShardInv(x, s, got, mine) /\ Frame(st, x, s) /\ tx \in Tx
    BY <1>4, <1>6
  <2>2. h[k] = execute(x, s, tx) /\ k \in 0 .. n
    BY <1>1, <1>2
  <2> HIDE DEF x, tx
  <2>3. ShardInv(execute(x, s, tx), s, got, mine) /\ Frame(x, execute(x, s, tx), s)
    BY <2>1, Executed
  <2>4. Frame(st, h[k], s)
    BY <2>1, <2>2, <2>3, FrameTwice
  <2> QED BY <2>2, <2>3, <2>4
<1>7. n \in G
  <2>1. n \in 0 .. n
    BY <1>1
  <2> HIDE DEF G
  <2> QED BY <1>1, <1>5, <1>6, <2>1, Induct
<1> QED BY <1>3, <1>7

\* The transfers over several shards.
LEMMA PreExecutedAll ==
    ASSUME NEW st, NEW s \in Shard, NEW got, NEW mine, ShardInv(st, s, got, mine), NEW q \in Seq(Tx)
    PROVE  /\ PreInv(preExecution(st, s, q), s, got, mine)
           /\ Frame(st, preExecution(st, s, q).st, s)
<1> DEFINE p == [do |-> "pre", s |-> s, c |-> 0]
           n == Len(q)
           a == [st |-> st, wlocks |-> {}, relays |-> [t \in Shard |-> <<>>]]
           h == Run(q, a, p)
           G == {k \in 0 .. n : PreInv(h[k], s, got, mine) /\ Frame(st, h[k].st, s)}
<1>1. /\ n \in Nat /\ DOMAIN q = 1 .. n
      /\ h[0] = a /\ \A k \in 1 .. n : h[k] = Do(h[k - 1], q[k], p)
  <2> HIDE DEF a
  <2> QED BY RunSteps
<1>2. \A x, e : Do(x, e, p) = preExecute(x, s, e)
  BY DEF Do
<1>3. preExecution(st, s, q) = h[n]
  <2>1. preExecution(st, s, q) = FoldLeft(LAMBDA acc, tx : preExecute(acc, s, tx), a, q)
    BY DEF preExecution
  <2> HIDE DEF a
  <2>2. FoldLeft(LAMBDA acc, tx : preExecute(acc, s, tx), a, q) = h[n]
    BY PreFold
  <2> QED BY <2>1, <2>2
<1>4. \A k \in 1 .. n : q[k] \in Tx
  BY <1>1, ElementOfSeq
<1>5. PreInv(a, s, got, mine) /\ a.st = st
  <2>1. a.st = st /\ a.relays = [t \in Shard |-> <<>>]
        /\ a = [st |-> a.st, wlocks |-> a.wlocks, relays |-> a.relays]
    OBVIOUS
  <2> HIDE DEF a
  <2>2. \A t \in Shard : a.relays[t] = <<>>
    BY <2>1
  <2>3. <<>> \in Seq(Relay) /\ Range(<<>>) = {} /\ DOMAIN <<>> = {}
    BY DEF Range
  <2>4. a.relays \in [Shard -> Seq(Relay)]
    BY <2>1, <2>3
  <2>5. Letters(a.relays, s)
    <3>1. \A t \in Shard : DOMAIN a.relays[t] = {} /\ Range(a.relays[t]) = {}
      BY <2>2, <2>3
    <3> QED BY <3>1 DEF Letters
  <2>6. Range(a.relays[s]) = {}
    BY <2>2, <2>3
  <2>7. mine \cup Range(a.relays[s]) = mine
    BY <2>6
  <2> QED BY <2>1, <2>4, <2>5, <2>6, <2>7 DEF PreInv
<1> HIDE DEF h, n, p, a
<1>6. 0 \in G
  <2>1. Frame(st, h[0].st, s)
    BY <1>1, <1>5 DEF Frame
  <2>2. 0 \in 0 .. n
    BY <1>1
  <2> QED BY <1>1, <1>5, <2>1, <2>2
<1>7. ASSUME NEW k \in 1 .. n, k - 1 \in G PROVE k \in G
  <2> DEFINE x == h[k - 1]
             tx == q[k]
  <2>1. PreInv(x, s, got, mine) /\ Frame(st, x.st, s) /\ tx \in Tx
    BY <1>4, <1>7
  <2>2. h[k] = preExecute(x, s, tx) /\ k \in 0 .. n
    BY <1>1, <1>2
  <2> HIDE DEF x, tx
  <2>3. PreInv(preExecute(x, s, tx), s, got, mine) /\ Frame(x.st, preExecute(x, s, tx).st, s)
    BY <2>1, PreExecuted
  <2>4. Frame(st, h[k].st, s)
    BY <2>1, <2>2, <2>3, FrameTwice
  <2> QED BY <2>2, <2>3, <2>4
<1>8. n \in G
  <2>1. n \in 0 .. n
    BY <1>1
  <2> HIDE DEF G
  <2> QED BY <1>1, <1>6, <1>7, <2>1, Induct
<1> QED BY <1>3, <1>8

-----------------------------------------------------------------------------
(* A block of a shard. *)

\* The relays that a shard has sent are in one place of one block each.
LEMMA Mailed ==
    ASSUME BankInv, NEW c \in Shard, NEW s \in Shard, NEW w \in 1 .. height(c)
    PROVE  /\ height(c) \in Nat /\ out[c] \in Seq([Shard -> Seq(Relay)])
           /\ out[c][w][s] \in Seq(Relay)
           /\ \A r \in Range(out[c][w][s]) : /\ IsRelay(r, c, s) /\ r \in Range(out[c][w][c])
                                             /\ r \in Mine(c)
           /\ \A i, j \in DOMAIN out[c][w][s] : out[c][w][s][i].tx = out[c][w][s][j].tx => i = j
           /\ \A u \in 1 .. height(c) : u # w =>
                  \A q \in Range(out[c][u][s]), r \in Range(out[c][w][s]) : q.tx # r.tx
<1>1. out[c] \in Seq([Shard -> Seq(Relay)])
  BY DEF BankInv
<1>2. height(c) \in Nat /\ DOMAIN out[c] = 1 .. height(c)
  BY <1>1, LenProperties DEF height
<1>3. out[c][w] \in [Shard -> Seq(Relay)]
  <2> DEFINE o == out[c]
  <2>1. o \in Seq([Shard -> Seq(Relay)]) /\ w \in 1 .. Len(o)
    BY <1>1 DEF height
  <2> HIDE DEF o
  <2>2. o[w] \in [Shard -> Seq(Relay)]
    BY <2>1, ElementOfSeq
  <2> QED BY <2>2 DEF o
<1>4. /\ \A i, j \in DOMAIN out[c][w][s] : out[c][w][s][i].tx = out[c][w][s][j].tx => i = j
      /\ Range(out[c][w][s]) = {r \in Range(out[c][w][c]) : s \in Shards(r.tx)}
  BY DEF BankInv, MailInv
<1>5. \A r \in Range(out[c][w][c]) : r \in Mine(c)
  BY DEF Mine
<1>6. \A r \in Mine(c) : IsRelay(r, c, c)
  BY DEF BankInv, ShardInv, MineInv
<1>7. ASSUME NEW r \in Range(out[c][w][s]) PROVE IsRelay(r, c, s)
  <2>1. r \in Range(out[c][w][c]) /\ s \in Shards(r.tx)
    BY <1>4
  <2>2. IsRelay(r, c, c)
    BY <1>5, <1>6, <2>1
  <2> QED BY <2>1, <2>2 DEF IsRelay
<1>8. ASSUME NEW u \in 1 .. height(c), u # w,
             NEW q \in Range(out[c][u][s]), NEW r \in Range(out[c][w][s])
      PROVE  q.tx # r.tx
  <2>1. Range(out[c][u][s]) = {z \in Range(out[c][u][c]) : s \in Shards(z.tx)}
    BY DEF BankInv, MailInv
  <2>2. q \in Range(out[c][u][c]) /\ r \in Range(out[c][w][c])
    BY <1>4, <2>1
  <2>3. \A y \in Range(out[c][u][c]), z \in Range(out[c][w][c]) : y.tx # z.tx
    BY <1>8 DEF BankInv, MailInv
  <2> QED BY <2>2, <2>3
<1> QED BY <1>1, <1>2, <1>3, <1>4, <1>5, <1>7, <1>8

\* What s has executed after its next block.
NextGot(s) == [c \in Shard |-> Got(s)[c] \cup IF height(s) + 1 > RelayDelay
                                             THEN Range(out[c][(height(s) + 1) - RelayDelay][s]) ELSE {}]

\* The CTXS of the next block of s are news.
LEMMA CtxsNews ==
    ASSUME BankInv, NEW s \in Shard, \A t \in Shard : height(s) <= height(t),
           NEW i \in DOMAIN ShardIDList
    PROVE  /\ CTXS(s, height(s) + 1)[i] \in Seq(Relay)
           /\ News(CTXS(s, height(s) + 1)[i], ShardIDList[i], s, Got(s), Mine(s))
           /\ NextGot(s)[ShardIDList[i]]
                = Got(s)[ShardIDList[i]] \cup Range(CTXS(s, height(s) + 1)[i])
<1> DEFINE n == height(s)
           c == ShardIDList[i]
           w == (n + 1) - 4
           q == CTXS(s, n + 1)[i]
<1>1. c \in Shard
  BY DEF Shard, Range
<1>2. q = IF n + 1 > 4 THEN out[c][w][s] ELSE <<>>
  BY DEF CTXS, RelayDelay
<1>3. NextGot(s)[c] = Got(s)[c] \cup IF n + 1 > 4 THEN Range(out[c][w][s]) ELSE {}
  BY <1>1 DEF NextGot, RelayDelay
<1>4. n \in Nat /\ height(c) \in Nat /\ n <= height(c)
  <2>1. out[s] \in Seq([Shard -> Seq(Relay)]) /\ out[c] \in Seq([Shard -> Seq(Relay)])
    BY <1>1 DEF BankInv
  <2> QED BY <1>1, <2>1, LenProperties DEF height
<1> HIDE DEF q, c
<1>5. CASE ~(n + 1 > 4)
  <2>1. q = <<>>
    BY <1>2, <1>5
  <2>2. DOMAIN <<>> = {} /\ Range(<<>>) = {} /\ <<>> \in Seq(Relay)
    BY DEF Range
  <2>3. News(q, c, s, Got(s), Mine(s))
    BY <2>1, <2>2 DEF News
  <2>4. NextGot(s)[c] = Got(s)[c] \cup Range(q)
    BY <1>3, <1>5, <2>1, <2>2
  <2> QED BY <2>1, <2>2, <2>3, <2>4 DEF q, c
<1>6. CASE n + 1 > 4
  <2>1. w \in 1 .. height(c) /\ q = out[c][w][s]
    BY <1>2, <1>4, <1>6
  <2> HIDE DEF w, n
  <2>2. /\ q \in Seq(Relay)
        /\ \A r \in Range(q) : IsRelay(r, c, s) /\ r \in Mine(c)
        /\ \A k, j \in DOMAIN q : q[k].tx = q[j].tx => k = j
        /\ \A u \in 1 .. height(c) : u # w =>
               \A g \in Range(out[c][u][s]), r \in Range(q) : g.tx # r.tx
    BY <1>1, <2>1, Mailed
  <2>3. ASSUME NEW g \in Got(s)[c], NEW r \in Range(q) PROVE g.tx # r.tx
    <3>1. PICK u \in {z \in 1 .. height(c) : z + RelayDelay <= height(s)} : g \in Range(out[c][u][s])
      BY <1>1 DEF Got
    <3>2. u \in 1 .. height(c) /\ u # w
      BY <1>4, <3>1 DEF RelayDelay, w, n
    <3> QED BY <2>2, <3>1, <3>2
  <2>4. \A k \in DOMAIN q : q[k] \in Range(q)
    BY DEF Range
  <2>5. News(q, c, s, Got(s), Mine(s))
    BY <2>2, <2>3, <2>4 DEF News
  <2>6. NextGot(s)[c] = Got(s)[c] \cup Range(q)
    BY <1>3, <1>6, <2>1
  <2> QED BY <2>2, <2>5, <2>6 DEF q, c, n
<1> QED BY <1>5, <1>6

\* A shard is not disturbed by what happens to the accounts of others.
LEMMA Undisturbed ==
    ASSUME NEW st, NEW t \in Shard, NEW got, NEW mine, ShardInv(st, t, got, mine),
           NEW x, IsState(x), x.sets = st.sets, x.undo = st.undo, x.applied = st.applied,
           \A k \in Account : Home[k] = t => /\ x.money[k] = st.money[k]
                                             /\ k \in x.wlocked <=> k \in st.wlocked
    PROVE  ShardInv(x, t, got, mine)
<1>0. /\ GotInv(t, got, mine) /\ MineInv(st, t, mine) /\ UndoInv(st, t, got)
      /\ SetInv(st) /\ LockInv(st, t, got, mine) /\ OnceInv(st, t, got) /\ LateInv(st, t, got)
      /\ BooksInv(st, t)
  BY DEF ShardInv
<1>1. MineInv(x, t, mine) /\ UndoInv(x, t, got) /\ SetInv(x)
  BY <1>0 DEF MineInv, UndoInv, SetInv
<1>2. OnceInv(x, t, got) /\ LateInv(x, t, got)
  BY <1>0 DEF OnceInv, LateInv, Decisive
<1>3. ASSUME NEW r \in mine, NEW k \in DOMAIN r.data PROVE k \in Account /\ Home[k] = t
  <2>1. IsRelay(r, t, t)
    BY <1>0 DEF MineInv
  <2> QED BY <2>1, RelayData, TxShards
<1>4. LockInv(x, t, got, mine)
  BY <1>0, <1>3 DEF LockInv
<1>5. BooksInv(x, t)
  BY <1>0 DEF BooksInv
<1> QED BY <1>0, <1>1, <1>2, <1>4, <1>5 DEF ShardInv

\* What a block leaves behind: acc, with the shard's state in it and the relays to send.
Block(s, acc) ==
    /\ PreInv(acc, s, NextGot(s), Mine(s)) /\ Frame(local(s), acc.st, s)
    /\ \A t \in Shard : height(s) <= height(t)
    /\ money' = acc.st.money /\ wlocked' = acc.st.wlocked
    /\ sets' = [sets EXCEPT ![s] = acc.st.sets]
    /\ undo' = [undo EXCEPT ![s] = acc.st.undo]
    /\ applied' = [applied EXCEPT ![s] = acc.st.applied]
    /\ out' = [out EXCEPT ![s] = Append(@, acc.relays)]

\* Relays, transfers and pre-execution, one after the other.
LEMMA BlockExecuted ==
    ASSUME BankInv, NEW s \in Shard, NEW txs \in Seq(Tx), NEW cross \in Seq(Tx),
           Execution(s, txs, cross)
    PROVE  \E acc : Block(s, acc)
<1> DEFINE v == height(s) + 1
           a == local(s)
           x == executeCTXS(a, s, v)
           y == FoldLeft(LAMBDA st, tx : execute(st, s, tx), x, txs)
           acc == preExecution(y, s, cross)
           next == NextGot(s)
           got == Got(s)
           mine == Mine(s)
<1>1. /\ \A t \in Shard : height(s) <= height(t)
      /\ money' = acc.st.money /\ wlocked' = acc.st.wlocked
      /\ sets' = [sets EXCEPT ![s] = acc.st.sets]
      /\ undo' = [undo EXCEPT ![s] = acc.st.undo]
      /\ applied' = [applied EXCEPT ![s] = acc.st.applied]
      /\ out' = [out EXCEPT ![s] = Append(@, acc.relays)]
  BY DEF Execution
<1>2. ShardInv(a, s, got, mine)
  BY DEF BankInv
<1>3. got = [u \in Shard |-> got[u]] /\ next = [u \in Shard |-> next[u]]
  BY DEF Got, NextGot
<1>4. Arrive(s, v, got, next, mine)
  BY <1>1, CtxsNews DEF Arrive
<1> HIDE DEF a, v, got, next, mine
<1>5. ShardInv(x, s, next, mine) /\ Frame(a, x, s)
  BY <1>2, <1>3, <1>4, RelaysOfAll
<1> HIDE DEF x
<1>6. ShardInv(y, s, next, mine) /\ Frame(x, y, s)
  BY <1>5, ExecutedAll
<1> HIDE DEF y
<1>7. PreInv(acc, s, next, mine) /\ Frame(y, acc.st, s)
  BY <1>6, PreExecutedAll
<1> HIDE DEF acc
<1>8. Frame(a, acc.st, s)
  BY <1>5, <1>6, <1>7, FrameTwice
<1> QED BY <1>1, <1>7, <1>8 DEF Block, a, next, mine

\* The outputs of s are one block longer.
LEMMA Longer ==
    ASSUME BankInv, NEW s \in Shard, NEW acc, Block(s, acc)
    PROVE  /\ out' \in [Shard -> Seq([Shard -> Seq(Relay)])]
           /\ \A t \in Shard : height(t) \in Nat
           /\ height(s)' = height(s) + 1 /\ out'[s][height(s) + 1] = acc.relays
           /\ \A w \in 1 .. height(s) : out'[s][w] = out[s][w]
           /\ \A t \in Shard : t # s => out'[t] = out[t] /\ height(t)' = height(t)
<1> DEFINE R == [Shard -> Seq(Relay)]
           o == out[s]
           b == acc.relays
           n == Len(o)
<1>1. out \in [Shard -> Seq(R)] /\ b \in R /\ out' = [out EXCEPT ![s] = Append(@, acc.relays)]
  BY DEF BankInv, Block, PreInv
<1>2. o \in Seq(R)
  BY <1>1
<1>3. out'[s] = Append(o, b) /\ \A t \in Shard : t # s => out'[t] = out[t]
  BY <1>1
<1> HIDE DEF R, o, b, n
<1>4. /\ Append(o, b) \in Seq(R) /\ Len(Append(o, b)) = n + 1 /\ n \in Nat
      /\ \A w \in 1 .. n : Append(o, b)[w] = o[w]
      /\ Append(o, b)[n + 1] = b
  BY <1>1, <1>2, AppendProperties, LenProperties DEF n
<1>5. out' \in [Shard -> Seq(R)]
  <2>1. out' = [out EXCEPT ![s] = Append(o, b)]
    BY <1>1 DEF o, b
  <2> QED BY <1>1, <1>4, <2>1
<1>6. n = height(s) /\ height(s)' = Len(out'[s])
  BY DEF height, n, o
<1>7. \A t \in Shard : height(t) \in Nat
  <2> SUFFICES ASSUME NEW t \in Shard PROVE Len(out[t]) \in Nat
    BY DEF height
  <2>1. out[t] \in Seq(R)
    BY <1>1
  <2> QED BY <2>1, LenProperties
<1>8. \A t \in Shard : t # s => height(t)' = height(t)
  BY <1>3 DEF height
<1>9. height(s)' = height(s) + 1
  BY <1>3, <1>4, <1>6
<1>10. out'[s][height(s) + 1] = acc.relays
  BY <1>3, <1>4, <1>6 DEF b
<1>11. \A w \in 1 .. height(s) : out'[s][w] = out[s][w]
  BY <1>3, <1>4, <1>6 DEF o
<1> QED BY <1>3, <1>5, <1>7, <1>8, <1>9, <1>10, <1>11 DEF R

\* Every shard has then executed what it should, and s has sent its relays.
LEMMA MailNext ==
    ASSUME BankInv, NEW s \in Shard, NEW acc, Block(s, acc)
    PROVE  /\ Got(s)' = NextGot(s)
           /\ Mine(s)' = Mine(s) \cup Range(acc.relays[s])
           /\ \A t \in Shard : t # s => Got(t)' = Got(t) /\ Mine(t)' = Mine(t)
<1> DEFINE n == height(s)
<1>1. /\ \A t \in Shard : height(t) \in Nat
      /\ height(s)' = n + 1 /\ out'[s][n + 1] = acc.relays
      /\ \A w \in 1 .. n : out'[s][w] = out[s][w]
      /\ \A t \in Shard : t # s => out'[t] = out[t] /\ height(t)' = height(t)
  BY Longer
<1>2. /\ \A t \in Shard : n <= height(t) /\ height(t) <= n + 1
  BY DEF Block, BankInv, HeightInv
<1> DEFINE Old(c, t) == {w \in 1 .. height(c) : w + RelayDelay <= height(t)}
           New(c, t) == {w \in 1 .. height(c)' : w + RelayDelay <= height(t)'}
<1>3. ASSUME NEW c \in Shard, NEW t \in Shard, NEW w \in New(c, t)
      PROVE  w \in 1 .. height(c) /\ w <= n /\ out'[c][w] = out[c][w]
  <2>1. w \in 1 .. height(c)' /\ w + 4 <= height(t)'
    BY <1>3 DEF RelayDelay
  <2>2. height(t)' <= n + 1 /\ height(t)' \in Nat /\ height(c) \in Nat /\ n <= height(c) /\ n \in Nat
    BY <1>1, <1>2
  <2>3. w \in 1 .. height(c) /\ w <= n
    <3>1. height(c)' = height(c) \/ height(c)' = height(c) + 1
      BY <1>1
    <3> QED BY <2>1, <2>2, <3>1
  <2>4. out'[c][w] = out[c][w]
    <3>1. CASE c = s
      BY <1>1, <2>3, <3>1
    <3>2. CASE c # s
      BY <1>1, <3>2
    <3> QED BY <3>1, <3>2
  <2> QED BY <2>3, <2>4
<1>4. ASSUME NEW t \in Shard, t # s PROVE Got(t)' = Got(t)
  <2>1. ASSUME NEW c \in Shard
        PROVE  UNION {Range(out'[c][w][t]) : w \in New(c, t)} = UNION {Range(out[c][w][t]) : w \in Old(c, t)}
    <3>1. height(t)' = height(t) /\ height(c) \in Nat /\ (height(c)' = height(c) \/ height(c)' = height(c) + 1)
      BY <1>1, <1>4
    <3>2. New(c, t) = Old(c, t)
      <4>1. \A w \in New(c, t) : w \in Old(c, t)
        BY <1>3, <3>1
      <4>2. \A w \in Old(c, t) : w \in New(c, t)
        BY <3>1
      <4> QED BY <4>1, <4>2
    <3>3. \A w \in New(c, t) : out'[c][w] = out[c][w]
      BY <1>3
    <3> HIDE DEF New, Old
    <3>4. \A w \in Old(c, t) : Range(out'[c][w][t]) = Range(out[c][w][t])
      BY <3>2, <3>3
    <3> QED BY <3>2, <3>4
  <2>2. /\ Got(t)' = [c \in Shard |-> UNION {Range(out'[c][w][t]) : w \in New(c, t)}]
        /\ Got(t) = [c \in Shard |-> UNION {Range(out[c][w][t]) : w \in Old(c, t)}]
    BY DEF Got
  <2> HIDE DEF New, Old
  <2> QED BY <2>1, <2>2
<1>5. Got(s)' = NextGot(s)
  <2>1. ASSUME NEW c \in Shard
        PROVE  UNION {Range(out'[c][w][s]) : w \in New(c, s)}
               = (UNION {Range(out[c][w][s]) : w \in Old(c, s)})
                 \cup IF n + 1 > RelayDelay THEN Range(out[c][(n + 1) - RelayDelay][s]) ELSE {}
    <3>1. /\ height(s)' = n + 1 /\ height(c) \in Nat /\ n \in Nat /\ n <= height(c)
          /\ height(c)' = height(c) \/ height(c)' = height(c) + 1
      BY <1>1, <1>2
    <3>2. New(c, s) = Old(c, s) \cup IF n + 1 > 4 THEN {(n + 1) - 4} ELSE {}
      <4>1. ASSUME NEW w \in New(c, s) PROVE w \in Old(c, s) \/ (n + 1 > 4 /\ w = (n + 1) - 4)
        <5>1. w \in 1 .. height(c)
          BY <1>3
        <5>2. w + 4 <= n + 1
          BY <3>1 DEF RelayDelay
        <5> QED BY <3>1, <5>1, <5>2 DEF RelayDelay
      <4>2. ASSUME NEW w \in Old(c, s) PROVE w \in New(c, s)
        BY <3>1 DEF RelayDelay
      <4>3. ASSUME n + 1 > 4 PROVE (n + 1) - 4 \in New(c, s)
        BY <3>1, <4>3 DEF RelayDelay
      <4> HIDE DEF New, Old, n
      <4> QED BY <4>1, <4>2, <4>3
    <3>3. \A w \in New(c, s) : out'[c][w] = out[c][w]
      BY <1>3
    <3> HIDE DEF New, Old
    <3>4. UNION {Range(out'[c][w][s]) : w \in New(c, s)} = UNION {Range(out[c][w][s]) : w \in New(c, s)}
      <4>1. \A w \in New(c, s) : Range(out'[c][w][s]) = Range(out[c][w][s])
        BY <3>3
      <4> QED BY <4>1
    <3>5. RelayDelay = 4
      BY DEF RelayDelay
    <3>6. CASE n + 1 > 4
      <4> DEFINE m == (n + 1) - 4
      <4>1. New(c, s) = Old(c, s) \cup {m}
        BY <3>2, <3>6
      <4> HIDE DEF m
      <4>2. UNION {Range(out[c][w][s]) : w \in New(c, s)}
            = (UNION {Range(out[c][w][s]) : w \in Old(c, s)}) \cup Range(out[c][m][s])
        <5> DEFINE f(w) == Range(out[c][w][s])
                   U == New(c, s)
                   V == Old(c, s)
        <5>1. U = V \cup {m}
          BY <4>1
        <5> HIDE DEF f, U, V
        <5>2. \A y : y \in UNION {f(w) : w \in U} <=> y \in (UNION {f(w) : w \in V}) \cup f(m)
          BY <5>1
        <5>3. UNION {f(w) : w \in U} = (UNION {f(w) : w \in V}) \cup f(m)
          BY <5>2
        <5> QED BY <5>3 DEF f, U, V
      <4> QED BY <3>4, <3>5, <3>6, <4>2 DEF m
    <3>7. CASE ~(n + 1 > 4)
      <4>1. New(c, s) = Old(c, s)
        BY <3>2, <3>7
      <4> QED BY <3>4, <3>5, <3>7, <4>1
    <3> QED BY <3>6, <3>7
  <2>2. Got(s)' = [c \in Shard |-> UNION {Range(out'[c][w][s]) : w \in New(c, s)}]
    BY DEF Got
  <2>3. \A c \in Shard : Got(s)[c] = UNION {Range(out[c][w][s]) : w \in Old(c, s)}
    BY DEF Got
  <2>4. NextGot(s) = [c \in Shard |-> Got(s)[c] \cup IF n + 1 > RelayDelay
                                                   THEN Range(out[c][(n + 1) - RelayDelay][s]) ELSE {}]
    BY DEF NextGot
  <2> DEFINE a(c) == UNION {Range(out'[c][w][s]) : w \in New(c, s)}
             b(c) == Got(s)[c] \cup IF n + 1 > RelayDelay
                                    THEN Range(out[c][(n + 1) - RelayDelay][s]) ELSE {}
  <2>5. \A c \in Shard : a(c) = b(c)
    BY <2>1, <2>3
  <2>6. Got(s)' = [c \in Shard |-> a(c)] /\ NextGot(s) = [c \in Shard |-> b(c)]
    BY <2>2, <2>4
  <2> HIDE DEF a, b
  <2> QED BY <2>5, <2>6
<1>6. Mine(s)' = Mine(s) \cup Range(acc.relays[s])
  <2>1. Mine(s)' = UNION {Range(out'[s][w][s]) : w \in 1 .. (n + 1)}
    BY <1>1 DEF Mine
  <2>2. 1 .. (n + 1) = (1 .. n) \cup {n + 1}
    BY <1>1
  <2>3. \A w \in 1 .. n : Range(out'[s][w][s]) = Range(out[s][w][s])
    BY <1>1
  <2>4. Range(out'[s][n + 1][s]) = Range(acc.relays[s])
    BY <1>1
  <2> DEFINE U == 1 .. n
             V == 1 .. (n + 1)
             m == n + 1
  <2>5. /\ Mine(s)' = UNION {Range(out'[s][w][s]) : w \in V} /\ V = U \cup {m}
        /\ \A w \in U : Range(out'[s][w][s]) = Range(out[s][w][s])
        /\ Range(out'[s][m][s]) = Range(acc.relays[s])
        /\ Mine(s) = UNION {Range(out[s][w][s]) : w \in U}
    BY <2>1, <2>2, <2>3, <2>4 DEF Mine
  <2> HIDE DEF U, V, m
  <2>6. \A y : y \in Mine(s)' <=> y \in Mine(s) \cup Range(acc.relays[s])
    BY <2>5
  <2> QED BY <2>6
<1>7. ASSUME NEW t \in Shard, t # s PROVE Mine(t)' = Mine(t)
  BY <1>1, <1>7 DEF Mine
<1> QED BY <1>4, <1>5, <1>6, <1>7


\* No shard is then more than a block ahead.
LEMMA HeightNext ==
    ASSUME BankInv, NEW s \in Shard, NEW acc, Block(s, acc)
    PROVE  HeightInv'
<1>1. /\ \A t \in Shard : height(t) \in Nat
      /\ height(s)' = height(s) + 1
      /\ \A t \in Shard : t # s => height(t)' = height(t)
  BY Longer
<1>2. \A t \in Shard : height(s) <= height(t)
  BY DEF Block
<1>3. \A t, u \in Shard : height(t) <= height(u) + 1
  BY DEF BankInv, HeightInv
<1> SUFFICES ASSUME NEW t \in Shard, NEW u \in Shard PROVE height(t)' <= height(u)' + 1
  BY DEF HeightInv
<1> QED BY <1>1, <1>2, <1>3

\* The new block has one relay for a transfer, and none for an earlier one.
LEMMA MailInvNext ==
    ASSUME BankInv, NEW s \in Shard, NEW acc, Block(s, acc)
    PROVE  MailInv'
<1> DEFINE n == height(s)
           Post(o, t) == /\ \A i, j \in DOMAIN o[t] : o[t][i].tx = o[t][j].tx => i = j
           Same(o, c, t) == Range(o[t]) = {r \in Range(o[c]) : t \in Shards(r.tx)}
           Apart(o, p, c) == \A r \in Range(o[c]), q \in Range(p[c]) : r.tx # q.tx
<1>1. /\ n \in Nat
      /\ height(s)' = n + 1 /\ out'[s][n + 1] = acc.relays
      /\ \A w \in 1 .. n : out'[s][w] = out[s][w]
      /\ \A t \in Shard : t # s => out'[t] = out[t] /\ height(t)' = height(t)
  BY Longer
<1>2. \A c \in Shard : \A v \in 1 .. height(c) :
          /\ \A t \in Shard : Post(out[c][v], t) /\ Same(out[c][v], c, t)
          /\ \A w \in 1 .. height(c) : w # v => Apart(out[c][v], out[c][w], c)
  BY DEF BankInv, MailInv
<1>3. \A t \in Shard : Post(acc.relays, t) /\ Same(acc.relays, s, t)
  BY DEF Block, PreInv, Letters
<1>4. ASSUME NEW w \in 1 .. n PROVE Apart(acc.relays, out[s][w], s) /\ Apart(out[s][w], acc.relays, s)
  <2>1. \A r \in Range(acc.relays[s]), q \in Mine(s) : r.tx # q.tx
    BY DEF Block, PreInv
  <2>2. Range(out[s][w][s]) \subseteq Mine(s)
    BY DEF Mine
  <2> QED BY <2>1, <2>2
<1>5. MailInv' <=> \A c \in Shard : \A v \in 1 .. height(c)' :
          /\ \A t \in Shard : Post(out'[c][v], t) /\ Same(out'[c][v], c, t)
          /\ \A w \in 1 .. height(c)' : w # v => Apart(out'[c][v], out'[c][w], c)
  BY DEF MailInv
<1> HIDE DEF Post, Same, Apart, n
<1> SUFFICES ASSUME NEW c \in Shard, NEW v \in 1 .. height(c)'
             PROVE  /\ \A t \in Shard : Post(out'[c][v], t) /\ Same(out'[c][v], c, t)
                    /\ \A w \in 1 .. height(c)' : w # v => Apart(out'[c][v], out'[c][w], c)
  BY <1>5
<1>6. CASE c # s
  BY <1>1, <1>2, <1>6
<1>7. CASE c = s
  <2>1. v \in 1 .. (n + 1)
    BY <1>1, <1>7
  <2>2. \A w \in 1 .. (n + 1) : w \in 1 .. n \/ w = n + 1
    BY <1>1
  <2>3. n = height(s)
    BY DEF n
  <2>4. ASSUME NEW t \in Shard PROVE Post(out'[s][v], t) /\ Same(out'[s][v], s, t)
    BY <1>1, <1>2, <1>3, <2>1, <2>2, <2>3
  <2>5. ASSUME NEW w \in 1 .. (n + 1), w # v PROVE Apart(out'[s][v], out'[s][w], s)
    <3>1. CASE v \in 1 .. n /\ w \in 1 .. n
      BY <1>1, <1>2, <2>3, <2>5, <3>1
    <3>2. CASE v \in 1 .. n /\ w = n + 1
      BY <1>1, <1>4, <3>2
    <3>3. CASE v = n + 1 /\ w \in 1 .. n
      BY <1>1, <1>4, <3>3
    <3> QED BY <2>1, <2>2, <2>5, <3>1, <3>2, <3>3
  <2> QED BY <1>1, <1>7, <2>4, <2>5
<1> QED BY <1>6, <1>7

\* s is as its execution left it, and no other shard is disturbed.
LEMMA ShardsNext ==
    ASSUME BankInv, NEW s \in Shard, NEW acc, Block(s, acc), NEW t \in Shard
    PROVE  ShardInv(local(t)', t, Got(t)', Mine(t)')
<1> DEFINE st == acc.st
           x == local(t)'
<1>1. ShardInv(st, s, NextGot(s), Mine(s) \cup Range(acc.relays[s])) /\ Frame(local(s), st, s)
  BY DEF Block, PreInv
<1>2. IsState(st)
  BY <1>1 DEF ShardInv
<1>3. /\ money' = st.money /\ wlocked' = st.wlocked
      /\ sets' = [sets EXCEPT ![s] = st.sets]
      /\ undo' = [undo EXCEPT ![s] = st.undo]
      /\ applied' = [applied EXCEPT ![s] = st.applied]
      /\ DOMAIN sets = Shard /\ DOMAIN undo = Shard /\ DOMAIN applied = Shard
  BY DEF Block, BankInv
<1>4. x = [money |-> money', wlocked |-> wlocked', sets |-> sets'[t],
           undo |-> undo'[t], applied |-> applied'[t]]
  BY DEF local
<1>5. CASE t = s
  <2>1. sets'[s] = st.sets /\ undo'[s] = st.undo /\ applied'[s] = st.applied
    BY <1>3
  <2>2. x = st
    BY <1>2, <1>3, <1>4, <1>5, <2>1, Zenon DEF IsState
  <2>3. Got(s)' = NextGot(s) /\ Mine(s)' = Mine(s) \cup Range(acc.relays[s])
    BY MailNext
  <2> HIDE DEF x, st
  <2>4. ShardInv(x, t, NextGot(s), Mine(s) \cup Range(acc.relays[s]))
    BY <1>1, <1>5, <2>2
  <2>5. Got(t)' = NextGot(s) /\ Mine(t)' = Mine(s) \cup Range(acc.relays[s])
    BY <1>5, <2>3
  <2> QED BY <2>4, <2>5 DEF x
<1>6. CASE t # s
  <2>1. sets'[t] = sets[t] /\ undo'[t] = undo[t] /\ applied'[t] = applied[t]
    BY <1>3, <1>6
  <2>2. /\ x = [money |-> x.money, wlocked |-> x.wlocked, sets |-> x.sets,
                undo |-> x.undo, applied |-> x.applied]
        /\ x.money = st.money /\ x.wlocked = st.wlocked
        /\ x.sets = sets[t] /\ x.undo = undo[t] /\ x.applied = applied[t]
    BY <1>3, <1>4, <2>1
  <2> DEFINE y == local(t)
             z == local(s)
  <2>3. /\ y.money = money /\ y.wlocked = wlocked /\ z.money = money /\ z.wlocked = wlocked
        /\ y.sets = sets[t] /\ y.undo = undo[t] /\ y.applied = applied[t]
    BY DEF local
  <2>4. ShardInv(y, t, Got(t), Mine(t))
    BY DEF BankInv
  <2>5. \A k \in Account : Home[k] # s => /\ st.money[k] = z.money[k]
                                          /\ k \in st.wlocked <=> k \in z.wlocked
    BY <1>1 DEF Frame
  <2>6. Got(t)' = Got(t) /\ Mine(t)' = Mine(t)
    BY <1>6, MailNext
  <2> HIDE DEF x, y, z, st
  <2>7. IsState(y)
    BY <2>4 DEF ShardInv
  <2>8. IsState(x)
    BY <1>2, <2>2, <2>3, <2>7 DEF IsState
  <2>9. \A k \in Account : Home[k] = t => /\ x.money[k] = y.money[k]
                                          /\ k \in x.wlocked <=> k \in y.wlocked
    BY <1>6, <2>2, <2>3, <2>5
  <2>10. ShardInv(x, t, Got(t), Mine(t))
    BY <2>2, <2>3, <2>4, <2>8, <2>9, Undisturbed
  <2> QED BY <2>6, <2>10 DEF x
<1> QED BY <1>5, <1>6

\* A block keeps the invariant.
LEMMA BlockBank ==
    ASSUME BankInv, NEW s \in Shard, NEW acc, Block(s, acc)
    PROVE  BankInv'
<1>1. out' \in [Shard -> Seq([Shard -> Seq(Relay)])]
  BY Longer
<1>2. DOMAIN sets' = Shard /\ DOMAIN undo' = Shard /\ DOMAIN applied' = Shard
  BY DEF Block, BankInv
<1>3. HeightInv' /\ MailInv'
  BY HeightNext, MailInvNext
<1>4. wlocked' \subseteq Account
  BY DEF Block, PreInv, ShardInv, IsState
<1>5. \A t \in Shard : ShardInv(local(t)', t, Got(t)', Mine(t)')
  BY ShardsNext
<1> QED BY <1>1, <1>2, <1>3, <1>4, <1>5 DEF BankInv

\* Blocks carry transfers.
LEMMA BlockTxs == \A S \in SUBSET Tx : \A v : Blocks(S, v) \subseteq Seq(Tx)
<1> SUFFICES ASSUME NEW S \in SUBSET Tx, NEW v, NEW b \in Blocks(S, v) PROVE b \in Seq(Tx)
  OBVIOUS
<1>1. b = <<>> \/ (\E x \in S : b = <<x>>) \/ (\E x, y \in S : b = <<x, y>>)
  BY DEF Blocks
<1>2. CASE b = <<>>
  BY <1>2
<1>3. CASE \E x \in S : b = <<x>>
  BY <1>3
<1>4. CASE \E x, y \in S : b = <<x, y>>
  BY <1>4
<1> QED BY <1>1, <1>2, <1>3, <1>4

\* The first state satisfies the invariant.
LEMMA InitBank == Init => BankInv
<1> SUFFICES ASSUME Init PROVE BankInv
  OBVIOUS
<1>1. /\ money   = [k \in Account |-> InitBalance] /\ wlocked = {}
      /\ sets    = [s \in Shard |-> [tx \in Tx |-> Nil]]
      /\ undo    = [s \in Shard |-> [tx \in Tx |-> <<>>]]
      /\ out     = [s \in Shard |-> <<>>]
      /\ applied = [s \in Shard |-> [tx \in Tx |-> 0]]
  BY DEF Init
<1>2. out \in [Shard -> Seq([Shard -> Seq(Relay)])]
  BY <1>1
<1>3. \A s \in Shard : height(s) = 0
  BY <1>1 DEF height
<1>4. HeightInv /\ MailInv
  BY <1>3 DEF HeightInv, MailInv
<1>5. DOMAIN sets = Shard /\ DOMAIN undo = Shard /\ DOMAIN applied = Shard
  BY <1>1
<1>6. ASSUME NEW s \in Shard PROVE ShardInv(local(s), s, Got(s), Mine(s))
  <2> DEFINE st == local(s)
             got == Got(s)
             mine == Mine(s)
  <2>1. mine = {}
    BY <1>3 DEF Mine
  <2>2. \A c \in Shard : got[c] = {}
    BY <1>3 DEF Got
  <2>3. /\ st.money = [k \in Account |-> InitBalance] /\ st.wlocked = {}
        /\ st.sets = [tx \in Tx |-> Nil] /\ st.undo = [tx \in Tx |-> <<>>]
        /\ st.applied = [tx \in Tx |-> 0]
        /\ st = [money |-> st.money, wlocked |-> st.wlocked, sets |-> st.sets,
                 undo |-> st.undo, applied |-> st.applied]
    BY <1>1 DEF local
  <2> HIDE DEF st, got, mine
  <2>4. InitBalance \in Money
    BY BalanceAssumption DEF Money
  <2>5. IsState(st)
    BY <2>3, <2>4 DEF IsState
  <2>6. GotInv(s, got, mine) /\ MineInv(st, s, mine)
    BY <2>1, <2>2, <2>3 DEF GotInv, MineInv
  <2>7. UndoInv(st, s, got) /\ SetInv(st)
    BY <2>2, <2>3 DEF UndoInv, SetInv
  <2>8. LockInv(st, s, got, mine)
    BY <2>1, <2>3 DEF LockInv
  <2>9. OnceInv(st, s, got) /\ LateInv(st, s, got)
    BY <2>2, <2>3 DEF OnceInv, LateInv
  <2>10. ASSUME NEW k \in Account PROVE Net(st.applied, k) = 0
    <3> DEFINE f == [tx \in Valid |-> st.applied[tx] * Change(tx, k)]
    <3>1. Net(st.applied, k) = SumOf(f, Valid)
      BY NetIs
    <3>2. ASSUME NEW tx \in Valid PROVE f[tx] = 0
      <4>1. st.applied[tx] = 0 /\ tx \in Tx /\ ValidateTransferTx(tx)
        BY <2>3 DEF Valid
      <4>2. amount(tx.from, tx.fromMoney, k) \in Nat /\ amount(tx.to, tx.toMoney, k) \in Nat
        BY <4>1, AmountOf
      <4>3. Change(tx, k) \in Int
        BY <4>2 DEF Change
      <4>4. f[tx] = 0 * Change(tx, k)
        BY <4>1
      <4> QED BY <4>3, <4>4
    <3>3. IsFiniteSet(Valid)
      BY FiniteAssumption, FS_Subset DEF Valid
    <3> HIDE DEF f
    <3> QED BY <3>1, <3>2, <3>3, SumZero
  <2>11. BooksInv(st, s)
    <3>1. InitBalance + 0 >= 0 /\ (InitBalance + 0) % Modulus = InitBalance
      BY BalanceAssumption
    <3> QED BY <2>3, <2>10, <3>1 DEF BooksInv
  <2> QED BY <2>5, <2>6, <2>7, <2>8, <2>9, <2>11 DEF ShardInv, st, got, mine
<1> QED BY <1>1, <1>2, <1>4, <1>5, <1>6 DEF BankInv

\* Every step keeps the invariant.
LEMMA NextBank == BankInv /\ [Next]_vars => BankInv'
<1> SUFFICES ASSUME BankInv, [Next]_vars PROVE BankInv'
  OBVIOUS
<1>1. CASE Next
  <2>1. PICK s \in Shard : \E txs \in Blocks(Mempool(s, FALSE), height(s) + 1),
                              cross \in Blocks(Mempool(s, TRUE), height(s) + 1) : Execution(s, txs, cross)
    BY <1>1 DEF Next
  <2>2. PICK txs \in Blocks(Mempool(s, FALSE), height(s) + 1),
             cross \in Blocks(Mempool(s, TRUE), height(s) + 1) : Execution(s, txs, cross)
    BY <2>1
  <2>3. Mempool(s, FALSE) \in SUBSET Tx /\ Mempool(s, TRUE) \in SUBSET Tx
    BY DEF Mempool
  <2>4. txs \in Seq(Tx) /\ cross \in Seq(Tx)
    BY <2>3, BlockTxs
  <2>5. PICK acc : Block(s, acc)
    BY <2>2, <2>4, BlockExecuted
  <2> QED BY <2>5, BlockBank
<1>2. CASE UNCHANGED vars
  <2>1. /\ money' = money /\ wlocked' = wlocked /\ sets' = sets
        /\ undo' = undo /\ out' = out /\ applied' = applied
    BY <1>2 DEF vars
  <2>2. ASSUME NEW s \in Shard
        PROVE  local(s)' = local(s) /\ Got(s)' = Got(s) /\ Mine(s)' = Mine(s)
    BY <2>1, Zenon DEF height, local, Got, Mine
  <2>3. HeightInv' /\ MailInv'
    <3>1. HeightInv' <=> HeightInv
      BY <2>1 DEF HeightInv, height
    <3>2. \A s : height(s)' = height(s)
      BY <2>1 DEF height
    <3>3. MailInv' <=> MailInv
      BY <2>1, <3>2 DEF MailInv
    <3> QED BY <3>1, <3>3 DEF BankInv
  <2>4. ASSUME NEW s \in Shard PROVE ShardInv(local(s)', s, Got(s)', Mine(s)')
    <3>1. ShardInv(local(s), s, Got(s), Mine(s))
      BY DEF BankInv
    <3> QED BY <2>2, <3>1
  <2> QED BY <2>1, <2>3, <2>4 DEF BankInv
<1> QED BY <1>1, <1>2


-----------------------------------------------------------------------------
(* What follows from the invariant. *)

\* The parts of a shard's invariant in terms of the variables.
LEMMA Parts ==
    ASSUME BankInv, NEW s \in Shard
    PROVE  /\ GotInv(s, Got(s), Mine(s)) /\ MineInv(local(s), s, Mine(s))
           /\ UndoInv(local(s), s, Got(s)) /\ SetInv(local(s))
           /\ LockInv(local(s), s, Got(s), Mine(s))
           /\ OnceInv(local(s), s, Got(s)) /\ LateInv(local(s), s, Got(s))
           /\ BooksInv(local(s), s) /\ local(s).money = money
           /\ local(s).wlocked = wlocked /\ local(s).sets = sets[s]
           /\ local(s).undo = undo[s] /\ local(s).applied = applied[s]
<1> DEFINE st == local(s)
<1>1. st.money = money /\ st.wlocked = wlocked /\ st.sets = sets[s] /\ st.undo = undo[s] /\ st.applied = applied[s]
  BY DEF local
<1> HIDE DEF st
<1>2. ShardInv(st, s, Got(s), Mine(s))
  BY DEF BankInv, st
<1> QED BY <1>1, <1>2 DEF ShardInv, st

\* A relay that s has executed is one that its sender has sent to itself too.
LEMMA Sent ==
    ASSUME BankInv, NEW s \in Shard, NEW c \in Shard, NEW r \in Got(s)[c]
    PROVE  r \in Mine(c) /\ r.tx \in Tx /\ sets[c][r.tx] # Nil
<1>1. PICK w \in {u \in 1 .. height(c) : u + RelayDelay <= height(s)} : r \in Range(out[c][w][s])
  BY DEF Got
<1>2. w \in 1 .. height(c)
  OBVIOUS
<1>3. r \in Mine(c)
  BY <1>1, <1>2, Mailed
<1>4. MineInv(local(c), c, Mine(c)) /\ local(c).sets = sets[c]
  BY Parts
<1>5. IsRelay(r, c, c) /\ sets[c][r.tx] # Nil
  BY <1>3, <1>4 DEF MineInv
<1> QED BY <1>3, <1>5 DEF IsRelay

\* Carried out only with the relays of all shards, which lock before they send.
LEMMA AllLocked == BankInv => AppliedOnlyIfAllLocked
<1> SUFFICES ASSUME BankInv, NEW s \in Shard, NEW tx \in Tx, Crosses(tx), applied[s][tx] > 0,
                    NEW t \in Shards(tx)
             PROVE  sets[t][tx] # Nil
  BY DEF AppliedOnlyIfAllLocked
<1> DEFINE st == local(s)
           got == Got(s)
<1>1. /\ OnceInv(st, s, got) /\ UndoInv(st, s, got)
      /\ st.sets = sets[s] /\ st.applied = applied[s]
  BY Parts
<1> HIDE DEF st
<1>2. applied[s][tx] \in {0, 1}
  BY <1>1 DEF OnceInv
<1>3. applied[s][tx] = 1
  BY <1>2
<1>4. sets[s][tx] # Nil /\ \E c \in Shard : Decisive(st, s, got, tx, c)
  BY <1>1, <1>3 DEF OnceInv
<1>5. PICK c \in Shard : Decisive(st, s, got, tx, c)
  BY <1>4
<1>6. t \in Shard
  BY TxShards
<1>7. CASE t = s
  BY <1>4, <1>7
<1>8. CASE t # s
  <2>1. \E r \in got[t] : r.tx = tx
    <3>1. CASE t = c
      BY <1>5, <3>1 DEF Decisive
    <3>2. CASE t # c
      <4>1. t \in DOMAIN st.undo[tx]
        BY <1>5, <1>8, <3>2 DEF Decisive
      <4> QED BY <1>1, <4>1 DEF UndoInv
    <3> QED BY <3>1, <3>2
  <2>2. PICK r \in got[t] : r.tx = tx
    BY <2>1
  <2> QED BY <1>6, <2>2, Sent
<1> QED BY <1>7, <1>8

\* A relay of s to itself is pending until s has executed it.
LEMMA StillPending ==
    ASSUME BankInv, NEW s \in Shard
    PROVE  Pending(s, s) = Mine(s) \ Got(s)[s]
<1> DEFINE n == height(s)
           Late == {w \in 1 .. n : w + RelayDelay > n}
           Early == {w \in 1 .. n : w + RelayDelay <= n}
           R(w) == Range(out[s][w][s])
<1>1. n \in Nat
  <2>1. out[s] \in Seq([Shard -> Seq(Relay)])
    BY DEF BankInv
  <2> QED BY <2>1, LenProperties DEF height
<1>2. /\ Pending(s, s) = UNION {R(w) : w \in Late}
      /\ Got(s)[s] = UNION {R(w) : w \in Early}
      /\ Mine(s) = UNION {R(w) : w \in 1 .. n}
  BY DEF Pending, Got, Mine
<1>3. \A w \in 1 .. n : w \in Late <=> w \notin Early
  BY <1>1 DEF RelayDelay
<1>4. Late \subseteq 1 .. n /\ Early \subseteq 1 .. n
  OBVIOUS
<1>5. \A v, w \in 1 .. n : v # w => \A q \in R(v), r \in R(w) : q # r
  <2> SUFFICES ASSUME NEW v \in 1 .. n, NEW w \in 1 .. n, v # w, NEW q \in R(v), NEW r \in R(w)
               PROVE  q # r
    OBVIOUS
  <2>1. q.tx # r.tx
    BY DEF BankInv, MailInv
  <2> QED BY <2>1
<1> DEFINE B == 1 .. n
<1>6. /\ \A w \in B : w \in Late <=> w \notin Early
      /\ Late \subseteq B /\ Early \subseteq B
      /\ \A v, w \in B : v # w => \A q \in R(v), r \in R(w) : q # r
      /\ Mine(s) = UNION {R(w) : w \in B}
  BY <1>2, <1>3, <1>4, <1>5
<1> HIDE DEF R, Late, Early, n, B
<1>7. \A y : y \in Pending(s, s) <=> y \in Mine(s) \ Got(s)[s]
  <2>1. ASSUME NEW y \in Pending(s, s) PROVE y \in Mine(s) /\ y \notin Got(s)[s]
    BY <1>2, <1>6, <2>1
  <2>2. ASSUME NEW y \in Mine(s), y \notin Got(s)[s] PROVE y \in Pending(s, s)
    BY <1>2, <1>6, <2>2
  <2> QED BY <2>1, <2>2
<1> QED BY <1>7

\* Locks are those of the pending relays of their shard.
LEMMA LocksMatch == BankInv => LocksMatchRelays
<1> SUFFICES ASSUME BankInv PROVE LocksMatchRelays
  OBVIOUS
<1>1. ASSUME NEW s \in Shard, NEW r \in Pending(s, s), NEW k \in DOMAIN r.data
      PROVE  k \in Account /\ Home[k] = s /\ k \in wlocked
  <2>1. r \in Mine(s) \ Got(s)[s]
    BY <1>1, StillPending
  <2>2. /\ MineInv(local(s), s, Mine(s)) /\ LockInv(local(s), s, Got(s), Mine(s))
        /\ local(s).wlocked = wlocked
    BY Parts
  <2>3. IsRelay(r, s, s)
    BY <2>1, <2>2 DEF MineInv
  <2>4. k \in Account /\ Home[k] = s
    BY <1>1, <2>3, RelayData, TxShards
  <2> QED BY <1>1, <2>1, <2>2, <2>4 DEF LockInv
<1>2. ASSUME NEW k \in wlocked
      PROVE  \E s \in Shard : \E r \in Pending(s, s) : k \in DOMAIN r.data
  <2>1. k \in Account
    BY <1>2 DEF BankInv
  <2> DEFINE s == Home[k]
  <2>2. s \in Shard
    BY <2>1, HomeAssumption
  <2>3. LockInv(local(s), s, Got(s), Mine(s)) /\ local(s).wlocked = wlocked
    BY <2>2, Parts
  <2>4. \E r \in Mine(s) \ Got(s)[s] : k \in DOMAIN r.data
    BY <1>2, <2>1, <2>3 DEF LockInv
  <2> QED BY <2>2, <2>4, StillPending
<1>3. wlocked = UNION {DOMAIN r.data : r \in UNION {Pending(s, s) : s \in Shard}}
  <2> DEFINE P == UNION {Pending(s, s) : s \in Shard}
  <2>1. \A r : r \in P <=> \E s \in Shard : r \in Pending(s, s)
    OBVIOUS
  <2> HIDE DEF P
  <2>2. \A k : k \in wlocked <=> \E r \in P : k \in DOMAIN r.data
    BY <1>1, <1>2, <2>1
  <2>3. wlocked = UNION {DOMAIN r.data : r \in P}
    BY <2>2
  <2> QED BY <2>3 DEF P
<1>4. ASSUME NEW s \in Shard, NEW q \in Pending(s, s), NEW r \in Pending(s, s), q.tx # r.tx
      PROVE  DOMAIN q.data \cap DOMAIN r.data = {}
  <2>1. q \in Mine(s) \ Got(s)[s] /\ r \in Mine(s) \ Got(s)[s] /\ q # r
    BY <1>4, StillPending
  <2>2. LockInv(local(s), s, Got(s), Mine(s))
    BY Parts
  <2> QED BY <2>1, <2>2 DEF LockInv
<1> QED BY <1>3, <1>4 DEF LocksMatchRelays

\* A transfer is carried out when all data came before the lock and is enough.
LEMMA LateLock == BankInv => LateLockApplies
<1> SUFFICES ASSUME BankInv, NEW s \in Shard, NEW v \in 1 .. height(s), NEW r \in Range(out[s][v][s]),
                    v + RelayDelay <= height(s),
                    \A t \in Shards(r.tx) \ {s} : sets[s][r.tx][t] # <<>>
             PROVE  (applied[s][r.tx] = 1) =
                      (\A i \in DOMAIN r.tx.from :
                          (IF Home[r.tx.from[i]] = s THEN r.data[r.tx.from[i]]
                           ELSE sets[s][r.tx][Home[r.tx.from[i]]][r.tx.from[i]]) >= r.tx.fromMoney[i])
  BY DEF LateLockApplies
<1> DEFINE st == local(s)
           got == Got(s)
           tx == r.tx
<1>1. /\ LateInv(st, s, got) /\ SetInv(st) /\ MineInv(st, s, Mine(s))
      /\ st.sets = sets[s] /\ st.undo = undo[s] /\ st.applied = applied[s]
  BY Parts
<1>2. r \in got[s]
  BY DEF Got
<1>3. r \in Mine(s)
  BY DEF Mine
<1>4. IsRelay(r, s, s) /\ sets[s][tx] # Nil
  BY <1>1, <1>3 DEF MineInv
<1>5. tx \in Tx
  BY <1>4 DEF IsRelay
<1> HIDE DEF st, got
<1>6. sets[s][tx] = [t \in Shards(tx) |-> IF t \in DOMAIN undo[s][tx] THEN undo[s][tx][t] ELSE <<>>]
  BY <1>1, <1>4, <1>5 DEF SetInv
<1>7. \A t \in Shards(tx) \ {s} : t \in DOMAIN undo[s][tx] /\ sets[s][tx][t] = undo[s][tx][t]
  BY <1>6
<1>8. applied[s][tx] = 1 <=> Enough(undo[s], s, r)
  BY <1>1, <1>2, <1>7 DEF LateInv
<1>9. ASSUME NEW i \in DOMAIN tx.from
      PROVE  (IF Home[tx.from[i]] = s THEN r.data[tx.from[i]] ELSE sets[s][tx][Home[tx.from[i]]][tx.from[i]])
             = (IF Home[tx.from[i]] = s THEN r.data[tx.from[i]] ELSE undo[s][tx][Home[tx.from[i]]][tx.from[i]])
  <2>1. Home[tx.from[i]] \in Shards(tx)
    BY <1>5, TxKeys, TxShards
  <2> QED BY <1>7, <2>1
<1> QED BY <1>8, <1>9 DEF Enough


-----------------------------------------------------------------------------
\* The inductive invariant holds: in every shard, the stored sets, what waits under
\* "undo", the locks and the transfers carried out agree with the relays that the
\* blocks have sent and executed.
THEOREM BankCorrect == Spec => []BankInv
<1>1. Init => BankInv
  BY InitBank
<1>2. BankInv /\ [Next]_vars => BankInv'
  BY NextBank
<1> QED BY <1>1, <1>2, PTL DEF Spec

\* A shard carries out a transfer over several shards only if every shard of it has
\* locked its accounts: no shard debits or credits what another has refused to lock.
THEOREM AppliedOnlyIfAllLockedCorrect == Spec => []AppliedOnlyIfAllLocked
<1>1. BankInv => AppliedOnlyIfAllLocked
  BY AllLocked
<1> QED BY <1>1, BankCorrect, PTL

\* However often a transfer is proposed again, and in whatever blocks its relays
\* come, a shard carries it out at most once (unlockTransfer, lockTransfer).
THEOREM AppliedAtMostOnceCorrect == Spec => []AppliedAtMostOnce
<1>1. BankInv => AppliedAtMostOnce
  <2> SUFFICES ASSUME BankInv, NEW s \in Shard, NEW tx \in Tx, Crosses(tx) PROVE applied[s][tx] <= 1
    BY DEF AppliedAtMostOnce
  <2>1. OnceInv(local(s), s, Got(s)) /\ local(s).applied = applied[s]
    BY Parts
  <2>2. applied[s][tx] \in {0, 1}
    BY <2>1 DEF OnceInv
  <2> QED BY <2>2
<1> QED BY <1>1, BankCorrect, PTL

\* An account is locked exactly while one transfer waits for the relay of the
\* account's shard to come back to it: no lock is leaked, and none is released by a
\* relay of another transfer (WUnlock in unlockTransfer).
THEOREM LocksMatchRelaysCorrect == Spec => []LocksMatchRelays
<1>1. BankInv => LocksMatchRelays
  BY LocksMatch
<1> QED BY <1>1, BankCorrect, PTL

\* When the data of every other shard waited under "undo", the shard's own relay
\* carries the transfer out if, and only if, the balances sent are enough.
THEOREM LateLockAppliesCorrect == Spec => []LateLockApplies
<1>1. BankInv => LateLockApplies
  BY LateLock
<1> QED BY <1>1, BankCorrect, PTL

\* Every account holds what it held at first and what the transfers its shard has
\* carried out have made of that (doTransfer), as a uint32: only a credit may wrap, and
\* no debit ever takes more than the account has, locked and sent away or not.
THEOREM BooksBalanceCorrect == Spec => []BooksBalance
<1>1. BankInv => BooksBalance
  <2> SUFFICES ASSUME BankInv, NEW k \in Account
               PROVE  /\ InitBalance + Net(applied[Home[k]], k) >= 0
                      /\ money[k] = (InitBalance + Net(applied[Home[k]], k)) % Modulus
    BY DEF BooksBalance
  <2> DEFINE s == Home[k]
             st == local(s)
  <2>1. s \in Shard
    BY HomeAssumption
  <2> HIDE DEF s, st
  <2>2. BooksInv(st, s) /\ st.money = money /\ st.applied = applied[s]
    BY <2>1, Parts DEF st
  <2>3. /\ InitBalance + Net(st.applied, k) >= 0
        /\ st.money[k] = (InitBalance + Net(st.applied, k)) % Modulus
    BY <2>2 DEF BooksInv, s
  <2> QED BY <2>2, <2>3 DEF s
<1> QED BY <1>1, BankCorrect, PTL
=============================================================================
