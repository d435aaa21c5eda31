----------------------------- MODULE FiniteSums -----------------------------
(***************************************************************************)
(* Sums over finite sets, as MapThenSumSet computes them: what the proofs  *)
(* about voting power and balances need to know; division and positions.   *)
(* The library's induction theorems have an operator for a parameter; here *)
(* induction is the existence of a smallest counterexample, from the       *)
(* well-foundedness of strict inclusion.                                   *)
(***************************************************************************)
EXTENDS Integers, FiniteSetsExt, FiniteSetTheorems, WellFoundedInduction, TLAPS

\* The element MapThenSumSet takes out of s first.
pick(s) == CHOOSE x \in s : TRUE

\* g is the table of the sums of w over the subsets of S, as the fold builds it.
SumStep(g, s, w) == IF s = {} THEN 0 ELSE w[pick(s)] + g[s \ {pick(s)}]
IsSum(g, S, w) == g = [s \in SUBSET S |-> SumStep(g, s, w)]

SumTable(S, w) == CHOOSE g : IsSum(g, S, w)
SumOf(w, S) == SumTable(S, w)[S]

\* Every non-empty set of subsets of a finite set has a smallest member.
LEMMA MinimalSubset ==
    ASSUME NEW S, IsFiniteSet(S), NEW T \in SUBSET SUBSET S, T # {}
    PROVE  \E x \in T : \A y \in T : y \subseteq x => y = x
<1>1. IsWellFoundedOn(StrictSubsetOrdering(S), SUBSET S)
  BY FS_StrictSubsetOrderingWellFounded, FS_FiniteSubsetsOfFinite
<1>2. PICK x \in T : \A y \in T : ~ (<<y, x>> \in StrictSubsetOrdering(S))
  BY <1>1, WFMin
<1>3. ASSUME NEW y \in T, y \subseteq x PROVE y = x
  BY <1>2, <1>3 DEF StrictSubsetOrdering
<1> QED BY <1>2, <1>3

\* pick takes an element.
LEMMA PickIn == \A s : s # {} => pick(s) \in s
BY DEF pick

\* Two tables agree wherever both are defined.
LEMMA SumUnique ==
    ASSUME NEW S, IsFiniteSet(S), NEW U \in SUBSET S, NEW w, NEW g, NEW h,
           IsSum(g, S, w), IsSum(h, U, w)
    PROVE  \A s \in SUBSET U : g[s] = h[s]
<1> DEFINE T == {s \in SUBSET U : g[s] # h[s]}
<1> SUFFICES ASSUME T # {} PROVE FALSE
  OBVIOUS
<1>1. IsFiniteSet(U)
  BY FS_Subset
<1>2. PICK x \in T : \A y \in T : y \subseteq x => y = x
  <2>1. T \in SUBSET SUBSET U
    OBVIOUS
  <2> HIDE DEF T
  <2> QED BY <1>1, <2>1, MinimalSubset
<1>3. \A s \in SUBSET U : g[s] = SumStep(g, s, w) /\ h[s] = SumStep(h, s, w)
  <2>1. \A s \in SUBSET S : g[s] = SumStep(g, s, w)
    BY Zenon DEF IsSum
  <2>2. \A s \in SUBSET U : h[s] = SumStep(h, s, w)
    BY Zenon DEF IsSum
  <2> QED BY <2>1, <2>2
<1>4. CASE x = {}
  BY <1>2, <1>3, <1>4 DEF SumStep
<1>5. CASE x # {}
  <2> DEFINE y == x \ {pick(x)}
  <2>1. y \in SUBSET U /\ y \subseteq x /\ y # x
    BY <1>2, <1>5, PickIn
  <2>2. g[y] = h[y]
    BY <1>2, <2>1
  <2>3. g[x] = w[pick(x)] + g[y] /\ h[x] = w[pick(x)] + h[y]
    BY <1>2, <1>3, <1>5 DEF SumStep
  <2> HIDE DEF y
  <2> QED BY <1>2, <2>2, <2>3
<1> QED BY <1>4, <1>5

\* Every finite set has a table.
LEMMA SumExists ==
    ASSUME NEW S, IsFiniteSet(S), NEW w
    PROVE  IsSum(SumTable(S, w), S, w)
<1> SUFFICES \E g : IsSum(g, S, w)
  BY DEF SumTable
<1> DEFINE T == {U \in SUBSET S : ~ \E g : IsSum(g, U, w)}
<1> SUFFICES ASSUME T # {} PROVE FALSE
  OBVIOUS
<1>1. PICK x \in T : \A y \in T : y \subseteq x => y = x
  <2>1. T \in SUBSET SUBSET S
    OBVIOUS
  <2> HIDE DEF T
  <2> QED BY <2>1, MinimalSubset
<1>2. \A s \in SUBSET x : s # x => IsSum(SumTable(s, w), s, w)
  <2> SUFFICES ASSUME NEW s \in SUBSET x, s # x PROVE IsSum(SumTable(s, w), s, w)
    OBVIOUS
  <2>1. s \in SUBSET S /\ s \notin T
    BY <1>1
  <2>2. \E g : IsSum(g, s, w)
    BY <2>1
  <2> QED BY <2>2 DEF SumTable
<1>3. IsFiniteSet(x)
  BY <1>1, FS_Subset
<1> HIDE DEF T
<1> DEFINE low(s) == SumTable(s, w)[s]
           g == [s \in SUBSET x |-> IF s = x THEN IF x = {} THEN 0 ELSE w[pick(x)] + low(x \ {pick(x)})
                                    ELSE low(s)]
<1>4. ASSUME NEW s \in SUBSET x PROVE g[s] = SumStep(g, s, w)
  <2>1. CASE s = {} /\ s = x
    BY <2>1 DEF SumStep
  <2>2. CASE s # {} /\ s = x
    <3>1. x \ {pick(x)} \in SUBSET x /\ x \ {pick(x)} # x
      BY <2>2, PickIn
    <3>2. g[x \ {pick(x)}] = low(x \ {pick(x)})
      BY <3>1
    <3>3. g[s] = w[pick(x)] + low(x \ {pick(x)})
      BY <2>2
    <3> HIDE DEF g, low
    <3> QED BY <2>2, <3>2, <3>3 DEF SumStep
  <2>3. CASE s # x
    <3>0. g[s] = low(s)
      BY <2>3
    <3>1. IsSum(SumTable(s, w), s, w)
      BY <1>2, <2>3
    <3>2. low(s) = SumStep(SumTable(s, w), s, w)
      <4> DEFINE f == SumTable(s, w)
      <4>1. f = [u \in SUBSET s |-> SumStep(f, u, w)]
        BY <3>1 DEF IsSum
      <4> HIDE DEF f
      <4>2. f[s] = SumStep(f, s, w)
        BY <4>1, Zenon
      <4> QED BY <4>2 DEF f
    <3>3. CASE s = {}
      BY <3>0, <3>2, <3>3 DEF SumStep
    <3>4. CASE s # {}
      <4> DEFINE y == s \ {pick(s)}
      <4>1. y \in SUBSET s /\ y \in SUBSET x /\ y # x
        BY <2>3
      <4>2. g[y] = low(y)
        BY <4>1
      <4>3. IsSum(SumTable(y, w), y, w)
        BY <1>2, <4>1
      <4>4. SumTable(s, w)[y] = low(y)
        <5>1. IsFiniteSet(s)
          BY <1>3, FS_Subset
        <5> HIDE DEF y
        <5> QED BY <3>1, <4>1, <4>3, <5>1, SumUnique
      <4>5. low(s) = w[pick(s)] + SumTable(s, w)[y]
        BY <3>2, <3>4 DEF SumStep
      <4>6. SumStep(g, s, w) = w[pick(s)] + g[y]
        BY <3>4 DEF SumStep
      <4> HIDE DEF g, low, y
      <4> QED BY <3>0, <4>2, <4>4, <4>5, <4>6
    <3> QED BY <3>3, <3>4
  <2> QED BY <2>1, <2>2, <2>3
<1>5. DOMAIN g = SUBSET x
  OBVIOUS
<1>6. g = [s \in SUBSET x |-> g[s]]
  OBVIOUS
<1> HIDE DEF g
<1>7. g = [s \in SUBSET x |-> SumStep(g, s, w)]
  BY <1>4, <1>6, Zenon
<1> QED BY <1>1, <1>7 DEF T, IsSum

\* The sum over the empty set is 0, any other is an element and the rest.
LEMMA SumUnfold ==
    ASSUME NEW S, IsFiniteSet(S), NEW w
    PROVE  SumOf(w, S) = IF S = {} THEN 0 ELSE w[pick(S)] + SumOf(w, S \ {pick(S)})
<1> DEFINE g == SumTable(S, w)
           y == S \ {pick(S)}
<1>1. IsSum(g, S, w) /\ IsSum(SumTable(y, w), y, w)
  <2>1. IsFiniteSet(y)
    BY FS_Subset
  <2> QED BY <2>1, SumExists
<1>2. g[S] = SumStep(g, S, w)
  <2> HIDE DEF g
  <2> QED BY <1>1, Zenon DEF IsSum
<1>3. g[y] = SumTable(y, w)[y]
  <2>1. y \in SUBSET S
    OBVIOUS
  <2> HIDE DEF g, y
  <2> QED BY <1>1, <2>1, SumUnique
<1> QED BY <1>2, <1>3 DEF SumOf, SumStep

\* A sum of natural numbers is one.
LEMMA SumNat ==
    ASSUME NEW S, IsFiniteSet(S), NEW w, \A x \in S : w[x] \in Nat
    PROVE  SumOf(w, S) \in Nat
<1> DEFINE T == {U \in SUBSET S : SumOf(w, U) \notin Nat}
<1> SUFFICES ASSUME T # {} PROVE FALSE
  OBVIOUS
<1>1. PICK x \in T : \A y \in T : y \subseteq x => y = x
  <2>1. T \in SUBSET SUBSET S
    OBVIOUS
  <2> HIDE DEF T
  <2> QED BY <2>1, MinimalSubset
<1>2. SumOf(w, x) = IF x = {} THEN 0 ELSE w[pick(x)] + SumOf(w, x \ {pick(x)})
  <2>1. IsFiniteSet(x)
    BY <1>1, FS_Subset
  <2> QED BY <2>1, SumUnfold
<1>3. CASE x = {}
  BY <1>1, <1>2, <1>3
<1>4. CASE x # {}
  <2>1. pick(x) \in x /\ x \ {pick(x)} \in SUBSET S /\ x \ {pick(x)} # x
    BY <1>1, <1>4, PickIn
  <2>2. SumOf(w, x \ {pick(x)}) \in Nat /\ w[pick(x)] \in Nat
    BY <1>1, <2>1
  <2> QED BY <1>1, <1>2, <1>4, <2>2
<1> QED BY <1>3, <1>4

\* A sum of integers is one.
LEMMA SumInt ==
    ASSUME NEW S, IsFiniteSet(S), NEW w, \A x \in S : w[x] \in Int
    PROVE  SumOf(w, S) \in Int
<1> DEFINE T == {U \in SUBSET S : SumOf(w, U) \notin Int}
<1> SUFFICES ASSUME T # {} PROVE FALSE
  OBVIOUS
<1>1. PICK x \in T : \A y \in T : y \subseteq x => y = x
  <2>1. T \in SUBSET SUBSET S
    OBVIOUS
  <2> HIDE DEF T
  <2> QED BY <2>1, MinimalSubset
<1>2. SumOf(w, x) = IF x = {} THEN 0 ELSE w[pick(x)] + SumOf(w, x \ {pick(x)})
  <2>1. IsFiniteSet(x)
    BY <1>1, FS_Subset
  <2> QED BY <2>1, SumUnfold
<1>3. CASE x = {}
  BY <1>1, <1>2, <1>3
<1>4. CASE x # {}
  <2>1. pick(x) \in x /\ x \ {pick(x)} \in SUBSET S /\ x \ {pick(x)} # x
    BY <1>1, <1>4, PickIn
  <2>2. SumOf(w, x \ {pick(x)}) \in Int /\ w[pick(x)] \in Int
    BY <1>1, <2>1
  <2> QED BY <1>1, <1>2, <1>4, <2>2
<1> QED BY <1>3, <1>4

\* Any element may be taken out first.
LEMMA SumTake ==
    ASSUME NEW S, IsFiniteSet(S), NEW w, \A x \in S : w[x] \in Int, NEW a \in S
    PROVE  SumOf(w, S) = w[a] + SumOf(w, S \ {a})
<1> DEFINE T == {U \in SUBSET S : \E b \in U : SumOf(w, U) # w[b] + SumOf(w, U \ {b})}
<1> SUFFICES ASSUME T # {} PROVE FALSE
  OBVIOUS
<1>1. PICK x \in T : \A y \in T : y \subseteq x => y = x
  <2>1. T \in SUBSET SUBSET S
    OBVIOUS
  <2> HIDE DEF T
  <2> QED BY <2>1, MinimalSubset
<1>2. PICK b \in x : SumOf(w, x) # w[b] + SumOf(w, x \ {b})
  BY <1>1
<1> DEFINE p == pick(x)
           q == (x \ {p}) \ {b}
<1>3. p \in x /\ SumOf(w, x) = w[p] + SumOf(w, x \ {p})
  <2>1. IsFiniteSet(x) /\ x # {}
    BY <1>1, FS_Subset
  <2> QED BY <2>1, SumUnfold, PickIn
<1>4. p # b
  BY <1>2, <1>3
<1>5. \A U \in SUBSET x : U # x => \A c \in U : SumOf(w, U) = w[c] + SumOf(w, U \ {c})
  BY <1>1
<1>6. SumOf(w, x \ {p}) = w[b] + SumOf(w, q)
  BY <1>2, <1>3, <1>4, <1>5
<1>7. SumOf(w, x \ {b}) = w[p] + SumOf(w, q)
  <2>1. (x \ {b}) \ {p} = q
    OBVIOUS
  <2>2. x \ {b} \in SUBSET x /\ x \ {b} # x /\ p \in x \ {b}
    BY <1>3, <1>4
  <2> HIDE DEF p, q
  <2> QED BY <1>5, <2>1, <2>2
<1>8. w[p] \in Int /\ w[b] \in Int /\ SumOf(w, q) \in Int
  <2>1. IsFiniteSet(q) /\ q \in SUBSET S
    BY <1>1, FS_Subset
  <2> HIDE DEF q
  <2> QED BY <1>1, <1>3, <2>1, SumInt
<1> HIDE DEF p, q
<1> QED BY <1>2, <1>3, <1>6, <1>7, <1>8

\* The same for natural numbers.
LEMMA SumRemove ==
    ASSUME NEW S, IsFiniteSet(S), NEW w, \A x \in S : w[x] \in Nat, NEW a \in S
    PROVE  SumOf(w, S) = w[a] + SumOf(w, S \ {a})
<1>1. \A x \in S : w[x] \in Int
  OBVIOUS
<1> QED BY <1>1, SumTake

\* The sum depends on the terms only.
LEMMA SumSame ==
    ASSUME NEW S, IsFiniteSet(S), NEW w, NEW u, \A x \in S : w[x] = u[x]
    PROVE  SumOf(w, S) = SumOf(u, S)
<1> DEFINE T == {U \in SUBSET S : SumOf(w, U) # SumOf(u, U)}
<1> SUFFICES ASSUME T # {} PROVE FALSE
  OBVIOUS
<1>1. PICK x \in T : \A y \in T : y \subseteq x => y = x
  <2>1. T \in SUBSET SUBSET S
    OBVIOUS
  <2> HIDE DEF T
  <2> QED BY <2>1, MinimalSubset
<1>2. /\ SumOf(w, x) = IF x = {} THEN 0 ELSE w[pick(x)] + SumOf(w, x \ {pick(x)})
      /\ SumOf(u, x) = IF x = {} THEN 0 ELSE u[pick(x)] + SumOf(u, x \ {pick(x)})
  <2>1. IsFiniteSet(x)
    BY <1>1, FS_Subset
  <2> QED BY <2>1, SumUnfold
<1>3. CASE x = {}
  BY <1>1, <1>2, <1>3
<1>4. CASE x # {}
  <2>1. pick(x) \in x /\ x \ {pick(x)} \in SUBSET S /\ x \ {pick(x)} # x
    BY <1>1, <1>4, PickIn
  <2>2. SumOf(w, x \ {pick(x)}) = SumOf(u, x \ {pick(x)}) /\ w[pick(x)] = u[pick(x)]
    BY <1>1, <2>1
  <2> QED BY <1>1, <1>2, <1>4, <2>2
<1> QED BY <1>3, <1>4

\* A sum of zeros is zero.
LEMMA SumZero ==
    ASSUME NEW S, IsFiniteSet(S), NEW w, \A x \in S : w[x] = 0
    PROVE  SumOf(w, S) = 0
<1> DEFINE T == {U \in SUBSET S : SumOf(w, U) # 0}
<1> SUFFICES ASSUME T # {} PROVE FALSE
  OBVIOUS
<1>1. PICK x \in T : \A y \in T : y \subseteq x => y = x
  <2>1. T \in SUBSET SUBSET S
    OBVIOUS
  <2> HIDE DEF T
  <2> QED BY <2>1, MinimalSubset
<1>2. SumOf(w, x) = IF x = {} THEN 0 ELSE w[pick(x)] + SumOf(w, x \ {pick(x)})
  <2>1. IsFiniteSet(x)
    BY <1>1, FS_Subset
  <2> QED BY <2>1, SumUnfold
<1>3. CASE x = {}
  BY <1>1, <1>2, <1>3
<1>4. CASE x # {}
  <2>1. pick(x) \in x /\ x \ {pick(x)} \in SUBSET S /\ x \ {pick(x)} # x
    BY <1>1, <1>4, PickIn
  <2>2. SumOf(w, x \ {pick(x)}) = 0 /\ w[pick(x)] = 0
    BY <1>1, <2>1
  <2> QED BY <1>1, <1>2, <1>4, <2>2
<1> QED BY <1>3, <1>4

\* When one term changes, the sum changes by as much.
LEMMA SumChange ==
    ASSUME NEW S, IsFiniteSet(S), NEW w, NEW u, NEW a \in S,
           \A x \in S : w[x] \in Int /\ u[x] \in Int, \A x \in S : x # a => u[x] = w[x]
    PROVE  SumOf(w, S) \in Int /\ SumOf(u, S) = SumOf(w, S) + (u[a] - w[a])
<1>1. IsFiniteSet(S \ {a})
  BY FS_Subset
<1>2. SumOf(w, S \ {a}) = SumOf(u, S \ {a})
  BY <1>1, SumSame
<1>3. SumOf(w, S) = w[a] + SumOf(w, S \ {a}) /\ SumOf(u, S) = u[a] + SumOf(u, S \ {a})
  BY SumTake
<1>4. SumOf(w, S \ {a}) \in Int
  BY <1>1, SumInt
<1> QED BY <1>2, <1>3, <1>4

\* More terms make no smaller sum.
LEMMA SumMonotone ==
    ASSUME NEW S, IsFiniteSet(S), NEW w, \A x \in S : w[x] \in Nat, NEW U \in SUBSET S
    PROVE  SumOf(w, U) <= SumOf(w, S)
<1> DEFINE T == {V \in SUBSET S : ~ \A W \in SUBSET V : SumOf(w, W) <= SumOf(w, V)}
<1> SUFFICES ASSUME T # {} PROVE FALSE
  OBVIOUS
<1>1. PICK x \in T : \A y \in T : y \subseteq x => y = x
  <2>1. T \in SUBSET SUBSET S
    OBVIOUS
  <2> HIDE DEF T
  <2> QED BY <2>1, MinimalSubset
<1>2. PICK W \in SUBSET x : ~(SumOf(w, W) <= SumOf(w, x))
  BY <1>1
<1>3. \A V \in SUBSET S : SumOf(w, V) \in Nat
  <2> SUFFICES ASSUME NEW V \in SUBSET S PROVE SumOf(w, V) \in Nat
    OBVIOUS
  <2>1. IsFiniteSet(V)
    BY FS_Subset
  <2> QED BY <2>1, SumNat
<1>4. W # x
  BY <1>1, <1>2, <1>3
<1>5. PICK a \in x : a \notin W
  BY <1>4
<1>6. SumOf(w, W) <= SumOf(w, x \ {a})
  BY <1>1, <1>2, <1>5
<1>7. SumOf(w, x) = w[a] + SumOf(w, x \ {a}) /\ w[a] \in Nat
  <2>1. IsFiniteSet(x) /\ \A y \in x : w[y] \in Nat
    BY <1>1, FS_Subset
  <2> QED BY <2>1, SumRemove
<1>8. SumOf(w, x \ {a}) \in Nat /\ SumOf(w, W) \in Nat
  BY <1>1, <1>2, <1>3
<1> QED BY <1>2, <1>6, <1>7, <1>8

-----------------------------------------------------------------------------
(* Division. *)

\* Multiplication by a positive number keeps the order.
LEMMA TimesMonotone ==
    ASSUME NEW b \in Nat \ {0}, NEW m \in Int, NEW n \in Int, m <= n
    PROVE  b * m <= b * n /\ b * m \in Int /\ b * n \in Int
<1>1. (n - m) \in Nat
  OBVIOUS
<1>2. b * (n - m) >= 0
  BY <1>1
<1>3. b * (n - m) = b * n - b * m
  OBVIOUS
<1> QED BY <1>2, <1>3

\* Division with a remainder.
LEMMA DivMod ==
    ASSUME NEW b \in Nat \ {0}, NEW i \in Nat
    PROVE  i \div b \in Nat /\ i % b \in 0 .. (b - 1) /\ i = b * (i \div b) + (i % b)
OBVIOUS

\* Quotient and remainder are unique.
LEMMA DivModUnique ==
    ASSUME NEW b \in Nat \ {0}, NEW q \in Nat, NEW r \in 0 .. (b - 1)
    PROVE  (b * q + r) \div b = q /\ (b * q + r) % b = r
OBVIOUS

\* What is added to a number is added to its remainder.
LEMMA ModPlus ==
    ASSUME NEW b \in Nat \ {0}, NEW t \in Nat, NEW d \in Int, (t % b) + d >= 0
    PROVE  t + d >= 0 /\ (t + d) % b = ((t % b) + d) % b
<1> DEFINE q == t \div b
           e == (t % b) + d
           p == e \div b
           r == e % b
<1>1. q \in Nat /\ t = b * q + (t % b) /\ t % b \in Nat
  BY DivMod
<1>2. e \in Nat /\ t + d = b * q + e
  BY <1>1
<1> HIDE DEF q, e
<1>3. p \in Nat /\ r \in 0 .. (b - 1) /\ e = b * p + r
  BY <1>2, DivMod
<1> HIDE DEF p
<1>4. b * q + b * p = b * (q + p) /\ b * q \in Nat /\ b * p \in Nat
  BY <1>1, <1>3
<1>5. t + d = b * (q + p) + r /\ q + p \in Nat
  BY <1>1, <1>2, <1>3, <1>4
<1>6. (b * (q + p) + r) % b = r
  BY <1>3, <1>5, DivModUnique
<1> QED BY <1>2, <1>4, <1>5, <1>6 DEF e

-----------------------------------------------------------------------------
(* Positions: what the proofs about folds over sequences need to know. *)

\* A finite set of positions.
Positions(S) == S \subseteq Int /\ IsFiniteSet(S)

\* So is a part of it.
LEMMA PositionsIn == \A S : \A U \in SUBSET S : Positions(S) => Positions(U) /\ IsFiniteSet(U)
BY FS_Subset DEF Positions

\* A non-empty finite set of numbers has a largest one.
LEMMA MaxIn ==
    ASSUME NEW S, Positions(S), S # {}
    PROVE  Max(S) \in S /\ \A y \in S : Max(S) >= y
<1> DEFINE T == {U \in SUBSET S : U # {} /\ ~ \E x \in U : \A y \in U : x >= y}
<1> SUFFICES ASSUME T # {} PROVE FALSE
  BY DEF Max
<1>1. PICK U \in T : \A y \in T : y \subseteq U => y = U
  <2>1. T \in SUBSET SUBSET S /\ IsFiniteSet(S)
    BY PositionsIn
  <2> HIDE DEF T
  <2> QED BY <2>1, MinimalSubset
<1>2. PICK u \in U : TRUE
  BY <1>1
<1>3. CASE U = {u}
  <2>1. u \in Int
    BY <1>1, <1>2 DEF Positions
  <2> QED BY <1>1, <1>3, <2>1
<1>4. CASE U # {u}
  <2>1. U \ {u} \notin T /\ U \ {u} # {} /\ U \ {u} \in SUBSET S
    BY <1>1, <1>2, <1>4
  <2>2. PICK x \in U \ {u} : \A y \in U \ {u} : x >= y
    BY <2>1
  <2>3. \A y \in U : y \in Int
    BY <1>1 DEF Positions
  <2>4. CASE x >= u
    BY <1>1, <2>2, <2>4
  <2>5. CASE ~(x >= u)
    BY <1>1, <1>2, <2>2, <2>3, <2>5
  <2> QED BY <2>4, <2>5
<1> QED BY <1>3, <1>4

\* Induction up to n, on the set of the numbers it is about.
LEMMA Induct ==
    ASSUME NEW n \in Nat, NEW G, 0 \in G, \A k \in 1 .. n : k - 1 \in G => k \in G
    PROVE  \A k \in 0 .. n : k \in G
<1> DEFINE bad == {k \in 0 .. n : k \notin G}
           T == {1 .. k : k \in bad}
<1> SUFFICES ASSUME bad # {} PROVE FALSE
  OBVIOUS
<1>1. PICK x \in T : \A y \in T : y \subseteq x => y = x
  <2>1. T \in SUBSET SUBSET (1 .. n) /\ T # {}
    OBVIOUS
  <2>2. IsFiniteSet(1 .. n)
    BY FS_Interval
  <2> DEFINE S == 1 .. n
  <2> HIDE DEF T, S
  <2>3. T \in SUBSET SUBSET S /\ T # {} /\ IsFiniteSet(S)
    BY <2>1, <2>2 DEF S
  <2> QED BY <2>3, MinimalSubset
<1>2. PICK k \in bad : x = 1 .. k
  BY <1>1
<1>3. k \in 1 .. n /\ k - 1 \in 0 .. n
  BY <1>2
<1>4. k - 1 \in bad
  BY <1>2, <1>3
<1>5. 1 .. (k - 1) \in T /\ 1 .. (k - 1) \subseteq x
  BY <1>2, <1>3, <1>4
<1>6. k \in x /\ k \notin 1 .. (k - 1)
  BY <1>2, <1>3
<1> QED BY <1>1, <1>5, <1>6
=============================================================================
