----------------------------- MODULE SumProofs -----------------------------
(***************************************************************************)
(* Facts about finite sets that every component's proofs rest on:           *)
(* induction over the subsets of a set and over numbers, recursion, sums    *)
(* over a set, and the elements of an ordered set one after the other.      *)
(*                                                                         *)
(* A property to prove by induction is given as the set of those that have  *)
(* it, and a recursion as the table of its values.                          *)
(***************************************************************************)
EXTENDS Integers, Sequences, SequencesExt, FiniteSetTheorems, TLAPS

(* Induction and recursion.                                                *)

\* Induction over the subsets of a finite set, the property given as the set F of
\* those that have it.
LEMMA SubsetInduction ==
  ASSUME NEW S, IsFiniteSet(S), NEW F,
         \A T \in SUBSET S : (\A U \in (SUBSET T) \ {T} : U \in F) => T \in F
  PROVE  \A T \in SUBSET S : T \in F
<1> DEFINE B == {T \in SUBSET S : T \notin F}
<1> SUFFICES ASSUME B # {} PROVE FALSE
  OBVIOUS
<1>1. B \subseteq FiniteSubsetsOf(S)
  BY FS_Subset DEF FiniteSubsetsOf
<1>2. \E T \in B : \A U \in B : ~(<<U, T>> \in StrictSubsetOrdering(S))
  <2> HIDE DEF B
  <2> QED
    BY <1>1, FS_StrictSubsetOrderingWellFounded, WFMin
<1>3. PICK T \in B : \A U \in B : ~(<<U, T>> \in StrictSubsetOrdering(S))
  BY <1>2
<1>4. \A U \in (SUBSET T) \ {T} : <<U, T>> \in StrictSubsetOrdering(S)
  BY DEF StrictSubsetOrdering
<1>5. \A U \in (SUBSET T) \ {T} : U \in F
  BY <1>3, <1>4
<1> QED
  BY <1>3, <1>5

\* Induction over the numbers up to n.
LEMMA UpTo ==
  ASSUME NEW n \in Nat, NEW F, 0 \in F,
         \A k \in 0..(n - 1) : k \in F => k + 1 \in F
  PROVE  \A k \in 0..n : k \in F
<1> DEFINE T == {k \in 0..n : k \notin F}
           B == {0..k : k \in T}
<1> SUFFICES ASSUME T # {} PROVE FALSE
  OBVIOUS
<1>1. IsFiniteSet(0..n)
  BY FS_Interval
<1>2. B \subseteq FiniteSubsetsOf(0..n) /\ B # {}
  BY <1>1, FS_Subset DEF FiniteSubsetsOf
<1>3. \E A \in B : \A C \in B : ~(<<C, A>> \in StrictSubsetOrdering(0..n))
  <2> HIDE DEF B
  <2> QED
    BY <1>1, <1>2, FS_StrictSubsetOrderingWellFounded, WFMin
<1>4. PICK k \in T : \A j \in T : ~(<<0..j, 0..k>> \in StrictSubsetOrdering(0..n))
  BY <1>3
<1>5. k # 0 /\ k - 1 \in 0..(n - 1) /\ (k - 1) + 1 = k
  OBVIOUS
<1>6. k - 1 \in T
  BY <1>5
<1>7. 0..(k - 1) \subseteq 0..k /\ k \notin 0..(k - 1) /\ k \in 0..k
  OBVIOUS
<1>8. <<0..(k - 1), 0..k>> \in StrictSubsetOrdering(0..n)
  BY <1>7 DEF StrictSubsetOrdering
<1> QED
  BY <1>4, <1>6, <1>8

\* c picks an element of every nonempty subset of S.
Picks(c, S) == \A T \in (SUBSET S) \ {{}} : c[T] \in T

\* f is computed from the empty set up, by the elements c picks.
Recurses(f, S, c, base, step) ==
  /\ f[{}] = base
  /\ \A T \in (SUBSET S) \ {{}} : f[T] = step[<<c[T], f[T \ {c[T]}]>>]

\* A recursion over the subsets of a finite set that takes out the element c picks
\* has a solution.
LEMMA Recursion ==
  ASSUME NEW S, IsFiniteSet(S),
         NEW c, Picks(c, S),
         NEW V, NEW base \in V, NEW step \in [S \X V -> V]
  PROVE  \E f \in [SUBSET S -> V] : Recurses(f, S, c, base, step)
<1> DEFINE D(k) == {T \in SUBSET S : Cardinality(T) <= k}
           Good(k, f) == /\ f \in [D(k) -> V]
                         /\ \A T \in D(k) :
                              f[T] = IF T = {} THEN base ELSE step[<<c[T], f[T \ {c[T]}]>>]
           n == Cardinality(S)
           F == {k \in 0..n : \E f : Good(k, f)}
<1>1. n \in Nat /\ \A T \in SUBSET S : Cardinality(T) \in 0..n
  BY FS_CardinalityType, FS_Subset
<1>2. \A T \in SUBSET S : (T = {} <=> Cardinality(T) = 0)
  BY FS_EmptySet, FS_Subset
<1>3. \A T \in (SUBSET S) \ {{}} : /\ T \ {c[T]} \in SUBSET S
                                    /\ Cardinality(T \ {c[T]}) = Cardinality(T) - 1
  BY FS_RemoveElement, FS_Subset DEF Picks
<1>4. D(n) = SUBSET S
  BY <1>1
<1>5. 0 \in F
  <2>1. D(0) = {{}}
    BY <1>1, <1>2
  <2>2. Good(0, [T \in D(0) |-> base])
    BY <2>1
  <2>3. \E f : Good(0, f)
    <3> HIDE DEF Good
    <3> QED
      BY <2>2
  <2> HIDE DEF Good
  <2> QED
    BY <1>1, <2>3
<1>6. ASSUME NEW k \in 0..(n - 1), k \in F PROVE k + 1 \in F
  <2>1. k + 1 \in 0..n /\ k \in Nat
    BY <1>1
  <2>2. PICK f : Good(k, f)
    BY <1>6
  <2> DEFINE g == [T \in D(k + 1) |->
                     IF T = {} THEN base ELSE step[<<c[T], f[T \ {c[T]}]>>]]
  <2>3. D(k) \subseteq D(k + 1)
    BY <1>1, <2>1
  <2>4. \A T \in D(k + 1) \ {{}} : T \ {c[T]} \in D(k) /\ c[T] \in S
    BY <1>1, <1>3, <2>1 DEF Picks
  <2>5. g \in [D(k + 1) -> V]
    BY <2>2, <2>4
  <2>6. \A T \in D(k) : g[T] = f[T]
    BY <2>2, <2>3
  <2>7. \A T \in D(k + 1) :
          g[T] = IF T = {} THEN base ELSE step[<<c[T], g[T \ {c[T]}]>>]
    BY <2>4, <2>6
  <2>8. Good(k + 1, g)
    BY <2>5, <2>7
  <2> QED
    BY <2>1, <2>8
<1>7. n \in F
  <2> HIDE DEF F
  <2> QED
    BY <1>1, <1>5, <1>6, UpTo
<1>8. PICK f : Good(n, f)
  BY <1>7
<1>9. f \in [SUBSET S -> V] /\ Recurses(f, S, c, base, step)
  BY <1>4, <1>8 DEF Recurses
<1> QED
  BY <1>9

\* A prefix of the indices of a sequence.
LEMMA LastOf ==
  ASSUME NEW n \in Nat
  PROVE  /\ \A T \in (SUBSET (1..n)) \ {{}} : Max(T) \in T
         /\ \A k \in 1..n : Max(1..k) = k /\ (1..k) \ {k} = 1..(k - 1)
<1>1. ASSUME NEW T \in SUBSET (1..n), T # {}
      PROVE  Max(T) \in T
  <2> DEFINE F == {k \in 0..n : \A U \in SUBSET (1..k) : U = {} \/ \E m \in U : \A j \in U : m >= j}
  <2>1. 0 \in F
    OBVIOUS
  <2>2. ASSUME NEW k \in 0..(n - 1), k \in F PROVE k + 1 \in F
    <3>1. k + 1 \in 0..n
      OBVIOUS
    <3>2. ASSUME NEW U \in SUBSET (1..(k + 1)), U # {}
          PROVE  \E m \in U : \A j \in U : m >= j
      <4>1. CASE k + 1 \in U
        BY <4>1
      <4>2. CASE k + 1 \notin U
        <5>1. U \subseteq 1..k
          BY <4>2
        <5> QED
          BY <2>2, <3>2, <5>1
      <4> QED
        BY <4>1, <4>2
    <3> QED
      BY <3>1, <3>2
  <2>3. n \in F
    <3> HIDE DEF F
    <3> QED
      BY <2>1, <2>2, UpTo
  <2>4. \E m \in T : \A j \in T : m >= j
    BY <1>1, <2>3
  <2> QED
    BY <2>4 DEF Max
<1>2. ASSUME NEW k \in 1..n
      PROVE  Max(1..k) = k /\ (1..k) \ {k} = 1..(k - 1)
  <2>1. k \in 1..k /\ \A y \in 1..k : k >= y
    OBVIOUS
  <2>2. \A x \in 1..k : (\A y \in 1..k : x >= y) => x = k
    OBVIOUS
  <2>3. Max(1..k) = k
    BY <2>1, <2>2 DEF Max
  <2> QED
    BY <2>3
<1> QED
  BY <1>1, <1>2

\* The table a fold from the left builds over the sets of a sequence's n indices.
FoldTable(f, n, base, step) ==
  /\ f[{}] = base
  /\ \A T \in (SUBSET (1..n)) \ {{}} : f[T] = step[<<Max(T), f[T \ {Max(T)}]>>]

LEMMA FoldExists ==
  ASSUME NEW n \in Nat, NEW V, NEW base \in V, NEW step \in [(1..n) \X V -> V]
  PROVE  \E f \in [SUBSET (1..n) -> V] : FoldTable(f, n, base, step)
<1>1. PICK S, c : S = 1..n /\ c = [T \in SUBSET S |-> Max(T)]
  OBVIOUS
<1>2. IsFiniteSet(S)
  BY <1>1, FS_Interval
<1>3. Picks(c, S)
  BY <1>1, LastOf DEF Picks
<1>4. step \in [S \X V -> V]
  BY <1>1
<1>5. \E f \in [SUBSET S -> V] : Recurses(f, S, c, base, step)
  BY <1>2, <1>3, <1>4, Recursion
<1>6. PICK f \in [SUBSET S -> V] : Recurses(f, S, c, base, step)
  BY <1>5
<1>7. FoldTable(f, n, base, step)
  BY <1>1, <1>6 DEF Recurses, FoldTable
<1> QED
  BY <1>1, <1>6, <1>7

-----------------------------------------------------------------------------
(* Sums.                                                                    *)

\* F[T] is the sum of the f[x], x in T, for every T in S: what SumFunctionOnSet
\* computes.
SumTable(F, f, S) ==
  /\ F[{}] = 0
  /\ \A T \in SUBSET S : F[T] \in Int
  /\ \A T \in (SUBSET S) \ {{}} :
       F[T] = f[CHOOSE x \in T : TRUE] + F[T \ {CHOOSE x \in T : TRUE}]

LEMMA SumIsTable ==
  ASSUME NEW S, IsFiniteSet(S), NEW f, \A x \in S : f[x] \in Int
  PROVE  \E F : SumTable(F, f, S) /\ SumFunctionOnSet(f, S) = F[S]
<1>1. PICK c, step : /\ c = [T \in SUBSET S |-> CHOOSE x \in T : TRUE]
                     /\ step = [xv \in S \X Int |-> f[xv[1]] + xv[2]]
  OBVIOUS
<1>2. Picks(c, S)
  BY <1>1 DEF Picks
<1>3. step \in [S \X Int -> Int] /\ 0 \in Int
  BY <1>1
<1>4. PICK G \in [SUBSET S -> Int] : Recurses(G, S, c, 0, step)
  BY <1>2, <1>3, Recursion
<1> DEFINE Eq(iter) ==
      iter = [T \in SUBSET S |-> IF T = {} THEN 0
                ELSE f[CHOOSE x \in T : TRUE] + iter[T \ {CHOOSE x \in T : TRUE}]]
<1>5. ASSUME NEW T \in (SUBSET S) \ {{}}
      PROVE  G[T] = f[CHOOSE x \in T : TRUE] + G[T \ {CHOOSE x \in T : TRUE}]
  <2>1. c[T] = (CHOOSE x \in T : TRUE) /\ c[T] \in S
    BY <1>1
  <2>2. T \ {c[T]} \in SUBSET S
    OBVIOUS
  <2>3. <<c[T], G[T \ {c[T]}]>> \in S \X Int
    BY <1>4, <2>1, <2>2
  <2>4. step[<<c[T], G[T \ {c[T]}]>>] = f[c[T]] + G[T \ {c[T]}]
    BY <1>1, <2>3
  <2>5. G[T] = step[<<c[T], G[T \ {c[T]}]>>]
    BY <1>4 DEF Recurses
  <2> QED
    BY <2>1, <2>4, <2>5
<1>6. Eq(G)
  <2>1. G[{}] = 0
    BY <1>4 DEF Recurses
  <2> QED
    BY <1>4, <1>5, <2>1
<1>7. PICK iter : Eq(iter) /\ SumFunctionOnSet(f, S) = iter[S]
  <2> DEFINE chosen == CHOOSE iter : Eq(iter)
  <2>1. SumFunctionOnSet(f, S) = chosen[S]
    BY Zenon DEF SumFunctionOnSet, FoldFunctionOnSet, MapThenFoldSet
  <2>2. Eq(chosen)
    <3> HIDE DEF Eq
    <3> QED
      BY <1>6
  <2> HIDE DEF chosen
  <2> QED
    BY <2>1, <2>2
<1> DEFINE Fs == {T \in SUBSET S : iter[T] \in Int}
<1>8. \A T \in SUBSET S : T \in Fs
  <2>1. ASSUME NEW T \in SUBSET S, \A U \in (SUBSET T) \ {T} : U \in Fs
        PROVE  T \in Fs
    <3>1. CASE T = {}
      BY <1>7, <3>1
    <3>2. CASE T # {}
      <4> DEFINE x == CHOOSE x \in T : TRUE
      <4>1. x \in T /\ x \in S
        BY <3>2
      <4>2. T \ {x} \in (SUBSET T) \ {T}
        BY <4>1
      <4>3. iter[T \ {x}] \in Int
        BY <2>1, <4>2
      <4>4. iter[T] = f[x] + iter[T \ {x}]
        BY <1>7, <3>2
      <4>5. iter[T] \in Int
        <5> HIDE DEF x
        <5> QED
          BY <4>1, <4>3, <4>4
      <4> QED
        BY <4>5
    <3> QED
      BY <3>1, <3>2
  <2> HIDE DEF Fs
  <2> QED
    BY <2>1, SubsetInduction
<1>9. SumTable(iter, f, S)
  <2>1. iter[{}] = 0
    BY <1>7
  <2>2. \A T \in SUBSET S : iter[T] \in Int
    BY <1>8
  <2>3. \A T \in (SUBSET S) \ {{}} :
          iter[T] = f[CHOOSE x \in T : TRUE] + iter[T \ {CHOOSE x \in T : TRUE}]
    BY <1>7
  <2> QED
    BY <2>1, <2>2, <2>3 DEF SumTable
<1> QED
  BY <1>7, <1>9

\* Two tables agree wherever the numbers they add up do.
LEMMA TablesAgree ==
  ASSUME NEW S, IsFiniteSet(S), NEW f, NEW g, \A x \in S : f[x] = g[x],
         NEW F, NEW G, NEW R, S \subseteq R,
         SumTable(F, f, S), SumTable(G, g, R)
  PROVE  F[S] = G[S]
<1> DEFINE E == {T \in SUBSET S : F[T] = G[T]}
<1>1. ASSUME NEW T \in SUBSET S, \A U \in (SUBSET T) \ {T} : U \in E
      PROVE  T \in E
  <2>1. CASE T = {}
    BY <2>1 DEF SumTable
  <2>2. CASE T # {}
    <3> DEFINE x == CHOOSE x \in T : TRUE
    <3>1. x \in T /\ x \in S
      BY <2>2
    <3>2. F[T \ {x}] = G[T \ {x}]
      BY <1>1, <3>1
    <3>3. T \in SUBSET S /\ T \in SUBSET R
      OBVIOUS
    <3>4. F[T] = f[x] + F[T \ {x}] /\ G[T] = g[x] + G[T \ {x}]
      BY <2>2, <3>3 DEF SumTable
    <3> HIDE DEF x
    <3> QED
      BY <3>1, <3>2, <3>4
  <2> QED
    BY <2>1, <2>2
<1>2. S \in E
  <2> HIDE DEF E
  <2> QED
    BY <1>1, SubsetInduction
<1> QED
  BY <1>2

\* Any of its elements may be taken out of a table's set.
LEMMA TableTakesOut ==
  ASSUME NEW S, IsFiniteSet(S), NEW f, \A x \in S : f[x] \in Int,
         NEW F, SumTable(F, f, S)
  PROVE  \A x \in S : F[S] = f[x] + F[S \ {x}]
<1> DEFINE E == {T \in SUBSET S : \A x \in T : F[T] = f[x] + F[T \ {x}]}
<1>1. ASSUME NEW T \in SUBSET S, \A U \in (SUBSET T) \ {T} : U \in E
      PROVE  T \in E
  <2> SUFFICES ASSUME NEW x \in T PROVE F[T] = f[x] + F[T \ {x}]
    OBVIOUS
  <2>1. PICK c : c = CHOOSE y \in T : TRUE
    OBVIOUS
  <2>2. c \in T /\ F[T] = f[c] + F[T \ {c}]
    BY <2>1 DEF SumTable
  <2>3. CASE x = c
    BY <2>2, <2>3
  <2>4. CASE x # c
    <3>1. T \ {c} \in E /\ T \ {x} \in E
      BY <1>1, <2>2
    <3>2. F[T \ {c}] = f[x] + F[(T \ {c}) \ {x}] /\ F[T \ {x}] = f[c] + F[(T \ {x}) \ {c}]
      BY <2>2, <2>4, <3>1
    <3>3. (T \ {c}) \ {x} = (T \ {x}) \ {c}
      OBVIOUS
    <3>4. f[x] \in Int /\ f[c] \in Int /\ F[(T \ {c}) \ {x}] \in Int
      BY <2>2 DEF SumTable
    <3>5. PICK a \in Int, b \in Int, r \in Int :
            f[x] = a /\ f[c] = b /\ F[(T \ {c}) \ {x}] = r
      BY <3>4
    <3>6. F[T] = b + (a + r) /\ F[T \ {x}] = b + r
      BY <2>2, <3>2, <3>3, <3>5
    <3>7. b + (a + r) = a + (b + r)
      OBVIOUS
    <3> QED
      BY <3>5, <3>6, <3>7
  <2> QED
    BY <2>3, <2>4
<1>2. S \in E
  <2> HIDE DEF E
  <2> QED
    BY <1>1, SubsetInduction
<1> QED
  BY <1>2

\* The sum over no element is zero, a sum of integers is one.
LEMMA SumEmpty == ASSUME NEW f PROVE SumFunctionOnSet(f, {}) = 0
<1>1. IsFiniteSet({}) /\ \A x \in {} : f[x] \in Int
  BY FS_EmptySet
<1> QED
  BY <1>1, SumIsTable DEF SumTable

LEMMA SumInt ==
  ASSUME NEW S, IsFiniteSet(S), NEW f, \A x \in S : f[x] \in Int
  PROVE  SumFunctionOnSet(f, S) \in Int
BY SumIsTable DEF SumTable

LEMMA SumAgrees ==
  ASSUME NEW S, IsFiniteSet(S), NEW f, NEW g,
         \A x \in S : f[x] \in Int /\ f[x] = g[x]
  PROVE  SumFunctionOnSet(f, S) = SumFunctionOnSet(g, S)
<1>1. PICK F : SumTable(F, f, S) /\ SumFunctionOnSet(f, S) = F[S]
  BY SumIsTable
<1>2. PICK G : SumTable(G, g, S) /\ SumFunctionOnSet(g, S) = G[S]
  BY SumIsTable
<1> QED
  BY <1>1, <1>2, TablesAgree

LEMMA SumTakesOut ==
  ASSUME NEW S, IsFiniteSet(S), NEW f, \A y \in S : f[y] \in Int, NEW x \in S
  PROVE  SumFunctionOnSet(f, S) = f[x] + SumFunctionOnSet(f, S \ {x})
<1>1. PICK F : SumTable(F, f, S) /\ SumFunctionOnSet(f, S) = F[S]
  BY SumIsTable
<1>2. IsFiniteSet(S \ {x})
  BY FS_RemoveElement
<1>3. PICK G : SumTable(G, f, S \ {x}) /\ SumFunctionOnSet(f, S \ {x}) = G[S \ {x}]
  BY <1>2, SumIsTable
<1>4. F[S] = f[x] + F[S \ {x}]
  BY <1>1, TableTakesOut
<1>5. G[S \ {x}] = F[S \ {x}]
  <2>1. S \ {x} \subseteq S /\ \A y \in S \ {x} : f[y] = f[y]
    OBVIOUS
  <2> QED
    BY <1>1, <1>2, <1>3, <2>1, TablesAgree
<1> QED
  BY <1>1, <1>3, <1>4, <1>5

\* One more number in a sum.
LEMMA SumPutsIn ==
  ASSUME NEW S, IsFiniteSet(S), NEW x, x \notin S, NEW f, f[x] \in Int, \A y \in S : f[y] \in Int
  PROVE  SumFunctionOnSet(f, S \union {x}) = SumFunctionOnSet(f, S) + f[x]
<1>1. PICK T : T = S \union {x}
  OBVIOUS
<1>2. x \in T /\ T \ {x} = S /\ IsFiniteSet(T) /\ \A y \in T : f[y] \in Int
  BY <1>1, FS_AddElement
<1>3. SumFunctionOnSet(f, T) = f[x] + SumFunctionOnSet(f, T \ {x})
  BY <1>2, SumTakesOut
<1>4. SumFunctionOnSet(f, S) \in Int
  BY SumInt
<1>5. PICK a \in Int, b \in Int : a = f[x] /\ b = SumFunctionOnSet(f, S)
  BY <1>4
<1>6. SumFunctionOnSet(f, T \ {x}) = b
  BY <1>2, <1>5
<1>7. SumFunctionOnSet(f, T) = b + a
  BY <1>3, <1>5, <1>6
<1> QED
  BY <1>1, <1>5, <1>7

\* A sum of natural numbers is one.
LEMMA SumNat ==
  ASSUME NEW S, IsFiniteSet(S), NEW f, \A x \in S : f[x] \in Nat
  PROVE  SumFunctionOnSet(f, S) \in Nat
<1>1. PICK F : SumTable(F, f, S) /\ SumFunctionOnSet(f, S) = F[S]
  BY SumIsTable
<1> DEFINE E == {T \in SUBSET S : F[T] \in Nat}
<1>2. ASSUME NEW T \in SUBSET S, \A U \in (SUBSET T) \ {T} : U \in E
      PROVE  T \in E
  <2>1. CASE T = {}
    BY <1>1, <2>1 DEF SumTable
  <2>2. CASE T # {}
    <3>1. PICK x : x = CHOOSE y \in T : TRUE
      OBVIOUS
    <3>2. x \in T /\ F[T] = f[x] + F[T \ {x}]
      BY <1>1, <2>2, <3>1 DEF SumTable
    <3>3. T \ {x} \in E
      BY <1>2, <3>2
    <3> QED
      BY <3>2, <3>3
  <2> QED
    BY <2>1, <2>2
<1>3. S \in E
  <2> HIDE DEF E
  <2> QED
    BY <1>2, SubsetInduction
<1> QED
  BY <1>1, <1>3

\* The sum over one element.
LEMMA SumOne ==
  ASSUME NEW x, NEW f, f[x] \in Int
  PROVE  SumFunctionOnSet(f, {x}) = f[x]
<1>1. IsFiniteSet({}) /\ x \notin {} /\ \A y \in {} : f[y] \in Int
  BY FS_EmptySet
<1>2. SumFunctionOnSet(f, {} \union {x}) = SumFunctionOnSet(f, {}) + f[x]
  BY <1>1, SumPutsIn
<1>3. {} \union {x} = {x}
  OBVIOUS
<1> QED
  BY <1>2, <1>3, SumEmpty

\* The greater the numbers, the greater their sum.
LEMMA SumMonotone ==
  ASSUME NEW S, IsFiniteSet(S), NEW f, NEW g,
         \A x \in S : f[x] \in Int /\ g[x] \in Int /\ f[x] <= g[x]
  PROVE  SumFunctionOnSet(f, S) <= SumFunctionOnSet(g, S)
<1> DEFINE E == {T \in SUBSET S : SumFunctionOnSet(f, T) <= SumFunctionOnSet(g, T)}
<1>1. ASSUME NEW T \in SUBSET S, \A U \in (SUBSET T) \ {T} : U \in E
      PROVE  T \in E
  <2>1. CASE T = {}
    BY <2>1, SumEmpty
  <2>2. CASE T # {}
    <3>1. PICK x \in T : TRUE
      BY <2>2
    <3>2. IsFiniteSet(T) /\ IsFiniteSet(T \ {x})
      BY FS_Subset
    <3>3. /\ SumFunctionOnSet(f, T) = f[x] + SumFunctionOnSet(f, T \ {x})
          /\ SumFunctionOnSet(g, T) = g[x] + SumFunctionOnSet(g, T \ {x})
      BY <3>1, <3>2, SumTakesOut
    <3>4. SumFunctionOnSet(f, T \ {x}) <= SumFunctionOnSet(g, T \ {x})
      BY <1>1, <3>1
    <3>5. SumFunctionOnSet(f, T \ {x}) \in Int /\ SumFunctionOnSet(g, T \ {x}) \in Int
      BY <3>2, SumInt
    <3>6. f[x] \in Int /\ g[x] \in Int /\ f[x] <= g[x]
      BY <3>1
    <3>7. PICK a \in Int, b \in Int, c \in Int, d \in Int :
            a = f[x] /\ b = g[x] /\ c = SumFunctionOnSet(f, T \ {x}) /\ d = SumFunctionOnSet(g, T \ {x})
      BY <3>5, <3>6
    <3>8. a + c <= b + d
      BY <3>4, <3>6, <3>7
    <3> QED
      BY <3>3, <3>7, <3>8
  <2> QED
    BY <2>1, <2>2
<1>2. S \in E
  <2> HIDE DEF E
  <2> QED
    BY <1>1, SubsetInduction
<1> QED
  BY <1>2

\* The sum over two sets that share nothing.
LEMMA SumDisjoint ==
  ASSUME NEW A, NEW B, IsFiniteSet(A), IsFiniteSet(B), A \intersect B = {},
         NEW f, \A x \in A \union B : f[x] \in Int
  PROVE  SumFunctionOnSet(f, A \union B) = SumFunctionOnSet(f, A) + SumFunctionOnSet(f, B)
<1> DEFINE E == {T \in SUBSET B : SumFunctionOnSet(f, A \union T)
                                   = SumFunctionOnSet(f, A) + SumFunctionOnSet(f, T)}
<1>0. SumFunctionOnSet(f, A) \in Int
  BY SumInt
<1>1. ASSUME NEW T \in SUBSET B, \A U \in (SUBSET T) \ {T} : U \in E
      PROVE  T \in E
  <2>1. CASE T = {}
    <3>1. A \union T = A /\ SumFunctionOnSet(f, T) = 0
      BY <2>1, SumEmpty
    <3> QED
      BY <1>0, <3>1
  <2>2. CASE T # {}
    <3>1. PICK x \in T : TRUE
      BY <2>2
    <3>2. PICK R, AT, AR : R = T \ {x} /\ AT = A \union T /\ AR = A \union R
      OBVIOUS
    <3>3. IsFiniteSet(T) /\ IsFiniteSet(R) /\ IsFiniteSet(AT)
      BY <3>2, FS_Subset, FS_Union
    <3>4. x \in AT /\ AT \ {x} = AR
      BY <3>1, <3>2
    <3>5. SumFunctionOnSet(f, T) = f[x] + SumFunctionOnSet(f, R)
      BY <3>1, <3>2, <3>3, SumTakesOut
    <3>6. SumFunctionOnSet(f, AT) = f[x] + SumFunctionOnSet(f, AR)
      <4>1. \A y \in AT : f[y] \in Int
        BY <3>2
      <4>2. SumFunctionOnSet(f, AT) = f[x] + SumFunctionOnSet(f, AT \ {x})
        BY <3>3, <3>4, <4>1, SumTakesOut
      <4> QED
        BY <3>4, <4>2
    <3>7. SumFunctionOnSet(f, AR) = SumFunctionOnSet(f, A) + SumFunctionOnSet(f, R)
      BY <1>1, <3>1, <3>2
    <3>8. SumFunctionOnSet(f, R) \in Int /\ f[x] \in Int
      BY <3>1, <3>2, <3>3, SumInt
    <3>9. PICK a \in Int, r \in Int, b \in Int :
            a = SumFunctionOnSet(f, A) /\ r = SumFunctionOnSet(f, R) /\ b = f[x]
      BY <1>0, <3>8
    <3>10. b + (a + r) = a + (b + r)
      OBVIOUS
    <3> QED
      BY <3>2, <3>5, <3>6, <3>7, <3>9, <3>10
  <2> QED
    BY <2>1, <2>2
<1>2. B \in E
  <2> HIDE DEF E
  <2> QED
    BY <1>1, SubsetInduction
<1> QED
  BY <1>2

\* The sum over many sets that share nothing is the sum of their sums.
LEMMA SumUnions ==
  ASSUME NEW K, IsFiniteSet(K), NEW A, \A k \in K : IsFiniteSet(A[k]),
         \A k, l \in K : k # l => A[k] \intersect A[l] = {},
         NEW f, \A k \in K : \A x \in A[k] : f[x] \in Int,
         NEW g, \A k \in K : g[k] = SumFunctionOnSet(f, A[k])
  PROVE  /\ IsFiniteSet(UNION {A[k] : k \in K})
         /\ SumFunctionOnSet(f, UNION {A[k] : k \in K}) = SumFunctionOnSet(g, K)
<1> DEFINE All(T) == UNION {A[k] : k \in T}
           E == {T \in SUBSET K : /\ IsFiniteSet(All(T))
                                  /\ SumFunctionOnSet(f, All(T)) = SumFunctionOnSet(g, T)}
<1>1. ASSUME NEW T \in SUBSET K, \A U \in (SUBSET T) \ {T} : U \in E
      PROVE  T \in E
  <2>1. CASE T = {}
    <3>1. All(T) = {}
      BY <2>1
    <3> HIDE DEF All
    <3> QED
      BY <2>1, <3>1, SumEmpty, FS_EmptySet
  <2>2. CASE T # {}
    <3>1. PICK k \in T : TRUE
      BY <2>2
    <3>2. PICK R, AR, Ak : R = T \ {k} /\ AR = All(R) /\ Ak = A[k]
      OBVIOUS
    <3>3. All(T) = AR \union Ak
      BY <3>1, <3>2
    <3>4. AR \intersect Ak = {}
      BY <3>1, <3>2
    <3>5. IsFiniteSet(AR) /\ SumFunctionOnSet(f, AR) = SumFunctionOnSet(g, R)
      BY <1>1, <3>1, <3>2
    <3>6. IsFiniteSet(Ak) /\ \A x \in AR \union Ak : f[x] \in Int
      BY <3>1, <3>2
    <3> HIDE DEF All
    <3>7. SumFunctionOnSet(f, AR \union Ak) = SumFunctionOnSet(f, AR) + SumFunctionOnSet(f, Ak)
      BY <3>4, <3>5, <3>6, SumDisjoint
    <3>8. IsFiniteSet(AR \union Ak)
      BY <3>5, <3>6, FS_Union
    <3>9. IsFiniteSet(R) /\ k \notin R /\ T = R \union {k} /\ R \subseteq K
      BY <3>1, <3>2, FS_Subset
    <3>10. \A l \in K : g[l] \in Int
      BY SumInt
    <3>11. SumFunctionOnSet(g, T) = SumFunctionOnSet(g, R) + g[k]
      <4>1. g[k] \in Int /\ \A l \in R : g[l] \in Int
        BY <3>1, <3>9, <3>10
      <4>2. SumFunctionOnSet(g, R \union {k}) = SumFunctionOnSet(g, R) + g[k]
        BY <3>9, <4>1, SumPutsIn
      <4> QED
        BY <3>9, <4>2
    <3>12. g[k] = SumFunctionOnSet(f, Ak)
      BY <3>1, <3>2
    <3> QED
      BY <3>3, <3>5, <3>7, <3>8, <3>11, <3>12
  <2> QED
    BY <2>1, <2>2
<1>2. K \in E
  <2> HIDE DEF E
  <2> QED
    BY <1>1, SubsetInduction
<1> QED
  BY <1>2

\* The sequence of a finite set holds each of its elements once.
LEMMA SetToSeqIs ==
  ASSUME NEW S, IsFiniteSet(S)
  PROVE  LET s == SetToSeq(S)
         IN  /\ s \in Seq(S)
             /\ ToSet(s) = S
             /\ \A i, j \in DOMAIN s : s[i] = s[j] => i = j
<1>1. PICK n : n = Cardinality(S)
  OBVIOUS
<1>2. n \in Nat /\ ExistsBijection(1..n, S)
  BY <1>1, FS_CardinalityType
<1>3. \E f \in [1..n -> S] : IsInjective(f)
  BY <1>2 DEF ExistsBijection, Bijection, Injection
<1>4. PICK s : s = SetToSeq(S) /\ s \in [1..n -> S] /\ IsInjective(s)
  BY <1>1, <1>3 DEF SetToSeq
<1>5. IsFiniteSet(1..n) /\ Cardinality(1..n) = n
  BY <1>2, FS_Interval
<1>6. s \in Surjection(1..n, S)
  <2>1. s \in Injection(1..n, S)
    BY <1>4 DEF Injection
  <2> QED
    BY <1>1, <1>5, <2>1, FS_Injection
<1>7. s \in Seq(S) /\ \A i, j \in DOMAIN s : s[i] = s[j] => i = j
  BY <1>2, <1>4 DEF IsInjective
<1>8. ToSet(s) = S
  BY <1>4, <1>6 DEF Surjection, ToSet
<1> QED
  BY <1>4, <1>7, <1>8

-----------------------------------------------------------------------------
(* Backwards: from the last number to the first.                            *)

\* Induction from n down to 1.
LEMMA DownFrom ==
  ASSUME NEW n \in Nat, NEW F,
         \A i \in 1..n : (\A j \in (i + 1)..n : j \in F) => i \in F
  PROVE  \A i \in 1..n : i \in F
<1> DEFINE G == {k \in 0..n : \A j \in (n - k + 1)..n : j \in F}
<1>1. 0 \in G
  OBVIOUS
<1>2. ASSUME NEW k \in 0..(n - 1), k \in G PROVE k + 1 \in G
  <2>1. \A j \in (n - k + 1)..n : j \in F
    BY <1>2
  <2>2. n - k \in 1..n /\ k + 1 \in 0..n
    OBVIOUS
  <2>3. n - k \in F
    BY <2>1, <2>2
  <2>4. \A j \in (n - (k + 1) + 1)..n : j = n - k \/ j \in (n - k + 1)..n
    OBVIOUS
  <2> QED
    BY <2>1, <2>2, <2>3, <2>4
<1>3. n \in 0..n
  OBVIOUS
<1>4. n \in G
  <2> HIDE DEF G
  <2> QED
    BY <1>1, <1>2, <1>3, UpTo
<1> QED
  BY <1>4

\* K[i]: the nodes right below node i of a forest, all of greater number.
RightBelow(K, n) == K \in [1..n -> SUBSET (1..n)] /\ \A i \in 1..n : \A j \in K[i] : i < j

\* H computes a value in V for a node from those of the nodes right below it.
Computes(H, K, n, V) == \A i \in 1..n : \A g \in [K[i] -> V] : H[<<i, g>>] \in V

Solves(f, H, K, n, V) ==
  f \in [1..n -> V] /\ \A i \in 1..n : f[i] = H[<<i, [j \in K[i] |-> f[j]]>>]

\* A recursion over a forest has a solution.
LEMMA Backward ==
  ASSUME NEW n \in Nat, NEW V, NEW K, RightBelow(K, n), NEW H, Computes(H, K, n, V)
  PROVE  \E f : Solves(f, H, K, n, V)
<1>0. /\ K \in [1..n -> SUBSET (1..n)] /\ \A i \in 1..n : \A j \in K[i] : i < j
      /\ \A i \in 1..n : \A g \in [K[i] -> V] : H[<<i, g>>] \in V
  BY DEF RightBelow, Computes
<1> DEFINE D(k) == (n - k + 1)..n
           Good(k, f) == /\ f \in [D(k) -> V]
                         /\ \A i \in D(k) : f[i] = H[<<i, [j \in K[i] |-> f[j]]>>]
           F == {k \in 0..n : \E f : Good(k, f)}
<1>1. 0 \in F
  <2>1. D(0) = {}
    OBVIOUS
  <2>2. Good(0, [i \in D(0) |-> H])
    BY <2>1
  <2>3. \E f : Good(0, f)
    <3> HIDE DEF Good
    <3> QED
      BY <2>2
  <2> HIDE DEF Good
  <2> QED
    BY <2>3
<1>2. ASSUME NEW k \in 0..(n - 1), k \in F PROVE k + 1 \in F
  <2>1. PICK f : Good(k, f)
    BY <1>2
  <2>2. PICK i : i = n - k
    OBVIOUS
  <2>3. i \in 1..n /\ D(k + 1) = D(k) \union {i} /\ i \notin D(k) /\ D(k) \subseteq 1..n
    BY <2>2
  <2>4. \A l \in D(k + 1) : K[l] \subseteq D(k)
    <3>1. ASSUME NEW l \in D(k + 1), NEW j \in K[l] PROVE j \in D(k)
      <4>1. l \in 1..n /\ l >= n - k
        BY <2>3, <2>2
      <4>2. j \in 1..n /\ l < j
        BY <1>0, <4>1
      <4> QED
        BY <4>1, <4>2
    <3> QED
      BY <3>1
  <2>5. PICK g : g = [l \in D(k + 1) |-> H[<<l, [j \in K[l] |-> f[j]]>>]]
    OBVIOUS
  <2>6. \A l \in D(k) : g[l] = f[l]
    BY <2>1, <2>3, <2>5
  <2>7. \A l \in D(k + 1) : [j \in K[l] |-> f[j]] = [j \in K[l] |-> g[j]]
    <3> HIDE DEF D
    <3> QED
      BY <2>4, <2>6
  <2>8. g \in [D(k + 1) -> V]
    <3>1. \A l \in D(k + 1) : l \in 1..n /\ [j \in K[l] |-> f[j]] \in [K[l] -> V]
      <4> HIDE DEF D
      <4> QED
        BY <2>1, <2>3, <2>4
    <3>2. \A l \in D(k + 1) : H[<<l, [j \in K[l] |-> f[j]]>>] \in V
      <4> HIDE DEF D
      <4> QED
        BY <1>0, <3>1
    <3> HIDE DEF D
    <3> QED
      BY <2>5, <3>2
  <2>9. \A l \in D(k + 1) : g[l] = H[<<l, [j \in K[l] |-> g[j]]>>]
    <3> HIDE DEF D
    <3> QED
      BY <2>5, <2>7
  <2>10. Good(k + 1, g)
    BY <2>8, <2>9
  <2>11. \E h : Good(k + 1, h)
    <3> HIDE DEF Good
    <3> QED
      BY <2>10
  <2> HIDE DEF Good
  <2> QED
    BY <2>11
<1>3. n \in 0..n
  OBVIOUS
<1>4. n \in F
  <2> HIDE DEF F
  <2> QED
    BY <1>1, <1>2, <1>3, UpTo
<1>5. PICK f : Good(n, f)
  BY <1>4
<1>6. D(n) = 1..n
  OBVIOUS
<1>7. Solves(f, H, K, n, V)
  BY <1>5, <1>6 DEF Solves
<1> QED
  BY <1>7
-----------------------------------------------------------------------------
(* The n-th element of an ordered set.                                      *)

\* Of a finite set that R orders strictly, one element has n - 1 before it.
LEMMA Ranked ==
  ASSUME NEW S, IsFiniteSet(S), NEW R,
         \A x, y \in S : x # y => <<x, y>> \in R \/ <<y, x>> \in R,
         \A x, y \in S : ~(<<x, y>> \in R /\ <<y, x>> \in R),
         \A x, y, z \in S : <<x, y>> \in R /\ <<y, z>> \in R => <<x, z>> \in R
  PROVE  \A n \in 1..Cardinality(S) : \E x \in S : Cardinality({y \in S : <<y, x>> \in R}) = n - 1
<1> DEFINE Under(x) == {y \in S : <<y, x>> \in R}
           C == Cardinality(S)
           place == [x \in S |-> Cardinality(Under(x)) + 1]
<1>1. C \in Nat
  BY FS_CardinalityType
<1>2. \A x \in S : IsFiniteSet(Under(x)) /\ Cardinality(Under(x)) \in Nat
  BY FS_Subset, FS_CardinalityType
<1>3. ASSUME NEW x \in S PROVE Cardinality(Under(x)) + 1 \in 1..C
  <2>1. Under(x) \subseteq S /\ x \notin Under(x)
    OBVIOUS
  <2>2. Cardinality(Under(x)) <= C /\ Cardinality(Under(x)) # C
    <3> HIDE DEF Under
    <3> QED
      BY <2>1, FS_Subset
  <2>3. PICK k, l \in Nat : k = Cardinality(Under(x)) /\ l = C
    BY <1>1, <1>2
  <2>4. k + 1 \in 1..l
    BY <2>2, <2>3
  <2> HIDE DEF Under, C
  <2> QED
    BY <2>3, <2>4
<1>4. ASSUME NEW x \in S, NEW y \in S, <<x, y>> \in R
      PROVE  Cardinality(Under(x)) < Cardinality(Under(y))
  <2>1. x \in Under(y) /\ x \notin Under(x) /\ Under(x) \subseteq Under(y)
    BY <1>4
  <2>2. Cardinality(Under(x)) <= Cardinality(Under(y)) /\ Cardinality(Under(x)) # Cardinality(Under(y))
    <3> HIDE DEF Under
    <3> QED
      BY <1>2, <2>1, FS_Subset
  <2> HIDE DEF Under
  <2> QED
    BY <1>2, <2>2
<1>5. place \in Injection(S, 1..C)
  <2>1. place \in [S -> 1..C]
    BY <1>3
  <2>2. ASSUME NEW x \in S, NEW y \in S, place[x] = place[y], x # y PROVE FALSE
    <3>1. Cardinality(Under(x)) + 1 = Cardinality(Under(y)) + 1
      BY <2>2
    <3>2. <<x, y>> \in R \/ <<y, x>> \in R
      BY <2>2
    <3> HIDE DEF Under
    <3> QED
      BY <1>2, <1>4, <3>1, <3>2
  <2> QED
    BY <2>1, <2>2 DEF Injection, IsInjective
<1>6. IsFiniteSet(1..C) /\ Cardinality(1..C) = C
  BY <1>1, FS_Interval
<1>7. place \in Surjection(S, 1..C)
  <2> HIDE DEF place
  <2> QED
    BY <1>5, <1>6, FS_Injection
<1> SUFFICES ASSUME NEW n \in 1..C PROVE \E x \in S : Cardinality(Under(x)) = n - 1
  OBVIOUS
<1>8. PICK x \in S : place[x] = n
  BY <1>7 DEF Surjection
<1>9. Cardinality(Under(x)) + 1 = n
  BY <1>8
<1>10. Cardinality(Under(x)) = n - 1
  <2> HIDE DEF Under
  <2> QED
    BY <1>2, <1>9
<1> QED
  BY <1>10
=============================================================================
