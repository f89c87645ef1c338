----------------------------- MODULE UpmapProofs -----------------------------
(***************************************************************************)
(* What the operators of Upmap return, for the proofs about the commands.  *)
(*                                                                         *)
(* A fold is a recursion over the sets of a sequence's indices, solved by   *)
(* the lemmas of SumProofs, so that Ceph's up set and pgremapper's entry    *)
(* can be reasoned about pair by pair.  The result the commands rest on is *)
(* ImportedApplies: the pairs a command prints, unless they chain, make the *)
(* up set it planned.                                                      *)
(***************************************************************************)
EXTENDS Upmap, SumProofs

(* The up set of an entry, pair by pair.                                    *)

\* What a slot holds.
MaybeOsd == Osd \union {None}

\* Applying a pair keeps a list one of OSDs, of the same slots.
LEMMA ApplyPairType ==
  ASSUME NEW D, NEW osds \in [D -> MaybeOsd], NEW pair \in Osd \X Osd
  PROVE  ApplyPair(osds, pair) \in [D -> MaybeOsd]
BY DEF ApplyPair, ReplaceFirst, MaybeOsd

\* The up set of an entry, pair by pair.
LEMMA CephUpSteps ==
  ASSUME NEW raw, raw \in [DOMAIN raw -> MaybeOsd], NEW entry \in Seq(Osd \X Osd)
  PROVE  \E F : /\ F[0] = raw
                /\ \A k \in 1..Len(entry) : F[k] = ApplyPair(F[k - 1], entry[k])
                /\ CephUp(raw, entry) = F[Len(entry)]
<1>1. PICK n, V : n = Len(entry) /\ V = [DOMAIN raw -> MaybeOsd]
  OBVIOUS
<1>2. n \in Nat /\ DOMAIN entry = 1..n /\ raw \in V
  BY <1>1
<1> DEFINE s == [kv \in (1..n) \X V |-> ApplyPair(kv[2], entry[kv[1]])]
<1>3. \A k \in 1..n : \A v \in V : ApplyPair(v, entry[k]) \in V
  BY <1>1, ApplyPairType
<1>4. PICK step : step = s
  OBVIOUS
<1>5. step \in [(1..n) \X V -> V]
  BY <1>3, <1>4
<1>6. PICK f \in [SUBSET (1..n) -> V] : FoldTable(f, n, raw, step)
  BY <1>2, <1>5, FoldExists
<1> DEFINE Eq(iter) == iter = [T \in SUBSET (1..n) |->
                IF T = {} THEN raw ELSE ApplyPair(iter[T \ {Max(T)}], entry[Max(T)])]
<1>7. Eq(f)
  <2> SUFFICES ASSUME NEW T \in SUBSET (1..n), T # {}
               PROVE  f[T] = ApplyPair(f[T \ {Max(T)}], entry[Max(T)])
    BY <1>6 DEF FoldTable
  <2>1. Max(T) \in 1..n
    BY <1>2, LastOf
  <2>2. <<Max(T), f[T \ {Max(T)}]>> \in (1..n) \X V
    BY <1>6, <2>1
  <2>3. step[<<Max(T), f[T \ {Max(T)}]>>] = ApplyPair(f[T \ {Max(T)}], entry[Max(T)])
    BY <1>4, <2>2
  <2> QED
    BY <1>6, <2>3 DEF FoldTable
<1>8. PICK iter : Eq(iter) /\ CephUp(raw, entry) = iter[1..n]
  <2> DEFINE chosen == CHOOSE iter : Eq(iter)
  <2>1. CephUp(raw, entry) = chosen[1..n]
    BY <1>2, Zenon DEF CephUp, FoldLeft, MapThenFoldSet
  <2>2. Eq(chosen)
    <3> HIDE DEF Eq
    <3> QED
      BY <1>7
  <2> HIDE DEF chosen
  <2> QED
    BY <2>1, <2>2
<1> PICK F : F = [k \in 0..n |-> iter[1..k]]
  OBVIOUS
<1>9. F[0] = raw
  BY <1>2, <1>8
<1>10. ASSUME NEW k \in 1..n PROVE F[k] = ApplyPair(F[k - 1], entry[k])
  <2>1. k \in 0..n /\ k - 1 \in 0..n /\ 1..k \in SUBSET (1..n) /\ 1..k # {}
    BY <1>2
  <2>2. Max(1..k) = k /\ (1..k) \ {k} = 1..(k - 1)
    BY <1>2, LastOf
  <2>3. iter[1..k] = ApplyPair(iter[1..(k - 1)], entry[k])
    BY <1>8, <2>1, <2>2
  <2> QED
    BY <2>1, <2>3
<1>11. CephUp(raw, entry) = F[n]
  BY <1>2, <1>8
<1> QED
  BY <1>1, <1>9, <1>10, <1>11

\* An up set has the slots of the mapping it is made of.
LEMMA CephUpType ==
  ASSUME NEW raw, raw \in [DOMAIN raw -> MaybeOsd], NEW entry \in Seq(Osd \X Osd)
  PROVE  CephUp(raw, entry) \in [DOMAIN raw -> MaybeOsd]
<1>1. PICK n, V : n = Len(entry) /\ V = [DOMAIN raw -> MaybeOsd]
  OBVIOUS
<1>2. n \in Nat /\ raw \in V /\ \A k \in 1..n : entry[k] \in Osd \X Osd
  BY <1>1
<1>3. PICK F : /\ F[0] = raw
               /\ \A k \in 1..n : F[k] = ApplyPair(F[k - 1], entry[k])
               /\ CephUp(raw, entry) = F[n]
  BY <1>1, CephUpSteps
<1> DEFINE K == {k \in 0..n : F[k] \in V}
<1>4. 0 \in K
  BY <1>2, <1>3
<1>5. ASSUME NEW k \in 0..(n - 1), k \in K PROVE k + 1 \in K
  <2>1. k + 1 \in 1..n /\ k + 1 \in 0..n /\ (k + 1) - 1 = k
    BY <1>2
  <2>2. F[k] \in V /\ F[k + 1] = ApplyPair(F[k], entry[k + 1])
    BY <1>3, <1>5, <2>1
  <2>3. F[k + 1] \in V
    BY <1>1, <1>2, <2>1, <2>2, ApplyPairType
  <2> QED
    BY <2>1, <2>3
<1>6. n \in K
  <2> HIDE DEF K
  <2> QED
    BY <1>2, <1>4, <1>5, UpTo
<1> QED
  BY <1>1, <1>3, <1>6

\* An entry is applied as its first pairs, and then the rest to what they made.
LEMMA CephUpJoins ==
  ASSUME NEW raw, raw \in [DOMAIN raw -> MaybeOsd],
         NEW a \in Seq(Osd \X Osd), NEW b \in Seq(Osd \X Osd)
  PROVE  CephUp(raw, a \o b) = CephUp(CephUp(raw, a), b)
<1>1. PICK c, m, n, mid : /\ c = a \o b /\ m = Len(a) /\ n = Len(b)
                          /\ mid = CephUp(raw, a)
  OBVIOUS
<1>2. /\ m \in Nat /\ n \in Nat /\ Len(c) = m + n /\ c \in Seq(Osd \X Osd)
      /\ \A k \in 1..m : c[k] = a[k]
      /\ \A k \in 1..n : c[m + k] = b[k]
  BY <1>1
<1>3. mid \in [DOMAIN raw -> MaybeOsd] /\ DOMAIN mid = DOMAIN raw /\ mid \in [DOMAIN mid -> MaybeOsd]
  <2>1. mid \in [DOMAIN raw -> MaybeOsd]
    BY <1>1, CephUpType
  <2> QED
    BY <2>1
<1>4. PICK F : /\ F[0] = raw
               /\ \A k \in 1..Len(c) : F[k] = ApplyPair(F[k - 1], c[k])
               /\ CephUp(raw, c) = F[Len(c)]
  BY <1>2, CephUpSteps
<1>5. PICK G : /\ G[0] = raw
               /\ \A k \in 1..m : G[k] = ApplyPair(G[k - 1], a[k])
               /\ mid = G[m]
  <2>1. \E G : /\ G[0] = raw
               /\ \A k \in 1..Len(a) : G[k] = ApplyPair(G[k - 1], a[k])
               /\ CephUp(raw, a) = G[Len(a)]
    BY CephUpSteps
  <2> QED
    BY <1>1, <2>1
<1>6. PICK H : /\ H[0] = mid
               /\ \A k \in 1..n : H[k] = ApplyPair(H[k - 1], b[k])
               /\ CephUp(mid, b) = H[n]
  <2>1. \E H : /\ H[0] = mid
               /\ \A k \in 1..Len(b) : H[k] = ApplyPair(H[k - 1], b[k])
               /\ CephUp(mid, b) = H[Len(b)]
    BY <1>3, CephUpSteps
  <2> QED
    BY <1>1, <2>1
<1>7. F[m] = mid
  <2> DEFINE K == {k \in 0..m : F[k] = G[k]}
  <2>1. 0 \in K
    BY <1>2, <1>4, <1>5
  <2>2. ASSUME NEW k \in 0..(m - 1), k \in K PROVE k + 1 \in K
    <3>1. k + 1 \in 1..m /\ k + 1 \in 0..m /\ k + 1 \in 1..Len(c) /\ (k + 1) - 1 = k
      BY <1>2
    <3>2. F[k + 1] = ApplyPair(F[k], c[k + 1]) /\ G[k + 1] = ApplyPair(G[k], a[k + 1])
      BY <1>4, <1>5, <3>1
    <3>3. F[k + 1] = G[k + 1]
      BY <1>2, <2>2, <3>1, <3>2
    <3> QED
      BY <3>1, <3>3
  <2>3. m \in K
    <3> HIDE DEF K
    <3> QED
      BY <1>2, <2>1, <2>2, UpTo
  <2> QED
    BY <1>5, <2>3
<1>8. F[m + n] = H[n]
  <2> DEFINE K == {k \in 0..n : F[m + k] = H[k]}
  <2>1. 0 \in K
    BY <1>2, <1>6, <1>7
  <2>2. ASSUME NEW k \in 0..(n - 1), k \in K PROVE k + 1 \in K
    <3>1. /\ k + 1 \in 1..n /\ k + 1 \in 0..n /\ (k + 1) - 1 = k
          /\ m + (k + 1) \in 1..Len(c) /\ (m + (k + 1)) - 1 = m + k
      BY <1>2
    <3>2. /\ F[m + (k + 1)] = ApplyPair(F[m + k], c[m + (k + 1)])
          /\ H[k + 1] = ApplyPair(H[k], b[k + 1])
      BY <1>4, <1>6, <3>1
    <3>3. F[m + (k + 1)] = H[k + 1]
      BY <1>2, <2>2, <3>1, <3>2
    <3> QED
      BY <3>1, <3>3
  <2>3. n \in K
    <3> HIDE DEF K
    <3> QED
      BY <1>2, <2>1, <2>2, UpTo
  <2> QED
    BY <2>3
<1> QED
  BY <1>1, <1>2, <1>4, <1>6, <1>8

-----------------------------------------------------------------------------
(* Pairs that are dropped.                                                  *)

OsdPair == Osd \X Osd

\* No two pairs of the sequence have the same first (1) or second (2) OSD.
Once(pairs, end) == \A i, j \in DOMAIN pairs : pairs[i][end] = pairs[j][end] => i = j

\* What is left when some pairs are dropped.
LEMMA WithoutIs ==
  ASSUME NEW pairs \in Seq(OsdPair), NEW dropped
  PROVE  LET w == Without(pairs, dropped)
         IN  /\ w \in Seq(OsdPair)
             /\ ToSet(w) = ToSet(pairs) \ dropped
             /\ \A end \in {1, 2} : Once(pairs, end) => Once(w, end)
<1>1. PICK n, V : n = Len(pairs) /\ V = Seq(OsdPair)
  OBVIOUS
<1>2. n \in Nat /\ DOMAIN pairs = 1..n /\ <<>> \in V /\ \A k \in 1..n : pairs[k] \in OsdPair
  BY <1>1
<1> DEFINE op(v, p) == IF p \in dropped THEN v ELSE Append(v, p)
           s == [kv \in (1..n) \X V |-> op(kv[2], pairs[kv[1]])]
<1>3. \A k \in 1..n : \A v \in V : op(v, pairs[k]) \in V
  BY <1>1, <1>2
<1>4. PICK step : step = s
  OBVIOUS
<1>5. step \in [(1..n) \X V -> V]
  <2> HIDE DEF op
  <2> QED
    BY <1>3, <1>4
<1>6. PICK f \in [SUBSET (1..n) -> V] : FoldTable(f, n, <<>>, step)
  BY <1>2, <1>5, FoldExists
<1> DEFINE Eq(iter) == iter = [T \in SUBSET (1..n) |->
                IF T = {} THEN <<>> ELSE op(iter[T \ {Max(T)}], pairs[Max(T)])]
<1>7. Eq(f)
  <2> SUFFICES ASSUME NEW T \in SUBSET (1..n), T # {}
               PROVE  f[T] = op(f[T \ {Max(T)}], pairs[Max(T)])
    BY <1>6 DEF FoldTable
  <2>1. Max(T) \in 1..n
    BY <1>2, LastOf
  <2>2. <<Max(T), f[T \ {Max(T)}]>> \in (1..n) \X V
    BY <1>6, <2>1
  <2> HIDE DEF op
  <2>3. step[<<Max(T), f[T \ {Max(T)}]>>] = op(f[T \ {Max(T)}], pairs[Max(T)])
    BY <1>4, <2>2
  <2> QED
    BY <1>6, <2>3 DEF FoldTable
<1>8. PICK iter : Eq(iter) /\ Without(pairs, dropped) = iter[1..n]
  <2> DEFINE chosen == CHOOSE iter : Eq(iter)
  <2>1. Without(pairs, dropped) = chosen[1..n]
    BY <1>2, Zenon DEF Without, FoldLeft, MapThenFoldSet
  <2>2. Eq(chosen)
    <3> HIDE DEF Eq
    <3> QED
      BY <1>7
  <2> HIDE DEF chosen
  <2> QED
    BY <2>1, <2>2
\* Each prefix leaves those of its pairs, each from an index of its own.
<1> DEFINE From(w, k, h) == /\ w \in V
                            /\ h \in [DOMAIN w -> 1..k]
                            /\ \A i, j \in DOMAIN w : h[i] = h[j] => i = j
                            /\ \A i \in DOMAIN w : w[i] = pairs[h[i]]
                            /\ \A j \in 1..k : pairs[j] \in dropped \/ \E i \in DOMAIN w : h[i] = j
                            /\ \A i \in DOMAIN w : w[i] \notin dropped
           K == {k \in 0..n : \E h : From(iter[1..k], k, h)}
<1>9. 0 \in K
  <2>1. iter[1..0] = <<>>
    BY <1>8
  <2>2. From(<<>>, 0, <<>>)
    BY <1>2
  <2>3. \E h : From(iter[1..0], 0, h)
    <3> HIDE DEF From
    <3> QED
      BY <2>1, <2>2
  <2> HIDE DEF From
  <2> QED
    BY <1>2, <2>3
<1>10. ASSUME NEW k \in 0..(n - 1), k \in K PROVE k + 1 \in K
  <2>1. k \in Nat /\ k + 1 \in 1..n /\ k + 1 \in 0..n /\ (k + 1) - 1 = k
    BY <1>2
  <2>2. PICK h : From(iter[1..k], k, h)
    BY <1>10
  <2>3. iter[1..(k + 1)] = op(iter[1..k], pairs[k + 1])
    <3>1. 1..(k + 1) \in SUBSET (1..n) /\ 1..(k + 1) # {}
      <4>1. k + 1 \in 1..(k + 1) /\ k + 1 <= n /\ k + 1 \in Nat
        BY <1>2, <2>1
      <4>2. \A x \in 1..(k + 1) : x \in 1..n
        BY <1>2, <4>1
      <4> QED
        BY <4>1, <4>2
    <3>2. Max(1..(k + 1)) = k + 1 /\ (1..(k + 1)) \ {k + 1} = 1..k
      BY <1>2, <2>1, LastOf
    <3> HIDE DEF op
    <3> QED
      BY <1>8, <3>1, <3>2
  <2>4. PICK w : w = iter[1..k]
    OBVIOUS
  <2>5. w \in V /\ DOMAIN w = 1..Len(w) /\ Len(w) \in Nat
    BY <1>1, <2>2, <2>4
  <2>6. CASE pairs[k + 1] \in dropped
    <3>1. iter[1..(k + 1)] = w
      BY <2>3, <2>4, <2>6
    <3>2. 1..k \subseteq 1..(k + 1) /\ \A j \in 1..(k + 1) : j \in 1..k \/ j = k + 1
      BY <2>1
    <3>3. From(w, k + 1, h)
      BY <2>2, <2>4, <2>6, <3>2
    <3>4. \E g : From(iter[1..(k + 1)], k + 1, g)
      <4> HIDE DEF From
      <4> QED
        BY <3>1, <3>3
    <3> HIDE DEF From
    <3> QED
      BY <2>1, <3>4
  <2>7. CASE pairs[k + 1] \notin dropped
    <3>1. PICK v : v = Append(w, pairs[k + 1])
      OBVIOUS
    <3>2. iter[1..(k + 1)] = v
      BY <2>3, <2>4, <2>7, <3>1
    <3>3. /\ v \in V /\ DOMAIN v = 1..(Len(w) + 1)
          /\ \A i \in DOMAIN w : v[i] = w[i]
          /\ v[Len(w) + 1] = pairs[k + 1]
      BY <1>1, <1>2, <2>1, <2>5, <3>1
    <3>4. \A i \in DOMAIN v : i \in DOMAIN w \/ i = Len(w) + 1
      BY <2>5, <3>3
    <3>5. PICK g : g = [i \in DOMAIN v |-> IF i \in DOMAIN w THEN h[i] ELSE k + 1]
      OBVIOUS
    <3>6. /\ \A i \in DOMAIN w : i \in DOMAIN v /\ g[i] = h[i] /\ h[i] \in 1..k
          /\ Len(w) + 1 \notin DOMAIN w /\ Len(w) + 1 \in DOMAIN v
          /\ g[Len(w) + 1] = k + 1
      BY <2>2, <2>4, <2>5, <3>3, <3>5
    <3>7. k + 1 \notin 1..k /\ 1..k \subseteq 1..(k + 1) /\ k + 1 \in 1..(k + 1)
          /\ \A j \in 1..(k + 1) : j \in 1..k \/ j = k + 1
      BY <2>1
    <3>8. g \in [DOMAIN v -> 1..(k + 1)]
      BY <3>4, <3>5, <3>6, <3>7
    <3>9. \A i, j \in DOMAIN v : g[i] = g[j] => i = j
      BY <2>2, <2>4, <3>4, <3>6, <3>7
    <3>10. \A i \in DOMAIN v : v[i] = pairs[g[i]] /\ v[i] \notin dropped
      BY <2>2, <2>4, <2>7, <3>3, <3>4, <3>6
    <3>11. \A j \in 1..(k + 1) : pairs[j] \in dropped \/ \E i \in DOMAIN v : g[i] = j
      BY <2>2, <2>4, <3>6, <3>7
    <3>12. From(v, k + 1, g)
      BY <3>3, <3>8, <3>9, <3>10, <3>11
    <3>13. \E x : From(iter[1..(k + 1)], k + 1, x)
      <4> HIDE DEF From
      <4> QED
        BY <3>2, <3>12
    <3> HIDE DEF From
    <3> QED
      BY <2>1, <3>13
  <2> QED
    BY <2>6, <2>7
<1>11. n \in K
  <2>1. n \in 0..n
    BY <1>2
  <2> HIDE DEF K
  <2> QED
    BY <1>2, <1>9, <1>10, <2>1, UpTo
<1>12. PICK w, h : w = Without(pairs, dropped) /\ From(w, n, h)
  BY <1>8, <1>11
<1>13. ToSet(w) = ToSet(pairs) \ dropped
  BY <1>2, <1>12 DEF ToSet
<1>14. ASSUME NEW end \in {1, 2}, Once(pairs, end) PROVE Once(w, end)
  BY <1>2, <1>12, <1>14 DEF Once
<1> QED
  BY <1>1, <1>12, <1>13, <1>14

-----------------------------------------------------------------------------
(* Entries that do not chain.                                               *)

\* An entry of pairs that do not chain, each for an OSD of its own that CRUSH picked.
Plain(raw, entry) ==
  /\ raw \in Seq(MaybeOsd) /\ OsdsDistinct(raw)
  /\ entry \in Seq(OsdPair) /\ Once(entry, 1) /\ ~Chained(entry)
  /\ \A p \in ToSet(entry) : p[1] \in ToSet(raw)

\* 'osds' is raw with the pairs of the indices A in effect, of the first k; the others
\* map to an OSD that is there already.
InEffect(raw, entry, k, osds, A) ==
  /\ A \subseteq 1..k
  /\ osds \in [DOMAIN raw -> MaybeOsd]
  /\ \A j \in DOMAIN raw : \A i \in A : entry[i][1] = raw[j] => osds[j] = entry[i][2]
  /\ \A j \in DOMAIN raw : (\A i \in A : entry[i][1] # raw[j]) => osds[j] = raw[j]
  /\ \A i \in A : entry[i][1] # entry[i][2]
  /\ \A i \in (1..k) \ A : \/ entry[i][2] \in ToSet(raw)
                           \/ \E a \in A : a # i /\ entry[a][2] = entry[i][2]

\* One more pair.
LEMMA PairInEffect ==
  ASSUME NEW raw, NEW entry, Plain(raw, entry),
         NEW k \in 0..(Len(entry) - 1), NEW osds, NEW A, InEffect(raw, entry, k, osds, A)
  PROVE  \E B : InEffect(raw, entry, k + 1, ApplyPair(osds, entry[k + 1]), B)
<1>1. PICK f, t : f = entry[k + 1][1] /\ t = entry[k + 1][2]
  OBVIOUS
<1>2. /\ k \in Nat /\ k + 1 \in DOMAIN entry /\ k + 1 \notin 1..k
      /\ 1..k \subseteq 1..(k + 1) /\ \A j \in 1..(k + 1) : j \in 1..k \/ j = k + 1
      /\ k + 1 \in 1..(k + 1) /\ 1..k \subseteq DOMAIN entry
      /\ \A i \in DOMAIN entry : entry[i] \in OsdPair
  BY DEF Plain
<1>3. f \in Osd /\ t \in Osd /\ f # None
  BY <1>1, <1>2, NoneIsNoOsd DEF OsdPair
<1>4. PICK j0 \in DOMAIN raw : raw[j0] = f
  BY <1>1, <1>2 DEF Plain, ToSet
<1>5. osds[j0] = f
  <2>1. \A i \in A : entry[i][1] # f
    BY <1>1, <1>2 DEF Plain, InEffect, Once
  <2> QED
    BY <1>4, <2>1 DEF InEffect
<1>6. \A j \in DOMAIN raw : j # j0 => raw[j] # f
  BY <1>3, <1>4 DEF Plain, OsdsDistinct, IsReal
<1>7. CASE t \in ToSet(osds)
  <2>1. ApplyPair(osds, entry[k + 1]) = osds
    BY <1>1, <1>7 DEF ApplyPair
  <2>2. PICK j \in DOMAIN raw : osds[j] = t
    BY <1>7 DEF ToSet, InEffect
  <2>3. t \in ToSet(raw) \/ \E a \in A : a # k + 1 /\ entry[a][2] = t
    BY <1>2, <2>2 DEF InEffect, ToSet
  <2>4. InEffect(raw, entry, k + 1, osds, A)
    BY <1>1, <1>2, <2>3 DEF InEffect
  <2> QED
    BY <2>1, <2>4
<1>8. CASE t \notin ToSet(osds)
  <2>1. DOMAIN osds = DOMAIN raw /\ f \in ToSet(osds) /\ f # t
    BY <1>4, <1>5, <1>8 DEF InEffect, ToSet
  <2>2. ASSUME NEW j \in DOMAIN raw, j # j0, osds[j] = f PROVE FALSE
    <3>1. PICK i \in A : entry[i][1] = raw[j]
      BY <1>6, <2>2 DEF InEffect
    <3>2. entry[i][2] = f /\ entry[i][1] # f /\ i \in DOMAIN entry
      BY <1>2, <1>6, <2>2, <3>1 DEF InEffect
    <3>3. entry[i] \in ToSet(entry) /\ entry[k + 1] \in ToSet(entry)
      BY <1>2, <3>2 DEF ToSet
    <3>4. Chained(entry)
      BY <1>1, <2>1, <3>2, <3>3 DEF Chained
    <3> QED
      BY <3>4 DEF Plain
  <2>3. ApplyPair(osds, entry[k + 1]) = [osds EXCEPT ![j0] = t]
    <3>1. \A i \in DOMAIN osds : osds[i] = f <=> i = j0
      BY <1>4, <1>5, <2>1, <2>2
    <3>2. \A i \in DOMAIN osds : (osds[i] = f /\ \A j \in 1..(i - 1) : osds[j] # f) => i = j0
      BY <3>1
    <3>3. \E i \in DOMAIN osds : osds[i] = f /\ \A j \in 1..(i - 1) : osds[j] # f
      <4>1. j0 \in DOMAIN osds /\ \A j \in 1..(j0 - 1) : j \in DOMAIN osds /\ j # j0
        BY <2>1 DEF Plain
      <4> QED
        BY <3>1, <4>1
    <3>4. ReplaceFirst(osds, f, t) = [osds EXCEPT ![j0] = t]
      BY <3>2, <3>3 DEF ReplaceFirst
    <3> QED
      BY <1>1, <1>8, <2>1, <3>4 DEF ApplyPair
  <2> PICK new : new = [osds EXCEPT ![j0] = t]
    OBVIOUS
  <2>4. /\ new \in [DOMAIN raw -> MaybeOsd] /\ new[j0] = t
        /\ \A j \in DOMAIN raw : j # j0 => new[j] = osds[j]
    BY <1>3, <1>4 DEF InEffect, MaybeOsd
  <2>5. \A j \in DOMAIN raw : f = raw[j] <=> j = j0
    BY <1>4, <1>6
  <2>6. \A j \in DOMAIN raw : \A i \in A \union {k + 1} :
          entry[i][1] = raw[j] => new[j] = entry[i][2]
    <3> SUFFICES ASSUME NEW j \in DOMAIN raw, NEW i \in A \union {k + 1},
                        entry[i][1] = raw[j]
                 PROVE  new[j] = entry[i][2]
      OBVIOUS
    <3>1. CASE i = k + 1
      BY <1>1, <2>4, <2>5, <3>1
    <3>2. CASE i # k + 1
      <4>1. i \in A /\ j # j0
        BY <1>1, <1>2, <1>4, <3>2 DEF Plain, InEffect, Once
      <4> QED
        BY <2>4, <4>1 DEF InEffect
    <3> QED
      BY <3>1, <3>2
  <2>7. \A j \in DOMAIN raw : (\A i \in A \union {k + 1} : entry[i][1] # raw[j]) => new[j] = raw[j]
    BY <1>1, <2>4, <2>5 DEF InEffect
  <2>8. InEffect(raw, entry, k + 1, new, A \union {k + 1})
    BY <1>1, <1>2, <2>1, <2>4, <2>6, <2>7 DEF InEffect
  <2> QED
    BY <2>3, <2>8
<1> QED
  BY <1>7, <1>8

\* What Ceph makes of such an entry.
LEMMA EntryInEffect ==
  ASSUME NEW raw, NEW entry, Plain(raw, entry)
  PROVE  \E A : InEffect(raw, entry, Len(entry), CephUp(raw, entry), A)
<1>1. /\ entry \in Seq(Osd \X Osd) /\ Len(entry) \in Nat
      /\ raw \in [DOMAIN raw -> MaybeOsd]
  BY DEF Plain, OsdPair
<1>2. PICK F : /\ F[0] = raw
               /\ \A k \in 1..Len(entry) : F[k] = ApplyPair(F[k - 1], entry[k])
               /\ CephUp(raw, entry) = F[Len(entry)]
  BY <1>1, CephUpSteps
<1> DEFINE K == {k \in 0..Len(entry) : \E A : InEffect(raw, entry, k, F[k], A)}
<1>3. 0 \in K
  <2>1. InEffect(raw, entry, 0, F[0], {})
    BY <1>1, <1>2 DEF InEffect
  <2> QED
    BY <1>1, <2>1
<1>4. ASSUME NEW k \in 0..(Len(entry) - 1), k \in K PROVE k + 1 \in K
  <2>1. PICK A : InEffect(raw, entry, k, F[k], A)
    BY <1>4
  <2>2. k + 1 \in 1..Len(entry) /\ (k + 1) - 1 = k /\ k + 1 \in 0..Len(entry)
    BY <1>1
  <2>3. F[k + 1] = ApplyPair(F[k], entry[k + 1])
    BY <1>2, <2>2
  <2>4. \E B : InEffect(raw, entry, k + 1, F[k + 1], B)
    BY <2>1, <2>3, PairInEffect
  <2> QED
    BY <2>2, <2>4
<1>5. Len(entry) \in K
  <2> HIDE DEF K
  <2> QED
    BY <1>1, <1>3, <1>4, UpTo
<1> QED
  BY <1>2, <1>5

\* The pairs in effect are those whose 'from' is gone.
LEMMA LiveInEffect ==
  ASSUME NEW raw, NEW entry, Plain(raw, entry), NEW up, NEW A,
         InEffect(raw, entry, Len(entry), up, A)
  PROVE  \A i \in DOMAIN entry : entry[i][1] \notin ToSet(up) <=> i \in A
<1> SUFFICES ASSUME NEW i \in DOMAIN entry
             PROVE  entry[i][1] \notin ToSet(up) <=> i \in A
  OBVIOUS
<1>1. DOMAIN entry = 1..Len(entry) /\ entry[i] \in ToSet(entry) /\ entry[i] \in OsdPair
  BY DEF Plain, ToSet
<1>2. PICK j0 \in DOMAIN raw : raw[j0] = entry[i][1]
  BY <1>1 DEF Plain, ToSet
<1>3. ASSUME i \notin A PROVE entry[i][1] \in ToSet(up)
  <2>1. \A a \in A : entry[a][1] # raw[j0]
    BY <1>1, <1>2, <1>3 DEF Plain, InEffect, Once
  <2>2. up[j0] = entry[i][1] /\ j0 \in DOMAIN up
    BY <1>2, <2>1 DEF InEffect
  <2> QED
    BY <2>2 DEF ToSet
<1>4. ASSUME i \in A, NEW j \in DOMAIN raw, up[j] = entry[i][1] PROVE FALSE
  <2>1. entry[i][1] # None /\ entry[i][1] # entry[i][2]
    BY <1>1, <1>4, NoneIsNoOsd DEF OsdPair, InEffect
  <2>2. CASE \E a \in A : entry[a][1] = raw[j]
    <3>1. PICK a \in A : entry[a][1] = raw[j]
      BY <2>2
    <3>2. entry[a][2] = entry[i][1] /\ entry[a][1] # entry[a][2] /\ entry[a] \in ToSet(entry)
      BY <1>1, <1>4, <3>1 DEF InEffect, ToSet
    <3>3. Chained(entry)
      BY <1>1, <2>1, <3>2 DEF Chained
    <3> QED
      BY <3>3 DEF Plain
  <2>3. CASE \A a \in A : entry[a][1] # raw[j]
    <3>1. raw[j] = entry[i][1]
      BY <1>4, <2>3 DEF InEffect
    <3> QED
      BY <1>4, <2>3, <3>1
  <2> QED
    BY <2>2, <2>3
<1>5. DOMAIN up = DOMAIN raw
  BY DEF InEffect
<1> QED
  BY <1>3, <1>4, <1>5 DEF ToSet

\* Pairs onto OSDs of their own that CRUSH did not pick are all in effect.
LEMMA AllInEffect ==
  ASSUME NEW raw, NEW entry, Plain(raw, entry), Once(entry, 2),
         \A p \in ToSet(entry) : p[2] \notin ToSet(raw)
  PROVE  LET up == CephUp(raw, entry)
         IN  /\ up \in [DOMAIN raw -> MaybeOsd]
             /\ \A j \in DOMAIN raw : \A p \in ToSet(entry) : p[1] = raw[j] => up[j] = p[2]
             /\ \A j \in DOMAIN raw : (\A p \in ToSet(entry) : p[1] # raw[j]) => up[j] = raw[j]
<1>1. PICK A : InEffect(raw, entry, Len(entry), CephUp(raw, entry), A)
  BY EntryInEffect
<1>2. DOMAIN entry = 1..Len(entry)
  BY DEF Plain
<1>3. A = DOMAIN entry
  <2> SUFFICES ASSUME NEW i \in DOMAIN entry, i \notin A PROVE FALSE
    BY <1>1, <1>2 DEF InEffect
  <2>1. entry[i][2] \notin ToSet(raw)
    BY DEF ToSet
  <2>2. PICK a \in A : a # i /\ entry[a][2] = entry[i][2]
    BY <1>1, <1>2, <2>1 DEF InEffect
  <2>3. a \in DOMAIN entry
    BY <1>1, <1>2 DEF InEffect
  <2> QED
    BY <2>2, <2>3 DEF Once
<1> QED
  BY <1>1, <1>2, <1>3 DEF InEffect, ToSet

-----------------------------------------------------------------------------
(* fold_pairs.                                                              *)

FoldState == [rest : Seq(OsdPair), effective : Seq(OsdPair)]

\* The least of the indices that satisfy something is one of them.
LEMMA LeastOf ==
  ASSUME NEW n \in Nat, NEW S \in SUBSET (1..n), S # {}
  PROVE  Min(S) \in S /\ \A i \in S : Min(S) <= i
<1> DEFINE F == {k \in 0..n : (\E i \in S : i <= k) => \E m \in S : \A i \in S : m <= i}
<1>1. 0 \in F
  OBVIOUS
<1>2. ASSUME NEW k \in 0..(n - 1), k \in F PROVE k + 1 \in F
  <2>1. k + 1 \in 0..n /\ k \in Nat
    OBVIOUS
  <2>2. ASSUME \E i \in S : i <= k + 1 PROVE \E m \in S : \A i \in S : m <= i
    <3>1. CASE \E i \in S : i <= k
      BY <1>2, <3>1
    <3>2. CASE \A i \in S : ~(i <= k)
      <4>1. k + 1 \in S /\ \A i \in S : k + 1 <= i
        BY <2>1, <2>2, <3>2
      <4> QED
        BY <4>1
    <3> QED
      BY <3>1, <3>2
  <2> QED
    BY <2>1, <2>2
<1>3. n \in F
  <2> HIDE DEF F
  <2> QED
    BY <1>1, <1>2, UpTo
<1>4. \E m \in S : \A i \in S : m <= i
  <2>1. PICK i \in S : TRUE
    OBVIOUS
  <2>2. i <= n /\ n \in 0..n
    OBVIOUS
  <2> QED
    BY <1>3, <2>2
<1> QED
  BY <1>4 DEF Min

\* A pair that is taken out of a sequence.
LEMMA RemoveAtIs ==
  ASSUME NEW s \in Seq(OsdPair), NEW k \in 1..Len(s)
  PROVE  /\ RemoveAt(s, k) \in Seq(OsdPair)
         /\ \A end \in {1, 2} : Once(s, end) => /\ Once(RemoveAt(s, k), end)
                                                /\ ToSet(RemoveAt(s, k)) = ToSet(s) \ {s[k]}
<1>1. PICK r : r = RemoveAt(s, k)
  OBVIOUS
<1>2. Len(s) \in Nat /\ k \in Nat /\ DOMAIN s = 1..Len(s)
  OBVIOUS
<1>3. /\ SubSeq(s, 1, k - 1) \in Seq(OsdPair) /\ Len(SubSeq(s, 1, k - 1)) = k - 1
      /\ SubSeq(s, k + 1, Len(s)) \in Seq(OsdPair) /\ Len(SubSeq(s, k + 1, Len(s))) = Len(s) - k
      /\ \A i \in 1..(k - 1) : SubSeq(s, 1, k - 1)[i] = s[i]
      /\ \A i \in 1..(Len(s) - k) : SubSeq(s, k + 1, Len(s))[i] = s[k + i]
  OBVIOUS
<1>4. /\ r \in Seq(OsdPair) /\ DOMAIN r = 1..(Len(s) - 1)
      /\ \A i \in 1..(k - 1) : r[i] = s[i]
      /\ \A i \in k..(Len(s) - 1) : r[i] = s[i + 1]
  <2>1. PICK a \in Seq(OsdPair), b \in Seq(OsdPair) :
          a = SubSeq(s, 1, k - 1) /\ b = SubSeq(s, k + 1, Len(s))
    BY <1>3
  <2>2. r = a \o b
    BY <1>1, <2>1 DEF RemoveAt
  <2>3. Len(a) = k - 1 /\ Len(b) = Len(s) - k
    BY <1>3, <2>1
  <2>4. /\ r \in Seq(OsdPair) /\ Len(r) = Len(a) + Len(b)
        /\ \A i \in 1..Len(a) : r[i] = a[i]
        /\ \A i \in (Len(a) + 1)..(Len(a) + Len(b)) : r[i] = b[i - Len(a)]
    BY <2>2
  <2>5. DOMAIN r = 1..(Len(s) - 1)
    BY <1>2, <2>3, <2>4
  <2>6. \A i \in 1..(k - 1) : r[i] = s[i]
    BY <1>3, <2>1, <2>3, <2>4
  <2>7. ASSUME NEW i \in k..(Len(s) - 1) PROVE r[i] = s[i + 1]
    <3>1. /\ i \in (Len(a) + 1)..(Len(a) + Len(b)) /\ i - Len(a) = i - (k - 1)
          /\ i - (k - 1) \in 1..(Len(s) - k) /\ k + (i - (k - 1)) = i + 1
      BY <1>2, <2>3
    <3> QED
      BY <1>3, <2>1, <2>4, <3>1
  <2> QED
    BY <2>4, <2>5, <2>6, <2>7
<1> PICK h : h = [i \in DOMAIN r |-> IF i < k THEN i ELSE i + 1]
  OBVIOUS
<1>5. \A i \in DOMAIN r : h[i] \in DOMAIN s /\ h[i] # k /\ r[i] = s[h[i]]
  BY <1>2, <1>4
<1>6. \A i, j \in DOMAIN r : h[i] = h[j] => i = j
  BY <1>2, <1>4
<1>7. \A j \in DOMAIN s : j # k => \E i \in DOMAIN r : h[i] = j
  <2> SUFFICES ASSUME NEW j \in DOMAIN s, j # k PROVE \E i \in DOMAIN r : h[i] = j
    OBVIOUS
  <2>1. CASE j < k
    BY <1>2, <1>4, <2>1
  <2>2. CASE j > k
    <3>1. j - 1 \in DOMAIN r /\ h[j - 1] = j
      BY <1>2, <1>4, <2>2
    <3> QED
      BY <3>1
  <2> QED
    BY <1>2, <2>1, <2>2
<1>8. ASSUME NEW end \in {1, 2}, Once(s, end)
      PROVE  Once(r, end) /\ ToSet(r) = ToSet(s) \ {s[k]}
  <2>1. Once(r, end)
    BY <1>5, <1>6, <1>8 DEF Once
  <2>2. k \in DOMAIN s
    BY <1>2
  <2>3. \A i \in DOMAIN s : i # k => s[i] # s[k]
    BY <1>8, <2>2 DEF Once
  <2>4. ToSet(r) = ToSet(s) \ {s[k]}
    BY <1>5, <1>7, <2>2, <2>3 DEF ToSet
  <2> QED
    BY <2>1, <2>4
<1> QED
  BY <1>1, <1>4, <1>8

\* What folding one new pair leaves: the existing pair that leads to its 'from', if any,
\* is taken out and lends the new pair its own 'from'.
FoldsTo(acc, new, f) ==
  /\ ToSet(f.rest) = {p \in ToSet(acc.rest) : p[2] # new[1]}
  /\ \E o \in Osd :
       /\ f.effective = Append(acc.effective, <<o, new[2]>>)
       /\ \A p \in ToSet(acc.rest) : p[2] = new[1] => o = p[1]
       /\ (\A p \in ToSet(acc.rest) : p[2] # new[1]) => o = new[1]

LEMMA FoldPairIs ==
  ASSUME NEW acc \in FoldState, NEW new \in OsdPair, Once(acc.rest, 2)
  PROVE  /\ FoldPair(acc, new) \in FoldState
         /\ \A end \in {1, 2} : Once(acc.rest, end) => Once(FoldPair(acc, new).rest, end)
         /\ FoldsTo(acc, new, FoldPair(acc, new))
<1>1. /\ acc.rest \in Seq(OsdPair) /\ acc.effective \in Seq(OsdPair)
      /\ acc = [rest |-> acc.rest, effective |-> acc.effective]
      /\ DOMAIN acc.rest = 1..Len(acc.rest) /\ Len(acc.rest) \in Nat
      /\ \A i \in DOMAIN acc.rest : acc.rest[i] \in OsdPair
      /\ new[1] \in Osd /\ new[2] \in Osd /\ new = <<new[1], new[2]>>
  BY DEF FoldState, OsdPair
<1>2. PICK S, k : /\ S = {i \in 1..Len(acc.rest) : acc.rest[i][2] = new[1]}
                  /\ k = IF S # {} THEN Min(S) ELSE 0
  OBVIOUS
<1>3. FoldPair(acc, new) =
        IF k = 0
        THEN [acc EXCEPT !.effective = Append(@, new)]
        ELSE [rest |-> RemoveAt(acc.rest, k),
              effective |-> Append(acc.effective, <<acc.rest[k][1], new[2]>>)]
  <2>1. k = SelectInSeq(acc.rest, LAMBDA p : p[2] = new[1])
    BY <1>2, Zenon DEF SelectInSeq
  <2> QED
    BY <2>1, Zenon DEF FoldPair
<1>4. CASE S = {}
  <2>1. k = 0
    BY <1>2, <1>4
  <2>2. FoldPair(acc, new) = [rest |-> acc.rest, effective |-> Append(acc.effective, new)]
    BY <1>1, <1>3, <2>1
  <2>3. \A p \in ToSet(acc.rest) : p[2] # new[1]
    BY <1>1, <1>2, <1>4 DEF ToSet
  <2>4. Append(acc.effective, new) \in Seq(OsdPair)
    BY <1>1
  <2>5. {p \in ToSet(acc.rest) : p[2] # new[1]} = ToSet(acc.rest)
    BY <2>3
  <2> QED
    BY <1>1, <2>2, <2>3, <2>4, <2>5 DEF FoldState, FoldsTo
<1>5. CASE S # {}
  <2>1. k \in S /\ k # 0
    <3>1. k \in S
      BY <1>1, <1>2, <1>5, LeastOf
    <3> QED
      BY <1>1, <1>2, <3>1
  <2>2. k \in 1..Len(acc.rest) /\ acc.rest[k][2] = new[1] /\ acc.rest[k] \in OsdPair
    BY <1>1, <1>2, <2>1
  <2>3. PICK o : o = acc.rest[k][1]
    OBVIOUS
  <2>4. o \in Osd /\ <<o, new[2]>> \in OsdPair
    BY <1>1, <2>2, <2>3 DEF OsdPair
  <2>5. FoldPair(acc, new) = [rest |-> RemoveAt(acc.rest, k),
                              effective |-> Append(acc.effective, <<o, new[2]>>)]
    BY <1>3, <2>1, <2>3
  <2>6. /\ RemoveAt(acc.rest, k) \in Seq(OsdPair)
        /\ ToSet(RemoveAt(acc.rest, k)) = ToSet(acc.rest) \ {acc.rest[k]}
        /\ \A end \in {1, 2} : Once(acc.rest, end) => Once(RemoveAt(acc.rest, k), end)
    BY <1>1, <2>2, RemoveAtIs
  <2>7. \A p \in ToSet(acc.rest) : p[2] = new[1] <=> p = acc.rest[k]
    BY <1>1, <2>2 DEF ToSet, Once
  <2>8. ToSet(RemoveAt(acc.rest, k)) = {p \in ToSet(acc.rest) : p[2] # new[1]}
    BY <2>6, <2>7
  <2>9. acc.rest[k] \in ToSet(acc.rest)
    BY <1>1, <2>2 DEF ToSet
  <2>10. Append(acc.effective, <<o, new[2]>>) \in Seq(OsdPair)
    BY <1>1, <2>4
  <2> QED
    BY <2>2, <2>3, <2>4, <2>5, <2>6, <2>7, <2>8, <2>9, <2>10 DEF FoldState, FoldsTo
<1> QED
  BY <1>4, <1>5

\* What fold_pairs returns: it leaves the pairs no new one extends, and takes the 'from'
\* of the pair a new one extends.
LEMMA FoldPairsIs ==
  ASSUME NEW L \in Seq(OsdPair), Once(L, 1), Once(L, 2), NEW ns \in Seq(OsdPair), Once(ns, 1)
  PROVE  LET f == FoldPairs(L, ns)
         IN  /\ f \in FoldState /\ Once(f.rest, 1)
             /\ ToSet(f.rest) = {p \in ToSet(L) : \A m \in DOMAIN ns : p[2] # ns[m][1]}
             /\ Len(f.effective) = Len(ns)
             /\ \A m \in DOMAIN ns :
                  /\ f.effective[m][2] = ns[m][2]
                  /\ \A p \in ToSet(L) : p[2] = ns[m][1] => f.effective[m][1] = p[1]
                  /\ (\A p \in ToSet(L) : p[2] # ns[m][1]) => f.effective[m][1] = ns[m][1]
<1>1. PICK n, V, base : /\ n = Len(ns)
                        /\ V = {acc \in FoldState : Once(acc.rest, 1) /\ Once(acc.rest, 2)}
                        /\ base = [rest |-> L, effective |-> <<>>]
  OBVIOUS
<1>2. n \in Nat /\ DOMAIN ns = 1..n /\ base \in V /\ \A k \in 1..n : ns[k] \in OsdPair
  <2>1. base \in FoldState /\ base.rest = L
    BY <1>1 DEF FoldState
  <2> QED
    BY <1>1, <2>1
<1> DEFINE s == [kv \in (1..n) \X V |-> FoldPair(kv[2], ns[kv[1]])]
<1>3. \A k \in 1..n : \A v \in V : FoldPair(v, ns[k]) \in V
  <2> SUFFICES ASSUME NEW k \in 1..n, NEW v \in V PROVE FoldPair(v, ns[k]) \in V
    OBVIOUS
  <2>1. v \in FoldState /\ Once(v.rest, 1) /\ Once(v.rest, 2) /\ ns[k] \in OsdPair
    BY <1>1, <1>2
  <2>2. /\ FoldPair(v, ns[k]) \in FoldState
        /\ \A end \in {1, 2} : Once(v.rest, end) => Once(FoldPair(v, ns[k]).rest, end)
    BY <2>1, FoldPairIs
  <2> QED
    BY <1>1, <2>1, <2>2
<1>4. PICK step : step = s
  OBVIOUS
<1>5. step \in [(1..n) \X V -> V]
  BY <1>3, <1>4
<1>6. PICK f \in [SUBSET (1..n) -> V] : FoldTable(f, n, base, step)
  BY <1>2, <1>5, FoldExists
<1> DEFINE Eq(iter) == iter = [T \in SUBSET (1..n) |->
                IF T = {} THEN base ELSE FoldPair(iter[T \ {Max(T)}], ns[Max(T)])]
<1>7. Eq(f)
  <2> SUFFICES ASSUME NEW T \in SUBSET (1..n), T # {}
               PROVE  f[T] = FoldPair(f[T \ {Max(T)}], ns[Max(T)])
    BY <1>6 DEF FoldTable
  <2>1. Max(T) \in 1..n
    BY <1>2, LastOf
  <2>2. <<Max(T), f[T \ {Max(T)}]>> \in (1..n) \X V
    BY <1>6, <2>1
  <2>3. step[<<Max(T), f[T \ {Max(T)}]>>] = FoldPair(f[T \ {Max(T)}], ns[Max(T)])
    BY <1>4, <2>2
  <2> QED
    BY <1>6, <2>3 DEF FoldTable
<1>8. PICK iter : Eq(iter) /\ FoldPairs(L, ns) = iter[1..n]
  <2> DEFINE chosen == CHOOSE iter : Eq(iter)
  <2>1. FoldPairs(L, ns) = chosen[1..n]
    BY <1>1, <1>2, Zenon DEF FoldPairs, FoldLeft, MapThenFoldSet
  <2>2. Eq(chosen)
    <3> HIDE DEF Eq
    <3> QED
      BY <1>7
  <2> HIDE DEF chosen
  <2> QED
    BY <2>1, <2>2
<1> DEFINE Upto(a, k) == /\ a \in V
                         /\ ToSet(a.rest) = {p \in ToSet(L) : \A m \in 1..k : p[2] # ns[m][1]}
                         /\ Len(a.effective) = k
                         /\ \A m \in 1..k :
                              /\ a.effective[m][2] = ns[m][2]
                              /\ \A p \in ToSet(L) : p[2] = ns[m][1] => a.effective[m][1] = p[1]
                              /\ (\A p \in ToSet(L) : p[2] # ns[m][1]) => a.effective[m][1] = ns[m][1]
           K == {k \in 0..n : Upto(iter[1..k], k)}
<1>9. 0 \in K
  <2>1. iter[1..0] = base /\ base.rest = L /\ base.effective = <<>>
    BY <1>1, <1>8
  <2>2. Upto(base, 0)
    BY <1>2, <2>1
  <2> HIDE DEF Upto
  <2> QED
    BY <1>2, <2>1, <2>2
<1>10. ASSUME NEW k \in 0..(n - 1), k \in K PROVE k + 1 \in K
  <2>1. /\ k \in Nat /\ k + 1 \in 1..n /\ k + 1 \in 0..n /\ (k + 1) - 1 = k
        /\ 1..k \subseteq 1..n /\ k + 1 \notin 1..k
        /\ \A m \in 1..(k + 1) : m \in 1..k \/ m = k + 1
        /\ 1..k \subseteq 1..(k + 1) /\ k + 1 \in 1..(k + 1)
    BY <1>2
  <2>2. PICK acc : acc = iter[1..k] /\ Upto(acc, k)
    BY <1>10
  <2>3. iter[1..(k + 1)] = FoldPair(acc, ns[k + 1])
    <3>1. 1..(k + 1) \in SUBSET (1..n) /\ 1..(k + 1) # {}
      BY <1>2, <2>1
    <3>2. Max(1..(k + 1)) = k + 1 /\ (1..(k + 1)) \ {k + 1} = 1..k
      BY <1>2, <2>1, LastOf
    <3>3. iter[1..(k + 1)] = FoldPair(iter[1..k], ns[k + 1])
      BY <1>8, <3>1, <3>2
    <3> QED
      BY <2>2, <3>3
  <2>4. acc \in FoldState /\ Once(acc.rest, 1) /\ Once(acc.rest, 2)
    BY <1>1, <2>2
  <2>5. PICK new : new = ns[k + 1] /\ new \in OsdPair
    BY <1>2, <2>1
  <2>6. PICK g : g = FoldPair(acc, new)
    OBVIOUS
  <2>7. g \in V
    BY <1>3, <2>1, <2>2, <2>5, <2>6
  <2>8. PICK o \in Osd :
             /\ ToSet(g.rest) = {p \in ToSet(acc.rest) : p[2] # new[1]}
             /\ g.effective = Append(acc.effective, <<o, new[2]>>)
             /\ \A p \in ToSet(acc.rest) : p[2] = new[1] => o = p[1]
             /\ (\A p \in ToSet(acc.rest) : p[2] # new[1]) => o = new[1]
    <3>1. FoldsTo(acc, new, g)
      BY <2>4, <2>5, <2>6, FoldPairIs
    <3> QED
      BY <3>1 DEF FoldsTo
  <2>9. \A m \in 1..k : ns[m][1] # new[1]
    BY <1>2, <2>1, <2>5 DEF Once
  <2>10. \A p \in ToSet(L) : p[2] = new[1] => p \in ToSet(acc.rest)
    BY <2>2, <2>9
  <2>11. ToSet(g.rest) = {p \in ToSet(L) : \A m \in 1..(k + 1) : p[2] # ns[m][1]}
    BY <2>1, <2>2, <2>5, <2>8
  <2>12. /\ Len(g.effective) = k + 1
         /\ \A m \in 1..k : g.effective[m] = acc.effective[m]
         /\ g.effective[k + 1] = <<o, new[2]>>
    <3>1. acc.effective \in Seq(OsdPair) /\ Len(acc.effective) = k
      BY <2>2, <2>4 DEF FoldState
    <3> QED
      BY <2>1, <2>8, <3>1
  <2>13. /\ \A p \in ToSet(L) : p[2] = new[1] => o = p[1]
         /\ (\A p \in ToSet(L) : p[2] # new[1]) => o = new[1]
    <3>1. \A p \in ToSet(acc.rest) : p \in ToSet(L)
      BY <2>2
    <3> QED
      BY <2>8, <2>10, <3>1
  <2>14. ASSUME NEW m \in 1..(k + 1)
         PROVE  /\ g.effective[m][2] = ns[m][2]
                /\ \A p \in ToSet(L) : p[2] = ns[m][1] => g.effective[m][1] = p[1]
                /\ (\A p \in ToSet(L) : p[2] # ns[m][1]) => g.effective[m][1] = ns[m][1]
    <3>1. CASE m = k + 1
      <4>1. g.effective[m][1] = o /\ g.effective[m][2] = new[2] /\ ns[m] = new
        BY <2>5, <2>12, <3>1
      <4> QED
        BY <2>13, <4>1
    <3>2. CASE m \in 1..k
      <4>1. /\ acc.effective[m][2] = ns[m][2]
            /\ \A p \in ToSet(L) : p[2] = ns[m][1] => acc.effective[m][1] = p[1]
            /\ (\A p \in ToSet(L) : p[2] # ns[m][1]) => acc.effective[m][1] = ns[m][1]
        BY <2>2, <3>2
      <4>2. g.effective[m] = acc.effective[m]
        BY <2>12, <3>2
      <4> QED
        BY <4>1, <4>2
    <3> QED
      BY <2>1, <3>1, <3>2
  <2>15. Upto(g, k + 1)
    BY <2>7, <2>11, <2>12, <2>14
  <2> HIDE DEF Upto
  <2> QED
    BY <2>1, <2>3, <2>5, <2>6, <2>15
<1>11. n \in K
  <2>1. n \in 0..n
    BY <1>2
  <2> HIDE DEF K
  <2> QED
    BY <1>2, <1>9, <1>10, <2>1, UpTo
<1>12. PICK g : g = FoldPairs(L, ns) /\ Upto(g, n)
  BY <1>8, <1>11
<1>13. g \in FoldState /\ Once(g.rest, 1)
  BY <1>1, <1>12
<1>14. /\ ToSet(g.rest) = {p \in ToSet(L) : \A m \in DOMAIN ns : p[2] # ns[m][1]}
       /\ Len(g.effective) = Len(ns)
  BY <1>1, <1>2, <1>12
<1>15. \A m \in DOMAIN ns :
         /\ g.effective[m][2] = ns[m][2]
         /\ \A p \in ToSet(L) : p[2] = ns[m][1] => g.effective[m][1] = p[1]
         /\ (\A p \in ToSet(L) : p[2] # ns[m][1]) => g.effective[m][1] = ns[m][1]
  BY <1>2, <1>12
<1> QED
  BY <1>12, <1>13, <1>14, <1>15

-----------------------------------------------------------------------------
(* What an import makes of the pairs a command prints.                      *)

\* Pairs one after the other.
LEMMA OneAfterTheOther ==
  ASSUME NEW a \in Seq(OsdPair), NEW b \in Seq(OsdPair)
  PROVE  /\ a \o b \in Seq(OsdPair)
         /\ ToSet(a \o b) = ToSet(a) \union ToSet(b)
         /\ Once(a, 1) /\ Once(b, 1) /\ (\A p \in ToSet(a) : \A q \in ToSet(b) : p[1] # q[1])
              => Once(a \o b, 1)
<1>1. PICK c : c = a \o b
  OBVIOUS
<1>2. /\ c \in Seq(OsdPair) /\ DOMAIN a = 1..Len(a) /\ DOMAIN b = 1..Len(b)
      /\ Len(a) \in Nat /\ Len(b) \in Nat
  BY <1>1
<1>3. /\ DOMAIN c = 1..(Len(a) + Len(b))
      /\ \A i \in 1..Len(a) : c[i] = a[i]
      /\ \A i \in (Len(a) + 1)..(Len(a) + Len(b)) : c[i] = b[i - Len(a)]
  BY <1>1
<1>4. \A i \in DOMAIN a : i \in DOMAIN c /\ c[i] = a[i]
  BY <1>2, <1>3
<1>5. ASSUME NEW i \in DOMAIN b PROVE Len(a) + i \in DOMAIN c /\ c[Len(a) + i] = b[i]
  <2>1. Len(a) + i \in (Len(a) + 1)..(Len(a) + Len(b)) /\ (Len(a) + i) - Len(a) = i
    BY <1>2
  <2> QED
    BY <1>2, <1>3, <2>1
<1>6. ASSUME NEW i \in DOMAIN c
      PROVE  i \in DOMAIN a \/ \E k \in DOMAIN b : i = Len(a) + k
  <2>1. CASE i > Len(a)
    <3>1. i - Len(a) \in DOMAIN b /\ i = Len(a) + (i - Len(a))
      BY <1>2, <1>3, <2>1
    <3> QED
      BY <3>1
  <2>2. CASE ~(i > Len(a))
    BY <1>2, <1>3, <2>2
  <2> QED
    BY <2>1, <2>2
<1>7. ToSet(c) = ToSet(a) \union ToSet(b)
  <2>1. \A x \in ToSet(c) : x \in ToSet(a) \union ToSet(b)
    BY <1>4, <1>5, <1>6 DEF ToSet
  <2>2. \A x \in ToSet(a) \union ToSet(b) : x \in ToSet(c)
    BY <1>4, <1>5 DEF ToSet
  <2> QED
    BY <2>1, <2>2
<1>8. ASSUME Once(a, 1), Once(b, 1), \A p \in ToSet(a) : \A q \in ToSet(b) : p[1] # q[1],
             NEW i \in DOMAIN c, NEW j \in DOMAIN c, c[i][1] = c[j][1]
      PROVE  i = j
  <2>1. \A x \in DOMAIN a : \A y \in DOMAIN b : c[x][1] # c[Len(a) + y][1]
    BY <1>4, <1>5, <1>8 DEF ToSet
  <2>2. \A x, y \in DOMAIN a : c[x][1] = c[y][1] => x = y
    BY <1>4, <1>8 DEF Once
  <2>3. \A x, y \in DOMAIN b : c[Len(a) + x][1] = c[Len(a) + y][1] => x = y
    BY <1>5, <1>8 DEF Once
  <2> QED
    BY <1>6, <1>8, <2>1, <2>2, <2>3
<1> QED
  BY <1>1, <1>2, <1>7, <1>8 DEF Once

\* An entry without its self pairs, each pair leading from a slot's raw OSD to the one it
\* is to have, makes the up set that is to be, unless it chains.
LEMMA SlotBySlot ==
  ASSUME NEW raw \in Seq(MaybeOsd), OsdsDistinct(raw),
         NEW new \in [DOMAIN raw -> MaybeOsd], OsdsDistinct(new),
         NEW X \in Seq(OsdPair), Once(X, 1), ~Chained(X),
         \A p \in ToSet(X) : \E j \in DOMAIN raw : p[1] = raw[j] /\ p[2] = new[j],
         \A j \in DOMAIN raw : raw[j] # new[j] =>
           \E p \in ToSet(X) : p[1] = raw[j] /\ p[2] = new[j]
  PROVE  CephUp(raw, Without(X, {<<o, o>> : o \in Osd})) = new
<1>1. PICK I, selfs : selfs = {<<o, o>> : o \in Osd} /\ I = Without(X, selfs)
  OBVIOUS
<1>2. I \in Seq(OsdPair) /\ ToSet(I) = ToSet(X) \ selfs /\ Once(I, 1)
  BY <1>1, WithoutIs
<1>3. \A p \in ToSet(X) : p \in OsdPair /\ p[1] \in Osd /\ p[2] \in Osd /\ p = <<p[1], p[2]>>
  BY DEF ToSet, OsdPair
<1>4. \A p \in ToSet(X) : p \in selfs <=> p[1] = p[2]
  BY <1>1, <1>3
<1>5. Plain(raw, I)
  <2>1. ~Chained(I)
    BY <1>2 DEF Chained
  <2>2. \A p \in ToSet(I) : p[1] \in ToSet(raw)
    BY <1>2 DEF ToSet
  <2> QED
    BY <1>2, <2>1, <2>2 DEF Plain
<1>6. \A i, j \in DOMAIN raw : /\ raw[i] = raw[j] /\ raw[i] \in Osd => i = j
                               /\ new[i] = new[j] /\ new[i] \in Osd => i = j
  BY NoneIsNoOsd DEF OsdsDistinct, IsReal
<1>7. Once(I, 2)
  <2> SUFFICES ASSUME NEW i \in DOMAIN I, NEW j \in DOMAIN I, I[i][2] = I[j][2]
               PROVE  i = j
    BY DEF Once
  <2>1. I[i] \in ToSet(X) /\ I[j] \in ToSet(X)
    <3>1. I[i] \in ToSet(I) /\ I[j] \in ToSet(I)
      BY DEF ToSet
    <3> QED
      BY <1>2, <3>1
  <2>2. PICK a \in DOMAIN raw : I[i][1] = raw[a] /\ I[i][2] = new[a]
    BY <2>1
  <2>3. PICK b \in DOMAIN raw : I[j][1] = raw[b] /\ I[j][2] = new[b]
    BY <2>1
  <2>4. a = b
    <3>1. new[a] = new[b] /\ new[a] \in Osd
      BY <1>3, <2>1, <2>2, <2>3
    <3> QED
      BY <1>6, <3>1
  <2> QED
    BY <1>2, <2>2, <2>3, <2>4 DEF Once
<1>8. ASSUME NEW p \in ToSet(I), p[2] \in ToSet(raw) PROVE FALSE
  <2>1. p \in ToSet(X) /\ p[1] # p[2] /\ p[2] \in Osd
    BY <1>2, <1>3, <1>4
  <2>2. PICK j \in DOMAIN raw : p[1] = raw[j] /\ p[2] = new[j]
    BY <2>1
  <2>3. PICK k \in DOMAIN raw : raw[k] = p[2]
    BY <1>8 DEF ToSet
  <2>4. raw[k] # new[k]
    BY <1>6, <2>1, <2>2, <2>3
  <2>5. PICK q \in ToSet(X) : q[1] = raw[k] /\ q[2] = new[k]
    BY <2>4
  <2>6. Chained(X)
    BY <2>1, <2>3, <2>4, <2>5 DEF Chained
  <2> QED
    BY <2>6
<1>9. PICK up : up = CephUp(raw, I)
  OBVIOUS
<1>10. /\ up \in [DOMAIN raw -> MaybeOsd]
       /\ \A j \in DOMAIN raw : \A p \in ToSet(I) : p[1] = raw[j] => up[j] = p[2]
       /\ \A j \in DOMAIN raw : (\A p \in ToSet(I) : p[1] # raw[j]) => up[j] = raw[j]
  BY <1>5, <1>7, <1>8, <1>9, AllInEffect
<1>11. ASSUME NEW j \in DOMAIN raw PROVE up[j] = new[j]
  <2>1. CASE \E p \in ToSet(I) : p[1] = raw[j]
    <3>1. PICK p \in ToSet(I) : p[1] = raw[j]
      BY <2>1
    <3>2. p \in ToSet(X) /\ p[1] \in Osd
      BY <1>2, <1>3
    <3>3. PICK k \in DOMAIN raw : p[1] = raw[k] /\ p[2] = new[k]
      BY <3>2
    <3>4. k = j
      BY <1>6, <3>1, <3>2, <3>3
    <3>5. up[j] = p[2]
      BY <1>10, <3>1
    <3> QED
      BY <3>3, <3>4, <3>5
  <2>2. CASE \A p \in ToSet(I) : p[1] # raw[j]
    <3>1. up[j] = raw[j]
      BY <1>10, <2>2
    <3>2. ASSUME raw[j] # new[j] PROVE FALSE
      <4>1. PICK p \in ToSet(X) : p[1] = raw[j] /\ p[2] = new[j]
        BY <3>2
      <4>2. p \in ToSet(I)
        BY <1>2, <1>4, <3>2, <4>1
      <4> QED
        BY <2>2, <4>1, <4>2
    <3> QED
      BY <3>1, <3>2
  <2> QED
    BY <2>1, <2>2
<1>12. up = new
  BY <1>10, <1>11
<1> QED
  BY <1>1, <1>9, <1>12

\* The moves of a plan as pairs, each changed slot's, in some order.
PairsFor(ns, up, new) ==
  /\ ns \in Seq(OsdPair) /\ Once(ns, 1)
  /\ \A m \in DOMAIN ns : \E j \in DOMAIN up :
       ns[m][1] = up[j] /\ ns[m][2] = new[j] /\ up[j] # new[j]
  /\ \A j \in DOMAIN up : up[j] # new[j] =>
       \E m \in DOMAIN ns : ns[m][1] = up[j] /\ ns[m][2] = new[j]

\* The pairs in effect: each leads from a slot's raw OSD to the one it has, and no two
\* to the same.
LEMMA LiveIs ==
  ASSUME NEW raw, NEW entry, Plain(raw, entry),
         NEW up, up = CephUp(raw, entry), OsdsDistinct(up)
  PROVE  LET live == Live(entry, up)
         IN  /\ up \in [DOMAIN raw -> MaybeOsd]
             /\ live \in Seq(OsdPair) /\ Once(live, 1) /\ Once(live, 2)
             /\ \A p \in ToSet(live) : p \in ToSet(entry) /\ p[1] # p[2]
             /\ \A j \in DOMAIN raw : \A p \in ToSet(live) : p[1] = raw[j] => up[j] = p[2]
             /\ \A j \in DOMAIN raw : (\A p \in ToSet(live) : p[1] # raw[j]) => up[j] = raw[j]
             /\ \A p \in ToSet(live) : \E j \in DOMAIN raw : raw[j] = p[1] /\ up[j] = p[2]
<1>1. PICK A : InEffect(raw, entry, Len(entry), up, A)
  BY EntryInEffect
<1>2. /\ up \in [DOMAIN raw -> MaybeOsd] /\ DOMAIN up = DOMAIN raw /\ raw \in Seq(MaybeOsd)
      /\ entry \in Seq(OsdPair)
  BY <1>1 DEF InEffect, Plain
<1>3. PICK live : live = Live(entry, up)
  OBVIOUS
<1>4. /\ live \in Seq(OsdPair) /\ Once(live, 1)
      /\ ToSet(live) = {p \in ToSet(entry) : p[1] \notin ToSet(up)}
  <2>1. /\ live \in Seq(OsdPair) /\ Once(live, 1)
        /\ ToSet(live) = ToSet(entry) \ (ToSet(up) \X Osd)
    BY <1>2, <1>3, WithoutIs DEF Live, Plain
  <2>2. \A p \in ToSet(entry) : p \in ToSet(up) \X Osd <=> p[1] \in ToSet(up)
    BY <1>2 DEF ToSet, OsdPair
  <2> QED
    BY <2>1, <2>2
<1>5. \A p \in ToSet(live) : p \in OsdPair /\ p[1] \in Osd /\ p[2] \in Osd
  BY <1>4 DEF ToSet, OsdPair
<1>6. ASSUME NEW p \in ToSet(live)
      PROVE  \E a \in A : a \in DOMAIN entry /\ entry[a] = p
  <2>1. p \in ToSet(entry) /\ p[1] \notin ToSet(up)
    BY <1>4
  <2>2. PICK a \in DOMAIN entry : entry[a] = p
    BY <2>1 DEF ToSet
  <2>3. entry[a][1] \notin ToSet(up) <=> a \in A
    BY <1>1, LiveInEffect
  <2> QED
    BY <2>1, <2>2, <2>3
<1>7. \A a \in A : entry[a] \in ToSet(live)
  <2>1. \A a \in A : a \in DOMAIN entry /\ entry[a] \in ToSet(entry)
    BY <1>1, <1>2 DEF InEffect, ToSet
  <2> QED
    BY <1>1, <1>4, <2>1, LiveInEffect
\* A slot and the pair in effect on it.
<1>8. \A j \in DOMAIN raw : /\ \A p \in ToSet(live) : p[1] = raw[j] => up[j] = p[2]
                            /\ (\A p \in ToSet(live) : p[1] # raw[j]) => up[j] = raw[j]
  BY <1>1, <1>6, <1>7 DEF InEffect
<1>9. \A p \in ToSet(live) : \E j \in DOMAIN raw : raw[j] = p[1] /\ up[j] = p[2]
  <2> SUFFICES ASSUME NEW p \in ToSet(live) PROVE \E j \in DOMAIN raw : raw[j] = p[1] /\ up[j] = p[2]
    OBVIOUS
  <2>1. PICK j \in DOMAIN raw : raw[j] = p[1]
    BY <1>4 DEF Plain, ToSet
  <2> QED
    BY <1>8, <2>1
<1>10. \A i, j \in DOMAIN raw : /\ raw[i] = raw[j] /\ raw[i] \in Osd => i = j
                                /\ up[i] = up[j] /\ up[i] \in Osd => i = j
  BY <1>2, NoneIsNoOsd DEF Plain, OsdsDistinct, IsReal
<1>11. Once(live, 2)
  <2> SUFFICES ASSUME NEW i \in DOMAIN live, NEW j \in DOMAIN live, live[i][2] = live[j][2]
               PROVE  i = j
    BY DEF Once
  <2>1. live[i] \in ToSet(live) /\ live[j] \in ToSet(live)
    BY DEF ToSet
  <2>2. PICK a \in DOMAIN raw : raw[a] = live[i][1] /\ up[a] = live[i][2]
    BY <1>9, <2>1
  <2>3. PICK b \in DOMAIN raw : raw[b] = live[j][1] /\ up[b] = live[j][2]
    BY <1>9, <2>1
  <2>4. a = b
    BY <1>5, <1>10, <2>1, <2>2, <2>3
  <2> QED
    BY <1>4, <2>2, <2>3, <2>4 DEF Once
<1>12. \A p \in ToSet(live) : p \in ToSet(entry) /\ p[1] # p[2]
  BY <1>1, <1>4, <1>6 DEF InEffect
<1> QED
  BY <1>2, <1>3, <1>4, <1>8, <1>9, <1>11, <1>12

\* The pairs in effect make the up set on their own.
LEMMA LiveApplies ==
  ASSUME NEW raw, NEW entry, Plain(raw, entry),
         NEW up, up = CephUp(raw, entry), OsdsDistinct(up)
  PROVE  CephUp(raw, Live(entry, up)) = up
<1>1. PICK live : live = Live(entry, up)
  OBVIOUS
<1>2. /\ up \in [DOMAIN raw -> MaybeOsd]
      /\ live \in Seq(OsdPair) /\ Once(live, 1) /\ Once(live, 2)
  BY <1>1, LiveIs
<1>3. \A p \in ToSet(live) : p \in ToSet(entry) /\ p[1] # p[2]
  BY <1>1, LiveIs
<1>4. \A j \in DOMAIN raw : \A p \in ToSet(live) : p[1] = raw[j] => up[j] = p[2]
  BY <1>1, LiveIs
<1>5. \A j \in DOMAIN raw : (\A p \in ToSet(live) : p[1] # raw[j]) => up[j] = raw[j]
  BY <1>1, LiveIs
<1>6. \A p \in ToSet(live) : \E j \in DOMAIN raw : raw[j] = p[1] /\ up[j] = p[2]
  BY <1>1, LiveIs
<1>7. Plain(raw, live)
  <2>1. ~Chained(live)
    BY <1>3 DEF Chained, Plain
  <2>2. \A p \in ToSet(live) : p[1] \in ToSet(raw)
    BY <1>3 DEF Plain
  <2> QED
    BY <1>2, <2>1, <2>2 DEF Plain
<1>8. ASSUME NEW p \in ToSet(live), p[2] \in ToSet(raw) PROVE FALSE
  <2>1. PICK j \in DOMAIN raw : raw[j] = p[1] /\ up[j] = p[2]
    BY <1>6
  <2>2. PICK k \in DOMAIN raw : raw[k] = p[2]
    BY <1>8 DEF ToSet
  <2>3. p[2] \in Osd
    BY <1>2 DEF ToSet, OsdPair
  <2>4. CASE \E q \in ToSet(live) : q[1] = raw[k]
    <3>1. PICK q \in ToSet(live) : q[1] = raw[k]
      BY <2>4
    <3> QED
      BY <1>3, <2>2, <3>1 DEF Chained, Plain
  <2>5. CASE \A q \in ToSet(live) : q[1] # raw[k]
    <3>1. up[k] = up[j] /\ IsReal(up[k])
      BY <1>5, <2>1, <2>2, <2>3, <2>5, NoneIsNoOsd DEF IsReal
    <3>2. k = j
      BY <1>2, <3>1 DEF OsdsDistinct
    <3> QED
      BY <1>3, <2>1, <2>2, <3>2
  <2> QED
    BY <2>4, <2>5
<1>9. PICK made : made = CephUp(raw, live)
  OBVIOUS
<1>10. /\ made \in [DOMAIN raw -> MaybeOsd]
       /\ \A j \in DOMAIN raw : \A p \in ToSet(live) : p[1] = raw[j] => made[j] = p[2]
       /\ \A j \in DOMAIN raw : (\A p \in ToSet(live) : p[1] # raw[j]) => made[j] = raw[j]
  BY <1>2, <1>7, <1>8, <1>9, AllInEffect
<1>11. ASSUME NEW j \in DOMAIN raw PROVE made[j] = up[j]
  BY <1>4, <1>5, <1>10
<1>12. made = up
  BY <1>2, <1>10, <1>11
<1> QED
  BY <1>1, <1>9, <1>12

\* Pairs none of which starts where one before it leads are all applied to the up set
\* they are for.
LEMMA OrderedPairsApply ==
  ASSUME NEW up \in Seq(MaybeOsd), OsdsDistinct(up),
         NEW new \in [DOMAIN up -> MaybeOsd], OsdsDistinct(new),
         NEW ns, PairsFor(ns, up, new),
         \A k, l \in DOMAIN ns : k < l => ns[l][1] # ns[k][2]
  PROVE  CephUp(up, ns) = new
<1>1. PICK n, len, D : n = Len(ns) /\ len = Len(up) /\ D = DOMAIN up
  OBVIOUS
<1>2. /\ n \in Nat /\ DOMAIN ns = 1..n /\ len \in Nat /\ D = 1..len /\ up \in [D -> MaybeOsd]
      /\ ns \in Seq(OsdPair) /\ Once(ns, 1)
      /\ \A m \in 1..n : ns[m][1] \in Osd /\ ns[m][2] \in Osd /\ ns[m] \in Osd \X Osd
  <2>1. ns \in Seq(OsdPair) /\ Once(ns, 1)
    BY DEF PairsFor
  <2>2. n \in Nat /\ DOMAIN ns = 1..n /\ \A m \in 1..n : ns[m] \in Osd \X Osd
    BY <1>1, <2>1 DEF OsdPair
  <2> QED
    BY <1>1, <2>1, <2>2
<1>3. \A i, j \in D : /\ up[i] = up[j] /\ up[i] \in Osd => i = j
                      /\ new[i] = new[j] /\ new[i] \in Osd => i = j
  BY <1>1, NoneIsNoOsd DEF OsdsDistinct, IsReal
<1>4. ASSUME NEW m \in 1..n, NEW j \in D, ns[m][1] = up[j]
      PROVE  ns[m][2] = new[j] /\ up[j] # new[j]
  <2>1. PICK i \in D : ns[m][1] = up[i] /\ ns[m][2] = new[i] /\ up[i] # new[i]
    BY <1>1, <1>2 DEF PairsFor
  <2>2. i = j
    BY <1>2, <1>3, <1>4, <2>1
  <2> QED
    BY <2>1, <2>2
<1>5. PICK F : /\ F[0] = up
               /\ \A k \in 1..n : F[k] = ApplyPair(F[k - 1], ns[k])
               /\ CephUp(up, ns) = F[n]
  <2>1. up \in [DOMAIN up -> MaybeOsd] /\ ns \in Seq(Osd \X Osd)
    BY <1>1, <1>2 DEF OsdPair
  <2>2. \E F : /\ F[0] = up
               /\ \A k \in 1..Len(ns) : F[k] = ApplyPair(F[k - 1], ns[k])
               /\ CephUp(up, ns) = F[Len(ns)]
    BY <2>1, CephUpSteps
  <2> QED
    BY <1>1, <2>2
<1> DEFINE Moved(j, k) == \E m \in 1..k : ns[m][1] = up[j]
           Good(osds, k) == /\ osds \in [D -> MaybeOsd]
                            /\ \A j \in D : Moved(j, k) => osds[j] = new[j]
                            /\ \A j \in D : ~Moved(j, k) => osds[j] = up[j]
           K == {k \in 0..n : Good(F[k], k)}
<1>6. 0 \in K
  BY <1>2, <1>5
<1>7. ASSUME NEW k \in 0..(n - 1), k \in K PROVE k + 1 \in K
  <2>1. /\ k + 1 \in 1..n /\ k + 1 \in 0..n /\ (k + 1) - 1 = k
        /\ \A m \in 1..(k + 1) : m \in 1..k \/ m = k + 1
        /\ \A m \in 1..k : m \in 1..n /\ m < k + 1 /\ m \in 1..(k + 1)
        /\ \A m \in (1..n) \ (1..k) : m = k + 1 \/ k + 1 < m
        /\ k + 1 \in 1..(k + 1)
    BY <1>2
  <2>2. PICK osds : osds = F[k] /\ Good(osds, k)
    BY <1>7
  <2>3. PICK i \in D : ns[k + 1][1] = up[i] /\ ns[k + 1][2] = new[i] /\ up[i] # new[i]
    BY <1>1, <1>2, <2>1 DEF PairsFor
  <2>4. ~Moved(i, k)
    BY <1>2, <2>1, <2>3 DEF Once
  <2>5. up[i] \in Osd /\ new[i] \in Osd
    BY <1>2, <2>1, <2>3
  <2>6. osds \in [D -> MaybeOsd] /\ osds[i] = up[i]
    BY <2>2, <2>4
  <2>7. ASSUME NEW j \in D, osds[j] = new[i] PROVE FALSE
    <3>1. CASE Moved(j, k)
      <4>1. new[j] = new[i]
        BY <2>2, <2>7, <3>1
      <4>2. j = i
        BY <1>3, <2>5, <4>1
      <4> QED
        BY <2>4, <3>1, <4>2
    <3>2. CASE ~Moved(j, k)
      <4>1. up[j] = new[i]
        BY <2>2, <2>7, <3>2
      <4>2. up[j] # new[j]
        BY <1>3, <2>3, <2>5, <4>1
      <4>3. PICK m \in 1..n : ns[m][1] = up[j]
        BY <1>1, <1>2, <4>2 DEF PairsFor
      <4>4. m \notin 1..k
        BY <3>2, <4>3
      <4>5. m = k + 1 \/ k + 1 < m
        BY <2>1, <4>4
      <4> QED
        BY <1>2, <2>1, <2>3, <4>1, <4>3, <4>5
    <3> QED
      BY <3>1, <3>2
  <2>8. ASSUME NEW j \in D, j # i PROVE osds[j] # up[i]
    <3>1. CASE Moved(j, k)
      <4>1. PICK m \in 1..k : ns[m][1] = up[j]
        BY <3>1
      <4>2. ns[m][2] = new[j] /\ ns[k + 1][1] # ns[m][2]
        BY <1>2, <1>4, <2>1, <4>1
      <4>3. osds[j] = new[j]
        BY <2>2, <3>1
      <4> QED
        BY <2>3, <4>2, <4>3
    <3>2. CASE ~Moved(j, k)
      BY <1>3, <2>2, <2>5, <2>8, <3>2
    <3> QED
      BY <3>1, <3>2
  <2>9. F[k + 1] = [osds EXCEPT ![i] = new[i]]
    <3>1. DOMAIN osds = 1..len /\ i \in 1..len /\ \A j \in 1..len : j # i => osds[j] # up[i]
      BY <1>2, <2>6, <2>8
    <3>2. ReplaceFirst(osds, up[i], new[i]) = [osds EXCEPT ![i] = new[i]]
      <4>1. \A x \in DOMAIN osds :
              (osds[x] = up[i] /\ \A j \in 1..(x - 1) : osds[j] # up[i]) => x = i
        BY <3>1
      <4>2. \A j \in 1..(i - 1) : j \in 1..len /\ j # i
        BY <1>2, <3>1
      <4>3. \E x \in DOMAIN osds : osds[x] = up[i] /\ \A j \in 1..(x - 1) : osds[j] # up[i]
        BY <2>6, <3>1, <4>2
      <4> QED
        BY <4>1, <4>3 DEF ReplaceFirst
    <3>3. new[i] \notin ToSet(osds) /\ up[i] \in ToSet(osds)
      BY <1>2, <2>6, <2>7, <3>1 DEF ToSet
    <3>4. F[k + 1] = ApplyPair(osds, ns[k + 1])
      BY <1>5, <2>1, <2>2
    <3> QED
      BY <2>3, <3>2, <3>3, <3>4 DEF ApplyPair
  <2> PICK next : next = [osds EXCEPT ![i] = new[i]]
    OBVIOUS
  <2>10. next \in [D -> MaybeOsd] /\ next[i] = new[i] /\ \A j \in D : j # i => next[j] = osds[j]
    BY <2>5, <2>6 DEF MaybeOsd
  <2>11. \A j \in D : Moved(j, k + 1) <=> (Moved(j, k) \/ j = i)
    <3> SUFFICES ASSUME NEW j \in D PROVE Moved(j, k + 1) <=> (Moved(j, k) \/ j = i)
      OBVIOUS
    <3>1. Moved(j, k) \/ j = i => Moved(j, k + 1)
      BY <2>1, <2>3
    <3>2. ns[k + 1][1] = up[j] => j = i
      BY <1>3, <2>3, <2>5
    <3>3. Moved(j, k + 1) => Moved(j, k) \/ j = i
      BY <2>1, <3>2
    <3> QED
      BY <3>1, <3>3
  <2>12. Good(next, k + 1)
    <3> HIDE DEF Moved
    <3> QED
      BY <2>2, <2>10, <2>11
  <2> HIDE DEF Good
  <2> QED
    BY <2>1, <2>9, <2>12
<1>8. n \in K
  <2>1. n \in 0..n
    BY <1>2
  <2> HIDE DEF K
  <2> QED
    BY <1>2, <1>6, <1>7, <2>1, UpTo
<1>9. PICK osds : osds = CephUp(up, ns) /\ Good(osds, n)
  BY <1>5, <1>8
<1>10. ASSUME NEW j \in D PROVE osds[j] = new[j]
  <2>1. CASE Moved(j, n)
    BY <1>9, <2>1
  <2>2. CASE ~Moved(j, n)
    <3>1. up[j] = new[j]
      BY <1>1, <1>2, <2>2 DEF PairsFor
    <3> QED
      BY <1>9, <2>2, <3>1
  <2> QED
    BY <2>1, <2>2
<1>11. osds = new
  BY <1>1, <1>9, <1>10
<1> QED
  BY <1>9, <1>11

\* The pairs a command prints, unless they chain with those in effect, make the up set
\* it planned.
THEOREM ImportedApplies ==
  ASSUME NEW raw, NEW entry, Plain(raw, entry),
         NEW up, up = CephUp(raw, entry), OsdsDistinct(up),
         NEW new \in [DOMAIN raw -> MaybeOsd], OsdsDistinct(new),
         NEW ns, PairsFor(ns, up, new), ~WouldChain(entry, up, ns)
  PROVE  CephUp(raw, Imported(entry, up, ns)) = new
<1>1. up \in [DOMAIN raw -> MaybeOsd]
  BY LiveIs
<1>2. /\ up \in [DOMAIN raw -> MaybeOsd] /\ DOMAIN up = DOMAIN raw /\ raw \in Seq(MaybeOsd)
      /\ entry \in Seq(OsdPair) /\ ns \in Seq(OsdPair) /\ Once(ns, 1)
  BY <1>1 DEF Plain, PairsFor
<1>3. PICK live : live = Live(entry, up)
  OBVIOUS
<1>4. /\ live \in Seq(OsdPair) /\ Once(live, 1) /\ Once(live, 2)
      /\ up \in [DOMAIN raw -> MaybeOsd]
  BY <1>3, LiveIs
<1>5. \A p \in ToSet(live) : p \in OsdPair /\ p[1] \in Osd /\ p[2] \in Osd
  BY <1>4 DEF ToSet, OsdPair
<1>8. \A j \in DOMAIN raw : /\ \A p \in ToSet(live) : p[1] = raw[j] => up[j] = p[2]
                            /\ (\A p \in ToSet(live) : p[1] # raw[j]) => up[j] = raw[j]
  BY <1>3, LiveIs
<1>9. \A p \in ToSet(live) : \E j \in DOMAIN raw : raw[j] = p[1] /\ up[j] = p[2]
  BY <1>3, LiveIs
<1>10. \A i, j \in DOMAIN raw : /\ raw[i] = raw[j] /\ raw[i] \in Osd => i = j
                                /\ up[i] = up[j] /\ up[i] \in Osd => i = j
  BY <1>2, NoneIsNoOsd DEF Plain, OsdsDistinct, IsReal
<1>12. PICK f : f = FoldPairs(live, ns)
  OBVIOUS
<1>13. /\ f \in FoldState /\ Once(f.rest, 1)
       /\ ToSet(f.rest) = {p \in ToSet(live) : \A m \in DOMAIN ns : p[2] # ns[m][1]}
       /\ Len(f.effective) = Len(ns)
       /\ \A m \in DOMAIN ns :
            /\ f.effective[m][2] = ns[m][2]
            /\ \A p \in ToSet(live) : p[2] = ns[m][1] => f.effective[m][1] = p[1]
            /\ (\A p \in ToSet(live) : p[2] # ns[m][1]) => f.effective[m][1] = ns[m][1]
  BY <1>2, <1>4, <1>12, FoldPairsIs
<1>14. /\ f.rest \in Seq(OsdPair) /\ f.effective \in Seq(OsdPair) /\ DOMAIN f.effective = DOMAIN ns
       /\ \A m \in DOMAIN ns : ns[m] \in OsdPair /\ ns[m][1] \in Osd /\ ns[m][2] \in Osd
  <2>1. f.rest \in Seq(OsdPair) /\ f.effective \in Seq(OsdPair)
    BY <1>13 DEF FoldState
  <2> QED
    BY <1>2, <1>13, <2>1 DEF OsdPair
\* Each pair of the folded entry leads from a slot's raw OSD to its new one.
<1>15. ASSUME NEW p \in ToSet(f.rest)
       PROVE  \E j \in DOMAIN raw : p[1] = raw[j] /\ p[2] = new[j] /\ up[j] = new[j]
  <2>1. p \in ToSet(live) /\ \A m \in DOMAIN ns : p[2] # ns[m][1]
    BY <1>13
  <2>2. PICK j \in DOMAIN raw : raw[j] = p[1] /\ up[j] = p[2]
    BY <1>9, <2>1
  <2>3. \A m \in DOMAIN ns : up[j] # ns[m][1]
    BY <2>1, <2>2
  <2>4. up[j] = new[j]
    BY <1>2, <2>3 DEF PairsFor
  <2> QED
    BY <2>2, <2>4
<1>16. ASSUME NEW m \in DOMAIN ns, NEW j \in DOMAIN raw, ns[m][1] = up[j], ns[m][2] = new[j]
       PROVE  f.effective[m][1] = raw[j] /\ f.effective[m][2] = new[j]
  <2>1. CASE \E p \in ToSet(live) : p[2] = up[j]
    <3>1. PICK p \in ToSet(live) : p[2] = up[j]
      BY <2>1
    <3>2. PICK k \in DOMAIN raw : raw[k] = p[1] /\ up[k] = p[2]
      BY <1>9, <3>1
    <3>3. k = j
      BY <1>5, <1>10, <3>1, <3>2
    <3> QED
      BY <1>13, <1>16, <3>1, <3>2, <3>3
  <2>2. CASE \A p \in ToSet(live) : p[2] # up[j]
    <3>1. up[j] = raw[j]
      BY <1>8, <2>2
    <3> QED
      BY <1>13, <1>16, <2>2, <3>1
  <2> QED
    BY <2>1, <2>2
<1>17. ASSUME NEW m \in DOMAIN ns
       PROVE  \E j \in DOMAIN raw : /\ ns[m][1] = up[j] /\ up[j] # new[j]
                                    /\ f.effective[m][1] = raw[j] /\ f.effective[m][2] = new[j]
  <2>1. PICK j \in DOMAIN raw : ns[m][1] = up[j] /\ ns[m][2] = new[j] /\ up[j] # new[j]
    BY <1>2 DEF PairsFor
  <2> QED
    BY <1>16, <2>1
<1>18. PICK X : X = f.rest \o f.effective
  OBVIOUS
<1>19. Once(f.effective, 1)
  <2> SUFFICES ASSUME NEW m \in DOMAIN ns, NEW k \in DOMAIN ns,
                      f.effective[m][1] = f.effective[k][1]
               PROVE  m = k
    BY <1>14 DEF Once
  <2>1. PICK a \in DOMAIN raw : ns[m][1] = up[a] /\ f.effective[m][1] = raw[a]
    BY <1>17
  <2>2. PICK b \in DOMAIN raw : ns[k][1] = up[b] /\ f.effective[k][1] = raw[b]
    BY <1>17
  <2>3. raw[a] \in Osd
    BY <1>14, <2>1 DEF OsdPair
  <2>4. raw[a] = raw[b]
    BY <2>1, <2>2
  <2>5. a = b
    BY <1>10, <2>3, <2>4
  <2> QED
    BY <1>2, <2>1, <2>2, <2>5 DEF Once
<1>20. \A p \in ToSet(f.rest) : \A q \in ToSet(f.effective) : p[1] # q[1]
  <2> SUFFICES ASSUME NEW p \in ToSet(f.rest), NEW m \in DOMAIN ns, p[1] = f.effective[m][1]
               PROVE  FALSE
    BY <1>14 DEF ToSet
  <2>1. PICK j \in DOMAIN raw : p[1] = raw[j] /\ up[j] = new[j]
    BY <1>15
  <2>2. PICK k \in DOMAIN raw : f.effective[m][1] = raw[k] /\ up[k] # new[k]
    BY <1>17
  <2>3. p[1] \in Osd
    BY <1>5, <1>13
  <2> QED
    BY <1>10, <2>1, <2>2, <2>3
<1>21. /\ X \in Seq(OsdPair) /\ Once(X, 1)
       /\ ToSet(X) = ToSet(f.rest) \union ToSet(f.effective)
  BY <1>13, <1>14, <1>18, <1>19, <1>20, OneAfterTheOther
<1>22. ASSUME NEW p \in ToSet(X) PROVE \E j \in DOMAIN raw : p[1] = raw[j] /\ p[2] = new[j]
  <2>1. CASE p \in ToSet(f.rest)
    BY <1>15, <2>1
  <2>2. CASE p \in ToSet(f.effective)
    <3>1. PICK m \in DOMAIN ns : p = f.effective[m]
      BY <1>14, <2>2 DEF ToSet
    <3> QED
      BY <1>17, <3>1
  <2> QED
    BY <1>21, <2>1, <2>2
<1>23. ASSUME NEW j \in DOMAIN raw, raw[j] # new[j]
       PROVE  \E p \in ToSet(X) : p[1] = raw[j] /\ p[2] = new[j]
  <2>1. CASE up[j] # new[j]
    <3>1. PICK m \in DOMAIN ns : ns[m][1] = up[j] /\ ns[m][2] = new[j]
      BY <1>2, <2>1 DEF PairsFor
    <3>2. f.effective[m] \in ToSet(X)
      BY <1>14, <1>21 DEF ToSet
    <3> QED
      BY <1>16, <3>1, <3>2
  <2>2. CASE up[j] = new[j]
    <3>1. PICK p \in ToSet(live) : p[1] = raw[j] /\ up[j] = p[2]
      BY <1>8, <1>23, <2>2
    <3>2. ASSUME NEW m \in DOMAIN ns, p[2] = ns[m][1] PROVE FALSE
      <4>1. PICK k \in DOMAIN raw : ns[m][1] = up[k] /\ up[k] # new[k]
        BY <1>17
      <4>2. k = j
        BY <1>5, <1>10, <3>1, <3>2, <4>1
      <4> QED
        BY <2>2, <4>1, <4>2
    <3>3. p \in ToSet(f.rest)
      BY <1>13, <3>1, <3>2
    <3> QED
      BY <1>21, <2>2, <3>1, <3>3
  <2> QED
    BY <2>1, <2>2
<1>24. ~Chained(X)
  BY <1>3, <1>12, <1>18 DEF WouldChain
<1>25. Imported(entry, up, ns) = Without(X, {<<o, o>> : o \in Osd})
  BY <1>3, <1>12, <1>18, <1>24, Zenon DEF Imported
<1>26. CephUp(raw, Without(X, {<<o, o>> : o \in Osd})) = new
  BY <1>2, <1>21, <1>22, <1>23, <1>24, SlotBySlot DEF Plain
<1> QED
  BY <1>25, <1>26

\* Which order the pairs are in does not matter to whether they chain.
LEMMA ChainsAlike ==
  ASSUME NEW raw, NEW entry, Plain(raw, entry),
         NEW up, up = CephUp(raw, entry), OsdsDistinct(up),
         NEW new, NEW a, PairsFor(a, up, new), NEW b, PairsFor(b, up, new),
         WouldChain(entry, up, b)
  PROVE  WouldChain(entry, up, a)
<1>1. PICK live, f, g : /\ live = Live(entry, up)
                        /\ f = FoldPairs(live, a) /\ g = FoldPairs(live, b)
  OBVIOUS
<1>2. live \in Seq(OsdPair) /\ Once(live, 1) /\ Once(live, 2)
  BY <1>1, LiveIs
<1>3. /\ a \in Seq(OsdPair) /\ Once(a, 1) /\ b \in Seq(OsdPair) /\ Once(b, 1)
  BY DEF PairsFor
<1>4. /\ f \in FoldState
      /\ ToSet(f.rest) = {p \in ToSet(live) : \A m \in DOMAIN a : p[2] # a[m][1]}
      /\ Len(f.effective) = Len(a)
      /\ \A m \in DOMAIN a :
           /\ f.effective[m][2] = a[m][2]
           /\ \A p \in ToSet(live) : p[2] = a[m][1] => f.effective[m][1] = p[1]
           /\ (\A p \in ToSet(live) : p[2] # a[m][1]) => f.effective[m][1] = a[m][1]
  BY <1>1, <1>2, <1>3, FoldPairsIs
<1>5. /\ g \in FoldState
      /\ ToSet(g.rest) = {p \in ToSet(live) : \A m \in DOMAIN b : p[2] # b[m][1]}
      /\ Len(g.effective) = Len(b)
      /\ \A m \in DOMAIN b :
           /\ g.effective[m][2] = b[m][2]
           /\ \A p \in ToSet(live) : p[2] = b[m][1] => g.effective[m][1] = p[1]
           /\ (\A p \in ToSet(live) : p[2] # b[m][1]) => g.effective[m][1] = b[m][1]
  BY <1>1, <1>2, <1>3, FoldPairsIs
<1>6. /\ f.rest \in Seq(OsdPair) /\ f.effective \in Seq(OsdPair) /\ DOMAIN f.effective = DOMAIN a
      /\ g.rest \in Seq(OsdPair) /\ g.effective \in Seq(OsdPair) /\ DOMAIN g.effective = DOMAIN b
  BY <1>3, <1>4, <1>5 DEF FoldState
<1>7. ASSUME NEW m \in DOMAIN b PROVE \E k \in DOMAIN a : a[k][1] = b[m][1] /\ a[k][2] = b[m][2]
  <2>1. PICK j \in DOMAIN up : b[m][1] = up[j] /\ b[m][2] = new[j] /\ up[j] # new[j]
    BY DEF PairsFor
  <2>2. PICK k \in DOMAIN a : a[k][1] = up[j] /\ a[k][2] = new[j]
    BY <2>1 DEF PairsFor
  <2> QED
    BY <2>1, <2>2
<1>8. ASSUME NEW k \in DOMAIN a PROVE \E m \in DOMAIN b : b[m][1] = a[k][1]
  <2>1. PICK j \in DOMAIN up : a[k][1] = up[j] /\ a[k][2] = new[j] /\ up[j] # new[j]
    BY DEF PairsFor
  <2>2. PICK m \in DOMAIN b : b[m][1] = up[j] /\ b[m][2] = new[j]
    BY <2>1 DEF PairsFor
  <2> QED
    BY <2>1, <2>2
<1>9. ASSUME NEW p \in ToSet(g.rest) PROVE p \in ToSet(f.rest)
  BY <1>4, <1>5, <1>8
<1>10. ASSUME NEW p \in ToSet(g.effective)
       PROVE  \E q \in ToSet(f.effective) : q[1] = p[1] /\ q[2] = p[2]
  <2>1. PICK m \in DOMAIN b : p = g.effective[m]
    BY <1>6 DEF ToSet
  <2>2. PICK k \in DOMAIN a : a[k][1] = b[m][1] /\ a[k][2] = b[m][2]
    BY <1>7
  <2>3. f.effective[k] \in ToSet(f.effective)
    BY <1>6 DEF ToSet
  <2>4. f.effective[k][1] = p[1] /\ f.effective[k][2] = p[2]
    BY <1>4, <1>5, <2>1, <2>2
  <2> QED
    BY <2>3, <2>4
<1>11. /\ ToSet(f.rest \o f.effective) = ToSet(f.rest) \union ToSet(f.effective)
       /\ ToSet(g.rest \o g.effective) = ToSet(g.rest) \union ToSet(g.effective)
  BY <1>6, OneAfterTheOther
<1>12. ASSUME NEW p \in ToSet(g.rest \o g.effective)
       PROVE  \E q \in ToSet(f.rest \o f.effective) : q[1] = p[1] /\ q[2] = p[2]
  BY <1>9, <1>10, <1>11
<1>13. Chained(g.rest \o g.effective)
  BY <1>1 DEF WouldChain
<1>14. PICK p, q : /\ p \in ToSet(g.rest \o g.effective) /\ p[1] # p[2]
                   /\ q \in ToSet(g.rest \o g.effective) /\ q[1] # q[2]
                   /\ p[2] = q[1]
  BY <1>13 DEF Chained
<1>15. PICK x \in ToSet(f.rest \o f.effective) : x[1] = p[1] /\ x[2] = p[2]
  BY <1>12, <1>14
<1>16. PICK y \in ToSet(f.rest \o f.effective) : y[1] = q[1] /\ y[2] = q[2]
  BY <1>12, <1>14
<1>17. Chained(f.rest \o f.effective)
  BY <1>14, <1>15, <1>16 DEF Chained
<1> QED
  BY <1>1, <1>17 DEF WouldChain

\* Pairs that chain have a head among the new ones: one that leads, as folded, to where
\* another starts.
LEMMA ChainHasHead ==
  ASSUME NEW raw, NEW entry, Plain(raw, entry),
         NEW up, up = CephUp(raw, entry), OsdsDistinct(up),
         NEW ns \in Seq(OsdPair), Once(ns, 1), WouldChain(entry, up, ns)
  PROVE  LET f == FoldPairs(Live(entry, up), ns)
         IN  \E m \in DOMAIN ns : /\ f.effective[m] \in ToSet(f.rest \o f.effective)
                                  /\ f.effective[m][1] # f.effective[m][2]
                                  /\ \E q \in ToSet(f.rest \o f.effective) :
                                       q[1] # q[2] /\ q[1] = f.effective[m][2]
<1>1. PICK live, f : live = Live(entry, up) /\ f = FoldPairs(live, ns)
  OBVIOUS
<1>2. live \in Seq(OsdPair) /\ Once(live, 1) /\ Once(live, 2)
  BY <1>1, LiveIs
<1>3. \A p \in ToSet(live) : p \in ToSet(entry) /\ p[1] # p[2]
  BY <1>1, LiveIs
<1>4. /\ f \in FoldState
      /\ ToSet(f.rest) = {p \in ToSet(live) : \A m \in DOMAIN ns : p[2] # ns[m][1]}
      /\ Len(f.effective) = Len(ns)
      /\ \A m \in DOMAIN ns :
           /\ f.effective[m][2] = ns[m][2]
           /\ \A p \in ToSet(live) : p[2] = ns[m][1] => f.effective[m][1] = p[1]
           /\ (\A p \in ToSet(live) : p[2] # ns[m][1]) => f.effective[m][1] = ns[m][1]
  BY <1>1, <1>2, FoldPairsIs
<1>5. /\ f.rest \in Seq(OsdPair) /\ f.effective \in Seq(OsdPair) /\ DOMAIN f.effective = DOMAIN ns
  BY <1>4 DEF FoldState
<1>6. PICK X : X = f.rest \o f.effective
  OBVIOUS
<1>7. ToSet(X) = ToSet(f.rest) \union ToSet(f.effective)
  BY <1>5, <1>6, OneAfterTheOther
<1>8. Chained(X)
  BY <1>1, <1>6 DEF WouldChain
<1>9. PICK p, q : /\ p \in ToSet(X) /\ p[1] # p[2]
                  /\ q \in ToSet(X) /\ q[1] # q[2]
                  /\ p[2] = q[1]
  BY <1>8 DEF Chained
<1>10. p \notin ToSet(f.rest)
  <2> SUFFICES ASSUME p \in ToSet(f.rest) PROVE FALSE
    OBVIOUS
  <2>1. p \in ToSet(live) /\ \A m \in DOMAIN ns : p[2] # ns[m][1]
    BY <1>4
  <2>2. \A r \in ToSet(live) : p[2] # r[1]
    BY <1>3, <2>1 DEF Chained, Plain
  <2>3. q \notin ToSet(f.rest)
    BY <1>4, <1>9, <2>2
  <2>4. PICK m \in DOMAIN ns : q = f.effective[m]
    BY <1>5, <1>7, <1>9, <2>3 DEF ToSet
  <2>5. CASE \E r \in ToSet(live) : r[2] = ns[m][1]
    BY <1>4, <1>9, <2>2, <2>4, <2>5
  <2>6. CASE \A r \in ToSet(live) : r[2] # ns[m][1]
    BY <1>4, <1>9, <2>1, <2>4, <2>6
  <2> QED
    BY <2>5, <2>6
<1>11. PICK m \in DOMAIN ns : p = f.effective[m]
  BY <1>5, <1>7, <1>9, <1>10 DEF ToSet
<1> QED
  BY <1>1, <1>6, <1>9, <1>11

-----------------------------------------------------------------------------
(* What close_pins gives the commands that pin shards back: pins that are   *)
(* valid, and that keep the PG's shards on hosts of their own.              *)

\* A set of pins that close_pins returns is one of the valid ones.
LEMMA ClosePinsIsValid ==
  ASSUME NEW up, NEW acting, NEW requested, ClosePins(up, acting, requested) # {}
  PROVE  ClosePins(up, acting, requested) \in ValidPins(up, acting, requested)
<1> DEFINE L == ClosePins(up, acting, requested)
           V == ValidPins(up, acting, requested)
<1>1. /\ L \subseteq DOMAIN up /\ V # {}
      /\ \A P \in V : L \subseteq P
      /\ \A j \in DOMAIN up : (\A P \in V : j \in P) => j \in L
  BY DEF ClosePins
<1>2. \A P \in V : /\ P \subseteq DOMAIN up
                   /\ requested \subseteq P
                   /\ \A j \in P : CanPin(up, acting, j)
                   /\ ClashingWith(up, acting, P) = {}
  BY DEF ValidPins
<1>3. requested \subseteq L /\ \A j \in L : CanPin(up, acting, j)
  BY <1>1, <1>2
<1>4. ClashingWith(up, acting, L) = {}
  <2> SUFFICES ASSUME NEW j \in DOMAIN up \ L, IsReal(up[j]),
                      NEW k \in L, SamePlace(acting[k], up[j])
               PROVE  FALSE
    BY DEF ClashingWith
  <2>1. PICK P \in V : j \notin P
    BY <1>1
  <2>2. k \in P
    BY <1>1
  <2>3. j \in ClashingWith(up, acting, P)
    BY <2>1, <2>2 DEF ClashingWith
  <2> QED
    BY <1>2, <2>3
<1> QED
  BY <1>1, <1>3, <1>4 DEF ValidPins

\* The least pins are those asked for, and slots whose shards would clash.
LEMMA ClosePinsAreReal ==
  ASSUME NEW up, NEW acting, NEW requested,
         NEW j \in ClosePins(up, acting, requested), j \notin requested
  PROVE  IsReal(up[j])
<1> SUFFICES ASSUME ~IsReal(up[j]) PROVE FALSE
  OBVIOUS
<1>1. PICK P : P = ClosePins(up, acting, requested)
  OBVIOUS
<1>2. P \in ValidPins(up, acting, requested) /\ j \in P
  BY <1>1, ClosePinsIsValid
<1>3. P \ {j} \in ValidPins(up, acting, requested)
  BY <1>2 DEF ValidPins, ClashingWith
<1> QED
  BY <1>1, <1>3 DEF ClosePins

\* Valid pins of an up set may be taken.
LEMMA PinsApart ==
  ASSUME NEW up, NEW acting, DOMAIN acting = DOMAIN up,
         HostsDistinct(up), HostsDistinct(acting),
         NEW P \in SUBSET DOMAIN up,
         ClashingWith(up, acting, P) = {}
  PROVE  HostsDistinct(PinnedUp(up, acting, P))
<1> DEFINE new == PinnedUp(up, acting, P)
<1>1. /\ DOMAIN new = DOMAIN up
      /\ \A j \in P : new[j] = acting[j]
      /\ \A j \in DOMAIN up \ P : new[j] = up[j]
  BY DEF PinnedUp
<1>2. \A a, b : SamePlace(a, b) => SamePlace(b, a)
  BY DEF SamePlace
<1>3. \A j \in P : \A k \in DOMAIN up \ P : IsReal(up[k]) => ~SamePlace(acting[j], up[k])
  BY DEF ClashingWith
<1> HIDE DEF new
<1>4. ASSUME NEW j \in DOMAIN new, NEW k \in DOMAIN new,
             j # k, IsReal(new[j]), IsReal(new[k])
      PROVE  ~SamePlace(new[j], new[k])
  <2>1. CASE j \in P /\ k \in P
    BY <1>1, <1>4, <2>1 DEF HostsDistinct
  <2>2. CASE j \in P /\ k \notin P
    BY <1>1, <1>3, <1>4, <2>2
  <2>3. CASE j \notin P /\ k \in P
    BY <1>1, <1>2, <1>3, <1>4, <2>3
  <2>4. CASE j \notin P /\ k \notin P
    BY <1>1, <1>4, <2>4 DEF HostsDistinct
  <2> QED
    BY <2>1, <2>2, <2>3, <2>4
<1>5. HostsDistinct(new)
  BY <1>4 DEF HostsDistinct
<1> QED
  BY <1>5 DEF new

=============================================================================
