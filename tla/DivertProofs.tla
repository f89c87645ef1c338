---------------------------- MODULE DivertProofs ----------------------------
(***************************************************************************)
(* divert-toofull, for any cluster: each stuck shard is dealt with once,    *)
(* those with their data on the fullest OSD first, what it proposes keeps   *)
(* the planner's promises, and what it says will fit will.                  *)
(***************************************************************************)
EXTENDS Divert, PlannerProofs

USE NoneIsNoOsd, StaticsTyped, SettingsTyped

(* The order of the stuck shards.                                           *)

\* A stuck shard is one in motion, of a PG whose pairs do not chain.
LEMMA StuckIs ==
  ASSUME NEW x \in Stuck
  PROVE  /\ x[1] \in Pg /\ x[2] \in Slots(cluster, x[1]) /\ x = <<x[1], x[2]>>
         /\ Arriving(cluster, x[1], x[2]) /\ IsReal(UpOf(x[1], x[2]))
         /\ ~Chained(cluster.pairs[x[1]])
<1>1. x \in Shards /\ Arriving(cluster, x[1], x[2]) /\ ~Chained(cluster.pairs[x[1]])
  BY DEF Stuck
<1>2. x[1] \in Pg /\ x[2] \in Slots(cluster, x[1]) /\ x = <<x[1], x[2]>>
  BY <1>1, ShardIs
<1>3. IsReal(UpOf(x[1], x[2]))
  BY <1>1 DEF Arriving, UpOf
<1> QED
  BY <1>1, <1>2, <1>3

\* There are finitely many shards.
LEMMA ShardsAreFinite ==
  ASSUME ClusterTyped(cluster)
  PROVE  IsFiniteSet(Shards)
<1>1. PICK f, T : /\ f = [pg \in Pg |-> {pg} \X Slots(cluster, pg)]
                  /\ T = {{pg} \X Slots(cluster, pg) : pg \in Pg}
  OBVIOUS
<1>2. f \in Surjection(Pg, T)
  BY <1>1 DEF Surjection
<1>3. IsFiniteSet(T)
  BY <1>2, FS_Surjection
<1>4. ASSUME NEW pg \in Pg PROVE IsFiniteSet({pg} \X Slots(cluster, pg))
  <2>1. Slots(cluster, pg) = 1..Len(cluster.up[pg]) /\ Len(cluster.up[pg]) \in Nat
    BY DEF ClusterTyped, Slots
  <2>2. PICK n \in Nat : Slots(cluster, pg) = 1..n
    BY <2>1
  <2>3. IsFiniteSet(Slots(cluster, pg))
    BY <2>2, FS_Interval
  <2> QED
    BY <2>3, FS_Singleton, FS_Product
<1>5. \A t \in T : IsFiniteSet(t)
  BY <1>1, <1>4
<1>6. IsFiniteSet(UNION T)
  BY <1>3, <1>5, FS_UNION
<1> QED
  BY <1>1, <1>6 DEF Shards

\* shard_key tells a PG's shards apart.
LEMMA KeyIs ==
  ASSUME cluster \in Clusters, NEW x \in Stuck, NEW y \in Stuck
  PROVE  /\ ShardKey(x) \in Int
         /\ x[1] = y[1] /\ ShardKey(x) = ShardKey(y) => x = y
<1>1. ClusterTyped(cluster) /\ Consistent(cluster)
  BY ClustersTyped
<1>2. PICK pg, i, j : pg = x[1] /\ i = x[2] /\ j = y[2]
  OBVIOUS
<1>3. pg \in Pg /\ i \in Slots(cluster, pg) /\ x = <<pg, i>> /\ IsReal(UpOf(pg, i))
  BY <1>2, StuckIs
<1>4. UpOf(pg, i) \in Osd /\ i \in Nat
  <2>1. Up(cluster, pg) \in [Slots(cluster, pg) -> Osd \union {None}] /\ Slots(cluster, pg) \subseteq Nat
    BY <1>1, <1>3, ClusterFacts
  <2> QED
    BY <1>3, <2>1 DEF UpOf, IsReal
<1>5. ShardKey(x) = IF Ec[pg] THEN i ELSE UpOf(pg, i)
  BY <1>2 DEF ShardKey
<1>6. ASSUME y[1] = pg, ShardKey(x) = ShardKey(y) PROVE i = j
  <2>1. j \in Slots(cluster, pg) /\ IsReal(UpOf(pg, j))
    BY <1>2, <1>6, StuckIs
  <2>2. ShardKey(y) = IF Ec[pg] THEN j ELSE UpOf(pg, j)
    BY <1>2, <1>6 DEF ShardKey
  <2>3. CASE Ec[pg]
    BY <1>5, <1>6, <2>2, <2>3
  <2>4. CASE ~Ec[pg]
    <3>1. UpOf(pg, i) = UpOf(pg, j)
      BY <1>5, <1>6, <2>2, <2>4
    <3>2. OsdsDistinct(Up(cluster, pg)) /\ DOMAIN Up(cluster, pg) = Slots(cluster, pg)
      BY <1>1, <1>3, FetchedDistinct DEF Up, Slots
    <3> QED
      BY <1>3, <2>1, <3>1, <3>2 DEF OsdsDistinct, UpOf
  <2> QED
    BY <2>3, <2>4
<1>7. ASSUME x[1] = y[1], ShardKey(x) = ShardKey(y) PROVE x = y
  <2>1. y[1] = pg
    BY <1>2, <1>7
  <2>2. i = j
    BY <1>6, <1>7, <2>1
  <2>3. y = <<y[1], y[2]>>
    BY StuckIs
  <2>4. y = <<pg, i>>
    BY <1>2, <2>1, <2>2, <2>3
  <2> QED
    BY <1>3, <2>4
<1>8. ShardKey(x) \in Int
  <2>1. ShardKey(x) = i \/ ShardKey(x) = UpOf(pg, i)
    BY <1>5
  <2>2. UpOf(pg, i) \in Int /\ i \in Int
    <3>1. PICK o \in Osd : o = UpOf(pg, i)
      BY <1>4
    <3>2. o \in Int
      BY StaticsTyped
    <3> QED
      BY <1>4, <3>1, <3>2
  <2>3. PICK k \in Int : ShardKey(x) = k
    BY <2>1, <2>2
  <2> QED
    BY <2>3
<1> QED
  BY <1>7, <1>8

\* So the stuck shards are in a strict order.
LEMMA InOrderIsOrder ==
  ASSUME cluster \in Clusters, NEW x \in Stuck, NEW y \in Stuck, NEW z \in Stuck
  PROVE  /\ x # y => InOrder(x, y) \/ InOrder(y, x)
         /\ ~(InOrder(x, y) /\ InOrder(y, x))
         /\ InOrder(x, y) /\ InOrder(y, z) => InOrder(x, z)
<1>1. x[1] \in Int /\ y[1] \in Int /\ z[1] \in Int
  BY StuckIs
<1>2. PICK a \in Int, b \in Int, c \in Int : a = ShardKey(x) /\ b = ShardKey(y) /\ c = ShardKey(z)
  BY KeyIs
<1>3. x[1] = y[1] /\ a = b => x = y
  BY <1>2, KeyIs
<1> QED
  BY <1>1, <1>2, <1>3 DEF InOrder

\* Of the stuck shards with data on an OSD, the n-th has n - 1 before it.
LEMMA NthOnIs ==
  ASSUME cluster \in Clusters, NEW a
  PROVE  /\ Cardinality(StuckOn(a)) \in Nat
         /\ \A n \in 1 .. Cardinality(StuckOn(a)) : NthOn(a, n) \in StuckOn(a)
         /\ \A x \in StuckOn(a) : \E n \in 1 .. Cardinality(StuckOn(a)) : NthOn(a, n) = x
         /\ \A n, k \in 1 .. Cardinality(StuckOn(a)) : n < k => InOrder(NthOn(a, n), NthOn(a, k))
<1> DEFINE S == StuckOn(a)
           Below(x) == {y \in S : InOrder(y, x)}
           C == Cardinality(S)
           place == [x \in S |-> Cardinality(Below(x)) + 1]
<1>0. IsFiniteSet(S)
  <2>1. S \subseteq Shards
    BY DEF StuckOn, Stuck
  <2> QED
    BY <2>1, ClustersTyped, ShardsAreFinite, FS_Subset
<1>1. C \in Nat
  BY <1>0, FS_CardinalityType
<1>2. \A x \in S : IsFiniteSet(Below(x)) /\ Cardinality(Below(x)) \in Nat
  BY <1>0, FS_Subset, FS_CardinalityType
<1>3. \A x, y, z \in S : /\ x # y => InOrder(x, y) \/ InOrder(y, x)
                         /\ ~(InOrder(x, y) /\ InOrder(y, x))
                         /\ InOrder(x, y) /\ InOrder(y, z) => InOrder(x, z)
  BY InOrderIsOrder DEF StuckOn
<1>4. ASSUME NEW x \in S PROVE Cardinality(Below(x)) + 1 \in 1 .. C
  <2>1. Below(x) \subseteq S /\ x \notin Below(x)
    BY <1>3
  <2>2. Cardinality(Below(x)) <= C /\ Cardinality(Below(x)) # C
    <3> HIDE DEF Below, S
    <3> QED
      BY <1>0, <2>1, FS_Subset
  <2>3. Cardinality(Below(x)) \in Nat
    BY <1>2
  <2>4. PICK k, l \in Nat : k = Cardinality(Below(x)) /\ l = C
    BY <1>1, <2>3
  <2>5. k + 1 \in 1 .. l
    BY <2>2, <2>4
  <2> HIDE DEF Below, S, C
  <2> QED
    BY <2>4, <2>5
<1>5. ASSUME NEW x \in S, NEW y \in S, InOrder(x, y)
      PROVE  Cardinality(Below(x)) < Cardinality(Below(y))
  <2>1. x \in Below(y) /\ x \notin Below(x)
    BY <1>3, <1>5
  <2>2. Below(x) \subseteq Below(y)
    BY <1>3, <1>5
  <2>3. Cardinality(Below(x)) <= Cardinality(Below(y)) /\ Cardinality(Below(x)) # Cardinality(Below(y))
    <3> HIDE DEF Below
    <3> QED
      BY <1>2, <2>1, <2>2, FS_Subset
  <2> HIDE DEF Below
  <2> QED
    BY <1>2, <2>3
<1>6. place \in Injection(S, 1 .. C)
  <2>1. place \in [S -> 1 .. C]
    BY <1>4
  <2>2. ASSUME NEW x \in S, NEW y \in S, place[x] = place[y], x # y PROVE FALSE
    <3>1. Cardinality(Below(x)) + 1 = Cardinality(Below(y)) + 1
      BY <2>2
    <3>2. InOrder(x, y) \/ InOrder(y, x)
      BY <1>3, <2>2
    <3> HIDE DEF Below, S
    <3> QED
      BY <1>2, <1>5, <3>1, <3>2
  <2> QED
    BY <2>1, <2>2 DEF Injection, IsInjective
<1>7. IsFiniteSet(1 .. C) /\ Cardinality(1 .. C) = C
  BY <1>1, FS_Interval
<1>8. place \in Surjection(S, 1 .. C)
  <2> HIDE DEF place, S
  <2> QED
    BY <1>0, <1>6, <1>7, FS_Injection
<1>9. ASSUME NEW n \in 1 .. C
      PROVE  NthOn(a, n) \in S /\ Cardinality(Below(NthOn(a, n))) = n - 1
  <2>1. PICK x \in S : place[x] = n
    BY <1>8 DEF Surjection
  <2>2. Cardinality(Below(x)) = n - 1
    <3>1. Cardinality(Below(x)) + 1 = n
      BY <2>1
    <3> HIDE DEF Below
    <3> QED
      BY <1>2, <3>1
  <2> QED
    BY <2>2 DEF NthOn
<1>10. ASSUME NEW x \in S PROVE \E n \in 1 .. C : NthOn(a, n) = x
  <2>1. PICK n \in 1 .. C : n = Cardinality(Below(x)) + 1
    BY <1>4
  <2>2. NthOn(a, n) \in S /\ Cardinality(Below(NthOn(a, n))) = n - 1
    BY <1>9
  <2>3. PICK y \in S : y = NthOn(a, n)
    BY <2>2
  <2>4. Cardinality(Below(x)) = Cardinality(Below(y))
    <3> HIDE DEF Below, S
    <3> QED
      BY <1>2, <2>1, <2>2, <2>3
  <2>5. x = y
    <3>1. ~InOrder(x, y) /\ ~InOrder(y, x)
      <4> HIDE DEF Below, S
      <4> QED
        BY <1>2, <1>5, <2>4
    <3> QED
      BY <1>3, <3>1
  <2> QED
    BY <2>3, <2>5
<1>11. ASSUME NEW n \in 1 .. C, NEW k \in 1 .. C, n < k
       PROVE  InOrder(NthOn(a, n), NthOn(a, k))
  <2>1. PICK x \in S, y \in S : x = NthOn(a, n) /\ y = NthOn(a, k)
    BY <1>9
  <2>2. Cardinality(Below(x)) = n - 1 /\ Cardinality(Below(y)) = k - 1
    BY <1>9, <2>1
  <2>3. Cardinality(Below(x)) < Cardinality(Below(y))
    <3> HIDE DEF Below, S, C
    <3> QED
      BY <1>1, <1>11, <2>2
  <2>4. x # y /\ ~InOrder(y, x)
    <3> HIDE DEF Below, S
    <3> QED
      BY <1>2, <1>5, <2>3
  <2> QED
    BY <1>3, <2>1, <2>4
<1> QED
  BY <1>1, <1>9, <1>10, <1>11


-----------------------------------------------------------------------------
(* The queues.                                                              *)

Sorted(s) == \A n, k \in 1 .. Len(s) : n < k => InOrder(s[n], s[k])
QueueOK(a, s) == s \in Seq(StuckOn(a)) /\ Sorted(s)
QueuesOK(qs) == \A a \in DOMAIN qs : QueueOK(a, qs[a])
PendingIn(qs) == UNION {ToSet(qs[a]) : a \in DOMAIN qs}
Heads(qs, held) == {Entry(Head(qs[a]), held) : a \in {b \in DOMAIN qs : qs[b] # <<>>}}

\* An OSD's queue is its stuck shards in order, none twice.
LEMMA QueueIs ==
  ASSUME cluster \in Clusters, NEW a
  PROVE  QueueOK(a, Queue(a)) /\ ToSet(Queue(a)) = StuckOn(a)
<1> DEFINE C == Cardinality(StuckOn(a))
           s == Queue(a)
<1>1. /\ C \in Nat
      /\ \A n \in 1 .. C : NthOn(a, n) \in StuckOn(a)
      /\ \A x \in StuckOn(a) : \E n \in 1 .. C : NthOn(a, n) = x
      /\ \A n, k \in 1 .. C : n < k => InOrder(NthOn(a, n), NthOn(a, k))
  BY NthOnIs
<1>2. s = [n \in 1 .. C |-> NthOn(a, n)]
  BY DEF Queue
<1> HIDE DEF s, C
<1>3. s \in Seq(StuckOn(a)) /\ Len(s) = C
  BY <1>1, <1>2
<1>4. Sorted(s)
  BY <1>1, <1>2, <1>3 DEF Sorted
<1>5. ToSet(s) = StuckOn(a)
  <2>1. ToSet(s) = {s[n] : n \in 1 .. C}
    BY <1>2 DEF ToSet
  <2>2. \A n \in 1 .. C : s[n] = NthOn(a, n)
    BY <1>2
  <2>3. ASSUME NEW x PROVE x \in ToSet(s) <=> x \in StuckOn(a)
    <3>1. x \in ToSet(s) <=> \E n \in 1 .. C : x = NthOn(a, n)
      BY <2>1, <2>2
    <3> QED
      BY <1>1, <3>1
  <2> QED
    BY <2>3
<1> QED
  BY <1>3, <1>4, <1>5 DEF QueueOK, s

\* What is left when the first of a queue is taken.
LEMMA TailIs ==
  ASSUME cluster \in Clusters, NEW a, NEW s, QueueOK(a, s), s # <<>>
  PROVE  /\ QueueOK(a, Tail(s))
         /\ Head(s) \in StuckOn(a) /\ Head(s) \in ToSet(s)
         /\ ToSet(s) \subseteq StuckOn(a)
         /\ ToSet(Tail(s)) = ToSet(s) \ {Head(s)}
         /\ \A x \in ToSet(Tail(s)) : InOrder(Head(s), x)
<1>1. s \in Seq(StuckOn(a)) /\ Sorted(s)
  BY DEF QueueOK
<1>2. PICK n \in Nat : n = Len(s) /\ n > 0
  BY <1>1
<1>3. DOMAIN s = 1 .. n /\ \A k \in 1 .. n : s[k] \in StuckOn(a)
  BY <1>1, <1>2
<1>4. PICK r : r = Tail(s)
  OBVIOUS
<1>5. r \in Seq(StuckOn(a)) /\ Len(r) = n - 1 /\ \A k \in 1 .. (n - 1) : r[k] = s[k + 1]
  BY <1>1, <1>2, <1>4
<1>6. Head(s) = s[1] /\ 1 \in 1 .. n
  BY <1>1, <1>2
<1>7. Sorted(r)
  <2> SUFFICES ASSUME NEW j \in 1 .. (n - 1), NEW k \in 1 .. (n - 1), j < k
               PROVE  InOrder(r[j], r[k])
    BY <1>5 DEF Sorted
  <2>1. j + 1 \in 1 .. n /\ k + 1 \in 1 .. n /\ j + 1 < k + 1
    BY <1>2
  <2>2. InOrder(s[j + 1], s[k + 1])
    BY <1>1, <1>2, <2>1 DEF Sorted
  <2> QED
    BY <1>5, <2>2
<1>8. ASSUME NEW k \in 1 .. n, k # 1 PROVE InOrder(s[1], s[k]) /\ s[k] # s[1]
  <2>1. InOrder(s[1], s[k])
    BY <1>1, <1>2, <1>6, <1>8 DEF Sorted
  <2>2. s[1] \in Stuck /\ s[k] \in Stuck
    BY <1>3, <1>6 DEF StuckOn
  <2>3. ~(InOrder(s[1], s[k]) /\ InOrder(s[k], s[1]))
    BY <2>2, InOrderIsOrder
  <2> QED
    BY <2>1, <2>3
<1>9. ToSet(s) = {s[k] : k \in 1 .. n} /\ ToSet(r) = {r[k] : k \in 1 .. (n - 1)}
  <2>1. DOMAIN r = 1 .. (n - 1)
    BY <1>5
  <2> QED
    BY <1>3, <2>1 DEF ToSet
<1>10. ASSUME NEW x \in ToSet(r) PROVE x \in ToSet(s) /\ x # Head(s) /\ InOrder(Head(s), x)
  <2>1. PICK k \in 1 .. (n - 1) : x = r[k]
    BY <1>9
  <2>2. k + 1 \in 1 .. n /\ k + 1 # 1 /\ x = s[k + 1]
    BY <1>2, <1>5, <2>1
  <2> QED
    BY <1>6, <1>8, <1>9, <2>2
<1>11. ASSUME NEW x \in ToSet(s), x # Head(s) PROVE x \in ToSet(r)
  <2>1. PICK k \in 1 .. n : x = s[k]
    BY <1>9
  <2>2. k # 1
    BY <1>6, <1>11, <2>1
  <2>3. k - 1 \in 1 .. (n - 1) /\ (k - 1) + 1 = k
    BY <1>2, <2>2
  <2>4. r[k - 1] = s[k]
    BY <1>5, <2>3
  <2> QED
    BY <1>9, <2>1, <2>3, <2>4
<1>12. ToSet(s) \subseteq StuckOn(a) /\ Head(s) \in ToSet(s)
  BY <1>3, <1>6, <1>9
<1>13. QueueOK(a, r)
  BY <1>5, <1>7 DEF QueueOK
<1> QED
  BY <1>4, <1>10, <1>11, <1>12, <1>13

-----------------------------------------------------------------------------
(* The heap.                                                                *)

\* An entry is its shard's, ranked by what the OSD with the data holds.
LEMMA EntryIs ==
  ASSUME NEW x \in Stuck, NEW held \in [Osd -> Int]
  PROVE  /\ Entry(x, held).shard = x
         /\ Entry(x, held).known \in BOOLEAN
         /\ Entry(x, held).util \in Int
<1>1. DataOn(x) \in Sized => Util(DataOn(x), held[DataOn(x)]) \in Int
  <2>1. ASSUME NEW o \in Osd PROVE held[o] * Weight[o] \in Int
    BY StaticsTyped
  <2> QED
    BY <2>1, StaticsTyped DEF Util
<1> QED
  BY <1>1 DEF Entry

\* What other OSDs hold has no part in it.
LEMMA EntrySame ==
  ASSUME NEW x, NEW held, NEW h, DataOn(x) \in Sized => h[DataOn(x)] = held[DataOn(x)]
  PROVE  Entry(x, h) = Entry(x, held)
BY DEF Entry

LEMMA BeforeIsOrder ==
  ASSUME cluster \in Clusters, NEW held \in [Osd -> Int],
         NEW x \in Stuck, NEW y \in Stuck, NEW z \in Stuck
  PROVE  /\ Before(Entry(x, held), Entry(y, held)) /\ Before(Entry(y, held), Entry(z, held))
              => Before(Entry(x, held), Entry(z, held))
         /\ DataOn(x) = DataOn(y) /\ InOrder(x, y) => Before(Entry(x, held), Entry(y, held))
<1>1. PICK e, f, g : e = Entry(x, held) /\ f = Entry(y, held) /\ g = Entry(z, held)
  OBVIOUS
<1>2. /\ e.shard = x /\ e.known \in BOOLEAN /\ e.util \in Int
      /\ f.shard = y /\ f.known \in BOOLEAN /\ f.util \in Int
      /\ g.shard = z /\ g.known \in BOOLEAN /\ g.util \in Int
  BY <1>1, EntryIs
<1>3. InOrder(x, y) /\ InOrder(y, z) => InOrder(x, z)
  BY InOrderIsOrder
<1>4. Before(e, f) /\ Before(f, g) => Before(e, g)
  <2>1. PICK a \in Int, b \in Int, c \in Int : a = e.util /\ b = f.util /\ c = g.util
    BY <1>2
  <2>2. PICK k \in BOOLEAN, l \in BOOLEAN, m \in BOOLEAN : k = e.known /\ l = f.known /\ m = g.known
    BY <1>2
  <2>3. /\ Before(e, f) <=> (k /\ ~l) \/ (k = l /\ a > b) \/ (k = l /\ a = b /\ InOrder(x, y))
        /\ Before(f, g) <=> (l /\ ~m) \/ (l = m /\ b > c) \/ (l = m /\ b = c /\ InOrder(y, z))
        /\ Before(e, g) <=> (k /\ ~m) \/ (k = m /\ a > c) \/ (k = m /\ a = c /\ InOrder(x, z))
    BY <1>2, <2>1, <2>2 DEF Before
  <2> QED
    BY <1>3, <2>3
<1>5. DataOn(x) = DataOn(y) /\ InOrder(x, y) => Before(e, f)
  <2>1. DataOn(x) = DataOn(y) => e.known = f.known /\ e.util = f.util
    BY <1>1 DEF Entry
  <2> QED
    BY <1>2, <2>1 DEF Before
<1> QED
  BY <1>1, <1>4, <1>5

\* The OSDs other than a hold the same.
SameBut(h, held, a) == \A o \in Sized \ {a} : h[o] = held[o]

RestOf(qs, e) == Tail(qs[DataOn(e.shard)])

\* The queues and the heap once e is popped and its queue pushed back.
Pushed(qs, held, e, h, rs) ==
  /\ QueuesOK(rs)
  /\ PendingIn(rs) = PendingIn(qs) \ {e.shard}
  /\ Heads(rs, h) = IF RestOf(qs, e) = <<>> THEN Heads(qs, held) \ {e}
                    ELSE (Heads(qs, held) \ {e}) \union {Entry(Head(RestOf(qs, e)), h)}

\* A popped entry is the head of the queue of the OSD with its data; the heap is again the
\* heads of the queues once the queue is pushed back, if only that OSD holds less.
LEMMA PoppedIs ==
  ASSUME cluster \in Clusters, NEW qs, QueuesOK(qs), NEW held, NEW e \in Heads(qs, held)
  PROVE  LET x == e.shard
             a == DataOn(x)
         IN  /\ a \in DOMAIN qs /\ qs[a] # <<>> /\ x = Head(qs[a])
             /\ x \in Stuck /\ x \in PendingIn(qs) /\ e = Entry(x, held)
<1>1. PICK a \in DOMAIN qs : qs[a] # <<>> /\ e = Entry(Head(qs[a]), held)
  BY DEF Heads
<1>2. PICK x : x = Head(qs[a])
  OBVIOUS
<1>3. e.shard = x
  BY <1>1, <1>2 DEF Entry
<1>4. QueueOK(a, qs[a])
  BY DEF QueuesOK
<1>5. x \in StuckOn(a) /\ x \in ToSet(qs[a])
  BY <1>1, <1>2, <1>4, TailIs
<1>6. x \in Stuck /\ DataOn(x) = a
  BY <1>5 DEF StuckOn
<1>7. x \in PendingIn(qs)
  BY <1>5 DEF PendingIn
<1> QED
  BY <1>1, <1>2, <1>3, <1>6, <1>7

LEMMA PushedBackIs ==
  ASSUME cluster \in Clusters, NEW qs, QueuesOK(qs), NEW held, NEW e \in Heads(qs, held),
         NEW h, SameBut(h, held, DataOn(e.shard)),
         NEW rs, rs = [qs EXCEPT ![DataOn(e.shard)] = RestOf(qs, e)]
  PROVE  Pushed(qs, held, e, h, rs)
<1>0. PICK x, a, rest : x = e.shard /\ a = DataOn(x) /\ rest = Tail(qs[a])
  OBVIOUS
<1>1. a \in DOMAIN qs /\ qs[a] # <<>> /\ x = Head(qs[a]) /\ x \in Stuck /\ e = Entry(x, held)
  BY <1>0, PoppedIs
<1>2. DOMAIN rs = DOMAIN qs /\ rs[a] = rest /\ \A b \in DOMAIN qs : b # a => rs[b] = qs[b]
  BY <1>0, <1>1 DEF RestOf
<1>3. QueueOK(a, qs[a]) /\ \A b \in DOMAIN qs : QueueOK(b, qs[b])
  BY <1>1 DEF QueuesOK
<1>4. QueueOK(a, rest) /\ ToSet(rest) = ToSet(qs[a]) \ {x}
  BY <1>0, <1>1, <1>3, TailIs
<1>5. QueuesOK(rs)
  BY <1>2, <1>3, <1>4 DEF QueuesOK
<1>6. ASSUME NEW b \in DOMAIN qs, b # a PROVE x \notin ToSet(qs[b])
  <2>1. QueueOK(b, qs[b])
    BY <1>3
  <2>2. ToSet(qs[b]) \subseteq StuckOn(b)
    <3>1. CASE qs[b] = <<>>
      BY <3>1 DEF ToSet
    <3>2. CASE qs[b] # <<>>
      BY <2>1, <3>2, TailIs
    <3> QED
      BY <3>1, <3>2
  <2> QED
    BY <1>0, <1>6, <2>2 DEF StuckOn
<1>7. PendingIn(rs) = PendingIn(qs) \ {x}
  <2>1. ASSUME NEW b \in DOMAIN qs PROVE ToSet(rs[b]) = ToSet(qs[b]) \ {x}
    BY <1>2, <1>4, <1>6
  <2>2. ASSUME NEW y PROVE y \in PendingIn(rs) <=> y \in PendingIn(qs) /\ y # x
    <3>1. y \in PendingIn(rs) <=> \E b \in DOMAIN rs : y \in ToSet(rs[b])
      BY DEF PendingIn
    <3>2. y \in PendingIn(qs) <=> \E b \in DOMAIN qs : y \in ToSet(qs[b])
      BY DEF PendingIn
    <3>3. \A b \in DOMAIN qs : y \in ToSet(rs[b]) <=> y \in ToSet(qs[b]) /\ y # x
      BY <2>1
    <3>4. DOMAIN rs = DOMAIN qs
      BY <1>2
    <3> QED
      BY <3>1, <3>2, <3>3, <3>4, Zenon
  <2> QED
    BY <2>2
<1>8. ASSUME NEW b \in DOMAIN qs, b # a, qs[b] # <<>>
      PROVE  Entry(Head(rs[b]), h) = Entry(Head(qs[b]), held) /\ Entry(Head(qs[b]), held) # e
  <2>1. PICK y : y = Head(qs[b])
    OBVIOUS
  <2>2. QueueOK(b, qs[b])
    BY <1>3
  <2>3. y \in StuckOn(b)
    BY <1>8, <2>1, <2>2, TailIs
  <2>4. DataOn(y) = b
    BY <2>3 DEF StuckOn
  <2>5. Entry(y, h) = Entry(y, held)
    BY <1>0, <1>8, <2>4, EntrySame DEF SameBut
  <2>6. Entry(y, held).shard = y /\ y # x
    BY <1>0, <1>8, <2>4 DEF Entry
  <2>7. Entry(y, held) # e
    BY <1>0, <2>6
  <2> QED
    BY <1>2, <1>8, <2>1, <2>5, <2>7
<1>9. ASSUME NEW f PROVE f \in Heads(qs, held) \ {e} <=>
                           \E b \in DOMAIN qs : b # a /\ qs[b] # <<>> /\ f = Entry(Head(qs[b]), held)
  <2>1. f \in Heads(qs, held) <=> \E b \in DOMAIN qs : qs[b] # <<>> /\ f = Entry(Head(qs[b]), held)
    BY DEF Heads
  <2> QED
    BY <1>1, <1>8, <2>1
<1>10. ASSUME NEW f
       PROVE  f \in Heads(rs, h) <=>
                \/ rest # <<>> /\ f = Entry(Head(rest), h)
                \/ \E b \in DOMAIN qs : b # a /\ qs[b] # <<>> /\ f = Entry(Head(qs[b]), held)
  <2>1. f \in Heads(rs, h) <=> \E b \in DOMAIN rs : rs[b] # <<>> /\ f = Entry(Head(rs[b]), h)
    BY DEF Heads
  <2> QED
    BY <1>1, <1>2, <1>8, <2>1
<1>11. Heads(rs, h) = IF rest = <<>> THEN Heads(qs, held) \ {e}
                      ELSE (Heads(qs, held) \ {e}) \union {Entry(Head(rest), h)}
  BY <1>9, <1>10
<1> QED
  BY <1>0, <1>5, <1>7, <1>11 DEF Pushed, RestOf


-----------------------------------------------------------------------------
(* The invariant.                                                           *)

NoPins(p) == \A pg \in Pg : \A m \in p.moves[pg] : ~m.pin

\* A stuck shard is queued, reported or placed, and only one of these.
Partition(p, qs, un) ==
  /\ PendingIn(qs) \union un \union {x \in Stuck : x[2] \in Changed(p, x[1])} = Stuck
  /\ PendingIn(qs) \intersect un = {}
  /\ \A x \in PendingIn(qs) \union un : x[2] \notin Changed(p, x[1])

\* SourcePressure takes the shards placed off the OSDs with their data.
GoneFrom(p, o) == {m \in AllMoves(p) : DataOn(<<m[1], m[2].slot>>) = o}

Pressed(p, held) ==
  /\ held \in [Osd -> Int]
  /\ \A o \in Sized : held[o] = cluster.used[o] - SumFunctionOnSet(Sizes, GoneFrom(p, o))

\* The reservations kept of those fetched are those of the backfills not redirected.
StillComing(p, o) ==
  {y \in Shards : /\ Arriving(cluster, y[1], y[2]) /\ UpOf(y[1], y[2]) = o
                  /\ y[2] \notin Changed(p, y[1])}

Come == [y \in Pg \X Nat |-> ToCome(cluster, y[1], y[2])]

Coming(p) ==
  \A o \in Sized :
    cluster.res[o] - SumFunctionOnSet(Left, CancelledAt(p, o))
      = cluster.used[o] + SumFunctionOnSet(Come, StillComing(p, o))

DivertOK(p, qs, h, held, un) ==
  /\ PlanOK(p) /\ BooksOK(p) /\ NoPins(p) /\ Coming(p)
  /\ QueuesOK(qs) /\ Pressed(p, held) /\ h = Heads(qs, held)
  /\ Partition(p, qs, un)

DivertInv == cluster \in Clusters /\ DivertOK(plan, queues, heap, pressure, unplaceable)

-----------------------------------------------------------------------------
(* What placing a shard does to it.                                         *)

LEMMA CommitChanged ==
  ASSUME NEW p, PlanTyped(p), NEW pg \in Pg, NEW i, NEW t, NEW role, NEW g \in Pg
  PROVE  Changed(Commit(p, pg, i, t, role), g) =
           IF g = pg THEN Changed(p, pg) \union {i} ELSE Changed(p, g)
<1>1. Commit(p, pg, i, t, role).moves[g] =
        IF g = pg THEN p.moves[pg] \union {CommittedMove(i, t, role)} ELSE p.moves[g]
  BY DEF Commit, PlanTyped
<1>2. CommittedMove(i, t, role).slot = i
  BY DEF CommittedMove
<1> QED
  BY <1>1, <1>2 DEF Changed

LEMMA CommitNoPins ==
  ASSUME NEW p, PlanTyped(p), NoPins(p), NEW pg \in Pg, NEW i, NEW t, NEW role
  PROVE  NoPins(Commit(p, pg, i, t, role))
<1>1. \A g \in Pg : Commit(p, pg, i, t, role).moves[g] =
        IF g = pg THEN p.moves[pg] \union {CommittedMove(i, t, role)} ELSE p.moves[g]
  BY DEF Commit, PlanTyped
<1> QED
  BY <1>1 DEF NoPins, CommittedMove

LEMMA CommitPartition ==
  ASSUME NEW p, PlanTyped(p), NEW qs, NEW un, Partition(p, qs, un),
         NEW x \in Stuck, x \in PendingIn(qs), NEW rs, PendingIn(rs) = PendingIn(qs) \ {x},
         NEW t, NEW role
  PROVE  Partition(Commit(p, x[1], x[2], t, role), rs, un)
<1>1. PICK q : q = Commit(p, x[1], x[2], t, role)
  OBVIOUS
<1>2. ASSUME NEW y \in Stuck
      PROVE  y[2] \in Changed(q, y[1]) <=> y[2] \in Changed(p, y[1]) \/ y = x
  <2>1. x[1] \in Pg /\ y[1] \in Pg /\ x = <<x[1], x[2]>> /\ y = <<y[1], y[2]>>
    BY StuckIs
  <2>2. Changed(q, y[1]) = IF y[1] = x[1] THEN Changed(p, x[1]) \union {x[2]} ELSE Changed(p, y[1])
    BY <1>1, <2>1, CommitChanged
  <2>3. y = x <=> y[1] = x[1] /\ y[2] = x[2]
    BY <2>1
  <2> QED
    BY <2>2, <2>3
<1>3. PendingIn(qs) \union un \subseteq Stuck
  BY DEF Partition
<1>4. /\ PendingIn(qs) \union un \union {y \in Stuck : y[2] \in Changed(p, y[1])} = Stuck
      /\ PendingIn(qs) \intersect un = {}
      /\ \A y \in PendingIn(qs) \union un : y[2] \notin Changed(p, y[1])
  BY DEF Partition
<1>5. PendingIn(rs) \union un \union {y \in Stuck : y[2] \in Changed(q, y[1])} = Stuck
  BY <1>2, <1>4
<1>6. \A y \in PendingIn(rs) \union un : y[2] \notin Changed(q, y[1])
  BY <1>2, <1>3, <1>4
<1> QED
  BY <1>1, <1>4, <1>5, <1>6 DEF Partition

\* ... and reporting one.
LEMMA PassPartition ==
  ASSUME NEW p, NEW qs, NEW un, Partition(p, qs, un),
         NEW x \in Stuck, x \in PendingIn(qs), NEW rs, PendingIn(rs) = PendingIn(qs) \ {x}
  PROVE  Partition(p, rs, un \union {x})
BY DEF Partition

LEMMA CommitPressed ==
  ASSUME ClusterTyped(cluster), NEW p, PlanTyped(p), PlanShape(p), NEW held, Pressed(p, held),
         NEW x \in Stuck, x[2] \notin Changed(p, x[1]), NEW t, NEW role,
         PlanTyped(Commit(p, x[1], x[2], t, role)), PlanShape(Commit(p, x[1], x[2], t, role))
  PROVE  /\ Pressed(Commit(p, x[1], x[2], t, role), RelieveSource(held, x))
         /\ SameBut(RelieveSource(held, x), held, DataOn(x))
<1>1. PICK q, y, h, a : /\ q = Commit(p, x[1], x[2], t, role)
                        /\ y = <<x[1], CommittedMove(x[2], t, role)>>
                        /\ h = RelieveSource(held, x) /\ a = DataOn(x)
  OBVIOUS
<1>2. x[1] \in Pg /\ x = <<x[1], x[2]>>
  BY StuckIs
<1>3. y \notin AllMoves(p) /\ AllMoves(q) = AllMoves(p) \union {y}
  BY <1>1, <1>2, CommitMoves
<1>4. y[1] = x[1] /\ <<y[1], y[2].slot>> = x
  BY <1>1, <1>2 DEF CommittedMove
<1>5. Size(x[1]) \in Int /\ held \in [Osd -> Int]
  BY <1>2, SizeIsNat DEF Pressed
<1>6. h = IF a \in Sized THEN [held EXCEPT ![a] = @ - Size(x[1])] ELSE held
  BY <1>1 DEF RelieveSource
<1>7. h \in [Osd -> Int] /\ \A o \in Sized : h[o] = IF o = a THEN held[o] - Size(x[1]) ELSE held[o]
  <2>1. PICK k \in Int : k = Size(x[1])
    BY <1>5
  <2>2. \A o \in Osd : held[o] - k \in Int
    BY <1>5, <2>1
  <2>3. \A o \in Sized : o \in Osd
    BY StaticsTyped
  <2>4. CASE a \in Sized
    <3>1. h = [o \in Osd |-> IF o = a THEN held[o] - k ELSE held[o]]
      BY <1>5, <1>6, <2>1, <2>4
    <3> QED
      BY <1>5, <2>1, <2>2, <2>3, <3>1
  <2>5. CASE a \notin Sized
    BY <1>5, <1>6, <2>5
  <2> QED
    BY <2>4, <2>5
<1>8. ASSUME NEW o \in Sized
      PROVE  h[o] = cluster.used[o] - SumFunctionOnSet(Sizes, GoneFrom(q, o))
  <2>1. held[o] = cluster.used[o] - SumFunctionOnSet(Sizes, GoneFrom(p, o))
    BY DEF Pressed
  <2>2. CASE o = a
    <3>1. PICK S : S = GoneFrom(p, o)
      OBVIOUS
    <3>2. GoneFrom(q, o) = S \union {y} /\ y \notin S
      BY <1>1, <1>3, <1>4, <2>2, <3>1 DEF GoneFrom
    <3>3. S \union {y} \subseteq AllMoves(q)
      BY <1>3, <3>1 DEF GoneFrom
    <3>4. /\ SumFunctionOnSet(Sizes, S \union {y}) = SumFunctionOnSet(Sizes, S) + Size(y[1])
          /\ SumFunctionOnSet(Sizes, S) \in Int
      <4>1. PlanTyped(q) /\ PlanShape(q)
        BY <1>1
      <4> QED
        BY <3>2, <3>3, <4>1, MoreMoves
    <3>5. PICK n \in Int, k \in Int, u \in Int :
            n = SumFunctionOnSet(Sizes, S) /\ k = Size(x[1]) /\ u = cluster.used[o]
      <4>1. cluster.used[o] \in Int
        BY DEF ClusterTyped
      <4> QED
        BY <1>5, <3>4, <4>1
    <3>6. h[o] = held[o] - k
      BY <1>7, <2>2, <3>5
    <3>7. SumFunctionOnSet(Sizes, GoneFrom(q, o)) = n + k /\ held[o] = u - n
      BY <1>4, <2>1, <3>1, <3>2, <3>4, <3>5
    <3> QED
      BY <3>5, <3>6, <3>7
  <2>3. CASE o # a
    <3>1. GoneFrom(q, o) = GoneFrom(p, o)
      BY <1>1, <1>3, <1>4, <2>3 DEF GoneFrom
    <3> QED
      BY <1>7, <2>1, <2>3, <3>1
  <2> QED
    BY <2>2, <2>3
<1> QED
  BY <1>1, <1>7, <1>8 DEF Pressed, SameBut

LEMMA ComingIs ==
  ASSUME ClusterTyped(cluster), NEW p, NEW o
  PROVE  /\ IsFiniteSet(StillComing(p, o))
         /\ \A y \in StillComing(p, o) : /\ y \in Pg \X Nat
                                         /\ Come[y] = ToCome(cluster, y[1], y[2]) /\ Come[y] \in Int
         /\ SumFunctionOnSet(Come, StillComing(p, o)) \in Int
<1>1. IsFiniteSet(StillComing(p, o))
  BY ShardsAreFinite, FS_Subset DEF StillComing
<1>2. ASSUME NEW y \in StillComing(p, o)
      PROVE  y \in Pg \X Nat /\ Come[y] = ToCome(cluster, y[1], y[2]) /\ Come[y] \in Int
  <2>1. y \in Shards
    BY DEF StillComing
  <2>2. y[1] \in Pg /\ y[2] \in Slots(cluster, y[1]) /\ y = <<y[1], y[2]>>
    BY <2>1, ShardIs
  <2>3. y[2] \in Nat /\ ToCome(cluster, y[1], y[2]) \in 0 .. Size(y[1]) /\ Size(y[1]) \in Nat
    BY <2>2, ClusterFacts
  <2>4. y \in Pg \X Nat
    BY <2>2, <2>3
  <2>5. Come[y] = ToCome(cluster, y[1], y[2])
    BY <2>4 DEF Come
  <2>6. ToCome(cluster, y[1], y[2]) \in Int
    BY <2>3
  <2> QED
    BY <2>4, <2>5, <2>6
<1>3. PICK S, f : S = StillComing(p, o) /\ f = Come
  OBVIOUS
<1>4. SumFunctionOnSet(f, S) \in Int
  BY <1>1, <1>2, <1>3, SumInt
<1> QED
  BY <1>1, <1>2, <1>3, <1>4

LEMMA CommitComing ==
  ASSUME ClusterTyped(cluster), NEW p, PlanTyped(p), PlanShape(p), Coming(p),
         NEW x \in Stuck, x[2] \notin Changed(p, x[1]), NEW t, NEW role,
         PlanTyped(Commit(p, x[1], x[2], t, role)), PlanShape(Commit(p, x[1], x[2], t, role))
  PROVE  Coming(Commit(p, x[1], x[2], t, role))
<1>1. PICK q, y, u : /\ q = Commit(p, x[1], x[2], t, role)
                     /\ y = <<x[1], CommittedMove(x[2], t, role)>>
                     /\ u = UpOf(x[1], x[2])
  OBVIOUS
<1>2. x[1] \in Pg /\ x[2] \in Slots(cluster, x[1]) /\ x = <<x[1], x[2]>> /\ Arriving(cluster, x[1], x[2])
  BY StuckIs
<1>3. y \notin AllMoves(p) /\ AllMoves(q) = AllMoves(p) \union {y}
  BY <1>1, <1>2, CommitMoves
<1>4. y[1] = x[1] /\ y[2].slot = x[2]
  BY <1>1 DEF CommittedMove
<1>5. ASSUME NEW o \in Sized
      PROVE  cluster.res[o] - SumFunctionOnSet(Left, CancelledAt(q, o))
               = cluster.used[o] + SumFunctionOnSet(Come, StillComing(q, o))
  <2>1. PICK a \in Int, b \in Int, c \in Int, d \in Int :
          /\ a = cluster.res[o] /\ b = SumFunctionOnSet(Left, CancelledAt(p, o))
          /\ c = cluster.used[o] /\ d = SumFunctionOnSet(Come, StillComing(p, o))
    <3>1. cluster.used[o] \in Int
      BY DEF ClusterTyped
    <3> QED
      BY <3>1, LedgerType, ComingIs
  <2>2. a - b = c + d
    BY <2>1 DEF Coming
  <2>3. SumFunctionOnSet(Left, CancelledAt(q, o)) = b + Cancelled(x[1], x[2], u, o)
    <3>1. SumFunctionOnSet(Left, CancelledAt(q, o)) =
            SumFunctionOnSet(Left, CancelledAt(p, o))
            + Cancelled(y[1], y[2].slot, UpOf(y[1], y[2].slot), o)
      BY <1>1, <1>3, OneMoreMove
    <3> QED
      BY <1>1, <1>4, <2>1, <3>1
  <2>4. ASSUME NEW z \in Shards
        PROVE  z[2] \in Changed(q, z[1]) <=> z[2] \in Changed(p, z[1]) \/ z = x
    <3>1. z[1] \in Pg /\ z = <<z[1], z[2]>>
      BY ShardIs
    <3>2. Changed(q, z[1]) = IF z[1] = x[1] THEN Changed(p, x[1]) \union {x[2]} ELSE Changed(p, z[1])
      BY <1>1, <1>2, <3>1, CommitChanged
    <3>3. z = x <=> z[1] = x[1] /\ z[2] = x[2]
      BY <1>2, <3>1
    <3> QED
      BY <3>2, <3>3
  <2>5. StillComing(q, o) = StillComing(p, o) \ {x}
    BY <2>4 DEF StillComing
  <2>6. x \in StillComing(p, o) <=> o = u
    <3>1. x \in Shards
      BY DEF Stuck
    <3> QED
      BY <1>1, <1>2, <3>1 DEF StillComing
  <2>7. PICK k \in Int : k = ToCome(cluster, x[1], x[2])
    BY <1>2, ClusterFacts
  <2>8. CASE o = u
    <3>1. Cancelled(x[1], x[2], u, o) = k
      BY <1>2, <2>7, <2>8 DEF Cancelled
    <3>2. SumFunctionOnSet(Come, StillComing(p, o)) = Come[x] + SumFunctionOnSet(Come, StillComing(q, o))
      <4>1. PICK S, f : S = StillComing(p, o) /\ f = Come
        OBVIOUS
      <4>2. IsFiniteSet(S) /\ \A z \in S : f[z] \in Int
        BY <4>1, ComingIs
      <4>3. x \in S
        BY <2>6, <2>8, <4>1
      <4>4. SumFunctionOnSet(f, S) = f[x] + SumFunctionOnSet(f, S \ {x})
        BY <4>2, <4>3, SumTakesOut
      <4> QED
        BY <2>5, <4>1, <4>4
    <3>3. Come[x] = k
      BY <2>6, <2>7, <2>8, ComingIs
    <3>4. PICK e \in Int : e = SumFunctionOnSet(Come, StillComing(q, o))
      BY ComingIs
    <3>5. SumFunctionOnSet(Left, CancelledAt(q, o)) = b + k /\ d = k + e
      BY <2>1, <2>3, <3>1, <3>2, <3>3, <3>4
    <3>6. a - (b + k) = c + e
      BY <2>2, <3>5
    <3> QED
      BY <2>1, <3>4, <3>5, <3>6
  <2>9. CASE o # u
    <3>1. Cancelled(x[1], x[2], u, o) = 0
      BY <2>9 DEF Cancelled
    <3>2. StillComing(q, o) = StillComing(p, o)
      BY <2>5, <2>6, <2>9
    <3>3. SumFunctionOnSet(Left, CancelledAt(q, o)) = b
      BY <2>3, <3>1
    <3> QED
      BY <2>1, <2>2, <3>2, <3>3
  <2> QED
    BY <2>8, <2>9
<1> QED
  BY <1>1, <1>5 DEF Coming


-----------------------------------------------------------------------------
(* The invariant holds throughout a run.                                    *)

LEMMA QueuedInit ==
  ASSUME cluster \in Clusters,
         NEW qs, qs = [a \in {DataOn(x) : x \in Stuck} |-> Queue(a)], NEW held
  PROVE  /\ QueuesOK(qs)
         /\ PendingIn(qs) = Stuck
         /\ Heads(qs, held) = {Entry(Head(qs[a]), held) : a \in DOMAIN qs}
<1>1. DOMAIN qs = {DataOn(x) : x \in Stuck} /\ \A a \in DOMAIN qs : qs[a] = Queue(a)
  OBVIOUS
<1>2. \A a \in DOMAIN qs : QueueOK(a, qs[a]) /\ ToSet(qs[a]) = StuckOn(a)
  BY <1>1, QueueIs
<1>3. ASSUME NEW x PROVE x \in PendingIn(qs) <=> x \in Stuck
  <2>1. x \in PendingIn(qs) <=> \E a \in DOMAIN qs : x \in ToSet(qs[a])
    BY DEF PendingIn
  <2>2. x \in PendingIn(qs) <=> \E a \in DOMAIN qs : x \in StuckOn(a)
    BY <1>2, <2>1
  <2> QED
    BY <1>1, <2>2 DEF StuckOn
<1>4. ASSUME NEW a \in DOMAIN qs PROVE qs[a] # <<>>
  <2>1. PICK x \in Stuck : a = DataOn(x)
    BY <1>1
  <2>2. x \in ToSet(qs[a])
    BY <1>2, <2>1 DEF StuckOn
  <2> QED
    BY <2>2 DEF ToSet
<1> QED
  BY <1>2, <1>3, <1>4 DEF QueuesOK, Heads

LEMMA DivertInitOK ==
  ASSUME DivertInit
  PROVE  DivertInv
<1>1. /\ PlanInit /\ queues = [a \in {DataOn(x) : x \in Stuck} |-> Queue(a)]
      /\ pressure = cluster.used /\ unplaceable = {}
      /\ heap = {Entry(Head(queues[a]), cluster.used) : a \in DOMAIN queues}
  BY DEF DivertInit
<1>2. cluster \in Clusters /\ PlanOK(plan) /\ BooksOK(plan)
  BY <1>1, InitBooks DEF BooksInv, PlanInv
<1>3. ClusterTyped(cluster) /\ cluster.res = Reservation(cluster)
  BY <1>2, ClustersTyped
<1>4. \A pg \in Pg : plan.moves[pg] = {}
  BY <1>1 DEF PlanInit
<1>5. AllMoves(plan) = {} /\ NoPins(plan) /\ \A pg \in Pg : Changed(plan, pg) = {}
  BY <1>4 DEF AllMoves, NoPins, Changed
<1>6. QueuesOK(queues) /\ PendingIn(queues) = Stuck /\ heap = Heads(queues, pressure)
  BY <1>1, <1>2, QueuedInit
<1>7. Partition(plan, queues, unplaceable)
  <2>1. \A x \in Stuck : x[2] \notin Changed(plan, x[1])
    BY <1>5, StuckIs
  <2> QED
    BY <1>1, <1>6, <2>1 DEF Partition
<1>8. Pressed(plan, pressure)
  <2>1. cluster.used \in [Osd -> Int]
    BY <1>3 DEF ClusterTyped
  <2>2. ASSUME NEW o \in Sized
        PROVE  pressure[o] = cluster.used[o] - SumFunctionOnSet(Sizes, GoneFrom(plan, o))
    <3>1. GoneFrom(plan, o) = {}
      BY <1>5 DEF GoneFrom
    <3>2. SumFunctionOnSet(Sizes, GoneFrom(plan, o)) = 0
      BY <3>1, SumEmpty
    <3>3. cluster.used[o] \in Int
      BY <2>1
    <3> QED
      BY <1>1, <3>2, <3>3
  <2> QED
    BY <1>1, <2>1, <2>2 DEF Pressed
<1>9. Coming(plan)
  <2> SUFFICES ASSUME NEW o \in Sized
               PROVE  cluster.res[o] - SumFunctionOnSet(Left, CancelledAt(plan, o))
                        = cluster.used[o] + SumFunctionOnSet(Come, StillComing(plan, o))
    BY DEF Coming
  <2>1. SumFunctionOnSet(Left, CancelledAt(plan, o)) = 0
    <3>1. CancelledAt(plan, o) = {}
      BY <1>5 DEF CancelledAt, MovedFrom
    <3> QED
      BY <3>1, SumEmpty
  <2>2. PICK S, f, g : /\ S = ArrivingOn(cluster, o) /\ f = Come
                       /\ g = [s \in S |-> ToCome(cluster, s[1], s[2])]
    OBVIOUS
  <2>3. S = StillComing(plan, o)
    <3>1. ASSUME NEW s PROVE s \in S <=> s \in StillComing(plan, o)
      <4>1. s \in StillComing(plan, o) <=>
              s \in Shards /\ Arriving(cluster, s[1], s[2]) /\ UpOf(s[1], s[2]) = o
        BY <1>5, ShardIs DEF StillComing
      <4>2. s \in S <=> s \in Shards /\ Arriving(cluster, s[1], s[2]) /\ UpOf(s[1], s[2]) = o
        <5>1. s \in Shards <=> \E pg \in Pg : \E i \in Slots(cluster, pg) : s = <<pg, i>>
          <6>1. ASSUME NEW pg \in Pg, NEW i \in Slots(cluster, pg), s = <<pg, i>> PROVE s \in Shards
            <7>1. s \in {pg} \X Slots(cluster, pg)
              BY <6>1
            <7> QED
              BY <7>1 DEF Shards
          <6> QED
            BY <6>1, ShardIs
        <5>2. s \in S <=> \E pg \in Pg : \E i \in UNION {Slots(cluster, g0) : g0 \in Pg} :
                            /\ s = <<pg, i>> /\ s[2] \in Slots(cluster, s[1])
                            /\ Arriving(cluster, s[1], s[2]) /\ UpOf(s[1], s[2]) = o
          BY <2>2 DEF ArrivingOn, UpOf
        <5> QED
          BY <5>1, <5>2
      <4> QED
        BY <4>1, <4>2
    <3> QED
      BY <3>1
  <2>4. SumFunctionOnSet(g, S) = SumFunctionOnSet(f, S)
    <3>1. IsFiniteSet(S) /\ \A s \in S : f[s] = ToCome(cluster, s[1], s[2]) /\ f[s] \in Int
      BY <1>3, <2>2, <2>3, ComingIs
    <3>2. \A s \in S : g[s] \in Int /\ g[s] = f[s]
      BY <2>2, <3>1
    <3> QED
      BY <3>1, <3>2, SumAgrees
  <2>5. cluster.res[o] = cluster.used[o] + SumFunctionOnSet(g, S)
    <3>1. Reservation(cluster)[o] =
            cluster.used[o] + SumFunction([s \in ArrivingOn(cluster, o) |-> ToCome(cluster, s[1], s[2])])
      BY StaticsTyped DEF Reservation
    <3>2. SumFunction(g) = SumFunctionOnSet(g, S)
      BY <2>2 DEF SumFunction
    <3> QED
      BY <1>3, <2>2, <3>1, <3>2
  <2>6. cluster.used[o] \in Int /\ SumFunctionOnSet(Come, StillComing(plan, o)) \in Int
    <3>1. cluster.used[o] \in Int
      <4>1. cluster.used \in [Osd -> Nat]
        BY <1>3 DEF ClusterTyped
      <4>2. o \in Osd
        BY StaticsTyped
      <4>3. cluster.used[o] \in Nat
        BY <4>1, <4>2, Zenon
      <4> QED
        BY <4>3
    <3>2. SumFunctionOnSet(Come, StillComing(plan, o)) \in Int
      BY <1>3, ComingIs
    <3> QED
      BY <3>1, <3>2
  <2> QED
    BY <2>1, <2>2, <2>3, <2>4, <2>5, <2>6
<1> QED
  BY <1>2, <1>5, <1>6, <1>7, <1>8, <1>9 DEF DivertInv, DivertOK

\* The plan, as an action changes it.
LEMMA PlaceStuckOK ==
  ASSUME DivertInv, NEW e \in heap, PlaceStuck(e)
  PROVE  /\ DivertOK(plan', queues', heap', pressure', unplaceable')
         /\ cluster' = cluster
         /\ e.shard \in Stuck
         /\ PendingIn(queues') = PendingIn(queues) \ {e.shard}
<1>1. /\ cluster \in Clusters /\ PlanOK(plan) /\ BooksOK(plan) /\ NoPins(plan) /\ Coming(plan)
      /\ QueuesOK(queues) /\ Pressed(plan, pressure) /\ heap = Heads(queues, pressure)
      /\ Partition(plan, queues, unplaceable)
  BY DEF DivertInv, DivertOK
<1>2. ClusterTyped(cluster) /\ PlanTyped(plan) /\ PlanShape(plan)
  BY <1>1, ClustersTyped DEF PlanOK
<1>3. PICK x, a, rest, t : /\ x = e.shard /\ a = DataOn(x) /\ rest = Tail(queues[a])
                           /\ t = Place(plan, x[1], x[2], {})
  OBVIOUS
<1>4. PICK q, h : q = Commit(plan, x[1], x[2], t, "requested") /\ h = RelieveSource(pressure, x)
  OBVIOUS
<1>5. /\ t # None /\ plan' = q /\ unplaceable' = unplaceable /\ cluster' = cluster
      /\ pressure' = h /\ queues' = [queues EXCEPT ![a] = rest] /\ heap' = Requeue(e, rest, h)
  BY <1>3, <1>4 DEF PlaceStuck, PushedBack
<1>6. a \in DOMAIN queues /\ x = Head(queues[a]) /\ x \in Stuck /\ x \in PendingIn(queues)
  BY <1>1, <1>3, PoppedIs
<1>7. /\ x[1] \in Pg /\ x[2] \in Slots(cluster, x[1]) /\ IsReal(UpOf(x[1], x[2]))
      /\ ~Chained(cluster.pairs[x[1]])
  BY <1>6, StuckIs
<1>8. x[2] \notin Changed(plan, x[1])
  BY <1>1, <1>6 DEF Partition
<1>9. Legal(plan, x[1], x[2], t, {}) /\ "requested" \in Roles
  BY <1>2, <1>3, <1>5, <1>7, PlaceIsLegal DEF Roles
<1>10. PlanOK(q)
  BY <1>1, <1>2, <1>4, <1>7, <1>8, <1>9, CommitOK
<1>11. BooksOK(q)
  <2>1. PICK avoid : avoid = {}
    OBVIOUS
  <2>2. Legal(plan, x[1], x[2], t, avoid)
    BY <1>9, <2>1
  <2>3. PlanOK(Commit(plan, x[1], x[2], t, "requested"))
    BY <1>4, <1>10
  <2>4. BooksOK(Commit(plan, x[1], x[2], t, "requested"))
    BY <1>1, <1>2, <1>7, <1>8, <1>9, <2>2, <2>3, CommitBooks
  <2> QED
    BY <1>4, <2>4
<1>12. /\ PlanTyped(Commit(plan, x[1], x[2], t, "requested"))
       /\ PlanShape(Commit(plan, x[1], x[2], t, "requested"))
  BY <1>4, <1>10 DEF PlanOK
<1>13. NoPins(q)
  BY <1>1, <1>2, <1>4, <1>7, CommitNoPins
<1>14. Coming(q)
  BY <1>1, <1>2, <1>4, <1>6, <1>8, <1>12, CommitComing
<1>15. Pressed(q, h) /\ SameBut(h, pressure, a)
  <2>1. /\ Pressed(Commit(plan, x[1], x[2], t, "requested"), RelieveSource(pressure, x))
        /\ SameBut(RelieveSource(pressure, x), pressure, DataOn(x))
    BY <1>1, <1>2, <1>6, <1>8, <1>12, CommitPressed
  <2> QED
    BY <1>3, <1>4, <2>1
<1>16. /\ QueuesOK(queues') /\ PendingIn(queues') = PendingIn(queues) \ {x}
       /\ Heads(queues', h) = IF rest = <<>> THEN heap \ {e}
                              ELSE (heap \ {e}) \union {Entry(Head(rest), h)}
  <2>1. PICK rs : rs = queues' /\ rs = [queues EXCEPT ![DataOn(e.shard)] = RestOf(queues, e)]
    BY <1>3, <1>5 DEF RestOf
  <2>2. e \in Heads(queues, pressure) /\ SameBut(h, pressure, DataOn(e.shard))
    BY <1>1, <1>3, <1>15
  <2>3. Pushed(queues, pressure, e, h, rs)
    BY <1>1, <2>1, <2>2, PushedBackIs
  <2> QED
    BY <1>1, <1>3, <2>1, <2>3 DEF Pushed, RestOf
<1>17. heap' = Heads(queues', pressure')
  BY <1>5, <1>16 DEF Requeue
<1>18. Partition(q, queues', unplaceable')
  BY <1>1, <1>2, <1>4, <1>5, <1>6, <1>16, CommitPartition
<1> QED
  BY <1>3, <1>5, <1>6, <1>10, <1>11, <1>13, <1>14, <1>15, <1>16, <1>17, <1>18 DEF DivertOK

LEMMA PassStuckOK ==
  ASSUME DivertInv, NEW e \in heap, PassStuck(e)
  PROVE  /\ DivertOK(plan', queues', heap', pressure', unplaceable')
         /\ cluster' = cluster
         /\ e.shard \in Stuck
         /\ PendingIn(queues') = PendingIn(queues) \ {e.shard}
<1>1. /\ cluster \in Clusters /\ PlanOK(plan) /\ BooksOK(plan) /\ NoPins(plan) /\ Coming(plan)
      /\ QueuesOK(queues) /\ Pressed(plan, pressure) /\ heap = Heads(queues, pressure)
      /\ Partition(plan, queues, unplaceable)
  BY DEF DivertInv, DivertOK
<1>2. PICK x, a, rest : x = e.shard /\ a = DataOn(x) /\ rest = Tail(queues[a])
  OBVIOUS
<1>3. /\ plan' = plan /\ unplaceable' = unplaceable \union {x} /\ cluster' = cluster
      /\ pressure' = pressure /\ queues' = [queues EXCEPT ![a] = rest]
      /\ heap' = Requeue(e, rest, pressure)
  BY <1>2 DEF PassStuck, PushedBack
<1>4. x \in Stuck /\ x \in PendingIn(queues)
  BY <1>1, <1>2, PoppedIs
<1>5. /\ QueuesOK(queues') /\ PendingIn(queues') = PendingIn(queues) \ {x}
      /\ Heads(queues', pressure) = IF rest = <<>> THEN heap \ {e}
                                    ELSE (heap \ {e}) \union {Entry(Head(rest), pressure)}
  <2>1. PICK rs : rs = queues' /\ rs = [queues EXCEPT ![DataOn(e.shard)] = RestOf(queues, e)]
    BY <1>2, <1>3 DEF RestOf
  <2>2. e \in Heads(queues, pressure) /\ SameBut(pressure, pressure, DataOn(e.shard))
    BY <1>1 DEF SameBut
  <2>3. Pushed(queues, pressure, e, pressure, rs)
    BY <1>1, <2>1, <2>2, PushedBackIs
  <2> QED
    BY <1>1, <1>2, <2>1, <2>3 DEF Pushed, RestOf
<1>6. heap' = Heads(queues', pressure')
  BY <1>3, <1>5 DEF Requeue
<1>7. Partition(plan, queues', unplaceable')
  BY <1>1, <1>3, <1>4, <1>5, PassPartition
<1> QED
  BY <1>1, <1>2, <1>3, <1>4, <1>5, <1>6, <1>7 DEF DivertOK

\* What is fetched stays, so that what is said of the next state's plan is said there too.
LEMMA DivertOKThen ==
  ASSUME cluster' = cluster, DivertOK(plan', queues', heap', pressure', unplaceable')
  PROVE  DivertOK(plan, queues, heap, pressure, unplaceable)'
<1>1. Stuck' = Stuck /\ Shards' = Shards /\ \A x : DataOn(x)' = DataOn(x)
  BY DEF Stuck, Shards, Considered, TooFull, UpOf, DataOn
<1>2. \A x, y : InOrder(x, y)' <=> InOrder(x, y)
  BY DEF InOrder, ShardKey, UpOf
<1>3. \A x, held : Entry(x, held)' = Entry(x, held)
  BY <1>1 DEF Entry
<1>4. PlanOK(plan)' /\ BooksOK(plan)'
  BY PlanThen, BooksThen DEF DivertOK
<1>5. NoPins(plan)'
  BY DEF DivertOK, NoPins
<1>6. \A a : StuckOn(a)' = StuckOn(a)
  BY <1>1 DEF StuckOn
<1>7. QueuesOK(queues)'
  <2>1. QueuesOK(queues') <=> \A a \in DOMAIN queues' : QueueOK(a, queues'[a])
    BY DEF QueuesOK
  <2>2. QueuesOK(queues)' <=> \A a \in DOMAIN queues' : QueueOK(a, queues'[a])
    BY <1>2, <1>6 DEF QueuesOK, QueueOK, Sorted
  <2> QED
    BY <2>1, <2>2 DEF DivertOK
<1>8. heap' = Heads(queues, pressure)'
  BY <1>3 DEF DivertOK, Heads
<1>9. Partition(plan, queues, unplaceable)'
  BY <1>1 DEF DivertOK, Partition, PendingIn, Changed
<1>10. Pressed(plan, pressure)'
  <2>1. \A o : GoneFrom(plan, o)' = GoneFrom(plan', o)
    BY <1>1 DEF GoneFrom, AllMoves
  <2>2. Sizes' = Sizes
    BY DEF Sizes, Size
  <2> QED
    BY <2>1, <2>2 DEF DivertOK, Pressed
<1>11. Coming(plan)'
  <2>1. \A o : StillComing(plan, o)' = StillComing(plan', o)
    BY <1>1 DEF StillComing, UpOf, Changed
  <2>2. \A o : CancelledAt(plan, o)' = CancelledAt(plan', o)
    BY DEF CancelledAt, MovedFrom, AllMoves, UpOf
  <2>3. Left' = Left /\ Come' = Come
    BY DEF Left, Come
  <2> QED
    BY <2>1, <2>2, <2>3 DEF DivertOK, Coming
<1> QED
  BY <1>4, <1>5, <1>7, <1>8, <1>9, <1>10, <1>11 DEF DivertOK


LEMMA DivertNextOK ==
  ASSUME DivertInv, [DivertNext]_divertVars
  PROVE  DivertInv'
<1>1. ASSUME cluster' = cluster, DivertOK(plan', queues', heap', pressure', unplaceable')
      PROVE  DivertInv'
  BY <1>1, DivertOKThen DEF DivertInv
<1>2. ASSUME NEW e \in heap, PlaceStuck(e) PROVE DivertInv'
  BY <1>1, <1>2, PlaceStuckOK
<1>3. ASSUME NEW e \in heap, PassStuck(e) PROVE DivertInv'
  BY <1>1, <1>3, PassStuckOK
<1>4. CASE UNCHANGED divertVars
  BY <1>1, <1>4 DEF divertVars, DivertInv
<1> QED
  BY <1>2, <1>3, <1>4 DEF DivertNext

LEMMA DivertInductive == DivertSpec => []DivertInv
<1>1. DivertInit => DivertInv
  BY DivertInitOK
<1>2. DivertInv /\ [DivertNext]_divertVars => DivertInv'
  BY DivertNextOK
<1> QED
  BY <1>1, <1>2, PTL DEF DivertSpec

\* Whatever the queues hold and in whatever order they are drained, every stuck shard is
\* still queued, or placed, or reported, only one of these, and none is queued at the end
\* (plan_diversions' heap of queues).
THEOREM NoneIsForgotten == DivertSpec => []NoneForgotten
<1>1. DivertInv => NoneForgotten
  <2> SUFFICES ASSUME DivertInv PROVE NoneForgotten
    OBVIOUS
  <2>1. Partition(plan, queues, unplaceable) /\ heap = Heads(queues, pressure)
    BY DEF DivertInv, DivertOK
  <2>2. Pending = PendingIn(queues)
    BY DEF Pending, PendingIn
  <2>3. ASSUME Done PROVE Pending = {}
    <3>1. \A a \in DOMAIN queues : queues[a] = <<>>
      BY <2>1, <2>3 DEF Done, Heads
    <3>2. \A a \in DOMAIN queues : ToSet(queues[a]) = {}
      BY <3>1 DEF ToSet
    <3> QED
      BY <3>2 DEF Pending
  <2> QED
    BY <2>1, <2>2, <2>3 DEF NoneForgotten, Partition
<1> QED
  BY <1>1, DivertInductive, PTL

-----------------------------------------------------------------------------
(* The order in which the shards are placed.                                *)

LEMMA Foremost ==
  ASSUME DivertInv, NEW e \in heap, Popped(e), NEW y \in PendingIn(queues), y # e.shard
  PROVE  /\ e = Entry(e.shard, pressure) /\ e.shard \in Stuck /\ y \in Stuck
         /\ Before(e, Entry(y, pressure))
<1>1. /\ cluster \in Clusters /\ QueuesOK(queues) /\ heap = Heads(queues, pressure)
      /\ pressure \in [Osd -> Int]
  BY DEF DivertInv, DivertOK, Pressed
<1>2. PICK x : x = e.shard
  OBVIOUS
<1>3. x \in Stuck /\ e = Entry(x, pressure)
  BY <1>1, <1>2, PoppedIs
<1>4. PICK b \in DOMAIN queues : y \in ToSet(queues[b])
  BY DEF PendingIn
<1>5. QueueOK(b, queues[b]) /\ queues[b] # <<>>
  BY <1>1, <1>4 DEF QueuesOK, ToSet
<1>6. PICK z : z = Head(queues[b])
  OBVIOUS
<1>7. /\ z \in StuckOn(b) /\ y \in StuckOn(b)
      /\ ToSet(Tail(queues[b])) = ToSet(queues[b]) \ {z}
      /\ \A w \in ToSet(Tail(queues[b])) : InOrder(z, w)
  BY <1>1, <1>4, <1>5, <1>6, TailIs
<1>8. z \in Stuck /\ y \in Stuck /\ DataOn(z) = b /\ DataOn(y) = b
  BY <1>7 DEF StuckOn
<1>9. y # z => Before(Entry(z, pressure), Entry(y, pressure))
  <2>1. y # z => InOrder(z, y)
    BY <1>4, <1>7
  <2> QED
    BY <1>1, <1>8, <2>1, BeforeIsOrder
<1>10. CASE z = x
  BY <1>2, <1>3, <1>8, <1>9, <1>10
<1>11. CASE z # x
  <2>1. Entry(z, pressure) \in heap
    BY <1>1, <1>5, <1>6 DEF Heads
  <2>2. Entry(z, pressure) # e
    <3>1. Entry(z, pressure).shard = z
      BY DEF Entry
    <3> QED
      BY <1>2, <1>11, <3>1
  <2>3. Before(Entry(x, pressure), Entry(z, pressure))
    BY <1>3, <2>1, <2>2 DEF Popped
  <2>4. y # z => Before(Entry(x, pressure), Entry(y, pressure))
    BY <1>1, <1>3, <1>8, <1>9, <2>3, BeforeIsOrder
  <2> QED
    BY <1>2, <1>3, <1>8, <2>3, <2>4
<1> QED
  BY <1>10, <1>11

LEMMA HeldIs ==
  ASSUME DivertInv, NEW o \in Sized
  PROVE  HeldAfter(o) = pressure[o]
<1>1. /\ ClusterTyped(cluster) /\ PlanTyped(plan) /\ PlanShape(plan)
      /\ Pressed(plan, pressure)
  BY ClustersTyped DEF DivertInv, DivertOK, PlanOK
<1>2. PICK S : S = GoneFrom(plan, o)
  OBVIOUS
<1>3. S \in SUBSET AllMoves(plan)
  BY <1>2 DEF GoneFrom
<1>4. SumFunction([m \in S |-> Size(m[1])]) = SumFunctionOnSet(Sizes, S)
  BY <1>1, <1>3, SumOfSizes
<1>5. HeldAfter(o) = cluster.used[o] - SumFunction([m \in S |-> Size(m[1])])
  BY <1>2 DEF HeldAfter, GoneFrom
<1> QED
  BY <1>1, <1>2, <1>4, <1>5 DEF Pressed

\* Of all the shards still queued, the one taken is the foremost by what the OSDs hold once
\* the shards already placed have left: no entry of the heap is ever stale (SourcePressure,
\* and the push back of each queue).
THEOREM FullestComesFirst == DivertSpec => FullestServedFirst
<1> DEFINE held == [o \in Osd |-> HeldAfter(o)]
<1>1. ASSUME DivertInv, [DivertNext]_divertVars
      PROVE  \A x \in Pending \ Pending', y \in Pending' : Before(Entry(x, held), Entry(y, held))
  <2>1. Pending = PendingIn(queues) /\ Pending' = PendingIn(queues')
    BY DEF Pending, PendingIn
  <2>2. \A z : Entry(z, held) = Entry(z, pressure)
    <3>1. \A o \in Sized : held[o] = pressure[o]
      BY <1>1, HeldIs
    <3> HIDE DEF held
    <3> QED
      BY <3>1, EntrySame
  <2>3. ASSUME NEW e \in heap, Popped(e), PendingIn(queues') = PendingIn(queues) \ {e.shard},
               NEW x \in Pending \ Pending', NEW y \in Pending'
        PROVE  Before(Entry(x, pressure), Entry(y, pressure))
    <3>1. x = e.shard /\ y \in PendingIn(queues) /\ y # e.shard
      BY <2>1, <2>3
    <3> QED
      BY <1>1, <2>3, <3>1, Foremost
  <2>4. ASSUME NEW e \in heap, PlaceStuck(e), NEW x \in Pending \ Pending', NEW y \in Pending'
        PROVE  Before(Entry(x, pressure), Entry(y, pressure))
    <3>1. Popped(e) /\ PendingIn(queues') = PendingIn(queues) \ {e.shard}
      BY <1>1, <2>4, PlaceStuckOK DEF PlaceStuck
    <3> QED
      BY <2>3, <2>4, <3>1
  <2>5. ASSUME NEW e \in heap, PassStuck(e), NEW x \in Pending \ Pending', NEW y \in Pending'
        PROVE  Before(Entry(x, pressure), Entry(y, pressure))
    <3>1. Popped(e) /\ PendingIn(queues') = PendingIn(queues) \ {e.shard}
      BY <1>1, <2>5, PassStuckOK DEF PassStuck
    <3> QED
      BY <2>3, <2>5, <3>1
  <2>6. CASE UNCHANGED divertVars
    <3>1. Pending' = Pending
      BY <2>1, <2>6 DEF divertVars
    <3> QED
      BY <3>1
  <2> HIDE DEF held
  <2> QED
    BY <1>1, <2>2, <2>4, <2>5, <2>6 DEF DivertNext
<1>2. DivertInv /\ [DivertNext]_divertVars =>
        [\A x \in Pending \ Pending', y \in Pending' : Before(Entry(x, held), Entry(y, held))]_divertVars
  BY <1>1
<1> QED
  BY <1>2, DivertInductive, PTL DEF DivertSpec, FullestServedFirst

-----------------------------------------------------------------------------
(* The report, and the planner's promises.                                  *)

\* What is reported as fitting will: every backfill in motion and not redirected, and every
\* one proposed, leave the OSD it is headed for below backfillfull_ratio (split_left).
THEOREM FittingFits == DivertSpec => []FittingWillFit
<1>1. ASSUME DivertInv, NEW x \in Fitting, NEW u, u = UpOf(x[1], x[2]),
             NEW coming, coming = StillComing(plan, u),
             NEW sent, sent = {m \in AllMoves(plan) : m[2].to = u}
      PROVE  Util(u, cluster.used[u]
                     + SumFunction([y \in coming |-> ToCome(cluster, y[1], y[2])])
                     + SumFunction([m \in sent |-> Size(m[1])])) < BackfillFull
  <2>1. /\ ClusterTyped(cluster) /\ PlanTyped(plan) /\ PlanShape(plan)
        /\ Ledger(plan) /\ Coming(plan) /\ NoPins(plan)
    BY <1>1, ClustersTyped DEF DivertInv, DivertOK, PlanOK, BooksOK
  <2>2. u \in Sized /\ Util(u, plan.res[u]) < BackfillFull
    BY <1>1 DEF Fitting, Fits
  <2>3. PICK f, g : f = [y \in coming |-> ToCome(cluster, y[1], y[2])] /\ g = Come
    OBVIOUS
  <2>4. SumFunction(f) = SumFunctionOnSet(g, coming)
    <3>1. IsFiniteSet(coming) /\ \A y \in coming : g[y] = ToCome(cluster, y[1], y[2]) /\ g[y] \in Int
      BY <1>1, <2>1, <2>3, ComingIs
    <3>2. \A y \in coming : f[y] \in Int /\ f[y] = g[y]
      BY <2>3, <3>1
    <3>3. SumFunctionOnSet(f, coming) = SumFunctionOnSet(g, coming)
      BY <3>1, <3>2, SumAgrees
    <3>4. SumFunction(f) = SumFunctionOnSet(f, coming)
      BY <2>3 DEF SumFunction
    <3> QED
      BY <3>3, <3>4
  <2>5. sent = PlacedOn(plan, u)
    <3>1. \A m \in AllMoves(plan) : ~m[2].pin
      BY <2>1 DEF NoPins, AllMoves
    <3> QED
      BY <1>1, <3>1 DEF PlacedOn, HeadedTo
  <2>6. SumFunction([m \in sent |-> Size(m[1])]) = SumFunctionOnSet(Sizes, PlacedOn(plan, u))
    <3>1. sent \in SUBSET AllMoves(plan)
      BY <1>1
    <3>2. SumFunction([m \in sent |-> Size(m[1])]) = SumFunctionOnSet(Sizes, sent)
      BY <2>1, <3>1, SumOfSizes
    <3> QED
      BY <2>5, <3>2
  <2>7. PICK a \in Int, b \in Int, c \in Int, d \in Int, k \in Int :
          /\ a = cluster.res[u] /\ b = SumFunctionOnSet(Left, CancelledAt(plan, u))
          /\ c = cluster.used[u] /\ d = SumFunctionOnSet(Come, StillComing(plan, u))
          /\ k = SumFunctionOnSet(Sizes, PlacedOn(plan, u))
    <3>1. cluster.used[u] \in Int
      BY <2>1, <2>2 DEF ClusterTyped
    <3> QED
      BY <2>1, <2>2, <3>1, LedgerType, ComingIs
  <2>8. a - b = c + d
    BY <2>1, <2>2, <2>7 DEF Coming
  <2>9. plan.res[u] = a - b + k
    BY <2>1, <2>2, <2>7 DEF Ledger
  <2>10. plan.res[u] = c + d + k
    BY <2>8, <2>9
  <2> QED
    BY <1>1, <2>2, <2>3, <2>4, <2>6, <2>7, <2>10
<1>2. DivertInv => FittingWillFit
  <2> SUFFICES ASSUME DivertInv, NEW x \in Fitting
               PROVE  LET u == UpOf(x[1], x[2])
                          coming == {y \in Shards : /\ Arriving(cluster, y[1], y[2])
                                                    /\ UpOf(y[1], y[2]) = u
                                                    /\ y[2] \notin Changed(plan, y[1])}
                          sent == {m \in AllMoves(plan) : m[2].to = u}
                      IN  Util(u, cluster.used[u]
                                  + SumFunction([y \in coming |-> ToCome(cluster, y[1], y[2])])
                                  + SumFunction([m \in sent |-> Size(m[1])])) < BackfillFull
    BY DEF FittingWillFit
  <2> QED
    BY <1>1 DEF StillComing
<1> QED
  BY <1>2, DivertInductive, PTL

\* divert-toofull keeps what the planner promises: every target has room for all that is
\* headed for it, no PG has two shards on a host, the projections are those of the proposals,
\* and importing these makes Ceph's up sets those planned.
THEOREM DivertKeepsPromises ==
  DivertSpec => [](TargetsHaveRoom /\ HostsKeptApart /\ UsageAccounted /\ AppliedAsPlanned)
<1>1. DivertInv => TargetsHaveRoom /\ HostsKeptApart /\ UsageAccounted /\ AppliedAsPlanned
  <2> SUFFICES ASSUME DivertInv
               PROVE  TargetsHaveRoom /\ HostsKeptApart /\ UsageAccounted /\ AppliedAsPlanned
    OBVIOUS
  <2>1. cluster \in Clusters /\ PlanOK(plan) /\ BooksOK(plan) /\ NoPins(plan)
    BY DEF DivertInv, DivertOK
  <2>2. TargetsHaveRoom /\ UpSetsValid
    BY <2>1, InvImplies
  <2>3. HostsKeptApart
    BY <2>1, <2>2 DEF UpSetsValid, HostsKeptApart, NoPins
  <2> QED
    BY <2>1, <2>2, <2>3, BooksImply
<1> QED
  BY <1>1, DivertInductive, PTL

\* And as it places the shards one by one, no target is taken to or above an OSD it relieved.
THEOREM DivertRelieves == DivertSpec => ReliefKept
<1>1. ASSUME DivertInv, [DivertNext]_divertVars PROVE ReliefStep
  <2>1. /\ cluster \in Clusters /\ PlanOK(plan) /\ QueuesOK(queues)
        /\ heap = Heads(queues, pressure) /\ Partition(plan, queues, unplaceable)
    BY <1>1 DEF DivertInv, DivertOK
  <2>2. ClusterTyped(cluster) /\ PlanTyped(plan) /\ PlanShape(plan)
    BY <2>1, ClustersTyped DEF PlanOK
  <2>3. ASSUME plan' = plan, cluster' = cluster PROVE ReliefStep
    <3>1. Relief(plan)' = Relief(plan)
      BY <2>3 DEF Relief, UpOf, Up
    <3> QED
      BY <2>3, <3>1 DEF ReliefStep
  <2>4. ASSUME NEW e \in heap, PlaceStuck(e) PROVE ReliefStep
    <3>1. PICK x, t : x = e.shard /\ t = Place(plan, x[1], x[2], {})
      OBVIOUS
    <3>2. t # None /\ plan' = Commit(plan, x[1], x[2], t, "requested") /\ cluster' = cluster
      BY <2>4, <3>1 DEF PlaceStuck, PushedBack
    <3>3. x \in Stuck
      BY <2>1, <3>1, PoppedIs
    <3>4. x[1] \in Pg /\ x[2] \in Slots(cluster, x[1]) /\ IsReal(UpOf(x[1], x[2]))
      BY <3>3, StuckIs
    <3>5. Legal(plan, x[1], x[2], t, {})
      BY <2>2, <3>1, <3>2, <3>4, PlaceIsLegal
    <3>6. Relief(plan)' = Relief(plan')
      BY <3>2 DEF Relief, UpOf, Up
    <3>7. Relief(plan') = Relief(plan) \union {<<UpOf(x[1], x[2]), t>>}
      <4>1. PICK pg, i, role : pg = x[1] /\ i = x[2] /\ role = "requested"
        OBVIOUS
      <4>2. Relief(Commit(plan, pg, i, t, role)) = Relief(plan) \union {<<UpOf(pg, i), t>>}
        <5>1. PlanTyped(plan) /\ pg \in Pg
          BY <2>2, <3>4, <4>1
        <5> QED
          BY <5>1, CommitRelief
      <4> QED
        BY <3>2, <4>1, <4>2
    <3>8. /\ \A r \in Relief(plan) : Ordered(plan, r) => Ordered(plan', r)
          /\ Ordered(plan', <<UpOf(x[1], x[2]), t>>)
      BY <2>2, <3>2, <3>4, <3>5, CommitOrder, DivertSettings
    <3> QED
      BY <3>6, <3>7, <3>8 DEF ReliefStep, Ordered
  <2>5. ASSUME NEW e \in heap, PassStuck(e) PROVE ReliefStep
    BY <2>3, <2>5 DEF PassStuck, PushedBack
  <2>6. CASE UNCHANGED divertVars
    BY <2>3, <2>6 DEF divertVars
  <2> QED
    BY <1>1, <2>4, <2>5, <2>6 DEF DivertNext
<1>2. DivertInv /\ [DivertNext]_divertVars => [ReliefStep]_vars
  BY <1>1
<1> QED
  BY <1>2, DivertInductive, PTL DEF DivertSpec, ReliefKept

=============================================================================
