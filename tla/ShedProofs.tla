----------------------------- MODULE ShedProofs -----------------------------
(***************************************************************************)
(* shed() in full: it plans by the planner's rules, its search for a       *)
(* target misses none, and it reports what it leaves.                      *)
(***************************************************************************)
EXTENDS Shed, PlannerProofs

USE NoneIsNoOsd, StaticsTyped, SettingsTyped

(* A blocker dealt with stays dealt with.                                   *)

\* From p to q the PG's slot i is changed, nothing is changed back, no other PG is
\* touched, and an OSD that more is reserved on stays below the cap.
Settles(p, q, pg, i) ==
  /\ i \in Changed(q, pg)
  /\ \A g \in Pg : Changed(p, g) \subseteq Changed(q, g)
  /\ \A g \in Pg \ {pg} : Changed(q, g) = Changed(p, g)
  /\ \A o \in Osd : q.res[o] <= p.res[o] \/ Util(o, q.res[o]) <= Cap

\* A PG with changed slots is one with moves.
LEMMA MovesChange ==
  ASSUME NEW p, NEW pg
  PROVE  p.moves[pg] = {} <=> Changed(p, pg) = {}
<1>1. ASSUME p.moves[pg] # {} PROVE Changed(p, pg) # {}
  <2>1. PICK m : m \in p.moves[pg]
    BY <1>1
  <2>2. m.slot \in Changed(p, pg)
    BY <2>1 DEF Changed
  <2> QED
    BY <2>2
<1>2. ASSUME p.moves[pg] = {} PROVE Changed(p, pg) = {}
  BY <1>2 DEF Changed
<1> QED
  BY <1>1, <1>2

\* A move to a legal target settles the shard.
LEMMA CommitSettles ==
  ASSUME ClusterTyped(cluster), NEW p, PlanTyped(p), NEW pg \in Pg,
         NEW i \in Slots(cluster, pg), NEW t \in Osd, NEW role \in Roles,
         Util(t, p.res[t] + Size(pg)) <= Cap
  PROVE  Settles(p, Commit(p, pg, i, t, role), pg, i)
<1>1. PICK q : q = Commit(p, pg, i, t, role)
  OBVIOUS
<1>2. \A o \in Osd : q.res[o] <= p.res[o] \/ Util(o, q.res[o]) <= Cap
  BY <1>1, CommitReserves
<1>3. \A g \in Pg : q.moves[g] = IF g = pg THEN p.moves[pg] \union {CommittedMove(i, t, role)}
                                           ELSE p.moves[g]
  BY <1>1 DEF Commit, PlanTyped
<1>4. CommittedMove(i, t, role).slot = i
  BY DEF CommittedMove
<1>5. i \in Changed(q, pg)
  BY <1>3, <1>4 DEF Changed
<1>6. \A g \in Pg : Changed(p, g) \subseteq Changed(q, g)
  BY <1>3 DEF Changed
<1>7. \A g \in Pg \ {pg} : Changed(q, g) = Changed(p, g)
  BY <1>3 DEF Changed
<1> QED
  BY <1>1, <1>2, <1>5, <1>6, <1>7 DEF Settles

\* A pin settles it.
LEMMA PinBackSettles ==
  ASSUME ClusterTyped(cluster), NEW p, PlanTyped(p), NEW pg \in Pg,
         NEW i \in Slots(cluster, pg), PinSlots(p, pg, i) # {}
  PROVE  /\ Settles(p, PinBack(p, pg, i), pg, i)
         /\ \A o \in Osd : PinBack(p, pg, i).res[o] <= p.res[o]
<1>1. PICK q : q = PinBack(p, pg, i)
  OBVIOUS
<1>2. PICK P : P = PinSlots(p, pg, i)
  OBVIOUS
<1>3. PICK pins : pins = {[slot |-> j, to |-> PinTo(pg, j), pin |-> TRUE, role |-> "blocker"] : j \in P}
  OBVIOUS
<1>4. \A o \in Osd : q.res[o] <= p.res[o]
  BY <1>1, PinBackUsage
<1>5. \A g \in Pg : q.moves[g] = IF g = pg THEN p.moves[pg] \union pins ELSE p.moves[g]
  BY <1>1, <1>2, <1>3 DEF PinBack, PlanTyped
<1>6. i \in P
  BY <1>2, PinSlotsType
<1>7. [slot |-> i, to |-> PinTo(pg, i), pin |-> TRUE, role |-> "blocker"] \in q.moves[pg]
  BY <1>3, <1>5, <1>6
<1>8. i \in Changed(q, pg)
  <2>1. PICK m \in q.moves[pg] : m.slot = i
    BY <1>7
  <2> QED
    BY <2>1 DEF Changed
<1>9. \A g \in Pg : Changed(p, g) \subseteq Changed(q, g)
  BY <1>5 DEF Changed
<1>10. \A g \in Pg \ {pg} : Changed(q, g) = Changed(p, g)
  BY <1>5 DEF Changed
<1> QED
  BY <1>1, <1>4, <1>8, <1>9, <1>10 DEF Settles

\* A pin after the move in its way is re-placed settles it.
LEMMA AsideSettles ==
  ASSUME ClusterTyped(cluster), NEW p, PlanTyped(p), NEW pg \in Pg,
         NEW i \in Slots(cluster, pg), NEW m \in p.moves[pg], NEW t \in Osd,
         PlanTyped(RePlaced(p, pg, i, m, t)),
         Util(t, Uncommit(p, pg, m).res[t] + Size(pg)) <= Cap,
         PinSlots(RePlaced(p, pg, i, m, t), pg, i) # {}
  PROVE  Settles(p, PinBack(RePlaced(p, pg, i, m, t), pg, i), pg, i)
<1>1. PICK r : r = RePlaced(p, pg, i, m, t)
  OBVIOUS
<1>2. PICK q : q = PinBack(r, pg, i)
  OBVIOUS
<1>3. PlanTyped(r) /\ PinSlots(r, pg, i) # {}
  BY <1>1
<1>4. Settles(r, q, pg, i) /\ \A o \in Osd : q.res[o] <= r.res[o]
  BY <1>2, <1>3, PinBackSettles
<1>5. \A o \in Osd : r.res[o] <= p.res[o] \/ Util(o, r.res[o]) <= Cap
  BY <1>1, RePlacedReserves
<1>6. PlanTyped(q)
  BY <1>2, <1>3, PinBackType
<1>7. ASSUME NEW o \in Osd PROVE q.res[o] <= p.res[o] \/ Util(o, q.res[o]) <= Cap
  <2>1. PICK a \in Int, b \in Int, c \in Int : a = q.res[o] /\ b = r.res[o] /\ c = p.res[o]
    BY <1>3, <1>6 DEF PlanTyped
  <2>2. a <= b /\ (b <= c \/ Util(o, b) <= Cap)
    BY <1>4, <1>5, <2>1
  <2>3. Util(o, b) <= Cap => Util(o, a) <= Cap
    BY <2>1, <2>2, UtilBound
  <2> QED
    BY <2>1, <2>2, <2>3
<1>8. \A g \in Pg : Changed(r, g) = Changed(p, g)
  <2>1. \A g \in Pg : r.moves[g] = IF g = pg
                                   THEN (p.moves[pg] \ {m}) \union {CommittedMove(m.slot, t, "requested")}
                                   ELSE p.moves[g]
    BY <1>1 DEF RePlaced, Commit, Uncommit, PlanTyped
  <2>2. CommittedMove(m.slot, t, "requested").slot = m.slot
    BY DEF CommittedMove
  <2>3. ASSUME NEW g \in Pg, NEW j PROVE j \in Changed(r, g) <=> j \in Changed(p, g)
    <3>1. CASE g # pg
      BY <2>1, <3>1 DEF Changed
    <3>2. CASE g = pg
      <4>1. ASSUME j \in Changed(r, g) PROVE j \in Changed(p, g)
        BY <2>1, <2>2, <3>2, <4>1 DEF Changed
      <4>2. ASSUME j \in Changed(p, g) PROVE j \in Changed(r, g)
        <5>1. PICK n \in p.moves[g] : n.slot = j
          BY <4>2 DEF Changed
        <5>2. CASE n = m
          BY <2>1, <2>2, <3>2, <5>1, <5>2 DEF Changed
        <5>3. CASE n # m
          BY <2>1, <3>2, <5>1, <5>3 DEF Changed
        <5> QED
          BY <5>2, <5>3
      <4> QED
        BY <4>1, <4>2
    <3> QED
      BY <3>1, <3>2
  <2> QED
    BY <2>3
<1>9. Settles(p, q, pg, i)
  BY <1>4, <1>7, <1>8 DEF Settles
<1> QED
  BY <1>1, <1>2, <1>9

\* Below a cap that is itself below backfillfull, what a plan reserves makes no blocker.
LEMMA NoNewBlocker ==
  ASSUME Cap < BackfillFull, NEW p, PlanTyped(p), NEW q, PlanTyped(q),
         \A o \in Osd : q.res[o] <= p.res[o] \/ Util(o, q.res[o]) <= Cap,
         NEW pg, NEW i, IsBlocker(cluster, q.res, pg, i)
  PROVE  IsBlocker(cluster, p.res, pg, i)
<1>1. PICK o : o = Up(cluster, pg)[i]
  OBVIOUS
<1>2. /\ Arriving(cluster, pg, i) /\ o \in Sized /\ o \in Osd
      /\ \/ Util(o, q.res[o]) >= BackfillFull
         \/ pg \in cluster.toofull /\ Util(o, cluster.used[o]) >= NearFull
  BY <1>1 DEF IsBlocker
<1>3. CASE pg \in cluster.toofull /\ Util(o, cluster.used[o]) >= NearFull
  BY <1>1, <1>2, <1>3 DEF IsBlocker
<1>4. CASE Util(o, q.res[o]) >= BackfillFull
  <2>1. PICK a \in Int, b \in Int : a = q.res[o] /\ b = p.res[o]
    BY <1>2 DEF PlanTyped
  <2>2. PICK c \in Int, f \in Int : c = Cap /\ f = BackfillFull /\ c < f
    OBVIOUS
  <2>3. Util(o, a) \in Int /\ Util(o, b) \in Int
    BY <1>2, <2>1 DEF Util
  <2>4. a <= b
    BY <1>2, <1>4, <2>1, <2>2, <2>3
  <2>5. Util(o, a) <= Util(o, b)
    BY <1>2, <2>1, <2>4, UtilMonotone
  <2>6. Util(o, b) >= BackfillFull
    BY <1>4, <2>1, <2>2, <2>3, <2>5
  <2> QED
    BY <1>1, <1>2, <2>1, <2>6 DEF IsBlocker
<1> QED
  BY <1>2, <1>3, <1>4

-----------------------------------------------------------------------------
(* The inductive invariant of shed().                                       *)

\* A shard of a source is changed, or passed over, or still to be tried; and its source
\* is on the heap while it has any to be tried.
AllInHand ==
  /\ phase \in {"shedding", "resolving", "done"}
  /\ phase # "shedding" => heap = {}
  /\ \A e \in heap : e.source \in Sources
  /\ DOMAIN todo = Sources
  /\ \A s \in Sources : todo[s] = {} \/ \E e \in heap : e.source = s
  /\ \A s \in Sources : \A x \in todo[s] : x \in OnSource(s) /\ x[2] \notin Changed(plan, x[1])
  /\ \A s \in Sources : \A x \in OnSource(s) :
       x[2] \in Changed(plan, x[1]) \/ <<s, x>> \in left \/ x \in todo[s]

\* Once the sources are shed, the only blockers that may still hold up a PG with a
\* proposed move are on the agenda, or the PG is stuck.
AllOnAgenda ==
  /\ agenda \subseteq Shards
  /\ phase = "done" => agenda = {}
  /\ Cap < BackfillFull /\ phase # "shedding" =>
       \A pg \in Pg \ stuck :
         plan.moves[pg] # {} =>
           \A i \in Slots(cluster, pg) \ Changed(plan, pg) :
             IsBlocker(cluster, plan.res, pg, i) => <<pg, i>> \in agenda

ShedInv == BooksInv /\ AllInHand /\ AllOnAgenda

\* What the planner's invariant says of the plan.
LEMMA BooksGive ==
  ASSUME BooksInv
  PROVE  /\ ClusterTyped(cluster) /\ PlanTyped(plan)
         /\ \A o \in Sized : plan.final[o] <= plan.res[o]
BY ClustersTyped, CreditOrders DEF BooksInv, PlanInv, PlanOK, BooksOK

\* It holds before the first source is popped.
LEMMA ShedInitOK ==
  ASSUME ShedInit
  PROVE  ShedInv
<1>1. BooksInv
  BY InitBooks DEF ShedInit
<1>2. /\ phase = "shedding" /\ heap = {Priority(plan, s) : s \in Sources}
      /\ todo = [s \in Sources |-> OnSource(s)] /\ agenda = {}
  BY DEF ShedInit
<1>3. \A s \in Sources : Priority(plan, s) \in heap /\ Priority(plan, s).source = s
  BY <1>2 DEF Priority
<1>4. \A e \in heap : e.source \in Sources
  BY <1>2 DEF Priority
<1>5. \A s \in Sources : \A x \in OnSource(s) : x[2] \notin Changed(plan, x[1])
  <2>1. \A pg \in Pg : plan.moves[pg] = {}
    BY DEF ShedInit, PlanInit
  <2>2. \A s : \A x \in OnSource(s) : x[1] \in Pg
    BY ShardIs DEF OnSource
  <2> QED
    BY <2>1, <2>2 DEF Changed
<1>6. AllInHand
  BY <1>2, <1>3, <1>4, <1>5 DEF AllInHand
<1>7. AllOnAgenda
  BY <1>2 DEF AllOnAgenda
<1> QED
  BY <1>1, <1>6, <1>7 DEF ShedInv

\* What a turn that sheds a shard does: a move off its source.
LEMMA ShedShardIs ==
  ASSUME ShedInv, NEW e \in heap, NEW x \in todo[e.source], ShedShard(e, x)
  PROVE  /\ \E t \in Osd : MoveOff(x[1], x[2], t)
         /\ Settles(plan, plan', x[1], x[2])
<1>1. PICK t : t = Place(plan, x[1], x[2], {})
  OBVIOUS
<1>2. /\ e.source \in Sources /\ x \in OnSource(e.source) /\ x[2] \notin Changed(plan, x[1])
  BY DEF ShedInv, AllInHand
<1>3. x \in Shards /\ MayChange(cluster, x[1]) /\ UpOf(x[1], x[2]) = e.source
  BY <1>2 DEF OnSource
<1>4. x[1] \in Pg /\ x[2] \in Slots(cluster, x[1])
  BY <1>3, ShardIs
<1>5. /\ ~BelowLevel(plan, e.source, 0) /\ t # None /\ cluster' = cluster
      /\ plan' = Commit(plan, x[1], x[2], t, "requested")
  BY <1>1 DEF ShedShard, Turn, OverLevel
<1>6. ClusterTyped(cluster) /\ PlanTyped(plan)
  BY BooksGive DEF ShedInv
<1>7. t \in Osd /\ Legal(plan, x[1], x[2], t, {}) /\ Util(t, plan.res[t] + Size(x[1])) <= Cap
  <2>1. PICK avoid : avoid = {}
    OBVIOUS
  <2>2. t = Place(plan, x[1], x[2], avoid)
    BY <1>1, <2>1
  <2>3. t \in Osd /\ Legal(plan, x[1], x[2], t, avoid) /\ Util(t, plan.res[t] + Size(x[1])) <= Cap
    BY <1>4, <1>5, <1>6, <2>2, PlaceHasRoom
  <2> QED
    BY <2>1, <2>3
<1>8. MoveOff(x[1], x[2], t)
  BY <1>2, <1>3, <1>5, <1>7 DEF MoveOff
<1>9. "requested" \in Roles
  BY DEF Roles
<1>10. Settles(plan, plan', x[1], x[2])
  <2>1. PICK pg, i, role : pg = x[1] /\ i = x[2] /\ role = "requested"
    OBVIOUS
  <2>2. pg \in Pg /\ i \in Slots(cluster, pg) /\ role \in Roles
        /\ Util(t, plan.res[t] + Size(pg)) <= Cap
    BY <1>4, <1>7, <1>9, <2>1
  <2>3. Settles(plan, Commit(plan, pg, i, t, role), pg, i)
    BY <1>6, <1>7, <2>2, CommitSettles
  <2> QED
    BY <1>5, <2>1, <2>3
<1> QED
  BY <1>7, <1>8, <1>10

\* A blocker diverted.
LEMMA DivertBlockerIs ==
  ASSUME ShedInv, NEW x \in agenda, DivertBlocker(x[1], x[2])
  PROVE  /\ \E t \in Osd : Divert(x[1], x[2], t)
         /\ Settles(plan, plan', x[1], x[2])
<1>1. PICK pg, i, role, avoid : pg = x[1] /\ i = x[2] /\ role = "blocker" /\ avoid = {}
  OBVIOUS
<1>2. PICK t : t = Place(plan, pg, i, avoid)
  OBVIOUS
<1>3. pg \in Pg /\ i \in Slots(cluster, pg) /\ role \in Roles
  BY <1>1, ShardIs DEF ShedInv, AllOnAgenda, Roles
<1>4. /\ Blocker(pg, i) /\ t # None /\ cluster' = cluster
      /\ plan' = Commit(plan, pg, i, t, role)
  BY <1>1, <1>2 DEF DivertBlocker, Look
<1>5. ClusterTyped(cluster) /\ PlanTyped(plan)
  BY BooksGive DEF ShedInv
<1>6. t \in Osd /\ Legal(plan, pg, i, t, avoid) /\ Util(t, plan.res[t] + Size(pg)) <= Cap
  BY <1>2, <1>3, <1>4, <1>5, PlaceHasRoom
<1>7. Divert(pg, i, t)
  BY <1>1, <1>4, <1>6 DEF Divert
<1>8. Settles(plan, Commit(plan, pg, i, t, role), pg, i)
  BY <1>3, <1>5, <1>6, CommitSettles
<1> QED
  BY <1>1, <1>4, <1>6, <1>7, <1>8

\* A blocker place has no target for has none.
LEMMA NoTarget ==
  ASSUME BooksInv, NEW pg \in Pg, NEW i, Place(plan, pg, i, {}) = None
  PROVE  ~\E t \in Osd : Legal(plan, pg, i, t, {})
<1>1. PICK avoid, legal, t : /\ avoid = {} /\ t = Place(plan, pg, i, avoid)
                             /\ legal = {o \in Osd : Legal(plan, pg, i, o, avoid)}
  OBVIOUS
<1>2. PlanTyped(plan) /\ \A o \in Sized : plan.final[o] <= plan.res[o]
  BY BooksGive
<1>3. legal = {}
  <2> HIDE StaticsTyped, SettingsTyped
  <2>1. legal # {} => t \in legal
    BY <1>1, <1>2, PlaceIsBest
  <2>2. legal \subseteq Osd /\ t = None
    BY <1>1
  <2> QED
    BY <2>1, <2>2, NoneIsNoOsd
<1> QED
  BY <1>1, <1>3

\* A blocker pinned back.
LEMMA PinBlockerBackIs ==
  ASSUME ShedInv, NEW x \in agenda, PinBlockerBack(x[1], x[2])
  PROVE  PinBlocker(x[1], x[2]) /\ Settles(plan, plan', x[1], x[2])
<1>1. PICK pg, i : pg = x[1] /\ i = x[2]
  OBVIOUS
<1>2. pg \in Pg /\ i \in Slots(cluster, pg)
  BY <1>1, ShardIs DEF ShedInv, AllOnAgenda
<1>3. /\ Blocker(pg, i) /\ Place(plan, pg, i, {}) = None /\ CanPinBack(plan, pg, i)
      /\ cluster' = cluster /\ plan' = PinBack(plan, pg, i)
  BY <1>1 DEF PinBlockerBack, NoRoom, Look
<1>4. ~\E t \in Osd : Legal(plan, pg, i, t, {})
  BY <1>2, <1>3, NoTarget DEF ShedInv
<1>5. PinBlocker(pg, i)
  BY <1>3, <1>4 DEF PinBlocker
<1>6. PinSlots(plan, pg, i) # {}
  BY <1>3 DEF CanPinBack
<1>7. ClusterTyped(cluster) /\ PlanTyped(plan)
  BY BooksGive DEF ShedInv
<1>8. Settles(plan, PinBack(plan, pg, i), pg, i)
  BY <1>2, <1>6, <1>7, PinBackSettles
<1> QED
  BY <1>1, <1>3, <1>5, <1>8

\* A blocker pinned back once the move in its way went elsewhere.
LEMMA PinBlockerAsideIs ==
  ASSUME ShedInv, NEW x \in agenda, PinBlockerAside(x[1], x[2])
  PROVE  /\ \E t \in Osd : \E m \in plan.moves[x[1]] : PinElsewhere(x[1], x[2], m, t)
         /\ Settles(plan, plan', x[1], x[2])
<1>1. PICK pg, i : pg = x[1] /\ i = x[2]
  OBVIOUS
<1>2. pg \in Pg /\ i \in Slots(cluster, pg)
  BY <1>1, ShardIs DEF ShedInv, AllOnAgenda
<1>3. /\ Blocker(pg, i) /\ Place(plan, pg, i, {}) = None /\ ~CanPinBack(plan, pg, i)
      /\ cluster' = cluster
      /\ \E mt \in Aside(pg, i) : plan' = PinBack(RePlaced(plan, pg, i, mt[1], mt[2]), pg, i)
  BY <1>1 DEF PinBlockerAside, NoRoom, Look
<1>4. PICK avoid : avoid = {HostOf[ActingOf(cluster, pg, i)]}
  OBVIOUS
<1>5. PICK m, t : /\ m \in InTheWay(plan, pg, i) /\ t \in Osd
                  /\ t = Place(Uncommit(plan, pg, m), pg, m.slot, avoid)
                  /\ CanPinBack(RePlaced(plan, pg, i, m, t), pg, i)
                  /\ plan' = PinBack(RePlaced(plan, pg, i, m, t), pg, i)
  BY <1>3, <1>4 DEF Aside
<1>6. m \in plan.moves[pg] /\ t # None /\ m.role = "requested" /\ ~m.pin
  BY <1>5 DEF InTheWay
<1>7. ClusterTyped(cluster) /\ Consistent(cluster) /\ PlanTyped(plan) /\ PlanOK(plan)
  BY BooksGive, ClustersTyped DEF ShedInv, BooksInv, PlanInv
<1>8. PICK r : r = Uncommit(plan, pg, m)
  OBVIOUS
<1>9. PlanTyped(r)
  BY <1>2, <1>6, <1>7, <1>8, UncommitType
<1>10. Legal(r, pg, m.slot, t, avoid) /\ Util(t, r.res[t] + Size(pg)) <= Cap
  BY <1>2, <1>5, <1>6, <1>8, <1>9, PlaceHasRoom
<1>11. ~\E v \in Osd : Legal(plan, pg, i, v, {})
  BY <1>2, <1>3, NoTarget DEF ShedInv
<1>12. CanRePlace(plan, pg, i, m, t)
  BY <1>4, <1>5, <1>8, <1>10 DEF CanRePlace
<1>13. PinElsewhere(pg, i, m, t)
  BY <1>3, <1>5, <1>11, <1>12 DEF PinElsewhere
<1>14. PlanTyped(RePlaced(plan, pg, i, m, t))
  <2>1. Legal(Uncommit(plan, pg, m), pg, m.slot, t, avoid)
    BY <1>8, <1>10
  <2>2. PlanOK(RePlaced(plan, pg, i, m, t))
    <3>1. UpOf(pg, m.slot) \in Sources
      BY <1>2, <1>6 DEF ShedInv, BooksInv, PlanInv, Requested
    <3> QED
      BY <1>2, <1>5, <1>6, <1>7, <2>1, <3>1, RePlacedOK
  <2> QED
    BY <2>2 DEF PlanOK
<1>15. PinSlots(RePlaced(plan, pg, i, m, t), pg, i) # {}
  BY <1>5 DEF CanPinBack
<1>16. Settles(plan, plan', pg, i)
  BY <1>2, <1>5, <1>6, <1>7, <1>8, <1>10, <1>14, <1>15, AsideSettles
<1> QED
  BY <1>1, <1>5, <1>6, <1>13, <1>16

\* Every step of shed() is one of the planner's, or leaves the plan alone.
LEMMA ShedStep ==
  ASSUME ShedInv, [ShedNext]_shedVars
  PROVE  [PlanNext]_vars
<1>1. \A x \in agenda : x \in Shards
  BY DEF ShedInv, AllOnAgenda
<1>2. ASSUME NEW e \in heap, NEW x \in todo[e.source], ShedShard(e, x) PROVE PlanNext
  <2>1. x \in Shards
    BY DEF ShedInv, AllInHand, OnSource
  <2> QED
    BY <1>2, <2>1, ShedShardIs DEF PlanNext
<1>3. ASSUME NEW x \in agenda, DivertBlocker(x[1], x[2]) PROVE PlanNext
  BY <1>1, <1>3, DivertBlockerIs DEF PlanNext
<1>4. ASSUME NEW x \in agenda, PinBlockerBack(x[1], x[2]) PROVE PlanNext
  BY <1>1, <1>4, PinBlockerBackIs DEF PlanNext
<1>5. ASSUME NEW x \in agenda, PinBlockerAside(x[1], x[2]) PROVE PlanNext
  BY <1>1, <1>5, PinBlockerAsideIs DEF PlanNext
<1>6. ASSUME NEW e \in heap, DropSource(e) PROVE UNCHANGED vars
  BY <1>6 DEF DropSource, Turn, vars
<1>7. ASSUME NEW x \in agenda, LookPast(x[1], x[2]) \/ GiveUp(x[1], x[2]) PROVE UNCHANGED vars
  BY <1>7 DEF LookPast, GiveUp, Look, vars
<1>8. ASSUME EndShedding \/ Finish PROVE UNCHANGED vars
  BY <1>8 DEF EndShedding, Finish, vars
<1>9. CASE UNCHANGED shedVars
  BY <1>9 DEF shedVars, vars
<1> QED
  BY <1>2, <1>3, <1>4, <1>5, <1>6, <1>7, <1>8, <1>9 DEF ShedNext

\* Changes to the plan that settle a shard keep the sources' shards in hand.
LEMMA HandKept ==
  ASSUME AllInHand, cluster' = cluster, left \subseteq left', phase' = phase,
         UNCHANGED <<heap, todo>>, phase # "shedding",
         \A g \in Pg : Changed(plan, g) \subseteq Changed(plan', g)
  PROVE  AllInHand'
<1>1. \A s \in Sources : todo[s] = {}
  BY DEF AllInHand
<1>2. \A s : OnSource(s)' = OnSource(s)
  BY DEF OnSource, Shards, UpOf, Up, Slots
<1>3. \A s : \A x \in OnSource(s) : x[1] \in Pg
  BY ShardIs DEF OnSource
<1>4. \A g \in Pg : Changed(plan, g)' = Changed(plan', g)
  BY DEF Changed
<1>5. ASSUME NEW s \in Sources, NEW x \in OnSource(s)
      PROVE  x[2] \in Changed(plan, x[1])' \/ <<s, x>> \in left'
  <2>1. x[2] \in Changed(plan, x[1]) \/ <<s, x>> \in left
    BY <1>1 DEF AllInHand
  <2>2. x[1] \in Pg
    BY <1>3
  <2> QED
    BY <1>4, <2>1, <2>2
<1>6. todo' = todo /\ heap' = heap
  OBVIOUS
<1> QED
  BY <1>1, <1>2, <1>5, <1>6 DEF AllInHand

\* A shard looked at and settled, or no blocker, or of a PG that is stuck, may leave the
\* agenda.
LEMMA AgendaKept ==
  ASSUME AllOnAgenda, PlanTyped(plan), PlanTyped(plan'), cluster' = cluster,
         phase = "resolving", phase' = phase, NEW x \in agenda, agenda' = agenda \ {x},
         stuck \subseteq stuck',
         plan' = plan \/ (Settles(plan, plan', x[1], x[2]) /\ plan.moves[x[1]] # {}),
         plan' = plan => ~Blocker(x[1], x[2]) \/ x[1] \in stuck'
  PROVE  AllOnAgenda'
<1>1. Shards' = Shards
  BY DEF Shards, Slots
<1>2. agenda' \subseteq Shards /\ x = <<x[1], x[2]>>
  BY ShardIs DEF AllOnAgenda
<1>3. ASSUME Cap < BackfillFull, NEW pg \in Pg \ stuck', plan'.moves[pg] # {},
             NEW i \in Slots(cluster, pg) \ Changed(plan', pg), IsBlocker(cluster, plan'.res, pg, i)
      PROVE  <<pg, i>> \in agenda'
  <2>1. CASE plan' = plan
    <3>1. <<pg, i>> \in agenda
      BY <1>3, <2>1 DEF AllOnAgenda
    <3>2. Blocker(pg, i)
      BY <1>3, <2>1 DEF Blocker
    <3>3. <<pg, i>> # x
      BY <1>3, <2>1, <3>2
    <3> QED
      BY <3>1, <3>3
  <2>2. CASE Settles(plan, plan', x[1], x[2]) /\ plan.moves[x[1]] # {}
    <3>1. IsBlocker(cluster, plan.res, pg, i)
      <4>1. \A o \in Osd : plan'.res[o] <= plan.res[o] \/ Util(o, plan'.res[o]) <= Cap
        BY <2>2 DEF Settles
      <4> QED
        BY <1>3, <4>1, NoNewBlocker
    <3>2. plan.moves[pg] # {}
      <4>1. CASE pg = x[1]
        BY <2>2, <4>1
      <4>2. CASE pg # x[1]
        <5>1. Changed(plan', pg) = Changed(plan, pg)
          BY <2>2, <4>2 DEF Settles
        <5> QED
          BY <1>3, <5>1, MovesChange
      <4> QED
        BY <4>1, <4>2
    <3>3. i \notin Changed(plan, pg)
      BY <1>3, <2>2 DEF Settles
    <3>4. <<pg, i>> \in agenda
      BY <1>3, <3>1, <3>2, <3>3 DEF AllOnAgenda
    <3>5. <<pg, i>> # x
      BY <1>3, <2>2 DEF Settles
    <3> QED
      BY <3>4, <3>5
  <2> QED
    BY <2>1, <2>2
<1>4. \A pg, i : IsBlocker(cluster, plan.res, pg, i)' <=> IsBlocker(cluster, plan'.res, pg, i)
  BY DEF IsBlocker, Arriving, ActingOf, UpOsds, ActingOsds, Up
<1>5. \A pg : Changed(plan, pg)' = Changed(plan', pg) /\ Slots(cluster, pg)' = Slots(cluster, pg)
  BY DEF Changed, Slots
<1> QED
  BY <1>1, <1>2, <1>3, <1>4, <1>5 DEF AllOnAgenda

\* A shard shed leaves the others in hand.
LEMMA ShedShardKeeps ==
  ASSUME ShedInv, NEW e \in heap, NEW x \in todo[e.source], ShedShard(e, x)
  PROVE  AllInHand'
<1>1. PICK s \in Sources : s = e.source
  BY DEF ShedInv, AllInHand
<1>2. PICK ahead : ahead = {y \in todo[s] : Sooner(y, x)}
  OBVIOUS
<1>3. /\ phase = "shedding" /\ phase' = phase /\ cluster' = cluster
      /\ left' = left \union PassedOver(e, ahead)
      /\ todo' = [todo EXCEPT ![s] = @ \ (ahead \union {x})]
      /\ heap' = (heap \ {e}) \union {PushedBack(e, plan')}
  BY <1>1, <1>2 DEF ShedShard, Turn
<1>4. PushedBack(e, plan').source = s
  BY <1>1 DEF PushedBack, Priority
<1>5. Settles(plan, plan', x[1], x[2])
  BY ShedShardIs
<1>6. AllInHand /\ x \in OnSource(s) /\ x \in todo[s]
  BY <1>1 DEF ShedInv, AllInHand
<1>7. \A v : OnSource(v)' = OnSource(v)
  BY <1>3 DEF OnSource, Shards, UpOf, Up, Slots
<1>8. \A g : Changed(plan, g)' = Changed(plan', g)
  BY DEF Changed
<1>9. \A v \in Sources : \A y \in OnSource(v) :
        /\ y[1] \in Pg /\ y = <<y[1], y[2]>> /\ UpOf(y[1], y[2]) = v
  BY ShardIs DEF OnSource
<1>10. \A v \in Sources : todo'[v] = IF v = s THEN todo[s] \ (ahead \union {x}) ELSE todo[v]
  BY <1>3, <1>6 DEF AllInHand
<1>11. \A f \in heap' : f.source \in Sources
  BY <1>3, <1>4, <1>6 DEF AllInHand
<1>12. \A v \in Sources : todo'[v] = {} \/ \E f \in heap' : f.source = v
  <2> SUFFICES ASSUME NEW v \in Sources, todo'[v] # {} PROVE \E f \in heap' : f.source = v
    OBVIOUS
  <2>1. CASE v = s
    BY <1>3, <1>4, <2>1
  <2>2. CASE v # s
    <3>1. PICK f \in heap : f.source = v
      BY <1>6, <1>10, <2>2 DEF AllInHand
    <3> QED
      BY <1>1, <1>3, <2>2, <3>1
  <2> QED
    BY <2>1, <2>2
<1>13. ASSUME NEW v \in Sources, NEW y \in todo'[v]
       PROVE  y \in OnSource(v) /\ y[2] \notin Changed(plan', y[1])
  <2>1. y \in todo[v] /\ y \in OnSource(v) /\ y[2] \notin Changed(plan, y[1])
    BY <1>6, <1>10 DEF AllInHand
  <2>2. y # x
    BY <1>6, <1>9, <1>10, <2>1
  <2>3. CASE y[1] = x[1]
    <3>1. y[2] # x[2]
      BY <1>6, <1>9, <2>1, <2>2, <2>3
    <3>2. Changed(plan', x[1]) \subseteq Changed(plan, x[1]) \union {x[2]}
      <4>1. \E role, t : plan' = Commit(plan, x[1], x[2], t, role)
        BY DEF ShedShard
      <4>2. PICK role, t : plan' = Commit(plan, x[1], x[2], t, role)
        BY <4>1
      <4>3. PlanTyped(plan) /\ x[1] \in Pg
        BY <1>6, <1>9, BooksGive DEF ShedInv
      <4>4. plan'.moves[x[1]] = plan.moves[x[1]] \union {CommittedMove(x[2], t, role)}
        BY <4>2, <4>3 DEF Commit, PlanTyped
      <4> QED
        BY <4>4 DEF Changed, CommittedMove
    <3> QED
      BY <2>1, <2>3, <3>1, <3>2
  <2>4. CASE y[1] # x[1]
    <3>1. Changed(plan', y[1]) = Changed(plan, y[1])
      BY <1>5, <1>9, <2>1, <2>4 DEF Settles
    <3> QED
      BY <2>1, <3>1
  <2> QED
    BY <2>1, <2>3, <2>4
<1>14. ASSUME NEW v \in Sources, NEW y \in OnSource(v)
       PROVE  y[2] \in Changed(plan', y[1]) \/ <<v, y>> \in left' \/ y \in todo'[v]
  <2>1. y[2] \in Changed(plan, y[1]) \/ <<v, y>> \in left \/ y \in todo[v]
    BY <1>6 DEF AllInHand
  <2>2. Changed(plan, y[1]) \subseteq Changed(plan', y[1])
    BY <1>5, <1>9 DEF Settles
  <2>3. CASE y \in todo[v] /\ v = s /\ y \in ahead
    <3>1. <<v, y>> \in PassedOver(e, ahead)
      BY <1>1, <2>3 DEF PassedOver
    <3> QED
      BY <1>3, <3>1
  <2>4. CASE y \in todo[v] /\ v = s /\ y = x
    BY <1>5, <2>4 DEF Settles
  <2>5. CASE y \in todo[v] /\ (v # s \/ (y \notin ahead /\ y # x))
    BY <1>10, <2>5
  <2>6. CASE <<v, y>> \in left
    BY <1>3, <2>6
  <2> QED
    BY <2>1, <2>2, <2>3, <2>4, <2>5, <2>6
<1>15. DOMAIN todo' = Sources
  BY <1>3, <1>6 DEF AllInHand
<1> QED
  BY <1>3, <1>7, <1>8, <1>11, <1>12, <1>13, <1>14, <1>15 DEF AllInHand

\* A source dropped leaves its shards reported.
LEMMA DropSourceKeeps ==
  ASSUME AllInHand, NEW e \in heap, DropSource(e)
  PROVE  AllInHand'
<1>1. PICK s \in Sources : s = e.source
  BY DEF AllInHand
<1>2. /\ phase = "shedding" /\ phase' = phase /\ cluster' = cluster /\ plan' = plan
      /\ left' = left \union PassedOver(e, todo[s])
      /\ todo' = [todo EXCEPT ![s] = {}]
      /\ heap' = heap \ {e}
  BY <1>1 DEF DropSource, Turn
<1>3. \A v : OnSource(v)' = OnSource(v)
  BY <1>2 DEF OnSource, Shards, UpOf, Up, Slots
<1>4. \A g : Changed(plan, g)' = Changed(plan, g)
  BY <1>2 DEF Changed
<1>5. DOMAIN todo' = Sources /\ \A v \in Sources : todo'[v] = IF v = s THEN {} ELSE todo[v]
  BY <1>2 DEF AllInHand
<1>6. \A f \in heap' : f.source \in Sources
  BY <1>2 DEF AllInHand
<1>7. \A v \in Sources : todo'[v] = {} \/ \E f \in heap' : f.source = v
  <2> SUFFICES ASSUME NEW v \in Sources, v # s, todo[v] # {} PROVE \E f \in heap' : f.source = v
    BY <1>5
  <2>1. PICK f \in heap : f.source = v
    BY DEF AllInHand
  <2> QED
    BY <1>1, <1>2, <2>1
<1>8. ASSUME NEW v \in Sources, NEW y \in todo'[v]
      PROVE  y \in OnSource(v) /\ y[2] \notin Changed(plan, y[1])
  BY <1>5 DEF AllInHand
<1>9. ASSUME NEW v \in Sources, NEW y \in OnSource(v)
      PROVE  y[2] \in Changed(plan, y[1]) \/ <<v, y>> \in left' \/ y \in todo'[v]
  <2>1. y[2] \in Changed(plan, y[1]) \/ <<v, y>> \in left \/ y \in todo[v]
    BY DEF AllInHand
  <2>2. CASE y \in todo[v] /\ v = s
    <3>1. <<v, y>> \in PassedOver(e, todo[s])
      BY <1>1, <2>2 DEF PassedOver
    <3> QED
      BY <1>2, <3>1
  <2>3. CASE y \in todo[v] /\ v # s
    BY <1>5, <2>3
  <2> QED
    BY <1>2, <2>1, <2>2, <2>3
<1> QED
  BY <1>2, <1>3, <1>4, <1>5, <1>6, <1>7, <1>8, <1>9 DEF AllInHand

\* The agenda holds every blocker there is when the sources are shed.
LEMMA EndSheddingKeeps ==
  ASSUME AllInHand, AllOnAgenda, EndShedding
  PROVE  AllInHand' /\ AllOnAgenda'
<1>1. /\ phase' = "resolving" /\ heap = {} /\ plan' = plan /\ cluster' = cluster
      /\ heap' = heap /\ todo' = todo /\ left' = left /\ stuck' = stuck
      /\ agenda' = UNION {Siblings(pg) : pg \in {q \in Pg : plan.moves[q] # {}}}
  BY DEF EndShedding
<1>2. \A v : OnSource(v)' = OnSource(v)
  BY <1>1 DEF OnSource, Shards, UpOf, Up, Slots
<1>3. \A g : Changed(plan, g)' = Changed(plan, g)
  BY <1>1 DEF Changed
<1>4. AllInHand'
  BY <1>1, <1>2, <1>3 DEF AllInHand
<1>5. Shards' = Shards
  BY <1>1 DEF Shards, Slots
<1>6. ASSUME NEW pg \in Pg PROVE Siblings(pg) \subseteq Shards
  BY DEF Siblings, Shards
<1>7. agenda' \subseteq Shards
  BY <1>1, <1>6
<1>8. ASSUME NEW pg \in Pg, plan.moves[pg] # {}, NEW i \in Slots(cluster, pg),
             IsBlocker(cluster, plan.res, pg, i)
      PROVE  <<pg, i>> \in agenda'
  <2>1. <<pg, i>> \in Siblings(pg)
    BY <1>8 DEF Siblings, IsBlocker
  <2> QED
    BY <1>1, <1>8, <2>1
<1>9. \A pg, i : IsBlocker(cluster, plan.res, pg, i)' <=> IsBlocker(cluster, plan.res, pg, i)
  BY <1>1 DEF IsBlocker, Arriving, ActingOf, UpOsds, ActingOsds, Up
<1>10. \A pg : Slots(cluster, pg)' = Slots(cluster, pg)
  BY <1>1 DEF Slots
<1>11. AllOnAgenda'
  BY <1>1, <1>3, <1>5, <1>7, <1>8, <1>9, <1>10 DEF AllOnAgenda
<1> QED
  BY <1>4, <1>11

\* A step that changes none of them, but for the phase at the end.
LEMMA RestKeeps ==
  ASSUME AllInHand, AllOnAgenda, Finish \/ UNCHANGED shedVars
  PROVE  AllInHand' /\ AllOnAgenda'
<1>1. /\ plan' = plan /\ cluster' = cluster /\ heap' = heap /\ todo' = todo
      /\ left' = left /\ stuck' = stuck /\ agenda' = agenda
      /\ phase' = phase \/ (phase = "resolving" /\ phase' = "done" /\ agenda = {})
  BY DEF Finish, shedVars
<1>2. \A v : OnSource(v)' = OnSource(v)
  BY <1>1 DEF OnSource, Shards, UpOf, Up, Slots
<1>3. \A g : Changed(plan, g)' = Changed(plan, g)
  BY <1>1 DEF Changed
<1>4. AllInHand'
  BY <1>1, <1>2, <1>3 DEF AllInHand
<1>5. Shards' = Shards /\ \A pg : Slots(cluster, pg)' = Slots(cluster, pg)
  BY <1>1 DEF Shards, Slots
<1>6. \A pg, i : IsBlocker(cluster, plan.res, pg, i)' <=> IsBlocker(cluster, plan.res, pg, i)
  BY <1>1 DEF IsBlocker, Arriving, ActingOf, UpOsds, ActingOsds, Up
<1>7. AllOnAgenda'
  BY <1>1, <1>3, <1>5, <1>6 DEF AllOnAgenda
<1> QED
  BY <1>4, <1>7

\* A look at the agenda's next keeps both.
LEMMA LookKeeps ==
  ASSUME ShedInv, BooksInv', NEW x \in agenda, Look(x[1], x[2]),
         LookPast(x[1], x[2]) \/ DivertBlocker(x[1], x[2]) \/ PinBlockerBack(x[1], x[2])
           \/ PinBlockerAside(x[1], x[2]) \/ GiveUp(x[1], x[2])
  PROVE  AllInHand' /\ AllOnAgenda'
<1>1. x = <<x[1], x[2]>> /\ x[1] \in Pg
  BY ShardIs DEF ShedInv, AllOnAgenda
<1>2. /\ phase = "resolving" /\ phase' = phase /\ cluster' = cluster /\ UNCHANGED <<heap, todo>>
      /\ left' = left /\ agenda' = agenda \ {x}
  BY <1>1 DEF Look
<1>3. stuck \subseteq stuck'
  BY DEF LookPast, DivertBlocker, PinBlockerBack, PinBlockerAside, GiveUp
<1>4. PlanTyped(plan) /\ AllInHand /\ AllOnAgenda
  BY BooksGive DEF ShedInv
<1>5. PlanTyped(plan')
  <2>1. PlanTyped(plan)'
    BY DEF BooksInv, PlanInv, PlanOK
  <2> QED
    BY <1>2, <2>1 DEF PlanTyped, Changed, Slots
<1>6. ASSUME LookPast(x[1], x[2]) \/ GiveUp(x[1], x[2])
      PROVE  plan' = plan /\ (~Blocker(x[1], x[2]) \/ x[1] \in stuck')
  BY <1>6 DEF LookPast, GiveUp
<1>7. ASSUME DivertBlocker(x[1], x[2]) \/ PinBlockerBack(x[1], x[2]) \/ PinBlockerAside(x[1], x[2])
      PROVE  Settles(plan, plan', x[1], x[2]) /\ plan.moves[x[1]] # {} /\ plan' # plan
  <2>1. Settles(plan, plan', x[1], x[2])
    BY <1>7, DivertBlockerIs, PinBlockerBackIs, PinBlockerAsideIs
  <2>2. plan.moves[x[1]] # {} /\ x[2] \notin Changed(plan, x[1])
    BY <1>7 DEF DivertBlocker, PinBlockerBack, PinBlockerAside, NoRoom, Blocker
  <2>3. plan' # plan
    BY <2>1, <2>2 DEF Settles
  <2> QED
    BY <2>1, <2>2, <2>3
<1>8. plan' = plan \/ (Settles(plan, plan', x[1], x[2]) /\ plan.moves[x[1]] # {})
  BY <1>6, <1>7
<1>9. plan' = plan => ~Blocker(x[1], x[2]) \/ x[1] \in stuck'
  BY <1>6, <1>7
<1>10. \A g \in Pg : Changed(plan, g) \subseteq Changed(plan', g)
  BY <1>8 DEF Settles
<1>11. AllInHand'
  BY <1>2, <1>4, <1>10, HandKept
<1>12. AllOnAgenda'
  BY <1>2, <1>3, <1>4, <1>5, <1>8, <1>9, AgendaKept
<1> QED
  BY <1>11, <1>12

\* While sources are shed, nothing is on the agenda's account.
LEMMA AgendaWaits ==
  ASSUME AllOnAgenda, phase = "shedding", phase' = phase, agenda' = agenda, cluster' = cluster
  PROVE  AllOnAgenda'
<1>1. Shards' = Shards
  BY DEF Shards, Slots
<1> QED
  BY <1>1 DEF AllOnAgenda

\* Every step keeps the invariant.
LEMMA ShedKeeps ==
  ASSUME ShedInv, [ShedNext]_shedVars
  PROVE  ShedInv'
<1>1. BooksInv /\ AllInHand /\ AllOnAgenda
  BY DEF ShedInv
<1>2. BooksInv'
  BY <1>1, ShedStep, NextBooks
<1>3. ASSUME NEW e \in heap, NEW x \in todo[e.source], ShedShard(e, x)
      PROVE  AllInHand' /\ AllOnAgenda'
  <2>1. AllInHand'
    BY <1>3, ShedShardKeeps
  <2>2. phase = "shedding" /\ phase' = phase /\ agenda' = agenda /\ cluster' = cluster
    BY <1>3 DEF ShedShard, Turn
  <2>3. AllOnAgenda'
    BY <1>1, <2>2, AgendaWaits
  <2> QED
    BY <2>1, <2>3
<1>4. ASSUME NEW e \in heap, DropSource(e) PROVE AllInHand' /\ AllOnAgenda'
  <2>1. AllInHand'
    BY <1>1, <1>4, DropSourceKeeps
  <2>2. phase = "shedding" /\ phase' = phase /\ agenda' = agenda /\ cluster' = cluster
    BY <1>4 DEF DropSource, Turn
  <2>3. AllOnAgenda'
    BY <1>1, <2>2, AgendaWaits
  <2> QED
    BY <2>1, <2>3
<1>5. ASSUME NEW x \in agenda,
             LookPast(x[1], x[2]) \/ DivertBlocker(x[1], x[2]) \/ PinBlockerBack(x[1], x[2])
               \/ PinBlockerAside(x[1], x[2]) \/ GiveUp(x[1], x[2])
      PROVE  AllInHand' /\ AllOnAgenda'
  <2>1. Look(x[1], x[2])
    BY <1>5 DEF LookPast, DivertBlocker, PinBlockerBack, PinBlockerAside, GiveUp
  <2> QED
    BY <1>2, <1>5, <2>1, LookKeeps
<1>6. ASSUME EndShedding PROVE AllInHand' /\ AllOnAgenda'
  BY <1>1, <1>6, EndSheddingKeeps
<1>7. ASSUME Finish \/ UNCHANGED shedVars PROVE AllInHand' /\ AllOnAgenda'
  BY <1>1, <1>7, RestKeeps
<1>8. AllInHand' /\ AllOnAgenda'
  BY <1>3, <1>4, <1>5, <1>6, <1>7 DEF ShedNext
<1> QED
  BY <1>2, <1>8 DEF ShedInv

\* It holds throughout a run of shed().
LEMMA ShedIsInvariant == ShedSpec => []ShedInv
<1>1. ShedInit => ShedInv
  BY ShedInitOK
<1>2. ShedInv /\ [ShedNext]_shedVars => ShedInv'
  BY ShedKeeps
<1> QED
  BY <1>1, <1>2, PTL DEF ShedSpec

\* What it says of the properties.
LEMMA ShedImplies ==
  ASSUME ShedInv
  PROVE  /\ PlaceFindsBest /\ Accounted
         /\ Cap < BackfillFull => BlockersSettled
<1>1. BooksInv /\ AllInHand /\ AllOnAgenda
  BY DEF ShedInv
<1>2. PlanTyped(plan) /\ \A o \in Sized : plan.final[o] <= plan.res[o]
  BY <1>1, BooksGive
<1>3. PlaceFindsBest
  <2>1. ASSUME NEW x \in Shards
        PROVE  LET legal == {t \in Osd : Legal(plan, x[1], x[2], t, {})}
                   t == Place(plan, x[1], x[2], {})
               IN  IF legal = {} THEN t = None
                   ELSE t \in legal /\ \A o \in legal \ {t} : Less(plan, Size(x[1]), t, o)
    <3>1. PICK pg, i, avoid : pg = x[1] /\ i = x[2] /\ avoid = {} /\ pg \in Pg
      BY ShardIs
    <3>2. PICK legal, t : /\ legal = {o \in Osd : Legal(plan, pg, i, o, avoid)}
                          /\ t = Place(plan, pg, i, avoid)
      OBVIOUS
    <3>3. PlanTyped(plan) /\ (\A o \in Sized : plan.final[o] <= plan.res[o]) /\ pg \in Pg
      BY <1>2, <3>1
    <3>4. /\ legal = {} => t = None
          /\ legal # {} => t \in legal /\ \A o \in legal \ {t} : Less(plan, Size(pg), t, o)
      <4> HIDE StaticsTyped, SettingsTyped
      <4> QED
        BY <3>2, <3>3, PlaceIsBest
    <3> QED
      BY <3>1, <3>2, <3>4
  <2> QED
    BY <2>1 DEF PlaceFindsBest
<1>4. Accounted
  <2> SUFFICES ASSUME phase = "done", NEW s \in Sources, NEW x \in OnSource(s),
                      x[2] \notin Changed(plan, x[1])
               PROVE  <<s, x>> \in Kept \union Unplaceable
    BY DEF Accounted, Done
  <2>1. todo[s] = {}
    BY <1>1 DEF AllInHand
  <2>2. <<s, x>> \in left
    BY <1>1, <2>1 DEF AllInHand
  <2>3. <<s, x>> \in StillLeft
    BY <2>2 DEF StillLeft
  <2> QED
    BY <2>3 DEF Kept, Unplaceable
<1>5. Cap < BackfillFull => BlockersSettled
  BY <1>1 DEF AllOnAgenda, BlockersSettled, Done
<1> QED
  BY <1>3, <1>4, <1>5

-----------------------------------------------------------------------------
\* A run of drain or balance, source by source and blocker by blocker, follows the
\* planner's rules at every step: a target place finds is legal, and a blocker is pinned
\* only when no target is (shed_sources, resolve_blockers).
THEOREM ShedPlans == ShedSpec => PlanSpec
<1>1. ShedInit => PlanInit
  BY DEF ShedInit
<1>2. ShedInv /\ [ShedNext]_shedVars => [PlanNext]_vars
  BY ShedStep
<1> QED
  BY <1>1, <1>2, ShedIsInvariant, PTL DEF ShedSpec, PlanSpec

\* So what the planner's rules promise of a run, shed() keeps.
THEOREM ShedKeepsPromises ==
  ShedSpec => /\ [](TargetsHaveRoom /\ UpSetsValid /\ LevelKept)
              /\ [](AppliedAsPlanned /\ UsageAccounted)
              /\ ReliefKept
<1>1. ShedInv => TargetsHaveRoom /\ UpSetsValid /\ LevelKept
  BY InvImplies DEF ShedInv, BooksInv, PlanInv
<1>2. ShedInv => AppliedAsPlanned /\ UsageAccounted
  BY BooksImply DEF ShedInv, BooksInv, PlanInv
<1> QED
  BY <1>1, <1>2, ShedIsInvariant, ShedPlans, ReliefHolds, PTL

\* place stops at the first candidate that cannot do better, and misses nothing by it
\* (place, best_target).
THEOREM PlaceMissesNothing == ShedSpec => []PlaceFindsBest
<1>1. ShedInv => PlaceFindsBest
  BY ShedImplies
<1> QED
  BY <1>1, ShedIsInvariant, PTL

\* A shard that could be moved off a source is moved, or reported (shed_sources).
THEOREM AllAccounted == ShedSpec => []Accounted
<1>1. ShedInv => Accounted
  BY ShedImplies
<1> QED
  BY <1>1, ShedIsInvariant, PTL

\* With a cap below backfillfull, as by default, a PG with a proposed move keeps no
\* blocker unless it is reported stuck (resolve_blockers).
THEOREM BlockersAreSettled ==
  ASSUME Cap < BackfillFull
  PROVE  ShedSpec => []BlockersSettled
<1>1. ShedInv => BlockersSettled
  BY ShedImplies
<1> QED
  BY <1>1, ShedIsInvariant, PTL

-----------------------------------------------------------------------------
(* Targets only fill up.                                                    *)

\* Every shard moved so far has left a source, for an OSD that is none.
OffSources(p) ==
  \A g \in Pg : \A m \in p.moves[g] : UpOf(g, m.slot) \in Sources /\ m.to \notin Sources

\* A shard left on a source has no legal target, its PG is one that was changed, or the
\* source is done.
Hopeless(p, l) ==
  \/ BelowLevel(p, l[1], 0)
  \/ p.moves[l[2][1]] # {}
  \/ ~\E t \in Osd : Legal(p, l[2][1], l[2][2], t, {})

\* The sources hold less after a move off one of them, and every other OSD no less; no
\* OSD that is no source is promised less room.
LEMMA CommitFills ==
  ASSUME ClusterTyped(cluster), NEW p, PlanTyped(p), NEW pg \in Pg, NEW i \in Slots(cluster, pg),
         UpOf(pg, i) \in Sources, NEW t \in Osd \ Sources, NEW role,
         NEW q, q = Commit(p, pg, i, t, role)
  PROVE  /\ \A o \in Osd : /\ p.final[o] \in Int /\ q.final[o] \in Int
                           /\ p.res[o] \in Int /\ q.res[o] \in Int
         /\ \A s \in Sources : q.final[s] <= p.final[s]
         /\ \A o \in Osd \ Sources : p.final[o] <= q.final[o] /\ p.res[o] <= q.res[o]
<1> DEFINE u == UpOf(pg, i)
<1>1. Size(pg) \in Nat /\ ToCome(cluster, pg, i) \in Int
  BY ClusterFacts
<1>2. ASSUME NEW o \in Osd
      PROVE  /\ q.res[o] = p.res[o] - Cancelled(pg, i, u, o) + Moved(pg, t, o)
             /\ q.final[o] = p.final[o] - Moved(pg, u, o) + Moved(pg, t, o)
             /\ p.res[o] \in Int /\ p.final[o] \in Int
  BY CommitUsage DEF PlanTyped
<1> HIDE DEF u
<1>3. \A o \in Osd : /\ Moved(pg, u, o) \in Nat /\ Moved(pg, t, o) \in Nat
                     /\ Cancelled(pg, i, u, o) \in Int
  BY <1>1 DEF Moved, Cancelled
<1>4. ASSUME NEW o \in Osd \ Sources PROVE Moved(pg, u, o) = 0 /\ Cancelled(pg, i, u, o) = 0
  BY DEF Moved, Cancelled, u
<1>5. ASSUME NEW s \in Sources PROVE Moved(pg, t, s) = 0
  BY DEF Moved
<1>6. \A o \in Osd : /\ p.final[o] \in Int /\ q.final[o] \in Int
                   /\ p.res[o] \in Int /\ q.res[o] \in Int
  BY <1>2, <1>3
<1>7. ASSUME NEW s \in Sources PROVE q.final[s] <= p.final[s]
  <2>1. s \in Osd
    BY SettingsTyped
  <2> QED
    BY <1>2, <1>3, <1>5, <2>1
<1>8. ASSUME NEW o \in Osd \ Sources PROVE p.final[o] <= q.final[o] /\ p.res[o] <= q.res[o]
  BY <1>2, <1>3, <1>4
<1> QED
  BY <1>6, <1>7, <1>8

\* So a target that is legal for a shard of another PG after the move was so before it:
\* it has more room, and the OSDs that it must stay below, which are sources, are fuller.
LEMMA TargetsFillUp ==
  ASSUME ClusterTyped(cluster), NEW p, PlanTyped(p), PlanShape(p), OffSources(p),
         NEW pg \in Pg, NEW i \in Slots(cluster, pg),
         UpOf(pg, i) \in Sources, NEW t \in Osd \ Sources, NEW role,
         NEW q, q = Commit(p, pg, i, t, role), PlanTyped(q),
         NEW g \in Pg, g # pg, NEW j, UpOf(g, j) \in Sources,
         NEW v \in Osd, NEW avoid, Legal(q, g, j, v, avoid)
  PROVE  Legal(p, g, j, v, avoid)
<1>1. /\ \A o \in Osd : /\ p.final[o] \in Int /\ q.final[o] \in Int
                         /\ p.res[o] \in Int /\ q.res[o] \in Int
      /\ \A s \in Sources : q.final[s] <= p.final[s]
      /\ \A o \in Osd \ Sources : p.final[o] <= q.final[o] /\ p.res[o] <= q.res[o]
  BY CommitFills
<1>2. q.newUp[g] = p.newUp[g] /\ q.moves[g] = p.moves[g]
  BY DEF Commit, PlanTyped
<1>3. Relief(p) \subseteq Relief(q)
  BY CommitRelief
<1>4. \A r \in Relief(p) : r[1] \in Sources /\ r[2] \in Osd \ Sources
  <2> SUFFICES ASSUME NEW r \in Relief(p) PROVE r[1] \in Sources /\ r[2] \in Osd \ Sources
    OBVIOUS
  <2>1. PICK h \in Pg : \E m \in p.moves[h] : ~m.pin /\ r = <<UpOf(h, m.slot), m.to>>
    BY ReliefIs
  <2>2. PICK m \in p.moves[h] : r = <<UpOf(h, m.slot), m.to>>
    BY <2>1
  <2>3. m.to \in Osd
    <3>1. m \in MoveRecords
      BY <2>2 DEF PlanTyped
    <3> QED
      BY <3>1 DEF MoveRecords
  <2> QED
    BY <2>2, <2>3 DEF OffSources
<1>5. v \in Osd \ Sources /\ Size(g) \in Int
  BY ClusterFacts DEF Legal
<1>6. PICK u : u = UpOf(g, j) /\ u \in Sources /\ u \in Osd
  BY SettingsTyped
<1>7. PICK size \in Int : size = Size(g)
  BY <1>5
<1>8. ASSUME NEW o \in Osd \ Sources, NEW n \in Int
      PROVE  Util(o, p.final[o] + n) <= Util(o, q.final[o] + n)
  <2>1. PICK a \in Int, b \in Int : a = p.final[o] /\ b = q.final[o] /\ a <= b
    BY <1>1
  <2>2. a + n \in Int /\ b + n \in Int /\ a + n <= b + n
    BY <2>1
  <2> QED
    BY <2>1, <2>2, UtilMonotone
<1>9. ASSUME NEW s \in Sources, NEW n \in Int
      PROVE  Util(s, q.final[s] + n) <= Util(s, p.final[s] + n)
  <2>1. s \in Osd
    BY SettingsTyped
  <2>2. PICK a \in Int, b \in Int : a = q.final[s] /\ b = p.final[s] /\ a <= b
    BY <1>1, <2>1
  <2>3. a + n \in Int /\ b + n \in Int /\ a + n <= b + n
    BY <2>2
  <2> QED
    BY <2>1, <2>2, <2>3, UtilMonotone
<1>10. \A o \in Osd, n \in Int :
         Util(o, p.final[o] + n) \in Int /\ Util(o, q.final[o] + n) \in Int
  <2> SUFFICES ASSUME NEW o \in Osd, NEW n \in Int
               PROVE  Util(o, p.final[o] + n) \in Int /\ Util(o, q.final[o] + n) \in Int
    OBVIOUS
  <2>1. PICK a \in Int, b \in Int : a = p.final[o] /\ b = q.final[o]
    BY <1>1
  <2>2. Weight[o] \in Int /\ a + n \in Int /\ b + n \in Int
    OBVIOUS
  <2> QED
    BY <2>1, <2>2 DEF Util
<1>11. \A o \in Osd : p.final[o] + 0 = p.final[o] /\ q.final[o] + 0 = q.final[o]
  BY <1>1
<1>12. \A o \in Osd \ Sources : FinalUtil(p, o) <= FinalUtil(q, o)
  BY <1>8, <1>11 DEF FinalUtil
<1>13. \A s \in Sources : FinalUtil(q, s) <= FinalUtil(p, s)
  BY <1>9, <1>11, SettingsTyped DEF FinalUtil
<1>14. \A o \in Osd : FinalUtil(p, o) \in Int /\ FinalUtil(q, o) \in Int
  <2>1. \A o \in Osd : Util(o, p.final[o] + 0) \in Int /\ Util(o, q.final[o] + 0) \in Int
    BY <1>10
  <2> QED
    BY <1>11, <2>1 DEF FinalUtil
<1>15. Util(v, p.res[v] + size) <= Cap
  <2>1. Util(v, q.res[v] + size) <= Cap
    BY <1>7 DEF Legal
  <2>2. p.res[v] \in Int /\ q.res[v] \in Int /\ p.res[v] <= q.res[v]
    BY <1>1, <1>5
  <2>4. Cap \in Int
    OBVIOUS
  <2>3. /\ p.res[v] + size \in Int /\ q.res[v] + size \in Int
        /\ p.res[v] + size <= q.res[v] + size
    BY <2>2
  <2> QED
    BY <1>5, <2>1, <2>3, <2>4, UtilBound
<1>16. ASSUME Relieve PROVE KeepsRelief(p, g, j, v)
  <2>1. PICK after, later, before, less :
          /\ after = Util(v, p.final[v] + size) /\ later = Util(v, q.final[v] + size)
          /\ before = Util(u, p.final[u] - size) /\ less = Util(u, q.final[u] - size)
    OBVIOUS
  <2>2. after \in Int /\ later \in Int /\ after <= later
    BY <1>5, <1>8, <1>10, <2>1
  <2>3. before \in Int /\ less \in Int /\ less <= before
    <3>1. PICK minus \in Int : minus = -size
      OBVIOUS
    <3>2. p.final[u] - size = p.final[u] + minus /\ q.final[u] - size = q.final[u] + minus
      BY <1>1, <1>6, <3>1
    <3> QED
      BY <1>6, <1>9, <1>10, <2>1, <3>1, <3>2
  <2>4. /\ u \in Sized =>
             /\ later < less
             /\ \A w \in SentTo(q, u) \intersect Sized : FinalUtil(q, w) < less
        /\ \A w \in Relieved(q, v) \intersect Sized : later < FinalUtil(q, w)
    BY <1>6, <1>7, <1>16, <2>1 DEF Legal, KeepsRelief
  <2>5. ASSUME NEW w \in SentTo(p, u) \intersect Sized, u \in Sized PROVE FinalUtil(p, w) < before
    <3>1. w \in SentTo(q, u)
      BY <1>3 DEF SentTo
    <3>2. w \in Osd \ Sources
      BY <1>4 DEF SentTo
    <3>3. FinalUtil(q, w) < less /\ FinalUtil(p, w) <= FinalUtil(q, w)
      BY <1>12, <2>4, <2>5, <3>1, <3>2
    <3> QED
      BY <1>14, <2>3, <3>2, <3>3
  <2>6. ASSUME NEW w \in Relieved(p, v) \intersect Sized PROVE after < FinalUtil(p, w)
    <3>1. w \in Relieved(q, v)
      BY <1>3 DEF Relieved
    <3>2. w \in Sources /\ w \in Osd
      BY <1>4, SettingsTyped DEF Relieved
    <3> QED
      BY <1>13, <1>14, <2>2, <2>4, <3>1, <3>2
  <2>7. u \in Sized => after < before
    BY <2>2, <2>3, <2>4
  <2> QED
    BY <1>6, <1>7, <2>1, <2>5, <2>6, <2>7 DEF KeepsRelief
<1>17. KeepsLevel(p, g, j, v)
  <2> SUFFICES ASSUME Level # 0, LevelClass # None, ClassOf[UpOf(g, j)] = LevelClass
               PROVE  BelowLevel(p, v, size)
    BY <1>7 DEF KeepsLevel
  <2>1. BelowLevel(q, v, size)
    BY <1>7 DEF Legal, KeepsLevel
  <2> QED
    BY <1>5, <1>8, <1>10, <2>1, SettingsTyped DEF BelowLevel
<1>18. OtherHosts(p, g, j) = OtherHosts(q, g, j)
  BY <1>2 DEF OtherHosts
<1>19. \A added : Chains(p, g, added) <=> Chains(q, g, added)
  BY <1>2 DEF Chains, Pairs
<1> QED
  BY <1>2, <1>7, <1>15, <1>16, <1>17, <1>18, <1>19 DEF Legal

\* What shed() keeps true of the shards it leaves.
LeftInv ==
  /\ \A l \in left : \E s \in Sources : \E y \in OnSource(s) : l = <<s, y>>
  /\ phase = "shedding" => OffSources(plan) /\ \A l \in left : Hopeless(plan, l)

\* What is legal next is so by the plan next.
LEMMA LegalNext ==
  ASSUME cluster' = cluster, NEW pg, NEW i, NEW t, NEW avoid
  PROVE  Legal(plan, pg, i, t, avoid)' <=> Legal(plan', pg, i, t, avoid)
<1>1. \A g, j : UpOf(g, j)' = UpOf(g, j)
  BY DEF UpOf, Up
<1>2. FixedForbidden(cluster, pg)' = FixedForbidden(cluster, pg)
  OBVIOUS
<1>3. OtherHosts(plan, pg, i)' = OtherHosts(plan', pg, i)
  BY <1>1 DEF OtherHosts
<1>4. Relief(plan)' = Relief(plan')
  BY <1>1 DEF Relief
<1>5. KeepsRelief(plan, pg, i, t)' <=> KeepsRelief(plan', pg, i, t)
  BY <1>1, <1>4 DEF KeepsRelief, SentTo, Relieved, FinalUtil
<1>6. KeepsLevel(plan, pg, i, t)' <=> KeepsLevel(plan', pg, i, t)
  BY <1>1 DEF KeepsLevel, BelowLevel
<1>7. Chains(plan, pg, {<<UpOf(pg, i), t>>})' <=> Chains(plan', pg, {<<UpOf(pg, i), t>>})
  <2>1. Pairs(plan, pg)' = Pairs(plan', pg)
    BY <1>1 DEF Pairs
  <2> QED
    BY <1>1, <2>1 DEF Chains, Up
<1> QED
  BY <1>1, <1>2, <1>3, <1>5, <1>6, <1>7 DEF Legal

\* And so are the parts of the invariant.
LEMMA LeftNext ==
  ASSUME cluster' = cluster
  PROVE  /\ OffSources(plan)' <=> OffSources(plan')
         /\ \A l : Hopeless(plan, l)' <=> Hopeless(plan', l)
         /\ \A s : OnSource(s)' = OnSource(s)
<1>1. OffSources(plan)' <=> OffSources(plan')
  BY DEF OffSources, UpOf, Up
<1>2. ASSUME NEW l PROVE Hopeless(plan, l)' <=> Hopeless(plan', l)
  <2>1. \A t : Legal(plan, l[2][1], l[2][2], t, {})' <=> Legal(plan', l[2][1], l[2][2], t, {})
    BY LegalNext
  <2> QED
    BY <2>1 DEF Hopeless, BelowLevel
<1>3. \A s : OnSource(s)' = OnSource(s)
  BY DEF OnSource, Shards, UpOf, Up, Slots
<1> QED
  BY <1>1, <1>2, <1>3

\* A hopeless shard stays so when one is moved off a source: one of its PG makes it
\* excused, and any other only fills targets up.
LEMMA HopelessStays ==
  ASSUME ClusterTyped(cluster), NEW p, PlanTyped(p), PlanShape(p), OffSources(p),
         NEW pg \in Pg, NEW i \in Slots(cluster, pg),
         UpOf(pg, i) \in Sources, NEW t \in Osd \ Sources, NEW role,
         NEW q, q = Commit(p, pg, i, t, role), PlanTyped(q),
         NEW s \in Sources, NEW y \in OnSource(s), Hopeless(p, <<s, y>>)
  PROVE  Hopeless(q, <<s, y>>)
<1>1. y[1] \in Pg /\ UpOf(y[1], y[2]) = s
  BY ShardIs DEF OnSource
<1>2. \A g \in Pg : p.moves[g] \subseteq q.moves[g]
  BY DEF Commit, PlanTyped
<1>3. q.moves[pg] # {}
  BY DEF Commit, PlanTyped
<1>4. CASE BelowLevel(p, s, 0)
  <2>1. q.final[s] <= p.final[s] /\ s \in Osd /\ p.final[s] \in Int
    BY CommitFills, SettingsTyped
  <2>2. q.final[s] <= p.final[s] + 0 /\ 0 \in Nat
    BY <2>1
  <2>3. BelowLevel(q, s, 0)
    BY <1>4, <2>1, <2>2, BelowLevelStays
  <2> QED
    BY <2>3 DEF Hopeless
<1>5. CASE p.moves[y[1]] # {}
  BY <1>1, <1>2, <1>5 DEF Hopeless
<1>6. CASE y[1] = pg
  BY <1>3, <1>6 DEF Hopeless
<1>7. CASE y[1] # pg /\ ~\E v \in Osd : Legal(p, y[1], y[2], v, {})
  <2>1. PICK g, j, avoid : g = y[1] /\ j = y[2] /\ avoid = {}
    OBVIOUS
  <2>2. g \in Pg /\ g # pg /\ UpOf(g, j) \in Sources
    BY <1>1, <1>7, <2>1
  <2>3. ASSUME NEW v \in Osd, Legal(q, g, j, v, avoid) PROVE Legal(p, g, j, v, avoid)
    BY <2>2, <2>3, TargetsFillUp
  <2> QED
    BY <1>7, <2>1, <2>3 DEF Hopeless
<1> QED
  BY <1>4, <1>5, <1>6, <1>7 DEF Hopeless

\* A shard passed over had no target.
LEMMA LeftShed ==
  ASSUME ShedInv, LeftInv, NEW e \in heap, NEW x \in todo[e.source], ShedShard(e, x),
         PlanTyped(plan')
  PROVE  LeftInv'
<1>1. PICK s \in Sources : s = e.source
  BY DEF ShedInv, AllInHand
<1> PICK pg, i, avoid, role : pg = x[1] /\ i = x[2] /\ avoid = {} /\ role = "requested"
  OBVIOUS
<1>2. PICK t : t = Place(plan, pg, i, avoid)
  OBVIOUS
<1>3. PICK ahead : ahead = {y \in todo[s] : Sooner(y, x)}
  OBVIOUS
<1>4. /\ phase = "shedding" /\ cluster' = cluster /\ t # None
      /\ left' = left \union PassedOver(e, ahead)
      /\ plan' = Commit(plan, pg, i, t, role)
      /\ \A y \in ahead : Place(plan, y[1], y[2], {}) = None
  BY <1>1, <1>2, <1>3 DEF ShedShard, Turn
<1>5. BooksInv /\ x \in OnSource(s) /\ ahead \subseteq OnSource(s)
  BY <1>1, <1>3 DEF ShedInv, AllInHand
<1>6. pg \in Pg /\ i \in Slots(cluster, pg) /\ UpOf(pg, i) = s
  BY <1>2, <1>5, ShardIs DEF OnSource
<1>7. ClusterTyped(cluster) /\ PlanTyped(plan) /\ PlanShape(plan) /\ OffSources(plan)
  BY <1>4, <1>5, BooksGive DEF LeftInv, BooksInv, PlanInv, PlanOK
<1>8. t \in Osd \ Sources
  <2>1. t \in Osd /\ Legal(plan, pg, i, t, avoid)
    BY <1>2, <1>4, <1>6, <1>7, PlaceHasRoom
  <2> QED
    BY <2>1 DEF Legal
<1>9. OffSources(plan')
  <2> SUFFICES ASSUME NEW g \in Pg, NEW m \in plan'.moves[g], m \notin plan.moves[g]
               PROVE  UpOf(g, m.slot) \in Sources /\ m.to \notin Sources
    BY <1>7 DEF OffSources
  <2>1. g = pg /\ m = CommittedMove(i, t, role)
    BY <1>4, <1>7 DEF Commit, PlanTyped
  <2> QED
    BY <1>6, <1>8, <2>1 DEF CommittedMove
<1>10. PassedOver(e, ahead) = {<<s, y>> : y \in ahead}
  BY <1>1 DEF PassedOver
<1>11. ASSUME NEW y \in ahead PROVE Hopeless(plan, <<s, y>>)
  <2>1. y[1] \in Pg
    BY <1>5, ShardIs DEF OnSource
  <2>2. ~\E v \in Osd : Legal(plan, y[1], y[2], v, {})
    BY <1>4, <1>5, <2>1, NoTarget
  <2> QED
    BY <2>2 DEF Hopeless
<1>12. \A l \in left' : \E v \in Sources : \E y \in OnSource(v) :
         l = <<v, y>> /\ Hopeless(plan, l)
  BY <1>4, <1>5, <1>10, <1>11 DEF LeftInv
<1>13. ASSUME NEW l \in left'
       PROVE  /\ \E v \in Sources : \E y \in OnSource(v) : l = <<v, y>>
              /\ Hopeless(plan', l)
  <2>1. PICK v \in Sources : \E y \in OnSource(v) : l = <<v, y>> /\ Hopeless(plan, l)
    BY <1>12
  <2>2. PICK y \in OnSource(v) : l = <<v, y>> /\ Hopeless(plan, l)
    BY <2>1
  <2>3. Hopeless(plan', <<v, y>>)
    BY <1>4, <1>6, <1>7, <1>8, <2>2, HopelessStays
  <2> QED
    BY <2>2, <2>3
<1> QED
  BY <1>4, <1>9, <1>13, LeftNext DEF LeftInv

\* Nor has one of a source that is dropped, unless the source is done.
LEMMA LeftDropped ==
  ASSUME ShedInv, LeftInv, NEW e \in heap, DropSource(e)
  PROVE  LeftInv'
<1>1. PICK s \in Sources : s = e.source
  BY DEF ShedInv, AllInHand
<1>2. /\ phase = "shedding" /\ cluster' = cluster /\ plan' = plan
      /\ left' = left \union PassedOver(e, todo[s])
      /\ BelowLevel(plan, s, 0) \/ \A y \in todo[s] : Place(plan, y[1], y[2], {}) = None
  BY <1>1 DEF DropSource, Turn, OverLevel
<1>3. BooksInv /\ todo[s] \subseteq OnSource(s)
  BY DEF ShedInv, AllInHand
<1>4. PassedOver(e, todo[s]) = {<<s, y>> : y \in todo[s]}
  BY <1>1 DEF PassedOver
<1>5. ASSUME NEW y \in todo[s] PROVE Hopeless(plan, <<s, y>>)
  <2>1. y[1] \in Pg
    BY <1>3, ShardIs DEF OnSource
  <2>2. CASE BelowLevel(plan, s, 0)
    BY <2>2 DEF Hopeless
  <2>3. CASE Place(plan, y[1], y[2], {}) = None
    <3>1. ~\E v \in Osd : Legal(plan, y[1], y[2], v, {})
      BY <1>3, <2>1, <2>3, NoTarget
    <3> QED
      BY <3>1 DEF Hopeless
  <2> QED
    BY <1>2, <2>2, <2>3
<1>6. ASSUME NEW l \in left'
      PROVE  /\ \E v \in Sources : \E y \in OnSource(v) : l = <<v, y>>
             /\ Hopeless(plan, l)
  BY <1>2, <1>3, <1>4, <1>5 DEF LeftInv
<1>7. OffSources(plan)
  BY <1>2 DEF LeftInv
<1> QED
  BY <1>2, <1>6, <1>7, LeftNext DEF LeftInv

\* It holds at first.
LEMMA LeftInvInit == ShedInit => LeftInv
BY DEF ShedInit, PlanInit, LeftInv, OffSources

\* Every step keeps it.
LEMMA LeftInvKept ==
  ASSUME ShedInv, LeftInv, [ShedNext]_shedVars
  PROVE  LeftInv'
<1>1. ShedInv'
  BY ShedKeeps
<1>2. ASSUME NEW e \in heap, NEW x \in todo[e.source], ShedShard(e, x) PROVE LeftInv'
  <2>1. PlanTyped(plan)'
    BY <1>1, BooksGive DEF ShedInv, BooksInv, PlanInv, PlanOK
  <2>2. cluster' = cluster
    BY <1>2 DEF ShedShard, Turn
  <2>3. PlanTyped(plan')
    BY <2>1, <2>2 DEF PlanTyped, Changed, Slots
  <2> QED
    BY <1>2, <2>3, LeftShed
<1>3. ASSUME NEW e \in heap, DropSource(e) PROVE LeftInv'
  BY <1>3, LeftDropped
<1>4. ASSUME left' = left, cluster' = cluster, phase' # "shedding" PROVE LeftInv'
  BY <1>4, LeftNext DEF LeftInv
<1>5. ASSUME NEW x \in agenda,
             LookPast(x[1], x[2]) \/ DivertBlocker(x[1], x[2]) \/ PinBlockerBack(x[1], x[2])
               \/ PinBlockerAside(x[1], x[2]) \/ GiveUp(x[1], x[2])
      PROVE  LeftInv'
  <2>1. Look(x[1], x[2])
    BY <1>5 DEF LookPast, DivertBlocker, PinBlockerBack, PinBlockerAside, GiveUp
  <2> QED
    BY <1>4, <2>1 DEF Look
<1>6. CASE EndShedding \/ Finish
  BY <1>4, <1>6 DEF EndShedding, Finish
<1>7. CASE UNCHANGED shedVars
  BY <1>7, LeftNext DEF shedVars, LeftInv
<1> QED
  BY <1>2, <1>3, <1>5, <1>6, <1>7 DEF ShedNext

\* Targets only fill up while the sources are shed: a shard passed over gets none later,
\* unless one of its own PG is moved (shed_sources).
THEOREM LeftForGood == ShedSpec => []LeftHasNoTarget
<1>1. ShedInit => ShedInv /\ LeftInv
  BY ShedInitOK, LeftInvInit
<1>2. (ShedInv /\ LeftInv) /\ [ShedNext]_shedVars => (ShedInv /\ LeftInv)'
  BY ShedKeeps, LeftInvKept
<1>3. LeftInv => LeftHasNoTarget
  BY DEF LeftInv, LeftHasNoTarget, Hopeless
<1> QED
  BY <1>1, <1>2, <1>3, PTL DEF ShedSpec
=============================================================================
