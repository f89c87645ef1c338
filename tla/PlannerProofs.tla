---------------------------- MODULE PlannerProofs ----------------------------
(***************************************************************************)
(* The planner's rules, for any cluster and any number of PGs, shards and  *)
(* OSDs.                                                                   *)
(***************************************************************************)
EXTENDS Placing, UpmapProofs, FiniteSetTheorems

USE NoneIsNoOsd, StaticsTyped, SettingsTyped

(* Types of the cluster.                                                    *)

\* What a typed cluster gives of one PG: its sets, sizes and progress.
LEMMA ClusterFacts ==
  ASSUME ClusterTyped(cluster), NEW pg \in Pg
  PROVE  /\ Up(cluster, pg) \in [Slots(cluster, pg) -> Osd \union {None}]
         /\ cluster.acting[pg] \in [Slots(cluster, pg) -> Osd \union {None}]
         /\ UpOsds(cluster, pg) \subseteq Osd
         /\ ActingOsds(cluster, pg) \subseteq Osd
         /\ \A i \in Slots(cluster, pg) : ToCome(cluster, pg, i) \in 0..Size(pg)
         /\ Size(pg) \in Nat
         /\ Slots(cluster, pg) \subseteq Nat
<1>1. /\ cluster.up[pg] \in Seq(Osd \union {None})
      /\ cluster.acting[pg] \in Seq(Osd \union {None})
      /\ DOMAIN cluster.acting[pg] = DOMAIN cluster.up[pg]
      /\ cluster.copied[pg] \in [DOMAIN cluster.up[pg] -> 0..ShardSize[pg]]
  BY DEF ClusterTyped, Slots
<1>2. \A s \in Seq(Osd \union {None}) : s \in [DOMAIN s -> Osd \union {None}]
  OBVIOUS
<1>3. \A s \in Seq(Osd \union {None}) : RealOsds(s) \subseteq Osd
  BY <1>2 DEF RealOsds, IsReal, ToSet
<1>4. ShardSize[pg] \in Nat
  OBVIOUS
<1>5. \A i \in Slots(cluster, pg) : cluster.copied[pg][i] \in 0..ShardSize[pg]
  BY <1>1 DEF Slots
<1>6. \A i \in Slots(cluster, pg) : ToCome(cluster, pg, i) \in 0..Size(pg)
  BY <1>4, <1>5 DEF ToCome, Size
<1>7. Slots(cluster, pg) \subseteq Nat
  <2>1. Slots(cluster, pg) = 1..Len(cluster.up[pg]) /\ Len(cluster.up[pg]) \in Nat
    BY <1>1 DEF Slots
  <2> QED
    BY <2>1
<1> QED
  BY <1>1, <1>2, <1>3, <1>4, <1>6, <1>7 DEF Up, Slots, UpOsds, ActingOsds, Size

\* Adding to a projection leaves it a projection.
LEMMA AddType ==
  ASSUME NEW usage \in [Osd -> Int], NEW o, NEW n \in Int
  PROVE  Add(usage, o, n) \in [Osd -> Int]
<1>1. CASE o \in Sized
  <2>1. o \in Osd /\ usage[o] + n \in Int
    BY <1>1
  <2> QED
    BY <1>1, <2>1 DEF Add
<1>2. CASE o \notin Sized
  BY <1>2 DEF Add
<1> QED
  BY <1>1, <1>2

\* So does moving data between OSDs.
LEMMA ShiftType ==
  ASSUME NEW usage \in [Osd -> Int], NEW from, NEW to, NEW n \in Int
  PROVE  Shift(usage, from, to, n) \in [Osd -> Int]
<1>1. -n \in Int
  OBVIOUS
<1> QED
  BY <1>1, AddType DEF Shift

(* The plan after one of the planner's operations is well typed.            *)

\* Committing a move keeps the plan typed.
LEMMA CommitType ==
  ASSUME ClusterTyped(cluster), NEW p, PlanTyped(p),
         NEW pg \in Pg, NEW i \in Slots(cluster, pg), NEW t \in Osd, NEW role \in Roles
  PROVE  PlanTyped(Commit(p, pg, i, t, role))
<1> DEFINE q == Commit(p, pg, i, t, role)
           u == UpOf(pg, i)
           record == CommittedMove(i, t, role)
<1>1. Size(pg) \in Int /\ ToCome(cluster, pg, i) \in Int
  BY ClusterFacts
<1>2. q.res \in [Osd -> Int] /\ q.final \in [Osd -> Int]
  <2>1. p.res \in [Osd -> Int] /\ p.final \in [Osd -> Int]
    BY DEF PlanTyped
  <2>2. Add(p.res, u, -ToCome(cluster, pg, i)) \in [Osd -> Int]
    BY <1>1, <2>1, AddType
  <2>3. Shift(p.final, u, t, Size(pg)) \in [Osd -> Int]
    BY <1>1, <2>1, ShiftType
  <2> QED
    BY <1>1, <2>1, <2>2, <2>3, AddType DEF Commit
<1>3. /\ q.newUp = [p.newUp EXCEPT ![pg][i] = t]
      /\ q.moves = [p.moves EXCEPT ![pg] = @ \union {record}]
  BY DEF Commit
<1>4. record \in MoveRecords /\ record.slot = i
  <2>1. i \in Nat
    BY ClusterFacts
  <2> QED
    BY <2>1 DEF CommittedMove, MoveRecords
<1>5. q.moves \in [Pg -> SUBSET MoveRecords]
  <2>1. p.moves \in [Pg -> SUBSET MoveRecords]
    BY DEF PlanTyped
  <2>2. p.moves[pg] \union {record} \in SUBSET MoveRecords
    BY <1>4, <2>1
  <2> QED
    BY <1>3, <2>1, <2>2
<1>6. ASSUME NEW g \in Pg
      PROVE  /\ q.newUp[g] \in [Slots(cluster, g) -> Osd \union {None}]
             /\ Changed(q, g) \subseteq Slots(cluster, g)
  <2>1. p.newUp[g] \in [Slots(cluster, g) -> Osd \union {None}]
    BY DEF PlanTyped
  <2>2. \A m \in p.moves[g] : m.slot \in Slots(cluster, g)
    BY DEF PlanTyped, Changed
  <2>3. q.newUp[g] \in [Slots(cluster, g) -> Osd \union {None}]
    BY <1>3, <2>1 DEF PlanTyped
  <2>4. \A m \in q.moves[g] : m.slot \in Slots(cluster, g)
    BY <1>3, <1>4, <2>2 DEF PlanTyped
  <2> QED
    BY <2>3, <2>4 DEF Changed
<1> QED
  BY <1>2, <1>3, <1>5, <1>6 DEF PlanTyped

\* Undoing one does too.
LEMMA UncommitType ==
  ASSUME ClusterTyped(cluster), NEW p, PlanTyped(p), NEW pg \in Pg, NEW m \in p.moves[pg]
  PROVE  PlanTyped(Uncommit(p, pg, m))
<1> DEFINE q == Uncommit(p, pg, m)
<1>1. m.slot \in Slots(cluster, pg)
  BY DEF PlanTyped, Changed
<1>2. Size(pg) \in Int /\ ToCome(cluster, pg, m.slot) \in Int
  BY <1>1, ClusterFacts
<1>3. -Size(pg) \in Int
  BY <1>2
<1>4. q.res \in [Osd -> Int] /\ q.final \in [Osd -> Int]
  BY <1>2, <1>3, AddType, ShiftType DEF Uncommit, PlanTyped
<1>5. /\ q.newUp = [p.newUp EXCEPT ![pg][m.slot] = UpOf(pg, m.slot)]
      /\ q.moves = [p.moves EXCEPT ![pg] = @ \ {m}]
  BY DEF Uncommit
<1>6. UpOf(pg, m.slot) \in Osd \union {None}
  BY <1>1, ClusterFacts DEF UpOf
<1>7. q.moves \in [Pg -> SUBSET MoveRecords]
  BY <1>5 DEF PlanTyped
<1>8. ASSUME NEW g \in Pg
      PROVE  /\ q.newUp[g] \in [Slots(cluster, g) -> Osd \union {None}]
             /\ Changed(q, g) \subseteq Slots(cluster, g)
  BY <1>5, <1>6 DEF PlanTyped, Changed
<1> QED
  BY <1>4, <1>5, <1>7, <1>8 DEF PlanTyped

(* What pinning a blocker back takes: slots of the PG, the blocker's own     *)
(* among them, each with an OSD to go back to.                              *)

\* A blocker's data is on an OSD, or nowhere known.
LEMMA PinSourceType ==
  ASSUME ClusterTyped(cluster), NEW pg \in Pg, NEW i \in Slots(cluster, pg)
  PROVE  PinSource(pg, i) \in Osd \union {None}
<1>1. \A S : TheOnly(S) \in S \union {None}
  <2> SUFFICES ASSUME NEW S, HasOne(S) PROVE (CHOOSE o \in S : TRUE) \in S
    BY DEF TheOnly
  <2>1. PICK o \in S : S = {o}
    BY DEF HasOne
  <2> QED
    BY <2>1
<1>2. TheOnly(ActingOsds(cluster, pg) \ UpOsds(cluster, pg)) \in Osd \union {None}
  BY <1>1, ClusterFacts
<1>3. cluster.acting[pg][i] \in Osd \union {None} /\ Up(cluster, pg)[i] \in Osd \union {None}
  BY ClusterFacts
<1>4. ActingOf(cluster, pg, i) \in Osd \union {None}
  BY <1>2, <1>3 DEF ActingOf
<1> QED
  BY <1>2, <1>4 DEF PinSource

\* The slots of a pin are the PG's, the blocker's among them, and go to OSDs.
LEMMA PinSlotsType ==
  ASSUME ClusterTyped(cluster), NEW p, PlanTyped(p), NEW pg \in Pg,
         NEW i \in Slots(cluster, pg), PinSlots(p, pg, i) # {}
  PROVE  /\ i \in PinSlots(p, pg, i)
         /\ PinSlots(p, pg, i) \subseteq Slots(cluster, pg)
         /\ \A j \in PinSlots(p, pg, i) : PinTo(pg, j) \in Osd
<1> DEFINE P == PinSlots(p, pg, i)
<1>1. DOMAIN p.newUp[pg] = Slots(cluster, pg)
  BY DEF PlanTyped
<1>2. PinSource(pg, i) # None
  BY DEF PinSlots
<1>3. CASE Ec[pg]
  <2>1. P = ClosePins(p.newUp[pg], cluster.acting[pg], {i})
    BY <1>2, <1>3 DEF PinSlots
  <2>2. P \in ValidPins(p.newUp[pg], cluster.acting[pg], {i})
    <3>1. ClosePins(p.newUp[pg], cluster.acting[pg], {i}) # {}
      BY <2>1
    <3>2. ClosePins(p.newUp[pg], cluster.acting[pg], {i})
            \in ValidPins(p.newUp[pg], cluster.acting[pg], {i})
      BY <3>1, ClosePinsIsValid
    <3> QED
      BY <2>1, <3>2
  <2>3. i \in P /\ P \subseteq Slots(cluster, pg)
    BY <1>1, <2>2 DEF ValidPins
  <2>4. \A j \in P : cluster.acting[pg][j] # None
    BY <2>2 DEF ValidPins, CanPin, IsReal
  <2>5. \A j \in P : cluster.acting[pg][j] \in Osd \union {None}
    BY <2>3, ClusterFacts
  <2> QED
    BY <1>3, <2>3, <2>4, <2>5 DEF PinTo
<1>4. CASE ~Ec[pg]
  <2>1. P = {i}
    BY <1>2, <1>4 DEF PinSlots
  <2>2. PinTo(pg, i) \in Osd
    BY <1>2, <1>4, PinSourceType DEF PinTo
  <2> QED
    BY <2>1, <2>2
<1> QED
  BY <1>3, <1>4

\* Pinning back keeps the plan typed.
LEMMA PinBackType ==
  ASSUME ClusterTyped(cluster), NEW p, PlanTyped(p), NEW pg \in Pg,
         NEW i \in Slots(cluster, pg), PinSlots(p, pg, i) # {}
  PROVE  PlanTyped(PinBack(p, pg, i))
<1> DEFINE q == PinBack(p, pg, i)
           P == PinSlots(p, pg, i)
           records == {[slot |-> j, to |-> PinTo(pg, j), pin |-> TRUE, role |-> "blocker"] :
                         j \in P}
           From(o) == {j \in P : UpOf(pg, j) = o}
           To(o) == {j \in P : PinTo(pg, j) = o}
<1>1. P \subseteq Slots(cluster, pg) /\ \A j \in P : PinTo(pg, j) \in Osd
  BY PinSlotsType
<1>2. Size(pg) \in Int /\ \A j \in P : ToCome(cluster, pg, j) \in Int
  BY <1>1, ClusterFacts
<1>3. p.res \in [Osd -> Int] /\ p.final \in [Osd -> Int]
  BY DEF PlanTyped
<1>4. q.res \in [Osd -> Int]
  <2>1. q.res = [o \in Osd |->
                   IF o \in Sized /\ From(o) # {}
                   THEN p.res[o] - ToCome(cluster, pg, CHOOSE j \in From(o) : TRUE)
                   ELSE p.res[o]]
    BY DEF PinBack
  <2>2. \A o \in Osd : From(o) # {} => (CHOOSE j \in From(o) : TRUE) \in P
    OBVIOUS
  <2>3. ASSUME NEW o \in Osd, From(o) # {}
        PROVE  p.res[o] - ToCome(cluster, pg, CHOOSE j \in From(o) : TRUE) \in Int
    BY <1>2, <1>3, <2>2, <2>3
  <2> QED
    BY <1>3, <2>1, <2>3
<1>5. q.final \in [Osd -> Int]
  <2>1. q.final = [o \in Osd |->
                     p.final[o]
                     - (IF o \in Sized /\ From(o) # {} THEN Size(pg) ELSE 0)
                     + (IF o \in Sized /\ To(o) # {} THEN Size(pg) ELSE 0)]
    BY DEF PinBack
  <2> QED
    BY <1>2, <1>3, <2>1
<1>6. /\ q.newUp = [p.newUp EXCEPT
                      ![pg] = [j \in DOMAIN @ |-> IF j \in P THEN PinTo(pg, j) ELSE @[j]]]
      /\ q.moves = [p.moves EXCEPT ![pg] = @ \union records]
  BY DEF PinBack
<1>7. \A m \in records : m \in MoveRecords /\ m.slot \in Slots(cluster, pg)
  <2> SUFFICES ASSUME NEW j \in P
               PROVE  /\ j \in Slots(cluster, pg)
                      /\ [slot |-> j, to |-> PinTo(pg, j), pin |-> TRUE, role |-> "blocker"]
                           \in MoveRecords
    OBVIOUS
  <2>1. j \in Nat /\ PinTo(pg, j) \in Osd
    BY <1>1, ClusterFacts
  <2> QED
    BY <1>1, <2>1 DEF MoveRecords, Roles
<1>8. q.moves \in [Pg -> SUBSET MoveRecords]
  <2>1. p.moves \in [Pg -> SUBSET MoveRecords]
    BY DEF PlanTyped
  <2>2. p.moves[pg] \union records \in SUBSET MoveRecords
    BY <1>7, <2>1
  <2> QED
    BY <1>6, <2>1, <2>2
<1>9. ASSUME NEW g \in Pg
      PROVE  /\ q.newUp[g] \in [Slots(cluster, g) -> Osd \union {None}]
             /\ Changed(q, g) \subseteq Slots(cluster, g)
  <2>1. p.newUp[g] \in [Slots(cluster, g) -> Osd \union {None}]
    BY DEF PlanTyped
  <2>2. \A m \in p.moves[g] : m.slot \in Slots(cluster, g)
    BY DEF PlanTyped, Changed
  <2>3. q.newUp[g] \in [Slots(cluster, g) -> Osd \union {None}]
    BY <1>1, <1>6, <2>1 DEF PlanTyped
  <2>4. \A m \in q.moves[g] : m.slot \in Slots(cluster, g)
    BY <1>6, <1>7, <2>2 DEF PlanTyped
  <2> QED
    BY <2>3, <2>4 DEF Changed
<1> QED
  BY <1>4, <1>5, <1>6, <1>8, <1>9 DEF PlanTyped

(* The plan as a whole: 'newUp' is the up set with the moves applied, a      *)
(* shard has at most one, only pins go to sources, and what was requested   *)
(* comes off one.                                                           *)

PlanShape(p) ==
  \A pg \in Pg :
    /\ \A m \in p.moves[pg] : p.newUp[pg][m.slot] = m.to
    /\ \A i \in Slots(cluster, pg) \ Changed(p, pg) : p.newUp[pg][i] = UpOf(pg, i)
    /\ \A m, n \in p.moves[pg] : m.slot = n.slot => m = n
    /\ \A m \in p.moves[pg] : ~m.pin => m.to \in Usable \ Sources

\* A committed move takes a slot no move had, and 'up' records it.
LEMMA CommitShape ==
  ASSUME NEW p, PlanTyped(p), PlanShape(p), NEW pg \in Pg,
         NEW i \in Slots(cluster, pg), i \notin Changed(p, pg),
         NEW t \in Usable \ Sources, NEW role
  PROVE  PlanShape(Commit(p, pg, i, t, role))
<1> DEFINE q == Commit(p, pg, i, t, role)
           record == CommittedMove(i, t, role)
<1>1. /\ q.newUp = [p.newUp EXCEPT ![pg][i] = t]
      /\ q.moves = [p.moves EXCEPT ![pg] = @ \union {record}]
  BY DEF Commit
<1>2. record.slot = i /\ record.to = t /\ ~record.pin /\ record.role = role
  BY DEF CommittedMove
<1>3. DOMAIN p.newUp = Pg /\ DOMAIN p.moves = Pg
  BY DEF PlanTyped
<1>4. \A m \in p.moves[pg] : m.slot # i
  BY DEF Changed
<1>5. \A m \in p.moves[pg] : m.slot \in DOMAIN p.newUp[pg]
  <2>1. DOMAIN p.newUp[pg] = Slots(cluster, pg) /\ Changed(p, pg) \subseteq Slots(cluster, pg)
    BY DEF PlanTyped
  <2> QED
    BY <2>1 DEF Changed
<1>6. i \in DOMAIN p.newUp[pg]
  BY DEF PlanTyped
<1> SUFFICES ASSUME NEW g \in Pg
             PROVE  /\ \A m \in q.moves[g] : q.newUp[g][m.slot] = m.to
                    /\ \A j \in Slots(cluster, g) \ Changed(q, g) : q.newUp[g][j] = UpOf(g, j)
                    /\ \A m, n \in q.moves[g] : m.slot = n.slot => m = n
                    /\ \A m \in q.moves[g] : ~m.pin => m.to \in Usable \ Sources
  BY DEF PlanShape
<1>7. CASE g # pg
  <2>1. q.newUp[g] = p.newUp[g] /\ q.moves[g] = p.moves[g] /\ Changed(q, g) = Changed(p, g)
    BY <1>1, <1>3, <1>7 DEF Changed
  <2> QED
    BY <2>1 DEF PlanShape
<1>8. CASE g = pg
  <2>1. q.newUp[g] = [p.newUp[pg] EXCEPT ![i] = t] /\ q.moves[g] = p.moves[pg] \union {record}
    BY <1>1, <1>3, <1>8
  <2>2. \A m \in q.moves[g] : q.newUp[g][m.slot] = m.to
    BY <1>2, <1>4, <1>5, <1>6, <1>8, <2>1 DEF PlanShape
  <2>3. Changed(q, g) = Changed(p, g) \union {i}
    BY <1>2, <1>8, <2>1 DEF Changed
  <2>4. \A j \in Slots(cluster, g) \ Changed(q, g) : q.newUp[g][j] = UpOf(g, j)
    <3> SUFFICES ASSUME NEW j \in Slots(cluster, g) \ Changed(q, g)
                 PROVE  q.newUp[g][j] = UpOf(g, j)
      OBVIOUS
    <3>1. j # i /\ j \in Slots(cluster, pg) \ Changed(p, pg)
      BY <1>8, <2>3
    <3> QED
      BY <1>8, <2>1, <3>1 DEF PlanShape
  <2>5. \A m, n \in q.moves[g] : m.slot = n.slot => m = n
    BY <1>2, <1>4, <1>8, <2>1 DEF PlanShape
  <2>6. \A m \in q.moves[g] : ~m.pin => m.to \in Usable \ Sources
    BY <1>2, <1>8, <2>1 DEF PlanShape
  <2> QED
    BY <2>2, <2>4, <2>5, <2>6
<1> QED
  BY <1>7, <1>8

\* Undoing a move gives its slot the shard's up OSD back.
LEMMA UncommitShape ==
  ASSUME NEW p, PlanTyped(p), PlanShape(p), NEW pg \in Pg, NEW m \in p.moves[pg]
  PROVE  /\ PlanShape(Uncommit(p, pg, m))
         /\ m.slot \in Slots(cluster, pg) \ Changed(Uncommit(p, pg, m), pg)
<1> DEFINE q == Uncommit(p, pg, m)
<1>1. /\ q.newUp = [p.newUp EXCEPT ![pg][m.slot] = UpOf(pg, m.slot)]
      /\ q.moves = [p.moves EXCEPT ![pg] = @ \ {m}]
  BY DEF Uncommit
<1>2. DOMAIN p.newUp = Pg /\ DOMAIN p.moves = Pg
  BY DEF PlanTyped
<1>3. m.slot \in Slots(cluster, pg) /\ DOMAIN p.newUp[pg] = Slots(cluster, pg)
  BY DEF PlanTyped, Changed
<1>4. \A n \in p.moves[pg] \ {m} : n.slot # m.slot
  BY DEF PlanShape
<1>5. q.newUp[pg] = [p.newUp[pg] EXCEPT ![m.slot] = UpOf(pg, m.slot)]
      /\ q.moves[pg] = p.moves[pg] \ {m}
  BY <1>1, <1>2
<1>6. Changed(q, pg) = Changed(p, pg) \ {m.slot}
  BY <1>4, <1>5 DEF Changed
<1>7. ASSUME NEW g \in Pg
      PROVE  /\ \A n \in q.moves[g] : q.newUp[g][n.slot] = n.to
             /\ \A j \in Slots(cluster, g) \ Changed(q, g) : q.newUp[g][j] = UpOf(g, j)
             /\ \A n, o \in q.moves[g] : n.slot = o.slot => n = o
             /\ \A n \in q.moves[g] : ~n.pin => n.to \in Usable \ Sources
  <2>1. CASE g # pg
    <3>1. q.newUp[g] = p.newUp[g] /\ q.moves[g] = p.moves[g] /\ Changed(q, g) = Changed(p, g)
      BY <1>1, <1>2, <2>1 DEF Changed
    <3> QED
      BY <3>1 DEF PlanShape
  <2>2. CASE g = pg
    <3>1. \A n \in q.moves[g] : q.newUp[g][n.slot] = n.to
      <4> SUFFICES ASSUME NEW n \in p.moves[pg] \ {m} PROVE q.newUp[pg][n.slot] = n.to
        BY <1>5, <2>2
      <4>1. n.slot # m.slot /\ p.newUp[pg][n.slot] = n.to
        BY <1>4 DEF PlanShape
      <4> QED
        BY <1>5, <4>1
    <3>2. \A j \in Slots(cluster, g) \ Changed(q, g) : q.newUp[g][j] = UpOf(g, j)
      BY <1>3, <1>5, <1>6, <2>2 DEF PlanShape
    <3> QED
      BY <1>5, <2>2, <3>1, <3>2 DEF PlanShape
  <2> QED
    BY <2>1, <2>2
<1> QED
  BY <1>3, <1>6, <1>7 DEF PlanShape

\* Pins take slots no move had, and 'up' records them.
LEMMA PinBackShape ==
  ASSUME ClusterTyped(cluster), NEW p, PlanTyped(p), PlanShape(p), NEW pg \in Pg,
         NEW i \in Slots(cluster, pg), PinSlots(p, pg, i) # {},
         PinSlots(p, pg, i) \intersect Changed(p, pg) = {}
  PROVE  PlanShape(PinBack(p, pg, i))
<1> DEFINE q == PinBack(p, pg, i)
           P == PinSlots(p, pg, i)
           record(j) == [slot |-> j, to |-> PinTo(pg, j), pin |-> TRUE, role |-> "blocker"]
<1>1. /\ q.newUp = [p.newUp EXCEPT
                      ![pg] = [j \in DOMAIN @ |-> IF j \in P THEN PinTo(pg, j) ELSE @[j]]]
      /\ q.moves = [p.moves EXCEPT ![pg] = @ \union {record(j) : j \in P}]
  BY DEF PinBack
<1>2. DOMAIN p.newUp = Pg /\ DOMAIN p.moves = Pg
  BY DEF PlanTyped
<1>3. P \subseteq Slots(cluster, pg) /\ DOMAIN p.newUp[pg] = Slots(cluster, pg)
  BY PinSlotsType DEF PlanTyped
<1>4. q.newUp[pg] = [j \in Slots(cluster, pg) |->
                       IF j \in P THEN PinTo(pg, j) ELSE p.newUp[pg][j]]
      /\ q.moves[pg] = p.moves[pg] \union {record(j) : j \in P}
  BY <1>1, <1>2, <1>3
<1>5. \A n \in p.moves[pg] : n.slot \in Slots(cluster, pg) /\ n.slot \notin P
  BY DEF PlanTyped, Changed
<1>6. Changed(q, pg) = Changed(p, pg) \union P
  <2>1. \A j \in P : record(j).slot = j
    OBVIOUS
  <2>2. \A n \in q.moves[pg] : n \in p.moves[pg] \/ \E j \in P : n = record(j)
    BY <1>4
  <2>3. \A j \in P : record(j) \in q.moves[pg]
    BY <1>4
  <2>4. Changed(p, pg) = {n.slot : n \in p.moves[pg]} /\ Changed(q, pg) = {n.slot : n \in q.moves[pg]}
    BY DEF Changed
  <2>5. p.moves[pg] \subseteq q.moves[pg]
    BY <1>4
  <2> HIDE DEF record, q, P
  <2> QED
    BY <2>1, <2>2, <2>3, <2>4, <2>5
<1>7. ASSUME NEW g \in Pg
      PROVE  /\ \A n \in q.moves[g] : q.newUp[g][n.slot] = n.to
             /\ \A j \in Slots(cluster, g) \ Changed(q, g) : q.newUp[g][j] = UpOf(g, j)
             /\ \A n, o \in q.moves[g] : n.slot = o.slot => n = o
             /\ \A n \in q.moves[g] : ~n.pin => n.to \in Usable \ Sources
  <2>1. CASE g # pg
    <3>1. q.newUp[g] = p.newUp[g] /\ q.moves[g] = p.moves[g] /\ Changed(q, g) = Changed(p, g)
      BY <1>1, <1>2, <2>1 DEF Changed
    <3> QED
      BY <3>1 DEF PlanShape
  <2>2. CASE g = pg
    <3>1. \A n \in q.moves[pg] : q.newUp[pg][n.slot] = n.to
      BY <1>3, <1>4, <1>5 DEF PlanShape
    <3>2. \A j \in Slots(cluster, pg) \ Changed(q, pg) : q.newUp[pg][j] = UpOf(pg, j)
      BY <1>4, <1>6 DEF PlanShape
    <3>3. \A n, o \in q.moves[pg] : n.slot = o.slot => n = o
      <4>1. \A n, o \in p.moves[pg] : n.slot = o.slot => n = o
        BY DEF PlanShape
      <4>2. \A n \in q.moves[pg] :
              \/ n \in p.moves[pg] /\ n.slot \notin P
              \/ n.slot \in P /\ n = record(n.slot)
        BY <1>4, <1>5
      <4> HIDE DEF record, q, P
      <4> QED
        BY <4>1, <4>2
    <3>4. \A n \in q.moves[pg] : ~n.pin => n.to \in Usable \ Sources
      BY <1>4 DEF PlanShape
    <3> QED
      BY <2>2, <3>1, <3>2, <3>3, <3>4
  <2> QED
    BY <2>1, <2>2
<1> QED
  BY <1>7 DEF PlanShape

(* What each operation does to the projections.                             *)

\* More data on an OSD is no lower utilization.
LEMMA UtilMonotone ==
  ASSUME NEW o \in Osd, NEW a \in Int, NEW b \in Int, a <= b
  PROVE  Util(o, a) <= Util(o, b)
<1>1. Weight[o] \in Nat
  OBVIOUS
<1> QED
  BY <1>1, Z3 DEF Util

\* So a limit that holds with more data holds with less.
LEMMA UtilBound ==
  ASSUME NEW o \in Osd, NEW a \in Int, NEW b \in Int, a <= b, NEW limit \in Int
  PROVE  /\ Util(o, b) <= limit => Util(o, a) <= limit
         /\ Util(o, b) < limit => Util(o, a) < limit
<1>1. Weight[o] \in Nat
  OBVIOUS
<1>2. Util(o, a) \in Int /\ Util(o, b) \in Int
  BY <1>1 DEF Util
<1>3. Util(o, a) <= Util(o, b)
  BY UtilMonotone
<1> QED
  BY <1>2, <1>3

\* Adding changes one OSD's projection, if it has one.
LEMMA AddValue ==
  ASSUME NEW usage \in [Osd -> Int], NEW o, NEW n \in Int, NEW x \in Osd
  PROVE  Add(usage, o, n)[x] = usage[x] + (IF x = o /\ o \in Sized THEN n ELSE 0)
BY DEF Add

\* Moving data changes the two OSDs' projections.
LEMMA ShiftValue ==
  ASSUME NEW usage \in [Osd -> Int], NEW from, NEW to, NEW n \in Int, NEW x \in Osd
  PROVE  Shift(usage, from, to, n)[x] =
           usage[x] - (IF x = from /\ from \in Sized THEN n ELSE 0)
                    + (IF x = to /\ to \in Sized THEN n ELSE 0)
<1>1. Add(usage, from, -n) \in [Osd -> Int]
  BY AddType
<1>2. Add(usage, from, -n)[x] = usage[x] + (IF x = from /\ from \in Sized THEN -n ELSE 0)
  BY AddValue
<1>3. Add(Add(usage, from, -n), to, n)[x] =
        Add(usage, from, -n)[x] + (IF x = to /\ to \in Sized THEN n ELSE 0)
  BY <1>1, AddValue
<1>4. usage[x] \in Int
  OBVIOUS
<1> QED
  BY <1>2, <1>3, <1>4 DEF Shift

\* What a shard takes off the reservation of its up OSD u when it goes elsewhere.
Cancelled(pg, i, u, o) ==
  IF Arriving(cluster, pg, i) /\ o = u /\ o \in Sized THEN ToCome(cluster, pg, i) ELSE 0

Moved(pg, a, o) == IF o = a /\ o \in Sized THEN Size(pg) ELSE 0

\* What a committed move reserves and leaves, OSD by OSD.
LEMMA CommitUsage ==
  ASSUME ClusterTyped(cluster), NEW p, PlanTyped(p), NEW pg \in Pg,
         NEW i \in Slots(cluster, pg), NEW t, NEW role, NEW o \in Osd
  PROVE  /\ Commit(p, pg, i, t, role).res[o] =
              p.res[o] - Cancelled(pg, i, UpOf(pg, i), o) + Moved(pg, t, o)
         /\ Commit(p, pg, i, t, role).final[o] =
              p.final[o] - Moved(pg, UpOf(pg, i), o) + Moved(pg, t, o)
<1> DEFINE u == UpOf(pg, i)
           c == IF Arriving(cluster, pg, i) THEN Add(p.res, u, -ToCome(cluster, pg, i)) ELSE p.res
<1>1. /\ Commit(p, pg, i, t, role).res = Add(c, t, Size(pg))
      /\ Commit(p, pg, i, t, role).final = Shift(p.final, u, t, Size(pg))
  BY DEF Commit
<1>2. Size(pg) \in Int /\ ToCome(cluster, pg, i) \in Int /\ -ToCome(cluster, pg, i) \in Int
  BY ClusterFacts
<1>3. p.res \in [Osd -> Int] /\ p.final \in [Osd -> Int]
  BY DEF PlanTyped
<1>4. c \in [Osd -> Int] /\ c[o] = p.res[o] - Cancelled(pg, i, u, o)
  <2>1. CASE Arriving(cluster, pg, i)
    <3>1. c = Add(p.res, u, -ToCome(cluster, pg, i))
      BY <2>1
    <3>2. c \in [Osd -> Int]
      BY <1>2, <1>3, <3>1, AddType
    <3>3. c[o] = p.res[o] + (IF o = u /\ u \in Sized THEN -ToCome(cluster, pg, i) ELSE 0)
      BY <1>2, <1>3, <3>1, AddValue
    <3>4. p.res[o] \in Int
      BY <1>3
    <3> HIDE DEF c, u
    <3> QED
      BY <1>2, <2>1, <3>2, <3>3, <3>4 DEF Cancelled
  <2>2. CASE ~Arriving(cluster, pg, i)
    <3>1. c = p.res /\ p.res[o] \in Int
      BY <1>3, <2>2
    <3> HIDE DEF c, u
    <3> QED
      BY <1>3, <2>2, <3>1 DEF Cancelled
  <2> QED
    BY <2>1, <2>2
<1>5. Add(c, t, Size(pg))[o] = c[o] + (IF o = t /\ t \in Sized THEN Size(pg) ELSE 0)
  BY <1>2, <1>4, AddValue
<1>6. Shift(p.final, u, t, Size(pg))[o] =
        p.final[o] - (IF o = u /\ u \in Sized THEN Size(pg) ELSE 0)
                   + (IF o = t /\ t \in Sized THEN Size(pg) ELSE 0)
  BY <1>2, <1>3, ShiftValue
<1> HIDE DEF c, u
<1>7. Commit(p, pg, i, t, role).res[o] =
        p.res[o] - Cancelled(pg, i, u, o) + Moved(pg, t, o)
  BY <1>1, <1>4, <1>5 DEF Moved
<1>8. Commit(p, pg, i, t, role).final[o] = p.final[o] - Moved(pg, u, o) + Moved(pg, t, o)
  BY <1>1, <1>6 DEF Moved
<1> QED
  BY <1>7, <1>8 DEF u

\* What undoing a move reserves and leaves, OSD by OSD.
LEMMA UncommitUsage ==
  ASSUME ClusterTyped(cluster), NEW p, PlanTyped(p), NEW pg \in Pg,
         NEW m \in p.moves[pg], NEW o \in Osd
  PROVE  /\ Uncommit(p, pg, m).res[o] =
              p.res[o] - Moved(pg, m.to, o) + Cancelled(pg, m.slot, UpOf(pg, m.slot), o)
         /\ Uncommit(p, pg, m).final[o] =
              p.final[o] - Moved(pg, m.to, o) + Moved(pg, UpOf(pg, m.slot), o)
<1> DEFINE u == UpOf(pg, m.slot)
           f == Add(p.res, m.to, -Size(pg))
<1>0. m.slot \in Slots(cluster, pg)
  BY DEF PlanTyped, Changed
<1>1. /\ Uncommit(p, pg, m).res =
           IF Arriving(cluster, pg, m.slot) THEN Add(f, u, ToCome(cluster, pg, m.slot)) ELSE f
      /\ Uncommit(p, pg, m).final = Shift(p.final, m.to, u, Size(pg))
  BY DEF Uncommit
<1>2. Size(pg) \in Int /\ -Size(pg) \in Int /\ ToCome(cluster, pg, m.slot) \in Int
  BY <1>0, ClusterFacts
<1>3. p.res \in [Osd -> Int] /\ p.final \in [Osd -> Int]
  BY DEF PlanTyped
<1>4. f \in [Osd -> Int] /\ f[o] = p.res[o] - Moved(pg, m.to, o)
  <2>1. f[o] = p.res[o] + (IF o = m.to /\ m.to \in Sized THEN -Size(pg) ELSE 0)
    BY <1>2, <1>3, AddValue
  <2>2. f \in [Osd -> Int] /\ p.res[o] \in Int
    BY <1>2, <1>3, AddType
  <2> HIDE DEF f
  <2> QED
    BY <1>2, <2>1, <2>2 DEF Moved
<1> HIDE DEF f
<1>5. Uncommit(p, pg, m).res[o] = f[o] + Cancelled(pg, m.slot, u, o)
  <2>1. CASE Arriving(cluster, pg, m.slot)
    <3>1. Add(f, u, ToCome(cluster, pg, m.slot))[o] =
            f[o] + (IF o = u /\ u \in Sized THEN ToCome(cluster, pg, m.slot) ELSE 0)
      BY <1>2, <1>4, AddValue
    <3> HIDE DEF u
    <3> QED
      BY <1>1, <2>1, <3>1 DEF Cancelled
  <2>2. CASE ~Arriving(cluster, pg, m.slot)
    <3>1. f[o] \in Int
      BY <1>4
    <3> QED
      BY <1>1, <2>2, <3>1 DEF Cancelled
  <2> QED
    BY <2>1, <2>2
<1> HIDE DEF u
<1>6. Shift(p.final, m.to, u, Size(pg))[o] =
        p.final[o] - (IF o = m.to /\ m.to \in Sized THEN Size(pg) ELSE 0)
                   + (IF o = u /\ u \in Sized THEN Size(pg) ELSE 0)
  BY <1>2, <1>3, ShiftValue
<1>7. Uncommit(p, pg, m).final[o] = p.final[o] - Moved(pg, m.to, o) + Moved(pg, u, o)
  BY <1>1, <1>6 DEF Moved
<1> QED
  BY <1>4, <1>5, <1>7 DEF u

\* Moving a proposed move elsewhere frees its target and nothing else.
LEMMA RePlacedUsage ==
  ASSUME ClusterTyped(cluster), NEW p, PlanTyped(p), NEW pg \in Pg, NEW i,
         NEW m \in p.moves[pg], NEW t, NEW o \in Osd
  PROVE  /\ RePlaced(p, pg, i, m, t).res[o] =
              p.res[o] - Moved(pg, m.to, o) + Moved(pg, t, o)
         /\ RePlaced(p, pg, i, m, t).final[o] =
              p.final[o] - Moved(pg, m.to, o) + Moved(pg, t, o)
<1> DEFINE q == Uncommit(p, pg, m)
           u == UpOf(pg, m.slot)
<1>1. PlanTyped(q)
  BY UncommitType
<1>2. m.slot \in Slots(cluster, pg)
  BY DEF PlanTyped, Changed
<1>3. /\ RePlaced(p, pg, i, m, t).res[o] =
           q.res[o] - Cancelled(pg, m.slot, u, o) + Moved(pg, t, o)
      /\ RePlaced(p, pg, i, m, t).final[o] = q.final[o] - Moved(pg, u, o) + Moved(pg, t, o)
  BY <1>1, <1>2, CommitUsage DEF RePlaced
<1>4. /\ q.res[o] = p.res[o] - Moved(pg, m.to, o) + Cancelled(pg, m.slot, u, o)
      /\ q.final[o] = p.final[o] - Moved(pg, m.to, o) + Moved(pg, u, o)
  BY UncommitUsage
<1>5. /\ p.res[o] \in Int /\ p.final[o] \in Int
      /\ \A a : Moved(pg, a, o) \in Int
      /\ Cancelled(pg, m.slot, u, o) \in Int
  BY <1>2, ClusterFacts DEF PlanTyped, Moved, Cancelled
<1> HIDE DEF q, u
<1> QED
  BY <1>3, <1>4, <1>5

\* A pin reserves nothing, and only its shards' OSDs change.
LEMMA PinBackUsage ==
  ASSUME ClusterTyped(cluster), NEW p, PlanTyped(p), NEW pg \in Pg,
         NEW i \in Slots(cluster, pg), PinSlots(p, pg, i) # {}, NEW o \in Osd
  PROVE  /\ PinBack(p, pg, i).res[o] <= p.res[o]
         /\ PinBack(p, pg, i).final[o] <=
              p.final[o]
              + (IF \E j \in PinSlots(p, pg, i) : PinTo(pg, j) = o THEN Size(pg) ELSE 0)
<1> DEFINE P == PinSlots(p, pg, i)
           From == {j \in P : UpOf(pg, j) = o}
           To == {j \in P : PinTo(pg, j) = o}
           k == CHOOSE j \in From : TRUE
<1>1. p.res[o] \in Int /\ p.final[o] \in Int /\ Size(pg) \in Nat
  BY ClusterFacts DEF PlanTyped
<1>2. P \subseteq Slots(cluster, pg)
  BY PinSlotsType
<1>3. From # {} => ToCome(cluster, pg, k) \in Nat
  <2> SUFFICES ASSUME From # {} PROVE ToCome(cluster, pg, k) \in Nat
    OBVIOUS
  <2>1. k \in Slots(cluster, pg)
    BY <1>2
  <2>2. ToCome(cluster, pg, k) \in 0..Size(pg)
    BY <2>1, ClusterFacts
  <2> QED
    BY <1>1, <2>2
<1>4. PinBack(p, pg, i).res[o] =
        IF o \in Sized /\ From # {} THEN p.res[o] - ToCome(cluster, pg, k) ELSE p.res[o]
  BY DEF PinBack
<1>5. PinBack(p, pg, i).final[o] =
        p.final[o] - (IF o \in Sized /\ From # {} THEN Size(pg) ELSE 0)
                   + (IF o \in Sized /\ To # {} THEN Size(pg) ELSE 0)
  BY DEF PinBack
<1>6. To # {} <=> \E j \in P : PinTo(pg, j) = o
  OBVIOUS
<1> HIDE DEF P, From, To, k
<1>7. PinBack(p, pg, i).res[o] <= p.res[o]
  BY <1>1, <1>3, <1>4
<1>8. PinBack(p, pg, i).final[o] <= p.final[o] + (IF To # {} THEN Size(pg) ELSE 0)
  BY <1>1, <1>5
<1> QED
  BY <1>6, <1>7, <1>8 DEF P

(* Room: the reservation of a target never passes the cap.                  *)

Room(p) ==
  \A pg \in Pg : \A m \in p.moves[pg] : ~m.pin => Util(m.to, p.res[m.to]) <= Cap

\* 'q' proposes no new move except onto t, and reserves no more anywhere but there.
LEMMA RoomStep ==
  ASSUME NEW p, PlanTyped(p), Room(p), NEW q, PlanTyped(q), NEW t \in Osd,
         \A g \in Pg : \A m \in q.moves[g] : m \in p.moves[g] \/ m.pin \/ m.to = t,
         \A o \in Osd \ {t} : q.res[o] <= p.res[o],
         Util(t, q.res[t]) <= Cap
  PROVE  Room(q)
<1> SUFFICES ASSUME NEW g \in Pg, NEW m \in q.moves[g], ~m.pin
             PROVE  Util(m.to, q.res[m.to]) <= Cap
  BY DEF Room
<1>1. CASE m.to = t
  BY <1>1
<1>2. CASE m.to # t
  <2>1. m \in p.moves[g] /\ m.to \in Osd
    BY <1>2 DEF PlanTyped, MoveRecords
  <2>2. q.res[m.to] \in Int /\ p.res[m.to] \in Int /\ q.res[m.to] <= p.res[m.to]
    BY <1>2, <2>1 DEF PlanTyped
  <2>3. Cap \in Int
    OBVIOUS
  <2> HIDE StaticsTyped, SettingsTyped
  <2>4. Util(m.to, p.res[m.to]) <= Cap
    BY <2>1 DEF Room
  <2> QED
    BY <2>1, <2>2, <2>3, <2>4, UtilBound
<1> QED
  BY <1>1, <1>2

\* What one move takes off an OSD is at most a shard.
LEMMA MovedType ==
  ASSUME ClusterTyped(cluster), NEW pg \in Pg, NEW a, NEW o
  PROVE  /\ Moved(pg, a, o) \in Nat
         /\ Moved(pg, a, o) <= Size(pg)
         /\ a # o => Moved(pg, a, o) = 0
BY ClusterFacts DEF Moved

\* The backfill a pin cancels is not negative.
LEMMA CancelledType ==
  ASSUME ClusterTyped(cluster), NEW pg \in Pg, NEW i \in Slots(cluster, pg), NEW u, NEW o
  PROVE  Cancelled(pg, i, u, o) \in Nat
<1>1. ToCome(cluster, pg, i) \in 0..Size(pg) /\ Size(pg) \in Nat
  BY ClusterFacts
<1>2. ToCome(cluster, pg, i) \in Nat
  BY <1>1
<1> QED
  BY <1>2 DEF Cancelled

\* A move onto an OSD with room for the shard reserves more on that OSD alone, and
\* leaves it below the cap.
LEMMA CommitReserves ==
  ASSUME ClusterTyped(cluster), NEW p, PlanTyped(p), NEW pg \in Pg,
         NEW i \in Slots(cluster, pg), NEW t \in Osd, NEW role \in Roles,
         Util(t, p.res[t] + Size(pg)) <= Cap
  PROVE  /\ \A o \in Osd \ {t} : Commit(p, pg, i, t, role).res[o] <= p.res[o]
         /\ Util(t, Commit(p, pg, i, t, role).res[t]) <= Cap
<1> DEFINE q == Commit(p, pg, i, t, role)
           u == UpOf(pg, i)
<1>1. PlanTyped(q)
  BY CommitType
<1>2. \A o \in Osd : q.res[o] = p.res[o] - Cancelled(pg, i, u, o) + Moved(pg, t, o)
  BY CommitUsage
<1>3. \A o \in Osd : Cancelled(pg, i, u, o) \in Nat /\ Moved(pg, t, o) \in Nat
                    /\ Moved(pg, t, o) <= Size(pg) /\ (t # o => Moved(pg, t, o) = 0)
  BY MovedType, CancelledType
<1>4. \A o \in Osd : p.res[o] \in Int /\ q.res[o] \in Int
  BY <1>1 DEF PlanTyped
<1>6. Size(pg) \in Int /\ Cap \in Int
  BY ClusterFacts
<1> HIDE DEF q, u
<1>7. \A o \in Osd \ {t} : q.res[o] <= p.res[o]
  BY <1>2, <1>3, <1>4
<1>8. Util(t, q.res[t]) <= Cap
  <2>1. q.res[t] <= p.res[t] + Size(pg)
    <3>1. q.res[t] = p.res[t] - Cancelled(pg, i, u, t) + Moved(pg, t, t)
      BY <1>2
    <3>2. /\ Cancelled(pg, i, u, t) \in Nat
          /\ Moved(pg, t, t) \in Nat /\ Moved(pg, t, t) <= Size(pg)
      BY <1>3
    <3> HIDE StaticsTyped, SettingsTyped
    <3> QED
      BY <1>4, <1>6, <3>1, <3>2
  <2>2. q.res[t] \in Int /\ p.res[t] + Size(pg) \in Int
    BY <1>4, <1>6
  <2> QED
    BY <1>6, <2>1, <2>2, UtilBound
<1> QED
  BY <1>7, <1>8 DEF q

\* So it leaves room everywhere.
LEMMA CommitRoom ==
  ASSUME ClusterTyped(cluster), NEW p, PlanTyped(p), Room(p), NEW pg \in Pg,
         NEW i \in Slots(cluster, pg), NEW t \in Osd, NEW role \in Roles,
         Util(t, p.res[t] + Size(pg)) <= Cap
  PROVE  Room(Commit(p, pg, i, t, role))
<1> DEFINE q == Commit(p, pg, i, t, role)
<1>1. PlanTyped(q)
  BY CommitType
<1>2. \A g \in Pg : \A m \in q.moves[g] : m \in p.moves[g] \/ m.to = t
  BY DEF Commit, CommittedMove, PlanTyped
<1>3. (\A o \in Osd \ {t} : q.res[o] <= p.res[o]) /\ Util(t, q.res[t]) <= Cap
  BY CommitReserves
<1> HIDE DEF q
<1>4. \A g \in Pg : \A m \in q.moves[g] : m \in p.moves[g] \/ m.pin \/ m.to = t
  BY <1>2
<1>5. Room(q)
  <2> HIDE StaticsTyped, SettingsTyped
  <2> QED
    BY <1>1, <1>3, <1>4, RoomStep
<1> QED
  BY <1>5 DEF q

\* Undoing a move and committing it elsewhere is one step: what the undone move
\* reserves on its up OSD again is cancelled again.
LEMMA RePlacedReserves ==
  ASSUME ClusterTyped(cluster), NEW p, PlanTyped(p), NEW pg \in Pg, NEW i,
         NEW m \in p.moves[pg], NEW t \in Osd,
         PlanTyped(RePlaced(p, pg, i, m, t)),
         Util(t, Uncommit(p, pg, m).res[t] + Size(pg)) <= Cap
  PROVE  /\ \A o \in Osd \ {t} : RePlaced(p, pg, i, m, t).res[o] <= p.res[o]
         /\ Util(t, RePlaced(p, pg, i, m, t).res[t]) <= Cap
<1> DEFINE q == RePlaced(p, pg, i, m, t)
           r == Uncommit(p, pg, m)
           u == UpOf(pg, m.slot)
<1>1. m.slot \in Slots(cluster, pg) /\ PlanTyped(r)
  BY UncommitType DEF PlanTyped, Changed
<1>2. \A o \in Osd : q.res[o] = p.res[o] - Moved(pg, m.to, o) + Moved(pg, t, o)
  <2> SUFFICES ASSUME NEW o \in Osd
               PROVE  RePlaced(p, pg, i, m, t).res[o] =
                        p.res[o] - Moved(pg, m.to, o) + Moved(pg, t, o)
    OBVIOUS
  <2> HIDE StaticsTyped, SettingsTyped DEF q, r, u
  <2> QED
    BY RePlacedUsage
<1>3. r.res[t] = p.res[t] - Moved(pg, m.to, t) + Cancelled(pg, m.slot, u, t)
  BY UncommitUsage
<1>4. \A o \in Osd : /\ Moved(pg, m.to, o) \in Nat /\ Moved(pg, t, o) \in Nat
                    /\ Moved(pg, t, o) <= Size(pg) /\ (t # o => Moved(pg, t, o) = 0)
  BY MovedType
<1>5. Cancelled(pg, m.slot, u, t) \in Nat
  BY <1>1, CancelledType
<1>6. \A o \in Osd : p.res[o] \in Int /\ q.res[o] \in Int /\ r.res[o] \in Int
  BY <1>1 DEF PlanTyped
<1>8. Size(pg) \in Int /\ Cap \in Int
  BY ClusterFacts
<1>9. PlanTyped(q) /\ Util(t, r.res[t] + Size(pg)) <= Cap
  OBVIOUS
<1> HIDE DEF q, r, u
<1>10. \A o \in Osd \ {t} : q.res[o] <= p.res[o]
  BY <1>2, <1>4, <1>6
<1>11. Util(t, q.res[t]) <= Cap
  <2>1. q.res[t] <= r.res[t] + Size(pg)
    <3>1. PICK a \in Nat, b \in Nat, c \in Nat, s \in Int :
            /\ a = Moved(pg, m.to, t) /\ b = Moved(pg, t, t) /\ s = Size(pg) /\ b <= s
            /\ c = Cancelled(pg, m.slot, u, t)
      BY <1>4, <1>5, <1>8
    <3>2. PICK x \in Int, y \in Int, z \in Int : x = p.res[t] /\ y = q.res[t] /\ z = r.res[t]
      BY <1>6
    <3>3. y = x - a + b /\ z = x - a + c
      BY <1>2, <1>3, <3>1, <3>2
    <3>4. y <= z + s
      BY <3>1, <3>2, <3>3
    <3> QED
      BY <3>1, <3>2, <3>4
  <2>2. q.res[t] \in Int /\ r.res[t] + Size(pg) \in Int
    BY <1>6, <1>8
  <2> QED
    BY <1>8, <1>9, <2>1, <2>2, UtilBound
<1> QED
  BY <1>10, <1>11 DEF q

\* Re-placing a move leaves the other moves as they are, and adds no pin.
LEMMA RePlacedMoves ==
  ASSUME NEW p, PlanTyped(p), NEW pg \in Pg, NEW i, NEW m \in p.moves[pg], NEW t
  PROVE  /\ \A g \in Pg : \A n \in RePlaced(p, pg, i, m, t).moves[g] :
              n \in p.moves[g] \/ (n.to = t /\ ~n.pin)
         /\ \A g \in Pg : \A n \in p.moves[g] : n = m \/ n \in RePlaced(p, pg, i, m, t).moves[g]
<1>1. PICK q, r, c : /\ q = RePlaced(p, pg, i, m, t) /\ r = Uncommit(p, pg, m)
                     /\ c = CommittedMove(m.slot, t, "requested")
  OBVIOUS
<1>2. r.moves = [p.moves EXCEPT ![pg] = @ \ {m}]
  BY <1>1 DEF Uncommit
<1>3. q.moves = [r.moves EXCEPT ![pg] = @ \union {c}]
  BY <1>1 DEF RePlaced, Commit
<1>4. c.to = t /\ ~c.pin
  BY <1>1 DEF CommittedMove
<1>5. DOMAIN p.moves = Pg
  BY DEF PlanTyped
<1>6. q.moves[pg] = (p.moves[pg] \ {m}) \union {c} /\ \A g \in Pg \ {pg} : q.moves[g] = p.moves[g]
  BY <1>2, <1>3, <1>5
<1>7. /\ \A g \in Pg : \A n \in q.moves[g] : n \in p.moves[g] \/ n = c
      /\ \A g \in Pg : \A n \in p.moves[g] : n = m \/ n \in q.moves[g]
  BY <1>6
<1> QED
  BY <1>1, <1>4, <1>7

\* So it leaves room too.
LEMMA RePlacedRoom ==
  ASSUME ClusterTyped(cluster), NEW p, PlanTyped(p), Room(p), NEW pg \in Pg, NEW i,
         NEW m \in p.moves[pg], NEW t \in Osd,
         PlanTyped(RePlaced(p, pg, i, m, t)),
         Util(t, Uncommit(p, pg, m).res[t] + Size(pg)) <= Cap
  PROVE  Room(RePlaced(p, pg, i, m, t))
<1> DEFINE q == RePlaced(p, pg, i, m, t)
<1>1. \A g \in Pg : \A n \in q.moves[g] : n \in p.moves[g] \/ n.to = t
  BY RePlacedMoves
<1>2. (\A o \in Osd \ {t} : q.res[o] <= p.res[o]) /\ Util(t, q.res[t]) <= Cap
  BY RePlacedReserves
<1>3. PlanTyped(q)
  OBVIOUS
<1> HIDE DEF q
<1>4. \A g \in Pg : \A n \in q.moves[g] : n \in p.moves[g] \/ n.pin \/ n.to = t
  BY <1>1
<1>5. Room(q)
  <2> HIDE StaticsTyped, SettingsTyped
  <2> QED
    BY <1>2, <1>3, <1>4, RoomStep
<1> QED
  BY <1>5 DEF q

\* Pinning back leaves room everywhere.
LEMMA PinBackRoom ==
  ASSUME ClusterTyped(cluster), NEW p, PlanTyped(p), Room(p), NEW pg \in Pg,
         NEW i \in Slots(cluster, pg), PinSlots(p, pg, i) # {}
  PROVE  Room(PinBack(p, pg, i))
<1> DEFINE q == PinBack(p, pg, i)
<1> SUFFICES ASSUME NEW g \in Pg, NEW m \in q.moves[g], ~m.pin
             PROVE  Util(m.to, q.res[m.to]) <= Cap
  BY DEF Room
<1>1. m \in p.moves[g]
  BY DEF PinBack, PlanTyped
<1>2. m.to \in Osd
  BY <1>1 DEF PlanTyped, MoveRecords
<1>3. PlanTyped(q)
  BY PinBackType
<1>4. q.res[m.to] \in Int /\ p.res[m.to] \in Int /\ q.res[m.to] <= p.res[m.to]
  BY <1>2, <1>3, PinBackUsage DEF PlanTyped
<1>5. Util(m.to, p.res[m.to]) <= Cap
  BY <1>1 DEF Room
<1>6. Cap \in Int
  OBVIOUS
<1> HIDE DEF q
<1> QED
  BY <1>2, <1>4, <1>5, <1>6, UtilBound

(* Hosts: a PG with nothing pinned onto a source keeps its shards apart.    *)

NoneOntoSource(p, pg) == \A m \in p.moves[pg] : m.pin => m.to \notin Sources

Apart(p) == \A pg \in Pg : NoneOntoSource(p, pg) => HostsDistinct(p.newUp[pg])

\* A slot may take an OSD on none of the other slots' hosts.
LEMMA PlaceApart ==
  ASSUME NEW up, HostsDistinct(up), NEW i \in DOMAIN up, NEW t,
         \A j \in DOMAIN up \ {i} : IsReal(up[j]) => HostOf[up[j]] # HostOf[t]
  PROVE  HostsDistinct([up EXCEPT ![i] = t])
<1> DEFINE new == [up EXCEPT ![i] = t]
<1>1. DOMAIN new = DOMAIN up /\ new[i] = t /\ \A j \in DOMAIN up \ {i} : new[j] = up[j]
  OBVIOUS
<1>2. \A j \in DOMAIN up \ {i} : IsReal(up[j]) => ~SamePlace(up[j], t) /\ ~SamePlace(t, up[j])
  BY DEF SamePlace
<1> HIDE DEF new
<1>3. ASSUME NEW j \in DOMAIN new, NEW k \in DOMAIN new,
             j # k, IsReal(new[j]), IsReal(new[k])
      PROVE  ~SamePlace(new[j], new[k])
  <2>1. CASE j = i
    BY <1>1, <1>2, <1>3, <2>1
  <2>2. CASE k = i
    BY <1>1, <1>2, <1>3, <2>2
  <2>3. CASE j # i /\ k # i
    BY <1>1, <1>3, <2>3 DEF HostsDistinct
  <2> QED
    BY <2>1, <2>2, <2>3
<1>4. HostsDistinct(new)
  BY <1>3 DEF HostsDistinct
<1> QED
  BY <1>4 DEF new

\* The host of every shard but those on the moving shard's own OSD is forbidden.
LEMMA OtherHostsCover ==
  ASSUME NEW p, NEW pg, NEW i, NEW j \in DOMAIN p.newUp[pg],
         IsReal(p.newUp[pg][j]), p.newUp[pg][j] # UpOf(pg, i)
  PROVE  HostOf[p.newUp[pg][j]] \in OtherHosts(p, pg, i)
BY DEF OtherHosts, RealOsds, ToSet

\* A move off the PG's other hosts keeps its shards apart.
LEMMA CommitApart ==
  ASSUME NEW p, PlanTyped(p), PlanShape(p), Apart(p), NEW pg \in Pg,
         NEW i \in Slots(cluster, pg), i \notin Changed(p, pg), IsReal(UpOf(pg, i)),
         NEW t, HostOf[t] \notin OtherHosts(p, pg, i), NEW role
  PROVE  Apart(Commit(p, pg, i, t, role))
<1> DEFINE q == Commit(p, pg, i, t, role)
<1> SUFFICES ASSUME NEW g \in Pg, NoneOntoSource(q, g)
             PROVE  HostsDistinct(q.newUp[g])
  BY DEF Apart
<1>1. NoneOntoSource(p, g)
  BY DEF NoneOntoSource, Commit, PlanTyped
<1>2. HostsDistinct(p.newUp[g])
  BY <1>1 DEF Apart
<1>3. CASE g # pg
  BY <1>2, <1>3 DEF Commit, PlanTyped
<1>4. CASE g = pg
  <2>1. i \in DOMAIN p.newUp[pg] /\ p.newUp[pg][i] = UpOf(pg, i)
    BY DEF PlanTyped, PlanShape
  <2>2. \A j \in DOMAIN p.newUp[pg] \ {i} :
          IsReal(p.newUp[pg][j]) => p.newUp[pg][j] # UpOf(pg, i)
    BY <1>2, <1>4, <2>1 DEF HostsDistinct, SamePlace
  <2>3. \A j \in DOMAIN p.newUp[pg] \ {i} :
          IsReal(p.newUp[pg][j]) => HostOf[p.newUp[pg][j]] # HostOf[t]
    BY <2>2, OtherHostsCover
  <2>4. HostsDistinct([p.newUp[pg] EXCEPT ![i] = t])
    BY <1>2, <1>4, <2>1, <2>3, PlaceApart
  <2> QED
    BY <1>4, <2>4 DEF Commit, PlanTyped
<1> QED
  BY <1>3, <1>4

\* Moving a proposed move elsewhere keeps the PG apart, since none of its other
\* shards can be on the source again but by a pin.
LEMMA RePlacedApart ==
  ASSUME ClusterTyped(cluster), Consistent(cluster),
         NEW p, PlanTyped(p), PlanShape(p), Apart(p), NEW pg \in Pg, NEW i,
         NEW m \in p.moves[pg], ~m.pin, UpOf(pg, m.slot) \in Sources,
         NEW t, HostOf[t] \notin OtherHosts(Uncommit(p, pg, m), pg, m.slot)
  PROVE  Apart(RePlaced(p, pg, i, m, t))
<1> DEFINE q == RePlaced(p, pg, i, m, t)
           r == Uncommit(p, pg, m)
           u == UpOf(pg, m.slot)
           k == m.slot
<1> SUFFICES ASSUME NEW g \in Pg, NoneOntoSource(q, g)
             PROVE  HostsDistinct(q.newUp[g])
  BY DEF Apart
<1>1. NoneOntoSource(p, g)
  BY DEF NoneOntoSource, RePlaced, Commit, Uncommit, PlanTyped
<1>2. HostsDistinct(p.newUp[g])
  BY <1>1 DEF Apart
<1>3. CASE g # pg
  BY <1>2, <1>3 DEF RePlaced, Commit, Uncommit, PlanTyped
<1>4. CASE g = pg
  <2>1. k \in Slots(cluster, pg) /\ DOMAIN p.newUp[pg] = Slots(cluster, pg)
    BY DEF PlanTyped, Changed
  <2>2. u \in Sources /\ IsReal(u)
    BY DEF IsReal
  <2>3. r.newUp[pg] = [p.newUp[pg] EXCEPT ![k] = u]
    BY DEF Uncommit, PlanTyped
  <2>4. ASSUME NEW j \in Slots(cluster, pg) \ {k}
        PROVE  p.newUp[pg][j] # u
    <3>1. CASE j \in Changed(p, pg)
      <4>1. PICK n \in p.moves[pg] : n.slot = j /\ p.newUp[pg][j] = n.to
        BY <3>1 DEF Changed, PlanShape
      <4>2. n.to \notin Sources
        BY <1>1, <1>4 DEF PlanShape, NoneOntoSource
      <4> QED
        BY <2>2, <4>1, <4>2
    <3>2. CASE j \notin Changed(p, pg)
      <4>1. p.newUp[pg][j] = UpOf(pg, j)
        BY <3>2 DEF PlanShape
      <4>2. HostsDistinct(cluster.up[pg]) /\ DOMAIN cluster.up[pg] = Slots(cluster, pg)
        BY DEF Consistent, CephConsistent, Slots
      <4>3. cluster.up[pg][k] = u /\ cluster.up[pg][j] = UpOf(pg, j)
        BY DEF UpOf, Up
      <4>4. UpOf(pg, j) # u
        BY <2>1, <2>2, <2>4, <4>2, <4>3 DEF HostsDistinct, SamePlace
      <4> QED
        BY <4>1, <4>4
    <3> QED
      BY <3>1, <3>2
  <2>5. \A j \in Slots(cluster, pg) \ {k} :
          /\ r.newUp[pg][j] = p.newUp[pg][j]
          /\ j \in DOMAIN r.newUp[pg]
    BY <2>1, <2>3
  <2>6. \A j \in DOMAIN p.newUp[pg] \ {k} :
          IsReal(p.newUp[pg][j]) => HostOf[p.newUp[pg][j]] # HostOf[t]
    <3> SUFFICES ASSUME NEW j \in Slots(cluster, pg) \ {k}, IsReal(p.newUp[pg][j])
                 PROVE  HostOf[p.newUp[pg][j]] # HostOf[t]
      BY <2>1
    <3>1. HostOf[r.newUp[pg][j]] \in OtherHosts(r, pg, k)
      BY <2>4, <2>5, OtherHostsCover
    <3> QED
      BY <2>5, <3>1
  <2>7. HostsDistinct([p.newUp[pg] EXCEPT ![k] = t])
    BY <1>2, <1>4, <2>1, <2>6, PlaceApart
  <2>8. q.newUp[pg] = [p.newUp[pg] EXCEPT ![k] = t]
    BY <2>1, <2>3 DEF RePlaced, Commit, Uncommit, PlanTyped
  <2> QED
    BY <1>4, <2>7, <2>8
<1> QED
  BY <1>3, <1>4

\* Valid pins keep the shards of the planned up set apart.
LEMMA PinBackApart ==
  ASSUME ClusterTyped(cluster), Consistent(cluster),
         NEW p, PlanTyped(p), Apart(p), NEW pg \in Pg,
         NEW i \in Slots(cluster, pg), PinSlots(p, pg, i) # {}
  PROVE  Apart(PinBack(p, pg, i))
<1> DEFINE q == PinBack(p, pg, i)
           P == PinSlots(p, pg, i)
           up == p.newUp[pg]
           acting == cluster.acting[pg]
           source == PinSource(pg, i)
<1> SUFFICES ASSUME NEW g \in Pg, NoneOntoSource(q, g)
             PROVE  HostsDistinct(q.newUp[g])
  BY DEF Apart
<1>1. NoneOntoSource(p, g)
  BY DEF NoneOntoSource, PinBack, PlanTyped
<1>2. HostsDistinct(p.newUp[g])
  BY <1>1 DEF Apart
<1>3. CASE g # pg
  BY <1>2, <1>3 DEF PinBack, PlanTyped
<1>4. CASE g = pg
  <2>1. DOMAIN up = Slots(cluster, pg) /\ DOMAIN acting = Slots(cluster, pg)
    BY DEF PlanTyped, ClusterTyped
  <2>2. q.newUp[pg] = [j \in DOMAIN up |-> IF j \in P THEN PinTo(pg, j) ELSE up[j]]
    BY DEF PinBack, PlanTyped
  <2>3. source # None
    BY DEF PinSlots
  <2>4. CASE Ec[pg]
    <3>1. P = ClosePins(up, acting, {i})
      BY <2>3, <2>4 DEF PinSlots
    <3>2. ClosePins(up, acting, {i}) \in ValidPins(up, acting, {i})
      BY <3>1, ClosePinsIsValid
    <3>3. P \in SUBSET DOMAIN up /\ ClashingWith(up, acting, P) = {}
      BY <3>1, <3>2 DEF ValidPins
    <3>4. HostsDistinct(acting)
      BY DEF Consistent, CephConsistent
    <3>5. HostsDistinct(PinnedUp(up, acting, P))
      BY <1>2, <1>4, <2>1, <3>3, <3>4, PinsApart
    <3>6. q.newUp[pg] = PinnedUp(up, acting, P)
      BY <2>2, <2>4 DEF PinnedUp, PinTo
    <3> QED
      BY <1>4, <3>5, <3>6
  <2>5. CASE ~Ec[pg]
    <3>1. P = {i} /\ \A j \in DOMAIN up \ {i} : IsReal(up[j]) => ~SamePlace(source, up[j])
      BY <2>3, <2>5 DEF PinSlots
    <3>2. /\ DOMAIN q.newUp[pg] = DOMAIN up
          /\ q.newUp[pg][i] = source
          /\ \A j \in DOMAIN up \ {i} : q.newUp[pg][j] = up[j]
      BY <2>1, <2>2, <2>5, <3>1 DEF PinTo
    <3>3. \A a, b : SamePlace(a, b) => SamePlace(b, a)
      BY DEF SamePlace
    <3> HIDE DEF q, P, up, source
    <3>4. ASSUME NEW j \in DOMAIN up, NEW k \in DOMAIN up, j # k,
                 IsReal(q.newUp[pg][j]), IsReal(q.newUp[pg][k])
          PROVE  ~SamePlace(q.newUp[pg][j], q.newUp[pg][k])
      <4>1. CASE j = i
        BY <3>1, <3>2, <3>4, <4>1
      <4>2. CASE k = i
        BY <3>1, <3>2, <3>3, <3>4, <4>2
      <4>3. CASE j # i /\ k # i
        BY <1>2, <1>4, <3>2, <3>4, <4>3 DEF HostsDistinct, up
      <4> QED
        BY <4>1, <4>2, <4>3
    <3> QED
      BY <1>4, <3>2, <3>4 DEF HostsDistinct
  <2> QED
    BY <2>4, <2>5
<1> QED
  BY <1>3, <1>4

\* drain and balance request moves off their sources only.
Requested(p) ==
  \A pg \in Pg : \A m \in p.moves[pg] :
    ~m.pin /\ m.role = "requested" => UpOf(pg, m.slot) \in Sources

\* It is a matter of the moves a step adds.
LEMMA RequestedStays ==
  ASSUME NEW p, Requested(p), NEW q, NEW pg \in Pg,
         \A g \in Pg \ {pg} : q.moves[g] = p.moves[g],
         \A m \in q.moves[pg] :
           m \in p.moves[pg] \/ m.pin \/ m.role # "requested" \/ UpOf(pg, m.slot) \in Sources
  PROVE  Requested(q)
BY DEF Requested

LEMMA CommitRequested ==
  ASSUME NEW p, PlanTyped(p), Requested(p), NEW pg \in Pg, NEW i, NEW t, NEW role,
         role = "requested" => UpOf(pg, i) \in Sources
  PROVE  Requested(Commit(p, pg, i, t, role))
<1>1. PICK q : q = Commit(p, pg, i, t, role)
  OBVIOUS
<1>2. \A g \in Pg \ {pg} : q.moves[g] = p.moves[g]
  BY <1>1 DEF Commit, PlanTyped
<1>3. q.moves[pg] = p.moves[pg] \union {CommittedMove(i, t, role)}
  BY <1>1 DEF Commit, PlanTyped
<1>4. CommittedMove(i, t, role).slot = i /\ CommittedMove(i, t, role).role = role
  BY DEF CommittedMove
<1> QED
  BY <1>1, <1>2, <1>3, <1>4, RequestedStays

LEMMA RePlacedRequested ==
  ASSUME NEW p, PlanTyped(p), Requested(p), NEW pg \in Pg, NEW i, NEW t,
         NEW m \in p.moves[pg], m.role = "requested", ~m.pin
  PROVE  Requested(RePlaced(p, pg, i, m, t))
<1>1. PICK q : q = RePlaced(p, pg, i, m, t)
  OBVIOUS
<1>2. \A g \in Pg \ {pg} : q.moves[g] = p.moves[g]
  BY <1>1 DEF RePlaced, Commit, Uncommit, PlanTyped
<1>3. PICK n : n = CommittedMove(m.slot, t, "requested")
  OBVIOUS
<1>4. q.moves[pg] = (p.moves[pg] \ {m}) \union {n}
  BY <1>1, <1>3 DEF RePlaced, Commit, Uncommit, PlanTyped
<1>5. n.slot = m.slot /\ UpOf(pg, m.slot) \in Sources
  BY <1>3 DEF CommittedMove, Requested
<1>6. \A k \in q.moves[pg] : k \in p.moves[pg] \/ UpOf(pg, k.slot) \in Sources
  BY <1>4, <1>5
<1>7. Requested(q)
  BY <1>2, <1>6, RequestedStays
<1> QED
  BY <1>1, <1>7

LEMMA PinBackRequested ==
  ASSUME NEW p, PlanTyped(p), Requested(p), NEW pg \in Pg, NEW i
  PROVE  Requested(PinBack(p, pg, i))
<1>1. PICK q : q = PinBack(p, pg, i)
  OBVIOUS
<1>2. \A g \in Pg \ {pg} : q.moves[g] = p.moves[g]
  BY <1>1 DEF PinBack, PlanTyped
<1>3. \A m \in q.moves[pg] : m \in p.moves[pg] \/ m.pin
  BY <1>1 DEF PinBack, PlanTyped
<1> QED
  BY <1>1, <1>2, <1>3, RequestedStays

(* Levels.                                                                  *)

PinnedAt(p, o) == \E pg \in Pg : \E m \in p.moves[pg] : m.pin /\ m.to = o

LevelInv(p) ==
  \A pg \in Pg : \A m \in p.moves[pg] :
    /\ Level # 0 /\ LevelClass # None
    /\ ClassOf[m.to] = LevelClass
    /\ ~m.pin /\ ~PinnedAt(p, m.to)
    => BelowLevel(p, m.to, 0)

SourcesInv(p) == \A s \in Sources : PinnedAt(p, s) => BelowLevel(p, s, 0)

\* An OSD that gains nothing stays below the level.
LEMMA BelowLevelStays ==
  ASSUME NEW p, PlanTyped(p), NEW q, PlanTyped(q), NEW o \in Osd, NEW n \in Nat,
         q.final[o] <= p.final[o] + n, BelowLevel(p, o, n)
  PROVE  BelowLevel(q, o, 0)
<1>1. p.final[o] \in Int /\ q.final[o] \in Int /\ Level \in Int
  <2>1. p.final \in [Osd -> Int] /\ q.final \in [Osd -> Int]
    BY DEF PlanTyped
  <2>2. p.final[o] \in Int
    BY <2>1, Zenon
  <2>3. q.final[o] \in Int
    BY <2>1, Zenon
  <2>4. Level \in Int
    BY SettingsTyped
  <2> QED
    BY <2>2, <2>3, <2>4, Zenon
<1>2. Level # 0 /\ o \in Sized /\ Util(o, p.final[o] + n) < Level
  BY DEF BelowLevel
<1>3. p.final[o] + n \in Int
  BY <1>1
<1>4. Util(o, q.final[o]) < Level
  BY <1>1, <1>2, <1>3, UtilBound
<1>5. q.final[o] + 0 = q.final[o]
  BY <1>1
<1> QED
  BY <1>2, <1>4, <1>5 DEF BelowLevel

\* 'q' proposes no new move except one onto t, which is no source and, if the level
\* binds it, ends up below; nothing else gains data, and the pins are the same.
LEMMA LevelStep ==
  ASSUME NEW p, PlanTyped(p), LevelInv(p), SourcesInv(p), NEW q, PlanTyped(q),
         NEW t \in Osd \ Sources,
         \A g \in Pg : \A m \in q.moves[g] : m \in p.moves[g] \/ (m.to = t /\ ~m.pin),
         \A g \in Pg : \A m \in p.moves[g] : m.pin => m \in q.moves[g],
         \A o \in Osd \ {t} : q.final[o] <= p.final[o],
         Level # 0 /\ LevelClass # None /\ ClassOf[t] = LevelClass => BelowLevel(q, t, 0)
  PROVE  LevelInv(q) /\ SourcesInv(q)
<1>1. \A o : PinnedAt(q, o) <=> PinnedAt(p, o)
  BY DEF PinnedAt
<1>2. ASSUME NEW o \in Osd \ {t}, BelowLevel(p, o, 0)
      PROVE  BelowLevel(q, o, 0)
  <2>1. q.final[o] <= p.final[o] + 0
    BY DEF PlanTyped
  <2> QED
    BY <1>2, <2>1, BelowLevelStays
<1>3. \A g \in Pg : \A m \in p.moves[g] : m.to \in Osd
  BY DEF PlanTyped, MoveRecords
<1>4. LevelInv(q)
  <2> SUFFICES ASSUME NEW g \in Pg, NEW m \in q.moves[g],
                      Level # 0, LevelClass # None, ClassOf[m.to] = LevelClass,
                      ~m.pin, ~PinnedAt(q, m.to)
               PROVE  BelowLevel(q, m.to, 0)
    BY DEF LevelInv
  <2>1. CASE m.to = t
    BY <2>1
  <2>2. CASE m.to # t
    BY <1>1, <1>2, <1>3, <2>2 DEF LevelInv
  <2> QED
    BY <2>1, <2>2
<1>5. SourcesInv(q)
  BY <1>1, <1>2 DEF SourcesInv
<1> QED
  BY <1>4, <1>5

\* A move that keeps the level leaves every level kept.
LEMMA CommitLevel ==
  ASSUME ClusterTyped(cluster), NEW p, PlanTyped(p), LevelInv(p), SourcesInv(p),
         NEW pg \in Pg, NEW i \in Slots(cluster, pg), NEW t \in Osd \ Sources,
         NEW role \in Roles, ClassOf[t] = ClassOf[UpOf(pg, i)], KeepsLevel(p, pg, i, t)
  PROVE  LevelInv(Commit(p, pg, i, t, role)) /\ SourcesInv(Commit(p, pg, i, t, role))
<1> DEFINE q == Commit(p, pg, i, t, role)
           u == UpOf(pg, i)
<1>1. PlanTyped(q)
  BY CommitType
<1>2. ASSUME NEW o \in Osd
      PROVE  q.final[o] <= p.final[o] + Moved(pg, t, o)
  <2>1. q.final[o] = p.final[o] - Moved(pg, u, o) + Moved(pg, t, o)
    BY CommitUsage
  <2>2. Moved(pg, u, o) \in Nat /\ Moved(pg, t, o) \in Nat
    BY MovedType
  <2>3. p.final[o] \in Int
    BY DEF PlanTyped
  <2> HIDE DEF q, u
  <2> QED
    BY <2>1, <2>2, <2>3
<1>3. \A o \in Osd \ {t} : q.final[o] <= p.final[o]
  <2> SUFFICES ASSUME NEW o \in Osd \ {t} PROVE q.final[o] <= p.final[o]
    OBVIOUS
  <2>1. Moved(pg, t, o) = 0 /\ p.final[o] \in Int
    BY MovedType DEF PlanTyped
  <2>2. q.final[o] <= p.final[o] + Moved(pg, t, o)
    BY <1>2
  <2> HIDE DEF q
  <2> QED
    BY <2>1, <2>2
<1>4. Level # 0 /\ LevelClass # None /\ ClassOf[t] = LevelClass => BelowLevel(q, t, 0)
  <2> SUFFICES ASSUME BelowLevel(p, t, Size(pg)) PROVE BelowLevel(q, t, 0)
    BY DEF KeepsLevel
  <2>1. q.final[t] <= p.final[t] + Moved(pg, t, t)
    BY <1>2
  <2>2. Moved(pg, t, t) \in Nat /\ Moved(pg, t, t) <= Size(pg) /\ Size(pg) \in Nat
    BY MovedType, ClusterFacts
  <2>3. p.final[t] \in Int /\ q.final[t] \in Int
    BY <1>1 DEF PlanTyped
  <2>4. q.final[t] <= p.final[t] + Size(pg)
    <3> HIDE DEF q
    <3> QED
      BY <2>1, <2>2, <2>3
  <2> QED
    BY <1>1, <2>2, <2>4, BelowLevelStays
<1>5. /\ \A g \in Pg : \A m \in q.moves[g] : m \in p.moves[g] \/ (m.to = t /\ ~m.pin)
      /\ \A g \in Pg : \A m \in p.moves[g] : m \in q.moves[g]
  BY DEF Commit, CommittedMove, PlanTyped
<1> HIDE DEF q
<1>6. LevelInv(q) /\ SourcesInv(q)
  BY <1>1, <1>3, <1>4, <1>5, LevelStep
<1> QED
  BY <1>6 DEF q

\* So does undoing a move and placing it elsewhere.
LEMMA RePlacedLevel ==
  ASSUME ClusterTyped(cluster), NEW p, PlanTyped(p), LevelInv(p), SourcesInv(p),
         NEW pg \in Pg, NEW i, NEW m \in p.moves[pg], ~m.pin, NEW t \in Osd \ Sources,
         PlanTyped(RePlaced(p, pg, i, m, t)), ClassOf[t] = ClassOf[UpOf(pg, m.slot)],
         KeepsLevel(Uncommit(p, pg, m), pg, m.slot, t)
  PROVE  LevelInv(RePlaced(p, pg, i, m, t)) /\ SourcesInv(RePlaced(p, pg, i, m, t))
<1> DEFINE q == RePlaced(p, pg, i, m, t)
           r == Uncommit(p, pg, m)
           u == UpOf(pg, m.slot)
<1>1. PlanTyped(q) /\ PlanTyped(r) /\ m.slot \in Slots(cluster, pg)
  BY UncommitType DEF PlanTyped, Changed
<1>2. ASSUME NEW o \in Osd
      PROVE  /\ q.final[o] <= p.final[o] + Moved(pg, t, o)
             /\ q.final[o] <= r.final[o] + Moved(pg, t, o)
  <2>1. RePlaced(p, pg, i, m, t).final[o] =
          p.final[o] - Moved(pg, m.to, o) + Moved(pg, t, o)
    <3> HIDE DEF q, r, u
    <3> QED
      BY RePlacedUsage
  <2>2. r.final[o] = p.final[o] - Moved(pg, m.to, o) + Moved(pg, u, o)
    BY UncommitUsage
  <2>3. Moved(pg, u, o) \in Nat /\ Moved(pg, t, o) \in Nat /\ Moved(pg, m.to, o) \in Nat
    BY MovedType
  <2>4. p.final[o] \in Int
    BY DEF PlanTyped
  <2>5. q.final[o] = p.final[o] - Moved(pg, m.to, o) + Moved(pg, t, o)
    BY <2>1
  <2> HIDE DEF q, r, u
  <2> QED
    BY <2>2, <2>3, <2>4, <2>5
<1>3. \A o \in Osd \ {t} : q.final[o] <= p.final[o]
  <2> SUFFICES ASSUME NEW o \in Osd \ {t} PROVE q.final[o] <= p.final[o]
    OBVIOUS
  <2>1. Moved(pg, t, o) = 0 /\ p.final[o] \in Int
    BY MovedType DEF PlanTyped
  <2>2. q.final[o] <= p.final[o] + Moved(pg, t, o)
    BY <1>2
  <2> HIDE DEF q
  <2> QED
    BY <2>1, <2>2
<1>4. Level # 0 /\ LevelClass # None /\ ClassOf[t] = LevelClass => BelowLevel(q, t, 0)
  <2> SUFFICES ASSUME BelowLevel(r, t, Size(pg)) PROVE BelowLevel(q, t, 0)
    BY DEF KeepsLevel
  <2>1. q.final[t] <= r.final[t] + Moved(pg, t, t)
    BY <1>2
  <2>2. Moved(pg, t, t) \in Nat /\ Moved(pg, t, t) <= Size(pg) /\ Size(pg) \in Nat
    BY MovedType, ClusterFacts
  <2>3. r.final[t] \in Int /\ q.final[t] \in Int
    BY <1>1 DEF PlanTyped
  <2>4. q.final[t] <= r.final[t] + Size(pg)
    <3> HIDE DEF q, r
    <3> QED
      BY <2>1, <2>2, <2>3
  <2> QED
    BY <1>1, <2>2, <2>4, BelowLevelStays
<1>5. /\ \A g \in Pg : \A n \in q.moves[g] : n \in p.moves[g] \/ (n.to = t /\ ~n.pin)
      /\ \A g \in Pg : \A n \in p.moves[g] : n.pin => n \in q.moves[g]
  BY RePlacedMoves
<1> HIDE DEF q
<1>6. LevelInv(q) /\ SourcesInv(q)
  BY <1>1, <1>3, <1>4, <1>5, LevelStep
<1> QED
  BY <1>6 DEF q

\* So does a pin that try_pin accepts.
LEMMA PinBackLevel ==
  ASSUME ClusterTyped(cluster), NEW p, PlanTyped(p), LevelInv(p), SourcesInv(p),
         NEW pg \in Pg, NEW i \in Slots(cluster, pg), CanPinBack(p, pg, i)
  PROVE  LevelInv(PinBack(p, pg, i)) /\ SourcesInv(PinBack(p, pg, i))
<1> DEFINE q == PinBack(p, pg, i)
           P == PinSlots(p, pg, i)
           onto(o) == {j \in P : PinTo(pg, j) = o}
<1>1. P # {} /\ \A s \in Sources :
        onto(s) # {} => BelowLevel(p, s, Cardinality(onto(s)) * Size(pg))
  BY DEF CanPinBack
<1>2. PlanTyped(q)
  BY <1>1, PinBackType
<1>3. P \subseteq Slots(cluster, pg)
  BY <1>1, PinSlotsType
<1>4. \A o \in Osd : q.final[o] <= p.final[o] + (IF onto(o) # {} THEN Size(pg) ELSE 0)
  <2> SUFFICES ASSUME NEW o \in Osd
               PROVE  q.final[o] <= p.final[o] + (IF onto(o) # {} THEN Size(pg) ELSE 0)
    OBVIOUS
  <2>1. q.final[o] <= p.final[o] + (IF \E j \in P : PinTo(pg, j) = o THEN Size(pg) ELSE 0)
    BY <1>1, PinBackUsage
  <2>2. onto(o) # {} <=> \E j \in P : PinTo(pg, j) = o
    OBVIOUS
  <2> QED
    BY <2>1, <2>2
<1>5. \A o : PinnedAt(q, o) <=> PinnedAt(p, o) \/ onto(o) # {}
  <2>1. q.moves = [p.moves EXCEPT
                     ![pg] = @ \union {[slot |-> j, to |-> PinTo(pg, j), pin |-> TRUE,
                                        role |-> "blocker"] : j \in P}]
    BY DEF PinBack
  <2>2. DOMAIN p.moves = Pg
    BY DEF PlanTyped
  <2>3. q.moves[pg] = p.moves[pg] \union {[slot |-> j, to |-> PinTo(pg, j), pin |-> TRUE,
                                        role |-> "blocker"] : j \in P}
    BY <2>1, <2>2
  <2>4. \A g \in Pg \ {pg} : q.moves[g] = p.moves[g]
    BY <2>1, <2>2
  <2>5. TAKE o
  <2>6. ASSUME PinnedAt(q, o) PROVE PinnedAt(p, o) \/ onto(o) # {}
    <3>1. PICK g \in Pg : \E m \in q.moves[g] : m.pin /\ m.to = o
      BY <2>6 DEF PinnedAt
    <3> QED
      BY <2>3, <2>4, <3>1 DEF PinnedAt
  <2>7. ASSUME PinnedAt(p, o) PROVE PinnedAt(q, o)
    <3>1. PICK g \in Pg : \E m \in p.moves[g] : m.pin /\ m.to = o
      BY <2>7 DEF PinnedAt
    <3>2. p.moves[g] \subseteq q.moves[g]
      BY <2>3, <2>4
    <3> QED
      BY <3>1, <3>2 DEF PinnedAt
  <2>8. ASSUME onto(o) # {} PROVE PinnedAt(q, o)
    <3>1. PICK j \in P : PinTo(pg, j) = o
      BY <2>8
    <3>2. [slot |-> j, to |-> PinTo(pg, j), pin |-> TRUE, role |-> "blocker"] \in q.moves[pg]
      BY <2>3
    <3> QED
      BY <3>1, <3>2 DEF PinnedAt
  <2> QED
    BY <2>6, <2>7, <2>8
<1>6. ASSUME NEW o \in Osd, BelowLevel(p, o, 0), onto(o) = {}
      PROVE  BelowLevel(q, o, 0)
  <2>1. q.final[o] <= p.final[o] + 0
    BY <1>4, <1>6
  <2> QED
    BY <1>2, <1>6, <2>1, BelowLevelStays
<1>7. LevelInv(q)
  <2> SUFFICES ASSUME NEW g \in Pg, NEW m \in q.moves[g],
                      Level # 0, LevelClass # None, ClassOf[m.to] = LevelClass,
                      ~m.pin, ~PinnedAt(q, m.to)
               PROVE  BelowLevel(q, m.to, 0)
    BY DEF LevelInv
  <2>1. m \in p.moves[g]
    BY DEF PinBack, PlanTyped
  <2> HIDE DEF q, onto
  <2>2. m.to \in Osd
    <3>1. p.moves[g] \subseteq MoveRecords
      BY DEF PlanTyped
    <3> QED
      BY <2>1, <3>1 DEF MoveRecords
  <2>3. onto(m.to) = {} /\ ~PinnedAt(p, m.to)
    BY <1>5
  <2>4. BelowLevel(p, m.to, 0)
    BY <2>1, <2>3 DEF LevelInv
  <2> QED
    BY <1>6, <2>2, <2>3, <2>4
<1>8. SourcesInv(q)
  <2> SUFFICES ASSUME NEW s \in Sources, PinnedAt(q, s) PROVE BelowLevel(q, s, 0)
    BY DEF SourcesInv
  <2>1. CASE onto(s) = {}
    <3>1. BelowLevel(p, s, 0)
      BY <1>5, <2>1 DEF SourcesInv
    <3> QED
      BY <1>6, <2>1, <3>1
  <2>2. CASE onto(s) # {}
    <3>1. Cardinality(onto(s)) \in Nat \ {0}
      <4>1. Slots(cluster, pg) = 1..Len(cluster.up[pg]) /\ Len(cluster.up[pg]) \in Nat
        <5>1. cluster.up[pg] \in Seq(Osd \union {None})
          BY DEF ClusterTyped
        <5> QED
          BY <5>1 DEF Slots
      <4>2. IsFiniteSet(Slots(cluster, pg))
        <5>1. 1 \in Int /\ Len(cluster.up[pg]) \in Int
          BY <4>1
        <5>2. IsFiniteSet(1..Len(cluster.up[pg]))
          BY <5>1, FS_Interval
        <5> QED
          BY <4>1, <5>2
      <4>3. onto(s) \subseteq Slots(cluster, pg)
        BY <1>3
      <4>4. IsFiniteSet(onto(s))
        BY <4>2, <4>3, FS_Subset
      <4> QED
        BY <2>2, <4>4, FS_CardinalityType, FS_EmptySet
    <3>2. Size(pg) \in Nat
      BY ClusterFacts
    <3>3. \A c \in Nat \ {0} : c * Size(pg) \in Nat /\ Size(pg) <= c * Size(pg)
      BY <3>2, Z3
    <3>4. Cardinality(onto(s)) * Size(pg) \in Nat
          /\ Size(pg) <= Cardinality(onto(s)) * Size(pg)
      BY <3>1, <3>3
    <3>5. q.final[s] <= p.final[s] + Size(pg)
      BY <1>4, <2>2
    <3>6. p.final[s] \in Int /\ q.final[s] \in Int
      BY <1>2 DEF PlanTyped
    <3>7. q.final[s] <= p.final[s] + Cardinality(onto(s)) * Size(pg)
      <4> DEFINE c == Cardinality(onto(s)) * Size(pg)
      <4>1. c \in Nat /\ Size(pg) <= c
        BY <3>4
      <4> HIDE DEF c, q
      <4>2. q.final[s] <= p.final[s] + c
        BY <3>2, <3>5, <3>6, <4>1
      <4> QED
        BY <4>2 DEF c
    <3>8. BelowLevel(p, s, Cardinality(onto(s)) * Size(pg))
      BY <1>1, <2>2
    <3> QED
      BY <1>2, <3>4, <3>7, <3>8, BelowLevelStays
  <2> QED
    BY <2>1, <2>2
<1> QED
  BY <1>7, <1>8

(* The inductive invariant.                                                 *)

PlanOK(p) ==
  /\ PlanTyped(p) /\ PlanShape(p)
  /\ Room(p) /\ Apart(p) /\ LevelInv(p) /\ SourcesInv(p)

PlanInv == cluster \in Clusters /\ PlanOK(plan) /\ Requested(plan)

\* What place guarantees of a target.
LEMMA LegalFacts ==
  ASSUME NEW p, NEW pg, NEW i, NEW t, NEW avoid, Legal(p, pg, i, t, avoid)
  PROVE  /\ t \in Usable \ Sources /\ t \in Osd
         /\ ClassOf[t] = ClassOf[UpOf(pg, i)]
         /\ HostOf[t] \notin OtherHosts(p, pg, i)
         /\ Util(t, p.res[t] + Size(pg)) <= Cap
         /\ KeepsLevel(p, pg, i, t)
BY DEF Legal

\* Moving a shard to a legal target keeps the inductive invariant.
LEMMA CommitOK ==
  ASSUME ClusterTyped(cluster), NEW p, PlanOK(p), NEW pg \in Pg,
         NEW i \in Slots(cluster, pg), i \notin Changed(p, pg), IsReal(UpOf(pg, i)),
         NEW t, Legal(p, pg, i, t, {}), NEW role \in Roles
  PROVE  PlanOK(Commit(p, pg, i, t, role))
<1> DEFINE q == Commit(p, pg, i, t, role)
<1>1. /\ t \in Usable \ Sources /\ t \in Osd
      /\ ClassOf[t] = ClassOf[UpOf(pg, i)]
      /\ HostOf[t] \notin OtherHosts(p, pg, i)
      /\ Util(t, p.res[t] + Size(pg)) <= Cap
      /\ KeepsLevel(p, pg, i, t)
  BY LegalFacts
<1>2. PlanTyped(p) /\ PlanShape(p) /\ Room(p) /\ Apart(p) /\ LevelInv(p) /\ SourcesInv(p)
  BY DEF PlanOK
<1>3. PlanTyped(q)
  BY <1>1, <1>2, CommitType
<1>4. PlanShape(q)
  BY <1>1, <1>2, CommitShape
<1>5. Room(q)
  BY <1>1, <1>2, CommitRoom
<1>6. Apart(q)
  BY <1>1, <1>2, CommitApart
<1>7. LevelInv(q) /\ SourcesInv(q)
  BY <1>1, <1>2, CommitLevel
<1> QED
  BY <1>3, <1>4, <1>5, <1>6, <1>7 DEF PlanOK

\* Re-placing a move on a legal target keeps it.
LEMMA RePlacedOK ==
  ASSUME ClusterTyped(cluster), Consistent(cluster), NEW p, PlanOK(p), NEW pg \in Pg, NEW i,
         NEW m \in p.moves[pg], ~m.pin, UpOf(pg, m.slot) \in Sources,
         NEW t, NEW avoid, Legal(Uncommit(p, pg, m), pg, m.slot, t, avoid)
  PROVE  PlanOK(RePlaced(p, pg, i, m, t))
<1> DEFINE q == RePlaced(p, pg, i, m, t)
           r == Uncommit(p, pg, m)
<1>1. /\ t \in Usable \ Sources /\ t \in Osd
      /\ ClassOf[t] = ClassOf[UpOf(pg, m.slot)]
      /\ HostOf[t] \notin OtherHosts(r, pg, m.slot)
      /\ Util(t, r.res[t] + Size(pg)) <= Cap
      /\ KeepsLevel(r, pg, m.slot, t)
  BY LegalFacts
<1>2. PlanTyped(p) /\ PlanShape(p) /\ Room(p) /\ Apart(p) /\ LevelInv(p) /\ SourcesInv(p)
  BY DEF PlanOK
<1>3. PlanTyped(r) /\ PlanShape(r) /\ m.slot \in Slots(cluster, pg) \ Changed(r, pg)
  BY <1>2, UncommitType, UncommitShape
<1>4. "requested" \in Roles
  BY DEF Roles
<1>5. q = Commit(r, pg, m.slot, t, "requested")
  BY DEF RePlaced
<1>6. PlanTyped(Commit(r, pg, m.slot, t, "requested"))
  <2> HIDE DEF r, q
  <2> QED
    BY <1>1, <1>3, <1>4, CommitType
<1>7. PlanShape(Commit(r, pg, m.slot, t, "requested"))
  <2> HIDE DEF r, q
  <2> QED
    BY <1>1, <1>3, <1>4, CommitShape
<1>8. PlanTyped(q) /\ PlanShape(q)
  BY <1>5, <1>6, <1>7
<1>9. Room(q)
  BY <1>1, <1>2, <1>8, RePlacedRoom
<1>10. Apart(q)
  BY <1>1, <1>2, RePlacedApart
<1>11. LevelInv(q) /\ SourcesInv(q)
  BY <1>1, <1>2, <1>8, RePlacedLevel
<1> QED
  BY <1>8, <1>9, <1>10, <1>11 DEF PlanOK

\* Pinning a blocker back keeps it.
LEMMA PinBackOK ==
  ASSUME ClusterTyped(cluster), Consistent(cluster), NEW p, PlanOK(p), NEW pg \in Pg,
         NEW i \in Slots(cluster, pg), CanPinBack(p, pg, i)
  PROVE  PlanOK(PinBack(p, pg, i))
<1>1. PlanTyped(p) /\ PlanShape(p) /\ Room(p) /\ Apart(p) /\ LevelInv(p) /\ SourcesInv(p)
  BY DEF PlanOK
<1>2. PinSlots(p, pg, i) # {} /\ PinSlots(p, pg, i) \intersect Changed(p, pg) = {}
  BY DEF CanPinBack
<1>3. PlanTyped(PinBack(p, pg, i))
  BY <1>1, <1>2, PinBackType
<1>4. PlanShape(PinBack(p, pg, i))
  BY <1>1, <1>2, PinBackShape
<1>5. Room(PinBack(p, pg, i))
  BY <1>1, <1>2, PinBackRoom
<1>6. Apart(PinBack(p, pg, i))
  BY <1>1, <1>2, PinBackApart
<1>7. LevelInv(PinBack(p, pg, i)) /\ SourcesInv(PinBack(p, pg, i))
  BY <1>1, PinBackLevel
<1> QED
  BY <1>3, <1>4, <1>5, <1>6, <1>7 DEF PlanOK

\* It holds before anything is proposed.
LEMMA InitOK ==
  ASSUME PlanInit
  PROVE  PlanInv
<1>1. /\ cluster \in Clusters
      /\ plan.res = cluster.res /\ plan.final = cluster.final
      /\ plan.newUp = cluster.up
      /\ plan.moves = [pg \in Pg |-> {}]
  BY DEF PlanInit
<1>2. ClusterTyped(cluster) /\ Consistent(cluster)
  BY <1>1, ClustersTyped
<1>3. \A pg \in Pg : plan.moves[pg] = {} /\ Changed(plan, pg) = {}
  BY <1>1 DEF Changed
<1>4. PlanTyped(plan)
  <2>1. plan.res \in [Osd -> Int] /\ plan.final \in [Osd -> Int] /\ DOMAIN plan.newUp = Pg
    BY <1>1, <1>2 DEF ClusterTyped
  <2>2. plan.moves \in [Pg -> SUBSET MoveRecords]
    BY <1>1
  <2>3. \A pg \in Pg : plan.newUp[pg] \in [Slots(cluster, pg) -> Osd \union {None}]
    BY <1>1, <1>2, ClusterFacts DEF Up
  <2> QED
    BY <1>3, <2>1, <2>2, <2>3 DEF PlanTyped
<1>5. PlanShape(plan)
  BY <1>1, <1>3 DEF PlanShape, UpOf, Up
<1>6. Apart(plan)
  BY <1>1, <1>2 DEF Apart, Consistent, CephConsistent
<1>7. Room(plan) /\ LevelInv(plan) /\ SourcesInv(plan)
  BY <1>3 DEF Room, LevelInv, SourcesInv, PinnedAt
<1>8. Requested(plan)
  BY <1>3 DEF Requested
<1> QED
  BY <1>1, <1>4, <1>5, <1>6, <1>7, <1>8 DEF PlanInv, PlanOK

\* Every step of a run keeps it.
LEMMA NextOK ==
  ASSUME PlanInv, [PlanNext]_vars
  PROVE  PlanInv'
<1>1. /\ ClusterTyped(cluster) /\ Consistent(cluster) /\ PlanOK(plan) /\ cluster \in Clusters
      /\ PlanTyped(plan) /\ Requested(plan)
  BY ClustersTyped DEF PlanInv, PlanOK
<1>2. \A s \in Shards : s[1] \in Pg /\ s[2] \in Slots(cluster, s[1])
  BY DEF Shards
<1>3. ASSUME NEW s \in Shards, NEW t \in Osd, MoveOff(s[1], s[2], t)
      PROVE  PlanOK(plan') /\ Requested(plan') /\ cluster' = cluster
  <2>1. /\ s[2] \notin Changed(plan, s[1]) /\ Legal(plan, s[1], s[2], t, {})
        /\ UpOf(s[1], s[2]) \in Sources
        /\ plan' = Commit(plan, s[1], s[2], t, "requested") /\ cluster' = cluster
    BY <1>3 DEF MoveOff
  <2>2. IsReal(UpOf(s[1], s[2])) /\ "requested" \in Roles
    BY <2>1 DEF IsReal, Roles
  <2>3. PlanOK(Commit(plan, s[1], s[2], t, "requested"))
    BY <1>1, <1>2, <2>1, <2>2, CommitOK
  <2>4. Requested(Commit(plan, s[1], s[2], t, "requested"))
    BY <1>1, <1>2, <2>1, CommitRequested
  <2> QED
    BY <2>1, <2>3, <2>4
<1>4. ASSUME NEW s \in Shards, NEW t \in Osd, Divert(s[1], s[2], t)
      PROVE  PlanOK(plan') /\ Requested(plan') /\ cluster' = cluster
  <2>1. /\ s[2] \notin Changed(plan, s[1]) /\ Legal(plan, s[1], s[2], t, {})
        /\ IsReal(UpOf(s[1], s[2])) /\ "blocker" \in Roles
        /\ plan' = Commit(plan, s[1], s[2], t, "blocker") /\ cluster' = cluster
    BY <1>4 DEF Divert, Blocker, IsBlocker, Arriving, UpOf, Roles
  <2>2. PlanOK(Commit(plan, s[1], s[2], t, "blocker"))
    BY <1>1, <1>2, <2>1, CommitOK
  <2>3. Requested(Commit(plan, s[1], s[2], t, "blocker"))
    BY <1>1, <1>2, CommitRequested
  <2> QED
    BY <2>1, <2>2, <2>3
<1>5. ASSUME NEW s \in Shards, PinBlocker(s[1], s[2])
      PROVE  PlanOK(plan') /\ Requested(plan') /\ cluster' = cluster
  <2>1. /\ CanPinBack(plan, s[1], s[2])
        /\ plan' = PinBack(plan, s[1], s[2]) /\ cluster' = cluster
    BY <1>5 DEF PinBlocker
  <2>2. PlanOK(PinBack(plan, s[1], s[2]))
    BY <1>1, <1>2, <2>1, PinBackOK
  <2>3. Requested(PinBack(plan, s[1], s[2]))
    BY <1>1, <1>2, PinBackRequested
  <2> QED
    BY <2>1, <2>2, <2>3
<1>6. ASSUME NEW s \in Shards, NEW t \in Osd, NEW m \in plan.moves[s[1]],
             PinElsewhere(s[1], s[2], m, t)
      PROVE  PlanOK(plan') /\ Requested(plan') /\ cluster' = cluster
  <2> DEFINE r == RePlaced(plan, s[1], s[2], m, t)
  <2>1. /\ m.role = "requested" /\ ~m.pin
        /\ Legal(Uncommit(plan, s[1], m), s[1], m.slot, t,
                 {HostOf[ActingOf(cluster, s[1], s[2])]})
        /\ CanPinBack(r, s[1], s[2])
        /\ plan' = PinBack(r, s[1], s[2]) /\ cluster' = cluster
    BY <1>6 DEF PinElsewhere, InTheWay, CanRePlace
  <2>2. PlanOK(r)
    <3>1. UpOf(s[1], m.slot) \in Sources
      BY <1>1, <1>2, <2>1 DEF Requested
    <3> QED
      BY <1>1, <1>2, <2>1, <3>1, RePlacedOK
  <2>3. Requested(r)
    BY <1>1, <1>2, <2>1, RePlacedRequested
  <2> HIDE DEF r
  <2>4. PlanOK(PinBack(r, s[1], s[2]))
    BY <1>1, <1>2, <2>1, <2>2, PinBackOK
  <2>5. Requested(PinBack(r, s[1], s[2]))
    BY <1>2, <2>2, <2>3, PinBackRequested DEF PlanOK
  <2> QED
    BY <2>1, <2>4, <2>5
<1>7. CASE UNCHANGED vars
  BY <1>1, <1>7 DEF vars, PlanInv, PlanOK, PlanTyped, PlanShape, Room, Apart,
                    NoneOntoSource, LevelInv, SourcesInv, PinnedAt, BelowLevel, Requested,
                    Changed, UpOf, Up, Slots
<1>8. ASSUME PlanOK(plan'), Requested(plan'), cluster' = cluster
      PROVE  PlanInv'
  BY <1>1, <1>8 DEF PlanInv, PlanOK, PlanTyped, PlanShape, Room, Apart,
                    NoneOntoSource, LevelInv, SourcesInv, PinnedAt, BelowLevel, Requested,
                    Changed, UpOf, Up, Slots
<1> QED
  BY <1>3, <1>4, <1>5, <1>6, <1>7, <1>8 DEF PlanNext

(* What holds of every plan a run may reach, whatever it started from.      *)

\* It holds throughout a run.
LEMMA Inductive == PlanSpec => []PlanInv
<1>1. PlanInit => PlanInv
  BY InitOK
<1>2. PlanInv /\ [PlanNext]_vars => PlanInv'
  BY NextOK
<1> QED
  BY <1>1, <1>2, PTL DEF PlanSpec

\* It implies each of the properties the theorems state.
LEMMA InvImplies ==
  ASSUME cluster \in Clusters, PlanOK(plan)
  PROVE  TypeOK /\ TargetsHaveRoom /\ UpSetsValid /\ LevelKept
<1>1. ClusterTyped(cluster)
  BY ClustersTyped
<1>2. PlanTyped(plan) /\ PlanShape(plan) /\ Room(plan) /\ Apart(plan)
      /\ LevelInv(plan) /\ SourcesInv(plan)
  BY DEF PlanOK
<1>3. \A x \in AllMoves(plan) : x[1] \in Pg /\ x[2] \in plan.moves[x[1]]
  BY DEF AllMoves
<1>4. TypeOK
  BY <1>1, <1>2 DEF TypeOK
<1>5. TargetsHaveRoom
  BY <1>2, <1>3 DEF TargetsHaveRoom, Room, PlanShape
<1>6. UpSetsValid
  BY <1>2 DEF UpSetsValid, Apart, NoneOntoSource
<1>7. \A o : o \in PinnedOnto(plan) <=> PinnedAt(plan, o)
  <2>1. \A g \in Pg : \A m \in plan.moves[g] : m.pin => m.to \in PinnedOnto(plan)
    <3> SUFFICES ASSUME NEW g \in Pg, NEW m \in plan.moves[g], m.pin
                 PROVE  m.to \in PinnedOnto(plan)
      OBVIOUS
    <3>1. <<g, m>> \in Pins(plan) /\ <<g, m>>[2].to = m.to
      BY DEF Pins, AllMoves
    <3> QED
      BY <3>1 DEF PinnedOnto
  <2>2. \A x \in Pins(plan) : PinnedAt(plan, x[2].to)
    BY <1>3 DEF Pins, PinnedAt
  <2> QED
    BY <2>1, <2>2 DEF PinnedOnto, PinnedAt
<1>8. TargetsBelowLevel
  BY <1>2, <1>3, <1>7 DEF TargetsBelowLevel, LevelInv
<1>9. PinnedSourceBelowLevel
  BY <1>2, <1>7 DEF PinnedSourceBelowLevel, SourcesInv
<1> QED
  BY <1>4, <1>5, <1>6, <1>8, <1>9 DEF LevelKept

\* The plan is always one of the planner's: a shard has a slot and one OSD to go to,
\* and the projections are total (Planner's tables).
THEOREM PlanIsTyped == PlanSpec => []TypeOK
<1>1. PlanInv => TypeOK
  BY InvImplies DEF PlanInv
<1> QED
  BY <1>1, Inductive, PTL

\* Whatever is moved, redirected and pinned, in any order, no target of a move is
\* reserved past --max-target-util (place, commit, uncommit, pin).
THEOREM RoomForAll == PlanSpec => []TargetsHaveRoom
<1>1. PlanInv => TargetsHaveRoom
  BY InvImplies DEF PlanInv
<1> QED
  BY <1>1, Inductive, PTL

\* The up set planned for a PG never has two shards on one host or OSD, unless the
\* run pinned data of the PG onto a source (place, close_pins, pin_replica).
THEOREM HostsStayApart == PlanSpec => []UpSetsValid
<1>1. PlanInv => UpSetsValid
  BY InvImplies DEF PlanInv
<1> QED
  BY <1>1, Inductive, PTL

\* Targets the level binds and sources that take a pin are below the level in every
\* plan, so in the one printed (place's level test, try_pin's).
THEOREM LevelsHold == PlanSpec => []LevelKept
<1>1. PlanInv => LevelKept
  BY InvImplies DEF PlanInv
<1> QED
  BY <1>1, Inductive, PTL

-----------------------------------------------------------------------------
(* The relief rule: a shard is moved only to where every OSD that relieved  *)
(* another stays below it.                                                  *)

\* r = <<relieved, target>>: the target's final projection is the lower one.
Ordered(p, r) == r[1] \in Sized => FinalUtil(p, r[2]) < FinalUtil(p, r[1])

\* A pair of the relief is that of a move that is no pin.
LEMMA ReliefIs ==
  ASSUME NEW p
  PROVE  /\ \A r \in Relief(p) : \E g \in Pg : \E m \in p.moves[g] :
              ~m.pin /\ r = <<UpOf(g, m.slot), m.to>>
         /\ \A g \in Pg : \A m \in p.moves[g] :
              ~m.pin => <<UpOf(g, m.slot), m.to>> \in Relief(p)
<1> DEFINE A == UNION {{g} \X p.moves[g] : g \in Pg}
<1>1. \A x \in A : x[1] \in Pg /\ x[2] \in p.moves[x[1]]
  OBVIOUS
<1>2. ASSUME NEW g \in Pg, NEW m \in p.moves[g] PROVE <<g, m>> \in A
  OBVIOUS
<1>3. Relief(p) = {<<UpOf(pm[1], pm[2].slot), pm[2].to>> : pm \in {x \in A : ~x[2].pin}}
  BY DEF Relief
<1> HIDE DEF A
<1>4. \A r \in Relief(p) : \E g \in Pg : \E m \in p.moves[g] :
        ~m.pin /\ r = <<UpOf(g, m.slot), m.to>>
  BY <1>1, <1>3
<1>5. ASSUME NEW g \in Pg, NEW m \in p.moves[g], ~m.pin
      PROVE  <<UpOf(g, m.slot), m.to>> \in Relief(p)
  <2>1. <<g, m>> \in {x \in A : ~x[2].pin} /\ <<g, m>>[1] = g /\ <<g, m>>[2] = m
    BY <1>2, <1>5
  <2> QED
    BY <1>3, <2>1
<1> QED
  BY <1>4, <1>5

\* A target of the relief is an OSD with a capacity figure.
LEMMA ReliefType ==
  ASSUME NEW p, PlanTyped(p), PlanShape(p), NEW r \in Relief(p)
  PROVE  r = <<r[1], r[2]>> /\ r[2] \in Sized
<1>1. PICK g \in Pg : \E m \in p.moves[g] : ~m.pin /\ r = <<UpOf(g, m.slot), m.to>>
  BY ReliefIs
<1>2. PICK m \in p.moves[g] : ~m.pin /\ r = <<UpOf(g, m.slot), m.to>>
  BY <1>1
<1>3. m.to \in Usable
  BY <1>2 DEF PlanShape
<1> QED
  BY <1>2, <1>3

\* A committed move adds its own pair and no other.
LEMMA CommitRelief ==
  ASSUME NEW p, PlanTyped(p), NEW pg \in Pg, NEW i, NEW t, NEW role
  PROVE  Relief(Commit(p, pg, i, t, role)) = Relief(p) \union {<<UpOf(pg, i), t>>}
<1> DEFINE q == Commit(p, pg, i, t, role)
           record == CommittedMove(i, t, role)
<1>1. q.moves = [p.moves EXCEPT ![pg] = @ \union {record}]
  BY DEF Commit
<1>2. DOMAIN p.moves = Pg
  BY DEF PlanTyped
<1>3. \A g \in Pg : q.moves[g] = IF g = pg THEN p.moves[pg] \union {record} ELSE p.moves[g]
  BY <1>1, <1>2
<1>4. ~record.pin /\ record.slot = i /\ record.to = t
  BY DEF CommittedMove
<1> HIDE DEF q, record
<1>5. ASSUME NEW r \in Relief(q) PROVE r \in Relief(p) \union {<<UpOf(pg, i), t>>}
  <2>0. PICK g \in Pg : \E m \in q.moves[g] : ~m.pin /\ r = <<UpOf(g, m.slot), m.to>>
    BY ReliefIs
  <2>1. PICK m \in q.moves[g] : ~m.pin /\ r = <<UpOf(g, m.slot), m.to>>
    BY <2>0
  <2>2. CASE m \in p.moves[g]
    BY <2>1, <2>2, ReliefIs
  <2>3. CASE m \notin p.moves[g]
    <3>1. g = pg /\ m = record
      BY <1>3, <2>3
    <3> QED
      BY <1>4, <2>1, <3>1
  <2> QED
    BY <2>2, <2>3
<1>6. ASSUME NEW r \in Relief(p) PROVE r \in Relief(q)
  <2>0. PICK g \in Pg : \E m \in p.moves[g] : ~m.pin /\ r = <<UpOf(g, m.slot), m.to>>
    BY ReliefIs
  <2>1. PICK m \in p.moves[g] : ~m.pin /\ r = <<UpOf(g, m.slot), m.to>>
    BY <2>0
  <2>2. m \in q.moves[g]
    BY <1>3
  <2> QED
    BY <2>1, <2>2, ReliefIs
<1>7. <<UpOf(pg, i), t>> \in Relief(q)
  <2>1. record \in q.moves[pg]
    BY <1>3
  <2> QED
    BY <1>4, <2>1, ReliefIs
<1> QED
  BY <1>5, <1>6, <1>7 DEF q

\* Committing a legal move puts its pair in order and leaves every other so.
LEMMA CommitOrder ==
  ASSUME ClusterTyped(cluster), NEW p, PlanTyped(p), PlanShape(p), NEW pg \in Pg,
         NEW i \in Slots(cluster, pg), IsReal(UpOf(pg, i)),
         NEW t, Legal(p, pg, i, t, {}), Relieve, NEW role
  PROVE  LET q == Commit(p, pg, i, t, role)
         IN  /\ \A r \in Relief(p) : Ordered(p, r) => Ordered(q, r)
             /\ Ordered(q, <<UpOf(pg, i), t>>)
<1> DEFINE q == Commit(p, pg, i, t, role)
           u == UpOf(pg, i)
           left == Util(u, p.final[u] - Size(pg))
           after == Util(t, p.final[t] + Size(pg))
<1>1. /\ t \in Sized /\ t \in Osd /\ u \in Osd /\ t # u
      /\ KeepsRelief(p, pg, i, t)
  <2>1. t \in Usable /\ t \notin UpOsds(cluster, pg) /\ KeepsRelief(p, pg, i, t)
    BY DEF Legal, FixedForbidden
  <2>2. Up(cluster, pg) \in [Slots(cluster, pg) -> Osd \union {None}]
    BY ClusterFacts
  <2>3. u \in Osd /\ u \in UpOsds(cluster, pg)
    BY <2>2 DEF UpOf, UpOsds, RealOsds, ToSet, IsReal, Up
  <2> QED
    BY <2>1, <2>3
<1>2. Size(pg) \in Nat /\ p.final \in [Osd -> Int]
  BY ClusterFacts DEF PlanTyped
<1>3. ASSUME NEW o \in Osd
      PROVE  q.final[o] = p.final[o] - Moved(pg, u, o) + Moved(pg, t, o)
  <2>1. Commit(p, pg, i, t, role).final[o] =
          p.final[o] - Moved(pg, UpOf(pg, i), o) + Moved(pg, t, o)
    <3> HIDE DEF q, u, left, after
    <3> QED
      BY CommitUsage
  <2> QED
    BY <2>1
<1> HIDE DEF q, u, left, after
<1>3a. \A o \in Osd : p.final[o] \in Int
  BY <1>2
<1>3b. Moved(pg, u, t) = 0 /\ Moved(pg, t, t) = Size(pg)
  BY <1>1 DEF Moved
<1>3c. u \in Sized => Moved(pg, u, u) = Size(pg) /\ Moved(pg, t, u) = 0
  BY <1>1 DEF Moved
<1>4. q.final[t] = p.final[t] + Size(pg)
  BY <1>1, <1>2, <1>3, <1>3a, <1>3b
<1>5. u \in Sized => q.final[u] = p.final[u] - Size(pg)
  BY <1>1, <1>2, <1>3, <1>3a, <1>3c
<1>6. \A o \in Osd \ {t, u} : q.final[o] = p.final[o]
  <2> SUFFICES ASSUME NEW o \in Osd \ {t, u} PROVE q.final[o] = p.final[o]
    OBVIOUS
  <2>1. Moved(pg, u, o) = 0 /\ Moved(pg, t, o) = 0
    BY DEF Moved
  <2>2. q.final[o] = p.final[o] - Moved(pg, u, o) + Moved(pg, t, o)
    BY <1>3
  <2>3. p.final[o] \in Int
    BY <1>3a
  <2>4. \A n \in Int : n - 0 + 0 = n
    OBVIOUS
  <2> QED
    BY <2>1, <2>2, <2>3, <2>4
<1>7. \A o \in Osd, n \in Int : Util(o, n) \in Int
  <2>1. \A o \in Osd : Weight[o] \in Int
    OBVIOUS
  <2> QED
    BY <2>1 DEF Util
<1>8. \A o \in Osd : p.final[o] \in Int /\ q.final[o] \in Int
  <2>1. \A o \in Osd : Moved(pg, u, o) \in Int /\ Moved(pg, t, o) \in Int
    BY <1>2 DEF Moved
  <2> QED
    BY <1>3, <1>3a, <2>1
<1>9. \A o \in Osd \ {t} : FinalUtil(q, o) <= FinalUtil(p, o)
  <2> SUFFICES ASSUME NEW o \in Osd \ {t} PROVE FinalUtil(q, o) <= FinalUtil(p, o)
    OBVIOUS
  <2>1. q.final[o] <= p.final[o]
    BY <1>2, <1>3, <1>8 DEF Moved
  <2> QED
    BY <1>8, <2>1, UtilMonotone DEF FinalUtil
<1>10. \A o \in Osd \ {u} : FinalUtil(p, o) <= FinalUtil(q, o)
  <2> SUFFICES ASSUME NEW o \in Osd \ {u} PROVE FinalUtil(p, o) <= FinalUtil(q, o)
    OBVIOUS
  <2>1. p.final[o] <= q.final[o]
    BY <1>2, <1>3, <1>8 DEF Moved
  <2> QED
    BY <1>8, <2>1, UtilMonotone DEF FinalUtil
<1>11. \A o \in Osd : FinalUtil(p, o) \in Int /\ FinalUtil(q, o) \in Int
  BY <1>7, <1>8 DEF FinalUtil
<1>12. FinalUtil(q, t) = after /\ (u \in Sized => FinalUtil(q, u) = left)
  BY <1>4, <1>5 DEF FinalUtil, left, after
<1>13. Ordered(q, <<u, t>>)
  BY <1>1, <1>12 DEF Ordered, KeepsRelief, u, left, after
<1>14. ASSUME NEW r \in Relief(p), Ordered(p, r) PROVE Ordered(q, r)
  <2> DEFINE a == r[1]
             b == r[2]
  <2>1. r = <<a, b>> /\ b \in Sized /\ b \in Osd
    BY ReliefType
  <2> SUFFICES ASSUME a \in Sized PROVE FinalUtil(q, b) < FinalUtil(q, a)
    BY DEF Ordered
  <2>2. FinalUtil(p, b) < FinalUtil(p, a) /\ a \in Osd
    BY <1>14 DEF Ordered
  <2>3. a # b
    BY <1>11, <2>1, <2>2
  <2>4. b \in SentTo(p, a) /\ a \in Relieved(p, b)
    BY <2>1 DEF SentTo, Relieved
  <2> HIDE DEF a, b
  <2>5. CASE a = u /\ b = t
    BY <1>13, <2>5 DEF Ordered
  <2>6. CASE a = u /\ b # t
    <3>1. FinalUtil(p, b) < left
      BY <1>1, <2>1, <2>4, <2>6 DEF KeepsRelief, u, left
    <3>2. FinalUtil(q, b) = FinalUtil(p, b)
      BY <1>6, <2>1, <2>3, <2>6 DEF FinalUtil
    <3> QED
      BY <1>12, <2>6, <3>1, <3>2
  <2>7. CASE a # u /\ b = t
    <3>1. after < FinalUtil(p, a)
      BY <1>1, <2>4, <2>7 DEF KeepsRelief, after
    <3>2. FinalUtil(q, a) = FinalUtil(p, a)
      BY <1>6, <2>2, <2>3, <2>7 DEF FinalUtil
    <3> QED
      BY <1>12, <2>7, <3>1, <3>2
  <2>8. CASE a # u /\ b # t
    <3>1. FinalUtil(q, b) <= FinalUtil(p, b) /\ FinalUtil(p, a) <= FinalUtil(q, a)
      BY <1>9, <1>10, <2>1, <2>2, <2>8
    <3> QED
      BY <1>11, <2>1, <2>2, <3>1
  <2> QED
    BY <2>5, <2>6, <2>7, <2>8
<1> QED
  BY <1>13, <1>14 DEF q, u

\* Each move of a PG is one of all.
LEMMA MoveIsOne ==
  ASSUME NEW p, NEW pg \in Pg, NEW m \in p.moves[pg]
  PROVE  <<pg, m>> \in AllMoves(p)
<1>1. {pg} \X p.moves[pg] \in {{g} \X p.moves[g] : g \in Pg}
  OBVIOUS
<1>2. <<pg, m>> \in {pg} \X p.moves[pg]
  OBVIOUS
<1> QED
  BY <1>1, <1>2 DEF AllMoves

\* A step that pins a blocker adds a pin.
LEMMA PinBackPins ==
  ASSUME ClusterTyped(cluster), NEW p, PlanTyped(p), NEW pg \in Pg,
         NEW i \in Slots(cluster, pg), PinSlots(p, pg, i) # {}
  PROVE  \E m \in PinBack(p, pg, i).moves[pg] : m.pin /\ m.slot = i
<1> DEFINE m == [slot |-> i, to |-> PinTo(pg, i), pin |-> TRUE, role |-> "blocker"]
<1>1. i \in PinSlots(p, pg, i)
  BY PinSlotsType
<1>2. DOMAIN p.moves = Pg
  BY DEF PlanTyped
<1>3. m \in PinBack(p, pg, i).moves[pg]
  BY <1>1, <1>2 DEF PinBack
<1> QED
  BY <1>3

\* A step of a run keeps the order of the relief.
LEMMA ReliefNext ==
  ASSUME PlanInv, [PlanNext]_vars
  PROVE  ReliefStep
<1> SUFFICES ASSUME Relieve, Pins(plan)' = Pins(plan)
             PROVE  /\ \A r \in Relief(plan) \intersect Relief(plan)' :
                         Ordered(plan, r) => Ordered(plan', r)
                    /\ \A r \in Relief(plan)' \ Relief(plan) : Ordered(plan', r)
  BY DEF ReliefStep, Ordered
<1>1. /\ ClusterTyped(cluster) /\ PlanTyped(plan) /\ PlanShape(plan) /\ PlanOK(plan)
      /\ Consistent(cluster) /\ Requested(plan)
  BY ClustersTyped DEF PlanInv, PlanOK
<1>2. \A s \in Shards : s[1] \in Pg /\ s[2] \in Slots(cluster, s[1])
  BY DEF Shards
<1>3. CASE UNCHANGED vars
  <2>1. plan' = plan /\ cluster' = cluster
    BY <1>3 DEF vars
  <2>2. Relief(plan)' = Relief(plan)
    BY <2>1 DEF Relief, UpOf, Up
  <2> QED
    BY <2>1, <2>2
<1>4. ASSUME NEW pg \in Pg, NEW i \in Slots(cluster, pg), NEW t \in Osd, NEW role,
             IsReal(UpOf(pg, i)), Legal(plan, pg, i, t, {}),
             plan' = Commit(plan, pg, i, t, role), cluster' = cluster
      PROVE  /\ \A r \in Relief(plan) \intersect Relief(plan)' :
                  Ordered(plan, r) => Ordered(plan', r)
             /\ \A r \in Relief(plan)' \ Relief(plan) : Ordered(plan', r)
  <2>1. Relief(plan)' = Relief(plan')
    BY <1>4 DEF Relief, UpOf, Up
  <2>2. Relief(plan') = Relief(plan) \union {<<UpOf(pg, i), t>>}
    BY <1>1, <1>4, CommitRelief
  <2>3. /\ \A r \in Relief(plan) : Ordered(plan, r) => Ordered(plan', r)
        /\ Ordered(plan', <<UpOf(pg, i), t>>)
    BY <1>1, <1>4, CommitOrder
  <2> QED
    BY <2>1, <2>2, <2>3
<1>5. ASSUME NEW s \in Shards, NEW t \in Osd, MoveOff(s[1], s[2], t)
      PROVE  ReliefStep
  <2>1. /\ UpOf(s[1], s[2]) \in Sources /\ Legal(plan, s[1], s[2], t, {})
        /\ plan' = Commit(plan, s[1], s[2], t, "requested") /\ cluster' = cluster
    BY <1>5 DEF MoveOff
  <2>2. IsReal(UpOf(s[1], s[2]))
    BY <2>1 DEF IsReal
  <2> QED
    BY <1>2, <1>4, <2>1, <2>2 DEF ReliefStep, Ordered
<1>6. ASSUME NEW s \in Shards, NEW t \in Osd, Divert(s[1], s[2], t)
      PROVE  ReliefStep
  <2>1. /\ IsReal(UpOf(s[1], s[2])) /\ Legal(plan, s[1], s[2], t, {})
        /\ plan' = Commit(plan, s[1], s[2], t, "blocker") /\ cluster' = cluster
    BY <1>6 DEF Divert, Blocker, IsBlocker, Arriving, UpOf
  <2> QED
    BY <1>2, <1>4, <2>1 DEF ReliefStep, Ordered
<1>7. ASSUME NEW pg \in Pg, NEW i \in Slots(cluster, pg), i \notin Changed(plan, pg),
             NEW p, PlanTyped(p), CanPinBack(p, pg, i), plan' = PinBack(p, pg, i)
      PROVE  FALSE
  <2>0. PinSlots(p, pg, i) # {}
    BY <1>7 DEF CanPinBack
  <2>1. PICK m \in PinBack(p, pg, i).moves[pg] : m.pin /\ m.slot = i
    BY <1>1, <1>7, <2>0, PinBackPins
  <2> DEFINE x == <<pg, m>>
  <2>2. x \in AllMoves(plan') /\ x[2] = m
    BY <1>7, MoveIsOne
  <2>3. x \in Pins(plan)'
    BY <2>1, <2>2 DEF Pins, AllMoves
  <2>4. x \in AllMoves(plan)
    BY <2>3 DEF Pins
  <2>5. m \in plan.moves[pg]
    BY <2>4 DEF AllMoves
  <2> QED
    BY <1>7, <2>1, <2>5 DEF Changed
<1>8. ASSUME NEW s \in Shards, PinBlocker(s[1], s[2])
      PROVE  FALSE
  <2>1. /\ s[2] \notin Changed(plan, s[1]) /\ CanPinBack(plan, s[1], s[2])
        /\ plan' = PinBack(plan, s[1], s[2])
    BY <1>8 DEF PinBlocker, Blocker
  <2> QED
    BY <1>1, <1>2, <1>7, <2>1
<1>9. ASSUME NEW s \in Shards, NEW t \in Osd, NEW m \in plan.moves[s[1]],
             PinElsewhere(s[1], s[2], m, t)
      PROVE  FALSE
  <2> DEFINE r == RePlaced(plan, s[1], s[2], m, t)
  <2>1. /\ m.role = "requested" /\ ~m.pin /\ s[2] \notin Changed(plan, s[1])
        /\ Legal(Uncommit(plan, s[1], m), s[1], m.slot, t,
                 {HostOf[ActingOf(cluster, s[1], s[2])]})
        /\ CanPinBack(r, s[1], s[2])
        /\ plan' = PinBack(r, s[1], s[2])
    BY <1>9 DEF PinElsewhere, InTheWay, CanRePlace, Blocker
  <2>2. PlanTyped(r)
    <3>1. UpOf(s[1], m.slot) \in Sources
      BY <1>1, <1>2, <2>1 DEF Requested
    <3> QED
      BY <1>1, <1>2, <2>1, <3>1, RePlacedOK DEF PlanOK
  <2> HIDE DEF r
  <2> QED
    BY <1>2, <1>7, <2>1, <2>2
<1> QED
  BY <1>3, <1>5, <1>6, <1>8, <1>9 DEF PlanNext, ReliefStep, Ordered

\* However the moves of a run are interleaved, none takes a target to or above an OSD that it
\* relieved, or an OSD to or below one of its targets, unless by pinning (place's test of
\* the relieved and the relieving; commit's bookkeeping of who relieved whom).
THEOREM ReliefHolds == PlanSpec => ReliefKept
<1>1. PlanInv /\ [PlanNext]_vars => ReliefStep
  BY ReliefNext
<1>2. PlanInv /\ [PlanNext]_vars => [ReliefStep]_vars
  BY <1>1
<1> QED
  BY <1>2, Inductive, PTL DEF PlanSpec, ReliefKept

-----------------------------------------------------------------------------
(* Applied as planned: what Ceph will make of the proposals.                *)

\* A planned up set has no OSD twice; its moves change what they move; they are of a PG
\* whose pairs do not chain, with them or without.
Sound(p, pg) ==
  /\ OsdsDistinct(p.newUp[pg])
  /\ \A m \in p.moves[pg] : IsReal(UpOf(pg, m.slot)) /\ m.to # UpOf(pg, m.slot)
  /\ p.moves[pg] # {} => ~Chained(cluster.pairs[pg]) /\ ~Chains(p, pg, {})

AllSound(p) == \A pg \in Pg : Sound(p, pg)

\* No OSD is twice in an up set, or in an acting set.
LEMMA FetchedDistinct ==
  ASSUME Consistent(cluster), NEW pg \in Pg
  PROVE  OsdsDistinct(Up(cluster, pg)) /\ OsdsDistinct(cluster.acting[pg])
<1>1. HostsDistinct(cluster.up[pg]) /\ HostsDistinct(cluster.acting[pg])
  BY DEF Consistent, CephConsistent
<1>2. \A a : SamePlace(a, a)
  BY DEF SamePlace
<1> QED
  BY <1>1, <1>2 DEF OsdsDistinct, HostsDistinct, Up

\* A legal target is in none of the PG's sets, nor the target of another of its moves.
LEMMA TargetIsNew ==
  ASSUME NEW p, NEW pg, NEW i, NEW t, NEW avoid, Legal(p, pg, i, t, avoid)
  PROVE  /\ t \in Osd /\ IsReal(t) /\ t \notin UpOsds(cluster, pg)
         /\ \A m \in p.moves[pg] : m.to # t
         /\ ~Chains(p, pg, {<<UpOf(pg, i), t>>})
BY DEF Legal, FixedForbidden, IsReal

\* A slot may take an OSD that is on no other.
LEMMA PlaceDistinct ==
  ASSUME NEW up, OsdsDistinct(up), NEW i \in DOMAIN up, NEW t,
         \A j \in DOMAIN up \ {i} : IsReal(up[j]) => up[j] # t
  PROVE  OsdsDistinct([up EXCEPT ![i] = t])
BY DEF OsdsDistinct, IsReal

\* A planned slot has its up OSD, or the target of its move.
LEMMA SlotOf ==
  ASSUME NEW p, PlanTyped(p), PlanShape(p), NEW pg \in Pg, NEW j \in Slots(cluster, pg)
  PROVE  \/ p.newUp[pg][j] = UpOf(pg, j)
         \/ \E m \in p.moves[pg] : m.slot = j /\ m.to = p.newUp[pg][j]
<1>1. CASE j \in Changed(p, pg)
  <2>1. PICK m \in p.moves[pg] : m.slot = j
    BY <1>1 DEF Changed
  <2> QED
    BY <2>1 DEF PlanShape
<1>2. CASE j \notin Changed(p, pg)
  BY <1>2 DEF PlanShape
<1> QED
  BY <1>1, <1>2

\* A real OSD of the up set is one of UpOsds.
LEMMA UpIsUp ==
  ASSUME NEW pg \in Pg, NEW j \in Slots(cluster, pg), IsReal(UpOf(pg, j))
  PROVE  UpOf(pg, j) \in UpOsds(cluster, pg)
BY DEF UpOf, Up, UpOsds, RealOsds, ToSet, Slots

\* Moves with other pairs of the same PG make the same set of pairs, in the same order.
LEMMA SameChains ==
  ASSUME NEW p, NEW q, NEW pg, NEW added, Pairs(q, pg) = Pairs(p, pg) \union added,
         ~Chains(p, pg, added)
  PROVE  ~Chains(q, pg, {})
<1>1. Pairs(q, pg) \union {} = Pairs(p, pg) \union added
  OBVIOUS
<1> QED
  BY <1>1 DEF Chains

\* A committed move leaves every PG sound.
LEMMA CommitSound ==
  ASSUME NEW p, PlanTyped(p), PlanShape(p), AllSound(p), NEW pg \in Pg,
         NEW i \in Slots(cluster, pg), IsReal(UpOf(pg, i)), ~Chained(cluster.pairs[pg]),
         NEW t, NEW avoid, Legal(p, pg, i, t, avoid), NEW role
  PROVE  AllSound(Commit(p, pg, i, t, role))
<1> DEFINE q == Commit(p, pg, i, t, role)
           record == CommittedMove(i, t, role)
<1>1. /\ q.newUp = [p.newUp EXCEPT ![pg][i] = t]
      /\ q.moves = [p.moves EXCEPT ![pg] = @ \union {record}]
      /\ record.slot = i /\ record.to = t
  BY DEF Commit, CommittedMove
<1>2. /\ t \in Osd /\ IsReal(t) /\ t \notin UpOsds(cluster, pg)
      /\ \A m \in p.moves[pg] : m.to # t
      /\ ~Chains(p, pg, {<<UpOf(pg, i), t>>})
  BY TargetIsNew
<1>3. DOMAIN p.newUp = Pg /\ DOMAIN p.moves = Pg /\ DOMAIN p.newUp[pg] = Slots(cluster, pg)
  BY DEF PlanTyped
<1> SUFFICES ASSUME NEW g \in Pg PROVE Sound(q, g)
  BY DEF AllSound
<1>4. CASE g # pg
  <2>1. q.newUp[g] = p.newUp[g] /\ q.moves[g] = p.moves[g]
    BY <1>1, <1>3, <1>4
  <2>2. Pairs(q, g) = Pairs(p, g)
    BY <2>1 DEF Pairs
  <2> QED
    BY <2>1, <2>2 DEF AllSound, Sound, Chains
<1>5. CASE g = pg
  <2>1. q.newUp[pg] = [p.newUp[pg] EXCEPT ![i] = t] /\ q.moves[pg] = p.moves[pg] \union {record}
    BY <1>1, <1>3
  <2>2. \A j \in Slots(cluster, pg) \ {i} : IsReal(p.newUp[pg][j]) => p.newUp[pg][j] # t
    BY <1>2, SlotOf, UpIsUp
  <2>3. OsdsDistinct(q.newUp[pg])
    BY <1>3, <2>1, <2>2, PlaceDistinct DEF AllSound, Sound
  <2>4. \A m \in q.moves[pg] : IsReal(UpOf(pg, m.slot)) /\ m.to # UpOf(pg, m.slot)
    <3>1. t # UpOf(pg, i)
      BY <1>2, UpIsUp
    <3> QED
      BY <1>1, <2>1, <3>1 DEF AllSound, Sound
  <2>5. Pairs(q, pg) = Pairs(p, pg) \union {<<UpOf(pg, i), t>>}
    BY <1>1, <2>1 DEF Pairs
  <2>6. ~Chains(q, pg, {})
    <3> HIDE DEF q
    <3> QED
      BY <1>2, <2>5, SameChains
  <2> QED
    BY <1>5, <2>3, <2>4, <2>6 DEF Sound
<1> QED
  BY <1>4, <1>5

\* So does the re-placed move, though the shard it takes back may for a while be on the
\* OSD of another.
LEMMA RePlacedSound ==
  ASSUME NEW p, PlanTyped(p), PlanShape(p), AllSound(p), NEW pg \in Pg, NEW i,
         NEW m \in p.moves[pg], NEW t, NEW avoid,
         Legal(Uncommit(p, pg, m), pg, m.slot, t, avoid)
  PROVE  AllSound(RePlaced(p, pg, i, m, t))
<1> DEFINE q == RePlaced(p, pg, i, m, t)
           r == Uncommit(p, pg, m)
           k == m.slot
           record == CommittedMove(k, t, "requested")
<1>1. /\ DOMAIN p.newUp = Pg /\ DOMAIN p.moves = Pg /\ DOMAIN p.newUp[pg] = Slots(cluster, pg)
      /\ k \in Slots(cluster, pg)
  BY DEF PlanTyped, Changed
<1>2. /\ r.moves = [p.moves EXCEPT ![pg] = @ \ {m}]
      /\ q.moves = [r.moves EXCEPT ![pg] = @ \union {record}]
      /\ r.newUp = [p.newUp EXCEPT ![pg][k] = UpOf(pg, k)]
      /\ q.newUp = [r.newUp EXCEPT ![pg][k] = t]
      /\ record.slot = k /\ record.to = t
  BY DEF RePlaced, Commit, Uncommit, CommittedMove
<1>3. /\ t \in Osd /\ IsReal(t) /\ t \notin UpOsds(cluster, pg)
      /\ \A n \in r.moves[pg] : n.to # t
      /\ ~Chains(r, pg, {<<UpOf(pg, k), t>>})
  <2> HIDE DEF r, k
  <2> QED
    BY TargetIsNew DEF r, k
<1> SUFFICES ASSUME NEW g \in Pg PROVE Sound(q, g)
  BY DEF AllSound
<1>4. CASE g # pg
  <2>1. q.newUp[g] = p.newUp[g] /\ q.moves[g] = p.moves[g]
    BY <1>1, <1>2, <1>4
  <2>2. Pairs(q, g) = Pairs(p, g)
    BY <2>1 DEF Pairs
  <2> HIDE DEF q, r
  <2> QED
    BY <2>1, <2>2 DEF AllSound, Sound, Chains
<1>5. CASE g = pg
  <2>1. /\ q.newUp[pg] = [p.newUp[pg] EXCEPT ![k] = t]
        /\ r.moves[pg] = p.moves[pg] \ {m}
        /\ q.moves[pg] = r.moves[pg] \union {record}
    BY <1>1, <1>2
  <2> HIDE DEF q, r, record
  <2>2. \A j \in Slots(cluster, pg) \ {k} : IsReal(p.newUp[pg][j]) => p.newUp[pg][j] # t
    <3> SUFFICES ASSUME NEW j \in Slots(cluster, pg) \ {k}, IsReal(p.newUp[pg][j]),
                        p.newUp[pg][j] = t
                 PROVE  FALSE
      OBVIOUS
    <3>1. p.newUp[pg][j] # UpOf(pg, j)
      BY <1>3, UpIsUp
    <3>2. PICK n \in p.moves[pg] : n.slot = j /\ n.to = t
      <4>1. j \in Slots(cluster, pg)
        OBVIOUS
      <4>2. \E n \in p.moves[pg] : n.slot = j /\ n.to = p.newUp[pg][j]
        BY <3>1, <4>1, SlotOf
      <4> QED
        BY <4>2
    <3>3. n \in r.moves[pg]
      BY <2>1, <3>2
    <3> QED
      BY <1>3, <3>2, <3>3
  <2>3. OsdsDistinct(q.newUp[pg])
    BY <1>1, <2>1, <2>2, PlaceDistinct DEF AllSound, Sound
  <2>4. IsReal(UpOf(pg, k)) /\ ~Chained(cluster.pairs[pg])
    BY DEF AllSound, Sound
  <2>5. \A n \in q.moves[pg] : IsReal(UpOf(pg, n.slot)) /\ n.to # UpOf(pg, n.slot)
    <3>1. t # UpOf(pg, k)
      BY <1>1, <1>3, <2>4, UpIsUp
    <3> QED
      BY <1>2, <2>1, <2>4, <3>1 DEF AllSound, Sound
  <2>6. Pairs(q, pg) = Pairs(r, pg) \union {<<UpOf(pg, k), t>>}
    BY <1>2, <2>1 DEF Pairs
  <2>7. ~Chains(q, pg, {})
    BY <1>3, <2>6, SameChains
  <2> QED
    BY <1>5, <2>3, <2>4, <2>5, <2>7 DEF Sound
<1> QED
  BY <1>4, <1>5

\* Where a replica that arrives has its data, if that is known, it departs.
LEMMA ReplicaSource ==
  ASSUME NEW pg \in Pg, ~Ec[pg], NEW i \in Slots(cluster, pg), Arriving(cluster, pg, i),
         PinSource(pg, i) # None
  PROVE  /\ PinSource(pg, i) \in DepartingOsds(cluster, pg)
         /\ PinSource(pg, i) # UpOf(pg, i)
<1> DEFINE gone == ActingOsds(cluster, pg) \ UpOsds(cluster, pg)
<1>1. \A S : TheOnly(S) # None => TheOnly(S) \in S
  <2> SUFFICES ASSUME NEW S, HasOne(S) PROVE (CHOOSE o \in S : TRUE) \in S
    BY DEF TheOnly
  <2>1. PICK o \in S : S = {o}
    BY DEF HasOne
  <2> QED
    BY <2>1
<1>2. DepartingOsds(cluster, pg) = gone
  BY DEF DepartingOsds
<1>3. UpOf(pg, i) \in UpOsds(cluster, pg)
  BY UpIsUp DEF Arriving, UpOf
<1>4. ActingOf(cluster, pg, i) # UpOf(pg, i)
  BY DEF Arriving, UpOf
<1>5. ActingOf(cluster, pg, i) \in {TheOnly(gone), None}
  BY <1>4 DEF ActingOf, UpOf
<1>6. PinSource(pg, i) = TheOnly(gone)
  BY <1>5 DEF PinSource
<1> QED
  BY <1>1, <1>2, <1>3, <1>6

\* What pinning a blocker back takes: shards that arrive, each to an OSD it departs from,
\* one that no other shard of the PG has.
LEMMA PinFacts ==
  ASSUME ClusterTyped(cluster), Consistent(cluster), NEW p, PlanTyped(p), PlanShape(p),
         NEW pg \in Pg, NEW i \in Slots(cluster, pg), Arriving(cluster, pg, i),
         CanPinBack(p, pg, i), NEW j \in PinSlots(p, pg, i)
  PROVE  /\ j \in Slots(cluster, pg) /\ j \notin Changed(p, pg)
         /\ IsReal(UpOf(pg, j)) /\ Arriving(cluster, pg, j)
         /\ PinTo(pg, j) \in Osd /\ PinTo(pg, j) # UpOf(pg, j)
         /\ PinTo(pg, j) \in DepartingOsds(cluster, pg)
         /\ \A k \in Slots(cluster, pg) :
              k # j => PinBack(p, pg, i).newUp[pg][k] # PinTo(pg, j)
<1> DEFINE P == PinSlots(p, pg, i)
           up == p.newUp[pg]
           acting == cluster.acting[pg]
           new == PinBack(p, pg, i).newUp[pg]
<1>1. /\ DOMAIN up = Slots(cluster, pg) /\ P # {} /\ P \intersect Changed(p, pg) = {}
      /\ DOMAIN p.newUp = Pg
  BY DEF PlanTyped, CanPinBack
<1>2. P \subseteq Slots(cluster, pg) /\ PinTo(pg, j) \in Osd
  BY <1>1, PinSlotsType
<1>3. j \in Slots(cluster, pg) /\ j \notin Changed(p, pg) /\ up[j] = UpOf(pg, j)
  BY <1>1, <1>2 DEF PlanShape
<1>4. PinSource(pg, i) # None
  BY <1>1 DEF PinSlots
<1>5. \A k \in Slots(cluster, pg) : new[k] = IF k \in P THEN PinTo(pg, k) ELSE up[k]
  BY <1>1 DEF PinBack
<1>6. PinTo(pg, j) # None
  BY <1>2
<1>7. CASE Ec[pg]
  <2>1. P = ClosePins(up, acting, {i})
    BY <1>4, <1>7 DEF PinSlots
  <2>2. P \in ValidPins(up, acting, {i})
    <3> HIDE DEF P, up, acting
    <3> QED
      BY <1>1, <2>1, ClosePinsIsValid
  <2>3. j = i \/ IsReal(up[j])
    BY <2>1, ClosePinsAreReal
  <2>4. IsReal(UpOf(pg, j))
    BY <1>3, <2>3 DEF Arriving, UpOf
  <2>5. PinTo(pg, j) = acting[j] /\ CanPin(up, acting, j)
    BY <1>7, <2>2 DEF PinTo, ValidPins
  <2>6. acting[j] # UpOf(pg, j) /\ IsReal(acting[j])
    BY <1>3, <2>5 DEF CanPin
  <2>7. Arriving(cluster, pg, j)
    BY <1>7, <2>4, <2>6 DEF Arriving, ActingOf, UpOf
  <2>8. CanPin(Up(cluster, pg), acting, j) /\ IsReal(Up(cluster, pg)[j])
    BY <2>4, <2>6 DEF CanPin, UpOf
  <2>9. acting[j] \in DepartingOsds(cluster, pg)
    BY <1>3, <1>7, <2>8 DEF DepartingOsds
  <2>10. ASSUME NEW k \in Slots(cluster, pg), k # j PROVE new[k] # acting[j]
    <3>1. CASE k \in P
      <4>1. new[k] = acting[k] /\ DOMAIN acting = Slots(cluster, pg)
        BY <1>5, <1>7, <3>1 DEF PinTo, ClusterTyped
      <4>2. OsdsDistinct(acting)
        BY FetchedDistinct
      <4> QED
        BY <1>3, <2>6, <2>10, <4>1, <4>2 DEF OsdsDistinct
    <3>2. CASE k \notin P
      <4>1. new[k] = up[k] /\ k \in DOMAIN up \ P
        BY <1>1, <1>5, <3>2
      <4>2. IsReal(up[k]) => ~SamePlace(acting[j], up[k])
        BY <2>2, <4>1 DEF ValidPins, ClashingWith
      <4> QED
        BY <2>6, <4>1, <4>2 DEF SamePlace
    <3> QED
      BY <3>1, <3>2
  <2> QED
    BY <1>2, <1>3, <2>4, <2>5, <2>6, <2>7, <2>9, <2>10
<1>8. CASE ~Ec[pg]
  <2>1. /\ P = {i} /\ PinTo(pg, j) = PinSource(pg, i)
        /\ \A k \in DOMAIN up \ {i} : IsReal(up[k]) => ~SamePlace(PinSource(pg, i), up[k])
    BY <1>4, <1>8 DEF PinSlots, PinTo
  <2>2. /\ PinSource(pg, i) \in DepartingOsds(cluster, pg)
        /\ PinSource(pg, i) # UpOf(pg, i)
    BY <1>4, <1>8, ReplicaSource
  <2>3. IsReal(UpOf(pg, i)) /\ j = i
    BY <2>1 DEF Arriving, UpOf
  <2>4. ASSUME NEW k \in Slots(cluster, pg), k # j PROVE new[k] # PinTo(pg, j)
    <3>1. new[k] = up[k] /\ k \in DOMAIN up \ {i}
      BY <1>1, <1>5, <2>1, <2>3, <2>4
    <3> QED
      BY <1>6, <2>1, <3>1 DEF SamePlace, IsReal
  <2> QED
    BY <1>2, <1>3, <2>1, <2>2, <2>3, <2>4
<1> QED
  BY <1>7, <1>8

\* Pinning a blocker back keeps every PG sound.
LEMMA PinBackSound ==
  ASSUME ClusterTyped(cluster), Consistent(cluster), NEW p, PlanTyped(p), PlanShape(p),
         AllSound(p), NEW pg \in Pg, NEW i \in Slots(cluster, pg),
         Arriving(cluster, pg, i), ~Chained(cluster.pairs[pg]), CanPinBack(p, pg, i)
  PROVE  AllSound(PinBack(p, pg, i))
<1> DEFINE q == PinBack(p, pg, i)
           P == PinSlots(p, pg, i)
           record(j) == [slot |-> j, to |-> PinTo(pg, j), pin |-> TRUE, role |-> "blocker"]
<1>1. /\ DOMAIN p.newUp = Pg /\ DOMAIN p.moves = Pg
      /\ DOMAIN p.newUp[pg] = Slots(cluster, pg)
  BY DEF PlanTyped
<1>2. /\ \A g \in Pg \ {pg} : q.newUp[g] = p.newUp[g] /\ q.moves[g] = p.moves[g]
      /\ q.newUp[pg] = [j \in Slots(cluster, pg) |->
                          IF j \in P THEN PinTo(pg, j) ELSE p.newUp[pg][j]]
      /\ q.moves[pg] = p.moves[pg] \union {record(j) : j \in P}
  BY <1>1 DEF PinBack
<1> SUFFICES ASSUME NEW g \in Pg PROVE Sound(q, g)
  BY DEF AllSound
<1>3. CASE g # pg
  <2>1. q.newUp[g] = p.newUp[g] /\ q.moves[g] = p.moves[g]
    BY <1>2, <1>3
  <2>2. Pairs(q, g) = Pairs(p, g)
    BY <2>1 DEF Pairs
  <2> HIDE DEF q
  <2> QED
    BY <2>1, <2>2 DEF AllSound, Sound, Chains
<1>4. CASE g = pg
  <2>1. OsdsDistinct(q.newUp[pg])
    <3> SUFFICES ASSUME NEW j \in Slots(cluster, pg), NEW k \in Slots(cluster, pg), j # k,
                        IsReal(q.newUp[pg][j])
                 PROVE  q.newUp[pg][j] # q.newUp[pg][k]
      BY <1>2 DEF OsdsDistinct
    <3>1. CASE j \in P
      <4>1. q.newUp[pg][j] = PinTo(pg, j)
        BY <1>2, <3>1
      <4> QED
        BY <3>1, <4>1, PinFacts
    <3>2. CASE k \in P
      <4>1. q.newUp[pg][k] = PinTo(pg, k)
        BY <1>2, <3>2
      <4> QED
        BY <3>2, <4>1, PinFacts
    <3>3. CASE j \notin P /\ k \notin P
      <4>1. q.newUp[pg][j] = p.newUp[pg][j] /\ q.newUp[pg][k] = p.newUp[pg][k]
        BY <1>2, <3>3
      <4>2. OsdsDistinct(p.newUp[pg])
        BY DEF AllSound, Sound
      <4> HIDE DEF q
      <4> QED
        BY <1>1, <4>1, <4>2 DEF OsdsDistinct
    <3> QED
      BY <3>1, <3>2, <3>3
  <2>2. \A j \in P : IsReal(UpOf(pg, j)) /\ PinTo(pg, j) # UpOf(pg, j)
    BY PinFacts
  <2>3. \A m \in q.moves[pg] : IsReal(UpOf(pg, m.slot)) /\ m.to # UpOf(pg, m.slot)
    <3>1. \A m \in p.moves[pg] : IsReal(UpOf(pg, m.slot)) /\ m.to # UpOf(pg, m.slot)
      BY DEF AllSound, Sound
    <3> QED
      BY <1>2, <2>2, <3>1
  <2>4. Pairs(q, pg) = Pairs(p, pg) \union {<<UpOf(pg, j), PinTo(pg, j)>> : j \in P}
    <3> DEFINE R == {record(j) : j \in P}
               pair(m) == <<UpOf(pg, m.slot), m.to>>
    <3>1. \A j \in P : pair(record(j)) = <<UpOf(pg, j), PinTo(pg, j)>>
      OBVIOUS
    <3>2. {pair(m) : m \in R} = {<<UpOf(pg, j), PinTo(pg, j)>> : j \in P}
      <4> HIDE DEF pair, record, P
      <4> QED
        BY <3>1
    <3>3. q.moves[pg] = p.moves[pg] \union R
      BY <1>2
    <3> HIDE DEF R, q, P
    <3>4. Pairs(q, pg) = {pair(m) : m \in p.moves[pg]} \union {pair(m) : m \in R}
      BY <3>3 DEF Pairs
    <3> QED
      BY <3>2, <3>4 DEF Pairs
  <2>5. ~Chains(p, pg, {<<UpOf(pg, j), PinTo(pg, j)>> : j \in P})
    BY DEF CanPinBack
  <2>6. ~Chains(q, pg, {})
    <3> HIDE DEF q, P
    <3> QED
      BY <2>4, <2>5, SameChains
  <2> QED
    BY <1>4, <2>1, <2>3, <2>6 DEF Sound
<1> QED
  BY <1>3, <1>4

\* A PG has finitely many slots, moves and pairs.
LEMMA MovesAreFinite ==
  ASSUME ClusterTyped(cluster), NEW p, PlanTyped(p), PlanShape(p), NEW pg \in Pg
  PROVE  IsFiniteSet(Slots(cluster, pg)) /\ IsFiniteSet(p.moves[pg]) /\ IsFiniteSet(Pairs(p, pg))
<1>1. IsFiniteSet(Slots(cluster, pg))
  <2>1. Slots(cluster, pg) = 1..Len(cluster.up[pg]) /\ Len(cluster.up[pg]) \in Nat
    BY DEF ClusterTyped, Slots
  <2>2. PICK n \in Nat : Slots(cluster, pg) = 1..n
    BY <2>1
  <2> QED
    BY <2>2, FS_Interval
<1>2. IsFiniteSet(Changed(p, pg))
  BY <1>1, FS_Subset DEF PlanTyped
<1>3. IsFiniteSet(p.moves[pg])
  <2>1. PICK f : f = [i \in Changed(p, pg) |-> CHOOSE m \in p.moves[pg] : m.slot = i]
    OBVIOUS
  <2>2. \A i \in Changed(p, pg) : f[i] \in p.moves[pg] /\ f[i].slot = i
    BY <2>1 DEF Changed
  <2>3. f \in Surjection(Changed(p, pg), p.moves[pg])
    <3>1. \A m \in p.moves[pg] : m.slot \in Changed(p, pg) /\ f[m.slot] = m
      BY <2>2 DEF Changed, PlanShape
    <3>2. f \in [Changed(p, pg) -> p.moves[pg]]
      BY <2>1, <2>2
    <3> QED
      BY <3>1, <3>2 DEF Surjection
  <2> QED
    BY <1>2, <2>3, FS_Surjection
<1>4. IsFiniteSet(Pairs(p, pg))
  <2>1. PICK f : f = [m \in p.moves[pg] |-> <<UpOf(pg, m.slot), m.to>>]
    OBVIOUS
  <2>2. f \in Surjection(p.moves[pg], Pairs(p, pg))
    BY <2>1 DEF Surjection, Pairs
  <2> QED
    BY <1>3, <2>2, FS_Surjection
<1> QED
  BY <1>1, <1>3, <1>4

\* The pairs a run prints for a PG are those of its changed slots.
LEMMA PrintedPairs ==
  ASSUME ClusterTyped(cluster), Consistent(cluster), NEW p, PlanTyped(p), PlanShape(p),
         NEW pg \in Pg, Sound(p, pg)
  PROVE  PairsFor(SetToSeq(Pairs(p, pg)), Up(cluster, pg), p.newUp[pg])
<1>1. PICK ns : ns = SetToSeq(Pairs(p, pg))
  OBVIOUS
<1>2. /\ ns \in Seq(Pairs(p, pg)) /\ ToSet(ns) = Pairs(p, pg)
      /\ \A i, j \in DOMAIN ns : ns[i] = ns[j] => i = j
  BY <1>1, MovesAreFinite, SetToSeqIs
<1>3. /\ OsdsDistinct(Up(cluster, pg)) /\ DOMAIN Up(cluster, pg) = Slots(cluster, pg)
      /\ \A j \in Slots(cluster, pg) : UpOf(pg, j) = Up(cluster, pg)[j]
  BY FetchedDistinct DEF Up, Slots, UpOf
<1>4. ASSUME NEW m \in p.moves[pg]
      PROVE  /\ m.slot \in Slots(cluster, pg) /\ p.newUp[pg][m.slot] = m.to
             /\ m.to \in Osd /\ UpOf(pg, m.slot) \in Osd /\ m.to # UpOf(pg, m.slot)
  <2>1. m.slot \in Slots(cluster, pg) /\ m.to \in Osd
    <3>1. m \in MoveRecords
      BY DEF PlanTyped
    <3>2. m.slot \in Changed(p, pg) /\ Changed(p, pg) \subseteq Slots(cluster, pg)
      BY DEF PlanTyped, Changed
    <3> QED
      BY <3>1, <3>2 DEF MoveRecords
  <2>2. UpOf(pg, m.slot) \in Osd
    BY <2>1, ClusterFacts DEF Sound, UpOf, IsReal
  <2> QED
    BY <2>1, <2>2 DEF PlanShape, Sound
<1>5. \A i \in DOMAIN ns : \E m \in p.moves[pg] : ns[i] = <<UpOf(pg, m.slot), m.to>>
  <2>1. \A i \in DOMAIN ns : ns[i] \in Pairs(p, pg)
    BY <1>2 DEF ToSet
  <2> QED
    BY <2>1 DEF Pairs
<1>6. ns \in Seq(OsdPair)
  <2>1. Pairs(p, pg) \subseteq OsdPair
    BY <1>4 DEF Pairs, OsdPair
  <2> QED
    BY <1>2, <2>1
<1>7. Once(ns, 1)
  <2> SUFFICES ASSUME NEW i \in DOMAIN ns, NEW j \in DOMAIN ns, ns[i][1] = ns[j][1]
               PROVE  i = j
    BY DEF Once
  <2>1. PICK m \in p.moves[pg] : ns[i] = <<UpOf(pg, m.slot), m.to>>
    BY <1>5
  <2>2. PICK n \in p.moves[pg] : ns[j] = <<UpOf(pg, n.slot), n.to>>
    BY <1>5
  <2>3. UpOf(pg, m.slot) = UpOf(pg, n.slot) /\ IsReal(UpOf(pg, m.slot))
    BY <2>1, <2>2 DEF Sound
  <2>4. m.slot = n.slot
    BY <1>3, <1>4, <2>3 DEF OsdsDistinct
  <2>5. m = n
    BY <2>4 DEF PlanShape
  <2> QED
    BY <1>2, <2>1, <2>2, <2>5
<1>8. ASSUME NEW i \in DOMAIN ns
      PROVE  \E j \in Slots(cluster, pg) :
               /\ ns[i][1] = Up(cluster, pg)[j] /\ ns[i][2] = p.newUp[pg][j]
               /\ Up(cluster, pg)[j] # p.newUp[pg][j]
  <2>1. PICK m \in p.moves[pg] : ns[i] = <<UpOf(pg, m.slot), m.to>>
    BY <1>5
  <2> QED
    BY <1>3, <1>4, <2>1
<1>9. ASSUME NEW j \in Slots(cluster, pg), Up(cluster, pg)[j] # p.newUp[pg][j]
      PROVE  \E i \in DOMAIN ns : ns[i][1] = Up(cluster, pg)[j] /\ ns[i][2] = p.newUp[pg][j]
  <2>1. PICK m \in p.moves[pg] : m.slot = j /\ m.to = p.newUp[pg][j]
    BY <1>3, <1>9, SlotOf
  <2>2. <<UpOf(pg, j), m.to>> \in ToSet(ns)
    BY <1>2, <2>1 DEF Pairs
  <2> QED
    BY <1>3, <2>1, <2>2 DEF ToSet
<1> QED
  BY <1>1, <1>3, <1>6, <1>7, <1>8, <1>9 DEF PairsFor

\* The proposals of sound PGs will be applied as planned.
LEMMA SoundIsApplied ==
  ASSUME ClusterTyped(cluster), Consistent(cluster),
         PlanTyped(plan), PlanShape(plan), AllSound(plan)
  PROVE  AppliedAsPlanned
<1> SUFFICES ASSUME NEW pg \in Pg, plan.moves[pg] # {}
             PROVE  CephUp(cluster.raw[pg], Imported(cluster.pairs[pg], Up(cluster, pg),
                                                     SetToSeq(Pairs(plan, pg))))
                      = plan.newUp[pg]
  BY DEF AppliedAsPlanned
<1>1. PICK raw, entry, up, new, ns :
        /\ raw = cluster.raw[pg] /\ entry = cluster.pairs[pg] /\ up = Up(cluster, pg)
        /\ new = plan.newUp[pg] /\ ns = SetToSeq(Pairs(plan, pg))
  OBVIOUS
<1>2. ~Chained(cluster.pairs[pg]) /\ ~Chains(plan, pg, {}) /\ Sound(plan, pg)
  BY DEF AllSound, Sound
<1>3. up = CephUp(raw, entry) /\ OsdsDistinct(up) /\ OsdsDistinct(new)
  BY <1>1, <1>2, FetchedDistinct DEF Consistent, CephConsistent, Up, Sound
<1>4. Plain(raw, entry)
  <2>1. raw \in Seq(MaybeOsd) /\ entry \in Seq(OsdPair)
    BY <1>1 DEF ClusterTyped, MaybeOsd, OsdPair
  <2>2. ~Chained(entry)
    BY <1>1, <1>2
  <2> QED
    BY <1>1, <2>1, <2>2 DEF Consistent, CephConsistent, Plain, Once
<1>5. DOMAIN raw = DOMAIN up
  BY <1>3, <1>4, EntryInEffect DEF InEffect
<1>6. new \in [DOMAIN raw -> MaybeOsd]
  BY <1>1, <1>5 DEF PlanTyped, Slots, Up, MaybeOsd
<1>7. PairsFor(ns, up, new)
  BY <1>1, <1>2, PrintedPairs
<1>8. ~WouldChain(entry, up, ns)
  <2>1. Pairs(plan, pg) \union {} = Pairs(plan, pg)
    OBVIOUS
  <2> QED
    BY <1>1, <1>2, <2>1 DEF Chains
<1> QED
  BY <1>1, <1>3, <1>4, <1>6, <1>7, <1>8, ImportedApplies

-----------------------------------------------------------------------------
(* The projections, from the proposals.                                     *)

MovedFrom(p, o) == {x \in AllMoves(p) : UpOf(x[1], x[2].slot) = o}
CancelledAt(p, o) == {x \in MovedFrom(p, o) : Arriving(cluster, x[1], x[2].slot)}
HeadedTo(p, o) == {x \in AllMoves(p) : x[2].to = o}
PlacedOn(p, o) == {x \in HeadedTo(p, o) : ~x[2].pin}

Sizes == [x \in Pg \X MoveRecords |-> Size(x[1])]
Left == [x \in Pg \X MoveRecords |-> ToCome(cluster, x[1], x[2].slot)]

\* What a run reserves and projects is what it proposes.
Ledger(p) ==
  \A o \in Sized :
    /\ p.res[o] = cluster.res[o] - SumFunctionOnSet(Left, CancelledAt(p, o))
                                 + SumFunctionOnSet(Sizes, PlacedOn(p, o))
    /\ p.final[o] = cluster.final[o] - SumFunctionOnSet(Sizes, MovedFrom(p, o))
                                     + SumFunctionOnSet(Sizes, HeadedTo(p, o))

\* The moves of a plan: finitely many, of shards that have a size.
LEMMA MovesAre ==
  ASSUME ClusterTyped(cluster), NEW p, PlanTyped(p), PlanShape(p)
  PROVE  /\ IsFiniteSet(AllMoves(p))
         /\ \A x \in AllMoves(p) : /\ x[1] \in Pg /\ x[2] \in p.moves[x[1]]
                                   /\ x = <<x[1], x[2]>> /\ x \in Pg \X MoveRecords
                                   /\ x[2].slot \in Slots(cluster, x[1])
                                   /\ Sizes[x] = Size(x[1]) /\ Sizes[x] \in Nat
                                   /\ Left[x] = ToCome(cluster, x[1], x[2].slot)
                                   /\ Left[x] \in 0..Size(x[1])
         /\ \A pg \in Pg : \A m \in p.moves[pg] : <<pg, m>> \in AllMoves(p)
<1>1. IsFiniteSet(AllMoves(p))
  <2>1. PICK f : f = [pg \in Pg |-> {pg} \X p.moves[pg]]
    OBVIOUS
  <2>2. PICK T : T = {{pg} \X p.moves[pg] : pg \in Pg}
    OBVIOUS
  <2>3. f \in Surjection(Pg, T)
    BY <2>1, <2>2 DEF Surjection
  <2>4. IsFiniteSet(T)
    BY <2>3, FS_Surjection
  <2>5. ASSUME NEW pg \in Pg PROVE IsFiniteSet({pg} \X p.moves[pg])
    BY MovesAreFinite, FS_Singleton, FS_Product
  <2>6. \A t \in T : IsFiniteSet(t)
    BY <2>2, <2>5
  <2>7. IsFiniteSet(UNION T)
    BY <2>4, <2>6, FS_UNION
  <2> QED
    BY <2>2, <2>7 DEF AllMoves
<1>2. ASSUME NEW x \in AllMoves(p)
      PROVE  /\ x[1] \in Pg /\ x[2] \in p.moves[x[1]]
             /\ x = <<x[1], x[2]>> /\ x \in Pg \X MoveRecords
             /\ x[2].slot \in Slots(cluster, x[1])
             /\ Sizes[x] = Size(x[1]) /\ Sizes[x] \in Nat
             /\ Left[x] = ToCome(cluster, x[1], x[2].slot)
             /\ Left[x] \in 0..Size(x[1])
  <2>1. x[1] \in Pg /\ x[2] \in p.moves[x[1]] /\ x = <<x[1], x[2]>>
    BY DEF AllMoves
  <2>2. x[2] \in MoveRecords /\ x[2].slot \in Slots(cluster, x[1])
    BY <2>1 DEF PlanTyped, Changed
  <2>3. x \in Pg \X MoveRecords
    BY <2>1, <2>2
  <2>4. Sizes[x] = Size(x[1]) /\ Left[x] = ToCome(cluster, x[1], x[2].slot)
    BY <2>3 DEF Sizes, Left
  <2>5. Size(x[1]) \in Nat /\ ToCome(cluster, x[1], x[2].slot) \in 0..Size(x[1])
    BY <2>1, <2>2, ClusterFacts
  <2> QED
    BY <2>1, <2>2, <2>3, <2>4, <2>5
<1>3. \A pg \in Pg : \A m \in p.moves[pg] : <<pg, m>> \in AllMoves(p)
  BY DEF AllMoves
<1> QED
  BY <1>1, <1>2, <1>3

\* What one more of a plan's moves adds to a sum over some of them.
LEMMA MoreMoves ==
  ASSUME ClusterTyped(cluster), NEW p, PlanTyped(p), PlanShape(p),
         NEW S, NEW x, x \notin S, S \union {x} \subseteq AllMoves(p)
  PROVE  /\ SumFunctionOnSet(Sizes, S \union {x}) = SumFunctionOnSet(Sizes, S) + Size(x[1])
         /\ SumFunctionOnSet(Left, S \union {x}) =
              SumFunctionOnSet(Left, S) + ToCome(cluster, x[1], x[2].slot)
         /\ SumFunctionOnSet(Sizes, S) \in Int /\ SumFunctionOnSet(Left, S) \in Int
<1>1. PICK f, g : f = Sizes /\ g = Left
  OBVIOUS
<1>2. IsFiniteSet(S)
  BY MovesAre, FS_Subset
<1>3. ASSUME NEW y \in S \union {x} PROVE f[y] \in Int /\ g[y] \in Int
  <2>1. Sizes[y] \in Nat /\ Left[y] \in 0..Size(y[1])
    BY MovesAre
  <2> QED
    BY <1>1, <2>1
<1>4. /\ SumFunctionOnSet(f, S \union {x}) = SumFunctionOnSet(f, S) + f[x]
      /\ SumFunctionOnSet(g, S \union {x}) = SumFunctionOnSet(g, S) + g[x]
  BY <1>2, <1>3, SumPutsIn
<1>5. SumFunctionOnSet(f, S) \in Int /\ SumFunctionOnSet(g, S) \in Int
  BY <1>2, <1>3, SumInt
<1>6. f[x] = Size(x[1]) /\ g[x] = ToCome(cluster, x[1], x[2].slot)
  BY <1>1, MovesAre
<1> QED
  BY <1>1, <1>4, <1>5, <1>6

\* One more move: what it adds to each sum of an OSD.
LEMMA OneMoreMove ==
  ASSUME ClusterTyped(cluster), NEW p, NEW q, PlanTyped(q), PlanShape(q),
         NEW x, x \notin AllMoves(p), AllMoves(q) = AllMoves(p) \union {x}, NEW o \in Sized
  PROVE  /\ SumFunctionOnSet(Left, CancelledAt(q, o)) =
              SumFunctionOnSet(Left, CancelledAt(p, o))
              + Cancelled(x[1], x[2].slot, UpOf(x[1], x[2].slot), o)
         /\ SumFunctionOnSet(Sizes, PlacedOn(q, o)) =
              SumFunctionOnSet(Sizes, PlacedOn(p, o))
              + (IF x[2].pin THEN 0 ELSE Moved(x[1], x[2].to, o))
         /\ SumFunctionOnSet(Sizes, MovedFrom(q, o)) =
              SumFunctionOnSet(Sizes, MovedFrom(p, o)) + Moved(x[1], UpOf(x[1], x[2].slot), o)
         /\ SumFunctionOnSet(Sizes, HeadedTo(q, o)) =
              SumFunctionOnSet(Sizes, HeadedTo(p, o)) + Moved(x[1], x[2].to, o)
<1>1. ASSUME NEW S \in SUBSET AllMoves(p)
      PROVE  /\ SumFunctionOnSet(Sizes, S \union {x}) = SumFunctionOnSet(Sizes, S) + Size(x[1])
             /\ SumFunctionOnSet(Left, S \union {x}) =
                  SumFunctionOnSet(Left, S) + ToCome(cluster, x[1], x[2].slot)
             /\ SumFunctionOnSet(Sizes, S) \in Int /\ SumFunctionOnSet(Left, S) \in Int
  BY MoreMoves
<1>2. SumFunctionOnSet(Left, CancelledAt(q, o)) =
        SumFunctionOnSet(Left, CancelledAt(p, o))
        + Cancelled(x[1], x[2].slot, UpOf(x[1], x[2].slot), o)
  <2>1. PICK S : S = CancelledAt(p, o)
    OBVIOUS
  <2>2. S \in SUBSET AllMoves(p)
    BY <2>1 DEF CancelledAt, MovedFrom
  <2>3. CancelledAt(q, o) = IF UpOf(x[1], x[2].slot) = o /\ Arriving(cluster, x[1], x[2].slot)
                            THEN S \union {x} ELSE S
    BY <2>1 DEF CancelledAt, MovedFrom
  <2> QED
    BY <1>1, <2>1, <2>2, <2>3 DEF Cancelled
<1>3. SumFunctionOnSet(Sizes, PlacedOn(q, o)) =
        SumFunctionOnSet(Sizes, PlacedOn(p, o)) + (IF x[2].pin THEN 0 ELSE Moved(x[1], x[2].to, o))
  <2>1. PICK S : S = PlacedOn(p, o)
    OBVIOUS
  <2>2. S \in SUBSET AllMoves(p)
    BY <2>1 DEF PlacedOn, HeadedTo
  <2>3. PlacedOn(q, o) = IF x[2].to = o /\ ~x[2].pin THEN S \union {x} ELSE S
    BY <2>1 DEF PlacedOn, HeadedTo
  <2> QED
    BY <1>1, <2>1, <2>2, <2>3 DEF Moved
<1>4. SumFunctionOnSet(Sizes, MovedFrom(q, o)) =
        SumFunctionOnSet(Sizes, MovedFrom(p, o)) + Moved(x[1], UpOf(x[1], x[2].slot), o)
  <2>1. PICK S : S = MovedFrom(p, o)
    OBVIOUS
  <2>2. S \in SUBSET AllMoves(p)
    BY <2>1 DEF MovedFrom
  <2>3. MovedFrom(q, o) = IF UpOf(x[1], x[2].slot) = o THEN S \union {x} ELSE S
    BY <2>1 DEF MovedFrom
  <2> QED
    BY <1>1, <2>1, <2>2, <2>3 DEF Moved
<1>5. SumFunctionOnSet(Sizes, HeadedTo(q, o)) =
        SumFunctionOnSet(Sizes, HeadedTo(p, o)) + Moved(x[1], x[2].to, o)
  <2>1. PICK S : S = HeadedTo(p, o)
    OBVIOUS
  <2>2. S \in SUBSET AllMoves(p)
    BY <2>1 DEF HeadedTo
  <2>3. HeadedTo(q, o) = IF x[2].to = o THEN S \union {x} ELSE S
    BY <2>1 DEF HeadedTo
  <2> QED
    BY <1>1, <2>1, <2>2, <2>3 DEF Moved
<1> QED
  BY <1>2, <1>3, <1>4, <1>5

\* The four sums of an OSD are integers.
LEMMA LedgerType ==
  ASSUME ClusterTyped(cluster), NEW p, PlanTyped(p), PlanShape(p), NEW o \in Sized
  PROVE  /\ SumFunctionOnSet(Left, CancelledAt(p, o)) \in Int
         /\ SumFunctionOnSet(Sizes, PlacedOn(p, o)) \in Int
         /\ SumFunctionOnSet(Sizes, MovedFrom(p, o)) \in Int
         /\ SumFunctionOnSet(Sizes, HeadedTo(p, o)) \in Int
         /\ cluster.res[o] \in Int /\ cluster.final[o] \in Int
<1>1. /\ CancelledAt(p, o) \in SUBSET AllMoves(p) /\ PlacedOn(p, o) \in SUBSET AllMoves(p)
      /\ MovedFrom(p, o) \in SUBSET AllMoves(p) /\ HeadedTo(p, o) \in SUBSET AllMoves(p)
  BY DEF CancelledAt, PlacedOn, MovedFrom, HeadedTo
<1>2. ASSUME NEW S \in SUBSET AllMoves(p)
      PROVE  SumFunctionOnSet(Sizes, S) \in Int /\ SumFunctionOnSet(Left, S) \in Int
  <2>1. PICK f, g : f = Sizes /\ g = Left
    OBVIOUS
  <2>2. IsFiniteSet(S)
    BY MovesAre, FS_Subset
  <2>3. ASSUME NEW y \in S PROVE f[y] \in Int /\ g[y] \in Int
    <3>1. Left[y] \in 0..Size(y[1]) /\ Sizes[y] \in Nat
      BY MovesAre
    <3> QED
      BY <2>1, <3>1
  <2>4. SumFunctionOnSet(f, S) \in Int /\ SumFunctionOnSet(g, S) \in Int
    BY <2>2, <2>3, SumInt
  <2> QED
    BY <2>1, <2>4
<1>3. cluster.res[o] \in Int /\ cluster.final[o] \in Int
  BY DEF ClusterTyped
<1> QED
  BY <1>1, <1>2, <1>3

\* A move of a plan is one of a PG.
LEMMA MovesIn ==
  ASSUME NEW p, NEW x
  PROVE  x \in AllMoves(p) <=> \E g \in Pg : \E m \in p.moves[g] : x = <<g, m>>
BY DEF AllMoves

\* A committed move adds itself to the moves, and undoing one takes it away.
LEMMA CommitMoves ==
  ASSUME NEW p, PlanTyped(p), NEW pg \in Pg, NEW i, i \notin Changed(p, pg), NEW t, NEW role
  PROVE  /\ <<pg, CommittedMove(i, t, role)>> \notin AllMoves(p)
         /\ AllMoves(Commit(p, pg, i, t, role)) =
              AllMoves(p) \union {<<pg, CommittedMove(i, t, role)>>}
<1> DEFINE q == Commit(p, pg, i, t, role)
           record == CommittedMove(i, t, role)
<1>1. \A g \in Pg : q.moves[g] = IF g = pg THEN p.moves[pg] \union {record} ELSE p.moves[g]
  BY DEF Commit, PlanTyped
<1>2. record \notin p.moves[pg]
  BY DEF Changed, CommittedMove
<1> HIDE DEF q, record
<1>3. ASSUME NEW x PROVE x \in AllMoves(q) <=> x \in AllMoves(p) \/ x = <<pg, record>>
  <2>1. ASSUME NEW g \in Pg, NEW n
        PROVE  n \in q.moves[g] <=> n \in p.moves[g] \/ (g = pg /\ n = record)
    BY <1>1
  <2>2. x \in AllMoves(q) <=> \E g \in Pg : \E n \in q.moves[g] : x = <<g, n>>
    BY MovesIn
  <2>3. x \in AllMoves(p) <=> \E g \in Pg : \E n \in p.moves[g] : x = <<g, n>>
    BY MovesIn
  <2> QED
    BY <2>1, <2>2, <2>3
<1>4. <<pg, record>> \notin AllMoves(p)
  BY <1>2, MovesIn
<1> QED
  BY <1>3, <1>4 DEF q, record

LEMMA UncommitMoves ==
  ASSUME NEW p, PlanTyped(p), NEW pg \in Pg, NEW m \in p.moves[pg]
  PROVE  /\ <<pg, m>> \notin AllMoves(Uncommit(p, pg, m))
         /\ AllMoves(p) = AllMoves(Uncommit(p, pg, m)) \union {<<pg, m>>}
<1> DEFINE r == Uncommit(p, pg, m)
<1>1. \A g \in Pg : r.moves[g] = IF g = pg THEN p.moves[pg] \ {m} ELSE p.moves[g]
  BY DEF Uncommit, PlanTyped
<1> HIDE DEF r
<1>2. ASSUME NEW x PROVE x \in AllMoves(p) <=> x \in AllMoves(r) \/ x = <<pg, m>>
  <2>1. ASSUME NEW g \in Pg, NEW n
        PROVE  n \in p.moves[g] <=> n \in r.moves[g] \/ (g = pg /\ n = m)
    BY <1>1
  <2>2. x \in AllMoves(p) <=> \E g \in Pg : \E n \in p.moves[g] : x = <<g, n>>
    BY MovesIn
  <2>3. x \in AllMoves(r) <=> \E g \in Pg : \E n \in r.moves[g] : x = <<g, n>>
    BY MovesIn
  <2> QED
    BY <2>1, <2>2, <2>3
<1>3. <<pg, m>> \notin AllMoves(r)
  BY <1>1, MovesIn
<1> QED
  BY <1>2, <1>3 DEF r

\* A committed move is accounted for ...
LEMMA CommitLedger ==
  ASSUME ClusterTyped(cluster), NEW p, PlanTyped(p), PlanShape(p), Ledger(p), NEW pg \in Pg,
         NEW i \in Slots(cluster, pg), i \notin Changed(p, pg), NEW t, NEW role,
         PlanTyped(Commit(p, pg, i, t, role)), PlanShape(Commit(p, pg, i, t, role))
  PROVE  Ledger(Commit(p, pg, i, t, role))
<1>1. PICK q, x : q = Commit(p, pg, i, t, role) /\ x = <<pg, CommittedMove(i, t, role)>>
  OBVIOUS
<1>2. x \notin AllMoves(p) /\ AllMoves(q) = AllMoves(p) \union {x}
  BY <1>1, CommitMoves
<1>3. x[1] = pg /\ x[2].slot = i /\ x[2].to = t /\ ~x[2].pin
  BY <1>1 DEF CommittedMove
<1> SUFFICES ASSUME NEW o \in Sized
             PROVE  /\ q.res[o] = cluster.res[o] - SumFunctionOnSet(Left, CancelledAt(q, o))
                                                 + SumFunctionOnSet(Sizes, PlacedOn(q, o))
                    /\ q.final[o] = cluster.final[o] - SumFunctionOnSet(Sizes, MovedFrom(q, o))
                                                     + SumFunctionOnSet(Sizes, HeadedTo(q, o))
  BY <1>1 DEF Ledger
<1>4. /\ q.res[o] = p.res[o] - Cancelled(pg, i, UpOf(pg, i), o) + Moved(pg, t, o)
      /\ q.final[o] = p.final[o] - Moved(pg, UpOf(pg, i), o) + Moved(pg, t, o)
  <2>1. o \in Osd
    OBVIOUS
  <2>2. /\ Commit(p, pg, i, t, role).res[o] =
             p.res[o] - Cancelled(pg, i, UpOf(pg, i), o) + Moved(pg, t, o)
        /\ Commit(p, pg, i, t, role).final[o] =
             p.final[o] - Moved(pg, UpOf(pg, i), o) + Moved(pg, t, o)
    BY <2>1, CommitUsage
  <2> QED
    BY <1>1, <2>2
<1>5. /\ SumFunctionOnSet(Left, CancelledAt(q, o)) =
           SumFunctionOnSet(Left, CancelledAt(p, o)) + Cancelled(pg, i, UpOf(pg, i), o)
      /\ SumFunctionOnSet(Sizes, PlacedOn(q, o)) =
           SumFunctionOnSet(Sizes, PlacedOn(p, o)) + Moved(pg, t, o)
      /\ SumFunctionOnSet(Sizes, MovedFrom(q, o)) =
           SumFunctionOnSet(Sizes, MovedFrom(p, o)) + Moved(pg, UpOf(pg, i), o)
      /\ SumFunctionOnSet(Sizes, HeadedTo(q, o)) =
           SumFunctionOnSet(Sizes, HeadedTo(p, o)) + Moved(pg, t, o)
  BY <1>1, <1>2, <1>3, OneMoreMove
<1>6. PICK c \in Int, d \in Int, e \in Int, h \in Int :
        /\ c = SumFunctionOnSet(Left, CancelledAt(p, o))
        /\ d = SumFunctionOnSet(Sizes, PlacedOn(p, o))
        /\ e = SumFunctionOnSet(Sizes, MovedFrom(p, o))
        /\ h = SumFunctionOnSet(Sizes, HeadedTo(p, o))
  BY LedgerType
<1>7. PICK v \in Int, w \in Int, y \in Int, a \in Int, b \in Int :
        /\ v = Cancelled(pg, i, UpOf(pg, i), o)
        /\ w = Moved(pg, t, o) /\ y = Moved(pg, UpOf(pg, i), o)
        /\ a = cluster.res[o] /\ b = cluster.final[o]
  <2>1. Cancelled(pg, i, UpOf(pg, i), o) \in Int
    BY CancelledType
  <2>2. Moved(pg, t, o) \in Int /\ Moved(pg, UpOf(pg, i), o) \in Int
    BY MovedType
  <2> QED
    BY <2>1, <2>2, LedgerType
<1>8. p.res[o] = a - c + d /\ p.final[o] = b - e + h
  BY <1>6, <1>7 DEF Ledger
<1>9. q.res[o] = a - (c + v) + (d + w)
  BY <1>4, <1>7, <1>8
<1>10. q.final[o] = b - (e + y) + (h + w)
  BY <1>4, <1>7, <1>8
<1> QED
  BY <1>5, <1>6, <1>7, <1>9, <1>10

\* ... and nothing is left of one that is undone.
LEMMA UncommitLedger ==
  ASSUME ClusterTyped(cluster), NEW p, PlanTyped(p), PlanShape(p), Ledger(p), NEW pg \in Pg,
         NEW m \in p.moves[pg], ~m.pin,
         PlanTyped(Uncommit(p, pg, m)), PlanShape(Uncommit(p, pg, m))
  PROVE  Ledger(Uncommit(p, pg, m))
<1>1. PICK q, x : q = Uncommit(p, pg, m) /\ x = <<pg, m>>
  OBVIOUS
<1>2. x \notin AllMoves(q) /\ AllMoves(p) = AllMoves(q) \union {x}
  BY <1>1, UncommitMoves
<1>3. x[1] = pg /\ x[2] = m
  BY <1>1
<1> SUFFICES ASSUME NEW o \in Sized
             PROVE  /\ q.res[o] = cluster.res[o] - SumFunctionOnSet(Left, CancelledAt(q, o))
                                                 + SumFunctionOnSet(Sizes, PlacedOn(q, o))
                    /\ q.final[o] = cluster.final[o] - SumFunctionOnSet(Sizes, MovedFrom(q, o))
                                                     + SumFunctionOnSet(Sizes, HeadedTo(q, o))
  BY <1>1 DEF Ledger
<1>4. /\ q.res[o] = p.res[o] - Moved(pg, m.to, o) + Cancelled(pg, m.slot, UpOf(pg, m.slot), o)
      /\ q.final[o] = p.final[o] - Moved(pg, m.to, o) + Moved(pg, UpOf(pg, m.slot), o)
  BY <1>1, UncommitUsage
<1>5. /\ SumFunctionOnSet(Left, CancelledAt(p, o)) =
           SumFunctionOnSet(Left, CancelledAt(q, o)) + Cancelled(pg, m.slot, UpOf(pg, m.slot), o)
      /\ SumFunctionOnSet(Sizes, PlacedOn(p, o)) =
           SumFunctionOnSet(Sizes, PlacedOn(q, o)) + Moved(pg, m.to, o)
      /\ SumFunctionOnSet(Sizes, MovedFrom(p, o)) =
           SumFunctionOnSet(Sizes, MovedFrom(q, o)) + Moved(pg, UpOf(pg, m.slot), o)
      /\ SumFunctionOnSet(Sizes, HeadedTo(p, o)) =
           SumFunctionOnSet(Sizes, HeadedTo(q, o)) + Moved(pg, m.to, o)
  BY <1>2, <1>3, OneMoreMove
<1>6. PICK c \in Int, d \in Int, e \in Int, h \in Int :
        /\ c = SumFunctionOnSet(Left, CancelledAt(q, o))
        /\ d = SumFunctionOnSet(Sizes, PlacedOn(q, o))
        /\ e = SumFunctionOnSet(Sizes, MovedFrom(q, o))
        /\ h = SumFunctionOnSet(Sizes, HeadedTo(q, o))
  BY <1>1, LedgerType
<1>7. PICK v \in Int, w \in Int, y \in Int, a \in Int, b \in Int :
        /\ v = Cancelled(pg, m.slot, UpOf(pg, m.slot), o)
        /\ w = Moved(pg, m.to, o) /\ y = Moved(pg, UpOf(pg, m.slot), o)
        /\ a = cluster.res[o] /\ b = cluster.final[o]
  <2>1. m.slot \in Slots(cluster, pg)
    BY DEF PlanTyped, Changed
  <2>2. Cancelled(pg, m.slot, UpOf(pg, m.slot), o) \in Int
    <3>1. PICK k \in Slots(cluster, pg) : k = m.slot
      BY <2>1
    <3>2. Cancelled(pg, k, UpOf(pg, k), o) \in Nat
      BY CancelledType
    <3> QED
      BY <3>1, <3>2
  <2>3. Moved(pg, m.to, o) \in Int /\ Moved(pg, UpOf(pg, m.slot), o) \in Int
    BY MovedType
  <2> QED
    BY <2>2, <2>3, LedgerType
<1>8. p.res[o] = a - (c + v) + (d + w) /\ p.final[o] = b - (e + y) + (h + w)
  BY <1>5, <1>6, <1>7 DEF Ledger
<1>9. q.res[o] = a - c + d
  BY <1>4, <1>7, <1>8
<1>10. q.final[o] = b - e + h
  BY <1>4, <1>7, <1>8
<1> QED
  BY <1>6, <1>7, <1>9, <1>10

\* What a pin adds to the moves.
PinMove(pg, j) == [slot |-> j, to |-> PinTo(pg, j), pin |-> TRUE, role |-> "blocker"]

\* The pins of a PG are of distinct OSDs' shards, and each goes to an OSD of its own.
LEMMA PinsDiffer ==
  ASSUME ClusterTyped(cluster), Consistent(cluster), NEW p, PlanTyped(p), PlanShape(p),
         NEW pg \in Pg, NEW i \in Slots(cluster, pg), Arriving(cluster, pg, i),
         CanPinBack(p, pg, i), NEW j \in PinSlots(p, pg, i), NEW k \in PinSlots(p, pg, i)
  PROVE  /\ UpOf(pg, j) = UpOf(pg, k) => j = k
         /\ PinTo(pg, j) = PinTo(pg, k) => j = k
<1>1. j \in Slots(cluster, pg) /\ IsReal(UpOf(pg, j)) /\ k \in Slots(cluster, pg)
  BY PinFacts
<1>2. UpOf(pg, j) = UpOf(pg, k) => j = k
  <2>1. OsdsDistinct(Up(cluster, pg)) /\ DOMAIN Up(cluster, pg) = Slots(cluster, pg)
    BY FetchedDistinct DEF Up, Slots
  <2> QED
    BY <1>1, <2>1 DEF OsdsDistinct, UpOf
<1>3. PinTo(pg, j) = PinTo(pg, k) => j = k
  <2>1. PinBack(p, pg, i).newUp[pg][k] = PinTo(pg, k)
    <3>1. DOMAIN p.newUp = Pg /\ DOMAIN p.newUp[pg] = Slots(cluster, pg)
      BY DEF PlanTyped
    <3> QED
      BY <1>1, <3>1 DEF PinBack
  <2>2. k # j => PinBack(p, pg, i).newUp[pg][k] # PinTo(pg, j)
    BY <1>1, PinFacts
  <2> QED
    BY <2>1, <2>2
<1> QED
  BY <1>2, <1>3

\* Pinning a blocker back adds its pins to the moves.
LEMMA PinBackMoves ==
  ASSUME NEW p, PlanTyped(p), NEW pg \in Pg, NEW i,
         PinSlots(p, pg, i) \intersect Changed(p, pg) = {}
  PROVE  /\ \A x : x \in AllMoves(PinBack(p, pg, i)) <=>
                     x \in AllMoves(p) \/ \E j \in PinSlots(p, pg, i) : x = <<pg, PinMove(pg, j)>>
         /\ \A j \in PinSlots(p, pg, i) : <<pg, PinMove(pg, j)>> \notin AllMoves(p)
<1> DEFINE P == PinSlots(p, pg, i)
           q == PinBack(p, pg, i)
<1>1. ASSUME NEW g \in Pg, NEW n
      PROVE  n \in q.moves[g] <=> n \in p.moves[g] \/ (g = pg /\ \E j \in P : n = PinMove(pg, j))
  BY DEF PinBack, PlanTyped, PinMove
<1> HIDE DEF P, q
<1>2. ASSUME NEW x
      PROVE  x \in AllMoves(q) <=> x \in AllMoves(p) \/ \E j \in P : x = <<pg, PinMove(pg, j)>>
  <2>1. x \in AllMoves(q) <=> \E g \in Pg : \E n \in q.moves[g] : x = <<g, n>>
    BY MovesIn
  <2>2. x \in AllMoves(p) <=> \E g \in Pg : \E n \in p.moves[g] : x = <<g, n>>
    BY MovesIn
  <2> QED
    BY <1>1, <2>1, <2>2
<1>3. ASSUME NEW j \in P PROVE <<pg, PinMove(pg, j)>> \notin AllMoves(p)
  <2>1. PinMove(pg, j).slot = j
    BY DEF PinMove
  <2>2. PinMove(pg, j) \notin p.moves[pg]
    BY <2>1 DEF Changed, P
  <2> QED
    BY <2>2, MovesIn
<1> QED
  BY <1>2, <1>3 DEF P, q

\* So are the pins: what comes off an OSD is one shard's, and so is what goes onto one.
LEMMA PinBackLedger ==
  ASSUME ClusterTyped(cluster), Consistent(cluster), NEW p, PlanTyped(p), PlanShape(p),
         Ledger(p), NEW pg \in Pg, NEW i \in Slots(cluster, pg), Arriving(cluster, pg, i),
         CanPinBack(p, pg, i),
         PlanTyped(PinBack(p, pg, i)), PlanShape(PinBack(p, pg, i))
  PROVE  Ledger(PinBack(p, pg, i))
<1>1. PICK q, P : q = PinBack(p, pg, i) /\ P = PinSlots(p, pg, i)
  OBVIOUS
<1>2. /\ \A x : x \in AllMoves(q) <=> x \in AllMoves(p) \/ \E j \in P : x = <<pg, PinMove(pg, j)>>
      /\ \A j \in P : <<pg, PinMove(pg, j)>> \notin AllMoves(p)
  <2>1. PinSlots(p, pg, i) \intersect Changed(p, pg) = {}
    BY DEF CanPinBack
  <2>2. /\ \A x : x \in AllMoves(PinBack(p, pg, i)) <=>
                   x \in AllMoves(p) \/ \E j \in PinSlots(p, pg, i) : x = <<pg, PinMove(pg, j)>>
        /\ \A j \in PinSlots(p, pg, i) : <<pg, PinMove(pg, j)>> \notin AllMoves(p)
    BY <2>1, PinBackMoves
  <2> QED
    BY <1>1, <2>2
<1>3. ASSUME NEW j \in P
      PROVE  /\ j \in Slots(cluster, pg) /\ Arriving(cluster, pg, j)
             /\ \A k \in P : (UpOf(pg, j) = UpOf(pg, k) => j = k)
                             /\ (PinTo(pg, j) = PinTo(pg, k) => j = k)
  BY <1>1, PinFacts, PinsDiffer
<1>4. \A j : <<pg, PinMove(pg, j)>>[1] = pg /\ <<pg, PinMove(pg, j)>>[2] = PinMove(pg, j)
  OBVIOUS
<1>5. \A j : PinMove(pg, j).slot = j /\ PinMove(pg, j).to = PinTo(pg, j) /\ PinMove(pg, j).pin
  BY DEF PinMove
<1> SUFFICES ASSUME NEW o \in Sized
             PROVE  /\ q.res[o] = cluster.res[o] - SumFunctionOnSet(Left, CancelledAt(q, o))
                                                 + SumFunctionOnSet(Sizes, PlacedOn(q, o))
                    /\ q.final[o] = cluster.final[o] - SumFunctionOnSet(Sizes, MovedFrom(q, o))
                                                     + SumFunctionOnSet(Sizes, HeadedTo(q, o))
  BY <1>1 DEF Ledger
<1>6. PICK from, to : from = {j \in P : UpOf(pg, j) = o} /\ to = {j \in P : PinTo(pg, j) = o}
  OBVIOUS
<1>7. o \in Osd
  OBVIOUS
<1>8. PICK c \in Int, d \in Int, e \in Int, h \in Int, a \in Int, b \in Int, s \in Int :
        /\ c = SumFunctionOnSet(Left, CancelledAt(p, o))
        /\ d = SumFunctionOnSet(Sizes, PlacedOn(p, o))
        /\ e = SumFunctionOnSet(Sizes, MovedFrom(p, o))
        /\ h = SumFunctionOnSet(Sizes, HeadedTo(p, o))
        /\ a = cluster.res[o] /\ b = cluster.final[o] /\ s = Size(pg)
  <2>1. Size(pg) \in Int
    BY ClusterFacts
  <2> QED
    BY <2>1, LedgerType
<1>9. p.res[o] = a - c + d /\ p.final[o] = b - e + h
  BY <1>8 DEF Ledger
<1>10. SumFunctionOnSet(Sizes, PlacedOn(q, o)) = d
  <2>1. PlacedOn(q, o) = PlacedOn(p, o)
    BY <1>2, <1>4, <1>5 DEF PlacedOn, HeadedTo
  <2> QED
    BY <1>8, <2>1
<1>11. /\ from = {} => /\ SumFunctionOnSet(Left, CancelledAt(q, o)) = c
                       /\ SumFunctionOnSet(Sizes, MovedFrom(q, o)) = e
                       /\ q.res[o] = p.res[o]
       /\ from # {} => /\ SumFunctionOnSet(Left, CancelledAt(q, o)) - c \in Int
                       /\ SumFunctionOnSet(Sizes, MovedFrom(q, o)) = e + s
                       /\ q.res[o] = p.res[o] - (SumFunctionOnSet(Left, CancelledAt(q, o)) - c)
  <2>1. CASE from = {}
    <3>1. MovedFrom(q, o) = MovedFrom(p, o) /\ CancelledAt(q, o) = CancelledAt(p, o)
      BY <1>2, <1>4, <1>5, <1>6, <2>1 DEF MovedFrom, CancelledAt
    <3>2. q.res[o] = p.res[o]
      BY <1>1, <1>6, <1>7, <2>1 DEF PinBack
    <3> QED
      BY <1>8, <2>1, <3>1, <3>2
  <2>2. CASE from # {}
    <3>1. PICK j : j = CHOOSE k \in from : TRUE
      OBVIOUS
    <3>2. j \in P /\ UpOf(pg, j) = o /\ from = {j}
      BY <1>3, <1>6, <2>2, <3>1
    <3>3. PICK x : x = <<pg, PinMove(pg, j)>>
      OBVIOUS
    <3>4. PICK S, T : S = MovedFrom(p, o) /\ T = CancelledAt(p, o)
      OBVIOUS
    <3>5. MovedFrom(q, o) = S \union {x}
      BY <1>2, <1>4, <1>5, <1>6, <3>2, <3>3, <3>4 DEF MovedFrom
    <3>6. CancelledAt(q, o) = T \union {x}
      BY <1>3, <1>4, <1>5, <3>2, <3>3, <3>4, <3>5 DEF CancelledAt
    <3>7. x \notin S /\ x \notin T /\ S \union {x} \subseteq AllMoves(q) /\ T \union {x} \subseteq AllMoves(q)
      BY <1>2, <3>2, <3>3, <3>4 DEF MovedFrom, CancelledAt
    <3>8. x[1] = pg /\ x[2].slot = j
      BY <1>5, <3>3
    <3>9. PlanTyped(q) /\ PlanShape(q)
      BY <1>1
    <3>10. /\ SumFunctionOnSet(Sizes, S \union {x}) = SumFunctionOnSet(Sizes, S) + Size(pg)
           /\ SumFunctionOnSet(Left, T \union {x}) =
                SumFunctionOnSet(Left, T) + ToCome(cluster, pg, j)
      <4>1. SumFunctionOnSet(Sizes, S \union {x}) = SumFunctionOnSet(Sizes, S) + Size(x[1])
        BY <3>7, <3>9, MoreMoves
      <4>2. SumFunctionOnSet(Left, T \union {x}) =
              SumFunctionOnSet(Left, T) + ToCome(cluster, x[1], x[2].slot)
        <5>1. x \notin T /\ T \union {x} \subseteq AllMoves(q)
          BY <3>7
        <5> QED
          BY <3>9, <5>1, MoreMoves
      <4> QED
        BY <3>8, <4>1, <4>2
    <3>11. PICK v \in Int : v = ToCome(cluster, pg, j)
      BY <1>3, <3>2, ClusterFacts
    <3>12. q.res[o] = p.res[o] - v
      BY <1>1, <1>6, <1>7, <2>2, <3>1, <3>11 DEF PinBack
    <3>13. SumFunctionOnSet(Left, CancelledAt(q, o)) = c + v
      BY <1>8, <3>4, <3>6, <3>10, <3>11
    <3>14. SumFunctionOnSet(Sizes, MovedFrom(q, o)) = e + s
      BY <1>8, <3>4, <3>5, <3>10
    <3>15. (c + v) - c = v
      OBVIOUS
    <3> QED
      BY <2>2, <3>12, <3>13, <3>14, <3>15
  <2> QED
    BY <2>1, <2>2
<1>12. SumFunctionOnSet(Sizes, HeadedTo(q, o)) = IF to = {} THEN h ELSE h + s
  <2>1. CASE to = {}
    <3>1. HeadedTo(q, o) = HeadedTo(p, o)
      BY <1>2, <1>4, <1>5, <1>6, <2>1 DEF HeadedTo
    <3> QED
      BY <1>8, <2>1, <3>1
  <2>2. CASE to # {}
    <3>1. PICK j \in P : PinTo(pg, j) = o /\ to = {j}
      BY <1>3, <1>6, <2>2
    <3>2. PICK x, S : x = <<pg, PinMove(pg, j)>> /\ S = HeadedTo(p, o)
      OBVIOUS
    <3>3. HeadedTo(q, o) = S \union {x}
      BY <1>2, <1>4, <1>5, <1>6, <3>1, <3>2 DEF HeadedTo
    <3>4. x \notin S /\ S \union {x} \subseteq AllMoves(q) /\ x[1] = pg
      BY <1>2, <3>1, <3>2 DEF HeadedTo
    <3>5. PlanTyped(q) /\ PlanShape(q)
      BY <1>1
    <3>6. SumFunctionOnSet(Sizes, S \union {x}) = SumFunctionOnSet(Sizes, S) + Size(pg)
      BY <3>4, <3>5, MoreMoves
    <3> QED
      BY <1>8, <2>2, <3>2, <3>3, <3>6
  <2> QED
    BY <2>1, <2>2
<1>13. q.final[o] = p.final[o] - (IF from # {} THEN s ELSE 0) + (IF to # {} THEN s ELSE 0)
  BY <1>1, <1>6, <1>7, <1>8 DEF PinBack
<1>14. q.res[o] = a - SumFunctionOnSet(Left, CancelledAt(q, o)) + SumFunctionOnSet(Sizes, PlacedOn(q, o))
  <2>1. PICK z \in Int : z = SumFunctionOnSet(Left, CancelledAt(q, o))
    BY <1>1, LedgerType
  <2> QED
    BY <1>9, <1>10, <1>11, <2>1
<1>15. q.final[o] = b - SumFunctionOnSet(Sizes, MovedFrom(q, o)) + SumFunctionOnSet(Sizes, HeadedTo(q, o))
  <2>1. SumFunctionOnSet(Sizes, MovedFrom(q, o)) = IF from = {} THEN e ELSE e + s
    BY <1>11
  <2> QED
    BY <1>9, <1>12, <1>13, <2>1
<1> QED
  BY <1>8, <1>14, <1>15

\* The PGs with data that the run expects to leave the OSD: no pin keeps it there.
Owed(p, o) ==
  {pg \in Pg : /\ o \in DepartingOsds(cluster, pg)
               /\ \A m \in p.moves[pg] : m.pin => m.to # o}

\* An OSD's final projection is below its reservation by at least that data.
Credit(p) ==
  \A o \in Sized : p.final[o] + SumFunctionOnSet(ShardSize, Owed(p, o)) <= p.res[o]

\* The data that leaves an OSD is a number.
LEMMA OwedType ==
  ASSUME NEW p, NEW o
  PROVE  /\ IsFiniteSet(Owed(p, o))
         /\ \A pg \in Owed(p, o) : ShardSize[pg] \in Nat
         /\ SumFunctionOnSet(ShardSize, Owed(p, o)) \in Nat
<1>1. IsFiniteSet(Owed(p, o)) /\ \A pg \in Owed(p, o) : ShardSize[pg] \in Nat
  BY FS_Subset DEF Owed
<1> QED
  BY <1>1, SumNat

\* So an OSD's final projection is never above its reservation.
LEMMA CreditOrders ==
  ASSUME NEW p, PlanTyped(p), Credit(p), NEW o \in Sized
  PROVE  p.final[o] <= p.res[o]
<1>1. PICK s \in Nat : s = SumFunctionOnSet(ShardSize, Owed(p, o))
  BY OwedType
<1>2. p.final[o] \in Int /\ p.res[o] \in Int /\ p.final[o] + s <= p.res[o]
  BY <1>1 DEF PlanTyped, Credit
<1> QED
  BY <1>2

\* A move frees at least what it no longer reserves.
LEMMA CommitCredit ==
  ASSUME ClusterTyped(cluster), NEW p, PlanTyped(p), Credit(p), NEW pg \in Pg,
         NEW i \in Slots(cluster, pg), NEW t, NEW role
  PROVE  Credit(Commit(p, pg, i, t, role))
<1> SUFFICES ASSUME NEW o \in Sized
             PROVE  Commit(p, pg, i, t, role).final[o]
                    + SumFunctionOnSet(ShardSize, Owed(Commit(p, pg, i, t, role), o))
                      <= Commit(p, pg, i, t, role).res[o]
  BY DEF Credit
<1>1. PICK q : q = Commit(p, pg, i, t, role)
  OBVIOUS
<1>2. \A g \in Pg : q.moves[g] = IF g = pg THEN p.moves[pg] \union {CommittedMove(i, t, role)}
                                           ELSE p.moves[g]
  BY <1>1 DEF Commit, PlanTyped
<1>3. Owed(q, o) = Owed(p, o)
  <2>1. ~CommittedMove(i, t, role).pin
    BY DEF CommittedMove
  <2>2. ASSUME NEW g \in Pg
        PROVE  (\A m \in q.moves[g] : m.pin => m.to # o) <=> (\A m \in p.moves[g] : m.pin => m.to # o)
    BY <1>2, <2>1
  <2> QED
    BY <2>2 DEF Owed
<1>4. o \in Osd
  OBVIOUS
<1>5. /\ q.res[o] = p.res[o] - Cancelled(pg, i, UpOf(pg, i), o) + Moved(pg, t, o)
      /\ q.final[o] = p.final[o] - Moved(pg, UpOf(pg, i), o) + Moved(pg, t, o)
  <2>1. /\ Commit(p, pg, i, t, role).res[o] =
             p.res[o] - Cancelled(pg, i, UpOf(pg, i), o) + Moved(pg, t, o)
        /\ Commit(p, pg, i, t, role).final[o] =
             p.final[o] - Moved(pg, UpOf(pg, i), o) + Moved(pg, t, o)
    BY <1>4, CommitUsage
  <2> QED
    BY <1>1, <2>1
<1>6. PICK v \in Int, w \in Int, y \in Int :
        /\ v = Cancelled(pg, i, UpOf(pg, i), o) /\ w = Moved(pg, t, o)
        /\ y = Moved(pg, UpOf(pg, i), o) /\ v <= y
  <2>1. Cancelled(pg, i, UpOf(pg, i), o) \in Nat
    BY CancelledType
  <2>2. Moved(pg, t, o) \in Nat /\ Moved(pg, UpOf(pg, i), o) \in Nat
    BY MovedType
  <2>3. Cancelled(pg, i, UpOf(pg, i), o) <= Moved(pg, UpOf(pg, i), o)
    <3>1. ToCome(cluster, pg, i) \in 0..Size(pg) /\ Size(pg) \in Nat
      BY ClusterFacts
    <3> QED
      BY <3>1 DEF Cancelled, Moved
  <2> QED
    BY <2>1, <2>2, <2>3
<1>7. PICK s \in Int : s = SumFunctionOnSet(ShardSize, Owed(p, o))
  BY OwedType
<1>8. p.res[o] \in Int /\ p.final[o] \in Int /\ p.final[o] + s <= p.res[o]
  BY <1>7 DEF PlanTyped, Credit
<1>9. q.res[o] = p.res[o] - v + w /\ q.final[o] = p.final[o] - y + w
  BY <1>5, <1>6
<1>10. q.final[o] + s <= q.res[o]
  BY <1>6, <1>8, <1>9
<1> QED
  BY <1>1, <1>3, <1>7, <1>10

\* Undoing a move onto one OSD for a move onto another frees nothing.
LEMMA RePlacedCredit ==
  ASSUME ClusterTyped(cluster), NEW p, PlanTyped(p), Credit(p), NEW pg \in Pg, NEW i,
         NEW m \in p.moves[pg], ~m.pin, NEW t
  PROVE  Credit(RePlaced(p, pg, i, m, t))
<1> SUFFICES ASSUME NEW o \in Sized
             PROVE  RePlaced(p, pg, i, m, t).final[o]
                    + SumFunctionOnSet(ShardSize, Owed(RePlaced(p, pg, i, m, t), o))
                      <= RePlaced(p, pg, i, m, t).res[o]
  BY DEF Credit
<1>1. PICK q : q = RePlaced(p, pg, i, m, t)
  OBVIOUS
<1>2. \A g \in Pg : q.moves[g] =
        IF g = pg THEN (p.moves[pg] \ {m}) \union {CommittedMove(m.slot, t, "requested")}
                  ELSE p.moves[g]
  BY <1>1 DEF RePlaced, Commit, Uncommit, PlanTyped
<1>3. Owed(q, o) = Owed(p, o)
  BY <1>2 DEF Owed, CommittedMove
<1>4. o \in Osd
  OBVIOUS
<1>5. /\ q.res[o] = p.res[o] - Moved(pg, m.to, o) + Moved(pg, t, o)
      /\ q.final[o] = p.final[o] - Moved(pg, m.to, o) + Moved(pg, t, o)
  <2>1. /\ RePlaced(p, pg, i, m, t).res[o] = p.res[o] - Moved(pg, m.to, o) + Moved(pg, t, o)
        /\ RePlaced(p, pg, i, m, t).final[o] = p.final[o] - Moved(pg, m.to, o) + Moved(pg, t, o)
    BY <1>4, RePlacedUsage
  <2> QED
    BY <1>1, <2>1
<1>6. PICK w \in Int, y \in Int : w = Moved(pg, t, o) /\ y = Moved(pg, m.to, o)
  BY MovedType
<1>7. PICK s \in Int : s = SumFunctionOnSet(ShardSize, Owed(p, o))
  BY OwedType
<1>8. p.res[o] \in Int /\ p.final[o] \in Int /\ p.final[o] + s <= p.res[o]
  BY <1>7 DEF PlanTyped, Credit
<1>9. q.res[o] = p.res[o] - y + w /\ q.final[o] = p.final[o] - y + w
  BY <1>5, <1>6
<1>10. q.final[o] + s <= q.res[o]
  BY <1>6, <1>8, <1>9
<1> QED
  BY <1>1, <1>3, <1>7, <1>10

\* A shard is pinned onto an OSD whose data of the PG was to leave: that much less does.
LEMMA PinBackCredit ==
  ASSUME ClusterTyped(cluster), Consistent(cluster), NEW p, PlanTyped(p), PlanShape(p),
         Credit(p), NEW pg \in Pg, NEW i \in Slots(cluster, pg), Arriving(cluster, pg, i),
         CanPinBack(p, pg, i)
  PROVE  Credit(PinBack(p, pg, i))
<1>1. PICK q, P : q = PinBack(p, pg, i) /\ P = PinSlots(p, pg, i)
  OBVIOUS
<1> SUFFICES ASSUME NEW o \in Sized
             PROVE  q.final[o] + SumFunctionOnSet(ShardSize, Owed(q, o)) <= q.res[o]
  BY <1>1 DEF Credit
<1>2. o \in Osd
  OBVIOUS
<1>3. PICK from, to : from = {j \in P : UpOf(pg, j) = o} /\ to = {j \in P : PinTo(pg, j) = o}
  OBVIOUS
<1>4. PICK s \in Nat : s = Size(pg)
  BY ClusterFacts
<1>5. PICK w \in Int : w = SumFunctionOnSet(ShardSize, Owed(p, o))
  BY OwedType
<1>6. p.res[o] \in Int /\ p.final[o] \in Int /\ p.final[o] + w <= p.res[o]
  BY <1>5 DEF PlanTyped, Credit
<1>7. PICK c \in 0..s : q.res[o] = p.res[o] - c /\ (from = {} => c = 0)
  <2>1. CASE from = {}
    <3>1. q.res[o] = p.res[o] - 0
      BY <1>1, <1>2, <1>3, <1>6, <2>1 DEF PinBack
    <3> QED
      BY <3>1
  <2>2. CASE from # {}
    <3>1. PICK j : j = CHOOSE k \in from : TRUE
      OBVIOUS
    <3>2. j \in P
      BY <1>3, <2>2, <3>1
    <3>3. j \in Slots(cluster, pg)
      BY <1>1, <3>2, PinFacts
    <3>4. ToCome(cluster, pg, j) \in 0..s
      BY <1>4, <3>3, ClusterFacts
    <3>5. q.res[o] = p.res[o] - ToCome(cluster, pg, j)
      BY <1>1, <1>2, <1>3, <2>2, <3>1 DEF PinBack
    <3> QED
      BY <2>2, <3>4, <3>5
  <2> QED
    BY <2>1, <2>2
<1>8. q.final[o] = p.final[o] - (IF from # {} THEN s ELSE 0) + (IF to # {} THEN s ELSE 0)
  BY <1>1, <1>2, <1>3, <1>4 DEF PinBack
<1>9. \A g \in Pg : \A n :
        n \in q.moves[g] <=> n \in p.moves[g] \/ (g = pg /\ \E j \in P : n = PinMove(pg, j))
  BY <1>1 DEF PinBack, PlanTyped, PinMove
<1>10. \A j : PinMove(pg, j).pin /\ PinMove(pg, j).to = PinTo(pg, j)
  BY DEF PinMove
<1>11. SumFunctionOnSet(ShardSize, Owed(q, o)) = IF to = {} THEN w ELSE w - s
  <2>1. CASE to = {}
    <3>1. \A j \in P : PinMove(pg, j).to # o
      BY <1>3, <1>10, <2>1
    <3>2. ASSUME NEW g \in Pg
          PROVE  (\A m \in q.moves[g] : m.pin => m.to # o)
                   <=> (\A m \in p.moves[g] : m.pin => m.to # o)
      BY <1>9, <3>1
    <3>3. Owed(q, o) = Owed(p, o)
      BY <3>2 DEF Owed
    <3> QED
      BY <1>5, <2>1, <3>3
  <2>2. CASE to # {}
    <3>1. PICK j \in P : PinTo(pg, j) = o
      BY <1>3, <2>2
    <3>2. /\ o \in DepartingOsds(cluster, pg)
          /\ \A k \in Slots(cluster, pg) : k # j => q.newUp[pg][k] # o
          /\ j \notin Changed(p, pg)
      BY <1>1, <3>1, PinFacts
    <3>3. ASSUME NEW m \in p.moves[pg], m.pin, m.to = o PROVE FALSE
      <4>1. m.slot \in Slots(cluster, pg) /\ m.slot \in Changed(p, pg)
        BY DEF PlanTyped, Changed
      <4>2. m.slot \notin P
        BY <1>1, <4>1 DEF CanPinBack
      <4>3. p.newUp[pg][m.slot] = o
        BY <3>3 DEF PlanShape
      <4>4. q.newUp[pg][m.slot] = p.newUp[pg][m.slot]
        <5>1. DOMAIN p.newUp = Pg /\ DOMAIN p.newUp[pg] = Slots(cluster, pg)
          BY DEF PlanTyped
        <5> QED
          BY <1>1, <4>1, <4>2, <5>1 DEF PinBack
      <4> QED
        BY <3>2, <4>1, <4>3, <4>4
    <3>4. pg \in Owed(p, o)
      BY <3>2, <3>3 DEF Owed
    <3>5. Owed(q, o) = Owed(p, o) \ {pg}
      BY <1>9, <1>10, <3>1 DEF Owed
    <3>6. SumFunctionOnSet(ShardSize, Owed(p, o)) =
            ShardSize[pg] + SumFunctionOnSet(ShardSize, Owed(p, o) \ {pg})
      <4>1. PICK S : S = Owed(p, o)
        OBVIOUS
      <4>2. IsFiniteSet(S) /\ pg \in S /\ \A g \in S : ShardSize[g] \in Int
        BY <3>4, <4>1, OwedType
      <4>3. SumFunctionOnSet(ShardSize, S) = ShardSize[pg] + SumFunctionOnSet(ShardSize, S \ {pg})
        BY <4>2, SumTakesOut
      <4> QED
        BY <4>1, <4>3
    <3>7. PICK z \in Int : z = SumFunctionOnSet(ShardSize, Owed(q, o))
      BY OwedType
    <3>8. w = s + z
      BY <1>4, <1>5, <3>5, <3>6, <3>7 DEF Size
    <3> QED
      BY <2>2, <3>7, <3>8
  <2> QED
    BY <2>1, <2>2
<1>12. CASE to = {}
  BY <1>4, <1>5, <1>6, <1>7, <1>8, <1>11, <1>12
<1>13. CASE to # {}
  BY <1>4, <1>5, <1>6, <1>7, <1>8, <1>11, <1>13
<1> QED
  BY <1>12, <1>13

-----------------------------------------------------------------------------
\* What a plan holds of the proposals it makes, besides PlanOK.
BooksOK(p) == AllSound(p) /\ Ledger(p) /\ Credit(p)

BooksInv == PlanInv /\ BooksOK(plan)

\* A committed move keeps the books.
LEMMA CommitBooks ==
  ASSUME ClusterTyped(cluster), NEW p, PlanOK(p), BooksOK(p), NEW pg \in Pg,
         NEW i \in Slots(cluster, pg), i \notin Changed(p, pg), IsReal(UpOf(pg, i)),
         ~Chained(cluster.pairs[pg]), NEW t, NEW avoid, Legal(p, pg, i, t, avoid), NEW role \in Roles,
         PlanOK(Commit(p, pg, i, t, role))
  PROVE  BooksOK(Commit(p, pg, i, t, role))
<1> DEFINE q == Commit(p, pg, i, t, role)
<1>1. PlanTyped(p) /\ PlanShape(p) /\ AllSound(p) /\ Ledger(p) /\ Credit(p)
  BY DEF PlanOK, BooksOK
<1>2. PlanTyped(q) /\ PlanShape(q)
  BY DEF PlanOK
<1>3. AllSound(q)
  BY <1>1, CommitSound
<1>4. Ledger(q)
  BY <1>1, <1>2, CommitLedger
<1>5. Credit(q)
  BY <1>1, CommitCredit
<1> QED
  BY <1>3, <1>4, <1>5 DEF BooksOK

\* A re-placed one does.
LEMMA RePlacedBooks ==
  ASSUME ClusterTyped(cluster), NEW p, PlanOK(p), BooksOK(p), NEW pg \in Pg, NEW i,
         NEW m \in p.moves[pg], ~m.pin, NEW t, NEW avoid,
         Legal(Uncommit(p, pg, m), pg, m.slot, t, avoid),
         PlanOK(RePlaced(p, pg, i, m, t))
  PROVE  BooksOK(RePlaced(p, pg, i, m, t))
<1>1. PlanTyped(p) /\ PlanShape(p) /\ AllSound(p) /\ Ledger(p) /\ Credit(p)
  BY DEF PlanOK, BooksOK
<1>2. PICK q, r : q = RePlaced(p, pg, i, m, t) /\ r = Uncommit(p, pg, m)
  OBVIOUS
<1>3. PlanTyped(r) /\ PlanShape(r) /\ m.slot \in Slots(cluster, pg) \ Changed(r, pg)
  BY <1>1, <1>2, UncommitType, UncommitShape
<1>4. Ledger(r)
  BY <1>1, <1>2, <1>3, UncommitLedger
<1>5. q = Commit(r, pg, m.slot, t, "requested")
  BY <1>2 DEF RePlaced
<1>6. PlanTyped(Commit(r, pg, m.slot, t, "requested")) /\ PlanShape(Commit(r, pg, m.slot, t, "requested"))
  BY <1>2, <1>5 DEF PlanOK
<1>7. Ledger(q)
  <2>1. PICK k, role : k = m.slot /\ role = "requested"
    OBVIOUS
  <2>2. k \in Slots(cluster, pg) /\ k \notin Changed(r, pg)
    BY <1>3, <2>1
  <2>3. PlanTyped(Commit(r, pg, k, t, role)) /\ PlanShape(Commit(r, pg, k, t, role))
    BY <1>6, <2>1
  <2>4. Ledger(Commit(r, pg, k, t, role))
    BY <1>3, <1>4, <2>2, <2>3, CommitLedger
  <2> QED
    BY <1>5, <2>1, <2>4
<1>8. AllSound(q)
  BY <1>1, <1>2, RePlacedSound
<1>9. Credit(q)
  BY <1>1, <1>2, RePlacedCredit
<1> QED
  BY <1>2, <1>7, <1>8, <1>9 DEF BooksOK

\* A blocker pinned back does.
LEMMA PinBackBooks ==
  ASSUME ClusterTyped(cluster), Consistent(cluster), NEW p, PlanOK(p), BooksOK(p),
         NEW pg \in Pg, NEW i \in Slots(cluster, pg), Arriving(cluster, pg, i),
         ~Chained(cluster.pairs[pg]), CanPinBack(p, pg, i), PlanOK(PinBack(p, pg, i))
  PROVE  BooksOK(PinBack(p, pg, i))
<1>1. PlanTyped(p) /\ PlanShape(p) /\ AllSound(p) /\ Ledger(p) /\ Credit(p)
  BY DEF PlanOK, BooksOK
<1>2. PlanTyped(PinBack(p, pg, i)) /\ PlanShape(PinBack(p, pg, i))
  BY DEF PlanOK
<1>3. AllSound(PinBack(p, pg, i))
  BY <1>1, PinBackSound
<1>4. Ledger(PinBack(p, pg, i))
  BY <1>1, <1>2, PinBackLedger
<1>5. Credit(PinBack(p, pg, i))
  BY <1>1, PinBackCredit
<1> QED
  BY <1>3, <1>4, <1>5 DEF BooksOK

\* The books are empty before anything is proposed.
LEMMA InitBooks ==
  ASSUME PlanInit
  PROVE  BooksInv
<1>1. PlanInv
  BY InitOK
<1>2. /\ cluster \in Clusters
      /\ plan.res = cluster.res /\ plan.final = cluster.final
      /\ plan.newUp = cluster.up
      /\ \A pg \in Pg : plan.moves[pg] = {}
  BY DEF PlanInit
<1>3. /\ ClusterTyped(cluster) /\ Consistent(cluster)
      /\ cluster.res = Reservation(cluster) /\ cluster.final = Final(cluster)
  BY <1>2, ClustersTyped
<1>4. AllSound(plan)
  BY <1>2, <1>3, FetchedDistinct DEF AllSound, Sound, Up
<1>5. ASSUME NEW o \in Sized
      PROVE  /\ plan.res[o] = cluster.res[o] - SumFunctionOnSet(Left, CancelledAt(plan, o))
                                             + SumFunctionOnSet(Sizes, PlacedOn(plan, o))
             /\ plan.final[o] = cluster.final[o] - SumFunctionOnSet(Sizes, MovedFrom(plan, o))
                                                 + SumFunctionOnSet(Sizes, HeadedTo(plan, o))
  <2>1. AllMoves(plan) = {}
    BY <1>2 DEF AllMoves
  <2>2. /\ CancelledAt(plan, o) = {} /\ PlacedOn(plan, o) = {}
        /\ MovedFrom(plan, o) = {} /\ HeadedTo(plan, o) = {}
    BY <2>1 DEF CancelledAt, PlacedOn, MovedFrom, HeadedTo
  <2>3. SumFunctionOnSet(Left, {}) = 0 /\ SumFunctionOnSet(Sizes, {}) = 0
    BY SumEmpty
  <2>4. cluster.res[o] \in Int /\ cluster.final[o] \in Int
    BY <1>3 DEF ClusterTyped
  <2> QED
    BY <1>2, <2>2, <2>3, <2>4
<1>6. ASSUME NEW o \in Sized
      PROVE  plan.final[o] + SumFunctionOnSet(ShardSize, Owed(plan, o)) <= plan.res[o]
  <2>1. Owed(plan, o) = {pg \in Pg : o \in DepartingOsds(cluster, pg)}
    BY <1>2 DEF Owed
  <2>2. o \in Osd
    OBVIOUS
  <2>3. cluster.final[o] = cluster.res[o] - SumFunctionOnSet(ShardSize, Owed(plan, o))
    BY <1>3, <2>1, <2>2 DEF Final
  <2>4. PICK s \in Int : s = SumFunctionOnSet(ShardSize, Owed(plan, o))
    BY OwedType
  <2>5. cluster.res[o] \in Int
    BY <1>3 DEF ClusterTyped
  <2> QED
    BY <1>2, <2>3, <2>4, <2>5
<1> QED
  BY <1>1, <1>4, <1>5, <1>6 DEF BooksInv, BooksOK, Ledger, Credit

\* What is fetched stays, so that what is said of the next state's plan is said there too.
LEMMA PlanThen ==
  ASSUME cluster' = cluster, PlanOK(plan')
  PROVE  PlanOK(plan)'
BY DEF PlanOK, PlanTyped, PlanShape, Room, Apart, NoneOntoSource, LevelInv, SourcesInv,
       PinnedAt, BelowLevel, Changed, UpOf, Up, Slots

LEMMA BooksThen ==
  ASSUME cluster' = cluster, BooksOK(plan')
  PROVE  BooksOK(plan)'
<1>1. AllSound(plan)'
  <2> SUFFICES ASSUME NEW pg \in Pg PROVE Sound(plan, pg)'
    BY DEF AllSound
  <2>1. Sound(plan', pg)
    BY DEF BooksOK, AllSound
  <2>2. \A j : UpOf(pg, j)' = UpOf(pg, j)
    BY DEF UpOf
  <2>3. Pairs(plan, pg)' = Pairs(plan', pg)
    BY <2>2 DEF Pairs
  <2>4. Chains(plan, pg, {})' <=> Chains(plan', pg, {})
    BY <2>3 DEF Chains
  <2> QED
    BY <2>1, <2>2, <2>4 DEF Sound
<1>2. Ledger(plan)'
  BY DEF BooksOK, Ledger, Left, CancelledAt, MovedFrom, HeadedTo, PlacedOn, UpOf
<1>3. Credit(plan)'
  BY DEF BooksOK, Credit, Owed
<1> QED
  BY <1>1, <1>2, <1>3 DEF BooksOK

\* Every step keeps them.
LEMMA NextBooks ==
  ASSUME BooksInv, [PlanNext]_vars
  PROVE  BooksInv'
<1>1. /\ ClusterTyped(cluster) /\ Consistent(cluster) /\ PlanOK(plan) /\ BooksOK(plan)
      /\ PlanInv
  BY ClustersTyped DEF BooksInv, PlanInv
<1>2. PlanInv'
  BY <1>1, NextOK
<1>3. ASSUME cluster' = cluster PROVE PlanOK(plan')
  BY <1>2, <1>3 DEF PlanInv, PlanOK, PlanTyped, PlanShape, Room, Apart,
                    NoneOntoSource, LevelInv, SourcesInv, PinnedAt, BelowLevel,
                    Changed, UpOf, Up, Slots
<1>4. \A s \in Shards : s[1] \in Pg /\ s[2] \in Slots(cluster, s[1])
  BY DEF Shards
<1>5. ASSUME NEW pg \in Pg, plan.moves[pg] # {} PROVE ~Chained(cluster.pairs[pg])
  BY <1>1, <1>5 DEF BooksOK, AllSound, Sound
<1>6. ASSUME NEW s \in Shards, NEW t \in Osd, MoveOff(s[1], s[2], t)
      PROVE  BooksOK(plan') /\ cluster' = cluster
  <2>1. PICK pg, i : pg = s[1] /\ i = s[2] /\ pg \in Pg /\ i \in Slots(cluster, pg)
    BY <1>4
  <2>2. /\ i \notin Changed(plan, pg) /\ Legal(plan, pg, i, t, {})
        /\ ~Chained(cluster.pairs[pg])
        /\ UpOf(pg, i) \in Sources
        /\ plan' = Commit(plan, pg, i, t, "requested") /\ cluster' = cluster
    BY <1>6, <2>1 DEF MoveOff, MayChange
  <2>3. IsReal(UpOf(pg, i)) /\ "requested" \in Roles
    BY <2>2 DEF IsReal, Roles
  <2>4. PlanOK(Commit(plan, pg, i, t, "requested"))
    BY <1>3, <2>2
  <2>5. BooksOK(Commit(plan, pg, i, t, "requested"))
    BY <1>1, <2>1, <2>2, <2>3, <2>4, CommitBooks
  <2> QED
    BY <2>2, <2>5
<1>7. ASSUME NEW s \in Shards, NEW t \in Osd, Divert(s[1], s[2], t)
      PROVE  BooksOK(plan') /\ cluster' = cluster
  <2>1. PICK pg, i : pg = s[1] /\ i = s[2] /\ pg \in Pg /\ i \in Slots(cluster, pg)
    BY <1>4
  <2>2. /\ i \notin Changed(plan, pg) /\ Legal(plan, pg, i, t, {}) /\ plan.moves[pg] # {}
        /\ IsReal(UpOf(pg, i)) /\ "blocker" \in Roles
        /\ plan' = Commit(plan, pg, i, t, "blocker") /\ cluster' = cluster
    BY <1>7, <2>1 DEF Divert, Blocker, IsBlocker, Arriving, UpOf, Roles
  <2>3. ~Chained(cluster.pairs[pg])
    BY <1>5, <2>1, <2>2
  <2>4. PlanOK(Commit(plan, pg, i, t, "blocker"))
    BY <1>3, <2>2
  <2>5. BooksOK(Commit(plan, pg, i, t, "blocker"))
    BY <1>1, <2>1, <2>2, <2>3, <2>4, CommitBooks
  <2> QED
    BY <2>2, <2>5
<1>8. ASSUME NEW s \in Shards, PinBlocker(s[1], s[2])
      PROVE  BooksOK(plan') /\ cluster' = cluster
  <2>1. PICK pg, i : pg = s[1] /\ i = s[2] /\ pg \in Pg /\ i \in Slots(cluster, pg)
    BY <1>4
  <2>2. /\ CanPinBack(plan, pg, i) /\ Arriving(cluster, pg, i) /\ plan.moves[pg] # {}
        /\ plan' = PinBack(plan, pg, i) /\ cluster' = cluster
    BY <1>8, <2>1 DEF PinBlocker, Blocker, IsBlocker
  <2>3. ~Chained(cluster.pairs[pg])
    BY <1>5, <2>1, <2>2
  <2>4. PlanOK(PinBack(plan, pg, i))
    BY <1>3, <2>2
  <2>5. BooksOK(PinBack(plan, pg, i))
    BY <1>1, <2>1, <2>2, <2>3, <2>4, PinBackBooks
  <2> QED
    BY <2>2, <2>5
<1>9. ASSUME NEW s \in Shards, NEW t \in Osd, NEW m \in plan.moves[s[1]],
             PinElsewhere(s[1], s[2], m, t)
      PROVE  BooksOK(plan') /\ cluster' = cluster
  <2>1. PICK pg, i : pg = s[1] /\ i = s[2] /\ pg \in Pg /\ i \in Slots(cluster, pg)
    BY <1>4
  <2>2. PICK r : r = RePlaced(plan, pg, i, m, t)
    OBVIOUS
  <2>3. PICK avoid : avoid = {HostOf[ActingOf(cluster, pg, i)]}
    OBVIOUS
  <2>4. /\ m \in plan.moves[pg] /\ m.role = "requested" /\ ~m.pin
        /\ Legal(Uncommit(plan, pg, m), pg, m.slot, t, avoid)
        /\ CanPinBack(r, pg, i) /\ Arriving(cluster, pg, i)
        /\ plan' = PinBack(r, pg, i) /\ cluster' = cluster
    BY <1>9, <2>1, <2>2, <2>3 DEF PinElsewhere, InTheWay, CanRePlace, Blocker, IsBlocker
  <2>5. PlanOK(RePlaced(plan, pg, i, m, t))
    <3>1. UpOf(pg, m.slot) \in Sources
      BY <1>1, <2>1, <2>4 DEF PlanInv, Requested
    <3> QED
      BY <1>1, <2>1, <2>4, <3>1, RePlacedOK
  <2>6. BooksOK(RePlaced(plan, pg, i, m, t))
    BY <1>1, <2>1, <2>4, <2>5, RePlacedBooks
  <2>7. ~Chained(cluster.pairs[pg])
    BY <1>5, <2>1, <2>4
  <2>8. PlanOK(r) /\ BooksOK(r) /\ PlanOK(PinBack(r, pg, i))
    BY <1>3, <2>2, <2>4, <2>5, <2>6
  <2>9. BooksOK(PinBack(r, pg, i))
    BY <1>1, <2>1, <2>4, <2>7, <2>8, PinBackBooks
  <2> QED
    BY <2>4, <2>9
<1>10. ASSUME BooksOK(plan'), cluster' = cluster
       PROVE  BooksOK(plan)'
  BY <1>10, BooksThen
<1>11. CASE UNCHANGED vars
  BY <1>1, <1>2, <1>10, <1>11 DEF vars, BooksInv
<1> QED
  BY <1>2, <1>6, <1>7, <1>8, <1>9, <1>10, <1>11 DEF PlanNext, BooksInv

\* The books are kept throughout a run.
LEMMA BooksAreKept == PlanSpec => []BooksInv
<1>1. PlanInit => BooksInv
  BY InitBooks
<1>2. BooksInv /\ [PlanNext]_vars => BooksInv'
  BY NextBooks
<1> QED
  BY <1>1, <1>2, PTL DEF PlanSpec

\* The sum of a function on a set, however the function is written.
LEMMA SumOfSizes ==
  ASSUME ClusterTyped(cluster), NEW p, PlanTyped(p), PlanShape(p), NEW S \in SUBSET AllMoves(p)
  PROVE  /\ SumFunction([x \in S |-> Size(x[1])]) = SumFunctionOnSet(Sizes, S)
         /\ SumFunction([x \in S |-> ToCome(cluster, x[1], x[2].slot)]) = SumFunctionOnSet(Left, S)
<1>1. PICK f, g, a, b : /\ f = Sizes /\ g = Left
                        /\ a = [x \in S |-> Size(x[1])]
                        /\ b = [x \in S |-> ToCome(cluster, x[1], x[2].slot)]
  OBVIOUS
<1>2. IsFiniteSet(S)
  BY MovesAre, FS_Subset
<1>3. ASSUME NEW x \in S
      PROVE  /\ a[x] \in Int /\ a[x] = f[x]
             /\ b[x] \in Int /\ b[x] = g[x]
  <2>1. /\ Sizes[x] = Size(x[1]) /\ Sizes[x] \in Nat
        /\ Left[x] = ToCome(cluster, x[1], x[2].slot) /\ Left[x] \in 0..Size(x[1])
    BY MovesAre
  <2> QED
    BY <1>1, <2>1
<1>4. SumFunctionOnSet(a, S) = SumFunctionOnSet(f, S)
  BY <1>2, <1>3, SumAgrees
<1>5. SumFunctionOnSet(b, S) = SumFunctionOnSet(g, S)
  BY <1>2, <1>3, SumAgrees
<1>6. SumFunction(a) = SumFunctionOnSet(a, S) /\ SumFunction(b) = SumFunctionOnSet(b, S)
  BY <1>1 DEF SumFunction
<1> QED
  BY <1>1, <1>4, <1>5, <1>6

\* Books in order make the properties.
LEMMA BooksImply ==
  ASSUME cluster \in Clusters, PlanOK(plan), BooksOK(plan)
  PROVE  AppliedAsPlanned /\ UsageAccounted
<1>1. /\ ClusterTyped(cluster) /\ Consistent(cluster)
      /\ PlanTyped(plan) /\ PlanShape(plan) /\ AllSound(plan) /\ Ledger(plan) /\ Credit(plan)
  BY ClustersTyped DEF PlanOK, BooksOK
<1>2. AppliedAsPlanned
  BY <1>1, SoundIsApplied
<1>3. UsageAccounted
  <2> DEFINE Gone(o) == {x \in AllMoves(plan) : UpOf(x[1], x[2].slot) = o}
             Headed(o) == {x \in AllMoves(plan) : x[2].to = o}
             Stopped(o) == {x \in Gone(o) : Arriving(cluster, x[1], x[2].slot)}
             Placed(o) == {x \in Headed(o) : ~x[2].pin}
  <2>1. ASSUME NEW o \in Sized
        PROVE  /\ plan.final[o] <= plan.res[o]
               /\ plan.res[o] =
                    cluster.res[o]
                    - SumFunction([x \in Stopped(o) |-> ToCome(cluster, x[1], x[2].slot)])
                    + SumFunction([x \in Placed(o) |-> Size(x[1])])
               /\ plan.final[o] =
                    cluster.final[o]
                    - SumFunction([x \in Gone(o) |-> Size(x[1])])
                    + SumFunction([x \in Headed(o) |-> Size(x[1])])
    <3>1. plan.final[o] <= plan.res[o]
      BY <1>1, CreditOrders
    <3>2. PICK A, B, C, D : A = Stopped(o) /\ B = Placed(o) /\ C = Gone(o) /\ D = Headed(o)
      OBVIOUS
    <3>3. A = CancelledAt(plan, o) /\ B = PlacedOn(plan, o) /\ C = MovedFrom(plan, o) /\ D = HeadedTo(plan, o)
      BY <3>2 DEF CancelledAt, PlacedOn, MovedFrom, HeadedTo
    <3>4. A \in SUBSET AllMoves(plan) /\ B \in SUBSET AllMoves(plan)
          /\ C \in SUBSET AllMoves(plan) /\ D \in SUBSET AllMoves(plan)
      BY <3>2
    <3>5. /\ plan.res[o] = cluster.res[o] - SumFunctionOnSet(Left, A) + SumFunctionOnSet(Sizes, B)
          /\ plan.final[o] = cluster.final[o] - SumFunctionOnSet(Sizes, C) + SumFunctionOnSet(Sizes, D)
      BY <1>1, <3>3 DEF Ledger
    <3>6. /\ SumFunction([x \in A |-> ToCome(cluster, x[1], x[2].slot)]) = SumFunctionOnSet(Left, A)
          /\ SumFunction([x \in B |-> Size(x[1])]) = SumFunctionOnSet(Sizes, B)
          /\ SumFunction([x \in C |-> Size(x[1])]) = SumFunctionOnSet(Sizes, C)
          /\ SumFunction([x \in D |-> Size(x[1])]) = SumFunctionOnSet(Sizes, D)
      BY <1>1, <3>4, SumOfSizes
    <3> HIDE DEF Gone, Headed, Stopped, Placed
    <3> QED
      BY <3>1, <3>2, <3>5, <3>6
  <2> QED
    BY <2>1 DEF UsageAccounted
<1> QED
  BY <1>2, <1>3

\* Whatever is moved, redirected, re-placed and pinned, importing the pairs printed makes
\* Ceph's up sets those planned (Planner.chains, FixedForbidden; pgremapper).
THEOREM AppliesAsPlanned == PlanSpec => []AppliedAsPlanned
<1>1. BooksInv => AppliedAsPlanned
  BY BooksImply DEF BooksInv, PlanInv
<1> QED
  BY <1>1, BooksAreKept, PTL

\* The projections a run decides by are those of its proposals, and a final projection
\* is never above its reservation (commit, uncommit, pin).
THEOREM UsageIsAccounted == PlanSpec => []UsageAccounted
<1>1. BooksInv => UsageAccounted
  BY BooksImply DEF BooksInv, PlanInv
<1> QED
  BY <1>1, BooksAreKept, PTL

-----------------------------------------------------------------------------
(* The search for a target.                                                 *)

\* Some number of a finite set is the least.
LEMMA SmallestOf ==
  ASSUME NEW S, IsFiniteSet(S), S # {}, S \subseteq Int
  PROVE  Min(S) \in S /\ \A x \in S : Min(S) <= x
<1> DEFINE F == {T \in SUBSET S : T # {} => \E m \in T : \A x \in T : m <= x}
<1>1. ASSUME NEW T \in SUBSET S, \A U \in (SUBSET T) \ {T} : U \in F
      PROVE  T \in F
  <2> SUFFICES ASSUME T # {} PROVE \E m \in T : \A x \in T : m <= x
    OBVIOUS
  <2>1. PICK y : y \in T
    OBVIOUS
  <2>2. CASE T \ {y} = {}
    <3>1. \A x \in T : y <= x
      BY <2>1, <2>2
    <3> QED
      BY <2>1, <3>1
  <2>3. CASE T \ {y} # {}
    <3>1. T \ {y} \in F
      BY <1>1, <2>1
    <3>2. PICK m \in T \ {y} : \A x \in T \ {y} : m <= x
      BY <2>3, <3>1
    <3>3. CASE m <= y
      BY <3>2, <3>3
    <3>4. CASE ~(m <= y)
      <4>1. \A x \in T : y <= x
        BY <2>1, <3>2, <3>4
      <4> QED
        BY <2>1, <4>1
    <3> QED
      BY <3>3, <3>4
  <2> QED
    BY <2>2, <2>3
<1>2. S \in F
  <2> HIDE DEF F
  <2> QED
    BY <1>1, SubsetInduction
<1>3. \E m \in S : \A x \in S : m <= x
  BY <1>2
<1> QED
  BY <1>3 DEF Min

\* Targets are ordered by their projections, then by id.
LEMMA LessIsOrder ==
  ASSUME NEW p, PlanTyped(p), NEW units \in Int, NEW a \in Osd, NEW b \in Osd, NEW c \in Osd
  PROVE  /\ a # b => Less(p, units, a, b) \/ Less(p, units, b, a)
         /\ ~(Less(p, units, a, b) /\ Less(p, units, b, a))
         /\ Less(p, units, a, b) /\ Less(p, units, b, c) => Less(p, units, a, c)
<1>1. PICK after : after = [o \in Osd |-> Util(o, p.final[o] + units)]
  OBVIOUS
<1>2. ASSUME NEW o \in Osd PROVE after[o] \in Int
  <2>1. p.final \in [Osd -> Int]
    BY DEF PlanTyped
  <2>2. PICK u \in Int, w \in Nat : u = p.final[o] /\ w = Weight[o]
    BY <2>1
  <2>3. after[o] = (u + units) * w
    BY <1>1, <2>2 DEF Util
  <2> QED
    BY <2>2, <2>3
<1>3. \A x, y \in Osd : Less(p, units, x, y) <=>
        after[x] < after[y] \/ (after[x] = after[y] /\ x < y)
  BY <1>1 DEF Less
<1>4. a \in Int /\ b \in Int /\ c \in Int
  OBVIOUS
<1> QED
  BY <1>2, <1>3, <1>4

\* So some OSD of a set comes first.
LEMMA FirstOf ==
  ASSUME NEW p, PlanTyped(p), NEW units \in Int, NEW S \in SUBSET Osd, S # {}
  PROVE  \E o \in S : \A b \in S \ {o} : Less(p, units, o, b)
<1> DEFINE F == {T \in SUBSET S : T # {} => \E o \in T : \A b \in T \ {o} : Less(p, units, o, b)}
<1>1. ASSUME NEW T \in SUBSET S, \A U \in (SUBSET T) \ {T} : U \in F
      PROVE  T \in F
  <2> SUFFICES ASSUME T # {} PROVE \E o \in T : \A b \in T \ {o} : Less(p, units, o, b)
    OBVIOUS
  <2>1. PICK y : y \in T
    OBVIOUS
  <2>2. CASE T \ {y} = {}
    BY <2>1, <2>2
  <2>3. CASE T \ {y} # {}
    <3>1. T \ {y} \in F
      BY <1>1, <2>1
    <3>2. PICK m \in T \ {y} : \A b \in (T \ {y}) \ {m} : Less(p, units, m, b)
      BY <2>3, <3>1
    <3>3. m \in Osd /\ y \in Osd /\ m # y /\ \A b \in T : b \in Osd
      BY <2>1, <3>2
    <3>4. CASE Less(p, units, m, y)
      <4>1. \A b \in T \ {m} : Less(p, units, m, b)
        BY <3>2, <3>4
      <4> QED
        BY <3>2, <4>1
    <3>5. CASE Less(p, units, y, m)
      <4>1. \A b \in T \ {y} : Less(p, units, y, b)
        BY <3>2, <3>3, <3>5, LessIsOrder
      <4> QED
        BY <2>1, <4>1
    <3> QED
      BY <3>3, <3>4, <3>5, LessIsOrder
  <2> QED
    BY <2>2, <2>3
<1>2. IsFiniteSet(S)
  BY FS_Subset
<1>3. S \in F
  <2> HIDE DEF F
  <2> QED
    BY <1>1, <1>2, SubsetInduction
<1> QED
  BY <1>3

\* The first of a set of OSDs is what the CHOOSE of place finds.
LEMMA FirstIs ==
  ASSUME NEW p, PlanTyped(p), NEW units \in Int, NEW S \in SUBSET Osd, S # {},
         NEW t, t = CHOOSE o \in S : \A b \in S \ {o} : Less(p, units, o, b)
  PROVE  t \in S /\ \A b \in S \ {t} : Less(p, units, t, b)
BY FirstOf

\* A PG's shard is so many units.
LEMMA SizeIsNat == ASSUME NEW pg \in Pg PROVE Size(pg) \in Nat
BY DEF Size

\* place returns a legal target, or none.
LEMMA PlaceIsLegal ==
  ASSUME NEW p, PlanTyped(p), NEW pg \in Pg, NEW i, NEW avoid,
         Place(p, pg, i, avoid) # None
  PROVE  /\ Place(p, pg, i, avoid) \in Osd
         /\ Legal(p, pg, i, Place(p, pg, i, avoid), avoid)
<1> DEFINE legal == {o \in Candidates(pg, i) : Legal(p, pg, i, o, avoid)}
           tried == {o \in legal :
                       LET bound == Bound(p, pg, i, o)
                       IN  /\ bound <= Cap
                           /\ \A guard \in Guards(p, pg, i) : bound <= guard
                           /\ \A b \in legal :
                                Less(p, 0, b, o) => bound <= Util(b, p.final[b] + Size(pg))}
<1>1. /\ tried \in SUBSET legal
      /\ Place(p, pg, i, avoid) =
           IF tried = {} THEN None
           ELSE CHOOSE o \in tried : \A b \in tried \ {o} : Less(p, Size(pg), o, b)
  BY DEF Place
<1> HIDE DEF tried
<1>2. tried \in SUBSET Osd /\ tried # {}
  BY <1>1 DEF Candidates
<1>3. Size(pg) \in Int
  BY SizeIsNat
<1>4. Place(p, pg, i, avoid) \in tried
  BY <1>1, <1>2, <1>3, FirstIs
<1> QED
  BY <1>1, <1>2, <1>4

\* The bound of a candidate is no more than its projection with the shard.
LEMMA BoundIsBelow ==
  ASSUME NEW p, PlanTyped(p), NEW pg \in Pg, NEW i, NEW o \in Candidates(pg, i)
  PROVE  /\ Bound(p, pg, i, o) \in Int /\ Util(o, p.final[o] + Size(pg)) \in Int
         /\ Bound(p, pg, i, o) <= Util(o, p.final[o] + Size(pg))
<1>1. PICK C : C = Candidates(pg, i)
  OBVIOUS
<1>2. C \subseteq Osd /\ o \in C
  BY <1>1 DEF Candidates
<1>3. PICK W : W = {Weight[c] : c \in C}
  OBVIOUS
<1>4. IsFiniteSet(W)
  <2>1. IsFiniteSet(C)
    BY <1>2, FS_Subset
  <2>2. PICK f : f = [c \in C |-> Weight[c]]
    OBVIOUS
  <2>3. f \in Surjection(C, W)
    BY <1>3, <2>2 DEF Surjection
  <2> QED
    BY <2>1, <2>3, FS_Surjection
<1>5. W \subseteq Nat /\ W \subseteq Int /\ W # {} /\ Weight[o] \in W
  BY <1>2, <1>3
<1>6. Min(W) \in W /\ \A x \in W : Min(W) <= x
  BY <1>4, <1>5, SmallestOf
<1>7. PICK m \in Nat, w \in Nat, s \in Nat, u \in Int :
        m = Min(W) /\ w = Weight[o] /\ s = Size(pg) /\ u = p.final[o] /\ m <= w
  <2>1. p.final[o] \in Int
    BY <1>2 DEF PlanTyped
  <2> QED
    BY <1>2, <1>5, <1>6, <2>1, SizeIsNat
<1>8. u * w \in Int /\ s * m \in Int /\ s * w \in Int /\ (u + s) * w = u * w + s * w
  BY <1>7
<1>9. s * m <= s * w
  BY <1>7, Z3
<1>10. u * w + s * m <= (u + s) * w /\ u * w + s * m \in Int
  BY <1>8, <1>9
<1>11. Bound(p, pg, i, o) = u * w + s * m
  BY <1>1, <1>3, <1>7 DEF Bound, FinalUtil, Util
<1>12. Util(o, p.final[o] + Size(pg)) = (u + s) * w
  BY <1>7 DEF Util
<1> QED
  BY <1>8, <1>10, <1>11, <1>12

\* place misses nothing: its limits stop it at no target that may be the best.
LEMMA PlaceIsBest ==
  ASSUME NEW p, PlanTyped(p), \A o \in Sized : p.final[o] <= p.res[o],
         NEW pg \in Pg, NEW i, NEW avoid,
         NEW legal, legal = {o \in Osd : Legal(p, pg, i, o, avoid)},
         NEW t, t = Place(p, pg, i, avoid)
  PROVE  /\ legal = {} => t = None
         /\ legal # {} => t \in legal /\ \A o \in legal \ {t} : Less(p, Size(pg), t, o)
<1>1. legal = {o \in Candidates(pg, i) : Legal(p, pg, i, o, avoid)}
  BY DEF Legal, Candidates
<1>2. PICK tried :
        tried = {o \in legal :
                   LET bound == Bound(p, pg, i, o)
                   IN  /\ bound <= Cap
                       /\ \A guard \in Guards(p, pg, i) : bound <= guard
                       /\ \A b \in legal :
                            Less(p, 0, b, o) => bound <= Util(b, p.final[b] + Size(pg))}
  OBVIOUS
<1>3. t = IF tried = {} THEN None
          ELSE CHOOSE o \in tried : \A b \in tried \ {o} : Less(p, Size(pg), o, b)
  BY <1>1, <1>2 DEF Place
<1>4. Size(pg) \in Int /\ legal \in SUBSET Osd /\ tried \subseteq legal
  <2>1. Size(pg) \in Int
    BY SizeIsNat
  <2>2. tried \subseteq legal
    BY <1>2
  <2> QED
    BY <2>1, <2>2
<1>5. CASE legal = {}
  BY <1>3, <1>4, <1>5
<1>6. CASE legal # {}
  <2>1. PICK m \in legal : \A b \in legal \ {m} : Less(p, Size(pg), m, b)
    BY <1>4, <1>6, FirstOf
  <2>2. m \in Osd /\ m \in Candidates(pg, i) /\ Legal(p, pg, i, m, avoid)
    BY <1>1, <1>4, <2>1
  <2>3. PICK bound \in Int, after \in Int :
          /\ bound = Bound(p, pg, i, m) /\ after = Util(m, p.final[m] + Size(pg))
          /\ bound <= after
    BY <2>2, BoundIsBelow
  <2>4. after <= Cap
    <3>1. m \in Sized /\ Util(m, p.res[m] + Size(pg)) <= Cap
      BY <2>2 DEF Legal
    <3>2. p.final[m] + Size(pg) \in Int /\ p.res[m] + Size(pg) \in Int
          /\ p.final[m] + Size(pg) <= p.res[m] + Size(pg)
      <4>1. p.final[m] <= p.res[m]
        BY <3>1
      <4>2. p.final[m] \in Int /\ p.res[m] \in Int
        BY <2>2 DEF PlanTyped
      <4> QED
        BY <1>4, <4>1, <4>2
    <3>3. Cap \in Int
      OBVIOUS
    <3>4. PICK a \in Int, b \in Int : a = p.final[m] + Size(pg) /\ b = p.res[m] + Size(pg) /\ a <= b
      BY <3>2
    <3>5. Util(m, b) <= Cap => Util(m, a) <= Cap
      BY <2>2, <3>3, <3>4, UtilBound
    <3> QED
      BY <2>3, <3>1, <3>4, <3>5
  <2>5. ASSUME NEW guard \in Guards(p, pg, i) PROVE after <= guard
    <3>1. CASE Relieve /\ UpOf(pg, i) \in Sized /\ guard = Util(UpOf(pg, i), p.final[UpOf(pg, i)] - Size(pg))
      <4>1. KeepsRelief(p, pg, i, m)
        BY <2>2, <3>1 DEF Legal
      <4>2. after < guard
        BY <2>3, <3>1, <4>1 DEF KeepsRelief
      <4>3. guard \in Int
        <5>1. PICK u \in Osd : u = UpOf(pg, i)
          BY <3>1
        <5>2. p.final[u] \in Int
          BY DEF PlanTyped
        <5>3. Weight[u] \in Int
          <6>1. Weight \in [Osd -> Nat \ {0}]
            OBVIOUS
          <6> HIDE StaticsTyped, SettingsTyped
          <6> QED
            BY <6>1
        <5>4. PICK f \in Int, w \in Int, s \in Int :
                f = p.final[u] /\ w = Weight[u] /\ s = Size(pg)
          BY <1>4, <5>2, <5>3
        <5>5. guard = (f - s) * w
          BY <3>1, <5>1, <5>4 DEF Util
        <5> QED
          BY <5>4, <5>5
      <4> QED
        BY <4>2, <4>3
    <3>2. CASE /\ Level # 0 /\ LevelClass # None /\ ClassOf[UpOf(pg, i)] = LevelClass
               /\ guard = Level
      <4>1. BelowLevel(p, m, Size(pg))
        BY <2>2, <3>2 DEF Legal, KeepsLevel
      <4> QED
        BY <2>3, <3>2, <4>1 DEF BelowLevel
    <3> QED
      BY <2>5, <3>1, <3>2 DEF Guards
  <2>6. ASSUME NEW b \in legal PROVE after <= Util(b, p.final[b] + Size(pg))
    <3>1. CASE b = m
      BY <2>3, <3>1
    <3>2. CASE b # m
      <4>1. Less(p, Size(pg), m, b)
        BY <2>1, <2>6, <3>2
      <4>2. Util(b, p.final[b] + Size(pg)) \in Int
        BY <1>1, BoundIsBelow
      <4> QED
        BY <2>3, <4>1, <4>2 DEF Less
    <3> QED
      BY <3>1, <3>2
  <2>7. m \in tried
    <3>1. bound <= Cap
      BY <2>3, <2>4
    <3>2. ASSUME NEW guard \in Guards(p, pg, i) PROVE bound <= guard
      <4>1. guard \in Int
        BY <1>4 DEF Guards, Util, PlanTyped
      <4> QED
        BY <2>3, <2>5, <4>1
    <3>3. ASSUME NEW b \in legal PROVE bound <= Util(b, p.final[b] + Size(pg))
      <4>1. Util(b, p.final[b] + Size(pg)) \in Int
        BY <1>1, BoundIsBelow
      <4> QED
        BY <2>3, <2>6, <4>1
    <3> QED
      BY <1>2, <2>1, <2>3, <3>1, <3>2, <3>3
  <2>8. tried \in SUBSET Osd /\ tried # {}
    BY <1>4, <2>7
  <2>9. t = CHOOSE o \in tried : \A b \in tried \ {o} : Less(p, Size(pg), o, b)
    BY <1>3, <2>8
  <2>10. t \in tried /\ \A b \in tried \ {t} : Less(p, Size(pg), t, b)
    BY <1>4, <2>8, <2>9, FirstIs
  <2>11. t = m
    <3> SUFFICES ASSUME t # m PROVE FALSE
      OBVIOUS
    <3>1. Less(p, Size(pg), t, m) /\ Less(p, Size(pg), m, t) /\ t \in Osd
      BY <1>4, <2>1, <2>7, <2>8, <2>10
    <3> QED
      BY <1>4, <2>2, <3>1, LessIsOrder
  <2> QED
    BY <1>6, <2>1, <2>11
<1> QED
  BY <1>5, <1>6

\* A shard is a PG and one of its slots.
LEMMA ShardIs ==
  ASSUME NEW x \in Shards
  PROVE  x[1] \in Pg /\ x[2] \in Slots(cluster, x[1]) /\ x = <<x[1], x[2]>>
BY DEF Shards

\* A target found for a shard has room for it.
LEMMA PlaceHasRoom ==
  ASSUME NEW p, PlanTyped(p), NEW pg \in Pg, NEW i, NEW avoid, NEW t,
         t = Place(p, pg, i, avoid), t # None
  PROVE  /\ t \in Osd /\ Legal(p, pg, i, t, avoid)
         /\ Util(t, p.res[t] + Size(pg)) <= Cap
<1>1. t \in Osd /\ Legal(p, pg, i, t, avoid)
  BY PlaceIsLegal
<1> QED
  BY <1>1, LegalFacts

=============================================================================
