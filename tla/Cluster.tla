------------------------------- MODULE Cluster -------------------------------
(***************************************************************************)
(* The cluster state a drain, balance or divert-toofull run plans against  *)
(* (shed.Cluster) and what placement.py computes from it before anything   *)
(* is moved: which shards are in motion, where their data is, and what     *)
(* each OSD will hold.                                                     *)
(*                                                                         *)
(* Bytes are units.  Utilization is in points: one unit of data adds       *)
(* Weight[o] points to OSD o, so that OSDs of different capacities differ  *)
(* in Weight, and a percentage is compared as the code compares it.        *)
(***************************************************************************)
EXTENDS Upmap, FiniteSetsExt

CONSTANTS
  Pg,             \* PG ids, ordered as integers (pgid_sort_key)
  Ec,             \* Ec[pg]: the PG's pool is erasure-coded
  ShardSize,      \* ShardSize[pg]: units of data in one shard of the PG
  Weight,         \* Weight[o]: points one unit of data adds to o
  ClassOf,        \* the device class of each OSD, None if unknown
  Sized,          \* OSDs with a capacity figure in 'ceph osd df'
  Usable,         \* OSDs that are up, in, and have weight, class and capacity
  NearFull, BackfillFull   \* the cluster's ratios, in points

ASSUME StaticsTyped ==
  /\ Osd \subseteq Int /\ IsFiniteSet(Osd)
  /\ Pg \subseteq Int /\ IsFiniteSet(Pg)
  /\ Ec \in [Pg -> BOOLEAN]
  /\ ShardSize \in [Pg -> Nat]
  /\ Weight \in [Osd -> Nat \ {0}]
  /\ Sized \subseteq Osd
  /\ Usable \subseteq {o \in Sized : ClassOf[o] # None}
  /\ NearFull \in Nat
  /\ BackfillFull \in Nat

-----------------------------------------------------------------------------
(* A cluster c is a record:                                                 *)
(*   used      units of data on each OSD now                               *)
(*   raw       each PG's mapping as CRUSH computes it (unseen by the code)  *)
(*   pairs     each PG's upmap entry                                        *)
(*   up        each PG's up set: raw with the entry applied                 *)
(*   acting    each PG's acting set                                         *)
(*   copied    per PG and slot, units of an arriving shard already copied   *)
(*   settled   the PGs that are active with no flag of UNSETTLED_FLAGS      *)
(*   toofull   the PGs in backfill_toofull                                  *)

Up(c, pg) == c.up[pg]
Slots(c, pg) == DOMAIN c.up[pg]

UpOsds(c, pg) == RealOsds(c.up[pg])
ActingOsds(c, pg) == RealOsds(c.acting[pg])

ClusterTyped(c) ==
  /\ c.used \in [Osd -> Nat]
  /\ c.res \in [Osd -> Int] /\ c.final \in [Osd -> Int]
  /\ \A f \in {c.raw, c.up, c.acting} :
       DOMAIN f = Pg /\ \A pg \in Pg : f[pg] \in Seq(Osd \union {None})
  /\ \A pg \in Pg : /\ c.pairs[pg] \in Seq(Osd \X Osd)
                    /\ DOMAIN c.acting[pg] = Slots(c, pg)
                    /\ c.copied[pg] \in [Slots(c, pg) -> 0..ShardSize[pg]]

\* The state fetched is Ceph's own (external).
Consistent(c) ==
  \A pg \in Pg : CephConsistent(c.raw[pg], c.pairs[pg], c.up[pg], c.acting[pg])

-----------------------------------------------------------------------------
(* Shards in motion.  A shard is a slot of the up set: for a replicated PG,  *)
(* whose shards the code names by their up OSD, the slot holding that OSD.  *)

HasOne(S) == \E o \in S : S = {o}
TheOnly(S) == IF HasOne(S) THEN CHOOSE o \in S : TRUE ELSE None

\* Where the shard's data is, None if unknown.  A replica's source is known
\* when one replica departs and one arrives.
ActingOf(c, pg, i) ==
  LET up == UpOsds(c, pg)
      acting == ActingOsds(c, pg)
  IN  IF Ec[pg] THEN c.acting[pg][i]
      ELSE IF Up(c, pg)[i] \in acting THEN Up(c, pg)[i]
      ELSE IF HasOne(up \ acting) THEN TheOnly(acting \ up)
      ELSE None

\* find_arriving_shards.
Arriving(c, pg, i) == IsReal(Up(c, pg)[i]) /\ ActingOf(c, pg, i) # Up(c, pg)[i]

\* departing_osds: an EC shard whose up slot is empty stays where it is.
DepartingOsds(c, pg) ==
  IF Ec[pg]
  THEN {c.acting[pg][i] : i \in {j \in Slots(c, pg) :
          CanPin(Up(c, pg), c.acting[pg], j) /\ IsReal(Up(c, pg)[j])}}
  ELSE ActingOsds(c, pg) \ UpOsds(c, pg)

-----------------------------------------------------------------------------
(* Projections (project_usage): functions from OSDs to units.               *)

Util(o, units) == units * Weight[o]

\* An OSD without a capacity figure is in no projection.
Add(usage, o, units) ==
  IF o \in Sized THEN [usage EXCEPT ![o] = @ + units] ELSE usage

\* FinalUsage.move.
Shift(usage, from, to, units) == Add(Add(usage, from, -units), to, units)

\* _still_to_come: what a backfill under way has yet to copy.
ToCome(c, pg, i) == ShardSize[pg] - c.copied[pg][i]

ArrivingOn(c, o) ==
  {s \in {<<pg, i>> : pg \in Pg, i \in UNION {Slots(c, q) : q \in Pg}} :
     s[2] \in Slots(c, s[1]) /\ Arriving(c, s[1], s[2]) /\ Up(c, s[1])[s[2]] = o}

\* ProjectedUsage: arrivals only.
Reservation(c) ==
  [o \in Osd |->
     IF o \in Sized
     THEN c.used[o] + SumFunction([s \in ArrivingOn(c, o) |-> ToCome(c, s[1], s[2])])
     ELSE 0]

\* FinalUsage: departures credited too.
Final(c) ==
  [o \in Osd |->
     IF o \in Sized
     THEN Reservation(c)[o]
          - SumFunctionOnSet(ShardSize, {pg \in Pg : o \in DepartingOsds(c, pg)})
     ELSE 0]

-----------------------------------------------------------------------------
\* is_blocker, from the reservations res: the OSD the shard arrives on is projected
\* at or over backfillfull or, the PG being refused now, is at or over nearfull.
IsBlocker(c, res, pg, i) ==
  LET o == Up(c, pg)[i]
  IN  /\ Arriving(c, pg, i)
      /\ o \in Sized
      /\ \/ Util(o, res[o]) >= BackfillFull
         \/ pg \in c.toofull /\ Util(o, c.used[o]) >= NearFull

\* The OSDs no shard of the PG may be moved to, whatever the run has done.
FixedForbidden(c, pg) ==
  RawCrushOsds(Up(c, pg), c.pairs[pg]) \union UpOsds(c, pg) \union ActingOsds(c, pg)

\* The PGs the run leaves alone are those not settled, or whose pairs chain.
MayChange(c, pg) == pg \in c.settled /\ ~Chained(c.pairs[pg])

=============================================================================
