------------------------------- MODULE Planner -------------------------------
(***************************************************************************)
(* What a run of drain or balance may do (shed.Planner): the rules by      *)
(* which a shard is moved off a source, a blocker of a PG with a proposed  *)
(* move is diverted, and one that cannot be diverted is pinned back, with  *)
(* the bookkeeping of each.  Which shard is next and which legal target is *)
(* taken is left open: module Shed decides both as the code does.          *)
(*                                                                         *)
(* The moves of a PG are a set.  The code keeps them in the order they are *)
(* printed, on which nothing depends: pgremapper applies pairs that do not *)
(* chain in any order.                                                     *)
(***************************************************************************)
EXTENDS Cluster

CONSTANTS
  Clusters,     \* the cluster states a run may start from
  Sources,      \* the OSDs to move shards off
  Level,        \* the level to take each source below, in points; 0: empty it
  LevelClass,   \* the class whose targets must stay below Level, or None
  Relieve,      \* a target must end up below the OSD it relieves
  Cap           \* --max-target-util, in points

ASSUME SettingsTyped ==
  /\ Sources \subseteq Osd
  /\ Level \in Nat
  /\ Relieve \in BOOLEAN
  /\ Cap \in 1..BackfillFull   \* resolve_max_target_util

ASSUME ClustersTyped ==
  \A c \in Clusters : /\ ClusterTyped(c)
                      /\ Consistent(c)
                      /\ c.res = Reservation(c)
                      /\ c.final = Final(c)

VARIABLES
  cluster,   \* what the run fetched; never changes
  plan       \* the run's projections, and what it proposes

vars == <<cluster, plan>>

Roles == {"requested", "blocker"}

MoveRecords == [slot : Nat, to : Osd, pin : BOOLEAN, role : Roles]

Size(pg) == ShardSize[pg]
UpOf(pg, i) == Up(cluster, pg)[i]

Changed(p, pg) == {m.slot : m \in p.moves[pg]}

Pairs(p, pg) == {<<UpOf(pg, m.slot), m.to>> : m \in p.moves[pg]}

\* Mutant: the run's pairs are taken as they are printed, existing ones left out.
ChainsUnfolded(p, pg, added) == Chained(SetToSeq(Pairs(p, pg) \union added))

\* Planner.chains: the PG's pairs, with these added, cannot go through pgremapper.
Chains(p, pg, added) ==
  WouldChain(cluster.pairs[pg], Up(cluster, pg), SetToSeq(Pairs(p, pg) \union added))

-----------------------------------------------------------------------------
(* Levels, and who relieved whom.  A pin relieves nobody.                   *)

BelowLevel(p, o, extra) ==
  Level # 0 /\ o \in Sized /\ Util(o, p.final[o] + extra) < Level

Relief(p) ==
  {<<UpOf(pm[1], pm[2].slot), pm[2].to>> :
     pm \in {x \in UNION {{pg} \X p.moves[pg] : pg \in Pg} : ~x[2].pin}}

SentTo(p, o) == {r[2] : r \in {x \in Relief(p) : x[1] = o}}
Relieved(p, o) == {r[1] : r \in {x \in Relief(p) : x[2] = o}}

FinalUtil(p, o) == Util(o, p.final[o])

-----------------------------------------------------------------------------
(* place: the targets a shard may be moved to.                              *)

\* Mutant: the hosts of 'up' as fetched, not as the run's own moves leave it.
StaleOtherHosts(p, pg, i) ==
  {HostOf[o] : o \in UpOsds(cluster, pg) \ {UpOf(pg, i)}}

\* The hosts of the PG's other shards, as osd_host.get gives them.
OtherHosts(p, pg, i) ==
  {HostOf[o] : o \in RealOsds(p.newUp[pg]) \ {UpOf(pg, i)}}

\* Mutant: only the shard's own source and target are compared.
KeepsOwnRelief(p, pg, i, t) ==
  LET u == UpOf(pg, i)
  IN  u \in Sized =>
        Util(t, p.final[t] + Size(pg)) < Util(u, p.final[u] - Size(pg))

\* Relieve: the target ends up below the OSD relieved, which stays above every
\* other target of its data, and the target below every other OSD it relieved.
KeepsRelief(p, pg, i, t) ==
  LET u == UpOf(pg, i)
      left == Util(u, p.final[u] - Size(pg))
      after == Util(t, p.final[t] + Size(pg))
  IN  /\ u \in Sized =>
           /\ after < left
           /\ \A v \in SentTo(p, u) \intersect Sized : FinalUtil(p, v) < left
      /\ \A v \in Relieved(p, t) \intersect Sized : after < FinalUtil(p, v)

\* Mutant: the level is compared without the shard.
KeepsLevelNow(p, pg, i, t) ==
  Level # 0 /\ LevelClass # None /\ ClassOf[UpOf(pg, i)] = LevelClass =>
    BelowLevel(p, t, 0)

KeepsLevel(p, pg, i, t) ==
  Level # 0 /\ LevelClass # None /\ ClassOf[UpOf(pg, i)] = LevelClass =>
    BelowLevel(p, t, Size(pg))

\* Mutant: the room is checked without the shard.
LegalIfRoomNow(p, pg, i, t, avoid) ==
  /\ t \in Usable \ Sources
  /\ ClassOf[t] = ClassOf[UpOf(pg, i)]
  /\ HostOf[t] \notin OtherHosts(p, pg, i) \union avoid
  /\ t \notin FixedForbidden(cluster, pg) \union {m.to : m \in p.moves[pg]}
  /\ Util(t, p.res[t]) <= Cap
  /\ Relieve => KeepsRelief(p, pg, i, t)
  /\ KeepsLevel(p, pg, i, t)
  /\ ~Chains(p, pg, {<<UpOf(pg, i), t>>})

Legal(p, pg, i, t, avoid) ==
  /\ t \in Usable \ Sources
  /\ ClassOf[t] = ClassOf[UpOf(pg, i)]
  /\ HostOf[t] \notin OtherHosts(p, pg, i) \union avoid
  /\ t \notin FixedForbidden(cluster, pg) \union {m.to : m \in p.moves[pg]}
  /\ Util(t, p.res[t] + Size(pg)) <= Cap
  /\ Relieve => KeepsRelief(p, pg, i, t)
  /\ KeepsLevel(p, pg, i, t)
  /\ ~Chains(p, pg, {<<UpOf(pg, i), t>>})

-----------------------------------------------------------------------------
(* commit, uncommit, try_pin, pin: each gives the plan it leads to.         *)

CommittedMove(i, t, role) == [slot |-> i, to |-> t, pin |-> FALSE, role |-> role]

\* Mutant: the backfill the move replaces stays reserved.
CommitKeepingArrival(p, pg, i, t, role) ==
  [res   |-> Add(p.res, t, Size(pg)),
   final |-> Shift(p.final, UpOf(pg, i), t, Size(pg)),
   newUp |-> [p.newUp EXCEPT ![pg][i] = t],
   moves |-> [p.moves EXCEPT ![pg] = @ \union {CommittedMove(i, t, role)}]]

Commit(p, pg, i, t, role) ==
  LET u == UpOf(pg, i)
      cancelled == IF Arriving(cluster, pg, i)
                   THEN Add(p.res, u, -ToCome(cluster, pg, i)) ELSE p.res
  IN  [res   |-> Add(cancelled, t, Size(pg)),
       final |-> Shift(p.final, u, t, Size(pg)),
       newUp |-> [p.newUp EXCEPT ![pg][i] = t],
       moves |-> [p.moves EXCEPT ![pg] = @ \union {CommittedMove(i, t, role)}]]

Uncommit(p, pg, m) ==
  LET u == UpOf(pg, m.slot)
      freed == Add(p.res, m.to, -Size(pg))
  IN  [res   |-> IF Arriving(cluster, pg, m.slot)
                 THEN Add(freed, u, ToCome(cluster, pg, m.slot)) ELSE freed,
       final |-> Shift(p.final, m.to, u, Size(pg)),
       newUp |-> [p.newUp EXCEPT ![pg][m.slot] = u],
       moves |-> [p.moves EXCEPT ![pg] = @ \ {m}]]

\* Where a blocker's data is.  Unlike ActingOf, replicas arriving on other sources
\* do not make it unclear (replica_source).
PinSource(pg, i) ==
  LET arriving == UpOsds(cluster, pg) \ ActingOsds(cluster, pg)
      acting == ActingOf(cluster, pg, i)
  IN  IF Ec[pg] \/ acting # None THEN acting
      ELSE IF HasOne(arriving \ (Sources \ {UpOf(pg, i)}))
      THEN TheOnly(ActingOsds(cluster, pg) \ UpOsds(cluster, pg))
      ELSE None

\* The slots that pinning the blocker back takes, {} if that is impossible:
\* close_pins, or pin_replica.
PinSlots(p, pg, i) ==
  LET up == p.newUp[pg]
      source == PinSource(pg, i)
  IN  IF source = None THEN {}
      ELSE IF Ec[pg] THEN ClosePins(up, cluster.acting[pg], {i})
      ELSE IF \E j \in DOMAIN up \ {i} : IsReal(up[j]) /\ SamePlace(source, up[j])
      THEN {} ELSE {i}

PinTo(pg, j) == IF Ec[pg] THEN cluster.acting[pg][j] ELSE PinSource(pg, j)

\* try_pin succeeds.
CanPinBack(p, pg, i) ==
  LET P == PinSlots(p, pg, i)
  IN  /\ P # {}
      /\ \A s \in Sources :
           LET onto == {j \in P : PinTo(pg, j) = s}
           IN  onto # {} => BelowLevel(p, s, Cardinality(onto) * Size(pg))
      /\ P \intersect Changed(p, pg) = {}
      /\ ~Chains(p, pg, {<<UpOf(pg, j), PinTo(pg, j)>> : j \in P})

\* pin.  Each pinned shard goes back in its own slot: a PG's up OSDs are distinct,
\* and so are its acting ones, so each OSD loses and gains at most one shard.
PinBack(p, pg, i) ==
  LET P == PinSlots(p, pg, i)
      From(o) == {j \in P : UpOf(pg, j) = o}
      To(o) == {j \in P : PinTo(pg, j) = o}
  IN  [res   |-> [o \in Osd |->
                    IF o \in Sized /\ From(o) # {}
                    THEN p.res[o] - ToCome(cluster, pg, CHOOSE j \in From(o) : TRUE)
                    ELSE p.res[o]],
       final |-> [o \in Osd |->
                    p.final[o]
                    - (IF o \in Sized /\ From(o) # {} THEN Size(pg) ELSE 0)
                    + (IF o \in Sized /\ To(o) # {} THEN Size(pg) ELSE 0)],
       newUp |-> [p.newUp EXCEPT
                    ![pg] = [j \in DOMAIN @ |-> IF j \in P THEN PinTo(pg, j) ELSE @[j]]],
       moves |-> [p.moves EXCEPT
                    ![pg] = @ \union {[slot |-> j, to |-> PinTo(pg, j), pin |-> TRUE,
                                       role |-> "blocker"] : j \in P}]]

-----------------------------------------------------------------------------
PlanInit ==
  /\ cluster \in Clusters
  /\ plan = [res   |-> cluster.res,
             final |-> cluster.final,
             newUp |-> cluster.up,
             moves |-> [pg \in Pg |-> {}]]

\* shed_sources: a shard of a source still at or above the level goes to a target.
MoveOff(pg, i, t) ==
  /\ MayChange(cluster, pg)
  /\ UpOf(pg, i) \in Sources
  /\ i \notin Changed(plan, pg)
  /\ ~BelowLevel(plan, UpOf(pg, i), 0)
  /\ Legal(plan, pg, i, t, {})
  /\ plan' = Commit(plan, pg, i, t, "requested")
  /\ UNCHANGED cluster

\* resolve_blockers: a shard that would hold up the PG's proposed moves.
Blocker(pg, i) ==
  /\ plan.moves[pg] # {}
  /\ i \notin Changed(plan, pg)
  /\ IsBlocker(cluster, plan.res, pg, i)

Divert(pg, i, t) ==
  /\ Blocker(pg, i)
  /\ Legal(plan, pg, i, t, {})
  /\ plan' = Commit(plan, pg, i, t, "blocker")
  /\ UNCHANGED cluster

PinBlocker(pg, i) ==
  /\ Blocker(pg, i)
  /\ ~\E t \in Osd : Legal(plan, pg, i, t, {})
  /\ CanPinBack(plan, pg, i)
  /\ plan' = PinBack(plan, pg, i)
  /\ UNCHANGED cluster

\* try_pin_elsewhere: the PG's move onto the host of the blocker's acting OSD.
InTheWay(p, pg, i) ==
  LET acting == ActingOf(cluster, pg, i)
  IN  {m \in p.moves[pg] :
         /\ m.role = "requested" /\ ~m.pin
         /\ acting # None
         /\ HostOf[acting] # NoHost
         /\ HostOf[m.to] = HostOf[acting]}

\* ... goes to t, off that host, and the blocker can then be pinned back.
RePlaced(p, pg, i, m, t) == Commit(Uncommit(p, pg, m), pg, m.slot, t, "requested")

CanRePlace(p, pg, i, m, t) ==
  /\ Legal(Uncommit(p, pg, m), pg, m.slot, t, {HostOf[ActingOf(cluster, pg, i)]})
  /\ CanPinBack(RePlaced(p, pg, i, m, t), pg, i)

PinElsewhere(pg, i, m, t) ==
  /\ Blocker(pg, i)
  /\ ~\E v \in Osd : Legal(plan, pg, i, v, {})
  /\ ~CanPinBack(plan, pg, i)
  /\ m \in InTheWay(plan, pg, i)
  /\ CanRePlace(plan, pg, i, m, t)
  /\ plan' = PinBack(RePlaced(plan, pg, i, m, t), pg, i)
  /\ UNCHANGED cluster

Shards == UNION {{pg} \X Slots(cluster, pg) : pg \in Pg}

PlanNext ==
  \/ \E s \in Shards, t \in Osd : MoveOff(s[1], s[2], t)
  \/ \E s \in Shards, t \in Osd : Divert(s[1], s[2], t)
  \/ \E s \in Shards : PinBlocker(s[1], s[2])
  \/ \E s \in Shards, t \in Osd :
       \E m \in plan.moves[s[1]] : PinElsewhere(s[1], s[2], m, t)

PlanSpec == PlanInit /\ [][PlanNext]_vars

-----------------------------------------------------------------------------
AllMoves(p) == UNION {{pg} \X p.moves[pg] : pg \in Pg}
Pins(p) == {x \in AllMoves(p) : x[2].pin}
PinnedOnto(p) == {x[2].to : x \in Pins(p)}

PlanTyped(p) ==
  /\ p.res \in [Osd -> Int] /\ p.final \in [Osd -> Int]
  /\ DOMAIN p.newUp = Pg
  /\ p.moves \in [Pg -> SUBSET MoveRecords]
  /\ \A pg \in Pg : /\ p.newUp[pg] \in [Slots(cluster, pg) -> Osd \union {None}]
                    /\ Changed(p, pg) \subseteq Slots(cluster, pg)

TypeOK == ClusterTyped(cluster) /\ PlanTyped(plan)

\* However the moves, diverts and pins of a run combine, a PG is not left with two
\* shards on one host or OSD, which Ceph would drop silently.  Not so of a PG with
\* data pinned onto a source, as HostsKeptApart says of every PG.
UpSetsValid ==
  \A pg \in Pg :
    (\A m \in plan.moves[pg] : m.pin => m.to \notin Sources) => HostsDistinct(plan.newUp[pg])

\* "A legal target is ... not on a host the PG's other shards use" (shed.py): the
\* same of every PG, whatever is pinned where.
HostsKeptApart == \A pg \in Pg : HostsDistinct(plan.newUp[pg])

\* Every target has room for all that is headed for it, not just for the shard it
\* was chosen for: reserving each backfill leaves it at or below --max-target-util.
TargetsHaveRoom ==
  \A x \in AllMoves(plan) :
    ~x[2].pin => /\ x[2].to \in Usable \ Sources
                 /\ Util(x[2].to, plan.res[x[2].to]) <= Cap

\* The projections are those of the proposals, taken together: nothing that was
\* committed, undone, redirected or pinned on the way is left over in them.  And place
\* may stop at the first candidate whose reservation has room, since the reservation is
\* never below the final projection.
UsageAccounted ==
  LET Moved(o) == {x \in AllMoves(plan) : UpOf(x[1], x[2].slot) = o}
      Headed(o) == {x \in AllMoves(plan) : x[2].to = o}
      Cancelled(o) == {x \in Moved(o) : Arriving(cluster, x[1], x[2].slot)}
  IN  \A o \in Sized :
        /\ plan.final[o] <= plan.res[o]
        /\ plan.res[o] =
             cluster.res[o]
             - SumFunction([x \in Cancelled(o) |-> ToCome(cluster, x[1], x[2].slot)])
             + SumFunction([x \in {y \in Headed(o) : ~y[2].pin} |-> Size(x[1])])
        /\ plan.final[o] =
             cluster.final[o]
             - SumFunction([x \in Moved(o) |-> Size(x[1])])
             + SumFunction([x \in Headed(o) |-> Size(x[1])])

\* Imported by pgremapper and applied by Ceph to CRUSH's mapping, whatever pairs
\* the PG had, stale ones included, the proposals give the up set planned.
AppliedAsPlanned ==
  \A pg \in Pg :
    plan.moves[pg] # {} =>
      CephUp(cluster.raw[pg],
             Imported(cluster.pairs[pg], Up(cluster, pg), SetToSeq(Pairs(plan, pg))))
        = plan.newUp[pg]

\* A target of the level's class is below the level once every move is done, unless
\* a pin keeps data on it.
TargetsBelowLevel ==
  \A x \in AllMoves(plan) :
    /\ Level # 0 /\ LevelClass # None
    /\ ClassOf[x[2].to] = LevelClass
    /\ ~x[2].pin /\ x[2].to \notin PinnedOnto(plan)
    => BelowLevel(plan, x[2].to, 0)

\* A source onto which a pin keeps data ends up below the level all the same.
PinnedSourceBelowLevel ==
  \A s \in Sources \intersect PinnedOnto(plan) : BelowLevel(plan, s, 0)

\* With a level, neither what the run moves nor what it pins onto a source takes an
\* OSD to it.
LevelKept == TargetsBelowLevel /\ PinnedSourceBelowLevel

\* No move takes a target to or above an OSD it relieved, or an OSD to or below one
\* of its targets: a step that pins nothing keeps every such pair in order.
ReliefStep ==
  LET Kept == Relief(plan) \intersect Relief(plan)'
      InOrder(p, r) == r[1] \in Sized => FinalUtil(p, r[2]) < FinalUtil(p, r[1])
  IN  Relieve /\ Pins(plan)' = Pins(plan) =>
        /\ \A r \in Kept : InOrder(plan, r) => InOrder(plan', r)
        /\ \A r \in Relief(plan)' \ Relief(plan) : InOrder(plan', r)

ReliefKept == [][ReliefStep]_vars

=============================================================================
