-------------------------------- MODULE Shed --------------------------------
(***************************************************************************)
(* A run of drain or balance as shed() decides it: which source is next    *)
(* (shed_sources), which of its shards, and which legal target it gets     *)
(* (place); then each blocker of the PGs with a proposed move, in order    *)
(* (resolve_blockers).  Every run is one of Planner's.                     *)
(***************************************************************************)
EXTENDS Placing

VARIABLES
  phase,    \* "shedding", "resolving", "done"
  heap,     \* the sources still to shed, each with its priority when pushed
  todo,     \* the shards of each source not yet tried
  left,     \* <<source, shard>>: the shards left on their sources
  agenda,   \* the arriving shards still to look at
  stuck     \* the PGs with a blocker that could be neither diverted nor pinned

shedVars == <<cluster, plan, phase, heap, todo, left, agenda, stuck>>

ASSUME RelieveByLevel == Relieve <=> Level # 0   \* shed: relieve=level is not None

-----------------------------------------------------------------------------
(* shed_sources.                                                            *)

OnSource(s) == {x \in Shards : MayChange(cluster, x[1]) /\ UpOf(x[1], x[2]) = s}

\* Unsized sources first, then the fullest, then by id.
Priority(p, s) ==
  [source |-> s, known |-> s \in Sized, util |-> IF s \in Sized THEN FinalUtil(p, s) ELSE 0]

Ahead(e, f) ==
  \/ ~e.known /\ f.known
  \/ e.known = f.known /\ e.util > f.util
  \/ e.known = f.known /\ e.util = f.util /\ e.source < f.source

\* shard_order: the largest first, then by PG.
Sooner(x, y) ==
  \/ Size(x[1]) > Size(y[1])
  \/ Size(x[1]) = Size(y[1]) /\ x[1] < y[1]

PushedBack(e, p) == Priority(p, e.source)

\* Mutant: a source is shed whatever its level.
OverLevelAlways(s) == TRUE

\* The source is not done.
OverLevel(s) == ~BelowLevel(plan, s, 0)

\* The source's turn: the fullest one is popped.
Turn(e) ==
  /\ phase = "shedding"
  /\ e \in heap
  /\ \A f \in heap \ {e} : Ahead(e, f)
  /\ UNCHANGED <<cluster, phase, agenda, stuck>>

\* Mutant: the shards passed over are not kept.
PassedOverOnly(e, shards) == {}

PassedOver(e, shards) == {<<e.source, x>> : x \in shards}

\* Its largest shard with a target goes there; those ahead of it are left.
ShedShard(e, x) ==
  LET s == e.source
      ahead == {y \in todo[s] : Sooner(y, x)}
      t == Place(plan, x[1], x[2], {})
  IN  /\ Turn(e)
      /\ OverLevel(s)
      /\ x \in todo[s]
      /\ t # None
      /\ \A y \in ahead : Place(plan, y[1], y[2], {}) = None
      /\ plan' = Commit(plan, x[1], x[2], t, "requested")
      /\ left' = left \union PassedOver(e, ahead)
      /\ todo' = [todo EXCEPT ![s] = @ \ (ahead \union {x})]
      /\ heap' = (heap \ {e}) \union {PushedBack(e, plan')}

\* It is below the level, or none of its shards can go anywhere.
DropSource(e) ==
  /\ Turn(e)
  /\ OverLevel(e.source) =>
       \A x \in todo[e.source] : Place(plan, x[1], x[2], {}) = None
  /\ left' = left \union PassedOver(e, todo[e.source])
  /\ todo' = [todo EXCEPT ![e.source] = {}]
  /\ heap' = heap \ {e}
  /\ UNCHANGED plan

-----------------------------------------------------------------------------
(* resolve_blockers.                                                        *)

\* Mutant: the shards arriving on a source are not looked at.
SiblingsOffSources(pg) ==
  {<<pg, i>> : i \in {j \in Slots(cluster, pg) :
                        Arriving(cluster, pg, j) /\ UpOf(pg, j) \notin Sources}}

\* find_arriving_shards: those arriving on a source too.
Siblings(pg) == {<<pg, i>> : i \in {j \in Slots(cluster, pg) : Arriving(cluster, pg, j)}}

\* EC shards by slot, replicas by OSD.
SiblingKey(x) == IF Ec[x[1]] THEN x[2] ELSE UpOf(x[1], x[2])

EndShedding ==
  /\ phase = "shedding"
  /\ heap = {}
  /\ phase' = "resolving"
  /\ agenda' = UNION {Siblings(pg) : pg \in {q \in Pg : plan.moves[q] # {}}}
  /\ UNCHANGED <<cluster, plan, heap, todo, left, stuck>>

\* PG by PG, and a PG's shards in order.
IsNext(x) ==
  /\ x \in agenda
  /\ \A y \in agenda \ {x} :
       x[1] < y[1] \/ (x[1] = y[1] /\ SiblingKey(x) < SiblingKey(y))

\* Mutant: the sibling stays on the agenda.
LookWithoutTaking(pg, i) ==
  /\ phase = "resolving"
  /\ IsNext(<<pg, i>>)
  /\ UNCHANGED <<cluster, phase, heap, todo, left, agenda>>

\* The next sibling is looked at.
Look(pg, i) ==
  /\ phase = "resolving"
  /\ IsNext(<<pg, i>>)
  /\ agenda' = agenda \ {<<pg, i>>}
  /\ UNCHANGED <<cluster, phase, heap, todo, left>>

NoRoom(pg, i) == Blocker(pg, i) /\ Place(plan, pg, i, {}) = None

\* try_pin_elsewhere: the move in the way and place's choice for it, if the blocker can
\* then be pinned; otherwise the move stays as it was.
Aside(pg, i) ==
  LET host == HostOf[ActingOf(cluster, pg, i)]
  IN  {mt \in InTheWay(plan, pg, i) \X Osd :
         /\ mt[2] = Place(Uncommit(plan, pg, mt[1]), pg, mt[1].slot, {host})
         /\ CanPinBack(RePlaced(plan, pg, i, mt[1], mt[2]), pg, i)}

LookPast(pg, i) == Look(pg, i) /\ ~Blocker(pg, i) /\ UNCHANGED <<plan, stuck>>

DivertBlocker(pg, i) ==
  LET t == Place(plan, pg, i, {})
  IN  /\ Look(pg, i) /\ Blocker(pg, i)
      /\ t # None
      /\ plan' = Commit(plan, pg, i, t, "blocker")
      /\ UNCHANGED stuck

PinBlockerBack(pg, i) ==
  /\ Look(pg, i) /\ NoRoom(pg, i)
  /\ CanPinBack(plan, pg, i)
  /\ plan' = PinBack(plan, pg, i)
  /\ UNCHANGED stuck

PinBlockerAside(pg, i) ==
  /\ Look(pg, i) /\ NoRoom(pg, i)
  /\ ~CanPinBack(plan, pg, i)
  /\ \E mt \in Aside(pg, i) :
       plan' = PinBack(RePlaced(plan, pg, i, mt[1], mt[2]), pg, i)
  /\ UNCHANGED stuck

GiveUp(pg, i) ==
  /\ Look(pg, i) /\ NoRoom(pg, i)
  /\ ~CanPinBack(plan, pg, i)
  /\ Aside(pg, i) = {}
  /\ stuck' = stuck \union {pg}
  /\ UNCHANGED plan

Finish ==
  /\ phase = "resolving"
  /\ agenda = {}
  /\ phase' = "done"
  /\ UNCHANGED <<cluster, plan, heap, todo, left, agenda, stuck>>

-----------------------------------------------------------------------------
ShedInit ==
  /\ PlanInit
  /\ phase = "shedding"
  /\ heap = {Priority(plan, s) : s \in Sources}
  /\ todo = [s \in Sources |-> OnSource(s)]
  /\ left = {}
  /\ agenda = {}
  /\ stuck = {}

ShedNext ==
  \/ \E e \in heap : \E x \in todo[e.source] : ShedShard(e, x)
  \/ \E e \in heap : DropSource(e)
  \/ EndShedding
  \/ \E x \in agenda : LookPast(x[1], x[2])
  \/ \E x \in agenda : DivertBlocker(x[1], x[2])
  \/ \E x \in agenda : PinBlockerBack(x[1], x[2])
  \/ \E x \in agenda : PinBlockerAside(x[1], x[2])
  \/ \E x \in agenda : GiveUp(x[1], x[2])
  \/ Finish

\* shed() is one thread with nothing to wait for.
ShedSpec == ShedInit /\ [][ShedNext]_shedVars /\ WF_shedVars(ShedNext)

-----------------------------------------------------------------------------
(* What shed() reports once it is done.                                     *)

Done == phase = "done"

StillLeft == {x \in left : x[2][2] \notin Changed(plan, x[2][1])}

Kept == {x \in StillLeft : BelowLevel(plan, x[1], 0)}

Unplaceable == StillLeft \ Kept

-----------------------------------------------------------------------------
\* Stopping at the first candidate that could not beat the best, or be legal, loses
\* nothing: place returns the legal target projected lowest, whenever it may be asked.
PlaceFindsBest ==
  \A x \in Shards :
    LET legal == {t \in Osd : Legal(plan, x[1], x[2], t, {})}
        t == Place(plan, x[1], x[2], {})
    IN  IF x[2] \in Changed(plan, x[1]) \/ ~MayChange(cluster, x[1]) THEN TRUE
        ELSE IF legal = {} THEN t = None
        ELSE t \in legal /\ \A o \in legal \ {t} : Less(plan, Size(x[1]), t, o)

\* "One with none is left (targets only fill up, so it would not get one later)"
\* (shed_sources): while the sources are shed, none of the shards left on a source over
\* the level has a legal target, unless another shard of its PG has been moved, which may
\* free a host.
LeftHasNoTarget ==
  phase = "shedding" =>
    \A x \in left :
      \/ BelowLevel(plan, x[1], 0)
      \/ plan.moves[x[2][1]] # {}
      \/ ~\E t \in Osd : Legal(plan, x[2][1], x[2][2], t, {})

\* Every shard that may be moved is moved, or reported as left, once.
Accounted ==
  Done => \A s \in Sources : \A x \in OnSource(s) :
            x[2] \in Changed(plan, x[1]) \/ <<s, x>> \in Kept \union Unplaceable

\* A PG with a proposed move keeps no blocker, however the later PGs were resolved,
\* unless it is reported stuck.  A target's own backfill may not make one: see Cap.
BlockersSettled ==
  Done =>
    \A pg \in Pg \ stuck :
      plan.moves[pg] # {} =>
        \A i \in Slots(cluster, pg) \ Changed(plan, pg) :
          ~IsBlocker(cluster, plan.res, pg, i)

\* The run ends: each turn uses up a shard or a source.
Finishes == <>Done

=============================================================================
