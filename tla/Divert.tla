------------------------------- MODULE Divert -------------------------------
(***************************************************************************)
(* divert-toofull: every shard arriving on an OSD too full to take it, of a *)
(* PG that Ceph holds in backfill_toofull, gets the best legal target, those *)
(* whose data is on the fullest OSD first; then what got none is reported.  *)
(*                                                                         *)
(* The rules are Planner's, with no sources and no level (plan()).          *)
(***************************************************************************)
EXTENDS Placing

CONSTANTS
  ToofullUtil,   \* --toofull-util, in points
  Only           \* the PGs to consider: --pgs, or all of them

VARIABLES
  queues,       \* per acting OSD, the stuck shards whose data is there, in order
  heap,         \* the head of each queue, with its priority when pushed
  pressure,     \* SourcePressure: what each OSD holds, less the shards placed
  unplaceable   \* the shards that got no target

divertVars == <<cluster, plan, queues, heap, pressure, unplaceable>>

ASSUME DivertSettings == Sources = {} /\ Level = 0 /\ Relieve
ASSUME OptionsTyped == ToofullUtil \in Nat /\ Only \subseteq Pg

-----------------------------------------------------------------------------
(* What is stuck.                                                           *)

\* select_stuck_shards: an OSD of unknown utilization may be the one that refuses.
TooFull(o) == o \notin Sized \/ Util(o, cluster.used[o]) >= ToofullUtil

Considered == Only \intersect cluster.toofull

Stuck ==
  {x \in Shards : /\ x[1] \in Considered
                  /\ Arriving(cluster, x[1], x[2])
                  /\ TooFull(UpOf(x[1], x[2]))
                  /\ ~Chained(cluster.pairs[x[1]])}

\* shard_key: EC shards by slot, replicas by OSD.
ShardKey(x) == IF Ec[x[1]] THEN x[2] ELSE UpOf(x[1], x[2])

InOrder(x, y) == x[1] < y[1] \/ (x[1] = y[1] /\ ShardKey(x) < ShardKey(y))

DataOn(x) == ActingOf(cluster, x[1], x[2])

-----------------------------------------------------------------------------
(* Which shard is next.                                                     *)

\* A queue's head as it is ranked; SourcePressure knows nothing of an OSD without
\* a capacity figure, or of data that is nowhere known.
Entry(x, held) ==
  LET known == DataOn(x) \in Sized
  IN  [shard |-> x, known |-> known, util |-> IF known THEN Util(DataOn(x), held[DataOn(x)]) ELSE 0]

Before(e, f) ==
  \/ e.known /\ ~f.known
  \/ e.known = f.known /\ e.util > f.util
  \/ e.known = f.known /\ e.util = f.util /\ InOrder(e.shard, f.shard)

\* Mutant: what was placed still counts on the OSD that holds it.
RelieveNothing(held, x) == held

\* SourcePressure.relieve.
RelieveSource(held, x) ==
  IF DataOn(x) \in Sized THEN [held EXCEPT ![DataOn(x)] = @ - Size(x[1])] ELSE held

\* Mutant: a queue is pushed back only if its head was placed.
RequeueIfPlaced(e, rest, held) ==
  IF rest = <<>> \/ held = pressure THEN heap \ {e}
  ELSE (heap \ {e}) \union {Entry(Head(rest), held)}

Requeue(e, rest, held) ==
  IF rest = <<>> THEN heap \ {e} ELSE (heap \ {e}) \union {Entry(Head(rest), held)}

\* The foremost entry is popped, and its queue pushed back.
Popped(e) == e \in heap /\ \A f \in heap \ {e} : Before(e, f)

PushedBack(e, held) ==
  LET rest == Tail(queues[DataOn(e.shard)])
  IN  /\ queues' = [queues EXCEPT ![DataOn(e.shard)] = rest]
      /\ heap' = Requeue(e, rest, held)
      /\ pressure' = held
      /\ UNCHANGED cluster

PlaceStuck(e) ==
  LET x == e.shard
      t == Place(plan, x[1], x[2], {})
  IN  /\ Popped(e)
      /\ t # None
      /\ plan' = Commit(plan, x[1], x[2], t, "requested")
      /\ PushedBack(e, RelieveSource(pressure, x))
      /\ UNCHANGED unplaceable

PassStuck(e) ==
  LET x == e.shard
  IN  /\ Popped(e)
      /\ Place(plan, x[1], x[2], {}) = None
      /\ unplaceable' = unplaceable \union {x}
      /\ PushedBack(e, pressure)
      /\ UNCHANGED plan

-----------------------------------------------------------------------------
\* The stuck shards with data on a, and the n-th of them in order.
StuckOn(a) == {x \in Stuck : DataOn(x) = a}
NthOn(a, n) == CHOOSE x \in StuckOn(a) : Cardinality({y \in StuckOn(a) : InOrder(y, x)}) = n - 1

Queue(a) == [n \in 1 .. Cardinality(StuckOn(a)) |-> NthOn(a, n)]

DivertInit ==
  /\ PlanInit
  /\ queues = [a \in {DataOn(x) : x \in Stuck} |-> Queue(a)]
  /\ pressure = cluster.used
  /\ heap = {Entry(Head(queues[a]), cluster.used) : a \in DOMAIN queues}
  /\ unplaceable = {}

DivertNext ==
  \/ \E e \in heap : PlaceStuck(e)
  \/ \E e \in heap : PassStuck(e)

\* One thread with nothing to wait for.
DivertSpec == DivertInit /\ [][DivertNext]_divertVars /\ WF_divertVars(DivertNext)

-----------------------------------------------------------------------------
(* The report.                                                              *)

Done == heap = {}

\* Mutant: what is projected, not what is reserved, decides.
FitsFinally(x) ==
  /\ UpOf(x[1], x[2]) \in {UpOf(m[1], m[2].slot) : m \in AllMoves(plan)} \intersect Sized
  /\ FinalUtil(plan, UpOf(x[1], x[2])) < BackfillFull

\* split_left: moves take other shards off its OSD, which may then have room for it.
Fits(x) ==
  /\ UpOf(x[1], x[2]) \in {UpOf(m[1], m[2].slot) : m \in AllMoves(plan)} \intersect Sized
  /\ Util(UpOf(x[1], x[2]), plan.res[UpOf(x[1], x[2])]) < BackfillFull

Fitting == {x \in unplaceable : Fits(x)}

-----------------------------------------------------------------------------
Pending == UNION {ToSet(queues[a]) : a \in DOMAIN queues}

\* Every stuck shard is still queued, or has a target, or is reported, and only one
\* of these, however the queues are drained.
NoneForgotten ==
  /\ Pending \union unplaceable \union {x \in Stuck : x[2] \in Changed(plan, x[1])} = Stuck
  /\ Pending \intersect unplaceable = {}
  /\ \A x \in Pending \union unplaceable : x[2] \notin Changed(plan, x[1])
  /\ Done => Pending = {}

\* What each OSD will hold once the shards placed so far are gone from it.
HeldAfter(o) ==
  LET gone == {m \in AllMoves(plan) : DataOn(<<m[1], m[2].slot>>) = o}
  IN  cluster.used[o] - SumFunction([m \in gone |-> Size(m[1])])

\* "Shards whose data sits on the fullest OSD are placed first": a heap of the queues'
\* heads, none stale, gives the foremost of all the shards still queued, by what their
\* OSDs hold once the shards already placed have left.
FullestServedFirst ==
  [][LET held == [o \in Osd |-> HeldAfter(o)]
     IN  \A x \in Pending \ Pending', y \in Pending' : Before(Entry(x, held), Entry(y, held))]_divertVars

\* The OSD that a shard reported as fitting is headed for will not refuse it: with
\* every backfill in motion and proposed reserved, it is below backfillfull_ratio.
FittingWillFit ==
  Done => \A x \in Fitting :
    LET u == UpOf(x[1], x[2])
        coming == {y \in Shards : /\ Arriving(cluster, y[1], y[2]) /\ UpOf(y[1], y[2]) = u
                                  /\ y[2] \notin Changed(plan, y[1])}
        sent == {m \in AllMoves(plan) : m[2].to = u}
    IN  Util(u, cluster.used[u]
                + SumFunction([y \in coming |-> ToCome(cluster, y[1], y[2])])
                + SumFunction([m \in sent |-> Size(m[1])])) < BackfillFull

=============================================================================
