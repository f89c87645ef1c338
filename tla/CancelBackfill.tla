---------------------------- MODULE CancelBackfill ----------------------------
(***************************************************************************)
(* cancel-backfill and cancel-uphill, PG by PG: which of a PG's moving      *)
(* shards are asked for, the companions and blockers pinned along with     *)
(* them, and what avoid_chains leaves out of what pgremapper is given.      *)
(* PGs do not affect one another: --pin-blockers projects OSDs from every  *)
(* queued backfill before anything is pinned, so an OSD blocks or does not. *)
(*                                                                         *)
(* A pin is a slot of the up set; a replica's is its up OSD's.             *)
(***************************************************************************)
EXTENDS Upmap, FiniteSetsExt

CONSTANTS
  PGs,        \* the PGs to plan for, as fetched: see PgTyped
  Commands,   \* the runs: which shards are asked for, and which OSDs block
  UtilOf,     \* the utilization of each OSD, None if unknown
  MinDelta    \* --min-delta

ASSUME OsdsAreNumbers == Osd \subseteq Int
ASSUME UtilTyped == UtilOf \in [Osd -> Int \union {None}] /\ MinDelta \in Nat

VARIABLES
  pg,         \* the PG planned for
  command,    \* the run
  phase,      \* "select", "close", "block", "order", "chains", "done"
  requested,  \* the slots asked for
  pins,       \* the slots to pin
  todo,       \* the blockers not looked at yet (find_blockers)
  dropped,    \* the pins left out because they, or others of the PG, chain
  skipped,    \* the slots reported as not pinned
  entry       \* the upmap entry printed for a PG with pins left out

cancelVars == <<pg, command, phase, requested, pins, todo, dropped, skipped, entry>>
given == <<pg, command>>

Phases == {"select", "close", "block", "order", "chains", "done"}

up == pg.up
acting == pg.acting
Slots == DOMAIN up

PgTyped(p) ==
  /\ p.ec \in BOOLEAN
  /\ p.raw \in Seq(Osd \union {None}) /\ p.up \in Seq(Osd \union {None})
  /\ p.acting \in [DOMAIN p.up -> Osd \union {None}]
  /\ p.pairs \in Seq(Osd \X Osd)

\* osds is {} without --osds; full: the OSDs that block, {} without --pin-blockers.
CommandTyped(c) ==
  /\ c.uphill \in BOOLEAN
  /\ c.osds \subseteq Osd /\ c.full \subseteq Osd
  /\ c.full # {} => c.osds # {}
  /\ c.uphill => c.osds = {}

ASSUME CommandsTyped == \A c \in Commands : CommandTyped(c)
ASSUME PGsTyped == \A p \in PGs : PgTyped(p)

\* What Ceph guarantees of a PG (external).
ASSUME PGsConsistent ==
  \A p \in PGs : CephConsistent(p.raw, p.pairs, p.up, p.acting)

Whole == ~command.uphill /\ command.osds = {}

-----------------------------------------------------------------------------
(* What is asked for.                                                       *)

Arrivals == RealOsds(up) \ RealOsds(acting)
Departures == RealOsds(acting) \ RealOsds(up)

Rank(S, o) == Cardinality({x \in S : x < o})

\* Where a shard is pinned back to, None if nowhere.  A replica's is the departing
\* OSD that comes as late among them as its own OSD does among the arriving.
Dest(i) ==
  IF pg.ec THEN acting[i]
  ELSE LET match == {d \in Departures :
                       up[i] \in Arrivals /\ Rank(Departures, d) = Rank(Arrivals, up[i])}
       IN  IF match = {} THEN None ELSE CHOOSE d \in match : TRUE

Moving == {i \in Slots : IsReal(up[i])
                         /\ IF pg.ec THEN acting[i] # up[i] ELSE up[i] \in Arrivals}

\* One replica arrives and one departs, so it is clear which goes where.
Paired == Cardinality(Arrivals) = 1 /\ Cardinality(Departures) = 1

\* cancel_whole_pg, find_arrivals, find_uphill_shards: the shards that are meant.
Meant ==
  IF command.uphill
  THEN {i \in Moving :
          /\ pg.ec \/ Paired
          /\ IsReal(Dest(i)) /\ UtilOf[up[i]] # None /\ UtilOf[Dest(i)] # None
          /\ UtilOf[up[i]] - UtilOf[Dest(i)] >= MinDelta}
  ELSE IF Whole THEN Moving
  ELSE {i \in Moving : IF pg.ec THEN up[i] \in command.osds
                                ELSE Arrivals \intersect command.osds # {}}

\* Those with no OSD to go back to, or no telling which.
Unclear ==
  IF command.uphill
  THEN {i \in Moving :
          \/ ~pg.ec /\ ~Paired
          \/ ~IsReal(Dest(i))
          \/ UtilOf[up[i]] = None \/ UtilOf[Dest(i)] = None}
  ELSE {i \in Meant : ~IsReal(Dest(i)) \/ (~pg.ec /\ ~Whole /\ ~Paired)}

Requested == Meant \ Unclear

-----------------------------------------------------------------------------
NewUp(P) == [i \in Slots |-> IF i \in P THEN Dest(i) ELSE up[i]]

Pair(i) == <<up[i], Dest(i)>>

\* Mutant: what is left after a pin is dropped is not looked at again.
NoClash(P) == FALSE

\* cancel_whole_pg, pin_replica, host_clash: a pinned shard shares a place.
HostClash(P) ==
  \E i \in P : \E j \in Slots \ {i} : IsReal(NewUp(P)[j]) /\ SamePlace(Dest(i), NewUp(P)[j])

\* close_pins, {} if it refuses.
Close(P) == IF pg.ec THEN ClosePins(up, acting, P) ELSE IF HostClash(P) THEN {} ELSE P

\* order_moves: the pins whose 'to' no other pin's 'from' still is.
Unblocked(R) == {i \in R : \A j \in R \ {i} : up[j] # Dest(i)}

Cyclic(P) == \E R \in (SUBSET P) \ {{}} : Unblocked(R) = {}

\* The pins in the order they are printed, from P without a cycle.
OrderOf(P) ==
  LET f[R \in SUBSET P] ==
        IF Unblocked(R) = {} THEN <<>>
        ELSE <<Min(Unblocked(R))>> \o f[R \ {Min(Unblocked(R))}]
  IN  f[P]

Pairs(P) == [k \in 1..Cardinality(P) |-> Pair(OrderOf(P)[k])]

\* find_blockers: the unpinned shards moving to an OSD that blocks.
Blocking(i) == i \in Moving /\ IsReal(Dest(i)) /\ up[i] \in command.full

-----------------------------------------------------------------------------
CancelInit ==
  /\ pg \in PGs
  /\ command \in Commands
  /\ phase = "select"
  /\ requested = {} /\ pins = {} /\ todo = {}
  /\ dropped = {} /\ skipped = {}
  /\ entry = <<>>

Select ==
  /\ phase = "select"
  /\ requested' = Requested
  /\ skipped' = Unclear
  /\ phase' = IF requested' = {} THEN "done" ELSE "close"
  /\ UNCHANGED <<given, pins, todo, dropped, entry>>

ClosePinned ==
  /\ phase = "close"
  /\ Close(requested) # {}
  /\ pins' = Close(requested)
  /\ todo' = IF pg.ec THEN {i \in Slots \ pins' : Blocking(i)} ELSE {}
  /\ phase' = "block"
  /\ UNCHANGED <<given, requested, dropped, skipped, entry>>

\* The PG is left as it is.
Refuse ==
  /\ \/ phase = "close" /\ Close(requested) = {}
     \/ phase = "order" /\ Cyclic(pins)
  /\ pins' = {}
  /\ skipped' = skipped \union requested
  /\ phase' = "done"
  /\ UNCHANGED <<given, requested, todo, dropped, entry>>

\* Mutant: a blocker that needs companions is not pinned.
TrialAlone(b) == IF Close(pins \union {b}) = pins \union {b} THEN pins \union {b} ELSE {}

\* The pins with the blocker's own, {} if it cannot be pinned.
Trial(b) == IF Cyclic(Close(pins \union {b})) THEN {} ELSE Close(pins \union {b})

LookAt(b) ==
  /\ phase = "block"
  /\ b \in todo /\ \A other \in todo : b <= other
  /\ todo' = todo \ {b}
  /\ UNCHANGED <<given, phase, requested, dropped, entry>>

\* A companion of an earlier blocker already.
PassBlocker(b) == LookAt(b) /\ b \in pins /\ UNCHANGED <<pins, skipped>>

PinBlocker(b) ==
  /\ LookAt(b)
  /\ b \notin pins /\ Trial(b) # {}
  /\ pins' = Trial(b)
  /\ UNCHANGED skipped

SkipBlocker(b) ==
  /\ LookAt(b)
  /\ b \notin pins /\ Trial(b) = {}
  /\ skipped' = skipped \union {b}
  /\ UNCHANGED pins

EndBlockers ==
  /\ phase = "block" /\ todo = {}
  /\ phase' = "order"
  /\ UNCHANGED <<given, requested, pins, todo, dropped, skipped, entry>>

OrderMoves ==
  /\ phase = "order" /\ ~Cyclic(pins)
  /\ phase' = "chains"
  /\ UNCHANGED <<given, requested, pins, todo, dropped, skipped, entry>>

-----------------------------------------------------------------------------
(* avoid_chains.                                                            *)

Partial == Whole

Existing == Live(pg.pairs, up)

\* Mutant: only the pins are compared.
HeadsAmongPins(P) == {i \in P : \E j \in P \ {i} : up[j] = Dest(i)}

\* The new pairs of the pins as pgremapper folds them, and all pairs that do something.
Folded(P) == FoldPairs(Existing, Pairs(P))

RealPairs(P) == {p \in ToSet(Folded(P).rest \o Folded(P).effective) : p[1] # p[2]}

\* chain_heads: the pins whose 'to' is another pair's 'from', once folded.
Heads(P) ==
  {i \in P : \E k \in 1..Cardinality(P) :
     /\ OrderOf(P)[k] = i
     /\ Folded(P).effective[k] \in RealPairs(P)
     /\ \E p \in RealPairs(P) : p[1] = Folded(P).effective[k][2]}

\* Mutant: a requested pin is dropped like any other.
NeverLeftOut(P) == FALSE

\* Requested pins go together, but when every backfill is cancelled.
HeadIsNeeded(P) == ~Partial /\ Heads(P) \intersect requested # {}

\* chained: the entry that pins everything.
FullEntry == (IF Chained(pg.pairs) THEN pg.pairs ELSE Existing) \o Pairs(pins \union dropped)

DropHeads ==
  /\ phase = "chains"
  /\ ~Chained(pg.pairs)
  /\ Heads(pins) # {}
  /\ ~HeadIsNeeded(pins)
  /\ dropped' = dropped \union Heads(pins)
  /\ pins' = pins \ Heads(pins)
  /\ UNCHANGED <<given, phase, requested, todo, skipped, entry>>

LeaveOut ==
  /\ phase = "chains"
  /\ \/ Chained(pg.pairs)
     \/ HeadIsNeeded(pins)
     \/ Heads(pins) = {} /\ dropped # {} /\ HostClash(pins)
  /\ pins' = {}
  /\ dropped' = dropped \union pins
  /\ skipped' = skipped \union requested
  /\ entry' = FullEntry
  /\ phase' = "done"
  /\ UNCHANGED <<given, requested, todo>>

\* Mutant: what was dropped is not listed.
DroppedUnlisted == {}

Listed == dropped

Keep ==
  /\ phase = "chains"
  /\ ~Chained(pg.pairs)
  /\ Heads(pins) = {}
  /\ dropped # {} => ~HostClash(pins)
  /\ skipped' = skipped \union Listed
  /\ entry' = IF dropped = {} THEN <<>> ELSE FullEntry
  /\ phase' = "done"
  /\ UNCHANGED <<given, requested, pins, todo, dropped>>

CancelNext ==
  \/ Select \/ ClosePinned \/ Refuse
  \/ \E b \in todo : PassBlocker(b)
  \/ \E b \in todo : PinBlocker(b)
  \/ \E b \in todo : SkipBlocker(b)
  \/ EndBlockers \/ OrderMoves
  \/ DropHeads \/ LeaveOut \/ Keep

CancelSpec == CancelInit /\ [][CancelNext]_cancelVars

-----------------------------------------------------------------------------
Done == phase = "done"

\* What Ceph makes of these pins, imported by pgremapper.
Imports(P) == CephUp(pg.raw, Imported(pg.pairs, up, Pairs(P)))

\* Whatever pairs the PG has, and whatever was dropped: imported, the pins kept are
\* in effect, every one of them; and the entry printed for a PG with a pin left out
\* pins that one too.
CancelsTakeEffect ==
  Done => /\ pins # {} => Imports(pins) = NewUp(pins)
          /\ entry # <<>> => CephUp(pg.raw, entry) = NewUp(pins \union dropped)

\* ... and Ceph has no reason to drop the entry: the companions of a dropped pin are
\* dropped too where they would clash.
PinsKeepHostsApart == Done => HostsDistinct(NewUp(pins))

\* "A PG with shards arriving on several of the given OSDs is pinned as a whole, or
\* not at all"; so are a PG's uphill shards.
AllOrNone == Done /\ ~Whole /\ pins # {} => requested \subseteq pins

\* Every shard meant, and every blocker of a PG that is pinned, is pinned or listed.
Reported ==
  Done => /\ Meant \subseteq pins \union skipped
          /\ pg.ec /\ pins # {} =>
               \A i \in Slots : Blocking(i) => i \in pins \union skipped

\* Taking the blockers one at a time, each with its companions, loses none: one that
\* is skipped cannot be pinned along with the requested shards at all.
SkippedBlockersAreHopeless ==
  phase \in {"block", "order"} =>
    \A b \in skipped \ Unclear :
      \A P \in ValidPins(up, acting, requested \union {b}) : Cyclic(P)

=============================================================================
