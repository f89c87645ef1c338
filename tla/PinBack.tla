------------------------------- MODULE PinBack -------------------------------
(***************************************************************************)
(* Pinning moving shards of one erasure-coded PG back to the OSDs that     *)
(* hold their data (shared.py): close_pins extends the requested pins with *)
(* companions, round by round, until the up set they give is valid, then   *)
(* order_moves puts the pairs in an order in which Ceph applies them all.  *)
(* cancel-backfill and cancel-uphill run both; drain, balance and          *)
(* divert-toofull run the first for a blocker.  The pairs are then handed   *)
(* to Ceph (external), which applies them one after the other.             *)
(*                                                                         *)
(* A pin is a slot: pinning slot i puts the acting set's i-th OSD where     *)
(* the up set's i-th was.                                                  *)
(***************************************************************************)
EXTENDS Upmap

CONSTANT ShardCount   \* the PG's shards: its pool's size

ASSUME ShardCountAssumption == ShardCount \in Nat \ {0}

Slot == 1..ShardCount

VARIABLES
  upSet, actingSet,   \* the PG's up and acting sets
  asked,        \* the slots asked for
  pinned,       \* the slots pinned so far (close_pins' dict)
  remaining,    \* the pins order_moves has yet to place
  ordered,      \* the pins it has placed, in order
  applied,      \* the mapping Ceph has arrived at
  count,        \* how many of the pairs Ceph has been through
  stage         \* "close", "order", or how it ended

vars == <<upSet, actingSet, asked, pinned, remaining, ordered, applied, count, stage>>
inputs == <<upSet, actingSet, asked>>
ceph == <<applied, count>>

Stages == {"close", "order", "apply", "done", "unpinnable", "cycle"}

-----------------------------------------------------------------------------
Pinnable(i) == CanPin(upSet, actingSet, i)

UpOfPins(P) == PinnedUp(upSet, actingSet, P)

Clashing(P) == ClashingWith(upSet, actingSet, P)

Move(i) == <<upSet[i], actingSet[i]>>

\* The pins that order_moves may place next: no other one still holds their 'to'.
UnblockedMoves == {i \in remaining : \A j \in remaining \ {i} : upSet[j] # actingSet[i]}

-----------------------------------------------------------------------------
Init ==
  /\ upSet \in [Slot -> Osd \union {None}] /\ HostsDistinct(upSet)
  /\ actingSet \in [Slot -> Osd \union {None}] /\ HostsDistinct(actingSet)
  /\ asked \in SUBSET {i \in Slot : IsReal(upSet[i]) /\ Pinnable(i)}
  /\ asked # {}
  /\ pinned = asked
  /\ remaining = {}
  /\ ordered = <<>>
  /\ applied = upSet
  /\ count = 0
  /\ stage = "close"

\* close_pins: a round that found companions, all of which can be pinned.
AddCompanions ==
  /\ stage = "close"
  /\ Clashing(pinned) # {}
  /\ \A j \in Clashing(pinned) : Pinnable(j)
  /\ pinned' = pinned \union Clashing(pinned)
  /\ UNCHANGED <<inputs, ceph, remaining, ordered, stage>>

\* close_pins: a clashing shard is not moving, or has no acting OSD.
GiveUpOnCompanion ==
  /\ stage = "close"
  /\ \E j \in Clashing(pinned) : ~Pinnable(j)
  /\ stage' = "unpinnable"
  /\ UNCHANGED <<inputs, ceph, pinned, remaining, ordered>>

\* Mutant: one round of companions, without looking at theirs.
ClosedAfterOneRound ==
  /\ stage = "close"
  /\ Clashing(pinned) = {} \/ pinned # asked
  /\ stage' = "order"
  /\ remaining' = pinned
  /\ UNCHANGED <<inputs, ceph, pinned, ordered>>

\* close_pins: a round that found nothing to add; order_moves starts.
Closed ==
  /\ stage = "close"
  /\ Clashing(pinned) = {}
  /\ stage' = "order"
  /\ remaining' = pinned
  /\ UNCHANGED <<inputs, ceph, pinned, ordered>>

\* Mutant: the moves are placed in shard order.
PlaceLowest ==
  /\ stage = "order"
  /\ \E i \in remaining :
       /\ \A j \in remaining : i <= j
       /\ ordered' = Append(ordered, i)
       /\ remaining' = remaining \ {i}
  /\ UNCHANGED <<inputs, ceph, pinned, stage>>

\* order_moves: place the first unblocked move, in shard order.
PlaceMove ==
  /\ stage = "order"
  /\ \E i \in UnblockedMoves :
       /\ \A j \in UnblockedMoves : i <= j
       /\ ordered' = Append(ordered, i)
       /\ remaining' = remaining \ {i}
  /\ UNCHANGED <<inputs, ceph, pinned, stage>>

\* Mutant: one move that waits is taken for a cycle.
GiveUpOnWait ==
  /\ stage = "order"
  /\ remaining # {}
  /\ UnblockedMoves # remaining
  /\ stage' = "cycle"
  /\ UNCHANGED <<inputs, ceph, pinned, remaining, ordered>>

\* order_moves: every move left waits for another one.
GiveUpOnCycle ==
  /\ stage = "order"
  /\ remaining # {}
  /\ UnblockedMoves = {}
  /\ stage' = "cycle"
  /\ UNCHANGED <<inputs, ceph, pinned, remaining, ordered>>

\* order_moves: every move is placed, and the pairs are printed.
Ordered ==
  /\ stage = "order"
  /\ remaining = {}
  /\ stage' = "apply"
  /\ UNCHANGED <<inputs, ceph, pinned, remaining, ordered>>

\* Ceph (external) goes through the next pair.
ApplyNext ==
  /\ stage = "apply"
  /\ count < Len(ordered)
  /\ applied' = ApplyPair(applied, Move(ordered[count + 1]))
  /\ count' = count + 1
  /\ UNCHANGED <<inputs, pinned, remaining, ordered, stage>>

Finish ==
  /\ stage = "apply"
  /\ count = Len(ordered)
  /\ stage' = "done"
  /\ UNCHANGED <<inputs, ceph, pinned, remaining, ordered>>

Next ==
  \/ AddCompanions
  \/ GiveUpOnCompanion
  \/ Closed
  \/ PlaceMove
  \/ GiveUpOnCycle
  \/ Ordered
  \/ ApplyNext
  \/ Finish

Spec == Init /\ [][Next]_vars

-----------------------------------------------------------------------------
TypeOK ==
  /\ upSet \in [Slot -> Osd \union {None}]
  /\ actingSet \in [Slot -> Osd \union {None}]
  /\ asked \in SUBSET Slot
  /\ pinned \in SUBSET Slot
  /\ remaining \in SUBSET pinned
  /\ ordered \in Seq(pinned)
  /\ applied \in [Slot -> Osd \union {None}]
  /\ count \in 0..Len(ordered)
  /\ stage \in Stages

ValidPinSets == ValidPins(upSet, actingSet, asked)

\* What close_pins returns is the least valid set of pins, and it refuses only
\* when no set of companions could make the request valid.
ClosedIsLeast ==
  /\ stage \in {"order", "apply", "done", "cycle"} =>
       pinned \in ValidPinSets /\ pinned = ClosePins(upSet, actingSet, asked)
  /\ stage = "unpinnable" => ClosePins(upSet, actingSet, asked) = {} /\ ValidPinSets = {}

\* Ceph, going through the pairs in order_moves' order, skips none of them and
\* arrives at exactly the up set intended.
AppliedInFull == stage = "done" => applied = UpOfPins(pinned)

\* The up set arrived at is one Ceph accepts: no two shards on one OSD or host.
AppliedIsValid == stage = "done" => HostsDistinct(applied)

\* order_moves reports a cycle only if the pairs it could not place cannot be
\* expressed: there is no order of them in which Ceph applies them all.
CycleIsReal ==
  stage = "cycle" =>
    \A f \in SetToSeqs(remaining) :
      CephUp(upSet, [k \in DOMAIN f |-> Move(f[k])]) # UpOfPins(remaining)

=============================================================================
