----------------------------- MODULE CancelProofs -----------------------------
(***************************************************************************)
(* close_pins and order_moves, for a PG of any size over any OSDs and      *)
(* hosts, then the commands that run them.                                 *)
(*                                                                         *)
(* LoopInv is the inductive invariant of close_pins: what its loop has     *)
(* pinned is contained in every valid set of pins, so that when it stops   *)
(* its pins are the least valid set, and when it gives up there is none.   *)
(* OrderingInv is the one of order_moves and of Ceph's pass over the       *)
(* pairs: no pair leads to an OSD that a later pair has yet to empty, and  *)
(* the mapping Ceph has arrived at is the up set with just the pairs gone  *)
(* through applied.                                                        *)
(*                                                                         *)
(* cancel-backfill and cancel-uphill, for a PG with any upmap pairs: the    *)
(* shards asked for go together and none is forgotten, and what is left of  *)
(* the pins once chains are avoided clashes with nothing.  That does not    *)
(* depend on how chains are found, folded and ordered; that what is printed *)
(* takes effect does, and is proved last.                                  *)
(***************************************************************************)
EXTENDS PinBack, CancelBackfill, UpmapProofs

(* Types.  ApplyPair keeps a mapping's slots and puts the pair's 'to' or     *)
(* nothing into it.                                                         *)

\* Replacing an OSD in a mapping leaves it a mapping.
LEMMA ReplaceFirstType ==
  ASSUME NEW S, NEW osds \in [Slot -> S], NEW old, NEW new \in S
  PROVE  ReplaceFirst(osds, old, new) \in [Slot -> S]
BY DEF ReplaceFirst

\* So does applying a pair to it.
LEMMA ApplyMoveType ==
  ASSUME NEW S, NEW osds \in [Slot -> S], NEW pair, pair[2] \in S
  PROVE  ApplyPair(osds, pair) \in [Slot -> S]
BY ReplaceFirstType DEF ApplyPair

\* The state is typed at first.
LEMMA InitType == Init => TypeOK
BY DEF Init, TypeOK, Stages

\* Every step keeps it typed.
LEMMA StepType == TypeOK /\ [Next]_vars => TypeOK'
<1> SUFFICES ASSUME TypeOK, [Next]_vars PROVE TypeOK'
  OBVIOUS
<1> USE DEF TypeOK, Stages, inputs, ceph
<1>1. CASE AddCompanions
  <2>1. pinned \subseteq pinned' /\ pinned' \in SUBSET Slot /\ ordered' = ordered
    BY <1>1 DEF AddCompanions, Clashing, ClashingWith
  <2>2. ordered' \in Seq(pinned')
    BY <2>1
  <2> QED
    BY <1>1, <2>1, <2>2 DEF AddCompanions
<1>2. CASE GiveUpOnCompanion
  BY <1>2 DEF GiveUpOnCompanion
<1>3. CASE Closed
  BY <1>3 DEF Closed
<1>4. CASE PlaceMove
  BY <1>4 DEF PlaceMove, UnblockedMoves
<1>5. CASE GiveUpOnCycle
  BY <1>5 DEF GiveUpOnCycle
<1>6. CASE Ordered
  BY <1>6 DEF Ordered
<1>7. CASE ApplyNext
  <2>1. ordered[count + 1] \in Slot /\ count + 1 \in 0..Len(ordered)
    BY <1>7 DEF ApplyNext
  <2>2. applied' \in [Slot -> Osd \union {None}]
    BY <1>7, <2>1, ApplyMoveType DEF ApplyNext, Move
  <2> QED
    BY <1>7, <2>1, <2>2 DEF ApplyNext
<1>8. CASE Finish
  BY <1>8 DEF Finish
<1>9. CASE UNCHANGED vars
  BY <1>9 DEF vars
<1> QED
  BY <1>1, <1>2, <1>3, <1>4, <1>5, <1>6, <1>7, <1>8, <1>9 DEF Next

-----------------------------------------------------------------------------
(* close_pins.                                                              *)

\* Every pin's shard is on its way from one OSD to another.
PinsPinnable ==
  asked \subseteq pinned /\ \A i \in pinned : IsReal(upSet[i]) /\ Pinnable(i)

\* close_pins pins no shard it need not: at every round, each pin belongs to every
\* valid set of pins, so no backfill is cancelled that could have been left alone.
NoNeedlessPin == \A P \in ValidPinSets : pinned \subseteq P

\* What the loops keep true: see the head of this module.
LoopInv ==
  /\ PinsPinnable
  /\ NoNeedlessPin
  /\ stage = "unpinnable" => ValidPinSets = {}
  /\ stage \in {"order", "apply", "done", "cycle"} => Clashing(pinned) = {}

\* A shard clashing with pins that every valid set contains is in every valid
\* set too: left unpinned, it would clash there.
LEMMA ClashingIsNeeded ==
  ASSUME TypeOK, NEW P \in ValidPinSets, pinned \subseteq P
  PROVE  Clashing(pinned) \subseteq P
<1> SUFFICES ASSUME NEW j \in Clashing(pinned), j \notin P PROVE FALSE
  OBVIOUS
<1>1. PICK i \in pinned : SamePlace(actingSet[i], upSet[j])
  BY DEF Clashing, ClashingWith
<1>2. j \in Clashing(P)
  BY <1>1 DEF Clashing, ClashingWith
<1> QED
  BY <1>2 DEF Clashing, ValidPinSets, ValidPins

\* Nothing but the request is pinned at first, as every valid set of pins has it.
LEMMA InitLoop == Init => LoopInv
BY DEF Init, LoopInv, PinsPinnable, NoNeedlessPin, ValidPinSets, ValidPins

\* Every round of close_pins keeps to what every valid set of pins has.
LEMMA StepLoop == TypeOK /\ LoopInv /\ [Next]_vars => LoopInv'
<1> SUFFICES ASSUME TypeOK, LoopInv, [Next]_vars PROVE LoopInv'
  OBVIOUS
<1> USE DEF LoopInv, PinsPinnable, NoNeedlessPin, inputs
<1>0. ASSUME UNCHANGED inputs
      PROVE  /\ \A i : Pinnable(i)' = Pinnable(i)
             /\ ValidPinSets' = ValidPinSets
             /\ pinned' = pinned => Clashing(pinned)' = Clashing(pinned)
  BY <1>0 DEF Pinnable, CanPin, ValidPinSets, ValidPins, Clashing, ClashingWith
<1>1. CASE AddCompanions
  <2>1. \A P \in ValidPinSets : Clashing(pinned) \subseteq P
    BY <1>1, ClashingIsNeeded
  <2> QED
    BY <1>0, <1>1, <2>1 DEF AddCompanions, Clashing, ClashingWith
<1>2. CASE GiveUpOnCompanion
  <2>1. PICK j \in Clashing(pinned) : ~Pinnable(j)
    BY <1>2 DEF GiveUpOnCompanion
  <2>2. ValidPinSets = {}
    <3> SUFFICES ASSUME NEW P \in ValidPinSets PROVE FALSE
      OBVIOUS
    <3>1. j \in P
      BY <2>1, ClashingIsNeeded
    <3> QED
      BY <2>1, <3>1 DEF Pinnable, ValidPinSets, ValidPins
  <2> QED
    BY <1>0, <1>2, <2>2 DEF GiveUpOnCompanion
<1>3. CASE Closed
  BY <1>0, <1>3 DEF Closed, Clashing, ClashingWith, ValidPinSets, ValidPins, Pinnable, CanPin
<1>4. CASE PlaceMove
  BY <1>0, <1>4 DEF PlaceMove
<1>5. CASE GiveUpOnCycle
  BY <1>0, <1>5 DEF GiveUpOnCycle
<1>6. CASE Ordered
  BY <1>0, <1>6 DEF Ordered
<1>7. CASE ApplyNext
  BY <1>0, <1>7 DEF ApplyNext
<1>8. CASE Finish
  BY <1>0, <1>8 DEF Finish
<1>9. CASE UNCHANGED vars
  BY <1>0, <1>9 DEF vars
<1> QED
  BY <1>1, <1>2, <1>3, <1>4, <1>5, <1>6, <1>7, <1>8, <1>9 DEF Next

\* close_pins pins the least valid set of shards, or refuses when there is none.
THEOREM LeastValidPins ==
  Spec => [](TypeOK /\ NoNeedlessPin /\ ClosedIsLeast)
<1>1. Init => TypeOK /\ LoopInv
  BY InitType, InitLoop
<1>2. TypeOK /\ LoopInv /\ [Next]_vars => (TypeOK /\ LoopInv)'
  BY StepType, StepLoop
<1>3. TypeOK /\ LoopInv => NoNeedlessPin /\ ClosedIsLeast
  <2> SUFFICES ASSUME TypeOK, LoopInv PROVE ClosedIsLeast
    BY DEF LoopInv
  <2>1. ASSUME stage \in {"order", "apply", "done", "cycle"}
        PROVE  pinned \in ValidPinSets /\ pinned = ClosePins(upSet, actingSet, asked)
    <3>1. pinned \in ValidPinSets
      BY <2>1 DEF TypeOK, LoopInv, PinsPinnable, Pinnable, Clashing, ValidPinSets, ValidPins
    <3>2. \A P \in ValidPinSets : pinned \subseteq P
      BY DEF LoopInv, NoNeedlessPin
    <3> QED
      BY <3>1, <3>2 DEF TypeOK, ValidPinSets, ClosePins
  <2>2. ASSUME stage = "unpinnable"
        PROVE  ClosePins(upSet, actingSet, asked) = {} /\ ValidPinSets = {}
    BY <2>2 DEF LoopInv, ValidPinSets, ClosePins
  <2> QED
    BY <2>1, <2>2 DEF ClosedIsLeast
<1> QED
  BY <1>1, <1>2, <1>3, PTL DEF Spec

-----------------------------------------------------------------------------
(* order_moves and Ceph's pass over the pairs.                              *)

\* The pins of the pairs Ceph has been through.
Through == {ordered[k] : k \in 1..count}

OrderingInv ==
  /\ HostsDistinct(upSet) /\ HostsDistinct(actingSet)
  /\ stage = "close" => remaining = {} /\ ordered = <<>>
  /\ stage \in {"close", "order"} => count = 0
  /\ stage \in {"order", "apply", "done"} => ToSet(ordered) = pinned \ remaining
  /\ stage \in {"apply", "done"} => remaining = {}
  /\ stage = "done" => count = Len(ordered)
  /\ \A k \in DOMAIN ordered : \A j \in remaining : upSet[j] # actingSet[ordered[k]]
  /\ \A k, l \in DOMAIN ordered :
       k < l => /\ ordered[k] # ordered[l]
                /\ upSet[ordered[l]] # actingSet[ordered[k]]
  /\ applied = UpOfPins(Through)

\* Replacing an OSD mapped in one slot only replaces it in that slot.
LEMMA ReplaceOnly ==
  ASSUME NEW S, NEW osds \in [Slot -> S], NEW i \in Slot, NEW new,
         \A j \in Slot : osds[j] = osds[i] => j = i
  PROVE  ReplaceFirst(osds, osds[i], new) = [osds EXCEPT ![i] = new]
<1> DEFINE IsFirst(k) == osds[k] = osds[i] /\ \A j \in 1..(k - 1) : osds[j] # osds[i]
<1>1. IsFirst(i)
  BY ShardCountAssumption DEF Slot
<1>2. \A k \in DOMAIN osds : IsFirst(k) => k = i
  OBVIOUS
<1>3. (CHOOSE k \in DOMAIN osds : IsFirst(k)) = i
  BY <1>1, <1>2
<1> QED
  BY <1>3 DEF ReplaceFirst

\* A shard that is in the way of no other pin's target, and no pin's own, is free
\* to be applied next: Ceph does not skip its pair.
LEMMA NextPairApplies ==
  ASSUME TypeOK, LoopInv, OrderingInv, stage = "apply", count < Len(ordered)
  PROVE  LET i == ordered[count + 1]
         IN  ApplyPair(applied, Move(i)) = UpOfPins(Through \union {i})
<1> DEFINE i == ordered[count + 1]
<1>1. /\ count \in Nat /\ count + 1 \in DOMAIN ordered
      /\ i \in pinned /\ pinned \subseteq Slot /\ i \in Slot
      /\ Pinnable(i) /\ Clashing(pinned) = {}
  BY DEF TypeOK, LoopInv, PinsPinnable
<1>2. Through \subseteq pinned /\ i \notin Through
  BY <1>1 DEF Through, OrderingInv, TypeOK
<1>3. \A j \in Through : upSet[i] # actingSet[j]
  BY <1>1 DEF Through, OrderingInv, TypeOK
<1>4. \A j \in pinned \ Through : j # i => upSet[j] # actingSet[i]
  <2> SUFFICES ASSUME NEW j \in pinned \ Through, j # i PROVE upSet[j] # actingSet[i]
    OBVIOUS
  <2>1. PICK l \in DOMAIN ordered : j = ordered[l]
    BY DEF OrderingInv, ToSet
  <2>2. count + 1 < l
    BY <1>1, <2>1 DEF Through, TypeOK
  <2> QED
    BY <1>1, <2>1, <2>2 DEF OrderingInv
<1>5. actingSet[i] \notin ToSet(applied)
  <2> SUFFICES ASSUME NEW j \in Slot, applied[j] = actingSet[i] PROVE FALSE
    BY DEF TypeOK, ToSet
  <2>1. applied[j] = IF j \in Through THEN actingSet[j] ELSE upSet[j]
    BY DEF TypeOK, OrderingInv, UpOfPins, PinnedUp
  <2>2. CASE j \in Through
    BY <1>1, <1>2, <2>1, <2>2 DEF OrderingInv, HostsDistinct, SamePlace, TypeOK, Pinnable, CanPin
  <2>3. CASE j = i
    BY <1>1, <1>2, <2>1, <2>3 DEF Pinnable, CanPin
  <2>4. CASE j \in pinned \ Through /\ j # i
    BY <1>4, <2>1, <2>4
  <2>5. CASE j \notin pinned
    BY <1>1, <1>2, <2>1, <2>5 DEF TypeOK, Clashing, ClashingWith, Pinnable, CanPin, SamePlace
  <2> QED
    BY <2>2, <2>3, <2>4, <2>5
<1>6. applied[i] = upSet[i]
  BY <1>1, <1>2 DEF TypeOK, OrderingInv, UpOfPins, PinnedUp
<1>7. \A j \in Slot : applied[j] = applied[i] => j = i
  BY <1>1, <1>3, <1>6 DEF OrderingInv, UpOfPins, PinnedUp, HostsDistinct, SamePlace, TypeOK, LoopInv,
     PinsPinnable
<1>8. ReplaceFirst(applied, upSet[i], actingSet[i]) = [applied EXCEPT ![i] = actingSet[i]]
  BY <1>1, <1>6, <1>7, ReplaceOnly DEF TypeOK
<1>9. [applied EXCEPT ![i] = actingSet[i]] = UpOfPins(Through \union {i})
  BY <1>1 DEF OrderingInv, UpOfPins, PinnedUp
<1>10. ApplyPair(applied, Move(i)) = ReplaceFirst(applied, upSet[i], actingSet[i])
  BY <1>1, <1>5, <1>6 DEF ApplyPair, Move, ToSet, TypeOK
<1> QED
  BY <1>8, <1>9, <1>10

\* Nothing is ordered or applied at first.
LEMMA InitOrder == Init => OrderingInv
BY DEF Init, OrderingInv, UpOfPins, PinnedUp, Through

\* Placing a move, and applying one, keeps the order applicable.
LEMMA StepOrder == TypeOK /\ LoopInv /\ OrderingInv /\ [Next]_vars => OrderingInv'
<1> SUFFICES ASSUME TypeOK, LoopInv, OrderingInv, [Next]_vars PROVE OrderingInv'
  OBVIOUS
<1> USE DEF inputs, ceph
<1>0. ASSUME UNCHANGED inputs
      PROVE  HostsDistinct(upSet)' /\ HostsDistinct(actingSet)'
  BY <1>0 DEF OrderingInv, HostsDistinct
<1>1. CASE AddCompanions
  BY <1>0, <1>1 DEF AddCompanions, OrderingInv, UpOfPins, PinnedUp, Through
<1>2. CASE GiveUpOnCompanion
  BY <1>0, <1>2 DEF GiveUpOnCompanion, OrderingInv, UpOfPins, PinnedUp, Through
<1>3. CASE Closed
  BY <1>0, <1>3 DEF Closed, OrderingInv, UpOfPins, PinnedUp, Through, ToSet
<1>4. CASE PlaceMove
  <2>1. PICK i \in UnblockedMoves : ordered' = Append(ordered, i) /\ remaining' = remaining \ {i}
    BY <1>4 DEF PlaceMove
  <2>2. /\ i \in remaining /\ i \in pinned
        /\ \A j \in remaining \ {i} : upSet[j] # actingSet[i]
    BY <2>1 DEF UnblockedMoves, TypeOK
  <2>3. /\ Len(ordered') = Len(ordered) + 1
        /\ DOMAIN ordered' = DOMAIN ordered \union {Len(ordered) + 1}
        /\ \A k \in DOMAIN ordered : ordered'[k] = ordered[k]
        /\ ordered'[Len(ordered) + 1] = i
    BY <2>1, <2>2 DEF TypeOK
  <2>4. ToSet(ordered)' = pinned' \ remaining'
    <3>1. ToSet(ordered)' = ToSet(ordered) \union {i}
      BY <2>3 DEF ToSet, TypeOK
    <3> QED
      BY <1>4, <2>1, <2>2, <3>1 DEF PlaceMove, OrderingInv, TypeOK
  <2>5. \A k \in DOMAIN ordered' : \A j \in remaining' : upSet[j] # actingSet[ordered'[k]]
    BY <2>1, <2>2, <2>3 DEF OrderingInv
  <2>6. \A k \in DOMAIN ordered : ordered[k] # i /\ upSet[i] # actingSet[ordered[k]]
    BY <1>4, <2>2 DEF OrderingInv, ToSet, PlaceMove
  <2>7. \A k, l \in DOMAIN ordered' :
          k < l => ordered'[k] # ordered'[l] /\ upSet[ordered'[l]] # actingSet[ordered'[k]]
    BY <2>3, <2>6 DEF OrderingInv, TypeOK
  <2>8. applied' = UpOfPins(Through)'
    BY <1>4 DEF PlaceMove, OrderingInv, UpOfPins, PinnedUp, Through
  <2> QED
    BY <1>0, <1>4, <2>4, <2>5, <2>7, <2>8 DEF PlaceMove, OrderingInv
<1>5. CASE GiveUpOnCycle
  BY <1>0, <1>5 DEF GiveUpOnCycle, OrderingInv, UpOfPins, PinnedUp, Through
<1>6. CASE Ordered
  BY <1>0, <1>6 DEF Ordered, OrderingInv, UpOfPins, PinnedUp, Through, ToSet
<1>7. CASE ApplyNext
  <2>1. applied' = UpOfPins(Through \union {ordered[count + 1]})
    BY <1>7, NextPairApplies DEF ApplyNext
  <2>2. Through' = Through \union {ordered[count + 1]}
    BY <1>7 DEF ApplyNext, Through, TypeOK
  <2> QED
    BY <1>0, <1>7, <2>1, <2>2 DEF ApplyNext, OrderingInv, UpOfPins, PinnedUp
<1>8. CASE Finish
  BY <1>0, <1>8 DEF Finish, OrderingInv, UpOfPins, PinnedUp, Through
<1>9. CASE UNCHANGED vars
  BY <1>0, <1>9 DEF vars, OrderingInv, UpOfPins, PinnedUp, Through, ToSet
<1> QED
  BY <1>1, <1>2, <1>3, <1>4, <1>5, <1>6, <1>7, <1>8, <1>9 DEF Next

\* Pinning shards that clash with nothing left unpinned keeps hosts distinct.
LEMMA ClosedHostsDistinct ==
  ASSUME TypeOK, LoopInv, OrderingInv, Clashing(pinned) = {}
  PROVE  HostsDistinct(UpOfPins(pinned))
<1> SUFFICES ASSUME NEW i \in Slot, NEW j \in Slot, i # j,
                    IsReal(UpOfPins(pinned)[i]), IsReal(UpOfPins(pinned)[j]),
                    SamePlace(UpOfPins(pinned)[i], UpOfPins(pinned)[j])
             PROVE  FALSE
  BY DEF TypeOK, HostsDistinct, UpOfPins, PinnedUp
<1>1. CASE i \in pinned /\ j \in pinned
  BY <1>1 DEF UpOfPins, PinnedUp, OrderingInv, HostsDistinct, TypeOK
<1>2. CASE i \notin pinned /\ j \notin pinned
  BY <1>2 DEF UpOfPins, PinnedUp, OrderingInv, HostsDistinct, TypeOK
<1>3. CASE i \in pinned /\ j \notin pinned
  BY <1>3 DEF TypeOK, UpOfPins, PinnedUp, Clashing, ClashingWith
<1>4. CASE i \notin pinned /\ j \in pinned
  BY <1>4 DEF TypeOK, UpOfPins, PinnedUp, Clashing, ClashingWith, SamePlace
<1> QED
  BY <1>1, <1>2, <1>3, <1>4

\* The pairs of a PG whose pins do not form a cycle are all applied by Ceph, which
\* arrives at the up set intended, with every shard on a host of its own.
THEOREM PinsAreApplied == Spec => [](AppliedInFull /\ AppliedIsValid)
<1>1. Init => TypeOK /\ LoopInv /\ OrderingInv
  BY InitType, InitLoop, InitOrder
<1>2. TypeOK /\ LoopInv /\ OrderingInv /\ [Next]_vars => (TypeOK /\ LoopInv /\ OrderingInv)'
  BY StepType, StepLoop, StepOrder
<1>3. TypeOK /\ LoopInv /\ OrderingInv => AppliedInFull /\ AppliedIsValid
  <2> SUFFICES ASSUME TypeOK, LoopInv, OrderingInv, stage = "done"
               PROVE  applied = UpOfPins(pinned) /\ HostsDistinct(applied)
    BY DEF AppliedInFull, AppliedIsValid
  <2>1. Through = pinned
    BY DEF OrderingInv, Through, TypeOK, ToSet
  <2> QED
    BY <2>1, ClosedHostsDistinct DEF OrderingInv, LoopInv
<1> QED
  BY <1>1, <1>2, <1>3, PTL DEF Spec

-----------------------------------------------------------------------------
(* The moves order_moves gives up on.                                       *)

\* Replacing an OSD in a list leaves a slot alone that holds another.
LEMMA OthersAreLeft ==
  ASSUME NEW S, NEW osds \in [Slot -> S], NEW pair, NEW i \in Slot, osds[i] # pair[1]
  PROVE  ApplyPair(osds, pair)[i] = osds[i]
<1>1. CASE pair[2] \notin ToSet(osds) /\ pair[1] \in ToSet(osds)
  <2> DEFINE IsFirst(k) == osds[k] = pair[1] /\ \A j \in 1..(k - 1) : osds[j] # pair[1]
  <2>1. PICK K : K = {k \in Slot : osds[k] = pair[1]}
    OBVIOUS
  <2>2. K # {}
    BY <1>1, <2>1 DEF ToSet
  <2>3. PICK m \in K : \A k \in K : m <= k
    <3>1. ShardCount \in Nat /\ K \in SUBSET (1..ShardCount)
      BY <2>1, ShardCountAssumption DEF Slot
    <3> QED
      BY <2>2, <3>1, LeastOf
  <2>4. m \in Slot /\ IsFirst(m)
    BY <2>1, <2>3, ShardCountAssumption DEF Slot
  <2>5. PICK k \in DOMAIN osds : IsFirst(k) /\ k = CHOOSE l \in DOMAIN osds : IsFirst(l)
    BY <2>4
  <2>6. ReplaceFirst(osds, pair[1], pair[2]) = [osds EXCEPT ![k] = pair[2]]
    BY <2>5 DEF ReplaceFirst
  <2> QED
    BY <1>1, <2>5, <2>6 DEF ApplyPair
<1>2. CASE ~(pair[2] \notin ToSet(osds) /\ pair[1] \in ToSet(osds))
  BY <1>2 DEF ApplyPair
<1> QED
  BY <1>1, <1>2

\* Whichever of the moves left is put first, Ceph skips it: another of them still holds
\* its target.  Nothing after that empties its slot, so its shard stays where it was.
LEMMA FirstIsSkipped ==
  ASSUME TypeOK, LoopInv, HostsDistinct(upSet), remaining # {}, UnblockedMoves = {},
         NEW f \in SetToSeqs(remaining)
  PROVE  CephUp(upSet, [k \in DOMAIN f |-> Move(f[k])]) # UpOfPins(remaining)
<1>1. PICK n : n = Cardinality(remaining)
  OBVIOUS
<1>2. n \in Nat /\ 1 <= n
  <2>1. IsFiniteSet(1..ShardCount) /\ remaining \subseteq 1..ShardCount
    BY FS_Interval, ShardCountAssumption DEF TypeOK, Slot
  <2>2. IsFiniteSet(remaining)
    BY <2>1, FS_Subset
  <2> QED
    BY <1>1, <2>2, FS_CardinalityType, FS_EmptySet
<1>3. f \in [1..n -> remaining] /\ \A k, l \in 1..n : k # l => f[k] # f[l]
  BY <1>1 DEF SetToSeqs
<1>4. \A j \in remaining : /\ j \in Slot
                           /\ upSet[j] \in Osd /\ actingSet[j] \in Osd
                           /\ actingSet[j] # upSet[j]
  BY DEF TypeOK, LoopInv, PinsPinnable, Pinnable, CanPin, IsReal
<1>5. PICK pairs : pairs = [k \in DOMAIN f |-> Move(f[k])]
  OBVIOUS
<1>6. pairs \in Seq(Osd \X Osd) /\ Len(pairs) = n
  BY <1>2, <1>3, <1>4, <1>5 DEF Move
<1>7. upSet \in [DOMAIN upSet -> MaybeOsd] /\ DOMAIN upSet = Slot
  BY DEF TypeOK, MaybeOsd
<1>8. PICK F : /\ F[0] = upSet
               /\ \A k \in 1..n : F[k] = ApplyPair(F[k - 1], pairs[k])
               /\ CephUp(upSet, pairs) = F[n]
  BY <1>6, <1>7, CephUpSteps
<1>9. PICK i : i = f[1] /\ i \in remaining
  BY <1>2, <1>3
<1>10. actingSet[i] \in ToSet(upSet)
  <2>1. PICK j \in remaining \ {i} : upSet[j] = actingSet[i]
    BY <1>9 DEF UnblockedMoves
  <2> QED
    BY <1>4, <1>7, <2>1 DEF ToSet
<1>11. F[1] = upSet
  <2>1. pairs[1] = <<upSet[i], actingSet[i]>> /\ F[1] = ApplyPair(F[0], pairs[1])
    BY <1>2, <1>3, <1>5, <1>8, <1>9 DEF Move
  <2> QED
    BY <1>8, <1>10, <2>1 DEF ApplyPair
<1> DEFINE K == {k \in 0..n : F[k] \in [Slot -> MaybeOsd] /\ F[k][i] = upSet[i]}
<1>12. 0 \in K
  BY <1>2, <1>7, <1>8
<1>13. ASSUME NEW k \in 0..(n - 1), k \in K PROVE k + 1 \in K
  <2>1. k + 1 \in 1..n /\ k + 1 \in 0..n /\ (k + 1) - 1 = k
    BY <1>2
  <2>2. CASE k = 0
    BY <1>2, <1>7, <1>11, <2>1, <2>2
  <2>3. CASE k # 0
    <3>1. 1 \in 1..n /\ k + 1 # 1
      BY <1>2, <2>1, <2>3
    <3>2. f[k + 1] \in remaining /\ f[k + 1] # i
      BY <1>3, <1>9, <2>1, <3>1
    <3>3. pairs[k + 1] = <<upSet[f[k + 1]], actingSet[f[k + 1]]>>
      BY <1>3, <1>5, <2>1 DEF Move
    <3>4. upSet[f[k + 1]] # upSet[i]
      BY <1>4, <1>7, <1>9, <3>2, NoneIsNoOsd DEF HostsDistinct, IsReal, SamePlace
    <3>5. F[k] \in [Slot -> MaybeOsd] /\ F[k][i] = upSet[i]
      BY <1>13
    <3>6. F[k + 1] = ApplyPair(F[k], pairs[k + 1])
      BY <1>8, <2>1
    <3>7. F[k + 1][i] = upSet[i]
      BY <1>4, <1>9, <3>3, <3>4, <3>5, <3>6, OthersAreLeft
    <3>8. F[k + 1] \in [Slot -> MaybeOsd]
      BY <1>4, <3>2, <3>3, <3>5, <3>6, ApplyPairType
    <3> QED
      BY <2>1, <3>7, <3>8
  <2> QED
    BY <2>2, <2>3
<1>14. n \in 0..n
  BY <1>2
<1>15. n \in K
  <2> HIDE DEF K
  <2> QED
    BY <1>2, <1>12, <1>13, <1>14, UpTo
<1>16. CephUp(upSet, pairs)[i] = upSet[i]
  BY <1>8, <1>15
<1>17. UpOfPins(remaining)[i] = actingSet[i]
  BY <1>4, <1>7, <1>9 DEF UpOfPins, PinnedUp
<1> QED
  BY <1>4, <1>5, <1>9, <1>16, <1>17

\* What order_moves gives up on cannot be expressed: in no order of the moves left does
\* Ceph arrive at the up set they are meant to give.
THEOREM CyclesAreReal == Spec => []CycleIsReal
<1> DEFINE Stuck == stage = "cycle" => remaining # {} /\ UnblockedMoves = {}
<1>1. Init => Stuck
  BY DEF Init
<1>2. Stuck /\ [Next]_vars => Stuck'
  <2> SUFFICES ASSUME Stuck, [Next]_vars PROVE Stuck'
    OBVIOUS
  <2>1. CASE GiveUpOnCycle
    BY <2>1 DEF GiveUpOnCycle, UnblockedMoves, inputs
  <2>2. CASE UNCHANGED vars
    BY <2>2 DEF vars, UnblockedMoves
  <2> QED
    BY <2>1, <2>2 DEF Next, AddCompanions, GiveUpOnCompanion, Closed, PlaceMove, Ordered,
       ApplyNext, Finish
<1>3. TypeOK /\ LoopInv /\ OrderingInv /\ Stuck => CycleIsReal
  BY FirstIsSkipped DEF CycleIsReal, OrderingInv
<1>4. Init => TypeOK /\ LoopInv /\ OrderingInv
  BY InitType, InitLoop, InitOrder
<1>5. TypeOK /\ LoopInv /\ OrderingInv /\ [Next]_vars => (TypeOK /\ LoopInv /\ OrderingInv)'
  BY StepType, StepLoop, StepOrder
<1> QED
  BY <1>1, <1>2, <1>3, <1>4, <1>5, PTL DEF Spec

-----------------------------------------------------------------------------
(* The commands.                                                            *)

USE NoneIsNoOsd

\* Pins that are in effect as they are: nothing they need was dropped.
Pinning == phase \in {"block", "order"} \/ (phase = "chains" /\ dropped = {})

PhaseInv ==
  /\ pg \in PGs
  /\ phase \in Phases
  /\ phase \in {"select", "close"} => pins = {}
  /\ phase \in {"select", "close", "block", "order"} => dropped = {}
  /\ phase = "order" \/ phase = "chains" => todo = {}
  /\ todo # {} => pg.ec
  /\ pins \subseteq Slots /\ requested \subseteq Slots /\ todo \subseteq Slots

AskedInv ==
  /\ phase # "select" => requested = Requested /\ Unclear \subseteq skipped
  /\ phase \in {"block", "order", "chains"} => requested \subseteq pins \union dropped
  /\ ~Whole => requested \intersect dropped = {} \/ phase = "done"
  /\ phase = "done" => Meant \subseteq pins \union skipped /\ AllOrNone

ApartInv == Pinning \/ phase = "done" => HostsDistinct(NewUp(pins))

BlockersInv ==
  pg.ec => /\ phase \in {"block", "order", "chains"} =>
                \A i \in Slots : Blocking(i) => i \in pins \union todo \union skipped \union dropped
           /\ phase = "done" /\ pins # {} =>
                \A i \in Slots : Blocking(i) => i \in pins \union skipped

CancelInv == PhaseInv /\ AskedInv /\ ApartInv /\ BlockersInv

-----------------------------------------------------------------------------
\* What is known of the PG.
LEMMA PgFacts ==
  ASSUME pg \in PGs
  PROVE  HostsDistinct(up) /\ HostsDistinct(acting) /\ DOMAIN acting = DOMAIN up
BY PGsTyped, PGsConsistent DEF PgTyped, CephConsistent, up, acting

\* An up set some of whose slots take OSDs that share no place with the rest is valid.
LEMMA NoClashApart ==
  ASSUME pg \in PGs, NEW P \in SUBSET Slots, ~HostClash(P)
  PROVE  HostsDistinct(NewUp(P))
<1> DEFINE new == NewUp(P)
<1>1. /\ DOMAIN new = Slots
      /\ \A j \in P : new[j] = Dest(j)
      /\ \A j \in Slots \ P : new[j] = up[j]
  BY DEF NewUp
<1>2. \A j \in P : \A k \in Slots \ {j} : IsReal(new[k]) => ~SamePlace(Dest(j), new[k])
  BY DEF HostClash
<1>3. \A a, b : SamePlace(a, b) => SamePlace(b, a)
  BY DEF SamePlace
<1>4. HostsDistinct(up) /\ DOMAIN up = Slots
  BY PgFacts DEF Slots
<1> HIDE DEF new
<1>5. ASSUME NEW j \in DOMAIN new, NEW k \in DOMAIN new,
             j # k, IsReal(new[j]), IsReal(new[k])
      PROVE  ~SamePlace(new[j], new[k])
  <2>1. CASE j \in P
    BY <1>1, <1>2, <1>5, <2>1
  <2>2. CASE k \in P
    BY <1>1, <1>2, <1>3, <1>5, <2>2
  <2>3. CASE j \notin P /\ k \notin P
    BY <1>1, <1>4, <1>5, <2>3 DEF HostsDistinct
  <2> QED
    BY <2>1, <2>2, <2>3
<1>6. HostsDistinct(new)
  BY <1>5 DEF HostsDistinct
<1> QED
  BY <1>6 DEF new

\* Whatever Close returns may be pinned, and grants what was asked.
LEMMA CloseFacts ==
  ASSUME pg \in PGs, NEW P \in SUBSET Slots, Close(P) # {}
  PROVE  P \subseteq Close(P) /\ Close(P) \subseteq Slots /\ HostsDistinct(NewUp(Close(P)))
<1>1. CASE pg.ec
  <2> DEFINE C == ClosePins(up, acting, P)
  <2>1. Close(P) = C /\ C # {}
    BY <1>1 DEF Close
  <2>2. C \in ValidPins(up, acting, P)
    BY <2>1, ClosePinsIsValid
  <2>3. P \subseteq C /\ C \in SUBSET DOMAIN up /\ ClashingWith(up, acting, C) = {}
    BY <2>2 DEF ValidPins
  <2>4. NewUp(C) = PinnedUp(up, acting, C)
    BY <1>1 DEF NewUp, PinnedUp, Dest, Slots
  <2> HIDE DEF C
  <2>5. HostsDistinct(PinnedUp(up, acting, C))
    BY <2>3, PgFacts, PinsApart
  <2> QED
    BY <2>1, <2>3, <2>4, <2>5 DEF Slots
<1>2. CASE ~pg.ec
  <2>1. Close(P) = P /\ ~HostClash(P)
    BY <1>2 DEF Close
  <2> QED
    BY <2>1, NoClashApart
<1> QED
  BY <1>1, <1>2

\* With nothing pinned the up set is the PG's own.
LEMMA NothingPinned ==
  ASSUME pg \in PGs
  PROVE  HostsDistinct(NewUp({}))
<1>1. ~HostClash({})
  BY DEF HostClash
<1> QED
  BY <1>1, NoClashApart

\* What is asked for is some of the PG's slots.
LEMMA MeantFacts ==
  /\ Meant \subseteq Slots /\ Requested \subseteq Slots
  /\ Requested = Meant \ Unclear
BY DEF Meant, Moving, Requested, Unclear

\* No step changes what was fetched or asked, nor what depends on nothing else.
LEMMA GivenFacts ==
  ASSUME UNCHANGED given
  PROVE  /\ pg' = pg
         /\ Slots' = Slots /\ Meant' = Meant /\ Unclear' = Unclear /\ Requested' = Requested
         /\ Whole' = Whole
         /\ \A i : Blocking(i)' <=> Blocking(i)
         /\ HostsDistinct(NewUp(pins))' <=> HostsDistinct(NewUp(pins'))
<1>1. pg' = pg /\ command' = command
  BY DEF given
<1>2. Slots' = Slots
  BY <1>1 DEF Slots, up
<1>3. Whole' = Whole
  BY <1>1 DEF Whole
<1>4. Moving' = Moving /\ Paired' = Paired
  BY <1>1 DEF Moving, Paired, Slots, up, acting, Arrivals, Departures
<1>5. \A i : Dest(i)' = Dest(i)
  BY <1>1 DEF Dest, Rank, up, acting, Arrivals, Departures
<1>6. Meant' = Meant
  BY <1>1, <1>3, <1>4, <1>5 DEF Meant, up, Arrivals, acting
<1>7. Unclear' = Unclear
  BY <1>1, <1>3, <1>4, <1>5, <1>6 DEF Unclear, up
<1>8. Requested' = Requested
  BY <1>6, <1>7 DEF Requested
<1>9. \A i : Blocking(i)' <=> Blocking(i)
  BY <1>1, <1>4, <1>5 DEF Blocking, up
<1>10. NewUp(pins)' = NewUp(pins')
  BY <1>1, <1>2, <1>5 DEF NewUp, up
<1> QED
  BY <1>1, <1>2, <1>3, <1>6, <1>7, <1>8, <1>9, <1>10

\* Before anything is asked for the invariant holds.
LEMMA InitInv == CancelInit => CancelInv
<1> SUFFICES ASSUME CancelInit PROVE CancelInv
  OBVIOUS
<1>1. PhaseInv
  BY DEF CancelInit, PhaseInv, Phases
<1>2. AskedInv /\ ApartInv /\ BlockersInv
  BY DEF CancelInit, AskedInv, ApartInv, BlockersInv, Pinning
<1> QED
  BY <1>1, <1>2 DEF CancelInv

\* Selecting the shards asked for keeps it.
LEMMA SelectInv ==
  ASSUME CancelInv, Select
  PROVE  CancelInv'
<1>1. /\ PhaseInv /\ phase = "select" /\ pins = {} /\ dropped = {} /\ pins' = {} /\ dropped' = {}
      /\ requested' = Requested /\ skipped' = Unclear /\ todo' = todo
      /\ \/ requested' = {} /\ phase' = "done"
         \/ requested' # {} /\ phase' = "close"
      /\ UNCHANGED given
  BY DEF CancelInv, PhaseInv, Select
<1>2. PhaseInv'
  BY <1>1, GivenFacts, MeantFacts DEF PhaseInv, Phases
<1>3. AskedInv'
  BY <1>1, GivenFacts, MeantFacts DEF AskedInv, AllOrNone
<1>4. ApartInv'
  BY <1>1, GivenFacts, NothingPinned DEF ApartInv, PhaseInv
<1>5. BlockersInv'
  BY <1>1 DEF BlockersInv
<1> QED
  BY <1>2, <1>3, <1>4, <1>5 DEF CancelInv

\* Pinning what is asked for, with companions, keeps it.
LEMMA ClosePinnedInv ==
  ASSUME CancelInv, ClosePinned
  PROVE  CancelInv'
<1>1. /\ PhaseInv /\ AskedInv /\ phase = "close" /\ phase' = "block"
      /\ Close(requested) # {} /\ pins' = Close(requested)
      /\ todo' = IF pg.ec THEN {i \in Slots \ pins' : Blocking(i)} ELSE {}
      /\ UNCHANGED <<requested, dropped, skipped>> /\ UNCHANGED given
      /\ dropped = {} /\ requested \subseteq Slots /\ pg \in PGs
  BY DEF CancelInv, PhaseInv, ClosePinned
<1>2. requested \subseteq pins' /\ pins' \subseteq Slots /\ HostsDistinct(NewUp(pins'))
  BY <1>1, CloseFacts
<1>3. PhaseInv'
  BY <1>1, <1>2, GivenFacts DEF PhaseInv, Phases
<1>4. AskedInv'
  BY <1>1, <1>2, GivenFacts DEF AskedInv
<1>5. ApartInv'
  BY <1>1, <1>2, GivenFacts DEF ApartInv
<1>6. BlockersInv'
  BY <1>1, GivenFacts DEF BlockersInv
<1> QED
  BY <1>3, <1>4, <1>5, <1>6 DEF CancelInv

\* Refusing the PG keeps it.
LEMMA RefuseInv ==
  ASSUME CancelInv, Refuse
  PROVE  CancelInv'
<1>1. /\ PhaseInv /\ AskedInv /\ phase # "select" /\ phase' = "done" /\ pins' = {}
      /\ skipped' = skipped \union requested
      /\ UNCHANGED <<requested, todo, dropped>> /\ UNCHANGED given
  BY DEF CancelInv, Refuse
<1>2. PhaseInv'
  BY <1>1, GivenFacts DEF PhaseInv, Phases
<1>3. AskedInv'
  BY <1>1, GivenFacts, MeantFacts DEF AskedInv, AllOrNone
<1>4. ApartInv'
  BY <1>1, GivenFacts, NothingPinned DEF ApartInv, PhaseInv
<1>5. BlockersInv'
  BY <1>1 DEF BlockersInv
<1> QED
  BY <1>2, <1>3, <1>4, <1>5 DEF CancelInv

\* A blocker is pinned, skipped, or pinned already.
LEMMA BlockerInv ==
  ASSUME CancelInv, NEW b \in todo, PassBlocker(b) \/ PinBlocker(b) \/ SkipBlocker(b)
  PROVE  CancelInv'
<1>1. /\ PhaseInv /\ AskedInv /\ ApartInv /\ BlockersInv
      /\ phase = "block" /\ phase' = "block" /\ todo' = todo \ {b}
      /\ UNCHANGED <<requested, dropped>> /\ UNCHANGED given
      /\ pg \in PGs /\ pins \subseteq Slots /\ dropped = {} /\ requested \subseteq pins
      /\ HostsDistinct(NewUp(pins)) /\ skipped \subseteq skipped'
  BY DEF CancelInv, PhaseInv, AskedInv, ApartInv, Pinning,
         PassBlocker, PinBlocker, SkipBlocker, LookAt
<1>2. pg.ec /\ \A i \in Slots : Blocking(i) => i \in pins \union todo \union skipped
  BY <1>1 DEF PhaseInv, BlockersInv
<1>3. /\ pins \subseteq pins' /\ pins' \subseteq Slots /\ HostsDistinct(NewUp(pins'))
      /\ b \in Slots => b \in pins' \union skipped'
  <2>1. CASE PassBlocker(b)
    BY <1>1, <2>1 DEF PassBlocker
  <2>2. CASE SkipBlocker(b)
    BY <1>1, <2>2 DEF SkipBlocker
  <2>3. CASE PinBlocker(b) /\ b \in Slots
    <3>1. Close(pins \union {b}) # {} /\ pins' = Close(pins \union {b})
      BY <2>3 DEF PinBlocker, Trial
    <3> QED
      BY <1>1, <2>3, <3>1, CloseFacts
  <2>4. b \in Slots
    BY <1>1 DEF PhaseInv
  <2> QED
    BY <2>1, <2>2, <2>3, <2>4
<1>4. PhaseInv'
  BY <1>1, <1>2, <1>3, GivenFacts DEF PhaseInv, Phases
<1>5. AskedInv'
  BY <1>1, <1>3, GivenFacts DEF AskedInv
<1>6. ApartInv'
  BY <1>1, <1>3, GivenFacts DEF ApartInv
<1>7. BlockersInv'
  BY <1>1, <1>2, <1>3, GivenFacts DEF BlockersInv
<1> QED
  BY <1>4, <1>5, <1>6, <1>7 DEF CancelInv

\* Going on to order the pins, and to look for chains, keeps it.
LEMMA OrderInv ==
  ASSUME CancelInv, EndBlockers \/ OrderMoves
  PROVE  CancelInv'
<1>1. /\ PhaseInv /\ AskedInv /\ ApartInv /\ BlockersInv
      /\ \/ phase = "block" /\ todo = {} /\ phase' = "order"
         \/ phase = "order" /\ phase' = "chains"
      /\ UNCHANGED <<requested, pins, todo, dropped, skipped>> /\ UNCHANGED given
      /\ dropped = {}
  BY DEF CancelInv, PhaseInv, EndBlockers, OrderMoves
<1>2. PhaseInv'
  BY <1>1, GivenFacts DEF PhaseInv, Phases
<1>3. AskedInv'
  BY <1>1, GivenFacts DEF AskedInv
<1>4. ApartInv'
  BY <1>1, GivenFacts DEF ApartInv, Pinning
<1>5. BlockersInv'
  BY <1>1, GivenFacts DEF BlockersInv
<1> QED
  BY <1>2, <1>3, <1>4, <1>5 DEF CancelInv

\* Dropping the heads of chains keeps it: none is asked for, or all may go alone.
LEMMA DropHeadsInv ==
  ASSUME CancelInv, DropHeads
  PROVE  CancelInv'
<1>1. /\ PhaseInv /\ AskedInv /\ BlockersInv
      /\ phase = "chains" /\ phase' = "chains"
      /\ dropped' = dropped \union Heads(pins) /\ pins' = pins \ Heads(pins)
      /\ Heads(pins) # {} /\ ~HeadIsNeeded(pins)
      /\ UNCHANGED <<requested, todo, skipped>> /\ UNCHANGED given
  BY DEF CancelInv, DropHeads
<1>2. Heads(pins) \subseteq pins
  BY DEF Heads
<1>3. ~Whole => Heads(pins) \intersect requested = {}
  BY <1>1 DEF HeadIsNeeded, Partial
<1>4. PhaseInv'
  BY <1>1, GivenFacts DEF PhaseInv, Phases
<1>5. AskedInv'
  BY <1>1, <1>2, <1>3, GivenFacts DEF AskedInv
<1>6. ApartInv'
  BY <1>1 DEF ApartInv, Pinning
<1>7. BlockersInv'
  BY <1>1, <1>2, GivenFacts DEF BlockersInv
<1> QED
  BY <1>4, <1>5, <1>6, <1>7 DEF CancelInv

\* Leaving the PG out keeps it.
LEMMA LeaveOutInv ==
  ASSUME CancelInv, LeaveOut
  PROVE  CancelInv'
<1>1. /\ PhaseInv /\ AskedInv /\ phase = "chains" /\ phase' = "done" /\ pins' = {}
      /\ skipped' = skipped \union requested
      /\ UNCHANGED <<requested, todo>> /\ UNCHANGED given
  BY DEF CancelInv, LeaveOut
<1>2. PhaseInv'
  BY <1>1, GivenFacts DEF PhaseInv, Phases
<1>3. AskedInv'
  BY <1>1, GivenFacts, MeantFacts DEF AskedInv, AllOrNone
<1>4. ApartInv'
  BY <1>1, GivenFacts, NothingPinned DEF ApartInv, PhaseInv
<1>5. BlockersInv'
  BY <1>1 DEF BlockersInv
<1> QED
  BY <1>2, <1>3, <1>4, <1>5 DEF CancelInv

\* Keeping what clashes with nothing keeps it.
LEMMA KeepInv ==
  ASSUME CancelInv, Keep
  PROVE  CancelInv'
<1>1. /\ PhaseInv /\ AskedInv /\ ApartInv /\ BlockersInv
      /\ phase = "chains" /\ phase' = "done" /\ todo = {}
      /\ dropped # {} => ~HostClash(pins)
      /\ skipped' = skipped \union dropped
      /\ UNCHANGED <<requested, pins, todo, dropped>> /\ UNCHANGED given
      /\ pg \in PGs /\ pins \subseteq Slots
  BY DEF CancelInv, PhaseInv, Keep, Listed
<1>2. HostsDistinct(NewUp(pins))
  BY <1>1, NoClashApart DEF ApartInv, Pinning
<1>3. PhaseInv'
  BY <1>1, GivenFacts DEF PhaseInv, Phases
<1>4. AskedInv'
  BY <1>1, GivenFacts, MeantFacts DEF AskedInv, AllOrNone
<1>5. ApartInv'
  BY <1>1, <1>2, GivenFacts DEF ApartInv
<1>6. BlockersInv'
  BY <1>1, GivenFacts DEF BlockersInv
<1> QED
  BY <1>3, <1>4, <1>5, <1>6 DEF CancelInv

\* Every step keeps the invariant.
LEMMA StepInv == CancelInv /\ [CancelNext]_cancelVars => CancelInv'
<1> SUFFICES ASSUME CancelInv, [CancelNext]_cancelVars PROVE CancelInv'
  OBVIOUS
<1>1. CASE Select
  BY <1>1, SelectInv
<1>2. CASE ClosePinned
  BY <1>2, ClosePinnedInv
<1>3. CASE Refuse
  BY <1>3, RefuseInv
<1>4. CASE \E b \in todo : PassBlocker(b) \/ PinBlocker(b) \/ SkipBlocker(b)
  BY <1>4, BlockerInv
<1>5. CASE EndBlockers \/ OrderMoves
  BY <1>5, OrderInv
<1>6. CASE DropHeads
  BY <1>6, DropHeadsInv
<1>7. CASE LeaveOut
  BY <1>7, LeaveOutInv
<1>8. CASE Keep
  BY <1>8, KeepInv
<1>9. CASE UNCHANGED cancelVars
  <2>1. UNCHANGED <<phase, requested, pins, todo, dropped, skipped>> /\ UNCHANGED given
    BY <1>9 DEF cancelVars, given
  <2>2. PhaseInv'
    BY <2>1, GivenFacts DEF CancelInv, PhaseInv
  <2>3. AskedInv'
    BY <2>1, GivenFacts DEF CancelInv, AskedInv, AllOrNone, Done
  <2>4. ApartInv'
    BY <2>1, GivenFacts DEF CancelInv, ApartInv, Pinning
  <2>5. BlockersInv'
    BY <2>1, GivenFacts DEF CancelInv, BlockersInv
  <2> QED
    BY <2>2, <2>3, <2>4, <2>5 DEF CancelInv
<1> QED
  BY <1>1, <1>2, <1>3, <1>4, <1>5, <1>6, <1>7, <1>8, <1>9 DEF CancelNext

\* It holds throughout a run.
LEMMA AlwaysCancelInv == CancelSpec => []CancelInv
<1> QED
  BY InitInv, StepInv, PTL DEF CancelSpec

\* The pins proposed never leave two shards of a PG on one host or OSD, however many
\* were dropped (close_pins, pin_replica, avoid_chains' host_clash).
THEOREM PinsStayApart == CancelSpec => []PinsKeepHostsApart
<1>1. CancelInv => PinsKeepHostsApart
  BY DEF CancelInv, ApartInv, PinsKeepHostsApart, Done
<1> QED
  BY <1>1, AlwaysCancelInv, PTL

\* With --osds, and of uphill shards, a PG's are pinned together or not at all.
THEOREM PinnedTogether == CancelSpec => []AllOrNone
<1>1. CancelInv => AllOrNone
  BY DEF CancelInv, AskedInv, AllOrNone, Done
<1> QED
  BY <1>1, AlwaysCancelInv, PTL

\* No shard the command was asked to pin, and no blocker of a pinned PG, goes
\* unmentioned (plan_cancellations, avoid_chains).
THEOREM EveryShardReported == CancelSpec => []Reported
<1>1. CancelInv => Reported
  BY DEF CancelInv, AskedInv, BlockersInv, Reported, Done
<1> QED
  BY <1>1, AlwaysCancelInv, PTL

-----------------------------------------------------------------------------
(* What is printed takes effect.                                            *)

\* Pins that are pairs: a slot's OSD is real, and another than where its data is.
PinsReal(P) ==
  /\ P \subseteq Slots
  /\ \A i \in P : up[i] \in Osd /\ Dest(i) \in Osd /\ up[i] # Dest(i)

\* The types of the PG.
LEMMA PgTypes ==
  ASSUME pg \in PGs
  PROVE  /\ up \in Seq(MaybeOsd) /\ acting \in [Slots -> MaybeOsd]
         /\ pg.raw \in Seq(MaybeOsd) /\ pg.pairs \in Seq(OsdPair) /\ pg.ec \in BOOLEAN
         /\ Slots = 1..Len(up) /\ Len(up) \in Nat
         /\ up \in [Slots -> MaybeOsd]
<1>1. PgTyped(pg)
  BY PGsTyped
<1>2. /\ up \in Seq(MaybeOsd) /\ acting \in [Slots -> MaybeOsd]
      /\ pg.raw \in Seq(MaybeOsd) /\ pg.pairs \in Seq(OsdPair) /\ pg.ec \in BOOLEAN
  BY <1>1 DEF PgTyped, up, acting, Slots, MaybeOsd, OsdPair
<1>3. Slots = 1..Len(up) /\ Len(up) \in Nat
  BY <1>2 DEF Slots
<1>4. up \in [Slots -> MaybeOsd]
  BY <1>2 DEF Slots
<1> QED
  BY <1>2, <1>3, <1>4

\* No two shards on one host means no two on one OSD.
LEMMA ApartMeansDistinct ==
  ASSUME NEW osds, HostsDistinct(osds)
  PROVE  OsdsDistinct(osds)
BY DEF HostsDistinct, OsdsDistinct, SamePlace, IsReal

\* A moving shard whose data has a known place is a pair.
LEMMA MovingIsReal ==
  ASSUME pg \in PGs, NEW i \in Moving, IsReal(Dest(i))
  PROVE  i \in Slots /\ up[i] \in Osd /\ Dest(i) \in Osd /\ up[i] # Dest(i)
<1>1. i \in Slots /\ up[i] # None /\ up[i] \in Osd
  BY PgTypes DEF Moving, IsReal, MaybeOsd
<1>2. CASE pg.ec
  BY <1>1, <1>2, PgTypes DEF Moving, Dest, MaybeOsd, IsReal
<1>3. CASE ~pg.ec
  <2> DEFINE match == {d \in Departures :
                         up[i] \in Arrivals /\ Rank(Departures, d) = Rank(Arrivals, up[i])}
  <2>1. match # {} /\ Dest(i) = CHOOSE d \in match : TRUE
    BY <1>3 DEF Dest, IsReal
  <2>2. Dest(i) \in match
    <3> HIDE DEF match
    <3> QED
      BY <2>1
  <2>3. Dest(i) \in RealOsds(acting) /\ Dest(i) \notin RealOsds(up)
    BY <2>2 DEF Departures
  <2>4. up[i] \in RealOsds(up)
    BY <1>1 DEF RealOsds, IsReal, ToSet, Slots
  <2>5. Dest(i) \in Osd
    BY <2>3, PgTypes DEF RealOsds, IsReal, ToSet, MaybeOsd
  <2> QED
    BY <1>1, <2>3, <2>4, <2>5
<1>4. pg.ec \in BOOLEAN
  BY PgTypes
<1> QED
  BY <1>2, <1>3, <1>4

\* Shards asked for, and blockers, may be pinned.
LEMMA RequestedIsReal ==
  ASSUME pg \in PGs, NEW P, P \subseteq Requested
  PROVE  PinsReal(P)
<1> SUFFICES ASSUME NEW i \in P
             PROVE  i \in Slots /\ up[i] \in Osd /\ Dest(i) \in Osd /\ up[i] # Dest(i)
  BY DEF PinsReal
<1>1. i \in Meant /\ i \notin Unclear
  BY DEF Requested
<1>2. i \in Moving
  BY <1>1 DEF Meant
<1>3. IsReal(Dest(i))
  BY <1>1, <1>2 DEF Meant, Unclear
<1> QED
  BY <1>2, <1>3, MovingIsReal

\* So may what Close adds to them.
LEMMA CloseIsReal ==
  ASSUME pg \in PGs, NEW P, PinsReal(P), Close(P) # {}
  PROVE  PinsReal(Close(P))
<1>1. CASE ~pg.ec
  <2>1. Close(P) = P
    BY <1>1 DEF Close
  <2> QED
    BY <2>1
<1>2. CASE pg.ec
  <2>1. PICK C : C = ClosePins(up, acting, P) /\ C = Close(P) /\ C # {}
    BY <1>2 DEF Close
  <2>2. C \in ValidPins(up, acting, P)
    BY <2>1, ClosePinsIsValid
  <2>3. C \subseteq Slots /\ \A i \in C : IsReal(acting[i]) /\ acting[i] # up[i]
    BY <2>2 DEF ValidPins, CanPin, Slots
  <2>4. \A i : Dest(i) = acting[i]
    BY <1>2 DEF Dest
  <2>5. \A i \in C : i \notin P => IsReal(up[i])
    BY <2>1, ClosePinsAreReal
  <2>6. ASSUME NEW i \in C
        PROVE  up[i] \in Osd /\ Dest(i) \in Osd /\ up[i] # Dest(i)
    <3>1. IsReal(up[i])
      BY <2>5, NoneIsNoOsd DEF PinsReal, IsReal
    <3>2. up[i] \in Osd /\ acting[i] \in Osd
      BY <2>3, <3>1, PgTypes DEF IsReal, MaybeOsd
    <3> QED
      BY <2>3, <2>4, <3>2
  <2>7. PinsReal(C)
    BY <2>3, <2>6 DEF PinsReal
  <2> QED
    BY <2>1, <2>7
<1>3. pg.ec \in BOOLEAN
  BY PgTypes
<1> QED
  BY <1>1, <1>2, <1>3

\* With no cycle among them, the pins are put in an order in which each, when its turn
\* comes, leads to where no later one starts.
Enumerates(s, T) ==
  /\ s \in Seq(T) /\ Len(s) = Cardinality(T)
  /\ \A i \in T : \E k \in DOMAIN s : s[k] = i
  /\ \A k, l \in DOMAIN s : s[k] = s[l] => k = l
  /\ \A k, l \in DOMAIN s : k < l => up[s[l]] # Dest(s[k])

LEMMA OrderIs ==
  ASSUME pg \in PGs, NEW P, PinsReal(P), ~Cyclic(P)
  PROVE  Enumerates(OrderOf(P), P)
<1>1. P \subseteq Slots /\ IsFiniteSet(P) /\ P \subseteq 1..Len(up) /\ Len(up) \in Nat
  <2>1. P \subseteq 1..Len(up) /\ Len(up) \in Nat
    BY PgTypes DEF PinsReal
  <2>2. IsFiniteSet(1..Len(up))
    BY <2>1, FS_Interval
  <2> QED
    BY <2>1, <2>2, PgTypes, FS_Subset
<1> DEFINE First(T) == Min(Unblocked(T))
<1>2. ASSUME NEW T \in (SUBSET P) \ {{}}
      PROVE  Unblocked(T) # {} /\ First(T) \in T /\ First(T) \in Unblocked(T)
  <2>1. Unblocked(T) # {} /\ Unblocked(T) \subseteq T
    BY DEF Cyclic, Unblocked
  <2>2. Unblocked(T) \in SUBSET (1..Len(up))
    BY <1>1, <2>1
  <2>3. Min(Unblocked(T)) \in Unblocked(T)
    BY <1>1, <2>1, <2>2, LeastOf
  <2> QED
    BY <2>1, <2>3
<1>3. PICK c : c = [T \in SUBSET P |-> First(T)]
  OBVIOUS
<1>4. Picks(c, P)
  <2> HIDE DEF First
  <2> QED
    BY <1>2, <1>3 DEF Picks
<1>5. PICK V, step : V = Seq(P) /\ step = [iv \in P \X V |-> <<iv[1]>> \o iv[2]]
  OBVIOUS
<1>6. step \in [P \X V -> V] /\ <<>> \in V
  BY <1>5
<1>7. PICK f \in [SUBSET P -> V] : Recurses(f, P, c, <<>>, step)
  BY <1>1, <1>4, <1>6, Recursion
<1>8. ASSUME NEW T \in (SUBSET P) \ {{}}
      PROVE  f[T] = <<First(T)>> \o f[T \ {First(T)}]
  <2>1. c[T] = First(T) /\ First(T) \in P
    BY <1>2, <1>3
  <2>2. f[T] = step[<<c[T], f[T \ {c[T]}]>>]
    BY <1>7 DEF Recurses
  <2>3. T \ {First(T)} \in SUBSET P
    OBVIOUS
  <2> HIDE DEF First
  <2>4. <<First(T), f[T \ {First(T)}]>> \in P \X V
    BY <1>7, <2>1, <2>3
  <2> QED
    BY <1>5, <2>1, <2>2, <2>4
<1> DEFINE Eq(g) == g = [R \in SUBSET P |->
                           IF Unblocked(R) = {} THEN <<>>
                           ELSE <<Min(Unblocked(R))>> \o g[R \ {Min(Unblocked(R))}]]
<1>9. Eq(f)
  <2> SUFFICES ASSUME NEW R \in SUBSET P
               PROVE  f[R] = IF Unblocked(R) = {} THEN <<>>
                             ELSE <<Min(Unblocked(R))>> \o f[R \ {Min(Unblocked(R))}]
    BY <1>7
  <2>1. CASE R = {}
    <3>1. Unblocked(R) = {}
      BY <2>1 DEF Unblocked
    <3> QED
      BY <1>7, <2>1, <3>1 DEF Recurses
  <2>2. CASE R # {}
    BY <1>2, <1>8, <2>2
  <2> QED
    BY <2>1, <2>2
<1>10. PICK g : Eq(g) /\ OrderOf(P) = g[P]
  <2> DEFINE chosen == CHOOSE g : Eq(g)
  <2>1. OrderOf(P) = chosen[P]
    BY Zenon DEF OrderOf
  <2>2. Eq(chosen)
    <3> HIDE DEF Eq
    <3> QED
      BY <1>9
  <2> HIDE DEF chosen
  <2> QED
    BY <2>1, <2>2
<1>11. /\ g[{}] = <<>>
       /\ \A T \in (SUBSET P) \ {{}} : g[T] = <<First(T)>> \o g[T \ {First(T)}]
  <2>1. Unblocked({}) = {}
    BY DEF Unblocked
  <2>2. \A T \in (SUBSET P) \ {{}} : Unblocked(T) # {}
    BY <1>2
  <2> QED
    BY <1>10, <2>1, <2>2
<1> HIDE DEF Eq, First
<1> DEFINE G == {T \in SUBSET P : Enumerates(g[T], T)}
<1>12. ASSUME NEW T \in SUBSET P, \A U \in (SUBSET T) \ {T} : U \in G
       PROVE  T \in G
  <2>1. CASE T = {}
    <3>1. g[T] = <<>> /\ Cardinality(T) = 0
      BY <1>11, <2>1, FS_EmptySet
    <3>2. Enumerates(g[T], T)
      BY <2>1, <3>1 DEF Enumerates
    <3> QED
      BY <3>2
  <2>2. CASE T # {}
    <3>1. PICK i, U, s : i = First(T) /\ U = T \ {i} /\ s = g[U]
      OBVIOUS
    <3>2. i \in T /\ i \in Unblocked(T) /\ T \subseteq P
      BY <1>2, <2>2, <3>1
    <3>3. U \in G
      BY <1>12, <3>1, <3>2
    <3>4. /\ s \in Seq(U) /\ Len(s) = Cardinality(U)
          /\ \A j \in U : \E k \in DOMAIN s : s[k] = j
          /\ \A k, l \in DOMAIN s : s[k] = s[l] => k = l
          /\ \A k, l \in DOMAIN s : k < l => up[s[l]] # Dest(s[k])
      <4>1. Enumerates(g[U], U)
        BY <3>3
      <4>2. Enumerates(s, U)
        BY <3>1, <4>1
      <4> QED
        BY <4>2 DEF Enumerates
    <3>5. PICK n \in Nat : n = Len(s) /\ DOMAIN s = 1..n /\ \A k \in 1..n : s[k] \in U
      BY <3>4
    <3>6. IsFiniteSet(T) /\ Cardinality(T) = n + 1
      <4>1. IsFiniteSet(T)
        BY <1>1, FS_Subset
      <4>2. Cardinality(U) = Cardinality(T) - 1 /\ Cardinality(T) \in Nat
        BY <3>1, <3>2, <4>1, FS_RemoveElement, FS_CardinalityType
      <4> QED
        BY <3>4, <3>5, <4>1, <4>2
    <3>7. PICK t : t = g[T] /\ t = <<i>> \o s
      BY <1>11, <2>2, <3>1
    <3>8. /\ t \in Seq(T) /\ Len(t) = n + 1 /\ DOMAIN t = 1..(n + 1) /\ t[1] = i
          /\ \A k \in 1..n : t[k + 1] = s[k]
      <4>1. s \in Seq(T) /\ <<i>> \in Seq(T)
        BY <3>1, <3>2, <3>4
      <4> QED
        BY <3>5, <3>7, <4>1
    <3>9. /\ 1 \in 1..(n + 1)
          /\ \A k \in 1..n : k + 1 \in 1..(n + 1) /\ k + 1 # 1 /\ k + 1 > 1
          /\ \A k \in 1..(n + 1) : k = 1 \/ \E l \in 1..n : k = l + 1
      <4>1. ASSUME NEW k \in 1..(n + 1), k # 1 PROVE \E l \in 1..n : k = l + 1
        <5>1. k - 1 \in 1..n /\ k = (k - 1) + 1
          BY <3>5, <4>1
        <5> QED
          BY <5>1
      <4> QED
        BY <3>5, <4>1
    <3>10. ASSUME NEW j \in T PROVE \E k \in DOMAIN t : t[k] = j
      <4>1. CASE j = i
        BY <3>8, <3>9, <4>1
      <4>2. CASE j # i
        <5>1. j \in U
          BY <3>1, <4>2
        <5>2. PICK k \in 1..n : s[k] = j
          BY <3>4, <3>5, <5>1
        <5> QED
          BY <3>8, <3>9, <5>2
      <4> QED
        BY <4>1, <4>2
    <3>11. ASSUME NEW k \in DOMAIN t, NEW l \in DOMAIN t, t[k] = t[l] PROVE k = l
      <4>1. CASE k = 1 /\ l = 1
        BY <4>1
      <4>9. ASSUME NEW x \in DOMAIN t, x # 1 PROVE t[x] # t[1]
        <5>1. PICK y \in 1..n : x = y + 1
          BY <3>8, <3>9, <4>9
        <5>2. t[x] = s[y] /\ s[y] \in U
          BY <3>5, <3>8, <5>1
        <5> QED
          BY <3>1, <3>8, <5>2
      <4>2. CASE k = 1 /\ l # 1
        BY <3>11, <4>2, <4>9
      <4>3. CASE k # 1 /\ l = 1
        BY <3>11, <4>3, <4>9
      <4>4. CASE k # 1 /\ l # 1
        <5>1. PICK x \in 1..n : k = x + 1
          BY <3>8, <3>9, <4>4
        <5>2. PICK y \in 1..n : l = y + 1
          BY <3>8, <3>9, <4>4
        <5> QED
          BY <3>4, <3>5, <3>8, <3>11, <5>1, <5>2
      <4> QED
        BY <4>1, <4>2, <4>3, <4>4
    <3>12. ASSUME NEW k \in DOMAIN t, NEW l \in DOMAIN t, k < l PROVE up[t[l]] # Dest(t[k])
      <4>1. PICK y \in 1..n : l = y + 1
        BY <3>5, <3>8, <3>9, <3>12
      <4>2. t[l] = s[y] /\ s[y] \in T \ {i}
        BY <3>1, <3>5, <3>8, <4>1
      <4>3. CASE k = 1
        <5>1. t[k] = i
          BY <3>8, <4>3
        <5> QED
          BY <3>2, <4>2, <5>1 DEF Unblocked
      <4>4. CASE k # 1
        <5>1. PICK x \in 1..n : k = x + 1
          BY <3>8, <3>9, <4>4
        <5>2. t[k] = s[x] /\ x < y
          BY <3>5, <3>8, <3>12, <4>1, <5>1
        <5> QED
          BY <3>4, <3>5, <4>2, <5>2
      <4> QED
        BY <4>3, <4>4
    <3>13. Enumerates(t, T)
      BY <3>6, <3>8, <3>10, <3>11, <3>12 DEF Enumerates
    <3> QED
      BY <3>7, <3>13
  <2> QED
    BY <2>1, <2>2
<1>13. \A T \in SUBSET P : T \in G
  <2> HIDE DEF G
  <2> QED
    BY <1>1, <1>12, SubsetInduction
<1> QED
  BY <1>10, <1>13

\* The pairs printed are one for each pin, in such an order.
LEMMA PairsAre ==
  ASSUME pg \in PGs, NEW P, PinsReal(P), ~Cyclic(P)
  PROVE  /\ PairsFor(Pairs(P), up, NewUp(P))
         /\ DOMAIN Pairs(P) = 1..Cardinality(P)
         /\ \A k \in DOMAIN Pairs(P) : OrderOf(P)[k] \in P
         /\ \A k, l \in DOMAIN Pairs(P) : k < l => Pairs(P)[l][1] # Pairs(P)[k][2]
<1>1. PICK o, n, ns, new : o = OrderOf(P) /\ n = Cardinality(P) /\ ns = Pairs(P) /\ new = NewUp(P)
  OBVIOUS
<1>2. Enumerates(o, P)
  BY <1>1, OrderIs
<1>3. /\ n \in Nat /\ DOMAIN o = 1..n
      /\ \A k \in 1..n : o[k] \in P
      /\ \A i \in P : \E k \in 1..n : o[k] = i
      /\ \A k, l \in 1..n : o[k] = o[l] => k = l
      /\ \A k, l \in 1..n : k < l => up[o[l]] # Dest(o[k])
  <2>1. o \in Seq(P) /\ Len(o) = n
    BY <1>1, <1>2 DEF Enumerates
  <2>2. n \in Nat /\ DOMAIN o = 1..n
    BY <2>1
  <2> QED
    BY <1>2, <2>1, <2>2 DEF Enumerates
<1>4. /\ DOMAIN ns = 1..n
      /\ \A k \in 1..n : ns[k][1] = up[o[k]] /\ ns[k][2] = Dest(o[k])
      /\ \A k \in 1..n : ns[k] = <<up[o[k]], Dest(o[k])>>
  BY <1>1 DEF Pairs, Pair
<1>5. P \subseteq Slots /\ \A i \in P : up[i] \in Osd /\ Dest(i) \in Osd /\ up[i] # Dest(i)
  BY DEF PinsReal
<1>6. /\ DOMAIN up = Slots
      /\ \A i \in P : new[i] = Dest(i)
      /\ \A i \in Slots \ P : new[i] = up[i]
  BY <1>1, <1>5 DEF NewUp, Slots
<1>7. \A i, j \in Slots : up[i] = up[j] /\ up[i] \in Osd => i = j
  BY PgFacts, ApartMeansDistinct DEF OsdsDistinct, IsReal, Slots
<1>8. ns \in Seq(OsdPair)
  <2>1. ASSUME NEW k \in 1..n PROVE ns[k] \in OsdPair
    <3>1. up[o[k]] \in Osd /\ Dest(o[k]) \in Osd
      BY <1>3, <1>5
    <3>2. ns[k] = <<up[o[k]], Dest(o[k])>>
      BY <1>4
    <3> QED
      BY <3>1, <3>2 DEF OsdPair
  <2>2. ns = [k \in 1..n |-> ns[k]]
    BY <1>1, <1>4 DEF Pairs
  <2>3. ns \in [1..n -> OsdPair]
    BY <2>1, <2>2
  <2> QED
    BY <1>3, <2>3
<1>9. ASSUME NEW k \in 1..n, NEW l \in 1..n, ns[k][1] = ns[l][1] PROVE k = l
  <2>1. up[o[k]] = up[o[l]] /\ up[o[k]] \in Osd /\ o[k] \in Slots /\ o[l] \in Slots
    BY <1>3, <1>4, <1>5, <1>9
  <2>2. o[k] = o[l]
    BY <1>7, <2>1
  <2> QED
    BY <1>3, <2>2
<1>10. ASSUME NEW m \in 1..n
       PROVE  \E j \in DOMAIN up : ns[m][1] = up[j] /\ ns[m][2] = new[j] /\ up[j] # new[j]
  <2>1. o[m] \in P /\ o[m] \in DOMAIN up
    BY <1>3, <1>5, <1>6
  <2> QED
    BY <1>4, <1>5, <1>6, <2>1
<1>11. ASSUME NEW j \in DOMAIN up, up[j] # new[j]
       PROVE  \E m \in 1..n : ns[m][1] = up[j] /\ ns[m][2] = new[j]
  <2>1. j \in P
    BY <1>6, <1>11
  <2>2. PICK m \in 1..n : o[m] = j
    BY <1>3, <2>1
  <2> QED
    BY <1>4, <1>6, <2>1, <2>2
<1>12. PairsFor(ns, up, new)
  BY <1>4, <1>8, <1>9, <1>10, <1>11 DEF PairsFor, Once
<1>13. ASSUME NEW k \in 1..n, NEW l \in 1..n, k < l PROVE ns[l][1] # ns[k][2]
  BY <1>3, <1>4, <1>13
<1> QED
  BY <1>1, <1>3, <1>4, <1>12, <1>13

\* What Ceph guarantees of the PG.
LEMMA PgIsConsistent ==
  ASSUME pg \in PGs
  PROVE  /\ up = CephUp(pg.raw, pg.pairs) /\ OsdsDistinct(up)
         /\ DOMAIN pg.raw = Slots /\ pg.raw \in [DOMAIN pg.raw -> MaybeOsd]
         /\ ~Chained(pg.pairs) => Plain(pg.raw, pg.pairs)
<1>1. CephConsistent(pg.raw, pg.pairs, pg.up, pg.acting)
  BY PGsConsistent
<1>2. up = CephUp(pg.raw, pg.pairs) /\ OsdsDistinct(pg.raw) /\ HostsDistinct(up)
  BY <1>1 DEF CephConsistent, up
<1>3. OsdsDistinct(up)
  BY <1>2, ApartMeansDistinct
<1>4. /\ pg.raw \in Seq(MaybeOsd) /\ pg.pairs \in Seq(OsdPair)
      /\ pg.raw \in [DOMAIN pg.raw -> MaybeOsd]
  BY PgTypes
<1>5. up \in [DOMAIN pg.raw -> MaybeOsd]
  BY <1>2, <1>4, CephUpType DEF OsdPair
<1>6. DOMAIN pg.raw = Slots
  BY <1>5 DEF Slots
<1>7. ASSUME ~Chained(pg.pairs) PROVE Plain(pg.raw, pg.pairs)
  BY <1>1, <1>2, <1>4, <1>7 DEF CephConsistent, Plain, Once
<1> QED
  BY <1>2, <1>3, <1>4, <1>6, <1>7

\* The types of the up set with pins.
LEMMA NewUpType ==
  ASSUME pg \in PGs, NEW P, PinsReal(P)
  PROVE  NewUp(P) \in [Slots -> MaybeOsd]
BY PgTypes DEF PinsReal, NewUp, MaybeOsd

\* The pairs alone make the up set that is planned of the one there is.
LEMMA PinsApply ==
  ASSUME pg \in PGs, NEW P, PinsReal(P), ~Cyclic(P), HostsDistinct(NewUp(P))
  PROVE  Pairs(P) \in Seq(OsdPair) /\ CephUp(up, Pairs(P)) = NewUp(P)
<1>1. PICK ns, new : ns = Pairs(P) /\ new = NewUp(P)
  OBVIOUS
<1>2. PairsFor(ns, up, new) /\ \A k, l \in DOMAIN ns : k < l => ns[l][1] # ns[k][2]
  BY <1>1, PairsAre
<1>3. /\ up \in Seq(MaybeOsd) /\ OsdsDistinct(up) /\ DOMAIN up = Slots
      /\ new \in [DOMAIN up -> MaybeOsd] /\ OsdsDistinct(new)
  BY <1>1, PgTypes, PgIsConsistent, NewUpType, ApartMeansDistinct DEF Slots
<1>4. CephUp(up, ns) = new
  BY <1>2, <1>3, OrderedPairsApply
<1>5. ns \in Seq(OsdPair)
  BY <1>2 DEF PairsFor
<1> QED
  BY <1>1, <1>4, <1>5

\* So they do after the entry there is, with its stale pairs or without.
LEMMA FullEntryApplies ==
  ASSUME pg \in PGs, NEW P, P = pins \union dropped,
         PinsReal(P), ~Cyclic(P), HostsDistinct(NewUp(P))
  PROVE  CephUp(pg.raw, FullEntry) = NewUp(P)
<1>1. Pairs(P) \in Seq(Osd \X Osd) /\ CephUp(up, Pairs(P)) = NewUp(P)
  BY PinsApply DEF OsdPair
<1>2. /\ up = CephUp(pg.raw, pg.pairs) /\ OsdsDistinct(up)
      /\ pg.raw \in [DOMAIN pg.raw -> MaybeOsd]
      /\ ~Chained(pg.pairs) => Plain(pg.raw, pg.pairs)
  BY PgIsConsistent
<1>3. PICK first : first = IF Chained(pg.pairs) THEN pg.pairs ELSE Existing
  OBVIOUS
<1>4. first \in Seq(Osd \X Osd) /\ CephUp(pg.raw, first) = up
  <2>1. CASE Chained(pg.pairs)
    BY <1>2, <1>3, <2>1, PgTypes DEF OsdPair
  <2>2. CASE ~Chained(pg.pairs)
    <3>1. first = Live(pg.pairs, up) /\ Plain(pg.raw, pg.pairs)
      BY <1>2, <1>3, <2>2 DEF Existing
    <3>2. first \in Seq(OsdPair)
      BY <1>2, <3>1, LiveIs
    <3>3. CephUp(pg.raw, first) = up
      BY <1>2, <3>1, LiveApplies
    <3> QED
      BY <3>2, <3>3 DEF OsdPair
  <2> QED
    BY <2>1, <2>2
<1>5. CephUp(pg.raw, first \o Pairs(P)) = CephUp(CephUp(pg.raw, first), Pairs(P))
  BY <1>1, <1>2, <1>4, CephUpJoins
<1>6. FullEntry = first \o Pairs(P)
  BY <1>3 DEF FullEntry
<1> QED
  BY <1>1, <1>4, <1>5, <1>6

\* Pins without a head do not chain with the entry, in whatever order they are put.
LEMMA NoHeadNoChain ==
  ASSUME pg \in PGs, ~Chained(pg.pairs), NEW P, PinsReal(P), ~Cyclic(P), Heads(P) = {},
         NEW ns, PairsFor(ns, up, NewUp(P))
  PROVE  ~WouldChain(pg.pairs, up, ns)
<1>1. PICK os, new : os = Pairs(P) /\ new = NewUp(P)
  OBVIOUS
<1>2. /\ PairsFor(os, up, new) /\ DOMAIN os = 1..Cardinality(P)
      /\ \A k \in DOMAIN os : OrderOf(P)[k] \in P
  BY <1>1, PairsAre
<1>3. up = CephUp(pg.raw, pg.pairs) /\ OsdsDistinct(up) /\ Plain(pg.raw, pg.pairs)
  BY PgIsConsistent
<1>4. ASSUME WouldChain(pg.pairs, up, os) PROVE FALSE
  <2>1. PICK f : f = FoldPairs(Live(pg.pairs, up), os) /\ f = Folded(P)
    BY <1>1 DEF Folded, Existing
  <2>2. os \in Seq(OsdPair) /\ Once(os, 1)
    BY <1>2 DEF PairsFor
  <2>3. PICK m \in DOMAIN os : /\ f.effective[m] \in ToSet(f.rest \o f.effective)
                               /\ f.effective[m][1] # f.effective[m][2]
                               /\ \E q \in ToSet(f.rest \o f.effective) :
                                    q[1] # q[2] /\ q[1] = f.effective[m][2]
    <3>1. PICK raw, e, u : raw = pg.raw /\ e = pg.pairs /\ u = up
      OBVIOUS
    <3>2. Plain(raw, e) /\ u = CephUp(raw, e) /\ OsdsDistinct(u)
          /\ WouldChain(e, u, os) /\ f = FoldPairs(Live(e, u), os)
      BY <1>3, <1>4, <2>1, <3>1
    <3> QED
      BY <2>2, <3>2, ChainHasHead
  <2>4. /\ f.effective[m] \in RealPairs(P)
        /\ \E q \in RealPairs(P) : q[1] = f.effective[m][2]
    BY <2>1, <2>3 DEF RealPairs
  <2>5. OrderOf(P)[m] \in Heads(P)
    BY <1>2, <2>1, <2>4 DEF Heads
  <2> QED
    BY <2>5
<1>5. ASSUME WouldChain(pg.pairs, up, ns) PROVE FALSE
  <2>1. PairsFor(ns, up, new)
    BY <1>1
  <2>2. WouldChain(pg.pairs, up, os)
    BY <1>2, <1>3, <1>5, <2>1, ChainsAlike
  <2> QED
    BY <1>4, <2>2
<1> QED
  BY <1>5

\* Some of the pins are pairs too, and have no cycle, if all of them are and have none.
LEMMA FewerPins ==
  ASSUME NEW P, NEW R, R \subseteq P, PinsReal(P), ~Cyclic(P)
  PROVE  PinsReal(R) /\ ~Cyclic(R)
BY DEF PinsReal, Cyclic

-----------------------------------------------------------------------------
\* The pins, those that were dropped included, are pairs that can be ordered and keep the
\* hosts apart; what is kept of them does not chain with the PG's entry, in any order;
\* and an entry that is printed makes the up set with all of them.
MeantPins == pins \union dropped

PairsInv ==
  /\ \A b \in todo : b \in Moving /\ IsReal(Dest(b))
  /\ phase \in {"block", "order", "chains"} =>
       PinsReal(MeantPins) /\ HostsDistinct(NewUp(MeantPins))
  /\ phase = "chains" => ~Cyclic(MeantPins)

KeptInv ==
  phase = "done" /\ pins # {} =>
    /\ PinsReal(pins) /\ ~Cyclic(pins) /\ ~Chained(pg.pairs)
    /\ \A ns : PairsFor(ns, up, NewUp(pins)) => ~WouldChain(pg.pairs, up, ns)

EntryInv ==
  /\ phase # "done" => entry = <<>>
  /\ entry # <<>> => CephUp(pg.raw, entry) = NewUp(MeantPins)

EffectInv == PairsInv /\ KeptInv /\ EntryInv

\* No step changes what these say of the PG.
LEMMA GivenPairs ==
  ASSUME UNCHANGED given
  PROVE  /\ pg' = pg /\ up' = up /\ Moving' = Moving
         /\ \A i : Dest(i)' = Dest(i)
         /\ PinsReal(MeantPins)' <=> PinsReal(MeantPins')
         /\ PinsReal(pins)' <=> PinsReal(pins')
         /\ Cyclic(MeantPins)' <=> Cyclic(MeantPins')
         /\ Cyclic(pins)' <=> Cyclic(pins')
         /\ NewUp(MeantPins)' = NewUp(MeantPins')
         /\ NewUp(pins)' = NewUp(pins')
<1>1. pg' = pg /\ command' = command
  BY DEF given
<1>2. up' = up /\ Slots' = Slots
  BY <1>1 DEF Slots, up
<1>3. Moving' = Moving
  BY <1>1 DEF Moving, Slots, up, acting, Arrivals
<1>4. \A i : Dest(i)' = Dest(i)
  BY <1>1 DEF Dest, Rank, up, acting, Arrivals, Departures
<1>5. /\ PinsReal(MeantPins)' <=> PinsReal(MeantPins')
      /\ PinsReal(pins)' <=> PinsReal(pins')
  BY <1>2, <1>4 DEF PinsReal
<1>6. /\ NewUp(MeantPins)' = NewUp(MeantPins')
      /\ NewUp(pins)' = NewUp(pins')
  BY <1>2, <1>4 DEF NewUp
<1>7. \A R : Unblocked(R)' = Unblocked(R)
  BY <1>2, <1>4 DEF Unblocked
<1>8. /\ Cyclic(MeantPins)' <=> Cyclic(MeantPins')
      /\ Cyclic(pins)' <=> Cyclic(pins')
  BY <1>7 DEF Cyclic
<1> QED
  BY <1>1, <1>2, <1>3, <1>4, <1>5, <1>6, <1>8

LEMMA InitEffect == CancelInit => EffectInv
BY DEF CancelInit, EffectInv, PairsInv, KeptInv, EntryInv

\* Selecting and refusing pin and print nothing.
LEMMA NothingEffect ==
  ASSUME CancelInv, EffectInv, Select \/ Refuse
  PROVE  EffectInv'
<1>1. /\ UNCHANGED <<todo, dropped, entry>> /\ UNCHANGED given
      /\ pins' = {} /\ phase # "done" /\ phase' \in {"close", "done"}
  BY DEF Select, Refuse, CancelInv, PhaseInv
<1>2. PairsInv'
  BY <1>1, GivenPairs DEF EffectInv, PairsInv
<1>3. KeptInv'
  BY <1>1 DEF KeptInv
<1>4. EntryInv'
  BY <1>1 DEF EffectInv, EntryInv
<1> QED
  BY <1>2, <1>3, <1>4 DEF EffectInv

\* What is asked for, with companions, are pairs.
LEMMA ClosePinnedEffect ==
  ASSUME CancelInv, EffectInv, ClosePinned
  PROVE  EffectInv'
<1>1. /\ pg \in PGs /\ requested = Requested /\ requested \subseteq Slots
      /\ phase = "close" /\ phase' = "block" /\ dropped' = {} /\ entry' = <<>>
      /\ Close(requested) # {} /\ pins' = Close(requested)
      /\ \A b \in todo' : Blocking(b)
      /\ UNCHANGED given
  BY DEF ClosePinned, CancelInv, PhaseInv, AskedInv, EffectInv, EntryInv
<1>2. PinsReal(pins') /\ HostsDistinct(NewUp(pins'))
  <2>1. PinsReal(requested)
    BY <1>1, RequestedIsReal
  <2> QED
    BY <1>1, <2>1, CloseIsReal, CloseFacts
<1>3. MeantPins' = pins'
  BY <1>1 DEF MeantPins
<1>4. PairsInv'
  BY <1>1, <1>2, <1>3, GivenPairs DEF PairsInv, Blocking
<1>5. KeptInv' /\ EntryInv'
  BY <1>1 DEF KeptInv, EntryInv
<1> QED
  BY <1>4, <1>5 DEF EffectInv

\* So are the blockers that are pinned along with theirs.
LEMMA BlockerEffect ==
  ASSUME CancelInv, EffectInv,
         NEW b \in todo, PassBlocker(b) \/ PinBlocker(b) \/ SkipBlocker(b)
  PROVE  EffectInv'
<1>1. /\ pg \in PGs /\ pins \subseteq Slots /\ b \in Slots
      /\ phase = "block" /\ phase' = "block" /\ dropped = {} /\ dropped' = {}
      /\ entry' = <<>> /\ todo' = todo \ {b}
      /\ UNCHANGED given
  BY DEF PassBlocker, PinBlocker, SkipBlocker, LookAt, CancelInv, PhaseInv, EffectInv, EntryInv
<1>2. MeantPins = pins /\ MeantPins' = pins'
  BY <1>1 DEF MeantPins
<1>3. PinsReal(pins) /\ HostsDistinct(NewUp(pins)) /\ b \in Moving /\ IsReal(Dest(b))
  BY <1>1, <1>2 DEF EffectInv, PairsInv
<1>4. PinsReal(pins') /\ HostsDistinct(NewUp(pins'))
  <2>1. CASE pins' = pins
    BY <1>3, <2>1
  <2>2. CASE PinBlocker(b)
    <3>1. Close(pins \union {b}) # {} /\ pins' = Close(pins \union {b})
      BY <2>2 DEF PinBlocker, Trial
    <3>2. PinsReal(pins \union {b})
      BY <1>1, <1>3, MovingIsReal DEF PinsReal
    <3>3. PinsReal(pins')
      BY <1>1, <3>1, <3>2, CloseIsReal
    <3>4. HostsDistinct(NewUp(pins'))
      BY <1>1, <3>1, CloseFacts
    <3> QED
      BY <3>3, <3>4
  <2> QED
    BY <2>1, <2>2 DEF PassBlocker, SkipBlocker
<1>5. PairsInv'
  BY <1>1, <1>2, <1>4, GivenPairs DEF EffectInv, PairsInv
<1>6. KeptInv' /\ EntryInv'
  BY <1>1 DEF KeptInv, EntryInv
<1> QED
  BY <1>5, <1>6 DEF EffectInv

\* Going on, and dropping heads, leaves what was meant.
LEMMA GoOnEffect ==
  ASSUME CancelInv, EffectInv, EndBlockers \/ OrderMoves \/ DropHeads
  PROVE  EffectInv'
<1>1. /\ UNCHANGED <<todo, entry>> /\ UNCHANGED given
      /\ phase \in {"block", "order", "chains"} /\ phase' \in {"order", "chains"}
      /\ phase' = "chains" => phase = "chains" \/ (phase = "order" /\ ~Cyclic(pins) /\ dropped = {})
      /\ pins' \union dropped' = pins \union dropped
  <2>1. Heads(pins) \subseteq pins
    BY DEF Heads
  <2> QED
    BY <2>1 DEF EndBlockers, OrderMoves, DropHeads, CancelInv, PhaseInv
<1>2. MeantPins' = MeantPins /\ (dropped = {} => MeantPins = pins)
  BY <1>1 DEF MeantPins
<1>3. PairsInv'
  BY <1>1, <1>2, GivenPairs DEF EffectInv, PairsInv
<1>4. KeptInv' /\ EntryInv'
  BY <1>1 DEF EffectInv, KeptInv, EntryInv
<1> QED
  BY <1>3, <1>4 DEF EffectInv

\* A PG that is left out gets an entry that makes the whole up set.
LEMMA LeaveOutEffect ==
  ASSUME CancelInv, EffectInv, LeaveOut
  PROVE  EffectInv'
<1>1. /\ pg \in PGs /\ phase = "chains" /\ phase' = "done"
      /\ pins' = {} /\ dropped' = dropped \union pins /\ entry' = FullEntry
      /\ UNCHANGED todo /\ UNCHANGED given
  BY DEF LeaveOut, CancelInv, PhaseInv
<1>2. MeantPins' = MeantPins
  BY <1>1 DEF MeantPins
<1>3. CephUp(pg.raw, FullEntry) = NewUp(MeantPins)
  BY <1>1, FullEntryApplies DEF EffectInv, PairsInv, MeantPins
<1>4. PairsInv'
  BY <1>1, GivenPairs DEF EffectInv, PairsInv
<1>5. KeptInv'
  BY <1>1 DEF KeptInv
<1>6. EntryInv'
  BY <1>1, <1>2, <1>3, GivenPairs DEF EntryInv
<1> QED
  BY <1>4, <1>5, <1>6 DEF EffectInv

\* What is kept has no head, so it does not chain.
LEMMA KeepEffect ==
  ASSUME CancelInv, EffectInv, Keep
  PROVE  EffectInv'
<1>1. /\ pg \in PGs /\ phase = "chains" /\ phase' = "done"
      /\ ~Chained(pg.pairs) /\ Heads(pins) = {}
      /\ UNCHANGED <<pins, todo, dropped>> /\ UNCHANGED given
      /\ entry' = <<>> \/ entry' = FullEntry
  BY DEF Keep, CancelInv, PhaseInv
<1>2. MeantPins' = MeantPins /\ pins \subseteq MeantPins
  BY <1>1 DEF MeantPins
<1>3. PinsReal(MeantPins) /\ ~Cyclic(MeantPins) /\ HostsDistinct(NewUp(MeantPins))
  BY <1>1 DEF EffectInv, PairsInv
<1>4. PinsReal(pins) /\ ~Cyclic(pins)
  BY <1>2, <1>3, FewerPins
<1>5. \A ns : PairsFor(ns, up, NewUp(pins)) => ~WouldChain(pg.pairs, up, ns)
  BY <1>1, <1>4, NoHeadNoChain
<1>6. CephUp(pg.raw, FullEntry) = NewUp(MeantPins)
  BY <1>1, <1>3, FullEntryApplies DEF MeantPins
<1>7. PairsInv'
  BY <1>1, GivenPairs DEF EffectInv, PairsInv
<1>8. KeptInv'
  BY <1>1, <1>4, <1>5, GivenPairs DEF KeptInv
<1>9. EntryInv'
  BY <1>1, <1>2, <1>6, GivenPairs DEF EntryInv
<1> QED
  BY <1>7, <1>8, <1>9 DEF EffectInv

LEMMA StepEffect == CancelInv /\ EffectInv /\ [CancelNext]_cancelVars => EffectInv'
<1> SUFFICES ASSUME CancelInv, EffectInv, [CancelNext]_cancelVars PROVE EffectInv'
  OBVIOUS
<1>1. CASE Select \/ Refuse
  BY <1>1, NothingEffect
<1>2. CASE ClosePinned
  BY <1>2, ClosePinnedEffect
<1>3. CASE \E b \in todo : PassBlocker(b) \/ PinBlocker(b) \/ SkipBlocker(b)
  BY <1>3, BlockerEffect
<1>4. CASE EndBlockers \/ OrderMoves \/ DropHeads
  BY <1>4, GoOnEffect
<1>5. CASE LeaveOut
  BY <1>5, LeaveOutEffect
<1>6. CASE Keep
  BY <1>6, KeepEffect
<1>7. CASE UNCHANGED cancelVars
  <2>1. UNCHANGED <<phase, pins, todo, dropped, entry>> /\ UNCHANGED given
    BY <1>7 DEF cancelVars, given
  <2>2. MeantPins' = MeantPins
    BY <2>1 DEF MeantPins
  <2>3. PairsInv'
    BY <2>1, <2>2, GivenPairs DEF EffectInv, PairsInv
  <2>4. KeptInv'
    BY <2>1, <2>2, GivenPairs DEF EffectInv, KeptInv
  <2>5. EntryInv'
    BY <2>1, <2>2, GivenPairs DEF EffectInv, EntryInv
  <2> QED
    BY <2>3, <2>4, <2>5 DEF EffectInv
<1> QED
  BY <1>1, <1>2, <1>3, <1>4, <1>5, <1>6, <1>7 DEF CancelNext

\* What is printed for a PG takes effect once imported, whatever pairs it has and whatever
\* was dropped (avoid_chains, order_moves).
THEOREM PinsTakeEffect == CancelSpec => []CancelsTakeEffect
<1>1. ASSUME CancelInv, EffectInv, phase = "done", pins # {}
      PROVE  Imports(pins) = NewUp(pins)
  <2>1. /\ pg \in PGs /\ PinsReal(pins) /\ ~Cyclic(pins) /\ ~Chained(pg.pairs)
        /\ HostsDistinct(NewUp(pins))
        /\ \A ns : PairsFor(ns, up, NewUp(pins)) => ~WouldChain(pg.pairs, up, ns)
    BY <1>1 DEF CancelInv, PhaseInv, ApartInv, EffectInv, KeptInv
  <2>2. PICK raw, e, u, new, ns : /\ raw = pg.raw /\ e = pg.pairs /\ u = up
                                  /\ new = NewUp(pins) /\ ns = Pairs(pins)
    OBVIOUS
  <2>3. Plain(raw, e) /\ u = CephUp(raw, e) /\ OsdsDistinct(u)
    BY <2>1, <2>2, PgIsConsistent
  <2>4. new \in [DOMAIN raw -> MaybeOsd] /\ OsdsDistinct(new)
    BY <2>1, <2>2, PgIsConsistent, NewUpType, ApartMeansDistinct
  <2>5. PairsFor(ns, u, new)
    BY <2>1, <2>2, PairsAre
  <2>6. ~WouldChain(e, u, ns)
    BY <2>1, <2>2, <2>5
  <2>7. CephUp(raw, Imported(e, u, ns)) = new
    BY <2>3, <2>4, <2>5, <2>6, ImportedApplies
  <2> QED
    BY <2>2, <2>7 DEF Imports
<1>2. CancelInv /\ EffectInv => CancelsTakeEffect
  BY <1>1 DEF CancelsTakeEffect, Done, EffectInv, EntryInv, MeantPins
<1>3. CancelSpec => []EffectInv
  BY InitEffect, StepEffect, AlwaysCancelInv, PTL DEF CancelSpec
<1> QED
  BY <1>2, <1>3, AlwaysCancelInv, PTL

-----------------------------------------------------------------------------
(* Blockers one at a time.                                                  *)

\* Two sets of pins neither of which clashes with what it leaves do not clash together
\* either; and no cycle is in both that is in none.
LEMMA PinsTogether ==
  ASSUME pg.ec, NEW P, NEW Q, NEW A, NEW B,
         P \in ValidPins(up, acting, A), Q \in ValidPins(up, acting, B)
  PROVE  /\ P \union Q \in ValidPins(up, acting, A \union B)
         /\ ~Cyclic(P) /\ ~Cyclic(Q) => ~Cyclic(P \union Q)
<1>1. /\ P \subseteq DOMAIN up /\ A \subseteq P /\ ClashingWith(up, acting, P) = {}
      /\ Q \subseteq DOMAIN up /\ B \subseteq Q /\ ClashingWith(up, acting, Q) = {}
      /\ \A i \in P \union Q : CanPin(up, acting, i)
  BY DEF ValidPins
<1>2. ClashingWith(up, acting, P \union Q) = {}
  BY <1>1 DEF ClashingWith
<1>3. P \union Q \in ValidPins(up, acting, A \union B)
  BY <1>1, <1>2 DEF ValidPins
<1>4. \A i : Dest(i) = acting[i]
  BY DEF Dest
\* What blocks a pin of a set that does not clash is in the set.
<1>5. \A C \in {P, Q} : \A i \in C : \A j \in DOMAIN up : up[j] = Dest(i) => j \in C
  <2> SUFFICES ASSUME NEW C \in {P, Q}, NEW i \in C, NEW j \in DOMAIN up,
                      up[j] = Dest(i), j \notin C
               PROVE  FALSE
    OBVIOUS
  <2>1. IsReal(acting[i]) /\ up[j] = acting[i]
    BY <1>1, <1>4 DEF CanPin
  <2>2. j \in ClashingWith(up, acting, C)
    BY <2>1 DEF ClashingWith, SamePlace
  <2> QED
    BY <1>1, <2>2
<1>6. ASSUME NEW R \in SUBSET (P \union Q), R # {}, Unblocked(R) = {},
             NEW C \in {P, Q}, R \intersect C # {}
      PROVE  Cyclic(C)
  <2>1. ASSUME NEW i \in R \intersect C PROVE i \notin Unblocked(R \intersect C)
    <3>1. PICK j \in R \ {i} : up[j] = Dest(i)
      BY <1>6 DEF Unblocked
    <3>2. j \in C
      BY <1>1, <1>5, <3>1
    <3> QED
      BY <3>1, <3>2 DEF Unblocked
  <2>2. Unblocked(R \intersect C) = {}
    BY <2>1 DEF Unblocked
  <2>3. R \intersect C \in (SUBSET C) \ {{}}
    BY <1>6
  <2> QED
    BY <2>2, <2>3 DEF Cyclic
<1>7. ASSUME ~Cyclic(P), ~Cyclic(Q), Cyclic(P \union Q) PROVE FALSE
  <2>1. PICK R \in SUBSET (P \union Q) : R # {} /\ Unblocked(R) = {}
    BY <1>7 DEF Cyclic
  <2>2. R \intersect P # {} \/ R \intersect Q # {}
    BY <2>1
  <2> QED
    BY <1>6, <1>7, <2>1, <2>2
<1> QED
  BY <1>3, <1>7

\* The pins so far are valid, and if they have a cycle it is in those that what was asked
\* for takes; and a blocker that was skipped is in no pins without one.
BlockerPins ==
  /\ pg.ec => /\ pins \in ValidPins(up, acting, requested)
              /\ Cyclic(pins) => pins = ClosePins(up, acting, requested)
  /\ ~pg.ec => todo = {}

SkipInv ==
  /\ phase = "close" => skipped = Unclear
  /\ phase = "block" \/ phase = "order" => BlockerPins
  /\ SkippedBlockersAreHopeless

\* Valid pins have all that close_pins pins for the same request, and so its cycles.
LEMMA CloseIsLeast ==
  ASSUME NEW A, NEW P \in ValidPins(up, acting, A)
  PROVE  /\ ClosePins(up, acting, A) \subseteq P
         /\ Cyclic(ClosePins(up, acting, A)) => Cyclic(P)
<1>1. ClosePins(up, acting, A) \subseteq P
  BY DEF ClosePins
<1>2. \A C : C \subseteq P /\ Cyclic(C) => Cyclic(P)
  BY DEF Cyclic
<1> QED
  BY <1>1, <1>2

\* A blocker that cannot be pinned along with the pins so far cannot be with what was
\* asked for.
LEMMA SkippedIsHopeless ==
  ASSUME pg.ec, BlockerPins, NEW b, Trial(b) = {},
         NEW P \in ValidPins(up, acting, requested \union {b})
  PROVE  Cyclic(P)
<1> SUFFICES ASSUME ~Cyclic(P) PROVE FALSE
  OBVIOUS
<1>1. pins \in ValidPins(up, acting, requested)
  BY DEF BlockerPins
<1>2. P \in ValidPins(up, acting, requested)
  BY DEF ValidPins
<1>3. ~Cyclic(pins)
  BY <1>2, CloseIsLeast DEF BlockerPins
<1>4. PICK Q : Q = pins \union P
  OBVIOUS
<1>5. ~Cyclic(Q) /\ Q \in ValidPins(up, acting, requested \union (requested \union {b}))
  BY <1>1, <1>3, <1>4, PinsTogether
<1>6. Q \in ValidPins(up, acting, pins \union {b})
  <2>1. b \in P
    BY DEF ValidPins
  <2> QED
    BY <1>4, <1>5, <2>1 DEF ValidPins
<1>7. PICK C : C = ClosePins(up, acting, pins \union {b})
  OBVIOUS
<1>8. ~Cyclic(C)
  BY <1>5, <1>6, <1>7, CloseIsLeast
<1>9. Close(pins \union {b}) = C
  BY <1>7 DEF Close
<1>10. C = {}
  BY <1>8, <1>9 DEF Trial
<1>11. b \in C
  <2>1. \A R \in ValidPins(up, acting, pins \union {b}) : b \in R
    BY DEF ValidPins
  <2>2. b \in DOMAIN up
    BY DEF ValidPins
  <2> QED
    BY <1>6, <1>7, <2>1, <2>2 DEF ClosePins
<1> QED
  BY <1>10, <1>11

\* One that is pinned leaves pins that are valid, without a cycle.
LEMMA PinnedIsValid ==
  ASSUME pg.ec, BlockerPins, NEW b, Trial(b) # {}
  PROVE  /\ Trial(b) \in ValidPins(up, acting, requested)
         /\ ~Cyclic(Trial(b))
<1>1. PICK C : C = ClosePins(up, acting, pins \union {b}) /\ C = Trial(b) /\ C # {}
  BY DEF Trial, Close
<1>2. ~Cyclic(C)
  BY <1>1 DEF Trial, Close
<1>3. C \in ValidPins(up, acting, pins \union {b})
  BY <1>1, ClosePinsIsValid
<1>4. requested \subseteq pins
  BY DEF BlockerPins, ValidPins
<1>5. C \in ValidPins(up, acting, requested)
  BY <1>3, <1>4 DEF ValidPins
<1> QED
  BY <1>1, <1>2, <1>5

LEMMA GivenPins ==
  ASSUME UNCHANGED given
  PROVE  /\ up' = up /\ acting' = acting /\ pg'.ec = pg.ec /\ Unclear' = Unclear
         /\ \A R : Cyclic(R)' <=> Cyclic(R)
         /\ Cyclic(pins)' <=> Cyclic(pins')
<1>1. pg' = pg
  BY DEF given
<1>2. up' = up /\ acting' = acting
  BY <1>1 DEF up, acting
<1>3. \A i : Dest(i)' = Dest(i)
  BY GivenPairs
<1>4. \A R : Unblocked(R)' = Unblocked(R)
  BY <1>2, <1>3 DEF Unblocked
<1>5. \A R : Cyclic(R)' <=> Cyclic(R)
  BY <1>4 DEF Cyclic
<1> QED
  BY <1>1, <1>2, <1>5, GivenFacts, GivenPairs

\* The invariant is kept where it says something.
LEMMA SkipStep ==
  ASSUME CancelInv, SkipInv, [CancelNext]_cancelVars
  PROVE  SkipInv'
<1>1. CASE Select
  <2>1. phase' \in {"close", "done"} /\ skipped' = Unclear /\ UNCHANGED given
    BY <1>1 DEF Select
  <2> QED
    BY <2>1, GivenPins DEF SkipInv, SkippedBlockersAreHopeless
<1>2. CASE ClosePinned
  <2>1. /\ phase = "close" /\ phase' = "block" /\ UNCHANGED <<requested, skipped>>
        /\ UNCHANGED given /\ skipped = Unclear
        /\ Close(requested) # {} /\ pins' = Close(requested)
        /\ ~pg.ec => todo' = {}
    BY <1>2 DEF ClosePinned, SkipInv
  <2>2. ASSUME pg.ec
        PROVE  pins' \in ValidPins(up, acting, requested) /\ pins' = ClosePins(up, acting, requested)
    BY <2>1, <2>2, ClosePinsIsValid DEF Close
  <2>3. BlockerPins'
    BY <2>1, <2>2, GivenPins DEF BlockerPins
  <2>4. SkippedBlockersAreHopeless'
    BY <2>1, GivenPins DEF SkippedBlockersAreHopeless
  <2> QED
    BY <2>1, <2>3, <2>4 DEF SkipInv
<1>3. CASE \E b \in todo : PassBlocker(b) \/ PinBlocker(b) \/ SkipBlocker(b)
  <2>1. PICK b \in todo : PassBlocker(b) \/ PinBlocker(b) \/ SkipBlocker(b)
    BY <1>3
  <2>2. /\ phase = "block" /\ phase' = "block" /\ UNCHANGED requested /\ UNCHANGED given
        /\ BlockerPins /\ pg.ec
    BY <2>1 DEF PassBlocker, PinBlocker, SkipBlocker, LookAt, SkipInv, BlockerPins
  <2>3. /\ pins' \in ValidPins(up, acting, requested)
        /\ Cyclic(pins') => pins' = ClosePins(up, acting, requested)
    <3>1. CASE pins' = pins
      BY <2>2, <3>1 DEF BlockerPins
    <3>2. CASE PinBlocker(b)
      BY <2>2, <3>2, PinnedIsValid DEF PinBlocker
    <3> QED
      BY <2>1, <3>1, <3>2 DEF PassBlocker, SkipBlocker
  <2>4. BlockerPins'
    BY <2>2, <2>3, GivenPins DEF BlockerPins
  <2>5. ASSUME NEW x \in skipped' \ Unclear, NEW P \in ValidPins(up, acting, requested \union {x})
        PROVE  Cyclic(P)
    <3>1. CASE x \in skipped
      BY <2>2, <2>5, <3>1 DEF SkipInv, SkippedBlockersAreHopeless
    <3>2. CASE x \notin skipped
      <4>1. x = b /\ Trial(b) = {}
        BY <2>1, <2>5, <3>2 DEF PassBlocker, PinBlocker, SkipBlocker
      <4> QED
        BY <2>2, <2>5, <4>1, SkippedIsHopeless
    <3> QED
      BY <3>1, <3>2
  <2>6. SkippedBlockersAreHopeless'
    BY <2>2, <2>5, GivenPins DEF SkippedBlockersAreHopeless
  <2> QED
    BY <2>2, <2>4, <2>6 DEF SkipInv
<1>4. CASE EndBlockers \/ UNCHANGED cancelVars
  <2>1. /\ UNCHANGED <<requested, pins, todo, skipped>> /\ UNCHANGED given
        /\ phase' = phase \/ (phase = "block" /\ phase' = "order")
    BY <1>4 DEF EndBlockers, cancelVars, given
  <2>2. BlockerPins => BlockerPins'
    BY <2>1, GivenPins DEF BlockerPins
  <2>3. SkippedBlockersAreHopeless'
    BY <2>1, GivenPins DEF SkipInv, SkippedBlockersAreHopeless
  <2> QED
    BY <2>1, <2>2, <2>3, GivenPins DEF SkipInv
<1>5. CASE Refuse \/ OrderMoves \/ DropHeads \/ LeaveOut \/ Keep
  <2>1. phase' \in {"chains", "done"}
    BY <1>5 DEF Refuse, OrderMoves, DropHeads, LeaveOut, Keep
  <2> QED
    BY <2>1 DEF SkipInv, SkippedBlockersAreHopeless
<1> QED
  BY <1>1, <1>2, <1>3, <1>4, <1>5 DEF CancelNext

\* Taking the blockers one at a time loses none: one that is reported cannot be pinned
\* along with what was asked for (find_blockers, order_moves).
THEOREM SkippedAreHopeless == CancelSpec => []SkippedBlockersAreHopeless
<1>1. CancelInit => SkipInv
  BY DEF CancelInit, SkipInv, SkippedBlockersAreHopeless
<1>2. CancelInv /\ SkipInv /\ [CancelNext]_cancelVars => SkipInv'
  BY SkipStep
<1>3. SkipInv => SkippedBlockersAreHopeless
  BY DEF SkipInv
<1> QED
  BY <1>1, <1>2, <1>3, AlwaysCancelInv, PTL DEF CancelSpec

=============================================================================
