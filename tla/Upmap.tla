------------------------------- MODULE Upmap -------------------------------
(***************************************************************************)
(* Upmap pairs and the operators every backfillctl command computes with:  *)
(* how Ceph turns a PG's raw CRUSH mapping and its upmap entry into the up  *)
(* set, how pgremapper imports the pairs a command prints, and the helpers  *)
(* of backfillctl/shared.py and placement.py that predict both.            *)
(*                                                                         *)
(* An up or acting set is a sequence of OSDs, None standing for an empty   *)
(* slot (CRUSH_ITEM_NONE, -1, or a slot past the end of the list).  A pair *)
(* <<f, t>> says "wherever f is mapped, use t"; an entry is a sequence of  *)
(* pairs.                                                                  *)
(***************************************************************************)
EXTENDS Integers, Sequences, SequencesExt

CONSTANTS
  Osd,      \* OSD ids
  None,     \* an empty slot
  NoHost,   \* the host of an OSD 'ceph osd tree' does not place on one
  HostOf    \* the host of each OSD, or NoHost

ASSUME NoneIsNoOsd == None \notin Osd

IsReal(o) == o # None

RealOsds(osds) == {o \in ToSet(osds) : IsReal(o)}

\* One and the same OSD, or two OSDs of one known host.
SamePlace(a, b) == a = b \/ (HostOf[a] # NoHost /\ HostOf[a] = HostOf[b])

\* No two filled slots share an OSD or a host: what Ceph's up set must be.
HostsDistinct(osds) ==
  \A i, j \in DOMAIN osds :
    i # j /\ IsReal(osds[i]) /\ IsReal(osds[j]) => ~SamePlace(osds[i], osds[j])

\* list[list.index(old)] = new: the first old becomes new.
ReplaceFirst(osds, old, new) ==
  LET k == CHOOSE i \in DOMAIN osds :
             osds[i] = old /\ \A j \in 1..(i - 1) : osds[j] # old
  IN  [osds EXCEPT ![k] = new]

\* No OSD fills two slots.
OsdsDistinct(osds) ==
  \A i, j \in DOMAIN osds : i # j /\ IsReal(osds[i]) => osds[i] # osds[j]

\* The pairs but those dropped, in order.
Without(pairs, dropped) ==
  FoldLeft(LAMBDA kept, p : IF p \in dropped THEN kept ELSE Append(kept, p), <<>>, pairs)

\* chain_link: some A->B and B->C among the pairs, A->A pairs being no-ops.
Chained(pairs) ==
  LET real == {p \in ToSet(pairs) : p[1] # p[2]}
  IN  \E p, q \in real : p[2] = q[1]

-----------------------------------------------------------------------------
(* Ceph (external): the pairs of an entry are applied in order, one whose   *)
(* 'to' is already mapped or whose 'from' is not being skipped.             *)

ApplyPair(osds, pair) ==
  IF pair[2] \notin ToSet(osds) /\ pair[1] \in ToSet(osds)
  THEN ReplaceFirst(osds, pair[1], pair[2])
  ELSE osds

CephUp(raw, entry) == FoldLeft(ApplyPair, raw, entry)

\* What Ceph guarantees of a PG: CRUSH picks an OSD once; an entry, unless it chains,
\* maps OSDs that CRUSH picked, each once; up is what the entry makes of them, with no
\* two shards on one host.  No command touches an entry that chains.
CephConsistent(raw, entry, up, acting) ==
  /\ up = CephUp(raw, entry)
  /\ OsdsDistinct(raw)
  /\ \/ Chained(entry)
     \/ /\ \A p \in ToSet(entry) : p[1] \in ToSet(raw)
        /\ \A i, j \in DOMAIN entry : entry[i][1] = entry[j][1] => i = j
  /\ HostsDistinct(up) /\ HostsDistinct(acting)

-----------------------------------------------------------------------------
(* The code's view of existing pairs.                                       *)

\* raw_crush_osds: undo the entry's pairs, in entry order.
UndoPair(osds, pair) ==
  IF pair[2] \in ToSet(osds) THEN ReplaceFirst(osds, pair[2], pair[1]) ELSE osds

RawCrushOsds(up, entry) == RealOsds(FoldLeft(UndoPair, up, entry))

\* fold_pairs: a new pair X->Y rewrites the existing A->X that put X in up to
\* A->Y.  rest: the existing pairs left; effective: each new pair as folded.
FoldPair(acc, pair) ==
  LET k == SelectInSeq(acc.rest, LAMBDA p : p[2] = pair[1])
  IN  IF k = 0
      THEN [acc EXCEPT !.effective = Append(@, pair)]
      ELSE [rest |-> RemoveAt(acc.rest, k),
            effective |-> Append(acc.effective, <<acc.rest[k][1], pair[2]>>)]

FoldPairs(existing, pairs) ==
  FoldLeft(FoldPair, [rest |-> existing, effective |-> <<>>], pairs)

\* A pair whose 'from' is still in up is stale: Ceph skips it.
Live(existing, up) == Without(existing, ToSet(up) \X Osd)

\* Planner.chains, and the test avoid_chains makes of the pins it keeps.
WouldChain(existing, up, pairs) ==
  LET folded == FoldPairs(Live(existing, up), pairs)
  IN  Chained(folded.rest \o folded.effective)

-----------------------------------------------------------------------------
(* Pinning shards of an EC PG back (close_pins), as what it returns: the    *)
(* loop itself is PinBack's, whose theorems tie the two together.           *)

\* A slot whose shard is moving and has its data on a known OSD.
CanPin(up, acting, i) == IsReal(acting[i]) /\ acting[i] # up[i]

PinnedUp(up, acting, P) == [i \in DOMAIN up |-> IF i \in P THEN acting[i] ELSE up[i]]

\* The unpinned slots whose OSD shares a place with one pinned back to.
ClashingWith(up, acting, P) ==
  {j \in DOMAIN up \ P : IsReal(up[j]) /\ \E i \in P : SamePlace(acting[i], up[j])}

\* Every set of pins that grants the request and leaves no unpinned shard on
\* the OSD or host of a pinned one.
ValidPins(up, acting, requested) ==
  {P \in SUBSET DOMAIN up :
     /\ requested \subseteq P
     /\ \A i \in P : CanPin(up, acting, i)
     /\ ClashingWith(up, acting, P) = {}}

\* The least of them, {} if there is none.
ClosePins(up, acting, requested) ==
  {i \in DOMAIN up :
     /\ ValidPins(up, acting, requested) # {}
     /\ \A P \in ValidPins(up, acting, requested) : i \in P}

-----------------------------------------------------------------------------
(* pgremapper import-mappings (external), as the docstrings of fold_pairs   *)
(* and avoid_chains describe it: it removes stale pairs, folds a new pair   *)
(* into the existing pair it extends, drops A->A, and panics on a chain,    *)
(* which leaves the entry as it was.                                        *)

Imported(existing, up, pairs) ==
  LET folded == FoldPairs(Live(existing, up), pairs)
      entry == folded.rest \o folded.effective
  IN  IF Chained(entry) THEN existing ELSE Without(entry, {<<o, o>> : o \in Osd})

=============================================================================
