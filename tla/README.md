# A verification project for ceph-tools

`ceph-tools` is a set of command-line tools for Ceph clusters. This directory
holds TLA+ models of its core logic, the TLC configurations that check them on
small instances, and theorems about them that TLAPS proves for every instance.

    tlc -config Balance.cfg MCPlanner    # a run
    tlapm PlannerProofs.tla              # the proofs of a module

Contents: [the system](#the-system), [plan](#plan), [models](#the-models),
[runs](#the-runs), [proofs](#the-proofs), [findings](#findings),
[limits](#what-is-only-model-checked-and-what-is-not-modelled).

## The system

### backfillctl (`backfillctl/`, 7500 lines)

Placement-group (PG) shards that are on other OSDs (`acting`) than CRUSH and the
upmap entries say (`up`) are moved by Ceph: a *backfill*. The commands read one
snapshot of the cluster (live, or an archive that `save-state` wrote), and print
upmap pairs `from->to` that the user imports with pgremapper; Ceph then applies a
PG's pairs, in order, to the mapping that CRUSH gives it. No command changes
anything itself, so nothing runs concurrently *within* a run; what is hard is
what a long run of individually legal decisions adds up to, and whether Ceph and
pgremapper make of the pairs what the run planned.

| Component | State | Operations | What makes it correct |
|---|---|---|---|
| Pinning back (`shared.close_pins`, `order_moves`) | the pins so far; the order so far | add companions round by round; place the next move; give up | the least valid set of pins; an order that Ceph applies in full; it ends |
| Projections (`placement.py`) | per OSD: `reservation` (what Ceph reserves), `final` (once all moved) | add, redirect, cancel, uncancel, move | exactly the proposals taken together; `final` never above `reservation` |
| `Planner` (`shed.py`) | the projections, each PG's new up set and moves, who relieved whom | `place`, `commit`, `uncommit`, `try_pin`, `pin`, `try_pin_elsewhere` | hosts kept apart; room on every target; relief and level rules hold for the whole run; pairs that pgremapper can apply |
| `shed` (drain, balance) | heap of sources, queue of shards per source, shards left, PGs stuck | `shed_sources`, `resolve_blockers`, final report | every shard moved or reported; the fullest source first; blockers settled; it ends |
| `cancel-backfill`, `cancel-uphill` | per PG: requested pins, companions, blockers; pins dropped | select, close, add blockers, order, `avoid_chains` | what is printed takes effect in full; all or none; nothing asked for goes unreported |
| `divert-toofull` | a queue per OSD, `SourcePressure`, a Planner | filter, divert, report | no stuck shard forgotten; the sources that hold up most first |
| `measure-rate` | two samples of PGs, each a dump and then a query per PG | select, sample, match, rate, sum, save, replay | rates are those of the data that arrived on the row's OSD; a row without one says why; a replay agrees |
| snapshot store, PG queries (`shared.py`) | cached outputs, thread pools | fetch, query in batches, time out, fall back; positions to shares of a PG | a PG whose query fails is still counted, and named |
| reports (`messages.py`, `show_*.py`) | none | format | - |

The components call one another directly: `drain` and `balance` choose sources,
level and class and call `shed`, which drives one `Planner` over one `Cluster`;
`Planner` and the cancel commands share `close_pins` and `fold_pairs`. Ceph and
pgremapper are outside: they are modelled as the operators `CephUp` and
`Imported`, from what the code's comments and docstrings say of them.

### cephfs (`cephfs/`, 3600 lines)

`scan-growing-dirs` samples the recursive sizes of a directory tree twice and
reports where it grew. The filesystem changes meanwhile: directories vanish, wake up,
are created or renamed, or can no longer be read. It can save and resume a run. What
makes it correct is that the rows neither hide growth nor show it twice, that a row
which may include other directories' growth is marked, and that a save is atomic.

`find-recent-rctime` walks a tree with two pools of processes over joinable queues: one
enters the directories whose recursive ctime is recent, the other looks at each path's
own ctime; what makes it correct is that no path is lost, that main stops waiting only
when there is nothing left, and that it does stop waiting.

`mds-ops-pretty` asks every active MDS rank for its operations and prints them with the
paths of their inodes and the users they are of. Runs overlap, and share two kinds of
cache files that nothing locks: the paths of a cluster's inodes, and the clients of a
rank. What makes it correct is that nothing printed is another inode's, rank's or
cluster's, that no newer entry of a cache is lost without a reason, and that one rank's
failure does not hide the others.

`find-growing-dirs` compares two samples of one level. `top` and `client-inodes` poll
and format MDS counters.

### The rest

Two scripts at the top of the repository run `ceph` commands in a straight line.
`external/` holds third-party tools.

The hard behaviours, each at its line, are the `hazards` of `PROJECT.json`.

## Plan

In this order; those marked done are described below.

1. `Upmap` (what Ceph and pgremapper make of pairs) and `PinBack` - done
2. `Cluster`, `Planner` and the proofs of its safety - done
3. `Shed`, shown to implement `Planner` - done
4. `CancelBackfill` and the proofs of its safety - done
5. `Divert`: divert-toofull's queues over `Planner`'s operators - done
6. `RecentRctime`: the two pools, `task_done` and `join`, and its proofs - done
7. `ScanGrowingDirs`: build, two samples, renames, recheck, rows, save and load - done
8. `AtomicFile`, `SavedState`, and the proof that the one implements the other - done
9. `Positions`, `MeasureRate`: samples of PGs that are re-targeted, end or go backwards - done
10. `MdsOps`: overlapping runs and their cache files - done
11. `PgMapping`: the life of a PG's mapping between the snapshot and the import.
12. `TopCache`: the session cache of `cephfs/top`; the time limit of the CLI's queries.
13. Choosing balance's level and sources.
14. More proofs: that `Shed` implements `Planner` and what it promises itself - done; then
    `AnswersShown` - done; then `Divert`'s - done; then the report of `ScanGrowingDirs` - done;
    then `MeasureRate`'s copies, replays, rates and reasons - done; then the renames that
    `ScanGrowingDirs` follows - done.

Each module takes what it needs from the state as CONSTANTS (the OSDs, their hosts
and classes, the PGs a run may start from), so that a theorem holds for every
cluster, and TLC gets a small set of clusters.

## The models

### `Upmap` - PGs, pairs and pins

Operators only. `CephUp(raw, pairs)` applies pairs as Ceph does: in order,
skipping one whose `from` is not in the mapping or whose `to` already is. Ceph also
drops an entry that leaves two shards on one host; the operator does not look at hosts,
and that it never comes to this is stated apart, by `AppliedInFull`, `UpSetsValid` and
`PinsKeepHostsApart`. `Imported` folds new pairs into existing ones as pgremapper does.
`FoldPairs`, `Chained`, `WouldChain` are the
code's own prediction of it (`shared.fold_pairs`, `chain_link`,
`Planner.chains`). `ValidPins` states what `close_pins` is for; `ClosePins` is the
least such set, which the run `PinBack` and the theorem `LeastValidPins` show the
loop to return, so later modules use the operator for the loop. An empty slot is
`None`; an OSD that is on no known host has `NoHost`.

### `PinBack` - `close_pins` and `order_moves`, step by step

State: the PG, the pins, the moves still to order, those ordered, and how far Ceph
is with applying them. Actions: a round of companions, refusing, placing the next
move, giving up on a cycle, and Ceph's application of one pair.

### `Cluster` and `Planner` - what a run may do

`Cluster` has the statics (sizes, weights, classes) and what `placement.py` computes
from a snapshot before anything is moved. Bytes are units, and utilization is in
points: a unit adds `Weight[o]` points to OSD `o`, so OSDs of different capacity
differ in weight, and everything is an integer. `Planner`'s state is one record:
`res` and `final` (the projections), `newUp`, and `moves` (a set of records per PG).
One action per decision: `MoveOff` (shed_sources), `Divert`, `PinBlocker`,
`PinElsewhere` (resolve_blockers); any shard may be next and any legal target taken.

Abstractions: a PG's moves are a set, since pairs that do not chain may be applied
in any order. Relief is computed from the moves instead of counted. Pins are
assigned slot by slot, where `retarget` looks an OSD up by value (`placement.py:518`):
when one pin's target is the OSD that a companion is about to leave, the OSD is in two
slots for a moment, and the code may end with the same OSDs in other slots. That is not
modelled, so no property is about it; the code reads such a PG's slots again only for
shards that were not pinned, whose acting OSDs clash with none of those pinned onto. In
`try_pin_elsewhere` the code takes the first move in the way; there is never a
second outside the case of the finding.

### `Placing` - which legal target is taken

`Place` is `Planner.place` as the code searches: candidates in final-projection
order, with its early exits; the code's slack of 1e-9 for rounding is exact here.

### `Shed` - drain and balance as they decide

Adds the heap, the queues, the shards left, and the agenda: the set of blockers still to
look at, of which `IsNext` picks the one whose turn it is. Every step is one of `Planner`'s
or leaves `cluster` and `plan` alone: `PlanSpec` is a property of the run with a level, and
a theorem.

### `Divert` - divert-toofull

The stuck shards in a queue per OSD that holds their data, the heap of the queues'
heads with the rank each was pushed with, `SourcePressure`, and the shards that got
no target. Each turn places the foremost shard with `Place` and `Commit`, or passes it
over. `--pgs`, the utilization that counts as too full, and which PGs are in
backfill_toofull are inputs. There are no sources and no level; relief always applies.

### `RecentRctime` - the two pools of find-recent-rctime

State: the two queues, each with the count of what is not done and the termination
signals in it; each process with what it holds; what was found; where main is; the
paths removed so far. One action per call that others can tell from the next: get,
scan a directory, look at an entry or a path, put a batch, mark done, append. A queue
is a set of batches, as those of several processes come out in any order. A path is
the sequence of its names, and its times are a set membership (on or after the date
or not). `denied` are the calls that raise anything but `FileNotFoundError`: the
process dies with what it holds.

### `CancelBackfill` - cancel-backfill and cancel-uphill

One PG: the commands look at PGs one by one, and `--pin-blockers` projects the OSDs
from all queued backfills before any PG is looked at, so which OSDs block is an
input (`command.full`). State: the shards asked for, the pins, the blockers still to
look at, what `avoid_chains` dropped, and what was reported. A pin is a slot; a
replica's is its up OSD's. `cancel_whole_pg`, `find_arrivals` and `find_uphill_shards`
are three ways to choose `Requested`.

### `ScanGrowingDirs` - two samples of a changing tree

State: the filesystem (a tree of inodes with names, bytes and rctimes, the calls that
fail, mount points), the tracked nodes in the order of `Run.nodes`, the level being
listed, the listings of parents that `follow_renames` asked for, the rows. One action
per phase of `sample_run`: preflight, listing and probing a level, marking leaves, the
two passes, the re-listings, the moves, the re-reads, the recheck, the report, and
saving and loading. `Analyzed` is `analyze` as one recursive function over the tree, and
`Analysis` what it makes of one directory and what is known of those below.

Between phases the filesystem is written to, created in, renamed in, removed from or
made unreadable. A pass over all directories is one step: within it, the order in which
the threads read is not told apart, and a change during a pass shows as one before or
after it. Only in `follow_renames` the threads' listings race the main thread, which
moves the paths that are still to be listed. Each interval is one unit, so that a rate
is a difference of bytes; what differing intervals do to `own` is rounding, and that
`_node_from_state` refuses a run with an interval that is not positive (`:1135`) is left out.
A path is the sequence of its names.

A change moves the rctime of the directory and of all above it, but for one by a client
whose clock lags (`Lagging`): the rctime is the latest time below, so that it may stay what it
was. Such a client's bytes in an idle subdir are then in the files row above it, without `~`,
as the help says (`:1213`), and `UnmarkedRowsAreExact` allows for exactly these
(`GrownAsleep`). If its write does move the rctime, the recheck sees that, and the row is
marked. The recursive size, in contrast, is taken to be up to date: rstats propagate with a
delay (`:1207`), which makes every difference of two directories' rates noisy. So
`UnmarkedRowsAreExact` and `GrowthIsSeen` are about bytes that rstats already show;
`RowsAddUp`, `RenamesFollowed` and `ReplayIsTheSame` do not depend on it.

### `SavedState` and `AtomicFile` - saving

`AtomicFile` is the promise: the file is at all times a whole version, and what each
saver is told is true. `SavedState` is `save_state` step by step: create the temporary
file, fill it, flush, `fsync`, rename, and clean up on an error or Ctrl-C. The removal of
the temporary file may itself fail, which is suppressed (`:1109`), or a second Ctrl-C come
before it or after it: `mishap` keeps who met with one of these and has the file still, or
with a power loss that undid the removal, and `NoTempLeft` says that nothing less leaves
the file there. Names and
contents as processes see them are kept apart from what is on disk, which the journal
writes in its own time; `Kill` and `PowerLoss` may come at any step. `Atomic` is the
instance with `file` mapped to whose whole content the target holds (`Held`), and
`told` to the outcome of each save. The directory is never flushed, so a power loss may
undo the rename of a save that was reported: `Lose` lets the file fall back to any earlier
whole version, and never to a part of one.

### `Positions` and `MeasureRate` - the rate of backfills

`Positions` is arithmetic: a PG's objects in the order of their reversed hashes, what
share of them is behind a position (`backfill_fraction`), and - external - which PG
Ceph puts a hash in. A hash has `Width` bits, and a share is in units of `1/2^Width`.
The operators are of any pool; `Fraction` and `PositionAfter` are tables of this one's.

`MeasureRate` has the PGs, which Ceph copies, ends, restarts, re-targets and lets wait
between any two steps of the run; the run's samples, each of a dump, and the replies of
the pool's threads, which come in any order or fail; the result and the capture. `Plan`
is `measure_rate.plan` for both the run and a replay. `past` is a history of what
really arrived, ended and started over, which the properties compare with.

### `MdsOps` - overlapping runs of mds-ops-pretty

State: the clock, the cache files, and what each run holds. Actions: starting, the steps
of `load_client_ls_cached` per rank (age, read, query, save), joining the pool, printing
an operation with the lookup of its inode, and the read and the replacement of
`save_inode_cache`; a run may be killed at any of them. A path is `[of, fetched]`, the
inode it was asked for and when, which is what the properties tell paths apart by. The
answers of MDS, RADOS and LDAP are external: any answer, a failure, or one that is no
JSON. Dumps and client lists given as files (`--json-file`, `--client-ls`) are inputs
without state and are left out.

## The runs

| Run | Module, cfg | Question |
|---|---|---|
| PinBack | `MCPinBack` | is the closure least, the order right, does Ceph apply all of it? |
| Balance | `MCPlanner` | do arbitrary legal decisions combine into a legal plan, with a level? |
| ShedBalance | `MCShed` | with a level: do shed's shortcuts lose nothing; does it implement Planner and end? |
| ShedDrain | `MCShed` | with three sources, an unsized OSD and one that is out: is no shard lost, every blocker settled? |
| Divert | `MCDivert` | who gets the scarce room, is anyone forgotten, and does what is said to fit, fit? |
| RecentRctime | `MCRecentRctime` | is what is printed complete, and does it end, unless a call fails? |
| Cancel | `MCCancel` | does what the cancel commands print take effect, with nothing forgotten? |
| Scan | `MCScan` | do the rows hide growth or repeat it, are renames followed, and is a saved run reported again as it was? |
| SavedState | `SavedState` | is each save atomic, whatever is killed, fails or loses power? |
| MeasureRate | `MCMeasure` | are rates those of what arrived, and are the reasons given for rows without one true? |
| MdsOps | `MCMdsOps` | do runs that share cache files print only what is theirs, and lose nothing newer? |
| PinThenReplace | `MCShedCases` | the finding below |

**Bounds.** Six OSDs on five hosts, two of them together, is enough for a shard to
move within its host, for a companion, for a companion of a companion, and for a
target that is none of the PG's; one OSD of half the capacity tells percentages from
bytes. An erasure-coded PG of three shards and a replicated one of two, each with at
most two shards in motion, reach every combination of move, divert, pin with
companion and re-placement; the upmap entries include live, stale, folding and
chained pairs. Two PGs compete for the room of a target. In `PinBack` and `Cancel`
every up and acting set of three shards is tried, not a selection. The case of
`MCShedCases` is followed on one cluster. `Divert` takes three
PGs on eight OSDs of five hosts, so that two queues overtake each other, a shard waits
behind one that finds no target, and a shard is left that fits in the end; every
combination of 32 fillings and 54 sets of PGs is followed. `RecentRctime` has two
processes in each pool, seven paths below PATH on three levels and batches of two, so
that batches are split, processes compete, and a directory can vanish listed, probed,
queued or held, and calls that fail; the proofs do away with the bound.

`Scan` has a root and three directories on up to three levels, two changes during the
run, which is what a rename onto another's path or growth in a directory that woke up
takes, and a `--max-dirs` of three, which some trees exceed; any change may be by a client
whose clock lags; faults (an unreadable call, a wide directory, a mount point) come one at a
time. Two roots are given side by side, or
one in the other. `SavedState` has three savers, one of which finds a leftover temporary
file: two that race, and one that fails meanwhile. `MeasureRate` has one erasure-coded
and one replicated PG of a pool of three PGs (so that one has half the hash range of the
other), hashes of three bits, two changes, and a clock up to 3 with an interval of 2, so
that the second sample may be late and replies differ in time. `MdsOps` has two slots, so
that two runs overlap, with scripts of up to three runs: a third sees what two left. Its
clock goes up to 2, with time limits of 1 and 0 (no limit); the slots are symmetric.

A run stops when the program has printed its proposals or reports, so all but `Scan`
say `CHECK_DEADLOCK FALSE`; that `shed` does not stop early is its property `Finishes`,
that `find-recent-rctime` does not is `EndsUnlessDenied`. `Scan` stutters once it is over,
so that a saved run which could not be loaded would be a deadlock.

**Fairness.** Weak fairness of the whole next-state relation in `Shed` and `Divert`: each is
a loop of a single thread that waits for nothing, so it goes on as long as it can. In
`RecentRctime` weak fairness of each process and of main, which the operating system gives
every process that can run; none of the removal of paths, nor of calls that fail. The
others state no liveness: `PinBack`, `CancelBackfill` and `ScanGrowingDirs` go through
finite collections, and a save or a measurement may always be interrupted.

Every property has a mutant in a module it is about (defined just before what it
replaces, "Mutant:"), a plausible slip in the code under which TLC finds the property
violated.

## The proofs

| Theorem | Says, for every cluster, PG and run |
|---|---|
| `CancelProofs!LeastValidPins` | `close_pins` returns the least valid set of pins |
| `CancelProofs!PinsAreApplied` | Ceph applies all the pairs, in the order printed, to a valid up set |
| `CancelProofs!CyclesAreReal` | where `order_moves` gives up, no order of the moves would do |
| `UpmapProofs!ImportedApplies` | new pairs that do not chain with an entry move exactly the slots they are for |
| `PlannerProofs!PlanIsTyped` | the planner is well typed |
| `PlannerProofs!RoomForAll` | no target of a run ends up over the cap |
| `PlannerProofs!HostsStayApart` | up sets have distinct hosts, unless data is pinned onto a source |
| `PlannerProofs!LevelsHold` | targets stay below the level, and so do sources pinned onto |
| `PlannerProofs!ReliefHolds` | no move takes a target to or above an OSD that it relieved |
| `PlannerProofs!UsageIsAccounted` | the projections are what the fetched state and the moves sum up to |
| `PlannerProofs!AppliesAsPlanned` | the printed pairs, imported, make Ceph's up sets the planned ones |
| `ShedProofs!ShedPlans` | `shed`, as it decides, implements `Planner` |
| `ShedProofs!ShedKeepsPromises` | so all of the above holds of drain and balance |
| `ShedProofs!PlaceMissesNothing` | `place`, which stops its search early, finds a best legal target |
| `ShedProofs!AllAccounted` | each shard that was to leave a source is moved, or left and reported |
| `ShedProofs!LeftForGood` | a shard passed over gets no target later, unless its PG is moved |
| `ShedProofs!BlockersAreSettled` | no PG that was moved keeps a blocker, unless it is reported stuck |
| `DivertProofs!NoneIsForgotten` | each stuck shard is queued, placed or reported, and only one of these |
| `DivertProofs!FullestComesFirst` | the shard placed next is the foremost of all queued; no entry of the heap is stale |
| `DivertProofs!FittingFits` | what is reported to fit does, with all that is on its way and all that is proposed |
| `DivertProofs!DivertKeepsPromises` | divert-toofull keeps the planner's promises: room, hosts, projections, pairs |
| `DivertProofs!DivertRelieves` | nor does it take a target to or above an OSD that it relieved |
| `CephfsProofs!PrintsAll` | what is printed is complete, and nothing in it is unchanged |
| `CephfsProofs!DeadRunsPrintNothing` | a run that lost a process prints nothing |
| `CephfsProofs!NothingAfterJoin` | past the first join, no work is left for the first pool |
| `CancelProofs!PinsStayApart` | the pins printed keep a PG's hosts apart |
| `CancelProofs!PinnedTogether` | the shards asked for are pinned together or not at all |
| `CancelProofs!EveryShardReported` | each shard asked for and each blocker is pinned or reported |
| `CancelProofs!PinsTakeEffect` | what is printed, imported, makes Ceph's up set the one meant, whatever was dropped |
| `CancelProofs!SkippedAreHopeless` | a blocker not pinned could not be pinned, in whatever order they are looked at |
| `CephfsProofs!SavedIsWhole` | the target is at all times a whole version, and a save that was reported was put there |
| `CephfsProofs!SaveImplementsAtomicFile` | `save_state` implements `AtomicFile`, for any number of savers and faults |
| `CephfsProofs!NoTempIsLeft` | a save that ended left no temporary file, unless the removal failed, was interrupted or was undone by a power loss |
| `CephfsProofs!NothingHiddenOrTwice` | the rows below a directory leave less than the threshold of its growth, and show none twice |
| `CephfsProofs!LostAreFound` | a directory that is missing while its parent lists its inode was followed, unless one above it was renamed |
| `CephfsProofs!ReplayReportsTheSame` | a run that was saved and loaded reports what it reported before |
| `CephfsProofs!NothingIsForeign` | whatever runs share the caches, paths and clients printed are the run's own |
| `CephfsProofs!AnswersAreShown` | each rank's operations are shown, all and in order; an error means no rank answered, or no JSON |
| `CephfsProofs!StaleAfterFailureOnly` | a path past its limit is served only after a failed lookup |
| `CephfsProofs!NewerIsKept` | no newer entry of a cache file is lost, but to a run whose reading was outdated or failed |
| `MeasureProofs!CopiesAreAccountedFor` | each copy of the first sample is shown again, left out as inactive, or counted as gone because it ended; no row is summed twice |
| `MeasureProofs!ReplaysAgreeAlways` | a replay prints what the run printed, or the part of it that was asked for |
| `MeasureProofs!RatesAreArrivals` | a rate is over the interval or more, and an exact one is of what arrived in between |
| `MeasureProofs!ReasonsAreGiven` | what the footnotes say of a row without a rate is what happened |

*Assumptions.* The types of the constants; that a snapshot is consistent
(`Consistent`, `PGsConsistent`: the up set is what Ceph makes of CRUSH's mapping and
the pairs, CRUSH picks an OSD once, up and acting sets have distinct hosts, and an entry
that does not chain maps each OSD once, from one that CRUSH picked, as Ceph purges any
other pair) - facts about Ceph, not about this code; that OSDs, PGs, ranks and directories
are finite;
that what `Clusters` holds are snapshots with their projections; and the types of command lines
and dumps (`MdsTyped`). `BlockersAreSettled` has one of its own, `Cap < BackfillFull`:
that is the default, but the command line also takes an equal cap, with which a target
may itself become a blocker. `RatesAreArrivals` and `ReasonsAreGiven` assume
`FractionIsShare`: that however far a backfill is, `backfill_fraction` of its position is the
share of the PG's objects that it has copied. It is arithmetic about the bits of a number,
for which the provers have no theory; the run `MeasureRate` evaluates it, as an `ASSUME` of
`MCMeasure`, for every pool whose hashes have up to 6 bits.

*Argument.* `PinBack`: every valid set of pins that contains the requested ones also
contains what each round adds, so the closure stays inside all of them, and when no
round adds anything it is valid itself. For the order, the invariant relates the
mapping after `count` pairs to the pins applied so far: the next pair's `from` is
still there, and its `to` is not, since whoever held it has left. When it gives up, the
target of every move left is held by the slot of another: whichever is put first, Ceph
skips it, and nothing after it empties its slot.

Sums and folds: the library's induction takes an operator as a parameter, but its
well-founded ordering by strict subset does not, and a set of the subsets (or of the
positions in a sequence) for which a statement holds can stand for the statement.
`SumProofs` derives from it `SubsetInduction`, `UpTo`, and `Recursion`, by which what
`SumFunction` and `FoldLeft` compute is unfolded, and `Backward`, by which a function that
recurses from the last element of a forest down is. From these, `ImportedApplies`: a pair
whose `from` is the `to` of an old one rewrites that one, any other is appended, and in
either case the mapping so far is the one meant, since in an entry without chains no
pair's `from` is another's `to`.

`Planner`: `PlanInv` is the conjunction of the types, the shape of the plan (each
changed slot has one move, and the new up set is the fetched one with the moves
made), `Room`, `Apart`, `LevelInv` and `SourcesInv`. `UpSetsValid` is not inductive
alone: `MoveOff` is safe only because the hosts it avoids are those of the *new* up
set, and re-placement only because undoing a move gives back a state the invariant
already holds of. `Room` survives because a later step that adds to a target's
reservation is itself checked against the cap, and everything else lowers it.
There is a step per action, through lemmas about `Commit`, `Uncommit` and `PinBack`.
`BooksInv` adds what `UsageAccounted` and `AppliedAsPlanned` need: the pairs of a PG
are sound to import (`Sound`), each projection is the sum that `UsageAccounted` states
(`Ledger`), and `res` covers `final` with what is still to leave (`Credit`), so that the
two stay in order whatever is undone.
`ReliefHolds` splits on where the pairs of the relief meet the new move: at its source, at
its target, at both, or at neither, where its effect can only widen the gap.

`Shed`: `ShedInv` is `BooksInv`, with `AllInHand` (a shard of a source is changed, passed
over, or still in the queue of a source that is on the heap) and `AllOnAgenda` (once the
sources are shed, whatever may still block a moved PG is on the agenda, or the PG is
stuck). The latter is kept because settling one blocker makes no other: what a plan adds
to an OSD stays within the cap, and that is below `BackfillFull`. `LeftInv` is about the
first phase only, whose moves all leave a source for an OSD that is none. So a move
raises what targets hold, and lowers only what they are to stay below (`TargetsFillUp`),
and a target illegal for a shard stays so; a move of the shard's own PG is excepted, as
it may free a host.

`Divert`: its moves take no shard off a source, so it is no `PlanSpec`; but `PlanOK` and
`BooksOK`, the parts of the planner's invariants that `Commit` keeps whatever is moved, are
kept all the same. `DivertInv` adds that each queue holds shards of one OSD, in order, that
the heap is exactly the queues' heads as they rank now (`Heads`), that the pressure is what
the OSDs hold less the shards placed (`Pressed`), that a stuck shard is in one place only
(`Partition`), and that what is left of the fetched reservations is for the backfills that
were not redirected (`Coming`). Taking a shard changes the pressure of the OSD with its data
only, and of that OSD's queue there is one entry, the one just popped (`PushedBackIs`). So
none is stale, and whatever is queued comes after the head of its queue, and that after
what was popped (`Foremost`).

`CancelBackfill`: `CancelInv` says which of the collections are still empty in which
phase, that the requested shards are among the pins until something is dropped, that
pins with nothing dropped are closed, and that each blocker is to do, pinned, dropped
or skipped. `EffectInv` adds that the pins, with those dropped, are pairs that keep hosts
apart and can be ordered, and that what is kept does not chain with the entry in whatever
order it is folded in; `ImportedApplies` does the rest. `SkipInv` says that the pins so far
are valid, and that a cycle in them is one of the shards asked for: valid sets without a
cycle are closed under union, so a blocker that cannot join the pins so far could not join
any others either.

`RecentRctime`: `Inv` bounds each count from below by the batches queued and the
processes that hold one, so a count of 0 means neither; and it says that each path
that is promised is either seen (on its way to being printed) or below a directory
that will still be entered. Scanning a directory passes the promise on to the next
one down, which is still there since what is below a path that is gone is gone too.
Past the last join nobody holds anything, so what is promised is printed. A process
that dies keeps its batch, so its queue's count never gets to 0.

`SavedState`: `SavedInv` says that whatever was renamed over the target is whole, in
memory and on disk (`PutIsWhole`, which is what `fsync` before the rename is for), that
nothing is on disk that was not written (`WrittenInOrder`), and who is past the rename
did it (`PutByNow`). Then each step maps to one of `AtomicFile`'s: a rename to `Put`, the
returns to `Saved`, `Failed` or `Interrupted`, a second Ctrl-C to `Interrupted`, a power loss
to `Lose`, and the others to stutters. `TempInv` adds to `NoTempLeft` that a file that was
renamed is no longer under its temporary name.

`ScanGrowingDirs`: `ScanInv` says that the nodes are a forest in which each comes after
its parent (`Forest`), and a level that is still to be listed has nothing below it yet
(`BuildOK`); listing, probing, renames and re-reads change paths and samples, and never
who is below whom. So `Analyzed` and `Subtree` are well defined, and solved from the last
node back (`Backward`): what a directory's rows cover is the sum of the rates of all rows in
its subtree, which is the disjoint union of those of its children and itself
(`SumUnions`). A row is added only for what the rows so far leave, and only where that is
the threshold or more: both halves of `RowsAddUp` follow for one directory from those below it.
`Restored` keeps all that `Analysis` reads (`Alike`), so the loaded run's table of values
solves the same equations as the saved one's. `RenameInv` adds what holds as long as the
filesystem changes only during the sleep. Each node has the inode of a directory that was
there. While the threads' listings race the main thread, a listing taken is still what its
parent would show, unless the parent is below one that was renamed since; and a missing
directory is one whose parent is still to be looked at, or it was renamed to where its inode
is, or its parent does not show it (`Settled`). Following a rename re-roots a subtree that is
disjoint from those of its siblings and does not hold the parent (`OneBelow`), so both are
kept; and once it is done, what is sampled again can only vanish if nothing is there.

`MdsOps`: `MdsInv` follows a path from its lookup through the run's cache, the file, and
the caches of the runs that load it. Wherever it is, it is filed under its own inode, and
the time it is kept under is when it was fetched, or that of a failed lookup (`EntryOk`);
merging takes each entry from one of two dicts for which this holds. A client list
names the rank and cluster it was taken from, in the file as in memory, so that it is
enough that these are checked after reading. `NewerKept` needs, beyond this, that a run's
own dict and the file are functions on keys, and that the merge compares their times.
`AnswersInv` adds what `AnswersShown` needs: the lines shown are a prefix of the list of
operations, and what is still to be shown is the rest (`InStep`). That the list has one
block of lines for each rank (`HasBlock`) is proved by joining the ranks one at a time
(`UpTo`, `OpsAre`); that each rank gets its turn, by counting the ranks below it (`NthIs`).

`MeasureRate`: `SamplingInv` says what a sample holds at each stage: who was asked is who has
answered, failed or is pending; no reading is later than now; the second sample's come after
`wake`, which is the interval or more after all of the first's. With it, `Plan` of the samples
and `PlanReplay` of the capture are compared row by row: a narrower command line selects fewer
rows, whose replies are all in the capture; shifting all times keeps their differences; and
`FakeOf` is injective, so sums per host are renamed and not merged. `HistoryInv` relates what
was read of a peer, with the history then, to the PG and the history at any time later
(`Onward`): if the peer did not start over, it has what it had and what arrived since, and
otherwise no more than that. A target that a sample saw is still one, or its copy has ended
since (`TargetsOk`). Each change Ceph makes keeps both, and the two readings of a copy are
then compared, whenever each was made.

## Findings

One is a run that TLC finds violated, and was reproduced with the real functions:
`HostsKeptApart` (`placement.py:513`): `forbidden_hosts` ignores every OSD equal to the
one moving, also when another shard has been pinned onto it.

### Other disagreements

No run is kept for these; each was met while modelling, and the properties of the passing
runs are stated so as to hold with them.

- Re-placing a move can leave an OSD below one of its targets (`shed.py:674`), which the
  docstring rules out (`shed.py:35`).
- A shard is left for good because targets only fill up (`shed.py:722`), but a host of its
  PG can become free (`shed.py:754`). `LeftHasNoTarget` excepts the PGs another shard of
  which was moved.
- Keeping a PG's blocker entries alone, as the help says (`cancel_backfill.py:32`, `:41`),
  can leave two shards on one OSD: a companion of a requested shard may be listed as a
  blocker (`cancel_backfill.py:446`).
- `cancel_whole_pg` pairs replicas in sorted order only (`cancel_backfill.py:324`),
  although another pairing may avoid a chain: up [5,2,3], acting [1,2,4], pair 1->5.
- A call that fails other than with `FileNotFoundError` kills a process of
  `find-recent-rctime` (`:38`), and main waits for ever for its batch (`:162`): hence
  `EndsUnlessDenied`. `--threads 1` gives pools without processes (`:145`), and the same.
- `follow_renames` asks for all listings at once (`scan-growing-dirs.py:944`), so when a
  directory and one below it are both renamed, the listing of the lower one's parent may
  be made at its old path, and the rename is not followed. Nor is a directory whose
  name another takes (B to C, then A to B), as nothing is missing at its path. The help
  says that a tracked directory renamed within its parent is followed.
- `recheck_subdirs` compares paths, not inodes. When a directory takes the name of another,
  both nodes are sampled there, and an idle subdir of the one passes for that of the other if
  their rctimes are equal (`scan-growing-dirs.py:980`): its bytes are shown as files. So are
  those of a directory that takes the path of another filesystem's mount, as that path was
  skipped before (`:975`). `UnmarkedRowsAreExact` excepts both.
- A directory that vanished before the first pass and is back by the second shows its
  bytes as growth in its parent's files row, without `~`.
- `save_state` is "never" to leave its temporary file behind, on Ctrl-C too
  (`scan-growing-dirs.py:1108`), but a removal that fails, for the same reason as the save
  perhaps, or a second Ctrl-C before it leaves it there. `NoTempLeft` excepts these.
- `mds-ops-pretty` stamps the old path with the present time when a lookup fails
  (`:513`), and saves it with another lookup's result, although only successful
  resolutions are to be persisted (`:459`). An update between the read and the
  replacement of the file is lost (`:471`, `:469`). And an answer of one rank that is
  no JSON ends the whole run, although one rank's failure is not to (`:896`).

## What is only model-checked, and what is not modelled

*Only model-checked*: `FractionIsShare`, up to 6 bits; of `ScanGrowingDirs`,
`UnmarkedRowsAreExact` and `GrowthIsSeen`, which relate the report to the filesystem's whole
history since the first pass: a proof needs that a directory whose rctime did not move has
the same bytes below it, by induction over the tree, a fact about data;
that `Shed`'s runs end (`Finishes`), and `RecentRctime`'s (`EndsUnlessDenied`): liveness
is out of the prover's reach. `HostsKeptApart`, the finding, is false.

*Not modelled*: fetching and parsing (the snapshot is the input); formatting of the
reports; of `resolve_blockers`' verdicts, all but `stuck`; the slots that `retarget` finds;
the choice of sources and level by `balance`; in `scan-growing-dirs` the order within a pass,
differing intervals and the delay of rstats; two hosts that save to one file with the same
process identifier; in
`measure-rate` the sorting of rows, and a replay wider than its capture; and the
components marked `not_modelled` in `PROJECT.json`.
