---------------------------- MODULE MeasureRate -----------------------------
(***************************************************************************)
(* measure-rate: two samples of the copies that are moving, and from them    *)
(* the rate of each and the sums per OSD and host; the samples may be saved  *)
(* and replayed.  A sample is a dump of all PGs, then a query of the backfill *)
(* positions of each PG that is shown, by a pool of threads, each of which    *)
(* may fail; the copy's progress is then the PG's counters', which are        *)
(* unreliable.  All the while backfills move on, end, start over, wait, and   *)
(* are given other targets.                                                   *)
(*                                                                         *)
(* A copy is <<PG, shard, OSD it is going to>>; the shard is 0 in a           *)
(* replicated PG.                                                             *)
(***************************************************************************)
EXTENDS Positions, Sequences, SequencesExt

CONSTANTS
  Osd,
  None,         \* an empty slot
  Host,         \* the hosts, as <<name without its trailing number, the number or 0>>
  HostOf,       \* the host of each OSD
  Pg, Ec,       \* the PGs, and those of erasure-coded pools
  Seed,         \* the number of a PG in its pool
  Starts,       \* the states of the PGs to start from
  Arguments,    \* the command lines: [osds, hosts, pgs, all]
  Interval,     \* --interval
  MaxClock,     \* bound: how long a run may take
  MaxChanges    \* bound: how often the PGs may change

VARIABLES
  pgs,       \* the PGs
  clock,
  changes,   \* how many changes there were
  past,      \* history of each copy: how much arrived, how often it started over or ended
  phase,     \* what the run is about to do
  args,      \* its command line
  samples,   \* the samples it has taken
  pending,   \* the PGs being queried for the last one
  wake,      \* when to take the second sample
  capture,   \* what --save-state wrote
  result     \* what is printed

vars == <<pgs, clock, changes, past, phase, args, samples, pending, wake, capture, result>>
cluster == <<pgs, changes, past>>
tool == <<phase, args, samples, pending, wake, capture, result>>

-----------------------------------------------------------------------------
(* The PGs.                                                                 *)

Shard == {1, 2}

Peers(p) == Osd \X (IF p \in Ec THEN Shard ELSE {0})

Places == UNION {{p} \X Peers(p) : p \in Pg}

RealIn(osds) == ToSet(osds) \ {None}

\* ec_shard_moves, and the targets of replica_pairs: the <<OSD, shard>> data is going to.
Targets(p, pg) ==
  IF p \in Ec
  THEN {<<pg.up[i], i>> : i \in {j \in DOMAIN pg.up : pg.up[j] \notin {None, pg.acting[j]}}}
  ELSE {<<o, 0>> : o \in RealIn(pg.up) \ RealIn(pg.acting)}

\* copies_moving: with the copies that have nowhere to go.
CopiesMoving(p, pg) ==
  LET here == RealIn(pg.acting)
      nowhere == Len(pg.up) - Cardinality(here) - Cardinality(RealIn(pg.up) \ here)
  IN  Cardinality(Targets(p, pg)) +
        IF p \in Ec THEN Cardinality({i \in DOMAIN pg.up : pg.up[i] = None /\ pg.acting[i] = None})
        ELSE Max({0, nowhere})

Size(p) == Objects[Seed[p]]

\* up, acting: one slot per shard; active: backfilling, not waiting; done: how many objects
\* each peer has received; left: Ceph's counters of objects misplaced and degraded.
PgTyped(p, pg) ==
  pg \in [up : [Shard -> Osd \union {None}], acting : [Shard -> Osd \union {None}],
         active : BOOLEAN, done : [Peers(p) -> 0..Size(p)], left : Nat]

ASSUME MeasureTyped ==
  /\ IsFiniteSet(Osd) /\ None \notin Osd
  /\ IsFiniteSet(Pg)
  /\ Ec \subseteq Pg
  /\ Seed \in [Pg -> 0..(PgNum - 1)]
  /\ HostOf \in [Osd -> Host]
  /\ \A s \in Starts : DOMAIN s = Pg /\ \A p \in Pg : PgTyped(p, s[p])
  /\ Arguments \subseteq
       [osds : SUBSET Osd, hosts : SUBSET Host, pgs : SUBSET Pg, all : BOOLEAN]
  /\ Interval \in Nat \ {0}

\* Nothing that happens before the first sample or after the last makes a difference.
Meanwhile == phase \in {"querying", "waiting"}

Changed(p, pg) ==
  /\ Meanwhile
  /\ changes < MaxChanges
  /\ changes' = changes + 1
  /\ pgs' = [pgs EXCEPT ![p] = pg]
  /\ UNCHANGED <<clock, tool>>

\* Some objects arrive, and the counters count down.
Copy(p, peer) ==
  \E n \in 1..(Size(p) - pgs[p].done[peer]) :
    /\ pgs[p].active
    /\ peer \in Targets(p, pgs[p])
    /\ Changed(p, [pgs[p] EXCEPT !.done[peer] = @ + n, !.left = Max({0, @ - n})])
    /\ past' = [past EXCEPT !.arrived[<<p, peer>>] = @ + n]

Ended(p, to) ==
  past' = [past EXCEPT !.ended = [x \in Places |->
    IF x[1] = p /\ x[2] \in Targets(p, pgs[p]) \ Targets(p, to) THEN @[x] + 1 ELSE @[x]]]

\* All targets have everything.
Finish(p) ==
  /\ Targets(p, pgs[p]) # {}
  /\ \A peer \in Targets(p, pgs[p]) : pgs[p].done[peer] = Size(p)
  /\ LET to == [pgs[p] EXCEPT !.acting = pgs[p].up, !.active = FALSE, !.left = 0]
     IN  Changed(p, to) /\ Ended(p, to)

\* A slot is given another OSD, or its own back; the counters are reset.
Retarget(p, i, o) ==
  LET to == [pgs[p] EXCEPT !.up[i] = o]
  IN  /\ o \notin ToSet(pgs[p].up)
      /\ \A j \in Shard \ {i} : pgs[p].acting[j] # o
      /\ Changed(p, [to EXCEPT !.left = CopiesMoving(p, to) * Size(p)])
      /\ Ended(p, to)

\* A target starts over; the counters need not say so.
Restart(p, peer) ==
  /\ pgs[p].done[peer] > 0
  /\ Changed(p, [pgs[p] EXCEPT !.done[peer] = 0])
  /\ past' = [past EXCEPT !.restarts[<<p, peer>>] = @ + 1]

\* The PG must wait for its reservations, or gets them.
Switch(p) ==
  /\ Targets(p, pgs[p]) # {}
  /\ Changed(p, [pgs[p] EXCEPT !.active = ~ @])
  /\ UNCHANGED past

Change ==
  \E p \in Pg :
    \/ Finish(p) \/ Switch(p)
    \/ \E peer \in Peers(p) : Copy(p, peer) \/ Restart(p, peer)
    \/ \E i \in Shard, o \in Osd : Retarget(p, i, o)

Tick ==
  /\ Meanwhile
  /\ clock < MaxClock
  /\ clock' = clock + 1
  /\ UNCHANGED <<cluster, tool>>

-----------------------------------------------------------------------------
(* The rows of a sample.                                                    *)

\* find_movements and RowFilter.apply.
Movements(a, stats, hostOf) ==
  {<<x[1], x[2][2], x[2][1]>> :
     x \in {y \in Places :
       /\ y[2] \in Targets(y[1], stats[y[1]])
       /\ a.pgs = {} \/ y[1] \in a.pgs
       /\ a.osds = {} \/ y[2][1] \in a.osds
       /\ a.hosts = {} \/ hostOf[y[2][1]] \in a.hosts}}

Shown(a, stats, found) == {c \in found : a.all \/ stats[c[1]].active}

\* The PGs to query.
Select(a, stats, hostOf) == {c[1] : c \in Shown(a, stats, Movements(a, stats, hostOf))}

\* extract_backfill_positions, of what a PG says when it is queried.
PositionsOf(p, pg) == [peer \in Targets(p, pg) |-> PositionAfter[Seed[p]][pg.done[peer]]]

\* counter_progress.
CounterProgress(p, pg) ==
  LET total == Size(p) * CopiesMoving(p, pg)
  IN  [pct |-> IF total = 0 THEN Unknown ELSE Max({0, Full - (Full * pg.left) \div total}),
       exact |-> FALSE]

\* copy_progress, for a copy of a sample.
Progress(sample, c) ==
  LET p == c[1]
      peer == <<c[3], c[2]>>
      known == p \in DOMAIN sample.replies /\ peer \in DOMAIN sample.replies[p].positions
      pct == IF known THEN Fraction[<<sample.replies[p].positions[peer], Seed[p]>>] ELSE Unknown
  IN  IF pct = Unknown THEN CounterProgress(p, sample.stats[p]) ELSE [pct |-> pct, exact |-> TRUE]

ProgressTime(sample, c) ==
  IF Progress(sample, c).exact THEN sample.replies[c[1]].time ELSE sample.time

-----------------------------------------------------------------------------
(* Rates.                                                                   *)

NoRate(why) == [why |-> why, delta |-> 0, seconds |-> 0, toGo |-> 0, exact |-> TRUE]

\* copy_rate: the ETA is toGo * seconds / delta, if delta is not 0.
CopyRate(before, after, seconds) ==
  CASE before.pct = Unknown \/ after.pct = Unknown \/ seconds = 0 -> NoRate("unknown")
    [] OTHER ->
         CASE before.exact # after.exact -> NoRate("mixed")
           [] before.exact = after.exact /\ after.pct < before.pct -> NoRate("backwards")
           [] OTHER -> [why |-> "measured", delta |-> after.pct - before.pct, seconds |-> seconds,
                        toGo |-> Full - after.pct, exact |-> after.exact]

\* Mutant: a copy is known by its PG and shard.
SameSlot(c, rows) == {d \in rows : d[1] = c[1] /\ d[2] = c[2]}

\* row_key: the same copy among another sample's rows.
SameCopy(c, rows) == {d \in rows : d = c}

RateOf(first, firstRows, second, c) ==
  IF SameCopy(c, firstRows) = {} THEN NoRate("new")
  ELSE LET d == CHOOSE x \in SameCopy(c, firstRows) : TRUE
       IN  CopyRate(Progress(first, d), Progress(second, c),
                    ProgressTime(second, c) - ProgressTime(first, d))

\* Mutant: what is no longer shown is gone.
NotShown(a, rows, stats, hostOf) ==
  Cardinality(rows \ Shown(a, stats, Movements(a, stats, hostOf)))

\* count_gone: what is not even waiting.
CountGone(a, rows, stats, hostOf) == Cardinality(rows \ Movements(a, stats, hostOf))

\* aggregate: the copies arriving at each key, and those whose rates are summed.
Flows(rows, keyOf) ==
  [k \in {keyOf[c[3]] : c \in DOMAIN rows} |->
     LET here == {c \in DOMAIN rows : keyOf[c[3]] = k}
         summed == {c \in here : rows[c].why = "measured"}
     IN  [copies |-> Cardinality(here), summed |-> summed,
          exact |-> \A c \in summed : rows[c].exact]]

\* Mutant: those of the last sample.
FailedLast(taken) == taken[Len(taken)].failed

\* The PGs a query failed for, in either sample.
Failed(taken) == UNION {taken[i].failed : i \in DOMAIN taken}

\* plan, once the samples are taken.
Plan(a, taken, hostOf) ==
  LET rows(i) == Shown(a, taken[i].stats, Movements(a, taken[i].stats, hostOf))
      last == Len(taken)
      both == last = 2
      rated == IF ~ both THEN <<>>
               ELSE [c \in rows(2) |-> RateOf(taken[1], rows(1), taken[2], c)]
  IN  [rows |-> rated,
       osds |-> Flows(rated, [o \in Osd |-> o]),
       hosts |-> Flows(rated, hostOf),
       gone |-> IF both THEN CountGone(a, rows(1), taken[2].stats, hostOf) ELSE 0,
       hidden |-> Cardinality(Movements(a, taken[last].stats, hostOf) \ rows(last)),
       queried |-> UNION {taken[i].asked : i \in DOMAIN taken},
       failed |-> Failed(taken)]

-----------------------------------------------------------------------------
(* Sampling live.                                                           *)

\* Ceph's reply to 'pg dump'.
Stats == [p \in Pg |-> [up |-> pgs[p].up, acting |-> pgs[p].acting,
                        active |-> pgs[p].active, left |-> pgs[p].left]]

Take ==
  /\ phase = "first" \/ (phase = "waiting" /\ clock >= wake)
  /\ pending' = Select(args, Stats, HostOf)
  /\ samples' = Append(samples, [stats |-> Stats, time |-> clock, asked |-> pending',
                                 replies |-> <<>>, failed |-> {}, before |-> past, past |-> <<>>])
  /\ phase' = "querying"
  /\ UNCHANGED <<cluster, clock, args, wake, capture, result>>

Also(f, p, v) == [q \in DOMAIN f \union {p} |-> IF q = p THEN v ELSE f[q]]

\* What came of the query of a PG is put into the sample.
Reply(p, sample) ==
  /\ phase = "querying"
  /\ p \in pending
  /\ pending' = pending \ {p}
  /\ samples' = [samples EXCEPT ![Len(samples)] = [sample EXCEPT !.past = Also(@, p, past)]]
  /\ UNCHANGED <<cluster, clock, phase, args, wake, capture, result>>

\* A thread of _query_positions: over librados, or if there is none, or it cannot connect,
\* the CLI.
Query(p) ==
  LET reply == [positions |-> PositionsOf(p, pgs[p]), time |-> clock]
  IN  Reply(p, [Last(samples) EXCEPT !.replies = Also(@, p, reply)])

\* It times out, is refused, or its answer cannot be parsed.
QueryFails(p) == Reply(p, [Last(samples) EXCEPT !.failed = @ \union {p}])

WakeTime == clock + Interval

Wait ==
  /\ phase = "querying"
  /\ pending = {}
  /\ Len(samples) = 1
  /\ samples[1].asked # {}
  /\ wake' = WakeTime
  /\ phase' = "waiting"
  /\ UNCHANGED <<cluster, clock, args, samples, pending, capture, result>>

\* Mutant: the times of the queries are not saved.
SavedWithDumpTimes(sample, origin) ==
  [stats |-> sample.stats, time |-> sample.time - origin,
   replies |-> [p \in DOMAIN sample.replies |->
                  [positions |-> sample.replies[p].positions, time |-> sample.time - origin]]]

\* Times are saved relative to the first dump.
SavedSample(sample, origin) ==
  [stats |-> sample.stats, time |-> sample.time - origin,
   replies |-> [p \in DOMAIN sample.replies |->
                  [sample.replies[p] EXCEPT !.time = @ - origin]]]

\* The result is printed, and the capture written.
Measure ==
  /\ phase = "querying"
  /\ pending = {}
  /\ Len(samples) = 2 \/ samples[1].asked = {}
  /\ result' = Plan(args, samples, HostOf)
  /\ capture' = [k \in DOMAIN samples |-> SavedSample(samples[k], samples[1].time)]
  /\ phase' = "measured"
  /\ UNCHANGED <<cluster, clock, args, samples, pending, wake>>

-----------------------------------------------------------------------------
(* The capture, and its replay.                                             *)

\* A stand-in as distinct as the name.
Hashed(h) == <<"hash", h>>

\* _fake_hostname: a host is known by its number only, or by a hash of its name.
FakeHostname(h) == IF h[2] # 0 THEN <<"host", h[2]>> ELSE Hashed(h)

\* _fake_hostnames: names that would collide are hashed.
FakeOf(h) ==
  IF \E g \in Host \ {h} : FakeHostname(g) = FakeHostname(h) THEN Hashed(h) ELSE FakeHostname(h)

FakeHostOf == [o \in Osd |-> FakeOf(HostOf[o])]

\* ReplaySampler.take: only the replies of the PGs that the replay's command line selects.
Replayed(a, saved) ==
  LET asked == Select(a, saved.stats, FakeHostOf)
  IN  [stats |-> saved.stats, time |-> saved.time, asked |-> asked, failed |-> {},
       replies |-> [p \in asked \intersect DOMAIN saved.replies |-> saved.replies[p]]]

\* What plan makes of a capture: it does not look at the second sample if it has no use for
\* the first.
PlanReplay(a) ==
  LET first == Replayed(a, capture[1])
  IN  IF first.asked = {} THEN Plan(a, <<first>>, FakeHostOf)
      ELSE Plan(a, <<first, Replayed(a, capture[2])>>, FakeHostOf)

\* Those a capture was made for, or fewer.
Narrower(a, b) ==
  /\ a.all => b.all
  /\ \A f \in {"osds", "hosts", "pgs"} : b[f] = {} \/ (a[f] # {} /\ a[f] \subseteq b[f])

Fake(a) == [a EXCEPT !.hosts = {FakeOf(h) : h \in @}]

-----------------------------------------------------------------------------
Nothing == [rows |-> <<>>, osds |-> <<>>, hosts |-> <<>>, gone |-> 0, hidden |-> 0,
            queried |-> {}, failed |-> {}]

Init ==
  /\ pgs \in Starts
  /\ clock = 0
  /\ changes = 0
  /\ past = [arrived |-> [x \in Places |-> 0], restarts |-> [x \in Places |-> 0],
             ended |-> [x \in Places |-> 0]]
  /\ phase = "first"
  /\ args \in Arguments
  /\ samples = <<>>
  /\ pending = {}
  /\ wake = 0
  /\ capture = <<>>
  /\ result = Nothing

Run ==
  \/ Take \/ Wait \/ Measure
  \/ \E p \in Pg : Query(p) \/ QueryFails(p)

Next == Run \/ Change \/ Tick

Spec == Init /\ [][Next]_vars

-----------------------------------------------------------------------------
(* Properties.                                                              *)

Rated == {c \in DOMAIN result.rows : result.rows[c].why = "measured"}

Between(what, c) ==
  LET x == <<c[1], <<c[3], c[2]>>>>
  IN  samples[2].past[c[1]][what][x] - samples[1].past[c[1]][what][x]

\* "Every row is measured over at least --interval seconds" (wait, progress_time), and a
\* rate without ~ is that of what arrived on the row's OSD between the two readings, and of
\* less if the backfill started over in between, whatever else became of the PG (row_key,
\* copy_rate, backfill_fraction).
RateIsArrival ==
  phase = "measured" =>
    \A c \in Rated :
      /\ result.rows[c].seconds >= Interval
      /\ result.rows[c].exact =>
           LET came == Between("arrived", c) * (Full \div Size(c[1]))
           IN  IF Between("restarts", c) = 0 THEN result.rows[c].delta = came
               ELSE result.rows[c].delta <= came

\* Each copy of the first sample is shown again, or left out as inactive, or counted as gone,
\* and only if it ended; the sums per OSD and per host count each row once.
CopiesAccountedFor ==
  phase = "measured" /\ Len(samples) = 2 =>
    LET rows == Shown(args, samples[1].stats, Movements(args, samples[1].stats, HostOf))
        still(c) == <<c[3], c[2]>> \in Targets(c[1], samples[2].stats[c[1]])
        sum(flows) == SumFunction([k \in DOMAIN flows |-> flows[k].copies])
    IN  /\ result.gone = Cardinality({c \in rows : ~ still(c)})
        /\ sum(result.osds) = Cardinality(DOMAIN result.rows)
        /\ sum(result.hosts) = Cardinality(DOMAIN result.rows)

\* What the footnotes say of a row without a rate is what happened: it started over, or a
\* query failed that is reported, or it was re-targeted while a sample was taken.
ReasonsAreTrue ==
  phase = "measured" =>
    \A c \in DOMAIN result.rows :
      LET x == <<c[1], <<c[3], c[2]>>>>
          row == result.rows[c]
          midway(k) == samples[k].past[c[1]].ended[x] > samples[k].before.ended[x]
      IN  /\ row.why = "backwards" /\ c[1] \notin result.failed =>
               Between("restarts", c) > 0 \/ \E k \in {1, 2} : midway(k)
          /\ row.why = "mixed" => c[1] \in result.failed \/ \E k \in {1, 2} : midway(k)

\* A replay prints what the run printed, and one that asks for less prints that part of it,
\* whatever the live queries made of it and however hosts are renamed; but a row may be new
\* to a replay without --all (LiveSampler.save, ReplaySampler.take, _fake_hostnames).
ReplaysAgree ==
  phase = "measured" =>
    \A a \in {b \in Arguments : Narrower(b, args)} :
      LET replay == PlanReplay(Fake(a))
      IN  /\ \A c \in DOMAIN replay.rows :
               /\ c \in DOMAIN result.rows
               /\ replay.rows[c] # result.rows[c] => replay.rows[c].why = "new" /\ args.all # a.all
          /\ a = args =>
               /\ [replay EXCEPT !.hosts = <<>>, !.failed = {}] = [result EXCEPT !.hosts = <<>>, !.failed = {}]
               /\ \A h \in DOMAIN result.hosts : replay.hosts[FakeOf(h)] = result.hosts[h]
=============================================================================
