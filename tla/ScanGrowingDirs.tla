-------------------------- MODULE ScanGrowingDirs --------------------------
(***************************************************************************)
(* scan-growing-dirs: two samples of the recursive size (rbytes) of every   *)
(* active directory below some roots, and from them the rows that say where *)
(* bytes are being added.  The tree is found level by level, then sampled,  *)
(* left alone for --delay, and sampled again; a directory that was renamed  *)
(* within its parent meanwhile is found again by its inode, and what became *)
(* active meanwhile is marked, since the rows cannot tell it apart.         *)
(*                                                                         *)
(* The filesystem changes under the program's feet.  A pass over all        *)
(* directories (a listing, a probe, a sample) is one step here, except in   *)
(* follow_renames, where the listings of the pool's threads race the main   *)
(* thread.  Every directory's interval is taken to be one unit of time, so  *)
(* that a rate is a difference of bytes.  Recursive sizes are those that    *)
(* rstats have propagated: their lag, which makes rates noisy, is left out. *)
(***************************************************************************)
EXTENDS Integers, FiniteSets, Sequences, SequencesExt, FiniteSetsExt

CONSTANTS
  Directory,   \* the directories there are or may be
  Name,        \* names, in the order they sort
  Top,         \* where the roots are
  Gone,        \* where a directory is that does not exist
  Starts,      \* the filesystems to start from: see FsTyped
  Arguments,   \* the sequences of ROOTs that may be given, resolved
  Threshold,   \* --threshold
  Depth,       \* --depth
  MaxDirs,     \* --max-dirs
  Writes,      \* how many bytes a write may add or remove
  NewBytes,    \* and how many a new directory has
  Lagging,     \* the directories that clients with lagging clocks work in
  Unquiet,     \* the phases during which the filesystem may change
  MaxChanges   \* bound: how often it does

VARIABLES
  fs,         \* the filesystem
  phase,      \* what sample_run is about to do
  given,      \* the ROOTs
  nodes,      \* Run.nodes, in BFS order
  level,      \* the last level of nodes, as indices
  listing,    \* the subdirs of each of these, path -> inode
  notCephfs,  \* Run.not_cephfs
  relists,    \* follow_renames: the listings of parents asked for
  rows,       \* the report
  changes,    \* the phases in which the filesystem changed, one entry per change
  atFirst     \* history: the directories as the first pass saw them

scanVars == <<fs, phase, given, nodes, level, listing, notCephfs, relists, rows, changes, atFirst>>
tool == <<phase, given, nodes, level, listing, notCephfs, relists, rows, atFirst>>

-----------------------------------------------------------------------------
(* The filesystem.                                                          *)

Calls == {"rbytes", "rctime", "entries", "list"}

\* in: the directory's parent; own: the bytes of the files directly in it; rctime: a time
\* before the idle cutoff (0), after it (1), or of a later change; denied: the calls that
\* fail; wide: the directories with more than --max-entries entries; foreign: mount points
\* of other filesystems.
FsTyped(f) ==
  f \in [dir : [Directory -> [in : Directory \union {Top, Gone}, name : Name, own : Int, rctime : Nat]],
         denied : SUBSET (Calls \X Directory),
         wide : SUBSET Directory,
         foreign : SUBSET Directory]

ASSUME ScanTyped ==
  /\ Name \subseteq Nat
  /\ IsFiniteSet(Directory)
  /\ \A f \in Starts : FsTyped(f)
  /\ \A a \in Arguments : a \in Seq(Seq(Name))
  /\ Threshold \in Nat \ {0}
  /\ Depth \in Nat
  /\ MaxDirs \in Nat \ {0}
  /\ Writes \subseteq Int
  /\ NewBytes \in Nat
  /\ Lagging \subseteq Directory
  /\ MaxChanges \in Nat

Cutoff == 1

PathsIn(dir) ==
  LET path[i \in Directory] == IF dir[i].in = Top THEN <<dir[i].name>>
                           ELSE Append(path[dir[i].in], dir[i].name)
  IN  [i \in {j \in Directory : dir[j].in # Gone} |-> path[i]]

DirAt(p) ==
  LET path == PathsIn(fs.dir)
  IN  IF \E i \in DOMAIN path : path[i] = p
      THEN CHOOSE i \in DOMAIN path : path[i] = p ELSE Gone

Within(p, top) == IsPrefix(top, p)

\* What rstats count below a path: the files of the subtree, without other filesystems.
BytesBelow(dir, p) ==
  LET path == PathsIn(dir)
      below == {j \in DOMAIN path : Within(path[j], p) /\
                                    ~ \E m \in fs.foreign : Within(path[j], path[m])}
  IN  SumFunction([j \in below |-> dir[j].own])

RBytes(i) == BytesBelow(fs.dir, PathsIn(fs.dir)[i])

Subdirs(i) == {j \in Directory : fs.dir[j].in = i}

\* Why a call on a path fails, or "none".
Error(p, call) ==
  LET i == DirAt(p)
  IN  CASE i = Gone -> "vanished"
        [] i # Gone /\ i \in fs.foreign /\ call # "list" -> "foreign"
        [] i # Gone /\ <<call, i>> \in fs.denied -> "denied"
        [] OTHER -> "none"

\* scandir: the subdirs at a path, by path.
SubdirsAt(p) == [q \in {Append(p, fs.dir[j].name) : j \in Subdirs(DirAt(p))} |-> DirAt(q)]

\* The rctime of a directory and of all above it moves on.
Touched(dir, is, now) ==
  LET path == PathsIn(dir)
  IN  [j \in Directory |->
         IF j \in DOMAIN path /\ \E i \in is \intersect DOMAIN path : Within(path[i], path[j])
         THEN [dir[j] EXCEPT !.rctime = now] ELSE dir[j]]

Exists(i) == fs.dir[i].in # Gone

\* A root or a mount point stays where it is.
Movable(i) == Exists(i) /\ fs.dir[i].in # Top /\ i \notin fs.foreign

NameFree(i, n) == \A j \in Subdirs(i) : fs.dir[j].name # n

Now == 2 + Len(changes)

\* A change bumps the rctime of the directories it is made in, and of all above them: unless
\* it comes from a client whose clock lags, and whose time is not the latest there.
Changed(dir, is) ==
  /\ changes' = Append(changes, phase)
  /\ \/ fs' = [fs EXCEPT !.dir = Touched(dir, is, Now)]
     \/ is \subseteq Lagging /\ fs' = [fs EXCEPT !.dir = dir]
  /\ UNCHANGED tool

Write(i) ==
  \E b \in Writes :
    /\ Exists(i)
    /\ fs.dir[i].own + b >= 0
    /\ Changed([fs.dir EXCEPT ![i].own = @ + b], {i})

Create(i, parent, n) ==
  /\ ~ Exists(i)
  /\ Exists(parent)
  /\ parent \notin fs.foreign
  /\ NameFree(parent, n)
  /\ Changed([fs.dir EXCEPT ![i] = [in |-> parent, name |-> n, own |-> NewBytes, rctime |-> Now]],
             {parent})

Move(i, parent, n) ==
  LET path == PathsIn(fs.dir)
  IN  /\ Movable(i)
      /\ Exists(parent)
      /\ parent \notin fs.foreign
      /\ ~ Within(path[parent], path[i])
      /\ NameFree(parent, n)
      /\ Changed([fs.dir EXCEPT ![i].in = parent, ![i].name = n], {fs.dir[i].in, i})

RemoveDir(i) ==
  /\ Movable(i)
  /\ Subdirs(i) = {}
  /\ Changed([fs.dir EXCEPT ![i].in = Gone], {fs.dir[i].in})

\* The size of a directory can no longer be read.
Deny(i) ==
  /\ Exists(i)
  /\ <<"rbytes", i>> \notin fs.denied
  /\ fs' = [fs EXCEPT !.denied = @ \union {<<"rbytes", i>>}]
  /\ changes' = Append(changes, phase)
  /\ UNCHANGED tool

Change ==
  /\ phase \in Unquiet
  /\ Len(changes) < MaxChanges
  /\ \/ \E i \in Directory : Write(i) \/ RemoveDir(i) \/ Deny(i)
     \/ \E i, parent \in Directory, n \in Name : Create(i, parent, n) \/ Move(i, parent, n)

-----------------------------------------------------------------------------
(* The tracked directories.                                                 *)

NoSample == -1

\* reason: why it is a leaf, "" for a listed one; renamedFrom: <<>> if it was not.
NewNode(path, parent, depth, ino) ==
  [path |-> path, parent |-> parent, depth |-> depth, ino |-> ino, reason |-> "",
   idle |-> <<>>, unreadable |-> {}, wokeUp |-> {}, s1 |-> NoSample, s2 |-> NoSample,
   error |-> FALSE, vanished |-> FALSE, renamedFrom |-> <<>>]

Node == 1..Len(nodes)

Kids(i) == {j \in Node : nodes[j].parent = i}

Subtree(i) ==
  LET tree[k \in Node] == {k} \union UNION {tree[j] : j \in Kids(k)}
  IN  tree[i]

IsSampled(i) == nodes[i].s1 # NoSample /\ nodes[i].s2 # NoSample

Rate(i) == nodes[i].s2 - nodes[i].s1

\* M(n).
Measured ==
  LET m[i \in Node] == IF IsSampled(i) THEN Rate(i)
                       ELSE SumFunction([j \in Kids(i) |-> m[j]])
  IN  m

\* Whether own(n) is defined, and what it is.
HasOwn(i) == nodes[i].reason = "" /\ IsSampled(i)

OwnRate(i) == Rate(i) - SumFunction([j \in Kids(i) |-> Measured[j]])

-----------------------------------------------------------------------------
(* preflight and build.                                                     *)

Failed(why) ==
  /\ phase' = "failed"
  /\ rows' = {}
  /\ UNCHANGED <<fs, given, nodes, level, listing, notCephfs, relists, changes, atFirst>>

RootProblem(k) ==
  \/ \E call \in {"rbytes", "rctime", "entries"} : Error(given[k], call) # "none"
  \/ \E m \in 1..(k - 1) : Within(given[k], given[m]) \/ Within(given[m], given[k])

RootsAreBad == \E k \in DOMAIN given : RootProblem(k)

Preflight ==
  /\ phase = "preflight"
  /\ ~ RootsAreBad
  /\ Len(given) <= MaxDirs
  /\ nodes' = [k \in DOMAIN given |-> NewNode(given[k], 0, 0, DirAt(given[k]))]
  /\ level' = DOMAIN given
  /\ phase' = IF Depth = 0 THEN "leaves" ELSE "listing"
  /\ UNCHANGED <<fs, given, listing, notCephfs, relists, rows, changes, atFirst>>

Refuse ==
  /\ phase = "preflight"
  /\ RootsAreBad \/ Len(given) > MaxDirs
  /\ Failed("roots")

\* _list_subdirs.
ListOutcome(n) ==
  LET rctime == IF n.depth = 0 THEN Error(n.path, "rctime") ELSE "none"
      i == DirAt(n.path)
  IN  CASE i = Gone -> "vanished"
        [] rctime # "none" -> "unlistable"
        [] n.depth = 0 /\ rctime = "none" /\ fs.dir[i].rctime < Cutoff -> "idle"
        [] Error(n.path, "entries") # "none" -> "unlistable"
        [] i \in fs.wide -> "wide"
        [] Error(n.path, "list") # "none" -> "unlistable"
        [] OTHER -> "listed"

ListLevel ==
  /\ phase = "listing"
  /\ LET out == [i \in level |-> ListOutcome(nodes[i])]
     IN  /\ nodes' = [i \in Node |->
              IF i \notin level \/ out[i] = "listed" THEN nodes[i]
              ELSE IF out[i] = "vanished" THEN [nodes[i] EXCEPT !.vanished = TRUE]
              ELSE [nodes[i] EXCEPT !.reason = out[i]]]
         /\ listing' = [i \in level |-> IF out[i] = "listed" THEN SubdirsAt(nodes[i].path) ELSE <<>>]
  /\ phase' = "probing"
  /\ UNCHANGED <<fs, given, level, notCephfs, relists, rows, changes, atFirst>>

\* What a probe of a path says: its rctime is recent or not, or the error reading it.
Probe(p) ==
  IF Error(p, "rctime") # "none" THEN Error(p, "rctime")
  ELSE IF fs.dir[DirAt(p)].rctime >= Cutoff THEN "active" ELSE "idle"

\* The (node, path) pairs listed whose directory is active, in BFS order.
Found == {x \in UNION {{i} \X DOMAIN listing[i] : i \in level} : Probe(x[2]) = "active"}

Earlier(x, y) == x[1] < y[1] \/ (x[1] = y[1] /\ Last(x[2]) < Last(y[2]))

Active ==
  [k \in 1..Cardinality(Found) |->
     CHOOSE x \in Found : Cardinality({y \in Found : Earlier(y, x)}) = k - 1]

Those(i, what) == {p \in DOMAIN listing[i] : Probe(p) = what}

TooMany == Len(nodes) + Len(Active) > MaxDirs

ProbeLevel ==
  LET next == [k \in DOMAIN Active |->
                 LET i == Active[k][1]
                     p == Active[k][2]
                 IN  NewNode(p, i, nodes[i].depth + 1, listing[i][p])]
      seen == [i \in Node |->
                 IF i \notin level THEN nodes[i]
                 ELSE [nodes[i] EXCEPT
                         !.idle = [p \in Those(i, "idle") |-> fs.dir[DirAt(p)].rctime],
                         !.unreadable = Those(i, "denied")]]
      deepest == next # <<>> /\ next[1].depth = Depth
  IN  /\ phase = "probing"
      /\ ~ TooMany
      /\ nodes' = seen \o next
      /\ level' = (Len(nodes) + 1)..(Len(nodes) + Len(next))
      /\ notCephfs' = notCephfs \union UNION {Those(i, "foreign") : i \in level}
      /\ phase' = IF next = <<>> \/ deepest THEN "leaves" ELSE "listing"
      /\ listing' = <<>>
      /\ UNCHANGED <<fs, given, relists, rows, changes, atFirst>>

GiveUp ==
  /\ phase = "probing"
  /\ TooMany
  /\ Failed("dirs")

\* What is left of the level is at --depth.
MarkLeaves ==
  /\ phase = "leaves"
  /\ nodes' = [i \in Node |-> IF i \in level THEN [nodes[i] EXCEPT !.reason = "depth"] ELSE nodes[i]]
  /\ phase' = "sampling"
  /\ UNCHANGED <<fs, given, level, listing, notCephfs, relists, rows, changes, atFirst>>

-----------------------------------------------------------------------------
(* The two passes, and what moved in between.                               *)

\* sample_all, for one node that is to be sampled.
Sampled(n, second) ==
  CASE n.error \/ n.vanished -> n
    [] ~ (n.error \/ n.vanished) /\ Error(n.path, "rbytes") = "none" ->
         IF second THEN [n EXCEPT !.s2 = RBytes(DirAt(n.path))]
         ELSE [n EXCEPT !.s1 = RBytes(DirAt(n.path))]
    [] ~ (n.error \/ n.vanished) /\ Error(n.path, "rbytes") = "vanished" ->
         [n EXCEPT !.vanished = TRUE, !.s2 = IF second THEN 0 ELSE NoSample]
    [] OTHER -> [n EXCEPT !.error = TRUE]

FirstPass ==
  /\ phase = "sampling"
  /\ nodes' = [i \in Node |-> Sampled(nodes[i], FALSE)]
  /\ atFirst' = fs.dir
  /\ phase' = "sleeping"
  /\ UNCHANGED <<fs, given, level, listing, notCephfs, relists, rows, changes>>

\* Mutant: as of before the pass.
MissingBefore(ns) == {i \in Node : nodes[i].vanished /\ nodes[i].s1 # NoSample}

\* The tracked directories that may have been renamed.
Missing(ns) == {i \in DOMAIN ns : ns[i].vanished /\ ns[i].s1 # NoSample /\ ns[i].parent # 0}

\* follow_renames asks the pool for a listing of each parent at once.
SecondPass ==
  /\ phase = "sleeping"
  /\ nodes' = [i \in Node |-> Sampled(nodes[i], TRUE)]
  /\ relists' = [missing |-> Missing(nodes'),
                 parents |-> {nodes'[i].parent : i \in Missing(nodes')},
                 found |-> <<>>, renamed |-> {}]
  /\ phase' = "following"
  /\ UNCHANGED <<fs, given, level, listing, notCephfs, rows, changes, atFirst>>

Listable(p) == Error(p, "list") = "none"

RelistOf(i) == IF Listable(nodes[i].path) THEN SubdirsAt(nodes[i].path) ELSE <<>>

Also(f, p, v) == [q \in DOMAIN f \union {p} |-> IF q = p THEN v ELSE f[q]]

\* A thread of the pool lists a parent, at the path it has by then.
Relist(p) ==
  /\ phase = "following"
  /\ p \in relists.parents \ DOMAIN relists.found
  /\ relists' = [relists EXCEPT !.found = Also(@, p, RelistOf(p))]
  /\ UNCHANGED <<fs, phase, given, nodes, level, listing, notCephfs, rows, changes, atFirst>>

Moved(p, old, new) == IF Within(p, old) THEN new \o SubSeq(p, Len(old) + 1, Len(p)) ELSE p

\* _move, for one node of the subtree.
Rerooted(n, old, new) ==
  LET to(p) == Moved(p, old, new)
  IN  [n EXCEPT !.path = to(@),
                !.idle = [q \in {to(p) : p \in DOMAIN @} |-> @[CHOOSE p \in DOMAIN @ : to(p) = q]],
                !.unreadable = {to(p) : p \in @},
                !.wokeUp = {to(p) : p \in @}]

\* The missing subdirs of a parent that its listing shows, and where.
Renamed(p) ==
  LET found == relists.found[p]
  IN  {m \in (relists.missing \intersect Kids(p)) \X DOMAIN found : found[m[2]] = nodes[m[1]].ino}

\* In the listing's order.
Listed(some) == SetToSortSeq(some, LAMBDA x, y : Last(x[2]) < Last(y[2]))

\* The main thread takes the listings; it does not wait for a move to be done before the
\* others are asked for.  In which order it takes them is up to a set's iteration.
FollowIn(p) ==
  /\ phase = "following"
  /\ p \in relists.parents \intersect DOMAIN relists.found
  /\ LET renamed == Renamed(p)
         root(i) == {m \in renamed : i \in Subtree(m[1])}
         after(i) == LET m == CHOOSE m \in root(i) : TRUE
                         n == Rerooted(nodes[i], nodes[m[1]].path, m[2])
                     IN  IF i = m[1] THEN [n EXCEPT !.renamedFrom = nodes[i].path] ELSE n
     IN  /\ nodes' = [i \in Node |-> IF root(i) = {} THEN nodes[i] ELSE after(i)]
         /\ notCephfs' = FoldLeft(LAMBDA ps, m : {Moved(q, nodes[m[1]].path, m[2]) : q \in ps},
                                  notCephfs, Listed(renamed))
         /\ relists' = [relists EXCEPT !.parents = @ \ {p},
                                       !.renamed = @ \union {m[1] : m \in renamed}]
  /\ UNCHANGED <<fs, phase, given, level, listing, rows, changes, atFirst>>

\* Those that were renamed, and what was missing below them, are sampled where they are.
Reread ==
  LET again == {i \in UNION {Subtree(c) : c \in relists.renamed} :
                  nodes[i].vanished /\ nodes[i].s1 # NoSample}
  IN  /\ phase = "following"
      /\ relists.parents = {}
      /\ nodes' = [i \in Node |->
           IF i \in again THEN Sampled([nodes[i] EXCEPT !.vanished = FALSE, !.s2 = NoSample], TRUE)
           ELSE nodes[i]]
      /\ phase' = "rechecking"
      /\ UNCHANGED <<fs, given, level, listing, notCephfs, relists, rows, changes, atFirst>>

Suspects == {i \in Node : HasOwn(i) /\ OwnRate(i) # 0}

\* Subdirs that are new, or whose rctime moved, or that can no longer be probed.
Recheck ==
  LET tracked(i) == {nodes[j].path : j \in Kids(i)}
      new(i) == DOMAIN RelistOf(i) \ (tracked(i) \union DOMAIN nodes[i].idle
                                        \union nodes[i].unreadable \union notCephfs)
      woken(i) == {p \in DOMAIN nodes[i].idle : Error(p, "rctime") = "none" /\
                                                fs.dir[DirAt(p)].rctime # nodes[i].idle[p]}
      lost(i) == {p \in DOMAIN nodes[i].idle : Error(p, "rctime") = "denied"}
  IN  /\ phase = "rechecking"
      /\ nodes' = [i \in Node |->
           IF i \notin Suspects THEN nodes[i]
           ELSE [nodes[i] EXCEPT !.wokeUp = @ \union new(i) \union woken(i),
                                 !.unreadable = @ \union lost(i)]]
      /\ phase' = "reporting"
      /\ UNCHANGED <<fs, given, level, listing, notCephfs, relists, rows, changes, atFirst>>

-----------------------------------------------------------------------------
(* analyze and report.                                                      *)

Row(i, kind, rate, behind) == [node |-> i, kind |-> kind, rate |-> rate, behind |-> behind]

\* Mutant: a row at the threshold is hidden.
MoreThan(row) == IF row.rate > Threshold THEN {row} ELSE {}

AtLeast(row) == IF row.rate >= Threshold THEN {row} ELSE {}

\* Mutant: without the tracked ones.
UnmeasuredUntracked(i) == nodes[i].unreadable \union nodes[i].wokeUp

\* The subdirs whose growth a node's own rate absorbs.
Unmeasured(i) ==
  nodes[i].unreadable \union nodes[i].wokeUp
    \union {nodes[j].path : j \in {k \in Kids(i) : nodes[k].error}}

\* Mutant: all growth below is in some row.
AllCovered(known) == SumFunction([j \in DOMAIN known |-> Measured[j]])

\* How much growth the rows below a node show.
CoveredBelow(known) == SumFunction([j \in DOMAIN known |-> known[j].covered])

RatesOf(some) == SumFunction([r \in some |-> r.rate])

\* What analyze() knows of a subtree, from what it knows of those below: its rows, how much
\* of its growth they cover, and the unmeasured subdirs in the part they do not.
Analysis(i, known) ==
  LET below == [rows |-> UNION {known[j].rows : j \in DOMAIN known},
                covered |-> CoveredBelow(known),
                behind |-> UNION {known[j].behind : j \in DOMAIN known}]
      tree == AtLeast(Row(i, "tree", Rate(i), {}))
      files == AtLeast(Row(i, "files", OwnRate(i), Unmeasured(i)))
      covered == below.covered + RatesOf(files)
      behind == below.behind \union IF files = {} THEN Unmeasured(i) ELSE {}
      spread == IF DOMAIN known = {} THEN {} ELSE AtLeast(Row(i, "spread", Rate(i) - covered, behind))
  IN  IF ~ IsSampled(i) THEN below
      ELSE IF nodes[i].reason # ""
      THEN [below EXCEPT !.rows = @ \union tree, !.covered = @ + RatesOf(tree)]
      ELSE [rows |-> below.rows \union files \union spread,
            covered |-> IF spread = {} THEN covered ELSE Rate(i),
            behind |-> IF spread = {} THEN behind ELSE {}]

\* Bottom-up.
Analyzed ==
  LET a[i \in Node] == Analysis(i, [j \in Kids(i) |-> a[j]])
  IN  a

Report ==
  /\ phase \in {"reporting", "loaded"}
  /\ rows' = UNION {Analyzed[i].rows : i \in {j \in Node : nodes[j].parent = 0}}
  /\ phase' = IF phase = "loaded" THEN "replayed"
              ELSE IF \E i \in Node : IsSampled(i) THEN "done" ELSE "unsampled"
  /\ UNCHANGED <<fs, given, nodes, level, listing, notCephfs, relists, changes, atFirst>>

\* Mutant: a field is forgotten.
WithoutWoken(n) == [n EXCEPT !.idle = <<>>, !.wokeUp = {}]

\* What --save writes of a node and --load reads back: all but the idle subdirs.
Restored(n) == [n EXCEPT !.idle = <<>>]

\* _node_from_state: a parent comes before its children.  (That the interval between two
\* samples is positive holds as it is one unit.)
Loadable == \A i \in Node : nodes[i].parent < i

\* --save, also of a run that is about to fail as nothing was sampled, and a later --load.
SaveAndLoad ==
  /\ phase \in {"done", "unsampled"}
  /\ Loadable
  /\ nodes' = [i \in Node |-> Restored(nodes[i])]
  /\ phase' = "loaded"
  /\ UNCHANGED <<fs, given, level, listing, notCephfs, relists, rows, changes, atFirst>>

-----------------------------------------------------------------------------
ScanInit ==
  /\ fs \in Starts
  /\ given \in Arguments
  /\ phase = "preflight"
  /\ nodes = <<>>
  /\ level = {}
  /\ listing = <<>>
  /\ notCephfs = {}
  /\ relists = [missing |-> {}, parents |-> {}, found |-> <<>>, renamed |-> {}]
  /\ rows = {}
  /\ changes = <<>>
  /\ atFirst = fs.dir

Scan ==
  \/ Preflight \/ Refuse \/ ListLevel \/ ProbeLevel \/ GiveUp \/ MarkLeaves
  \/ FirstPass \/ SecondPass
  \/ \E p \in Node : Relist(p) \/ FollowIn(p)
  \/ Reread \/ Recheck \/ Report \/ SaveAndLoad

\* The run is over, and so are the changes.
ScanOver == phase \in {"failed", "replayed"} /\ UNCHANGED scanVars

ScanNext == Scan \/ Change \/ ScanOver

ScanSpec == ScanInit /\ [][ScanNext]_scanVars

-----------------------------------------------------------------------------
(* Properties.                                                              *)

OnlyAsleep == \A k \in DOMAIN changes : changes[k] = "sleeping"

RowsUnder(i) == {r \in rows : r.node \in Subtree(i)}

RatesUnder(i) == RatesOf(RowsUnder(i))

Parts(i) == {j \in Subtree(i) : IsSampled(j)}

PartRate(j) == IF HasOwn(j) THEN OwnRate(j) ELSE Rate(j)

\* No growth is hidden (analyze): what a directory's rows, and those below it, leave of its
\* rate is less than the threshold, whatever shrank, vanished or could not be sampled.  And
\* none is reported twice (measured, analyze): as long as nothing shrank, those rows never
\* add up to more than it grew, also where a directory in the middle could not be sampled.
RowsAddUp ==
  phase = "done" =>
    \A i \in Node : IsSampled(i) =>
      /\ Rate(i) - RatesUnder(i) < Threshold
      /\ (\A j \in Parts(i) : PartRate(j) >= 0) => RatesUnder(i) <= Rate(i)

\* The growth of the idle subdirs that a node's second look does not tell: those whose rctime
\* is what it was, as a client with a lagging clock may leave it.
GrownAsleep(n) ==
  LET asleep == {p \in DOMAIN n.idle : DirAt(p) # Gone /\ fs.dir[DirAt(p)].rctime = n.idle[p]}
      before(p) == Append(PathsIn(atFirst)[n.ino], Last(p))
      grown(p) == BytesBelow(fs.dir, p) - BytesBelow(atFirst, before(p))
  IN  SumFunction([p \in {q \in asleep : grown(q) > 0} |-> grown(p)])

\* A files row without ~ is about the files directly in the directory (recheck_subdirs): it never
\* says more than was added to them, and below the idle subdirs whose rctime did not move, which
\* writers with lagging clocks can bring about.  This is as long as the filesystem changed only
\* during the sleep, rstats have caught up, the directory can still be listed when it is looked
\* at again, and it is not one that took the name of another, nor is there one at the path of
\* another filesystem.
UnmarkedRowsAreExact ==
  phase = "done" /\ OnlyAsleep /\ (\A p \in notCephfs : DirAt(p) \in fs.foreign \union {Gone}) =>
    \A r \in rows :
      LET n == nodes[r.node]
      IN  r.kind = "files" /\ r.behind = {} /\ DirAt(n.path) = n.ino /\ Listable(n.path) =>
            r.rate <= fs.dir[n.ino].own - atFirst[n.ino].own + GrownAsleep(n)

\* follow_renames: a directory that was there in the first pass and not in the second,
\* while its parent lists its inode, is found again.
Followed(i) ==
  LET n == nodes[i]
  IN  n.vanished /\ n.s1 # NoSample /\ n.parent # 0 /\ Listable(nodes[n.parent].path)
        => \A p \in DOMAIN SubdirsAt(nodes[n.parent].path) : SubdirsAt(nodes[n.parent].path)[p] # n.ino

\* ... if the filesystem is quiet by then, and nothing above it was itself renamed.
RenamesFollowed ==
  phase = "done" /\ OnlyAsleep =>
    \A i \in Node :
      (\A j \in Node \ {i} : i \in Subtree(j) => nodes[j].renamedFrom = <<>>) => Followed(i)

\* Growth shows up (all of the program): where directories were at most written to, created
\* and renamed to a new name, each whose files grew by the threshold is in or below a row,
\* if the root it is under could be sampled.
GrowthIsSeen ==
  LET path == PathsIn(fs.dir)
      before == PathsIn(atFirst)
      was(i) == IF atFirst[i].in = Gone THEN 0 ELSE atFirst[i].own
      stayed(i) == atFirst[i].in \in {Gone, fs.dir[i].in} /\ fs.dir[i].own >= was(i)
      reused(i) == \E j \in DOMAIN before \ {i} : i \in DOMAIN path /\ before[j] = path[i]
  IN  phase = "done" /\ OnlyAsleep /\ (\A i \in Directory : stayed(i) /\ ~ reused(i)) =>
        \A i \in DOMAIN path :
          /\ fs.dir[i].own - was(i) >= Threshold
          /\ \A m \in fs.foreign : ~ Within(path[i], path[m])
          /\ \E k \in DOMAIN given : IsSampled(k) /\ Within(path[i], given[k])
          => \E r \in rows : Within(path[i], nodes[r.node].path)

\* What --save wrote, --load reports again as it was (save_state, load_state), and it can
\* always be loaded: a saved run that is refused would be a deadlock here.
ReplayIsTheSame == [][phase = "loaded" => rows' = rows]_scanVars
=============================================================================
