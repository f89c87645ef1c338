---------------------------- MODULE RecentRctime ----------------------------
(***************************************************************************)
(* find-recent-rctime: a pool of processes walks a directory tree, entering *)
(* only directories whose recursive ctime is recent, and passes on all it   *)
(* sees to a second pool, which looks at each path's own ctime.             *)
(*                                                                         *)
(* A JoinableQueue counts the items put and not yet marked done, and join() *)
(* waits for that count to be 0.  Each process feeds a queue through a      *)
(* thread of its own, so the items of several come out in any order.        *)
(***************************************************************************)
EXTENDS Integers, FiniteSets, Sequences, SequencesExt

CONSTANTS
  Path,       \* the tree: a path is the sequence of its names below PATH
  Dir,        \* those that are directories
  Trees,      \* what the tree may hold: see TreeTyped
  Fleeting,   \* the paths that may be removed while the program runs
  Threads,    \* --threads
  BatchSize   \* max_batch_size

VARIABLES
  tree,         \* the times in the tree, and the calls that fail in it
  gone,         \* the paths removed so far
  dirQueue,     \* need_rctime_checked: batches of directories to enter
  pathQueue,    \* need_ctime_checked: batches of paths to look at
  stops,        \* the termination signals (None) in each queue
  open,         \* the items of each queue that are not done
  dirWorker,    \* the rctime_checkers
  pathWorker,   \* the ctime_checkers
  found,        \* ctime_matches
  main          \* where main() is

vars == <<tree, gone, dirQueue, pathQueue, stops, open, dirWorker, pathWorker, found, main>>

-----------------------------------------------------------------------------
Root == <<>>

Above(d, p) == IsStrictPrefix(d, p)

Children(d) == {p \in Path : Len(p) = Len(d) + 1 /\ Above(d, p)}

Call == {"scandir", "getxattr", "stat"}

\* recent: the directories whose ceph.dir.rctime is on or after the date; changed: the
\* paths whose ctime is; denied: the calls that raise anything but FileNotFoundError.
TreeTyped(t) ==
  t \in [recent : SUBSET Dir, changed : SUBSET Path, denied : SUBSET (Call \X Path)]

ASSUME PathsTyped ==
  /\ Root \in Dir
  /\ Dir \subseteq Path
  /\ Path \subseteq Seq(Nat)
  /\ \A p \in Path : \A n \in 0..(Len(p) - 1) : SubSeq(p, 1, n) \in Dir

ASSUME TreesTyped == \A t \in Trees : TreeTyped(t)

ASSUME OptionsTyped ==
  /\ Fleeting \subseteq Path \ {Root}
  /\ Threads \in Nat
  /\ BatchSize \in Nat \ {0}

\* Half of --threads for each pool.
Worker == 1..(Threads \div 2)

Queue == {"dirs", "paths"}

IdleWorker == [at |-> "idle", dirs |-> {}, entries |-> {}, toEnter |-> {}, toCheck |-> {}]

IdleChecker == [at |-> "idle", paths |-> {}, matches |-> {}]

\* batched(): full batches, then what is left.
Batches(buffer) ==
  {b \in SUBSET buffer :
     Cardinality(b) = IF Cardinality(buffer) < BatchSize THEN Cardinality(buffer) ELSE BatchSize}

-----------------------------------------------------------------------------
(* The tree.                                                                *)

Vanish(p) ==
  /\ p \notin gone
  /\ gone' = gone \union {q \in Path : q = p \/ Above(p, q)}
  /\ UNCHANGED <<tree, dirQueue, pathQueue, stops, open, dirWorker, pathWorker, found, main>>

-----------------------------------------------------------------------------
(* rctime_checker.                                                          *)

GetDirs(w, b) ==
  /\ dirWorker[w].at = "idle"
  /\ b \in dirQueue
  /\ dirQueue' = dirQueue \ {b}
  /\ dirWorker' = [dirWorker EXCEPT ![w] = [IdleWorker EXCEPT !.at = "busy", !.dirs = b]]
  /\ UNCHANGED <<tree, gone, pathQueue, stops, open, pathWorker, found, main>>

\* os.scandir and the reading of its entries; on an exception that is not caught the
\* process dies, with what it holds.
ScanDir(w, d) ==
  LET me == dirWorker[w]
  IN  /\ me.at = "busy"
      /\ me.entries = {}
      /\ d \in me.dirs
      /\ dirWorker' = [dirWorker EXCEPT ![w] =
           IF d \in gone THEN [me EXCEPT !.dirs = @ \ {d}]
           ELSE IF <<"scandir", d>> \in tree.denied THEN [me EXCEPT !.at = "dead"]
           ELSE [me EXCEPT !.dirs = @ \ {d}, !.entries = Children(d) \ gone]]
      /\ UNCHANGED <<tree, gone, dirQueue, pathQueue, stops, open, pathWorker, found, main>>

CheckEntry(w, e) ==
  LET me == dirWorker[w]
      next == [me EXCEPT !.entries = @ \ {e},
                         !.toCheck = @ \union {e},
                         !.toEnter = IF e \in tree.recent \ gone THEN @ \union {e} ELSE @]
  IN  /\ me.at = "busy"
      /\ e \in me.entries
      /\ dirWorker' = [dirWorker EXCEPT ![w] =
           IF e \in Dir \ gone /\ <<"getxattr", e>> \in tree.denied
           THEN [next EXCEPT !.at = "dead"] ELSE next]
      /\ UNCHANGED <<tree, gone, dirQueue, pathQueue, stops, open, pathWorker, found, main>>

\* The whole batch has been read.
BatchRead(w) ==
  dirWorker[w].at = "busy" /\ dirWorker[w].dirs = {} /\ dirWorker[w].entries = {}

PutDirs(w, b) ==
  /\ BatchRead(w)
  /\ dirWorker[w].toEnter # {}
  /\ b \in Batches(dirWorker[w].toEnter)
  /\ dirQueue' = dirQueue \union {b}
  /\ open' = [open EXCEPT !["dirs"] = @ + 1]
  /\ dirWorker' = [dirWorker EXCEPT ![w].toEnter = @ \ b]
  /\ UNCHANGED <<tree, gone, pathQueue, stops, pathWorker, found, main>>

PutPaths(w, b) ==
  /\ BatchRead(w)
  /\ dirWorker[w].toEnter = {}
  /\ dirWorker[w].toCheck # {}
  /\ b \in Batches(dirWorker[w].toCheck)
  /\ pathQueue' = pathQueue \union {b}
  /\ open' = [open EXCEPT !["paths"] = @ + 1]
  /\ dirWorker' = [dirWorker EXCEPT ![w].toCheck = @ \ b]
  /\ UNCHANGED <<tree, gone, dirQueue, stops, pathWorker, found, main>>

\* Mutant: a batch is done once its directories are passed on.
SentDirs(w) == BatchRead(w) /\ dirWorker[w].toEnter = {}

Sent(w) == BatchRead(w) /\ dirWorker[w].toEnter = {} /\ dirWorker[w].toCheck = {}

DirsDone(w) ==
  /\ Sent(w)
  /\ open' = [open EXCEPT !["dirs"] = @ - 1]
  /\ dirWorker' = [dirWorker EXCEPT ![w].at = "idle"]
  /\ UNCHANGED <<tree, gone, dirQueue, pathQueue, stops, pathWorker, found, main>>

StopWalking(w) ==
  /\ dirWorker[w].at = "idle"
  /\ stops["dirs"] > 0
  /\ stops' = [stops EXCEPT !["dirs"] = @ - 1]
  /\ open' = [open EXCEPT !["dirs"] = @ - 1]
  /\ dirWorker' = [dirWorker EXCEPT ![w].at = "stopped"]
  /\ UNCHANGED <<tree, gone, dirQueue, pathQueue, pathWorker, found, main>>

RctimeChecker(w) ==
  \/ \E b \in dirQueue : GetDirs(w, b)
  \/ \E d \in dirWorker[w].dirs : ScanDir(w, d)
  \/ \E e \in dirWorker[w].entries : CheckEntry(w, e)
  \/ \E b \in Batches(dirWorker[w].toEnter) : PutDirs(w, b)
  \/ \E b \in Batches(dirWorker[w].toCheck) : PutPaths(w, b)
  \/ DirsDone(w)
  \/ StopWalking(w)

-----------------------------------------------------------------------------
(* ctime_checker.                                                           *)

GetPaths(w, b) ==
  /\ pathWorker[w].at = "idle"
  /\ b \in pathQueue
  /\ pathQueue' = pathQueue \ {b}
  /\ pathWorker' = [pathWorker EXCEPT ![w] = [IdleChecker EXCEPT !.at = "busy", !.paths = b]]
  /\ UNCHANGED <<tree, gone, dirQueue, stops, open, dirWorker, found, main>>

CheckPath(w, p) ==
  LET me == pathWorker[w]
      rest == [me EXCEPT !.paths = @ \ {p}]
  IN  /\ me.at = "busy"
      /\ p \in me.paths
      /\ pathWorker' = [pathWorker EXCEPT ![w] =
           IF p \in gone THEN rest
           ELSE IF <<"stat", p>> \in tree.denied THEN [me EXCEPT !.at = "dead"]
           ELSE IF p \in tree.changed THEN [rest EXCEPT !.matches = @ \union {p}]
           ELSE rest]
      /\ UNCHANGED <<tree, gone, dirQueue, pathQueue, stops, open, dirWorker, found, main>>

Collect(w) ==
  LET me == pathWorker[w]
  IN  /\ me.at = "busy"
      /\ me.paths = {}
      /\ me.matches # {}
      /\ found' = Append(found, me.matches)
      /\ pathWorker' = [pathWorker EXCEPT ![w].matches = {}]
      /\ UNCHANGED <<tree, gone, dirQueue, pathQueue, stops, open, dirWorker, main>>

Collected(w) ==
  pathWorker[w].at = "busy" /\ pathWorker[w].paths = {} /\ pathWorker[w].matches = {}

PathsDone(w) ==
  /\ Collected(w)
  /\ open' = [open EXCEPT !["paths"] = @ - 1]
  /\ pathWorker' = [pathWorker EXCEPT ![w].at = "idle"]
  /\ UNCHANGED <<tree, gone, dirQueue, pathQueue, stops, dirWorker, found, main>>

StopChecking(w) ==
  /\ pathWorker[w].at = "idle"
  /\ stops["paths"] > 0
  /\ stops' = [stops EXCEPT !["paths"] = @ - 1]
  /\ open' = [open EXCEPT !["paths"] = @ - 1]
  /\ pathWorker' = [pathWorker EXCEPT ![w].at = "stopped"]
  /\ UNCHANGED <<tree, gone, dirQueue, pathQueue, dirWorker, found, main>>

CtimeChecker(w) ==
  \/ \E b \in pathQueue : GetPaths(w, b)
  \/ \E p \in pathWorker[w].paths : CheckPath(w, p)
  \/ Collect(w)
  \/ PathsDone(w)
  \/ StopChecking(w)

-----------------------------------------------------------------------------
(* main.                                                                    *)

PutRootPath ==
  /\ main = "start"
  /\ main' = "put root"
  /\ pathQueue' = pathQueue \union {{Root}}
  /\ open' = [open EXCEPT !["paths"] = @ + 1]
  /\ UNCHANGED <<tree, gone, dirQueue, stops, dirWorker, pathWorker, found>>

PutRootDir ==
  /\ main = "put root"
  /\ main' = "join dirs"
  /\ dirQueue' = dirQueue \union {{Root}}
  /\ open' = [open EXCEPT !["dirs"] = @ + 1]
  /\ UNCHANGED <<tree, gone, pathQueue, stops, dirWorker, pathWorker, found>>

\* Mutant: one termination signal for each pool.
SignalOnce(q) ==
  /\ stops' = [stops EXCEPT ![q] = 1]
  /\ open' = [open EXCEPT ![q] = @ + 1]

Signal(q) ==
  /\ stops' = [stops EXCEPT ![q] = Threads]
  /\ open' = [open EXCEPT ![q] = @ + Threads]

Joined(q) == open[q] = 0

JoinQueue(q, here, next) ==
  /\ main = here
  /\ Joined(q)
  /\ main' = next
  /\ Signal(q)
  /\ UNCHANGED <<tree, gone, dirQueue, pathQueue, dirWorker, pathWorker, found>>

\* Process.join(), for each of a pool, dead or stopped.
JoinPool(workers, here, next) ==
  /\ main = here
  /\ \A w \in Worker : workers[w].at \in {"stopped", "dead"}
  /\ main' = next
  /\ UNCHANGED <<tree, gone, dirQueue, pathQueue, stops, open, dirWorker, pathWorker, found>>

JoinDirs == JoinQueue("dirs", "join dirs", "stop walking")
JoinWalkers == JoinPool(dirWorker, "stop walking", "join paths")
JoinPaths == JoinQueue("paths", "join paths", "stop checking")
JoinCheckers == JoinPool(pathWorker, "stop checking", "done")

Main == PutRootPath \/ PutRootDir \/ JoinDirs \/ JoinWalkers \/ JoinPaths \/ JoinCheckers

-----------------------------------------------------------------------------
Init ==
  /\ tree \in Trees
  /\ gone = {}
  /\ dirQueue = {}
  /\ pathQueue = {}
  /\ stops = [q \in Queue |-> 0]
  /\ open = [q \in Queue |-> 0]
  /\ dirWorker = [w \in Worker |-> IdleWorker]
  /\ pathWorker = [w \in Worker |-> IdleChecker]
  /\ found = <<>>
  /\ main = "start"

Next ==
  \/ \E p \in Fleeting : Vanish(p)
  \/ \E w \in Worker : RctimeChecker(w)
  \/ \E w \in Worker : CtimeChecker(w)
  \/ Main

\* Every process runs; nothing makes anyone remove a path.
Fairness ==
  /\ \A w \in Worker : WF_vars(RctimeChecker(w)) /\ WF_vars(CtimeChecker(w))
  /\ WF_vars(Main)

Spec == Init /\ [][Next]_vars /\ Fairness

-----------------------------------------------------------------------------
Printed == UNION ToSet(found)

At == {"idle", "busy", "stopped", "dead"}

Walker ==
  [at : At, dirs : SUBSET Dir, entries : SUBSET Path, toEnter : SUBSET Dir, toCheck : SUBSET Path]

Checker == [at : At, paths : SUBSET Path, matches : SUBSET Path]

Batch(s) == {b \in SUBSET s : b # {} /\ Cardinality(b) <= BatchSize}

TypeOK ==
  /\ TreeTyped(tree)
  /\ gone \subseteq Path
  /\ dirQueue \subseteq Batch(Dir)
  /\ pathQueue \subseteq Batch(Path)
  /\ stops \in [Queue -> Nat]
  /\ open \in [Queue -> Int]
  /\ dirWorker \in [Worker -> Walker]
  /\ pathWorker \in [Worker -> Checker]
  /\ found \in Seq(SUBSET Path)
  /\ main \in {"start", "put root", "join dirs", "stop walking", "join paths", "stop checking", "done"}

\* What the program is for: the paths that changed, under directories that all have a
\* recent recursive ctime (PATH's own is not looked at), and that were there all along.
Promised ==
  {p \in tree.changed \ gone : \A d \in Dir \ {Root} : Above(d, p) => d \in tree.recent}

\* When the results are printed, none that was promised is missing, whatever was removed
\* meanwhile and whoever died; and nothing is printed that did not change.
Complete == main = "done" => Promised \subseteq Printed /\ Printed \subseteq tree.changed

\* Once main is past the first join, no directory is left to enter and nobody passes on
\* paths, so that the second join may be believed.
QuietAfterJoin ==
  main \notin {"start", "put root", "join dirs"} =>
    /\ dirQueue = {}
    /\ \A w \in Worker : /\ dirWorker[w].at \in {"idle", "stopped"}
                       /\ dirWorker[w].toEnter = {} /\ dirWorker[w].toCheck = {}

\* A process that dies takes what it held with it: then nothing may be printed, as
\* if it were all there is.
NothingFromTheDead ==
  main = "done" => \A w \in Worker : dirWorker[w].at # "dead" /\ pathWorker[w].at # "dead"

\* If no call fails otherwise than by a path being gone, the program ends.
EndsUnlessDenied == (tree.denied = {}) => <>(main = "done")

=============================================================================
