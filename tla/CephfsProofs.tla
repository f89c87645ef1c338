---------------------------- MODULE CephfsProofs ----------------------------
(***************************************************************************)
(* The programs of src/cephfs.  They share nothing; only the proofs share  *)
(* a module.                                                               *)
(*                                                                         *)
(* What find-recent-rctime prints is complete, for every tree, pool size   *)
(* and interleaving, whatever is removed meanwhile and whoever dies.       *)
(*                                                                         *)
(* scan-growing-dirs' save_state keeps the promise of AtomicFile, for any  *)
(* number of savers.  Its invariant says what is certain of a file at each *)
(* step: one that was renamed over the target, or is about to be, is whole *)
(* on the disk, and whether it was renamed follows from where its saver is, *)
(* unless it was interrupted or killed.                                    *)
(*                                                                         *)
(* Runs of mds-ops-pretty that share cache files, for any number of runs   *)
(* at any clusters: the invariant follows a path from its lookup through a *)
(* run's cache, the file, and the caches of later runs.  It stays with its *)
(* inode, and the time it is kept under is either when it was fetched or   *)
(* that of a lookup that failed.                                           *)
(*                                                                         *)
(* scan-growing-dirs, for any tree of directories, whatever changes while  *)
(* it is scanned: what the run tracks is a forest in which a directory     *)
(* comes after its parent, so that the report, computed from the leaves    *)
(* up, can be reasoned about the same way.                                 *)
(***************************************************************************)
EXTENDS RecentRctime, SavedState, MdsOps, ScanGrowingDirs, SumProofs

-----------------------------------------------------------------------------
(* Paths.                                                                   *)

LEMMA AboveIsPrefix ==
  ASSUME NEW d \in Path, NEW p \in Path
  PROVE  Above(d, p) <=> Len(d) < Len(p) /\ \A i \in 1..Len(d) : d[i] = p[i]
<1>1. d \in Seq(Nat) /\ p \in Seq(Nat)
  BY PathsTyped
<1>2. Len(d) \in Nat /\ Len(p) \in Nat
  BY <1>1
<1>3. CASE Len(d) > Len(p)
  BY <1>2, <1>3 DEF Above, IsStrictPrefix, IsPrefix
<1>4. CASE Len(d) <= Len(p)
  <2>1. SubSeq(d, 1, Len(d)) = SubSeq(p, 1, Len(d)) <=> \A i \in 1..Len(d) : d[i] = p[i]
    BY <1>1, <1>2, <1>4
  <2>2. Above(d, p) <=> (\A i \in 1..Len(d) : d[i] = p[i]) /\ d # p
    BY <1>4, <2>1 DEF Above, IsStrictPrefix, IsPrefix
  <2>3. (\A i \in 1..Len(d) : d[i] = p[i]) => (d = p <=> Len(d) = Len(p))
    BY <1>1
  <2> QED
    BY <1>2, <1>4, <2>2, <2>3
<1> QED
  BY <1>2, <1>3, <1>4

LEMMA AboveTransitive ==
  ASSUME NEW d \in Path, NEW e \in Path, NEW p \in Path, Above(d, e), Above(e, p)
  PROVE  Above(d, p)
<1>1. d \in Seq(Nat) /\ e \in Seq(Nat) /\ p \in Seq(Nat)
  BY PathsTyped
<1> QED
  BY <1>1, AboveIsPrefix

LEMMA RootAboveAll ==
  ASSUME NEW p \in Path, p # Root
  PROVE  Above(Root, p)
<1>1. p \in Seq(Nat) /\ Root \in Path
  BY PathsTyped
<1>2. Len(Root) = 0 /\ Len(p) > 0
  BY <1>1 DEF Root
<1> QED
  BY <1>1, <1>2, AboveIsPrefix

\* The next directory on the way down from d to p, or p itself.
LEMMA StepDown ==
  ASSUME NEW d \in Path, NEW p \in Path, Above(d, p)
  PROVE  \E c \in Children(d) : c = p \/ (c \in Dir /\ Above(c, p))
<1>1. d \in Seq(Nat) /\ p \in Seq(Nat)
  BY PathsTyped
<1>2. Len(d) < Len(p) /\ \A i \in 1..Len(d) : d[i] = p[i]
  BY AboveIsPrefix
<1>3. CASE Len(p) = Len(d) + 1
  BY <1>3 DEF Children
<1>4. CASE Len(p) # Len(d) + 1
  <2> DEFINE c == SubSeq(p, 1, Len(d) + 1)
  <2>1. Len(d) + 1 \in 0..(Len(p) - 1)
    BY <1>1, <1>2, <1>4
  <2>2. c \in Dir /\ c \in Path
    BY <2>1, PathsTyped
  <2>3. Len(c) = Len(d) + 1 /\ \A i \in 1..Len(c) : c[i] = p[i]
    BY <1>1, <2>1
  <2> HIDE DEF c
  <2>4. Len(c) < Len(p)
    BY <1>1, <2>1, <2>3
  <2>5. Above(d, c)
    <3>1. Len(d) < Len(c) /\ Len(d) \in Nat
      BY <1>1, <2>3
    <3>2. \A i \in 1..Len(d) : i \in 1..Len(c) /\ i \in 1..Len(p)
      BY <1>1, <1>2, <2>3
    <3>3. \A i \in 1..Len(d) : d[i] = c[i]
      BY <1>2, <2>3, <3>2
    <3> QED
      BY <2>2, <3>1, <3>3, AboveIsPrefix
  <2>6. Above(c, p)
    BY <2>2, <2>3, <2>4, AboveIsPrefix
  <2> QED
    BY <2>2, <2>3, <2>5, <2>6 DEF Children
<1> QED
  BY <1>3, <1>4

LEMMA ChildBelowRoot ==
  ASSUME NEW d \in Path, NEW c \in Children(d)
  PROVE  c \in Path /\ c # Root
<1>1. d \in Seq(Nat)
  BY PathsTyped
<1> QED
  BY <1>1 DEF Children, Root

-----------------------------------------------------------------------------
(* The invariant.                                                           *)

\* Who has taken a batch and not said that it is done.
Walking == {w \in Worker : dirWorker[w].at \in {"busy", "dead"}}

Checking == {w \in Worker : pathWorker[w].at \in {"busy", "dead"}}

Typed ==
  /\ TreeTyped(tree)
  /\ gone \subseteq Path
  /\ dirQueue \subseteq SUBSET Dir
  /\ pathQueue \subseteq SUBSET Path
  /\ stops \in [Queue -> Nat]
  /\ open \in [Queue -> Int]
  /\ dirWorker \in [Worker -> Walker]
  /\ pathWorker \in [Worker -> Checker]
  /\ found \in Seq(SUBSET Path)

\* Who has nothing to do holds nothing.
EmptyHanded ==
  \A w \in Worker :
    /\ dirWorker[w].at \in {"idle", "stopped"} =>
         /\ dirWorker[w].dirs = {} /\ dirWorker[w].entries = {}
         /\ dirWorker[w].toEnter = {} /\ dirWorker[w].toCheck = {}
    /\ pathWorker[w].at \in {"idle", "stopped"} =>
         pathWorker[w].paths = {} /\ pathWorker[w].matches = {}

BeforeAll == {"start", "put root", "join dirs"}

AfterAll == {"stop checking", "done"}

\* Until join() returns, every batch is counted; afterwards there is none.
DirsCounted ==
  IF main \in BeforeAll
  THEN /\ stops["dirs"] = 0
       /\ IsFiniteSet(dirQueue)
       /\ open["dirs"] >= Cardinality(dirQueue) + Cardinality(Walking)
  ELSE dirQueue = {} /\ Walking = {}

PathsCounted ==
  IF main \notin AfterAll
  THEN /\ stops["paths"] = 0
       /\ IsFiniteSet(pathQueue)
       /\ open["paths"] >= Cardinality(pathQueue) + Cardinality(Checking)
  ELSE main \notin BeforeAll /\ pathQueue = {} /\ Checking = {}

\* PATH itself is entered without a look at its recursive ctime.
RootNotEntry == \A w \in Worker : Root \notin dirWorker[w].entries

\* What is below a path that is gone is gone.
GoneBelow == \A d \in gone : \A p \in Path : Above(d, p) => p \in gone

OnlyChanged ==
  /\ \A w \in Worker : pathWorker[w].matches \subseteq tree.changed
  /\ \A i \in DOMAIN found : found[i] \subseteq tree.changed

\* p has been seen, and is on its way to being printed.
Seen(p) ==
  \/ \E i \in DOMAIN found : p \in found[i]
  \/ \E b \in pathQueue : p \in b
  \/ \E w \in Worker : p \in pathWorker[w].paths \union pathWorker[w].matches
  \/ \E w \in Worker : p \in dirWorker[w].entries \union dirWorker[w].toCheck

\* d has been seen, and is to be entered.
ToBeEntered(d) ==
  \/ \E b \in dirQueue : d \in b
  \/ \E w \in Worker : d \in dirWorker[w].dirs \union dirWorker[w].entries \union dirWorker[w].toEnter

\* Each path that is promised is seen, or will be on the way down from one that is.
OnTheWay ==
  \A p \in Promised :
    \/ main = "start" /\ p = Root
    \/ main \in {"start", "put root"} /\ p # Root
    \/ Seen(p)
    \/ \E d \in Dir : Above(d, p) /\ ToBeEntered(d)

Inv ==
  /\ Typed
  /\ EmptyHanded
  /\ DirsCounted
  /\ PathsCounted
  /\ GoneBelow
  /\ RootNotEntry
  /\ OnlyChanged
  /\ OnTheWay

-----------------------------------------------------------------------------
(* The steps.                                                               *)

LEMMA Initially == Init => Inv
<1> SUFFICES ASSUME Init PROVE Inv
  OBVIOUS
<1>1. Typed
  BY TreesTyped, PathsTyped
     DEF Init, Typed, TreeTyped, Walker, Checker, IdleWorker, IdleChecker, At, Queue
<1>2. EmptyHanded
  BY DEF Init, EmptyHanded, IdleWorker, IdleChecker
<1>3. Walking = {} /\ Checking = {}
  BY DEF Init, Walking, Checking, IdleWorker, IdleChecker
<1>4. DirsCounted /\ PathsCounted
  BY <1>3, FS_EmptySet DEF Init, DirsCounted, PathsCounted, BeforeAll, AfterAll, Queue
<1>5. GoneBelow /\ RootNotEntry /\ OnlyChanged
  BY DEF Init, GoneBelow, RootNotEntry, OnlyChanged, IdleWorker, IdleChecker
<1>6. OnTheWay
  BY DEF Init, OnTheWay
<1> QED
  BY <1>1, <1>2, <1>4, <1>5, <1>6 DEF Inv

\* What the passing on of batches needs: a batch is part of what is to be passed on.
LEMMA BatchOf ==
  ASSUME NEW s, NEW b \in Batches(s)
  PROVE  b \subseteq s
BY DEF Batches

\* The values a process's record may take.
LEMMA WalkerUpdates ==
  ASSUME NEW me \in Walker
  PROVE  /\ me.dirs \subseteq Dir /\ me.toEnter \subseteq Dir
         /\ me.entries \subseteq Path /\ me.toCheck \subseteq Path
         /\ \A at \in At : [me EXCEPT !.at = at] \in Walker
         /\ \A D \in SUBSET Dir : /\ [me EXCEPT !.dirs = D] \in Walker
                                 /\ [me EXCEPT !.toEnter = D] \in Walker
         /\ \A P \in SUBSET Path : [me EXCEPT !.toCheck = P] \in Walker
         /\ \A D \in SUBSET Dir, P \in SUBSET Path : [me EXCEPT !.dirs = D, !.entries = P] \in Walker
         /\ \A P, Q \in SUBSET Path, D \in SUBSET Dir :
              [me EXCEPT !.entries = P, !.toCheck = Q, !.toEnter = D] \in Walker
BY DEF Walker

LEMMA CheckerUpdates ==
  ASSUME NEW me \in Checker
  PROVE  /\ me.paths \subseteq Path /\ me.matches \subseteq Path
         /\ \A at \in At : [me EXCEPT !.at = at] \in Checker
         /\ \A P \in SUBSET Path : /\ [me EXCEPT !.paths = P] \in Checker
                                  /\ [me EXCEPT !.matches = P] \in Checker
         /\ \A P, Q \in SUBSET Path : [me EXCEPT !.paths = P, !.matches = Q] \in Checker
BY DEF Checker

LEMMA TypedKept ==
  ASSUME Typed, [Next]_vars
  PROVE  Typed'
<1>a. /\ \A w \in Worker : dirWorker[w] \in Walker /\ pathWorker[w] \in Checker
      /\ "idle" \in At /\ "busy" \in At /\ "dead" \in At /\ "stopped" \in At
      /\ tree.recent \subseteq Dir
  BY DEF Typed, At, TreeTyped
<1>b. /\ stops["dirs"] \in Nat /\ stops["paths"] \in Nat
      /\ open["dirs"] \in Int /\ open["paths"] \in Int
  BY DEF Typed, Queue
<1>c. /\ \A q \in Queue : \A n \in Int : [open EXCEPT ![q] = n] \in [Queue -> Int]
      /\ \A q \in Queue : \A n \in Nat : [stops EXCEPT ![q] = n] \in [Queue -> Nat]
      /\ "dirs" \in Queue /\ "paths" \in Queue
  BY DEF Typed, Queue
<1>d. /\ open["dirs"] + 1 \in Int /\ open["paths"] + 1 \in Int
      /\ open["dirs"] + Threads \in Int /\ open["paths"] + Threads \in Int
      /\ open["dirs"] - 1 \in Int /\ open["paths"] - 1 \in Int
      /\ stops["dirs"] > 0 => stops["dirs"] - 1 \in Nat
      /\ stops["paths"] > 0 => stops["paths"] - 1 \in Nat
  BY <1>b, OptionsTyped
<1>1. CASE UNCHANGED vars
  BY <1>1 DEF vars, Typed
<1>2. ASSUME NEW p \in Fleeting, Vanish(p) PROVE Typed'
  BY <1>2 DEF Vanish, Typed
<1>3. ASSUME NEW w \in Worker, NEW b \in dirQueue, GetDirs(w, b) PROVE Typed'
  <2>1. b \subseteq Dir
    BY DEF Typed
  <2>2. [IdleWorker EXCEPT !.at = "busy", !.dirs = b] \in Walker
    BY <2>1 DEF IdleWorker, Walker, At
  <2>3. dirWorker' \in [Worker -> Walker]
    BY <1>3, <2>2 DEF GetDirs, Typed
  <2> QED
    BY <1>3, <2>3 DEF GetDirs, Typed
<1>4. ASSUME NEW w \in Worker, NEW d, ScanDir(w, d) PROVE Typed'
  <2> DEFINE me == dirWorker[w]
  <2>1. me \in Walker /\ me.dirs \ {d} \in SUBSET Dir /\ Children(d) \ gone \in SUBSET Path
    BY <1>a, WalkerUpdates DEF Children
  <2>2. /\ [me EXCEPT !.dirs = me.dirs \ {d}] \in Walker
        /\ [me EXCEPT !.at = "dead"] \in Walker
        /\ [me EXCEPT !.dirs = me.dirs \ {d}, !.entries = Children(d) \ gone] \in Walker
    BY <1>a, <2>1, WalkerUpdates
  <2>3. dirWorker' \in [Worker -> Walker]
    BY <1>4, <2>2 DEF ScanDir, Typed
  <2> QED
    BY <1>4, <2>3 DEF ScanDir, Typed
<1>5. ASSUME NEW w \in Worker, NEW e, CheckEntry(w, e) PROVE Typed'
  <2> DEFINE me == dirWorker[w]
             enter == IF e \in tree.recent \ gone THEN me.toEnter \union {e} ELSE me.toEnter
             next == [me EXCEPT !.entries = me.entries \ {e}, !.toCheck = me.toCheck \union {e},
                                !.toEnter = enter]
  <2>1. me \in Walker /\ e \in Path
    BY <1>5, <1>a, WalkerUpdates DEF CheckEntry
  <2>2. /\ me.entries \ {e} \in SUBSET Path /\ me.toCheck \union {e} \in SUBSET Path
        /\ enter \in SUBSET Dir
    BY <1>a, <2>1, WalkerUpdates
  <2>3. next \in Walker
    <3> HIDE DEF me, enter
    <3> QED
      BY <2>1, <2>2, WalkerUpdates
  <2>4. [next EXCEPT !.at = "dead"] \in Walker
    <3> HIDE DEF next
    <3> QED
      BY <1>a, <2>3, WalkerUpdates
  <2>5. dirWorker' = [dirWorker EXCEPT ![w] = next]
        \/ dirWorker' = [dirWorker EXCEPT ![w] = [next EXCEPT !.at = "dead"]]
    BY <1>5 DEF CheckEntry
  <2>6. dirWorker' \in [Worker -> Walker]
    <3> HIDE DEF next
    <3> QED
      BY <2>3, <2>4, <2>5 DEF Typed
  <2> QED
    BY <1>5, <2>6 DEF CheckEntry, Typed
<1>6. ASSUME NEW w \in Worker, NEW b \in Batches(dirWorker[w].toEnter), PutDirs(w, b) PROVE Typed'
  <2>1. b \subseteq Dir /\ dirWorker[w].toEnter \ b \in SUBSET Dir
    BY <1>a, WalkerUpdates, BatchOf
  <2>2. [dirWorker[w] EXCEPT !.toEnter = dirWorker[w].toEnter \ b] \in Walker
    BY <1>a, <2>1, WalkerUpdates
  <2>3. dirWorker' \in [Worker -> Walker]
    BY <1>6, <2>2 DEF PutDirs, Typed
  <2>4. open' \in [Queue -> Int]
    BY <1>6, <1>c, <1>d DEF PutDirs
  <2> QED
    BY <1>6, <2>1, <2>3, <2>4 DEF PutDirs, Typed
<1>7. ASSUME NEW w \in Worker, NEW b \in Batches(dirWorker[w].toCheck), PutPaths(w, b) PROVE Typed'
  <2>1. b \subseteq Path /\ dirWorker[w].toCheck \ b \in SUBSET Path
    BY <1>a, WalkerUpdates, BatchOf
  <2>2. [dirWorker[w] EXCEPT !.toCheck = dirWorker[w].toCheck \ b] \in Walker
    BY <1>a, <2>1, WalkerUpdates
  <2>3. dirWorker' \in [Worker -> Walker]
    BY <1>7, <2>2 DEF PutPaths, Typed
  <2>4. open' \in [Queue -> Int]
    BY <1>7, <1>c, <1>d DEF PutPaths
  <2> QED
    BY <1>7, <2>1, <2>3, <2>4 DEF PutPaths, Typed
<1>8. ASSUME NEW w \in Worker, DirsDone(w) \/ StopWalking(w) PROVE Typed'
  <2>1. \A at \in At : [dirWorker[w] EXCEPT !.at = at] \in Walker
    BY <1>a, WalkerUpdates
  <2>2. dirWorker' \in [Worker -> Walker]
    BY <1>8, <1>a, <2>1 DEF DirsDone, StopWalking, Typed
  <2>3. open' \in [Queue -> Int] /\ stops' \in [Queue -> Nat]
    <3>1. CASE DirsDone(w)
      BY <3>1, <1>c, <1>d DEF DirsDone, Typed
    <3>2. CASE StopWalking(w)
      BY <3>2, <1>c, <1>d DEF StopWalking
    <3> QED
      BY <1>8, <3>1, <3>2
  <2> QED
    BY <1>8, <2>2, <2>3 DEF DirsDone, StopWalking, Typed
<1>9. ASSUME NEW w \in Worker, NEW b \in pathQueue, GetPaths(w, b) PROVE Typed'
  <2>1. [IdleChecker EXCEPT !.at = "busy", !.paths = b] \in Checker
    BY DEF IdleChecker, Checker, At, Typed
  <2>2. pathWorker' \in [Worker -> Checker]
    BY <1>9, <2>1 DEF GetPaths, Typed
  <2> QED
    BY <1>9, <2>2 DEF GetPaths, Typed
<1>10. ASSUME NEW w \in Worker, NEW p \in pathWorker[w].paths, CheckPath(w, p) PROVE Typed'
  <2> DEFINE me == pathWorker[w]
  <2>1. me \in Checker /\ me.paths \ {p} \in SUBSET Path /\ me.matches \union {p} \in SUBSET Path
    BY <1>a, CheckerUpdates
  <2>2. /\ [me EXCEPT !.paths = me.paths \ {p}] \in Checker
        /\ [me EXCEPT !.at = "dead"] \in Checker
        /\ [me EXCEPT !.paths = me.paths \ {p}, !.matches = me.matches \union {p}] \in Checker
    BY <1>a, <2>1, CheckerUpdates
  <2>3. pathWorker' \in [Worker -> Checker]
    BY <1>10, <2>2 DEF CheckPath, Typed
  <2> QED
    BY <1>10, <2>3 DEF CheckPath, Typed
<1>11. ASSUME NEW w \in Worker, Collect(w) PROVE Typed'
  <2>1. pathWorker[w].matches \in SUBSET Path /\ [pathWorker[w] EXCEPT !.matches = {}] \in Checker
    BY <1>a, CheckerUpdates
  <2>2. pathWorker' \in [Worker -> Checker]
    BY <1>11, <2>1 DEF Collect, Typed
  <2>3. found' \in Seq(SUBSET Path)
    BY <1>11, <2>1 DEF Collect, Typed
  <2> QED
    BY <1>11, <2>2, <2>3 DEF Collect, Typed
<1>12. ASSUME NEW w \in Worker, PathsDone(w) \/ StopChecking(w) PROVE Typed'
  <2>1. \A at \in At : [pathWorker[w] EXCEPT !.at = at] \in Checker
    BY <1>a, CheckerUpdates
  <2>2. pathWorker' \in [Worker -> Checker]
    BY <1>12, <1>a, <2>1 DEF PathsDone, StopChecking, Typed
  <2>3. open' \in [Queue -> Int] /\ stops' \in [Queue -> Nat]
    <3>1. CASE PathsDone(w)
      BY <3>1, <1>c, <1>d DEF PathsDone, Typed
    <3>2. CASE StopChecking(w)
      BY <3>2, <1>c, <1>d DEF StopChecking
    <3> QED
      BY <1>12, <3>1, <3>2
  <2> QED
    BY <1>12, <2>2, <2>3 DEF PathsDone, StopChecking, Typed
<1>13. CASE PutRootPath \/ PutRootDir
  <2>1. open' \in [Queue -> Int]
    BY <1>13, <1>c, <1>d DEF PutRootPath, PutRootDir
  <2>2. {Root} \subseteq Dir /\ {Root} \subseteq Path
    BY PathsTyped
  <2> QED
    BY <1>13, <2>1, <2>2 DEF PutRootPath, PutRootDir, Typed
<1>14. ASSUME NEW q \in Queue, NEW here, NEW next, JoinQueue(q, here, next) PROVE Typed'
  <2>1. open[q] + Threads \in Int /\ Threads \in Nat
    BY OptionsTyped DEF Typed
  <2>2. open' \in [Queue -> Int] /\ stops' \in [Queue -> Nat]
    BY <1>14, <1>c, <2>1 DEF JoinQueue, Signal
  <2> QED
    BY <1>14, <2>2 DEF JoinQueue, Typed
<1>15. ASSUME NEW workers, NEW here, NEW next, JoinPool(workers, here, next) PROVE Typed'
  BY <1>15 DEF JoinPool, Typed
<1>16. CASE JoinDirs \/ JoinPaths
  BY <1>16, <1>14, <1>c DEF JoinDirs, JoinPaths
<1>17. CASE JoinWalkers \/ JoinCheckers
  BY <1>17, <1>15 DEF JoinWalkers, JoinCheckers
<1> QED
  BY <1>1, <1>2, <1>3, <1>4, <1>5, <1>6, <1>7, <1>8, <1>9, <1>10, <1>11, <1>12, <1>13, <1>16, <1>17
     DEF Next, RctimeChecker, CtimeChecker, Main

LEMMA EmptyHandedKept ==
  ASSUME Typed, EmptyHanded, [Next]_vars
  PROVE  EmptyHanded'
<1>a. \A w \in Worker : dirWorker[w] \in Walker /\ pathWorker[w] \in Checker
  BY DEF Typed
<1>b. dirWorker \in [Worker -> Walker] /\ pathWorker \in [Worker -> Checker]
  BY DEF Typed
<1>1. CASE UNCHANGED <<dirWorker, pathWorker>>
  BY <1>1 DEF EmptyHanded
<1>2. ASSUME NEW w \in Worker, RctimeChecker(w) PROVE EmptyHanded'
  <2>1. pathWorker' = pathWorker
    BY <1>2
       DEF RctimeChecker, GetDirs, ScanDir, CheckEntry, PutDirs, PutPaths, DirsDone, StopWalking
  <2>2. \A v \in Worker \ {w} : dirWorker'[v] = dirWorker[v]
    BY <1>2, <1>b
       DEF RctimeChecker, GetDirs, ScanDir, CheckEntry, PutDirs, PutPaths, DirsDone, StopWalking
  <2>3. \/ dirWorker'[w].at \in {"busy", "dead"}
        \/ /\ dirWorker'[w].dirs = {} /\ dirWorker'[w].entries = {}
           /\ dirWorker'[w].toEnter = {} /\ dirWorker'[w].toCheck = {}
    <3>1. CASE \E b \in dirQueue : GetDirs(w, b)
      BY <3>1, <1>b DEF GetDirs, IdleWorker
    <3>2. CASE \E d \in dirWorker[w].dirs : ScanDir(w, d)
      BY <3>2, <1>a, <1>b DEF ScanDir, Walker
    <3>3. CASE \E e \in dirWorker[w].entries : CheckEntry(w, e)
      BY <3>3, <1>a, <1>b DEF CheckEntry, Walker
    <3>4. CASE \/ \E b \in Batches(dirWorker[w].toEnter) : PutDirs(w, b)
               \/ \E b \in Batches(dirWorker[w].toCheck) : PutPaths(w, b)
      BY <3>4, <1>a, <1>b DEF PutDirs, PutPaths, BatchRead, Walker
    <3>5. CASE DirsDone(w)
      BY <3>5, <1>a, <1>b DEF DirsDone, Sent, BatchRead, Walker
    <3>6. CASE StopWalking(w)
      BY <3>6, <1>a, <1>b DEF StopWalking, EmptyHanded, Walker
    <3> QED
      BY <1>2, <3>1, <3>2, <3>3, <3>4, <3>5, <3>6 DEF RctimeChecker
  <2> QED
    BY <2>1, <2>2, <2>3 DEF EmptyHanded
<1>3. ASSUME NEW w \in Worker, CtimeChecker(w) PROVE EmptyHanded'
  <2>1. dirWorker' = dirWorker
    BY <1>3 DEF CtimeChecker, GetPaths, CheckPath, Collect, PathsDone, StopChecking
  <2>2. \A v \in Worker \ {w} : pathWorker'[v] = pathWorker[v]
    BY <1>3, <1>b DEF CtimeChecker, GetPaths, CheckPath, Collect, PathsDone, StopChecking
  <2>3. \/ pathWorker'[w].at \in {"busy", "dead"}
        \/ pathWorker'[w].paths = {} /\ pathWorker'[w].matches = {}
    <3>1. CASE \E b \in pathQueue : GetPaths(w, b)
      BY <3>1, <1>b DEF GetPaths, IdleChecker
    <3>2. CASE \E p \in pathWorker[w].paths : CheckPath(w, p)
      BY <3>2, <1>a, <1>b DEF CheckPath, Checker
    <3>3. CASE Collect(w) \/ PathsDone(w)
      BY <3>3, <1>a, <1>b DEF Collect, PathsDone, Collected, Checker
    <3>4. CASE StopChecking(w)
      BY <3>4, <1>a, <1>b DEF StopChecking, EmptyHanded, Checker
    <3> QED
      BY <1>3, <3>1, <3>2, <3>3, <3>4 DEF CtimeChecker
  <2> QED
    BY <2>1, <2>2, <2>3 DEF EmptyHanded
<1>4. CASE Main \/ UNCHANGED vars \/ \E p \in Fleeting : Vanish(p)
  BY <1>4, <1>1 DEF Main, PutRootPath, PutRootDir, JoinDirs, JoinWalkers, JoinPaths, JoinCheckers,
                   vars, Vanish, JoinQueue, Joined, JoinPool
<1> QED
  BY <1>2, <1>3, <1>4 DEF Next

-----------------------------------------------------------------------------
(* Counting.                                                                *)

LEMMA PoolFinite ==
  /\ IsFiniteSet(Walking) /\ Cardinality(Walking) \in Nat
  /\ IsFiniteSet(Checking) /\ Cardinality(Checking) \in Nat
<1>1. Threads \div 2 \in Int
  BY OptionsTyped
<1>2. IsFiniteSet(Worker)
  BY <1>1, FS_Interval DEF Worker
<1> QED
  BY <1>2, FS_Subset, FS_CardinalityType DEF Walking, Checking

LEMMA OneMore ==
  ASSUME NEW S, NEW x, IsFiniteSet(S)
  PROVE  /\ IsFiniteSet(S \union {x})
         /\ Cardinality(S) \in Nat /\ Cardinality(S \union {x}) \in Nat
         /\ Cardinality(S \union {x}) <= Cardinality(S) + 1
<1>1. Cardinality(S) \in Nat
  BY FS_CardinalityType
<1>2. /\ IsFiniteSet(S \union {x})
      /\ Cardinality(S \union {x}) = IF x \in S THEN Cardinality(S) ELSE Cardinality(S) + 1
  BY FS_AddElement
<1> QED
  BY <1>1, <1>2

\* One more batch: one more queued at most, and one more open.
LEMMA DirsCountedKept ==
  ASSUME Typed, DirsCounted, [Next]_vars
  PROVE  DirsCounted'
<1>a. \A w \in Worker : dirWorker[w] \in Walker
  BY DEF Typed
<1>b. /\ dirWorker \in [Worker -> Walker]
      /\ open \in [Queue -> Int] /\ stops \in [Queue -> Nat]
      /\ "dirs" \in Queue /\ "paths" \in Queue
      /\ open["dirs"] \in Int
  BY DEF Typed, Queue
<1>1. ASSUME dirQueue' = dirQueue, Walking' = Walking, open'["dirs"] = open["dirs"],
             stops'["dirs"] = stops["dirs"], main' \in BeforeAll <=> main \in BeforeAll
      PROVE  DirsCounted'
  BY <1>1 DEF DirsCounted
<1>2. ASSUME NEW w \in Worker, NEW b \in dirQueue, GetDirs(w, b) PROVE DirsCounted'
  <2>1. main \in BeforeAll
    BY DEF DirsCounted
  <2>2. w \notin Walking
    BY <1>2 DEF GetDirs, Walking
  <2>3. dirWorker'[w].at = "busy"
    BY <1>2, <1>b DEF GetDirs, IdleWorker
  <2>4. Walking' = Walking \union {w}
    BY <1>2, <1>b, <2>3 DEF GetDirs, Walking
  <2>5. Cardinality(Walking') = Cardinality(Walking) + 1
    BY <2>2, <2>4, PoolFinite, FS_AddElement
  <2>6. IsFiniteSet(dirQueue \ {b}) /\ Cardinality(dirQueue \ {b}) = Cardinality(dirQueue) - 1
    BY <2>1, FS_RemoveElement DEF DirsCounted
  <2>7. Cardinality(dirQueue) \in Nat
    BY <2>1, FS_CardinalityType DEF DirsCounted
  <2>8. /\ dirQueue' = dirQueue \ {b} /\ open' = open /\ stops' = stops /\ main' = main
    BY <1>2 DEF GetDirs
  <2> QED
    BY <1>b, <2>1, <2>5, <2>6, <2>7, <2>8, PoolFinite DEF DirsCounted
<1>3. ASSUME NEW w \in Worker,
             \/ \E d \in dirWorker[w].dirs : ScanDir(w, d)
             \/ \E e \in dirWorker[w].entries : CheckEntry(w, e)
             \/ \E b \in Batches(dirWorker[w].toCheck) : PutPaths(w, b)
      PROVE  DirsCounted'
  <2>1. dirWorker'[w].at \in {"busy", "dead"} /\ w \in Walking
    <3>1. CASE \E d \in dirWorker[w].dirs : ScanDir(w, d)
      BY <3>1, <1>a, <1>b DEF ScanDir, Walking, Walker
    <3>2. CASE \E e \in dirWorker[w].entries : CheckEntry(w, e)
      BY <3>2, <1>a, <1>b DEF CheckEntry, Walking, Walker
    <3>3. CASE \E b \in Batches(dirWorker[w].toCheck) : PutPaths(w, b)
      BY <3>3, <1>a, <1>b DEF PutPaths, BatchRead, Walking, Walker
    <3> QED
      BY <1>3, <3>1, <3>2, <3>3
  <2>2. \A v \in Worker \ {w} : dirWorker'[v] = dirWorker[v]
    BY <1>3, <1>b DEF ScanDir, CheckEntry, PutPaths
  <2>3. Walking' = Walking
    BY <2>1, <2>2 DEF Walking
  <2>4. open'["dirs"] = open["dirs"]
    BY <1>3, <1>b DEF ScanDir, CheckEntry, PutPaths
  <2> QED
    BY <1>1, <1>3, <2>3, <2>4 DEF ScanDir, CheckEntry, PutPaths
<1>4. ASSUME NEW w \in Worker, NEW b, PutDirs(w, b) PROVE DirsCounted'
  <2>1. w \in Walking
    BY <1>4 DEF PutDirs, BatchRead, Walking
  <2>2. main \in BeforeAll
    BY <2>1 DEF DirsCounted
  <2>3. dirWorker'[w].at = dirWorker[w].at /\ \A v \in Worker \ {w} : dirWorker'[v] = dirWorker[v]
    BY <1>4, <1>a, <1>b DEF PutDirs, Walker
  <2>4. Walking' = Walking
    BY <2>3 DEF Walking
  <2>5. open'["dirs"] = open["dirs"] + 1 /\ dirQueue' = dirQueue \union {b} /\ stops' = stops /\ main' = main
    BY <1>4, <1>b DEF PutDirs
  <2>6. /\ IsFiniteSet(dirQueue \union {b})
        /\ Cardinality(dirQueue \union {b}) <= Cardinality(dirQueue) + 1
        /\ Cardinality(dirQueue) \in Nat /\ Cardinality(dirQueue \union {b}) \in Nat
    BY <2>2, OneMore DEF DirsCounted
  <2> QED
    BY <1>b, <2>2, <2>4, <2>5, <2>6, PoolFinite DEF DirsCounted
<1>5. ASSUME NEW w \in Worker, DirsDone(w) PROVE DirsCounted'
  <2>1. w \in Walking
    BY <1>5 DEF DirsDone, Sent, BatchRead, Walking
  <2>2. main \in BeforeAll
    BY <2>1 DEF DirsCounted
  <2>3. Walking' = Walking \ {w}
    <3>1. dirWorker'[w].at = "idle" /\ \A v \in Worker \ {w} : dirWorker'[v] = dirWorker[v]
      BY <1>5, <1>a, <1>b DEF DirsDone, Walker
    <3> QED
      BY <3>1 DEF Walking
  <2>4. Cardinality(Walking') = Cardinality(Walking) - 1
    BY <2>1, <2>3, PoolFinite, FS_RemoveElement
  <2>5. open'["dirs"] = open["dirs"] - 1 /\ dirQueue' = dirQueue /\ stops' = stops /\ main' = main
    BY <1>5, <1>b DEF DirsDone
  <2>6. Cardinality(dirQueue) \in Nat
    BY <2>2, FS_CardinalityType DEF DirsCounted
  <2> QED
    BY <1>b, <2>2, <2>4, <2>5, <2>6, PoolFinite DEF DirsCounted
<1>6. ASSUME NEW w \in Worker, StopWalking(w) PROVE DirsCounted'
  <2>1. main \notin BeforeAll
    BY <1>6 DEF StopWalking, DirsCounted
  <2>2. dirWorker'[w].at = "stopped" /\ \A v \in Worker \ {w} : dirWorker'[v] = dirWorker[v]
    BY <1>6, <1>a, <1>b DEF StopWalking, Walker
  <2>3. Walking' = {}
    BY <2>1, <2>2 DEF Walking, DirsCounted
  <2> QED
    BY <1>6, <2>1, <2>3 DEF StopWalking, DirsCounted
<1>7. ASSUME NEW w \in Worker, CtimeChecker(w) PROVE DirsCounted'
  <2>1. UNCHANGED <<dirQueue, dirWorker, main>>
    BY <1>7 DEF CtimeChecker, GetPaths, CheckPath, Collect, PathsDone, StopChecking
  <2>2. open'["dirs"] = open["dirs"] /\ stops'["dirs"] = stops["dirs"]
    BY <1>7, <1>b DEF CtimeChecker, GetPaths, CheckPath, Collect, PathsDone, StopChecking
  <2> QED
    BY <1>1, <2>1, <2>2 DEF Walking
<1>8. CASE PutRootDir
  <2>1. main \in BeforeAll /\ main' \in BeforeAll
    BY <1>8 DEF PutRootDir, BeforeAll
  <2>2. Walking' = Walking /\ stops' = stops
    BY <1>8 DEF PutRootDir, Walking
  <2>3. open'["dirs"] = open["dirs"] + 1 /\ dirQueue' = dirQueue \union {{Root}}
    BY <1>8, <1>b DEF PutRootDir
  <2>4. /\ IsFiniteSet(dirQueue \union {{Root}})
        /\ Cardinality(dirQueue \union {{Root}}) <= Cardinality(dirQueue) + 1
        /\ Cardinality(dirQueue) \in Nat /\ Cardinality(dirQueue \union {{Root}}) \in Nat
    BY <2>1, OneMore DEF DirsCounted
  <2> QED
    BY <1>b, <2>1, <2>2, <2>3, <2>4, PoolFinite DEF DirsCounted
<1>9. CASE JoinDirs
  <2>1. main \in BeforeAll /\ main' \notin BeforeAll
    BY <1>9 DEF JoinDirs, BeforeAll, JoinQueue, Joined
  <2>2. IsFiniteSet(dirQueue) /\ Cardinality(dirQueue) \in Nat
    BY <2>1, FS_CardinalityType DEF DirsCounted
  <2>3. open["dirs"] = 0 /\ open["dirs"] >= Cardinality(dirQueue) + Cardinality(Walking)
    BY <1>9, <2>1 DEF DirsCounted, JoinDirs, JoinQueue, Joined
  <2>4. Cardinality(dirQueue) = 0 /\ Cardinality(Walking) = 0
    BY <2>2, <2>3, PoolFinite
  <2>5. dirQueue = {} /\ Walking = {}
    BY <2>2, <2>4, PoolFinite, FS_EmptySet
  <2> QED
    BY <1>9, <2>1, <2>5 DEF JoinDirs, DirsCounted, Walking, JoinQueue, Joined
<1>10. CASE PutRootPath
  <2>1. open'["dirs"] = open["dirs"]
    BY <1>10, <1>b DEF PutRootPath
  <2> QED
    BY <1>1, <1>10, <2>1 DEF PutRootPath, Walking, BeforeAll
<1>11. CASE JoinWalkers \/ JoinPaths \/ JoinCheckers
  <2>1. main \notin BeforeAll /\ main' \notin BeforeAll /\ dirQueue' = dirQueue /\ dirWorker' = dirWorker
    BY <1>11 DEF JoinWalkers, JoinPaths, JoinCheckers, BeforeAll, JoinQueue, Joined, JoinPool
  <2> QED
    BY <2>1 DEF DirsCounted, Walking
<1>12. CASE UNCHANGED vars \/ \E p \in Fleeting : Vanish(p)
  BY <1>1, <1>12 DEF vars, Vanish, Walking
<1> QED
  BY <1>2, <1>3, <1>4, <1>5, <1>6, <1>7, <1>8, <1>9, <1>10, <1>11, <1>12
     DEF Next, RctimeChecker, Main

LEMMA PathsCountedKept ==
  ASSUME Typed, DirsCounted, PathsCounted, [Next]_vars
  PROVE  PathsCounted'
<1>a. \A w \in Worker : pathWorker[w] \in Checker
  BY DEF Typed
<1>b. /\ pathWorker \in [Worker -> Checker]
      /\ open \in [Queue -> Int] /\ stops \in [Queue -> Nat]
      /\ "dirs" \in Queue /\ "paths" \in Queue
      /\ open["paths"] \in Int
  BY DEF Typed, Queue
<1>1. ASSUME pathQueue' = pathQueue, Checking' = Checking, open'["paths"] = open["paths"],
             stops'["paths"] = stops["paths"], main' \in AfterAll <=> main \in AfterAll,
             main \notin BeforeAll => main' \notin BeforeAll
      PROVE  PathsCounted'
  BY <1>1 DEF PathsCounted
<1>2. ASSUME NEW w \in Worker, NEW b \in pathQueue, GetPaths(w, b) PROVE PathsCounted'
  <2>1. main \notin AfterAll
    BY DEF PathsCounted
  <2>2. w \notin Checking
    BY <1>2 DEF GetPaths, Checking
  <2>3. pathWorker'[w].at = "busy"
    BY <1>2, <1>b DEF GetPaths, IdleChecker
  <2>4. Checking' = Checking \union {w}
    BY <1>2, <1>b, <2>3 DEF GetPaths, Checking
  <2>5. Cardinality(Checking') = Cardinality(Checking) + 1
    BY <2>2, <2>4, PoolFinite, FS_AddElement
  <2>6. IsFiniteSet(pathQueue \ {b}) /\ Cardinality(pathQueue \ {b}) = Cardinality(pathQueue) - 1
    BY <2>1, FS_RemoveElement DEF PathsCounted
  <2>7. Cardinality(pathQueue) \in Nat
    BY <2>1, FS_CardinalityType DEF PathsCounted
  <2>8. /\ pathQueue' = pathQueue \ {b} /\ open' = open /\ stops' = stops /\ main' = main
    BY <1>2 DEF GetPaths
  <2> QED
    BY <1>b, <2>1, <2>5, <2>6, <2>7, <2>8, PoolFinite DEF PathsCounted
<1>3. ASSUME NEW w \in Worker, (\E p \in pathWorker[w].paths : CheckPath(w, p)) \/ Collect(w)
      PROVE  PathsCounted'
  <2>1. pathWorker'[w].at \in {"busy", "dead"} /\ w \in Checking
    <3>1. CASE \E p \in pathWorker[w].paths : CheckPath(w, p)
      BY <3>1, <1>a, <1>b DEF CheckPath, Checking, Checker
    <3>2. CASE Collect(w)
      BY <3>2, <1>a, <1>b DEF Collect, Checking, Checker
    <3> QED
      BY <1>3, <3>1, <3>2
  <2>2. \A v \in Worker \ {w} : pathWorker'[v] = pathWorker[v]
    BY <1>3, <1>b DEF CheckPath, Collect
  <2>3. Checking' = Checking
    BY <2>1, <2>2 DEF Checking
  <2> QED
    BY <1>1, <1>3, <2>3 DEF CheckPath, Collect
<1>4. ASSUME NEW w \in Worker, NEW b, PutPaths(w, b) PROVE PathsCounted'
  <2>1. w \in Walking
    BY <1>4 DEF PutPaths, BatchRead, Walking
  <2>2. main \in BeforeAll /\ main \notin AfterAll
    BY <2>1 DEF DirsCounted, BeforeAll, AfterAll
  <2>3. open'["paths"] = open["paths"] + 1 /\ pathQueue' = pathQueue \union {b} /\ stops' = stops /\ main' = main
    BY <1>4, <1>b DEF PutPaths
  <2>4. Checking' = Checking
    BY <1>4 DEF PutPaths, Checking
  <2>5. /\ IsFiniteSet(pathQueue \union {b})
        /\ Cardinality(pathQueue \union {b}) <= Cardinality(pathQueue) + 1
        /\ Cardinality(pathQueue) \in Nat /\ Cardinality(pathQueue \union {b}) \in Nat
    BY <2>2, OneMore DEF PathsCounted
  <2> QED
    BY <1>b, <2>2, <2>3, <2>4, <2>5, PoolFinite DEF PathsCounted
<1>5. ASSUME NEW w \in Worker, PathsDone(w) PROVE PathsCounted'
  <2>1. w \in Checking
    BY <1>5 DEF PathsDone, Collected, Checking
  <2>2. main \notin AfterAll
    BY <2>1 DEF PathsCounted
  <2>3. Checking' = Checking \ {w}
    <3>1. pathWorker'[w].at = "idle" /\ \A v \in Worker \ {w} : pathWorker'[v] = pathWorker[v]
      BY <1>5, <1>a, <1>b DEF PathsDone, Checker
    <3> QED
      BY <3>1 DEF Checking
  <2>4. Cardinality(Checking') = Cardinality(Checking) - 1
    BY <2>1, <2>3, PoolFinite, FS_RemoveElement
  <2>5. open'["paths"] = open["paths"] - 1 /\ pathQueue' = pathQueue /\ stops' = stops /\ main' = main
    BY <1>5, <1>b DEF PathsDone
  <2>6. Cardinality(pathQueue) \in Nat
    BY <2>2, FS_CardinalityType DEF PathsCounted
  <2> QED
    BY <1>b, <2>2, <2>4, <2>5, <2>6, PoolFinite DEF PathsCounted
<1>6. ASSUME NEW w \in Worker, StopChecking(w) PROVE PathsCounted'
  <2>1. main \in AfterAll
    BY <1>6 DEF StopChecking, PathsCounted
  <2>2. pathWorker'[w].at = "stopped" /\ \A v \in Worker \ {w} : pathWorker'[v] = pathWorker[v]
    BY <1>6, <1>a, <1>b DEF StopChecking, Checker
  <2>3. Checking' = {}
    BY <2>1, <2>2 DEF Checking, PathsCounted
  <2> QED
    BY <1>6, <2>1, <2>3 DEF StopChecking, PathsCounted
<1>7. ASSUME NEW w \in Worker, RctimeChecker(w), ~(\E b \in Batches(dirWorker[w].toCheck) : PutPaths(w, b))
      PROVE  PathsCounted'
  <2>1. UNCHANGED <<pathQueue, pathWorker, main>>
    BY <1>7 DEF RctimeChecker, GetDirs, ScanDir, CheckEntry, PutDirs, DirsDone, StopWalking
  <2>2. open'["paths"] = open["paths"] /\ stops'["paths"] = stops["paths"]
    BY <1>7, <1>b DEF RctimeChecker, GetDirs, ScanDir, CheckEntry, PutDirs, DirsDone, StopWalking
  <2> QED
    BY <1>1, <2>1, <2>2 DEF Checking
<1>8. CASE PutRootPath
  <2>1. main \notin AfterAll /\ main' \notin AfterAll
    BY <1>8 DEF PutRootPath, AfterAll
  <2>2. Checking' = Checking /\ stops' = stops
    BY <1>8 DEF PutRootPath, Checking
  <2>3. open'["paths"] = open["paths"] + 1 /\ pathQueue' = pathQueue \union {{Root}}
    BY <1>8, <1>b DEF PutRootPath
  <2>4. /\ IsFiniteSet(pathQueue \union {{Root}})
        /\ Cardinality(pathQueue \union {{Root}}) <= Cardinality(pathQueue) + 1
        /\ Cardinality(pathQueue) \in Nat /\ Cardinality(pathQueue \union {{Root}}) \in Nat
    BY <2>1, OneMore DEF PathsCounted
  <2> QED
    BY <1>b, <2>1, <2>2, <2>3, <2>4, PoolFinite DEF PathsCounted
<1>9. CASE JoinPaths
  <2>1. main \notin AfterAll /\ main' \in AfterAll /\ main' \notin BeforeAll
    BY <1>9 DEF JoinPaths, BeforeAll, AfterAll, JoinQueue, Joined
  <2>2. IsFiniteSet(pathQueue) /\ Cardinality(pathQueue) \in Nat
    BY <2>1, FS_CardinalityType DEF PathsCounted
  <2>3. open["paths"] = 0 /\ open["paths"] >= Cardinality(pathQueue) + Cardinality(Checking)
    BY <1>9, <2>1 DEF PathsCounted, JoinPaths, JoinQueue, Joined
  <2>4. Cardinality(pathQueue) = 0 /\ Cardinality(Checking) = 0
    BY <2>2, <2>3, PoolFinite
  <2>5. pathQueue = {} /\ Checking = {}
    BY <2>2, <2>4, PoolFinite, FS_EmptySet
  <2> QED
    BY <1>9, <2>1, <2>5 DEF JoinPaths, PathsCounted, Checking, JoinQueue, Joined
<1>10. CASE PutRootDir \/ JoinDirs \/ JoinWalkers
  <2>1. open'["paths"] = open["paths"] /\ stops'["paths"] = stops["paths"]
    BY <1>10, <1>b DEF PutRootDir, JoinDirs, JoinWalkers, Signal, JoinQueue, Joined, JoinPool
  <2> QED
    BY <1>1, <1>10, <2>1
       DEF PutRootDir, JoinDirs, JoinWalkers, Checking, BeforeAll, AfterAll, JoinQueue, Joined, JoinPool
<1>11. CASE JoinCheckers
  BY <1>11 DEF JoinCheckers, PathsCounted, Checking, BeforeAll, AfterAll, JoinPool
<1>12. CASE UNCHANGED vars \/ \E p \in Fleeting : Vanish(p)
  BY <1>1, <1>12 DEF vars, Vanish, Checking
<1> QED
  BY <1>2, <1>3, <1>4, <1>5, <1>6, <1>7, <1>8, <1>9, <1>10, <1>11, <1>12
     DEF Next, CtimeChecker, Main

-----------------------------------------------------------------------------
(* What becomes of paths.                                                   *)

LEMMA GoneBelowKept ==
  ASSUME Typed, GoneBelow, [Next]_vars
  PROVE  GoneBelow'
<1>1. CASE UNCHANGED gone
  BY <1>1 DEF GoneBelow
<1>2. ASSUME NEW p \in Fleeting, Vanish(p) PROVE GoneBelow'
  <2>1. p \in Path /\ gone \subseteq Path
    BY OptionsTyped DEF Typed
  <2>2. gone' = gone \union {q \in Path : q = p \/ Above(p, q)}
    BY <1>2 DEF Vanish
  <2> SUFFICES ASSUME NEW d \in gone', NEW q \in Path, Above(d, q) PROVE q \in gone'
    BY DEF GoneBelow
  <2>3. CASE d \in gone
    BY <2>2, <2>3 DEF GoneBelow
  <2>4. CASE d \in Path /\ (d = p \/ Above(p, d))
    BY <2>1, <2>2, <2>4, AboveTransitive
  <2> QED
    BY <2>2, <2>3, <2>4
<1> QED
  BY <1>1, <1>2 DEF Next, vars, RctimeChecker, CtimeChecker, Main, GetDirs, ScanDir, CheckEntry,
     PutDirs, PutPaths, DirsDone, StopWalking, GetPaths, CheckPath, Collect, PathsDone, StopChecking,
     PutRootPath, PutRootDir, JoinDirs, JoinWalkers, JoinPaths, JoinCheckers,
     JoinQueue, Joined, JoinPool

LEMMA TreeKept ==
  ASSUME [Next]_vars
  PROVE  tree' = tree /\ gone \subseteq gone'
BY DEF Next, vars, Vanish, RctimeChecker, CtimeChecker, Main, GetDirs, ScanDir, CheckEntry,
     PutDirs, PutPaths, DirsDone, StopWalking, GetPaths, CheckPath, Collect, PathsDone, StopChecking,
     PutRootPath, PutRootDir, JoinDirs, JoinWalkers, JoinPaths, JoinCheckers,
     JoinQueue, Joined, JoinPool

LEMMA OnlyChangedKept ==
  ASSUME Typed, OnlyChanged, [Next]_vars
  PROVE  OnlyChanged'
<1>a. pathWorker \in [Worker -> Checker] /\ found \in Seq(SUBSET Path)
  BY DEF Typed
<1>b. tree' = tree
  BY TreeKept
<1>1. CASE UNCHANGED <<pathWorker, found>>
  BY <1>1, <1>b DEF OnlyChanged
<1>2. ASSUME NEW w \in Worker, CtimeChecker(w) PROVE OnlyChanged'
  <2>1. \A v \in Worker \ {w} : pathWorker'[v] = pathWorker[v]
    BY <1>2, <1>a DEF CtimeChecker, GetPaths, CheckPath, Collect, PathsDone, StopChecking
  <2>2. pathWorker'[w].matches \subseteq tree.changed
    <3>1. CASE \E b \in pathQueue : GetPaths(w, b)
      BY <3>1, <1>a DEF GetPaths, IdleChecker
    <3>2. CASE \E p \in pathWorker[w].paths : CheckPath(w, p)
      BY <3>2, <1>a DEF CheckPath, Checker, OnlyChanged
    <3>3. CASE Collect(w) \/ PathsDone(w) \/ StopChecking(w)
      BY <3>3, <1>a DEF Collect, PathsDone, StopChecking, Checker, OnlyChanged
    <3> QED
      BY <1>2, <3>1, <3>2, <3>3 DEF CtimeChecker
  <2>3. \A i \in DOMAIN found' : found'[i] \subseteq tree.changed
    <3>1. CASE Collect(w)
      <4>1. pathWorker[w].matches \in SUBSET Path /\ pathWorker[w].matches \subseteq tree.changed
        BY <1>a, CheckerUpdates DEF OnlyChanged
      <4> QED
        BY <3>1, <4>1, <1>a DEF Collect, OnlyChanged
    <3>2. CASE found' = found
      BY <3>2 DEF OnlyChanged
    <3> QED
      BY <1>2, <3>1, <3>2 DEF CtimeChecker, GetPaths, CheckPath, PathsDone, StopChecking
  <2> QED
    BY <1>b, <2>1, <2>2, <2>3 DEF OnlyChanged
<1> QED
  BY <1>1, <1>2 DEF Next, vars, Vanish, RctimeChecker, Main, GetDirs, ScanDir, CheckEntry,
     PutDirs, PutPaths, DirsDone, StopWalking,
     PutRootPath, PutRootDir, JoinDirs, JoinWalkers, JoinPaths, JoinCheckers,
     JoinQueue, Joined, JoinPool

LEMMA RootNotEntryKept ==
  ASSUME Typed, RootNotEntry, [Next]_vars
  PROVE  RootNotEntry'
<1>a. dirWorker \in [Worker -> Walker] /\ \A w \in Worker : dirWorker[w] \in Walker
  BY DEF Typed
<1>1. CASE UNCHANGED dirWorker
  BY <1>1 DEF RootNotEntry
<1>2. ASSUME NEW w \in Worker, RctimeChecker(w) PROVE RootNotEntry'
  <2>1. \A v \in Worker \ {w} : dirWorker'[v] = dirWorker[v]
    BY <1>2, <1>a
       DEF RctimeChecker, GetDirs, ScanDir, CheckEntry, PutDirs, PutPaths, DirsDone, StopWalking
  <2>2. Root \notin dirWorker'[w].entries
    <3>1. CASE \E b \in dirQueue : GetDirs(w, b)
      BY <3>1, <1>a DEF GetDirs, IdleWorker
    <3>2. ASSUME NEW d \in dirWorker[w].dirs, ScanDir(w, d) PROVE Root \notin dirWorker'[w].entries
      <4>1. d \in Path
        BY <1>a, WalkerUpdates, PathsTyped
      <4>2. Root \notin Children(d)
        BY <4>1, ChildBelowRoot
      <4> QED
        BY <3>2, <4>2, <1>a DEF ScanDir, RootNotEntry, Walker
    <3>3. CASE \E e \in dirWorker[w].entries : CheckEntry(w, e)
      BY <3>3, <1>a DEF CheckEntry, RootNotEntry, Walker
    <3>4. CASE \/ \E b \in Batches(dirWorker[w].toEnter) : PutDirs(w, b)
               \/ \E b \in Batches(dirWorker[w].toCheck) : PutPaths(w, b)
      BY <3>4, <1>a DEF PutDirs, PutPaths, RootNotEntry, Walker
    <3>5. CASE DirsDone(w) \/ StopWalking(w)
      BY <3>5, <1>a DEF DirsDone, StopWalking, RootNotEntry, Walker
    <3> QED
      BY <1>2, <3>1, <3>2, <3>3, <3>4, <3>5 DEF RctimeChecker
  <2> QED
    BY <2>1, <2>2 DEF RootNotEntry
<1> QED
  BY <1>1, <1>2 DEF Next, vars, Vanish, CtimeChecker, Main, GetPaths, CheckPath, Collect, PathsDone,
     StopChecking, PutRootPath, PutRootDir, JoinDirs, JoinWalkers, JoinPaths, JoinCheckers,
     JoinQueue, Joined, JoinPool

\* What a step of an rctime_checker leaves alone.
LEMMA WalkerFrame ==
  ASSUME Typed, NEW w \in Worker, RctimeChecker(w)
  PROVE  /\ UNCHANGED <<pathWorker, found, main>>
         /\ \A v \in Worker \ {w} : dirWorker'[v] = dirWorker[v]
BY DEF Typed, RctimeChecker, GetDirs, ScanDir, CheckEntry, PutDirs, PutPaths, DirsDone, StopWalking

LEMMA CheckerFrame ==
  ASSUME Typed, NEW w \in Worker, CtimeChecker(w)
  PROVE  /\ UNCHANGED <<dirWorker, dirQueue, main>>
         /\ \A v \in Worker \ {w} : pathWorker'[v] = pathWorker[v]
BY DEF Typed, CtimeChecker, GetPaths, CheckPath, Collect, PathsDone, StopChecking

\* Nothing is lost by a step that only hands over: w's own sets and the two queues
\* together lose no path.
LEMMA SeenByWalkers ==
  ASSUME Typed, NEW w \in Worker, RctimeChecker(w), NEW p, Seen(p),
         \A b \in pathQueue : b \in pathQueue',
         p \in dirWorker[w].entries \union dirWorker[w].toCheck =>
           \/ p \in dirWorker'[w].entries \union dirWorker'[w].toCheck
           \/ \E b \in pathQueue' : p \in b
  PROVE  Seen(p)'
<1>1. /\ UNCHANGED <<pathWorker, found>>
      /\ \A v \in Worker \ {w} : dirWorker'[v] = dirWorker[v]
  BY WalkerFrame
<1> QED
  BY <1>1 DEF Seen

LEMMA EnteredByWalkers ==
  ASSUME Typed, NEW w \in Worker, RctimeChecker(w), NEW d, ToBeEntered(d),
         \A b \in dirQueue : d \in b => b \in dirQueue' \/ d \in dirWorker'[w].dirs,
         d \in dirWorker[w].dirs \union dirWorker[w].entries \union dirWorker[w].toEnter =>
           \/ d \in dirWorker'[w].dirs \union dirWorker'[w].entries \union dirWorker'[w].toEnter
           \/ \E b \in dirQueue' : d \in b
  PROVE  ToBeEntered(d)'
<1>1. \A v \in Worker \ {w} : dirWorker'[v] = dirWorker[v]
  BY WalkerFrame
<1> QED
  BY <1>1 DEF ToBeEntered

LEMMA SeenByCheckers ==
  ASSUME Typed, NEW w \in Worker, CtimeChecker(w), NEW p, Seen(p),
         \A i \in DOMAIN found : i \in DOMAIN found' /\ found'[i] = found[i],
         \A b \in pathQueue : p \in b => b \in pathQueue' \/ p \in pathWorker'[w].paths,
         p \in pathWorker[w].paths \union pathWorker[w].matches =>
           \/ p \in pathWorker'[w].paths \union pathWorker'[w].matches
           \/ \E i \in DOMAIN found' : p \in found'[i]
  PROVE  Seen(p)'
<1>1. /\ UNCHANGED dirWorker
      /\ \A v \in Worker \ {w} : pathWorker'[v] = pathWorker[v]
  BY CheckerFrame
<1> QED
  BY <1>1 DEF Seen

LEMMA OnTheWayKept ==
  ASSUME Typed, EmptyHanded, GoneBelow, RootNotEntry, OnTheWay, [Next]_vars
  PROVE  OnTheWay'
<1>a. /\ dirWorker \in [Worker -> Walker] /\ \A w \in Worker : dirWorker[w] \in Walker
      /\ pathWorker \in [Worker -> Checker] /\ \A w \in Worker : pathWorker[w] \in Checker
      /\ found \in Seq(SUBSET Path) /\ tree.changed \subseteq Path
  BY DEF Typed, TreeTyped
<1> DEFINE Done(q) == \/ main' = "start" /\ q = Root
                      \/ main' \in {"start", "put root"} /\ q # Root
                      \/ Seen(q)'
                      \/ \E d \in Dir : Above(d, q) /\ ToBeEntered(d)'
<1> SUFFICES ASSUME NEW p \in Promised' PROVE Done(p)
  BY DEF OnTheWay
<1>b. /\ p \in Promised /\ p \in tree.changed /\ p \in Path /\ p \notin gone /\ p \notin gone'
      /\ \A d \in Dir \ {Root} : Above(d, p) => d \in tree.recent
  BY <1>a, TreeKept DEF Promised
<1>c. \A d \in Dir : Above(d, p) => d \notin gone
  BY <1>b DEF GoneBelow
<1>d. \/ main = "start" /\ p = Root
      \/ main \in {"start", "put root"} /\ p # Root
      \/ Seen(p)
      \/ \E d \in Dir : Above(d, p) /\ ToBeEntered(d)
  BY <1>b DEF OnTheWay
<1>1. CASE UNCHANGED <<dirQueue, pathQueue, dirWorker, pathWorker, found, main>>
  BY <1>1, <1>d DEF Seen, ToBeEntered
<1>2. ASSUME NEW w \in Worker, RctimeChecker(w) PROVE Done(p)
  <2> DEFINE me == dirWorker[w]
  <2>a. main' = main
    BY <1>2, WalkerFrame
  <2>b. me.dirs \subseteq Dir /\ me.entries \subseteq Path
    BY <1>a, WalkerUpdates
  <2>1. ASSUME NEW b \in dirQueue, GetDirs(w, b) PROVE Done(p)
    <3>1. /\ me.dirs = {} /\ me.entries = {} /\ me.toEnter = {} /\ me.toCheck = {}
      BY <2>1 DEF GetDirs, EmptyHanded
    <3>2. dirWorker'[w].dirs = b
      BY <2>1, <1>a DEF GetDirs, IdleWorker
    <3>3. Seen(p) => Seen(p)'
      BY <1>2, <2>1, <3>1, SeenByWalkers DEF GetDirs
    <3>4. \A d \in Dir : ToBeEntered(d) => ToBeEntered(d)'
      BY <1>2, <2>1, <3>1, <3>2, EnteredByWalkers DEF GetDirs
    <3> QED
      BY <1>d, <2>a, <3>3, <3>4
  <2>2. ASSUME NEW x \in me.dirs, ScanDir(w, x) PROVE Done(p)
    <3>0. me.entries = {} /\ dirQueue' = dirQueue /\ pathQueue' = pathQueue /\ x \in Path
      BY <2>2, <2>b, PathsTyped DEF ScanDir
    <3>1. dirWorker'[w].toCheck = me.toCheck /\ dirWorker'[w].toEnter = me.toEnter
      BY <2>2, <1>a DEF ScanDir, Walker
    <3>2. \A d \in me.dirs \ {x} : d \in dirWorker'[w].dirs
      BY <2>2, <1>a DEF ScanDir, Walker
    <3>3. Seen(p) => Seen(p)'
      BY <1>2, <3>0, <3>1, SeenByWalkers
    <3>4. \A d \in Dir \ {x} : ToBeEntered(d) => ToBeEntered(d)'
      BY <1>2, <3>0, <3>1, <3>2, EnteredByWalkers
    <3>5. ASSUME Above(x, p) PROVE Seen(p)' \/ \E d \in Dir : Above(d, p) /\ ToBeEntered(d)'
      <4>1. x \notin gone
        BY <1>c, <2>b, <3>5
      <4>2. CASE <<"scandir", x>> \in tree.denied
        <5>1. x \in dirWorker'[w].dirs
          BY <2>2, <4>1, <4>2, <1>a DEF ScanDir, Walker
        <5> QED
          BY <2>b, <3>5, <5>1 DEF ToBeEntered
      <4>3. CASE <<"scandir", x>> \notin tree.denied
        <5>1. dirWorker'[w].entries = Children(x) \ gone
          BY <2>2, <4>1, <4>3, <1>a DEF ScanDir, Walker
        <5>2. PICK c \in Children(x) : c = p \/ (c \in Dir /\ Above(c, p))
          BY <1>b, <3>0, <3>5, StepDown
        <5>3. c \in dirWorker'[w].entries
          BY <1>b, <1>c, <5>1, <5>2
        <5> QED
          BY <5>2, <5>3 DEF Seen, ToBeEntered
      <4> QED
        BY <4>2, <4>3
    <3> QED
      BY <1>d, <2>a, <3>3, <3>4, <3>5
  <2>3. ASSUME NEW e \in me.entries, CheckEntry(w, e) PROVE Done(p)
    <3>1. /\ dirWorker'[w].entries = me.entries \ {e}
          /\ dirWorker'[w].toCheck = me.toCheck \union {e}
          /\ dirWorker'[w].dirs = me.dirs
          /\ dirWorker'[w].toEnter = IF e \in tree.recent \ gone THEN me.toEnter \union {e} ELSE me.toEnter
      BY <2>3, <1>a DEF CheckEntry, Walker
    <3>2. dirQueue' = dirQueue /\ pathQueue' = pathQueue
      BY <2>3 DEF CheckEntry
    <3>3. Seen(p) => Seen(p)'
      BY <1>2, <3>1, <3>2, SeenByWalkers
    <3>4. e # Root
      BY DEF RootNotEntry
    <3>5. \A d \in Dir : Above(d, p) /\ ToBeEntered(d) => ToBeEntered(d)'
      <4> TAKE d \in Dir
      <4> HAVE Above(d, p) /\ ToBeEntered(d)
      <4>1. d = e => d \in dirWorker'[w].toEnter
        BY <1>b, <1>c, <3>1, <3>4
      <4>2. d \in me.dirs \union me.entries \union me.toEnter =>
              d \in dirWorker'[w].dirs \union dirWorker'[w].entries \union dirWorker'[w].toEnter
        BY <3>1, <4>1
      <4> QED
        BY <1>2, <3>2, <4>2, EnteredByWalkers
    <3> QED
      BY <1>d, <2>a, <3>3, <3>5
  <2>4. ASSUME NEW b \in Batches(me.toEnter), PutDirs(w, b) PROVE Done(p)
    <3>1. /\ dirWorker'[w].entries = me.entries /\ dirWorker'[w].toCheck = me.toCheck
          /\ dirWorker'[w].dirs = me.dirs /\ dirWorker'[w].toEnter = me.toEnter \ b
      BY <2>4, <1>a DEF PutDirs, Walker
    <3>2. dirQueue' = dirQueue \union {b} /\ pathQueue' = pathQueue
      BY <2>4 DEF PutDirs
    <3>3. Seen(p) => Seen(p)'
      BY <1>2, <3>1, <3>2, SeenByWalkers
    <3>4. \A d \in Dir : ToBeEntered(d) => ToBeEntered(d)'
      BY <1>2, <3>1, <3>2, EnteredByWalkers
    <3> QED
      BY <1>d, <2>a, <3>3, <3>4
  <2>5. ASSUME NEW b \in Batches(me.toCheck), PutPaths(w, b) PROVE Done(p)
    <3>1. /\ dirWorker'[w].entries = me.entries /\ dirWorker'[w].toCheck = me.toCheck \ b
          /\ dirWorker'[w].dirs = me.dirs /\ dirWorker'[w].toEnter = me.toEnter
      BY <2>5, <1>a DEF PutPaths, Walker
    <3>2. dirQueue' = dirQueue /\ pathQueue' = pathQueue \union {b}
      BY <2>5 DEF PutPaths
    <3>3. Seen(p) => Seen(p)'
      BY <1>2, <3>1, <3>2, SeenByWalkers
    <3>4. \A d \in Dir : ToBeEntered(d) => ToBeEntered(d)'
      BY <1>2, <3>1, <3>2, EnteredByWalkers
    <3> QED
      BY <1>d, <2>a, <3>3, <3>4
  <2>6. CASE DirsDone(w) \/ StopWalking(w)
    <3>1. /\ dirWorker'[w].entries = me.entries /\ dirWorker'[w].toCheck = me.toCheck
          /\ dirWorker'[w].dirs = me.dirs /\ dirWorker'[w].toEnter = me.toEnter
      BY <2>6, <1>a DEF DirsDone, StopWalking, Walker
    <3>2. dirQueue' = dirQueue /\ pathQueue' = pathQueue
      BY <2>6 DEF DirsDone, StopWalking
    <3>3. Seen(p) => Seen(p)'
      BY <1>2, <3>1, <3>2, SeenByWalkers
    <3>4. \A d \in Dir : ToBeEntered(d) => ToBeEntered(d)'
      BY <1>2, <3>1, <3>2, EnteredByWalkers
    <3> QED
      BY <1>d, <2>a, <3>3, <3>4
  <2> QED
    BY <1>2, <2>1, <2>2, <2>3, <2>4, <2>5, <2>6 DEF RctimeChecker
<1>3. ASSUME NEW w \in Worker, CtimeChecker(w) PROVE Done(p)
  <2> DEFINE me == pathWorker[w]
  <2>1. main' = main /\ \A d \in Dir : ToBeEntered(d) => ToBeEntered(d)'
    BY <1>3, CheckerFrame DEF ToBeEntered
  <2>2. SUFFICES ASSUME Seen(p) PROVE Seen(p)'
    BY <1>d, <2>1
  <2>3. ASSUME NEW b \in pathQueue, GetPaths(w, b) PROVE Seen(p)'
    <3>1. me.paths = {} /\ me.matches = {}
      BY <2>3 DEF GetPaths, EmptyHanded
    <3>2. pathWorker'[w].paths = b /\ found' = found /\ pathQueue' = pathQueue \ {b}
      BY <2>3, <1>a DEF GetPaths, IdleChecker
    <3> QED
      BY <1>3, <2>2, <3>1, <3>2, SeenByCheckers
  <2>4. ASSUME NEW q \in me.paths, CheckPath(w, q) PROVE Seen(p)'
    <3>1. found' = found /\ pathQueue' = pathQueue
      BY <2>4 DEF CheckPath
    <3>2. me.matches \subseteq pathWorker'[w].matches /\ me.paths \ {q} \subseteq pathWorker'[w].paths
      BY <2>4, <1>a DEF CheckPath, Checker
    <3>3. p = q => p \in pathWorker'[w].paths \union pathWorker'[w].matches
      BY <2>4, <1>a, <1>b DEF CheckPath, Checker
    <3> QED
      BY <1>3, <2>2, <3>1, <3>2, <3>3, SeenByCheckers
  <2>5. CASE Collect(w)
    <3>1. pathWorker'[w].paths = me.paths /\ pathQueue' = pathQueue /\ found' = Append(found, me.matches)
      BY <2>5, <1>a DEF Collect, Checker
    <3>2. me.matches \in SUBSET Path
      BY <1>a, CheckerUpdates
    <3>3. /\ \A i \in DOMAIN found : i \in DOMAIN found' /\ found'[i] = found[i]
          /\ Len(found) + 1 \in DOMAIN found' /\ found'[Len(found) + 1] = me.matches
      BY <1>a, <3>1, <3>2
    <3> QED
      BY <1>3, <2>2, <3>1, <3>3, SeenByCheckers
  <2>6. CASE PathsDone(w) \/ StopChecking(w)
    <3>1. /\ pathWorker'[w].paths = me.paths /\ pathWorker'[w].matches = me.matches
          /\ pathQueue' = pathQueue /\ found' = found
      BY <2>6, <1>a DEF PathsDone, StopChecking, Checker
    <3> QED
      BY <1>3, <2>2, <3>1, SeenByCheckers
  <2> QED
    BY <1>3, <2>3, <2>4, <2>5, <2>6 DEF CtimeChecker
<1>4. CASE PutRootPath
  <2>1. /\ main = "start" /\ main' = "put root" /\ pathQueue' = pathQueue \union {{Root}}
        /\ UNCHANGED <<dirQueue, dirWorker, pathWorker, found>>
    BY <1>4 DEF PutRootPath
  <2>2. p = Root => Seen(p)'
    BY <2>1 DEF Seen
  <2> QED
    BY <2>1, <2>2
<1>5. CASE PutRootDir
  <2>1. /\ main = "put root" /\ dirQueue' = dirQueue \union {{Root}}
        /\ UNCHANGED <<pathQueue, dirWorker, pathWorker, found>>
    BY <1>5 DEF PutRootDir
  <2>2. p # Root => Above(Root, p) /\ Root \in Dir /\ ToBeEntered(Root)'
    BY <1>b, <2>1, RootAboveAll, PathsTyped DEF ToBeEntered
  <2>3. Seen(p) => Seen(p)'
    BY <2>1 DEF Seen
  <2>4. \A d \in Dir : ToBeEntered(d) => ToBeEntered(d)'
    BY <2>1 DEF ToBeEntered
  <2> QED
    BY <1>d, <2>1, <2>2, <2>3, <2>4
<1>6. CASE JoinDirs \/ JoinWalkers \/ JoinPaths \/ JoinCheckers
  <2>1. /\ main \notin {"start", "put root"}
        /\ UNCHANGED <<dirQueue, pathQueue, dirWorker, pathWorker, found>>
    BY <1>6 DEF JoinDirs, JoinWalkers, JoinPaths, JoinCheckers,
     JoinQueue, Joined, JoinPool
  <2> QED
    BY <1>d, <2>1 DEF Seen, ToBeEntered
<1> QED
  BY <1>1, <1>2, <1>3, <1>4, <1>5, <1>6 DEF Next, vars, Vanish, Main

-----------------------------------------------------------------------------
(* The theorems.                                                            *)

LEMMA InvKept == Inv /\ [Next]_vars => Inv'
BY TypedKept, EmptyHandedKept, DirsCountedKept, PathsCountedKept, GoneBelowKept, OnlyChangedKept,
   RootNotEntryKept, OnTheWayKept DEF Inv

LEMMA AlwaysInv == Spec => []Inv
BY Initially, InvKept, PTL DEF Spec

\* Past the last join nobody holds anything.
LEMMA AllCollected ==
  ASSUME Inv, main = "done"
  PROVE  /\ dirQueue = {} /\ pathQueue = {}
         /\ \A w \in Worker : /\ dirWorker[w].at \in {"idle", "stopped"}
                            /\ pathWorker[w].at \in {"idle", "stopped"}
<1>1. main \notin BeforeAll /\ main \in AfterAll
  BY DEF BeforeAll, AfterAll
<1>2. dirQueue = {} /\ Walking = {} /\ pathQueue = {} /\ Checking = {}
  BY <1>1 DEF Inv, DirsCounted, PathsCounted
<1>3. \A w \in Worker : dirWorker[w].at \in At /\ pathWorker[w].at \in At
  BY DEF Inv, Typed, Walker, Checker
<1> QED
  BY <1>2, <1>3 DEF Walking, Checking, At

\* find-recent-rctime prints every path that changed, was there all along, and is below
\* directories with a recent recursive ctime; and prints no other that did not change.
THEOREM PrintsAll == Spec => []Complete
<1>1. Inv => Complete
  <2> SUFFICES ASSUME Inv, main = "done" PROVE Promised \subseteq Printed /\ Printed \subseteq tree.changed
    BY DEF Complete
  <2>1. Printed = {q \in UNION {found[i] : i \in DOMAIN found} : TRUE}
    BY DEF Printed, ToSet
  <2>2. Printed \subseteq tree.changed
    BY <2>1 DEF Inv, OnlyChanged
  <2>3. \A w \in Worker : /\ dirWorker[w].dirs = {} /\ dirWorker[w].entries = {}
                        /\ dirWorker[w].toEnter = {} /\ dirWorker[w].toCheck = {}
                        /\ pathWorker[w].paths = {} /\ pathWorker[w].matches = {}
    BY AllCollected DEF Inv, EmptyHanded
  <2>4. \A p \in Promised : \E i \in DOMAIN found : p \in found[i]
    BY <2>3, AllCollected DEF Inv, OnTheWay, Seen, ToBeEntered
  <2> QED
    BY <2>1, <2>2, <2>4
<1> QED
  BY <1>1, AlwaysInv, PTL

\* A run in which a process died prints nothing.
THEOREM DeadRunsPrintNothing == Spec => []NothingFromTheDead
<1>1. Inv => NothingFromTheDead
  BY AllCollected DEF NothingFromTheDead
<1> QED
  BY <1>1, AlwaysInv, PTL

\* Once the directories' queue has been joined, nobody enters directories or passes on
\* paths any more.
THEOREM NothingAfterJoin == Spec => []QuietAfterJoin
<1>1. Inv => QuietAfterJoin
  <2> SUFFICES ASSUME Inv, main \notin BeforeAll PROVE QuietAfterJoin
    BY DEF QuietAfterJoin, BeforeAll
  <2>1. dirQueue = {} /\ Walking = {}
    BY DEF Inv, DirsCounted
  <2>2. \A w \in Worker : dirWorker[w].at \in {"idle", "stopped"}
    BY <2>1 DEF Inv, Typed, Walker, Walking, At
  <2> QED
    BY <2>1, <2>2 DEF Inv, EmptyHanded, QuietAfterJoin
<1> QED
  BY <1>1, AlwaysInv, PTL

-----------------------------------------------------------------------------
(* save_state: the type of the state.                                       *)

Steps == {"open", "dump", "fsync", "replace", "replaced", "failing", "interrupting"} \union Ended

Contents == [Saver -> {"empty", "part", "whole"}]

\* The type of the state.
SaveTypeOK ==
  /\ pc \in [Saver -> Steps]
  /\ target \in Saver \union {Before}
  /\ temp \in [Saver -> Saver \union {Stale, NoFile}]
  /\ content \in Contents
  /\ disk \in [target : Saver \union {Before}, temp : [Saver -> Saver \union {Stale, NoFile}],
               content : Contents]
  /\ put \subseteq Saver
  /\ mishap \subseteq Saver

\* What is put is whole, as processes see it and on the disk.
PutIsWhole ==
  /\ target \in put \union {Before}
  /\ disk.target \in put \union {Before}
  /\ \A s \in put : content[s] = "whole" /\ disk.content[s] = "whole"

WrittenInOrder ==
  \A s \in Saver :
    /\ pc[s] = "fsync" => content[s] = "whole"
    /\ pc[s] = "replace" => content[s] = "whole" /\ disk.content[s] = "whole"

PutByNow ==
  \A s \in Saver :
    /\ pc[s] \in {"open", "dump", "fsync", "replace", "failing", "failed"} => s \notin put
    /\ pc[s] \in {"replaced", "saved"} => s \in put

SavedInv == SaveTypeOK /\ PutIsWhole /\ WrittenInOrder /\ PutByNow

\* What is in the target is then all of some version.
LEMMA HeldIsTarget == (SavedInv => Held = target) /\ (SavedInv' => Held' = target')
BY SavedTyped DEF Held, SavedInv, SaveTypeOK, PutIsWhole

LEMMA SavedInvInit == SaveInit => SavedInv
BY SavedTyped DEF SaveInit, SavedInv, SaveTypeOK, PutIsWhole, WrittenInOrder, PutByNow, Steps, Contents, Ended

\* Each step keeps it.
LEMMA SavedInvNext == SavedInv /\ [SaveNext]_saveVars => SavedInv'
<1> SUFFICES ASSUME SavedInv, [SaveNext]_saveVars
             PROVE  SavedInv'
  OBVIOUS
<1> USE SavedTyped DEF SavedInv, SaveTypeOK, PutIsWhole, WrittenInOrder, PutByNow, Steps, Contents, Ended
<1>1. ASSUME NEW s \in Saver, Open(s)
      PROVE  SavedInv'
  BY <1>1 DEF Open
<1>2. ASSUME NEW s \in Saver, Dump(s)
      PROVE  SavedInv'
  BY <1>2 DEF Dump
<1>3. ASSUME NEW s \in Saver, Flush(s)
      PROVE  SavedInv'
  BY <1>3 DEF Flush
<1>4. ASSUME NEW s \in Saver, Fsync(s)
      PROVE  SavedInv'
  BY <1>4 DEF Fsync
<1>5. ASSUME NEW s \in Saver, Replace(s)
      PROVE  SavedInv'
  BY <1>5 DEF Replace
<1>6. ASSUME NEW s \in Saver, Return(s)
      PROVE  SavedInv'
  BY <1>6 DEF Return, Outcome
<1>7. ASSUME NEW s \in Saver, Fail(s)
      PROVE  SavedInv'
  BY <1>7 DEF Fail
<1>8. ASSUME NEW s \in Saver, Interrupt(s)
      PROVE  SavedInv'
  BY <1>8 DEF Interrupt
<1>9. ASSUME NEW s \in Saver, CleanUp(s)
      PROVE  SavedInv'
  BY <1>9 DEF CleanUp, Unlink, Outcome
<1>10. ASSUME NEW s \in Saver, Kill(s)
       PROVE  SavedInv'
  BY <1>10 DEF Kill
<1>11. ASSUME NEW s \in Saver, WriteContent(s)
       PROVE  SavedInv'
  BY <1>11 DEF WriteContent
<1>12. CASE WriteNames
  BY <1>12 DEF WriteNames
<1>13. CASE PowerLoss
  BY <1>13 DEF PowerLoss
<1>14. CASE UNCHANGED saveVars
  BY <1>14 DEF saveVars
<1>15. ASSUME NEW s \in Saver, InterruptAgain(s)
       PROVE  SavedInv'
  BY <1>15 DEF InterruptAgain, Unlink
<1> QED
  BY <1>1, <1>2, <1>3, <1>4, <1>5, <1>6, <1>7, <1>8, <1>9, <1>10, <1>11, <1>12, <1>13, <1>14, <1>15 DEF SaveNext

\* The files that save_state leaves, for any number of savers, are whole (save_state).
THEOREM SavedIsWhole == SaveSpec => []SavedInv
<1>1. SaveInit => SavedInv
  BY SavedInvInit
<1>2. SavedInv /\ [SaveNext]_saveVars => SavedInv'
  BY SavedInvNext
<1> QED
  BY <1>1, <1>2, PTL DEF SaveSpec

-----------------------------------------------------------------------------
(* The temporary file.                                                      *)

\* A file that was renamed is not under its temporary name, and nobody else touches that.
TempInv == NoTempLeft /\ \A s \in Saver : pc[s] = "replaced" => temp[s] = NoFile

\* Who ends his save has removed or renamed his temporary file, whatever failed or was
\* interrupted once, for any number of savers: only if the removal itself fails, a second Ctrl-C
\* comes before it, or a power loss undoes it is the file there (save_state).
THEOREM NoTempIsLeft == SaveSpec => []NoTempLeft
<1>1. SaveInit => TempInv
  BY DEF SaveInit, TempInv, NoTempLeft, Told, Ended
<1>2. SavedInv /\ TempInv /\ [SaveNext]_saveVars => TempInv'
  <2> SUFFICES ASSUME SavedInv, TempInv, [SaveNext]_saveVars
               PROVE  TempInv'
    OBVIOUS
  <2> USE SavedTyped DEF SavedInv, SaveTypeOK, TempInv, NoTempLeft, Told, Ended, Contents
  <2>1. ASSUME NEW s \in Saver, Open(s) \/ Dump(s) \/ Flush(s) \/ Fsync(s)
        PROVE  TempInv'
    BY <2>1 DEF Open, Dump, Flush, Fsync
  <2>2. ASSUME NEW s \in Saver, Replace(s) \/ Return(s)
        PROVE  TempInv'
    BY <2>2 DEF Replace, Return, Outcome
  <2>3. ASSUME NEW s \in Saver, Fail(s) \/ Interrupt(s) \/ CleanUp(s) \/ InterruptAgain(s)
        PROVE  TempInv'
    BY <2>3 DEF Fail, Interrupt, CleanUp, InterruptAgain, Unlink, Outcome
  <2>4. ASSUME NEW s \in Saver, Kill(s) \/ WriteContent(s)
        PROVE  TempInv'
    BY <2>4 DEF Kill, WriteContent
  <2>5. CASE WriteNames \/ PowerLoss
    BY <2>5 DEF WriteNames, PowerLoss
  <2>6. CASE UNCHANGED saveVars
    BY <2>6 DEF saveVars
  <2> QED
    BY <2>1, <2>2, <2>3, <2>4, <2>5, <2>6 DEF SaveNext
<1>3. TempInv => NoTempLeft
  BY DEF TempInv
<1> QED
  BY <1>1, <1>2, <1>3, SavedInvInit, SavedInvNext, PTL DEF SaveSpec

-----------------------------------------------------------------------------
(* The refinement.                                                          *)

LEMMA InitRefines == SaveInit => Atomic!Init
BY SavedTyped DEF SaveInit, Atomic!Init, Held, Told, Ended

\* A step that tells nobody anything, and leaves the target alone, is a stutter.
LEMMA QuietStutters ==
  ASSUME SavedInv, SavedInv', target' = target, put' = put, Told' = Told
  PROVE  UNCHANGED Atomic!vars
BY HeldIsTarget DEF Atomic!vars

\* A saver that ends tells so.
LEMMA EndTells ==
  ASSUME SavedInv, NEW s \in Saver, pc[s] \notin Ended,
         NEW e \in Ended \ {"killed"}, pc' = [pc EXCEPT ![s] = e]
  PROVE  Told[s] = "nothing" /\ Told' = [Told EXCEPT ![s] = e]
<1>1. pc \in [Saver -> Steps]
  BY DEF SavedInv, SaveTypeOK
<1>2. Told[s] = "nothing"
  BY DEF Told
<1>3. Told' = [t \in Saver |-> IF t = s THEN e ELSE Told[t]]
  BY <1>1 DEF Told
<1> QED
  BY <1>2, <1>3 DEF Told

\* Every step is one of AtomicFile, or a stutter.
LEMMA NextRefines ==
  ASSUME SavedInv, SavedInv', [SaveNext]_saveVars
  PROVE  [Atomic!Next]_(Atomic!vars)
<1> DEFINE Quiet == target' = target /\ put' = put /\ Told' = Told
<1>0. Held = target /\ Held' = target'
  BY HeldIsTarget
<1>1. Quiet => UNCHANGED Atomic!vars
  BY QuietStutters
<1>2. pc \in [Saver -> Steps]
  BY DEF SavedInv, SaveTypeOK
<1>3. ASSUME NEW s \in Saver, Open(s) \/ Dump(s) \/ Flush(s) \/ Fsync(s) \/ Fail(s)
                                      \/ Interrupt(s) \/ Kill(s) \/ WriteContent(s)
      PROVE  Quiet
  BY <1>2, <1>3 DEF Open, Dump, Flush, Fsync, Fail, Interrupt, Kill, WriteContent, Told, Ended
<1>4. ASSUME NEW s \in Saver, Replace(s)
      PROVE  Atomic!Put(s)
  <2>1. Told[s] = "nothing" /\ Told' = Told
    BY <1>2, <1>4 DEF Replace, Told, Ended
  <2>2. s \notin put
    BY <1>4 DEF Replace, SavedInv, PutByNow
  <2> QED
    BY <1>0, <1>4, <2>1, <2>2 DEF Replace, Atomic!Put
<1>5. ASSUME NEW s \in Saver, Return(s)
      PROVE  Atomic!Saved(s)
  <2>1. Told[s] = "nothing" /\ Told' = [Told EXCEPT ![s] = "saved"]
    <3>1. pc[s] \notin Ended /\ pc' = [pc EXCEPT ![s] = "saved"]
      BY <1>2, <1>5 DEF Return, Ended, Outcome
    <3> QED
      BY <3>1, EndTells DEF Ended
  <2>2. s \in put
    BY <1>5 DEF Return, SavedInv, PutByNow
  <2> QED
    BY <1>0, <1>5, <2>1, <2>2 DEF Return, Atomic!Saved
<1>6. ASSUME NEW s \in Saver, CleanUp(s)
      PROVE  Atomic!Failed(s) \/ Atomic!Interrupted(s)
  <2>1. Told[s] = "nothing"
    BY <1>2, <1>6 DEF CleanUp, Told, Ended
  <2>2. CASE pc[s] = "failing"
    <3>1. Told' = [Told EXCEPT ![s] = "failed"]
      <4>1. pc[s] \notin Ended /\ pc' = [pc EXCEPT ![s] = "failed"]
        BY <1>2, <1>6, <2>2 DEF CleanUp, Ended, Outcome
      <4> QED
        BY <4>1, EndTells DEF Ended
    <3>2. s \notin put
      BY <2>2 DEF SavedInv, PutByNow
    <3> QED
      BY <1>0, <1>6, <2>1, <3>1, <3>2 DEF CleanUp, Atomic!Failed
  <2>3. CASE pc[s] = "interrupting"
    <3>1. Told' = [Told EXCEPT ![s] = "interrupted"]
      <4>1. pc[s] \notin Ended /\ pc' = [pc EXCEPT ![s] = "interrupted"]
        BY <1>2, <1>6, <2>3 DEF CleanUp, Ended, Outcome
      <4> QED
        BY <4>1, EndTells DEF Ended
    <3> QED
      BY <1>0, <1>6, <2>1, <3>1 DEF CleanUp, Atomic!Interrupted
  <2> QED
    BY <1>6, <2>2, <2>3 DEF CleanUp
<1>7. CASE WriteNames
  <2>1. Quiet
    BY <1>7 DEF WriteNames, Told
  <2> QED
    BY <1>1, <2>1
<1>8. CASE PowerLoss
  <2>1. Told' = Told
    BY <1>2, <1>8 DEF PowerLoss, Told, Ended
  <2>2. target' \in put \union {Before} /\ put' = put
    BY <1>8 DEF PowerLoss, SavedInv, PutIsWhole
  <2> QED
    BY <1>0, <2>1, <2>2 DEF Atomic!Next, Atomic!Lose
<1>9. CASE UNCHANGED saveVars
  <2>1. Quiet
    BY <1>9 DEF saveVars, Told
  <2> QED
    BY <1>1, <2>1
<1>10. ASSUME NEW s \in Saver, InterruptAgain(s)
       PROVE  Atomic!Interrupted(s)
  <2>1. pc[s] \notin Ended /\ pc' = [pc EXCEPT ![s] = "interrupted"]
    BY <1>10 DEF InterruptAgain, Ended
  <2>2. Told[s] = "nothing" /\ Told' = [Told EXCEPT ![s] = "interrupted"]
    BY <2>1, EndTells DEF Ended
  <2> QED
    BY <1>0, <1>10, <2>2 DEF InterruptAgain, Atomic!Interrupted
<1> QED
  BY <1>1, <1>3, <1>4, <1>5, <1>6, <1>7, <1>8, <1>9, <1>10 DEF SaveNext, Atomic!Next

\* save_state implements AtomicFile: "a failed or interrupted save leaves any earlier file
\* intact", whoever else saves to the same file, and whatever is killed, fails or is lost.
THEOREM SaveImplementsAtomicFile == SaveSpec => Implements
<1>1. SaveInit => Atomic!Init
  BY InitRefines
<1>2. SavedInv /\ SavedInv' /\ [SaveNext]_saveVars => [Atomic!Next]_(Atomic!vars)
  BY NextRefines
<1> QED
  BY <1>1, <1>2, SavedIsWhole, PTL DEF SaveSpec, Implements, Atomic!Spec

-----------------------------------------------------------------------------
(* mds-ops-pretty.                                                          *)

\* A path kept under a time is its inode's as of then, but for a failed lookup then.
PathOk(path, inode, t, failures) ==
  path # None => /\ path.of = inode
                 /\ path.fetched \in Nat
                 /\ path.fetched <= t
                 /\ path.fetched = t \/ <<inode, t>> \in failures

EntryOk(entry, inode, now, failures) ==
  /\ entry.ts \in Nat
  /\ entry.ts <= now
  /\ PathOk(entry.path, inode, entry.ts, failures)

\* A cache of paths, of a run or a file, is one of its cluster.
CacheOk(cache, c, now, failures) ==
  \A k \in DOMAIN cache : EntryOk(cache[k], <<c, k[1], k[2]>>, now, failures)

\* A line shown has its inode's path, kept under a time that was within the limit.
LineOk(line, state, failures) ==
  /\ line.at \in Nat /\ state.arg.ttl \in Nat
  /\ \E t \in Nat :
       /\ PathOk(line.path, <<state.arg.cluster, state.arg.pool, line.ino>>, t, failures)
       /\ t >= state.begun \/ state.arg.ttl = 0 \/ line.at - t < state.arg.ttl

\* While the clients are gathered nothing is shown, and a file that is to be read exists.
GatherOk(state, files) ==
  /\ state.shown = <<>>
  /\ DOMAIN state.task = state.ranks
  /\ DOMAIN state.clients = state.ranks
  /\ \A m \in state.ranks : state.task[m] = "read" => FileOf(state.arg, m) \in files

ClientsOk(clients, c, m) == clients # None => clients.cluster = c /\ clients.rank = m

RunOk(state, now, failures, files) ==
  /\ DOMAIN state = DOMAIN IdleRun
  /\ state.pc \notin {"idle", "ended"} => state.arg \in CommandLine
  /\ state.begun \in Nat /\ state.begun <= now
  /\ state.pc = "gather" => GatherOk(state, files)
  /\ \A m \in DOMAIN state.clients : ClientsOk(state.clients[m], state.arg.cluster, m)
  /\ state.pc \in {"show", "merge", "replace"} => CacheOk(state.cache, state.arg.cluster, now, failures)
  /\ state.pc = "replace" => CacheOk(state.saw, state.arg.cluster, now, failures)
  /\ state.shown \in Seq(Range(state.shown))
  /\ \A i \in DOMAIN state.shown : LineOk(state.shown[i], state, failures)

RunsOk == DOMAIN run = Run /\ \A r \in Run : RunOk(run[r], clock, failed, DOMAIN lsFile)

DiskOk == DOMAIN inodeFile = Cluster /\ \A c \in Cluster : CacheOk(inodeFile[c], c, clock, failed)

ListsOk ==
  \A n \in DOMAIN lsFile :
    /\ lsFile[n].fsid \in Cluster
    /\ ClientsOk(lsFile[n].clients, lsFile[n].fsid, lsFile[n].rank)

MdsInv == clock \in Nat /\ todo \in Seq(CommandLine) /\ RunsOk /\ DiskOk /\ ListsOk

-----------------------------------------------------------------------------
(* Time passes, lookups fail, files appear: what was so stays so.           *)

LEMMA CacheStaysOk ==
  ASSUME NEW cache, NEW c, NEW now \in Nat, NEW later \in Nat, now <= later,
         NEW failures, NEW more, failures \subseteq more, CacheOk(cache, c, now, failures)
  PROVE  CacheOk(cache, c, later, more)
BY DEF CacheOk, EntryOk, PathOk

LEMMA LineStaysOk ==
  ASSUME NEW line, NEW state, NEW failures, NEW more, failures \subseteq more,
         LineOk(line, state, failures)
  PROVE  LineOk(line, state, more)
BY DEF LineOk, PathOk

LEMMA RunStaysOk ==
  ASSUME NEW state, NEW now \in Nat, NEW later \in Nat, now <= later,
         NEW failures, NEW more, failures \subseteq more,
         NEW files, NEW others, files \subseteq others,
         RunOk(state, now, failures, files)
  PROVE  RunOk(state, later, more, others)
<1>1. \A c : CacheOk(state.cache, c, now, failures) => CacheOk(state.cache, c, later, more)
  BY CacheStaysOk
<1>2. \A c : CacheOk(state.saw, c, now, failures) => CacheOk(state.saw, c, later, more)
  BY CacheStaysOk
<1>3. \A i \in DOMAIN state.shown : LineOk(state.shown[i], state, more)
  BY LineStaysOk DEF RunOk
<1> QED
  BY <1>1, <1>2, <1>3 DEF RunOk, GatherOk

\* A step of one run is a matter of what that run becomes.
LEMMA OneRunSteps ==
  ASSUME MdsInv, NEW r \in Run, run' = [run EXCEPT ![r] = run'[r]],
         clock' = clock, failed \subseteq failed', DOMAIN lsFile \subseteq DOMAIN lsFile',
         RunOk(run'[r], clock, failed', DOMAIN lsFile')
  PROVE  RunsOk'
<1>1. \A q \in Run : RunOk(run[q], clock, failed', DOMAIN lsFile')
  BY RunStaysOk DEF MdsInv, RunsOk
<1> QED
  BY <1>1 DEF MdsInv, RunsOk

-----------------------------------------------------------------------------
(* The invariant holds at first, and each action keeps it.                  *)

LEMMA MdsInvInit == MdsInit => MdsInv
<1> SUFFICES ASSUME MdsInit PROVE MdsInv
  OBVIOUS
<1>1. RunOk(IdleRun, 0, {}, DOMAIN lsFile)
  BY DEF RunOk, IdleRun, Range
<1> QED
  BY <1>1, MdsTyped DEF MdsInit, MdsInv, RunsOk, DiskOk, ListsOk, CacheOk

\* The process of a run is gone; what it printed, and the clients it had, stay.
LEMMA ExitedIsOk ==
  ASSUME NEW state, NEW how, NEW now \in Nat, NEW failures, NEW files,
         RunOk(state, now, failures, files)
  PROVE  RunOk(Exited(state, how), now, failures, files)
<1>1. /\ DOMAIN Exited(state, how) = DOMAIN IdleRun
      /\ Exited(state, how).pc = "ended"
      /\ \A f \in {"arg", "begun", "clients", "shown"} : Exited(state, how)[f] = state[f]
  BY DEF RunOk, Exited, IdleRun
<1> QED
  BY <1>1 DEF RunOk, LineOk

LEMMA IdleIsOk ==
  ASSUME NEW now \in Nat, NEW failures, NEW files
  PROVE  RunOk(IdleRun, now, failures, files)
BY DEF RunOk, IdleRun, Range

LEMMA TickKeeps == MdsInv /\ Tick => MdsInv'
<1> SUFFICES ASSUME MdsInv, Tick PROVE MdsInv'
  OBVIOUS
<1>1. clock' \in Nat /\ clock <= clock'
  BY DEF MdsInv, Tick
<1>2. RunsOk'
  BY <1>1, RunStaysOk DEF MdsInv, RunsOk, Tick
<1>3. DiskOk'
  BY <1>1, CacheStaysOk DEF MdsInv, DiskOk, Tick
<1> QED
  BY <1>1, <1>2, <1>3 DEF MdsInv, ListsOk, Tick

LEMMA StartKeeps == ASSUME MdsInv, NEW r \in Run, Start(r) PROVE MdsInv'
<1> DEFINE a == Head(todo)
<1>1. a \in CommandLine /\ todo' \in Seq(CommandLine)
  BY DEF MdsInv, Start
<1>2. PICK ranks \in RanksOf(a) :
        \/ run' = [run EXCEPT ![r] = Exited(IdleRun, "refused")]
        \/ run' = [run EXCEPT ![r] = [IdleRun EXCEPT
             !.pc = "gather", !.arg = a, !.ranks = ranks,
             !.task = [m \in ranks |-> IF a.lsTtl = 0 THEN "query" ELSE "look"],
             !.clients = [m \in ranks |-> None]]]
  BY DEF Start
<1>3. RunOk(run'[r], clock, failed, DOMAIN lsFile)
  <2>1. CASE run' = [run EXCEPT ![r] = Exited(IdleRun, "refused")]
    BY <2>1, IdleIsOk, ExitedIsOk DEF MdsInv, RunsOk
  <2>2. CASE run' = [run EXCEPT ![r] = [IdleRun EXCEPT
             !.pc = "gather", !.arg = a, !.ranks = ranks,
             !.task = [m \in ranks |-> IF a.lsTtl = 0 THEN "query" ELSE "look"],
             !.clients = [m \in ranks |-> None]]]
    <3>1. /\ DOMAIN run'[r] = DOMAIN IdleRun
          /\ run'[r].pc = "gather"
          /\ run'[r].arg = a
          /\ run'[r].begun = 0
          /\ run'[r].shown = <<>>
          /\ run'[r].ranks = ranks
          /\ run'[r].task = [m \in ranks |-> IF a.lsTtl = 0 THEN "query" ELSE "look"]
          /\ run'[r].clients = [m \in ranks |-> None]
      BY <2>2 DEF MdsInv, RunsOk, IdleRun
    <3> QED
      BY <1>1, <3>1 DEF RunOk, GatherOk, ClientsOk, MdsInv, Range
  <2> QED
    BY <1>2, <2>1, <2>2
<1>4. run' = [run EXCEPT ![r] = run'[r]]
  BY <1>2 DEF MdsInv, RunsOk
<1>5. RunsOk'
  BY <1>3, <1>4, OneRunSteps DEF Start
<1> QED
  BY <1>1, <1>5 DEF MdsInv, DiskOk, ListsOk, Start

\* A step of one rank's task changes nothing but the task and perhaps its clients.
TaskStep(old, new, m, task, clients) ==
  /\ DOMAIN new = DOMAIN old
  /\ \A f \in DOMAIN old \ {"task", "clients"} : new[f] = old[f]
  /\ new.task = [old.task EXCEPT ![m] = task]
  /\ new.clients = old.clients \/ new.clients = [old.clients EXCEPT ![m] = clients]

LEMMA TaskKeeps ==
  ASSUME MdsInv, NEW r \in Run, NEW m, run[r].pc = "gather", m \in run[r].ranks,
         NEW task, NEW clients, NEW files, DOMAIN lsFile \subseteq files,
         task = "read" => FileOf(run[r].arg, m) \in files,
         ClientsOk(clients, run[r].arg.cluster, m),
         NEW state, TaskStep(run[r], state, m, task, clients)
  PROVE  RunOk(state, clock, failed, files)
<1>1. RunOk(run[r], clock, failed, files)
  BY RunStaysOk DEF MdsInv, RunsOk
<1>2. /\ DOMAIN state = DOMAIN IdleRun
      /\ \A f \in {"pc", "arg", "ranks", "begun", "shown", "cache", "saw"} : state[f] = run[r][f]
  BY <1>1 DEF RunOk, IdleRun, TaskStep
<1>3. GatherOk(state, files)
  BY <1>1, <1>2 DEF RunOk, GatherOk, TaskStep
<1>4. \A n \in DOMAIN state.clients : ClientsOk(state.clients[n], state.arg.cluster, n)
  BY <1>1, <1>2 DEF RunOk, TaskStep
<1> QED
  BY <1>1, <1>2, <1>3, <1>4 DEF RunOk, LineOk

\* A step of a run that leaves the clock, the files, and what failed alone.
LEMMA QuietStep ==
  ASSUME MdsInv, NEW r \in Run, NEW state, run' = [run EXCEPT ![r] = state],
         UNCHANGED <<clock, inodeFile, lsFile, failed, todo>>,
         RunOk(state, clock, failed, DOMAIN lsFile)
  PROVE  MdsInv'
<1>1. run'[r] = state
  BY DEF MdsInv, RunsOk
<1>2. RunsOk'
  BY <1>1, OneRunSteps
<1> QED
  BY <1>2 DEF MdsInv, DiskOk, ListsOk

LEMMA LookAtAgeKeeps == ASSUME MdsInv, NEW r \in Run, NEW m, LookAtAge(r, m) PROVE MdsInv'
<1> DEFINE name == FileOf(run[r].arg, m)
           task == IF name \in DOMAIN lsFile /\ clock - lsFile[name].mtime < run[r].arg.lsTtl
                   THEN "read" ELSE "query"
           state == [run[r] EXCEPT !.task[m] = task]
<1>1. run' = [run EXCEPT ![r] = state]
  BY DEF LookAtAge
<1>2. RunOk(run[r], clock, failed, DOMAIN lsFile) /\ m \in run[r].ranks /\ run[r].pc = "gather"
  BY DEF MdsInv, RunsOk, LookAtAge
<1>3. TaskStep(run[r], state, m, task, run[r].clients[m])
  BY <1>2 DEF TaskStep, RunOk, IdleRun
<1>4. ClientsOk(run[r].clients[m], run[r].arg.cluster, m)
  BY <1>2 DEF RunOk, GatherOk
<1>5. RunOk(state, clock, failed, DOMAIN lsFile)
  BY <1>2, <1>3, <1>4, TaskKeeps
<1> QED
  BY <1>1, <1>5, QuietStep DEF LookAtAge

LEMMA ReadClientsKeeps == ASSUME MdsInv, NEW r \in Run, NEW m, ReadClients(r, m) PROVE MdsInv'
<1> DEFINE file == lsFile[FileOf(run[r].arg, m)]
<1>1. PICK fsid \in {run[r].arg.cluster, None} :
        run' = [run EXCEPT
          ![r].task[m] = IF UsableFor(file, fsid, m) THEN "served" ELSE "query",
          ![r].clients[m] = IF UsableFor(file, fsid, m) THEN file.clients ELSE None]
  BY DEF ReadClients
<1> DEFINE task == IF UsableFor(file, fsid, m) THEN "served" ELSE "query"
           clients == IF UsableFor(file, fsid, m) THEN file.clients ELSE None
           state == [run[r] EXCEPT !.task[m] = task, !.clients[m] = clients]
<1>2. /\ RunOk(run[r], clock, failed, DOMAIN lsFile)
      /\ m \in run[r].ranks /\ run[r].pc = "gather" /\ run[r].task[m] = "read"
  BY DEF MdsInv, RunsOk, ReadClients
<1>3. run' = [run EXCEPT ![r] = state]
  BY <1>1, <1>2 DEF RunOk, IdleRun, MdsInv, RunsOk
<1>4. TaskStep(run[r], state, m, task, clients)
  BY <1>2 DEF TaskStep, RunOk, IdleRun
<1>5. ClientsOk(clients, run[r].arg.cluster, m)
  <2>1. FileOf(run[r].arg, m) \in DOMAIN lsFile
    BY <1>2 DEF RunOk, GatherOk
  <2>2. file.fsid \in Cluster /\ ClientsOk(file.clients, file.fsid, file.rank)
    BY <2>1 DEF MdsInv, ListsOk
  <2> QED
    BY <2>2, MdsTyped DEF ClientsOk, UsableFor
<1>6. task # "read"
  OBVIOUS
<1> HIDE DEF task, clients, state
<1>7. RunOk(state, clock, failed, DOMAIN lsFile)
  BY <1>2, <1>4, <1>5, <1>6, TaskKeeps
<1> QED
  BY <1>3, <1>7, QuietStep DEF ReadClients

LEMMA QueryClientsKeeps == ASSUME MdsInv, NEW r \in Run, NEW m, QueryClients(r, m) PROVE MdsInv'
<1>1. /\ RunOk(run[r], clock, failed, DOMAIN lsFile)
      /\ m \in run[r].ranks /\ run[r].pc = "gather"
  BY DEF MdsInv, RunsOk, QueryClients
<1> DEFINE clients == [cluster |-> run[r].arg.cluster, rank |-> m, taken |-> clock]
           task == IF run[r].arg.lsTtl = 0 THEN "served" ELSE "save"
<1>2. CASE run' = [run EXCEPT ![r].clients[m] = clients, ![r].task[m] = task]
  <2> DEFINE state == [run[r] EXCEPT !.clients[m] = clients, !.task[m] = task]
  <2>1. run' = [run EXCEPT ![r] = state]
    BY <1>1, <1>2 DEF RunOk, IdleRun, MdsInv, RunsOk
  <2>2. TaskStep(run[r], state, m, task, clients)
    BY <1>1 DEF TaskStep, RunOk, IdleRun
  <2>3. ClientsOk(clients, run[r].arg.cluster, m)
    BY DEF ClientsOk
  <2>4. RunOk(state, clock, failed, DOMAIN lsFile)
    BY <1>1, <2>2, <2>3, TaskKeeps
  <2> QED
    BY <2>1, <2>4, QuietStep DEF QueryClients
<1>3. ASSUME NEW how \in {"served", "garbled"}, run' = [run EXCEPT ![r].task[m] = how]
      PROVE  MdsInv'
  <2> DEFINE state == [run[r] EXCEPT !.task[m] = how]
  <2>1. run' = [run EXCEPT ![r] = state]
    BY <1>3
  <2>2. TaskStep(run[r], state, m, how, run[r].clients[m])
    BY <1>1 DEF TaskStep, RunOk, IdleRun
  <2>3. ClientsOk(run[r].clients[m], run[r].arg.cluster, m)
    BY <1>1 DEF RunOk, GatherOk
  <2>4. RunOk(state, clock, failed, DOMAIN lsFile)
    BY <1>1, <2>2, <2>3, TaskKeeps
  <2> QED
    BY <2>1, <2>4, QuietStep DEF QueryClients
<1> QED
  BY <1>2, <1>3 DEF QueryClients

LEMMA SaveClientsKeeps == ASSUME MdsInv, NEW r \in Run, NEW m, SaveClients(r, m) PROVE MdsInv'
<1> DEFINE state == [run[r] EXCEPT !.task[m] = "served"]
           file == [mtime |-> clock, fsid |-> run[r].arg.cluster, rank |-> m,
                    clients |-> run[r].clients[m]]
<1>1. /\ RunOk(run[r], clock, failed, DOMAIN lsFile)
      /\ m \in run[r].ranks /\ run[r].pc = "gather"
  BY DEF MdsInv, RunsOk, SaveClients
<1>2. ClientsOk(run[r].clients[m], run[r].arg.cluster, m) /\ run[r].arg.cluster \in Cluster
  BY <1>1 DEF RunOk, GatherOk, CommandLine
<1>3. DOMAIN lsFile \subseteq DOMAIN lsFile' /\ ListsOk'
  <2>1. CASE lsFile' = Assigned(lsFile, FileOf(run[r].arg, m), file)
    BY <1>2, <2>1 DEF ListsOk, MdsInv, Assigned
  <2>2. CASE UNCHANGED lsFile
    BY <2>2 DEF ListsOk, MdsInv
  <2> QED
    BY <2>1, <2>2 DEF SaveClients
<1>4. run' = [run EXCEPT ![r] = state] /\ run'[r] = state
  BY DEF SaveClients, MdsInv, RunsOk
<1>5. TaskStep(run[r], state, m, "served", run[r].clients[m])
  BY <1>1 DEF TaskStep, RunOk, IdleRun
<1>6. RunOk(state, clock, failed, DOMAIN lsFile')
  BY <1>1, <1>2, <1>3, <1>5, TaskKeeps
<1>7. RunsOk'
  BY <1>3, <1>4, <1>6, OneRunSteps DEF SaveClients
<1> QED
  BY <1>3, <1>7 DEF MdsInv, DiskOk, SaveClients

\* The caches that a run goes on with are of its cluster, and it has shown nothing yet.
LEMMA GatherKeeps == ASSUME MdsInv, NEW r \in Run, Gather(r) PROVE MdsInv'
<1> DEFINE a == run[r].arg
           Answered(reply) == [run[r] EXCEPT !.reply = reply]
           Going(reply, load, conn) ==
             [run[r] EXCEPT !.pc = "show", !.reply = reply, !.ops = OpsOf(reply), !.conn = conn,
                            !.saves = load.saves, !.cache = load.cache, !.begun = clock]
<1>1. /\ RunOk(run[r], clock, failed, DOMAIN lsFile)
      /\ run[r].pc = "gather" /\ run[r].shown = <<>> /\ a \in CommandLine /\ clock \in Nat
  BY DEF MdsInv, RunsOk, RunOk, GatherOk, Gather
<1>2. ASSUME NEW reply, NEW how, run' = [run EXCEPT ![r] = Exited(Answered(reply), how)]
      PROVE  MdsInv'
  <2>1. /\ DOMAIN Answered(reply) = DOMAIN IdleRun
        /\ \A f \in DOMAIN IdleRun \ {"reply"} : Answered(reply)[f] = run[r][f]
    BY <1>1 DEF RunOk
  <2>2. \A f \in {"pc", "arg", "ranks", "task", "begun", "clients", "shown", "cache", "saw"} :
          Answered(reply)[f] = run[r][f]
    BY <2>1 DEF IdleRun
  <2>3. RunOk(Answered(reply), clock, failed, DOMAIN lsFile)
    <3> HIDE DEF Answered
    <3> QED
      BY <1>1, <2>1, <2>2 DEF RunOk, GatherOk, LineOk
  <2>4. RunOk(Exited(Answered(reply), how), clock, failed, DOMAIN lsFile)
    BY <1>1, <2>3, ExitedIsOk
  <2> QED
    BY <1>2, <2>4, QuietStep DEF Gather
<1>3. ASSUME NEW reply, NEW load \in LoadCache(a), NEW conn,
             run' = [run EXCEPT ![r] = Going(reply, load, conn)]
      PROVE  MdsInv'
  <2>1. CacheOk(load.cache, a.cluster, clock, failed)
    <3>1. a.cluster \in Cluster
      BY <1>1 DEF CommandLine
    <3>2. load.cache = <<>> \/ load.cache = inodeFile[a.cluster]
      <4>1. \/ load = [saves |-> FALSE, cache |-> <<>>]
            \/ load \in [saves : {TRUE}, cache : {inodeFile[a.cluster], <<>>}]
        BY DEF LoadCache, CacheFile
      <4>2. CASE load = [saves |-> FALSE, cache |-> <<>>]
        BY <4>2
      <4>3. CASE load \in [saves : {TRUE}, cache : {inodeFile[a.cluster], <<>>}]
        BY <4>3
      <4> QED
        BY <4>1, <4>2, <4>3
    <3>3. CacheOk(<<>>, a.cluster, clock, failed)
      BY DEF CacheOk
    <3>4. CacheOk(inodeFile[a.cluster], a.cluster, clock, failed)
      BY <3>1 DEF MdsInv, DiskOk
    <3> QED
      BY <3>2, <3>3, <3>4
  <2>2. /\ DOMAIN Going(reply, load, conn) = DOMAIN IdleRun
        /\ Going(reply, load, conn).pc = "show"
        /\ Going(reply, load, conn).begun = clock
        /\ Going(reply, load, conn).cache = load.cache
        /\ \A f \in {"arg", "clients", "shown"} : Going(reply, load, conn)[f] = run[r][f]
    BY <1>1 DEF RunOk, IdleRun
  <2>3. RunOk(Going(reply, load, conn), clock, failed, DOMAIN lsFile)
    <3> DEFINE new == Going(reply, load, conn)
    <3> HIDE DEF Going
    <3>1. new.pc # "gather" /\ new.pc # "replace" /\ new.arg \in CommandLine
      BY <1>1, <2>2
    <3>2. \A m \in DOMAIN new.clients : ClientsOk(new.clients[m], new.arg.cluster, m)
      BY <1>1, <2>2 DEF RunOk
    <3>3. new.shown = <<>>
      BY <1>1, <2>2
    <3>4. new.shown \in Seq(Range(new.shown)) /\ \A i \in DOMAIN new.shown : LineOk(new.shown[i], new, failed)
      BY <3>3 DEF Range
    <3> QED
      BY <1>1, <2>1, <2>2, <3>1, <3>2, <3>4 DEF RunOk
  <2> QED
    BY <1>3, <2>3, QuietStep DEF Gather
<1>4. \/ \E reply, how : run' = [run EXCEPT ![r] = Exited(Answered(reply), how)]
      \/ \E reply, conn : \E load \in LoadCache(a) : run' = [run EXCEPT ![r] = Going(reply, load, conn)]
  <2>1. PICK reply \in [run[r].ranks -> DumpAnswers] :
          IF Fatal(reply, run[r].task)
          THEN run' = [run EXCEPT ![r] = Exited(Answered(reply), "error")]
          ELSE IF OpsOf(reply) = <<>>
          THEN run' = [run EXCEPT ![r] = Exited(Answered(reply), "empty")]
          ELSE \E load \in LoadCache(a), conn \in ConnAnswers(a) :
                 run' = [run EXCEPT ![r] = Going(reply, load, conn)]
    BY DEF Gather
  <2> HIDE DEF Answered, Going
  <2> QED
    BY <2>1
<1> HIDE DEF Answered, Going
<1> QED
  BY <1>2, <1>3, <1>4

LEMMA AppendToRange ==
  ASSUME NEW s, s \in Seq(Range(s)), NEW e
  PROVE  /\ Append(s, e) \in Seq(Range(Append(s, e)))
         /\ \A i \in DOMAIN Append(s, e) : 
              Append(s, e)[i] = e \/ (i \in DOMAIN s /\ Append(s, e)[i] = s[i])
<1> DEFINE S == Range(s) \cup {e}
           new == Append(s, e)
<1>1. s \in Seq(S) /\ e \in S
  OBVIOUS
<1>2. /\ new \in Seq(S)
      /\ Len(new) = Len(s) + 1
      /\ \A i \in 1 .. Len(new) : new[i] = IF i <= Len(s) THEN s[i] ELSE e
  BY <1>1
<1>3. \A i \in 1 .. Len(new) : new[i] \in Range(new)
  BY <1>2 DEF Range
<1>4. new \in Seq(Range(new))
  BY <1>2, <1>3
<1>5. DOMAIN new = 1 .. Len(new) /\ DOMAIN s = 1 .. Len(s) /\ Len(s) \in Nat
  BY <1>1, <1>2
<1> HIDE DEF new
<1>6. \A i \in DOMAIN new : new[i] = e \/ (i \in DOMAIN s /\ new[i] = s[i])
  BY <1>2, <1>5
<1> QED
  BY <1>4, <1>6 DEF new

\* What printing an operation leaves of a run.
LEMMA PrintedIsOk ==
  ASSUME MdsInv, NEW r \in Run, run[r].pc = "show", NEW op, NEW names, NEW path,
         NEW failures, failed \subseteq failures,
         LineOk([rank |-> op.rank, ino |-> op.ino, path |-> path, at |-> clock], run[r], failures)
  PROVE  RunOk(Showing(r, op, names, path), clock, failures, DOMAIN lsFile)
<1> DEFINE line == [rank |-> op.rank, ino |-> op.ino, path |-> path, at |-> clock]
           new == Showing(r, op, names, path)
<1>1. RunOk(run[r], clock, failures, DOMAIN lsFile)
  BY RunStaysOk DEF MdsInv, RunsOk
<1>2. /\ DOMAIN new = DOMAIN IdleRun
      /\ new.shown = Append(run[r].shown, line)
      /\ \A f \in {"pc", "arg", "begun", "clients", "cache", "saw"} : new[f] = run[r][f]
  BY <1>1 DEF RunOk, IdleRun, Showing
<1>3. /\ new.shown \in Seq(Range(new.shown))
      /\ \A i \in DOMAIN new.shown : new.shown[i] = line \/
           (i \in DOMAIN run[r].shown /\ new.shown[i] = run[r].shown[i])
  <2>1. run[r].shown \in Seq(Range(run[r].shown))
    BY <1>1 DEF RunOk
  <2> HIDE DEF new, line
  <2>2. /\ Append(run[r].shown, line) \in Seq(Range(Append(run[r].shown, line)))
        /\ \A i \in DOMAIN Append(run[r].shown, line) :
             Append(run[r].shown, line)[i] = line \/
             (i \in DOMAIN run[r].shown /\ Append(run[r].shown, line)[i] = run[r].shown[i])
    BY <2>1, AppendToRange
  <2> QED
    BY <1>2, <2>2
<1> HIDE DEF new
<1>4. \A i \in DOMAIN new.shown : LineOk(new.shown[i], new, failures)
  <2>1. \A x : LineOk(x, run[r], failures) => LineOk(x, new, failures)
    BY <1>2 DEF LineOk
  <2> QED
    BY <1>1, <1>3, <2>1 DEF RunOk
<1>5. RunOk(new, clock, failures, DOMAIN lsFile)
  BY <1>1, <1>2, <1>3, <1>4 DEF RunOk
<1> QED
  BY <1>5 DEF new

\* A path is printed as it is in the run's cache and fresh, or as it was just looked up.
LEMMA ShowOpKeeps == ASSUME MdsInv, NEW r \in Run, ShowOp(r) PROVE MdsInv'
<1> DEFINE a == run[r].arg
           op == Head(run[r].ops)
           key == CacheKey(a, op.ino)
           inode == <<a.cluster, a.pool, op.ino>>
           cache == run[r].cache
           Line(path) == [rank |-> op.rank, ino |-> op.ino, path |-> path, at |-> clock]
<1>1. /\ run[r].pc = "show" /\ clock \in Nat
      /\ RunOk(run[r], clock, failed, DOMAIN lsFile)
      /\ run[r].begun \in Nat /\ run[r].begun <= clock /\ a.ttl \in Nat
      /\ CacheOk(cache, a.cluster, clock, failed)
  BY DEF MdsInv, RunsOk, RunOk, CommandLine, ShowOp
<1>2. key \in DOMAIN cache => EntryOk(cache[key], inode, clock, failed)
  BY <1>1 DEF CacheOk, CacheKey
<1>3. ASSUME NEW names, NEW path, LineOk(Line(path), run[r], failed), failed' = failed,
             run' = [run EXCEPT ![r] = Showing(r, op, names, path)]
      PROVE  MdsInv'
  <2>1. RunOk(Showing(r, op, names, path), clock, failed, DOMAIN lsFile)
    BY <1>1, <1>3, PrintedIsOk
  <2> QED
    BY <1>3, <2>1, QuietStep DEF ShowOp
<1>4. LineOk(Line(None), run[r], failed)
  BY <1>1 DEF LineOk, PathOk
<1>5. Hit(r, key) => LineOk(Line(cache[key].path), run[r], failed)
  BY <1>1, <1>2 DEF LineOk, Hit, Fresh, EntryOk
<1>6. ASSUME NEW names, NEW answer \in Lookup(inode),
             run' = [run EXCEPT ![r] =
                       [Showing(r, op, names, Kept(cache, key, answer).path) EXCEPT
                          !.cache = Assigned(@, key, Kept(cache, key, answer)),
                          !.dirty = @ \/ answer # None]],
             failed' = IF answer = None THEN failed \cup {<<inode, clock>>} ELSE failed
      PROVE  MdsInv'
  <2> DEFINE entry == Kept(cache, key, answer)
             printed == Showing(r, op, names, entry.path)
             state == [printed EXCEPT !.cache = Assigned(@, key, entry), !.dirty = @ \/ answer # None]
  <2>1. failed \subseteq failed'
    BY <1>6
  <2>2. EntryOk(entry, inode, clock, failed') /\ entry.ts = clock
    <3>1. entry.ts = clock
      BY DEF Kept
    <3>2. CASE answer # None
      BY <1>1, <3>1, <3>2 DEF Kept, Lookup, EntryOk, PathOk
    <3>3. CASE answer = None /\ key \in DOMAIN cache
      <4>1. entry.path = cache[key].path
        BY <3>3 DEF Kept
      <4>2. <<inode, clock>> \in failed'
        BY <1>6, <3>3
      <4> HIDE DEF entry, key, inode, cache
      <4> QED
        BY <1>1, <1>2, <3>1, <3>3, <4>1, <4>2 DEF EntryOk, PathOk
    <3>4. CASE answer = None /\ key \notin DOMAIN cache
      <4>1. entry.path = None
        BY <3>4 DEF Kept
      <4> HIDE DEF entry, key, inode, cache
      <4>2. PathOk(entry.path, inode, entry.ts, failed')
        BY <4>1 DEF PathOk
      <4>3. clock \in Nat
        BY <1>1
      <4> QED
        BY <3>1, <4>2, <4>3 DEF EntryOk
    <3> QED
      BY <3>2, <3>3, <3>4
  <2>3. LineOk(Line(entry.path), run[r], failed')
    BY <1>1, <2>2 DEF LineOk, EntryOk
  <2> HIDE DEF entry
  <2>4. RunOk(printed, clock, failed', DOMAIN lsFile) /\ printed.pc = "show"
        /\ printed.arg = a /\ printed.cache = cache
    <3>1. RunOk(printed, clock, failed', DOMAIN lsFile)
      BY <1>1, <2>1, <2>3, PrintedIsOk
    <3> QED
      BY <1>1, <3>1 DEF RunOk, IdleRun, Showing
  <2>5. CacheOk(Assigned(cache, key, entry), a.cluster, clock, failed')
    <3>1. CacheOk(cache, a.cluster, clock, failed')
      BY <1>1, <2>1, CacheStaysOk
    <3>2. inode = <<a.cluster, key[1], key[2]>>
      BY DEF CacheKey
    <3> HIDE DEF key, inode
    <3> QED
      BY <2>2, <3>1, <3>2 DEF CacheOk, Assigned
  <2> HIDE DEF printed
  <2>6. RunOk(state, clock, failed', DOMAIN lsFile)
    <3>1. /\ DOMAIN state = DOMAIN IdleRun
          /\ state.cache = Assigned(cache, key, entry)
          /\ \A f \in {"pc", "arg", "begun", "clients", "shown", "saw"} : state[f] = printed[f]
      BY <2>4 DEF RunOk, IdleRun
    <3> HIDE DEF state
    <3> QED
      BY <2>4, <2>5, <3>1 DEF RunOk, LineOk
  <2>7. run' = [run EXCEPT ![r] = state]
    BY <1>6 DEF entry, printed
  <2> HIDE DEF state
  <2>8. run'[r] = state
    BY <2>7 DEF MdsInv, RunsOk
  <2>9. RunsOk'
    BY <2>1, <2>6, <2>7, <2>8, OneRunSteps DEF ShowOp
  <2>10. DiskOk'
    <3>1. inodeFile' = inodeFile /\ clock' = clock
      BY DEF ShowOp
    <3>2. \A c \in Cluster : CacheOk(inodeFile[c], c, clock, failed')
      BY <1>1, <2>1, CacheStaysOk DEF MdsInv, DiskOk
    <3> QED
      BY <3>1, <3>2 DEF MdsInv, DiskOk
  <2> QED
    BY <2>9, <2>10 DEF MdsInv, ListsOk, ShowOp
<1> QED
  BY <1>3, <1>4, <1>5, <1>6 DEF ShowOp

LEMMA FinishKeeps == ASSUME MdsInv, NEW r \in Run, Finish(r) PROVE MdsInv'
<1> DEFINE state == [run[r] EXCEPT !.pc = "merge"]
<1>1. RunOk(run[r], clock, failed, DOMAIN lsFile) /\ run[r].pc = "show" /\ clock \in Nat
  BY DEF MdsInv, RunsOk, Finish
<1>2. RunOk(state, clock, failed, DOMAIN lsFile)
  BY <1>1 DEF RunOk, LineOk, IdleRun
<1>3. RunOk(Exited(run[r], "shown"), clock, failed, DOMAIN lsFile)
  BY <1>1, ExitedIsOk
<1>4. \/ run' = [run EXCEPT ![r] = state]
      \/ run' = [run EXCEPT ![r] = Exited(run[r], "shown")]
  BY DEF Finish
<1> QED
  BY <1>2, <1>3, <1>4, QuietStep DEF Finish

LEMMA ReadDiskKeeps == ASSUME MdsInv, NEW r \in Run, ReadDisk(r) PROVE MdsInv'
<1>1. PICK onDisk \in {inodeFile[CacheFile(run[r].arg)], <<>>} :
        run' = [run EXCEPT ![r].pc = "replace", ![r].saw = onDisk]
  BY DEF ReadDisk
<1> DEFINE state == [run[r] EXCEPT !.pc = "replace", !.saw = onDisk]
<1>2. RunOk(run[r], clock, failed, DOMAIN lsFile) /\ run[r].pc = "merge" /\ run[r].arg.cluster \in Cluster
  BY DEF MdsInv, RunsOk, ReadDisk, RunOk, CommandLine
<1>3. CacheOk(onDisk, run[r].arg.cluster, clock, failed)
  BY <1>2 DEF MdsInv, DiskOk, CacheOk, CacheFile
<1>4. RunOk(state, clock, failed, DOMAIN lsFile)
  BY <1>2, <1>3 DEF RunOk, LineOk, IdleRun
<1>5. run' = [run EXCEPT ![r] = state]
  BY <1>1, <1>2 DEF MdsInv, RunsOk, RunOk, IdleRun
<1> QED
  BY <1>4, <1>5, QuietStep DEF ReadDisk

\* Each entry of the merged file is one of the two files'.
LEMMA ReplaceKeeps == ASSUME MdsInv, NEW r \in Run, ReplaceFile(r) PROVE MdsInv'
<1> DEFINE c == run[r].arg.cluster
           merged == Merged(run[r].cache, run[r].saw)
<1>1. /\ RunOk(run[r], clock, failed, DOMAIN lsFile) /\ clock \in Nat /\ c \in Cluster
      /\ CacheOk(run[r].cache, c, clock, failed) /\ CacheOk(run[r].saw, c, clock, failed)
  BY DEF MdsInv, RunsOk, ReplaceFile, RunOk, CommandLine
<1>2. CacheOk(merged, c, clock, failed)
  BY <1>1 DEF CacheOk, Merged, Resolved
<1>3. inodeFile' = [inodeFile EXCEPT ![c] = merged] \/ inodeFile' = inodeFile
  BY DEF ReplaceFile, CacheFile
<1> HIDE DEF merged
<1>4. DiskOk'
  BY <1>1, <1>2, <1>3 DEF MdsInv, DiskOk, ReplaceFile
<1>5. RunOk(Exited(run[r], "shown"), clock, failed, DOMAIN lsFile)
  BY <1>1, ExitedIsOk
<1>6. run' = [run EXCEPT ![r] = Exited(run[r], "shown")] /\ run'[r] = Exited(run[r], "shown")
  BY DEF ReplaceFile, MdsInv, RunsOk
<1>7. RunsOk'
  BY <1>5, <1>6, OneRunSteps DEF ReplaceFile
<1> QED
  BY <1>4, <1>7 DEF MdsInv, ListsOk, ReplaceFile

LEMMA KillKeeps == ASSUME MdsInv, NEW r \in Run, KillRun(r) PROVE MdsInv'
<1>1. RunOk(Exited(IdleRun, "killed"), clock, failed, DOMAIN lsFile)
  BY IdleIsOk, ExitedIsOk DEF MdsInv
<1> QED
  BY <1>1, QuietStep DEF KillRun

LEMMA MdsInvNext == MdsInv /\ [MdsNext]_mdsVars => MdsInv'
<1> SUFFICES ASSUME MdsInv, [MdsNext]_mdsVars PROVE MdsInv'
  OBVIOUS
<1>1. CASE UNCHANGED mdsVars
  BY <1>1 DEF mdsVars, MdsInv, RunsOk, DiskOk, ListsOk
<1> QED
  BY <1>1, TickKeeps, StartKeeps, LookAtAgeKeeps, ReadClientsKeeps, QueryClientsKeeps,
     SaveClientsKeeps, GatherKeeps, ShowOpKeeps, FinishKeeps, ReadDiskKeeps, ReplaceKeeps,
     KillKeeps DEF MdsNext

-----------------------------------------------------------------------------
(* What it means.                                                           *)

\* What any number of overlapping runs print and name is their own inodes' and clients', at
\* their own cluster, pool and ranks (inode_cache_file, resolve_inode, load_client_ls_cached).
THEOREM NothingIsForeign == MdsSpec => []NothingForeign
<1>1. MdsInv => NothingForeign
  <2> SUFFICES ASSUME MdsInv, NEW r \in Run
               PROVE  /\ \A s \in Range(run[r].shown) :
                           s.path # None => s.path.of = <<run[r].arg.cluster, run[r].arg.pool, s.ino>>
                      /\ \A m \in DOMAIN run[r].clients :
                           run[r].clients[m] # None => /\ run[r].clients[m].rank = m
                                                       /\ run[r].clients[m].cluster = run[r].arg.cluster
    BY DEF NothingForeign
  <2>1. RunOk(run[r], clock, failed, DOMAIN lsFile)
    BY DEF MdsInv, RunsOk
  <2>2. \A s \in Range(run[r].shown) : LineOk(s, run[r], failed)
    BY <2>1 DEF RunOk, Range
  <2>3. \A m \in DOMAIN run[r].clients : ClientsOk(run[r].clients[m], run[r].arg.cluster, m)
    BY <2>1 DEF RunOk
  <2> QED
    BY <2>2, <2>3 DEF ClientsOk, LineOk, PathOk
<1> QED
  BY <1>1, MdsInvInit, MdsInvNext, PTL DEF MdsSpec

\* A path past its limit is never served without a failed lookup within the limit, however
\* often it was saved, merged and loaded on the way (resolve_inode).
THEOREM StaleAfterFailureOnly == MdsSpec => []StaleOnlyAfterFailure
<1>1. MdsInv => StaleOnlyAfterFailure
  <2> SUFFICES ASSUME MdsInv, NEW r \in Run, NEW s \in Range(run[r].shown),
                      s.path # None, run[r].arg.ttl > 0
               PROVE  LET Recent(t) == t >= run[r].begun \/ s.at < t + run[r].arg.ttl
                      IN  \/ Recent(s.path.fetched)
                          \/ \E f \in failed : f[1] = s.path.of /\ f[2] >= s.path.fetched /\ Recent(f[2])
    BY DEF StaleOnlyAfterFailure
  <2>1. LineOk(s, run[r], failed) /\ run[r].begun \in Nat
    BY DEF MdsInv, RunsOk, RunOk, Range
  <2>2. PICK t \in Nat :
          /\ PathOk(s.path, <<run[r].arg.cluster, run[r].arg.pool, s.ino>>, t, failed)
          /\ t >= run[r].begun \/ s.at < t + run[r].arg.ttl
    BY <2>1 DEF LineOk
  <2> QED
    BY <2>2 DEF PathOk
<1> QED
  BY <1>1, MdsInvInit, MdsInvNext, PTL DEF MdsSpec

\* A file of paths loses no inode and no newer entry, however many runs save to it, unless it
\* was replaced between a run's reading and its writing, or could not be read
\* (save_inode_cache).
THEOREM NewerIsKept == MdsSpec => NewerKept
<1> DEFINE Newer ==
      \A c \in Cluster : inodeFile'[c] # inodeFile[c] =>
        \/ \E r \in Run : run[r].pc = "replace" /\ run'[r].pc = "ended" /\ run[r].saw # inodeFile[c]
        \/ \A k \in DOMAIN inodeFile[c] : k \in DOMAIN inodeFile'[c] /\ inodeFile'[c][k].ts >= inodeFile[c][k].ts
<1>1. MdsInv /\ [MdsNext]_mdsVars => Newer
  <2> SUFFICES ASSUME MdsInv, [MdsNext]_mdsVars, NEW c \in Cluster, inodeFile'[c] # inodeFile[c],
                      \A r \in Run : run[r].pc = "replace" /\ run'[r].pc = "ended" => run[r].saw = inodeFile[c],
                      NEW k \in DOMAIN inodeFile[c]
               PROVE  k \in DOMAIN inodeFile'[c] /\ inodeFile'[c][k].ts >= inodeFile[c][k].ts
    OBVIOUS
  <2>1. PICK r \in Run : ReplaceFile(r)
    <3>1. (Tick => inodeFile' = inodeFile) /\ (UNCHANGED mdsVars => inodeFile' = inodeFile)
      BY DEF Tick, mdsVars
    <3>2. \A r \in Run : (Start(r) => inodeFile' = inodeFile) /\ (Gather(r) => inodeFile' = inodeFile)
      BY DEF Start, Gather
    <3>3. \A r \in Run, m \in Rank :
            LookAtAge(r, m) \/ ReadClients(r, m) \/ QueryClients(r, m) \/ SaveClients(r, m)
              => inodeFile' = inodeFile
      BY DEF LookAtAge, ReadClients, QueryClients, SaveClients
    <3>4. \A r \in Run : ShowOp(r) => inodeFile' = inodeFile
      BY DEF ShowOp
    <3>5. \A r \in Run : Finish(r) \/ ReadDisk(r) \/ KillRun(r) => inodeFile' = inodeFile
      BY DEF Finish, ReadDisk, KillRun
    <3> QED
      BY <3>1, <3>2, <3>3, <3>4, <3>5 DEF MdsNext
  <2> DEFINE a == run[r].arg
             cache == run[r].cache
  <2>2. /\ run[r].pc = "replace" /\ DOMAIN run[r] = DOMAIN IdleRun
        /\ CacheOk(cache, a.cluster, clock, failed)
    BY <2>1 DEF MdsInv, RunsOk, RunOk, ReplaceFile
  <2>3. run'[r].pc = "ended"
    BY <2>1, <2>2 DEF MdsInv, RunsOk, ReplaceFile, Exited, IdleRun
  <2>4. run[r].saw = inodeFile[c]
    BY <2>2, <2>3
  <2>5. inodeFile'[c] = Merged(cache, inodeFile[c])
    BY <2>1, <2>4 DEF ReplaceFile, CacheFile, MdsInv, DiskOk
  <2>6. CacheOk(inodeFile[c], c, clock, failed)
    BY DEF MdsInv, DiskOk
  <2>7. inodeFile[c][k].ts \in Nat /\ (k \in DOMAIN cache => cache[k].ts \in Nat)
    BY <2>2, <2>6 DEF CacheOk, EntryOk
  <2> HIDE DEF cache
  <2>8. k \in DOMAIN inodeFile'[c]
    BY <2>5 DEF Merged
  <2>9. CASE k \notin Resolved(cache) \/ inodeFile[c][k].ts > cache[k].ts
    <3>1. inodeFile'[c][k] = inodeFile[c][k]
      BY <2>5, <2>8, <2>9 DEF Merged
    <3> QED
      BY <2>7, <2>8, <3>1
  <2>10. CASE k \in Resolved(cache) /\ ~(inodeFile[c][k].ts > cache[k].ts)
    <3>1. inodeFile'[c][k] = cache[k] /\ k \in DOMAIN cache
      BY <2>5, <2>8, <2>10 DEF Merged, Resolved
    <3> QED
      BY <2>7, <2>8, <2>10, <3>1
  <2> QED
    BY <2>9, <2>10
<1> QED
  BY <1>1, MdsInvInit, MdsInvNext, PTL DEF MdsSpec, NewerKept

-----------------------------------------------------------------------------
(* Rank by rank: what the list of operations holds.                          *)

\* The first k of n sequences, one after the other.
JoinsTo(F, s, n) ==
  /\ F[0] = <<>>
  /\ \A k \in 1 .. n : F[k] = F[k - 1] \o s[k]

\* There is a function that joins them ...
LEMMA JoinedExists ==
  ASSUME NEW n \in Nat, NEW V, NEW s \in [1 .. n -> Seq(V)]
  PROVE  \E F \in [0 .. n -> Seq(V)] : JoinsTo(F, s, n)
<1> DEFINE Done == {k \in 0 .. n : \E F \in [0 .. k -> Seq(V)] : JoinsTo(F, s, k)}
<1>1. 0 \in Done
  <2>1. PICK F : F = [j \in 0 .. 0 |-> <<>>]
    OBVIOUS
  <2>2. F \in [0 .. 0 -> Seq(V)]
    BY <2>1
  <2>3. JoinsTo(F, s, 0)
    BY <2>1 DEF JoinsTo
  <2> QED
    BY <2>2, <2>3
<1>2. ASSUME NEW k \in 0 .. (n - 1), k \in Done PROVE k + 1 \in Done
  <2>1. PICK F \in [0 .. k -> Seq(V)] : JoinsTo(F, s, k)
    BY <1>2
  <2> DEFINE G == [j \in 0 .. (k + 1) |-> IF j = k + 1 THEN F[k] \o s[k + 1] ELSE F[j]]
  <2>2. s[k + 1] \in Seq(V) /\ F[k] \in Seq(V) /\ k + 1 \in 0 .. n
    BY <1>2
  <2>3. G \in [0 .. (k + 1) -> Seq(V)]
    BY <2>2
  <2>4. JoinsTo(G, s, k + 1)
    <3>1. G[0] = <<>>
      BY <2>1 DEF JoinsTo
    <3>2. ASSUME NEW j \in 1 .. (k + 1) PROVE G[j] = G[j - 1] \o s[j]
      <4>1. CASE j = k + 1
        <5>1. j - 1 = k /\ k \in 0 .. (k + 1) /\ j \in 0 .. (k + 1) /\ k # k + 1
          BY <4>1
        <5>2. G[j] = F[k] \o s[k + 1] /\ G[j - 1] = F[k]
          BY <5>1, <4>1
        <5> QED
          BY <4>1, <5>2
      <4>2. CASE j # k + 1
        <5>1. j \in 1 .. k /\ j - 1 \in 0 .. k /\ j - 1 # k + 1
          BY <4>2
        <5>2. F[j] = F[j - 1] \o s[j]
          BY <2>1, <5>1 DEF JoinsTo
        <5>3. G[j] = F[j] /\ G[j - 1] = F[j - 1]
          BY <4>2, <5>1
        <5> HIDE DEF G
        <5> QED
          BY <5>2, <5>3
      <4> QED
        BY <4>1, <4>2
    <3> QED
      BY <3>1, <3>2 DEF JoinsTo
  <2> HIDE DEF G
  <2> QED
    BY <2>2, <2>3, <2>4
<1>3. n \in Done
  <2>1. n \in 0 .. n
    OBVIOUS
  <2> HIDE DEF Done
  <2> QED
    BY <1>1, <1>2, <2>1, UpTo
<1> QED
  BY <1>3

\* ... and FlattenSeq computes it.
LEMMA FlattenIsJoined ==
  ASSUME NEW n \in Nat, NEW V, NEW s \in [1 .. n -> Seq(V)]
  PROVE  \E F \in [0 .. n -> Seq(V)] : JoinsTo(F, s, n) /\ FlattenSeq(s) = F[n]
<1>1. PICK F \in [0 .. n -> Seq(V)] : JoinsTo(F, s, n)
  BY JoinedExists
<1>2. s \in Seq(Seq(V)) /\ Len(s) = n
  OBVIOUS
<1>3. CASE n = 0
  <2>1. s = <<>>
    BY <1>3
  <2>2. FlattenSeq(s) = <<>>
    BY <1>2, <1>3, <2>1 DEF FlattenSeq
  <2>3. F[n] = <<>>
    BY <1>1, <1>3 DEF JoinsTo
  <2> QED
    BY <1>1, <2>2, <2>3
<1>4. CASE n # 0
  <2> DEFINE Eq(flatten) ==
        flatten = [i \in 1 .. n |-> IF i = 1 THEN s[i] ELSE flatten[i - 1] \o s[i]]
      chosen == CHOOSE flatten : Eq(flatten)
      G == [i \in 1 .. n |-> F[i]]
  <2>1. Eq(G)
    <3>1. ASSUME NEW i \in 1 .. n
          PROVE  G[i] = IF i = 1 THEN s[i] ELSE G[i - 1] \o s[i]
      <4>1. F[i] = F[i - 1] \o s[i]
        BY <1>1 DEF JoinsTo
      <4>2. CASE i = 1
        <5>1. F[i - 1] = <<>>
          BY <1>1, <4>2 DEF JoinsTo
        <5>2. <<>> \o s[i] = s[i]
          OBVIOUS
        <5> QED
          BY <4>1, <4>2, <5>1, <5>2
      <4>3. CASE i # 1
        <5>1. i - 1 \in 1 .. n
          BY <4>3
        <5> QED
          BY <4>1, <4>3, <5>1
      <4> QED
        BY <4>2, <4>3
    <3> QED
      BY <3>1
  <2>2. FlattenSeq(s) = chosen[n]
    BY <1>2, <1>4, Zenon DEF FlattenSeq
  <2>3. Eq(chosen)
    <3> HIDE DEF Eq
    <3> QED
      BY <2>1
  <2> HIDE DEF chosen
  <2> DEFINE Same == {k \in 0 .. n : k = 0 \/ chosen[k] = F[k]}
  <2>4. 0 \in Same
    OBVIOUS
  <2>5. ASSUME NEW k \in 0 .. (n - 1), k \in Same PROVE k + 1 \in Same
    <3>1. k + 1 \in 1 .. n /\ (k + 1) - 1 = k
      OBVIOUS
    <3>2. F[k + 1] = F[k] \o s[k + 1]
      BY <1>1, <3>1 DEF JoinsTo
    <3>3. CASE k = 0
      <4>1. chosen[k + 1] = s[k + 1] /\ F[k] = <<>>
        BY <1>1, <2>3, <3>1, <3>3 DEF JoinsTo
      <4>2. <<>> \o s[k + 1] = s[k + 1]
        BY <3>1
      <4> QED
        BY <3>1, <3>2, <4>1, <4>2
    <3>4. CASE k # 0
      <4>1. k + 1 # 1
        BY <3>4
      <4>2. chosen[k + 1] = chosen[(k + 1) - 1] \o s[k + 1]
        BY <2>3, <3>1, <4>1
      <4>3. chosen[k] = F[k]
        BY <2>5, <3>4
      <4>4. chosen[k + 1] = chosen[k] \o s[k + 1]
        BY <3>1, <4>2
      <4>5. chosen[k + 1] = F[k + 1]
        BY <3>2, <4>3, <4>4
      <4>6. k + 1 \in 0 .. n
        BY <3>1
      <4> QED
        BY <4>5, <4>6
    <3> QED
      BY <3>3, <3>4
  <2>6. n \in Same
    <3>1. n \in 0 .. n
      OBVIOUS
    <3> HIDE DEF Same
    <3> QED
      BY <2>4, <2>5, <3>1, UpTo
  <2> QED
    BY <1>1, <1>4, <2>2, <2>6
<1> QED
  BY <1>3, <1>4

\* Each rank has its place among the ranks in ascending order, and no other has it.
LEMMA NthIs ==
  ASSUME NEW S, IsFiniteSet(S), S \subseteq Nat
  PROVE  /\ \A n \in 1 .. Cardinality(S) : NthOf(S, n) \in S
         /\ \A m \in S : \E n \in 1 .. Cardinality(S) : NthOf(S, n) = m
         /\ \A n, k \in 1 .. Cardinality(S) : NthOf(S, n) = NthOf(S, k) => n = k
<1> DEFINE Beneath(m) == {k \in S : k < m}
           C == Cardinality(S)
           place == [m \in S |-> Cardinality(Beneath(m)) + 1]
<1>1. C \in Nat
  BY FS_CardinalityType
<1>2. \A m \in S : IsFiniteSet(Beneath(m)) /\ Cardinality(Beneath(m)) \in Nat
  BY FS_Subset, FS_CardinalityType
<1>3. ASSUME NEW m \in S PROVE Cardinality(Beneath(m)) + 1 \in 1 .. C
  <2>1. Beneath(m) \subseteq S /\ Beneath(m) # S
    BY <1>3
  <2>2. Cardinality(Beneath(m)) <= C /\ Cardinality(Beneath(m)) # C
    <3> HIDE DEF Beneath
    <3> QED
      BY <2>1, FS_Subset
  <2> QED
    BY <1>1, <1>2, <2>2
<1>4. ASSUME NEW m \in S, NEW l \in S, m < l
      PROVE  Cardinality(Beneath(m)) # Cardinality(Beneath(l))
  <2>1. m \in Beneath(l) /\ m \notin Beneath(m) /\ m \in Nat /\ l \in Nat
    BY <1>4
  <2>2. Beneath(m) \subseteq Beneath(l)
    <3> SUFFICES ASSUME NEW k \in S, k < m PROVE k < l
      OBVIOUS
    <3>1. k \in Nat
      OBVIOUS
    <3> QED
      BY <1>4, <2>1, <3>1
  <2> HIDE DEF Beneath
  <2> QED
    BY <1>2, <2>1, <2>2, FS_Subset
<1>5. place \in Injection(S, 1 .. C)
  <2>1. place \in [S -> 1 .. C]
    BY <1>3
  <2>2. \A m, l \in S : place[m] = place[l] => m = l
    <3> SUFFICES ASSUME NEW m \in S, NEW l \in S, place[m] = place[l], m # l PROVE FALSE
      OBVIOUS
    <3>1. Cardinality(Beneath(m)) = Cardinality(Beneath(l))
      <4>1. Cardinality(Beneath(m)) + 1 = Cardinality(Beneath(l)) + 1
        OBVIOUS
      <4> HIDE DEF Beneath
      <4> QED
        BY <1>2, <4>1
    <3>2. m < l \/ l < m
      OBVIOUS
    <3> QED
      BY <1>4, <3>1, <3>2
  <2> QED
    BY <2>1, <2>2 DEF Injection, IsInjective
<1>6. IsFiniteSet(1 .. C) /\ Cardinality(1 .. C) = C
  BY <1>1, FS_Interval
<1>7. place \in Surjection(S, 1 .. C)
  <2> HIDE DEF place
  <2> QED
    BY <1>5, <1>6, FS_Injection
<1>8. ASSUME NEW n \in 1 .. C
      PROVE  NthOf(S, n) \in S /\ place[NthOf(S, n)] = n
  <2>1. PICK m \in S : place[m] = n
    BY <1>7 DEF Surjection
  <2>2. Cardinality(Beneath(m)) = n - 1
    <3>1. Cardinality(Beneath(m)) + 1 = n
      BY <2>1
    <3> HIDE DEF Beneath
    <3> QED
      BY <1>2, <3>1
  <2>3. NthOf(S, n) \in S /\ Cardinality(Beneath(NthOf(S, n))) = n - 1
    BY <2>2 DEF NthOf
  <2> QED
    BY <2>3
<1>9. ASSUME NEW m \in S PROVE \E n \in 1 .. C : NthOf(S, n) = m
  <2>1. place[m] \in 1 .. C
    BY <1>3
  <2>2. NthOf(S, place[m]) \in S /\ place[NthOf(S, place[m])] = place[m]
    <3> HIDE DEF place
    <3> QED
      BY <1>8, <2>1
  <2>3. NthOf(S, place[m]) = m
    <3> HIDE DEF place
    <3> QED
      BY <1>5, <2>2 DEF Injection, IsInjective
  <2> QED
    BY <2>1, <2>3
<1> HIDE DEF place
<1> QED
  BY <1>8, <1>9

\* The lines of rank m in a list are one after the other, its operations in their order.
IsBlock(list, m, lo, ops) ==
  /\ lo + 1 .. lo + Len(ops) \subseteq DOMAIN list
  /\ \A i \in DOMAIN list : list[i].rank = m <=> i \in lo + 1 .. lo + Len(ops)
  /\ \A i \in 1 .. Len(ops) : list[lo + i].ino = ops[i].ino

HasBlock(list, m, ops) == \E lo \in Nat : IsBlock(list, m, lo, ops)

\* A sequence and what follows it.
LEMMA JoinIs ==
  ASSUME NEW V, NEW list \in Seq(V), NEW more \in Seq(V), NEW both, both = list \o more,
         NEW n \in Nat, n = Len(list), NEW k \in Nat, k = Len(more)
  PROVE  /\ DOMAIN both = 1 .. (n + k) /\ DOMAIN list = 1 .. n /\ DOMAIN more = 1 .. k
         /\ \A i \in 1 .. n : both[i] = list[i]
         /\ \A i \in 1 .. (n + k) : i > n => both[i] = more[i - n] /\ i - n \in 1 .. k
OBVIOUS

\* Another rank's lines may be added to it ...
LEMMA BlockStays ==
  ASSUME NEW V, NEW list \in Seq(V), NEW more \in Seq(V), NEW m, NEW O, NEW ops \in Seq(O),
         HasBlock(list, m, ops), \A i \in DOMAIN more : more[i].rank # m
  PROVE  HasBlock(list \o more, m, ops)
<1>1. PICK lo \in Nat : IsBlock(list, m, lo, ops)
  BY DEF HasBlock
<1>2. PICK n \in Nat, k \in Nat, c \in Nat : n = Len(list) /\ k = Len(more) /\ c = Len(ops)
  OBVIOUS
<1>3. PICK both : both = list \o more
  OBVIOUS
<1>4. /\ DOMAIN both = 1 .. (n + k) /\ DOMAIN list = 1 .. n /\ DOMAIN more = 1 .. k
      /\ \A i \in 1 .. n : both[i] = list[i]
      /\ \A i \in 1 .. (n + k) : i > n => both[i] = more[i - n] /\ i - n \in 1 .. k
  BY <1>2, <1>3, JoinIs
<1>5. lo + 1 .. lo + c \subseteq 1 .. n
  BY <1>1, <1>2, <1>4 DEF IsBlock
<1>6. \A i \in 1 .. (n + k) : both[i].rank = m <=> i \in lo + 1 .. lo + c
  <2>1. \A i \in 1 .. n : both[i].rank = m <=> i \in lo + 1 .. lo + c
    BY <1>1, <1>2, <1>4 DEF IsBlock
  <2>2. \A i \in 1 .. (n + k) : i > n => both[i].rank # m /\ i \notin lo + 1 .. lo + c
    BY <1>4, <1>5
  <2>3. \A i \in 1 .. (n + k) : i \in 1 .. n \/ i > n
    OBVIOUS
  <2> QED
    BY <2>1, <2>2, <2>3
<1>7. \A i \in 1 .. c : both[lo + i].ino = ops[i].ino
  <2> SUFFICES ASSUME NEW i \in 1 .. c PROVE both[lo + i].ino = ops[i].ino
    OBVIOUS
  <2>1. lo + i \in lo + 1 .. lo + c
    OBVIOUS
  <2>2. both[lo + i] = list[lo + i]
    BY <1>4, <1>5, <2>1
  <2> QED
    BY <1>1, <1>2, <2>2 DEF IsBlock
<1>8. lo + 1 .. lo + c \subseteq 1 .. (n + k)
  <2>1. 1 .. n \subseteq 1 .. (n + k)
    OBVIOUS
  <2> QED
    BY <1>5, <2>1
<1>9. IsBlock(both, m, lo, ops)
  BY <1>2, <1>4, <1>6, <1>7, <1>8 DEF IsBlock
<1> QED
  BY <1>3, <1>9 DEF HasBlock

\* Lines of rank m, one for each of the operations.
AreLines(lines, m, ops) ==
  /\ Len(lines) = Len(ops)
  /\ \A i \in DOMAIN lines : lines[i].rank = m /\ lines[i].ino = ops[i].ino

\* ... and so may its own, once.
LEMMA BlockAdded ==
  ASSUME NEW V, NEW list \in Seq(V), NEW more \in Seq(V), NEW m, NEW O, NEW ops \in Seq(O),
         \A i \in DOMAIN list : list[i].rank # m, AreLines(more, m, ops)
  PROVE  HasBlock(list \o more, m, ops)
<1>1. PICK n \in Nat, c \in Nat : n = Len(list) /\ c = Len(more)
  OBVIOUS
<1>2. c = Len(ops) /\ \A i \in DOMAIN more : more[i].rank = m /\ more[i].ino = ops[i].ino
  BY <1>1 DEF AreLines
<1>3. PICK both : both = list \o more
  OBVIOUS
<1>4. /\ DOMAIN both = 1 .. (n + c) /\ DOMAIN list = 1 .. n /\ DOMAIN more = 1 .. c
      /\ \A i \in 1 .. n : both[i] = list[i]
      /\ \A i \in 1 .. (n + c) : i > n => both[i] = more[i - n] /\ i - n \in 1 .. c
  BY <1>1, <1>3, JoinIs
<1>5. n + 1 .. n + c \subseteq 1 .. (n + c)
  OBVIOUS
<1>6. \A i \in 1 .. (n + c) : both[i].rank = m <=> i \in n + 1 .. n + c
  <2>1. \A i \in 1 .. n : both[i].rank # m /\ i \notin n + 1 .. n + c
    BY <1>4
  <2>2. \A i \in 1 .. (n + c) : i > n => both[i].rank = m /\ i \in n + 1 .. n + c
    BY <1>2, <1>4
  <2>3. \A i \in 1 .. (n + c) : i \in 1 .. n \/ i > n
    OBVIOUS
  <2> QED
    BY <2>1, <2>2, <2>3
<1>7. \A i \in 1 .. c : both[n + i].ino = ops[i].ino
  <2> SUFFICES ASSUME NEW i \in 1 .. c PROVE both[n + i].ino = ops[i].ino
    OBVIOUS
  <2>1. n + i \in 1 .. (n + c) /\ n + i > n /\ (n + i) - n = i
    OBVIOUS
  <2>2. both[n + i] = more[(n + i) - n]
    BY <1>4, <2>1
  <2>3. both[n + i] = more[i]
    BY <2>1, <2>2
  <2> QED
    BY <1>2, <1>4, <2>3
<1>8. IsBlock(both, m, n, ops)
  BY <1>1, <1>2, <1>4, <1>5, <1>6, <1>7 DEF IsBlock
<1> QED
  BY <1>3, <1>8 DEF HasBlock

\* The list of operations has those of each rank that was asked, and no others'.
LEMMA OpsAre ==
  ASSUME NEW S, IsFiniteSet(S), S \subseteq Nat, NEW reply \in [S -> DumpAnswers]
  PROVE  /\ \E V : OpsOf(reply) \in Seq(V)
         /\ \A m \in S : Len(reply[m].ops) \in Nat /\ HasBlock(OpsOf(reply), m, reply[m].ops)
<1> DEFINE O == [ino : Inode \cup {None}, ids : SUBSET Id]
           V == [rank : S, ino : Inode \cup {None}, ids : SUBSET Id]
           C == Cardinality(S)
           Lines(m) == [i \in DOMAIN reply[m].ops |->
                          [rank |-> m, ino |-> reply[m].ops[i].ino, ids |-> reply[m].ops[i].ids]]
           lists == [n \in 1 .. C |-> Lines(NthOf(S, n))]
<1>1. C \in Nat
  BY FS_CardinalityType
<1>2. ASSUME NEW m \in S PROVE reply[m].ops \in Seq(O)
  <2>1. \/ reply[m] \in [how : {"answered"}, ops : Dumps]
        \/ reply[m] \in [how : {"failed", "garbled"}, ops : {<<>>}]
    BY DEF DumpAnswers
  <2>2. Dumps \subseteq Seq(O)
    BY MdsTyped
  <2>3. <<>> \in Seq(O)
    OBVIOUS
  <2> HIDE DEF O
  <2> QED
    BY <2>1, <2>2, <2>3
<1> HIDE DEF O
<1>3. ASSUME NEW m \in S
      PROVE  /\ Lines(m) \in Seq(V) /\ Len(Lines(m)) = Len(reply[m].ops)
             /\ \A i \in DOMAIN Lines(m) : Lines(m)[i].rank = m /\ Lines(m)[i].ino = reply[m].ops[i].ino
  <2>1. PICK ops \in Seq(O) : ops = reply[m].ops
    BY <1>2
  <2>2. PICK c \in Nat : c = Len(ops) /\ DOMAIN ops = 1 .. c /\ \A i \in 1 .. c : ops[i] \in O
    OBVIOUS
  <2>3. PICK lines : lines = [i \in 1 .. c |-> [rank |-> m, ino |-> ops[i].ino, ids |-> ops[i].ids]]
    OBVIOUS
  <2>4. Lines(m) = lines
    BY <2>1, <2>2, <2>3
  <2>5. lines \in [1 .. c -> V]
    <3>1. \A i \in 1 .. c : ops[i].ino \in Inode \cup {None} /\ ops[i].ids \in SUBSET Id
      BY <2>2 DEF O
    <3>2. \A i \in 1 .. c : [rank |-> m, ino |-> ops[i].ino, ids |-> ops[i].ids] \in V
      BY <3>1
    <3> HIDE DEF V
    <3> QED
      BY <2>3, <3>2
  <2>6. lines \in Seq(V) /\ Len(lines) = c
    <3> HIDE DEF V
    <3> QED
      BY <2>5
  <2>7. \A i \in 1 .. c : lines[i].rank = m /\ lines[i].ino = ops[i].ino
    BY <2>3
  <2> HIDE DEF Lines, V
  <2> QED
    BY <2>1, <2>2, <2>3, <2>4, <2>6, <2>7
<1>4. \A n \in 1 .. C : NthOf(S, n) \in S
  BY NthIs
<1> HIDE DEF Lines, V
<1>5. lists \in [1 .. C -> Seq(V)]
  BY <1>3, <1>4
<1>6. OpsOf(reply) = FlattenSeq(lists)
  BY DEF OpsOf, Lines
<1>7. PICK F \in [0 .. C -> Seq(V)] : JoinsTo(F, lists, C) /\ FlattenSeq(lists) = F[C]
  BY <1>1, <1>5, FlattenIsJoined
<1> DEFINE Good == {n \in 0 .. C :
                      /\ \A k \in 1 .. n : HasBlock(F[n], NthOf(S, k), reply[NthOf(S, k)].ops)
                      /\ \A i \in DOMAIN F[n] : \E k \in 1 .. n : F[n][i].rank = NthOf(S, k)}
<1>8. 0 \in Good
  <2>1. F[0] = <<>>
    BY <1>7 DEF JoinsTo
  <2>2. DOMAIN F[0] = {}
    BY <2>1
  <2>3. 1 .. 0 = {}
    OBVIOUS
  <2> QED
    BY <1>1, <2>2, <2>3
<1>9. ASSUME NEW n \in 0 .. (C - 1), n \in Good PROVE n + 1 \in Good
  <2>1. n + 1 \in 1 .. C /\ n + 1 \in 0 .. C /\ (n + 1) - 1 = n /\ n \in 0 .. C
    BY <1>1
  <2>2. PICK m : m = NthOf(S, n + 1) /\ m \in S
    BY <1>4, <2>1
  <2>3. PICK list, more, both : list = F[n] /\ more = Lines(m) /\ both = F[n + 1]
    OBVIOUS
  <2>4. list \in Seq(V) /\ more \in Seq(V) /\ both = list \o more
    <3>1. F[n + 1] = F[n] \o lists[n + 1]
      BY <1>7, <2>1 DEF JoinsTo
    <3>2. lists[n + 1] = Lines(m)
      BY <2>1, <2>2
    <3> QED
      BY <1>3, <1>7, <2>1, <2>2, <2>3, <3>1, <3>2
  <2>5. \A k \in 1 .. n : NthOf(S, k) # m /\ NthOf(S, k) \in S
    <3> SUFFICES ASSUME NEW k \in 1 .. n PROVE NthOf(S, k) # m /\ NthOf(S, k) \in S
      OBVIOUS
    <3>1. k \in 1 .. C /\ k # n + 1
      BY <1>1
    <3> QED
      BY <1>4, <2>1, <2>2, <3>1, NthIs
  <2>6. HasBlock(both, m, reply[m].ops)
    <3>1. \A i \in DOMAIN list : list[i].rank # m
      BY <1>9, <2>3, <2>5
    <3>2. reply[m].ops \in Seq(O) /\ AreLines(more, m, reply[m].ops)
      BY <1>2, <1>3, <2>2, <2>3 DEF AreLines
    <3> QED
      BY <2>4, <3>1, <3>2, BlockAdded
  <2>7. ASSUME NEW k \in 1 .. n
        PROVE  HasBlock(both, NthOf(S, k), reply[NthOf(S, k)].ops)
    <3>1. PICK l : l = NthOf(S, k) /\ l # m /\ l \in S
      BY <2>5
    <3>2. HasBlock(list, l, reply[l].ops) /\ reply[l].ops \in Seq(O)
      BY <1>2, <1>9, <2>3, <3>1
    <3>3. \A i \in DOMAIN more : more[i].rank # l
      BY <1>3, <2>2, <2>3, <3>1
    <3>4. HasBlock(list \o more, l, reply[l].ops)
      BY <2>4, <3>2, <3>3, BlockStays
    <3> QED
      BY <2>4, <3>1, <3>4
  <2>8. \A k \in 1 .. (n + 1) : k \in 1 .. n \/ k = n + 1
    OBVIOUS
  <2>9. \A k \in 1 .. (n + 1) : HasBlock(F[n + 1], NthOf(S, k), reply[NthOf(S, k)].ops)
    BY <2>2, <2>3, <2>6, <2>7, <2>8
  <2>10. ASSUME NEW i \in DOMAIN both
         PROVE  \E k \in 1 .. (n + 1) : both[i].rank = NthOf(S, k)
    <3>1. \/ i \in DOMAIN list /\ both[i] = list[i]
          \/ i - Len(list) \in DOMAIN more /\ both[i] = more[i - Len(list)]
      <4>1. DOMAIN list = 1 .. Len(list) /\ DOMAIN more = 1 .. Len(more)
            /\ Len(list) \in Nat /\ Len(more) \in Nat
        BY <2>4
      <4>2. i \in 1 .. (Len(list) + Len(more))
        BY <2>4
      <4> QED
        BY <2>4, <4>1, <4>2
    <3>2. CASE i \in DOMAIN list /\ both[i] = list[i]
      <4>1. PICK k \in 1 .. n : list[i].rank = NthOf(S, k)
        BY <1>9, <2>3, <3>2
      <4>2. k \in 1 .. (n + 1)
        OBVIOUS
      <4> QED
        BY <3>2, <4>1, <4>2
    <3>3. CASE i - Len(list) \in DOMAIN more /\ both[i] = more[i - Len(list)]
      <4>1. both[i].rank = m
        BY <1>3, <2>2, <2>3, <3>3
      <4>2. n + 1 \in 1 .. (n + 1)
        OBVIOUS
      <4> QED
        BY <2>2, <4>1, <4>2
    <3> QED
      BY <3>1, <3>2, <3>3
  <2> QED
    BY <2>1, <2>3, <2>9, <2>10
<1>10. C \in Good
  <2>1. C \in 0 .. C
    BY <1>1
  <2> HIDE DEF Good, C
  <2> QED
    BY <1>1, <1>8, <1>9, <2>1, UpTo
<1>11. \A m \in S : HasBlock(F[C], m, reply[m].ops)
  <2> SUFFICES ASSUME NEW m \in S PROVE HasBlock(F[C], m, reply[m].ops)
    OBVIOUS
  <2>1. PICK k \in 1 .. C : NthOf(S, k) = m
    BY NthIs
  <2> QED
    BY <1>10, <2>1
<1>12. F[C] \in Seq(V)
  <2>1. C \in 0 .. C
    BY <1>1
  <2> QED
    BY <1>7, <2>1
<1>13. OpsOf(reply) = F[C]
  BY <1>6, <1>7
<1>14. \A m \in S : Len(reply[m].ops) \in Nat
  BY <1>2
<1> HIDE DEF C
<1> QED
  BY <1>11, <1>12, <1>13, <1>14

-----------------------------------------------------------------------------
(* What is shown of the ranks' answers.                                      *)

\* The lines shown, and the operations still to be shown, are those of the list.
InStep(state, all) ==
  /\ \E V : all \in Seq(V) /\ state.ops \in Seq(V)
  /\ Len(state.shown) + Len(state.ops) = Len(all)
  /\ \A i \in 1 .. Len(state.shown) :
       state.shown[i].rank = all[i].rank /\ state.shown[i].ino = all[i].ino
  /\ \A i \in 1 .. Len(state.ops) : state.ops[i] = all[Len(state.shown) + i]

GarbledIn(state) ==
  \E m \in state.ranks : state.reply[m].how = "garbled" \/ state.task[m] = "garbled"

Over(state) == state.exit \in {"shown", "empty"}

AnswerOk(state) ==
  /\ state.pc # "ended" => state.exit = None
  /\ state.pc = "gather" => state.ranks \subseteq Rank
  /\ state.pc \in {"show", "merge", "replace"} \/ Over(state) =>
       /\ state.ranks \subseteq Rank
       /\ state.reply \in [state.ranks -> DumpAnswers]
       /\ InStep(state, OpsOf(state.reply))
  /\ state.pc \in {"merge", "replace"} \/ Over(state) => state.ops = <<>>
  /\ state.exit = "error" => GarbledIn(state) \/ \A m \in state.ranks : state.reply[m].how = "failed"

AnswersInv == \A r \in Run : AnswerOk(run[r])

\* A step of one run is a matter of what that run becomes.
LEMMA AnswerStep ==
  ASSUME MdsInv, AnswersInv, NEW r \in Run, NEW state, run' = [run EXCEPT ![r] = state],
         AnswerOk(state)
  PROVE  AnswersInv'
BY DEF MdsInv, RunsOk, AnswersInv

\* A run that is idle, or was killed or refused, has no answers.
LEMMA NoAnswers ==
  /\ AnswerOk(IdleRun)
  /\ AnswerOk(Exited(IdleRun, "killed"))
  /\ AnswerOk(Exited(IdleRun, "refused"))
<1>1. AnswerOk(IdleRun)
  BY MdsTyped DEF AnswerOk, IdleRun, Over
<1>2. ASSUME NEW how \in {"killed", "refused"} PROVE AnswerOk(Exited(IdleRun, how))
  <2>1. Exited(IdleRun, how).pc = "ended" /\ Exited(IdleRun, how).exit = how
    BY DEF Exited, IdleRun
  <2> QED
    BY <1>2, <2>1 DEF AnswerOk, Over
<1> QED
  BY <1>1, <1>2

\* While the clients are gathered, only the ranks matter.
LEMMA Gathering ==
  ASSUME NEW state, state.pc = "gather", state.exit = None, state.ranks \subseteq Rank
  PROVE  AnswerOk(state)
BY MdsTyped DEF AnswerOk, Over

LEMMA StartAnswers ==
  ASSUME MdsInv, AnswersInv, NEW r \in Run, Start(r)
  PROVE  AnswersInv'
<1> DEFINE a == Head(todo)
           Begun(ranks) == [IdleRun EXCEPT
             !.pc = "gather", !.arg = a, !.ranks = ranks,
             !.task = [m \in ranks |-> IF a.lsTtl = 0 THEN "query" ELSE "look"],
             !.clients = [m \in ranks |-> None]]
<1>1. PICK ranks \in RanksOf(a) :
        \/ run' = [run EXCEPT ![r] = Exited(IdleRun, "refused")]
        \/ run' = [run EXCEPT ![r] = Begun(ranks)]
  BY Zenon DEF Start
<1>2. ranks \subseteq Rank
  <2>1. a \in CommandLine
    BY DEF MdsInv, Start
  <2>2. a.rank \in Rank \cup {None}
    BY <2>1 DEF CommandLine
  <2> QED
    BY <1>1, <2>2 DEF RanksOf
<1>3. AnswerOk(Begun(ranks))
  <2>1. Begun(ranks).pc = "gather" /\ Begun(ranks).exit = None /\ Begun(ranks).ranks = ranks
    BY DEF IdleRun
  <2> HIDE DEF Begun
  <2> QED
    BY <1>2, <2>1, Gathering
<1> HIDE DEF Begun
<1> QED
  BY <1>1, <1>3, NoAnswers, AnswerStep

\* The steps of a rank's task.
LEMMA TaskAnswers ==
  ASSUME MdsInv, AnswersInv, NEW r \in Run, NEW m,
         LookAtAge(r, m) \/ ReadClients(r, m) \/ QueryClients(r, m) \/ SaveClients(r, m)
  PROVE  AnswersInv'
<1>1. DOMAIN run[r] = DOMAIN IdleRun /\ DOMAIN run = Run
  BY DEF MdsInv, RunsOk, RunOk
<1>2. run[r].pc = "gather" /\ AnswerOk(run[r])
  BY DEF AnswersInv, LookAtAge, ReadClients, QueryClients, SaveClients
<1>3. run[r].exit = None /\ run[r].ranks \subseteq Rank
  BY <1>2 DEF AnswerOk
<1>5. /\ run'[r].pc = "gather" /\ run'[r].exit = None /\ run'[r].ranks \subseteq Rank
      /\ \A q \in Run \ {r} : run'[q] = run[q]
  <2>1. CASE LookAtAge(r, m)
    BY <1>1, <1>2, <1>3, <2>1 DEF LookAtAge, IdleRun
  <2>2. CASE ReadClients(r, m)
    BY <1>1, <1>2, <1>3, <2>2 DEF ReadClients, IdleRun
  <2>3. CASE QueryClients(r, m)
    BY <1>1, <1>2, <1>3, <2>3 DEF QueryClients, IdleRun
  <2>4. CASE SaveClients(r, m)
    BY <1>1, <1>2, <1>3, <2>4 DEF SaveClients, IdleRun
  <2> QED
    BY <2>1, <2>2, <2>3, <2>4
<1>6. AnswerOk(run'[r])
  BY <1>5, Gathering
<1> QED
  BY <1>5, <1>6 DEF AnswersInv

\* When the pool is joined, the list is made of the answers; if it is empty, or they are
\* fatal, the run ends with them.
LEMMA GatherAnswers ==
  ASSUME MdsInv, AnswersInv, NEW r \in Run, Gather(r)
  PROVE  AnswersInv'
<1> DEFINE Answered(reply) == [run[r] EXCEPT !.reply = reply]
           Going(reply, load, conn) ==
             [run[r] EXCEPT !.pc = "show", !.reply = reply, !.ops = OpsOf(reply), !.conn = conn,
                            !.saves = load.saves, !.cache = load.cache, !.begun = clock]
<1>1. /\ DOMAIN run[r] = DOMAIN IdleRun /\ run[r].pc = "gather" /\ run[r].shown = <<>>
      /\ run[r].exit = None /\ run[r].ranks \subseteq Rank
  <2>1. run[r].pc = "gather"
    BY Zenon DEF Gather
  <2>2. DOMAIN run[r] = DOMAIN IdleRun /\ GatherOk(run[r], DOMAIN lsFile)
    BY <2>1 DEF MdsInv, RunsOk, RunOk
  <2>3. AnswerOk(run[r])
    BY DEF AnswersInv
  <2>4. run[r].exit = None /\ run[r].ranks \subseteq Rank
    BY <2>1, <2>3 DEF AnswerOk
  <2> QED
    BY <2>1, <2>2, <2>4 DEF GatherOk
<1>2. PICK reply \in [run[r].ranks -> DumpAnswers] :
        IF Fatal(reply, run[r].task)
        THEN run' = [run EXCEPT ![r] = Exited(Answered(reply), "error")]
        ELSE IF OpsOf(reply) = <<>>
        THEN run' = [run EXCEPT ![r] = Exited(Answered(reply), "empty")]
        ELSE \E load \in LoadCache(run[r].arg), conn \in ConnAnswers(run[r].arg) :
               run' = [run EXCEPT ![r] = Going(reply, load, conn)]
  BY Zenon DEF Gather
<1>3. PICK all : all = OpsOf(reply) /\ \E V : all \in Seq(V)
  <2>1. IsFiniteSet(run[r].ranks) /\ run[r].ranks \subseteq Nat
    BY <1>1, MdsTyped, FS_Subset
  <2> QED
    BY <2>1, OpsAre
<1>4. ASSUME NEW how
      PROVE  /\ Exited(Answered(reply), how).pc = "ended" /\ Exited(Answered(reply), how).exit = how
             /\ Exited(Answered(reply), how).reply = reply /\ Exited(Answered(reply), how).ops = <<>>
             /\ \A f \in {"ranks", "task", "shown"} : Exited(Answered(reply), how)[f] = run[r][f]
  BY <1>1 DEF Exited, IdleRun
<1>5. CASE Fatal(reply, run[r].task)
  <2>1. PICK state : state = Exited(Answered(reply), "error")
    OBVIOUS
  <2>2. /\ state.pc = "ended" /\ state.exit = "error" /\ state.reply = reply
        /\ state.ranks = run[r].ranks /\ state.task = run[r].task
    BY <1>4, <2>1
  <2>3. GarbledIn(state) \/ \A m \in state.ranks : state.reply[m].how = "failed"
    BY <1>5, <2>2 DEF Fatal, GarbledIn
  <2>4. AnswerOk(state)
    BY <2>2, <2>3 DEF AnswerOk, Over
  <2> QED
    BY <1>2, <1>5, <2>1, <2>4, AnswerStep
<1>6. CASE ~Fatal(reply, run[r].task) /\ all = <<>>
  <2>1. PICK state : state = Exited(Answered(reply), "empty")
    OBVIOUS
  <2>2. /\ state.pc = "ended" /\ state.exit = "empty" /\ state.reply = reply /\ state.ops = <<>>
        /\ state.ranks = run[r].ranks /\ state.shown = <<>>
    BY <1>1, <1>4, <2>1
  <2>3. InStep(state, all)
    BY <1>3, <1>6, <2>2 DEF InStep
  <2>4. AnswerOk(state)
    BY <1>1, <1>3, <2>2, <2>3 DEF AnswerOk, Over
  <2> QED
    BY <1>2, <1>3, <1>6, <2>1, <2>4, AnswerStep
<1>7. CASE ~Fatal(reply, run[r].task) /\ all # <<>>
  <2>1. PICK load, conn : run' = [run EXCEPT ![r] = Going(reply, load, conn)]
    <3> HIDE DEF Answered, Going
    <3> QED
      BY <1>2, <1>3, <1>7
  <2>2. PICK state : state = Going(reply, load, conn)
    OBVIOUS
  <2>3. /\ state.pc = "show" /\ state.exit = None /\ state.reply = reply /\ state.ops = all
        /\ state.ranks = run[r].ranks /\ state.shown = <<>>
    BY <1>1, <1>3, <2>2 DEF IdleRun
  <2>4. InStep(state, all)
    <3>1. Len(state.shown) = 0 /\ Len(all) \in Nat
      BY <1>3, <2>3
    <3>2. \A i \in 1 .. Len(all) : Len(state.shown) + i = i
      BY <3>1
    <3> QED
      BY <1>3, <2>3, <3>1, <3>2 DEF InStep
  <2>5. AnswerOk(state)
    BY <1>1, <1>3, <2>3, <2>4, MdsTyped DEF AnswerOk, Over
  <2> QED
    BY <2>1, <2>2, <2>5, AnswerStep
<1> QED
  BY <1>5, <1>6, <1>7

\* The operation that was next is the next line.
LEMMA NextLine ==
  ASSUME NEW old, NEW all, InStep(old, all), NEW L, old.shown \in Seq(L), old.ops # <<>>,
         NEW line, line.rank = Head(old.ops).rank, line.ino = Head(old.ops).ino,
         NEW new, new.shown = Append(old.shown, line), new.ops = Tail(old.ops)
  PROVE  InStep(new, all)
<1>1. PICK V : all \in Seq(V) /\ old.ops \in Seq(V)
  BY DEF InStep
<1>2. PICK n \in Nat, k \in Nat : n = Len(old.shown) /\ k = Len(old.ops)
  BY <1>1
<1>3. k >= 1 /\ k - 1 \in Nat
  BY <1>1, <1>2
<1>4. new.ops \in Seq(V) /\ Len(new.ops) = k - 1 /\ \A i \in 1 .. (k - 1) : new.ops[i] = old.ops[i + 1]
  BY <1>1, <1>2, <1>3
<1>5. Len(new.shown) = n + 1 /\ \A i \in 1 .. (n + 1) : new.shown[i] = IF i = n + 1 THEN line ELSE old.shown[i]
  <2>1. PICK M : M = L \cup {line}
    OBVIOUS
  <2>2. PICK lines : lines = old.shown
    OBVIOUS
  <2>3. L \subseteq M /\ line \in M
    BY <2>1
  <2>4. lines \in Seq(M)
    BY <2>2, <2>3
  <2>5. /\ Len(Append(lines, line)) = n + 1
        /\ \A i \in 1 .. (n + 1) : Append(lines, line)[i] = IF i = n + 1 THEN line ELSE lines[i]
    BY <1>2, <2>2, <2>3, <2>4
  <2> QED
    BY <2>2, <2>5
<1>6. n + k = Len(all)
  BY <1>2 DEF InStep
<1>7. ASSUME NEW i \in 1 .. (n + 1)
      PROVE  new.shown[i].rank = all[i].rank /\ new.shown[i].ino = all[i].ino
  <2>1. CASE i = n + 1
    <3>1. Head(old.ops) = old.ops[1]
      BY <1>1, <1>3, <1>2
    <3>2. old.ops[1] = all[n + 1]
      <4>1. 1 \in 1 .. k
        BY <1>3
      <4>2. \A j \in 1 .. k : old.ops[j] = all[n + j]
        <5>1. \A j \in 1 .. Len(old.ops) : old.ops[j] = all[Len(old.shown) + j]
          BY Zenon DEF InStep
        <5> QED
          BY <1>2, <5>1
      <4> QED
        BY <4>1, <4>2
    <3>3. new.shown[i] = line
      BY <1>5, <2>1
    <3> QED
      BY <2>1, <3>1, <3>2, <3>3
  <2>2. CASE i # n + 1
    <3>1. i \in 1 .. n /\ new.shown[i] = old.shown[i]
      BY <1>5, <2>2
    <3> QED
      BY <1>2, <3>1 DEF InStep
  <2> QED
    BY <2>1, <2>2
<1>8. ASSUME NEW i \in 1 .. (k - 1) PROVE new.ops[i] = all[(n + 1) + i]
  <2>1. i + 1 \in 1 .. k /\ n + (i + 1) = (n + 1) + i
    OBVIOUS
  <2>2. old.ops[i + 1] = all[n + (i + 1)]
    BY <1>2, <2>1 DEF InStep
  <2> QED
    BY <1>4, <2>1, <2>2
<1>9. (n + 1) + (k - 1) = Len(all)
  BY <1>6
<1> QED
  BY <1>1, <1>4, <1>5, <1>7, <1>8, <1>9 DEF InStep

LEMMA ShowOpAnswers ==
  ASSUME MdsInv, AnswersInv, NEW r \in Run, ShowOp(r)
  PROVE  AnswersInv'
<1> DEFINE op == Head(run[r].ops)
           Line(path) == [rank |-> op.rank, ino |-> op.ino, path |-> path, at |-> clock]
<1>1. /\ DOMAIN run[r] = DOMAIN IdleRun /\ DOMAIN run = Run
      /\ run[r].shown \in Seq(Range(run[r].shown))
  BY DEF MdsInv, RunsOk, RunOk
<1>2. run[r].pc = "show" /\ run[r].ops # <<>> /\ AnswerOk(run[r])
  <2>1. run[r].pc = "show" /\ run[r].ops # <<>>
    BY Zenon DEF ShowOp
  <2> QED
    BY <2>1 DEF AnswersInv
<1>3. /\ run[r].exit = None /\ run[r].ranks \subseteq Rank
      /\ run[r].reply \in [run[r].ranks -> DumpAnswers]
      /\ InStep(run[r], OpsOf(run[r].reply))
  BY Zenon, <1>2 DEF AnswerOk
<1>4. \E path : /\ run'[r].pc = "show" /\ run'[r].exit = None
                /\ run'[r].ranks = run[r].ranks /\ run'[r].reply = run[r].reply
                /\ run'[r].ops = Tail(run[r].ops)
                /\ run'[r].shown = Append(run[r].shown, Line(path))
  <2>1. ASSUME NEW names, NEW path
        PROVE  /\ DOMAIN Showing(r, op, names, path) = DOMAIN IdleRun
               /\ \A f \in {"pc", "exit", "ranks", "reply"} :
                    Showing(r, op, names, path)[f] = run[r][f]
               /\ Showing(r, op, names, path).ops = Tail(run[r].ops)
               /\ Showing(r, op, names, path).shown = Append(run[r].shown, Line(path))
    BY <1>1 DEF Showing, IdleRun
  <2>2. ASSUME NEW names, NEW path, run' = [run EXCEPT ![r] = Showing(r, op, names, path)]
        PROVE  <1>4
    <3>1. run'[r] = Showing(r, op, names, path)
      BY <1>1, <2>2
    <3>5. \A f \in {"pc", "exit"} : run'[r][f] = run[r][f]
      BY <2>1, <3>1
    <3>2. run'[r].pc = "show" /\ run'[r].exit = None
      <4> HIDE DEF op
      <4> QED
        BY <1>2, <1>3, <3>5
    <3>3. run'[r].ranks = run[r].ranks /\ run'[r].reply = run[r].reply
      BY <2>1, <3>1
    <3>4. run'[r].ops = Tail(run[r].ops) /\ run'[r].shown = Append(run[r].shown, Line(path))
      BY Zenon, <2>1, <3>1
    <3> HIDE DEF Line, op
    <3> QED
      BY Zenon, <3>2, <3>3, <3>4
  <2>3. ASSUME NEW names, NEW path, NEW cache, NEW dirty,
               run' = [run EXCEPT ![r] = [Showing(r, op, names, path) EXCEPT
                                            !.cache = cache, !.dirty = dirty]]
        PROVE  <1>4
    <3>1. PICK printed : printed = Showing(r, op, names, path)
      OBVIOUS
    <3>2. run'[r] = [printed EXCEPT !.cache = cache, !.dirty = dirty]
      BY <1>1, <2>3, <3>1
    <3>3. \A f \in {"pc", "exit", "ranks", "reply", "ops", "shown"} : run'[r][f] = printed[f]
      BY <2>1, <3>1, <3>2 DEF IdleRun
    <3> HIDE DEF Line
    <3> QED
      BY <1>2, <1>3, <2>1, <3>1, <3>3
  <2>4. PICK names :
          \/ \E path : run' = [run EXCEPT ![r] = Showing(r, op, names, path)]
          \/ \E answer : LET entry == Kept(run[r].cache, CacheKey(run[r].arg, op.ino), answer) IN
               run' = [run EXCEPT ![r] = [Showing(r, op, names, entry.path) EXCEPT
                         !.cache = Assigned(@, CacheKey(run[r].arg, op.ino), entry),
                         !.dirty = @ \/ answer # None]]
    BY Zenon DEF ShowOp
  <2>5. CASE \E path : run' = [run EXCEPT ![r] = Showing(r, op, names, path)]
    <3>1. PICK path : run' = [run EXCEPT ![r] = Showing(r, op, names, path)]
      BY Zenon, <2>5
    <3> HIDE DEF op, Line
    <3> QED
      BY Zenon, <2>2, <3>1
  <2>6. CASE \E answer : LET entry == Kept(run[r].cache, CacheKey(run[r].arg, op.ino), answer) IN
               run' = [run EXCEPT ![r] = [Showing(r, op, names, entry.path) EXCEPT
                         !.cache = Assigned(@, CacheKey(run[r].arg, op.ino), entry),
                         !.dirty = @ \/ answer # None]]
    <3> HIDE DEF op, Line
    <3>1. PICK answer : LET entry == Kept(run[r].cache, CacheKey(run[r].arg, op.ino), answer) IN
               run' = [run EXCEPT ![r] = [Showing(r, op, names, entry.path) EXCEPT
                         !.cache = Assigned(@, CacheKey(run[r].arg, op.ino), entry),
                         !.dirty = @ \/ answer # None]]
      BY Zenon, <2>6
    <3>2. PICK entry : entry = Kept(run[r].cache, CacheKey(run[r].arg, op.ino), answer)
      OBVIOUS
    <3>3. PICK cache, dirty :
            /\ cache = Assigned(Showing(r, op, names, entry.path).cache,
                               CacheKey(run[r].arg, op.ino), entry)
            /\ dirty = (Showing(r, op, names, entry.path).dirty \/ answer # None)
      OBVIOUS
    <3>4. run' = [run EXCEPT ![r] = [Showing(r, op, names, entry.path) EXCEPT
                                       !.cache = cache, !.dirty = dirty]]
      BY Zenon, <3>1, <3>2, <3>3
    <3> QED
      BY Zenon, <2>3, <3>4
  <2> QED
    BY Zenon, <2>4, <2>5, <2>6
<1>5. PICK path : /\ run'[r].pc = "show" /\ run'[r].exit = None
                  /\ run'[r].ranks = run[r].ranks /\ run'[r].reply = run[r].reply
                  /\ run'[r].ops = Tail(run[r].ops)
                  /\ run'[r].shown = Append(run[r].shown, Line(path))
  BY <1>4
<1>6. InStep(run'[r], OpsOf(run'[r].reply))
  <2>1. PICK line, all : line = Line(path) /\ all = OpsOf(run[r].reply)
    OBVIOUS
  <2>2. line.rank = op.rank /\ line.ino = op.ino
    BY <2>1
  <2> HIDE DEF Line
  <2> QED
    BY <1>1, <1>2, <1>3, <1>5, <2>1, <2>2, NextLine
<1>7. AnswerOk(run'[r])
  BY <1>3, <1>5, <1>6, MdsTyped DEF AnswerOk, Over
<1>8. \A q \in Run \ {r} : run'[q] = run[q]
  <2>1. ASSUME NEW state, run' = [run EXCEPT ![r] = state] PROVE <1>8
    BY <1>1, <2>1
  <2> QED
    BY Zenon, <2>1 DEF ShowOp
<1> QED
  BY <1>7, <1>8 DEF AnswersInv

\* A run that has shown all has nothing left to show, and stays so.
LEMMA FinishAnswers ==
  ASSUME MdsInv, AnswersInv, NEW r \in Run, Finish(r) \/ ReadDisk(r) \/ ReplaceFile(r)
  PROVE  AnswersInv'
<1>1. DOMAIN run[r] = DOMAIN IdleRun
  BY DEF MdsInv, RunsOk, RunOk
<1>2. AnswerOk(run[r]) /\ run[r].pc \in {"show", "merge", "replace"}
  BY DEF AnswersInv, Finish, ReadDisk, ReplaceFile
<1>3. /\ run[r].exit = None /\ run[r].ranks \subseteq Rank
      /\ run[r].reply \in [run[r].ranks -> DumpAnswers]
      /\ InStep(run[r], OpsOf(run[r].reply))
      /\ run[r].ops = <<>>
  BY <1>2 DEF AnswerOk, Finish, ReadDisk, ReplaceFile
<1>4. ASSUME NEW state, run' = [run EXCEPT ![r] = state],
             \A f \in {"ranks", "reply", "ops", "shown"} : state[f] = run[r][f],
             \/ state.pc \in {"merge", "replace"} /\ state.exit = None
             \/ state.pc = "ended" /\ state.exit = "shown"
      PROVE  AnswersInv'
  <2>1. InStep(state, OpsOf(state.reply))
    BY <1>3, <1>4 DEF InStep
  <2>2. AnswerOk(state)
    BY <1>3, <1>4, <2>1, MdsTyped DEF AnswerOk, Over
  <2> QED
    BY <1>4, <2>2, AnswerStep
<1>5. /\ Exited(run[r], "shown").pc = "ended" /\ Exited(run[r], "shown").exit = "shown"
      /\ \A f \in {"ranks", "reply", "ops", "shown"} : Exited(run[r], "shown")[f] = run[r][f]
  BY <1>1, <1>3 DEF Exited, IdleRun
<1>6. CASE run' = [run EXCEPT ![r] = Exited(run[r], "shown")]
  BY <1>4, <1>5, <1>6
<1>7. CASE run' = [run EXCEPT ![r] = [run[r] EXCEPT !.pc = "merge"]]
  <2>1. PICK state : state = [run[r] EXCEPT !.pc = "merge"]
    OBVIOUS
  <2>2. /\ state.pc = "merge" /\ state.exit = None
        /\ \A f \in {"ranks", "reply", "ops", "shown"} : state[f] = run[r][f]
    BY <1>1, <1>3, <2>1 DEF IdleRun
  <2> QED
    BY <1>4, <1>7, <2>1, <2>2
<1>8. CASE ReadDisk(r)
  <2>1. PICK onDisk : run' = [run EXCEPT ![r].pc = "replace", ![r].saw = onDisk]
    BY <1>8 DEF ReadDisk
  <2>2. PICK state : state = [run[r] EXCEPT !.pc = "replace", !.saw = onDisk]
    OBVIOUS
  <2>3. run' = [run EXCEPT ![r] = state]
    BY <1>1, <2>1, <2>2 DEF MdsInv, RunsOk, RunOk, IdleRun
  <2>4. /\ state.pc = "replace" /\ state.exit = None
        /\ \A f \in {"ranks", "reply", "ops", "shown"} : state[f] = run[r][f]
    BY <1>1, <1>3, <2>2 DEF IdleRun
  <2> QED
    BY <1>4, <2>3, <2>4
<1> QED
  BY <1>6, <1>7, <1>8 DEF Finish, ReplaceFile

\* Every step keeps it.
LEMMA AnswersKept == MdsInv /\ AnswersInv /\ [MdsNext]_mdsVars => AnswersInv'
<1> SUFFICES ASSUME MdsInv, AnswersInv, [MdsNext]_mdsVars PROVE AnswersInv'
  OBVIOUS
<1>1. CASE UNCHANGED mdsVars \/ Tick
  BY <1>1 DEF mdsVars, Tick, AnswersInv
<1>2. ASSUME NEW r \in Run, KillRun(r) PROVE AnswersInv'
  BY <1>2, NoAnswers, AnswerStep DEF KillRun
<1> QED
  BY <1>1, <1>2, StartAnswers, TaskAnswers, GatherAnswers, ShowOpAnswers, FinishAnswers DEF MdsNext

\* What it says of a run that is over.
LEMMA AnswersImply ==
  ASSUME MdsInv, AnswersInv
  PROVE  AnswersShown
<1> SUFFICES ASSUME NEW r \in Run
             PROVE  LET Garbled == \E m \in run[r].ranks : run[r].reply[m].how = "garbled" \/ run[r].task[m] = "garbled"
                        shown == run[r].shown
                        LinesOf(m) == {i \in DOMAIN shown : shown[i].rank = m}
                        Nth(m, i) == Cardinality({j \in LinesOf(m) : j <= i})
                    IN  /\ run[r].exit \in {"shown", "empty"} =>
                             \A m \in run[r].ranks :
                               /\ Cardinality(LinesOf(m)) = Len(run[r].reply[m].ops)
                               /\ \A i \in LinesOf(m) : shown[i].ino = run[r].reply[m].ops[Nth(m, i)].ino
                        /\ run[r].exit = "error" => Garbled \/ \A m \in run[r].ranks : run[r].reply[m].how = "failed"
  BY DEF AnswersShown
<1> DEFINE shown == run[r].shown
           LinesOf(m) == {i \in DOMAIN shown : shown[i].rank = m}
<1>1. AnswerOk(run[r]) /\ shown \in Seq(Range(shown))
  BY DEF AnswersInv, MdsInv, RunsOk, RunOk
<1>2. run[r].exit = "error" => GarbledIn(run[r]) \/ \A m \in run[r].ranks : run[r].reply[m].how = "failed"
  BY <1>1 DEF AnswerOk
<1>3. ASSUME Over(run[r]), NEW m \in run[r].ranks
      PROVE  /\ Cardinality(LinesOf(m)) = Len(run[r].reply[m].ops)
             /\ \A i \in LinesOf(m) :
                  shown[i].ino = run[r].reply[m].ops[Cardinality({j \in LinesOf(m) : j <= i})].ino
  <2>1. PICK S, reply, all : S = run[r].ranks /\ reply = run[r].reply /\ all = OpsOf(reply)
    OBVIOUS
  <2>2. S \subseteq Rank /\ reply \in [S -> DumpAnswers] /\ InStep(run[r], all) /\ run[r].ops = <<>>
    BY <1>1, <1>3, <2>1 DEF AnswerOk
  <2>3. IsFiniteSet(S) /\ S \subseteq Nat
    BY <2>2, MdsTyped, FS_Subset
  <2>4. (\E V : all \in Seq(V)) /\ Len(reply[m].ops) \in Nat /\ HasBlock(all, m, reply[m].ops)
    BY <1>3, <2>1, <2>2, <2>3, OpsAre
  <2>5. PICK ops : ops = reply[m].ops
    OBVIOUS
  <2>12. PICK c \in Nat : c = Len(ops)
    BY <2>4, <2>5
  <2>6. PICK lo \in Nat : IsBlock(all, m, lo, ops)
    BY <2>4, <2>5 DEF HasBlock
  <2>13. PICK n : n = Len(shown)
    OBVIOUS
  <2>7. n \in Nat /\ n = Len(shown) /\ DOMAIN shown = 1 .. n /\ DOMAIN all = 1 .. n
    <3>1. n \in Nat /\ DOMAIN shown = 1 .. n
      BY <1>1, <2>13
    <3>2. Len(run[r].ops) = 0
      BY <2>2
    <3>3. n + Len(run[r].ops) = Len(all)
      BY <2>2, <2>13 DEF InStep
    <3>4. DOMAIN all = 1 .. Len(all)
      BY <2>4
    <3> QED
      BY <2>13, <3>1, <3>2, <3>3, <3>4
  <2>8. \A i \in 1 .. n : shown[i].rank = all[i].rank /\ shown[i].ino = all[i].ino
    BY <2>2, <2>7 DEF InStep
  <2>9. LinesOf(m) = lo + 1 .. lo + c
    BY <2>12, <2>6, <2>7, <2>8 DEF IsBlock
  <2>10. Cardinality(lo + 1 .. lo + c) = c
    BY FS_Interval
  <2>11. ASSUME NEW i \in lo + 1 .. lo + c
         PROVE  shown[i].ino = ops[Cardinality({j \in lo + 1 .. lo + c : j <= i})].ino
    <3>1. {j \in lo + 1 .. lo + c : j <= i} = lo + 1 .. i
      OBVIOUS
    <3>2. Cardinality(lo + 1 .. i) = i - lo
      <4>1. lo + 1 \in Int /\ i \in Int /\ lo + 1 <= i
        OBVIOUS
      <4>2. Cardinality((lo + 1) .. i) = i - (lo + 1) + 1
        BY <4>1, FS_Interval
      <4> QED
        BY <4>1, <4>2
    <3>3. i - lo \in 1 .. c /\ lo + (i - lo) = i
      OBVIOUS
    <3>4. all[lo + (i - lo)].ino = ops[i - lo].ino
      BY <2>12, <2>6, <3>3 DEF IsBlock
    <3>5. i \in 1 .. n
      BY <2>7, <2>9
    <3> QED
      BY <2>8, <3>1, <3>2, <3>3, <3>4, <3>5
  <2> HIDE DEF LinesOf
  <2> QED
    BY <2>1, <2>5, <2>12, <2>9, <2>10, <2>11
<1> QED
  BY <1>2, <1>3 DEF GarbledIn, Over

\* Whatever the other ranks did, each rank that answered is shown with all its operations in
\* their order, and a run ends in error only if none did or some answer was no JSON (main,
\* query_mds_dump).
THEOREM AnswersAreShown == MdsSpec => []AnswersShown
<1>1. MdsInit => AnswersInv
  BY NoAnswers DEF MdsInit, AnswersInv
<1>2. MdsInit => MdsInv /\ AnswersInv
  BY <1>1, MdsInvInit
<1>3. (MdsInv /\ AnswersInv) /\ [MdsNext]_mdsVars => (MdsInv /\ AnswersInv)'
  BY MdsInvNext, AnswersKept
<1>4. MdsInv /\ AnswersInv => AnswersShown
  BY AnswersImply
<1> QED
  BY <1>2, <1>3, <1>4, PTL DEF MdsSpec

-----------------------------------------------------------------------------
(* scan-growing-dirs.                                                       *)

(* The tracked directories are a forest.                                    *)

Fields == {"path", "parent", "depth", "ino", "reason", "idle", "unreadable", "wokeUp", "s1", "s2",
           "error", "vanished", "renamedFrom"}

IsSeq(s) == Len(s) \in Nat /\ s = [i \in 1..Len(s) |-> s[i]]

HasFields(n) == DOMAIN n = Fields

NodeTyped(n) == HasFields(n) /\ n.parent \in Nat /\ n.s1 \in Int /\ n.s2 \in Int

\* A node comes after its parent, which was listed.
Forest(ns) ==
  /\ IsSeq(ns)
  /\ \A i \in 1..Len(ns) : /\ NodeTyped(ns[i])
                           /\ ns[i].parent < i
                           /\ ns[i].parent # 0 => ns[ns[i].parent].reason = ""

Childless(ns, is) == is \subseteq 1..Len(ns) /\ \A j \in 1..Len(ns) : ns[j].parent \notin is

\* While the tree is built, the last level has nothing below it yet, and what is probed was
\* listed.
BuildOK ==
  /\ phase \in {"listing", "probing", "leaves"} =>
       Childless(nodes, level) /\ \A i \in level : nodes[i].path \in Seq(Nat)
  /\ phase = "listing" => \A i \in level : nodes[i].reason = ""
  /\ phase = "probing" =>
       \A i \in level : /\ IsFiniteSet(DOMAIN listing[i])
                        /\ DOMAIN listing[i] # {} => nodes[i].reason = ""
                        /\ \A p \in DOMAIN listing[i] :
                             Last(p) \in Nat /\ p = Append(nodes[i].path, Last(p))

Reported == UNION {Analyzed[i].rows : i \in {j \in Node : nodes[j].parent = 0}}

FsOK == FsTyped(fs) /\ changes \in Seq(Unquiet)

ScanInv ==
  /\ FsOK /\ given \in Arguments
  /\ Forest(nodes) /\ BuildOK
  /\ phase \in {"done", "unsampled", "loaded"} => rows = Reported

-----------------------------------------------------------------------------
(* What the trees's operators compute.                                       *)

LEMMA SeqIs ==
  ASSUME NEW n \in Nat, NEW f, DOMAIN f = 1..n, f = [i \in 1..n |-> f[i]]
  PROVE  IsSeq(f) /\ Len(f) = n
<1>1. f \in Seq({f[i] : i \in 1..n})
  OBVIOUS
<1>2. Len(f) = n
  BY <1>1
<1> QED
  BY <1>2 DEF IsSeq

LEMMA KidsAre ==
  ASSUME Forest(nodes)
  PROVE  /\ Len(nodes) \in Nat /\ Node = 1..Len(nodes) /\ IsFiniteSet(Node)
         /\ \A i \in Node : /\ Kids(i) \in SUBSET Node
                            /\ IsFiniteSet(Kids(i))
                            /\ \A j \in Kids(i) : i < j /\ nodes[j].parent = i
<1>1. Len(nodes) \in Nat /\ Node = 1..Len(nodes)
  BY DEF Forest, IsSeq, Node
<1>2. IsFiniteSet(Node)
  BY <1>1, FS_Interval
<1>3. ASSUME NEW i \in Node
      PROVE  Kids(i) \in SUBSET Node /\ IsFiniteSet(Kids(i)) /\ \A j \in Kids(i) : i < j /\ nodes[j].parent = i
  <2>1. Kids(i) \in SUBSET Node /\ \A j \in Kids(i) : nodes[j].parent = i
    BY DEF Kids
  <2>2. ASSUME NEW j \in Kids(i) PROVE i < j
    BY <1>1, <2>1, <2>2 DEF Forest
  <2>3. IsFiniteSet(Kids(i))
    BY <1>2, <2>1, FS_Subset
  <2> QED
    BY <2>1, <2>2, <2>3
<1> QED
  BY <1>1, <1>2, <1>3

LEMMA RatesTyped ==
  ASSUME Forest(nodes), NEW i \in Node
  PROVE  Rate(i) \in Int
<1>1. NodeTyped(nodes[i])
  BY KidsAre DEF Forest
<1> QED
  BY <1>1 DEF NodeTyped, Rate

LEMMA MeasuredIs ==
  ASSUME Forest(nodes)
  PROVE  /\ Measured \in [Node -> Int]
         /\ \A i \in Node :
              Measured[i] = IF IsSampled(i) THEN Rate(i) ELSE SumFunctionOnSet(Measured, Kids(i))
<1>1. PICK N, K : N = Len(nodes) /\ K = [i \in Node |-> Kids(i)]
  OBVIOUS
<1>2. N \in Nat /\ Node = 1..N /\ K \in [1..N -> SUBSET (1..N)] /\ \A i \in 1..N : \A j \in K[i] : i < j
  BY <1>1, KidsAre
<1>3. \A i \in Node : K[i] = Kids(i) /\ IsFiniteSet(Kids(i))
  BY <1>1, KidsAre
<1> DEFINE Value(i, g) == IF IsSampled(i) THEN Rate(i) ELSE SumFunction(g)
           H == [x \in UNION {{i} \X [K[i] -> Int] : i \in Node} |-> Value(x[1], x[2])]
<1>4. ASSUME NEW i \in Node, NEW g \in [K[i] -> Int]
      PROVE  H[<<i, g>>] = Value(i, g) /\ Value(i, g) \in Int
  <2>1. <<i, g>> \in {i} \X [K[i] -> Int]
    OBVIOUS
  <2>2. <<i, g>> \in UNION {{k} \X [K[k] -> Int] : k \in Node}
    BY <2>1
  <2>3. H[<<i, g>>] = Value(i, g)
    BY <2>2, Zenon
  <2>4. SumFunction(g) \in Int
    <3>1. IsFiniteSet(K[i]) /\ DOMAIN g = K[i] /\ \A k \in K[i] : g[k] \in Int
      BY <1>3
    <3> QED
      BY <3>1, SumInt DEF SumFunction
  <2> QED
    BY <2>3, <2>4, RatesTyped
<1>5. PICK f \in [1..N -> Int] : \A i \in 1..N : f[i] = H[<<i, [j \in K[i] |-> f[j]]>>]
  <2> HIDE DEF H
  <2>1. RightBelow(K, N)
    BY <1>2 DEF RightBelow
  <2>2. Computes(H, K, N, Int)
    BY <1>2, <1>4 DEF Computes
  <2>3. PICK f : Solves(f, H, K, N, Int)
    BY <1>2, <2>1, <2>2, Backward
  <2> QED
    BY <2>3 DEF Solves
<1>6. f = [i \in Node |-> IF IsSampled(i) THEN Rate(i) ELSE SumFunction([j \in Kids(i) |-> f[j]])]
  <2>1. ASSUME NEW i \in Node PROVE f[i] = Value(i, [j \in Kids(i) |-> f[j]])
    <3>1. [j \in K[i] |-> f[j]] \in [K[i] -> Int]
      BY <1>2, <1>5
    <3> HIDE DEF H, Value
    <3> QED
      BY <1>2, <1>3, <1>4, <1>5, <3>1
  <2> QED
    BY <1>2, <1>5, <2>1
<1>7. Measured = [i \in Node |-> IF IsSampled(i) THEN Rate(i) ELSE SumFunction([j \in Kids(i) |-> Measured[j]])]
  BY <1>6 DEF Measured
<1>8. \A i \in Node : Measured[i] \in Int
  <2> DEFINE F == {i \in Node : Measured[i] \in Int}
  <2>1. ASSUME NEW i \in 1..N, \A j \in (i + 1)..N : j \in F PROVE i \in F
    <3>1. \A j \in K[i] : Measured[j] \in Int
      BY <1>2, <2>1
    <3>2. [j \in K[i] |-> Measured[j]] \in [K[i] -> Int]
      BY <3>1
    <3>3. Value(i, [j \in K[i] |-> Measured[j]]) \in Int
      <4> HIDE DEF H, Value
      <4> QED
        BY <1>2, <1>4, <3>2
    <3> QED
      BY <1>2, <1>3, <1>7, <3>3
  <2> HIDE DEF F
  <2>2. \A i \in 1..N : i \in F
    BY <1>2, <2>1, DownFrom
  <2> QED
    BY <1>2, <2>2 DEF F
<1>9. ASSUME NEW i \in Node
      PROVE  SumFunction([j \in Kids(i) |-> Measured[j]]) = SumFunctionOnSet(Measured, Kids(i))
  <2>1. IsFiniteSet(Kids(i)) /\ Kids(i) \subseteq Node
    BY KidsAre
  <2>2. PICK g : g = [j \in Kids(i) |-> Measured[j]]
    OBVIOUS
  <2>3. \A j \in Kids(i) : g[j] \in Int /\ g[j] = Measured[j]
    BY <1>8, <2>1, <2>2
  <2>4. SumFunctionOnSet(g, Kids(i)) = SumFunctionOnSet(Measured, Kids(i))
    BY <2>1, <2>3, SumAgrees
  <2> QED
    BY <2>2, <2>4 DEF SumFunction
<1> QED
  BY <1>7, <1>8, <1>9
-----------------------------------------------------------------------------
(* The rows of one node.                                                    *)

Absorbed == UNION {Unmeasured(i) : i \in Node}

Rows == [node : Node, kind : {"tree", "files", "spread"}, rate : Int, behind : SUBSET Absorbed]

Knowledge == [rows : SUBSET Rows, covered : Int, behind : SUBSET Absorbed]

RateOf == [r \in Rows |-> r.rate]

RowsOf(i, some) == some \in SUBSET Rows /\ IsFiniteSet(some) /\ \A r \in some : r.node = i /\ r.rate >= Threshold

LEMMA OwnRateIs ==
  ASSUME Forest(nodes), NEW i \in Node
  PROVE  /\ SumFunctionOnSet(Measured, Kids(i)) \in Int
         /\ OwnRate(i) = Rate(i) - SumFunctionOnSet(Measured, Kids(i))
         /\ OwnRate(i) \in Int
<1>1. IsFiniteSet(Kids(i)) /\ Kids(i) \subseteq Node
  BY KidsAre
<1>2. PICK g : g = [j \in Kids(i) |-> Measured[j]]
  OBVIOUS
<1>3. \A j \in Kids(i) : g[j] \in Int /\ g[j] = Measured[j]
  BY <1>1, <1>2, MeasuredIs
<1>4. SumFunctionOnSet(g, Kids(i)) = SumFunctionOnSet(Measured, Kids(i)) /\ SumFunctionOnSet(g, Kids(i)) \in Int
  BY <1>1, <1>3, SumAgrees, SumInt
<1>5. SumFunction([j \in Kids(i) |-> Measured[j]]) = SumFunctionOnSet(Measured, Kids(i))
  BY <1>2, <1>4 DEF SumFunction
<1>6. Rate(i) \in Int
  BY RatesTyped
<1> QED
  BY <1>4, <1>5, <1>6 DEF OwnRate

LEMMA RatesOfIs ==
  ASSUME NEW some \in SUBSET Rows, IsFiniteSet(some)
  PROVE  RatesOf(some) = SumFunctionOnSet(RateOf, some) /\ RatesOf(some) \in Int
<1>1. PICK g : g = [r \in some |-> r.rate]
  OBVIOUS
<1>2. \A r \in some : g[r] \in Int /\ g[r] = RateOf[r]
  BY <1>1 DEF RateOf, Rows
<1>3. SumFunctionOnSet(g, some) = SumFunctionOnSet(RateOf, some) /\ SumFunctionOnSet(g, some) \in Int
  BY <1>2, SumAgrees, SumInt
<1>4. RatesOf(some) = SumFunctionOnSet(g, some)
  BY <1>1 DEF RatesOf, SumFunction
<1> QED
  BY <1>3, <1>4

LEMMA AtLeastIs ==
  ASSUME NEW i \in Node, NEW kind \in {"tree", "files", "spread"}, NEW rate \in Int,
         NEW b \in SUBSET Absorbed, NEW s, s = AtLeast(Row(i, kind, rate, b))
  PROVE  /\ RowsOf(i, s) /\ \A r \in s : r.kind = kind
         /\ s = {} <=> rate < Threshold
         /\ RatesOf(s) = IF s = {} THEN 0 ELSE rate
<1>1. PICK r : r = Row(i, kind, rate, b)
  OBVIOUS
<1>2. r \in Rows /\ r.node = i /\ r.kind = kind /\ r.rate = rate
  BY <1>1 DEF Row, Rows
<1>3. s = IF rate >= Threshold THEN {r} ELSE {}
  BY <1>1, <1>2 DEF AtLeast
<1>4. Threshold \in Nat
  BY ScanTyped
<1>5. RowsOf(i, s) /\ \A x \in s : x.kind = kind
  <2>1. CASE rate >= Threshold
    BY <1>2, <1>3, <2>1, FS_Singleton DEF RowsOf
  <2>2. CASE ~ (rate >= Threshold)
    BY <1>3, <2>2, FS_EmptySet DEF RowsOf
  <2> QED
    BY <2>1, <2>2
<1>6. s = {} <=> rate < Threshold
  BY <1>3, <1>4
<1>7. RatesOf(s) = SumFunctionOnSet(RateOf, s)
  BY <1>5, RatesOfIs DEF RowsOf
<1>8. s # {} => SumFunctionOnSet(RateOf, s) = rate
  <2>1. RateOf[r] = rate
    BY <1>2 DEF RateOf
  <2>2. SumFunctionOnSet(RateOf, {r}) = rate
    BY <2>1, SumOne
  <2> QED
    BY <1>3, <2>2
<1>9. s = {} => SumFunctionOnSet(RateOf, s) = 0
  BY SumEmpty
<1> QED
  BY <1>5, <1>6, <1>7, <1>8, <1>9

\* No growth of the threshold or more is left.
NoneHidden(i, c, r) == IsSampled(i) /\ c >= 0 => Rate(i) - r.covered < Threshold

\* If nothing shrank, no more is covered than there was.
NoneTwice(i, c, r) ==
  /\ c <= SumFunctionOnSet(Measured, Kids(i))
  /\ IsSampled(i) => PartRate(i) >= 0
  /\ nodes[i].reason # "" => Kids(i) = {}
  => r.covered <= Measured[i]

\* What a node adds to the rows below it, of which g is known.
Adds(i, g, c, r, new) ==
  /\ r \in Knowledge
  /\ RowsOf(i, new)
  /\ r.rows = (UNION {g[j].rows : j \in Kids(i)}) \union new
  /\ r.covered = c + RatesOf(new)
  /\ NoneHidden(i, c, r)
  /\ NoneTwice(i, c, r)

LEMMA AnalysisAdds ==
  ASSUME Forest(nodes), NEW i \in Node, NEW g \in [Kids(i) -> Knowledge],
         NEW c, c = CoveredBelow(g)
  PROVE  c \in Int /\ \E new : Adds(i, g, c, Analysis(i, g), new)
<1> DEFINE kidRows == UNION {g[j].rows : j \in Kids(i)}
           kidBehind == UNION {g[j].behind : j \in Kids(i)}
<1>1. IsFiniteSet(Kids(i)) /\ Kids(i) \subseteq Node /\ DOMAIN g = Kids(i)
  BY KidsAre
<1>2. \A j \in Kids(i) : g[j].rows \in SUBSET Rows /\ g[j].behind \in SUBSET Absorbed /\ g[j].covered \in Int
  BY DEF Knowledge
<1>3. c \in Int /\ (Kids(i) = {} => c = 0)
  <2>1. PICK h : h = [j \in Kids(i) |-> g[j].covered]
    OBVIOUS
  <2>2. c = SumFunctionOnSet(h, Kids(i))
    BY <1>1, <2>1 DEF CoveredBelow, SumFunction
  <2>3. \A j \in Kids(i) : h[j] \in Int
    BY <1>2, <2>1
  <2> QED
    BY <1>1, <2>2, <2>3, SumInt, SumEmpty
<1>4. kidRows \in SUBSET Rows /\ kidBehind \in SUBSET Absorbed /\ Unmeasured(i) \in SUBSET Absorbed
  BY <1>2 DEF Absorbed
<1>5. PICK m \in Int, rate \in Int, own \in Int :
        /\ m = SumFunctionOnSet(Measured, Kids(i)) /\ rate = Rate(i) /\ own = OwnRate(i)
        /\ own = rate - m
  BY OwnRateIs, RatesTyped
<1>6. (Kids(i) = {} => m = 0) /\ (IsSampled(i) => Measured[i] = rate) /\ (~ IsSampled(i) => Measured[i] = m)
  BY <1>5, SumEmpty, MeasuredIs
<1>7. PICK trees, files, spread, covered, behind :
        /\ trees = AtLeast(Row(i, "tree", rate, {}))
        /\ files = AtLeast(Row(i, "files", own, Unmeasured(i)))
        /\ covered = c + RatesOf(files)
        /\ behind = kidBehind \union (IF files = {} THEN Unmeasured(i) ELSE {})
        /\ spread = IF Kids(i) = {} THEN {} ELSE AtLeast(Row(i, "spread", rate - covered, behind))
  OBVIOUS
<1>8. Threshold \in Nat /\ Threshold > 0
  BY ScanTyped
<1>9. PICK below : below = [rows |-> kidRows, covered |-> c, behind |-> kidBehind]
  OBVIOUS
<1>10. Analysis(i, g) =
         IF ~ IsSampled(i) THEN below
         ELSE IF nodes[i].reason # ""
         THEN [below EXCEPT !.rows = @ \union trees, !.covered = @ + RatesOf(trees)]
         ELSE [rows |-> kidRows \union files \union spread,
               covered |-> IF spread = {} THEN covered ELSE rate,
               behind |-> IF spread = {} THEN behind ELSE {}]
  BY <1>1, <1>5, <1>7, <1>9, Zenon DEF Analysis
<1> HIDE DEF kidRows, kidBehind
<1>11. CASE ~ IsSampled(i)
  <2>1. Analysis(i, g) = below
    BY <1>10, <1>11
  <2>2. RowsOf(i, {}) /\ RatesOf({}) = 0
    BY RatesOfIs, SumEmpty, FS_EmptySet DEF RowsOf
  <2>3. Adds(i, g, c, below, {})
    <3>1. below \in Knowledge /\ below.rows = kidRows /\ below.covered = c
      BY <1>3, <1>4, <1>9 DEF Knowledge
    <3>2. NoneHidden(i, c, below)
      BY <1>11 DEF NoneHidden
    <3>3. NoneTwice(i, c, below)
      <4>1. c <= m => below.covered <= Measured[i]
        BY <1>6, <1>11, <3>1
      <4> QED
        BY <1>5, <4>1 DEF NoneTwice
    <3>4. below.rows = (UNION {g[j].rows : j \in Kids(i)}) \union {}
      BY <3>1 DEF kidRows
    <3>5. below.covered = c + RatesOf({})
      BY <1>3, <2>2, <3>1
    <3> QED
      BY <2>2, <3>1, <3>2, <3>3, <3>4, <3>5 DEF Adds
  <2> QED
    BY <1>3, <2>1, <2>3
<1>12. CASE IsSampled(i) /\ nodes[i].reason # ""
  <2>1. PICK r : r = [rows |-> kidRows \union trees, covered |-> c + RatesOf(trees), behind |-> kidBehind]
    OBVIOUS
  <2>2. Analysis(i, g) = r
    BY <1>9, <1>10, <1>12, <2>1
  <2>3. RowsOf(i, trees) /\ (trees = {} <=> rate < Threshold) /\ RatesOf(trees) = IF trees = {} THEN 0 ELSE rate
    BY <1>7, AtLeastIs
  <2>4. r \in Knowledge /\ r.rows = kidRows \union trees /\ r.covered = c + RatesOf(trees)
    BY <1>3, <1>4, <2>1, <2>3 DEF Knowledge, RowsOf
  <2>5. r.covered = c + (IF trees = {} THEN 0 ELSE rate)
    BY <2>3, <2>4
  <2>6. c >= 0 => rate - r.covered < Threshold
    BY <1>3, <1>8, <2>3, <2>5
  <2>7. PartRate(i) = rate
    BY <1>5, <1>12 DEF PartRate, HasOwn
  <2>8. NoneHidden(i, c, r)
    BY <1>5, <2>6 DEF NoneHidden
  <2>9. rate >= 0 /\ Kids(i) = {} => r.covered <= rate
    BY <1>3, <2>5
  <2>10. NoneTwice(i, c, r)
    <3>1. Measured[i] = rate
      BY <1>6, <1>12
    <3> QED
      BY <1>12, <2>7, <2>9, <3>1 DEF NoneTwice
  <2>11. r.rows = (UNION {g[j].rows : j \in Kids(i)}) \union trees
    BY <2>4 DEF kidRows
  <2>12. Adds(i, g, c, r, trees)
    BY <2>3, <2>4, <2>8, <2>10, <2>11 DEF Adds
  <2> QED
    BY <1>3, <2>2, <2>12
<1>13. CASE IsSampled(i) /\ nodes[i].reason = ""
  <2>1. PICK r : r = [rows |-> kidRows \union files \union spread,
                      covered |-> IF spread = {} THEN covered ELSE rate,
                      behind |-> IF spread = {} THEN behind ELSE {}]
    OBVIOUS
  <2>2. Analysis(i, g) = r
    BY <1>10, <1>13, <2>1
  <2>3. /\ RowsOf(i, files) /\ (\A x \in files : x.kind = "files")
        /\ (files = {} <=> own < Threshold) /\ RatesOf(files) = IF files = {} THEN 0 ELSE own
    BY <1>4, <1>7, AtLeastIs
  <2>4. covered \in Int /\ covered = c + (IF files = {} THEN 0 ELSE own)
    BY <1>3, <1>7, <2>3
  <2>5. behind \in SUBSET Absorbed
    BY <1>4, <1>7
  <2>6. /\ RowsOf(i, spread) /\ (\A x \in spread : x.kind = "spread")
        /\ (Kids(i) # {} => (spread = {} <=> rate - covered < Threshold))
        /\ (Kids(i) = {} => spread = {})
        /\ RatesOf(spread) = IF spread = {} THEN 0 ELSE rate - covered
    <3>1. CASE Kids(i) = {}
      <4>1. spread = {}
        BY <1>7, <3>1
      <4> QED
        BY <3>1, <4>1, RatesOfIs, SumEmpty, FS_EmptySet DEF RowsOf
    <3>2. CASE Kids(i) # {}
      <4>1. spread = AtLeast(Row(i, "spread", rate - covered, behind)) /\ rate - covered \in Int
        BY <1>7, <2>4, <3>2
      <4> QED
        BY <2>5, <3>2, <4>1, AtLeastIs
    <3> QED
      BY <3>1, <3>2
  <2>7. RowsOf(i, files \union spread) /\ RatesOf(files \union spread) = RatesOf(files) + RatesOf(spread)
    <3>1. RowsOf(i, files \union spread)
      BY <2>3, <2>6, FS_Union DEF RowsOf
    <3>2. files \intersect spread = {}
      BY <2>3, <2>6
    <3>3. \A x \in files \union spread : RateOf[x] \in Int
      BY <3>1 DEF RateOf, RowsOf, Rows
    <3>4. SumFunctionOnSet(RateOf, files \union spread)
            = SumFunctionOnSet(RateOf, files) + SumFunctionOnSet(RateOf, spread)
      BY <2>3, <2>6, <3>2, <3>3, SumDisjoint DEF RowsOf
    <3> QED
      BY <2>3, <2>6, <3>1, <3>4, RatesOfIs DEF RowsOf
  <2>8. r.covered = c + RatesOf(files \union spread)
    BY <1>3, <2>1, <2>3, <2>4, <2>6, <2>7
  <2>9. r \in Knowledge /\ r.rows = kidRows \union (files \union spread)
    <3>1. files \in SUBSET Rows /\ spread \in SUBSET Rows
      BY <2>3, <2>6 DEF RowsOf
    <3> QED
      BY <1>4, <2>1, <2>4, <2>5, <3>1 DEF Knowledge
  <2>10. r.covered = IF spread = {} THEN covered ELSE rate
    BY <2>1
  <2>11. rate - r.covered < Threshold
    <3>1. CASE spread # {}
      BY <1>8, <2>10, <3>1
    <3>2. CASE spread = {} /\ Kids(i) # {}
      BY <2>6, <2>10, <3>2
    <3>3. CASE spread = {} /\ Kids(i) = {}
      <4>1. c = 0 /\ m = 0 /\ own = rate
        BY <1>3, <1>5, <1>6, <3>3
      <4>2. covered = (IF files = {} THEN 0 ELSE rate) /\ r.covered = covered
        BY <2>4, <2>10, <3>3, <4>1
      <4>3. files = {} => rate < Threshold
        BY <2>3, <4>1
      <4> QED
        BY <1>8, <4>2, <4>3
    <3> QED
      BY <3>1, <3>2, <3>3
  <2>12. NoneHidden(i, c, r)
    BY <1>5, <2>11 DEF NoneHidden
  <2>13. PartRate(i) = own
    BY <1>5, <1>13 DEF PartRate, HasOwn
  <2>14. c <= m /\ own >= 0 => r.covered <= rate
    BY <1>3, <1>5, <2>4, <2>10
  <2>15. NoneTwice(i, c, r)
    <3>1. Measured[i] = rate
      BY <1>6, <1>13
    <3> QED
      BY <1>5, <1>13, <2>13, <2>14, <3>1 DEF NoneTwice
  <2>16. r.rows = (UNION {g[j].rows : j \in Kids(i)}) \union (files \union spread)
    BY <2>9 DEF kidRows
  <2>17. Adds(i, g, c, r, files \union spread)
    BY <2>7, <2>8, <2>9, <2>12, <2>15, <2>16 DEF Adds
  <2> QED
    BY <1>3, <2>2, <2>17
<1> QED
  BY <1>11, <1>12, <1>13
-----------------------------------------------------------------------------
(* The rows of a subtree.                                                   *)

Covered == [i \in Node |-> Analyzed[i].covered]

LEMMA AnalyzedIs ==
  ASSUME Forest(nodes)
  PROVE  /\ Analyzed \in [Node -> Knowledge]
         /\ Analyzed = [i \in Node |-> Analysis(i, [j \in Kids(i) |-> Analyzed[j]])]
<1>1. PICK N, K : N = Len(nodes) /\ K = [i \in Node |-> Kids(i)]
  OBVIOUS
<1>2. N \in Nat /\ Node = 1..N /\ K \in [1..N -> SUBSET (1..N)] /\ \A i \in 1..N : \A j \in K[i] : i < j
  BY <1>1, KidsAre
<1>3. \A i \in Node : K[i] = Kids(i)
  BY <1>1
<1> DEFINE H == [x \in UNION {{i} \X [K[i] -> Knowledge] : i \in Node} |-> Analysis(x[1], x[2])]
<1>4. ASSUME NEW i \in Node, NEW g \in [K[i] -> Knowledge]
      PROVE  H[<<i, g>>] = Analysis(i, g) /\ Analysis(i, g) \in Knowledge
  <2>1. <<i, g>> \in {i} \X [K[i] -> Knowledge]
    OBVIOUS
  <2>2. <<i, g>> \in UNION {{k} \X [K[k] -> Knowledge] : k \in Node}
    BY <2>1
  <2>3. H[<<i, g>>] = Analysis(i, g)
    BY <2>2, Zenon
  <2>4. g \in [Kids(i) -> Knowledge]
    BY <1>3
  <2>5. \E new : Adds(i, g, CoveredBelow(g), Analysis(i, g), new)
    BY <2>4, AnalysisAdds
  <2> HIDE DEF H
  <2> QED
    BY <2>3, <2>5 DEF Adds
<1>5. PICK f \in [1..N -> Knowledge] : \A i \in 1..N : f[i] = H[<<i, [j \in K[i] |-> f[j]]>>]
  <2> HIDE DEF H
  <2>1. RightBelow(K, N)
    BY <1>2 DEF RightBelow
  <2>2. Computes(H, K, N, Knowledge)
    BY <1>2, <1>4 DEF Computes
  <2>3. PICK f : Solves(f, H, K, N, Knowledge)
    BY <1>2, <2>1, <2>2, Backward
  <2> QED
    BY <2>3 DEF Solves
<1>6. f = [i \in Node |-> Analysis(i, [j \in Kids(i) |-> f[j]])]
  <2>1. ASSUME NEW i \in Node PROVE f[i] = Analysis(i, [j \in Kids(i) |-> f[j]])
    <3>1. [j \in K[i] |-> f[j]] \in [K[i] -> Knowledge]
      BY <1>2, <1>5
    <3> HIDE DEF H
    <3> QED
      BY <1>2, <1>3, <1>4, <1>5, <3>1
  <2> QED
    BY <1>2, <1>5, <2>1
<1>7. Analyzed = [i \in Node |-> Analysis(i, [j \in Kids(i) |-> Analyzed[j]])]
  BY <1>6 DEF Analyzed
<1>8. \A i \in Node : Analyzed[i] \in Knowledge
  <2> DEFINE F == {i \in Node : Analyzed[i] \in Knowledge}
  <2>1. ASSUME NEW i \in 1..N, \A j \in (i + 1)..N : j \in F PROVE i \in F
    <3>1. \A j \in K[i] : Analyzed[j] \in Knowledge
      BY <1>2, <2>1
    <3>2. [j \in K[i] |-> Analyzed[j]] \in [K[i] -> Knowledge]
      BY <3>1
    <3>3. Analysis(i, [j \in K[i] |-> Analyzed[j]]) \in Knowledge
      <4> HIDE DEF H
      <4> QED
        BY <1>2, <1>4, <3>2
    <3> QED
      BY <1>2, <1>3, <1>7, <3>3
  <2> HIDE DEF F
  <2>2. \A i \in 1..N : i \in F
    BY <1>2, <2>1, DownFrom
  <2> QED
    BY <1>2, <2>2 DEF F
<1> QED
  BY <1>7, <1>8

LEMMA NodeAdds ==
  ASSUME Forest(nodes), NEW i \in Node
  PROVE  /\ Covered \in [Node -> Int] /\ SumFunctionOnSet(Covered, Kids(i)) \in Int
         /\ \E new : Adds(i, Analyzed, SumFunctionOnSet(Covered, Kids(i)), Analyzed[i], new)
<1>1. PICK g : g = [j \in Kids(i) |-> Analyzed[j]]
  OBVIOUS
<1>2. IsFiniteSet(Kids(i)) /\ Kids(i) \subseteq Node
  BY KidsAre
<1>3. g \in [Kids(i) -> Knowledge] /\ Analyzed[i] = Analysis(i, g) /\ \A j \in Kids(i) : g[j] = Analyzed[j]
  BY <1>1, <1>2, AnalyzedIs
<1>4. Covered \in [Node -> Int]
  BY AnalyzedIs DEF Covered, Knowledge
<1>5. CoveredBelow(g) = SumFunctionOnSet(Covered, Kids(i)) /\ SumFunctionOnSet(Covered, Kids(i)) \in Int
  <2>1. PICK h : h = [j \in Kids(i) |-> g[j].covered]
    OBVIOUS
  <2>2. \A j \in Kids(i) : Covered[j] \in Int /\ Covered[j] = h[j]
    BY <1>2, <1>3, <1>4, <2>1 DEF Covered
  <2>3. SumFunctionOnSet(Covered, Kids(i)) = SumFunctionOnSet(h, Kids(i)) /\ SumFunctionOnSet(Covered, Kids(i)) \in Int
    BY <1>2, <2>2, SumAgrees, SumInt
  <2>4. DOMAIN g = Kids(i)
    BY <1>3
  <2>5. CoveredBelow(g) = SumFunctionOnSet(h, Kids(i))
    BY <2>1, <2>4 DEF CoveredBelow, SumFunction
  <2> QED
    BY <2>3, <2>5
<1>6. PICK new : Adds(i, g, CoveredBelow(g), Analysis(i, g), new)
  BY <1>3, AnalysisAdds
<1>7. {g[j].rows : j \in Kids(i)} = {Analyzed[j].rows : j \in Kids(i)}
  BY <1>3
<1>8. Adds(i, Analyzed, SumFunctionOnSet(Covered, Kids(i)), Analyzed[i], new)
  BY <1>3, <1>5, <1>6, <1>7 DEF Adds
<1> QED
  BY <1>4, <1>5, <1>8

\* The subtrees.
LEMMA SubtreeIs ==
  ASSUME Forest(nodes)
  PROVE  /\ \A i \in Node : /\ Subtree(i) \in SUBSET Node
                            /\ Subtree(i) = {i} \union (UNION {Subtree(j) : j \in Kids(i)})
         /\ \A i \in Node : \A x \in Subtree(i) : i <= x /\ (x = i \/ nodes[x].parent \in Subtree(i))
<1>1. PICK N, K : N = Len(nodes) /\ K = [i \in Node |-> Kids(i)]
  OBVIOUS
<1>2. N \in Nat /\ Node = 1..N /\ K \in [1..N -> SUBSET (1..N)] /\ \A i \in 1..N : \A j \in K[i] : i < j
  BY <1>1, KidsAre
<1>3. \A i \in Node : K[i] = Kids(i)
  BY <1>1
<1>4. PICK V : V = SUBSET Node
  OBVIOUS
<1> DEFINE H == [x \in UNION {{i} \X [K[i] -> V] : i \in Node} |->
                   {x[1]} \union (UNION {x[2][j] : j \in K[x[1]]})]
<1>5. ASSUME NEW i \in Node, NEW g \in [K[i] -> V]
      PROVE  H[<<i, g>>] = {i} \union (UNION {g[j] : j \in K[i]}) /\ H[<<i, g>>] \in V
  <2>1. <<i, g>> \in {i} \X [K[i] -> V]
    OBVIOUS
  <2>2. <<i, g>> \in UNION {{k} \X [K[k] -> V] : k \in Node}
    BY <2>1
  <2>3. H[<<i, g>>] = {i} \union (UNION {g[j] : j \in K[i]})
    BY <2>2, Zenon
  <2>4. {i} \union (UNION {g[j] : j \in K[i]}) \in V
    BY <1>4
  <2> HIDE DEF H
  <2> QED
    BY <2>3, <2>4
<1>6. PICK f \in [1..N -> V] : \A i \in 1..N : f[i] = H[<<i, [j \in K[i] |-> f[j]]>>]
  <2> HIDE DEF H
  <2>1. RightBelow(K, N)
    BY <1>2 DEF RightBelow
  <2>2. Computes(H, K, N, V)
    <3>1. ASSUME NEW i \in 1..N, NEW g \in [K[i] -> V] PROVE H[<<i, g>>] \in V
      <4>1. i \in Node
        BY <1>2
      <4> QED
        BY <1>5, <4>1, Zenon
    <3> QED
      BY <3>1, Zenon DEF Computes
  <2>3. PICK f : Solves(f, H, K, N, V)
    BY <1>2, <2>1, <2>2, Backward
  <2> QED
    BY <2>3 DEF Solves
<1>7. f = [i \in Node |-> {i} \union (UNION {f[j] : j \in Kids(i)})]
  <2>1. ASSUME NEW i \in Node PROVE f[i] = {i} \union (UNION {f[j] : j \in Kids(i)})
    <3>1. PICK g : g = [j \in K[i] |-> f[j]]
      OBVIOUS
    <3>2. g \in [K[i] -> V] /\ \A j \in K[i] : g[j] = f[j]
      BY <1>2, <1>6, <3>1
    <3>3. {g[j] : j \in K[i]} = {f[j] : j \in Kids(i)}
      BY <1>3, <3>2
    <3> HIDE DEF H
    <3> QED
      BY <1>2, <1>5, <1>6, <3>1, <3>2, <3>3
  <2> QED
    BY <1>2, <1>6, <2>1
<1>8. PICK sub : /\ sub = [i \in Node |-> {i} \union (UNION {sub[j] : j \in Kids(i)})]
                 /\ \A i \in Node : Subtree(i) = sub[i]
  <2> DEFINE Eq(trees) == trees = [k \in Node |-> {k} \union (UNION {trees[j] : j \in Kids(k)})]
             sub == CHOOSE trees : Eq(trees)
  <2>1. Eq(sub)
    <3>1. Eq(f)
      BY <1>7
    <3> HIDE DEF Eq
    <3> QED
      BY <3>1
  <2>2. \A i \in Node : Subtree(i) = sub[i]
    BY Zenon DEF Subtree
  <2> HIDE DEF sub
  <2> QED
    BY <2>1, <2>2
<1>9. ASSUME NEW i \in Node
      PROVE  Subtree(i) = {i} \union (UNION {Subtree(j) : j \in Kids(i)})
  <2>1. \A j \in Kids(i) : Subtree(j) = sub[j]
    BY <1>8, KidsAre
  <2>2. {Subtree(j) : j \in Kids(i)} = {sub[j] : j \in Kids(i)}
    BY <2>1
  <2> QED
    BY <1>8, <2>2
<1> DEFINE Good(i) == /\ Subtree(i) \in SUBSET Node
                      /\ \A x \in Subtree(i) : i <= x /\ (x = i \/ nodes[x].parent \in Subtree(i))
           F == {i \in Node : Good(i)}
<1>10. ASSUME NEW i \in 1..N, \A j \in (i + 1)..N : j \in F PROVE i \in F
  <2>1. \A j \in Kids(i) : Good(j) /\ i < j /\ nodes[j].parent = i /\ j \in Int /\ j \in Node
    BY <1>2, <1>3, <1>10, KidsAre
  <2>2. i \in Node /\ i \in Subtree(i) /\ i \in Int
    BY <1>2, <1>9
  <2>3. ASSUME NEW x \in Subtree(i) PROVE x \in Node /\ i <= x /\ (x = i \/ nodes[x].parent \in Subtree(i))
    <3>1. CASE x = i
      BY <2>2, <3>1
    <3>2. CASE x # i
      <4>1. PICK j \in Kids(i) : x \in Subtree(j)
        BY <1>9, <2>2, <3>2
      <4>2. x \in Node /\ x \in Int /\ j <= x /\ (x = j \/ nodes[x].parent \in Subtree(j))
        BY <1>2, <2>1, <4>1
      <4>3. i <= x
        BY <2>1, <2>2, <4>2
      <4>4. \A y \in Subtree(j) : y \in Subtree(i)
        BY <1>9, <2>2
      <4> QED
        BY <2>1, <2>2, <4>2, <4>3, <4>4
    <3> QED
      BY <3>1, <3>2
  <2> QED
    BY <2>2, <2>3
<1> HIDE DEF F
<1>11. \A i \in 1..N : i \in F
  BY <1>2, <1>10, DownFrom
<1> QED
  BY <1>2, <1>9, <1>11 DEF F

\* Two subdirs of a directory have nothing in common.
LEMMA SubtreesApart ==
  ASSUME Forest(nodes), NEW i \in Node
  PROVE  /\ \A j, k \in Kids(i) : j # k => Subtree(j) \intersect Subtree(k) = {}
         /\ \A j \in Kids(i) : i \notin Subtree(j)
<1>1. PICK N : N = Len(nodes)
  OBVIOUS
<1>2. N \in Nat /\ Node = 1..N /\ \A j \in Kids(i) : j \in Node /\ i < j /\ nodes[j].parent = i
  BY <1>1, KidsAre
<1>3. \A x \in Node : nodes[x].parent \in Nat /\ nodes[x].parent < x
  <2>1. \A x \in Node : nodes[x].parent < x
    BY KidsAre DEF Forest
  <2>2. \A x \in Node : NodeTyped(nodes[x])
    BY KidsAre DEF Forest
  <2> QED
    BY <2>1, <2>2 DEF NodeTyped
<1>4. \A j \in Kids(i) : \A x \in Subtree(j) : x \in Node /\ j <= x /\ (x = j \/ nodes[x].parent \in Subtree(j))
  BY <1>2, SubtreeIs
<1>5. \A j \in Kids(i) : i \notin Subtree(j)
  BY <1>2, <1>4
<1> DEFINE Common(x) == \E j, k \in Kids(i) : j # k /\ x \in Subtree(j) /\ x \in Subtree(k)
           F == {n \in 0..N : \A x \in 1..n : ~ Common(x)}
<1>6. 0 \in F
  BY <1>2
<1>7. ASSUME NEW n \in 0..(N - 1), n \in F PROVE n + 1 \in F
  <2>1. ASSUME Common(n + 1) PROVE FALSE
    <3>1. PICK j \in Kids(i), k \in Kids(i) : j # k /\ n + 1 \in Subtree(j) /\ n + 1 \in Subtree(k)
      BY <2>1
    <3>2. n + 1 # j
      BY <1>2, <1>4, <1>5, <3>1
    <3>3. n + 1 # k
      BY <1>2, <1>4, <1>5, <3>1
    <3>4. PICK x : x = nodes[n + 1].parent
      OBVIOUS
    <3>5. x \in Subtree(j) /\ x \in Subtree(k)
      BY <1>4, <3>1, <3>2, <3>3, <3>4
    <3>6. x \in Node /\ x < n + 1 /\ x \in Nat /\ n + 1 \in Node
      BY <1>3, <1>4, <3>1, <3>4, <3>5
    <3>7. x \in 1..n
      BY <1>2, <3>6
    <3>8. Common(x)
      BY <3>1, <3>5
    <3> QED
      BY <1>7, <3>7, <3>8
  <2>2. ASSUME NEW x \in 1..(n + 1) PROVE ~ Common(x)
    <3>1. x = n + 1 \/ x \in 1..n
      BY <1>2
    <3> HIDE DEF Common
    <3> QED
      BY <1>7, <2>1, <3>1
  <2>3. n + 1 \in 0..N
    BY <1>2
  <2> HIDE DEF Common
  <2> QED
    BY <2>2, <2>3
<1>8. N \in 0..N
  BY <1>2
<1>9. N \in F
  <2> HIDE DEF F
  <2> QED
    BY <1>2, <1>6, <1>7, <1>8, UpTo
<1>10. \A j, k \in Kids(i) : j # k => Subtree(j) \intersect Subtree(k) = {}
  <2>1. \A x \in Node : ~ Common(x)
    BY <1>2, <1>9
  <2> QED
    BY <1>4, <2>1
<1> QED
  BY <1>5, <1>10

\* The rows of a subtree are its nodes', and what they cover is what they add up to.
Whole(i) ==
  /\ IsFiniteSet(Analyzed[i].rows)
  /\ \A r \in Analyzed[i].rows : r \in Rows /\ r.node \in Subtree(i) /\ r.rate \in Nat
  /\ Covered[i] = SumFunctionOnSet(RateOf, Analyzed[i].rows)

LEMMA WholeAdds ==
  ASSUME Forest(nodes), NEW i \in Node, \A j \in Kids(i) : Whole(j)
  PROVE  Whole(i)
<1>1. PICK c, new, K : /\ c = SumFunctionOnSet(Covered, Kids(i)) /\ c \in Int
                       /\ Adds(i, Analyzed, c, Analyzed[i], new)
                       /\ K = Kids(i)
  BY NodeAdds
<1>2. IsFiniteSet(K) /\ K \subseteq Node /\ i \in Subtree(i) /\ \A j \in K : Subtree(j) \subseteq Subtree(i)
  BY <1>1, KidsAre, SubtreeIs
<1>3. PICK A : A = [j \in K |-> Analyzed[j].rows]
  OBVIOUS
<1>4. \A j \in K : /\ IsFiniteSet(A[j]) /\ Covered[j] = SumFunctionOnSet(RateOf, A[j])
                   /\ \A r \in A[j] : r \in Rows /\ r.node \in Subtree(j) /\ r.rate \in Nat
  BY <1>1, <1>3 DEF Whole
<1>5. \A j, k \in K : j # k => A[j] \intersect A[k] = {}
  <2>1. ASSUME NEW j \in K, NEW k \in K, j # k, NEW r \in A[j], r \in A[k] PROVE FALSE
    <3>1. r.node \in Subtree(j) /\ r.node \in Subtree(k)
      BY <1>4, <2>1
    <3>2. Subtree(j) \intersect Subtree(k) = {}
      BY <1>1, <2>1, SubtreesApart
    <3> QED
      BY <3>1, <3>2
  <2> QED
    BY <2>1
<1>6. \A j \in K : \A r \in A[j] : RateOf[r] \in Int
  BY <1>4 DEF RateOf
<1>7. PICK all : all = UNION {A[j] : j \in K}
  OBVIOUS
<1>8. IsFiniteSet(all) /\ SumFunctionOnSet(RateOf, all) = c
  <2>1. PICK f, g : f = RateOf /\ g = Covered
    OBVIOUS
  <2>2. \A k \in K : IsFiniteSet(A[k])
    BY <1>4
  <2>3. \A k \in K : \A x \in A[k] : f[x] \in Int
    BY <1>6, <2>1
  <2>4. \A k \in K : g[k] = SumFunctionOnSet(f, A[k])
    BY <1>4, <2>1
  <2>5. IsFiniteSet(UNION {A[k] : k \in K}) /\ SumFunctionOnSet(f, UNION {A[k] : k \in K}) = SumFunctionOnSet(g, K)
    BY <1>2, <1>5, <2>2, <2>3, <2>4, SumUnions
  <2> QED
    BY <1>1, <1>7, <2>1, <2>5
<1>9. new \in SUBSET Rows /\ IsFiniteSet(new) /\ \A r \in new : r.node = i /\ r.rate \in Nat
  <2>1. RowsOf(i, new)
    BY <1>1 DEF Adds
  <2> QED
    BY <2>1, ScanTyped DEF RowsOf, Rows
<1>10. Analyzed[i].rows = all \union new
  <2>1. Analyzed[i].rows = (UNION {Analyzed[j].rows : j \in Kids(i)}) \union new
    BY <1>1 DEF Adds
  <2>2. {Analyzed[j].rows : j \in Kids(i)} = {A[j] : j \in K}
    BY <1>1, <1>3
  <2> QED
    BY <1>7, <2>1, <2>2
<1>11. \A r \in all : r \in Rows /\ r.node \in Subtree(i) /\ r.rate \in Nat /\ r.node # i
  <2>1. ASSUME NEW r \in all PROVE r \in Rows /\ r.node \in Subtree(i) /\ r.rate \in Nat /\ r.node # i
    <3>1. PICK j \in K : r \in A[j]
      BY <1>7
    <3>2. r \in Rows /\ r.node \in Subtree(j) /\ r.rate \in Nat
      BY <1>4, <3>1
    <3>3. i \notin Subtree(j)
      BY <1>1, SubtreesApart
    <3> QED
      BY <1>2, <3>2, <3>3
  <2> QED
    BY <2>1
<1>12. all \intersect new = {} /\ \A r \in all \union new : RateOf[r] \in Int
  BY <1>9, <1>11 DEF RateOf
<1>13. SumFunctionOnSet(RateOf, all \union new) = c + SumFunctionOnSet(RateOf, new)
  BY <1>8, <1>9, <1>12, SumDisjoint
<1>14. Covered[i] = c + SumFunctionOnSet(RateOf, new)
  <2>1. Analyzed[i].covered = c + RatesOf(new)
    BY <1>1 DEF Adds
  <2>2. RatesOf(new) = SumFunctionOnSet(RateOf, new)
    BY <1>9, RatesOfIs
  <2> QED
    BY <2>1, <2>2 DEF Covered
<1>15. IsFiniteSet(all \union new)
  BY <1>8, <1>9, FS_Union
<1>16. \A r \in all \union new : r \in Rows /\ r.node \in Subtree(i) /\ r.rate \in Nat
  BY <1>2, <1>9, <1>11
<1> QED
  BY <1>10, <1>13, <1>14, <1>15, <1>16 DEF Whole

LEMMA AllWhole ==
  ASSUME Forest(nodes)
  PROVE  \A i \in Node : Whole(i)
<1>1. PICK N, F : N = Len(nodes) /\ F = {i \in Node : Whole(i)}
  OBVIOUS
<1>2. N \in Nat /\ Node = 1..N /\ \A i \in Node : \A j \in Kids(i) : j \in Node /\ i < j
  BY <1>1, KidsAre
<1>3. ASSUME NEW i \in 1..N, \A j \in (i + 1)..N : j \in F PROVE i \in F
  <2>1. \A j \in Kids(i) : j \in (i + 1)..N
    BY <1>2
  <2>2. \A j \in Kids(i) : Whole(j)
    BY <1>1, <1>3, <2>1
  <2> QED
    BY <1>1, <1>2, <2>2, WholeAdds
<1>4. \A i \in 1..N : i \in F
  BY <1>2, <1>3, DownFrom
<1> QED
  BY <1>1, <1>2, <1>4

\* The rows below a directory are those it knows of.
LEMMA RowsBelow ==
  ASSUME Forest(nodes)
  PROVE  \A i \in Node : {r \in Reported : r.node \in Subtree(i)} = Analyzed[i].rows
<1>1. PICK N : N = Len(nodes)
  OBVIOUS
<1>2. N \in Nat /\ Node = 1..N
  BY <1>1, KidsAre
<1>3. \A i \in Node : \A j \in Kids(i) : j \in Node /\ i < j /\ nodes[j].parent = i
  BY KidsAre
<1>4. \A i \in Node : nodes[i].parent \in Nat /\ nodes[i].parent < i
  <2>1. \A x \in Node : nodes[x].parent < x
    BY KidsAre DEF Forest
  <2>2. \A x \in Node : NodeTyped(nodes[x])
    BY KidsAre DEF Forest
  <2> QED
    BY <2>1, <2>2 DEF NodeTyped
<1>5. \A i \in Node : \A j \in Kids(i) : Analyzed[j].rows \subseteq Analyzed[i].rows
  <2>1. ASSUME NEW i \in Node, NEW j \in Kids(i) PROVE Analyzed[j].rows \subseteq Analyzed[i].rows
    <3>1. PICK c, new : Adds(i, Analyzed, c, Analyzed[i], new)
      BY NodeAdds
    <3>2. Analyzed[i].rows = (UNION {Analyzed[k].rows : k \in Kids(i)}) \union new
      BY <3>1 DEF Adds
    <3> QED
      BY <3>2
  <2> QED
    BY <2>1
<1>6. \A i \in Node : \A r \in Analyzed[i].rows : r.node = i \/ \E j \in Kids(i) : r \in Analyzed[j].rows
  <2>1. ASSUME NEW i \in Node, NEW r \in Analyzed[i].rows
        PROVE  r.node = i \/ \E j \in Kids(i) : r \in Analyzed[j].rows
    <3>1. PICK c, new : Adds(i, Analyzed, c, Analyzed[i], new)
      BY NodeAdds
    <3>2. Analyzed[i].rows = (UNION {Analyzed[k].rows : k \in Kids(i)}) \union new /\ RowsOf(i, new)
      BY <3>1 DEF Adds
    <3>3. CASE r \in new
      BY <3>2, <3>3 DEF RowsOf
    <3>4. CASE r \notin new
      BY <3>2, <3>4
    <3> QED
      BY <3>3, <3>4
  <2> QED
    BY <2>1
\* They are reported.
<1>7. \A i \in Node : Analyzed[i].rows \subseteq Reported
  <2> DEFINE F == {n \in 0..N : \A i \in 1..n : Analyzed[i].rows \subseteq Reported}
  <2>1. 0 \in F
    BY <1>2
  <2>2. ASSUME NEW n \in 0..(N - 1), n \in F PROVE n + 1 \in F
    <3>1. n + 1 \in Node /\ n + 1 \in 0..N /\ \A i \in 1..(n + 1) : i = n + 1 \/ i \in 1..n
      BY <1>2
    <3>2. PICK m, x : m = n + 1 /\ x = nodes[m].parent
      OBVIOUS
    <3>3. CASE x = 0
      <4>1. Analyzed[m].rows \subseteq Reported
        BY <3>1, <3>2, <3>3 DEF Reported
      <4> QED
        BY <2>2, <3>1, <3>2, <4>1
    <3>4. CASE x # 0
      <4>1. x \in Nat /\ x < m
        BY <1>4, <3>1, <3>2
      <4>2. x \in 1..n /\ x \in Node
        BY <1>2, <3>1, <3>2, <3>4, <4>1
      <4>3. m \in Kids(x)
        BY <3>1, <3>2 DEF Kids
      <4>4. Analyzed[m].rows \subseteq Analyzed[x].rows /\ Analyzed[x].rows \subseteq Reported
        BY <1>5, <2>2, <4>2, <4>3
      <4>5. Analyzed[m].rows \subseteq Reported
        BY <4>4
      <4> QED
        BY <2>2, <3>1, <3>2, <4>5
    <3> QED
      BY <3>3, <3>4
  <2>3. N \in 0..N
    BY <1>2
  <2>4. N \in F
    <3> HIDE DEF F
    <3> QED
      BY <1>2, <2>1, <2>2, <2>3, UpTo
  <2> QED
    BY <1>2, <2>4
\* A row is known where it belongs ...
<1>8. \A i \in Node : \A r \in Analyzed[i].rows : r \in Analyzed[r.node].rows
  <2> DEFINE F == {i \in Node : \A r \in Analyzed[i].rows : r \in Analyzed[r.node].rows}
  <2>1. ASSUME NEW i \in 1..N, \A j \in (i + 1)..N : j \in F PROVE i \in F
    <3>1. \A j \in Kids(i) : j \in (i + 1)..N
      BY <1>2, <1>3
    <3> QED
      BY <1>2, <1>6, <2>1, <3>1
  <2>2. \A i \in 1..N : i \in F
    <3> HIDE DEF F
    <3> QED
      BY <1>2, <2>1, DownFrom
  <2> QED
    BY <1>2, <2>2
\* ... and all the way up.
<1>9. \A i \in Node : \A x \in Subtree(i) : Analyzed[x].rows \subseteq Analyzed[i].rows
  <2> DEFINE F == {i \in Node : \A x \in Subtree(i) : Analyzed[x].rows \subseteq Analyzed[i].rows}
  <2>1. ASSUME NEW i \in 1..N, \A j \in (i + 1)..N : j \in F PROVE i \in F
    <3>1. \A j \in Kids(i) : j \in (i + 1)..N
      BY <1>2, <1>3
    <3>2. ASSUME NEW x \in Subtree(i) PROVE Analyzed[x].rows \subseteq Analyzed[i].rows
      <4>1. x = i \/ \E j \in Kids(i) : x \in Subtree(j)
        BY <1>2, SubtreeIs
      <4>2. CASE x = i
        BY <4>2
      <4>3. CASE \E j \in Kids(i) : x \in Subtree(j)
        <5>1. PICK j \in Kids(i) : x \in Subtree(j)
          BY <4>3
        <5>2. Analyzed[x].rows \subseteq Analyzed[j].rows
          BY <2>1, <3>1, <5>1
        <5>3. Analyzed[j].rows \subseteq Analyzed[i].rows
          BY <1>2, <1>5
        <5> QED
          BY <5>2, <5>3
      <4> QED
        BY <4>1, <4>2, <4>3
    <3> QED
      BY <1>2, <3>2
  <2>2. \A i \in 1..N : i \in F
    <3> HIDE DEF F
    <3> QED
      BY <1>2, <2>1, DownFrom
  <2> QED
    BY <1>2, <2>2
<1> SUFFICES ASSUME NEW i \in Node
             PROVE  {r \in Reported : r.node \in Subtree(i)} = Analyzed[i].rows
  OBVIOUS
<1>10. ASSUME NEW r \in Reported, r.node \in Subtree(i) PROVE r \in Analyzed[i].rows
  <2>1. PICK k \in Node : r \in Analyzed[k].rows
    BY DEF Reported
  <2>2. r \in Analyzed[r.node].rows
    BY <1>8, <2>1
  <2> QED
    BY <1>9, <1>10, <2>2
<1>11. ASSUME NEW r \in Analyzed[i].rows PROVE r \in Reported /\ r.node \in Subtree(i)
  <2>1. Whole(i)
    BY AllWhole
  <2> QED
    BY <1>7, <2>1 DEF Whole
<1> QED
  BY <1>10, <1>11

\* If nothing shrank below a directory, no more is covered than it grew.
LEMMA CoveredOnce ==
  ASSUME Forest(nodes)
  PROVE  \A i \in Node : (\A j \in Parts(i) : PartRate(j) >= 0) => Covered[i] <= Measured[i]
<1>1. PICK N : N = Len(nodes)
  OBVIOUS
<1>2. N \in Nat /\ Node = 1..N
  BY <1>1, KidsAre
<1> DEFINE Grew(i) == \A j \in Parts(i) : PartRate(j) >= 0
           F == {i \in Node : Grew(i) => Covered[i] <= Measured[i]}
<1>3. ASSUME NEW i \in 1..N, \A j \in (i + 1)..N : j \in F PROVE i \in F
  <2>1. i \in Node /\ IsFiniteSet(Kids(i)) /\ \A j \in Kids(i) : j \in Node /\ j \in (i + 1)..N /\ nodes[j].parent = i
    BY <1>2, KidsAre
  <2>2. SUFFICES ASSUME Grew(i) PROVE Covered[i] <= Measured[i]
    BY <2>1
  <2>3. i \in Subtree(i) /\ \A j \in Kids(i) : Subtree(j) \subseteq Subtree(i)
    BY <2>1, SubtreeIs
  <2>4. \A j \in Kids(i) : Grew(j)
    BY <2>2, <2>3 DEF Parts
  <2>5. \A j \in Kids(i) : Covered[j] \in Int /\ Measured[j] \in Int /\ Covered[j] <= Measured[j]
    <3>1. Covered \in [Node -> Int] /\ Measured \in [Node -> Int]
      BY <2>1, NodeAdds, MeasuredIs
    <3> HIDE DEF Grew
    <3> QED
      BY <1>3, <2>1, <2>4, <3>1
  <2>6. SumFunctionOnSet(Covered, Kids(i)) <= SumFunctionOnSet(Measured, Kids(i))
    BY <2>1, <2>5, SumMonotone
  <2>7. IsSampled(i) => PartRate(i) >= 0
    BY <2>2, <2>3 DEF Parts
  <2>8. nodes[i].reason # "" => Kids(i) = {}
    <3>1. \A j \in Node : nodes[j].parent # 0 => nodes[nodes[j].parent].reason = ""
      BY KidsAre DEF Forest
    <3>2. i # 0
      BY <1>2
    <3> QED
      BY <2>1, <3>1, <3>2
  <2>9. PICK new : Adds(i, Analyzed, SumFunctionOnSet(Covered, Kids(i)), Analyzed[i], new)
    BY <2>1, NodeAdds
  <2>10. NoneTwice(i, SumFunctionOnSet(Covered, Kids(i)), Analyzed[i])
    BY <2>9 DEF Adds
  <2>11. Analyzed[i].covered <= Measured[i]
    BY <2>6, <2>7, <2>8, <2>10 DEF NoneTwice
  <2> QED
    BY <2>1, <2>11 DEF Covered
<1>4. \A i \in 1..N : i \in F
  <2> HIDE DEF F
  <2> QED
    BY <1>2, <1>3, DownFrom
<1> QED
  BY <1>2, <1>4

\* What is reported adds up.
LEMMA ReportedAddsUp ==
  ASSUME Forest(nodes), rows = Reported
  PROVE  RowsAddUp
<1> SUFFICES ASSUME NEW i \in Node, IsSampled(i)
             PROVE  /\ Rate(i) - RatesUnder(i) < Threshold
                    /\ (\A j \in Parts(i) : PartRate(j) >= 0) => RatesUnder(i) <= Rate(i)
  BY DEF RowsAddUp
<1>1. RatesUnder(i) = Covered[i]
  <2>1. RowsUnder(i) = Analyzed[i].rows
    BY RowsBelow DEF RowsUnder
  <2>2. Whole(i)
    BY AllWhole
  <2>3. Analyzed[i].rows \in SUBSET Rows /\ IsFiniteSet(Analyzed[i].rows)
    BY <2>2 DEF Whole
  <2>4. RatesOf(Analyzed[i].rows) = SumFunctionOnSet(RateOf, Analyzed[i].rows)
    BY <2>3, RatesOfIs
  <2> QED
    BY <2>1, <2>2, <2>4 DEF RatesUnder, Whole
<1>2. Measured[i] = Rate(i)
  BY MeasuredIs
<1>3. Rate(i) - Covered[i] < Threshold
  <2>1. PICK c, new : c = SumFunctionOnSet(Covered, Kids(i)) /\ Adds(i, Analyzed, c, Analyzed[i], new)
    BY NodeAdds
  <2>2. c >= 0
    <3>1. IsFiniteSet(Kids(i)) /\ Kids(i) \subseteq Node
      BY KidsAre
    <3>2. \A j \in Kids(i) : Covered[j] \in Nat
      <4>1. ASSUME NEW j \in Kids(i) PROVE Covered[j] \in Nat
        <5>1. Whole(j)
          BY <3>1, AllWhole
        <5>2. IsFiniteSet(Analyzed[j].rows) /\ \A r \in Analyzed[j].rows : RateOf[r] \in Nat
          BY <5>1 DEF Whole, RateOf
        <5>3. SumFunctionOnSet(RateOf, Analyzed[j].rows) \in Nat
          BY <5>2, SumNat
        <5> QED
          BY <5>1, <5>3 DEF Whole
      <4> QED
        BY <4>1
    <3>3. SumFunctionOnSet(Covered, Kids(i)) \in Nat
      BY <3>1, <3>2, SumNat
    <3> QED
      BY <2>1, <3>3
  <2>3. NoneHidden(i, c, Analyzed[i])
    BY <2>1 DEF Adds
  <2> QED
    BY <2>2, <2>3 DEF NoneHidden, Covered
<1> QED
  BY <1>1, <1>2, <1>3, CoveredOnce
-----------------------------------------------------------------------------
(* What the filesystem's operators compute.                                 *)

Entry == [in : Directory \union {Top, Gone}, name : Name, own : Int, rctime : Nat]

LEMMA FsIs ==
  ASSUME FsTyped(fs)
  PROVE  /\ fs.dir \in [Directory -> Entry]
         /\ \A dir \in [Directory -> Entry] : FsTyped([fs EXCEPT !.dir = dir])
         /\ \A i \in Directory : FsTyped([fs EXCEPT !.denied = @ \union {<<"rbytes", i>>}])
<1>1. fs.dir \in [Directory -> Entry]
  BY DEF FsTyped, Entry
<1>2. ASSUME NEW dir \in [Directory -> Entry] PROVE FsTyped([fs EXCEPT !.dir = dir])
  BY DEF FsTyped, Entry
<1>3. ASSUME NEW i \in Directory PROVE FsTyped([fs EXCEPT !.denied = @ \union {<<"rbytes", i>>}])
  <2>1. fs.denied \union {<<"rbytes", i>>} \in SUBSET (Calls \X Directory)
    BY DEF FsTyped, Calls
  <2> QED
    BY <2>1 DEF FsTyped
<1> QED
  BY <1>1, <1>2, <1>3

LEMMA TouchedTyped ==
  ASSUME NEW dir \in [Directory -> Entry], NEW is, NEW now \in Nat
  PROVE  Touched(dir, is, now) \in [Directory -> Entry]
<1>1. \A j \in Directory : dir[j] \in Entry /\ [dir[j] EXCEPT !.rctime = now] \in Entry
  BY DEF Entry
<1> QED
  BY <1>1, Zenon DEF Touched

LEMMA RBytesInt ==
  ASSUME FsTyped(fs), NEW i
  PROVE  RBytes(i) \in Int
<1>1. PICK p : p = PathsIn(fs.dir)[i]
  OBVIOUS
<1>2. PICK below, g : /\ below = {j \in DOMAIN PathsIn(fs.dir) :
                                    Within(PathsIn(fs.dir)[j], p) /\
                                    ~ \E m \in fs.foreign : Within(PathsIn(fs.dir)[j], PathsIn(fs.dir)[m])}
                      /\ g = [j \in below |-> fs.dir[j].own]
  OBVIOUS
<1>3. below \subseteq Directory /\ IsFiniteSet(below)
  <2>1. DOMAIN PathsIn(fs.dir) \subseteq Directory
    BY DEF PathsIn
  <2>2. below \subseteq Directory
    BY <1>2, <2>1
  <2> QED
    BY <2>2, ScanTyped, FS_Subset
<1>4. DOMAIN g = below /\ \A j \in below : g[j] \in Int
  BY <1>2, <1>3, FsIs DEF Entry
<1>5. SumFunctionOnSet(g, below) \in Int
  BY <1>3, <1>4, SumInt
<1>6. RBytes(i) = SumFunction(g)
  BY <1>1, <1>2, Zenon DEF RBytes, BytesBelow
<1> QED
  BY <1>4, <1>5, <1>6 DEF SumFunction

LEMMA SubdirsAtIs ==
  ASSUME FsTyped(fs), NEW p \in Seq(Nat)
  PROVE  /\ IsFiniteSet(DOMAIN SubdirsAt(p))
         /\ \A q \in DOMAIN SubdirsAt(p) : Last(q) \in Nat /\ q = Append(p, Last(q))
<1>1. PICK S : S = Subdirs(DirAt(p))
  OBVIOUS
<1>2. S \subseteq Directory /\ IsFiniteSet(S)
  <2>1. S \subseteq Directory
    BY <1>1 DEF Subdirs
  <2> QED
    BY <2>1, ScanTyped, FS_Subset
<1>3. DOMAIN SubdirsAt(p) = {Append(p, fs.dir[j].name) : j \in S}
  BY <1>1 DEF SubdirsAt
<1>4. IsFiniteSet({Append(p, fs.dir[j].name) : j \in S})
  <2>1. PICK f : f = [j \in S |-> Append(p, fs.dir[j].name)]
    OBVIOUS
  <2>2. f \in Surjection(S, {Append(p, fs.dir[j].name) : j \in S})
    BY <2>1 DEF Surjection
  <2> QED
    BY <1>2, <2>2, FS_Surjection
<1>5. ASSUME NEW q \in DOMAIN SubdirsAt(p) PROVE Last(q) \in Nat /\ q = Append(p, Last(q))
  <2>1. PICK j \in S : q = Append(p, fs.dir[j].name)
    BY <1>3
  <2>2. PICK n \in Nat : n = fs.dir[j].name
    BY <1>2, FsIs, ScanTyped DEF Entry
  <2>3. q = Append(p, n) /\ Last(Append(p, n)) = n
    BY <2>1, <2>2 DEF Last
  <2> QED
    BY <2>3
<1> QED
  BY <1>3, <1>4, <1>5

\* Changes leave the program's state alone.
LEMMA ChangedIs ==
  ASSUME FsOK, phase \in Unquiet, NEW dir \in [Directory -> Entry], NEW is, Changed(dir, is)
  PROVE  FsOK' /\ UNCHANGED tool
<1>1. Now \in Nat
  BY DEF FsOK, Now
<1>2. PICK new \in [Directory -> Entry] : fs' = [fs EXCEPT !.dir = new]
  <2>1. Touched(dir, is, Now) \in [Directory -> Entry]
    BY <1>1, TouchedTyped
  <2> QED
    BY <2>1 DEF Changed
<1>3. FsTyped([fs EXCEPT !.dir = new])
  BY <1>2, FsIs DEF FsOK
<1>4. FsTyped(fs)'
  <2>1. FsTyped(fs')
    BY <1>2, <1>3
  <2> QED
    BY <2>1 DEF FsTyped
<1>5. (changes \in Seq(Unquiet))'
  BY DEF Changed, FsOK
<1> QED
  BY <1>4, <1>5 DEF FsOK, Changed

LEMMA ChangeIs ==
  ASSUME FsOK, Change
  PROVE  FsOK' /\ UNCHANGED tool
<1>0. phase \in Unquiet
  BY DEF Change
<1>1. fs.dir \in [Directory -> Entry]
  BY FsIs DEF FsOK
<1>2. Now \in Nat
  BY DEF FsOK, Now
<1>3. ASSUME NEW i \in Directory, Write(i) PROVE FsOK' /\ UNCHANGED tool
  <2>1. PICK b \in Writes : Changed([fs.dir EXCEPT ![i].own = @ + b], {i})
    BY <1>3 DEF Write
  <2>2. PICK dir : dir = [fs.dir EXCEPT ![i].own = @ + b]
    OBVIOUS
  <2>3. b \in Int /\ fs.dir[i] \in Entry
    BY <1>1, ScanTyped
  <2>4. [fs.dir[i] EXCEPT !.own = @ + b] \in Entry
    BY <2>3 DEF Entry
  <2>5. dir \in [Directory -> Entry]
    BY <1>1, <2>2, <2>4
  <2> QED
    BY <2>1, <2>2, <2>5, <1>0, ChangedIs
<1>4. ASSUME NEW i \in Directory, RemoveDir(i) PROVE FsOK' /\ UNCHANGED tool
  <2>1. PICK dir : dir = [fs.dir EXCEPT ![i].in = Gone]
    OBVIOUS
  <2>2. [fs.dir[i] EXCEPT !.in = Gone] \in Entry
    BY <1>1 DEF Entry
  <2>3. dir \in [Directory -> Entry]
    BY <1>1, <2>1, <2>2
  <2>4. Changed(dir, {fs.dir[i].in})
    BY <1>4, <2>1, Zenon DEF RemoveDir
  <2> QED
    BY <2>3, <2>4, <1>0, ChangedIs
<1>5. ASSUME NEW i \in Directory, Deny(i) PROVE FsOK' /\ UNCHANGED tool
  <2>1. FsTyped([fs EXCEPT !.denied = @ \union {<<"rbytes", i>>}])
    BY FsIs DEF FsOK
  <2>2. FsTyped(fs')
    BY <1>5, <2>1 DEF Deny
  <2>3. FsTyped(fs)'
    BY <2>2 DEF FsTyped
  <2> QED
    BY <1>0, <1>5, <2>3 DEF FsOK, Deny
<1>6. ASSUME NEW i \in Directory, NEW parent \in Directory, NEW n \in Name, Create(i, parent, n)
      PROVE  FsOK' /\ UNCHANGED tool
  <2>1. PICK new, dir : /\ new = [in |-> parent, name |-> n, own |-> NewBytes, rctime |-> Now]
                        /\ dir = [fs.dir EXCEPT ![i] = new]
    OBVIOUS
  <2>2. new \in Entry
    BY <1>2, <2>1, ScanTyped DEF Entry
  <2>3. dir \in [Directory -> Entry]
    BY <1>1, <2>1, <2>2
  <2>4. Changed(dir, {parent})
    BY <1>6, <2>1, Zenon DEF Create
  <2> QED
    BY <2>3, <2>4, <1>0, ChangedIs
<1>7. ASSUME NEW i \in Directory, NEW parent \in Directory, NEW n \in Name, Move(i, parent, n)
      PROVE  FsOK' /\ UNCHANGED tool
  <2>1. PICK dir : dir = [fs.dir EXCEPT ![i].in = parent, ![i].name = n]
    OBVIOUS
  <2>3. dir \in [Directory -> Entry]
    BY <1>1, <2>1 DEF Entry
  <2>4. Changed(dir, {fs.dir[i].in, i})
    BY <1>7, <2>1, Zenon DEF Move
  <2> QED
    BY <2>3, <2>4, <1>0, ChangedIs
<1> QED
  BY <1>3, <1>4, <1>5, <1>6, <1>7 DEF Change

-----------------------------------------------------------------------------
(* What a step may do to the trees.                                          *)

\* A step that leaves the parents alone, and the reasons of those with subdirs.
LEMMA Updated ==
  ASSUME Forest(nodes), NEW ns, ns = [i \in Node |-> ns[i]],
         \A i \in Node : NodeTyped(ns[i]) /\ ns[i].parent = nodes[i].parent,
         \A i \in Node : Kids(i) # {} => ns[i].reason = nodes[i].reason
  PROVE  Forest(ns) /\ Len(ns) = Len(nodes)
<1>1. PICK N : N = Len(nodes) /\ N \in Nat /\ Node = 1..N
  BY KidsAre
<1>2. DOMAIN ns = 1..N /\ ns = [i \in 1..N |-> ns[i]]
  BY <1>1
<1>3. IsSeq(ns) /\ Len(ns) = N
  BY <1>1, <1>2, SeqIs
<1>4. \A x \in Node : nodes[x].parent < x
  BY KidsAre DEF Forest
<1>5. \A x \in Node : NodeTyped(nodes[x])
  BY KidsAre DEF Forest
<1>6. \A x \in Node : nodes[x].parent # 0 => nodes[nodes[x].parent].reason = ""
  BY KidsAre DEF Forest
<1>7. ASSUME NEW i \in 1..N
      PROVE  NodeTyped(ns[i]) /\ ns[i].parent < i /\ (ns[i].parent # 0 => ns[ns[i].parent].reason = "")
  <2>1. i \in Node
    BY <1>1
  <2>2. PICK x : x = nodes[i].parent
    OBVIOUS
  <2>3. x \in Nat /\ x < i
    BY <1>4, <1>5, <2>1, <2>2 DEF NodeTyped
  <2>4. ASSUME x # 0 PROVE ns[x].reason = ""
    <3>1. x \in Node /\ i \in Kids(x)
      BY <1>1, <2>1, <2>2, <2>3, <2>4 DEF Kids
    <3> QED
      BY <1>6, <2>1, <2>2, <2>4, <3>1
  <2>5. ns[i].parent = x /\ NodeTyped(ns[i])
    BY <2>1, <2>2
  <2> QED
    BY <2>3, <2>4, <2>5
<1>8. Forest(ns)
  BY <1>3, <1>7 DEF Forest
<1> QED
  BY <1>1, <1>3, <1>8

\* A node's parent and reason are as they were.
KeepsPlace(new, old) == NodeTyped(new) /\ new.parent = old.parent /\ new.reason = old.reason

LEMMA SampledIs ==
  ASSUME FsTyped(fs), NEW n, NodeTyped(n), NEW second \in BOOLEAN
  PROVE  KeepsPlace(Sampled(n, second), n)
<1>1. PICK b : b = RBytes(DirAt(n.path)) /\ b \in Int
  BY RBytesInt
<1>2. /\ KeepsPlace(n, n) /\ KeepsPlace([n EXCEPT !.s2 = b], n) /\ KeepsPlace([n EXCEPT !.s1 = b], n)
      /\ KeepsPlace([n EXCEPT !.error = TRUE], n)
      /\ KeepsPlace([n EXCEPT !.vanished = TRUE, !.s2 = IF second THEN 0 ELSE NoSample], n)
  BY <1>1 DEF KeepsPlace, NodeTyped, HasFields, Fields, NoSample
<1>3. Sampled(n, second) \in
        {n, [n EXCEPT !.s2 = b], [n EXCEPT !.s1 = b], [n EXCEPT !.error = TRUE],
         [n EXCEPT !.vanished = TRUE, !.s2 = IF second THEN 0 ELSE NoSample]}
  BY <1>1, Zenon DEF Sampled
<1> QED
  BY <1>2, <1>3

\* All that a report is made from.
Alike(new, old) ==
  /\ new.s1 = old.s1 /\ new.s2 = old.s2
  /\ new.parent = old.parent /\ new.reason = old.reason /\ new.path = old.path
  /\ new.error = old.error /\ new.unreadable = old.unreadable /\ new.wokeUp = old.wokeUp

\* The equations the operators solve, for any function of the right values.
Equations ==
  /\ Measured \in [Node -> Int]
  /\ \A i \in Node :
       /\ Measured[i] = IF IsSampled(i) THEN Rate(i) ELSE SumFunctionOnSet(Measured, Kids(i))
       /\ OwnRate(i) = Rate(i) - SumFunctionOnSet(Measured, Kids(i))
       /\ \A g : g = [j \in Kids(i) |-> Analyzed[j]] => Analyzed[i] = Analysis(i, g)

LEMMA EquationsHold == ASSUME Forest(nodes) PROVE Equations
<1>1. ASSUME NEW i \in Node, NEW g, g = [j \in Kids(i) |-> Analyzed[j]]
      PROVE  Analyzed[i] = Analysis(i, g)
  BY <1>1, AnalyzedIs
<1>2. \A i \in Node : OwnRate(i) = Rate(i) - SumFunctionOnSet(Measured, Kids(i))
  BY OwnRateIs
<1> QED
  BY <1>1, <1>2, MeasuredIs DEF Equations

\* If none of it changes, nor does the report.
LEMMA SameReport ==
  ASSUME Forest(nodes), Forest(nodes'), Len(nodes') = Len(nodes),
         \A i \in Node : Alike(nodes'[i], nodes[i])
  PROVE  Reported' = Reported
<1>1. PICK N : N = Len(nodes) /\ N \in Nat /\ Node = 1..N
  BY KidsAre
<1>2. Node' = Node
  BY DEF Node
<1>3. \A i \in Node : Kids(i)' = Kids(i) /\ Kids(i) \subseteq Node /\ IsFiniteSet(Kids(i)) /\ \A j \in Kids(i) : i < j
  <2>1. \A i \in Node : Kids(i)' = Kids(i)
    BY <1>2 DEF Kids, Alike
  <2> QED
    BY <2>1, KidsAre
<1>4. \A i \in Node : /\ IsSampled(i)' <=> IsSampled(i)
                      /\ Rate(i)' = Rate(i)
                      /\ nodes'[i].reason = nodes[i].reason
                      /\ nodes'[i].parent = nodes[i].parent
  BY DEF IsSampled, Rate, Alike
<1>5. \A i \in Node : Unmeasured(i)' = Unmeasured(i)
  <2>1. ASSUME NEW i \in Node PROVE Unmeasured(i)' = Unmeasured(i)
    <3>1. {k \in Kids(i)' : nodes'[k].error} = {k \in Kids(i) : nodes[k].error}
      BY <1>3 DEF Alike
    <3>2. {nodes'[j].path : j \in {k \in Kids(i)' : nodes'[k].error}}
            = {nodes[j].path : j \in {k \in Kids(i) : nodes[k].error}}
      BY <1>3, <3>1 DEF Alike
    <3>3. nodes'[i].unreadable = nodes[i].unreadable /\ nodes'[i].wokeUp = nodes[i].wokeUp
      BY DEF Alike
    <3> QED
      BY <3>2, <3>3 DEF Unmeasured
  <2> QED
    BY <2>1
<1>6. Equations /\ Equations'
  <2>1. Forest(nodes)'
    <3> QED
      BY DEF Forest, IsSeq
  <2>2. (Forest(nodes) => Equations)'
    BY EquationsHold, PTL
  <2> QED
    BY <2>1, <2>2, EquationsHold
<1>7. \A i \in 1..N : Measured'[i] = Measured[i]
  <2>1. PICK F : F = {i \in Node : Measured'[i] = Measured[i]}
    OBVIOUS
  <2>2. ASSUME NEW i \in 1..N, \A j \in (i + 1)..N : j \in F PROVE i \in F
    <3>1. i \in Node /\ \A j \in Kids(i) : j \in (i + 1)..N /\ j \in Node
      BY <1>1, <1>3
    <3>2. \A j \in Kids(i) : Measured[j] \in Int /\ Measured[j] = Measured'[j]
      BY <1>6, <2>1, <2>2, <3>1 DEF Equations
    <3>3. SumFunctionOnSet(Measured, Kids(i)) = SumFunctionOnSet(Measured', Kids(i))
      BY <1>3, <3>1, <3>2, SumAgrees
    <3>4. Measured[i] = IF IsSampled(i) THEN Rate(i) ELSE SumFunctionOnSet(Measured, Kids(i))
      BY <1>6, <3>1 DEF Equations
    <3>5. Measured'[i] = IF IsSampled(i)' THEN Rate(i)' ELSE SumFunctionOnSet(Measured', Kids(i)')
      BY <1>2, <1>6, <3>1 DEF Equations
    <3> QED
      BY <1>3, <1>4, <2>1, <3>1, <3>3, <3>4, <3>5
  <2>3. \A i \in 1..N : i \in F
    BY <1>1, <2>2, DownFrom
  <2> QED
    BY <2>1, <2>3
<1>8. \A i \in Node : OwnRate(i)' = OwnRate(i)
  <2>1. ASSUME NEW i \in Node PROVE OwnRate(i)' = OwnRate(i)
    <3>1. \A j \in Kids(i) : Measured[j] \in Int /\ Measured[j] = Measured'[j]
      BY <1>1, <1>3, <1>6, <1>7 DEF Equations
    <3>2. SumFunctionOnSet(Measured, Kids(i)) = SumFunctionOnSet(Measured', Kids(i))
      BY <1>3, <3>1, SumAgrees
    <3>3. OwnRate(i) = Rate(i) - SumFunctionOnSet(Measured, Kids(i))
      BY <1>6 DEF Equations
    <3>4. OwnRate(i)' = Rate(i)' - SumFunctionOnSet(Measured', Kids(i)')
      BY <1>2, <1>6 DEF Equations
    <3> QED
      BY <1>3, <1>4, <3>2, <3>3, <3>4
  <2> QED
    BY <2>1
<1>9. ASSUME NEW i \in Node, NEW g PROVE Analysis(i, g)' = Analysis(i, g)
  <2>1. /\ IsSampled(i)' <=> IsSampled(i)
        /\ Rate(i)' = Rate(i) /\ OwnRate(i)' = OwnRate(i) /\ Unmeasured(i)' = Unmeasured(i)
        /\ nodes'[i].reason = nodes[i].reason
    BY <1>4, <1>5, <1>8
  <2> QED
    BY <2>1 DEF Analysis
<1>10. \A i \in 1..N : Analyzed'[i] = Analyzed[i]
  <2>1. PICK F : F = {i \in Node : Analyzed'[i] = Analyzed[i]}
    OBVIOUS
  <2>2. ASSUME NEW i \in 1..N, \A j \in (i + 1)..N : j \in F PROVE i \in F
    <3>1. i \in Node /\ \A j \in Kids(i) : j \in (i + 1)..N /\ j \in Node
      BY <1>1, <1>3
    <3>2. PICK g : g = [j \in Kids(i) |-> Analyzed[j]]
      OBVIOUS
    <3>3. g = [j \in Kids(i)' |-> Analyzed'[j]]
      BY <1>3, <2>1, <2>2, <3>1, <3>2
    <3>4. Analyzed[i] = Analysis(i, g)
      BY <1>6, <3>1, <3>2 DEF Equations
    <3>5. Analyzed'[i] = Analysis(i, g)'
      BY <1>2, <1>6, <3>1, <3>3 DEF Equations
    <3> QED
      BY <1>9, <2>1, <3>1, <3>4, <3>5
  <2>3. \A i \in 1..N : i \in F
    BY <1>1, <2>2, DownFrom
  <2> QED
    BY <2>1, <2>3
<1>11. {j \in Node' : nodes'[j].parent = 0} = {j \in Node : nodes[j].parent = 0}
  BY <1>2, <1>4
<1> QED
  BY <1>1, <1>10, <1>11 DEF Reported
-----------------------------------------------------------------------------
(* The invariant.                                                           *)

IsNew(n, path, parent) == NodeTyped(n) /\ n.parent = parent /\ n.reason = "" /\ n.path = path

LEMMA NewNodeIs ==
  ASSUME NEW path, NEW parent \in Nat, NEW depth, NEW ino
  PROVE  IsNew(NewNode(path, parent, depth, ino), path, parent)
<1>1. PICK n : n = NewNode(path, parent, depth, ino)
  OBVIOUS
<1>2. n.parent = parent /\ n.s1 = NoSample /\ n.s2 = NoSample
  BY <1>1 DEF NewNode
<1>3. n.reason = "" /\ n.path = path
  BY <1>1 DEF NewNode
<1>4. HasFields(n)
  BY <1>1 DEF NewNode, HasFields, Fields
<1>5. NodeTyped(n)
  BY <1>2, <1>4 DEF NodeTyped, NoSample
<1> QED
  BY <1>1, <1>2, <1>3, <1>5, Zenon DEF IsNew

LEMMA ScanInitOK == ScanInit => ScanInv
<1> SUFFICES ASSUME ScanInit PROVE ScanInv
  OBVIOUS
<1>1. FsOK
  BY ScanTyped DEF ScanInit, FsOK
<1>2. Forest(nodes)
  BY DEF ScanInit, Forest, IsSeq
<1> QED
  BY <1>1, <1>2 DEF ScanInit, ScanInv, BuildOK

LEMMA GivenIs ==
  ASSUME given \in Arguments
  PROVE  Len(given) \in Nat /\ DOMAIN given = 1..Len(given) /\ \A k \in 1..Len(given) : given[k] \in Seq(Nat)
<1>1. given \in Seq(Seq(Name)) /\ Name \subseteq Nat
  BY ScanTyped
<1>2. ASSUME NEW s \in Seq(Name) PROVE s \in Seq(Nat)
  <2>1. Len(s) \in Nat /\ s \in [1..Len(s) -> Name]
    OBVIOUS
  <2>2. s \in [1..Len(s) -> Nat]
    BY <1>1, <2>1
  <2> QED
    BY <2>1, <2>2
<1> QED
  BY <1>1, <1>2

LEMMA PreflightOK == ScanInv /\ Preflight => ScanInv'
<1> SUFFICES ASSUME ScanInv, Preflight PROVE ScanInv'
  OBVIOUS
<1>1. FsOK' /\ (given \in Arguments)'
  BY DEF ScanInv, Preflight, FsOK, FsTyped
<1>2. PICK N, ns : /\ N = Len(given) /\ N \in Nat /\ DOMAIN given = 1..N
                   /\ ns = nodes' /\ ns = [k \in 1..N |-> NewNode(given[k], 0, 0, DirAt(given[k]))]
  <2>1. Len(given) \in Nat /\ DOMAIN given = 1..Len(given)
    BY GivenIs DEF ScanInv
  <2>2. nodes' = [k \in 1..Len(given) |-> NewNode(given[k], 0, 0, DirAt(given[k]))]
    BY <2>1, Zenon DEF Preflight
  <2> QED
    BY <2>1, <2>2
<1>3. \A k \in 1..N : IsNew(ns[k], given[k], 0)
  <2>1. ASSUME NEW k \in 1..N PROVE IsNew(ns[k], given[k], 0)
    <3>1. ns[k] = NewNode(given[k], 0, 0, DirAt(given[k]))
      BY <1>2, Zenon
    <3>2. 0 \in Nat
      OBVIOUS
    <3> QED
      BY <3>1, <3>2, NewNodeIs, Zenon
  <2> QED
    BY <2>1
<1>4. IsSeq(ns) /\ Len(ns) = N
  <2>1. DOMAIN ns = 1..N /\ ns = [k \in 1..N |-> ns[k]]
    BY <1>2
  <2> QED
    BY <1>2, <2>1, SeqIs
<1>5. Forest(ns)
  <2>1. \A k \in 1..N : NodeTyped(ns[k]) /\ ns[k].parent = 0
    BY <1>3, Zenon DEF IsNew
  <2>2. \A k \in 1..N : ns[k].parent < k
    BY <1>2, <2>1
  <2> QED
    BY <1>4, <2>1, <2>2, Zenon DEF Forest
<1>6. Forest(nodes)'
  BY <1>2, <1>5 DEF Forest, IsSeq
<1>7. \A k \in 1..N : given[k] \in Seq(Nat)
  BY <1>2, GivenIs DEF ScanInv
<1>8. level' = 1..N /\ phase' \in {"leaves", "listing"}
  BY <1>2 DEF Preflight
<1>9. Childless(nodes, level)'
  <2>0. \A j \in 1..N : ns[j].parent = 0
    BY <1>3, Zenon DEF IsNew
  <2>1. \A j \in 1..N : nodes'[j].parent \notin 1..N
    BY <1>2, <2>0
  <2>2. Len(nodes') = N
    BY <1>2, <1>4
  <2> QED
    BY <1>8, <2>1, <2>2 DEF Childless
<1>10. BuildOK'
  <2>1. \A k \in 1..N : ns[k].reason = "" /\ ns[k].path = given[k]
    BY <1>3, Zenon DEF IsNew
  <2> QED
    BY <1>2, <1>7, <1>8, <1>9, <2>1 DEF BuildOK
<1> QED
  BY <1>1, <1>6, <1>8, <1>10 DEF ScanInv

LEMMA FailedOK == ScanInv /\ (Refuse \/ GiveUp) => ScanInv'
<1> SUFFICES ASSUME ScanInv, Refuse \/ GiveUp PROVE ScanInv'
  OBVIOUS
<1>1. phase' = "failed" /\ UNCHANGED <<fs, given, nodes, changes>>
  BY DEF Refuse, GiveUp, Failed
<1>2. FsOK' /\ (given \in Arguments)' /\ Forest(nodes)'
  BY <1>1 DEF ScanInv, FsOK, FsTyped, Forest, IsSeq
<1> QED
  BY <1>1, <1>2 DEF ScanInv, BuildOK

LEMMA ListLevelOK == ScanInv /\ ListLevel => ScanInv'
<1> SUFFICES ASSUME ScanInv, ListLevel PROVE ScanInv'
  OBVIOUS
<1>1. UNCHANGED <<fs, given, level, changes>> /\ phase = "listing" /\ phase' = "probing"
  BY DEF ListLevel
<1>2. FsOK' /\ (given \in Arguments)'
  BY <1>1 DEF ScanInv, FsOK, FsTyped
<1>3. /\ Childless(nodes, level)
      /\ \A i \in level : nodes[i].path \in Seq(Nat) /\ nodes[i].reason = ""
  BY <1>1 DEF ScanInv, BuildOK
<1>4. PICK N, ns, out : /\ N = Len(nodes) /\ N \in Nat /\ Node = 1..N
                        /\ ns = nodes'
                        /\ listing' = [i \in level |-> IF out[i] = "listed" THEN SubdirsAt(nodes[i].path) ELSE <<>>]
                        /\ ns = [i \in Node |->
                             IF i \notin level \/ out[i] = "listed" THEN nodes[i]
                             ELSE IF out[i] = "vanished" THEN [nodes[i] EXCEPT !.vanished = TRUE]
                             ELSE [nodes[i] EXCEPT !.reason = out[i]]]
  <2>1. Len(nodes) \in Nat /\ Node = 1..Len(nodes)
    BY KidsAre DEF ScanInv
  <2> DEFINE out == [i \in level |-> ListOutcome(nodes[i])]
  <2>2. nodes' = [i \in Node |->
                    IF i \notin level \/ out[i] = "listed" THEN nodes[i]
                    ELSE IF out[i] = "vanished" THEN [nodes[i] EXCEPT !.vanished = TRUE]
                    ELSE [nodes[i] EXCEPT !.reason = out[i]]]
    BY Zenon DEF ListLevel
  <2>3. listing' = [i \in level |-> IF out[i] = "listed" THEN SubdirsAt(nodes[i].path) ELSE <<>>]
    BY Zenon DEF ListLevel
  <2> HIDE DEF out
  <2> QED
    BY <2>1, <2>2, <2>3
<1>5. \A i \in Node : NodeTyped(nodes[i])
  BY KidsAre DEF ScanInv, Forest
<1>6. \A i \in Node : /\ NodeTyped(ns[i]) /\ ns[i].parent = nodes[i].parent /\ ns[i].path = nodes[i].path
                      /\ i \notin level \/ out[i] = "listed" => ns[i].reason = nodes[i].reason
  <2> DEFINE Relabelled(m, n) == NodeTyped(m) /\ m.parent = n.parent /\ m.path = n.path
  <2>1. ASSUME NEW n, NodeTyped(n), NEW why
        PROVE  Relabelled(n, n) /\ Relabelled([n EXCEPT !.vanished = TRUE], n)
                 /\ Relabelled([n EXCEPT !.reason = why], n)
    BY <2>1 DEF NodeTyped, HasFields, Fields
  <2> HIDE DEF Relabelled
  <2>2. ASSUME NEW i \in Node PROVE Relabelled(ns[i], nodes[i])
    <3>1. NodeTyped(nodes[i])
      BY <1>5
    <3>2. ns[i] = IF i \notin level \/ out[i] = "listed" THEN nodes[i]
                  ELSE IF out[i] = "vanished" THEN [nodes[i] EXCEPT !.vanished = TRUE]
                  ELSE [nodes[i] EXCEPT !.reason = out[i]]
      BY <1>4, Zenon
    <3>3. /\ Relabelled(nodes[i], nodes[i]) /\ Relabelled([nodes[i] EXCEPT !.vanished = TRUE], nodes[i])
          /\ Relabelled([nodes[i] EXCEPT !.reason = out[i]], nodes[i])
      BY <2>1, <3>1, Zenon
    <3> QED
      BY <3>2, <3>3, Zenon
  <2>3. \A i \in Node : i \notin level \/ out[i] = "listed" => ns[i] = nodes[i]
    BY <1>4, Zenon
  <2> QED
    BY <2>2, <2>3, Zenon DEF Relabelled
<1>7. \A i \in level : Kids(i) = {}
  BY <1>3 DEF Childless, Kids, Node
<1>8. Forest(ns) /\ Len(ns) = N
  <2>1. ns = [i \in Node |-> ns[i]]
    BY <1>4
  <2>2. \A i \in Node : NodeTyped(ns[i]) /\ ns[i].parent = nodes[i].parent
    BY <1>6
  <2>3. \A i \in Node : Kids(i) # {} => ns[i].reason = nodes[i].reason
    BY <1>6, <1>7
  <2>4. Forest(nodes)
    BY DEF ScanInv
  <2> QED
    BY <1>4, <2>1, <2>2, <2>3, <2>4, Updated
<1>9. Forest(nodes)'
  BY <1>4, <1>8 DEF Forest, IsSeq
<1>10. Childless(nodes, level)'
  BY <1>1, <1>3, <1>4, <1>6, <1>8 DEF Childless
<1>11. level \subseteq Node
  BY <1>3 DEF Childless, Node
<1>12. ASSUME NEW i \in level
       PROVE  /\ IsFiniteSet(DOMAIN listing'[i])
              /\ DOMAIN listing'[i] # {} => ns[i].reason = ""
              /\ \A p \in DOMAIN listing'[i] : Last(p) \in Nat /\ p = Append(ns[i].path, Last(p))
  <2>1. listing'[i] = IF out[i] = "listed" THEN SubdirsAt(nodes[i].path) ELSE <<>>
    BY <1>4
  <2>2. CASE out[i] # "listed"
    <3>1. DOMAIN listing'[i] = {}
      BY <2>1, <2>2
    <3> QED
      BY <3>1, FS_EmptySet
  <2>3. CASE out[i] = "listed"
    <3>1. FsTyped(fs)
      BY DEF ScanInv, FsOK
    <3>2. ns[i].reason = "" /\ ns[i].path = nodes[i].path
      BY <1>3, <1>6, <1>11, <2>3
    <3>3. PICK q : q = nodes[i].path /\ q \in Seq(Nat)
      BY <1>3
    <3>4. /\ IsFiniteSet(DOMAIN SubdirsAt(q))
          /\ \A p \in DOMAIN SubdirsAt(q) : Last(p) \in Nat /\ p = Append(q, Last(p))
      BY <3>1, <3>3, SubdirsAtIs
    <3> QED
      BY <2>1, <2>3, <3>2, <3>3, <3>4
  <2> QED
    BY <2>2, <2>3
<1>13. BuildOK'
  <2>1. \A i \in level : ns[i].path \in Seq(Nat)
    BY <1>3, <1>6, <1>11
  <2> QED
    BY <1>1, <1>4, <1>10, <1>12, <2>1 DEF BuildOK
<1> QED
  BY <1>1, <1>2, <1>9, <1>13 DEF ScanInv

LEMMA MarkLeavesOK == ScanInv /\ MarkLeaves => ScanInv'
<1> SUFFICES ASSUME ScanInv, MarkLeaves PROVE ScanInv'
  OBVIOUS
<1>1. UNCHANGED <<fs, given, changes>> /\ phase = "leaves" /\ phase' = "sampling"
  BY DEF MarkLeaves
<1>2. FsOK' /\ (given \in Arguments)'
  BY <1>1 DEF ScanInv, FsOK, FsTyped
<1>3. PICK ns : ns = nodes' /\ ns = [i \in Node |-> IF i \in level THEN [nodes[i] EXCEPT !.reason = "depth"] ELSE nodes[i]]
  BY DEF MarkLeaves
<1>4. \A i \in level : Kids(i) = {}
  BY <1>1 DEF ScanInv, BuildOK, Childless, Kids, Node
<1>5. \A i \in Node : NodeTyped(nodes[i])
  BY KidsAre DEF ScanInv, Forest
<1>6. \A i \in Node : NodeTyped(ns[i]) /\ ns[i].parent = nodes[i].parent
  <2>1. ASSUME NEW n, NodeTyped(n)
        PROVE  NodeTyped([n EXCEPT !.reason = "depth"]) /\ [n EXCEPT !.reason = "depth"].parent = n.parent
    BY <2>1 DEF NodeTyped, HasFields, Fields
  <2> QED
    BY <1>3, <1>5, <2>1
<1>7. Forest(ns)
  <2>1. ns = [i \in Node |-> ns[i]] /\ \A i \in Node : Kids(i) # {} => ns[i].reason = nodes[i].reason
    BY <1>3, <1>4
  <2>2. Forest(nodes)
    BY DEF ScanInv
  <2> QED
    BY <1>6, <2>1, <2>2, Updated
<1>8. Forest(nodes)'
  BY <1>3, <1>7 DEF Forest, IsSeq
<1> QED
  BY <1>1, <1>2, <1>8 DEF ScanInv, BuildOK

\* Once the tree is built, a step that keeps the nodes and their reasons keeps the invariant.
Later == {"sampling", "sleeping", "following", "rechecking", "reporting", "failed", "replayed"}

LEMMA LaterOK ==
  ASSUME ScanInv, UNCHANGED <<fs, given, changes>>, phase' \in Later,
         nodes' = [i \in Node |-> nodes'[i]], \A i \in Node : KeepsPlace(nodes'[i], nodes[i])
  PROVE  ScanInv'
<1>1. FsOK' /\ (given \in Arguments)'
  BY DEF ScanInv, FsOK, FsTyped
<1>2. PICK ns : ns = nodes'
  OBVIOUS
<1>3. \A i \in Node : NodeTyped(ns[i]) /\ ns[i].parent = nodes[i].parent /\ ns[i].reason = nodes[i].reason
  BY <1>2 DEF KeepsPlace
<1>4. Forest(ns)
  <2>1. ns = [i \in Node |-> ns[i]]
    BY <1>2
  <2>2. Forest(nodes)
    BY DEF ScanInv
  <2> QED
    BY <1>3, <2>1, <2>2, Updated
<1>5. Forest(nodes)'
  BY <1>2, <1>4 DEF Forest, IsSeq
<1> QED
  BY <1>1, <1>5 DEF ScanInv, BuildOK, Later

LEMMA PassOK == ScanInv /\ (FirstPass \/ SecondPass) => ScanInv'
<1> SUFFICES ASSUME ScanInv, FirstPass \/ SecondPass PROVE ScanInv'
  OBVIOUS
<1>1. \A i \in Node : NodeTyped(nodes[i])
  BY KidsAre DEF ScanInv, Forest
<1>2. FsTyped(fs)
  BY DEF ScanInv, FsOK
<1>3. \A i \in Node : \A second \in BOOLEAN : KeepsPlace(Sampled(nodes[i], second), nodes[i])
  BY <1>1, <1>2, SampledIs
<1>4. PICK second \in BOOLEAN : nodes' = [i \in Node |-> Sampled(nodes[i], second)]
  BY DEF FirstPass, SecondPass
<1>5. UNCHANGED <<fs, given, changes>> /\ phase' \in Later
  BY DEF FirstPass, SecondPass, Later
<1>6. nodes' = [i \in Node |-> nodes'[i]] /\ \A i \in Node : KeepsPlace(nodes'[i], nodes[i])
  BY <1>3, <1>4
<1> QED
  BY <1>5, <1>6, LaterOK

LEMMA FollowingOK == ScanInv /\ (\E p \in Node : Relist(p) \/ FollowIn(p)) => ScanInv'
<1> SUFFICES ASSUME ScanInv, NEW p \in Node, Relist(p) \/ FollowIn(p) PROVE ScanInv'
  OBVIOUS
<1>1. \A i \in Node : NodeTyped(nodes[i]) /\ KeepsPlace(nodes[i], nodes[i])
  <2>1. \A i \in Node : NodeTyped(nodes[i])
    BY KidsAre DEF ScanInv, Forest
  <2> QED
    BY <2>1 DEF KeepsPlace
<1>2. UNCHANGED <<fs, given, changes>> /\ phase = "following" /\ phase' = "following"
  BY DEF Relist, FollowIn
<1>3. CASE Relist(p)
  <2>1. nodes' = nodes
    BY <1>3 DEF Relist
  <2>2. nodes = [i \in Node |-> nodes[i]]
    BY DEF ScanInv, Forest, IsSeq, Node
  <2> QED
    BY <1>1, <1>2, <2>1, <2>2, LaterOK DEF Later
<1>4. CASE FollowIn(p)
  <2>1. ASSUME NEW n, NodeTyped(n), NEW old, NEW new
        PROVE  /\ KeepsPlace(Rerooted(n, old, new), n)
               /\ \A from : KeepsPlace([Rerooted(n, old, new) EXCEPT !.renamedFrom = from], n)
    <3>1. PICK a, b, c, d : Rerooted(n, old, new) = [n EXCEPT !.path = a, !.idle = b, !.unreadable = c, !.wokeUp = d]
      BY Zenon DEF Rerooted
    <3> QED
      BY <2>1, <3>1 DEF KeepsPlace, NodeTyped, HasFields, Fields
  <2>2. PICK ns : ns = nodes'
    OBVIOUS
  <2>3. ns = [i \in Node |-> ns[i]] /\ \A i \in Node : KeepsPlace(ns[i], nodes[i])
    <3> DEFINE renamed == Renamed(p)
               root(i) == {m \in renamed : i \in Subtree(m[1])}
               chosen(i) == CHOOSE m \in root(i) : TRUE
               there(i) == Rerooted(nodes[i], nodes[chosen(i)[1]].path, chosen(i)[2])
               after(i) == IF i = chosen(i)[1] THEN [there(i) EXCEPT !.renamedFrom = nodes[i].path] ELSE there(i)
    <3>2. ns = [i \in Node |-> IF root(i) = {} THEN nodes[i] ELSE after(i)]
      <4>1. nodes' = [i \in Node |-> IF root(i) = {} THEN nodes[i] ELSE after(i)]
        BY <1>4, Zenon DEF FollowIn
      <4> QED
        BY <2>2, <4>1, Zenon
    <3>3. ASSUME NEW i \in Node PROVE KeepsPlace(after(i), nodes[i])
      <4>1. NodeTyped(nodes[i])
        BY <1>1
      <4> HIDE DEF chosen
      <4>2. KeepsPlace(there(i), nodes[i]) /\ KeepsPlace([there(i) EXCEPT !.renamedFrom = nodes[i].path], nodes[i])
        BY <2>1, <4>1
      <4> HIDE DEF there
      <4> QED
        BY <4>2
    <3> HIDE DEF after, root
    <3> QED
      BY <1>1, <3>2, <3>3
  <2> QED
    BY <1>2, <2>2, <2>3, LaterOK DEF Later
<1> QED
  BY <1>3, <1>4

LEMMA RecheckIs ==
  ASSUME Recheck
  PROVE  \E woken, lost : nodes' = [i \in Node |->
           IF i \notin Suspects THEN nodes[i]
           ELSE [nodes[i] EXCEPT !.wokeUp = woken[i], !.unreadable = lost[i]]]
<1> DEFINE tracked(i) == {nodes[j].path : j \in Kids(i)}
           new(i) == DOMAIN RelistOf(i) \ (tracked(i) \union DOMAIN nodes[i].idle
                                             \union nodes[i].unreadable \union notCephfs)
           woke(i) == {p \in DOMAIN nodes[i].idle : Error(p, "rctime") = "none" /\
                                            fs.dir[DirAt(p)].rctime # nodes[i].idle[p]}
           away(i) == {p \in DOMAIN nodes[i].idle : Error(p, "rctime") = "denied"}
           woken == [i \in Node |-> nodes[i].wokeUp \union new(i) \union woke(i)]
           lost == [i \in Node |-> nodes[i].unreadable \union away(i)]
<1>1. nodes' = [i \in Node |->
       IF i \notin Suspects THEN nodes[i]
       ELSE [nodes[i] EXCEPT !.wokeUp = nodes[i].wokeUp \union new(i) \union woke(i),
                             !.unreadable = nodes[i].unreadable \union away(i)]]
  BY Zenon DEF Recheck
<1> HIDE DEF new, woke, away
<1>2. nodes' = [i \in Node |->
       IF i \notin Suspects THEN nodes[i]
       ELSE [nodes[i] EXCEPT !.wokeUp = woken[i], !.unreadable = lost[i]]]
  BY <1>1
<1> HIDE DEF woken, lost
<1> QED
  BY <1>2

LEMMA RereadOK == ScanInv /\ (Reread \/ Recheck) => ScanInv'
<1> SUFFICES ASSUME ScanInv, Reread \/ Recheck PROVE ScanInv'
  OBVIOUS
<1>1. \A i \in Node : NodeTyped(nodes[i]) /\ KeepsPlace(nodes[i], nodes[i])
  <2>1. \A i \in Node : NodeTyped(nodes[i])
    BY KidsAre DEF ScanInv, Forest
  <2> QED
    BY <2>1 DEF KeepsPlace
<1>2. FsTyped(fs)
  BY DEF ScanInv, FsOK
<1>3. UNCHANGED <<fs, given, changes>> /\ phase' \in Later
  BY DEF Reread, Recheck, Later
<1>4. CASE Reread
  <2>1. PICK again : nodes' = [i \in Node |->
           IF i \in again THEN Sampled([nodes[i] EXCEPT !.vanished = FALSE, !.s2 = NoSample], TRUE)
           ELSE nodes[i]]
    BY <1>4 DEF Reread
  <2>2. ASSUME NEW n, NodeTyped(n)
        PROVE  KeepsPlace(Sampled([n EXCEPT !.vanished = FALSE, !.s2 = NoSample], TRUE), n)
    <3>1. PICK m : m = [n EXCEPT !.vanished = FALSE, !.s2 = NoSample]
      OBVIOUS
    <3>2. NodeTyped(m) /\ m.parent = n.parent /\ m.reason = n.reason
      BY <2>2, <3>1 DEF NodeTyped, HasFields, Fields, NoSample
    <3>3. KeepsPlace(Sampled(m, TRUE), m)
      BY <1>2, <3>2, SampledIs
    <3> QED
      BY <3>1, <3>2, <3>3 DEF KeepsPlace
  <2>3. nodes' = [i \in Node |-> nodes'[i]] /\ \A i \in Node : KeepsPlace(nodes'[i], nodes[i])
    BY <1>1, <2>1, <2>2
  <2> QED
    BY <1>3, <2>3, LaterOK
<1>5. CASE Recheck
  <2>1. PICK woken, lost : nodes' = [i \in Node |->
           IF i \notin Suspects THEN nodes[i]
           ELSE [nodes[i] EXCEPT !.wokeUp = woken[i], !.unreadable = lost[i]]]
    BY <1>5, RecheckIs
  <2>2. ASSUME NEW n, NodeTyped(n), NEW a, NEW b
        PROVE  KeepsPlace([n EXCEPT !.wokeUp = a, !.unreadable = b], n)
    BY <2>2 DEF KeepsPlace, NodeTyped, HasFields, Fields
  <2>3. nodes' = [i \in Node |-> nodes'[i]] /\ \A i \in Node : KeepsPlace(nodes'[i], nodes[i])
    BY <1>1, <2>1, <2>2
  <2> QED
    BY <1>3, <2>3, LaterOK
<1> QED
  BY <1>4, <1>5

\* Whatever the subdirs found, they can be taken one after the other.
LEMMA FoundIs ==
  ASSUME ScanInv, phase = "probing"
  PROVE  /\ IsFiniteSet(Found) /\ level \subseteq 1..Len(nodes)
         /\ \A x \in Found : /\ x = <<x[1], x[2]>> /\ x[1] \in level
                             /\ nodes[x[1]].reason = "" /\ nodes[x[1]].path \in Seq(Nat)
                             /\ Last(x[2]) \in Nat /\ x[2] = Append(nodes[x[1]].path, Last(x[2]))
<1>1. /\ level \subseteq 1..Len(nodes)
      /\ \A i \in level : nodes[i].path \in Seq(Nat)
      /\ \A i \in level : IsFiniteSet(DOMAIN listing[i])
      /\ \A i \in level : DOMAIN listing[i] # {} => nodes[i].reason = ""
      /\ \A i \in level : \A p \in DOMAIN listing[i] : Last(p) \in Nat /\ p = Append(nodes[i].path, Last(p))
  BY Zenon DEF ScanInv, BuildOK, Childless
<1>2. IsFiniteSet(level)
  <2>1. Len(nodes) \in Nat
    BY KidsAre DEF ScanInv
  <2>2. IsFiniteSet(1..Len(nodes))
    BY <2>1, FS_Interval
  <2> QED
    BY <1>1, <2>2, FS_Subset
<1>3. PICK A : A = [i \in level |-> {i} \X DOMAIN listing[i]]
  OBVIOUS
<1>4. PICK all : all = {A[i] : i \in level}
  OBVIOUS
<1>5. IsFiniteSet(all)
  <2>1. A \in Surjection(level, all)
    BY <1>3, <1>4 DEF Surjection
  <2> QED
    BY <1>2, <2>1, FS_Surjection
<1>6. \A S \in all : IsFiniteSet(S)
  <2>1. ASSUME NEW i \in level PROVE IsFiniteSet(A[i])
    <3>1. IsFiniteSet({i}) /\ IsFiniteSet(DOMAIN listing[i])
      BY <1>1, FS_Singleton
    <3>2. IsFiniteSet({i} \X DOMAIN listing[i])
      BY <3>1, FS_Product
    <3> QED
      BY <1>3, <3>2
  <2> QED
    BY <1>4, <2>1
<1>7. IsFiniteSet(UNION all)
  BY <1>5, <1>6, FS_UNION
<1>8. Found \subseteq UNION all
  <2>1. {{i} \X DOMAIN listing[i] : i \in level} = all
    BY <1>3, <1>4
  <2> QED
    BY <2>1 DEF Found
<1>9. IsFiniteSet(Found)
  BY <1>7, <1>8, FS_Subset
<1>10. ASSUME NEW x \in Found
       PROVE  x = <<x[1], x[2]>> /\ x[1] \in level /\ x[2] \in DOMAIN listing[x[1]]
  <2>1. PICK i \in level : x \in A[i]
    BY <1>4, <1>8
  <2>2. x \in {i} \X DOMAIN listing[i]
    BY <1>3, <2>1
  <2>3. x = <<x[1], x[2]>> /\ x[1] = i /\ x[2] \in DOMAIN listing[i]
    BY <2>2
  <2> QED
    BY <2>3
<1>11. ASSUME NEW x \in Found
       PROVE  /\ nodes[x[1]].reason = "" /\ nodes[x[1]].path \in Seq(Nat)
              /\ Last(x[2]) \in Nat /\ x[2] = Append(nodes[x[1]].path, Last(x[2]))
  <2>1. x[1] \in level /\ x[2] \in DOMAIN listing[x[1]]
    BY <1>10
  <2>2. DOMAIN listing[x[1]] # {}
    BY <2>1
  <2> QED
    BY <1>1, <2>1, <2>2, Zenon
<1> QED
  BY <1>1, <1>9, <1>10, <1>11

LEMMA ActiveIs ==
  ASSUME ScanInv, phase = "probing"
  PROVE  /\ Cardinality(Found) \in Nat /\ DOMAIN Active = 1..Cardinality(Found)
         /\ \A k \in 1..Cardinality(Found) : Active[k] \in Found
<1>1. IsFiniteSet(Found) /\ level \subseteq Nat
  <2>1. IsFiniteSet(Found) /\ level \subseteq 1..Len(nodes)
    BY FoundIs
  <2>2. 1..Len(nodes) \subseteq Nat
    OBVIOUS
  <2> QED
    BY <2>1, <2>2
<1>2. PICK a, b : a = [x \in Found |-> x[1]] /\ b = [x \in Found |-> Last(x[2])]
  OBVIOUS
<1>3. \A x \in Found : a[x] \in Nat /\ b[x] \in Nat
  BY <1>1, <1>2, FoundIs, Zenon
<1>4. \A x, y \in Found : a[x] = a[y] /\ b[x] = b[y] => x = y
  <2>1. ASSUME NEW x \in Found, NEW y \in Found, a[x] = a[y], b[x] = b[y] PROVE x = y
    <3>1. x[1] = y[1] /\ Last(x[2]) = Last(y[2])
      BY <1>2, <2>1, Zenon
    <3>2. x[2] = Append(nodes[x[1]].path, Last(x[2])) /\ y[2] = Append(nodes[y[1]].path, Last(y[2]))
      BY FoundIs, Zenon
    <3>3. x[2] = y[2]
      BY <3>1, <3>2, Zenon
    <3>4. x = <<x[1], x[2]>> /\ y = <<y[1], y[2]>>
      BY FoundIs, Zenon
    <3> QED
      BY <3>1, <3>3, <3>4, Zenon
  <2> QED
    BY <2>1
<1>5. \A x, y \in Found : Earlier(x, y) <=> a[x] < a[y] \/ (a[x] = a[y] /\ b[x] < b[y])
  BY <1>2, Zenon DEF Earlier
<1>6. PICK R : R = {z \in Found \X Found : Earlier(z[1], z[2])}
  OBVIOUS
<1>7. \A x, y \in Found : <<x, y>> \in R <=> a[x] < a[y] \/ (a[x] = a[y] /\ b[x] < b[y])
  BY <1>5, <1>6
<1>8. \A x, y \in Found : x # y => <<x, y>> \in R \/ <<y, x>> \in R
  BY <1>3, <1>4, <1>7
<1>9. \A x, y \in Found : ~ (<<x, y>> \in R /\ <<y, x>> \in R)
  <2>1. ASSUME NEW x \in Found, NEW y \in Found, <<x, y>> \in R, <<y, x>> \in R PROVE FALSE
    <3>1. PICK ax \in Nat, ay \in Nat, bx \in Nat, by \in Nat :
            ax = a[x] /\ ay = a[y] /\ bx = b[x] /\ by = b[y]
      BY <1>3
    <3>2. (ax < ay \/ (ax = ay /\ bx < by)) /\ (ay < ax \/ (ay = ax /\ by < bx))
      BY <1>7, <2>1, <3>1
    <3> QED
      BY <3>2
  <2> QED
    BY <2>1
<1>10. \A x, y, z \in Found : <<x, y>> \in R /\ <<y, z>> \in R => <<x, z>> \in R
  <2>1. ASSUME NEW x \in Found, NEW y \in Found, NEW z \in Found, <<x, y>> \in R, <<y, z>> \in R
        PROVE  <<x, z>> \in R
    <3>1. PICK ax \in Nat, ay \in Nat, az \in Nat, bx \in Nat, by \in Nat, bz \in Nat :
            ax = a[x] /\ ay = a[y] /\ az = a[z] /\ bx = b[x] /\ by = b[y] /\ bz = b[z]
      BY <1>3
    <3>2. (ax < ay \/ (ax = ay /\ bx < by)) /\ (ay < az \/ (ay = az /\ by < bz))
      BY <1>7, <2>1, <3>1
    <3>3. ax < az \/ (ax = az /\ bx < bz)
      BY <3>2
    <3> QED
      BY <1>7, <3>1, <3>3
  <2> QED
    BY <2>1
<1>11. PICK S : S = Found
  OBVIOUS
<1>12. \A n \in 1..Cardinality(S) : \E x \in S : Cardinality({y \in S : <<y, x>> \in R}) = n - 1
  <2>1. IsFiniteSet(S)
    BY <1>1, <1>11
  <2>2. \A x, y \in S : x # y => <<x, y>> \in R \/ <<y, x>> \in R
    BY <1>8, <1>11
  <2>3. \A x, y \in S : ~ (<<x, y>> \in R /\ <<y, x>> \in R)
    BY <1>9, <1>11
  <2>4. \A x, y, z \in S : <<x, y>> \in R /\ <<y, z>> \in R => <<x, z>> \in R
    BY <1>10, <1>11
  <2> QED
    BY <2>1, <2>2, <2>3, <2>4, Ranked
<1>13. \A x \in Found : {y \in Found : <<y, x>> \in R} = {y \in Found : Earlier(y, x)}
  BY <1>5, <1>7
<1>14. \A k \in 1..Cardinality(Found) : \E x \in Found : Cardinality({y \in Found : Earlier(y, x)}) = k - 1
  BY <1>11, <1>12, <1>13
<1>15. \A k \in 1..Cardinality(Found) : Active[k] \in Found
  BY <1>14 DEF Active
<1> QED
  BY <1>1, <1>15, FS_CardinalityType DEF Active

LEMMA ConcatIs ==
  ASSUME NEW s, NEW t, IsSeq(s), IsSeq(t)
  PROVE  /\ IsSeq(s \o t) /\ Len(s \o t) = Len(s) + Len(t)
         /\ \A i \in 1..Len(s) : (s \o t)[i] = s[i]
         /\ \A i \in 1..Len(t) : (s \o t)[Len(s) + i] = t[i]
<1>1. PICK S : S = {s[i] : i \in 1..Len(s)} \union {t[i] : i \in 1..Len(t)}
  OBVIOUS
<1>2. s \in Seq(S) /\ t \in Seq(S)
  <2>1. Len(s) \in Nat /\ s = [i \in 1..Len(s) |-> s[i]] /\ Len(t) \in Nat /\ t = [i \in 1..Len(t) |-> t[i]]
    BY DEF IsSeq
  <2>2. s \in [1..Len(s) -> S] /\ t \in [1..Len(t) -> S]
    BY <1>1, <2>1
  <2> QED
    BY <2>1, <2>2
<1>3. PICK u : u = s \o t
  OBVIOUS
<1>4. u \in Seq(S) /\ Len(u) = Len(s) + Len(t)
  BY <1>2, <1>3
<1>5. IsSeq(u)
  <2>1. Len(u) \in Nat /\ DOMAIN u = 1..Len(u)
    BY <1>4
  <2>2. u = [i \in 1..Len(u) |-> u[i]]
    BY <1>4
  <2> QED
    BY <2>1, <2>2 DEF IsSeq
<1>6. \A i \in 1..Len(s) : u[i] = s[i]
  BY <1>2, <1>3
<1>7. \A i \in 1..Len(t) : u[Len(s) + i] = t[i]
  BY <1>2, <1>3
<1> QED
  BY <1>3, <1>4, <1>5, <1>6, <1>7

\* seen: the nodes, with what their probes said; next: the active subdirs.
ProbedAs(seen, next, N, M) ==
  /\ seen = [i \in Node |->
           IF i \notin level THEN nodes[i]
           ELSE [nodes[i] EXCEPT
                   !.idle = [p \in Those(i, "idle") |-> fs.dir[DirAt(p)].rctime],
                   !.unreadable = Those(i, "denied")]]
  /\ next = [k \in 1..M |->
           NewNode(Active[k][2], Active[k][1], nodes[Active[k][1]].depth + 1,
                   listing[Active[k][1]][Active[k][2]])]
  /\ N = Len(nodes) /\ N \in Nat /\ Node = 1..N
  /\ M \in Nat /\ \A k \in 1..M : Active[k] \in Found
  /\ IsSeq(nodes') /\ Len(nodes') = N + M /\ level' = (N + 1)..(N + M)
  /\ \A i \in 1..N : nodes'[i] = seen[i]
  /\ \A k \in 1..M : nodes'[N + k] = next[k]

LEMMA ProbeLevelIs ==
  ASSUME ScanInv, ProbeLevel
  PROVE  \E seen, next, N, M : ProbedAs(seen, next, N, M)
<1>0. phase = "probing"
  BY DEF ProbeLevel
<1>1. PICK N, M, seen, next :
        /\ N = Len(nodes) /\ M = Cardinality(Found)
        /\ seen = [i \in Node |->
                 IF i \notin level THEN nodes[i]
                 ELSE [nodes[i] EXCEPT
                         !.idle = [p \in Those(i, "idle") |-> fs.dir[DirAt(p)].rctime],
                         !.unreadable = Those(i, "denied")]]
        /\ next = [k \in DOMAIN Active |->
                 NewNode(Active[k][2], Active[k][1], nodes[Active[k][1]].depth + 1,
                         listing[Active[k][1]][Active[k][2]])]
        /\ nodes' = seen \o next
        /\ level' = (Len(nodes) + 1)..(Len(nodes) + Len(next))
  BY Zenon DEF ProbeLevel
<1>2. N \in Nat /\ Node = 1..N /\ M \in Nat /\ DOMAIN Active = 1..M /\ \A k \in 1..M : Active[k] \in Found
  <2>1. Len(nodes) \in Nat /\ Node = 1..Len(nodes)
    BY KidsAre DEF ScanInv
  <2> QED
    BY <1>0, <1>1, <2>1, ActiveIs
<1>3. IsSeq(seen) /\ Len(seen) = N /\ IsSeq(next) /\ Len(next) = M
  <2>1. DOMAIN seen = 1..N /\ seen = [i \in 1..N |-> seen[i]]
    BY <1>1, <1>2
  <2>2. DOMAIN next = 1..M /\ next = [i \in 1..M |-> next[i]]
    BY <1>1, <1>2
  <2> QED
    BY <1>2, <2>1, <2>2, SeqIs
<1>4. PICK ns : /\ ns = nodes' /\ IsSeq(ns) /\ Len(ns) = N + M
                /\ \A i \in 1..N : ns[i] = seen[i]
                /\ \A k \in 1..M : ns[N + k] = next[k]
  <2>1. PICK ns : ns = seen \o next
    OBVIOUS
  <2>2. IsSeq(ns) /\ Len(ns) = Len(seen) + Len(next)
    BY <1>3, <2>1, ConcatIs
  <2>3. (\A i \in 1..Len(seen) : ns[i] = seen[i]) /\ \A k \in 1..Len(next) : ns[Len(seen) + k] = next[k]
    BY <1>3, <2>1, ConcatIs
  <2>4. nodes' = ns
    BY <1>1, <2>1
  <2> QED
    BY <1>3, <2>2, <2>3, <2>4
<1>5. level' = (N + 1)..(N + M)
  BY <1>1, <1>3
<1>6. next = [k \in 1..M |->
           NewNode(Active[k][2], Active[k][1], nodes[Active[k][1]].depth + 1,
                   listing[Active[k][1]][Active[k][2]])]
  BY <1>1, <1>2, Zenon
<1>7. /\ IsSeq(nodes') /\ Len(nodes') = N + M
      /\ \A i \in 1..N : nodes'[i] = seen[i]
      /\ \A k \in 1..M : nodes'[N + k] = next[k]
  BY <1>4, Zenon
<1>8. ProbedAs(seen, next, N, M)
  <2>1. /\ N = Len(nodes) /\ N \in Nat /\ Node = 1..N
        /\ M \in Nat /\ \A k \in 1..M : Active[k] \in Found
    <3>1. N = Len(nodes) /\ N \in Nat /\ M \in Nat /\ \A k \in 1..M : Active[k] \in Found
      BY <1>1, <1>2
    <3>2. Node = 1..N
      BY <3>1 DEF Node
    <3> QED
      BY <3>1, <3>2
  <2> QED
    BY <1>1, <1>5, <1>6, <1>7, <2>1, Zenon DEF ProbedAs
<1> QED
  BY <1>8

LEMMA ProbeLevelOK == ScanInv /\ ProbeLevel => ScanInv'
<1> SUFFICES ASSUME ScanInv, ProbeLevel PROVE ScanInv'
  OBVIOUS
<1>1. UNCHANGED <<fs, given, changes>> /\ phase = "probing" /\ phase' \in {"leaves", "listing"}
  BY DEF ProbeLevel
<1>2. FsOK' /\ (given \in Arguments)'
  BY <1>1 DEF ScanInv, FsOK, FsTyped
<1>3. PICK seen, next, N, M : ProbedAs(seen, next, N, M)
  BY ProbeLevelIs
<1>4. N \in Nat /\ Node = 1..N /\ M \in Nat /\ \A k \in 1..M : Active[k] \in Found
  BY <1>3, Zenon DEF ProbedAs
<1>5. \A k \in 1..M : LET x == Active[k] IN
        /\ x[1] \in level /\ x[1] \in 1..N
        /\ nodes[x[1]].reason = "" /\ nodes[x[1]].path \in Seq(Nat)
        /\ Last(x[2]) \in Nat /\ x[2] = Append(nodes[x[1]].path, Last(x[2]))
  BY <1>1, <1>3, <1>4, FoundIs, Zenon DEF ProbedAs
<1>6. \A i \in Node : NodeTyped(nodes[i])
  BY KidsAre DEF ScanInv, Forest
<1>7. \A i \in Node : KeepsPlace(seen[i], nodes[i])
  <2>1. ASSUME NEW n, NodeTyped(n), NEW a, NEW b
        PROVE  KeepsPlace(n, n) /\ KeepsPlace([n EXCEPT !.idle = a, !.unreadable = b], n)
    BY <2>1 DEF KeepsPlace, NodeTyped, HasFields, Fields
  <2>2. ASSUME NEW i \in Node PROVE KeepsPlace(seen[i], nodes[i])
    <3>1. PICK a, b : a = [p \in Those(i, "idle") |-> fs.dir[DirAt(p)].rctime] /\ b = Those(i, "denied")
      OBVIOUS
    <3>2. seen[i] = IF i \notin level THEN nodes[i] ELSE [nodes[i] EXCEPT !.idle = a, !.unreadable = b]
      BY <1>3, <3>1, Zenon DEF ProbedAs
    <3>3. KeepsPlace(nodes[i], nodes[i]) /\ KeepsPlace([nodes[i] EXCEPT !.idle = a, !.unreadable = b], nodes[i])
      BY <1>6, <2>1, Zenon
    <3> QED
      BY <3>2, <3>3, Zenon
  <2> QED
    BY <2>2
<1>8. \A k \in 1..M : IsNew(next[k], Active[k][2], Active[k][1])
  <2>1. ASSUME NEW k \in 1..M PROVE IsNew(next[k], Active[k][2], Active[k][1])
    <3>1. Active[k][1] \in Nat
      <4>1. Active[k][1] \in 1..N
        BY <1>5, Zenon
      <4> QED
        BY <1>4, <4>1
    <3>2. next[k] = NewNode(Active[k][2], Active[k][1], nodes[Active[k][1]].depth + 1,
                            listing[Active[k][1]][Active[k][2]])
      BY <1>3, Zenon DEF ProbedAs
    <3> QED
      BY <3>1, <3>2, NewNodeIs, Zenon
  <2> QED
    BY <2>1
<1>9. IsSeq(nodes') /\ Len(nodes') = N + M /\ level' = (N + 1)..(N + M)
  BY <1>3, Zenon DEF ProbedAs
<1>10. PICK ns : /\ ns = nodes' /\ IsSeq(ns) /\ Len(ns) = N + M
                 /\ \A i \in 1..N : ns[i] = seen[i]
                 /\ \A k \in 1..M : ns[N + k] = next[k]
  BY <1>3, <1>9, Zenon DEF ProbedAs
<1>11. ASSUME NEW i \in 1..N
       PROVE  /\ NodeTyped(ns[i]) /\ ns[i].parent = nodes[i].parent /\ ns[i].reason = nodes[i].reason
              /\ ns[i].parent \in Nat /\ ns[i].parent < i
              /\ ns[i].parent # 0 => nodes[ns[i].parent].reason = ""
  <2>1. i \in Node /\ ns[i] = seen[i]
    BY <1>4, <1>10
  <2>2. NodeTyped(ns[i]) /\ ns[i].parent = nodes[i].parent /\ ns[i].reason = nodes[i].reason
    BY <1>7, <2>1, Zenon DEF KeepsPlace
  <2>3. nodes[i].parent < i
    BY <2>1, KidsAre DEF ScanInv, Forest
  <2>4. nodes[i].parent # 0 => nodes[nodes[i].parent].reason = ""
    BY <2>1, KidsAre DEF ScanInv, Forest
  <2>5. ns[i].parent \in Nat
    BY <2>2 DEF NodeTyped
  <2> QED
    BY <2>2, <2>3, <2>4, <2>5
<1>12. ASSUME NEW k \in 1..M
       PROVE  /\ NodeTyped(ns[N + k]) /\ ns[N + k].parent = Active[k][1] /\ ns[N + k].reason = ""
              /\ ns[N + k].path = Active[k][2]
  BY <1>8, <1>10, Zenon DEF IsNew
<1>13. Forest(ns)
  <2>1. ASSUME NEW i \in 1..(N + M)
        PROVE  NodeTyped(ns[i]) /\ ns[i].parent < i /\ (ns[i].parent # 0 => ns[ns[i].parent].reason = "")
    <3>1. CASE i \in 1..N
      <4>1. PICK x : x = ns[i].parent /\ x \in Nat /\ x < i /\ NodeTyped(ns[i]) /\ (x # 0 => nodes[x].reason = "")
        BY <1>11, <3>1
      <4>2. x # 0 => x \in 1..N
        <5>1. x \in Nat /\ x < i
          BY <4>1
        <5> QED
          BY <1>4, <3>1, <5>1
      <4>3. x # 0 => ns[x].reason = ""
        BY <1>11, <4>1, <4>2, Zenon
      <4> QED
        BY <4>1, <4>3
    <3>2. CASE i \notin 1..N
      <4>1. PICK k \in 1..M : i = N + k
        <5>1. i - N \in 1..M /\ i = N + (i - N)
          BY <1>4, <3>2
        <5> QED
          BY <5>1
      <4>2. PICK x : x = Active[k][1] /\ x \in 1..N /\ nodes[x].reason = ""
        BY <1>5
      <4>3. ns[i].parent = x /\ NodeTyped(ns[i])
        BY <1>12, <4>1, <4>2, Zenon
      <4>4. ns[x].reason = ""
        BY <1>11, <4>2, Zenon
      <4>5. x < i
        <5>1. x \in 1..N
          BY <4>2
        <5> QED
          BY <1>4, <4>1, <5>1
      <4> QED
        BY <4>3, <4>4, <4>5
    <3> QED
      BY <3>1, <3>2
  <2> QED
    BY <1>10, <2>1 DEF Forest
<1>14. Forest(nodes)'
  BY <1>10, <1>13 DEF Forest, IsSeq
<1>15. level' = (N + 1)..(N + M)
  BY <1>9
<1>16. Childless(nodes, level)'
  <2>1. ASSUME NEW i \in 1..(N + M) PROVE ns[i].parent \notin (N + 1)..(N + M)
    <3>1. CASE i \in 1..N
      <4>1. ns[i].parent \in Nat /\ ns[i].parent < i
        BY <1>11, <3>1
      <4> QED
        BY <1>4, <3>1, <4>1
    <3>2. CASE i \notin 1..N
      <4>1. PICK k \in 1..M : i = N + k
        <5>1. i - N \in 1..M /\ i = N + (i - N)
          BY <1>4, <3>2
        <5> QED
          BY <5>1
      <4>2. PICK x : x = Active[k][1] /\ x \in 1..N
        BY <1>5
      <4>3. ns[i].parent = x
        BY <1>12, <4>1, <4>2, Zenon
      <4> QED
        BY <1>4, <4>2, <4>3
    <3> QED
      BY <3>1, <3>2
  <2>2. (N + 1)..(N + M) \subseteq 1..(N + M)
    BY <1>4
  <2> QED
    BY <1>10, <1>15, <2>1, <2>2 DEF Childless
<1>17. ASSUME NEW i \in level' PROVE ns[i].path \in Seq(Nat) /\ ns[i].reason = ""
  <2>1. PICK k \in 1..M : i = N + k
    <3>1. i - N \in 1..M /\ i = N + (i - N)
      BY <1>4, <1>15
    <3> QED
      BY <3>1
  <2>2. ns[i].path = Active[k][2] /\ ns[i].reason = ""
    BY <1>12, <2>1, Zenon
  <2>3. Active[k][2] \in Seq(Nat)
    <3>1. PICK q \in Seq(Nat), n \in Nat : Active[k][2] = Append(q, n)
      BY <1>5
    <3> QED
      BY <3>1
  <2> QED
    BY <2>2, <2>3
<1>18. BuildOK'
  BY <1>1, <1>10, <1>16, <1>17 DEF BuildOK
<1> QED
  BY <1>1, <1>2, <1>14, <1>18 DEF ScanInv

LEMMA ReportOK == ScanInv /\ (Report \/ SaveAndLoad) => ScanInv'
<1> SUFFICES ASSUME ScanInv, Report \/ SaveAndLoad PROVE ScanInv'
  OBVIOUS
<1>1. UNCHANGED <<fs, given, changes>>
  BY DEF Report, SaveAndLoad
<1>2. FsOK' /\ (given \in Arguments)'
  BY <1>1 DEF ScanInv, FsOK, FsTyped
<1>3. Forest(nodes)
  BY DEF ScanInv
<1>4. CASE Report
  <2>1. nodes' = nodes /\ phase' \in {"replayed", "done", "unsampled"} /\ rows' = Reported
    BY <1>4 DEF Report, Reported
  <2>2. Forest(nodes') /\ Len(nodes') = Len(nodes)
    BY <1>3, <2>1
  <2>3. \A i \in Node : Alike(nodes'[i], nodes[i])
    BY <2>1 DEF Alike
  <2>4. Reported' = Reported
    BY <1>3, <2>2, <2>3, SameReport
  <2>5. Forest(nodes)'
    BY <2>2 DEF Forest, IsSeq
  <2> QED
    BY <1>2, <2>1, <2>4, <2>5 DEF ScanInv, BuildOK
<1>5. CASE SaveAndLoad
  <2>1. rows' = rows /\ phase \in {"done", "unsampled"} /\ phase' = "loaded"
    BY <1>5 DEF SaveAndLoad
  <2>2. PICK ns : ns = nodes' /\ ns = [i \in Node |-> Restored(nodes[i])]
    BY <1>5 DEF SaveAndLoad
  <2>3. \A i \in Node : NodeTyped(nodes[i])
    BY <1>3, KidsAre DEF Forest
  <2>4. ASSUME NEW n, NodeTyped(n) PROVE KeepsPlace(Restored(n), n) /\ Alike(Restored(n), n)
    BY <2>4 DEF KeepsPlace, NodeTyped, HasFields, Fields, Restored, Alike
  <2>5. \A i \in Node : KeepsPlace(ns[i], nodes[i]) /\ Alike(ns[i], nodes[i])
    BY <2>2, <2>3, <2>4
  <2>6. Forest(ns) /\ Len(ns) = Len(nodes)
    <3>1. ns = [i \in Node |-> ns[i]]
      BY <2>2
    <3>2. \A i \in Node : NodeTyped(ns[i]) /\ ns[i].parent = nodes[i].parent /\ ns[i].reason = nodes[i].reason
      BY <2>5 DEF KeepsPlace
    <3> QED
      BY <1>3, <3>1, <3>2, Updated
  <2>7. Reported' = Reported
    BY <1>3, <2>2, <2>5, <2>6, SameReport
  <2>8. Forest(nodes)'
    BY <2>2, <2>6 DEF Forest, IsSeq
  <2>9. rows = Reported
    BY <2>1 DEF ScanInv
  <2> QED
    BY <1>2, <2>1, <2>7, <2>8, <2>9 DEF ScanInv, BuildOK
<1> QED
  BY <1>4, <1>5

LEMMA UntouchedOK == ScanInv /\ FsOK' /\ UNCHANGED tool => ScanInv'
<1> SUFFICES ASSUME ScanInv, FsOK', UNCHANGED tool PROVE ScanInv'
  OBVIOUS
<1>1. UNCHANGED <<phase, given, nodes, level, listing, rows>>
  BY DEF tool
<1>2. Forest(nodes) /\ Forest(nodes') /\ Len(nodes') = Len(nodes) /\ \A i \in Node : Alike(nodes'[i], nodes[i])
  BY <1>1 DEF ScanInv, Alike
<1>3. Reported' = Reported
  BY <1>2, SameReport
<1>4. Forest(nodes)'
  BY <1>2 DEF Forest, IsSeq
<1>5. BuildOK'
  BY <1>1 DEF ScanInv, BuildOK, Childless
<1>6. (phase \in {"done", "unsampled", "loaded"} => rows = Reported)'
  BY <1>1, <1>3 DEF ScanInv
<1> QED
  BY <1>1, <1>4, <1>5, <1>6 DEF ScanInv

LEMMA ScanNextOK == ScanInv /\ [ScanNext]_scanVars => ScanInv'
<1> SUFFICES ASSUME ScanInv, [ScanNext]_scanVars PROVE ScanInv'
  OBVIOUS
<1>1. CASE Scan
  BY <1>1, PreflightOK, FailedOK, ListLevelOK, ProbeLevelOK, MarkLeavesOK, PassOK, FollowingOK, RereadOK, ReportOK
     DEF Scan
<1>2. CASE Change
  BY <1>2, ChangeIs, UntouchedOK DEF ScanInv
<1>3. CASE UNCHANGED scanVars
  <2>1. UNCHANGED tool /\ fs' = fs /\ changes' = changes
    BY <1>3 DEF scanVars, tool
  <2>2. FsOK'
    BY <2>1 DEF ScanInv, FsOK, FsTyped
  <2> QED
    BY <2>1, <2>2, UntouchedOK
<1> QED
  BY <1>1, <1>2, <1>3 DEF ScanNext, ScanOver

LEMMA ScanIsInv == ScanSpec => []ScanInv
BY ScanInitOK, ScanNextOK, PTL DEF ScanSpec

\* No growth of the threshold or more is hidden from the rows (analyze), and as long as nothing
\* shrank none is reported twice (measured, analyze): whatever was renamed, vanished, or could
\* not be read.
THEOREM NothingHiddenOrTwice == ScanSpec => []RowsAddUp
<1>1. ScanInv => RowsAddUp
  <2> SUFFICES ASSUME ScanInv, phase = "done" PROVE RowsAddUp
    BY DEF RowsAddUp
  <2>1. Forest(nodes) /\ rows = Reported
    BY DEF ScanInv
  <2> QED
    BY <2>1, ReportedAddsUp
<1> QED
  BY <1>1, ScanIsInv, PTL

\* A saved run, loaded again (save_state, load_state), reports what it did.
THEOREM ReplayReportsTheSame == ScanSpec => ReplayIsTheSame
<1>1. ScanInv /\ [ScanNext]_scanVars => [phase = "loaded" => rows' = rows]_scanVars
  <2> SUFFICES ASSUME ScanInv, ScanNext, phase = "loaded" PROVE rows' = rows
    OBVIOUS
  <2>1. CASE Scan
    <3>1. CASE Report
      BY <3>1 DEF Report, Reported, ScanInv
    <3>2. CASE \E p \in Node : Relist(p) \/ FollowIn(p)
      BY <3>2 DEF Relist, FollowIn
    <3>3. CASE Preflight \/ Refuse \/ ListLevel \/ ProbeLevel \/ GiveUp \/ MarkLeaves
                 \/ FirstPass \/ SecondPass \/ Reread \/ Recheck \/ SaveAndLoad
      BY <3>3 DEF Preflight, Refuse, ListLevel, ProbeLevel, GiveUp, MarkLeaves, FirstPass, SecondPass,
                  Reread, Recheck, SaveAndLoad
    <3> QED
      BY <2>1, <3>1, <3>2, <3>3 DEF Scan
  <2>2. CASE Change
    BY <2>2, ChangeIs DEF ScanInv, tool
  <2>3. CASE ScanOver
    BY <2>3 DEF ScanOver
  <2> QED
    BY <2>1, <2>2, <2>3 DEF ScanNext
<1> QED
  BY <1>1, ScanIsInv, PTL DEF ScanSpec, ReplayIsTheSame

-----------------------------------------------------------------------------
(* Renames are followed.                                                    *)

HasPath(n) == n.path \in Seq(Nat) /\ (n.parent # 0 => n.path # <<>>)

PathsOf(shown) == \A q \in DOMAIN shown : q \in Seq(Nat) /\ q # <<>>

Unmoved(p, moved) == \A j \in moved : p \notin Subtree(j)

NotListed(i) ==
  LET path == nodes[nodes[i].parent].path
  IN  Listable(path) => \A q \in DOMAIN SubdirsAt(path) : SubdirsAt(path)[q] # nodes[i].ino

\* What became of a missing subdir whose parent's listing was taken.
Settled(i) ==
  Unmoved(nodes[i].parent, relists.renamed) =>
    IF i \in relists.renamed THEN DirAt(nodes[i].path) # Gone ELSE NotListed(i)

IsRelists(r) == r = [missing |-> r.missing, parents |-> r.parents, found |-> r.found, renamed |-> r.renamed]

FollowOK ==
  /\ IsRelists(relists) /\ relists.missing = Missing(nodes)
  /\ relists.renamed \subseteq relists.missing
  /\ \A i \in relists.renamed : nodes[i].renamedFrom # <<>> /\ nodes[i].parent \notin relists.parents
  /\ \A p \in DOMAIN relists.found :
       /\ p \in Node /\ PathsOf(relists.found[p])
       /\ Unmoved(p, relists.renamed) => relists.found[p] = RelistOf(p)
  /\ \A i \in relists.missing : nodes[i].parent \in relists.parents \/ Settled(i)

NothingAbove(i) == \A j \in Node \ {i} : i \in Subtree(j) => nodes[j].renamedFrom = <<>>

AllFollowed == \A i \in Node : NothingAbove(i) => Followed(i)

\* As long as the filesystem changes only between the passes.
AsleepInv ==
  /\ \A i \in Node : nodes[i].ino # Gone /\ HasPath(nodes[i])
  /\ phase = "probing" => \A i \in level : \A p \in DOMAIN listing[i] : listing[i][p] = DirAt(p)
  /\ phase = "following" => FollowOK
  /\ phase \in {"rechecking", "reporting", "done"} => AllFollowed

RenameInv == ScanInv /\ (OnlyAsleep => AsleepInv)

LEMMA SameFs ==
  ASSUME fs' = fs
  PROVE  /\ \A p : DirAt(p)' = DirAt(p) /\ SubdirsAt(p)' = SubdirsAt(p)
         /\ \A p, call : Error(p, call)' = Error(p, call)
         /\ \A p : Listable(p)' = Listable(p)
<1>1. ASSUME NEW p PROVE DirAt(p)' = DirAt(p)
  BY DEF DirAt
<1>2. ASSUME NEW p, NEW call PROVE Error(p, call)' = Error(p, call)
  BY <1>1 DEF Error
<1>3. ASSUME NEW p PROVE SubdirsAt(p)' = SubdirsAt(p)
  <2>1. Subdirs(DirAt(p))' = Subdirs(DirAt(p))
    BY <1>1 DEF Subdirs
  <2>2. {Append(p, fs.dir[j].name) : j \in Subdirs(DirAt(p))}' = {Append(p, fs.dir[j].name) : j \in Subdirs(DirAt(p))}
    BY <2>1
  <2> QED
    BY <1>1, <2>2 DEF SubdirsAt
<1> QED
  BY <1>1, <1>2, <1>3 DEF Listable

\* A step that leaves the nodes' parents alone.
LEMMA SameNodes ==
  ASSUME Forest(nodes), nodes' = [i \in Node |-> nodes'[i]],
         \A i \in Node : nodes'[i].parent = nodes[i].parent
  PROVE  Node' = Node /\ \A i \in Node : Kids(i)' = Kids(i)
<1>1. PICK N : N = Len(nodes) /\ N \in Nat /\ Node = 1..N
  BY KidsAre
<1>2. PICK ns : ns = nodes' /\ DOMAIN ns = 1..N /\ ns = [i \in 1..N |-> ns[i]]
  BY <1>1
<1>3. Len(ns) = N
  BY <1>1, <1>2, SeqIs
<1>4. Node' = Node
  BY <1>1, <1>2, <1>3 DEF Node
<1> QED
  BY <1>4 DEF Kids

SubtreesBuilt == \A i \in Node : Subtree(i) = {i} \union (UNION {Subtree(j) : j \in Kids(i)})

LEMMA TreesAreBuilt == ASSUME Forest(nodes) PROVE SubtreesBuilt
BY SubtreeIs DEF SubtreesBuilt

LEMMA SameSubtrees ==
  ASSUME Forest(nodes), Forest(nodes)', Node' = Node, \A i \in Node : Kids(i)' = Kids(i)
  PROVE  \A i \in Node : Subtree(i)' = Subtree(i)
<1>1. PICK N : N = Len(nodes) /\ N \in Nat /\ Node = 1..N
  BY KidsAre
<1>2. SubtreesBuilt /\ SubtreesBuilt'
  <2>1. (Forest(nodes) => SubtreesBuilt)'
    BY TreesAreBuilt, PTL
  <2> QED
    BY <2>1, TreesAreBuilt
<1>3. \A i \in Node : Subtree(i)' = {i} \union (UNION {Subtree(j)' : j \in Kids(i)})
  <2>1. \A i \in Node : Subtree(i)' = {i} \union (UNION {Subtree(j)' : j \in Kids(i)'})
    BY <1>2 DEF SubtreesBuilt
  <2> QED
    BY <2>1
<1>4. \A i \in Node : Subtree(i) = {i} \union (UNION {Subtree(j) : j \in Kids(i)})
  BY SubtreeIs
<1>5. PICK F : F = {i \in Node : Subtree(i)' = Subtree(i)}
  OBVIOUS
<1>6. ASSUME NEW i \in 1..N, \A j \in (i + 1)..N : j \in F PROVE i \in F
  <2>1. \A j \in Kids(i) : j \in (i + 1)..N /\ j \in Node
    BY <1>1, KidsAre
  <2>2. \A j \in Kids(i) : Subtree(j)' = Subtree(j)
    BY <1>5, <1>6, <2>1
  <2>3. {Subtree(j)' : j \in Kids(i)} = {Subtree(j) : j \in Kids(i)}
    BY <2>2
  <2> QED
    BY <1>1, <1>3, <1>4, <1>5, <2>3
<1>7. \A i \in 1..N : i \in F
  BY <1>1, <1>6, DownFrom
<1> QED
  BY <1>1, <1>5, <1>7

\* What is below a directory that is in a subtree is in it too.
LEMMA SubtreesNest ==
  ASSUME Forest(nodes), NEW i \in Node, NEW j \in Node, nodes[i].parent \in Subtree(j)
  PROVE  i \in Subtree(j)
<1>1. PICK N : N = Len(nodes) /\ N \in Nat /\ Node = 1..N
  BY KidsAre
<1>2. PICK p : p = nodes[i].parent
  OBVIOUS
<1>3. PICK F : F = {k \in Node : p \in Subtree(k) => i \in Subtree(k)}
  OBVIOUS
<1>4. ASSUME NEW k \in 1..N, \A m \in (k + 1)..N : m \in F PROVE k \in F
  <2>1. k \in Node /\ Subtree(k) = {k} \union (UNION {Subtree(m) : m \in Kids(k)})
    BY <1>1, SubtreeIs
  <2>2. ASSUME p \in Subtree(k) PROVE i \in Subtree(k)
    <3>1. CASE p = k
      <4>1. i \in Kids(k)
        BY <1>2, <3>1 DEF Kids
      <4>2. i \in Subtree(i)
        BY SubtreeIs
      <4> QED
        BY <2>1, <4>1, <4>2
    <3>2. CASE p # k
      <4>1. PICK m \in Kids(k) : p \in Subtree(m)
        BY <2>1, <2>2, <3>2
      <4>2. m \in (k + 1)..N
        BY <1>1, <2>1, KidsAre
      <4>3. i \in Subtree(m)
        BY <1>3, <1>4, <4>1, <4>2
      <4> QED
        BY <2>1, <4>1, <4>3
    <3> QED
      BY <3>1, <3>2
  <2> QED
    BY <1>3, <2>1, <2>2
<1>5. \A k \in 1..N : k \in F
  BY <1>1, <1>4, DownFrom
<1> QED
  BY <1>1, <1>2, <1>3, <1>5

\* Who is below a renamed one, and is not it, has a parent that is below it too.
LEMMA InSubtree ==
  ASSUME Forest(nodes), NEW i \in Node, NEW j \in Node
  PROVE  /\ i \in Subtree(i)
         /\ i \in Subtree(j) => i = j \/ nodes[i].parent \in Subtree(j)
         /\ i \in Subtree(j) => j <= i
BY SubtreeIs

LEMMA ForestParents ==
  ASSUME Forest(nodes), NEW i \in Node
  PROVE  nodes[i].parent \in Nat /\ nodes[i].parent < i /\ (nodes[i].parent # 0 => nodes[i].parent \in Node)
<1>1. PICK N : N = Len(nodes) /\ N \in Nat /\ Node = 1..N
  BY KidsAre
<1>2. NodeTyped(nodes[i]) /\ nodes[i].parent < i
  BY KidsAre DEF Forest
<1>3. PICK p : p = nodes[i].parent /\ p \in Nat /\ p < i
  BY <1>2 DEF NodeTyped
<1> QED
  BY <1>1, <1>3

-----------------------------------------------------------------------------
(* Steps that rename nothing.                                               *)

KeepsName(new, old) ==
  new.path = old.path /\ new.parent = old.parent /\ new.ino = old.ino /\ new.renamedFrom = old.renamedFrom

\* What it is, and whether it was lost.
KeepsState(new, old) ==
  new.parent = old.parent /\ new.ino = old.ino /\ new.vanished = old.vanished /\ new.s1 = old.s1

KeepsLoss(new, old) == KeepsName(new, old) /\ KeepsState(new, old)

Quiet == nodes' = [i \in Node |-> nodes'[i]] /\ \A i \in Node : KeepsName(nodes'[i], nodes[i])

LEMMA QuietIs ==
  ASSUME ScanInv, ScanInv', AsleepInv, Quiet
  PROVE  /\ Node' = Node /\ \A i \in Node : Kids(i)' = Kids(i) /\ Subtree(i)' = Subtree(i)
         /\ (\A i \in Node : nodes[i].ino # Gone /\ HasPath(nodes[i]))'
<1>1. Forest(nodes) /\ Forest(nodes)'
  BY DEF ScanInv
<1>2. \A i \in Node : nodes'[i].parent = nodes[i].parent
  BY DEF Quiet, KeepsName
<1>3. Node' = Node /\ \A i \in Node : Kids(i)' = Kids(i)
  BY <1>1, <1>2, SameNodes DEF Quiet
<1>4. \A i \in Node : Subtree(i)' = Subtree(i)
  BY <1>1, <1>3, SameSubtrees
<1>5. \A i \in Node : nodes'[i].ino # Gone /\ HasPath(nodes'[i])
  BY DEF AsleepInv, HasPath, Quiet, KeepsName
<1>6. (\A i \in Node : nodes[i].ino # Gone /\ HasPath(nodes[i]))'
  BY <1>3, <1>5 DEF HasPath
<1> QED
  BY <1>3, <1>4, <1>6

Idle == {"listing", "leaves", "sampling", "sleeping", "failed", "loaded", "replayed"}

LEMMA QuietKeeps ==
  ASSUME ScanInv, ScanInv', AsleepInv, Quiet, phase' \in Idle
  PROVE  AsleepInv'
BY QuietIs DEF AsleepInv, Idle

\* Where nothing is lost either, what was followed is.
LEMMA FollowedKept ==
  ASSUME ScanInv, ScanInv', AsleepInv, Quiet, fs' = fs, AllFollowed,
         \A i \in Node : KeepsLoss(nodes'[i], nodes[i])
  PROVE  AllFollowed'
<1>1. Node' = Node /\ \A i \in Node : Subtree(i)' = Subtree(i)
  BY QuietIs
<1>2. PICK ns : ns = nodes'
  OBVIOUS
<1>3. ASSUME NEW i \in Node PROVE NothingAbove(i)' => NothingAbove(i)
  BY <1>1 DEF NothingAbove, KeepsLoss, KeepsName
<1>4. ASSUME NEW i \in Node, Followed(i) PROVE Followed(i)'
  <2>1. nodes[i].parent # 0 => nodes[i].parent \in Node
    BY ForestParents DEF ScanInv
  <2>2. nodes'[i].vanished = nodes[i].vanished /\ nodes'[i].s1 = nodes[i].s1 /\ nodes'[i].parent = nodes[i].parent
        /\ nodes'[i].ino = nodes[i].ino
    BY DEF KeepsLoss, KeepsState
  <2>3. nodes[i].parent # 0 => nodes'[nodes[i].parent].path = nodes[nodes[i].parent].path
    BY <2>1 DEF KeepsLoss, KeepsName
  <2> QED
    BY <1>4, <2>2, <2>3, SameFs DEF Followed
<1> QED
  BY <1>1, <1>3, <1>4 DEF AllFollowed

-----------------------------------------------------------------------------
(* Following.                                                               *)

Below(some, i) == {m \in some : i \in Subtree(m[1])}

\* What a rename makes of a node below it.
Goes(new, old, i, m, from) ==
  /\ KeepsState(new, old) /\ new.path = Moved(old.path, from, m[2])
  /\ new.renamedFrom = IF i = m[1] THEN old.path ELSE old.renamedFrom

LEMMA RerootedIs ==
  ASSUME NEW n, HasFields(n), NEW from, NEW to
  PROVE  /\ HasFields(Rerooted(n, from, to))
         /\ KeepsState(Rerooted(n, from, to), n)
         /\ Rerooted(n, from, to).path = Moved(n.path, from, to)
         /\ Rerooted(n, from, to).renamedFrom = n.renamedFrom
<1>1. PICK a, b, c, d : Rerooted(n, from, to) = [n EXCEPT !.path = a, !.idle = b, !.unreadable = c, !.wokeUp = d]
                        /\ a = Moved(n.path, from, to)
  BY Zenon DEF Rerooted
<1> QED
  BY <1>1 DEF HasFields, Fields, KeepsState

LEMMA FollowInIs ==
  ASSUME ScanInv, NEW p \in Node, FollowIn(p)
  PROVE  /\ nodes' = [i \in Node |-> nodes'[i]]
         /\ \A i \in Node : Below(Renamed(p), i) = {} => nodes'[i] = nodes[i]
         /\ \A i \in Node : Below(Renamed(p), i) # {} =>
              \E m \in Below(Renamed(p), i) : Goes(nodes'[i], nodes[i], i, m, nodes[m[1]].path)
<1> DEFINE R == Renamed(p)
           root(i) == {m \in R : i \in Subtree(m[1])}
           chosen(i) == CHOOSE m \in root(i) : TRUE
           there(i) == Rerooted(nodes[i], nodes[chosen(i)[1]].path, chosen(i)[2])
           after(i) == IF i = chosen(i)[1] THEN [there(i) EXCEPT !.renamedFrom = nodes[i].path] ELSE there(i)
<1>1. nodes' = [i \in Node |-> IF root(i) = {} THEN nodes[i] ELSE after(i)]
  BY Zenon DEF FollowIn
<1>2. \A i \in Node : root(i) = Below(R, i)
  BY DEF Below
<1>3. \A i \in Node : HasFields(nodes[i])
  BY KidsAre DEF ScanInv, Forest, NodeTyped
<1>4. ASSUME NEW i \in Node, root(i) # {}
      PROVE  chosen(i) \in root(i) /\ Goes(after(i), nodes[i], i, chosen(i), nodes[chosen(i)[1]].path)
  <2>1. chosen(i) \in root(i)
    BY <1>4
  <2>2. PICK m, from, n : m = chosen(i) /\ from = nodes[m[1]].path /\ n = nodes[i]
    OBVIOUS
  <2>3. PICK t : t = Rerooted(n, from, m[2])
    OBVIOUS
  <2>4. HasFields(t) /\ KeepsState(t, n) /\ t.path = Moved(n.path, from, m[2]) /\ t.renamedFrom = n.renamedFrom
    BY <1>3, <2>2, <2>3, RerootedIs
  <2>5. after(i) = IF i = m[1] THEN [t EXCEPT !.renamedFrom = n.path] ELSE t
    BY <2>2, <2>3
  <2>6. Goes(after(i), n, i, m, from)
    <3> HIDE DEF after, chosen, root
    <3> QED
      BY <2>4, <2>5 DEF Goes, KeepsState, HasFields, Fields
  <2> QED
    BY <2>1, <2>2, <2>6
<1> HIDE DEF R, root, chosen, after
<1>5. nodes' = [i \in Node |-> nodes'[i]]
  BY <1>1
<1>6. \A i \in Node : nodes'[i] = IF root(i) = {} THEN nodes[i] ELSE after(i)
  BY <1>1
<1> QED
  BY <1>2, <1>4, <1>5, <1>6 DEF R

LEMMA MovedIs ==
  ASSUME NEW p \in Seq(Nat), NEW from \in Seq(Nat), NEW to \in Seq(Nat), to # <<>>
  PROVE  /\ Moved(p, from, to) \in Seq(Nat)
         /\ p # <<>> => Moved(p, from, to) # <<>>
         /\ Moved(from, from, to) = to
<1>1. ASSUME NEW q \in Seq(Nat), Within(q, from)
      PROVE  /\ to \o SubSeq(q, Len(from) + 1, Len(q)) \in Seq(Nat)
             /\ to \o SubSeq(q, Len(from) + 1, Len(q)) # <<>>
  <2>1. Len(from) <= Len(q) /\ Len(from) \in Nat /\ Len(q) \in Nat
    BY <1>1 DEF Within, IsPrefix
  <2>2. PICK r : r = SubSeq(q, Len(from) + 1, Len(q)) /\ r \in Seq(Nat)
    <3>0. PICK a, b : a = Len(from) + 1 /\ b = Len(q)
      OBVIOUS
    <3>1. a = Len(from) + 1 /\ b = Len(q) /\ a \in 1..(b + 1) /\ b \in Nat
      BY <2>1, <3>0
    <3>2. PICK r : r = SubSeq(q, a, b)
      OBVIOUS
    <3>3. r \in Seq(Nat)
      BY <3>1, <3>2
    <3> QED
      BY <3>1, <3>2, <3>3
  <2>3. to \o r \in Seq(Nat) /\ Len(to \o r) = Len(to) + Len(r) /\ Len(to) # 0
    BY <2>2
  <2> QED
    BY <2>2, <2>3
<1>2. Within(from, from)
  BY DEF Within, IsPrefix
<1>3. to \o SubSeq(from, Len(from) + 1, Len(from)) = to
  <2>1. SubSeq(from, Len(from) + 1, Len(from)) = <<>>
    OBVIOUS
  <2> QED
    BY <2>1
<1> QED
  BY <1>1, <1>2, <1>3 DEF Moved

\* A directory is below one renamed subdir of a parent at most.
LEMMA OneBelow ==
  ASSUME Forest(nodes), NEW p \in Node, NEW some,
         \A m \in some : m[1] \in Kids(p)
  PROVE  /\ \A m, other \in some : Subtree(m[1]) \intersect Subtree(other[1]) # {} => m[1] = other[1]
         /\ Below(some, p) = {}
<1>1. Below(some, p) = {}
  BY SubtreesApart DEF Below
<1> QED
  BY <1>1, SubtreesApart

LEMMA FollowInKeeps ==
  ASSUME ScanInv, ScanInv', AsleepInv, NEW p \in Node, FollowIn(p)
  PROVE  AsleepInv'
<1>1. /\ phase = "following" /\ phase' = "following" /\ fs' = fs
      /\ p \in relists.parents /\ p \in DOMAIN relists.found
  BY DEF FollowIn
<1>2. FollowOK
  BY <1>1 DEF AsleepInv
<1>3. Forest(nodes) /\ Forest(nodes)'
  BY DEF ScanInv
<1>4. PICK R : R = Renamed(p)
  OBVIOUS
<1>5. PICK missing, parents, shown, renamed :
        /\ relists = [missing |-> missing, parents |-> parents, found |-> shown, renamed |-> renamed]
        /\ missing = relists.missing /\ parents = relists.parents /\ shown = relists.found /\ renamed = relists.renamed
  BY <1>2 DEF FollowOK, IsRelists
<1>6. /\ missing = Missing(nodes) /\ renamed \subseteq missing
      /\ \A i \in renamed : nodes[i].renamedFrom # <<>> /\ nodes[i].parent \notin parents
      /\ \A q \in DOMAIN shown : /\ q \in Node /\ PathsOf(shown[q])
                                 /\ Unmoved(q, renamed) => shown[q] = RelistOf(q)
      /\ \A i \in missing : nodes[i].parent \in parents \/ Settled(i)
  BY <1>2, <1>5 DEF FollowOK
<1>7. relists' = [missing |-> missing, parents |-> parents \ {p}, found |-> shown,
                  renamed |-> renamed \union {m[1] : m \in R}]
  BY <1>4, <1>5 DEF FollowIn
<1>8. \A m \in R : m[1] \in missing /\ m[1] \in Kids(p) /\ m[2] \in DOMAIN shown[p] /\ shown[p][m[2]] = nodes[m[1]].ino
  BY <1>4, <1>5 DEF Renamed
<1>9. \A i \in missing : /\ i \in Node /\ nodes[i].vanished /\ nodes[i].s1 # NoSample /\ nodes[i].parent # 0
                         /\ nodes[i].parent \in Node
  <2>1. DOMAIN nodes = Node
    BY <1>3 DEF Forest, IsSeq, Node
  <2>2. \A i \in missing : i \in Node /\ nodes[i].vanished /\ nodes[i].s1 # NoSample /\ nodes[i].parent # 0
    BY <1>6, <2>1 DEF Missing
  <2> QED
    BY <1>3, <2>2, ForestParents
<1>10. /\ nodes' = [i \in Node |-> nodes'[i]]
       /\ \A i \in Node : Below(R, i) = {} => nodes'[i] = nodes[i]
       /\ \A i \in Node : Below(R, i) # {} =>
            \E m \in Below(R, i) : Goes(nodes'[i], nodes[i], i, m, nodes[m[1]].path)
  BY <1>4, FollowInIs
<1>11. \A i \in Node : KeepsState(nodes'[i], nodes[i])
  BY <1>10 DEF Goes, KeepsState
<1>12. Node' = Node /\ \A i \in Node : Kids(i)' = Kids(i) /\ Subtree(i)' = Subtree(i)
  <2>1. Node' = Node /\ \A i \in Node : Kids(i)' = Kids(i)
    BY <1>3, <1>10, <1>11, SameNodes DEF KeepsState
  <2> QED
    BY <1>3, <2>1, SameSubtrees
<1>13. \A i \in Node : nodes[i].ino # Gone /\ HasPath(nodes[i])
  BY DEF AsleepInv
<1>14. \A m \in R : m[1] \in Node /\ nodes[m[1]].path \in Seq(Nat) /\ m[2] \in Seq(Nat) /\ m[2] # <<>>
  <2>1. PathsOf(shown[p])
    BY <1>1, <1>5, <1>6
  <2> QED
    BY <1>8, <1>9, <1>13, <2>1 DEF PathsOf, HasPath
<1>15. \A i \in Node : nodes'[i].ino # Gone /\ HasPath(nodes'[i])
  <2>1. ASSUME NEW i \in Node, NEW m \in Below(R, i), Goes(nodes'[i], nodes[i], i, m, nodes[m[1]].path)
        PROVE  HasPath(nodes'[i])
    <3>1. m \in R
      BY DEF Below
    <3>2. PICK old, from, to : old = nodes[i].path /\ from = nodes[m[1]].path /\ to = m[2]
      OBVIOUS
    <3>3. old \in Seq(Nat) /\ from \in Seq(Nat) /\ to \in Seq(Nat) /\ to # <<>>
      BY <1>13, <1>14, <3>1, <3>2 DEF HasPath
    <3>4. Moved(old, from, to) \in Seq(Nat) /\ (old # <<>> => Moved(old, from, to) # <<>>)
      BY <3>3, MovedIs
    <3> QED
      BY <1>13, <2>1, <3>2, <3>4 DEF HasPath, Goes, KeepsState
  <2> QED
    BY <1>10, <1>11, <1>13, <2>1 DEF KeepsState
<1>16. \A m, other \in R : Subtree(m[1]) \intersect Subtree(other[1]) # {} => m[1] = other[1]
  BY <1>3, <1>8, OneBelow
<1>17. Below(R, p) = {} /\ nodes'[p] = nodes[p]
  BY <1>3, <1>8, <1>10, OneBelow
\* One that is renamed goes where the listing shows it.
<1>18. ASSUME NEW m \in R
       PROVE  \E to \in DOMAIN shown[p] : /\ shown[p][to] = nodes[m[1]].ino
                                          /\ nodes'[m[1]].path = to
                                          /\ nodes'[m[1]].renamedFrom # <<>>
  <2>1. PICK i : i = m[1] /\ i \in Node /\ i \in Subtree(i)
    BY <1>3, <1>14, InSubtree
  <2>2. m \in Below(R, i)
    BY <2>1 DEF Below
  <2>3. PICK other \in Below(R, i) : Goes(nodes'[i], nodes[i], i, other, nodes[other[1]].path)
    BY <1>10, <2>1, <2>2
  <2>4. other \in R /\ other[1] = i
    BY <1>16, <2>1, <2>3 DEF Below
  <2>5. nodes'[i].path = Moved(nodes[i].path, nodes[i].path, other[2]) /\ nodes'[i].renamedFrom = nodes[i].path
    BY <2>3, <2>4 DEF Goes
  <2>6. nodes[i].path \in Seq(Nat) /\ nodes[i].path # <<>> /\ other[2] \in Seq(Nat) /\ other[2] # <<>>
    BY <1>8, <1>9, <1>13, <1>14, <2>1, <2>4 DEF HasPath
  <2>7. Moved(nodes[i].path, nodes[i].path, other[2]) = other[2]
    BY <2>6, MovedIs
  <2> QED
    BY <1>8, <2>1, <2>4, <2>5, <2>6, <2>7
\* Below none, and not under it, is where it was.
<1>19. ASSUME NEW q \in Node, Unmoved(q, renamed \union {m[1] : m \in R})'
       PROVE  nodes'[q] = nodes[q] /\ Unmoved(q, renamed)
  <2>1. \A j \in renamed \union {m[1] : m \in R} : q \notin Subtree(j)
    <3>1. renamed \union {m[1] : m \in R} \subseteq Node
      BY <1>6, <1>9, <1>14
    <3> QED
      BY <1>12, <1>19, <3>1 DEF Unmoved
  <2>2. Below(R, q) = {}
    BY <2>1 DEF Below
  <2> QED
    BY <1>10, <2>1, <2>2 DEF Unmoved
<1>20. IsRelists(relists') /\ (relists.missing = Missing(nodes))'
  <2>1. DOMAIN nodes = Node /\ DOMAIN nodes' = Node
    BY <1>3, <1>10 DEF Forest, IsSeq, Node
  <2>2. Missing(nodes') = Missing(nodes)
    BY <1>11, <2>1 DEF Missing, KeepsState
  <2>3. (relists.missing = Missing(nodes))'
    BY <1>6, <1>7, <2>2 DEF Missing
  <2> QED
    BY <1>7, <2>3 DEF IsRelists
<1>21. (relists.renamed \subseteq relists.missing)'
  BY <1>6, <1>7, <1>8
<1>22. ASSUME NEW i \in renamed \union {m[1] : m \in R}
       PROVE  nodes'[i].renamedFrom # <<>> /\ nodes'[i].parent \notin parents \ {p}
  <2>1. CASE i \in {m[1] : m \in R}
    <3>1. PICK m \in R : i = m[1]
      BY <2>1
    <3>2. nodes'[i].renamedFrom # <<>>
      BY <1>18, <3>1
    <3>3. i \in Kids(p) /\ i \in Node
      BY <1>8, <1>9, <3>1
    <3> QED
      BY <1>11, <3>2, <3>3 DEF Kids, KeepsState
  <2>2. CASE i \notin {m[1] : m \in R}
    <3>1. i \in renamed /\ i \in Node
      BY <1>6, <1>9, <2>2
    <3>2. nodes'[i].renamedFrom = nodes[i].renamedFrom
      <4>1. ASSUME NEW m \in Below(R, i), Goes(nodes'[i], nodes[i], i, m, nodes[m[1]].path)
            PROVE  nodes'[i].renamedFrom = nodes[i].renamedFrom
        <5>1. m \in R /\ i # m[1]
          BY <2>2 DEF Below
        <5> QED
          BY <4>1, <5>1 DEF Goes
      <4> QED
        BY <1>10, <3>1, <4>1
    <3> QED
      BY <1>6, <1>11, <3>1, <3>2 DEF KeepsState
  <2> QED
    BY <2>1, <2>2
<1>23. ASSUME NEW q \in DOMAIN shown
       PROVE  /\ q \in Node /\ PathsOf(shown[q])
              /\ Unmoved(q, renamed \union {m[1] : m \in R})' => shown[q] = RelistOf(q)'
  <2>1. q \in Node /\ PathsOf(shown[q])
    BY <1>6
  <2>2. ASSUME Unmoved(q, renamed \union {m[1] : m \in R})' PROVE shown[q] = RelistOf(q)'
    <3>1. nodes'[q] = nodes[q] /\ Unmoved(q, renamed)
      BY <1>19, <2>1, <2>2
    <3>2. RelistOf(q)' = RelistOf(q)
      BY <1>1, <3>1, SameFs DEF RelistOf
    <3> QED
      BY <1>6, <3>1, <3>2
  <2> QED
    BY <2>1, <2>2
<1>24. ASSUME NEW i \in missing, NEW q, q = nodes[i].parent, q \notin parents \ {p},
              Unmoved(q, renamed \union {m[1] : m \in R})'
       PROVE  IF i \in renamed \union {m[1] : m \in R} THEN DirAt(nodes[i].path)' # Gone ELSE NotListed(i)'
  <2>1. q = nodes[i].parent /\ q \in Node /\ i \in Node
    BY <1>9, <1>24
  <2>2. nodes'[q] = nodes[q] /\ Unmoved(q, renamed)
    BY <1>19, <1>24, <2>1
  <2>3. nodes'[i].parent = q /\ nodes'[i].ino = nodes[i].ino
    BY <1>11, <2>1 DEF KeepsState
  <2>4. NotListed(i)' <=> NotListed(i)
    <3>1. nodes'[nodes'[i].parent].path = nodes[nodes[i].parent].path
      BY <2>1, <2>2, <2>3
    <3> QED
      BY <1>1, <2>3, <3>1, SameFs DEF NotListed
  <2>5. CASE i \in {m[1] : m \in R}
    <3>1. PICK m \in R : i = m[1]
      BY <2>5
    <3>2. q = p
      BY <1>8, <2>1, <3>1 DEF Kids
    <3>3. PICK to \in DOMAIN shown[p] : shown[p][to] = nodes[i].ino /\ nodes'[i].path = to
      BY <1>18, <3>1
    <3>4. shown[p] = RelistOf(p)
      BY <1>1, <1>5, <1>6, <2>2, <3>2
    <3>5. shown[p][to] = DirAt(to)
      BY <3>3, <3>4 DEF RelistOf, SubdirsAt
    <3>6. DirAt(to) # Gone
      BY <1>13, <2>1, <3>3, <3>5
    <3>7. DirAt(to)' = DirAt(to)
      BY <1>1, SameFs
    <3>8. DirAt(nodes[i].path)' = DirAt(to)'
      BY <3>3 DEF DirAt
    <3> QED
      BY <2>5, <3>6, <3>7, <3>8
  <2>6. CASE i \notin {m[1] : m \in R} /\ q = p
    <3>1. i \notin renamed
      BY <1>1, <1>5, <1>6, <2>1, <2>6
    <3>2. NotListed(i)
      <4> SUFFICES ASSUME Listable(nodes[q].path), NEW to \in DOMAIN SubdirsAt(nodes[q].path),
                          SubdirsAt(nodes[q].path)[to] = nodes[i].ino
                   PROVE  FALSE
        BY <2>1 DEF NotListed
      <4>1. shown[p] = SubdirsAt(nodes[q].path)
        BY <1>1, <1>5, <1>6, <2>2, <2>6 DEF RelistOf
      <4>2. PICK m : m = <<i, to>>
        OBVIOUS
      <4>3. i \in Kids(p)
        BY <2>1, <2>6 DEF Kids
      <4>4. m \in (missing \intersect Kids(p)) \X DOMAIN shown[p] /\ shown[p][m[2]] = nodes[m[1]].ino
        BY <4>1, <4>2, <4>3
      <4>5. m \in R
        BY <1>4, <1>5, <4>4 DEF Renamed
      <4> QED
        BY <2>6, <4>2, <4>5
    <3> QED
      BY <2>4, <2>6, <3>1, <3>2
  <2>7. CASE i \notin {m[1] : m \in R} /\ q # p
    <3>1. Below(R, i) = {}
      <4>1. ASSUME NEW m \in R, i \in Subtree(m[1]) PROVE FALSE
        <5>1. q \in Subtree(m[1])
          BY <1>3, <1>14, <2>1, <2>7, <4>1, InSubtree
        <5>2. q \notin Subtree(m[1])'
          BY <1>24, <2>1 DEF Unmoved
        <5> QED
          BY <1>12, <1>14, <5>1, <5>2
      <4> QED
        BY <4>1 DEF Below
    <3>2. nodes'[i] = nodes[i]
      BY <1>10, <2>1, <3>1
    <3>3. Settled(i)
      BY <1>6, <1>24, <2>1, <2>7
    <3>4. IF i \in renamed THEN DirAt(nodes[i].path) # Gone ELSE NotListed(i)
      BY <1>5, <2>1, <2>2, <3>3 DEF Settled
    <3>5. DirAt(nodes[i].path)' = DirAt(nodes[i].path)
      BY <1>1, <3>2 DEF DirAt
    <3> QED
      BY <2>4, <2>7, <3>4, <3>5
  <2> QED
    BY <2>5, <2>6, <2>7
<1>25. (\A i \in relists.missing : nodes[i].parent \in relists.parents \/ Settled(i))'
  <2>1. ASSUME NEW i \in missing PROVE nodes'[i].parent \in parents \ {p} \/ Settled(i)'
    <3>1. nodes'[i].parent = nodes[i].parent
      BY <1>9, <1>11 DEF KeepsState
    <3>2. relists'.renamed = renamed \union {m[1] : m \in R}
      BY <1>7
    <3>3. ASSUME nodes'[i].parent \notin parents \ {p}, Unmoved(nodes[i].parent, relists.renamed)'
          PROVE  IF i \in relists'.renamed THEN DirAt(nodes[i].path)' # Gone ELSE NotListed(i)'
      <4>1. PICK q : q = nodes[i].parent
        OBVIOUS
      <4>2. Unmoved(q, renamed \union {m[1] : m \in R})'
        BY <3>1, <3>2, <3>3, <4>1 DEF Unmoved
      <4> QED
        BY <1>24, <3>1, <3>2, <3>3, <4>1, <4>2
    <3> QED
      BY <3>3 DEF Settled
  <2> QED
    BY <1>7, <2>1
<1>26. FollowOK'
  <2>1. (\A i \in relists.renamed : nodes[i].renamedFrom # <<>> /\ nodes[i].parent \notin relists.parents)'
    BY <1>7, <1>22
  <2>2. ASSUME NEW q \in DOMAIN relists'.found
        PROVE  q \in Node' /\ PathsOf(relists'.found[q]) /\ (Unmoved(q, relists.renamed)' => relists'.found[q] = RelistOf(q)')
    <3>1. relists'.found = shown /\ relists'.renamed = renamed \union {m[1] : m \in R}
      BY <1>7
    <3>2. Unmoved(q, relists.renamed)' => Unmoved(q, renamed \union {m[1] : m \in R})'
      BY <3>1 DEF Unmoved
    <3> QED
      BY <1>12, <1>23, <2>2, <3>1, <3>2
  <2> QED
    BY <1>20, <1>21, <1>25, <2>1, <2>2 DEF FollowOK, IsRelists, PathsOf
<1>27. (\A i \in Node : nodes[i].ino # Gone /\ HasPath(nodes[i]))'
  BY <1>12, <1>15 DEF HasPath
<1> QED
  BY <1>1, <1>26, <1>27 DEF AsleepInv

\* A node that is sampled keeps its name, and what is sampled again vanishes only if nothing is
\* there.
LEMMA SampledKeeps ==
  ASSUME FsTyped(fs), NEW n, NodeTyped(n), NEW second \in BOOLEAN
  PROVE  /\ KeepsName(Sampled(n, second), n)
         /\ Sampled(n, second).vanished => n.vanished \/ DirAt(n.path) = Gone
<1>1. PICK b : b = RBytes(DirAt(n.path))
  OBVIOUS
<1>2. /\ KeepsName(n, n) /\ KeepsName([n EXCEPT !.s2 = b], n) /\ KeepsName([n EXCEPT !.s1 = b], n)
      /\ KeepsName([n EXCEPT !.error = TRUE], n)
      /\ KeepsName([n EXCEPT !.vanished = TRUE, !.s2 = IF second THEN 0 ELSE NoSample], n)
      /\ [n EXCEPT !.s2 = b].vanished = n.vanished /\ [n EXCEPT !.s1 = b].vanished = n.vanished
      /\ [n EXCEPT !.error = TRUE].vanished = n.vanished
  BY DEF KeepsName, NodeTyped, HasFields, Fields
<1>3. \/ Sampled(n, second) \in {n, [n EXCEPT !.s2 = b], [n EXCEPT !.s1 = b], [n EXCEPT !.error = TRUE]}
      \/ /\ Sampled(n, second) = [n EXCEPT !.vanished = TRUE, !.s2 = IF second THEN 0 ELSE NoSample]
         /\ Error(n.path, "rbytes") = "vanished"
  BY <1>1, Zenon DEF Sampled
<1>4. Error(n.path, "rbytes") = "vanished" => DirAt(n.path) = Gone
  BY DEF Error
<1> QED
  BY <1>2, <1>3, <1>4

LEMMA RereadKeeps ==
  ASSUME ScanInv, ScanInv', AsleepInv, Reread
  PROVE  AsleepInv'
<1>1. PICK again :
        /\ again = {i \in UNION {Subtree(c) : c \in relists.renamed} : nodes[i].vanished /\ nodes[i].s1 # NoSample}
        /\ nodes' = [i \in Node |->
             IF i \in again THEN Sampled([nodes[i] EXCEPT !.vanished = FALSE, !.s2 = NoSample], TRUE)
             ELSE nodes[i]]
  BY DEF Reread
<1>2. phase = "following" /\ phase' = "rechecking" /\ fs' = fs /\ relists.parents = {} /\ FollowOK
  BY DEF Reread, AsleepInv
<1>3. Forest(nodes) /\ DOMAIN nodes = Node /\ FsTyped(fs)
  BY DEF ScanInv, FsOK, Forest, IsSeq, Node
<1>4. \A i \in Node : NodeTyped(nodes[i])
  BY <1>3, KidsAre DEF Forest
<1>5. ASSUME NEW i \in Node
      PROVE  /\ KeepsName(nodes'[i], nodes[i])
             /\ i \notin again => nodes'[i] = nodes[i]
             /\ i \in again /\ nodes'[i].vanished => DirAt(nodes[i].path) = Gone
  <2>1. PICK n, m : n = nodes[i] /\ m = [n EXCEPT !.vanished = FALSE, !.s2 = NoSample]
    OBVIOUS
  <2>2. NodeTyped(m) /\ KeepsName(m, n) /\ m.vanished = FALSE /\ KeepsName(n, n)
    BY <1>4, <2>1 DEF NodeTyped, HasFields, Fields, NoSample, KeepsName
  <2>3. KeepsName(Sampled(m, TRUE), m) /\ (Sampled(m, TRUE).vanished => m.vanished \/ DirAt(m.path) = Gone)
    BY <1>3, <2>2, SampledKeeps
  <2>4. nodes'[i] = IF i \in again THEN Sampled(m, TRUE) ELSE n
    BY <1>1, <2>1
  <2> QED
    BY <2>1, <2>2, <2>3, <2>4 DEF KeepsName
<1>6. Quiet
  BY <1>1, <1>5 DEF Quiet
<1>7. /\ Node' = Node /\ \A i \in Node : Subtree(i)' = Subtree(i)
      /\ (\A i \in Node : nodes[i].ino # Gone /\ HasPath(nodes[i]))'
  BY <1>6, QuietIs
<1>8. ASSUME NEW i \in Node, NothingAbove(i)' PROVE Followed(i)'
  <2> SUFFICES ASSUME i \in Missing(nodes) \/ i \in again, nodes'[i].vanished, nodes[i].parent # 0
               PROVE  NotListed(i)'
    <3>1. i \notin again => nodes'[i] = nodes[i]
      BY <1>5
    <3>2. nodes'[i].parent = nodes[i].parent
      BY <1>5 DEF KeepsName
    <3>3. nodes'[i].vanished /\ nodes'[i].s1 # NoSample /\ nodes'[i].parent # 0 => i \in Missing(nodes) \/ i \in again
      BY <1>3, <3>1, <3>2 DEF Missing
    <3> QED
      BY <3>2, <3>3 DEF Followed, NotListed
  <2>1. i \in Missing(nodes)
    BY <1>1, <1>3 DEF Missing
  <2>2. PICK p : p = nodes[i].parent /\ p \in Node
    BY <1>3, ForestParents
  <2>3. Settled(i) /\ relists.renamed \subseteq Missing(nodes)
    BY <1>2, <2>1 DEF FollowOK
  <2>4. \A j \in relists.renamed : j \in Node /\ nodes'[j].renamedFrom # <<>> /\ nodes[j].vanished /\ nodes[j].s1 # NoSample
    <3>1. ASSUME NEW j \in relists.renamed
          PROVE  j \in Node /\ nodes[j].renamedFrom # <<>> /\ nodes[j].vanished /\ nodes[j].s1 # NoSample
      BY <1>2, <1>3, <2>3 DEF FollowOK, Missing
    <3> QED
      BY <1>5, <3>1 DEF KeepsName
  <2>5. \A j \in relists.renamed : i \in Subtree(j) => j = i
    BY <1>7, <1>8, <2>4 DEF NothingAbove
  <2>6. Unmoved(p, relists.renamed)
    <3> SUFFICES ASSUME NEW j \in relists.renamed, p \in Subtree(j) PROVE FALSE
      BY DEF Unmoved
    <3>1. j \in Node /\ i \in Subtree(j)
      BY <1>3, <2>2, <2>4, SubtreesNest
    <3>2. j = i /\ i <= p /\ p < i /\ p \in Nat
      BY <1>3, <2>2, <2>5, <3>1, InSubtree, ForestParents
    <3>3. i \in Nat
      BY <1>3, KidsAre
    <3> QED
      BY <3>2, <3>3
  <2>7. IF i \in relists.renamed THEN DirAt(nodes[i].path) # Gone ELSE NotListed(i)
    BY <2>2, <2>3, <2>6 DEF Settled
  <2>8. i \notin relists.renamed
    <3>1. ASSUME i \in relists.renamed PROVE i \in again
      <4>1. i \in Subtree(i)
        BY <1>3, InSubtree
      <4> QED
        BY <1>1, <2>4, <3>1, <4>1
    <3> QED
      BY <1>5, <2>7, <3>1
  <2>9. nodes'[nodes'[i].parent].path = nodes[nodes[i].parent].path /\ nodes'[i].ino = nodes[i].ino
    BY <1>5, <2>2 DEF KeepsName
  <2> QED
    BY <1>2, <2>7, <2>8, <2>9, SameFs DEF NotListed
<1>9. AllFollowed'
  BY <1>7, <1>8 DEF AllFollowed
<1> QED
  BY <1>2, <1>7, <1>9 DEF AsleepInv

LEMMA RecheckKeeps ==
  ASSUME ScanInv, ScanInv', AsleepInv, Recheck
  PROVE  AsleepInv'
<1>1. PICK woken, lost : nodes' = [i \in Node |->
         IF i \notin Suspects THEN nodes[i]
         ELSE [nodes[i] EXCEPT !.wokeUp = woken[i], !.unreadable = lost[i]]]
  BY RecheckIs
<1>2. phase = "rechecking" /\ phase' = "reporting" /\ fs' = fs
  BY DEF Recheck
<1>3. \A i \in Node : NodeTyped(nodes[i])
  BY KidsAre DEF ScanInv, Forest
<1>4. \A i \in Node : KeepsLoss(nodes'[i], nodes[i])
  <2>1. ASSUME NEW n, NodeTyped(n), NEW a, NEW b
        PROVE  KeepsLoss(n, n) /\ KeepsLoss([n EXCEPT !.wokeUp = a, !.unreadable = b], n)
    BY <2>1 DEF KeepsLoss, KeepsName, KeepsState, NodeTyped, HasFields, Fields
  <2> QED
    BY <1>1, <1>3, <2>1
<1>5. Quiet
  BY <1>1, <1>4 DEF Quiet, KeepsLoss
<1>6. AllFollowed
  BY <1>2 DEF AsleepInv
<1> QED
  BY <1>2, <1>4, <1>5, <1>6, QuietIs, FollowedKept DEF AsleepInv

LEMMA ReportKeeps ==
  ASSUME ScanInv, ScanInv', AsleepInv, Report
  PROVE  AsleepInv'
<1>1. /\ nodes' = nodes /\ fs' = fs /\ phase \in {"reporting", "loaded"} /\ phase' \in {"replayed", "done", "unsampled"}
      /\ phase = "loaded" => phase' = "replayed"
  BY DEF Report
<1>2. nodes = [i \in Node |-> nodes[i]]
  BY DEF ScanInv, Forest, IsSeq, Node
<1>3. \A i \in Node : KeepsLoss(nodes'[i], nodes[i])
  BY <1>1 DEF KeepsLoss, KeepsName, KeepsState
<1>4. Quiet
  BY <1>1, <1>2, <1>3 DEF Quiet, KeepsLoss
<1>5. CASE phase = "loaded"
  BY <1>1, <1>4, <1>5, QuietKeeps DEF Idle
<1>6. CASE phase # "loaded"
  <2>1. AllFollowed
    BY <1>1, <1>6 DEF AsleepInv
  <2> QED
    BY <1>1, <1>3, <1>4, <2>1, QuietIs, FollowedKept DEF AsleepInv
<1> QED
  BY <1>5, <1>6

-----------------------------------------------------------------------------
(* Building the tree, and the two passes.                                   *)

Stands(n, path, parent, ino) == n.path = path /\ n.parent = parent /\ n.ino = ino

LEMMA NewNodeHas ==
  ASSUME NEW path, NEW parent, NEW depth, NEW ino
  PROVE  Stands(NewNode(path, parent, depth, ino), path, parent, ino)
BY DEF NewNode, Stands

LEMMA AsleepInit == ScanInit => AsleepInv
<1> SUFFICES ASSUME ScanInit PROVE AsleepInv
  OBVIOUS
<1>1. Node = {}
  BY DEF ScanInit, Node
<1> QED
  BY <1>1 DEF ScanInit, AsleepInv

LEMMA PreflightKeeps ==
  ASSUME ScanInv, ScanInv', Preflight
  PROVE  AsleepInv'
<1>1. PICK N : N = Len(given) /\ N \in Nat /\ DOMAIN given = 1..N /\ \A k \in 1..N : given[k] \in Seq(Nat)
  BY GivenIs DEF ScanInv
<1>2. PICK ns : ns = nodes' /\ ns = [k \in 1..N |-> NewNode(given[k], 0, 0, DirAt(given[k]))]
  BY <1>1, Zenon DEF Preflight
<1>3. Node' = 1..N
  <2>1. DOMAIN ns = 1..N /\ ns = [k \in 1..N |-> ns[k]]
    BY <1>2
  <2>2. Len(ns) = N
    BY <1>1, <2>1, SeqIs
  <2> QED
    BY <1>2, <2>2 DEF Node
<1>4. ASSUME NEW k \in 1..N PROVE DirAt(given[k]) # Gone
  <2>1. Error(given[k], "rbytes") = "none"
    BY <1>1 DEF Preflight, RootsAreBad, RootProblem
  <2> QED
    BY <2>1 DEF Error
<1>5. ASSUME NEW k \in 1..N PROVE nodes'[k].ino # Gone /\ HasPath(nodes'[k])
  <2>1. ns[k] = NewNode(given[k], 0, 0, DirAt(given[k]))
    BY <1>2, Zenon
  <2>2. Stands(ns[k], given[k], 0, DirAt(given[k]))
    BY <2>1, NewNodeHas, Zenon
  <2> QED
    BY <1>1, <1>2, <1>4, <2>2 DEF HasPath, Stands
<1>6. phase' \in {"leaves", "listing"}
  BY DEF Preflight
<1>7. (\A i \in Node : nodes[i].ino # Gone /\ HasPath(nodes[i]))'
  BY <1>3, <1>5 DEF HasPath
<1> QED
  BY <1>6, <1>7 DEF AsleepInv

\* A step that leaves the nodes as they are.
LEMMA SameIsQuiet ==
  ASSUME ScanInv, nodes' = nodes
  PROVE  Quiet
<1>1. nodes = [i \in Node |-> nodes[i]]
  BY DEF ScanInv, Forest, IsSeq, Node
<1> QED
  BY <1>1 DEF Quiet, KeepsName

LEMMA FailedKeeps ==
  ASSUME ScanInv, ScanInv', AsleepInv, Refuse \/ GiveUp
  PROVE  AsleepInv'
<1>1. nodes' = nodes /\ phase' = "failed"
  BY DEF Refuse, GiveUp, Failed
<1> QED
  BY <1>1, SameIsQuiet, QuietKeeps DEF Idle

LEMMA ListLevelKeeps ==
  ASSUME ScanInv, ScanInv', AsleepInv, ListLevel
  PROVE  AsleepInv'
<1>1. phase' = "probing" /\ fs' = fs /\ level' = level
  BY DEF ListLevel
<1>2. PICK out : /\ nodes' = [i \in Node |->
                                IF i \notin level \/ out[i] = "listed" THEN nodes[i]
                                ELSE IF out[i] = "vanished" THEN [nodes[i] EXCEPT !.vanished = TRUE]
                                ELSE [nodes[i] EXCEPT !.reason = out[i]]]
                 /\ listing' = [i \in level |-> IF out[i] = "listed" THEN SubdirsAt(nodes[i].path) ELSE <<>>]
  <2> DEFINE out == [i \in level |-> ListOutcome(nodes[i])]
  <2>1. nodes' = [i \in Node |->
                    IF i \notin level \/ out[i] = "listed" THEN nodes[i]
                    ELSE IF out[i] = "vanished" THEN [nodes[i] EXCEPT !.vanished = TRUE]
                    ELSE [nodes[i] EXCEPT !.reason = out[i]]]
    BY Zenon DEF ListLevel
  <2>2. listing' = [i \in level |-> IF out[i] = "listed" THEN SubdirsAt(nodes[i].path) ELSE <<>>]
    BY Zenon DEF ListLevel
  <2> HIDE DEF out
  <2> QED
    BY <2>1, <2>2
<1>3. \A i \in Node : KeepsName(nodes'[i], nodes[i])
  <2>1. ASSUME NEW n, NodeTyped(n), NEW why
        PROVE  KeepsName(n, n) /\ KeepsName([n EXCEPT !.vanished = TRUE], n) /\ KeepsName([n EXCEPT !.reason = why], n)
    BY <2>1 DEF KeepsName, NodeTyped, HasFields, Fields
  <2>2. \A i \in Node : NodeTyped(nodes[i])
    BY KidsAre DEF ScanInv, Forest
  <2>3. ASSUME NEW i \in Node PROVE KeepsName(nodes'[i], nodes[i])
    <3>1. PICK n, why : n = nodes[i] /\ why = out[i]
      OBVIOUS
    <3>2. nodes'[i] \in {n, [n EXCEPT !.vanished = TRUE], [n EXCEPT !.reason = why]}
      BY <1>2, <3>1, Zenon
    <3>3. NodeTyped(n)
      BY <2>2, <3>1
    <3> QED
      BY <2>1, <3>1, <3>2, <3>3
  <2> QED
    BY <2>3
<1>4. Quiet
  <2>1. nodes' = [i \in Node |-> nodes'[i]]
    BY <1>2
  <2> QED
    BY <1>3, <2>1 DEF Quiet
<1>5. ASSUME NEW i \in level, NEW p \in DOMAIN listing'[i] PROVE listing'[i][p] = DirAt(p)'
  <2>1. listing'[i] = IF out[i] = "listed" THEN SubdirsAt(nodes[i].path) ELSE <<>>
    BY <1>2
  <2>2. out[i] = "listed"
    BY <2>1
  <2>3. listing'[i] = SubdirsAt(nodes[i].path)
    BY <2>1, <2>2
  <2>4. listing'[i][p] = DirAt(p)
    BY <2>3 DEF SubdirsAt
  <2> QED
    BY <1>1, <2>4, SameFs
<1> QED
  BY <1>1, <1>4, <1>5, QuietIs DEF AsleepInv

LEMMA ProbeLevelKeeps ==
  ASSUME ScanInv, ScanInv', AsleepInv, ProbeLevel
  PROVE  AsleepInv'
<1>1. phase = "probing" /\ phase' \in {"leaves", "listing"}
  BY DEF ProbeLevel
<1>2. PICK seen, next, N, M : ProbedAs(seen, next, N, M)
  BY ProbeLevelIs
<1>3. N \in Nat /\ Node = 1..N /\ M \in Nat /\ \A k \in 1..M : Active[k] \in Found
  BY <1>2, Zenon DEF ProbedAs
<1>4. Node' = 1..(N + M)
  BY <1>2, Zenon DEF ProbedAs, Node
<1>5. ASSUME NEW i \in 1..N PROVE KeepsName(nodes'[i], nodes[i])
  <2>1. PICK n, a, b : n = nodes[i] /\ a = [p \in Those(i, "idle") |-> fs.dir[DirAt(p)].rctime] /\ b = Those(i, "denied")
    OBVIOUS
  <2>2. nodes'[i] = seen[i] /\ i \in Node
    BY <1>2, <1>3, Zenon DEF ProbedAs
  <2>3. seen[i] \in {n, [n EXCEPT !.idle = a, !.unreadable = b]}
    BY <1>2, <2>1, <2>2, Zenon DEF ProbedAs
  <2>4. HasFields(n)
    BY <2>1, <2>2, KidsAre DEF ScanInv, Forest, NodeTyped
  <2>5. KeepsName(n, n) /\ KeepsName([n EXCEPT !.idle = a, !.unreadable = b], n)
    BY <2>4 DEF KeepsName, HasFields, Fields
  <2> QED
    BY <2>1, <2>2, <2>3, <2>5
<1>6. ASSUME NEW k \in 1..M PROVE nodes'[N + k].ino # Gone /\ HasPath(nodes'[N + k])
  <2>1. PICK x : x = Active[k]
    OBVIOUS
  <2>2. x \in Found
    BY <1>3, <2>1
  <2>3. x[1] \in level /\ x[2] \in DOMAIN listing[x[1]] /\ Probe(x[2]) = "active"
    BY <2>2 DEF Found
  <2>4. DirAt(x[2]) # Gone
    BY <2>3 DEF Probe, Error
  <2>5. listing[x[1]][x[2]] = DirAt(x[2])
    BY <1>1, <2>3 DEF AsleepInv
  <2>6. PICK q \in Seq(Nat), n \in Nat : x[2] = Append(q, n)
    BY <1>1, <2>2, FoundIs
  <2>7. x[2] \in Seq(Nat) /\ x[2] # <<>>
    BY <2>6
  <2>8. nodes'[N + k] = NewNode(x[2], x[1], nodes[x[1]].depth + 1, listing[x[1]][x[2]])
    BY <1>2, <2>1, Zenon DEF ProbedAs
  <2>9. Stands(nodes'[N + k], x[2], x[1], listing[x[1]][x[2]])
    BY <2>8, NewNodeHas, Zenon
  <2> QED
    BY <2>4, <2>5, <2>7, <2>9 DEF HasPath, Stands
<1>7. ASSUME NEW i \in 1..(N + M) PROVE nodes'[i].ino # Gone /\ HasPath(nodes'[i])
  <2>1. CASE i \in 1..N
    <3>1. nodes[i].ino # Gone /\ HasPath(nodes[i])
      BY <1>3, <2>1 DEF AsleepInv
    <3> QED
      BY <1>5, <2>1, <3>1 DEF HasPath, KeepsName
  <2>2. CASE i \notin 1..N
    <3>1. i - N \in 1..M /\ i = N + (i - N)
      BY <1>3, <2>2
    <3> QED
      BY <1>6, <3>1
  <2> QED
    BY <2>1, <2>2
<1>8. (\A i \in Node : nodes[i].ino # Gone /\ HasPath(nodes[i]))'
  BY <1>4, <1>7 DEF HasPath
<1> QED
  BY <1>1, <1>8 DEF AsleepInv

LEMMA MarkLeavesKeeps ==
  ASSUME ScanInv, ScanInv', AsleepInv, MarkLeaves
  PROVE  AsleepInv'
<1>1. /\ phase' = "sampling"
      /\ nodes' = [i \in Node |-> IF i \in level THEN [nodes[i] EXCEPT !.reason = "depth"] ELSE nodes[i]]
  BY DEF MarkLeaves
<1>2. \A i \in Node : KeepsName(nodes'[i], nodes[i])
  <2>1. ASSUME NEW n, NodeTyped(n) PROVE KeepsName(n, n) /\ KeepsName([n EXCEPT !.reason = "depth"], n)
    BY <2>1 DEF KeepsName, NodeTyped, HasFields, Fields
  <2>2. \A i \in Node : NodeTyped(nodes[i])
    BY KidsAre DEF ScanInv, Forest
  <2> QED
    BY <1>1, <2>1, <2>2
<1>3. Quiet
  <2>1. nodes' = [i \in Node |-> nodes'[i]]
    BY <1>1
  <2> QED
    BY <1>2, <2>1 DEF Quiet
<1> QED
  BY <1>1, <1>3, QuietKeeps DEF Idle

LEMMA PassIsQuiet ==
  ASSUME ScanInv, NEW second \in BOOLEAN, nodes' = [i \in Node |-> Sampled(nodes[i], second)]
  PROVE  Quiet
<1>1. FsTyped(fs) /\ \A i \in Node : NodeTyped(nodes[i])
  BY KidsAre DEF ScanInv, FsOK, Forest
<1>2. \A i \in Node : KeepsName(nodes'[i], nodes[i])
  BY <1>1, SampledKeeps
<1>3. nodes' = [i \in Node |-> nodes'[i]]
  OBVIOUS
<1> QED
  BY <1>2, <1>3 DEF Quiet

LEMMA FirstPassKeeps ==
  ASSUME ScanInv, ScanInv', AsleepInv, FirstPass
  PROVE  AsleepInv'
<1>1. nodes' = [i \in Node |-> Sampled(nodes[i], FALSE)] /\ phase' = "sleeping"
  BY DEF FirstPass
<1> QED
  BY <1>1, PassIsQuiet, QuietKeeps DEF Idle

\* Every parent of a missing subdir is asked for.
LEMMA SecondPassKeeps ==
  ASSUME ScanInv, ScanInv', AsleepInv, SecondPass
  PROVE  AsleepInv'
<1>1. /\ nodes' = [i \in Node |-> Sampled(nodes[i], TRUE)] /\ phase' = "following"
      /\ relists' = [missing |-> Missing(nodes'), parents |-> {nodes'[i].parent : i \in Missing(nodes')},
                     found |-> <<>>, renamed |-> {}]
  BY DEF SecondPass
<1>2. PICK ns, asked : ns = nodes' /\ asked = {ns[i].parent : i \in Missing(ns)}
  OBVIOUS
<1>3. relists' = [missing |-> Missing(ns), parents |-> asked, found |-> <<>>, renamed |-> {}]
  BY <1>1, <1>2
<1>4. Missing(nodes)' = Missing(ns)
  BY <1>2 DEF Missing
<1>5. FollowOK'
  <2>1. IsRelists(relists') /\ (relists.missing = Missing(nodes))'
    BY <1>3, <1>4 DEF IsRelists
  <2>2. relists'.renamed = {} /\ DOMAIN relists'.found = {} /\ relists'.parents = asked /\ relists'.missing = Missing(ns)
    BY <1>3
  <2>3. (\A i \in relists.missing : nodes[i].parent \in relists.parents)'
    BY <1>2, <2>2
  <2> QED
    BY <2>1, <2>2, <2>3 DEF FollowOK, IsRelists
<1>6. Quiet
  BY <1>1, PassIsQuiet
<1> QED
  BY <1>1, <1>5, <1>6, QuietIs DEF AsleepInv

LEMMA SaveAndLoadKeeps ==
  ASSUME ScanInv, ScanInv', AsleepInv, SaveAndLoad
  PROVE  AsleepInv'
<1>1. nodes' = [i \in Node |-> Restored(nodes[i])] /\ phase' = "loaded"
  BY DEF SaveAndLoad
<1>2. \A i \in Node : KeepsName(nodes'[i], nodes[i])
  <2>1. ASSUME NEW n, NodeTyped(n) PROVE KeepsName(Restored(n), n)
    BY <2>1 DEF KeepsName, NodeTyped, HasFields, Fields, Restored
  <2>2. \A i \in Node : NodeTyped(nodes[i])
    BY KidsAre DEF ScanInv, Forest
  <2> QED
    BY <1>1, <2>1, <2>2
<1>3. Quiet
  <2>1. nodes' = [i \in Node |-> nodes'[i]]
    BY <1>1
  <2> QED
    BY <1>2, <2>1 DEF Quiet
<1> QED
  BY <1>1, <1>3, QuietKeeps DEF Idle

LEMMA RelistKeeps ==
  ASSUME ScanInv, ScanInv', AsleepInv, NEW p \in Node, Relist(p)
  PROVE  AsleepInv'
<1>1. /\ phase = "following" /\ phase' = "following" /\ fs' = fs /\ nodes' = nodes
      /\ relists' = [relists EXCEPT !.found = Also(@, p, RelistOf(p))]
  BY DEF Relist
<1>2. FollowOK
  BY <1>1 DEF AsleepInv
<1>3. Quiet
  BY <1>1, SameIsQuiet
<1>4. Node' = Node /\ \A i \in Node : Subtree(i)' = Subtree(i)
  BY <1>3, QuietIs
<1>5. PICK missing, parents, shown, renamed :
        /\ relists = [missing |-> missing, parents |-> parents, found |-> shown, renamed |-> renamed]
        /\ missing = relists.missing /\ parents = relists.parents /\ shown = relists.found /\ renamed = relists.renamed
  BY <1>2 DEF FollowOK, IsRelists
<1>6. PICK also : also = Also(shown, p, RelistOf(p))
  OBVIOUS
<1>7. relists' = [missing |-> missing, parents |-> parents, found |-> also, renamed |-> renamed]
  BY <1>1, <1>5, <1>6
<1>8. DOMAIN also = DOMAIN shown \union {p} /\ \A q \in DOMAIN also : also[q] = IF q = p THEN RelistOf(p) ELSE shown[q]
  BY <1>6 DEF Also
<1>9. PathsOf(RelistOf(p))
  <2>1. CASE Listable(nodes[p].path)
    <3>1. RelistOf(p) = SubdirsAt(nodes[p].path)
      BY <2>1 DEF RelistOf
    <3>2. PICK path : path = nodes[p].path /\ path \in Seq(Nat)
      BY DEF AsleepInv, HasPath
    <3>3. FsTyped(fs)
      BY DEF ScanInv, FsOK
    <3>4. ASSUME NEW q \in DOMAIN SubdirsAt(path) PROVE q \in Seq(Nat) /\ q # <<>>
      <4>1. Last(q) \in Nat /\ q = Append(path, Last(q))
        BY <3>2, <3>3, SubdirsAtIs
      <4>2. PICK n \in Nat : q = Append(path, n)
        BY <4>1
      <4> QED
        BY <3>2, <4>2
    <3> QED
      BY <3>1, <3>2, <3>4 DEF PathsOf
  <2>2. CASE ~ Listable(nodes[p].path)
    <3>1. DOMAIN RelistOf(p) = {}
      BY <2>2 DEF RelistOf
    <3> QED
      BY <3>1 DEF PathsOf
  <2> QED
    BY <2>1, <2>2
<1>10. relists.renamed \subseteq Node /\ relists.missing \subseteq Node
  <2>1. DOMAIN nodes = Node
    BY DEF ScanInv, Forest, IsSeq, Node
  <2> QED
    BY <1>2, <2>1 DEF FollowOK, Missing
<1>11. ASSUME NEW q \in Node PROVE Unmoved(q, relists.renamed)' <=> Unmoved(q, relists.renamed)
  <2>1. relists'.renamed = relists.renamed
    BY <1>5, <1>7
  <2> QED
    BY <1>4, <1>10, <2>1 DEF Unmoved
<1>12. ASSUME NEW q \in Node PROVE RelistOf(q)' = RelistOf(q)
  BY <1>1, SameFs DEF RelistOf
<1>13. ASSUME NEW q \in DOMAIN relists'.found
       PROVE  q \in Node /\ PathsOf(relists'.found[q]) /\ (Unmoved(q, relists.renamed)' => relists'.found[q] = RelistOf(q)')
  <2>1. relists'.found = also
    BY <1>7
  <2>2. CASE q = p
    BY <1>8, <1>9, <1>12, <2>1, <2>2
  <2>3. CASE q # p
    <3>1. q \in DOMAIN shown /\ also[q] = shown[q]
      BY <1>8, <1>13, <2>1, <2>3
    <3>2. q \in Node /\ PathsOf(shown[q]) /\ (Unmoved(q, relists.renamed) => shown[q] = RelistOf(q))
      BY <1>2, <1>5, <3>1 DEF FollowOK
    <3> QED
      BY <1>11, <1>12, <2>1, <3>1, <3>2
  <2> QED
    BY <2>2, <2>3
<1>14. ASSUME NEW i \in missing PROVE nodes'[i].parent \in parents \/ Settled(i)'
  <2>1. i \in Node /\ nodes[i].parent \in Node
    <3>1. nodes[i].parent # 0 /\ i \in Node
      BY <1>2, <1>5, <1>10 DEF FollowOK, Missing
    <3> QED
      BY <3>1, ForestParents DEF ScanInv
  <2>2. nodes[i].parent \in parents \/ Settled(i)
    BY <1>2, <1>5 DEF FollowOK
  <2>3. NotListed(i)' <=> NotListed(i)
    BY <1>1, SameFs DEF NotListed
  <2>4. DirAt(nodes[i].path)' = DirAt(nodes[i].path)
    BY <1>1 DEF DirAt
  <2>5. Unmoved(nodes[i].parent, relists.renamed)' <=> Unmoved(nodes[i].parent, relists.renamed)
    <3>1. PICK q \in Node : q = nodes[i].parent
      BY <2>1
    <3>2. Unmoved(nodes[i].parent, relists.renamed)' <=> Unmoved(q, relists.renamed)'
      BY <1>1, <3>1 DEF Unmoved
    <3> QED
      BY <1>11, <3>1, <3>2
  <2>6. relists'.renamed = relists.renamed
    BY <1>5, <1>7
  <2> QED
    BY <1>1, <2>2, <2>3, <2>4, <2>5, <2>6 DEF Settled
<1>15. FollowOK'
  <2>1. IsRelists(relists') /\ relists'.renamed = renamed /\ relists'.missing = missing /\ relists'.parents = parents
    BY <1>7 DEF IsRelists
  <2>2. (relists.missing = Missing(nodes))'
    <3>1. Missing(nodes)' = Missing(nodes)
      BY <1>1 DEF Missing
    <3> QED
      BY <1>2, <1>5, <2>1, <3>1 DEF FollowOK
  <2>3. (relists.renamed \subseteq relists.missing)'
    BY <1>2, <1>5, <2>1 DEF FollowOK
  <2>4. (\A i \in relists.renamed : nodes[i].renamedFrom # <<>> /\ nodes[i].parent \notin relists.parents)'
    BY <1>1, <1>2, <1>5, <2>1 DEF FollowOK
  <2>5. (\A i \in relists.missing : nodes[i].parent \in relists.parents \/ Settled(i))'
    BY <1>14, <2>1
  <2> QED
    BY <1>4, <1>13, <2>1, <2>2, <2>3, <2>4, <2>5 DEF FollowOK, IsRelists, PathsOf
<1> QED
  BY <1>1, <1>3, <1>15, QuietIs DEF AsleepInv

-----------------------------------------------------------------------------
(* All steps.                                                               *)

LEMMA ScanKeeps ==
  ASSUME ScanInv, ScanInv', AsleepInv, Scan
  PROVE  AsleepInv'
BY PreflightKeeps, FailedKeeps, ListLevelKeeps, ProbeLevelKeeps, MarkLeavesKeeps, FirstPassKeeps, SecondPassKeeps,
   RelistKeeps, FollowInKeeps, RereadKeeps, RecheckKeeps, ReportKeeps, SaveAndLoadKeeps DEF Scan

LEMMA ScanChangesNothing ==
  ASSUME Scan
  PROVE  changes' = changes
BY DEF Scan, Preflight, Refuse, Failed, ListLevel, ProbeLevel, GiveUp, MarkLeaves, FirstPass, SecondPass, Relist,
       FollowIn, Reread, Recheck, Report, SaveAndLoad

LEMMA ChangeIsNoted ==
  ASSUME Change
  PROVE  changes' = Append(changes, phase)
BY DEF Change, Write, Create, Move, RemoveDir, Deny, Changed

LEMMA ChangeKeeps ==
  ASSUME ScanInv, ScanInv', Change, OnlyAsleep', OnlyAsleep => AsleepInv
  PROVE  AsleepInv'
<1>1. PICK all : all = changes /\ all \in Seq(Unquiet)
  BY DEF ScanInv, FsOK
<1>2. changes' = Append(all, phase)
  BY <1>1, ChangeIsNoted
<1>3. Len(all) \in Nat /\ DOMAIN all = 1..Len(all)
  BY <1>1
<1>4. PICK ones : ones = Append(all, phase)
  OBVIOUS
<1>5. /\ DOMAIN ones = 1..(Len(all) + 1) /\ ones[Len(all) + 1] = phase
      /\ \A k \in 1..Len(all) : ones[k] = all[k]
  BY <1>1, <1>3, <1>4
<1>6. \A k \in DOMAIN ones : ones[k] = "sleeping"
  BY <1>2, <1>4 DEF OnlyAsleep
<1>7. phase = "sleeping"
  BY <1>3, <1>5, <1>6
<1>8. OnlyAsleep
  BY <1>1, <1>3, <1>5, <1>6 DEF OnlyAsleep
<1>9. nodes' = nodes /\ phase' = phase
  BY ChangeIs DEF ScanInv, tool
<1> QED
  BY <1>7, <1>8, <1>9, SameIsQuiet, QuietKeeps DEF Idle

LEMMA AsleepStays ==
  ASSUME ScanInv, ScanInv', AsleepInv, UNCHANGED scanVars
  PROVE  AsleepInv'
<1>1. fs' = fs /\ phase' = phase /\ nodes' = nodes /\ level' = level /\ listing' = listing /\ relists' = relists
  BY DEF scanVars
<1>2. Quiet
  BY <1>1, SameIsQuiet
<1>3. Node' = Node /\ \A i \in Node : Subtree(i)' = Subtree(i)
  BY <1>2, QuietIs
<1>4. (phase = "probing" => \A i \in level : \A p \in DOMAIN listing[i] : listing[i][p] = DirAt(p))'
  BY <1>1, SameFs DEF AsleepInv
<1>5. FollowOK => FollowOK'
  <2> SUFFICES ASSUME FollowOK PROVE FollowOK'
    OBVIOUS
  <2>1. Missing(nodes)' = Missing(nodes) /\ Missing(nodes) \subseteq Node
    BY <1>1 DEF Missing, ScanInv, Forest, IsSeq, Node
  <2>2. relists.renamed \subseteq Node /\ relists.missing = Missing(nodes)
    BY <2>1 DEF FollowOK
  <2>3. ASSUME NEW q \in Node PROVE Unmoved(q, relists.renamed)' <=> Unmoved(q, relists.renamed)
    BY <1>1, <1>3, <2>2 DEF Unmoved
  <2>4. ASSUME NEW q \in DOMAIN relists.found
        PROVE  q \in Node /\ PathsOf(relists.found[q]) /\ (Unmoved(q, relists.renamed)' => relists.found[q] = RelistOf(q)')
    <3>1. q \in Node /\ PathsOf(relists.found[q]) /\ (Unmoved(q, relists.renamed) => relists.found[q] = RelistOf(q))
      BY DEF FollowOK
    <3>2. RelistOf(q)' = RelistOf(q)
      BY <1>1, SameFs DEF RelistOf
    <3> QED
      BY <2>3, <3>1, <3>2
  <2>5. ASSUME NEW i \in relists.missing PROVE nodes[i].parent \in relists.parents \/ Settled(i)'
    <3>1. nodes[i].parent \in relists.parents \/ Settled(i)
      BY DEF FollowOK
    <3>2. NotListed(i)' <=> NotListed(i)
      BY <1>1, SameFs DEF NotListed
    <3>3. DirAt(nodes[i].path)' = DirAt(nodes[i].path)
      BY <1>1 DEF DirAt
    <3>4. PICK q \in Node : q = nodes[i].parent
      <4>1. i \in Node /\ nodes[i].parent # 0
        BY <2>1, <2>2 DEF Missing
      <4> QED
        BY <4>1, ForestParents DEF ScanInv
    <3>5. Unmoved(nodes[i].parent, relists.renamed)' <=> Unmoved(q, relists.renamed)'
      BY <1>1, <3>4 DEF Unmoved
    <3> QED
      BY <1>1, <2>3, <3>1, <3>2, <3>3, <3>4, <3>5 DEF Settled
  <2> QED
    BY <1>1, <1>3, <2>1, <2>4, <2>5 DEF FollowOK, IsRelists, PathsOf
<1>6. AllFollowed => AllFollowed'
  <2>1. \A i \in Node : KeepsLoss(nodes'[i], nodes[i])
    BY <1>1 DEF KeepsLoss, KeepsName, KeepsState
  <2> QED
    BY <1>1, <1>2, <2>1, FollowedKept
<1> QED
  BY <1>1, <1>2, <1>4, <1>5, <1>6, QuietIs DEF AsleepInv

LEMMA RenameInvInit == ScanInit => RenameInv
BY ScanInitOK, AsleepInit DEF RenameInv

LEMMA RenameInvNext == RenameInv /\ [ScanNext]_scanVars => RenameInv'
<1> SUFFICES ASSUME RenameInv, [ScanNext]_scanVars, OnlyAsleep' PROVE ScanInv' /\ AsleepInv'
  BY ScanNextOK DEF RenameInv
<1>1. ScanInv /\ ScanInv' /\ (OnlyAsleep => AsleepInv)
  BY ScanNextOK DEF RenameInv
<1>2. CASE Scan
  <2>1. OnlyAsleep
    BY <1>2, ScanChangesNothing DEF OnlyAsleep
  <2> QED
    BY <1>1, <1>2, <2>1, ScanKeeps
<1>3. CASE Change
  BY <1>1, <1>3, ChangeKeeps
<1>4. CASE UNCHANGED scanVars
  <2>1. OnlyAsleep
    BY <1>4 DEF scanVars, OnlyAsleep
  <2> QED
    BY <1>1, <1>4, <2>1, AsleepStays
<1> QED
  BY <1>2, <1>3, <1>4 DEF ScanNext, ScanOver

\* A directory that was there in the first pass and not in the second, while its parent lists
\* its inode, is found again (follow_renames), in whichever order the pool's listings come and
\* the main thread takes them: if the filesystem is quiet by then, and nothing above it was
\* itself renamed.
THEOREM LostAreFound == ScanSpec => []RenamesFollowed
<1>1. RenameInv => RenamesFollowed
  <2> SUFFICES ASSUME RenameInv, phase = "done", OnlyAsleep PROVE AllFollowed => RenamesFollowed
    BY DEF RenameInv, AsleepInv, RenamesFollowed
  <2> QED
    BY DEF AllFollowed, NothingAbove, RenamesFollowed
<1> QED
  BY <1>1, RenameInvInit, RenameInvNext, PTL DEF ScanSpec
=============================================================================
