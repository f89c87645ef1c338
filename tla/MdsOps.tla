------------------------------- MODULE MdsOps -------------------------------
(***************************************************************************)
(* mds-ops-pretty (src/cephfs/mds-ops-pretty.py): one run asks every active *)
(* MDS rank for its operations and prints them with the clients and the    *)
(* paths they concern.  Runs overlap: they share two kinds of cache files, *)
(* the inode paths of a cluster (one file per fsid) and the client list of *)
(* a rank (one file per rank, or the one named with --client-cache-file),  *)
(* and neither file is locked.  Queries fail, and time passes between any  *)
(* two steps.                                                              *)
(*                                                                         *)
(* An inode is named by <<cluster, metadata pool, inode>>.  What it        *)
(* resolves to is [of, fetched]: the path that inode had when it was asked *)
(* for (directories are renamed, so another moment, another path).  That   *)
(* is what the properties tell paths apart by; the program sees text.      *)
(***************************************************************************)
EXTENDS Naturals, FiniteSets, SequencesExt

CONSTANTS
  Run,        \* slots in which runs follow one another; two runs overlap in two slots
  Cluster,    \* clusters a run may be pointed at
  Pool,       \* metadata pools (--meta-pool)
  Inode,      \* inodes that operations name
  Id,         \* numeric user and group ids
  Rank,       \* MDS ranks, numbers
  LsName,     \* names a client list may be saved under, but for the ranks themselves
  Scripts,    \* sequences of command lines, in the order the runs start
  Dumps,      \* what a rank may answer: sequences of operations
  None,       \* Python's None
  MaxClock    \* bound of the clock

VARIABLES
  clock,      \* time.time()
  inodeFile,  \* cluster -> inode cache file: a dict <<pool, inode>> -> [path, ts]
  lsFile,     \* name -> client list file there is: [mtime, fsid, rank, clients]
  failed,     \* the lookups of inodes that failed: <<inode, time>>
  todo,       \* command lines still to be given
  run         \* slot -> what its run holds

mdsVars == <<clock, inodeFile, lsFile, failed, todo, run>>

\* What a run may be asked for; a limit (ttl, lsTtl) of 0 means no limit, or no caching.
CommandLine ==
  [cluster : Cluster, pool : Pool, rank : Rank \cup {None}, ttl : Nat, lsTtl : Nat,
   lsName : LsName \cup {None}, resolve : BOOLEAN, caching : BOOLEAN,
   ldap : SUBSET {"ldap3", "ldapsearch"}]

ASSUME MdsTyped ==
  /\ Rank \subseteq Nat /\ IsFiniteSet(Rank)
  /\ None \notin Cluster \cup Inode \cup Rank \cup LsName
  /\ None \notin {"shown", "empty", "error"}
  /\ Scripts \subseteq Seq(CommandLine)
  /\ Dumps \subseteq Seq([ino : Inode \cup {None}, ids : SUBSET Id])

\* A slot with no run in it.  `reply`: rank -> its dump, or why there is none;
\* `task`, `clients`: load_client_ls_cached for each rank; `conn`: the LDAP connection;
\* `saves`: there is an inode cache file; `names`: LdapResolver._cache; `saw`: what
\* save_inode_cache read; `shown`: what the run printed.
IdleRun == [pc |-> "idle", arg |-> None, ranks |-> {}, reply |-> <<>>, task |-> <<>>,
            clients |-> <<>>, conn |-> None, saves |-> FALSE, cache |-> <<>>, names |-> <<>>,
            ops |-> <<>>, dirty |-> FALSE, begun |-> 0, saw |-> <<>>, shown |-> <<>>, exit |-> None]

\* The process is gone with what it held; what it printed stays.
Exited(state, how) ==
  [state EXCEPT !.pc = "ended", !.exit = how, !.cache = <<>>, !.names = <<>>, !.conn = None,
                !.ops = <<>>, !.saw = <<>>, !.dirty = FALSE, !.saves = FALSE]

MdsInit ==
  /\ clock = 0
  /\ inodeFile = [c \in Cluster |-> <<>>]
  /\ lsFile = <<>>
  /\ failed = {}
  /\ todo \in Scripts
  /\ run = [r \in Run |-> IdleRun]

\* A dict after d[key] = value.
Assigned(d, key, value) == [k \in DOMAIN d \cup {key} |-> IF k = key THEN value ELSE d[k]]

-----------------------------------------------------------------------------
Tick == /\ clock < MaxClock
        /\ clock' = clock + 1
        /\ UNCHANGED <<inodeFile, lsFile, failed, todo, run>>

-----------------------------------------------------------------------------
(* Starting: the ranks, and the calls handed to the thread pool.           *)

\* With --mds-rank that rank, otherwise those that are active now; none is an error.
RanksOf(a) == IF a.rank # None THEN {{a.rank}} ELSE SUBSET Rank

Start(r) ==
  LET a == Head(todo) IN
  /\ run[r].pc \in {"idle", "ended"}
  /\ todo # <<>>
  /\ todo' = Tail(todo)
  /\ \E ranks \in RanksOf(a) :
       IF ranks = {} \/ (a.lsName # None /\ Cardinality(ranks) > 1)
       THEN run' = [run EXCEPT ![r] = Exited(IdleRun, "refused")]
       ELSE run' = [run EXCEPT ![r] = [IdleRun EXCEPT
              !.pc = "gather", !.arg = a, !.ranks = ranks,
              !.task = [m \in ranks |-> IF a.lsTtl = 0 THEN "query" ELSE "look"],
              !.clients = [m \in ranks |-> None]]]
  /\ UNCHANGED <<clock, inodeFile, lsFile, failed>>

-----------------------------------------------------------------------------
(* The clients, asked for in a thread per rank.                            *)

FileOf(a, m) == IF a.lsName = None THEN m ELSE a.lsName

\* The modification time decides first whether the saved client list is worth reading ...
LookAtAge(r, m) ==
  LET name == FileOf(run[r].arg, m) IN
  /\ run[r].pc = "gather" /\ m \in run[r].ranks /\ run[r].task[m] = "look"
  /\ run' = [run EXCEPT ![r].task[m] =
               IF name \in DOMAIN lsFile /\ clock - lsFile[name].mtime < run[r].arg.lsTtl
               THEN "read" ELSE "query"]
  /\ UNCHANGED <<clock, inodeFile, lsFile, failed, todo>>

\* ... and what is read, perhaps written since, whether it is this rank's and cluster's.
UsableFor(file, fsid, m) == file.rank = m /\ file.fsid = fsid

ReadClients(r, m) ==
  LET file == lsFile[FileOf(run[r].arg, m)] IN
  /\ run[r].pc = "gather" /\ m \in run[r].ranks /\ run[r].task[m] = "read"
  /\ \E fsid \in {run[r].arg.cluster, None} :
       run' = [run EXCEPT
         ![r].task[m] = IF UsableFor(file, fsid, m) THEN "served" ELSE "query",
         ![r].clients[m] = IF UsableFor(file, fsid, m) THEN file.clients ELSE None]
  /\ UNCHANGED <<clock, inodeFile, lsFile, failed, todo>>

\* query_client_ls_live: None when it fails, an exception when the answer is no JSON.
QueryClients(r, m) ==
  /\ run[r].pc = "gather" /\ m \in run[r].ranks /\ run[r].task[m] = "query"
  /\ \/ run' = [run EXCEPT
          ![r].clients[m] = [cluster |-> run[r].arg.cluster, rank |-> m, taken |-> clock],
          ![r].task[m] = IF run[r].arg.lsTtl = 0 THEN "served" ELSE "save"]
     \/ \E how \in {"served", "garbled"} : run' = [run EXCEPT ![r].task[m] = how]
  /\ UNCHANGED <<clock, inodeFile, lsFile, failed, todo>>

\* _save_client_ls_cache, if the fsid is known: by a file of its own and a rename, so at
\* once; a failure is a warning.
SaveClients(r, m) ==
  /\ run[r].pc = "gather" /\ m \in run[r].ranks /\ run[r].task[m] = "save"
  /\ run' = [run EXCEPT ![r].task[m] = "served"]
  /\ \/ lsFile' = Assigned(lsFile, FileOf(run[r].arg, m),
                     [mtime |-> clock, fsid |-> run[r].arg.cluster, rank |-> m,
                      clients |-> run[r].clients[m]])
     \/ UNCHANGED lsFile
  /\ UNCHANGED <<clock, inodeFile, failed, todo>>

-----------------------------------------------------------------------------
(* The pool is joined.  What its other threads were answered hangs on      *)
(* nothing shared, so it is chosen here.                                   *)

\* query_mds_dump: the operations, a failure, or an answer that is no JSON.
DumpAnswers == [how : {"answered"}, ops : Dumps] \cup [how : {"failed", "garbled"}, ops : {<<>>}]

\* LdapResolver._ensure_conn: tried once, given up for good.
ConnAnswers(a) == IF "ldap3" \in a.ldap THEN {"up", "failed"} ELSE {None}

\* Mutant: any failure is.
FatalIfAny(reply, task) == \E m \in DOMAIN reply : reply[m].how # "answered" \/ task[m] = "garbled"

\* A rank that did not answer is fatal only when no other did; the exception of an answer
\* that is no JSON, kept in its future, always is.
Fatal(reply, task) == \/ \A m \in DOMAIN reply : reply[m].how = "failed"
                      \/ \E m \in DOMAIN reply : reply[m].how = "garbled" \/ task[m] = "garbled"

\* The n-th of the ranks in ascending order.
NthOf(ranks, n) == CHOOSE m \in ranks : Cardinality({k \in ranks : k < m}) = n - 1

\* The operations, rank by rank.
OpsOf(reply) ==
  FlattenSeq([n \in 1 .. Cardinality(DOMAIN reply) |->
    LET m == NthOf(DOMAIN reply, n)
    IN  [i \in DOMAIN reply[m].ops |->
           [rank |-> m, ino |-> reply[m].ops[i].ino, ids |-> reply[m].ops[i].ids]]])

\* Mutant: one file for all clusters.
OneCacheFile(a) == CHOOSE c \in Cluster : TRUE

\* inode_cache_file: one per cluster.
CacheFile(a) == a.cluster

\* get_fsid and load_inode_cache: with the cache in use and the fsid known the file is read
\* (one that cannot be read counts as empty) and will be written; otherwise neither.
LoadCache(a) ==
  {[saves |-> FALSE, cache |-> <<>>]}
    \cup (IF a.resolve /\ a.caching THEN [saves : {TRUE}, cache : {inodeFile[CacheFile(a)], <<>>}] ELSE {})

Gather(r) ==
  /\ run[r].pc = "gather"
  /\ \A m \in run[r].ranks : run[r].task[m] \in {"served", "garbled"}
  /\ \E reply \in [run[r].ranks -> DumpAnswers] :
       IF Fatal(reply, run[r].task)
       THEN run' = [run EXCEPT ![r] = Exited([@ EXCEPT !.reply = reply], "error")]
       ELSE IF OpsOf(reply) = <<>>
       THEN run' = [run EXCEPT ![r] = Exited([@ EXCEPT !.reply = reply], "empty")]
       ELSE \E load \in LoadCache(run[r].arg), conn \in ConnAnswers(run[r].arg) :
              run' = [run EXCEPT ![r] = [@ EXCEPT
                !.pc = "show", !.reply = reply, !.ops = OpsOf(reply), !.conn = conn,
                !.saves = load.saves, !.cache = load.cache, !.begun = clock]]
  /\ UNCHANGED <<clock, inodeFile, lsFile, failed, todo>>

-----------------------------------------------------------------------------
(* Printing one operation: resolve_inode and the two ids.                  *)

CacheKey(a, ino) == <<a.pool, ino>>

\* Mutant: an entry of exactly the time limit still counts.
FreshThroughout(entry, a, begun, now) == \/ entry.ts >= begun
                                         \/ a.ttl = 0
                                         \/ now - entry.ts <= a.ttl

\* What this run looked up never expires; what was loaded does (0: never).
Fresh(entry, a, begun, now) == \/ entry.ts >= begun
                               \/ a.ttl = 0
                               \/ now - entry.ts < a.ttl

\* _rados_inode_path: the path as of now, or None (a failure, or not persisted yet).
Lookup(inode) == {None, [of |-> inode, fetched |-> clock]}

\* The entry kept of an answer: a failure leaves the path last known, as if of now.
Kept(cache, key, answer) ==
  [path |-> IF answer = None /\ key \in DOMAIN cache THEN cache[key].path ELSE answer,
   ts |-> clock]

Hit(r, key) == /\ key \in DOMAIN run[r].cache
               /\ Fresh(run[r].cache[key], run[r].arg, run[r].begun, clock)

\* print_op: neither an unparseable operation nor one without an inode resolves any.
Resolves(r, op) == run[r].arg.resolve /\ op.ino # None

\* LdapResolver: each id is asked for once, whatever the answer; ldapsearch is used only
\* where ldap3 is not there or never connected.
Unasked(r, op) == IF run[r].arg.ldap = {} THEN {} ELSE op.ids \ DOMAIN run[r].names

Names(r) == IF run[r].conn = "up" \/ "ldapsearch" \in run[r].arg.ldap THEN {None, "name"} ELSE {None}

\* The operation is taken off, its ids are asked for, and it is printed with a path.
Showing(r, op, names, path) ==
  [run[r] EXCEPT !.ops = Tail(@), !.names = names @@ @,
                 !.shown = Append(@, [rank |-> op.rank, ino |-> op.ino, path |-> path, at |-> clock])]

ShowOp(r) ==
  LET op    == Head(run[r].ops)
      key   == CacheKey(run[r].arg, op.ino)
      inode == <<run[r].arg.cluster, run[r].arg.pool, op.ino>>
  IN
  /\ run[r].pc = "show" /\ run[r].ops # <<>>
  /\ \E names \in [Unasked(r, op) -> Names(r)] :
       \/ /\ ~Resolves(r, op)
          /\ run' = [run EXCEPT ![r] = Showing(r, op, names, None)]
          /\ UNCHANGED failed
       \/ /\ Resolves(r, op) /\ Hit(r, key)
          /\ run' = [run EXCEPT ![r] = Showing(r, op, names, run[r].cache[key].path)]
          /\ UNCHANGED failed
       \/ /\ Resolves(r, op) /\ ~Hit(r, key)
          /\ \E answer \in Lookup(inode) :
               LET entry == Kept(run[r].cache, key, answer) IN
               /\ run' = [run EXCEPT ![r] = [Showing(r, op, names, entry.path) EXCEPT
                            !.cache = Assigned(@, key, entry),
                            !.dirty = @ \/ answer # None]]
               /\ failed' = IF answer = None THEN failed \cup {<<inode, clock>>} ELSE failed
  /\ UNCHANGED <<clock, inodeFile, lsFile, todo>>

-----------------------------------------------------------------------------
(* save_inode_cache, when a lookup succeeded.                              *)

Finish(r) ==
  /\ run[r].pc = "show" /\ run[r].ops = <<>>
  /\ run' = [run EXCEPT ![r] = IF run[r].saves /\ run[r].dirty THEN [@ EXCEPT !.pc = "merge"]
                                                              ELSE Exited(@, "shown")]
  /\ UNCHANGED <<clock, inodeFile, lsFile, failed, todo>>

\* Only what was resolved is written.
Resolved(cache) == {k \in DOMAIN cache : cache[k].path # None}

\* Mutant: this run's entry always wins.
MergedOwnWins(cache, onDisk) ==
  LET mine == Resolved(cache)
  IN  [k \in mine \cup DOMAIN onDisk |-> IF k \in mine THEN cache[k] ELSE onDisk[k]]

\* The two dicts merged: the newer entry of a key wins, this run's own on a tie.
Merged(cache, onDisk) ==
  LET mine == Resolved(cache)
      theirs(k) == k \in DOMAIN onDisk /\ (k \notin mine \/ onDisk[k].ts > cache[k].ts)
  IN  [k \in mine \cup DOMAIN onDisk |-> IF theirs(k) THEN onDisk[k] ELSE cache[k]]

\* The file is read (an unreadable one counts as empty) ...
ReadDisk(r) ==
  /\ run[r].pc = "merge"
  /\ \E onDisk \in {inodeFile[CacheFile(run[r].arg)], <<>>} :
       run' = [run EXCEPT ![r].pc = "replace", ![r].saw = onDisk]
  /\ UNCHANGED <<clock, inodeFile, lsFile, failed, todo>>

\* ... and some time later replaced, whoever replaced it meanwhile; or left, with a warning.
ReplaceFile(r) ==
  /\ run[r].pc = "replace"
  /\ run' = [run EXCEPT ![r] = Exited(@, "shown")]
  /\ \/ inodeFile' = [inodeFile EXCEPT ![CacheFile(run[r].arg)] = Merged(run[r].cache, run[r].saw)]
     \/ UNCHANGED inodeFile
  /\ UNCHANGED <<clock, lsFile, failed, todo>>

\* Ctrl-C.
KillRun(r) ==
  /\ run[r].pc \notin {"idle", "ended"}
  /\ run' = [run EXCEPT ![r] = Exited(IdleRun, "killed")]
  /\ UNCHANGED <<clock, inodeFile, lsFile, failed, todo>>

-----------------------------------------------------------------------------
MdsNext ==
  \/ Tick
  \/ \E r \in Run :
       \/ Start(r)
       \/ \E m \in Rank : \/ LookAtAge(r, m) \/ ReadClients(r, m)
                          \/ QueryClients(r, m) \/ SaveClients(r, m)
       \/ Gather(r) \/ ShowOp(r) \/ Finish(r) \/ ReadDisk(r) \/ ReplaceFile(r) \/ KillRun(r)

MdsSpec == MdsInit /\ [][MdsNext]_mdsVars

-----------------------------------------------------------------------------
(* Properties.                                                             *)

\* However runs at different clusters, pools and ranks share the files of one directory,
\* what a run prints is its own inode's path, and the clients it names are those of the
\* rank and cluster it asked (inode_cache_file, the key of resolve_inode, and the checks of
\* load_client_ls_cached).
NothingForeign ==
  \A r \in Run :
    /\ \A s \in Range(run[r].shown) :
         s.path # None => s.path.of = <<run[r].arg.cluster, run[r].arg.pool, s.ino>>
    /\ \A m \in DOMAIN run[r].clients :
         run[r].clients[m] # None => /\ run[r].clients[m].rank = m
                                     /\ run[r].clients[m].cluster = run[r].arg.cluster

\* A path is shown past the time limit only if the run looked it up itself or a lookup of it
\* failed since, in this run or in one that saved it with the new time (resolve_inode: the
\* last known path is kept on a failed re-fetch).
StaleOnlyAfterFailure ==
  \A r \in Run : \A s \in Range(run[r].shown) :
    LET Recent(t) == t >= run[r].begun \/ s.at < t + run[r].arg.ttl
    IN  s.path # None /\ run[r].arg.ttl > 0
          => \/ Recent(s.path.fetched)
             \/ \E f \in failed : f[1] = s.path.of /\ f[2] >= s.path.fetched /\ Recent(f[2])

\* Each rank that answered is shown, with all its operations in their order, whatever the
\* other ranks did; a run ends in error only if none did, or some answer was no JSON.
AnswersShown ==
  \A r \in Run :
    LET Garbled == \E m \in run[r].ranks : run[r].reply[m].how = "garbled" \/ run[r].task[m] = "garbled"
        shown == run[r].shown
        LinesOf(m) == {i \in DOMAIN shown : shown[i].rank = m}
        Nth(m, i) == Cardinality({j \in LinesOf(m) : j <= i})
    IN  /\ run[r].exit \in {"shown", "empty"} =>
             \A m \in run[r].ranks :
               /\ Cardinality(LinesOf(m)) = Len(run[r].reply[m].ops)
               /\ \A i \in LinesOf(m) : shown[i].ino = run[r].reply[m].ops[Nth(m, i)].ino
        /\ run[r].exit = "error" => Garbled \/ \A m \in run[r].ranks : run[r].reply[m].how = "failed"

\* A file of paths loses no inode and no newer entry, except to a run that read it before it
\* was last replaced, or could not read it (save_inode_cache: merged, but not locked).
NewerKept ==
  [][ \A c \in Cluster : inodeFile'[c] # inodeFile[c] =>
        \/ \E r \in Run : run[r].pc = "replace" /\ run'[r].pc = "ended" /\ run[r].saw # inodeFile[c]
        \/ \A k \in DOMAIN inodeFile[c] : k \in DOMAIN inodeFile'[c] /\ inodeFile'[c][k].ts >= inodeFile[c][k].ts
    ]_mdsVars

=============================================================================
