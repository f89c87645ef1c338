------------------------------ MODULE MCMdsOps ------------------------------
(* Runs of two clusters and two pools that share a directory, two at a time. *)
EXTENDS MdsOps

CONSTANTS r1, r2, c1, c2, p1, p2, i1, i2, u, custom

MCArg(cluster, pool, rank, ttl, lsTtl, lsName, caching, ldap) ==
  [cluster |-> cluster, pool |-> pool, rank |-> rank, ttl |-> ttl, lsTtl |-> lsTtl,
   lsName |-> lsName, resolve |-> TRUE, caching |-> caching, ldap |-> ldap]

\* Runs that resolve inodes, and share one file of paths ...
Paths(pool) == MCArg(c1, pool, 0, 1, 0, None, TRUE, {})
\* ... and runs that only name clients, and share a file per rank, or one file.
Clients(cluster, rank, lsName) ==
  [MCArg(cluster, p1, rank, 1, 1, lsName, TRUE, {}) EXCEPT !.resolve = FALSE]

MCScripts == {
  <<Paths(p1), Paths(p1), Paths(p1)>>,
  <<Paths(p1), Paths(p2)>>,
  <<MCArg(c1, p1, 0, 0, 0, None, TRUE, {}), MCArg(c2, p1, 0, 0, 1, None, TRUE, {})>>,
  <<Clients(c1, 0, None), Clients(c2, 0, None)>>,
  <<Clients(c1, 0, custom), Clients(c1, 1, custom)>>,
  <<MCArg(c1, p1, None, 1, 0, None, FALSE, {"ldap3", "ldapsearch"})>> }

MCOp(ino, ids) == [ino |-> ino, ids |-> ids]
MCDump == { <<>>, <<MCOp(i1, {u}), MCOp(i1, {})>>, <<MCOp(i2, {u})>> }

MCSymmetry == Permutations({r1, r2})
=============================================================================
