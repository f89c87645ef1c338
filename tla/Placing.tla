------------------------------- MODULE Placing -------------------------------
(***************************************************************************)
(* Planner.place as the code searches: which of the legal targets a shard   *)
(* gets.  drain, balance and divert-toofull all place their shards so.      *)
(***************************************************************************)
EXTENDS Planner

Candidates(pg, i) == {o \in Usable \ Sources : ClassOf[o] = ClassOf[UpOf(pg, i)]}

Less(p, units, a, b) ==
  LET after(o) == Util(o, p.final[o] + units)
  IN  after(a) < after(b) \/ (after(a) = after(b) /\ a < b)

\* What the target must stay below: the OSD it relieves, and the level.
Guards(p, pg, i) ==
  LET u == UpOf(pg, i)
  IN  (IF Relieve /\ u \in Sized THEN {Util(u, p.final[u] - Size(pg))} ELSE {})
      \union (IF Level # 0 /\ LevelClass # None /\ ClassOf[u] = LevelClass
              THEN {Level} ELSE {})

\* Mutant: what the shard adds is taken from the smallest candidate.
BoundOfSmallest(p, pg, i, o) ==
  FinalUtil(p, o) + Size(pg) * Max({Weight[c] : c \in Candidates(pg, i)})

\* A candidate's projection with the shard is at least this.
Bound(p, pg, i, o) ==
  FinalUtil(p, o) + Size(pg) * Min({Weight[c] : c \in Candidates(pg, i)})

\* Mutant: the search stops at the first candidate that is not legal.
PlaceInFirstRun(p, pg, i, avoid) ==
  LET legal == {o \in Candidates(pg, i) : Legal(p, pg, i, o, avoid)}
      tried == {o \in legal : \A c \in Candidates(pg, i) \ legal : Less(p, 0, o, c)}
  IN  IF tried = {} THEN None
      ELSE CHOOSE o \in tried : \A b \in tried \ {o} : Less(p, Size(pg), o, b)

\* The best legal target, None if there is none.  The candidates are tried in final
\* projection order until one's bound is over the cap, a guard or the best found: no
\* later bound is lower.
Place(p, pg, i, avoid) ==
  LET legal == {o \in Candidates(pg, i) : Legal(p, pg, i, o, avoid)}
      tried == {o \in legal :
                  LET bound == Bound(p, pg, i, o)
                  IN  /\ bound <= Cap
                      /\ \A guard \in Guards(p, pg, i) : bound <= guard
                      /\ \A b \in legal :
                           Less(p, 0, b, o) => bound <= Util(b, p.final[b] + Size(pg))}
  IN  IF tried = {} THEN None
      ELSE CHOOSE o \in tried : \A b \in tried \ {o} : Less(p, Size(pg), o, b)

=============================================================================
