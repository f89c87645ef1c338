------------------------------- MODULE MCScan -------------------------------
(***************************************************************************)
(* A root with two directories below it, side by side or one in the other,  *)
(* and a third that is idle or yet to come; some choices of which of them    *)
(* are recent, and at most one of them that cannot be read, is wide, or is   *)
(* another filesystem's.                                                    *)
(***************************************************************************)
EXTENDS ScanGrowingDirs

CONSTANTS rt, da, db, dc

MCDirectory == {rt, da, db, dc}

Placed(i, parent, n, active) ==
  i :> [in |-> parent, name |-> n, own |-> 3, rctime |-> IF active THEN 1 ELSE 0]

Tree(aIn, bIn, bName, cIn, active) ==
  Placed(rt, Top, 0, active # {})
    @@ Placed(da, aIn, 1, da \in active \/ (db \in active /\ bIn = da))
    @@ Placed(db, bIn, bName, db \in active) @@ Placed(dc, cIn, 3, dc \in active)

SideBySide(cIn, active) == Tree(rt, rt, 2, cIn, active)

Nested(cIn, active) == Tree(rt, da, 1, cIn, active)

Healthy(dir) == [dir |-> dir, denied |-> {}, wide |-> {}, foreign |-> {}]

Trees ==
  {SideBySide(rt, {}), SideBySide(rt, {da, db}), SideBySide(rt, {da, db, dc}),
   SideBySide(da, {da}), Nested(db, {da, db}), Nested(Gone, {da, db})}

Foreign(i, t) == [Healthy(t) EXCEPT !.foreign = {i}]

Faults(dir) ==
  {[Healthy(dir) EXCEPT !.denied = {d}] :
     d \in {<<"rbytes", da>>, <<"rctime", db>>, <<"entries", da>>, <<"list", db>>, <<"rctime", rt>>}}
    \union {[Healthy(dir) EXCEPT !.wide = {da}], Foreign(db, dir)}

MCStarts ==
  {Healthy(t) : t \in Trees} \union Faults(Nested(Gone, {da, db}))
    \union {Foreign(i, SideBySide(db, {da, db})) : i \in {db, dc}}

MCWrites == {2, 4, -3}

MCArguments == {<< <<0>> >>, << <<0, 1>>, <<0, 2>> >>, << <<0, 1>>, <<0>> >>}
=============================================================================
