---------------------------- MODULE MCShedCases ----------------------------
(* A cluster, with one run to follow, on twelve OSDs of six hosts as in the  *)
(* project's tests: host h has OSDs 10h and 10h+1.                           *)
EXTENDS Shed

CONSTANTS h0, h1, h2, h3, h4, h5, hdd, ssd, Full   \* Full: what the other OSDs hold

MCOsd == {0, 1, 10, 11, 20, 21, 30, 31, 40, 41, 50, 51}
MCHostOf == [o \in MCOsd |-> <<h0, h1, h2, h3, h4, h5>>[o \div 10 + 1]]
MCWeight == [o \in MCOsd |-> 1]

Whole(size) == [pg \in DOMAIN size |-> TRUE]
Classes(ssds) == [o \in MCOsd |-> IF o \in ssds THEN ssd ELSE hdd]

Fetched(used, raw, pairs, acting, toofull) ==
  LET up == [pg \in Pg |-> CephUp(raw[pg], pairs[pg])]
      c == [used    |-> used @@ [o \in MCOsd |-> Full],
            raw     |-> raw,
            pairs   |-> pairs,
            up      |-> up,
            acting  |-> acting,
            copied  |-> [pg \in Pg |-> [i \in DOMAIN up[pg] |-> 0]],
            settled |-> Pg,
            toofull |-> toofull]
  IN  [res |-> Reservation(c), final |-> Final(c)] @@ c

NoPairs == <<>>

\* A blocker is pinned onto source 0, another's pin has the move off 0 re-placed.
MCPinSources == {0, 40}
MCPinClass == Classes({30, 31, 41})
MCPinSize == <<8, 1, 25>>
MCPinClusters ==
  {Fetched(0 :> 82 @@ 50 :> 52 @@ 1 :> 54 @@ 11 :> 10,
           << <<0, 40, 20>>, <<21, 41, 30, 10>>, <<21, 11, 41>> >>,
           << NoPairs, << <<21, 0>> >>, NoPairs >>,
           << <<51, 40, 20>>, <<31, 0, 51, 10>>, <<0, 11, 41>> >>, {})}

MCEcOf3 == Whole(MCPinSize)
=============================================================================
