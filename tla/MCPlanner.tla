------------------------------ MODULE MCPlanner ------------------------------
(* Clusters of six OSDs on five hosts and two PGs: an erasure-coded one of   *)
(* three shards with one on the source and one or two in motion, and a       *)
(* replicated one of two.                                                    *)
EXTENDS Planner

CONSTANTS h1, h2, h3, h4, h5, hdd

\* 3 and 4 share a host; 6 has half the capacity of the others.
MCOsd == 1..6
MCHostOf == <<h1, h3, h2, h2, h4, h5>>
MCClassOf == [o \in MCOsd |-> hdd]
MCWeight == [o \in MCOsd |-> IF o = 6 THEN 2 ELSE 1]
MCPg == {1, 2}
MCEc == [pg \in MCPg |-> pg = 1]
MCShardSize == <<2, 1>>
MCOneSource == {1}

\* A PG as Ceph has it.
PG(raw, pairs, acting) == [raw |-> raw, pairs |-> pairs, acting |-> acting]

\* A cluster as the commands fetch it, from what Ceph knows of it.
Fetched(used, pgs, copied, settled, toofull) ==
  LET up == [pg \in MCPg |-> CephUp(pgs[pg].raw, pgs[pg].pairs)]
      c == [used    |-> used,
            raw     |-> [pg \in MCPg |-> pgs[pg].raw],
            pairs   |-> [pg \in MCPg |-> pgs[pg].pairs],
            up      |-> up,
            acting  |-> [pg \in MCPg |-> pgs[pg].acting],
            copied  |-> [pg \in MCPg |-> [i \in DOMAIN up[pg] |->
                           IF Ec[pg] /\ up[pg][i] # pgs[pg].acting[i] THEN copied ELSE 0]],
            settled |-> settled,
            toofull |-> toofull]
  IN  [res |-> Reservation(c), final |-> Final(c)] @@ c

EcPGs ==
  {PG(<<1, 2, 6>>, <<>>, <<1, 3, 6>>),                       \* CRUSH moves 3 to 2
   PG(<<1, 3, 6>>, << <<3, 2>> >>, <<1, 3, 6>>),             \* an upmap pair does
   PG(<<5, 2, 6>>, << <<5, 1>> >>, <<1, 3, 6>>),             \* 5 stays in CRUSH's mapping
   PG(<<1, 2, 6>>, << <<1, 2>> >>, <<1, 3, 6>>),             \* a stale pair
   PG(<<1, 3, 6>>, << <<3, 4>>, <<4, 2>> >>, <<1, 3, 6>>),   \* pairs that chain
   PG(<<1, 2, 3>>, <<>>, <<1, 3, 6>>),                       \* pins would chain
   PG(<<1, 2, 5>>, << <<5, 3>> >>, <<1, 3, 6>>),             \* ... unless folded
   PG(<<5, 2, 6>>, << <<5, 1>> >>, <<5, 1, 6>>),             \* data on the source
   PG(<<5, 2, 6>>, << <<5, 1>> >>, <<1, 5, 6>>)}             \* a fold makes a chain

ReplicatedPGs ==
  {PG(<<1, 5>>, <<>>, <<1, 5>>),
   PG(<<1, 2>>, <<>>, <<1, 5>>),
   PG(<<1, 3>>, <<>>, <<1, 5>>),
   PG(<<1, 5>>, <<>>, <<2, 5>>),
   PG(<<1, 2>>, <<>>, <<4, 5>>)}    \* two replicas in motion: pairing unclear

MCUsed ==
  {<<u1, 8, u3, u4, u5, 1>> : u1 \in {8, 10}, u3 \in {4, 8}, u4 \in {3, 6}, u5 \in {2, 5}}

MCClusters ==
  {Fetched(used, <<p, q>>, copied, settled, toofull) :
     used \in MCUsed, p \in EcPGs, q \in ReplicatedPGs,
     copied \in {0, 1}, settled \in {MCPg, {2}}, toofull \in {{}, {1}}}
=============================================================================
