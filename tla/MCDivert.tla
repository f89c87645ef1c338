------------------------------ MODULE MCDivert ------------------------------
(* Three toofull PGs on eight OSDs of five hosts: 2 and 3 share a host, and  *)
(* so do 6 and 7.  Data is on its way to 2 and 4.                            *)
EXTENDS Divert

CONSTANTS h1, h2, h3, h4, h5, hdd

MCOsd == 1..8
MCHostOf == <<h1, h2, h2, h3, h4, h5, h5, h1>>
MCClassOf == [o \in MCOsd |-> hdd]
MCWeight == [o \in MCOsd |-> IF o = 7 THEN 2 ELSE 1]
MCPg == {1, 2, 3}
MCEc == <<TRUE, TRUE, FALSE>>
MCShardSize == <<2, 1, 1>>

\* ceph osd df knows nothing of 8; 3 is out.
MCSized == MCOsd \ {8}
MCUsable == MCSized \ {3}

PG(raw, pairs, acting) == [raw |-> raw, pairs |-> pairs, acting |-> acting]

Fetched(used, pgs, copied, toofull) ==
  LET up == [pg \in MCPg |-> CephUp(pgs[pg].raw, pgs[pg].pairs)]
      c == [used    |-> used,
            raw     |-> [pg \in MCPg |-> pgs[pg].raw],
            pairs   |-> [pg \in MCPg |-> pgs[pg].pairs],
            up      |-> up,
            acting  |-> [pg \in MCPg |-> pgs[pg].acting],
            copied  |-> [pg \in MCPg |-> [i \in DOMAIN up[pg] |->
                           IF Ec[pg] /\ up[pg][i] # pgs[pg].acting[i] THEN copied ELSE 0]],
            settled |-> MCPg,
            toofull |-> toofull]
  IN  [res |-> Reservation(c), final |-> Final(c)] @@ c

FirstPGs ==
  {PG(<<2, 4, 5>>, <<>>, <<3, 4, 5>>),
   PG(<<2, 4, 5>>, <<>>, <<3, 6, 5>>),
   PG(<<2, 4, 5>>, <<>>, <<3, 1, 5>>),
   PG(<<2, 4, 5>>, <<>>, <<None, 4, 5>>),
   PG(<<3, 4, 5>>, << <<3, 2>> >>, <<3, 6, 5>>),
   PG(<<3, 4, 5>>, << <<3, 1>>, <<1, 2>> >>, <<3, 4, 5>>)}   \* chains

SecondPGs ==
  {PG(<<2, 5, 1>>, <<>>, <<3, 5, 1>>),
   PG(<<2, 4, 1>>, <<>>, <<6, 3, 1>>),
   PG(<<4, 5, 8>>, <<>>, <<6, 5, 1>>)}

ThirdPGs ==
  {PG(<<2, 4>>, <<>>, <<3, 4>>),
   PG(<<4, 2>>, <<>>, <<6, 5>>),
   PG(<<5, 4>>, << <<5, 2>> >>, <<6, 4>>)}

MCUsed ==
  {<<u1, u2, 7, u4, u5, u6, 1, 0>> :
     u1 \in {3, 7}, u2 \in {8, 10}, u4 \in {7, 9}, u5 \in {3, 7}, u6 \in {3, 8}}

MCInput ==
  {Fetched(used, <<p, q, r>>, copied, toofull) :
     used \in MCUsed, p \in FirstPGs, q \in SecondPGs, r \in ThirdPGs,
     copied \in {1}, toofull \in {{1, 2, 3}}}

MCClusters == MCInput
=============================================================================
