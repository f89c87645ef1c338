------------------------------- MODULE MCShed -------------------------------
(* Runs of drain and balance on the clusters of MCPlanner, some OSDs of      *)
(* which have no capacity figure or take no data.                            *)
EXTENDS MCPlanner, Shed

\* ceph osd df knows nothing of 3; 5 is out.
MCSized == MCOsd \ {3}
MCUsable == MCOsd \ {3, 5}

\* 2 holds up the erasure-coded PG by what it holds now, or by what is headed for it.
MCShedShardSize == <<2, 3>>

MCShedUsed ==
  {<<10, u2, 4, u4, u5, 1>> : u2 \in {8, 9}, u4 \in {3, 6}, u5 \in {2, 5}}

MCShedInput ==
  {Fetched(used, <<p, q>>, 1, settled, toofull) :
     used \in MCShedUsed, p \in EcPGs, q \in ReplicatedPGs,
     settled \in {MCPg, {1}}, toofull \in {{}, {1}}}

MCShedSources == {1, 2, 3}

MCShedClusters == MCShedInput

=============================================================================
