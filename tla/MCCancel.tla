------------------------------ MODULE MCCancel ------------------------------
(* One PG of three shards on six OSDs of five hosts, 3 and 4 on one: the up   *)
(* sets that CRUSH or one or two upmap pairs give, and data on other OSDs.   *)
EXTENDS CancelBackfill

CONSTANTS h1, h2, h3, h4, h5

MCOsd == 1..6
MCHostOf == <<h1, h2, h3, h3, h4, h5>>
MCUtilOf == <<5, 6, 7, 7, 4, None>>

MCRaw == <<1, 2, 3>>

MCPairs ==
  {<<>>, << <<1, 5>> >>, << <<1, 5>>, <<2, 6>> >>, << <<3, 4>> >>,
   << <<2, 1>> >>,                  \* stale
   << <<3, 5>>, <<2, 3>> >>,        \* chains
   << <<2, 6>>, <<3, 2>> >>}

\* Where the data of each shard may be.
MCEcActing ==
  {a \in (MCOsd \union {None}) \X MCOsd \X (MCOsd \union {None}) : HostsDistinct(a)}

MCReplicas == {a \in MCOsd \X MCOsd \X (MCOsd \union {None}) :
                 /\ HostsDistinct(a)
                 /\ a[1] < a[2] /\ (a[3] = None \/ a[2] < a[3])}

Fetched(ec, actings) ==
  {p \in {[ec |-> ec, raw |-> MCRaw, pairs |-> pairs, up |-> CephUp(MCRaw, pairs),
           acting |-> a] : pairs \in MCPairs, a \in actings} : p.up # p.acting}

MCInput == Fetched(TRUE, MCEcActing) \union Fetched(FALSE, MCReplicas)

MCFetched == MCInput

Command(uphill, osds, full) == [uphill |-> uphill, osds |-> osds, full |-> full]

MCCommands ==
  {Command(FALSE, {}, {}), Command(TRUE, {}, {})}
  \union {Command(FALSE, osds, full) :
            osds \in {{1}, {2, 3}, {5, 6}}, full \in {{}, {1, 2, 5}, MCOsd}}
=============================================================================
