----------------------------- MODULE MCMeasure ------------------------------
(***************************************************************************)
(* An erasure-coded PG of two shards, one of which moves, or both, or one    *)
(* has nowhere to be; and a replicated PG, still or moving.  Their pool has  *)
(* three PGs, so that theirs have different ranges of hashes.                *)
(***************************************************************************)
EXTENDS MeasureRate

\* What the theorems about measured rates take as given, of this pool and of others.
ASSUME SharesOfPools ==
  FractionIsShare /\ \A width \in 1..6 : \A n \in 1..(2 ^ width) : SharesAreExact(width, n)

MCOsd == 1..4

MCHost == {<<"a", 5>>, <<"b", 5>>, <<"c", 0>>}

MCHostOf == <<<<"a", 5>>, <<"a", 5>>, <<"b", 5>>, <<"c", 0>>>>

State(p, up, acting, active, left) ==
  [up |-> up, acting |-> acting, active |-> active, done |-> [x \in Peers(p) |-> 0], left |-> left]

With(e, r) == [p \in Pg |-> IF p = "e" THEN e ELSE r]

Half(s, peer) == [s EXCEPT !.done[peer] = 1]

MCSeed == [p \in Pg |-> IF p = "e" THEN 0 ELSE 1]

MCStarts ==
  {With(Half(State("e", <<3, 4>>, <<1, None>>, TRUE, 3), <<3, 1>>), State("r", <<1, 2>>, <<1, 2>>, FALSE, 0)),
   With(State("e", <<1, 2>>, <<1, None>>, FALSE, 2), Half(State("r", <<4, 2>>, <<2, 3>>, TRUE, 3), <<4, 0>>))}

All == [osds |-> {}, hosts |-> {}, pgs |-> {}, all |-> TRUE]

MCArguments ==
  {All, [osds |-> {3}, hosts |-> {<<"b", 5>>}, pgs |-> {"e"}, all |-> FALSE]}
=============================================================================
