------------------------------ MODULE MCPinBack ------------------------------
(* A PG of three shards over six OSDs: two hosts of two, one of one, and an *)
(* OSD whose host is unknown.  Every up and acting set with distinct hosts, *)
(* and every request, is an initial state.                                  *)
EXTENDS PinBack

CONSTANTS h1, h2, h3

MCOsd == 1..6
MCHostOf ==
  [o \in MCOsd |-> CASE o \in {1, 2} -> h1
                     [] o \in {3, 4} -> h2
                     [] o = 5 -> h3
                     [] OTHER -> NoHost]
=============================================================================
