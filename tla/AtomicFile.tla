----------------------------- MODULE AtomicFile -----------------------------
(***************************************************************************)
(* What a save promises, whoever else saves to the same file and whatever   *)
(* stops it: the file is at all times, in full, what it was before or what  *)
(* one of the savers meant to put there; who was told that his save failed  *)
(* has not touched it; and who was told that it is saved did put it there.  *)
(***************************************************************************)
CONSTANTS
  Saver,    \* who saves, each a version of his own
  Before    \* what the file held, if anything

VARIABLES
  file,     \* whose version the file is
  put,      \* the savers whose version it has been
  told      \* what became of each save, as far as anyone was told

vars == <<file, put, told>>

Init ==
  /\ file = Before
  /\ put = {}
  /\ told = [s \in Saver |-> "nothing"]

Put(s) ==
  /\ told[s] = "nothing"
  /\ s \notin put
  /\ file' = s
  /\ put' = put \union {s}
  /\ UNCHANGED told

Saved(s) ==
  /\ told[s] = "nothing"
  /\ s \in put
  /\ told' = [told EXCEPT ![s] = "saved"]
  /\ UNCHANGED <<file, put>>

Failed(s) ==
  /\ told[s] = "nothing"
  /\ s \notin put
  /\ told' = [told EXCEPT ![s] = "failed"]
  /\ UNCHANGED <<file, put>>

\* Who interrupts his save does not know.
Interrupted(s) ==
  /\ told[s] = "nothing"
  /\ told' = [told EXCEPT ![s] = "interrupted"]
  /\ UNCHANGED <<file, put>>

\* When the machine stops, the file may fall back on an earlier version.
Lose ==
  /\ file' \in put \union {Before}
  /\ UNCHANGED <<put, told>>

Next == Lose \/ \E s \in Saver : Put(s) \/ Saved(s) \/ Failed(s) \/ Interrupted(s)

Spec == Init /\ [][Next]_vars
=============================================================================
