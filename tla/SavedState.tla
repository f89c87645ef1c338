----------------------------- MODULE SavedState -----------------------------
(***************************************************************************)
(* scan-growing-dirs --save, step by step: the state is written to a        *)
(* temporary file next to the target, flushed to the disk, and renamed over *)
(* the target.  Several runs may save to one file.  At any time a process   *)
(* may be killed, a call may fail, or the machine may lose what is not on   *)
(* its disk, where a journal writes directories and data in its own time.   *)
(***************************************************************************)
EXTENDS Naturals, FiniteSets

CONSTANTS
  Saver,      \* the runs that save, each a process
  Before,     \* the file that was there, if anything
  Stale,      \* a temporary file that a killed process left behind
  NoFile,     \* no file
  Leftovers   \* the savers whose temporary file exists already: their process
              \* identifier is that of a process that was killed

VARIABLES
  pc,        \* where each run is in save_state
  target,    \* the file that the target's name is, as processes see it
  temp,      \* and that of each saver's temporary name
  content,   \* how much of each saver's file is written, as processes see it
  disk,      \* the target's and the temporary files' names, and the contents, on disk
  put,       \* history: the savers whose file was renamed over the target
  mishap     \* history: the savers whose temporary file could not be removed, or was not as a
             \* second Ctrl-C came before, or came back with a power loss

saveVars == <<pc, target, temp, content, disk, put, mishap>>

ASSUME SavedTyped ==
  /\ Leftovers \subseteq Saver
  /\ Before \notin Saver /\ Stale \notin Saver /\ NoFile \notin Saver
  /\ Stale # NoFile /\ Stale # Before /\ Before # NoFile

-----------------------------------------------------------------------------
SaveInit ==
  /\ pc = [s \in Saver |-> "open"]
  /\ target = Before
  /\ temp = [s \in Saver |-> IF s \in Leftovers THEN Stale ELSE NoFile]
  /\ content = [s \in Saver |-> "empty"]
  /\ disk = [target |-> target, temp |-> temp, content |-> content]
  /\ put = {}
  /\ mishap = {}

\* open(temp, "x") creates the file, and refuses one that exists.
Open(s) ==
  /\ pc[s] = "open"
  /\ temp[s] = NoFile
  /\ temp' = [temp EXCEPT ![s] = s]
  /\ pc' = [pc EXCEPT ![s] = "dump"]
  /\ UNCHANGED <<target, content, disk, put, mishap>>

\* json.dump fills the file bit by bit.
Dump(s) ==
  /\ pc[s] = "dump"
  /\ content[s] = "empty"
  /\ content' = [content EXCEPT ![s] = "part"]
  /\ UNCHANGED <<pc, target, temp, disk, put, mishap>>

Flush(s) ==
  /\ pc[s] = "dump"
  /\ content[s] = "part"
  /\ content' = [content EXCEPT ![s] = "whole"]
  /\ pc' = [pc EXCEPT ![s] = "fsync"]
  /\ UNCHANGED <<target, temp, disk, put, mishap>>

\* Mutant: without fsync.
NoFsync(s) ==
  /\ pc[s] = "fsync"
  /\ pc' = [pc EXCEPT ![s] = "replace"]
  /\ UNCHANGED <<target, temp, content, disk, put, mishap>>

Fsync(s) ==
  /\ pc[s] = "fsync"
  /\ disk' = [disk EXCEPT !.content[s] = content[s]]
  /\ pc' = [pc EXCEPT ![s] = "replace"]
  /\ UNCHANGED <<target, temp, content, put, mishap>>

\* os.replace.
Replace(s) ==
  /\ pc[s] = "replace"
  /\ temp[s] = s
  /\ target' = s
  /\ temp' = [temp EXCEPT ![s] = NoFile]
  /\ put' = put \union {s}
  /\ pc' = [pc EXCEPT ![s] = "replaced"]
  /\ UNCHANGED <<content, disk, mishap>>

\* What is told of a save, at its end.
Outcome == [replaced |-> "saved", failing |-> "failed", interrupting |-> "interrupted"]

Return(s) ==
  /\ pc[s] = "replaced"
  /\ pc' = [pc EXCEPT ![s] = Outcome[@]]
  /\ UNCHANGED <<target, temp, content, disk, put, mishap>>

\* Any call up to the rename may fail,
Fail(s) ==
  /\ pc[s] \in {"open", "dump", "fsync", "replace"}
  /\ pc' = [pc EXCEPT ![s] = "failing"]
  /\ UNCHANGED <<target, temp, content, disk, put, mishap>>

\* Mutant: Ctrl-C is not caught.
InterruptUncaught(s) ==
  /\ pc[s] \in {"open", "dump", "fsync", "replace", "replaced"}
  /\ pc' = [pc EXCEPT ![s] = "interrupted"]
  /\ UNCHANGED <<target, temp, content, disk, put, mishap>>

\* and Ctrl-C interrupt what is going on, the rename just made included.
Interrupt(s) ==
  /\ pc[s] \in {"open", "dump", "fsync", "replace", "replaced"}
  /\ pc' = [pc EXCEPT ![s] = "interrupting"]
  /\ UNCHANGED <<target, temp, content, disk, put, mishap>>

\* The temporary file, if there is one, is removed or not.
Unlink(s) ==
  \/ temp' = [temp EXCEPT ![s] = NoFile] /\ UNCHANGED mishap
  \/ temp[s] # NoFile /\ mishap' = mishap \union {s} /\ UNCHANGED temp

\* Either way that is tried before the error is raised, and an error of it is suppressed.
CleanUp(s) ==
  /\ pc[s] \in {"failing", "interrupting"}
  /\ Unlink(s)
  /\ pc' = [pc EXCEPT ![s] = Outcome[@]]
  /\ UNCHANGED <<target, content, disk, put>>

\* Another Ctrl-C, before the removal or after it, is all that is told then.
InterruptAgain(s) ==
  /\ pc[s] \in {"failing", "interrupting"}
  /\ Unlink(s)
  /\ pc' = [pc EXCEPT ![s] = "interrupted"]
  /\ UNCHANGED <<target, content, disk, put>>

-----------------------------------------------------------------------------
(* The machine.                                                             *)

Ended == {"saved", "failed", "interrupted", "killed"}

Kill(s) ==
  /\ pc[s] \notin Ended
  /\ pc' = [pc EXCEPT ![s] = "killed"]
  /\ UNCHANGED <<target, temp, content, disk, put, mishap>>

WriteNames ==
  /\ disk' = [disk EXCEPT !.target = target, !.temp = temp]
  /\ UNCHANGED <<pc, target, temp, content, put, mishap>>

WriteContent(s) ==
  /\ disk' = [disk EXCEPT !.content[s] = content[s]]
  /\ UNCHANGED <<pc, target, temp, content, put, mishap>>

PowerLoss ==
  /\ target' = disk.target
  /\ temp' = disk.temp
  /\ content' = disk.content
  /\ pc' = [s \in Saver |-> IF pc[s] \in Ended THEN pc[s] ELSE "killed"]
  /\ mishap' = mishap \union {s \in Saver : temp[s] = NoFile /\ disk.temp[s] # NoFile}
  /\ UNCHANGED <<disk, put>>

SaveNext ==
  \/ \E s \in Saver :
       \/ Open(s) \/ Dump(s) \/ Flush(s) \/ Fsync(s) \/ Replace(s) \/ Return(s)
       \/ Fail(s) \/ Interrupt(s) \/ CleanUp(s) \/ InterruptAgain(s)
       \/ Kill(s) \/ WriteContent(s)
  \/ WriteNames \/ PowerLoss

SaveSpec == SaveInit /\ [][SaveNext]_saveVars

-----------------------------------------------------------------------------
(* Properties.                                                              *)

\* Whose version the target holds: a saver's only if all of it is there, else nobody's.
Held ==
  IF target \in Saver /\ content[target] # "whole" THEN NoFile ELSE target

Told == [s \in Saver |-> IF pc[s] \in Ended \ {"killed"} THEN pc[s] ELSE "nothing"]

\* save_state: a failed or interrupted save leaves any earlier file intact, a reader never
\* finds part of one, and who is told that his save is done did put his file there.  Savers
\* do not disturb each other.  A power loss never leaves part of a file either, but it may
\* bring an earlier one back: the directory is not flushed, so that a rename that was
\* reported may not be on the disk.
Atomic == INSTANCE AtomicFile WITH file <- Held, told <- Told

Implements == Atomic!Spec

\* "Also Ctrl-C: never leave the temp behind" (save_state): one error or one Ctrl-C, wherever
\* it comes, does not, and neither does a temporary file of a killed process that has the same
\* identifier.  It takes a second one, in the handler of the first, or a power loss.
NoTempLeft ==
  \A s \in Saver : Told[s] # "nothing" /\ temp[s] # NoFile => s \in mishap
=============================================================================
