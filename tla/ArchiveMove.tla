----------------------------- MODULE ArchiveMove -----------------------------
(* What moving the legacy session archive promises: readers of the destination *)
(* see no archive or the whole of it, and the source is given up only after.   *)
VARIABLES destination, \* "nothing", "archive", or "own": an archive the daemon began itself
          source       \* "archive" or "retired"

moveVars == <<destination, source>>

MoveInit == destination = "nothing" /\ source = "archive"

Publish ==
  /\ destination = "nothing"
  /\ destination' = "archive"
  /\ UNCHANGED source

Retire ==
  /\ destination = "archive" /\ source = "archive"
  /\ source' = "retired"
  /\ UNCHANGED destination

BeginOwn ==
  /\ destination = "nothing"
  /\ destination' = "own"
  /\ UNCHANGED source

MoveNext == Publish \/ Retire \/ BeginOwn

MoveSpec == MoveInit /\ [][MoveNext]_moveVars
==============================================================================
