---------------------------- MODULE GitCheckpoints ----------------------------
(* The review checkpoints of gitCheckpointStore.ts: a creation takes the status  *)
(* and the two diffs of a worktree that others edit, waits its turn, reads the   *)
(* whole file, appends its record and renames a new file over the old one. The   *)
(* process may die anywhere.                                                     *)
EXTENDS Sequences, Naturals

CONSTANTS Makers,
          MaxCheckpoints, \* bound: creations that began
          MaxDeaths       \* bound: deaths of the process

VARIABLES maker,  \* per request: [at, id, read]
          line,   \* operationQueue: the requests that wait for their turn or have it
          stored, \* the records of the file, oldest first
          told,   \* history: the checkpoints acknowledged, in that order
          begun, deaths

checkpointVars == <<maker, line, stored, told, begun, deaths>>

NoMaker == [at |-> "none", id |-> 0, read |-> <<>>]

\* createCheckpoint: the two diffs are taken before the store is asked.
TakeDiffs(r) ==
  /\ maker[r] = NoMaker /\ begun < MaxCheckpoints
  /\ begun' = begun + 1
  /\ maker' = [maker EXCEPT ![r] = [NoMaker EXCEPT !.at = "waits", !.id = begun + 1]]
  /\ line' = Append(line, r)
  /\ UNCHANGED <<stored, told, deaths>>

\* Mutant: no one waits.
AnyTurn(r) == TRUE

\* exclusive: everyone before is through.
HasTurn(r) == line[1] = r

ReadFile(r) ==
  /\ maker[r].at = "waits" /\ HasTurn(r)
  /\ maker' = [maker EXCEPT ![r].at = "writes", ![r].read = stored]
  /\ UNCHANGED <<line, stored, told, begun, deaths>>

\* finally: the next one has its turn, whatever became of this one.
Release(r) == line' = Tail(line) /\ maker' = [maker EXCEPT ![r] = NoMaker]

\* rename: the file is the old one or the new one.
WriteFile(r) ==
  /\ maker[r].at = "writes"
  /\ stored' = Append(maker[r].read, maker[r].id)
  /\ told' = Append(told, maker[r].id)
  /\ Release(r)
  /\ UNCHANGED <<begun, deaths>>

\* The record is in the file, though nobody is told.
Renamed(r, renamed) ==
  IF renamed /\ maker[r].at = "writes" THEN stored' = Append(maker[r].read, maker[r].id) ELSE UNCHANGED stored

\* A reading or a writing fails and the temporary file is unlinked, or chmod does.
FileFails(r, renamed) ==
  /\ maker[r].at = "writes" \/ (maker[r].at = "waits" /\ HasTurn(r))
  /\ Renamed(r, renamed)
  /\ Release(r)
  /\ UNCHANGED <<told, begun, deaths>>

\* The process dies, perhaps between the rename and the answer.
Dies(r, renamed) ==
  /\ deaths < MaxDeaths /\ deaths' = deaths + 1
  /\ Renamed(r, renamed)
  /\ maker' = [q \in Makers |-> NoMaker] /\ line' = <<>>
  /\ UNCHANGED <<told, begun>>

CheckpointsInit ==
  /\ maker = [r \in Makers |-> NoMaker] /\ line = <<>> /\ stored = <<>> /\ told = <<>>
  /\ begun = 0 /\ deaths = 0

CheckpointsNext ==
  \E r \in Makers :
    \/ TakeDiffs(r) \/ ReadFile(r) \/ WriteFile(r)
    \/ \E renamed \in BOOLEAN : FileFails(r, renamed) \/ Dies(r, renamed)

------------------------------------------------------------------------------

\* The file holds every acknowledged checkpoint, in the order of the acknowledgements, and none
\* twice, although creations overlap, fail and die (gitCheckpointStore.ts create, exclusive).
CheckpointsAreKept ==
  /\ \A i, j \in DOMAIN stored : stored[i] = stored[j] => i = j
  /\ \E place \in [DOMAIN told -> DOMAIN stored] :
       /\ \A i \in DOMAIN told : stored[place[i]] = told[i]
       /\ \A i, j \in DOMAIN told : i < j => place[i] < place[j]
==============================================================================
