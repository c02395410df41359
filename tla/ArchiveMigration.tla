--------------------------- MODULE ArchiveMigration ---------------------------
(* The copy of the legacy session archive into the configured data directory,   *)
(* made when a daemon starts: files are staged, published one by one, checked,  *)
(* and the index is linked last. A step may fail, the daemon may die at any     *)
(* stage and start again, and the legacy program may archive another session.   *)
EXTENDS FiniteSets, Naturals

CONSTANTS Records,   \* archived sessions
          MaxDeaths, \* bound: deaths of the daemon
          MaxErrors  \* bound: failing steps

\* The value that stands for an index file that is not there is no session.
ASSUME RecordsAreSessions == "no index" \notin Records

VARIABLES legacyIndex, legacyFiles, legacyDir, \* the source: records listed, files, its directory
          indexState, onDisk, dir,               \* the destination; onDisk: "none", "part" or "whole"
          stage,      \* where the daemon is
          planned,    \* the plan: [index, files, dir, legacyDir]
          staged,     \* records whose staged copy was verified
          owned,      \* destination files this attempt created
          madeDir,    \* destinationArchiveCreated
          preserve,   \* PI_AGENT_PRESERVE_LEGACY_SESSION_ARCHIVE
          deaths, errors

NoIndex == {"no index"}
NoPlan == [index |-> {}, files |-> {}, dir |-> FALSE, legacyDir |-> FALSE]
InIndex(i) == i \ NoIndex
Present == {r \in Records : onDisk[r] # "none"}

legacy == <<legacyIndex, legacyFiles, legacyDir>>
destinationFiles == <<indexState, onDisk, dir>>
attempt == <<planned, staged, owned, madeDir>>
migrationVars == <<legacy, destinationFiles, stage, attempt, preserve, deaths, errors>>

Failing == errors < MaxErrors /\ errors' = errors + 1

\* buildMigrationPreflight: every record's file is a file of the legacy directory,
\* which holds no other, and the destination has neither an index nor a file.
Eligible ==
  /\ legacyIndex # NoIndex /\ indexState = NoIndex
  /\ dir => Present = {}
  /\ legacyFiles = InIndex(legacyIndex)

\* planArchiveFiles: what is to be moved, and what the directories looked like.
Plan == [index |-> legacyIndex, files |-> legacyFiles, dir |-> dir, legacyDir |-> legacyDir]

StartDaemon ==
  /\ stage = "off"
  /\ IF Eligible
     THEN /\ stage' = "stages"
          /\ planned' = Plan
     ELSE stage' = "serves" /\ planned' = NoPlan
  /\ staged' = {} /\ owned' = {} /\ madeDir' = FALSE
  /\ UNCHANGED <<legacy, destinationFiles, preserve, deaths, errors>>

\* assertDestinationStateUnchanged
DestinationUnchanged ==
  /\ indexState = NoIndex
  /\ IF planned.dir THEN dir /\ Present = {} ELSE ~dir

\* A failed step undoes what this attempt published.
Fails ==
  /\ stage \in {"stages", "publishes", "checked"}
  /\ Failing
  /\ stage' = "undoes"
  /\ UNCHANGED <<legacy, destinationFiles, attempt, preserve, deaths>>

Stage(r) ==
  /\ stage = "stages" /\ r \in planned.files \ staged
  /\ r \in legacyFiles
  /\ staged' = staged \union {r}
  /\ UNCHANGED <<legacy, destinationFiles, stage, planned, owned, madeDir, preserve, deaths, errors>>

BeginPublishing ==
  /\ stage = "stages" /\ staged = planned.files
  /\ IF DestinationUnchanged
     THEN /\ stage' = "publishes"
          /\ madeDir' = (planned.files # {} /\ ~planned.dir)
          /\ dir' = (dir \/ planned.files # {})
     ELSE stage' = "undoes" /\ UNCHANGED <<madeDir, dir>>
  /\ UNCHANGED <<legacy, indexState, onDisk, planned, staged, owned, preserve, deaths, errors>>

\* copyFile creates the file before it has its contents.
PublishStarts(r) ==
  /\ stage = "publishes" /\ r \in planned.files \ owned
  /\ \A o \in owned : onDisk[o] = "whole"
  /\ onDisk' = [onDisk EXCEPT ![r] = "part"] /\ owned' = owned \union {r}
  /\ UNCHANGED <<legacy, indexState, dir, stage, planned, staged, madeDir, preserve, deaths, errors>>

PublishEnds(r) ==
  /\ stage = "publishes" /\ r \in owned /\ onDisk[r] = "part"
  /\ onDisk' = [onDisk EXCEPT ![r] = "whole"]
  /\ UNCHANGED <<legacy, indexState, dir, stage, attempt, preserve, deaths, errors>>

\* legacyDirectoryMatchesPlan
LegacyAsPlanned == legacyDir = planned.legacyDir /\ legacyFiles = planned.files

\* assertPlanReadyToCommit: source and destination are what the plan says.
ReadyToCommit ==
  /\ legacyIndex = planned.index
  /\ LegacyAsPlanned
  /\ indexState = NoIndex
  /\ Present = planned.files /\ \A r \in planned.files : onDisk[r] = "whole"

CheckPlan ==
  /\ stage = "publishes"
  /\ owned = planned.files /\ \A r \in owned : onDisk[r] = "whole"
  /\ stage' = IF ReadyToCommit THEN "checked" ELSE "undoes"
  /\ UNCHANGED <<legacy, destinationFiles, attempt, preserve, deaths, errors>>

\* A mutated publication that renames the staged index over one that is there.
RenameIndex ==
  /\ stage = "checked"
  /\ indexState' = planned.index /\ stage' = "retires"
  /\ UNCHANGED <<legacy, onDisk, dir, attempt, preserve, deaths, errors>>

\* The hard link: it fails when an index is there.
LinkIndex ==
  /\ stage = "checked"
  /\ IF indexState = NoIndex
     THEN indexState' = planned.index /\ stage' = "retires"
     ELSE stage' = "undoes" /\ UNCHANGED indexState
  /\ UNCHANGED <<legacy, onDisk, dir, attempt, preserve, deaths, errors>>

\* rollbackUncommittedDestination goes on after a removal that fails.
Undo(r) ==
  /\ stage = "undoes" /\ r \in owned
  /\ owned' = owned \ {r}
  /\ \/ onDisk' = [onDisk EXCEPT ![r] = "none"] /\ UNCHANGED errors
     \/ Failing /\ UNCHANGED onDisk
  /\ UNCHANGED <<legacy, indexState, dir, stage, planned, staged, madeDir, preserve, deaths>>

UndoDirectory ==
  /\ stage = "undoes" /\ owned = {}
  /\ dir' = (dir /\ ~(madeDir /\ Present = {}))
  /\ madeDir' = FALSE
  /\ stage' = "serves"
  /\ UNCHANGED <<legacy, indexState, onDisk, planned, staged, owned, preserve, deaths, errors>>

\* removeCommittedLegacyState: files, then the directory, then the index; it stops
\* at the first removal that fails.
RetireFile(r) ==
  /\ stage = "retires" /\ ~preserve /\ r \in planned.files \intersect legacyFiles
  /\ \/ legacyFiles' = legacyFiles \ {r} /\ UNCHANGED <<stage, errors>>
     \/ Failing /\ stage' = "serves" /\ UNCHANGED legacyFiles
  /\ UNCHANGED <<legacyIndex, legacyDir, destinationFiles, attempt, preserve, deaths>>

\* A mutated removal that takes the index whatever is left in the directory.
DirectoryIgnored == TRUE

\* The directory can only be removed empty; the index goes last.
DirectoryGone == planned.legacyDir => legacyFiles = {}

RetireIndex ==
  /\ stage = "retires" /\ ~preserve /\ planned.files \intersect legacyFiles = {}
  /\ stage' = "serves"
  /\ IF DirectoryGone
     THEN legacyDir' = (legacyDir /\ ~planned.legacyDir) /\ legacyIndex' = NoIndex
     ELSE UNCHANGED <<legacyDir, legacyIndex>>
  /\ UNCHANGED <<legacyFiles, destinationFiles, attempt, preserve, deaths, errors>>

KeepLegacy ==
  /\ stage = "retires" /\ preserve
  /\ stage' = "serves"
  /\ UNCHANGED <<legacy, destinationFiles, attempt, preserve, deaths, errors>>

\* The daemon, once it serves, and another process before, may archive a session in
\* the destination.
ArchiveHere(r) ==
  /\ onDisk[r] = "none" /\ r \notin InIndex(legacyIndex) \union InIndex(indexState) \union legacyFiles
  /\ onDisk' = [onDisk EXCEPT ![r] = "whole"] /\ dir' = TRUE
  /\ indexState' = InIndex(indexState) \union {r}
  /\ UNCHANGED <<legacy, stage, attempt, preserve, deaths, errors>>

\* The legacy program archives a session: its file, then the index.
LegacyCopies(r) ==
  /\ legacyIndex # NoIndex /\ legacyDir
  /\ r \notin InIndex(legacyIndex) \union legacyFiles \union Present
  /\ legacyFiles' = legacyFiles \union {r}
  /\ UNCHANGED <<legacyIndex, legacyDir, destinationFiles, stage, attempt, preserve, deaths, errors>>

LegacyLists(r) ==
  /\ legacyIndex # NoIndex /\ r \in legacyFiles \ InIndex(legacyIndex)
  /\ legacyIndex' = legacyIndex \union {r}
  /\ UNCHANGED <<legacyFiles, legacyDir, destinationFiles, stage, attempt, preserve, deaths, errors>>

Die ==
  /\ stage # "off" /\ deaths < MaxDeaths
  /\ deaths' = deaths + 1
  /\ stage' = "off"
  /\ planned' = NoPlan /\ staged' = {} /\ owned' = {} /\ madeDir' = FALSE
  /\ UNCHANGED <<legacy, destinationFiles, preserve, errors>>

MigrationInit ==
  /\ legacyIndex \in (SUBSET Records) \ {{}}
  /\ legacyFiles = legacyIndex /\ legacyDir = TRUE
  /\ indexState = NoIndex /\ onDisk = [r \in Records |-> "none"] /\ dir \in BOOLEAN
  /\ stage = "off" /\ planned = NoPlan /\ staged = {} /\ owned = {} /\ madeDir = FALSE
  /\ preserve \in BOOLEAN /\ deaths = 0 /\ errors = 0

Attempt ==
  \/ BeginPublishing \/ CheckPlan \/ LinkIndex \/ UndoDirectory \/ RetireIndex \/ KeepLegacy
  \/ \E r \in Records : Stage(r) \/ PublishStarts(r) \/ PublishEnds(r) \/ Undo(r) \/ RetireFile(r)

MigrationNext ==
  \/ StartDaemon \/ Attempt \/ Fails \/ Die
  \/ \E r \in Records : ArchiveHere(r) \/ LegacyCopies(r) \/ LegacyLists(r)

------------------------------------------------------------------------------

AtomicMove == INSTANCE ArchiveMove WITH
  source <- IF legacyIndex # NoIndex /\ InIndex(legacyIndex) \subseteq legacyFiles THEN "archive" ELSE "retired",
  destination <-
    IF indexState = NoIndex THEN "nothing"
    ELSE IF \E r \in indexState : onDisk[r] # "whole" THEN "broken"
    ELSE IF legacyIndex # NoIndex /\ indexState \intersect legacyIndex = {} THEN "own" ELSE "archive"

\* The migration implements ArchiveMove, through failures, deaths and new attempts: the
\* destination has no archive or a whole one, and the legacy archive is retired after
\* it (sessionArchiveMigration.ts: "atomically publishes the already-verified index").
RefinesArchiveMove == AtomicMove!MoveSpec

\* A record that an index lists stays readable, here or there, also one the legacy
\* program archived while the copy was under way (removeCommittedLegacyState: "Remove
\* the index last").
NoRecordLost ==
  [][\A r \in InIndex(legacyIndex) \union InIndex(indexState) :
       \/ r \in InIndex(legacyIndex') \intersect legacyFiles'
       \/ r \in InIndex(indexState') /\ onDisk'[r] = "whole"]_migrationVars

\* The archive is moved as a whole, and no record falls between the two places.
MovesAtomically == RefinesArchiveMove /\ NoRecordLost
==============================================================================
