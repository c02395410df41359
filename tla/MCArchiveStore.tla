--------------------------- MODULE MCArchiveStore ---------------------------
(* The archive of sessions and the migration of the legacy archive, which share *)
(* no state: a behaviour is one of one of them, which the first state chooses.  *)
EXTENDS ArchiveStore, ArchiveMigration
CONSTANTS s1, s2

VARIABLE component

archiveVars == vars
allVars == <<component, archiveVars, migrationVars>>

\* The component that rests is in one initial state.
MCInit ==
  /\ component \in {"archive", "migration"}
  /\ Init /\ MigrationInit
  /\ component = "archive" \/ \A s \in Sessions : index[s] = "none"
  /\ component = "migration" \/ (legacyIndex = Records /\ dir /\ preserve)

MCNext ==
  /\ UNCHANGED component
  /\ \/ component = "archive" /\ Next /\ UNCHANGED migrationVars
     \/ component = "migration" /\ MigrationNext /\ UNCHANGED archiveVars

\* Nothing that has to happen is enabled in the first state of the archive, so its fairness asks
\* nothing while it rests.
MCSpec == MCInit /\ [][MCNext]_allVars /\ WF_archiveVars(Operate)
============================================================================
