--------------------------- MODULE SessionCleanup ---------------------------
(***************************************************************************)
(* What archives and deletes sessions by the group: the cleanup of old     *)
(* ones (sessionCleanup.ts, PiSessionService.cleanup) and the archiving of *)
(* a session with its descendants (sessionArchiveTree.ts, archiveTree).    *)
(*                                                                         *)
(* Either plans from one look at the session files, the archive index and  *)
(* the runtimes at work, then awaits the closing of one runtime after the  *)
(* other, and then has the archive store move or delete what it closed.    *)
(* Meanwhile people open, use, archive, restore and delete the sessions.   *)
(*                                                                         *)
(* Each operation of the store is one step here: ArchiveStore has its      *)
(* parts and their failures.  Every session is of a project the request    *)
(* names, and old means before the threshold of the request.               *)
(***************************************************************************)
EXTENDS Naturals, FiniteSets

CONSTANTS
  CleanSessions,
  ForkedFrom,  \* session -> the session its parentSessionPath names, or itself
  MaxUses      \* bound: what people do meanwhile

VARIABLES
  place,   \* where each session is: "listed", "archived", "gone"
  old,     \* the sessions not used, or archived, since before the threshold
  open,    \* the sessions with a runtime
  working, \* those whose runtime has active work
  job,     \* the cleanup or tree archiving that runs, and its plan and report
  did,     \* history: the sessions that the job closed, archived and deleted
  uses     \* history: what people did so far

cleanupVars == <<place, old, open, working, job, did, uses>>

NoJob == [at |-> "none", archive |-> {}, delete |-> {}, ready |-> {}, skipped |-> {},
          archived |-> {}, deleted |-> {}]
Nothing == [closed |-> {}, archived |-> {}, deleted |-> {}]

Placed(where) == {s \in CleanSessions : place[s] = where}

CleanupInit ==
  /\ place \in [CleanSessions -> {"listed", "archived"}]
  /\ old = CleanSessions /\ open = {} /\ working = {}
  /\ job = NoJob /\ did = Nothing /\ uses = 0

----------------------------------------------------------------------------
(* Cleanup *)

InUse(s) == s \in working

\* What is there and from before the threshold.
Due == {s \in old : place[s] # "gone"}

\* planSessionCleanup: the old sessions but those at work.
PlanCleanup ==
  /\ job.at = "none"
  /\ job' = [NoJob EXCEPT !.at = "archiving", !.skipped = {s \in Due : InUse(s)},
               !.archive = {s \in Due : place[s] = "listed" /\ ~InUse(s)},
               !.delete = {s \in Due : place[s] = "archived" /\ ~InUse(s)}]
  /\ UNCHANGED <<place, old, open, working, did, uses>>

\* closeActive.
Closed(s) ==
  /\ open' = open \ {s} /\ working' = working \ {s}
  /\ did' = [did EXCEPT !.closed = @ \cup {s}]

\* Mutant: without the second look at what the sessions do.
CloseOldAnyway(s) ==
  /\ Closed(s)
  /\ job' = [job EXCEPT !.archive = @ \ {s}, !.delete = @ \ {s}, !.ready = @ \cup {s},
               !.skipped = IF InUse(s) THEN @ \cup {s} ELSE @]

\* One step of either loop: what is at work by now is left out, the rest closed.
CloseOld(s) ==
  IF InUse(s)
  THEN /\ job' = [job EXCEPT !.archive = @ \ {s}, !.delete = @ \ {s}, !.skipped = @ \cup {s}]
       /\ UNCHANGED <<open, working, did>>
  ELSE /\ Closed(s)
       /\ job' = [job EXCEPT !.archive = @ \ {s}, !.delete = @ \ {s}, !.ready = @ \cup {s}]

CloseToArchive(s) ==
  /\ job.at = "archiving" /\ s \in job.archive
  /\ CloseOld(s)
  /\ UNCHANGED <<place, old, uses>>

\* SessionArchiveStore.archiveMany: a session whose file is gone fails the whole batch.
Moved(targets) ==
  /\ place' = [s \in CleanSessions |-> IF s \in targets THEN "archived" ELSE place[s]]
  /\ old' = old \ {s \in targets : place[s] = "listed"}
Movable(targets) == \A s \in targets : place[s] # "gone"

ArchiveOld ==
  /\ job.at = "archiving" /\ job.archive = {}
  /\ \/ /\ Movable(job.ready) /\ Moved(job.ready)
        /\ job' = [job EXCEPT !.at = "deleting", !.archived = job.ready, !.ready = {}]
        /\ did' = [did EXCEPT !.archived = job.ready]
     \/ /\ ~Movable(job.ready)
        /\ job' = [job EXCEPT !.at = "failed"]
        /\ UNCHANGED <<place, old, did>>
  /\ UNCHANGED <<open, working, uses>>

CloseToDelete(s) ==
  /\ job.at = "deleting" /\ s \in job.delete
  /\ CloseOld(s)
  /\ UNCHANGED <<place, old, uses>>

\* deleteArchivedMany: only what the index still holds, and says so.
Deletable(targets) == targets \cap Placed("archived")

\* Mutant: the report names what was to be deleted.
ReportsReady(targets) == targets

\* The filter on deletedSessionIds.
Reports(targets) == Deletable(targets)

DeleteOld ==
  /\ job.at = "deleting" /\ job.delete = {}
  /\ place' = [s \in CleanSessions |-> IF s \in Deletable(job.ready) THEN "gone" ELSE place[s]]
  /\ did' = [did EXCEPT !.deleted = Deletable(job.ready)]
  /\ job' = [job EXCEPT !.at = "reported", !.deleted = Reports(job.ready)]
  /\ UNCHANGED <<old, open, working, uses>>

----------------------------------------------------------------------------
(* Archiving a tree *)

\* sessionArchiveSubtree: the root and what descends from it, archived or not.
Below(s, n) ==
  LET up[d \in 0..n, t \in CleanSessions] == t = s \/ (d > 0 /\ up[d - 1, ForkedFrom[t]]) IN
  {t \in CleanSessions : place[t] # "gone" /\ up[n, t]}
Subtree(root) == Below(root, Cardinality(CleanSessions))

\* workspaceArchiveCandidates: those of the tree that are not archived.
Candidates(root) == Subtree(root) \cap Placed("listed")

\* Refused if one of the tree is at work; the root's runtime is up by then.
PlanTree(root) ==
  /\ job.at = "none" /\ place[root] # "gone"
  /\ Subtree(root) \cap working = {}
  /\ open' = open \cup {root}
  /\ job' = [NoJob EXCEPT !.at = "tree", !.archive = Candidates(root), !.archived = Candidates(root)]
  /\ UNCHANGED <<place, old, working, did, uses>>

CloseOfTree(s) ==
  /\ job.at = "tree" /\ s \in job.archive
  /\ Closed(s)
  /\ job' = [job EXCEPT !.archive = @ \ {s}]
  /\ UNCHANGED <<place, old, uses>>

ArchiveTree ==
  /\ job.at = "tree" /\ job.archive = {}
  /\ \/ /\ Movable(job.archived) /\ Moved(job.archived)
        /\ job' = [job EXCEPT !.at = "reported"]
        /\ did' = [did EXCEPT !.archived = job.archived]
     \/ /\ ~Movable(job.archived)
        /\ job' = [job EXCEPT !.at = "failed"]
        /\ UNCHANGED <<place, old, did>>
  /\ UNCHANGED <<open, working, uses>>

JobEnds ==
  /\ job.at \in {"reported", "failed"}
  /\ job' = NoJob /\ did' = Nothing
  /\ UNCHANGED <<place, old, open, working, uses>>

----------------------------------------------------------------------------
(* Meanwhile *)

Uses == uses < MaxUses /\ uses' = uses + 1 /\ UNCHANGED <<job, did>>

\* A prompt opens the session and sets it to work; its file becomes recent.  Not even the
\* sessions of a tree that is being archived refuse it.
Work(s) ==
  /\ Uses /\ place[s] = "listed"
  /\ open' = open \cup {s} /\ working' = working \cup {s} /\ old' = old \ {s}
  /\ UNCHANGED place
Rest(s) ==
  /\ s \in working /\ working' = working \ {s}
  /\ UNCHANGED <<place, old, open, job, did, uses>>
\* The archived are opened too, to be read.
Look(s) ==
  /\ Uses /\ place[s] # "gone" /\ s \notin open
  /\ open' = open \cup {s} /\ UNCHANGED <<place, old, working>>
\* archive(): what a tree archiving is exclusive to counts as at work.
Shelve(s) ==
  /\ Uses /\ place[s] = "listed" /\ ~InUse(s) /\ ~(job.at = "tree" /\ s \in job.archived)
  /\ open' = open \ {s} /\ place' = [place EXCEPT ![s] = "archived"] /\ old' = old \ {s}
  /\ UNCHANGED working
Unshelve(s) ==
  /\ Uses /\ place[s] = "archived"
  /\ open' = open \ {s} /\ working' = working \ {s} /\ place' = [place EXCEPT ![s] = "listed"]
  /\ UNCHANGED old
Erase(s) ==
  /\ Uses /\ place[s] = "archived" /\ ~InUse(s)
  /\ open' = open \ {s} /\ place' = [place EXCEPT ![s] = "gone"] /\ old' = old \ {s}
  /\ UNCHANGED working

CleanupNext ==
  \/ PlanCleanup \/ ArchiveOld \/ DeleteOld \/ ArchiveTree \/ JobEnds
  \/ \E s \in CleanSessions : CloseToArchive(s) \/ CloseToDelete(s) \/ PlanTree(s) \/ CloseOfTree(s)
  \/ \E s \in CleanSessions : Work(s) \/ Rest(s) \/ Look(s) \/ Shelve(s) \/ Unshelve(s) \/ Erase(s)

----------------------------------------------------------------------------
(* What the report of a cleanup or a tree archiving says is what that job did, whatever
   people did to the sessions meanwhile: it names the sessions it archived and deleted, no
   more and no less, and those it says it skipped as busy kept their runtime. *)
ReportIsTrue ==
  /\ job.skipped \cap did.closed = {}
  /\ job.at = "reported" => job.archived = did.archived /\ job.deleted = did.deleted
=============================================================================
