--------------------------- MODULE SessionAccess ----------------------------
(***************************************************************************)
(* The requests of clients for one session, in PiSessionService            *)
(* (piSessionService.ts): prompts, reading, tree navigation, archiving one *)
(* session or several, restoring, reloading, stopping and aborting.  They  *)
(* run concurrently, switching at their awaits, and share                  *)
(*   - the session's runtime, opened on demand and closed by some of them; *)
(*   - the archive: whether the session is archived, where its file is;    *)
(*   - the locks: tree navigation, tree-exclusive operations;              *)
(*   - the prompts queued during a compaction and the timer that sends     *)
(*     them on.                                                            *)
(*                                                                         *)
(* A step is the code from one await to the next.  A read of the index or  *)
(* of the session directory counts from the step that uses its result.     *)
(* What follows the end of a creation, the continuations of its waiters,   *)
(* comes before anything else (Settling), in any order.  Two prompts never *)
(* have the same text, which would have the later one ignored.             *)
(*                                                                         *)
(* The names of disposed runtimes are used again.                          *)
(***************************************************************************)
EXTENDS Naturals

CONSTANTS
  MaxRequests,    \* bound: requests of clients
  Runtimes,       \* names for the runtimes, one more than requests: no creation lacks one
  MaxCompactions, \* bound: compactions that start
  None            \* "no runtime", "no request"

ASSUME AccessBounds ==
  MaxRequests \in Nat /\ MaxCompactions \in Nat /\ None \notin Runtimes /\ None \notin Nat

\* Each bears the number of its arrival.
Requests == 1..MaxRequests

VARIABLES
  requests,    \* what each is to do, where it stands, its runtime, whether it is a tree-exclusive operation
  runtimes,    \* the AgentSessionRuntimes, with the work that goes on in them
  active,      \* PiSessionService.active: the session's runtime
  opening,     \* pendingSessionOpens: the runtime being created
  archived,    \* the session has a record in the archive index
  listed,      \* its file is in the session directory
  store,       \* the request in SessionArchiveStore.exclusive
  queued,      \* compactionPromptQueues: how many prompts wait
  timer,       \* compactionDrainTimers: whether one is set
  compactions  \* history: compactions so far

archive == <<archived, listed, store>>
draining == <<queued, timer>>
vars == <<requests, runtimes, active, opening, archive, draining, compactions>>

Ops == {"prompt", "view", "navigate", "archive", "archiveMany", "restore", "reload", "stop", "abort"}
Places == {"new", "writable", "lookup", "find", "list", "wait", "navigating", "plan", "check",
           "input", "closeWait", "closing", "store", "remove", "unindex", "aborting", "done"}
Phases == {"creating", "open", "closing", "disposed"}

Request == [op : Ops, at : Places, runtime : Runtimes \cup {None}, held : BOOLEAN]
\* "copy": opened at the archive path; "late": work began during the tree-exclusive operation
Runtime == [phase : Phases, copy : BOOLEAN, navigating : BOOLEAN, prompts : Nat, drained : Nat,
            streaming : BOOLEAN, compacting : BOOLEAN, late : BOOLEAN]

TypeOK ==
  /\ requests \in [Requests -> Request] /\ runtimes \in [Runtimes -> Runtime]
  /\ active \in Runtimes \cup {None} /\ opening \in Runtimes \cup {None}
  /\ archived \in BOOLEAN /\ listed \in BOOLEAN /\ store \in Requests \cup {None}
  /\ queued \in Nat /\ timer \in BOOLEAN /\ compactions \in 0..MaxCompactions

Ended == [op |-> "view", at |-> "done", runtime |-> None, held |-> FALSE]
Disposed == [phase |-> "disposed", copy |-> FALSE, navigating |-> FALSE, prompts |-> 0, drained |-> 0,
             streaming |-> FALSE, compacting |-> FALSE, late |-> FALSE]

At(r, place) == requests[r].at = place
Op(r, ops) == requests[r].op \in ops
GoTo(r, place) == requests' = [requests EXCEPT ![r].at = place, ![r].runtime = None]
Done(r) == requests' = [requests EXCEPT ![r] = Ended]

\* A creation has ended and those that awaited it have yet to go on.
Settling == \E r \in Requests : /\ requests[r].at \in {"wait", "closeWait"}
                                /\ runtimes[requests[r].runtime].phase # "creating"

\* isTreeExclusiveSessionIdentityActive()
Exclusive == \E r \in Requests : requests[r].held

\* sessionHasActiveWork() and the entries being written
Working(t) == \/ runtimes[t].prompts + runtimes[t].drained > 0
              \/ runtimes[t].streaming \/ runtimes[t].compacting \/ queued > 0

\* Variant: operations that close or replace the session do not count.
WorksOrNavigates(t) == Working(t) \/ runtimes[t].navigating

HasActiveWork(t) == Working(t) \/ runtimes[t].navigating \/ Exclusive

----------------------------------------------------------------------------
(* Closing the runtime: closeActive() *)

\* Where a request stands once the session is closed
AfterClose == [archive |-> "store", archiveMany |-> "store", restore |-> "store",
               reload |-> "lookup"]

\* closeActive() up to its first wait, for r, whose record is req by now
Closes(r, req) ==
  \/ /\ opening # None
     /\ requests' = [requests EXCEPT ![r] = [req EXCEPT !.at = "closeWait", !.runtime = opening]]
     /\ UNCHANGED <<runtimes, active, draining>>
  \/ /\ opening = None /\ active # None
     /\ active' = None
     /\ queued' = 0 /\ timer' = FALSE
     /\ runtimes' = [runtimes EXCEPT ![active].phase = "closing"]
     /\ requests' = [requests EXCEPT ![r] = [req EXCEPT !.at = "closing", !.runtime = active]]
  \/ /\ opening = None /\ active = None
     /\ requests' = [requests EXCEPT ![r] =
          IF req.op = "stop" THEN Ended ELSE [req EXCEPT !.at = AfterClose[req.op], !.runtime = None]]
     /\ UNCHANGED <<runtimes, active, draining>>

\* The creation it waited for has ended.
CloseResumes(r) ==
  /\ At(r, "closeWait") /\ runtimes[requests[r].runtime].phase # "creating"
  /\ Closes(r, requests[r])
  /\ UNCHANGED <<opening, archive, compactions>>

\* Variant: a runtime whose abort failed is not disposed.
DisposedIfAborted(t, aborted) == IF aborted THEN Disposed ELSE runtimes[t]

DisposedAnyway(t, aborted) == Disposed

\* abortSessionOperations(), then dispose(): a failed abort fails the request.
CloseEnds(r) ==
  /\ At(r, "closing") /\ ~Settling
  /\ \E aborted \in BOOLEAN :
       /\ runtimes' = [runtimes EXCEPT ![requests[r].runtime] =
                         DisposedAnyway(requests[r].runtime, aborted)]
       /\ IF aborted /\ ~Op(r, {"stop"}) THEN GoTo(r, AfterClose[requests[r].op]) ELSE Done(r)
  /\ UNCHANGED <<active, opening, archive, draining, compactions>>

----------------------------------------------------------------------------
(* What a request does with the runtime t of its session *)

\* scheduleCompactionQueueDrain()
Schedule == timer' = (timer \/ queued > 0)

\* Variant: archiving and reloading do not look.
BusyToNavigate(r, t) == Op(r, {"navigate"}) /\ HasActiveWork(t)

Busy(r, t) == Op(r, {"navigate", "archive", "reload"}) /\ ~requests[r].held /\ HasActiveWork(t)

\* prompt(): refused during tree navigation, queued during a compaction, or submitted
Prompts(r, t) ==
  /\ \/ runtimes[t].navigating /\ UNCHANGED <<runtimes, queued>>
     \/ /\ ~runtimes[t].navigating /\ runtimes[t].compacting
        /\ queued' = queued + 1
        /\ runtimes' = [runtimes EXCEPT ![t].late = @ \/ Exclusive]
     \/ /\ ~runtimes[t].navigating /\ ~runtimes[t].compacting
        /\ runtimes' = [runtimes EXCEPT ![t].prompts = @ + 1, ![t].late = @ \/ Exclusive]
        /\ UNCHANGED queued
  /\ Done(r)
  /\ UNCHANGED <<active, timer>>

Acts(r, t) ==
  \/ /\ runtimes[t].phase = "disposed" \/ Busy(r, t) \/ Op(r, {"view"}) \/ requests[r].held
     /\ Done(r)
     /\ UNCHANGED <<runtimes, active, draining>>
  \/ /\ runtimes[t].phase # "disposed" /\ ~Busy(r, t) /\ ~requests[r].held
     /\ \/ Op(r, {"prompt"}) /\ Prompts(r, t)
        \/ /\ Op(r, {"navigate"})
           /\ requests' = [requests EXCEPT ![r].at = "navigating", ![r].runtime = t]
           /\ runtimes' = [runtimes EXCEPT ![t].navigating = TRUE]
           /\ UNCHANGED <<active, draining>>
        \/ /\ Op(r, {"archive"})
           /\ requests' = [requests EXCEPT ![r].at = "input", ![r].held = TRUE]
           /\ runtimes' = [runtimes EXCEPT ![t].late = FALSE]
           /\ UNCHANGED <<active, draining>>
        \/ Op(r, {"reload"}) /\ Closes(r, [requests[r] EXCEPT !.held = TRUE])

\* archive() has read the session's file, archiveInputForSession().
HasInput(r) ==
  /\ At(r, "input") /\ ~Settling
  /\ Closes(r, requests[r])
  /\ UNCHANGED <<opening, archive, compactions>>

\* The navigation ends, navigated, cancelled or failed.
NavigationEnds(r) ==
  /\ At(r, "navigating") /\ ~Settling
  /\ runtimes' = [runtimes EXCEPT ![requests[r].runtime].navigating = FALSE]
  /\ Done(r)
  /\ UNCHANGED <<active, opening, archive, draining, compactions>>

----------------------------------------------------------------------------
(* Finding or opening the runtime: getActive() *)

LooksUp(r) ==
  \/ active # None /\ Acts(r, active)
  \/ active = None /\ GoTo(r, "find") /\ UNCHANGED <<runtimes, active, draining>>

Lookup(r) ==
  /\ At(r, "lookup") /\ ~Op(r, {"stop", "abort"}) /\ ~Settling
  /\ LooksUp(r)
  /\ UNCHANGED <<opening, archive, compactions>>

\* assertWritable() and what follows it at once
Writable(r) ==
  /\ At(r, "writable") /\ ~Settling
  /\ \/ archived /\ Done(r) /\ UNCHANGED <<runtimes, active, draining>>
     \/ ~archived /\ LooksUp(r)
  /\ UNCHANGED <<opening, archive, compactions>>

Unused == {t \in Runtimes : /\ runtimes[t].phase = "disposed"
                            /\ \A r \in Requests : ~(requests[r].at \in {"navigating", "aborting"} /\ requests[r].runtime = t)}

\* Variant: neither the session's runtime nor a creation in progress is looked for again.
OpensOwn == None

\* openExistingSession(): a runtime that came up meanwhile, or is on its way, serves this request too.
OpensShared == opening

Opens(r, copy) ==
  \/ active # None /\ Acts(r, active) /\ UNCHANGED opening
  \/ /\ active = None /\ OpensShared # None
     /\ requests' = [requests EXCEPT ![r].at = "wait", ![r].runtime = opening]
     /\ UNCHANGED <<runtimes, active, opening, draining>>
  \/ /\ active = None /\ OpensShared = None /\ Unused # {}
     /\ LET t == CHOOSE t \in Unused : TRUE IN
          /\ requests' = [requests EXCEPT ![r].at = "wait", ![r].runtime = t]
          /\ runtimes' = [runtimes EXCEPT ![t] = [Disposed EXCEPT !.phase = "creating", !.copy = copy]]
          /\ opening' = t
     /\ UNCHANGED <<active, draining>>

\* The archive index is read again: the copy of an archived session is opened.
Find(r) ==
  /\ At(r, "find") /\ ~Settling
  /\ \/ archived /\ Opens(r, TRUE)
     \/ ~archived /\ GoTo(r, "list") /\ UNCHANGED <<runtimes, active, opening, draining>>
  /\ UNCHANGED <<archive, compactions>>

List(r) ==
  /\ At(r, "list") /\ ~Settling
  /\ \/ listed /\ Opens(r, FALSE)
     \/ ~listed /\ Done(r) /\ UNCHANGED <<runtimes, active, opening, draining>>
  /\ UNCHANGED <<archive, compactions>>

\* Variant: a creation that failed stays pending.
ForgottenIfCreated(created) == IF created THEN None ELSE opening

Forgotten(created) == None

\* create() ends and the pending opening is forgotten.
CreationEnds ==
  /\ opening # None /\ ~Settling
  /\ \E created \in BOOLEAN :
       /\ runtimes' = [runtimes EXCEPT ![opening] =
                         IF created THEN [@ EXCEPT !.phase = "open"] ELSE Disposed]
       /\ active' = IF created THEN opening ELSE active
       /\ opening' = Forgotten(created)
  /\ UNCHANGED <<requests, archive, draining, compactions>>

Opened(r) ==
  /\ At(r, "wait") /\ runtimes[requests[r].runtime].phase # "creating"
  /\ Acts(r, requests[r].runtime)
  /\ UNCHANGED <<opening, archive, compactions>>

----------------------------------------------------------------------------
(* Requests *)

\* Where each request begins
Begins == [prompt |-> "writable", navigate |-> "writable", reload |-> "writable",
           view |-> "lookup", archive |-> "lookup", archiveMany |-> "plan",
           restore |-> "plan", stop |-> "lookup", abort |-> "lookup"]

\* navigateTree() is refused at once during a tree-exclusive operation.
Begin(r, op) ==
  /\ At(r, "new") /\ ~Settling
  /\ \A q \in Requests : q < r => ~At(q, "new")
  /\ requests' = [requests EXCEPT ![r] =
       IF op = "navigate" /\ Exclusive THEN Ended ELSE [@ EXCEPT !.op = op, !.at = Begins[op]]]
  /\ UNCHANGED <<runtimes, active, opening, archive, draining, compactions>>

\* stop(): without a runtime it closes a creation in progress only if it was given the bare session id.
Stop(r) ==
  /\ At(r, "lookup") /\ Op(r, {"stop"}) /\ ~Settling
  /\ \/ Closes(r, requests[r])
     \/ active = None /\ Done(r) /\ UNCHANGED <<runtimes, active, draining>>
  /\ UNCHANGED <<opening, archive, compactions>>

Abort(r) ==
  /\ At(r, "lookup") /\ Op(r, {"abort"}) /\ ~Settling
  /\ \/ active = None /\ Done(r) /\ UNCHANGED draining
     \/ /\ active # None
        /\ queued' = 0 /\ timer' = FALSE
        /\ requests' = [requests EXCEPT ![r].at = "aborting", ![r].runtime = active]
  /\ UNCHANGED <<runtimes, active, opening, archive, compactions>>

\* The runtime's work has come to its end, or could not be aborted.
AbortEnds(r) ==
  /\ At(r, "aborting") /\ ~Settling
  /\ \/ runtimes' = [runtimes EXCEPT ![requests[r].runtime] =
                       [@ EXCEPT !.prompts = 0, !.drained = 0, !.streaming = FALSE]]
     \/ UNCHANGED runtimes
  /\ Done(r)
  /\ UNCHANGED <<active, opening, archive, draining, compactions>>

\* archiveMany() reads the index and the session directory ...
ArchiveManyReads(r) ==
  /\ At(r, "plan") /\ Op(r, {"archiveMany"}) /\ ~Settling
  /\ IF archived \/ (~listed /\ active = None) THEN Done(r) ELSE GoTo(r, "check")
  /\ UNCHANGED <<runtimes, active, opening, archive, draining, compactions>>

\* ... and closes the session unless it is busy.
ArchiveManyCloses(r) ==
  /\ At(r, "check") /\ ~Settling
  /\ \/ /\ active # None /\ HasActiveWork(active)
        /\ Done(r)
        /\ UNCHANGED <<runtimes, active, draining>>
     \/ /\ active # None => ~HasActiveWork(active)
        /\ Closes(r, [requests[r] EXCEPT !.held = TRUE])
  /\ UNCHANGED <<opening, archive, compactions>>

\* restore() has read the record, getArchived().
Restores(r) ==
  /\ At(r, "plan") /\ Op(r, {"restore"}) /\ ~Settling
  /\ \/ ~archived /\ Done(r) /\ UNCHANGED <<runtimes, active, draining>>
     \/ archived /\ Closes(r, requests[r])
  /\ UNCHANGED <<opening, archive, compactions>>

\* SessionArchiveStore.archiveMany(): the copy and the index ...
ArchiveCommits(r) ==
  /\ At(r, "store") /\ Op(r, {"archive", "archiveMany"}) /\ store = None /\ ~Settling
  /\ \/ /\ listed \/ archived
        /\ archived' = TRUE /\ store' = r
        /\ GoTo(r, "remove")
     \/ Done(r) /\ UNCHANGED <<archived, store>>
  /\ UNCHANGED <<runtimes, active, opening, listed, draining, compactions>>

\* ... then the session file
ArchiveRemoves(r) ==
  /\ At(r, "remove") /\ ~Settling
  /\ listed' = FALSE /\ store' = None
  /\ Done(r)
  /\ UNCHANGED <<runtimes, active, opening, archived, draining, compactions>>

\* SessionArchiveStore.restore(): the file ...
RestoreMoves(r) ==
  /\ At(r, "store") /\ Op(r, {"restore"}) /\ store = None /\ ~Settling
  /\ \/ /\ archived /\ ~listed
        /\ listed' = TRUE /\ store' = r
        /\ GoTo(r, "unindex")
     \/ Done(r) /\ UNCHANGED <<listed, store>>
  /\ UNCHANGED <<runtimes, active, opening, archived, draining, compactions>>

\* ... then the index
RestoreCommits(r) ==
  /\ At(r, "unindex") /\ ~Settling
  /\ archived' = FALSE /\ store' = None
  /\ Done(r)
  /\ UNCHANGED <<runtimes, active, opening, listed, draining, compactions>>

----------------------------------------------------------------------------
(* The work of the session's runtime *)

\* A compaction starts, /compact or the runtime's own; not during tree navigation, onCompactionStart.
CompactionMayStart(t) == ~runtimes[t].navigating

\* Variant: nothing refuses it.
CompactionAnyTime(t) == TRUE

CompactionStarts ==
  /\ active # None /\ ~Settling /\ compactions < MaxCompactions
  /\ CompactionMayStart(active) /\ ~runtimes[active].compacting /\ ~runtimes[active].streaming
  /\ runtimes' = [runtimes EXCEPT ![active].compacting = TRUE, ![active].late = @ \/ Exclusive]
  /\ compactions' = compactions + 1
  /\ UNCHANGED <<requests, active, opening, archive, draining>>

\* bindRuntime() hears of the end.
CompactionEnds ==
  /\ active # None /\ ~Settling
  /\ runtimes[active].compacting
  /\ runtimes' = [runtimes EXCEPT ![active].compacting = FALSE]
  /\ Schedule
  /\ UNCHANGED <<requests, active, opening, archive, queued, compactions>>

AgentStarts ==
  /\ active # None /\ ~Settling
  /\ runtimes[active].prompts + runtimes[active].drained > 0
  /\ ~runtimes[active].streaming /\ ~runtimes[active].compacting
  /\ runtimes' = [runtimes EXCEPT ![active].streaming = TRUE]
  /\ Schedule
  /\ UNCHANGED <<requests, active, opening, archive, queued, compactions>>

\* The run ends with everything it was given.
AgentEnds ==
  /\ active # None /\ ~Settling
  /\ runtimes[active].streaming
  /\ runtimes' = [runtimes EXCEPT ![active] =
                    [@ EXCEPT !.prompts = 0, !.drained = 0, !.streaming = FALSE]]
  /\ Schedule
  /\ UNCHANGED <<requests, active, opening, archive, queued, compactions>>

\* A prompt fails before its run starts, submitPrompt().
PromptFails ==
  /\ active # None /\ ~Settling
  /\ runtimes[active].prompts > 0 /\ ~runtimes[active].streaming
  /\ runtimes' = [runtimes EXCEPT ![active].prompts = @ - 1]
  /\ UNCHANGED <<requests, active, opening, archive, draining, compactions>>

\* Variant: only the runtime's events have the queue looked at again.
LeftAlone == UNCHANGED timer

\* submitted.finally() of a drained prompt
LooksAgain == Schedule

\* So does a drained one.
DrainedFails ==
  /\ active # None /\ ~Settling
  /\ runtimes[active].drained > 0 /\ ~runtimes[active].streaming
  /\ runtimes' = [runtimes EXCEPT ![active].drained = @ - 1]
  /\ LooksAgain
  /\ UNCHANGED <<requests, active, opening, archive, queued, compactions>>

\* Variant: two are taken, one is submitted.
ShiftedTwice == queued' = queued - 2

Shifted == queued' = queued - 1

\* drainCompactionPromptQueue(): all go to a run in progress, one begins a run.
\* During a compaction it is only scheduled again.
Drain ==
  /\ timer /\ ~Settling
  /\ active # None /\ ~runtimes[active].compacting
  /\ timer' = FALSE
  /\ \/ /\ runtimes[active].streaming
        /\ queued' = 0
        /\ runtimes' = [runtimes EXCEPT ![active].prompts = @ + queued]
     \/ /\ ~runtimes[active].streaming /\ queued > 0
        /\ Shifted
        /\ runtimes' = [runtimes EXCEPT ![active].drained = @ + 1]
     \/ ~runtimes[active].streaming /\ queued = 0 /\ UNCHANGED <<runtimes, queued>>
  /\ UNCHANGED <<requests, active, opening, archive, compactions>>

----------------------------------------------------------------------------
Proceeds(r) ==
  \/ CloseResumes(r) \/ CloseEnds(r) \/ HasInput(r) \/ NavigationEnds(r)
  \/ Lookup(r) \/ Writable(r) \/ Find(r) \/ List(r) \/ Opened(r)
  \/ Stop(r) \/ Abort(r) \/ AbortEnds(r)
  \/ ArchiveManyReads(r) \/ ArchiveManyCloses(r) \/ Restores(r)
  \/ ArchiveCommits(r) \/ ArchiveRemoves(r) \/ RestoreMoves(r) \/ RestoreCommits(r)

Init ==
  /\ requests = [r \in Requests |-> [Ended EXCEPT !.at = "new"]]
  /\ runtimes = [t \in Runtimes |-> Disposed]
  /\ active = None /\ opening = None
  /\ archived = FALSE /\ listed = TRUE /\ store = None
  /\ queued = 0 /\ timer = FALSE /\ compactions = 0

Next ==
  \/ \E r \in Requests, op \in Ops : Begin(r, op)
  \/ \E r \in Requests : Proceeds(r)
  \/ CreationEnds
  \/ CompactionStarts \/ CompactionEnds \/ AgentStarts \/ AgentEnds \/ PromptFails \/ DrainedFails
  \/ Drain

Spec == Init /\ [][Next]_vars

\* Timers fire, creations, compactions and runs end, and awaits return.
Fairness ==
  /\ \A r \in Requests : WF_vars(Proceeds(r))
  /\ WF_vars(CreationEnds) /\ WF_vars(CompactionEnds) /\ WF_vars(AgentStarts)
  /\ WF_vars(AgentEnds) /\ WF_vars(Drain)

FairSpec == Spec /\ Fairness

----------------------------------------------------------------------------
(* Properties *)

\* A session has one runtime at most, up or on its way: two would write the same
\* file.  openExistingSession() looks again after its reads.
OneRuntime ==
  \A t, u \in Runtimes :
    {runtimes[t].phase, runtimes[u].phase} \subseteq {"creating", "open"} => t = u

\* A runtime that is up is the session's, one on its way is awaited by whoever
\* closes the session, and one that is being closed has someone to dispose of it.
NoneIsOrphaned ==
  \A t \in Runtimes :
    /\ runtimes[t].phase = "creating" => opening = t
    /\ runtimes[t].phase = "open" => active = t
    /\ runtimes[t].phase = "closing" => \E r \in Requests : At(r, "closing") /\ requests[r].runtime = t

\* A session has one runtime at most, and somebody has it.
RuntimesAreOwned == OneRuntime /\ NoneIsOrphaned

\* While a tree navigation moves the leaf of the session's runtime, nothing else
\* writes entries there: no prompt, no compaction, no operation that replaces or
\* archives the session.
NavigationIsExclusive ==
  \A t \in Runtimes :
    runtimes[t].navigating /\ runtimes[t].phase = "open" => ~Working(t) /\ ~Exclusive

\* Archiving and reloading close no work that had begun before they did.
EarlierWorkIsSpared ==
  [][\A r \in Requests :
       /\ Op(r, {"archive", "archiveMany", "reload"})
       /\ requests'[r].at = "closing" /\ ~At(r, "closing")
       => (~Working(active) /\ ~runtimes[active].navigating) \/ runtimes[active].late]_vars

\* "Archived sessions are read-only. Restore the session to continue."
\* (piSessionService.ts:3559): the runtime of an archived copy is given no prompt.
ArchivedIsReadOnly ==
  \A t \in Runtimes : runtimes[t].phase = "open" /\ runtimes[t].copy => runtimes[t].prompts = 0

=============================================================================
