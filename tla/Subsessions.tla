----------------------------- MODULE Subsessions -----------------------------
(* Tracked subsessions of one parent session: spawning, the links kept in the  *)
(* session files, their recovery after a restart, detaching, and the notices   *)
(* that tell the parent its children stopped. A parent that yields ends its    *)
(* turn and counts on a notice to wake it.                                     *)
EXTENDS Naturals, FiniteSets

CONSTANTS Children,   \* child sessions
          MaxSpells,  \* bound: prompts of a child
          MaxFaults   \* bound: process deaths, closings, lost notices, unreadable files

VARIABLES born,       \* children whose session file exists
          header,     \* those whose header names the parent
          marked,     \* those with a child marker
          links,      \* those the parent's file links to
          unreadable, \* those whose file cannot be read for now
          tracked,    \* subsessionParents, Children and Links, which agree
          armed,      \* subsessionNotifyArmed
          hydrated,   \* subsessionHydratedParents has the parent
          spawning,   \* spawnSubsession under way: "created", "registered" or "none"
          scan,       \* a reading of links or markers under way: [found, complete], or NoScan
          detaching,  \* a child whose header was cleared, not yet unregistered
          running,    \* children with a runtime
          work,       \* what a child does: "none", "prompted" or "turn"
          spells,     \* how many prompts set it to work
          noticed,    \* how many notices were made for it
          notices,    \* notices on their way to the parent
          deferred,   \* those kept until a tree navigation of the parent ends
          inbox,      \* messages that wait for the parent's turn to end
          parent,     \* the parent's agent: "runs", "ends", "yielded" or "idle"
          navigating, \* a tree navigation has the parent
          faults

subsessionVars == <<born, header, marked, links, unreadable, tracked, armed, hydrated, spawning,
  scan, detaching, running, work, spells, noticed, notices, deferred, inbox, parent, navigating, faults>>
files == <<born, header, marked, links, unreadable>>
tracking == <<tracked, armed, hydrated, spawning, scan, detaching>>
childWork == <<running, work, spells>>
parentWork == <<inbox, parent, navigating>>
notifying == <<noticed, notices, deferred>>

NoScan == [found |-> {}, complete |-> FALSE, open |-> FALSE]

Fault == faults < MaxFaults /\ faults' = faults + 1

SubsessionWorks(c) == c \in running /\ work[c] # "none"

\* registerVerifiedSubsession, which keeps a child that is armed armed.
Register(children) ==
  /\ tracked' = tracked \union children
  /\ UNCHANGED armed

\* spawnSubsession: the child session and its file come first.
SpawnCreates(c) ==
  /\ parent = "runs" /\ c \notin born
  /\ born' = born \union {c} /\ header' = header \union {c}
  /\ running' = running \union {c}
  /\ spawning' = [spawning EXCEPT ![c] = "created"]
  /\ UNCHANGED <<marked, links, unreadable, tracked, armed, hydrated, scan, detaching, work, spells,
                 notifying, parentWork, faults>>

SpawnRegisters(c) ==
  /\ spawning[c] = "created"
  /\ spawning' = [spawning EXCEPT ![c] = "registered"]
  /\ Register({c})
  /\ UNCHANGED <<files, hydrated, scan, detaching, childWork, notifying, parentWork, faults>>

\* The parent's link and the child's marker, each if its writing succeeds.
WriteLinks(c, linked, mark) ==
  /\ links' = IF linked THEN links \union {c} ELSE links
  /\ marked' = IF mark THEN marked \union {c} ELSE marked

\* The links are written if that succeeds; then the child is prompted.
SpawnPrompts(c, linked, mark) ==
  /\ spawning[c] = "registered" /\ c \in running
  /\ spawning' = [spawning EXCEPT ![c] = "none"]
  /\ WriteLinks(c, linked, mark)
  /\ IF linked /\ mark THEN UNCHANGED faults ELSE Fault
  /\ work' = [work EXCEPT ![c] = "prompted"]
  /\ spells' = [spells EXCEPT ![c] = @ + 1]
  /\ UNCHANGED <<born, header, unreadable, tracked, armed, hydrated, scan, detaching, running,
                 notifying, parentWork>>

\* A user prompts a child, or a queued message does.
PromptChild(c) ==
  /\ c \in running /\ work[c] = "none" /\ spawning[c] = "none" /\ spells[c] < MaxSpells
  /\ work' = [work EXCEPT ![c] = "prompted"]
  /\ spells' = [spells EXCEPT ![c] = @ + 1]
  /\ UNCHANGED <<files, tracking, running, notifying, parentWork, faults>>

\* A mutated tracking that leaves the child armed.
TrackArmed(c, working) ==
  IF c \notin tracked THEN UNCHANGED <<armed, noticed, notices>>
  ELSE IF working
  THEN armed' = armed \union {c} /\ UNCHANGED <<noticed, notices>>
  ELSE IF c \notin armed THEN UNCHANGED <<armed, noticed, notices>>
  ELSE /\ noticed' = [noticed EXCEPT ![c] = IF @ > MaxSpells THEN @ ELSE @ + 1]
       /\ notices' = notices \union {c}
       /\ UNCHANGED armed

\* updateSubsessionTracking, at an event of the child and in the heartbeat.
Track(c, working) ==
  IF c \notin tracked THEN UNCHANGED <<armed, noticed, notices>>
  ELSE IF working
  THEN armed' = armed \union {c} /\ UNCHANGED <<noticed, notices>>
  ELSE IF c \notin armed THEN UNCHANGED <<armed, noticed, notices>>
  ELSE /\ armed' = armed \ {c}
       /\ noticed' = [noticed EXCEPT ![c] = @ + 1]
       /\ notices' = notices \union {c}

TurnStarts(c) ==
  /\ work[c] = "prompted"
  /\ work' = [work EXCEPT ![c] = "turn"]
  /\ Track(c, TRUE)
  /\ UNCHANGED <<files, tracked, hydrated, spawning, scan, detaching, running, spells, deferred, parentWork, faults>>

\* submitPrompt: a prompt that fails before its turn is an error of the session,
\* and no event of it.
ChildPromptFails(c) ==
  /\ work[c] = "prompted"
  /\ work' = [work EXCEPT ![c] = "none"]
  /\ UNCHANGED <<files, tracking, running, spells, notifying, parentWork, faults>>

\* agent_end may be heard while the child still reports work.
TurnEnds(c, idleWhenHeard) ==
  /\ work[c] = "turn"
  /\ work' = [work EXCEPT ![c] = "none"]
  /\ Track(c, ~idleWhenHeard)
  /\ UNCHANGED <<files, tracked, hydrated, spawning, scan, detaching, running, spells, deferred, parentWork, faults>>

\* A mutated heartbeat that looks at working sessions only.
HeartbeatSeesWork(c) == SubsessionWorks(c)

\* publishHeartbeats looks at every open session.
HeartbeatSees(c) == c \in running

HeartbeatTracks(c) ==
  /\ HeartbeatSees(c)
  /\ Track(c, work[c] # "none")
  /\ UNCHANGED <<files, tracked, hydrated, spawning, scan, detaching, childWork, deferred, parentWork, faults>>

\* closeActive disarms a tracked child before it aborts its work.
CloseChild(c) ==
  /\ Fault /\ c \in running
  /\ running' = running \ {c}
  /\ work' = [work EXCEPT ![c] = "none"]
  /\ armed' = armed \ {c}
  /\ UNCHANGED <<files, tracked, hydrated, spawning, scan, detaching, spells, notifying, parentWork>>

\* What a parent link and the child's header prove together.
VerifiedByLink == {c \in links : c \in header /\ c \notin unreadable}

\* What the child's marker, its header and the parent's link prove together.
VerifiedByMarker(c) == IF c \in marked THEN {c} \intersect VerifiedByLink ELSE {}

\* A child is opened: recoverSubsessionTrackingForOpenedSession.
OpenChildScans(c) ==
  /\ c \in born \ (running \union unreadable) /\ ~scan.open
  /\ running' = running \union {c}
  /\ scan' = [found |-> VerifiedByMarker(c), complete |-> FALSE, open |-> TRUE]
  /\ UNCHANGED <<files, tracked, armed, hydrated, spawning, detaching, work, spells, notifying, parentWork, faults>>

\* hydrateSubsessionsForParent, for the parent's list, check and read tools.
HydrateScans ==
  /\ ~hydrated /\ ~scan.open
  /\ scan' = [found |-> VerifiedByLink, complete |-> VerifiedByLink = links, open |-> TRUE]
  /\ UNCHANGED <<files, tracked, armed, hydrated, spawning, detaching, childWork, notifying, parentWork, faults>>

\* A mutated hydration that remembers any scan.
AnyScanCounts == scan.open

\* A scan that found every link counts for good.
ScanCounts == scan.complete

ScanRegisters ==
  /\ scan.open
  /\ Register(scan.found)
  /\ hydrated' = (hydrated \/ ScanCounts)
  /\ scan' = NoScan
  /\ UNCHANGED <<files, spawning, detaching, childWork, notifying, parentWork, faults>>

\* clearParentSession
ClearHeader(c) == header' = header \ {c}

\* detachParent rewrites the child's file, then unregisters the child.
DetachWrites(c) ==
  /\ c \in running \intersect header /\ detaching = {}
  /\ ClearHeader(c)
  /\ detaching' = {c}
  /\ UNCHANGED <<born, marked, links, unreadable, tracked, armed, hydrated, spawning, scan, childWork,
                 notifying, parentWork, faults>>

DetachUnregisters ==
  /\ detaching # {}
  /\ tracked' = tracked \ detaching
  /\ armed' = armed \ detaching
  /\ detaching' = {}
  /\ UNCHANGED <<files, hydrated, spawning, scan, childWork, notifying, parentWork, faults>>

\* A child's file cannot be read for a while.
Unreadable(c) ==
  /\ Fault /\ c \in born \ (running \union unreadable)
  /\ unreadable' = unreadable \union {c}
  /\ UNCHANGED <<born, header, marked, links, tracking, childWork, notifying, parentWork>>

Readable(c) ==
  /\ c \in unreadable
  /\ unreadable' = unreadable \ {c}
  /\ UNCHANGED <<born, header, marked, links, tracking, childWork, notifying, parentWork, faults>>

\* notifyParentOfSubsession finds or opens the parent; its message wakes an idle
\* parent and waits for the turn of a busy one.
NoticeArrives(c) ==
  /\ c \in notices
  /\ notices' = notices \ {c}
  /\ IF navigating
     THEN deferred' = deferred \union {c} /\ UNCHANGED inbox
     ELSE inbox' = TRUE /\ UNCHANGED deferred
  /\ UNCHANGED <<files, tracking, childWork, noticed, parent, navigating, faults>>

NoticeFails(c) ==
  /\ Fault /\ c \in notices
  /\ notices' = notices \ {c}
  /\ UNCHANGED <<files, tracking, childWork, noticed, deferred, parentWork>>

\* flushDeferredTreeNavigationWork
ParentNavigationEnds ==
  /\ navigating
  /\ navigating' = FALSE
  /\ inbox' = (inbox \/ deferred # {})
  /\ deferred' = {}
  /\ UNCHANGED <<files, tracking, childWork, noticed, notices, parent, faults>>

NavigationBegins ==
  /\ ~navigating /\ parent \in {"idle", "yielded"} /\ ~inbox
  /\ navigating' = TRUE
  /\ UNCHANGED <<files, tracking, childWork, notifying, inbox, parent, faults>>

\* yield_to_subsessions ends the turn when a child that is tracked works, and lets
\* the parent go on otherwise. The turn is over a little later.
Yield ==
  /\ parent = "runs" /\ ~scan.open /\ hydrated
  /\ \E c \in tracked : SubsessionWorks(c)
  /\ parent' = "ends"
  /\ UNCHANGED <<files, tracking, childWork, notifying, inbox, navigating, faults>>

TurnIsOver ==
  /\ parent = "ends"
  /\ parent' = "yielded"
  /\ UNCHANGED <<files, tracking, childWork, notifying, inbox, navigating, faults>>

ParentEnds ==
  /\ parent = "runs" /\ \A c \in Children : spawning[c] = "none"
  /\ parent' = "idle"
  /\ UNCHANGED <<files, tracking, childWork, notifying, inbox, navigating, faults>>

\* A queued message starts a turn as soon as there is none.
ParentWakes ==
  /\ inbox /\ parent \in {"idle", "yielded"} /\ ~navigating
  /\ inbox' = FALSE /\ parent' = "runs"
  /\ UNCHANGED <<files, tracking, childWork, notifying, navigating, faults>>

PromptParent ==
  /\ parent = "idle" /\ ~navigating
  /\ parent' = "runs"
  /\ UNCHANGED <<files, tracking, childWork, notifying, inbox, navigating, faults>>

\* The daemon dies: the files are left.
Crash ==
  /\ Fault
  /\ tracked' = {} /\ armed' = {} /\ hydrated' = FALSE
  /\ spawning' = [c \in Children |-> "none"]
  /\ scan' = NoScan /\ detaching' = {}
  /\ running' = {} /\ work' = [c \in Children |-> "none"]
  /\ notices' = {} /\ deferred' = {} /\ inbox' = FALSE /\ navigating' = FALSE
  /\ parent' = IF parent = "yielded" THEN "yielded" ELSE "idle"
  /\ UNCHANGED <<files, spells, noticed>>

SubsessionsInit ==
  /\ born = {} /\ header = {} /\ marked = {} /\ links = {} /\ unreadable = {}
  /\ tracked = {} /\ armed = {} /\ hydrated = FALSE
  /\ spawning = [c \in Children |-> "none"]
  /\ scan = NoScan /\ detaching = {}
  /\ running = {} /\ work = [c \in Children |-> "none"] /\ spells = [c \in Children |-> 0]
  /\ noticed = [c \in Children |-> 0] /\ notices = {} /\ deferred = {}
  /\ inbox = FALSE /\ parent = "idle" /\ navigating = FALSE /\ faults = 0

SubsessionsNext ==
  \/ \E c \in Children :
       \/ SpawnCreates(c) \/ SpawnRegisters(c)
       \/ \E linked, mark \in BOOLEAN : SpawnPrompts(c, linked, mark)
       \/ PromptChild(c) \/ TurnStarts(c) \/ ChildPromptFails(c)
       \/ \E idleWhenHeard \in BOOLEAN : TurnEnds(c, idleWhenHeard)
       \/ HeartbeatTracks(c) \/ CloseChild(c) \/ OpenChildScans(c) \/ DetachWrites(c)
       \/ Unreadable(c) \/ Readable(c) \/ NoticeArrives(c) \/ NoticeFails(c)
  \/ HydrateScans \/ ScanRegisters \/ DetachUnregisters
  \/ NavigationBegins \/ ParentNavigationEnds
  \/ Yield \/ TurnIsOver \/ ParentEnds \/ ParentWakes \/ PromptParent
  \/ Crash

\* Turns end, the heartbeat beats, notices and messages are handled.
SubsessionsFairness ==
  /\ \A c \in Children :
       /\ WF_subsessionVars(HeartbeatTracks(c))
       /\ WF_subsessionVars(TurnStarts(c) \/ ChildPromptFails(c))
       /\ WF_subsessionVars(TurnEnds(c, TRUE) \/ TurnEnds(c, FALSE))
       /\ WF_subsessionVars(NoticeArrives(c))
  /\ WF_subsessionVars(ParentNavigationEnds) /\ WF_subsessionVars(TurnIsOver) /\ WF_subsessionVars(ParentWakes)

------------------------------------------------------------------------------

\* A spell of work gets one notice at most, however its events, the heartbeat, new
\* registrations and restarts meet: "fires a single follow-up message"
\* (piSessionService.ts updateSubsessionTracking).
OneNoticePerSpell == \A c \in Children : noticed[c] <= spells[c]

\* A parent whose links have been recovered knows every child that its file links
\* to and that was not detached: a scan that missed one does not count
\* (piSessionService.ts registerPersistedSubsessionLinks).
HydratedIsComplete ==
  hydrated => \A c \in links \intersect header : c \in tracked

\* What the parent hears and knows of its children.
ParentIsToldOnce == OneNoticePerSpell /\ HydratedIsComplete
==============================================================================
