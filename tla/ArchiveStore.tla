---------------------------- MODULE ArchiveStore ----------------------------
(***************************************************************************)
(* The archive of sessions: SessionArchiveStore (sessionArchiveStore.ts),  *)
(* its index file, the session files it moves, and the requests that       *)
(* PiSessionService makes of it (piSessionService.ts), the repair by list  *)
(* among them.                                                             *)
(*                                                                         *)
(* A session is one file.  Archiving copies it, writes the index and then  *)
(* removes the source; restoring moves it back and writes the index;       *)
(* deleting removes the copy and writes the index.  The operations of the  *)
(* store run one at a time, in the order of their requests, every step may *)
(* fail, and the process may die between any two.  list() reads the index  *)
(* and the session directory outside that order.                           *)
(*                                                                         *)
(* A file is the number of messages in it.  A session is continued only    *)
(* while it is not archived and no operation waits for it: its runtime is  *)
(* closed first.                                                           *)
(***************************************************************************)
EXTENDS Naturals, Sequences, FiniteSets

CONSTANTS
  Sessions,
  MaxMessages, \* bound: messages of a session
  MaxRequests, \* bound: operations requested
  MaxFaults,   \* bound: failed steps and deaths
  None         \* "no such file", "not read yet"

ASSUME ArchiveBounds == MaxMessages \in Nat \ {0} /\ MaxRequests \in Nat /\ MaxFaults \in Nat
ASSUME NoneIsNoFile == None \notin Nat

VARIABLES
  source,   \* the session directory's files
  archive,  \* the files of archived-sessions
  index,    \* the index file: no record, a record without an archivePath ("legacy"), or with one
  queue,    \* SessionArchiveStore.operationQueue, the running operation first
  step,     \* where the running operation stands
  data,     \* the index as that operation read and changed it
  todo,     \* its sessions that this step has yet to handle
  listing,  \* what a list() in progress has read: archived records and session files
  said,     \* history: the messages of each session
  doomed,   \* history: the sessions whose deletion began
  gone,     \* history: the sessions whose deletion succeeded
  spoiled,  \* history: the sessions archived as an older copy of themselves
  leftover, \* history: the sessions of which a failure left a session file beside the record
  requests, faults \* history: how many so far

files == <<source, archive>>
operation == <<queue, step, data, todo>>
history == <<said, doomed, gone, spoiled, leftover>>
vars == <<files, index, operation, listing, history, requests, faults>>

File == (0..MaxMessages) \cup {None}
Index == [Sessions -> {"none", "legacy", "moved"}]
Kinds == {"archive", "heal", "moveThenDelete", "restore", "delete"}
Steps == {"wait", "copy", "remove", "move", "unlink", "discard", "write"}

TypeOK ==
  /\ source \in [Sessions -> File] /\ archive \in [Sessions -> File]
  /\ index \in Index /\ data \in Index
  /\ queue \in Seq([kind : Kinds, targets : SUBSET Sessions]) /\ step \in Steps
  /\ todo \subseteq Sessions /\ (queue = <<>> => step = "wait" /\ todo = {})
  /\ listing \in [records : (SUBSET Sessions) \cup {None}, found : (SUBSET Sessions) \cup {None}]
  /\ said \in [Sessions -> 0..MaxMessages]
  /\ doomed \subseteq Sessions /\ gone \subseteq Sessions
  /\ spoiled \subseteq Sessions /\ leftover \subseteq Sessions
  /\ requests \in Nat /\ faults \in Nat

Running(kinds, s) == queue # <<>> /\ Head(queue).kind \in kinds /\ step = s
Archiving == {"archive", "heal", "moveThenDelete"}

\* sessionManager.list(): a file with no message in it is not a session.
Listed(s) == source[s] \notin {0, None}

NotReading == [records |-> None, found |-> None]

----------------------------------------------------------------------------
(* Requests *)

Request(kind, targets) ==
  /\ requests < MaxRequests
  /\ requests' = requests + 1
  /\ queue' = Append(queue, [kind |-> kind, targets |-> targets])

\* archive(), archiveMany(), archiveTree() and cleanup() of sessions that are not archived yet
RequestArchive(S) ==
  /\ S # {} /\ \A s \in S : index[s] = "none" /\ Listed(s)
  /\ Request("archive", S)
  /\ UNCHANGED <<files, index, step, data, todo, listing, history, faults>>

RequestRestore(s) ==
  /\ index[s] # "none"
  /\ Request("restore", {s})
  /\ UNCHANGED <<files, index, step, data, todo, listing, history, faults>>

\* Variant: every record is deleted as it is.
DeletesAtOnce(s) == "delete"

\* ensureArchivedRecordMoved(): a record without an archivePath is moved first.
DeleteKind(s) == IF index[s] = "legacy" /\ Listed(s) THEN "moveThenDelete" ELSE "delete"

\* deleteArchived(), deleteArchivedMany(), and cleanup() of old records
RequestDelete(s) ==
  /\ index[s] # "none"
  /\ Request(DeleteKind(s), {s})
  /\ UNCHANGED <<files, index, step, data, todo, listing, history, faults>>

\* The session goes on; a busy session is not archived.
Continue(s) ==
  /\ index[s] = "none" /\ Listed(s) /\ said[s] < MaxMessages
  /\ \A i \in 1..Len(queue) : s \notin queue[i].targets
  /\ said' = [said EXCEPT ![s] = @ + 1]
  /\ source' = [source EXCEPT ![s] = @ + 1]
  /\ UNCHANGED <<archive, index, operation, listing, doomed, gone, spoiled, leftover,
                 requests, faults>>

\* list() reads the index and the session directory, in either order ...
ListReadsIndex ==
  /\ listing.records = None
  /\ listing' = [listing EXCEPT !.records = {s \in Sessions : index[s] # "none"}]
  /\ UNCHANGED <<files, index, operation, history, requests, faults>>
ListReadsSessions ==
  /\ listing.found = None
  /\ listing' = [listing EXCEPT !.found = {s \in Sessions : Listed(s)}]
  /\ UNCHANGED <<files, index, operation, history, requests, faults>>

\* ... and archives again what it found in both, ensureArchivedSessionMoved(),
\* unless the session is open.
ListHeals ==
  /\ None \notin {listing.records, listing.found}
  /\ listing' = NotReading
  /\ \E s \in listing.records \cap listing.found : Request("heal", {s})
  /\ UNCHANGED <<files, index, step, data, todo, history, faults>>
ListEnds ==
  /\ None \notin {listing.records, listing.found}
  /\ listing' = NotReading
  /\ UNCHANGED <<files, index, operation, history, requests, faults>>

----------------------------------------------------------------------------
(* exclusive(): one operation at a time *)

\* Variant: an operation that fails keeps the queue.
KeepsQueue == UNCHANGED queue

\* The running operation ends, in success or failure, and releases the queue.
Released == queue' = Tail(queue)

\* Variant: the next operation starts where this one ended.
EndsWhereItIs == Released /\ UNCHANGED <<step, todo, data>>

Ends == Released /\ step' = "wait" /\ todo' = {} /\ data' = index'

\* A failure or the process's death; archived sessions may be left with a session file.
Fault ==
  /\ faults < MaxFaults
  /\ faults' = faults + 1
  /\ leftover' = leftover \cup {s \in Sessions : index[s] = "moved" /\ source'[s] # None}

\* A step of an operation throws and leaves the files as they are.
StepFails ==
  /\ queue # <<>> /\ step # "wait"
  /\ UNCHANGED <<files, index>>
  /\ Fault
  /\ Ends
  /\ UNCHANGED <<listing, said, doomed, gone, spoiled, requests>>

----------------------------------------------------------------------------
(* archiveMany() *)

StartArchive ==
  /\ Running(Archiving, "wait")
  /\ step' = "copy" /\ data' = index /\ todo' = Head(queue).targets
  /\ UNCHANGED <<files, index, queue, listing, history, requests, faults>>

\* Variant: an existing copy is not looked for.
Overwrites(s) == FALSE

\* copySessionFileToArchive(): an existing copy is kept.
KeepsCopy(s) == archive[s] # None

Copy(s) ==
  /\ Running(Archiving, "copy") /\ s \in todo
  /\ KeepsCopy(s) \/ source[s] # None
  /\ archive' = IF KeepsCopy(s) THEN archive ELSE [archive EXCEPT ![s] = source[s]]
  /\ spoiled' = IF source[s] # None /\ archive'[s] < source[s] THEN spoiled \cup {s} ELSE spoiled
  /\ data' = [data EXCEPT ![s] = "moved"]
  /\ todo' = todo \ {s}
  /\ UNCHANGED <<source, index, queue, step, listing, said, doomed, gone, leftover,
                 requests, faults>>

\* copyFile() of a source that is gone
CopyMisses(s) ==
  /\ Running(Archiving, "copy") /\ s \in todo
  /\ ~KeepsCopy(s) /\ source[s] = None
  /\ UNCHANGED index
  /\ Ends
  /\ UNCHANGED <<files, listing, history, requests, faults>>

\* copyFile() fails part-way; what it wrote may stay.
CopyFails(s) ==
  /\ Running(Archiving, "copy") /\ s \in todo
  /\ ~KeepsCopy(s) /\ source[s] # None
  /\ \E n \in 0..source[s] : archive' = [archive EXCEPT ![s] = n]
  /\ UNCHANGED <<source, index>>
  /\ Fault
  /\ Ends
  /\ UNCHANGED <<listing, said, doomed, gone, spoiled, requests>>

\* Writing the index comes between the copies and the removals.
ArchiveCopied ==
  /\ Running(Archiving, "copy") /\ todo = {}
  /\ step' = "write"
  /\ UNCHANGED <<source, archive, index, queue, data, todo, listing, history, requests, faults>>

ArchiveWritten ==
  /\ Running(Archiving, "write")
  /\ index' = data
  /\ step' = "remove" /\ todo' = Head(queue).targets
  /\ UNCHANGED <<files, queue, data, listing, history, requests, faults>>

\* removeActiveSessionFile()
Remove(s) ==
  /\ Running(Archiving, "remove") /\ s \in todo
  /\ source' = [source EXCEPT ![s] = None]
  /\ todo' = todo \ {s}
  /\ UNCHANGED <<archive, index, queue, step, data, listing, history, requests, faults>>

\* The move of an old record is followed by its deletion.
ArchiveEnds ==
  /\ Running(Archiving, "remove") /\ todo = {}
  /\ queue' = Tail(queue) \o
       (IF Head(queue).kind = "moveThenDelete"
        THEN <<[kind |-> "delete", targets |-> Head(queue).targets]>> ELSE <<>>)
  /\ step' = "wait" /\ todo' = {} /\ data' = index
  /\ UNCHANGED <<files, index, listing, history, requests, faults>>

----------------------------------------------------------------------------
(* restore() *)

\* restoreSessionFile() refuses to move over a session that exists.
InTheWay(s) == source[s] # None

StartRestore ==
  /\ Running({"restore"}, "wait")
  /\ data' = index /\ todo' = Head(queue).targets
  /\ \E s \in todo' : step' = IF index[s] = "moved" THEN "move" ELSE "write"
  /\ \E s \in todo' : index[s] # "none"
  /\ UNCHANGED <<files, index, queue, listing, history, requests, faults>>

\* There is no record, the session is in the way, or the copy is gone.
RestoreRefused ==
  /\ \/ Running({"restore"}, "wait") /\ \A s \in Head(queue).targets : index[s] = "none"
     \/ Running({"restore"}, "move") /\ \E s \in todo : InTheWay(s) \/ archive[s] = None
  /\ UNCHANGED index
  /\ Ends
  /\ UNCHANGED <<files, listing, history, requests, faults>>

\* rename()
Move(s) ==
  /\ Running({"restore"}, "move") /\ s \in todo
  /\ ~InTheWay(s) /\ archive[s] # None
  /\ source' = [source EXCEPT ![s] = archive[s]]
  /\ archive' = [archive EXCEPT ![s] = None]
  /\ step' = "write"
  /\ UNCHANGED <<index, queue, data, todo, listing, history, requests, faults>>

\* EXDEV: copyFile() and then unlink(), when the two directories are on two file systems
MoveCopies(s) ==
  /\ Running({"restore"}, "move") /\ s \in todo
  /\ ~InTheWay(s) /\ archive[s] # None
  /\ source' = [source EXCEPT ![s] = archive[s]]
  /\ step' = "unlink"
  /\ UNCHANGED <<archive, index, queue, data, todo, listing, history, requests, faults>>
MoveUnlinks(s) ==
  /\ Running({"restore"}, "unlink") /\ s \in todo
  /\ archive' = [archive EXCEPT ![s] = None]
  /\ step' = "write"
  /\ UNCHANGED <<source, index, queue, data, todo, listing, history, requests, faults>>
MoveFails(s) ==
  /\ Running({"restore"}, "move") /\ s \in todo
  /\ ~InTheWay(s) /\ archive[s] # None
  /\ \E n \in 0..archive[s] : source' = [source EXCEPT ![s] = n]
  /\ Fault
  /\ UNCHANGED index
  /\ Ends
  /\ UNCHANGED <<archive, listing, said, doomed, gone, spoiled, requests>>

RestoreWritten ==
  /\ Running({"restore"}, "write")
  /\ index' = [s \in Sessions |-> IF s \in todo THEN "none" ELSE data[s]]
  /\ Ends
  /\ UNCHANGED <<files, listing, history, requests, faults>>

----------------------------------------------------------------------------
(* deleteArchivedMany() *)

StartDelete ==
  /\ Running({"delete"}, "wait")
  /\ data' = index /\ todo' = {s \in Head(queue).targets : index[s] # "none"}
  /\ IF todo' = {} THEN step' = "wait" /\ queue' = Tail(queue)
     ELSE step' = "discard" /\ UNCHANGED queue
  /\ doomed' = doomed \cup todo'
  /\ UNCHANGED <<files, index, listing, said, gone, spoiled, leftover, requests, faults>>

Discard(s) ==
  /\ Running({"delete"}, "discard") /\ s \in todo
  /\ archive' = IF data[s] = "moved" THEN [archive EXCEPT ![s] = None] ELSE archive
  /\ todo' = todo \ {s}
  /\ UNCHANGED <<source, index, queue, step, data, listing, history, requests, faults>>

DeleteWritten ==
  /\ Running({"delete"}, "discard") /\ todo = {}
  /\ index' = [s \in Sessions |-> IF s \in Head(queue).targets THEN "none" ELSE data[s]]
  /\ gone' = gone \cup {s \in Head(queue).targets : data[s] # "none"}
  /\ Ends
  /\ UNCHANGED <<files, listing, said, doomed, spoiled, leftover, requests, faults>>

----------------------------------------------------------------------------
(* The process *)

\* The process dies, in the middle of a copy perhaps, and is started again.
Crash ==
  /\ UNCHANGED <<files, index>>
  /\ Fault
  /\ queue' = <<>> /\ step' = "wait" /\ todo' = {} /\ data' = index
  /\ listing' = NotReading
  /\ UNCHANGED <<said, doomed, gone, spoiled, requests>>

Init ==
  /\ said \in [Sessions -> {1}]
  /\ source = said /\ archive = [s \in Sessions |-> None]
  /\ index \in {i \in Index : \A s \in Sessions : i[s] # "moved"}
  /\ queue = <<>> /\ step = "wait" /\ data = index /\ todo = {}
  /\ listing = NotReading
  /\ doomed = {} /\ gone = {} /\ spoiled = {} /\ leftover = {}
  /\ requests = 0 /\ faults = 0

Operate ==
  \/ StartArchive \/ ArchiveCopied \/ ArchiveWritten \/ ArchiveEnds
  \/ StartRestore \/ RestoreRefused \/ RestoreWritten
  \/ StartDelete \/ DeleteWritten
  \/ \E s \in Sessions :
       \/ Copy(s) \/ CopyMisses(s) \/ CopyFails(s) \/ Remove(s)
       \/ Move(s) \/ MoveCopies(s) \/ MoveUnlinks(s) \/ MoveFails(s)
       \/ Discard(s)
  \/ StepFails

Next ==
  \/ \E S \in SUBSET Sessions : RequestArchive(S)
  \/ \E s \in Sessions : RequestRestore(s) \/ RequestDelete(s) \/ Continue(s)
  \/ ListReadsIndex \/ ListReadsSessions \/ ListHeals \/ ListEnds
  \/ Operate
  \/ Crash

Spec == Init /\ [][Next]_vars

\* File operations end; nothing is assumed of requests, faults and deaths.
FairSpec == Spec /\ WF_vars(Operate)

----------------------------------------------------------------------------
(* Properties *)

\* All that was said in a session stays in the session directory or in the
\* copy that the index leads to, whatever failed on the way there or back,
\* unless it was archived as an older copy or is being deleted.
NothingLost ==
  \A s \in Sessions \ (doomed \cup spoiled) :
    source[s] = said[s] \/ (index[s] = "moved" /\ archive[s] = said[s])

\* A deleted session leaves no file behind, unless an archive or a restore of
\* it failed on the way and left a session file.
DeletedIsGone ==
  \A s \in gone \ leftover : source[s] = None /\ archive[s] = None

\* What is kept is whole, and what is deleted is gone.
FilesAreKept == NothingLost /\ DeletedIsGone

\* A session that was archived and restored holds all its messages again, as
\* the test of archive() and restore() says.
RestoredIsComplete ==
  \A s \in Sessions \ doomed : index[s] = "none" => source[s] = said[s]

\* Operations end, also those behind one that failed.
OperationsEnd == <>[](queue = <<>>)
============================================================================
