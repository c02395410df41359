------------------------- MODULE ArchiveStoreProofs -------------------------
(***************************************************************************)
(* Proofs about the session archive and the migration of the legacy one,   *)
(* for any set of sessions and any number of failures, deaths and          *)
(* requests.                                                               *)
(***************************************************************************)
EXTENDS MCArchiveStore, TLAPS

----------------------------------------------------------------------------
(* The archive.  The inductive invariant says, for the operation that has the *)
(* queue, what it has done to each of its sessions, so that a session's       *)
(* messages are found at any step, and between operations that an archived    *)
(* session has no session file unless a failure left it.                      *)

Job == Head(queue)

JobOK ==
  /\ step = "wait" => todo = {}
  /\ step # "wait" =>
       /\ queue # <<>> /\ todo \subseteq Job.targets
       /\ \/ Job.kind \in Archiving /\ step \in {"copy", "write", "remove"}
          \/ Job.kind = "restore" /\ step \in {"move", "unlink", "write"} /\ todo = Job.targets
          \/ Job.kind = "delete" /\ step = "discard"

\* A restore is of one session, and a session is deleted only once its file was moved.
QueueOK ==
  \A i \in 1..Len(queue) :
    /\ queue[i].kind = "restore" => \E s \in Sessions : queue[i].targets = {s}
    /\ queue[i].kind = "delete" => \A s \in queue[i].targets : index[s] # "legacy"

\* The running operation has the copy of s; or has moved it back, or found it in place.
Copied(s) ==
  /\ step \in {"copy", "remove"} \/ (step = "write" /\ Job.kind \in Archiving)
  /\ s \in Job.targets
  /\ step = "copy" => s \notin todo
Restored(s) == s \in todo /\ (step = "unlink" \/ (step = "write" /\ Job.kind = "restore"))

DataOK ==
  step # "wait" => \A s \in Sessions : data[s] = IF Copied(s) THEN "moved" ELSE index[s]

IndexOK ==
  /\ step \in {"move", "unlink"} => \A s \in todo : index[s] = "moved"
  /\ step = "remove" => \A s \in Job.targets : index[s] = "moved"
  /\ step = "discard" => \A s \in Job.targets : index[s] # "none" \/ s \in todo => s \in doomed

CopiesOK ==
  \A s \in Sessions :
    /\ Copied(s) => archive[s] # None
    /\ s \notin doomed \cup spoiled /\ Copied(s) => archive[s] = said[s]
    /\ s \notin doomed \cup spoiled /\ Restored(s) => source[s] = said[s]
    /\ step = "discard" /\ s \in Job.targets \ todo /\ index[s] = "moved" => archive[s] = None

SourcesOK ==
  \A s \in Sessions :
    /\ index[s] = "legacy" => source[s] = said[s]
    /\ index[s] = "moved" /\ s \notin leftover =>
         source[s] = None \/ (step = "remove" /\ s \in todo) \/ Restored(s)

FilesOK ==
  \A s \in Sessions :
    /\ said[s] >= 1
    /\ source[s] # None => source[s] <= said[s]
    /\ archive[s] # None => archive[s] <= said[s]

ArchiveInv ==
  /\ TypeOK /\ JobOK /\ QueueOK /\ DataOK /\ IndexOK
  /\ CopiesOK /\ SourcesOK /\ FilesOK /\ NothingLost /\ DeletedIsGone

Jobs == [kind : Kinds, targets : SUBSET Sessions]

LEMMA QueueType == TypeOK => queue \in Seq(Jobs)
BY DEF TypeOK, Jobs

LEMMA QueueFacts ==
  ASSUME queue \in Seq(Jobs), queue # <<>>
  PROVE  /\ Job \in Jobs /\ Job = queue[1] /\ 1 \in 1..Len(queue)
         /\ Tail(queue) \in Seq(Jobs)
         /\ \A i \in 1..Len(Tail(queue)) : i + 1 \in 1..Len(queue) /\ Tail(queue)[i] = queue[i + 1]
BY DEF Job

\* A new job waits behind the one that runs.
LEMMA AppendFacts ==
  ASSUME queue \in Seq(Jobs), NEW j \in Jobs
  PROVE  /\ Append(queue, j) \in Seq(Jobs) /\ Append(queue, j) # <<>>
         /\ queue # <<>> => Head(Append(queue, j)) = Head(queue)
         /\ \A i \in 1..Len(Append(queue, j)) :
              Append(queue, j)[i] = j \/ (i \in 1..Len(queue) /\ Append(queue, j)[i] = queue[i])
<1>1. Append(queue, j) \in Seq(Jobs) /\ Append(queue, j) # <<>>
  <2>1. Append(queue, j) \in Seq(Jobs) /\ Len(Append(queue, j)) = Len(queue) + 1 /\ Len(queue) \in Nat
    OBVIOUS
  <2> QED BY <2>1
<1>2. queue # <<>> => Head(Append(queue, j)) = Head(queue)
  OBVIOUS
<1>3. \A i \in 1..Len(Append(queue, j)) :
        Append(queue, j)[i] = j \/ (i \in 1..Len(queue) /\ Append(queue, j)[i] = queue[i])
  OBVIOUS
<1> QED BY <1>1, <1>2, <1>3

\* The jobs stay in order while the running one ends or another one comes.
LEMMA QueueKept ==
  ASSUME queue \in Seq(Jobs), QueueOK,
         \A s \in Sessions : index'[s] = "legacy" => index[s] = "legacy",
         \/ queue' = queue
         \/ queue # <<>> /\ queue' = Tail(queue)
         \/ queue' = <<>>
         \/ \E j \in Jobs :
              /\ queue' = Append(queue, j)
              /\ j.kind = "restore" => \E s \in Sessions : j.targets = {s}
              /\ j.kind = "delete" => \A s \in j.targets : index'[s] # "legacy"
  PROVE  QueueOK'
<1>0. \A i \in 1..Len(queue) : queue[i].targets \subseteq Sessions
  <2>1. \A i \in 1..Len(queue) : queue[i] \in Jobs
    OBVIOUS
  <2> QED BY <2>1 DEF Jobs
<1>1. CASE queue' = queue
  BY <1>0, <1>1 DEF QueueOK
<1>2. CASE queue # <<>> /\ queue' = Tail(queue)
  BY <1>0, <1>2, QueueFacts DEF QueueOK
<1>3. CASE queue' = <<>>
  BY <1>3 DEF QueueOK
<1>4. ASSUME NEW j \in Jobs, queue' = Append(queue, j),
             j.kind = "restore" => \E s \in Sessions : j.targets = {s},
             j.kind = "delete" => \A s \in j.targets : index'[s] # "legacy"
      PROVE  QueueOK'
  BY <1>0, <1>4, AppendFacts DEF QueueOK
<1> QED BY <1>1, <1>2, <1>3, <1>4

\* Nothing but the queue, behind the running job, and the listing changes.
LEMMA RequestStep ==
  ASSUME ArchiveInv,
         UNCHANGED <<files, index, step, data, todo, history>>,
         listing' \in [records : (SUBSET Sessions) \cup {None}, found : (SUBSET Sessions) \cup {None}],
         requests' \in Nat, faults' = faults,
         \/ queue' = queue
         \/ \E j \in Jobs :
              /\ queue' = Append(queue, j)
              /\ j.kind = "restore" => \E s \in Sessions : j.targets = {s}
              /\ j.kind = "delete" => \A s \in j.targets : index[s] # "legacy"
  PROVE  ArchiveInv'
<1> USE DEF ArchiveInv, files, history
<1>1. queue \in Seq(Jobs)
  BY QueueType
<1>2. queue' \in Seq(Jobs) /\ (queue # <<>> => queue' # <<>> /\ Job' = Job) /\ (queue' = <<>> => queue = <<>>)
  BY <1>1, AppendFacts DEF Job
<1>3. TypeOK'
  BY <1>2 DEF TypeOK, Jobs
<1>4. JobOK' /\ DataOK' /\ IndexOK' /\ (\A s \in Sessions : Copied(s)' = Copied(s) /\ Restored(s)' = Restored(s))
  <2>1. CASE step = "wait"
    BY <2>1 DEF JobOK, DataOK, IndexOK, Copied, Restored
  <2>2. CASE step # "wait"
    BY <1>2, <2>2 DEF JobOK, DataOK, IndexOK, Copied, Restored
  <2> QED BY <2>1, <2>2
<1>5. QueueOK'
  BY <1>1, QueueKept
<1>6. CopiesOK' /\ SourcesOK'
  <2>1. step = "discard" => Job' = Job
    BY <1>2 DEF JobOK
  <2> QED BY <1>4, <2>1 DEF CopiesOK, SourcesOK
<1>7. FilesOK' /\ NothingLost' /\ DeletedIsGone'
  BY DEF FilesOK, NothingLost, DeletedIsGone
<1> QED BY <1>3, <1>4, <1>5, <1>6, <1>7

\* An operation that has ended keeps nothing but the files and the index.
LEMMA IdleStep ==
  ASSUME ArchiveInv, step' = "wait", todo' = {}, queue # <<>> \/ queue' = <<>>,
         \A s \in Sessions : index'[s] = "legacy" => index[s] = "legacy",
         \/ queue' = Tail(queue)
         \/ queue' = <<>>
         \/ /\ queue' = Tail(queue) \o <<[kind |-> "delete", targets |-> Job.targets]>>
            /\ \A s \in Job.targets : index'[s] # "legacy"
  PROVE  /\ queue' \in Seq(Jobs)
         /\ JobOK' /\ QueueOK' /\ DataOK' /\ IndexOK' /\ CopiesOK'
<1> USE DEF ArchiveInv
<1>1. JobOK' /\ DataOK' /\ IndexOK' /\ CopiesOK'
  BY DEF JobOK, DataOK, IndexOK, CopiesOK, Copied, Restored
<1>2. queue \in Seq(Jobs)
  BY QueueType
<1>3. CASE queue' = <<>>
  BY <1>2, <1>3, QueueKept, <1>1
<1>4. CASE queue # <<>> /\ queue' = Tail(queue)
  BY <1>2, <1>4, QueueKept, QueueFacts, <1>1
<1>5. CASE /\ queue # <<>> /\ queue' = Tail(queue) \o <<[kind |-> "delete", targets |-> Job.targets]>>
           /\ \A s \in Job.targets : index'[s] # "legacy"
  <2> DEFINE j == [kind |-> "delete", targets |-> Job.targets]
             t == Tail(queue)
  <2>1. j \in Jobs
    BY <1>2, <1>5, QueueFacts DEF Jobs, Kinds
  <2>2. t \in Seq(Jobs) /\ \A i \in 1..Len(t) : i + 1 \in 1..Len(queue) /\ t[i] = queue[i + 1]
    BY <1>2, <1>5, QueueFacts
  <2>3. queue' \in Seq(Jobs) /\ Len(queue') = Len(t) + 1
        /\ (\A i \in 1..Len(t) : queue'[i] = t[i]) /\ queue'[Len(t) + 1] = j
    <3> HIDE DEF j, t
    <3>1. t \o <<j>> \in Seq(Jobs) /\ Len(t \o <<j>>) = Len(t) + 1
      BY <2>1, <2>2
    <3>2. \A i \in 1..Len(t) : (t \o <<j>>)[i] = t[i]
      BY <2>1, <2>2
    <3>3. (t \o <<j>>)[Len(t) + 1] = j
      BY <2>1, <2>2
    <3>4. queue' = t \o <<j>>
      BY <1>5 DEF t, j
    <3> QED BY <3>1, <3>2, <3>3, <3>4
  <2>4. \A i \in 1..Len(queue) : queue[i].targets \subseteq Sessions
    <3>1. \A i \in 1..Len(queue) : queue[i] \in Jobs
      BY <1>2
    <3> QED BY <3>1 DEF Jobs
  <2>5. ASSUME NEW i \in 1..Len(queue') PROVE i \in 1..Len(t) \/ i = Len(t) + 1
    BY <2>2, <2>3
  <2>6. j.kind = "delete" /\ j.targets = Job.targets
    OBVIOUS
  <2> HIDE DEF j, t
  <2>7. QueueOK'
    <3> SUFFICES ASSUME NEW i \in 1..Len(queue')
                 PROVE  /\ queue'[i].kind = "restore" => \E s \in Sessions : queue'[i].targets = {s}
                        /\ queue'[i].kind = "delete" => \A s \in queue'[i].targets : index'[s] # "legacy"
      BY DEF QueueOK
    <3>1. CASE i \in 1..Len(t)
      <4>1. i + 1 \in 1..Len(queue) /\ queue'[i] = queue[i + 1]
        BY <2>2, <2>3, <3>1
      <4> QED BY <2>4, <4>1 DEF QueueOK
    <3>2. CASE i = Len(t) + 1
      BY <1>5, <2>3, <2>6, <3>2
    <3> QED BY <2>5, <3>1, <3>2
  <2> QED BY <1>1, <2>3, <2>7
<1> QED BY <1>1, <1>3, <1>4, <1>5

\* What a fault leaves of the sources is on record.
LEMMA FaultStep ==
  ASSUME ArchiveInv, Fault, UNCHANGED <<index, said>>,
         step' = "wait", todo' = {}, queue # <<>> \/ queue' = <<>>,
         queue' = Tail(queue) \/ queue' = <<>>,
         source' \in [Sessions -> File],
         \A s \in Sessions : index[s] = "legacy" => source'[s] = source[s]
  PROVE  /\ queue' \in Seq(Jobs)
         /\ JobOK' /\ QueueOK' /\ DataOK' /\ IndexOK' /\ CopiesOK' /\ SourcesOK'
         /\ leftover' \subseteq Sessions /\ leftover \subseteq leftover' /\ faults' \in Nat
<1>1. SourcesOK'
  BY DEF ArchiveInv, SourcesOK, Fault
<1>2. leftover' \subseteq Sessions /\ leftover \subseteq leftover' /\ faults' \in Nat
  BY DEF ArchiveInv, TypeOK, Fault
<1> QED BY <1>1, <1>2, IdleStep

LEMMA ArchiveInitially == Init => ArchiveInv
<1> SUFFICES ASSUME Init PROVE ArchiveInv
  OBVIOUS
<1> USE ArchiveBounds, NoneIsNoFile DEF Init
<1>1. \A s \in Sessions : said[s] = 1 /\ source[s] = 1 /\ archive[s] = None /\ index[s] \in {"none", "legacy"}
  BY DEF Index
<1>2. TypeOK
  BY <1>1 DEF TypeOK, File, Kinds, Steps, NotReading
<1>3. JobOK /\ QueueOK /\ DataOK /\ IndexOK /\ CopiesOK
  BY DEF JobOK, QueueOK, DataOK, IndexOK, CopiesOK, Copied, Restored
<1>4. SourcesOK /\ FilesOK /\ NothingLost /\ DeletedIsGone
  BY <1>1 DEF SourcesOK, FilesOK, NothingLost, DeletedIsGone
<1> QED BY <1>2, <1>3, <1>4 DEF ArchiveInv

LEMMA RequestsStep ==
  ASSUME ArchiveInv,
         \/ \E S \in SUBSET Sessions : RequestArchive(S)
         \/ \E s \in Sessions : RequestRestore(s) \/ RequestDelete(s)
         \/ ListReadsIndex \/ ListReadsSessions \/ ListHeals \/ ListEnds
  PROVE  ArchiveInv'
<1>0. /\ requests \in Nat /\ faults \in Nat
      /\ listing \in [records : (SUBSET Sessions) \cup {None}, found : (SUBSET Sessions) \cup {None}]
  BY DEF ArchiveInv, TypeOK
<1>1. ASSUME NEW S \in SUBSET Sessions, RequestArchive(S) PROVE ArchiveInv'
  <2>1. [kind |-> "archive", targets |-> S] \in Jobs
    BY DEF Jobs, Kinds
  <2> QED BY <1>0, <1>1, <2>1, RequestStep DEF RequestArchive, Request
<1>2. ASSUME NEW s \in Sessions, RequestRestore(s) PROVE ArchiveInv'
  <2>1. [kind |-> "restore", targets |-> {s}] \in Jobs
    BY DEF Jobs, Kinds
  <2> QED BY <1>0, <1>2, <2>1, RequestStep DEF RequestRestore, Request
<1>3. ASSUME NEW s \in Sessions, RequestDelete(s) PROVE ArchiveInv'
  <2>1. [kind |-> DeleteKind(s), targets |-> {s}] \in Jobs /\ DeleteKind(s) # "restore"
    BY DEF Jobs, Kinds, DeleteKind
  <2>2. DeleteKind(s) = "delete" => index[s] # "legacy"
    \* A legacy session has its messages still.
    <3>1. index[s] = "legacy" => Listed(s)
      BY NoneIsNoFile, ArchiveBounds DEF ArchiveInv, SourcesOK, FilesOK, TypeOK, Listed, File
    <3> QED BY <3>1 DEF DeleteKind
  <2> QED BY <1>0, <1>3, <2>1, <2>2, RequestStep DEF RequestDelete, Request
<1>4. CASE ListReadsIndex
  BY <1>0, <1>4, RequestStep DEF ListReadsIndex, operation
<1>5. CASE ListReadsSessions
  BY <1>0, <1>5, RequestStep DEF ListReadsSessions, operation
<1>6. CASE ListHeals
  <2>1. PICK s \in listing.records \cap listing.found : Request("heal", {s})
    BY <1>6 DEF ListHeals
  <2>2. [kind |-> "heal", targets |-> {s}] \in Jobs
    BY <1>0, <1>6, <2>1 DEF ListHeals, Jobs, Kinds
  <2> QED BY <1>0, <1>6, <2>1, <2>2, RequestStep DEF ListHeals, Request, NotReading
<1>7. CASE ListEnds
  BY <1>0, <1>7, RequestStep DEF ListEnds, operation, NotReading
<1> QED BY <1>1, <1>2, <1>3, <1>4, <1>5, <1>6, <1>7

\* No operation waits for a session that is continued.
LEMMA ContinueStep ==
  ASSUME ArchiveInv, NEW s \in Sessions, Continue(s)
  PROVE  ArchiveInv'
<1> USE DEF ArchiveInv, Continue, operation
<1>1. source[s] = said[s] \/ s \in doomed \cup spoiled
  BY DEF NothingLost
<1>2. source[s] \in Nat /\ source[s] < MaxMessages /\ source'[s] = source[s] + 1
  BY ArchiveBounds, NoneIsNoFile DEF TypeOK, File, Listed, FilesOK
<1>3. TypeOK'
  BY <1>2, ArchiveBounds DEF TypeOK, File
<1>4. queue # <<>> => s \notin Job.targets
  BY QueueType, QueueFacts
<1>5. s \notin todo /\ (step # "wait" => s \notin Job.targets)
  BY <1>4 DEF JobOK
<1>6. JobOK' /\ QueueOK' /\ DataOK' /\ IndexOK'
  BY DEF JobOK, QueueOK, DataOK, IndexOK, Copied, Restored, Job
<1>7. CopiesOK' /\ SourcesOK'
  BY <1>5 DEF CopiesOK, SourcesOK, Copied, Restored, Job, TypeOK
<1>8. FilesOK'
  BY <1>2, NoneIsNoFile, ArchiveBounds DEF FilesOK, TypeOK, File
<1>9. NothingLost' /\ DeletedIsGone'
  BY <1>1, <1>2, NoneIsNoFile DEF NothingLost, DeletedIsGone, TypeOK
<1> QED BY <1>3, <1>6, <1>7, <1>8, <1>9

\* archiveMany(): each session is copied before the index says so, and its file
\* removed after.
LEMMA ArchivingStep ==
  ASSUME ArchiveInv,
         \/ StartArchive \/ ArchiveCopied \/ ArchiveWritten \/ ArchiveEnds
         \/ \E s \in Sessions : Copy(s) \/ CopyMisses(s) \/ CopyFails(s) \/ Remove(s)
  PROVE  ArchiveInv'
<1> USE DEF ArchiveInv
<1>0. queue # <<>> => Job.kind \in Kinds /\ Job.targets \in SUBSET Sessions
  BY QueueType, QueueFacts DEF Jobs
<1>1. CASE StartArchive
  <2> USE <1>1 DEF StartArchive, Running, files, history, Job
  <2>1. TypeOK'
    BY <1>0 DEF TypeOK, Steps
  <2>2. JobOK' /\ QueueOK' /\ DataOK' /\ IndexOK'
    BY <1>0 DEF JobOK, QueueOK, DataOK, IndexOK, Copied, Archiving
  <2>3. CopiesOK' /\ SourcesOK'
    BY DEF CopiesOK, SourcesOK, Copied, Restored, JobOK
  <2> QED BY <2>1, <2>2, <2>3 DEF FilesOK, NothingLost, DeletedIsGone
<1>2. CASE ArchiveCopied
  <2> USE <1>2 DEF ArchiveCopied, Running, history, Job
  <2>1. TypeOK'
    BY DEF TypeOK, Steps
  <2>2. JobOK' /\ QueueOK' /\ DataOK' /\ IndexOK'
    BY <1>0 DEF JobOK, QueueOK, DataOK, IndexOK, Copied, Archiving
  <2>3. CopiesOK' /\ SourcesOK'
    BY DEF CopiesOK, SourcesOK, Copied, Restored, JobOK
  <2> QED BY <2>1, <2>2, <2>3 DEF FilesOK, NothingLost, DeletedIsGone
<1>3. CASE ArchiveWritten
  <2> USE <1>3 DEF ArchiveWritten, Running, files, history, Job
  <2>0. \A s \in Sessions : index'[s] = IF s \in Job.targets THEN "moved" ELSE index[s]
    BY DEF DataOK, Copied
  <2>1. TypeOK'
    BY <1>0 DEF TypeOK, Steps
  <2>2. JobOK' /\ DataOK' /\ IndexOK'
    BY <1>0, <2>0 DEF JobOK, DataOK, IndexOK, Copied, Archiving
  <2>3. QueueOK'
    BY <2>0, QueueType, QueueKept
  <2>4. CopiesOK' /\ SourcesOK'
    BY <2>0 DEF CopiesOK, SourcesOK, Copied, Restored, JobOK, Archiving
  <2>5. NothingLost'
    BY <2>0 DEF NothingLost, CopiesOK, Copied
  <2> QED BY <2>1, <2>2, <2>3, <2>4, <2>5 DEF FilesOK, DeletedIsGone
<1>4. CASE ArchiveEnds
  <2> USE <1>4 DEF ArchiveEnds, Running, files, history
  <2>1. /\ queue' \in Seq(Jobs)
        /\ JobOK' /\ QueueOK' /\ DataOK' /\ IndexOK' /\ CopiesOK'
    <3>1. Head(queue).kind # "moveThenDelete" => queue' = Tail(queue)
      BY QueueType, QueueFacts
    <3>2. \A s \in Job.targets : index'[s] # "legacy"
      BY <1>0 DEF IndexOK
    <3> QED BY <3>1, <3>2, IdleStep DEF Job
  <2>2. TypeOK'
    BY <2>1 DEF TypeOK, Jobs, Steps
  <2>3. SourcesOK'
    BY DEF SourcesOK, Restored, Archiving, JobOK
  <2> QED BY <2>1, <2>2, <2>3 DEF FilesOK, NothingLost, DeletedIsGone
<1>5. ASSUME NEW s \in Sessions, Copy(s) PROVE ArchiveInv'
  <2> USE <1>5 DEF Copy, Running, KeepsCopy, Job
  <2>0. \A q \in Sessions : Copied(q)' <=> Copied(q) \/ q = s
    BY DEF Copied, JobOK
  <2>1. TypeOK'
    BY DEF TypeOK, Index
  <2>2. JobOK' /\ QueueOK' /\ DataOK' /\ IndexOK'
    <3>1. JobOK' /\ QueueOK' /\ IndexOK'
      BY DEF JobOK, QueueOK, IndexOK
    <3>2. DataOK'
      BY <2>0 DEF DataOK, TypeOK, Index
    <3> QED BY <3>1, <3>2
  <2>3. FilesOK'
    BY DEF FilesOK, TypeOK
  <2>4. archive'[s] # None /\ (s \notin doomed \cup spoiled' => archive'[s] = said[s])
    BY NoneIsNoFile, ArchiveBounds DEF FilesOK, NothingLost, TypeOK, File
  <2>5. CopiesOK' /\ SourcesOK'
    BY <2>0, <2>4 DEF CopiesOK, SourcesOK, Restored, TypeOK, JobOK, Archiving
  <2>6. NothingLost'
    BY <2>4 DEF NothingLost, TypeOK
  <2>7. DeletedIsGone'
    BY DEF DeletedIsGone, TypeOK
  <2> QED BY <2>1, <2>2, <2>3, <2>5, <2>6, <2>7
<1>6. ASSUME NEW s \in Sessions, CopyMisses(s) PROVE ArchiveInv'
  <2> USE <1>6 DEF CopyMisses, Running, Ends, Released, files, history
  <2>1. /\ queue' \in Seq(Jobs)
        /\ JobOK' /\ QueueOK' /\ DataOK' /\ IndexOK' /\ CopiesOK'
    BY IdleStep
  <2>2. TypeOK'
    BY <2>1 DEF TypeOK, Jobs, Steps
  <2>3. SourcesOK'
    BY DEF SourcesOK, Restored
  <2> QED BY <2>1, <2>2, <2>3 DEF FilesOK, NothingLost, DeletedIsGone
<1>7. ASSUME NEW s \in Sessions, CopyFails(s) PROVE ArchiveInv'
  <2> USE <1>7 DEF CopyFails, Running, Ends, Released, KeepsCopy
  <2>0. /\ queue' \in Seq(Jobs)
        /\ JobOK' /\ QueueOK' /\ DataOK' /\ IndexOK' /\ CopiesOK' /\ SourcesOK'
        /\ leftover' \subseteq Sessions /\ leftover \subseteq leftover' /\ faults' \in Nat
    <3>1. source' = source
      BY <1>7 DEF CopyFails
    <3>2. source \in [Sessions -> File]
      BY DEF TypeOK
    <3> QED BY <3>1, <3>2, FaultStep
  <2>1. PICK n \in 0..source[s] : archive' = [archive EXCEPT ![s] = n]
    OBVIOUS
  <2>2. n \in Nat /\ n <= source[s] /\ source[s] \in 0..MaxMessages /\ n \in File
    BY <2>1, ArchiveBounds DEF TypeOK, File
  <2>3. TypeOK'
    BY <2>0, <2>1, <2>2 DEF TypeOK, Jobs, Steps
  <2>4. FilesOK'
    BY <2>1, <2>2 DEF FilesOK, TypeOK
  <2>5. NothingLost' /\ DeletedIsGone'
    BY <2>0, <2>1, NoneIsNoFile, ArchiveBounds DEF NothingLost, DeletedIsGone, TypeOK, File
  <2> QED BY <2>0, <2>3, <2>4, <2>5
<1>8. ASSUME NEW s \in Sessions, Remove(s) PROVE ArchiveInv'
  <2> USE <1>8 DEF Remove, Running, history, Job
  <2>1. TypeOK'
    BY DEF TypeOK, File
  <2>2. JobOK' /\ QueueOK' /\ DataOK' /\ IndexOK'
    BY DEF JobOK, QueueOK, DataOK, IndexOK, Copied, Archiving
  <2>3. CopiesOK' /\ SourcesOK'
    BY DEF CopiesOK, SourcesOK, Copied, Restored, TypeOK, JobOK, IndexOK, Archiving
  <2>4. FilesOK'
    BY DEF FilesOK, TypeOK
  <2>5. NothingLost' /\ DeletedIsGone'
    BY DEF NothingLost, DeletedIsGone, TypeOK, CopiesOK, Copied, IndexOK, JobOK
  <2> QED BY <2>1, <2>2, <2>3, <2>4, <2>5
<1> QED BY <1>1, <1>2, <1>3, <1>4, <1>5, <1>6, <1>7, <1>8

\* restore(): the file is moved back before the index forgets the session.
LEMMA RestoringStep ==
  ASSUME ArchiveInv,
         \/ StartRestore \/ RestoreRefused \/ RestoreWritten
         \/ \E s \in Sessions : Move(s) \/ MoveCopies(s) \/ MoveUnlinks(s) \/ MoveFails(s)
  PROVE  ArchiveInv'
<1> USE DEF ArchiveInv
<1>0. queue # <<>> => /\ Job.kind \in Kinds /\ Job.targets \in SUBSET Sessions
                      /\ Job.kind = "restore" => \E s \in Sessions : Job.targets = {s}
  BY QueueType, QueueFacts DEF Jobs, QueueOK
<1>1. CASE StartRestore
  <2> USE <1>1 DEF StartRestore, Running, files, history, Job
  <2>1. TypeOK'
    BY <1>0 DEF TypeOK, Steps
  <2>2. JobOK' /\ QueueOK' /\ DataOK' /\ IndexOK'
    BY <1>0 DEF JobOK, QueueOK, DataOK, IndexOK, Copied, Archiving
  <2>3. CopiesOK' /\ SourcesOK'
    BY <1>0 DEF CopiesOK, SourcesOK, Copied, Restored, JobOK, NothingLost, Archiving
  <2> QED BY <2>1, <2>2, <2>3 DEF FilesOK, NothingLost, DeletedIsGone
<1>2. CASE RestoreRefused
  <2> USE <1>2 DEF RestoreRefused, Running, Ends, Released, files, history
  <2>1. /\ queue' \in Seq(Jobs)
        /\ JobOK' /\ QueueOK' /\ DataOK' /\ IndexOK' /\ CopiesOK'
    BY IdleStep
  <2>2. TypeOK'
    BY <2>1 DEF TypeOK, Jobs, Steps
  <2>3. SourcesOK'
    BY DEF SourcesOK, Restored
  <2> QED BY <2>1, <2>2, <2>3 DEF FilesOK, NothingLost, DeletedIsGone
<1>3. CASE RestoreWritten
  <2> USE <1>3 DEF RestoreWritten, Running, Ends, Released, files, history
  <2>0. \A s \in Sessions : index'[s] = IF s \in todo THEN "none" ELSE index[s]
    BY DEF DataOK, Copied, Job, Archiving
  <2>1. /\ queue' \in Seq(Jobs)
        /\ JobOK' /\ QueueOK' /\ DataOK' /\ IndexOK' /\ CopiesOK'
    BY <2>0, IdleStep
  <2>2. TypeOK'
    BY <2>1 DEF TypeOK, Jobs, Steps, Index
  <2>3. SourcesOK'
    BY <2>0 DEF SourcesOK, Restored, Job
  <2>4. NothingLost'
    BY <2>0 DEF NothingLost, CopiesOK, Restored, Job
  <2> QED BY <2>1, <2>2, <2>3, <2>4 DEF FilesOK, DeletedIsGone
<1>4. ASSUME NEW s \in Sessions, Move(s) \/ MoveCopies(s) PROVE ArchiveInv'
  <2> USE <1>4 DEF Move, MoveCopies, Running, InTheWay, history, Job
  <2>0. /\ todo = {s} /\ index[s] = "moved"
        /\ s \notin doomed \cup spoiled => archive[s] = said[s] /\ source'[s] = said[s]
    <3>1. todo = {s} /\ index[s] = "moved"
      BY <1>0 DEF JobOK, IndexOK, Archiving
    <3>2. archive[s] = said[s] \/ s \in doomed \cup spoiled
      BY NoneIsNoFile DEF NothingLost, TypeOK
    <3>3. source'[s] = archive[s]
      BY DEF TypeOK
    <3> QED BY <3>1, <3>2, <3>3
  <2>1. TypeOK'
    BY DEF TypeOK, Steps, File
  <2>2. JobOK' /\ QueueOK' /\ DataOK' /\ IndexOK'
    BY DEF JobOK, QueueOK, DataOK, IndexOK, Copied, Archiving
  <2>3. CopiesOK' /\ SourcesOK'
    BY <2>0 DEF CopiesOK, SourcesOK, Copied, Restored, TypeOK, Archiving
  <2>4. FilesOK'
    BY DEF FilesOK, TypeOK
  <2>5. NothingLost' /\ DeletedIsGone'
    BY <2>0 DEF NothingLost, DeletedIsGone, TypeOK
  <2> QED BY <2>1, <2>2, <2>3, <2>4, <2>5
<1>5. ASSUME NEW s \in Sessions, MoveUnlinks(s) PROVE ArchiveInv'
  <2> USE <1>5 DEF MoveUnlinks, Running, history, Job
  <2>1. TypeOK'
    BY DEF TypeOK, Steps, File
  <2>2. JobOK' /\ QueueOK' /\ DataOK' /\ IndexOK'
    BY DEF JobOK, QueueOK, DataOK, IndexOK, Copied, Archiving
  <2>3. CopiesOK' /\ SourcesOK'
    BY DEF CopiesOK, SourcesOK, Copied, Restored, TypeOK, Archiving
  <2>4. FilesOK'
    BY DEF FilesOK, TypeOK
  <2>5. NothingLost' /\ DeletedIsGone'
    BY DEF NothingLost, DeletedIsGone, TypeOK, CopiesOK, Restored
  <2> QED BY <2>1, <2>2, <2>3, <2>4, <2>5
<1>6. ASSUME NEW s \in Sessions, MoveFails(s) PROVE ArchiveInv'
  <2> USE <1>6 DEF MoveFails, Running, Ends, Released, InTheWay
  <2>1. PICK n \in 0..archive[s] : source' = [source EXCEPT ![s] = n]
    OBVIOUS
  <2>2. n \in Nat /\ n <= archive[s] /\ archive[s] \in 0..MaxMessages /\ n \in File
    BY <2>1, ArchiveBounds DEF TypeOK, File
  <2>3. s \in todo /\ index[s] = "moved"
    BY DEF IndexOK
  <2>0. /\ queue' \in Seq(Jobs)
        /\ JobOK' /\ QueueOK' /\ DataOK' /\ IndexOK' /\ CopiesOK' /\ SourcesOK'
        /\ leftover' \subseteq Sessions /\ leftover \subseteq leftover' /\ faults' \in Nat
    <3>1. source' \in [Sessions -> File] /\ \A q \in Sessions : index[q] = "legacy" => source'[q] = source[q]
      BY <2>1, <2>2, <2>3 DEF TypeOK
    <3> QED BY <3>1, FaultStep
  <2>4. TypeOK'
    BY <2>0, <2>1, <2>2 DEF TypeOK, Jobs, Steps
  <2>5. FilesOK'
    BY <2>1, <2>2 DEF FilesOK, TypeOK
  <2>6. archive[s] = said[s] \/ s \in doomed \cup spoiled
    BY NoneIsNoFile DEF NothingLost, TypeOK
  <2>7. NothingLost' /\ DeletedIsGone'
    BY <2>0, <2>1, <2>3, <2>6 DEF NothingLost, DeletedIsGone, TypeOK
  <2> QED BY <2>0, <2>4, <2>5, <2>7
<1> QED BY <1>1, <1>2, <1>3, <1>4, <1>5, <1>6

\* deleteArchivedMany(): the copies go before the records.
LEMMA DeletingStep ==
  ASSUME ArchiveInv,
         StartDelete \/ DeleteWritten \/ \E s \in Sessions : Discard(s)
  PROVE  ArchiveInv'
<1> USE DEF ArchiveInv
<1>0. queue # <<>> => /\ Job.kind \in Kinds /\ Job.targets \in SUBSET Sessions
                      /\ Job.kind = "delete" => \A s \in Job.targets : index[s] # "legacy"
  BY QueueType, QueueFacts DEF Jobs, QueueOK
<1>1. CASE StartDelete
  <2> USE <1>1 DEF StartDelete, Running, files
  <2>1. CASE todo' = {}
    <3>1. /\ queue' \in Seq(Jobs)
          /\ JobOK' /\ QueueOK' /\ DataOK' /\ IndexOK' /\ CopiesOK'
      BY <2>1, IdleStep
    <3>2. TypeOK'
      BY <2>1, <3>1 DEF TypeOK, Jobs, Steps
    <3>3. SourcesOK'
      BY <2>1 DEF SourcesOK, Restored, JobOK
    <3> QED BY <2>1, <3>1, <3>2, <3>3 DEF FilesOK, NothingLost, DeletedIsGone
  <2>2. CASE todo' # {}
    <3>1. TypeOK'
      BY <1>0, <2>2 DEF TypeOK, Steps, Job
    <3>2. JobOK' /\ QueueOK' /\ DataOK' /\ IndexOK'
      BY <1>0, <2>2 DEF JobOK, QueueOK, DataOK, IndexOK, Copied, Archiving, Job
    <3>3. CopiesOK' /\ SourcesOK'
      BY <1>0, <2>2 DEF CopiesOK, SourcesOK, Copied, Restored, JobOK, Job
    <3> QED BY <2>2, <3>1, <3>2, <3>3 DEF FilesOK, NothingLost, DeletedIsGone
  <2> QED BY <2>1, <2>2
<1>2. CASE DeleteWritten
  <2> USE <1>2 DEF DeleteWritten, Running, Ends, Released, files
  <2>0. \A s \in Sessions : data[s] = index[s] /\ index'[s] = IF s \in Job.targets THEN "none" ELSE index[s]
    BY DEF DataOK, Copied, Job, Archiving
  <2>1. /\ queue' \in Seq(Jobs)
        /\ JobOK' /\ QueueOK' /\ DataOK' /\ IndexOK' /\ CopiesOK'
    BY <2>0, IdleStep
  <2>2. TypeOK'
    BY <2>1, <1>0 DEF TypeOK, Jobs, Steps, Index, Job
  <2>3. SourcesOK'
    BY <2>0 DEF SourcesOK, Restored, Job
  <2>4. NothingLost'
    BY <2>0 DEF NothingLost, IndexOK, Job
  <2>5. DeletedIsGone'
    <3>1. ASSUME NEW s \in Job.targets, index[s] # "none", s \notin leftover
          PROVE  source[s] = None /\ archive[s] = None
      <4>1. s \in Sessions /\ index[s] = "moved"
        BY <1>0, <3>1 DEF TypeOK, Index, Job
      <4> QED BY <3>1, <4>1 DEF CopiesOK, SourcesOK, Restored, Job
    <3> QED BY <1>0, <2>0, <3>1 DEF DeletedIsGone, Job
  <2> QED BY <2>1, <2>2, <2>3, <2>4, <2>5 DEF FilesOK
<1>3. ASSUME NEW s \in Sessions, Discard(s) PROVE ArchiveInv'
  <2> USE <1>3 DEF Discard, Running, history, Job
  <2>0. s \in doomed /\ data[s] = index[s]
    <3>1. data[s] = index[s]
      BY DEF DataOK, Copied, Archiving
    <3> QED BY <3>1 DEF IndexOK, JobOK
  <2>1. TypeOK'
    BY DEF TypeOK, File
  <2>2. JobOK' /\ QueueOK' /\ DataOK' /\ IndexOK'
    BY DEF JobOK, QueueOK, DataOK, IndexOK, Copied, Archiving
  <2>3. CopiesOK' /\ SourcesOK'
    BY <2>0 DEF CopiesOK, SourcesOK, Copied, Restored, TypeOK, Archiving, JobOK
  <2>4. FilesOK'
    BY DEF FilesOK, TypeOK
  <2>5. NothingLost' /\ DeletedIsGone'
    BY <2>0 DEF NothingLost, DeletedIsGone, TypeOK
  <2> QED BY <2>1, <2>2, <2>3, <2>4, <2>5
<1> QED BY <1>1, <1>2, <1>3

LEMMA FaultsStep ==
  ASSUME ArchiveInv, StepFails \/ Crash
  PROVE  ArchiveInv'
<1> USE DEF ArchiveInv
<1>1. source' = source /\ source \in [Sessions -> File] /\ UNCHANGED <<files, index, said, doomed, gone, spoiled>>
  BY DEF StepFails, Crash, files, TypeOK
<1>2. /\ queue' \in Seq(Jobs)
      /\ JobOK' /\ QueueOK' /\ DataOK' /\ IndexOK' /\ CopiesOK' /\ SourcesOK'
      /\ leftover' \subseteq Sessions /\ leftover \subseteq leftover' /\ faults' \in Nat
  BY <1>1, FaultStep DEF StepFails, Crash, Ends, Released
<1>3. TypeOK'
  BY <1>1, <1>2 DEF TypeOK, Jobs, Steps, StepFails, Crash, Ends, Released, files, NotReading
<1>4. FilesOK' /\ NothingLost' /\ DeletedIsGone'
  BY <1>1, <1>2 DEF FilesOK, NothingLost, DeletedIsGone, files
<1> QED BY <1>2, <1>3, <1>4

LEMMA ArchiveInductive == ArchiveInv /\ [Next]_vars => ArchiveInv'
<1> SUFFICES ASSUME ArchiveInv, [Next]_vars PROVE ArchiveInv'
  OBVIOUS
<1>1. CASE Operate
  BY <1>1, ArchivingStep, RestoringStep, DeletingStep, FaultsStep DEF Operate
<1>2. CASE UNCHANGED vars
  BY <1>2
     DEF vars, files, operation, history, ArchiveInv, TypeOK, JobOK, QueueOK, DataOK, IndexOK, CopiesOK,
         SourcesOK, FilesOK, NothingLost, DeletedIsGone, Copied, Restored, Job
<1> QED BY <1>1, <1>2, RequestsStep, ContinueStep, FaultsStep DEF Next

THEOREM ArchiveInvariant == Spec => []ArchiveInv
BY ArchiveInitially, ArchiveInductive, PTL DEF Spec

\* The types of the archive, its queue and the histories hold always.
THEOREM ArchiveTypeCorrect == Spec => []TypeOK
<1>1. ArchiveInv => TypeOK
  BY DEF ArchiveInv
<1> QED BY <1>1, ArchiveInvariant, PTL

\* Whatever step of an archive, restore or deletion fails or is the process's last, a
\* session's messages are all in its file or in the copy the index leads to, and what was
\* deleted is gone.
THEOREM ArchiveKeepsFiles == Spec => []FilesAreKept
<1>1. ArchiveInv => FilesAreKept
  BY DEF ArchiveInv, FilesAreKept
<1> QED BY <1>1, ArchiveInvariant, PTL

----------------------------------------------------------------------------
(* The migration.  The inductive invariant says what the plan still tells   *)
(* of the two places while an attempt runs, and where each record is once   *)
(* its legacy file may be gone.                                             *)

MigrationSpec == MigrationInit /\ [][MigrationNext]_migrationVars

Archives == (SUBSET Records) \cup {NoIndex}

MigrationTypeOK ==
  /\ legacyIndex \in Archives \ {{}} /\ legacyFiles \subseteq Records
  /\ indexState \in Archives /\ onDisk \in [Records -> {"none", "part", "whole"}]
  /\ planned.index \subseteq Records /\ planned.files \subseteq Records
  /\ owned \subseteq planned.files

\* Until the index is linked, an attempt can be undone.
Attempting == {"stages", "publishes", "checked", "undoes"}

IndexedAreWhole == indexState # NoIndex => \A r \in indexState : onDisk[r] = "whole"

\* The plan is the legacy index as it was found, which can only have grown since;
\* before the index is linked none of its files is taken by another record.
PlanHolds ==
  /\ stage \in Attempting \cup {"retires"} =>
       /\ planned.files = planned.index /\ planned.index # {} /\ planned.legacyDir
       /\ legacyIndex # NoIndex /\ planned.index \subseteq legacyIndex
  /\ stage \in Attempting =>
       planned.files \subseteq legacyFiles /\ planned.files \cap indexState = {}

CheckedAreWhole ==
  /\ stage = "checked" => \A r \in planned.files : onDisk[r] = "whole"
  /\ stage = "retires" => planned.files \subseteq indexState

\* A legacy record whose file is gone is in the destination.
RetiredAreMoved ==
  IF legacyIndex = NoIndex THEN indexState # NoIndex
  ELSE legacyDir /\ legacyIndex \subseteq legacyFiles \cup indexState

\* An archive the daemon began itself has no session of the legacy one.
OwnIsApart ==
  legacyIndex # NoIndex /\ legacyIndex \cap indexState = {} => legacyFiles \cap indexState = {}

MigrationInv ==
  /\ MigrationTypeOK /\ IndexedAreWhole /\ PlanHolds
  /\ CheckedAreWhole /\ RetiredAreMoved /\ OwnIsApart

\* A set of records is not the missing index, and is what the index lists.
LEMMA IndexFacts ==
  /\ NoIndex \notin SUBSET Records /\ NoIndex # {}
  /\ \A i \in SUBSET Records : InIndex(i) = i /\ i \cap NoIndex = {}
  /\ InIndex(NoIndex) = {}
BY RecordsAreSessions DEF NoIndex, InIndex

LEMMA MigrationInitially == MigrationInit => MigrationInv
BY IndexFacts
   DEF MigrationInit, MigrationInv, MigrationTypeOK, IndexedAreWhole, PlanHolds, CheckedAreWhole,
       RetiredAreMoved, OwnIsApart, Archives, Attempting, NoPlan

LEMMA MigrationInductive == MigrationInv /\ [MigrationNext]_migrationVars => MigrationInv'
<1> SUFFICES ASSUME MigrationInv, [MigrationNext]_migrationVars
             PROVE  MigrationInv'
  OBVIOUS
<1> USE IndexFacts
    DEF MigrationInv, MigrationTypeOK, IndexedAreWhole, PlanHolds, CheckedAreWhole,
        RetiredAreMoved, OwnIsApart, Archives, Attempting,
        migrationVars, legacy, destinationFiles, attempt
<1>1. CASE StartDaemon
  BY <1>1 DEF StartDaemon, Eligible, Plan, NoPlan
<1>2. CASE BeginPublishing
  BY <1>2 DEF BeginPublishing
<1>3. CASE CheckPlan
  BY <1>3 DEF CheckPlan, ReadyToCommit
<1>4. CASE LinkIndex
  BY <1>4 DEF LinkIndex
<1>5. CASE UndoDirectory
  BY <1>5 DEF UndoDirectory
<1>6. CASE RetireIndex
  <2>1. indexState # NoIndex
    BY <1>6 DEF RetireIndex
  <2>2. CASE DirectoryGone
    BY <1>6, <2>1, <2>2 DEF RetireIndex
  <2>3. CASE ~DirectoryGone
    BY <1>6, <2>3 DEF RetireIndex
  <2> QED BY <2>2, <2>3
<1>7. CASE KeepLegacy
  BY <1>7 DEF KeepLegacy
<1>8. ASSUME NEW r \in Records, Stage(r) PROVE MigrationInv'
  BY <1>8 DEF Stage
<1>9. ASSUME NEW r \in Records, PublishStarts(r) PROVE MigrationInv'
  BY <1>9 DEF PublishStarts
<1>10. ASSUME NEW r \in Records, PublishEnds(r) PROVE MigrationInv'
  BY <1>10 DEF PublishEnds
<1>11. ASSUME NEW r \in Records, Undo(r) PROVE MigrationInv'
  BY <1>11 DEF Undo
<1>12. ASSUME NEW r \in Records, RetireFile(r) PROVE MigrationInv'
  BY <1>12 DEF RetireFile
<1>13. CASE Fails
  BY <1>13 DEF Fails
<1>14. CASE Die
  BY <1>14 DEF Die, NoPlan
<1>15. ASSUME NEW r \in Records, ArchiveHere(r) PROVE MigrationInv'
  BY <1>15 DEF ArchiveHere
<1>16. ASSUME NEW r \in Records, LegacyCopies(r) PROVE MigrationInv'
  BY <1>16 DEF LegacyCopies, InIndex, Present
<1>17. ASSUME NEW r \in Records, LegacyLists(r) PROVE MigrationInv'
  BY <1>17 DEF LegacyLists
<1>18. CASE UNCHANGED migrationVars
  BY <1>18
<1> QED BY <1>1, <1>2, <1>3, <1>4, <1>5, <1>6, <1>7, <1>8, <1>9, <1>10, <1>11, <1>12, <1>13,
           <1>14, <1>15, <1>16, <1>17, <1>18 DEF MigrationNext, Attempt

\* A step of the migration is a step of the move, or changes neither place:
\* the index is published over nothing, the legacy archive is given up for the
\* one at the destination, and what the two programs archive meanwhile is neither.
LEMMA MigrationRefines ==
  MigrationInv /\ MigrationInv' /\ [MigrationNext]_migrationVars
    => [AtomicMove!MoveNext]_(AtomicMove!moveVars)
<1> SUFFICES ASSUME MigrationInv, MigrationInv', [MigrationNext]_migrationVars
             PROVE  [AtomicMove!MoveNext]_(AtomicMove!moveVars)
  OBVIOUS
<1> DEFINE LegacyWhole == legacyIndex # NoIndex /\ InIndex(legacyIndex) \subseteq legacyFiles
           Source == IF LegacyWhole THEN "archive" ELSE "retired"
           Own == legacyIndex # NoIndex /\ indexState \cap legacyIndex = {}
           Destination ==
             IF indexState = NoIndex THEN "nothing" ELSE IF Own THEN "own" ELSE "archive"
<1>1. AtomicMove!moveVars = <<Destination, Source>> /\ (AtomicMove!moveVars)' = <<Destination', Source'>>
  BY DEF AtomicMove!moveVars, MigrationInv, IndexedAreWhole
<1>2. /\ Destination = "nothing" /\ Destination' = "archive" /\ Source' = Source
         => AtomicMove!Publish
      /\ Destination = "archive" /\ Source = "archive" /\ Source' = "retired" /\ Destination' = Destination
         => AtomicMove!Retire
      /\ Destination = "nothing" /\ Destination' = "own" /\ Source' = Source
         => AtomicMove!BeginOwn
  BY DEF AtomicMove!Publish, AtomicMove!Retire, AtomicMove!BeginOwn, MigrationInv, IndexedAreWhole
<1>3. \/ Destination = "nothing" /\ Destination' = "archive" /\ Source' = Source
      \/ Destination = "archive" /\ Source = "archive" /\ Source' = "retired" /\ Destination' = Destination
      \/ Destination = "nothing" /\ Destination' = "own" /\ Source' = Source
      \/ UNCHANGED <<Destination, Source>>
  <2> USE IndexFacts DEF MigrationInv, MigrationTypeOK, Archives
  <2>1. ASSUME UNCHANGED <<legacyIndex, legacyFiles, indexState>>
        PROVE  UNCHANGED <<Destination, Source>>
    BY <2>1
  <2>2. CASE LinkIndex
    <3>1. CASE indexState = NoIndex
      BY <2>2, <3>1 DEF LinkIndex, PlanHolds, Attempting, legacy
    <3>2. CASE indexState # NoIndex
      BY <2>1, <2>2, <3>2 DEF LinkIndex, legacy
    <3> QED BY <3>1, <3>2
  <2>3. stage = "retires" => Destination = "archive"
    BY DEF PlanHolds, CheckedAreWhole
  <2>4. ASSUME NEW r \in Records, RetireFile(r)
        PROVE  Destination' = Destination /\ (Source' = "retired" \/ Source' = Source)
    BY <2>4 DEF RetireFile, destinationFiles
  <2>5. CASE RetireIndex
    BY <2>3, <2>5 DEF RetireIndex, destinationFiles
  <2>6. ASSUME NEW r \in Records, ArchiveHere(r)
        PROVE  /\ Source' = Source
               /\ Destination' = Destination \/ (Destination = "nothing" /\ Destination' \in {"own", "archive"})
    BY <2>6 DEF ArchiveHere, legacy
  <2>7. ASSUME NEW r \in Records, LegacyCopies(r)
        PROVE  UNCHANGED <<Destination, Source>>
    BY <2>7 DEF LegacyCopies, destinationFiles
  <2>8. ASSUME NEW r \in Records, LegacyLists(r)
        PROVE  UNCHANGED <<Destination, Source>>
    BY <2>8 DEF LegacyLists, destinationFiles, OwnIsApart
  <2>9. ASSUME NEW r \in Records, RetireFile(r) PROVE stage = "retires"
    BY <2>9 DEF RetireFile
  <2> HIDE DEF Destination, Source
  <2>10. CASE \E r \in Records : RetireFile(r) \/ ArchiveHere(r) \/ LegacyCopies(r) \/ LegacyLists(r)
    <3>1. Source \in {"archive", "retired"}
      BY DEF Source
    <3> QED BY <2>3, <2>4, <2>6, <2>7, <2>8, <2>9, <2>10, <3>1
  <2>11. CASE StartDaemon \/ BeginPublishing \/ CheckPlan \/ UndoDirectory \/ KeepLegacy \/ Fails \/ Die
    BY <2>1, <2>11 DEF StartDaemon, BeginPublishing, CheckPlan, UndoDirectory, KeepLegacy, Fails, Die,
                       legacy, destinationFiles
  <2>12. CASE \E r \in Records : Stage(r) \/ PublishStarts(r) \/ PublishEnds(r) \/ Undo(r)
    BY <2>1, <2>12 DEF Stage, PublishStarts, PublishEnds, Undo, legacy, destinationFiles
  <2>13. CASE UNCHANGED migrationVars
    BY <2>1, <2>13 DEF migrationVars, legacy, destinationFiles
  <2> QED BY <2>2, <2>5, <2>10, <2>11, <2>12, <2>13 DEF MigrationNext, Attempt
<1> HIDE DEF Destination, Source
<1> QED BY <1>1, <1>2, <1>3 DEF AtomicMove!MoveNext

\* A listed record stays where it is readable, or its legacy file goes once the
\* destination has it.
LEMMA MigrationKeeps ==
  MigrationInv /\ MigrationInv' /\ [MigrationNext]_migrationVars
    => \A r \in InIndex(legacyIndex) \cup InIndex(indexState) :
         \/ r \in InIndex(legacyIndex') \cap legacyFiles'
         \/ r \in InIndex(indexState') /\ onDisk'[r] = "whole"
<1> SUFFICES ASSUME MigrationInv, MigrationInv', [MigrationNext]_migrationVars,
                    NEW r \in InIndex(legacyIndex) \cup InIndex(indexState)
             PROVE  \/ r \in InIndex(legacyIndex') \cap legacyFiles'
                    \/ r \in InIndex(indexState') /\ onDisk'[r] = "whole"
  OBVIOUS
<1> USE IndexFacts DEF MigrationInv, MigrationTypeOK, Archives
<1>1. r \in InIndex(indexState) => r \in InIndex(indexState')
  BY DEF MigrationNext, Attempt, StartDaemon, BeginPublishing, CheckPlan, LinkIndex, UndoDirectory,
         RetireIndex, KeepLegacy, Stage, PublishStarts, PublishEnds, Undo, RetireFile, Fails, Die,
         ArchiveHere, LegacyCopies, LegacyLists, migrationVars, legacy, destinationFiles, Plan
<1>2. r \in InIndex(indexState') => onDisk'[r] = "whole"
  BY DEF IndexedAreWhole
<1>3. CASE r \in InIndex(indexState)
  BY <1>1, <1>2, <1>3
<1>4. CASE r \notin InIndex(indexState)
  <2>1. legacyIndex # NoIndex /\ r \in legacyIndex /\ r \in legacyFiles
    BY <1>4 DEF RetiredAreMoved
  <2>2. CASE RetireIndex
    <3>1. CASE DirectoryGone
      BY <2>1, <2>2, <3>1 DEF RetireIndex, DirectoryGone, PlanHolds
    <3>2. CASE ~DirectoryGone
      BY <2>1, <2>2, <3>2 DEF RetireIndex
    <3> QED BY <3>1, <3>2
  <2>3. ASSUME NEW q \in Records, RetireFile(q)
        PROVE  legacyIndex' = legacyIndex /\ r \in legacyFiles'
    BY <1>4, <2>1, <2>3 DEF RetireFile, CheckedAreWhole
  <2>4. CASE ~RetireIndex /\ ~(\E q \in Records : RetireFile(q))
    BY <2>1, <2>4
       DEF MigrationNext, Attempt, StartDaemon, BeginPublishing, CheckPlan, LinkIndex, UndoDirectory,
           KeepLegacy, Stage, PublishStarts, PublishEnds, Undo, Fails, Die,
           ArchiveHere, LegacyCopies, LegacyLists, migrationVars, legacy, destinationFiles
  <2> QED BY <2>1, <2>2, <2>3, <2>4
<1> QED BY <1>3, <1>4

LEMMA MoveInitially == MigrationInit => AtomicMove!MoveInit
BY IndexFacts DEF MigrationInit, AtomicMove!MoveInit

\* However often the migration fails or its process dies, readers of the destination see
\* no archive or the whole of it, the legacy archive is given up after that, and every
\* record an index lists has its file in one of the two places.
THEOREM ArchiveMovesAtomically == MigrationSpec => MovesAtomically
<1>1. MigrationSpec => []MigrationInv
  BY MigrationInitially, MigrationInductive, PTL DEF MigrationSpec
<1>2. MigrationSpec => RefinesArchiveMove
  BY <1>1, MoveInitially, MigrationRefines, PTL DEF MigrationSpec, RefinesArchiveMove, AtomicMove!MoveSpec
<1>3. MigrationSpec => NoRecordLost
  <2>1. MigrationInv /\ MigrationInv' /\ [MigrationNext]_migrationVars
          => [\A r \in InIndex(legacyIndex) \cup InIndex(indexState) :
                \/ r \in InIndex(legacyIndex') \cap legacyFiles'
                \/ r \in InIndex(indexState') /\ onDisk'[r] = "whole"]_migrationVars
    BY MigrationKeeps
  <2> QED BY <1>1, <2>1, PTL DEF MigrationSpec, NoRecordLost
<1> QED BY <1>2, <1>3 DEF MovesAtomically
============================================================================
