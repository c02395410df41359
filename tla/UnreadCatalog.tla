--------------------------- MODULE UnreadCatalog ---------------------------
(***************************************************************************)
(* The unread-completion catalog of the session daemon: SessionUnreadStore *)
(* (sessionUnreadStore.ts), its file, and the publication of its mutations *)
(* by PiSessionService (piSessionService.ts).                              *)
(*                                                                         *)
(* A session that was active and becomes inactive is unread under the next *)
(* completion order, until a client acknowledges that order.  Mutations    *)
(* are saved by one worker that coalesces them, and sent to clients by one *)
(* publication at a time, after a flush.  Saves may fail, the process may  *)
(* die at any point, and the file may be lost or corrupted while it is     *)
(* down, which starts a new catalog identity.                              *)
(***************************************************************************)
EXTENDS Naturals, Sequences, FiniteSets

CONSTANTS
  Sessions,    \* (sessionId, cwd) identities, all of one cwd
  Limit,       \* SESSION_UNREAD_LIMIT
  MaxPending,  \* MAX_PENDING_UNREAD_MUTATIONS
  MaxRuns,     \* bound: completions explored
  MaxFaults,   \* bound: failed saves and deaths explored
  MaxIds,      \* bound: catalog identities explored
  None         \* "no such entry", "no snapshot", "no file"

ASSUME LimitsAssumption ==
  /\ Limit \in Nat \ {0} /\ MaxPending \in Nat \ {0}
  /\ MaxRuns \in Nat /\ MaxFaults \in Nat /\ MaxIds \in Nat
ASSUME SessionsAreFinite == IsFiniteSet(Sessions)

VARIABLES
  phase,       \* "down", "loading" (saving a fresh catalog) or "up"
  catalog,     \* the catalog in memory: catalogId, catalogRevision, nextCompletionOrder, unreadByIdentity
  active,      \* SessionUnreadStore.activeByIdentity
  excluded,    \* SessionUnreadStore.excludedByIdentity
  pending,     \* SessionUnreadStore.pendingPersistence: the snapshot to save next
  saving,      \* the snapshot the persistence worker is writing; None when there is no worker
  failed,      \* SessionUnreadStore.persistenceFailure # undefined
  disk,        \* the file
  publication, \* PiSessionService.unreadPublication: "idle" or where its flush stands
  batch,       \* the mutations that flush is for
  queue,       \* PiSessionService.pendingUnreadMutations
  requested,   \* PiSessionService.unreadPublicationFlushRequested
  retryTimer,  \* PiSessionService.unreadPublicationRetryTimer # undefined
  request,     \* the client's GET or acknowledgement in progress
  seen,        \* history: the completions clients were told of, in snapshots or events
  published,   \* history: the events sent, in order
  acked,       \* history: the observations whose acknowledgement was answered
  runs, faults, ids  \* history: completions, faults and catalog identities so far

store == <<catalog, active, excluded>>
persistence == <<pending, saving, failed>>
publishing == <<publication, batch, queue, requested, retryTimer>>
told == <<seen, published, acked>>
vars == <<phase, store, persistence, disk, publishing, request, told, runs, faults, ids>>

Entry == [order : Nat, run : Nat]
Catalog == [id : Nat, revision : Nat, order : Nat, unread : [Sessions -> Entry \cup {None}]]
Event == [id : Nat, revision : Nat, session : Sessions, unread : Entry \cup {None}]
Observation == [id : Nat, session : Sessions, order : Nat, run : Nat]

ASSUME NoneAssumption == None \notin Entry \cup Catalog \cup Observation

TypeOK ==
  /\ phase \in {"down", "loading", "up"}
  /\ catalog \in Catalog
  /\ active \subseteq Sessions /\ excluded \subseteq Sessions
  /\ pending \in Catalog \cup {None} /\ saving \in Catalog \cup {None} /\ failed \in BOOLEAN
  /\ disk \in Catalog \cup {None}
  /\ publication \in {"idle", "wait", "retry"}
  /\ batch \in Seq(Event) /\ queue \in Seq(Event) /\ Len(queue) <= MaxPending
  /\ requested \in BOOLEAN /\ retryTimer \in BOOLEAN
  /\ request \in [step : {"idle", "publish", "wait", "retry"}, ack : Observation \cup {None}]
  /\ seen \subseteq Observation /\ published \in Seq(Event) /\ acked \subseteq Observation
  /\ runs \in Nat /\ faults \in Nat /\ ids \in Nat

----------------------------------------------------------------------------
(* The store *)

Empty(id) == [id |-> id, revision |-> 0, order |-> 0, unread |-> [s \in Sessions |-> None]]

Unread(c) == {s \in Sessions : c.unread[s] # None}

Observations(c) ==
  {[id |-> c.id, session |-> s, order |-> c.unread[s].order, run |-> c.unread[s].run] :
     s \in Unread(c)}

\* Take the sessions R out of c, in completion order, one revision each.
Without(c, R) ==
  [c EXCEPT !.revision = @ + Cardinality(R),
            !.unread = [s \in Sessions |-> IF s \in R THEN None ELSE @[s]]]
Removals(c, R) ==
  [i \in 1..Cardinality(R) |->
     [id |-> c.id, revision |-> c.revision + i, unread |-> None,
      session |-> CHOOSE s \in R :
        Cardinality({r \in R : c.unread[r].order <= c.unread[s].order}) = i]]

\* Variant: the next order is read off the sessions that are unread.
NextOrderOfUnread(c) ==
  1 + Cardinality(UNION {0..(c.unread[s].order - 1) : s \in Unread(c)})

\* incrementSafe(nextCompletionOrder)
NextOrder(c) == c.order + 1

\* Session s completes: it is unread under the next order.
Completed(c, s, run) ==
  [c EXCEPT !.revision = @ + 1, !.order = NextOrder(c),
            !.unread[s] = [order |-> NextOrder(c), run |-> run]]
Completion(c, s, run) ==
  <<[id |-> c.id, revision |-> c.revision + 1, session |-> s,
     unread |-> [order |-> NextOrder(c), run |-> run]]>>

\* trimToLimit(): the oldest entries past the limit.
OverLimit(c) ==
  {s \in Unread(c) :
     Cardinality({r \in Unread(c) : c.unread[r].order > c.unread[s].order}) >= Limit}

\* After a failed save: a newer pending snapshot subsumes it.
SnapshotToRetry(failedSave) == IF pending = None THEN failedSave ELSE pending

\* schedulePersist(): the worker, or the next flush after a failure, saves c.
SchedulePersist(c) ==
  /\ UNCHANGED failed
  /\ IF saving = None /\ ~failed
     THEN saving' = c /\ pending' = None
     ELSE pending' = c /\ UNCHANGED saving

\* parsePersistedState(): what the daemon accepts when it starts.
Parses(c) ==
  /\ Cardinality(Unread(c)) <= Limit
  /\ \A s, r \in Unread(c) : c.unread[s].order = c.unread[r].order => s = r
  /\ \A s \in Unread(c) : c.unread[s].order <= c.order
  /\ c.order <= c.revision

----------------------------------------------------------------------------
(* Publication *)

\* Variant: the backlog has no bound.
Untrimmed(q) == q

\* trimPendingUnreadMutations(): the oldest are dropped.
Trimmed(q) == IF Len(q) > MaxPending THEN SubSeq(q, Len(q) - MaxPending + 1, Len(q)) ELSE q

\* The publication takes the mutations q and waits for a flush.
Drain(q) ==
  /\ batch' = q /\ queue' = <<>> /\ requested' = FALSE /\ publication' = "wait"
  /\ UNCHANGED retryTimer

\* publishUnreadMutations(events); Rejected says its caller is refused.
Rejected == publication = "idle" /\ retryTimer
Publish(events) ==
  IF publication = "idle" /\ ~retryTimer
  THEN Drain(Trimmed(queue \o events))
  ELSE /\ queue' = Trimmed(queue \o events) /\ requested' = TRUE
       /\ UNCHANGED <<publication, batch, retryTimer>>

\* Variant: a flush is over as soon as nothing is being written.
FlushIdle == saving = None

\* Variant: a flush does not retry a snapshot that failed before.
FlushRetriesUnlessFailed(step) == step = "wait" /\ saving = None /\ pending # None /\ ~failed

\* Where a flush stands: clean, about to try once more, or failed.
FlushClean == saving = None /\ pending = None
FlushRetries(step) == step = "wait" /\ saving = None /\ pending # None
FlushFailed(step) == step = "retry" /\ saving = None /\ failed

StartWorker == saving' = pending /\ pending' = None /\ UNCHANGED failed

\* Every mutation of the store is saved and published this way.
Mutate(c, events) ==
  /\ catalog' = c
  /\ IF events = <<>> THEN UNCHANGED persistence ELSE SchedulePersist(c)
  /\ Publish(events)

----------------------------------------------------------------------------
(* What happens to sessions *)

\* observeActivityState(s, active = TRUE)
BecomesActive(s) ==
  /\ phase = "up" /\ s \notin active \cup excluded /\ runs < MaxRuns
  /\ active' = active \cup {s}
  /\ UNCHANGED <<phase, catalog, excluded, persistence, disk, publishing, request, told,
                 runs, faults, ids>>

\* observeActivityState(s, active = FALSE) of a latched session
Completes(s) ==
  /\ phase = "up" /\ s \in active /\ runs < MaxRuns
  /\ active' = active \ {s}
  /\ runs' = runs + 1
  /\ LET done == Completed(catalog, s, runs + 1)
         over == OverLimit(done) IN
     Mutate(Without(done, over), Completion(catalog, s, runs + 1) \o Removals(done, over))
  /\ UNCHANGED <<phase, excluded, disk, request, told, faults, ids>>

\* forgetActivity(): the runtime of s closes or is rebound.
Closes(s) ==
  /\ phase = "up" /\ s \in active
  /\ active' = active \ {s}
  /\ UNCHANGED <<phase, catalog, excluded, persistence, disk, publishing, request, told,
                 runs, faults, ids>>

\* excludeSession(): s turns out to be a tracked sub-session.
Exclude(s) ==
  /\ phase = "up" /\ s \notin excluded
  /\ excluded' = excluded \cup {s}
  /\ active' = active \ {s}
  /\ LET gone == Unread(catalog) \cap {s} IN
     Mutate(Without(catalog, gone), Removals(catalog, gone))
  /\ UNCHANGED <<phase, disk, request, told, runs, faults, ids>>

\* forgetSession() of an archived, deleted or detached session, or
\* reconcileCwd() with the sessions that are left.
Forget(R) ==
  /\ phase = "up" /\ R \cap (Unread(catalog) \cup active \cup excluded) # {}
  /\ active' = active \ R /\ excluded' = excluded \ R
  /\ LET gone == Unread(catalog) \cap R IN
     Mutate(Without(catalog, gone), Removals(catalog, gone))
  /\ UNCHANGED <<phase, disk, request, told, runs, faults, ids>>

----------------------------------------------------------------------------
(* Clients *)

\* Variant: any completion of the session is acknowledged.
AnyUnread(o) == catalog.id = o.id /\ catalog.unread[o.session] # None

\* acknowledge(): the session is still at, or before, the observed completion.
Acknowledges(o) ==
  /\ catalog.id = o.id
  /\ catalog.unread[o.session] # None
  /\ catalog.unread[o.session].order <= o.order

\* A request joins the publication, or is refused while a retry is due.
Join(o) == request' = IF Rejected THEN [step |-> "idle", ack |-> None]
                      ELSE [step |-> "publish", ack |-> o]

\* unreadCatalog()
ReadCatalog ==
  /\ phase = "up" /\ request.step = "idle"
  /\ Publish(<<>>)
  /\ Join(None)
  /\ UNCHANGED <<phase, store, persistence, disk, told, runs, faults, ids>>

\* acknowledgeUnread() of a completion the client was told of
Acknowledge(o) ==
  /\ phase = "up" /\ request.step = "idle"
  /\ LET gone == IF Acknowledges(o) THEN {o.session} ELSE {} IN
     Mutate(Without(catalog, gone), Removals(catalog, gone))
  /\ Join(o)
  /\ UNCHANGED <<phase, active, excluded, disk, told, runs, faults, ids>>

\* durableCatalogSnapshot() retries a failed save once...
RequestRetries ==
  /\ FlushRetries(request.step)
  /\ request' = [request EXCEPT !.step = "retry"]
  /\ StartWorker
  /\ UNCHANGED <<phase, store, disk, publishing, told, runs, faults, ids>>

\* ... answers with the catalog of that moment once it is durable ...
RequestAnswered ==
  /\ request.step \in {"wait", "retry"} /\ FlushClean
  /\ request' = [step |-> "idle", ack |-> None]
  /\ seen' = seen \cup Observations(catalog)
  /\ acked' = acked \cup ({request.ack} \ {None})
  /\ UNCHANGED <<phase, store, persistence, disk, publishing, published, runs, faults, ids>>

\* ... or fails.
RequestFails ==
  /\ FlushFailed(request.step)
  /\ request' = [step |-> "idle", ack |-> None]
  /\ UNCHANGED <<phase, store, persistence, disk, publishing, told, runs, faults, ids>>

----------------------------------------------------------------------------
(* The publication's steps *)

PublicationRetries ==
  /\ FlushRetries(publication)
  /\ publication' = "retry"
  /\ StartWorker
  /\ UNCHANGED <<phase, store, disk, batch, queue, requested, retryTimer, request, told,
                 runs, faults, ids>>

\* The flush is over: send the batch, and go on with what came in meanwhile.
PublicationSends ==
  /\ publication \in {"wait", "retry"} /\ FlushClean
  /\ LET sent == {batch[i] : i \in 1..Len(batch)} IN
     /\ published' = published \o batch
     /\ seen' = seen \cup {[id |-> e.id, session |-> e.session, order |-> e.unread.order,
                            run |-> e.unread.run] : e \in {x \in sent : x.unread # None}}
  /\ IF requested \/ queue # <<>>
     THEN Drain(queue) /\ UNCHANGED request
     ELSE /\ publication' = "idle" /\ batch' = <<>>
          /\ request' = IF request.step = "publish" THEN [request EXCEPT !.step = "wait"]
                        ELSE request
          /\ UNCHANGED <<queue, requested, retryTimer>>
  /\ UNCHANGED <<phase, store, persistence, disk, acked, runs, faults, ids>>

\* Variants: the batch goes back behind what came in, or no timer is set.
PutBackLast == Trimmed(queue \o batch)
NoRetryScheduled == UNCHANGED retryTimer

\* prependUnreadMutations() and scheduleUnreadPublicationRetry()
PutBack == Trimmed(batch \o queue)
RetryScheduled == retryTimer' = TRUE

\* The flush failed: the batch goes back to the front, and a timer is set.
PublicationFails ==
  /\ FlushFailed(publication)
  /\ publication' = "idle" /\ batch' = <<>>
  /\ queue' = PutBack /\ requested' = TRUE /\ RetryScheduled
  /\ request' = IF request.step = "publish" THEN [step |-> "idle", ack |-> None] ELSE request
  /\ UNCHANGED <<phase, store, persistence, disk, told, runs, faults, ids>>

RetryFires ==
  /\ phase = "up" /\ retryTimer
  /\ retryTimer' = FALSE
  /\ batch' = queue /\ queue' = <<>> /\ requested' = FALSE /\ publication' = "wait"
  /\ UNCHANGED <<phase, store, persistence, disk, request, told, runs, faults, ids>>

----------------------------------------------------------------------------
(* The file and the process *)

\* The worker saved its snapshot and goes on with the pending one.
SaveSucceeds ==
  /\ saving # None
  /\ disk' = saving
  /\ saving' = pending /\ pending' = None /\ failed' = FALSE
  /\ phase' = "up"
  /\ UNCHANGED <<store, publishing, request, told, runs, faults, ids>>

\* A failed save ends the worker; while loading it ends the process.
SaveFails ==
  /\ saving # None /\ faults < MaxFaults
  /\ faults' = faults + 1
  /\ saving' = None
  /\ IF phase = "loading"
     THEN phase' = "down" /\ UNCHANGED <<pending, failed>>
     ELSE /\ pending' = SnapshotToRetry(saving) /\ failed' = TRUE
          /\ UNCHANGED phase
  /\ UNCHANGED <<store, disk, publishing, request, told, runs, ids>>

\* The process dies; the rename of a save in progress may have happened.
Crash ==
  /\ phase # "down" /\ faults < MaxFaults
  /\ faults' = faults + 1
  /\ phase' = "down"
  /\ disk' \in {disk} \cup (IF saving = None THEN {} ELSE {saving})
  /\ catalog' = Empty(0) /\ active' = {} /\ excluded' = {}
  /\ pending' = None /\ saving' = None /\ failed' = FALSE
  /\ publication' = "idle" /\ batch' = <<>> /\ queue' = <<>>
  /\ requested' = FALSE /\ retryTimer' = FALSE
  /\ request' = [step |-> "idle", ack |-> None]
  /\ UNCHANGED <<told, runs, ids>>

\* Somebody deletes the file, or it is found corrupt.
FileLost ==
  /\ phase = "down" /\ disk # None /\ ids < MaxIds
  /\ disk' = None
  /\ UNCHANGED <<phase, store, persistence, publishing, request, told, runs, faults, ids>>

\* load(): the saved catalog, or a new one that is saved first.
Boot ==
  /\ phase = "down"
  /\ IF disk # None /\ Parses(disk)
     THEN /\ catalog' = disk /\ phase' = "up"
          /\ UNCHANGED <<saving, ids>>
     ELSE /\ ids < MaxIds
          /\ ids' = ids + 1
          /\ catalog' = Empty(ids + 1) /\ saving' = Empty(ids + 1) /\ phase' = "loading"
  /\ UNCHANGED <<active, excluded, pending, failed, disk, publishing, request, told, runs, faults>>

----------------------------------------------------------------------------

Init ==
  /\ phase = "down" /\ catalog = Empty(0) /\ active = {} /\ excluded = {}
  /\ pending = None /\ saving = None /\ failed = FALSE /\ disk = None
  /\ publication = "idle" /\ batch = <<>> /\ queue = <<>>
  /\ requested = FALSE /\ retryTimer = FALSE
  /\ request = [step |-> "idle", ack |-> None]
  /\ seen = {} /\ published = <<>> /\ acked = {}
  /\ runs = 0 /\ faults = 0 /\ ids = 0

Next ==
  \/ \E s \in Sessions : BecomesActive(s) \/ Completes(s) \/ Closes(s) \/ Exclude(s)
  \/ \E R \in SUBSET Sessions : Forget(R)
  \/ ReadCatalog
  \/ \E o \in seen : Acknowledge(o)
  \/ RequestRetries \/ RequestAnswered \/ RequestFails
  \/ PublicationRetries \/ PublicationSends \/ PublicationFails \/ RetryFires
  \/ SaveSucceeds \/ SaveFails \/ Crash \/ FileLost \/ Boot

\* Writes end, promises resolve and timers fire; nothing is assumed of
\* sessions, clients, faults and restarts.
Fairness ==
  /\ WF_vars(SaveSucceeds \/ SaveFails)
  /\ WF_vars(RequestRetries \/ RequestAnswered \/ RequestFails)
  /\ WF_vars(PublicationRetries \/ PublicationSends \/ PublicationFails)
  /\ WF_vars(RetryFires)

Spec == Init /\ [][Next]_vars
FairSpec == Spec /\ Fairness

----------------------------------------------------------------------------
(* Properties *)

\* Within a catalog identity a completion order stands for one completion,
\* whatever a client was told before a crash.
OrdersNeverReused ==
  \A x, y \in seen : (x.id = y.id /\ x.order = y.order) => x = y

\* Clients are told nothing that the file does not already account for.
ToldIsDurable ==
  disk # None =>
    /\ \A i \in 1..Len(published) :
         published[i].id = disk.id => published[i].revision <= disk.revision
    /\ \A o \in seen : o.id = disk.id => o.order <= disk.order

\* An answered acknowledgement is final: neither the daemon nor the file,
\* read by a later daemon, shows that completion as unread again.
AcknowledgedStays ==
  \A o \in acked, c \in {catalog, disk} \ {None} :
    (c.id = o.id /\ c.unread[o.session] # None) => c.unread[o.session].order > o.order

\* What clients were told, and what they acknowledged, is kept.
ToldIsKept == ToldIsDurable /\ AcknowledgedStays

\* An acknowledgement clears the completion it was made for and never one
\* that its client had not seen.
AcknowledgesOnlySeen ==
  [][\A o \in seen :
       (Acknowledge(o) /\ catalog.unread[o.session] # None /\ catalog'.unread[o.session] = None)
         => catalog.unread[o.session].run = o.run]_vars

\* Events leave in the order of their revisions, no revision twice, through
\* failed flushes that put a batch back and through crashes.
EventsInOrder ==
  \A i, j \in 1..Len(published) :
    (i < j /\ published[i].id = published[j].id) => published[i].revision < published[j].revision

\* Mutation r is in a batch or in the queue.
Waiting(r) ==
  \/ \E i \in 1..Len(batch) : batch[i].revision = r
  \/ \E i \in 1..Len(queue) : queue[i].revision = r

\* Every mutation is sent in the end, also after failed flushes put it back,
\* unless the bounded backlog drops it or the process dies: as completions are
\* bounded, a time comes when none waits.
MutationsGoOut == []<>(\A r \in 1..(2 * MaxRuns) : ~Waiting(r))

\* A client's request ends, in an answer or an error, unless mutations keep
\* the publication it waits for going for ever.
RequestsEnd == []<>(request.step = "idle") \/ []<>requested

\* Nothing that was asked for or is to be told waits for ever.
NothingIsOutstanding == MutationsGoOut /\ RequestsEnd
============================================================================
