------------------------- MODULE NotificationInbox -------------------------
(***************************************************************************)
(* The notification inboxes of the session daemon: SessionNotificationStore *)
(* (sessionNotificationStore.ts), as PiSessionService calls it when it      *)
(* opens, rebinds and closes session runtimes (piSessionService.ts).        *)
(*                                                                         *)
(* A runtime adds notifications under a generation.  While a runtime is    *)
(* replaced, for the same session or for another, there is a bucket for    *)
(* the active generation and one for the candidate; the replacement is     *)
(* committed, which drops the active bucket, or aborted, which merges both. *)
(* An inbox shows its newest Limit entries and counts those it discarded,  *)
(* and tells clients of every change by a delta under the next revision.   *)
(*                                                                         *)
(* A notification is its order; all sessions are of one cwd.               *)
(***************************************************************************)
EXTENDS Integers, Sequences, FiniteSets, FiniteSetsExt

CONSTANTS
  Sessions,
  Limit,     \* SESSION_NOTIFICATION_LIMIT
  MaxOrder,  \* bound: notifications added
  MaxGens,   \* bound: generations issued
  None       \* "no inbox", "no candidate", "no snapshot"


VARIABLES
  states,    \* the runtime states of statesBySessionId, with the ids they are under
  inbox,     \* each session's projection
  lastRevision, lastWatermark,  \* lastInboxRevisionBySessionId, lastOverflowWatermarkBySessionId
  nextOrder, gens,              \* notifications and generations so far
  disposed,  \* the service was disposed of
  events,    \* the mutations published by the last step
  snapshot,  \* for each session, what a client last read: its dismissThrough
  discards,  \* history: how many discards there were in all
  owed       \* history: the discards each inbox has to count, numbered, by generation

last == <<lastRevision, lastWatermark>>
issued == <<nextOrder, gens>>
vars == <<states, inbox, last, issued, disposed, events, snapshot, discards, owed>>

Orders == 1..MaxOrder
Gens == 1..MaxGens
Bucket == [gen : Gens, entries : SUBSET Orders, discarded : Nat]
Projection == [revision : Nat, watermark : Nat, buckets : Seq(Bucket)]
State == [gen : Gens, session : Sessions, candidate : Gens \cup {None}, target : Sessions \cup {None}]
Event == [session : Sessions, kind : {"added", "dismissed", "cleared", "resync"},
          added : SUBSET Orders, removed : SUBSET Orders, discarded : Nat,
          revision : Nat, watermark : Nat]

\* Variant: nothing is evicted.
All(entries) == entries

\* The entries that fit in a bucket, or in the inbox
Newest(entries) == {n \in entries : Cardinality({k \in entries : k > n}) < Limit}
Entries(p) == UNION {p.buckets[i].entries : i \in DOMAIN p.buckets}

\* retainedEntries(), discardedCount() and projectionFingerprint()
Retained(p) == Newest(Entries(p))
Discarded(p) == MapThenSumSet(LAMBDA i : p.buckets[i].discarded, DOMAIN p.buckets)
Visible(p) == [ids |-> Retained(p), discarded |-> Discarded(p)]
Nothing == [ids |-> {}, discarded |-> 0]

TypeOK ==
  /\ states \subseteq State
  /\ \A s \in Sessions : inbox[s] # None =>
       /\ inbox[s] \in Projection
       /\ \A i \in DOMAIN inbox[s].buckets : Cardinality(inbox[s].buckets[i].entries) <= Limit
  /\ lastRevision \in [Sessions -> Nat] /\ lastWatermark \in [Sessions -> Nat]
  /\ nextOrder \in 0..MaxOrder /\ gens \in 0..MaxGens
  /\ disposed \in BOOLEAN /\ events \in Seq(Event)
  /\ snapshot \in [Sessions -> [order : Nat, watermark : Nat, discards : Nat] \cup {None}]
  /\ discards \in Nat /\ owed \in [Sessions -> SUBSET [number : Nat, gen : Gens]]

ASSUME InboxAssumption ==
  /\ Limit \in Nat \ {0} /\ MaxOrder \in Nat /\ MaxGens \in Nat
  /\ None \notin Sessions \cup Gens \cup Projection

StatesOf(s) == {x \in states : s \in {x.session, x.target}}
EmptyBucket(g) == [gen |-> g, entries |-> {}, discarded |-> 0]

----------------------------------------------------------------------------
(* Mutations *)

\* mutation() of session s, whose projection becomes p
Mutation(s, kind, added, removed, p) ==
  [session |-> s, kind |-> kind, added |-> added, removed |-> removed,
   discarded |-> Discarded(p), revision |-> p.revision + 1, watermark |-> p.watermark]

\* The projection p after that mutation
Revised(p) == [p EXCEPT !.revision = @ + 1]

\* The step publishes the mutations es, at most one of a session.
Publish(es) ==
  /\ events' = es
  /\ LET of(s) == {i \in DOMAIN es : es[i].session = s} IN
     /\ lastRevision' = [s \in Sessions |->
          IF of(s) = {} THEN lastRevision[s] ELSE es[Max(of(s))].revision]
     /\ lastWatermark' = [s \in Sessions |->
          IF of(s) = {} THEN lastWatermark[s] ELSE es[Max(of(s))].watermark]

\* clearProjection()
Clear(s) ==
  IF inbox[s] # None /\ Visible(inbox[s]) # Nothing
  THEN <<Mutation(s, "cleared", {}, {}, [inbox[s] EXCEPT !.buckets = <<>>])>>
  ELSE <<>>

\* clearSession() of the state x: its mutations
ClearState(x) ==
  Clear(x.session) \o (IF x.target \in {None, x.session} THEN <<>> ELSE Clear(x.target))

----------------------------------------------------------------------------
(* Opening, rebinding and closing the runtime of a session *)

\* currentGeneration()
Current(s) == {x \in states : x.session = s /\ x.candidate = None}

\* Variant: a session registered again counts from zero.
FromZero(s) == [revision |-> 0, watermark |-> 0, buckets |-> <<EmptyBucket(gens + 1)>>]

\* A new projection goes on where the last one of its session ended.
Fresh(s) ==
  [revision |-> lastRevision'[s], watermark |-> lastWatermark'[s],
   buckets |-> <<EmptyBucket(gens + 1)>>]

\* The inbox p of a session that is replaced has a bucket for the candidate too.
Joined(p) == [p EXCEPT !.buckets = Append(@, EmptyBucket(gens + 1))]

NextGeneration == ~disposed /\ gens < MaxGens /\ gens' = gens + 1

\* beginReplacement() of the runtime of state x by one of session t
Begin(x, t) ==
  /\ NextGeneration
  /\ states' = (states \ {x}) \cup {[x EXCEPT !.candidate = gens + 1, !.target = t]}
  /\ Publish(<<>>)
  /\ inbox' = [inbox EXCEPT ![t] =
       IF t = x.session THEN Joined(@) ELSE Fresh(t)]
  /\ UNCHANGED <<nextOrder, disposed, snapshot, discards, owed>>

\* registerSession(): what is left under the id of s is cleared.
Register(s) ==
  /\ NextGeneration
  /\ LET old == StatesOf(s)
         left == {t \in Sessions : \E x \in old : t \in {x.session, x.target}} IN
     /\ states' = (states \ old) \cup
          {[gen |-> gens + 1, session |-> s, candidate |-> None, target |-> None]}
     /\ Publish(IF old = {} THEN <<>> ELSE ClearState(CHOOSE x \in old : TRUE))
     /\ inbox' = [t \in Sessions |->
          IF t = s THEN Fresh(s) ELSE IF t \in left THEN None ELSE inbox[t]]
     /\ owed' = [t \in Sessions |-> IF t \in left \cup {s} THEN {} ELSE owed[t]]
  /\ UNCHANGED <<nextOrder, disposed, snapshot, discards>>

\* create(): replace the current generation of s, or register s.
Open(s) ==
  \/ \E x \in Current(s) : Begin(x, s)
  \/ Current(s) = {} /\ Register(s)

\* Variant: any session can be the target.
AnyTarget(x, t) == TRUE

\* The target of a replacement is not registered by another runtime.
Free(x, t) == t = x.session \/ StatesOf(t) = {}

\* The rebind of a runtime: fork, import or tree navigation changes its session, reload does not.
Rebind(x, t) ==
  /\ x.candidate = None /\ Free(x, t)
  /\ Begin(x, t)

\* commitReplacement()
Commit(x) ==
  /\ x.candidate # None
  /\ states' = (states \ {x}) \cup
       {[gen |-> x.candidate, session |-> x.target, candidate |-> None, target |-> None]}
  /\ LET s == x.session
         p == inbox[s]
         kept == [p EXCEPT !.buckets = <<p.buckets[Len(p.buckets)]>>] IN
     IF s = x.target
     THEN /\ owed' = [owed EXCEPT ![s] = {o \in @ : o.gen = x.candidate}]
          /\ IF Visible(kept) = Visible(p)
             THEN inbox' = [inbox EXCEPT ![s] = kept] /\ Publish(<<>>)
             ELSE /\ inbox' = [inbox EXCEPT ![s] = Revised(kept)]
                  /\ Publish(<<Mutation(s, "resync", {}, {}, kept)>>)
     ELSE /\ inbox' = [inbox EXCEPT ![s] = None]
          /\ owed' = [owed EXCEPT ![s] = {}]
          /\ Publish(Clear(s))
  /\ UNCHANGED <<issued, disposed, snapshot, discards>>

\* What an aborted replacement discarded in all
MergedCount(old, new, overflow) == old.discarded + new.discarded + overflow

\* abortReplacement(): the merged entries go on under the prior or the candidate.
Abort(x, survivor) ==
  /\ x.candidate # None
  /\ LET same == x.session = x.target
         target == IF survivor = "prior" THEN x.session ELSE x.target
         source == IF survivor = "prior" THEN x.target ELSE x.session
         gen == IF survivor = "prior" THEN x.gen ELSE x.candidate
         old == inbox[x.session].buckets[1]
         new == inbox[x.target].buckets[Len(inbox[x.target].buckets)]
         merged == old.entries \cup new.entries
         overflow == Cardinality(merged \ Newest(merged))
         moved == IF same THEN 0 ELSE (IF survivor = "prior" THEN new ELSE old).discarded
         p == [inbox[target] EXCEPT
                 !.watermark = @ + moved + overflow,
                 !.buckets = <<[gen |-> gen, entries |-> Newest(merged),
                                discarded |-> MergedCount(old, new, overflow)]>>]
         changed == Visible(p) # Visible(inbox[target]) IN
     /\ states' = (states \ {x}) \cup
          {[gen |-> gen, session |-> target, candidate |-> None, target |-> None]}
     /\ inbox' = [s \in Sessions |->
          IF s = target THEN (IF changed THEN Revised(p) ELSE p)
          ELSE IF s = source THEN None ELSE inbox[s]]
     /\ Publish((IF same THEN <<>> ELSE Clear(source))
                \o (IF changed THEN <<Mutation(target, "resync", {}, {}, p)>> ELSE <<>>))
     /\ discards' = discards + moved + overflow
     /\ owed' = [s \in Sessions |->
          IF s = target
          THEN {[o EXCEPT !.gen = gen] : o \in owed[target]}
                 \cup {[number |-> n, gen |-> gen] : n \in (discards + 1)..discards'}
          ELSE IF s = source THEN {} ELSE owed[s]]
  /\ UNCHANGED <<issued, disposed, snapshot>>

\* clearSession(), clearGeneration(), clearSessionIdentity(): the runtime
\* closes, or its session is archived, restored or deleted.
Close(x) ==
  /\ states' = states \ {x}
  /\ Publish(ClearState(x))
  /\ inbox' = [s \in Sessions |-> IF s \in {x.session, x.target} THEN None ELSE inbox[s]]
  /\ owed' = [s \in Sessions |-> IF s \in {x.session, x.target} THEN {} ELSE owed[s]]
  /\ UNCHANGED <<issued, disposed, snapshot, discards>>

\* clearAll(): the service is disposed of.
Dispose ==
  /\ ~disposed /\ disposed' = TRUE
  /\ states' = {} /\ inbox' = [s \in Sessions |-> None] /\ owed' = [s \in Sessions |-> {}]
  /\ lastRevision' = [s \in Sessions |-> 0] /\ lastWatermark' = [s \in Sessions |-> 0]
  /\ events' = <<>>
  /\ UNCHANGED <<issued, snapshot, discards>>

----------------------------------------------------------------------------
(* Notifications *)

\* Variant: the replaced runtime goes on adding.
NeverStale(x, g) == FALSE

\* Callbacks of a runtime that is being replaced are stale.
Stale(x, g) == g = x.gen /\ x.candidate # None

\* addNotification() by the generation g of state x
Add(x, g) ==
  /\ nextOrder < MaxOrder /\ g \in {x.gen, x.candidate} \ {None} /\ ~Stale(x, g)
  /\ nextOrder' = nextOrder + 1
  /\ LET s == IF g = x.gen THEN x.session ELSE x.target
         p == inbox[s]
         i == CHOOSE k \in DOMAIN p.buckets : p.buckets[k].gen = g
         entries == p.buckets[i].entries \cup {nextOrder + 1}
         evicted == entries \ Newest(entries)
         count == Cardinality(evicted)
         q == [p EXCEPT !.watermark = @ + count,
                        !.buckets[i] = [gen |-> g, entries |-> Newest(entries),
                                        discarded |-> @.discarded + count]]
         hidden == Retained(p) \ Retained(q) IN
     /\ inbox' = [inbox EXCEPT ![s] = Revised(q)]
     /\ Publish(<<Mutation(s, "added", {nextOrder + 1},
                           IF hidden = {} THEN {} ELSE {Min(hidden)}, q)>>)
     /\ discards' = discards + count
     /\ owed' = [owed EXCEPT ![s] = @ \cup
          {[number |-> n, gen |-> g] : n \in (discards + 1)..discards'}]
  /\ UNCHANGED <<states, gens, disposed, snapshot>>

\* Variant: every dismissal is described by the id.
RevealsNothing(p, q) == FALSE

\* A dismissal can reveal an entry that the other bucket hid.
Reveals(p, q) == Retained(q) \ Retained(p) # {}

\* dismissNotification()
Dismiss(s, n) ==
  /\ inbox[s] # None /\ n \in Entries(inbox[s])
  /\ LET p == inbox[s]
         without == [i \in DOMAIN p.buckets |->
                       [p.buckets[i] EXCEPT !.entries = @ \ {n}]]
         last0 == Entries(p) = {n}
         q == [p EXCEPT !.buckets =
                IF last0 THEN [i \in DOMAIN without |-> [without[i] EXCEPT !.discarded = 0]]
                ELSE without] IN
     /\ IF n \notin Retained(p) /\ Visible(p) = Visible(q)
        THEN inbox' = [inbox EXCEPT ![s] = q] /\ Publish(<<>>)
        ELSE /\ inbox' = [inbox EXCEPT ![s] = Revised(q)]
             /\ Publish(<<IF Reveals(p, q) THEN Mutation(s, "resync", {}, {}, q)
                          ELSE Mutation(s, "dismissed", {}, {n}, q)>>)
     /\ owed' = IF last0 THEN [owed EXCEPT ![s] = {}] ELSE owed
  /\ UNCHANGED <<states, issued, disposed, snapshot, discards>>

\* inboxSnapshot()
Read(s) ==
  /\ inbox[s] # None
  /\ snapshot' = [snapshot EXCEPT ![s] =
       [order |-> Max({0} \cup Retained(inbox[s])), watermark |-> inbox[s].watermark,
        discards |-> discards]]
  /\ Publish(<<>>)
  /\ UNCHANGED <<states, inbox, issued, disposed, discards, owed>>

\* acknowledgeDiscardedThrough(): the discards have the last watermarks.
Acknowledged(p, through) ==
  LET first == p.watermark - Discarded(p) + 1 IN
  Max({0, Min({Discarded(p), through - first + 1})})

\* The buckets, oldest first, without n discards
Uncounted(buckets, n) ==
  [i \in DOMAIN buckets |->
     LET before == MapThenSumSet(LAMBDA k : buckets[k].discarded, 1..(i - 1))
         taken == Max({0, Min({buckets[i].discarded, n - before})}) IN
     [buckets[i] EXCEPT !.discarded = @ - taken]]

\* dismissAll() through what the client last read
DismissAll(s) ==
  /\ inbox[s] # None /\ snapshot[s] # None
  /\ LET p == inbox[s]
         through == snapshot[s]
         dismissed == {n \in Retained(p) : n <= through.order}
         acked == Acknowledged(p, through.watermark)
         left == [i \in DOMAIN p.buckets |->
                    [p.buckets[i] EXCEPT !.entries = {n \in @ : n > through.order}]]
         q == [p EXCEPT !.buckets = Uncounted(left, acked)] IN
     IF dismissed = {} /\ acked = 0
     THEN inbox' = [inbox EXCEPT ![s] = q] /\ Publish(<<>>)
     ELSE /\ inbox' = [inbox EXCEPT ![s] = Revised(q)]
          /\ Publish(<<Mutation(s, "dismissed", {}, dismissed, q)>>)
  /\ owed' = [owed EXCEPT ![s] = {o \in @ : o.number > snapshot[s].discards}]
  /\ UNCHANGED <<states, issued, disposed, snapshot, discards>>

----------------------------------------------------------------------------

Init ==
  /\ states = {} /\ inbox = [s \in Sessions |-> None]
  /\ lastRevision = [s \in Sessions |-> 0] /\ lastWatermark = [s \in Sessions |-> 0]
  /\ nextOrder = 0 /\ gens = 0 /\ disposed = FALSE
  /\ events = <<>> /\ snapshot = [s \in Sessions |-> None]
  /\ discards = 0 /\ owed = [s \in Sessions |-> {}]

Next ==
  \/ \E s \in Sessions : Open(s) \/ Read(s) \/ DismissAll(s)
  \/ \E x \in states :
       \/ \E t \in Sessions : Rebind(x, t)
       \/ Commit(x) \/ Close(x)
       \/ \E survivor \in {"prior", "candidate"} : Abort(x, survivor)
       \/ \E g \in Gens : Add(x, g)
  \/ \E s \in Sessions, n \in Orders : Dismiss(s, n)
  \/ Dispose

Spec == Init /\ [][Next]_vars

----------------------------------------------------------------------------
(* Properties *)

Shown(s) == IF inbox[s] = None THEN Nothing ELSE Visible(inbox[s])

\* What a client that shows v makes of the mutation e; after a resync it reads w.
Applied(e, v, w) ==
  CASE e.kind = "added" -> [ids |-> (v.ids \ e.removed) \cup e.added, discarded |-> e.discarded]
    [] e.kind = "dismissed" -> [ids |-> v.ids \ e.removed, discarded |-> e.discarded]
    [] e.kind = "cleared" -> Nothing
    [] e.kind = "resync" -> w

\* A client that applies every delta always shows the inbox as it is: what
\* the cap hides or reveals while two buckets share an inbox is told, and
\* nothing changes without an event.
DeltasExplain ==
  [][disposed' \/ \A s \in Sessions :
       LET es == {i \in DOMAIN events' : events'[i].session = s} IN
       Shown(s)' = IF es = {} THEN Shown(s)
                   ELSE Applied(events'[Max(es)], Shown(s), Shown(s)')]_vars

\* The revisions of a session's events only grow, also when its runtime was
\* closed, replaced or opened again in between.
RevisionsAdvance ==
  [][\A i \in DOMAIN events' :
       disposed' \/ events'[i].revision > lastRevision[events'[i].session]]_vars

\* A client that follows the events shows the inbox.
ClientsFollow == DeltasExplain /\ RevisionsAdvance

\* Each bucket counts the discards it owes its clients, no other and none
\* twice: an acknowledgement through a snapshot takes those of the snapshot,
\* an abort moves those of the inbox that goes away.
CountsAreExact ==
  \A s \in Sessions : inbox[s] # None =>
    \A i \in DOMAIN inbox[s].buckets :
      LET b == inbox[s].buckets[i] IN
      b.discarded = Cardinality({o \in owed[s] : o.gen = b.gen})

\* An inbox has one owner, and an owner its inboxes: no two runtimes share
\* the inbox of a session, whichever sessions they were rebound to.
InboxesHaveOneOwner ==
  \A s \in Sessions : Cardinality(StatesOf(s)) = (IF inbox[s] = None THEN 0 ELSE 1)

\* Inboxes are exact whatever runtimes are replaced, rebound or share one.
InboxesAreExact == CountsAreExact /\ InboxesHaveOneOwner
=============================================================================
