--------------------------- MODULE SessionStream ----------------------------
(***************************************************************************)
(* What the native app shows of the selected session: its transcript,      *)
(* joined from the history it loads, a snapshot of the message being       *)
(* streamed, and the events that follow (AppModel+Streaming.swift), as     *)
(* SessionEventHub stamps and sends them and PiSessionService answers.     *)
(*                                                                         *)
(* The app renews the stream when it fails, when the user selects a        *)
(* session or reconnects, when a Runtime it owns has to be recovered, and  *)
(* when the machine wakes (AppModel+RuntimeLifecycle.swift).  Connections  *)
(* break, the Runtime restarts, requests wait.                             *)
(*                                                                         *)
(* A message is the sequence of its pieces <<message, i>>, each the text   *)
(* of one delta, and begins with its first.  Other events are left out.    *)
(* No message has an id (RuntimeContract.swift:395 gives it a random one): *)
(* the app compares the words, which those of another message may equal.   *)
(***************************************************************************)
EXTENDS Naturals, Sequences, SequencesExt

CONSTANTS
  Sessions,
  MaxMessages, \* bound: messages begun, in all sessions
  MaxPieces,   \* bound: deltas, of all messages
  MaxOpens,    \* bound: selections and reconnections by the user
  MaxFaults,   \* bound: broken connections, Runtime restarts, failed refreshes, sleeps
  Words(_),    \* the string that a text is
  None         \* "no session", "not answered yet"

ASSUME StreamBounds ==
  /\ MaxMessages \in Nat /\ MaxPieces \in Nat \ {0} /\ MaxOpens \in Nat /\ MaxFaults \in Nat
  /\ None \notin Sessions

VARIABLES
  history,      \* each session's complete messages
  partial,      \* the message it streams, <<>> if none
  begun,        \* the messages begun so far
  pieces,       \* history: the deltas so far
  seq,          \* SessionEventHub.seqBySession
  selected,     \* selectedSessionID
  streams,      \* the tasks of startSessionEventStream(), each with its subscription
  loads,        \* the history requests of loadSelectedSession()
  transcript,   \* transcriptMessages
  live,         \* streamingMessage: a row, or <<>>
  lastSeq,      \* lastSessionSequence
  runtimeState, \* the app's view of the Runtime; "disconnected" while asleep
  recovery,     \* RuntimeLifecycleRecovery.recoveryPending
  expected,     \* history: what was being streamed when the event lastSeq was sent
  loadFailed,   \* history: a history request failed
  opens, faults \* history: how many so far

daemon == <<history, partial, begun, pieces, seq>>
view == <<transcript, live, lastSeq, expected>>
app == <<runtimeState, recovery>>
counts == <<opens, faults>>
vars == <<daemon, selected, streams, loads, view, app, loadFailed, counts>>

Piece == (1..MaxMessages) \X (1..MaxPieces)
Text == Seq(Piece)
\* Ids that compare equal to another: the placeholder's and that of the last snapshot's message.
Row == [id : {"own", "streaming-assistant", "snapshot"}, text : Text \ {<<>>}]
Event == [seq : Nat, kind : {"assistant.delta", "message.end"}, text : Text,
          after : Text] \* history: what is being streamed from then on
\* "current": its generation is sessionStreamGeneration, which every start and stop moves on.
Stream == [current : BOOLEAN, session : Sessions, at : {"connecting", "asking", "answered", "streaming"},
           open : BOOLEAN, wire : Seq(Event), seq : Nat, partial : Text]

TypeOK ==
  /\ history \in [Sessions -> Seq(Text)] /\ partial \in [Sessions -> Text]
  /\ begun \in 0..MaxMessages /\ pieces \in 0..MaxPieces /\ seq \in [Sessions -> Nat]
  /\ selected \in Sessions \cup {None}
  /\ \A x \in streams : x \in Stream
  /\ \A l \in loads : l.session \in Sessions /\ (l.page = None \/ l.page \in Seq(Text))
  /\ transcript \in Seq(Row) /\ live \in Row \cup {<<>>} /\ lastSeq \in Nat /\ expected \in Text
  /\ runtimeState \in {"disconnected", "connecting", "connected", "failed"}
  /\ recovery \in BOOLEAN /\ loadFailed \in BOOLEAN
  /\ opens \in 0..MaxOpens /\ faults \in 0..MaxFaults

Current(x) == x.current
\* Variant: a stream of the same session will do.
SameSession(x) == x.session = selected
\* isCurrentSessionStream()
IsCurrent(x) == Current(x)

Becomes(x, y) == streams' = (streams \ {x}) \cup {y}
Fault == faults < MaxFaults /\ faults' = faults + 1

----------------------------------------------------------------------------
(* The Runtime.  publish() stamps each event and sends it to the open sockets. *)

Publish(s, kind, text, after) ==
  LET e == [seq |-> seq[s] + 1, kind |-> kind, text |-> text, after |-> after] IN
  /\ seq' = [seq EXCEPT ![s] = @ + 1]
  /\ streams' = {IF x.session = s /\ x.open THEN [x EXCEPT !.wire = Append(@, e)] ELSE x : x \in streams}
  /\ partial' = [partial EXCEPT ![s] = after]
  /\ UNCHANGED <<selected, loads, view, app, loadFailed, counts>>

\* Text is streamed, that of a new message or more of the current one.
Delta(s) ==
  /\ IF partial[s] = <<>> THEN begun < MaxMessages /\ begun' = begun + 1
                          ELSE UNCHANGED begun
  /\ pieces < MaxPieces /\ pieces' = pieces + 1
  /\ LET piece == IF partial[s] = <<>> THEN <<begun', 1>>
                  ELSE <<partial[s][1][1], Len(partial[s]) + 1>> IN
     Publish(s, "assistant.delta", <<piece>>, Append(partial[s], piece))
  /\ UNCHANGED history

\* The message is complete: it is in the history and sent as a whole.
MessageEnds(s) ==
  /\ partial[s] # <<>>
  /\ history' = [history EXCEPT ![s] = Append(@, partial[s])]
  /\ Publish(s, "message.end", partial[s], <<>>)
  /\ UNCHANGED <<begun, pieces>>

\* Answers streamSnapshot(): the watermark and the partial, read together.
AnswersSnapshot(x) ==
  /\ x.at = "asking"
  /\ Becomes(x, [x EXCEPT !.at = "answered", !.seq = seq[x.session], !.partial = partial[x.session]])
  /\ UNCHANGED <<daemon, selected, loads, view, app, loadFailed, counts>>

\* Answers messages().
AnswersLoad(l) ==
  /\ l.page = None
  /\ loads' = (loads \ {l}) \cup {[l EXCEPT !.page = history[l.session]]}
  /\ UNCHANGED <<daemon, selected, streams, view, app, loadFailed, counts>>

----------------------------------------------------------------------------
(* The app: streams.  A failed one is opened again after a delay.          *)

Opened(s) == [current |-> TRUE, session |-> s, at |-> "connecting", open |-> FALSE,
              wire |-> <<>>, seq |-> 0, partial |-> <<>>]

\* stopSessionEventStream(): the task is cancelled.  The snapshot or the event it has
\* received already is still delivered; a task that still waits ends (and so do, to
\* keep states few, those cancelled earlier).
Cancelled ==
  {[x EXCEPT !.current = FALSE, !.open = FALSE, !.wire = IF x.at = "answered" THEN <<>> ELSE SubSeq(@, 1, 1)] :
     x \in {y \in streams : y.current /\ (y.at = "answered" \/ (y.at = "streaming" /\ y.wire # <<>>))}}

\* A request of loadSelectedSession()
Load(s) == [session |-> s, page |-> None]

\* Variant: not if the session is the selected one already.
StartsUnlessSelected(s) ==
  /\ streams' = IF selected = s THEN streams ELSE Cancelled \cup {Opened(s)}
  /\ lastSeq' = 0 /\ live' = <<>> /\ expected' = <<>>

\* startSessionEventStream(), which ends the one before
StartsStream(s) ==
  /\ streams' = Cancelled \cup {Opened(s)}
  /\ lastSeq' = 0 /\ live' = <<>> /\ expected' = <<>>

Connects(x) ==
  /\ x.at = "connecting"
  /\ Becomes(x, [x EXCEPT !.at = "asking", !.open = TRUE])
  /\ UNCHANGED <<daemon, selected, loads, view, app, loadFailed, counts>>

\* The rows but those that have the id of m
Without(rows, m) ==
  LET keep(kept, row) == IF row.id = "own" \/ row.id # m.id THEN Append(kept, row) ELSE kept IN
  FoldLeft(keep, <<>>, rows)

\* synchronizeStreamingMessage()
Synchronized(rows, m) == IF m = <<>> THEN rows ELSE Append(Without(rows, m), m)

\* A new message has a new id: what had the id of the snapshot before is a row of its own now.
Settled(rows) == [i \in DOMAIN rows |-> IF rows[i].id = "snapshot" THEN [rows[i] EXCEPT !.id = "own"] ELSE rows[i]]

\* Variant: a snapshot without a message is shown as an empty one.
RowOfAny(text) == [id |-> "snapshot", text |-> text]
RowOf(text) == IF text = <<>> THEN <<>> ELSE [id |-> "snapshot", text |-> text]

\* The snapshot returns: applyStreamSnapshot(), unless the stream was replaced.
SnapshotReturns(x) ==
  /\ x.at = "answered"
  /\ IF IsCurrent(x)
     THEN /\ Becomes(x, [x EXCEPT !.at = "streaming", !.seq = 0, !.partial = <<>>])
          /\ loads' = IF x.seq < lastSeq THEN loads \cup {Load(selected)} ELSE loads
          /\ lastSeq' = x.seq /\ live' = RowOf(x.partial) /\ expected' = x.partial
          /\ transcript' = Synchronized(Settled(transcript), live')
     ELSE /\ streams' = streams \ {x}
          /\ UNCHANGED <<loads, view>>
  /\ UNCHANGED <<daemon, selected, app, loadFailed, counts>>

\* Variant: the sequence is not looked at.
AppliesAny(e) == TRUE
Applies(e) == e.seq > lastSeq

\* appendAssistantDelta()
Extended(text) ==
  IF live = <<>> THEN [id |-> "streaming-assistant", text |-> text]
                 ELSE [live EXCEPT !.text = @ \o text]

\* An event arrives: applySessionEvent(), unless the stream was replaced.
EventArrives(x) ==
  /\ x.at = "streaming" /\ x.wire # <<>>
  /\ LET e == Head(x.wire) IN
     IF ~IsCurrent(x) THEN streams' = streams \ {x} /\ UNCHANGED view
     ELSE /\ Becomes(x, [x EXCEPT !.wire = Tail(@)])
          /\ IF ~Applies(e) THEN UNCHANGED view
             ELSE /\ lastSeq' = e.seq /\ expected' = e.after
                  /\ \/ /\ e.kind = "assistant.delta"
                        /\ live' = Extended(e.text)
                        /\ transcript' = Synchronized(transcript, live')
                     \/ /\ e.kind = "message.end"
                        /\ transcript' = Append(transcript, [id |-> "own", text |-> e.text])
                        /\ live' = <<>>
  /\ UNCHANGED <<daemon, selected, loads, app, loadFailed, counts>>

\* scheduleOwnedRuntimeRecovery(), of a Runtime the app owns.  Variant: the user has to ask.
NoRecovery == recovery
Recovers == recovery \/ runtimeState # "disconnected"

\* The loop of the task, after its delay
TriesAgain(x) == {Opened(x.session)}

\* Its events have come to an end: the task reports it and tries again.
StreamFails(x) ==
  /\ x.at = "streaming" /\ ~x.open /\ x.wire = <<>> /\ IsCurrent(x)
  /\ streams' = (streams \ {x}) \cup TriesAgain(x)
  /\ recovery' = Recovers
  /\ UNCHANGED <<daemon, selected, loads, view, runtimeState, loadFailed, counts>>

----------------------------------------------------------------------------
(* The app: history requests and the selection.                            *)

\* mergeLoadedMessages(); variant: what was loaded is all
OnlyLoaded(page) == [i \in DOMAIN page |-> [id |-> "own", text |-> page[i]]]
Merged(page) ==
  LET keep(rows, row) == IF \E i \in DOMAIN rows : Words(rows[i].text) = Words(row.text) THEN rows ELSE Append(rows, row) IN
  FoldLeft(keep, OnlyLoaded(page), transcript)

\* The history arrives, whichever session is selected by then.
LoadReturns(l) ==
  /\ l.page # None
  /\ loads' = loads \ {l}
  /\ transcript' = Synchronized(Merged(l.page), live)
  /\ UNCHANGED <<daemon, selected, streams, live, lastSeq, expected, app, loadFailed, counts>>

\* selectSession()
Select(s) ==
  /\ opens < MaxOpens /\ opens' = opens + 1
  /\ runtimeState # "disconnected"
  /\ selected' = s /\ transcript' = <<>>
  /\ loads' = loads \cup {Load(s)}
  /\ StartsStream(s)
  /\ UNCHANGED <<daemon, app, loadFailed, faults>>

\* refreshRuntime(), called by the user, for a recovery or after a sleep
Reconnect ==
  /\ opens < MaxOpens /\ opens' = opens + 1
  /\ runtimeState \in {"connected", "failed"} /\ runtimeState' = "connecting"
  /\ recovery' = FALSE
  /\ UNCHANGED <<daemon, selected, streams, loads, view, loadFailed, faults>>
RecoveryBegins ==
  /\ recovery /\ recovery' = FALSE
  /\ runtimeState' = "connecting"
  /\ UNCHANGED <<daemon, selected, streams, loads, view, loadFailed, counts>>

\* It ends, replaceSessions() loading the selected session again or, when there is none,
\* a first one; or it fails.
RefreshEnds ==
  /\ runtimeState = "connecting" /\ runtimeState' = "connected"
  /\ selected' \in IF selected = None THEN Sessions ELSE {selected}
  /\ loads' = loads \cup {Load(selected')}
  /\ StartsStream(selected')
  /\ UNCHANGED <<daemon, transcript, recovery, loadFailed, counts>>
RefreshFails ==
  /\ runtimeState = "connecting" /\ runtimeState' = "failed" /\ Fault
  /\ UNCHANGED <<daemon, selected, streams, loads, view, recovery, loadFailed, opens>>

----------------------------------------------------------------------------
(* Faults.                                                                 *)

\* A connection breaks, what was on its way in part lost; or a snapshot request fails.
Breaks(x) ==
  /\ Fault
  /\ \/ /\ x.open
        /\ \E n \in 0..Len(x.wire) : Becomes(x, [x EXCEPT !.open = FALSE, !.wire = SubSeq(@, 1, n)])
        /\ UNCHANGED recovery
     \/ /\ x.at \in {"connecting", "asking"} /\ IsCurrent(x)
        /\ streams' = (streams \ {x}) \cup TriesAgain(x)
        /\ recovery' = Recovers
  /\ UNCHANGED <<daemon, selected, loads, view, runtimeState, loadFailed, opens>>

\* The Runtime dies and is up again: sequences begin anew, what was streamed is lost.
Restart ==
  /\ Fault
  /\ seq' = [s \in Sessions |-> 0] /\ partial' = [s \in Sessions |-> <<>>]
  /\ LET asking == {x \in streams : x.at = "asking"} IN
     /\ streams' = {[x EXCEPT !.open = FALSE] : x \in streams \ asking}
                     \cup UNION {TriesAgain(x) : x \in {y \in asking : IsCurrent(y)}}
     /\ recovery' = IF \E x \in asking : IsCurrent(x) THEN Recovers ELSE recovery
  /\ loads' = {l \in loads : l.page # None}
  /\ loadFailed' = (loadFailed \/ loads' # loads)
  /\ UNCHANGED <<history, begun, pieces, selected, view, runtimeState, opens>>

\* systemWillSleep() and systemDidWake()
Sleep ==
  /\ Fault
  /\ runtimeState # "disconnected" /\ runtimeState' = "disconnected"
  /\ recovery' = FALSE
  /\ streams' = Cancelled
  /\ UNCHANGED <<daemon, selected, loads, view, loadFailed, opens>>
Wake ==
  /\ runtimeState = "disconnected" /\ runtimeState' = "connecting"
  /\ UNCHANGED <<daemon, selected, streams, loads, view, recovery, loadFailed, counts>>

----------------------------------------------------------------------------
Init ==
  /\ history = [s \in Sessions |-> <<>>] /\ partial = [s \in Sessions |-> <<>>]
  /\ begun = 0 /\ pieces = 0 /\ seq = [s \in Sessions |-> 0]
  /\ selected = None /\ streams = {} /\ loads = {}
  /\ transcript = <<>> /\ live = <<>> /\ lastSeq = 0 /\ expected = <<>>
  /\ runtimeState = "connecting" /\ recovery = FALSE /\ loadFailed = FALSE
  /\ opens = 0 /\ faults = 0

StreamStep(x) == Connects(x) \/ AnswersSnapshot(x) \/ SnapshotReturns(x) \/ EventArrives(x) \/ StreamFails(x)

Next ==
  \/ \E s \in Sessions : Delta(s) \/ MessageEnds(s) \/ Select(s)
  \/ \E x \in streams : StreamStep(x) \/ Breaks(x)
  \/ \E l \in loads : AnswersLoad(l) \/ LoadReturns(l)
  \/ Reconnect \/ RecoveryBegins \/ RefreshEnds \/ RefreshFails \/ Restart \/ Sleep \/ Wake

Spec == Init /\ [][Next]_vars

\* Requests are answered, events delivered, timers go off, and a refresh ends: something
\* happens as long as there is any of that to do.  Nothing is assumed of sessions, the
\* user, faults and waking.  (Streams that were replaced need not be heard of again.)
Work ==
  \/ \E x \in streams : IsCurrent(x) /\ StreamStep(x)
  \/ \E l \in loads : AnswersLoad(l) \/ LoadReturns(l)
  \/ RecoveryBegins \/ RefreshEnds \/ RefreshFails
Fairness == WF_vars(Work)

FairSpec == Spec /\ Fairness

----------------------------------------------------------------------------
(* Properties *)

Streaming == \E x \in streams : Current(x) /\ x.at = "streaming"
Shown(text) == \E i \in DOMAIN transcript : transcript[i].text = text

\* Snapshot and events join: at each event the message that is being streamed is
\* shown as it was when the Runtime sent that event, no delta twice and none
\* left out, whatever was sent before the snapshot and whichever streams came before.
StreamIsInStep == Streaming => (IF live = <<>> THEN expected = <<>> ELSE live.text = expected)

\* A message with a row of its own is shown until a session is selected.  History that was
\* read before it ended takes it away only for another message of the same words, so that no
\* words go: mergeLoadedMessages() takes the one for the other.  (The text may be left in the
\* placeholder's row, which the next message takes; NoGaps fails then too.)
HistoryReturns == \E l \in loads \ loads' : l.page # None
RowsStay ==
  [][opens' = opens =>
       \A i \in DOMAIN transcript : transcript[i].id = "own" =>
         \/ \E j \in DOMAIN transcript' : transcript'[j].text = transcript[i].text
         \/ /\ HistoryReturns
            /\ \E j \in DOMAIN transcript' : Words(transcript'[j].text) = Words(transcript[i].text)]_vars

\* The selected session's stream comes up again after every failure and restart,
\* unless the machine sleeps or the Runtime could not be reached when it woke.
StreamComesUp == selected # None ~> Streaming \/ runtimeState \in {"disconnected", "failed"}

\* A message that ended before the end of a broken stream was noticed is shown in
\* the end: the recovery loads the history again, which a new stream does not have.
Broken == \E x \in streams : Current(x) /\ x.at = "streaming" /\ ~x.open
MissedBy(s, i) == selected = s /\ Broken /\ i \in DOMAIN history[s] /\ ~Shown(history[s][i])
RecoveryHeals ==
  \A s \in Sessions, i \in 1..MaxMessages :
    MissedBy(s, i)
      ~> \/ i \in DOMAIN history[s] /\ Shown(history[s][i])
         \/ selected # s \/ loadFailed \/ runtimeState \in {"disconnected", "failed"}

\* The stream and what it missed come back.
StreamRecovers == StreamComesUp /\ RecoveryHeals

\* "snapshot and event join without duplicate and without gap"
\* (docs/macos-pi-runtime-integration.md:906): with nothing on its way, all
\* messages of the selected session are shown.
NoGaps ==
  (/\ \E x \in streams : Current(x) /\ x.at = "streaming" /\ x.open /\ x.wire = <<>>
   /\ loads = {} /\ ~recovery /\ runtimeState = "connected" /\ ~loadFailed)
    => \A i \in DOMAIN history[selected] : Shown(history[selected][i])
============================================================================
