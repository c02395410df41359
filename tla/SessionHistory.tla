--------------------------- MODULE SessionHistory ---------------------------
(* Reading a session's messages backwards, page by page, while the session goes on:      *)
(* read_subsession's filtered view (subsessionTranscript.ts) and the pages the clients   *)
(* load (messagePaging.ts). Texts are abstracted to whether they hold the words searched *)
(* for, and clipping is left out: it changes no page.                                    *)
EXTENDS Integers, Sequences, SequencesExt, FiniteSets

CONSTANTS Messages,    \* messages a session can hold: [role, parts], parts a set of [kind, found]
          MaxEntered,  \* longest history
          Limits       \* page sizes asked for; below 1 is clamped

\* The longest history bounds the pages as MAX_LIMIT does.
ASSUME HistoryAssumption == MaxEntered \in Nat \ {0} /\ Limits \subseteq Int

VARIABLES entered,  \* the session's messages, oldest first
          query,    \* the filters and the page size one reader keeps to
          reading,  \* that reader: the pages it read, newest first; where they start; whether more is left
          loaded    \* the same for a client that loads whole turns

historyVars == <<entered, query, reading, loaded>>

AnyOf == "any"

Clamp(n, low, high) == IF n < low THEN low ELSE IF n > high THEN high ELSE n

(* buildTranscriptView() filters every message before it cuts the page. *)
Parts(message, q) == {p \in message.parts : q.include = AnyOf \/ p.kind = q.include}
Matches(message, q) ==
  /\ message.role # "other"
  /\ q.roles = AnyOf \/ message.role = q.roles
  /\ Parts(message, q) # {}
  /\ q.search => \E p \in Parts(message, q) : p.found
\* What a filter leaves: numbers of messages, in their order.
Ascending(numbers) == CHOOSE list \in SetToSeqs(numbers) : \A i, j \in DOMAIN list : i < j => list[i] < list[j]
Matching(messages, q) == Ascending({i \in 1..Len(messages) : Matches(messages[i], q)})

\* A variant that breaks PagesAreWhole: the page is cut first and what is left of it is filtered.
ViewOfPage(messages, q, before) ==
  LET from == Clamp(before - Clamp(q.limit, 1, MaxEntered), 1, before)
      entries == Ascending({i \in Range(Matching(messages, q)) : from <= i /\ i < before})
  IN [entries |-> entries,
      start |-> IF entries = <<>> THEN before ELSE Head(entries),
      more |-> entries # <<>> /\ from > 1]

View(messages, q, before) ==
  LET inWindow == Ascending({i \in Range(Matching(messages, q)) : i < before})
      limit == Clamp(q.limit, 1, MaxEntered)
      from == Clamp(Len(inWindow) - limit + 1, 1, Len(inWindow) + 1)
      entries == SubSeq(inWindow, from, Len(inWindow))
  IN [entries |-> entries,
      start |-> IF entries = <<>> THEN before ELSE Head(entries),
      more |-> Len(entries) < Len(inWindow)]

(* expandStartToSafeBoundary(): back to the prompt the turn began with. *)
BeginsATurn(message) == message.role = "user"

\* A variant that breaks PagesAreWhole: the page starts where it was asked to.
RequestedStart(messages, start) == start

SafeStart(messages, start) ==
  LET prompts == {i \in 1..start : i <= Len(messages) /\ BeginsATurn(messages[i])}
  IN IF start = 1 \/ prompts = {} THEN 1 ELSE CHOOSE i \in prompts : \A j \in prompts : j <= i

Page(messages, limit, before) ==
  LET start == SafeStart(messages, Clamp(before - Clamp(limit, 1, MaxEntered), 1, before))
  IN [entries |-> [i \in 1..(before - start) |-> start + i - 1], start |-> start, more |-> start > 1]

Unread == [entries |-> <<>>, start |-> 0, more |-> TRUE, total |-> 0]
After(read, page, total) ==
  [entries |-> page.entries \o read.entries, start |-> page.start, more |-> page.more, total |-> total]
\* The first page has no "before"; each next one gives the start of the one before it.
Before(read) == IF read.start = 0 THEN Len(entered) + 1 ELSE read.start
Total(read) == IF read.start = 0 THEN Len(entered) ELSE read.total

Append1(message) ==
  /\ Len(entered) < MaxEntered
  /\ entered' = Append(entered, message)
  /\ UNCHANGED <<query, reading, loaded>>
ReadTranscript ==
  /\ reading.more /\ entered # <<>>
  /\ reading' = After(reading, View(entered, query, Before(reading)), Total(reading))
  /\ UNCHANGED <<entered, query, loaded>>
LoadMessages ==
  /\ loaded.more /\ entered # <<>>
  /\ loaded' = After(loaded, Page(entered, query.limit, Before(loaded)), Total(loaded))
  /\ UNCHANGED <<entered, query, reading>>

HistoryInit ==
  /\ entered = <<>>
  /\ query \in [roles : {AnyOf, "user"}, include : {AnyOf, "text"}, search : BOOLEAN, limit : Limits]
  /\ reading = Unread /\ loaded = Unread
HistoryNext == (\E m \in Messages : Append1(m)) \/ ReadTranscript \/ LoadMessages

-----------------------------------------------------------------------------
(* Paging back with "before: start" visits every match there was when the reader began   *)
(* exactly once, in order, whatever the session appends meanwhile, and says that nothing *)
(* is left only then (subsessionTranscript.ts:90-129); the pages a client loads leave no *)
(* message out and never begin inside a turn (messagePaging.ts:16-34).                   *)
PagesAreWhole ==
  /\ LET there == Matching(SubSeq(entered, 1, reading.total), query)
     IN reading.start # 0 =>
          /\ reading.entries = Ascending({i \in Range(there) : i >= reading.start})
          /\ ~reading.more => reading.entries = there
  /\ loaded.start # 0 =>
       /\ loaded.entries = [i \in 1..(loaded.total - loaded.start + 1) |-> loaded.start + i - 1]
       /\ loaded.start = 1 \/ BeginsATurn(entered[loaded.start])
       /\ loaded.more = (loaded.start > 1)
=============================================================================
