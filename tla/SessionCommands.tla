--------------------------- MODULE SessionCommands ---------------------------
(* SessionCommandService over one runtime: /fork, /clone, /name, /compact,     *)
(* /reload, /tree and runtime commands. A fork or clone replaces the session   *)
(* in the runtime. It looks up names between its two checks, and a request     *)
(* that started meanwhile holds the same runtime.                              *)
EXTENDS Naturals, FiniteSets

CONSTANTS Asks,        \* requests
          MaxForked    \* bound: sessions that forks and clones make

VARIABLES held,      \* the session the runtime holds; sessions are numbered as they are made
          made,      \* how many there are
          title,     \* its name, of one base name: a kind and a counter
          entries,   \* its entries
          ask,       \* requests: phase, kind, the session asked for and the name computed
          turns,     \* agent turns that run in the runtime's session
          compacting,\* the sessions being compacted
          inTree,    \* a tree navigation owns the session
          exclusive, \* the replacements and reloads under way: the gate of runTreeExclusiveOperation
          selects    \* pendingSelects: fork requests that wait for a choice, by session

commandVars == <<held, made, title, entries, ask, turns, compacting, inTree, exclusive, selects>>

SessionIds == 1 .. MaxForked
Unnamed == [kind |-> "source", n |-> 0]
NoAsk == [phase |-> "none", kind |-> "none", asked |-> 0, name |-> Unnamed]

\* hasActiveWork of the service and of its lifecycle.
Occupied == turns > 0 \/ held \in compacting \/ inTree \/ exclusive # {}

\* uniqueRelatedSessionName: the first counter that is free.
FreeName(kind) ==
  LET used == {title[s].n : s \in {x \in 1 .. made : title[x].kind = kind}}
  IN CHOOSE n \in 1 .. MaxForked + 1 : n \notin used /\ \A k \in 1 .. n - 1 : k \in used

Goes(r, phase) == ask' = [ask EXCEPT ![r].phase = phase]
Ends(r) == ask' = [ask EXCEPT ![r] = NoAsk]

\* run and respond: the active session of the request is looked up. Work refuses
\* /fork, /clone, /reload and /tree; an empty session has nothing to fork or show.
Run(r, kind) ==
  /\ ask[r] = NoAsk
  /\ kind \in {"fork", "clone"}
  /\ ~Occupied /\ entries[held] > 0
  /\ ask' = [ask EXCEPT ![r] = [phase |-> "naming", kind |-> kind, asked |-> held, name |-> Unnamed]]
  /\ UNCHANGED <<held, made, title, entries, turns, compacting, inTree, exclusive, selects>>

\* /fork lists the messages and waits for a choice; the wait is for ever.
RunForkSelect(r) ==
  /\ ask[r] = NoAsk
  /\ ~Occupied /\ entries[held] > 0
  /\ selects' = selects \union {held}
  /\ UNCHANGED <<held, made, title, entries, ask, turns, compacting, inTree, exclusive>>

\* respond: a choice for a session the runtime no longer holds opens that session
\* again, elsewhere.
RespondSelect(r) ==
  /\ ask[r] = NoAsk /\ held \in selects
  /\ selects' = selects \ {held}
  /\ IF ~Occupied /\ entries[held] > 0
     THEN ask' = [ask EXCEPT ![r] = [phase |-> "naming", kind |-> "fork", asked |-> held, name |-> Unnamed]]
     ELSE UNCHANGED ask
  /\ UNCHANGED <<held, made, title, entries, turns, compacting, inTree, exclusive>>

\* nextRelatedSessionName: the names of the directory are read; a failed reading
\* leaves the counter at 1.
LookUpNames(r, fails) ==
  /\ ask[r].phase = "naming"
  /\ ask' = [ask EXCEPT ![r].phase = "named",
               ![r].name = [kind |-> ask[r].kind, n |-> IF fails THEN 1 ELSE FreeName(ask[r].kind)]]
  /\ UNCHANGED <<held, made, title, entries, turns, compacting, inTree, exclusive, selects>>

\* A mutated service that relies on the checks before it.
CheckedBefore(r) == entries[held] > 0

\* The checks after the wait.
GateIsFree(r) == ~Occupied /\ entries[held] > 0

\* runTreeExclusiveOperation: the gate is closed for a replacement or a reload.
TakesGate(r) == exclusive' = exclusive \union {r}
LeavesGate(r) == exclusive' = exclusive \ {r}

\* runSessionReplacement: the gate closes until the fork is done.
BeginReplacement(r) ==
  /\ ask[r].phase = "named"
  /\ IF GateIsFree(r)
     THEN Goes(r, "replacing") /\ TakesGate(r)
     ELSE Ends(r) /\ UNCHANGED exclusive
  /\ UNCHANGED <<held, made, title, entries, turns, compacting, inTree, selects>>

\* importSession: the runtime takes a session from a file through the same gate.
Import(r) ==
  /\ ask[r] = NoAsk /\ ~Occupied
  /\ ask' = [ask EXCEPT ![r] = [phase |-> "replacing", kind |-> "import", asked |-> held, name |-> Unnamed]]
  /\ TakesGate(r)
  /\ UNCHANGED <<held, made, title, entries, turns, compacting, inTree, selects>>

\* The runtime holds the new session, which is named.
EndReplacement(r) ==
  /\ ask[r].phase = "replacing" /\ made < MaxForked
  /\ made' = made + 1
  /\ held' = made + 1
  /\ entries' = [entries EXCEPT ![made + 1] = IF ask[r].kind = "import" THEN 1 ELSE entries[held]]
  /\ title' = [title EXCEPT ![made + 1] = ask[r].name]
  /\ LeavesGate(r)
  /\ turns' = 0
  /\ Ends(r)
  /\ UNCHANGED <<compacting, inTree, selects>>

\* The fork is cancelled or fails; the gate opens.
ReplacementCancelled(r) ==
  /\ ask[r].phase = "replacing"
  /\ LeavesGate(r)
  /\ Ends(r)
  /\ UNCHANGED <<held, made, title, entries, turns, compacting, inTree, selects>>

\* /reload goes through the same gate.
BeginReload(r) ==
  /\ ask[r] = NoAsk /\ ~Occupied
  /\ ask' = [ask EXCEPT ![r] = [phase |-> "reloading", kind |-> "reload", asked |-> held, name |-> Unnamed]]
  /\ TakesGate(r)
  /\ UNCHANGED <<held, made, title, entries, turns, compacting, inTree, selects>>

EndReload(r) ==
  /\ ask[r].phase = "reloading"
  /\ LeavesGate(r)
  /\ Ends(r)
  /\ UNCHANGED <<held, made, title, entries, turns, compacting, inTree, selects>>

\* /compact looks at tree navigation only.
BeginCompaction ==
  /\ ~inTree /\ held \notin compacting
  /\ compacting' = compacting \union {held}
  /\ UNCHANGED <<held, made, title, entries, ask, turns, inTree, exclusive, selects>>

EndCompaction(s) ==
  /\ s \in compacting
  /\ compacting' = compacting \ {s}
  /\ UNCHANGED <<held, made, title, entries, ask, turns, inTree, exclusive, selects>>

\* Prompts and runtime commands start turns whatever replacement is under way.
BeginTurn ==
  /\ ~inTree /\ turns = 0
  /\ turns' = 1
  /\ entries' = [entries EXCEPT ![held] = 1]
  /\ UNCHANGED <<held, made, title, ask, compacting, inTree, exclusive, selects>>

EndTurn ==
  /\ turns = 1
  /\ turns' = 0
  /\ UNCHANGED <<held, made, title, entries, ask, compacting, inTree, exclusive, selects>>

Navigate ==
  /\ IF inTree THEN TRUE ELSE ~Occupied
  /\ inTree' = ~inTree
  /\ UNCHANGED <<held, made, title, entries, ask, turns, compacting, exclusive, selects>>

CommandsInit ==
  /\ held = 1 /\ made = 1
  /\ title = [s \in SessionIds |-> Unnamed]
  /\ entries = [s \in SessionIds |-> 0]
  /\ ask = [r \in Asks |-> NoAsk]
  /\ turns = 0 /\ compacting = {} /\ inTree = FALSE /\ exclusive = {} /\ selects = {}

CommandsNext ==
  \/ \E r \in Asks :
       \/ \E kind \in {"fork", "clone"} : Run(r, kind)
       \/ RunForkSelect(r) \/ RespondSelect(r)
       \/ \E fails \in BOOLEAN : LookUpNames(r, fails)
       \/ Import(r) \/ BeginReplacement(r) \/ ReplacementCancelled(r) \/ EndReplacement(r)
       \/ BeginReload(r) \/ EndReload(r)
  \/ BeginCompaction \/ \E s \in SessionIds : EndCompaction(s)
  \/ BeginTurn \/ EndTurn \/ Navigate

------------------------------------------------------------------------------

\* One replacement or reload at a time has the runtime, and no tree navigation with
\* it, although each looks up names between its check and its start
\* (sessionCommandService.ts forkFromEntry, clone).
ReplacementsAreAlone == Cardinality(exclusive) <= 1 /\ (exclusive # {} => ~inTree)
==============================================================================
