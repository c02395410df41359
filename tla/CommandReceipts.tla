-------------------------- MODULE CommandReceipts --------------------------
(***************************************************************************)
(* The Runtime's command receipts (src/server/runtimeCommandReceipts.ts):  *)
(* a client sends a mutation under a commandId; the Runtime writes the     *)
(* intent to a private ledger file, runs the mutation, writes the terminal *)
(* receipt, and answers every repetition of the commandId with it.         *)
(*                                                                         *)
(* Writes of the ledger queue behind one another, each carrying the        *)
(* snapshot taken when it was requested.  The process may die at any point *)
(* and is started again by the native shell, either with the environment   *)
(* (and so the epoch) of the launch plan it already holds, or, after the   *)
(* shell itself restarted, with a fresh epoch.                             *)
(***************************************************************************)
EXTENDS Naturals, Sequences, FiniteSets

CONSTANTS
  Commands,      \* command identifiers, chosen by the clients
  Payloads,      \* (kind, fingerprint) pairs
  Times,         \* the millisecond timestamps `startedAt` may take
  Skew,          \* how far the wall clock may step back between two commands
  MaxRetained,   \* MAX_PERSISTED_RUNTIME_COMMAND_RECEIPTS
  MaxStarts,     \* bound: process starts explored
  None           \* "no such map entry"

ASSUME ConstantsAssumption ==
  /\ Times \subseteq Nat /\ Skew \in Nat
  /\ MaxRetained \in Nat \ {0} /\ MaxStarts \in Nat

VARIABLES
  phase,         \* "down", "opening" (recovering the ledger) or "up"
  starts,        \* how many times the process was started
  epoch,         \* the epoch of the current process
  issued,        \* per command, the epoch (and process) its client last read from hello
  records,       \* RuntimeCommandReceipts.records: the promise of each known command
  persisted,     \* RuntimeCommandReceipts.persistedRecords
  queue,         \* the saves requested and not finished, the head being written
  ledger,        \* the records in the ledger file
  clock,         \* the last timestamp read
  effects,       \* history: every time a mutation began to run
  finished,      \* history: payloads whose mutation ran to completion
  answers,       \* history: the receipts clients have been given
  evicted        \* history: commands the retention limit ever dropped

vars == <<phase, starts, epoch, issued, records, persisted, queue, ledger,
          clock, effects, finished, answers, evicted>>

Statuses == {"completed", "failed"}

\* A PersistedRuntimeCommandRecord, its result and error text left out.
LedgerRecord == [payload : Payloads, state : {"started"} \cup Statuses, at : Times]
LedgerMap == [Commands -> LedgerRecord \cup {None}]

\* The promise of a command: waiting for its intent to be saved, running,
\* waiting for its terminal receipt to be saved, or settled one way or the other.
InFlight == {"intent", "running", "settling"}
Promise == [payload : Payloads, at : Times,
            stage : InFlight \cup {"resolved", "rejected"},
            status : Statuses \cup {"pending"},
            stamp : Nat]  \* history: the process whose epoch the command carries

ASSUME NoneAssumption == None \notin LedgerRecord /\ None \notin Promise

\* Who continues once a save ends: a command after its intent or its terminal
\* receipt, or the recovery of the ledger at start.
Job == [snap : LedgerMap, owner : Commands \cup {None},
        step : {"intent", "terminal", "recovery"}]

TypeOK ==
  /\ phase \in {"down", "opening", "up"}
  /\ starts \in Nat /\ epoch \in Nat
  /\ issued \in [Commands -> [epoch : Nat, start : Nat] \cup {None}]
  /\ records \in [Commands -> Promise \cup {None}]
  /\ persisted \in LedgerMap
  /\ queue \in Seq(Job)
  /\ ledger \in LedgerMap
  /\ clock \in Nat
  /\ effects \in [Commands -> SUBSET [payload : Payloads, start : Nat, stamp : Nat]]
  /\ finished \in [Commands -> SUBSET Payloads]
  /\ answers \in [Commands -> SUBSET (Payloads \X Statuses)]
  /\ evicted \subseteq Commands

----------------------------------------------------------------------------
(* Helpers *)

Known(m) == {c \in Commands : m[c] # None}

\* persist() keeps the MaxRetained most recent records by startedAt; among
\* equal timestamps any may be the one cut.
Retentions(m) ==
  {K \in SUBSET Known(m) :
     /\ Cardinality(K) = (IF Cardinality(Known(m)) > MaxRetained
                          THEN MaxRetained ELSE Cardinality(Known(m)))
     /\ \A c \in K, d \in Known(m) \ K : m[c].at >= m[d].at}

\* Variant: records of running commands are not worth keeping.
KeepOnlySettled(m, K) ==
  [c \in Commands |-> IF c \in K /\ m[c].state # "started" THEN m[c] ELSE None]

\* The map m cut down to the commands of K.
KeepOnly(m, K) == [c \in Commands |-> IF c \in K THEN m[c] ELSE None]

\* The synchronous part of persist() on the map m: trim it, take the
\* snapshot, and join the end of the queue q.
Persist(m, q, owner, step) ==
  \E K \in Retentions(m) :
    /\ persisted' = KeepOnly(m, K)
    /\ queue' = Append(q, [snap |-> KeepOnly(m, K), owner |-> owner, step |-> step])
    /\ evicted' = evicted \cup (Known(m) \ K)

\* Variant: a save that throws keeps its turn.
ReleasedOnSuccess(q, saved) ==
  IF saved THEN Tail(q) ELSE <<[Head(q) EXCEPT !.step = "stuck"]>> \o Tail(q)

\* A save left its turn: release() runs whether it succeeded or threw.
Released(q, saved) == Tail(q)

Terminal(c, status) ==
  [persisted EXCEPT ![c] = [payload |-> records[c].payload, state |-> status,
                            at |-> records[c].at]]

----------------------------------------------------------------------------
(* Clients *)

\* A client reads the epoch from hello and stamps its command with it,
\* for the first time or to try the same commandId again.
Issue(c) ==
  /\ phase = "up"
  /\ issued' = [issued EXCEPT ![c] = [epoch |-> epoch, start |-> starts]]
  /\ UNCHANGED <<phase, starts, epoch, records, persisted, queue, ledger,
                 clock, effects, finished, answers, evicted>>

\* execute() of a commandId the Runtime does not know, under its own epoch.
\* (A known one, or a stale epoch, changes nothing: see Answer.)
Execute(c, p, t) ==
  /\ phase = "up"
  /\ issued[c] # None
  /\ records[c] = None
  /\ issued[c].epoch = epoch
  /\ t + Skew >= clock
  /\ clock' = t
  /\ records' = [records EXCEPT ![c] = [payload |-> p, at |-> t, stage |-> "intent",
                                        status |-> "pending", stamp |-> issued[c].start]]
  /\ Persist([persisted EXCEPT ![c] = [payload |-> p, state |-> "started", at |-> t]],
             queue, c, "intent")
  /\ UNCHANGED <<phase, starts, epoch, issued, ledger, effects, finished, answers>>

\* A client that sent (c, p) is given the receipt: the caller itself, or a
\* repetition of the command whose payload matches the recorded one.
Answer(c, p) ==
  /\ phase = "up"
  /\ records[c] # None
  /\ records[c].stage = "resolved"
  /\ records[c].payload = p
  /\ answers' = [answers EXCEPT ![c] = @ \cup {<<p, records[c].status>>}]
  /\ UNCHANGED <<phase, starts, epoch, issued, records, persisted, queue, ledger,
                 clock, effects, finished, evicted>>

----------------------------------------------------------------------------
(* The Runtime *)

\* The head of the queue reaches the file and its owner goes on: the mutation
\* of an intent starts, a terminal receipt resolves, a recovery opens the store.
SaveSucceeds ==
  /\ queue # <<>>
  /\ ledger' = Head(queue).snap
  /\ queue' = Released(queue, TRUE)
  /\ LET c == Head(queue).owner IN
     \/ /\ Head(queue).step = "intent"
        /\ records' = [records EXCEPT ![c].stage = "running"]
        /\ effects' = [effects EXCEPT ![c] = @ \cup
             {[payload |-> records[c].payload, start |-> starts, stamp |-> records[c].stamp]}]
        /\ UNCHANGED phase
     \/ /\ Head(queue).step = "terminal"
        /\ records' = [records EXCEPT ![c].stage = "resolved"]
        /\ UNCHANGED <<phase, effects>>
     \/ /\ Head(queue).step = "recovery"
        /\ phase' = "up"
        /\ UNCHANGED <<records, effects>>
  /\ UNCHANGED <<starts, epoch, issued, persisted, clock, finished, answers, evicted>>

\* The save throws, before the rename replaced the file or (the last chmod)
\* after it.  An intent becomes a failed receipt, to be saved in turn; a
\* terminal receipt rejects its callers; a recovery ends the process.
SaveFails ==
  /\ queue # <<>>
  /\ ledger' \in {ledger, Head(queue).snap}
  /\ LET c == Head(queue).owner IN
     \/ /\ Head(queue).step = "intent"
        /\ records' = [records EXCEPT ![c].stage = "settling", ![c].status = "failed"]
        /\ Persist(Terminal(c, "failed"), Released(queue, FALSE), c, "terminal")
        /\ UNCHANGED phase
     \/ /\ Head(queue).step = "terminal"
        /\ records' = [records EXCEPT ![c].stage = "rejected"]
        /\ queue' = Released(queue, FALSE)
        /\ UNCHANGED <<phase, persisted, evicted>>
     \/ /\ Head(queue).step = "recovery"
        /\ phase' = "down"
        /\ queue' = <<>>
        /\ records' = [d \in Commands |-> None]
        /\ persisted' = [d \in Commands |-> None]
        /\ UNCHANGED evicted
  /\ UNCHANGED <<starts, epoch, issued, clock, effects, finished, answers>>

\* The mutation of a running command returns or throws.
ActionEnds(c, status) ==
  /\ phase = "up"
  /\ records[c] # None
  /\ records[c].stage = "running"
  /\ records' = [records EXCEPT ![c].stage = "settling", ![c].status = status]
  /\ finished' = [finished EXCEPT ![c] =
       IF status = "completed" THEN @ \cup {records[c].payload} ELSE @]
  /\ Persist(Terminal(c, status), queue, c, "terminal")
  /\ UNCHANGED <<phase, starts, epoch, issued, ledger, clock, effects, answers>>

\* The process dies.  A write in progress may already have replaced the file.
Crash ==
  /\ phase # "down"
  /\ phase' = "down"
  /\ ledger' \in {ledger} \cup (IF queue = <<>> THEN {} ELSE {Head(queue).snap})
  /\ records' = [c \in Commands |-> None]
  /\ persisted' = [c \in Commands |-> None]
  /\ queue' = <<>>
  /\ UNCHANGED <<starts, epoch, issued, clock, effects, finished, answers, evicted>>

\* Variants: every record, or an interrupted one, comes back as something else.
RecoveredAllFailed(r) == [r EXCEPT !.state = "failed"]
RecoveredCompleted(r) == [r EXCEPT !.state = IF @ = "started" THEN "completed" ELSE @]
RecoveredUntyped(r) == [r EXCEPT !.state = IF @ = "started" THEN "interrupted" ELSE @]

\* open(): a record still "started" is recovered as a failure.
Recovered(r) == IF r.state = "started" THEN [r EXCEPT !.state = "failed"] ELSE r

\* The persistedRecords of a process that has loaded the ledger.
RecoveredMap ==
  [c \in Commands |-> IF ledger[c] = None THEN None ELSE Recovered(ledger[c])]

\* The process starts: under the epoch of the plan the supervisor already
\* holds, or under a fresh one when the shell was restarted too.
Boot ==
  /\ phase = "down" /\ starts < MaxStarts
  /\ starts' = starts + 1
  /\ epoch' \in (IF starts = 0 THEN {1} ELSE {epoch, epoch + 1})
  /\ persisted' = RecoveredMap
  /\ records' = [c \in Commands |->
       IF ledger[c] = None THEN None
       ELSE [payload |-> ledger[c].payload, at |-> ledger[c].at,
             stage |-> "resolved", status |-> Recovered(ledger[c]).state, stamp |-> 0]]
  /\ IF \E c \in Known(ledger) : ledger[c].state = "started"
     THEN /\ phase' = "opening"
          /\ queue' = <<[snap |-> RecoveredMap, owner |-> None, step |-> "recovery"]>>
     ELSE /\ phase' = "up"
          /\ queue' = <<>>
  /\ UNCHANGED <<issued, ledger, clock, effects, finished, answers, evicted>>

----------------------------------------------------------------------------

Init ==
  /\ phase = "down" /\ starts = 0 /\ epoch = 0 /\ clock = 0
  /\ issued = [c \in Commands |-> None]
  /\ records = [c \in Commands |-> None]
  /\ persisted = [c \in Commands |-> None]
  /\ queue = <<>>
  /\ ledger = [c \in Commands |-> None]
  /\ effects = [c \in Commands |-> {}]
  /\ finished = [c \in Commands |-> {}]
  /\ answers = [c \in Commands |-> {}]
  /\ evicted = {}

Next ==
  \/ \E c \in Commands : Issue(c)
  \/ \E c \in Commands, p \in Payloads, t \in Times : Execute(c, p, t)
  \/ \E c \in Commands, p \in Payloads : Answer(c, p)
  \/ SaveSucceeds
  \/ SaveFails
  \/ \E c \in Commands, s \in Statuses : ActionEnds(c, s)
  \/ Crash
  \/ Boot

\* A write of the ledger file always ends, and a mutation returns or throws.
Fairness ==
  /\ WF_vars(SaveSucceeds \/ SaveFails)
  /\ \A c \in Commands : WF_vars(\E s \in Statuses : ActionEnds(c, s))

Spec == Init /\ [][Next]_vars
FairSpec == Spec /\ Fairness

----------------------------------------------------------------------------
(* Properties *)

\* A mutation runs at most once per commandId, across duplicates, retries
\* with a re-read epoch, failed saves and process restarts, as long as the
\* retention limit never dropped the command's record.
NoReplay == \A c \in Commands \ evicted : \A x, y \in effects[c] : x = y

\* Once a mutation began, its intent (or outcome) is in the ledger file, so
\* that a later process can account for it: the intent is durable first.
EffectsAreOnRecord == \A c \in Commands \ evicted : effects[c] # {} => ledger[c] # None

\* Clients of one commandId are never given two different receipts, whichever side
\* of a restart they ask on, and a "completed" receipt for a payload is only given
\* when the mutation with that payload ran to completion.
ReceiptsAgree ==
  /\ \A c \in Commands \ evicted : \A x, y \in answers[c] : x = y
  /\ \A c \in Commands, p \in Payloads : <<p, "completed">> \in answers[c] => p \in finished[c]

\* The documents' claim that a command carrying a stale epoch is refused: a
\* mutation only runs in the process whose epoch its client read.
StaleEpochsRefused == \A c \in Commands : \A x \in effects[c] : x.stamp = x.start
============================================================================
