----------------------------- MODULE SessionRoutes -----------------------------
(* The HTTP routes of sessions: what each asks of the service, how it finds the   *)
(* session and its runtime, and which requests run under a command receipt.       *)
(* Both runtimes are behind one service that sends a request to one of them: a    *)
(* request that names none goes to the default runtime, which the configuration   *)
(* chooses when the daemon starts. Receipts outlive a restart.                    *)
EXTENDS FiniteSets, Sequences

CONSTANTS Ids,      \* sessions
          Owner,    \* the runtime that has a session
          Bodies    \* texts, entries, paths and answers

VARIABLES defaultRuntime, \* the runtime of requests that name none, while the daemon runs
          receipts, \* the record of the command, if there is one: [kind, fingerprint, effect,
                    \* default], the last two for history: what it did, and by what default
          call,     \* the request being answered
          ran,      \* what it made the runtimes do
          answer    \* "ok", "bad" (400), "missing" (404), "conflict" (409) or "stale" (409)

routeVars == <<defaultRuntime, receipts, call, ran, answer>>

Runtimes == {"pi", "omp"}

ASSUME OwnerAssumption == Owner \in [Ids -> Runtimes]

Unset == "unset"

\* A route's operation; where its reference is read; whether it takes a command.
Routes(ops, lookup, commands) == [op : ops, lookup : {lookup}, commands : {commands}]

Catalogs == Routes({"runtimes", "notificationCatalog", "unreadCatalog"}, "none", "never")
Lists == Routes({"list"}, "cwd", "never") \union Routes({"start"}, "cwd", "may")
Unread == Routes({"acknowledgeUnread"}, "none", "never")
Interactions ==
  Routes({"interactions"}, "strictQuery", "never") \union Routes({"respond"}, "strictBody", "must")
Cleanups == Routes({"cleanupPreview", "cleanup"}, "none", "never")
Bulks == Routes({"archiveMany", "deleteArchivedMany"}, "refs", "never")
Notifications ==
  Routes({"inbox"}, "strictQuery", "never")
  \union Routes({"dismiss", "dismissAll"}, "strictBody", "never")
Reads == Routes({"messages", "status", "streamSnapshot", "models"}, "query", "never")
Settings ==
  Routes({"setModel", "cycleModel", "setThinkingLevel", "cycleThinkingLevel"}, "body", "never")
  \union Routes({"thinkingLevels", "commands"}, "query", "never")
Prompts ==
  Routes({"prompt"}, "body", "may")
  \union Routes({"clearQueue", "dismissWarning", "attachments", "shell"}, "body", "never")
CommandRoutes ==
  Routes({"runCommand", "respondToCommand"}, "body", "never")
  \union Routes({"forkCandidates"}, "query", "never")
Forks == Routes({"fork", "import"}, "body", "must")
Stops == Routes({"navigateTree", "abort", "stop"}, "body", "never")
Archives == Routes({"archive", "restore"}, "body", "may") \union Routes({"archiveTree"}, "body", "never")
Deletes ==
  Routes({"deleteArchived"}, "query", "may") \union Routes({"reload", "detachParent"}, "body", "never")

AllRoutes ==
  UNION {Catalogs, Lists, Unread, Interactions, Cleanups, Bulks, Notifications, Reads, Settings,
         Prompts, CommandRoutes, Forks, Stops, Archives, Deletes}

\* Operations that the service keeps for the Pi runtime.
PiOnly == {"notificationCatalog", "unreadCatalog", "acknowledgeUnread", "cleanupPreview", "cleanup"}
\* Those it asks both for.
OfBoth == {"runtimes", "list"}
WithPayload == {"respond", "prompt", "fork", "import"}

\* sessionLookupFromQuery and FromBody: without a cwd only the id counts.
LookupRuntime(r) ==
  IF r.route.lookup = "none" \/ (~r.cwd /\ r.route.lookup \in {"query", "body"}) THEN Unset
  ELSE r.runtime

\* serviceForLookup, and start, by a default.
ServiceFor(r, default) == IF LookupRuntime(r) = Unset THEN default ELSE LookupRuntime(r)

\* A mutated partition that leaves out references that name no runtime.
PartitionNamed(refs) == [rt \in Runtimes |-> {ref \in refs : ref.runtime = rt}]

\* partitionRefs: a reference that names no runtime is Pi's, whatever the default.
Partition(refs) ==
  [rt \in Runtimes |-> {ref \in refs : (ref.runtime = "omp") = (rt = "omp")}]

\* A reference without a cwd that needs one is refused.
Readable(r) == r.route.lookup \in {"cwd", "strictQuery", "strictBody"} => r.cwd

\* commandId and runtimeEpoch come together, and some routes need them.
Commanded(r) == r.route.commands # "never" /\ r.command /\ r.epoch # Unset
WellCommanded(r) ==
  /\ r.route.commands = "may" => (r.command <=> r.epoch # Unset)
  /\ r.route.commands = "must" => r.command /\ r.epoch # Unset

\* A mutated fingerprint that leaves the runtime out.
FingerprintOfSession(r) ==
  [id |-> r.id, cwd |-> r.cwd, runtime |-> Unset, payload |-> r.payload]

\* native...Command: what two requests with one commandId must share.
Fingerprint(r) ==
  [id |-> IF r.route.op = "start" THEN Unset ELSE r.id, cwd |-> r.cwd,
   runtime |-> LookupRuntime(r), payload |-> r.payload]

\* What a request has a runtime do.
Effect(r, rt) == [op |-> r.route.op, id |-> IF r.route.op = "start" THEN Unset ELSE r.id,
                  runtime |-> rt, payload |-> r.payload]
EffectsOf(r, default) ==
  IF r.route.op \in PiOnly THEN {Effect(r, "pi")}
  ELSE IF r.route.op \in OfBoth THEN {Effect(r, rt) : rt \in Runtimes}
  ELSE IF r.route.lookup = "refs"
  THEN {Effect(r, rt) : rt \in {x \in Runtimes : Partition({[runtime |-> r.runtime]})[x] # {}}}
  ELSE {Effect(r, ServiceFor(r, default))}

\* The runtime that is asked knows its own sessions only.
Found(r) ==
  r.route.lookup \notin {"query", "body", "strictQuery", "strictBody"} \/ Owner[r.id] = ServiceFor(r, defaultRuntime)

RequestsTo(route) ==
  [route : {route}, id : Ids, cwd : BOOLEAN, runtime : Runtimes \union {Unset},
   command : IF route.commands = "never" THEN {FALSE} ELSE BOOLEAN,
   epoch : IF route.commands = "never" THEN {Unset} ELSE {Unset, "now", "old"},
   payload : IF route.op \in WithPayload THEN Bodies ELSE {Unset}]
Requests == UNION {RequestsTo(route) : route \in AllRoutes}

Refused(status) == answer' = status /\ ran' = {} /\ UNCHANGED receipts
Runs(r) ==
  /\ answer' = IF Found(r) THEN "ok" ELSE "missing"
  /\ ran' = EffectsOf(r, defaultRuntime)

\* RuntimeCommandReceipts.execute; a failed action is recorded as well.
RunsOnce(r) ==
  IF receipts # {}
  THEN /\ \E known \in receipts :
            answer' = IF known.kind = r.route.op /\ known.fingerprint = Fingerprint(r)
                      THEN "ok" ELSE "conflict"
       /\ ran' = {} /\ UNCHANGED receipts
  ELSE IF r.epoch # "now" THEN Refused("stale")
  ELSE /\ receipts' = {[kind |-> r.route.op, fingerprint |-> Fingerprint(r),
                        effect |-> EffectsOf(r, defaultRuntime), default |-> defaultRuntime]}
       /\ answer' = "ok" /\ ran' = EffectsOf(r, defaultRuntime)

NoCall == [route |-> [op |-> Unset, lookup |-> "none", commands |-> "never"], id |-> Unset,
           cwd |-> FALSE, runtime |-> Unset, command |-> FALSE, epoch |-> Unset, payload |-> Unset]

HandleRequest(r) ==
  /\ call = NoCall /\ call' = r /\ UNCHANGED defaultRuntime
  /\ IF ~Readable(r) \/ ~WellCommanded(r) THEN Refused("bad")
     ELSE IF Commanded(r) THEN RunsOnce(r)
     ELSE Runs(r) /\ UNCHANGED receipts

Reply ==
  /\ call # NoCall /\ call' = NoCall
  /\ ran' = {} /\ answer' = "ok" /\ UNCHANGED <<receipts, defaultRuntime>>

\* The daemon ends and starts again, with the configuration there is then.
Restart ==
  /\ defaultRuntime' \in Runtimes
  /\ call' = NoCall /\ ran' = {} /\ answer' = "ok" /\ UNCHANGED receipts

RoutesInit ==
  defaultRuntime \in Runtimes /\ receipts = {} /\ call = NoCall /\ ran = {} /\ answer = "ok"
RoutesNext == Reply \/ Restart \/ \E r \in Requests : HandleRequest(r)

------------------------------------------------------------------------------

\* A retry that a receipt answers asked for what the receipt is about: the same operation
\* of the same session in the same runtime, which is the default of then if the two name
\* none, whatever the default is since (sessionRoutes.ts native...Command fingerprints).
RetriesMeanTheSame ==
  Commanded(call) /\ answer = "ok" /\ ran = {} =>
    \E known \in receipts : known.effect = EffectsOf(call, known.default)

\* A request that names its session's runtime and directory is carried out there and
\* nowhere else, and so is one that names no runtime when the default one has the session
\* (of bulk operations, only when that is Pi: their references that name none are Pi's);
\* and none that names a runtime does anything in the other, with a command or without
\* (multiRuntimeSessionService.ts serviceForLookup, partitionRefs).
OwnersServe ==
  LET lookup == call.route.lookup
      byDefault == call.runtime = Unset /\ Owner[call.id] = defaultRuntime
                   /\ (lookup = "refs" => defaultRuntime = "pi")
  IN lookup \in {"query", "body", "strictQuery", "strictBody", "refs"} /\ call.cwd =>
       /\ (call.runtime = Owner[call.id] \/ byDefault)
            /\ answer \notin {"bad", "conflict", "stale"} /\ ~call.command
            => ran = {Effect(call, Owner[call.id])} /\ answer = "ok"
       /\ call.runtime # Unset => \A effect \in ran : effect.runtime = call.runtime

\* Requests reach the session they name, and their retries mean the same.
RequestsAreFaithful == RetriesMeanTheSame /\ OwnersServe
==============================================================================
