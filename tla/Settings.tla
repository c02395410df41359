------------------------------ MODULE Settings ------------------------------
(* The settings file of one machine (config.ts), as configRoutes.ts serves it   *)
(* and as another machine's gateway changes it (machineProxyRoutes.ts): whole    *)
(* updates, and selected updates, which read, merge and write back. Between the  *)
(* reading and the writing another update or an editor may change the file, and  *)
(* the machine may run an older program that does not know the agent profile.    *)
EXTENDS Naturals

CONSTANTS MaxEdits  \* bound: edits by hand and whole updates

VARIABLES file,   \* what the file says, key by key
          json,   \* the file is JSON
          dirSet, \* PI_WEB_AGENT_DIR is set
          knows,  \* the machine's program knows the agent key
          update, \* the selected update under way: [at, patch, read, still]; still:
                  \* neither the file nor the program changed since it was read
          edits,
          writer  \* history: who wrote the file last

settingsVars == <<file, json, dirSet, knows, update, edits, writer>>

\* "host" stands for what only a whole update may change, "plugins" for what a selected
\* one may change too, "other" for a key the program does not know.
Values(k) == CASE k = "host"          -> {"none", "a", "bad"}
               [] k = "plugins"       -> {"none", "a"}
               [] k = "agent"         -> {"none", "pi", "without dir"}
               [] k = "agentRuntimes" -> {"none", "a"}
               [] k = "other"         -> {"none", "a"}
Keys == {"host", "plugins", "agent", "agentRuntimes", "other"}
Configs ==
  [host : Values("host"), plugins : Values("plugins"), agent : Values("agent"),
   agentRuntimes : Values("agentRuntimes"), other : Values("other")]
Empty == [k \in Keys |-> "none"]

\* SELECTED_MACHINE_CONFIG_KEYS
Selected == {"plugins", "agent", "agentRuntimes"}
Known == IF knows THEN Keys \ {"other"} ELSE Keys \ {"other", "agent"}

\* parseConfigRequest and parsePiWebConfig read the keys they know.
Parsed(c) == [k \in Keys |-> IF k \in Known THEN c[k] ELSE "none"]
Valid(c) == Parsed(c)["host"] # "bad"

\* effectiveAgentConfig: a command of one's own needs a directory.
AgentResolves(c) == ~knows \/ dirSet \/ c["agent"] # "without dir"

\* loadPiWebConfig and resolveEffectivePiWebConfig answer, or throw.
Loadable(c) == Valid(c) /\ AgentResolves(c)

\* What the environment overrides is in effect, and not in the file.
Effective(c) ==
  [Parsed(c) EXCEPT !["agent"] = IF @ = "none" \/ dirSet THEN "pi" ELSE @]

\* Mutant: the file is what the program knows.
SavedAlone(c) == Parsed(c)

\* savePiWebConfig: keys it does not know stay, and agentRuntimes if none is given.
Saved(c) ==
  [k \in Keys |-> IF k \notin Known \/ (k = "agentRuntimes" /\ c[k] = "none") THEN file[k] ELSE c[k]]

\* Mutant: the configuration is not tried first.
AcceptsValid(c) == json /\ Valid(c)

\* What savePiWebConfig refuses before it writes.
Accepts(c) == json /\ Valid(c) /\ AgentResolves(c)

\* Mutant: what is in effect is merged and written back.
MergeEffective(c, patch) == [k \in Keys |-> IF k \in Selected /\ patch[k] # "none" THEN patch[k] ELSE Effective(c)[k]]

\* mergeSelectedMachineConfig
Merge(c, patch) == [k \in Keys |-> IF k \in Selected /\ patch[k] # "none" THEN patch[k] ELSE c[k]]

NoUpdate == [at |-> "none", patch |-> Empty, read |-> Empty, still |-> TRUE]

\* parseSelectedMachineConfigRequest refuses every other key.
Patches ==
  [host : {"none"}, plugins : Values("plugins"), agent : Values("agent"),
   agentRuntimes : Values("agentRuntimes"), other : {"none"}]

------------------------------------------------------------------------------

Others == edits < MaxEdits /\ edits' = edits + 1 /\ update' = [update EXCEPT !.still = FALSE]

\* PUT /api/config, with one change of what was read.
PutConfig(k, v) ==
  LET c == [Parsed(file) EXCEPT ![k] = v] IN
  /\ Others /\ k # "other" /\ Accepts(c)
  /\ file' = Saved(c) /\ writer' = "program"
  /\ UNCHANGED <<json, dirSet, knows>>

\* Someone edits the file.
EditByHand(k, v, isJson) ==
  /\ Others
  /\ file' = [file EXCEPT ![k] = v] /\ json' = isJson /\ writer' = "editor"
  /\ UNCHANGED <<dirSet, knows>>

\* The machine restarts with a program that knows the agent profile.
Upgrade ==
  /\ ~knows
  /\ knows' = TRUE /\ update' = [update EXCEPT !.still = FALSE]
  /\ UNCHANGED <<file, json, dirSet, edits, writer>>

\* The current configuration is read; a file that does not load refuses the update.
ReadSelected(patch) ==
  /\ update.at = "none"
  /\ update' = IF json /\ Loadable(file)
               THEN [at |-> "read", patch |-> patch, read |-> Parsed(file), still |-> TRUE]
               ELSE [NoUpdate EXCEPT !.at = "refused"]
  /\ UNCHANGED <<file, json, dirSet, knows, edits, writer>>

\* The merged configuration is written, and what was written is read back.
PutSelected ==
  /\ update.at = "read"
  /\ LET merged == Merge(update.read, update.patch) IN
     IF Accepts(merged)
     THEN /\ file' = Saved(merged) /\ writer' = "program"
          /\ update' = [update EXCEPT !.at = "written", !.read = Parsed(Saved(merged))]
     ELSE update' = [update EXCEPT !.at = "refused"] /\ UNCHANGED <<file, writer>>
  /\ UNCHANGED <<json, dirSet, knows, edits>>

\* Mutant: any successful write is a success.
AnsweredAnyway == TRUE

\* sameAgentProfile: the answer is compared with the profile that was asked for.
SameAgentProfile == update.patch["agent"] \in {"none", update.read["agent"]}

\* sendSelectedMachineConfigResponse: 409 if the profile was not kept.
AnswerSelected ==
  /\ update.at = "written"
  /\ update' = [update EXCEPT !.at = IF SameAgentProfile THEN "done" ELSE "conflict"]
  /\ UNCHANGED <<file, json, dirSet, knows, edits, writer>>

UpdateEnds ==
  /\ update.at \in {"done", "conflict", "refused"}
  /\ update' = NoUpdate
  /\ UNCHANGED <<file, json, dirSet, knows, edits, writer>>

SettingsInit ==
  /\ file \in Configs /\ json = TRUE /\ writer = "editor"
  /\ dirSet \in BOOLEAN /\ knows \in BOOLEAN
  /\ update = NoUpdate /\ edits = 0

SettingsNext ==
  \/ \E k \in Keys : \E v \in Values(k) :
       PutConfig(k, v) \/ \E isJson \in BOOLEAN : EditByHand(k, v, isJson)
  \/ \E patch \in Patches : ReadSelected(patch)
  \/ Upgrade \/ PutSelected \/ AnswerSelected \/ UpdateEnds

------------------------------------------------------------------------------

\* A selected update changes no key it does not name, if nothing else changed the file
\* since it was read, whatever the environment overrides and whichever keys the
\* program does not know; and no update of either kind loses a key the program does
\* not know (machineProxyRoutes.ts proxySelectedMachineConfigRequest, config.ts
\* savePiWebConfig).
UnnamedKeysStay ==
  [][/\ PutSelected /\ update.still => \A k \in Keys : update.patch[k] = "none" => file'[k] = file[k]
     /\ writer' = "program" => file'["other"] = file["other"]]_settingsVars

\* An answer of success means the machine kept the agent profile that was asked for,
\* and an accepted update leaves a file the program can load and start from.
AcceptedIsInEffect ==
  /\ update.at = "done" /\ update.patch["agent"] # "none" => update.read["agent"] = update.patch["agent"]
  /\ update.at = "written" /\ update.still /\ knows => Loadable(file)
==============================================================================
