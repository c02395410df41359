-------------------------- MODULE WorkspaceActivity --------------------------
(* The WorkspaceActivityService of the daemon: which sessions and terminals   *)
(* of a directory are at work, and the summary of a directory it publishes    *)
(* after each change. The terminal service and the session services write     *)
(* here: Terminals and SessionActivity extend this module, and                *)
(* MCCommandReceipts composes them.                                           *)
CONSTANTS Agents, Terms,   \* identities of sessions and of terminals
          Cwds, CwdOf        \* directories, and the one of each session and terminal

VARIABLES known,      \* SessionRecord of a session; both FALSE stands for no record
          shells,     \* the terminals the service knows
          announced   \* the last summary published for each directory

activityVars == <<known, shells, announced>>

Quiet == [active |-> FALSE, busy |-> FALSE]
IsSessionActive(record) == record.active \/ record.busy

\* What clients are told of a directory.
Summary(cwd, records, terminals) ==
  [sessions  |-> \E s \in Agents : CwdOf[s] = cwd /\ IsSessionActive(records[s]),
   terminals |-> \E t \in terminals : CwdOf[t] = cwd]

NoActivity == [sessions |-> FALSE, terminals |-> FALSE]

\* A mutated service that publishes what it knew before the change.
PublishCwdBefore(x, records, terminals) ==
  announced' = [announced EXCEPT ![CwdOf[x]] = Summary(CwdOf[x], known, shells)]

\* publishCwd: the summary of a directory goes out, whatever it was before.
PublishCwd(x, records, terminals) ==
  announced' = [announced EXCEPT ![CwdOf[x]] = Summary(CwdOf[x], records, terminals)]

\* An idle status removes an activity that says the session is active; a record
\* with nothing to say is pruned.
WithStatus(record, working) ==
  [active |-> record.active /\ working, busy |-> working]

WithActivity(record, phase) == [record EXCEPT !.active = (phase = "active")]

RecordSession(s, record) ==
  /\ known' = [known EXCEPT ![s] = record]
  /\ PublishCwd(s, known', shells)
  /\ UNCHANGED shells

RemoveSession(s) == RecordSession(s, Quiet)

UpdateTerminal(t, exited) ==
  /\ shells' = IF exited THEN shells \ {t} ELSE shells \union {t}
  /\ PublishCwd(t, known, shells')
  /\ UNCHANGED known

RemoveTerminal(t) == UpdateTerminal(t, TRUE)

ActivityInit ==
  /\ known = [s \in Agents |-> Quiet]
  /\ shells = {}
  /\ announced = [c \in Cwds |-> NoActivity]

\* A client that applies every published summary shows what the service holds:
\* no change of a session or a terminal goes unpublished
\* (workspaceActivityService.ts publishChangedCwds, publishCwd).
AnnouncedIsCurrent ==
  \A c \in Cwds : announced[c] = Summary(c, known, shells)
==============================================================================
