--------------------------- MODULE SessionActivity ---------------------------
(* What PiSessionService tells the workspace activity of its sessions: the    *)
(* activity and status it publishes at the events of a runtime, at the timer  *)
(* after a turn, for shell commands and in its heartbeat. A runtime that is   *)
(* closed goes on publishing through its timer and its shell command, beside  *)
(* the runtime opened after it for the same session.                          *)
EXTENDS WorkspaceActivity

VARIABLES open,      \* active: the session has a runtime
          reported,  \* activities: "none", "active" or "idle"
          streaming, \* the runtimes whose turn runs: "own", or "old" once closed
          ends,      \* the current turn has sent agent_end
          bash,      \* the runtimes that run a shell command
          timers     \* the runtimes with a timer set by agent_end

sessionVars == <<open, reported, streaming, ends, bash, timers>>

Generations == {"own", "old"}

\* The flags of a runtime that statusFromSession reports.
Works(s, r) == r \in streaming[s] \/ r \in bash[s]
HasActiveWork(s) == Works(s, "own")

\* publishActivity, then publishStatus with the flags the runtime has then.
Says(s, p, working) ==
  /\ reported' = [reported EXCEPT ![s] = p]
  /\ RecordSession(s, WithStatus(WithActivity(known[s], p), working))

\* publishStatus alone: an activity without work is stale and becomes idle.
PublishStatus(s) ==
  /\ reported' = [reported EXCEPT ![s] =
                    IF @ = "active" /\ ~HasActiveWork(s) THEN "idle" ELSE @]
  /\ RecordSession(s, WithStatus(known[s], HasActiveWork(s)))

\* The end of create, which publishes the status of the new runtime.
OpenSession(s) ==
  /\ ~open[s]
  /\ open' = [open EXCEPT ![s] = TRUE]
  /\ PublishStatus(s)
  /\ UNCHANGED <<streaming, ends, bash, timers>>

AgentStarts(s) ==
  /\ open[s] /\ "own" \notin streaming[s]
  /\ streaming' = [streaming EXCEPT ![s] = @ \union {"own"}]
  /\ Says(s, "active", TRUE)
  /\ UNCHANGED <<open, ends, bash, timers>>

\* Messages and tools in a turn.
AgentReports(s, p) ==
  /\ open[s] /\ "own" \in streaming[s] /\ ~ends[s]
  /\ Says(s, p, TRUE)
  /\ UNCHANGED <<open, streaming, ends, bash, timers>>

\* agent_end: the session still streams when its listeners hear of it.
AgentEnds(s) ==
  /\ open[s] /\ "own" \in streaming[s] /\ ~ends[s]
  /\ ends' = [ends EXCEPT ![s] = TRUE]
  /\ timers' = [timers EXCEPT ![s] = @ \union {"own"}]
  /\ Says(s, "idle", TRUE)
  /\ UNCHANGED <<open, streaming, bash>>

\* It stops streaming after that, and nothing is published.
AgentSettles(s) ==
  /\ ends[s]
  /\ ends' = [ends EXCEPT ![s] = FALSE]
  /\ streaming' = [streaming EXCEPT ![s] = @ \ {"own"}]
  /\ UNCHANGED <<open, reported, bash, timers, known, shells, announced>>

\* The timer of agent_end, 250 ms later; the turn has stopped streaming by then.
TimerFires(s, r) ==
  /\ r \in timers[s] /\ (r = "own" => ~ends[s])
  /\ timers' = [timers EXCEPT ![s] = @ \ {r}]
  /\ Says(s, "idle", Works(s, r))
  /\ UNCHANGED <<open, streaming, ends, bash>>

\* shell: its start publishes an activity and no status.
Shell(s) ==
  /\ open[s] /\ "own" \notin bash[s]
  /\ bash' = [bash EXCEPT ![s] = @ \union {"own"}]
  /\ reported' = [reported EXCEPT ![s] = "active"]
  /\ RecordSession(s, WithActivity(known[s], "active"))
  /\ UNCHANGED <<open, streaming, ends, timers>>

ShellChunk(s, r) ==
  /\ r \in bash[s]
  /\ Says(s, "active", TRUE)
  /\ UNCHANGED <<open, streaming, ends, bash, timers>>

ShellEnds(s, r) ==
  /\ r \in bash[s]
  /\ bash' = [bash EXCEPT ![s] = @ \ {r}]
  /\ Says(s, "idle", r \in streaming[s])
  /\ UNCHANGED <<open, streaming, ends, timers>>

Older(runtimes) == IF "own" \in runtimes THEN {"old"} ELSE runtimes

\* closeActive: its listeners go first; the turn and the shell command end when
\* the abort that follows has taken effect, and the timer stays set.
CloseSession(s) ==
  /\ open[s]
  /\ open' = [open EXCEPT ![s] = FALSE]
  /\ reported' = [reported EXCEPT ![s] = "none"]
  /\ ends' = [ends EXCEPT ![s] = FALSE]
  /\ streaming' = [streaming EXCEPT ![s] = Older(@)]
  /\ bash' = [bash EXCEPT ![s] = Older(@)]
  /\ timers' = [timers EXCEPT ![s] = Older(@)]
  /\ RemoveSession(s)

OldTurnStops(s) ==
  /\ "old" \in streaming[s]
  /\ streaming' = [streaming EXCEPT ![s] = @ \ {"old"}]
  /\ UNCHANGED <<open, reported, ends, bash, timers, known, shells, announced>>

\* list reconciles the directory: a session that is neither open nor listed, as an
\* archived one, loses its record.
ListReconciles(s) ==
  /\ ~open[s] /\ IsSessionActive(known[s])
  /\ RemoveSession(s)
  /\ UNCHANGED sessionVars

\* A mutated heartbeat that trusts the activity it has.
HeartbeatOfActive(s) == reported[s] = "active"

\* publishHeartbeats: what works is said to work, and an activity left behind is stale.
HeartbeatSays(s) == HasActiveWork(s) \/ reported[s] = "active"

Heartbeat(s) ==
  /\ open[s] /\ HeartbeatSays(s)
  /\ IF HasActiveWork(s) THEN Says(s, "active", TRUE) ELSE PublishStatus(s)
  /\ UNCHANGED <<open, streaming, ends, bash, timers>>

SessionActivityInit ==
  /\ open = [s \in Agents |-> FALSE]
  /\ reported = [s \in Agents |-> "none"]
  /\ streaming = [s \in Agents |-> {}]
  /\ ends = [s \in Agents |-> FALSE]
  /\ bash = [s \in Agents |-> {}]
  /\ timers = [s \in Agents |-> {}]

SessionActivityNext ==
  \E s \in Agents :
    \/ OpenSession(s) \/ AgentStarts(s) \/ AgentEnds(s) \/ AgentSettles(s)
    \/ \E p \in {"active", "idle"} : AgentReports(s, p)
    \/ Shell(s) \/ CloseSession(s) \/ OldTurnStops(s) \/ ListReconciles(s) \/ Heartbeat(s)
    \/ \E r \in Generations : TimerFires(s, r) \/ ShellChunk(s, r) \/ ShellEnds(s, r)

------------------------------------------------------------------------------

ShownBusy(s) == IsSessionActive(known[s])
Alone(s) == "old" \notin streaming[s] \union bash[s] \union timers[s]

\* A session works and is not shown to. Whatever a closed runtime of it still publishes, the
\* heartbeat ends this (piSessionService.ts publishHeartbeats).
WorkIsHidden(s) == open[s] /\ HasActiveWork(s) /\ ~ShownBusy(s)

==============================================================================
