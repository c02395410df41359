------------------------- MODULE MCCommandReceipts -------------------------
(* Commands and their receipts, the Git commands and checkpoints, the caches of *)
(* the status, and the terminals and sessions in the workspace activity.       *)
(* Components that share no state: a behaviour is one of one of them, which    *)
(* the first state chooses.                                                    *)
EXTENDS CommandReceipts, Git, GitCheckpoints, StatusCaches, Terminals, SessionActivity, TLC

MCCwdOf == [x \in Agents \cup Terms |-> "c1"]

VARIABLES component,
          overlapped  \* history: the sessions of which a closed runtime went on publishing

receiptVars == vars
workspaceVars == <<activityVars, terminalVars, sessionVars, overlapped>>
allVars == <<component, receiptVars, gitVars, checkpointVars, cacheVars, workspaceVars>>

\* Terminals and sessions over the one activity service they report to.
WorkspacesInit == ActivityInit /\ TerminalsInit /\ SessionActivityInit /\ overlapped = {}

WorkspacesNext ==
  /\ \/ TerminalsNext /\ UNCHANGED sessionVars
     \/ SessionActivityNext /\ UNCHANGED terminalVars
  /\ overlapped' = overlapped \cup {s \in Agents : ~Alone(s)'}

MCInit ==
  /\ component \in {"receipts", "git", "checkpoints", "caches", "workspaces"}
  /\ Init /\ GitInit /\ CheckpointsInit /\ CachesInit /\ WorkspacesInit

MCNext ==
  /\ UNCHANGED component
  /\ \/ /\ component = "receipts" /\ Next
        /\ UNCHANGED <<gitVars, checkpointVars, cacheVars, workspaceVars>>
     \/ /\ component = "git" /\ GitNext
        /\ UNCHANGED <<receiptVars, checkpointVars, cacheVars, workspaceVars>>
     \/ /\ component = "checkpoints" /\ CheckpointsNext
        /\ UNCHANGED <<receiptVars, gitVars, cacheVars, workspaceVars>>
     \/ /\ component = "caches" /\ CachesNext
        /\ UNCHANGED <<receiptVars, gitVars, checkpointVars, workspaceVars>>
     \/ /\ component = "workspaces" /\ WorkspacesNext
        /\ UNCHANGED <<receiptVars, gitVars, checkpointVars, cacheVars>>

\* Turns that said so end, timers fire, and the heartbeat beats; turns may run for ever.
\* No session has any of these in its first state.
WorkspacesFairness ==
  \A s \in Agents :
    /\ WF_sessionVars(AgentSettles(s)) /\ WF_sessionVars(OldTurnStops(s))
    /\ WF_<<sessionVars, activityVars>>(Heartbeat(s))
    /\ \A r \in Generations : WF_sessionVars(TimerFires(s, r))

MCSpec == MCInit /\ [][MCNext]_allVars /\ Fairness /\ WorkspacesFairness

------------------------------------------------------------------------------

\* A session has stopped and is shown to work, and no closed runtime of it has published. The
\* end of a turn is reported while it still streams; its timer or a heartbeat corrects that
\* (piSessionService.ts publishActivityForEvent).
EndIsHidden(s) == s \notin overlapped /\ open[s] /\ ~HasActiveWork(s) /\ ShownBusy(s)

Outstanding ==
  \/ component = "receipts" /\ \E c \in Commands : records[c] # None /\ records[c].stage \in InFlight
  \/ component = "workspaces" /\ \E s \in Agents : WorkIsHidden(s) \/ EndIsHidden(s)

\* Accepted commands settle, unless the process dies: a failed save does not leave the queue stuck
\* behind it (runtimeCommandReceipts.ts persist); there are finitely many. What a session does is
\* shown in the end: that it works, whatever a closed runtime of it still publishes, and that it
\* has stopped, if none does (piSessionService.ts publishHeartbeats, publishActivityForEvent).
NothingIsOutstanding == []<>~Outstanding

\* A status shows no configuration that a write had replaced, and no release older than one that
\* was shown before (piWebStatusCache.ts, piWebReleaseLookupCache.ts).
CachesAreCurrent == [][StatusIsCurrent']_cacheVars /\ CachesGoForward

\* Git keeps what it was given: the branch and the remote only grow, and the checkpoints that
\* were acknowledged stay, in their order (gitService.ts, gitCheckpointStore.ts).
NothingIsUndone == HistoryIsKept /\ []CheckpointsAreKept

\* The terminals and sessions of the daemon are shown as they are (terminalService.ts,
\* workspaceActivityService.ts).
TerminalsAgree == ShellsAreRunning /\ AnnouncedIsCurrent /\ ViewersAgree
============================================================================
