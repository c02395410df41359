---------------------------- MODULE MCOmpRuntime ----------------------------
(* The daemon and what is outside it: OMP processes and the lines they send,   *)
(* providers that log in, the Keychain, sessions that are told of lost          *)
(* credentials, the sockets of clients, and commands that replace the session   *)
(* of a runtime. They share no state: a behaviour is one of one of them, which  *)
(* the first state chooses.                                                     *)
EXTENDS OmpRuntime, OmpFrames, Framing, LoginFlows, LegacyAuth, AuthWarnings, Bridges, SessionCommands, TLC

VARIABLE component

ompVars == vars
allVars == <<component, ompVars, ompFrameVars, framingVars, loginVars, authVars, warningVars, bridgeVars, commandVars>>

\* The components that rest are in one initial state.
MCInit ==
  /\ component \in {"omp", "frames", "framing", "logins", "legacy", "warnings", "bridges", "commands"}
  /\ Init /\ OmpFramesInit /\ FramingInit /\ LoginInit /\ AuthInit /\ WarningsInit /\ BridgesInit /\ CommandsInit
  /\ component = "omp" \/ installed
  /\ component = "bridges" \/ \A c \in Connections : kind[c] = "session"

MCNext ==
  /\ UNCHANGED component
  /\ \/ /\ component = "omp" /\ Next
        /\ UNCHANGED <<ompFrameVars, framingVars, loginVars, authVars, warningVars, bridgeVars, commandVars>>
     \/ /\ component = "frames" /\ OmpFramesNext
        /\ UNCHANGED <<ompVars, framingVars, loginVars, authVars, warningVars, bridgeVars, commandVars>>
     \/ /\ component = "framing" /\ FramingNext
        /\ UNCHANGED <<ompVars, ompFrameVars, loginVars, authVars, warningVars, bridgeVars, commandVars>>
     \/ /\ component = "logins" /\ LoginNext
        /\ UNCHANGED <<ompVars, ompFrameVars, framingVars, authVars, warningVars, bridgeVars, commandVars>>
     \/ /\ component = "legacy" /\ AuthNext
        /\ UNCHANGED <<ompVars, ompFrameVars, framingVars, loginVars, warningVars, bridgeVars, commandVars>>
     \/ /\ component = "warnings" /\ WarningsNext
        /\ UNCHANGED <<ompVars, ompFrameVars, framingVars, loginVars, authVars, bridgeVars, commandVars>>
     \/ /\ component = "bridges" /\ BridgesNext
        /\ UNCHANGED <<ompVars, ompFrameVars, framingVars, loginVars, authVars, warningVars, commandVars>>
     \/ /\ component = "commands" /\ CommandsNext
        /\ UNCHANGED <<ompVars, ompFrameVars, framingVars, loginVars, authVars, warningVars, bridgeVars>>

\* Timers fire and promises resolve; nobody has to answer a prompt.
LoginFairness ==
  \A f \in Flows :
    WF_loginVars(Expire(f)) /\ WF_loginVars(Resolve(f)) /\ WF_loginVars(Complete(f))

MCSpec == MCInit /\ [][MCNext]_allVars /\ Fairness /\ LoginFairness

------------------------------------------------------------------------------

Outstanding ==
  \/ component = "omp" /\ \E r \in Requests : RequestWaits(r)
  \/ component = "logins" /\ \E f \in Flows : waits[f] # {}

\* Requests end, but for shell commands and those that wait for a process that could not be
\* spawned (ompSessionService.ts getOrOpen), and a provider does not wait for ever on a prompt
\* that nobody answers (oauthLoginFlowService.ts); there are finitely many of either.
NothingIsOutstanding == []<>~Outstanding

\* OMP sessions are served by one healthy runtime, a failed one is not handed out under the id
\* it was opened for, and what a runtime tells of its process is so once all was read
\* (ompSessionService.ts getOrOpen, createRuntime; ompSessionRuntime.ts reduceFrame, refresh).
RuntimesServe ==
  /\ OneHealthyRuntime /\ FailedAreUnlisted
  /\ RestIsKnown /\ SnapshotsAreCurrent /\ ShownShellsRun

\* Credentials are as they are said to be: a login shows its prompt while it can be answered, and
\* is complete once it saved its credential; what the record of a migration says is so of all it
\* wrote; and a session is told once that those of its model are (oauthLoginFlowService.ts,
\* legacyAuthMigration.ts, piSessionService.ts applyAuthChange).
CredentialsAgree ==
  /\ ShownCanBeAnswered /\ CommittedIsComplete /\ RecordsAreTrue /\ LossesAreTold
============================================================================
