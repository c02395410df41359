------------------------------ MODULE Terminals ------------------------------
(* TerminalService: terminals with their pty processes, the command runs, the *)
(* replay buffer and the sockets attached to a terminal. A process outlives   *)
(* the record of a closed terminal until the kill has taken effect, and its   *)
(* exit is handled then.                                                      *)
EXTENDS WorkspaceActivity, Naturals, Sequences

CONSTANTS Viewers,     \* sockets
          BufferSize,  \* MAX_REPLAY_BUFFER, in outputs
          MaxOutput    \* bound: outputs of a terminal

ASSUME TerminalsAssumption == BufferSize \in Nat /\ MaxOutput \in Nat

VARIABLES term,      \* terminals: "none", "live", "exited" or "closed" (ids are never reused)
          buffer,    \* the replay buffer of each terminal
          process,   \* its pty: "none", "runs", "killed" or "ended"
          runOf,     \* commandRunId of the record: does its exit end the command run?
          run,       \* commandRuns: "none", "running", "succeeded" or "failed"
          outputs,   \* how much a terminal has printed
          screen       \* what each socket shows: the terminal it is attached to and its text

terminalVars == <<term, buffer, process, runOf, run, outputs, screen>>

Detached == [at |-> "none", text |-> <<>>, over |-> FALSE]

Open(t) == term[t] \in {"live", "exited"}
Final(status) == status \in {"succeeded", "failed"}

TrimReplayBuffer(text) ==
  IF Len(text) > BufferSize THEN SubSeq(text, Len(text) - BufferSize + 1, Len(text)) ELSE text

\* The listeners of a terminal: the sockets attached to it.
Emitted(t, data) ==
  [v \in Viewers |->
     IF screen[v].at = t
     THEN [screen[v] EXCEPT !.text = TrimReplayBuffer(Append(@, data)), !.over = FALSE]
     ELSE screen[v]]

\* createTerminal, for an interactive shell or, with a command run, for a command.
CreateTerminal(t, command) ==
  /\ term[t] = "none"
  /\ term' = [term EXCEPT ![t] = "live"]
  /\ process' = [process EXCEPT ![t] = "runs"]
  /\ runOf' = [runOf EXCEPT ![t] = command]
  /\ run' = IF command THEN [run EXCEPT ![t] = "running"] ELSE run
  /\ UpdateTerminal(t, FALSE)
  /\ UNCHANGED <<buffer, outputs, screen>>

OpenShell(t) == CreateTerminal(t, FALSE)
RunCommand(t) == CreateTerminal(t, TRUE)

\* The process prints: onData. The data of a closed terminal has no listener left.
Output(t) ==
  /\ process[t] \in {"runs", "killed"}
  /\ outputs[t] < MaxOutput
  /\ outputs' = [outputs EXCEPT ![t] = @ + 1]
  /\ buffer' = [buffer EXCEPT ![t] = TrimReplayBuffer(Append(@, outputs[t]))]
  /\ screen' = IF Open(t) THEN Emitted(t, outputs[t]) ELSE screen
  /\ UNCHANGED <<term, process, runOf, run, known, shells, announced>>

\* completeCommandRun: a run ends once, with the exit of its own process.
Completed(t, code) ==
  IF runOf[t] /\ ~Final(run[t])
  THEN [run EXCEPT ![t] = IF code = 0 THEN "succeeded" ELSE "failed"]
  ELSE run

\* onExit, for a terminal that is listed or was closed meanwhile.
Exit(t, code) ==
  /\ process[t] \in {"runs", "killed"}
  /\ process' = [process EXCEPT ![t] = "ended"]
  /\ term' = IF Open(t) THEN [term EXCEPT ![t] = "exited"] ELSE term
  /\ run' = Completed(t, code)
  /\ screen' = [v \in Viewers |->
                IF screen[v].at = t /\ Open(t) THEN [screen[v] EXCEPT !.over = TRUE] ELSE screen[v]]
  /\ UpdateTerminal(t, TRUE)
  /\ UNCHANGED <<buffer, runOf, outputs>>

\* continue: an interactive shell in the place of a process that ended. The new
\* pty may fail to start after the record has been reset.
Continue(t, starts) ==
  /\ term[t] = "exited"
  /\ outputs[t] < MaxOutput
  /\ term' = [term EXCEPT ![t] = "live"]
  /\ runOf' = [runOf EXCEPT ![t] = FALSE]
  /\ outputs' = [outputs EXCEPT ![t] = @ + 1]
  /\ buffer' = [buffer EXCEPT ![t] = TrimReplayBuffer(Append(@, outputs[t]))]
  /\ screen' = Emitted(t, outputs[t])
  /\ IF starts
     THEN /\ process' = [process EXCEPT ![t] = "runs"]
          /\ UpdateTerminal(t, FALSE)
     ELSE UNCHANGED <<process, known, shells, announced>>
  /\ UNCHANGED run

\* close: the record goes, its listeners with it, and a process that runs is killed.
CloseTerminal(t) ==
  /\ Open(t)
  /\ term' = [term EXCEPT ![t] = "closed"]
  /\ process' = [process EXCEPT ![t] = IF @ = "runs" THEN "killed" ELSE @]
  /\ RemoveTerminal(t)
  /\ UNCHANGED <<buffer, runOf, run, outputs, screen>>

\* closeForCwd: every terminal of a directory, in one go.
CloseForCwd(cwd) ==
  LET closing == {t \in Terms : Open(t) /\ CwdOf[t] = cwd}
  IN /\ closing # {}
     /\ term' = [t \in Terms |-> IF t \in closing THEN "closed" ELSE term[t]]
     /\ process' = [t \in Terms |->
                      IF t \in closing /\ process[t] = "runs" THEN "killed" ELSE process[t]]
     /\ shells' = shells \ closing
     /\ announced' = [announced EXCEPT ![cwd] = Summary(cwd, known, shells')]
     /\ UNCHANGED <<buffer, runOf, run, outputs, screen, known>>

\* A mutated attachment to what comes next only.
ReplayedNothing(t) == [at |-> t, text |-> <<>>, over |-> term[t] = "exited"]

\* What a socket is sent when it attaches: the buffer, and the exit that was.
Replayed(t) == [at |-> t, text |-> buffer[t], over |-> term[t] = "exited"]

Attach(v, t) ==
  /\ screen[v].at = "none" /\ Open(t)
  /\ screen' = [screen EXCEPT ![v] = Replayed(t)]
  /\ UNCHANGED <<term, buffer, process, runOf, run, outputs, known, shells, announced>>

Detach(v) ==
  /\ screen[v].at # "none"
  /\ screen' = [screen EXCEPT ![v] = Detached]
  /\ UNCHANGED <<term, buffer, process, runOf, run, outputs, known, shells, announced>>

TerminalsInit ==
  /\ term = [t \in Terms |-> "none"]
  /\ buffer = [t \in Terms |-> <<>>]
  /\ process = [t \in Terms |-> "none"]
  /\ runOf = [t \in Terms |-> FALSE]
  /\ run = [t \in Terms |-> "none"]
  /\ outputs = [t \in Terms |-> 0]
  /\ screen = [v \in Viewers |-> Detached]

TerminalsNext ==
  \/ \E t \in Terms :
       \/ OpenShell(t) \/ RunCommand(t) \/ Output(t)
       \/ \E code \in {0, 1} : Exit(t, code)
       \/ \E starts \in BOOLEAN : Continue(t, starts)
       \/ CloseTerminal(t)
       \/ \E v \in Viewers : Attach(v, t)
  \/ \E v \in Viewers : Detach(v)
  \/ \E cwd \in Cwds : CloseForCwd(cwd)

------------------------------------------------------------------------------

\* The service knows the terminals that are open with a process that runs, and no
\* other: the late exit of a closed terminal does not bring it back, and neither
\* does a continued shell that failed to start
\* (terminalService.ts attachPtyEvents, close, continue).
ShellsAreRunning ==
  shells = {t \in Terms : term[t] = "live" /\ process[t] = "runs"}

\* A socket attached to an open terminal shows what a socket that attaches now is
\* sent: nothing is lost or doubled between the replay and what follows it, through
\* exits, continued shells and a full buffer (terminalService.ts attach, onData).
ViewersAgree ==
  \A v \in Viewers :
    screen[v].at # "none" /\ Open(screen[v].at)
      => /\ screen[v].text = buffer[screen[v].at]
         /\ screen[v].over = (term[screen[v].at] = "exited")
==============================================================================
