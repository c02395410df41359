------------------------------ MODULE OmpFrames ------------------------------
(* What OmpSessionRuntime knows of its OMP process: the frames that change its  *)
(* state one by one, the answers that replace it as a whole, and the snapshots  *)
(* and events its followers put together. Answers are read between frames, but  *)
(* what waits for them goes on only after the chunk they came in.               *)
EXTENDS Naturals, Sequences, SequencesExt

CONSTANTS Callers,   \* requests of clients: a refresh or a shell command
          MaxRuns,   \* bound: runs of the agent
          MaxSaid,   \* bound: messages
          MaxText,   \* bound: deltas of a message, its start among them
          MaxOnTheWay \* bound: frames and answers not read, where the process goes on

\* Requests of clients are told from those at the end of a run.
ASSUME FramesAssumption ==
  /\ MaxRuns \in Nat /\ MaxSaid \in Nat /\ MaxText \in Nat /\ MaxOnTheWay \in Nat
  /\ Callers \intersect (0 .. MaxRuns) = {}

VARIABLES agent,     \* the process: [runs, compacts, said, text]
          run,       \* which run of the agent it is in, or was in last
          line,      \* frames and answers on their way to the daemon
          inbox,     \* requests on their way to the process
          known,     \* this.state: [runs, compacts, said]
          partial,   \* this.partial: how much of the message being streamed, 0 for null
          refreshes, \* refreshes under way: [kind, got, stats]
          resolved,  \* those whose answers were all read, in that order
          missed,    \* history: refreshes that failed
          shells,    \* callers whose bash request is not answered
          bash,      \* isBashRunning
          follower   \* a client that took a snapshot: what it shows of the message

ompFrameVars == <<agent, run, line, inbox, known, partial, refreshes, resolved, missed, shells, bash, follower>>
process == <<agent, run>>
asking == <<inbox, refreshes, resolved, missed>>
shelling == <<shells, bash>>

Nobody == MaxText + 1
Runs == 1 .. MaxRuns
Refreshers == Runs \union Callers
NotYet == [runs |-> FALSE, compacts |-> FALSE, said |-> MaxSaid + 1]
NoRefresh == [kind |-> "none", got |-> NotYet, stats |-> FALSE]
StateOf(a) == [runs |-> a.runs, compacts |-> a.compacts, said |-> a.said]

------------------------------------------------------------------------------
(* The process *)

Says(frames) ==
  /\ Len(line) < MaxOnTheWay
  /\ line' = line \o [i \in DOMAIN frames |-> [type |-> frames[i], of |-> run', state |-> NotYet]]

AgentStarts ==
  /\ ~agent.runs /\ run < MaxRuns
  /\ run' = run + 1 /\ agent' = [agent EXCEPT !.runs = TRUE]
  /\ Says(<<"agent_start">>)

\* An abort ends a run in the middle of a message too.
AgentEnds ==
  /\ agent.runs
  /\ agent' = [agent EXCEPT !.runs = FALSE, !.text = 0] /\ UNCHANGED run
  /\ Says(<<"agent_end">>)

MessageStarts ==
  /\ agent.runs /\ agent.text = 0 /\ agent.said < MaxSaid
  /\ agent' = [agent EXCEPT !.text = 1] /\ UNCHANGED run
  /\ Says(<<"message_start">>)

TextGrows ==
  /\ agent.text \in 1 .. MaxText - 1
  /\ agent' = [agent EXCEPT !.text = @ + 1] /\ UNCHANGED run
  /\ Says(<<"message_update">>)

MessageIsOver ==
  /\ agent.text > 0
  /\ agent' = [agent EXCEPT !.text = 0, !.said = @ + 1] /\ UNCHANGED run
  /\ Says(<<"message_end">>)

\* A message of a user or of a tool.
OthersSpeak ==
  /\ agent.runs /\ agent.text = 0 /\ agent.said < MaxSaid
  /\ agent' = [agent EXCEPT !.said = @ + 1] /\ UNCHANGED run
  /\ Says(<<"other_start", "message_end">>)

AutoCompaction ==
  /\ agent.text = 0
  /\ agent' = [agent EXCEPT !.compacts = ~@] /\ UNCHANGED run
  /\ \/ ~agent.compacts /\ agent.said > 0 /\ Says(<<"auto_compaction_start">>)
     \/ agent.compacts /\ Says(<<"auto_compaction_end">>)

ProcessSpeaks ==
  /\ \/ AgentStarts \/ AgentEnds \/ MessageStarts \/ TextGrows \/ MessageIsOver \/ OthersSpeak
     \/ AutoCompaction
  /\ UNCHANGED <<known, partial, asking, shelling, follower>>

ProcessAnswers ==
  /\ inbox # <<>> /\ Len(line) < MaxOnTheWay /\ inbox' = Tail(inbox)
  /\ line' = Append(line, [type |-> Head(inbox).type, of |-> Head(inbox).of, state |-> StateOf(agent)])
  /\ UNCHANGED <<process, known, partial, refreshes, resolved, missed, shelling, follower>>

------------------------------------------------------------------------------
(* The daemon *)

\* refresh asks for the state and the statistics at once, refreshStateOnly for the state.
AsksFor(r, kind) ==
  /\ refreshes' = [refreshes EXCEPT ![r] = [NoRefresh EXCEPT !.kind = kind, !.stats = (kind = "state")]]
  /\ inbox' = inbox \o (IF kind = "state" THEN <<[type |-> "get_state", of |-> r]>>
                        ELSE <<[type |-> "get_state", of |-> r], [type |-> "get_session_stats", of |-> r]>>)
  /\ UNCHANGED <<resolved, missed>>

\* Mutant: the end of a run is taken from its frame alone.
TrustsTheFrame(r) == UNCHANGED asking

\* agent_end is followed by a refresh.
RefreshAtEnd(r) == AsksFor(r, "all")

\* reduceFrame
Reduced(type) ==
  CASE type = "agent_start" -> [known EXCEPT !.runs = TRUE]
    [] type = "agent_end" -> [known EXCEPT !.runs = FALSE]
    [] type = "auto_compaction_start" -> [known EXCEPT !.compacts = TRUE]
    [] type = "auto_compaction_end" -> [known EXCEPT !.compacts = FALSE]
    [] type = "message_end" -> [known EXCEPT !.said = @ + 1]
    [] OTHER -> known

\* Mutant: only the first frame of a message is kept.
PartialAtStart(type) ==
  CASE type = "message_start" -> 1
    [] type \in {"message_end", "agent_end"} -> 0
    [] OTHER -> partial

\* Each frame of a message carries all of it so far.
Partial(type) ==
  CASE type = "message_start" -> 1
    [] type = "message_update" -> partial + 1
    [] type \in {"message_end", "agent_end"} -> 0
    [] OTHER -> partial

\* ompFrameToSessionEvent: a delta, an end, or nothing a message is made of.
Followed(type) ==
  IF follower = Nobody THEN Nobody
  ELSE CASE type = "message_start" -> 1
         [] type = "message_update" -> follower + 1
         [] type \in {"message_end", "agent_end"} -> 0
         [] OTHER -> follower

HandleFrame ==
  /\ line # <<>> /\ line' = Tail(line)
  /\ Head(line).type \notin {"get_state", "get_session_stats"}
  /\ LET type == Head(line).type IN
     /\ known' = Reduced(type) /\ partial' = Partial(type) /\ follower' = Followed(type)
     /\ IF type = "agent_end" THEN RefreshAtEnd(Head(line).of) ELSE UNCHANGED asking
  /\ UNCHANGED <<process, shelling>>

\* An answer resolves its request; one that comes after its timeout is nobody's.
HandleAnswer ==
  LET r == Head(line).of
      now == [refreshes[r] EXCEPT !.got = IF Head(line).type = "get_state" THEN Head(line).state ELSE @,
                                  !.stats = @ \/ Head(line).type = "get_session_stats"]
  IN /\ line # <<>> /\ line' = Tail(line)
     /\ Head(line).type \in {"get_state", "get_session_stats"}
     /\ IF refreshes[r] = NoRefresh THEN UNCHANGED <<refreshes, resolved>>
        ELSE /\ refreshes' = [refreshes EXCEPT ![r] = now]
             /\ resolved' = IF now.got # NotYet /\ now.stats THEN Append(resolved, r) ELSE resolved
     /\ UNCHANGED <<process, inbox, known, partial, missed, shelling, follower>>

\* The state that came replaces the one there is. A refresh of the state alone has fewer
\* promises to go through than one that waits for both answers, and may overtake it.
Replaces(i) ==
  /\ \/ i = 1
     \/ /\ refreshes[resolved[i]].kind = "state"
        /\ \A j \in 1 .. i - 1 : refreshes[resolved[j]].kind = "all"
  /\ known' = refreshes[resolved[i]].got
  /\ refreshes' = [refreshes EXCEPT ![resolved[i]] = NoRefresh]
  /\ resolved' = RemoveAt(resolved, i)
  /\ UNCHANGED <<process, line, inbox, partial, missed, shelling, follower>>

\* Setting the model or the level, a name, an abort or a status end with refresh, a prompt
\* with refreshStateOnly.
RefreshFor(c, kind) ==
  /\ refreshes[c] = NoRefresh /\ c \notin shells
  /\ \A r \in Range(inbox) \union Range(line) : r.of # c
  /\ AsksFor(c, kind)
  /\ UNCHANGED <<process, line, known, partial, shelling, follower>>

\* A command times out: what it was for is given up, at the end of a run without a word.
RefreshFails(r) ==
  /\ refreshes[r] # NoRefresh /\ r \notin Range(resolved)
  /\ refreshes' = [refreshes EXCEPT ![r] = NoRefresh]
  /\ missed' = missed \union {r}
  /\ UNCHANGED <<process, line, inbox, known, partial, resolved, shelling, follower>>

ShellBegins(c) ==
  /\ c \notin shells /\ refreshes[c] = NoRefresh
  /\ shells' = shells \union {c} /\ bash' = TRUE
  /\ UNCHANGED <<process, line, known, partial, asking, follower>>

\* Mutant: an error leaves the flag.
EndsShown(ok) == bash /\ ~ok

\* The finally of shell: whatever other commands run.
ShellShown(ok) == FALSE

ShellIsOver(c, ok) ==
  /\ c \in shells
  /\ shells' = shells \ {c} /\ bash' = ShellShown(ok)
  /\ UNCHANGED <<process, line, known, partial, asking, follower>>

\* streamSnapshot: the message so far, and the events that are published from here on.
Follow ==
  /\ follower = Nobody /\ follower' = partial
  /\ UNCHANGED <<process, line, known, partial, asking, shelling>>

OmpFramesInit ==
  /\ agent = [runs |-> FALSE, compacts |-> FALSE, said |-> 0, text |-> 0] /\ run = 0
  /\ line = <<>> /\ inbox = <<>>
  /\ known = StateOf(agent) /\ partial = 0
  /\ refreshes = [r \in Refreshers |-> NoRefresh] /\ resolved = <<>> /\ missed = {}
  /\ shells = {} /\ bash = FALSE /\ follower = Nobody

OmpFramesNext ==
  \/ ProcessSpeaks \/ ProcessAnswers \/ HandleFrame \/ HandleAnswer \/ Follow
  \/ \E i \in DOMAIN resolved : Replaces(i)
  \/ \E c \in Callers :
       \/ \E kind \in {"all", "state"} : RefreshFor(c, kind)
       \/ ShellBegins(c)
       \/ \E ok \in BOOLEAN : ShellIsOver(c, ok)
  \/ \E r \in Refreshers : RefreshFails(r)

------------------------------------------------------------------------------

\* Once everything is read, a run that is over is not shown as running and its messages are
\* counted, whatever refreshes began before it ended; unless the one it ended with failed
\* (ompSessionRuntime.ts reduceFrame, refresh).
RestIsKnown ==
  line = <<>> /\ inbox = <<>> /\ resolved = <<>> /\ ~agent.runs /\ run \notin missed
    => ~known.runs /\ known.said = agent.said

\* A client that took a snapshot and follows the events shows what a snapshot taken now has,
\* and a snapshot has all of the message that was read
\* (ompSessionRuntime.ts handleFrame, ompFrameToSessionEvent).
SnapshotsAreCurrent ==
  /\ follower \in {Nobody, partial}
  /\ line = <<>> => partial = agent.text

\* No shell command is shown to run when none does.
ShownShellsRun == bash => shells # {}
==============================================================================
