----------------------------- MODULE OmpRuntime -----------------------------
(***************************************************************************)
(* OMP sessions: OmpSessionService with the OmpSessionRuntimes it opens,   *)
(* each an OmpRpcClient that speaks JSON lines with a process of its own   *)
(* (src/server/runtimes/omp).                                              *)
(*                                                                         *)
(* A step is the handling of one event: a request, an answer or another    *)
(* frame, a timer, the process's exit.  What the promises then lead to     *)
(* comes before the next event: it is part of the step, or Proceed, or     *)
(* CloseReturns.  Each frame arrives in a chunk of its own, writes succeed *)
(* at once, a session has its file as soon as its process has come up.     *)
(* The frames of one start are one answer.                                 *)
(*                                                                         *)
(* A process may stop answering ("hung") and then ignores SIGTERM.         *)
(***************************************************************************)
EXTENDS Naturals

CONSTANTS
  MaxRequests, \* bound: requests to the service
  MaxRuntimes, \* bound: runtimes at a time
  MaxSessions, \* bound: session ids
  None         \* "no runtime", "no session"

ASSUME OmpBounds ==
  /\ MaxRequests \in Nat \ {0} /\ MaxSessions \in Nat \ {0} /\ MaxRuntimes \in Nat \ {0}
  /\ None \notin Nat

Requests == 1..MaxRequests
Runtimes == 1..MaxRuntimes
Sessions == 1..MaxSessions

VARIABLES
  requests,  \* what each is to do, and where it stands
  runtimes,  \* OmpSessionRuntime, OmpRpcClient and process, from the opening on
  active,    \* OmpSessionService.active: the runtime listed under each id
  opening,   \* OmpSessionService.opening
  stored,    \* the sessions with a file
  installed, \* an omp executable can be found
  disposed   \* dispose() has been called

vars == <<requests, runtimes, active, opening, stored, installed, disposed>>

\* "read" stands for what sends one command, "change" for what then reads the state again.
Ops == {"read", "change", "navigate", "shell", "start", "stop", "reload"}
\* Variant: what changes a session also reads its statistics.
CommandsAndStats == [read |-> 1, change |-> 3, navigate |-> 3, shell |-> 1]

Commands == [read |-> 1, change |-> 2, navigate |-> 2, shell |-> 1]

Request == [op : Ops, at : {"new", "waiting", "command", "closing", "done"},
            runtime : Runtimes \cup {None}, left : 0..2, late : BOOLEAN] \* late: came after an installation
Runtime == [phase : {"none", "looking", "starting", "up", "failing"},
            process : {"none", "alive", "hung", "unborn", "exited"},
            failed : BOOLEAN, closing : {"no", "ended", "termed", "killed"},
            session : Sessions \cup {None}, \* to be opened
            serves : Sessions \cup {None},  \* the process's session
            knows : Sessions \cup {None},   \* state.sessionId
            told : Sessions \cup {None},    \* eventTarget.sessionId
            new : BOOLEAN]                  \* opened by start() or reload(), not by getOrOpen()

TypeOK ==
  /\ requests \in [Requests -> Request] /\ runtimes \in [Runtimes -> Runtime]
  /\ active \in [Sessions -> Runtimes \cup {None}] /\ opening \in [Sessions -> Runtimes \cup {None}]
  /\ stored \subseteq Sessions /\ installed \in BOOLEAN /\ disposed \in BOOLEAN

Unused == [phase |-> "none", process |-> "none", failed |-> FALSE, closing |-> "no", session |-> None,
           serves |-> None, knows |-> None, told |-> None, new |-> FALSE]

At(r, place) == requests[r].at = place
\* Of a request that has ended, only an operation that replaces what is listed is remembered.
Ended(req) == [op |-> IF req.op \in {"reload", "navigate"} THEN req.op ELSE "read", at |-> "done",
               runtime |-> None, left |-> 0, late |-> FALSE]
Done(r) == requests' = [requests EXCEPT ![r] = Ended(@)]
Usable(p) == ~runtimes[p].failed /\ runtimes[p].closing = "no"
Alive(p) == runtimes[p].process = "alive"

Room == \E p \in Runtimes : runtimes[p].phase = "none"
NewRuntime == CHOOSE p \in Runtimes : runtimes[p].phase = "none"

\* Runtimes whose process is gone and to which nothing leads are forgotten.
Swept(rts, reqs, listed) ==
  [p \in Runtimes |->
     IF /\ rts[p].process = "exited"
        /\ \A s \in Sessions : listed[s] # p
        /\ \A r \in Requests : reqs[r].runtime # p
     THEN Unused ELSE rts[p]]

----------------------------------------------------------------------------
(* Requests *)

\* createRuntime(): r, whose record is req, waits for a new runtime.
Opens(session, isNew) == [Unused EXCEPT !.phase = "looking", !.session = session, !.new = isNew]
Creates(r, req, session, isNew) ==
  /\ Room
  /\ runtimes' = [runtimes EXCEPT ![NewRuntime] = Opens(session, isNew)]
  /\ requests' = [requests EXCEPT ![r] = [req EXCEPT !.at = "waiting", !.runtime = NewRuntime]]

\* close(): the failure subscription goes first, stdin is ended.
CloseBegins(p) == IF runtimes[p].closing = "no" THEN [runtimes[p] EXCEPT !.closing = "ended"]
                                                ELSE runtimes[p]

\* r, whose record is req, has got the runtime p.
Uses(r, req, p) ==
  \/ /\ req.op \in {"stop", "reload"}
     /\ runtimes' = [runtimes EXCEPT ![p] = CloseBegins(p)]
     /\ requests' = [requests EXCEPT ![r] = [req EXCEPT !.at = "closing", !.runtime = p]]
  \/ /\ req.op \notin {"stop", "reload"} /\ Usable(p)
     /\ requests' = [requests EXCEPT ![r] =
          [req EXCEPT !.at = "command", !.runtime = p, !.left = Commands[req.op]]]
     /\ UNCHANGED runtimes
  \/ /\ req.op \notin {"stop", "reload"} /\ ~Usable(p)
     /\ requests' = [requests EXCEPT ![r] = Ended(req)]
     /\ UNCHANGED runtimes

\* Variant: getOrOpen() does not look for an opening.
JoinsNone(s) == FALSE

Joins(s) == opening[s] # None

\* getOrOpen()
GetOrOpen(r, req, s) ==
  \/ active[s] # None /\ Uses(r, req, active[s]) /\ UNCHANGED opening
  \/ /\ active[s] = None /\ Joins(s)
     /\ requests' = [requests EXCEPT ![r] = [req EXCEPT !.at = "waiting", !.runtime = opening[s]]]
     /\ UNCHANGED <<runtimes, opening>>
  \/ /\ active[s] = None /\ ~Joins(s)
     /\ Creates(r, req, s, FALSE)
     /\ opening' = [opening EXCEPT ![s] = NewRuntime]

\* The ids that no file and no process has
Fresh == {s \in Sessions : s \notin stored /\ \A p \in Runtimes : runtimes[p].session # s}

\* Clients know a session by its file.
Arrive(r) ==
  /\ At(r, "new") /\ ~disposed
  /\ \E op \in Ops : LET req == [requests[r] EXCEPT !.op = op, !.late = installed]
                     IN \/ /\ op # "start" /\ \E s \in stored : GetOrOpen(r, req, s)
                        \/ /\ op = "start" /\ \E s \in Fresh : Creates(r, req, s, TRUE)
                           /\ UNCHANGED opening
  /\ UNCHANGED <<active, stored, installed, disposed>>

\* dispose()
Dispose ==
  /\ ~disposed /\ disposed' = TRUE
  /\ active' = [s \in Sessions |-> None] /\ opening' = [s \in Sessions |-> None]
  /\ runtimes' = [p \in Runtimes |->
       IF \E s \in Sessions : active[s] = p THEN CloseBegins(p) ELSE runtimes[p]]
  /\ UNCHANGED <<requests, stored, installed>>

----------------------------------------------------------------------------
(* Opening a runtime *)

\* finally in getOrOpen()
Released(p) == IF runtimes[p].new THEN UNCHANGED opening
               ELSE opening' = [opening EXCEPT ![runtimes[p].session] = None]

\* The opening fails: so does what waits for it.
OpeningFails(p) ==
  /\ runtimes' = [runtimes EXCEPT ![p] = Unused]
  /\ requests' = [r \in Requests |-> IF At(r, "waiting") /\ requests[r].runtime = p
                                     THEN Ended(requests[r]) ELSE requests[r]]
  /\ Released(p)

\* spawn(): without an executable there is an error event and no process, nor its exit.
Spawn(p) ==
  /\ runtimes[p].phase = "looking"
  /\ \/ /\ ~runtimes[p].new /\ runtimes[p].session \notin stored
        /\ OpeningFails(p)
     \/ /\ runtimes[p].new \/ runtimes[p].session \in stored
        /\ runtimes' = [runtimes EXCEPT ![p] =
             IF installed
             THEN [@ EXCEPT !.phase = "starting", !.process = "alive", !.serves = runtimes[p].session]
             ELSE [@ EXCEPT !.phase = "failing", !.process = "unborn", !.failed = TRUE, !.closing = "ended"]]
        /\ UNCHANGED <<requests, opening>>
  /\ UNCHANGED <<active, stored, installed, disposed>>

\* The ready frame and the answers to negotiate_protocol, get_state and get_session_stats
ComesUp(p) ==
  /\ runtimes[p].phase = "starting" /\ Alive(p)
  /\ runtimes' = [runtimes EXCEPT ![p].phase = "up", ![p].knows = runtimes[p].serves,
                                  ![p].told = runtimes[p].serves]
  /\ active' = [active EXCEPT ![runtimes[p].serves] = p]
  /\ stored' = stored \cup {runtimes[p].serves}
  /\ Released(p)
  /\ UNCHANGED <<requests, installed, disposed>>

\* No ready frame in time, or a command of the start refused or timed out
StartFails(p) ==
  /\ runtimes[p].phase = "starting"
  /\ runtimes' = [runtimes EXCEPT ![p].phase = "failing", ![p].closing = "ended"]
  /\ UNCHANGED <<requests, active, opening, stored, installed, disposed>>

\* r goes on once its runtime is up.
Waits(r) == At(r, "waiting") /\ runtimes[requests[r].runtime].phase = "up"
Proceed(r) ==
  /\ Waits(r)
  /\ \/ requests[r].op \in {"start", "reload"} /\ Done(r) /\ UNCHANGED runtimes
     \/ requests[r].op \notin {"start", "reload"} /\ Uses(r, requests[r], requests[r].runtime)
  /\ UNCHANGED <<active, opening, stored, installed, disposed>>

----------------------------------------------------------------------------
(* Commands *)

\* rekeyRuntime()
Rekeyed(p, session) ==
  [s \in Sessions |-> IF s = session THEN p ELSE IF active[s] = p THEN None ELSE active[s]]

\* A further command is refused when the client is being closed.
NextCommand(r) == requests' = [requests EXCEPT ![r] =
  IF Usable(requests[r].runtime) THEN [@ EXCEPT !.left = 1] ELSE Ended(@)]

\* The process has answered the first of two commands, or branch.
Answers(r) ==
  /\ At(r, "command") /\ requests[r].left = 2 /\ Alive(requests[r].runtime)
  /\ IF requests[r].op = "navigate"
     THEN \E s \in Fresh : /\ runtimes' = [runtimes EXCEPT ![requests[r].runtime].serves = s,
                                                          ![requests[r].runtime].session = s]
                           /\ stored' = stored \cup {s}
     ELSE UNCHANGED <<runtimes, stored>>
  /\ NextCommand(r)
  /\ UNCHANGED <<active, opening, installed, disposed>>

\* It has branched, but too late for the request.
BranchesLate(r) ==
  /\ At(r, "command") /\ requests[r].left = 2 /\ Alive(requests[r].runtime) /\ requests[r].op = "navigate"
  /\ \E s \in Fresh : /\ runtimes' = [runtimes EXCEPT ![requests[r].runtime].serves = s,
                                                     ![requests[r].runtime].session = s]
                      /\ stored' = stored \cup {s}
  /\ Done(r)
  /\ UNCHANGED <<active, opening, installed, disposed>>

\* branch was cancelled: the runtime is listed again under the id it has.
BranchCancelled(r) ==
  /\ At(r, "command") /\ requests[r].left = 2 /\ Alive(requests[r].runtime) /\ requests[r].op = "navigate"
  /\ active' = Rekeyed(requests[r].runtime, runtimes[requests[r].runtime].knows)
  /\ Done(r)
  /\ UNCHANGED <<runtimes, opening, stored, installed, disposed>>

\* The last answer: get_state, but to a reader or a shell command.
AnswersLast(r) ==
  /\ At(r, "command") /\ requests[r].left = 1 /\ Alive(requests[r].runtime)
  /\ LET p == requests[r].runtime
     IN /\ runtimes' = IF requests[r].op \in {"read", "shell"} THEN runtimes
                       ELSE [runtimes EXCEPT ![p].knows = runtimes[p].serves]
        /\ active' = IF requests[r].op = "navigate" THEN Rekeyed(p, runtimes[p].serves) ELSE active
  /\ Done(r)
  /\ UNCHANGED <<opening, stored, installed, disposed>>

Refuses(r) ==
  /\ At(r, "command") /\ Alive(requests[r].runtime) /\ Done(r)
  /\ UNCHANGED <<runtimes, active, opening, stored, installed, disposed>>

\* A shell command has the whole of setTimeout's range.
TimesOut(r) ==
  /\ At(r, "command") /\ requests[r].op # "shell" /\ Done(r)
  /\ UNCHANGED <<runtimes, active, opening, stored, installed, disposed>>

\* agent_end: refresh()
RunEnds(p) ==
  /\ runtimes[p].phase = "up" /\ Alive(p) /\ Usable(p) /\ runtimes[p].knows # runtimes[p].serves
  /\ runtimes' = [runtimes EXCEPT ![p].knows = runtimes[p].serves]
  /\ UNCHANGED <<requests, active, opening, stored, installed, disposed>>

----------------------------------------------------------------------------
(* Failure and exit *)

\* onError, while the service listens
Listening(p) == runtimes[p].phase = "up" /\ Usable(p)
Unlisted(p) == [s \in Sessions |-> IF s = runtimes[p].told /\ active[s] = p THEN None ELSE active[s]]

\* Variant: only an exit is reported.
StaysListed(p) == active

ListedAfterFailure(p) == Unlisted(p)

\* rejectAll()
Rejected(p) == [r \in Requests |-> IF At(r, "command") /\ requests[r].runtime = p
                                   THEN Ended(requests[r]) ELSE requests[r]]

\* A frame that does not parse, or is not the one expected: fail(), with a SIGTERM
Breaks(p) ==
  /\ runtimes[p].phase \in {"starting", "up"} /\ Alive(p) /\ ~runtimes[p].failed
  /\ runtimes' = [runtimes EXCEPT ![p] =
       IF @.phase = "up" THEN [@ EXCEPT !.failed = TRUE]
       ELSE [@ EXCEPT !.failed = TRUE, !.phase = "failing", !.closing = "ended"]]
  /\ requests' = Rejected(p)
  /\ active' = IF Listening(p) THEN ListedAfterFailure(p) ELSE active
  /\ UNCHANGED <<opening, stored, installed, disposed>>

Hangs(p) ==
  /\ Alive(p) /\ runtimes' = [runtimes EXCEPT ![p].process = "hung"]
  /\ UNCHANGED <<requests, active, opening, stored, installed, disposed>>

\* Variant: an expected exit leaves the pending commands.
RejectedIfFailed(p, clean) == IF clean THEN requests ELSE Rejected(p)

RejectedAtExit(p, clean) == Rejected(p)

\* handleExit()
Exits(p) ==
  /\ runtimes[p].process \in {"alive", "hung"}
  /\ \/ /\ runtimes[p].phase = "up"
        /\ active' = IF Listening(p) THEN Unlisted(p) ELSE active
        /\ \E code \in {0, 1} : \* 0: or a signal
             LET clean == code = 0 /\ runtimes[p].closing # "no" /\ ~runtimes[p].failed
             IN /\ requests' = RejectedAtExit(p, clean)
                /\ runtimes' = Swept([runtimes EXCEPT ![p].process = "exited", ![p].failed = ~clean],
                                     requests', active')
        /\ UNCHANGED opening
     \/ /\ runtimes[p].phase # "up" /\ OpeningFails(p) /\ UNCHANGED active
  /\ UNCHANGED <<stored, installed, disposed>>

----------------------------------------------------------------------------
(* Closing *)

\* Variant: SIGTERM is the last resort.
NotKilled(closing) == "termed"

Escalated(closing) == IF closing = "ended" THEN "termed" ELSE "killed"

\* The process has not exited in time: SIGTERM, then SIGKILL
CloseTimesOut(p) ==
  /\ runtimes[p].closing \in {"ended", "termed"} /\ runtimes[p].process # "exited"
  /\ runtimes' = [runtimes EXCEPT ![p].closing = Escalated(@)]
  /\ UNCHANGED <<requests, active, opening, stored, installed, disposed>>

\* The process has exited: stop() forgets the runtime, reload() opens another.
ClosingIsOver(r) == At(r, "closing") /\ runtimes[requests[r].runtime].process = "exited"
CloseReturns(r) ==
  /\ ClosingIsOver(r) /\ (requests[r].op = "reload" => Room)
  /\ LET s == runtimes[requests[r].runtime].knows
         p == NewRuntime
     IN /\ active' = [active EXCEPT ![s] = None]
        /\ requests' = [requests EXCEPT ![r] = IF @.op = "stop" THEN Ended(@)
                                               ELSE [@ EXCEPT !.at = "waiting", !.runtime = p]]
        /\ runtimes' = Swept(IF requests[r].op = "stop" THEN runtimes
                             ELSE [runtimes EXCEPT ![p] = Opens(s, TRUE)],
                             requests', active')
  /\ UNCHANGED <<opening, stored, installed, disposed>>

\* The user installs omp.
Install == /\ ~installed /\ installed' = TRUE
           /\ UNCHANGED <<requests, runtimes, active, opening, stored, disposed>>

----------------------------------------------------------------------------
Init ==
  /\ requests = [r \in Requests |-> [op |-> "read", at |-> "new", runtime |-> None, left |-> 0, late |-> FALSE]]
  /\ runtimes = [p \in Runtimes |-> Unused]
  /\ active = [s \in Sessions |-> None] /\ opening = [s \in Sessions |-> None]
  /\ stored = {1} /\ installed \in BOOLEAN /\ disposed = FALSE

Settling == \E r \in Requests : Waits(r) \/ ClosingIsOver(r)

Event(r) == Arrive(r) \/ Answers(r) \/ BranchesLate(r) \/ BranchCancelled(r) \/ AnswersLast(r)
            \/ Refuses(r) \/ TimesOut(r)
Happens(p) == Spawn(p) \/ ComesUp(p) \/ StartFails(p) \/ RunEnds(p) \/ Breaks(p)
              \/ Hangs(p) \/ Exits(p) \/ CloseTimesOut(p)

Next == \/ \E r \in Requests : Proceed(r) \/ CloseReturns(r)
        \/ ~Settling /\ \E r \in Requests : Event(r)
        \/ ~Settling /\ \E p \in Runtimes : Happens(p)
        \/ ~Settling /\ (Dispose \/ Install)

Spec == Init /\ [][Next]_vars

\* Timers go off, promises are followed up, and nothing survives SIGKILL.
Fairness ==
  /\ \A r \in Requests : /\ WF_vars(Proceed(r))
                         /\ WF_vars(~Settling /\ TimesOut(r))
                         /\ WF_vars(CloseReturns(r))
  /\ \A p \in Runtimes : /\ WF_vars(~Settling /\ Spawn(p))
                         /\ WF_vars(~Settling /\ StartFails(p))
                         /\ WF_vars(~Settling /\ CloseTimesOut(p))
                         /\ WF_vars(~Settling /\ runtimes[p].closing = "killed" /\ Exits(p))

FairSpec == Spec /\ Fairness
----------------------------------------------------------------------------
(* Properties *)

\* No command waits for the answer of a process that has failed or is gone:
\* a shell command, which no timer ends, would wait for ever.
NothingPends == \A r \in Requests : At(r, "command") =>
  ~runtimes[requests[r].runtime].failed /\ runtimes[requests[r].runtime].process # "exited"

\* What getOrOpen() is for: two healthy runtimes never serve the same session,
\* and the service can reach each.  Reloading and branching are not covered:
\* reload() and rekeyRuntime() replace what is listed without looking.
Healthy(p) == runtimes[p].phase = "up" /\ Usable(p)
OneHealthyRuntime ==
  (\A r \in Requests : requests[r].op \notin {"reload", "navigate"}) =>
    \A p \in Runtimes : Healthy(p) => active[runtimes[p].serves] = p

\* A runtime that has failed is not handed out under the id it was opened for.
FailedAreUnlisted == \A s \in Sessions :
  active[s] # None /\ runtimes[active[s]].failed => runtimes[active[s]].told # s \/ runtimes[active[s]].closing # "no"

WaitsForUnborn(r) == At(r, "waiting") /\ runtimes[requests[r].runtime].process = "unborn"

\* A request that has not ended. Shell commands may run for long, and a process that
\* could not be spawned keeps what waits for it; the others end.
RequestWaits(r) ==
  ~At(r, "new") /\ ~At(r, "done") /\ requests[r].op # "shell" /\ ~WaitsForUnborn(r)

\* commandPath(): "failures are retried so installing OMP does not require a
\* daemon restart": a request that comes after the installation ends.
InstallingSuffices == \A r \in Requests :
  requests[r].late /\ ~At(r, "done") ~> At(r, "done") \/ requests[r].op = "shell" \/ disposed
============================================================================
