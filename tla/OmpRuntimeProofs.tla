-------------------------- MODULE OmpRuntimeProofs --------------------------
(* What holds of OMP runtimes and of what they tell of their processes.         *)
(*                                                                              *)
(* First OmpRuntime, for any number of requests, runtimes and sessions: no       *)
(* command waits for a process that is gone, and while nothing is reloaded and   *)
(* no session branches, one healthy runtime serves a session.  RuntimesInv says  *)
(* what each request and each runtime is like where it stands.  It is what       *)
(* NothingPends needs. One healthy runtime needs more: that whatever has a       *)
(* session, is to have it, or is on its way out of it, is the only one to        *)
(* (QuietParts). Each action of Next has a lemma for either.                     *)
(*                                                                              *)
(* Then OmpFrames, for any number of runs, messages and requests: what a runtime *)
(* tells is so once all of it was read.  At the end of a run the daemon asks for *)
(* the state, while answers to older requests may still come and replace what it *)
(* knows. EndInv says where the end is until then: on the line, with nothing     *)
(* else behind it; asked for, with whatever is older handled before; or known.   *)
(* The rest says what that relies on: a request is on its way once, and a        *)
(* refresh waits for what is.                                                   *)
EXTENDS OmpRuntime, OmpFrames, SequenceTheorems, TLAPS

Opening == {"looking", "starting", "failing"}

\* What a request is after: the runtime it holds is there, and a command waits only for one that
\* is up and neither failed nor gone.
RequestOK(r) ==
  LET p == requests[r].runtime
  IN CASE requests[r].at = "new" -> p = None /\ requests[r].op = "read"
       [] requests[r].at = "waiting" -> p # None /\ runtimes[p].phase # "none"
       [] requests[r].at = "command" -> /\ p # None /\ runtimes[p].phase = "up"
                                        /\ ~runtimes[p].failed /\ runtimes[p].process # "exited"
                                        /\ requests[r].op \notin {"start", "stop", "reload"}
       [] requests[r].at = "closing" -> /\ p # None /\ runtimes[p].phase = "up"
                                        /\ runtimes[p].closing # "no"
                                        /\ requests[r].op \in {"stop", "reload"}
       [] OTHER -> p = None

\* A runtime in each of its phases. One whose process is gone failed or was being closed.
RuntimeOK(p) ==
  LET it == runtimes[p]
  IN /\ it.phase = "none" => it = Unused
     /\ it.phase = "looking" => it.process = "none" /\ ~it.failed /\ it.closing = "no"
     /\ it.phase = "starting" => it.process \in {"alive", "hung"} /\ ~it.failed /\ it.closing = "no"
     /\ it.phase = "failing" => it.process \in {"alive", "hung", "unborn"}
     /\ it.phase = "up" => /\ it.process \in {"alive", "hung", "exited"}
                           /\ it.process = "exited" => it.failed \/ it.closing # "no"
                           /\ it.knows # None /\ it.told # None
     /\ it.phase # "none" => it.session # None
     /\ it.phase \in {"starting", "up"} => it.serves # None

\* What is listed is up, and what is being opened is not yet.
ListsOK ==
  /\ \A s \in Sessions : active[s] # None => runtimes[active[s]].phase = "up"
  /\ \A s \in Sessions : opening[s] # None =>
        /\ runtimes[opening[s]].phase \in Opening
        /\ ~runtimes[opening[s]].new /\ runtimes[opening[s]].session = s

RuntimesInv ==
  /\ TypeOK /\ (\A r \in Requests : RequestOK(r)) /\ (\A p \in Runtimes : RuntimeOK(p))
  /\ ListsOK /\ FailedAreUnlisted

LEMMA NewIsFree == Room => NewRuntime \in Runtimes /\ runtimes[NewRuntime].phase = "none"
BY DEF Room, NewRuntime

LEMMA UnusedIsTyped == Unused \in Runtime
BY DEF Unused, Runtime

LEMMA NoneIsNone == None \notin Runtimes /\ None \notin Sessions
BY OmpBounds DEF Runtimes, Sessions

LEMMA UsesKeeps ==
  ASSUME RuntimesInv, NEW r \in Requests, NEW req \in Request, req.op # "start",
         NEW p \in Runtimes, runtimes[p].phase = "up", Uses(r, req, p),
         UNCHANGED <<active, opening, stored, installed, disposed>>
  PROVE  RuntimesInv'
<1>t. TypeOK BY DEF RuntimesInv
<1>r. \A x \in Requests : RequestOK(x) BY DEF RuntimesInv
<1>p. \A x \in Runtimes : RuntimeOK(x) BY DEF RuntimesInv
<1>l. ListsOK BY DEF RuntimesInv
<1>f. FailedAreUnlisted BY DEF RuntimesInv
<1>0. runtimes[p] \in Runtime /\ RuntimeOK(p) /\ p # None BY <1>t, <1>p, NoneIsNone DEF TypeOK
<1>1. CASE /\ req.op \in {"stop", "reload"}
           /\ runtimes' = [runtimes EXCEPT ![p] = CloseBegins(p)]
           /\ requests' = [requests EXCEPT ![r] = [req EXCEPT !.at = "closing", !.runtime = p]]
  <2>0. CloseBegins(p) \in Runtime BY <1>0 DEF CloseBegins, Runtime
  <2>9. [req EXCEPT !.at = "closing", !.runtime = p] \in Request BY DEF Request
  <2>1. TypeOK' BY <1>1, <1>t, <2>0, <2>9 DEF TypeOK
  <2>2. runtimes'[p] = CloseBegins(p) /\ \A x \in Runtimes \ {p} : runtimes'[x] = runtimes[x]
    BY <1>1, <1>t DEF TypeOK
  <2>3. requests'[r] = [req EXCEPT !.at = "closing", !.runtime = p]
        /\ \A x \in Requests \ {r} : requests'[x] = requests[x]
    BY <1>1, <1>t DEF TypeOK
  <2>4. /\ runtimes'[p].phase = "up" /\ runtimes'[p].closing # "no"
        /\ runtimes'[p].failed = runtimes[p].failed /\ runtimes'[p].process = runtimes[p].process
        /\ runtimes'[p].knows = runtimes[p].knows /\ runtimes'[p].told = runtimes[p].told
        /\ runtimes'[p].session = runtimes[p].session /\ runtimes'[p].serves = runtimes[p].serves
    BY <2>2, <1>0 DEF CloseBegins, Runtime
  <2>5. ASSUME NEW x \in Requests PROVE RequestOK(x)'
    <3>1. CASE x = r
      <4>1. requests'[x].at = "closing" /\ requests'[x].runtime = p /\ requests'[x].op = req.op
        BY <2>3, <3>1 DEF Request
      <4>2. QED BY <1>0, <1>1, <4>1, <2>4 DEF RequestOK
    <3>2. CASE x # r
      <4>1. requests'[x] = requests[x] /\ RequestOK(x) /\ requests[x] \in Request
        BY <1>t, <1>r, <2>3, <3>2 DEF TypeOK
      <4>2. \A y \in Runtimes : /\ runtimes'[y].phase = runtimes[y].phase
                                /\ runtimes'[y].failed = runtimes[y].failed
                                /\ runtimes'[y].process = runtimes[y].process
                                /\ (runtimes[y].closing # "no" => runtimes'[y].closing # "no")
        BY <2>2, <2>4, <1>0, <1>0
      <4>3. requests[x].runtime \in Runtimes \cup {None} BY <4>1 DEF Request
      <4>4. QED BY <4>1, <4>2, <4>3 DEF RequestOK
    <3>3. QED BY <3>1, <3>2
  <2>6. ASSUME NEW x \in Runtimes PROVE RuntimeOK(x)'
    <3>1. CASE x = p BY <3>1, <1>0, <2>4 DEF RuntimeOK
    <3>2. CASE x # p BY <3>2, <1>p, <2>2 DEF RuntimeOK
    <3>3. QED BY <3>1, <3>2
  <2>7. ListsOK' BY <1>t, <1>l, <2>2, <2>4, NoneIsNone DEF ListsOK, TypeOK, Opening
  <2>8. FailedAreUnlisted' BY <1>t, <1>f, <2>2, <2>4, NoneIsNone DEF FailedAreUnlisted, TypeOK
  <2>10. QED BY <2>1, <2>5, <2>6, <2>7, <2>8 DEF RuntimesInv
<1>2. CASE /\ req.op \notin {"stop", "reload"} /\ Usable(p)
           /\ requests' = [requests EXCEPT ![r] = [req EXCEPT !.at = "command", !.runtime = p, !.left = Commands[req.op]]]
           /\ UNCHANGED runtimes
  <2>0. req.op \in {"read", "change", "navigate", "shell"} BY <1>2 DEF Request, Ops
  <2>1. Commands[req.op] \in 0 .. 2 BY <2>0 DEF Commands
  <2>2. [req EXCEPT !.at = "command", !.runtime = p, !.left = Commands[req.op]] \in Request
    BY <2>1 DEF Request
  <2>3. TypeOK' BY <1>2, <1>t, <2>2 DEF TypeOK
  <2>4. ASSUME NEW x \in Requests PROVE RequestOK(x)'
    <3>1. CASE x = r
      <4>1. requests'[x].at = "command" /\ requests'[x].runtime = p /\ requests'[x].op = req.op
        BY <1>2, <1>t, <3>1 DEF TypeOK, Request
      <4>2. ~runtimes[p].failed /\ runtimes[p].process # "exited" BY <1>0, <1>2 DEF Usable, RuntimeOK
      <4>3. QED BY <1>0, <1>2, <2>0, <4>1, <4>2 DEF RequestOK
    <3>2. CASE x # r BY <1>2, <1>r, <1>t, <3>2 DEF RequestOK, TypeOK
    <3>3. QED BY <3>1, <3>2
  <2>5. QED BY <2>3, <2>4, <1>2, <1>p, <1>l, <1>f DEF RuntimesInv, RuntimeOK, ListsOK, FailedAreUnlisted
<1>3. CASE requests' = [requests EXCEPT ![r] = Ended(req)] /\ UNCHANGED runtimes
  <2>1. Ended(req) \in Request /\ Ended(req).at = "done" /\ Ended(req).runtime = None
    BY DEF Ended, Request, Ops
  <2>2. TypeOK' BY <1>3, <1>t, <2>1 DEF TypeOK
  <2>3. ASSUME NEW x \in Requests PROVE RequestOK(x)'
    <3>1. CASE x = r BY <1>3, <1>t, <2>1, <3>1 DEF RequestOK, TypeOK
    <3>2. CASE x # r BY <1>3, <1>r, <1>t, <3>2 DEF RequestOK, TypeOK
    <3>3. QED BY <3>1, <3>2
  <2>4. QED BY <2>2, <2>3, <1>3, <1>p, <1>l, <1>f DEF RuntimesInv, RuntimeOK, ListsOK, FailedAreUnlisted
<1>4. QED BY <1>1, <1>2, <1>3 DEF Uses

LEMMA CreatesKeeps ==
  ASSUME RuntimesInv, NEW r \in Requests, NEW req \in Request, NEW s \in Sessions, NEW isNew \in BOOLEAN,
         Creates(r, req, s, isNew),
         opening' = opening \/ (opening' = [opening EXCEPT ![s] = NewRuntime] /\ ~isNew),
         UNCHANGED <<active, stored, installed, disposed>>
  PROVE  RuntimesInv'
<1> DEFINE p == NewRuntime
<1>t. TypeOK BY DEF RuntimesInv
<1>r. \A x \in Requests : RequestOK(x) BY DEF RuntimesInv
<1>p. \A x \in Runtimes : RuntimeOK(x) BY DEF RuntimesInv
<1>l. ListsOK BY DEF RuntimesInv
<1>f. FailedAreUnlisted BY DEF RuntimesInv
<1>0. p \in Runtimes /\ runtimes[p].phase = "none" /\ p # None BY NewIsFree, NoneIsNone DEF Creates
<1>1. /\ runtimes' = [runtimes EXCEPT ![p] = Opens(s, isNew)]
      /\ requests' = [requests EXCEPT ![r] = [req EXCEPT !.at = "waiting", !.runtime = p]]
      /\ opening' = opening \/ (opening' = [opening EXCEPT ![s] = p] /\ ~isNew)
  BY DEF Creates
<1> HIDE DEF p
<1>2. /\ Opens(s, isNew) \in Runtime /\ Opens(s, isNew).phase = "looking"
      /\ Opens(s, isNew).session = s /\ Opens(s, isNew).new = isNew
      /\ Opens(s, isNew).process = "none" /\ ~Opens(s, isNew).failed /\ Opens(s, isNew).closing = "no"
  BY DEF Opens, Unused, Runtime
<1>3. [req EXCEPT !.at = "waiting", !.runtime = p] \in Request BY <1>0 DEF Request
<1>4. TypeOK' BY <1>0, <1>1, <1>2, <1>3, <1>t DEF TypeOK
<1>5. runtimes'[p] = Opens(s, isNew) /\ \A x \in Runtimes \ {p} : runtimes'[x] = runtimes[x]
  BY <1>0, <1>1, <1>t DEF TypeOK
<1>6. ASSUME NEW x \in Requests PROVE RequestOK(x)'
  <2>1. CASE x = r
    <3>1. requests'[x].at = "waiting" /\ requests'[x].runtime = p
      BY <1>1, <1>t, <2>1 DEF TypeOK, Request
    <3>2. QED BY <1>0, <1>2, <1>5, <3>1 DEF RequestOK
  <2>2. CASE x # r
    <3>1. requests'[x] = requests[x] /\ RequestOK(x) /\ requests[x] \in Request
      BY <1>1, <1>r, <1>t, <2>2 DEF TypeOK
    <3>2. requests[x].runtime \in Runtimes \cup {None} BY <3>1 DEF Request
    <3>3. requests[x].runtime # p BY <3>1, <1>0 DEF RequestOK, Request
    <3>4. QED BY <3>1, <3>2, <3>3, <1>5 DEF RequestOK
  <2>3. QED BY <2>1, <2>2
<1>7. ASSUME NEW x \in Runtimes PROVE RuntimeOK(x)'
  <2>1. CASE x = p BY <1>2, <1>5, <2>1, NoneIsNone DEF RuntimeOK
  <2>2. CASE x # p BY <1>5, <1>p, <2>2 DEF RuntimeOK
  <2>3. QED BY <2>1, <2>2
<1>8. ListsOK'
  <2>1. \A x \in Sessions : active[x] # None => runtimes'[active[x]].phase = "up"
    BY <1>0, <1>5, <1>l, <1>t DEF ListsOK, TypeOK
  <2>2. ASSUME NEW x \in Sessions, opening'[x] # None
        PROVE  /\ runtimes'[opening'[x]].phase \in Opening
               /\ ~runtimes'[opening'[x]].new /\ runtimes'[opening'[x]].session = x
    <3>1. CASE opening'[x] = opening[x]
      BY <1>0, <1>5, <1>l, <1>t, <2>2, <3>1 DEF ListsOK, TypeOK, Opening
    <3>2. CASE opening'[x] # opening[x]
      <4>1. x = s /\ opening'[x] = p /\ ~isNew BY <1>1, <1>t, <3>2 DEF TypeOK
      <4>2. QED BY <4>1, <1>2, <1>5 DEF Opening
    <3>3. QED BY <3>1, <3>2
  <2>3. QED BY <2>1, <2>2 DEF ListsOK
<1>9. FailedAreUnlisted'
  BY <1>0, <1>5, <1>l, <1>f, <1>t DEF FailedAreUnlisted, ListsOK, TypeOK
<1>10. QED BY <1>4, <1>6, <1>7, <1>8, <1>9 DEF RuntimesInv

LEMMA SweptIsGone ==
  ASSUME NEW rts \in [Runtimes -> Runtime], NEW reqs, NEW listed
  PROVE  /\ Swept(rts, reqs, listed) \in [Runtimes -> Runtime]
         /\ \A q \in Runtimes :
              \/ Swept(rts, reqs, listed)[q] = rts[q]
              \/ /\ Swept(rts, reqs, listed)[q] = Unused
                 /\ rts[q].process = "exited"
                 /\ \A s \in Sessions : listed[s] # q
                 /\ \A r \in Requests : reqs[r].runtime # q
BY UnusedIsTyped DEF Swept

LEMMA OpeningFailsKeeps ==
  ASSUME RuntimesInv, NEW p \in Runtimes, runtimes[p].phase \in Opening, OpeningFails(p),
         UNCHANGED <<active, stored, installed, disposed>>
  PROVE  RuntimesInv'
<1>t. TypeOK BY DEF RuntimesInv
<1>r. \A x \in Requests : RequestOK(x) BY DEF RuntimesInv
<1>p. \A x \in Runtimes : RuntimeOK(x) BY DEF RuntimesInv
<1>l. ListsOK BY DEF RuntimesInv
<1>f. FailedAreUnlisted BY DEF RuntimesInv
<1>0. /\ runtimes' = [runtimes EXCEPT ![p] = Unused]
      /\ requests' = [r \in Requests |-> IF At(r, "waiting") /\ requests[r].runtime = p
                                        THEN Ended(requests[r]) ELSE requests[r]]
      /\ Released(p)
  BY DEF OpeningFails
<1>1. runtimes'[p] = Unused /\ \A y \in Runtimes \ {p} : runtimes'[y] = runtimes[y]
  BY <1>0, <1>t DEF TypeOK
<1>2. \A x \in Requests : /\ Ended(requests[x]) \in Request
                          /\ Ended(requests[x]).at = "done" /\ Ended(requests[x]).runtime = None
  BY DEF Ended, Request, Ops
<1>3. runtimes[p].session \in Sessions /\ p # None
  BY <1>t, <1>p, NoneIsNone DEF TypeOK, Runtime, RuntimeOK, Opening
<1>4. opening' = opening \/ opening' = [opening EXCEPT ![runtimes[p].session] = None]
  BY <1>0 DEF Released
<1>5. TypeOK' BY <1>0, <1>2, <1>3, <1>4, <1>t, UnusedIsTyped DEF TypeOK
<1>6. ASSUME NEW x \in Requests PROVE RequestOK(x)'
  <2>1. RequestOK(x) /\ requests[x] \in Request BY <1>r, <1>t DEF TypeOK
  <2>2. CASE At(x, "waiting") /\ requests[x].runtime = p
    <3>1. requests'[x] = Ended(requests[x]) BY <1>0, <2>2
    <3>2. QED BY <1>2, <3>1 DEF RequestOK
  <2>3. CASE ~(At(x, "waiting") /\ requests[x].runtime = p)
    <3>1. requests'[x] = requests[x] BY <1>0, <2>3
    <3>2. requests[x].runtime # p BY <2>1, <2>3, <1>3 DEF RequestOK, At, Request, Opening
    <3>3. requests[x].runtime \in Runtimes \cup {None} BY <2>1 DEF Request
    <3>4. QED BY <2>1, <3>1, <3>2, <3>3, <1>1 DEF RequestOK
  <2>4. QED BY <2>2, <2>3
<1>7. ASSUME NEW x \in Runtimes PROVE RuntimeOK(x)'
  <2>1. CASE x = p
    <3>1. Unused.phase = "none" BY DEF Unused
    <3>2. QED BY <2>1, <3>1, <1>1 DEF RuntimeOK
  <2>2. CASE x # p BY <2>2, <1>1, <1>p DEF RuntimeOK
  <2>3. QED BY <2>1, <2>2
<1>8. ListsOK'
  <2>1. \A s \in Sessions : active[s] # p BY <1>l, <1>3 DEF ListsOK, Opening
  <2>2. \A s \in Sessions : opening'[s] # p
    <3>1. CASE runtimes[p].new BY <1>0, <1>3, <1>l, <3>1 DEF Released, ListsOK
    <3>2. CASE ~runtimes[p].new
      <4>1. opening' = [opening EXCEPT ![runtimes[p].session] = None] BY <1>0, <3>2 DEF Released
      <4>2. QED BY <4>1, <1>3, <1>l, <1>t DEF ListsOK, TypeOK
    <3>3. QED BY <3>1, <3>2
  <2>3. \A s \in Sessions : opening'[s] # None => opening'[s] = opening[s]
    BY <1>3, <1>4, <1>t DEF TypeOK
  <2>4. \A s \in Sessions : active[s] \in Runtimes \cup {None} /\ opening[s] \in Runtimes \cup {None}
    BY <1>t DEF TypeOK
  <2>5. QED BY <2>1, <2>2, <2>3, <2>4, <1>1, <1>l DEF ListsOK
<1>9. FailedAreUnlisted'
  <2>1. \A s \in Sessions : active[s] # p /\ active[s] \in Runtimes \cup {None}
    BY <1>l, <1>3, <1>t DEF ListsOK, Opening, TypeOK
  <2>2. QED BY <2>1, <1>1, <1>f DEF FailedAreUnlisted
<1>10. QED BY <1>5, <1>6, <1>7, <1>8, <1>9 DEF RuntimesInv

LEMMA ProceedKeeps ==
  ASSUME RuntimesInv, NEW r \in Requests, Proceed(r)
  PROVE  RuntimesInv'
<1>t. TypeOK BY DEF RuntimesInv
<1>r. \A x \in Requests : RequestOK(x) BY DEF RuntimesInv
<1>p. \A x \in Runtimes : RuntimeOK(x) BY DEF RuntimesInv
<1>l. ListsOK BY DEF RuntimesInv
<1>f. FailedAreUnlisted BY DEF RuntimesInv
<1>0. requests[r] \in Request /\ requests[r].runtime \in Runtimes /\ runtimes[requests[r].runtime].phase = "up"
  <2>1. requests[r] \in Request /\ RequestOK(r) BY <1>t, <1>r DEF TypeOK
  <2>2. At(r, "waiting") /\ runtimes[requests[r].runtime].phase = "up" BY DEF Proceed, Waits
  <2>3. QED BY <2>1, <2>2 DEF RequestOK, At, Request
<1>1. CASE requests[r].op \in {"start", "reload"} /\ Done(r) /\ UNCHANGED runtimes
  <2>1. Ended(requests[r]) \in Request /\ Ended(requests[r]).at = "done" /\ Ended(requests[r]).runtime = None
    BY DEF Ended, Request, Ops
  <2>2. TypeOK' BY <1>1, <1>t, <2>1 DEF TypeOK, Done, Proceed
  <2>3. ASSUME NEW x \in Requests PROVE RequestOK(x)'
    <3>1. CASE x = r BY <1>1, <1>t, <2>1, <3>1 DEF RequestOK, TypeOK, Done
    <3>2. CASE x # r BY <1>1, <1>r, <1>t, <3>2 DEF RequestOK, TypeOK, Done
    <3>3. QED BY <3>1, <3>2
  <2>4. QED BY <2>2, <2>3, <1>1, <1>p, <1>l, <1>f DEF RuntimesInv, RuntimeOK, ListsOK, FailedAreUnlisted, Proceed
<1>2. CASE requests[r].op \notin {"start", "reload"} /\ Uses(r, requests[r], requests[r].runtime)
  BY <1>0, <1>2, UsesKeeps DEF Proceed
<1>3. QED BY <1>1, <1>2 DEF Proceed

LEMMA ArriveKeeps ==
  ASSUME RuntimesInv, NEW r \in Requests, Arrive(r)
  PROVE  RuntimesInv'
<1>t. TypeOK BY DEF RuntimesInv
<1>r. \A x \in Requests : RequestOK(x) BY DEF RuntimesInv
<1>p. \A x \in Runtimes : RuntimeOK(x) BY DEF RuntimesInv
<1>l. ListsOK BY DEF RuntimesInv
<1>f. FailedAreUnlisted BY DEF RuntimesInv
<1> PICK op \in Ops :
       LET req == [requests[r] EXCEPT !.op = op, !.late = installed]
       IN \/ op # "start" /\ \E s \in stored : GetOrOpen(r, req, s)
          \/ op = "start" /\ (\E s \in Fresh : Creates(r, req, s, TRUE)) /\ UNCHANGED opening
  BY DEF Arrive
<1> DEFINE req == [requests[r] EXCEPT !.op = op, !.late = installed]
<1>0. req \in Request /\ req.op = op
  <2>1. requests[r] \in Request /\ installed \in BOOLEAN BY <1>t DEF TypeOK
  <2>2. QED BY <2>1 DEF Request
<1>u. UNCHANGED <<active, stored, installed, disposed>> BY DEF Arrive
<1>1. CASE op = "start" /\ (\E s \in Fresh : Creates(r, req, s, TRUE)) /\ UNCHANGED opening
  <2> PICK s \in Fresh : Creates(r, req, s, TRUE) BY <1>1
  <2>1. s \in Sessions BY DEF Fresh
  <2> HIDE DEF req
  <2>2. QED BY <1>0, <1>u, <1>1, <2>1, CreatesKeeps
<1>2. ASSUME op # "start", NEW s \in stored, GetOrOpen(r, req, s) PROVE RuntimesInv'
  <2>1. s \in Sessions BY <1>t DEF TypeOK
  <2> HIDE DEF req
  <2>2. CASE active[s] # None /\ Uses(r, req, active[s]) /\ UNCHANGED opening
    <3>1. active[s] \in Runtimes /\ runtimes[active[s]].phase = "up"
      BY <1>t, <1>l, <2>1, <2>2 DEF TypeOK, ListsOK
    <3>2. QED BY <1>0, <1>u, <1>2, <2>2, <3>1, UsesKeeps
  <2>3. CASE /\ Joins(s) /\ UNCHANGED <<runtimes, opening>>
             /\ requests' = [requests EXCEPT ![r] = [req EXCEPT !.at = "waiting", !.runtime = opening[s]]]
    <3>1. /\ opening[s] \in Runtimes /\ runtimes[opening[s]].phase # "none" /\ opening[s] # None
      BY <1>t, <1>l, <2>1, <2>3, NoneIsNone DEF TypeOK, ListsOK, Joins, Opening
    <3>2. /\ [req EXCEPT !.at = "waiting", !.runtime = opening[s]] \in Request
          /\ [req EXCEPT !.at = "waiting", !.runtime = opening[s]].at = "waiting"
          /\ [req EXCEPT !.at = "waiting", !.runtime = opening[s]].runtime = opening[s]
      BY <1>0, <3>1 DEF Request
    <3>3. TypeOK' BY <1>t, <1>u, <2>3, <3>2 DEF TypeOK
    <3>4. ASSUME NEW x \in Requests PROVE RequestOK(x)'
      <4>1. CASE x = r BY <1>t, <2>3, <3>1, <3>2, <4>1 DEF RequestOK, TypeOK
      <4>2. CASE x # r BY <1>t, <1>r, <2>3, <4>2 DEF RequestOK, TypeOK
      <4>3. QED BY <4>1, <4>2
    <3>5. QED BY <3>3, <3>4, <1>u, <2>3, <1>p, <1>l, <1>f DEF RuntimesInv, RuntimeOK, ListsOK, FailedAreUnlisted
  <2>4. CASE Creates(r, req, s, FALSE) /\ opening' = [opening EXCEPT ![s] = NewRuntime]
    BY <1>0, <1>u, <2>1, <2>4, CreatesKeeps
  <2>5. QED BY <1>2, <2>2, <2>3, <2>4 DEF GetOrOpen
<1>3. QED BY <1>1, <1>2

LEMMA AnswersKeeps ==
  ASSUME RuntimesInv, NEW r \in Requests, Answers(r)
  PROVE  RuntimesInv'
<1>t. TypeOK BY DEF RuntimesInv
<1>r. \A x \in Requests : RequestOK(x) BY DEF RuntimesInv
<1>p. \A x \in Runtimes : RuntimeOK(x) BY DEF RuntimesInv
<1>l. ListsOK BY DEF RuntimesInv
<1>f. FailedAreUnlisted BY DEF RuntimesInv
<1> DEFINE p == requests[r].runtime
<1>0. /\ requests[r] \in Request /\ p \in Runtimes /\ runtimes[p] \in Runtime /\ RequestOK(r) /\ RuntimeOK(p)
      /\ requests[r].at = "command" /\ requests[r].left = 2
      /\ UNCHANGED <<active, opening, installed, disposed>>
  <2>1. requests[r] \in Request /\ RequestOK(r) BY <1>t, <1>r DEF TypeOK
  <2>2. At(r, "command") /\ requests[r].left = 2 /\ UNCHANGED <<active, opening, installed, disposed>>
    BY DEF Answers
  <2>3. p \in Runtimes BY <2>1, <2>2 DEF RequestOK, At, Request
  <2>4. QED BY <1>t, <1>p, <2>1, <2>2, <2>3 DEF At, TypeOK
<1>1. requests' = [requests EXCEPT ![r] = IF Usable(p) THEN [@ EXCEPT !.left = 1] ELSE Ended(@)]
  BY DEF Answers, NextCommand
<1>2. \/ UNCHANGED <<runtimes, stored>>
      \/ \E s \in Sessions : /\ runtimes' = [runtimes EXCEPT ![p].serves = s, ![p].session = s]
                             /\ stored' = stored \cup {s}
  BY DEF Answers, Fresh
<1> HIDE DEF p
<1>3. /\ \A y \in Runtimes :
           /\ runtimes'[y].phase = runtimes[y].phase /\ runtimes'[y].failed = runtimes[y].failed
           /\ runtimes'[y].process = runtimes[y].process /\ runtimes'[y].closing = runtimes[y].closing
           /\ runtimes'[y].knows = runtimes[y].knows /\ runtimes'[y].told = runtimes[y].told
           /\ runtimes'[y].new = runtimes[y].new
      /\ \A y \in Runtimes \ {p} : runtimes'[y] = runtimes[y]
      /\ runtimes'[p] = runtimes[p] \/ (runtimes'[p].session \in Sessions /\ runtimes'[p].serves \in Sessions)
      /\ runtimes' \in [Runtimes -> Runtime] /\ stored' \subseteq Sessions
  <2>1. CASE UNCHANGED <<runtimes, stored>> BY <1>0, <2>1, <1>t DEF TypeOK
  <2>2. ASSUME NEW s \in Sessions, runtimes' = [runtimes EXCEPT ![p].serves = s, ![p].session = s],
               stored' = stored \cup {s}
        PROVE  /\ \A y \in Runtimes :
                    /\ runtimes'[y].phase = runtimes[y].phase /\ runtimes'[y].failed = runtimes[y].failed
                    /\ runtimes'[y].process = runtimes[y].process /\ runtimes'[y].closing = runtimes[y].closing
                    /\ runtimes'[y].knows = runtimes[y].knows /\ runtimes'[y].told = runtimes[y].told
                    /\ runtimes'[y].new = runtimes[y].new
               /\ \A y \in Runtimes \ {p} : runtimes'[y] = runtimes[y]
               /\ runtimes'[p] = runtimes[p] \/ (runtimes'[p].session \in Sessions /\ runtimes'[p].serves \in Sessions)
               /\ runtimes' \in [Runtimes -> Runtime] /\ stored' \subseteq Sessions
    <3> DEFINE it == [runtimes[p] EXCEPT !.serves = s, !.session = s]
    <3>1. runtimes' = [runtimes EXCEPT ![p] = it] BY <2>2, <1>0, <1>t DEF TypeOK
    <3>2. /\ it \in Runtime /\ it.phase = runtimes[p].phase /\ it.failed = runtimes[p].failed
          /\ it.process = runtimes[p].process /\ it.closing = runtimes[p].closing
          /\ it.knows = runtimes[p].knows /\ it.told = runtimes[p].told /\ it.new = runtimes[p].new
          /\ it.session = s /\ it.serves = s
      BY <1>0 DEF Runtime
    <3> HIDE DEF it
    <3>3. runtimes'[p] = it /\ \A y \in Runtimes \ {p} : runtimes'[y] = runtimes[y]
      BY <3>1, <1>0, <1>t DEF TypeOK
    <3>4. runtimes' \in [Runtimes -> Runtime] BY <3>1, <3>2, <1>0, <1>t DEF TypeOK
    <3>5. stored' \subseteq Sessions BY <2>2, <1>t DEF TypeOK
    <3>6. QED BY <3>2, <3>3, <3>4, <3>5
  <2>3. QED BY <1>2, <2>1, <2>2
<1>4. Ended(requests[r]) \in Request /\ Ended(requests[r]).at = "done" /\ Ended(requests[r]).runtime = None
  BY DEF Ended, Request, Ops
<1>5. /\ [requests[r] EXCEPT !.left = 1] \in Request
      /\ [requests[r] EXCEPT !.left = 1].at = requests[r].at
      /\ [requests[r] EXCEPT !.left = 1].runtime = requests[r].runtime
      /\ [requests[r] EXCEPT !.left = 1].op = requests[r].op
  BY <1>0 DEF Request
<1>6. TypeOK'
  <2>1. CASE Usable(p)
    <3>1. requests' = [requests EXCEPT ![r] = [requests[r] EXCEPT !.left = 1]] BY <1>1, <2>1
    <3>2. requests' \in [Requests -> Request] BY <3>1, <1>5, <1>t DEF TypeOK
    <3>3. QED BY <1>0, <1>3, <1>t, <3>2 DEF TypeOK
  <2>2. CASE ~Usable(p)
    <3>1. requests' = [requests EXCEPT ![r] = Ended(requests[r])] BY <1>1, <2>2
    <3>2. requests' \in [Requests -> Request] BY <3>1, <1>4, <1>t DEF TypeOK
    <3>3. QED BY <1>0, <1>3, <1>t, <3>2 DEF TypeOK
  <2>3. QED BY <2>1, <2>2
<1>7. ASSUME NEW x \in Requests PROVE RequestOK(x)'
  <2>1. RequestOK(x) /\ requests[x].runtime \in Runtimes \cup {None}
    BY <1>r, <1>t DEF TypeOK, Request
  <2>2. CASE requests'[x].at = requests[x].at /\ requests'[x].runtime = requests[x].runtime
             /\ requests'[x].op = requests[x].op
    BY <2>1, <2>2, <1>3 DEF RequestOK
  <2>3. CASE requests'[x].at = "done" /\ requests'[x].runtime = None BY <2>3 DEF RequestOK
  <2>4. QED BY <1>1, <1>4, <1>5, <1>t, <2>2, <2>3 DEF TypeOK
<1>8. ASSUME NEW x \in Runtimes PROVE RuntimeOK(x)'
  <2>1. CASE runtimes'[x] = runtimes[x] BY <1>p, <2>1 DEF RuntimeOK
  <2>2. CASE runtimes'[x] # runtimes[x]
    <3>1. x = p /\ runtimes'[x].session \in Sessions /\ runtimes'[x].serves \in Sessions BY <1>3, <2>2
    <3>2. runtimes[p].phase = "up" BY <1>0 DEF RequestOK, p
    <3>3. QED BY <1>0, <1>3, <3>1, <3>2, NoneIsNone DEF RuntimeOK
  <2>3. QED BY <2>1, <2>2
<1>9. ListsOK'
  <2>1. runtimes[p].phase = "up" BY <1>0 DEF RequestOK, p
  <2>2. QED BY <1>0, <1>3, <1>l, <1>t, <2>1, NoneIsNone DEF ListsOK, TypeOK, Opening
<1>10. FailedAreUnlisted' BY <1>0, <1>3, <1>f, <1>t DEF FailedAreUnlisted, TypeOK
<1>11. QED BY <1>6, <1>7, <1>8, <1>9, <1>10 DEF RuntimesInv

\* A step that may end requests, and leaves the runtimes as they are to the others.
LEMMA RuntimesStay ==
  ASSUME RuntimesInv, TypeOK', UNCHANGED opening,
         \A x \in Requests : requests'[x] = requests[x] \/ (requests'[x].at = "done" /\ requests'[x].runtime = None),
         \A y \in Runtimes :
            /\ RuntimeOK(y)'
            /\ \/ runtimes'[y].phase = runtimes[y].phase
               \/ runtimes[y].phase = "starting" /\ runtimes'[y].phase = "failing"
            /\ runtimes'[y].failed = runtimes[y].failed /\ runtimes'[y].told = runtimes[y].told
            /\ runtimes'[y].process = "exited" <=> runtimes[y].process = "exited"
            /\ runtimes'[y].closing = "no" => runtimes[y].closing = "no"
            /\ runtimes[y].phase # "up" => /\ runtimes'[y].new = runtimes[y].new
                                           /\ runtimes'[y].session = runtimes[y].session,
         \A s \in Sessions : \/ active'[s] \in {active[s], None}
                             \/ /\ active'[s] \in Runtimes /\ runtimes[active'[s]].phase = "up"
                                /\ ~runtimes[active'[s]].failed
  PROVE  RuntimesInv'
<1>t. TypeOK BY DEF RuntimesInv
<1>r. \A x \in Requests : RequestOK(x) BY DEF RuntimesInv
<1>p. \A x \in Runtimes : RuntimeOK(x) BY DEF RuntimesInv
<1>l. ListsOK /\ FailedAreUnlisted BY DEF RuntimesInv
<1>1. ASSUME NEW x \in Requests PROVE RequestOK(x)'
  <2>1. RequestOK(x) /\ requests[x] \in Request BY <1>r, <1>t DEF TypeOK
  <2>2. CASE requests'[x].at = "done" /\ requests'[x].runtime = None BY <2>2 DEF RequestOK
  <2>3. CASE requests'[x] = requests[x]
    <3>1. CASE requests[x].runtime \in Runtimes BY <2>1, <2>3, <3>1 DEF RequestOK, Request
    <3>2. CASE requests[x].runtime = None BY <2>1, <2>3, <3>2 DEF RequestOK, Request
    <3>3. QED BY <2>1, <3>1, <3>2 DEF Request
  <2>4. QED BY <2>2, <2>3
<1>2. \A y \in Runtimes : /\ runtimes[y].phase = "up" => runtimes'[y].phase = "up"
                          /\ runtimes[y].phase \in Opening => runtimes'[y].phase \in Opening
  BY DEF Opening
<1>3. ListsOK'
  <2>1. ASSUME NEW s \in Sessions, active'[s] # None PROVE runtimes'[active'[s]].phase = "up"
    <3>1. active'[s] \in Runtimes /\ runtimes[active'[s]].phase = "up"
      BY <2>1, <1>l, <1>t DEF ListsOK, TypeOK
    <3>2. QED BY <1>2, <3>1
  <2>2. ASSUME NEW s \in Sessions, opening[s] # None
        PROVE  /\ runtimes'[opening[s]].phase \in Opening
               /\ ~runtimes'[opening[s]].new /\ runtimes'[opening[s]].session = s
    <3>1. /\ opening[s] \in Runtimes /\ runtimes[opening[s]].phase \in Opening
          /\ ~runtimes[opening[s]].new /\ runtimes[opening[s]].session = s
      BY <2>2, <1>l, <1>t DEF ListsOK, TypeOK
    <3>2. runtimes[opening[s]].phase # "up" BY <3>1 DEF Opening
    <3>3. QED BY <1>2, <3>1, <3>2
  <2>3. QED BY <2>1, <2>2 DEF ListsOK
<1>4. FailedAreUnlisted'
  <2> SUFFICES ASSUME NEW s \in Sessions, active'[s] # None, runtimes'[active'[s]].failed
               PROVE  runtimes'[active'[s]].told # s \/ runtimes'[active'[s]].closing # "no"
    BY DEF FailedAreUnlisted
  <2>1. active'[s] \in Runtimes BY <1>t DEF TypeOK
  <2>2. active'[s] = active[s] /\ runtimes[active[s]].failed BY <2>1
  <2>3. QED BY <2>1, <2>2, <1>l DEF FailedAreUnlisted
<1>5. QED BY <1>1, <1>3, <1>4 DEF RuntimesInv

LEMMA RequestIsOver ==
  ASSUME RuntimesInv, NEW r \in Requests, Done(r)
  PROVE  /\ requests' \in [Requests -> Request]
         /\ requests'[r].at = "done" /\ requests'[r].runtime = None
         /\ \A x \in Requests \ {r} : requests'[x] = requests[x]
<1>1. requests \in [Requests -> Request] BY DEF RuntimesInv, TypeOK
<1>2. Ended(requests[r]) \in Request /\ Ended(requests[r]).at = "done" /\ Ended(requests[r]).runtime = None
  BY <1>1 DEF Ended, Request, Ops
<1>3. requests' = [requests EXCEPT ![r] = Ended(requests[r])] BY DEF Done
<1>4. QED BY <1>1, <1>2, <1>3

LEMMA CommandsRuntime ==
  ASSUME RuntimesInv, NEW r \in Requests, At(r, "command")
  PROVE  /\ requests[r].runtime \in Runtimes /\ runtimes[requests[r].runtime].phase = "up"
         /\ ~runtimes[requests[r].runtime].failed
<1>1. RequestOK(r) /\ requests[r] \in Request BY DEF RuntimesInv, TypeOK
<1>2. QED BY <1>1 DEF RequestOK, Request, At

LEMMA BranchesLateKeeps ==
  ASSUME RuntimesInv, NEW r \in Requests, BranchesLate(r)
  PROVE  RuntimesInv'
<1>t. TypeOK BY DEF RuntimesInv
<1>r. \A x \in Requests : RequestOK(x) BY DEF RuntimesInv
<1>p. \A x \in Runtimes : RuntimeOK(x) BY DEF RuntimesInv
<1>1. At(r, "command") /\ Done(r) /\ UNCHANGED <<active, opening, installed, disposed>> BY DEF BranchesLate
<1>2. PICK p \in Runtimes : p = requests[r].runtime /\ runtimes[p].phase = "up"
  BY <1>1, CommandsRuntime
<1>3. PICK s \in Fresh : /\ runtimes' = [runtimes EXCEPT ![p].serves = s, ![p].session = s]
                         /\ stored' = stored \cup {s}
  BY <1>2 DEF BranchesLate
<1>4. s \in Sessions /\ s # None BY NoneIsNone DEF Fresh
<1>5. TypeOK'
  <2>0. runtimes[p] \in Runtime /\ runtimes' = [runtimes EXCEPT ![p] = [runtimes[p] EXCEPT !.serves = s, !.session = s]]
    BY <1>2, <1>3, <1>t DEF TypeOK
  <2>1. runtimes' \in [Runtimes -> Runtime]
    <3>1. [runtimes[p] EXCEPT !.serves = s, !.session = s] \in Runtime BY <1>4, <2>0 DEF Runtime
    <3>2. QED BY <1>t, <2>0, <3>1 DEF TypeOK
  <2>2. requests' \in [Requests -> Request] BY <1>1, RequestIsOver
  <2>3. stored' \subseteq Sessions BY <1>3, <1>4, <1>t DEF TypeOK
  <2>4. QED BY <1>1, <1>t, <2>1, <2>2, <2>3 DEF TypeOK
<1>6. /\ \A y \in Runtimes \ {p} : runtimes'[y] = runtimes[y]
      /\ runtimes'[p].phase = "up" /\ runtimes'[p].failed = runtimes[p].failed
      /\ runtimes'[p].told = runtimes[p].told /\ runtimes'[p].knows = runtimes[p].knows
      /\ runtimes'[p].process = runtimes[p].process /\ runtimes'[p].closing = runtimes[p].closing
      /\ runtimes'[p].serves = s /\ runtimes'[p].session = s
  BY <1>2, <1>3, <1>t DEF TypeOK, Runtime
<1>7. \A y \in Runtimes : RuntimeOK(y)' BY <1>2, <1>4, <1>6, <1>p DEF RuntimeOK
<1>8. QED BY <1>1, <1>2, <1>5, <1>6, <1>7, RequestIsOver, RuntimesStay

LEMMA RekeyedTyped ==
  ASSUME TypeOK, NEW p \in Runtimes, runtimes[p].phase = "up", ~runtimes[p].failed, NEW session,
         active' = Rekeyed(p, session)
  PROVE  /\ active' \in [Sessions -> Runtimes \cup {None}]
         /\ \A s \in Sessions : \/ active'[s] \in {active[s], None}
                                \/ /\ active'[s] \in Runtimes /\ runtimes[active'[s]].phase = "up"
                                   /\ ~runtimes[active'[s]].failed
BY DEF TypeOK, Rekeyed

LEMMA BranchCancelledKeeps ==
  ASSUME RuntimesInv, NEW r \in Requests, BranchCancelled(r)
  PROVE  RuntimesInv'
<1>t. TypeOK BY DEF RuntimesInv
<1>r. \A x \in Requests : RequestOK(x) BY DEF RuntimesInv
<1>p. \A x \in Runtimes : RuntimeOK(x) BY DEF RuntimesInv
<1>1. At(r, "command") /\ Done(r) /\ UNCHANGED <<runtimes, opening, stored, installed, disposed>>
  BY DEF BranchCancelled
<1>2. active' = Rekeyed(requests[r].runtime, runtimes[requests[r].runtime].knows) BY DEF BranchCancelled
<1>3. TypeOK' BY <1>1, <1>2, <1>t, CommandsRuntime, RekeyedTyped, RequestIsOver DEF TypeOK
<1>4. \A y \in Runtimes : RuntimeOK(y)' BY <1>1, <1>p DEF RuntimeOK
<1>5. \A x \in Requests : requests'[x] = requests[x] \/ (requests'[x].at = "done" /\ requests'[x].runtime = None)
  BY <1>1, RequestIsOver
<1>6. \A s \in Sessions : \/ active'[s] \in {active[s], None}
                          \/ /\ active'[s] \in Runtimes /\ runtimes[active'[s]].phase = "up"
                             /\ ~runtimes[active'[s]].failed
  BY <1>1, <1>2, <1>t, CommandsRuntime, RekeyedTyped
<1>7. QED BY <1>1, <1>3, <1>4, <1>5, <1>6, RuntimesStay

\* A runtime that is up learns which session its process has.
LEMMA RuntimeLearns ==
  ASSUME RuntimesInv, NEW p \in Runtimes, runtimes[p].phase = "up",
         runtimes' \in {runtimes, [runtimes EXCEPT ![p].knows = runtimes[p].serves]}
  PROVE  /\ runtimes' \in [Runtimes -> Runtime]
         /\ \A y \in Runtimes :
              /\ RuntimeOK(y)'
              /\ runtimes'[y].phase = runtimes[y].phase /\ runtimes'[y].failed = runtimes[y].failed
              /\ runtimes'[y].told = runtimes[y].told /\ runtimes'[y].process = runtimes[y].process
              /\ runtimes'[y].closing = runtimes[y].closing /\ runtimes'[y].new = runtimes[y].new
              /\ runtimes'[y].session = runtimes[y].session
<1>t. TypeOK BY DEF RuntimesInv
<1>r. \A x \in Requests : RequestOK(x) BY DEF RuntimesInv
<1>p. \A x \in Runtimes : RuntimeOK(x) BY DEF RuntimesInv
<1>1. runtimes' \in [Runtimes -> Runtime] BY <1>t DEF TypeOK, Runtime
<1>2. /\ \A y \in Runtimes \ {p} : runtimes'[y] = runtimes[y]
      /\ runtimes'[p].phase = runtimes[p].phase /\ runtimes'[p].failed = runtimes[p].failed
      /\ runtimes'[p].told = runtimes[p].told /\ runtimes'[p].process = runtimes[p].process
      /\ runtimes'[p].closing = runtimes[p].closing /\ runtimes'[p].new = runtimes[p].new
      /\ runtimes'[p].session = runtimes[p].session /\ runtimes'[p].serves = runtimes[p].serves
      /\ runtimes'[p].knows \in {runtimes[p].knows, runtimes[p].serves}
  BY <1>t DEF TypeOK, Runtime
<1>3. \A y \in Runtimes : RuntimeOK(y)' BY <1>2, <1>p DEF RuntimeOK
<1>4. QED BY <1>1, <1>2, <1>3

LEMMA AnswersLastKeeps ==
  ASSUME RuntimesInv, NEW r \in Requests, AnswersLast(r)
  PROVE  RuntimesInv'
<1>t. TypeOK BY DEF RuntimesInv
<1>r. \A x \in Requests : RequestOK(x) BY DEF RuntimesInv
<1>p. \A x \in Runtimes : RuntimeOK(x) BY DEF RuntimesInv
<1> DEFINE p == requests[r].runtime
<1>1. At(r, "command") /\ Done(r) /\ UNCHANGED <<opening, stored, installed, disposed>> BY DEF AnswersLast
<1>2. p \in Runtimes /\ runtimes[p].phase = "up" /\ ~runtimes[p].failed BY <1>1, CommandsRuntime
<1>3. /\ runtimes' \in {runtimes, [runtimes EXCEPT ![p].knows = runtimes[p].serves]}
      /\ active' = active \/ active' = Rekeyed(p, runtimes[p].serves)
  BY DEF AnswersLast
<1> HIDE DEF p
<1>4. active' \in [Sessions -> Runtimes \cup {None}] BY <1>2, <1>3, <1>t, RekeyedTyped DEF TypeOK
<1>5. runtimes' \in [Runtimes -> Runtime] BY <1>2, <1>3, RuntimeLearns
<1>6. TypeOK' BY <1>1, <1>4, <1>5, <1>t, RequestIsOver DEF TypeOK
<1>7. \A x \in Requests : requests'[x] = requests[x] \/ (requests'[x].at = "done" /\ requests'[x].runtime = None)
  BY <1>1, RequestIsOver
<1>8. \A s \in Sessions : \/ active'[s] \in {active[s], None}
                          \/ /\ active'[s] \in Runtimes /\ runtimes[active'[s]].phase = "up"
                             /\ ~runtimes[active'[s]].failed
  BY <1>2, <1>3, <1>t, RekeyedTyped
<1>9. \A y \in Runtimes :
        /\ RuntimeOK(y)'
        /\ runtimes'[y].phase = runtimes[y].phase /\ runtimes'[y].failed = runtimes[y].failed
        /\ runtimes'[y].told = runtimes[y].told /\ runtimes'[y].process = runtimes[y].process
        /\ runtimes'[y].closing = runtimes[y].closing /\ runtimes'[y].new = runtimes[y].new
        /\ runtimes'[y].session = runtimes[y].session
  BY <1>2, <1>3, RuntimeLearns
<1>10. QED BY <1>1, <1>6, <1>7, <1>8, <1>9, RuntimesStay

LEMMA RequestOverKeeps ==
  ASSUME RuntimesInv, NEW r \in Requests, Done(r), UNCHANGED <<runtimes, active, opening, stored, installed, disposed>>
  PROVE  RuntimesInv'
<1>t. TypeOK BY DEF RuntimesInv
<1>r. \A x \in Requests : RequestOK(x) BY DEF RuntimesInv
<1>p. \A x \in Runtimes : RuntimeOK(x) BY DEF RuntimesInv
<1>1. TypeOK' BY <1>t, RequestIsOver DEF TypeOK
<1>2. \A y \in Runtimes : RuntimeOK(y)' BY <1>p DEF RuntimeOK
<1>3. QED BY <1>1, <1>2, RequestIsOver, RuntimesStay

LEMMA RefusesKeeps ==
  ASSUME RuntimesInv, NEW r \in Requests, Refuses(r)
  PROVE  RuntimesInv'
BY RequestOverKeeps DEF Refuses

LEMMA TimesOutKeeps ==
  ASSUME RuntimesInv, NEW r \in Requests, TimesOut(r)
  PROVE  RuntimesInv'
BY RequestOverKeeps DEF TimesOut

LEMMA CloseReturnsKeeps ==
  ASSUME RuntimesInv, NEW r \in Requests, CloseReturns(r)
  PROVE  RuntimesInv'
<1>t. TypeOK BY DEF RuntimesInv
<1>r. \A x \in Requests : RequestOK(x) BY DEF RuntimesInv
<1>p. \A x \in Runtimes : RuntimeOK(x) BY DEF RuntimesInv
<1>l. ListsOK BY DEF RuntimesInv
<1>f. FailedAreUnlisted BY DEF RuntimesInv
<1> DEFINE o == requests[r].runtime
           s == runtimes[o].knows
           p == NewRuntime
           reloads == requests[r].op # "stop"
           it == IF reloads THEN [requests[r] EXCEPT !.at = "waiting", !.runtime = p] ELSE Ended(requests[r])
           rts == IF reloads THEN [runtimes EXCEPT ![p] = Opens(s, TRUE)] ELSE runtimes
<1>0. /\ requests[r] \in Request /\ RequestOK(r) /\ At(r, "closing")
      /\ o \in Runtimes /\ runtimes[o].phase = "up" /\ runtimes[o] \in Runtime /\ s \in Sessions
      /\ requests[r].op \in {"stop", "reload"} /\ (reloads => Room)
      /\ UNCHANGED <<opening, stored, installed, disposed>>
  <2>1. requests[r] \in Request /\ RequestOK(r) /\ At(r, "closing") BY <1>t, <1>r DEF TypeOK, CloseReturns, ClosingIsOver
  <2>2. o \in Runtimes /\ runtimes[o].phase = "up" /\ requests[r].op \in {"stop", "reload"}
    BY <2>1 DEF RequestOK, At, Request
  <2>3. runtimes[o] \in Runtime /\ RuntimeOK(o) BY <2>2, <1>t, <1>p DEF TypeOK
  <2>4. s \in Sessions BY <2>2, <2>3 DEF RuntimeOK, Runtime
  <2>5. QED BY <2>1, <2>2, <2>3, <2>4 DEF CloseReturns
<1>1. /\ active' = [active EXCEPT ![s] = None]
      /\ requests' = [requests EXCEPT ![r] = it]
      /\ runtimes' = Swept(rts, requests', active')
  <2>1. /\ active' = [active EXCEPT ![s] = None]
        /\ requests' = [requests EXCEPT ![r] = IF @.op = "stop" THEN Ended(@) ELSE [@ EXCEPT !.at = "waiting", !.runtime = p]]
        /\ runtimes' = Swept(IF requests[r].op = "stop" THEN runtimes
                             ELSE [runtimes EXCEPT ![p] = Opens(s, TRUE)], requests', active')
    BY DEF CloseReturns
  <2>2. (IF requests[r].op = "stop" THEN runtimes ELSE [runtimes EXCEPT ![p] = Opens(s, TRUE)]) = rts
    OBVIOUS
  <2>3. requests' = [requests EXCEPT ![r] = it] BY <2>1, <1>t DEF TypeOK
  <2> HIDE DEF rts, it
  <2>4. QED BY <2>1, <2>2, <2>3
<1>2. reloads => p \in Runtimes /\ runtimes[p].phase = "none" /\ p # None BY <1>0, NewIsFree, NoneIsNone
<1> HIDE DEF p
<1>3. /\ it \in Request
      /\ ~reloads => it.at = "done" /\ it.runtime = None
      /\ reloads => it.at = "waiting" /\ it.runtime = p
  <2>1. Ended(requests[r]) \in Request /\ Ended(requests[r]).at = "done" /\ Ended(requests[r]).runtime = None
    BY DEF Ended, Request, Ops
  <2>2. reloads => [requests[r] EXCEPT !.at = "waiting", !.runtime = p] \in Request BY <1>0, <1>2 DEF Request
  <2>3. QED BY <1>0, <2>1, <2>2 DEF Request
<1>4. /\ Opens(s, TRUE) \in Runtime /\ Opens(s, TRUE).phase = "looking"
      /\ Opens(s, TRUE).session = s /\ Opens(s, TRUE).new
      /\ Opens(s, TRUE).process = "none" /\ ~Opens(s, TRUE).failed /\ Opens(s, TRUE).closing = "no"
  BY <1>0 DEF Opens, Unused, Runtime
<1>5. /\ rts \in [Runtimes -> Runtime]
      /\ \A y \in Runtimes : rts[y] = runtimes[y] \/ (reloads /\ y = p /\ rts[y] = Opens(s, TRUE))
      /\ reloads => rts[p] = Opens(s, TRUE)
  <2> HIDE DEF s
  <2>1. QED BY <1>2, <1>4, <1>t DEF TypeOK
<1> HIDE DEF rts, it, reloads
<1>6. /\ runtimes' \in [Runtimes -> Runtime]
      /\ \A q \in Runtimes :
            \/ runtimes'[q] = rts[q]
            \/ /\ runtimes'[q] = Unused
               /\ \A x \in Sessions : active'[x] # q
               /\ \A x \in Requests : requests'[x].runtime # q
               /\ rts[q].process = "exited"
  <2>1. runtimes' = Swept(rts, requests', active') BY <1>1
  <2>2. QED BY <1>5, <2>1, SweptIsGone
<1>7. requests'[r] = it /\ \A x \in Requests \ {r} : requests'[x] = requests[x]
  BY <1>1, <1>t DEF TypeOK
<1>8. TypeOK' BY <1>0, <1>1, <1>3, <1>6, <1>t DEF TypeOK
<1>9. ASSUME NEW x \in Requests PROVE RequestOK(x)'
  <2>1. RequestOK(x) /\ requests[x] \in Request /\ requests[x].runtime \in Runtimes \cup {None}
    BY <1>r, <1>t DEF TypeOK, Request
  <2>2. CASE x = r /\ ~reloads BY <1>3, <1>7, <2>2 DEF RequestOK
  <2>3. CASE x = r /\ reloads
    <3>1. requests'[x].at = "waiting" /\ requests'[x].runtime = p BY <1>3, <1>7, <2>3
    <3>2. runtimes'[p] = rts[p] BY <1>2, <1>6, <2>3, <3>1
    <3>3. QED BY <1>2, <1>4, <1>5, <2>3, <3>1, <3>2 DEF RequestOK
  <2>4. CASE x # r
    <3>1. requests'[x] = requests[x] BY <1>7, <2>4
    <3>2. CASE requests[x].runtime = None BY <2>1, <3>1, <3>2 DEF RequestOK
    <3>3. CASE requests[x].runtime # None
      <4>1. runtimes'[requests[x].runtime] = rts[requests[x].runtime] BY <1>6, <2>1, <3>1, <3>3
      <4>2. runtimes[requests[x].runtime].phase # "none" BY <2>1, <3>3 DEF RequestOK, Request
      <4>3. rts[requests[x].runtime] = runtimes[requests[x].runtime] BY <1>2, <1>5, <2>1, <3>3, <4>2
      <4>4. QED BY <2>1, <3>1, <4>1, <4>3 DEF RequestOK
    <3>4. QED BY <3>2, <3>3
  <2>5. QED BY <2>2, <2>3, <2>4
<1>10. ASSUME NEW x \in Runtimes PROVE RuntimeOK(x)'
  <2>1. CASE runtimes'[x] = Unused
    <3>1. Unused.phase = "none" BY DEF Unused
    <3>2. QED BY <2>1, <3>1 DEF RuntimeOK
  <2>2. CASE runtimes'[x] = runtimes[x] BY <2>2, <1>p DEF RuntimeOK
  <2>3. CASE runtimes'[x] = Opens(s, TRUE) BY <1>0, <1>4, <2>3, NoneIsNone DEF RuntimeOK
  <2>4. QED BY <1>5, <1>6, <2>1, <2>2, <2>3
<1>11. \A x \in Sessions : active'[x] # None =>
          active'[x] = active[x] /\ active[x] \in Runtimes /\ runtimes'[active[x]] = runtimes[active[x]]
  <2> SUFFICES ASSUME NEW x \in Sessions, active'[x] # None
               PROVE  active'[x] = active[x] /\ active[x] \in Runtimes /\ runtimes'[active[x]] = runtimes[active[x]]
    OBVIOUS
  <2>1. active'[x] = active[x] /\ active[x] \in Runtimes BY <1>0, <1>1, <1>t DEF TypeOK
  <2>2. runtimes[active[x]].phase = "up" BY <2>1, <1>l, NoneIsNone DEF ListsOK
  <2>3. runtimes'[active[x]] = rts[active[x]] BY <1>6, <2>1
  <2>4. rts[active[x]] = runtimes[active[x]] BY <1>2, <1>5, <2>1, <2>2
  <2>5. QED BY <2>1, <2>3, <2>4
<1>12. ListsOK'
  <2>1. \A x \in Sessions : active'[x] # None => runtimes'[active'[x]].phase = "up"
    BY <1>11, <1>l DEF ListsOK
  <2>2. ASSUME NEW x \in Sessions, opening[x] # None PROVE runtimes'[opening[x]] = runtimes[opening[x]]
    <3>1. opening[x] \in Runtimes /\ runtimes[opening[x]].phase \in Opening
      BY <2>2, <1>l, <1>t DEF ListsOK, TypeOK
    <3>2. rts[opening[x]] = runtimes[opening[x]] BY <3>1, <1>2, <1>5 DEF Opening
    <3>3. runtimes[opening[x]].process # "exited" BY <3>1, <1>p DEF RuntimeOK, Opening
    <3>4. QED BY <3>1, <3>2, <3>3, <1>6
  <2>3. QED BY <2>1, <2>2, <1>0, <1>l DEF ListsOK
<1>13. FailedAreUnlisted' BY <1>11, <1>f DEF FailedAreUnlisted
<1>14. QED BY <1>8, <1>9, <1>10, <1>12, <1>13 DEF RuntimesInv

LEMMA SpawnKeeps ==
  ASSUME RuntimesInv, NEW p \in Runtimes, Spawn(p)
  PROVE  RuntimesInv'
<1>t. TypeOK BY DEF RuntimesInv
<1>r. \A x \in Requests : RequestOK(x) BY DEF RuntimesInv
<1>p. \A x \in Runtimes : RuntimeOK(x) BY DEF RuntimesInv
<1>l. ListsOK BY DEF RuntimesInv
<1>f. FailedAreUnlisted BY DEF RuntimesInv
<1>0. /\ runtimes[p] \in Runtime /\ RuntimeOK(p) /\ runtimes[p].phase = "looking" /\ p # None
      /\ UNCHANGED <<active, stored, installed, disposed>>
  BY <1>t, <1>p, NoneIsNone DEF TypeOK, Spawn
<1>1. CASE OpeningFails(p) BY <1>0, <1>1, OpeningFailsKeeps DEF Opening
<1>2. CASE /\ UNCHANGED <<requests, opening>>
           /\ runtimes' = [runtimes EXCEPT ![p] =
             IF installed
             THEN [@ EXCEPT !.phase = "starting", !.process = "alive", !.serves = runtimes[p].session]
             ELSE [@ EXCEPT !.phase = "failing", !.process = "unborn", !.failed = TRUE, !.closing = "ended"]]
  <2> DEFINE it == IF installed
             THEN [runtimes[p] EXCEPT !.phase = "starting", !.process = "alive", !.serves = runtimes[p].session]
             ELSE [runtimes[p] EXCEPT !.phase = "failing", !.process = "unborn", !.failed = TRUE, !.closing = "ended"]
  <2>1. runtimes[p].session \in Sessions BY <1>0, NoneIsNone DEF RuntimeOK, Runtime
  <2>2. it \in Runtime BY <1>0, <2>1 DEF Runtime
  <2>3. runtimes'[p] = it /\ \A y \in Runtimes \ {p} : runtimes'[y] = runtimes[y]
    BY <1>t, <1>2 DEF TypeOK
  <2>4. /\ it.phase \in {"starting", "failing"} /\ it.session = runtimes[p].session /\ it.new = runtimes[p].new
        /\ it.phase = "starting" => it.process = "alive" /\ ~it.failed /\ it.closing = "no" /\ it.serves = it.session
        /\ it.phase = "failing" => it.process = "unborn"
    BY <1>0, <2>1 DEF Runtime, RuntimeOK
  <2>9. runtimes' = [runtimes EXCEPT ![p] = it] BY <1>2
  <2> HIDE DEF it
  <2>5. TypeOK' BY <1>0, <1>2, <1>t, <2>2, <2>9 DEF TypeOK
  <2>6. ASSUME NEW x \in Requests PROVE RequestOK(x)'
    <3>1. RequestOK(x) /\ requests[x].runtime \in Runtimes \cup {None} /\ requests'[x] = requests[x]
      BY <1>2, <1>r, <1>t DEF TypeOK, Request
    <3>2. CASE requests[x].runtime = p BY <1>0, <3>1, <3>2, <2>3, <2>4 DEF RequestOK
    <3>3. CASE requests[x].runtime # p BY <3>1, <3>3, <2>3 DEF RequestOK
    <3>4. QED BY <3>2, <3>3
  <2>7. ASSUME NEW x \in Runtimes PROVE RuntimeOK(x)'
    <3>1. CASE x = p BY <3>1, <2>1, <2>3, <2>4, NoneIsNone DEF RuntimeOK
    <3>2. CASE x # p BY <3>2, <2>3, <1>p DEF RuntimeOK
    <3>3. QED BY <3>1, <3>2
  <2>8. ListsOK'
    BY <1>0, <1>2, <1>l, <1>t, <2>3, <2>4 DEF ListsOK, TypeOK, Opening
  <2>10. FailedAreUnlisted'
    BY <1>0, <1>l, <1>f, <1>t, <2>3 DEF FailedAreUnlisted, ListsOK, TypeOK
  <2>11. QED BY <2>5, <2>6, <2>7, <2>8, <2>10 DEF RuntimesInv
<1>3. QED BY <1>1, <1>2 DEF Spawn

LEMMA ComesUpKeeps ==
  ASSUME RuntimesInv, NEW p \in Runtimes, ComesUp(p)
  PROVE  RuntimesInv'
<1>t. TypeOK BY DEF RuntimesInv
<1>r. \A x \in Requests : RequestOK(x) BY DEF RuntimesInv
<1>p. \A x \in Runtimes : RuntimeOK(x) BY DEF RuntimesInv
<1>l. ListsOK BY DEF RuntimesInv
<1>f. FailedAreUnlisted BY DEF RuntimesInv
<1> DEFINE s == runtimes[p].serves
           it == [runtimes[p] EXCEPT !.phase = "up", !.knows = s, !.told = s]
<1>0. /\ runtimes[p] \in Runtime /\ RuntimeOK(p) /\ p # None
      /\ runtimes[p].phase = "starting" /\ runtimes[p].process = "alive"
      /\ UNCHANGED <<requests, installed, disposed>>
  BY <1>t, <1>p, NoneIsNone DEF TypeOK, ComesUp, Alive
<1>1. /\ s \in Sessions /\ runtimes[p].session \in Sessions /\ ~runtimes[p].failed
  BY <1>0, NoneIsNone DEF RuntimeOK, Runtime
<1>2. /\ it \in Runtime /\ it.phase = "up" /\ it.knows = s /\ it.told = s /\ it.serves = s
      /\ it.session = runtimes[p].session /\ it.process = "alive" /\ ~it.failed /\ it.new = runtimes[p].new
      /\ it.closing = runtimes[p].closing
  BY <1>0, <1>1 DEF Runtime
<1>3. runtimes' = [runtimes EXCEPT ![p] = it] BY <1>t DEF TypeOK, ComesUp
<1>4. /\ active' = [active EXCEPT ![s] = p] /\ stored' = stored \cup {s}
      /\ IF runtimes[p].new THEN UNCHANGED opening ELSE opening' = [opening EXCEPT ![runtimes[p].session] = None]
  BY DEF ComesUp, Released
<1> HIDE DEF it, s
<1>5. runtimes'[p] = it /\ \A y \in Runtimes \ {p} : runtimes'[y] = runtimes[y] BY <1>3, <1>t DEF TypeOK
<1>6. TypeOK' BY <1>0, <1>1, <1>2, <1>3, <1>4, <1>t DEF TypeOK
<1>7. ASSUME NEW x \in Requests PROVE RequestOK(x)'
  <2>1. RequestOK(x) /\ requests[x].runtime \in Runtimes \cup {None} /\ requests'[x] = requests[x]
    BY <1>0, <1>r, <1>t DEF TypeOK, Request
  <2>2. CASE requests[x].runtime = p BY <1>0, <1>2, <1>5, <2>1, <2>2 DEF RequestOK
  <2>3. CASE requests[x].runtime # p BY <1>5, <2>1, <2>3 DEF RequestOK
  <2>4. QED BY <2>2, <2>3
<1>8. ASSUME NEW x \in Runtimes PROVE RuntimeOK(x)'
  <2>1. CASE x = p BY <1>1, <1>2, <1>5, <2>1, NoneIsNone DEF RuntimeOK
  <2>2. CASE x # p BY <1>5, <1>p, <2>2 DEF RuntimeOK
  <2>3. QED BY <2>1, <2>2
<1>9. ListsOK'
  <2>1. \A x \in Sessions : active'[x] # None => runtimes'[active'[x]].phase = "up"
    BY <1>0, <1>1, <1>2, <1>4, <1>5, <1>l, <1>t DEF ListsOK, TypeOK
  <2>2. \A x \in Sessions : opening'[x] # None => opening'[x] = opening[x] /\ opening[x] # p
    BY <1>1, <1>4, <1>l, <1>t DEF ListsOK, TypeOK
  <2>3. QED BY <2>1, <2>2, <1>5, <1>l, <1>t DEF ListsOK, TypeOK
<1>10. FailedAreUnlisted'
  BY <1>0, <1>1, <1>2, <1>4, <1>5, <1>f, <1>t DEF FailedAreUnlisted, TypeOK
<1>11. QED BY <1>6, <1>7, <1>8, <1>9, <1>10 DEF RuntimesInv

LEMMA StartFailsKeeps ==
  ASSUME RuntimesInv, NEW p \in Runtimes, StartFails(p)
  PROVE  RuntimesInv'
<1>t. TypeOK BY DEF RuntimesInv
<1>r. \A x \in Requests : RequestOK(x) BY DEF RuntimesInv
<1>p. \A x \in Runtimes : RuntimeOK(x) BY DEF RuntimesInv
<1>1. UNCHANGED <<requests, active, opening, stored, installed, disposed>> BY DEF StartFails
<1>2. runtimes[p].phase = "starting" /\ runtimes' = [runtimes EXCEPT ![p].phase = "failing", ![p].closing = "ended"]
  BY DEF StartFails, Alive
<1>3. TypeOK'
  <2>1. runtimes[p] \in Runtime BY <1>t DEF TypeOK
  <2>2. runtimes' \in [Runtimes -> Runtime] BY <1>2, <1>t, <2>1 DEF TypeOK, Runtime
  <2>3. QED BY <1>1, <1>t, <2>2 DEF TypeOK
<1>4. /\ \A y \in Runtimes \ {p} : runtimes'[y] = runtimes[y]
      /\ runtimes'[p].process = runtimes[p].process /\ runtimes'[p].failed = runtimes[p].failed
      /\ runtimes'[p].session = runtimes[p].session /\ runtimes'[p].serves = runtimes[p].serves
      /\ runtimes'[p].knows = runtimes[p].knows /\ runtimes'[p].told = runtimes[p].told
      /\ runtimes'[p].new = runtimes[p].new /\ runtimes'[p].phase = "failing"
      /\ runtimes'[p].closing = "ended"
  BY <1>2, <1>t DEF TypeOK, Runtime
<1>5. \A y \in Runtimes : RuntimeOK(y)'
  <2>1. RuntimeOK(p)' BY <1>2, <1>4, <1>p DEF RuntimeOK
  <2>2. QED BY <1>4, <1>p, <2>1 DEF RuntimeOK
<1>6. QED BY <1>1, <1>2, <1>3, <1>4, <1>5, RuntimesStay

LEMMA RunEndsKeeps ==
  ASSUME RuntimesInv, NEW p \in Runtimes, RunEnds(p)
  PROVE  RuntimesInv'
<1>t. TypeOK BY DEF RuntimesInv
<1>r. \A x \in Requests : RequestOK(x) BY DEF RuntimesInv
<1>p. \A x \in Runtimes : RuntimeOK(x) BY DEF RuntimesInv
<1>1. /\ runtimes[p].phase = "up" /\ runtimes' = [runtimes EXCEPT ![p].knows = runtimes[p].serves]
      /\ UNCHANGED <<requests, active, opening, stored, installed, disposed>>
  BY DEF RunEnds
<1>2. /\ runtimes' \in [Runtimes -> Runtime]
      /\ \A y \in Runtimes :
           /\ RuntimeOK(y)'
           /\ runtimes'[y].phase = runtimes[y].phase /\ runtimes'[y].failed = runtimes[y].failed
           /\ runtimes'[y].told = runtimes[y].told /\ runtimes'[y].process = runtimes[y].process
           /\ runtimes'[y].closing = runtimes[y].closing /\ runtimes'[y].new = runtimes[y].new
           /\ runtimes'[y].session = runtimes[y].session
  BY <1>1, RuntimeLearns
<1>3. TypeOK' BY <1>1, <1>2, <1>t DEF TypeOK
<1>4. QED BY <1>1, <1>2, <1>3, RuntimesStay

LEMMA BreaksKeeps ==
  ASSUME RuntimesInv, NEW p \in Runtimes, Breaks(p)
  PROVE  RuntimesInv'
<1>t. TypeOK BY DEF RuntimesInv
<1>r. \A x \in Requests : RequestOK(x) BY DEF RuntimesInv
<1>p. \A x \in Runtimes : RuntimeOK(x) BY DEF RuntimesInv
<1>l. ListsOK BY DEF RuntimesInv
<1>f. FailedAreUnlisted BY DEF RuntimesInv
<1> DEFINE it == IF runtimes[p].phase = "up" THEN [runtimes[p] EXCEPT !.failed = TRUE]
                 ELSE [runtimes[p] EXCEPT !.failed = TRUE, !.phase = "failing", !.closing = "ended"]
<1>0. /\ runtimes[p] \in Runtime /\ RuntimeOK(p) /\ p # None
      /\ runtimes[p].phase \in {"starting", "up"} /\ runtimes[p].process = "alive" /\ ~runtimes[p].failed
      /\ UNCHANGED <<opening, stored, installed, disposed>>
      /\ requests' = Rejected(p)
  BY <1>t, <1>p, NoneIsNone DEF TypeOK, Breaks, Alive
<1>1. runtimes' = [runtimes EXCEPT ![p] = it] BY <1>t DEF TypeOK, Breaks
<1>2. /\ it \in Runtime /\ it.failed /\ it.process = "alive" /\ it.session = runtimes[p].session
      /\ it.new = runtimes[p].new /\ it.serves = runtimes[p].serves
      /\ it.knows = runtimes[p].knows /\ it.told = runtimes[p].told
      /\ IF runtimes[p].phase = "up" THEN it.phase = "up" /\ it.closing = runtimes[p].closing
                                     ELSE it.phase = "failing"
  BY <1>0 DEF Runtime
<1> HIDE DEF it
<1>3. runtimes'[p] = it /\ \A y \in Runtimes \ {p} : runtimes'[y] = runtimes[y] BY <1>1, <1>t DEF TypeOK
<1>4. \A x \in Requests :
        \/ /\ requests'[x] = Ended(requests[x]) /\ requests[x].at = "command"
        \/ /\ requests'[x] = requests[x]
           /\ ~(requests[x].at = "command" /\ requests[x].runtime = p)
  BY <1>0, <1>t DEF TypeOK, Rejected, At
<1>5. \A x \in Requests : /\ Ended(requests[x]) \in Request
                          /\ Ended(requests[x]).at = "done" /\ Ended(requests[x]).runtime = None
  BY DEF Ended, Request, Ops
<1>6. requests' \in [Requests -> Request]
  <2>1. \A x \in Requests : (IF At(x, "command") /\ requests[x].runtime = p
                                   THEN Ended(requests[x]) ELSE requests[x]) \in Request
    BY <1>5, <1>t DEF TypeOK
  <2>2. QED BY <1>0, <2>1 DEF Rejected
<1>7. /\ active' \in [Sessions -> Runtimes \cup {None}]
      /\ \A s \in Sessions : active'[s] = active[s] \/ active'[s] = None
      /\ (runtimes[p].closing = "no" => \A s \in Sessions : active'[s] = p => runtimes[p].told # s)
  <2>1. active' = IF Listening(p) THEN Unlisted(p) ELSE active BY DEF Breaks, ListedAfterFailure
  <2>2. Unlisted(p) \in [Sessions -> Runtimes \cup {None}]
        /\ \A s \in Sessions : \/ Unlisted(p)[s] = None
                               \/ Unlisted(p)[s] = active[s] /\ (active[s] = p => runtimes[p].told # s)
    BY <1>t DEF TypeOK, Unlisted
  <2>3. Listening(p) <=> runtimes[p].phase = "up" /\ runtimes[p].closing = "no" BY <1>0 DEF Listening, Usable
  <2>4. active \in [Sessions -> Runtimes \cup {None}] BY <1>t DEF TypeOK
  <2>5. runtimes[p].phase # "up" => \A s \in Sessions : active[s] # p BY <1>0, <1>l DEF ListsOK
  <2>6. CASE Listening(p)
    <3>1. active' = Unlisted(p) BY <2>1, <2>6
    <3>2. QED BY <2>2, <2>4, <3>1, <1>0
  <2>7. CASE ~Listening(p) BY <2>1, <2>3, <2>4, <2>5, <2>7
  <2>8. QED BY <2>6, <2>7
<1>8. TypeOK' BY <1>0, <1>1, <1>2, <1>6, <1>7, <1>t DEF TypeOK
<1>9. ASSUME NEW x \in Requests PROVE RequestOK(x)'
  <2>1. RequestOK(x) /\ requests[x].runtime \in Runtimes \cup {None} BY <1>r, <1>t DEF TypeOK, Request
  <2>2. CASE requests'[x] = Ended(requests[x]) BY <2>2, <1>5 DEF RequestOK
  <2>3. CASE requests'[x] = requests[x] /\ ~(requests[x].at = "command" /\ requests[x].runtime = p)
    <3>1. CASE requests[x].runtime = p BY <1>0, <1>2, <1>3, <2>1, <2>3, <3>1 DEF RequestOK
    <3>2. CASE requests[x].runtime # p BY <1>3, <2>1, <2>3, <3>2 DEF RequestOK
    <3>3. QED BY <3>1, <3>2
  <2>4. QED BY <1>4, <2>2, <2>3
<1>10. ASSUME NEW x \in Runtimes PROVE RuntimeOK(x)'
  <2>1. CASE x = p BY <1>0, <1>2, <1>3, <2>1 DEF RuntimeOK
  <2>2. CASE x # p BY <1>3, <1>p, <2>2 DEF RuntimeOK
  <2>3. QED BY <2>1, <2>2
<1>11. ListsOK'
  <2>1. \A x \in Sessions : active'[x] # None => runtimes'[active'[x]].phase = "up"
    BY <1>0, <1>2, <1>3, <1>7, <1>l, <1>t DEF ListsOK, TypeOK
  <2>2. QED BY <2>1, <1>0, <1>2, <1>3, <1>l, <1>t DEF ListsOK, TypeOK, Opening
<1>12. FailedAreUnlisted'
  <2> SUFFICES ASSUME NEW s \in Sessions, active'[s] # None, runtimes'[active'[s]].failed
               PROVE  runtimes'[active'[s]].told # s \/ runtimes'[active'[s]].closing # "no"
    BY DEF FailedAreUnlisted
  <2>1. active'[s] = active[s] /\ active[s] \in Runtimes /\ runtimes[active[s]].phase = "up"
    BY <1>7, <1>l, <1>t DEF TypeOK, ListsOK
  <2>2. CASE active[s] = p BY <1>2, <1>3, <1>7, <2>1, <2>2
  <2>3. CASE active[s] # p BY <1>f, <1>3, <2>1, <2>3 DEF FailedAreUnlisted
  <2>4. QED BY <2>2, <2>3
<1>13. QED BY <1>8, <1>9, <1>10, <1>11, <1>12 DEF RuntimesInv

LEMMA HangsKeeps ==
  ASSUME RuntimesInv, NEW p \in Runtimes, Hangs(p)
  PROVE  RuntimesInv'
<1>t. TypeOK BY DEF RuntimesInv
<1>r. \A x \in Requests : RequestOK(x) BY DEF RuntimesInv
<1>p. \A x \in Runtimes : RuntimeOK(x) BY DEF RuntimesInv
<1>1. UNCHANGED <<requests, active, opening, stored, installed, disposed>> BY DEF Hangs
<1>2. runtimes[p].process = "alive" /\ runtimes' = [runtimes EXCEPT ![p].process = "hung"]
  BY DEF Hangs, Alive
<1>3. TypeOK'
  <2>1. runtimes[p] \in Runtime BY <1>t DEF TypeOK
  <2>2. runtimes' \in [Runtimes -> Runtime] BY <1>2, <1>t, <2>1 DEF TypeOK, Runtime
  <2>3. QED BY <1>1, <1>t, <2>2 DEF TypeOK
<1>4. /\ \A y \in Runtimes \ {p} : runtimes'[y] = runtimes[y]
      /\ runtimes'[p].phase = runtimes[p].phase /\ runtimes'[p].failed = runtimes[p].failed
      /\ runtimes'[p].closing = runtimes[p].closing /\ runtimes'[p].session = runtimes[p].session
      /\ runtimes'[p].serves = runtimes[p].serves /\ runtimes'[p].knows = runtimes[p].knows
      /\ runtimes'[p].told = runtimes[p].told /\ runtimes'[p].new = runtimes[p].new
      /\ runtimes'[p].process = "hung"
  BY <1>2, <1>t DEF TypeOK, Runtime
<1>a. runtimes[p].phase \notin {"none", "looking"} BY <1>2, <1>p DEF RuntimeOK, Unused
<1>5. \A y \in Runtimes : RuntimeOK(y)'
  <2>1. RuntimeOK(p)' BY <1>2, <1>4, <1>p, <1>a DEF RuntimeOK
  <2>2. QED BY <1>4, <1>p, <2>1 DEF RuntimeOK
<1>6. QED BY <1>1, <1>2, <1>3, <1>4, <1>5, RuntimesStay

LEMMA ExitsKeeps ==
  ASSUME RuntimesInv, NEW p \in Runtimes, Exits(p)
  PROVE  RuntimesInv'
<1>t. TypeOK BY DEF RuntimesInv
<1>r. \A x \in Requests : RequestOK(x) BY DEF RuntimesInv
<1>p. \A x \in Runtimes : RuntimeOK(x) BY DEF RuntimesInv
<1>l. ListsOK BY DEF RuntimesInv
<1>f. FailedAreUnlisted BY DEF RuntimesInv
<1>0. /\ runtimes[p] \in Runtime /\ RuntimeOK(p) /\ p # None /\ runtimes[p].process \in {"alive", "hung"}
      /\ UNCHANGED <<stored, installed, disposed>>
  BY <1>t, <1>p, NoneIsNone DEF TypeOK, Exits
<1>1. CASE runtimes[p].phase # "up" /\ OpeningFails(p) /\ UNCHANGED active
  <2>1. runtimes[p].phase \in Opening
    BY <1>0, <1>1 DEF RuntimeOK, Opening, Runtime, Unused
  <2>2. QED BY <1>0, <1>1, <2>1, OpeningFailsKeeps
<1>2. ASSUME runtimes[p].phase = "up", NEW code \in {0, 1},
             active' = IF Listening(p) THEN Unlisted(p) ELSE active, UNCHANGED opening,
             LET clean == code = 0 /\ runtimes[p].closing # "no" /\ ~runtimes[p].failed
             IN /\ requests' = RejectedAtExit(p, clean)
                /\ runtimes' = Swept([runtimes EXCEPT ![p].process = "exited", ![p].failed = ~clean],
                                     requests', active')
      PROVE RuntimesInv'
  <2>u. runtimes[p].phase = "up" BY <1>2
  <2> DEFINE clean == code = 0 /\ runtimes[p].closing # "no" /\ ~runtimes[p].failed
             it == [runtimes[p] EXCEPT !.process = "exited", !.failed = ~clean]
             rts == [runtimes EXCEPT ![p] = it]
  <2>1. requests' = Rejected(p) /\ runtimes' = Swept(rts, requests', active')
    <3>1. [runtimes EXCEPT ![p].process = "exited", ![p].failed = ~clean] = rts
      BY <1>t DEF TypeOK
    <3>2. QED BY <1>2, <3>1 DEF RejectedAtExit
  <2>2. /\ it \in Runtime /\ it.phase = "up" /\ it.process = "exited"
        /\ it.failed \/ it.closing # "no"
        /\ it.closing = runtimes[p].closing /\ it.session = runtimes[p].session
        /\ it.knows = runtimes[p].knows /\ it.told = runtimes[p].told /\ it.serves = runtimes[p].serves
        /\ (runtimes[p].failed => it.failed)
    BY <1>0, <1>2 DEF Runtime
  <2> HIDE DEF clean, it
  <2>3. rts \in [Runtimes -> Runtime] /\ rts[p] = it /\ \A y \in Runtimes \ {p} : rts[y] = runtimes[y]
    BY <2>2, <1>t DEF TypeOK
  <2> HIDE DEF rts
  <2>4. /\ runtimes' \in [Runtimes -> Runtime]
        /\ \A q \in Runtimes :
              \/ runtimes'[q] = rts[q]
              \/ /\ runtimes'[q] = Unused
                 /\ \A s \in Sessions : active'[s] # q
                 /\ \A r \in Requests : requests'[r].runtime # q
                 /\ rts[q].process = "exited"
    <3> HIDE <1>2
    <3>1. QED BY <2>1, <2>3, SweptIsGone
  <2>5. /\ active' \in [Sessions -> Runtimes \cup {None}]
        /\ \A s \in Sessions : active'[s] = active[s] \/ active'[s] = None
        /\ (runtimes[p].closing = "no" => \A s \in Sessions : active'[s] = p => runtimes[p].told # s \/ runtimes[p].failed)
    <3>1. active' = IF Listening(p) THEN Unlisted(p) ELSE active BY <1>2
    <3>2. Unlisted(p) \in [Sessions -> Runtimes \cup {None}]
          /\ \A s \in Sessions : \/ Unlisted(p)[s] = None
                                 \/ Unlisted(p)[s] = active[s] /\ (active[s] = p => runtimes[p].told # s)
      BY <1>t DEF TypeOK, Unlisted
    <3>3. Listening(p) <=> ~runtimes[p].failed /\ runtimes[p].closing = "no" BY <1>2 DEF Listening, Usable
    <3>4. active \in [Sessions -> Runtimes \cup {None}] BY <1>t DEF TypeOK
    <3>5. CASE Listening(p)
      <4>1. active' = Unlisted(p) BY <3>1, <3>5
      <4>2. QED BY <3>2, <3>4, <4>1, <1>0
    <3>6. CASE ~Listening(p) BY <3>1, <3>3, <3>4, <3>6
    <3>7. QED BY <3>5, <3>6
  <2>6. \A x \in Requests :
          \/ /\ requests'[x] = Ended(requests[x]) /\ requests[x].at = "command"
          \/ /\ requests'[x] = requests[x]
             /\ ~(requests[x].at = "command" /\ requests[x].runtime = p)
    BY <2>1, <1>t DEF TypeOK, Rejected, At
  <2>7. \A x \in Requests : /\ Ended(requests[x]) \in Request
                            /\ Ended(requests[x]).at = "done" /\ Ended(requests[x]).runtime = None
    BY DEF Ended, Request, Ops
  <2>8. requests' \in [Requests -> Request]
    <3>1. \A x \in Requests : (IF At(x, "command") /\ requests[x].runtime = p
                                     THEN Ended(requests[x]) ELSE requests[x]) \in Request
      BY <2>7, <1>t DEF TypeOK
    <3>2. QED BY <3>1, <2>1 DEF Rejected
  <2>9. TypeOK' BY <1>0, <1>2, <1>t, <2>4, <2>5, <2>8 DEF TypeOK
  <2>10. ASSUME NEW x \in Requests PROVE RequestOK(x)'
    <3>1. RequestOK(x) /\ requests[x].runtime \in Runtimes \cup {None} BY <1>r, <1>t DEF TypeOK, Request
    <3>2. CASE requests'[x] = Ended(requests[x]) BY <3>2, <2>7 DEF RequestOK
    <3>3. CASE requests'[x] = requests[x] /\ ~(requests[x].at = "command" /\ requests[x].runtime = p)
      <4>1. requests[x].runtime # None =>
              /\ runtimes'[requests[x].runtime] = rts[requests[x].runtime]
        BY <2>4, <3>1, <3>3
      <4>2. CASE requests[x].runtime = p 
        <5>1. runtimes'[p] = it BY <2>3, <4>1, <4>2, <1>0
        <5>2. it.phase = "up" /\ (runtimes[p].closing # "no" => it.closing # "no") BY <2>2
        <5>3. QED BY <2>u, <3>1, <3>3, <4>2, <5>1, <5>2, <1>0 DEF RequestOK
      <4>3. CASE requests[x].runtime # p BY <2>3, <3>1, <3>3, <4>1, <4>3 DEF RequestOK
      <4>4. QED BY <4>2, <4>3
    <3>4. QED BY <2>6, <3>2, <3>3
  <2>11. ASSUME NEW x \in Runtimes PROVE RuntimeOK(x)'
    <3>1. CASE runtimes'[x] = Unused
      <4>1. Unused.phase = "none" BY DEF Unused
      <4>2. QED BY <3>1, <4>1 DEF RuntimeOK
    <3>2. CASE runtimes'[x] = rts[x] /\ x = p
      <4>1. RuntimeOK(p) /\ runtimes'[x] = it BY <1>0, <2>3, <3>2
      <4>2. runtimes[p].knows # None /\ runtimes[p].told # None /\ runtimes[p].session # None /\ runtimes[p].serves # None
        BY <2>u, <4>1 DEF RuntimeOK
      <4>3. QED BY <2>2, <4>1, <4>2 DEF RuntimeOK
    <3>3. CASE runtimes'[x] = rts[x] /\ x # p BY <2>3, <3>3, <1>p DEF RuntimeOK
    <3>4. QED BY <2>4, <3>1, <3>2, <3>3
  <2>12. ListsOK'
    <3>1. ASSUME NEW s \in Sessions, active'[s] # None PROVE runtimes'[active'[s]].phase = "up"
      <4>1. active'[s] = active[s] /\ active[s] \in Runtimes /\ runtimes[active[s]].phase = "up"
        BY <2>5, <3>1, <1>l, <1>t DEF ListsOK, TypeOK
      <4>2. runtimes'[active[s]] = rts[active[s]] BY <2>4, <4>1
      <4>3. QED BY <4>1, <4>2, <2>2, <2>3
    <3>2. ASSUME NEW s \in Sessions, opening[s] # None PROVE runtimes'[opening[s]] = runtimes[opening[s]]
      <4>1. opening[s] \in Runtimes /\ runtimes[opening[s]].phase \in Opening
        BY <3>2, <1>l, <1>t DEF ListsOK, TypeOK
      <4>2. opening[s] # p BY <4>1, <1>2 DEF Opening
      <4>3. runtimes[opening[s]].process # "exited" BY <4>1, <1>p DEF RuntimeOK, Opening
      <4>4. QED BY <4>1, <4>2, <4>3, <2>3, <2>4
    <3>3. QED BY <3>1, <3>2, <1>l, <1>2 DEF ListsOK
  <2>13. FailedAreUnlisted'
    <3> SUFFICES ASSUME NEW s \in Sessions, active'[s] # None, runtimes'[active'[s]].failed
                 PROVE  runtimes'[active'[s]].told # s \/ runtimes'[active'[s]].closing # "no"
      BY DEF FailedAreUnlisted
    <3>1. active'[s] = active[s] /\ active[s] \in Runtimes BY <2>5, <1>t DEF TypeOK
    <3>2. runtimes'[active[s]] = rts[active[s]] BY <2>4, <3>1
    <3>3. CASE active[s] = p
      BY <1>f, <2>2, <2>3, <2>5, <3>1, <3>2, <3>3, <1>0 DEF FailedAreUnlisted
    <3>4. CASE active[s] # p BY <1>f, <2>3, <3>1, <3>2, <3>4 DEF FailedAreUnlisted
    <3>5. QED BY <3>3, <3>4
  <2>14. QED BY <2>9, <2>10, <2>11, <2>12, <2>13 DEF RuntimesInv
<1>3. QED BY <1>1, <1>2 DEF Exits

LEMMA CloseTimesOutKeeps ==
  ASSUME RuntimesInv, NEW p \in Runtimes, CloseTimesOut(p)
  PROVE  RuntimesInv'
<1>t. TypeOK BY DEF RuntimesInv
<1>r. \A x \in Requests : RequestOK(x) BY DEF RuntimesInv
<1>p. \A x \in Runtimes : RuntimeOK(x) BY DEF RuntimesInv
<1>1. UNCHANGED <<requests, active, opening, stored, installed, disposed>> BY DEF CloseTimesOut
<1>2. /\ runtimes[p].closing \in {"ended", "termed"} /\ runtimes[p].process # "exited"
      /\ runtimes' = [runtimes EXCEPT ![p].closing = Escalated(runtimes[p].closing)]
  BY DEF CloseTimesOut, Alive
<1>3. TypeOK'
  <2>1. runtimes[p] \in Runtime BY <1>t DEF TypeOK
  <2>2. runtimes' \in [Runtimes -> Runtime] BY <1>2, <1>t, <2>1 DEF TypeOK, Runtime, Escalated
  <2>3. QED BY <1>1, <1>t, <2>2 DEF TypeOK
<1>4. /\ \A y \in Runtimes \ {p} : runtimes'[y] = runtimes[y]
      /\ runtimes'[p].phase = runtimes[p].phase /\ runtimes'[p].process = runtimes[p].process
      /\ runtimes'[p].failed = runtimes[p].failed /\ runtimes'[p].session = runtimes[p].session
      /\ runtimes'[p].serves = runtimes[p].serves /\ runtimes'[p].knows = runtimes[p].knows
      /\ runtimes'[p].told = runtimes[p].told /\ runtimes'[p].new = runtimes[p].new
      /\ runtimes'[p].closing \in {"termed", "killed"}
  BY <1>2, <1>t DEF TypeOK, Runtime, Escalated
<1>a. runtimes[p].phase \notin {"none", "looking", "starting"} BY <1>2, <1>p DEF RuntimeOK, Unused
<1>5. \A y \in Runtimes : RuntimeOK(y)'
  <2>1. RuntimeOK(p)' BY <1>2, <1>4, <1>p, <1>a DEF RuntimeOK
  <2>2. QED BY <1>4, <1>p, <2>1 DEF RuntimeOK
<1>6. QED BY <1>1, <1>2, <1>3, <1>4, <1>5, RuntimesStay

LEMMA DisposeKeeps ==
  ASSUME RuntimesInv, Dispose
  PROVE  RuntimesInv'
<1>t. TypeOK BY DEF RuntimesInv
<1>r. \A x \in Requests : RequestOK(x) BY DEF RuntimesInv
<1>p. \A x \in Runtimes : RuntimeOK(x) BY DEF RuntimesInv
<1>l. ListsOK BY DEF RuntimesInv
<1>f. FailedAreUnlisted BY DEF RuntimesInv
<1>0. /\ active' = [s \in Sessions |-> None] /\ opening' = [s \in Sessions |-> None]
      /\ runtimes' = [p \in Runtimes |-> IF \E s \in Sessions : active[s] = p THEN CloseBegins(p) ELSE runtimes[p]]
      /\ UNCHANGED <<requests, stored, installed>> /\ disposed' = TRUE
  BY DEF Dispose
<1>1. \A p \in Runtimes :
        /\ CloseBegins(p) \in Runtime
        /\ CloseBegins(p).phase = runtimes[p].phase /\ CloseBegins(p).process = runtimes[p].process
        /\ CloseBegins(p).failed = runtimes[p].failed /\ CloseBegins(p).closing # "no"
        /\ CloseBegins(p).session = runtimes[p].session /\ CloseBegins(p).serves = runtimes[p].serves
        /\ CloseBegins(p).knows = runtimes[p].knows /\ CloseBegins(p).told = runtimes[p].told
  BY <1>t DEF TypeOK, CloseBegins, Runtime
<1>2. \A p \in Runtimes : \/ runtimes'[p] = runtimes[p]
                          \/ runtimes'[p] = CloseBegins(p) /\ runtimes[p].phase = "up"
  BY <1>0, <1>l, <1>t, NoneIsNone DEF ListsOK, TypeOK
<1>3. runtimes' \in [Runtimes -> Runtime] BY <1>0, <1>1, <1>t DEF TypeOK
<1>4. TypeOK' BY <1>0, <1>3, <1>t DEF TypeOK
<1>5. ASSUME NEW x \in Requests PROVE RequestOK(x)'
  <2>1. RequestOK(x) /\ requests[x].runtime \in Runtimes \cup {None} BY <1>r, <1>t DEF TypeOK, Request
  <2>2. \A p \in Runtimes : /\ runtimes'[p].phase = runtimes[p].phase
                            /\ runtimes'[p].failed = runtimes[p].failed
                            /\ runtimes'[p].process = runtimes[p].process
                            /\ runtimes[p].closing # "no" => runtimes'[p].closing # "no"
    BY <1>1, <1>2
  <2>3. requests'[x] = requests[x] BY <1>0
  <2>4. QED BY <2>1, <2>2, <2>3 DEF RequestOK
<1>6. ASSUME NEW x \in Runtimes PROVE RuntimeOK(x)'
  <2>1. CASE runtimes'[x] = runtimes[x] BY <1>p, <2>1 DEF RuntimeOK
  <2>2. CASE runtimes'[x] = CloseBegins(x) /\ runtimes[x].phase = "up"
    <3>1. RuntimeOK(x) BY <1>p
    <3>2. QED BY <1>1, <2>2, <3>1 DEF RuntimeOK
  <2>3. QED BY <1>2, <2>1, <2>2
<1>7. ListsOK' BY <1>0 DEF ListsOK
<1>8. FailedAreUnlisted' BY <1>0 DEF FailedAreUnlisted
<1>9. QED BY <1>4, <1>5, <1>6, <1>7, <1>8 DEF RuntimesInv

LEMMA InstallKeeps ==
  ASSUME RuntimesInv, Install
  PROVE  RuntimesInv'
<1>t. TypeOK BY DEF RuntimesInv
<1>r. \A x \in Requests : RequestOK(x) BY DEF RuntimesInv
<1>p. \A x \in Runtimes : RuntimeOK(x) BY DEF RuntimesInv
<1>1. UNCHANGED <<requests, runtimes, active, opening, stored, disposed>> /\ installed' = TRUE BY DEF Install
<1>2. TypeOK' BY <1>1, <1>t DEF TypeOK
<1>3. \A y \in Runtimes : RuntimeOK(y)' BY <1>1, <1>p DEF RuntimeOK
<1>4. QED BY <1>1, <1>2, <1>3, RuntimesStay

LEMMA RuntimesBegin == Init => RuntimesInv
<1> SUFFICES ASSUME Init PROVE RuntimesInv OBVIOUS
<1>1. \A r \in Requests : requests[r] = [op |-> "read", at |-> "new", runtime |-> None, left |-> 0, late |-> FALSE]
  BY DEF Init
<1>2. /\ runtimes = [p \in Runtimes |-> Unused] /\ active = [s \in Sessions |-> None]
      /\ opening = [s \in Sessions |-> None] /\ stored = {1} /\ disposed = FALSE /\ installed \in BOOLEAN
  BY DEF Init
<1>3. TypeOK
  <2>1. requests \in [Requests -> Request] BY DEF Init, Request, Ops
  <2>2. stored \subseteq Sessions BY <1>2, OmpBounds DEF Sessions
  <2>3. QED BY <1>2, <2>1, <2>2, UnusedIsTyped DEF TypeOK
<1>4. \A r \in Requests : RequestOK(r) BY <1>1 DEF RequestOK
<1>5. \A p \in Runtimes : RuntimeOK(p) BY <1>2 DEF RuntimeOK, Unused
<1>6. ListsOK /\ FailedAreUnlisted BY <1>2 DEF ListsOK, FailedAreUnlisted
<1>7. QED BY <1>3, <1>4, <1>5, <1>6 DEF RuntimesInv

LEMMA RuntimesStep == RuntimesInv /\ [Next]_vars => RuntimesInv'
<1> SUFFICES ASSUME RuntimesInv, [Next]_vars PROVE RuntimesInv' OBVIOUS
<1>1. ASSUME NEW r \in Requests, Proceed(r) \/ CloseReturns(r) PROVE RuntimesInv'
  BY <1>1, ProceedKeeps, CloseReturnsKeeps
<1>2. ASSUME NEW r \in Requests, Event(r) PROVE RuntimesInv'
  BY <1>2, ArriveKeeps, AnswersKeeps, BranchesLateKeeps, BranchCancelledKeeps, AnswersLastKeeps, RefusesKeeps,
     TimesOutKeeps DEF Event
<1>3. ASSUME NEW p \in Runtimes, Happens(p) PROVE RuntimesInv'
  BY <1>3, SpawnKeeps, ComesUpKeeps, StartFailsKeeps, RunEndsKeeps, BreaksKeeps, HangsKeeps, ExitsKeeps,
     CloseTimesOutKeeps DEF Happens
<1>4. CASE Dispose \/ Install BY <1>4, DisposeKeeps, InstallKeeps
<1>5. CASE UNCHANGED vars
  BY <1>5 DEF vars, RuntimesInv, TypeOK, RequestOK, RuntimeOK, ListsOK, FailedAreUnlisted
<1>6. QED BY <1>1, <1>2, <1>3, <1>4, <1>5 DEF Next

----------------------------------------------------------------------------
(* One healthy runtime *)

Quiet == \A r \in Requests : requests[r].op \notin {"reload", "navigate"}

\* A runtime that has a session, is to have it, or is on its way out of it.
Claims(p) == \/ runtimes[p].phase \in Opening
             \/ Healthy(p)
             \/ \E r \in Requests : At(r, "closing") /\ requests[r].runtime = p
\* Each session has one claimant.
Distinct == \A p, q \in Runtimes :
  Claims(p) /\ Claims(q) /\ runtimes[p].session = runtimes[q].session => p = q
\* A process serves the session it was opened for.
Settled == \A p \in Runtimes :
  /\ runtimes[p].phase \in {"starting", "up"} => runtimes[p].serves = runtimes[p].session
  /\ runtimes[p].phase = "up" => runtimes[p].knows = runtimes[p].session /\ runtimes[p].told = runtimes[p].session
\* What is listed claims the session it is listed under.
ListedClaims == \A s \in Sessions : active[s] # None => runtimes[active[s]].session = s /\ Claims(active[s])
\* What is healthy is listed; what is being closed is, until its process is gone or all are forgotten.
Listed(p) == active[runtimes[p].session] = p
HealthyAreListed == \A p \in Runtimes : Healthy(p) => Listed(p)
ClosingAreListed == \A r \in Requests : At(r, "closing") =>
  disposed \/ Listed(requests[r].runtime) \/ runtimes[requests[r].runtime].process = "exited"
WaitedAreListed == \A r \in Requests : Waits(r) =>
  /\ Listed(requests[r].runtime) /\ runtimes[requests[r].runtime].process # "exited"
  /\ \A q \in Requests : ~ClosingIsOver(q)
\* getOrOpen() finds what it opened, and what start() opened has no file yet.
OpeningsAreKnown == \A p \in Runtimes : runtimes[p].phase \in Opening =>
  IF runtimes[p].new THEN runtimes[p].session \notin stored
                     ELSE disposed \/ opening[runtimes[p].session] = p

QuietParts == /\ Distinct /\ Settled /\ ListedClaims /\ HealthyAreListed /\ ClosingAreListed
              /\ WaitedAreListed /\ OpeningsAreKnown
QuietInv == Quiet => QuietParts

LEMMA ClaimsStay ==
  ASSUME RuntimesInv, TypeOK', QuietParts, Settled', UNCHANGED <<active, opening, stored, disposed>>,
         \A y \in Runtimes :
            /\ runtimes'[y].phase = runtimes[y].phase \/ {runtimes'[y].phase, runtimes[y].phase} \subseteq Opening
            /\ runtimes'[y].session = runtimes[y].session /\ runtimes'[y].new = runtimes[y].new
            /\ runtimes'[y].process = "exited" <=> runtimes[y].process = "exited"
            /\ Healthy(y)' <=> Healthy(y),
         \A x \in Requests :
            /\ requests'[x].at = "closing" <=> requests[x].at = "closing"
            /\ requests'[x].at = "closing" => requests'[x].runtime = requests[x].runtime
            /\ requests'[x].at = "waiting" =>
                 \/ requests[x].at = "waiting" /\ requests'[x].runtime = requests[x].runtime
                 \/ requests'[x].runtime \in Runtimes /\ runtimes[requests'[x].runtime].phase # "up"
  PROVE  QuietParts'
<1>t. TypeOK BY DEF RuntimesInv
<1>0. \A x \in Requests : requests[x].at \in {"closing", "waiting"} => requests[x].runtime \in Runtimes
  <2> SUFFICES ASSUME NEW x \in Requests, requests[x].at \in {"closing", "waiting"}
               PROVE  requests[x].runtime \in Runtimes
    OBVIOUS
  <2>1. RequestOK(x) /\ requests[x] \in Request BY <1>t DEF RuntimesInv, TypeOK
  <2>2. QED BY <2>1 DEF RequestOK, Request
<1>1. \A y \in Runtimes : /\ runtimes'[y].phase \in Opening <=> runtimes[y].phase \in Opening
                          /\ runtimes'[y].phase = "up" <=> runtimes[y].phase = "up"
  BY DEF Opening
<1>2. \A y \in Runtimes : Claims(y)' <=> Claims(y) BY <1>1 DEF Claims, At
<1>3. \A x \in Requests : (Waits(x)' => Waits(x) /\ requests'[x].runtime = requests[x].runtime)
                          /\ (ClosingIsOver(x)' <=> ClosingIsOver(x))
  BY <1>0, <1>1 DEF Waits, ClosingIsOver, At
<1>4. Distinct' BY <1>2 DEF QuietParts, Distinct
<1>5. ListedClaims' BY <1>2, <1>t, NoneIsNone DEF QuietParts, ListedClaims, TypeOK
<1>6. HealthyAreListed' BY DEF QuietParts, HealthyAreListed, Listed
<1>7. ClosingAreListed' BY <1>0 DEF QuietParts, ClosingAreListed, Listed, At
<1>8. WaitedAreListed'
  <2> SUFFICES ASSUME NEW x \in Requests, Waits(x)'
               PROVE  /\ Listed(requests[x].runtime)' /\ runtimes'[requests'[x].runtime].process # "exited"
                      /\ \A q \in Requests : ~ClosingIsOver(q)'
    BY DEF WaitedAreListed
  <2>1. /\ Waits(x) /\ requests'[x].runtime = requests[x].runtime /\ requests[x].runtime \in Runtimes
    BY <1>0, <1>3 DEF Waits, At
  <2>2. /\ Listed(requests[x].runtime) /\ runtimes[requests[x].runtime].process # "exited"
        /\ \A q \in Requests : ~ClosingIsOver(q)
    BY <2>1 DEF QuietParts, WaitedAreListed
  <2>3. QED BY <1>3, <2>1, <2>2 DEF Listed
<1>9. OpeningsAreKnown' BY <1>1 DEF QuietParts, OpeningsAreKnown
<1>10. QED BY <1>4, <1>5, <1>6, <1>7, <1>8, <1>9 DEF QuietParts

LEMMA RequestEnds ==
  ASSUME RuntimesInv, QuietParts, NEW r \in Requests, requests[r].at = "command", Done(r), TypeOK',
         UNCHANGED <<runtimes, active, opening, stored, disposed>>
  PROVE  QuietParts'
<1>1. \A x \in Requests : requests'[x] = requests[x] \/ (requests[x].at = "command" /\ requests'[x].at = "done")
  BY DEF RuntimesInv, TypeOK, Done, Ended
<1>2. Settled' BY DEF QuietParts, Settled
<1>3. \A y \in Runtimes : Healthy(y)' <=> Healthy(y) BY DEF Healthy, Usable
<1>4. QED BY <1>1, <1>2, <1>3, ClaimsStay

LEMMA OpeningFailsQuietly ==
  ASSUME RuntimesInv, TypeOK', QuietParts, ~Settling, NEW p \in Runtimes, runtimes[p].phase \in Opening,
         OpeningFails(p), UNCHANGED <<active, stored, disposed>>
  PROVE  QuietParts'
<1>t. TypeOK BY DEF RuntimesInv
<1>r. \A x \in Requests : RequestOK(x) BY DEF RuntimesInv
<1>p. \A x \in Runtimes : RuntimeOK(x) BY DEF RuntimesInv
<1>l. ListsOK BY DEF RuntimesInv
<1>q. /\ Distinct /\ Settled /\ ListedClaims /\ HealthyAreListed /\ ClosingAreListed
      /\ WaitedAreListed /\ OpeningsAreKnown
  BY DEF QuietParts
<1> DEFINE s == runtimes[p].session
<1>1. /\ runtimes'[p] = Unused /\ \A y \in Runtimes \ {p} : runtimes'[y] = runtimes[y]
  BY <1>t DEF OpeningFails, TypeOK
<1>2. Unused.phase = "none" BY DEF Unused
<1>3. \A x \in Requests : \/ requests'[x] = requests[x]
                          \/ requests[x].at = "waiting" /\ requests'[x].at = "done"
  BY DEF OpeningFails, Ended, At
<1>4. s \in Sessions
  BY <1>t, <1>p, NoneIsNone DEF TypeOK, Runtime, RuntimeOK, Opening
<1>5. opening' = opening \/ opening' = [opening EXCEPT ![s] = None]
  BY DEF OpeningFails, Released
<1> HIDE DEF s
<1>6. \A x \in Requests : /\ requests[x].at = "closing" => requests[x].runtime \in Runtimes \ {p}
                          /\ requests[x].at = "waiting" => requests[x].runtime \in Runtimes
  <2> SUFFICES ASSUME NEW x \in Requests
               PROVE  /\ requests[x].at = "closing" => requests[x].runtime \in Runtimes \ {p}
                      /\ requests[x].at = "waiting" => requests[x].runtime \in Runtimes
    OBVIOUS
  <2>1. requests[x] \in Request /\ RequestOK(x) BY <1>r, <1>t DEF TypeOK
  <2>2. QED BY <2>1 DEF RequestOK, Request, Opening
<1>7. \A x \in Requests : /\ (requests'[x].at = "closing" <=> requests[x].at = "closing")
                          /\ requests[x].at = "closing" => requests'[x] = requests[x]
  BY <1>3
<1>8. \A y \in Runtimes : Claims(y)' => Claims(y) /\ y # p
  BY <1>1, <1>2, <1>6, <1>7 DEF Claims, Opening, Healthy, Usable, At
<1>9. \A y \in Runtimes : Claims(y) /\ y # p => Claims(y)'
  BY <1>1, <1>6, <1>7 DEF Claims, Healthy, Usable, At
<1>10. Claims(p) BY DEF Claims
<1>11. Distinct' BY <1>1, <1>8, <1>q DEF Distinct
<1>12. Settled' BY <1>1, <1>2, <1>q DEF Settled
<1>13. ListedClaims'
  <2> SUFFICES ASSUME NEW x \in Sessions, active'[x] # None
               PROVE  runtimes'[active'[x]].session = x /\ Claims(active[x])'
    BY DEF ListedClaims
  <2>1. active'[x] = active[x] /\ active[x] \in Runtimes /\ runtimes[active[x]].phase = "up"
    BY <1>l, <1>t DEF TypeOK, ListsOK
  <2>2. active[x] # p BY <2>1 DEF Opening
  <2>3. runtimes[active[x]].session = x /\ Claims(active[x]) BY <2>1, <1>q, NoneIsNone DEF ListedClaims
  <2>4. \A y \in Runtimes : y = active'[x] => Claims(y)' /\ runtimes'[y].session = x
    BY <1>1, <1>9, <2>1, <2>2, <2>3
  <2>5. QED BY <2>1, <2>4 DEF Claims
<1>14. HealthyAreListed' BY <1>1, <1>2, <1>q DEF HealthyAreListed, Healthy, Usable, Listed
<1>15. ClosingAreListed' BY <1>1, <1>6, <1>7, <1>q DEF ClosingAreListed, Listed, At
<1>16. WaitedAreListed'
  <2>1. \A x \in Requests : Waits(x)' => Waits(x) BY <1>1, <1>2, <1>3, <1>6 DEF Waits, At
  <2>2. QED BY <2>1 DEF WaitedAreListed, Settling
<1>17. OpeningsAreKnown'
  <2> SUFFICES ASSUME NEW y \in Runtimes, runtimes'[y].phase \in Opening
               PROVE  IF runtimes'[y].new THEN runtimes'[y].session \notin stored'
                                          ELSE disposed' \/ opening'[runtimes'[y].session] = y
    BY DEF OpeningsAreKnown
  <2>1. y # p /\ runtimes'[y] = runtimes[y] BY <1>1, <1>2 DEF Opening
  <2>2. Claims(y) BY <2>1 DEF Claims
  <2>3. runtimes[y].session # s BY <1>10, <1>q, <2>1, <2>2 DEF Distinct, s
  <2>4. runtimes[y].session \in Sessions
    BY <2>1, <1>t, <1>p, NoneIsNone DEF TypeOK, Runtime, RuntimeOK, Opening
  <2>5. opening'[runtimes[y].session] = opening[runtimes[y].session] BY <1>4, <1>5, <1>t, <2>3, <2>4 DEF TypeOK
  <2>6. QED BY <1>q, <2>1, <2>5 DEF OpeningsAreKnown
<1>18. QED BY <1>11, <1>12, <1>13, <1>14, <1>15, <1>16, <1>17 DEF QuietParts

LEMMA AnswersQuietly ==
  ASSUME RuntimesInv, RuntimesInv', Quiet, QuietParts, NEW r \in Requests, Answers(r)
  PROVE  QuietParts'
<1>t. TypeOK /\ TypeOK' BY DEF RuntimesInv
<1>r. \A x \in Requests : RequestOK(x) BY DEF RuntimesInv
<1>p. \A x \in Runtimes : RuntimeOK(x) BY DEF RuntimesInv
<1>l. ListsOK BY DEF RuntimesInv
<1>q. /\ Distinct /\ Settled /\ ListedClaims /\ HealthyAreListed /\ ClosingAreListed
      /\ WaitedAreListed /\ OpeningsAreKnown
  BY DEF QuietParts
<1>1. requests[r].op # "navigate" /\ requests[r].at = "command" BY DEF Quiet, Answers, At
<1>2. UNCHANGED <<runtimes, stored, active, opening, disposed>> BY <1>1 DEF Answers
<1>3. Settled' BY <1>2, <1>q DEF Settled
<1>4. \A x \in Requests : \/ requests'[x] = requests[x]
                          \/ requests[x].at = "command" /\ requests'[x].at \in {"command", "done"}
  <2>1. [requests[r] EXCEPT !.left = 1].at = "command" /\ Ended(requests[r]).at = "done"
    <3>1. requests[r] \in Request BY <1>t DEF TypeOK
    <3>2. QED BY <1>1, <3>1 DEF Ended, Request
  <2>2. requests' = [requests EXCEPT ![r] = IF Usable(requests[r].runtime) THEN [@ EXCEPT !.left = 1] ELSE Ended(@)]
    BY DEF Answers, NextCommand
  <2>3. QED BY <1>1, <2>1, <2>2, <1>t DEF TypeOK
<1>5. \A y \in Runtimes : Healthy(y)' <=> Healthy(y) BY <1>2 DEF Healthy, Usable
<1>6. QED BY <1>2, <1>3, <1>4, <1>5, <1>t, ClaimsStay

LEMMA BranchesLateQuietly ==
  ASSUME RuntimesInv, Quiet, NEW r \in Requests, BranchesLate(r)
  PROVE  FALSE
BY DEF BranchesLate, Quiet

LEMMA BranchCancelledQuietly ==
  ASSUME RuntimesInv, Quiet, NEW r \in Requests, BranchCancelled(r)
  PROVE  FALSE
BY DEF BranchCancelled, Quiet

LEMMA AnswersLastQuietly ==
  ASSUME RuntimesInv, RuntimesInv', Quiet, QuietParts, NEW r \in Requests, AnswersLast(r)
  PROVE  QuietParts'
<1>t. TypeOK /\ TypeOK' BY DEF RuntimesInv
<1>r. \A x \in Requests : RequestOK(x) BY DEF RuntimesInv
<1>p. \A x \in Runtimes : RuntimeOK(x) BY DEF RuntimesInv
<1>l. ListsOK BY DEF RuntimesInv
<1>q. /\ Distinct /\ Settled /\ ListedClaims /\ HealthyAreListed /\ ClosingAreListed
      /\ WaitedAreListed /\ OpeningsAreKnown
  BY DEF QuietParts
<1> DEFINE p == requests[r].runtime
<1>1. /\ requests[r].op # "navigate" /\ requests[r].at = "command"
      /\ requests' = [requests EXCEPT ![r] = Ended(requests[r])]
      /\ UNCHANGED <<stored, active, opening, disposed>>
      /\ UNCHANGED runtimes \/ runtimes' = [runtimes EXCEPT ![p].knows = runtimes[p].serves]
  BY DEF Quiet, AnswersLast, At, Done
<1>2. p \in Runtimes /\ runtimes[p].phase = "up"
  <2>1. RequestOK(r) /\ requests[r] \in Request BY <1>r, <1>t DEF TypeOK
  <2>2. QED BY <1>1, <2>1 DEF RequestOK, Request
<1> HIDE DEF p
<1>3. \A y \in Runtimes :
            /\ runtimes'[y].phase = runtimes[y].phase /\ runtimes'[y].session = runtimes[y].session
            /\ runtimes'[y].process = runtimes[y].process /\ runtimes'[y].new = runtimes[y].new
            /\ runtimes'[y].failed = runtimes[y].failed /\ runtimes'[y].closing = runtimes[y].closing
            /\ runtimes'[y].serves = runtimes[y].serves /\ runtimes'[y].told = runtimes[y].told
            /\ runtimes'[y].knows \in {runtimes[y].knows, runtimes[y].serves}
  BY <1>1, <1>2, <1>t DEF TypeOK, Runtime
<1>4. Settled' BY <1>3, <1>q DEF Settled
<1>5. \A x \in Requests : requests'[x] = requests[x] \/ (requests[x].at = "command" /\ requests'[x].at = "done")
  BY <1>1, <1>t DEF TypeOK, Ended
<1>6. \A y \in Runtimes : Healthy(y)' <=> Healthy(y) BY <1>3 DEF Healthy, Usable
<1>7. QED BY <1>1, <1>3, <1>4, <1>5, <1>6, <1>t, ClaimsStay

LEMMA RefusesQuietly ==
  ASSUME RuntimesInv, RuntimesInv', QuietParts, NEW r \in Requests, Refuses(r)
  PROVE  QuietParts'
BY RequestEnds DEF Refuses, RuntimesInv, At

LEMMA TimesOutQuietly ==
  ASSUME RuntimesInv, RuntimesInv', QuietParts, NEW r \in Requests, TimesOut(r)
  PROVE  QuietParts'
BY RequestEnds DEF TimesOut, RuntimesInv, At

LEMMA CloseReturnsQuietly ==
  ASSUME RuntimesInv, RuntimesInv', Quiet, QuietParts, NEW r \in Requests, CloseReturns(r)
  PROVE  QuietParts'
<1>t. TypeOK /\ TypeOK' BY DEF RuntimesInv
<1>r. \A x \in Requests : RequestOK(x) BY DEF RuntimesInv
<1>p. \A x \in Runtimes : RuntimeOK(x) BY DEF RuntimesInv
<1>l. ListsOK BY DEF RuntimesInv
<1>q. /\ Distinct /\ Settled /\ ListedClaims /\ HealthyAreListed /\ ClosingAreListed
      /\ WaitedAreListed /\ OpeningsAreKnown
  BY DEF QuietParts
<1> DEFINE o == requests[r].runtime
           s == runtimes[o].session
<1>0. /\ o \in Runtimes /\ runtimes[o].phase = "up" /\ runtimes[o].process = "exited"
      /\ s \in Sessions /\ runtimes[o].knows = s
      /\ requests[r] \in Request /\ requests[r].at = "closing" /\ requests[r].op = "stop"
      /\ UNCHANGED <<opening, stored, disposed>>
  <2>1. requests[r] \in Request /\ RequestOK(r) /\ requests[r].at = "closing" /\ runtimes[o].process = "exited"
    BY <1>t, <1>r DEF TypeOK, CloseReturns, ClosingIsOver, At
  <2>2. o \in Runtimes /\ runtimes[o].phase = "up" /\ requests[r].op = "stop"
    BY <2>1 DEF RequestOK, Request, Quiet
  <2>3. runtimes[o] \in Runtime /\ RuntimeOK(o) BY <2>2, <1>t, <1>p DEF TypeOK
  <2>4. s \in Sessions /\ runtimes[o].knows = s BY <2>2, <2>3, <1>q DEF RuntimeOK, Runtime, Settled
  <2>5. QED BY <2>1, <2>2, <2>4 DEF CloseReturns
<1>1. /\ active' = [active EXCEPT ![s] = None]
      /\ requests' = [requests EXCEPT ![r] = Ended(requests[r])]
      /\ runtimes' = Swept(runtimes, requests', active')
  BY <1>0 DEF CloseReturns
<1> HIDE DEF o, s
<1>2. /\ requests'[r].at = "done" /\ \A x \in Requests \ {r} : requests'[x] = requests[x]
  BY <1>1, <1>t DEF TypeOK, Ended
<1>3. \A y \in Runtimes :
         \/ runtimes'[y] = runtimes[y]
         \/ /\ runtimes'[y] = Unused /\ runtimes[y].process = "exited"
            /\ \A x \in Sessions : active'[x] # y
            /\ \A x \in Requests : requests'[x].runtime # y
  BY <1>1 DEF Swept
<1>4. Unused.phase = "none" BY DEF Unused
<1>5. \A y \in Runtimes : runtimes[y].phase \in Opening \/ Healthy(y) => runtimes[y].process # "exited"
  BY <1>p DEF RuntimeOK, Opening, Healthy, Usable
<1>6. \A y \in Runtimes : Healthy(y)' <=> Healthy(y)
  BY <1>3, <1>4, <1>5 DEF Healthy, Usable
<1>7. \A y \in Runtimes : runtimes'[y].phase \in Opening <=> runtimes[y].phase \in Opening
  BY <1>3, <1>4, <1>5 DEF Opening
<1>8. \A x \in Requests : At(x, "closing")' => At(x, "closing") /\ requests'[x] = requests[x] /\ x # r
  BY <1>2 DEF At
<1>9. \A y \in Runtimes : Claims(y)' => Claims(y) /\ runtimes'[y] = runtimes[y]
  <2> SUFFICES ASSUME NEW y \in Runtimes, Claims(y)' PROVE Claims(y) /\ runtimes'[y] = runtimes[y]
    OBVIOUS
  <2>1. CASE runtimes'[y].phase \in Opening BY <1>3, <1>4, <1>7, <2>1 DEF Claims, Opening
  <2>2. CASE Healthy(y)' BY <1>3, <1>4, <1>6, <2>2 DEF Claims, Healthy
  <2>3. ASSUME NEW x \in Requests, At(x, "closing")', requests'[x].runtime = y
        PROVE  Claims(y) /\ runtimes'[y] = runtimes[y]
    BY <1>3, <1>8, <2>3 DEF Claims
  <2>4. QED BY <2>1, <2>2, <2>3 DEF Claims
<1>10. \A y \in Runtimes : Claims(y) /\ y # o => Claims(y)'
  <2> SUFFICES ASSUME NEW y \in Runtimes, Claims(y), y # o PROVE Claims(y)' OBVIOUS
  <2>1. CASE runtimes[y].phase \in Opening BY <1>7, <2>1 DEF Claims
  <2>2. CASE Healthy(y) BY <1>6, <2>2 DEF Claims
  <2>3. ASSUME NEW x \in Requests, At(x, "closing"), requests[x].runtime = y PROVE Claims(y)'
    <3>1. x # r BY <2>3 DEF o
    <3>2. requests'[x] = requests[x] BY <1>2, <3>1
    <3>3. QED BY <2>3, <3>2 DEF Claims, At
  <2>4. QED BY <2>1, <2>2, <2>3 DEF Claims
<1>11. Claims(o) /\ \A y \in Runtimes : Claims(y) /\ y # o => runtimes[y].session # s
  <2>1. Claims(o) BY <1>0 DEF Claims, At, o
  <2>2. QED BY <2>1, <1>0, <1>q DEF Distinct, s
<1>12. Distinct' BY <1>9, <1>q DEF Distinct
<1>13. Settled' BY <1>3, <1>4, <1>q DEF Settled
<1>14. ListedClaims'
  <2> SUFFICES ASSUME NEW x \in Sessions, active'[x] # None
               PROVE  runtimes'[active'[x]].session = x /\ Claims(active[x])'
    BY DEF ListedClaims
  <2>1. x # s /\ active'[x] = active[x] /\ active[x] \in Runtimes BY <1>0, <1>1, <1>t DEF TypeOK
  <2>2. runtimes[active[x]].session = x /\ Claims(active[x]) BY <2>1, <1>q, NoneIsNone DEF ListedClaims
  <2>3. active[x] # o BY <2>1, <2>2 DEF s
  <2>4. \A y \in Runtimes : y = active[x] => Claims(y)' BY <1>10, <2>2, <2>3
  <2>5. \A y \in Runtimes : y = active'[x] => Claims(y)' /\ runtimes'[y].session = x
    BY <1>9, <2>1, <2>2, <2>4
  <2>6. active'[x] \in Runtimes BY <2>1
  <2>7. QED BY <2>5, <2>6 DEF Claims
<1>15. HealthyAreListed'
  <2> SUFFICES ASSUME NEW y \in Runtimes, Healthy(y)' PROVE Listed(y)' BY DEF HealthyAreListed
  <2>1. Healthy(y) /\ Claims(y) /\ Listed(y) BY <1>6, <1>q DEF Claims, HealthyAreListed
  <2>2. runtimes'[y] = runtimes[y] BY <1>3, <1>5, <2>1
  <2>3. y # o BY <1>0, <1>5, <2>1
  <2>4. runtimes[y].session # s BY <1>11, <2>1, <2>3
  <2>5. QED BY <1>0, <1>1, <1>t, <2>1, <2>2, <2>4 DEF Listed, TypeOK
<1>16. ClosingAreListed'
  <2> SUFFICES ASSUME NEW x \in Requests, At(x, "closing")'
               PROVE  (disposed \/ Listed(requests[x].runtime) \/ runtimes[requests[x].runtime].process = "exited")'
    BY DEF ClosingAreListed
  <2> DEFINE y == requests[x].runtime
  <2>1. At(x, "closing") /\ requests'[x] = requests[x] /\ x # r BY <1>8
  <2>2. y \in Runtimes /\ Claims(y)
    BY <2>1, <1>r, <1>t DEF RequestOK, TypeOK, Request, At, Claims
  <2>3. runtimes'[y] = runtimes[y] BY <1>3, <2>1, <2>2
  <2>4. disposed \/ Listed(y) \/ runtimes[y].process = "exited" BY <2>1, <1>q DEF ClosingAreListed
  <2>5. CASE y = o BY <1>0, <2>1, <2>3, <2>5
  <2>6. CASE y # o
    <3>1. runtimes[y].session # s BY <1>11, <2>2, <2>6
    <3>2. active[runtimes[y].session] = y => active'[runtimes[y].session] = y
      BY <1>0, <1>1, <1>t, <3>1 DEF TypeOK
    <3>3. QED BY <1>0, <2>1, <2>3, <2>4, <3>2 DEF Listed
  <2>7. QED BY <2>5, <2>6
<1>17. WaitedAreListed'
  <2>1. ClosingIsOver(r) BY DEF CloseReturns
  <2>2. \A x \in Requests : ~Waits(x) BY <2>1, <1>q DEF WaitedAreListed
  <2>3. \A x \in Requests : ~Waits(x)'
    <3> SUFFICES ASSUME NEW x \in Requests, Waits(x)' PROVE FALSE OBVIOUS
    <3>1. requests'[x] = requests[x] /\ requests[x].at = "waiting" /\ requests[x].runtime \in Runtimes
      BY <1>2, <1>r, <1>t DEF Waits, At, RequestOK, TypeOK, Request
    <3>2. runtimes'[requests[x].runtime] = runtimes[requests[x].runtime] BY <1>3, <3>1
    <3>3. QED BY <2>2, <3>1, <3>2 DEF Waits, At
  <2>4. QED BY <2>3 DEF WaitedAreListed
<1>18. OpeningsAreKnown'
  <2>1. \A y \in Runtimes : runtimes'[y].phase \in Opening => runtimes'[y] = runtimes[y]
    BY <1>3, <1>4 DEF Opening
  <2>2. QED BY <1>0, <1>7, <1>q, <2>1 DEF OpeningsAreKnown
<1>19. QED BY <1>12, <1>13, <1>14, <1>15, <1>16, <1>17, <1>18 DEF QuietParts

LEMMA SpawnQuietly ==
  ASSUME RuntimesInv, RuntimesInv', QuietParts, ~Settling, NEW p \in Runtimes, Spawn(p)
  PROVE  QuietParts'
<1>t. TypeOK /\ TypeOK' BY DEF RuntimesInv
<1>r. \A x \in Requests : RequestOK(x) BY DEF RuntimesInv
<1>p. \A x \in Runtimes : RuntimeOK(x) BY DEF RuntimesInv
<1>l. ListsOK BY DEF RuntimesInv
<1>q. /\ Distinct /\ Settled /\ ListedClaims /\ HealthyAreListed /\ ClosingAreListed
      /\ WaitedAreListed /\ OpeningsAreKnown
  BY DEF QuietParts
<1>1. runtimes[p].phase = "looking" /\ UNCHANGED <<active, stored, disposed>> BY DEF Spawn
<1>2. CASE OpeningFails(p) BY <1>1, <1>2, <1>t, OpeningFailsQuietly DEF Opening
<1>3. CASE /\ runtimes' = [runtimes EXCEPT ![p] =
                IF installed
                THEN [@ EXCEPT !.phase = "starting", !.process = "alive", !.serves = runtimes[p].session]
                ELSE [@ EXCEPT !.phase = "failing", !.process = "unborn", !.failed = TRUE, !.closing = "ended"]]
           /\ UNCHANGED <<requests, opening>>
  <2>1. /\ runtimes'[p].phase \in {"starting", "failing"} /\ runtimes'[p].session = runtimes[p].session
        /\ runtimes'[p].new = runtimes[p].new /\ runtimes'[p].process \in {"alive", "unborn"}
        /\ runtimes'[p].phase = "starting" => runtimes'[p].serves = runtimes[p].session
        /\ \A y \in Runtimes \ {p} : runtimes'[y] = runtimes[y]
    BY <1>3, <1>t DEF TypeOK, Runtime
  <2>2. runtimes[p].process = "none" BY <1>1, <1>p DEF RuntimeOK
  <2>3. \A y \in Runtimes :
            /\ runtimes'[y].phase = runtimes[y].phase \/ {runtimes'[y].phase, runtimes[y].phase} \subseteq Opening
            /\ runtimes'[y].session = runtimes[y].session /\ runtimes'[y].new = runtimes[y].new
            /\ runtimes'[y].process = "exited" <=> runtimes[y].process = "exited"
    BY <1>1, <2>1, <2>2 DEF Opening
  <2>4. \A y \in Runtimes : Healthy(y)' <=> Healthy(y) BY <1>1, <2>1 DEF Healthy, Usable
  <2>5. Settled' BY <2>1, <1>q DEF Settled
  <2>6. QED BY <1>1, <1>3, <1>t, <2>3, <2>4, <2>5, ClaimsStay
<1>4. QED BY <1>2, <1>3 DEF Spawn

LEMMA ComesUpQuietly ==
  ASSUME RuntimesInv, RuntimesInv', QuietParts, ~Settling, NEW p \in Runtimes, ComesUp(p)
  PROVE  QuietParts'
<1>t. TypeOK /\ TypeOK' BY DEF RuntimesInv
<1>r. \A x \in Requests : RequestOK(x) BY DEF RuntimesInv
<1>p. \A x \in Runtimes : RuntimeOK(x) BY DEF RuntimesInv
<1>l. ListsOK BY DEF RuntimesInv
<1>q. /\ Distinct /\ Settled /\ ListedClaims /\ HealthyAreListed /\ ClosingAreListed
      /\ WaitedAreListed /\ OpeningsAreKnown
  BY DEF QuietParts
<1> DEFINE s == runtimes[p].session
<1>1. /\ runtimes[p].phase = "starting" /\ runtimes[p].process = "alive"
      /\ s \in Sessions /\ runtimes[p].serves = s /\ Claims(p)
  BY <1>t, <1>p, <1>q, NoneIsNone DEF ComesUp, Alive, TypeOK, Runtime, RuntimeOK, Opening, Claims, Settled
<1>2. /\ runtimes' = [runtimes EXCEPT ![p].phase = "up", ![p].knows = s, ![p].told = s]
      /\ active' = [active EXCEPT ![s] = p] /\ stored' = stored \cup {s}
      /\ opening' = opening \/ opening' = [opening EXCEPT ![s] = None]
      /\ UNCHANGED <<requests, disposed>>
  BY <1>1 DEF ComesUp, Released
<1>3. /\ runtimes'[p].phase = "up" /\ runtimes'[p].session = s /\ runtimes'[p].process = "alive"
      /\ runtimes'[p].serves = s /\ runtimes'[p].knows = s /\ runtimes'[p].told = s
      /\ runtimes'[p].failed = FALSE /\ runtimes'[p].closing = "no"
      /\ \A y \in Runtimes \ {p} : runtimes'[y] = runtimes[y]
  BY <1>1, <1>2, <1>t, <1>p DEF TypeOK, Runtime, RuntimeOK
<1> HIDE DEF s
<1>4. \A x \in Requests : /\ requests[x].at = "closing" => requests[x].runtime \in Runtimes \ {p}
                          /\ requests[x].at = "waiting" => requests[x].runtime \in Runtimes
  <2> SUFFICES ASSUME NEW x \in Requests
               PROVE  /\ requests[x].at = "closing" => requests[x].runtime \in Runtimes \ {p}
                      /\ requests[x].at = "waiting" => requests[x].runtime \in Runtimes
    OBVIOUS
  <2>1. requests[x] \in Request /\ RequestOK(x) BY <1>r, <1>t DEF TypeOK
  <2>2. QED BY <1>1, <2>1 DEF RequestOK, Request
<1>5. \A y \in Runtimes : (y = p => Claims(y)') /\ (y # p => (Claims(y)' <=> Claims(y)))
  BY <1>2, <1>3 DEF Claims, Healthy, Usable, At
<1>6. \A y \in Runtimes : Claims(y) /\ y # p => runtimes[y].session # s
  BY <1>1, <1>q DEF Distinct, s
<1>7. Distinct' BY <1>3, <1>5, <1>6, <1>q DEF Distinct
<1>8. Settled' BY <1>3, <1>q DEF Settled
<1>9. ListedClaims'
  <2> SUFFICES ASSUME NEW x \in Sessions, active'[x] # None
               PROVE  runtimes'[active'[x]].session = x /\ Claims(active[x])'
    BY DEF ListedClaims
  <2>1. CASE x = s
    <3>1. active'[x] = p BY <1>2, <1>t, <2>1 DEF TypeOK
    <3>2. \A y \in Runtimes : y = active'[x] => Claims(y)' /\ runtimes'[y].session = x
      BY <1>3, <1>5, <2>1, <3>1
    <3>3. QED BY <3>1, <3>2 DEF Claims
  <2>2. CASE x # s
    <3>1. active'[x] = active[x] /\ active[x] \in Runtimes BY <1>1, <1>2, <1>t, <2>2 DEF TypeOK
    <3>2. runtimes[active[x]].session = x /\ Claims(active[x]) BY <3>1, <1>q, NoneIsNone DEF ListedClaims
    <3>3. active[x] # p BY <2>2, <3>2 DEF s
    <3>4. \A y \in Runtimes : y = active'[x] => Claims(y)' /\ runtimes'[y].session = x
      BY <1>3, <1>5, <3>1, <3>2, <3>3
    <3>5. QED BY <3>1, <3>4 DEF Claims
  <2>3. QED BY <2>1, <2>2
<1>10. \A y \in Runtimes : Claims(y) /\ y # p => runtimes'[y] = runtimes[y] /\ (Listed(y) => Listed(y)')
  BY <1>1, <1>2, <1>3, <1>6, <1>t DEF Listed, TypeOK
<1>11. HealthyAreListed'
  <2> SUFFICES ASSUME NEW y \in Runtimes, Healthy(y)' PROVE Listed(y)' BY DEF HealthyAreListed
  <2>1. CASE y = p BY <1>1, <1>2, <1>3, <1>t, <2>1 DEF Listed, TypeOK
  <2>2. CASE y # p
    <3>1. Healthy(y) BY <1>3, <2>2 DEF Healthy, Usable
    <3>2. Claims(y) /\ Listed(y) BY <3>1, <1>q DEF Claims, HealthyAreListed
    <3>3. QED BY <1>10, <2>2, <3>2
  <2>3. QED BY <2>1, <2>2
<1>12. ClosingAreListed'
  <2> SUFFICES ASSUME NEW x \in Requests, At(x, "closing")'
               PROVE  (disposed \/ Listed(requests[x].runtime) \/ runtimes[requests[x].runtime].process = "exited")'
    BY DEF ClosingAreListed
  <2>1. At(x, "closing") /\ requests'[x] = requests[x] BY <1>2 DEF At
  <2> PICK y \in Runtimes \ {p} : y = requests[x].runtime BY <2>1, <1>4 DEF At
  <2>2. Claims(y) BY <2>1 DEF Claims
  <2>3. disposed \/ Listed(y) \/ runtimes[y].process = "exited" BY <2>1, <1>q DEF ClosingAreListed
  <2>4. runtimes'[y] = runtimes[y] /\ (Listed(y) => Listed(y)') BY <1>10, <2>2
  <2>5. QED BY <1>2, <2>1, <2>3, <2>4 DEF Listed
<1>13. WaitedAreListed'
  <2> SUFFICES ASSUME NEW x \in Requests, Waits(x)'
               PROVE  /\ Listed(requests[x].runtime)' /\ runtimes'[requests'[x].runtime].process # "exited"
                      /\ \A q \in Requests : ~ClosingIsOver(q)'
    BY DEF WaitedAreListed
  <2>1. requests'[x] = requests[x] /\ requests[x].at = "waiting" /\ requests[x].runtime \in Runtimes
    BY <1>2, <1>4 DEF Waits, At
  <2>2. requests[x].runtime = p BY <1>3, <2>1 DEF Waits, At, Settling
  <2>3. \A q \in Requests : ~ClosingIsOver(q)'
    <3> SUFFICES ASSUME NEW q \in Requests, ClosingIsOver(q)' PROVE FALSE OBVIOUS
    <3>1. requests'[q] = requests[q] /\ requests[q].at = "closing" /\ requests[q].runtime \in Runtimes \ {p}
      BY <1>2, <1>4 DEF ClosingIsOver, At
    <3>2. ClosingIsOver(q) BY <1>3, <3>1 DEF ClosingIsOver, At
    <3>3. QED BY <3>2 DEF Settling
  <2>4. QED BY <1>1, <1>2, <1>3, <1>t, <2>1, <2>2, <2>3 DEF Listed, TypeOK
<1>14. OpeningsAreKnown'
  <2> SUFFICES ASSUME NEW y \in Runtimes, runtimes'[y].phase \in Opening
               PROVE  IF runtimes'[y].new THEN runtimes'[y].session \notin stored'
                                          ELSE disposed' \/ opening'[runtimes'[y].session] = y
    BY DEF OpeningsAreKnown
  <2>1. y # p /\ runtimes'[y] = runtimes[y] BY <1>3 DEF Opening
  <2>2. Claims(y) BY <2>1 DEF Claims
  <2>3. runtimes[y].session # s /\ runtimes[y].session \in Sessions
    BY <2>1, <2>2, <1>6, <1>t, <1>p, NoneIsNone DEF TypeOK, Runtime, RuntimeOK, Opening
  <2>4. opening'[runtimes[y].session] = opening[runtimes[y].session]
    BY <1>1, <1>2, <1>t, <2>3 DEF TypeOK
  <2>5. QED BY <1>2, <1>q, <2>1, <2>3, <2>4 DEF OpeningsAreKnown
<1>15. QED BY <1>7, <1>8, <1>9, <1>11, <1>12, <1>13, <1>14 DEF QuietParts

LEMMA StartFailsQuietly ==
  ASSUME RuntimesInv, RuntimesInv', QuietParts, NEW p \in Runtimes, StartFails(p)
  PROVE  QuietParts'
<1>t. TypeOK /\ TypeOK' BY DEF RuntimesInv
<1>r. \A x \in Requests : RequestOK(x) BY DEF RuntimesInv
<1>p. \A x \in Runtimes : RuntimeOK(x) BY DEF RuntimesInv
<1>l. ListsOK BY DEF RuntimesInv
<1>q. /\ Distinct /\ Settled /\ ListedClaims /\ HealthyAreListed /\ ClosingAreListed
      /\ WaitedAreListed /\ OpeningsAreKnown
  BY DEF QuietParts
<1>1. /\ runtimes' = [runtimes EXCEPT ![p].phase = "failing", ![p].closing = "ended"]
      /\ runtimes[p].phase = "starting"
      /\ UNCHANGED <<requests, active, opening, stored, disposed>>
  BY DEF StartFails
<1>2. /\ runtimes'[p].phase = "failing" /\ runtimes'[p].session = runtimes[p].session
      /\ runtimes'[p].new = runtimes[p].new /\ runtimes'[p].process = runtimes[p].process
      /\ \A y \in Runtimes \ {p} : runtimes'[y] = runtimes[y]
  BY <1>1, <1>t DEF TypeOK, Runtime
<1>3. \A y \in Runtimes : Healthy(y)' <=> Healthy(y) BY <1>1, <1>2 DEF Healthy, Usable
<1>4. Settled' BY <1>2, <1>q DEF Settled
<1>5. \A y \in Runtimes :
            /\ runtimes'[y].phase = runtimes[y].phase \/ {runtimes'[y].phase, runtimes[y].phase} \subseteq Opening
            /\ runtimes'[y].session = runtimes[y].session /\ runtimes'[y].new = runtimes[y].new
            /\ runtimes'[y].process = runtimes[y].process
  BY <1>1, <1>2 DEF Opening
<1>6. QED BY <1>1, <1>3, <1>4, <1>5, <1>t, ClaimsStay

LEMMA RunEndsQuietly ==
  ASSUME RuntimesInv, RuntimesInv', QuietParts, NEW p \in Runtimes, RunEnds(p)
  PROVE  QuietParts'
<1>t. TypeOK /\ TypeOK' BY DEF RuntimesInv
<1>r. \A x \in Requests : RequestOK(x) BY DEF RuntimesInv
<1>p. \A x \in Runtimes : RuntimeOK(x) BY DEF RuntimesInv
<1>l. ListsOK BY DEF RuntimesInv
<1>q. /\ Distinct /\ Settled /\ ListedClaims /\ HealthyAreListed /\ ClosingAreListed
      /\ WaitedAreListed /\ OpeningsAreKnown
  BY DEF QuietParts
<1>1. UNCHANGED <<requests, active, opening, stored, disposed>> BY DEF RunEnds
<1>2. \A y \in Runtimes :
            /\ runtimes'[y].phase = runtimes[y].phase /\ runtimes'[y].session = runtimes[y].session
            /\ runtimes'[y].new = runtimes[y].new /\ runtimes'[y].failed = runtimes[y].failed
            /\ runtimes'[y].serves = runtimes[y].serves /\ runtimes'[y].told = runtimes[y].told
            /\ runtimes'[y].knows \in {runtimes[y].knows, runtimes[y].serves}
            /\ runtimes'[y].process = "exited" <=> runtimes[y].process = "exited"
            /\ runtimes'[y].closing = "no" <=> runtimes[y].closing = "no"
  BY <1>t DEF TypeOK, Runtime, RunEnds
<1>3. Settled' BY <1>2, <1>q DEF Settled
<1>4. \A y \in Runtimes : Healthy(y)' <=> Healthy(y) BY <1>2 DEF Healthy, Usable
<1>5. QED BY <1>1, <1>2, <1>3, <1>4, <1>t, ClaimsStay

\* A runtime stops being healthy: it fails, or its process exits and it may be forgotten.
LEMMA GoesQuietly ==
  ASSUME RuntimesInv, TypeOK', QuietParts, ~Settling, NEW p \in Runtimes, runtimes[p].phase = "up", NEW rts,
         active' = IF Listening(p) THEN Unlisted(p) ELSE active,
         requests' = Rejected(p), UNCHANGED <<opening, stored, disposed>>,
         /\ rts[p].phase = "up" /\ rts[p].process \in {"exited", runtimes[p].process}
         /\ rts[p].failed \/ rts[p].closing # "no"
         /\ rts[p].session = runtimes[p].session /\ rts[p].serves = runtimes[p].serves
         /\ rts[p].knows = runtimes[p].knows /\ rts[p].told = runtimes[p].told,
         \A y \in Runtimes \ {p} : rts[y] = runtimes[y],
         \A y \in Runtimes :
           \/ runtimes'[y] = rts[y]
           \/ /\ runtimes'[y] = Unused /\ rts[y].process = "exited"
              /\ \A x \in Sessions : active'[x] # y
              /\ \A x \in Requests : requests'[x].runtime # y
  PROVE  QuietParts'
<1>t. TypeOK BY DEF RuntimesInv
<1>r. \A x \in Requests : RequestOK(x) BY DEF RuntimesInv
<1>p. \A x \in Runtimes : RuntimeOK(x) BY DEF RuntimesInv
<1>l. ListsOK BY DEF RuntimesInv
<1>q. /\ Distinct /\ Settled /\ ListedClaims /\ HealthyAreListed /\ ClosingAreListed
      /\ WaitedAreListed /\ OpeningsAreKnown
  BY DEF QuietParts
<1> DEFINE s == runtimes[p].session
<1>1. /\ active' = IF Listening(p) THEN Unlisted(p) ELSE active
      /\ requests' = Rejected(p) /\ UNCHANGED <<opening, stored, disposed>>
  OBVIOUS
<1>3. /\ s \in Sessions /\ runtimes[p].told = s
  BY <1>t, <1>p, <1>q, NoneIsNone DEF TypeOK, Runtime, RuntimeOK, Settled
<1>4. \A y \in Runtimes :
         \/ runtimes'[y] = rts[y]
         \/ /\ runtimes'[y] = Unused /\ rts[y].process = "exited"
            /\ \A x \in Sessions : active'[x] # y
            /\ \A x \in Requests : requests'[x].runtime # y
  OBVIOUS
<1>7. /\ rts[p].phase = "up" /\ rts[p].process \in {"exited", runtimes[p].process}
      /\ rts[p].failed \/ rts[p].closing # "no"
      /\ rts[p].session = s /\ rts[p].serves = runtimes[p].serves
      /\ rts[p].knows = runtimes[p].knows /\ rts[p].told = runtimes[p].told
      /\ \A y \in Runtimes \ {p} : rts[y] = runtimes[y]
  OBVIOUS
<1>5. \A x \in Sessions : \/ active'[x] = active[x] /\ ~(x = s /\ active[x] = p /\ Listening(p))
                          \/ active'[x] = None /\ active[x] = p
  BY <1>1, <1>3, <1>t DEF Unlisted, TypeOK
<1>6. \A x \in Requests : \/ requests'[x] = requests[x]
                          \/ requests[x].at = "command" /\ requests'[x].at = "done"
  BY <1>1 DEF Rejected, Ended, At
<1>8. Unused.phase = "none" BY DEF Unused
<1> HIDE DEF s
<1>9. \A y \in Runtimes : runtimes[y].phase \in Opening \/ Healthy(y) => runtimes[y].process # "exited"
  BY <1>p DEF RuntimeOK, Opening, Healthy, Usable
<1>10. \A y \in Runtimes : (y # p => (Healthy(y)' <=> Healthy(y))) /\ (y = p => ~Healthy(y)')
  BY <1>4, <1>7, <1>8, <1>9 DEF Healthy, Usable
<1>11. \A y \in Runtimes : /\ runtimes'[y].phase \in Opening <=> runtimes[y].phase \in Opening
                           /\ runtimes'[y].phase = "up" => runtimes[y].phase = "up"
  BY <1>3, <1>4, <1>7, <1>8, <1>9 DEF Opening
<1>12. \A x \in Requests : /\ (requests'[x].at = "closing" <=> requests[x].at = "closing")
                           /\ requests[x].at = "closing" => requests'[x] = requests[x]
  BY <1>6
<1>13. \A y \in Runtimes : Claims(y)' => Claims(y) /\ runtimes'[y] = rts[y]
  <2> SUFFICES ASSUME NEW y \in Runtimes, Claims(y)' PROVE Claims(y) /\ runtimes'[y] = rts[y]
    OBVIOUS
  <2>1. CASE runtimes'[y].phase \in Opening BY <1>4, <1>8, <1>11, <2>1 DEF Claims, Opening
  <2>2. CASE Healthy(y)'
    <3>1. runtimes'[y].phase = "up" BY <2>2 DEF Healthy
    <3>2. y # p /\ Healthy(y) BY <1>10, <2>2
    <3>3. runtimes'[y] = rts[y] BY <1>4, <1>8, <3>1
    <3>4. QED BY <3>2, <3>3 DEF Claims
  <2>3. ASSUME NEW x \in Requests, At(x, "closing")', requests'[x].runtime = y
        PROVE  Claims(y) /\ runtimes'[y] = rts[y]
    BY <1>4, <1>12, <2>3 DEF Claims, At
  <2>4. QED BY <2>1, <2>2, <2>3 DEF Claims
<1>14. \A y \in Runtimes : Claims(y) /\ (y # p \/ ~Healthy(y)) => Claims(y)'
  BY <1>10, <1>11, <1>12 DEF Claims, At
<1>15. \A y \in Runtimes : rts[y].session = runtimes[y].session BY <1>7 DEF s
<1>16. Distinct' BY <1>13, <1>15, <1>q DEF Distinct
<1>17. Settled' BY <1>3, <1>q, <1>4, <1>7, <1>8 DEF Settled, s
<1>18. ListedClaims'
  <2> SUFFICES ASSUME NEW x \in Sessions, active'[x] # None
               PROVE  runtimes'[active'[x]].session = x /\ Claims(active[x])'
    BY DEF ListedClaims
  <2>1. active'[x] = active[x] /\ active[x] \in Runtimes BY <1>5, <1>t DEF TypeOK
  <2>2. runtimes[active[x]].session = x /\ Claims(active[x]) BY <2>1, <1>q, NoneIsNone DEF ListedClaims
  <2>3. active[x] # p \/ ~Healthy(active[x])
    <3>1. ASSUME active[x] = p PROVE ~Healthy(p)
      <4>1. x = s BY <2>2, <3>1 DEF s
      <4>2. ~Listening(p) BY <1>5, <2>1, <3>1, <4>1, NoneIsNone
      <4>3. QED BY <4>2 DEF Listening, Healthy
    <3>2. QED BY <3>1
  <2>4. \A y \in Runtimes : y = active'[x] => Claims(y)' /\ runtimes'[y].session = x
    BY <1>13, <1>14, <1>15, <2>1, <2>2, <2>3
  <2>5. QED BY <2>1, <2>4 DEF Claims
<1>19. \A y \in Runtimes \ {p} : Claims(y)' => runtimes'[y] = runtimes[y] /\ (Listed(y) => Listed(y)')
  <2> SUFFICES ASSUME NEW y \in Runtimes \ {p}, Claims(y)'
               PROVE  runtimes'[y] = runtimes[y] /\ (Listed(y) => Listed(y)')
    OBVIOUS
  <2>1. runtimes'[y] = runtimes[y] BY <1>7, <1>13
  <2>2. runtimes[y].session \in Sessions
    <3>1. runtimes[y].phase # "none"
      <4>1. CASE runtimes[y].phase \in Opening BY <4>1 DEF Opening
      <4>2. CASE Healthy(y) BY <4>2 DEF Healthy
      <4>3. ASSUME NEW x \in Requests, At(x, "closing"), requests[x].runtime = y
            PROVE  runtimes[y].phase # "none"
        BY <1>r, <4>3 DEF RequestOK, At
      <4>4. Claims(y) BY <1>13
      <4>5. QED BY <4>1, <4>2, <4>3, <4>4 DEF Claims
    <3>2. QED BY <3>1, <1>p, <1>t DEF RuntimeOK, TypeOK, Runtime
  <2>3. QED BY <1>5, <2>1, <2>2 DEF Listed
<1>20. HealthyAreListed'
  <2> SUFFICES ASSUME NEW y \in Runtimes, Healthy(y)' PROVE Listed(y)' BY DEF HealthyAreListed
  <2>1. y # p /\ Healthy(y) BY <1>10
  <2>2. Claims(y)' BY DEF Claims
  <2>3. QED BY <1>q, <1>19, <2>1, <2>2 DEF HealthyAreListed
<1>21. ClosingAreListed'
  <2> SUFFICES ASSUME NEW x \in Requests, At(x, "closing")'
               PROVE  (disposed \/ Listed(requests[x].runtime) \/ runtimes[requests[x].runtime].process = "exited")'
    BY DEF ClosingAreListed
  <2>1. requests'[x] = requests[x] /\ At(x, "closing") BY <1>12 DEF At
  <2>2. PICK y \in Runtimes : y = requests[x].runtime
    BY <2>1, <1>r, <1>t DEF RequestOK, TypeOK, Request, At
  <2>3. Claims(y)' BY <2>1, <2>2 DEF Claims
  <2>4. disposed \/ Listed(y) \/ runtimes[y].process = "exited" BY <2>1, <2>2, <1>q DEF ClosingAreListed
  <2>5. CASE y = p
    <3>1. runtimes'[p] = rts[p] BY <1>13, <2>3, <2>5
    <3>2. runtimes[p].closing # "no"
      <4>1. RequestOK(x) /\ requests[x].at = "closing" /\ requests[x].runtime = p BY <1>r, <2>1, <2>2, <2>5 DEF At
      <4>2. QED BY <4>1 DEF RequestOK
    <3>3. active' = active BY <1>1, <3>2 DEF Listening, Usable
    <3>4. QED BY <1>1, <1>7, <2>1, <2>2, <2>4, <2>5, <3>1, <3>3 DEF Listed, s
  <2>6. CASE y # p
    <3>1. runtimes'[y] = runtimes[y] /\ (Listed(y) => Listed(y)') BY <1>19, <2>2, <2>3, <2>6
    <3>2. QED BY <1>1, <2>1, <2>2, <2>4, <3>1 DEF Listed
  <2>7. QED BY <2>5, <2>6
<1>22. WaitedAreListed'
  <2>1. \A x \in Requests : ~Waits(x)'
    <3> SUFFICES ASSUME NEW x \in Requests, Waits(x)' PROVE FALSE OBVIOUS
    <3>1. requests'[x] = requests[x] /\ requests[x].at = "waiting" BY <1>6 DEF Waits, At
    <3>2. requests[x].runtime \in Runtimes BY <3>1, <1>r, <1>t DEF RequestOK, TypeOK, Request
    <3>3. QED BY <1>11, <3>1, <3>2 DEF Waits, At, Settling
  <2>2. QED BY <2>1 DEF WaitedAreListed
<1>23. OpeningsAreKnown'
  <2>1. \A y \in Runtimes : runtimes'[y].phase \in Opening => runtimes'[y] = runtimes[y]
    BY <1>3, <1>4, <1>7, <1>8 DEF Opening
  <2>2. QED BY <1>1, <1>11, <2>1, <1>q DEF OpeningsAreKnown
<1>24. QED BY <1>16, <1>17, <1>18, <1>20, <1>21, <1>22, <1>23 DEF QuietParts

LEMMA BreaksQuietly ==
  ASSUME RuntimesInv, RuntimesInv', QuietParts, ~Settling, NEW p \in Runtimes, Breaks(p)
  PROVE  QuietParts'
<1>t. TypeOK /\ TypeOK' BY DEF RuntimesInv
<1>r. \A x \in Requests : RequestOK(x) BY DEF RuntimesInv
<1>p. \A x \in Runtimes : RuntimeOK(x) BY DEF RuntimesInv
<1>l. ListsOK BY DEF RuntimesInv
<1>q. /\ Distinct /\ Settled /\ ListedClaims /\ HealthyAreListed /\ ClosingAreListed
      /\ WaitedAreListed /\ OpeningsAreKnown
  BY DEF QuietParts
<1>1. /\ runtimes[p].phase \in {"starting", "up"} /\ requests' = Rejected(p)
      /\ active' = (IF Listening(p) THEN Unlisted(p) ELSE active)
      /\ UNCHANGED <<opening, stored, disposed>>
  BY DEF Breaks, ListedAfterFailure
<1>2. /\ runtimes'[p].failed = TRUE /\ runtimes'[p].process = runtimes[p].process
      /\ runtimes'[p].session = runtimes[p].session /\ runtimes'[p].serves = runtimes[p].serves
      /\ runtimes'[p].knows = runtimes[p].knows /\ runtimes'[p].told = runtimes[p].told
      /\ runtimes'[p].new = runtimes[p].new
      /\ runtimes'[p].phase = IF runtimes[p].phase = "up" THEN "up" ELSE "failing"
      /\ \A y \in Runtimes \ {p} : runtimes'[y] = runtimes[y]
  BY <1>t DEF Breaks, TypeOK, Runtime
<1>3. CASE runtimes[p].phase = "up"
  <2> DEFINE rts == runtimes'
  <2>1. /\ rts[p].phase = "up" /\ rts[p].process \in {"exited", runtimes[p].process} /\ rts[p].failed
        /\ rts[p].session = runtimes[p].session /\ rts[p].serves = runtimes[p].serves
        /\ rts[p].knows = runtimes[p].knows /\ rts[p].told = runtimes[p].told
        /\ \A y \in Runtimes \ {p} : rts[y] = runtimes[y]
        /\ \A y \in Runtimes : runtimes'[y] = rts[y]
    BY <1>2, <1>3
  <2> HIDE DEF rts
  <2>2. QED BY <1>1, <1>3, <1>t, <2>1, GoesQuietly
<1>4. CASE runtimes[p].phase = "starting"
  <2>1. \A x \in Requests : \/ requests'[x] = requests[x]
                            \/ requests[x].at = "command" /\ requests'[x].at = "done"
    BY <1>1 DEF Rejected, Ended, At
  <2>2. UNCHANGED active BY <1>1, <1>4 DEF Listening
  <2>3. \A y \in Runtimes :
            /\ runtimes'[y].phase = runtimes[y].phase \/ {runtimes'[y].phase, runtimes[y].phase} \subseteq Opening
            /\ runtimes'[y].session = runtimes[y].session /\ runtimes'[y].new = runtimes[y].new
            /\ runtimes'[y].process = runtimes[y].process
    BY <1>2, <1>4 DEF Opening
  <2>4. \A y \in Runtimes : Healthy(y)' <=> Healthy(y) BY <1>2, <1>4 DEF Healthy, Usable
  <2>5. Settled' BY <1>2, <1>4, <1>q DEF Settled
  <2>6. QED BY <1>1, <1>t, <2>1, <2>2, <2>3, <2>4, <2>5, ClaimsStay
<1>5. QED BY <1>1, <1>3, <1>4

LEMMA HangsQuietly ==
  ASSUME RuntimesInv, RuntimesInv', QuietParts, NEW p \in Runtimes, Hangs(p)
  PROVE  QuietParts'
<1>t. TypeOK /\ TypeOK' BY DEF RuntimesInv
<1>r. \A x \in Requests : RequestOK(x) BY DEF RuntimesInv
<1>p. \A x \in Runtimes : RuntimeOK(x) BY DEF RuntimesInv
<1>l. ListsOK BY DEF RuntimesInv
<1>q. /\ Distinct /\ Settled /\ ListedClaims /\ HealthyAreListed /\ ClosingAreListed
      /\ WaitedAreListed /\ OpeningsAreKnown
  BY DEF QuietParts
<1>1. UNCHANGED <<requests, active, opening, stored, disposed>> BY DEF Hangs
<1>2. \A y \in Runtimes :
            /\ runtimes'[y].phase = runtimes[y].phase /\ runtimes'[y].session = runtimes[y].session
            /\ runtimes'[y].new = runtimes[y].new /\ runtimes'[y].failed = runtimes[y].failed
            /\ runtimes'[y].serves = runtimes[y].serves /\ runtimes'[y].told = runtimes[y].told
            /\ runtimes'[y].knows \in {runtimes[y].knows, runtimes[y].serves}
            /\ runtimes'[y].process = "exited" <=> runtimes[y].process = "exited"
            /\ runtimes'[y].closing = "no" <=> runtimes[y].closing = "no"
  BY <1>t DEF TypeOK, Runtime, Hangs, Alive
<1>3. Settled' BY <1>2, <1>q DEF Settled
<1>4. \A y \in Runtimes : Healthy(y)' <=> Healthy(y) BY <1>2 DEF Healthy, Usable
<1>5. QED BY <1>1, <1>2, <1>3, <1>4, <1>t, ClaimsStay

LEMMA ExitsQuietly ==
  ASSUME RuntimesInv, RuntimesInv', QuietParts, ~Settling, NEW p \in Runtimes, Exits(p)
  PROVE  QuietParts'
<1>t. TypeOK /\ TypeOK' BY DEF RuntimesInv
<1>r. \A x \in Requests : RequestOK(x) BY DEF RuntimesInv
<1>p. \A x \in Runtimes : RuntimeOK(x) BY DEF RuntimesInv
<1>l. ListsOK BY DEF RuntimesInv
<1>q. /\ Distinct /\ Settled /\ ListedClaims /\ HealthyAreListed /\ ClosingAreListed
      /\ WaitedAreListed /\ OpeningsAreKnown
  BY DEF QuietParts
<1>1. runtimes[p].process \in {"alive", "hung"} /\ UNCHANGED <<stored, disposed>> BY DEF Exits
<1>2. CASE runtimes[p].phase # "up"
  <2>1. runtimes[p].phase \in Opening
    BY <1>1, <1>2, <1>p, <1>t DEF RuntimeOK, Unused, TypeOK, Runtime, Opening
  <2>2. OpeningFails(p) /\ UNCHANGED active BY <1>2 DEF Exits
  <2>3. QED BY <1>1, <1>t, <2>1, <2>2, OpeningFailsQuietly
<1>3. CASE runtimes[p].phase = "up"
  <2> DEFINE s == runtimes[p].session
             Gone(rts) == /\ rts[p].phase = "up" /\ rts[p].process = "exited" /\ rts[p].session = s
                          /\ rts[p].failed \/ rts[p].closing # "no"
                          /\ rts[p].knows = runtimes[p].knows /\ rts[p].told = runtimes[p].told
                          /\ rts[p].serves = runtimes[p].serves
                          /\ \A y \in Runtimes \ {p} : rts[y] = runtimes[y]
  <2>1. /\ active' = IF Listening(p) THEN Unlisted(p) ELSE active
        /\ requests' = Rejected(p) /\ UNCHANGED opening
        /\ \E rts : Gone(rts) /\ runtimes' = Swept(rts, requests', active')
    <3>1. PICK code \in {0, 1} :
             LET clean == code = 0 /\ runtimes[p].closing # "no" /\ ~runtimes[p].failed
             IN /\ requests' = RejectedAtExit(p, clean)
                /\ runtimes' = Swept([runtimes EXCEPT ![p].process = "exited", ![p].failed = ~clean],
                                     requests', active')
      BY <1>3 DEF Exits
    <3> DEFINE clean == code = 0 /\ runtimes[p].closing # "no" /\ ~runtimes[p].failed
               rts == [runtimes EXCEPT ![p].process = "exited", ![p].failed = ~clean]
    <3>2. Gone(rts)
      <4>1. /\ rts[p].phase = "up" /\ rts[p].process = "exited" /\ rts[p].session = s
            /\ rts[p].knows = runtimes[p].knows /\ rts[p].told = runtimes[p].told
            /\ rts[p].serves = runtimes[p].serves /\ rts[p].failed = ~clean
            /\ rts[p].closing = runtimes[p].closing
            /\ \A y \in Runtimes \ {p} : rts[y] = runtimes[y]
        BY <1>3, <1>t DEF TypeOK, Runtime
      <4>2. QED BY <4>1
    <3>3. requests' = Rejected(p) /\ runtimes' = Swept(rts, requests', active') BY <3>1 DEF RejectedAtExit
    <3>4. active' = (IF Listening(p) THEN Unlisted(p) ELSE active) /\ UNCHANGED opening
      BY <1>3 DEF Exits
    <3> HIDE DEF rts, Gone
    <3>5. QED BY <3>2, <3>3, <3>4
  <2>2. PICK rts : Gone(rts) /\ runtimes' = Swept(rts, requests', active') BY <2>1
  <2>3. \A y \in Runtimes :
           \/ runtimes'[y] = rts[y]
           \/ /\ runtimes'[y] = Unused /\ rts[y].process = "exited"
              /\ \A x \in Sessions : active'[x] # y
              /\ \A x \in Requests : requests'[x].runtime # y
    BY <2>2 DEF Swept
  <2>4. Gone(rts) BY <2>2
  <2>5. QED BY <1>1, <1>3, <1>t, <2>1, <2>3, <2>4, GoesQuietly
<1>4. QED BY <1>2, <1>3

LEMMA CloseTimesOutQuietly ==
  ASSUME RuntimesInv, RuntimesInv', QuietParts, NEW p \in Runtimes, CloseTimesOut(p)
  PROVE  QuietParts'
<1>t. TypeOK /\ TypeOK' BY DEF RuntimesInv
<1>r. \A x \in Requests : RequestOK(x) BY DEF RuntimesInv
<1>p. \A x \in Runtimes : RuntimeOK(x) BY DEF RuntimesInv
<1>l. ListsOK BY DEF RuntimesInv
<1>q. /\ Distinct /\ Settled /\ ListedClaims /\ HealthyAreListed /\ ClosingAreListed
      /\ WaitedAreListed /\ OpeningsAreKnown
  BY DEF QuietParts
<1>1. UNCHANGED <<requests, active, opening, stored, disposed>> BY DEF CloseTimesOut
<1>2. \A y \in Runtimes :
            /\ runtimes'[y].phase = runtimes[y].phase /\ runtimes'[y].session = runtimes[y].session
            /\ runtimes'[y].new = runtimes[y].new /\ runtimes'[y].failed = runtimes[y].failed
            /\ runtimes'[y].serves = runtimes[y].serves /\ runtimes'[y].told = runtimes[y].told
            /\ runtimes'[y].knows \in {runtimes[y].knows, runtimes[y].serves}
            /\ runtimes'[y].process = "exited" <=> runtimes[y].process = "exited"
            /\ runtimes'[y].closing = "no" <=> runtimes[y].closing = "no"
  BY <1>t DEF TypeOK, Runtime, CloseTimesOut, Escalated
<1>3. Settled' BY <1>2, <1>q DEF Settled
<1>4. \A y \in Runtimes : Healthy(y)' <=> Healthy(y) BY <1>2 DEF Healthy, Usable
<1>5. QED BY <1>1, <1>2, <1>3, <1>4, <1>t, ClaimsStay

LEMMA DisposeQuietly ==
  ASSUME RuntimesInv, RuntimesInv', QuietParts, ~Settling, Dispose
  PROVE  QuietParts'
<1>t. TypeOK /\ TypeOK' BY DEF RuntimesInv
<1>r. \A x \in Requests : RequestOK(x) BY DEF RuntimesInv
<1>p. \A x \in Runtimes : RuntimeOK(x) BY DEF RuntimesInv
<1>l. ListsOK BY DEF RuntimesInv
<1>q. /\ Distinct /\ Settled /\ ListedClaims /\ HealthyAreListed /\ ClosingAreListed
      /\ WaitedAreListed /\ OpeningsAreKnown
  BY DEF QuietParts
<1>1. /\ active' = [x \in Sessions |-> None] /\ disposed' = TRUE /\ UNCHANGED <<requests, stored>>
      /\ runtimes' = [y \in Runtimes |->
           IF \E x \in Sessions : active[x] = y THEN CloseBegins(y) ELSE runtimes[y]]
  BY DEF Dispose
<1>2. \A y \in Runtimes :
        /\ runtimes'[y].phase = runtimes[y].phase /\ runtimes'[y].process = runtimes[y].process
        /\ runtimes'[y].session = runtimes[y].session /\ runtimes'[y].new = runtimes[y].new
        /\ runtimes'[y].serves = runtimes[y].serves
        /\ runtimes'[y].knows = runtimes[y].knows /\ runtimes'[y].told = runtimes[y].told
  BY <1>1, <1>t DEF CloseBegins, TypeOK, Runtime
<1>3. \A y \in Runtimes : ~Healthy(y)'
  <2> SUFFICES ASSUME NEW y \in Runtimes, Healthy(y)' PROVE FALSE OBVIOUS
  <2>1. runtimes'[y].closing = "no" /\ ~runtimes'[y].failed /\ runtimes'[y].phase = "up" BY DEF Healthy, Usable
  <2>2. runtimes'[y] = runtimes[y]
    <3>1. CASE \E x \in Sessions : active[x] = y
      <4>1. runtimes'[y] = CloseBegins(y) BY <1>1, <3>1
      <4>2. CloseBegins(y).closing # "no" BY <1>t DEF CloseBegins, TypeOK, Runtime
      <4>3. QED BY <2>1, <4>1, <4>2
    <3>2. CASE ~\E x \in Sessions : active[x] = y BY <1>1, <3>2
    <3>3. QED BY <3>1, <3>2
  <2>3. Listed(y) BY <2>1, <2>2, <1>q DEF HealthyAreListed, Healthy, Usable
  <2>4. runtimes[y].session \in Sessions BY <1>p, <1>t, <2>1, <2>2 DEF RuntimeOK, TypeOK, Runtime
  <2>5. runtimes'[y] = CloseBegins(y) BY <1>1, <2>3, <2>4 DEF Listed
  <2>6. CloseBegins(y).closing # "no" BY <1>t DEF CloseBegins, TypeOK, Runtime
  <2>7. QED BY <2>1, <2>5, <2>6
<1>4. \A y \in Runtimes : Claims(y)' => Claims(y) BY <1>1, <1>2, <1>3 DEF Claims, At
<1>5. Distinct' BY <1>2, <1>4, <1>q DEF Distinct
<1>6. Settled' BY <1>2, <1>q DEF Settled
<1>7. ListedClaims' BY <1>1 DEF ListedClaims
<1>8. HealthyAreListed' BY <1>3 DEF HealthyAreListed
<1>9. ClosingAreListed' /\ OpeningsAreKnown' BY <1>1, <1>2, <1>q DEF ClosingAreListed, OpeningsAreKnown
<1>10. WaitedAreListed'
  <2>1. \A x \in Requests : ~Waits(x)'
    <3> SUFFICES ASSUME NEW x \in Requests, Waits(x)' PROVE FALSE OBVIOUS
    <3>1. requests'[x] = requests[x] /\ requests[x].at = "waiting" BY <1>1 DEF Waits, At
    <3>2. requests[x].runtime \in Runtimes BY <3>1, <1>r, <1>t DEF RequestOK, TypeOK, Request
    <3>3. QED BY <1>2, <3>1, <3>2 DEF Waits, At, Settling
  <2>2. QED BY <2>1 DEF WaitedAreListed
<1>11. QED BY <1>5, <1>6, <1>7, <1>8, <1>9, <1>10 DEF QuietParts

LEMMA InstallQuietly ==
  ASSUME RuntimesInv, RuntimesInv', QuietParts, Install
  PROVE  QuietParts'
<1>1. UNCHANGED <<requests, runtimes, active, opening, stored, disposed>> BY DEF Install
<1>2. Settled' BY <1>1 DEF QuietParts, Settled
<1>3. \A y \in Runtimes : Healthy(y)' <=> Healthy(y) BY <1>1 DEF Healthy, Usable
<1>4. TypeOK' BY DEF RuntimesInv
<1>5. QED BY <1>1, <1>2, <1>3, <1>4, ClaimsStay

LEMMA UsesQuietly ==
  ASSUME RuntimesInv, TypeOK', QuietParts, UNCHANGED <<active, opening, stored, disposed>>,
         NEW r \in Requests, requests[r].at \in {"new", "waiting"}, NEW req \in Request, NEW p \in Runtimes,
         Listed(p), runtimes[p].phase = "up", runtimes[p].process # "exited" \/ ~Settling, Uses(r, req, p)
  PROVE  QuietParts'
<1>t. TypeOK BY DEF RuntimesInv
<1>r. \A x \in Requests : RequestOK(x) BY DEF RuntimesInv
<1>p. \A x \in Runtimes : RuntimeOK(x) BY DEF RuntimesInv
<1>l. ListsOK BY DEF RuntimesInv
<1>q. /\ Distinct /\ Settled /\ ListedClaims /\ HealthyAreListed /\ ClosingAreListed
      /\ WaitedAreListed /\ OpeningsAreKnown
  BY DEF QuietParts
<1>1. CASE /\ runtimes' = [runtimes EXCEPT ![p] = CloseBegins(p)]
           /\ requests' = [requests EXCEPT ![r] = [req EXCEPT !.at = "closing", !.runtime = p]]
  <2>1. /\ requests'[r].at = "closing" /\ requests'[r].runtime = p
        /\ \A x \in Requests \ {r} : requests'[x] = requests[x]
    BY <1>1, <1>t DEF TypeOK, Request
  <2>2. /\ runtimes'[p].closing # "no" /\ runtimes'[p].phase = "up"
        /\ runtimes'[p].session = runtimes[p].session /\ runtimes'[p].process = runtimes[p].process
        /\ runtimes'[p].new = runtimes[p].new /\ runtimes'[p].knows = runtimes[p].knows
        /\ runtimes'[p].serves = runtimes[p].serves /\ runtimes'[p].told = runtimes[p].told
        /\ \A y \in Runtimes \ {p} : runtimes'[y] = runtimes[y]
    BY <1>1, <1>t DEF TypeOK, Runtime, CloseBegins
  <2>3. runtimes[p].session \in Sessions BY <1>t, <1>p DEF TypeOK, Runtime, RuntimeOK
  <2>4. Claims(p) /\ Claims(p)'
    <3>1. Claims(p) BY <2>3, <1>q, NoneIsNone DEF ListedClaims, Listed
    <3>2. Claims(p)' BY <2>1 DEF Claims, At
    <3>3. QED BY <3>1, <3>2
  <2>5. \A y \in Runtimes : (Claims(y)' <=> Claims(y)) /\ runtimes'[y].session = runtimes[y].session
    BY <2>1, <2>2, <2>4 DEF Claims, Healthy, Usable, At
  <2>6. Distinct' BY <2>5, <1>q DEF Distinct
  <2>7. Settled' BY <2>2, <1>q DEF Settled
  <2>8. ListedClaims' BY <2>5, <1>q, <1>t DEF ListedClaims, TypeOK
  <2>9. HealthyAreListed' BY <2>2, <1>q DEF HealthyAreListed, Healthy, Usable, Listed
  <2>10. ClosingAreListed'
    <3> SUFFICES ASSUME NEW x \in Requests, At(x, "closing")'
                 PROVE  (disposed \/ Listed(requests[x].runtime) \/ runtimes[requests[x].runtime].process = "exited")'
      BY DEF ClosingAreListed
    <3>1. CASE x = r BY <2>1, <2>2, <3>1 DEF Listed
    <3>2. CASE x # r
      <4>1. requests'[x] = requests[x] /\ At(x, "closing") BY <2>1, <3>2 DEF At
      <4>2. requests[x].runtime \in Runtimes BY <4>1, <1>r, <1>t DEF RequestOK, TypeOK, Request, At
      <4>3. QED BY <2>2, <4>1, <4>2, <1>q DEF ClosingAreListed, Listed
    <3>3. QED BY <3>1, <3>2
  <2>11. WaitedAreListed'
    <3> SUFFICES ASSUME NEW x \in Requests, Waits(x)'
                 PROVE  /\ Listed(requests[x].runtime)' /\ runtimes'[requests'[x].runtime].process # "exited"
                        /\ \A q \in Requests : ~ClosingIsOver(q)'
      BY DEF WaitedAreListed
    <3>1. requests'[x] = requests[x] /\ requests[x].at = "waiting" /\ requests[x].runtime \in Runtimes
      BY <2>1, <1>r, <1>t DEF Waits, At, RequestOK, TypeOK, Request
    <3>2. Waits(x) BY <2>2, <3>1 DEF Waits, At
    <3>3. runtimes[p].process # "exited" BY <3>2 DEF Settling
    <3>4. /\ Listed(requests[x].runtime) /\ runtimes[requests[x].runtime].process # "exited"
          /\ \A q \in Requests : ~ClosingIsOver(q)
      BY <3>2, <1>q DEF WaitedAreListed
    <3>5. \A y \in Runtimes : runtimes'[y].process = runtimes[y].process BY <2>2
    <3>6. \A q \in Requests : ~ClosingIsOver(q)'
      <4> SUFFICES ASSUME NEW q \in Requests, ClosingIsOver(q)' PROVE FALSE OBVIOUS
      <4>1. CASE q = r BY <2>1, <2>2, <3>3, <4>1 DEF ClosingIsOver
      <4>2. CASE q # r
        <5>1. requests'[q] = requests[q] /\ requests[q].at = "closing" /\ requests[q].runtime \in Runtimes
          BY <2>1, <4>2, <1>r, <1>t DEF ClosingIsOver, At, RequestOK, TypeOK, Request
        <5>2. QED BY <3>4, <3>5, <5>1 DEF ClosingIsOver, At
      <4>3. QED BY <4>1, <4>2
    <3>7. QED BY <2>5, <3>1, <3>4, <3>5, <3>6 DEF Listed
  <2>12. OpeningsAreKnown'
    <3>1. \A y \in Runtimes : runtimes'[y].phase = runtimes[y].phase /\ runtimes'[y].new = runtimes[y].new
      BY <2>2
    <3>2. QED BY <2>5, <3>1, <1>q DEF OpeningsAreKnown
  <2>13. QED BY <2>6, <2>7, <2>8, <2>9, <2>10, <2>11, <2>12 DEF QuietParts
<1>2. CASE /\ UNCHANGED runtimes
           /\ \/ requests' = [requests EXCEPT ![r] = Ended(req)]
              \/ requests' = [requests EXCEPT ![r] =
                   [req EXCEPT !.at = "command", !.runtime = p, !.left = Commands[req.op]]]
  <2> DEFINE sent == [req EXCEPT !.at = "command", !.runtime = p, !.left = Commands[req.op]]
  <2>0. sent.at = "command" /\ Ended(req).at = "done" BY DEF Request, Ended
  <2> HIDE DEF sent
  <2>1. /\ requests'[r].at \in {"command", "done"}
        /\ \A x \in Requests \ {r} : requests'[x] = requests[x]
    <3>1. requests' = [requests EXCEPT ![r] = Ended(req)] \/ requests' = [requests EXCEPT ![r] = sent]
      BY <1>2 DEF sent
    <3>2. QED BY <2>0, <3>1, <1>t DEF TypeOK
  <2>2. Settled' BY <1>2, <1>q DEF Settled
  <2>3. \A y \in Runtimes : Healthy(y)' <=> Healthy(y) BY <1>2 DEF Healthy, Usable
  <2>4. \A x \in Requests :
            /\ requests'[x].at = "closing" <=> requests[x].at = "closing"
            /\ requests'[x].at = "closing" => requests'[x].runtime = requests[x].runtime
            /\ requests'[x].at = "waiting" => requests[x].at = "waiting" /\ requests'[x].runtime = requests[x].runtime
    BY <2>1
  <2>5. QED BY <1>2, <2>2, <2>3, <2>4, ClaimsStay
<1>3. QED BY <1>1, <1>2 DEF Uses

LEMMA ProceedQuietly ==
  ASSUME RuntimesInv, RuntimesInv', QuietParts, NEW r \in Requests, Proceed(r)
  PROVE  QuietParts'
<1>t. TypeOK /\ TypeOK' BY DEF RuntimesInv
<1>r. \A x \in Requests : RequestOK(x) BY DEF RuntimesInv
<1>p. \A x \in Runtimes : RuntimeOK(x) BY DEF RuntimesInv
<1>l. ListsOK BY DEF RuntimesInv
<1>q. /\ Distinct /\ Settled /\ ListedClaims /\ HealthyAreListed /\ ClosingAreListed
      /\ WaitedAreListed /\ OpeningsAreKnown
  BY DEF QuietParts
<1>1. /\ Waits(r) /\ requests[r].at = "waiting" /\ UNCHANGED <<active, opening, stored, disposed>>
  BY DEF Proceed, Waits, At
<1>2. requests[r] \in Request /\ requests[r].runtime \in Runtimes /\ runtimes[requests[r].runtime].phase = "up"
  BY <1>1, <1>r, <1>t DEF RequestOK, TypeOK, Request, Waits
<1>3. CASE Done(r) /\ UNCHANGED runtimes
  <2>1. requests'[r].at = "done" /\ \A x \in Requests \ {r} : requests'[x] = requests[x]
    BY <1>3, <1>t DEF TypeOK, Done, Ended
  <2>2. Settled' BY <1>3, <1>q DEF Settled
  <2>3. \A y \in Runtimes : Healthy(y)' <=> Healthy(y) BY <1>3 DEF Healthy, Usable
  <2>4. \A x \in Requests :
            /\ requests'[x].at = "closing" <=> requests[x].at = "closing"
            /\ requests'[x].at = "closing" => requests'[x].runtime = requests[x].runtime
            /\ requests'[x].at = "waiting" => requests[x].at = "waiting" /\ requests'[x].runtime = requests[x].runtime
    BY <1>1, <2>1
  <2>5. QED BY <1>1, <1>3, <1>t, <2>2, <2>3, <2>4, ClaimsStay
<1>4. CASE Uses(r, requests[r], requests[r].runtime)
  <2>1. Listed(requests[r].runtime) /\ runtimes[requests[r].runtime].process # "exited"
    BY <1>1, <1>q DEF WaitedAreListed
  <2>2. QED BY <1>1, <1>2, <1>4, <1>t, <2>1, UsesQuietly
<1>5. QED BY <1>3, <1>4 DEF Proceed

LEMMA CreatesQuietly ==
  ASSUME RuntimesInv, TypeOK', QuietParts, ~Settling, UNCHANGED <<active, stored, disposed>>,
         NEW r \in Requests, requests[r].at = "new", NEW req \in Request, NEW s \in Sessions, NEW isNew \in BOOLEAN,
         Creates(r, req, s, isNew), opening' = IF isNew THEN opening ELSE [opening EXCEPT ![s] = NewRuntime],
         isNew => s \notin stored, \A y \in Runtimes : Claims(y) => runtimes[y].session # s
  PROVE  QuietParts'
<1>t. TypeOK BY DEF RuntimesInv
<1>r. \A x \in Requests : RequestOK(x) BY DEF RuntimesInv
<1>p. \A x \in Runtimes : RuntimeOK(x) BY DEF RuntimesInv
<1>l. ListsOK BY DEF RuntimesInv
<1>q. /\ Distinct /\ Settled /\ ListedClaims /\ HealthyAreListed /\ ClosingAreListed
      /\ WaitedAreListed /\ OpeningsAreKnown
  BY DEF QuietParts
<1>1. PICK n \in Runtimes : n = NewRuntime /\ runtimes[n].phase = "none" BY NewIsFree DEF Creates
<1>2. /\ runtimes' = [runtimes EXCEPT ![n] = Opens(s, isNew)]
      /\ requests' = [requests EXCEPT ![r] = [req EXCEPT !.at = "waiting", !.runtime = n]]
  BY <1>1 DEF Creates
<1>3. opening' = IF isNew THEN opening ELSE [opening EXCEPT ![s] = n] BY <1>1
<1>4. /\ runtimes'[n].phase = "looking" /\ runtimes'[n].session = s /\ runtimes'[n].new = isNew
      /\ \A y \in Runtimes \ {n} : runtimes'[y] = runtimes[y]
  BY <1>1, <1>2, <1>t DEF TypeOK, Opens, Unused
<1>5. /\ requests'[r].at = "waiting" /\ requests'[r].runtime = n
      /\ \A x \in Requests \ {r} : requests'[x] = requests[x]
  BY <1>2, <1>t DEF TypeOK, Request
<1>6. \A x \in Requests : requests[x].at \in {"closing", "waiting"} => requests[x].runtime \in Runtimes \ {n}
  <2> SUFFICES ASSUME NEW x \in Requests, requests[x].at \in {"closing", "waiting"}
               PROVE  requests[x].runtime \in Runtimes \ {n}
    OBVIOUS
  <2>1. requests[x] \in Request /\ RequestOK(x) BY <1>r, <1>t DEF TypeOK
  <2>2. QED BY <1>1, <2>1 DEF RequestOK, Request
<1>7. \A x \in Requests : At(x, "closing")' <=> At(x, "closing") /\ requests'[x] = requests[x] /\ x # r
  BY <1>5 DEF At
<1>8. Claims(n)' /\ \A y \in Runtimes \ {n} : Claims(y)' <=> Claims(y)
  <2>1. Claims(n)' BY <1>4 DEF Claims, Opening
  <2>2. \A y \in Runtimes \ {n} : Claims(y)' <=> Claims(y)
    <3> SUFFICES ASSUME NEW y \in Runtimes \ {n} PROVE Claims(y)' <=> Claims(y) OBVIOUS
    <3>1. runtimes'[y] = runtimes[y] BY <1>4
    <3>2. (\E x \in Requests : At(x, "closing")' /\ requests'[x].runtime = y)
          <=> (\E x \in Requests : At(x, "closing") /\ requests[x].runtime = y)
      BY <1>5, <1>7 DEF At
    <3>3. QED BY <3>1, <3>2 DEF Claims, Healthy, Usable
  <2>3. QED BY <2>1, <2>2
<1>9. Distinct'
  <2> SUFFICES ASSUME NEW x \in Runtimes, NEW y \in Runtimes, Claims(x)', Claims(y)',
                      runtimes'[x].session = runtimes'[y].session
               PROVE  x = y
    BY DEF Distinct
  <2>1. \A z \in Runtimes \ {n} : Claims(z)' => Claims(z) /\ runtimes'[z].session = runtimes[z].session /\ runtimes[z].session # s
    BY <1>4, <1>8
  <2>2. QED BY <1>4, <1>q, <2>1 DEF Distinct
<1>10. Settled' BY <1>4, <1>q DEF Settled
<1>11. ListedClaims'
  <2> SUFFICES ASSUME NEW x \in Sessions, active'[x] # None
               PROVE  runtimes'[active'[x]].session = x /\ Claims(active[x])'
    BY DEF ListedClaims
  <2>1. active'[x] = active[x] /\ active[x] \in Runtimes \ {n}
    BY <1>1, <1>l, <1>t DEF TypeOK, ListsOK
  <2>2. runtimes[active[x]].session = x /\ Claims(active[x]) BY <2>1, <1>q, NoneIsNone DEF ListedClaims
  <2>3. \A y \in Runtimes : y = active'[x] => Claims(y)' /\ runtimes'[y].session = x
    BY <1>4, <1>8, <2>1, <2>2
  <2>4. QED BY <2>1, <2>3 DEF Claims
<1>12. HealthyAreListed' BY <1>4, <1>q DEF HealthyAreListed, Healthy, Usable, Listed
<1>13. ClosingAreListed' BY <1>4, <1>6, <1>7, <1>q DEF ClosingAreListed, Listed, At
<1>14. WaitedAreListed'
  <2>1. \A x \in Requests : ~Waits(x)'
    <3> SUFFICES ASSUME NEW x \in Requests, Waits(x)' PROVE FALSE OBVIOUS
    <3>1. x # r BY <1>4, <1>5 DEF Waits
    <3>2. requests'[x] = requests[x] /\ requests[x].at = "waiting" BY <1>5, <3>1 DEF Waits, At
    <3>3. requests[x].runtime \in Runtimes \ {n} BY <1>6, <3>2
    <3>4. QED BY <1>4, <3>2, <3>3 DEF Waits, At, Settling
  <2>2. QED BY <2>1 DEF WaitedAreListed
<1>15. OpeningsAreKnown'
  <2> SUFFICES ASSUME NEW y \in Runtimes, runtimes'[y].phase \in Opening
               PROVE  IF runtimes'[y].new THEN runtimes'[y].session \notin stored'
                                          ELSE disposed' \/ opening'[runtimes'[y].session] = y
    BY DEF OpeningsAreKnown
  <2>1. CASE y = n BY <1>3, <1>4, <1>t, <2>1 DEF TypeOK
  <2>2. CASE y # n
    <3>1. runtimes'[y] = runtimes[y] BY <1>4, <2>2
    <3>2. Claims(y) /\ runtimes[y].session # s BY <3>1 DEF Claims
    <3>3. runtimes[y].session \in Sessions BY <3>1, <1>p, <1>t, NoneIsNone DEF RuntimeOK, TypeOK, Runtime, Opening
    <3>4. opening'[runtimes[y].session] = opening[runtimes[y].session] BY <1>3, <1>t, <3>2, <3>3 DEF TypeOK
    <3>5. QED BY <3>1, <3>4, <1>q DEF OpeningsAreKnown
  <2>3. QED BY <2>1, <2>2
<1>16. QED BY <1>9, <1>10, <1>11, <1>12, <1>13, <1>14, <1>15 DEF QuietParts

LEMMA NobodyClaims ==
  ASSUME RuntimesInv, QuietParts, ~Settling, ~disposed, NEW s \in stored, active[s] = None, opening[s] = None,
         NEW p \in Runtimes, Claims(p)
  PROVE  runtimes[p].session # s
<1> SUFFICES ASSUME runtimes[p].session = s PROVE FALSE OBVIOUS
<1>q. HealthyAreListed /\ ClosingAreListed /\ OpeningsAreKnown BY DEF QuietParts
<1>1. CASE runtimes[p].phase \in Opening BY <1>1, <1>q, NoneIsNone DEF OpeningsAreKnown
<1>2. CASE Healthy(p) BY <1>2, <1>q, NoneIsNone DEF HealthyAreListed, Listed
<1>3. ASSUME NEW x \in Requests, At(x, "closing"), requests[x].runtime = p PROVE FALSE
  BY <1>3, <1>q, NoneIsNone DEF ClosingAreListed, Listed, ClosingIsOver, Settling
<1>4. QED BY <1>1, <1>2, <1>3 DEF Claims

LEMMA ArriveQuietly ==
  ASSUME RuntimesInv, RuntimesInv', QuietParts, ~Settling, NEW r \in Requests, Arrive(r)
  PROVE  QuietParts'
<1>t. TypeOK /\ TypeOK' BY DEF RuntimesInv
<1>r. \A x \in Requests : RequestOK(x) BY DEF RuntimesInv
<1>p. \A x \in Runtimes : RuntimeOK(x) BY DEF RuntimesInv
<1>l. ListsOK BY DEF RuntimesInv
<1>q. /\ Distinct /\ Settled /\ ListedClaims /\ HealthyAreListed /\ ClosingAreListed
      /\ WaitedAreListed /\ OpeningsAreKnown
  BY DEF QuietParts
<1>1. requests[r].at = "new" /\ ~disposed /\ UNCHANGED <<active, stored, disposed>>
  BY DEF Arrive, At
<1>2. PICK op \in Ops : LET req == [requests[r] EXCEPT !.op = op, !.late = installed]
                        IN \/ op # "start" /\ \E s \in stored : GetOrOpen(r, req, s)
                           \/ op = "start" /\ (\E s \in Fresh : Creates(r, req, s, TRUE)) /\ UNCHANGED opening
  BY DEF Arrive
<1> DEFINE req == [requests[r] EXCEPT !.op = op, !.late = installed]
<1>3. req \in Request /\ stored \subseteq Sessions BY <1>t DEF TypeOK, Request
<1>4. (\E s \in stored : GetOrOpen(r, req, s)) \/ ((\E s \in Fresh : Creates(r, req, s, TRUE)) /\ UNCHANGED opening)
  BY <1>2
<1> HIDE DEF req
<1>5. ASSUME NEW s \in stored, active[s] # None, Uses(r, req, active[s]), UNCHANGED opening
      PROVE  QuietParts'
  <2>1. active[s] \in Runtimes /\ runtimes[active[s]].phase = "up" /\ runtimes[active[s]].session = s
    BY <1>3, <1>5, <1>l, <1>t, <1>q DEF TypeOK, ListsOK, ListedClaims
  <2>2. Listed(active[s]) BY <2>1 DEF Listed
  <2>3. QED BY <1>1, <1>3, <1>5, <1>t, <2>1, <2>2, UsesQuietly
<1>6. ASSUME NEW s \in stored, opening[s] # None, UNCHANGED <<runtimes, opening>>,
             requests' = [requests EXCEPT ![r] = [req EXCEPT !.at = "waiting", !.runtime = opening[s]]]
      PROVE  QuietParts'
  <2>1. opening[s] \in Runtimes /\ runtimes[opening[s]].phase # "up"
    BY <1>3, <1>6, <1>l, <1>t DEF TypeOK, ListsOK, Opening
  <2>2. /\ requests'[r].at = "waiting" /\ requests'[r].runtime = opening[s]
        /\ \A x \in Requests \ {r} : requests'[x] = requests[x]
    BY <1>3, <1>6, <1>t DEF TypeOK, Request
  <2>3. Settled' BY <1>6, <1>q DEF Settled
  <2>4. \A y \in Runtimes : Healthy(y)' <=> Healthy(y) BY <1>6 DEF Healthy, Usable
  <2>5. \A x \in Requests :
            /\ requests'[x].at = "closing" <=> requests[x].at = "closing"
            /\ requests'[x].at = "closing" => requests'[x].runtime = requests[x].runtime
            /\ requests'[x].at = "waiting" =>
                 \/ requests[x].at = "waiting" /\ requests'[x].runtime = requests[x].runtime
                 \/ requests'[x].runtime \in Runtimes /\ runtimes[requests'[x].runtime].phase # "up"
    BY <1>1, <2>1, <2>2
  <2>6. QED BY <1>1, <1>6, <1>t, <2>3, <2>4, <2>5, ClaimsStay
<1>7. ASSUME NEW s \in stored, active[s] = None, opening[s] = None, Creates(r, req, s, FALSE),
             opening' = [opening EXCEPT ![s] = NewRuntime]
      PROVE  QuietParts'
  <2>1. \A y \in Runtimes : Claims(y) => runtimes[y].session # s BY <1>1, <1>7, NobodyClaims
  <2>2. s \in Sessions BY <1>3
  <2>3. QED BY <1>1, <1>3, <1>7, <1>t, <2>1, <2>2, CreatesQuietly
<1>8. ASSUME NEW s \in Fresh, Creates(r, req, s, TRUE), UNCHANGED opening
      PROVE  QuietParts'
  <2>1. s \in Sessions /\ s \notin stored /\ \A y \in Runtimes : Claims(y) => runtimes[y].session # s
    BY DEF Fresh
  <2>2. QED BY <1>1, <1>3, <1>8, <1>t, <2>1, CreatesQuietly
<1>9. QED BY <1>4, <1>5, <1>6, <1>7, <1>8 DEF GetOrOpen, Joins

----------------------------------------------------------------------------
\* What reloads or branches once is not forgotten: a behaviour is quiet from its beginning.
LEMMA QuietBefore == RuntimesInv /\ [Next]_vars /\ Quiet' => Quiet
<1> SUFFICES ASSUME RuntimesInv, [Next]_vars, NEW x \in Requests, requests[x].op \in {"reload", "navigate"}
             PROVE  requests'[x].op = requests[x].op
  BY DEF Quiet
<1>1. requests \in [Requests -> Request] BY DEF RuntimesInv, TypeOK
<1>2. Ended(requests[x]).op = requests[x].op BY DEF Ended
<1>3. ~At(x, "new") BY DEF RuntimesInv, RequestOK, At
<1>4. ASSUME NEW r \in Requests, Done(r) PROVE requests'[x].op = requests[x].op
  BY <1>1, <1>2, <1>4 DEF Done
<1>5. ASSUME NEW p \in Runtimes, OpeningFails(p) PROVE requests'[x].op = requests[x].op
  BY <1>2, <1>5 DEF OpeningFails
<1>6. ASSUME NEW p \in Runtimes, requests' = Rejected(p) PROVE requests'[x].op = requests[x].op
  BY <1>2, <1>6 DEF Rejected
<1>7. ASSUME NEW r \in Requests, Proceed(r) PROVE requests'[x].op = requests[x].op
  <2>1. CASE Uses(r, requests[r], requests[r].runtime)
    <3> DEFINE sent == [requests[r] EXCEPT !.at = "command", !.runtime = requests[r].runtime,
                                           !.left = Commands[requests[r].op]]
               closes == [requests[r] EXCEPT !.at = "closing", !.runtime = requests[r].runtime]
    <3>1. sent.op = requests[r].op /\ closes.op = requests[r].op /\ Ended(requests[r]).op \in {requests[r].op, "read"}
      BY <1>1 DEF Request, Ended
    <3>2. \/ requests' = [requests EXCEPT ![r] = sent]
          \/ requests' = [requests EXCEPT ![r] = closes]
          \/ requests' = [requests EXCEPT ![r] = Ended(requests[r])]
      BY <2>1 DEF Uses
    <3> HIDE DEF sent, closes
    <3>3. QED BY <1>1, <1>2, <3>1, <3>2
  <2>2. QED BY <1>4, <1>7, <2>1 DEF Proceed
<1>8. ASSUME NEW r \in Requests, CloseReturns(r) PROVE requests'[x].op = requests[x].op
  BY <1>1, <1>2, <1>8 DEF CloseReturns, Request
<1>9. ASSUME NEW r \in Requests, Event(r) PROVE requests'[x].op = requests[x].op
  <2>1. CASE Arrive(r)
    <3>1. x # r BY <1>3, <2>1 DEF Arrive
    <3>2. QED BY <1>1, <2>1, <3>1 DEF Arrive, GetOrOpen, Uses, Creates
  <2>2. CASE Answers(r) BY <1>1, <1>2, <2>2 DEF Answers, NextCommand, Request
  <2>3. QED BY <1>4, <1>9, <2>1, <2>2 DEF Event, BranchesLate, BranchCancelled, AnswersLast, Refuses, TimesOut
<1>10. ASSUME NEW p \in Runtimes, Happens(p) PROVE requests'[x].op = requests[x].op
  <2>1. \/ OpeningFails(p)
        \/ requests' = Rejected(p)
        \/ UNCHANGED requests
    BY <1>10 DEF Happens, Spawn, ComesUp, StartFails, RunEnds, Breaks, Hangs, Exits, RejectedAtExit, CloseTimesOut
  <2>2. QED BY <1>5, <1>6, <2>1
<1>11. CASE Dispose \/ Install \/ UNCHANGED vars BY <1>11 DEF Dispose, Install, vars
<1>12. QED BY <1>7, <1>8, <1>9, <1>10, <1>11 DEF Next

LEMMA QuietBegin == Init => QuietParts
<1> SUFFICES ASSUME Init PROVE QuietParts OBVIOUS
<1>1. \A r \in Requests : requests[r].at = "new" BY DEF Init
<1>2. \A p \in Runtimes : runtimes[p].phase = "none" BY DEF Init, Unused
<1>3. \A s \in Sessions : active[s] = None BY DEF Init
<1>4. \A p \in Runtimes : ~Claims(p) BY <1>1, <1>2 DEF Claims, Opening, Healthy, At
<1>5. \A r \in Requests : ~Waits(r) BY <1>1 DEF Waits, At
<1>6. Distinct /\ Settled /\ ListedClaims BY <1>2, <1>3, <1>4 DEF Distinct, Settled, ListedClaims
<1>7. HealthyAreListed /\ ClosingAreListed /\ WaitedAreListed /\ OpeningsAreKnown
  BY <1>1, <1>2, <1>5 DEF HealthyAreListed, ClosingAreListed, WaitedAreListed, OpeningsAreKnown, Healthy, Opening, At
<1>8. QED BY <1>6, <1>7 DEF QuietParts

LEMMA QuietStep == RuntimesInv /\ QuietInv /\ [Next]_vars => QuietInv'
<1> SUFFICES ASSUME RuntimesInv, QuietInv, [Next]_vars, Quiet' PROVE QuietParts' BY DEF QuietInv
<1>0. RuntimesInv' /\ Quiet /\ QuietParts BY RuntimesStep, QuietBefore DEF QuietInv
<1>1. ASSUME NEW r \in Requests, Proceed(r) \/ CloseReturns(r) PROVE QuietParts'
  BY <1>0, <1>1, ProceedQuietly, CloseReturnsQuietly
<1>2. ASSUME ~Settling, NEW r \in Requests, Event(r) PROVE QuietParts'
  BY <1>0, <1>2, ArriveQuietly, AnswersQuietly, BranchesLateQuietly, BranchCancelledQuietly, AnswersLastQuietly,
     RefusesQuietly, TimesOutQuietly DEF Event
<1>3. ASSUME ~Settling, NEW p \in Runtimes, Happens(p) PROVE QuietParts'
  BY <1>0, <1>3, SpawnQuietly, ComesUpQuietly, StartFailsQuietly, RunEndsQuietly, BreaksQuietly, HangsQuietly,
     ExitsQuietly, CloseTimesOutQuietly DEF Happens
<1>4. CASE ~Settling /\ (Dispose \/ Install) BY <1>0, <1>4, DisposeQuietly, InstallQuietly
<1>5. CASE UNCHANGED vars
  BY <1>0, <1>5 DEF vars, QuietParts, Distinct, Settled, ListedClaims, HealthyAreListed, ClosingAreListed,
     WaitedAreListed, OpeningsAreKnown, Claims, Healthy, Usable, Listed, Waits, ClosingIsOver, At
<1>6. QED BY <1>1, <1>2, <1>3, <1>4, <1>5 DEF Next

LEMMA OneHealthy == RuntimesInv /\ QuietInv => OneHealthyRuntime
<1> SUFFICES ASSUME RuntimesInv, QuietInv, Quiet, NEW p \in Runtimes, Healthy(p)
             PROVE  active[runtimes[p].serves] = p
  BY DEF OneHealthyRuntime, Quiet
<1>1. Listed(p) /\ runtimes[p].serves = runtimes[p].session
  BY DEF QuietInv, QuietParts, HealthyAreListed, Settled, Healthy
<1>2. QED BY <1>1 DEF Listed

\* No command is left waiting for a process that failed or is gone, whatever fails, hangs,
\* exits or is closed in whichever order (ompRpcClient.ts fail, handleExit, rejectAll).
THEOREM NothingEverPends == Spec => []NothingPends
<1>1. Spec => []RuntimesInv BY RuntimesBegin, RuntimesStep, PTL DEF Spec
<1>2. RuntimesInv => NothingPends BY DEF RuntimesInv, RequestOK, NothingPends, At
<1>3. QED BY <1>1, <1>2, PTL

\* Unless a session is reloaded or branches, a healthy runtime is the one listed under the session
\* it serves, so no two serve the same; and a failed one is not handed out under the id it was
\* opened for (ompSessionService.ts getOrOpen, createRuntime, stop).
THEOREM OneRuntimeServes == Spec => [](OneHealthyRuntime /\ FailedAreUnlisted)
<1>1. Init => RuntimesInv /\ QuietInv BY RuntimesBegin, QuietBegin DEF QuietInv
<1>2. (RuntimesInv /\ QuietInv) /\ [Next]_vars => (RuntimesInv /\ QuietInv)' BY RuntimesStep, QuietStep
<1>3. Spec => [](RuntimesInv /\ QuietInv) BY <1>1, <1>2, PTL DEF Spec
<1>4. RuntimesInv /\ QuietInv => OneHealthyRuntime /\ FailedAreUnlisted BY OneHealthy DEF RuntimesInv
<1>5. QED BY <1>3, <1>4, PTL

------------------------------------------------------------------------------
(* What a runtime tells: the invariant *)

AnswerTypes == {"get_state", "get_session_stats"}
FrameTypes == {"agent_start", "agent_end", "message_start", "message_update", "message_end", "other_start",
               "auto_compaction_start", "auto_compaction_end"}
CompactionTypes == {"auto_compaction_start", "auto_compaction_end"}
KnownStates == [runs : BOOLEAN, compacts : BOOLEAN, said : Nat]
OnLine == [type : FrameTypes \union AnswerTypes, of : Refreshers \union {0}, state : KnownStates]
OnInbox == [type : AnswerTypes, of : Refreshers]
RefreshRecords == [kind : {"none", "all", "state"}, got : KnownStates, stats : BOOLEAN]

FramesTypeOK ==
  /\ agent \in [runs : BOOLEAN, compacts : BOOLEAN, said : Nat, text : Nat] /\ run \in 0 .. MaxRuns
  /\ line \in Seq(OnLine) /\ inbox \in Seq(OnInbox)
  /\ known \in KnownStates /\ partial \in Nat
  /\ refreshes \in [Refreshers -> RefreshRecords] /\ resolved \in Seq(Refreshers)

\* What the process does, and what of it the line may tell.
AgentOK ==
  /\ agent.said <= MaxSaid
  /\ agent.runs \/ agent.text = 0
  /\ agent.text > 0 => agent.said < MaxSaid
  /\ agent.runs => run \in Runs
AnswersOK ==
  \A i \in DOMAIN line :
    /\ line[i].type \in AnswerTypes => line[i].of \in Refreshers /\ line[i].state.said <= MaxSaid
    /\ line[i].type = "agent_end" => line[i].of \in Runs

IsSent(i, t, x) == i \in DOMAIN line /\ line[i].type = t /\ line[i].of = x
IsAsked(i, t, x) == i \in DOMAIN inbox /\ inbox[i].type = t /\ inbox[i].of = x
OnItsWay(t, x) == (\E i \in Nat : IsSent(i, t, x)) \/ (\E i \in Nat : IsAsked(i, t, x))

\* Of a request there is one, on its way to the process or back.
AskedOnce ==
  \A t \in AnswerTypes, x \in Refreshers :
    /\ \A i, j \in Nat : IsSent(i, t, x) /\ IsSent(j, t, x) => i = j
    /\ \A i, j \in Nat : IsAsked(i, t, x) /\ IsAsked(j, t, x) => i = j
    /\ \A i, j \in Nat : ~(IsSent(i, t, x) /\ IsAsked(j, t, x))

\* A refresh waits for what is on its way, and is resolved once it has both.
IsResolved(x) == \E i \in DOMAIN resolved : resolved[i] = x
RefreshOK ==
  \A x \in Refreshers :
    /\ refreshes[x] # NoRefresh =>
         /\ refreshes[x].kind # "none"
         /\ (refreshes[x].got = NotYet <=> OnItsWay("get_state", x))
         /\ (~refreshes[x].stats <=> OnItsWay("get_session_stats", x))
         /\ (IsResolved(x) <=> refreshes[x].got # NotYet /\ refreshes[x].stats)
    /\ refreshes[x] = NoRefresh => ~IsResolved(x)
ResolvedOnce == \A i, j \in DOMAIN resolved : resolved[i] = resolved[j] => i = j

\* Nothing was asked for at the end of a run whose end was not read, and a run ends once.
NotAsked(x) == refreshes[x] = NoRefresh /\ \A t \in AnswerTypes : ~OnItsWay(t, x)
RunsEndOnce ==
  \A x \in Runs :
    /\ x > run \/ (x = run /\ agent.runs) => NotAsked(x) /\ \A i \in Nat : ~IsSent(i, "agent_end", x)
    /\ \A i, j \in Nat : IsSent(i, "agent_end", x) /\ IsSent(j, "agent_end", x) => i = j
    /\ \A i \in Nat : IsSent(i, "agent_end", x) => NotAsked(x)

\* What is so once the run is over.
IsSo(state) == ~state.runs /\ state.said = agent.said
IsOld(x) == refreshes[x].got # NotYet /\ ~IsSo(refreshes[x].got)
\* From here on the line tells of nothing else.
SoFrom(k) == \A i \in DOMAIN line : i >= k =>
  line[i].type \in CompactionTypes \/ (line[i].type \in AnswerTypes /\ IsSo(line[i].state))

EndIsTold == \E k \in DOMAIN line : IsSent(k, "agent_end", run) /\ SoFrom(k + 1)

\* The refresh of the end has not come, and what is older than it is handled before it.
IsBefore(x, y) == \E i, j \in DOMAIN resolved : resolved[i] = x /\ resolved[j] = y /\ i < j
IsAnsweredBefore(x, y) ==
  \/ \E i, j \in Nat : IsSent(i, "get_session_stats", x) /\ IsSent(j, "get_session_stats", y) /\ i < j
  \/ \E i, j \in Nat : IsAsked(i, "get_session_stats", x) /\ IsAsked(j, "get_session_stats", y) /\ i < j
  \/ \E i, j \in Nat : IsSent(i, "get_session_stats", x) /\ IsAsked(j, "get_session_stats", y)
EndIsAsked ==
  /\ run \in Runs /\ refreshes[run].kind = "all" /\ ~IsOld(run) /\ SoFrom(1)
  /\ \A x \in Refreshers : IsOld(x) =>
       IF IsResolved(run) THEN IsBefore(x, run) ELSE IsResolved(x) \/ IsAnsweredBefore(x, run)

EndIsKnown == IsSo(known) /\ SoFrom(1) /\ \A x \in Refreshers : ~IsOld(x)

\* The last end is on the line, or its refresh is under way, or is what is known.
EndInv == ~agent.runs /\ run \notin missed => EndIsTold \/ EndIsAsked \/ EndIsKnown

\* What is read of a message grows into what was said of it.
Grown(type, p) ==
  CASE type = "message_start" -> 1
    [] type = "message_update" -> p + 1
    [] type \in {"message_end", "agent_end"} -> 0
    [] OTHER -> p
TextComes == \E f \in [0 .. Len(line) -> Nat] :
  /\ f[0] = partial /\ f[Len(line)] = agent.text
  /\ \A i \in 1 .. Len(line) : f[i] = Grown(line[i].type, f[i - 1])

FollowsAll == follower \in {Nobody, partial}

FramesInv == /\ FramesTypeOK /\ AgentOK /\ AnswersOK /\ AskedOnce /\ RefreshOK /\ ResolvedOnce /\ RunsEndOnce
             /\ EndInv /\ TextComes /\ FollowsAll /\ ShownShellsRun

------------------------------------------------------------------------------
(* Where it begins, and what it is about *)

LEMMA FramesBegin == OmpFramesInit => FramesInv
<1> SUFFICES ASSUME OmpFramesInit PROVE FramesInv
  OBVIOUS
<1> USE DEF OmpFramesInit
<1>1. /\ Len(line) = 0 /\ Len(inbox) = 0 /\ Len(resolved) = 0 /\ DOMAIN line = {} /\ DOMAIN inbox = {} /\ DOMAIN resolved = {}
      /\ NoRefresh \in RefreshRecords /\ known \in KnownStates
  BY FramesAssumption DEF NoRefresh, NotYet, RefreshRecords, KnownStates, StateOf
<1>2. FramesTypeOK /\ AgentOK /\ AnswersOK
  BY <1>1, FramesAssumption DEF FramesTypeOK, AgentOK, AnswersOK, OnLine, OnInbox
<1>3. \A t, x : \A i \in Nat : ~IsSent(i, t, x) /\ ~IsAsked(i, t, x)
  BY <1>1 DEF IsSent, IsAsked
<1>4. AskedOnce /\ RefreshOK /\ ResolvedOnce /\ RunsEndOnce
  <2>1. \A x \in Refreshers : refreshes[x] = NoRefresh
    OBVIOUS
  <2>2. \A t, x : ~OnItsWay(t, x)
    BY <1>3 DEF OnItsWay
  <2>3. \A x : ~IsResolved(x)
    BY <1>1 DEF IsResolved
  <2>4. Runs \subseteq Refreshers
    BY DEF Refreshers
  <2>5. AskedOnce
    BY <1>3 DEF AskedOnce
  <2>6. RefreshOK
    BY <2>1, <2>3 DEF RefreshOK
  <2>7. ResolvedOnce
    BY <1>1 DEF ResolvedOnce
  <2>8. RunsEndOnce
    BY <1>3, <2>1, <2>2, <2>4 DEF RunsEndOnce, NotAsked
  <2> QED BY <2>5, <2>6, <2>7, <2>8
<1>5. EndInv
  BY <1>1 DEF EndInv, EndIsKnown, SoFrom, IsSo, IsOld, NoRefresh, StateOf
<1>6. TextComes
  <2> DEFINE f == [n \in 0 .. 0 |-> 0]
  <2>1. f \in [0 .. Len(line) -> Nat] /\ f[0] = partial /\ f[Len(line)] = agent.text /\ 1 .. Len(line) = {}
    BY <1>1
  <2> HIDE DEF f
  <2> QED BY <2>1 DEF TextComes
<1>7. FollowsAll /\ ShownShellsRun
  BY DEF FollowsAll, ShownShellsRun
<1> QED BY <1>2, <1>4, <1>5, <1>6, <1>7 DEF FramesInv

\* The invariant, but for what clients see, is about these.
framesInside == <<agent, run, line, inbox, known, partial, refreshes, resolved, missed>>

LEMMA FramesRest ==
  ASSUME FramesInv, UNCHANGED framesInside, FollowsAll', ShownShellsRun'
  PROVE  FramesInv'
<1>1. FramesTypeOK' /\ AgentOK' /\ AnswersOK'
  BY DEF FramesInv, framesInside, FramesTypeOK, AgentOK, AnswersOK
<1>2. AskedOnce' /\ RefreshOK' /\ ResolvedOnce' /\ RunsEndOnce'
  BY DEF FramesInv, framesInside, AskedOnce, RefreshOK, ResolvedOnce, RunsEndOnce, NotAsked, OnItsWay, IsSent, IsAsked, IsResolved
<1>3. EndInv'
  BY DEF FramesInv, framesInside, EndInv, EndIsTold, EndIsAsked, EndIsKnown, SoFrom, IsSo, IsOld,
         IsSent, IsAsked, IsResolved, IsBefore, IsAnsweredBefore
<1>4. TextComes'
  BY DEF FramesInv, framesInside, TextComes
<1> QED BY <1>1, <1>2, <1>3, <1>4 DEF FramesInv

------------------------------------------------------------------------------
(* What a step puts on the line and takes off it *)

\* What is said comes last.
LEMMA SaysFacts ==
  ASSUME FramesTypeOK, run' \in 0 .. MaxRuns, NEW F \in Seq(FrameTypes), Says(F)
  PROVE  /\ line' \in Seq(OnLine) /\ Len(line') = Len(line) + Len(F)
         /\ \A i \in 1 .. Len(line) : line'[i] = line[i]
         /\ \A i \in 1 .. Len(F) : line'[Len(line) + i] = [type |-> F[i], of |-> run', state |-> NotYet]
<1> DEFINE G == [i \in DOMAIN F |-> [type |-> F[i], of |-> run', state |-> NotYet]]
<1>1. G \in Seq(OnLine) /\ Len(G) = Len(F) /\ \A i \in 1 .. Len(F) : G[i] = [type |-> F[i], of |-> run', state |-> NotYet]
  <2>1. \A i \in DOMAIN F : F[i] \in FrameTypes
    OBVIOUS
  <2>2. run' \in Refreshers \union {0} /\ NotYet \in KnownStates
    BY FramesAssumption DEF Refreshers, Runs, NotYet, KnownStates
  <2>3. DOMAIN F = 1 .. Len(F) /\ Len(F) \in Nat
    OBVIOUS
  <2>4. \A i \in 1 .. Len(F) : G[i] = [type |-> F[i], of |-> run', state |-> NotYet] /\ G[i] \in OnLine
    BY <2>1, <2>2, <2>3 DEF OnLine
  <2>5. G \in [1 .. Len(F) -> OnLine]
    <3>1. G = [i \in 1 .. Len(F) |-> G[i]]
      BY <2>3
    <3> HIDE DEF G
    <3> QED BY <3>1, <2>4
  <2> HIDE DEF G
  <2> QED BY <2>3, <2>4, <2>5
<1>2. line' = line \o G
  BY DEF Says
<1>3. line \in Seq(OnLine)
  BY DEF FramesTypeOK
<1> HIDE DEF G
<1>4. (line \o G) \in Seq(OnLine) /\ Len(line \o G) = Len(line) + Len(F)
  BY <1>1, <1>3
<1>5. \A i \in 1 .. Len(line) : (line \o G)[i] = line[i]
  BY <1>1, <1>3
<1>6. \A i \in 1 .. Len(F) : (line \o G)[Len(line) + i] = G[i]
  BY <1>1, <1>3
<1> QED BY <1>1, <1>2, <1>4, <1>5, <1>6

LEMMA AnswerFacts ==
  ASSUME FramesTypeOK, AgentOK, ProcessAnswers
  PROVE  /\ line' \in Seq(OnLine) /\ inbox' \in Seq(OnInbox)
         /\ Len(line') = Len(line) + 1 /\ Len(inbox) > 0 /\ Len(inbox') = Len(inbox) - 1
         /\ \A i \in 1 .. Len(line) : line'[i] = line[i]
         /\ \A i \in 1 .. Len(inbox') : inbox'[i] = inbox[i + 1]
         /\ inbox[1] \in OnInbox
         /\ line'[Len(line) + 1] = [type |-> inbox[1].type, of |-> inbox[1].of, state |-> StateOf(agent)]
<1> DEFINE a == [type |-> Head(inbox).type, of |-> Head(inbox).of, state |-> StateOf(agent)]
<1>1. inbox # <<>> /\ inbox' = Tail(inbox) /\ line' = Append(line, a) /\ inbox \in Seq(OnInbox) /\ line \in Seq(OnLine)
  BY DEF ProcessAnswers, FramesTypeOK
<1>2. Head(inbox) \in OnInbox /\ Head(inbox) = inbox[1]
  BY <1>1
<1>3. a \in OnLine
  BY <1>2 DEF OnLine, OnInbox, FramesTypeOK, StateOf, KnownStates
<1>4. a = [type |-> inbox[1].type, of |-> inbox[1].of, state |-> StateOf(agent)]
  BY <1>2
<1> HIDE DEF a
<1> QED BY <1>1, <1>2, <1>3, <1>4

LEMMA ReadFacts ==
  ASSUME FramesTypeOK, line # <<>>, line' = Tail(line)
  PROVE  /\ line' \in Seq(OnLine) /\ Len(line') = Len(line) - 1 /\ Len(line) \in Nat \ {0}
         /\ \A i \in 1 .. Len(line') : line'[i] = line[i + 1]
         /\ Head(line) = line[1] /\ line[1] \in OnLine
<1>1. line \in Seq(OnLine)
  BY DEF FramesTypeOK
<1> QED BY <1>1

LEMMA SaysWay ==
  ASSUME FramesTypeOK, run' \in 0 .. MaxRuns, NEW F \in Seq(FrameTypes), Says(F), UNCHANGED inbox
  PROVE  /\ \A i \in Nat, t \in AnswerTypes : \A x : IsSent(i, t, x)' <=> IsSent(i, t, x)
         /\ \A i \in Nat : \A t, x : IsAsked(i, t, x)' <=> IsAsked(i, t, x)
         /\ \A t \in AnswerTypes : \A x : OnItsWay(t, x)' <=> OnItsWay(t, x)
         /\ \A i \in Nat : \A x : IsSent(i, "agent_end", x)'
              <=> \/ IsSent(i, "agent_end", x)
                  \/ i > Len(line) /\ i - Len(line) \in DOMAIN F /\ F[i - Len(line)] = "agent_end" /\ x = run'
<1>1. /\ line' \in Seq(OnLine) /\ line \in Seq(OnLine) /\ Len(line') = Len(line) + Len(F) /\ Len(line) \in Nat
      /\ DOMAIN line = 1 .. Len(line) /\ DOMAIN line' = 1 .. Len(line')
  BY SaysFacts DEF FramesTypeOK
<1>2. DOMAIN F = 1 .. Len(F) /\ Len(F) \in Nat /\ \A i \in 1 .. Len(F) : F[i] \in FrameTypes
  OBVIOUS
<1>3. \A i \in 1 .. Len(line) : line'[i] = line[i]
  BY SaysFacts
<1>4. \A i \in 1 .. Len(F) : line'[Len(line) + i].type = F[i] /\ line'[Len(line) + i].of = run'
  <2>1. \A i \in 1 .. Len(F) : line'[Len(line) + i] = [type |-> F[i], of |-> run', state |-> NotYet]
    BY SaysFacts
  <2>2. ASSUME NEW i \in 1 .. Len(F) PROVE line'[Len(line) + i].type = F[i] /\ line'[Len(line) + i].of = run'
    <3>1. line'[Len(line) + i] = [type |-> F[i], of |-> run', state |-> NotYet]
      BY <2>1
    <3> QED BY <3>1
  <2> QED BY <2>2
<1>5. ASSUME NEW i \in Nat, i > Len(line), i <= Len(line')
      PROVE  line'[i].type = F[i - Len(line)] /\ line'[i].of = run' /\ line'[i].type \in FrameTypes /\ i - Len(line) \in 1 .. Len(F)
  <2> DEFINE j == i - Len(line)
  <2>1. j \in 1 .. Len(F) /\ Len(line) + j = i
    BY <1>1, <1>2, <1>5
  <2> HIDE DEF j
  <2>2. line'[i].type = F[j] /\ line'[i].of = run' /\ F[j] \in FrameTypes
    BY <2>1, <1>2, <1>4
  <2> QED BY <2>1, <2>2 DEF j
<1>6. ASSUME NEW i \in Nat, NEW t \in AnswerTypes, NEW x PROVE IsSent(i, t, x)' <=> IsSent(i, t, x)
  BY SMTT(60), <1>1, <1>2, <1>3, <1>5 DEF IsSent, AnswerTypes, FrameTypes
<1>7. \A i \in Nat : \A t, x : IsAsked(i, t, x)' <=> IsAsked(i, t, x)
  BY DEF IsAsked
<1>8. \A t \in AnswerTypes : \A x : OnItsWay(t, x)' <=> OnItsWay(t, x)
  BY <1>6, <1>7 DEF OnItsWay
<1>9. ASSUME NEW i \in Nat, NEW x
      PROVE  IsSent(i, "agent_end", x)'
               <=> \/ IsSent(i, "agent_end", x)
                   \/ i > Len(line) /\ i - Len(line) \in DOMAIN F /\ F[i - Len(line)] = "agent_end" /\ x = run'
  BY <1>1, <1>2, <1>3, <1>5 DEF IsSent
<1> QED BY <1>6, <1>7, <1>8, <1>9

\* What a step of the process does to it and says.
Spoken(F) ==
  /\ \/ run' = run + 1 /\ ~agent.runs /\ agent'.runs /\ \A i \in DOMAIN F : F[i] # "agent_end"
     \/ run' = run /\ agent.runs /\ ~agent'.runs /\ F = <<"agent_end">>
     \/ run' = run /\ agent.runs /\ agent'.runs /\ \A i \in DOMAIN F : F[i] # "agent_end"
     \/ run' = run /\ ~agent.runs /\ ~agent'.runs /\ agent'.said = agent.said /\ Len(F) = 1 /\ F[1] \in CompactionTypes
  /\ \/ Len(F) = 1 /\ agent'.text = Grown(F[1], agent.text)
     \/ Len(F) = 2 /\ agent'.text = Grown(F[2], Grown(F[1], agent.text))

LEMMA SpeaksFacts ==
  ASSUME FramesTypeOK, AgentOK, ProcessSpeaks
  PROVE  /\ agent' \in [runs : BOOLEAN, compacts : BOOLEAN, said : Nat, text : Nat] /\ run' \in 0 .. MaxRuns
         /\ AgentOK'
         /\ \E F \in Seq(FrameTypes) : Says(F) /\ Spoken(F)
<1>1. /\ agent \in [runs : BOOLEAN, compacts : BOOLEAN, said : Nat, text : Nat] /\ run \in 0 .. MaxRuns
      /\ MaxRuns \in Nat /\ MaxSaid \in Nat
  BY FramesAssumption DEF FramesTypeOK
<1> DEFINE Goal == /\ agent' \in [runs : BOOLEAN, compacts : BOOLEAN, said : Nat, text : Nat] /\ run' \in 0 .. MaxRuns
                   /\ AgentOK'
                   /\ \E F \in Seq(FrameTypes) : Says(F) /\ Spoken(F)
<1> USE DEF AgentOK, Runs
<1>2. ASSUME AgentStarts PROVE Goal
  <2>1. <<"agent_start">> \in Seq(FrameTypes) /\ Says(<<"agent_start">>)
    BY <1>2 DEF AgentStarts, FrameTypes
  <2>2. Spoken(<<"agent_start">>)
    BY <1>1, <1>2 DEF AgentStarts, Spoken, Grown
  <2>8. ~agent.runs /\ run < MaxRuns /\ run' = run + 1 /\ agent' = [agent EXCEPT !.runs = TRUE]
    BY <1>2 DEF AgentStarts
  <2>4. agent' \in [runs : BOOLEAN, compacts : BOOLEAN, said : Nat, text : Nat] /\ run' \in 0 .. MaxRuns
    <3>1. agent' \in [runs : BOOLEAN, compacts : BOOLEAN, said : Nat, text : Nat]
      BY <1>1, <2>8
    <3>2. run' \in 0 .. MaxRuns
      BY <1>1, <2>8
    <3> QED BY <3>1, <3>2
  <2>9. agent'.runs = TRUE /\ agent'.said = agent.said /\ agent'.text = agent.text
    BY <1>1, <2>8
  <2>7. agent'.runs /\ agent'.said = agent.said /\ agent'.text = agent.text /\ agent.text = 0 /\ run' \in 1 .. MaxRuns
    BY <1>1, <2>8, <2>9
  <2>5. AgentOK'
    BY <1>1, <2>4, <2>7
  <2>6. \E F \in Seq(FrameTypes) : Says(F) /\ Spoken(F)
    BY <2>1, <2>2
  <2> QED BY <2>4, <2>5, <2>6
<1>3. ASSUME AgentEnds PROVE Goal
  <2>1. <<"agent_end">> \in Seq(FrameTypes) /\ Says(<<"agent_end">>)
    BY <1>3 DEF AgentEnds, FrameTypes
  <2>2. Spoken(<<"agent_end">>)
    BY <1>1, <1>3 DEF AgentEnds, Spoken, Grown
  <2>4. agent' \in [runs : BOOLEAN, compacts : BOOLEAN, said : Nat, text : Nat] /\ run' \in 0 .. MaxRuns
    BY <1>1, <1>3 DEF AgentEnds
  <2>5. AgentOK'
    BY <1>1, <1>3 DEF AgentEnds
  <2>6. \E F \in Seq(FrameTypes) : Says(F) /\ Spoken(F)
    BY <2>1, <2>2
  <2> QED BY <2>4, <2>5, <2>6
<1>4. ASSUME MessageStarts PROVE Goal
  <2>1. <<"message_start">> \in Seq(FrameTypes) /\ Says(<<"message_start">>)
    BY <1>4 DEF MessageStarts, FrameTypes
  <2>2. Spoken(<<"message_start">>)
    BY <1>1, <1>4 DEF MessageStarts, Spoken, Grown
  <2>4. agent' \in [runs : BOOLEAN, compacts : BOOLEAN, said : Nat, text : Nat] /\ run' \in 0 .. MaxRuns
    BY <1>1, <1>4 DEF MessageStarts
  <2>5. AgentOK'
    BY <1>1, <1>4 DEF MessageStarts
  <2>6. \E F \in Seq(FrameTypes) : Says(F) /\ Spoken(F)
    BY <2>1, <2>2
  <2> QED BY <2>4, <2>5, <2>6
<1>5. ASSUME TextGrows PROVE Goal
  <2>1. <<"message_update">> \in Seq(FrameTypes) /\ Says(<<"message_update">>)
    BY <1>5 DEF TextGrows, FrameTypes
  <2>3. MaxText - 1 \in Int /\ agent.text > 0 /\ agent.runs
    BY <1>1, <1>5, FramesAssumption DEF TextGrows
  <2>2. Spoken(<<"message_update">>)
    BY <1>1, <1>5, <2>3 DEF TextGrows, Spoken, Grown
  <2>4. agent' \in [runs : BOOLEAN, compacts : BOOLEAN, said : Nat, text : Nat] /\ run' \in 0 .. MaxRuns
    BY <1>1, <1>5, <2>3 DEF TextGrows
  <2>5. AgentOK'
    BY <1>1, <1>5, <2>3 DEF TextGrows
  <2>6. \E F \in Seq(FrameTypes) : Says(F) /\ Spoken(F)
    BY <2>1, <2>2
  <2> QED BY <2>4, <2>5, <2>6
<1>6. ASSUME MessageIsOver PROVE Goal
  <2>1. <<"message_end">> \in Seq(FrameTypes) /\ Says(<<"message_end">>)
    BY <1>6 DEF MessageIsOver, FrameTypes
  <2>3. agent.runs
    BY <1>1, <1>6 DEF MessageIsOver
  <2>2. Spoken(<<"message_end">>)
    BY <1>1, <1>6, <2>3 DEF MessageIsOver, Spoken, Grown
  <2>8. agent.text > 0 /\ run' = run /\ agent' = [agent EXCEPT !.text = 0, !.said = @ + 1]
    BY <1>6 DEF MessageIsOver
  <2>4. agent' \in [runs : BOOLEAN, compacts : BOOLEAN, said : Nat, text : Nat] /\ run' \in 0 .. MaxRuns
    <3>3. agent = [runs |-> agent.runs, compacts |-> agent.compacts, said |-> agent.said, text |-> agent.text]
      BY <1>1
    <3>4. agent' = [runs |-> agent.runs, compacts |-> agent.compacts, said |-> agent.said + 1, text |-> 0]
      BY <2>8, <3>3
    <3>1. agent' \in [runs : BOOLEAN, compacts : BOOLEAN, said : Nat, text : Nat]
      BY <1>1, <3>4
    <3>2. run' \in 0 .. MaxRuns
      BY <1>1, <2>8
    <3> QED BY <3>1, <3>2
  <2>9. agent'.runs = agent.runs /\ agent'.said = agent.said + 1 /\ agent'.text = 0
    BY <1>1, <2>8
  <2>7. agent'.runs /\ agent'.said = agent.said + 1 /\ agent'.text = 0 /\ agent.said < MaxSaid /\ run' = run
    BY <1>1, <2>3, <2>8, <2>9
  <2>5. AgentOK'
    BY <1>1, <2>3, <2>4, <2>7
  <2>6. \E F \in Seq(FrameTypes) : Says(F) /\ Spoken(F)
    BY <2>1, <2>2
  <2> QED BY <2>4, <2>5, <2>6
<1>7. ASSUME OthersSpeak PROVE Goal
  <2>1. <<"other_start", "message_end">> \in Seq(FrameTypes) /\ Says(<<"other_start", "message_end">>)
    BY <1>7 DEF OthersSpeak, FrameTypes
  <2>2. Spoken(<<"other_start", "message_end">>)
    BY <1>1, <1>7 DEF OthersSpeak, Spoken, Grown
  <2>4. agent' \in [runs : BOOLEAN, compacts : BOOLEAN, said : Nat, text : Nat] /\ run' \in 0 .. MaxRuns
    BY <1>1, <1>7 DEF OthersSpeak
  <2>5. AgentOK'
    BY <1>1, <1>7 DEF OthersSpeak
  <2>6. \E F \in Seq(FrameTypes) : Says(F) /\ Spoken(F)
    BY <2>1, <2>2
  <2> QED BY <2>4, <2>5, <2>6
<1>8. ASSUME AutoCompaction PROVE Goal
  <2>1. PICK f \in CompactionTypes : Says(<<f>>) /\ UNCHANGED run /\ agent' = [agent EXCEPT !.compacts = ~@] /\ agent.text = 0
    BY <1>8 DEF AutoCompaction, CompactionTypes
  <2>2. <<f>> \in Seq(FrameTypes) /\ Len(<<f>>) = 1 /\ <<f>>[1] = f /\ f # "agent_end"
    BY DEF CompactionTypes, FrameTypes
  <2>3. agent'.text = Grown(f, agent.text)
    BY <1>1, <2>1 DEF Grown, CompactionTypes
  <2>4. agent'.runs = agent.runs /\ agent'.said = agent.said
    BY <1>1, <2>1
  <2>5. DOMAIN <<f>> = {1}
    OBVIOUS
  <2>6. \A i \in DOMAIN <<f>> : <<f>>[i] # "agent_end"
    BY <2>2, <2>5
  <2> DEFINE F == <<f>>
  <2>7. Len(F) = 1 /\ F[1] = f /\ F \in Seq(FrameTypes) /\ Says(F) /\ \A i \in DOMAIN F : F[i] # "agent_end"
    BY <2>1, <2>2, <2>6
  <2> HIDE DEF F
  <2>8. Spoken(F)
    BY <1>1, <2>1, <2>3, <2>4, <2>7 DEF Spoken
  <2> QED BY <1>1, <2>1, <2>4, <2>7, <2>8
<1> QED BY <1>2, <1>3, <1>4, <1>5, <1>6, <1>7, <1>8 DEF ProcessSpeaks

------------------------------------------------------------------------------
(* The process speaks and answers *)

\* What is on its way and resolved does not change when the process speaks.
LEMMA SpeaksKeeps ==
  ASSUME FramesInv, ProcessSpeaks
  PROVE  FramesInv'
<1>1. FramesTypeOK /\ AgentOK /\ AnswersOK /\ AskedOnce /\ RefreshOK /\ ResolvedOnce /\ RunsEndOnce /\ EndInv /\ TextComes
  BY DEF FramesInv
<1>2. UNCHANGED <<inbox, known, partial, refreshes, resolved, missed, shells, bash, follower>>
  BY DEF ProcessSpeaks, asking, shelling
<1>3. /\ agent' \in [runs : BOOLEAN, compacts : BOOLEAN, said : Nat, text : Nat] /\ run' \in 0 .. MaxRuns
      /\ AgentOK'
  BY <1>1, SpeaksFacts
<1>4. PICK F \in Seq(FrameTypes) : Says(F) /\ Spoken(F)
  BY <1>1, SpeaksFacts
<1>5. /\ line' \in Seq(OnLine) /\ Len(line') = Len(line) + Len(F)
      /\ \A i \in 1 .. Len(line) : line'[i] = line[i]
      /\ \A i \in 1 .. Len(F) : line'[Len(line) + i] = [type |-> F[i], of |-> run', state |-> NotYet]
  BY <1>1, <1>3, <1>4, SaysFacts
<1>6. /\ \A i \in Nat, t \in AnswerTypes : \A x : IsSent(i, t, x)' <=> IsSent(i, t, x)
      /\ \A i \in Nat : \A t, x : IsAsked(i, t, x)' <=> IsAsked(i, t, x)
      /\ \A t \in AnswerTypes : \A x : OnItsWay(t, x)' <=> OnItsWay(t, x)
  BY <1>1, <1>2, <1>3, <1>4, SaysWay
<1>7. \A i \in Nat : \A x : IsSent(i, "agent_end", x)'
        <=> \/ IsSent(i, "agent_end", x)
            \/ i > Len(line) /\ i - Len(line) \in DOMAIN F /\ F[i - Len(line)] = "agent_end" /\ x = run'
  BY <1>1, <1>2, <1>3, <1>4, SaysWay
<1>8. /\ Len(line) \in Nat /\ Len(F) \in Nat /\ DOMAIN line = 1 .. Len(line) /\ DOMAIN F = 1 .. Len(F)
      /\ DOMAIN line' = 1 .. Len(line') /\ \A i \in 1 .. Len(F) : F[i] \in FrameTypes
  BY <1>1, <1>4, <1>5 DEF FramesTypeOK
<1>9. \/ run' = run + 1 /\ ~agent.runs /\ agent'.runs /\ \A i \in DOMAIN F : F[i] # "agent_end"
      \/ run' = run /\ agent.runs /\ ~agent'.runs /\ F = <<"agent_end">>
      \/ run' = run /\ agent.runs /\ agent'.runs /\ \A i \in DOMAIN F : F[i] # "agent_end"
      \/ run' = run /\ ~agent.runs /\ ~agent'.runs /\ agent'.said = agent.said /\ Len(F) = 1 /\ F[1] \in CompactionTypes
  BY <1>4 DEF Spoken
<1>10. ASSUME NEW i \in DOMAIN line', i \notin DOMAIN line
       PROVE  /\ i - Len(line) \in 1 .. Len(F)
              /\ line'[i] = [type |-> F[i - Len(line)], of |-> run', state |-> NotYet]
              /\ F[i - Len(line)] \in FrameTypes
  <2> DEFINE j == i - Len(line)
  <2>1. j \in 1 .. Len(F) /\ Len(line) + j = i
    BY <1>5, <1>8, <1>10
  <2> HIDE DEF j
  <2>2. line'[i] = [type |-> F[j], of |-> run', state |-> NotYet] /\ F[j] \in FrameTypes
    BY <2>1, <1>5, <1>8
  <2> QED BY <2>1, <2>2 DEF j
<1>11. FramesTypeOK'
  BY <1>1, <1>2, <1>3, <1>5 DEF FramesTypeOK
<1>12. AnswersOK'
  <2> SUFFICES ASSUME NEW i \in DOMAIN line'
               PROVE  /\ line'[i].type \in AnswerTypes => line'[i].of \in Refreshers /\ line'[i].state.said <= MaxSaid
                      /\ line'[i].type = "agent_end" => line'[i].of \in Runs
    BY DEF AnswersOK
  <2>1. CASE i \in DOMAIN line
    BY <2>1, <1>1, <1>5, <1>8 DEF AnswersOK
  <2>2. CASE i \notin DOMAIN line
    <3>1. line'[i].type \in FrameTypes /\ line'[i].type = F[i - Len(line)] /\ line'[i].of = run' /\ i - Len(line) \in 1 .. Len(F)
      BY <2>2, <1>10
    <3>2. line'[i].type \notin AnswerTypes
      BY <3>1 DEF FrameTypes, AnswerTypes
    <3>3. ASSUME line'[i].type = "agent_end" PROVE run' \in Runs
      <4>1. \E j \in DOMAIN F : F[j] = "agent_end"
        BY <3>1, <3>3, <1>8
      <4>2. run' = run /\ (agent.runs \/ (F[1] \in CompactionTypes /\ Len(F) = 1))
        BY <4>1, <1>9
      <4>3. agent.runs
        BY <4>1, <4>2, <1>8 DEF CompactionTypes
      <4> QED BY <4>2, <4>3, <1>1 DEF AgentOK
    <3> QED BY <3>1, <3>2, <3>3
  <2> QED BY <2>1, <2>2
<1>13. AskedOnce'
  BY <1>1, <1>6 DEF AskedOnce
<1>14. RefreshOK' /\ ResolvedOnce'
  BY <1>1, <1>2, <1>6 DEF RefreshOK, ResolvedOnce, IsResolved, AnswerTypes
<1>15. RunsEndOnce'
  <2> SUFFICES ASSUME NEW x \in Runs
               PROVE  /\ x > run' \/ (x = run' /\ agent'.runs) => NotAsked(x)' /\ \A i \in Nat : ~IsSent(i, "agent_end", x)'
                      /\ \A i, j \in Nat : IsSent(i, "agent_end", x)' /\ IsSent(j, "agent_end", x)' => i = j
                      /\ \A i \in Nat : IsSent(i, "agent_end", x)' => NotAsked(x)'
    BY DEF RunsEndOnce
  <2>1. NotAsked(x)' <=> NotAsked(x)
    BY <1>2, <1>6 DEF NotAsked
  <2>2. /\ x > run \/ (x = run /\ agent.runs) => NotAsked(x) /\ \A i \in Nat : ~IsSent(i, "agent_end", x)
        /\ \A i, j \in Nat : IsSent(i, "agent_end", x) /\ IsSent(j, "agent_end", x) => i = j
        /\ \A i \in Nat : IsSent(i, "agent_end", x) => NotAsked(x)
    BY <1>1 DEF RunsEndOnce
  <2>3. x \in Nat /\ run \in Nat
    BY <1>1, FramesAssumption DEF Runs, FramesTypeOK
  <2>4. CASE \A i \in DOMAIN F : F[i] # "agent_end"
    <3>1. \A i \in Nat : IsSent(i, "agent_end", x)' <=> IsSent(i, "agent_end", x)
      BY <2>4, <1>7
    <3>2. x > run' \/ (x = run' /\ agent'.runs) => x > run \/ (x = run /\ agent.runs)
      BY <1>9, <2>3
    <3> QED BY <2>1, <2>2, <3>1, <3>2
  <2>5. CASE F = <<"agent_end">>
    <3>1. Len(F) = 1 /\ DOMAIN F = {1} /\ F[1] = "agent_end" /\ run' = run /\ agent.runs /\ ~agent'.runs
      BY <2>5, <1>9 DEF CompactionTypes
    <3>2. \A i \in Nat : IsSent(i, "agent_end", x)' <=> IsSent(i, "agent_end", x) \/ (i = Len(line) + 1 /\ x = run)
      BY <3>1, <1>7, <1>8
    <3> QED BY <2>1, <2>2, <2>3, <3>1, <3>2
  <2>6. \A i \in DOMAIN F : F[i] # "agent_end" \/ F = <<"agent_end">>
    BY <1>8, <1>9 DEF CompactionTypes
  <2> QED BY <2>4, <2>5, <2>6
<1>16. EndInv'
  <2>1. CASE agent'.runs
    BY <2>1 DEF EndInv
  <2>2. CASE F = <<"agent_end">> /\ ~agent'.runs /\ agent.runs
    <3>1. run' = run /\ Len(F) = 1 /\ DOMAIN F = {1} /\ F[1] = "agent_end"
      BY <2>2, <1>9
    <3>2. PICK n \in Nat : n = Len(line) + 1
      BY <1>8
    <3>3. PICK x \in Nat : x = run
      BY <1>1 DEF FramesTypeOK
    <3>4. IsSent(n, "agent_end", x)'
      BY <3>1, <3>2, <3>3, <1>7, <1>8
    <3>5. SoFrom(n + 1)'
      BY <3>1, <3>2, <1>5, <1>8 DEF SoFrom
    <3>6. n \in DOMAIN line'
      BY <3>1, <3>2, <1>5, <1>8
    <3>7. EndIsTold'
      BY <3>1, <3>3, <3>4, <3>5, <3>6 DEF EndIsTold
    <3> QED BY <3>7 DEF EndInv
  <2>3. CASE ~agent.runs /\ ~agent'.runs
    <3>1. run' = run /\ agent'.said = agent.said /\ Len(F) = 1 /\ F[1] \in CompactionTypes
      BY <2>3, <1>9
    <3>2. \A s : IsSo(s)' <=> IsSo(s)
      BY <3>1 DEF IsSo
    <3>3. \A x : IsOld(x)' <=> IsOld(x)
      BY <3>1, <1>2 DEF IsSo, IsOld
    <3>4. ASSUME NEW k \in Nat, SoFrom(k) PROVE SoFrom(k)'
      <4> SUFFICES ASSUME NEW i \in DOMAIN line', i >= k
                   PROVE  line'[i].type \in CompactionTypes \/ (line'[i].type \in AnswerTypes /\ IsSo(line'[i].state))
        BY <3>1 DEF SoFrom, IsSo
      <4>1. CASE i \in DOMAIN line
        <5>1. line'[i] = line[i]
          BY <4>1, <1>5, <1>8
        <5>2. line[i].type \in CompactionTypes \/ (line[i].type \in AnswerTypes /\ IsSo(line[i].state))
          BY <4>1, <3>4 DEF SoFrom
        <5> QED BY <5>1, <5>2
      <4>2. CASE i \notin DOMAIN line
        <5>1. line'[i] = [type |-> F[i - Len(line)], of |-> run', state |-> NotYet] /\ i - Len(line) \in 1 .. Len(F)
          BY <4>2, <1>10
        <5>2. i - Len(line) = 1
          BY <5>1, <3>1
        <5> QED BY <5>1, <5>2, <3>1
      <4> QED BY <4>1, <4>2
    <3>5. EndIsTold => EndIsTold'
      <4> SUFFICES ASSUME NEW k \in DOMAIN line, IsSent(k, "agent_end", run), SoFrom(k + 1) PROVE EndIsTold'
        BY DEF EndIsTold
      <4>1. k \in Nat /\ k + 1 \in Nat /\ k \in DOMAIN line'
        BY <1>5, <1>8
      <4>2. PICK x \in Nat : x = run
        BY <1>1 DEF FramesTypeOK
      <4>3. IsSent(k, "agent_end", x)'
        BY <4>1, <4>2, <1>7
      <4>4. SoFrom(k + 1)'
        BY <4>1, <3>4
      <4> QED BY <4>1, <4>2, <4>3, <4>4, <3>1 DEF EndIsTold
    <3>6. \A x, y : (IsBefore(x, y)' <=> IsBefore(x, y)) /\ (IsAnsweredBefore(x, y)' <=> IsAnsweredBefore(x, y)) /\ (IsResolved(x)' <=> IsResolved(x))
      BY <1>2, <1>6 DEF IsBefore, IsAnsweredBefore, IsResolved, AnswerTypes
    <3>7. EndIsAsked => EndIsAsked'
      BY <1>2, <3>1, <3>3, <3>4, <3>6 DEF EndIsAsked
    <3>8. EndIsKnown => EndIsKnown'
      BY <1>2, <3>1, <3>3, <3>4 DEF EndIsKnown, IsSo
    <3> QED BY <1>1, <1>2, <2>3, <3>1, <3>5, <3>7, <3>8 DEF EndInv
  <2> QED BY <1>9, <2>1, <2>2, <2>3
<1>17. TextComes'
  <2>1. PICK f \in [0 .. Len(line) -> Nat] :
          /\ f[0] = partial /\ f[Len(line)] = agent.text
          /\ \A i \in 1 .. Len(line) : f[i] = Grown(line[i].type, f[i - 1])
    BY <1>1 DEF TextComes
  <2>2. \A t : \A p \in Nat : Grown(t, p) \in Nat
    BY DEF Grown
  <2>3. agent.text \in Nat /\ agent'.text \in Nat
    BY <1>1, <1>3 DEF FramesTypeOK
  <2>4. CASE Len(F) = 1 /\ agent'.text = Grown(F[1], agent.text)
    <3> DEFINE g == [i \in 0 .. Len(line') |-> IF i <= Len(line) THEN f[i] ELSE agent'.text]
    <3>1. g \in [0 .. Len(line') -> Nat]
      BY <2>3, <1>5, <1>8
    <3>2. g[0] = partial' /\ g[Len(line')] = agent'.text
      BY <2>1, <2>4, <1>2, <1>5, <1>8
    <3>3. ASSUME NEW i \in 1 .. Len(line') PROVE g[i] = Grown(line'[i].type, g[i - 1])
      <4>1. CASE i <= Len(line)
        <5>1. g[i] = f[i] /\ g[i - 1] = f[i - 1] /\ line'[i] = line[i] /\ i \in 1 .. Len(line)
          BY <4>1, <1>5, <1>8
        <5> HIDE DEF g
        <5> QED BY <5>1, <2>1
      <4>2. CASE i > Len(line)
        <5>1. i = Len(line) + 1 /\ i - 1 = Len(line)
          BY <4>2, <2>4, <1>5, <1>8
        <5>2. g[i] = agent'.text /\ g[i - 1] = agent.text
          BY <5>1, <2>1, <1>5, <1>8, <2>4
        <5>3. line'[i] = [type |-> F[1], of |-> run', state |-> NotYet]
          BY <5>1, <2>4, <1>5
        <5>4. line'[i].type = F[1]
          BY <5>3
        <5> HIDE DEF g
        <5> QED BY <5>2, <5>4, <2>4
      <4> QED BY <4>1, <4>2, <1>8
    <3> HIDE DEF g
    <3> QED BY <3>1, <3>2, <3>3 DEF TextComes
  <2>5. CASE Len(F) = 2 /\ agent'.text = Grown(F[2], Grown(F[1], agent.text))
    <3> DEFINE m == Grown(F[1], agent.text)
    <3> DEFINE g == [i \in 0 .. Len(line') |-> IF i <= Len(line) THEN f[i] ELSE IF i = Len(line) + 1 THEN m ELSE agent'.text]
    <3>0. m \in Nat /\ m = Grown(F[1], agent.text) /\ agent'.text = Grown(F[2], m)
      BY <2>2, <2>3, <2>5
    <3> HIDE DEF m
    <3>1. g \in [0 .. Len(line') -> Nat]
      BY <2>3, <1>5, <1>8, <3>0
    <3>2. g[0] = partial' /\ g[Len(line')] = agent'.text
      BY <2>1, <2>5, <1>2, <1>5, <1>8
    <3>3. ASSUME NEW i \in 1 .. Len(line') PROVE g[i] = Grown(line'[i].type, g[i - 1])
      <4>1. CASE i <= Len(line)
        <5>1. g[i] = f[i] /\ g[i - 1] = f[i - 1] /\ line'[i] = line[i] /\ i \in 1 .. Len(line)
          BY <4>1, <1>5, <1>8
        <5> HIDE DEF g
        <5> QED BY <5>1, <2>1
      <4>2. CASE i = Len(line) + 1
        <5>1. i - 1 = Len(line)
          BY <4>2, <1>8
        <5>2. g[i] = m /\ g[i - 1] = agent.text
          BY <4>2, <5>1, <2>1, <1>5, <1>8, <2>5
        <5>3. line'[i] = [type |-> F[1], of |-> run', state |-> NotYet]
          BY <4>2, <2>5, <1>5
        <5>4. line'[i].type = F[1]
          BY <5>3
        <5> HIDE DEF g
        <5> QED BY <5>2, <5>4, <3>0
      <4>3. CASE i = Len(line) + 2
        <5>1. i - 1 = Len(line) + 1
          BY <4>3, <1>8
        <5>2. g[i] = agent'.text /\ g[i - 1] = m
          BY <4>3, <5>1, <1>5, <1>8, <2>5
        <5>3. line'[i] = [type |-> F[2], of |-> run', state |-> NotYet]
          BY <4>3, <2>5, <1>5
        <5>4. line'[i].type = F[2]
          BY <5>3
        <5> HIDE DEF g
        <5> QED BY <5>2, <5>4, <3>0
      <4> QED BY <4>1, <4>2, <4>3, <1>5, <1>8, <2>5
    <3> HIDE DEF g
    <3> QED BY <3>1, <3>2, <3>3 DEF TextComes
  <2> QED BY <2>4, <2>5, <1>4 DEF Spoken
<1>18. FollowsAll' /\ ShownShellsRun'
  BY <1>2 DEF FramesInv, FollowsAll, ShownShellsRun
<1> QED BY <1>3, <1>11, <1>12, <1>13, <1>14, <1>15, <1>16, <1>17, <1>18 DEF FramesInv

\* An answer takes the place of its request, behind all that was said.
LEMMA AnswerWay ==
  ASSUME FramesTypeOK, AgentOK, ProcessAnswers
  PROVE  /\ \A i \in Nat : \A t, x : IsSent(i, t, x)' <=> IsSent(i, t, x) \/ (i = Len(line) + 1 /\ IsAsked(1, t, x))
         /\ \A i \in Nat : \A t, x : IsAsked(i, t, x)' <=> i # 0 /\ IsAsked(i + 1, t, x)
         /\ \A t, x : OnItsWay(t, x)' <=> OnItsWay(t, x)
         /\ inbox[1].type \in AnswerTypes /\ inbox[1].of \in Refreshers
<1>1. /\ line \in Seq(OnLine) /\ inbox \in Seq(OnInbox) /\ line' \in Seq(OnLine) /\ inbox' \in Seq(OnInbox)
      /\ Len(line') = Len(line) + 1 /\ Len(inbox) > 0 /\ Len(inbox') = Len(inbox) - 1
      /\ \A i \in 1 .. Len(line) : line'[i] = line[i]
      /\ \A i \in 1 .. Len(inbox') : inbox'[i] = inbox[i + 1]
      /\ inbox[1] \in OnInbox
      /\ line'[Len(line) + 1] = [type |-> inbox[1].type, of |-> inbox[1].of, state |-> StateOf(agent)]
  BY AnswerFacts DEF FramesTypeOK
<1>2. /\ Len(line) \in Nat /\ Len(inbox) \in Nat /\ DOMAIN line = 1 .. Len(line) /\ DOMAIN line' = 1 .. Len(line')
      /\ DOMAIN inbox = 1 .. Len(inbox) /\ DOMAIN inbox' = 1 .. Len(inbox')
  BY <1>1
<1>3. line'[Len(line) + 1].type = inbox[1].type /\ line'[Len(line) + 1].of = inbox[1].of
  BY <1>1
<1>4. ASSUME NEW i \in Nat, NEW t, NEW x
      PROVE  IsSent(i, t, x)' <=> IsSent(i, t, x) \/ (i = Len(line) + 1 /\ IsAsked(1, t, x))
  <2>1. CASE i \in 1 .. Len(line)
    BY <2>1, <1>1, <1>2 DEF IsSent
  <2>2. CASE i = Len(line) + 1
    BY <2>2, <1>1, <1>2, <1>3 DEF IsSent, IsAsked
  <2>3. CASE i \notin 1 .. Len(line) /\ i # Len(line) + 1
    BY <2>3, <1>1, <1>2 DEF IsSent
  <2> QED BY <2>1, <2>2, <2>3
<1>5. ASSUME NEW i \in Nat, NEW t, NEW x
      PROVE  IsAsked(i, t, x)' <=> i # 0 /\ IsAsked(i + 1, t, x)
  <2>1. CASE i \in 1 .. Len(inbox')
    BY <2>1, <1>1, <1>2 DEF IsAsked
  <2>2. CASE i \notin 1 .. Len(inbox')
    BY <2>2, <1>1, <1>2 DEF IsAsked
  <2> QED BY <2>1, <2>2
<1>6. ASSUME NEW t, NEW x PROVE OnItsWay(t, x)' <=> OnItsWay(t, x)
  <2>1. ASSUME OnItsWay(t, x)' PROVE OnItsWay(t, x)
    <3>1. CASE \E i \in Nat : IsSent(i, t, x)'
      BY <3>1, <1>4 DEF OnItsWay
    <3>2. CASE \E i \in Nat : IsAsked(i, t, x)'
      BY <3>2, <1>5 DEF OnItsWay
    <3> QED BY <2>1, <3>1, <3>2 DEF OnItsWay
  <2>2. ASSUME OnItsWay(t, x) PROVE OnItsWay(t, x)'
    <3>1. CASE \E i \in Nat : IsSent(i, t, x)
      BY <3>1, <1>4 DEF OnItsWay
    <3>2. CASE \E i \in Nat : IsAsked(i, t, x)
      <4>1. PICK i \in Nat : IsAsked(i, t, x)
        BY <3>2
      <4>2. CASE i = 1
        <5>1. PICK n \in Nat : n = Len(line) + 1
          BY <1>2
        <5>2. IsSent(n, t, x)'
          BY <4>1, <4>2, <5>1, <1>4
        <5> QED BY <5>2 DEF OnItsWay
      <4>3. CASE i # 1
        <5>1. i # 0
          BY <4>1, <1>2 DEF IsAsked
        <5>2. i - 1 \in Nat /\ i - 1 # 0 /\ (i - 1) + 1 = i
          BY <4>3, <5>1
        <5>3. IsAsked(i - 1, t, x)'
          BY <4>1, <5>2, <1>5
        <5> QED BY <5>2, <5>3 DEF OnItsWay
      <4> QED BY <4>2, <4>3
    <3> QED BY <2>2, <3>1, <3>2 DEF OnItsWay
  <2> QED BY <2>1, <2>2
<1>7. inbox[1].type \in AnswerTypes /\ inbox[1].of \in Refreshers
  BY <1>1 DEF OnInbox
<1> QED BY <1>4, <1>5, <1>6, <1>7

LEMMA ProcessAnswersKeeps ==
  ASSUME FramesInv, ProcessAnswers
  PROVE  FramesInv'
<1>1. FramesTypeOK /\ AgentOK /\ AnswersOK /\ AskedOnce /\ RefreshOK /\ ResolvedOnce /\ RunsEndOnce /\ EndInv /\ TextComes
  BY DEF FramesInv
<1>2. UNCHANGED <<agent, run, known, partial, refreshes, resolved, missed, shells, bash, follower>>
  BY DEF ProcessAnswers, process, shelling
<1>3. /\ line \in Seq(OnLine) /\ line' \in Seq(OnLine) /\ inbox' \in Seq(OnInbox)
      /\ Len(line') = Len(line) + 1 /\ Len(line) \in Nat
      /\ \A i \in 1 .. Len(line) : line'[i] = line[i]
      /\ line'[Len(line) + 1] = [type |-> inbox[1].type, of |-> inbox[1].of, state |-> StateOf(agent)]
      /\ DOMAIN line = 1 .. Len(line) /\ DOMAIN line' = 1 .. Len(line')
  BY <1>1, AnswerFacts DEF FramesTypeOK
<1>4. inbox[1].type \in AnswerTypes /\ inbox[1].of \in Refreshers
  BY <1>1, AnswerWay
<1>5. \A i \in Nat : \A t, x : IsSent(i, t, x)' <=> IsSent(i, t, x) \/ (i = Len(line) + 1 /\ IsAsked(1, t, x))
  BY <1>1, AnswerWay
<1>6. \A i \in Nat : \A t, x : IsAsked(i, t, x)' <=> i # 0 /\ IsAsked(i + 1, t, x)
  BY <1>1, AnswerWay
<1>7. \A t, x : OnItsWay(t, x)' <=> OnItsWay(t, x)
  BY <1>1, AnswerWay
<1>8. line'[Len(line) + 1].type \in AnswerTypes /\ line'[Len(line) + 1].of \in Refreshers /\ line'[Len(line) + 1].state = StateOf(agent)
  BY <1>3, <1>4
<1>9. \A i \in Nat : \A t, x : IsSent(i, t, x) => i <= Len(line)
  BY <1>3 DEF IsSent
<1>10. FramesTypeOK' /\ AgentOK'
  BY <1>1, <1>2, <1>3 DEF FramesTypeOK, AgentOK
<1>11. AnswersOK'
  <2>1. line'[Len(line) + 1].state.said <= MaxSaid /\ line'[Len(line) + 1].type # "agent_end"
    BY <1>1, <1>8 DEF StateOf, AgentOK, AnswerTypes
  <2> SUFFICES ASSUME NEW i \in DOMAIN line'
               PROVE  /\ line'[i].type \in AnswerTypes => line'[i].of \in Refreshers /\ line'[i].state.said <= MaxSaid
                      /\ line'[i].type = "agent_end" => line'[i].of \in Runs
    BY DEF AnswersOK
  <2>2. CASE i \in DOMAIN line
    BY <2>2, <1>1, <1>3 DEF AnswersOK
  <2>3. CASE i = Len(line) + 1
    BY <2>1, <2>3, <1>8
  <2> QED BY <2>2, <2>3, <1>3
<1>12. AskedOnce'
  <2> SUFFICES ASSUME NEW t \in AnswerTypes, NEW x \in Refreshers
               PROVE  /\ \A i, j \in Nat : IsSent(i, t, x)' /\ IsSent(j, t, x)' => i = j
                      /\ \A i, j \in Nat : IsAsked(i, t, x)' /\ IsAsked(j, t, x)' => i = j
                      /\ \A i, j \in Nat : ~(IsSent(i, t, x)' /\ IsAsked(j, t, x)')
    BY DEF AskedOnce
  <2>1. /\ \A i, j \in Nat : IsSent(i, t, x) /\ IsSent(j, t, x) => i = j
        /\ \A i, j \in Nat : IsAsked(i, t, x) /\ IsAsked(j, t, x) => i = j
        /\ \A i, j \in Nat : ~(IsSent(i, t, x) /\ IsAsked(j, t, x))
    BY <1>1 DEF AskedOnce
  <2>2. \A i, j \in Nat : IsSent(i, t, x)' /\ IsSent(j, t, x)' => i = j
    BY <2>1, <1>5
  <2>3. \A i, j \in Nat : IsAsked(i, t, x)' /\ IsAsked(j, t, x)' => i = j
    <3> SUFFICES ASSUME NEW i \in Nat, NEW j \in Nat, IsAsked(i, t, x)', IsAsked(j, t, x)' PROVE i = j
      OBVIOUS
    <3>1. i + 1 \in Nat /\ j + 1 \in Nat /\ IsAsked(i + 1, t, x) /\ IsAsked(j + 1, t, x)
      BY <1>6
    <3>2. i + 1 = j + 1
      BY <3>1, <2>1
    <3> QED BY <3>2
  <2>4. ASSUME NEW i \in Nat, NEW j \in Nat, IsSent(i, t, x)', IsAsked(j, t, x)' PROVE FALSE
    <3>1. j + 1 \in Nat /\ IsAsked(j + 1, t, x) /\ j + 1 # 1
      BY <2>4, <1>6
    <3>2. IsSent(i, t, x) \/ IsAsked(1, t, x)
      BY <2>4, <1>5
    <3> QED BY <3>1, <3>2, <2>1
  <2> QED BY <2>2, <2>3, <2>4
<1>13. RefreshOK' /\ ResolvedOnce'
  BY <1>1, <1>2, <1>7 DEF RefreshOK, ResolvedOnce, IsResolved
<1>14. \A i \in Nat : \A x : IsSent(i, "agent_end", x)' <=> IsSent(i, "agent_end", x)
  <2>1. \A x : ~IsAsked(1, "agent_end", x)
    BY <1>4 DEF IsAsked, AnswerTypes
  <2>2. \A i \in Nat : \A x : IsSent(i, "agent_end", x)' <=> IsSent(i, "agent_end", x) \/ (i = Len(line) + 1 /\ IsAsked(1, "agent_end", x))
    BY <1>5
  <2> QED BY <2>1, <2>2
<1>15. RunsEndOnce'
  <2>1. \A x : NotAsked(x)' <=> NotAsked(x)
    BY <1>2, <1>7 DEF NotAsked
  <2> QED BY <1>1, <1>2, <1>14, <2>1 DEF RunsEndOnce
<1>16. EndInv'
  <2> SUFFICES ASSUME ~agent.runs, run \notin missed PROVE EndIsTold' \/ EndIsAsked' \/ EndIsKnown'
    BY <1>2 DEF EndInv
  <2>1. EndIsTold \/ EndIsAsked \/ EndIsKnown
    BY <1>1 DEF EndInv
  <2>2. IsSo(StateOf(agent))
    BY DEF IsSo, StateOf
  <2>3. \A x : IsOld(x)' <=> IsOld(x)
    BY <1>2 DEF IsOld, IsSo
  <2>4. ASSUME NEW k \in Nat, SoFrom(k) PROVE SoFrom(k)'
    <3> SUFFICES ASSUME NEW i \in DOMAIN line', i >= k
                 PROVE  line'[i].type \in CompactionTypes \/ (line'[i].type \in AnswerTypes /\ IsSo(line'[i].state))
      BY <1>2 DEF SoFrom, IsSo
    <3>1. CASE i \in DOMAIN line
      <4>1. line'[i] = line[i]
        BY <3>1, <1>3
      <4>2. line[i].type \in CompactionTypes \/ (line[i].type \in AnswerTypes /\ IsSo(line[i].state))
        BY <3>1, <2>4 DEF SoFrom
      <4> QED BY <4>1, <4>2
    <3>2. CASE i = Len(line) + 1
      BY <3>2, <1>8, <2>2
    <3> QED BY <3>1, <3>2, <1>3
  <2>5. EndIsTold => EndIsTold'
    <3> SUFFICES ASSUME NEW k \in DOMAIN line, IsSent(k, "agent_end", run), SoFrom(k + 1) PROVE EndIsTold'
      BY DEF EndIsTold
    <3>1. k \in Nat /\ k + 1 \in Nat /\ k \in DOMAIN line'
      BY <1>3
    <3>2. PICK x \in Nat : x = run
      BY <1>1 DEF FramesTypeOK
    <3>3. IsSent(k, "agent_end", x)'
      BY <3>1, <3>2, <1>14
    <3>4. SoFrom(k + 1)'
      BY <3>1, <2>4
    <3> QED BY <3>1, <3>2, <3>3, <3>4, <1>2 DEF EndIsTold
  <2>6. ASSUME NEW x, NEW y, IsAnsweredBefore(x, y) PROVE IsAnsweredBefore(x, y)'
    <3>1. CASE \E i, j \in Nat : IsSent(i, "get_session_stats", x) /\ IsSent(j, "get_session_stats", y) /\ i < j
      BY <3>1, <1>5 DEF IsAnsweredBefore
    <3>2. CASE \E i, j \in Nat : IsAsked(i, "get_session_stats", x) /\ IsAsked(j, "get_session_stats", y) /\ i < j
      <4>1. PICK i \in Nat, j \in Nat : IsAsked(i, "get_session_stats", x) /\ IsAsked(j, "get_session_stats", y) /\ i < j
        BY <3>2
      <4>2. i # 0
        <5>1. inbox \in Seq(OnInbox)
          BY <1>1 DEF FramesTypeOK
        <5> QED BY <4>1, <5>1 DEF IsAsked
      <4>3. j - 1 \in Nat /\ j - 1 # 0 /\ (j - 1) + 1 = j
        BY <4>1, <4>2
      <4>4. IsAsked(j - 1, "get_session_stats", y)'
        BY <4>1, <4>3, <1>6
      <4>5. CASE i = 1
        <5>1. PICK n \in Nat : n = Len(line) + 1
          BY <1>3
        <5>2. IsSent(n, "get_session_stats", x)'
          BY <4>1, <4>5, <5>1, <1>5
        <5> QED BY <4>3, <4>4, <5>2 DEF IsAnsweredBefore
      <4>6. CASE i # 1
        <5>1. i - 1 \in Nat /\ i - 1 # 0 /\ (i - 1) + 1 = i /\ i - 1 < j - 1
          BY <4>1, <4>2, <4>6
        <5>2. IsAsked(i - 1, "get_session_stats", x)'
          BY <4>1, <5>1, <1>6
        <5> QED BY <4>3, <4>4, <5>1, <5>2 DEF IsAnsweredBefore
      <4> QED BY <4>5, <4>6
    <3>3. CASE \E i, j \in Nat : IsSent(i, "get_session_stats", x) /\ IsAsked(j, "get_session_stats", y)
      <4>1. PICK i \in Nat, j \in Nat : IsSent(i, "get_session_stats", x) /\ IsAsked(j, "get_session_stats", y)
        BY <3>3
      <4>2. IsSent(i, "get_session_stats", x)' /\ i <= Len(line)
        BY <4>1, <1>5, <1>9
      <4>3. CASE j = 1
        <5>1. PICK n \in Nat : n = Len(line) + 1
          BY <1>3
        <5>2. IsSent(n, "get_session_stats", y)' /\ i < n
          BY <4>1, <4>2, <4>3, <5>1, <1>3, <1>5
        <5> QED BY <4>2, <5>2 DEF IsAnsweredBefore
      <4>4. CASE j # 1
        <5>1. j # 0
          <6>1. inbox \in Seq(OnInbox)
            BY <1>1 DEF FramesTypeOK
          <6> QED BY <4>1, <6>1 DEF IsAsked
        <5>2. j - 1 \in Nat /\ j - 1 # 0 /\ (j - 1) + 1 = j
          BY <4>4, <5>1
        <5>3. IsAsked(j - 1, "get_session_stats", y)'
          BY <4>1, <5>2, <1>6
        <5> QED BY <4>2, <5>2, <5>3 DEF IsAnsweredBefore
      <4> QED BY <4>3, <4>4
    <3> QED BY <2>6, <3>1, <3>2, <3>3 DEF IsAnsweredBefore
  <2>7. EndIsAsked => EndIsAsked'
    <3> SUFFICES ASSUME EndIsAsked PROVE EndIsAsked'
      OBVIOUS
    <3>1. run' \in Runs /\ refreshes'[run'].kind = "all" /\ ~IsOld(run)' /\ SoFrom(1)'
      BY <1>2, <2>3, <2>4 DEF EndIsAsked, IsOld, IsSo
    <3>2. PICK y \in Runs : y = run
      BY DEF EndIsAsked
    <3>3. \A x \in Refreshers : IsOld(x) => IF IsResolved(y) THEN IsBefore(x, y) ELSE IsResolved(x) \/ IsAnsweredBefore(x, y)
      BY <3>2 DEF EndIsAsked
    <3>4. \A x : (IsResolved(x)' <=> IsResolved(x)) /\ (IsBefore(x, y)' <=> IsBefore(x, y))
      BY <1>2 DEF IsResolved, IsBefore
    <3>5. \A x \in Refreshers : IsOld(x)' => IF IsResolved(y)' THEN IsBefore(x, y)' ELSE IsResolved(x)' \/ IsAnsweredBefore(x, y)'
      BY <3>3, <3>4, <2>3, <2>6
    <3>6. y = run'
      BY <3>2, <1>2
    <3> QED BY <3>1, <3>5, <3>6 DEF EndIsAsked
  <2>8. EndIsKnown => EndIsKnown'
    BY <1>2, <2>3, <2>4 DEF EndIsKnown, IsSo
  <2> QED BY <2>1, <2>5, <2>7, <2>8
<1>17. TextComes'
  <2>1. PICK f \in [0 .. Len(line) -> Nat] :
          /\ f[0] = partial /\ f[Len(line)] = agent.text
          /\ \A i \in 1 .. Len(line) : f[i] = Grown(line[i].type, f[i - 1])
    BY <1>1 DEF TextComes
  <2>2. agent.text \in Nat
    BY <1>1 DEF FramesTypeOK
  <2> DEFINE g == [i \in 0 .. Len(line') |-> IF i <= Len(line) THEN f[i] ELSE agent.text]
  <2>3. g \in [0 .. Len(line') -> Nat]
    BY <2>2, <1>3
  <2>4. g[0] = partial' /\ g[Len(line')] = agent'.text
    BY <2>1, <1>2, <1>3
  <2>5. ASSUME NEW i \in 1 .. Len(line') PROVE g[i] = Grown(line'[i].type, g[i - 1])
    <3>1. CASE i <= Len(line)
      <4>1. g[i] = f[i] /\ g[i - 1] = f[i - 1] /\ line'[i] = line[i] /\ i \in 1 .. Len(line)
        BY <3>1, <1>3
      <4> HIDE DEF g
      <4> QED BY <4>1, <2>1
    <3>2. CASE i = Len(line) + 1
      <4>1. i - 1 = Len(line)
        BY <3>2, <1>3
      <4>2. g[i] = agent.text /\ g[i - 1] = agent.text
        BY <3>2, <4>1, <2>1, <1>3
      <4> HIDE DEF g
      <4> QED BY <3>2, <4>2, <1>8 DEF Grown, AnswerTypes
    <3> QED BY <3>1, <3>2, <1>3
  <2> HIDE DEF g
  <2> QED BY <2>3, <2>4, <2>5 DEF TextComes
<1>18. FollowsAll' /\ ShownShellsRun'
  BY <1>2 DEF FramesInv, FollowsAll, ShownShellsRun
<1> QED BY <1>10, <1>11, <1>12, <1>13, <1>15, <1>16, <1>17, <1>18 DEF FramesInv

------------------------------------------------------------------------------
(* What reading and asking change *)

\* Reading takes the first of the line away.
LEMMA ReadWay ==
  ASSUME FramesTypeOK, line # <<>>, line' = Tail(line)
  PROVE  /\ \A i \in Nat : \A t, x : IsSent(i, t, x)' <=> i # 0 /\ IsSent(i + 1, t, x)
         /\ \A i \in Nat : \A t, x : IsSent(i, t, x) => i # 0 /\ (i = 1 \/ IsSent(i - 1, t, x)')
         /\ \A t, x : IsSent(1, t, x) <=> line[1].type = t /\ line[1].of = x
<1>1. /\ Len(line') = Len(line) - 1 /\ Len(line) \in Nat \ {0}
      /\ \A i \in 1 .. Len(line') : line'[i] = line[i + 1]
      /\ line' \in Seq(OnLine) /\ line \in Seq(OnLine)
  BY ReadFacts DEF FramesTypeOK
<1>2. DOMAIN line = 1 .. Len(line) /\ DOMAIN line' = 1 .. Len(line')
  BY <1>1
<1>3. ASSUME NEW i \in Nat, NEW t, NEW x PROVE IsSent(i, t, x)' <=> i # 0 /\ IsSent(i + 1, t, x)
  <2>1. CASE i \in 1 .. Len(line')
    BY <2>1, <1>1, <1>2 DEF IsSent
  <2>2. CASE i \notin 1 .. Len(line')
    BY <2>2, <1>1, <1>2 DEF IsSent
  <2> QED BY <2>1, <2>2
<1>4. ASSUME NEW i \in Nat, NEW t, NEW x, IsSent(i, t, x) PROVE i # 0 /\ (i = 1 \/ IsSent(i - 1, t, x)')
  <2>1. i # 0
    BY <1>2, <1>4 DEF IsSent
  <2>2. ASSUME i # 1 PROVE IsSent(i - 1, t, x)'
    <3>1. i - 1 \in Nat /\ i - 1 # 0 /\ (i - 1) + 1 = i
      BY <2>1, <2>2
    <3> QED BY <3>1, <1>3, <1>4
  <2> QED BY <2>1, <2>2
<1>5. \A t, x : IsSent(1, t, x) <=> line[1].type = t /\ line[1].of = x
  BY <1>1, <1>2 DEF IsSent
<1> QED BY <1>3, <1>4, <1>5

\* What is read of a message is taken off what is to come of it.
LEMMA ReadText ==
  ASSUME FramesTypeOK, TextComes, line # <<>>, line' = Tail(line), partial' = Grown(line[1].type, partial), agent' = agent
  PROVE  TextComes'
<1>1. /\ Len(line') = Len(line) - 1 /\ Len(line) \in Nat \ {0}
      /\ \A i \in 1 .. Len(line') : line'[i] = line[i + 1]
  BY ReadFacts
<1>2. PICK f \in [0 .. Len(line) -> Nat] :
        /\ f[0] = partial /\ f[Len(line)] = agent.text
        /\ \A i \in 1 .. Len(line) : f[i] = Grown(line[i].type, f[i - 1])
  BY DEF TextComes
<1> DEFINE g == [i \in 0 .. Len(line') |-> f[i + 1]]
<1>3. g \in [0 .. Len(line') -> Nat]
  BY <1>1
<1>4. g[0] = partial' /\ g[Len(line')] = agent'.text
  <2>1. f[1] = Grown(line[1].type, f[1 - 1]) /\ 1 - 1 = 0
    BY <1>1, <1>2
  <2>2. g[0] = f[1] /\ g[Len(line')] = f[Len(line)]
    BY <1>1
  <2> HIDE DEF g
  <2> QED BY <1>2, <2>1, <2>2
<1>5. ASSUME NEW i \in 1 .. Len(line') PROVE g[i] = Grown(line'[i].type, g[i - 1])
  <2>1. i + 1 \in 1 .. Len(line) /\ (i + 1) - 1 = i /\ i - 1 \in 0 .. Len(line') /\ (i - 1) + 1 = i
    BY <1>1
  <2>2. g[i] = f[i + 1] /\ g[i - 1] = f[i] /\ line'[i] = line[i + 1]
    BY <1>1, <2>1
  <2>3. f[i + 1] = Grown(line[i + 1].type, f[(i + 1) - 1])
    BY <1>2, <2>1
  <2> HIDE DEF g
  <2> QED BY <2>1, <2>2, <2>3
<1> HIDE DEF g
<1> QED BY <1>3, <1>4, <1>5 DEF TextComes

\* What is asked for comes last.
LEMMA AsksFacts ==
  ASSUME FramesTypeOK, NEW r \in Refreshers, NEW kind \in {"all", "state"}, AsksFor(r, kind)
  PROVE  /\ inbox' \in Seq(OnInbox) /\ refreshes' \in [Refreshers -> RefreshRecords]
         /\ refreshes'[r].kind = kind /\ refreshes'[r].got = NotYet /\ (refreshes'[r].stats <=> kind = "state")
         /\ \A x \in Refreshers \ {r} : refreshes'[x] = refreshes[x]
         /\ \A i \in Nat : \A t, x : IsAsked(i, t, x)'
              <=> \/ IsAsked(i, t, x)
                  \/ x = r /\ t = "get_state" /\ i = Len(inbox) + 1
                  \/ x = r /\ t = "get_session_stats" /\ kind = "all" /\ i = Len(inbox) + 2
         /\ Len(inbox) \in Nat /\ \A i \in Nat : \A t, x : IsAsked(i, t, x) => i \in 1 .. Len(inbox)
<1> DEFINE one == [type |-> "get_state", of |-> r]
           two == [type |-> "get_session_stats", of |-> r]
<1>1. one \in OnInbox /\ two \in OnInbox /\ inbox \in Seq(OnInbox)
  BY DEF OnInbox, AnswerTypes, FramesTypeOK
<1>2. one.type = "get_state" /\ one.of = r /\ two.type = "get_session_stats" /\ two.of = r
  OBVIOUS
<1>3. kind = "state" => inbox' = inbox \o <<one>>
  BY DEF AsksFor
<1>4. kind = "all" => inbox' = inbox \o <<one, two>>
  BY DEF AsksFor
<1>5. refreshes' = [refreshes EXCEPT ![r] = [NoRefresh EXCEPT !.kind = kind, !.stats = (kind = "state")]]
  BY DEF AsksFor
<1> DEFINE new == [NoRefresh EXCEPT !.kind = kind, !.stats = (kind = "state")]
<1>6. NoRefresh \in RefreshRecords /\ NoRefresh.got = NotYet
  BY FramesAssumption DEF NoRefresh, RefreshRecords, KnownStates, NotYet
<1>7. PICK b \in BOOLEAN : b = (kind = "state")
  OBVIOUS
<1>8. new \in RefreshRecords /\ new.kind = kind /\ new.got = NotYet /\ (new.stats <=> kind = "state")
  <2>1. new = [NoRefresh EXCEPT !.kind = kind, !.stats = b]
    BY <1>7
  <2> HIDE DEF new
  <2>2. kind \in {"none", "all", "state"}
    OBVIOUS
  <2>3. new \in RefreshRecords
    BY <1>6, <2>1, <2>2 DEF RefreshRecords
  <2>4. new.kind = kind
    BY <1>6, <2>1 DEF RefreshRecords
  <2>5. new.got = NotYet
    BY <1>6, <2>1 DEF RefreshRecords
  <2>6. new.stats = b
    BY <1>6, <2>1 DEF RefreshRecords
  <2> QED BY <2>3, <2>4, <2>5, <2>6, <1>7
<1>9. refreshes' = [refreshes EXCEPT ![r] = new] /\ refreshes \in [Refreshers -> RefreshRecords]
  BY <1>5 DEF FramesTypeOK
<1> HIDE DEF one, two, new
<1>10. refreshes' \in [Refreshers -> RefreshRecords] /\ refreshes'[r] = new /\ \A x \in Refreshers \ {r} : refreshes'[x] = refreshes[x]
  BY <1>8, <1>9
<1>11. Len(inbox) \in Nat /\ DOMAIN inbox = 1 .. Len(inbox)
  BY <1>1
<1>12. CASE kind = "state"
  <2>1. /\ inbox' \in Seq(OnInbox) /\ Len(inbox') = Len(inbox) + 1 /\ inbox'[Len(inbox) + 1] = one
        /\ \A i \in 1 .. Len(inbox) : inbox'[i] = inbox[i]
    BY <1>1, <1>3, <1>12
  <2>2. DOMAIN inbox' = 1 .. Len(inbox) + 1
    BY <2>1
  <2>3. \A i \in Nat : \A t, x : IsAsked(i, t, x)'
          <=> \/ IsAsked(i, t, x)
              \/ x = r /\ t = "get_state" /\ i = Len(inbox) + 1
    BY <2>1, <2>2, <1>2, <1>11 DEF IsAsked
  <2>4. \A i \in Nat : \A t, x : IsAsked(i, t, x) => i \in 1 .. Len(inbox)
    BY <1>11 DEF IsAsked
  <2> QED BY <2>1, <2>3, <2>4, <1>8, <1>10, <1>11, <1>12
<1>13. CASE kind = "all"
  <2>1. /\ inbox' \in Seq(OnInbox) /\ Len(inbox') = Len(inbox) + 2
        /\ inbox'[Len(inbox) + 1] = one /\ inbox'[Len(inbox) + 2] = two
        /\ \A i \in 1 .. Len(inbox) : inbox'[i] = inbox[i]
    BY <1>1, <1>4, <1>13
  <2>2. DOMAIN inbox' = 1 .. Len(inbox) + 2
    BY <2>1
  <2>3. \A i \in Nat : \A t, x : IsAsked(i, t, x)'
          <=> \/ IsAsked(i, t, x)
              \/ x = r /\ t = "get_state" /\ i = Len(inbox) + 1
              \/ x = r /\ t = "get_session_stats" /\ i = Len(inbox) + 2
    BY <2>1, <2>2, <1>2, <1>11 DEF IsAsked
  <2>4. \A i \in Nat : \A t, x : IsAsked(i, t, x) => i \in 1 .. Len(inbox)
    BY <1>11 DEF IsAsked
  <2> QED BY <2>1, <2>3, <2>4, <1>8, <1>10, <1>11, <1>13
<1> QED BY <1>12, <1>13

\* A refresh that begins waits for what it asks for.
LEMMA AskingKeeps ==
  ASSUME FramesTypeOK, AskedOnce, RefreshOK, ResolvedOnce, NEW r \in Refreshers, NEW kind \in {"all", "state"}, AsksFor(r, kind),
         NotAsked(r), NEW d \in {0, 1},
         \A i \in Nat, t \in AnswerTypes : \A x : IsSent(i, t, x)' <=> i # 0 /\ IsSent(i + d, t, x),
         \A t \in AnswerTypes : \A x : (\E i \in Nat : IsSent(i, t, x)') <=> (\E i \in Nat : IsSent(i, t, x))
  PROVE  AskedOnce' /\ RefreshOK' /\ ResolvedOnce' /\ \A t \in AnswerTypes : \A x : x # r => (OnItsWay(t, x)' <=> OnItsWay(t, x))
<1>1. /\ refreshes'[r].kind = kind /\ refreshes'[r].got = NotYet /\ (refreshes'[r].stats <=> kind = "state")
      /\ \A x \in Refreshers \ {r} : refreshes'[x] = refreshes[x]
  BY AsksFacts
<1>2. \A i \in Nat : \A t, x : IsAsked(i, t, x)'
              <=> \/ IsAsked(i, t, x)
                  \/ x = r /\ t = "get_state" /\ i = Len(inbox) + 1
                  \/ x = r /\ t = "get_session_stats" /\ kind = "all" /\ i = Len(inbox) + 2
  BY AsksFacts
<1>3. resolved' = resolved
  BY DEF AsksFor
<1>4. Len(inbox) \in Nat
  BY DEF FramesTypeOK
<1>5. \A t \in AnswerTypes : \A i \in Nat : ~IsSent(i, t, r) /\ ~IsAsked(i, t, r) /\ ~IsSent(i, t, r)'
  <2>1. \A t \in AnswerTypes : ~OnItsWay(t, r)
    BY DEF NotAsked
  <2>2. \A t \in AnswerTypes : \A i \in Nat : ~IsSent(i, t, r) /\ ~IsAsked(i, t, r)
    BY <2>1 DEF OnItsWay
  <2> QED BY <2>2
<1>6. AskedOnce'
  <2> SUFFICES ASSUME NEW t \in AnswerTypes, NEW x \in Refreshers
               PROVE  /\ \A i, j \in Nat : IsSent(i, t, x)' /\ IsSent(j, t, x)' => i = j
                      /\ \A i, j \in Nat : IsAsked(i, t, x)' /\ IsAsked(j, t, x)' => i = j
                      /\ \A i, j \in Nat : ~(IsSent(i, t, x)' /\ IsAsked(j, t, x)')
    BY DEF AskedOnce
  <2>1. /\ \A i, j \in Nat : IsSent(i, t, x) /\ IsSent(j, t, x) => i = j
        /\ \A i, j \in Nat : IsAsked(i, t, x) /\ IsAsked(j, t, x) => i = j
        /\ \A i, j \in Nat : ~(IsSent(i, t, x) /\ IsAsked(j, t, x))
    BY DEF AskedOnce
  <2>2. CASE x = r
    <3>1. \A i \in Nat : IsAsked(i, t, x)'
            => (t = "get_state" /\ i = Len(inbox) + 1) \/ (t = "get_session_stats" /\ i = Len(inbox) + 2)
      <4> SUFFICES ASSUME NEW i \in Nat, IsAsked(i, t, x)'
                   PROVE  (t = "get_state" /\ i = Len(inbox) + 1) \/ (t = "get_session_stats" /\ i = Len(inbox) + 2)
        OBVIOUS
      <4>1. ~IsAsked(i, t, x)
        BY <1>5, <2>2
      <4> QED BY <4>1, <1>2
    <3>2. \A i \in Nat : ~IsSent(i, t, x)'
      BY <2>2, <1>5
    <3> QED BY <3>1, <3>2
  <2>3. CASE x # r
    <3>1. \A i \in Nat : IsAsked(i, t, x)' <=> IsAsked(i, t, x)
      BY <2>3, <1>2
    <3>2. \A i, j \in Nat : IsSent(i, t, x)' /\ IsSent(j, t, x)' => i = j
      <4> SUFFICES ASSUME NEW i \in Nat, NEW j \in Nat, IsSent(i, t, x)', IsSent(j, t, x)' PROVE i = j
        OBVIOUS
      <4>1. i + d \in Nat /\ j + d \in Nat /\ IsSent(i + d, t, x) /\ IsSent(j + d, t, x)
        OBVIOUS
      <4>2. i + d = j + d
        BY <4>1, <2>1
      <4> QED BY <4>2
    <3>3. ASSUME NEW i \in Nat, NEW j \in Nat, IsSent(i, t, x)', IsAsked(j, t, x)' PROVE FALSE
      <4>1. i + d \in Nat /\ IsSent(i + d, t, x)
        BY <3>3
      <4> QED BY <4>1, <3>1, <3>3, <2>1
    <3> QED BY <2>1, <3>1, <3>2, <3>3
  <2> QED BY <2>2, <2>3
<1>7. \A t \in AnswerTypes : \A x : x # r => (OnItsWay(t, x)' <=> OnItsWay(t, x))
  BY <1>2 DEF OnItsWay
<1>8. OnItsWay("get_state", r)' /\ (OnItsWay("get_session_stats", r)' <=> kind = "all")
  <2>1. PICK n \in Nat : n = Len(inbox)
    BY <1>4
  <2>2. IsAsked(n + 1, "get_state", r)'
    BY <2>1, <1>2
  <2>3. kind = "all" => IsAsked(n + 2, "get_session_stats", r)'
    BY <2>1, <1>2
  <2>4. kind # "all" => \A i \in Nat : ~IsAsked(i, "get_session_stats", r)' /\ ~IsSent(i, "get_session_stats", r)'
    BY <1>2, <1>5 DEF AnswerTypes
  <2> QED BY <2>2, <2>3, <2>4 DEF OnItsWay
<1>9. ~IsResolved(r)
  BY DEF RefreshOK, NotAsked
<1>10. RefreshOK'
  <2> SUFFICES ASSUME NEW x \in Refreshers
               PROVE  /\ refreshes'[x] # NoRefresh =>
                           /\ refreshes'[x].kind # "none"
                           /\ (refreshes'[x].got = NotYet <=> OnItsWay("get_state", x)')
                           /\ (~refreshes'[x].stats <=> OnItsWay("get_session_stats", x)')
                           /\ (IsResolved(x)' <=> refreshes'[x].got # NotYet /\ refreshes'[x].stats)
                      /\ refreshes'[x] = NoRefresh => ~IsResolved(x)'
    BY DEF RefreshOK
  <2>1. IsResolved(x)' <=> IsResolved(x)
    BY <1>3 DEF IsResolved
  <2>2. CASE x = r
    BY <2>1, <2>2, <1>1, <1>8, <1>9
  <2>3. CASE x # r
    <3>1. refreshes'[x] = refreshes[x]
      BY <2>3, <1>1
    <3>2. /\ OnItsWay("get_state", x)' <=> OnItsWay("get_state", x)
          /\ OnItsWay("get_session_stats", x)' <=> OnItsWay("get_session_stats", x)
      BY <2>3, <1>7 DEF AnswerTypes
    <3> QED BY <2>1, <3>1, <3>2 DEF RefreshOK
  <2> QED BY <2>2, <2>3
<1>11. ResolvedOnce'
  BY <1>3 DEF ResolvedOnce
<1> QED BY <1>6, <1>7, <1>10, <1>11

\* Parts of the invariant that reading keeps.
LEMMA ReadOnce ==
  ASSUME FramesTypeOK, AskedOnce, line # <<>>, line' = Tail(line), inbox' = inbox
  PROVE  AskedOnce'
<1>1. \A i \in Nat : \A t, x : IsSent(i, t, x)' <=> i # 0 /\ IsSent(i + 1, t, x)
  BY ReadWay
<1>2. \A i \in Nat : \A t, x : IsAsked(i, t, x)' <=> IsAsked(i, t, x)
  BY DEF IsAsked
<1> SUFFICES ASSUME NEW t \in AnswerTypes, NEW x \in Refreshers
             PROVE  /\ \A i, j \in Nat : IsSent(i, t, x)' /\ IsSent(j, t, x)' => i = j
                    /\ \A i, j \in Nat : IsAsked(i, t, x)' /\ IsAsked(j, t, x)' => i = j
                    /\ \A i, j \in Nat : ~(IsSent(i, t, x)' /\ IsAsked(j, t, x)')
  BY DEF AskedOnce
<1>3. /\ \A i, j \in Nat : IsSent(i, t, x) /\ IsSent(j, t, x) => i = j
      /\ \A i, j \in Nat : IsAsked(i, t, x) /\ IsAsked(j, t, x) => i = j
      /\ \A i, j \in Nat : ~(IsSent(i, t, x) /\ IsAsked(j, t, x))
  BY DEF AskedOnce
<1>4. ASSUME NEW i \in Nat, NEW j \in Nat, IsSent(i, t, x)', IsSent(j, t, x)' PROVE i = j
  <2>1. i + 1 \in Nat /\ j + 1 \in Nat /\ IsSent(i + 1, t, x) /\ IsSent(j + 1, t, x)
    BY <1>1, <1>4
  <2>2. i + 1 = j + 1
    BY <2>1, <1>3
  <2> QED BY <2>2
<1>5. ASSUME NEW i \in Nat, NEW j \in Nat, IsSent(i, t, x)', IsAsked(j, t, x)' PROVE FALSE
  <2>1. i + 1 \in Nat /\ IsSent(i + 1, t, x) /\ IsAsked(j, t, x)
    BY <1>1, <1>2, <1>5
  <2> QED BY <2>1, <1>3
<1> QED BY <1>2, <1>3, <1>4, <1>5

LEMMA ReadSo ==
  ASSUME FramesTypeOK, line # <<>>, line' = Tail(line), agent' = agent, NEW k \in Nat, NEW m \in Nat, k <= m + 1, SoFrom(k)
  PROVE  SoFrom(m)'
<1>1. /\ Len(line') = Len(line) - 1 /\ Len(line) \in Nat \ {0}
      /\ \A i \in 1 .. Len(line') : line'[i] = line[i + 1]
      /\ DOMAIN line = 1 .. Len(line) /\ DOMAIN line' = 1 .. Len(line')
  BY ReadFacts DEF FramesTypeOK
<1> SUFFICES ASSUME NEW i \in DOMAIN line', i >= m
             PROVE  line'[i].type \in CompactionTypes \/ (line'[i].type \in AnswerTypes /\ IsSo(line'[i].state))
  BY DEF SoFrom, IsSo
<1>2. i + 1 \in DOMAIN line /\ i + 1 >= k /\ line'[i] = line[i + 1]
  BY <1>1
<1> QED BY <1>2 DEF SoFrom

LEMMA ReadBefore ==
  ASSUME FramesTypeOK, line # <<>>, line' = Tail(line), inbox' = inbox, NEW x, NEW y,
         ~IsSent(1, "get_session_stats", x), IsAnsweredBefore(x, y)
  PROVE  IsAnsweredBefore(x, y)'
<1>1. \A i \in Nat : \A t, z : IsSent(i, t, z) => i # 0 /\ (i = 1 \/ IsSent(i - 1, t, z)')
  BY ReadWay
<1>2. \A i \in Nat : \A t, z : IsAsked(i, t, z)' <=> IsAsked(i, t, z)
  BY DEF IsAsked
<1>3. CASE \E i, j \in Nat : IsSent(i, "get_session_stats", x) /\ IsSent(j, "get_session_stats", y) /\ i < j
  <2>1. PICK i \in Nat, j \in Nat : IsSent(i, "get_session_stats", x) /\ IsSent(j, "get_session_stats", y) /\ i < j
    BY <1>3
  <2>2. i # 0 /\ i # 1
    BY <2>1, <1>1
  <2>3. i - 1 \in Nat /\ j - 1 \in Nat /\ i - 1 < j - 1 /\ j # 1
    BY <2>1, <2>2
  <2>4. IsSent(i - 1, "get_session_stats", x)' /\ IsSent(j - 1, "get_session_stats", y)'
    BY <2>1, <2>2, <2>3, <1>1
  <2> QED BY <2>3, <2>4 DEF IsAnsweredBefore
<1>4. CASE \E i, j \in Nat : IsAsked(i, "get_session_stats", x) /\ IsAsked(j, "get_session_stats", y) /\ i < j
  BY <1>2, <1>4 DEF IsAnsweredBefore
<1>5. CASE \E i, j \in Nat : IsSent(i, "get_session_stats", x) /\ IsAsked(j, "get_session_stats", y)
  <2>1. PICK i \in Nat, j \in Nat : IsSent(i, "get_session_stats", x) /\ IsAsked(j, "get_session_stats", y)
    BY <1>5
  <2>2. i # 0 /\ i # 1
    BY <2>1, <1>1
  <2>3. i - 1 \in Nat /\ IsSent(i - 1, "get_session_stats", x)'
    BY <2>1, <2>2, <1>1
  <2> QED BY <2>1, <2>3, <1>2 DEF IsAnsweredBefore
<1> QED BY <1>3, <1>4, <1>5 DEF IsAnsweredBefore

LEMMA ReadAnswersOK ==
  ASSUME FramesTypeOK, AnswersOK, line # <<>>, line' = Tail(line)
  PROVE  AnswersOK'
<1>1. /\ Len(line') = Len(line) - 1 /\ Len(line) \in Nat \ {0}
      /\ \A i \in 1 .. Len(line') : line'[i] = line[i + 1]
      /\ DOMAIN line = 1 .. Len(line) /\ DOMAIN line' = 1 .. Len(line')
  BY ReadFacts DEF FramesTypeOK
<1> SUFFICES ASSUME NEW i \in DOMAIN line'
             PROVE  /\ line'[i].type \in AnswerTypes => line'[i].of \in Refreshers /\ line'[i].state.said <= MaxSaid
                    /\ line'[i].type = "agent_end" => line'[i].of \in Runs
  BY DEF AnswersOK
<1>2. i + 1 \in DOMAIN line /\ line'[i] = line[i + 1]
  BY <1>1
<1> QED BY <1>2 DEF AnswersOK

\* The end of a run is read: the line has no other of it, and its refresh begins.
LEMMA EndsAreRead ==
  ASSUME FramesTypeOK, RunsEndOnce, line # <<>>, line' = Tail(line), UNCHANGED <<agent, run>>,
         \A x \in Runs : NotAsked(x) /\ ~IsSent(1, "agent_end", x) => NotAsked(x)'
  PROVE  RunsEndOnce'
<1>1. /\ \A i \in Nat : \A t, x : IsSent(i, t, x)' <=> i # 0 /\ IsSent(i + 1, t, x)
  BY ReadWay
<1> SUFFICES ASSUME NEW x \in Runs
             PROVE  /\ x > run \/ (x = run /\ agent.runs) => NotAsked(x)' /\ \A i \in Nat : ~IsSent(i, "agent_end", x)'
                    /\ \A i, j \in Nat : IsSent(i, "agent_end", x)' /\ IsSent(j, "agent_end", x)' => i = j
                    /\ \A i \in Nat : IsSent(i, "agent_end", x)' => NotAsked(x)'
  BY DEF RunsEndOnce
<1>2. /\ x > run \/ (x = run /\ agent.runs) => NotAsked(x) /\ \A i \in Nat : ~IsSent(i, "agent_end", x)
      /\ \A i, j \in Nat : IsSent(i, "agent_end", x) /\ IsSent(j, "agent_end", x) => i = j
      /\ \A i \in Nat : IsSent(i, "agent_end", x) => NotAsked(x)
  BY DEF RunsEndOnce
<1>3. x > run \/ (x = run /\ agent.runs) => NotAsked(x)' /\ \A i \in Nat : ~IsSent(i, "agent_end", x)'
  <2> SUFFICES ASSUME x > run \/ (x = run /\ agent.runs) PROVE NotAsked(x)' /\ \A i \in Nat : ~IsSent(i, "agent_end", x)'
    OBVIOUS
  <2>1. NotAsked(x) /\ \A i \in Nat : ~IsSent(i, "agent_end", x)
    BY <1>2
  <2>2. ~IsSent(1, "agent_end", x)
    BY <2>1
  <2>3. ASSUME NEW i \in Nat PROVE ~IsSent(i, "agent_end", x)'
    <3>1. i + 1 \in Nat /\ ~IsSent(i + 1, "agent_end", x)
      BY <2>1
    <3> QED BY <3>1, <1>1
  <2> QED BY <2>1, <2>2, <2>3
<1>4. ASSUME NEW i \in Nat, NEW j \in Nat, IsSent(i, "agent_end", x)', IsSent(j, "agent_end", x)' PROVE i = j
  <2>1. i + 1 \in Nat /\ j + 1 \in Nat /\ IsSent(i + 1, "agent_end", x) /\ IsSent(j + 1, "agent_end", x)
    BY <1>1, <1>4
  <2>2. i + 1 = j + 1
    BY <2>1, <1>2
  <2> QED BY <2>2
<1>5. ASSUME NEW i \in Nat, IsSent(i, "agent_end", x)' PROVE NotAsked(x)'
  <2>1. i + 1 \in Nat /\ IsSent(i + 1, "agent_end", x) /\ i + 1 # 1
    BY <1>1, <1>5
  <2>2. ~IsSent(1, "agent_end", x)
    BY <2>1, <1>2
  <2>3. NotAsked(x)
    BY <2>1, <1>2
  <2> QED BY <2>2, <2>3
<1> QED BY <1>3, <1>4, <1>5

------------------------------------------------------------------------------
(* The daemon reads *)

\* A frame is read; that of an end asks for the state.
LEMMA FrameKeeps ==
  ASSUME FramesInv, HandleFrame
  PROVE  FramesInv'
<1>1. FramesTypeOK /\ AgentOK /\ AnswersOK /\ AskedOnce /\ RefreshOK /\ ResolvedOnce /\ RunsEndOnce /\ EndInv /\ TextComes
  BY DEF FramesInv
<1>2. /\ line # <<>> /\ line' = Tail(line) /\ Head(line) = line[1] /\ line[1] \in OnLine /\ line' \in Seq(OnLine)
      /\ Len(line) \in Nat \ {0} /\ DOMAIN line = 1 .. Len(line)
      /\ Len(line') = Len(line) - 1 /\ DOMAIN line' = 1 .. Len(line')
  <2>1. line # <<>> /\ line' = Tail(line)
    BY DEF HandleFrame
  <2> QED BY <2>1, <1>1, ReadFacts DEF FramesTypeOK
<1> DEFINE T == line[1].type
<1>3. /\ UNCHANGED <<agent, run, shells, bash>> /\ T \notin AnswerTypes
      /\ known' = Reduced(T) /\ partial' = Partial(T) /\ follower' = Followed(T)
      /\ T = "agent_end" => AsksFor(line[1].of, "all")
      /\ T # "agent_end" => UNCHANGED asking
  BY <1>2 DEF HandleFrame, process, shelling, AnswerTypes, RefreshAtEnd
<1>4. T \in FrameTypes
  BY <1>2, <1>3 DEF OnLine
<1>5. /\ \A i \in Nat : \A t, x : IsSent(i, t, x)' <=> i # 0 /\ IsSent(i + 1, t, x)
      /\ \A i \in Nat : \A t, x : IsSent(i, t, x) => i # 0 /\ (i = 1 \/ IsSent(i - 1, t, x)')
      /\ \A t, x : IsSent(1, t, x) <=> T = t /\ line[1].of = x
  BY <1>1, <1>2, ReadWay
<1> HIDE DEF T
<1>6. UNCHANGED missed
  BY <1>3 DEF AsksFor, asking
<1>7. known' \in KnownStates /\ partial' \in Nat /\ partial' = Grown(T, partial)
  <2>1. known \in KnownStates /\ partial \in Nat
    BY <1>1 DEF FramesTypeOK
  <2>2. known' \in KnownStates
    <3>1. known' \in {known, [known EXCEPT !.runs = TRUE], [known EXCEPT !.runs = FALSE], [known EXCEPT !.compacts = TRUE],
                      [known EXCEPT !.compacts = FALSE], [known EXCEPT !.said = @ + 1]}
      BY <1>3 DEF Reduced
    <3>2. known.said + 1 \in Nat
      BY <2>1 DEF KnownStates
    <3> QED BY <2>1, <3>1, <3>2 DEF KnownStates
  <2> QED BY <2>1, <2>2, <1>3 DEF Partial, Grown
<1>8. AgentOK' /\ AnswersOK' /\ TextComes'
  <2>1. AgentOK'
    BY <1>1, <1>3 DEF AgentOK
  <2>2. AnswersOK'
    BY <1>1, <1>2, ReadAnswersOK
  <2>3. TextComes'
    BY <1>1, <1>2, <1>3, <1>7, ReadText DEF T
  <2> QED BY <2>1, <2>2, <2>3
<1>9. FollowsAll' /\ ShownShellsRun'
  <2>1. FollowsAll /\ ShownShellsRun
    BY DEF FramesInv
  <2>2. FollowsAll'
    BY <2>1, <1>3 DEF FollowsAll, Followed, Partial
  <2>3. ShownShellsRun'
    BY <2>1, <1>3 DEF ShownShellsRun
  <2> QED BY <2>2, <2>3
<1>10. \A t \in AnswerTypes : \A x : ~IsSent(1, t, x)
  BY <1>3, <1>5
<1>11. ASSUME NEW t \in AnswerTypes, NEW x
       PROVE  (\E i \in Nat : IsSent(i, t, x)') <=> (\E i \in Nat : IsSent(i, t, x))
  <2>1. ASSUME NEW i \in Nat, IsSent(i, t, x)' PROVE \E j \in Nat : IsSent(j, t, x)
    <3>1. i + 1 \in Nat /\ IsSent(i + 1, t, x)
      BY <2>1, <1>5
    <3> QED BY <3>1
  <2>2. ASSUME NEW i \in Nat, IsSent(i, t, x) PROVE \E j \in Nat : IsSent(j, t, x)'
    <3>1. i # 0 /\ i # 1 /\ IsSent(i - 1, t, x)'
      BY <2>2, <1>5, <1>10
    <3>2. i - 1 \in Nat
      BY <3>1
    <3> QED BY <3>1, <3>2
  <2> QED BY <2>1, <2>2
<1>12. \A s : IsSo(s)' <=> IsSo(s)
  BY <1>3 DEF IsSo
<1>13. CASE T = "agent_end"
  <2>1. PICK r \in Runs : r = line[1].of
    <3>1. 1 \in DOMAIN line
      BY <1>2
    <3> QED BY <3>1, <1>1, <1>13 DEF AnswersOK, T
  <2>2. r \in Refreshers /\ AsksFor(r, "all")
    BY <2>1, <1>3, <1>13 DEF Refreshers
  <2>3. IsSent(1, "agent_end", r)
    BY <2>1, <1>5, <1>13
  <2>4. NotAsked(r)
    BY <2>3, <1>1 DEF RunsEndOnce
  <2>5. /\ inbox' \in Seq(OnInbox) /\ refreshes' \in [Refreshers -> RefreshRecords]
        /\ refreshes'[r].kind = "all" /\ refreshes'[r].got = NotYet
        /\ \A x \in Refreshers \ {r} : refreshes'[x] = refreshes[x]
    BY <2>2, <1>1, AsksFacts
  <2>6. \A i \in Nat : \A t, x : IsAsked(i, t, x)'
              <=> \/ IsAsked(i, t, x)
                  \/ x = r /\ t = "get_state" /\ i = Len(inbox) + 1
                  \/ x = r /\ t = "get_session_stats" /\ "all" = "all" /\ i = Len(inbox) + 2
    BY <2>2, <1>1, AsksFacts
  <2>7. Len(inbox) \in Nat /\ \A i \in Nat : \A t, x : IsAsked(i, t, x) => i \in 1 .. Len(inbox)
    BY <2>2, <1>1, AsksFacts
  <2>8. resolved' = resolved
    BY <2>2 DEF AsksFor
  <2>9. FramesTypeOK'
    BY <2>5, <2>8, <1>1, <1>2, <1>3, <1>7 DEF FramesTypeOK
  <2>10. AskedOnce' /\ RefreshOK' /\ ResolvedOnce' /\ \A t \in AnswerTypes : \A x : x # r => (OnItsWay(t, x)' <=> OnItsWay(t, x))
    <3>1. \A i \in Nat, t \in AnswerTypes : \A x : IsSent(i, t, x)' <=> i # 0 /\ IsSent(i + 1, t, x)
      BY <1>5
    <3>2. \A t \in AnswerTypes : \A x : (\E i \in Nat : IsSent(i, t, x)') <=> (\E i \in Nat : IsSent(i, t, x))
      BY <1>11
    <3>3. 1 \in {0, 1} /\ "all" \in {"all", "state"}
      OBVIOUS
    <3> QED BY <3>1, <3>2, <3>3, <2>2, <2>4, <1>1, AskingKeeps
  <2>11. RunsEndOnce'
    <3>1. ASSUME NEW x \in Runs, NotAsked(x), ~IsSent(1, "agent_end", x) PROVE NotAsked(x)'
      <4>1. x # r /\ x \in Refreshers
        BY <2>3, <3>1 DEF Refreshers
      <4>2. refreshes'[x] = NoRefresh
        BY <4>1, <2>5, <3>1 DEF NotAsked
      <4>3. \A t \in AnswerTypes : ~OnItsWay(t, x)'
        BY <4>1, <2>10, <3>1 DEF NotAsked
      <4> QED BY <4>2, <4>3 DEF NotAsked
    <3> QED BY <3>1, <1>1, <1>2, <1>3, EndsAreRead
  <2>12. EndInv'
    <3> SUFFICES ASSUME ~agent.runs, run \notin missed PROVE EndIsTold' \/ EndIsAsked' \/ EndIsKnown'
      BY <1>3, <1>6 DEF EndInv
    <3>1. ~SoFrom(1)
      <4>1. 1 \in DOMAIN line /\ line[1].type = "agent_end" /\ 1 >= 1
        BY <1>2, <1>13 DEF T
      <4> QED BY <4>1 DEF SoFrom, CompactionTypes, AnswerTypes
    <3>2. EndIsTold
      BY <3>1, <1>1 DEF EndInv, EndIsAsked, EndIsKnown
    <3>3. PICK k \in DOMAIN line : IsSent(k, "agent_end", run) /\ SoFrom(k + 1)
      BY <3>2 DEF EndIsTold
    <3>4. k \in Nat \ {0} /\ k + 1 \in Nat
      BY <1>2
    <3>5. SoFrom(k)'
      BY <3>3, <3>4, <1>1, <1>2, <1>3, ReadSo
    <3>6. CASE k # 1
      <4>1. k - 1 \in Nat /\ k - 1 \in DOMAIN line' /\ (k - 1) + 1 = k
        BY <3>4, <3>6, <1>2
      <4>2. PICK x : x = run
        OBVIOUS
      <4>3. IsSent(k - 1, "agent_end", x)'
        BY <4>2, <3>3, <3>4, <3>6, <1>5
      <4>4. PICK m \in Nat : m = k - 1
        BY <4>1
      <4>5. IsSent(m, "agent_end", x)' /\ SoFrom(m + 1)' /\ m \in DOMAIN line'
        BY <4>1, <4>3, <4>4, <3>5
      <4> QED BY <4>2, <4>5, <1>3 DEF EndIsTold
    <3>7. CASE k = 1
      <4>1. run = r /\ SoFrom(1)'
        BY <3>3, <3>5, <3>7, <2>1, <1>5
      <4>2. ~IsOld(r)'
        BY <2>5 DEF IsOld
      <4>3. ~IsResolved(r)'
        BY <2>2, <2>4, <2>8, <1>1 DEF RefreshOK, NotAsked, IsResolved
      <4>4. ASSUME NEW x \in Refreshers, IsOld(x)' PROVE IsResolved(x)' \/ IsAnsweredBefore(x, r)'
        <5>1. x # r
          BY <4>2, <4>4
        <5>2. refreshes'[x] = refreshes[x]
          BY <5>1, <2>5
        <5>3. refreshes[x].got # NotYet
          BY <5>2, <4>4 DEF IsOld
        <5>4. refreshes[x] # NoRefresh
          BY <5>3 DEF NoRefresh
        <5>5. CASE refreshes[x].stats
          <6>1. IsResolved(x)
            BY <5>3, <5>4, <5>5, <1>1 DEF RefreshOK
          <6> QED BY <6>1, <2>8 DEF IsResolved
        <5>6. CASE ~refreshes[x].stats
          <6>1. OnItsWay("get_session_stats", x)
            BY <5>4, <5>6, <1>1 DEF RefreshOK
          <6>2. PICK n \in Nat : n = Len(inbox)
            BY <2>7
          <6>3. IsAsked(n + 2, "get_session_stats", r)' /\ n + 2 \in Nat
            BY <6>2, <2>6
          <6>4. CASE \E i \in Nat : IsSent(i, "get_session_stats", x)
            <7>1. PICK i \in Nat : IsSent(i, "get_session_stats", x)'
              BY <6>4, <1>11 DEF AnswerTypes
            <7> QED BY <7>1, <6>3 DEF IsAnsweredBefore
          <6>5. CASE \E i \in Nat : IsAsked(i, "get_session_stats", x)
            <7>1. PICK i \in Nat : IsAsked(i, "get_session_stats", x)
              BY <6>5
            <7>2. i < n + 2 /\ IsAsked(i, "get_session_stats", x)'
              BY <7>1, <6>2, <2>6, <2>7
            <7> QED BY <7>2, <6>3 DEF IsAnsweredBefore
          <6> QED BY <6>1, <6>4, <6>5 DEF OnItsWay
        <5> QED BY <5>5, <5>6
      <4>5. EndIsAsked'
        BY <4>1, <4>2, <4>3, <4>4, <2>5, <1>3 DEF EndIsAsked
      <4> QED BY <4>5
    <3> QED BY <3>6, <3>7
  <2> QED BY <2>9, <2>10, <2>11, <2>12, <1>8, <1>9 DEF FramesInv
<1>14. CASE T # "agent_end"
  <2>1. UNCHANGED <<inbox, refreshes, resolved, missed>>
    BY <1>3, <1>14 DEF asking
  <2>2. FramesTypeOK'
    BY <2>1, <1>1, <1>2, <1>3, <1>7 DEF FramesTypeOK
  <2>3. AskedOnce'
    BY <2>1, <1>1, <1>2, ReadOnce
  <2>4. \A i \in Nat : \A t, x : IsAsked(i, t, x)' <=> IsAsked(i, t, x)
    BY <2>1 DEF IsAsked
  <2>5. \A t \in AnswerTypes : \A x : OnItsWay(t, x)' <=> OnItsWay(t, x)
    BY <2>4, <1>11 DEF OnItsWay
  <2>6. RefreshOK' /\ ResolvedOnce'
    BY <2>1, <2>5, <1>1 DEF RefreshOK, ResolvedOnce, IsResolved, AnswerTypes
  <2>7. RunsEndOnce'
    <3>1. \A x \in Runs : NotAsked(x) /\ ~IsSent(1, "agent_end", x) => NotAsked(x)'
      BY <2>1, <2>5 DEF NotAsked
    <3> QED BY <3>1, <1>1, <1>2, <1>3, EndsAreRead
  <2>8. EndInv'
    <3> SUFFICES ASSUME ~agent.runs, run \notin missed PROVE EndIsTold' \/ EndIsAsked' \/ EndIsKnown'
      BY <1>3, <1>6 DEF EndInv
    <3>1. EndIsTold \/ EndIsAsked \/ EndIsKnown
      BY <1>1 DEF EndInv
    <3>2. CASE EndIsTold
      <4>1. PICK k \in DOMAIN line : IsSent(k, "agent_end", run) /\ SoFrom(k + 1)
        BY <3>2 DEF EndIsTold
      <4>2. k \in Nat \ {0} /\ k + 1 \in Nat /\ k # 1
        BY <4>1, <1>2, <1>5, <1>14
      <4>3. SoFrom(k)'
        BY <4>1, <4>2, <1>1, <1>2, <1>3, ReadSo
      <4>4. PICK m \in Nat : m = k - 1
        BY <4>2
      <4>5. PICK x : x = run
        OBVIOUS
      <4>6. IsSent(m, "agent_end", x)' /\ m + 1 = k /\ m \in DOMAIN line'
        BY <4>1, <4>2, <4>4, <4>5, <1>2, <1>5
      <4> QED BY <4>3, <4>5, <4>6, <1>3 DEF EndIsTold
    <3>3. ASSUME SoFrom(1) PROVE SoFrom(1)' /\ T \in CompactionTypes
      <4>1. SoFrom(1)'
        BY <3>3, <1>1, <1>2, <1>3, ReadSo
      <4>2. 1 \in DOMAIN line /\ 1 >= 1
        BY <1>2
      <4> QED BY <4>1, <4>2, <3>3, <1>3 DEF SoFrom, T
    <3>4. \A x : (IsOld(x)' <=> IsOld(x)) /\ (IsResolved(x)' <=> IsResolved(x))
      BY <2>1, <1>3 DEF IsOld, IsSo, IsResolved
    <3>5. CASE EndIsAsked
      <4>1. PICK y \in Runs : y = run
        BY <3>5 DEF EndIsAsked
      <4>2. \A x \in Refreshers : IsOld(x) => IF IsResolved(y) THEN IsBefore(x, y) ELSE IsResolved(x) \/ IsAnsweredBefore(x, y)
        BY <4>1, <3>5 DEF EndIsAsked
      <4>3. \A x : IsBefore(x, y)' <=> IsBefore(x, y)
        BY <2>1 DEF IsBefore
      <4>4. \A x : IsAnsweredBefore(x, y) => IsAnsweredBefore(x, y)'
        <5>1. \A x : ~IsSent(1, "get_session_stats", x)
          BY <1>10 DEF AnswerTypes
        <5> QED BY <5>1, <2>1, <1>1, <1>2, ReadBefore
      <4>5. \A x \in Refreshers : IsOld(x)' => IF IsResolved(y)' THEN IsBefore(x, y)' ELSE IsResolved(x)' \/ IsAnsweredBefore(x, y)'
        BY <4>2, <4>3, <4>4, <3>4
      <4>6. run' = y /\ y \in Runs /\ refreshes'[y].kind = "all" /\ ~IsOld(y)' /\ SoFrom(1)'
        BY <4>1, <3>3, <3>4, <3>5, <2>1, <1>3 DEF EndIsAsked
      <4>7. EndIsAsked'
        BY <4>5, <4>6 DEF EndIsAsked
      <4> QED BY <4>7
    <3>6. CASE EndIsKnown
      <4>1. IsSo(known')
        <5>1. known'.runs = known.runs /\ known'.said = known.said
          BY <3>3, <3>6, <1>1, <1>3 DEF EndIsKnown, Reduced, CompactionTypes, FramesTypeOK, KnownStates
        <5> QED BY <5>1, <3>6 DEF EndIsKnown, IsSo
      <4>2. IsSo(known)'
        BY <4>1, <1>3 DEF IsSo
      <4> QED BY <4>2, <3>3, <3>4, <3>6 DEF EndIsKnown
    <3> QED BY <3>1, <3>2, <3>5, <3>6
  <2> QED BY <2>2, <2>3, <2>6, <2>7, <2>8, <1>8, <1>9 DEF FramesInv
<1> QED BY <1>13, <1>14

\* An answer is read: with both of them its refresh is resolved, behind those before it.
LEMMA AnswerReadKeeps ==
  ASSUME FramesInv, HandleAnswer
  PROVE  FramesInv'
<1>1. FramesTypeOK /\ AgentOK /\ AnswersOK /\ AskedOnce /\ RefreshOK /\ ResolvedOnce /\ RunsEndOnce /\ EndInv /\ TextComes
  BY DEF FramesInv
<1>2. /\ line # <<>> /\ line' = Tail(line) /\ Head(line) = line[1] /\ line[1] \in OnLine /\ line' \in Seq(OnLine)
      /\ Len(line) \in Nat \ {0} /\ DOMAIN line = 1 .. Len(line)
      /\ Len(line') = Len(line) - 1 /\ DOMAIN line' = 1 .. Len(line')
  <2>1. line # <<>> /\ line' = Tail(line)
    BY DEF HandleAnswer
  <2> QED BY <2>1, <1>1, ReadFacts DEF FramesTypeOK
<1>3. line[1].type \in AnswerTypes
  BY <1>2 DEF HandleAnswer, AnswerTypes
<1>4. /\ line[1].of \in Refreshers /\ line[1].state \in KnownStates /\ line[1].state.said <= MaxSaid
      /\ line[1].state # NotYet
  <2>1. 1 \in DOMAIN line
    BY <1>2
  <2>2. line[1].of \in Refreshers /\ line[1].state \in KnownStates /\ line[1].state.said <= MaxSaid
    BY <2>1, <1>1, <1>2, <1>3 DEF AnswersOK, OnLine
  <2> QED BY <2>2, FramesAssumption DEF NotYet
<1>a. PICK T \in AnswerTypes : T = line[1].type
  BY <1>3
<1>b. PICK r \in Refreshers : r = line[1].of
  BY <1>4
<1> DEFINE now == [refreshes[r] EXCEPT !.got = IF T = "get_state" THEN line[1].state ELSE @,
                                       !.stats = @ \/ T = "get_session_stats"]
<1>c0. /\ UNCHANGED <<agent, run, inbox, known, partial, missed, shells, bash, follower>>
       /\ refreshes[r] = NoRefresh => refreshes' = refreshes /\ resolved' = resolved
       /\ refreshes[r] # NoRefresh => /\ refreshes' = [refreshes EXCEPT ![r] = now]
                                      /\ resolved' = IF now.got # NotYet /\ now.stats THEN Append(resolved, r) ELSE resolved
  BY <1>2, <1>a, <1>b DEF HandleAnswer, process, shelling
<1>5. /\ \A i \in Nat : \A t, x : IsSent(i, t, x)' <=> i # 0 /\ IsSent(i + 1, t, x)
      /\ \A i \in Nat : \A t, x : IsSent(i, t, x) => i # 0 /\ (i = 1 \/ IsSent(i - 1, t, x)')
      /\ \A t, x : IsSent(1, t, x) <=> T = t /\ r = x
  BY <1>1, <1>2, <1>a, <1>b, ReadWay
<1>60. /\ now \in RefreshRecords /\ now.kind = refreshes[r].kind
      /\ (now.stats <=> refreshes[r].stats \/ T = "get_session_stats")
      /\ now.got = (IF T = "get_state" THEN line[1].state ELSE refreshes[r].got)
  <2>1. PICK g \in KnownStates : g = (IF T = "get_state" THEN line[1].state ELSE refreshes[r].got)
    BY <1>1, <1>4 DEF FramesTypeOK, RefreshRecords
  <2>2. PICK b \in BOOLEAN : b <=> (refreshes[r].stats \/ T = "get_session_stats")
    OBVIOUS
  <2>3. refreshes[r] \in RefreshRecords
    BY <1>1, <1>4 DEF FramesTypeOK
  <2>4. (refreshes[r].stats \/ T = "get_session_stats") \in BOOLEAN
    OBVIOUS
  <2>5. now = [refreshes[r] EXCEPT !.got = g, !.stats = b]
    BY <2>1, <2>2, <2>3, <2>4 DEF RefreshRecords
  <2> HIDE DEF now
  <2>6. now \in RefreshRecords
    BY <2>1, <2>2, <2>3, <2>5 DEF RefreshRecords
  <2>7. now.kind = refreshes[r].kind
    BY <2>3, <2>5 DEF RefreshRecords
  <2>8. now.stats = b
    BY <2>3, <2>5 DEF RefreshRecords
  <2>9. now.got = g
    BY <2>3, <2>5 DEF RefreshRecords
  <2> QED BY <2>1, <2>2, <2>6, <2>7, <2>8, <2>9
<1>n. PICK n \in RefreshRecords : n = now
  BY <1>60
<1>6. /\ n \in RefreshRecords /\ n.kind = refreshes[r].kind
      /\ (n.stats <=> refreshes[r].stats \/ T = "get_session_stats")
      /\ n.got = (IF T = "get_state" THEN line[1].state ELSE refreshes[r].got)
  BY <1>60, <1>n
<1>c. /\ UNCHANGED <<agent, run, inbox, known, partial, missed, shells, bash, follower>>
      /\ refreshes[r] = NoRefresh => refreshes' = refreshes /\ resolved' = resolved
      /\ refreshes[r] # NoRefresh => /\ refreshes' = [refreshes EXCEPT ![r] = n]
                                     /\ resolved' = IF n.got # NotYet /\ n.stats THEN Append(resolved, r) ELSE resolved
  BY <1>c0, <1>n
<1> HIDE DEF now
<1>7. AgentOK' /\ AnswersOK' /\ TextComes' /\ AskedOnce'
  <2>1. AgentOK'
    BY <1>1, <1>c DEF AgentOK
  <2>2. AnswersOK'
    BY <1>1, <1>2, ReadAnswersOK
  <2>3. partial' = Grown(line[1].type, partial)
    BY <1>3, <1>c DEF Grown, AnswerTypes
  <2>4. TextComes'
    BY <2>3, <1>1, <1>2, <1>c, ReadText
  <2>5. AskedOnce'
    BY <1>1, <1>2, <1>c, ReadOnce
  <2> QED BY <2>1, <2>2, <2>4, <2>5
<1>8. FollowsAll' /\ ShownShellsRun'
  BY <1>c DEF FramesInv, FollowsAll, ShownShellsRun
<1>9. /\ refreshes' \in [Refreshers -> RefreshRecords]
      /\ resolved' \in Seq(Refreshers)
      /\ \A x \in Refreshers \ {r} : refreshes'[x] = refreshes[x]
      /\ refreshes[r] # NoRefresh => refreshes'[r] = n
      /\ refreshes[r] = NoRefresh => refreshes'[r] = NoRefresh
  <2>1. refreshes \in [Refreshers -> RefreshRecords] /\ resolved \in Seq(Refreshers) /\ n \in RefreshRecords
    BY <1>1, <1>6 DEF FramesTypeOK
  <2>2. CASE refreshes[r] = NoRefresh
    BY <2>1, <2>2, <1>c
  <2>3. CASE refreshes[r] # NoRefresh
    <3>1. refreshes' = [refreshes EXCEPT ![r] = n]
      BY <2>3, <1>c
    <3>2. resolved' = resolved \/ resolved' = Append(resolved, r)
      BY <2>3, <1>c
    <3>3. resolved' \in Seq(Refreshers)
      BY <3>2, <2>1
    <3> QED BY <2>1, <2>3, <3>1, <3>3
  <2> QED BY <2>2, <2>3
<1>10. FramesTypeOK'
  BY <1>1, <1>2, <1>c, <1>9 DEF FramesTypeOK
<1>11. \A i \in Nat : \A t, x : IsAsked(i, t, x)' <=> IsAsked(i, t, x)
  BY <1>c DEF IsAsked
\* What was the only one on its way is not on it any more; the rest is.
<1>12. ASSUME NEW t, NEW x, t # T \/ x # r PROVE OnItsWay(t, x)' <=> OnItsWay(t, x)
  <2>1. ASSUME NEW i \in Nat, IsSent(i, t, x)' PROVE OnItsWay(t, x)
    <3>1. i + 1 \in Nat /\ IsSent(i + 1, t, x)
      BY <2>1, <1>5
    <3> QED BY <3>1 DEF OnItsWay
  <2>2. ASSUME NEW i \in Nat, IsSent(i, t, x) PROVE OnItsWay(t, x)'
    <3>1. i # 0 /\ i # 1 /\ IsSent(i - 1, t, x)'
      BY <2>2, <1>5, <1>12
    <3>2. i - 1 \in Nat
      BY <3>1
    <3> QED BY <3>1, <3>2 DEF OnItsWay
  <2> QED BY <2>1, <2>2, <1>11 DEF OnItsWay
<1>13. OnItsWay(T, r) /\ ~OnItsWay(T, r)'
  <2>1. IsSent(1, T, r)
    BY <1>5
  <2>2. /\ \A i, j \in Nat : IsSent(i, T, r) /\ IsSent(j, T, r) => i = j
        /\ \A i, j \in Nat : ~(IsSent(i, T, r) /\ IsAsked(j, T, r))
    BY <1>1, <1>c, <1>4 DEF AskedOnce
  <2>3. ASSUME NEW i \in Nat, IsSent(i, T, r)' PROVE FALSE
    <3>1. i + 1 \in Nat /\ IsSent(i + 1, T, r) /\ i + 1 # 1
      BY <2>3, <1>5
    <3> QED BY <2>1, <2>2, <3>1
  <2> QED BY <2>1, <2>2, <2>3, <1>11 DEF OnItsWay
<1>15. resolved' = Append(resolved, r) =>
         /\ IsResolved(r)' /\ \A x : x # r => (IsResolved(x)' <=> IsResolved(x))
         /\ \A i \in DOMAIN resolved : i \in DOMAIN resolved' /\ resolved'[i] = resolved[i] /\ i < Len(resolved) + 1
         /\ Len(resolved) + 1 \in DOMAIN resolved' /\ resolved'[Len(resolved) + 1] = r
         /\ DOMAIN resolved' = 1 .. Len(resolved) + 1 /\ DOMAIN resolved = 1 .. Len(resolved) /\ Len(resolved) \in Nat
  <2> SUFFICES ASSUME resolved' = Append(resolved, r)
               PROVE  /\ IsResolved(r)' /\ \A x : x # r => (IsResolved(x)' <=> IsResolved(x))
                      /\ \A i \in DOMAIN resolved : i \in DOMAIN resolved' /\ resolved'[i] = resolved[i] /\ i < Len(resolved) + 1
                      /\ Len(resolved) + 1 \in DOMAIN resolved' /\ resolved'[Len(resolved) + 1] = r
                      /\ DOMAIN resolved' = 1 .. Len(resolved) + 1 /\ DOMAIN resolved = 1 .. Len(resolved) /\ Len(resolved) \in Nat
    OBVIOUS
  <2>1. resolved \in Seq(Refreshers)
    BY <1>1 DEF FramesTypeOK
  <2>2. /\ DOMAIN resolved = 1 .. Len(resolved) /\ DOMAIN resolved' = 1 .. Len(resolved) + 1 /\ Len(resolved) \in Nat
        /\ resolved'[Len(resolved) + 1] = r /\ \A i \in 1 .. Len(resolved) : resolved'[i] = resolved[i]
    BY <2>1
  <2>3. IsResolved(r)'
    BY <2>2 DEF IsResolved
  <2>4. ASSUME NEW x, x # r PROVE IsResolved(x)' <=> IsResolved(x)
    BY <2>2, <2>4 DEF IsResolved
  <2> QED BY <2>2, <2>3, <2>4
<1>14. RefreshOK'
  <2> SUFFICES ASSUME NEW x \in Refreshers
               PROVE  /\ refreshes'[x] # NoRefresh =>
                           /\ refreshes'[x].kind # "none"
                           /\ (refreshes'[x].got = NotYet <=> OnItsWay("get_state", x)')
                           /\ (~refreshes'[x].stats <=> OnItsWay("get_session_stats", x)')
                           /\ (IsResolved(x)' <=> refreshes'[x].got # NotYet /\ refreshes'[x].stats)
                      /\ refreshes'[x] = NoRefresh => ~IsResolved(x)'
    BY DEF RefreshOK
  <2>1. /\ refreshes[x] # NoRefresh =>
             /\ refreshes[x].kind # "none"
             /\ (refreshes[x].got = NotYet <=> OnItsWay("get_state", x))
             /\ (~refreshes[x].stats <=> OnItsWay("get_session_stats", x))
             /\ (IsResolved(x) <=> refreshes[x].got # NotYet /\ refreshes[x].stats)
        /\ refreshes[x] = NoRefresh => ~IsResolved(x)
    BY <1>1 DEF RefreshOK
  <2>2. CASE x # r
    <3>1. IsResolved(x)' <=> IsResolved(x)
      <4>1. CASE resolved' = resolved
        BY <4>1 DEF IsResolved
      <4>2. CASE resolved' = Append(resolved, r)
        BY <4>2, <2>2, <1>15
      <4> QED BY <4>1, <4>2, <1>c
    <3>2. /\ OnItsWay("get_state", x)' <=> OnItsWay("get_state", x)
          /\ OnItsWay("get_session_stats", x)' <=> OnItsWay("get_session_stats", x)
      BY <2>2, <1>12
    <3> QED BY <2>1, <2>2, <3>1, <3>2, <1>9
  <2>3. CASE x = r /\ refreshes[r] = NoRefresh
    <3>1. IsResolved(x)' <=> IsResolved(x)
      BY <2>3, <1>c DEF IsResolved
    <3> QED BY <2>1, <2>3, <3>1, <1>9
  <2>4. CASE x = r /\ refreshes[r] # NoRefresh
    <3>1. refreshes'[r] = n /\ n.kind # "none"
      BY <2>1, <2>4, <1>6, <1>9
    <3>2. n # NoRefresh
      BY <3>1 DEF NoRefresh
    <3>3. (T = "get_state" \/ T = "get_session_stats") /\ "get_state" # "get_session_stats"
      BY DEF AnswerTypes
    <3>4. n.got = NotYet <=> OnItsWay("get_state", r)'
      <4>1. CASE T = "get_state"
        BY <4>1, <1>4, <1>6, <1>13
      <4>2. CASE T # "get_state"
        BY <4>2, <2>1, <2>4, <1>6, <1>12
      <4> QED BY <4>1, <4>2
    <3>5. ~n.stats <=> OnItsWay("get_session_stats", r)'
      <4>1. CASE T = "get_session_stats"
        BY <4>1, <1>6, <1>13
      <4>2. CASE T # "get_session_stats"
        BY <4>2, <2>1, <2>4, <1>6, <1>12
      <4> QED BY <4>1, <4>2
    <3>6. ~IsResolved(r)
      <4>1. OnItsWay(T, r)
        BY <1>13
      <4> QED BY <4>1, <3>3, <2>1, <2>4
    <3>7. IsResolved(r)' <=> n.got # NotYet /\ n.stats
      <4>1. CASE n.got # NotYet /\ n.stats
        <5>1. resolved' = Append(resolved, r)
          BY <4>1, <2>4, <1>c
        <5> QED BY <4>1, <5>1, <1>15
      <4>2. CASE ~(n.got # NotYet /\ n.stats)
        <5>1. resolved' = resolved
          BY <4>2, <2>4, <1>c
        <5> QED BY <4>2, <5>1, <3>6 DEF IsResolved
      <4> QED BY <4>1, <4>2
    <3> QED BY <2>4, <3>1, <3>2, <3>4, <3>5, <3>7
  <2> QED BY <2>2, <2>3, <2>4

<1>16. refreshes[r] # NoRefresh => ~IsResolved(r)
  <2>1. OnItsWay(T, r) /\ (T = "get_state" \/ T = "get_session_stats")
    BY <1>13 DEF AnswerTypes
  <2> QED BY <2>1, <1>1 DEF RefreshOK
<1>17. ResolvedOnce'
  <2>1. CASE resolved' = resolved
    BY <2>1, <1>1 DEF ResolvedOnce
  <2>2. CASE resolved' = Append(resolved, r) /\ refreshes[r] # NoRefresh
    <3> SUFFICES ASSUME NEW i \in DOMAIN resolved', NEW j \in DOMAIN resolved', resolved'[i] = resolved'[j] PROVE i = j
      BY DEF ResolvedOnce
    <3>1. \A k \in DOMAIN resolved : resolved[k] # r
      BY <2>2, <1>16 DEF IsResolved
    <3>2. ASSUME NEW k \in DOMAIN resolved' PROVE k \in DOMAIN resolved \/ k = Len(resolved) + 1
      BY <2>2, <1>15
    <3> QED BY <2>2, <3>1, <3>2, <1>1, <1>15 DEF ResolvedOnce
  <2> QED BY <2>1, <2>2, <1>c
<1>18. RunsEndOnce'
  <2>1. ASSUME NEW x \in Runs, NotAsked(x) PROVE NotAsked(x)'
    <3>1. x # r
      BY <2>1, <1>13 DEF NotAsked
    <3>2. refreshes'[x] = NoRefresh
      BY <2>1, <3>1, <1>9 DEF NotAsked, Refreshers
    <3>3. \A t \in AnswerTypes : ~OnItsWay(t, x)'
      BY <2>1, <3>1, <1>12 DEF NotAsked
    <3> QED BY <3>2, <3>3 DEF NotAsked
  <2> QED BY <2>1, <1>1, <1>2, <1>c, EndsAreRead
<1>19. EndInv'
  <2> SUFFICES ASSUME ~agent.runs, run \notin missed PROVE EndIsTold' \/ EndIsAsked' \/ EndIsKnown'
    BY <1>c DEF EndInv
  <2>1. EndIsTold \/ EndIsAsked \/ EndIsKnown
    BY <1>1 DEF EndInv
  <2>2. CASE EndIsTold
    <3>1. PICK k \in DOMAIN line : IsSent(k, "agent_end", run) /\ SoFrom(k + 1)
      BY <2>2 DEF EndIsTold
    <3>2. k \in Nat \ {0} /\ k + 1 \in Nat /\ k # 1
      BY <3>1, <1>2, <1>5 DEF AnswerTypes
    <3>3. SoFrom(k)'
      BY <3>1, <3>2, <1>1, <1>2, <1>c, ReadSo
    <3>4. PICK m \in Nat : m = k - 1
      BY <3>2
    <3>5. PICK x : x = run
      OBVIOUS
    <3>6. IsSent(m, "agent_end", x)' /\ m + 1 = k /\ m \in DOMAIN line'
      BY <3>1, <3>2, <3>4, <3>5, <1>2, <1>5
    <3> QED BY <3>3, <3>5, <3>6, <1>c DEF EndIsTold
  <2>3. ASSUME SoFrom(1) PROVE SoFrom(1)' /\ IsSo(line[1].state)
    <3>1. SoFrom(1)'
      BY <2>3, <1>1, <1>2, <1>c, ReadSo
    <3>2. 1 \in DOMAIN line /\ 1 >= 1 /\ line[1].type \notin CompactionTypes
      BY <1>2, <1>3 DEF AnswerTypes, CompactionTypes
    <3> QED BY <3>1, <3>2, <2>3 DEF SoFrom
  <2>4. ASSUME SoFrom(1), NEW x \in Refreshers, IsOld(x)' PROVE IsOld(x)
    <3>1. CASE x # r \/ refreshes[r] = NoRefresh
      <4>1. refreshes'[x] = refreshes[x]
        BY <3>1, <1>9
      <4> QED BY <4>1, <2>4, <1>c DEF IsOld, IsSo
    <3>2. CASE x = r /\ refreshes[r] # NoRefresh
      <4>1. refreshes'[x] = n
        BY <3>2, <1>9
      <4>2. ~IsSo(n.got) /\ n.got # NotYet
        BY <4>1, <2>4, <1>c DEF IsOld, IsSo
      <4>3. n.got = refreshes[x].got
        BY <4>2, <2>3, <2>4, <3>2, <1>6
      <4> QED BY <4>2, <4>3 DEF IsOld
    <3> QED BY <3>1, <3>2
  <2>5. CASE EndIsAsked
    <3>1. PICK y \in Runs : y = run
      BY <2>5 DEF EndIsAsked
    <3>2. \A x \in Refreshers : IsOld(x) => IF IsResolved(y) THEN IsBefore(x, y) ELSE IsResolved(x) \/ IsAnsweredBefore(x, y)
      BY <3>1, <2>5 DEF EndIsAsked
    <3>3. y \in Refreshers /\ refreshes[y].kind = "all" /\ ~IsOld(y) /\ SoFrom(1) /\ refreshes[y] # NoRefresh
      BY <3>1, <2>5 DEF EndIsAsked, Refreshers, NoRefresh
    <3>4. refreshes'[y].kind = "all" /\ ~IsOld(y)' /\ SoFrom(1)' /\ run' = y
      BY <3>1, <3>3, <2>3, <2>4, <1>6, <1>9, <1>c
    <3>5. resolved' = resolved \/ resolved' = Append(resolved, r)
      BY <1>c
    <3>6. \A x : IsResolved(x) => IsResolved(x)'
      BY <3>5, <1>15 DEF IsResolved
    <3>7. ASSUME NEW x \in Refreshers, IsOld(x)'
          PROVE  IF IsResolved(y)' THEN IsBefore(x, y)' ELSE IsResolved(x)' \/ IsAnsweredBefore(x, y)'
      <4>1. IsOld(x)
        BY <2>4, <3>3, <3>7
      <4>2. CASE IsResolved(y)
        <5>1. IsBefore(x, y) /\ IsResolved(y)'
          BY <3>2, <3>6, <4>1, <4>2
        <5>2. IsBefore(x, y)'
          BY <3>5, <5>1, <1>15 DEF IsBefore
        <5> QED BY <5>1, <5>2
      <4>3. CASE ~IsResolved(y) /\ IsResolved(y)'
        <5>1. y = r /\ resolved' = Append(resolved, r)
          BY <3>5, <4>3, <1>15 DEF IsResolved
        <5>2. CASE IsResolved(x)
          <6>1. PICK i \in DOMAIN resolved : resolved[i] = x
            BY <5>2 DEF IsResolved
          <6>2. PICK j \in DOMAIN resolved' : resolved'[j] = r /\ i < j /\ i \in DOMAIN resolved' /\ resolved'[i] = x
            BY <5>1, <6>1, <1>15
          <6> QED BY <4>3, <5>1, <6>2 DEF IsBefore
        <5>3. CASE IsAnsweredBefore(x, y)
          <6>1. n.stats
            <7>1. CASE n.got # NotYet /\ n.stats
              BY <7>1
            <7>2. CASE ~(n.got # NotYet /\ n.stats)
              <8>1. resolved' = resolved
                BY <7>2, <1>c
              <8> QED BY <8>1, <4>3 DEF IsResolved
            <7> QED BY <7>1, <7>2
          <6>2. CASE T = "get_session_stats"
            <7>1. IsSent(1, "get_session_stats", y)
              BY <5>1, <6>2, <1>5
            <7>2. /\ \A i, j \in Nat : IsSent(i, "get_session_stats", y) /\ IsSent(j, "get_session_stats", y) => i = j
                  /\ \A i, j \in Nat : ~(IsSent(i, "get_session_stats", y) /\ IsAsked(j, "get_session_stats", y))
              BY <3>3, <1>1 DEF AskedOnce, AnswerTypes
            <7>3. \A i \in Nat : IsSent(i, "get_session_stats", x) => i # 0
              BY <1>5
            <7>4. \A i, j \in Nat : IsSent(i, "get_session_stats", x) /\ IsSent(j, "get_session_stats", y) => ~(i < j)
              BY <7>1, <7>2, <7>3
            <7> QED BY <7>1, <7>2, <7>4, <5>3 DEF IsAnsweredBefore
          <6>3. CASE T # "get_session_stats"
            <7>1. refreshes[y].stats
              BY <5>1, <6>1, <6>3, <1>6
            <7>2. ~OnItsWay("get_session_stats", y)
              BY <7>1, <3>3, <1>1 DEF RefreshOK
            <7> QED BY <7>2, <5>3 DEF OnItsWay, IsAnsweredBefore
          <6> QED BY <6>2, <6>3
        <5> QED BY <3>2, <4>1, <4>3, <5>2, <5>3
      <4>4. CASE ~IsResolved(y) /\ ~IsResolved(y)'
        <5>1. CASE IsResolved(x)
          BY <5>1, <3>6, <4>4
        <5>2. CASE IsAnsweredBefore(x, y) /\ ~IsSent(1, "get_session_stats", x)
          <6>1. IsAnsweredBefore(x, y)'
            BY <5>2, <1>1, <1>2, <1>c, ReadBefore
          <6> QED BY <6>1, <4>4
        <5>3. CASE IsSent(1, "get_session_stats", x)
          <6>1. x = r /\ T = "get_session_stats"
            BY <5>3, <1>5
          <6>2. refreshes[r].got # NotYet /\ refreshes[r] # NoRefresh
            BY <4>1, <6>1 DEF IsOld, NoRefresh
          <6>3. n.got # NotYet /\ n.stats
            BY <6>1, <6>2, <1>6
          <6>4. IsResolved(r)'
            BY <6>2, <6>3, <1>c, <1>15
          <6>6. IsResolved(x)'
            BY <6>4, <6>1 DEF IsResolved
          <6> QED BY <6>6, <4>4
        <5> QED BY <3>2, <4>1, <4>4, <5>1, <5>2, <5>3
      <4> QED BY <4>2, <4>3, <4>4
    <3>8. EndIsAsked'
      BY <3>1, <3>4, <3>7 DEF EndIsAsked
    <3> QED BY <3>8
  <2>6. CASE EndIsKnown
    <3>1. SoFrom(1) /\ IsSo(known) /\ \A x \in Refreshers : ~IsOld(x)
      BY <2>6 DEF EndIsKnown
    <3>2. \A x \in Refreshers : ~IsOld(x)'
      BY <3>1, <2>4
    <3>3. IsSo(known)'
      BY <3>1, <1>c DEF IsSo
    <3> QED BY <3>1, <3>2, <3>3, <2>3 DEF EndIsKnown
  <2> QED BY <2>1, <2>2, <2>5, <2>6
<1> QED BY <1>7, <1>8, <1>10, <1>14, <1>17, <1>18, <1>19 DEF FramesInv

------------------------------------------------------------------------------
(* Refreshes begin, fail and are over *)

\* Where nothing is said, asked or read.
LEMMA QuietWay ==
  ASSUME line' = line, agent' = agent, run' = run
  PROVE  /\ \A i, t, x : IsSent(i, t, x)' <=> IsSent(i, t, x)
         /\ \A k : SoFrom(k)' <=> SoFrom(k)
         /\ EndIsTold => EndIsTold'
BY DEF IsSent, SoFrom, EndIsTold, IsSo

\* A request of a client asks for what is not old, and is not that of an end.
LEMMA RefreshForKeeps ==
  ASSUME FramesInv, NEW c \in Callers, NEW kind \in {"all", "state"}, RefreshFor(c, kind)
  PROVE  FramesInv'
<1>1. FramesTypeOK /\ AgentOK /\ AnswersOK /\ AskedOnce /\ RefreshOK /\ ResolvedOnce /\ RunsEndOnce /\ EndInv /\ TextComes
  BY DEF FramesInv
<1>2. /\ UNCHANGED <<agent, run, line, known, partial, shells, bash, follower, resolved, missed>>
      /\ AsksFor(c, kind) /\ refreshes[c] = NoRefresh
      /\ c \in Refreshers /\ c \notin Runs
  BY FramesAssumption DEF RefreshFor, AsksFor, process, shelling, Refreshers, Runs
<1>3. \A i, t, x : IsSent(i, t, x)' <=> IsSent(i, t, x)
  BY <1>2, QuietWay
<1>4. NotAsked(c)
  <2>1. \A r \in Range(inbox) \union Range(line) : r.of # c
    BY DEF RefreshFor
  <2>2. \A i \in DOMAIN line : line[i].of # c
    BY <2>1 DEF Range
  <2>3. \A i \in DOMAIN inbox : inbox[i].of # c
    BY <2>1 DEF Range
  <2> QED BY <1>2, <2>2, <2>3 DEF NotAsked, OnItsWay, IsSent, IsAsked
<1>5. AskedOnce' /\ RefreshOK' /\ ResolvedOnce' /\ \A t \in AnswerTypes : \A x : x # c => (OnItsWay(t, x)' <=> OnItsWay(t, x))
  <2>1. \A i \in Nat, t \in AnswerTypes : \A x : IsSent(i, t, x)' <=> i # 0 /\ IsSent(i + 0, t, x)
    <3>1. \A i \in Nat : \A t, x : IsSent(i, t, x) => i # 0
      BY <1>1 DEF IsSent, FramesTypeOK
    <3>2. \A i \in Nat : i + 0 = i
      OBVIOUS
    <3> QED BY <1>3, <3>1, <3>2
  <2>2. \A t \in AnswerTypes : \A x : (\E i \in Nat : IsSent(i, t, x)') <=> (\E i \in Nat : IsSent(i, t, x))
    BY <1>3
  <2>3. PICK d \in {0, 1} : d = 0
    OBVIOUS
  <2> QED BY <1>1, <1>2, <1>4, <2>1, <2>2, <2>3, AskingKeeps
<1>6. /\ inbox' \in Seq(OnInbox) /\ refreshes' \in [Refreshers -> RefreshRecords]
      /\ refreshes'[c].got = NotYet
      /\ \A x \in Refreshers \ {c} : refreshes'[x] = refreshes[x]
      /\ \A i \in Nat : \A t, x : IsAsked(i, t, x) => IsAsked(i, t, x)'
  BY <1>1, <1>2, AsksFacts
<1>7. FramesTypeOK' /\ AgentOK' /\ AnswersOK' /\ TextComes'
  BY <1>1, <1>2, <1>6 DEF FramesTypeOK, AgentOK, AnswersOK, TextComes
<1>8. FollowsAll' /\ ShownShellsRun'
  BY <1>2 DEF FramesInv, FollowsAll, ShownShellsRun
<1>9. RunsEndOnce'
  <2>1. ASSUME NEW x \in Runs, NotAsked(x) PROVE NotAsked(x)'
    <3>1. x # c /\ x \in Refreshers
      BY <1>2 DEF Refreshers
    <3>2. refreshes'[x] = NoRefresh
      BY <2>1, <3>1, <1>6 DEF NotAsked
    <3>3. \A t \in AnswerTypes : ~OnItsWay(t, x)'
      BY <2>1, <3>1, <1>5 DEF NotAsked
    <3> QED BY <3>2, <3>3 DEF NotAsked
  <2> QED BY <2>1, <1>1, <1>2, <1>3 DEF RunsEndOnce
<1>10. EndInv'
  <2> SUFFICES ASSUME ~agent.runs, run \notin missed PROVE EndIsTold' \/ EndIsAsked' \/ EndIsKnown'
    BY <1>2 DEF EndInv
  <2>1. EndIsTold \/ EndIsAsked \/ EndIsKnown
    BY <1>1 DEF EndInv
  <2>2. /\ \A k : SoFrom(k)' <=> SoFrom(k)
        /\ EndIsTold => EndIsTold'
    BY <1>2, QuietWay
  <2>3. ASSUME NEW x \in Refreshers, IsOld(x)' PROVE IsOld(x) /\ x # c
    BY <2>3, <1>2, <1>6 DEF IsOld, IsSo
  <2>4. CASE EndIsAsked
    <3>1. PICK y \in Runs : y = run
      BY <2>4 DEF EndIsAsked
    <3>2. y # c /\ y \in Refreshers /\ run' = y
      BY <1>2, <3>1 DEF Refreshers
    <3>3. refreshes'[y] = refreshes[y] /\ refreshes[y].kind = "all" /\ ~IsOld(y) /\ SoFrom(1)
      BY <3>1, <3>2, <1>6, <2>4 DEF EndIsAsked
    <3>4. ~IsOld(y)' /\ SoFrom(1)'
      BY <3>2, <3>3, <2>2, <2>3
    <3>5. \A x : /\ IsResolved(x)' <=> IsResolved(x)
                 /\ IsBefore(x, y)' <=> IsBefore(x, y)
      BY <1>2 DEF IsResolved, IsBefore
    <3>6. \A x : IsAnsweredBefore(x, y) => IsAnsweredBefore(x, y)'
      BY <1>3, <1>6 DEF IsAnsweredBefore
    <3>7. ASSUME NEW x \in Refreshers, IsOld(x)'
          PROVE  IF IsResolved(y)' THEN IsBefore(x, y)' ELSE IsResolved(x)' \/ IsAnsweredBefore(x, y)'
      <4>1. IF IsResolved(y) THEN IsBefore(x, y) ELSE IsResolved(x) \/ IsAnsweredBefore(x, y)
        BY <2>3, <2>4, <3>1, <3>7 DEF EndIsAsked
      <4> QED BY <4>1, <3>5, <3>6
    <3> QED BY <3>1, <3>2, <3>3, <3>4, <3>7 DEF EndIsAsked
  <2>5. CASE EndIsKnown
    BY <2>5, <2>2, <2>3, <1>2 DEF EndIsKnown, IsSo
  <2> QED BY <2>1, <2>2, <2>4, <2>5
<1> QED BY <1>5, <1>7, <1>8, <1>9, <1>10 DEF FramesInv

\* Only the refresh that failed is not waited for any more.
LEMMA RefreshFailsKeeps ==
  ASSUME FramesInv, NEW r \in Refreshers, RefreshFails(r)
  PROVE  FramesInv'
<1>1. FramesTypeOK /\ AgentOK /\ AnswersOK /\ AskedOnce /\ RefreshOK /\ ResolvedOnce /\ RunsEndOnce /\ EndInv /\ TextComes
  BY DEF FramesInv
<1>2. /\ UNCHANGED <<agent, run, line, inbox, known, partial, shells, bash, follower, resolved>>
      /\ refreshes' = [refreshes EXCEPT ![r] = NoRefresh]
      /\ missed' = missed \union {r} /\ ~IsResolved(r)
  <2>1. r \notin Range(resolved)
    BY DEF RefreshFails
  <2>2. ~IsResolved(r)
    BY <2>1 DEF IsResolved, Range
  <2> QED BY <2>2 DEF RefreshFails, process, shelling
<1>3. /\ \A i, t, x : IsSent(i, t, x)' <=> IsSent(i, t, x)
      /\ \A i, t, x : IsAsked(i, t, x)' <=> IsAsked(i, t, x)
      /\ \A k : SoFrom(k)' <=> SoFrom(k)
      /\ EndIsTold => EndIsTold'
  BY <1>2, QuietWay DEF IsAsked
<1>4. /\ \A t, x : OnItsWay(t, x)' <=> OnItsWay(t, x)
      /\ \A x : IsResolved(x)' <=> IsResolved(x)
      /\ \A x, y : IsBefore(x, y)' <=> IsBefore(x, y)
      /\ \A x, y : IsAnsweredBefore(x, y) <=> IsAnsweredBefore(x, y)'
  BY <1>2, <1>3 DEF OnItsWay, IsResolved, IsBefore, IsAnsweredBefore
<1>5. /\ refreshes' \in [Refreshers -> RefreshRecords] /\ refreshes'[r] = NoRefresh
      /\ \A x \in Refreshers \ {r} : refreshes'[x] = refreshes[x]
      /\ NoRefresh.got = NotYet
  <2>1. NoRefresh \in RefreshRecords
    BY FramesAssumption DEF NoRefresh, NotYet, RefreshRecords, KnownStates
  <2> QED BY <2>1, <1>1, <1>2 DEF FramesTypeOK, NoRefresh
<1>6. FramesTypeOK' /\ AgentOK' /\ AnswersOK' /\ TextComes' /\ AskedOnce' /\ ResolvedOnce'
  <2>1. FramesTypeOK' /\ AgentOK' /\ AnswersOK' /\ TextComes' /\ ResolvedOnce'
    BY <1>1, <1>2, <1>5 DEF FramesTypeOK, AgentOK, AnswersOK, TextComes, ResolvedOnce
  <2>2. AskedOnce'
    BY <1>1, <1>3 DEF AskedOnce
  <2> QED BY <2>1, <2>2
<1>7. FollowsAll' /\ ShownShellsRun'
  BY <1>2 DEF FramesInv, FollowsAll, ShownShellsRun
<1>8. RefreshOK'
  <2> SUFFICES ASSUME NEW x \in Refreshers
               PROVE  /\ refreshes'[x] # NoRefresh =>
                           /\ refreshes'[x].kind # "none"
                           /\ (refreshes'[x].got = NotYet <=> OnItsWay("get_state", x)')
                           /\ (~refreshes'[x].stats <=> OnItsWay("get_session_stats", x)')
                           /\ (IsResolved(x)' <=> refreshes'[x].got # NotYet /\ refreshes'[x].stats)
                      /\ refreshes'[x] = NoRefresh => ~IsResolved(x)'
    BY DEF RefreshOK
  <2>1. CASE x = r
    BY <2>1, <1>2, <1>4, <1>5
  <2>2. CASE x # r
    <3>1. refreshes'[x] = refreshes[x]
      BY <2>2, <1>5
    <3> QED BY <3>1, <1>1, <1>4 DEF RefreshOK
  <2> QED BY <2>1, <2>2
<1>9. RunsEndOnce'
  <2>1. ASSUME NEW x \in Runs, NotAsked(x) PROVE NotAsked(x)'
    <3>1. x \in Refreshers /\ refreshes[x] = NoRefresh
      BY <2>1 DEF Refreshers, NotAsked
    <3>2. refreshes'[x] = NoRefresh
      BY <3>1, <1>5
    <3> QED BY <2>1, <3>2, <1>4 DEF NotAsked
  <2> QED BY <2>1, <1>1, <1>2, <1>3 DEF RunsEndOnce
<1>10. EndInv'
  <2> SUFFICES ASSUME ~agent.runs, run \notin missed, run # r PROVE EndIsTold' \/ EndIsAsked' \/ EndIsKnown'
    BY <1>2 DEF EndInv
  <2>1. EndIsTold \/ EndIsAsked \/ EndIsKnown
    BY <1>1 DEF EndInv
  <2>3. ASSUME NEW x \in Refreshers, IsOld(x)' PROVE IsOld(x) /\ x # r
    BY <2>3, <1>2, <1>5 DEF IsOld, IsSo
  <2>4. CASE EndIsAsked
    <3>1. PICK y \in Runs : y = run
      BY <2>4 DEF EndIsAsked
    <3>2. y # r /\ y \in Refreshers /\ run' = y
      BY <1>2, <3>1 DEF Refreshers
    <3>3. refreshes'[y] = refreshes[y] /\ refreshes[y].kind = "all" /\ ~IsOld(y) /\ SoFrom(1)
      BY <3>1, <3>2, <1>5, <2>4 DEF EndIsAsked
    <3>4. ~IsOld(y)' /\ SoFrom(1)'
      BY <3>2, <3>3, <1>3, <2>3
    <3>7. ASSUME NEW x \in Refreshers, IsOld(x)'
          PROVE  IF IsResolved(y)' THEN IsBefore(x, y)' ELSE IsResolved(x)' \/ IsAnsweredBefore(x, y)'
      <4>1. IF IsResolved(y) THEN IsBefore(x, y) ELSE IsResolved(x) \/ IsAnsweredBefore(x, y)
        BY <2>3, <2>4, <3>1, <3>7 DEF EndIsAsked
      <4> QED BY <4>1, <1>4
    <3> QED BY <3>1, <3>2, <3>3, <3>4, <3>7 DEF EndIsAsked
  <2>5. CASE EndIsKnown
    BY <2>5, <2>3, <1>2, <1>3 DEF EndIsKnown, IsSo
  <2> QED BY <2>1, <1>3, <2>4, <2>5
<1> QED BY <1>6, <1>7, <1>8, <1>9, <1>10 DEF FramesInv

\* Taken out of the resolved, the rest stay in their order.
LEMMA RemovedWay ==
  ASSUME NEW S, NEW s \in Seq(S), NEW i \in DOMAIN s
  PROVE  /\ RemoveAt(s, i) \in Seq(S)
         /\ \A k \in DOMAIN s : k < i => k \in DOMAIN RemoveAt(s, i) /\ RemoveAt(s, i)[k] = s[k]
         /\ \A k \in DOMAIN s : k > i => k - 1 \in DOMAIN RemoveAt(s, i) /\ RemoveAt(s, i)[k - 1] = s[k]
         /\ \A k \in DOMAIN RemoveAt(s, i) : \/ k < i /\ k \in DOMAIN s /\ RemoveAt(s, i)[k] = s[k]
                                             \/ k >= i /\ k + 1 \in DOMAIN s /\ RemoveAt(s, i)[k] = s[k + 1]
<1>1. DOMAIN s = 1 .. Len(s) /\ Len(s) \in Nat /\ i \in 1 .. Len(s)
  OBVIOUS
<1> DEFINE a == SubSeq(s, 1, i - 1)
           b == SubSeq(s, i + 1, Len(s))
<1>2. /\ a \in Seq(S) /\ Len(a) = i - 1 /\ \A k \in 1 .. i - 1 : a[k] = s[k]
  <2>1. \A k \in 1 .. i - 1 : s[k] \in S
    BY <1>1
  <2>2. CASE i = 1
    BY <1>1, <2>2
  <2>3. CASE i > 1
    BY <1>1, <2>1, <2>3
  <2> QED BY <1>1, <2>2, <2>3
<1>3. /\ b \in Seq(S) /\ Len(b) = Len(s) - i /\ \A k \in 1 .. Len(s) - i : b[k] = s[i + k]
  <2>1. CASE i = Len(s)
    BY <1>1, <2>1
  <2>2. CASE i < Len(s)
    BY <1>1, <2>2
  <2> QED BY <1>1, <2>1, <2>2
<1>4. RemoveAt(s, i) = a \o b
  BY DEF RemoveAt
<1> HIDE DEF a, b
<1>5. /\ (a \o b) \in Seq(S) /\ Len(a \o b) = Len(s) - 1 /\ DOMAIN (a \o b) = 1 .. Len(s) - 1
      /\ \A k \in 1 .. i - 1 : (a \o b)[k] = s[k]
  <2>0. a \in Seq(S) /\ b \in Seq(S)
    BY <1>2, <1>3
  <2>1. (a \o b) \in Seq(S) /\ Len(a \o b) = Len(a) + Len(b)
    BY <2>0, ConcatProperties
  <2>2. Len(a \o b) = Len(s) - 1
    <3>1. i - 1 + (Len(s) - i) = Len(s) - 1
      BY <1>1
    <3> QED BY <3>1, <2>1, <1>2, <1>3
  <2>3. \A k \in 1 .. Len(a) : (a \o b)[k] = a[k]
    BY <1>2, <1>3
  <2>4. \A k \in 1 .. i - 1 : (a \o b)[k] = s[k]
    BY <2>3, <1>2
  <2> QED BY <2>1, <2>2, <2>4
<1>6. \A k \in i .. Len(s) - 1 : (a \o b)[k] = s[k + 1]
  <2> SUFFICES ASSUME NEW k \in i .. Len(s) - 1 PROVE (a \o b)[k] = s[k + 1]
    OBVIOUS
  <2>1. k - (i - 1) \in 1 .. Len(s) - i /\ i + (k - (i - 1)) = k + 1 /\ k \in 1 .. Len(a) + Len(b) /\ ~(k <= Len(a))
    BY <1>1, <1>2, <1>3
  <2>2. (a \o b)[k] = b[k - Len(a)]
    BY <2>1, <1>2, <1>3
  <2> QED BY <2>1, <2>2, <1>2, <1>3
<1>7. ASSUME NEW k \in DOMAIN s, k > i PROVE k - 1 \in DOMAIN (a \o b) /\ (a \o b)[k - 1] = s[k]
  <2>1. k - 1 \in i .. Len(s) - 1 /\ k - 1 \in 1 .. Len(s) - 1 /\ (k - 1) + 1 = k
    BY <1>1, <1>7
  <2> QED BY <2>1, <1>5, <1>6
<1>8. ASSUME NEW k \in DOMAIN (a \o b)
      PROVE  \/ k < i /\ k \in DOMAIN s /\ (a \o b)[k] = s[k]
             \/ k >= i /\ k + 1 \in DOMAIN s /\ (a \o b)[k] = s[k + 1]
  <2>1. k \in 1 .. Len(s) - 1
    BY <1>5
  <2>2. CASE k < i
    <3>1. k \in 1 .. i - 1 /\ k \in DOMAIN s
      BY <2>1, <2>2, <1>1
    <3> QED BY <2>2, <3>1, <1>5
  <2>3. CASE k >= i
    BY <2>1, <2>3, <1>1, <1>6
  <2> QED BY <2>1, <2>2, <2>3, <1>1
<1>9. ASSUME NEW k \in DOMAIN s, k < i PROVE k \in DOMAIN (a \o b) /\ (a \o b)[k] = s[k]
  <2>1. k \in 1 .. i - 1 /\ k \in 1 .. Len(s) - 1
    BY <1>1, <1>9
  <2> QED BY <2>1, <1>5
<1> QED BY <1>4, <1>5, <1>7, <1>8, <1>9

\* What the refresh of an end replaces is older; another is not older than what it leaves.
LEMMA ReplacesKeeps ==
  ASSUME FramesInv, NEW i \in DOMAIN resolved, Replaces(i)
  PROVE  FramesInv'
<1>1. FramesTypeOK /\ AgentOK /\ AnswersOK /\ AskedOnce /\ RefreshOK /\ ResolvedOnce /\ RunsEndOnce /\ EndInv /\ TextComes
  BY DEF FramesInv
<1>r. PICK r \in Refreshers : r = resolved[i]
  BY <1>1 DEF FramesTypeOK
<1>2. /\ UNCHANGED <<agent, run, line, inbox, partial, missed, shells, bash, follower>>
      /\ refreshes' = [refreshes EXCEPT ![r] = NoRefresh]
      /\ known' = refreshes[r].got /\ resolved' = RemoveAt(resolved, i)
      /\ i = 1 \/ refreshes[r].kind = "state"
  BY <1>r DEF Replaces, process, shelling
<1>3. /\ \A j, t, x : IsSent(j, t, x)' <=> IsSent(j, t, x)
      /\ \A j, t, x : IsAsked(j, t, x)' <=> IsAsked(j, t, x)
      /\ \A k : SoFrom(k)' <=> SoFrom(k)
      /\ EndIsTold => EndIsTold'
  BY <1>2, QuietWay DEF IsAsked
<1>4. /\ \A t, x : OnItsWay(t, x)' <=> OnItsWay(t, x)
      /\ \A x, y : IsAnsweredBefore(x, y) <=> IsAnsweredBefore(x, y)'
  BY <1>2, <1>3 DEF OnItsWay, IsAnsweredBefore
<1>5. /\ refreshes' \in [Refreshers -> RefreshRecords] /\ refreshes'[r] = NoRefresh
      /\ \A x \in Refreshers \ {r} : refreshes'[x] = refreshes[x]
      /\ NoRefresh.got = NotYet
  <2>1. NoRefresh \in RefreshRecords
    BY FramesAssumption DEF NoRefresh, NotYet, RefreshRecords, KnownStates
  <2> QED BY <2>1, <1>1, <1>2 DEF FramesTypeOK, NoRefresh
<1>6. IsResolved(r) /\ refreshes[r] # NoRefresh /\ refreshes[r].got # NotYet /\ refreshes[r].got \in KnownStates
  BY <1>1, <1>r DEF IsResolved, RefreshOK, FramesTypeOK, RefreshRecords
<1>7. /\ resolved' \in Seq(Refreshers)
      /\ \A k \in DOMAIN resolved : k < i => k \in DOMAIN resolved' /\ resolved'[k] = resolved[k]
      /\ \A k \in DOMAIN resolved : k > i => k - 1 \in DOMAIN resolved' /\ resolved'[k - 1] = resolved[k]
      /\ \A k \in DOMAIN resolved' : \/ k < i /\ k \in DOMAIN resolved /\ resolved'[k] = resolved[k]
                                     \/ k >= i /\ k + 1 \in DOMAIN resolved /\ resolved'[k] = resolved[k + 1]
      /\ \A k \in DOMAIN resolved : k \in Nat \ {0}
      /\ \A k \in DOMAIN resolved' : k \in Nat \ {0}
      /\ i \in Nat \ {0}
  <2>1. resolved \in Seq(Refreshers)
    BY <1>1 DEF FramesTypeOK
  <2>2. \A R : R = RemoveAt(resolved, i) =>
          /\ R \in Seq(Refreshers)
          /\ \A k \in DOMAIN resolved : k < i => k \in DOMAIN R /\ R[k] = resolved[k]
          /\ \A k \in DOMAIN resolved : k > i => k - 1 \in DOMAIN R /\ R[k - 1] = resolved[k]
          /\ \A k \in DOMAIN R : \/ k < i /\ k \in DOMAIN resolved /\ R[k] = resolved[k]
                                 \/ k >= i /\ k + 1 \in DOMAIN resolved /\ R[k] = resolved[k + 1]
    BY <2>1, RemovedWay
  <2>3. /\ resolved' \in Seq(Refreshers)
        /\ \A k \in DOMAIN resolved : k < i => k \in DOMAIN resolved' /\ resolved'[k] = resolved[k]
        /\ \A k \in DOMAIN resolved : k > i => k - 1 \in DOMAIN resolved' /\ resolved'[k - 1] = resolved[k]
        /\ \A k \in DOMAIN resolved' : \/ k < i /\ k \in DOMAIN resolved /\ resolved'[k] = resolved[k]
                                       \/ k >= i /\ k + 1 \in DOMAIN resolved /\ resolved'[k] = resolved[k + 1]
    BY <1>2, <2>2
  <2>4. /\ \A k \in DOMAIN resolved : k \in Nat \ {0}
        /\ \A k \in DOMAIN resolved' : k \in Nat \ {0}
    BY <2>1, <2>3
  <2> QED BY <2>3, <2>4
<1>8. \A x : IsResolved(x)' <=> IsResolved(x) /\ x # r
  <2> SUFFICES ASSUME NEW x PROVE IsResolved(x)' <=> IsResolved(x) /\ x # r
    OBVIOUS
  <2>1. ASSUME IsResolved(x), x # r PROVE IsResolved(x)'
    <3>1. PICK k \in DOMAIN resolved : resolved[k] = x
      BY <2>1 DEF IsResolved
    <3>2. k # i /\ k \in Nat /\ i \in Nat
      BY <2>1, <3>1, <1>r, <1>7
    <3>3. k < i \/ k > i
      BY <3>2
    <3>4. (k \in DOMAIN resolved' /\ resolved'[k] = x) \/ (k - 1 \in DOMAIN resolved' /\ resolved'[k - 1] = x)
      BY <3>1, <3>3, <1>7
    <3> QED BY <3>4 DEF IsResolved
  <2>2. ASSUME IsResolved(x)' PROVE IsResolved(x) /\ x # r
    <3>1. PICK k \in DOMAIN resolved' : resolved'[k] = x
      BY <2>2 DEF IsResolved
    <3>2. PICK m \in DOMAIN resolved : resolved[m] = x /\ m # i
      <4>1. CASE k < i
        BY <4>1, <3>1, <1>7
      <4>2. CASE ~(k < i)
        <5>1. k + 1 \in DOMAIN resolved /\ resolved[k + 1] = x /\ k + 1 # i
          BY <4>2, <3>1, <1>7
        <5> QED BY <5>1
      <4> QED BY <4>1, <4>2
    <3> QED BY <3>2, <1>1, <1>r DEF IsResolved, ResolvedOnce
  <2> QED BY <2>1, <2>2
<1>9. ASSUME NEW x, NEW y, x # r, y # r, IsBefore(x, y) PROVE IsBefore(x, y)'
  <2>1. PICK p \in DOMAIN resolved, q \in DOMAIN resolved : resolved[p] = x /\ resolved[q] = y /\ p < q
    BY <1>9 DEF IsBefore
  <2>2. p # i /\ q # i /\ p \in Nat /\ q \in Nat /\ i \in Nat
    BY <1>9, <2>1, <1>r, <1>7
  <2>3. CASE q < i
    <3>1. p < i /\ q < i
      BY <2>1, <2>2, <2>3
    <3>2. p \in DOMAIN resolved' /\ q \in DOMAIN resolved' /\ resolved'[p] = x /\ resolved'[q] = y
      BY <2>1, <3>1, <1>7
    <3> QED BY <2>1, <3>2 DEF IsBefore
  <2>4. CASE p < i /\ q > i
    <3>1. p \in DOMAIN resolved' /\ q - 1 \in DOMAIN resolved' /\ resolved'[p] = x /\ resolved'[q - 1] = y /\ p < q - 1
      BY <2>1, <2>2, <2>4, <1>7
    <3> QED BY <3>1 DEF IsBefore
  <2>5. CASE p > i
    <3>1. p > i /\ q > i /\ p - 1 < q - 1
      BY <2>1, <2>2, <2>5
    <3>2. p - 1 \in DOMAIN resolved' /\ q - 1 \in DOMAIN resolved' /\ resolved'[p - 1] = x /\ resolved'[q - 1] = y
      BY <2>1, <3>1, <1>7
    <3> QED BY <3>1, <3>2 DEF IsBefore
  <2> QED BY <2>2, <2>3, <2>4, <2>5
<1>10. ResolvedOnce'
  <2> SUFFICES ASSUME NEW p \in DOMAIN resolved', NEW q \in DOMAIN resolved', resolved'[p] = resolved'[q] PROVE p = q
    BY DEF ResolvedOnce
  <2>1. PICK m \in DOMAIN resolved : resolved[m] = resolved'[p] /\ ((p < i /\ m = p) \/ (p >= i /\ m = p + 1))
    BY <1>7
  <2>2. PICK n \in DOMAIN resolved : resolved[n] = resolved'[q] /\ ((q < i /\ n = q) \/ (q >= i /\ n = q + 1))
    BY <1>7
  <2>3. m = n
    BY <2>1, <2>2, <1>1 DEF ResolvedOnce
  <2>4. p \in Nat /\ q \in Nat /\ i \in Nat
    BY <1>7
  <2> QED BY <2>1, <2>2, <2>3, <2>4
<1>11. FramesTypeOK' /\ AgentOK' /\ AnswersOK' /\ TextComes' /\ AskedOnce'
  <2>1. FramesTypeOK' /\ AgentOK' /\ AnswersOK' /\ TextComes'
    <3>1. FramesTypeOK'
      BY <1>1, <1>2, <1>5, <1>6, <1>7 DEF FramesTypeOK
    <3> QED BY <3>1, <1>1, <1>2 DEF AgentOK, AnswersOK, TextComes
  <2>2. AskedOnce'
    BY <1>1, <1>3 DEF AskedOnce
  <2> QED BY <2>1, <2>2
<1>12. FollowsAll' /\ ShownShellsRun'
  BY <1>2 DEF FramesInv, FollowsAll, ShownShellsRun
<1>13. RefreshOK'
  <2> SUFFICES ASSUME NEW x \in Refreshers
               PROVE  /\ refreshes'[x] # NoRefresh =>
                           /\ refreshes'[x].kind # "none"
                           /\ (refreshes'[x].got = NotYet <=> OnItsWay("get_state", x)')
                           /\ (~refreshes'[x].stats <=> OnItsWay("get_session_stats", x)')
                           /\ (IsResolved(x)' <=> refreshes'[x].got # NotYet /\ refreshes'[x].stats)
                      /\ refreshes'[x] = NoRefresh => ~IsResolved(x)'
    BY DEF RefreshOK
  <2>1. CASE x = r
    BY <2>1, <1>5, <1>8
  <2>2. CASE x # r
    <3>1. refreshes'[x] = refreshes[x]
      BY <2>2, <1>5
    <3>2. IsResolved(x)' <=> IsResolved(x)
      BY <2>2, <1>8
    <3> QED BY <3>1, <3>2, <1>1, <1>4 DEF RefreshOK
  <2> QED BY <2>1, <2>2
<1>14. RunsEndOnce'
  <2>1. ASSUME NEW x \in Runs, NotAsked(x) PROVE NotAsked(x)'
    <3>1. x \in Refreshers /\ refreshes[x] = NoRefresh
      BY <2>1 DEF Refreshers, NotAsked
    <3>2. refreshes'[x] = NoRefresh
      BY <3>1, <1>5
    <3> QED BY <2>1, <3>2, <1>4 DEF NotAsked
  <2> QED BY <2>1, <1>1, <1>2, <1>3 DEF RunsEndOnce
<1>15. EndInv'
  <2> SUFFICES ASSUME ~agent.runs, run \notin missed PROVE EndIsTold' \/ EndIsAsked' \/ EndIsKnown'
    BY <1>2 DEF EndInv
  <2>1. EndIsTold \/ EndIsAsked \/ EndIsKnown
    BY <1>1 DEF EndInv
  <2>2. ASSUME NEW x \in Refreshers, IsOld(x)' PROVE IsOld(x) /\ x # r
    BY <2>2, <1>2, <1>5 DEF IsOld, IsSo
  <2>3. ASSUME SoFrom(1), ~IsOld(r), \A x \in Refreshers \ {r} : ~IsOld(x) PROVE EndIsKnown'
    <3>1. IsSo(refreshes[r].got)
      BY <2>3, <1>6 DEF IsOld
    <3>2. IsSo(known)'
      BY <3>1, <1>2 DEF IsSo
    <3>3. \A x \in Refreshers : ~IsOld(x)'
      BY <2>2, <2>3
    <3> QED BY <2>3, <3>2, <3>3, <1>3 DEF EndIsKnown
  <2>4. CASE EndIsAsked
    <3>1. PICK y \in Runs : y = run
      BY <2>4 DEF EndIsAsked
    <3>2. y \in Refreshers /\ run' = y
      BY <1>2, <3>1 DEF Refreshers
    <3>3. refreshes[y].kind = "all" /\ ~IsOld(y) /\ SoFrom(1)
      BY <3>1, <2>4 DEF EndIsAsked
    <3>4. ASSUME NEW x \in Refreshers, IsOld(x) PROVE IF IsResolved(y) THEN IsBefore(x, y) ELSE IsResolved(x) \/ IsAnsweredBefore(x, y)
      BY <2>4, <3>1, <3>4 DEF EndIsAsked
    <3>5. CASE y = r
      <4>1. i = 1
        BY <3>3, <3>5, <1>2
      <4>2. ASSUME NEW x \in Refreshers, IsOld(x) PROVE FALSE
        <5>1. IsBefore(x, r)
          BY <3>4, <3>5, <4>2, <1>6
        <5>2. PICK p \in DOMAIN resolved, q \in DOMAIN resolved : resolved[q] = r /\ p < q
          BY <5>1 DEF IsBefore
        <5>3. q = i
          BY <5>2, <1>r, <1>1 DEF ResolvedOnce
        <5>4. p \in Nat \ {0} /\ p < 1
          BY <5>2, <5>3, <4>1, <1>7
        <5> QED BY <5>4
      <4> QED BY <4>2, <3>3, <3>5, <2>3
    <3>6. CASE y # r
      <4>1. refreshes'[y] = refreshes[y] /\ ~IsOld(y)' /\ SoFrom(1)' /\ (IsResolved(y)' <=> IsResolved(y))
        BY <3>2, <3>3, <3>6, <1>3, <1>5, <1>8, <2>2
      <4>2. ASSUME NEW x \in Refreshers, IsOld(x)'
            PROVE  IF IsResolved(y)' THEN IsBefore(x, y)' ELSE IsResolved(x)' \/ IsAnsweredBefore(x, y)'
        <5>1. x # r /\ IF IsResolved(y) THEN IsBefore(x, y) ELSE IsResolved(x) \/ IsAnsweredBefore(x, y)
          BY <4>2, <2>2, <3>4
        <5> QED BY <5>1, <4>1, <3>6, <1>4, <1>8, <1>9
      <4> QED BY <3>1, <3>2, <3>3, <4>1, <4>2 DEF EndIsAsked
    <3> QED BY <3>5, <3>6
  <2>5. CASE EndIsKnown
    BY <2>5, <2>3, <1>r DEF EndIsKnown
  <2> QED BY <2>1, <1>3, <2>4, <2>5
<1> QED BY <1>10, <1>11, <1>12, <1>13, <1>14, <1>15 DEF FramesInv

------------------------------------------------------------------------------
(* The specification *)

\* Shell commands are known by their requests alone.
LEMMA ClientsKeep ==
  ASSUME FramesInv, NEW c \in Callers, NEW ok \in BOOLEAN, ShellBegins(c) \/ ShellIsOver(c, ok)
  PROVE  FramesInv'
<1>1. UNCHANGED framesInside
  BY DEF ShellBegins, ShellIsOver, framesInside, process, asking, shelling
<1>2. FollowsAll'
  BY DEF FramesInv, FollowsAll, ShellBegins, ShellIsOver
<1>3. ShownShellsRun'
  BY DEF FramesInv, ShownShellsRun, ShellBegins, ShellIsOver, ShellShown, shelling
<1> QED BY <1>1, <1>2, <1>3, FramesRest

LEMMA FollowKeeps ==
  ASSUME FramesInv, Follow
  PROVE  FramesInv'
<1>1. UNCHANGED framesInside /\ FollowsAll' /\ ShownShellsRun'
  BY DEF Follow, framesInside, process, asking, shelling, FramesInv, FollowsAll, ShownShellsRun
<1> QED BY <1>1, FramesRest

LEMMA FramesStep == FramesInv /\ [OmpFramesNext]_ompFrameVars => FramesInv'
<1> SUFFICES ASSUME FramesInv, [OmpFramesNext]_ompFrameVars PROVE FramesInv'
  OBVIOUS
<1>1. CASE ProcessSpeaks BY <1>1, SpeaksKeeps
<1>2. CASE ProcessAnswers BY <1>2, ProcessAnswersKeeps
<1>3. CASE HandleFrame BY <1>3, FrameKeeps
<1>4. CASE HandleAnswer BY <1>4, AnswerReadKeeps
<1>5. CASE Follow BY <1>5, FollowKeeps
<1>6. ASSUME NEW i \in DOMAIN resolved, Replaces(i) PROVE FramesInv' BY <1>6, ReplacesKeeps
<1>7. ASSUME NEW c \in Callers, NEW kind \in {"all", "state"}, RefreshFor(c, kind) PROVE FramesInv' BY <1>7, RefreshForKeeps
<1>8. ASSUME NEW c \in Callers, ShellBegins(c) PROVE FramesInv' BY <1>8, ClientsKeep
<1>9. ASSUME NEW c \in Callers, NEW ok \in BOOLEAN, ShellIsOver(c, ok) PROVE FramesInv' BY <1>9, ClientsKeep
<1>10. ASSUME NEW r \in Refreshers, RefreshFails(r) PROVE FramesInv' BY <1>10, RefreshFailsKeeps
<1>11. CASE UNCHANGED ompFrameVars
  <2>1. UNCHANGED framesInside /\ FollowsAll' /\ ShownShellsRun'
    BY <1>11 DEF ompFrameVars, framesInside, FramesInv, FollowsAll, ShownShellsRun
  <2> QED BY <2>1, FramesRest
<1> QED BY <1>1, <1>2, <1>3, <1>4, <1>5, <1>6, <1>7, <1>8, <1>9, <1>10, <1>11 DEF OmpFramesNext

\* With nothing on its way and nothing to replace, only EndIsKnown is left.
LEMMA RestFollows == FramesInv => RestIsKnown
<1> SUFFICES ASSUME FramesInv, line = <<>>, inbox = <<>>, resolved = <<>>, ~agent.runs, run \notin missed
             PROVE  ~known.runs /\ known.said = agent.said
  BY DEF RestIsKnown
<1>1. DOMAIN line = {} /\ DOMAIN inbox = {} /\ DOMAIN resolved = {}
  OBVIOUS
<1>2. EndIsTold \/ EndIsAsked \/ EndIsKnown
  BY DEF FramesInv, EndInv
<1>3. ~EndIsTold
  BY <1>1 DEF EndIsTold
<1>4. ~EndIsAsked
  <2> SUFFICES ASSUME EndIsAsked PROVE FALSE
    OBVIOUS
  <2>1. PICK y \in Runs : y = run
    BY DEF EndIsAsked
  <2>2. y \in Refreshers /\ refreshes[y] # NoRefresh
    BY <2>1 DEF EndIsAsked, Refreshers, NoRefresh
  <2>3. \A t : ~OnItsWay(t, y)
    BY <1>1 DEF OnItsWay, IsSent, IsAsked
  <2>4. IsResolved(y)
    BY <2>2, <2>3 DEF FramesInv, RefreshOK
  <2> QED BY <2>4, <1>1 DEF IsResolved
<1> QED BY <1>2, <1>3, <1>4 DEF EndIsKnown, IsSo

\* With nothing to come there is nothing more of the message.
LEMMA SnapshotsFollow == FramesInv => SnapshotsAreCurrent
<1> SUFFICES ASSUME FramesInv, line = <<>> PROVE partial = agent.text
  BY DEF FramesInv, FollowsAll, SnapshotsAreCurrent
<1>1. Len(line) = 0
  OBVIOUS
<1> QED BY <1>1 DEF FramesInv, TextComes

FramesSpec == OmpFramesInit /\ [][OmpFramesNext]_ompFrameVars

\* What a runtime tells of its process is so once all was read: a run that is over is not shown as
\* running, and its messages are counted, whatever refreshes were under way when it ended
\* (ompSessionRuntime.ts reduceFrame, refresh).
THEOREM RestIsAlwaysKnown == FramesSpec => []RestIsKnown
<1>1. FramesSpec => []FramesInv BY FramesBegin, FramesStep, PTL DEF FramesSpec
<1>2. QED BY <1>1, RestFollows, PTL

\* A snapshot, and the events published after it, show what was read of a message, and all of
\* it once everything was read; no shell command is shown to run when none does
\* (ompSessionRuntime.ts handleFrame, streamSnapshot, shell).
THEOREM SnapshotsStayCurrent == FramesSpec => [](SnapshotsAreCurrent /\ ShownShellsRun)
<1>1. FramesSpec => []FramesInv BY FramesBegin, FramesStep, PTL DEF FramesSpec
<1>2. FramesInv => SnapshotsAreCurrent /\ ShownShellsRun BY SnapshotsFollow DEF FramesInv
<1>3. QED BY <1>1, <1>2, PTL
============================================================================
