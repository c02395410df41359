------------------------------ MODULE LoginFlows ------------------------------
(* Login flows: a provider's login asks, stores a credential and resolves, while *)
(* clients answer and cancel, and timers expire and evict the flow.              *)
EXTENDS Naturals, FiniteSets

CONSTANTS Flows,     \* logins that can be started
          MaxPrompts \* bound: prompts of one login

VARIABLES status,   \* "none", "running", "complete", "error", "cancelled"; "gone" once evicted
          pending,  \* the request a response can settle; 0 for none
          shown,    \* the request the flow's state shows
          asked,    \* prompts so far
          waits,    \* prompts whose promise is not settled
          login,    \* the provider's login: "off", "runs", "stored", "resolved" or "over"
          saved,   \* the credential was saved
          told,     \* the sessions were told of the change of credentials
          closed

loginVars == <<status, pending, shown, asked, waits, login, saved, told, closed>>
outcome == <<saved, told, closed>>

Running(f) == status[f] = "running"
Kept(f) == status[f] \notin {"none", "gone"}

\* A mutated end that forgets the pending prompt without rejecting it.
Forgotten(f) ==
  /\ pending' = [pending EXCEPT ![f] = 0]
  /\ shown' = [shown EXCEPT ![f] = 0]
  /\ UNCHANGED waits

\* clearPending, withoutInteraction and the rejection of the pending prompt.
Dropped(f) ==
  /\ pending' = [pending EXCEPT ![f] = 0]
  /\ shown' = [shown EXCEPT ![f] = 0]
  /\ waits' = [waits EXCEPT ![f] = @ \ {pending[f]}]

StartLogin(f) ==
  /\ ~closed /\ status[f] = "none"
  /\ status' = [status EXCEPT ![f] = "running"]
  /\ login' = [login EXCEPT ![f] = "runs"]
  /\ UNCHANGED <<pending, shown, asked, waits, outcome>>

\* handlePrompt: the provider asks one thing at a time.
Prompt(f) ==
  /\ login[f] = "runs" /\ waits[f] = {} /\ asked[f] < MaxPrompts
  /\ IF Running(f)
     THEN LET r == asked[f] + 1
          IN /\ asked' = [asked EXCEPT ![f] = r]
             /\ waits' = [waits EXCEPT ![f] = {r}]
             /\ pending' = [pending EXCEPT ![f] = r]
             /\ shown' = [shown EXCEPT ![f] = r]
             /\ UNCHANGED login
     ELSE /\ login' = [login EXCEPT ![f] = "over"] \* the prompt is rejected, and the login with it
          /\ UNCHANGED <<asked, waits, pending, shown>>
  /\ UNCHANGED <<status, outcome>>

\* The client answers the request it was shown; a late answer is refused.
Respond(f, r) ==
  /\ Running(f) /\ pending[f] = r /\ r # 0
  /\ Dropped(f)
  /\ UNCHANGED <<status, asked, login, outcome>>

\* A prompt's own signal, when a callback server got the code first.
SignalAborts(f) ==
  /\ Kept(f) /\ pending[f] # 0
  /\ Dropped(f)
  /\ UNCHANGED <<status, asked, login, outcome>>

Cancel(f) ==
  /\ Running(f)
  /\ Dropped(f)
  /\ status' = [status EXCEPT ![f] = "cancelled"]
  /\ UNCHANGED <<asked, login, outcome>>

Expire(f) ==
  /\ Running(f)
  /\ Dropped(f)
  /\ status' = [status EXCEPT ![f] = "error"]
  /\ UNCHANGED <<asked, login, outcome>>

Evict(f) ==
  /\ status[f] \in {"complete", "error", "cancelled"}
  /\ status' = [status EXCEPT ![f] = "gone"]
  /\ UNCHANGED <<pending, shown, asked, waits, login, outcome>>

\* The provider stores the credential; a cancellation may come after that.
Store(f) ==
  /\ login[f] = "runs" /\ waits[f] = {}
  /\ login' = [login EXCEPT ![f] = "stored"]
  /\ saved' = [saved EXCEPT ![f] = TRUE]
  /\ UNCHANGED <<status, pending, shown, asked, waits, told, closed>>

LoginFails(f) ==
  /\ login[f] = "runs" /\ waits[f] = {}
  /\ login' = [login EXCEPT ![f] = "over"]
  /\ IF Running(f)
     THEN Dropped(f) /\ status' = [status EXCEPT ![f] = "error"]
     ELSE UNCHANGED <<pending, shown, waits, status>>
  /\ UNCHANGED <<asked, outcome>>

\* reconcileCommittedLogin, up to the callback it awaits.
Resolve(f) ==
  /\ login[f] = "stored"
  /\ login' = [login EXCEPT ![f] = "resolved"]
  /\ pending' = IF Kept(f) THEN [pending EXCEPT ![f] = 0] ELSE pending
  /\ told' = [told EXCEPT ![f] = ~closed]
  /\ UNCHANGED <<status, shown, asked, waits, saved, closed>>

\* A mutated reconciliation that respects a cancellation.
ReconcilesRunning(f) == Running(f)

\* A committed login counts whatever the flow says by then.
Reconciles(f) == Kept(f)

Complete(f) ==
  /\ login[f] = "resolved"
  /\ login' = [login EXCEPT ![f] = "over"]
  /\ status' = IF Reconciles(f) THEN [status EXCEPT ![f] = "complete"] ELSE status
  /\ shown' = IF Reconciles(f) THEN [shown EXCEPT ![f] = 0] ELSE shown
  /\ UNCHANGED <<pending, asked, waits, outcome>>

DisposeFlows ==
  /\ ~closed
  /\ closed' = TRUE
  /\ status' = [f \in Flows |-> IF Kept(f) THEN "gone" ELSE status[f]]
  /\ waits' = [f \in Flows |-> waits[f] \ {pending[f]}]
  /\ pending' = [f \in Flows |-> 0] /\ shown' = [f \in Flows |-> 0]
  /\ UNCHANGED <<asked, login, saved, told>>

LoginInit ==
  /\ status = [f \in Flows |-> "none"] /\ login = [f \in Flows |-> "off"]
  /\ pending = [f \in Flows |-> 0] /\ shown = [f \in Flows |-> 0]
  /\ asked = [f \in Flows |-> 0] /\ waits = [f \in Flows |-> {}]
  /\ saved = [f \in Flows |-> FALSE] /\ told = [f \in Flows |-> FALSE] /\ closed = FALSE

LoginNext ==
  \/ \E f \in Flows :
       \/ StartLogin(f) \/ Prompt(f) \/ SignalAborts(f) \/ Cancel(f) \/ Expire(f) \/ Evict(f)
       \/ Store(f) \/ LoginFails(f) \/ Resolve(f) \/ Complete(f)
       \/ \E r \in 1 .. MaxPrompts : Respond(f, r)
  \/ DisposeFlows

------------------------------------------------------------------------------

\* A flow shows a prompt only while it can be answered, but for the moment in which a
\* committed login tells the sessions (oauthLoginFlowService.ts respond).
ShownCanBeAnswered ==
  \A f \in Flows : Kept(f) /\ login[f] # "resolved" => shown[f] = pending[f]

\* A login that saved its credential is shown as complete, also one that was cancelled or
\* expired meanwhile: "the resolved login is committed truth" (reconcileCommittedLogin).
CommittedIsComplete ==
  \A f \in Flows : login[f] = "over" /\ saved[f] /\ Kept(f) => status[f] = "complete"
=============================================================================
