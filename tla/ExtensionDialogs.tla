--------------------------- MODULE ExtensionDialogs ---------------------------
(* ExtensionInteractionService and its caller PiSessionService: the dialogs    *)
(* that extensions open, which clients answer while timeouts, abort signals,   *)
(* the closing and the rebinding of sessions and the daemon's end settle them. *)
(* A runtime serves one session at a time and may be rebound to another (by a  *)
(* fork, a clone or an import), which cancels the dialogs of the new session   *)
(* and not those of the one it leaves.                                         *)
EXTENDS Naturals, Sequences

CONSTANTS Dialogs, Owners, \* dialogs, and the sessions that open them
          Hosts,           \* runtimes, each of which serves a session
          Clients          \* clients, which answer

ASSUME DialogsAssumption == "none" \notin Hosts /\ "none" \notin Owners

VARIABLES dialog,    \* a dialog: its session, kind, and whether it has a timer and a signal
          pending,   \* the dialogs in the service's map
          resolved,  \* what each callback was given: a sequence of at most one response
          active,    \* the runtime that serves a session, or "none"
          opening,   \* the session whose extensions a new runtime binds, or "none"
          loose,     \* runtimes in no entry that a rebind may put into one
          extended,  \* sessions whose extensions were ever bound
          strays,    \* history: dialogs opened while no runtime served their session, or
                     \* waiting when a rebind or a creation that failed left it
          asking,    \* the request of a client: a dialog and a response, or NoRequest
          shown      \* the dialogs clients show, from the events they were sent

servingVars == <<active, opening, loose, extended>>
dialogVars == <<dialog, pending, resolved, servingVars, strays, asking, shown>>

Kinds == {"select", "confirm", "input", "editor"}

\* "selected" is an option that was offered, "unoffered" one that was not.
Responses == {"cancelled", "selected", "unoffered", "confirmed", "text"}
NoDialog == [owner |-> "none", kind |-> "none", timed |-> FALSE, signalled |-> FALSE]
NoRequest == [dialog |-> "none", response |-> "none"]

\* A mutated validation that takes any selection.
FitsAny(kind, response) ==
  \/ response = "cancelled"
  \/ kind = "select" /\ response \in {"selected", "unoffered"}
  \/ kind = "confirm" /\ response = "confirmed"
  \/ kind \in {"input", "editor"} /\ response = "text"

\* validateResponse
Fits(kind, response) ==
  \/ response = "cancelled"
  \/ kind = "select" /\ response = "selected"
  \/ kind = "confirm" /\ response = "confirmed"
  \/ kind \in {"input", "editor"} /\ response = "text"

\* A mutated settle that resolves without looking whether the dialog is pending.
SettleAgain(dialogs, response) ==
  /\ pending' = pending \ dialogs
  /\ resolved' = [d \in Dialogs |->
                    IF d \in dialogs THEN Append(resolved[d], response) ELSE resolved[d]]
  /\ shown' = shown \ dialogs

\* settle, for those of the dialogs that are pending still.
Settle(dialogs, response) ==
  LET settled == dialogs \intersect pending
  IN /\ pending' = pending \ settled
     /\ resolved' = [d \in Dialogs |->
                       IF d \in settled THEN Append(resolved[d], response) ELSE resolved[d]]
     /\ shown' = shown \ settled

\* What the entries of the active sessions and the creations under way say of a session.
Serves(entries, creations, s) == entries[s] # "none" \/ \E h \in Hosts : creations[h] = s

Served(s) == Serves(active, opening, s)

\* What the UI context of a session hands on: the options of a dialog, but for an editor.
MayOpen(kind, timed, signalled) == kind = "editor" => ~timed /\ ~signalled

\* open: a signal that was aborted before settles the dialog after it was announced.
OpenDialog(d, s, kind, timed, signalled, aborted) ==
  /\ dialog[d] = NoDialog /\ s \in extended
  /\ MayOpen(kind, timed, signalled)
  /\ aborted => signalled
  /\ dialog' = [dialog EXCEPT ![d] =
                  [owner |-> s, kind |-> kind, timed |-> timed, signalled |-> signalled]]
  /\ strays' = IF Served(s) THEN strays ELSE strays \union {d}
  /\ IF aborted
     THEN /\ resolved' = [resolved EXCEPT ![d] = <<"cancelled">>]
          /\ UNCHANGED <<pending, shown>>
     ELSE /\ pending' = pending \union {d}
          /\ shown' = shown \union {d}
          /\ UNCHANGED resolved
  /\ UNCHANGED <<servingVars, asking>>

\* respondToExtensionInteraction awaits the context first: of a reference with a
\* directory it takes the id as it is, whether the session is served or not.
Ask(c, d, response) ==
  /\ asking[c] = NoRequest /\ dialog[d] # NoDialog
  /\ asking' = [asking EXCEPT ![c] = [dialog |-> d, response |-> response]]
  /\ UNCHANGED <<dialog, pending, resolved, servingVars, strays, shown>>

\* It looks for the dialog among those of the session, and respond validates.
Respond(c) ==
  LET d == asking[c].dialog
      response == asking[c].response
  IN /\ asking[c] # NoRequest
     /\ asking' = [asking EXCEPT ![c] = NoRequest]
     /\ IF d \in pending /\ Fits(dialog[d].kind, response)
        THEN Settle({d}, response)
        ELSE UNCHANGED <<pending, resolved, shown>>
     /\ UNCHANGED <<dialog, servingVars, strays>>

\* The timer is cleared when the dialog is settled, and so is the listener of the
\* signal.
TimeoutFires(d) ==
  /\ d \in pending /\ dialog[d].timed
  /\ Settle({d}, "cancelled")
  /\ UNCHANGED <<dialog, servingVars, strays, asking>>

SignalAborts(d) ==
  /\ d \in pending /\ dialog[d].signalled
  /\ Settle({d}, "cancelled")
  /\ UNCHANGED <<dialog, servingVars, strays, asking>>

\* A mutated cancelSession that spares dialogs that can end by themselves.
OwnedForEver(s) == {d \in Dialogs : dialog[d].owner = s /\ ~dialog[d].timed}

OwnedBy(s) == {d \in Dialogs : dialog[d].owner = s}

\* A mutated binding that does not cancel.
BindOnly(s) == extended' = extended \union {s} /\ UNCHANGED <<pending, resolved, shown>>

\* bindSessionExtensions: what the session has open is cancelled, and its
\* extensions are bound, which may open dialogs.
BindTo(s) == extended' = extended \union {s} /\ Settle(OwnedBy(s), "cancelled")

\* The dialogs that wait for a session no runtime serves any more.
LeftBehind ==
  {d \in pending : Served(dialog[d].owner) /\ ~Serves(active', opening', dialog[d].owner)}

\* create, up to the binding of the extensions, which it awaits.
BindExtensions(h, s) ==
  /\ opening[h] = "none" /\ h \notin loose /\ \A t \in Owners : active[t] # h
  /\ opening' = [opening EXCEPT ![h] = s]
  /\ BindTo(s)
  /\ UNCHANGED <<dialog, active, loose, strays, asking>>

\* bindRuntime of a new runtime: an entry of another for the session is overwritten.
Bound(h) ==
  LET s == opening[h]
  IN /\ s # "none"
     /\ opening' = [opening EXCEPT ![h] = "none"]
     /\ active' = [active EXCEPT ![s] = h]
     /\ loose' = loose \union ({active[s]} \ {"none"})
     /\ UNCHANGED <<dialog, pending, resolved, extended, strays, asking, shown>>

\* create fails, before its entry is there or after (then it is removed): it
\* cancels no dialog.
BindFails(h, entered) ==
  LET s == opening[h]
  IN /\ s # "none"
     /\ opening' = [opening EXCEPT ![h] = "none"]
     /\ IF entered
        THEN /\ active' = [active EXCEPT ![s] = "none"]
             /\ loose' = loose \union ({active[s]} \ {"none"})
        ELSE UNCHANGED <<active, loose>>
     /\ strays' = strays \union LeftBehind
     /\ UNCHANGED <<dialog, pending, resolved, extended, asking, shown>>

\* The rebind of a runtime to the session t: bindRuntime drops the runtime's entries
\* and enters it for t, and bindSessionExtensions cancels the dialogs of t alone.
RebindRuntime(h, t) ==
  /\ h \in loose \/ \E s \in Owners : active[s] = h
  /\ active' = [s \in Owners |-> IF s = t THEN h ELSE IF active[s] = h THEN "none" ELSE active[s]]
  /\ loose' = (loose \union ({active[t]} \ {"none"})) \ {h}
  /\ UNCHANGED opening
  /\ BindTo(t)
  /\ strays' = strays \union LeftBehind
  /\ UNCHANGED <<dialog, asking>>

\* closeActive returns when the session has no entry; else it cancels before it
\* aborts, so extensions may open dialogs yet. A rebind that is under way goes on.
CloseOwner(s, rebinding) ==
  /\ active[s] # "none"
  /\ Settle(OwnedBy(s), "cancelled")
  /\ active' = [active EXCEPT ![s] = "none"]
  /\ loose' = IF rebinding THEN loose \union {active[s]} ELSE loose
  /\ UNCHANGED <<dialog, opening, extended, strays, asking>>

\* dispose
DisposeDialogs ==
  /\ active' = [s \in Owners |-> "none"]
  /\ loose' = {}
  /\ Settle(pending, "cancelled")
  /\ UNCHANGED <<dialog, opening, extended, strays, asking>>

DialogsInit ==
  /\ dialog = [d \in Dialogs |-> NoDialog]
  /\ pending = {}
  /\ resolved = [d \in Dialogs |-> <<>>]
  /\ active = [s \in Owners |-> "none"]
  /\ opening = [h \in Hosts |-> "none"]
  /\ loose = {} /\ extended = {} /\ strays = {}
  /\ asking = [c \in Clients |-> NoRequest]
  /\ shown = {}

DialogsNext ==
  \/ \E d \in Dialogs, s \in Owners, kind \in Kinds, timed, signalled, aborted \in BOOLEAN :
       OpenDialog(d, s, kind, timed, signalled, aborted)
  \/ \E c \in Clients, d \in Dialogs, response \in Responses : Ask(c, d, response)
  \/ \E c \in Clients : Respond(c)
  \/ \E d \in Dialogs : TimeoutFires(d) \/ SignalAborts(d)
  \/ \E h \in Hosts, s \in Owners : BindExtensions(h, s) \/ RebindRuntime(h, s)
  \/ \E h \in Hosts : Bound(h) \/ \E entered \in BOOLEAN : BindFails(h, entered)
  \/ \E s \in Owners, rebinding \in BOOLEAN : CloseOwner(s, rebinding)
  \/ DisposeDialogs

------------------------------------------------------------------------------

\* The callback of a dialog is called once, when the dialog leaves the map, with a
\* response of its kind, however an answer, a timeout, an abort and a closing race;
\* and clients show the dialogs that still wait
\* (extensionInteractionService.ts settle, open, respond).
DialogsResolveOnce ==
  /\ shown = pending
  /\ \A d \in Dialogs :
       /\ Len(resolved[d]) = IF dialog[d] = NoDialog \/ d \in pending THEN 0 ELSE 1
       /\ \A i \in DOMAIN resolved[d] :
            \/ resolved[d][i] = "cancelled"
            \/ resolved[d][i] = CASE dialog[d].kind = "select" -> "selected"
                                  [] dialog[d].kind = "confirm" -> "confirmed"
                                  [] OTHER -> "text"

\* A dialog that waits is one of the session's present binding as long as a runtime
\* serves the session: what was opened before it, while no runtime served the session
\* or before it was left, never waits in it. And when a session is closed, or the
\* daemon ends, none goes on waiting but one that was opened afterwards. (What a
\* rebind to another session and a creation that failed leave waiting is exempt: the
\* code does not cancel it.) (piSessionService.ts closeActive, bindSessionExtensions,
\* bindRuntime.)
NoneOutlivesItsSession ==
  \A d \in pending : Served(dialog[d].owner) <=> d \notin strays

\* A dialog ends once, and with its session or with the next binding of it.
DialogsEndOnce == DialogsResolveOnce /\ NoneOutlivesItsSession
==============================================================================
