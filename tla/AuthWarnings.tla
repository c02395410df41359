----------------------------- MODULE AuthWarnings -----------------------------
(* What open sessions are told when the credentials of their model's provider go: *)
(* AuthService changes them first and tells the sessions in a later step, and     *)
(* changes overlap. Each session has one model of a provider.                     *)
EXTENDS Naturals

CONSTANTS ModelProviders,
          Talks,      \* sessions
          MaxChanges  \* bound: changes of credentials

VARIABLES configured, \* providers that have credentials
          changes,    \* changes so far
          emits,      \* changes the sessions are still to be told of, by the removed provider
          model,      \* the provider of each session's model, Closed for one that is not open
          warned,     \* authLossWarnings
          heard,      \* history: warnings since the provider last got credentials
          fresh,      \* history: sessions and providers not warned of since they were told of credentials
          owed        \* history: losses to be told

warningVars == <<configured, changes, emits, model, warned, heard, fresh, owed>>

Closed == "closed"
NoneRemoved == "none"

ASSUME ProvidersAssumption == Closed \notin ModelProviders /\ NoneRemoved \notin ModelProviders

Pairs == Talks \X ModelProviders
On(p) == {<<s, p>> : s \in {t \in Talks : model[t] = p}}
Served == {k \in Pairs : k[2] \in configured /\ model[k[1]] = k[2]}
OfTalk(s) == {s} \X ModelProviders

\* The runtime's step of a login or a logout; the sessions are told in one of their own.
Change(p, has, removed) ==
  /\ changes < MaxChanges /\ changes' = changes + 1
  /\ configured' = IF has THEN configured \union {p} ELSE configured \ {p}
  /\ emits' = [emits EXCEPT ![removed] = @ + 1]
  /\ UNCHANGED <<model, warned, fresh>>

\* saveApiKey, a login's onComplete, migrateLegacyAuth.
GetsCredentials(p) ==
  /\ Change(p, TRUE, NoneRemoved)
  /\ heard' = [k \in Pairs |-> IF k[2] = p THEN 0 ELSE heard[k]]
  /\ owed' = {k \in owed : k[2] # p}

\* logoutProvider. A session that was warned is to be told again once it was told of credentials.
LogsOut(p) ==
  /\ Change(p, FALSE, p)
  /\ owed' = owed \union (IF p \in configured THEN On(p) \intersect fresh ELSE {})
  /\ UNCHANGED heard

\* rollbackLegacyAuthMigration names no provider: nobody is warned.
RollsBack(p) ==
  /\ p \in configured /\ Change(p, FALSE, NoneRemoved)
  /\ UNCHANGED <<heard, owed>>

\* Mutant: a session warned once is not warned again.
WarnedOnce(lost) == warned \union lost

\* syncCurrentModelAuthWarning: a session whose provider has credentials may be warned anew.
StillWarned(lost) == (warned \ Served) \union lost

\* Mutant: a session is warned at each change.
LostAgain(removed) == IF removed \in configured \union {NoneRemoved} THEN {} ELSE On(removed)

\* A session that is on the removed provider and was not warned yet.
Lost(removed) == IF removed \in configured \union {NoneRemoved} THEN {} ELSE On(removed) \ warned

\* applyAuthChange: every open session, in one step.
Tell(removed) ==
  /\ emits[removed] > 0 /\ emits' = [emits EXCEPT ![removed] = @ - 1]
  /\ warned' = StillWarned(Lost(removed))
  /\ heard' = [k \in Pairs |-> heard[k] + IF k \in Lost(removed) THEN 1 ELSE 0]
  /\ fresh' = (fresh \union Served) \ Lost(removed)
  /\ owed' = owed \ Lost(removed)
  /\ UNCHANGED <<configured, changes, model>>

\* setModel, cycleModel: what the session was warned of stays as it is.
SetsModel(s, p) ==
  /\ model[s] \notin {Closed, p} /\ model' = [model EXCEPT ![s] = p]
  /\ owed' = owed \ OfTalk(s)
  /\ UNCHANGED <<configured, changes, emits, warned, heard, fresh>>

OpensTalk(s, p) ==
  /\ model[s] = Closed /\ model' = [model EXCEPT ![s] = p]
  /\ UNCHANGED <<configured, changes, emits, warned, heard, fresh, owed>>

\* Mutant: a session that is closed keeps its warnings.
KeptAtClose(s) == warned

\* clearAuthLossWarningsForSession
ClearedAtClose(s) == warned \ OfTalk(s)

ClosesTalk(s) ==
  /\ model[s] # Closed /\ model' = [model EXCEPT ![s] = Closed]
  /\ warned' = ClearedAtClose(s)
  /\ owed' = owed \ OfTalk(s)
  /\ heard' = [k \in Pairs |-> IF k \in OfTalk(s) THEN 0 ELSE heard[k]]
  /\ fresh' = fresh \union OfTalk(s)
  /\ UNCHANGED <<configured, changes, emits>>

WarningsInit ==
  /\ configured = ModelProviders /\ changes = 0
  /\ emits = [r \in ModelProviders \union {NoneRemoved} |-> 0]
  /\ model = [s \in Talks |-> Closed] /\ warned = {}
  /\ heard = [k \in Pairs |-> 0] /\ fresh = Pairs /\ owed = {}

WarningsNext ==
  \/ \E p \in ModelProviders :
       \/ GetsCredentials(p) \/ LogsOut(p) \/ RollsBack(p)
       \/ \E s \in Talks : SetsModel(s, p) \/ OpensTalk(s, p)
  \/ \E s \in Talks : ClosesTalk(s)
  \/ \E r \in ModelProviders \union {NoneRemoved} : Tell(r)

------------------------------------------------------------------------------

\* A session is told once of the credentials its model lost, and when nothing is left to tell
\* every one was told that was on the model when its provider logged out and stayed on it
\* (piSessionService.ts applyAuthChange, syncCurrentModelAuthWarning; authService.ts
\* logoutProvider, emit).
LossesAreTold ==
  /\ \A k \in Pairs : heard[k] <= 1
  /\ (\A r \in DOMAIN emits : emits[r] = 0) => owed = {}
==============================================================================
