---------------------- MODULE NotificationInboxProofs -----------------------
(***************************************************************************)
(* Proofs about what the server answers and stores outside the sessions:   *)
(* dialogs, routes, the two configurations, packages and machines, and     *)
(* the notification inboxes.                                               *)
(***************************************************************************)
EXTENDS MCNotificationInbox, FiniteSetTheorems, SequenceTheorems, WellFoundedInduction, TLAPS

----------------------------------------------------------------------------
(* Dialogs *)

DialogKinds == [owner : Owners, kind : Kinds, timed : BOOLEAN, signalled : BOOLEAN]

DialogsTypeOK ==
  /\ dialog \in [Dialogs -> DialogKinds \cup {NoDialog}]
  /\ pending \subseteq Dialogs
  /\ resolved \in [Dialogs -> Seq(Responses)]

\* What waits was opened, and its callback has been given nothing.
PendingOK ==
  /\ \A d \in pending : dialog[d] # NoDialog
  /\ \A d \in Dialogs : dialog[d] = NoDialog \/ d \in pending => resolved[d] = <<>>

\* Entries and creations are of runtimes and sessions, and strays were opened.
ServingOK ==
  /\ active \in [Owners -> Hosts \cup {"none"}] /\ opening \in [Hosts -> Owners \cup {"none"}]
  /\ \A d \in Dialogs : dialog[d] = NoDialog => d \notin strays

DialogsInv == DialogsTypeOK /\ PendingOK /\ ServingOK /\ DialogsEndOnce

LEMMA DialogFacts ==
  /\ NoDialog \notin DialogKinds
  /\ \A d \in DialogKinds : d.kind \in Kinds /\ d # NoDialog
BY DEF NoDialog, DialogKinds, Kinds

\* Settling dialogs with a response that fits them, while their sessions come and go.
LEMMA SettleKeeps ==
  ASSUME DialogsInv, NEW dialogs \in SUBSET Dialogs, NEW response \in Responses,
         Settle(dialogs, response), UNCHANGED dialog,
         \A d \in dialogs \cap pending : Fits(dialog[d].kind, response),
         ServingOK',
         \A d \in pending \ dialogs : Serves(active', opening', dialog[d].owner) <=> d \notin strays'
  PROVE  DialogsInv'
<1> DEFINE settled == dialogs \cap pending
<1>1. /\ pending' = pending \ settled /\ shown' = shown \ settled
      /\ resolved' = [d \in Dialogs |->
           IF d \in settled THEN Append(resolved[d], response) ELSE resolved[d]]
      /\ dialog \in [Dialogs -> DialogKinds \cup {NoDialog}] /\ pending \subseteq Dialogs
      /\ resolved \in [Dialogs -> Seq(Responses)] /\ shown = pending
  BY DEF Settle, DialogsInv, DialogsTypeOK, DialogsEndOnce, DialogsResolveOnce
<1>2. \A d \in settled : dialog[d] \in DialogKinds /\ resolved[d] = <<>>
  BY <1>1 DEF DialogsInv, PendingOK
<1>3. \A d \in settled : resolved'[d] = <<response>>
  <2>1. \A d \in settled : resolved'[d] = Append(<<>>, response)
    <3> SUFFICES ASSUME NEW d \in settled PROVE resolved'[d] = Append(<<>>, response)
      OBVIOUS
    <3>1. d \in Dialogs /\ resolved[d] = <<>>
      BY <1>1, <1>2
    <3>2. resolved'[d] = Append(resolved[d], response)
      BY <1>1, <3>1
    <3> QED BY <3>1, <3>2
  <2>2. Append(<<>>, response) = <<response>>
    OBVIOUS
  <2> QED BY <2>1, <2>2
<1>4. \A d \in Dialogs \ settled : resolved'[d] = resolved[d]
  BY <1>1
<1> HIDE DEF settled
<1>5. DialogsTypeOK'
  <2>1. \A d \in Dialogs : resolved'[d] \in Seq(Responses)
    BY <1>1, <1>3, <1>4
  <2> QED BY <1>1, <2>1 DEF DialogsTypeOK
<1>6. PendingOK'
  <2>1. \A d \in Dialogs : dialog[d] = NoDialog \/ d \in pending' => d \notin settled
    BY <1>1, <1>2, DialogFacts
  <2> QED BY <1>1, <1>4, <2>1 DEF DialogsInv, PendingOK
<1>7. DialogsResolveOnce'
  <2> SUFFICES ASSUME NEW d \in Dialogs
               PROVE  /\ Len(resolved'[d]) = IF dialog[d] = NoDialog \/ d \in pending' THEN 0 ELSE 1
                      /\ \A i \in DOMAIN resolved'[d] :
                           \/ resolved'[d][i] = "cancelled"
                           \/ resolved'[d][i] = CASE dialog[d].kind = "select" -> "selected"
                                                 [] dialog[d].kind = "confirm" -> "confirmed"
                                                 [] OTHER -> "text"
    BY <1>1 DEF DialogsResolveOnce
  <2>1. CASE d \in settled
    <3>1. dialog[d] # NoDialog /\ d \notin pending' /\ resolved'[d] = <<response>>
      BY <1>1, <1>2, <1>3, <2>1, DialogFacts
    <3>2. Fits(dialog[d].kind, response) /\ dialog[d].kind \in Kinds
      BY <1>2, <2>1, DialogFacts DEF settled
    <3>3. \/ response = "cancelled"
          \/ response = CASE dialog[d].kind = "select" -> "selected"
                          [] dialog[d].kind = "confirm" -> "confirmed"
                          [] OTHER -> "text"
      BY <3>2 DEF Fits, Kinds
    <3>4. Len(<<response>>) = 1 /\ DOMAIN <<response>> = {1} /\ <<response>>[1] = response
      OBVIOUS
    <3> QED BY <3>1, <3>3, <3>4
  <2>2. CASE d \notin settled
    <3>1. resolved'[d] = resolved[d] /\ (d \in pending' <=> d \in pending)
      BY <1>1, <1>4, <2>2
    <3> QED BY <3>1 DEF DialogsInv, DialogsEndOnce, DialogsResolveOnce
  <2> QED BY <2>1, <2>2
<1>8. NoneOutlivesItsSession'
  BY <1>1 DEF NoneOutlivesItsSession, Served, settled
<1> QED BY <1>5, <1>6, <1>7, <1>8 DEF DialogsInv, DialogsEndOnce

LEMMA OpenKeeps ==
  ASSUME DialogsInv, NEW d \in Dialogs, NEW s \in Owners, NEW kind \in Kinds,
         NEW timed \in BOOLEAN, NEW signalled \in BOOLEAN, NEW aborted \in BOOLEAN,
         OpenDialog(d, s, kind, timed, signalled, aborted)
  PROVE  DialogsInv'
<1> DEFINE new == [owner |-> s, kind |-> kind, timed |-> timed, signalled |-> signalled]
<1>1. /\ dialog \in [Dialogs -> DialogKinds \cup {NoDialog}] /\ pending \subseteq Dialogs
      /\ resolved \in [Dialogs -> Seq(Responses)] /\ shown = pending
      /\ dialog[d] = NoDialog /\ dialog' = [dialog EXCEPT ![d] = new]
      /\ active' = active /\ opening' = opening
      /\ strays' = IF Serves(active, opening, s) THEN strays ELSE strays \cup {d}
      /\ \A e \in pending : Serves(active, opening, dialog[e].owner) <=> e \notin strays
  BY DEF OpenDialog, servingVars, Served, NoneOutlivesItsSession, DialogsInv, DialogsTypeOK, DialogsEndOnce, DialogsResolveOnce
<1>2. new \in DialogKinds /\ new # NoDialog /\ new.owner = s
  BY DialogFacts DEF DialogKinds
<1> HIDE DEF new
<1>3. d \notin pending /\ resolved[d] = <<>>
  BY <1>1 DEF DialogsInv, PendingOK
<1>4. /\ dialog' \in [Dialogs -> DialogKinds \cup {NoDialog}]
      /\ dialog'[d] = new /\ \A e \in Dialogs \ {d} : dialog'[e] = dialog[e]
  BY <1>1, <1>2
<1>5. \/ resolved' = [resolved EXCEPT ![d] = <<"cancelled">>] /\ UNCHANGED <<pending, shown>>
      \/ pending' = pending \cup {d} /\ shown' = shown \cup {d} /\ UNCHANGED resolved
  BY DEF OpenDialog
<1>6. /\ resolved' \in [Dialogs -> Seq(Responses)] /\ \A e \in Dialogs \ {d} : resolved'[e] = resolved[e]
      /\ \/ resolved'[d] = <<"cancelled">> /\ pending' = pending /\ shown' = shown
         \/ resolved'[d] = <<>> /\ pending' = pending \cup {d} /\ shown' = shown \cup {d}
  <2>1. <<"cancelled">> \in Seq(Responses)
    BY DEF Responses
  <2> QED BY <1>1, <1>3, <1>5, <2>1
<1>7. DialogsTypeOK' /\ PendingOK'
  BY <1>1, <1>2, <1>4, <1>6 DEF DialogsInv, DialogsTypeOK, PendingOK
<1>8. DialogsResolveOnce'
  <2>1. shown' = pending'
    BY <1>1, <1>6
  <2>2. ASSUME NEW e \in Dialogs \ {d}
        PROVE  /\ Len(resolved'[e]) = IF dialog'[e] = NoDialog \/ e \in pending' THEN 0 ELSE 1
               /\ \A i \in DOMAIN resolved'[e] :
                    \/ resolved'[e][i] = "cancelled"
                    \/ resolved'[e][i] = CASE dialog'[e].kind = "select" -> "selected"
                                          [] dialog'[e].kind = "confirm" -> "confirmed"
                                          [] OTHER -> "text"
    <3>1. resolved'[e] = resolved[e] /\ dialog'[e] = dialog[e] /\ (e \in pending' <=> e \in pending)
      BY <1>4, <1>6
    <3> QED BY <3>1 DEF DialogsInv, DialogsEndOnce, DialogsResolveOnce
  <2>3. /\ Len(resolved'[d]) = IF dialog'[d] = NoDialog \/ d \in pending' THEN 0 ELSE 1
        /\ \A i \in DOMAIN resolved'[d] : resolved'[d][i] = "cancelled"
    <3>1. /\ Len(<<"cancelled">>) = 1 /\ \A i \in DOMAIN <<"cancelled">> : <<"cancelled">>[i] = "cancelled"
          /\ Len(<<>>) = 0 /\ DOMAIN <<>> = {}
      OBVIOUS
    <3> QED BY <1>2, <1>3, <1>4, <1>6, <3>1
  <2> QED BY <2>1, <2>2, <2>3 DEF DialogsResolveOnce
<1>9. NoneOutlivesItsSession'
  <2>1. ASSUME NEW e \in pending'
        PROVE  Serves(active, opening, dialog'[e].owner) <=> e \notin strays'
    <3>1. CASE e \in pending
      BY <1>1, <1>3, <1>4, <3>1
    <3>2. CASE e = d /\ e \notin pending
      <4>1. d \notin strays
        BY <1>1 DEF DialogsInv, ServingOK
      <4> QED BY <1>1, <1>2, <1>4, <3>2, <4>1
    <3> QED BY <1>6, <2>1, <3>1, <3>2
  <2> QED BY <1>1, <2>1 DEF NoneOutlivesItsSession, Served
<1>10. ServingOK'
  BY <1>1, <1>2, <1>4 DEF DialogsInv, ServingOK
<1> QED BY <1>7, <1>8, <1>9, <1>10 DEF DialogsInv, DialogsEndOnce

\* What serves the sessions changes, and no dialog does.
LEMMA ServingKeeps ==
  ASSUME DialogsInv, UNCHANGED <<dialog, pending, resolved, shown>>, ServingOK',
         \A d \in pending : Serves(active', opening', dialog[d].owner) <=> d \notin strays'
  PROVE  DialogsInv'
<1>1. DialogsTypeOK' /\ PendingOK' /\ DialogsResolveOnce'
  BY DEF DialogsInv, DialogsTypeOK, PendingOK, DialogsEndOnce, DialogsResolveOnce
<1>2. NoneOutlivesItsSession'
  BY DEF NoneOutlivesItsSession, Served
<1> QED BY <1>1, <1>2 DEF DialogsInv, DialogsEndOnce

\* The dialogs that still wait, of the sessions that are not left, are no strays.
LEMMA LeftBehindAreStrays ==
  ASSUME DialogsInv, NEW d \in pending, strays' = strays \cup LeftBehind,
         Serves(active', opening', dialog[d].owner) => Serves(active, opening, dialog[d].owner)
  PROVE  Serves(active', opening', dialog[d].owner) <=> d \notin strays'
BY DEF DialogsInv, DialogsEndOnce, NoneOutlivesItsSession, Served, LeftBehind

\* A runtime's creation begins, is entered, or fails.
LEMMA CreationKeeps ==
  ASSUME DialogsInv, NEW h \in Hosts,
         \/ \E s \in Owners : BindExtensions(h, s)
         \/ Bound(h)
         \/ \E entered \in BOOLEAN : BindFails(h, entered)
  PROVE  DialogsInv'
<1>1. /\ active \in [Owners -> Hosts \cup {"none"}] /\ opening \in [Hosts -> Owners \cup {"none"}]
      /\ \A d \in Dialogs : dialog[d] = NoDialog => d \notin strays
      /\ pending \subseteq Dialogs /\ \A d \in pending : dialog[d].owner \in Owners /\ dialog[d] # NoDialog
      /\ \A d \in pending : Serves(active, opening, dialog[d].owner) <=> d \notin strays
  BY DEF DialogsInv, DialogsTypeOK, PendingOK, ServingOK, DialogKinds, DialogsEndOnce, NoneOutlivesItsSession, Served
<1>2. ASSUME NEW s \in Owners, BindExtensions(h, s) PROVE DialogsInv'
  <2>1. /\ Settle(OwnedBy(s), "cancelled") /\ UNCHANGED <<dialog, active, strays>>
        /\ opening[h] = "none" /\ opening' = [opening EXCEPT ![h] = s]
    BY <1>2 DEF BindExtensions, BindTo
  <2>2. OwnedBy(s) \in SUBSET Dialogs /\ \A d \in pending \ OwnedBy(s) : dialog[d].owner # s
    BY <1>1 DEF OwnedBy
  <2>3. ServingOK'
    BY <1>1, <2>1 DEF ServingOK
  <2>4. \A x \in Owners \ {s} : Serves(active', opening', x) <=> Serves(active, opening, x)
    BY <1>1, <2>1, DialogsAssumption DEF Serves
  <2>5. "cancelled" \in Responses /\ \A kind : Fits(kind, "cancelled")
    BY DEF Responses, Fits
  <2> QED BY <1>1, <2>1, <2>2, <2>3, <2>4, <2>5, SettleKeeps
<1>3. CASE Bound(h)
  <2>1. PICK s : s = opening[h]
    OBVIOUS
  <2>2. /\ s # "none" /\ opening' = [opening EXCEPT ![h] = "none"] /\ active' = [active EXCEPT ![s] = h]
        /\ UNCHANGED <<dialog, pending, resolved, strays, shown>>
    BY <1>3, <2>1 DEF Bound
  <2>3. ServingOK' /\ s \in Owners
    BY <1>1, <2>1, <2>2 DEF ServingOK
  <2>4. \A x \in Owners : Serves(active', opening', x) <=> Serves(active, opening, x)
    BY <1>1, <2>1, <2>2, <2>3, DialogsAssumption DEF Serves
  <2> QED BY <1>1, <2>2, <2>3, <2>4, ServingKeeps
<1>4. ASSUME NEW entered \in BOOLEAN, BindFails(h, entered) PROVE DialogsInv'
  <2>1. PICK s : s = opening[h]
    OBVIOUS
  <2>2. /\ s # "none" /\ opening' = [opening EXCEPT ![h] = "none"]
        /\ active' = active \/ active' = [active EXCEPT ![s] = "none"]
        /\ strays' = strays \cup LeftBehind /\ UNCHANGED <<dialog, pending, resolved, shown>>
    BY <1>4, <2>1 DEF BindFails
  <2>3. ServingOK'
    BY <1>1, <2>1, <2>2 DEF ServingOK, LeftBehind
  <2>4. \A x \in Owners : Serves(active', opening', x) => Serves(active, opening, x)
    BY <1>1, <2>1, <2>2, DialogsAssumption DEF Serves
  <2>5. \A d \in pending : Serves(active', opening', dialog[d].owner) <=> d \notin strays'
    BY <1>1, <2>2, <2>4, LeftBehindAreStrays
  <2> QED BY <2>2, <2>3, <2>5, ServingKeeps
<1> QED BY <1>2, <1>3, <1>4

\* A runtime is rebound to another session: what the one it leaves has open is stray.
LEMMA RebindKeeps ==
  ASSUME DialogsInv, NEW h \in Hosts, NEW t \in Owners, RebindRuntime(h, t)
  PROVE  DialogsInv'
<1>1. /\ active \in [Owners -> Hosts \cup {"none"}] /\ opening \in [Hosts -> Owners \cup {"none"}]
      /\ \A d \in Dialogs : dialog[d] = NoDialog => d \notin strays
      /\ pending \subseteq Dialogs /\ \A d \in pending : dialog[d].owner \in Owners /\ dialog[d] # NoDialog
  BY DEF DialogsInv, DialogsTypeOK, PendingOK, ServingOK, DialogKinds
<1>2. /\ Settle(OwnedBy(t), "cancelled") /\ UNCHANGED <<dialog, opening>>
      /\ active' = [s \in Owners |-> IF s = t THEN h ELSE IF active[s] = h THEN "none" ELSE active[s]]
      /\ strays' = strays \cup LeftBehind
  BY DEF RebindRuntime, BindTo
<1>3. OwnedBy(t) \in SUBSET Dialogs /\ \A d \in pending \ OwnedBy(t) : dialog[d].owner # t
  BY <1>1 DEF OwnedBy
<1>4. ServingOK'
  BY <1>1, <1>2 DEF ServingOK, LeftBehind
<1>5. \A x \in Owners \ {t} : Serves(active', opening', x) => Serves(active, opening, x)
  BY <1>1, <1>2 DEF Serves
<1>6. \A d \in pending \ OwnedBy(t) : Serves(active', opening', dialog[d].owner) <=> d \notin strays'
  BY <1>1, <1>2, <1>3, <1>5, LeftBehindAreStrays
<1>7. "cancelled" \in Responses /\ \A kind : Fits(kind, "cancelled")
  BY DEF Responses, Fits
<1> QED BY <1>2, <1>3, <1>4, <1>6, <1>7, SettleKeeps

LEMMA DialogsStep == DialogsInv /\ [DialogsNext]_dialogVars => DialogsInv'
<1> SUFFICES ASSUME DialogsInv, [DialogsNext]_dialogVars PROVE DialogsInv'
  OBVIOUS
<1>1. ASSUME UNCHANGED <<dialog, pending, resolved, active, opening, strays, shown>> PROVE DialogsInv'
  BY <1>1 DEF DialogsInv, DialogsTypeOK, PendingOK, ServingOK, DialogsEndOnce, DialogsResolveOnce,
              NoneOutlivesItsSession, Served
<1>2. /\ "cancelled" \in Responses /\ \A kind : Fits(kind, "cancelled")
      /\ pending \subseteq Dialogs
      /\ \A d \in pending : Serves(active, opening, dialog[d].owner) <=> d \notin strays
  BY DEF Responses, Fits, DialogsInv, DialogsTypeOK, DialogsEndOnce, NoneOutlivesItsSession, Served
<1>3. CASE UNCHANGED dialogVars
  BY <1>1, <1>3 DEF dialogVars, servingVars
<1>4. ASSUME NEW c \in Clients, NEW d \in Dialogs, NEW response \in Responses, Ask(c, d, response)
      PROVE  DialogsInv'
  BY <1>1, <1>4 DEF Ask, servingVars
<1>5. ASSUME NEW c \in Clients, Respond(c) PROVE DialogsInv'
  <2> DEFINE d == asking[c].dialog
             response == asking[c].response
  <2>1. UNCHANGED <<dialog, active, opening, strays>> /\ ServingOK'
    BY <1>5 DEF Respond, servingVars, DialogsInv, ServingOK
  <2>2. CASE UNCHANGED <<pending, resolved, shown>>
    BY <1>1, <2>1, <2>2
  <2>3. CASE d \in pending /\ Fits(dialog[d].kind, response) /\ Settle({d}, response)
    <3>1. response \in Responses
      BY <2>3 DEF Fits, Responses
    <3>2. {d} \in SUBSET Dialogs
      BY <1>2, <2>3
    <3> HIDE DEF d, response
    <3> QED BY <1>2, <2>1, <2>3, <3>1, <3>2, SettleKeeps
  <2> QED BY <1>5, <2>2, <2>3 DEF Respond
<1>6. ASSUME NEW d \in Dialogs, TimeoutFires(d) \/ SignalAborts(d) PROVE DialogsInv'
  <2>1. Settle({d}, "cancelled") /\ UNCHANGED <<dialog, active, opening, strays>>
    BY <1>6 DEF TimeoutFires, SignalAborts, servingVars
  <2>2. ServingOK'
    BY <2>1 DEF DialogsInv, ServingOK
  <2> QED BY <1>2, <2>1, <2>2, SettleKeeps
<1>7. ASSUME NEW s \in Owners, NEW rebinding \in BOOLEAN, CloseOwner(s, rebinding) PROVE DialogsInv'
  <2>1. /\ Settle(OwnedBy(s), "cancelled") /\ UNCHANGED <<dialog, opening, strays>>
        /\ active' = [active EXCEPT ![s] = "none"]
    BY <1>7 DEF CloseOwner
  <2>2. ServingOK' /\ \A d \in pending : dialog[d].owner \in Owners
    BY <2>1 DEF DialogsInv, DialogsTypeOK, PendingOK, ServingOK, DialogKinds
  <2>3. OwnedBy(s) \in SUBSET Dialogs /\ \A d \in pending \ OwnedBy(s) : dialog[d].owner # s
    BY <1>2 DEF OwnedBy
  <2>4. \A x \in Owners \ {s} : Serves(active', opening', x) <=> Serves(active, opening, x)
    BY <2>1 DEF Serves, DialogsInv, ServingOK
  <2> QED BY <1>2, <2>1, <2>2, <2>3, <2>4, SettleKeeps
<1>8. CASE DisposeDialogs
  <2>1. /\ Settle(pending, "cancelled") /\ UNCHANGED <<dialog, opening, strays>>
        /\ active' = [s \in Owners |-> "none"]
    BY <1>8 DEF DisposeDialogs
  <2>2. ServingOK'
    BY <2>1 DEF DialogsInv, ServingOK
  <2> QED BY <1>2, <2>1, <2>2, SettleKeeps
<1>9. ASSUME NEW h \in Hosts, NEW s \in Owners, BindExtensions(h, s) \/ RebindRuntime(h, s) PROVE DialogsInv'
  BY <1>9, CreationKeeps, RebindKeeps
<1>10. ASSUME NEW h \in Hosts, Bound(h) \/ \E entered \in BOOLEAN : BindFails(h, entered) PROVE DialogsInv'
  BY <1>10, CreationKeeps
<1> QED BY <1>3, <1>4, <1>5, <1>6, <1>7, <1>8, <1>9, <1>10, OpenKeeps DEF DialogsNext

DialogsSpec == DialogsInit /\ [][DialogsNext]_dialogVars

\* A dialog's callback is called once, with an answer of its kind, and none outlives the closing
\* of its session or lasts into its next binding.
THEOREM DialogsEndingOnce == DialogsSpec => []DialogsEndOnce
<1>1. DialogsInit => DialogsInv
  <2> SUFFICES ASSUME DialogsInit PROVE DialogsInv
    OBVIOUS
  <2>1. \A d \in Dialogs : resolved[d] = <<>> /\ Len(resolved[d]) = 0 /\ DOMAIN resolved[d] = {}
    BY DEF DialogsInit
  <2> QED BY <2>1 DEF DialogsInit, DialogsInv, DialogsTypeOK, PendingOK, ServingOK, DialogsEndOnce,
                      DialogsResolveOnce, NoneOutlivesItsSession
<1>2. DialogsInv => DialogsEndOnce
  BY DEF DialogsInv
<1> QED BY <1>1, <1>2, DialogsStep, PTL DEF DialogsSpec

----------------------------------------------------------------------------
(* Settings *)

AnyValue == {"none", "a", "bad", "pi", "without dir"}

UpdateRecords ==
  [at : {"none", "read", "written", "done", "conflict", "refused"},
   patch : {Empty} \cup Patches, read : [Keys -> AnyValue], still : BOOLEAN]

SettingsTypeOK == file \in [Keys -> AnyValue] /\ update \in UpdateRecords

\* What an update has read is the file as the program reads it, if neither changed since.
ReadIsCurrent == update.at = "read" /\ update.still => update.read = Parsed(file)

SettingsInv == SettingsTypeOK /\ ReadIsCurrent /\ AcceptedIsInEffect

LEMMA ValuesAreTyped ==
  /\ \A k \in Keys : Values(k) \subseteq AnyValue
  /\ Configs \subseteq [Keys -> AnyValue] /\ Patches \subseteq [Keys -> AnyValue]
  /\ Empty \in [Keys -> AnyValue]
<1>1. \A k \in Keys : Values(k) \subseteq AnyValue
  BY DEF Keys, Values, AnyValue
<1>2. ASSUME NEW c \in Configs PROVE c \in [Keys -> AnyValue]
  BY <1>1 DEF Configs, Keys, Values, AnyValue
<1>3. ASSUME NEW c \in Patches PROVE c \in [Keys -> AnyValue]
  BY <1>1 DEF Patches, Keys, Values, AnyValue
<1> QED BY <1>1, <1>2, <1>3 DEF Empty, AnyValue

LEMMA ParsedIsTyped == ASSUME NEW c \in [Keys -> AnyValue] PROVE Parsed(c) \in [Keys -> AnyValue]
BY DEF Parsed, AnyValue

\* What is saved is what was given, in the keys the program knows.
LEMMA SavedIsGiven ==
  ASSUME NEW c \in [Keys -> AnyValue], file \in [Keys -> AnyValue]
  PROVE  /\ Saved(c) \in [Keys -> AnyValue]
         /\ Saved(c)["other"] = file["other"]
         /\ Saved(c)["host"] = c["host"]
         /\ knows => Saved(c)["agent"] = c["agent"]
         /\ \A k \in Known : Saved(c)[k] \in {c[k], file[k]}
         /\ \A k \in Keys \ Known : Saved(c)[k] = file[k]
BY DEF Saved, Keys, Known

LEMMA MergedIsTyped ==
  ASSUME NEW c \in [Keys -> AnyValue], NEW patch \in [Keys -> AnyValue]
  PROVE  /\ Merge(c, patch) \in [Keys -> AnyValue]
         /\ \A k \in Keys : patch[k] = "none" => Merge(c, patch)[k] = c[k]
BY DEF Merge

LEMMA PutSelectedKeeps ==
  ASSUME SettingsInv, PutSelected
  PROVE  /\ SettingsInv'
         /\ update.still => \A k \in Keys : update.patch[k] = "none" => file'[k] = file[k]
         /\ writer' = "program" => file'["other"] = file["other"] \/ UNCHANGED writer
<1> DEFINE merged == Merge(update.read, update.patch)
<1>1. /\ update \in UpdateRecords /\ file \in [Keys -> AnyValue] /\ update.at = "read"
      /\ update.patch \in [Keys -> AnyValue] /\ update.read \in [Keys -> AnyValue]
      /\ knows' = knows /\ dirSet' = dirSet
  BY ValuesAreTyped DEF PutSelected, SettingsInv, SettingsTypeOK, UpdateRecords
<1>2. /\ merged \in [Keys -> AnyValue]
      /\ \A k \in Keys : update.patch[k] = "none" => merged[k] = update.read[k]
  BY <1>1, MergedIsTyped
<1> HIDE DEF merged
<1>3. CASE ~Accepts(merged)
  <2>1. update' = [update EXCEPT !.at = "refused"] /\ UNCHANGED <<file, writer>>
    BY <1>3 DEF PutSelected, merged
  <2>2. update' \in UpdateRecords /\ update'.at = "refused"
    BY <1>1, <2>1 DEF UpdateRecords
  <2> QED BY <1>1, <2>1, <2>2 DEF SettingsInv, SettingsTypeOK, ReadIsCurrent, AcceptedIsInEffect
<1>4. CASE Accepts(merged)
  <2>1. /\ file' = Saved(merged) /\ writer' = "program"
        /\ update' = [update EXCEPT !.at = "written", !.read = Parsed(Saved(merged))]
    BY <1>4 DEF PutSelected, merged
  <2>2. /\ Saved(merged) \in [Keys -> AnyValue] /\ Saved(merged)["other"] = file["other"]
        /\ Saved(merged)["host"] = merged["host"] /\ (knows => Saved(merged)["agent"] = merged["agent"])
        /\ \A k \in Known : Saved(merged)[k] \in {merged[k], file[k]}
        /\ \A k \in Keys \ Known : Saved(merged)[k] = file[k]
    BY <1>1, <1>2, SavedIsGiven
  <2>3. update' \in UpdateRecords /\ update'.at = "written"
    BY <1>1, <2>1, <2>2, ParsedIsTyped DEF UpdateRecords
  <2>4. knows => Loadable(file)'
    BY <1>1, <1>4, <2>1, <2>2 DEF Accepts, Loadable, Valid, AgentResolves, Parsed, Known, Keys
  <2>5. SettingsInv'
    BY <2>1, <2>2, <2>3, <2>4, <1>1 DEF SettingsInv, SettingsTypeOK, ReadIsCurrent, AcceptedIsInEffect
  <2>6. ASSUME update.still, NEW k \in Keys, update.patch[k] = "none" PROVE file'[k] = file[k]
    <3>1. merged[k] = Parsed(file)[k]
      BY <1>1, <1>2, <2>6 DEF SettingsInv, ReadIsCurrent
    <3>2. k \in Known => merged[k] = file[k]
      BY <3>1 DEF Parsed
    <3> QED BY <2>1, <2>2, <3>2
  <2> QED BY <2>1, <2>2, <2>5, <2>6
<1> QED BY <1>3, <1>4

LEMMA SettingsStep ==
  SettingsInv /\ [SettingsNext]_settingsVars
    => /\ SettingsInv'
       /\ [/\ PutSelected /\ update.still => \A k \in Keys : update.patch[k] = "none" => file'[k] = file[k]
           /\ writer' = "program" => file'["other"] = file["other"]]_settingsVars
<1> DEFINE Keeps ==
      [/\ PutSelected /\ update.still => \A k \in Keys : update.patch[k] = "none" => file'[k] = file[k]
       /\ writer' = "program" => file'["other"] = file["other"]]_settingsVars
<1> SUFFICES ASSUME SettingsInv, [SettingsNext]_settingsVars PROVE SettingsInv' /\ Keeps
  OBVIOUS
<1>1. file \in [Keys -> AnyValue] /\ update \in UpdateRecords
  BY DEF SettingsInv, SettingsTypeOK
<1>2. PutSelected => SettingsInv' /\ Keeps
  <2> SUFFICES ASSUME PutSelected PROVE SettingsInv' /\ Keeps
    OBVIOUS
  <2>1. file'["other"] = file["other"]
    <3>1. update.read \in [Keys -> AnyValue] /\ update.patch \in [Keys -> AnyValue]
      BY <1>1, ValuesAreTyped DEF UpdateRecords
    <3>2. \/ file' = file
          \/ file' = Saved(Merge(update.read, update.patch))
      BY DEF PutSelected
    <3> QED BY <1>1, <3>1, <3>2, MergedIsTyped, SavedIsGiven
  <2> QED BY <2>1, PutSelectedKeeps
<1>3. ASSUME ~PutSelected, SettingsInv', file'["other"] = file["other"] \/ writer' = "editor"
      PROVE  SettingsInv' /\ Keeps
  BY <1>3
<1> HIDE DEF Keeps
<1>4. ASSUME Others, file' \in [Keys -> AnyValue] PROVE SettingsInv'
  <2>1. update' \in UpdateRecords /\ ~update'.still /\ update'.at = update.at
        /\ update'.read = update.read /\ update'.patch = update.patch
    BY <1>1, <1>4 DEF Others, UpdateRecords
  <2> QED BY <1>4, <2>1 DEF SettingsInv, SettingsTypeOK, ReadIsCurrent, AcceptedIsInEffect
<1>5. ASSUME NEW k \in Keys, NEW v \in Values(k), PutConfig(k, v) PROVE SettingsInv' /\ Keeps
  <2> DEFINE c == [Parsed(file) EXCEPT ![k] = v]
  <2>1. c \in [Keys -> AnyValue]
    BY <1>1, ParsedIsTyped, ValuesAreTyped
  <2>2. file' = Saved(c) /\ Others /\ writer' = "program"
    BY <1>5 DEF PutConfig
  <2> HIDE DEF c
  <2>3. file' \in [Keys -> AnyValue] /\ file'["other"] = file["other"]
    BY <1>1, <2>1, <2>2, SavedIsGiven
  <2> QED BY <1>2, <1>3, <1>4, <2>2, <2>3
<1>6. ASSUME NEW k \in Keys, NEW v \in Values(k), NEW isJson \in BOOLEAN, EditByHand(k, v, isJson)
      PROVE  SettingsInv' /\ Keeps
  <2>1. file' = [file EXCEPT ![k] = v] /\ Others /\ writer' = "editor"
    BY <1>6 DEF EditByHand
  <2>2. file' \in [Keys -> AnyValue]
    BY <1>1, <2>1, ValuesAreTyped
  <2> QED BY <1>2, <1>3, <1>4, <2>1, <2>2
<1>7. CASE Upgrade
  <2>1. update' \in UpdateRecords /\ ~update'.still /\ update'.at = update.at
        /\ update'.read = update.read /\ update'.patch = update.patch /\ file' = file
    BY <1>1, <1>7 DEF Upgrade, UpdateRecords
  <2>2. SettingsInv'
    BY <1>1, <2>1 DEF SettingsInv, SettingsTypeOK, ReadIsCurrent, AcceptedIsInEffect
  <2> QED BY <1>2, <1>3, <2>1, <2>2
<1>8. ASSUME NEW patch \in Patches, ReadSelected(patch) PROVE SettingsInv' /\ Keeps
  <2>1. file' = file /\ knows' = knows
    BY <1>8 DEF ReadSelected
  <2>2. /\ update' \in UpdateRecords /\ update'.at \in {"read", "refused"}
        /\ update'.at = "read" => update'.read = Parsed(file)
    <3>1. \/ update' = [at |-> "read", patch |-> patch, read |-> Parsed(file), still |-> TRUE]
          \/ update' = [at |-> "refused", patch |-> Empty, read |-> Empty, still |-> TRUE]
      BY <1>8 DEF ReadSelected, NoUpdate
    <3>2. Parsed(file) \in [Keys -> AnyValue] /\ Empty \in [Keys -> AnyValue]
      BY <1>1, ParsedIsTyped, ValuesAreTyped
    <3>3. CASE update' = [at |-> "read", patch |-> patch, read |-> Parsed(file), still |-> TRUE]
      BY <3>2, <3>3 DEF UpdateRecords
    <3>4. CASE update' = [at |-> "refused", patch |-> Empty, read |-> Empty, still |-> TRUE]
      BY <3>2, <3>4 DEF UpdateRecords
    <3> QED BY <3>1, <3>3, <3>4
  <2>3. Parsed(file)' = Parsed(file)
    BY <2>1 DEF Parsed, Known
  <2>4. SettingsInv'
    BY <1>1, <2>1, <2>2, <2>3 DEF SettingsInv, SettingsTypeOK, ReadIsCurrent, AcceptedIsInEffect
  <2> QED BY <1>2, <1>3, <2>1, <2>4
<1>9. CASE AnswerSelected
  <2>1. file' = file /\ update' = [update EXCEPT !.at = IF SameAgentProfile THEN "done" ELSE "conflict"]
    BY <1>9 DEF AnswerSelected
  <2>2. /\ update' \in UpdateRecords /\ update'.at \in {"done", "conflict"}
        /\ update'.at = "done" => SameAgentProfile
        /\ update'.read = update.read /\ update'.patch = update.patch
    BY <1>1, <2>1 DEF UpdateRecords
  <2>3. SettingsInv'
    BY <1>1, <2>1, <2>2 DEF SettingsInv, SettingsTypeOK, ReadIsCurrent, AcceptedIsInEffect, SameAgentProfile
  <2> QED BY <1>2, <1>3, <2>1, <2>3
<1>10. CASE UpdateEnds
  <2>1. file' = file /\ update' = NoUpdate
    BY <1>10 DEF UpdateEnds
  <2>2. SettingsInv'
    BY <1>1, <2>1, ValuesAreTyped
       DEF SettingsInv, SettingsTypeOK, ReadIsCurrent, AcceptedIsInEffect, NoUpdate, UpdateRecords
  <2> QED BY <1>2, <1>3, <2>1, <2>2
<1>11. CASE UNCHANGED settingsVars
  <2>1. SettingsInv'
    <3>1. UNCHANGED <<file, knows, dirSet, update>>
      BY <1>11 DEF settingsVars
    <3>2. Parsed(file)' = Parsed(file)
      BY <3>1 DEF Parsed, Known
    <3>3. Loadable(file)' = Loadable(file)
      BY <3>1, <3>2 DEF Loadable, Valid, AgentResolves
    <3>4. SettingsTypeOK' /\ ReadIsCurrent'
      BY <3>1, <3>2 DEF SettingsInv, SettingsTypeOK, ReadIsCurrent
    <3>5. AcceptedIsInEffect'
      BY <3>1, <3>3 DEF SettingsInv, AcceptedIsInEffect
    <3> QED BY <3>4, <3>5 DEF SettingsInv
  <2> QED BY <1>11, <2>1 DEF Keeps
<1> QED BY <1>2, <1>5, <1>6, <1>7, <1>8, <1>9, <1>10, <1>11 DEF SettingsNext

LEMMA SettingsBegin == SettingsInit => SettingsInv
BY ValuesAreTyped
   DEF SettingsInit, SettingsInv, SettingsTypeOK, ReadIsCurrent, AcceptedIsInEffect, NoUpdate, UpdateRecords

----------------------------------------------------------------------------
(* The settings of OMP *)

Times == 0 .. Absent
Schemas == [mtime : Times, content : Times]

OmpSettingsTypeOK ==
  /\ package \in Versions /\ schemaCache \in Schemas
  /\ at \in [Writers -> {"idle", "lists", "locates", "readsSchema", "cachesSchema", "validates", "sets",
                         "read", "refused", "failed", "answered"}]
  /\ seen \in [Writers -> Schemas]
  /\ wanted \in [Writers -> SUBSET SettingKeys] /\ invalid \in [Writers -> SUBSET Versions]
  /\ setKeys \in [Writers -> SUBSET SettingKeys]

\* An entry is read after its time is, and neither is of a package to come.
IsEntry(e) == e = NoSchema \/ (e.mtime <= e.content /\ e.content <= package)

EntriesOK ==
  /\ IsEntry(schemaCache)
  /\ \A w \in Writers : /\ at[w] = "readsSchema" => seen[w].mtime <= package
                        /\ at[w] = "cachesSchema" => IsEntry(seen[w])

\* Keys are set by a write that passed the check.
ChecksOK ==
  \A w \in Writers :
    /\ at[w] = "sets" => seen[w].content \notin invalid[w]
    /\ at[w] \in {"lists", "locates", "readsSchema", "cachesSchema", "validates"} => setKeys[w] = {}

OmpSettingsInv == OmpSettingsTypeOK /\ EntriesOK /\ ChecksOK /\ NoneIsSetUnchecked

LEMMA NoSchemaIsTyped ==
  /\ NoSchema \in Schemas /\ NoSchema.mtime = Absent /\ Absent \notin Versions
  /\ Versions \subseteq Times /\ \A n \in Versions : n \in Nat
  /\ \A e \in Schemas : e.mtime \in Nat /\ e.content \in Nat
BY UpdatesAssumption DEF NoSchema, Schemas, Times, Versions, Absent

LEMMA EntriesAreCurrent == OmpSettingsInv => SchemaIsCurrent
<1> SUFFICES ASSUME OmpSettingsInv, schemaCache.mtime = package PROVE schemaCache.content = package
  BY DEF SchemaIsCurrent
<1>1. schemaCache # NoSchema
  BY NoSchemaIsTyped DEF OmpSettingsInv, OmpSettingsTypeOK
<1> QED BY <1>1, NoSchemaIsTyped DEF OmpSettingsInv, OmpSettingsTypeOK, EntriesOK, IsEntry

\* A request that moves on, or ends, before it sets keys.
LEMMA RequestMoves ==
  ASSUME OmpSettingsInv, NEW w \in Writers, NEW from, NEW to, Step(w, from, to),
         to \in {"locates", "readsSchema", "cachesSchema", "validates", "read", "refused", "failed", "answered"},
         to \in {"locates", "readsSchema", "cachesSchema", "validates"} =>
           from \in {"lists", "locates", "readsSchema", "cachesSchema", "validates"},
         UNCHANGED <<package, request, setKeys>>,
         IsEntry(schemaCache'), schemaCache' \in Schemas,
         seen' = seen \/ setKeys[w] = {},
         seen' \in [Writers -> Schemas], \A v \in Writers \ {w} : seen'[v] = seen[v],
         to = "readsSchema" => seen'[w].mtime <= package,
         to = "cachesSchema" => IsEntry(seen'[w])
  PROVE  OmpSettingsInv'
<1>1. /\ at[w] = from /\ at' = [at EXCEPT ![w] = to]
      /\ wanted' = wanted /\ invalid' = invalid /\ setKeys' = setKeys /\ package' = package
  BY DEF Step, request
<1>2. OmpSettingsTypeOK'
  BY <1>1 DEF OmpSettingsInv, OmpSettingsTypeOK
<1>3. at'[w] = to /\ \A v \in Writers \ {w} : at'[v] = at[v]
  BY <1>1 DEF OmpSettingsInv, OmpSettingsTypeOK
<1>4. EntriesOK'
  <2>1. \A e : IsEntry(e)' = IsEntry(e)
    BY <1>1 DEF IsEntry
  <2> QED BY <1>1, <1>3, <2>1 DEF OmpSettingsInv, EntriesOK, IsEntry
<1>5. ChecksOK'
  BY <1>1, <1>3 DEF OmpSettingsInv, ChecksOK
<1>6. NoneIsSetUnchecked'
  BY <1>1 DEF OmpSettingsInv, NoneIsSetUnchecked
<1> QED BY <1>2, <1>4, <1>5, <1>6 DEF OmpSettingsInv

LEMMA OmpSettingsStep == OmpSettingsInv /\ [OmpSettingsNext]_ompSettingsVars => OmpSettingsInv'
<1> SUFFICES ASSUME OmpSettingsInv, [OmpSettingsNext]_ompSettingsVars PROVE OmpSettingsInv'
  OBVIOUS
<1>1. /\ package \in Versions /\ schemaCache \in Schemas /\ seen \in [Writers -> Schemas]
      /\ wanted \in [Writers -> SUBSET SettingKeys] /\ invalid \in [Writers -> SUBSET Versions]
      /\ setKeys \in [Writers -> SUBSET SettingKeys] /\ IsEntry(schemaCache)
      /\ DOMAIN at = Writers
  BY DEF OmpSettingsInv, OmpSettingsTypeOK, EntriesOK
<1>2. CASE UpdateOmp
  <2>1. package' = package + 1 /\ package < MaxUpdates /\ UNCHANGED <<schemaCache, at, wanted, invalid, seen, setKeys>>
    BY <1>2 DEF UpdateOmp, request
  <2>2. package' \in Versions /\ package <= package'
    BY <1>1, <2>1, UpdatesAssumption DEF Versions
  <2>3. OmpSettingsTypeOK'
    BY <2>1, <2>2 DEF OmpSettingsInv, OmpSettingsTypeOK
  <2>4. ASSUME NEW e \in Schemas, IsEntry(e) PROVE IsEntry(e)'
    BY <1>1, <2>2, <2>4, NoSchemaIsTyped DEF IsEntry
  <2>5. EntriesOK'
    <3>1. IsEntry(schemaCache)'
      BY <1>1, <2>1, <2>4 DEF IsEntry
    <3>2. ASSUME NEW w \in Writers, at[w] = "readsSchema" PROVE seen[w].mtime <= package'
      BY <1>1, <2>2, <3>2, NoSchemaIsTyped DEF OmpSettingsInv, EntriesOK
    <3>3. ASSUME NEW w \in Writers, at[w] = "cachesSchema" PROVE IsEntry(seen[w])'
      BY <1>1, <2>1, <2>4, <3>3 DEF OmpSettingsInv, EntriesOK, IsEntry
    <3> QED BY <2>1, <3>1, <3>2, <3>3 DEF EntriesOK
  <2>6. ChecksOK' /\ NoneIsSetUnchecked'
    BY <2>1 DEF OmpSettingsInv, ChecksOK, NoneIsSetUnchecked
  <2> QED BY <2>3, <2>5, <2>6 DEF OmpSettingsInv
<1>3. ASSUME NEW w \in Writers, BeginRequest(w) PROVE OmpSettingsInv'
  <2>1. PICK ks \in SUBSET SettingKeys, vs \in SUBSET Versions :
          wanted' = [wanted EXCEPT ![w] = ks] /\ invalid' = [invalid EXCEPT ![w] = vs]
    BY <1>3 DEF BeginRequest
  <2>2. /\ at' = [at EXCEPT ![w] = "lists"] /\ seen' = [seen EXCEPT ![w] = NoSchema]
        /\ setKeys' = [setKeys EXCEPT ![w] = {}] /\ package' = package /\ schemaCache' = schemaCache
    BY <1>3 DEF BeginRequest
  <2>3. OmpSettingsTypeOK'
    BY <1>1, <2>1, <2>2, NoSchemaIsTyped DEF OmpSettingsInv, OmpSettingsTypeOK
  <2>4. /\ at'[w] = "lists" /\ setKeys'[w] = {}
        /\ \A v \in Writers \ {w} : /\ at'[v] = at[v] /\ seen'[v] = seen[v] /\ setKeys'[v] = setKeys[v]
                                    /\ invalid'[v] = invalid[v]
    BY <1>1, <2>1, <2>2
  <2>5. \A e : IsEntry(e)' = IsEntry(e)
    BY <2>2 DEF IsEntry
  <2> QED BY <2>2, <2>3, <2>4, <2>5 DEF OmpSettingsInv, EntriesOK, ChecksOK, NoneIsSetUnchecked, IsEntry
<1>4. ASSUME NEW w \in Writers, ListSettings(w) PROVE OmpSettingsInv'
  <2>1. \/ Step(w, "lists", "locates")
        \/ Step(w, "lists", "failed")
    BY <1>4 DEF ListSettings
  <2>2. UNCHANGED <<package, schemaCache, request, seen, setKeys>>
    BY <1>4 DEF ListSettings
  <2>3. CASE Step(w, "lists", "locates")
    BY <1>1, <2>2, <2>3, RequestMoves
  <2>4. CASE Step(w, "lists", "failed")
    BY <1>1, <2>2, <2>4, RequestMoves
  <2> QED BY <2>1, <2>3, <2>4
<1>5. ASSUME NEW w \in Writers, StatSchema(w) PROVE OmpSettingsInv'
  <2>1. UNCHANGED <<package, schemaCache, request, setKeys>>
    BY <1>5 DEF StatSchema
  <2>2. setKeys[w] = {}
    BY <1>5 DEF StatSchema, Step, OmpSettingsInv, ChecksOK
  <2>3. CASE Step(w, "locates", "validates") /\ seen' = [seen EXCEPT ![w] = schemaCache]
    BY <1>1, <2>1, <2>2, <2>3, RequestMoves
  <2>4. CASE Step(w, "locates", "readsSchema") /\ seen' = [seen EXCEPT ![w].mtime = package]
    <3>1. seen' = [seen EXCEPT ![w] = [mtime |-> package, content |-> seen[w].content]]
      <4>1. seen[w] = [mtime |-> seen[w].mtime, content |-> seen[w].content]
        BY <1>1 DEF Schemas
      <4>2. [seen[w] EXCEPT !.mtime = package] = [mtime |-> package, content |-> seen[w].content]
        BY <4>1
      <4>3. seen' = [seen EXCEPT ![w] = [seen[w] EXCEPT !.mtime = package]]
        BY <2>4
      <4> QED BY <4>2, <4>3
    <3>2. [mtime |-> package, content |-> seen[w].content] \in Schemas
      BY <1>1, NoSchemaIsTyped DEF Schemas
    <3>3. /\ seen' \in [Writers -> Schemas] /\ \A v \in Writers \ {w} : seen'[v] = seen[v]
          /\ seen'[w].mtime = package
      BY <1>1, <3>1, <3>2
    <3>4. seen'[w].mtime <= package
      BY <1>1, <3>3, NoSchemaIsTyped
    <3> QED BY <1>1, <2>1, <2>2, <2>4, <3>3, <3>4, RequestMoves
  <2> QED BY <1>5, <2>3, <2>4 DEF StatSchema
<1>6. ASSUME NEW w \in Writers, SchemaFails(w) PROVE OmpSettingsInv'
  <2>1. \/ Step(w, "locates", "validates")
        \/ Step(w, "readsSchema", "validates")
    BY <1>6 DEF SchemaFails
  <2>2. UNCHANGED <<package, schemaCache, request, seen, setKeys>>
    BY <1>6 DEF SchemaFails
  <2>3. CASE Step(w, "locates", "validates")
    BY <1>1, <2>2, <2>3, RequestMoves
  <2>4. CASE Step(w, "readsSchema", "validates")
    BY <1>1, <2>2, <2>4, RequestMoves
  <2> QED BY <2>1, <2>3, <2>4
<1>7. ASSUME NEW w \in Writers, ReadSchema(w) PROVE OmpSettingsInv'
  <2>1. /\ Step(w, "readsSchema", "cachesSchema") /\ UNCHANGED <<package, schemaCache, request, setKeys>>
        /\ seen' = [seen EXCEPT ![w].content = package]
    BY <1>7 DEF ReadSchema
  <2>2. setKeys[w] = {} /\ seen[w].mtime <= package
    BY <2>1 DEF Step, OmpSettingsInv, ChecksOK, EntriesOK
  <2>3. seen' = [seen EXCEPT ![w] = [mtime |-> seen[w].mtime, content |-> package]]
    <3>1. seen[w] = [mtime |-> seen[w].mtime, content |-> seen[w].content]
      BY <1>1 DEF Schemas
    <3>2. [seen[w] EXCEPT !.content = package] = [mtime |-> seen[w].mtime, content |-> package]
      BY <3>1
    <3>3. seen' = [seen EXCEPT ![w] = [seen[w] EXCEPT !.content = package]]
      BY <2>1
    <3> QED BY <3>2, <3>3
  <2>4. [mtime |-> seen[w].mtime, content |-> package] \in Schemas
    BY <1>1, NoSchemaIsTyped DEF Schemas
  <2>5. /\ seen' \in [Writers -> Schemas] /\ \A v \in Writers \ {w} : seen'[v] = seen[v]
        /\ seen'[w].mtime <= seen'[w].content /\ seen'[w].content <= package
    BY <1>1, <2>2, <2>3, <2>4, NoSchemaIsTyped
  <2>6. IsEntry(seen'[w])
    BY <2>5 DEF IsEntry
  <2> QED BY <1>1, <2>1, <2>2, <2>5, <2>6, RequestMoves
<1>8. ASSUME NEW w \in Writers, CacheSchema(w) PROVE OmpSettingsInv'
  <2>1. /\ Step(w, "cachesSchema", "validates") /\ UNCHANGED <<package, request, seen, setKeys>>
        /\ schemaCache' = [mtime |-> seen[w].mtime, content |-> seen[w].content]
    BY <1>8 DEF CacheSchema, Entry
  <2>2. schemaCache' = seen[w] /\ seen[w] \in Schemas
    BY <1>1, <2>1 DEF Schemas
  <2>3. IsEntry(seen[w])
    BY <2>1 DEF Step, OmpSettingsInv, EntriesOK
  <2> QED BY <1>1, <2>1, <2>2, <2>3, RequestMoves
<1>9. ASSUME NEW w \in Writers, Validate(w) PROVE OmpSettingsInv'
  <2>1. UNCHANGED <<package, schemaCache, request, seen, setKeys>>
    BY <1>9 DEF Validate
  <2>2. CASE Step(w, "validates", "read")
    BY <1>1, <2>1, <2>2, RequestMoves
  <2>3. CASE Step(w, "validates", "refused")
    BY <1>1, <2>1, <2>3, RequestMoves
  <2>4. CASE seen[w].content \notin invalid[w] /\ Step(w, "validates", "sets")
    <3>1. /\ at' = [at EXCEPT ![w] = "sets"] /\ wanted' = wanted /\ invalid' = invalid /\ seen' = seen
          /\ setKeys' = setKeys /\ package' = package /\ schemaCache' = schemaCache
      BY <2>1, <2>4 DEF Step, request
    <3>2. OmpSettingsTypeOK'
      BY <3>1 DEF OmpSettingsInv, OmpSettingsTypeOK
    <3>3. at'[w] = "sets" /\ \A v \in Writers \ {w} : at'[v] = at[v]
      BY <1>1, <3>1
    <3>4. \A e : IsEntry(e)' = IsEntry(e)
      BY <3>1 DEF IsEntry
    <3> QED BY <2>4, <3>1, <3>2, <3>3, <3>4 DEF OmpSettingsInv, EntriesOK, ChecksOK, NoneIsSetUnchecked, IsEntry
  <2> QED BY <1>9, <2>2, <2>3, <2>4 DEF Validate, Check
<1>10. ASSUME NEW w \in Writers, SetNext(w) PROVE OmpSettingsInv'
  <2>1. PICK k \in wanted[w] \ setKeys[w] : setKeys' = [setKeys EXCEPT ![w] = @ \union {k}]
    BY <1>10 DEF SetNext
  <2>2. UNCHANGED <<package, schemaCache, at, wanted, invalid, seen>> /\ at[w] = "sets"
    BY <1>10 DEF SetNext, request
  <2>3. /\ setKeys' \in [Writers -> SUBSET SettingKeys]
        /\ \A v \in Writers \ {w} : setKeys'[v] = setKeys[v]
    BY <1>1, <2>1
  <2>4. OmpSettingsTypeOK'
    BY <2>2, <2>3 DEF OmpSettingsInv, OmpSettingsTypeOK
  <2>5. EntriesOK'
    BY <2>2 DEF OmpSettingsInv, EntriesOK, IsEntry
  <2>6. ChecksOK' /\ NoneIsSetUnchecked'
    BY <2>2, <2>3 DEF OmpSettingsInv, ChecksOK, NoneIsSetUnchecked
  <2> QED BY <2>4, <2>5, <2>6 DEF OmpSettingsInv
<1>11. ASSUME NEW w \in Writers, SetFails(w) PROVE OmpSettingsInv'
  <2>1. Step(w, "sets", "failed") /\ UNCHANGED <<package, schemaCache, request, seen, setKeys>>
    BY <1>11 DEF SetFails
  <2> QED BY <1>1, <2>1, RequestMoves
<1>12. ASSUME NEW w \in Writers, WriteEnds(w) PROVE OmpSettingsInv'
  <2>1. Step(w, "sets", "answered") /\ UNCHANGED <<package, schemaCache, request, seen, setKeys>>
    BY <1>12 DEF WriteEnds
  <2> QED BY <1>1, <2>1, RequestMoves
<1>13. CASE UNCHANGED ompSettingsVars
  BY <1>13 DEF ompSettingsVars, request, OmpSettingsInv, OmpSettingsTypeOK, EntriesOK, ChecksOK, NoneIsSetUnchecked, IsEntry
<1> QED BY <1>2, <1>3, <1>4, <1>5, <1>6, <1>7, <1>8, <1>9, <1>10, <1>11, <1>12, <1>13 DEF OmpSettingsNext

LEMMA OmpSettingsBegin == OmpSettingsInit => OmpSettingsInv
<1> SUFFICES ASSUME OmpSettingsInit PROVE OmpSettingsInv
  OBVIOUS
<1>1. 0 \in Versions
  BY UpdatesAssumption DEF Versions
<1> QED BY <1>1, NoSchemaIsTyped
        DEF OmpSettingsInit, OmpSettingsInv, OmpSettingsTypeOK, EntriesOK, ChecksOK, NoneIsSetUnchecked, IsEntry

----------------------------------------------------------------------------
(* Packages *)

MutationRecords ==
  [at : {"idle", "queued", "loaded", "changed"}, does : {"none", "install", "remove", "update"},
   pack : Packs \cup {"none"}, copy : SUBSET Packs]

PackagesTypeOK ==
  /\ persisted \in SUBSET Packs /\ mutationQueue \in Seq(Mutators)
  /\ mutation \in [Mutators -> MutationRecords]
  /\ told \in [Packs -> {"unknown", "install", "remove", "update"}]

\* Requests wait once each, and those that do are in line.
LineOK ==
  /\ \A i, j \in DOMAIN mutationQueue : mutationQueue[i] = mutationQueue[j] => i = j
  /\ \A i \in DOMAIN mutationQueue : mutation[mutationQueue[i]].at # "idle"
  /\ \A r \in Mutators : mutation[r].at # "idle" =>
       /\ mutation[r].does # "none" /\ mutation[r].pack \in Packs
       /\ \E i \in DOMAIN mutationQueue : mutationQueue[i] = r

\* What the first in line has loaded is what the settings file says, but for its own change.
CopyOK ==
  \A r \in Mutators : mutation[r].at \in {"loaded", "changed"} =>
    /\ Head(mutationQueue) = r
    /\ \A p \in Packs :
         IF mutation[r].at = "changed" /\ p = mutation[r].pack /\ mutation[r].does # "update"
         THEN p \in mutation[r].copy <=> mutation[r].does = "install"
         ELSE p \in mutation[r].copy <=> p \in persisted

PackagesInv == PackagesTypeOK /\ LineOK /\ CopyOK /\ PackagesAreKept

\* A record with one field changed.
LEMMA FieldChanges ==
  ASSUME NEW a, NEW d, NEW p, NEW c, NEW new, NEW x, x = [at |-> a, does |-> d, pack |-> p, copy |-> c]
  PROVE  /\ [x EXCEPT !.at = new] = [at |-> new, does |-> d, pack |-> p, copy |-> c]
         /\ [x EXCEPT !.does = new] = [at |-> a, does |-> new, pack |-> p, copy |-> c]
         /\ [x EXCEPT !.pack = new] = [at |-> a, does |-> d, pack |-> new, copy |-> c]
         /\ [x EXCEPT !.copy = new] = [at |-> a, does |-> d, pack |-> p, copy |-> new]
<1>1. [x EXCEPT !.at = new] = [at |-> new, does |-> d, pack |-> p, copy |-> c]
  OBVIOUS
<1>2. [x EXCEPT !.does = new] = [at |-> a, does |-> new, pack |-> p, copy |-> c]
  OBVIOUS
<1>3. [x EXCEPT !.pack = new] = [at |-> a, does |-> d, pack |-> new, copy |-> c]
  OBVIOUS
<1>4. [x EXCEPT !.copy = new] = [at |-> a, does |-> d, pack |-> p, copy |-> new]
  OBVIOUS
<1> QED BY <1>1, <1>2, <1>3, <1>4

\* The line when the first in it leaves.
LEMMA FirstLeaves ==
  ASSUME PackagesInv, NEW r \in Mutators, mutation[r].at # "idle", Head(mutationQueue) = r,
         mutation' = [mutation EXCEPT ![r] = NoMutation], mutationQueue' = Tail(mutationQueue)
  PROVE  /\ LineOK' /\ mutationQueue' \in Seq(Mutators) /\ mutation' \in [Mutators -> MutationRecords]
         /\ \A q \in Mutators : mutation'[q].at \notin {"loaded", "changed"}
<1>1. /\ mutationQueue \in Seq(Mutators) /\ mutation \in [Mutators -> MutationRecords] /\ LineOK
  BY DEF PackagesInv, PackagesTypeOK
<1>2. mutationQueue # <<>> /\ DOMAIN mutationQueue = 1 .. Len(mutationQueue) /\ Len(mutationQueue) \in Nat
  BY <1>1 DEF LineOK
<1>3. /\ mutationQueue' \in Seq(Mutators) /\ DOMAIN mutationQueue' = 1 .. Len(mutationQueue) - 1
      /\ \A i \in 1 .. Len(mutationQueue) - 1 : mutationQueue'[i] = mutationQueue[i + 1]
      /\ mutationQueue[1] = r /\ 1 \in DOMAIN mutationQueue
      /\ \A i \in DOMAIN mutationQueue : mutationQueue[i] \in Mutators
  BY <1>1, <1>2
<1>4. NoMutation \in MutationRecords /\ NoMutation.at = "idle"
  BY DEF NoMutation, MutationRecords
<1>5. /\ mutation' \in [Mutators -> MutationRecords] /\ mutation'[r].at = "idle"
      /\ \A q \in Mutators \ {r} : mutation'[q] = mutation[q]
  BY <1>1, <1>4
<1>6. \A i \in DOMAIN mutationQueue' : mutationQueue'[i] # r
  <2> SUFFICES ASSUME NEW i \in DOMAIN mutationQueue' PROVE mutationQueue'[i] # r
    OBVIOUS
  <2>1. i + 1 \in DOMAIN mutationQueue /\ i + 1 # 1 /\ mutationQueue'[i] = mutationQueue[i + 1]
    BY <1>2, <1>3
  <2> QED BY <1>1, <1>3, <2>1 DEF LineOK
<1>7. LineOK'
  <2>1. ASSUME NEW i \in DOMAIN mutationQueue', NEW j \in DOMAIN mutationQueue', mutationQueue'[i] = mutationQueue'[j]
        PROVE  i = j
    <3>1. /\ i \in Nat /\ j \in Nat /\ i + 1 \in DOMAIN mutationQueue /\ j + 1 \in DOMAIN mutationQueue
          /\ mutationQueue[i + 1] = mutationQueue[j + 1]
      BY <1>2, <1>3, <2>1
    <3>2. i + 1 = j + 1
      BY <1>1, <3>1 DEF LineOK
    <3> QED BY <3>1, <3>2
  <2>2. ASSUME NEW i \in DOMAIN mutationQueue' PROVE mutation'[mutationQueue'[i]].at # "idle"
    <3>1. i + 1 \in DOMAIN mutationQueue /\ mutationQueue'[i] = mutationQueue[i + 1]
      BY <1>2, <1>3
    <3> QED BY <1>1, <1>3, <1>5, <1>6, <3>1 DEF LineOK
  <2>3. ASSUME NEW q \in Mutators, mutation'[q].at # "idle"
        PROVE  /\ mutation'[q].does # "none" /\ mutation'[q].pack \in Packs
               /\ \E i \in DOMAIN mutationQueue' : mutationQueue'[i] = q
    <3>1. q # r /\ mutation'[q] = mutation[q]
      BY <1>5, <2>3
    <3>2. PICK i \in DOMAIN mutationQueue : mutationQueue[i] = q
      BY <1>1, <2>3, <3>1 DEF LineOK
    <3>3. i - 1 \in DOMAIN mutationQueue' /\ mutationQueue'[i - 1] = q
      BY <1>2, <1>3, <3>1, <3>2
    <3> QED BY <1>1, <2>3, <3>1, <3>3 DEF LineOK
  <2> QED BY <2>1, <2>2, <2>3 DEF LineOK
<1>8. \A q \in Mutators : mutation'[q].at \notin {"loaded", "changed"}
  BY <1>5 DEF PackagesInv, CopyOK
<1> QED BY <1>3, <1>5, <1>7, <1>8

\* The line when a mutation in it goes on.
LEMMA GoesOn ==
  ASSUME PackagesInv, NEW r \in Mutators, mutation[r].at # "idle", NEW m \in MutationRecords,
         m.at # "idle", m.does = mutation[r].does, m.pack = mutation[r].pack,
         mutation' = [mutation EXCEPT ![r] = m], UNCHANGED mutationQueue
  PROVE  LineOK' /\ mutation' \in [Mutators -> MutationRecords]
<1>1. /\ mutationQueue \in Seq(Mutators) /\ mutation \in [Mutators -> MutationRecords] /\ LineOK
  BY DEF PackagesInv, PackagesTypeOK
<1>2. /\ mutation' \in [Mutators -> MutationRecords] /\ mutation'[r] = m
      /\ \A q \in Mutators \ {r} : mutation'[q] = mutation[q]
  BY <1>1
<1>3. \A i \in DOMAIN mutationQueue : mutationQueue[i] \in Mutators
  BY <1>1
<1> QED BY <1>1, <1>2, <1>3 DEF LineOK

LEMMA PackagesStep == PackagesInv /\ [PackagesNext]_packageVars => PackagesInv'
<1> SUFFICES ASSUME PackagesInv, [PackagesNext]_packageVars PROVE PackagesInv'
  OBVIOUS
<1>1. /\ persisted \in SUBSET Packs /\ mutationQueue \in Seq(Mutators)
      /\ mutation \in [Mutators -> MutationRecords]
      /\ told \in [Packs -> {"unknown", "install", "remove", "update"}]
      /\ LineOK /\ CopyOK /\ PackagesAreKept
  BY DEF PackagesInv, PackagesTypeOK
<1>2. ASSUME NEW r \in Mutators, AskMutation(r) PROVE PackagesInv'
  <2>1. PICK does \in {"install", "remove", "update"}, p \in Packs :
          mutation' = [mutation EXCEPT ![r] = [NoMutation EXCEPT !.at = "queued", !.does = does, !.pack = p]]
    BY <1>2 DEF AskMutation
  <2> DEFINE m == [NoMutation EXCEPT !.at = "queued", !.does = does, !.pack = p]
  <2>2. m = [at |-> "queued", does |-> does, pack |-> p, copy |-> {}]
    <3>1. NoMutation = [at |-> "idle", does |-> "none", pack |-> "none", copy |-> {}]
      BY DEF NoMutation
    <3> DEFINE n == [NoMutation EXCEPT !.at = "queued"]
               o == [n EXCEPT !.does = does]
    <3>2. n = [at |-> "queued", does |-> "none", pack |-> "none", copy |-> {}]
      BY <3>1
    <3> HIDE DEF n
    <3>3. o = [at |-> "queued", does |-> does, pack |-> "none", copy |-> {}]
      BY <3>2, FieldChanges
    <3> HIDE DEF o
    <3>5. [o EXCEPT !.pack = p] = [at |-> "queued", does |-> does, pack |-> p, copy |-> {}]
      BY <3>3, FieldChanges
    <3> QED BY <3>5 DEF o, n
  <2>3. m \in MutationRecords /\ m.at = "queued" /\ m.does # "none" /\ m.pack \in Packs
    BY <2>2 DEF MutationRecords
  <2> HIDE DEF m
  <2>4. /\ mutation' \in [Mutators -> MutationRecords] /\ mutation'[r] = m
        /\ \A q \in Mutators \ {r} : mutation'[q] = mutation[q]
    BY <1>1, <2>1, <2>3 DEF m
  <2>5. /\ mutation[r].at = "idle" /\ UNCHANGED <<persisted, told>>
        /\ mutationQueue' = Append(mutationQueue, r)
    BY <1>2 DEF AskMutation
  <2>6. /\ Len(mutationQueue) \in Nat /\ DOMAIN mutationQueue = 1 .. Len(mutationQueue)
        /\ mutationQueue' \in Seq(Mutators) /\ DOMAIN mutationQueue' = 1 .. Len(mutationQueue) + 1
        /\ mutationQueue'[Len(mutationQueue) + 1] = r
        /\ \A i \in DOMAIN mutationQueue : mutationQueue'[i] = mutationQueue[i] /\ mutationQueue[i] \in Mutators
    BY <1>1, <2>5
  <2>7. \A i \in DOMAIN mutationQueue : mutationQueue[i] # r
    BY <1>1, <2>5 DEF LineOK
  <2>8. PackagesTypeOK'
    BY <1>1, <2>4, <2>5, <2>6 DEF PackagesTypeOK
  <2>9. LineOK'
    <3>1. ASSUME NEW i \in DOMAIN mutationQueue', NEW j \in DOMAIN mutationQueue', mutationQueue'[i] = mutationQueue'[j]
          PROVE  i = j
      <4>1. i \in DOMAIN mutationQueue \/ i = Len(mutationQueue) + 1
        BY <2>6
      <4>2. j \in DOMAIN mutationQueue \/ j = Len(mutationQueue) + 1
        BY <2>6
      <4> QED BY <1>1, <2>6, <2>7, <3>1, <4>1, <4>2 DEF LineOK
    <3>2. ASSUME NEW i \in DOMAIN mutationQueue' PROVE mutation'[mutationQueue'[i]].at # "idle"
      <4>1. i \in DOMAIN mutationQueue \/ i = Len(mutationQueue) + 1
        BY <2>6
      <4> QED BY <1>1, <2>3, <2>4, <2>6, <2>7, <4>1 DEF LineOK
    <3>3. ASSUME NEW q \in Mutators, mutation'[q].at # "idle"
          PROVE  /\ mutation'[q].does # "none" /\ mutation'[q].pack \in Packs
                 /\ \E i \in DOMAIN mutationQueue' : mutationQueue'[i] = q
      <4>1. CASE q = r
        <5>1. Len(mutationQueue) + 1 \in DOMAIN mutationQueue'
          BY <2>6
        <5> QED BY <2>3, <2>4, <2>6, <4>1, <5>1
      <4>2. CASE q # r
        <5>1. mutation'[q] = mutation[q]
          BY <2>4, <4>2
        <5>2. PICK i \in DOMAIN mutationQueue : mutationQueue[i] = q
          BY <1>1, <3>3, <5>1 DEF LineOK
        <5>3. i \in DOMAIN mutationQueue' /\ mutationQueue'[i] = q
          BY <2>6, <5>2
        <5> QED BY <1>1, <3>3, <5>1, <5>3 DEF LineOK
      <4> QED BY <4>1, <4>2
    <3> QED BY <3>1, <3>2, <3>3 DEF LineOK
  <2>10. CopyOK'
    <3> SUFFICES ASSUME NEW q \in Mutators, mutation'[q].at \in {"loaded", "changed"}
                 PROVE  /\ Head(mutationQueue') = q
                        /\ \A k \in Packs :
                             IF mutation'[q].at = "changed" /\ k = mutation'[q].pack /\ mutation'[q].does # "update"
                             THEN k \in mutation'[q].copy <=> mutation'[q].does = "install"
                             ELSE k \in mutation'[q].copy <=> k \in persisted'
      BY DEF CopyOK
    <3>1. q # r /\ mutation'[q] = mutation[q]
      BY <2>3, <2>4
    <3>2. mutationQueue # <<>>
      BY <1>1, <3>1 DEF LineOK
    <3>3. Head(mutationQueue') = Head(mutationQueue)
      BY <1>1, <2>5, <3>2
    <3> QED BY <1>1, <2>5, <3>1, <3>3 DEF CopyOK
  <2>11. PackagesAreKept'
    BY <1>1, <2>5 DEF PackagesAreKept
  <2> QED BY <2>8, <2>9, <2>10, <2>11 DEF PackagesInv
<1>3. ASSUME NEW r \in Mutators, BeginMutation(r) PROVE PackagesInv'
  <2> DEFINE m == [at |-> "loaded", does |-> mutation[r].does, pack |-> mutation[r].pack, copy |-> persisted]
  <2>1. /\ mutation[r].at = "queued" /\ Head(mutationQueue) = r
        /\ mutation' = [mutation EXCEPT ![r].at = "loaded", ![r].copy = persisted]
        /\ UNCHANGED <<persisted, mutationQueue, told>>
    BY <1>3 DEF BeginMutation, FirstInLine
  <2>2. m \in MutationRecords /\ m.at = "loaded" /\ m.copy = persisted /\ m.does = mutation[r].does /\ m.pack = mutation[r].pack
    BY <1>1 DEF MutationRecords
  <2>3. mutation' = [mutation EXCEPT ![r] = m]
    <3>1. mutation[r] = [at |-> mutation[r].at, does |-> mutation[r].does, pack |-> mutation[r].pack,
                         copy |-> mutation[r].copy]
      BY <1>1 DEF MutationRecords
    <3> DEFINE moved == [mutation[r] EXCEPT !.at = "loaded"]
    <3>4. moved = [at |-> "loaded", does |-> mutation[r].does, pack |-> mutation[r].pack, copy |-> mutation[r].copy]
      BY <3>1, FieldChanges
    <3> HIDE DEF moved
    <3>5. [moved EXCEPT !.copy = persisted] = m
      BY <3>4
    <3>2. [mutation[r] EXCEPT !.at = "loaded", !.copy = persisted] = m
      BY <3>5 DEF moved
    <3>3. mutation' = [mutation EXCEPT ![r] = [mutation[r] EXCEPT !.at = "loaded", !.copy = persisted]]
      BY <1>1, <2>1
    <3> QED BY <3>2, <3>3
  <2> HIDE DEF m
  <2>4. LineOK' /\ mutation' \in [Mutators -> MutationRecords]
    BY <2>1, <2>2, <2>3, GoesOn
  <2>5. mutation'[r] = m /\ \A q \in Mutators \ {r} : mutation'[q] = mutation[q]
    BY <1>1, <2>3
  <2>6. \A q \in Mutators \ {r} : mutation[q].at \notin {"loaded", "changed"}
    BY <1>1, <2>1 DEF CopyOK
  <2>7. CopyOK'
    BY <2>1, <2>2, <2>5, <2>6 DEF CopyOK
  <2> QED BY <1>1, <2>1, <2>4, <2>7 DEF PackagesInv, PackagesTypeOK, PackagesAreKept
<1>4. ASSUME NEW r \in Mutators, MutationFails(r) PROVE PackagesInv'
  <2>1. /\ mutation[r].at \in {"queued", "loaded", "changed"} /\ Head(mutationQueue) = r
        /\ mutation' = [mutation EXCEPT ![r] = NoMutation] /\ mutationQueue' = Tail(mutationQueue)
        /\ told' = [told EXCEPT ![mutation[r].pack] = IF mutation[r].at = "queued" THEN @ ELSE "unknown"]
        /\ UNCHANGED persisted
    BY <1>4 DEF MutationFails, FirstInLine, Leaves
  <2>2. mutation[r].pack \in Packs /\ mutation[r].at # "idle"
    BY <1>1, <2>1 DEF LineOK
  <2>3. /\ told' \in [Packs -> {"unknown", "install", "remove", "update"}]
        /\ \A p \in Packs : told'[p] \in {told[p], "unknown"}
    BY <1>1, <2>1, <2>2
  <2>4. /\ LineOK' /\ mutationQueue' \in Seq(Mutators) /\ mutation' \in [Mutators -> MutationRecords]
        /\ \A q \in Mutators : mutation'[q].at \notin {"loaded", "changed"}
    BY <2>1, <2>2, FirstLeaves
  <2> QED BY <1>1, <2>1, <2>3, <2>4 DEF PackagesInv, PackagesTypeOK, CopyOK, PackagesAreKept
<1>5. ASSUME NEW r \in Mutators, ChangeCopy(r) PROVE PackagesInv'
  <2> DEFINE copy == CASE mutation[r].does = "install" -> mutation[r].copy \union {mutation[r].pack}
                       [] mutation[r].does = "remove" -> mutation[r].copy \ {mutation[r].pack}
                       [] OTHER -> mutation[r].copy
             m == [at |-> "changed", does |-> mutation[r].does, pack |-> mutation[r].pack, copy |-> copy]
  <2>1. /\ mutation[r].at = "loaded" /\ UNCHANGED <<persisted, mutationQueue, told>>
        /\ mutation' = [mutation EXCEPT ![r].at = "changed",
             ![r].copy = CASE mutation[r].does = "install" -> @ \union {mutation[r].pack}
                           [] mutation[r].does = "remove" -> @ \ {mutation[r].pack}
                           [] OTHER -> @]
    BY <1>5 DEF ChangeCopy
  <2>2. /\ mutation[r] \in MutationRecords /\ mutation[r].pack \in Packs /\ mutation[r].copy \in SUBSET Packs
        /\ mutation[r].does \in {"install", "remove", "update"}
    BY <1>1, <2>1 DEF LineOK, MutationRecords
  <2>3. /\ copy \in SUBSET Packs
        /\ \A p \in Packs : IF p = mutation[r].pack /\ mutation[r].does # "update"
                            THEN p \in copy <=> mutation[r].does = "install"
                            ELSE p \in copy <=> p \in mutation[r].copy
    BY <2>2
  <2>4. mutation' = [mutation EXCEPT ![r] = m]
    <3>1. mutation[r] = [at |-> mutation[r].at, does |-> mutation[r].does, pack |-> mutation[r].pack,
                         copy |-> mutation[r].copy]
      BY <1>1 DEF MutationRecords
    <3> DEFINE moved == [mutation[r] EXCEPT !.at = "changed"]
    <3>4. moved = [at |-> "changed", does |-> mutation[r].does, pack |-> mutation[r].pack, copy |-> mutation[r].copy]
      BY <3>1, FieldChanges
    <3> HIDE DEF moved
    <3>5. [moved EXCEPT !.copy = copy] = m
      BY <3>4, FieldChanges
    <3>2. [mutation[r] EXCEPT !.at = "changed", !.copy = copy] = m
      BY <3>5 DEF moved
    <3>3. mutation' = [mutation EXCEPT ![r] = [mutation[r] EXCEPT !.at = "changed", !.copy = copy]]
      BY <1>1, <2>1
    <3> QED BY <3>2, <3>3
  <2> HIDE DEF copy
  <2>5. m \in MutationRecords /\ m.at = "changed" /\ m.copy = copy /\ m.does = mutation[r].does /\ m.pack = mutation[r].pack
    BY <1>1, <2>3 DEF MutationRecords
  <2> HIDE DEF m
  <2>6. LineOK' /\ mutation' \in [Mutators -> MutationRecords]
    BY <2>1, <2>4, <2>5, GoesOn
  <2>7. mutation'[r] = m /\ \A q \in Mutators \ {r} : mutation'[q] = mutation[q]
    BY <1>1, <2>4
  <2>8. Head(mutationQueue) = r /\ \A p \in Packs : p \in mutation[r].copy <=> p \in persisted
    BY <1>1, <2>1 DEF CopyOK
  <2>9. \A q \in Mutators \ {r} : mutation[q].at \notin {"loaded", "changed"}
    BY <1>1, <2>8 DEF CopyOK
  <2>10. CopyOK'
    <3>1. ASSUME NEW p \in Packs
          PROVE  IF p = m.pack /\ m.does # "update" THEN p \in m.copy <=> m.does = "install"
                                                    ELSE p \in m.copy <=> p \in persisted
      BY <2>3, <2>5, <2>8
    <3> QED BY <2>1, <2>5, <2>7, <2>8, <2>9, <3>1 DEF CopyOK
  <2> QED BY <1>1, <2>1, <2>6, <2>10 DEF PackagesInv, PackagesTypeOK, PackagesAreKept
<1>6. ASSUME NEW r \in Mutators, FlushSettings(r) PROVE PackagesInv'
  <2>1. /\ mutation[r].at = "changed" /\ mutationQueue' = Tail(mutationQueue)
        /\ mutation' = [mutation EXCEPT ![r] = NoMutation]
        /\ persisted' = IF mutation[r].does = "update" THEN persisted ELSE mutation[r].copy
        /\ told' = [told EXCEPT ![mutation[r].pack] = IF mutation[r].does = "update" THEN @ ELSE mutation[r].does]
    BY <1>6 DEF FlushSettings, Flush, Leaves
  <2>2. /\ mutation[r].pack \in Packs /\ mutation[r].copy \in SUBSET Packs
        /\ mutation[r].does \in {"install", "remove", "update"}
    BY <1>1, <2>1 DEF LineOK, MutationRecords
  <2>3. /\ Head(mutationQueue) = r
        /\ \A p \in Packs :
             IF p = mutation[r].pack /\ mutation[r].does # "update"
             THEN p \in mutation[r].copy <=> mutation[r].does = "install"
             ELSE p \in mutation[r].copy <=> p \in persisted
    BY <1>1, <2>1 DEF CopyOK
  <2>4. /\ LineOK' /\ mutationQueue' \in Seq(Mutators) /\ mutation' \in [Mutators -> MutationRecords]
        /\ \A q \in Mutators : mutation'[q].at \notin {"loaded", "changed"}
    BY <2>1, <2>3, FirstLeaves
  <2>5. /\ told' \in [Packs -> {"unknown", "install", "remove", "update"}]
        /\ \A p \in Packs \ {mutation[r].pack} : told'[p] = told[p]
        /\ told'[mutation[r].pack] = IF mutation[r].does = "update" THEN told[mutation[r].pack] ELSE mutation[r].does
    BY <1>1, <2>1, <2>2
  <2>6. PackagesAreKept'
    <3> SUFFICES ASSUME NEW p \in Packs
                 PROVE  (told'[p] = "install" => p \in persisted') /\ (told'[p] = "remove" => p \notin persisted')
      BY DEF PackagesAreKept
    <3>1. (told[p] = "install" => p \in persisted) /\ (told[p] = "remove" => p \notin persisted)
      BY <1>1 DEF PackagesAreKept
    <3> QED BY <2>1, <2>2, <2>3, <2>5, <3>1
  <2> QED BY <1>1, <2>1, <2>2, <2>4, <2>5, <2>6 DEF PackagesInv, PackagesTypeOK, CopyOK
<1>7. CASE UNCHANGED packageVars
  BY <1>7 DEF packageVars, PackagesInv, PackagesTypeOK, LineOK, CopyOK, PackagesAreKept
<1> QED BY <1>2, <1>3, <1>4, <1>5, <1>6, <1>7 DEF PackagesNext

LEMMA PackagesBegin == PackagesInit => PackagesInv
<1> SUFFICES ASSUME PackagesInit PROVE PackagesInv
  OBVIOUS
<1>1. NoMutation \in MutationRecords /\ NoMutation.at = "idle"
  BY DEF NoMutation, MutationRecords
<1>2. mutationQueue \in Seq(Mutators) /\ DOMAIN mutationQueue = {}
  BY DEF PackagesInit
<1> QED BY <1>1, <1>2 DEF PackagesInit, PackagesInv, PackagesTypeOK, LineOK, CopyOK, PackagesAreKept

----------------------------------------------------------------------------
(* Machines *)

ChangeRecords ==
  [at : {"read", "writes"}, id : MachineIds, read : [MachineIds -> 0 .. MaxRevisions],
   kind : {"add", "update", "remove"}]
ProbeRecords == [at : {"asks"}, id : MachineIds, version : 1 .. MaxRevisions, late : BOOLEAN]
CachedRecords == [version : 1 .. MaxRevisions, late : BOOLEAN]

MachinesTypeOK ==
  /\ listed \in [MachineIds -> 0 .. MaxRevisions] /\ known \in [MachineIds -> 0 .. Removed]
  /\ change \in [Users -> ChangeRecords \cup {NoChange}] /\ probe \in ProbeRecords \cup {NoProbe}
  /\ cache \in [MachineIds -> CachedRecords \cup {NotCached}]
  /\ lapped \subseteq MachineIds

Under(u) == change[u].at # "none"

\* A change that overlaps no other is alone, and has read what the file says of every machine
\* that is no party to an overlap.
ChangesOK ==
  \A u \in Users : Under(u) =>
    /\ \A v \in Users \ {u} : Under(v) => change[u].id \in lapped
    /\ \A m \in MachineIds \ lapped : change[u].read[m] = listed[m]
    /\ change[u].kind = "update" => change[u].read[change[u].id] < MaxRevisions
    /\ change[u].kind = "add" /\ change[u].id \notin lapped => known[change[u].id] = 0

\* The file says what was acknowledged, and so it does while it is written.
ListedOK == \A m \in MachineIds \ lapped : listed[m] = InFile(known[m])

\* So does the request under way, unless the machine changed since.
ProbeOK == probe # NoProbe /\ ~probe.late /\ probe.id \notin lapped => probe.version = known[probe.id]

MachinesInv == MachinesTypeOK /\ ChangesOK /\ ListedOK /\ ProbeOK /\ CachedIsPresent

LEMMA MachineFacts ==
  /\ MaxRevisions \in Nat /\ MaxRevisions > 0 /\ Removed = MaxRevisions + 1
  /\ NoChange.at = "none" /\ \A c \in ChangeRecords : c.at # "none"
  /\ NoProbe.at = "none" /\ \A p \in ProbeRecords : p.at = "asks" /\ p # NoProbe
  /\ \A c \in CachedRecords : c # NotCached
BY MachinesAssumption DEF Removed, NoChange, ChangeRecords, NoProbe, ProbeRecords, NotCached, CachedRecords

LEMMA MachinesListed == MachinesInv => AcknowledgedIsListed
BY DEF MachinesInv, ListedOK, AcknowledgedIsListed

LEMMA ChangeBegins ==
  ASSUME MachinesInv, NEW u \in Users, NEW m \in MachineIds, NEW kind \in {"add", "update", "remove"},
         BeginChange(u, m, kind)
  PROVE  MachinesInv'
<1> DEFINE c == [at |-> "read", id |-> m, read |-> listed, kind |-> kind]
<1>1. /\ ~Under(u) /\ change' = [change EXCEPT ![u] = c]
      /\ kind = "add" => known[m] = 0
      /\ kind = "update" => listed[m] \in 1 .. MaxRevisions - 1
      /\ Overlap(u) /\ UNCHANGED <<listed, torn, probe, cache, known, deaths>>
  BY DEF BeginChange, CanRead, Under
<1>2. MachinesTypeOK /\ ChangesOK
  BY DEF MachinesInv
<1>3. c \in ChangeRecords /\ c.at = "read" /\ c.id = m /\ c.read = listed /\ c.kind = kind
  BY <1>2 DEF ChangeRecords, MachinesTypeOK
<1> HIDE DEF c
<1>4. /\ change' \in [Users -> ChangeRecords \cup {NoChange}] /\ change'[u] = c
      /\ \A v \in Users \ {u} : change'[v] = change[v]
  BY <1>1, <1>2, <1>3 DEF MachinesTypeOK
<1>5. /\ lapped \subseteq lapped' /\ lapped' \subseteq MachineIds
      /\ \A v \in Users \ {u} : Under(v) => m \in lapped' /\ change[v].id \in lapped'
  <2>1. lapped' = IF {v \in Users \ {u} : Under(v)} = {} THEN lapped
                  ELSE lapped \union {change[v].id : v \in {v \in Users \ {u} : Under(v)}} \union {m}
    BY <1>1, <1>3, <1>4 DEF Overlap, Under
  <2>2. \A v \in Users : Under(v) => change[v].id \in MachineIds
    BY <1>2, MachineFacts DEF MachinesTypeOK, ChangeRecords, Under
  <2>3. lapped \subseteq MachineIds
    BY <1>2 DEF MachinesTypeOK
  <2> QED BY <2>1, <2>2, <2>3
<1>6. MachinesTypeOK'
  BY <1>1, <1>2, <1>4, <1>5 DEF MachinesTypeOK
<1>7. ChangesOK'
  <2> SUFFICES ASSUME NEW v \in Users, change'[v].at # "none"
               PROVE  /\ \A w \in Users \ {v} : change'[w].at # "none" => change'[v].id \in lapped'
                      /\ \A n \in MachineIds \ lapped' : change'[v].read[n] = listed'[n]
                      /\ change'[v].kind = "update" => change'[v].read[change'[v].id] < MaxRevisions
                      /\ change'[v].kind = "add" /\ change'[v].id \notin lapped' => known'[change'[v].id] = 0
    BY DEF ChangesOK, Under
  <2>1. CASE v = u
    <3>1. kind = "update" => listed[m] < MaxRevisions
      BY <1>1, <1>2, MachineFacts DEF MachinesTypeOK
    <3> QED BY <1>1, <1>3, <1>4, <1>5, <2>1, <3>1 DEF Under
  <2>2. CASE v # u
    <3>1. change'[v] = change[v] /\ Under(v) /\ change[v].id \in lapped'
      BY <1>4, <1>5, <2>2 DEF Under
    <3> QED BY <1>1, <1>2, <1>5, <3>1 DEF ChangesOK
  <2> QED BY <2>1, <2>2
<1>8. ListedOK' /\ ProbeOK' /\ CachedIsPresent'
  BY <1>1, <1>5 DEF MachinesInv, ListedOK, ProbeOK, CachedIsPresent, InFile, Removed, NoProbe, NotCached
<1> QED BY <1>6, <1>7, <1>8 DEF MachinesInv

LEMMA ChangeEnds ==
  ASSUME MachinesInv, NEW u \in Users, EndWrite(u)
  PROVE  MachinesInv'
<1> DEFINE m == change[u].id
           kind == change[u].kind
<1>1. MachinesTypeOK /\ ChangesOK /\ ListedOK /\ ProbeOK /\ CachedIsPresent
  BY DEF MachinesInv
<1>2. /\ Under(u) /\ listed' = Changed(change[u])
      /\ known' = [known EXCEPT ![m] = IF kind = "remove" THEN Removed ELSE listed'[m]]
      /\ IF kind = "add" THEN UNCHANGED cache ELSE cache' = [cache EXCEPT ![m] = NotCached]
      /\ probe' = IF probe # NoProbe /\ probe.id = m THEN [probe EXCEPT !.late = TRUE] ELSE probe
      /\ change' = [change EXCEPT ![u] = NoChange] /\ lapped' = lapped
  BY DEF EndWrite, Under, Uncached
<1>3. /\ change[u] \in ChangeRecords /\ m \in MachineIds /\ kind \in {"add", "update", "remove"}
      /\ change[u].read \in [MachineIds -> 0 .. MaxRevisions]
  BY <1>1, <1>2, MachineFacts DEF MachinesTypeOK, ChangeRecords, Under
<1>4. kind = "update" => change[u].read[m] < MaxRevisions
  BY <1>1, <1>2 DEF ChangesOK
<1> HIDE DEF m, kind
<1>5. /\ listed' \in [MachineIds -> 0 .. MaxRevisions]
      /\ listed'[m] = IF kind = "add" THEN 1 ELSE IF kind = "update" THEN change[u].read[m] + 1 ELSE 0
      /\ \A n \in MachineIds \ {m} : listed'[n] = change[u].read[n]
  <2>1. listed' = [change[u].read EXCEPT ![m] = CASE kind = "add"    -> 1
                                                  [] kind = "update" -> @ + 1
                                                  [] kind = "remove" -> 0]
    BY <1>2 DEF Changed, m, kind
  <2>2. change[u].read[m] \in 0 .. MaxRevisions /\ MaxRevisions \in Nat /\ MaxRevisions > 0
    BY <1>3, MachineFacts
  <2>3. (IF kind = "add" THEN 1 ELSE IF kind = "update" THEN change[u].read[m] + 1 ELSE 0) \in 0 .. MaxRevisions
    BY <1>3, <1>4, <2>2
  <2>4. listed' = [change[u].read EXCEPT ![m] =
          IF kind = "add" THEN 1 ELSE IF kind = "update" THEN change[u].read[m] + 1 ELSE 0]
    BY <1>3, <2>1
  <2> QED BY <1>3, <2>3, <2>4
<1>6. /\ known' \in [MachineIds -> 0 .. Removed]
      /\ known'[m] = IF kind = "remove" THEN Removed ELSE listed'[m]
      /\ \A n \in MachineIds \ {m} : known'[n] = known[n]
  <2>1. 0 .. MaxRevisions \subseteq 0 .. Removed /\ Removed \in 0 .. Removed
    BY MachineFacts
  <2>2. (IF kind = "remove" THEN Removed ELSE listed'[m]) \in 0 .. Removed
    BY <1>3, <1>5, <2>1
  <2>3. known \in [MachineIds -> 0 .. Removed]
    BY <1>1 DEF MachinesTypeOK
  <2> QED BY <1>2, <1>3, <2>2, <2>3
<1>7. /\ change' \in [Users -> ChangeRecords \cup {NoChange}] /\ change'[u] = NoChange
      /\ \A v \in Users \ {u} : change'[v] = change[v]
  BY <1>1, <1>2 DEF MachinesTypeOK
<1>8. /\ cache' \in [MachineIds -> CachedRecords \cup {NotCached}]
      /\ \A n \in MachineIds \ {m} : cache'[n] = cache[n]
      /\ kind # "add" => cache'[m] = NotCached
      /\ kind = "add" => cache'[m] = cache[m]
  BY <1>1, <1>2, <1>3 DEF MachinesTypeOK
<1>9. /\ probe' \in ProbeRecords \cup {NoProbe}
      /\ probe' = NoProbe \/ probe'.late \/ (probe' = probe /\ probe.id # m)
  <2>1. CASE probe \in ProbeRecords /\ probe.id = m
    <3>1. probe' = [probe EXCEPT !.late = TRUE]
      BY <1>2, <2>1, MachineFacts
    <3>2. probe' \in ProbeRecords /\ probe'.late
      BY <2>1, <3>1 DEF ProbeRecords
    <3> QED BY <3>2
  <2>2. CASE probe = NoProbe \/ probe.id # m
    BY <1>1, <1>2, <2>2 DEF MachinesTypeOK
  <2> QED BY <1>1, <2>1, <2>2 DEF MachinesTypeOK
<1>10. MachinesTypeOK'
  BY <1>1, <1>2, <1>5, <1>6, <1>7, <1>8, <1>9 DEF MachinesTypeOK
<1>11. \A n \in MachineIds \ (lapped \cup {m}) : listed'[n] = listed[n]
  BY <1>1, <1>2, <1>5 DEF ChangesOK
<1>12. ListedOK'
  <2> SUFFICES ASSUME NEW n \in MachineIds \ lapped PROVE listed'[n] = InFile(known'[n])
    BY <1>2 DEF ListedOK, InFile, Removed
  <2>1. CASE n = m
    <3>1. listed'[m] \in 0 .. MaxRevisions /\ listed'[m] # Removed
      BY <1>3, <1>5, MachineFacts
    <3> QED BY <1>3, <1>5, <1>6, <2>1, <3>1 DEF InFile
  <2>2. CASE n # m
    BY <1>1, <1>6, <1>11, <2>2 DEF ListedOK
  <2> QED BY <2>1, <2>2
<1>13. ChangesOK'
  <2> SUFFICES ASSUME NEW v \in Users, change'[v].at # "none"
               PROVE  /\ \A w \in Users \ {v} : change'[w].at # "none" => change'[v].id \in lapped'
                      /\ \A n \in MachineIds \ lapped' : change'[v].read[n] = listed'[n]
                      /\ change'[v].kind = "update" => change'[v].read[change'[v].id] < MaxRevisions
                      /\ change'[v].kind = "add" /\ change'[v].id \notin lapped' => known'[change'[v].id] = 0
    BY DEF ChangesOK, Under
  <2>1. v # u /\ change'[v] = change[v] /\ Under(v)
    BY <1>7, MachineFacts DEF Under
  <2>2. m \in lapped /\ change[v].id \in lapped
    BY <1>1, <1>2, <2>1 DEF ChangesOK, m
  <2>3. \A w \in Users \ {v} : change'[w].at # "none" => change'[v].id \in lapped'
    BY <1>2, <2>1, <2>2
  <2>4. \A n \in MachineIds \ lapped' : change'[v].read[n] = listed'[n]
    BY <1>1, <1>2, <1>11, <2>1, <2>2 DEF ChangesOK
  <2> QED BY <1>1, <1>2, <2>1, <2>2, <2>3, <2>4 DEF ChangesOK
<1>14. ProbeOK'
  <2> SUFFICES ASSUME probe' # NoProbe, ~probe'.late, probe'.id \notin lapped
               PROVE  probe'.version = known'[probe'.id]
    BY <1>2 DEF ProbeOK, NoProbe
  <2>1. probe' = probe /\ probe.id # m /\ probe \in ProbeRecords
    BY <1>1, <1>9 DEF MachinesTypeOK
  <2>2. probe.id \in MachineIds \ {m}
    BY <2>1 DEF ProbeRecords
  <2> QED BY <1>1, <1>6, <2>1, <2>2 DEF ProbeOK
<1>15. CachedIsPresent'
  <2> SUFFICES ASSUME NEW n \in MachineIds, cache'[n] # NotCached, ~cache'[n].late, n \notin lapped
               PROVE  cache'[n].version = known'[n]
    BY <1>2 DEF CachedIsPresent, NotCached
  <2>1. CASE n # m
    BY <1>1, <1>6, <1>8, <2>1 DEF CachedIsPresent
  <2>2. CASE n = m
    <3>1. kind = "add" /\ cache'[n] = cache[n]
      BY <1>8, <2>2
    <3>2. known[n] = 0
      BY <1>1, <1>2, <2>2, <3>1 DEF ChangesOK, m, kind
    <3>3. cache[n].version = 0 /\ cache[n] \in CachedRecords
      BY <1>1, <3>1, <3>2 DEF CachedIsPresent, MachinesTypeOK
    <3> QED BY <3>3, MachineFacts DEF CachedRecords
  <2> QED BY <2>1, <2>2
<1> QED BY <1>10, <1>12, <1>13, <1>14, <1>15 DEF MachinesInv

\* What touches neither the file nor the changes of it.
LEMMA HealthMoves ==
  ASSUME MachinesInv, UNCHANGED <<listed, change, known, lapped>>,
         probe' \in ProbeRecords \cup {NoProbe}, cache' \in [MachineIds -> CachedRecords \cup {NotCached}],
         ProbeOK', CachedIsPresent'
  PROVE  MachinesInv'
<1>1. MachinesTypeOK' /\ ListedOK'
  BY DEF MachinesInv, MachinesTypeOK, ListedOK, InFile, Removed
<1>2. ChangesOK'
  BY DEF MachinesInv, ChangesOK, Under
<1> QED BY <1>1, <1>2 DEF MachinesInv

LEMMA MachinesStep == MachinesInv /\ [MachinesNext]_machineVars => MachinesInv'
<1> SUFFICES ASSUME MachinesInv, [MachinesNext]_machineVars PROVE MachinesInv'
  OBVIOUS
<1>1. MachinesTypeOK /\ ChangesOK /\ ListedOK /\ ProbeOK /\ CachedIsPresent
  BY DEF MachinesInv
<1>2. /\ probe \in ProbeRecords \cup {NoProbe} /\ cache \in [MachineIds -> CachedRecords \cup {NotCached}]
      /\ listed \in [MachineIds -> 0 .. MaxRevisions] /\ known \in [MachineIds -> 0 .. Removed]
      /\ change \in [Users -> ChangeRecords \cup {NoChange}]
  BY <1>1 DEF MachinesTypeOK
<1>3. ASSUME NEW u \in Users, BeginWrite(u) PROVE MachinesInv'
  <2>1. /\ change[u].at = "read" /\ change' = [change EXCEPT ![u].at = "writes"]
        /\ UNCHANGED <<listed, probe, cache, known, lapped>>
    BY <1>3 DEF BeginWrite
  <2>2. change[u] \in ChangeRecords
    BY <1>2, <2>1, MachineFacts
  <2>3. [change[u] EXCEPT !.at = "writes"] \in ChangeRecords
    BY <2>2 DEF ChangeRecords
  <2>4. change' = [change EXCEPT ![u] = [change[u] EXCEPT !.at = "writes"]]
    BY <1>2, <2>1
  <2>5. /\ change' \in [Users -> ChangeRecords \cup {NoChange}]
        /\ \A v \in Users \ {u} : change'[v] = change[v]
        /\ change'[u] = [change[u] EXCEPT !.at = "writes"]
    BY <1>2, <2>3, <2>4
  <2>6. change'[u].id = change[u].id /\ change'[u].read = change[u].read /\ change'[u].kind = change[u].kind
    BY <2>2, <2>5 DEF ChangeRecords
  <2>7. \A v \in Users : Under(v)' => Under(v)
    BY <2>1, <2>5 DEF Under
  <2>8. \A v \in Users : change'[v].id = change[v].id /\ change'[v].read = change[v].read /\ change'[v].kind = change[v].kind
    BY <2>5, <2>6
  <2>9. ChangesOK'
    BY <1>1, <2>1, <2>7, <2>8 DEF ChangesOK
  <2>10. MachinesTypeOK' /\ ListedOK' /\ ProbeOK' /\ CachedIsPresent'
    BY <1>1, <2>1, <2>5 DEF MachinesTypeOK, ListedOK, ProbeOK, CachedIsPresent, InFile, Removed, NoProbe, NotCached
  <2> QED BY <2>9, <2>10 DEF MachinesInv
<1>4. ASSUME NEW m \in MachineIds, BeginProbe(m) PROVE MachinesInv'
  <2> DEFINE p == [at |-> "asks", id |-> m, version |-> listed[m], late |-> FALSE]
  <2>1. listed[m] > 0 /\ probe' = p /\ UNCHANGED <<listed, change, cache, known, lapped>>
    BY <1>4 DEF BeginProbe
  <2>2. listed[m] \in 1 .. MaxRevisions
    BY <1>2, <2>1, MachineFacts
  <2>3. p \in ProbeRecords /\ p.id = m /\ p.version = listed[m]
    BY <2>2 DEF ProbeRecords
  <2>4. m \notin lapped => listed[m] = known[m]
    BY <1>1, <2>1, <1>2 DEF ListedOK, InFile
  <2>5. ProbeOK' /\ CachedIsPresent'
    BY <1>1, <2>1, <2>3, <2>4 DEF ProbeOK, CachedIsPresent, NotCached
  <2> QED BY <1>2, <2>1, <2>3, <2>5, HealthMoves
<1>5. CASE EndProbe
  <2> DEFINE c == [version |-> probe.version, late |-> probe.late]
  <2>1. /\ probe.at = "asks" /\ cache' = [cache EXCEPT ![probe.id] = c] /\ probe' = NoProbe
        /\ UNCHANGED <<listed, change, known, lapped>>
    BY <1>5 DEF EndProbe
  <2>2. probe \in ProbeRecords /\ probe # NoProbe
    BY <1>2, <2>1, MachineFacts
  <2>3. c \in CachedRecords /\ probe.id \in MachineIds /\ c.version = probe.version /\ c.late = probe.late
    BY <2>2 DEF ProbeRecords, CachedRecords
  <2> HIDE DEF c
  <2>4. /\ cache' \in [MachineIds -> CachedRecords \cup {NotCached}] /\ cache'[probe.id] = c
        /\ \A n \in MachineIds \ {probe.id} : cache'[n] = cache[n]
    BY <1>2, <2>1, <2>3
  <2>5. ProbeOK'
    BY <2>1 DEF ProbeOK, NoProbe
  <2>6. CachedIsPresent'
    BY <1>1, <2>1, <2>2, <2>3, <2>4 DEF CachedIsPresent, ProbeOK, NotCached
  <2> QED BY <2>1, <2>4, <2>5, <2>6, HealthMoves
<1>6. ASSUME NEW m \in MachineIds, CacheExpires(m) PROVE MachinesInv'
  <2>1. cache' = [cache EXCEPT ![m] = NotCached] /\ UNCHANGED <<listed, change, probe, known, lapped>>
    BY <1>6 DEF CacheExpires
  <2>2. /\ cache' \in [MachineIds -> CachedRecords \cup {NotCached}]
        /\ \A n \in MachineIds : cache'[n] \in {cache[n], NotCached}
    BY <1>2, <2>1
  <2>3. ProbeOK' /\ CachedIsPresent'
    BY <1>1, <2>1, <2>2 DEF ProbeOK, CachedIsPresent, NoProbe, NotCached
  <2> QED BY <1>2, <2>1, <2>2, <2>3, HealthMoves
<1>7. CASE ServerDies
  <2>1. /\ change' = [u \in Users |-> NoChange] /\ probe' = NoProbe
        /\ cache' = [m \in MachineIds |-> NotCached]
        /\ lapped' = lapped \union {change[u].id : u \in {v \in Users : change[v].at # "none"}}
        /\ UNCHANGED <<listed, known>>
    BY <1>7 DEF ServerDies
  <2>2. \A u \in Users : change[u].at # "none" => change[u].id \in MachineIds
    BY <1>2, MachineFacts DEF ChangeRecords
  <2>3. lapped \subseteq lapped' /\ lapped' \subseteq MachineIds
    BY <1>1, <2>1, <2>2 DEF MachinesTypeOK
  <2>4. MachinesTypeOK'
    BY <1>2, <2>1, <2>3 DEF MachinesTypeOK
  <2>5. ChangesOK'
    BY <2>1, MachineFacts DEF ChangesOK, Under
  <2>6. ListedOK' /\ ProbeOK' /\ CachedIsPresent'
    BY <1>1, <2>1, <2>3 DEF ListedOK, ProbeOK, CachedIsPresent, InFile, Removed, NoProbe, NotCached
  <2> QED BY <2>4, <2>5, <2>6 DEF MachinesInv
<1>8. CASE UNCHANGED machineVars
  <2>1. UNCHANGED <<listed, change, known, lapped, probe, cache>>
    BY <1>8 DEF machineVars
  <2>2. ProbeOK' /\ CachedIsPresent'
    BY <1>1, <2>1 DEF ProbeOK, CachedIsPresent, NoProbe, NotCached
  <2> QED BY <1>2, <2>1, <2>2, HealthMoves
<1> QED BY <1>3, <1>4, <1>5, <1>6, <1>7, <1>8, ChangeBegins, ChangeEnds DEF MachinesNext

LEMMA MachinesBegin == MachinesInit => MachinesInv
<1> SUFFICES ASSUME MachinesInit PROVE MachinesInv
  OBVIOUS
<1>1. 0 \in 0 .. MaxRevisions /\ 0 \in 0 .. Removed /\ InFile(0) = 0
  BY MachineFacts DEF InFile
<1> QED BY <1>1, MachineFacts
        DEF MachinesInit, MachinesInv, MachinesTypeOK, ChangesOK, Under, ListedOK, ProbeOK, CachedIsPresent

----------------------------------------------------------------------------
(* The routes of sessions *)

\* A receipt is about what every request it answers asks for.
ReceiptsOK ==
  \A receipt \in receipts : \A r \in Requests :
    Commanded(r) /\ receipt.kind = r.route.op /\ receipt.fingerprint = Fingerprint(r)
      => receipt.effect = EffectsOf(r, receipt.default)

RoutesInv == defaultRuntime \in Runtimes /\ ReceiptsOK /\ RequestsAreFaithful

\* The routes that take commands, and those that find a session, are served by one runtime.
LEMMA RoutesServed ==
  ASSUME NEW route \in AllRoutes
  PROVE  /\ route.commands # "never" =>
              route.op \notin PiOnly \cup OfBoth /\ route.lookup # "refs"
         /\ route.lookup \in {"query", "body", "strictQuery", "strictBody", "refs"} =>
              route.op \notin PiOnly \cup OfBoth
<1>1. \/ route \in Catalogs \cup Lists \cup Unread
      \/ route \in Interactions \cup Cleanups \cup Bulks
      \/ route \in Notifications \cup Reads
      \/ route \in Settings \cup Prompts
      \/ route \in CommandRoutes \cup Forks \cup Stops
      \/ route \in Archives \cup Deletes
  BY DEF AllRoutes
<1>2. CASE route \in Catalogs \cup Lists \cup Unread
  BY <1>2 DEF Catalogs, Lists, Unread, Routes, PiOnly, OfBoth
<1>3. CASE route \in Interactions \cup Cleanups \cup Bulks
  BY <1>3 DEF Interactions, Cleanups, Bulks, Routes, PiOnly, OfBoth
<1>4. CASE route \in Notifications \cup Reads
  BY <1>4 DEF Notifications, Reads, Routes, PiOnly, OfBoth
<1>5. CASE route \in Settings \cup Prompts
  BY <1>5 DEF Settings, Prompts, Routes, PiOnly, OfBoth
<1>6. CASE route \in CommandRoutes \cup Forks \cup Stops
  BY <1>6 DEF CommandRoutes, Forks, Stops, Routes, PiOnly, OfBoth
<1>7. CASE route \in Archives \cup Deletes
  BY <1>7 DEF Archives, Deletes, Routes, PiOnly, OfBoth
<1> QED BY <1>1, <1>2, <1>3, <1>4, <1>5, <1>6, <1>7

LEMMA RequestFacts ==
  ASSUME NEW r \in Requests
  PROVE  r.route \in AllRoutes /\ r.id \in Ids /\ r.runtime \in Runtimes \cup {Unset}
<1>1. PICK route \in AllRoutes : r \in RequestsTo(route)
  BY DEF Requests
<1>2. r.route = route /\ r.id \in Ids /\ r.runtime \in Runtimes \cup {Unset}
  BY <1>1 DEF RequestsTo
<1> QED BY <1>2

\* Requests with a commandId that share their operation and their fingerprint have one effect.
LEMMA SameEffect ==
  ASSUME NEW r \in Requests, NEW q \in Requests, Commanded(r), Commanded(q),
         r.route.op = q.route.op, Fingerprint(r) = Fingerprint(q)
  PROVE  \A default : EffectsOf(r, default) = EffectsOf(q, default)
<1> SUFFICES ASSUME NEW default PROVE EffectsOf(r, default) = EffectsOf(q, default)
  OBVIOUS
<1>1. /\ EffectsOf(r, default) = {Effect(r, ServiceFor(r, default))}
      /\ EffectsOf(q, default) = {Effect(q, ServiceFor(q, default))}
  BY RequestFacts, RoutesServed DEF EffectsOf, Commanded
<1>2. LookupRuntime(r) = LookupRuntime(q) /\ r.payload = q.payload
  BY DEF Fingerprint
<1>3. (IF r.route.op = "start" THEN Unset ELSE r.id) = (IF q.route.op = "start" THEN Unset ELSE q.id)
  BY DEF Fingerprint
<1>4. ServiceFor(r, default) = ServiceFor(q, default)
  BY <1>2 DEF ServiceFor
<1> QED BY <1>1, <1>2, <1>3, <1>4 DEF Effect

\* A request that names a runtime, or that the default decides, acts in that runtime alone.
LEMMA ActsThere ==
  ASSUME NEW r \in Requests, NEW rt \in Runtimes, NEW default \in Runtimes,
         r.route.lookup \in {"query", "body", "strictQuery", "strictBody", "refs"}, r.cwd,
         \/ r.runtime = rt
         \/ r.runtime = Unset /\ rt = default /\ (r.route.lookup = "refs" => default = "pi")
  PROVE  EffectsOf(r, default) = {Effect(r, rt)} /\ ServiceFor(r, default) = rt
<1>1. r.route.op \notin PiOnly \cup OfBoth
  BY RequestFacts, RoutesServed
<1>2. LookupRuntime(r) = r.runtime
  BY DEF LookupRuntime
<1>3. ServiceFor(r, default) = rt
  BY <1>2 DEF ServiceFor, Runtimes, Unset
<1>4. CASE r.route.lookup # "refs"
  BY <1>1, <1>3, <1>4 DEF EffectsOf
<1>5. CASE r.route.lookup = "refs"
  <2>1. EffectsOf(r, default) = {Effect(r, x) : x \in {y \in Runtimes : Partition({[runtime |-> r.runtime]})[y] # {}}}
    BY <1>1, <1>5 DEF EffectsOf
  <2>2. ASSUME NEW x \in Runtimes
        PROVE  Partition({[runtime |-> r.runtime]})[x] # {} <=> x = rt
    <3>1. Partition({[runtime |-> r.runtime]})[x] = {ref \in {[runtime |-> r.runtime]} : (ref.runtime = "omp") = (x = "omp")}
      BY DEF Partition
    <3>2. Partition({[runtime |-> r.runtime]})[x] # {} <=> ((r.runtime = "omp") = (x = "omp"))
      <4> DEFINE ref == [runtime |-> r.runtime]
      <4>1. ref.runtime = r.runtime
        OBVIOUS
      <4> HIDE DEF ref
      <4>2. Partition({ref})[x] = {e \in {ref} : (e.runtime = "omp") = (x = "omp")}
        BY <3>1 DEF ref
      <4>3. Partition({ref})[x] # {} <=> ((ref.runtime = "omp") = (x = "omp"))
        BY <4>2
      <4> QED BY <4>1, <4>3 DEF ref
    <3>3. (r.runtime = "omp") = (rt = "omp")
      BY <1>5 DEF Unset
    <3> QED BY <3>2, <3>3 DEF Runtimes
  <2>3. {y \in Runtimes : Partition({[runtime |-> r.runtime]})[y] # {}} = {rt}
    BY <2>2
  <2> QED BY <1>3, <2>1, <2>3
<1> QED BY <1>3, <1>4, <1>5

\* Where a request named a runtime, what it ran is of that runtime.
LEMMA NamedIsServed ==
  ASSUME NEW r \in Requests, defaultRuntime \in Runtimes,
         r.route.lookup \in {"query", "body", "strictQuery", "strictBody", "refs"}, r.cwd,
         r.runtime # Unset
  PROVE  \A effect \in EffectsOf(r, defaultRuntime) : effect.runtime = r.runtime
<1>1. EffectsOf(r, defaultRuntime) = {Effect(r, r.runtime)}
  BY RequestFacts, ActsThere
<1>2. Effect(r, r.runtime).runtime = r.runtime
  BY DEF Effect
<1> QED BY <1>1, <1>2

LEMMA OwnerFound ==
  ASSUME NEW r \in Requests, Runs(r), defaultRuntime \in Runtimes,
         r.route.lookup \in {"query", "body", "strictQuery", "strictBody", "refs"}, r.cwd,
         \/ r.runtime = Owner[r.id]
         \/ /\ r.runtime = Unset /\ Owner[r.id] = defaultRuntime
            /\ r.route.lookup = "refs" => defaultRuntime = "pi"
  PROVE  ran' = {Effect(r, Owner[r.id])} /\ answer' = "ok"
<1>1. Owner[r.id] \in Runtimes
  BY OwnerAssumption, RequestFacts
<1>2. EffectsOf(r, defaultRuntime) = {Effect(r, Owner[r.id])} /\ ServiceFor(r, defaultRuntime) = Owner[r.id]
  BY <1>1, ActsThere
<1> QED BY <1>2 DEF Runs, Found

LEMMA RoutesStep == RoutesInv /\ [RoutesNext]_routeVars => RoutesInv'
<1> SUFFICES ASSUME RoutesInv, [RoutesNext]_routeVars PROVE RoutesInv'
  OBVIOUS
<1>1. CASE UNCHANGED routeVars
  <2>1. UNCHANGED <<defaultRuntime, receipts, call, ran, answer>>
    BY <1>1 DEF routeVars
  <2>2. ReceiptsOK'
    BY <2>1 DEF RoutesInv, ReceiptsOK
  <2>3. RetriesMeanTheSame'
    BY <2>1 DEF RoutesInv, RequestsAreFaithful, RetriesMeanTheSame
  <2>4. OwnersServe'
    BY <2>1 DEF RoutesInv, RequestsAreFaithful, OwnersServe
  <2> QED BY <2>1, <2>2, <2>3, <2>4 DEF RoutesInv, RequestsAreFaithful
<1>2. CASE Reply \/ Restart
  <2>1. /\ call' = NoCall /\ NoCall.route.commands = "never" /\ NoCall.route.lookup = "none"
        /\ receipts' = receipts /\ defaultRuntime' \in Runtimes
    BY <1>2 DEF Reply, Restart, NoCall, RoutesInv
  <2>2. RetriesMeanTheSame'
    BY <2>1 DEF RetriesMeanTheSame, Commanded
  <2>3. OwnersServe'
    BY <2>1 DEF OwnersServe
  <2> QED BY <2>1, <2>2, <2>3 DEF RoutesInv, RequestsAreFaithful, ReceiptsOK
<1>3. ASSUME NEW r \in Requests, HandleRequest(r) PROVE RoutesInv'
  <2>1. call' = r /\ defaultRuntime' = defaultRuntime /\ defaultRuntime \in Runtimes
    BY <1>3 DEF HandleRequest, RoutesInv
  <2>2. CASE Refused("bad") \/ Refused("stale")
    <3>1. answer' \in {"bad", "stale"} /\ receipts' = receipts /\ ran' = {}
      BY <2>2 DEF Refused
    <3>2. OwnersServe' /\ RetriesMeanTheSame'
      BY <3>1 DEF RetriesMeanTheSame, OwnersServe
    <3> QED BY <2>1, <3>1, <3>2 DEF RoutesInv, RequestsAreFaithful, ReceiptsOK
  <2>3. CASE Commanded(r) /\ RunsOnce(r)
    <3>1. OwnersServe'
      <4>1. ran' = {} \/ ran' = EffectsOf(r, defaultRuntime)
        BY <2>3 DEF RunsOnce, Refused
      <4> QED BY <2>1, <2>3, <4>1, NamedIsServed DEF OwnersServe, Commanded
    <3>2. CASE receipts # {}
      <4>1. PICK receipt \in receipts :
              answer' = IF receipt.kind = r.route.op /\ receipt.fingerprint = Fingerprint(r) THEN "ok" ELSE "conflict"
        BY <2>3, <3>2 DEF RunsOnce
      <4>2. receipts' = receipts
        BY <2>3, <3>2 DEF RunsOnce
      <4>3. answer' = "ok" => receipt.effect = EffectsOf(r, receipt.default)
        BY <2>3, <4>1 DEF RoutesInv, ReceiptsOK
      <4>4. RetriesMeanTheSame'
        BY <2>1, <4>2, <4>3 DEF RetriesMeanTheSame
      <4> QED BY <2>1, <3>1, <4>2, <4>4 DEF RoutesInv, RequestsAreFaithful, ReceiptsOK
    <3>3. CASE receipts = {} /\ r.epoch = "now"
      <4> DEFINE new == [kind |-> r.route.op, fingerprint |-> Fingerprint(r),
                     effect |-> EffectsOf(r, defaultRuntime), default |-> defaultRuntime]
      <4>1. receipts' = {new} /\ ran' = EffectsOf(r, defaultRuntime)
        BY <2>3, <3>3 DEF RunsOnce
      <4>2. /\ new.kind = r.route.op /\ new.fingerprint = Fingerprint(r)
            /\ new.effect = EffectsOf(r, defaultRuntime) /\ new.default = defaultRuntime
        OBVIOUS
      <4> HIDE DEF new
      <4>3. ReceiptsOK'
        BY <2>3, <4>1, <4>2, SameEffect DEF ReceiptsOK
      <4>4. RetriesMeanTheSame'
        BY <2>1, <4>1, <4>2 DEF RetriesMeanTheSame
      <4> QED BY <2>1, <3>1, <4>3, <4>4 DEF RoutesInv, RequestsAreFaithful
    <3> QED BY <2>2, <2>3, <3>2, <3>3 DEF RunsOnce
  <2>4. CASE ~Commanded(r) /\ Runs(r) /\ UNCHANGED receipts
    <3>1. RetriesMeanTheSame'
      BY <2>1, <2>4 DEF RetriesMeanTheSame
    <3>2. OwnersServe'
      <4>1. ran' = EffectsOf(r, defaultRuntime)
        BY <2>4 DEF Runs
      <4> QED BY <2>1, <2>4, <4>1, OwnerFound, NamedIsServed DEF OwnersServe
    <3> QED BY <2>1, <2>4, <3>1, <3>2 DEF RoutesInv, RequestsAreFaithful, ReceiptsOK
  <2> QED BY <1>3, <2>2, <2>3, <2>4 DEF HandleRequest
<1> QED BY <1>1, <1>2, <1>3 DEF RoutesNext

LEMMA RoutesBegin == RoutesInit => RoutesInv
<1>1. NoCall.route.commands = "never" /\ NoCall.route.lookup = "none"
  BY DEF NoCall
<1> QED BY <1>1 DEF RoutesInit, RoutesInv, ReceiptsOK, RequestsAreFaithful, RetriesMeanTheSame, OwnersServe, Commanded

----------------------------------------------------------------------------
(* The components together, of which a behaviour steps one *)

RoutesSpec == RoutesInit /\ [][RoutesNext]_routeVars
SettingsSpec == SettingsInit /\ [][SettingsNext]_settingsVars
OmpSettingsSpec == OmpSettingsInit /\ [][OmpSettingsNext]_ompSettingsVars
PackagesSpec == PackagesInit /\ [][PackagesNext]_packageVars
MachinesSpec == MachinesInit /\ [][MachinesNext]_machineVars

LEMMA EachSteps ==
  /\ MCSpec => DialogsSpec
  /\ MCSpec => RoutesSpec
  /\ MCSpec => SettingsSpec
  /\ MCSpec => OmpSettingsSpec
  /\ MCSpec => PackagesSpec
  /\ MCSpec => MachinesSpec
<1>1. MCInit => DialogsInit /\ RoutesInit /\ SettingsInit /\ OmpSettingsInit /\ PackagesInit /\ MachinesInit
  BY DEF MCInit
<1>2. [MCNext]_allVars => /\ [DialogsNext]_dialogVars
                         /\ [RoutesNext]_routeVars
                         /\ [SettingsNext]_settingsVars
                         /\ [OmpSettingsNext]_ompSettingsVars
                         /\ [PackagesNext]_packageVars
                         /\ [MachinesNext]_machineVars
  BY DEF MCNext, allVars
<1> QED BY <1>1, <1>2, PTL DEF MCSpec, DialogsSpec, RoutesSpec, SettingsSpec,
                                       OmpSettingsSpec, PackagesSpec, MachinesSpec

\* Requests reach the session they name, and a receipt answers only what it is about.
THEOREM RoutesAreFaithful == RoutesSpec => []RequestsAreFaithful
<1>1. RoutesInv => RequestsAreFaithful
  BY DEF RoutesInv
<1> QED BY <1>1, RoutesBegin, RoutesStep, PTL DEF RoutesSpec

\* An answer of success is of a machine that kept the profile, and the file it leaves loads.
THEOREM SettingsAreInEffect == SettingsSpec => []AcceptedIsInEffect
<1>1. SettingsInv => AcceptedIsInEffect
  BY DEF SettingsInv
<1>2. SettingsInv /\ [SettingsNext]_settingsVars => SettingsInv'
  BY SettingsStep
<1> QED BY <1>1, <1>2, SettingsBegin, PTL DEF SettingsSpec

\* An update changes no key it does not name, and none loses a key the program does not know.
THEOREM SettingsUnnamedStay == SettingsSpec => UnnamedKeysStay
<1>1. SettingsInv /\ [SettingsNext]_settingsVars => SettingsInv'
  BY SettingsStep
<1>2. SettingsInv /\ [SettingsNext]_settingsVars
       => [/\ PutSelected /\ update.still => \A k \in Keys : update.patch[k] = "none" => file'[k] = file[k]
           /\ writer' = "program" => file'["other"] = file["other"]]_settingsVars
  BY SettingsStep
<1> QED BY <1>1, <1>2, SettingsBegin, PTL DEF SettingsSpec, UnnamedKeysStay

\* OMP's settings are checked by the schema that is there, and none is set before all are checked.
THEOREM OmpSettingsAreChecked == OmpSettingsSpec => [](SchemaIsCurrent /\ NoneIsSetUnchecked)
<1>1. OmpSettingsInv => SchemaIsCurrent /\ NoneIsSetUnchecked
  BY EntriesAreCurrent DEF OmpSettingsInv
<1> QED BY <1>1, OmpSettingsBegin, OmpSettingsStep, PTL DEF OmpSettingsSpec

\* A package stays as its last acknowledged mutation left it.
THEOREM PackagesStay == PackagesSpec => []PackagesAreKept
<1>1. PackagesInv => PackagesAreKept
  BY DEF PackagesInv
<1> QED BY <1>1, PackagesBegin, PackagesStep, PTL DEF PackagesSpec

\* A machine that is no party to an overlap is listed, and shown, as it was acknowledged.
THEOREM MachinesStay == MachinesSpec => [](CachedIsPresent /\ AcknowledgedIsListed)
<1>1. MachinesInv => CachedIsPresent /\ AcknowledgedIsListed
  BY MachinesListed DEF MachinesInv
<1> QED BY <1>1, MachinesBegin, MachinesStep, PTL DEF MachinesSpec

\* What was acknowledged is what there is.
THEOREM AcknowledgedStays == MCSpec => []AcknowledgedIsKept
<1>1. /\ AcceptedIsInEffect /\ SchemaIsCurrent /\ NoneIsSetUnchecked /\ PackagesAreKept
      /\ CachedIsPresent /\ AcknowledgedIsListed
      => AcknowledgedIsKept
  BY DEF AcknowledgedIsKept
<1> QED BY <1>1, EachSteps, SettingsAreInEffect, OmpSettingsAreChecked, PackagesStay, MachinesStay, PTL

----------------------------------------------------------------------------
(* Inboxes: sums over the buckets, and what an inbox owes *)

Owed(ow, g) == {o \in ow : o.gen = g}
Later(ow, k) == {o \in ow : o.number > k}
OwedRecords == [number : Nat, gen : Gens]
Least(a, b) == IF a <= b THEN a ELSE b
Buckets == Seq(Bucket)

\* What MapThenSumSet computes of the discards of buckets, as a function of their indices
SumsTo(iter, S, b) ==
  iter = [z \in SUBSET S |-> IF z = {} THEN 0 ELSE LET x == CHOOSE x \in z : TRUE IN b[x].discarded + iter[z \ {x}]]
SumOf(b, S) == MapThenSumSet(LAMBDA i : b[i].discarded, S)

LEMMA SumOfTwo ==
  ASSUME NEW b, NEW S \in {{}, {1}, {1, 2}}, \A i \in S : b[i].discarded \in Nat
  PROVE  SumOf(b, S) = IF S = {} THEN 0 ELSE IF S = {1} THEN b[1].discarded ELSE b[1].discarded + b[2].discarded
<1> DEFINE f(i) == b[i].discarded
           sum(z) == (IF 1 \in z THEN f(1) ELSE 0) + (IF 2 \in z THEN f(2) ELSE 0)
           iter0 == [z \in SUBSET S |-> sum(z)]
<1>1. \A z \in SUBSET S : z # {} => (CHOOSE x \in z : TRUE) \in z /\ (CHOOSE x \in z : TRUE) \in {1, 2} OBVIOUS
<1>2. ASSUME NEW z \in SUBSET S, z # {}, NEW x \in z PROVE sum(z) = f(x) + sum(z \ {x})
  <2>1. x \in {1, 2} OBVIOUS
  <2>2. \A i \in z : f(i) \in Nat OBVIOUS
  <2> HIDE DEF f
  <2> QED BY <1>2, <2>1, <2>2
<1>3. \A z \in SUBSET S : \A x \in z : iter0[z \ {x}] = sum(z \ {x}) OBVIOUS
<1>4. \A z \in SUBSET S : iter0[z] = IF z = {} THEN 0 ELSE LET x == CHOOSE x \in z : TRUE IN f(x) + iter0[z \ {x}]
  <2> SUFFICES ASSUME NEW z \in SUBSET S
               PROVE  sum(z) = IF z = {} THEN 0 ELSE LET x == CHOOSE x \in z : TRUE IN f(x) + iter0[z \ {x}]
    OBVIOUS
  <2>1. CASE z = {} BY <2>1
  <2>2. CASE z # {}
    <3>1. PICK x : x = (CHOOSE y \in z : TRUE) OBVIOUS
    <3>2. x \in z BY <1>1, <2>2, <3>1
    <3>3. sum(z) = f(x) + iter0[z \ {x}] BY <1>2, <1>3, <2>2, <3>2
    <3> HIDE DEF sum, iter0
    <3> QED BY <2>2, <3>1, <3>3
  <2> QED BY <2>1, <2>2
<1>5. SumsTo(iter0, S, b)
  <2>1. iter0 = [z \in SUBSET S |-> iter0[z]] OBVIOUS
  <2> HIDE DEF iter0
  <2> QED BY <1>4, <2>1 DEF SumsTo
<1>6. ASSUME NEW iter, SumsTo(iter, S, b) PROVE iter[S] = IF S = {} THEN 0 ELSE IF S = {1} THEN f(1) ELSE f(1) + f(2)
  <2>1. \A z \in SUBSET S : iter[z] = IF z = {} THEN 0 ELSE LET x == CHOOSE x \in z : TRUE IN f(x) + iter[z \ {x}]
    BY <1>6 DEF SumsTo
  <2>2. iter[{}] = 0 BY <2>1
  <2>0. \A i \in S : f(i) \in Nat OBVIOUS
  <2> HIDE DEF f
  <2>3. \A y \in S : iter[{y}] = f(y)
    <3> SUFFICES ASSUME NEW y \in S PROVE iter[{y}] = f(y) OBVIOUS
    <3>1. (CHOOSE x \in {y} : TRUE) = y OBVIOUS
    <3>2. {y} \ {y} = {} /\ {y} \in SUBSET S /\ {y} # {} OBVIOUS
    <3>3. iter[{y}] = f(y) + iter[{y} \ {y}] BY <2>1, <3>1, <3>2
    <3>4. iter[{y} \ {y}] = 0 /\ f(y) \in Nat BY <2>0, <2>2, <3>2
    <3> QED BY <3>3, <3>4
  <2>4. CASE S = {1, 2}
    <3>1. PICK x : x = (CHOOSE y \in {1, 2} : TRUE) OBVIOUS
    <3>2. x \in {1, 2} BY <3>1
    <3>3. iter[S] = f(x) + iter[S \ {x}] BY <2>1, <2>4, <3>1
    <3>4. CASE x = 1
      <4>1. S \ {x} = {2} BY <2>4, <3>4
      <4> QED BY <2>3, <2>4, <3>3, <3>4, <4>1
    <3>5. CASE x = 2
      <4>1. S \ {x} = {1} BY <2>4, <3>5
      <4>2. f(1) \in Nat /\ f(2) \in Nat BY <2>0, <2>4
      <4>3. iter[S] = f(2) + f(1) BY <2>3, <2>4, <3>3, <3>5, <4>1
      <4> QED BY <2>4, <4>2, <4>3
    <3> QED BY <3>2, <3>4, <3>5
  <2>5. CASE S = {} BY <2>2, <2>5
  <2>6. CASE S = {1} BY <2>3, <2>6
  <2> QED BY <2>4, <2>5, <2>6
<1>7. SumOf(b, S) = (CHOOSE iter : SumsTo(iter, S, b))[S]
  BY DEF SumOf, SumsTo, MapThenSumSet, MapThenFoldSet
<1>8. SumsTo((CHOOSE iter : SumsTo(iter, S, b)), S, b)
  <2> HIDE DEF iter0
  <2> QED BY <1>5
<1> HIDE DEF iter0
<1> QED BY <1>6, <1>7, <1>8

LEMMA DiscardedIs ==
  ASSUME NEW p, p.buckets \in Buckets, Len(p.buckets) \in {0, 1, 2}
  PROVE  /\ Len(p.buckets) = 0 => Discarded(p) = 0
         /\ Len(p.buckets) = 1 => Discarded(p) = p.buckets[1].discarded
         /\ Len(p.buckets) = 2 => Discarded(p) = p.buckets[1].discarded + p.buckets[2].discarded
<1>1. DOMAIN p.buckets = 1 .. Len(p.buckets) BY DEF Buckets
<1>2. \A i \in DOMAIN p.buckets : p.buckets[i].discarded \in Nat
  <2>1. \A i \in DOMAIN p.buckets : p.buckets[i] \in Bucket BY DEF Buckets
  <2> QED BY <2>1 DEF Bucket
<1>3. Discarded(p) = SumOf(p.buckets, DOMAIN p.buckets) BY DEF Discarded, SumOf
<1>4. CASE Len(p.buckets) = 0
  <2>1. DOMAIN p.buckets = {} BY <1>1, <1>4
  <2> QED BY <1>2, <1>3, <1>4, <2>1, SumOfTwo
<1>5. CASE Len(p.buckets) = 1
  <2>1. DOMAIN p.buckets = {1} BY <1>1, <1>5
  <2>2. p.buckets[1].discarded \in Nat /\ {1} # {} BY <1>2, <2>1
  <2>3. SumOf(p.buckets, {1}) = p.buckets[1].discarded BY <2>2, SumOfTwo
  <2> QED BY <1>3, <1>5, <2>1, <2>3
<1>6. CASE Len(p.buckets) = 2
  <2>1. DOMAIN p.buckets = {1, 2} BY <1>1, <1>6
  <2>2. (\A i \in {1, 2} : p.buckets[i].discarded \in Nat) /\ {1, 2} # {} /\ {1, 2} # {1} BY <1>2, <2>1
  <2>3. SumOf(p.buckets, {1, 2}) = p.buckets[1].discarded + p.buckets[2].discarded BY <2>2, SumOfTwo
  <2> QED BY <1>3, <1>6, <2>1, <2>3
<1> QED BY <1>4, <1>5, <1>6

\* What Uncounted takes, of a bucket alone and of two
LEMMA UncountedIs ==
  ASSUME NEW b \in Buckets, Len(b) \in {1, 2}, NEW n \in Nat
  PROVE  /\ Uncounted(b, n) \in Buckets /\ Len(Uncounted(b, n)) = Len(b)
         /\ \A i \in DOMAIN b : Uncounted(b, n)[i].gen = b[i].gen /\ Uncounted(b, n)[i].entries = b[i].entries
         /\ Uncounted(b, n)[1].discarded = b[1].discarded - Least(b[1].discarded, n)
         /\ Len(b) = 2 => Uncounted(b, n)[2].discarded =
              b[2].discarded - (IF n <= b[1].discarded THEN 0 ELSE Least(b[2].discarded, n - b[1].discarded))
<1>1. DOMAIN b = 1 .. Len(b) /\ \A i \in DOMAIN b : b[i] \in Bucket BY DEF Buckets
<1>2. \A i \in DOMAIN b : b[i].discarded \in Nat BY <1>1 DEF Bucket
<1> DEFINE before(i) == SumOf(b, 1 .. (i - 1))
           taken(i) == Max({0, Min({b[i].discarded, n - before(i)})})
           r(i) == [b[i] EXCEPT !.discarded = @ - taken(i)]
<1>3. Uncounted(b, n) = [i \in DOMAIN b |-> r(i)] BY DEF Uncounted, SumOf
<1>4. before(1) = 0 /\ (Len(b) = 2 => before(2) = b[1].discarded)
  <2>1. 1 .. (1 - 1) = {} /\ 1 .. (2 - 1) = {1} OBVIOUS
  <2>2. SumOf(b, {}) = 0 BY SumOfTwo
  <2>3. Len(b) = 2 => SumOf(b, {1}) = b[1].discarded
    <3>1. 1 \in DOMAIN b BY <1>1
    <3> QED BY <1>2, <3>1, SumOfTwo
  <2> QED BY <2>1, <2>2, <2>3
<1>5. \A u, v \in Int : Min({u, v}) = Least(u, v)
  <2> SUFFICES ASSUME NEW u \in Int, NEW v \in Int PROVE Min({u, v}) = Least(u, v) OBVIOUS
  <2>1. Least(u, v) \in {u, v} /\ \A y \in {u, v} : Least(u, v) <= y BY DEF Least
  <2>2. \A w \in {u, v} : (\A y \in {u, v} : w <= y) => w = Least(u, v) BY DEF Least
  <2> QED BY <2>1, <2>2 DEF Min
<1>6. \A u \in Int : Max({0, u}) = IF u <= 0 THEN 0 ELSE u
  <2> SUFFICES ASSUME NEW u \in Int PROVE Max({0, u}) = IF u <= 0 THEN 0 ELSE u OBVIOUS
  <2> DEFINE m == IF u <= 0 THEN 0 ELSE u
  <2>1. m \in {0, u} /\ \A y \in {0, u} : m >= y OBVIOUS
  <2>2. \A w \in {0, u} : (\A y \in {0, u} : w >= y) => w = m OBVIOUS
  <2> HIDE DEF m
  <2>3. Max({0, u}) = m BY <2>1, <2>2 DEF Max
  <2> QED BY <2>3 DEF m
<1>7. taken(1) = Least(b[1].discarded, n)
  <2>1. 1 \in DOMAIN b BY <1>1
  <2>2. b[1].discarded \in Nat /\ n - before(1) = n BY <1>2, <1>4, <2>1
  <2>3. Min({b[1].discarded, n}) = Least(b[1].discarded, n) BY <1>5, <2>2
  <2>4. Least(b[1].discarded, n) \in Nat BY <2>2 DEF Least
  <2>5. taken(1) = Max({0, Least(b[1].discarded, n)}) BY <2>2, <2>3
  <2> HIDE DEF taken
  <2> QED BY <1>6, <2>4, <2>5
<1>8. Len(b) = 2 => taken(2) = IF n <= b[1].discarded THEN 0 ELSE Least(b[2].discarded, n - b[1].discarded)
  <2> SUFFICES ASSUME Len(b) = 2 PROVE taken(2) = IF n <= b[1].discarded THEN 0 ELSE Least(b[2].discarded, n - b[1].discarded) OBVIOUS
  <2>1. 1 \in DOMAIN b /\ 2 \in DOMAIN b BY <1>1
  <2>2. b[1].discarded \in Nat /\ b[2].discarded \in Nat /\ n - before(2) = n - b[1].discarded BY <1>2, <1>4, <2>1
  <2>3. Min({b[2].discarded, n - b[1].discarded}) = Least(b[2].discarded, n - b[1].discarded) BY <1>5, <2>2
  <2>4. Least(b[2].discarded, n - b[1].discarded) \in Int BY <2>2 DEF Least
  <2>5. taken(2) = IF Least(b[2].discarded, n - b[1].discarded) <= 0 THEN 0 ELSE Least(b[2].discarded, n - b[1].discarded)
    BY <1>6, <2>2, <2>3, <2>4
  <2> QED BY <2>2, <2>5 DEF Least
<1> HIDE DEF taken
<1>9. ASSUME NEW i \in DOMAIN b
      PROVE  r(i) \in Bucket /\ r(i).gen = b[i].gen /\ r(i).entries = b[i].entries /\ r(i).discarded = b[i].discarded - taken(i)
  <2>1. b[i] \in Bucket /\ b[i].discarded \in Nat /\ i \in {1, 2} BY <1>1, <1>2
  <2>2. b[i].discarded - taken(i) \in Nat
    <3>1. CASE i = 1 BY <1>7, <2>1, <3>1 DEF Least
    <3>2. CASE i = 2
      <4>1. Len(b) = 2 /\ 1 \in DOMAIN b BY <1>1, <3>2
      <4> QED BY <1>2, <1>8, <2>1, <3>2, <4>1 DEF Least
    <3> QED BY <2>1, <3>1, <3>2
  <2> QED BY <2>1, <2>2 DEF Bucket
<1> HIDE DEF r
<1>10. Uncounted(b, n) \in Buckets /\ Len(Uncounted(b, n)) = Len(b) BY <1>1, <1>3, <1>9 DEF Buckets
<1>11. 1 \in DOMAIN b /\ (Len(b) = 2 => 2 \in DOMAIN b) BY <1>1
<1> QED BY <1>3, <1>7, <1>8, <1>9, <1>10, <1>11

Total(b) == IF Len(b) = 1 THEN b[1].discarded ELSE b[1].discarded + b[2].discarded

\* An inbox with the buckets b, oldest first, owes ow: each bucket counts what is owed of its
\* generation. g, d and m are the generations, the discards and the notifications so far.
Counts(b, ow, g, d, m) ==
  /\ b \in Buckets /\ Len(b) \in {1, 2} /\ ow \subseteq OwedRecords
  /\ Len(b) = 2 => b[1].gen < b[2].gen
  /\ \A i \in DOMAIN b : /\ b[i].gen <= g
                         /\ \A n \in b[i].entries : n <= m
                         /\ b[i].discarded = Cardinality(Owed(ow, b[i].gen))
  /\ \A o \in ow : o.number <= d /\ \E i \in DOMAIN b : o.gen = b[i].gen
  /\ \A o, r \in ow : (o.number = r.number => o = r) /\ (o.gen < r.gen => o.number < r.number)

\* The discards after the k-th are the newest of the inbox: those of the last w watermarks.
Acks(b, ow, w, k) == Cardinality(Later(ow, k)) = Least(Total(b), w)

LEMMA DisjointSum ==
  ASSUME NEW S, NEW T, IsFiniteSet(S), IsFiniteSet(T), S \cap T = {}
  PROVE  IsFiniteSet(S \cup T) /\ Cardinality(S \cup T) = Cardinality(S) + Cardinality(T)
<1>1. IsFiniteSet(S \cup T) /\ Cardinality(S \cup T) = Cardinality(S) + Cardinality(T) - Cardinality(S \cap T)
  BY FS_Union
<1>2. Cardinality(S) \in Nat /\ Cardinality(T) \in Nat /\ Cardinality(S \cap T) = 0 BY FS_CardinalityType, FS_EmptySet
<1> QED BY <1>1, <1>2

LEMMA BucketsAre ==
  ASSUME NEW b \in Buckets, Len(b) \in {1, 2}
  PROVE  /\ DOMAIN b = 1 .. Len(b) /\ 1 \in DOMAIN b /\ (Len(b) = 2 => 2 \in DOMAIN b)
         /\ \A i \in DOMAIN b : /\ b[i] \in Bucket /\ b[i].gen \in Nat /\ b[i].gen \in Gens /\ b[i].discarded \in Nat
                                /\ b[i].entries \subseteq Orders /\ i \in {1, 2}
         /\ Total(b) \in Nat
<1>1. DOMAIN b = 1 .. Len(b) /\ \A i \in DOMAIN b : b[i] \in Bucket BY DEF Buckets
<1>2. \A i \in DOMAIN b : b[i].gen \in Nat /\ b[i].gen \in Gens /\ b[i].discarded \in Nat /\ b[i].entries \subseteq Orders
  BY <1>1 DEF Bucket, Gens
<1>3. 1 \in DOMAIN b /\ (Len(b) = 2 => 2 \in DOMAIN b) BY <1>1
<1> QED BY <1>1, <1>2, <1>3 DEF Total

LEMMA OwedIsFinite ==
  ASSUME NEW ow \in SUBSET OwedRecords, NEW d \in Nat, \A o \in ow : o.number <= d, \A o, r \in ow : o.number = r.number => o = r
  PROVE  /\ IsFiniteSet(ow) /\ Cardinality(ow) \in Nat
         /\ \A T \in SUBSET ow : IsFiniteSet(T) /\ Cardinality(T) \in Nat /\ Cardinality(T) <= Cardinality(ow)
<1> DEFINE f == [o \in ow |-> o.number]
<1>1. \A o \in ow : o.number \in Nat BY DEF OwedRecords
<1>2. f \in [ow -> 0 .. d] /\ \A o, r \in ow : f[o] = f[r] => o = r BY <1>1
<1>5. f \in Injection(ow, 0 .. d)
  <2> HIDE DEF f
  <2> QED BY <1>2 DEF Injection, IsInjective
<1>3. 0 \in Int /\ d \in Int /\ IsFiniteSet(0 .. d) BY FS_Interval
<1>4. IsFiniteSet(ow) BY <1>5, <1>3, FS_Injection
<1> QED BY <1>4, FS_CardinalityType, FS_Subset

\* What is owed of the generations of the buckets is all there is.
LEMMA OwedIsTotal ==
  ASSUME NEW b, NEW ow, NEW g, NEW d \in Nat, NEW m, Counts(b, ow, g, d, m)
  PROVE  /\ IsFiniteSet(ow) /\ Cardinality(ow) = Total(b)
         /\ \A T \in SUBSET ow : IsFiniteSet(T) /\ Cardinality(T) \in Nat /\ Cardinality(T) <= Total(b)
<1>1. IsFiniteSet(ow) /\ \A T \in SUBSET ow : IsFiniteSet(T) /\ Cardinality(T) \in Nat /\ Cardinality(T) <= Cardinality(ow)
  BY OwedIsFinite DEF Counts
<1>2. b \in Buckets /\ Len(b) \in {1, 2} BY DEF Counts
<1>3. CASE Len(b) = 1
  <2>1. ow = Owed(ow, b[1].gen) BY <1>2, <1>3, BucketsAre DEF Counts, Owed
  <2> QED BY <1>1, <1>2, <1>3, <2>1, BucketsAre DEF Counts, Total
<1>4. CASE Len(b) = 2
  <2>1. DOMAIN b = {1, 2} /\ b[1].gen \in Nat /\ b[2].gen \in Nat /\ b[1].gen < b[2].gen BY <1>2, <1>4, BucketsAre DEF Counts
  <2>2. ow = Owed(ow, b[1].gen) \cup Owed(ow, b[2].gen) BY <2>1 DEF Counts, Owed
  <2>3. Owed(ow, b[1].gen) \cap Owed(ow, b[2].gen) = {} BY <2>1 DEF Owed
  <2>4. Owed(ow, b[1].gen) \subseteq ow /\ Owed(ow, b[2].gen) \subseteq ow BY DEF Owed
  <2>5. Cardinality(ow) = Cardinality(Owed(ow, b[1].gen)) + Cardinality(Owed(ow, b[2].gen)) BY <1>1, <2>2, <2>3, <2>4, DisjointSum
  <2> QED BY <1>1, <1>4, <2>1, <2>5 DEF Counts, Total
<1> QED BY <1>1, <1>2, <1>3, <1>4

\* The discards d + 1 to d + c of a generation
Numbered(d, c, gen) == {[number |-> n, gen |-> gen] : n \in (d + 1) .. (d + c)}

LEMMA NumberedIs ==
  ASSUME NEW d \in Nat, NEW c \in Nat, NEW gen \in Gens
  PROVE  /\ IsFiniteSet(Numbered(d, c, gen)) /\ Cardinality(Numbered(d, c, gen)) = c /\ Numbered(d, c, gen) \subseteq OwedRecords
         /\ \A o \in Numbered(d, c, gen) : o.number > d /\ o.number <= d + c /\ o.gen = gen
         /\ \A o, r \in Numbered(d, c, gen) : o.number = r.number => o = r
<1> DEFINE S == (d + 1) .. (d + c)  T == Numbered(d, c, gen)
           f == [n \in S |-> [number |-> n, gen |-> gen]]
<1>1. IsFiniteSet(S) /\ Cardinality(S) = c
  <2>1. d + 1 \in Int /\ d + c \in Int OBVIOUS
  <2>2. IsFiniteSet(S) /\ Cardinality(S) = IF d + 1 > d + c THEN 0 ELSE (d + c) - (d + 1) + 1 BY <2>1, FS_Interval
  <2> QED BY <2>2
<1>2. f \in Bijection(S, T)
  <2>1. f \in [S -> T] BY DEF Numbered
  <2>2. \A u, v \in S : f[u] = f[v] => u = v OBVIOUS
  <2>3. \A t \in T : \E s \in S : f[s] = t BY DEF Numbered
  <2> HIDE DEF S, T, f
  <2> QED BY <2>1, <2>2, <2>3 DEF Bijection, Injection, Surjection, IsInjective
<1>3. IsFiniteSet(T) /\ Cardinality(T) = c
  <2> HIDE DEF S, T, f
  <2> QED BY <1>1, <1>2, FS_Bijection DEF ExistsBijection
<1> QED BY <1>3 DEF Numbered, OwedRecords

LEMMA CountsStay ==
  ASSUME NEW b, NEW ow, NEW g \in Nat, NEW d \in Nat, NEW m \in Nat, Counts(b, ow, g, d, m),
         NEW g2 \in Nat, NEW d2 \in Nat, NEW m2 \in Nat, g <= g2, d <= d2, m <= m2
  PROVE  Counts(b, ow, g2, d2, m2)
<1>1. \A i \in DOMAIN b : b[i].gen \in Nat /\ \A n \in b[i].entries : n \in Nat
  BY BucketsAre DEF Counts, Orders
<1>2. \A o \in ow : o.number \in Nat BY DEF Counts, OwedRecords
<1> QED BY <1>1, <1>2 DEF Counts

LEMMA FreshCounts ==
  ASSUME NEW n \in Gens, NEW d \in Nat, NEW m \in Nat
  PROVE  /\ Counts(<<EmptyBucket(n)>>, {}, n, d, m) /\ Total(<<EmptyBucket(n)>>) = 0
         /\ \A w \in Nat : \A k : Acks(<<EmptyBucket(n)>>, {}, w, k)
<1> DEFINE e == EmptyBucket(n)  b == <<e>>
<1>1. e \in Bucket /\ e.gen = n /\ e.entries = {} /\ e.discarded = 0 BY DEF EmptyBucket, Bucket
<1>2. b \in Buckets /\ Len(b) = 1 /\ DOMAIN b = {1} /\ b[1] = e BY <1>1 DEF Buckets
<1>3. Owed({}, n) = {} /\ \A k : Later({}, k) = {} BY DEF Owed, Later
<1>4. n <= n BY DEF Gens
<1> HIDE DEF e, b
<1>5. Counts(b, {}, n, d, m) BY <1>1, <1>2, <1>3, <1>4, FS_EmptySet DEF Counts
<1>6. Total(b) = 0 BY <1>1, <1>2 DEF Total
<1>7. \A w \in Nat : \A k : Acks(b, {}, w, k) BY <1>3, <1>6, FS_EmptySet DEF Acks, Least
<1> QED BY <1>5, <1>6, <1>7 DEF b, e

Longer(b, e) == Append(b, e)

LEMMA LongerIs ==
  ASSUME NEW b \in Buckets, Len(b) = 1, NEW e \in Bucket
  PROVE  Longer(b, e) \in Buckets /\ Len(Longer(b, e)) = 2 /\ Longer(b, e)[1] = b[1] /\ Longer(b, e)[2] = e
<1>1. b \in Seq(Bucket) /\ e \in Bucket BY DEF Buckets
<1>2. Append(b, e) \in Seq(Bucket) /\ Len(Append(b, e)) = Len(b) + 1 BY ONLY <1>1, AppendProperties
<1>3. \A j \in 1 .. Len(b) : Append(b, e)[j] = b[j] BY ONLY <1>1, AppendProperties
<1>4. Append(b, e)[Len(b) + 1] = e BY ONLY <1>1, AppendProperties
<1>5. PICK b2 : b2 = Append(b, e) OBVIOUS
<1>6. b2 \in Buckets /\ Len(b2) = 2 /\ b2[1] = b[1] /\ b2[2] = e BY <1>2, <1>3, <1>4, <1>5 DEF Buckets
<1> QED BY <1>5, <1>6 DEF Longer

LEMMA AppendCounts ==
  ASSUME NEW b, NEW ow, NEW g \in Nat, NEW d \in Nat, NEW m \in Nat, Counts(b, ow, g, d, m), Len(b) = 1, NEW n \in Gens, n = g + 1,
         NEW b2 \in Buckets, Len(b2) = 2, b2[1] = b[1], b2[2] = EmptyBucket(n)
  PROVE  /\ Counts(b2, ow, n, d, m) /\ Total(b2) = Total(b)
<1>1. PICK e : e = EmptyBucket(n) OBVIOUS
<1>2. e \in Bucket /\ e.gen = n /\ e.entries = {} /\ e.discarded = 0 BY <1>1 DEF EmptyBucket, Bucket
<1>4. b \in Buckets /\ DOMAIN b = {1} /\ b[1].gen \in Nat /\ b[1].gen <= g /\ b[1] \in Bucket /\ b[1].discarded \in Nat
  BY BucketsAre DEF Counts
<1>5. b2 \in Buckets /\ Len(b2) = 2 /\ DOMAIN b2 = {1, 2} /\ b2[1] = b[1] /\ b2[2] = e
  BY <1>1 DEF Buckets
<1>6. Owed(ow, n) = {}
  <2>1. \A o \in ow : o.gen = b[1].gen BY <1>4 DEF Counts
  <2> QED BY <1>4, <2>1 DEF Owed
<1>7. Cardinality(Owed(ow, b2[2].gen)) = b2[2].discarded BY <1>2, <1>5, <1>6, FS_EmptySet
<1>8. ASSUME NEW i \in DOMAIN b2
      PROVE  b2[i].gen <= n /\ (\A j \in b2[i].entries : j <= m) /\ b2[i].discarded = Cardinality(Owed(ow, b2[i].gen))
  <2>1. CASE i = 1 BY <1>4, <1>5, <2>1 DEF Counts
  <2>2. CASE i = 2 BY <1>2, <1>5, <1>7, <2>2
  <2> QED BY <1>5, <2>1, <2>2
<1>9. \A o \in ow : o.number <= d /\ \E i \in DOMAIN b2 : o.gen = b2[i].gen BY <1>4, <1>5 DEF Counts
<1>10. Counts(b2, ow, n, d, m) BY <1>2, <1>4, <1>5, <1>8, <1>9 DEF Counts
<1>11. Total(b2) = Total(b) BY <1>2, <1>4, <1>5 DEF Total
<1> QED BY <1>10, <1>11

\* The buckets b2, which owe ow2, count c discards more than b.
Adds(b, ow, b2, ow2, g, d, c, m) ==
  /\ Counts(b2, ow2, g, d + c, m) /\ Total(b2) = Total(b) + c
  /\ \A k \in Nat : k <= d => Cardinality(Later(ow2, k)) = Cardinality(Later(ow, k)) + c

\* A notification is added to the newest bucket, whose entries are E now, and c are discarded.
LEMMA AddCounts ==
  ASSUME NEW b, NEW ow, NEW g \in Nat, NEW d \in Nat, NEW m \in Nat, Counts(b, ow, g, d, m),
         NEW E \in SUBSET Orders, NEW c \in Nat, NEW m2 \in Nat, m <= m2, \A n \in E : n <= m2,
         NEW b2, b2 = [b EXCEPT ![Len(b)] = [gen |-> b[Len(b)].gen, entries |-> E, discarded |-> b[Len(b)].discarded + c]],
         NEW ow2, ow2 = ow \cup Numbered(d, c, b[Len(b)].gen)
  PROVE  Adds(b, ow, b2, ow2, g, d, c, m2)
<1> DEFINE l == Len(b)  gen == b[l].gen  new == Numbered(d, c, gen)
<1>1. b \in Buckets /\ l \in {1, 2} /\ ow \subseteq OwedRecords /\ (\A o \in ow : o.number <= d) BY DEF Counts
<1>2. /\ DOMAIN b = 1 .. l /\ l \in DOMAIN b /\ gen \in Gens /\ gen \in Nat /\ b[l].discarded \in Nat
      /\ \A i \in DOMAIN b : b[i] \in Bucket /\ b[i].gen \in Nat /\ b[i].discarded \in Nat /\ \A n \in b[i].entries : n \in Nat
  BY <1>1, BucketsAre DEF Orders
<1>3. PICK r : r = [gen |-> gen, entries |-> E, discarded |-> b[l].discarded + c] OBVIOUS
<1>4. r \in Bucket /\ r.gen = gen /\ r.entries = E /\ r.discarded = b[l].discarded + c BY <1>2, <1>3 DEF Bucket
<1>5. b2 \in Buckets /\ Len(b2) = l /\ DOMAIN b2 = DOMAIN b /\ b2[l] = r /\ \A i \in DOMAIN b : i # l => b2[i] = b[i]
  BY <1>1, <1>2, <1>3, <1>4 DEF Buckets
<1>6. /\ IsFiniteSet(new) /\ Cardinality(new) = c /\ new \subseteq OwedRecords
      /\ \A o \in new : o.number > d /\ o.number <= d + c /\ o.gen = gen
      /\ \A o, q \in new : o.number = q.number => o = q
  BY <1>2, NumberedIs
<1>7. \A T \in SUBSET ow : IsFiniteSet(T) /\ Cardinality(T) \in Nat BY OwedIsTotal
<1>8. \A o \in ow : o.number \in Nat /\ o.gen \in Nat BY <1>1 DEF OwedRecords, Gens
<1>9. \A o \in new : o.number \in Nat /\ o.gen \in Nat BY <1>6 DEF OwedRecords, Gens
<1> HIDE DEF new, l
<1>10. Owed(ow2, gen) = Owed(ow, gen) \cup new /\ \A z : z # gen => Owed(ow2, z) = Owed(ow, z) BY <1>6 DEF Owed, new, l
<1>11. Owed(ow, gen) \subseteq ow /\ Owed(ow, gen) \cap new = {} BY <1>1, <1>6, <1>8 DEF Owed
<1>12. Cardinality(Owed(ow2, gen)) = b[l].discarded + c
  <2>1. b[l].discarded = Cardinality(Owed(ow, gen)) BY <1>2 DEF Counts
  <2> QED BY <1>6, <1>7, <1>10, <1>11, <2>1, DisjointSum
<1>13. \A i \in DOMAIN b : i # l => b[i].gen # gen BY <1>1, <1>2 DEF Counts
<1>14. ASSUME NEW i \in DOMAIN b2
       PROVE b2[i].gen <= g /\ (\A n \in b2[i].entries : n <= m2) /\ b2[i].discarded = Cardinality(Owed(ow2, b2[i].gen))
  <2>1. CASE i = l BY <1>2, <1>4, <1>5, <1>12, <2>1 DEF Counts
  <2>2. CASE i # l
    <3>1. b2[i] = b[i] /\ b[i].gen # gen /\ i \in DOMAIN b BY <1>5, <1>13, <2>2
    <3>2. b[i].gen <= g /\ (\A n \in b[i].entries : n <= m) /\ b[i].discarded = Cardinality(Owed(ow, b[i].gen)) BY <3>1 DEF Counts
    <3>3. Owed(ow2, b[i].gen) = Owed(ow, b[i].gen) BY <1>10, <3>1
    <3>4. \A n \in b[i].entries : n \in Nat /\ n <= m BY <1>2, <3>1, <3>2
    <3>5. \A n \in b[i].entries : n <= m2 BY <3>4
    <3> QED BY <3>1, <3>2, <3>3, <3>5
  <2> QED BY <2>1, <2>2
<1>15. ow2 = ow \cup new BY DEF new, l
<1>16. ow2 \subseteq OwedRecords BY <1>1, <1>6, <1>15
<1>17. \A o \in ow2 : o.number <= d + c /\ \E i \in DOMAIN b2 : o.gen = b2[i].gen
  <2>1. \A i \in DOMAIN b : b2[i].gen = b[i].gen BY <1>4, <1>5
  <2>2. ASSUME NEW o \in ow PROVE o.number <= d + c /\ \E i \in DOMAIN b2 : o.gen = b2[i].gen
    <3>1. o.number <= d /\ \E i \in DOMAIN b : o.gen = b[i].gen BY DEF Counts
    <3> QED BY <1>5, <1>8, <2>1, <3>1
  <2>3. ASSUME NEW o \in new PROVE o.number <= d + c /\ \E i \in DOMAIN b2 : o.gen = b2[i].gen
    BY <1>2, <1>5, <1>6, <2>1
  <2> QED BY <1>15, <2>2, <2>3
<1>18. \A o \in ow : o.gen <= gen
  <2>0. l = 2 => b[1].gen < b[2].gen BY DEF Counts, l
  <2>1. \A i \in DOMAIN b : b[i].gen <= gen
    <3>1. CASE l = 1 BY <1>2, <3>1
    <3>2. CASE l = 2
      <4>1. DOMAIN b = {1, 2} BY <1>2, <3>2
      <4> QED BY <1>2, <2>0, <3>2, <4>1
    <3> QED BY <1>1, <3>1, <3>2
  <2> QED BY <2>1 DEF Counts
<1>19. ASSUME NEW o \in ow2, NEW q \in ow2 PROVE (o.number = q.number => o = q) /\ (o.gen < q.gen => o.number < q.number)
  <2>1. CASE o \in ow /\ q \in ow BY <2>1 DEF Counts
  <2>2. CASE o \in ow /\ q \in new BY <1>1, <1>6, <1>8, <1>9, <2>2
  <2>3. CASE o \in new /\ q \in ow
    <3>1. o.gen = gen /\ o.number > d /\ q.gen <= gen /\ q.number <= d BY <1>1, <1>6, <1>18, <2>3
    <3> QED BY <1>2, <1>8, <1>9, <2>3, <3>1
  <2>4. CASE o \in new /\ q \in new BY <1>2, <1>6, <2>4
  <2> QED BY <1>15, <2>1, <2>2, <2>3, <2>4
<1>20. Len(b2) = 2 => b2[1].gen < b2[2].gen
  <2> SUFFICES ASSUME Len(b2) = 2 PROVE b2[1].gen < b2[2].gen OBVIOUS
  <2>1. l = 2 /\ 1 \in DOMAIN b BY <1>2, <1>5
  <2>2. b[1].gen < b[2].gen BY <2>1 DEF Counts, l
  <2>3. b2[1] = b[1] /\ b2[2].gen = b[2].gen BY <1>4, <1>5, <2>1
  <2> QED BY <2>2, <2>3
<1>21. Counts(b2, ow2, g, d + c, m2) BY <1>1, <1>5, <1>14, <1>16, <1>17, <1>19, <1>20 DEF Counts
<1>22. Total(b2) = Total(b) + c
  <2>1. CASE l = 1 BY <1>2, <1>4, <1>5, <2>1 DEF Total, l
  <2>2. CASE l = 2
    <3>1. 1 \in DOMAIN b /\ Len(b) = 2 BY <1>2, <2>2 DEF l
    <3>2. b[1].discarded \in Nat /\ b[2].discarded \in Nat BY <1>2, <2>2, <3>1
    <3>3. b2[1] = b[1] /\ b2[2].discarded = b[2].discarded + c /\ Len(b2) = 2 BY <1>4, <1>5, <2>2, <3>1
    <3> QED BY <3>1, <3>2, <3>3 DEF Total
  <2> QED BY <1>1, <2>1, <2>2
<1>23. ASSUME NEW k \in Nat, k <= d PROVE Cardinality(Later(ow2, k)) = Cardinality(Later(ow, k)) + c
  <2>1. \A o \in new : o.number > k BY <1>6, <1>9, <1>23
  <2>2. Later(ow2, k) = Later(ow, k) \cup new BY <1>15, <2>1 DEF Later
  <2>3. Later(ow, k) \subseteq ow /\ Later(ow, k) \cap new = {} BY <1>1, <1>6, <1>8 DEF Later
  <2> QED BY <1>6, <1>7, <2>2, <2>3, DisjointSum
<1> QED BY <1>21, <1>22, <1>23 DEF Adds

\* Both buckets become one of generation gen, with the entries E and c discards more.
LEMMA MergeCounts ==
  ASSUME NEW b, NEW ow, NEW g \in Nat, NEW d \in Nat, NEW m \in Nat, Counts(b, ow, g, d, m),
         NEW gen \in Gens, gen <= g, NEW E \in SUBSET Orders, NEW c \in Nat, \A n \in E : n <= m,
         NEW b2, b2 = <<[gen |-> gen, entries |-> E, discarded |-> Total(b) + c]>>,
         NEW ow2, ow2 = {[o EXCEPT !.gen = gen] : o \in ow} \cup Numbered(d, c, gen)
  PROVE  Adds(b, ow, b2, ow2, g, d, c, m)
<1> DEFINE moved == {[o EXCEPT !.gen = gen] : o \in ow}  new == Numbered(d, c, gen)
           f == [o \in ow |-> [o EXCEPT !.gen = gen]]
<1>1. /\ ow \subseteq OwedRecords /\ IsFiniteSet(ow) /\ Cardinality(ow) = Total(b) /\ Total(b) \in Nat
      /\ \A T \in SUBSET ow : IsFiniteSet(T) /\ Cardinality(T) \in Nat
      /\ \A o \in ow : o.number <= d /\ o.number \in Nat
  <2>1. /\ IsFiniteSet(ow) /\ Cardinality(ow) = Total(b)
        /\ \A T \in SUBSET ow : IsFiniteSet(T) /\ Cardinality(T) \in Nat
    BY OwedIsTotal
  <2>2. ow \subseteq OwedRecords /\ (\A o \in ow : o.number <= d) /\ b \in Buckets /\ Len(b) \in {1, 2} BY DEF Counts
  <2>3. Total(b) \in Nat BY <2>2, BucketsAre
  <2> QED BY <2>1, <2>2, <2>3 DEF OwedRecords
<1>2. \A o \in ow : f[o] \in OwedRecords /\ f[o].number = o.number /\ f[o].gen = gen
  <2> SUFFICES ASSUME NEW o \in ow PROVE [o EXCEPT !.gen = gen] \in OwedRecords /\ [o EXCEPT !.gen = gen].number = o.number
                                          /\ [o EXCEPT !.gen = gen].gen = gen
    OBVIOUS
  <2>1. o \in OwedRecords BY <1>1
  <2> QED BY <2>1 DEF OwedRecords
<1>3. \A o, r \in ow : f[o] = f[r] => o = r
  <2> SUFFICES ASSUME NEW o \in ow, NEW r \in ow, f[o] = f[r] PROVE o = r OBVIOUS
  <2>1. o.number = r.number BY <1>2
  <2> QED BY <2>1 DEF Counts
<1>4. /\ IsFiniteSet(new) /\ Cardinality(new) = c /\ new \subseteq OwedRecords
      /\ \A o \in new : o.number > d /\ o.number <= d + c /\ o.gen = gen /\ o.number \in Nat
      /\ \A o, q \in new : o.number = q.number => o = q
  BY NumberedIs DEF OwedRecords
<1>5. moved = {f[o] : o \in ow} OBVIOUS
<1>6. \A T \in SUBSET ow : IsFiniteSet({f[o] : o \in T}) /\ Cardinality({f[o] : o \in T}) = Cardinality(T)
  <2> SUFFICES ASSUME NEW T \in SUBSET ow PROVE IsFiniteSet({f[o] : o \in T}) /\ Cardinality({f[o] : o \in T}) = Cardinality(T)
    OBVIOUS
  <2> DEFINE h == [o \in T |-> f[o]]  image == {f[o] : o \in T}
  <2>1. h \in [T -> image] /\ (\A o, r \in T : h[o] = h[r] => o = r) /\ (\A y \in image : \E o \in T : h[o] = y) BY <1>3
  <2>2. h \in Bijection(T, image)
    <3> HIDE DEF h, image
    <3> QED BY <2>1 DEF Bijection, Injection, Surjection, IsInjective
  <2>3. IsFiniteSet(T) BY <1>1
  <2> HIDE DEF h, image
  <2>4. IsFiniteSet(image) /\ Cardinality(image) = Cardinality(T) BY <2>2, <2>3, FS_Bijection DEF ExistsBijection
  <2> QED BY <2>4 DEF image
<1>7. ow2 = moved \cup new OBVIOUS
<1> HIDE DEF f, moved, new
<1>8. moved \subseteq OwedRecords /\ \A o \in moved : o.gen = gen /\ o.number <= d /\ o.number \in Nat BY <1>1, <1>2, <1>5
<1>9. moved \cap new = {} BY <1>4, <1>8
<1>10. Cardinality(ow2) = Total(b) + c
  <2>1. IsFiniteSet(moved) /\ Cardinality(moved) = Total(b) BY <1>1, <1>5, <1>6
  <2> QED BY <1>4, <1>7, <1>9, <2>1, DisjointSum
<1>11. \A o \in ow2 : o \in OwedRecords /\ o.gen = gen /\ o.number <= d + c BY <1>4, <1>7, <1>8
<1>12. Owed(ow2, gen) = ow2 BY <1>11 DEF Owed
<1>13. PICK r : r = [gen |-> gen, entries |-> E, discarded |-> Total(b) + c] OBVIOUS
<1>14. r \in Bucket /\ r.gen = gen /\ r.entries = E /\ r.discarded = Total(b) + c BY <1>1, <1>13 DEF Bucket
<1>15. b2 \in Buckets /\ Len(b2) = 1 /\ DOMAIN b2 = {1} /\ b2[1] = r BY <1>13, <1>14 DEF Buckets
<1>16. ASSUME NEW o \in ow2, NEW q \in ow2, o.number = q.number PROVE o = q
  <2>1. CASE o \in new /\ q \in new BY <1>4, <1>16, <2>1
  <2>2. CASE o \in moved /\ q \in moved
    <3>1. PICK u \in ow, v \in ow : o = f[u] /\ q = f[v] BY <1>5, <2>2
    <3>2. u.number = v.number BY <1>2, <1>16, <3>1
    <3>3. u = v BY <3>2 DEF Counts
    <3> QED BY <3>1, <3>3
  <2> QED BY <1>4, <1>7, <1>8, <1>16, <2>1, <2>2
<1>17. \A o, q \in ow2 : ~(o.gen < q.gen) BY <1>11 DEF Gens
<1>18. Counts(b2, ow2, g, d + c, m)
  <2>1. \A i \in DOMAIN b2 : b2[i].gen <= g /\ (\A n \in b2[i].entries : n <= m) /\ b2[i].discarded = Cardinality(Owed(ow2, b2[i].gen))
    BY <1>10, <1>12, <1>14, <1>15
  <2>2. \A o \in ow2 : o.number <= d + c /\ \E i \in DOMAIN b2 : o.gen = b2[i].gen BY <1>11, <1>14, <1>15
  <2>3. ow2 \subseteq OwedRecords BY <1>11
  <2> QED BY <1>15, <1>16, <1>17, <2>1, <2>2, <2>3 DEF Counts
<1>19. Total(b2) = Total(b) + c BY <1>14, <1>15 DEF Total
<1>20. ASSUME NEW k \in Nat, k <= d PROVE Cardinality(Later(ow2, k)) = Cardinality(Later(ow, k)) + c
  <2> DEFINE T == Later(ow, k)  image == {f[o] : o \in T}
  <2>1. T \subseteq ow BY DEF Later
  <2>2. IsFiniteSet(image) /\ Cardinality(image) = Cardinality(T)
    <3> HIDE DEF T
    <3> QED BY <1>6, <2>1
  <2>3. \A o \in new : o.number > k BY <1>4, <1>20
  <2>4. Later(moved, k) = image
    <3>1. \A o \in ow : f[o].number > k <=> o.number > k BY <1>2
    <3> QED BY <1>5, <3>1 DEF Later
  <2>5. Later(ow2, k) = image \cup new /\ image \subseteq moved BY <1>7, <2>3, <2>4 DEF Later
  <2>6. image \cap new = {} BY <1>9, <2>5
  <2> HIDE DEF T, image
  <2> QED BY <1>4, <2>2, <2>5, <2>6, DisjointSum DEF T
<1> QED BY <1>18, <1>19, <1>20 DEF Adds

\* The older bucket is dropped.
LEMMA DropCounts ==
  ASSUME NEW b, NEW ow, NEW g \in Nat, NEW d \in Nat, NEW m \in Nat, Counts(b, ow, g, d, m), Len(b) = 2,
         NEW b2, b2 = <<b[2]>>, NEW ow2, ow2 = Owed(ow, b[2].gen)
  PROVE  /\ Counts(b2, ow2, g, d, m) /\ Total(b2) = b[2].discarded
         /\ \A w \in Nat, k \in Nat : Acks(b, ow, w, k) => Acks(b2, ow2, w, k)
<1>1. /\ ow \subseteq OwedRecords /\ \A T \in SUBSET ow : IsFiniteSet(T) /\ Cardinality(T) \in Nat
      /\ \A o \in ow : o.number \in Nat
  <2>1. \A T \in SUBSET ow : IsFiniteSet(T) /\ Cardinality(T) \in Nat BY OwedIsTotal
  <2>2. ow \subseteq OwedRecords BY DEF Counts
  <2> QED BY <2>1, <2>2 DEF OwedRecords
<1>2. /\ b \in Buckets /\ DOMAIN b = {1, 2} /\ b[1].gen \in Nat /\ b[2].gen \in Nat /\ b[1].gen < b[2].gen
      /\ b[1] \in Bucket /\ b[2] \in Bucket /\ b[1].discarded \in Nat /\ b[2].discarded \in Nat
      /\ b[1].discarded = Cardinality(Owed(ow, b[1].gen)) /\ b[2].discarded = Cardinality(Owed(ow, b[2].gen))
  <2>1. b \in Buckets /\ DOMAIN b = {1, 2} BY BucketsAre DEF Counts
  <2> QED BY <2>1, BucketsAre DEF Counts
<1>3. b2 \in Buckets /\ Len(b2) = 1 /\ DOMAIN b2 = {1} /\ b2[1] = b[2] BY <1>2 DEF Buckets
<1>4. ow2 \subseteq ow /\ (\A o \in ow2 : o.gen = b[2].gen) /\ Owed(ow2, b[2].gen) = ow2 BY DEF Owed
<1>5. Counts(b2, ow2, g, d, m)
  <2>1. b[2].gen <= g /\ (\A n \in b[2].entries : n <= m) BY <1>2 DEF Counts
  <2>2. \A o \in ow : o.number <= d BY DEF Counts
  <2>3. \A o, r \in ow : (o.number = r.number => o = r) /\ (o.gen < r.gen => o.number < r.number) BY DEF Counts
  <2> QED BY <1>1, <1>2, <1>3, <1>4, <2>1, <2>2, <2>3 DEF Counts
<1>6. Total(b2) = b[2].discarded /\ Total(b) = b[1].discarded + b[2].discarded BY <1>3 DEF Total
<1>7. ASSUME NEW w \in Nat, NEW k \in Nat, Acks(b, ow, w, k) PROVE Acks(b2, ow2, w, k)
  <2> DEFINE old == Owed(ow, b[1].gen)  L == Later(ow, k)  L1 == Later(old, k)  L2 == Later(ow2, k)
  <2>1. /\ L1 \subseteq old /\ old \subseteq ow /\ L2 \subseteq ow2 /\ L1 \cap L2 = {} /\ L = L1 \cup L2
    BY <1>2 DEF Later, Owed, Counts
  <2>2. /\ IsFiniteSet(L1) /\ IsFiniteSet(L2) /\ IsFiniteSet(old) /\ IsFiniteSet(ow2)
        /\ Cardinality(L1) \in Nat /\ Cardinality(L2) \in Nat /\ Cardinality(L2) <= Cardinality(ow2)
        /\ Cardinality(L) = Cardinality(L1) + Cardinality(L2)
    <3>1. L1 \subseteq ow /\ L2 \subseteq ow BY <1>4, <2>1
    <3> HIDE DEF old, L, L1, L2
    <3>2. IsFiniteSet(L1) /\ IsFiniteSet(L2) /\ IsFiniteSet(old) /\ IsFiniteSet(ow2) /\ Cardinality(L1) \in Nat /\ Cardinality(L2) \in Nat
      BY <1>1, <1>4, <2>1, <3>1
    <3> QED BY <2>1, <3>2, DisjointSum, FS_Subset
  <2>3. Cardinality(L) = Least(b[1].discarded + b[2].discarded, w) BY <1>6, <1>7 DEF Acks
  <2>4. L1 # {} => L2 = ow2
    <3> SUFFICES ASSUME NEW u \in L1 PROVE L2 = ow2 OBVIOUS
    <3>1. u \in ow /\ u.gen = b[1].gen /\ u.number > k BY DEF Later, Owed
    <3>2. \A o \in ow2 : o.number > u.number BY <1>2, <1>4, <3>1 DEF Counts
    <3>3. \A o \in ow2 : o.number > k BY <1>1, <1>4, <3>1, <3>2
    <3> QED BY <3>3 DEF Later
  <2>5. L1 = {} => Cardinality(L1) = 0 BY FS_EmptySet
  <2>6. L1 # {} => Cardinality(L1) # 0 BY <2>2, FS_EmptySet
  <2> HIDE DEF L, L1, L2, old
  <2>7. Cardinality(L2) = Least(b[2].discarded, w)
    <3>1. CASE L1 = {} BY <1>2, <2>2, <2>3, <2>5, <3>1 DEF Least
    <3>2. CASE L1 # {} BY <1>2, <2>2, <2>3, <2>4, <2>6, <3>2 DEF Least
    <3> QED BY <3>1, <3>2
  <2> QED BY <1>6, <2>7 DEF Acks, L2
<1> QED BY <1>5, <1>6, <1>7

\* Buckets lose entries, and go on counting.
LEMMA EntriesCounts ==
  ASSUME NEW b, NEW ow, NEW g \in Nat, NEW d \in Nat, NEW m \in Nat, Counts(b, ow, g, d, m),
         NEW b2 \in Buckets, Len(b2) = Len(b),
         \A i \in DOMAIN b : b2[i].gen = b[i].gen /\ b2[i].discarded = b[i].discarded /\ b2[i].entries \subseteq b[i].entries
  PROVE  Counts(b2, ow, g, d, m) /\ Total(b2) = Total(b)
<1>1. b \in Buckets /\ Len(b) \in {1, 2} /\ Len(b2) \in {1, 2} BY DEF Counts
<1>2. DOMAIN b2 = DOMAIN b /\ DOMAIN b = 1 .. Len(b) /\ 1 \in DOMAIN b /\ (Len(b) = 2 => 2 \in DOMAIN b) BY <1>1, BucketsAre
<1>3. ASSUME NEW i \in DOMAIN b2
      PROVE  b2[i].gen <= g /\ (\A n \in b2[i].entries : n <= m) /\ b2[i].discarded = Cardinality(Owed(ow, b2[i].gen))
  <2>1. b[i].gen <= g /\ (\A n \in b[i].entries : n <= m) /\ b[i].discarded = Cardinality(Owed(ow, b[i].gen)) BY <1>2 DEF Counts
  <2> QED BY <1>2, <2>1
<1>4. Len(b2) = 2 => b2[1].gen < b2[2].gen BY <1>2 DEF Counts
<1>5. \A o \in ow : o.number <= d /\ \E i \in DOMAIN b2 : o.gen = b2[i].gen BY <1>2 DEF Counts
<1>6. Counts(b2, ow, g, d, m) BY <1>1, <1>3, <1>4, <1>5 DEF Counts
<1> QED BY <1>1, <1>2, <1>6 DEF Total

\* Buckets lose entries and what they count, and owe nothing.
LEMMA ClearedCounts ==
  ASSUME NEW b, NEW ow, NEW g \in Nat, NEW d \in Nat, NEW m \in Nat, Counts(b, ow, g, d, m),
         NEW b2 \in Buckets, Len(b2) = Len(b),
         \A i \in DOMAIN b : b2[i].gen = b[i].gen /\ b2[i].discarded = 0 /\ b2[i].entries \subseteq b[i].entries
  PROVE  Counts(b2, {}, g, d, m) /\ Total(b2) = 0 /\ \A w \in Nat : \A k : Acks(b2, {}, w, k)
<1>1. b \in Buckets /\ Len(b) \in {1, 2} /\ Len(b2) \in {1, 2} BY DEF Counts
<1>2. DOMAIN b2 = DOMAIN b /\ DOMAIN b = 1 .. Len(b) /\ 1 \in DOMAIN b /\ (Len(b) = 2 => 2 \in DOMAIN b) BY <1>1, BucketsAre
<1>3. ASSUME NEW i \in DOMAIN b2
      PROVE  b2[i].gen <= g /\ (\A n \in b2[i].entries : n <= m) /\ b2[i].discarded = Cardinality(Owed({}, b2[i].gen))
  <2>1. b[i].gen <= g /\ (\A n \in b[i].entries : n <= m) BY <1>2 DEF Counts
  <2>2. Owed({}, b2[i].gen) = {} BY DEF Owed
  <2> QED BY <1>2, <2>1, <2>2, FS_EmptySet
<1>4. Len(b2) = 2 => b2[1].gen < b2[2].gen BY <1>2 DEF Counts
<1>6. Counts(b2, {}, g, d, m) BY <1>1, <1>3, <1>4 DEF Counts
<1>7. Total(b2) = 0 BY <1>1, <1>2 DEF Total
<1>8. \A w \in Nat : \A k : Acks(b2, {}, w, k)
  <2>1. \A k : Later({}, k) = {} BY DEF Later
  <2> SUFFICES ASSUME NEW w \in Nat, NEW k PROVE Acks(b2, {}, w, k) OBVIOUS
  <2>2. Cardinality(Later({}, k)) = 0 BY <2>1, FS_EmptySet
  <2> QED BY <1>7, <2>2 DEF Acks, Least
<1> QED BY <1>6, <1>7, <1>8

\* Of two buckets, what the older one owes after the k-th discard comes after all that before.
LEMMA LaterIs ==
  ASSUME NEW b, NEW ow, NEW g \in Nat, NEW d \in Nat, NEW m \in Nat, Counts(b, ow, g, d, m), Len(b) = 2, NEW k \in Nat
  PROVE  /\ Cardinality(Later(ow, k)) = Cardinality(Owed(Later(ow, k), b[1].gen)) + Cardinality(Owed(Later(ow, k), b[2].gen))
         /\ \A i \in {1, 2} : /\ Cardinality(Owed(Later(ow, k), b[i].gen)) \in Nat
                              /\ Cardinality(Owed(Later(ow, k), b[i].gen)) <= b[i].discarded
         /\ Cardinality(Owed(Later(ow, k), b[1].gen)) # 0 => Cardinality(Owed(Later(ow, k), b[2].gen)) = b[2].discarded
<1> DEFINE O(i) == Owed(ow, b[i].gen)  L(i) == Owed(Later(ow, k), b[i].gen)
<1>1. \A T \in SUBSET ow : IsFiniteSet(T) /\ Cardinality(T) \in Nat BY OwedIsTotal
<1>2. /\ DOMAIN b = {1, 2} /\ b[1].gen \in Nat /\ b[2].gen \in Nat /\ b[1].gen < b[2].gen
      /\ b[1].discarded = Cardinality(O(1)) /\ b[2].discarded = Cardinality(O(2))
  <2>1. b \in Buckets /\ DOMAIN b = {1, 2} BY BucketsAre DEF Counts
  <2> QED BY <2>1, BucketsAre DEF Counts
<1>3. \A o \in ow : o.number \in Nat /\ \E i \in {1, 2} : o.gen = b[i].gen BY <1>2 DEF Counts, OwedRecords
<1>4. \A i \in {1, 2} : L(i) \subseteq O(i) /\ O(i) \subseteq ow BY DEF Owed, Later
<1>5. Later(ow, k) = L(1) \cup L(2) /\ L(1) \cap L(2) = {} BY <1>2, <1>3 DEF Owed, Later
<1>6. L(1) # {} => L(2) = O(2)
  <2> SUFFICES ASSUME NEW u \in L(1) PROVE L(2) = O(2) OBVIOUS
  <2>1. u \in ow /\ u.gen = b[1].gen /\ u.number > k BY DEF Later, Owed
  <2>2. \A o \in O(2) : o \in ow /\ o.gen = b[2].gen BY DEF Owed
  <2>3. \A o \in O(2) : o.number > u.number BY <1>2, <2>1, <2>2 DEF Counts
  <2>4. \A o \in O(2) : o.number > k BY <1>3, <2>1, <2>2, <2>3
  <2> QED BY <1>4, <2>2, <2>4 DEF Later, Owed
<1> HIDE DEF O, L
<1>7. \A i \in {1, 2} : /\ IsFiniteSet(L(i)) /\ IsFiniteSet(O(i)) /\ Cardinality(L(i)) \in Nat
                        /\ Cardinality(L(i)) <= Cardinality(O(i))
  <2> SUFFICES ASSUME NEW i \in {1, 2}
               PROVE  /\ IsFiniteSet(L(i)) /\ IsFiniteSet(O(i)) /\ Cardinality(L(i)) \in Nat
                      /\ Cardinality(L(i)) <= Cardinality(O(i))
    OBVIOUS
  <2>1. L(i) \in SUBSET ow /\ O(i) \in SUBSET ow /\ L(i) \subseteq O(i) BY <1>4
  <2>2. IsFiniteSet(L(i)) /\ IsFiniteSet(O(i)) /\ Cardinality(L(i)) \in Nat BY <1>1, <2>1
  <2> QED BY <2>1, <2>2, FS_Subset
<1>8. Cardinality(Later(ow, k)) = Cardinality(L(1)) + Cardinality(L(2)) BY <1>5, <1>7, DisjointSum
<1>9. Cardinality(L(1)) # 0 => Cardinality(L(2)) = b[2].discarded BY <1>2, <1>6, FS_EmptySet
<1> QED BY <1>2, <1>7, <1>8, <1>9 DEF L

\* An acknowledgement through the snapshot after the k-th discard, of all but the last w watermarks
LEMMA AckCounts ==
  ASSUME NEW b, NEW ow, NEW g \in Nat, NEW d \in Nat, NEW m \in Nat, Counts(b, ow, g, d, m),
         NEW w \in Nat, NEW k \in Nat, Acks(b, ow, w, k), NEW n, n = Total(b) - Least(Total(b), w),
         NEW b2 \in Buckets, Len(b2) = Len(b),
         \A i \in DOMAIN b : b2[i].gen = b[i].gen /\ b2[i].entries \subseteq b[i].entries,
         b2[1].discarded = b[1].discarded - Least(b[1].discarded, n),
         Len(b) = 2 => b2[2].discarded = b[2].discarded - (IF n <= b[1].discarded THEN 0 ELSE Least(b[2].discarded, n - b[1].discarded))
  PROVE  Counts(b2, Later(ow, k), g, d, m) /\ Acks(b2, Later(ow, k), w, k)
<1> DEFINE L == Later(ow, k)
<1>1. b \in Buckets /\ Len(b) \in {1, 2} /\ Len(b2) \in {1, 2} BY DEF Counts
<1>2. /\ DOMAIN b2 = DOMAIN b /\ DOMAIN b = 1 .. Len(b) /\ 1 \in DOMAIN b /\ (Len(b) = 2 => 2 \in DOMAIN b)
      /\ \A i \in DOMAIN b : b[i].discarded \in Nat
  BY <1>1, BucketsAre
<1>3. Total(b) \in Nat /\ Cardinality(L) = Least(Total(b), w) BY <1>1, BucketsAre DEF Acks
<1>4. \A i \in DOMAIN b : b2[i].discarded = Cardinality(Owed(L, b[i].gen))
  <2> HIDE DEF L
  <2>1. CASE Len(b) = 1
    <3>1. \A o \in ow : o.gen = b[1].gen BY <1>2, <2>1 DEF Counts
    <3>2. Owed(L, b[1].gen) = L BY <3>1 DEF Owed, Later, L
    <3>3. Total(b) = b[1].discarded BY <2>1 DEF Total
    <3>4. b2[1].discarded = Cardinality(L) BY <1>2, <1>3, <3>3 DEF Least
    <3>5. DOMAIN b = {1} BY <1>2, <2>1
    <3> QED BY <3>2, <3>4, <3>5
  <2>2. CASE Len(b) = 2
    <3> DEFINE c1 == Cardinality(Owed(L, b[1].gen))  c2 == Cardinality(Owed(L, b[2].gen))
    <3>1. /\ Cardinality(L) = c1 + c2 /\ c1 \in Nat /\ c2 \in Nat /\ c1 <= b[1].discarded /\ c2 <= b[2].discarded
          /\ c1 # 0 => c2 = b[2].discarded
      BY <2>2, LaterIs DEF L
    <3>2. Total(b) = b[1].discarded + b[2].discarded BY <2>2 DEF Total
    <3>3. b[1].discarded \in Nat /\ b[2].discarded \in Nat BY <1>2, <2>2
    <3>5. DOMAIN b = {1, 2} BY <1>2, <2>2
    <3> HIDE DEF c1, c2
    <3>4. n = (b[1].discarded + b[2].discarded) - (c1 + c2)
      <4>1. n = Total(b) - (c1 + c2) BY <1>3, <3>1
      <4> QED BY <3>2, <4>1
    <3>8. n \in Int BY <3>1, <3>3, <3>4
    <3>6. Least(b[1].discarded, n) = b[1].discarded - c1 /\ (n > b[1].discarded => Least(b[2].discarded, n - b[1].discarded) = b[2].discarded - c2)
          /\ (n <= b[1].discarded => c2 = b[2].discarded)
      <4>1. PICK u \in Nat : u = b[1].discarded BY <3>3
      <4>2. PICK v \in Nat : v = b[2].discarded BY <3>3
      <4>3. PICK x \in Nat : x = c1 BY <3>1
      <4>4. PICK y \in Nat : y = c2 BY <3>1
      <4>5. x <= u /\ y <= v /\ (x # 0 => y = v) /\ n = (u + v) - (x + y) BY <3>1, <3>4, <4>1, <4>2, <4>3, <4>4
      <4>6. Least(u, n) = u - x /\ (n > u => Least(v, n - u) = v - y) /\ (n <= u => y = v)
        <5>1. u \in Nat /\ v \in Nat /\ x \in Nat /\ y \in Nat BY <4>1, <4>2, <4>3, <4>4
        <5>2. CASE x = 0 BY ONLY <3>8, <4>5, <5>1, <5>2 DEF Least
        <5>3. CASE x # 0 BY ONLY <3>8, <4>5, <5>1, <5>3 DEF Least
        <5> QED BY <5>2, <5>3
      <4> QED BY <4>1, <4>2, <4>3, <4>4, <4>6
    <3>9. b2[1].discarded = c1 BY <3>1, <3>3, <3>6
    <3>7. b2[2].discarded = c2 BY <2>2, <3>1, <3>3, <3>6, <3>8
    <3> QED BY <3>5, <3>7, <3>9 DEF c1, c2
  <2> QED BY <1>1, <2>1, <2>2
<1>5. L \subseteq ow BY DEF Later
<1>6. Counts(b2, L, g, d, m)
  <2> HIDE DEF L
  <2>1. ASSUME NEW i \in DOMAIN b2
        PROVE  b2[i].gen <= g /\ (\A j \in b2[i].entries : j <= m) /\ b2[i].discarded = Cardinality(Owed(L, b2[i].gen))
    <3>1. b[i].gen <= g /\ (\A j \in b[i].entries : j <= m) BY <1>2 DEF Counts
    <3> QED BY <1>2, <1>4, <3>1
  <2>2. Len(b2) = 2 => b2[1].gen < b2[2].gen BY <1>2 DEF Counts
  <2>3. \A o \in L : o.number <= d /\ \E i \in DOMAIN b2 : o.gen = b2[i].gen BY <1>2, <1>5 DEF Counts
  <2>4. L \subseteq OwedRecords BY <1>5 DEF Counts
  <2>5. \A o, r \in L : (o.number = r.number => o = r) /\ (o.gen < r.gen => o.number < r.number) BY <1>5 DEF Counts
  <2> QED BY <1>1, <2>1, <2>2, <2>3, <2>4, <2>5 DEF Counts
<1>7. Acks(b2, L, w, k)
  <2>1. Later(L, k) = L BY DEF Later
  <2> HIDE DEF L
  <2>2. Cardinality(L) = Total(b2) BY <1>6, OwedIsTotal
  <2> QED BY <1>3, <2>1, <2>2 DEF Acks, Least
<1> QED BY <1>6, <1>7

----------------------------------------------------------------------------
(* Inboxes: what is shown of them *)

LEMMA OrdersAreFinite ==
  /\ IsFiniteSet(Orders) /\ \A n \in Orders : n \in Nat
  /\ \A E \in SUBSET Orders : /\ IsFiniteSet(E) /\ Cardinality(E) \in Nat
                              /\ \A F \in SUBSET E : IsFiniteSet(F) /\ Cardinality(F) \in Nat /\ Cardinality(F) <= Cardinality(E)
<1>1. IsFiniteSet(Orders) /\ \A n \in Orders : n \in Nat
  <2>1. MaxOrder \in Int BY InboxAssumption
  <2>2. IsFiniteSet(1 .. MaxOrder) BY <2>1, FS_Interval
  <2> QED BY <2>2 DEF Orders
<1>2. ASSUME NEW E \in SUBSET Orders PROVE IsFiniteSet(E) /\ Cardinality(E) \in Nat BY <1>1, FS_Subset, FS_CardinalityType
<1>3. ASSUME NEW E \in SUBSET Orders, NEW F \in SUBSET E
      PROVE  IsFiniteSet(F) /\ Cardinality(F) \in Nat /\ Cardinality(F) <= Cardinality(E)
  BY <1>2, FS_Subset, FS_CardinalityType
<1> QED BY <1>1, <1>2, <1>3

\* A set of orders has a last one.
LEMMA LastOrder ==
  ASSUME NEW E \in SUBSET Orders, E # {}
  PROVE  \E n \in E : \A k \in E : k <= n
<1> DEFINE Smaller == OpToRel(<, Nat)
           below == {MaxOrder - k : k \in E}
<1>1. \A k \in E : k \in Nat /\ MaxOrder - k \in Nat BY InboxAssumption, OrdersAreFinite DEF Orders
<1>2. below \in SUBSET Nat /\ below # {} BY <1>1
<1>3. IsWellFoundedOn(Smaller, Nat) BY NatLessThanWellFounded
<1>4. \A u, v \in Nat : <<u, v>> \in Smaller <=> u < v BY DEF OpToRel
<1>5. PICK b \in below : \A y \in below : ~(<<y, b>> \in Smaller)
  <2> HIDE DEF Smaller, below
  <2> QED BY <1>2, <1>3, WFMin
<1> HIDE DEF Smaller
<1>6. \A y \in below : ~(y < b)
  <2> HIDE DEF below
  <2> QED BY <1>2, <1>4, <1>5
<1>7. PICK n \in E : b = MaxOrder - n BY <1>5
<1>8. \A k \in E : ~(MaxOrder - k < MaxOrder - n) BY <1>6, <1>7
<1>9. \A k \in E : k <= n BY <1>1, <1>8, InboxAssumption
<1> QED BY <1>9

Above(E, n) == {k \in E : k > n}

LEMMA NewestIs ==
  ASSUME NEW E \in SUBSET Orders
  PROVE  /\ Newest(E) \subseteq E /\ \A k \in E : k \in Newest(E) <=> Cardinality(Above(E, k)) < Limit
         /\ \A k : IsFiniteSet(Above(E, k)) /\ Cardinality(Above(E, k)) \in Nat
         /\ \A k, S : S \subseteq Above(E, k) => IsFiniteSet(S) /\ Cardinality(S) \in Nat /\ Cardinality(S) <= Cardinality(Above(E, k))
<1>1. \A k : Above(E, k) \in SUBSET E BY DEF Above
<1>2. \A k : Above(E, k) \in SUBSET Orders BY <1>1
<1> QED BY <1>2, OrdersAreFinite DEF Newest, Above

\* What a bucket evicts, the inbox would not have shown.
LEMMA NewestOfNewest ==
  ASSUME NEW O \in SUBSET Orders, NEW B \in SUBSET Orders
  PROVE  Newest(O \cup Newest(B)) = Newest(O \cup B)
<1> DEFINE E == O \cup B  F == O \cup Newest(B)
<1>1. Newest(B) \subseteq B /\ F \subseteq E /\ E \in SUBSET Orders /\ F \in SUBSET Orders BY NewestIs
<1>2. \A k \in Orders : k \in Nat BY OrdersAreFinite
<1>3. Limit \in Nat BY InboxAssumption
<1>4. ASSUME NEW k \in Newest(E) PROVE k \in Newest(F)
  <2>1. k \in E /\ Cardinality(Above(E, k)) \in Nat /\ Cardinality(Above(E, k)) < Limit BY <1>1, NewestIs
  <2>2. Above(B, k) \subseteq Above(E, k) /\ Above(F, k) \subseteq Above(E, k) BY <1>1 DEF Above
  <2>3. /\ Cardinality(Above(B, k)) \in Nat /\ Cardinality(Above(B, k)) <= Cardinality(Above(E, k))
        /\ Cardinality(Above(F, k)) \in Nat /\ Cardinality(Above(F, k)) <= Cardinality(Above(E, k))
    <3> HIDE DEF E, F
    <3> QED BY <1>1, <2>2, NewestIs
  <2>4. Cardinality(Above(B, k)) < Limit /\ Cardinality(Above(F, k)) < Limit BY <1>3, <2>1, <2>3
  <2>5. k \in F BY <2>1, <2>4, NewestIs
  <2> HIDE DEF E, F
  <2> QED BY <1>1, <2>4, <2>5, NewestIs
<1>5. ASSUME NEW k \in Newest(F) PROVE k \in Newest(E)
  <2>1. k \in F /\ Cardinality(Above(F, k)) \in Nat /\ Cardinality(Above(F, k)) < Limit BY <1>1, NewestIs
  <2>2. \A j \in B \ Newest(B) : ~(j > k)
    <3> SUFFICES ASSUME NEW i \in B \ Newest(B), i > k PROVE FALSE OBVIOUS
    <3>1. B \ Newest(B) \in SUBSET Orders /\ B \ Newest(B) # {} OBVIOUS
    <3>2. PICK j \in B \ Newest(B) : \A h \in B \ Newest(B) : h <= j BY <3>1, LastOrder
    <3>3. j >= i /\ j \in Nat /\ i \in Nat /\ k \in Nat BY <1>1, <1>2, <2>1, <3>2
    <3>4. j > k BY <3>3
    <3>5. ~(Cardinality(Above(B, j)) < Limit) /\ Cardinality(Above(B, j)) \in Nat BY <3>2, NewestIs
    <3>6. Above(B, j) \subseteq Above(F, k)
      <4> SUFFICES ASSUME NEW h \in B, h > j PROVE h \in F /\ h > k BY DEF Above
      <4>1. h \in Nat /\ ~(h <= j) BY <1>2, <3>3
      <4>2. h \in Newest(B) BY <3>2, <4>1
      <4>3. h > k BY <3>3, <3>4, <4>1
      <4> QED BY <4>2, <4>3
    <3>7. Cardinality(Above(B, j)) <= Cardinality(Above(F, k))
      <4> HIDE DEF F
      <4> QED BY <1>1, <3>6, NewestIs
    <3> QED BY <1>3, <2>1, <3>5, <3>7
  <2>3. Above(E, k) = Above(F, k) BY <1>1, <2>2 DEF Above
  <2>4. k \in E BY <1>1, <2>1
  <2> HIDE DEF E, F
  <2> QED BY <1>1, <2>1, <2>3, <2>4, NewestIs
<1> QED BY <1>4, <1>5

\* A notification newer than all: it is shown, and hides one at most.
LEMMA NewestOfMore ==
  ASSUME NEW E \in SUBSET Orders, NEW n \in Orders, \A k \in E : k < n
  PROVE  /\ n \in Newest(E \cup {n}) /\ Newest(E \cup {n}) \subseteq Newest(E) \cup {n}
         /\ \A i, j \in Newest(E) \ Newest(E \cup {n}) : i = j
<1> DEFINE F == E \cup {n}
<1>1. F \in SUBSET Orders /\ n \in F /\ (\A k \in Orders : k \in Nat) /\ Limit \in Nat \ {0} BY OrdersAreFinite, InboxAssumption
<1>2. n \in Newest(F)
  <2>1. Above(F, n) = {} BY <1>1 DEF Above
  <2>2. Cardinality(Above(F, n)) < Limit BY <1>1, <2>1, FS_EmptySet
  <2> HIDE DEF F
  <2> QED BY <1>1, <2>2, NewestIs
<1>3. ASSUME NEW k \in E
      PROVE  Cardinality(Above(F, k)) = Cardinality(Above(E, k)) + 1 /\ Cardinality(Above(E, k)) \in Nat
  <2>1. Above(F, k) = Above(E, k) \cup {n} BY <1>1 DEF Above
  <2>2. n \notin Above(E, k) BY <1>1 DEF Above
  <2>3. IsFiniteSet(Above(E, k)) /\ Cardinality(Above(E, k)) \in Nat BY NewestIs
  <2> QED BY <2>1, <2>2, <2>3, FS_AddElement
<1>4. ASSUME NEW k \in Newest(F), k # n PROVE k \in Newest(E)
  <2>1. k \in E /\ Cardinality(Above(F, k)) < Limit BY <1>1, <1>4, NewestIs
  <2>2. Cardinality(Above(E, k)) < Limit BY <1>1, <1>3, <2>1
  <2> QED BY <2>1, <2>2, NewestIs
<1>5. ASSUME NEW i \in Newest(E) \ Newest(F), NEW j \in Newest(E) \ Newest(F), i < j PROVE FALSE
  <2>1. i \in E /\ j \in E BY NewestIs
  <2>2. Cardinality(Above(E, i)) < Limit /\ ~(Cardinality(Above(F, j)) < Limit) BY <1>1, <2>1, NewestIs
  <2>3. Cardinality(Above(E, j)) \in Nat /\ Cardinality(Above(F, j)) = Cardinality(Above(E, j)) + 1
        /\ Cardinality(Above(E, i)) \in Nat
    BY <1>3, <2>1
  <2>4. Above(E, j) \cup {j} \subseteq Above(E, i) /\ j \notin Above(E, j) BY <1>1, <1>5, <2>1 DEF Above
  <2>5. Cardinality(Above(E, j) \cup {j}) = Cardinality(Above(E, j)) + 1 BY <2>4, NewestIs, FS_AddElement
  <2>6. Cardinality(Above(E, j) \cup {j}) <= Cardinality(Above(E, i)) BY <2>4, NewestIs
  <2> QED BY <1>1, <2>2, <2>3, <2>5, <2>6
<1>6. \A i, j \in Newest(E) \ Newest(F) : i = j
  <2> SUFFICES ASSUME NEW i \in Newest(E) \ Newest(F), NEW j \in Newest(E) \ Newest(F) PROVE i = j OBVIOUS
  <2>1. i \in Nat /\ j \in Nat BY <1>1, NewestIs
  <2> QED BY <1>5, <2>1
<1> QED BY <1>2, <1>4, <1>6

LEMMA NewestOfLess ==
  ASSUME NEW E \in SUBSET Orders, NEW n
  PROVE  Newest(E) \ {n} \subseteq Newest(E \ {n}) /\ n \notin Newest(E \ {n})
<1> DEFINE F == E \ {n}
<1>1. F \in SUBSET Orders /\ Limit \in Nat BY InboxAssumption
<1>2. ASSUME NEW k \in Newest(E), k # n PROVE k \in Newest(F)
  <2>1. k \in E /\ Cardinality(Above(E, k)) < Limit /\ Cardinality(Above(E, k)) \in Nat BY NewestIs
  <2>2. Above(F, k) \subseteq Above(E, k) BY DEF Above
  <2>3. Cardinality(Above(F, k)) \in Nat /\ Cardinality(Above(F, k)) <= Cardinality(Above(E, k)) BY <2>2, NewestIs
  <2>4. Cardinality(Above(F, k)) < Limit BY <1>1, <2>1, <2>3
  <2>5. k \in F BY <1>2, <2>1
  <2> HIDE DEF F
  <2> QED BY <1>1, <2>4, <2>5, NewestIs
<1>3. n \notin Newest(F) BY <1>1, NewestIs
<1> QED BY <1>2, <1>3

LEMMA NewestOfLater ==
  ASSUME NEW E \in SUBSET Orders, NEW n \in Int
  PROVE  Newest({k \in E : k > n}) = {k \in Newest(E) : k > n}
<1> DEFINE F == {k \in E : k > n}
<1>1. F \in SUBSET Orders /\ \A k \in Orders : k \in Nat BY OrdersAreFinite
<1>2. \A k \in F : Above(F, k) = Above(E, k) BY <1>1 DEF Above
<1>3. \A k : k \in Newest(F) <=> k \in F /\ Cardinality(Above(F, k)) < Limit
  <2> HIDE DEF F
  <2> QED BY <1>1, NewestIs
<1>4. \A k : k \in Newest(E) <=> k \in E /\ Cardinality(Above(E, k)) < Limit BY NewestIs
<1>5. \A k : k \in Newest(F) <=> k \in Newest(E) /\ k > n BY <1>2, <1>3, <1>4
<1> QED BY <1>5, NewestIs

LEMMA SameVisible ==
  ASSUME NEW p, NEW q, p.buckets = q.buckets
  PROVE  Visible(p) = Visible(q) /\ Retained(p) = Retained(q) /\ Discarded(p) = Discarded(q) /\ Entries(p) = Entries(q)
<1>1. Entries(p) = Entries(q) BY DEF Entries
<1>2. Discarded(p) = SumOf(p.buckets, DOMAIN p.buckets) /\ Discarded(q) = SumOf(q.buckets, DOMAIN q.buckets)
  BY DEF Discarded, SumOf
<1> QED BY <1>1, <1>2 DEF Visible, Retained

LEMMA EntriesAre ==
  ASSUME NEW p, NEW b \in Buckets, p.buckets = b
  PROVE  /\ Entries(p) \in SUBSET Orders
         /\ Len(b) = 1 => Entries(p) = b[1].entries
         /\ Len(b) = 2 => Entries(p) = b[1].entries \cup b[2].entries
         /\ \A n : n \in Entries(p) <=> \E i \in DOMAIN b : n \in b[i].entries
<1>1. DOMAIN b = 1 .. Len(b) /\ \A i \in DOMAIN b : b[i] \in Bucket BY DEF Buckets
<1>2. \A i \in DOMAIN b : b[i].entries \in SUBSET Orders BY <1>1 DEF Bucket
<1>3. \A n : n \in Entries(p) <=> \E i \in DOMAIN b : n \in b[i].entries BY DEF Entries
<1>4. Entries(p) \in SUBSET Orders BY <1>2, <1>3
<1>5. Len(b) = 1 => Entries(p) = b[1].entries
  <2> SUFFICES ASSUME Len(b) = 1 PROVE Entries(p) = b[1].entries OBVIOUS
  <2>1. DOMAIN b = {1} BY <1>1
  <2> QED BY <1>3, <2>1
<1>6. Len(b) = 2 => Entries(p) = b[1].entries \cup b[2].entries
  <2> SUFFICES ASSUME Len(b) = 2 PROVE Entries(p) = b[1].entries \cup b[2].entries OBVIOUS
  <2>1. DOMAIN b = {1, 2} BY <1>1
  <2> QED BY <1>3, <2>1
<1> QED BY <1>3, <1>4, <1>5, <1>6

LEMMA DiscardedIsTotal ==
  ASSUME NEW p, p.buckets \in Buckets, Len(p.buckets) \in {1, 2}
  PROVE  Discarded(p) = Total(p.buckets) /\ Discarded(p) \in Nat
BY DiscardedIs, BucketsAre DEF Total

LEMMA ProjectionIs ==
  ASSUME NEW p \in Projection
  PROVE  /\ p # None /\ p.revision \in Nat /\ p.watermark \in Nat /\ p.buckets \in Buckets
         /\ Revised(p) \in Projection /\ Revised(p).revision = p.revision + 1 /\ Revised(p).watermark = p.watermark
         /\ Revised(p).buckets = p.buckets
BY InboxAssumption DEF Projection, Buckets, Revised

----------------------------------------------------------------------------
(* Inboxes: what a step tells *)

OneEach(es) ==
  /\ DOMAIN es \subseteq Nat
  /\ \A i, j \in DOMAIN es : es[i].session = es[j].session => i = j

NoEventOf(es, s) == \A i \in DOMAIN es : es[i].session # s

LEMMA PublishIs ==
  ASSUME NEW es, OneEach(es), Publish(es)
  PROVE  /\ events' = es
         /\ DOMAIN lastRevision' = Sessions /\ DOMAIN lastWatermark' = Sessions
         /\ \A s \in Sessions : NoEventOf(es, s) => lastRevision'[s] = lastRevision[s] /\ lastWatermark'[s] = lastWatermark[s]
         /\ \A s \in Sessions, i \in DOMAIN es :
              es[i].session = s => lastRevision'[s] = es[i].revision /\ lastWatermark'[s] = es[i].watermark
<1> DEFINE of(s) == {i \in DOMAIN es : es[i].session = s}
<1>1. /\ events' = es
      /\ lastRevision' = [s \in Sessions |-> IF of(s) = {} THEN lastRevision[s] ELSE es[Max(of(s))].revision]
      /\ lastWatermark' = [s \in Sessions |-> IF of(s) = {} THEN lastWatermark[s] ELSE es[Max(of(s))].watermark]
  BY DEF Publish
<1>2. \A s : NoEventOf(es, s) => of(s) = {} BY DEF NoEventOf
<1>3. \A s, i : i \in of(s) => Max(of(s)) = i
  <2> SUFFICES ASSUME NEW s, NEW i \in of(s) PROVE Max(of(s)) = i OBVIOUS
  <2>1. of(s) = {i} /\ i \in Nat BY DEF OneEach
  <2>2. Max({i}) = i BY <2>1 DEF Max
  <2> QED BY <2>1, <2>2
<1>4. \A s, i : i \in DOMAIN es /\ es[i].session = s => i \in of(s) OBVIOUS
<1> HIDE DEF of
<1> QED BY <1>1, <1>2, <1>3, <1>4

\* What the step tells of session s is what changes in what it shows.
FollowsAt(s) ==
  LET es == {i \in DOMAIN events' : events'[i].session = s} IN
  Shown(s)' = IF es = {} THEN Shown(s) ELSE Applied(events'[Max(es)], Shown(s), Shown(s)')

ShownOf(p) == IF p = None THEN Nothing ELSE Visible(p)

LEMMA FollowsSilently ==
  ASSUME NEW s, NEW es, events' = es, NoEventOf(es, s), ShownOf(inbox'[s]) = ShownOf(inbox[s])
  PROVE  FollowsAt(s)
<1>1. {i \in DOMAIN events' : events'[i].session = s} = {} BY DEF NoEventOf
<1>2. Shown(s)' = Shown(s) BY DEF Shown, ShownOf
<1> QED BY <1>1, <1>2 DEF FollowsAt

LEMMA FollowsTold ==
  ASSUME NEW s, NEW es, events' = es, OneEach(es), NEW i \in DOMAIN es, es[i].session = s,
         ShownOf(inbox'[s]) = Applied(es[i], ShownOf(inbox[s]), ShownOf(inbox'[s]))
  PROVE  FollowsAt(s)
<1> DEFINE of == {j \in DOMAIN events' : events'[j].session = s}
<1>1. of = {i} /\ i \in Nat BY DEF OneEach
<1>2. Max({i}) = i BY <1>1 DEF Max
<1>3. Shown(s)' = ShownOf(inbox'[s]) /\ Shown(s) = ShownOf(inbox[s]) BY DEF Shown, ShownOf
<1>4. Max(of) = i /\ of # {} BY <1>1, <1>2
<1>5. Shown(s)' = Applied(events'[Max(of)], Shown(s), Shown(s)')
  <2> HIDE DEF of
  <2> QED BY <1>3, <1>4
<1> QED BY <1>4, <1>5 DEF FollowsAt

----------------------------------------------------------------------------
(* Inboxes: the invariant *)

NumbersOK ==
  /\ nextOrder \in Nat /\ nextOrder <= MaxOrder /\ gens \in Nat /\ gens <= MaxGens /\ discards \in Nat
  /\ DOMAIN inbox = Sessions /\ DOMAIN owed = Sessions /\ DOMAIN snapshot = Sessions

\* Of two generations of a state the candidate is the newer one, and no session is of two states.
StatesOK ==
  /\ states \subseteq State
  /\ \A x \in states : /\ x.gen <= gens /\ (x.candidate = None <=> x.target = None)
                       /\ x.candidate # None => x.gen < x.candidate /\ x.candidate <= gens
  /\ \A x, y \in states : x # y => {x.session, x.target} \cap {y.session, y.target} \subseteq {None}

\* A state has a bucket for each of its generations, in the inbox of its session or of its target.
HasBuckets(x) ==
  /\ inbox[x.session] # None /\ inbox[x.session].buckets[1].gen = x.gen
  /\ Len(inbox[x.session].buckets) = (IF x.target = x.session THEN 2 ELSE 1)
  /\ x.target = x.session => inbox[x.session].buckets[2].gen = x.candidate
  /\ x.target \notin {None, x.session} =>
       inbox[x.target] # None /\ Len(inbox[x.target].buckets) = 1 /\ inbox[x.target].buckets[1].gen = x.candidate

\* An inbox is of a state, is at the revision and the watermark last told, and counts what it owes.
SessionOK(s) ==
  /\ lastRevision[s] \in Nat /\ lastWatermark[s] \in Nat
  /\ inbox[s] = None => StatesOf(s) = {} /\ owed[s] = {}
  /\ inbox[s] # None =>
       /\ inbox[s] \in Projection /\ StatesOf(s) # {}
       /\ Counts(inbox[s].buckets, owed[s], gens, discards, nextOrder)
       /\ inbox[s].revision = lastRevision[s] /\ inbox[s].watermark = lastWatermark[s]

\* What a client has not read are the inbox's discards of the last watermarks.
AckOK(s) ==
  snapshot[s] # None =>
    /\ snapshot[s].order \in Nat /\ snapshot[s].watermark \in Nat /\ snapshot[s].discards \in Nat
    /\ ~disposed =>
         /\ snapshot[s].watermark <= lastWatermark[s] /\ snapshot[s].discards <= discards
         /\ inbox[s] # None =>
              Acks(inbox[s].buckets, owed[s], lastWatermark[s] - snapshot[s].watermark, snapshot[s].discards)

InboxesInv ==
  /\ NumbersOK /\ StatesOK /\ \A x \in states : HasBuckets(x)
  /\ \A s \in Sessions : SessionOK(s) /\ AckOK(s)
  /\ disposed => states = {}

LEMMA AddAcks ==
  ASSUME NEW b, NEW ow, NEW b2, NEW ow2, NEW c \in Nat, NEW w \in Nat, NEW k, Total(b) \in Nat,
         Total(b2) = Total(b) + c, Cardinality(Later(ow2, k)) = Cardinality(Later(ow, k)) + c, Acks(b, ow, w, k)
  PROVE  Acks(b2, ow2, w + c, k)
<1>1. Cardinality(Later(ow, k)) = Least(Total(b), w) BY DEF Acks
<1>2. Least(Total(b), w) + c = Least(Total(b) + c, w + c) BY DEF Least
<1> QED BY <1>1, <1>2 DEF Acks

\* Sessions the step has nothing to do with
LEMMA SessionStays ==
  ASSUME NEW s \in Sessions, SessionOK(s), AckOK(s), NumbersOK, NumbersOK', disposed' = disposed,
         gens <= gens', discards <= discards', nextOrder <= nextOrder',
         inbox'[s] = inbox[s], owed'[s] = owed[s], snapshot'[s] = snapshot[s],
         lastRevision'[s] = lastRevision[s], lastWatermark'[s] = lastWatermark[s],
         StatesOf(s)' = {} <=> StatesOf(s) = {}
  PROVE  SessionOK(s)' /\ AckOK(s)'
<1>0. /\ gens \in Nat /\ discards \in Nat /\ nextOrder \in Nat
      /\ gens' \in Nat /\ discards' \in Nat /\ nextOrder' \in Nat
  BY DEF NumbersOK
<1>1. inbox[s] # None => Counts(inbox[s].buckets, owed[s], gens', discards', nextOrder')
  <2> SUFFICES ASSUME inbox[s] # None PROVE Counts(inbox[s].buckets, owed[s], gens', discards', nextOrder') OBVIOUS
  <2>1. Counts(inbox[s].buckets, owed[s], gens, discards, nextOrder) BY DEF SessionOK
  <2> QED BY <1>0, <2>1, CountsStay
<1>2. SessionOK(s)' BY <1>1 DEF SessionOK
<1>3. AckOK(s)'
  <2>1. snapshot[s] # None => snapshot[s].discards \in Nat /\ (~disposed => snapshot[s].discards <= discards') BY <1>0 DEF AckOK
  <2> QED BY <2>1 DEF AckOK
<1> QED BY <1>2, <1>3

\* An inbox goes.
LEMMA SessionCloses ==
  ASSUME NEW s \in Sessions, AckOK(s), SessionOK(s), NumbersOK, NumbersOK', disposed' = disposed, discards <= discards',
         inbox'[s] = None, owed'[s] = {}, snapshot'[s] = snapshot[s], StatesOf(s)' = {},
         lastRevision'[s] \in Nat, lastWatermark'[s] = lastWatermark[s]
  PROVE  SessionOK(s)' /\ AckOK(s)'
<1>1. lastWatermark[s] \in Nat BY DEF SessionOK
<1>2. SessionOK(s)' BY <1>1 DEF SessionOK
<1>3. discards \in Nat /\ discards' \in Nat BY DEF NumbersOK
<1>4. snapshot[s] # None => snapshot[s].discards \in Nat /\ (~disposed => snapshot[s].discards <= discards') BY <1>3 DEF AckOK
<1> QED BY <1>2, <1>4 DEF AckOK

\* An inbox becomes p.
LEMMA SessionChanges ==
  ASSUME NEW s \in Sessions, NEW p \in Projection, inbox'[s] = p, StatesOf(s)' # {},
         Counts(p.buckets, owed'[s], gens', discards', nextOrder'),
         p.revision = lastRevision'[s], p.watermark = lastWatermark'[s]
  PROVE  SessionOK(s)'
<1>1. p # None /\ p.revision \in Nat /\ p.watermark \in Nat BY ProjectionIs
<1> QED BY <1>1 DEF SessionOK

\* The inbox p of s counts c discards more, and its watermark grows as much.
LEMMA AcksGrow ==
  ASSUME NEW s \in Sessions, AckOK(s), NumbersOK, NumbersOK', disposed' = disposed, discards <= discards',
         snapshot'[s] = snapshot[s], NEW c \in Nat, lastWatermark[s] \in Nat, lastWatermark'[s] = lastWatermark[s] + c,
         NEW p, inbox'[s] = p,
         ASSUME NEW w \in Nat, NEW k \in Nat, k <= discards, inbox[s] # None => Acks(inbox[s].buckets, owed[s], w, k),
                snapshot[s] # None, w = lastWatermark[s] - snapshot[s].watermark, k = snapshot[s].discards
         PROVE  Acks(p.buckets, owed'[s], w + c, k)
  PROVE  AckOK(s)'
<1>0. discards \in Nat /\ discards' \in Nat BY DEF NumbersOK
<1> SUFFICES ASSUME snapshot[s] # None, ~disposed
             PROVE  /\ snapshot[s].watermark <= lastWatermark[s] + c /\ snapshot[s].discards <= discards'
                    /\ Acks(p.buckets, owed'[s], (lastWatermark[s] + c) - snapshot[s].watermark, snapshot[s].discards)
  BY DEF AckOK
<1>1. PICK w : w = lastWatermark[s] - snapshot[s].watermark OBVIOUS
<1>2. PICK k : k = snapshot[s].discards OBVIOUS
<1>3. /\ snapshot[s].watermark \in Nat /\ snapshot[s].watermark <= lastWatermark[s] /\ w \in Nat /\ k \in Nat /\ k <= discards
      /\ inbox[s] # None => Acks(inbox[s].buckets, owed[s], w, k)
  BY <1>1, <1>2 DEF AckOK
<1>4. Acks(p.buckets, owed'[s], w + c, k) BY <1>1, <1>2, <1>3
<1>5. (lastWatermark[s] + c) - snapshot[s].watermark = w + c BY <1>1, <1>3
<1> QED BY <1>0, <1>2, <1>3, <1>4, <1>5

----------------------------------------------------------------------------
(* Inboxes: the states that come and go *)

OfState(s, x) == s \in {x.session, x.target}

LEMMA OneState ==
  ASSUME StatesOK, NEW s \in Sessions, NEW x \in StatesOf(s)
  PROVE  StatesOf(s) = {x}
<1>1. s # None BY InboxAssumption
<1>2. \A y \in StatesOf(s) : y = x BY <1>1 DEF StatesOK, StatesOf
<1> QED BY <1>2

\* The states old go and new comes, of sessions that are not of other states.
LEMMA StatesMove ==
  ASSUME InboxesInv, NEW old \in SUBSET states, NEW new \in SUBSET State, states' = (states \ old) \cup new,
         gens' \in Nat, gens <= gens', \A x, y \in new : x = y,
         \A y \in new : /\ y.gen <= gens' /\ (y.candidate = None <=> y.target = None)
                        /\ y.candidate # None => y.gen < y.candidate /\ y.candidate <= gens'
                        /\ HasBuckets(y)',
         \A y \in new, s \in Sessions : OfState(s, y) => StatesOf(s) \subseteq old,
         \A s \in Sessions : (\A x \in old \cup new : ~OfState(s, x)) => inbox'[s] = inbox[s]
  PROVE  /\ StatesOK' /\ \A x \in states' : HasBuckets(x)'
         /\ \A s \in Sessions : (\A x \in old \cup new : ~OfState(s, x)) => StatesOf(s)' = StatesOf(s)
         /\ \A s \in Sessions, y \in new : OfState(s, y) => StatesOf(s)' # {}
         /\ \A s \in Sessions : StatesOf(s) \subseteq old /\ (\A y \in new : ~OfState(s, y)) => StatesOf(s)' = {}
<1>1. /\ StatesOK /\ gens \in Nat /\ None \notin Sessions /\ (\A x \in states : HasBuckets(x))
      /\ states \subseteq State
  BY InboxAssumption DEF InboxesInv, StatesOK, NumbersOK
<1>2. \A x \in State : /\ x.session \in Sessions /\ x.target \in Sessions \cup {None} /\ x.gen \in Nat
                       /\ x.candidate \in Nat \cup {None}
  BY DEF State, Gens
<1>3. ASSUME NEW z \in states \ old, NEW x \in old \cup new
      PROVE  {z.session, z.target} \cap {x.session, x.target} \subseteq {None}
  <2>1. CASE x \in old BY <1>1, <2>1 DEF StatesOK
  <2>2. CASE x \in new
    <3> SUFFICES ASSUME NEW s \in {z.session, z.target} \cap {x.session, x.target}, s # None PROVE FALSE OBVIOUS
    <3>1. s \in Sessions /\ OfState(s, x) BY <1>1, <1>2 DEF OfState
    <3>2. z \in StatesOf(s) BY DEF StatesOf
    <3> QED BY <2>2, <3>1, <3>2
  <2> QED BY <2>1, <2>2
<1>4. StatesOK'
  <2>1. states' \subseteq State BY <1>1
  <2>2. ASSUME NEW x \in states'
        PROVE  /\ x.gen <= gens' /\ (x.candidate = None <=> x.target = None)
               /\ x.candidate # None => x.gen < x.candidate /\ x.candidate <= gens'
    <3>1. CASE x \in new BY <3>1
    <3>2. CASE x \in states
      <4>1. x \in State BY <1>1, <3>2
      <4> QED BY <1>1, <1>2, <3>2, <4>1 DEF StatesOK
    <3> QED BY <3>1, <3>2
  <2>3. \A x, y \in states' : x # y => {x.session, x.target} \cap {y.session, y.target} \subseteq {None}
    <3> SUFFICES ASSUME NEW x \in states', NEW y \in states', x # y
                 PROVE  {x.session, x.target} \cap {y.session, y.target} \subseteq {None}
      OBVIOUS
    <3>1. CASE x \in states \ old /\ y \in new BY <1>3, <3>1
    <3>2. CASE y \in states \ old /\ x \in new BY <1>3, <3>2
    <3>3. CASE x \in states \ old /\ y \in states \ old BY <1>1, <3>3 DEF StatesOK
    <3> QED BY <3>1, <3>2, <3>3
  <2> QED BY <2>1, <2>2, <2>3 DEF StatesOK
<1>5. ASSUME NEW x \in states' PROVE HasBuckets(x)'
  <2>1. CASE x \in new BY <2>1
  <2>2. CASE x \in states \ old
    <3>1. x.session \in Sessions /\ x.target \in Sessions \cup {None} BY <1>1, <1>2, <2>2
    <3>2. \A s \in {x.session, x.target} : s # None => \A y \in old \cup new : ~OfState(s, y) BY <1>3, <2>2 DEF OfState
    <3>3. inbox'[x.session] = inbox[x.session] /\ (x.target # None => inbox'[x.target] = inbox[x.target]) BY <1>1, <3>1, <3>2
    <3> QED BY <1>1, <2>2, <3>3 DEF HasBuckets
  <2> QED BY <2>1, <2>2
<1>6. \A s \in Sessions : (\A x \in old \cup new : ~OfState(s, x)) => StatesOf(s)' = StatesOf(s) BY DEF StatesOf, OfState
<1>7. \A s \in Sessions, y \in new : OfState(s, y) => StatesOf(s)' # {} BY DEF StatesOf, OfState
<1>8. \A s \in Sessions : StatesOf(s) \subseteq old /\ (\A y \in new : ~OfState(s, y)) => StatesOf(s)' = {}
  BY DEF StatesOf, OfState
<1> QED BY <1>4, <1>5, <1>6, <1>7, <1>8

Grows == \A i \in DOMAIN events' : events'[i].revision > lastRevision[events'[i].session]

Followed == \A s \in Sessions : FollowsAt(s)

LEMMA VisibleIs ==
  ASSUME NEW p, p.buckets \in Buckets, Len(p.buckets) \in {1, 2}
  PROVE  Visible(p) = [ids |-> Newest(Entries(p)), discarded |-> Total(p.buckets)] /\ Retained(p) = Newest(Entries(p))
BY DiscardedIsTotal DEF Visible, Retained

LEMMA FreshIs ==
  ASSUME NEW r \in Nat, NEW w \in Nat, NEW n \in Gens,
         NEW p, p = [revision |-> r, watermark |-> w, buckets |-> <<EmptyBucket(n)>>]
  PROVE  /\ p \in Projection /\ p.revision = r /\ p.watermark = w /\ p # None /\ p.buckets = <<EmptyBucket(n)>>
         /\ Len(p.buckets) = 1 /\ p.buckets[1].gen = n /\ Visible(p) = Nothing
<1>1. PICK e : e = EmptyBucket(n) OBVIOUS
<1>2. e \in Bucket /\ e.gen = n /\ e.entries = {} /\ e.discarded = 0 BY <1>1 DEF EmptyBucket, Bucket
<1>3. <<e>> \in Buckets /\ Len(<<e>>) = 1 /\ <<e>>[1] = e BY <1>2 DEF Buckets
<1>4. p.buckets = <<e>> /\ p.revision = r /\ p.watermark = w BY <1>1
<1>5. p \in Projection BY <1>1, <1>3 DEF Projection, Buckets
<1>6. Entries(p) = {} BY <1>2, <1>3, <1>4, EntriesAre
<1>7. Newest({}) = {} BY DEF Newest
<1>8. Total(p.buckets) = 0 BY <1>2, <1>3, <1>4 DEF Total
<1>9. Visible(p) = Nothing BY <1>3, <1>4, <1>6, <1>7, <1>8, VisibleIs DEF Nothing
<1> QED BY <1>1, <1>2, <1>3, <1>4, <1>5, <1>9, ProjectionIs

\* A bucket for a candidate is added to an inbox.
LEMMA AppendIs ==
  ASSUME NEW p \in Projection, NEW ow, NEW g \in Nat, NEW d \in Nat, NEW m \in Nat, Counts(p.buckets, ow, g, d, m),
         Len(p.buckets) = 1, NEW n \in Gens, n = g + 1,
         NEW q \in Projection, q.buckets = Longer(p.buckets, EmptyBucket(n))
  PROVE  /\ Counts(q.buckets, ow, n, d, m) /\ Len(q.buckets) = 2 /\ q.buckets[1] = p.buckets[1] /\ q.buckets[2].gen = n
         /\ Total(q.buckets) = Total(p.buckets) /\ Visible(q) = Visible(p)
<1>1. PICK b : b = p.buckets OBVIOUS
<1>9. PICK b2 : b2 = q.buckets OBVIOUS
<1>2. b \in Buckets /\ Counts(b, ow, g, d, m) /\ Len(b) = 1 BY <1>1 DEF Counts
<1>0. EmptyBucket(n) \in Bucket BY DEF EmptyBucket, Bucket
<1>5. b2 \in Buckets /\ Len(b2) = 2 /\ b2[1] = b[1] /\ b2[2] = EmptyBucket(n)
  <2>1. b2 = Longer(b, EmptyBucket(n)) BY <1>1, <1>9
  <2> QED BY <1>0, <1>2, <2>1, LongerIs
<1>3. Counts(b2, ow, n, d, m) /\ Total(b2) = Total(b) /\ Len(b2) = 2 /\ b2[1] = b[1] /\ b2[2] = EmptyBucket(n)
  BY <1>2, <1>5, AppendCounts
<1>4. b2 \in Buckets /\ b \in Buckets /\ q.buckets = b2 /\ p.buckets = b BY <1>1, <1>2, <1>5, <1>9
<1>7. b2[2].entries = {} /\ b2[2].gen = n BY <1>3 DEF EmptyBucket
<1>8. Entries(q) = Entries(p)
  <2>1. Entries(q) = b2[1].entries \cup b2[2].entries BY <1>3, <1>4, EntriesAre
  <2>2. Entries(p) = b[1].entries BY <1>2, <1>4, EntriesAre
  <2> QED BY <1>3, <1>7, <2>1, <2>2
<1>10. Visible(q) = Visible(p) BY <1>2, <1>3, <1>4, <1>8, VisibleIs
<1> QED BY <1>3, <1>4, <1>7, <1>10

LEMMA BeginKeeps ==
  ASSUME InboxesInv, NEW x \in states, NEW t \in Sessions, x.candidate = None, t = x.session \/ StatesOf(t) = {}, Begin(x, t)
  PROVE  InboxesInv' /\ Followed /\ Grows
<1>1. /\ NumbersOK /\ StatesOK /\ HasBuckets(x) /\ (\A s \in Sessions : SessionOK(s) /\ AckOK(s))
      /\ ~disposed /\ gens < MaxGens /\ gens' = gens + 1 /\ Publish(<<>>)
      /\ UNCHANGED <<nextOrder, disposed, snapshot, discards, owed>>
  BY DEF InboxesInv, Begin, NextGeneration
<1>2. /\ OneEach(<<>>) /\ \A s : NoEventOf(<<>>, s) BY DEF OneEach, NoEventOf
<1>3. /\ events' = <<>> /\ \A s \in Sessions : lastRevision'[s] = lastRevision[s] /\ lastWatermark'[s] = lastWatermark[s]
  BY <1>1, <1>2, PublishIs
<1>4. NumbersOK' /\ gens \in Nat /\ gens + 1 \in Gens /\ gens <= gens' /\ discards \in Nat /\ nextOrder \in Nat
  <2>1. DOMAIN inbox' = DOMAIN inbox BY DEF Begin
  <2> QED BY <1>1, <2>1, InboxAssumption DEF NumbersOK, Gens
<1>5. PICK y : y = [x EXCEPT !.candidate = gens + 1, !.target = t] OBVIOUS
<1>6. /\ x \in State /\ x.session \in Sessions /\ x.target = None /\ x.gen \in Nat /\ x.gen <= gens
      /\ None \notin Sessions /\ None \notin Gens
  BY <1>1, InboxAssumption DEF StatesOK, State, Gens
<1>7. y \in State /\ y.session = x.session /\ y.gen = x.gen /\ y.candidate = gens + 1 /\ y.target = t
  BY <1>4, <1>5, <1>6 DEF State
<1>8. states' = (states \ {x}) \cup {y} BY <1>5 DEF Begin
<1>9. StatesOf(x.session) = {x}
  <2>1. x \in StatesOf(x.session) BY DEF StatesOf
  <2> QED BY <1>1, <1>6, <2>1, OneState
<1>10. PICK p : p = inbox'[t] OBVIOUS
<1>11. \A s \in Sessions : s # t => inbox'[s] = inbox[s] BY <1>1 DEF Begin, NumbersOK
<1>12. /\ p \in Projection /\ p # None /\ p.revision = lastRevision[t] /\ p.watermark = lastWatermark[t]
       /\ Counts(p.buckets, owed[t], gens + 1, discards, nextOrder) /\ Visible(p) = ShownOf(inbox[t])
       /\ Total(p.buckets) = (IF t = x.session THEN Total(inbox[t].buckets) ELSE 0)
       /\ p.buckets[Len(p.buckets)].gen = gens + 1
       /\ t = x.session => inbox[t] # None /\ Len(p.buckets) = 2 /\ p.buckets[1] = inbox[t].buckets[1]
       /\ t # x.session => inbox[t] = None /\ owed[t] = {} /\ p.buckets = <<EmptyBucket(gens + 1)>> /\ Len(p.buckets) = 1
  <2>1. CASE t = x.session
    <3>1. p = [inbox[t] EXCEPT !.buckets = Append(@, EmptyBucket(gens + 1))]
      BY <1>1, <1>10, <2>1 DEF Begin, NumbersOK, Joined
    <3>2. inbox[t] # None /\ Len(inbox[t].buckets) = 1 BY <1>1, <1>6, <2>1 DEF HasBuckets
    <3>3. /\ inbox[t] \in Projection /\ Counts(inbox[t].buckets, owed[t], gens, discards, nextOrder)
          /\ inbox[t].revision = lastRevision[t] /\ inbox[t].watermark = lastWatermark[t]
      BY <1>1, <3>2 DEF SessionOK
    <3>4. PICK p0 : p0 = inbox[t] OBVIOUS
    <3>6. PICK n \in Gens : n = gens + 1 BY <1>4
    <3>7. p0 \in Projection /\ Counts(p0.buckets, owed[t], gens, discards, nextOrder) /\ Len(p0.buckets) = 1 BY <3>2, <3>3, <3>4
    <3>8. p \in Projection /\ p.revision = p0.revision /\ p.watermark = p0.watermark /\ p.buckets = Longer(p0.buckets, EmptyBucket(n))
      <4>1. PICK b2 : b2 = Longer(p0.buckets, EmptyBucket(n)) OBVIOUS
      <4>2. b2 \in Buckets
        <5>1. EmptyBucket(n) \in Bucket /\ p0.buckets \in Buckets BY <3>6, <3>7 DEF EmptyBucket, Bucket, Counts
        <5> QED BY ONLY <3>7, <4>1, <5>1, LongerIs
      <4>3. p = [p0 EXCEPT !.buckets = b2] BY <3>1, <3>4, <3>6, <4>1 DEF Longer
      <4> QED BY ONLY <3>7, <4>1, <4>2, <4>3 DEF Projection, Buckets
    <3>5. /\ Counts(p.buckets, owed[t], n, discards, nextOrder) /\ Len(p.buckets) = 2
          /\ p.buckets[1] = p0.buckets[1] /\ p.buckets[2].gen = n
          /\ Total(p.buckets) = Total(p0.buckets) /\ Visible(p) = Visible(p0)
      <4>1. Counts(p.buckets, owed[t], n, discards, nextOrder) /\ Visible(p) = Visible(p0)
        <5>1. PICK q : q = p OBVIOUS
        <5>2. PICK o : o = owed[t] OBVIOUS
        <5>3. q \in Projection /\ q.revision = p0.revision /\ q.watermark = p0.watermark
              /\ q.buckets = Longer(p0.buckets, EmptyBucket(n)) /\ Counts(p0.buckets, o, gens, discards, nextOrder)
          BY <3>7, <3>8, <5>1, <5>2
        <5>4. Counts(q.buckets, o, n, discards, nextOrder) /\ Visible(q) = Visible(p0)
          BY ONLY <1>4, <3>6, <3>7, <5>3, AppendIs
        <5> QED BY <5>1, <5>2, <5>4
      <4>6. PICK b \in Buckets : b = p0.buckets BY <3>7 DEF Counts
      <4>7. PICK e \in Bucket : e = EmptyBucket(n) BY <3>6 DEF EmptyBucket, Bucket
      <4>8. PICK b2 : b2 = p.buckets OBVIOUS
      <4>9. Len(b) = 1 /\ b2 = Longer(b, e) BY <3>7, <3>8, <4>6, <4>7, <4>8
      <4>10. Len(b2) = 2 /\ b2[1] = b[1] /\ b2[2] = e BY ONLY <4>6, <4>7, <4>9, LongerIs
      <4>2. Len(p.buckets) = 2 /\ p.buckets[1] = p0.buckets[1] BY <4>6, <4>8, <4>10
      <4>3. p.buckets[2].gen = n BY <4>7, <4>8, <4>10 DEF EmptyBucket
      <4>11. e.discarded = 0 /\ b[1].discarded \in Nat
        <5>1. b \in Buckets /\ Len(b) \in {1, 2} BY <4>6, <4>9
        <5> QED BY <4>7, <5>1, BucketsAre DEF EmptyBucket
      <4>12. Total(b2) = Total(b) BY <4>9, <4>10, <4>11 DEF Total
      <4>4. Total(p.buckets) = Total(p0.buckets) BY <4>6, <4>8, <4>12
      <4> QED BY <4>1, <4>2, <4>3, <4>4
    <3> QED BY <2>1, <3>2, <3>3, <3>4, <3>5, <3>6, <3>8, ProjectionIs DEF ShownOf
  <2>2. CASE t # x.session
    <3>1. p = [revision |-> lastRevision'[t], watermark |-> lastWatermark'[t], buckets |-> <<EmptyBucket(gens + 1)>>]
      BY <1>1, <1>10, <2>2 DEF Begin, Fresh, NumbersOK
    <3>2. inbox[t] = None /\ owed[t] = {} /\ lastRevision[t] \in Nat /\ lastWatermark[t] \in Nat
      <4>1. StatesOf(t) = {} BY <2>2
      <4> QED BY <1>1, <4>1 DEF SessionOK
    <3>3. /\ p \in Projection /\ p.revision = lastRevision[t] /\ p.watermark = lastWatermark[t] /\ p # None
          /\ p.buckets = <<EmptyBucket(gens + 1)>> /\ Len(p.buckets) = 1 /\ p.buckets[1].gen = gens + 1 /\ Visible(p) = Nothing
      BY <1>3, <1>4, <3>1, <3>2, FreshIs
    <3>4. Counts(p.buckets, owed[t], gens + 1, discards, nextOrder) /\ Total(p.buckets) = 0
      BY <1>4, <3>2, <3>3, FreshCounts
    <3> QED BY <2>2, <3>2, <3>3, <3>4 DEF ShownOf
  <2> QED BY <2>1, <2>2
<1>13. HasBuckets(y)'
  <2>1. CASE t = x.session BY <1>1, <1>6, <1>7, <1>10, <1>12, <2>1 DEF HasBuckets
  <2>2. CASE t # x.session
    <3>1. inbox'[x.session] = inbox[x.session] BY <1>6, <1>11, <2>2
    <3> QED BY <1>1, <1>6, <1>7, <1>10, <1>12, <2>2, <3>1 DEF HasBuckets
  <2> QED BY <2>1, <2>2
<1>14. /\ StatesOK' /\ \A z \in states' : HasBuckets(z)'
       /\ \A s \in Sessions : (\A z \in {x} \cup {y} : ~OfState(s, z)) => StatesOf(s)' = StatesOf(s)
       /\ \A s \in Sessions, z \in {y} : OfState(s, z) => StatesOf(s)' # {}
  <2>1. \A z \in {y} : /\ z.gen <= gens' /\ (z.candidate = None <=> z.target = None)
                       /\ z.candidate # None => z.gen < z.candidate /\ z.candidate <= gens'
                       /\ HasBuckets(z)'
    BY <1>1, <1>4, <1>6, <1>7, <1>13
  <2>2. \A z \in {y}, s \in Sessions : OfState(s, z) => StatesOf(s) \subseteq {x} BY <1>7, <1>9 DEF OfState
  <2>3. \A s \in Sessions : (\A z \in {x} \cup {y} : ~OfState(s, z)) => inbox'[s] = inbox[s] BY <1>7, <1>11 DEF OfState
  <2>4. gens' \in Nat BY <1>1, <1>4
  <2>5. {x} \in SUBSET states /\ {y} \in SUBSET State /\ \A u, v \in {y} : u = v BY <1>7
  <2> HIDE DEF OfState
  <2> QED BY <1>4, <1>8, <2>1, <2>2, <2>3, <2>4, <2>5, StatesMove
<1>15. ASSUME NEW s \in Sessions PROVE SessionOK(s)' /\ AckOK(s)'
  <2>1. SessionOK(s) /\ AckOK(s) BY <1>1
  <2>2. CASE s # t
    <3>1. inbox'[s] = inbox[s] BY <1>11, <2>2
    <3>2. StatesOf(s)' = {} <=> StatesOf(s) = {}
      <4>1. CASE s = x.session
        <5>1. StatesOf(s)' # {} BY <1>7, <1>14, <4>1 DEF OfState
        <5> QED BY <1>9, <4>1, <5>1
      <4>2. CASE s # x.session
        <5>1. \A z \in {x} \cup {y} : ~OfState(s, z) BY <1>6, <1>7, <2>2, <4>2 DEF OfState
        <5> QED BY <1>14, <5>1
      <4> QED BY <4>1, <4>2
    <3>3. discards <= discards' /\ nextOrder <= nextOrder' BY <1>1, <1>4
    <3> QED BY <1>1, <1>3, <1>4, <2>1, <3>1, <3>2, <3>3, SessionStays
  <2>3. CASE s = t
    <3>1. StatesOf(s)' # {} BY <1>7, <1>14, <2>3 DEF OfState
    <3>2. SessionOK(s)' BY <1>1, <1>3, <1>10, <1>12, <2>3, <3>1, SessionChanges
    <3>3. ASSUME NEW w \in Nat, NEW k \in Nat, k <= discards, inbox[s] # None => Acks(inbox[s].buckets, owed[s], w, k)
          PROVE  Acks(p.buckets, owed'[s], w + 0, k)
      <4>1. CASE t = x.session BY <1>1, <1>12, <2>3, <3>3, <4>1 DEF Acks
      <4>2. CASE t # x.session
        <5>1. Acks(p.buckets, {}, w, k) BY <1>4, <1>12, <3>3, <4>2, FreshCounts
        <5>2. owed'[s] = {} /\ w + 0 = w BY <1>1, <1>12, <2>3, <3>3, <4>2
        <5> QED BY <5>1, <5>2
      <4> QED BY <4>1, <4>2
    <3>4. lastWatermark[s] \in Nat /\ lastWatermark'[s] = lastWatermark[s] + 0 BY <1>3, <2>1 DEF SessionOK
    <3>5. discards <= discards' BY <1>1, <1>4
    <3>6. AckOK(s)' BY <1>1, <1>4, <1>10, <2>1, <2>3, <3>3, <3>4, <3>5, AcksGrow
    <3> QED BY <3>2, <3>6
  <2> QED BY <2>2, <2>3
<1>16. Followed
  <2> SUFFICES ASSUME NEW s \in Sessions PROVE FollowsAt(s) BY DEF Followed
  <2>1. ShownOf(inbox'[s]) = ShownOf(inbox[s])
    <3>1. CASE s # t BY <1>11, <3>1
    <3>2. CASE s = t BY <1>10, <1>12, <3>2 DEF ShownOf
    <3> QED BY <3>1, <3>2
  <2> QED BY <1>2, <1>3, <2>1, FollowsSilently
<1>17. Grows BY <1>3 DEF Grows
<1>18. disposed' => states' = {} BY <1>1
<1> QED BY <1>4, <1>14, <1>15, <1>16, <1>17, <1>18 DEF InboxesInv

\* es tells the mutations E, each of another session.
Tells(es, E) ==
  /\ OneEach(es) /\ \A i \in DOMAIN es : es[i] \in E
  /\ \A e \in E : \E i \in DOMAIN es : es[i] = e

LEMMA TellsNone == Tells(<<>>, {})
BY DEF Tells, OneEach

LEMMA TellsOne == \A e : Tells(<<e>>, {e})
<1> SUFFICES ASSUME NEW e PROVE Tells(<<e>>, {e}) OBVIOUS
<1>1. PICK es : es = <<e>> OBVIOUS
<1>2. DOMAIN es = {1} /\ es[1] = e BY <1>1
<1> QED BY <1>1, <1>2 DEF Tells, OneEach

LEMMA TellsTwo == \A e, f : e.session # f.session => Tells(<<e, f>>, {e, f})
<1> SUFFICES ASSUME NEW e, NEW f, e.session # f.session PROVE Tells(<<e, f>>, {e, f}) OBVIOUS
<1>1. PICK es : es = <<e, f>> OBVIOUS
<1>2. DOMAIN es = {1, 2} /\ es[1] = e /\ es[2] = f BY <1>1
<1> QED BY <1>1, <1>2 DEF Tells, OneEach

LEMMA TellsConcat ==
  ASSUME NEW A, NEW B, NEW a, NEW b, A = <<>> \/ A = <<a>>, B = <<>> \/ B = <<b>>, a.session # b.session
  PROVE  Tells(A \o B, (IF A = <<>> THEN {} ELSE {a}) \cup (IF B = <<>> THEN {} ELSE {b}))
<1>1. <<a>> # <<>> /\ <<b>> # <<>> OBVIOUS
<1>2. CASE A = <<>> /\ B = <<>>
  <2>1. A \o B = <<>> BY <1>2
  <2> QED BY <1>2, <2>1, TellsNone
<1>3. CASE A = <<a>> /\ B = <<>>
  <2>1. A \o B = <<a>> BY <1>3
  <2>2. {a} \cup {} = {a} OBVIOUS
  <2> QED BY <1>1, <1>3, <2>1, <2>2, TellsOne
<1>4. CASE A = <<>> /\ B = <<b>>
  <2>1. A \o B = <<b>> BY <1>4
  <2>2. {} \cup {b} = {b} OBVIOUS
  <2> QED BY <1>1, <1>4, <2>1, <2>2, TellsOne
<1>5. CASE A = <<a>> /\ B = <<b>>
  <2>1. PICK es : es = <<a>> \o <<b>> OBVIOUS
  <2>2. DOMAIN (<<a>> \o <<b>>) = {1, 2} OBVIOUS
  <2>3. (<<a>> \o <<b>>)[1] = a OBVIOUS
  <2>4. (<<a>> \o <<b>>)[2] = b OBVIOUS
  <2>5. DOMAIN es = {1, 2} /\ es[1] = a /\ es[2] = b BY ONLY <2>1, <2>2, <2>3, <2>4
  <2>6. Tells(es, {a, b}) BY <2>5 DEF Tells, OneEach
  <2>7. {a} \cup {b} = {a, b} OBVIOUS
  <2>8. A \o B = es BY ONLY <1>5, <2>1
  <2> QED BY <1>1, <1>5, <2>6, <2>7, <2>8
<1> QED BY <1>2, <1>3, <1>4, <1>5

LEMMA PublishTells ==
  ASSUME NEW es, NEW E, Tells(es, E), Publish(es)
  PROVE  /\ events' = es
         /\ \A s \in Sessions : (\A e \in E : e.session # s) => lastRevision'[s] = lastRevision[s] /\ lastWatermark'[s] = lastWatermark[s]
         /\ \A s \in Sessions, e \in E : e.session = s => lastRevision'[s] = e.revision /\ lastWatermark'[s] = e.watermark
<1>1. OneEach(es) BY DEF Tells
<1>2. \A s \in Sessions : (\A e \in E : e.session # s) => NoEventOf(es, s) BY DEF Tells, NoEventOf
<1>3. \A e \in E : \E i \in DOMAIN es : es[i] = e BY DEF Tells
<1>4. /\ events' = es
      /\ \A s \in Sessions : NoEventOf(es, s) => lastRevision'[s] = lastRevision[s] /\ lastWatermark'[s] = lastWatermark[s]
      /\ \A s \in Sessions, i \in DOMAIN es :
           es[i].session = s => lastRevision'[s] = es[i].revision /\ lastWatermark'[s] = es[i].watermark
  BY <1>1, PublishIs
<1> QED BY <1>2, <1>3, <1>4

LEMMA FollowsIf ==
  ASSUME NEW es, NEW E, Tells(es, E), events' = es, NEW s,
         (\A e \in E : e.session # s) => ShownOf(inbox'[s]) = ShownOf(inbox[s]),
         \A e \in E : e.session = s => ShownOf(inbox'[s]) = Applied(e, ShownOf(inbox[s]), ShownOf(inbox'[s]))
  PROVE  FollowsAt(s)
<1>1. OneEach(es) BY DEF Tells
<1>2. CASE \E e \in E : e.session = s
  <2>1. PICK e \in E : e.session = s BY <1>2
  <2>2. PICK i \in DOMAIN es : es[i] = e BY DEF Tells
  <2>3. ShownOf(inbox'[s]) = Applied(es[i], ShownOf(inbox[s]), ShownOf(inbox'[s])) BY <2>1, <2>2
  <2> QED BY <1>1, <2>1, <2>2, <2>3, FollowsTold
<1>3. CASE \A e \in E : e.session # s
  <2>1. NoEventOf(es, s) BY <1>3 DEF Tells, NoEventOf
  <2> QED BY <1>3, <2>1, FollowsSilently
<1> QED BY <1>2, <1>3

LEMMA GrowsIf ==
  ASSUME NEW es, NEW E, Tells(es, E), events' = es, \A e \in E : e.revision > lastRevision[e.session]
  PROVE  Grows
BY DEF Tells, Grows

----------------------------------------------------------------------------
(* Inboxes: what is told of those that go *)

IsClear(e, s) ==
  /\ e.session = s /\ e.kind = "cleared" /\ inbox[s] # None
  /\ e.revision = inbox[s].revision + 1 /\ e.watermark = inbox[s].watermark

ClearEvent(s) == Mutation(s, "cleared", {}, {}, [inbox[s] EXCEPT !.buckets = <<>>])

LEMMA ClearIs ==
  ASSUME NEW s \in Sessions, SessionOK(s)
  PROVE  /\ Clear(s) = <<>> \/ Clear(s) = <<ClearEvent(s)>>
         /\ ClearEvent(s).session = s
         /\ Clear(s) # <<>> => IsClear(ClearEvent(s), s)
         /\ Clear(s) = <<>> => ShownOf(inbox[s]) = Nothing
<1>1. inbox[s] # None => ClearEvent(s).revision = inbox[s].revision + 1 /\ ClearEvent(s).watermark = inbox[s].watermark
  BY DEF ClearEvent, Mutation, SessionOK, Projection
<1>2. ClearEvent(s).session = s /\ ClearEvent(s).kind = "cleared" BY DEF ClearEvent, Mutation
<1>3. Clear(s) = IF inbox[s] # None /\ Visible(inbox[s]) # Nothing THEN <<ClearEvent(s)>> ELSE <<>> BY DEF Clear, ClearEvent
<1>4. <<ClearEvent(s)>> # <<>> OBVIOUS
<1> QED BY <1>1, <1>2, <1>3, <1>4 DEF IsClear, ShownOf

Tellable(E, T) ==
  /\ \A e \in E : \E t \in T : IsClear(e, t)
  /\ \A t \in T : ShownOf(inbox[t]) # Nothing => \E e \in E : e.session = t

LEMMA ClearTells ==
  ASSUME NEW s \in Sessions, SessionOK(s)
  PROVE  \E E : Tells(Clear(s), E) /\ Tellable(E, {s})
<1>1. CASE Clear(s) = <<>>
  <2>1. Tellable({}, {s}) BY <1>1, ClearIs DEF Tellable
  <2> QED BY <1>1, <2>1, TellsNone
<1>2. CASE Clear(s) # <<>>
  <2>1. Clear(s) = <<ClearEvent(s)>> BY <1>2, ClearIs
  <2>2. Tellable({ClearEvent(s)}, {s}) BY <1>2, ClearIs DEF Tellable
  <2> QED BY <2>1, <2>2, TellsOne
<1> QED BY <1>1, <1>2

SessionsOf(x) == {t \in Sessions : OfState(t, x)}

LEMMA ClearStateTells ==
  ASSUME InboxesInv, NEW x \in states
  PROVE  \E E : Tells(ClearState(x), E) /\ Tellable(E, SessionsOf(x))
<1>1. /\ x.session \in Sessions /\ x.target \in Sessions \cup {None} /\ None \notin Sessions
      /\ \A s \in Sessions : SessionOK(s)
  BY InboxAssumption DEF InboxesInv, StatesOK, State
<1>2. CASE x.target \in {None, x.session}
  <2>1. SessionsOf(x) = {x.session} BY <1>1, <1>2 DEF SessionsOf, OfState
  <2>2. ClearState(x) = Clear(x.session)
    <3>1. ClearState(x) = Clear(x.session) \o <<>> BY <1>2 DEF ClearState
    <3>2. PICK e : Clear(x.session) = <<>> \/ Clear(x.session) = <<e>> BY <1>1, ClearIs
    <3> QED BY <3>1, <3>2
  <2> QED BY <1>1, <2>1, <2>2, ClearTells
<1>3. CASE x.target \notin {None, x.session}
  <2> DEFINE A == Clear(x.session)  B == Clear(x.target)  a == ClearEvent(x.session)  b == ClearEvent(x.target)
             E == (IF A = <<>> THEN {} ELSE {a}) \cup (IF B = <<>> THEN {} ELSE {b})
  <2>1. x.target \in Sessions /\ x.target # x.session BY <1>1, <1>3
  <2>2. ClearState(x) = A \o B BY <1>3 DEF ClearState
  <2>3. /\ A = <<>> \/ A = <<a>>
        /\ a.session = x.session
        /\ A # <<>> => IsClear(a, x.session)
        /\ A = <<>> => ShownOf(inbox[x.session]) = Nothing
    BY <1>1, ClearIs
  <2>4. /\ B = <<>> \/ B = <<b>>
        /\ b.session = x.target
        /\ B # <<>> => IsClear(b, x.target)
        /\ B = <<>> => ShownOf(inbox[x.target]) = Nothing
    BY <1>1, <2>1, ClearIs
  <2>5. SessionsOf(x) = {x.session, x.target} BY <1>1, <2>1 DEF SessionsOf, OfState
  <2> HIDE DEF A, B, a, b
  <2>6. Tells(A \o B, E) BY <2>1, <2>3, <2>4, TellsConcat
  <2>7. Tellable(E, {x.session, x.target}) BY <2>3, <2>4 DEF Tellable
  <2> HIDE DEF E
  <2> QED BY <2>2, <2>5, <2>6, <2>7
<1> QED BY <1>2, <1>3

\* What is told when inboxes T go, or begin anew
LEMMA ClearsFollow ==
  ASSUME InboxesInv, NEW es, NEW E, NEW T \in SUBSET Sessions, Tells(es, E), Publish(es), Tellable(E, T),
         \A s \in T : ShownOf(inbox'[s]) = Nothing,
         \A s \in Sessions \ T : ShownOf(inbox'[s]) = ShownOf(inbox[s])
  PROVE  /\ Followed /\ Grows
         /\ \A s \in Sessions : /\ lastRevision'[s] \in Nat /\ lastWatermark'[s] = lastWatermark[s]
                                /\ s \notin T => lastRevision'[s] = lastRevision[s]
<1>1. \A s \in Sessions : SessionOK(s) BY DEF InboxesInv
<1>2. \A s \in Sessions : lastRevision[s] \in Nat BY <1>1 DEF SessionOK
<1>3. \A e \in E : /\ e.session \in T /\ e.kind = "cleared" /\ e.revision = lastRevision[e.session] + 1
                   /\ e.watermark = lastWatermark[e.session]
  BY <1>1 DEF Tellable, IsClear, SessionOK
<1>4. /\ events' = es
      /\ \A s \in Sessions : (\A e \in E : e.session # s) => lastRevision'[s] = lastRevision[s] /\ lastWatermark'[s] = lastWatermark[s]
      /\ \A s \in Sessions, e \in E : e.session = s => lastRevision'[s] = e.revision /\ lastWatermark'[s] = e.watermark
  BY PublishTells
<1>5. Followed
  <2> SUFFICES ASSUME NEW s \in Sessions PROVE FollowsAt(s) BY DEF Followed
  <2>1. \A e \in E : e.session = s => ShownOf(inbox'[s]) = Applied(e, ShownOf(inbox[s]), ShownOf(inbox'[s]))
    BY <1>3 DEF Applied
  <2>2. (\A e \in E : e.session # s) => ShownOf(inbox'[s]) = ShownOf(inbox[s])
    BY DEF Tellable
  <2> QED BY <1>4, <2>1, <2>2, FollowsIf
<1>6. \A e \in E : e.revision > lastRevision[e.session] BY <1>2, <1>3
<1>7. Grows BY <1>4, <1>6, GrowsIf
<1>8. ASSUME NEW s \in Sessions
      PROVE  /\ lastRevision'[s] \in Nat /\ lastWatermark'[s] = lastWatermark[s]
             /\ s \notin T => lastRevision'[s] = lastRevision[s]
  <2>1. CASE \E e \in E : e.session = s
    <3>1. PICK e \in E : e.session = s BY <2>1
    <3>2. lastRevision'[s] = lastRevision[s] + 1 /\ lastWatermark'[s] = lastWatermark[s] /\ s \in T BY <1>3, <1>4, <3>1
    <3> QED BY <1>2, <3>2
  <2>2. CASE \A e \in E : e.session # s BY <1>2, <1>4, <2>2
  <2> QED BY <2>1, <2>2
<1> QED BY <1>5, <1>7, <1>8

\* What a step leaves alone, and what holds of the states after it
Around ==
  /\ NumbersOK' /\ disposed' = disposed /\ (disposed' => states' = {}) /\ discards <= discards' /\ nextOrder <= nextOrder'
  /\ gens' = gens /\ snapshot' = snapshot /\ StatesOK' /\ \A x \in states' : HasBuckets(x)'

\* The inboxes of T go, that of s changes, and others stay.
OthersGo(s, T) ==
  /\ s \in Sessions /\ StatesOf(s)' # {} /\ inbox[s] # None /\ T \in SUBSET (Sessions \ {s})
  /\ \A t \in T : inbox'[t] = None /\ owed'[t] = {} /\ StatesOf(t)' = {}
  /\ \A t \in Sessions \ T : t # s => inbox'[t] = inbox[t] /\ owed'[t] = owed[t] /\ (StatesOf(t)' = {} <=> StatesOf(t) = {})

\* The inbox of s becomes q, with c discards more.
Becomes(s, q, c) ==
  /\ q \in Projection /\ c \in Nat /\ q.revision = inbox[s].revision /\ q.watermark = inbox[s].watermark + c
  /\ Counts(q.buckets, owed'[s], gens', discards', nextOrder')
  /\ \A w \in Nat, k \in Nat :
       k <= discards /\ Acks(inbox[s].buckets, owed[s], w, k) /\ snapshot[s] # None
         /\ w = lastWatermark[s] - snapshot[s].watermark /\ k = snapshot[s].discards
       => Acks(q.buckets, owed'[s], w + c, k)

\* If it is told of, e tells it.
IsTold(s, q, c, tells, e) ==
  /\ tells \in BOOLEAN /\ e.session = s /\ e.revision = q.revision + 1 /\ e.watermark = q.watermark
  /\ tells => inbox'[s] = Revised(q) /\ Visible(q) = Applied(e, Visible(inbox[s]), Visible(q))
  /\ ~tells => inbox'[s] = q /\ Visible(q) = Visible(inbox[s]) /\ c = 0

\* es tells e, and E of those of T.
TellsAlso(es, E, T, tells, e) == Tellable(E, T) /\ Tells(es, E \cup (IF tells THEN {e} ELSE {})) /\ Publish(es)

LEMMA InboxChanges ==
  ASSUME InboxesInv, Around, NEW s, NEW T, NEW q, NEW c, NEW tells, NEW e, NEW es, NEW E,
         OthersGo(s, T), Becomes(s, q, c), IsTold(s, q, c, tells, e), TellsAlso(es, E, T, tells, e)
  PROVE  InboxesInv' /\ Followed /\ Grows
<1>a. /\ NumbersOK' /\ disposed' = disposed /\ (disposed' => states' = {}) /\ discards <= discards' /\ nextOrder <= nextOrder'
      /\ gens' = gens /\ snapshot' = snapshot /\ StatesOK' /\ \A x \in states' : HasBuckets(x)'
  BY DEF Around
<1>b. /\ s \in Sessions /\ StatesOf(s)' # {} /\ inbox[s] # None /\ T \in SUBSET (Sessions \ {s})
      /\ \A t \in T : inbox'[t] = None /\ owed'[t] = {} /\ StatesOf(t)' = {}
      /\ \A t \in Sessions \ T : t # s => inbox'[t] = inbox[t] /\ owed'[t] = owed[t] /\ (StatesOf(t)' = {} <=> StatesOf(t) = {})
  BY DEF OthersGo
<1>c. /\ q \in Projection /\ c \in Nat /\ q.revision = inbox[s].revision /\ q.watermark = inbox[s].watermark + c
      /\ Counts(q.buckets, owed'[s], gens', discards', nextOrder')
  BY DEF Becomes
<1>d. /\ tells \in BOOLEAN /\ e.session = s /\ e.revision = q.revision + 1 /\ e.watermark = q.watermark
      /\ tells => inbox'[s] = Revised(q) /\ Visible(q) = Applied(e, Visible(inbox[s]), Visible(q))
      /\ ~tells => inbox'[s] = q /\ Visible(q) = Visible(inbox[s]) /\ c = 0
  BY DEF IsTold
<1>e. Tellable(E, T) /\ Tells(es, E \cup (IF tells THEN {e} ELSE {})) /\ Publish(es) BY DEF TellsAlso
<1> USE <1>a, <1>b, <1>c, <1>d, <1>e
<1> DEFINE F == E \cup (IF tells THEN {e} ELSE {})
<1>1. /\ \A t \in Sessions : SessionOK(t) /\ AckOK(t)
      /\ NumbersOK
  BY DEF InboxesInv
<1>2. \A f \in E : \E t \in T : IsClear(f, t) BY DEF Tellable
<1>3. \A f \in E : f.session \in T /\ f.kind = "cleared" /\ f.revision = lastRevision[f.session] + 1 /\ f.watermark = lastWatermark[f.session]
  BY <1>1, <1>2 DEF IsClear, SessionOK
<1>4. /\ events' = es
      /\ \A t \in Sessions : (\A f \in F : f.session # t) => lastRevision'[t] = lastRevision[t] /\ lastWatermark'[t] = lastWatermark[t]
      /\ \A t \in Sessions, f \in F : f.session = t => lastRevision'[t] = f.revision /\ lastWatermark'[t] = f.watermark
  <2> HIDE DEF F
  <2> QED BY ONLY PublishTells, Tells(es, F), Publish(es) DEF F
<1>5. \A t \in Sessions : lastRevision[t] \in Nat /\ lastWatermark[t] \in Nat BY <1>1 DEF SessionOK
<1>6. /\ q.revision = lastRevision[s] /\ q.watermark = lastWatermark[s] + c
      /\ q.revision \in Nat /\ q.watermark \in Nat /\ q # None
  <2>1. inbox[s].revision = lastRevision[s] /\ inbox[s].watermark = lastWatermark[s] BY <1>1 DEF SessionOK
  <2> QED BY <2>1, ProjectionIs
<1>7. \A f \in E : f.session # s BY <1>3
<1>8. /\ lastWatermark'[s] = lastWatermark[s] + c
      /\ lastRevision'[s] = IF tells THEN q.revision + 1 ELSE q.revision
  <2>1. CASE tells
    <3>1. e \in F BY <2>1
    <3> HIDE DEF F
    <3> QED BY <1>4, <1>6, <2>1, <3>1
  <2>2. CASE ~tells
    <3>1. \A f \in F : f.session # s BY <1>7, <2>2
    <3> HIDE DEF F
    <3> QED BY <1>4, <1>5, <1>6, <2>2, <3>1
  <2> QED BY <2>1, <2>2
<1>9. ASSUME NEW t \in Sessions, t # s
      PROVE  /\ lastRevision'[t] \in Nat /\ lastWatermark'[t] = lastWatermark[t]
             /\ t \notin T => lastRevision'[t] = lastRevision[t]
  <2>0. \A f \in F : f \in E \/ f = e OBVIOUS
  <2>3. E \subseteq F OBVIOUS
  <2> HIDE DEF F
  <2>1. CASE \E f \in E : f.session = t BY <1>3, <1>4, <1>5, <2>1, <2>3
  <2>2. CASE \A f \in E : f.session # t
    <3>1. \A f \in F : f.session # t BY <1>9, <2>0, <2>2
    <3> QED BY <1>4, <1>5, <3>1
  <2> QED BY <2>1, <2>2
<1>10. PICK p : p = IF tells THEN Revised(q) ELSE q OBVIOUS
<1>11. /\ inbox'[s] = p /\ p \in Projection /\ p # None /\ p.buckets = q.buckets /\ Visible(p) = Visible(q)
       /\ p.revision = lastRevision'[s] /\ p.watermark = lastWatermark'[s]
  <2>1. CASE tells
    <3>1. p = Revised(q) /\ inbox'[s] = p BY <1>10, <2>1
    <3>2. p \in Projection /\ p.revision = q.revision + 1 /\ p.watermark = q.watermark /\ p.buckets = q.buckets
      BY ONLY <3>1, q \in Projection, ProjectionIs
    <3>3. p # None BY ONLY <3>2, ProjectionIs
    <3>4. Visible(p) = Visible(q) BY ONLY <3>2, SameVisible
    <3> QED BY ONLY <1>6, <1>8, <2>1, <3>1, <3>2, <3>3, <3>4
  <2>2. CASE ~tells
    <3>1. p = q /\ inbox'[s] = p BY <1>10, <2>2
    <3> QED BY ONLY <1>6, <1>8, <2>2, <3>1, q \in Projection
  <2> QED BY <2>1, <2>2
<1>12. SessionOK(s)'
  <2>1. Counts(p.buckets, owed'[s], gens', discards', nextOrder') BY <1>11
  <2> QED BY ONLY <1>11, <2>1, s \in Sessions, StatesOf(s)' # {}, SessionChanges
<1>13. AckOK(s)'
  <2>1. snapshot'[s] = snapshot[s] OBVIOUS
  <2>2. ASSUME NEW w \in Nat, NEW k \in Nat, k <= discards, inbox[s] # None => Acks(inbox[s].buckets, owed[s], w, k),
                snapshot[s] # None, w = lastWatermark[s] - snapshot[s].watermark, k = snapshot[s].discards
        PROVE  Acks(p.buckets, owed'[s], w + c, k)
    <3>1. Acks(q.buckets, owed'[s], w + c, k) BY <2>2 DEF Becomes
    <3> QED BY <1>11, <3>1
  <2> QED BY ONLY <1>1, <1>5, <1>8, <1>11, <2>1, <2>2, s \in Sessions, c \in Nat, NumbersOK', disposed' = disposed, discards <= discards', AcksGrow
<1>14. ASSUME NEW t \in Sessions PROVE SessionOK(t)' /\ AckOK(t)'
  <2>0. gens <= gens' /\ snapshot'[t] = snapshot[t] BY <1>1 DEF NumbersOK
  <2>1. CASE t = s BY <1>12, <1>13, <2>1
  <2>2. CASE t \in T
    <3>1. t # s /\ inbox'[t] = None /\ owed'[t] = {} /\ StatesOf(t)' = {} BY <2>2
    <3>2. lastRevision'[t] \in Nat /\ lastWatermark'[t] = lastWatermark[t] BY <1>9, <3>1
    <3> QED BY ONLY <1>1, <2>0, <3>1, <3>2, t \in Sessions, NumbersOK', disposed' = disposed, discards <= discards', SessionCloses
  <2>3. CASE t \notin T /\ t # s
    <3>1. inbox'[t] = inbox[t] /\ owed'[t] = owed[t] /\ (StatesOf(t)' = {} <=> StatesOf(t) = {}) BY <2>3
    <3>2. lastRevision'[t] = lastRevision[t] /\ lastWatermark'[t] = lastWatermark[t] BY <1>9, <2>3
    <3> QED BY ONLY <1>1, <2>0, <3>1, <3>2, t \in Sessions, NumbersOK', disposed' = disposed, discards <= discards', nextOrder <= nextOrder', SessionStays
  <2> QED BY <2>1, <2>2, <2>3
<1>15. Followed
  <2> SUFFICES ASSUME NEW t \in Sessions PROVE FollowsAt(t) BY DEF Followed
  <2>0. \A f \in F : f \in E \/ (tells /\ f = e) OBVIOUS
  <2>4. Tells(es, F) OBVIOUS
  <2>7. E \subseteq F /\ (tells => e \in F) OBVIOUS
  <2> HIDE DEF F
  <2>1. (\A f \in F : f.session # t) => ShownOf(inbox'[t]) = ShownOf(inbox[t])
    <3> SUFFICES ASSUME \A f \in F : f.session # t PROVE ShownOf(inbox'[t]) = ShownOf(inbox[t]) OBVIOUS
    <3>1. CASE t = s
      <4>1. ~tells BY <2>7, <3>1
      <4> QED BY <1>11, <3>1, <4>1 DEF ShownOf
    <3>2. CASE t \in T
      <4>1. ShownOf(inbox[t]) = Nothing BY <2>7, <3>2 DEF Tellable
      <4> QED BY <3>2, <4>1 DEF ShownOf
    <3>3. CASE t \notin T /\ t # s BY <3>3
    <3> QED BY <3>1, <3>2, <3>3
  <2>2. \A f \in F : f.session = t => ShownOf(inbox'[t]) = Applied(f, ShownOf(inbox[t]), ShownOf(inbox'[t]))
    <3> SUFFICES ASSUME NEW f \in F, f.session = t
                 PROVE  ShownOf(inbox'[t]) = Applied(f, ShownOf(inbox[t]), ShownOf(inbox'[t]))
      OBVIOUS
    <3>1. CASE f \in E
      <4>1. t \in T /\ f.kind = "cleared" BY <1>3, <3>1
      <4>2. ShownOf(inbox'[t]) = Nothing BY <4>1 DEF ShownOf
      <4> QED BY <4>1, <4>2 DEF Applied
    <3>2. CASE tells /\ f = e
      <4>1. t = s BY <3>2
      <4>2. ShownOf(inbox'[s]) = Visible(q) /\ ShownOf(inbox[s]) = Visible(inbox[s]) BY <1>11 DEF ShownOf
      <4> QED BY <3>2, <4>1, <4>2
    <3> QED BY <2>0, <3>1, <3>2
  <2> QED BY ONLY <1>4, <2>1, <2>2, <2>4, FollowsIf
<1>16. Grows
  <2>1. \A f \in F : f.revision > lastRevision[f.session]
    <3>1. \A f \in E : f.revision > lastRevision[f.session] BY <1>3, <1>5
    <3>2. e.revision > lastRevision[e.session] BY <1>6
    <3> QED BY <3>1, <3>2
  <2>2. Tells(es, F) OBVIOUS
  <2> HIDE DEF F
  <2> QED BY ONLY <1>4, <2>1, <2>2, GrowsIf
<1> QED BY ONLY <1>14, <1>15, <1>16, NumbersOK', StatesOK', \A x \in states' : HasBuckets(x)', disposed' => states' = {} DEF InboxesInv

\* The generations of the buckets stay, and so do the states.
LEMMA StatesStay ==
  ASSUME InboxesInv, states' = states, gens' = gens, NEW s \in Sessions, NEW b, inbox'[s] # None, inbox'[s].buckets = b,
         Len(b) = Len(inbox[s].buckets), b[1].gen = inbox[s].buckets[1].gen, Len(b) = 2 => b[2].gen = inbox[s].buckets[2].gen,
         \A t \in Sessions : t # s => inbox'[t] = inbox[t]
  PROVE  StatesOK' /\ (\A x \in states' : HasBuckets(x)') /\ \A t : StatesOf(t)' = StatesOf(t)
<1>1. StatesOK /\ (\A x \in states : HasBuckets(x) /\ x.session \in Sessions /\ x.target \in Sessions \cup {None})
  BY DEF InboxesInv, StatesOK, State
<1>2. StatesOK' /\ \A t : StatesOf(t)' = StatesOf(t) BY <1>1 DEF StatesOK, StatesOf
<1>3. ASSUME NEW x \in states PROVE HasBuckets(x)'
  <2>1. HasBuckets(x) /\ x.session \in Sessions /\ x.target \in Sessions \cup {None} BY <1>1
  <2>2. ASSUME NEW t \in Sessions, inbox[t] # None
        PROVE  /\ inbox'[t] # None /\ Len(inbox'[t].buckets) = Len(inbox[t].buckets)
               /\ inbox'[t].buckets[1].gen = inbox[t].buckets[1].gen
               /\ Len(inbox[t].buckets) = 2 => inbox'[t].buckets[2].gen = inbox[t].buckets[2].gen
    <3>1. CASE t = s BY <3>1
    <3>2. CASE t # s BY <2>2, <3>2
    <3> QED BY <3>1, <3>2
  <2> QED BY ONLY <2>1, <2>2 DEF HasBuckets
<1> QED BY <1>2, <1>3

LEMMA CloseKeeps ==
  ASSUME InboxesInv, NEW x \in states, Close(x)
  PROVE  InboxesInv' /\ Followed /\ Grows
<1> DEFINE T == SessionsOf(x)
<1>1. /\ NumbersOK /\ StatesOK /\ \A s \in Sessions : SessionOK(s) /\ AckOK(s)
      /\ states' = (states \ {x}) \cup {} /\ Publish(ClearState(x))
      /\ UNCHANGED <<gens, nextOrder, disposed, snapshot, discards>>
  BY DEF InboxesInv, Close, issued
<1>2. T \in SUBSET Sessions BY DEF SessionsOf
<1>3. /\ \A s \in T : inbox'[s] = None /\ owed'[s] = {}
      /\ \A s \in Sessions \ T : inbox'[s] = inbox[s] /\ owed'[s] = owed[s]
      /\ DOMAIN inbox' = Sessions /\ DOMAIN owed' = Sessions
  BY DEF Close, SessionsOf, OfState
<1>4. NumbersOK' /\ discards <= discards' /\ nextOrder <= nextOrder' /\ gens <= gens' /\ gens' \in Nat BY <1>1, <1>3 DEF NumbersOK
<1>5. PICK E : Tells(ClearState(x), E) /\ Tellable(E, T)
  <2> HIDE DEF T
  <2> QED BY ClearStateTells DEF T
<1>6. /\ Followed /\ Grows
      /\ \A s \in Sessions : /\ lastRevision'[s] \in Nat /\ lastWatermark'[s] = lastWatermark[s]
                             /\ s \notin T => lastRevision'[s] = lastRevision[s]
  <2>1. \A s \in T : ShownOf(inbox'[s]) = Nothing BY <1>3 DEF ShownOf
  <2>2. \A s \in Sessions \ T : ShownOf(inbox'[s]) = ShownOf(inbox[s]) BY <1>3
  <2>3. PICK es : es = ClearState(x) OBVIOUS
  <2>4. Tells(es, E) /\ Publish(es) BY <1>1, <1>5, <2>3
  <2> HIDE DEF T
  <2> QED BY ONLY <1>2, <1>5, <2>1, <2>2, <2>4, InboxesInv, ClearsFollow
<1>7. /\ StatesOK' /\ \A z \in states' : HasBuckets(z)'
      /\ \A s \in Sessions \ T : StatesOf(s)' = StatesOf(s)
      /\ \A s \in T : StatesOf(s)' = {}
  <2>1. \A y \in {}, s \in Sessions : OfState(s, y) => StatesOf(s) \subseteq {x} OBVIOUS
  <2>2. \A s \in Sessions : (\A z \in {x} \cup {} : ~OfState(s, z)) => inbox'[s] = inbox[s] BY <1>3 DEF SessionsOf
  <2>3. /\ StatesOK' /\ \A z \in states' : HasBuckets(z)'
        /\ \A s \in Sessions : (\A z \in {x} \cup {} : ~OfState(s, z)) => StatesOf(s)' = StatesOf(s)
        /\ \A s \in Sessions : StatesOf(s) \subseteq {x} /\ (\A y \in {} : ~OfState(s, y)) => StatesOf(s)' = {}
    <3>1. {x} \in SUBSET states /\ {} \in SUBSET State OBVIOUS
    <3> QED BY <1>1, <1>4, <2>1, <2>2, <3>1, StatesMove
  <2>4. \A s \in T : StatesOf(s) = {x}
    <3> SUFFICES ASSUME NEW s \in T PROVE StatesOf(s) = {x} OBVIOUS
    <3>1. s \in Sessions /\ x \in StatesOf(s) BY DEF SessionsOf, OfState, StatesOf
    <3> QED BY <1>1, <3>1, OneState
  <2> QED BY <1>2, <2>3, <2>4 DEF SessionsOf
<1>8. ASSUME NEW s \in Sessions PROVE SessionOK(s)' /\ AckOK(s)'
  <2>1. SessionOK(s) /\ AckOK(s) /\ snapshot'[s] = snapshot[s] /\ disposed' = disposed BY <1>1
  <2> HIDE DEF T
  <2>2. CASE s \in T
    <3>1. inbox'[s] = None /\ owed'[s] = {} /\ StatesOf(s)' = {} BY <1>3, <1>7, <2>2
    <3>2. lastRevision'[s] \in Nat /\ lastWatermark'[s] = lastWatermark[s] BY <1>6
    <3> QED BY ONLY <1>1, <1>4, <2>1, <3>1, <3>2, s \in Sessions, SessionCloses
  <2>3. CASE s \notin T
    <3>1. inbox'[s] = inbox[s] /\ owed'[s] = owed[s] /\ (StatesOf(s)' = {} <=> StatesOf(s) = {}) BY <1>3, <1>7, <2>3
    <3>2. lastRevision'[s] = lastRevision[s] /\ lastWatermark'[s] = lastWatermark[s] BY <1>6, <2>3
    <3> QED BY ONLY <1>1, <1>4, <2>1, <3>1, <3>2, s \in Sessions, SessionStays
  <2> QED BY <2>2, <2>3
<1>9. disposed' => states' = {} BY <1>1 DEF InboxesInv
<1> QED BY <1>4, <1>6, <1>7, <1>8, <1>9 DEF InboxesInv

LEMMA DisposeKeeps ==
  ASSUME InboxesInv, Dispose
  PROVE  InboxesInv' /\ disposed'
<1>1. /\ NumbersOK /\ \A s \in Sessions : AckOK(s)
      /\ states' = {} /\ disposed' = TRUE /\ UNCHANGED <<gens, nextOrder, snapshot, discards>>
      /\ inbox' = [s \in Sessions |-> None] /\ owed' = [s \in Sessions |-> {}]
      /\ lastRevision' = [s \in Sessions |-> 0] /\ lastWatermark' = [s \in Sessions |-> 0]
  BY DEF InboxesInv, Dispose, issued
<1>2. NumbersOK' BY <1>1 DEF NumbersOK
<1>3. StatesOK' BY <1>1 DEF StatesOK
<1>4. \A s \in Sessions : SessionOK(s)' BY <1>1 DEF SessionOK, StatesOf
<1>5. \A s \in Sessions : AckOK(s)' BY <1>1 DEF AckOK
<1> QED BY <1>1, <1>2, <1>3, <1>4, <1>5 DEF InboxesInv

LEMMA RegisterKeeps ==
  ASSUME InboxesInv, NEW s \in Sessions, Register(s)
  PROVE  InboxesInv' /\ Followed /\ Grows
<1> DEFINE old == StatesOf(s)  left == {t \in Sessions : \E x \in old : t \in {x.session, x.target}}
           T == left \cup {s}
           es == IF old = {} THEN <<>> ELSE ClearState(CHOOSE x \in old : TRUE)
<1>1. /\ NumbersOK /\ StatesOK /\ \A t \in Sessions : SessionOK(t) /\ AckOK(t)
      /\ ~disposed /\ gens < MaxGens /\ gens' = gens + 1
      /\ UNCHANGED <<nextOrder, disposed, snapshot, discards>>
  BY DEF InboxesInv, Register, NextGeneration
<1>2. /\ states' = (states \ old) \cup {[gen |-> gens + 1, session |-> s, candidate |-> None, target |-> None]}
      /\ Publish(es)
      /\ inbox' = [t \in Sessions |-> IF t = s THEN Fresh(s) ELSE IF t \in left THEN None ELSE inbox[t]]
      /\ owed' = [t \in Sessions |-> IF t \in left \cup {s} THEN {} ELSE owed[t]]
  BY DEF Register
<1>3. NumbersOK' /\ gens \in Nat /\ gens + 1 \in Gens /\ gens <= gens' /\ gens' \in Nat /\ discards <= discards'
      /\ nextOrder <= nextOrder' /\ discards \in Nat /\ nextOrder \in Nat
  BY <1>1, <1>2, InboxAssumption DEF NumbersOK, Gens
<1>4. PICK y : y = [gen |-> gens + 1, session |-> s, candidate |-> None, target |-> None] OBVIOUS
<1>5. y \in State /\ y.gen = gens + 1 /\ y.session = s /\ y.candidate = None /\ y.target = None BY <1>3, <1>4 DEF State
<1>6. states' = (states \ old) \cup {y} BY <1>2, <1>4
<1>7. /\ \A t \in left : t # s => inbox'[t] = None /\ owed'[t] = {}
      /\ \A t \in Sessions \ T : inbox'[t] = inbox[t] /\ owed'[t] = owed[t]
      /\ inbox'[s] = Fresh(s) /\ owed'[s] = {} /\ T \in SUBSET Sessions
  BY <1>2
<1>8. old = {} \/ \E x \in states : old = {x}
  <2>1. \A x \in old : old = {x} /\ x \in states BY <1>1, OneState DEF StatesOf
  <2> QED BY <2>1
<1>9. PICK E : Tells(es, E) /\ Tellable(E, T)
  <2>1. CASE old = {}
    <3>1. T = {s} /\ es = <<>> BY <2>1
    <3>2. SessionOK(s) BY <1>1
    <3>3. inbox[s] = None BY <2>1, <3>2 DEF SessionOK
    <3>4. Tellable({}, {s}) BY <3>3 DEF Tellable, ShownOf
    <3> HIDE DEF T, es
    <3> QED BY <3>1, <3>4, TellsNone
  <2>2. CASE old # {}
    <3>1. PICK x \in states : old = {x} BY <1>8, <2>2
    <3>2. es = ClearState(x)
      <4>1. (CHOOSE z \in old : TRUE) = x BY <3>1
      <4> QED BY <2>2, <4>1
    <3>3. T = SessionsOf(x)
      <4>1. x \in StatesOf(s) BY <3>1
      <4>2. s \in {x.session, x.target} BY <4>1 DEF StatesOf
      <4>3. left = {t \in Sessions : t \in {x.session, x.target}} BY <3>1
      <4> QED BY <4>2, <4>3 DEF SessionsOf, OfState
    <3> HIDE DEF T, es
    <3> QED BY <3>2, <3>3, ClearStateTells
  <2> QED BY <2>1, <2>2
<1> HIDE DEF T, es
<1>10. PICK p : p = inbox'[s] OBVIOUS
<1>11. \A t \in Sessions : lastRevision[t] \in Nat /\ lastWatermark[t] \in Nat BY <1>1 DEF SessionOK
<1>12. lastRevision'[s] \in Nat /\ lastWatermark'[s] = lastWatermark[s]
  <2>1. \A e \in E : \E t \in T : IsClear(e, t) BY <1>9 DEF Tellable
  <2>2. \A e \in E : e.revision = lastRevision[e.session] + 1 /\ e.watermark = lastWatermark[e.session] /\ e.session \in Sessions
    BY <1>1, <1>7, <2>1 DEF IsClear, SessionOK
  <2>3. /\ (\A e \in E : e.session # s) => lastRevision'[s] = lastRevision[s] /\ lastWatermark'[s] = lastWatermark[s]
        /\ \A e \in E : e.session = s => lastRevision'[s] = e.revision /\ lastWatermark'[s] = e.watermark
    BY <1>2, <1>9, PublishTells
  <2> QED BY <1>11, <2>2, <2>3
<1>13. /\ p \in Projection /\ p.revision = lastRevision'[s] /\ p.watermark = lastWatermark'[s] /\ p # None
       /\ p.buckets = <<EmptyBucket(gens + 1)>> /\ Len(p.buckets) = 1 /\ p.buckets[1].gen = gens + 1 /\ Visible(p) = Nothing
  <2>1. p = [revision |-> lastRevision'[s], watermark |-> lastWatermark'[s], buckets |-> <<EmptyBucket(gens + 1)>>]
    BY <1>7, <1>10 DEF Fresh
  <2>2. lastWatermark'[s] \in Nat BY <1>11, <1>12
  <2>3. PICK r \in Nat : r = lastRevision'[s] BY <1>12
  <2>4. PICK w \in Nat : w = lastWatermark'[s] BY <2>2
  <2>5. PICK n \in Gens : n = gens + 1 BY <1>3
  <2>6. p = [revision |-> r, watermark |-> w, buckets |-> <<EmptyBucket(n)>>] BY <2>1, <2>3, <2>4, <2>5
  <2> QED BY ONLY <2>3, <2>4, <2>5, <2>6, FreshIs
<1>14. /\ Counts(p.buckets, {}, gens + 1, discards, nextOrder)
       /\ \A w \in Nat, k \in Nat : Acks(p.buckets, {}, w, k)
  BY <1>3, <1>13, FreshCounts
<1>15. /\ Followed /\ Grows
       /\ \A t \in Sessions : /\ lastRevision'[t] \in Nat /\ lastWatermark'[t] = lastWatermark[t]
                              /\ t \notin T => lastRevision'[t] = lastRevision[t]
  <2>1. \A t \in T : ShownOf(inbox'[t]) = Nothing
    <3> SUFFICES ASSUME NEW t \in T PROVE ShownOf(inbox'[t]) = Nothing OBVIOUS
    <3>1. CASE t = s BY <1>10, <1>13, <3>1 DEF ShownOf
    <3>2. CASE t # s BY <1>7, <3>2 DEF ShownOf, T
    <3> QED BY <3>1, <3>2
  <2>2. \A t \in Sessions \ T : ShownOf(inbox'[t]) = ShownOf(inbox[t]) BY <1>7
  <2>3. T \in SUBSET Sessions /\ Publish(es) BY <1>2, <1>7
  <2> QED BY ONLY <1>9, <2>1, <2>2, <2>3, InboxesInv, ClearsFollow
<1>16. HasBuckets(y)'
  <2>1. inbox'[s] = p /\ p # None /\ p.buckets[1].gen = gens + 1 /\ Len(p.buckets) = 1 BY <1>10, <1>13
  <2>2. s # None BY InboxAssumption
  <2> QED BY <1>5, <2>1, <2>2 DEF HasBuckets
<1>17. /\ StatesOK' /\ \A z \in states' : HasBuckets(z)'
       /\ \A t \in Sessions \ T : StatesOf(t)' = StatesOf(t)
       /\ \A t \in T : t # s => StatesOf(t)' = {}
       /\ StatesOf(s)' # {}
  <2>1. \A z \in {y} : /\ z.gen <= gens' /\ (z.candidate = None <=> z.target = None)
                       /\ z.candidate # None => z.gen < z.candidate /\ z.candidate <= gens'
                       /\ HasBuckets(z)'
    BY <1>1, <1>3, <1>5, <1>16
  <2>2. \A t \in Sessions : OfState(t, y) <=> t = s
    <3>1. None \notin Sessions BY InboxAssumption
    <3> QED BY <1>5, <3>1 DEF OfState
  <2>3. \A z \in {y}, t \in Sessions : OfState(t, z) => StatesOf(t) \subseteq old BY <2>2
  <2>4. \A t \in Sessions : t \in T <=> t = s \/ \E x \in old : OfState(t, x) BY DEF T, OfState
  <2>5. \A t \in Sessions : (\A z \in old \cup {y} : ~OfState(t, z)) => inbox'[t] = inbox[t] BY <1>7, <2>2, <2>4
  <2>6. /\ StatesOK' /\ \A z \in states' : HasBuckets(z)'
        /\ \A t \in Sessions : (\A z \in old \cup {y} : ~OfState(t, z)) => StatesOf(t)' = StatesOf(t)
        /\ \A t \in Sessions, z \in {y} : OfState(t, z) => StatesOf(t)' # {}
        /\ \A t \in Sessions : StatesOf(t) \subseteq old /\ (\A z \in {y} : ~OfState(t, z)) => StatesOf(t)' = {}
    <3>1. old \in SUBSET states /\ {y} \in SUBSET State /\ \A u, v \in {y} : u = v BY <1>5 DEF StatesOf
    <3> HIDE DEF old
    <3> QED BY <1>3, <1>6, <2>1, <2>3, <2>5, <3>1, StatesMove
  <2>7. \A t \in T : t # s => StatesOf(t) \subseteq old
    <3> SUFFICES ASSUME NEW t \in T, t # s PROVE StatesOf(t) \subseteq old OBVIOUS
    <3>1. PICK x \in old : OfState(t, x) BY <1>7, <2>4
    <3>2. x \in StatesOf(t) /\ t \in Sessions BY <1>7, <3>1 DEF StatesOf, OfState
    <3>3. StatesOf(t) = {x} BY <1>1, <3>2, OneState
    <3> QED BY <3>1, <3>3
  <2> HIDE DEF old
  <2> QED BY <1>7, <2>2, <2>4, <2>6, <2>7
<1>18. ASSUME NEW t \in Sessions PROVE SessionOK(t)' /\ AckOK(t)'
  <2>1. SessionOK(t) /\ AckOK(t) /\ snapshot'[t] = snapshot[t] /\ disposed' = disposed BY <1>1
  <2>2. CASE t = s
    <3>1. SessionOK(s)'
      <4>1. Counts(p.buckets, owed'[s], gens', discards', nextOrder') BY <1>1, <1>7, <1>14
      <4> QED BY ONLY <1>10, <1>13, <1>17, <4>1, s \in Sessions, SessionChanges
    <3>2. ASSUME NEW w \in Nat, NEW k \in Nat, k <= discards, inbox[s] # None => Acks(inbox[s].buckets, owed[s], w, k),
                 snapshot[s] # None, w = lastWatermark[s] - snapshot[s].watermark, k = snapshot[s].discards
          PROVE  Acks(p.buckets, owed'[s], w + 0, k)
      <4>1. w + 0 = w BY <3>2
      <4> QED BY <1>7, <1>14, <4>1
    <3>3. lastWatermark[s] \in Nat /\ lastWatermark'[s] = lastWatermark[s] + 0 BY <1>11, <1>12
    <3>4. AckOK(s)' BY ONLY <1>1, <1>3, <1>10, <2>1, <2>2, <3>2, <3>3, s \in Sessions, AcksGrow
    <3> QED BY <2>2, <3>1, <3>4
  <2>3. CASE t \in T /\ t # s
    <3>1. inbox'[t] = None /\ owed'[t] = {} /\ StatesOf(t)' = {} BY <1>7, <1>17, <2>3 DEF T
    <3>2. lastRevision'[t] \in Nat /\ lastWatermark'[t] = lastWatermark[t] BY <1>15
    <3> QED BY ONLY <1>1, <1>3, <2>1, <3>1, <3>2, t \in Sessions, SessionCloses
  <2>4. CASE t \notin T
    <3>1. inbox'[t] = inbox[t] /\ owed'[t] = owed[t] /\ (StatesOf(t)' = {} <=> StatesOf(t) = {}) BY <1>7, <1>17, <2>4
    <3>2. lastRevision'[t] = lastRevision[t] /\ lastWatermark'[t] = lastWatermark[t] BY <1>15, <2>4
    <3> QED BY ONLY <1>1, <1>3, <2>1, <3>1, <3>2, t \in Sessions, SessionStays
  <2> QED BY <2>2, <2>3, <2>4 DEF T
<1> QED BY <1>1, <1>3, <1>15, <1>17, <1>18 DEF InboxesInv

LEMMA MaxIsNat ==
  ASSUME NEW E \in SUBSET Orders
  PROVE  Max({0} \cup E) \in Nat
<1> DEFINE S == {0} \cup E
<1>1. \A n \in E : n \in Nat BY OrdersAreFinite
<1>2. \E n \in S : \A k \in S : n >= k
  <2>1. CASE E = {} BY <2>1
  <2>2. CASE E # {}
    <3>1. PICK n \in E : \A k \in E : k <= n BY <2>2, LastOrder
    <3>2. \A k \in S : k \in Nat /\ n >= k BY <1>1, <3>1
    <3> QED BY <3>2
  <2> QED BY <2>1, <2>2
<1>3. S \subseteq Nat BY <1>1
<1> HIDE DEF S
<1>4. Max(S) \in S BY <1>2 DEF Max
<1> QED BY <1>3, <1>4 DEF S

LEMMA ReadKeeps ==
  ASSUME InboxesInv, NEW s \in Sessions, Read(s)
  PROVE  InboxesInv' /\ Followed /\ Grows
<1>1. /\ NumbersOK /\ StatesOK /\ (\A x \in states : HasBuckets(x)) /\ (\A t \in Sessions : SessionOK(t) /\ AckOK(t))
      /\ inbox[s] # None /\ Publish(<<>>) /\ (disposed => states = {})
      /\ states' = states /\ inbox' = inbox /\ nextOrder' = nextOrder /\ gens' = gens /\ disposed' = disposed
      /\ discards' = discards /\ owed' = owed
      /\ snapshot' = [snapshot EXCEPT ![s] =
           [order |-> Max({0} \cup Retained(inbox[s])), watermark |-> inbox[s].watermark, discards |-> discards]]
  BY DEF InboxesInv, Read, issued
<1>2. /\ events' = <<>> /\ \A t \in Sessions : lastRevision'[t] = lastRevision[t] /\ lastWatermark'[t] = lastWatermark[t]
  <2>1. OneEach(<<>>) /\ \A t : NoEventOf(<<>>, t) BY DEF OneEach, NoEventOf
  <2> QED BY <1>1, <2>1, PublishIs
<1>3. Followed
  <2>1. \A t : NoEventOf(<<>>, t) BY DEF NoEventOf
  <2> QED BY <1>1, <1>2, <2>1, FollowsSilently DEF Followed
<1>4. Grows BY <1>2 DEF Grows
<1>5. NumbersOK' BY <1>1 DEF NumbersOK
<1>6. StatesOK' /\ (\A x \in states' : HasBuckets(x)') /\ \A t : StatesOf(t)' = StatesOf(t)
  <2>1. StatesOK' BY <1>1 DEF StatesOK
  <2>2. \A x \in states' : HasBuckets(x)' BY <1>1 DEF HasBuckets
  <2>3. \A t : StatesOf(t)' = StatesOf(t) BY <1>1 DEF StatesOf
  <2> QED BY <2>1, <2>2, <2>3
<1>7. PICK z : z = [order |-> Max({0} \cup Retained(inbox[s])), watermark |-> inbox[s].watermark, discards |-> discards] OBVIOUS
<1>8. snapshot'[s] = z /\ \A t \in Sessions : t # s => snapshot'[t] = snapshot[t] BY <1>1, <1>7 DEF NumbersOK
<1>9. AckOK(s)'
  <2>1. /\ inbox[s] \in Projection /\ inbox[s].watermark = lastWatermark[s]
        /\ Counts(inbox[s].buckets, owed[s], gens, discards, nextOrder)
    BY <1>1 DEF SessionOK
  <2>2. discards \in Nat /\ lastWatermark[s] \in Nat BY <1>1 DEF NumbersOK, SessionOK
  <2>3. z.order \in Nat
    <3>1. inbox[s].buckets \in Buckets BY <2>1, ProjectionIs
    <3>2. Entries(inbox[s]) \in SUBSET Orders BY <3>1, EntriesAre
    <3>3. Retained(inbox[s]) \in SUBSET Orders BY <3>2, NewestIs DEF Retained
    <3> QED BY <1>7, <3>3, MaxIsNat
  <2>4. z.watermark = lastWatermark[s] /\ z.discards = discards BY <1>7, <2>1
  <2>5. Acks(inbox[s].buckets, owed[s], 0, discards)
    <3>1. Later(owed[s], discards) = {}
      <4>1. \A o \in owed[s] : o.number <= discards /\ o.number \in Nat BY <2>1 DEF Counts, OwedRecords
      <4> QED BY <2>2, <4>1 DEF Later
    <3>2. Total(inbox[s].buckets) \in Nat BY <2>1, BucketsAre DEF Counts
    <3> QED BY <3>1, <3>2, FS_EmptySet DEF Acks, Least
  <2>6. lastWatermark[s] - lastWatermark[s] = 0 BY <2>2
  <2> QED BY <1>1, <1>2, <1>8, <2>2, <2>3, <2>4, <2>5, <2>6 DEF AckOK
<1>10. \A t \in Sessions : SessionOK(t)'
  <2> SUFFICES ASSUME NEW t \in Sessions PROVE SessionOK(t)' OBVIOUS
  <2>1. SessionOK(t) BY <1>1
  <2> QED BY <1>1, <1>2, <1>6, <2>1 DEF SessionOK
<1>11. \A t \in Sessions : AckOK(t)'
  <2> SUFFICES ASSUME NEW t \in Sessions, t # s PROVE AckOK(t)' BY <1>9
  <2>1. AckOK(t) /\ snapshot'[t] = snapshot[t] BY <1>1, <1>8
  <2> QED BY <1>1, <1>2, <2>1 DEF AckOK
<1> QED BY <1>1, <1>3, <1>4, <1>5, <1>6, <1>10, <1>11 DEF InboxesInv

\* A replacement ends: the state x becomes y, of the same session or of the target.
LEMMA Replaces ==
  ASSUME InboxesInv, NEW x \in states, x.candidate # None, gens' = gens,
         NEW g \in Gens, g <= gens, NEW t \in {x.session, x.target}, NEW y, y = [gen |-> g, session |-> t, candidate |-> None, target |-> None],
         states' = (states \ {x}) \cup {y}, inbox'[t] # None, Len(inbox'[t].buckets) = 1, inbox'[t].buckets[1].gen = g,
         \A s \in Sessions : s \notin {x.session, x.target} => inbox'[s] = inbox[s]
  PROVE  /\ StatesOK' /\ (\A z \in states' : HasBuckets(z)') /\ t \in Sessions /\ x.target \in Sessions /\ x.session \in Sessions
         /\ StatesOf(t)' # {} /\ \A s \in {x.session, x.target} : s # t => StatesOf(s)' = {}
         /\ \A s \in Sessions : s \notin {x.session, x.target} => StatesOf(s)' = StatesOf(s)
<1>1. /\ StatesOK /\ gens \in Nat /\ None \notin Sessions /\ x \in State
  BY InboxAssumption DEF InboxesInv, StatesOK, NumbersOK
<1>2. x.session \in Sessions /\ x.target \in Sessions /\ t \in Sessions
  <2>1. x.target # None BY <1>1 DEF StatesOK
  <2> QED BY <1>1, <2>1 DEF State
<1>3. y \in State /\ y.gen = g /\ y.session = t /\ y.candidate = None /\ y.target = None BY <1>2 DEF State
<1>4. HasBuckets(y)'
  <2>1. t # None BY <1>1, <1>2
  <2> QED BY <1>3, <2>1 DEF HasBuckets
<1>5. \A s \in {x.session, x.target} : StatesOf(s) = {x}
  <2> SUFFICES ASSUME NEW s \in {x.session, x.target} PROVE StatesOf(s) = {x} OBVIOUS
  <2>1. s \in Sessions /\ x \in StatesOf(s) BY <1>2 DEF StatesOf
  <2> QED BY <1>1, <2>1, OneState
<1>6. \A s \in Sessions : (OfState(s, y) <=> s = t) /\ (OfState(s, x) <=> s \in {x.session, x.target})
  BY <1>1, <1>3 DEF OfState
<1>7. /\ StatesOK' /\ \A z \in states' : HasBuckets(z)'
      /\ \A s \in Sessions : (\A z \in {x} \cup {y} : ~OfState(s, z)) => StatesOf(s)' = StatesOf(s)
      /\ \A s \in Sessions, z \in {y} : OfState(s, z) => StatesOf(s)' # {}
      /\ \A s \in Sessions : StatesOf(s) \subseteq {x} /\ (\A z \in {y} : ~OfState(s, z)) => StatesOf(s)' = {}
  <2>1. \A z \in {y} : /\ z.gen <= gens' /\ (z.candidate = None <=> z.target = None)
                       /\ z.candidate # None => z.gen < z.candidate /\ z.candidate <= gens'
                       /\ HasBuckets(z)'
    BY <1>3, <1>4
  <2>2. \A z \in {y}, s \in Sessions : OfState(s, z) => StatesOf(s) \subseteq {x} BY <1>5, <1>6
  <2>3. \A s \in Sessions : (\A z \in {x} \cup {y} : ~OfState(s, z)) => inbox'[s] = inbox[s] BY <1>6
  <2>4. {x} \in SUBSET states /\ {y} \in SUBSET State /\ (\A u, v \in {y} : u = v) /\ gens' \in Nat /\ gens <= gens' BY <1>1, <1>3
  <2>5. states' = (states \ {x}) \cup {y} OBVIOUS
  <2> QED BY ONLY <2>1, <2>2, <2>3, <2>4, <2>5, InboxesInv, StatesMove
<1>8. \A s \in {x.session, x.target} : s # t => StatesOf(s)' = {} BY <1>2, <1>5, <1>6, <1>7
<1> QED BY <1>2, <1>6, <1>7, <1>8

LEMMA CommitKeeps ==
  ASSUME InboxesInv, NEW x \in states, Commit(x)
  PROVE  InboxesInv' /\ Followed /\ Grows
<1> DEFINE s == x.session  p == inbox[s]
<1>1. /\ NumbersOK /\ StatesOK /\ HasBuckets(x) /\ (\A t \in Sessions : SessionOK(t) /\ AckOK(t)) /\ (disposed => states = {})
      /\ x.candidate # None /\ gens' = gens /\ nextOrder' = nextOrder /\ disposed' = disposed /\ snapshot' = snapshot /\ discards' = discards
      /\ states' = (states \ {x}) \cup {[gen |-> x.candidate, session |-> x.target, candidate |-> None, target |-> None]}
  BY DEF InboxesInv, Commit, issued
<1>2. /\ x.session \in Sessions /\ x.target \in Sessions /\ x.candidate \in Gens /\ x.candidate <= gens
      /\ x.gen \in Gens /\ x.gen < x.candidate /\ None \notin Sessions
  <2>1. x \in State /\ x.target # None BY <1>1 DEF StatesOK
  <2> QED BY <1>1, <2>1, InboxAssumption DEF State, StatesOK
<1>3. gens \in Nat /\ discards \in Nat /\ nextOrder \in Nat /\ DOMAIN inbox = Sessions /\ DOMAIN owed = Sessions BY <1>1 DEF NumbersOK
<1>4. PICK y : y = [gen |-> x.candidate, session |-> x.target, candidate |-> None, target |-> None] OBVIOUS
<1>5. states' = (states \ {x}) \cup {y} BY <1>1, <1>4
<1>6. disposed' => states' = {} BY <1>1
<1>7. /\ p # None /\ p \in Projection /\ Counts(p.buckets, owed[s], gens, discards, nextOrder) /\ p.buckets \in Buckets
      /\ p.watermark \in Nat
  <2>1. p # None BY <1>1 DEF HasBuckets
  <2>2. SessionOK(s) BY <1>1, <1>2
  <2>3. p \in Projection /\ Counts(p.buckets, owed[s], gens, discards, nextOrder) BY <2>1, <2>2 DEF SessionOK
  <2> QED BY <2>1, <2>3, ProjectionIs
<1>8. CASE x.session = x.target
  <2>1. Len(p.buckets) = 2 /\ p.buckets[2].gen = x.candidate BY <1>1, <1>8 DEF HasBuckets
  <2>2. PICK kept : kept = [p EXCEPT !.buckets = <<p.buckets[Len(p.buckets)]>>] OBVIOUS
  <2>3. PICK b : b = p.buckets OBVIOUS
  <2>4. PICK b2 : b2 = <<b[2]>> OBVIOUS
  <2>5. /\ b \in Buckets /\ Len(b) = 2 /\ b2 \in Buckets /\ Len(b2) = 1 /\ b2[1] = b[2] /\ b[2] \in Bucket
    <3>1. b \in Buckets /\ Len(b) = 2 BY <1>7, <2>1, <2>3
    <3>2. b[2] \in Bucket BY <3>1, BucketsAre
    <3> QED BY <2>4, <3>1, <3>2 DEF Buckets
  <2>6. kept \in Projection /\ kept.revision = p.revision /\ kept.watermark = p.watermark /\ kept.buckets = b2
    <3>1. kept = [p EXCEPT !.buckets = b2] BY <2>1, <2>2, <2>3, <2>4
    <3>2. p \in Projection BY <1>7
    <3> HIDE DEF p
    <3> QED BY ONLY <2>5, <3>1, <3>2 DEF Projection, Buckets
  <2>7. /\ owed' = [owed EXCEPT ![s] = {o \in @ : o.gen = x.candidate}]
        /\ IF Visible(kept) = Visible(p)
             THEN inbox' = [inbox EXCEPT ![s] = kept] /\ Publish(<<>>)
             ELSE /\ inbox' = [inbox EXCEPT ![s] = Revised(kept)]
                  /\ Publish(<<Mutation(s, "resync", {}, {}, kept)>>)
    BY <1>8, <2>2 DEF Commit
  <2>8. PICK ow : ow = Owed(owed[s], b[2].gen) OBVIOUS
  <2>9. owed'[s] = ow BY <1>2, <1>3, <2>1, <2>3, <2>7, <2>8 DEF Owed
  <2>10. PICK ow0 : ow0 = owed[s] OBVIOUS
  <2>11. /\ Counts(b2, ow, gens, discards, nextOrder)
         /\ \A w \in Nat, k \in Nat : Acks(b, ow0, w, k) => Acks(b2, ow, w, k)
    <3>1. Counts(b, ow0, gens, discards, nextOrder) /\ ow = Owed(ow0, b[2].gen) BY <1>7, <2>3, <2>8, <2>10
    <3> QED BY ONLY <1>3, <2>4, <2>5, <3>1, DropCounts
  <2>12. PICK tells \in BOOLEAN : tells <=> Visible(kept) # Visible(p) OBVIOUS
  <2>13. PICK e : e = Mutation(s, "resync", {}, {}, kept) OBVIOUS
  <2>14. e.session = s /\ e.kind = "resync" /\ e.revision = kept.revision + 1 /\ e.watermark = kept.watermark BY <2>13 DEF Mutation
  <2>15. PICK es : es = IF tells THEN <<e>> ELSE <<>> OBVIOUS
  <2>16. /\ tells => inbox'[s] = Revised(kept) /\ Visible(kept) = Applied(e, Visible(inbox[s]), Visible(kept))
         /\ ~tells => inbox'[s] = kept /\ Visible(kept) = Visible(inbox[s]) /\ 0 = 0
         /\ Publish(es)
         /\ \A t \in Sessions : t # s => inbox'[t] = inbox[t] /\ owed'[t] = owed[t]
         /\ DOMAIN inbox' = Sessions /\ DOMAIN owed' = Sessions
    <3>1. Applied(e, Visible(inbox[s]), Visible(kept)) = Visible(kept) BY <2>14 DEF Applied
    <3> QED BY <1>2, <1>3, <2>7, <2>12, <2>13, <2>15, <3>1
  <2>17. Tells(es, {} \cup (IF tells THEN {e} ELSE {})) /\ Tellable({}, {})
    <3>1. {} \cup {e} = {e} /\ {} \cup {} = {} OBVIOUS
    <3> QED BY <2>15, <3>1, TellsOne, TellsNone DEF Tellable
  <2>18. inbox'[s] # None /\ inbox'[s].buckets = b2
    <3>1. Revised(kept).buckets = b2 /\ Revised(kept) \in Projection BY <2>6, ProjectionIs
    <3>2. Revised(kept) # None /\ kept # None BY <2>6, <3>1, ProjectionIs
    <3> QED BY <2>6, <2>16, <3>1, <3>2
  <2>19. /\ StatesOK' /\ (\A z \in states' : HasBuckets(z)') /\ StatesOf(s)' # {}
         /\ \A t \in Sessions : t # s => StatesOf(t)' = StatesOf(t)
    <3>1. Len(inbox'[s].buckets) = 1 /\ inbox'[s].buckets[1].gen = x.candidate BY <2>1, <2>3, <2>5, <2>18
    <3>2. y = [gen |-> x.candidate, session |-> s, candidate |-> None, target |-> None] /\ s \in {x.session, x.target} BY <1>4, <1>8
    <3>3. \A t \in Sessions : t \notin {x.session, x.target} => inbox'[t] = inbox[t] BY <2>16
    <3> HIDE DEF s
    <3>4. /\ StatesOK' /\ (\A z \in states' : HasBuckets(z)') /\ StatesOf(s)' # {}
          /\ \A t \in Sessions : t \notin {x.session, x.target} => StatesOf(t)' = StatesOf(t)
      BY ONLY <1>1, <1>2, <1>5, <2>18, <3>1, <3>2, <3>3, InboxesInv, x \in states, Replaces
    <3> QED BY <1>8, <3>4 DEF s
  <2>20. NumbersOK' BY <1>1, <2>16 DEF NumbersOK
  <2>21. ASSUME NEW w \in Nat, NEW k \in Nat, k <= discards, Acks(inbox[s].buckets, owed[s], w, k),
                snapshot[s] # None, w = lastWatermark[s] - snapshot[s].watermark, k = snapshot[s].discards
         PROVE  Acks(kept.buckets, owed'[s], w + 0, k)
    <3>1. w + 0 = w OBVIOUS
    <3>2. Acks(b, ow0, w, k) BY <2>3, <2>10, <2>21
    <3>3. Acks(b2, ow, w, k) BY <2>11, <3>2
    <3> QED BY <2>6, <2>9, <3>1, <3>3
  <2>22. Counts(kept.buckets, owed'[s], gens', discards', nextOrder') BY <1>1, <2>6, <2>9, <2>11
  <2>23. kept.revision = inbox[s].revision /\ kept.watermark = inbox[s].watermark + 0 BY <1>7, <2>6
  <2>24. discards <= discards' /\ nextOrder <= nextOrder' BY <1>1, <1>3
  <2>25. \A t \in Sessions \ {} : t # s => inbox'[t] = inbox[t] /\ owed'[t] = owed[t] /\ (StatesOf(t)' = {} <=> StatesOf(t) = {})
    BY <2>16, <2>19
  <2>26. s \in Sessions /\ inbox[s] # None /\ {} \in SUBSET (Sessions \ {s}) /\ tells \in BOOLEAN BY <1>2, <1>7, <2>12
  <2>27. \A t \in {} : inbox'[t] = None /\ owed'[t] = {} /\ StatesOf(t)' = {} OBVIOUS
  <2> HIDE DEF s, p
  <2>28. disposed' = disposed /\ gens' = gens /\ snapshot' = snapshot BY <1>1
  <2>29. kept \in Projection BY <2>6
  <2>30. Around BY <1>6, <2>19, <2>20, <2>24, <2>28 DEF Around
  <2>31. OthersGo(s, {}) BY <2>19, <2>25, <2>26, <2>27 DEF OthersGo
  <2>32. Becomes(s, kept, 0) BY <2>21, <2>22, <2>23, <2>29 DEF Becomes
  <2>33. IsTold(s, kept, 0, tells, e) BY <2>14, <2>16, <2>26 DEF IsTold
  <2>34. TellsAlso(es, {}, {}, tells, e) BY <2>16, <2>17 DEF TellsAlso
  <2> QED BY ONLY <2>30, <2>31, <2>32, <2>33, <2>34, InboxesInv, InboxChanges
<1>9. CASE x.session # x.target
  <2>1. /\ inbox' = [inbox EXCEPT ![s] = None] /\ owed' = [owed EXCEPT ![s] = {}] /\ Publish(Clear(s))
    BY <1>9 DEF Commit
  <2>2. /\ inbox'[s] = None /\ owed'[s] = {} /\ DOMAIN inbox' = Sessions /\ DOMAIN owed' = Sessions
        /\ \A t \in Sessions \ {s} : inbox'[t] = inbox[t] /\ owed'[t] = owed[t]
    BY <1>2, <1>3, <2>1
  <2>3. SessionOK(s) /\ s \in Sessions BY <1>1, <1>2
  <2>4. PICK E : Tells(Clear(s), E) /\ Tellable(E, {s}) BY ONLY <2>3, ClearTells
  <2>5. /\ Followed /\ Grows
        /\ \A t \in Sessions : /\ lastRevision'[t] \in Nat /\ lastWatermark'[t] = lastWatermark[t]
                               /\ t \notin {s} => lastRevision'[t] = lastRevision[t]
    <3>1. PICK es : es = Clear(s) OBVIOUS
    <3>2. Tells(es, E) /\ Publish(es) /\ {s} \in SUBSET Sessions BY <2>1, <2>3, <2>4, <3>1
    <3>3. \A t \in {s} : ShownOf(inbox'[t]) = Nothing BY <2>2 DEF ShownOf
    <3>4. \A t \in Sessions \ {s} : ShownOf(inbox'[t]) = ShownOf(inbox[t]) BY <2>2
    <3> HIDE DEF s
    <3> QED BY ONLY <2>4, <3>2, <3>3, <3>4, InboxesInv, ClearsFollow
  <2>6. /\ StatesOK' /\ (\A z \in states' : HasBuckets(z)') /\ StatesOf(x.target)' # {} /\ StatesOf(s)' = {}
        /\ \A t \in Sessions : t \notin {x.session, x.target} => StatesOf(t)' = StatesOf(t)
    <3>1. inbox'[x.target] = inbox[x.target] BY <1>2, <1>9, <2>2
    <3>2. inbox'[x.target] # None /\ Len(inbox'[x.target].buckets) = 1 /\ inbox'[x.target].buckets[1].gen = x.candidate
      BY <1>1, <1>2, <1>9, <3>1 DEF HasBuckets
    <3>3. \A t \in Sessions : t \notin {x.session, x.target} => inbox'[t] = inbox[t] BY <2>2
    <3>4. x.target \in {x.session, x.target} OBVIOUS
    <3>5. /\ StatesOK' /\ (\A z \in states' : HasBuckets(z)') /\ StatesOf(x.target)' # {}
          /\ \A t \in {x.session, x.target} : t # x.target => StatesOf(t)' = {}
          /\ \A t \in Sessions : t \notin {x.session, x.target} => StatesOf(t)' = StatesOf(t)
      BY ONLY <1>1, <1>2, <1>4, <1>5, <3>2, <3>3, <3>4, InboxesInv, x \in states, Replaces
    <3> QED BY <1>9, <3>5
  <2>7. NumbersOK' BY <1>1, <2>2 DEF NumbersOK
  <2>8. ASSUME NEW t \in Sessions PROVE SessionOK(t)' /\ AckOK(t)'
    <3>1. SessionOK(t) /\ AckOK(t) /\ snapshot'[t] = snapshot[t] /\ disposed' = disposed /\ gens <= gens' /\ discards <= discards' /\ nextOrder <= nextOrder'
      BY <1>1, <1>3
    <3>2. CASE t = s
      <4>1. inbox'[t] = None /\ owed'[t] = {} /\ StatesOf(t)' = {} BY <2>2, <2>6, <3>2
      <4>2. lastRevision'[t] \in Nat /\ lastWatermark'[t] = lastWatermark[t] BY <2>5
      <4> QED BY ONLY <1>1, <2>7, <3>1, <4>1, <4>2, t \in Sessions, SessionCloses
    <3>3. CASE t # s
      <4>1. inbox'[t] = inbox[t] /\ owed'[t] = owed[t] BY <2>2, <3>3
      <4>2. lastRevision'[t] = lastRevision[t] /\ lastWatermark'[t] = lastWatermark[t] BY <2>5, <3>3
      <4>3. StatesOf(t)' = {} <=> StatesOf(t) = {}
        <5>1. CASE t = x.target
          <6>1. x \in StatesOf(t) BY <5>1 DEF StatesOf
          <6> QED BY <2>6, <5>1, <6>1
        <5>2. CASE t # x.target BY <2>6, <3>3, <5>2
        <5> QED BY <5>1, <5>2
      <4> QED BY ONLY <1>1, <2>7, <3>1, <4>1, <4>2, <4>3, t \in Sessions, SessionStays
    <3> QED BY <3>2, <3>3
  <2> QED BY <1>6, <2>5, <2>6, <2>7, <2>8 DEF InboxesInv
<1> QED BY <1>8, <1>9

LEMMA AbortKeeps ==
  ASSUME InboxesInv, NEW x \in states, NEW survivor \in {"prior", "candidate"}, Abort(x, survivor)
  PROVE  InboxesInv' /\ Followed /\ Grows
<1>1. /\ NumbersOK /\ StatesOK /\ HasBuckets(x) /\ (\A t \in Sessions : SessionOK(t) /\ AckOK(t)) /\ (disposed => states = {})
      /\ x.candidate # None /\ gens' = gens /\ nextOrder' = nextOrder /\ disposed' = disposed /\ snapshot' = snapshot
  BY DEF InboxesInv, Abort, issued
<1>2. /\ x.session \in Sessions /\ x.target \in Sessions /\ x.candidate \in Gens /\ x.candidate <= gens
      /\ x.gen \in Gens /\ x.gen < x.candidate /\ x.gen <= gens /\ None \notin Sessions
  <2>1. x \in State /\ x.target # None BY <1>1 DEF StatesOK
  <2> QED BY <1>1, <2>1, InboxAssumption DEF State, StatesOK
<1>3. gens \in Nat /\ discards \in Nat /\ nextOrder \in Nat /\ DOMAIN inbox = Sessions /\ DOMAIN owed = Sessions BY <1>1 DEF NumbersOK
<1>4. disposed' => states' = {} BY <1>1
<1>5. PICK target : target = IF survivor = "prior" THEN x.session ELSE x.target OBVIOUS
<1>6. PICK source : source = IF survivor = "prior" THEN x.target ELSE x.session OBVIOUS
<1>7. PICK gen : gen = IF survivor = "prior" THEN x.gen ELSE x.candidate OBVIOUS
<1>8. PICK old : old = inbox[x.session].buckets[1] OBVIOUS
<1>9. PICK new : new = inbox[x.target].buckets[Len(inbox[x.target].buckets)] OBVIOUS
<1>10. PICK same \in BOOLEAN : same <=> x.session = x.target OBVIOUS
<1>11. PICK merged : merged = old.entries \cup new.entries OBVIOUS
<1>12. PICK overflow : overflow = Cardinality(merged \ Newest(merged)) OBVIOUS
<1>13. PICK moved : moved = IF same THEN 0 ELSE (IF survivor = "prior" THEN new ELSE old).discarded OBVIOUS
<1>14. PICK r : r = [gen |-> gen, entries |-> Newest(merged), discarded |-> MergedCount(old, new, overflow)] OBVIOUS
<1>15. PICK p : p = [inbox[target] EXCEPT !.watermark = @ + moved + overflow, !.buckets = <<r>>] OBVIOUS
<1>16. PICK tells \in BOOLEAN : tells <=> Visible(p) # Visible(inbox[target]) OBVIOUS
<1>17. PICK e : e = Mutation(target, "resync", {}, {}, p) OBVIOUS
<1>18. /\ states' = (states \ {x}) \cup {[gen |-> gen, session |-> target, candidate |-> None, target |-> None]}
       /\ inbox' = [s \in Sessions |-> IF s = target THEN (IF tells THEN Revised(p) ELSE p) ELSE IF s = source THEN None ELSE inbox[s]]
       /\ Publish((IF same THEN <<>> ELSE Clear(source)) \o (IF tells THEN <<e>> ELSE <<>>))
       /\ discards' = discards + moved + overflow
       /\ owed' = [s \in Sessions |->
          IF s = target
          THEN {[o EXCEPT !.gen = gen] : o \in owed[target]}
                 \cup {[number |-> n, gen |-> gen] : n \in (discards + 1)..discards'}
          ELSE IF s = source THEN {} ELSE owed[s]]
  <2>1. states' = (states \ {x}) \cup {[gen |-> gen, session |-> target, candidate |-> None, target |-> None]}
    BY ONLY <1>5, <1>7, Abort(x, survivor) DEF Abort
  <2>2. /\ same = (x.session = x.target)
        /\ p = [inbox[target] EXCEPT
                 !.watermark = @ + (IF x.session = x.target THEN 0 ELSE (IF survivor = "prior" THEN new ELSE old).discarded)
                                 + Cardinality((old.entries \cup new.entries) \ Newest(old.entries \cup new.entries)),
                 !.buckets = <<[gen |-> gen, entries |-> Newest(old.entries \cup new.entries),
                                discarded |-> MergedCount(old, new, Cardinality((old.entries \cup new.entries) \ Newest(old.entries \cup new.entries)))]>>]
    BY ONLY <1>10, <1>11, <1>12, <1>13, <1>14, <1>15
  <2>3. tells = (Visible(p) # Visible(inbox[target])) BY <1>16
  <2>4. inbox' = [s \in Sessions |-> IF s = target THEN (IF tells THEN Revised(p) ELSE p) ELSE IF s = source THEN None ELSE inbox[s]]
    BY ONLY <1>5, <1>6, <1>7, <1>8, <1>9, <2>2, <2>3, Abort(x, survivor) DEF Abort
  <2>5. Publish((IF same THEN <<>> ELSE Clear(source)) \o (IF tells THEN <<e>> ELSE <<>>))
    BY ONLY <1>5, <1>6, <1>7, <1>8, <1>9, <1>17, <2>2, <2>3, Abort(x, survivor) DEF Abort
  <2>6. discards' = discards + moved + overflow
    BY ONLY <1>8, <1>9, <1>10, <1>11, <1>12, <1>13, Abort(x, survivor) DEF Abort
  <2>7. owed' = [s \in Sessions |->
          IF s = target
          THEN {[o EXCEPT !.gen = gen] : o \in owed[target]}
                 \cup {[number |-> n, gen |-> gen] : n \in (discards + 1)..discards'}
          ELSE IF s = source THEN {} ELSE owed[s]]
    <3> DEFINE target0 == IF survivor = "prior" THEN x.session ELSE x.target
               source0 == IF survivor = "prior" THEN x.target ELSE x.session
               gen0 == IF survivor = "prior" THEN x.gen ELSE x.candidate
    <3>1. owed' = [s \in Sessions |->
            IF s = target0
            THEN {[o EXCEPT !.gen = gen0] : o \in owed[target0]}
                   \cup {[number |-> n, gen |-> gen0] : n \in (discards + 1)..discards'}
            ELSE IF s = source0 THEN {} ELSE owed[s]]
      BY ONLY Abort(x, survivor) DEF Abort
    <3>2. target0 = target /\ source0 = source /\ gen0 = gen BY <1>5, <1>6, <1>7
    <3> HIDE DEF target0, source0, gen0
    <3>3. {[o EXCEPT !.gen = gen0] : o \in owed[target0]} = {[o EXCEPT !.gen = gen] : o \in owed[target]} BY ONLY <3>2
    <3>4. {[number |-> n, gen |-> gen0] : n \in (discards + 1)..discards'} = {[number |-> n, gen |-> gen] : n \in (discards + 1)..discards'}
      BY ONLY <3>2
    <3> QED BY ONLY <3>1, <3>2, <3>3, <3>4
  <2> QED BY <2>1, <2>4, <2>5, <2>6, <2>7
<1>19. /\ target \in Sessions /\ source \in Sessions /\ {source, target} = {x.session, x.target} /\ (same <=> source = target)
       /\ gen \in Gens /\ gen <= gens
  BY <1>2, <1>5, <1>6, <1>7, <1>10
<1>20. PICK b : b = inbox[target].buckets OBVIOUS
<1>21. PICK ow : ow = owed[target] OBVIOUS
<1>22. ASSUME NEW s \in {x.session, x.target}
       PROVE  /\ inbox[s] # None /\ inbox[s] \in Projection /\ Counts(inbox[s].buckets, owed[s], gens, discards, nextOrder)
              /\ inbox[s].buckets \in Buckets /\ Len(inbox[s].buckets) = (IF same THEN 2 ELSE 1)
  <2>1. s \in Sessions /\ inbox[s] # None /\ Len(inbox[s].buckets) = (IF same THEN 2 ELSE 1)
    BY <1>1, <1>2, <1>10 DEF HasBuckets
  <2>2. SessionOK(s) BY <1>1, <2>1
  <2>3. inbox[s] \in Projection /\ Counts(inbox[s].buckets, owed[s], gens, discards, nextOrder) BY <2>1, <2>2 DEF SessionOK
  <2> QED BY <2>1, <2>3, ProjectionIs
<1>23. /\ old \in Bucket /\ new \in Bucket /\ old.discarded \in Nat /\ new.discarded \in Nat
       /\ old.entries \in SUBSET Orders /\ new.entries \in SUBSET Orders
       /\ (\A n \in old.entries \cup new.entries : n <= nextOrder)
  <2> DEFINE bs == inbox[x.session].buckets  bt == inbox[x.target].buckets
  <2>1. /\ bs \in Buckets /\ Len(bs) \in {1, 2} /\ Counts(bs, owed[x.session], gens, discards, nextOrder)
        /\ bt \in Buckets /\ Len(bt) \in {1, 2} /\ Counts(bt, owed[x.target], gens, discards, nextOrder)
    BY <1>22
  <2>2. old = bs[1] /\ new = bt[Len(bt)] BY <1>8, <1>9
  <2> HIDE DEF bs, bt
  <2>3. 1 \in DOMAIN bs /\ Len(bt) \in DOMAIN bt BY <2>1, BucketsAre
  <2>4. old \in Bucket /\ new \in Bucket BY <2>1, <2>2, <2>3, BucketsAre
  <2>5. (\A n \in old.entries : n <= nextOrder) /\ (\A n \in new.entries : n <= nextOrder) BY <2>1, <2>2, <2>3 DEF Counts
  <2> QED BY ONLY <2>4, <2>5 DEF Bucket
<1>24. /\ b \in Buckets /\ Len(b) \in {1, 2} /\ Counts(b, ow, gens, discards, nextOrder) /\ Total(b) \in Nat
       /\ inbox[target] \in Projection /\ inbox[target] # None
  <2>1. target \in {x.session, x.target} BY <1>19
  <2>2. b \in Buckets /\ Len(b) \in {1, 2} /\ Counts(b, ow, gens, discards, nextOrder) BY <1>20, <1>21, <1>22, <2>1
  <2> QED BY <1>22, <2>1, <2>2, BucketsAre
<1>25. merged \in SUBSET Orders /\ Newest(merged) \in SUBSET Orders /\ overflow \in Nat /\ \A n \in Newest(merged) : n <= nextOrder
  <2>1. merged \in SUBSET Orders BY <1>11, <1>23
  <2>2. Newest(merged) \subseteq merged BY <2>1, NewestIs
  <2>3. merged \ Newest(merged) \in SUBSET Orders BY <2>1
  <2> QED BY <1>11, <1>12, <1>23, <2>1, <2>2, <2>3, OrdersAreFinite
<1>26. moved \in Nat /\ Total(b) + moved = old.discarded + new.discarded
  <2>1. CASE same
    <3>1. x.session = target /\ x.target = target /\ moved = 0 BY <1>5, <1>10, <1>13, <2>1
    <3>2. Len(b) = 2 /\ old = b[1] /\ new = b[2] BY <1>8, <1>9, <1>20, <1>22, <2>1, <3>1
    <3>3. Total(b) = old.discarded + new.discarded BY <3>2 DEF Total
    <3> QED BY <1>23, <3>1, <3>3
  <2>2. CASE ~same
    <3>1. Len(b) = 1 /\ Len(inbox[x.target].buckets) = 1 BY <1>19, <1>20, <1>22, <2>2
    <3>2. Total(b) = b[1].discarded BY <3>1 DEF Total
    <3>3. CASE survivor = "prior"
      <4>1. b[1] = old /\ moved = new.discarded BY <1>5, <1>8, <1>13, <1>20, <2>2, <3>3
      <4> QED BY <1>23, <3>2, <4>1
    <3>4. CASE survivor # "prior"
      <4>1. b[1] = new /\ moved = old.discarded BY <1>5, <1>9, <1>13, <1>20, <2>2, <3>1, <3>4
      <4> QED BY <1>23, <3>2, <4>1
    <3> QED BY <3>3, <3>4
  <2> QED BY <2>1, <2>2
<1>27. PICK c \in Nat : c = moved + overflow BY <1>25, <1>26
<1>28. discards' = discards + c /\ discards <= discards' BY <1>3, <1>18, <1>25, <1>26, <1>27
<1>29. r = [gen |-> gen, entries |-> Newest(merged), discarded |-> Total(b) + c]
  <2>1. MergedCount(old, new, overflow) = Total(b) + c
    BY ONLY <1>23, <1>24, <1>25, <1>26, <1>27 DEF MergedCount
  <2> QED BY <1>14, <2>1
<1>30. PICK b2 : b2 = <<r>> OBVIOUS
<1>31. PICK ow2 : ow2 = {[o EXCEPT !.gen = gen] : o \in ow} \cup Numbered(discards, c, gen) OBVIOUS
<1>32. /\ Counts(b2, ow2, gens, discards + c, nextOrder) /\ Total(b2) = Total(b) + c
       /\ \A k \in Nat : k <= discards => Cardinality(Later(ow2, k)) = Cardinality(Later(ow, k)) + c
  <2>1. b2 = <<[gen |-> gen, entries |-> Newest(merged), discarded |-> Total(b) + c]>> BY <1>29, <1>30
  <2>2. PICK F : F = Newest(merged) OBVIOUS
  <2>3. b2 = <<[gen |-> gen, entries |-> F, discarded |-> Total(b) + c]>> BY <2>1, <2>2
  <2>4. F \in SUBSET Orders /\ \A n \in F : n <= nextOrder BY <1>25, <2>2
  <2>5. gen \in Gens /\ gen <= gens BY <1>19
  <2>6. Counts(b, ow, gens, discards, nextOrder) BY <1>24
  <2>7. c \in Nat BY <1>27
  <2>8. Adds(b, ow, b2, ow2, gens, discards, c, nextOrder) BY ONLY <1>3, <1>31, <2>3, <2>4, <2>5, <2>6, <2>7, MergeCounts
  <2> QED BY ONLY <2>8 DEF Adds
<1>33. b2 \in Buckets /\ Len(b2) = 1 /\ b2[1].gen = gen
  <2>1. r \in Bucket BY <1>19, <1>24, <1>25, <1>27, <1>29 DEF Bucket
  <2>2. r.gen = gen BY <1>29
  <2> QED BY ONLY <1>30, <2>1, <2>2 DEF Buckets
<1>34. /\ p \in Projection /\ p.revision = inbox[target].revision /\ p.watermark = inbox[target].watermark + c /\ p.buckets = b2
  <2>1. PICK p0 : p0 = inbox[target] OBVIOUS
  <2>2. p0 \in Projection /\ p0.watermark \in Nat BY <1>24, <2>1, ProjectionIs
  <2>3. p = [p0 EXCEPT !.watermark = @ + moved + overflow, !.buckets = b2] BY <1>15, <1>30, <2>1
  <2>4. p0.watermark + moved + overflow = p0.watermark + c BY <1>25, <1>26, <1>27, <2>2
  <2>5. PICK w \in Nat : w = p0.watermark + c BY <1>27, <2>2
  <2>6. p = [p0 EXCEPT !.watermark = w, !.buckets = b2] BY ONLY <2>3, <2>4, <2>5
  <2>7. p \in Projection /\ p.revision = p0.revision /\ p.watermark = w /\ p.buckets = b2
    BY ONLY <1>33, <2>2, <2>5, <2>6 DEF Projection, Buckets
  <2> QED BY <2>1, <2>5, <2>7
<1>35. owed'[target] = ow2
  <2>1. Numbered(discards, c, gen) = {[number |-> n, gen |-> gen] : n \in (discards + 1)..discards'}
    BY <1>28 DEF Numbered
  <2> QED BY <1>18, <1>19, <1>21, <1>31, <2>1
<1>36. PICK T : T = IF same THEN {} ELSE {source} OBVIOUS
<1>37. /\ T \in SUBSET (Sessions \ {target}) /\ (\A t \in T : inbox'[t] = None /\ owed'[t] = {})
       /\ (\A t \in Sessions \ T : t # target => inbox'[t] = inbox[t] /\ owed'[t] = owed[t])
       /\ (tells => inbox'[target] = Revised(p)) /\ (~tells => inbox'[target] = p)
       /\ DOMAIN inbox' = Sessions /\ DOMAIN owed' = Sessions
  BY <1>18, <1>19, <1>36
<1>38. PICK es : es = (IF same THEN <<>> ELSE Clear(source)) \o (IF tells THEN <<e>> ELSE <<>>) OBVIOUS
<1>39. e.session = target /\ e.kind = "resync" /\ e.revision = p.revision + 1 /\ e.watermark = p.watermark BY <1>17 DEF Mutation
<1>40. PICK E : Tells(es, E \cup (IF tells THEN {e} ELSE {})) /\ Tellable(E, T)
  <2>0. <<e>> # <<>> OBVIOUS
  <2>1. CASE same
    <3>1. es = IF tells THEN <<e>> ELSE <<>> BY <1>38, <2>1
    <3>2. {} \cup {e} = {e} /\ {} \cup {} = {} OBVIOUS
    <3>3. Tells(es, {} \cup (IF tells THEN {e} ELSE {})) BY <3>1, <3>2, TellsOne, TellsNone
    <3>4. Tellable({}, T) BY <1>36, <2>1 DEF Tellable
    <3> QED BY <3>3, <3>4
  <2>2. CASE ~same
    <3>1. PICK A : A = Clear(source) OBVIOUS
    <3>2. PICK B : B = IF tells THEN <<e>> ELSE <<>> OBVIOUS
    <3>3. PICK a : a = ClearEvent(source) OBVIOUS
    <3>4. /\ A = <<>> \/ A = <<a>>
          /\ a.session = source
          /\ A # <<>> => IsClear(a, source)
          /\ A = <<>> => ShownOf(inbox[source]) = Nothing
      BY <1>1, <1>19, <3>1, <3>3, ClearIs
    <3>5. source # target BY <1>19, <2>2
    <3>6. B = <<>> \/ B = <<e>> BY <3>2
    <3>7. Tells(A \o B, (IF A = <<>> THEN {} ELSE {a}) \cup (IF B = <<>> THEN {} ELSE {e}))
      BY ONLY <1>39, <3>4, <3>5, <3>6, TellsConcat
    <3>8. (IF B = <<>> THEN {} ELSE {e}) = (IF tells THEN {e} ELSE {}) BY <2>0, <3>2
    <3>9. es = A \o B BY <1>38, <2>2, <3>1, <3>2
    <3>10. PICK E : E = IF A = <<>> THEN {} ELSE {a} OBVIOUS
    <3>11. Tells(es, E \cup (IF tells THEN {e} ELSE {})) BY ONLY <3>7, <3>8, <3>9, <3>10
    <3>12. Tellable(E, T) BY <1>36, <2>2, <3>4, <3>10 DEF Tellable
    <3> QED BY <3>11, <3>12
  <2> QED BY <2>1, <2>2
<1>41. Publish(es) BY <1>18, <1>38
<1>42. /\ tells => inbox'[target] = Revised(p) /\ Visible(p) = Applied(e, Visible(inbox[target]), Visible(p))
       /\ ~tells => inbox'[target] = p /\ Visible(p) = Visible(inbox[target]) /\ c = 0
  <2>1. Applied(e, Visible(inbox[target]), Visible(p)) = Visible(p) BY <1>39 DEF Applied
  <2>2. ~tells => c = 0
    <3> SUFFICES ASSUME ~tells PROVE c = 0 OBVIOUS
    <3>1. Visible(p).discarded = Total(b2)
      <4>1. p.buckets \in Buckets /\ Len(p.buckets) \in {1, 2} /\ p.buckets = b2 BY <1>33, <1>34
      <4> QED BY <4>1, VisibleIs
    <3>2. Visible(inbox[target]).discarded = Total(b)
      <4>1. inbox[target].buckets \in Buckets /\ Len(inbox[target].buckets) \in {1, 2} /\ inbox[target].buckets = b BY <1>20, <1>24
      <4> QED BY <4>1, VisibleIs
    <3>3. Total(b) = Total(b) + c BY <1>16, <1>32, <3>1, <3>2
    <3> QED BY <1>24, <1>27, <3>3
  <2> QED BY <1>16, <1>37, <2>1, <2>2
<1>43. inbox'[target] # None /\ inbox'[target].buckets = b2
  <2>1. Revised(p).buckets = b2 /\ Revised(p) \in Projection BY <1>34, ProjectionIs
  <2>2. Revised(p) # None /\ p # None BY <1>34, <2>1, ProjectionIs
  <2> QED BY <1>34, <1>42, <2>1, <2>2
<1>44. /\ StatesOK' /\ (\A z \in states' : HasBuckets(z)') /\ StatesOf(target)' # {}
       /\ \A t \in T : StatesOf(t)' = {}
       /\ \A t \in Sessions \ T : t # target => StatesOf(t)' = StatesOf(t)
  <2>1. PICK y : y = [gen |-> gen, session |-> target, candidate |-> None, target |-> None] OBVIOUS
  <2>2. states' = (states \ {x}) \cup {y} BY <1>18, <2>1
  <2>3. target \in {x.session, x.target} BY <1>19
  <2>4. Len(inbox'[target].buckets) = 1 /\ inbox'[target].buckets[1].gen = gen BY <1>33, <1>43
  <2>5. \A t \in Sessions : t \notin {x.session, x.target} => inbox'[t] = inbox[t] BY <1>18, <1>19
  <2>6. /\ StatesOK' /\ (\A z \in states' : HasBuckets(z)') /\ StatesOf(target)' # {}
        /\ \A t \in {x.session, x.target} : t # target => StatesOf(t)' = {}
        /\ \A t \in Sessions : t \notin {x.session, x.target} => StatesOf(t)' = StatesOf(t)
    BY ONLY <1>1, <1>19, <1>43, <2>1, <2>2, <2>3, <2>4, <2>5, InboxesInv, x \in states, Replaces
  <2> QED BY <1>19, <1>36, <2>6
<1>45. NumbersOK' BY <1>1, <1>3, <1>27, <1>28, <1>37 DEF NumbersOK
<1>46. ASSUME NEW w \in Nat, NEW k \in Nat, k <= discards, Acks(inbox[target].buckets, owed[target], w, k),
              snapshot[target] # None, w = lastWatermark[target] - snapshot[target].watermark, k = snapshot[target].discards
       PROVE  Acks(p.buckets, owed'[target], w + c, k)
  <2>1. Acks(b, ow, w, k) BY <1>20, <1>21, <1>46
  <2>2. Cardinality(Later(ow2, k)) = Cardinality(Later(ow, k)) + c BY <1>32, <1>46
  <2>3. Acks(b2, ow2, w + c, k) BY ONLY <1>24, <1>27, <1>32, <2>1, <2>2, w \in Nat, AddAcks
  <2> QED BY <1>34, <1>35, <2>3
<1>47. Counts(p.buckets, owed'[target], gens', discards', nextOrder') BY <1>1, <1>28, <1>32, <1>34, <1>35
<1>48. /\ nextOrder <= nextOrder' /\ disposed' = disposed /\ gens' = gens /\ snapshot' = snapshot BY <1>1, <1>3
<1>49. \A t \in Sessions \ T : t # target => inbox'[t] = inbox[t] /\ owed'[t] = owed[t] /\ (StatesOf(t)' = {} <=> StatesOf(t) = {})
  BY <1>37, <1>44
<1>50. \A t \in T : inbox'[t] = None /\ owed'[t] = {} /\ StatesOf(t)' = {} BY <1>37, <1>44
<1>51. T \in SUBSET (Sessions \ {target}) BY <1>37
<1>52. target \in Sessions /\ inbox[target] # None BY <1>19, <1>24
<1>53. discards <= discards' /\ StatesOK' /\ (\A z \in states' : HasBuckets(z)') /\ StatesOf(target)' # {} BY <1>28, <1>44
<1>54. p \in Projection /\ p.revision = inbox[target].revision /\ p.watermark = inbox[target].watermark + c BY <1>34
<1>55. tells \in BOOLEAN /\ c \in Nat BY <1>27
<1>56. Around BY <1>4, <1>45, <1>48, <1>53 DEF Around
<1>57. OthersGo(target, T) BY <1>49, <1>50, <1>51, <1>52, <1>53 DEF OthersGo
<1>58. Becomes(target, p, c) BY <1>46, <1>47, <1>54, <1>55 DEF Becomes
<1>59. IsTold(target, p, c, tells, e) BY <1>39, <1>42, <1>55 DEF IsTold
<1>60. TellsAlso(es, E, T, tells, e) BY <1>40, <1>41 DEF TellsAlso
<1> QED BY ONLY <1>56, <1>57, <1>58, <1>59, <1>60, InboxesInv, InboxChanges

\* An inbox changes, and the states stay.
LEMMA OneInboxChanges ==
  ASSUME InboxesInv, NumbersOK', states' = states, gens' = gens, disposed' = disposed, snapshot' = snapshot,
         discards <= discards', nextOrder <= nextOrder', NEW s \in Sessions, inbox[s] # None,
         NEW q, NEW c, NEW tells, NEW e, Becomes(s, q, c), IsTold(s, q, c, tells, e), NEW es, es = IF tells THEN <<e>> ELSE <<>>, Publish(es),
         NEW b, b = q.buckets,
         Len(b) = Len(inbox[s].buckets), b[1].gen = inbox[s].buckets[1].gen, Len(b) = 2 => b[2].gen = inbox[s].buckets[2].gen,
         \A t \in Sessions : t # s => inbox'[t] = inbox[t] /\ owed'[t] = owed[t]
  PROVE  InboxesInv' /\ Followed /\ Grows
<1>1. q \in Projection /\ tells \in BOOLEAN BY DEF Becomes, IsTold
<1>2. inbox'[s] # None /\ inbox'[s].buckets = b
  <2>1. q # None /\ Revised(q) \in Projection /\ Revised(q).buckets = q.buckets BY <1>1, ProjectionIs
  <2>2. Revised(q) # None BY <2>1, ProjectionIs
  <2>3. inbox'[s] = q \/ inbox'[s] = Revised(q) BY <1>1 DEF IsTold
  <2> QED BY <2>1, <2>2, <2>3
<1>3. StatesOK' /\ (\A x \in states' : HasBuckets(x)') /\ \A t : StatesOf(t)' = StatesOf(t)
  BY <1>2, StatesStay
<1>4. Around BY <1>3 DEF Around, InboxesInv
<1>5. StatesOf(s) # {} BY DEF InboxesInv, SessionOK
<1>6. OthersGo(s, {}) BY <1>3, <1>5 DEF OthersGo
<1>7. TellsAlso(es, {}, {}, tells, e)
  <2>1. {} \cup {e} = {e} /\ {} \cup {} = {} OBVIOUS
  <2> QED BY <2>1, <1>1, TellsOne, TellsNone DEF Tellable, TellsAlso
<1> QED BY ONLY <1>4, <1>6, <1>7, InboxesInv, Becomes(s, q, c), IsTold(s, q, c, tells, e), InboxChanges

\* The bucket of a generation that is not stale is the newest of its inbox.
LEMMA NewestBucket ==
  ASSUME InboxesInv, NEW x \in states, NEW g \in {x.gen, x.candidate} \ {None}, ~Stale(x, g),
         NEW s, s = (IF g = x.gen THEN x.session ELSE x.target)
  PROVE  /\ s \in Sessions /\ inbox[s] # None /\ g \in Gens
         /\ (CHOOSE k \in DOMAIN inbox[s].buckets : inbox[s].buckets[k].gen = g) = Len(inbox[s].buckets)
         /\ inbox[s].buckets[Len(inbox[s].buckets)].gen = g
<1>1. /\ HasBuckets(x) /\ x \in State /\ (x.candidate = None <=> x.target = None)
      /\ (x.candidate # None => x.gen < x.candidate) /\ \A t \in Sessions : SessionOK(t)
  BY DEF InboxesInv, StatesOK
<1>2. /\ x.session \in Sessions /\ x.target \in Sessions \cup {None} /\ x.gen \in Gens /\ x.candidate \in Gens \cup {None}
      /\ None \notin Gens /\ None \notin Sessions
  BY <1>1, InboxAssumption DEF State
<1>3. s \in Sessions /\ inbox[s] # None /\ g \in Gens BY <1>1, <1>2 DEF HasBuckets
<1>4. PICK b : b = inbox[s].buckets OBVIOUS
<1>5. b \in Buckets /\ Len(b) \in {1, 2}
  <2>1. Counts(b, owed[s], gens, discards, nextOrder) BY <1>1, <1>3, <1>4 DEF SessionOK
  <2> QED BY <2>1 DEF Counts
<1>6. DOMAIN b = 1 .. Len(b) BY <1>5, BucketsAre
<1>7. CASE g = x.gen
  <2>1. x.target = None BY <1>1, <1>2, <1>7 DEF Stale
  <2>2. Len(b) = 1 /\ b[1].gen = g BY <1>1, <1>2, <1>4, <1>7, <2>1 DEF HasBuckets
  <2>3. DOMAIN b = {1} BY <1>6, <2>2
  <2> QED BY <1>3, <1>4, <2>2, <2>3
<1>8. CASE g # x.gen
  <2>1. g = x.candidate /\ x.target \in Sessions /\ s = x.target BY <1>1, <1>2, <1>8
  <2>2. CASE x.target = x.session
    <3>1. Len(b) = 2 /\ b[1].gen = x.gen /\ b[2].gen = g BY <1>1, <1>4, <2>1, <2>2 DEF HasBuckets
    <3>2. DOMAIN b = {1, 2} BY <1>6, <3>1
    <3>3. (CHOOSE k \in DOMAIN b : b[k].gen = g) = 2 BY <1>8, <3>1, <3>2
    <3> QED BY <1>3, <1>4, <3>1, <3>3
  <2>3. CASE x.target # x.session
    <3>1. Len(b) = 1 /\ b[1].gen = g BY <1>1, <1>2, <1>4, <2>1, <2>3 DEF HasBuckets
    <3>2. DOMAIN b = {1} BY <1>6, <3>1
    <3> QED BY <1>3, <1>4, <3>1, <3>2
  <2> QED BY <2>2, <2>3
<1> QED BY <1>7, <1>8

LEMMA AddKeeps ==
  ASSUME InboxesInv, NEW x \in states, NEW g \in Gens, Add(x, g)
  PROVE  InboxesInv' /\ Followed /\ Grows
<1>1. /\ NumbersOK /\ (\A t \in Sessions : SessionOK(t))
      /\ nextOrder < MaxOrder /\ g \in {x.gen, x.candidate} \ {None} /\ ~Stale(x, g) /\ nextOrder' = nextOrder + 1
      /\ states' = states /\ gens' = gens /\ disposed' = disposed /\ snapshot' = snapshot
  BY DEF InboxesInv, Add
<1>2. PICK s : s = IF g = x.gen THEN x.session ELSE x.target OBVIOUS
<1>3. PICK p : p = inbox[s] OBVIOUS
<1>4. PICK b : b = p.buckets OBVIOUS
<1>5. /\ s \in Sessions /\ p # None /\ (CHOOSE k \in DOMAIN b : b[k].gen = g) = Len(b) /\ b[Len(b)].gen = g
  BY <1>1, <1>2, <1>3, <1>4, NewestBucket
<1>6. PICK l : l = Len(b) OBVIOUS
<1>7. PICK n : n = nextOrder + 1 OBVIOUS
<1>8. PICK B : B = b[l].entries OBVIOUS
<1>9. PICK F : F = Newest(B \cup {n}) OBVIOUS
<1>10. PICK c : c = Cardinality((B \cup {n}) \ F) OBVIOUS
<1>11. PICK q : q = [p EXCEPT !.watermark = @ + c, !.buckets[l] = [gen |-> g, entries |-> F, discarded |-> @.discarded + c]] OBVIOUS
<1>12. PICK hidden : hidden = Retained(p) \ Retained(q) OBVIOUS
<1>13. PICK e : e = Mutation(s, "added", {n}, IF hidden = {} THEN {} ELSE {Min(hidden)}, q) OBVIOUS
<1>14. inbox' = [inbox EXCEPT ![s] = Revised(q)] /\ Publish(<<e>>) /\ discards' = discards + c
  <2>1. (CHOOSE k \in DOMAIN p.buckets : p.buckets[k].gen = g) = l BY <1>4, <1>5, <1>6
  <2>2. q = [p EXCEPT !.watermark = @ + Cardinality((p.buckets[l].entries \cup {nextOrder + 1}) \ Newest(p.buckets[l].entries \cup {nextOrder + 1})),
                      !.buckets[l] = [gen |-> g, entries |-> Newest(p.buckets[l].entries \cup {nextOrder + 1}),
                                      discarded |-> @.discarded + Cardinality((p.buckets[l].entries \cup {nextOrder + 1}) \ Newest(p.buckets[l].entries \cup {nextOrder + 1}))]]
    BY ONLY <1>4, <1>7, <1>8, <1>9, <1>10, <1>11
  <2>3. inbox' = [inbox EXCEPT ![s] = Revised(q)]
    BY ONLY <1>2, <1>3, <2>1, <2>2, Add(x, g) DEF Add
  <2>4. Publish(<<e>>)
    BY ONLY <1>2, <1>3, <1>7, <1>12, <1>13, <2>1, <2>2, Add(x, g) DEF Add
  <2>5. discards' = discards + c
    BY ONLY <1>2, <1>3, <1>4, <1>7, <1>8, <1>9, <1>10, <2>1, Add(x, g) DEF Add
  <2> QED BY <2>3, <2>4, <2>5
<1>15. owed' = [owed EXCEPT ![s] = @ \cup {[number |-> k, gen |-> g] : k \in (discards + 1)..discards'}]
  BY ONLY <1>2, Add(x, g) DEF Add
<1>16. gens \in Nat /\ discards \in Nat /\ nextOrder \in Nat /\ DOMAIN inbox = Sessions /\ DOMAIN owed = Sessions BY <1>1 DEF NumbersOK
<1>17. /\ p \in Projection /\ b \in Buckets /\ l \in {1, 2} /\ l = Len(b) /\ Counts(b, owed[s], gens, discards, nextOrder)
       /\ p.watermark \in Nat /\ p.revision \in Nat
  <2>1. SessionOK(s) BY <1>1, <1>5
  <2>2. p \in Projection /\ Counts(b, owed[s], gens, discards, nextOrder) BY <1>3, <1>4, <1>5, <2>1 DEF SessionOK
  <2> QED BY <1>4, <1>6, <2>2, ProjectionIs DEF Counts
<1>18. /\ l \in DOMAIN b /\ b[l] \in Bucket /\ b[l].discarded \in Nat /\ B \in SUBSET Orders /\ b[l].gen = g /\ DOMAIN b = 1 .. l
  <2>1. l \in DOMAIN b /\ DOMAIN b = 1 .. l BY <1>17, BucketsAre
  <2>2. b[l] \in Bucket BY <1>17, <2>1, BucketsAre
  <2> QED BY <1>5, <1>6, <1>8, <2>1, <2>2 DEF Bucket
<1>19. /\ n \in Orders /\ n \in Nat /\ nextOrder < n /\ B \cup {n} \in SUBSET Orders /\ F \in SUBSET Orders /\ c \in Nat
       /\ \A k \in F : k <= n
  <2>1. n \in Orders /\ n \in Nat /\ nextOrder < n /\ nextOrder <= n BY <1>1, <1>7, <1>16, InboxAssumption DEF Orders
  <2>2. B \cup {n} \in SUBSET Orders BY <1>18, <2>1
  <2>3. F \subseteq B \cup {n} BY <1>9, <2>2, NewestIs
  <2>4. (B \cup {n}) \ F \in SUBSET Orders BY <2>2
  <2>5. c \in Nat BY <1>10, <2>4, OrdersAreFinite
  <2>6. \A k \in B : k \in Nat /\ k <= nextOrder
    <3>1. \A k \in B : k <= nextOrder BY <1>8, <1>17, <1>18 DEF Counts
    <3> QED BY <1>18, <3>1, OrdersAreFinite
  <2> QED BY <1>16, <2>1, <2>2, <2>3, <2>5, <2>6
<1>20. PICK b2 : b2 = [b EXCEPT ![l] = [gen |-> g, entries |-> F, discarded |-> b[l].discarded + c]] OBVIOUS
<1>21. /\ b2 \in Buckets /\ Len(b2) = l /\ b2[l].gen = g /\ b2[l].entries = F /\ (l = 2 => b2[1] = b[1])
  <2>1. PICK r : r = [gen |-> g, entries |-> F, discarded |-> b[l].discarded + c] OBVIOUS
  <2>2. r \in Bucket /\ r.gen = g /\ r.entries = F BY <1>18, <1>19, <2>1 DEF Bucket
  <2>3. b2 = [b EXCEPT ![l] = r] BY <1>20, <2>1
  <2> QED BY ONLY <1>17, <1>18, <2>2, <2>3 DEF Buckets
<1>22. q \in Projection /\ q.revision = p.revision /\ q.watermark = p.watermark + c /\ q.buckets = b2
  <2>1. PICK w \in Nat : w = p.watermark + c BY <1>17, <1>19
  <2>2. q = [p EXCEPT !.watermark = w, !.buckets = b2]
    <3>1. q = [p EXCEPT !.watermark = @ + c, !.buckets = [@ EXCEPT ![l] = [gen |-> g, entries |-> F, discarded |-> p.buckets[l].discarded + c]]]
      BY ONLY <1>11
    <3> QED BY ONLY <1>4, <1>20, <2>1, <3>1
  <2> QED BY ONLY <1>17, <1>21, <2>1, <2>2 DEF Projection, Buckets
<1>23. PICK ow : ow = owed[s] OBVIOUS
<1>24. PICK ow2 : ow2 = ow \cup Numbered(discards, c, g) OBVIOUS
<1>25. owed'[s] = ow2
  <2>1. Numbered(discards, c, g) = {[number |-> k, gen |-> g] : k \in (discards + 1)..discards'} BY <1>14 DEF Numbered
  <2> QED BY <1>5, <1>15, <1>16, <1>23, <1>24, <2>1
<1>26. Adds(b, ow, b2, ow2, gens, discards, c, n)
  <2>1. b2 = [b EXCEPT ![Len(b)] = [gen |-> b[Len(b)].gen, entries |-> F, discarded |-> b[Len(b)].discarded + c]]
    BY <1>17, <1>18, <1>20
  <2>2. ow2 = ow \cup Numbered(discards, c, b[Len(b)].gen) BY <1>17, <1>18, <1>24
  <2>3. Counts(b, ow, gens, discards, nextOrder) BY <1>17, <1>23
  <2>4. nextOrder <= n BY <1>16, <1>19
  <2> QED BY ONLY <1>16, <1>19, <2>1, <2>2, <2>3, <2>4, AddCounts
<1>27. /\ Counts(b2, ow2, gens, discards + c, n) /\ Total(b2) = Total(b) + c
       /\ \A k \in Nat : k <= discards => Cardinality(Later(ow2, k)) = Cardinality(Later(ow, k)) + c
  BY ONLY <1>26 DEF Adds
<1>28. Retained(q) = Newest(Entries(p) \cup {n}) /\ Entries(p) \in SUBSET Orders /\ \A k \in Entries(p) : k < n
  <2>1. Entries(p) \in SUBSET Orders /\ \A k \in Entries(p) : k <= nextOrder
    <3>1. Entries(p) \in SUBSET Orders /\ \A k : k \in Entries(p) <=> \E i \in DOMAIN b : k \in b[i].entries
      BY <1>4, <1>17, EntriesAre
    <3> QED BY <1>17, <3>1 DEF Counts
  <2>2. \A k \in Entries(p) : k < n
    <3> SUFFICES ASSUME NEW k \in Entries(p) PROVE k < n OBVIOUS
    <3>1. k \in Nat /\ k <= nextOrder BY <2>1, OrdersAreFinite
    <3> QED BY ONLY <1>16, <1>19, <3>1
  <2>3. CASE l = 1
    <3>1. Entries(q) = F /\ Entries(p) = B BY <1>4, <1>8, <1>17, <1>21, <1>22, <2>3, EntriesAre
    <3>2. PICK O : O = {} OBVIOUS
    <3>4. O \in SUBSET Orders /\ O \cup F = F /\ O \cup (B \cup {n}) = B \cup {n} BY <3>2
    <3>5. Newest(O \cup F) = Newest(O \cup (B \cup {n})) BY ONLY <1>9, <1>19, <3>4, NewestOfNewest
    <3>3. Newest(F) = Newest(B \cup {n}) BY ONLY <3>4, <3>5
    <3> QED BY <2>1, <2>2, <3>1, <3>3 DEF Retained
  <2>4. CASE l = 2
    <3>1. PICK O : O = b[1].entries OBVIOUS
    <3>2. Entries(q) = O \cup F BY <1>21, <1>22, <2>4, <3>1, EntriesAre
    <3>3. Entries(p) = O \cup B BY <1>4, <1>8, <1>17, <2>4, <3>1, EntriesAre
    <3>4. O \in SUBSET Orders BY <2>1, <3>3
    <3>5. Newest(O \cup F) = Newest(O \cup (B \cup {n})) BY ONLY <1>9, <1>19, <3>4, NewestOfNewest
    <3>6. O \cup (B \cup {n}) = (O \cup B) \cup {n} OBVIOUS
    <3> QED BY <2>1, <2>2, <3>2, <3>3, <3>5, <3>6 DEF Retained
  <2> QED BY <1>17, <2>3, <2>4
<1>29. /\ n \in Retained(q) /\ Retained(q) \subseteq Retained(p) \cup {n} /\ \A i, j \in hidden : i = j
       /\ Retained(p) \in SUBSET Orders
  <2>1. PICK E \in SUBSET Orders : E = Entries(p) BY <1>28
  <2>2. \A k \in E : k < n BY <1>28, <2>1
  <2>3. /\ n \in Newest(E \cup {n}) /\ Newest(E \cup {n}) \subseteq Newest(E) \cup {n}
        /\ \A i, j \in Newest(E) \ Newest(E \cup {n}) : i = j
    BY ONLY <1>19, <2>1, <2>2, NewestOfMore
  <2>4. Retained(p) = Newest(E) /\ Retained(q) = Newest(E \cup {n}) BY <1>28, <2>1 DEF Retained
  <2>5. Newest(E) \in SUBSET Orders BY <2>1, NewestIs
  <2> QED BY ONLY <1>12, <2>3, <2>4, <2>5
<1>30. e.session = s /\ e.kind = "added" /\ e.added = {n} /\ e.removed = hidden /\ e.discarded = Discarded(q)
       /\ e.revision = q.revision + 1 /\ e.watermark = q.watermark
  <2>1. (IF hidden = {} THEN {} ELSE {Min(hidden)}) = hidden
    <3>1. CASE hidden = {} BY <3>1
    <3>2. CASE hidden # {}
      <4>1. PICK k \in hidden : TRUE BY <3>2
      <4>2. hidden = {k} /\ k \in Nat BY <1>12, <1>29, <4>1, OrdersAreFinite
      <4>3. Min({k}) = k BY <4>2 DEF Min
      <4> QED BY <4>2, <4>3
    <3> QED BY <3>1, <3>2
  <2> QED BY <1>13, <2>1 DEF Mutation
<1>31. Visible(q) = Applied(e, Visible(p), Visible(q))
  <2>1. Applied(e, Visible(p), Visible(q)) = [ids |-> (Retained(p) \ hidden) \cup {n}, discarded |-> Discarded(q)]
    BY <1>30 DEF Applied, Visible
  <2>2. (Retained(p) \ hidden) \cup {n} = Retained(q) BY ONLY <1>12, <1>29
  <2> QED BY <2>1, <2>2 DEF Visible
<1>32. NumbersOK'
  <2>1. nextOrder' \in Nat /\ nextOrder' <= MaxOrder /\ discards' \in Nat BY <1>1, <1>7, <1>14, <1>16, <1>19 DEF Orders
  <2>2. DOMAIN inbox' = Sessions /\ DOMAIN owed' = Sessions BY <1>14, <1>15, <1>16
  <2> QED BY <1>1, <2>1, <2>2 DEF NumbersOK
<1>33. Becomes(s, q, c)
  <2>1. Counts(q.buckets, owed'[s], gens', discards', nextOrder') BY <1>1, <1>7, <1>14, <1>22, <1>25, <1>27
  <2>2. ASSUME NEW w \in Nat, NEW k \in Nat, k <= discards, Acks(inbox[s].buckets, owed[s], w, k)
        PROVE  Acks(q.buckets, owed'[s], w + c, k)
    <3>1. Acks(b, ow, w, k) BY <1>3, <1>4, <1>23, <2>2
    <3>2. Cardinality(Later(ow2, k)) = Cardinality(Later(ow, k)) + c BY <1>27, <2>2
    <3>3. Total(b) \in Nat /\ c \in Nat /\ Total(b2) = Total(b) + c BY <1>17, <1>19, <1>27, BucketsAre
    <3>4. Acks(b2, ow2, w + c, k) BY ONLY <3>1, <3>2, <3>3, w \in Nat, AddAcks
    <3> QED BY <1>22, <1>25, <3>4
  <2> QED BY <1>3, <1>19, <1>22, <2>1, <2>2 DEF Becomes
<1>34. IsTold(s, q, c, TRUE, e) BY <1>3, <1>5, <1>14, <1>16, <1>30, <1>31 DEF IsTold
<1>35. PICK es : es = IF TRUE THEN <<e>> ELSE <<>> OBVIOUS
<1>36. Publish(es) BY <1>14, <1>35
<1>37. b2 = q.buckets /\ Len(b2) = Len(inbox[s].buckets) /\ b2[1].gen = inbox[s].buckets[1].gen
       /\ (Len(b2) = 2 => b2[2].gen = inbox[s].buckets[2].gen)
  BY <1>3, <1>4, <1>17, <1>18, <1>21, <1>22
<1>38. \A t \in Sessions : t # s => inbox'[t] = inbox[t] /\ owed'[t] = owed[t] BY <1>14, <1>15, <1>16
<1>39. discards <= discards' /\ nextOrder <= nextOrder' BY <1>1, <1>14, <1>16, <1>19
<1>40. s \in Sessions /\ inbox[s] # None BY <1>3, <1>5
<1> QED BY ONLY <1>1, <1>32, <1>33, <1>34, <1>35, <1>36, <1>37, <1>38, <1>39, <1>40, InboxesInv, OneInboxChanges

\* What is known of an inbox
LEMMA InboxIs ==
  ASSUME InboxesInv, NEW s \in Sessions, inbox[s] # None, NEW p, p = inbox[s], NEW b, b = p.buckets, NEW ow, ow = owed[s]
  PROVE  /\ p \in Projection /\ b \in Buckets /\ Len(b) \in {1, 2} /\ Counts(b, ow, gens, discards, nextOrder) /\ Total(b) \in Nat
         /\ DOMAIN b = 1 .. Len(b) /\ 1 \in DOMAIN b /\ (Len(b) = 2 => 2 \in DOMAIN b)
         /\ gens \in Nat /\ discards \in Nat /\ nextOrder \in Nat /\ DOMAIN inbox = Sessions /\ DOMAIN owed = Sessions
         /\ Entries(p) \in SUBSET Orders /\ Retained(p) = Newest(Entries(p)) /\ p.watermark = lastWatermark[s] /\ p.watermark \in Nat
         /\ ~disposed
<1>1. SessionOK(s) /\ NumbersOK /\ (disposed => states = {}) BY DEF InboxesInv
<1>2. p \in Projection /\ Counts(b, ow, gens, discards, nextOrder) /\ p.watermark = lastWatermark[s] /\ p.watermark \in Nat
  BY <1>1 DEF SessionOK
<1>3. b \in Buckets /\ Len(b) \in {1, 2} BY <1>2 DEF Counts
<1>4. Entries(p) \in SUBSET Orders BY <1>3, EntriesAre
<1>5. ~disposed BY <1>1 DEF SessionOK, StatesOf
<1> QED BY <1>1, <1>2, <1>3, <1>4, <1>5, BucketsAre DEF NumbersOK, Retained

\* The buckets of an inbox lose entries: of the orders in N.
Less(b2, b, N) == \A i \in DOMAIN b : b2[i].entries = b[i].entries \ N

LEMMA EntriesLeave ==
  ASSUME NEW p \in Projection, NEW q \in Projection, NEW b, b = p.buckets, NEW b2, b2 = q.buckets, DOMAIN b2 = DOMAIN b,
         NEW N, Less(b2, b, N)
  PROVE  Entries(q) = Entries(p) \ N
<1>1. b \in Buckets /\ b2 \in Buckets BY ProjectionIs
<1>2. /\ \A n : n \in Entries(p) <=> \E i \in DOMAIN b : n \in b[i].entries
      /\ \A n : n \in Entries(q) <=> \E i \in DOMAIN b2 : n \in b2[i].entries
  BY <1>1, EntriesAre
<1> QED BY <1>2 DEF Less

LEMMA DismissKeeps ==
  ASSUME InboxesInv, NEW s \in Sessions, NEW n \in Orders, Dismiss(s, n)
  PROVE  InboxesInv' /\ Followed /\ Grows
<1>1. /\ inbox[s] # None /\ states' = states /\ gens' = gens /\ nextOrder' = nextOrder /\ disposed' = disposed
      /\ snapshot' = snapshot /\ discards' = discards /\ NumbersOK
  BY DEF InboxesInv, Dismiss, issued
<1>2. PICK p : p = inbox[s] OBVIOUS
<1>3. PICK b : b = p.buckets OBVIOUS
<1>4. PICK ow : ow = owed[s] OBVIOUS
<1>5. /\ p \in Projection /\ b \in Buckets /\ Len(b) \in {1, 2} /\ Counts(b, ow, gens, discards, nextOrder) /\ Total(b) \in Nat
      /\ DOMAIN b = 1 .. Len(b) /\ 1 \in DOMAIN b /\ (Len(b) = 2 => 2 \in DOMAIN b)
      /\ gens \in Nat /\ discards \in Nat /\ nextOrder \in Nat /\ DOMAIN inbox = Sessions /\ DOMAIN owed = Sessions
      /\ Entries(p) \in SUBSET Orders /\ Retained(p) = Newest(Entries(p))
  BY <1>1, <1>2, <1>3, <1>4, InboxIs
<1>6. \A i \in DOMAIN b : b[i] \in Bucket /\ b[i].entries \in SUBSET Orders /\ b[i].gen \in Gens /\ b[i].discarded \in Nat
  <2>1. \A i \in DOMAIN b : b[i] \in Bucket BY <1>5, BucketsAre
  <2> QED BY <2>1 DEF Bucket
<1>7. PICK without : without = [i \in DOMAIN b |-> [b[i] EXCEPT !.entries = @ \ {n}]] OBVIOUS
<1>8. PICK last0 \in BOOLEAN : last0 <=> Entries(p) = {n} OBVIOUS
<1>9. PICK b2 : b2 = IF last0 THEN [i \in DOMAIN without |-> [without[i] EXCEPT !.discarded = 0]] ELSE without OBVIOUS
<1>10. PICK q : q = [p EXCEPT !.buckets = b2] OBVIOUS
<1>11. PICK e : e = IF Reveals(p, q) THEN Mutation(s, "resync", {}, {}, q) ELSE Mutation(s, "dismissed", {}, {n}, q) OBVIOUS
<1>12. PICK tells \in BOOLEAN : tells <=> ~(n \notin Retained(p) /\ Visible(p) = Visible(q)) OBVIOUS
<1>13. /\ IF ~tells THEN inbox' = [inbox EXCEPT ![s] = q] /\ Publish(<<>>)
                   ELSE inbox' = [inbox EXCEPT ![s] = Revised(q)] /\ Publish(<<e>>)
       /\ owed' = IF last0 THEN [owed EXCEPT ![s] = {}] ELSE owed
  <2>1. last0 = (Entries(p) = {n}) BY <1>8
  <2>2. q = [p EXCEPT !.buckets = IF Entries(p) = {n} THEN [i \in DOMAIN without |-> [without[i] EXCEPT !.discarded = 0]] ELSE without]
    BY ONLY <1>9, <1>10, <2>1
  <2>3. without = [i \in DOMAIN p.buckets |-> [p.buckets[i] EXCEPT !.entries = @ \ {n}]] BY ONLY <1>3, <1>7
  <2>4. owed' = IF last0 THEN [owed EXCEPT ![s] = {}] ELSE owed BY ONLY <1>2, <2>1, Dismiss(s, n) DEF Dismiss
  <2>5. /\ IF n \notin Retained(p) /\ Visible(p) = Visible(q)
           THEN inbox' = [inbox EXCEPT ![s] = q] /\ Publish(<<>>)
           ELSE /\ inbox' = [inbox EXCEPT ![s] = Revised(q)]
                /\ Publish(<<IF Reveals(p, q) THEN Mutation(s, "resync", {}, {}, q)
                             ELSE Mutation(s, "dismissed", {}, {n}, q)>>)
    BY ONLY <1>2, <2>2, <2>3, Dismiss(s, n) DEF Dismiss
  <2> QED BY <1>11, <1>12, <2>4, <2>5
<1>14. DOMAIN without = DOMAIN b /\ \A i \in DOMAIN b : /\ without[i] \in Bucket /\ without[i].gen = b[i].gen
                                                        /\ without[i].entries = b[i].entries \ {n} /\ without[i].discarded = b[i].discarded
  <2> SUFFICES ASSUME NEW i \in DOMAIN b
               PROVE  /\ without[i] \in Bucket /\ without[i].gen = b[i].gen
                      /\ without[i].entries = b[i].entries \ {n} /\ without[i].discarded = b[i].discarded
    BY <1>7
  <2>1. without[i] = [b[i] EXCEPT !.entries = @ \ {n}] BY <1>7
  <2> QED BY <1>6, <2>1 DEF Bucket
<1>15. /\ DOMAIN b2 = DOMAIN b
       /\ \A i \in DOMAIN b : /\ b2[i] \in Bucket /\ b2[i].gen = b[i].gen /\ b2[i].entries = b[i].entries \ {n}
                              /\ b2[i].discarded = IF last0 THEN 0 ELSE b[i].discarded
  <2>1. CASE ~last0 BY <1>9, <1>14, <2>1
  <2>2. CASE last0
    <3>1. b2 = [i \in DOMAIN without |-> [without[i] EXCEPT !.discarded = 0]] BY <1>9, <2>2
    <3>2. ASSUME NEW i \in DOMAIN b
          PROVE  /\ b2[i] \in Bucket /\ b2[i].gen = b[i].gen /\ b2[i].entries = b[i].entries \ {n} /\ b2[i].discarded = 0
      <4>1. b2[i] = [without[i] EXCEPT !.discarded = 0] BY <1>14, <3>1
      <4> QED BY <1>14, <4>1 DEF Bucket
    <3> QED BY <1>14, <2>2, <3>1, <3>2
  <2> QED BY <2>1, <2>2
<1>16. b2 \in Buckets /\ Len(b2) = Len(b)
  <2>1. b2 = [i \in 1 .. Len(b) |-> b2[i]] BY <1>5, <1>7, <1>9, <1>14
  <2> QED BY <1>5, <1>15, <2>1 DEF Buckets
<1>17. q \in Projection /\ q.revision = p.revision /\ q.watermark = p.watermark /\ q.buckets = b2
  BY ONLY <1>5, <1>10, <1>16 DEF Projection, Buckets
<1>18. owed'[s] = (IF last0 THEN {} ELSE ow) /\ DOMAIN owed' = Sessions BY <1>4, <1>5, <1>13
<1>19. /\ Counts(b2, owed'[s], gens, discards, nextOrder)
       /\ \A w \in Nat, k \in Nat : Acks(b, ow, w, k) => Acks(b2, owed'[s], w, k)
  <2>1. CASE last0
    <3>1. \A i \in DOMAIN b : b2[i].gen = b[i].gen /\ b2[i].discarded = 0 /\ b2[i].entries \subseteq b[i].entries BY <1>15, <2>1
    <3>2. Counts(b2, {}, gens, discards, nextOrder) /\ \A w \in Nat : \A k : Acks(b2, {}, w, k) BY ONLY <1>5, <1>16, <3>1, ClearedCounts
    <3> QED BY <1>18, <2>1, <3>2
  <2>2. CASE ~last0
    <3>1. \A i \in DOMAIN b : b2[i].gen = b[i].gen /\ b2[i].discarded = b[i].discarded /\ b2[i].entries \subseteq b[i].entries
      BY <1>15, <2>2
    <3>2. Counts(b2, ow, gens, discards, nextOrder) /\ Total(b2) = Total(b) BY ONLY <1>5, <1>16, <3>1, EntriesCounts
    <3> QED BY <1>18, <2>2, <3>2 DEF Acks
  <2> QED BY <2>1, <2>2
<1>20. /\ Retained(q) = Newest(Entries(p) \ {n}) /\ n \notin Retained(q) /\ Retained(p) \ {n} \subseteq Retained(q)
  <2>5. PICK N : N = {n} OBVIOUS
  <2>0. Less(b2, b, N) BY <1>15, <2>5 DEF Less
  <2>4. p \in Projection /\ q \in Projection /\ b2 = q.buckets /\ DOMAIN b2 = DOMAIN b BY <1>5, <1>15, <1>17
  <2>6. Entries(q) = Entries(p) \ N BY ONLY <1>3, <2>0, <2>4, EntriesLeave
  <2>1. Entries(q) = Entries(p) \ {n} BY ONLY <2>5, <2>6
  <2>2. PICK E \in SUBSET Orders : E = Entries(p) BY <1>5
  <2>3. Newest(E) \ {n} \subseteq Newest(E \ {n}) /\ n \notin Newest(E \ {n}) BY NewestOfLess
  <2> QED BY <1>5, <2>1, <2>2, <2>3 DEF Retained
<1>21. e.session = s /\ e.revision = q.revision + 1 /\ e.watermark = q.watermark /\ Visible(q) = Applied(e, Visible(p), Visible(q))
  <2>1. CASE Reveals(p, q)
    <3>1. e = Mutation(s, "resync", {}, {}, q) BY <1>11, <2>1
    <3> QED BY <3>1 DEF Mutation, Applied
  <2>2. CASE ~Reveals(p, q)
    <3>1. e = Mutation(s, "dismissed", {}, {n}, q) BY <1>11, <2>2
    <3>2. Retained(q) = Retained(p) \ {n} BY <1>20, <2>2 DEF Reveals
    <3> QED BY <3>1, <3>2 DEF Mutation, Applied, Visible
  <2> QED BY <2>1, <2>2
<1>22. /\ tells => inbox'[s] = Revised(q) /\ Visible(q) = Applied(e, Visible(inbox[s]), Visible(q))
       /\ ~tells => inbox'[s] = q /\ Visible(q) = Visible(inbox[s])
       /\ DOMAIN inbox' = Sessions
       /\ \A t \in Sessions : t # s => inbox'[t] = inbox[t] /\ owed'[t] = owed[t]
  BY <1>2, <1>5, <1>12, <1>13, <1>21
<1>23. NumbersOK' BY <1>1, <1>18, <1>22 DEF NumbersOK
<1>24. Becomes(s, q, 0)
  <2>1. Counts(q.buckets, owed'[s], gens', discards', nextOrder') BY <1>1, <1>17, <1>19
  <2>2. p.watermark + 0 = p.watermark BY <1>5, ProjectionIs
  <2>3. ASSUME NEW w \in Nat, NEW k \in Nat, Acks(inbox[s].buckets, owed[s], w, k) PROVE Acks(q.buckets, owed'[s], w + 0, k)
    <3>1. Acks(b, ow, w, k) /\ w + 0 = w BY <1>2, <1>3, <1>4, <2>3
    <3> QED BY <1>17, <1>19, <3>1
  <2> QED BY <1>2, <1>17, <2>1, <2>2, <2>3 DEF Becomes
<1>25. IsTold(s, q, 0, tells, e) BY <1>12, <1>21, <1>22 DEF IsTold
<1>26. PICK es : es = IF tells THEN <<e>> ELSE <<>> OBVIOUS
<1>27. Publish(es) BY <1>13, <1>26
<1>28. b2 = q.buckets /\ Len(b2) = Len(inbox[s].buckets) /\ b2[1].gen = inbox[s].buckets[1].gen
       /\ (Len(b2) = 2 => b2[2].gen = inbox[s].buckets[2].gen)
  BY <1>2, <1>3, <1>5, <1>15, <1>16, <1>17
<1>29. discards <= discards' /\ nextOrder <= nextOrder' BY <1>1, <1>5
<1>30. \A t \in Sessions : t # s => inbox'[t] = inbox[t] /\ owed'[t] = owed[t] BY <1>22
<1> QED BY ONLY <1>1, <1>23, <1>24, <1>25, <1>26, <1>27, <1>28, <1>29, <1>30, s \in Sessions, InboxesInv, OneInboxChanges

\* What acknowledges the discards of all but the last w watermarks
LEMMA AcknowledgedIs ==
  ASSUME NEW p, p.watermark \in Nat, NEW D \in Nat, Discarded(p) = D, NEW u \in Nat, u <= p.watermark, NEW w, w = p.watermark - u
  PROVE  Acknowledged(p, u) = D - Least(D, w) /\ Acknowledged(p, u) \in Nat /\ w \in Nat
<1>1. PICK m \in Nat : m = p.watermark OBVIOUS
<1>2. w \in Nat /\ w = m - u BY <1>1
<1>3. u - (m - D + 1) + 1 = D - w BY <1>2
<1>4. Acknowledged(p, u) = Max({0, Min({D, D - w})}) BY <1>1, <1>3 DEF Acknowledged
<1>5. Min({D, D - w}) = D - w
  <2>1. D - w \in {D, D - w} /\ \A y \in {D, D - w} : D - w <= y BY <1>2
  <2>2. \A v \in {D, D - w} : (\A y \in {D, D - w} : v <= y) => v = D - w BY <1>2
  <2> QED BY <2>1, <2>2 DEF Min
<1>6. Max({0, D - w}) = D - Least(D, w)
  <2> DEFINE z == D - Least(D, w)
  <2>1. z \in {0, D - w} /\ \A y \in {0, D - w} : z >= y BY <1>2 DEF Least
  <2>2. \A v \in {0, D - w} : (\A y \in {0, D - w} : v >= y) => v = z BY <1>2 DEF Least
  <2> HIDE DEF z
  <2>3. Max({0, D - w}) = z BY <2>1, <2>2 DEF Max
  <2> QED BY <2>3 DEF z
<1>7. D - Least(D, w) \in Nat BY <1>2 DEF Least
<1> QED BY <1>2, <1>4, <1>5, <1>6, <1>7

LEMMA DismissAllKeeps ==
  ASSUME InboxesInv, NEW s \in Sessions, DismissAll(s)
  PROVE  InboxesInv' /\ Followed /\ Grows
<1>1. /\ inbox[s] # None /\ snapshot[s] # None /\ states' = states /\ gens' = gens /\ nextOrder' = nextOrder /\ disposed' = disposed
      /\ snapshot' = snapshot /\ discards' = discards /\ NumbersOK /\ AckOK(s)
  BY DEF InboxesInv, DismissAll, issued
<1>2. PICK p : p = inbox[s] OBVIOUS
<1>3. PICK b : b = p.buckets OBVIOUS
<1>4. PICK ow : ow = owed[s] OBVIOUS
<1>5. /\ p \in Projection /\ b \in Buckets /\ Len(b) \in {1, 2} /\ Counts(b, ow, gens, discards, nextOrder) /\ Total(b) \in Nat
      /\ DOMAIN b = 1 .. Len(b) /\ 1 \in DOMAIN b /\ (Len(b) = 2 => 2 \in DOMAIN b)
      /\ gens \in Nat /\ discards \in Nat /\ nextOrder \in Nat /\ DOMAIN inbox = Sessions /\ DOMAIN owed = Sessions
      /\ Entries(p) \in SUBSET Orders /\ Retained(p) = Newest(Entries(p)) /\ p.watermark = lastWatermark[s] /\ p.watermark \in Nat
      /\ ~disposed
  BY <1>1, <1>2, <1>3, <1>4, InboxIs
<1>6. \A i \in DOMAIN b : b[i] \in Bucket /\ b[i].entries \in SUBSET Orders /\ b[i].gen \in Gens /\ b[i].discarded \in Nat
  <2>1. \A i \in DOMAIN b : b[i] \in Bucket BY <1>5, BucketsAre
  <2> QED BY <2>1 DEF Bucket
<1>7. PICK through : through = snapshot[s] OBVIOUS
<1>8. PICK u : u = through.order OBVIOUS
<1>9. PICK k : k = through.discards OBVIOUS
<1>10. PICK w : w = p.watermark - through.watermark OBVIOUS
<1>11. /\ u \in Nat /\ k \in Nat /\ k <= discards /\ through.watermark \in Nat /\ through.watermark <= p.watermark
       /\ Acks(b, ow, w, k)
  BY <1>1, <1>2, <1>3, <1>4, <1>5, <1>7, <1>8, <1>9, <1>10 DEF AckOK
<1>12. PICK dismissed : dismissed = {n \in Retained(p) : n <= u} OBVIOUS
<1>13. PICK acked : acked = Acknowledged(p, through.watermark) OBVIOUS
<1>14. PICK left : left = [i \in DOMAIN b |-> [b[i] EXCEPT !.entries = {n \in @ : n > u}]] OBVIOUS
<1>15. PICK b2 : b2 = Uncounted(left, acked) OBVIOUS
<1>16. PICK q : q = [p EXCEPT !.buckets = b2] OBVIOUS
<1>17. PICK tells \in BOOLEAN : tells <=> ~(dismissed = {} /\ acked = 0) OBVIOUS
<1>18. PICK e : e = Mutation(s, "dismissed", {}, dismissed, q) OBVIOUS
<1>19. /\ IF ~tells THEN inbox' = [inbox EXCEPT ![s] = q] /\ Publish(<<>>)
                   ELSE inbox' = [inbox EXCEPT ![s] = Revised(q)] /\ Publish(<<e>>)
       /\ owed' = [owed EXCEPT ![s] = {o \in @ : o.number > snapshot[s].discards}]
  <2>1. left = [i \in DOMAIN p.buckets |-> [p.buckets[i] EXCEPT !.entries = {n \in @ : n > through.order}]]
    BY ONLY <1>3, <1>8, <1>14
  <2>2. q = [p EXCEPT !.buckets = Uncounted(left, Acknowledged(p, through.watermark))] BY ONLY <1>13, <1>15, <1>16
  <2>3. dismissed = {n \in Retained(p) : n <= through.order} BY ONLY <1>8, <1>12
  <2>4. IF dismissed = {} /\ Acknowledged(p, through.watermark) = 0
        THEN inbox' = [inbox EXCEPT ![s] = q] /\ Publish(<<>>)
        ELSE /\ inbox' = [inbox EXCEPT ![s] = Revised(q)]
             /\ Publish(<<Mutation(s, "dismissed", {}, dismissed, q)>>)
    BY ONLY <1>2, <1>7, <2>1, <2>2, <2>3, DismissAll(s) DEF DismissAll
  <2>5. owed' = [owed EXCEPT ![s] = {o \in @ : o.number > snapshot[s].discards}] BY ONLY DismissAll(s) DEF DismissAll
  <2> QED BY <1>13, <1>17, <1>18, <2>4, <2>5
<1>20. DOMAIN left = DOMAIN b /\ \A i \in DOMAIN b : /\ left[i] \in Bucket /\ left[i].gen = b[i].gen /\ left[i].discarded = b[i].discarded
                                                     /\ left[i].entries = {n \in b[i].entries : n > u}
  <2> SUFFICES ASSUME NEW i \in DOMAIN b
               PROVE  /\ left[i] \in Bucket /\ left[i].gen = b[i].gen /\ left[i].discarded = b[i].discarded
                      /\ left[i].entries = {n \in b[i].entries : n > u}
    BY <1>14
  <2>1. PICK N : N = {n \in b[i].entries : n > u} OBVIOUS
  <2>2. left[i] = [b[i] EXCEPT !.entries = N] BY <1>14, <2>1
  <2>3. N \in SUBSET Orders BY <1>6, <2>1
  <2>4. left[i] \in Bucket /\ left[i].gen = b[i].gen /\ left[i].discarded = b[i].discarded /\ left[i].entries = N
    BY <1>6, <2>2, <2>3 DEF Bucket
  <2> QED BY <2>1, <2>4
<1>21. left \in Buckets /\ Len(left) = Len(b)
  <2>1. left = [i \in 1 .. Len(b) |-> left[i]] BY <1>5, <1>14, <1>20
  <2> QED BY <1>5, <1>20, <2>1 DEF Buckets
<1>22. acked = Total(b) - Least(Total(b), w) /\ acked \in Nat /\ w \in Nat
  <2>1. Discarded(p) = Total(b) BY <1>3, <1>5, DiscardedIsTotal
  <2> QED BY <1>5, <1>10, <1>11, <1>13, <2>1, AcknowledgedIs
<1>23. /\ b2 \in Buckets /\ Len(b2) = Len(b)
       /\ \A i \in DOMAIN b : b2[i].gen = b[i].gen /\ b2[i].entries = {n \in b[i].entries : n > u}
       /\ b2[1].discarded = b[1].discarded - Least(b[1].discarded, acked)
       /\ Len(b) = 2 => b2[2].discarded = b[2].discarded - (IF acked <= b[1].discarded THEN 0 ELSE Least(b[2].discarded, acked - b[1].discarded))
  <2>1. /\ Uncounted(left, acked) \in Buckets /\ Len(Uncounted(left, acked)) = Len(left)
        /\ \A i \in DOMAIN left : Uncounted(left, acked)[i].gen = left[i].gen /\ Uncounted(left, acked)[i].entries = left[i].entries
        /\ Uncounted(left, acked)[1].discarded = left[1].discarded - Least(left[1].discarded, acked)
        /\ Len(left) = 2 => Uncounted(left, acked)[2].discarded =
              left[2].discarded - (IF acked <= left[1].discarded THEN 0 ELSE Least(left[2].discarded, acked - left[1].discarded))
    BY <1>5, <1>21, <1>22, UncountedIs
  <2>2. left[1].discarded = b[1].discarded /\ (Len(b) = 2 => left[2].discarded = b[2].discarded) BY <1>5, <1>20
  <2> QED BY ONLY <1>15, <1>20, <1>21, <2>1, <2>2
<1>24. q \in Projection /\ q.revision = p.revision /\ q.watermark = p.watermark /\ q.buckets = b2
  BY ONLY <1>5, <1>16, <1>23 DEF Projection, Buckets
<1>25. owed'[s] = Later(ow, k) /\ DOMAIN owed' = Sessions
  BY <1>4, <1>5, <1>7, <1>9, <1>19 DEF Later
<1>26. Counts(b2, Later(ow, k), gens, discards, nextOrder) /\ Acks(b2, Later(ow, k), w, k)
  <2>1. \A i \in DOMAIN b : b2[i].gen = b[i].gen /\ b2[i].entries \subseteq b[i].entries BY <1>23
  <2>2. /\ b2 \in Buckets /\ Len(b2) = Len(b)
        /\ b2[1].discarded = b[1].discarded - Least(b[1].discarded, acked)
        /\ Len(b) = 2 => b2[2].discarded = b[2].discarded - (IF acked <= b[1].discarded THEN 0 ELSE Least(b[2].discarded, acked - b[1].discarded))
    BY <1>23
  <2>3. Counts(b, ow, gens, discards, nextOrder) /\ gens \in Nat /\ discards \in Nat /\ nextOrder \in Nat BY <1>5
  <2> QED BY ONLY <1>11, <1>22, <2>1, <2>2, <2>3, AckCounts
<1>27. Total(b2) = Total(b) - acked
  <2>1. PICK L : L = Later(ow, k) OBVIOUS
  <2>2. Later(L, k) = L BY <2>1 DEF Later
  <2>3. Cardinality(L) = Total(b2) BY ONLY <1>5, <1>26, <2>1, OwedIsTotal
  <2>4. Cardinality(L) = Least(Total(b2), w) /\ Cardinality(L) = Least(Total(b), w) BY <1>11, <1>26, <2>1, <2>2 DEF Acks
  <2>5. Least(Total(b), w) \in Nat BY <1>5, <1>22 DEF Least
  <2> QED BY ONLY <1>5, <1>22, <2>3, <2>4, <2>5
<1>28. Retained(q) = Retained(p) \ dismissed /\ Visible(q) = [ids |-> Retained(q), discarded |-> Total(b2)]
       /\ Visible(p) = [ids |-> Retained(p), discarded |-> Total(b)]
  <2>1. PICK E \in SUBSET Orders : E = Entries(p) BY <1>5
  <2>2. \A i \in DOMAIN b : b2[i].entries = b[i].entries \ {n \in E : ~(n > u)}
    <3> SUFFICES ASSUME NEW i \in DOMAIN b PROVE {n \in b[i].entries : n > u} = b[i].entries \ {n \in E : ~(n > u)} BY <1>23
    <3>1. b[i].entries \subseteq E BY <1>3, <1>5, <2>1, EntriesAre
    <3> QED BY <3>1
  <2>3. DOMAIN b2 = DOMAIN b
    <3>1. DOMAIN b2 = 1 .. Len(b2) BY <1>23 DEF Buckets
    <3> QED BY <1>5, <1>23, <3>1
  <2>4. Entries(q) = E \ {n \in E : ~(n > u)}
    <3>1. PICK N : N = {n \in E : ~(n > u)} OBVIOUS
    <3>2. Less(b2, b, N) BY <2>2, <3>1 DEF Less
    <3>4. p \in Projection /\ q \in Projection /\ b2 = q.buckets BY <1>5, <1>24
    <3>3. Entries(q) = Entries(p) \ N BY ONLY <1>3, <2>3, <3>2, <3>4, EntriesLeave
    <3> QED BY <2>1, <3>1, <3>3
  <2>5. Entries(q) = {n \in E : n > u} BY <2>4
  <2>6. Retained(q) = {n \in Newest(E) : n > u} BY <1>11, <2>5, NewestOfLater DEF Retained
  <2>7. Retained(p) = Newest(E) /\ Newest(E) \subseteq Orders BY <1>5, <2>1, NewestIs
  <2>8. \A n \in Newest(E) : ~(n <= u) <=> n > u BY <1>11, <2>7, OrdersAreFinite
  <2>9. Retained(q) = Retained(p) \ dismissed BY <1>12, <2>6, <2>7, <2>8
  <2>10. Visible(q) = [ids |-> Newest(Entries(q)), discarded |-> Total(b2)] BY <1>5, <1>23, <1>24, VisibleIs
  <2>11. Visible(p) = [ids |-> Newest(Entries(p)), discarded |-> Total(b)] BY <1>3, <1>5, VisibleIs
  <2> QED BY <1>5, <2>9, <2>10, <2>11 DEF Retained
<1>29. e.session = s /\ e.revision = q.revision + 1 /\ e.watermark = q.watermark /\ Visible(q) = Applied(e, Visible(p), Visible(q))
  <2>1. e.kind = "dismissed" /\ e.removed = dismissed /\ e.discarded = Discarded(q) BY <1>18 DEF Mutation
  <2>2. Applied(e, Visible(p), Visible(q)) = [ids |-> Retained(p) \ dismissed, discarded |-> Discarded(q)]
    BY <2>1 DEF Applied, Visible
  <2> QED BY <1>18, <1>28, <2>2 DEF Mutation, Visible
<1>30. ~tells => Visible(q) = Visible(p)
  <2> SUFFICES ASSUME ~tells PROVE Visible(q) = Visible(p) OBVIOUS
  <2>1. dismissed = {} /\ acked = 0 BY <1>17
  <2>2. Total(b2) = Total(b) BY <1>5, <1>27, <2>1
  <2> QED BY <1>28, <2>1, <2>2
<1>31. /\ tells => inbox'[s] = Revised(q) /\ Visible(q) = Applied(e, Visible(inbox[s]), Visible(q))
       /\ ~tells => inbox'[s] = q /\ Visible(q) = Visible(inbox[s])
       /\ DOMAIN inbox' = Sessions
       /\ \A t \in Sessions : t # s => inbox'[t] = inbox[t] /\ owed'[t] = owed[t]
  BY <1>2, <1>5, <1>17, <1>19, <1>29, <1>30
<1>32. NumbersOK' BY <1>1, <1>25, <1>31 DEF NumbersOK
<1>33. Becomes(s, q, 0)
  <2>1. Counts(q.buckets, owed'[s], gens', discards', nextOrder') BY <1>1, <1>24, <1>25, <1>26
  <2>2. p.watermark + 0 = p.watermark BY <1>5
  <2>3. ASSUME NEW v \in Nat, NEW j \in Nat, v = lastWatermark[s] - snapshot[s].watermark, j = snapshot[s].discards
        PROVE  Acks(q.buckets, owed'[s], v + 0, j)
    <3>1. v = w /\ j = k /\ v + 0 = v BY <1>5, <1>7, <1>9, <1>10, <2>3
    <3> QED BY <1>24, <1>25, <1>26, <3>1
  <2> QED BY <1>2, <1>24, <2>1, <2>2, <2>3 DEF Becomes
<1>34. IsTold(s, q, 0, tells, e) BY <1>17, <1>29, <1>31 DEF IsTold
<1>35. PICK es : es = IF tells THEN <<e>> ELSE <<>> OBVIOUS
<1>36. Publish(es) BY <1>19, <1>35
<1>37. b2 = q.buckets /\ Len(b2) = Len(inbox[s].buckets) /\ b2[1].gen = inbox[s].buckets[1].gen
       /\ (Len(b2) = 2 => b2[2].gen = inbox[s].buckets[2].gen)
  BY <1>2, <1>3, <1>5, <1>23, <1>24
<1>38. discards <= discards' /\ nextOrder <= nextOrder' BY <1>1, <1>5
<1>39. \A t \in Sessions : t # s => inbox'[t] = inbox[t] /\ owed'[t] = owed[t] BY <1>31
<1> QED BY ONLY <1>1, <1>32, <1>33, <1>34, <1>35, <1>36, <1>37, <1>38, <1>39, s \in Sessions, InboxesInv, OneInboxChanges

LEMMA InboxesBegin == Init => InboxesInv
<1> SUFFICES ASSUME Init PROVE InboxesInv OBVIOUS
<1>1. /\ states = {} /\ inbox = [s \in Sessions |-> None] /\ owed = [s \in Sessions |-> {}] /\ snapshot = [s \in Sessions |-> None]
      /\ lastRevision = [s \in Sessions |-> 0] /\ lastWatermark = [s \in Sessions |-> 0]
      /\ nextOrder = 0 /\ gens = 0 /\ discards = 0 /\ disposed = FALSE
  BY DEF Init
<1>2. NumbersOK BY <1>1, InboxAssumption DEF NumbersOK
<1>3. StatesOK BY <1>1 DEF StatesOK
<1>4. \A s \in Sessions : SessionOK(s) BY <1>1 DEF SessionOK, StatesOf
<1>5. \A s \in Sessions : AckOK(s) BY <1>1 DEF AckOK
<1> QED BY <1>1, <1>2, <1>3, <1>4, <1>5 DEF InboxesInv

LEMMA InboxesKeep == InboxesInv /\ Next => InboxesInv' /\ (disposed' \/ (Followed /\ Grows))
<1> SUFFICES ASSUME InboxesInv, Next PROVE InboxesInv' /\ (disposed' \/ (Followed /\ Grows)) OBVIOUS
<1>1. ASSUME NEW s \in Sessions, Open(s) PROVE InboxesInv' /\ Followed /\ Grows
  <2>1. CASE \E x \in Current(s) : Begin(x, s)
    <3>1. PICK x \in Current(s) : Begin(x, s) BY <2>1
    <3>2. x \in states /\ x.candidate = None /\ s = x.session BY DEF Current
    <3> QED BY <3>1, <3>2, BeginKeeps
  <2>2. CASE Register(s) BY <2>2, RegisterKeeps
  <2> QED BY <1>1, <2>1, <2>2 DEF Open
<1>2. ASSUME NEW x \in states, NEW t \in Sessions, Rebind(x, t) PROVE InboxesInv' /\ Followed /\ Grows
  BY <1>2, BeginKeeps DEF Rebind, Free
<1>3. CASE \E s \in Sessions : Open(s) \/ Read(s) \/ DismissAll(s) BY <1>1, <1>3, ReadKeeps, DismissAllKeeps
<1>4. CASE \E x \in states :
             \/ \E t \in Sessions : Rebind(x, t)
             \/ Commit(x) \/ Close(x)
             \/ \E survivor \in {"prior", "candidate"} : Abort(x, survivor)
             \/ \E g \in Gens : Add(x, g)
  BY <1>2, <1>4, CommitKeeps, CloseKeeps, AbortKeeps, AddKeeps
<1>5. CASE \E s \in Sessions, n \in Orders : Dismiss(s, n) BY <1>5, DismissKeeps
<1>6. CASE Dispose BY <1>6, DisposeKeeps
<1> QED BY <1>3, <1>4, <1>5, <1>6 DEF Next

LEMMA InboxesStep == InboxesInv /\ [Next]_vars => InboxesInv'
<1> SUFFICES ASSUME InboxesInv, [Next]_vars PROVE InboxesInv' OBVIOUS
<1>1. CASE Next BY <1>1, InboxesKeep
<1>2. CASE UNCHANGED vars
  <2>1. /\ states' = states /\ inbox' = inbox /\ lastRevision' = lastRevision /\ lastWatermark' = lastWatermark
        /\ nextOrder' = nextOrder /\ gens' = gens /\ disposed' = disposed /\ snapshot' = snapshot /\ discards' = discards /\ owed' = owed
    BY <1>2 DEF vars, last, issued
  <2>2. NumbersOK /\ StatesOK /\ (\A x \in states : HasBuckets(x)) /\ (\A s \in Sessions : SessionOK(s) /\ AckOK(s))
        /\ (disposed => states = {})
    BY DEF InboxesInv
  <2>3. NumbersOK' /\ StatesOK' BY <2>1, <2>2 DEF NumbersOK, StatesOK
  <2>4. \A x \in states' : HasBuckets(x)' BY <2>1, <2>2 DEF HasBuckets
  <2>5. \A s \in Sessions : SessionOK(s)' /\ AckOK(s)' BY <2>1, <2>2 DEF SessionOK, AckOK, StatesOf
  <2> QED BY <2>1, <2>2, <2>3, <2>4, <2>5 DEF InboxesInv
<1> QED BY <1>1, <1>2

LEMMA InvIsExact == InboxesInv => InboxesAreExact
<1> SUFFICES ASSUME InboxesInv PROVE InboxesAreExact OBVIOUS
<1>1. \A s \in Sessions : SessionOK(s) BY DEF InboxesInv
<1>2. CountsAreExact
  <2> SUFFICES ASSUME NEW s \in Sessions, inbox[s] # None, NEW i \in DOMAIN inbox[s].buckets
               PROVE  inbox[s].buckets[i].discarded = Cardinality({o \in owed[s] : o.gen = inbox[s].buckets[i].gen})
    BY DEF CountsAreExact
  <2>1. Counts(inbox[s].buckets, owed[s], gens, discards, nextOrder) BY <1>1 DEF SessionOK
  <2> QED BY <2>1 DEF Counts, Owed
<1>3. InboxesHaveOneOwner
  <2> SUFFICES ASSUME NEW s \in Sessions PROVE Cardinality(StatesOf(s)) = (IF inbox[s] = None THEN 0 ELSE 1)
    BY DEF InboxesHaveOneOwner
  <2>1. SessionOK(s) BY <1>1
  <2>2. CASE inbox[s] = None BY <2>1, <2>2, FS_EmptySet DEF SessionOK
  <2>3. CASE inbox[s] # None
    <3>1. PICK x \in StatesOf(s) : TRUE BY <2>1, <2>3 DEF SessionOK
    <3>2. StatesOf(s) = {x} BY <3>1, OneState DEF InboxesInv
    <3> QED BY <2>3, <3>2, FS_Singleton
  <2> QED BY <2>2, <2>3
<1> QED BY <1>2, <1>3 DEF InboxesAreExact

\* Inboxes are exact, whatever runtimes are replaced, rebound or share one.
THEOREM InboxesStayExact == Spec => []InboxesAreExact
<1>1. Init => InboxesInv BY InboxesBegin
<1>2. InboxesInv /\ [Next]_vars => InboxesInv' BY InboxesStep
<1>3. InboxesInv => InboxesAreExact BY InvIsExact
<1> QED BY <1>1, <1>2, <1>3, PTL DEF Spec

\* A client that follows the events shows the inbox, and revisions only grow.
THEOREM ClientsStayInStep == Spec => ClientsFollow
<1>1. Init => InboxesInv BY InboxesBegin
<1>2. InboxesInv /\ [Next]_vars => InboxesInv' BY InboxesStep
<1>3. InboxesInv /\ [Next]_vars
      => [disposed' \/ \A s \in Sessions :
            LET es == {i \in DOMAIN events' : events'[i].session = s} IN
            Shown(s)' = IF es = {} THEN Shown(s)
                        ELSE Applied(events'[Max(es)], Shown(s), Shown(s)')]_vars
  <2> SUFFICES ASSUME InboxesInv, Next
               PROVE  disposed' \/ \A s \in Sessions : FollowsAt(s)
    BY DEF FollowsAt
  <2> QED BY InboxesKeep DEF Followed
<1>4. InboxesInv /\ [Next]_vars
      => [\A i \in DOMAIN events' : disposed' \/ events'[i].revision > lastRevision[events'[i].session]]_vars
  BY InboxesKeep DEF Grows
<1>5. Spec => DeltasExplain BY <1>1, <1>2, <1>3, PTL DEF Spec, DeltasExplain
<1>6. Spec => RevisionsAdvance BY <1>1, <1>2, <1>4, PTL DEF Spec, RevisionsAdvance
<1> QED BY <1>5, <1>6 DEF ClientsFollow

=============================================================================
