------------------------ MODULE MCNotificationInbox ------------------------
(* What the server answers and stores outside the sessions themselves: inboxes, *)
(* dialogs, the routes, the two configurations, packages and machines. They     *)
(* share no state: a behaviour is one of one of them, which the first state     *)
(* chooses.                                                                     *)
EXTENDS NotificationInbox, ExtensionDialogs, SessionRoutes, Settings, OmpSettings, Packages, Machines, TLC
CONSTANTS s1, s2, MaxTogether  \* bound: notifications and generations together

MCSymmetry == Permutations(Sessions)
MCOwner == ("p1" :> "pi" @@ "o1" :> "omp")

VARIABLE component

inboxVars == vars
allVars == <<component, inboxVars, dialogVars, routeVars, settingsVars, ompSettingsVars, packageVars, machineVars>>

\* A bound: only the first dialog is of every kind, and only as a selection may it have
\* a timer and a signal; the others are selections with neither.
MCFewDialogs ==
  \A d \in Dialogs :
    \/ dialog[d] = NoDialog
    \/ (d = "d1" /\ dialog[d].kind = "select")
    \/ /\ ~dialog[d].timed /\ ~dialog[d].signalled
       /\ (d = "d1" \/ dialog[d].kind = "select")

\* A bound: once there is a receipt only commands come, which alone look at it.
MCCommandsOnceReceipted == receipts = {} \/ call = NoCall \/ Commanded(call)

\* The components that rest are in one initial state.
MCInit ==
  /\ component \in {"inboxes", "dialogs", "routes", "settings", "omp settings", "packages", "machines"}
  /\ Init /\ DialogsInit /\ RoutesInit /\ SettingsInit /\ OmpSettingsInit /\ PackagesInit /\ MachinesInit
  /\ component = "routes" \/ defaultRuntime = "pi"
  /\ component = "settings" \/ ((file = Empty) /\ dirSet /\ knows)

MCNext ==
  /\ UNCHANGED component
  /\ \/ /\ component = "inboxes" /\ Next /\ nextOrder' + gens' <= MaxTogether
        /\ UNCHANGED <<dialogVars, routeVars, settingsVars, ompSettingsVars, packageVars, machineVars>>
     \/ /\ component = "dialogs" /\ DialogsNext /\ MCFewDialogs'
        /\ UNCHANGED <<inboxVars, routeVars, settingsVars, ompSettingsVars, packageVars, machineVars>>
     \/ /\ component = "routes" /\ RoutesNext /\ MCCommandsOnceReceipted'
        /\ UNCHANGED <<inboxVars, dialogVars, settingsVars, ompSettingsVars, packageVars, machineVars>>
     \/ /\ component = "settings" /\ SettingsNext
        /\ UNCHANGED <<inboxVars, dialogVars, routeVars, ompSettingsVars, packageVars, machineVars>>
     \/ /\ component = "omp settings" /\ OmpSettingsNext
        /\ UNCHANGED <<inboxVars, dialogVars, routeVars, settingsVars, packageVars, machineVars>>
     \/ /\ component = "packages" /\ PackagesNext
        /\ UNCHANGED <<inboxVars, dialogVars, routeVars, settingsVars, ompSettingsVars, machineVars>>
     \/ /\ component = "machines" /\ MachinesNext
        /\ UNCHANGED <<inboxVars, dialogVars, routeVars, settingsVars, ompSettingsVars, packageVars>>

MCSpec == MCInit /\ [][MCNext]_allVars

------------------------------------------------------------------------------

\* What was acknowledged is what there is, however requests overlap: the program's configuration,
\* OMP's settings, packages, and the machines and what is shown of them (config.ts,
\* ompConfigRoutes.ts, piPackageService.ts, machineStore.ts, machineService.ts).
AcknowledgedIsKept ==
  /\ AcceptedIsInEffect /\ SchemaIsCurrent /\ NoneIsSetUnchecked /\ PackagesAreKept
  /\ CachedIsPresent /\ AcknowledgedIsListed
============================================================================
