------------------------ MODULE SessionAccessProofs -------------------------
(***************************************************************************)
(* Proofs about the sessions of the daemon: who owns a session's runtime,  *)
(* what a tree navigation excludes, the work that archiving spares, what   *)
(* the parent of subsessions is told, what writes into a session, and that *)
(* its past is shown as it was, for any number of requests, runtimes,      *)
(* children and session objects, any tree, history, page and cleanup.      *)
(***************************************************************************)
EXTENDS MCSessionAccess, FiniteSetTheorems, SequenceTheorems, WellFoundedInduction, TLAPS

----------------------------------------------------------------------------
(* Subsessions *)

\* A child owes a notice while it is armed or works.
Owes(c) == c \in armed \/ work[c] # "none"

SubsessionsTypeOK ==
  /\ noticed \in [Children -> Nat] /\ spells \in [Children -> Nat]
  /\ spawning \in [Children -> {"none", "created", "registered"}]
  /\ work \in [Children -> {"none", "prompted", "turn"}]

NoticesOK == \A c \in Children : noticed[c] <= spells[c] /\ (Owes(c) => noticed[c] < spells[c])

\* A child that is being detached has no header, and never gets it back.
HeadersOK ==
  /\ header \subseteq born /\ links \subseteq born /\ detaching \subseteq born
  /\ detaching \cap header = {}
  /\ \A c \in Children : /\ spawning[c] # "none" => c \in born
                         /\ spawning[c] = "registered" => c \in tracked \/ c \notin header

\* A complete scan, once registered, leaves no link out.
LinksOK ==
  /\ HydratedIsComplete
  /\ scan.open /\ scan.complete => links \cap header \subseteq tracked \cup scan.found

SubsessionsInv == SubsessionsTypeOK /\ NoticesOK /\ HeadersOK /\ LinksOK

LEMMA TrackFacts ==
  ASSUME SubsessionsTypeOK, NoticesOK, NEW c \in Children, NEW owing \in BOOLEAN, Track(c, owing),
         spells' = spells, work' \in [Children -> {"none", "prompted", "turn"}],
         \A d \in Children : d # c => work'[d] = work[d],
         owing => work[c] # "none",
         ~owing => work'[c] = "none",
         work[c] = "none" => work'[c] = "none"
  PROVE  noticed' \in [Children -> Nat] /\ NoticesOK'
<1> USE DEF SubsessionsTypeOK
<1>1. CASE c \in tracked /\ ~owing /\ c \in armed
  <2>1. armed' = armed \ {c} /\ noticed' = [noticed EXCEPT ![c] = @ + 1]
    BY <1>1 DEF Track
  <2>2. noticed[c] \in Nat /\ spells[c] \in Nat /\ noticed[c] < spells[c]
    BY <1>1 DEF NoticesOK, Owes
  <2>3. noticed' \in [Children -> Nat] /\ noticed'[c] = noticed[c] + 1
        /\ \A d \in Children : d # c => noticed'[d] = noticed[d]
    BY <2>1, <2>2
  <2>4. \A d \in Children : Owes(d)' => d # c /\ Owes(d)
    BY <1>1, <2>1 DEF Owes
  <2> QED BY <2>2, <2>3, <2>4 DEF NoticesOK
<1>2. CASE ~(c \in tracked /\ ~owing /\ c \in armed)
  <2>1. noticed' = noticed /\ armed' \subseteq armed \cup {c} /\ (c \in armed' => c \in armed \/ owing)
    BY <1>2 DEF Track
  <2>2. \A d \in Children : Owes(d)' => Owes(d)
    BY <2>1 DEF Owes
  <2> QED BY <2>1, <2>2 DEF NoticesOK
<1> QED BY <1>1, <1>2

\* Each step keeps the count of notices: a spell of work is paid for once.
LEMMA NoticesNext ==
  ASSUME SubsessionsInv, [SubsessionsNext]_subsessionVars
  PROVE  SubsessionsTypeOK' /\ NoticesOK'
<1>1. SubsessionsTypeOK /\ NoticesOK
  BY DEF SubsessionsInv
<1> USE DEF SubsessionsTypeOK, tracking, childWork, notifying, files, parentWork
<1>2. ASSUME NEW c \in Children, SpawnPrompts(c, TRUE, TRUE) \/ SpawnPrompts(c, TRUE, FALSE)
               \/ SpawnPrompts(c, FALSE, TRUE) \/ SpawnPrompts(c, FALSE, FALSE) \/ PromptChild(c)
      PROVE  SubsessionsTypeOK' /\ NoticesOK'
  <2>1. /\ work' = [work EXCEPT ![c] = "prompted"] /\ spells' = [spells EXCEPT ![c] = @ + 1]
        /\ noticed' = noticed /\ armed' = armed
        /\ spawning' = spawning \/ spawning' = [spawning EXCEPT ![c] = "none"]
    BY <1>2 DEF SpawnPrompts, PromptChild
  <2>2. SubsessionsTypeOK'
    BY <1>1, <2>1
  <2>3. \A d \in Children : /\ noticed[d] \in Nat /\ spells[d] \in Nat
                            /\ spells'[d] = IF d = c THEN spells[d] + 1 ELSE spells[d]
                            /\ (Owes(d)' => d = c \/ Owes(d))
    BY <1>1, <2>1 DEF Owes
  <2> QED BY <1>1, <2>1, <2>2, <2>3 DEF NoticesOK
<1>3. ASSUME NEW c \in Children, TurnStarts(c) \/ TurnEnds(c, TRUE) \/ TurnEnds(c, FALSE)
               \/ HeartbeatTracks(c)
      PROVE  SubsessionsTypeOK' /\ NoticesOK'
  <2>1. /\ spells' = spells /\ spawning' = spawning
        /\ work' \in [Children -> {"none", "prompted", "turn"}]
        /\ \A d \in Children : d # c => work'[d] = work[d]
    BY <1>1, <1>3 DEF TurnStarts, TurnEnds, HeartbeatTracks
  <2>2. \E owing \in BOOLEAN :
          /\ Track(c, owing)
          /\ owing => work[c] # "none"
          /\ ~owing => work'[c] = "none"
          /\ work[c] = "none" => work'[c] = "none"
    BY <1>1, <1>3 DEF TurnStarts, TurnEnds, HeartbeatTracks
  <2>3. noticed' \in [Children -> Nat] /\ NoticesOK'
    BY <1>1, <2>1, <2>2, TrackFacts
  <2> QED BY <1>1, <2>1, <2>3
<1>4. ASSUME armed' \subseteq armed, noticed' = noticed, spells' = spells,
             work' \in [Children -> {"none", "prompted", "turn"}],
             spawning' \in [Children -> {"none", "created", "registered"}],
             \A d \in Children : work'[d] = work[d] \/ work'[d] = "none"
      PROVE  SubsessionsTypeOK' /\ NoticesOK'
  <2>1. \A d \in Children : Owes(d)' => Owes(d)
    BY <1>4 DEF Owes
  <2> QED BY <1>1, <1>4, <2>1 DEF NoticesOK
<1>5. ASSUME NEW c \in Children,
             SpawnCreates(c) \/ SpawnRegisters(c) \/ ChildPromptFails(c) \/ CloseChild(c)
               \/ OpenChildScans(c) \/ DetachWrites(c) \/ Unreadable(c) \/ Readable(c)
               \/ NoticeArrives(c) \/ NoticeFails(c)
      PROVE  SubsessionsTypeOK' /\ NoticesOK'
  BY <1>1, <1>4, <1>5 DEF SpawnCreates, SpawnRegisters, ChildPromptFails, CloseChild, OpenChildScans,
     DetachWrites, Unreadable, Readable, NoticeArrives, NoticeFails, Register
<1>6. ASSUME HydrateScans \/ ScanRegisters \/ DetachUnregisters \/ NavigationBegins
               \/ ParentNavigationEnds \/ Yield \/ TurnIsOver \/ ParentEnds \/ ParentWakes \/ PromptParent
               \/ Crash \/ UNCHANGED subsessionVars
      PROVE  SubsessionsTypeOK' /\ NoticesOK'
  BY <1>1, <1>4, <1>6 DEF HydrateScans, ScanRegisters, DetachUnregisters, NavigationBegins,
     ParentNavigationEnds, Yield, TurnIsOver, ParentEnds, ParentWakes, PromptParent, Crash, Register,
     subsessionVars
<1> QED BY <1>2, <1>3, <1>5, <1>6 DEF SubsessionsNext

\* Each step keeps what the parent knows: links come with tracked children only.
LEMMA LinksNext ==
  ASSUME SubsessionsInv, [SubsessionsNext]_subsessionVars
  PROVE  HeadersOK' /\ LinksOK'
<1>1. SubsessionsTypeOK /\ HeadersOK /\ LinksOK
  BY DEF SubsessionsInv
<1> USE DEF tracking, childWork, notifying, files, parentWork, HydratedIsComplete
<1>2. ASSUME UNCHANGED <<header, born, links, detaching, spawning, tracked, hydrated, scan>>
      PROVE  HeadersOK' /\ LinksOK'
  BY <1>1, <1>2 DEF HeadersOK, LinksOK
<1>3. ASSUME NEW c \in Children, SpawnCreates(c) PROVE HeadersOK' /\ LinksOK'
  <2>1. /\ c \notin born /\ header' = header \cup {c} /\ born' = born \cup {c}
        /\ \A d \in Children : d # c => spawning'[d] = spawning[d]
        /\ spawning'[c] = "created"
        /\ UNCHANGED <<links, tracked, hydrated, scan, detaching>>
    BY <1>1, <1>3 DEF SpawnCreates, SubsessionsTypeOK
  <2> QED BY <1>1, <2>1 DEF HeadersOK, LinksOK
<1>4. ASSUME NEW c \in Children, SpawnRegisters(c) PROVE HeadersOK' /\ LinksOK'
  <2>1. /\ tracked' = tracked \cup {c} /\ spawning' = [spawning EXCEPT ![c] = "registered"]
        /\ spawning[c] = "created"
        /\ UNCHANGED <<header, born, links, hydrated, scan, detaching>>
    BY <1>4 DEF SpawnRegisters, Register
  <2>2. \A d \in Children : d # c => spawning'[d] = spawning[d]
    BY <1>1, <2>1 DEF SubsessionsTypeOK
  <2> QED BY <1>1, <2>1, <2>2 DEF HeadersOK, LinksOK
<1>5. ASSUME NEW c \in Children, NEW linked \in BOOLEAN, NEW mark \in BOOLEAN,
             SpawnPrompts(c, linked, mark)
      PROVE  HeadersOK' /\ LinksOK'
  <2>1. /\ spawning[c] = "registered" /\ spawning' = [spawning EXCEPT ![c] = "none"]
        /\ links' \subseteq links \cup {c} /\ (c \in tracked \/ c \notin header) /\ c \in born
        /\ UNCHANGED <<header, born, tracked, hydrated, scan, detaching>>
    BY <1>1, <1>5 DEF SpawnPrompts, WriteLinks, HeadersOK
  <2>2. \A d \in Children : d # c => spawning'[d] = spawning[d]
    BY <1>1, <2>1 DEF SubsessionsTypeOK
  <2>3. spawning'[c] = "none"
    BY <1>1, <2>1 DEF SubsessionsTypeOK
  <2> QED BY <1>1, <2>1, <2>2, <2>3 DEF HeadersOK, LinksOK
<1>6. ASSUME NEW c \in Children, OpenChildScans(c) PROVE HeadersOK' /\ LinksOK'
  BY <1>1, <1>6 DEF OpenChildScans, HeadersOK, LinksOK
<1>7. ASSUME NEW c \in Children, DetachWrites(c) PROVE HeadersOK' /\ LinksOK'
  <2>1. /\ c \in header /\ header' = header \ {c} /\ detaching' = {c}
        /\ UNCHANGED <<born, links, spawning, tracked, hydrated, scan>>
    BY <1>7 DEF DetachWrites, ClearHeader
  <2> QED BY <1>1, <2>1 DEF HeadersOK, LinksOK
<1>8. CASE HydrateScans
  <2>1. /\ scan'.complete => links \cap header \subseteq scan'.found
        /\ UNCHANGED <<header, born, links, detaching, spawning, tracked, hydrated>>
    BY <1>8 DEF HydrateScans, VerifiedByLink
  <2> QED BY <1>1, <2>1 DEF HeadersOK, LinksOK
<1>9. CASE ScanRegisters
  <2>1. /\ tracked' = tracked \cup scan.found /\ scan' = NoScan /\ scan.open
        /\ hydrated' => hydrated \/ scan.complete
        /\ UNCHANGED <<header, born, links, detaching, spawning>>
    BY <1>9 DEF ScanRegisters, Register, ScanCounts
  <2> QED BY <1>1, <2>1 DEF HeadersOK, LinksOK, NoScan
<1>10. CASE DetachUnregisters
  <2>1. /\ tracked' = tracked \ detaching /\ detaching' = {}
        /\ UNCHANGED <<header, born, links, hydrated, spawning, scan>>
    BY <1>10 DEF DetachUnregisters
  <2> QED BY <1>1, <2>1 DEF HeadersOK, LinksOK
<1>11. CASE Crash
  BY <1>1, <1>11 DEF Crash, HeadersOK, LinksOK, NoScan
<1>12. ASSUME NEW c \in Children,
              PromptChild(c) \/ TurnStarts(c) \/ ChildPromptFails(c) \/ TurnEnds(c, TRUE)
                \/ TurnEnds(c, FALSE) \/ HeartbeatTracks(c) \/ CloseChild(c) \/ Unreadable(c)
                \/ Readable(c) \/ NoticeArrives(c) \/ NoticeFails(c)
       PROVE  HeadersOK' /\ LinksOK'
  BY <1>2, <1>12 DEF PromptChild, TurnStarts, ChildPromptFails, TurnEnds, HeartbeatTracks, CloseChild,
     Unreadable, Readable, NoticeArrives, NoticeFails
<1>13. CASE \/ NavigationBegins \/ ParentNavigationEnds \/ Yield \/ TurnIsOver \/ ParentEnds
            \/ ParentWakes \/ PromptParent \/ UNCHANGED subsessionVars
  BY <1>2, <1>13 DEF NavigationBegins, ParentNavigationEnds, Yield, TurnIsOver, ParentEnds, ParentWakes,
     PromptParent, subsessionVars
<1> QED BY <1>3, <1>4, <1>5, <1>6, <1>7, <1>8, <1>9, <1>10, <1>11, <1>12, <1>13 DEF SubsessionsNext

SubsessionsSpec == SubsessionsInit /\ [][SubsessionsNext]_subsessionVars

\* A child's spell of work brings its parent one notice at most, and a parent whose
\* links were recovered knows every child that was not detached.
THEOREM SubsessionsTellOnce == SubsessionsSpec => []ParentIsToldOnce
<1>1. SubsessionsInit => SubsessionsInv
  BY DEF SubsessionsInit, SubsessionsInv, SubsessionsTypeOK, NoticesOK, HeadersOK, LinksOK, Owes, NoScan,
     HydratedIsComplete
<1>2. SubsessionsInv /\ [SubsessionsNext]_subsessionVars => SubsessionsInv'
  BY NoticesNext, LinksNext DEF SubsessionsInv
<1>3. SubsessionsInv => ParentIsToldOnce
  BY DEF SubsessionsInv, NoticesOK, LinksOK, ParentIsToldOnce, OneNoticePerSpell
<1> QED BY <1>1, <1>2, <1>3, PTL DEF SubsessionsSpec

----------------------------------------------------------------------------
(* What writes into a session *)

EntriesTypeOK ==
  /\ appended \in [Objects -> Nat] /\ name \in [Objects -> {"none", "given", "made"}]
  /\ asking \in [Askers -> {"idle", "reloads", "sets"}] /\ kept \in [Askers -> Objects \cup {0}]
  /\ current \in 0..opened /\ opened \in 0..MaxObjects
  /\ \A a \in Askers : asking[a] # "idle" => kept[a] \in Objects
  /\ turn \subseteq Objects /\ treeBusy \subseteq Objects

\* A navigation has its session alone, and what waits for one is of it.
EntriesInv ==
  /\ EntriesTypeOK
  /\ turn \cap treeBusy = {}
  /\ \A a \in Askers : asking[a] = "sets" => kept[a] \notin treeBusy
  /\ postponed \subseteq treeBusy

\* What every step does to the entries, the names and what waits.
EntriesStep ==
  /\ \A o \in Objects : o \in treeBusy /\ o \in treeBusy' => appended'[o] = appended[o]
  /\ \A o \in Objects : opened >= o /\ name[o] = "given" => name'[o] = "given"
  /\ \A o \in postponed \ postponed' : o # current \/ name'[o] # "none"

\* A step that changes no more than whose turn it is, or the name that is made.
LEMMA EntriesRest ==
  ASSUME EntriesInv, EntriesTypeOK', turn' \cap treeBusy' = {}, treeBusy' = treeBusy,
         \A a \in Askers : asking'[a] = "sets" => kept'[a] \notin treeBusy,
         postponed' \subseteq treeBusy, postponed \subseteq postponed',
         \A o \in Objects : o \in treeBusy => appended'[o] = appended[o],
         \A o \in Objects : opened >= o /\ name[o] = "given" => name'[o] = "given"
  PROVE  EntriesInv' /\ EntriesStep
BY DEF EntriesInv, EntriesStep

LEMMA EntriesFrame ==
  ASSUME EntriesInv, UNCHANGED <<treeBusy, postponed, name>>, EntriesTypeOK', turn' \cap treeBusy = {},
         \A a \in Askers : asking'[a] = "sets" => kept'[a] \notin treeBusy,
         \A o \in Objects : o \in treeBusy => appended'[o] = appended[o]
  PROVE  EntriesInv' /\ EntriesStep
BY DEF EntriesInv, EntriesStep

LEMMA WrittenFacts ==
  ASSUME EntriesTypeOK, NEW o \in Objects, Written(o)
  PROVE  /\ appended' \in [Objects -> Nat]
         /\ \A x \in Objects : x # o => appended'[x] = appended[x]
BY DEF EntriesTypeOK, Written

\* A generated name changes no entry of a session that navigates, and no given name.
LEMMA ApplyNameFacts ==
  ASSUME EntriesInv, NEW o \in Objects, ApplyName(o)
  PROVE  /\ appended' \in [Objects -> Nat] /\ name' \in [Objects -> {"none", "given", "made"}]
         /\ postponed \subseteq postponed' /\ postponed' \subseteq treeBusy
         /\ \A x \in Objects : x \in treeBusy => appended'[x] = appended[x]
         /\ \A x \in Objects : name[x] = "given" => name'[x] = "given"
<1>1. EntriesTypeOK /\ postponed \subseteq treeBusy
  BY DEF EntriesInv
<1>2. CASE UNCHANGED <<name, postponed, appended>>
  BY <1>1, <1>2 DEF EntriesTypeOK
<1>3. CASE o \in treeBusy /\ postponed' = postponed \cup {o} /\ UNCHANGED <<name, appended>>
  BY <1>1, <1>3 DEF EntriesTypeOK
<1>4. CASE /\ o \notin treeBusy /\ name[o] = "none" /\ name' = [name EXCEPT ![o] = "made"]
           /\ Written(o) /\ postponed' = postponed
  BY <1>1, <1>4, WrittenFacts DEF EntriesTypeOK
<1> QED BY <1>2, <1>3, <1>4 DEF ApplyName

LEMMA EntriesNextFacts ==
  ASSUME EntriesInv, [EntriesNext]_entriesVars
  PROVE  EntriesInv' /\ EntriesStep
<1> USE DEF naming, modelAsks
<1>0. /\ EntriesTypeOK /\ turn \cap treeBusy = {} /\ postponed \subseteq treeBusy
      /\ \A a \in Askers : asking[a] = "sets" => kept[a] \notin treeBusy
      /\ (current # 0 => current \in Objects)
  BY EntriesBounds DEF EntriesInv, EntriesTypeOK, Objects
<1>1. CASE OpenObject
  <2>1. opened + 1 \in Objects /\ opened + 1 \in 0..MaxObjects /\ opened \in Nat
    BY <1>0, <1>1, EntriesBounds DEF OpenObject, EntriesTypeOK, Objects
  <2>2. /\ name' \in [Objects -> {"none", "given", "made"}]
        /\ \A o \in Objects : o # opened + 1 => name'[o] = name[o]
    BY <1>0, <1>1, <2>1 DEF OpenObject, EntriesTypeOK
  <2>3. EntriesTypeOK'
    BY <1>0, <1>1, <2>1, <2>2 DEF OpenObject, EntriesTypeOK
  <2>4. \A o \in Objects : opened >= o => o # opened + 1
    BY <2>1 DEF Objects
  <2> QED BY <1>0, <1>1, <2>2, <2>3, <2>4, EntriesRest DEF OpenObject
<1>2. CASE CloseObject
  <2>1. EntriesTypeOK'
    BY <1>0, <1>2 DEF CloseObject, EntriesTypeOK
  <2> QED BY <1>0, <1>2, <2>1, EntriesFrame DEF CloseObject
<1>3. CASE SendPrompt
  <2>1. EntriesTypeOK' /\ UNCHANGED <<name, postponed>>
    BY <1>0, <1>3 DEF SendPrompt, EntriesTypeOK
  <2> QED BY <1>0, <1>3, <2>1, EntriesFrame DEF SendPrompt
<1>4. CASE SendRelayPrompt
  <2>1. current \in Objects /\ ApplyName(current) /\ current \notin treeBusy
    BY <1>0, <1>4 DEF SendRelayPrompt
  <2>2. EntriesTypeOK'
    BY <1>0, <1>4, <2>1, ApplyNameFacts DEF SendRelayPrompt, EntriesTypeOK
  <2> QED BY <1>0, <1>4, <2>1, <2>2, ApplyNameFacts, EntriesRest DEF SendRelayPrompt
<1>5. ASSUME NEW o \in Objects, PromptWrites(o) PROVE EntriesInv' /\ EntriesStep
  <2>1. appended' \in [Objects -> Nat] /\ \A x \in Objects : x # o => appended'[x] = appended[x]
    BY <1>0, <1>5, WrittenFacts DEF PromptWrites, EntriesTypeOK
  <2>2. EntriesTypeOK'
    BY <1>0, <1>5, <2>1 DEF PromptWrites, EntriesTypeOK
  <2> QED BY <1>0, <1>5, <2>1, <2>2, EntriesFrame DEF PromptWrites
<1>6. ASSUME NEW o \in Objects, NameIsMade(o) PROVE EntriesInv' /\ EntriesStep
  <2>1. CASE ApplyName(o)
    <3>1. EntriesTypeOK'
      BY <1>0, <1>6, <2>1, ApplyNameFacts DEF NameIsMade, EntriesTypeOK
    <3> QED BY <1>0, <1>6, <2>1, <3>1, ApplyNameFacts, EntriesRest DEF NameIsMade
  <2>2. CASE UNCHANGED <<name, postponed, appended>>
    <3>1. EntriesTypeOK'
      BY <1>0, <1>6, <2>2 DEF NameIsMade, EntriesTypeOK
    <3> QED BY <1>0, <1>6, <2>2, <3>1, EntriesFrame DEF NameIsMade
  <2> QED BY <1>6, <2>1, <2>2 DEF NameIsMade
<1>7. ASSUME NEW o \in Objects, EndNavigation(o) PROVE EntriesInv' /\ EntriesStep
  <2>1. CASE o \in postponed /\ o = current /\ name[o] = "none"
    <3>1. /\ name' = [name EXCEPT ![o] = "made"] /\ Written(o) /\ postponed' = postponed \ {o}
          /\ treeBusy' = treeBusy \ {o}
      BY <1>7, <2>1 DEF EndNavigation, FlushDeferred
    <3>2. EntriesTypeOK' /\ name'[o] = "made" /\ \A x \in Objects : x # o => name'[x] = name[x]
      BY <1>0, <1>7, <3>1, WrittenFacts DEF EndNavigation, EntriesTypeOK
    <3> QED BY <1>0, <1>7, <2>1, <3>1, <3>2, WrittenFacts DEF EndNavigation, EntriesInv, EntriesStep
  <2>2. CASE ~(o \in postponed /\ o = current /\ name[o] = "none")
    <3>1. postponed' = postponed \ {o} /\ treeBusy' = treeBusy \ {o} /\ UNCHANGED <<name, appended>>
      BY <1>7, <2>2 DEF EndNavigation, FlushDeferred
    <3>2. EntriesTypeOK'
      BY <1>0, <1>7, <3>1 DEF EndNavigation, EntriesTypeOK
    <3> QED BY <1>0, <1>7, <2>2, <3>1, <3>2 DEF EndNavigation, EntriesInv, EntriesStep
  <2> QED BY <2>1, <2>2
<1>8. CASE GiveName
  <2>1. current \in Objects /\ current \notin treeBusy /\ Written(current)
    BY <1>0, <1>8 DEF GiveName
  <2>2. /\ name' \in [Objects -> {"none", "given", "made"}]
        /\ \A x \in Objects : name'[x] = name[x] \/ name'[x] = "given"
    BY <1>0, <1>8, <2>1 DEF GiveName, EntriesTypeOK
  <2>3. EntriesTypeOK'
    BY <1>0, <1>8, <2>1, <2>2, WrittenFacts DEF GiveName, EntriesTypeOK
  <2> QED BY <1>0, <1>8, <2>1, <2>2, <2>3, WrittenFacts, EntriesRest DEF GiveName
<1>9. CASE SetThinkingLevel
  <2>1. current \in Objects /\ current \notin treeBusy /\ Written(current)
    BY <1>0, <1>9 DEF SetThinkingLevel
  <2>2. EntriesTypeOK'
    BY <1>0, <1>9, <2>1, WrittenFacts DEF SetThinkingLevel, EntriesTypeOK
  <2> QED BY <1>0, <1>9, <2>1, <2>2, WrittenFacts, EntriesFrame DEF SetThinkingLevel
<1>10. CASE BeginNavigation
  <2>1. EntriesTypeOK'
    BY <1>0, <1>10 DEF BeginNavigation, EntriesTypeOK
  <2>2. current \notin turn /\ \A a \in Askers : asking[a] = "sets" => kept[a] # current
    BY <1>10 DEF BeginNavigation, SessionIsBusy, SessionMutates
  <2> QED BY <1>0, <1>10, <2>1, <2>2 DEF BeginNavigation, EntriesInv, EntriesStep
<1>11. ASSUME NEW a \in Askers, CycleModel(a) \/ AskModel(a) PROVE EntriesInv' /\ EntriesStep
  <2>1. /\ current \in Objects /\ current \notin treeBusy /\ kept' = [kept EXCEPT ![a] = current]
        /\ asking' \in [Askers -> {"idle", "reloads", "sets"}]
        /\ \A b \in Askers : b # a => asking'[b] = asking[b]
        /\ UNCHANGED <<current, opened, name, postponed, turn, treeBusy, appended>>
    BY <1>0, <1>11 DEF CycleModel, AskModel, EntriesTypeOK
  <2>2. /\ kept'[a] = current /\ \A b \in Askers : b # a => kept'[b] = kept[b]
        /\ kept' \in [Askers -> Objects \cup {0}]
    BY <1>0, <2>1 DEF EntriesTypeOK
  <2>3. EntriesTypeOK'
    BY <1>0, <2>1, <2>2 DEF EntriesTypeOK
  <2> QED BY <1>0, <2>1, <2>2, <2>3, EntriesFrame
<1>12. ASSUME NEW a \in Askers, ConfigReloaded(a) PROVE EntriesInv' /\ EntriesStep
  <2>1. /\ asking' \in [Askers -> {"idle", "reloads", "sets"}]
        /\ \A b \in Askers : b # a => asking'[b] = asking[b]
        /\ asking'[a] = "sets" => kept[a] \notin treeBusy
        /\ asking[a] # "idle"
        /\ UNCHANGED <<current, opened, name, postponed, turn, treeBusy, appended, kept>>
    BY <1>0, <1>12 DEF ConfigReloaded, MayMutate, EntriesTypeOK
  <2>2. EntriesTypeOK'
    BY <1>0, <2>1 DEF EntriesTypeOK
  <2> QED BY <1>0, <2>1, <2>2, EntriesFrame
<1>13. ASSUME NEW a \in Askers, ModelIsSet(a) PROVE EntriesInv' /\ EntriesStep
  <2>1. /\ asking' \in [Askers -> {"idle", "reloads", "sets"}]
        /\ \A b \in Askers : b # a => asking'[b] = asking[b]
        /\ asking'[a] = "idle" /\ asking[a] = "sets"
        /\ UNCHANGED <<current, opened, name, postponed, turn, treeBusy, kept>>
        /\ Written(kept[a]) \/ UNCHANGED appended
    BY <1>0, <1>13 DEF ModelIsSet, EntriesTypeOK
  <2>2. kept[a] \in Objects /\ kept[a] \notin treeBusy
    BY <1>0, <2>1 DEF EntriesTypeOK
  <2>3. appended' \in [Objects -> Nat] /\ \A o \in Objects : o \in treeBusy => appended'[o] = appended[o]
    BY <1>0, <2>1, <2>2, WrittenFacts DEF EntriesTypeOK
  <2>4. EntriesTypeOK'
    BY <1>0, <2>1, <2>3 DEF EntriesTypeOK
  <2> QED BY <1>0, <2>1, <2>3, <2>4, EntriesFrame
<1>14. CASE UNCHANGED entriesVars
  BY <1>0, <1>14, EntriesFrame DEF entriesVars, EntriesTypeOK
<1> QED BY <1>1, <1>2, <1>3, <1>4, <1>5, <1>6, <1>7, <1>8, <1>9, <1>10, <1>11, <1>12, <1>13, <1>14
        DEF EntriesNext

EntriesSpec == EntriesInit /\ [][EntriesNext]_entriesVars

\* Nothing writes behind a navigation, no made name replaces a given one, and no name that
\* was put off is lost.
THEOREM EntriesGuarded == EntriesSpec => EntriesAreGuarded
<1>1. EntriesInit => EntriesInv
  BY EntriesBounds DEF EntriesInit, EntriesInv, EntriesTypeOK, Objects
<1>2. EntriesInv /\ [EntriesNext]_entriesVars => EntriesInv'
  BY EntriesNextFacts
<1>3. EntriesInv /\ [EntriesNext]_entriesVars => EntriesStep
  BY EntriesNextFacts
<1>4. EntriesStep => [\A o \in Objects : o \in treeBusy /\ o \in treeBusy' => appended'[o] = appended[o]]_entriesVars
  BY DEF EntriesStep
<1>5. EntriesStep =>
        [\A o \in Objects : opened >= o /\ name[o] = "given" => name'[o] = "given"]_entriesVars
  BY DEF EntriesStep
<1>6. EntriesStep => [\A o \in postponed \ postponed' : o # current \/ name'[o] # "none"]_entriesVars
  BY DEF EntriesStep
<1> QED BY <1>1, <1>2, <1>3, <1>4, <1>5, <1>6, PTL
        DEF EntriesSpec, EntriesAreGuarded, EntriesStandStill, GivenNamesStay, PutOffIsDone

----------------------------------------------------------------------------
(* The session's runtime: the inductive invariant *)

Closers == {"archive", "archiveMany", "restore", "reload", "stop"}
Archivers == {"archive", "archiveMany", "reload"}
Holding == {"wait", "closeWait", "closing", "navigating", "aborting"}

\* A request that holds a runtime has one; archiving and reloading close a runtime under
\* their tree-exclusive operation only.
Standing(q) ==
  /\ q.at \in Holding => q.runtime \in Runtimes
  /\ q.at = "input" => q.op = "archive" /\ q.held
  /\ q.at = "check" => q.op = "archiveMany"
  /\ q.at \in {"closing", "closeWait"} => q.op \in Closers /\ (q.op \in Archivers => q.held)
PlacesOK == \A r \in Requests : Standing(requests[r])

OwnedOK ==
  /\ opening # None => runtimes[opening].phase = "creating" /\ active = None
  /\ active # None => runtimes[active].phase = "open"
  /\ \A t \in Runtimes : /\ runtimes[t].phase = "creating" => opening = t
                         /\ runtimes[t].phase = "open" => active = t

\* One request closes a runtime: another would dispose of a later one of that name.
ClosersOK ==
  /\ \A t \in Runtimes : runtimes[t].phase = "closing" =>
       \E r \in Requests : At(r, "closing") /\ requests[r].runtime = t
  /\ \A r \in Requests : At(r, "closing") =>
       /\ runtimes[requests[r].runtime].phase = "closing"
       /\ \A q \in Requests : At(q, "closing") /\ requests[q].runtime = requests[r].runtime => q = r

\* Nothing goes on in a runtime that is being created.
Idle(t) == /\ ~t.navigating /\ ~t.streaming /\ ~t.compacting
           /\ t.prompts = 0 /\ t.drained = 0
FreshOK == \A t \in Runtimes : runtimes[t].phase = "creating" => Idle(runtimes[t])

QueueOK == queued > 0 => active # None

\* Those that waited for a creation find its runtime, or none.
WaitersOK ==
  \A r \in Requests : requests[r].at \in {"wait", "closeWait"} =>
    /\ runtimes[requests[r].runtime].phase # "creating" => active \in {None, requests[r].runtime}
    /\ ~runtimes[requests[r].runtime].compacting

\* A navigation has the runtime alone, and what works under a tree-exclusive operation
\* began under it.
ActiveOK ==
  active # None =>
    /\ runtimes[active].navigating => ~Working(active) /\ ~Exclusive
    /\ Exclusive /\ (Working(active) \/ runtimes[active].navigating) => runtimes[active].late

AccessInv ==
  /\ TypeOK /\ PlacesOK /\ OwnedOK /\ ClosersOK /\ FreshOK /\ QueueOK /\ WaitersOK /\ ActiveOK

\* The step leaves the life of the runtimes alone, and ActiveOK is shown of it.
LEMMA LifeKeeps ==
  ASSUME AccessInv, TypeOK', UNCHANGED <<active, opening>>,
         \A t \in Runtimes :
           /\ runtimes'[t].phase = runtimes[t].phase
           /\ runtimes[t].phase = "creating" => Idle(runtimes'[t])
           /\ runtimes'[t].compacting => runtimes[t].compacting \/ (t = active /\ ~Settling),
         \A r \in Requests :
           \/ requests'[r] = requests[r]
           \/ /\ ~At(r, "closing") /\ requests'[r].at # "closing" /\ Standing(requests'[r])
              /\ requests'[r].at \in {"wait", "closeWait"} =>
                   opening # None /\ requests'[r].runtime = opening,
         queued' > 0 => queued > 0 \/ active # None,
         ActiveOK'
  PROVE  AccessInv'
<1>1. TypeOK /\ PlacesOK /\ OwnedOK /\ ClosersOK /\ FreshOK /\ QueueOK /\ WaitersOK
  BY DEF AccessInv
<1>2. PlacesOK'
  BY <1>1 DEF PlacesOK, Standing
<1>3. \A r \in Requests : At(r, "closing")' <=> At(r, "closing")
  BY DEF At
<1>4. \A r \in Requests : At(r, "closing") => requests'[r] = requests[r]
  OBVIOUS
<1>5. \A r \in Requests : At(r, "closing") => requests[r].runtime \in Runtimes
  BY <1>1 DEF PlacesOK, Standing, Holding, At
<1>6. ClosersOK'
  BY <1>1, <1>3, <1>4, <1>5 DEF ClosersOK
<1>7. OwnedOK'
  <2>1. (opening # None => opening \in Runtimes) /\ (active # None => active \in Runtimes)
    BY <1>1 DEF TypeOK
  <2> QED BY <1>1, <2>1 DEF OwnedOK
<1>8. FreshOK'
  BY <1>1 DEF FreshOK
<1>9. QueueOK'
  BY <1>1 DEF QueueOK
<1>10. WaitersOK'
  <2> SUFFICES ASSUME NEW r \in Requests, requests'[r].at \in {"wait", "closeWait"}
               PROVE  /\ runtimes'[requests'[r].runtime].phase # "creating"
                           => active \in {None, requests'[r].runtime}
                      /\ ~runtimes'[requests'[r].runtime].compacting
    BY DEF WaitersOK
  <2>1. CASE requests'[r] = requests[r]
    <3>1. requests[r].runtime \in Runtimes /\ ~runtimes[requests[r].runtime].compacting
      BY <1>1, <2>1 DEF PlacesOK, Standing, Holding, WaitersOK
    <3>2. requests[r].runtime # active \/ Settling
      BY <1>1, <2>1, <3>1, AccessBounds DEF OwnedOK, Settling, TypeOK
    <3> QED BY <1>1, <2>1, <3>1, <3>2 DEF WaitersOK
  <2>2. CASE opening # None /\ requests'[r].runtime = opening
    <3>1. opening \in Runtimes /\ runtimes[opening].phase = "creating"
      BY <1>1, <2>2 DEF OwnedOK, TypeOK
    <3>2. Idle(runtimes'[opening]) /\ runtimes'[opening].phase = "creating"
      BY <3>1
    <3> QED BY <2>2, <3>2 DEF Idle
  <2> QED BY <2>1, <2>2
<1> QED BY <1>2, <1>6, <1>7, <1>8, <1>9, <1>10 DEF AccessInv

\* One request goes on, at most, and the runtimes stay.
LEMMA RequestKeeps ==
  ASSUME AccessInv, UNCHANGED <<runtimes, active, opening, compactions>>,
         queued' \in {queued, 0}, timer' \in BOOLEAN, archived' \in BOOLEAN, listed' \in BOOLEAN,
         store' \in Requests \cup {None},
         NEW r \in Requests, NEW q \in Request, requests' = [requests EXCEPT ![r] = q],
         ~At(r, "closing"), q.at # "closing", Standing(q),
         q.at \in {"wait", "closeWait"} => opening # None /\ q.runtime = opening,
         q.held /\ ~requests[r].held /\ active # None =>
           ~Working(active) /\ ~runtimes[active].navigating
  PROVE  AccessInv'
<1>1. TypeOK /\ FreshOK /\ ActiveOK /\ requests \in [Requests -> Request]
  BY DEF AccessInv, TypeOK
<1>2. /\ requests' \in [Requests -> Request] /\ requests'[r] = q
      /\ \A p \in Requests : p # r => requests'[p] = requests[p]
  BY <1>1
<1>3. TypeOK'
  BY <1>1, <1>2 DEF TypeOK
<1>4. ActiveOK'
  <2>1. Exclusive' => Exclusive \/ (q.held /\ ~requests[r].held)
    BY <1>2 DEF Exclusive
  <2>2. active # None /\ Working(active)' => Working(active)
    BY <1>1 DEF Working, TypeOK
  <2> QED BY <1>1, <2>1, <2>2 DEF ActiveOK
<1>5. \A t \in Runtimes : runtimes[t].phase = "creating" => Idle(runtimes[t])
  BY <1>1 DEF FreshOK
<1>6. queued' > 0 => queued > 0
  BY <1>1 DEF TypeOK
<1> QED BY <1>2, <1>3, <1>4, <1>5, <1>6, LifeKeeps

\* Work in one runtime that lives on; a request may end with it.
LEMMA RuntimeKeeps ==
  ASSUME AccessInv, UNCHANGED <<active, opening, archive>>,
         queued' \in Nat, timer' \in BOOLEAN, compactions' \in 0..MaxCompactions,
         queued' > 0 => queued > 0 \/ active # None,
         NEW t \in Runtimes, NEW u \in Runtime, runtimes' = [runtimes EXCEPT ![t] = u],
         u.phase = runtimes[t].phase, u.phase = "creating" => Idle(u),
         u.compacting => runtimes[t].compacting \/ (t = active /\ ~Settling),
         requests' \in [Requests -> Request],
         \A r \in Requests :
           \/ requests'[r] = requests[r]
           \/ /\ ~At(r, "closing") /\ requests'[r].at \notin {"closing", "wait", "closeWait"}
              /\ Standing(requests'[r]),
         ActiveOK'
  PROVE  AccessInv'
<1>1. TypeOK /\ FreshOK
  BY DEF AccessInv
<1>2. /\ runtimes' \in [Runtimes -> Runtime] /\ runtimes'[t] = u
      /\ \A v \in Runtimes : v # t => runtimes'[v] = runtimes[v]
  BY <1>1 DEF TypeOK
<1>3. TypeOK'
  BY <1>1, <1>2 DEF TypeOK, archive
<1>4. \A v \in Runtimes : runtimes[v].phase = "creating" => Idle(runtimes'[v])
  BY <1>1, <1>2 DEF FreshOK
<1>5. \A v \in Runtimes :
        /\ runtimes'[v].phase = runtimes[v].phase
        /\ runtimes'[v].compacting => runtimes[v].compacting \/ (v = active /\ ~Settling)
  BY <1>2
<1> QED BY <1>3, <1>4, <1>5, LifeKeeps

LEMMA StandingFacts ==
  /\ Ended \in Request /\ Standing(Ended) /\ Ended.at = "done" /\ ~Ended.held
  /\ Disposed \in Runtime /\ Disposed.phase = "disposed" /\ Idle(Disposed)
BY DEF Ended, Request, Standing, Holding, Ops, Places, Disposed, Runtime, Phases, Idle

LEMMA DoneKeeps ==
  ASSUME AccessInv, NEW r \in Requests, ~At(r, "closing"), Done(r),
         UNCHANGED <<runtimes, active, opening, compactions>>,
         queued' \in {queued, 0}, timer' \in BOOLEAN, archived' \in BOOLEAN, listed' \in BOOLEAN,
         store' \in Requests \cup {None}
  PROVE  AccessInv'
BY StandingFacts, RequestKeeps DEF Done

LEMMA GoToKeeps ==
  ASSUME AccessInv, NEW r \in Requests, ~At(r, "closing"),
         NEW next \in Places \ (Holding \cup {"input", "check"}),
         GoTo(r, next),
         UNCHANGED <<runtimes, active, opening, compactions>>,
         queued' \in {queued, 0}, timer' \in BOOLEAN, archived' \in BOOLEAN, listed' \in BOOLEAN,
         store' \in Requests \cup {None}
  PROVE  AccessInv'
<1> DEFINE q == [requests[r] EXCEPT !.at = next, !.runtime = None]
<1>1. requests \in [Requests -> Request] /\ requests[r] \in Request
  BY DEF AccessInv, TypeOK
<1>2. requests' = [requests EXCEPT ![r] = q]
  BY <1>1 DEF GoTo
<1>3. q \in Request /\ q.at = next /\ q.held = requests[r].held
  BY <1>1 DEF Request
<1>4. Standing(q) /\ q.at \notin {"closing", "wait", "closeWait"}
  BY <1>3 DEF Standing, Holding
<1> HIDE DEF q
<1> QED BY <1>2, <1>3, <1>4, RequestKeeps

\* closeActive(): at its end the session has no runtime, but one that is being created.
LEMMA ClosesKeeps ==
  ASSUME AccessInv, NEW r \in Requests, NEW req \in Request, ~At(r, "closing"),
         req.op \in Closers, req.op \in Archivers => req.held,
         Closes(r, req), UNCHANGED <<opening, archive, compactions>>
  PROVE  AccessInv'
<1>1. TypeOK /\ PlacesOK /\ OwnedOK /\ ClosersOK /\ FreshOK /\ QueueOK /\ WaitersOK /\ ActiveOK
  BY DEF AccessInv
<1>2. CASE opening # None /\ UNCHANGED <<runtimes, active, draining>>
            /\ requests' = [requests EXCEPT ![r] = [req EXCEPT !.at = "closeWait", !.runtime = opening]]
  <2> DEFINE q == [req EXCEPT !.at = "closeWait", !.runtime = opening]
  <2>1. opening \in Runtimes /\ active = None
    BY <1>1, <1>2 DEF TypeOK, OwnedOK
  <2>2. /\ q \in Request /\ q.at = "closeWait" /\ q.runtime = opening
        /\ q.op = req.op /\ q.held = req.held
    BY <2>1 DEF Request, Places
  <2> HIDE DEF q
  <2>3. Standing(q)
    BY <2>1, <2>2 DEF Standing
  <2>4. requests' = [requests EXCEPT ![r] = q]
    BY <1>2 DEF q
  <2> QED BY <1>1, <1>2, <2>1, <2>2, <2>3, <2>4, RequestKeeps DEF TypeOK, archive, draining
<1>3. CASE opening = None /\ active = None /\ UNCHANGED <<runtimes, active, draining>>
  <2>1. CASE req.op = "stop"
    <3>1. Done(r)
      BY <1>3, <2>1 DEF Closes, Done
    <3> QED BY <1>1, <1>3, <3>1, DoneKeeps DEF TypeOK, archive, draining
  <2>2. CASE req.op # "stop"
    <3> DEFINE q == [req EXCEPT !.at = AfterClose[req.op], !.runtime = None]
    <3>1. requests' = [requests EXCEPT ![r] = q]
      BY <1>3, <2>2 DEF Closes
    <3>2. AfterClose[req.op] \in {"store", "lookup"}
      BY <2>2 DEF AfterClose, Closers
    <3>3. q \in Request /\ q.at \in {"store", "lookup"}
      BY <3>2 DEF Request, Places
    <3> HIDE DEF q
    <3>4. Standing(q)
      BY <3>3 DEF Standing, Holding
    <3> QED BY <1>1, <1>3, <3>1, <3>3, <3>4, RequestKeeps DEF TypeOK, archive, draining
  <2> QED BY <2>1, <2>2
<1>4. CASE opening = None /\ active # None
  <2> DEFINE q == [req EXCEPT !.at = "closing", !.runtime = active]
             u == [runtimes[active] EXCEPT !.phase = "closing"]
  <2>1. /\ active \in Runtimes /\ active' = None /\ queued' = 0 /\ timer' = FALSE
        /\ requests' = [requests EXCEPT ![r] = q] /\ runtimes' = [runtimes EXCEPT ![active] = u]
        /\ runtimes[active].phase = "open" /\ opening' = None
    BY <1>1, <1>4 DEF Closes, TypeOK, OwnedOK
  <2>2. /\ q \in Request /\ q.at = "closing" /\ q.runtime = active
        /\ q.op = req.op /\ q.held = req.held
    BY <2>1 DEF Request, Places
  <2>3. u \in Runtime /\ u.phase = "closing" /\ u.compacting = runtimes[active].compacting
    BY <1>1, <2>1 DEF TypeOK, Runtime, Phases
  <2> HIDE DEF q, u
  <2>4. /\ requests' \in [Requests -> Request] /\ requests'[r] = q
        /\ \A p \in Requests : p # r => requests'[p] = requests[p]
        /\ runtimes' \in [Runtimes -> Runtime] /\ runtimes'[active] = u
        /\ \A t \in Runtimes : t # active => runtimes'[t] = runtimes[t]
    BY <1>1, <2>1, <2>2, <2>3 DEF TypeOK
  <2>5. TypeOK'
    BY <1>1, <2>1, <2>4 DEF TypeOK, archive
  <2>6. PlacesOK'
    BY <1>1, <2>1, <2>2, <2>4 DEF PlacesOK, Standing
  <2>7. OwnedOK'
    BY <1>1, <1>4, <2>1, <2>3, <2>4 DEF OwnedOK
  <2>8. \A p \in Requests : At(p, "closing") => requests[p].runtime # active /\ p # r
    BY <1>1, <2>1 DEF ClosersOK
  <2>9. ClosersOK'
    <3>1. \A p \in Requests : At(p, "closing")' <=> p = r \/ At(p, "closing")
      BY <2>2, <2>4 DEF At
    <3>2. \A p \in Requests : At(p, "closing") => requests[p].runtime \in Runtimes
      BY <1>1 DEF PlacesOK, Standing, Holding, At
    <3>3. \A t \in Runtimes : runtimes'[t].phase = "closing" =>
            \E p \in Requests : At(p, "closing")' /\ requests'[p].runtime = t
      BY <1>1, <2>2, <2>4, <2>8, <3>1 DEF ClosersOK
    <3>4. \A p \in Requests : At(p, "closing")' =>
            /\ runtimes'[requests'[p].runtime].phase = "closing"
            /\ \A w \in Requests : At(w, "closing")' /\ requests'[w].runtime = requests'[p].runtime => w = p
      BY <1>1, <2>2, <2>3, <2>4, <2>8, <3>1, <3>2 DEF ClosersOK
    <3> QED BY <3>3, <3>4 DEF ClosersOK
  <2>10. FreshOK' /\ QueueOK' /\ ActiveOK'
    BY <1>1, <2>1, <2>3, <2>4 DEF FreshOK, QueueOK, ActiveOK
  <2>11. WaitersOK'
    <3>1. \A p \in Requests : requests'[p].at \in {"wait", "closeWait"} =>
            /\ requests'[p] = requests[p] /\ requests[p].runtime \in Runtimes
      BY <1>1, <2>2, <2>4 DEF PlacesOK, Standing, Holding
    <3> QED BY <1>1, <2>1, <2>3, <2>4, <3>1 DEF WaitersOK
  <2> QED BY <2>5, <2>6, <2>7, <2>9, <2>10, <2>11 DEF AccessInv
<1>5. opening = None /\ active = None => UNCHANGED <<runtimes, active, draining>>
  BY DEF Closes
<1>6. opening # None => UNCHANGED <<runtimes, active, draining>>
        /\ requests' = [requests EXCEPT ![r] = [req EXCEPT !.at = "closeWait", !.runtime = opening]]
  BY DEF Closes
<1> QED BY <1>2, <1>3, <1>4, <1>5, <1>6

----------------------------------------------------------------------------
(* The session's runtime: its requests *)

LEMMA RequestFacts ==
  ASSUME AccessInv, NEW r \in Requests
  PROVE  /\ requests \in [Requests -> Request] /\ requests[r] \in Request /\ Standing(requests[r])
         /\ runtimes \in [Runtimes -> Runtime]
         /\ active # None => active \in Runtimes /\ runtimes[active].phase = "open"
         /\ opening # None => opening \in Runtimes /\ active = None
         /\ timer \in BOOLEAN /\ queued \in Nat /\ archived \in BOOLEAN /\ listed \in BOOLEAN
         /\ store \in Requests \cup {None}
BY DEF AccessInv, TypeOK, PlacesOK, OwnedOK

LEMMA BeginKeeps ==
  ASSUME AccessInv, NEW r \in Requests, NEW op \in Ops, Begin(r, op)
  PROVE  AccessInv'
<1>1. ~At(r, "closing") /\ UNCHANGED <<runtimes, active, opening, archive, draining, compactions>>
  BY DEF Begin, At
<1>2. CASE op = "navigate" /\ Exclusive
  BY <1>1, <1>2, RequestFacts, DoneKeeps DEF Begin, Done, archive, draining
<1>3. CASE ~(op = "navigate" /\ Exclusive)
  <2> DEFINE q == [requests[r] EXCEPT !.op = op, !.at = Begins[op]]
  <2>1. requests' = [requests EXCEPT ![r] = q]
    BY <1>3 DEF Begin
  <2>2. Begins[op] \in {"writable", "lookup", "plan"}
    BY DEF Begins, Ops
  <2>3. q \in Request /\ q.at \in {"writable", "lookup", "plan"} /\ q.held = requests[r].held
    BY <2>2, RequestFacts DEF Request, Places
  <2> HIDE DEF q
  <2>4. Standing(q)
    BY <2>3 DEF Standing, Holding
  <2> QED BY <1>1, <2>1, <2>3, <2>4, RequestFacts, RequestKeeps DEF archive, draining
<1> QED BY <1>2, <1>3

LEMMA CloseResumesKeeps ==
  ASSUME AccessInv, NEW r \in Requests, CloseResumes(r)
  PROVE  AccessInv'
<1>1. requests[r].at = "closeWait" /\ Closes(r, requests[r]) /\ UNCHANGED <<opening, archive, compactions>>
  BY DEF CloseResumes, At
<1>2. requests[r].op \in Closers /\ (requests[r].op \in Archivers => requests[r].held)
  BY <1>1, RequestFacts DEF Standing
<1> QED BY <1>1, <1>2, RequestFacts, ClosesKeeps DEF At

LEMMA CloseEndsKeeps ==
  ASSUME AccessInv, NEW r \in Requests, CloseEnds(r)
  PROVE  AccessInv'
<1>1. TypeOK /\ PlacesOK /\ OwnedOK /\ ClosersOK /\ FreshOK /\ QueueOK /\ WaitersOK /\ ActiveOK
  BY DEF AccessInv
<1> DEFINE t == requests[r].runtime
<1>2. /\ requests[r].at = "closing" /\ t \in Runtimes /\ runtimes[t].phase = "closing" /\ t # active
      /\ requests[r].op \in Closers
  <2>1. requests[r].at = "closing"
    BY DEF CloseEnds, At
  <2>2. t \in Runtimes /\ requests[r].op \in Closers
    BY <1>1, <2>1 DEF PlacesOK, Standing, Holding
  <2>3. runtimes[t].phase = "closing"
    BY <1>1, <2>1 DEF ClosersOK, At
  <2> QED BY <1>1, <2>1, <2>2, <2>3, AccessBounds DEF OwnedOK
<1>3. /\ runtimes' = [runtimes EXCEPT ![t] = Disposed]
      /\ Done(r) \/ (~Op(r, {"stop"}) /\ GoTo(r, AfterClose[requests[r].op]))
      /\ UNCHANGED <<active, opening, archive, draining, compactions>>
  BY DEF CloseEnds, DisposedAnyway
<1>4. \E q \in Request : /\ requests' = [requests EXCEPT ![r] = q]
                         /\ q.at \in {"store", "lookup", "done"} /\ (q.held => requests[r].held)
  <2>1. CASE Done(r)
    BY <2>1, StandingFacts DEF Done
  <2>2. CASE ~Op(r, {"stop"}) /\ GoTo(r, AfterClose[requests[r].op])
    <3>1. AfterClose[requests[r].op] \in {"store", "lookup"}
      BY <1>2, <2>2 DEF AfterClose, Closers, Op
    <3> DEFINE q == [requests[r] EXCEPT !.at = AfterClose[requests[r].op], !.runtime = None]
    <3>2. requests[r] \in Request
      BY RequestFacts
    <3>3. requests' = [requests EXCEPT ![r] = q]
      BY <2>2 DEF GoTo
    <3>4. q \in Request /\ q.at \in {"store", "lookup"} /\ q.held = requests[r].held
      BY <3>1, <3>2 DEF Request, Places
    <3> HIDE DEF q
    <3> QED BY <3>3, <3>4
  <2> QED BY <1>3, <2>1, <2>2
<1>5. PICK q \in Request : /\ requests' = [requests EXCEPT ![r] = q]
                           /\ q.at \in {"store", "lookup", "done"} /\ (q.held => requests[r].held)
  BY <1>4
<1> HIDE DEF t
<1>6. /\ requests' \in [Requests -> Request] /\ requests'[r] = q
      /\ \A p \in Requests : p # r => requests'[p] = requests[p]
      /\ runtimes' \in [Runtimes -> Runtime] /\ runtimes'[t] = Disposed
      /\ \A v \in Runtimes : v # t => runtimes'[v] = runtimes[v]
  BY <1>1, <1>2, <1>3, <1>5, StandingFacts DEF TypeOK
<1>7. TypeOK'
  BY <1>1, <1>3, <1>6 DEF TypeOK, archive, draining
<1>8. PlacesOK'
  BY <1>1, <1>5, <1>6 DEF PlacesOK, Standing, Holding
<1>9. Disposed.phase = "disposed" /\ ~Disposed.compacting
  BY DEF Disposed
<1>10. OwnedOK'
  <2>1. opening # None => opening \in Runtimes /\ opening # t
    BY <1>1, <1>2 DEF TypeOK, OwnedOK
  <2>2. active # None => active \in Runtimes
    BY <1>1 DEF TypeOK
  <2> QED BY <1>1, <1>2, <1>3, <1>6, <1>9, <2>1, <2>2 DEF OwnedOK
<1>11. ClosersOK'
  <2>1. \A p \in Requests : At(p, "closing")' <=> p # r /\ At(p, "closing")
    BY <1>5, <1>6 DEF At
  <2>2. \A p \in Requests : p # r /\ At(p, "closing") => requests[p].runtime \in Runtimes \ {t}
    BY <1>1, <1>2 DEF PlacesOK, Standing, Holding, At, ClosersOK, t
  <2>3. \A v \in Runtimes : runtimes'[v].phase = "closing" =>
          \E p \in Requests : At(p, "closing")' /\ requests'[p].runtime = v
    <3>1. \A v \in Runtimes : runtimes'[v].phase = "closing" => v # t /\ runtimes[v].phase = "closing"
      BY <1>6, <1>9
    <3>2. requests[r].runtime = t
      BY DEF t
    <3> QED BY <1>1, <1>6, <2>1, <3>1, <3>2 DEF ClosersOK
  <2>4. \A p \in Requests : At(p, "closing")' =>
          /\ runtimes'[requests'[p].runtime].phase = "closing"
          /\ \A w \in Requests : At(w, "closing")' /\ requests'[w].runtime = requests'[p].runtime => w = p
    BY <1>1, <1>6, <2>1, <2>2 DEF ClosersOK
  <2> QED BY <2>3, <2>4 DEF ClosersOK
<1>12. FreshOK' /\ QueueOK'
  BY <1>1, <1>3, <1>6, <1>9 DEF FreshOK, QueueOK, draining
<1>13. WaitersOK'
  <2>1. \A p \in Requests : requests'[p].at \in {"wait", "closeWait"} =>
          requests'[p] = requests[p] /\ requests[p].runtime \in Runtimes
    BY <1>1, <1>5, <1>6 DEF PlacesOK, Standing, Holding
  <2>2. ~Settling
    BY DEF CloseEnds
  <2>3. \A p \in Requests : requests'[p].at \in {"wait", "closeWait"} =>
          runtimes[requests[p].runtime].phase = "creating"
    BY <2>1, <2>2 DEF Settling
  <2> QED BY <1>1, <1>2, <1>3, <1>6, <2>1, <2>3 DEF WaitersOK
<1>14. ActiveOK'
  <2>1. active # None => active \in Runtimes /\ runtimes'[active] = runtimes[active]
    BY <1>1, <1>2, <1>6 DEF TypeOK
  <2>2. Exclusive' => Exclusive
    BY <1>5, <1>6 DEF Exclusive
  <2>3. active # None => (Working(active)' <=> Working(active))
    BY <1>3, <2>1 DEF Working, draining
  <2> QED BY <1>1, <1>3, <2>1, <2>2, <2>3 DEF ActiveOK
<1> QED BY <1>7, <1>8, <1>10, <1>11, <1>12, <1>13, <1>14 DEF AccessInv

LEMMA HasInputKeeps ==
  ASSUME AccessInv, NEW r \in Requests, HasInput(r)
  PROVE  AccessInv'
<1>1. /\ requests[r].at = "input" /\ Closes(r, requests[r])
      /\ UNCHANGED <<opening, archive, compactions>>
  BY DEF HasInput, At
<1>2. requests[r].op = "archive" /\ requests[r].held
  BY <1>1, RequestFacts DEF Standing
<1> QED BY <1>1, <1>2, RequestFacts, ClosesKeeps DEF At, Closers

\* prompt() keeps off a runtime that navigates.
LEMMA PromptsKeep ==
  ASSUME AccessInv, NEW r \in Requests, ~At(r, "closing"), NEW t \in Runtimes,
         active \in {None, t}, runtimes[t].phase # "creating",
         runtimes[t].compacting => active = t,
         Prompts(r, t), UNCHANGED <<opening, archive, compactions>>
  PROVE  AccessInv'
<1>1. /\ TypeOK /\ ActiveOK /\ QueueOK /\ runtimes[t] \in Runtime /\ timer \in BOOLEAN /\ queued \in Nat
      /\ active # None => active = t
  BY DEF AccessInv, TypeOK
<1>2. /\ requests' = [requests EXCEPT ![r] = Ended] /\ UNCHANGED <<active, timer>>
      /\ requests \in [Requests -> Request]
  BY <1>1 DEF Prompts, Done, TypeOK
<1>3. /\ requests' \in [Requests -> Request] /\ requests'[r] = Ended
      /\ \A p \in Requests : p # r => requests'[p] = requests[p]
  BY <1>2, StandingFacts
<1>4. Exclusive' => Exclusive
  BY <1>3, StandingFacts DEF Exclusive
<1>9. /\ compactions' \in 0..MaxCompactions /\ opening' = opening /\ archive' = archive
      /\ active' = active /\ timer' \in BOOLEAN
      /\ \A p \in Requests :
           \/ requests'[p] = requests[p]
           \/ /\ ~At(p, "closing") /\ requests'[p].at \notin {"closing", "wait", "closeWait"}
              /\ Standing(requests'[p])
  BY <1>1, <1>2, <1>3, StandingFacts DEF TypeOK
<1>5. CASE runtimes[t].navigating /\ UNCHANGED <<runtimes, queued>>
  BY <1>1, <1>2, <1>5, DoneKeeps, RequestFacts DEF Done, archive
<1>6. CASE /\ ~runtimes[t].navigating /\ runtimes[t].compacting /\ queued' = queued + 1
           /\ runtimes' = [runtimes EXCEPT ![t].late = @ \/ Exclusive]
  <2> DEFINE u == [runtimes[t] EXCEPT !.late = @ \/ Exclusive]
  <2>1. runtimes' = [runtimes EXCEPT ![t] = u]
    BY <1>6
  <2>2. /\ u \in Runtime /\ u.phase = runtimes[t].phase /\ u.compacting = runtimes[t].compacting
        /\ u.navigating = runtimes[t].navigating /\ u.late = (runtimes[t].late \/ Exclusive)
    BY <1>1 DEF Runtime, Exclusive
  <2> HIDE DEF u
  <2>3. ActiveOK'
    <3>1. runtimes'[t] = u
      BY <1>1, <2>1 DEF TypeOK
    <3> QED BY <1>1, <1>2, <1>4, <1>6, <2>2, <3>1 DEF ActiveOK
  <2>4. queued' \in Nat /\ (queued' > 0 => active # None)
    BY <1>1, <1>6, AccessBounds
  <2>5. u.phase # "creating" /\ (u.compacting => runtimes[t].compacting)
    BY <2>2
  <2> QED BY <1>3, <1>9, <2>1, <2>2, <2>3, <2>4, <2>5, RuntimeKeeps
<1>7. CASE /\ ~runtimes[t].navigating /\ ~runtimes[t].compacting /\ queued' = queued
           /\ runtimes' = [runtimes EXCEPT ![t].prompts = @ + 1, ![t].late = @ \/ Exclusive]
  <2> DEFINE u == [runtimes[t] EXCEPT !.prompts = @ + 1, !.late = @ \/ Exclusive]
  <2>1. runtimes' = [runtimes EXCEPT ![t] = u]
    BY <1>1, <1>7 DEF TypeOK
  <2>2. /\ u \in Runtime /\ u.phase = runtimes[t].phase /\ u.compacting = runtimes[t].compacting
        /\ u.navigating = runtimes[t].navigating /\ u.late = (runtimes[t].late \/ Exclusive)
    <3>1. runtimes[t].prompts + 1 \in Nat /\ (runtimes[t].late \/ Exclusive) \in BOOLEAN
      BY <1>1 DEF Runtime, Exclusive
    <3>2. u = [runtimes[t] EXCEPT !.prompts = runtimes[t].prompts + 1,
                                  !.late = (runtimes[t].late \/ Exclusive)]
      BY DEF u
    <3> HIDE DEF u
    <3> QED BY <1>1, <3>1, <3>2 DEF Runtime
  <2> HIDE DEF u
  <2>3. ActiveOK'
    <3>1. runtimes'[t] = u
      BY <1>1, <2>1 DEF TypeOK
    <3> QED BY <1>1, <1>2, <1>4, <1>7, <2>2, <3>1 DEF ActiveOK
  <2>4. queued' \in Nat /\ (queued' > 0 => queued > 0)
    BY <1>1, <1>7
  <2>5. u.phase # "creating" /\ (u.compacting => runtimes[t].compacting)
    BY <2>2
  <2> QED BY <1>3, <1>9, <2>1, <2>2, <2>3, <2>4, <2>5, RuntimeKeeps
<1> QED BY <1>5, <1>6, <1>7 DEF Prompts

\* What a request does with the runtime it found, or waited for.
LEMMA ActsKeep ==
  ASSUME AccessInv, NEW r \in Requests, ~At(r, "closing"), NEW t \in Runtimes,
         active \in {None, t}, runtimes[t].phase # "creating",
         runtimes[t].compacting => active = t,
         Acts(r, t), UNCHANGED <<opening, archive, compactions>>
  PROVE  AccessInv'
<1>1. /\ TypeOK /\ ActiveOK /\ requests \in [Requests -> Request] /\ runtimes \in [Runtimes -> Runtime]
      /\ requests[r] \in Request /\ runtimes[t] \in Runtime
      /\ active # None => active = t
  BY DEF AccessInv, TypeOK
<1>2. CASE Done(r) /\ UNCHANGED <<runtimes, active, draining>>
  BY <1>2, DoneKeeps, RequestFacts DEF archive, draining
<1>3. CASE Prompts(r, t)
  BY <1>3, PromptsKeep
<1>4. CASE Op(r, {"navigate", "archive"}) /\ ~(Done(r) /\ UNCHANGED <<runtimes, active, draining>>)
  <2>1. /\ ~Busy(r, t) /\ ~requests[r].held /\ UNCHANGED <<active, draining>>
        /\ \/ /\ requests' = [requests EXCEPT ![r].at = "navigating", ![r].runtime = t]
              /\ runtimes' = [runtimes EXCEPT ![t].navigating = TRUE]
              /\ requests[r].op = "navigate"
           \/ /\ requests' = [requests EXCEPT ![r].at = "input", ![r].held = TRUE]
              /\ runtimes' = [runtimes EXCEPT ![t].late = FALSE]
              /\ requests[r].op = "archive"
    BY <1>4 DEF Acts, Op
  <2>2. ~Working(t) /\ ~runtimes[t].navigating /\ ~Exclusive
    BY <1>4, <2>1 DEF Busy, Op, HasActiveWork
  <2>3. /\ timer' \in BOOLEAN /\ queued' = queued /\ queued \in Nat /\ compactions' \in 0..MaxCompactions
        /\ opening' = opening /\ archive' = archive /\ active' = active
    BY <1>1, <2>1 DEF TypeOK, draining
  <2>4. CASE requests[r].op = "navigate"
    <3> DEFINE q == [requests[r] EXCEPT !.at = "navigating", !.runtime = t]
               u == [runtimes[t] EXCEPT !.navigating = TRUE]
    <3>1. requests' = [requests EXCEPT ![r] = q] /\ runtimes' = [runtimes EXCEPT ![t] = u]
      BY <1>1, <2>1, <2>4
    <3>2. q \in Request /\ q.at = "navigating" /\ q.runtime = t /\ q.held = requests[r].held
      BY <1>1 DEF Request, Places
    <3>3. /\ u \in Runtime /\ u.phase = runtimes[t].phase /\ u.compacting = runtimes[t].compacting
          /\ u.prompts = runtimes[t].prompts /\ u.drained = runtimes[t].drained
          /\ u.streaming = runtimes[t].streaming
      BY <1>1 DEF Runtime
    <3> HIDE DEF q, u
    <3>4. Standing(q) /\ q.at \notin {"closing", "wait", "closeWait"}
      BY <3>2 DEF Standing
    <3>5. /\ requests' \in [Requests -> Request] /\ requests'[r] = q
          /\ \A p \in Requests : p # r => requests'[p] = requests[p]
          /\ runtimes'[t] = u
      BY <1>1, <3>1, <3>2
    <3>6. ~Exclusive'
      BY <2>1, <2>2, <3>2, <3>5 DEF Exclusive
    <3>7. active # None => ~Working(active)'
      BY <1>1, <2>2, <2>3, <3>3, <3>5 DEF Working
    <3>8. ActiveOK'
      BY <2>3, <3>6, <3>7 DEF ActiveOK
    <3> QED BY <1>1, <2>3, <3>1, <3>3, <3>4, <3>5, <3>8, RuntimeKeeps
  <2>5. CASE requests[r].op = "archive"
    <3> DEFINE q == [requests[r] EXCEPT !.at = "input", !.held = TRUE]
               u == [runtimes[t] EXCEPT !.late = FALSE]
    <3>1. requests' = [requests EXCEPT ![r] = q] /\ runtimes' = [runtimes EXCEPT ![t] = u]
      BY <1>1, <2>1, <2>5
    <3>2. q \in Request /\ q.at = "input" /\ q.op = "archive" /\ q.held
      BY <1>1, <2>5 DEF Request, Places
    <3>3. /\ u \in Runtime /\ u.phase = runtimes[t].phase /\ u.compacting = runtimes[t].compacting
          /\ u.prompts = runtimes[t].prompts /\ u.drained = runtimes[t].drained
          /\ u.streaming = runtimes[t].streaming /\ u.navigating = runtimes[t].navigating
      BY <1>1 DEF Runtime
    <3> HIDE DEF q, u
    <3>4. Standing(q) /\ q.at \notin {"closing", "wait", "closeWait"}
      BY <3>2 DEF Standing, Holding
    <3>5. /\ requests' \in [Requests -> Request] /\ requests'[r] = q
          /\ \A p \in Requests : p # r => requests'[p] = requests[p]
          /\ runtimes'[t] = u
      BY <1>1, <3>1, <3>2
    <3>7. active # None => ~Working(active)' /\ ~runtimes'[active'].navigating
      BY <1>1, <2>2, <2>3, <3>3, <3>5 DEF Working
    <3>8. ActiveOK'
      BY <2>3, <3>7 DEF ActiveOK
    <3> QED BY <1>1, <2>3, <3>1, <3>3, <3>4, <3>5, <3>8, RuntimeKeeps
  <2> QED BY <2>1, <2>4, <2>5
<1>5. CASE Op(r, {"reload"}) /\ Closes(r, [requests[r] EXCEPT !.held = TRUE])
  <2> DEFINE q == [requests[r] EXCEPT !.held = TRUE]
  <2>1. q \in Request /\ q.op = "reload" /\ q.held
    BY <1>1, <1>5 DEF Request, Op
  <2>2. Closes(r, q)
    BY <1>5
  <2> HIDE DEF q
  <2> QED BY <2>1, <2>2, ClosesKeeps DEF Closers
<1> QED BY <1>2, <1>3, <1>4, <1>5 DEF Acts, Op

\* The runtime that LooksUp and Opens find is the session's.
LEMMA ActiveActsKeep ==
  ASSUME AccessInv, NEW r \in Requests, ~At(r, "closing"), active # None, Acts(r, active),
         UNCHANGED <<opening, archive, compactions>>
  PROVE  AccessInv'
BY RequestFacts, ActsKeep

LEMMA LooksUpKeeps ==
  ASSUME AccessInv, NEW r \in Requests, ~At(r, "closing"), LooksUp(r),
         UNCHANGED <<opening, archive, compactions>>
  PROVE  AccessInv'
<1>1. CASE active # None /\ Acts(r, active)
  BY <1>1, ActiveActsKeep
<1>2. CASE GoTo(r, "find") /\ UNCHANGED <<runtimes, active, draining>>
  <2>1. "find" \in Places \ (Holding \cup {"input", "check"})
    BY DEF Places, Holding
  <2> QED BY <1>2, <2>1, GoToKeeps, RequestFacts DEF archive, draining
<1> QED BY <1>1, <1>2 DEF LooksUp

\* A runtime is created when there is none, nor one on its way.
LEMMA OpensKeep ==
  ASSUME AccessInv, NEW r \in Requests, At(r, "find") \/ At(r, "list"), ~Settling,
         NEW copy \in BOOLEAN, Opens(r, copy), UNCHANGED <<archive, compactions>>
  PROVE  AccessInv'
<1>1. TypeOK /\ PlacesOK /\ OwnedOK /\ ClosersOK /\ FreshOK /\ QueueOK /\ WaitersOK /\ ActiveOK
  BY DEF AccessInv
<1>2. ~At(r, "closing") /\ requests[r] \in Request
  BY <1>1 DEF At, TypeOK
<1>3. CASE active # None /\ Acts(r, active) /\ UNCHANGED opening
  BY <1>2, <1>3, ActiveActsKeep
<1>4. CASE /\ opening # None /\ UNCHANGED <<runtimes, active, opening, draining>>
           /\ requests' = [requests EXCEPT ![r].at = "wait", ![r].runtime = opening]
  <2> DEFINE q == [requests[r] EXCEPT !.at = "wait", !.runtime = opening]
  <2>1. opening \in Runtimes /\ active = None
    BY <1>4, RequestFacts
  <2>2. q \in Request /\ q.at = "wait" /\ q.runtime = opening
    BY <1>2, <2>1 DEF Request, Places
  <2>3. requests' = [requests EXCEPT ![r] = q]
    BY <1>1, <1>4 DEF TypeOK
  <2> HIDE DEF q
  <2>4. Standing(q)
    BY <2>1, <2>2 DEF Standing
  <2> QED BY <1>2, <1>4, <2>1, <2>2, <2>3, <2>4, RequestFacts, RequestKeeps DEF archive, draining
<1>5. CASE active = None /\ opening = None /\ Unused # {}
           /\ ~(active # None /\ Acts(r, active) /\ UNCHANGED opening)
  <2> DEFINE t == CHOOSE t \in Unused : TRUE
             q == [requests[r] EXCEPT !.at = "wait", !.runtime = t]
             u == [Disposed EXCEPT !.phase = "creating", !.copy = copy]
  <2>1. t \in Runtimes /\ runtimes[t].phase = "disposed"
    BY <1>5 DEF Unused
  <2>2. /\ opening' = t /\ UNCHANGED <<active, draining>>
        /\ requests' = [requests EXCEPT ![r].at = "wait", ![r].runtime = t]
        /\ runtimes' = [runtimes EXCEPT ![t] = u]
    BY <1>5 DEF Opens, OpensShared
  <2> HIDE DEF t
  <2>3. q \in Request /\ q.at = "wait" /\ q.runtime = t /\ q.held = requests[r].held
    BY <1>2, <2>1 DEF Request, Places
  <2>4. u \in Runtime /\ u.phase = "creating" /\ Idle(u)
    BY DEF Runtime, Phases, Disposed, Idle
  <2>5. requests' = [requests EXCEPT ![r] = q]
    BY <1>1, <2>2 DEF TypeOK
  <2> HIDE DEF q, u
  <2>6. /\ requests' \in [Requests -> Request] /\ requests'[r] = q
        /\ \A p \in Requests : p # r => requests'[p] = requests[p]
        /\ runtimes' \in [Runtimes -> Runtime] /\ runtimes'[t] = u
        /\ \A v \in Runtimes : v # t => runtimes'[v] = runtimes[v]
    BY <1>1, <2>1, <2>2, <2>3, <2>4, <2>5 DEF TypeOK
  <2>7. TypeOK'
    BY <1>1, <2>1, <2>2, <2>6 DEF TypeOK, archive, draining
  <2>8. Standing(q)
    BY <2>1, <2>3 DEF Standing
  <2>9. PlacesOK'
    BY <1>1, <2>6, <2>8 DEF PlacesOK, Standing
  <2>10. OwnedOK'
    <3>1. active' = None /\ opening' = t /\ runtimes'[t].phase = "creating"
      BY <1>5, <2>2, <2>4, <2>6
    <3>2. \A v \in Runtimes : v # t => runtimes'[v].phase \notin {"creating", "open"}
      BY <1>1, <1>5, <2>1, <2>6, AccessBounds DEF OwnedOK
    <3> QED BY <3>1, <3>2 DEF OwnedOK
  <2>11. ClosersOK'
    <3>1. \A p \in Requests : At(p, "closing")' <=> At(p, "closing")
      BY <1>2, <2>3, <2>6 DEF At
    <3>2. \A p \in Requests : At(p, "closing") =>
            /\ p # r /\ requests[p].runtime \in Runtimes /\ requests[p].runtime # t
      BY <1>1, <1>2, <2>1 DEF PlacesOK, Standing, Holding, At, ClosersOK
    <3>3. \A v \in Runtimes : runtimes'[v].phase = "closing" => v # t /\ runtimes[v].phase = "closing"
      BY <2>4, <2>6
    <3> QED BY <1>1, <2>6, <3>1, <3>2, <3>3 DEF ClosersOK
  <2>12. FreshOK' /\ QueueOK' /\ ActiveOK'
    BY <1>1, <1>5, <2>2, <2>4, <2>6 DEF FreshOK, QueueOK, ActiveOK, draining
  <2>13. WaitersOK'
    <3>1. \A p \in Requests : requests[p].at \notin {"wait", "closeWait"}
      BY <1>1, <1>5, AccessBounds DEF Settling, OwnedOK, PlacesOK, Standing, Holding
    <3> QED BY <2>3, <2>4, <2>6, <3>1 DEF WaitersOK, Idle
  <2> QED BY <2>7, <2>9, <2>10, <2>11, <2>12, <2>13 DEF AccessInv
<1> QED BY <1>3, <1>4, <1>5 DEF Opens, OpensShared

LEMMA CreationEndsKeeps ==
  ASSUME AccessInv, CreationEnds
  PROVE  AccessInv'
<1>1. TypeOK /\ PlacesOK /\ OwnedOK /\ ClosersOK /\ FreshOK /\ QueueOK /\ WaitersOK /\ ActiveOK
  BY DEF AccessInv
<1> DEFINE t == opening
<1>2. /\ t \in Runtimes /\ t # None /\ active = None /\ runtimes[t].phase = "creating"
      /\ runtimes[t] \in Runtime /\ Idle(runtimes[t]) /\ ~Settling /\ queued = 0
  BY <1>1 DEF CreationEnds, TypeOK, OwnedOK, FreshOK, QueueOK
<1>3. PICK created \in BOOLEAN :
        /\ runtimes' = [runtimes EXCEPT ![t] = IF created THEN [@ EXCEPT !.phase = "open"] ELSE Disposed]
        /\ active' = IF created THEN t ELSE active
        /\ opening' = None
  BY DEF CreationEnds, Forgotten
<1>4. UNCHANGED <<requests, archive, draining, compactions>>
  BY DEF CreationEnds
<1> DEFINE u == IF created THEN [runtimes[t] EXCEPT !.phase = "open"] ELSE Disposed
<1>5. /\ u \in Runtime /\ Idle(u) /\ u.phase = IF created THEN "open" ELSE "disposed"
  BY <1>2, StandingFacts DEF Runtime, Phases, Idle
<1>6. runtimes' = [runtimes EXCEPT ![t] = u]
  BY <1>3
<1> HIDE DEF u, t
<1>7. /\ runtimes' \in [Runtimes -> Runtime] /\ runtimes'[t] = u
      /\ \A v \in Runtimes : v # t => runtimes'[v] = runtimes[v]
  BY <1>1, <1>2, <1>5, <1>6 DEF TypeOK
<1>8. TypeOK'
  BY <1>1, <1>2, <1>3, <1>4, <1>7 DEF TypeOK, archive, draining
<1>9. PlacesOK'
  BY <1>1, <1>4 DEF PlacesOK
<1>10. \A v \in Runtimes : v # t => runtimes[v].phase \notin {"creating", "open"}
  BY <1>1, <1>2, AccessBounds DEF OwnedOK, t
<1>11. OwnedOK' /\ FreshOK'
  BY <1>2, <1>3, <1>5, <1>7, <1>10 DEF OwnedOK, FreshOK
<1>12. ClosersOK'
  <2>1. \A p \in Requests : At(p, "closing") => requests[p].runtime \in Runtimes /\ requests[p].runtime # t
    BY <1>1, <1>2 DEF PlacesOK, Standing, Holding, At, ClosersOK
  <2>2. \A v \in Runtimes : runtimes'[v].phase = "closing" => v # t /\ runtimes[v].phase = "closing"
    BY <1>5, <1>7
  <2> QED BY <1>1, <1>4, <1>7, <2>1, <2>2 DEF ClosersOK, At
<1>13. QueueOK'
  BY <1>2, <1>4 DEF QueueOK, draining
<1>14. WaitersOK'
  <2>1. \A p \in Requests : requests[p].at \in {"wait", "closeWait"} => requests[p].runtime = t
    BY <1>1, <1>2 DEF Settling, OwnedOK, PlacesOK, Standing, Holding, t
  <2> QED BY <1>2, <1>3, <1>4, <1>5, <1>7, <2>1 DEF WaitersOK, Idle
<1>15. ActiveOK'
  <2>1. active' # None => active' = t
    BY <1>2, <1>3
  <2>2. active' # None => ~Working(active)' /\ ~runtimes'[active'].navigating
    BY <1>2, <1>4, <1>5, <1>7, <2>1 DEF Working, Idle, draining
  <2> QED BY <2>2 DEF ActiveOK
<1> QED BY <1>8, <1>9, <1>11, <1>12, <1>13, <1>14, <1>15 DEF AccessInv

LEMMA LookingKeeps ==
  ASSUME AccessInv, NEW r \in Requests,
         Lookup(r) \/ Writable(r) \/ Find(r) \/ List(r) \/ Opened(r)
  PROVE  AccessInv'
<1>1. CASE Lookup(r)
  BY <1>1, LooksUpKeeps DEF Lookup, At
<1>2. CASE Writable(r)
  <2>1. ~At(r, "closing") /\ UNCHANGED <<opening, archive, compactions>>
    BY <1>2 DEF Writable, At
  <2>2. CASE Done(r) /\ UNCHANGED <<runtimes, active, draining>>
    BY <2>1, <2>2, DoneKeeps, RequestFacts DEF archive, draining
  <2>3. CASE LooksUp(r)
    BY <2>1, <2>3, LooksUpKeeps
  <2> QED BY <1>2, <2>2, <2>3 DEF Writable
<1>3. CASE Find(r)
  <2>1. At(r, "find") /\ ~At(r, "closing") /\ ~Settling /\ UNCHANGED <<archive, compactions>>
    BY <1>3 DEF Find, At
  <2>2. CASE Opens(r, TRUE)
    BY <2>1, <2>2, OpensKeep
  <2>3. CASE GoTo(r, "list") /\ UNCHANGED <<runtimes, active, opening, draining>>
    <3>1. "list" \in Places \ (Holding \cup {"input", "check"})
      BY DEF Places, Holding
    <3> QED BY <2>1, <2>3, <3>1, GoToKeeps, RequestFacts DEF archive, draining
  <2> QED BY <1>3, <2>2, <2>3 DEF Find
<1>4. CASE List(r)
  <2>1. At(r, "list") /\ ~At(r, "closing") /\ ~Settling /\ UNCHANGED <<archive, compactions>>
    BY <1>4 DEF List, At
  <2>2. CASE Opens(r, FALSE)
    BY <2>1, <2>2, OpensKeep
  <2>3. CASE Done(r) /\ UNCHANGED <<runtimes, active, opening, draining>>
    BY <2>1, <2>3, DoneKeeps, RequestFacts DEF archive, draining
  <2> QED BY <1>4, <2>2, <2>3 DEF List
<1>5. CASE Opened(r)
  <2> DEFINE t == requests[r].runtime
  <2>1. /\ requests[r].at = "wait" /\ t \in Runtimes /\ runtimes[t].phase # "creating"
        /\ Acts(r, t) /\ UNCHANGED <<opening, archive, compactions>>
    BY <1>5, RequestFacts DEF Opened, At, Standing, Holding
  <2>2. active \in {None, t} /\ ~runtimes[t].compacting
    BY <2>1 DEF AccessInv, WaitersOK
  <2> QED BY <2>1, <2>2, ActsKeep DEF At
<1> QED BY <1>1, <1>2, <1>3, <1>4, <1>5

LEMMA NavigationEndsKeeps ==
  ASSUME AccessInv, NEW r \in Requests, NavigationEnds(r)
  PROVE  AccessInv'
<1> DEFINE t == requests[r].runtime
           u == [runtimes[t] EXCEPT !.navigating = FALSE]
<1>1. /\ TypeOK /\ ActiveOK /\ FreshOK /\ requests \in [Requests -> Request]
      /\ requests[r].at = "navigating" /\ t \in Runtimes /\ runtimes[t] \in Runtime
      /\ (active # None => active \in Runtimes)
  BY RequestFacts DEF AccessInv, NavigationEnds, At, Standing, Holding
<1>2. /\ requests' = [requests EXCEPT ![r] = Ended] /\ runtimes' = [runtimes EXCEPT ![t] = u]
      /\ UNCHANGED <<active, opening, archive, draining, compactions>>
  BY <1>1 DEF NavigationEnds, Done
<1>3. /\ u \in Runtime /\ u.phase = runtimes[t].phase /\ u.compacting = runtimes[t].compacting
      /\ u.prompts = runtimes[t].prompts /\ u.drained = runtimes[t].drained
      /\ u.streaming = runtimes[t].streaming /\ ~u.navigating /\ u.late = runtimes[t].late
  BY <1>1 DEF Runtime
<1> HIDE DEF t, u
<1>4. /\ requests' \in [Requests -> Request] /\ requests'[r] = Ended
      /\ \A p \in Requests : p # r => requests'[p] = requests[p]
      /\ runtimes'[t] = u /\ \A v \in Runtimes : v # t => runtimes'[v] = runtimes[v]
  BY <1>1, <1>2, StandingFacts DEF TypeOK
<1>5. u.phase = "creating" => Idle(u)
  BY <1>1, <1>3 DEF FreshOK, Idle
<1>6. Exclusive' => Exclusive
  BY <1>4, StandingFacts DEF Exclusive
<1>7. active # None => /\ Working(active)' <=> Working(active)
                       /\ runtimes'[active].navigating => runtimes[active].navigating
                       /\ runtimes'[active].late = runtimes[active].late
  BY <1>1, <1>2, <1>3, <1>4 DEF Working, draining
<1>8. ActiveOK'
  BY <1>1, <1>2, <1>6, <1>7 DEF ActiveOK
<1>9. /\ queued' = queued /\ queued \in Nat /\ timer' \in BOOLEAN /\ compactions' \in 0..MaxCompactions
      /\ UNCHANGED <<active, opening, archive>>
  BY <1>1, <1>2 DEF TypeOK, draining
<1>10. \A p \in Requests :
         \/ requests'[p] = requests[p]
         \/ /\ ~At(p, "closing") /\ requests'[p].at \notin {"closing", "wait", "closeWait"}
            /\ Standing(requests'[p])
  BY <1>1, <1>4, StandingFacts DEF At
<1> QED BY <1>1, <1>2, <1>3, <1>4, <1>5, <1>8, <1>9, <1>10, RuntimeKeeps

LEMMA AbortEndsKeeps ==
  ASSUME AccessInv, NEW r \in Requests, AbortEnds(r)
  PROVE  AccessInv'
<1> DEFINE t == requests[r].runtime
           u == [runtimes[t] EXCEPT !.prompts = 0, !.drained = 0, !.streaming = FALSE]
<1>1. /\ TypeOK /\ ActiveOK /\ FreshOK /\ requests \in [Requests -> Request]
      /\ requests[r].at = "aborting" /\ t \in Runtimes /\ runtimes[t] \in Runtime
      /\ (active # None => active \in Runtimes)
  BY RequestFacts DEF AccessInv, AbortEnds, At, Standing, Holding
<1>2. /\ requests' = [requests EXCEPT ![r] = Ended]
      /\ runtimes' = [runtimes EXCEPT ![t] = u] \/ UNCHANGED runtimes
      /\ UNCHANGED <<active, opening, archive, draining, compactions>>
  BY <1>1 DEF AbortEnds, Done
<1>3. CASE UNCHANGED runtimes
  BY <1>1, <1>2, <1>3, DoneKeeps, RequestFacts DEF Done, At, archive, draining
<1>4. CASE runtimes' = [runtimes EXCEPT ![t] = u]
  <2>1. /\ u \in Runtime /\ u.phase = runtimes[t].phase /\ u.compacting = runtimes[t].compacting
        /\ u.prompts = 0 /\ u.drained = 0
        /\ ~u.streaming /\ u.navigating = runtimes[t].navigating /\ u.late = runtimes[t].late
    BY <1>1 DEF Runtime
  <2> HIDE DEF t, u
  <2>2. /\ requests' \in [Requests -> Request] /\ requests'[r] = Ended
        /\ \A p \in Requests : p # r => requests'[p] = requests[p]
        /\ runtimes'[t] = u /\ \A v \in Runtimes : v # t => runtimes'[v] = runtimes[v]
    BY <1>1, <1>2, <1>4, StandingFacts DEF TypeOK
  <2>3. u.phase = "creating" => Idle(u)
    BY <1>1, <2>1 DEF FreshOK, Idle
  <2>4. Exclusive' => Exclusive
    BY <2>2, StandingFacts DEF Exclusive
  <2>5. active # None => /\ Working(active)' => Working(active)
                         /\ runtimes'[active].navigating = runtimes[active].navigating
                         /\ runtimes'[active].late = runtimes[active].late
    <3>1. \A v \in Runtimes : runtimes[v].prompts \in Nat /\ runtimes[v].drained \in Nat
      BY <1>1 DEF TypeOK, Runtime
    <3>2. queued' = queued
      BY <1>2 DEF draining
    <3> QED BY <1>1, <1>2, <2>1, <2>2, <3>1, <3>2 DEF Working
  <2>6. ActiveOK'
    BY <1>1, <1>2, <2>4, <2>5 DEF ActiveOK
  <2>7. /\ queued' = queued /\ queued \in Nat /\ timer' \in BOOLEAN /\ compactions' \in 0..MaxCompactions
        /\ UNCHANGED <<active, opening, archive>>
    BY <1>1, <1>2 DEF TypeOK, draining
  <2>8. \A p \in Requests :
          \/ requests'[p] = requests[p]
          \/ /\ ~At(p, "closing") /\ requests'[p].at \notin {"closing", "wait", "closeWait"}
             /\ Standing(requests'[p])
    BY <1>1, <2>2, StandingFacts DEF At
  <2> QED BY <1>1, <1>4, <2>1, <2>2, <2>3, <2>6, <2>7, <2>8, RuntimeKeeps
<1> QED BY <1>2, <1>3, <1>4

LEMMA StopKeeps ==
  ASSUME AccessInv, NEW r \in Requests, Stop(r)
  PROVE  AccessInv'
<1>1. /\ ~At(r, "closing") /\ requests[r].op = "stop" /\ requests[r] \in Request
      /\ UNCHANGED <<opening, archive, compactions>>
  BY RequestFacts DEF Stop, At, Op
<1>2. CASE Closes(r, requests[r])
  BY <1>1, <1>2, ClosesKeeps DEF Closers, Archivers
<1>3. CASE Done(r) /\ UNCHANGED <<runtimes, active, draining>>
  BY <1>1, <1>3, DoneKeeps, RequestFacts DEF archive, draining
<1> QED BY <1>2, <1>3 DEF Stop

LEMMA AbortKeeps ==
  ASSUME AccessInv, NEW r \in Requests, Abort(r)
  PROVE  AccessInv'
<1>1. /\ ~At(r, "closing") /\ requests[r] \in Request /\ requests \in [Requests -> Request]
      /\ UNCHANGED <<runtimes, active, opening, archive, compactions>>
  BY RequestFacts DEF Abort, At
<1>2. CASE Done(r) /\ UNCHANGED draining
  BY <1>1, <1>2, DoneKeeps, RequestFacts DEF archive, draining
<1>3. CASE /\ active # None /\ queued' = 0 /\ timer' = FALSE
           /\ requests' = [requests EXCEPT ![r].at = "aborting", ![r].runtime = active]
  <2> DEFINE q == [requests[r] EXCEPT !.at = "aborting", !.runtime = active]
  <2>1. active \in Runtimes
    BY <1>3, RequestFacts
  <2>2. q \in Request /\ q.at = "aborting" /\ q.runtime = active /\ q.held = requests[r].held
    BY <1>1, <2>1 DEF Request, Places
  <2>3. requests' = [requests EXCEPT ![r] = q]
    BY <1>1, <1>3
  <2> HIDE DEF q
  <2>4. Standing(q)
    BY <2>1, <2>2 DEF Standing
  <2> QED BY <1>1, <1>3, <2>2, <2>3, <2>4, RequestFacts, RequestKeeps DEF archive
<1> QED BY <1>2, <1>3 DEF Abort

LEMMA ArchivingKeeps ==
  ASSUME AccessInv, NEW r \in Requests,
         ArchiveManyReads(r) \/ ArchiveManyCloses(r) \/ Restores(r)
  PROVE  AccessInv'
<1>1. CASE ArchiveManyReads(r)
  <2>1. /\ ~At(r, "closing") /\ UNCHANGED <<runtimes, active, opening, archive, draining, compactions>>
        /\ requests[r].op = "archiveMany" /\ requests[r] \in Request /\ requests \in [Requests -> Request]
    BY <1>1, RequestFacts DEF ArchiveManyReads, At, Op
  <2>2. CASE Done(r)
    BY <2>1, <2>2, DoneKeeps, RequestFacts DEF archive, draining
  <2>3. CASE GoTo(r, "check")
    <3> DEFINE q == [requests[r] EXCEPT !.at = "check", !.runtime = None]
    <3>1. q \in Request /\ q.at = "check" /\ q.op = "archiveMany" /\ q.held = requests[r].held
      BY <2>1 DEF Request, Places
    <3>2. requests' = [requests EXCEPT ![r] = q]
      BY <2>1, <2>3 DEF GoTo
    <3> HIDE DEF q
    <3>3. Standing(q)
      BY <3>1 DEF Standing, Holding
    <3> QED BY <2>1, <3>1, <3>2, <3>3, RequestFacts, RequestKeeps DEF archive, draining
  <2> QED BY <1>1, <2>2, <2>3 DEF ArchiveManyReads
<1>2. CASE ArchiveManyCloses(r)
  <2>1. /\ ~At(r, "closing") /\ requests[r].op = "archiveMany" /\ requests[r] \in Request
        /\ UNCHANGED <<opening, archive, compactions>>
    BY <1>2, RequestFacts DEF ArchiveManyCloses, At, Standing
  <2>2. CASE Done(r) /\ UNCHANGED <<runtimes, active, draining>>
    BY <2>1, <2>2, DoneKeeps, RequestFacts DEF archive, draining
  <2>3. CASE Closes(r, [requests[r] EXCEPT !.held = TRUE])
    <3> DEFINE q == [requests[r] EXCEPT !.held = TRUE]
    <3>1. q \in Request /\ q.op = "archiveMany" /\ q.held
      BY <2>1 DEF Request
    <3>2. Closes(r, q)
      BY <2>3
    <3> HIDE DEF q
    <3> QED BY <2>1, <3>1, <3>2, ClosesKeeps DEF Closers
  <2> QED BY <1>2, <2>2, <2>3 DEF ArchiveManyCloses
<1>3. CASE Restores(r)
  <2>1. /\ ~At(r, "closing") /\ requests[r].op = "restore" /\ requests[r] \in Request
        /\ UNCHANGED <<opening, archive, compactions>>
    BY <1>3, RequestFacts DEF Restores, At, Op
  <2>2. CASE Done(r) /\ UNCHANGED <<runtimes, active, draining>>
    BY <2>1, <2>2, DoneKeeps, RequestFacts DEF archive, draining
  <2>3. CASE Closes(r, requests[r])
    BY <2>1, <2>3, ClosesKeeps DEF Closers, Archivers
  <2> QED BY <1>3, <2>2, <2>3 DEF Restores
<1> QED BY <1>1, <1>2, <1>3

LEMMA StoringKeeps ==
  ASSUME AccessInv, NEW r \in Requests,
         ArchiveCommits(r) \/ ArchiveRemoves(r) \/ RestoreMoves(r) \/ RestoreCommits(r)
  PROVE  AccessInv'
<1>1. /\ ~At(r, "closing") /\ UNCHANGED <<runtimes, active, opening, draining, compactions>>
      /\ archived' \in BOOLEAN /\ listed' \in BOOLEAN /\ store' \in Requests \cup {None}
      /\ Done(r) \/ GoTo(r, "remove") \/ GoTo(r, "unindex")
  BY RequestFacts DEF ArchiveCommits, ArchiveRemoves, RestoreMoves, RestoreCommits, At
<1>2. {"remove", "unindex"} \subseteq Places \ (Holding \cup {"input", "check"})
  BY DEF Places, Holding
<1> QED BY <1>1, <1>2, DoneKeeps, GoToKeeps, RequestFacts DEF draining

----------------------------------------------------------------------------
(* The session's runtime: its work *)

\* Work of the session's runtime goes on, or begins outside of a navigation.
LEMMA WorkKeeps ==
  ASSUME AccessInv, active # None, UNCHANGED <<requests, active, opening, archive>>,
         NEW u \in Runtime, runtimes' = [runtimes EXCEPT ![active] = u],
         u.phase = runtimes[active].phase, u.navigating = runtimes[active].navigating,
         runtimes[active].late => u.late,
         u.compacting => runtimes[active].compacting \/ ~Settling,
         queued' \in Nat, timer' \in BOOLEAN, compactions' \in 0..MaxCompactions,
         Working(active)' =>
           Working(active) \/ (~runtimes[active].navigating /\ (Exclusive => u.late))
  PROVE  AccessInv'
<1>1. /\ TypeOK /\ ActiveOK /\ active \in Runtimes /\ runtimes[active].phase = "open"
      /\ runtimes'[active] = u
  BY RequestFacts DEF AccessInv, TypeOK, OwnedOK
<1>2. Exclusive' <=> Exclusive
  BY DEF Exclusive
<1>3. ActiveOK'
  BY <1>1, <1>2 DEF ActiveOK
<1>4. requests' \in [Requests -> Request]
  BY <1>1 DEF TypeOK
<1> QED BY <1>1, <1>3, <1>4, RuntimeKeeps

LEMMA ActiveFacts ==
  ASSUME AccessInv, active # None
  PROVE  /\ active \in Runtimes /\ runtimes[active] \in Runtime /\ runtimes[active].phase = "open"
         /\ runtimes \in [Runtimes -> Runtime]
         /\ queued \in Nat /\ timer \in BOOLEAN /\ compactions \in 0..MaxCompactions
         /\ runtimes[active].prompts \in Nat /\ runtimes[active].drained \in Nat
         /\ runtimes[active].streaming \in BOOLEAN /\ runtimes[active].late \in BOOLEAN
BY DEF AccessInv, TypeOK, OwnedOK, Runtime

LEMMA CompactingKeeps ==
  ASSUME AccessInv, CompactionStarts \/ CompactionEnds
  PROVE  AccessInv'
<1>1. active # None /\ ~Settling /\ UNCHANGED <<requests, active, opening, archive, queued>>
  BY DEF CompactionStarts, CompactionEnds, draining
<1>2. CASE CompactionStarts
  <2> DEFINE u == [runtimes[active] EXCEPT !.compacting = TRUE, !.late = @ \/ Exclusive]
  <2>1. runtimes' = [runtimes EXCEPT ![active] = u]
    BY <1>1, <1>2, ActiveFacts DEF CompactionStarts
  <2>2. /\ u \in Runtime /\ u.phase = runtimes[active].phase /\ u.navigating = runtimes[active].navigating
        /\ u.late = (runtimes[active].late \/ Exclusive)
    BY <1>1, ActiveFacts DEF Runtime, Exclusive
  <2>3. ~runtimes[active].navigating /\ timer' \in BOOLEAN /\ compactions' \in 0..MaxCompactions
    BY <1>1, <1>2, ActiveFacts, AccessBounds DEF CompactionStarts, CompactionMayStart, draining
  <2> HIDE DEF u
  <2> QED BY <1>1, <2>1, <2>2, <2>3, ActiveFacts, WorkKeeps
<1>3. CASE CompactionEnds
  <2> DEFINE u == [runtimes[active] EXCEPT !.compacting = FALSE]
  <2>1. runtimes' = [runtimes EXCEPT ![active] = u] /\ runtimes[active].compacting
    BY <1>1, <1>3, ActiveFacts DEF CompactionEnds
  <2>2. /\ u \in Runtime /\ u.phase = runtimes[active].phase /\ u.navigating = runtimes[active].navigating
        /\ u.late = runtimes[active].late /\ ~u.compacting
    BY <1>1, ActiveFacts DEF Runtime
  <2>3. timer' \in BOOLEAN /\ compactions' \in 0..MaxCompactions
    BY <1>1, <1>3, ActiveFacts DEF CompactionEnds, Schedule
  <2>4. Working(active)
    BY <2>1 DEF Working
  <2> HIDE DEF u
  <2> QED BY <1>1, <2>1, <2>2, <2>3, <2>4, ActiveFacts, WorkKeeps
<1> QED BY <1>2, <1>3

LEMMA AgentKeeps ==
  ASSUME AccessInv, AgentStarts \/ AgentEnds \/ PromptFails \/ DrainedFails
  PROVE  AccessInv'
<1>1. /\ active # None /\ ~Settling /\ UNCHANGED <<requests, active, opening, archive, queued, compactions>>
      /\ Working(active) /\ timer' \in BOOLEAN
  <2>1. active # None
    BY DEF AgentStarts, AgentEnds, PromptFails, DrainedFails
  <2>2. timer \in BOOLEAN /\ runtimes[active].prompts \in Nat /\ runtimes[active].drained \in Nat
    BY <2>1, ActiveFacts
  <2>3. CASE AgentStarts
    BY <2>1, <2>2, <2>3 DEF AgentStarts, Schedule, Working
  <2>4. CASE AgentEnds
    BY <2>1, <2>2, <2>4 DEF AgentEnds, Schedule, Working
  <2>5. CASE PromptFails
    BY <2>1, <2>2, <2>5 DEF PromptFails, draining, Working
  <2>6. CASE DrainedFails
    BY <2>1, <2>2, <2>6 DEF DrainedFails, LooksAgain, Schedule, Working
  <2> QED BY <2>3, <2>4, <2>5, <2>6
<1>2. \E u \in Runtime :
        /\ runtimes' = [runtimes EXCEPT ![active] = u]
        /\ u.phase = runtimes[active].phase /\ u.navigating = runtimes[active].navigating
        /\ u.late = runtimes[active].late /\ u.compacting = runtimes[active].compacting
  <2>1. CASE AgentStarts
    <3> DEFINE u == [runtimes[active] EXCEPT !.streaming = TRUE]
    <3>1. /\ u \in Runtime /\ u.phase = runtimes[active].phase /\ u.navigating = runtimes[active].navigating
          /\ u.late = runtimes[active].late /\ u.compacting = runtimes[active].compacting
      BY <1>1, ActiveFacts DEF Runtime
    <3>2. runtimes' = [runtimes EXCEPT ![active] = u]
      BY <2>1 DEF AgentStarts
    <3> HIDE DEF u
    <3> QED BY <3>1, <3>2
  <2>2. CASE AgentEnds
    <3> DEFINE u == [runtimes[active] EXCEPT !.prompts = 0, !.drained = 0, !.streaming = FALSE]
    <3>1. /\ u \in Runtime /\ u.phase = runtimes[active].phase /\ u.navigating = runtimes[active].navigating
          /\ u.late = runtimes[active].late /\ u.compacting = runtimes[active].compacting
      BY <1>1, ActiveFacts DEF Runtime
    <3>2. runtimes' = [runtimes EXCEPT ![active] = u]
      BY <2>2 DEF AgentEnds
    <3> HIDE DEF u
    <3> QED BY <3>1, <3>2
  <2>3. CASE PromptFails
    <3> DEFINE u == [runtimes[active] EXCEPT !.prompts = @ - 1]
    <3>0. runtimes[active].prompts - 1 \in Nat
      BY <1>1, <2>3, ActiveFacts DEF PromptFails
    <3>1. /\ u \in Runtime /\ u.phase = runtimes[active].phase /\ u.navigating = runtimes[active].navigating
          /\ u.late = runtimes[active].late /\ u.compacting = runtimes[active].compacting
      BY <1>1, <3>0, ActiveFacts DEF Runtime
    <3>2. runtimes' = [runtimes EXCEPT ![active] = u]
      BY <2>3 DEF PromptFails
    <3> HIDE DEF u
    <3> QED BY <3>1, <3>2
  <2>4. CASE DrainedFails
    <3> DEFINE u == [runtimes[active] EXCEPT !.drained = @ - 1]
    <3>0. runtimes[active].drained - 1 \in Nat
      BY <1>1, <2>4, ActiveFacts DEF DrainedFails
    <3>1. /\ u \in Runtime /\ u.phase = runtimes[active].phase /\ u.navigating = runtimes[active].navigating
          /\ u.late = runtimes[active].late /\ u.compacting = runtimes[active].compacting
      BY <1>1, <3>0, ActiveFacts DEF Runtime
    <3>2. runtimes' = [runtimes EXCEPT ![active] = u]
      BY <2>4 DEF DrainedFails
    <3> HIDE DEF u
    <3> QED BY <3>1, <3>2
  <2> QED BY <2>1, <2>2, <2>3, <2>4
<1> QED BY <1>1, <1>2, ActiveFacts, WorkKeeps

LEMMA DrainKeeps ==
  ASSUME AccessInv, Drain
  PROVE  AccessInv'
<1>1. /\ active # None /\ ~Settling /\ timer' = FALSE
      /\ UNCHANGED <<requests, active, opening, archive, compactions>>
      /\ runtimes[active] \in Runtime /\ runtimes \in [Runtimes -> Runtime] /\ queued \in Nat
  BY ActiveFacts DEF Drain
<1>2. CASE UNCHANGED <<runtimes, queued>>
  <2>1. TypeOK' /\ ActiveOK'
    BY <1>1, <1>2 DEF AccessInv, TypeOK, ActiveOK, Working, Exclusive, archive
  <2>2. \A t \in Runtimes : runtimes[t].phase = "creating" => Idle(runtimes[t])
    BY DEF AccessInv, FreshOK
  <2> QED BY <1>1, <1>2, <2>1, <2>2, LifeKeeps
<1>3. CASE runtimes[active].streaming /\ queued' = 0
           /\ runtimes' = [runtimes EXCEPT ![active].prompts = @ + queued]
  <2> DEFINE u == [runtimes[active] EXCEPT !.prompts = @ + queued]
  <2>0. runtimes[active].prompts + queued \in Nat
    BY <1>1, ActiveFacts
  <2>1. /\ u \in Runtime /\ u.phase = runtimes[active].phase /\ u.navigating = runtimes[active].navigating
        /\ u.late = runtimes[active].late /\ u.compacting = runtimes[active].compacting
    BY <1>1, <2>0 DEF Runtime
  <2>2. runtimes' = [runtimes EXCEPT ![active] = u]
    BY <1>3
  <2> HIDE DEF u
  <2> QED BY <1>1, <1>3, <2>1, <2>2, ActiveFacts, WorkKeeps DEF Working
<1>4. CASE queued > 0 /\ queued' = queued - 1
           /\ runtimes' = [runtimes EXCEPT ![active].drained = @ + 1]
  <2> DEFINE u == [runtimes[active] EXCEPT !.drained = @ + 1]
  <2>0. runtimes[active].drained + 1 \in Nat
    BY <1>1, ActiveFacts
  <2>1. /\ u \in Runtime /\ u.phase = runtimes[active].phase /\ u.navigating = runtimes[active].navigating
        /\ u.late = runtimes[active].late /\ u.compacting = runtimes[active].compacting
    BY <1>1, <2>0 DEF Runtime
  <2>2. runtimes' = [runtimes EXCEPT ![active] = u]
    BY <1>4
  <2> HIDE DEF u
  <2>3. queued' \in Nat
    BY <1>1, <1>4
  <2> QED BY <1>1, <1>4, <2>1, <2>2, <2>3, ActiveFacts, WorkKeeps DEF Working
<1> QED BY <1>2, <1>3, <1>4 DEF Drain, Shifted

----------------------------------------------------------------------------
(* The session's runtime: the theorems *)

LEMMA AccessInit == Init => AccessInv
<1> SUFFICES ASSUME Init PROVE AccessInv
  OBVIOUS
<1>1. [Ended EXCEPT !.at = "new"] \in Request /\ [Ended EXCEPT !.at = "new"].at = "new"
      /\ ~[Ended EXCEPT !.at = "new"].held
  BY DEF Ended, Request, Ops, Places
<1>2. \A r \in Requests : requests[r].at = "new" /\ ~requests[r].held
  BY <1>1 DEF Init
<1>3. \A t \in Runtimes : runtimes[t] = Disposed
  BY DEF Init
<1>4. TypeOK
  <2>1. requests \in [Requests -> Request] /\ runtimes \in [Runtimes -> Runtime]
    BY <1>1, StandingFacts DEF Init
  <2>2. 0 \in 0..MaxCompactions
    BY AccessBounds
  <2> QED BY <2>1, <2>2 DEF Init, TypeOK
<1>5. PlacesOK /\ ClosersOK /\ WaitersOK
  BY <1>2, <1>3, StandingFacts DEF PlacesOK, Standing, Holding, ClosersOK, WaitersOK, At
<1>6. OwnedOK /\ FreshOK /\ QueueOK /\ ActiveOK
  BY <1>3, StandingFacts DEF Init, OwnedOK, FreshOK, QueueOK, ActiveOK
<1> QED BY <1>4, <1>5, <1>6 DEF AccessInv

LEMMA AccessNext == AccessInv /\ [Next]_vars => AccessInv'
<1> SUFFICES ASSUME AccessInv, [Next]_vars PROVE AccessInv'
  OBVIOUS
<1>1. CASE UNCHANGED vars
  <2>1. TypeOK' /\ ActiveOK'
    BY <1>1 DEF vars, AccessInv, TypeOK, ActiveOK, Working, Exclusive, archive, draining
  <2>2. \A t \in Runtimes : runtimes[t].phase = "creating" => Idle(runtimes[t])
    BY DEF AccessInv, FreshOK
  <2>3. UNCHANGED <<requests, runtimes, active, opening, queued>>
    BY <1>1 DEF vars, draining
  <2> QED BY <2>1, <2>2, <2>3, LifeKeeps
<1>2. ASSUME NEW r \in Requests, Proceeds(r) PROVE AccessInv'
  BY <1>2, CloseResumesKeeps, CloseEndsKeeps, HasInputKeeps, NavigationEndsKeeps, LookingKeeps, StopKeeps,
     AbortKeeps, AbortEndsKeeps, ArchivingKeeps, StoringKeeps DEF Proceeds
<1> QED BY <1>1, <1>2, BeginKeeps, CreationEndsKeeps, CompactingKeeps, AgentKeeps, DrainKeeps DEF Next

\* The inductive invariant of the session's runtime, its requests and its queue.
THEOREM AccessInvariant == Spec => []AccessInv
BY AccessInit, AccessNext, PTL DEF Spec

\* A session has one runtime at most, and whatever runtime lives has its owner.
THEOREM AccessRuntimesAreOwned == Spec => []RuntimesAreOwned
<1>1. AccessInv => RuntimesAreOwned
  BY AccessBounds DEF AccessInv, TypeOK, OwnedOK, ClosersOK, RuntimesAreOwned, OneRuntime, NoneIsOrphaned
<1> QED BY <1>1, AccessInvariant, PTL

\* While the session's tree is navigated, nothing else works in it.
THEOREM AccessNavigationIsExclusive == Spec => []NavigationIsExclusive
<1>1. AccessInv => NavigationIsExclusive
  BY AccessBounds DEF AccessInv, OwnedOK, ActiveOK, NavigationIsExclusive
<1> QED BY <1>1, AccessInvariant, PTL

Spared == (~Working(active) /\ ~runtimes[active].navigating) \/ runtimes[active].late

LEMMA ClosesFinds ==
  ASSUME AccessInv, NEW r \in Requests, NEW req \in Request, Closes(r, req), req.op \in Closers,
         requests'[r].at = "closing", Exclusive \/ (active # None => ~HasActiveWork(active))
  PROVE  Spared
<1>1. requests \in [Requests -> Request]
  BY DEF AccessInv, TypeOK
<1>2. active # None
  <2> SUFFICES ASSUME active = None PROVE FALSE
    OBVIOUS
  <2>1. CASE requests' = [requests EXCEPT ![r] = [req EXCEPT !.at = "closeWait", !.runtime = opening]]
    BY <1>1, <2>1 DEF Request
  <2>2. CASE requests' = [requests EXCEPT ![r] =
               IF req.op = "stop" THEN Ended ELSE [req EXCEPT !.at = AfterClose[req.op], !.runtime = None]]
    <3>1. req.op # "stop" => AfterClose[req.op] \in {"store", "lookup"}
      BY DEF AfterClose, Closers
    <3> QED BY <1>1, <2>2, <3>1, StandingFacts DEF Request
  <2> QED BY <2>1, <2>2 DEF Closes
<1> QED BY <1>2 DEF Spared, AccessInv, ActiveOK, HasActiveWork

LEMMA ActsFind ==
  ASSUME AccessInv, NEW r \in Requests, NEW t \in Runtimes, active \in {None, t}, Acts(r, t),
         requests'[r].at = "closing", requests[r].op \in Archivers
  PROVE  Spared
<1>1. requests \in [Requests -> Request] /\ requests[r] \in Request
  BY DEF AccessInv, TypeOK
<1>2. ~Done(r)
  BY <1>1, StandingFacts DEF Done
<1>3. /\ Op(r, {"reload"}) /\ ~Busy(r, t) /\ ~requests[r].held
      /\ Closes(r, [requests[r] EXCEPT !.held = TRUE])
  <2>1. ~Op(r, {"prompt"}) /\ ~Op(r, {"navigate"})
    BY DEF Op, Archivers
  <2>2. ~(Op(r, {"archive"}) /\ requests' = [requests EXCEPT ![r].at = "input", ![r].held = TRUE])
    BY <1>1 DEF Request
  <2> QED BY <1>2, <2>1, <2>2 DEF Acts
<1>4. ~HasActiveWork(t)
  BY <1>3 DEF Busy, Op
<1>5. [requests[r] EXCEPT !.held = TRUE] \in Request /\ [requests[r] EXCEPT !.held = TRUE].op \in Closers
  BY <1>1, <1>3 DEF Request, Op, Closers
<1> QED BY <1>3, <1>4, <1>5, ClosesFinds

\* What a request does changes its own record.
Alone(p) == \A r \in Requests \ {p} : requests'[r] = requests[r]

LEMMA AloneFacts ==
  ASSUME requests \in [Requests -> Request], NEW p \in Requests
  PROVE  /\ Done(p) => Alone(p)
         /\ \A next \in Places : GoTo(p, next) => Alone(p)
         /\ \A req \in Request : Closes(p, req) => Alone(p)
         /\ \A t \in Runtimes : Acts(p, t) => Alone(p)
<1>1. Done(p) => Alone(p)
  BY DEF Done, Alone
<1>2. \A next \in Places : GoTo(p, next) => Alone(p)
  BY DEF GoTo, Alone
<1>3. \A req : Closes(p, req) => Alone(p)
  BY DEF Closes, Alone
<1>4. \A t \in Runtimes : Acts(p, t) => Alone(p)
  <2> SUFFICES ASSUME NEW t \in Runtimes, Acts(p, t) PROVE Alone(p)
    OBVIOUS
  <2>1. CASE Done(p)
    BY <1>1, <2>1
  <2>2. CASE Closes(p, [requests[p] EXCEPT !.held = TRUE])
    BY <1>3, <2>2
  <2>3. CASE requests' = [requests EXCEPT ![p].at = "navigating", ![p].runtime = t]
    BY <2>3 DEF Alone
  <2>4. CASE requests' = [requests EXCEPT ![p].at = "input", ![p].held = TRUE]
    BY <2>4 DEF Alone
  <2> QED BY <2>1, <2>2, <2>3, <2>4 DEF Acts, Prompts
<1> QED BY <1>1, <1>2, <1>3, <1>4

\* Opening the runtime: a request acts on it or moves on, without closing it.
LEMMA LookingSpares ==
  ASSUME AccessInv, NEW p \in Requests,
         Lookup(p) \/ Writable(p) \/ Find(p) \/ List(p) \/ Opened(p)
  PROVE  /\ Alone(p)
         /\ requests'[p].at = "closing" /\ requests[p].op \in Archivers => Spared
<1>1. requests \in [Requests -> Request] /\ requests[p] \in Request /\ active \in Runtimes \cup {None}
  BY DEF AccessInv, TypeOK
<1>2. \/ Done(p) \/ GoTo(p, "find") \/ GoTo(p, "list")
      \/ \E t \in Runtimes : active \in {None, t} /\ Acts(p, t)
      \/ requests' = [requests EXCEPT ![p].at = "wait", ![p].runtime = opening]
      \/ \E t \in Runtimes : requests' = [requests EXCEPT ![p].at = "wait", ![p].runtime = t]
  <2>1. active # None => active \in Runtimes
    BY <1>1
  <2>2. CASE Lookup(p)
    BY <2>1, <2>2 DEF Lookup, LooksUp
  <2>3. CASE Writable(p)
    BY <2>1, <2>3 DEF Writable, LooksUp
  <2>4. ASSUME NEW copy, Opens(p, copy)
        PROVE  \/ \E t \in Runtimes : active \in {None, t} /\ Acts(p, t)
               \/ requests' = [requests EXCEPT ![p].at = "wait", ![p].runtime = opening]
               \/ \E t \in Runtimes : requests' = [requests EXCEPT ![p].at = "wait", ![p].runtime = t]
    <3>1. CASE active # None /\ Acts(p, active)
      BY <2>1, <3>1
    <3>2. CASE Unused # {} /\ requests' = [requests EXCEPT ![p].at = "wait", ![p].runtime = CHOOSE t \in Unused : TRUE]
      <4>1. (CHOOSE t \in Unused : TRUE) \in Runtimes
        BY <3>2 DEF Unused
      <4> QED BY <3>2, <4>1
    <3> QED BY <2>4, <3>1, <3>2 DEF Opens
  <2>5. CASE Find(p)
    BY <2>4, <2>5 DEF Find
  <2>6. CASE List(p)
    BY <2>4, <2>6 DEF List
  <2>7. CASE Opened(p)
    <3>1. requests[p].runtime \in Runtimes /\ active \in {None, requests[p].runtime}
      BY <2>7 DEF Opened, At, AccessInv, PlacesOK, Standing, Holding, WaitersOK
    <3> QED BY <2>7, <3>1 DEF Opened
  <2> QED BY <2>2, <2>3, <2>5, <2>6, <2>7
<1>3. "find" \in Places /\ "list" \in Places
  BY DEF Places
<1>4. CASE Done(p)
  BY <1>1, <1>4, AloneFacts, StandingFacts DEF Done
<1>5. CASE GoTo(p, "find") \/ GoTo(p, "list")
  <2>1. Alone(p)
    BY <1>1, <1>3, <1>5, AloneFacts
  <2>2. requests'[p].at # "closing"
    BY <1>1, <1>5 DEF GoTo, Request
  <2> QED BY <2>1, <2>2
<1>6. ASSUME NEW t \in Runtimes, active \in {None, t}, Acts(p, t)
      PROVE  /\ Alone(p)
             /\ requests'[p].at = "closing" /\ requests[p].op \in Archivers => Spared
  BY <1>1, <1>6, AloneFacts, ActsFind
<1>7. ASSUME NEW t, requests' = [requests EXCEPT ![p].at = "wait", ![p].runtime = t]
      PROVE  Alone(p) /\ requests'[p].at # "closing"
  BY <1>1, <1>7 DEF Alone, Request
<1> QED BY <1>2, <1>4, <1>5, <1>6, <1>7

LEMMA ClosingSpares ==
  ASSUME AccessInv, NEW p \in Requests,
         CloseResumes(p) \/ CloseEnds(p) \/ HasInput(p) \/ ArchiveManyCloses(p) \/ Restores(p) \/ Stop(p)
  PROVE  /\ Alone(p)
         /\ requests'[p].at = "closing" /\ requests[p].op \in Archivers => Spared
<1>1. requests \in [Requests -> Request] /\ requests[p] \in Request
  BY DEF AccessInv, TypeOK
<1>2. CASE CloseResumes(p)
  <2>1. requests[p].op \in Closers /\ (requests[p].op \in Archivers => Exclusive)
    BY <1>2 DEF CloseResumes, At, AccessInv, PlacesOK, Standing, Exclusive
  <2>2. Closes(p, requests[p])
    BY <1>2 DEF CloseResumes
  <2> QED BY <1>1, <2>1, <2>2, AloneFacts, ClosesFinds
<1>3. CASE CloseEnds(p)
  <2>1. Done(p) \/ (Op(p, Closers \ {"stop"}) /\ GoTo(p, AfterClose[requests[p].op]))
    BY <1>3 DEF CloseEnds, At, Op, AccessInv, PlacesOK, Standing
  <2>2. CASE Done(p)
    BY <1>1, <2>2, AloneFacts, StandingFacts DEF Done
  <2>3. CASE Op(p, Closers \ {"stop"}) /\ GoTo(p, AfterClose[requests[p].op])
    <3>1. AfterClose[requests[p].op] \in {"store", "lookup"}
      BY <2>3 DEF AfterClose, Closers, Op
    <3>2. AfterClose[requests[p].op] \in Places /\ AfterClose[requests[p].op] # "closing"
      BY <3>1 DEF Places
    <3>3. Alone(p)
      BY <1>1, <2>3, <3>2, AloneFacts
    <3>4. requests'[p].at # "closing"
      BY <1>1, <2>3, <3>2 DEF GoTo, Request
    <3> QED BY <3>3, <3>4
  <2> QED BY <2>1, <2>2, <2>3
<1>4. CASE HasInput(p)
  <2>1. requests[p].op \in Closers /\ Exclusive
    BY <1>4 DEF HasInput, At, AccessInv, PlacesOK, Standing, Exclusive, Closers
  <2>2. Closes(p, requests[p])
    BY <1>4 DEF HasInput
  <2> QED BY <1>1, <2>1, <2>2, AloneFacts, ClosesFinds
<1>5. CASE ArchiveManyCloses(p)
  <2>1. CASE Done(p)
    BY <1>1, <2>1, AloneFacts, StandingFacts DEF Done
  <2>2. CASE (active # None => ~HasActiveWork(active)) /\ Closes(p, [requests[p] EXCEPT !.held = TRUE])
    <3> DEFINE q == [requests[p] EXCEPT !.held = TRUE]
    <3>1. requests[p].op = "archiveMany"
      BY <1>5 DEF ArchiveManyCloses, At, AccessInv, PlacesOK, Standing
    <3>2. q \in Request /\ q.op \in Closers
      BY <1>1, <3>1 DEF Request, Closers
    <3> HIDE DEF q
    <3>3. Closes(p, q)
      BY <2>2 DEF q
    <3> QED BY <1>1, <2>2, <3>2, <3>3, AloneFacts, ClosesFinds
  <2> QED BY <1>5, <2>1, <2>2 DEF ArchiveManyCloses
<1>6. CASE Restores(p) \/ Stop(p)
  <2>1. requests[p].op \notin Archivers /\ (Done(p) \/ Closes(p, requests[p]))
    BY <1>6 DEF Restores, Stop, Op, Archivers
  <2> QED BY <1>1, <2>1, AloneFacts
<1> QED BY <1>2, <1>3, <1>4, <1>5, <1>6

LEMMA StoringSpares ==
  ASSUME AccessInv, NEW p \in Requests,
         \/ NavigationEnds(p) \/ Abort(p) \/ AbortEnds(p) \/ ArchiveManyReads(p)
         \/ ArchiveCommits(p) \/ ArchiveRemoves(p) \/ RestoreMoves(p) \/ RestoreCommits(p)
  PROVE  Alone(p) /\ requests'[p].at # "closing"
<1>1. requests \in [Requests -> Request] /\ requests[p] \in Request
  BY DEF AccessInv, TypeOK
<1>2. \/ Done(p) \/ GoTo(p, "check") \/ GoTo(p, "remove") \/ GoTo(p, "unindex")
      \/ requests' = [requests EXCEPT ![p].at = "aborting", ![p].runtime = active]
  BY DEF NavigationEnds, Abort, AbortEnds, ArchiveManyReads, ArchiveCommits, ArchiveRemoves, RestoreMoves,
         RestoreCommits
<1>3. CASE Done(p)
  BY <1>1, <1>3, AloneFacts, StandingFacts DEF Done
<1>4. ASSUME NEW next \in Places \ {"closing"}, GoTo(p, next) PROVE Alone(p) /\ requests'[p].at # "closing"
  <2>1. Alone(p)
    BY <1>1, <1>4, AloneFacts
  <2>2. requests'[p].at # "closing"
    BY <1>1, <1>4 DEF GoTo, Request
  <2> QED BY <2>1, <2>2
<1>5. CASE requests' = [requests EXCEPT ![p].at = "aborting", ![p].runtime = active]
  BY <1>1, <1>5 DEF Alone, Request
<1>6. {"check", "remove", "unindex"} \subseteq Places \ {"closing"}
  BY DEF Places
<1> QED BY <1>2, <1>3, <1>4, <1>5, <1>6

\* A request comes to close the runtime from where it waited, or held, or found no work.
LEMMA ClosesSpares ==
  ASSUME AccessInv, [Next]_vars, NEW r \in Requests, Op(r, {"archive", "archiveMany", "reload"}),
         requests'[r].at = "closing", ~At(r, "closing")
  PROVE  (~Working(active) /\ ~runtimes[active].navigating) \/ runtimes[active].late
<1>1. requests \in [Requests -> Request] /\ requests'[r] # requests[r] /\ requests[r].op \in Archivers
  BY DEF AccessInv, TypeOK, At, Op, Archivers
<1>2. CASE UNCHANGED requests
  BY <1>1, <1>2
<1>3. ASSUME NEW p \in Requests, NEW op \in Ops, Begin(p, op) PROVE FALSE
  <2>1. CASE p # r
    BY <1>1, <1>3, <2>1 DEF Begin
  <2>2. CASE p = r
    <3>1. Begins[op] \in {"writable", "lookup", "plan"}
      BY DEF Begins, Ops
    <3> QED BY <1>1, <1>3, <2>2, <3>1, StandingFacts DEF Begin, Request
  <2> QED BY <2>1, <2>2
<1>4. ASSUME NEW p \in Requests, Proceeds(p) PROVE Spared
  <2>1. /\ Alone(p)
        /\ requests'[p].at = "closing" /\ requests[p].op \in Archivers => Spared
    BY <1>4, LookingSpares, ClosingSpares, StoringSpares DEF Proceeds
  <2>2. p = r
    BY <1>1, <2>1 DEF Alone
  <2> QED BY <1>1, <2>1, <2>2
<1>5. CASE \/ CreationEnds \/ CompactionStarts \/ CompactionEnds \/ AgentStarts \/ AgentEnds
           \/ PromptFails \/ DrainedFails \/ Drain
  <2>1. UNCHANGED requests
    BY <1>5 DEF CreationEnds, CompactionStarts, CompactionEnds, AgentStarts, AgentEnds, PromptFails,
                DrainedFails, Drain
  <2> QED BY <1>1, <2>1
<1> QED BY <1>2, <1>3, <1>4, <1>5 DEF Next, vars, Spared

\* Archiving and reloading close no work that had begun before they did.
THEOREM AccessEarlierWorkIsSpared == Spec => EarlierWorkIsSpared
<1>1. AccessInv /\ [Next]_vars =>
        [\A r \in Requests :
           /\ Op(r, {"archive", "archiveMany", "reload"})
           /\ requests'[r].at = "closing" /\ ~At(r, "closing")
           => (~Working(active) /\ ~runtimes[active].navigating) \/ runtimes[active].late]_vars
  BY ClosesSpares
<1> QED BY <1>1, AccessInvariant, PTL DEF EarlierWorkIsSpared, Spec

----------------------------------------------------------------------------
(* Induction *)

Smaller == OpToRel(<, Nat)

LEMMA SmallerIs == \A m, n \in Nat : <<m, n>> \in Smaller <=> m < n
BY DEF Smaller, OpToRel

\* A set of numbers has a least one.
LEMMA LeastExists ==
  ASSUME NEW S \in SUBSET Nat, S # {}
  PROVE  \E n \in S : \A m \in S : n <= m
<1>1. IsWellFoundedOn(Smaller, Nat) BY NatLessThanWellFounded DEF Smaller
<1>2. \E n \in S : \A m \in S : ~(<<m, n>> \in Smaller) BY <1>1, WFMin
<1>3. \A m, n \in S : ~(<<m, n>> \in Smaller) => n <= m BY SmallerIs
<1> QED BY <1>2, <1>3

\* Induction, over a set in place of a predicate
LEMMA Inductive ==
  ASSUME NEW S, 0 \in S, \A n \in Nat : n \in S => n + 1 \in S
  PROVE  Nat \subseteq S
<1> SUFFICES ASSUME Nat \ S # {} PROVE FALSE OBVIOUS
<1>1. PICK n \in Nat \ S : \A m \in Nat \ S : n <= m BY LeastExists
<1>2. n # 0 /\ n - 1 \in Nat /\ n - 1 \notin Nat \ S BY <1>1
<1> QED BY <1>2

\* A bounded set of numbers has a largest one.
LEMMA LargestExists ==
  ASSUME NEW r \in Nat, NEW z \in SUBSET (0 .. r), z # {}
  PROVE  \E b \in z : \A i \in z : i <= b
<1> DEFINE below == {r - y : y \in z}
<1>1. \A y \in z : r - y \in Nat OBVIOUS
<1>2. below \in SUBSET Nat /\ below # {} BY <1>1
<1> HIDE DEF below
<1>3. PICK d \in below : \A e \in below : d <= e BY <1>2, LeastExists
<1> USE DEF below
<1>4. PICK x \in z : d = r - x BY <1>3
<1>5. ASSUME NEW y \in z PROVE y <= x
  <2>1. r - y \in below OBVIOUS
  <2>2. r - x <= r - y BY <2>1, <1>3, <1>4
  <2>3. x \in 0 .. r /\ y \in 0 .. r OBVIOUS
  <2> HIDE DEF below
  <2> QED BY <2>2, <2>3
<1> QED BY <1>5

----------------------------------------------------------------------------
(* Trees of entries *)

KidsOf(T, s) == UNION {Range(T.children[n]) : n \in s}
Reach(T, s) == {n \in Nodes : \A z \in SUBSET Nodes : s \union KidsOf(T, z) \subseteq z => n \in z}
IsShape(T) ==
  /\ T.roots \in Seq(Nodes) /\ IsInjective(T.roots) /\ T.children \in [Nodes -> Seq(Nodes)]
  /\ \A n \in Nodes : IsInjective(T.children[n])
  /\ T.id \in [Nodes -> Nodes]
\* Every entry is below one, or a root.
IsSimple(T) ==
  /\ \A n \in Nodes, l \in Nodes, m \in Nodes : n \in Range(T.children[l]) /\ n \in Range(T.children[m]) => l = m
  /\ \A n \in Range(T.roots), m \in Nodes : n \notin Range(T.children[m])

LEMMA ListIs == ASSUME NEW l \in Lists PROVE l \in Seq(Nodes) /\ IsInjective(l)
<1>1. PICK s \in SUBSET Nodes : l \in SetToSeqs(s) BY DEF Lists
<1>2. PICK c \in Nat : c = Cardinality(s)
  <2>1. IsFiniteSet(Nodes) BY FS_Interval, TreeAssumption DEF Nodes
  <2>2. IsFiniteSet(s) BY <2>1, FS_Subset
  <2> QED BY <2>2, FS_CardinalityType
<1>3. l \in [1 .. c -> s] /\ \A i, j \in 1 .. c : i # j => l[i] # l[j] BY <1>1, <1>2 DEF SetToSeqs
<1>4. l \in Seq(Nodes) BY <1>3
<1>5. IsInjective(l) BY <1>3 DEF IsInjective
<1> QED BY <1>4, <1>5

LEMMA TreesAre == ASSUME NEW T \in Trees PROVE IsShape(T)
<1>1. 1 \in Nodes /\ MaxNodes \in Nodes /\ 1 # MaxNodes BY TreeAssumption DEF Nodes
<1>2. PICK roots \in {<<1>>, <<1, MaxNodes>>} : T.roots = roots BY DEF Trees
<1>3. PICK children \in [Nodes -> Lists] : T.children = children BY DEF Trees
<1>4. PICK twin \in {1, MaxNodes} : T.id = [n \in Nodes |-> IF n = twin THEN 1 ELSE n] BY DEF Trees
<1>5. roots \in Seq(Nodes)
  <2>1. PICK N : N = Nodes OBVIOUS
  <2>2. 1 \in N /\ MaxNodes \in N BY <1>1, <2>1
  <2>3. <<1>> \in Seq(N) /\ <<1, MaxNodes>> \in Seq(N) BY ONLY <2>2
  <2> QED BY <2>1, <2>3
<1>6. IsInjective(roots) BY <1>1 DEF IsInjective
<1>7. T.id \in [Nodes -> Nodes] BY <1>1, <1>4
<1>8. T.children \in [Nodes -> Seq(Nodes)] /\ \A n \in Nodes : IsInjective(T.children[n]) BY <1>3, ListIs
<1> QED BY <1>2, <1>5, <1>6, <1>7, <1>8 DEF IsShape

\* What is reached: what one begins with and what is below it, and no more.
LEMMA ReachHas ==
  ASSUME NEW T, IsShape(T), NEW s \in SUBSET Nodes
  PROVE  /\ s \subseteq Reach(T, s) /\ Reach(T, s) \in SUBSET Nodes
         /\ \A n \in Reach(T, s) : \A c \in Range(T.children[n]) : c \in Reach(T, s)
<1>1. s \subseteq Reach(T, s) /\ Reach(T, s) \in SUBSET Nodes BY DEF Reach
<1>2. ASSUME NEW n \in Reach(T, s), NEW c \in Range(T.children[n]) PROVE c \in Reach(T, s)
  <2>1. n \in Nodes BY DEF Reach
  <2>2. c \in Nodes BY <2>1 DEF IsShape, Range
  <2>3. ASSUME NEW z \in SUBSET Nodes, s \union KidsOf(T, z) \subseteq z PROVE c \in z
    <3>1. n \in z BY <2>3 DEF Reach
    <3>2. c \in KidsOf(T, z) BY <3>1 DEF KidsOf
    <3> QED BY <2>3, <3>2
  <2> QED BY <2>2, <2>3 DEF Reach
<1> QED BY <1>1, <1>2

LEMMA ReachIsLeast ==
  ASSUME NEW T, NEW s, NEW z \in SUBSET Nodes, s \subseteq z, \A n \in z : \A c \in Range(T.children[n]) : c \in z
  PROVE  Reach(T, s) \subseteq z
<1>1. KidsOf(T, z) \subseteq z BY DEF KidsOf
<1>2. s \union KidsOf(T, z) \subseteq z BY <1>1
<1> QED BY <1>2 DEF Reach

\* What is reached is there from the beginning or below something that is reached.
LEMMA ReachedFrom ==
  ASSUME NEW T, IsShape(T), NEW s \in SUBSET Nodes, NEW n \in Reach(T, s)
  PROVE  n \in s \/ \E m \in Reach(T, s) : n \in Range(T.children[m])
<1>1. PICK r \in SUBSET Nodes : r = Reach(T, s) BY DEF Reach
<1>2. PICK z : z = {x \in r : x \in s \/ \E m \in r : x \in Range(T.children[m])} OBVIOUS
<1>3. z \in SUBSET Nodes BY <1>1, <1>2
<1>4. s \subseteq r /\ \A x \in r : \A c \in Range(T.children[x]) : c \in r BY <1>1, ReachHas
<1>5. s \subseteq z BY <1>2, <1>4
<1>6. ASSUME NEW x \in z, NEW c \in Range(T.children[x]) PROVE c \in z
  <2>1. x \in r BY <1>2
  <2>2. c \in r BY <2>1, <1>4
  <2> QED BY <2>1, <2>2, <1>2
<1>7. Reach(T, s) \subseteq z BY <1>3, <1>5, <1>6, ReachIsLeast
<1> QED BY <1>1, <1>2, <1>7

\* The walk: what it visited and listed, and what waits to be visited
Walks(T, K, V, R) ==
  /\ K \in Seq(Nodes) /\ V \in SUBSET Nodes /\ R \in Seq(Nodes) /\ Range(R) = V /\ IsInjective(R)
  /\ \A n \in Range(T.roots) : n \in V \union Range(K)
  /\ \A m \in V : \A n \in Range(T.children[m]) : n \in V \union Range(K)
  /\ V \union Range(K) \subseteq Reach(T, Range(T.roots))
  /\ \A n \in V \union Range(K) : n \in Range(T.roots) \/ \E m \in V : n \in Range(T.children[m])
  /\ \A m, n \in V : T.id[m] = T.id[n] => m = n

LEMMA ReversedIs ==
  ASSUME NEW l \in Seq(Nodes)
  PROVE  /\ Reverse(l) \in Seq(Nodes) /\ Len(Reverse(l)) = Len(l) /\ Len(l) \in Nat
         /\ \A i \in 1 .. Len(l) : Reverse(l)[i] = l[(Len(l) - i) + 1] /\ (Len(l) - i) + 1 \in 1 .. Len(l)
         /\ Range(Reverse(l)) = Range(l)
<1>1. PICK n \in Nat : n = Len(l) OBVIOUS
<1>2. \A i \in 1 .. n : (n - i) + 1 \in 1 .. n BY <1>1
<1>3. PICK r : r = Reverse(l) OBVIOUS
<1>4. r = [i \in 1 .. n |-> l[(n - i) + 1]] BY <1>1, <1>3 DEF Reverse
<1>5. \A i \in 1 .. n : r[i] = l[(n - i) + 1] /\ l[(n - i) + 1] \in Nodes BY <1>1, <1>2, <1>4
<1>6. r \in Seq(Nodes) /\ Len(r) = n BY <1>4, <1>5
<1>7. Range(r) = Range(l)
  <2>1. ASSUME NEW x \in Range(r) PROVE x \in Range(l)
    <3>1. PICK i \in 1 .. n : x = r[i] BY <1>6 DEF Range
    <3>2. (n - i) + 1 \in DOMAIN l BY <1>1, <1>2
    <3> QED BY <3>1, <3>2, <1>5 DEF Range
  <2>2. ASSUME NEW x \in Range(l) PROVE x \in Range(r)
    <3>1. PICK i \in 1 .. n : x = l[i] BY <1>1 DEF Range
    <3>2. PICK k \in 1 .. n : k = (n - i) + 1 BY <1>2
    <3>3. (n - k) + 1 = i BY <3>2
    <3>4. k \in DOMAIN r /\ r[k] = x BY <3>1, <3>3, <1>5, <1>6
    <3> QED BY <3>4 DEF Range
  <2> QED BY <2>1, <2>2
<1> QED BY <1>1, <1>2, <1>3, <1>5, <1>6, <1>7

\* What waits after a visit
Pushes(K, c, N, k, l) ==
  /\ Len(K) = k + 1 /\ Len(c) = l /\ N \in Seq(Nodes) /\ Len(N) = k + l /\ Last(K) = K[k + 1]
  /\ \A i \in 1 .. k : N[i] = K[i]
  /\ \A i \in 1 .. l : N[k + i] = c[(l - i) + 1] /\ (l - i) + 1 \in 1 .. l

LEMMA PushedIs ==
  ASSUME NEW K \in Seq(Nodes), NEW c \in Seq(Nodes), Len(K) # 0, NEW N, N = Front(K) \o Reverse(c)
  PROVE  \E k \in Nat : \E l \in Nat : Pushes(K, c, N, k, l)
<1>1. PICK k \in Nat : Len(K) = k + 1 /\ Len(K) - 1 = k
  <2>1. Len(K) \in Nat OBVIOUS
  <2>2. Len(K) - 1 \in Nat /\ Len(K) = (Len(K) - 1) + 1 BY <2>1
  <2> QED BY <2>2
<1>2. PICK f : f = Front(K) OBVIOUS
<1>3. f = SubSeq(K, 1, k) BY <1>1, <1>2 DEF Front
<1>4. f \in Seq(Nodes) /\ Len(f) = k /\ \A i \in 1 .. k : f[i] = K[i] BY <1>1, <1>3
<1>5. PICK r : r = Reverse(c) OBVIOUS
<1>6. PICK l \in Nat : l = Len(c) OBVIOUS
<1>7. r \in Seq(Nodes) /\ Len(r) = l /\ \A i \in 1 .. l : r[i] = c[(l - i) + 1] /\ (l - i) + 1 \in 1 .. l BY <1>5, <1>6, ReversedIs
<1>8. N = f \o r BY <1>2, <1>5
<1>9. N \in Seq(Nodes) /\ Len(N) = Len(f) + Len(r)
  <2>1. f \in Seq(Nodes) /\ r \in Seq(Nodes) BY <1>4, <1>7
  <2> QED BY ONLY <2>1, <1>8
<1>10. \A i \in 1 .. k : N[i] = f[i] BY <1>4, <1>7, <1>8
<1>11. ASSUME NEW i \in 1 .. l PROVE N[k + i] = r[i]
  <2>1. k + i \in 1 .. k + l /\ ~(k + i <= k) /\ (k + i) - k = i OBVIOUS
  <2> QED BY ONLY <2>1, <1>4, <1>7, <1>8
<1>12. Last(K) = K[k + 1] BY <1>1 DEF Last
<1>13. Pushes(K, c, N, k, l) BY ONLY <1>1, <1>4, <1>6, <1>7, <1>9, <1>10, <1>11, <1>12 DEF Pushes
<1> QED BY <1>13

LEMMA PushedRange ==
  ASSUME NEW K \in Seq(Nodes), NEW c \in Seq(Nodes), Len(K) # 0, NEW N, N = Front(K) \o Reverse(c)
  PROVE  /\ N \in Seq(Nodes) /\ \A n \in Range(N) : n \in Range(K) \/ n \in Range(c)
         /\ \A n \in Range(c) : n \in Range(N)
         /\ \A n \in Range(K) : n = Last(K) \/ n \in Range(N)
<1>0. PICK k \in Nat : \E l \in Nat : Pushes(K, c, N, k, l) BY PushedIs
<1>2. PICK l \in Nat : Pushes(K, c, N, k, l) BY <1>0
<1>1. /\ Len(K) = k + 1 /\ Len(c) = l /\ N \in Seq(Nodes) /\ Len(N) = k + l /\ Last(K) = K[k + 1]
      /\ \A i \in 1 .. k : N[i] = K[i]
      /\ \A i \in 1 .. l : N[k + i] = c[(l - i) + 1] /\ (l - i) + 1 \in 1 .. l
  BY <1>2 DEF Pushes
<1>3. DOMAIN N = 1 .. k + l /\ DOMAIN K = 1 .. k + 1 /\ DOMAIN c = 1 .. l BY <1>1, <1>2
<1>4. ASSUME NEW n \in Range(N) PROVE n \in Range(K) \/ n \in Range(c)
  <2>1. PICK i \in 1 .. k + l : n = N[i] BY <1>3 DEF Range
  <2>2. CASE i <= k
    <3>1. i \in 1 .. k /\ i \in 1 .. k + 1 BY <2>2
    <3>2. n = K[i] BY <3>1, <2>1, <1>1
    <3> QED BY <3>1, <3>2, <1>3 DEF Range
  <2>3. CASE ~(i <= k)
    <3>1. PICK j \in 1 .. l : i = k + j
      <4>1. i - k \in 1 .. l /\ i = k + (i - k) BY <2>3
      <4> QED BY <4>1
    <3>2. n = c[(l - j) + 1] /\ (l - j) + 1 \in 1 .. l BY <3>1, <2>1, <1>1, <1>2
    <3> QED BY <3>2, <1>3 DEF Range
  <2> QED BY <2>2, <2>3
<1>5. ASSUME NEW n \in Range(c) PROVE n \in Range(N)
  <2>1. PICK i \in 1 .. l : n = c[i] BY <1>3 DEF Range
  <2>2. PICK j \in 1 .. l : j = (l - i) + 1
    <3>1. (l - i) + 1 \in 1 .. l OBVIOUS
    <3> QED BY <3>1
  <2>3. (l - j) + 1 = i BY <2>2
  <2>4. N[k + j] = n BY <2>1, <2>3, <1>1, <1>2
  <2>5. k + j \in 1 .. k + l OBVIOUS
  <2> QED BY <2>4, <2>5, <1>3 DEF Range
<1>6. ASSUME NEW n \in Range(K) PROVE n = Last(K) \/ n \in Range(N)
  <2>1. PICK i \in 1 .. k + 1 : n = K[i] BY <1>3 DEF Range
  <2>2. CASE i = k + 1 BY <2>1, <2>2, <1>1
  <2>3. CASE i # k + 1
    <3>1. i \in 1 .. k /\ i \in 1 .. k + l BY <2>3
    <3>2. N[i] = n BY <3>1, <2>1, <1>1
    <3> QED BY <3>1, <3>2, <1>3 DEF Range
  <2> QED BY <2>2, <2>3
<1> QED BY <1>1, <1>4, <1>5, <1>6

LEMMA FrontRange ==
  ASSUME NEW K \in Seq(Nodes), Len(K) # 0
  PROVE  /\ Front(K) \in Seq(Nodes) /\ \A n \in Range(Front(K)) : n \in Range(K)
         /\ \A n \in Range(K) : n = Last(K) \/ n \in Range(Front(K))
         /\ Last(K) \in Range(K) /\ Last(K) \in Nodes
<1>1. PICK k \in Nat : Len(K) = k + 1 /\ Len(K) - 1 = k
  <2>1. Len(K) \in Nat OBVIOUS
  <2>2. Len(K) - 1 \in Nat /\ Len(K) = (Len(K) - 1) + 1 BY <2>1
  <2> QED BY <2>2
<1>2. PICK f : f = Front(K) OBVIOUS
<1>3. f = SubSeq(K, 1, k) BY <1>1, <1>2 DEF Front
<1>4. f \in Seq(Nodes) /\ Len(f) = k /\ \A i \in 1 .. k : f[i] = K[i] BY <1>1, <1>3
<1>5. DOMAIN f = 1 .. k /\ DOMAIN K = 1 .. k + 1 BY <1>1, <1>4
<1>6. Last(K) = K[k + 1] /\ k + 1 \in 1 .. k + 1 BY <1>1 DEF Last
<1>7. Last(K) \in Range(K) /\ Last(K) \in Nodes BY <1>5, <1>6 DEF Range
<1>8. \A n \in Range(f) : n \in Range(K) BY <1>4, <1>5 DEF Range
<1>9. ASSUME NEW n \in Range(K) PROVE n = Last(K) \/ n \in Range(f)
  <2>1. PICK i \in 1 .. k + 1 : n = K[i] BY <1>5 DEF Range
  <2>2. i = k + 1 \/ i \in 1 .. k OBVIOUS
  <2> QED BY <2>1, <2>2, <1>4, <1>5, <1>6 DEF Range
<1> QED BY <1>2, <1>4, <1>7, <1>8, <1>9

LEMMA RowsMore ==
  ASSUME NEW R \in Seq(Nodes), NEW n \in Nodes
  PROVE  /\ Append(R, n) \in Seq(Nodes) /\ Len(Append(R, n)) = Len(R) + 1 /\ Len(R) \in Nat
         /\ Append(R, n)[Len(R) + 1] = n /\ \A i \in 1 .. Len(R) : Append(R, n)[i] = R[i]
         /\ Range(Append(R, n)) = Range(R) \union {n}
         /\ IsInjective(R) /\ n \notin Range(R) => IsInjective(Append(R, n))
<1>1. PICK k \in Nat : k = Len(R) OBVIOUS
<1>2. PICK S : S = Append(R, n) OBVIOUS
<1>3. S \in Seq(Nodes) /\ Len(S) = k + 1 /\ S[k + 1] = n /\ \A i \in 1 .. k : S[i] = R[i] BY <1>1, <1>2
<1>4. DOMAIN S = 1 .. k + 1 /\ DOMAIN R = 1 .. k /\ \A i \in 1 .. k + 1 : i = k + 1 \/ i \in 1 .. k BY <1>1, <1>3
<1>5. Range(S) = Range(R) \union {n}
  <2>1. \A x \in Range(S) : x \in Range(R) \union {n} BY <1>3, <1>4 DEF Range
  <2>2. \A x \in Range(R) : x \in Range(S)
    <3>1. \A i \in 1 .. k : i \in 1 .. k + 1 OBVIOUS
    <3> QED BY <3>1, <1>3, <1>4 DEF Range
  <2>3. n \in Range(S)
    <3>1. k + 1 \in 1 .. k + 1 OBVIOUS
    <3> QED BY <3>1, <1>3, <1>4 DEF Range
  <2> QED BY <2>1, <2>2, <2>3
<1>6. ASSUME IsInjective(R), n \notin Range(R) PROVE IsInjective(S)
  <2>1. \A i \in 1 .. k : R[i] # n BY <1>4, <1>6 DEF Range
  <2>2. \A i, j \in 1 .. k : R[i] = R[j] => i = j BY <1>4, <1>6 DEF IsInjective
  <2> QED BY <2>1, <2>2, <1>3, <1>4 DEF IsInjective
<1> QED BY <1>1, <1>2, <1>3, <1>5, <1>6

LEMMA WalkBegins ==
  ASSUME NEW T, IsShape(T)
  PROVE  Walks(T, Reverse(T.roots), {}, <<>>)
<1>1. PICK roots \in Seq(Nodes) : roots = T.roots BY DEF IsShape
<1>2. PICK K \in Seq(Nodes) : K = Reverse(roots) /\ Range(K) = Range(roots) BY ReversedIs
<1>3. Range(roots) \subseteq Nodes BY DEF Range
<1>4. Range(roots) \subseteq Reach(T, Range(roots)) BY <1>3, ReachHas
<1>5. <<>> \in Seq(Nodes) /\ Range(<<>>) = {} /\ IsInjective(<<>>) BY DEF Range, IsInjective
<1> QED BY <1>1, <1>2, <1>4, <1>5 DEF Walks

LEMMA WalkSkips ==
  ASSUME NEW T, IsShape(T), NEW K, NEW V, NEW R, Walks(T, K, V, R), Len(K) # 0, Last(K) \in V
  PROVE  Walks(T, Front(K), V, R)
<1>1. K \in Seq(Nodes) BY DEF Walks
<1>2. PICK N : N = Front(K) OBVIOUS
<1>3. /\ N \in Seq(Nodes) /\ \A n \in Range(N) : n \in Range(K)
      /\ \A n \in Range(K) : n = Last(K) \/ n \in Range(N) BY <1>1, <1>2, FrontRange
<1>4. \A n \in V \union Range(K) : n \in V \union Range(N) BY <1>3
<1>5. \A n \in V \union Range(N) : n \in V \union Range(K) BY <1>3
<1>6. \A n \in Range(T.roots) : n \in V \union Range(N) BY <1>4 DEF Walks
<1>7. \A m \in V : \A n \in Range(T.children[m]) : n \in V \union Range(N) BY <1>4 DEF Walks
<1>8. V \union Range(N) \subseteq Reach(T, Range(T.roots)) BY <1>5 DEF Walks
<1>9. \A n \in V \union Range(N) : n \in Range(T.roots) \/ \E m \in V : n \in Range(T.children[m]) BY <1>5 DEF Walks
<1>10. Walks(T, N, V, R) BY <1>3, <1>6, <1>7, <1>8, <1>9 DEF Walks
<1> QED BY <1>2, <1>10

LEMMA WalkVisits ==
  ASSUME NEW T, IsShape(T), NEW K, NEW V, NEW R, Walks(T, K, V, R), Len(K) # 0, NEW t, t = Last(K), t \notin V,
         \A n \in V : T.id[n] # T.id[t]
  PROVE  Walks(T, Front(K) \o Reverse(T.children[t]), V \union {t}, Append(R, t))
<1>1. K \in Seq(Nodes) /\ R \in Seq(Nodes) /\ V \in SUBSET Nodes BY DEF Walks
<1>2. t \in Nodes /\ t \in Range(K) BY <1>1, FrontRange
<1>3. PICK c \in Seq(Nodes) : c = T.children[t] BY <1>2 DEF IsShape
<1>4. PICK N : N = Front(K) \o Reverse(c) OBVIOUS
<1>5. /\ N \in Seq(Nodes) /\ \A n \in Range(N) : n \in Range(K) \/ n \in Range(c)
      /\ \A n \in Range(c) : n \in Range(N)
      /\ \A n \in Range(K) : n = t \/ n \in Range(N) BY <1>1, <1>4, PushedRange
<1>6. PICK S : S = Append(R, t) OBVIOUS
<1>7. PICK W : W = V \union {t} OBVIOUS
<1>8. t \notin Range(R) /\ IsInjective(R) /\ Range(R) = V BY DEF Walks
<1>9. S \in Seq(Nodes) /\ Range(S) = W /\ IsInjective(S) BY <1>1, <1>2, <1>6, <1>7, <1>8, RowsMore
<1>10. \A n \in V \union Range(K) : n \in W \union Range(N) BY <1>5, <1>7
<1>11. \A n \in Range(T.roots) : n \in W \union Range(N) BY <1>10 DEF Walks
<1>12. ASSUME NEW m \in W, NEW n \in Range(T.children[m]) PROVE n \in W \union Range(N)
  <2>1. CASE m = t BY <2>1, <1>3, <1>5
  <2>2. CASE m # t
    <3>1. m \in V BY <2>2, <1>7
    <3> QED BY <3>1, <1>10 DEF Walks
  <2> QED BY <2>1, <2>2
<1>13. PICK tops \in SUBSET Nodes : tops = Range(T.roots)
  <2>1. PICK roots \in Seq(Nodes) : roots = T.roots BY DEF IsShape
  <2>2. Range(roots) \in SUBSET Nodes BY DEF Range
  <2> QED BY <2>1, <2>2
<1>14. PICK all \in SUBSET Nodes : /\ all = Reach(T, tops)
                                   /\ \A n \in all : \A x \in Range(T.children[n]) : x \in all BY ReachHas
<1>15. V \union Range(K) \subseteq all BY <1>13, <1>14 DEF Walks
<1>16. W \union Range(N) \subseteq all
  <2>1. t \in all BY <1>2, <1>15
  <2>2. \A n \in Range(c) : n \in all BY <2>1, <1>3, <1>14
  <2> QED BY <2>1, <2>2, <1>5, <1>7, <1>15
<1>17. ASSUME NEW n \in W \union Range(N) PROVE n \in Range(T.roots) \/ \E m \in W : n \in Range(T.children[m])
  <2>1. CASE n \in Range(c)
    <3>1. t \in W BY <1>7
    <3> QED BY <2>1, <3>1, <1>3
  <2>2. CASE n \notin Range(c)
    <3>1. n \in V \union Range(K) BY <2>2, <1>2, <1>5, <1>7
    <3>2. n \in Range(T.roots) \/ \E m \in V : n \in Range(T.children[m]) BY <3>1 DEF Walks
    <3> QED BY <3>2, <1>7
  <2> QED BY <2>1, <2>2
<1>18. \A m, n \in W : T.id[m] = T.id[n] => m = n BY <1>7 DEF Walks
<1>19. W \in SUBSET Nodes BY <1>1, <1>2, <1>7
<1>20. Walks(T, N, W, S) BY ONLY <1>5, <1>9, <1>11, <1>12, <1>13, <1>14, <1>16, <1>17, <1>18, <1>19 DEF Walks
<1> QED BY <1>3, <1>4, <1>6, <1>7, <1>20

\* At the end, everything there is was visited.
LEMMA WalkEnds ==
  ASSUME NEW T, IsShape(T), NEW K, NEW V, NEW R, Walks(T, K, V, R), K = <<>>
  PROVE  V = Reach(T, Range(T.roots))
<1>1. Range(K) = {} BY DEF Range
<1>2. V \in SUBSET Nodes /\ Range(T.roots) \subseteq V BY <1>1 DEF Walks
<1>3. \A m \in V : \A n \in Range(T.children[m]) : n \in V BY <1>1 DEF Walks
<1>4. Reach(T, Range(T.roots)) \subseteq V BY <1>2, <1>3, ReachIsLeast
<1>5. V \subseteq Reach(T, Range(T.roots)) BY DEF Walks
<1> QED BY <1>4, <1>5

\* Of a tree: what is under the entry listed in row a is listed in one piece that begins there, and
\* what of it waits is visited before anything else.
SpansFrom(U, K, R, a) ==
  /\ \A i \in DOMAIN R : R[i] \in U => i >= a /\ \A j \in a .. i : R[j] \in U
  /\ (\E x \in DOMAIN K : K[x] \in U) => \A j \in DOMAIN R : j >= a => R[j] \in U
  /\ \A x, y \in DOMAIN K : K[x] \in U /\ x < y => K[y] \in U
\* Siblings are visited in their order.
Ordered(c, K, V, R) ==
  \A i, j \in DOMAIN c : i < j =>
    /\ c[j] \in V => c[i] \in V /\ \A a, b \in DOMAIN R : R[a] = c[i] /\ R[b] = c[j] => a < b
    /\ \A x, y \in DOMAIN K : K[x] = c[i] /\ K[y] = c[j] => y < x
Descends(T, K, V, R) ==
  /\ IsInjective(K) /\ \A n \in V : n \notin Range(K)
  /\ \A a \in DOMAIN R : SpansFrom(Reach(T, {R[a]}), K, R, a)
  /\ Ordered(T.roots, K, V, R) /\ \A m \in V : Ordered(T.children[m], K, V, R)

\* What a visit finds: nothing of what is under the entry was met before.
LEMMA UnderIsNew ==
  ASSUME NEW T, IsShape(T), IsSimple(T), NEW K, NEW V, NEW R, Walks(T, K, V, R), NEW t \in Nodes, t \in Range(K), t \notin V
  PROVE  /\ \A n \in Reach(T, {t}) : n = t \/ n \notin V \union Range(K)
         /\ \A n \in Range(T.children[t]) : n \notin V \union Range(K)
<1>1. ASSUME NEW x \in Nodes, x \notin V, NEW n \in Range(T.children[x]) PROVE n \notin V \union Range(K)
  <2> SUFFICES ASSUME n \in V \union Range(K) PROVE FALSE OBVIOUS
  <2>1. n \in Nodes BY <1>1 DEF IsShape, Range
  <2>2. n \notin Range(T.roots) BY <1>1 DEF IsSimple
  <2>3. PICK m \in V : n \in Range(T.children[m]) BY <2>2 DEF Walks
  <2>4. m \in Nodes BY DEF Walks
  <2>5. m = x BY <2>1, <2>3, <2>4, <1>1 DEF IsSimple
  <2> QED BY <2>5, <1>1
<1>2. PICK z : z = {n \in Nodes : n = t \/ n \notin V \union Range(K)} OBVIOUS
<1>3. ASSUME NEW x \in z, NEW n \in Range(T.children[x]) PROVE n \in z
  <2>1. x \in Nodes /\ x \notin V BY <1>2
  <2>2. n \notin V \union Range(K) BY <2>1, <1>1
  <2>3. n \in Nodes BY <2>1 DEF IsShape, Range
  <2> QED BY <2>2, <2>3, <1>2
<1>4. z \in SUBSET Nodes /\ {t} \subseteq z BY <1>2
<1>5. Reach(T, {t}) \subseteq z BY <1>3, <1>4, ReachIsLeast
<1> QED BY <1>1, <1>2, <1>5

LEMMA DescendBegins ==
  ASSUME NEW T, IsShape(T)
  PROVE  Descends(T, Reverse(T.roots), {}, <<>>)
<1>1. PICK roots \in Seq(Nodes) : roots = T.roots /\ IsInjective(roots) BY DEF IsShape
<1>2. PICK l \in Nat : l = Len(roots) OBVIOUS
<1>3. PICK K \in Seq(Nodes) : K = Reverse(roots) /\ Len(K) = l /\ \A i \in 1 .. l : K[i] = roots[(l - i) + 1] /\ (l - i) + 1 \in 1 .. l
  BY <1>2, ReversedIs
<1>4. DOMAIN K = 1 .. l /\ DOMAIN roots = 1 .. l BY <1>2, <1>3
<1>5. ASSUME NEW x \in 1 .. l, NEW y \in 1 .. l, NEW i \in 1 .. l, NEW j \in 1 .. l, K[x] = roots[i], K[y] = roots[j]
      PROVE  (i = j => x = y) /\ (i < j => y < x)
  <2>3. \A u, v \in 1 .. l : roots[u] = roots[v] => u = v BY <1>1, <1>4 DEF IsInjective
  <2>4. PICK u \in 1 .. l : u = (l - x) + 1 /\ K[x] = roots[u] BY <1>3
  <2>5. PICK v \in 1 .. l : v = (l - y) + 1 /\ K[y] = roots[v] BY <1>3
  <2>1. (l - x) + 1 = i BY <2>3, <2>4, <1>5
  <2>2. (l - y) + 1 = j BY <2>3, <2>5, <1>5
  <2> QED BY <2>1, <2>2
<1>8. \A x, y, i, j \in 1 .. l : K[x] = roots[i] /\ K[y] = roots[j] => (i = j => x = y) /\ (i < j => y < x) BY <1>5
<1>6. IsInjective(K)
  <2>1. ASSUME NEW x \in 1 .. l, NEW y \in 1 .. l, K[x] = K[y] PROVE x = y
    <3>1. PICK i \in 1 .. l : i = (l - x) + 1 /\ K[x] = roots[i] BY <1>3
    <3>2. K[y] = roots[i] BY <3>1, <2>1
    <3>3. \A v, w, j \in 1 .. l : K[v] = roots[j] /\ K[w] = roots[j] => v = w BY ONLY <1>8
    <3> QED BY <3>1, <3>2, <3>3
  <2> QED BY <2>1, <1>4 DEF IsInjective
<1>7. Ordered(roots, K, {}, <<>>)
  <2>1. \A i, j \in 1 .. l : i < j => \A x, y \in 1 .. l : K[x] = roots[i] /\ K[y] = roots[j] => y < x BY <1>8
  <2> QED BY <2>1, <1>4 DEF Ordered
<1> QED BY <1>1, <1>3, <1>6, <1>7 DEF Descends

\* A step of the walk in a tree, with its lists named
Visits(T, K, V, R, t, c, k, l, N, W, S, r) ==
  /\ K \in Seq(Nodes) /\ V \in SUBSET Nodes /\ R \in Seq(Nodes) /\ t \in Nodes /\ t \notin V
  /\ c \in Seq(Nodes) /\ c = T.children[t] /\ IsInjective(c) /\ Pushes(K, c, N, k, l) /\ t = K[k + 1] /\ W = V \union {t}
  /\ Len(R) = r /\ S \in Seq(Nodes) /\ Len(S) = r + 1 /\ S[r + 1] = t /\ (\A i \in 1 .. r : S[i] = R[i])
  /\ Range(R) = V
  /\ (\A n \in Reach(T, {t}) : n = t \/ n \notin V \union Range(K))
  /\ \A n \in Range(c) : n \notin V \union Range(K)

LEMMA VisitsAre ==
  ASSUME NEW T, IsShape(T), IsSimple(T), NEW K, NEW V, NEW R, Walks(T, K, V, R), Len(K) # 0, NEW t, t = Last(K), t \notin V,
         NEW N, N = Front(K) \o Reverse(T.children[t]), NEW W, W = V \union {t}, NEW S, S = Append(R, t)
  PROVE  \E c : \E k \in Nat : \E l \in Nat : \E r \in Nat : Visits(T, K, V, R, t, c, k, l, N, W, S, r)
<1>1. K \in Seq(Nodes) /\ R \in Seq(Nodes) /\ V \in SUBSET Nodes /\ Range(R) = V BY DEF Walks
<1>2. t \in Nodes /\ t \in Range(K) BY <1>1, FrontRange
<1>3. PICK c \in Seq(Nodes) : c = T.children[t] /\ IsInjective(c) BY <1>2 DEF IsShape
<1>4. N = Front(K) \o Reverse(c) BY <1>3
<1>5. PICK k \in Nat : \E l \in Nat : Pushes(K, c, N, k, l) BY <1>1, <1>4, PushedIs
<1>6. PICK l \in Nat : Pushes(K, c, N, k, l) BY <1>5
<1>7. PICK r \in Nat : r = Len(R) BY <1>1
<1>8. S \in Seq(Nodes) /\ Len(S) = r + 1 /\ S[r + 1] = t /\ \A i \in 1 .. r : S[i] = R[i] BY <1>1, <1>2, <1>7, RowsMore
<1>9. /\ \A n \in Reach(T, {t}) : n = t \/ n \notin V \union Range(K)
      /\ \A n \in Range(c) : n \notin V \union Range(K) BY <1>2, <1>3, UnderIsNew
<1>10. t = K[k + 1] BY <1>6 DEF Pushes
<1>11. Visits(T, K, V, R, t, c, k, l, N, W, S, r) BY ONLY <1>1, <1>2, <1>3, <1>6, <1>7, <1>8, <1>9, <1>10, t \notin V, W = V \union {t} DEF Visits
<1> QED BY <1>11

\* Where what waits comes from
Waiting(K, V, R, c, k, l, N, S, r) ==
  /\ DOMAIN K = 1 .. k + 1 /\ DOMAIN N = 1 .. k + l /\ DOMAIN c = 1 .. l /\ DOMAIN R = 1 .. r /\ DOMAIN S = 1 .. r + 1
  /\ \A x \in 1 .. k + l : IF x <= k THEN x \in 1 .. k + 1 /\ N[x] = K[x] /\ N[x] \in Range(K) /\ x # k + 1
                          ELSE /\ (l - (x - k)) + 1 \in 1 .. l /\ N[x] = c[(l - (x - k)) + 1] /\ N[x] \in Range(c)
                               /\ N[x] \notin V \union Range(K)

LEMMA WaitsFrom ==
  ASSUME NEW T, NEW K, NEW V, NEW R, NEW t, NEW c, NEW k \in Nat, NEW l \in Nat, NEW N, NEW W, NEW S, NEW r \in Nat,
         Visits(T, K, V, R, t, c, k, l, N, W, S, r)
  PROVE  Waiting(K, V, R, c, k, l, N, S, r)
<1>1. DOMAIN K = 1 .. k + 1 /\ DOMAIN N = 1 .. k + l /\ DOMAIN c = 1 .. l /\ DOMAIN R = 1 .. r /\ DOMAIN S = 1 .. r + 1
  BY DEF Visits, Pushes
<1>2. ASSUME NEW x \in 1 .. k + l, x <= k PROVE x \in 1 .. k + 1 /\ N[x] = K[x] /\ N[x] \in Range(K) /\ x # k + 1
  <2>1. x \in 1 .. k /\ x \in 1 .. k + 1 BY <1>2
  <2>2. N[x] = K[x] BY <2>1 DEF Visits, Pushes
  <2> QED BY <1>1, <2>1, <2>2 DEF Range
<1>3. ASSUME NEW x \in 1 .. k + l, ~(x <= k)
      PROVE  /\ (l - (x - k)) + 1 \in 1 .. l /\ N[x] = c[(l - (x - k)) + 1] /\ N[x] \in Range(c)
             /\ N[x] \notin V \union Range(K)
  <2>1. PICK i \in 1 .. l : i = x - k /\ k + i = x
    <3>1. x - k \in 1 .. l /\ k + (x - k) = x BY <1>3
    <3> QED BY <3>1
  <2>2. N[k + i] = c[(l - i) + 1] /\ (l - i) + 1 \in 1 .. l BY DEF Visits, Pushes
  <2>3. N[x] = c[(l - i) + 1] /\ N[x] \in Range(c) BY <2>1, <2>2, <1>1 DEF Range
  <2>4. N[x] \notin V \union Range(K) BY <2>3 DEF Visits
  <2> QED BY <2>1, <2>2, <2>3, <2>4
<1> QED BY ONLY <1>1, <1>2, <1>3 DEF Waiting

\* What is known of a visit, without the operators it is made of
Visit1(K, V, R, t, c, k, l, N, W, S, r) ==
  /\ k \in Nat /\ l \in Nat /\ r \in Nat
  /\ DOMAIN K = 1 .. k + 1 /\ DOMAIN N = 1 .. k + l /\ DOMAIN c = 1 .. l /\ DOMAIN R = 1 .. r /\ DOMAIN S = 1 .. r + 1
  /\ t = K[k + 1] /\ t \notin V /\ t \in Range(K) /\ W = V \union {t}
  /\ \A x \in 1 .. k : x \in 1 .. k + l /\ x \in 1 .. k + 1 /\ x # k + 1 /\ N[x] = K[x] /\ N[x] \in Range(K)
  /\ \A x \in 1 .. k + l : x \in 1 .. k \/ (x > k /\ (l - (x - k)) + 1 \in 1 .. l /\ N[x] = c[(l - (x - k)) + 1]
                                            /\ N[x] \in Range(c) /\ N[x] \notin V \union Range(K))
  /\ \A n \in Range(c) : n \notin V \union Range(K)
  /\ \A i \in 1 .. r : i \in 1 .. r + 1 /\ S[i] = R[i] /\ S[i] \in V
  /\ \A i \in 1 .. r + 1 : i \in 1 .. r \/ i = r + 1
  /\ S[r + 1] = t /\ r + 1 \in 1 .. r + 1 /\ k + 1 \in 1 .. k + 1

LEMMA Visit1Is ==
  ASSUME NEW T, NEW K, NEW V, NEW R, NEW t, NEW c, NEW k \in Nat, NEW l \in Nat, NEW N, NEW W, NEW S, NEW r \in Nat,
         Visits(T, K, V, R, t, c, k, l, N, W, S, r)
  PROVE  Visit1(K, V, R, t, c, k, l, N, W, S, r)
<1>0. Waiting(K, V, R, c, k, l, N, S, r) BY WaitsFrom
<1>1. /\ DOMAIN K = 1 .. k + 1 /\ DOMAIN N = 1 .. k + l /\ DOMAIN c = 1 .. l /\ DOMAIN R = 1 .. r /\ DOMAIN S = 1 .. r + 1
      /\ \A x \in 1 .. k + l : IF x <= k THEN x \in 1 .. k + 1 /\ N[x] = K[x] /\ N[x] \in Range(K) /\ x # k + 1
                              ELSE /\ (l - (x - k)) + 1 \in 1 .. l /\ N[x] = c[(l - (x - k)) + 1] /\ N[x] \in Range(c)
                                   /\ N[x] \notin V \union Range(K)
  BY ONLY <1>0 DEF Waiting
<1>2. /\ t \notin V /\ t = K[k + 1] /\ W = V \union {t} /\ S[r + 1] = t /\ (\A i \in 1 .. r : S[i] = R[i]) /\ Range(R) = V
      /\ \A n \in Range(c) : n \notin V \union Range(K)
  BY DEF Visits
<1>3. k + 1 \in 1 .. k + 1 /\ r + 1 \in 1 .. r + 1 OBVIOUS
<1>4. t \in Range(K) BY <1>1, <1>2, <1>3 DEF Range
<1>5. ASSUME NEW x \in 1 .. k PROVE x \in 1 .. k + l /\ x \in 1 .. k + 1 /\ x # k + 1 /\ N[x] = K[x] /\ N[x] \in Range(K)
  <2>1. x \in 1 .. k + l /\ x <= k OBVIOUS
  <2> QED BY <2>1, <1>1
<1>6. ASSUME NEW x \in 1 .. k + l, x \notin 1 .. k
      PROVE  x > k /\ (l - (x - k)) + 1 \in 1 .. l /\ N[x] = c[(l - (x - k)) + 1] /\ N[x] \in Range(c) /\ N[x] \notin V \union Range(K)
  <2>1. ~(x <= k) /\ x > k BY <1>6
  <2> QED BY <2>1, <1>1
<1>7. ASSUME NEW i \in 1 .. r PROVE i \in 1 .. r + 1 /\ S[i] = R[i] /\ S[i] \in V
  <2>1. i \in 1 .. r + 1 OBVIOUS
  <2>2. R[i] \in Range(R) BY <1>1 DEF Range
  <2> QED BY <2>1, <2>2, <1>2
<1>8. \A i \in 1 .. r + 1 : i \in 1 .. r \/ i = r + 1 OBVIOUS
<1> QED BY ONLY <1>1, <1>2, <1>3, <1>4, <1>5, <1>6, <1>7, <1>8, k \in Nat, l \in Nat, r \in Nat DEF Visit1

LEMMA StayApart ==
  ASSUME NEW K, NEW V, NEW R, NEW t, NEW c, NEW k, NEW l, NEW N, NEW W, NEW S, NEW r,
         Visit1(K, V, R, t, c, k, l, N, W, S, r), IsInjective(K), IsInjective(c), \A n \in V : n \notin Range(K)
  PROVE  IsInjective(N) /\ \A n \in W : n \notin Range(N)
<1> USE DEF Visit1
<1>1. ASSUME NEW x \in 1 .. k + l, NEW y \in 1 .. k + l, N[x] = N[y] PROVE x = y
  <2>1. CASE x \in 1 .. k
    <3>1. y \in 1 .. k BY <2>1, <1>1
    <3>2. K[x] = K[y] /\ x \in DOMAIN K /\ y \in DOMAIN K BY <2>1, <3>1, <1>1
    <3> QED BY ONLY <3>2, IsInjective(K) DEF IsInjective
  <2>2. CASE x \notin 1 .. k
    <3>1. y \notin 1 .. k BY <2>2, <1>1
    <3>2. PICK i \in 1 .. l : i = (l - (x - k)) + 1 /\ N[x] = c[i] BY <2>2
    <3>3. PICK j \in 1 .. l : j = (l - (y - k)) + 1 /\ N[y] = c[j] BY <3>1
    <3>4. i \in DOMAIN c /\ j \in DOMAIN c /\ c[i] = c[j] BY <3>2, <3>3, <1>1
    <3>5. i = j BY ONLY <3>4, IsInjective(c) DEF IsInjective
    <3>6. k \in Nat /\ l \in Nat OBVIOUS
    <3> QED BY ONLY <3>2, <3>3, <3>5, <3>6, x \in 1 .. k + l, y \in 1 .. k + l
  <2> QED BY <2>1, <2>2
<1>2. DOMAIN N = 1 .. k + l OBVIOUS
<1>3. IsInjective(N) BY ONLY <1>1, <1>2 DEF IsInjective
<1>4. ASSUME NEW x \in 1 .. k + l, N[x] \in W PROVE FALSE
  <2>1. CASE x \in 1 .. k
    <3>1. N[x] \notin V BY <2>1
    <3>2. K[x] = K[k + 1] /\ x \in DOMAIN K /\ k + 1 \in DOMAIN K /\ x # k + 1 BY <2>1, <3>1, <1>4
    <3> QED BY ONLY <3>2, IsInjective(K) DEF IsInjective
  <2>2. CASE x \notin 1 .. k BY <2>2, <1>4
  <2> QED BY <2>1, <2>2
<1>5. \A n \in W : n \notin Range(N) BY ONLY <1>2, <1>4 DEF Range
<1> QED BY ONLY <1>3, <1>5

LEMMA SpansOn ==
  ASSUME NEW K, NEW V, NEW R, NEW t, NEW c, NEW k, NEW l, NEW N, NEW W, NEW S, NEW r,
         Visit1(K, V, R, t, c, k, l, N, W, S, r), NEW a \in 1 .. r, NEW U, SpansFrom(U, K, R, a),
         t \in U => \A n \in Range(c) : n \in U, \A n \in Range(c) : n \in U => t \in U
  PROVE  SpansFrom(U, N, S, a)
<1>1. /\ \A i \in 1 .. r : R[i] \in U => i >= a /\ \A j \in a .. i : R[j] \in U
      /\ (\E x \in 1 .. k + 1 : K[x] \in U) => \A j \in 1 .. r : j >= a => R[j] \in U
      /\ \A x, y \in 1 .. k + 1 : K[x] \in U /\ x < y => K[y] \in U
  BY DEF SpansFrom, Visit1
<1>2. k \in Nat /\ l \in Nat /\ r \in Nat BY DEF Visit1
<1>3. CASE t \in U
  <2>1. \A j \in 1 .. r : j >= a => R[j] \in U BY <1>1, <1>3 DEF Visit1
  <2>2. \A j \in 1 .. r + 1 : j >= a => S[j] \in U BY <2>1, <1>3 DEF Visit1
  <2>3. ASSUME NEW i \in 1 .. r + 1, S[i] \in U PROVE i >= a /\ \A j \in a .. i : S[j] \in U
    <3>1. i >= a
      <4>1. CASE i \in 1 .. r BY <4>1, <2>3, <1>1 DEF Visit1
      <4>2. CASE i = r + 1 BY <4>2, <1>2
      <4> QED BY <4>1, <4>2 DEF Visit1
    <3>2. \A j \in a .. i : j \in 1 .. r + 1 /\ j >= a BY <1>2
    <3> QED BY <3>1, <3>2, <2>2
  <2>4. ASSUME NEW x \in 1 .. k + l, NEW y \in 1 .. k + l, N[x] \in U, x < y PROVE N[y] \in U
    <3>1. CASE y \in 1 .. k
      <4>1. x \in 1 .. k BY <3>1, <2>4, <1>2
      <4>2. K[x] \in U /\ x \in 1 .. k + 1 /\ y \in 1 .. k + 1 BY <3>1, <4>1, <2>4 DEF Visit1
      <4>3. K[y] \in U BY <4>2, <2>4, <1>1
      <4> QED BY <4>3, <3>1 DEF Visit1
    <3>2. CASE y \notin 1 .. k
      <4>1. N[y] \in Range(c) BY <3>2 DEF Visit1
      <4> QED BY <4>1, <1>3
    <3> QED BY <3>1, <3>2
  <2>5. DOMAIN N = 1 .. k + l /\ DOMAIN S = 1 .. r + 1 BY DEF Visit1
  <2> QED BY ONLY <2>2, <2>3, <2>4, <2>5 DEF SpansFrom
<1>4. CASE t \notin U
  <2>1. ASSUME NEW x \in 1 .. k + 1 PROVE K[x] \notin U
    <3>1. K[k + 1] \notin U /\ k + 1 \in 1 .. k + 1 BY <1>4 DEF Visit1
    <3>2. x = k + 1 \/ x < k + 1 BY <1>2
    <3> QED BY <3>1, <3>2, <1>1
  <2>2. ASSUME NEW x \in 1 .. k + l PROVE N[x] \notin U
    <3>1. CASE x \in 1 .. k BY <3>1, <2>1 DEF Visit1
    <3>2. CASE x \notin 1 .. k
      <4>1. N[x] \in Range(c) BY <3>2 DEF Visit1
      <4> QED BY <4>1, <1>4
    <3> QED BY <3>1, <3>2
  <2>3. ASSUME NEW i \in 1 .. r + 1, S[i] \in U PROVE i >= a /\ \A j \in a .. i : S[j] \in U
    <3>1. i \in 1 .. r /\ R[i] \in U BY <2>3, <1>4 DEF Visit1
    <3>2. i >= a /\ \A j \in a .. i : R[j] \in U BY <3>1, <1>1
    <3>3. \A j \in a .. i : j \in 1 .. r BY <3>1, <1>2
    <3> QED BY <3>2, <3>3 DEF Visit1
  <2>5. DOMAIN N = 1 .. k + l /\ DOMAIN S = 1 .. r + 1 BY DEF Visit1
  <2> QED BY ONLY <2>2, <2>3, <2>5 DEF SpansFrom
<1> QED BY <1>3, <1>4

LEMMA SpansAnew ==
  ASSUME NEW K, NEW V, NEW R, NEW t, NEW c, NEW k, NEW l, NEW N, NEW W, NEW S, NEW r,
         Visit1(K, V, R, t, c, k, l, N, W, S, r), IsInjective(K), NEW U, t \in U, \A n \in Range(c) : n \in U,
         \A n \in U : n = t \/ n \notin V \union Range(K)
  PROVE  SpansFrom(U, N, S, r + 1)
<1>1. k \in Nat /\ l \in Nat /\ r \in Nat BY DEF Visit1
<1>2. ASSUME NEW i \in 1 .. r + 1, S[i] \in U PROVE i >= r + 1 /\ \A j \in r + 1 .. i : S[j] \in U
  <2>1. i = r + 1 BY <1>2 DEF Visit1
  <2> QED BY <2>1, <1>1, <1>2
<1>3. \A j \in 1 .. r + 1 : j >= r + 1 => S[j] \in U
  <2>1. S[r + 1] \in U BY DEF Visit1
  <2>2. \A j \in 1 .. r + 1 : j >= r + 1 => j = r + 1 BY <1>1
  <2> QED BY <2>1, <2>2
<1>4. ASSUME NEW x \in 1 .. k + l, NEW y \in 1 .. k + l, N[x] \in U, x < y PROVE N[y] \in U
  <2>1. x \notin 1 .. k
    <3> SUFFICES ASSUME x \in 1 .. k PROVE FALSE OBVIOUS
    <3>1. K[x] = N[x] /\ N[x] \in Range(K) /\ x # k + 1 /\ x \in DOMAIN K /\ k + 1 \in DOMAIN K /\ K[k + 1] = t BY DEF Visit1
    <3>2. K[x] = t BY <3>1, <1>4
    <3> QED BY ONLY <3>1, <3>2, IsInjective(K) DEF IsInjective
  <2>2. y \notin 1 .. k BY <2>1, <1>1, <1>4
  <2>3. N[y] \in Range(c) BY <2>2 DEF Visit1
  <2> QED BY <2>3
<1>5. DOMAIN N = 1 .. k + l /\ DOMAIN S = 1 .. r + 1 BY DEF Visit1
<1> QED BY ONLY <1>2, <1>3, <1>4, <1>5 DEF SpansFrom

LEMMA OrderedOn ==
  ASSUME NEW K, NEW V, NEW R, NEW t, NEW c, NEW k, NEW l, NEW N, NEW W, NEW S, NEW r,
         Visit1(K, V, R, t, c, k, l, N, W, S, r), NEW o, Ordered(o, K, V, R), \A n \in Range(o) : n \in V \union Range(K)
  PROVE  Ordered(o, N, W, S)
<1>1. k \in Nat /\ l \in Nat /\ r \in Nat BY DEF Visit1
<1>2. SUFFICES ASSUME NEW i \in DOMAIN o, NEW j \in DOMAIN o, i < j
               PROVE  /\ o[j] \in W => o[i] \in W /\ \A a, b \in 1 .. r + 1 : S[a] = o[i] /\ S[b] = o[j] => a < b
                      /\ \A x, y \in 1 .. k + l : N[x] = o[i] /\ N[y] = o[j] => y < x
  <2>1. DOMAIN N = 1 .. k + l /\ DOMAIN S = 1 .. r + 1 BY DEF Visit1
  <2> QED BY ONLY <1>2, <2>1 DEF Ordered
<1>3. /\ o[j] \in V => o[i] \in V /\ \A a, b \in 1 .. r : R[a] = o[i] /\ R[b] = o[j] => a < b
      /\ \A x, y \in 1 .. k + 1 : K[x] = o[i] /\ K[y] = o[j] => y < x
  <2>1. DOMAIN K = 1 .. k + 1 /\ DOMAIN R = 1 .. r BY DEF Visit1
  <2> QED BY ONLY <2>1, <1>2, Ordered(o, K, V, R) DEF Ordered
<1>4. o[i] \in V \union Range(K) /\ o[j] \in V \union Range(K) BY DEF Range
<1>5. ASSUME o[j] \in W PROVE o[i] \in V
  <2>1. CASE o[j] \in V BY <2>1, <1>3
  <2>2. CASE o[j] = t
    <3> SUFFICES ASSUME o[i] \notin V PROVE FALSE OBVIOUS
    <3>1. o[i] \in Range(K) BY <1>4
    <3>2. PICK x \in 1 .. k + 1 : K[x] = o[i] BY <3>1 DEF Range, Visit1
    <3>3. K[k + 1] = o[j] /\ k + 1 \in 1 .. k + 1 BY <2>2 DEF Visit1
    <3>4. k + 1 < x BY <3>2, <3>3, <1>3
    <3> QED BY <3>2, <3>4, <1>1
  <2> QED BY <2>1, <2>2, <1>5 DEF Visit1
<1>6. ASSUME o[j] \in W, NEW a \in 1 .. r + 1, NEW b \in 1 .. r + 1, S[a] = o[i], S[b] = o[j] PROVE a < b
  <2>1. o[i] \in V BY <1>5, <1>6
  <2>2. a \in 1 .. r BY <2>1, <1>6 DEF Visit1
  <2>3. CASE b = r + 1 BY <2>2, <2>3, <1>1
  <2>4. CASE b \in 1 .. r
    <3>1. o[j] \in V /\ R[b] = o[j] /\ R[a] = o[i] BY <2>2, <2>4, <1>6 DEF Visit1
    <3> QED BY <3>1, <2>2, <2>4, <1>3
  <2> QED BY <2>3, <2>4 DEF Visit1
<1>7. ASSUME NEW x \in 1 .. k + l, NEW y \in 1 .. k + l, N[x] = o[i], N[y] = o[j] PROVE y < x
  <2>1. x \in 1 .. k /\ y \in 1 .. k BY <1>4, <1>7 DEF Visit1
  <2>2. x \in 1 .. k + 1 /\ y \in 1 .. k + 1 /\ K[x] = o[i] /\ K[y] = o[j] BY <2>1, <1>7 DEF Visit1
  <2> QED BY <2>2, <1>3
<1>8. o[j] \in W => o[i] \in W BY <1>5 DEF Visit1
<1> QED BY ONLY <1>6, <1>7, <1>8

LEMMA OrderedAnew ==
  ASSUME NEW K, NEW V, NEW R, NEW t, NEW c, NEW k, NEW l, NEW N, NEW W, NEW S, NEW r,
         Visit1(K, V, R, t, c, k, l, N, W, S, r), IsInjective(c)
  PROVE  Ordered(c, N, W, S)
<1>1. k \in Nat /\ l \in Nat /\ r \in Nat BY DEF Visit1
<1>2. SUFFICES ASSUME NEW i \in 1 .. l, NEW j \in 1 .. l, i < j
               PROVE  c[j] \notin W /\ \A x, y \in 1 .. k + l : N[x] = c[i] /\ N[y] = c[j] => y < x
  <2>1. DOMAIN N = 1 .. k + l /\ DOMAIN S = 1 .. r + 1 /\ DOMAIN c = 1 .. l BY DEF Visit1
  <2> QED BY ONLY <1>2, <2>1 DEF Ordered
<1>3. DOMAIN c = 1 .. l BY DEF Visit1
<1>4. c[i] \in Range(c) /\ c[j] \in Range(c) BY <1>3 DEF Range
<1>5. c[j] \notin W BY <1>4 DEF Visit1
<1>6. ASSUME NEW x \in 1 .. k + l, NEW h \in 1 .. l, N[x] = c[h] PROVE (l - (x - k)) + 1 = h
  <2>1. c[h] \in Range(c) BY <1>3 DEF Range
  <2>2. x \notin 1 .. k BY <2>1, <1>6 DEF Visit1
  <2>3. PICK g \in 1 .. l : g = (l - (x - k)) + 1 /\ N[x] = c[g] BY <2>2 DEF Visit1
  <2>4. g = h BY ONLY <2>3, <1>3, <1>6, IsInjective(c) DEF IsInjective
  <2> QED BY <2>3, <2>4
<1>7. ASSUME NEW x \in 1 .. k + l, NEW y \in 1 .. k + l, N[x] = c[i], N[y] = c[j] PROVE y < x
  <2>1. (l - (x - k)) + 1 = i /\ (l - (y - k)) + 1 = j BY <1>6, <1>7
  <2> QED BY <2>1, <1>1, <1>2
<1> QED BY <1>5, <1>7

LEMMA DescendVisits ==
  ASSUME NEW T, IsShape(T), IsSimple(T), NEW K, NEW V, NEW R, Walks(T, K, V, R), Descends(T, K, V, R), Len(K) # 0,
         NEW t, t = Last(K), t \notin V,
         NEW N, N = Front(K) \o Reverse(T.children[t]), NEW W, W = V \union {t}, NEW S, S = Append(R, t)
  PROVE  Descends(T, N, W, S)
<1>1. PICK c : \E k \in Nat : \E l \in Nat : \E r \in Nat : Visits(T, K, V, R, t, c, k, l, N, W, S, r) BY VisitsAre
<1>2. PICK k \in Nat : \E l \in Nat : \E r \in Nat : Visits(T, K, V, R, t, c, k, l, N, W, S, r) BY <1>1
<1>3. PICK l \in Nat : \E r \in Nat : Visits(T, K, V, R, t, c, k, l, N, W, S, r) BY <1>2
<1>4. PICK r \in Nat : Visits(T, K, V, R, t, c, k, l, N, W, S, r) BY <1>3
<1>5. Visit1(K, V, R, t, c, k, l, N, W, S, r) BY <1>4, Visit1Is
<1>6. t \in Nodes /\ c = T.children[t] /\ IsInjective(c) /\ V \in SUBSET Nodes BY <1>4 DEF Visits
<1>7. IsInjective(K) /\ \A n \in V : n \notin Range(K) BY DEF Descends
<1>8. IsInjective(N) /\ \A n \in W : n \notin Range(N) BY <1>5, <1>6, <1>7, StayApart
<1>9. DOMAIN R = 1 .. r /\ DOMAIN S = 1 .. r + 1 BY <1>5 DEF Visit1
<1>10. ASSUME NEW a \in 1 .. r + 1 PROVE SpansFrom(Reach(T, {S[a]}), N, S, a)
  <2>1. CASE a \in 1 .. r
    <3>0. a \in 1 .. r BY <2>1
    <3>1. S[a] = R[a] /\ R[a] \in V BY <2>1, <1>5 DEF Visit1
    <3>2. {R[a]} \in SUBSET Nodes BY <3>1, <1>6
    <3>3. PICK U \in SUBSET Nodes : U = Reach(T, {R[a]}) /\ \A n \in U : \A x \in Range(T.children[n]) : x \in U
      BY <3>2, ReachHas
    <3>4. SpansFrom(U, K, R, a) BY <2>1, <3>3, <1>9 DEF Descends
    <3>5. t \in U => \A n \in Range(c) : n \in U BY <3>3, <1>6
    <3>6. ASSUME NEW n \in Range(c), n \in U PROVE t \in U
      <4>1. n # R[a] BY <3>1, <1>5 DEF Visit1
      <4>2. PICK m \in U : n \in Range(T.children[m]) BY <4>1, <3>2, <3>3, <3>6, ReachedFrom
      <4>3. m = t BY <4>2, <3>6, <1>6 DEF IsSimple
      <4> QED BY <4>3
    <3>7. \A n \in Range(c) : n \in U => t \in U BY <3>6
    <3>8. SpansFrom(U, N, S, a) BY ONLY <3>0, <3>4, <3>5, <3>7, <1>5, SpansOn
    <3> QED BY <3>1, <3>3, <3>8
  <2>2. CASE a = r + 1
    <3>1. S[a] = t BY <2>2, <1>5 DEF Visit1
    <3>2. {t} \in SUBSET Nodes BY <1>6
    <3>3. PICK U \in SUBSET Nodes : U = Reach(T, {t}) /\ t \in U /\ \A n \in U : \A x \in Range(T.children[n]) : x \in U
      BY <3>2, ReachHas
    <3>4. \A n \in Range(c) : n \in U BY <3>3, <1>6
    <3>5. \A n \in U : n = t \/ n \notin V \union Range(K) BY <3>3, <1>4 DEF Visits
    <3>6. SpansFrom(U, N, S, r + 1) BY <3>3, <3>4, <3>5, <1>5, <1>7, SpansAnew
    <3> QED BY <2>2, <3>1, <3>3, <3>6
  <2> QED BY <2>1, <2>2, <1>5 DEF Visit1
<1>11. Ordered(T.roots, N, W, S)
  <2>1. \A n \in Range(T.roots) : n \in V \union Range(K) BY DEF Walks
  <2>2. Ordered(T.roots, K, V, R) BY DEF Descends
  <2> QED BY <2>1, <2>2, <1>5, OrderedOn
<1>12. ASSUME NEW m \in W PROVE Ordered(T.children[m], N, W, S)
  <2>1. CASE m = t BY <2>1, <1>5, <1>6, OrderedAnew
  <2>2. CASE m \in V
    <3>1. \A n \in Range(T.children[m]) : n \in V \union Range(K) BY <2>2 DEF Walks
    <3>2. Ordered(T.children[m], K, V, R) BY <2>2 DEF Descends
    <3> QED BY <3>1, <3>2, <1>5, OrderedOn
  <2> QED BY <2>1, <2>2
<1> QED BY <1>8, <1>9, <1>10, <1>11, <1>12 DEF Descends

\* If no entry has two above it and no root has any, the tree is one.
LEMMA TreesAreSimple ==
  ASSUME tree \in Trees, IsTree
  PROVE  IsSimple(tree)
<1>1. IsFiniteSet(Nodes) BY FS_Interval, TreeAssumption DEF Nodes
<1>2. IsShape(tree) BY TreesAre
<1>3. ASSUME NEW n \in Nodes, NEW l \in Nodes, NEW m \in Nodes, n \in Range(tree.children[l]), n \in Range(tree.children[m])
      PROVE  l = m
  <2> SUFFICES ASSUME l # m PROVE FALSE OBVIOUS
  <2>1. PICK L \in SUBSET Nodes : L = ListersOf(tree.children, n) BY DEF ListersOf
  <2>2. l \in L /\ m \in L BY <2>1, <1>3 DEF ListersOf
  <2>3. IsFiniteSet(L) BY <1>1, FS_Subset
  <2>4. IsFiniteSet({l}) /\ Cardinality({l}) = 1 BY FS_Singleton
  <2>5. Cardinality({l} \cup {m}) = 2 BY <2>4, FS_AddElement
  <2>6. {l} \cup {m} \in SUBSET L BY <2>2
  <2>7. Cardinality({l} \cup {m}) <= Cardinality(L) BY <2>3, <2>6, FS_Subset
  <2>8. Cardinality(L) <= 1 BY <2>1 DEF IsTree
  <2>9. Cardinality(L) \in Nat BY <2>3, FS_CardinalityType
  <2> QED BY <2>5, <2>7, <2>8, <2>9
<1>4. ASSUME NEW n \in Range(tree.roots), NEW m \in Nodes PROVE n \notin Range(tree.children[m])
  <2>1. ListersOf(tree.children, n) = {} BY DEF IsTree
  <2> QED BY <2>1 DEF ListersOf
<1> QED BY <1>3, <1>4 DEF IsSimple

LEMMA InTreeIs == InTree = Reach(tree, Range(tree.roots)) /\ \A n : Under(n) = Reach(tree, {n})
BY DEF InTree, Under, Reach, ChildrenOf, KidsOf

\* What a list of rows says of an entry and of those under it.
LEMMA RowIs ==
  ASSUME rows \in Seq(Nodes), IsInjective(rows), NEW a \in DOMAIN rows
  PROVE  Row(rows[a]) = a
<1>1. \A i \in DOMAIN rows : rows[i] = rows[a] => i = a BY DEF IsInjective
<1> QED BY <1>1 DEF Row

\* The rows of what is under an entry are as many as there is, and have no gap.
LEMMA SpansAre ==
  ASSUME NEW R \in Seq(Nodes), IsInjective(R), NEW a \in DOMAIN R, NEW U \in SUBSET Range(R), R[a] \in U,
         \A i \in DOMAIN R : R[i] \in U => i >= a /\ \A j \in a .. i : R[j] \in U
  PROVE  {i \in DOMAIN R : R[i] \in U} = a .. a + Cardinality(U) - 1
<1>1. PICK r \in Nat : r = Len(R) /\ DOMAIN R = 1 .. r OBVIOUS
<1>2. PICK z \in SUBSET (1 .. r) : z = {i \in DOMAIN R : R[i] \in U} BY <1>1
<1>3. a \in z BY <1>2
<1>4. PICK b \in z : \A i \in z : i <= b
  <2>1. z \in SUBSET (0 .. r) /\ z # {} BY <1>1, <1>3
  <2> QED BY <2>1, LargestExists
<1>5. a \in Nat /\ b \in Nat /\ a <= b /\ a >= 1 /\ b <= r BY <1>1, <1>2, <1>3, <1>4
<1>6. z = a .. b
  <2>1. \A i \in z : i \in a .. b BY <1>2, <1>4, <1>5
  <2>2. ASSUME NEW j \in a .. b PROVE j \in z
    <3>1. R[b] \in U /\ b \in DOMAIN R BY <1>2
    <3>2. R[j] \in U BY <3>1
    <3>3. j \in 1 .. r BY <1>5
    <3> QED BY <3>2, <3>3, <1>1, <1>2
  <2> QED BY <2>1, <2>2
<1>7. Cardinality(z) = (b - a) + 1 /\ IsFiniteSet(z)
  <2>0. a \in Int /\ b \in Int BY <1>5
  <2>1. IsFiniteSet(a .. b) /\ Cardinality(a .. b) = IF a > b THEN 0 ELSE b - a + 1 BY ONLY <2>0, FS_Interval
  <2> QED BY <2>1, <1>5, <1>6
<1>8. Cardinality(U) = Cardinality(z)
  <2> DEFINE f == [i \in z |-> R[i]]
  <2>1. f \in [z -> U] BY <1>2
  <2>2. \A i, j \in z : f[i] = f[j] => i = j BY <1>2 DEF IsInjective
  <2>3. ASSUME NEW u \in U PROVE \E i \in z : f[i] = u
    <3>1. PICK i \in DOMAIN R : R[i] = u BY DEF Range
    <3>2. i \in z BY <3>1, <1>2
    <3> QED BY <3>1, <3>2
  <2> HIDE DEF f
  <2>4. f \in Bijection(z, U) BY <2>1, <2>2, <2>3 DEF Bijection, Injection, Surjection, IsInjective
  <2>5. ExistsBijection(z, U) BY <2>4 DEF ExistsBijection
  <2> QED BY <2>5, <1>7, FS_Bijection
<1>9. a + (Cardinality(U) - 1) = b BY <1>5, <1>7, <1>8
<1> QED BY <1>2, <1>6, <1>9

NodeIn(T, V, id) == CHOOSE n \in V : T.id[n] = id
IdsIn(T, V) == {T.id[n] : n \in V}

\* The path found so far, from where it is at down to the leaf
Climbs(T, V, p, c, l) ==
  /\ p \in Seq(Nodes) /\ IsInjective(p) /\ Range(p) \subseteq IdsIn(T, V)
  /\ p = <<>> => c = l
  /\ p # <<>> => Last(p) = l /\ c = T.parent[NodeIn(T, V, Head(p))]
  /\ \A i \in 1 .. Len(p) - 1 : T.parent[NodeIn(T, V, p[i + 1])] = p[i]

WalkOK ==
  /\ tree \in Trees /\ Walks(tree, stack, visited, rows)
  /\ IsTree => Descends(tree, stack, visited, rows)
  /\ projection \notin {"walks", "duplicate"} => stack = <<>>
  /\ projection = "duplicate" => \E m \in InTree : \E n \in InTree : m # n /\ tree.id[m] = tree.id[n]
  /\ projection = "badLeaf" => leaf # NoEntry /\ leaf \notin IdsIn(tree, visited)

PathOK ==
  /\ projection \notin {"climbs", "done"} => path = <<>>
  /\ projection \in {"climbs", "done"} => /\ Climbs(tree, visited, path, climb, leaf)
                                          /\ leaf # NoEntry => leaf \in IdsIn(tree, visited)
  /\ projection = "done" => climb = NoEntry \/ climb \in Range(path) \/ climb \notin IdsIn(tree, visited)

TreeInv == WalkOK /\ PathOK

LEMMA NodesAre == (\A id : NodeOf(id) = NodeIn(tree, visited, id)) /\ Ids(visited) = IdsIn(tree, visited)
BY DEF NodeOf, NodeIn, Ids, IdsIn, IdOf

LEMMA VisitKeeps ==
  ASSUME TreeInv, Visit
  PROVE  TreeInv'
<1>1. /\ projection = "walks" /\ stack # <<>> /\ tree' = tree /\ leaf' = leaf /\ climb' = climb /\ path' = path
      /\ path = <<>>
  BY DEF Visit, TreeInv, PathOK
<1>2. IsShape(tree) /\ Walks(tree, stack, visited, rows) /\ tree \in Trees BY TreesAre DEF TreeInv, WalkOK
<1>3. stack \in Seq(Nodes) /\ visited \in SUBSET Nodes BY <1>2 DEF Walks
<1>4. Len(stack) # 0 BY <1>1, <1>3
<1>5. PICK t \in Nodes : t = Last(stack) /\ t \in Range(stack) BY <1>3, <1>4, FrontRange
<1>6. InTree' = InTree /\ IsTree' = IsTree BY <1>1 DEF InTree, ChildrenOf, IsTree
<1>7. \/ t \in visited /\ stack' = Front(stack) /\ visited' = visited /\ rows' = rows /\ projection' = "walks"
      \/ /\ t \notin visited /\ tree.id[t] \in IdsIn(tree, visited)
         /\ projection' = "duplicate" /\ stack' = stack /\ visited' = visited /\ rows' = rows
      \/ /\ t \notin visited /\ tree.id[t] \notin IdsIn(tree, visited) /\ visited' = visited \union {t} /\ rows' = Append(rows, t)
         /\ stack' = Front(stack) \o Reverse(tree.children[t]) /\ projection' = "walks"
  BY <1>1, <1>5 DEF Visit, walk, Pushed, IdOf, Ids, IdsIn
<1>8. PathOK' BY <1>1, <1>7 DEF PathOK
<1>9. ASSUME IsTree PROVE IsSimple(tree) /\ Descends(tree, stack, visited, rows)
  <2>1. IsSimple(tree) BY <1>2, <1>9, TreesAreSimple
  <2>2. Descends(tree, stack, visited, rows) BY <1>9 DEF TreeInv, WalkOK
  <2> QED BY <2>1, <2>2
<1>10. CASE t \in visited
  <2>1. stack' = Front(stack) /\ visited' = visited /\ rows' = rows /\ projection' = "walks" BY <1>7, <1>10
  <2>2. PICK N : N = Front(stack) OBVIOUS
  <2>3. Walks(tree, N, visited, rows) BY <1>2, <1>4, <1>5, <1>10, <2>2, WalkSkips
  <2>4. Walks(tree', stack', visited', rows') BY <1>1, <2>1, <2>2, <2>3
  <2>5. ~IsTree BY <1>5, <1>9, <1>10 DEF Descends
  <2>6. WalkOK' BY <1>1, <1>2, <1>6, <2>1, <2>4, <2>5 DEF WalkOK
  <2> QED BY <2>6, <1>8 DEF TreeInv
<1>11. CASE t \notin visited /\ tree.id[t] \in IdsIn(tree, visited)
  <2>1. projection' = "duplicate" /\ stack' = stack /\ visited' = visited /\ rows' = rows BY <1>7, <1>11
  <2>2. PICK m \in visited : tree.id[m] = tree.id[t] BY <1>11 DEF IdsIn
  <2>3. t \in InTree /\ m \in InTree BY <1>2, <1>5, InTreeIs DEF Walks
  <2>4. \E a \in InTree : \E b \in InTree : a # b /\ tree.id[a] = tree.id[b] BY <1>11, <2>2, <2>3
  <2>5. (IsTree => Descends(tree, stack, visited, rows))' BY <1>1, <1>6, <1>9, <2>1
  <2>6. Walks(tree', stack', visited', rows') BY <1>1, <1>2, <2>1
  <2>7. (\E a \in InTree : \E b \in InTree : a # b /\ tree.id[a] = tree.id[b])' BY <1>1, <1>6, <2>4
  <2>8. WalkOK' BY <1>1, <1>2, <2>1, <2>5, <2>6, <2>7 DEF WalkOK
  <2> QED BY <2>8, <1>8 DEF TreeInv
<1>12. CASE t \notin visited /\ tree.id[t] \notin IdsIn(tree, visited)
  <2>1. /\ visited' = visited \union {t} /\ rows' = Append(rows, t)
        /\ stack' = Front(stack) \o Reverse(tree.children[t]) /\ projection' = "walks" BY <1>7, <1>12
  <2>2. PICK N : N = Front(stack) \o Reverse(tree.children[t]) OBVIOUS
  <2>3. PICK W : W = visited \union {t} OBVIOUS
  <2>4. PICK S : S = Append(rows, t) OBVIOUS
  <2>5. \A n \in visited : tree.id[n] # tree.id[t] BY <1>12 DEF IdsIn
  <2>6. Walks(tree, N, W, S) BY <1>2, <1>4, <1>5, <1>12, <2>2, <2>3, <2>4, <2>5, WalkVisits
  <2>7. Walks(tree', stack', visited', rows') BY <1>1, <2>1, <2>2, <2>3, <2>4, <2>6
  <2>8. ASSUME IsTree PROVE Descends(tree, N, W, S)
    <3>1. IsSimple(tree) /\ Descends(tree, stack, visited, rows) BY <1>9, <2>8
    <3> QED BY ONLY <1>2, <1>4, <1>5, <1>12, <2>2, <2>3, <2>4, <3>1, DescendVisits
  <2>9. (IsTree => Descends(tree, stack, visited, rows))' BY <1>1, <1>6, <2>1, <2>2, <2>3, <2>4, <2>8
  <2>10. WalkOK' BY <1>1, <1>2, <2>1, <2>7, <2>9 DEF WalkOK
  <2> QED BY <2>10, <1>8 DEF TreeInv
<1> QED BY <1>10, <1>11, <1>12

LEMMA TakeLeafKeeps ==
  ASSUME TreeInv, NEW l, TakeLeaf(l)
  PROVE  TreeInv'
<1>1. /\ projection = "walks" /\ stack = <<>> /\ leaf' = l /\ climb' = l /\ tree' = tree
      /\ stack' = stack /\ visited' = visited /\ rows' = rows /\ path' = path /\ path = <<>>
      /\ projection' = IF l # NoEntry /\ l \notin IdsIn(tree, visited) THEN "badLeaf" ELSE "climbs"
  BY NodesAre DEF TakeLeaf, walk, TreeInv, PathOK
<1>2. InTree' = InTree /\ IsTree' = IsTree BY <1>1 DEF InTree, ChildrenOf, IsTree
<1>3. WalkOK'
  <2>1. (IsTree => Descends(tree, stack, visited, rows))' BY <1>1, <1>2 DEF TreeInv, WalkOK
  <2>2. Walks(tree', stack', visited', rows') /\ tree' \in Trees BY <1>1 DEF TreeInv, WalkOK
  <2>3. (projection = "badLeaf" => leaf # NoEntry /\ leaf \notin IdsIn(tree, visited))'
    <3>1. projection' = "badLeaf" => l # NoEntry /\ l \notin IdsIn(tree, visited) BY <1>1
    <3> QED BY <1>1, <3>1
  <2>4. projection' # "duplicate" /\ stack' = <<>> BY <1>1
  <2> QED BY <2>1, <2>2, <2>3, <2>4 DEF WalkOK
<1>4. Climbs(tree, visited, <<>>, l, l)
  <2>1. <<>> \in Seq(Nodes) /\ Range(<<>>) = {} /\ IsInjective(<<>>) /\ Len(<<>>) = 0 BY DEF Range, IsInjective
  <2> QED BY <2>1 DEF Climbs
<1>5. Climbs(tree', visited', path', climb', leaf') BY <1>1, <1>4
<1>6. PathOK'
  <2>1. projection' # "done" /\ path' = <<>> BY <1>1
  <2>2. (projection = "climbs" => (leaf # NoEntry => leaf \in IdsIn(tree, visited)))'
    <3>1. projection' = "climbs" => (l # NoEntry => l \in IdsIn(tree, visited)) BY <1>1
    <3> QED BY <1>1, <3>1
  <2> QED BY <1>5, <2>1, <2>2 DEF PathOK
<1> QED BY <1>3, <1>6 DEF TreeInv

Longer(p, x, q) ==
  /\ q \in Seq(Nodes) /\ Len(p) \in Nat /\ Len(q) = Len(p) + 1 /\ q[1] = x /\ Head(q) = x /\ IsInjective(q)
  /\ \A i \in 1 .. Len(p) : q[i + 1] = p[i]
  /\ Range(q) = Range(p) \union {x}
  /\ Last(q) = IF p = <<>> THEN x ELSE Last(p)

LEMMA Prepends ==
  ASSUME NEW p \in Seq(Nodes), NEW x \in Nodes, IsInjective(p), x \notin Range(p), NEW q, q = <<x>> \o p
  PROVE  Longer(p, x, q)
<1>1. PICK n \in Nat : n = Len(p) OBVIOUS
<1>2. PICK s : s = <<x>> OBVIOUS
<1>3. s \in Seq(Nodes) /\ Len(s) = 1 /\ s[1] = x BY <1>2
<1>4. q = s \o p BY <1>2
<1>5. q \in Seq(Nodes) /\ Len(q) = 1 + n
  <2>1. s \in Seq(Nodes) /\ p \in Seq(Nodes) BY <1>3
  <2>2. q \in Seq(Nodes) /\ Len(q) = Len(s) + Len(p) BY ONLY <2>1, <1>4
  <2> QED BY <2>2, <1>1, <1>3
<1>6. Len(q) = n + 1 /\ DOMAIN q = 1 .. n + 1 /\ DOMAIN p = 1 .. n BY <1>1, <1>5
<1>7. q[1] = x BY <1>3, <1>4, <1>6
<1>8. ASSUME NEW i \in 1 .. n PROVE q[i + 1] = p[i]
  <2>1. i + 1 \in 1 .. 1 + n /\ ~(i + 1 <= 1) /\ (i + 1) - 1 = i BY <1>1
  <2> QED BY <2>1, <1>1, <1>3, <1>4
<1>9. \A i \in 1 .. n + 1 : i = 1 \/ (i - 1 \in 1 .. n /\ q[i] = p[i - 1])
  <2>1. ASSUME NEW i \in 1 .. n + 1, i # 1 PROVE i - 1 \in 1 .. n /\ q[i] = p[i - 1]
    <3>1. PICK j \in 1 .. n : j + 1 = i /\ j = i - 1
      <4>1. i - 1 \in 1 .. n /\ (i - 1) + 1 = i BY <2>1
      <4> QED BY <4>1
    <3> QED BY <3>1, <1>8
  <2> QED BY <2>1
<1>10. \A i \in 1 .. n : p[i] # x BY <1>6 DEF Range
<1>11. IsInjective(q)
  <2>1. \A i, j \in 1 .. n : p[i] = p[j] => i = j BY <1>6 DEF IsInjective
  <2>2. ASSUME NEW i \in 1 .. n + 1, NEW j \in 1 .. n + 1, q[i] = q[j] PROVE i = j
    <3>1. CASE i = 1 BY <3>1, <1>7, <1>9, <1>10, <2>2
    <3>2. CASE j = 1 BY <3>2, <1>7, <1>9, <1>10, <2>2
    <3>3. CASE i # 1 /\ j # 1
      <4>1. i - 1 \in 1 .. n /\ j - 1 \in 1 .. n /\ p[i - 1] = p[j - 1] BY <3>3, <1>9, <2>2
      <4>2. i - 1 = j - 1 BY <4>1, <2>1
      <4> QED BY <4>2
    <3> QED BY <3>1, <3>2, <3>3
  <2> QED BY ONLY <2>2, <1>6 DEF IsInjective
<1>12. Range(q) = Range(p) \union {x}
  <2>1. \A y \in Range(q) : y \in Range(p) \union {x} BY <1>6, <1>7, <1>9 DEF Range
  <2>2. \A y \in Range(p) : y \in Range(q)
    <3>1. \A i \in 1 .. n : i + 1 \in 1 .. n + 1 OBVIOUS
    <3> QED BY <3>1, <1>6, <1>8 DEF Range
  <2>3. x \in Range(q)
    <3>1. 1 \in 1 .. n + 1 OBVIOUS
    <3> QED BY <3>1, <1>6, <1>7 DEF Range
  <2> QED BY <2>1, <2>2, <2>3
<1>13. Last(q) = IF p = <<>> THEN x ELSE Last(p)
  <2>1. Last(q) = q[n + 1] BY <1>6 DEF Last
  <2>2. CASE p = <<>>
    <3>1. n = 0 BY <2>2, <1>1
    <3> QED BY <2>1, <2>2, <3>1, <1>7
  <2>3. CASE p # <<>>
    <3>1. n \in 1 .. n BY <2>3, <1>1
    <3>2. q[n + 1] = p[n] BY <3>1, <1>8
    <3> QED BY <2>1, <2>3, <3>2, <1>1 DEF Last
  <2> QED BY <2>2, <2>3
<1>14. Head(q) = x BY <1>5, <1>6, <1>7
<1> QED BY ONLY <1>1, <1>5, <1>6, <1>7, <1>8, <1>11, <1>12, <1>13, <1>14 DEF Longer

LEMMA ClimbsOn ==
  ASSUME NEW T, NEW V, NEW p, NEW c, NEW l, Climbs(T, V, p, c, l), IdsIn(T, V) \subseteq Nodes,
         c \in IdsIn(T, V), c \notin Range(p), NEW q, q = <<c>> \o p, NEW d, d = T.parent[NodeIn(T, V, c)]
  PROVE  Climbs(T, V, q, d, l)
<1>1. p \in Seq(Nodes) /\ IsInjective(p) /\ c \in Nodes BY DEF Climbs
<1>2. PICK n \in Nat : n = Len(p) BY <1>1
<1>0. c \notin Range(p) /\ q = <<c>> \o p OBVIOUS
<1>9. /\ q \in Seq(Nodes) /\ Len(p) \in Nat /\ Len(q) = Len(p) + 1 /\ q[1] = c /\ Head(q) = c /\ IsInjective(q)
      /\ \A i \in 1 .. Len(p) : q[i + 1] = p[i]
      /\ Range(q) = Range(p) \union {c}
      /\ Last(q) = IF p = <<>> THEN c ELSE Last(p)
  <2>1. Longer(p, c, q) BY ONLY <1>0, <1>1, Prepends
  <2> QED BY ONLY <2>1 DEF Longer
<1>3. /\ q \in Seq(Nodes) /\ Len(q) = n + 1 /\ q[1] = c /\ Head(q) = c /\ IsInjective(q)
      /\ \A i \in 1 .. n : q[i + 1] = p[i]
      /\ Range(q) = Range(p) \union {c}
      /\ Last(q) = IF p = <<>> THEN c ELSE Last(p)
  BY ONLY <1>2, <1>9
<1>4. q # <<>> BY <1>3
<1>5. Last(q) = l BY <1>3 DEF Climbs
<1>6. ASSUME NEW i \in 1 .. n PROVE T.parent[NodeIn(T, V, q[i + 1])] = q[i]
  <2>1. CASE i = 1
    <3>1. p # <<>> /\ q[2] = p[1] /\ Head(p) = p[1] BY <2>1, <1>1, <1>2, <1>3
    <3>2. c = T.parent[NodeIn(T, V, p[1])] BY <3>1 DEF Climbs
    <3> QED BY <2>1, <3>1, <3>2, <1>3
  <2>2. CASE i # 1
    <3>1. PICK j \in 1 .. n - 1 : j + 1 = i /\ j \in 1 .. n
      <4>1. i - 1 \in 1 .. n - 1 /\ (i - 1) + 1 = i /\ i - 1 \in 1 .. n BY <2>2
      <4> QED BY <4>1
    <3>2. T.parent[NodeIn(T, V, p[j + 1])] = p[j] BY <3>1, <1>2 DEF Climbs
    <3>3. q[i + 1] = p[j + 1] /\ q[i] = p[j] BY <3>1, <1>3
    <3> QED BY <3>2, <3>3
  <2> QED BY <2>1, <2>2
<1>7. Len(q) - 1 = n BY <1>3
<1>8. Range(q) \subseteq IdsIn(T, V) BY <1>3 DEF Climbs
<1> QED BY <1>3, <1>4, <1>5, <1>6, <1>7, <1>8 DEF Climbs

LEMMA ClimbKeeps ==
  ASSUME TreeInv, Climb
  PROVE  TreeInv'
<1>1. /\ projection = "climbs" /\ tree' = tree /\ stack' = stack /\ visited' = visited /\ rows' = rows /\ leaf' = leaf
      /\ \/ /\ climb = NoEntry \/ climb \in Range(path) \/ climb \notin IdsIn(tree, visited)
            /\ projection' = "done" /\ climb' = climb /\ path' = path
         \/ /\ ~(climb = NoEntry \/ climb \in Range(path) \/ climb \notin IdsIn(tree, visited))
            /\ path' = <<climb>> \o path /\ climb' = tree.parent[NodeIn(tree, visited, climb)] /\ projection' = projection
  BY NodesAre DEF Climb, walk, Stops
<1>2. Climbs(tree, visited, path, climb, leaf) /\ (leaf # NoEntry => leaf \in IdsIn(tree, visited)) BY <1>1 DEF TreeInv, PathOK
<1>3. InTree' = InTree /\ IsTree' = IsTree BY <1>1 DEF InTree, ChildrenOf, IsTree
<1>4. WalkOK'
  <2>1. (IsTree => Descends(tree, stack, visited, rows))' BY <1>1, <1>3 DEF TreeInv, WalkOK
  <2>2. Walks(tree', stack', visited', rows') /\ tree' \in Trees BY <1>1 DEF TreeInv, WalkOK
  <2>3. projection' \in {"climbs", "done"} /\ stack' = <<>> BY <1>1 DEF TreeInv, WalkOK
  <2> QED BY <2>1, <2>2, <2>3 DEF WalkOK
<1>5. PathOK'
  <2>1. CASE projection' = "done" BY <1>1, <1>2, <2>1 DEF PathOK
  <2>2. CASE projection' # "done"
    <3>1. /\ climb \notin Range(path) /\ climb \in IdsIn(tree, visited) /\ projection' = "climbs"
          /\ path' = <<climb>> \o path /\ climb' = tree.parent[NodeIn(tree, visited, climb)]
      BY <1>1, <2>2
    <3>2. IdsIn(tree, visited) \subseteq Nodes
      <4>1. IsShape(tree) /\ visited \in SUBSET Nodes BY TreesAre DEF TreeInv, WalkOK, Walks
      <4> QED BY <4>1 DEF IdsIn, IsShape
    <3>3. PICK q : q = <<climb>> \o path OBVIOUS
    <3>4. PICK d : d = tree.parent[NodeIn(tree, visited, climb)] OBVIOUS
    <3>5. Climbs(tree, visited, q, d, leaf) BY ONLY <1>2, <3>1, <3>2, <3>3, <3>4, ClimbsOn
    <3>6. Climbs(tree', visited', path', climb', leaf') BY <1>1, <3>1, <3>3, <3>4, <3>5
    <3>7. (leaf # NoEntry => leaf \in IdsIn(tree, visited))' BY <1>1, <1>2
    <3> QED BY <3>1, <3>6, <3>7 DEF PathOK
  <2> QED BY <2>1, <2>2
<1> QED BY <1>4, <1>5 DEF TreeInv

LEMMA TreeBegins ==
  ASSUME TreeInit
  PROVE  TreeInv
<1>1. IsShape(tree) /\ tree \in Trees BY TreesAre DEF TreeInit
<1>2. PICK N : N = Reverse(tree.roots) OBVIOUS
<1>3. Walks(tree, N, {}, <<>>) /\ Descends(tree, N, {}, <<>>) BY <1>1, <1>2, WalkBegins, DescendBegins
<1>4. /\ stack = N /\ visited = {} /\ rows = <<>> /\ path = <<>> /\ projection = "walks" BY <1>2 DEF TreeInit
<1>5. Walks(tree, stack, visited, rows) /\ Descends(tree, stack, visited, rows) BY <1>3, <1>4
<1>6. WalkOK BY <1>1, <1>4, <1>5 DEF WalkOK
<1>7. PathOK BY <1>4 DEF PathOK
<1> QED BY <1>6, <1>7 DEF TreeInv

LEMMA TreeSteps ==
  ASSUME TreeInv, [TreeNext]_treeVars
  PROVE  TreeInv'
<1>1. CASE Visit BY <1>1, VisitKeeps
<1>2. CASE Climb BY <1>2, ClimbKeeps
<1>3. ASSUME NEW l \in {NoEntry, 1, MaxNodes, Missing}, TakeLeaf(l) PROVE TreeInv' BY <1>3, TakeLeafKeeps
<1>4. CASE UNCHANGED treeVars
  <2>1. /\ tree' = tree /\ stack' = stack /\ visited' = visited /\ rows' = rows /\ leaf' = leaf /\ climb' = climb
        /\ path' = path /\ projection' = projection
    BY <1>4 DEF treeVars
  <2>2. InTree' = InTree /\ IsTree' = IsTree BY <2>1 DEF InTree, ChildrenOf, IsTree
  <2>3. WalkOK' BY <2>1, <2>2 DEF TreeInv, WalkOK
  <2>4. PathOK' BY <2>1 DEF TreeInv, PathOK
  <2> QED BY <2>3, <2>4 DEF TreeInv
<1> QED BY <1>1, <1>2, <1>3, <1>4 DEF TreeNext

LEMMA OrderIs ==
  ASSUME NEW c \in Seq(Nodes), rows \in Seq(Nodes), IsInjective(rows), Range(c) \subseteq Range(rows),
         Ordered(c, stack, Range(rows), rows)
  PROVE  InOrder(c)
<1> SUFFICES ASSUME NEW i \in DOMAIN c, NEW j \in DOMAIN c, i < j PROVE Row(c[i]) < Row(c[j])
  BY DEF InOrder
<1>1. c[i] \in Range(rows) /\ c[j] \in Range(rows) BY DEF Range
<1>2. PICK a \in DOMAIN rows : rows[a] = c[i] BY <1>1 DEF Range
<1>3. PICK b \in DOMAIN rows : rows[b] = c[j] BY <1>1 DEF Range
<1>4. a < b BY <1>1, <1>2, <1>3 DEF Ordered
<1>5. Row(rows[a]) = a /\ Row(rows[b]) = b BY RowIs
<1> QED BY <1>2, <1>3, <1>4, <1>5

LEMMA TreeComesOut ==
  ASSUME TreeInv, stack = <<>>
  PROVE  /\ Range(rows) = InTree /\ IsInjective(rows) /\ IsInjective([n \in InTree |-> IdOf(n)])
         /\ visited = InTree
         /\ IsTree => /\ InOrder(tree.roots) /\ \A n \in InTree : InOrder(tree.children[n])
                      /\ \A n \in InTree : {Row(m) : m \in Under(n)} = Row(n) .. Row(n) + Cardinality(Under(n)) - 1
<1>1. IsShape(tree) /\ Walks(tree, stack, visited, rows) BY TreesAre DEF TreeInv, WalkOK
<1>2. visited = InTree BY <1>1, WalkEnds, InTreeIs
<1>3. Range(rows) = InTree /\ IsInjective(rows) /\ rows \in Seq(Nodes) /\ InTree \in SUBSET Nodes BY <1>1, <1>2 DEF Walks
<1>4. \A m, n \in InTree : tree.id[m] = tree.id[n] => m = n BY <1>1, <1>2 DEF Walks
<1>5. IsInjective([n \in InTree |-> IdOf(n)]) BY <1>4 DEF IsInjective, IdOf
<1>6. /\ Range(tree.roots) \subseteq InTree /\ \A n \in InTree : Range(tree.children[n]) \subseteq InTree
      /\ tree.roots \in Seq(Nodes) /\ \A n \in InTree : tree.children[n] \in Seq(Nodes)
  <2>1. PICK roots \in Seq(Nodes) : roots = tree.roots BY <1>1 DEF IsShape
  <2>2. PICK s \in SUBSET Nodes : s = Range(tree.roots)
    <3>1. Range(roots) \in SUBSET Nodes BY DEF Range
    <3> QED BY <2>1, <3>1
  <2>3. s \subseteq Reach(tree, s) /\ \A n \in Reach(tree, s) : \A c \in Range(tree.children[n]) : c \in Reach(tree, s)
    BY <1>1, ReachHas
  <2> QED BY <2>1, <2>2, <2>3, <1>1, <1>3, InTreeIs DEF IsShape
<1>7. ASSUME IsTree PROVE /\ InOrder(tree.roots) /\ \A n \in InTree : InOrder(tree.children[n])
                          /\ \A n \in InTree : {Row(m) : m \in Under(n)} = Row(n) .. Row(n) + Cardinality(Under(n)) - 1
  <2>1. Descends(tree, stack, visited, rows) BY <1>7 DEF TreeInv, WalkOK
  <2>2. Ordered(tree.roots, stack, Range(rows), rows) /\ \A m \in InTree : Ordered(tree.children[m], stack, Range(rows), rows)
    BY <2>1, <1>2, <1>3 DEF Descends
  <2>3. InOrder(tree.roots) BY <1>3, <1>6, <2>2, OrderIs
  <2>4. ASSUME NEW n \in InTree PROVE InOrder(tree.children[n])
    <3>1. Ordered(tree.children[n], stack, Range(rows), rows) BY <2>2
    <3>2. tree.children[n] \in Seq(Nodes) /\ Range(tree.children[n]) \subseteq Range(rows) BY <1>3, <1>6
    <3> QED BY <1>3, <3>1, <3>2, OrderIs
  <2>5. ASSUME NEW n \in InTree PROVE {Row(m) : m \in Under(n)} = Row(n) .. Row(n) + Cardinality(Under(n)) - 1
    <3>1. PICK a \in DOMAIN rows : rows[a] = n BY <1>3 DEF Range
    <3>2. PICK U : U = Reach(tree, {n}) /\ U = Under(n) BY InTreeIs
    <3>3. U \subseteq InTree /\ n \in U
      <4>1. {n} \subseteq InTree /\ {n} \in SUBSET Nodes BY <1>3
      <4>2. \A m \in InTree : \A c \in Range(tree.children[m]) : c \in InTree BY <1>6
      <4>3. Reach(tree, {n}) \subseteq InTree BY <1>3, <4>1, <4>2, ReachIsLeast
      <4>4. {n} \subseteq Reach(tree, {n}) BY <1>1, <4>1, ReachHas
      <4> QED BY <3>2, <4>3, <4>4
    <3>4. SpansFrom(U, stack, rows, a) BY <2>1, <3>1, <3>2 DEF Descends
    <3>5. \A i \in DOMAIN rows : rows[i] \in U => i >= a /\ \A j \in a .. i : rows[j] \in U BY <3>4 DEF SpansFrom
    <3>6. PICK R \in Seq(Nodes) : R = rows BY <1>3
    <3>7. U \in SUBSET Range(R) /\ R[a] \in U /\ IsInjective(R) /\ a \in DOMAIN R
          /\ \A i \in DOMAIN R : R[i] \in U => i >= a /\ \A j \in a .. i : R[j] \in U
      BY <1>3, <3>1, <3>3, <3>5, <3>6
    <3>8. {i \in DOMAIN R : R[i] \in U} = a .. a + Cardinality(U) - 1 BY ONLY <3>6, <3>7, SpansAre
    <3>9. Row(n) = a BY <1>3, <3>1, RowIs
    <3>10. {Row(m) : m \in U} = {i \in DOMAIN rows : rows[i] \in U}
      <4>1. ASSUME NEW m \in U PROVE Row(m) \in DOMAIN rows /\ rows[Row(m)] \in U
        <5>1. PICK i \in DOMAIN rows : rows[i] = m BY <1>3, <3>3 DEF Range
        <5>2. Row(m) = i BY <1>3, <5>1, RowIs
        <5> QED BY <5>1, <5>2
      <4>2. ASSUME NEW i \in DOMAIN rows, rows[i] \in U PROVE i \in {Row(m) : m \in U}
        <5>1. Row(rows[i]) = i BY <1>3, RowIs
        <5> QED BY <5>1, <4>2
      <4> QED BY <4>1, <4>2
    <3> QED BY <3>2, <3>6, <3>8, <3>9, <3>10
  <2> QED BY <2>3, <2>4, <2>5
<1> QED BY <1>2, <1>3, <1>5, <1>7

LEMMA TreeInvIsWhole ==
  ASSUME TreeInv
  PROVE  TreeIsWhole
<1>1. IsShape(tree) /\ visited \in SUBSET Nodes BY TreesAre DEF TreeInv, WalkOK, Walks
<1>2. MaxNodes \in Nat /\ IsFiniteSet(Nodes) /\ Cardinality(Nodes) = MaxNodes
  <2>1. MaxNodes \in Nat /\ MaxNodes > 1 BY TreeAssumption
  <2> QED BY <2>1, FS_Interval DEF Nodes
<1>3. projection \in {"climbs", "done", "badLeaf"} => stack = <<>> BY DEF TreeInv, WalkOK
<1>4. projection = "duplicate" => ~IsInjective([n \in InTree |-> IdOf(n)])
  <2> SUFFICES ASSUME projection = "duplicate" PROVE ~IsInjective([n \in InTree |-> IdOf(n)]) OBVIOUS
  <2>1. PICK m \in InTree : \E n \in InTree : m # n /\ tree.id[m] = tree.id[n] BY DEF TreeInv, WalkOK
  <2>2. PICK n \in InTree : m # n /\ tree.id[m] = tree.id[n] BY <2>1
  <2> QED BY <2>1, <2>2 DEF IsInjective, IdOf
<1>5. projection = "badLeaf" => leaf \notin {NoEntry} \union Ids(InTree)
  <2> SUFFICES ASSUME projection = "badLeaf" PROVE leaf # NoEntry /\ leaf \notin Ids(InTree) OBVIOUS
  <2>1. visited = InTree BY <1>3, TreeComesOut
  <2> QED BY <2>1, NodesAre DEF TreeInv, WalkOK
<1>6. Len(path) <= MaxNodes
  <2>1. path \in Seq(Nodes) /\ IsInjective(path)
    <3>1. <<>> \in Seq(Nodes) /\ IsInjective(<<>>) BY DEF IsInjective
    <3> QED BY <3>1 DEF TreeInv, PathOK, Climbs
  <2>2. PICK n \in Nat : n = Len(path) BY <2>1
  <2>3. path \in [1 .. n -> Nodes] BY <2>1, <2>2
  <2>4. path \in Injection(1 .. n, Nodes) BY <2>1, <2>3 DEF Injection
  <2>5. Cardinality(1 .. n) <= Cardinality(Nodes) BY <1>2, <2>4, FS_Injection
  <2>6. Cardinality(1 .. n) = IF 1 > n THEN 0 ELSE n - 1 + 1 BY FS_Interval
  <2> QED BY <1>2, <2>2, <2>5, <2>6
<1>7. ASSUME projection = "done", leaf # NoEntry
      PROVE  /\ IsInjective(path) /\ Last(path) = leaf
             /\ \A i \in 1 .. Len(path) - 1 : tree.parent[NodeOf(path[i + 1])] = path[i]
             /\ tree.parent[NodeOf(Head(path))] \notin Ids(visited) \ Range(path)
  <2>1. Climbs(tree, visited, path, climb, leaf) /\ leaf \in IdsIn(tree, visited)
        /\ (climb = NoEntry \/ climb \in Range(path) \/ climb \notin IdsIn(tree, visited))
    BY <1>7 DEF TreeInv, PathOK
  <2>2. path # <<>>
    <3>1. Range(<<>>) = {} BY DEF Range
    <3> QED BY <1>7, <2>1, <3>1 DEF Climbs
  <2>3. NoEntry \notin IdsIn(tree, visited)
    <3>1. IdsIn(tree, visited) \subseteq Nodes BY <1>1 DEF IdsIn, IsShape
    <3> QED BY <3>1, <1>2 DEF Nodes, NoEntry
  <2> QED BY <2>1, <2>2, <2>3, NodesAre DEF Climbs
<1> QED BY <1>3, <1>4, <1>5, <1>6, <1>7, TreeComesOut DEF TreeIsWhole

----------------------------------------------------------------------------
(* Cleanups and trees of sessions *)

Jobs == [at : {"none", "archiving", "deleting", "tree", "reported", "failed"}, archive : SUBSET CleanSessions,
         delete : SUBSET CleanSessions, ready : SUBSET CleanSessions, skipped : SUBSET CleanSessions,
         archived : SUBSET CleanSessions, deleted : SUBSET CleanSessions]
Deeds == [closed : SUBSET CleanSessions, archived : SUBSET CleanSessions, deleted : SUBSET CleanSessions]

\* What is still to be closed was neither closed nor skipped, and a report is of what was done so far.
CleanupInv ==
  /\ job \in Jobs /\ did \in Deeds /\ old \subseteq CleanSessions
  /\ job.skipped \cap did.closed = {}
  /\ (job.archive \cup job.delete) \cap (job.skipped \cup did.closed) = {}
  /\ job.at = "none" => did = Nothing
  /\ job.at = "tree" => job.delete = {} /\ job.skipped = {} /\ job.deleted = {} /\ did.deleted = {}
  /\ job.at = "deleting" => job.archived = did.archived
  /\ job.at = "reported" => job.archived = did.archived /\ job.deleted = did.deleted

LEMMA CleanupBegins == CleanupInit => CleanupInv
BY DEF CleanupInit, CleanupInv, NoJob, Nothing, Jobs, Deeds

LEMMA CloseOldKeeps ==
  ASSUME CleanupInv, NEW s \in job.archive \cup job.delete, old' = old, 
         job.at \in {"archiving", "deleting"}, CloseOld(s)
  PROVE  CleanupInv'
<1>0. s \in CleanSessions BY DEF CleanupInv, Jobs
<1>1. CASE InUse(s)
  <2>1. did' = did /\ job' = [job EXCEPT !.archive = @ \ {s}, !.delete = @ \ {s}, !.skipped = @ \cup {s}]
    BY <1>1 DEF CloseOld
  <2>2. /\ job' \in Jobs /\ job'.archive = job.archive \ {s} /\ job'.delete = job.delete \ {s}
        /\ job'.skipped = job.skipped \cup {s} /\ job'.at = job.at /\ job'.archived = job.archived
    BY <1>0, <2>1 DEF CleanupInv, Jobs
  <2> QED BY <2>1, <2>2 DEF CleanupInv
<1>2. CASE ~InUse(s)
  <2>1. /\ did' = [did EXCEPT !.closed = @ \cup {s}]
        /\ job' = [job EXCEPT !.archive = @ \ {s}, !.delete = @ \ {s}, !.ready = @ \cup {s}]
    BY <1>2 DEF CloseOld, Closed
  <2>2. /\ job' \in Jobs /\ job'.archive = job.archive \ {s} /\ job'.delete = job.delete \ {s}
        /\ job'.skipped = job.skipped /\ job'.at = job.at /\ job'.archived = job.archived
    BY <1>0, <2>1 DEF CleanupInv, Jobs
  <2>3. did' \in Deeds /\ did'.closed = did.closed \cup {s} /\ did'.archived = did.archived
    BY <1>0, <2>1 DEF CleanupInv, Deeds
  <2> QED BY <2>2, <2>3 DEF CleanupInv
<1> QED BY <1>1, <1>2

LEMMA CloseOfTreeKeeps ==
  ASSUME CleanupInv, NEW s \in CleanSessions, CloseOfTree(s)
  PROVE  CleanupInv'
<1>1. /\ job.at = "tree" /\ old' = old /\ did' = [did EXCEPT !.closed = @ \cup {s}] /\ job' = [job EXCEPT !.archive = @ \ {s}]
      /\ s \in job.archive
  BY DEF CloseOfTree, Closed
<1>2. /\ job' \in Jobs /\ job'.archive = job.archive \ {s} /\ job'.delete = job.delete /\ job'.skipped = job.skipped
      /\ job'.at = job.at /\ job'.deleted = job.deleted
  BY <1>1 DEF CleanupInv, Jobs
<1>3. did' \in Deeds /\ did'.closed = did.closed \cup {s} /\ did'.deleted = did.deleted BY <1>1 DEF CleanupInv, Deeds
<1> QED BY <1>1, <1>2, <1>3 DEF CleanupInv

\* A step that changes neither the job nor what it did.
LEMMA OthersKeep ==
  ASSUME CleanupInv, job' = job, did' = did, old' \subseteq old
  PROVE  CleanupInv'
BY DEF CleanupInv

LEMMA CleanupSteps ==
  ASSUME CleanupInv, [CleanupNext]_cleanupVars
  PROVE  CleanupInv'
<1>1. CASE PlanCleanup
  <2>1. /\ job.at = "none" /\ did' = did /\ old' = old
        /\ job' = [NoJob EXCEPT !.at = "archiving", !.skipped = {s \in Due : InUse(s)},
                     !.archive = {s \in Due : place[s] = "listed" /\ ~InUse(s)},
                     !.delete = {s \in Due : place[s] = "archived" /\ ~InUse(s)}]
    BY <1>1 DEF PlanCleanup
  <2>2. Due \subseteq CleanSessions BY DEF Due, CleanupInv
  <2>3. NoJob \in Jobs BY DEF NoJob, Jobs
  <2>4. /\ job' \in Jobs /\ job'.at = "archiving" /\ job'.skipped = {s \in Due : InUse(s)}
        /\ job'.archive \cup job'.delete \subseteq {s \in Due : ~InUse(s)}
    BY <2>1, <2>2, <2>3 DEF Jobs
  <2>5. did = Nothing BY <2>1 DEF CleanupInv
  <2> QED BY <2>1, <2>4, <2>5 DEF CleanupInv, Nothing
<1>2. CASE ArchiveOld
  <2>0. job.at = "archiving" BY <1>2 DEF ArchiveOld
  <2>1. CASE Movable(job.ready) /\ Moved(job.ready)
             /\ job' = [job EXCEPT !.at = "deleting", !.archived = job.ready, !.ready = {}]
             /\ did' = [did EXCEPT !.archived = job.ready]
    <3>1. old' \subseteq old BY <2>1 DEF Moved
    <3>2. /\ job' \in Jobs /\ job'.at = "deleting" /\ job'.archived = job.ready /\ job'.skipped = job.skipped
          /\ job'.archive = job.archive /\ job'.delete = job.delete
      BY <2>1 DEF CleanupInv, Jobs
    <3>3. did' \in Deeds /\ did'.archived = job.ready /\ did'.closed = did.closed
      <4>1. job.ready \in SUBSET CleanSessions BY DEF CleanupInv, Jobs
      <4> QED BY <2>1, <4>1 DEF CleanupInv, Deeds
    <3> QED BY <3>1, <3>2, <3>3 DEF CleanupInv
  <2>2. CASE job' = [job EXCEPT !.at = "failed"] /\ UNCHANGED <<place, old, did>>
    <3>1. /\ job' \in Jobs /\ job'.at = "failed" /\ job'.skipped = job.skipped
          /\ job'.archive = job.archive /\ job'.delete = job.delete
      BY <2>2 DEF CleanupInv, Jobs
    <3> QED BY <2>2, <3>1 DEF CleanupInv
  <2> QED BY <1>2, <2>1, <2>2 DEF ArchiveOld
<1>3. CASE DeleteOld
  <2>1. /\ job.at = "deleting" /\ did' = [did EXCEPT !.deleted = Deletable(job.ready)] /\ old' = old
        /\ job' = [job EXCEPT !.at = "reported", !.deleted = Deletable(job.ready)]
    BY <1>3 DEF DeleteOld, Reports
  <2>2. PICK d \in SUBSET CleanSessions : d = Deletable(job.ready) BY DEF Deletable, Placed
  <2>3. /\ job' \in Jobs /\ job'.at = "reported" /\ job'.skipped = job.skipped /\ job'.deleted = d
        /\ job'.archive = job.archive /\ job'.delete = job.delete /\ job'.archived = job.archived
    BY <2>1, <2>2 DEF CleanupInv, Jobs
  <2>4. did' \in Deeds /\ did'.deleted = d /\ did'.closed = did.closed /\ did'.archived = did.archived
    BY <2>1, <2>2 DEF CleanupInv, Deeds
  <2> QED BY <2>1, <2>3, <2>4 DEF CleanupInv
<1>4. CASE ArchiveTree
  <2>0. job.at = "tree" BY <1>4 DEF ArchiveTree
  <2>1. CASE Moved(job.archived) /\ job' = [job EXCEPT !.at = "reported"] /\ did' = [did EXCEPT !.archived = job.archived]
    <3>1. old' \subseteq old BY <2>1 DEF Moved
    <3>2. /\ job' \in Jobs /\ job'.at = "reported" /\ job'.archived = job.archived /\ job'.skipped = job.skipped
          /\ job'.archive = job.archive /\ job'.delete = job.delete /\ job'.deleted = job.deleted
      BY <2>1 DEF CleanupInv, Jobs
    <3>3. did' \in Deeds /\ did'.archived = job.archived /\ did'.closed = did.closed /\ did'.deleted = did.deleted
      <4>1. job.archived \in SUBSET CleanSessions BY DEF CleanupInv, Jobs
      <4> QED BY <2>1, <4>1 DEF CleanupInv, Deeds
    <3> QED BY <2>0, <3>1, <3>2, <3>3 DEF CleanupInv
  <2>2. CASE job' = [job EXCEPT !.at = "failed"] /\ UNCHANGED <<place, old, did>>
    <3>1. /\ job' \in Jobs /\ job'.at = "failed" /\ job'.skipped = job.skipped
          /\ job'.archive = job.archive /\ job'.delete = job.delete
      BY <2>2 DEF CleanupInv, Jobs
    <3> QED BY <2>2, <3>1 DEF CleanupInv
  <2> QED BY <1>4, <2>1, <2>2 DEF ArchiveTree
<1>5. CASE JobEnds
  <2>1. job' = NoJob /\ did' = Nothing /\ old' = old BY <1>5 DEF JobEnds
  <2> QED BY <2>1 DEF CleanupInv, NoJob, Nothing, Jobs, Deeds
<1>6. ASSUME NEW s \in CleanSessions, CloseToArchive(s) \/ CloseToDelete(s) PROVE CleanupInv'
  BY <1>6, CloseOldKeeps DEF CloseToArchive, CloseToDelete
<1>7. ASSUME NEW s \in CleanSessions, PlanTree(s) PROVE CleanupInv'
  <2>1. /\ job.at = "none" /\ did' = did /\ old' = old
        /\ job' = [NoJob EXCEPT !.at = "tree", !.archive = Candidates(s), !.archived = Candidates(s)]
    BY <1>7 DEF PlanTree
  <2>2. PICK c \in SUBSET CleanSessions : c = Candidates(s) BY DEF Candidates, Placed
  <2>3. NoJob \in Jobs BY DEF NoJob, Jobs
  <2>4. /\ job' \in Jobs /\ job'.at = "tree" /\ job'.skipped = {} /\ job'.deleted = {} /\ job'.delete = {}
    BY <2>1, <2>2, <2>3 DEF Jobs, NoJob
  <2>5. did = Nothing BY <2>1 DEF CleanupInv
  <2> QED BY <2>1, <2>4, <2>5 DEF CleanupInv, Nothing
<1>8. ASSUME NEW s \in CleanSessions, CloseOfTree(s) PROVE CleanupInv'
  BY <1>8, CloseOfTreeKeeps
<1>9. ASSUME NEW s \in CleanSessions, Work(s) \/ Rest(s) \/ Look(s) \/ Shelve(s) \/ Unshelve(s) \/ Erase(s) PROVE CleanupInv'
  <2>1. job' = job /\ did' = did /\ old' \subseteq old
    BY <1>9 DEF Work, Rest, Look, Shelve, Unshelve, Erase, Uses
  <2> QED BY <2>1, OthersKeep
<1>10. CASE UNCHANGED cleanupVars BY <1>10, OthersKeep DEF cleanupVars
<1> QED BY <1>1, <1>2, <1>3, <1>4, <1>5, <1>6, <1>7, <1>8, <1>9, <1>10 DEF CleanupNext

LEMMA CleanupInvIsTrue == CleanupInv => ReportIsTrue
BY DEF CleanupInv, ReportIsTrue

----------------------------------------------------------------------------
(* Pages of a history *)

\* The numbers of a set, in their order
IsListOf(l, A) == l \in Seq(Nat) /\ Range(l) = A /\ \A i, j \in DOMAIN l : i < j => l[i] < l[j]

InTheirOrder(l) == \A i, j \in DOMAIN l : i < j => l[i] < l[j]

LEMMA OrderedExists ==
  ASSUME NEW n \in Nat, NEW S \in SUBSET (1 .. n)
  PROVE  \E l \in SetToSeqs(S) : InTheirOrder(l)
<1> DEFINE Exists(m) == \A A \in SUBSET (1 .. m) : \E l \in SetToSeqs(A) : InTheirOrder(l)
<1> DEFINE Reached == {m \in Nat : Exists(m)}
<1>1. Exists(0)
  <2> SUFFICES ASSUME NEW A \in SUBSET (1 .. 0) PROVE \E l \in SetToSeqs(A) : InTheirOrder(l) OBVIOUS
  <2>0. A = {} OBVIOUS
  <2>1. A = {} /\ Cardinality(A) = 0 BY <2>0, FS_EmptySet
  <2>2. <<>> \in SetToSeqs(A) /\ InTheirOrder(<<>>)
    <3>1. <<>> \in [1 .. 0 -> A] /\ 1 .. 0 = {} BY <2>1
    <3> QED BY <2>1, <3>1 DEF SetToSeqs, InTheirOrder
  <2> QED BY <2>2
<1>2. ASSUME NEW m \in Nat, Exists(m) PROVE Exists(m + 1)
  <2> SUFFICES ASSUME NEW A \in SUBSET (1 .. m + 1) PROVE \E l \in SetToSeqs(A) : InTheirOrder(l) OBVIOUS
  <2>1. PICK B \in SUBSET (1 .. m) : B = A \ {m + 1}
    <3>1. \A x \in A : x # m + 1 => x \in 1 .. m OBVIOUS
    <3>2. A \ {m + 1} \in SUBSET (1 .. m) BY <3>1
    <3> QED BY <3>2
  <2>2. PICK l \in SetToSeqs(B) : InTheirOrder(l) BY <1>2
  <2> HIDE DEF Exists, Reached
  <2>3. CASE m + 1 \notin A
    <3>1. A = B BY <2>1, <2>3
    <3> QED BY <2>2, <3>1
  <2>4. CASE m + 1 \in A
    <3>1. IsFiniteSet(1 .. m) BY FS_Interval
    <3>2. IsFiniteSet(B) BY <3>1, FS_Subset
    <3>3. PICK c \in Nat : c = Cardinality(B) BY <3>2, FS_CardinalityType
    <3>4. A = B \cup {m + 1} /\ m + 1 \notin B BY <2>1, <2>4
    <3>5. Cardinality(A) = c + 1 BY <3>2, <3>3, <3>4, FS_AddElement
    <3>6. l \in [1 .. c -> B] /\ (\A i, j \in 1 .. c : i # j => l[i] # l[j]) /\ \A i, j \in 1 .. c : i < j => l[i] < l[j]
      BY <2>2, <3>3 DEF SetToSeqs, InTheirOrder
    <3>7. PICK g : g = [i \in 1 .. c + 1 |-> IF i = c + 1 THEN m + 1 ELSE l[i]] OBVIOUS
    <3>8. \A i \in 1 .. c + 1 : i = c + 1 \/ i \in 1 .. c OBVIOUS
    <3>9. ASSUME NEW i \in 1 .. c
          PROVE  i \in 1 .. c + 1 /\ i # c + 1 /\ g[i] = l[i] /\ l[i] \in B /\ l[i] < m + 1 /\ l[i] \in Nat
      <4>1. i \in 1 .. c + 1 /\ i # c + 1 BY <3>3
      <4>2. g[i] = l[i] BY <3>7, <4>1
      <4>3. l[i] \in B BY <3>6
      <4>4. l[i] \in 1 .. m BY <4>3
      <4> QED BY <4>1, <4>2, <4>3, <4>4
    <3>10. c + 1 \in 1 .. c + 1 /\ g[c + 1] = m + 1 BY <3>7
    <3>11. g \in [1 .. c + 1 -> A]
      <4>1. \A i \in 1 .. c + 1 : g[i] \in A BY <3>4, <3>8, <3>9, <3>10
      <4> QED BY <4>1, <3>7
    <3>12. ASSUME NEW i \in 1 .. c + 1, NEW j \in 1 .. c + 1, i < j PROVE g[i] < g[j]
      <4>1. i \in 1 .. c BY <3>12
      <4> QED BY <4>1, <3>6, <3>8, <3>9, <3>10, <3>12
    <3>13. ASSUME NEW i \in 1 .. c + 1, NEW j \in 1 .. c + 1, i # j PROVE g[i] # g[j]
      <4>1. g[i] \in Nat /\ g[j] \in Nat
        <5>1. \A x \in A : x \in Nat OBVIOUS
        <5> QED BY <5>1, <3>11
      <4>2. i < j \/ j < i BY <3>13
      <4> QED BY <4>1, <4>2, <3>12
    <3>14. g \in SetToSeqs(A) BY <3>5, <3>11, <3>13 DEF SetToSeqs
    <3>15. InTheirOrder(g) BY <3>11, <3>12 DEF InTheirOrder
    <3> QED BY <3>14, <3>15
  <2> QED BY <2>3, <2>4
<1>3. Nat \subseteq Reached
  <2> HIDE DEF Exists
  <2>1. 0 \in Reached /\ \A m \in Nat : m \in Reached => m + 1 \in Reached BY <1>1, <1>2
  <2> HIDE DEF Reached
  <2> QED BY <2>1, Inductive
<1>4. Exists(n)
  <2> HIDE DEF Exists
  <2> QED BY <1>3
<1> QED BY <1>4

LEMMA AscendingIs ==
  ASSUME NEW n \in Nat, NEW S \in SUBSET (1 .. n)
  PROVE  IsListOf(Ascending(S), S)
<1>1. \E l \in SetToSeqs(S) : \A i, j \in DOMAIN l : i < j => l[i] < l[j] BY OrderedExists DEF InTheirOrder
<1>2. PICK l \in SetToSeqs(S) : l = Ascending(S) /\ \A i, j \in DOMAIN l : i < j => l[i] < l[j] BY <1>1 DEF Ascending
<1>3. IsFiniteSet(S)
  <2>1. IsFiniteSet(1 .. n) BY FS_Interval
  <2> QED BY <2>1, FS_Subset
<1>4. PICK c \in Nat : c = Cardinality(S) BY <1>3, FS_CardinalityType
<1>5. l \in [1 .. c -> S] /\ \A i, j \in 1 .. c : i # j => l[i] # l[j] BY <1>2, <1>4 DEF SetToSeqs
<1>6. l \in Injection(1 .. c, S) BY <1>5 DEF Injection, IsInjective
<1>7. Cardinality(1 .. c) = c
  <2>1. Cardinality(1 .. c) = IF 1 > c THEN 0 ELSE c - 1 + 1 BY FS_Interval
  <2> QED BY <2>1
<1>8. l \in Surjection(1 .. c, S) BY <1>3, <1>4, <1>6, <1>7, FS_Injection
<1>9. Range(l) = S BY <1>5, <1>8 DEF Surjection, Range
<1>10. l \in Seq(Nat)
  <2>0. \A x \in S : x \in Nat OBVIOUS
  <2>1. \A i \in 1 .. c : l[i] \in Nat BY <2>0, <1>5
  <2>2. l \in [1 .. c -> Nat] BY <1>5, <2>1
  <2> QED BY <2>2
<1> QED BY <1>2, <1>9, <1>10 DEF IsListOf

\* There is one such list.
LEMMA ListsAgree ==
  ASSUME NEW A, NEW k, NEW l, IsListOf(k, A), IsListOf(l, A)
  PROVE  k = l
<1>1. PICK a \in Nat : a = Len(k) /\ DOMAIN k = 1 .. a BY DEF IsListOf
<1>2. PICK b \in Nat : b = Len(l) /\ DOMAIN l = 1 .. b BY DEF IsListOf
<1>3. /\ \A i \in 1 .. a : k[i] \in Nat /\ \E j \in 1 .. b : k[i] = l[j]
      /\ \A i \in 1 .. b : l[i] \in Nat /\ \E j \in 1 .. a : l[i] = k[j]
      /\ \A i, j \in 1 .. a : i < j => k[i] < k[j]
      /\ \A i, j \in 1 .. b : i < j => l[i] < l[j]
  <2>1. k \in Seq(Nat) /\ l \in Seq(Nat) /\ Range(k) = A /\ Range(l) = A BY DEF IsListOf
  <2>2. (\A i \in 1 .. a : k[i] \in Nat) /\ \A i \in 1 .. b : l[i] \in Nat BY <1>1, <1>2, <2>1
  <2>3. \A i \in 1 .. a : \E j \in 1 .. b : k[i] = l[j]
    <3> SUFFICES ASSUME NEW i \in 1 .. a PROVE \E j \in 1 .. b : k[i] = l[j] OBVIOUS
    <3>1. k[i] \in Range(k) BY <1>1 DEF Range
    <3>2. k[i] \in Range(l) BY <2>1, <3>1
    <3> QED BY <3>2, <1>2 DEF Range
  <2>4. \A i \in 1 .. b : \E j \in 1 .. a : l[i] = k[j]
    <3> SUFFICES ASSUME NEW i \in 1 .. b PROVE \E j \in 1 .. a : l[i] = k[j] OBVIOUS
    <3>1. l[i] \in Range(l) BY <1>2 DEF Range
    <3>2. l[i] \in Range(k) BY <2>1, <3>1
    <3> QED BY <3>2, <1>1 DEF Range
  <2>5. (\A i, j \in 1 .. a : i < j => k[i] < k[j]) /\ \A i, j \in 1 .. b : i < j => l[i] < l[j] BY <1>1, <1>2 DEF IsListOf
  <2> QED BY <2>2, <2>3, <2>4, <2>5
<1>4. ASSUME NEW i \in 1 .. a, \A h \in 1 .. a : h < i => h \in 1 .. b /\ k[h] = l[h] PROVE i \in 1 .. b /\ k[i] = l[i]
  <2>1. PICK j \in 1 .. b : k[i] = l[j] BY <1>3
  <2>2. j >= i
    <3> SUFFICES ASSUME j < i PROVE FALSE OBVIOUS
    <3>1. j \in 1 .. a OBVIOUS
    <3>2. k[j] = l[j] BY <3>1, <1>4
    <3>3. k[j] < k[i] BY <3>1, <1>3
    <3> QED BY <3>2, <3>3, <2>1, <1>3
  <2>3. i \in 1 .. b BY <2>2
  <2>4. l[i] \in Nat /\ l[j] \in Nat /\ (i = j \/ l[i] < l[j]) BY <2>2, <2>3, <1>3
  <2>5. PICK h \in 1 .. a : l[i] = k[h] BY <2>3, <1>3
  <2>6. h >= i
    <3> SUFFICES ASSUME h < i PROVE FALSE OBVIOUS
    <3>1. h \in 1 .. b /\ k[h] = l[h] BY <1>4
    <3>2. l[h] < l[i] BY <3>1, <2>3, <1>3
    <3> QED BY <3>1, <3>2, <2>5, <1>3
  <2>7. k[i] \in Nat /\ k[h] \in Nat /\ (i = h \/ k[i] < k[h]) BY <2>6, <1>3
  <2> QED BY <2>1, <2>3, <2>4, <2>5, <2>7
<1>5. \A i \in 1 .. a : i \in 1 .. b /\ k[i] = l[i]
  <2> DEFINE Wrong == {i \in 1 .. a : ~(i \in 1 .. b /\ k[i] = l[i])}
  <2> SUFFICES ASSUME Wrong # {} PROVE FALSE OBVIOUS
  <2>1. Wrong \in SUBSET Nat OBVIOUS
  <2> HIDE DEF Wrong
  <2>2. PICK i \in Wrong : \A h \in Wrong : i <= h BY <2>1, LeastExists
  <2> USE DEF Wrong
  <2>3. i \in 1 .. a OBVIOUS
  <2>4. ASSUME NEW h \in 1 .. a, h < i PROVE h \in 1 .. b /\ k[h] = l[h]
    <3>1. h \notin Wrong
      <4> HIDE DEF Wrong
      <4> QED BY <2>2, <2>3, <2>4
    <3> QED BY <3>1
  <2>5. i \in 1 .. b /\ k[i] = l[i]
    <3> HIDE DEF Wrong
    <3> QED BY <2>3, <2>4, <1>4
  <2> QED BY <2>5
<1>6. a = b
  <2>1. a <= b
    <3> SUFFICES ASSUME a > b PROVE FALSE OBVIOUS
    <3>1. a \in 1 .. a OBVIOUS
    <3>2. a \in 1 .. b BY <3>1, <1>5
    <3> QED BY <3>2
  <2>2. b <= a
    <3> SUFFICES ASSUME b > a PROVE FALSE OBVIOUS
    <3>1. b \in 1 .. b OBVIOUS
    <3>2. PICK j \in 1 .. a : l[b] = k[j] BY <3>1, <1>3
    <3>3. l[b] = l[j] /\ j \in 1 .. b /\ j < b BY <3>2, <1>5
    <3> QED BY <3>1, <3>3, <1>3
  <2> QED BY <2>1, <2>2
<1>7. k \in Seq(Nat) /\ l \in Seq(Nat) BY DEF IsListOf
<1>8. k \in [1 .. a -> Nat] /\ l \in [1 .. a -> Nat] BY <1>1, <1>2, <1>6, <1>7
<1>9. \A i \in 1 .. a : k[i] = l[i] BY <1>5
<1> QED BY ONLY <1>8, <1>9

LEMMA ListsJoin ==
  ASSUME NEW A, NEW B, NEW k, NEW l, IsListOf(k, A), IsListOf(l, B), \A x \in A : \A y \in B : x < y, NEW m, m = k \o l
  PROVE  IsListOf(m, A \cup B)
<1>0. k \in Seq(Nat) /\ l \in Seq(Nat) BY DEF IsListOf
<1>1. PICK a \in Nat : a = Len(k) BY <1>0
<1>2. PICK b \in Nat : b = Len(l) BY <1>0
<1>3. DOMAIN k = 1 .. a /\ DOMAIN l = 1 .. b BY <1>0, <1>1, <1>2
<1>4. m \in Seq(Nat) /\ Len(m) = a + b BY ONLY <1>0, <1>1, <1>2, m = k \o l
<1>5. DOMAIN m = 1 .. a + b BY <1>4
<1>6. ASSUME NEW i \in 1 .. a PROVE i \in 1 .. a + b /\ m[i] = k[i] /\ m[i] \in A
  <2>1. m[i] = k[i] BY <1>0, <1>1, <1>2
  <2>2. k[i] \in A BY <1>3 DEF IsListOf, Range
  <2>3. i \in 1 .. a + b OBVIOUS
  <2> QED BY ONLY <2>1, <2>2, <2>3
<1>7. ASSUME NEW i \in 1 .. a + b, i \notin 1 .. a PROVE i - a \in 1 .. b /\ m[i] = l[i - a] /\ m[i] \in B
  <2>1. PICK j \in 1 .. b : j = i - a /\ ~(i <= a)
    <3>1. i - a \in 1 .. b /\ ~(i <= a) BY <1>7
    <3> QED BY <3>1
  <2>2. m[i] = l[j]
    <3>1. i \in 1 .. Len(k) + Len(l) BY <1>1, <1>2
    <3> QED BY ONLY <3>1, <2>1, <1>0, <1>1, m = k \o l
  <2> QED BY <2>1, <2>2, <1>3 DEF IsListOf, Range
<1>8. Range(m) = A \cup B
  <2>1. \A x \in Range(m) : x \in A \cup B BY <1>5, <1>6, <1>7 DEF Range
  <2>2. \A x \in A : x \in Range(m)
    <3> SUFFICES ASSUME NEW x \in A PROVE x \in Range(m) OBVIOUS
    <3>1. PICK i \in 1 .. a : k[i] = x BY <1>3 DEF IsListOf, Range
    <3> QED BY <3>1, <1>5, <1>6 DEF Range
  <2>3. \A x \in B : x \in Range(m)
    <3> SUFFICES ASSUME NEW x \in B PROVE x \in Range(m) OBVIOUS
    <3>1. PICK i \in 1 .. b : l[i] = x BY <1>3 DEF IsListOf, Range
    <3>2. PICK j \in 1 .. a + b : j = a + i /\ j \notin 1 .. a /\ j - a = i
      <4>1. a + i \in 1 .. a + b /\ a + i \notin 1 .. a /\ (a + i) - a = i OBVIOUS
      <4> QED BY <4>1
    <3>3. m[j] = x BY <3>1, <3>2, <1>7
    <3> QED BY <3>2, <3>3, <1>5 DEF Range
  <2> QED BY <2>1, <2>2, <2>3
<1>9. ASSUME NEW i \in 1 .. a + b, NEW j \in 1 .. a + b, i < j PROVE m[i] < m[j]
  <2>1. CASE j \in 1 .. a
    <3>1. i \in 1 .. a BY <2>1, <1>9
    <3>2. k[i] < k[j] BY <2>1, <3>1, <1>3, <1>9 DEF IsListOf
    <3> QED BY <2>1, <3>1, <3>2, <1>6
  <2>2. CASE j \notin 1 .. a /\ i \in 1 .. a BY <2>2, <1>6, <1>7
  <2>3. CASE j \notin 1 .. a /\ i \notin 1 .. a
    <3>1. i - a \in 1 .. b /\ m[i] = l[i - a] /\ j - a \in 1 .. b /\ m[j] = l[j - a] BY <2>3, <1>7
    <3>2. i - a < j - a BY <1>9
    <3>3. l[i - a] < l[j - a] BY <3>1, <3>2, <1>3 DEF IsListOf
    <3> QED BY <3>1, <3>3
  <2> QED BY <2>1, <2>2, <2>3
<1> QED BY <1>4, <1>5, <1>8, <1>9 DEF IsListOf

IsTail(l, A, from, e) ==
  /\ IsListOf(e, {x \in A : x >= l[from]}) /\ l[from] \in A /\ e # <<>> /\ Head(e) = l[from]
  /\ Len(e) = (Len(l) - from) + 1
  /\ from = 1 => \A x \in A : x >= l[from]

LEMMA ListsSuffix ==
  ASSUME NEW A, NEW l, IsListOf(l, A), NEW from \in 1 .. Len(l), NEW e, e = SubSeq(l, from, Len(l))
  PROVE  IsTail(l, A, from, e)
<1>0. l \in Seq(Nat) BY DEF IsListOf
<1>1. PICK n \in Nat : n = Len(l) /\ DOMAIN l = 1 .. n BY <1>0
<1>2. PICK c \in Nat : c = (n - from) + 1 /\ c >= 1
  <2>1. (n - from) + 1 \in Nat /\ (n - from) + 1 >= 1 BY <1>1
  <2> QED BY <2>1
<1>3. ASSUME NEW i \in 1 .. c PROVE (from + i) - 1 \in 1 .. n /\ (from + i) - 1 >= from BY <1>1, <1>2
<1>4. e \in Seq(Nat) /\ Len(e) = c /\ \A i \in 1 .. c : e[i] = l[(from + i) - 1]
  <2>1. \A i \in 1 .. n : l[i] \in Nat BY <1>0, <1>1
  <2>2. from \in Nat /\ from \in 1 .. n BY <1>1
  <2> QED BY ONLY <2>1, <2>2, <1>0, <1>1, <1>2, <1>3, e = SubSeq(l, from, Len(l))
<1>5. DOMAIN e = 1 .. c BY <1>4
<1>6. from \in 1 .. n /\ l[from] \in A /\ \A i \in 1 .. n : l[i] \in A /\ l[i] \in Nat
  <2>1. \A i \in 1 .. n : l[i] \in Nat BY <1>0, <1>1
  <2>2. \A i \in 1 .. n : l[i] \in A BY <1>1 DEF IsListOf, Range
  <2>3. from \in 1 .. n BY <1>1
  <2> QED BY <2>1, <2>2, <2>3
<1>7. \A i \in 1 .. n : i >= from <=> l[i] >= l[from]
  <2> SUFFICES ASSUME NEW i \in 1 .. n PROVE i >= from <=> l[i] >= l[from] OBVIOUS
  <2>1. i = from \/ i < from \/ from < i BY <1>1
  <2>2. i < from => l[i] < l[from] BY <1>1 DEF IsListOf
  <2>3. from < i => l[from] < l[i] BY <1>1 DEF IsListOf
  <2>4. l[i] \in Nat /\ l[from] \in Nat BY <1>1, <1>6
  <2> QED BY <2>1, <2>2, <2>3, <2>4, <1>1
<1>8. Range(e) = {x \in A : x >= l[from]}
  <2>1. \A x \in Range(e) : x \in A /\ x >= l[from] BY <1>3, <1>4, <1>5, <1>6, <1>7 DEF Range
  <2>2. ASSUME NEW x \in A, x >= l[from] PROVE x \in Range(e)
    <3>1. PICK i \in 1 .. n : l[i] = x BY <1>1 DEF IsListOf, Range
    <3>2. i >= from BY <3>1, <2>2, <1>7
    <3>3. PICK j \in 1 .. c : (from + j) - 1 = i
      <4>1. (i - from) + 1 \in 1 .. c /\ (from + ((i - from) + 1)) - 1 = i BY <3>2, <1>1, <1>2
      <4> QED BY <4>1
    <3>4. e[j] = x BY <3>1, <3>3, <1>4
    <3> QED BY <3>4, <1>5 DEF Range
  <2> QED BY <2>1, <2>2
<1>9. ASSUME NEW i \in 1 .. c, NEW j \in 1 .. c, i < j PROVE e[i] < e[j]
  <2>1. PICK x \in 1 .. n : x = (from + i) - 1 BY <1>3
  <2>2. PICK y \in 1 .. n : y = (from + j) - 1 BY <1>3
  <2>3. x < y BY <2>1, <2>2, <1>9, <1>1
  <2>4. l[x] < l[y] BY <2>3, <1>1 DEF IsListOf
  <2> QED BY <2>1, <2>2, <2>4, <1>4
<1>10. IsListOf(e, {x \in A : x >= l[from]}) BY <1>4, <1>5, <1>8, <1>9 DEF IsListOf
<1>11. e # <<>> /\ Head(e) = l[from]
  <2>1. 1 \in 1 .. c /\ (from + 1) - 1 = from BY <1>1, <1>2
  <2>2. e[1] = l[from] BY <2>1, <1>4
  <2>3. Len(e) # 0 BY <1>2, <1>4
  <2>4. e # <<>> BY ONLY <2>3
  <2>5. e \in Seq(Nat) BY <1>4
  <2>6. Head(e) = e[1] BY ONLY <2>4, <2>5
  <2> QED BY <2>2, <2>4, <2>6
<1>12. ASSUME from = 1, NEW x \in A PROVE x >= l[from]
  <2>1. PICK i \in 1 .. n : l[i] = x BY <1>1 DEF IsListOf, Range
  <2> QED BY <2>1, <1>12, <1>7
<1>13. Len(e) = (Len(l) - from) + 1 BY <1>1, <1>2, <1>4
<1>14. from = 1 => \A x \in A : x >= l[from] BY <1>12
<1> QED BY ONLY <1>6, <1>10, <1>11, <1>13, <1>14 DEF IsTail

Found(messages, q) == {i \in 1 .. Len(messages) : Matches(messages[i], q)}
Viewed(v, M, B) ==
  /\ v.start \in 1 .. B /\ IsListOf(v.entries, {i \in M : i < B /\ i >= v.start})
  /\ ~v.more => \A i \in M : i < B => i >= v.start

LEMMA MatchingIs ==
  ASSUME NEW messages, Len(messages) \in Nat, NEW q
  PROVE  /\ Found(messages, q) \in SUBSET (1 .. Len(messages)) /\ Matching(messages, q) = Ascending(Found(messages, q))
         /\ Range(Matching(messages, q)) = Found(messages, q)
<1>1. Found(messages, q) \in SUBSET (1 .. Len(messages)) BY DEF Found
<1>2. Matching(messages, q) = Ascending(Found(messages, q)) BY DEF Matching, Found
<1>3. IsListOf(Ascending(Found(messages, q)), Found(messages, q)) BY <1>1, AscendingIs
<1> QED BY <1>1, <1>2, <1>3 DEF IsListOf

LEMMA PageSizeIs ==
  ASSUME NEW n \in Int
  PROVE  Clamp(n, 1, MaxEntered) \in Nat /\ Clamp(n, 1, MaxEntered) >= 1
BY HistoryAssumption DEF Clamp

LEMMA ViewIs ==
  ASSUME NEW messages, Len(messages) \in Nat, NEW q, q.limit \in Int, NEW B \in Nat \ {0}
  PROVE  Viewed(View(messages, q, B), Found(messages, q), B)
<1>1. PICK n \in Nat : n = Len(messages) OBVIOUS
<1>2. PICK M \in SUBSET (1 .. n) : M = Found(messages, q) /\ Range(Matching(messages, q)) = M BY <1>1, MatchingIs
<1>3. PICK W \in SUBSET (1 .. n) : W = {i \in M : i < B} OBVIOUS
<1>4. PICK l : l = Ascending(W) /\ IsListOf(l, W) BY AscendingIs
<1>5. l \in Seq(Nat) BY <1>4 DEF IsListOf
<1>6. PICK k \in Nat : k = Len(l) BY <1>5
<1>7. PICK lim \in Nat : lim = Clamp(q.limit, 1, MaxEntered) /\ lim >= 1 BY PageSizeIs
<1>8. PICK from : from = Clamp(k - lim + 1, 1, k + 1) OBVIOUS
<1>9. PICK e : e = SubSeq(l, from, k) OBVIOUS
<1>10. PICK v : v = View(messages, q, B) OBVIOUS
<1>11. /\ v.entries = e /\ v.start = (IF e = <<>> THEN B ELSE Head(e)) /\ (v.more <=> Len(e) < k)
  <2>1. v = [entries |-> e, start |-> IF e = <<>> THEN B ELSE Head(e), more |-> Len(e) < k]
    BY <1>2, <1>3, <1>4, <1>6, <1>7, <1>8, <1>9, <1>10 DEF View
  <2>2. PICK b : b = (Len(e) < k) OBVIOUS
  <2>3. v = [entries |-> e, start |-> IF e = <<>> THEN B ELSE Head(e), more |-> b] BY <2>1, <2>2
  <2>4. v.entries = e /\ v.start = (IF e = <<>> THEN B ELSE Head(e)) /\ v.more = b BY ONLY <2>3
  <2> QED BY <2>2, <2>4
<1>12. CASE k = 0
  <2>1. l = <<>> /\ W = {}
    <3>1. l = <<>> BY <1>5, <1>6, <1>12, EmptySeq
    <3> QED BY <3>1, <1>4 DEF IsListOf, Range
  <2>2. from = 1 BY <1>7, <1>8, <1>12 DEF Clamp
  <2>3. e = <<>> BY <2>1, <2>2, <1>9, <1>12
  <2>4. v.start = B /\ v.entries = <<>> BY <2>3, <1>11
  <2>5. {i \in M : i < B /\ i >= B} = {}
    <3>1. ASSUME NEW i \in M, i < B, i >= B PROVE FALSE
      <4>1. i \in 1 .. n /\ B \in Nat BY <1>2
      <4> QED BY ONLY <3>1, <4>1
    <3> QED BY <3>1
  <2>6. IsListOf(<<>>, {}) BY DEF IsListOf, Range
  <2>7. \A i \in M : ~(i < B) BY <2>1, <1>3
  <2>8. IsListOf(v.entries, {i \in M : i < B /\ i >= v.start}) BY <2>4, <2>5, <2>6
  <2>9. v.start \in 1 .. B BY <2>4
  <2>10. Viewed(v, M, B) BY ONLY <2>7, <2>8, <2>9 DEF Viewed
  <2> QED BY <2>10, <1>2, <1>10
<1>13. CASE k # 0
  <2>1. from \in 1 .. Len(l) BY <1>6, <1>7, <1>8, <1>13 DEF Clamp
  <2>2. e = SubSeq(l, from, Len(l)) BY <1>6, <1>9
  <2>3. PICK s : s = l[from] OBVIOUS
  <2>4. /\ IsListOf(e, {x \in W : x >= s}) /\ s \in W /\ e # <<>> /\ Head(e) = s
        /\ Len(e) = (k - from) + 1
        /\ from = 1 => \A x \in W : x >= s
    <3>1. /\ IsListOf(e, {x \in W : x >= l[from]}) /\ l[from] \in W /\ e # <<>> /\ Head(e) = l[from]
          /\ Len(e) = (Len(l) - from) + 1
          /\ from = 1 => \A x \in W : x >= l[from]
      <4>1. IsTail(l, W, from, e) BY ONLY <2>1, <2>2, <1>4, ListsSuffix
      <4> QED BY ONLY <4>1 DEF IsTail
    <3> QED BY <3>1, <2>3, <1>6
  <2>5. v.start = s /\ v.entries = e BY <2>4, <1>11
  <2>6. s \in 1 .. B BY <2>4, <1>3
  <2>7. {x \in W : x >= s} = {i \in M : i < B /\ i >= s} BY <1>3
  <2>8. ASSUME ~v.more, NEW i \in M, i < B PROVE i >= s
    <3>1. from = 1 BY <2>1, <2>4, <2>8, <1>6, <1>11
    <3> QED BY <3>1, <2>4, <2>8, <1>3
  <2> QED BY <2>4, <2>5, <2>6, <2>7, <2>8, <1>2, <1>10 DEF Viewed
<1> QED BY <1>12, <1>13

\* What one reader and the other have: the matches, and the messages, from where they are at.
ReadOK(messages, q, read) ==
  /\ read.total \in 0 .. Len(messages) /\ read.start \in 0 .. read.total + 1
  /\ read.start = 0 => read.entries = <<>>
  /\ read.start # 0 =>
       /\ IsListOf(read.entries, {i \in 1 .. read.total : Matches(messages[i], q) /\ i >= read.start})
       /\ ~read.more => \A i \in 1 .. read.total : Matches(messages[i], q) => i >= read.start

Numbers(from, before) == [i \in 1 .. (before - from) |-> from + i - 1]
LoadOK(messages, load) ==
  /\ load.total \in 0 .. Len(messages) /\ load.start \in 0 .. load.total
  /\ load.start = 0 => load.entries = <<>>
  /\ load.start # 0 =>
       /\ load.entries = Numbers(load.start, load.total + 1)
       /\ load.start = 1 \/ BeginsATurn(messages[load.start])
       /\ load.more = (load.start > 1)

HistoryInv ==
  /\ entered \in Seq(Messages) /\ query.limit \in Int
  /\ ReadOK(entered, query, reading) /\ LoadOK(entered, loaded)

LEMMA ReadsOn ==
  ASSUME NEW messages, Len(messages) \in Nat, NEW q, q.limit \in Int, NEW read, ReadOK(messages, q, read),
         NEW B, B = (IF read.start = 0 THEN Len(messages) + 1 ELSE read.start),
         NEW t, t = (IF read.start = 0 THEN Len(messages) ELSE read.total),
         NEW r, r = After(read, View(messages, q, B), t)
  PROVE  ReadOK(messages, q, r)
<1>1. PICK n \in Nat : n = Len(messages) OBVIOUS
<1>2. t \in 0 .. n /\ B \in 1 .. t + 1 /\ B \in Nat \ {0} BY <1>1 DEF ReadOK
<1>3. PICK M \in SUBSET (1 .. n) : M = Found(messages, q) BY <1>1 DEF Found
<1>4. \A i \in 1 .. n : i \in M <=> Matches(messages[i], q) BY <1>1, <1>3 DEF Found
<1>5. PICK v : v = View(messages, q, B) OBVIOUS
<1>6. Viewed(v, M, B) BY <1>2, <1>3, <1>5, ViewIs
<1>7. PICK s \in 1 .. B : s = v.start BY <1>6 DEF Viewed
<1>8. IsListOf(v.entries, {i \in M : i < B /\ i >= s}) /\ (~v.more => \A i \in M : i < B => i >= s) BY <1>6, <1>7 DEF Viewed
<1>9. IsListOf(read.entries, {i \in M : i <= t /\ i >= B})
  <2>1. CASE read.start = 0
    <3>1. read.entries = <<>> BY <2>1 DEF ReadOK
    <3>2. t = n /\ B = n + 1 BY <2>1, <1>1
    <3>3. {i \in M : i <= t /\ i >= B} = {}
      <4>1. ASSUME NEW i \in M, i >= n + 1 PROVE FALSE
        <5>1. i \in 1 .. n OBVIOUS
        <5> QED BY ONLY <4>1, <5>1, n \in Nat
      <4> QED BY <3>2, <4>1
    <3>4. IsListOf(<<>>, {}) BY DEF IsListOf, Range
    <3> QED BY <3>1, <3>3, <3>4
  <2>2. CASE read.start # 0
    <3>1. t = read.total /\ B = read.start BY <2>2
    <3>2. IsListOf(read.entries, {i \in 1 .. t : Matches(messages[i], q) /\ i >= B}) BY <2>2, <3>1 DEF ReadOK
    <3>3. {i \in 1 .. t : Matches(messages[i], q) /\ i >= B} = {i \in M : i <= t /\ i >= B}
      <4>1. \A i \in 1 .. t : i \in 1 .. n /\ i <= t BY <1>2
      <4>2. \A i \in M : i <= t => i \in 1 .. t BY <1>2
      <4> QED BY <4>1, <4>2, <1>4
    <3> QED BY <3>2, <3>3
  <2> QED BY <2>1, <2>2
<1>10. PICK e : e = v.entries \o read.entries OBVIOUS
<1>11. PICK X : X = {i \in M : i < B /\ i >= s} OBVIOUS
<1>12. PICK Y : Y = {i \in M : i <= t /\ i >= B} OBVIOUS
<1>13. \A x \in X : \A y \in Y : x < y BY <1>2, <1>11, <1>12
<1>14. IsListOf(v.entries, X) /\ IsListOf(read.entries, Y) BY <1>8, <1>9, <1>11, <1>12
<1>15. IsListOf(e, X \cup Y) BY ONLY <1>10, <1>13, <1>14, ListsJoin
<1>16. X \cup Y = {i \in 1 .. t : Matches(messages[i], q) /\ i >= s}
  <2>1. ASSUME NEW i \in X \cup Y PROVE i \in 1 .. t /\ Matches(messages[i], q) /\ i >= s
    <3>1. i \in M /\ i \in 1 .. n BY <2>1, <1>11, <1>12
    <3>2. i <= t /\ i >= s BY <3>1, <2>1, <1>2, <1>7, <1>11, <1>12
    <3> QED BY <3>1, <3>2, <1>2, <1>4
  <2>2. ASSUME NEW i \in 1 .. t, Matches(messages[i], q), i >= s PROVE i \in X \cup Y
    <3>1. i \in 1 .. n /\ i \in M BY <2>2, <1>2, <1>4
    <3>2. i < B \/ i >= B BY <1>2
    <3> QED BY <3>1, <3>2, <2>2, <1>2, <1>11, <1>12
  <2> QED BY <2>1, <2>2
<1>17. r.entries = e /\ r.start = s /\ r.more = v.more /\ r.total = t
  <2>1. r = After(read, v, t) BY <1>5
  <2>2. r.entries = v.entries \o read.entries /\ r.start = v.start /\ r.more = v.more /\ r.total = t BY ONLY <2>1 DEF After
  <2> QED BY <2>2, <1>7, <1>10
<1>18. ASSUME ~v.more, NEW i \in 1 .. t, Matches(messages[i], q) PROVE i >= s
  <2>1. i \in M /\ i \in 1 .. n BY <1>2, <1>4, <1>18
  <2>2. CASE i < B BY <2>1, <2>2, <1>8, <1>18
  <2>3. CASE i >= B BY <2>1, <2>3, <1>2, <1>7
  <2> QED BY <2>1, <2>2, <2>3, <1>2
<1>19. s \in 0 .. t + 1 /\ s # 0 BY <1>2, <1>7
<1> QED BY <1>1, <1>2, <1>15, <1>16, <1>17, <1>18, <1>19 DEF ReadOK

LEMMA SafeStartIs ==
  ASSUME NEW messages, Len(messages) \in Nat, NEW start \in Nat \ {0}
  PROVE  /\ SafeStart(messages, start) \in 1 .. start
         /\ SafeStart(messages, start) = 1 \/ BeginsATurn(messages[SafeStart(messages, start)])
<1>1. PICK P : P = {i \in 1 .. start : i <= Len(messages) /\ BeginsATurn(messages[i])} OBVIOUS
<1>2. PICK z : z = SafeStart(messages, start) OBVIOUS
<1>3. z = IF start = 1 \/ P = {} THEN 1 ELSE CHOOSE i \in P : \A j \in P : j <= i BY <1>1, <1>2 DEF SafeStart
<1>4. CASE start = 1 \/ P = {} BY <1>2, <1>3, <1>4
<1>5. CASE ~(start = 1 \/ P = {})
  <2>1. P \in SUBSET (0 .. start) /\ P # {} BY <1>1, <1>5
  <2>2. \E b \in P : \A i \in P : i <= b BY <2>1, LargestExists
  <2>3. z \in P BY <2>2, <1>3, <1>5
  <2> QED BY <2>3, <1>1, <1>2
<1> QED BY <1>4, <1>5

LEMMA NumbersJoin ==
  ASSUME NEW a \in Nat, NEW b \in Nat, NEW c \in Nat, a <= b, b <= c
  PROVE  Numbers(a, b) \o Numbers(b, c) = Numbers(a, c)
<1>1. PICK k \in Nat : k = b - a BY b - a \in Nat
<1>2. PICK m \in Nat : m = c - b BY c - b \in Nat
<1>3. PICK x : x = Numbers(a, b) OBVIOUS
<1>4. PICK y : y = Numbers(b, c) OBVIOUS
<1>5. PICK w : w = Numbers(a, c) OBVIOUS
<1>6. c - a = k + m BY <1>1, <1>2
<1>7. x = [i \in 1 .. k |-> a + i - 1] /\ y = [i \in 1 .. m |-> b + i - 1] /\ w = [i \in 1 .. k + m |-> a + i - 1]
  BY <1>1, <1>2, <1>3, <1>4, <1>5, <1>6 DEF Numbers
<1>8. x \in Seq(Int) /\ Len(x) = k /\ y \in Seq(Int) /\ Len(y) = m /\ w \in Seq(Int) /\ Len(w) = k + m
  <2>1. (\A i \in 1 .. k : a + i - 1 \in Int) /\ (\A i \in 1 .. m : b + i - 1 \in Int) /\ \A i \in 1 .. k + m : a + i - 1 \in Int
    OBVIOUS
  <2>2. x \in [1 .. k -> Int] /\ y \in [1 .. m -> Int] /\ w \in [1 .. k + m -> Int] BY <2>1, <1>7
  <2>3. DOMAIN x = 1 .. k /\ DOMAIN y = 1 .. m /\ DOMAIN w = 1 .. k + m BY <1>7
  <2> QED BY <2>2, <2>3
<1>9. PICK z : z = x \o y OBVIOUS
<1>10. z \in Seq(Int) /\ Len(z) = k + m
  <2>0. x \in Seq(Int) /\ y \in Seq(Int) BY <1>8
  <2>1. z \in Seq(Int) /\ Len(z) = Len(x) + Len(y) BY ONLY <2>0, <1>9
  <2> QED BY <2>1, <1>8
<1>11. ASSUME NEW i \in 1 .. k + m PROVE z[i] = w[i]
  <2>1. CASE i <= k
    <3>1. z[i] = x[i] BY <2>1, <1>8, <1>9
    <3> QED BY <2>1, <3>1, <1>7
  <2>2. CASE ~(i <= k)
    <3>1. PICK j \in 1 .. m : j = i - k
      <4>1. i - k \in 1 .. m BY <2>2
      <4> QED BY <4>1
    <3>2. z[i] = y[j]
      <4>0. x \in Seq(Int) /\ y \in Seq(Int) /\ Len(x) = k /\ Len(y) = m BY <1>8
      <4>1. i \in 1 .. Len(x) + Len(y) /\ ~(i <= Len(x)) /\ i - Len(x) = j BY <4>0, <2>2, <3>1
      <4>2. (x \o y)[i] = y[i - Len(x)] BY ONLY <4>1, <4>0
      <4> QED BY ONLY <4>1, <4>2, <1>9
    <3>3. y[j] = b + j - 1 /\ w[i] = a + i - 1 BY <1>7
    <3>4. b + j - 1 = a + i - 1 BY <3>1, <1>1
    <3> QED BY <3>2, <3>3, <3>4
  <2> QED BY <2>1, <2>2
<1>12. z = w BY ONLY <1>8, <1>10, <1>11
<1> QED BY <1>3, <1>4, <1>5, <1>9, <1>12

LEMMA LoadsOn ==
  ASSUME NEW messages, Len(messages) \in Nat, Len(messages) # 0, NEW limit \in Int, NEW load, LoadOK(messages, load), load.more,
         NEW B, B = (IF load.start = 0 THEN Len(messages) + 1 ELSE load.start),
         NEW t, t = (IF load.start = 0 THEN Len(messages) ELSE load.total),
         NEW r, r = After(load, Page(messages, limit, B), t)
  PROVE  LoadOK(messages, r)
<1>1. PICK n \in Nat : n = Len(messages) /\ n # 0 OBVIOUS
<1>2. load.start # 0 => load.start > 1 BY DEF LoadOK
<1>3. t \in 0 .. n /\ B \in 2 .. t + 1 BY <1>1, <1>2 DEF LoadOK
<1>4. PICK lim \in Nat : lim = Clamp(limit, 1, MaxEntered) /\ lim >= 1 BY PageSizeIs
<1>5. PICK a \in Nat \ {0} : a = Clamp(B - lim, 1, B) /\ a < B BY <1>3, <1>4 DEF Clamp
<1>6. PICK s \in 1 .. a : s = SafeStart(messages, a) /\ (s = 1 \/ BeginsATurn(messages[s])) BY SafeStartIs
<1>7. PICK v : v = Page(messages, limit, B) OBVIOUS
<1>8. v.entries = Numbers(s, B) /\ v.start = s /\ v.more = (s > 1) BY <1>4, <1>5, <1>6, <1>7 DEF Page, Numbers
<1>9. load.entries = Numbers(B, t + 1)
  <2>1. CASE load.start = 0
    <3>1. load.entries = <<>> /\ B = t + 1 BY <2>1 DEF LoadOK
    <3>2. B - (t + 1) = 0 BY <1>3, <3>1
    <3>3. Numbers(B, t + 1) = <<>> BY <1>3, <3>1, <3>2 DEF Numbers
    <3> QED BY <3>1, <3>3
  <2>2. CASE load.start # 0 BY <2>2 DEF LoadOK
  <2> QED BY <2>1, <2>2
<1>10. Numbers(s, B) \o Numbers(B, t + 1) = Numbers(s, t + 1)
  <2>0. n \in Nat /\ s \in 1 .. a /\ a \in Nat /\ a < B /\ t \in 0 .. n /\ B \in 2 .. t + 1 BY <1>3, <1>5
  <2>1. s \in Nat /\ B \in Nat /\ t + 1 \in Nat /\ s <= B /\ B <= t + 1 BY ONLY <2>0
  <2> QED BY ONLY <2>1, NumbersJoin
<1>11. r.entries = Numbers(s, t + 1) /\ r.start = s /\ r.more = (s > 1) /\ r.total = t
  <2>1. r = After(load, v, t) BY <1>7
  <2>2. r.entries = v.entries \o load.entries /\ r.start = v.start /\ r.more = v.more /\ r.total = t BY ONLY <2>1 DEF After
  <2> QED BY <2>2, <1>8, <1>9, <1>10
<1>12. s \in 0 .. t /\ s # 0 BY <1>3, <1>5
<1> QED BY <1>1, <1>3, <1>6, <1>11, <1>12 DEF LoadOK

LEMMA HistoryBegins ==
  ASSUME HistoryInit
  PROVE  HistoryInv
<1>1. entered = <<>> /\ query.limit \in Int /\ reading = Unread /\ loaded = Unread BY HistoryAssumption DEF HistoryInit
<1>2. PICK f : f = Unread OBVIOUS
<1>3. f.entries = <<>> /\ f.start = 0 /\ f.total = 0 BY <1>2 DEF Unread
<1>4. ReadOK(entered, query, f) /\ LoadOK(entered, f) BY <1>1, <1>3 DEF ReadOK, LoadOK
<1> QED BY <1>1, <1>2, <1>4 DEF HistoryInv

\* What was read stays so while the session goes on.
LEMMA GoesOnReading ==
  ASSUME NEW messages \in Seq(Messages), NEW m \in Messages, NEW q, NEW read, NEW load,
         ReadOK(messages, q, read), LoadOK(messages, load), NEW more, more = Append(messages, m)
  PROVE  ReadOK(more, q, read) /\ LoadOK(more, load) /\ more \in Seq(Messages)
<1>1. PICK n \in Nat : n = Len(messages) OBVIOUS
<1>2. more \in Seq(Messages) /\ Len(more) = n + 1 /\ \A i \in 1 .. n : more[i] = messages[i] BY <1>1
<1>3. read.total \in 0 .. n /\ load.total \in 0 .. n /\ load.start \in 0 .. n BY <1>1 DEF ReadOK, LoadOK
<1>4. \A i \in 1 .. read.total : more[i] = messages[i] BY <1>2, <1>3
<1>5. {i \in 1 .. read.total : Matches(more[i], q) /\ i >= read.start}
      = {i \in 1 .. read.total : Matches(messages[i], q) /\ i >= read.start} BY <1>4
<1>6. read.total \in 0 .. n + 1 /\ load.total \in 0 .. n + 1 BY <1>3
<1>7. ReadOK(more, q, read) BY <1>2, <1>4, <1>5, <1>6 DEF ReadOK
<1>8. load.start # 0 => more[load.start] = messages[load.start] BY <1>2, <1>3
<1>9. LoadOK(more, load) BY <1>2, <1>6, <1>8 DEF LoadOK
<1> QED BY <1>2, <1>7, <1>9

LEMMA HistorySteps ==
  ASSUME HistoryInv, [HistoryNext]_historyVars
  PROVE  HistoryInv'
<1>0. entered \in Seq(Messages) /\ query.limit \in Int /\ ReadOK(entered, query, reading) /\ LoadOK(entered, loaded)
      /\ Len(entered) \in Nat
  BY DEF HistoryInv
<1>1. ASSUME NEW m \in Messages, Append1(m) PROVE HistoryInv'
  <2>1. entered' = Append(entered, m) /\ query' = query /\ reading' = reading /\ loaded' = loaded BY <1>1 DEF Append1
  <2>2. PICK more : more = Append(entered, m) OBVIOUS
  <2>3. ReadOK(more, query, reading) /\ LoadOK(more, loaded) /\ more \in Seq(Messages) BY <1>0, <2>2, GoesOnReading
  <2> QED BY <1>0, <2>1, <2>2, <2>3 DEF HistoryInv
<1>2. CASE ReadTranscript
  <2>1. PICK B : B = Before(reading) OBVIOUS
  <2>2. PICK t : t = Total(reading) OBVIOUS
  <2>3. PICK r : r = After(reading, View(entered, query, B), t) OBVIOUS
  <2>4. reading' = r /\ entered' = entered /\ query' = query /\ loaded' = loaded BY <1>2, <2>1, <2>2, <2>3 DEF ReadTranscript
  <2>5. ReadOK(entered, query, r) BY <1>0, <2>1, <2>2, <2>3, ReadsOn DEF Before, Total
  <2> QED BY <1>0, <2>4, <2>5 DEF HistoryInv
<1>3. CASE LoadMessages
  <2>1. PICK B : B = Before(loaded) OBVIOUS
  <2>2. PICK t : t = Total(loaded) OBVIOUS
  <2>3. PICK r : r = After(loaded, Page(entered, query.limit, B), t) OBVIOUS
  <2>4. loaded' = r /\ entered' = entered /\ query' = query /\ reading' = reading /\ loaded.more /\ entered # <<>>
    BY <1>3, <2>1, <2>2, <2>3 DEF LoadMessages
  <2>5. Len(entered) # 0 BY <1>0, <2>4
  <2>6. LoadOK(entered, r) BY <1>0, <2>1, <2>2, <2>3, <2>4, <2>5, LoadsOn DEF Before, Total
  <2> QED BY <1>0, <2>4, <2>6 DEF HistoryInv
<1>4. CASE UNCHANGED historyVars BY <1>0, <1>4 DEF historyVars, HistoryInv
<1> QED BY <1>1, <1>2, <1>3, <1>4 DEF HistoryNext

LEMMA HistoryInvIsWhole ==
  ASSUME HistoryInv
  PROVE  PagesAreWhole
<1>0. entered \in Seq(Messages) /\ query.limit \in Int /\ ReadOK(entered, query, reading) /\ LoadOK(entered, loaded)
  BY DEF HistoryInv
<1>1. PICK there : there = Matching(SubSeq(entered, 1, reading.total), query) OBVIOUS
<1>2. ASSUME reading.start # 0
      PROVE  /\ reading.entries = Ascending({i \in Range(there) : i >= reading.start})
             /\ ~reading.more => reading.entries = there
  <2>1. PICK t \in Nat : t = reading.total /\ t <= Len(entered) BY <1>0 DEF ReadOK
  <2>2. PICK past : past = SubSeq(entered, 1, t) OBVIOUS
  <2>3. Len(past) = t /\ \A i \in 1 .. t : past[i] = entered[i] BY <1>0, <2>1, <2>2
  <2>4. PICK A \in SUBSET (1 .. t) : A = {i \in 1 .. t : Matches(entered[i], query)} OBVIOUS
  <2>5. Found(past, query) = A BY <2>3, <2>4 DEF Found
  <2>6. there = Ascending(A) /\ Range(there) = A BY <1>1, <2>1, <2>2, <2>3, <2>5, MatchingIs
  <2>7. PICK S \in SUBSET (1 .. t) : S = {i \in A : i >= reading.start} OBVIOUS
  <2>8. IsListOf(reading.entries, S)
    <3>1. S = {i \in 1 .. t : Matches(entered[i], query) /\ i >= reading.start} BY <2>4, <2>7
    <3> QED BY <3>1, <1>0, <1>2, <2>1 DEF ReadOK
  <2>9. IsListOf(Ascending(S), S) BY AscendingIs
  <2>10. reading.entries = Ascending(S) BY <2>8, <2>9, ListsAgree
  <2>11. ~reading.more => S = A BY <1>0, <1>2, <2>1, <2>4, <2>7 DEF ReadOK
  <2> QED BY <2>6, <2>7, <2>10, <2>11
<1>3. ASSUME loaded.start # 0
      PROVE  /\ loaded.entries = [i \in 1..(loaded.total - loaded.start + 1) |-> loaded.start + i - 1]
             /\ loaded.start = 1 \/ BeginsATurn(entered[loaded.start])
             /\ loaded.more = (loaded.start > 1)
  <2>1. loaded.entries = Numbers(loaded.start, loaded.total + 1) BY <1>0, <1>3 DEF LoadOK
  <2>2. (loaded.total + 1) - loaded.start = (loaded.total - loaded.start) + 1 BY <1>0 DEF LoadOK
  <2> QED BY <1>0, <1>3, <2>1, <2>2 DEF LoadOK, Numbers
<1> QED BY <1>1, <1>2, <1>3 DEF PagesAreWhole

----------------------------------------------------------------------------
(* The past is shown as it was *)

HistorySpec == HistoryInit /\ [][HistoryNext]_historyVars
TreeSpec == TreeInit /\ [][TreeNext]_treeVars
CleanupSpec == CleanupInit /\ [][CleanupNext]_cleanupVars

LEMMA PastSteps == MCSpec => HistorySpec /\ TreeSpec /\ CleanupSpec
<1>1. MCInit => HistoryInit /\ TreeInit /\ CleanupInit BY DEF MCInit
<1>2. [MCNext]_allVars => [HistoryNext]_historyVars /\ [TreeNext]_treeVars /\ [CleanupNext]_cleanupVars
  BY DEF MCNext, allVars
<1> QED BY <1>1, <1>2, PTL DEF MCSpec, HistorySpec, TreeSpec, CleanupSpec

\* A reader that pages back gets each message there was once, in order, or each that matches, and a
\* client whole turns, whatever the session appends meanwhile (subsessionTranscript.ts
\* buildTranscriptView, messagePaging.ts).
THEOREM PagesStayWhole == HistorySpec => []PagesAreWhole
<1>1. HistorySpec => []HistoryInv BY HistoryBegins, HistorySteps, PTL DEF HistorySpec
<1>2. QED BY <1>1, HistoryInvIsWhole, PTL

\* The list of a tree has each entry once, in pre-order and without gaps, and the path to the
\* leaf is one of parents, for every tree, whichever its children and however its parents run
\* (sessionTreeProjection.ts projectSessionTree, buildActivePath).
THEOREM TreesStayWhole == TreeSpec => []TreeIsWhole
<1>1. TreeSpec => []TreeInv BY TreeBegins, TreeSteps, PTL DEF TreeSpec
<1>2. QED BY <1>1, TreeInvIsWhole, PTL

\* A cleanup reports what it did, and what it says it skipped it left alone (sessionCleanup.ts,
\* sessionArchiveTree.ts, piSessionService.ts cleanup, archiveTree).
THEOREM ReportsStayTrue == CleanupSpec => []ReportIsTrue
<1>1. CleanupSpec => []CleanupInv BY CleanupBegins, CleanupSteps, PTL DEF CleanupSpec
<1>2. QED BY <1>1, CleanupInvIsTrue, PTL

\* The past is shown as it was: pages, trees and reports.
THEOREM HistoryStaysTrue == MCSpec => []HistoryIsTrue
<1>1. PagesAreWhole /\ TreeIsWhole /\ ReportIsTrue => HistoryIsTrue BY DEF HistoryIsTrue
<1>2. QED BY <1>1, PastSteps, PagesStayWhole, TreesStayWhole, ReportsStayTrue, PTL
=============================================================================
