---------------------------- MODULE SessionEntries ----------------------------
(* What writes entries into one session: prompts, model and thinking changes,  *)
(* and names. A tree navigation moves the leaf that entries hang from, so      *)
(* nothing may be written while it runs; work that holds the session counts as *)
(* a mutation and keeps navigation and reload out, but the generation of a     *)
(* name is not counted: it takes seconds, outlives the turn that asked for it, *)
(* and ends in a session object that may navigate, be named or be closed.      *)
EXTENDS Naturals, FiniteSets

CONSTANTS Askers,      \* requests that change the model
          MaxObjects,  \* bound: session objects opened one after the other
          MaxEntries   \* bound: entries asked for

ASSUME EntriesBounds == MaxObjects \in Nat /\ MaxEntries \in Nat

Objects == 1 .. MaxObjects

VARIABLES current,    \* the object in the active map, 0 for none
          opened,     \* how many objects there have been
          name,       \* sessionName of each object: "none", "given" or "made"
          prompted,   \* objects with messages
          turn,       \* objects whose session.prompt runs
          making,     \* generations of a name under way, of each object
          postponed,  \* deferredGeneratedSessionNames
          treeBusy,   \* treeNavigations
          asking,     \* where each request is: "idle", "reloads" or "sets"
          kept,       \* the session object it holds
          appended,   \* how many entries each object wrote
          asked       \* how many entries were asked for

entriesVars == <<current, opened, name, prompted, turn, making, postponed, treeBusy, asking, kept, appended, asked>>
naming == <<name, making, postponed>>
modelAsks == <<asking, kept>>

SessionMutates(o) == o \in turn \/ \E a \in Askers : asking[a] = "sets" /\ kept[a] = o

SessionIsBusy(o) == o \in treeBusy \/ SessionMutates(o)

Written(o) == appended' = [appended EXCEPT ![o] = @ + 1]

Wanted == asked < MaxEntries /\ asked' = asked + 1

\* A variant that breaks EntriesAreGuarded: a generated name is set whatever the session does by then
ApplyNameAtOnce(o) ==
  IF name[o] # "none" THEN UNCHANGED <<name, postponed, appended>>
  ELSE name' = [name EXCEPT ![o] = "made"] /\ Written(o) /\ UNCHANGED postponed

\* A variant that breaks EntriesAreGuarded: whether the session has a name was checked when the generation began
ApplyNameChecked(o) ==
  IF o \in treeBusy THEN postponed' = postponed \union {o} /\ UNCHANGED <<name, appended>>
  ELSE name' = [name EXCEPT ![o] = "made"] /\ Written(o) /\ UNCHANGED postponed

\* applyGeneratedSessionName: a name somebody gave stays, and a navigation is not disturbed.
ApplyName(o) ==
  CASE name[o] # "none" -> UNCHANGED <<name, postponed, appended>>
    [] name[o] = "none" /\ o \in treeBusy ->
         postponed' = postponed \union {o} /\ UNCHANGED <<name, appended>>
    [] OTHER -> name' = [name EXCEPT ![o] = "made"] /\ Written(o) /\ UNCHANGED postponed

OpenObject ==
  /\ current = 0 /\ opened < MaxObjects
  /\ opened' = opened + 1 /\ current' = opened + 1
  /\ \E n \in {"none", "given", "made"} : name' = [name EXCEPT ![opened + 1] = n]
  /\ UNCHANGED <<prompted, turn, making, postponed, treeBusy, modelAsks, appended, asked>>

\* stop and archive close the object whatever it does; reload asks that it is idle.
CloseObject ==
  /\ current # 0
  /\ current' = 0
  /\ turn' = turn \ {current}
  /\ UNCHANGED <<opened, naming, prompted, treeBusy, modelAsks, appended, asked>>

\* prompt: maybeGenerateSessionName, then submitPrompt.
NeedsName(o) == name[o] = "none" /\ o \notin prompted /\ o \notin turn

SendPrompt ==
  /\ current # 0 /\ current \notin treeBusy \union turn /\ Wanted
  /\ turn' = turn \union {current}
  /\ \/ ~NeedsName(current) /\ UNCHANGED naming
     \/ NeedsName(current) /\ making' = [making EXCEPT ![current] = @ + 1] /\ UNCHANGED <<name, postponed>>
  /\ UNCHANGED <<current, opened, prompted, treeBusy, modelAsks, appended>>

\* The first line of a relay names the session without a model.
SendRelayPrompt ==
  /\ current # 0 /\ current \notin treeBusy \union turn /\ Wanted
  /\ NeedsName(current) /\ ApplyName(current)
  /\ turn' = turn \union {current}
  /\ UNCHANGED <<current, opened, prompted, making, treeBusy, modelAsks>>

\* session.prompt writes the messages of the turn, or fails before the first.
PromptWrites(o) ==
  /\ o \in turn
  /\ turn' = turn \ {o}
  /\ \/ prompted' = prompted \union {o} /\ Written(o)
     \/ UNCHANGED <<prompted, appended>>
  /\ UNCHANGED <<current, opened, naming, treeBusy, modelAsks, asked>>

\* generateShortSessionName settles, with a title or with the first words of the prompt, if
\* it has any.
NameIsMade(o) ==
  /\ making[o] > 0
  /\ making' = [making EXCEPT ![o] = @ - 1]
  /\ ApplyName(o) \/ UNCHANGED <<name, postponed, appended>>
  /\ UNCHANGED <<current, opened, prompted, turn, treeBusy, modelAsks, asked>>

\* /name, which like every command is refused during a navigation.
GiveName ==
  /\ current # 0 /\ current \notin treeBusy /\ Wanted
  /\ name' = [name EXCEPT ![current] = "given"] /\ Written(current)
  /\ UNCHANGED <<current, opened, prompted, turn, making, postponed, treeBusy, modelAsks>>

SetThinkingLevel ==
  /\ current # 0 /\ current \notin treeBusy /\ Wanted
  /\ Written(current)
  /\ UNCHANGED <<current, opened, naming, prompted, turn, treeBusy, modelAsks>>

\* cycleModel begins its mutation at once; setModel reads the configuration first.
CycleModel(a) ==
  /\ asking[a] = "idle" /\ current # 0 /\ current \notin treeBusy /\ Wanted
  /\ asking' = [asking EXCEPT ![a] = "sets"] /\ kept' = [kept EXCEPT ![a] = current]
  /\ UNCHANGED <<current, opened, naming, prompted, turn, treeBusy, appended>>

AskModel(a) ==
  /\ asking[a] = "idle" /\ current # 0 /\ current \notin treeBusy /\ Wanted
  /\ asking' = [asking EXCEPT ![a] = "reloads"] /\ kept' = [kept EXCEPT ![a] = current]
  /\ UNCHANGED <<current, opened, naming, prompted, turn, treeBusy, appended>>

\* A variant that breaks EntriesAreGuarded: the check before the configuration was read is enough
MayMutateOnceChecked(o) == o \in Objects

MayMutate(o) == o \notin treeBusy

\* After the await the session is asserted again, and the model may not exist.
ConfigReloaded(a) ==
  /\ asking[a] = "reloads"
  /\ \/ MayMutate(kept[a]) /\ asking' = [asking EXCEPT ![a] = "sets"]
     \/ asking' = [asking EXCEPT ![a] = "idle"]
  /\ UNCHANGED <<current, opened, naming, prompted, turn, treeBusy, kept, appended, asked>>

ModelIsSet(a) ==
  /\ asking[a] = "sets"
  /\ asking' = [asking EXCEPT ![a] = "idle"]
  /\ Written(kept[a]) \/ UNCHANGED appended
  /\ UNCHANGED <<current, opened, naming, prompted, turn, treeBusy, kept, asked>>

BeginNavigation ==
  /\ current # 0 /\ ~SessionIsBusy(current) /\ Wanted
  /\ treeBusy' = treeBusy \union {current}
  /\ UNCHANGED <<current, opened, naming, prompted, turn, modelAsks, appended>>

\* A variant that breaks EntriesAreGuarded: what waited for the navigation is forgotten
FlushNothing(o) ==
  /\ postponed' = postponed \ {o}
  /\ UNCHANGED <<name, appended>>

\* The finally of navigateTree: what waited is done, or dropped with a closed object.
FlushDeferred(o) ==
  /\ postponed' = postponed \ {o}
  /\ IF o \in postponed /\ o = current /\ name[o] = "none"
     THEN name' = [name EXCEPT ![o] = "made"] /\ Written(o)
     ELSE UNCHANGED <<name, appended>>

EndNavigation(o) ==
  /\ o \in treeBusy
  /\ treeBusy' = treeBusy \ {o}
  /\ FlushDeferred(o)
  /\ UNCHANGED <<current, opened, prompted, turn, making, modelAsks, asked>>

EntriesInit ==
  /\ current = 0 /\ opened = 0 /\ asked = 0
  /\ name = [o \in Objects |-> "none"]
  /\ prompted = {} /\ turn = {} /\ postponed = {} /\ treeBusy = {}
  /\ making = [o \in Objects |-> 0] /\ appended = [o \in Objects |-> 0]
  /\ asking = [a \in Askers |-> "idle"] /\ kept = [a \in Askers |-> 0]

EntriesNext ==
  \/ OpenObject \/ CloseObject \/ SendPrompt \/ SendRelayPrompt
  \/ GiveName \/ SetThinkingLevel \/ BeginNavigation
  \/ \E o \in Objects : PromptWrites(o) \/ NameIsMade(o) \/ EndNavigation(o)
  \/ \E a \in Askers : CycleModel(a) \/ AskModel(a) \/ ConfigReloaded(a) \/ ModelIsSet(a)

\* A generation of a name has a timeout of ten seconds, and a navigation settles.
EntriesFairness ==
  \A o \in Objects : WF_entriesVars(NameIsMade(o)) /\ WF_entriesVars(EndNavigation(o))

\* While a navigation moves the leaf, the session object writes no entry: no turn, no model change
\* whose request waited for the configuration, and no name whose generation ended meanwhile.
EntriesStandStill ==
  [][\A o \in Objects : o \in treeBusy /\ o \in treeBusy' => appended'[o] = appended[o]]_entriesVars

\* A generation that was under way when somebody named the session does not replace that name.
GivenNamesStay == [][\A o \in Objects : opened >= o /\ name[o] = "given" => name'[o] = "given"]_entriesVars

\* A name that came during a navigation is not lost with it: once it no longer waits, the
\* session has one, unless it was closed.
PutOffIsDone == [][\A o \in postponed \ postponed' : o # current \/ name'[o] # "none"]_entriesVars

\* Nothing writes behind a navigation, no name replaces one that was given, and none is lost
\* (piSessionService.ts applyGeneratedSessionName, flushDeferredTreeNavigationWork, setModel).
EntriesAreGuarded == EntriesStandStill /\ GivenNamesStay /\ PutOffIsDone
=============================================================================
