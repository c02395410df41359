------------------------------ MODULE Packages --------------------------------
(* Installing, removing and updating Pi packages. Each mutation loads the      *)
(* settings file of the active agent profile into a settings manager of its    *)
(* own, changes that copy and writes it back, so two that overlap would lose   *)
(* one of the changes: a queue runs them one at a time.                        *)
EXTENDS Naturals, Sequences

CONSTANTS Mutators,      \* requests
          Packs,         \* packages
          MaxMutations   \* bound: mutations asked for

VARIABLES persisted,    \* packages in the settings file
          mutationQueue,\* mutations in the order they were asked for
          mutation,     \* [at, does, pack, copy] of each request
          told,         \* for each package, what its last mutation was acknowledged to do
          mutations

packageVars == <<persisted, mutationQueue, mutation, told, mutations>>

NoMutation == [at |-> "idle", does |-> "none", pack |-> "none", copy |-> {}]

\* install, remove and update: enqueueMutation.
AskMutation(r) ==
  /\ mutation[r].at = "idle" /\ mutations < MaxMutations
  /\ mutations' = mutations + 1
  /\ mutationQueue' = Append(mutationQueue, r)
  /\ \E does \in {"install", "remove", "update"}, p \in Packs :
       mutation' = [mutation EXCEPT ![r] = [NoMutation EXCEPT !.at = "queued", !.does = does, !.pack = p]]
  /\ UNCHANGED <<persisted, told>>

\* A variant that breaks PackagesAreKept: a mutation starts when it is asked for.
AnyInLine(r) == mutation[r].at = "queued"

FirstInLine(r) == Head(mutationQueue) = r

\* requireActiveAgentProfile, then a service whose settings manager loads the file.
BeginMutation(r) ==
  /\ mutation[r].at = "queued" /\ FirstInLine(r)
  /\ mutation' = [mutation EXCEPT ![r].at = "loaded", ![r].copy = persisted]
  /\ UNCHANGED <<persisted, mutationQueue, told, mutations>>

\* The first in line leaves.
Leaves == Tail(mutationQueue)

\* The tail of the queue goes on whether the mutation succeeds or not.
MutationFails(r) ==
  /\ mutation[r].at \in {"queued", "loaded", "changed"} /\ FirstInLine(r)
  /\ mutation' = [mutation EXCEPT ![r] = NoMutation]
  /\ mutationQueue' = Leaves
  /\ told' = [told EXCEPT ![mutation[r].pack] = IF mutation[r].at = "queued" THEN @ ELSE "unknown"]
  /\ UNCHANGED <<persisted, mutations>>

\* installAndPersist and removeAndPersist change the copy when their work is done.
ChangeCopy(r) ==
  /\ mutation[r].at = "loaded"
  /\ mutation' = [mutation EXCEPT ![r].at = "changed",
       ![r].copy = CASE mutation[r].does = "install" -> @ \union {mutation[r].pack}
                     [] mutation[r].does = "remove" -> @ \ {mutation[r].pack}
                     [] OTHER -> @]
  /\ UNCHANGED <<persisted, mutationQueue, told, mutations>>

\* A variant that breaks PackagesAreKept: the answer does not wait for the settings.
FlushLater(r) == UNCHANGED persisted

Flush(r) == persisted' = mutation[r].copy

FlushSettings(r) ==
  /\ mutation[r].at = "changed"
  /\ IF mutation[r].does = "update" THEN UNCHANGED persisted ELSE Flush(r)
  /\ told' = [told EXCEPT ![mutation[r].pack] = IF mutation[r].does = "update" THEN @ ELSE mutation[r].does]
  /\ mutation' = [mutation EXCEPT ![r] = NoMutation]
  /\ mutationQueue' = Leaves
  /\ UNCHANGED mutations

PackagesInit ==
  /\ persisted = {} /\ mutationQueue = <<>> /\ mutations = 0
  /\ mutation = [r \in Mutators |-> NoMutation]
  /\ told = [p \in Packs |-> "unknown"]

PackagesNext ==
  \E r \in Mutators :
    AskMutation(r) \/ BeginMutation(r) \/ MutationFails(r) \/ ChangeCopy(r) \/ FlushSettings(r)

------------------------------------------------------------------------------

\* A package whose last mutation was acknowledged is, or is not, in the settings file as that
\* mutation said, whatever the mutations of other packages wrote since.
PackagesAreKept ==
  \A p \in Packs : /\ told[p] = "install" => p \in persisted
                   /\ told[p] = "remove" => p \notin persisted
=============================================================================
