------------------------------ MODULE Machines ------------------------------
(* The registry of remote machines (machineStore.ts), the cache of their health *)
(* (machineService.ts) and the requests to them (machineClient.ts). A change of  *)
(* the registry reads the whole file and writes the whole file back; requests    *)
(* overlap. projectStore.ts keeps the projects the same way.                     *)
EXTENDS Naturals, FiniteSets

CONSTANTS MachineIds,
          Users,       \* changes at a time
          MaxRevisions \* bound: versions of one machine's record

ASSUME MachinesAssumption == MaxRevisions \in Nat \ {0}

VARIABLES listed,  \* the file: each machine's version, 0 if it is not there
          torn,    \* the file is being written, or the process died while it was
          change,  \* per user: the change under way: [at, id, read, kind]
          probe,   \* the health request under way: [at, id, version, late]
          cache,   \* per machine: the version the cached health is of, 0 if there is none, and
                   \* whether a change overlapped the request it came from
          known,   \* history: the version last acknowledged, Removed in the end
          lapped,  \* history: machines whose change overlapped another change
          deaths

machineVars == <<listed, torn, change, probe, cache, known, lapped, deaths>>

NoChange == [at |-> "none", id |-> CHOOSE m \in MachineIds : TRUE, read |-> [m \in MachineIds |-> 0], kind |-> "none"]
NoProbe == [at |-> "none", id |-> CHOOSE m \in MachineIds : TRUE, version |-> 0, late |-> FALSE]
Removed == MaxRevisions + 1
NotCached == [version |-> 0, late |-> FALSE]

\* The version the file should have of a machine last acknowledged at one.
InFile(version) == IF version = Removed THEN 0 ELSE version

\* Mutant: whatever cannot be read is no file.
ReadAnything == TRUE

\* read: no file means no machines, a file that does not parse is an error.
CanRead == ~torn

\* Two changes overlap if one reads before the other has written.
Overlap(u) ==
  LET others == {v \in Users \ {u} : change[v].at # "none"} IN
  lapped' = IF others = {} THEN lapped ELSE lapped \union {change[v].id : v \in others} \union {change'[u].id}

\* add, update and remove: what is there is read; update and remove look for the machine,
\* and an added one has a new id.
BeginChange(u, m, kind) ==
  /\ change[u].at = "none"
  /\ CanRead
  /\ LET read == IF torn THEN [n \in MachineIds |-> 0] ELSE listed IN
     /\ CASE kind = "add"    -> known[m] = 0 /\ \A v \in Users : change[v].id # m \/ change[v] = NoChange
          [] kind = "update" -> read[m] \in 1 .. MaxRevisions - 1
          [] kind = "remove" -> read[m] > 0
     /\ change' = [change EXCEPT ![u] = [at |-> "read", id |-> m, read |-> read, kind |-> kind]]
  /\ Overlap(u)
  /\ UNCHANGED <<listed, torn, probe, cache, known, deaths>>

\* What is written back.
Changed(c) ==
  [c.read EXCEPT ![c.id] = CASE c.kind = "add"    -> 1
                             [] c.kind = "update" -> @ + 1
                             [] c.kind = "remove" -> 0]

\* writeFile: the file is cut first, and then filled.
BeginWrite(u) ==
  /\ change[u].at = "read"
  /\ change' = [change EXCEPT ![u].at = "writes"]
  /\ torn' = TRUE
  /\ UNCHANGED <<listed, probe, cache, known, lapped, deaths>>

\* Mutant: the caches keep what they have.
KeepsCached(m) == cache' = cache

\* healthCache.delete and runtimeCache.delete; a request under way is not stopped.
Uncached(m) == cache' = [cache EXCEPT ![m] = NotCached]

\* The file is written, the caches are emptied and the change is acknowledged.
EndWrite(u) ==
  LET m == change[u].id IN
  /\ change[u].at = "writes"
  /\ listed' = Changed(change[u])
  /\ torn' = \E v \in Users \ {u} : change[v].at = "writes"
  /\ known' = [known EXCEPT ![m] = IF change[u].kind = "remove" THEN Removed ELSE listed'[m]]
  /\ IF change[u].kind = "add" THEN UNCHANGED cache ELSE Uncached(m)
  /\ probe' = IF probe # NoProbe /\ probe.id = m THEN [probe EXCEPT !.late = TRUE] ELSE probe
  /\ change' = [change EXCEPT ![u] = NoChange]
  /\ UNCHANGED <<lapped, deaths>>

\* health and runtime: a machine whose health is not cached is looked up and asked.
BeginProbe(m) ==
  /\ probe = NoProbe
  /\ cache[m] = NotCached
  /\ ~torn /\ listed[m] > 0
  /\ probe' = [at |-> "asks", id |-> m, version |-> listed[m], late |-> FALSE]
  /\ UNCHANGED <<listed, torn, change, cache, known, lapped, deaths>>

\* It answers, or an error or the timeout is the answer; either is cached.
EndProbe ==
  /\ probe.at = "asks"
  /\ cache' = [cache EXCEPT ![probe.id] = [version |-> probe.version, late |-> probe.late]]
  /\ probe' = NoProbe
  /\ UNCHANGED <<listed, torn, change, known, lapped, deaths>>

\* Five seconds later.
CacheExpires(m) ==
  /\ cache[m] # NotCached
  /\ cache' = [cache EXCEPT ![m] = NotCached]
  /\ UNCHANGED <<listed, torn, change, probe, known, lapped, deaths>>

\* The process dies; a file that was being written stays torn.
ServerDies ==
  /\ deaths < 1 /\ deaths' = deaths + 1
  /\ change' = [u \in Users |-> NoChange] /\ probe' = NoProbe
  /\ cache' = [m \in MachineIds |-> NotCached]
  /\ lapped' = lapped \union {change[u].id : u \in {v \in Users : change[v].at # "none"}}
  /\ UNCHANGED <<listed, torn, known>>

MachinesInit ==
  /\ listed = [m \in MachineIds |-> 0] /\ torn = FALSE
  /\ change = [u \in Users |-> NoChange] /\ probe = NoProbe
  /\ cache = [m \in MachineIds |-> NotCached]
  /\ known = [m \in MachineIds |-> 0] /\ lapped = {} /\ deaths = 0

MachinesNext ==
  \/ \E u \in Users :
       \/ \E m \in MachineIds, kind \in {"add", "update", "remove"} : BeginChange(u, m, kind)
       \/ BeginWrite(u) \/ EndWrite(u)
  \/ \E m \in MachineIds : BeginProbe(m) \/ CacheExpires(m)
  \/ EndProbe
  \/ ServerDies

------------------------------------------------------------------------------

\* Health that is shown for a machine is of its present address, unless the request it
\* came from was under way when the address changed (machineService.ts update, remove).
CachedIsPresent ==
  \A m \in MachineIds :
    cache[m] # NotCached /\ ~cache[m].late /\ m \notin lapped => cache[m].version = known[m]

\* An acknowledged change is in the file, unless another change overlapped it; a file
\* that a death left torn is not taken for an empty one and written over
\* (machineStore.ts, projectStore.ts read).
AcknowledgedIsListed ==
  \A m \in MachineIds : m \notin lapped => torn \/ listed[m] = InFile(known[m])
==============================================================================
