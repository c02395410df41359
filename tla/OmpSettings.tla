----------------------------- MODULE OmpSettings ------------------------------
(* GET and PUT /api/omp/config: the settings are OMP's, reached through its    *)
(* command line. A write reads the settings with their schema, checks every    *)
(* value, then sets one key after the other, and any of those calls may fail.  *)
(* The schema is read from OMP's package, which an update replaces at any      *)
(* time, and cached under the file's modification time.                        *)
EXTENDS Naturals, FiniteSets

CONSTANTS Writers,
          SettingKeys,
          MaxUpdates,  \* bound: updates of the OMP package
          MaxRequests  \* bound: reads and writes

ASSUME UpdatesAssumption == MaxUpdates \in Nat

Versions == 0 .. MaxUpdates
Absent == MaxUpdates + 1

VARIABLES package,     \* version, and modification time, of the schema file
          schemaCache, \* [mtime, content] of the cached entries
          at,          \* where each request is
          wanted,      \* keys a write sets, none for a read
          invalid,     \* those whose value the schema of a version does not allow
          seen,        \* [mtime, content] as the request found them
          setKeys,     \* keys a write has set
          rounds       \* how many requests there were

ompSettingsVars == <<package, schemaCache, at, wanted, invalid, seen, setKeys, rounds>>
request == <<wanted, invalid>>

NoSchema == [mtime |-> Absent, content |-> Absent]

Resting == {"idle", "read", "refused", "failed", "answered"}

Step(w, from, to) == at[w] = from /\ at' = [at EXCEPT ![w] = to]

BeginRequest(w) ==
  /\ at[w] \in Resting /\ rounds < MaxRequests
  /\ rounds' = rounds + 1
  /\ at' = [at EXCEPT ![w] = "lists"]
  /\ \E ks \in SUBSET SettingKeys, vs \in SUBSET Versions :
       wanted' = [wanted EXCEPT ![w] = ks] /\ invalid' = [invalid EXCEPT ![w] = vs]
  /\ seen' = [seen EXCEPT ![w] = NoSchema] /\ setKeys' = [setKeys EXCEPT ![w] = {}]
  /\ UNCHANGED <<package, schemaCache>>

\* read(): `omp config list`, and the answer that OMP is not available.
ListSettings(w) ==
  /\ Step(w, "lists", "locates") \/ Step(w, "lists", "failed")
  /\ UNCHANGED <<package, schemaCache, request, seen, setKeys, rounds>>

\* loadSchemaEntries: cached entries serve while the file's time is theirs.
StatSchema(w) ==
  /\ IF schemaCache.mtime = package
     THEN Step(w, "locates", "validates") /\ seen' = [seen EXCEPT ![w] = schemaCache]
     ELSE Step(w, "locates", "readsSchema") /\ seen' = [seen EXCEPT ![w].mtime = package]
  /\ UNCHANGED <<package, schemaCache, request, setKeys, rounds>>

\* Any failure, as when an update has the file in hand, leaves a request without a schema.
SchemaFails(w) ==
  /\ Step(w, "locates", "validates") \/ Step(w, "readsSchema", "validates")
  /\ UNCHANGED <<package, schemaCache, request, seen, setKeys, rounds>>

ReadSchema(w) ==
  /\ Step(w, "readsSchema", "cachesSchema")
  /\ seen' = [seen EXCEPT ![w].content = package]
  /\ UNCHANGED <<package, schemaCache, request, setKeys, rounds>>

\* A variant that breaks SchemaIsCurrent: the time is the file's once it was read.
LateEntry(w) == [mtime |-> package, content |-> seen[w].content]

Entry(w) == [mtime |-> seen[w].mtime, content |-> seen[w].content]

CacheSchema(w) ==
  /\ Step(w, "cachesSchema", "validates")
  /\ schemaCache' = Entry(w)
  /\ UNCHANGED <<package, request, seen, setKeys, rounds>>

\* A variant that breaks NoneIsSetUnchecked: each value is checked when it is set.
ChecksAsItSets(w) == Step(w, "validates", IF wanted[w] = {} THEN "read" ELSE "sets")

\* Every value is checked before the first is set; types are checked without a schema too.
Check(w) ==
  \/ wanted[w] = {} /\ Step(w, "validates", "read")
  \/ wanted[w] # {} /\ seen[w].content \notin invalid[w] /\ Step(w, "validates", "sets")
  \/ wanted[w] # {} /\ Step(w, "validates", "refused")

Validate(w) ==
  /\ Check(w)
  /\ UNCHANGED <<package, schemaCache, request, seen, setKeys, rounds>>

\* `omp config set` or `reset` of the next key.
SetNext(w) ==
  /\ at[w] = "sets"
  /\ \E k \in wanted[w] \ setKeys[w] : setKeys' = [setKeys EXCEPT ![w] = @ \union {k}]
  /\ UNCHANGED <<package, schemaCache, at, request, seen, rounds>>

\* OMP has the last word on a value, and the call may time out: what was set stays.
SetFails(w) ==
  /\ wanted[w] \ setKeys[w] # {} /\ Step(w, "sets", "failed")
  /\ UNCHANGED <<package, schemaCache, request, seen, setKeys, rounds>>

WriteEnds(w) ==
  /\ wanted[w] = setKeys[w] /\ Step(w, "sets", "answered")
  /\ UNCHANGED <<package, schemaCache, request, seen, setKeys, rounds>>

UpdateOmp ==
  /\ package < MaxUpdates
  /\ package' = package + 1
  /\ UNCHANGED <<schemaCache, at, request, seen, setKeys, rounds>>

OmpSettingsInit ==
  /\ package = 0 /\ schemaCache = NoSchema /\ rounds = 0
  /\ at = [w \in Writers |-> "idle"]
  /\ wanted = [w \in Writers |-> {}] /\ invalid = [w \in Writers |-> {}]
  /\ seen = [w \in Writers |-> NoSchema] /\ setKeys = [w \in Writers |-> {}]

OmpSettingsNext ==
  \/ UpdateOmp
  \/ \E w \in Writers :
       \/ BeginRequest(w) \/ ListSettings(w) \/ StatSchema(w) \/ SchemaFails(w)
       \/ ReadSchema(w) \/ CacheSchema(w)
       \/ Validate(w) \/ SetNext(w) \/ SetFails(w) \/ WriteEnds(w)

------------------------------------------------------------------------------

\* Entries cached under the time of the schema file that is there are those of that file, though
\* an update replaces it between any two steps of the requests that read and cache it.
SchemaIsCurrent == schemaCache.mtime = package => schemaCache.content = package

\* A write one of whose values the schema it read does not allow sets none of its keys.
NoneIsSetUnchecked == \A w \in Writers : setKeys[w] # {} => seen[w].content \notin invalid[w]
=============================================================================
