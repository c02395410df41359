----------------------------- MODULE StatusCaches -----------------------------
(* The two caches behind /api/pi-web/status: the status itself, dropped when   *)
(* the configuration is written, and inside its load the lookup of the latest  *)
(* release. Loads overlap: a forced one overtakes an ordinary one, a write     *)
(* invalidates what is being loaded, and the sequence numbers decide which     *)
(* answer is kept.                                                             *)
EXTENDS Naturals

CONSTANTS MaxLoads,  \* bound: loads, lookups and invalidations
          MaxChanges \* bound: writes of the configuration

ASSUME CachesAssumption == MaxLoads \in Nat /\ MaxChanges \in Nat

Loads == 1 .. MaxLoads

VARIABLES world,           \* version of what a load reads, set by a write
          written,         \* a write has settled and its invalidate() is due
          loads,           \* [at, force, seen, lookup] of each load
          loadSequence,
          pendingLoad,         \* the pending load, 0 for none
          cached,          \* [seen, of, fresh], of = 0 when nothing is cached
          lookups,         \* [at, force] of each release lookup
          lookupSequence,
          pendingLookup,
          cachedLookup     \* [of, fresh]

statusVars == <<loads, loadSequence, pendingLoad, cached>>
releaseVars == <<lookups, lookupSequence, pendingLookup, cachedLookup>>
cacheVars == <<world, written, statusVars, releaseVars>>

NoStatus == [seen |-> 0, of |-> 0, fresh |-> FALSE]
NoLookup == [of |-> 0, fresh |-> FALSE]

\* A load reads the profile and the versions first, the release last.
Load(force) ==
  /\ loadSequence < MaxLoads
  /\ loadSequence' = loadSequence + 1
  /\ pendingLoad' = loadSequence + 1
  /\ loads' = [loads EXCEPT ![loadSequence + 1] = [at |-> "reads", force |-> force, seen |-> 0, lookup |-> 0]]
  /\ UNCHANGED <<world, written, cached, releaseVars>>

\* get(): an expired status is served while a load replaces it.
GetStatus == ~cached.fresh /\ pendingLoad = 0 /\ Load(FALSE)

\* refresh({ force: true }): joins a forced load, overtakes an ordinary one.
RefreshStatus == ~(pendingLoad # 0 /\ loads[pendingLoad].force) /\ Load(TRUE)

\* PiWebReleaseLookupCache.get: what the load waits for, 0 for the cached lookup.
Awaited(force) ==
  IF pendingLookup # 0 /\ lookups[pendingLookup].force THEN pendingLookup
  ELSE IF force THEN lookupSequence + 1
  ELSE IF cachedLookup.fresh THEN 0
  ELSE IF pendingLookup # 0 THEN pendingLookup ELSE lookupSequence + 1

LoadReads(s) ==
  LET k == Awaited(loads[s].force) IN
  /\ loads[s].at = "reads"
  /\ k <= MaxLoads
  /\ loads' = [loads EXCEPT ![s] = [@ EXCEPT !.at = "waits", !.seen = world, !.lookup = k]]
  /\ IF k > lookupSequence
     THEN /\ lookupSequence' = k /\ pendingLookup' = k
          /\ lookups' = [lookups EXCEPT ![k] = [at |-> "asks", force |-> loads[s].force]]
          /\ UNCHANGED cachedLookup
     ELSE UNCHANGED releaseVars
  /\ UNCHANGED <<world, written, loadSequence, pendingLoad, cached>>

\* A variant that breaks CachesGoForward: whatever settles is kept.
KeptAnyway(sequence, latest) == sequence <= latest

Kept(sequence, latest) == sequence = latest

\* An answer, or the error that stands for one, is cached for six hours.
LookupSettles(k) ==
  /\ lookups[k].at = "asks"
  /\ lookups' = [lookups EXCEPT ![k].at = "settled"]
  /\ cachedLookup' = IF Kept(k, lookupSequence) THEN [of |-> k, fresh |-> TRUE] ELSE cachedLookup
  /\ pendingLookup' = IF pendingLookup = k THEN 0 ELSE pendingLookup
  /\ UNCHANGED <<world, written, statusVars, lookupSequence>>

LoadSettles(s) ==
  /\ loads[s].at = "waits"
  /\ loads[s].lookup # 0 => lookups[loads[s].lookup].at = "settled"
  /\ loads' = [loads EXCEPT ![s].at = "settled"]
  /\ cached' = IF Kept(s, loadSequence) THEN [seen |-> loads[s].seen, of |-> s, fresh |-> TRUE] ELSE cached
  /\ pendingLoad' = IF pendingLoad = s THEN 0 ELSE pendingLoad
  /\ UNCHANGED <<world, written, loadSequence, releaseVars>>

\* The daemon, asked for the profile, may fail the load.
LoadFails(s) ==
  /\ loads[s].at = "reads"
  /\ loads' = [loads EXCEPT ![s].at = "settled"]
  /\ pendingLoad' = IF pendingLoad = s THEN 0 ELSE pendingLoad
  /\ UNCHANGED <<world, written, loadSequence, cached, releaseVars>>

WriteSettles ==
  /\ ~written /\ world < MaxChanges
  /\ world' = world + 1 /\ written' = TRUE
  /\ UNCHANGED <<statusVars, releaseVars>>

\* A variant that breaks StatusIsCurrent: a load under way keeps its number.
DropCached == cached' = NoStatus /\ pendingLoad' = 0 /\ UNCHANGED loadSequence

Drop == cached' = NoStatus /\ pendingLoad' = 0 /\ loadSequence' = loadSequence + 1

Invalidate ==
  /\ written /\ loadSequence < MaxLoads
  /\ written' = FALSE
  /\ Drop
  /\ UNCHANGED <<world, loads, releaseVars>>

StatusExpires ==
  /\ cached.fresh
  /\ cached' = [cached EXCEPT !.fresh = FALSE]
  /\ UNCHANGED <<world, written, loads, loadSequence, pendingLoad, releaseVars>>

LookupExpires ==
  /\ cachedLookup.fresh
  /\ cachedLookup' = [cachedLookup EXCEPT !.fresh = FALSE]
  /\ UNCHANGED <<world, written, statusVars, lookups, lookupSequence, pendingLookup>>

CachesInit ==
  /\ world = 0 /\ written = FALSE
  /\ loads = [s \in Loads |-> [at |-> "none", force |-> FALSE, seen |-> 0, lookup |-> 0]]
  /\ lookups = [k \in Loads |-> [at |-> "none", force |-> FALSE]]
  /\ loadSequence = 0 /\ pendingLoad = 0 /\ cached = NoStatus
  /\ lookupSequence = 0 /\ pendingLookup = 0 /\ cachedLookup = NoLookup

CachesNext ==
  \/ GetStatus \/ RefreshStatus \/ WriteSettles \/ Invalidate \/ StatusExpires \/ LookupExpires
  \/ \E s \in Loads : LoadReads(s) \/ LoadSettles(s) \/ LoadFails(s) \/ LookupSettles(s)

CachesSpec == CachesInit /\ [][CachesNext]_cacheVars

\* Once a write of the configuration has been answered, no status loaded from what it replaced is
\* served from the cache, though a load that began before it may settle after it.
StatusIsCurrent == cached.of # 0 /\ ~written => cached.seen = world

\* A load or a lookup that settles late never replaces the answer of one that began after it.
CachesGoForward ==
  [][/\ cached'.of # 0 => cached'.of >= cached.of
     /\ cachedLookup'.of >= cachedLookup.of]_cacheVars
=============================================================================
