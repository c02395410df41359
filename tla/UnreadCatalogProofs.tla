------------------------ MODULE UnreadCatalogProofs ------------------------
(***************************************************************************)
(* Proofs about the unread catalog: what clients are told is durable and   *)
(* in order, an order stands for one completion, and acknowledgements stay *)
(* and clear only what was seen, for any finite set of sessions, any       *)
(* limits, and any number of faults and catalog identities.                *)
(***************************************************************************)
EXTENDS UnreadCatalog, FiniteSetTheorems, SequenceTheorems, TLAPS

----------------------------------------------------------------------------
(* Operators of the model *)

\* In a finite set that f orders, some element is the i-th.
LEMMA RankFacts ==
  ASSUME NEW R, IsFiniteSet(R), NEW f \in [R -> Nat],
         \A x, y \in R : f[x] = f[y] => x = y,
         NEW i \in 1..Cardinality(R)
  PROVE  \E s \in R : Cardinality({r \in R : f[r] <= f[s]}) = i
<1> DEFINE Below(s) == {r \in R : f[r] <= f[s]}
           n == Cardinality(R)
           rank == [s \in R |-> Cardinality(Below(s))]
<1>1. n \in Nat /\ IsFiniteSet(1..n) /\ Cardinality(1..n) = n
  <2>1. n \in Nat
    BY FS_CardinalityType
  <2> QED BY <2>1, FS_Interval
<1>2. \A s \in R : /\ IsFiniteSet(Below(s)) /\ Cardinality(Below(s)) \in Nat
                   /\ Cardinality(Below(s)) <= n /\ Cardinality(Below(s)) # 0
  <2> TAKE s \in R
  <2>1. Below(s) \in SUBSET R
    OBVIOUS
  <2>2. IsFiniteSet(Below(s)) /\ Cardinality(Below(s)) <= n
    BY <2>1, FS_Subset
  <2>3. Cardinality(Below(s)) \in Nat
    BY <2>2, FS_CardinalityType
  <2>4. s \in Below(s)
    OBVIOUS
  <2>5. Cardinality(Below(s)) # 0
    BY <2>2, <2>4, FS_EmptySet
  <2> QED BY <2>2, <2>3, <2>5
<1>3. rank \in [R -> 1..n]
  BY <1>1, <1>2
<1>4. ASSUME NEW x \in R, NEW y \in R, f[x] < f[y]
      PROVE  rank[x] # rank[y]
  <2>1. Below(x) \in SUBSET Below(y) /\ Below(x) # Below(y)
    BY <1>4
  <2>2. Cardinality(Below(x)) # Cardinality(Below(y))
    BY <1>2, <2>1, FS_Subset
  <2> QED BY <2>2
<1>5. \A x, y \in R : x # y => rank[x] # rank[y]
  <2> HIDE DEF rank
  <2> QED BY <1>4
<1>6. rank \in Injection(R, 1..n)
  BY <1>3, <1>5, Zenon DEF Injection, IsInjective
<1>7. rank \in Surjection(R, 1..n)
  BY <1>1, <1>6, FS_Injection
<1>8. PICK s \in R : rank[s] = i
  BY <1>7 DEF Surjection
<1> QED BY <1>8

Elements(q) == {q[i] : i \in 1..Len(q)}
Increasing(q) == \A i, j \in 1..Len(q) : i < j => q[i].revision < q[j].revision
AllBefore(a, b) == \A e \in Elements(a), f \in Elements(b) : e.revision < f.revision

\* The orders of a catalog's unread sessions are their own.
Distinct(c) == \A s, r \in Unread(c) : c.unread[s].order = c.unread[r].order => s = r

LEMMA UnreadFacts ==
  ASSUME NEW c \in Catalog
  PROVE  /\ IsFiniteSet(Unread(c)) /\ Unread(c) \subseteq Sessions
         /\ \A s \in Unread(c) : c.unread[s] \in Entry
         /\ \A R \in SUBSET Unread(c) : IsFiniteSet(R) /\ Cardinality(R) \in Nat
                                        /\ (Cardinality(R) = 0 <=> R = {})
<1>1. Unread(c) \in SUBSET Sessions /\ \A s \in Unread(c) : c.unread[s] \in Entry
  BY DEF Unread, Catalog
<1>2. IsFiniteSet(Unread(c))
  BY <1>1, SessionsAreFinite, FS_Subset
<1>3. ASSUME NEW R \in SUBSET Unread(c)
      PROVE  IsFiniteSet(R) /\ Cardinality(R) \in Nat /\ (Cardinality(R) = 0 <=> R = {})
  <2>1. IsFiniteSet(R)
    BY <1>2, FS_Subset
  <2> QED BY <2>1, FS_CardinalityType, FS_EmptySet
<1> QED BY <1>1, <1>2, <1>3

LEMMA WithoutFacts ==
  ASSUME NEW c \in Catalog, NEW R \in SUBSET Unread(c)
  PROVE  /\ Without(c, R) \in Catalog
         /\ Without(c, R).id = c.id /\ Without(c, R).order = c.order
         /\ Without(c, R).revision = c.revision + Cardinality(R)
         /\ \A s \in Sessions : Without(c, R).unread[s] = IF s \in R THEN None ELSE c.unread[s]
         /\ R = {} => Without(c, R) = c
<1>1. Cardinality(R) \in Nat /\ (R = {} => Cardinality(R) = 0)
  BY UnreadFacts
<1>2. Without(c, R) \in Catalog
  <2> DEFINE u == [s \in Sessions |-> IF s \in R THEN None ELSE c.unread[s]]
  <2>1. c.revision + Cardinality(R) \in Nat
    BY <1>1 DEF Catalog
  <2>2. u \in [Sessions -> Entry \cup {None}]
    BY DEF Catalog
  <2>3. Without(c, R) = [id |-> c.id, revision |-> c.revision + Cardinality(R), order |-> c.order,
                         unread |-> u]
    <3>1. Without(c, R) = [c EXCEPT !.revision = c.revision + Cardinality(R), !.unread = u]
      BY Zenon DEF Without
    <3> HIDE DEF u
    <3> QED BY <3>1 DEF Catalog
  <2> HIDE DEF u
  <2> QED BY <2>1, <2>2, <2>3 DEF Catalog
<1>3. /\ Without(c, R).id = c.id /\ Without(c, R).order = c.order
      /\ Without(c, R).revision = c.revision + Cardinality(R)
      /\ \A s \in Sessions : Without(c, R).unread[s] = IF s \in R THEN None ELSE c.unread[s]
  BY DEF Without, Catalog
<1>4. ASSUME R = {} PROVE Without(c, R) = c
  <2>1. Without(c, R).unread = c.unread
    BY <1>2, <1>3, <1>4 DEF Catalog
  <2>2. Without(c, R).revision = c.revision
    BY <1>1, <1>3, <1>4 DEF Catalog
  <2> QED BY <1>2, <1>3, <2>1, <2>2 DEF Catalog
<1> QED BY <1>2, <1>3, <1>4

LEMMA RemovalsFacts ==
  ASSUME NEW c \in Catalog, Distinct(c), NEW R \in SUBSET Unread(c)
  PROVE  /\ Removals(c, R) \in Seq(Event) /\ Len(Removals(c, R)) = Cardinality(R)
         /\ \A i \in 1..Cardinality(R) :
              /\ Removals(c, R)[i].id = c.id /\ Removals(c, R)[i].unread = None
              /\ Removals(c, R)[i].revision = c.revision + i
         /\ Removals(c, R) = <<>> <=> R = {}
<1> DEFINE n == Cardinality(R)
           f == [s \in R |-> c.unread[s].order]
           rank(s) == Cardinality({r \in R : c.unread[r].order <= c.unread[s].order})
<1>1. n \in Nat /\ IsFiniteSet(R) /\ (n = 0 <=> R = {})
  BY UnreadFacts
<1>2. ASSUME NEW i \in 1..n PROVE (CHOOSE s \in R : rank(s) = i) \in Sessions
  <2>1. f \in [R -> Nat] /\ \A x, y \in R : f[x] = f[y] => x = y
    BY UnreadFacts DEF Distinct, Entry
  <2>2. PICK s \in R : Cardinality({r \in R : f[r] <= f[s]}) = i
    <3> HIDE DEF f
    <3> QED BY <1>1, <2>1, RankFacts
  <2>3. {r \in R : f[r] <= f[s]} = {r \in R : c.unread[r].order <= c.unread[s].order}
    OBVIOUS
  <2>4. \E q \in R : rank(q) = i
    BY <2>2, <2>3
  <2> HIDE DEF rank
  <2>5. (CHOOSE q \in R : rank(q) = i) \in R
    BY <2>4
  <2> QED BY <2>5, UnreadFacts
<1>3. \A i \in 1..n : [id |-> c.id, revision |-> c.revision + i, unread |-> None,
                       session |-> CHOOSE s \in R : rank(s) = i] \in Event
  <2>1. c.id \in Nat /\ \A i \in 1..n : c.revision + i \in Nat
    BY <1>1 DEF Catalog
  <2> HIDE DEF rank, n
  <2> QED BY <1>2, <2>1 DEF Event
<1>4. Removals(c, R) = [i \in 1..n |-> [id |-> c.id, revision |-> c.revision + i, unread |-> None,
                                        session |-> CHOOSE s \in R : rank(s) = i]]
  BY DEF Removals
<1>5. Removals(c, R) \in Seq(Event) /\ Len(Removals(c, R)) = n
  <2> HIDE DEF rank
  <2> QED BY <1>1, <1>3, <1>4
<1>6. \A i \in 1..n : /\ Removals(c, R)[i].id = c.id /\ Removals(c, R)[i].unread = None
                      /\ Removals(c, R)[i].revision = c.revision + i
  <2> HIDE DEF rank
  <2> QED BY <1>4
<1>7. Removals(c, R) = <<>> <=> R = {}
  <2> HIDE DEF n, rank
  <2>1. Removals(c, R) = <<>> <=> Len(Removals(c, R)) = 0
    BY <1>5, EmptySeq
  <2> QED BY <1>1, <1>5, <2>1
<1> QED BY <1>5, <1>6, <1>7

LEMMA ConcatFacts ==
  ASSUME NEW a \in Seq(Event), NEW b \in Seq(Event)
  PROVE  /\ a \o b \in Seq(Event) /\ Len(a \o b) = Len(a) + Len(b)
         /\ Elements(a \o b) = Elements(a) \cup Elements(b)
         /\ Increasing(a) /\ Increasing(b) /\ AllBefore(a, b) => Increasing(a \o b)
<1>1. /\ a \o b \in Seq(Event) /\ Len(a \o b) = Len(a) + Len(b) /\ Len(a) \in Nat /\ Len(b) \in Nat
      /\ \A i \in 1..(Len(a) + Len(b)) : (a \o b)[i] = IF i <= Len(a) THEN a[i] ELSE b[i - Len(a)]
  BY ConcatProperties, LenProperties
<1>2. Elements(a \o b) = Elements(a) \cup Elements(b)
  <2>1. ASSUME NEW i \in 1..Len(a \o b) PROVE (a \o b)[i] \in Elements(a) \cup Elements(b)
    BY <1>1 DEF Elements
  <2>2. ASSUME NEW i \in 1..Len(a) PROVE a[i] \in Elements(a \o b)
    BY <1>1 DEF Elements
  <2>3. ASSUME NEW i \in 1..Len(b) PROVE b[i] \in Elements(a \o b)
    <3>1. i + Len(a) \in 1..Len(a \o b) /\ (a \o b)[i + Len(a)] = b[i]
      BY <1>1
    <3> QED BY <3>1 DEF Elements
  <2> QED BY <2>1, <2>2, <2>3 DEF Elements
<1>3. ASSUME Increasing(a), Increasing(b), AllBefore(a, b) PROVE Increasing(a \o b)
  <2> SUFFICES ASSUME NEW i \in 1..Len(a \o b), NEW j \in 1..Len(a \o b), i < j
               PROVE  (a \o b)[i].revision < (a \o b)[j].revision
    BY DEF Increasing
  <2>1. CASE j <= Len(a)
    BY <1>1, <1>3, <2>1 DEF Increasing
  <2>2. CASE i > Len(a)
    BY <1>1, <1>3, <2>2 DEF Increasing
  <2>3. CASE i <= Len(a) /\ j > Len(a)
    <3>1. a[i] \in Elements(a) /\ b[j - Len(a)] \in Elements(b)
      BY <1>1, <2>3 DEF Elements
    <3> QED BY <1>1, <1>3, <2>3, <3>1 DEF AllBefore
  <2> QED BY <1>1, <2>1, <2>2, <2>3
<1> QED BY <1>1, <1>2, <1>3

LEMMA TrimmedFacts ==
  ASSUME NEW q \in Seq(Event)
  PROVE  /\ Trimmed(q) \in Seq(Event) /\ Len(Trimmed(q)) <= MaxPending
         /\ Elements(Trimmed(q)) \subseteq Elements(q)
         /\ Increasing(q) => Increasing(Trimmed(q))
<1>0. MaxPending \in Nat /\ Len(q) \in Nat
  BY LimitsAssumption, LenProperties
<1>1. CASE Len(q) <= MaxPending
  BY <1>0, <1>1 DEF Trimmed
<1>2. CASE Len(q) > MaxPending
  <2> DEFINE d == Len(q) - MaxPending
  <2>1. /\ Trimmed(q) \in Seq(Event) /\ Len(Trimmed(q)) = MaxPending
        /\ \A i \in 1..MaxPending : Trimmed(q)[i] = q[i + d]
    <3>1. \A i \in (d + 1)..Len(q) : q[i] \in Event
      BY <1>0, <1>2, ElementOfSeq
    <3>2. /\ SubSeq(q, d + 1, Len(q)) \in Seq(Event)
          /\ Len(SubSeq(q, d + 1, Len(q))) = IF d + 1 <= Len(q) THEN Len(q) - (d + 1) + 1 ELSE 0
          /\ \A i \in 1..(Len(q) - (d + 1) + 1) : SubSeq(q, d + 1, Len(q))[i] = q[(d + 1) + i - 1]
      BY <1>0, <3>1, SubSeqProperties
    <3>3. Trimmed(q) = SubSeq(q, d + 1, Len(q))
      BY <1>2 DEF Trimmed
    <3> QED BY <1>0, <1>2, <3>2, <3>3
  <2>2. d \in Nat /\ \A i \in 1..MaxPending : i + d \in 1..Len(q)
    BY <1>0, <1>2
  <2> HIDE DEF d
  <2>3. Elements(Trimmed(q)) \subseteq Elements(q)
    BY <2>1, <2>2 DEF Elements
  <2>4. Increasing(q) => Increasing(Trimmed(q))
    BY <1>0, <2>1, <2>2 DEF Increasing
  <2> QED BY <1>0, <2>1, <2>3, <2>4
<1> QED BY <1>0, <1>1, <1>2

----------------------------------------------------------------------------
(* The inductive invariant.  The catalog is in three places, in memory, in   *)
(* the save that runs and in the file, each a version of the next, and what  *)
(* waits to be saved is the one in memory.  What a client can be told of is  *)
(* in one of them, in the events that wait or told already.                  *)

Versions == {catalog, disk, saving} \ {None}
Waits == Elements(batch) \cup Elements(queue)

Told(e) == [id |-> e.id, session |-> e.session, order |-> e.unread.order, run |-> e.unread.run]
Announced == {Told(e) : e \in {x \in Waits : x.unread # None}}
Known ==
  {o \in Observation : \/ o \in seen \cup Announced
                      \/ \E c \in Versions : o \in Observations(c)}

Precedes(a, b) == a.id = b.id /\ a.revision <= b.revision /\ a.order <= b.order

\* Once nothing waits to be saved, the file has the catalog.
ChainOK ==
  /\ pending \in {None, catalog}
  /\ phase = "up" =>
       /\ disk # None /\ Precedes(disk, catalog)
       /\ saving # None => Precedes(disk, saving) /\ Precedes(saving, catalog)
       /\ saving # None /\ pending = None => saving = catalog
       /\ saving = None /\ pending = None => disk = catalog

\* An identity is given once.
IdsOK ==
  /\ \A c \in Versions : c.id <= ids
  /\ \A o \in Known : o.id <= ids
  /\ \A e \in Elements(published) : e.id <= ids

\* Nothing goes out until the catalog is loaded, or saved when it is new.
IdleOK ==
  phase # "up" =>
    /\ batch = <<>> /\ queue = <<>> /\ publication = "idle"
    /\ request = [step |-> "idle", ack |-> None]
    /\ ~retryTimer /\ Unread(catalog) = {} /\ pending = None
    /\ phase = "down" => saving = None
    /\ phase = "loading" =>
         /\ saving = catalog
         /\ \A o \in seen : o.id # catalog.id
         /\ \A e \in Elements(published) : e.id # catalog.id

\* An order stands for one completion; a version made after a completion has its
\* session at that order or a later one, if at all.
OrdersOK ==
  /\ \A c \in Versions : \A s \in Unread(c) : c.unread[s].order <= c.order
  /\ \A x, y \in Known : x.id = y.id /\ x.order = y.order => x = y
  /\ \A o \in Known, c \in Versions :
       o.id = c.id /\ o.order <= c.order /\ c.unread[o.session] # None
         => c.unread[o.session].order >= o.order

OfCatalog(e) ==
  /\ e.id = catalog.id /\ e.revision <= catalog.revision
  /\ e.unread # None => e.unread.order <= catalog.order

EventsOK ==
  /\ publication = "idle" => batch = <<>>
  /\ Increasing(batch) /\ Increasing(queue) /\ AllBefore(batch, queue)
  /\ \A e \in Waits : OfCatalog(e)
  /\ \A e \in Waits, p \in Elements(published) : p.id = catalog.id => p.revision < e.revision
  /\ \A i, j \in 1..Len(published) :
       (i < j /\ published[i].id = published[j].id) => published[i].revision < published[j].revision

\* c has nothing unread of the session that o does not come before.
After(c, o) ==
  c.id = o.id /\ c.unread[o.session] # None => c.unread[o.session].order > o.order

AcksOK ==
  /\ acked \subseteq seen
  /\ \A o \in acked, c \in Versions : After(c, o)
  /\ request.ack # None => request.ack \in seen /\ After(catalog, request.ack)

DurableOK ==
  disk # None =>
    /\ \A e \in Elements(published) : e.id = disk.id => e.revision <= disk.revision
    /\ \A o \in seen : o.id = disk.id => o.order <= disk.order

UnreadInv ==
  /\ TypeOK /\ ChainOK /\ IdsOK /\ IdleOK /\ OrdersOK /\ EventsOK /\ AcksOK /\ DurableOK

LEMMA VersionFacts ==
  ASSUME TypeOK
  PROVE  /\ \A c \in Versions : c \in Catalog /\ Observations(c) \subseteq Observation
         /\ \A c \in Versions : \A s \in Unread(c) : c.unread[s] \in Entry
         /\ catalog \in Versions /\ (saving # None => saving \in Versions)
         /\ (disk # None => disk \in Versions)
         /\ seen \subseteq Known /\ Announced \subseteq Known
         /\ \A c \in Versions : Observations(c) \subseteq Known
<1>1. /\ Versions \subseteq Catalog /\ catalog \in Versions
      /\ (saving # None => saving \in Versions) /\ (disk # None => disk \in Versions)
  BY NoneAssumption DEF TypeOK, Versions
<1>2. \A c \in Versions : \A s \in Unread(c) : c.unread[s] \in Entry /\ s \in Sessions
  BY <1>1, UnreadFacts
<1>3. \A c \in Versions : Observations(c) \subseteq Observation
  BY <1>1, <1>2 DEF Observations, Observation, Catalog, Entry
<1>4. Announced \subseteq Observation
  <2>1. Waits \subseteq Event
    BY ElementOfSeq DEF Waits, Elements, TypeOK
  <2> QED BY <2>1 DEF Announced, Told, Event, Entry, Observation
<1>5. seen \subseteq Observation
  BY DEF TypeOK
<1>6. /\ seen \subseteq Known /\ Announced \subseteq Known
      /\ \A c \in Versions : Observations(c) \subseteq Known
  BY <1>3, <1>4, <1>5 DEF Known
<1> QED BY <1>6, <1>1, <1>2, <1>3, <1>5

\* What is unread in a version is known, and its orders are distinct.
LEMMA DistinctFacts ==
  ASSUME UnreadInv, NEW c \in Versions
  PROVE  Distinct(c)
<1>1. TypeOK /\ OrdersOK
  BY DEF UnreadInv
<1> SUFFICES ASSUME NEW s \in Unread(c), NEW r \in Unread(c), c.unread[s].order = c.unread[r].order
             PROVE  s = r
  BY DEF Distinct
<1> DEFINE x == [id |-> c.id, session |-> s, order |-> c.unread[s].order, run |-> c.unread[s].run]
           y == [id |-> c.id, session |-> r, order |-> c.unread[r].order, run |-> c.unread[r].run]
<1>2. x \in Known /\ y \in Known
  <2>1. x \in Observations(c) /\ y \in Observations(c)
    BY DEF Observations
  <2> HIDE DEF x, y
  <2> QED BY <1>1, <2>1, VersionFacts
<1>3. x = y
  BY <1>1, <1>2 DEF OrdersOK
<1> QED BY <1>3

\* publishUnreadMutations(): new events go behind those that wait.
LEMMA PublishFacts ==
  ASSUME TypeOK, EventsOK, NEW events \in Seq(Event), Increasing(events),
         \A e \in Elements(events) : catalog.revision < e.revision,
         Publish(events)
  PROVE  /\ batch' \in Seq(Event) /\ queue' \in Seq(Event) /\ Len(queue') <= MaxPending
         /\ publication' \in {"idle", "wait", "retry"}
         /\ requested' \in BOOLEAN /\ retryTimer' \in BOOLEAN
         /\ publication' = "idle" => batch' = <<>>
         /\ Increasing(batch') /\ Increasing(queue') /\ AllBefore(batch', queue')
         /\ Waits' \subseteq Waits \cup Elements(events)
<1>0. /\ batch \in Seq(Event) /\ queue \in Seq(Event) /\ Len(<<>>) = 0 /\ <<>> \in Seq(Event)
      /\ Elements(<<>>) = {} /\ Increasing(<<>>) /\ MaxPending \in Nat
  BY EmptySeq, LimitsAssumption DEF TypeOK, Elements, Increasing
<1>1. Elements(batch) \subseteq Event /\ Elements(queue) \subseteq Event /\ Elements(events) \subseteq Event
  BY <1>0, ElementOfSeq DEF Elements
<1>2. catalog.revision \in Nat /\ \A e \in Event : e.revision \in Nat
  BY DEF TypeOK, Catalog, Event
<1>3. AllBefore(queue, events) /\ AllBefore(batch, events)
  BY <1>1, <1>2 DEF AllBefore, EventsOK, OfCatalog, Waits
<1> DEFINE all == queue \o events
           new == Trimmed(all)
<1>4. /\ all \in Seq(Event) /\ Increasing(all) /\ Elements(all) = Elements(queue) \cup Elements(events)
  BY <1>0, <1>3, ConcatFacts DEF EventsOK
<1> HIDE DEF all
<1>5. /\ new \in Seq(Event) /\ Len(new) <= MaxPending /\ Increasing(new)
      /\ Elements(new) \subseteq Elements(queue) \cup Elements(events)
  BY <1>4, TrimmedFacts
<1>6. CASE publication = "idle" /\ ~retryTimer
  <2>1. /\ batch' = new /\ queue' = <<>> /\ requested' = FALSE /\ publication' = "wait"
        /\ retryTimer' = retryTimer
    BY <1>6 DEF Publish, Drain, all
  <2> HIDE DEF new
  <2>2. AllBefore(batch', queue')
    BY <1>0, <2>1 DEF AllBefore
  <2>3. Waits' \subseteq Waits \cup Elements(events)
    BY <1>0, <1>5, <2>1 DEF Waits
  <2>4. retryTimer' \in BOOLEAN
    BY <2>1 DEF TypeOK
  <2>5. Increasing(batch') /\ Increasing(queue')
    BY <1>0, <1>5, <2>1
  <2>6. batch' \in Seq(Event) /\ queue' \in Seq(Event) /\ Len(queue') <= MaxPending
    BY <1>0, <1>5, <2>1
  <2> QED BY <2>1, <2>2, <2>3, <2>4, <2>5, <2>6
<1>7. CASE ~(publication = "idle" /\ ~retryTimer)
  <2>1. queue' = new /\ requested' = TRUE /\ UNCHANGED <<publication, batch, retryTimer>>
    BY <1>7 DEF Publish, all
  <2> HIDE DEF new
  <2>2. AllBefore(batch', queue')
    BY <1>3, <1>5, <2>1 DEF AllBefore, EventsOK
  <2> QED BY <1>0, <1>5, <2>1, <2>2 DEF Waits, TypeOK, EventsOK
<1> QED BY <1>6, <1>7

\* While the daemon is up, whatever is known of its catalog came before now.
LEMMA BoundFacts ==
  ASSUME UnreadInv, phase = "up"
  PROVE  /\ \A v \in Versions : Precedes(v, catalog) /\ v \in Catalog
         /\ \A o \in Known : o.id = catalog.id => o.order <= catalog.order
<1> USE DEF UnreadInv
<1>1. \A v \in Versions : v \in Catalog /\ v.revision \in Nat /\ v.order \in Nat
  BY VersionFacts DEF Catalog
<1>2. \A v \in Versions : Precedes(v, catalog)
  BY <1>1, VersionFacts DEF Versions, ChainOK, Precedes
<1>3. ASSUME NEW v \in Versions, NEW o \in Observations(v) PROVE o.order <= catalog.order
  <2>1. PICK s \in Unread(v) : o.order = v.unread[s].order
    BY DEF Observations
  <2>2. v.unread[s].order <= v.order /\ v.unread[s].order \in Nat
    BY VersionFacts DEF OrdersOK, Entry
  <2> QED BY <1>1, <1>2, <2>1, <2>2, VersionFacts DEF Precedes
<1>4. ASSUME NEW o \in Announced PROVE o.order <= catalog.order
  BY DEF Announced, Told, EventsOK, OfCatalog
<1>5. ASSUME NEW o \in seen, o.id = catalog.id PROVE o.order <= catalog.order
  <2>1. o.order <= disk.order /\ disk.order <= catalog.order /\ disk \in Versions
    BY <1>5, VersionFacts DEF ChainOK, DurableOK, Precedes
  <2>2. o.order \in Nat
    BY <1>5 DEF TypeOK, Observation
  <2> QED BY <1>1, <2>1, <2>2, VersionFacts
<1> QED BY <1>1, <1>2, <1>3, <1>4, <1>5 DEF Known

\* c is the catalog's next version, the events tell of the change, and it has a new
\* completion of session s at most.
NextVersion(c, events, s, run) ==
  /\ c \in Catalog /\ events \in Seq(Event)
  /\ c.id = catalog.id /\ catalog.revision <= c.revision
  /\ \/ c.order = catalog.order
     \/ c.order = catalog.order + 1 /\ s \in Sessions /\ run \in Nat
        /\ (c.unread[s] # None => c.unread[s].order = c.order)
  /\ events = <<>> => c = catalog
  /\ Increasing(events)
  /\ \A e \in Elements(events) :
       /\ e.id = catalog.id /\ catalog.revision < e.revision /\ e.revision <= c.revision
       /\ e.unread # None =>
            /\ c.order = catalog.order + 1
            /\ e.session = s /\ e.unread = [order |-> c.order, run |-> run]
  /\ \A r \in Unread(c) :
       \/ c.unread[r] = catalog.unread[r]
       \/ c.order = catalog.order + 1 /\ r = s /\ c.unread[r] = [order |-> c.order, run |-> run]

\* An observation that the catalog is past, the next version is past.
LEMMA AfterNext ==
  ASSUME UnreadInv, phase = "up", NEW c, NEW events, NEW s, NEW run, NextVersion(c, events, s, run),
         NEW o \in seen, After(catalog, o)
  PROVE  After(c, o)
<1> USE DEF UnreadInv
<1>1. o \in Observation /\ (o.id = catalog.id => o.order <= catalog.order)
  BY VersionFacts, BoundFacts DEF TypeOK
<1>2. c.id = catalog.id /\ catalog.order \in Nat /\ o.order \in Nat /\ o.session \in Sessions
  BY <1>1 DEF NextVersion, TypeOK, Catalog, Observation
<1>3. ASSUME c.unread[o.session] # None, o.id = catalog.id
      PROVE  c.unread[o.session].order > o.order
  <2>1. o.session \in Unread(c)
    BY <1>2, <1>3 DEF Unread
  <2>2. CASE c.unread[o.session] = catalog.unread[o.session]
    BY <1>3, <2>2 DEF After
  <2>3. CASE c.unread[o.session].order = catalog.order + 1
    BY <1>1, <1>2, <1>3, <2>3
  <2> QED BY <2>1, <2>2, <2>3 DEF NextVersion
<1> QED BY <1>2, <1>3 DEF After

LEMMA MutateStep ==
  ASSUME UnreadInv, phase = "up", NEW c, NEW events, NEW s, NEW run, NextVersion(c, events, s, run),
         Mutate(c, events),
         UNCHANGED <<phase, disk, told, faults, ids>>,
         active' \subseteq Sessions, excluded' \subseteq Sessions, runs' \in Nat,
         request' \in [step : {"idle", "publish", "wait", "retry"}, ack : Observation \cup {None}],
         request'.ack # None => request'.ack \in seen /\ After(c, request'.ack)
  PROVE  UnreadInv'
<1> USE DEF told
<1>0. TypeOK /\ ChainOK /\ IdsOK /\ IdleOK /\ OrdersOK /\ EventsOK /\ AcksOK /\ DurableOK
  BY DEF UnreadInv
<1>1. /\ c \in Catalog /\ events \in Seq(Event) /\ c.id = catalog.id
      /\ catalog \in Catalog /\ catalog.order \in Nat /\ catalog.revision \in Nat
      /\ c.order \in Nat /\ c.revision \in Nat /\ catalog.revision <= c.revision
      /\ c.order = catalog.order \/ c.order = catalog.order + 1
      /\ c # None /\ catalog # None
  BY <1>0, NoneAssumption DEF NextVersion, TypeOK, Catalog
<1>2. catalog' = c /\ (events = <<>> => c = catalog)
  BY DEF Mutate, NextVersion
<1>3. /\ batch' \in Seq(Event) /\ queue' \in Seq(Event) /\ Len(queue') <= MaxPending
      /\ publication' \in {"idle", "wait", "retry"}
      /\ requested' \in BOOLEAN /\ retryTimer' \in BOOLEAN
      /\ publication' = "idle" => batch' = <<>>
      /\ Increasing(batch') /\ Increasing(queue') /\ AllBefore(batch', queue')
      /\ Waits' \subseteq Waits \cup Elements(events)
  BY <1>0, PublishFacts DEF Mutate, NextVersion
<1>4. /\ saving' \in {saving, c} /\ pending' \in {None, c} /\ failed' = failed
      /\ saving' = None => saving = None
      /\ saving' # None /\ pending' = None => saving' = c
      /\ saving' = None /\ pending' = None => disk = c
  BY <1>0, <1>1, <1>2 DEF Mutate, SchedulePersist, persistence, ChainOK
<1>5. TypeOK'
  BY <1>0, <1>1, <1>2, <1>3, <1>4 DEF TypeOK
<1>6. \A v \in Versions : Precedes(v, catalog) /\ v \in Catalog /\ v.order \in Nat /\ v.revision \in Nat
  BY BoundFacts DEF Catalog
<1>7. \A v \in Versions' : v = c \/ v \in Versions
  BY <1>2, <1>4 DEF Versions
<1>8. ChainOK'
  <2>1. disk # None /\ disk \in Versions /\ Precedes(disk, catalog) /\ (saving # None => saving \in Versions)
    BY <1>0, VersionFacts DEF ChainOK
  <2>2. Precedes(disk, c) /\ (saving # None => Precedes(disk, saving) /\ Precedes(saving, c))
    BY <1>0, <1>1, <1>6, <2>1 DEF ChainOK, Precedes
  <2>3. Precedes(c, c)
    BY <1>1 DEF Precedes
  <2> QED BY <1>1, <1>2, <1>4, <2>1, <2>2, <2>3 DEF ChainOK
<1> DEFINE new == [id |-> c.id, session |-> s, order |-> c.order, run |-> run]
           bumps == c.order = catalog.order + 1
<1>9. \A o \in Known' : o \in Known \/ (bumps /\ o = new)
  <2>1. ASSUME NEW o \in Observations(c) PROVE o \in Known \/ (bumps /\ o = new)
    <3>1. PICK r \in Unread(c) : o = [id |-> c.id, session |-> r, order |-> c.unread[r].order,
                                      run |-> c.unread[r].run]
      BY DEF Observations
    <3>2. CASE c.unread[r] = catalog.unread[r]
      <4>1. o \in Observations(catalog)
        BY <1>1, <3>1, <3>2 DEF Observations, Unread
      <4> QED BY <1>0, <4>1, VersionFacts
    <3>3. CASE bumps /\ r = s /\ c.unread[r] = [order |-> c.order, run |-> run]
      BY <3>1, <3>3
    <3> QED BY <3>2, <3>3 DEF NextVersion
  <2>2. ASSUME NEW o \in Announced' PROVE o \in Known \/ (bumps /\ o = new)
    <3>1. PICK e \in Waits' : e.unread # None /\ o = Told(e)
      BY DEF Announced, Told
    <3>2. CASE e \in Waits
      <4>1. o \in Announced
        BY <3>1, <3>2 DEF Announced
      <4> QED BY <1>0, <4>1, VersionFacts
    <3>3. CASE e \in Elements(events)
      BY <1>1, <3>1, <3>3 DEF NextVersion, Told
    <3> QED BY <1>3, <3>2, <3>3
  <2>3. ASSUME NEW o \in Known' PROVE o \in Known \/ (bumps /\ o = new)
    <3>1. CASE o \in seen
      BY <1>0, <3>1, VersionFacts
    <3>2. CASE \E v \in Versions' : o \in Observations(v)
      BY <1>0, <1>7, <2>1, <3>2, VersionFacts
    <3>3. CASE o \in Announced'
      BY <2>2, <3>3
    <3> HIDE DEF new, bumps
    <3> QED BY <3>1, <3>2, <3>3 DEF Known
  <2> QED BY <2>3
<1>10. \A o \in Known : /\ o.id = catalog.id => o.order <= catalog.order
                        /\ o \in Observation /\ o.order \in Nat
  BY BoundFacts DEF Known, Observation
<1>11. IdsOK'
  BY <1>0, <1>1, <1>2, <1>7, <1>9, VersionFacts DEF IdsOK
<1>12. OrdersOK'
  <2>1. ASSUME NEW v \in Versions', NEW r \in Unread(v) PROVE v.unread[r].order <= v.order
    <3>1. CASE v \in Versions
      BY <1>0, <3>1 DEF OrdersOK
    <3>2. CASE v = c /\ c.unread[r] = catalog.unread[r]
      <4>1. r \in Unread(catalog) /\ catalog.unread[r].order \in Nat
        BY <1>0, <3>2, VersionFacts DEF Unread, Entry
      <4>2. catalog.unread[r].order <= catalog.order
        BY <1>0, <4>1, VersionFacts DEF OrdersOK
      <4> QED BY <1>1, <3>2, <4>1, <4>2
    <3>3. CASE v = c /\ c.unread[r].order = c.order
      BY <1>1, <3>3
    <3> QED BY <1>7, <3>1, <3>2, <3>3 DEF NextVersion
  <2>2. ASSUME NEW x \in Known', NEW y \in Known', x.id = y.id, x.order = y.order PROVE x = y
    <3>1. new.id = catalog.id /\ (bumps => new.order = catalog.order + 1)
      BY <1>1
    <3> HIDE DEF new
    <3> QED BY <1>0, <1>1, <1>9, <1>10, <2>2, <3>1 DEF OrdersOK
  <2>3. ASSUME NEW o \in Known', NEW v \in Versions',
               o.id = v.id, o.order <= v.order, v.unread[o.session] # None
        PROVE  v.unread[o.session].order >= o.order
    <3>1. CASE o \in Known /\ v \in Versions
      BY <1>0, <2>3, <3>1 DEF OrdersOK
    <3>2. CASE o \in Known /\ v = c
      <4>1. o.id = catalog.id /\ o.order <= catalog.order /\ o.session \in Sessions
        BY <1>1, <1>10, <2>3, <3>2 DEF Observation
      <4>2. o.session \in Unread(c)
        BY <2>3, <3>2, <4>1 DEF Unread
      <4>3. CASE c.unread[o.session] = catalog.unread[o.session]
        BY <1>0, <2>3, <3>2, <4>1, <4>3, VersionFacts DEF OrdersOK
      <4>4. CASE c.unread[o.session].order = c.order
        BY <1>1, <1>10, <2>3, <3>2, <4>4
      <4> QED BY <3>2, <4>2, <4>3, <4>4 DEF NextVersion
    <3>3. CASE bumps /\ o = new /\ v \in Versions
      BY <1>1, <1>6, <2>3, <3>3 DEF Precedes
    <3>4. CASE bumps /\ o = new /\ v = c
      <4>1. bumps => (c.unread[s] # None => c.unread[s].order = c.order)
        BY <1>1 DEF NextVersion
      <4> QED BY <1>1, <2>3, <3>4, <4>1
    <3> HIDE DEF new, bumps
    <3> QED BY <1>7, <1>9, <3>1, <3>2, <3>3, <3>4
  <2> HIDE DEF new, bumps
  <2> QED BY <2>1, <2>2, <2>3 DEF OrdersOK
<1>13. DurableOK'
  BY <1>0 DEF DurableOK
<1>14. EventsOK'
  <2>1. ASSUME NEW e \in Waits' PROVE OfCatalog(e)' /\ (e \notin Waits => catalog.revision < e.revision)
    <3>1. CASE e \in Waits
      <4>1. e.unread # None => e.unread.order \in Nat
        <5>1. e \in Event
          BY <1>0, <3>1, ElementOfSeq DEF Waits, Elements, TypeOK
        <5> QED BY <5>1 DEF Event, Entry
      <4>2. e.revision \in Nat
        <5>1. e \in Event
          BY <1>0, <3>1, ElementOfSeq DEF Waits, Elements, TypeOK
        <5> QED BY <5>1 DEF Event
      <4> QED BY <1>0, <1>1, <1>2, <3>1, <4>1, <4>2 DEF EventsOK, OfCatalog
    <3>2. CASE e \in Elements(events)
      <4>1. e.unread # None => e.unread.order = c.order
        BY <3>2 DEF NextVersion
      <4> QED BY <1>1, <1>2, <3>2, <4>1 DEF NextVersion, OfCatalog
    <3> QED BY <1>3, <3>1, <3>2
  <2>2. ASSUME NEW e \in Waits', NEW p \in Elements(published), p.id = catalog.id
        PROVE  p.revision < e.revision
    <3>1. CASE e \in Waits
      BY <1>0, <2>2, <3>1 DEF EventsOK
    <3>2. CASE e \notin Waits
      <4>1. disk \in Versions /\ p.revision <= disk.revision
        BY <1>0, <1>6, <2>2, VersionFacts DEF ChainOK, DurableOK, Precedes
      <4>2. p.revision \in Nat /\ e.revision \in Nat
        <5>1. p \in Event /\ e \in Event
          BY <1>3, <1>0, ElementOfSeq DEF Waits, Elements, TypeOK
        <5> QED BY <5>1 DEF Event
      <4> QED BY <1>1, <1>6, <2>1, <3>2, <4>1, <4>2 DEF Precedes
    <3> QED BY <3>1, <3>2
  <2>3. published' = published /\ (\A i, j \in 1..Len(published) :
          (i < j /\ published[i].id = published[j].id) => published[i].revision < published[j].revision)
    BY <1>0 DEF EventsOK
  <2> QED BY <1>1, <1>2, <1>3, <2>1, <2>2, <2>3 DEF EventsOK
<1>15. AcksOK'
  <2>1. ASSUME NEW o \in acked, NEW v \in Versions' PROVE After(v, o)
    <3>1. o \in seen /\ After(catalog, o)
      BY <1>0, VersionFacts DEF AcksOK
    <3> QED BY <1>0, <1>7, <3>1, AfterNext DEF AcksOK
  <2> QED BY <1>0, <1>2, <2>1 DEF AcksOK
<1>16. IdleOK'
  BY DEF IdleOK
<1> QED BY <1>5, <1>8, <1>11, <1>12, <1>13, <1>14, <1>15, <1>16 DEF UnreadInv

LEMMA RemovalEvents ==
  ASSUME NEW c \in Catalog, Distinct(c), NEW R \in SUBSET Unread(c)
  PROVE  /\ Removals(c, R) \in Seq(Event) /\ Increasing(Removals(c, R))
         /\ \A e \in Elements(Removals(c, R)) :
              /\ e.id = c.id /\ e.unread = None
              /\ c.revision < e.revision /\ e.revision <= Without(c, R).revision
<1>1. /\ Cardinality(R) \in Nat /\ c.revision \in Nat
      /\ Without(c, R).revision = c.revision + Cardinality(R)
  BY UnreadFacts, WithoutFacts DEF Catalog
<1>2. /\ Removals(c, R) \in Seq(Event) /\ Len(Removals(c, R)) = Cardinality(R)
      /\ \A i \in 1..Cardinality(R) :
           /\ Removals(c, R)[i].id = c.id /\ Removals(c, R)[i].unread = None
           /\ Removals(c, R)[i].revision = c.revision + i
  BY RemovalsFacts
<1>3. Increasing(Removals(c, R))
  BY <1>1, <1>2 DEF Increasing
<1>4. ASSUME NEW e \in Elements(Removals(c, R))
      PROVE  /\ e.id = c.id /\ e.unread = None
             /\ c.revision < e.revision /\ e.revision <= Without(c, R).revision
  <2>1. PICK i \in 1..Cardinality(R) : e = Removals(c, R)[i]
    BY <1>2, <1>4 DEF Elements
  <2> QED BY <1>1, <1>2, <2>1
<1> QED BY <1>2, <1>3, <1>4

\* Taking sessions out of the catalog gives its next version.
LEMMA RemovalIsNext ==
  ASSUME UnreadInv, NEW R \in SUBSET Unread(catalog)
  PROVE  NextVersion(Without(catalog, R), Removals(catalog, R), None, None)
<1> DEFINE c == Without(catalog, R)
           events == Removals(catalog, R)
<1>1. catalog \in Versions /\ catalog \in Catalog /\ Distinct(catalog)
  BY VersionFacts, DistinctFacts DEF UnreadInv, TypeOK
<1>2. /\ c \in Catalog /\ c.id = catalog.id /\ c.order = catalog.order
      /\ c.revision = catalog.revision + Cardinality(R)
      /\ \A s \in Sessions : c.unread[s] = IF s \in R THEN None ELSE catalog.unread[s]
      /\ R = {} => c = catalog
  BY <1>1, WithoutFacts
<1>3. Cardinality(R) \in Nat /\ catalog.revision \in Nat
  BY <1>1, UnreadFacts DEF Catalog
<1>4. /\ events \in Seq(Event) /\ Increasing(events)
      /\ \A e \in Elements(events) :
           /\ e.id = catalog.id /\ e.unread = None
           /\ catalog.revision < e.revision /\ e.revision <= c.revision
  BY <1>1, RemovalEvents
<1>5. events = <<>> => R = {}
  BY <1>1, RemovalsFacts
<1>6. \A r \in Unread(c) : c.unread[r] = catalog.unread[r]
  BY <1>2 DEF Unread
<1> HIDE DEF c, events
<1>7. NextVersion(c, events, None, None)
  BY <1>2, <1>3, <1>4, <1>5, <1>6 DEF NextVersion
<1> QED BY <1>7 DEF c, events

LEMMA RemovalStep ==
  ASSUME UnreadInv, phase = "up", NEW R \in SUBSET Unread(catalog),
         Mutate(Without(catalog, R), Removals(catalog, R)),
         UNCHANGED <<phase, disk, told, runs, faults, ids>>,
         active' \subseteq Sessions, excluded' \subseteq Sessions,
         request' \in [step : {"idle", "publish", "wait", "retry"}, ack : Observation \cup {None}],
         request'.ack # None => request'.ack \in seen /\ After(Without(catalog, R), request'.ack)
  PROVE  UnreadInv'
<1>1. NextVersion(Without(catalog, R), Removals(catalog, R), None, None)
  BY RemovalIsNext
<1>2. runs' \in Nat
  BY DEF UnreadInv, TypeOK
<1> QED BY <1>1, <1>2, MutateStep

LEMMA ExcludeKeeps ==
  ASSUME UnreadInv, NEW s \in Sessions, Exclude(s)
  PROVE  UnreadInv'
<1>1. TypeOK /\ AcksOK
  BY DEF UnreadInv
<1> DEFINE R == Unread(catalog) \cap {s}
<1>2. R \in SUBSET Unread(catalog)
  OBVIOUS
<1>3. Mutate(Without(catalog, R), Removals(catalog, R))
  BY DEF Exclude
<1> HIDE DEF R
<1>4. /\ phase = "up" /\ UNCHANGED <<phase, disk, told, runs, faults, ids, request>>
      /\ active' \subseteq Sessions /\ excluded' \subseteq Sessions
  BY <1>1 DEF Exclude, TypeOK
<1>5. request.ack # None => request.ack \in seen /\ After(Without(catalog, R), request.ack)
  BY <1>1, <1>2, <1>4, RemovalIsNext, AfterNext DEF AcksOK
<1>6. request \in [step : {"idle", "publish", "wait", "retry"}, ack : Observation \cup {None}]
  BY <1>1 DEF TypeOK
<1> QED BY <1>2, <1>3, <1>4, <1>5, <1>6, RemovalStep

LEMMA ForgetKeeps ==
  ASSUME UnreadInv, NEW G \in SUBSET Sessions, Forget(G)
  PROVE  UnreadInv'
<1>1. TypeOK /\ AcksOK
  BY DEF UnreadInv
<1> DEFINE R == Unread(catalog) \cap G
<1>2. R \in SUBSET Unread(catalog)
  OBVIOUS
<1>3. Mutate(Without(catalog, R), Removals(catalog, R))
  BY DEF Forget
<1> HIDE DEF R
<1>4. /\ phase = "up" /\ UNCHANGED <<phase, disk, told, runs, faults, ids, request>>
      /\ active' \subseteq Sessions /\ excluded' \subseteq Sessions
  BY <1>1 DEF Forget, TypeOK
<1>5. request.ack # None => request.ack \in seen /\ After(Without(catalog, R), request.ack)
  BY <1>1, <1>2, <1>4, RemovalIsNext, AfterNext DEF AcksOK
<1>6. request \in [step : {"idle", "publish", "wait", "retry"}, ack : Observation \cup {None}]
  BY <1>1 DEF TypeOK
<1> QED BY <1>2, <1>3, <1>4, <1>5, <1>6, RemovalStep

LEMMA AcknowledgeKeeps ==
  ASSUME UnreadInv, NEW o \in seen, Acknowledge(o)
  PROVE  UnreadInv'
<1>1. TypeOK /\ o \in Observation /\ o \in Known
  BY VersionFacts DEF UnreadInv, TypeOK
<1> DEFINE R == IF Acknowledges(o) THEN {o.session} ELSE {}
<1>2. o.session \in Sessions /\ o.order \in Nat /\ o # None
  BY <1>1, NoneAssumption DEF Observation
<1>3. R \in SUBSET Unread(catalog)
  BY <1>2 DEF Acknowledges, Unread
<1>4. Mutate(Without(catalog, R), Removals(catalog, R))
  BY DEF Acknowledge
<1>5. After(Without(catalog, R), o)
  <2>1. catalog \in Catalog
    BY <1>1 DEF TypeOK
  <2>2. /\ Without(catalog, R).id = catalog.id
        /\ Without(catalog, R).unread[o.session]
             = IF o.session \in R THEN None ELSE catalog.unread[o.session]
    <3> HIDE DEF R
    <3> QED BY <1>2, <1>3, <2>1, WithoutFacts
  <2>3. CASE Acknowledges(o)
    BY <2>2, <2>3 DEF After
  <2>4. CASE ~Acknowledges(o) /\ catalog.id = o.id /\ catalog.unread[o.session] # None
    <3>1. catalog.unread[o.session].order \in Nat
      BY <1>2, <2>1, <2>4, UnreadFacts DEF Unread, Entry
    <3> QED BY <1>2, <2>2, <2>4, <3>1 DEF After, Acknowledges
  <2>5. CASE ~(catalog.id = o.id /\ catalog.unread[o.session] # None)
    BY <2>2, <2>5 DEF After
  <2> QED BY <2>3, <2>4, <2>5
<1> HIDE DEF R
<1>6. /\ phase = "up" /\ UNCHANGED <<phase, disk, told, runs, faults, ids>>
      /\ active' \subseteq Sessions /\ excluded' \subseteq Sessions
  BY <1>1 DEF Acknowledge, TypeOK
<1>7. /\ request' \in [step : {"idle", "publish", "wait", "retry"}, ack : Observation \cup {None}]
      /\ request'.ack \in {o, None}
  BY <1>1 DEF Acknowledge, Join
<1> QED BY <1>2, <1>3, <1>4, <1>5, <1>6, <1>7, RemovalStep

LEMMA ReadCatalogKeeps ==
  ASSUME UnreadInv, ReadCatalog
  PROVE  UnreadInv'
<1>1. TypeOK /\ catalog \in Catalog
  BY DEF UnreadInv, TypeOK
<1>2. {} \in SUBSET Unread(catalog)
  OBVIOUS
<1>3. Without(catalog, {}) = catalog /\ Removals(catalog, {}) = <<>>
  <2>1. catalog \in Versions /\ Distinct(catalog)
    BY <1>1, VersionFacts, DistinctFacts
  <2> QED BY <1>1, <1>2, <2>1, WithoutFacts, RemovalsFacts
<1>4. Mutate(Without(catalog, {}), Removals(catalog, {}))
  BY <1>3 DEF ReadCatalog, Mutate, store
<1>5. /\ phase = "up" /\ UNCHANGED <<phase, disk, told, runs, faults, ids>>
      /\ active' \subseteq Sessions /\ excluded' \subseteq Sessions
  BY <1>1 DEF ReadCatalog, TypeOK, store
<1>6. /\ request' \in [step : {"idle", "publish", "wait", "retry"}, ack : Observation \cup {None}]
      /\ request'.ack = None
  BY DEF ReadCatalog, Join
<1> QED BY <1>2, <1>4, <1>5, <1>6, RemovalStep

LEMMA CompletesKeeps ==
  ASSUME UnreadInv, NEW s \in Sessions, Completes(s)
  PROVE  UnreadInv'
<1>0. TypeOK /\ OrdersOK /\ AcksOK /\ catalog \in Versions /\ catalog \in Catalog
  BY VersionFacts DEF UnreadInv, TypeOK
<1> DEFINE run == runs + 1
           done == Completed(catalog, s, run)
           over == OverLimit(done)
           c == Without(done, over)
           first == Completion(catalog, s, run)
           events == first \o Removals(done, over)
           entry == [order |-> catalog.order + 1, run |-> run]
<1>1. run \in Nat /\ catalog.order \in Nat /\ catalog.revision \in Nat /\ entry \in Entry
  BY <1>0 DEF TypeOK, Catalog, Entry
<1>2. /\ done \in Catalog /\ done.id = catalog.id /\ done.order = catalog.order + 1
      /\ done.revision = catalog.revision + 1
      /\ \A r \in Sessions : done.unread[r] = IF r = s THEN entry ELSE catalog.unread[r]
  <2> DEFINE u == [catalog.unread EXCEPT ![s] = entry]
  <2>1. u \in [Sessions -> Entry \cup {None}]
        /\ \A r \in Sessions : u[r] = IF r = s THEN entry ELSE catalog.unread[r]
    <3> HIDE DEF entry
    <3> QED BY <1>0, <1>1 DEF Catalog
  <2>2. done = [catalog EXCEPT !.revision = catalog.revision + 1, !.order = catalog.order + 1,
                               !.unread = u]
    BY Zenon DEF Completed, NextOrder
  <2> HIDE DEF u, done, entry
  <2>3. done = [id |-> catalog.id, revision |-> catalog.revision + 1, order |-> catalog.order + 1,
                unread |-> u]
    BY <1>0, <2>2 DEF Catalog
  <2>4. catalog.id \in Nat /\ catalog.revision + 1 \in Nat /\ catalog.order + 1 \in Nat
    BY <1>0, <1>1 DEF Catalog
  <2>5. done \in Catalog
    BY <2>1, <2>3, <2>4 DEF Catalog
  <2> QED BY <2>1, <2>3, <2>5
<1>3. /\ first \in Seq(Event) /\ Increasing(first) /\ Len(first) = 1
      /\ \A e \in Elements(first) :
           /\ e.id = catalog.id /\ e.revision = catalog.revision + 1
           /\ e.session = s /\ e.unread = entry
  <2> DEFINE e == [id |-> catalog.id, revision |-> catalog.revision + 1, session |-> s, unread |-> entry]
  <2>1. e \in Event
    <3> HIDE DEF entry
    <3> QED BY <1>0, <1>1 DEF Event, Catalog
  <2>2. first = <<e>>
    BY DEF Completion, NextOrder
  <2>3. /\ e.id = catalog.id /\ e.revision = catalog.revision + 1
        /\ e.session = s /\ e.unread = entry
    OBVIOUS
  <2> HIDE DEF e, first, entry
  <2> QED BY <2>1, <2>2, <2>3 DEF Elements, Increasing
<1> HIDE DEF entry, done, first
<1>4. Distinct(done)
  <2> SUFFICES ASSUME NEW x \in Unread(done), NEW y \in Unread(done),
                      done.unread[x].order = done.unread[y].order
               PROVE  x = y
    BY DEF Distinct
  <2>1. x \in Sessions /\ y \in Sessions
    BY DEF Unread
  <2>2. \A r \in Sessions : r # s /\ done.unread[r] # None =>
          r \in Unread(catalog) /\ catalog.unread[r].order \in Nat
            /\ catalog.unread[r].order <= catalog.order
    BY <1>0, <1>2, VersionFacts DEF OrdersOK, Unread, Entry
  <2>3. entry.order = catalog.order + 1
    BY DEF entry
  <2>4. CASE x # s /\ y # s
    BY <1>0, <1>2, <2>1, <2>2, <2>4, DistinctFacts DEF Distinct, Unread
  <2>5. CASE x = s \/ y = s
    BY <1>1, <1>2, <2>1, <2>2, <2>3, <2>5 DEF Unread
  <2> QED BY <2>4, <2>5
<1>5. over \in SUBSET Unread(done)
  BY DEF OverLimit
<1> HIDE DEF over
<1>6. /\ c \in Catalog /\ c.id = catalog.id /\ c.order = catalog.order + 1
      /\ c.revision = catalog.revision + 1 + Cardinality(over) /\ Cardinality(over) \in Nat
      /\ \A r \in Sessions : c.unread[r] = IF r \in over THEN None ELSE done.unread[r]
  BY <1>2, <1>5, WithoutFacts, UnreadFacts
<1>7. /\ Removals(done, over) \in Seq(Event) /\ Increasing(Removals(done, over))
      /\ \A e \in Elements(Removals(done, over)) :
           /\ e.id = catalog.id /\ e.unread = None
           /\ catalog.revision + 1 < e.revision /\ e.revision <= c.revision
  BY <1>2, <1>4, <1>5, RemovalEvents
<1> HIDE DEF c
<1>8. /\ events \in Seq(Event) /\ Increasing(events) /\ events # <<>>
      /\ \A e \in Elements(events) : e \in Elements(first) \/ e \in Elements(Removals(done, over))
  <2> DEFINE rest == Removals(done, over)
  <2>1. AllBefore(first, rest)
    BY <1>3, <1>7 DEF AllBefore
  <2>2. rest \in Seq(Event) /\ Increasing(rest)
    BY <1>7
  <2> HIDE DEF rest
  <2>3. /\ first \o rest \in Seq(Event) /\ Increasing(first \o rest)
        /\ Len(first \o rest) = 1 + Len(rest) /\ Elements(first \o rest) = Elements(first) \cup Elements(rest)
    BY <1>3, <2>1, <2>2, ConcatFacts
  <2>4. Len(rest) \in Nat
    BY <2>2, LenProperties
  <2>5. first \o rest # <<>>
    BY <2>3, <2>4, EmptySeq
  <2> QED BY <2>3, <2>5 DEF rest
<1> HIDE DEF events
<1>9. NextVersion(c, events, s, run)
  <2>1. \A r \in Unread(c) : c.unread[r] = catalog.unread[r] \/ (r = s /\ c.unread[r] = entry)
    BY <1>2, <1>6 DEF Unread
  <2>2. c.unread[s] # None => c.unread[s].order = c.order
    BY <1>2, <1>6 DEF entry
  <2>3. entry = [order |-> c.order, run |-> run]
    BY <1>6 DEF entry
  <2>4. \A e \in Elements(events) :
          /\ e.id = catalog.id /\ catalog.revision < e.revision /\ e.revision <= c.revision
          /\ e.unread # None => e.session = s /\ e.unread = entry
    <3>1. c.revision \in Nat /\ catalog.revision + 1 <= c.revision
      BY <1>1, <1>6
    <3>2. Elements(Removals(done, over)) \subseteq Event
      BY <1>7, ElementOfSeq DEF Elements
    <3> QED BY <1>1, <1>3, <1>7, <1>8, <3>1, <3>2 DEF Event
  <2> HIDE DEF run
  <2> QED BY <1>1, <1>6, <1>8, <2>1, <2>2, <2>3, <2>4 DEF NextVersion
<1>10. /\ phase = "up" /\ Mutate(c, events) /\ UNCHANGED <<phase, disk, told, faults, ids, request>>
       /\ active' \subseteq Sessions /\ excluded' \subseteq Sessions /\ runs' = run
  BY <1>0 DEF Completes, c, events, done, over, first, TypeOK
<1> HIDE DEF run
<1>11. request.ack # None => request.ack \in seen /\ After(c, request.ack)
  BY <1>0, <1>9, <1>10, AfterNext DEF AcksOK
<1>12. request \in [step : {"idle", "publish", "wait", "retry"}, ack : Observation \cup {None}]
  BY <1>0 DEF TypeOK
<1> QED BY <1>1, <1>9, <1>10, <1>11, <1>12, MutateStep

----------------------------------------------------------------------------
(* The steps that make no version of the catalog *)

LEMMA EmptyFacts ==
  ASSUME NEW id \in Nat
  PROVE  /\ Empty(id) \in Catalog /\ Unread(Empty(id)) = {} /\ Empty(id) # None
         /\ Empty(id).id = id
<1>1. Empty(id) \in Catalog /\ Unread(Empty(id)) = {} /\ Empty(id).id = id
  BY DEF Empty, Catalog, Unread
<1> QED BY <1>1, NoneAssumption

\* With no version but old and empty ones, and no event but old ones, nothing new can
\* be told.
LEMMA NothingNew ==
  ASSUME UnreadInv, TypeOK', \A v \in Versions' : v \in Versions \/ Unread(v) = {},
         seen' \subseteq Known, Waits' \subseteq Waits
  PROVE  Known' \subseteq Known /\ OrdersOK'
<1>1. TypeOK /\ OrdersOK
  BY DEF UnreadInv
<1>2. Announced' \subseteq Announced
  BY DEF Announced
<1>3. \A v \in Versions' : Observations(v) # {} => v \in Versions
  BY DEF Observations
<1>4. Known' \subseteq Known
  <2>1. \A v \in Versions' : Observations(v) \subseteq Known
    BY <1>1, <1>3, VersionFacts
  <2> QED BY <1>1, <1>2, <2>1, VersionFacts DEF Known
<1>5. \A v \in Versions' : \A s \in Unread(v) : v \in Versions
  OBVIOUS
<1>6. ASSUME NEW o \in Known, NEW v \in Versions', v.unread[o.session] # None PROVE v \in Versions
  <2>1. o.session \in Sessions
    BY DEF Known, Observation
  <2> QED BY <1>5, <1>6, <2>1 DEF Unread
<1>7. \A v \in Versions' : \A s \in Unread(v) : v.unread[s].order <= v.order
  BY <1>1, <1>5 DEF OrdersOK
<1>8. \A x, y \in Known' : x.id = y.id /\ x.order = y.order => x = y
  BY <1>1, <1>4 DEF OrdersOK
<1>9. \A o \in Known', v \in Versions' :
        o.id = v.id /\ o.order <= v.order /\ v.unread[o.session] # None
          => v.unread[o.session].order >= o.order
  BY <1>1, <1>4, <1>6 DEF OrdersOK
<1> QED BY <1>4, <1>7, <1>8, <1>9 DEF OrdersOK

\* The catalog, its copies and the events stay; at most the request is dropped.
LEMMA QuietKeeps ==
  ASSUME UnreadInv,
         UNCHANGED <<phase, catalog, excluded, persistence, disk, publishing, told, runs, faults, ids>>,
         active' \subseteq Sessions,
         request' \in {request, [step |-> "idle", ack |-> None]}
  PROVE  UnreadInv'
<1>1. TypeOK /\ ChainOK /\ IdsOK /\ IdleOK /\ OrdersOK /\ EventsOK /\ AcksOK /\ DurableOK
  BY DEF UnreadInv
<1> USE DEF persistence, publishing, told
<1>2. TypeOK'
  BY <1>1 DEF TypeOK
<1>3. Versions' = Versions /\ Waits' = Waits /\ seen' = seen
  BY DEF Versions, Waits
<1>4. Known' \subseteq Known /\ OrdersOK'
  BY <1>1, <1>2, <1>3, NothingNew, VersionFacts
<1>5. ChainOK' /\ DurableOK'
  BY <1>1 DEF ChainOK, DurableOK
<1>6. IdsOK'
  BY <1>1, <1>3, <1>4 DEF IdsOK
<1>7. IdleOK'
  BY <1>1 DEF IdleOK
<1>8. EventsOK'
  BY <1>1, <1>3 DEF EventsOK, OfCatalog
<1>9. AcksOK'
  BY <1>1, <1>3 DEF AcksOK
<1> QED BY <1>2, <1>4, <1>5, <1>6, <1>7, <1>8, <1>9 DEF UnreadInv

\* A flush that tries once more starts the worker on the pending snapshot.
LEMMA RetryKeeps ==
  ASSUME UnreadInv, phase = "up", saving = None, pending # None, StartWorker,
         UNCHANGED <<phase, store, disk, batch, queue, requested, retryTimer, told, runs, faults, ids>>,
         \/ publication' = "retry" /\ request' = request
         \/ publication' = publication /\ request' = [request EXCEPT !.step = "retry"]
  PROVE  UnreadInv'
<1>1. TypeOK /\ ChainOK /\ IdsOK /\ IdleOK /\ OrdersOK /\ EventsOK /\ AcksOK /\ DurableOK
  BY DEF UnreadInv
<1> USE DEF store, told
<1>2. request'.ack = request.ack
      /\ request' \in [step : {"idle", "publish", "wait", "retry"}, ack : Observation \cup {None}]
  BY <1>1 DEF TypeOK
<1>3. saving' = catalog /\ pending' = None /\ failed' = failed
  BY <1>1 DEF StartWorker, ChainOK
<1>4. TypeOK'
  BY <1>1, <1>2, <1>3 DEF TypeOK
<1>5. Versions' \subseteq Versions /\ Waits' = Waits /\ seen' = seen
  BY <1>3 DEF Versions, Waits
<1>6. Known' \subseteq Known /\ OrdersOK'
  BY <1>1, <1>4, <1>5, NothingNew, VersionFacts
<1>7. ChainOK'
  <2>1. Precedes(catalog, catalog)
    BY <1>1 DEF Precedes, TypeOK, Catalog
  <2> QED BY <1>1, <1>3, <2>1 DEF ChainOK
<1>8. IdsOK' /\ DurableOK' /\ IdleOK'
  BY <1>1, <1>5, <1>6 DEF IdsOK, DurableOK, IdleOK
<1>9. EventsOK'
  BY <1>1, <1>5 DEF EventsOK, OfCatalog
<1>10. AcksOK'
  BY <1>1, <1>2, <1>5 DEF AcksOK
<1> QED BY <1>4, <1>6, <1>7, <1>8, <1>9, <1>10 DEF UnreadInv

LEMMA RequestAnsweredKeeps ==
  ASSUME UnreadInv, RequestAnswered
  PROVE  UnreadInv'
<1>1. TypeOK /\ ChainOK /\ IdsOK /\ IdleOK /\ OrdersOK /\ EventsOK /\ AcksOK /\ DurableOK
  BY DEF UnreadInv
<1>2. /\ phase = "up" /\ saving = None /\ pending = None /\ disk = catalog
      /\ request' = [step |-> "idle", ack |-> None]
      /\ seen' = seen \cup Observations(catalog) /\ acked' = acked \cup ({request.ack} \ {None})
      /\ UNCHANGED <<phase, catalog, active, excluded, pending, saving, failed, disk, published,
                     publication, batch, queue, requested, retryTimer, runs, faults, ids>>
  BY <1>1 DEF RequestAnswered, FlushClean, ChainOK, IdleOK, store, persistence, publishing
<1>3. catalog \in Versions /\ Observations(catalog) \subseteq Known /\ seen \subseteq Known
      /\ Observations(catalog) \subseteq Observation /\ Versions \ {catalog} = {}
  <2>1. Versions \ {catalog} = {}
    BY <1>2 DEF Versions
  <2> QED BY <1>1, <2>1, VersionFacts
<1>4. TypeOK'
  <2>1. seen' \subseteq Observation /\ acked' \subseteq Observation
    BY <1>1, <1>2, <1>3 DEF TypeOK
  <2> QED BY <1>1, <1>2, <2>1 DEF TypeOK
<1>5. Versions' = Versions /\ Waits' = Waits
  BY <1>2 DEF Versions, Waits
<1>6. Known' \subseteq Known /\ OrdersOK'
  BY <1>2, <1>3, <1>4, <1>5, NothingNew
<1>7. ChainOK' /\ IdleOK'
  BY <1>1, <1>2 DEF ChainOK, IdleOK
<1>8. IdsOK'
  BY <1>1, <1>2, <1>5, <1>6 DEF IdsOK
<1>9. DurableOK'
  <2>1. ASSUME NEW o \in Observations(catalog) PROVE o.order <= catalog.order
    <3>1. PICK s \in Unread(catalog) : o.order = catalog.unread[s].order
      BY DEF Observations
    <3> QED BY <1>1, <1>3, <3>1 DEF OrdersOK
  <2> QED BY <1>1, <1>2, <2>1 DEF DurableOK
<1>10. EventsOK'
  BY <1>1, <1>2, <1>5 DEF EventsOK, OfCatalog
<1>11. AcksOK'
  BY <1>1, <1>2, <1>3, <1>5 DEF AcksOK
<1> QED BY <1>4, <1>6, <1>7, <1>8, <1>9, <1>10, <1>11 DEF UnreadInv

LEMMA PublicationFailsKeeps ==
  ASSUME UnreadInv, PublicationFails
  PROVE  UnreadInv'
<1>1. TypeOK /\ ChainOK /\ IdsOK /\ IdleOK /\ OrdersOK /\ EventsOK /\ AcksOK /\ DurableOK
  BY DEF UnreadInv
<1>2. /\ phase = "up"
      /\ publication' = "idle" /\ batch' = <<>> /\ queue' = Trimmed(batch \o queue)
      /\ requested' = TRUE /\ retryTimer' = TRUE
      /\ request' \in {request, [step |-> "idle", ack |-> None]}
      /\ UNCHANGED <<phase, catalog, active, excluded, pending, saving, failed, disk, seen, published,
                     acked, runs, faults, ids>>
  BY <1>1 DEF PublicationFails, FlushFailed, PutBack, RetryScheduled, IdleOK, store, persistence, told
<1>3. /\ queue' \in Seq(Event) /\ Len(queue') <= MaxPending
      /\ Elements(queue') \subseteq Waits /\ Increasing(queue')
  <2> DEFINE all == batch \o queue
  <2>1. all \in Seq(Event) /\ Elements(all) = Waits /\ Increasing(all)
    BY <1>1, ConcatFacts DEF TypeOK, EventsOK, Waits
  <2> HIDE DEF all
  <2>2. /\ Trimmed(all) \in Seq(Event) /\ Len(Trimmed(all)) <= MaxPending
        /\ Elements(Trimmed(all)) \subseteq Waits /\ Increasing(Trimmed(all))
    BY <2>1, TrimmedFacts
  <2> QED BY <1>2, <2>2 DEF all
<1>4. <<>> \in Seq(Event) /\ Elements(<<>>) = {} /\ Increasing(<<>>)
  BY EmptySeq DEF Elements, Increasing
<1>5. TypeOK'
  BY <1>1, <1>2, <1>3, <1>4 DEF TypeOK
<1>6. Versions' = Versions /\ Waits' \subseteq Waits
  BY <1>2, <1>3, <1>4 DEF Versions, Waits
<1>7. Known' \subseteq Known /\ OrdersOK'
  BY <1>1, <1>2, <1>5, <1>6, NothingNew, VersionFacts
<1>8. ChainOK' /\ IdleOK' /\ DurableOK'
  BY <1>1, <1>2 DEF ChainOK, IdleOK, DurableOK
<1>9. IdsOK'
  BY <1>1, <1>2, <1>6, <1>7 DEF IdsOK
<1>10. EventsOK'
  <2>1. AllBefore(batch', queue') /\ Increasing(batch')
    BY <1>2, <1>4 DEF AllBefore
  <2>2. \A e \in Waits' : OfCatalog(e)'
    BY <1>1, <1>2, <1>6 DEF EventsOK, OfCatalog
  <2>3. \A e \in Waits', p \in Elements(published') : p.id = catalog'.id => p.revision < e.revision
    BY <1>1, <1>2, <1>6 DEF EventsOK
  <2> QED BY <1>1, <1>2, <1>3, <2>1, <2>2, <2>3 DEF EventsOK
<1>11. AcksOK'
  BY <1>1, <1>2, <1>6 DEF AcksOK
<1> QED BY <1>5, <1>7, <1>8, <1>9, <1>10, <1>11 DEF UnreadInv

LEMMA RetryFiresKeeps ==
  ASSUME UnreadInv, RetryFires
  PROVE  UnreadInv'
<1>1. TypeOK /\ ChainOK /\ IdsOK /\ IdleOK /\ OrdersOK /\ EventsOK /\ AcksOK /\ DurableOK
  BY DEF UnreadInv
<1>2. /\ phase = "up"
      /\ publication' = "wait" /\ batch' = queue /\ queue' = <<>>
      /\ requested' = FALSE /\ retryTimer' = FALSE
      /\ UNCHANGED <<phase, catalog, active, excluded, pending, saving, failed, disk, seen, published,
                     acked, request, runs, faults, ids>>
  BY DEF RetryFires, store, persistence, told
<1>3. <<>> \in Seq(Event) /\ Elements(<<>>) = {} /\ Increasing(<<>>) /\ Len(<<>>) = 0 /\ MaxPending \in Nat
  BY EmptySeq, LimitsAssumption DEF Elements, Increasing
<1>4. TypeOK'
  <2>1. batch' \in Seq(Event) /\ queue' \in Seq(Event) /\ Len(queue') <= MaxPending
    BY <1>1, <1>2, <1>3 DEF TypeOK
  <2> QED BY <1>1, <1>2, <2>1 DEF TypeOK
<1>5. Versions' = Versions /\ Waits' \subseteq Waits
  BY <1>2, <1>3 DEF Versions, Waits
<1>6. Known' \subseteq Known /\ OrdersOK'
  BY <1>1, <1>2, <1>4, <1>5, NothingNew, VersionFacts
<1>7. ChainOK' /\ IdleOK' /\ DurableOK'
  BY <1>1, <1>2 DEF ChainOK, IdleOK, DurableOK
<1>8. IdsOK'
  BY <1>1, <1>2, <1>5, <1>6 DEF IdsOK
<1>9. EventsOK'
  <2>1. AllBefore(batch', queue') /\ Increasing(queue') /\ Increasing(batch')
    BY <1>1, <1>2, <1>3 DEF AllBefore, EventsOK
  <2>2. \A e \in Waits' : OfCatalog(e)'
    BY <1>1, <1>2, <1>5 DEF EventsOK, OfCatalog
  <2>3. \A e \in Waits', p \in Elements(published') : p.id = catalog'.id => p.revision < e.revision
    BY <1>1, <1>2, <1>5 DEF EventsOK
  <2> QED BY <1>1, <1>2, <2>1, <2>2, <2>3 DEF EventsOK
<1>10. AcksOK'
  BY <1>1, <1>2, <1>5 DEF AcksOK
<1> QED BY <1>4, <1>6, <1>7, <1>8, <1>9, <1>10 DEF UnreadInv

\* The batch has been sent: what it tells is durable, and comes before what waits.
LEMMA PublicationSendsKeeps ==
  ASSUME UnreadInv, PublicationSends
  PROVE  UnreadInv'
<1>1. TypeOK /\ ChainOK /\ IdsOK /\ IdleOK /\ OrdersOK /\ EventsOK /\ AcksOK /\ DurableOK
  BY DEF UnreadInv
<1> DEFINE now == {Told(e) : e \in {x \in Elements(batch) : x.unread # None}}
<1>2. /\ phase = "up" /\ saving = None /\ pending = None /\ disk = catalog
      /\ published' = published \o batch /\ seen' = seen \cup now
      /\ UNCHANGED <<phase, catalog, active, excluded, pending, saving, failed, disk, acked,
                     runs, faults, ids>>
  <2>1. PublicationSends => published' = published \o batch /\ seen' = seen \cup now
    BY DEF PublicationSends, Elements, Told
  <2> HIDE DEF now
  <2> QED BY <1>1, <2>1 DEF PublicationSends, FlushClean, ChainOK, IdleOK, store, persistence
<1>3. <<>> \in Seq(Event) /\ Elements(<<>>) = {} /\ Increasing(<<>>) /\ Len(<<>>) = 0 /\ MaxPending \in Nat
  BY EmptySeq, LimitsAssumption DEF Elements, Increasing
<1>4. /\ batch' \in {queue, <<>>} /\ queue' \in {queue, <<>>} /\ (batch' # <<>> => queue' = <<>>)
      /\ publication' \in {"idle", "wait"} /\ (publication' = "idle" => batch' = <<>>)
      /\ requested' \in BOOLEAN /\ retryTimer' \in BOOLEAN
  BY <1>1 DEF PublicationSends, Drain, TypeOK
<1>5. /\ request' \in [step : {"idle", "publish", "wait", "retry"}, ack : Observation \cup {None}]
      /\ request'.ack = request.ack
  BY <1>1 DEF PublicationSends, TypeOK
<1>6. now \subseteq Announced /\ now \subseteq Known /\ now \subseteq Observation
  <2>1. now \subseteq Announced
    BY DEF Announced, Waits
  <2> HIDE DEF now
  <2> QED BY <1>1, <2>1, VersionFacts DEF Known
<1> HIDE DEF now
<1>7. /\ published' \in Seq(Event) /\ Elements(published') = Elements(published) \cup Elements(batch)
      /\ Len(published') = Len(published) + Len(batch)
  BY <1>1, <1>2, ConcatFacts DEF TypeOK
<1>8. TypeOK'
  <2>1. seen' \subseteq Observation
    BY <1>1, <1>2, <1>6 DEF TypeOK
  <2>2. batch' \in Seq(Event) /\ queue' \in Seq(Event) /\ Len(queue') <= MaxPending
    <3>1. queue \in Seq(Event) /\ Len(queue) <= MaxPending
      BY <1>1 DEF TypeOK
    <3>2. Len(<<>>) <= MaxPending
      BY <1>3
    <3>3. queue' = queue \/ queue' = <<>>
      BY <1>4
    <3>4. batch' = queue \/ batch' = <<>>
      BY <1>4
    <3>5. batch' \in Seq(Event)
      BY <1>3, <3>1, <3>4, Zenon
    <3>6. queue' \in Seq(Event) /\ Len(queue') <= MaxPending
      BY <1>3, <3>1, <3>2, <3>3, Zenon
    <3> QED BY <3>5, <3>6
  <2> QED BY <1>1, <1>2, <1>4, <1>5, <1>7, <2>1, <2>2 DEF TypeOK
<1>9. Versions' = Versions /\ Waits' \subseteq Elements(queue) /\ Waits' \subseteq Waits
  BY <1>2, <1>3, <1>4 DEF Versions, Waits
<1>10. Known' \subseteq Known /\ OrdersOK'
  BY <1>1, <1>2, <1>6, <1>8, <1>9, NothingNew, VersionFacts
<1>11. ChainOK' /\ IdleOK'
  BY <1>1, <1>2 DEF ChainOK, IdleOK
<1>12. \A e \in Elements(batch) : e.id = catalog.id /\ OfCatalog(e)
  BY <1>1 DEF EventsOK, Waits, OfCatalog
<1>13. catalog.id <= ids
  BY <1>1, VersionFacts DEF IdsOK
<1>14. IdsOK'
  BY <1>1, <1>2, <1>7, <1>9, <1>10, <1>12, <1>13 DEF IdsOK
<1>15. DurableOK'
  <2>1. \A o \in now : o.id = disk.id => o.order <= disk.order
    BY <1>2, <1>12 DEF now, Told, OfCatalog
  <2>2. \A e \in Elements(batch) : e.revision <= disk.revision
    BY <1>2, <1>12 DEF OfCatalog
  <2> QED BY <1>1, <1>2, <1>7, <2>1, <2>2 DEF DurableOK
<1>16. EventsOK'
  <2>1. AllBefore(batch', queue') /\ Increasing(queue') /\ Increasing(batch')
    BY <1>1, <1>3, <1>4 DEF AllBefore, EventsOK
  <2>2. \A e \in Waits' : OfCatalog(e)'
    BY <1>1, <1>2, <1>9 DEF EventsOK, OfCatalog
  <2>3. \A e \in Waits', p \in Elements(published') : p.id = catalog.id => p.revision < e.revision
    BY <1>1, <1>7, <1>9 DEF EventsOK, AllBefore
  <2>4. ASSUME NEW i \in 1..Len(published'), NEW j \in 1..Len(published'),
               i < j, published'[i].id = published'[j].id
        PROVE  published'[i].revision < published'[j].revision
    <3> DEFINE n == Len(published)
    <3>1. /\ n \in Nat /\ Len(batch) \in Nat
          /\ \A k \in 1..(n + Len(batch)) :
               published'[k] = IF k <= n THEN published[k] ELSE batch[k - n]
      BY <1>1, <1>2, ConcatProperties, LenProperties DEF TypeOK
    <3>2. CASE j <= n
      BY <1>1, <1>7, <2>4, <3>1, <3>2 DEF EventsOK
    <3>3. CASE i > n
      BY <1>1, <1>7, <2>4, <3>1, <3>3 DEF EventsOK, Increasing
    <3>4. CASE i <= n /\ j > n
      <4>1. published[i] \in Elements(published) /\ batch[j - n] \in Elements(batch)
        BY <1>7, <2>4, <3>1, <3>4 DEF Elements
      <4>2. published'[i] = published[i] /\ published'[j] = batch[j - n]
        BY <1>7, <2>4, <3>1, <3>4
      <4> QED BY <1>1, <1>12, <2>4, <4>1, <4>2 DEF EventsOK, Waits
    <3> QED BY <1>7, <2>4, <3>1, <3>2, <3>3, <3>4
  <2> QED BY <1>2, <1>4, <2>1, <2>2, <2>3, <2>4 DEF EventsOK
<1>17. AcksOK'
  BY <1>1, <1>2, <1>5, <1>9 DEF AcksOK
<1> QED BY <1>8, <1>10, <1>11, <1>14, <1>15, <1>16, <1>17 DEF UnreadInv

----------------------------------------------------------------------------
(* The file and the process *)

LEMMA SaveSucceedsKeeps ==
  ASSUME UnreadInv, SaveSucceeds
  PROVE  UnreadInv'
<1>1. TypeOK /\ ChainOK /\ IdsOK /\ IdleOK /\ OrdersOK /\ EventsOK /\ AcksOK /\ DurableOK
  BY DEF UnreadInv
<1>2. /\ saving # None /\ disk' = saving /\ saving' = pending /\ pending' = None /\ failed' = FALSE
      /\ phase' = "up" /\ phase \in {"loading", "up"}
      /\ UNCHANGED <<catalog, active, excluded, publication, batch, queue, requested, retryTimer,
                     request, seen, published, acked, runs, faults, ids>>
  BY <1>1 DEF SaveSucceeds, IdleOK, TypeOK, store, publishing, told
<1>3. TypeOK'
  BY <1>1, <1>2 DEF TypeOK
<1>4. Versions' \subseteq Versions /\ Waits' = Waits /\ saving \in Versions
  BY <1>1, <1>2 DEF Versions, Waits, ChainOK
<1>5. Known' \subseteq Known /\ OrdersOK'
  BY <1>1, <1>2, <1>3, <1>4, NothingNew, VersionFacts
<1>6. Precedes(catalog, catalog)
  BY <1>1 DEF Precedes, TypeOK, Catalog
<1>7. ChainOK'
  <2>1. Precedes(saving, catalog) /\ (pending = None => saving = catalog)
    BY <1>1, <1>2, <1>6 DEF ChainOK, IdleOK
  <2>2. pending = None \/ pending = catalog
    BY <1>1 DEF ChainOK
  <2> QED BY <1>2, <1>6, <2>1, <2>2 DEF ChainOK
<1>8. IdsOK'
  BY <1>1, <1>2, <1>4, <1>5 DEF IdsOK
<1>9. IdleOK'
  BY <1>2 DEF IdleOK
<1>10. DurableOK'
  <2>1. CASE phase = "loading"
    BY <1>1, <1>2, <2>1 DEF IdleOK, DurableOK
  <2>2. CASE phase = "up"
    <3>1. disk # None /\ Precedes(disk, saving) /\ disk \in Versions
      BY <1>1, <1>2, <2>2, VersionFacts DEF ChainOK
    <3>2. \A v \in Versions : v.order \in Nat /\ v.revision \in Nat
      BY <1>1, VersionFacts DEF Catalog
    <3>3. \A o \in seen : o.order \in Nat
      BY <1>1 DEF TypeOK, Observation
    <3>4. \A e \in Elements(published) : e.revision \in Nat
      <4>1. Elements(published) \subseteq Event
        BY <1>1, ElementOfSeq DEF TypeOK, Elements
      <4> QED BY <4>1 DEF Event
    <3> QED BY <1>1, <1>2, <1>4, <3>1, <3>2, <3>3, <3>4 DEF DurableOK, Precedes
  <2> QED BY <1>2, <2>1, <2>2
<1>11. EventsOK'
  BY <1>1, <1>2, <1>4 DEF EventsOK, OfCatalog
<1>12. AcksOK'
  BY <1>1, <1>2, <1>4 DEF AcksOK
<1> QED BY <1>3, <1>5, <1>7, <1>8, <1>9, <1>10, <1>11, <1>12 DEF UnreadInv

LEMMA SaveFailsKeeps ==
  ASSUME UnreadInv, SaveFails
  PROVE  UnreadInv'
<1>1. TypeOK /\ ChainOK /\ IdsOK /\ IdleOK /\ OrdersOK /\ EventsOK /\ AcksOK /\ DurableOK
  BY DEF UnreadInv
<1>2. /\ saving # None /\ saving' = None /\ faults' = faults + 1 /\ phase \in {"loading", "up"}
      /\ IF phase = "loading" THEN phase' = "down" /\ pending' = pending /\ failed' = failed
         ELSE pending' = SnapshotToRetry(saving) /\ failed' = TRUE /\ phase' = "up"
      /\ UNCHANGED <<catalog, active, excluded, disk, publication, batch, queue, requested, retryTimer,
                     request, seen, published, acked, runs, ids>>
  BY <1>1 DEF SaveFails, IdleOK, TypeOK, store, publishing, told
<1>3. phase = "up" => pending' = catalog
  BY <1>1, <1>2 DEF SnapshotToRetry, ChainOK
<1>4. catalog \in Catalog /\ catalog # None
  BY <1>1, NoneAssumption DEF TypeOK
<1>5. TypeOK'
  <2>1. phase' \in {"down", "loading", "up"} /\ failed' \in BOOLEAN
    BY <1>1, <1>2 DEF TypeOK
  <2>2. pending' \in Catalog \cup {None}
    BY <1>1, <1>2, <1>3, <1>4 DEF TypeOK
  <2>3. faults' \in Nat
    BY <1>1, <1>2 DEF TypeOK
  <2>4. UNCHANGED <<publication, batch, queue, requested, retryTimer, request>>
    BY <1>2
  <2> QED BY <1>1, <1>2, <2>1, <2>2, <2>3, <2>4 DEF TypeOK
<1>6. Versions' \subseteq Versions /\ Waits' = Waits
  BY <1>1, <1>2 DEF Versions, Waits
<1>7. Known' \subseteq Known /\ OrdersOK'
  BY <1>1, <1>2, <1>5, <1>6, NothingNew, VersionFacts
<1>8. ChainOK'
  BY <1>1, <1>2, <1>3, <1>4 DEF ChainOK
<1>9. IdsOK' /\ DurableOK'
  BY <1>1, <1>2, <1>6, <1>7 DEF IdsOK, DurableOK
<1>10. IdleOK'
  BY <1>1, <1>2 DEF IdleOK
<1>11. EventsOK'
  BY <1>1, <1>2, <1>6 DEF EventsOK, OfCatalog
<1>12. AcksOK'
  BY <1>1, <1>2, <1>6 DEF AcksOK
<1> QED BY <1>5, <1>7, <1>8, <1>9, <1>10, <1>11, <1>12 DEF UnreadInv

\* A death leaves the file, or the save that ran.
LEMMA CrashKeeps ==
  ASSUME UnreadInv, Crash
  PROVE  UnreadInv'
<1>1. TypeOK /\ ChainOK /\ IdsOK /\ IdleOK /\ OrdersOK /\ EventsOK /\ AcksOK /\ DurableOK
  BY DEF UnreadInv
<1>2. /\ phase \in {"loading", "up"} /\ phase' = "down" /\ faults' = faults + 1
      /\ disk' = disk \/ (saving # None /\ disk' = saving)
      /\ catalog' = Empty(0) /\ active' = {} /\ excluded' = {}
      /\ pending' = None /\ saving' = None /\ failed' = FALSE
      /\ publication' = "idle" /\ batch' = <<>> /\ queue' = <<>>
      /\ requested' = FALSE /\ retryTimer' = FALSE
      /\ request' = [step |-> "idle", ack |-> None]
      /\ UNCHANGED <<seen, published, acked, runs, ids>>
  BY <1>1 DEF Crash, TypeOK, told
<1>3. Empty(0) \in Catalog /\ Unread(Empty(0)) = {} /\ Empty(0) # None /\ Empty(0).id = 0
  BY EmptyFacts
<1>4. <<>> \in Seq(Event) /\ Elements(<<>>) = {} /\ Increasing(<<>>) /\ Len(<<>>) = 0 /\ MaxPending \in Nat
  BY EmptySeq, LimitsAssumption DEF Elements, Increasing
<1>5. TypeOK'
  <2>1. phase' \in {"down", "loading", "up"} /\ catalog' \in Catalog /\ disk' \in Catalog \cup {None}
    BY <1>1, <1>2, <1>3 DEF TypeOK
  <2>2. batch' \in Seq(Event) /\ queue' \in Seq(Event) /\ Len(queue') <= MaxPending
    BY <1>2, <1>4
  <2>3. request' \in [step : {"idle", "publish", "wait", "retry"}, ack : Observation \cup {None}]
    BY <1>2
  <2>4. faults' \in Nat
    BY <1>1, <1>2 DEF TypeOK
  <2> QED BY <1>1, <1>2, <2>1, <2>2, <2>3, <2>4 DEF TypeOK
<1>6. /\ \A v \in Versions' : v \in Versions \/ v = Empty(0)
      /\ Waits' = {}
  BY <1>2, <1>4 DEF Versions, Waits
<1>7. Known' \subseteq Known /\ OrdersOK'
  BY <1>1, <1>2, <1>3, <1>5, <1>6, NothingNew, VersionFacts
<1>8. ChainOK'
  BY <1>2 DEF ChainOK
<1>9. IdsOK'
  BY <1>1, <1>2, <1>3, <1>6, <1>7 DEF IdsOK, TypeOK
<1>10. IdleOK'
  BY <1>2, <1>3 DEF IdleOK
<1>11. DurableOK'
  <2>1. CASE disk' = disk
    BY <1>1, <1>2, <2>1 DEF DurableOK
  <2>2. CASE saving # None /\ disk' = saving /\ phase = "loading"
    BY <1>1, <1>2, <2>2 DEF IdleOK, DurableOK
  <2>3. CASE saving # None /\ disk' = saving /\ phase = "up"
    <3>1. disk # None /\ Precedes(disk, saving) /\ disk \in Versions /\ saving \in Versions
      BY <1>1, <2>3, VersionFacts DEF ChainOK
    <3>2. \A v \in Versions : v.order \in Nat /\ v.revision \in Nat
      BY <1>1, VersionFacts DEF Catalog
    <3>3. \A o \in seen : o.order \in Nat
      BY <1>1 DEF TypeOK, Observation
    <3>4. \A e \in Elements(published) : e.revision \in Nat
      <4>1. Elements(published) \subseteq Event
        BY <1>1, ElementOfSeq DEF TypeOK, Elements
      <4> QED BY <4>1 DEF Event
    <3> QED BY <1>1, <1>2, <2>3, <3>1, <3>2, <3>3, <3>4 DEF DurableOK, Precedes
  <2> QED BY <1>2, <2>1, <2>2, <2>3
<1>12. EventsOK'
  <2>1. AllBefore(batch', queue') /\ Increasing(batch') /\ Increasing(queue')
    BY <1>2, <1>4 DEF AllBefore
  <2> QED BY <1>1, <1>2, <1>6, <2>1 DEF EventsOK
<1>13. AcksOK'
  <2>1. \A o \in acked : o.session \in Sessions
    BY <1>1 DEF TypeOK, Observation
  <2>2. \A o \in acked : After(Empty(0), o)
    BY <1>3, <2>1 DEF After, Unread
  <2> QED BY <1>1, <1>2, <1>6, <2>2 DEF AcksOK
<1> QED BY <1>5, <1>7, <1>8, <1>9, <1>10, <1>11, <1>12, <1>13 DEF UnreadInv

LEMMA FileLostKeeps ==
  ASSUME UnreadInv, FileLost
  PROVE  UnreadInv'
<1>1. TypeOK /\ ChainOK /\ IdsOK /\ IdleOK /\ OrdersOK /\ EventsOK /\ AcksOK /\ DurableOK
  BY DEF UnreadInv
<1>2. /\ phase = "down" /\ disk' = None
      /\ UNCHANGED <<phase, catalog, active, excluded, pending, saving, failed, publication, batch, queue,
                     requested, retryTimer, request, seen, published, acked, runs, faults, ids>>
  BY DEF FileLost, store, persistence, publishing, told
<1>3. TypeOK'
  BY <1>1, <1>2 DEF TypeOK
<1>4. Versions' \subseteq Versions /\ Waits' = Waits
  BY <1>2 DEF Versions, Waits
<1>5. Known' \subseteq Known /\ OrdersOK'
  BY <1>1, <1>2, <1>3, <1>4, NothingNew, VersionFacts
<1>6. ChainOK' /\ DurableOK' /\ IdleOK'
  BY <1>1, <1>2 DEF ChainOK, DurableOK, IdleOK
<1>7. IdsOK'
  BY <1>1, <1>2, <1>4, <1>5 DEF IdsOK
<1>8. EventsOK'
  BY <1>1, <1>2, <1>4 DEF EventsOK, OfCatalog
<1>9. AcksOK'
  BY <1>1, <1>2, <1>4 DEF AcksOK
<1> QED BY <1>3, <1>5, <1>6, <1>7, <1>8, <1>9 DEF UnreadInv

\* The file's catalog, or an empty one under an identity that nobody was told of.
LEMMA BootKeeps ==
  ASSUME UnreadInv, Boot
  PROVE  UnreadInv'
<1>1. TypeOK /\ ChainOK /\ IdsOK /\ IdleOK /\ OrdersOK /\ EventsOK /\ AcksOK /\ DurableOK
  BY DEF UnreadInv
<1>2. /\ phase = "down" /\ pending = None /\ saving = None
      /\ batch = <<>> /\ queue = <<>> /\ publication = "idle" /\ ~retryTimer
      /\ request = [step |-> "idle", ack |-> None]
      /\ UNCHANGED <<active, excluded, pending, failed, disk, publication, batch, queue, requested,
                     retryTimer, request, seen, published, acked, runs, faults>>
  BY <1>1 DEF Boot, IdleOK, publishing, told
<1>3. Waits = {} /\ Waits' = {}
  BY <1>2, EmptySeq DEF Waits, Elements
<1>4. \/ disk # None /\ catalog' = disk /\ phase' = "up" /\ saving' = None /\ ids' = ids
      \/ /\ ids' = ids + 1 /\ phase' = "loading"
         /\ catalog' = Empty(ids + 1) /\ saving' = catalog' /\ ids + 1 \in Nat
  BY <1>1, <1>2 DEF Boot, TypeOK
<1>5. ids \in Nat /\ ids' \in Nat /\ ids <= ids'
  BY <1>1, <1>4 DEF TypeOK
<1>6. ids + 1 \in Nat => /\ Empty(ids + 1) \in Catalog /\ Unread(Empty(ids + 1)) = {}
                         /\ Empty(ids + 1) # None /\ Empty(ids + 1).id = ids + 1
  BY EmptyFacts
<1>7. TypeOK'
  <2>1. phase' \in {"down", "loading", "up"} /\ catalog' \in Catalog /\ saving' \in Catalog \cup {None}
    BY <1>1, <1>4, <1>6 DEF TypeOK
  <2> QED BY <1>1, <1>2, <1>5, <2>1 DEF TypeOK
<1>8. \A v \in Versions' : v \in Versions \/ (v = Empty(ids + 1) /\ ids' = ids + 1 /\ ids + 1 \in Nat)
  BY <1>2, <1>4 DEF Versions
<1>9. Known' \subseteq Known /\ OrdersOK'
  BY <1>1, <1>2, <1>3, <1>6, <1>7, <1>8, NothingNew, VersionFacts
<1>10. ChainOK'
  <2>1. disk # None => Precedes(disk, disk)
    BY <1>1 DEF TypeOK, Precedes, Catalog
  <2> QED BY <1>2, <1>4, <2>1 DEF ChainOK
<1>11. IdsOK'
  <2>1. \A v \in Versions : v.id \in Nat
    BY <1>1, VersionFacts DEF Catalog
  <2>2. \A o \in Known : o.id \in Nat
    BY DEF Known, Observation
  <2>3. \A e \in Elements(published) : e.id \in Nat
    <3>1. Elements(published) \subseteq Event
      BY <1>1, ElementOfSeq DEF TypeOK, Elements
    <3> QED BY <3>1 DEF Event
  <2>4. \A v \in Versions' : v.id <= ids'
    BY <1>1, <1>5, <1>6, <1>8, <2>1 DEF IdsOK
  <2>5. \A o \in Known' : o.id <= ids'
    BY <1>1, <1>5, <1>9, <2>2 DEF IdsOK
  <2>6. \A e \in Elements(published') : e.id <= ids'
    BY <1>1, <1>2, <1>5, <2>3 DEF IdsOK
  <2> QED BY <2>4, <2>5, <2>6 DEF IdsOK
<1>12. IdleOK'
  <2>1. CASE phase' = "up"
    BY <2>1 DEF IdleOK
  <2>2. CASE phase' = "loading"
    <3>1. catalog'.id = ids + 1 /\ saving' = catalog' /\ Unread(catalog') = {}
      BY <1>4, <1>6, <2>2
    <3>2. /\ \A o \in seen : o.id # ids + 1
          /\ \A e \in Elements(published) : e.id # ids + 1
      <4>1. \A o \in seen : o.id \in Nat
        BY <1>1 DEF TypeOK, Observation
      <4>2. Elements(published) \subseteq Event
        BY <1>1, ElementOfSeq DEF TypeOK, Elements
      <4> QED BY <1>1, <1>5, <4>1, <4>2, VersionFacts DEF IdsOK, Event
    <3> QED BY <1>2, <2>2, <3>1, <3>2 DEF IdleOK
  <2> QED BY <1>4, <2>1, <2>2
<1>13. DurableOK'
  BY <1>1, <1>2 DEF DurableOK
<1>14. EventsOK'
  BY <1>1, <1>2, <1>3 DEF EventsOK
<1>15. AcksOK'
  <2>1. \A o \in acked : o.session \in Sessions
    BY <1>1 DEF TypeOK, Observation
  <2>2. ids + 1 \in Nat => \A o \in acked : After(Empty(ids + 1), o)
    BY <1>6, <2>1 DEF After, Unread
  <2> QED BY <1>1, <1>2, <1>8, <2>2 DEF AcksOK
<1> QED BY <1>7, <1>9, <1>10, <1>11, <1>12, <1>13, <1>14, <1>15 DEF UnreadInv

----------------------------------------------------------------------------
(* The theorems *)

LEMMA UnreadInit == Init => UnreadInv
<1> SUFFICES ASSUME Init PROVE UnreadInv
  OBVIOUS
<1>1. Empty(0) \in Catalog /\ Unread(Empty(0)) = {} /\ Empty(0) # None /\ Empty(0).id = 0
  BY EmptyFacts
<1>2. <<>> \in Seq(Event) /\ Elements(<<>>) = {} /\ Increasing(<<>>) /\ Len(<<>>) = 0 /\ MaxPending \in Nat
  BY EmptySeq, LimitsAssumption DEF Elements, Increasing
<1>3. TypeOK
  <2>1. phase \in {"down", "loading", "up"} /\ catalog \in Catalog /\ disk \in Catalog \cup {None}
        /\ runs \in Nat /\ faults \in Nat /\ ids \in Nat
    BY <1>1 DEF Init
  <2>2. batch \in Seq(Event) /\ queue \in Seq(Event) /\ Len(queue) <= MaxPending
        /\ published \in Seq(Event)
    BY <1>2 DEF Init
  <2>3. request \in [step : {"idle", "publish", "wait", "retry"}, ack : Observation \cup {None}]
    BY DEF Init
  <2> QED BY <2>1, <2>2, <2>3 DEF Init, TypeOK
<1>4. Versions = {Empty(0)} /\ Waits = {} /\ Elements(published) = {}
  BY <1>1, <1>2 DEF Init, Versions, Waits
<1>5. Known = {}
  BY <1>1, <1>4 DEF Init, Known, Announced, Observations
<1>6. ChainOK /\ DurableOK
  BY DEF Init, ChainOK, DurableOK
<1>7. IdsOK
  BY <1>1, <1>4, <1>5 DEF Init, IdsOK
<1>8. IdleOK
  BY <1>1 DEF Init, IdleOK
<1>9. OrdersOK
  BY <1>1, <1>4, <1>5 DEF OrdersOK
<1>10. EventsOK
  <2>1. AllBefore(batch, queue) /\ Increasing(batch) /\ Increasing(queue)
    BY <1>2 DEF Init, AllBefore
  <2>2. Len(published) = 0
    BY <1>2 DEF Init
  <2> QED BY <1>4, <2>1, <2>2 DEF Init, EventsOK
<1>11. AcksOK
  BY DEF Init, AcksOK
<1> QED BY <1>3, <1>6, <1>7, <1>8, <1>9, <1>10, <1>11 DEF UnreadInv

LEMMA UnreadNext == UnreadInv /\ [Next]_vars => UnreadInv'
<1> SUFFICES ASSUME UnreadInv, [Next]_vars PROVE UnreadInv'
  OBVIOUS
<1>1. ASSUME NEW s \in Sessions, BecomesActive(s) PROVE UnreadInv'
  BY <1>1, QuietKeeps DEF BecomesActive, UnreadInv, TypeOK
<1>2. ASSUME NEW s \in Sessions, Closes(s) PROVE UnreadInv'
  BY <1>2, QuietKeeps DEF Closes, UnreadInv, TypeOK
<1>3. CASE RequestFails
  BY <1>3, QuietKeeps DEF RequestFails, UnreadInv, TypeOK, store
<1>4. CASE UNCHANGED vars
  BY <1>4, QuietKeeps DEF vars, UnreadInv, TypeOK, store
<1>5. CASE RequestRetries
  <2>1. phase = "up"
    BY <1>5 DEF RequestRetries, FlushRetries, UnreadInv, IdleOK
  <2> QED BY <1>5, <2>1, RetryKeeps DEF RequestRetries, FlushRetries, publishing
<1>6. CASE PublicationRetries
  <2>1. phase = "up"
    BY <1>6 DEF PublicationRetries, FlushRetries, UnreadInv, IdleOK
  <2> QED BY <1>6, <2>1, RetryKeeps DEF PublicationRetries, FlushRetries
<1>7. CASE ReadCatalog \/ RequestAnswered \/ PublicationSends \/ PublicationFails \/ RetryFires
           \/ SaveSucceeds \/ SaveFails \/ Crash \/ FileLost \/ Boot
  BY <1>7, ReadCatalogKeeps, RequestAnsweredKeeps, PublicationSendsKeeps, PublicationFailsKeeps,
     RetryFiresKeeps, SaveSucceedsKeeps, SaveFailsKeeps, CrashKeeps, FileLostKeeps, BootKeeps
<1> QED
  BY <1>1, <1>2, <1>3, <1>4, <1>5, <1>6, <1>7,
     CompletesKeeps, ExcludeKeeps, ForgetKeeps, AcknowledgeKeeps DEF Next

\* The inductive invariant holds in every state of the daemon and its clients.
THEOREM UnreadInvariant == Spec => []UnreadInv
BY UnreadInit, UnreadNext, PTL DEF Spec

\* Every variable keeps to its type, the backlog to its bound.
THEOREM UnreadTypeCorrect == Spec => []TypeOK
<1>1. UnreadInv => TypeOK
  BY DEF UnreadInv
<1> QED BY <1>1, UnreadInvariant, PTL

\* Two completions that clients were told of in one catalog identity have two
\* orders, also when a crash came between them.
THEOREM UnreadOrdersNeverReused == Spec => []OrdersNeverReused
<1>1. UnreadInv => OrdersNeverReused
  BY VersionFacts DEF UnreadInv, OrdersOK, OrdersNeverReused
<1> QED BY <1>1, UnreadInvariant, PTL

\* The file accounts for what clients were told, and no version of the catalog
\* shows again what a client acknowledged.
THEOREM UnreadToldIsKept == Spec => []ToldIsKept
<1>1. UnreadInv => ToldIsDurable
  BY DEF UnreadInv, DurableOK, ToldIsDurable, Elements
<1>2. UnreadInv => AcknowledgedStays
  BY DEF UnreadInv, AcksOK, After, Versions, AcknowledgedStays
<1> QED BY <1>1, <1>2, UnreadInvariant, PTL DEF ToldIsKept

\* Revisions go out in order and once, whatever fails and whatever is put back.
THEOREM UnreadEventsInOrder == Spec => []EventsInOrder
<1>1. UnreadInv => EventsInOrder
  BY DEF UnreadInv, EventsOK, EventsInOrder
<1> QED BY <1>1, UnreadInvariant, PTL

\* An acknowledgement clears the completion its client saw, and no later one.
THEOREM UnreadAcknowledgesOnlySeen == Spec => AcknowledgesOnlySeen
<1> DEFINE Clears(o) == /\ Acknowledge(o)
                        /\ catalog.unread[o.session] # None /\ catalog'.unread[o.session] = None
<1>1. ASSUME UnreadInv, NEW o \in seen, Clears(o)
      PROVE  catalog.unread[o.session].run = o.run
  <2>1. /\ TypeOK /\ OrdersOK /\ phase = "up" /\ o \in Observation /\ o \in Known
        /\ catalog \in Versions /\ catalog \in Catalog
    BY <1>1, VersionFacts DEF UnreadInv, TypeOK, Acknowledge
  <2>2. Acknowledges(o)
    <3>1. ASSUME ~Acknowledges(o) PROVE catalog' = Without(catalog, {})
      BY <1>1, <3>1 DEF Acknowledge, Mutate
    <3>2. Without(catalog, {}) = catalog
      BY <2>1, WithoutFacts
    <3> QED BY <1>1, <3>1, <3>2
  <2> DEFINE x == [id |-> catalog.id, session |-> o.session, order |-> catalog.unread[o.session].order,
                   run |-> catalog.unread[o.session].run]
  <2>3. o.session \in Unread(catalog) /\ catalog.unread[o.session].order \in Nat /\ o.order \in Nat
    <3>1. o.session \in Unread(catalog)
      BY <1>1, <2>1 DEF Unread, Observation
    <3> QED BY <2>1, <3>1, VersionFacts DEF Entry, Observation
  <2>4. x \in Known
    <3>1. x \in Observations(catalog)
      BY <2>3 DEF Observations
    <3> HIDE DEF x
    <3> QED BY <2>1, <3>1, VersionFacts
  <2>5. o.id = catalog.id /\ o.order = catalog.unread[o.session].order
    <3>1. o.id = catalog.id /\ catalog.unread[o.session].order <= o.order
      BY <2>2 DEF Acknowledges
    <3>2. o.order <= catalog.order
      BY <1>1, <2>1, <3>1, BoundFacts
    <3>3. catalog.unread[o.session].order >= o.order
      BY <1>1, <2>1, <3>1, <3>2 DEF OrdersOK
    <3> QED BY <2>3, <3>1, <3>3
  <2>6. x = o
    <3>1. x.id = o.id /\ x.order = o.order
      BY <2>5
    <3> HIDE DEF x
    <3> QED BY <2>1, <2>4, <3>1 DEF OrdersOK
  <2> QED BY <2>6
<1>2. UnreadInv =>
        [\A o \in seen :
           (Acknowledge(o) /\ catalog.unread[o.session] # None /\ catalog'.unread[o.session] = None)
             => catalog.unread[o.session].run = o.run]_vars
  BY <1>1
<1> QED BY <1>2, UnreadInvariant, PTL DEF AcknowledgesOnlySeen
=============================================================================
