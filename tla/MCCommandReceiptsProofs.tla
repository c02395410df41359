---------------------- MODULE MCCommandReceiptsProofs ----------------------
(***************************************************************************)
(* Proofs about CommandReceipts: the type invariant, that a mutation is on *)
(* record before it runs, and that it never runs twice, for any number of  *)
(* commands, payloads, process starts and any retention limit. After them, *)
(* proofs about the parts MCCommandReceipts composes with it: terminals    *)
(* and sessions, the caches of the status, Git branches and checkpoints.   *)
(***************************************************************************)
EXTENDS MCCommandReceipts, SequenceTheorems, TLAPS

\* What persist() returns to its caller, whatever it retains: a well-typed
\* map that keeps each command of m that was not evicted, and one more job at
\* the end of the queue whose snapshot is that map.
LEMMA PersistFacts ==
  ASSUME evicted \subseteq Commands,
         NEW m \in LedgerMap, NEW q \in Seq(Job), NEW owner \in Commands \cup {None},
         NEW step \in {"intent", "terminal", "recovery"},
         Persist(m, q, owner, step)
  PROVE  /\ persisted' \in LedgerMap
         /\ queue' = Append(q, [snap |-> persisted', owner |-> owner, step |-> step])
         /\ queue' \in Seq(Job)
         /\ evicted \subseteq evicted' /\ evicted' \subseteq Commands
         /\ \A c \in Commands : m[c] = None => persisted'[c] = None
         /\ \A c \in Commands \ evicted' : m[c] # None => persisted'[c] # None
<1>1. PICK K \in Retentions(m) :
        /\ persisted' = KeepOnly(m, K)
        /\ queue' = Append(q, [snap |-> KeepOnly(m, K), owner |-> owner, step |-> step])
        /\ evicted' = evicted \cup (Known(m) \ K)
  BY DEF Persist
<1>2. K \subseteq Commands /\ K \subseteq Known(m)
  BY <1>1 DEF Retentions, Known
<1>3. persisted' \in LedgerMap
  BY <1>1, <1>2 DEF KeepOnly, LedgerMap
<1>4. [snap |-> persisted', owner |-> owner, step |-> step] \in Job
  BY <1>3 DEF Job
<1>5. queue' \in Seq(Job)
  BY <1>1, <1>4
<1>6. \A c \in Commands : m[c] = None => persisted'[c] = None
  BY <1>1, <1>2 DEF KeepOnly, Known
<1>7. \A c \in Commands \ evicted' : m[c] # None => persisted'[c] # None
  BY <1>1, <1>2 DEF KeepOnly, Known
<1> QED BY <1>1, <1>2, <1>3, <1>5, <1>6, <1>7 DEF Known

\* A terminal record of a known command is a ledger record, and replaces only
\* that command's entry.
LEMMA TerminalFacts ==
  ASSUME TypeOK, NEW c \in Commands, records[c] # None, NEW s \in Statuses
  PROVE  /\ Terminal(c, s) \in LedgerMap
         /\ Terminal(c, s)[c] # None
         /\ \A d \in Commands \ {c} : Terminal(c, s)[d] = persisted[d]
<1>1. records[c] \in Promise
  BY DEF TypeOK
<1>2. [payload |-> records[c].payload, state |-> s, at |-> records[c].at] \in LedgerRecord
  BY <1>1 DEF Promise, LedgerRecord, Statuses
<1> QED BY <1>2, NoneAssumption DEF Terminal, TypeOK, LedgerMap

\* What open() loads is a ledger map with the same commands.
LEMMA RecoveredFacts ==
  ASSUME TypeOK
  PROVE  /\ RecoveredMap \in LedgerMap
         /\ \A c \in Commands : RecoveredMap[c] = None <=> ledger[c] = None
         /\ \A c \in Commands : ledger[c] # None => Recovered(ledger[c]).state \in Statuses
<1>1. ASSUME NEW r \in LedgerRecord
      PROVE  Recovered(r) \in LedgerRecord /\ Recovered(r).state \in Statuses
  BY <1>1 DEF LedgerRecord, Recovered, Statuses
<1>2. \A c \in Commands : ledger[c] # None => ledger[c] \in LedgerRecord
  BY DEF TypeOK, LedgerMap
<1> QED BY <1>1, <1>2, NoneAssumption DEF RecoveredMap, LedgerMap

----------------------------------------------------------------------------
(* The inductive invariant.  Beside the types it says who waits for which  *)
(* save, and that for a command that was never evicted the places its      *)
(* record can be in form a chain: the file, the snapshots in the order     *)
(* they are queued, persistedRecords, records.                             *)

\* A job's owner stands at the stage that job is for, and has no other job;
\* a recovery is alone in the queue, and only while the store opens.
JobsOK ==
  /\ \A i \in 1..Len(queue) :
       \/ /\ queue[i].step = "recovery" /\ phase = "opening" /\ Len(queue) = 1
       \/ /\ phase = "up"
          /\ queue[i].owner \in Commands
          /\ records[queue[i].owner] # None
          /\ \/ queue[i].step = "intent" /\ records[queue[i].owner].stage = "intent"
             \/ queue[i].step = "terminal" /\ records[queue[i].owner].stage = "settling"
  /\ \A i, j \in 1..Len(queue) : queue[i].owner = queue[j].owner => i = j

\* The outcome of a command is known exactly once its mutation is over.
StatusOK ==
  \A c \in Commands : records[c] # None =>
    (records[c].status = "pending" <=> records[c].stage \in {"intent", "running"})

\* A process that is down keeps nothing in memory.
DownOK ==
  phase = "down" =>
    /\ queue = <<>>
    /\ \A c \in Commands : records[c] = None /\ persisted[c] = None

\* Where the record of a command that was not evicted is, it is further down the chain.
ChainOK ==
  \A c \in Commands \ evicted :
    /\ persisted[c] # None => records[c] # None
    /\ \A i \in 1..Len(queue) :
         /\ queue[i].snap[c] # None => persisted[c] # None
         /\ \A j \in i..Len(queue) : queue[i].snap[c] # None => queue[j].snap[c] # None
         /\ ledger[c] # None => queue[i].snap[c] # None
         /\ (queue[i].owner = c /\ queue[i].step # "recovery") => queue[i].snap[c] # None
    /\ (ledger[c] # None /\ phase # "down") => persisted[c] # None

\* A command that waits for its intent to be saved has not run.
IntentOK ==
  \A c \in Commands \ evicted :
    (records[c] # None /\ records[c].stage = "intent") => effects[c] = {}

IInv == /\ TypeOK /\ JobsOK /\ StatusOK /\ DownOK
        /\ ChainOK /\ IntentOK /\ EffectsAreOnRecord /\ NoReplay

----------------------------------------------------------------------------

LEMMA IssueStep ==
  ASSUME IInv, NEW c \in Commands, Issue(c)
  PROVE  IInv'
<1>1. TypeOK'
  BY DEF IInv, TypeOK, Issue
<1>2. JobsOK' /\ StatusOK' /\ DownOK'
  BY DEF IInv, JobsOK, StatusOK, DownOK, Issue
<1>3. ChainOK' /\ IntentOK' /\ EffectsAreOnRecord' /\ NoReplay'
  BY DEF IInv, ChainOK, IntentOK, EffectsAreOnRecord, NoReplay, Issue
<1> QED BY <1>1, <1>2, <1>3 DEF IInv

LEMMA AnswerStep ==
  ASSUME IInv, NEW c \in Commands, NEW p \in Payloads, Answer(c, p)
  PROVE  IInv'
<1>1. TypeOK'
  <2>1. records[c] \in Promise /\ records[c].status \in Statuses
    BY DEF IInv, TypeOK, StatusOK, Answer, Promise
  <2> QED BY <2>1 DEF IInv, TypeOK, Answer
<1>2. JobsOK' /\ StatusOK' /\ DownOK'
  BY DEF IInv, JobsOK, StatusOK, DownOK, Answer
<1>3. ChainOK' /\ IntentOK' /\ EffectsAreOnRecord' /\ NoReplay'
  BY DEF IInv, ChainOK, IntentOK, EffectsAreOnRecord, NoReplay, Answer
<1> QED BY <1>1, <1>2, <1>3 DEF IInv

\* The chain survives a save being requested: of the map m that records one
\* more state of the known command c, behind the queue q that is left, when
\* the file holds what it held or what the save that left the queue wrote.
LEMMA EnqueueChain ==
  ASSUME IInv, TypeOK', phase = "up", phase' = "up",
         NEW c \in Commands, NEW m \in LedgerMap,
         m[c] # None, \A d \in Commands \ {c} : m[d] = persisted[d],
         NEW q \in Seq(Job), NEW step \in {"intent", "terminal"},
         Persist(m, q, c, step),
         \/ q = queue /\ ledger' = ledger
         \/ queue # <<>> /\ q = Tail(queue) /\ ledger' \in {ledger, Head(queue).snap},
         records'[c] # None, \A d \in Commands \ {c} : records'[d] = records[d]
  PROVE  ChainOK'
<1> USE DEF IInv
<1> DEFINE n == Len(q) + 1
<1>0. /\ evicted \subseteq Commands /\ c \in Commands \cup {None}
      /\ step \in {"intent", "terminal", "recovery"}
  BY DEF TypeOK
<1>1. /\ persisted' \in LedgerMap
      /\ queue' = Append(q, [snap |-> persisted', owner |-> c, step |-> step])
      /\ evicted \subseteq evicted' /\ evicted' \subseteq Commands
      /\ \A d \in Commands : m[d] = None => persisted'[d] = None
      /\ \A d \in Commands \ evicted' : m[d] # None => persisted'[d] # None
  BY <1>0, PersistFacts
<1>2. /\ Len(queue') = n
      /\ queue'[n] = [snap |-> persisted', owner |-> c, step |-> step]
      /\ \A i \in 1..Len(q) : queue'[i] = q[i]
  BY <1>1
<1>3. ASSUME NEW d \in Commands \ evicted'
      PROVE  /\ \A i \in 1..Len(q) :
                  /\ q[i].snap[d] # None => persisted'[d] # None
                  /\ \A j \in i..Len(q) : q[i].snap[d] # None => q[j].snap[d] # None
                  /\ ledger'[d] # None => q[i].snap[d] # None
                  /\ (q[i].owner = d /\ q[i].step # "recovery") => q[i].snap[d] # None
             /\ ledger'[d] # None => persisted'[d] # None
  <2>1. persisted[d] # None => persisted'[d] # None
    BY <1>1
  <2>2. CASE q = queue /\ ledger' = ledger
    BY <2>1, <2>2, <1>1, <1>3 DEF ChainOK
  <2>3. CASE queue # <<>> /\ q = Tail(queue) /\ ledger' \in {ledger, Head(queue).snap}
    <3>1. /\ Len(q) = Len(queue) - 1 /\ Len(queue) \in Nat /\ Len(queue) > 0
          /\ \A i \in 1..Len(q) : q[i] = queue[i + 1]
          /\ Head(queue) = queue[1]
      BY <2>3 DEF TypeOK
    <3>2. /\ \A i \in 1..Len(queue) :
               /\ queue[i].snap[d] # None => persisted[d] # None
               /\ \A j \in i..Len(queue) : queue[i].snap[d] # None => queue[j].snap[d] # None
               /\ ledger[d] # None => queue[i].snap[d] # None
               /\ (queue[i].owner = d /\ queue[i].step # "recovery") => queue[i].snap[d] # None
          /\ ledger[d] # None => persisted[d] # None
      BY <1>1, <1>3 DEF ChainOK
    <3>3. ASSUME NEW i \in 1..Len(queue) PROVE ledger'[d] # None => queue[i].snap[d] # None
      <4>1. 1 \in 1..Len(queue) /\ i \in 1..Len(queue)
        BY <3>1
      <4>2. queue[1].snap[d] # None => queue[i].snap[d] # None
        BY <4>1, <3>2
      <4>3. ledger[d] # None => queue[i].snap[d] # None
        BY <4>1, <3>2
      <4> QED BY <4>2, <4>3, <3>1, <2>3
    <3>4. ledger'[d] # None => persisted[d] # None
      <4>1. 1 \in 1..Len(queue)
        BY <3>1
      <4>2. queue[1].snap[d] # None => persisted[d] # None
        BY <4>1, <3>2
      <4> QED BY <4>2, <3>1, <3>2, <2>3
    <3>5. ASSUME NEW i \in 1..Len(q)
          PROVE  /\ q[i].snap[d] # None => persisted'[d] # None
                 /\ \A j \in i..Len(q) : q[i].snap[d] # None => q[j].snap[d] # None
                 /\ ledger'[d] # None => q[i].snap[d] # None
                 /\ (q[i].owner = d /\ q[i].step # "recovery") => q[i].snap[d] # None
      <4>1. i + 1 \in 1..Len(queue) /\ q[i] = queue[i + 1]
        BY <3>1
      <4>2. \A j \in i..Len(q) : j + 1 \in (i + 1)..Len(queue) /\ q[j] = queue[j + 1]
        BY <3>1
      <4>3. \A j \in i..Len(q) : q[i].snap[d] # None => q[j].snap[d] # None
        BY <4>1, <4>2, <3>2
      <4> QED BY <4>1, <4>3, <2>1, <3>2, <3>3
    <3> QED BY <2>1, <3>4, <3>5
  <2> QED BY <2>2, <2>3
<1>4. ASSUME NEW d \in Commands \ evicted' PROVE persisted'[d] # None => records'[d] # None
  <2>1. m[d] # None => records'[d] # None
    BY <1>1, <1>4 DEF ChainOK
  <2> QED BY <2>1, <1>1
<1>5. Len(q) \in Nat
  OBVIOUS
<1>6. ASSUME NEW d \in Commands \ evicted', NEW i \in 1..n
      PROVE  /\ queue'[i].snap[d] # None => persisted'[d] # None
             /\ \A j \in i..n : queue'[i].snap[d] # None => queue'[j].snap[d] # None
             /\ ledger'[d] # None => queue'[i].snap[d] # None
             /\ (queue'[i].owner = d /\ queue'[i].step # "recovery") => queue'[i].snap[d] # None
  <2>1. CASE i = n
    BY <2>1, <1>1, <1>2, <1>3, <1>5
  <2>2. CASE i \in 1..Len(q)
    BY <2>2, <1>2, <1>3, <1>5
  <2> QED BY <2>1, <2>2, <1>5
<1> QED BY <1>2, <1>3, <1>4, <1>6 DEF ChainOK

LEMMA ExecuteStep ==
  ASSUME IInv, NEW c \in Commands, NEW p \in Payloads, NEW t \in Times, Execute(c, p, t)
  PROVE  IInv'
<1> USE DEF IInv
<1> DEFINE r == [payload |-> p, state |-> "started", at |-> t]
<1> DEFINE m == [persisted EXCEPT ![c] = r]
<1> DEFINE new == [payload |-> p, at |-> t, stage |-> "intent", status |-> "pending",
                   stamp |-> issued[c].start]
<1>1. /\ r \in LedgerRecord /\ m \in LedgerMap /\ m[c] # None
      /\ \A d \in Commands \ {c} : m[d] = persisted[d]
  <2>1. r \in LedgerRecord
    BY DEF LedgerRecord
  <2> QED BY <2>1, NoneAssumption DEF TypeOK, LedgerMap
<1>2. new \in Promise
  <2>1. issued[c] \in [epoch : Nat, start : Nat]
    BY DEF Execute, TypeOK
  <2> QED BY <2>1 DEF Promise, InFlight
<1>3. /\ records' = [records EXCEPT ![c] = new] /\ records'[c] = new
      /\ records' \in [Commands -> Promise \cup {None}]
      /\ new # None /\ \A d \in Commands \ {c} : records'[d] = records[d]
  BY <1>2, NoneAssumption DEF Execute, TypeOK
<1>4. Persist(m, queue, c, "intent")
  BY DEF Execute
<1>5. /\ persisted' \in LedgerMap
      /\ queue' = Append(queue, [snap |-> persisted', owner |-> c, step |-> "intent"])
      /\ queue' \in Seq(Job) /\ evicted \subseteq evicted' /\ evicted' \subseteq Commands
  <2>1. /\ evicted \subseteq Commands /\ c \in Commands \cup {None} /\ queue \in Seq(Job)
        /\ "intent" \in {"intent", "terminal", "recovery"}
    BY DEF TypeOK
  <2> HIDE DEF m
  <2> QED BY <2>1, <1>1, <1>4, PersistFacts
<1>6. TypeOK'
  <2>1. clock' \in Nat
    BY ConstantsAssumption DEF Execute
  <2> QED BY <2>1, <1>3, <1>5 DEF Execute, TypeOK
<1>7. JobsOK'
  <2>1. \A i \in 1..Len(queue) : queue[i].owner # c /\ queue[i].step # "recovery"
    BY DEF JobsOK, Execute
  <2>2. /\ Len(queue') = Len(queue) + 1 /\ Len(queue) \in Nat
        /\ \A i \in 1..Len(queue) : queue'[i] = queue[i]
        /\ queue'[Len(queue) + 1] = [snap |-> persisted', owner |-> c, step |-> "intent"]
    BY <1>5 DEF TypeOK
  <2>3. phase = "up" /\ phase' = "up"
    BY DEF Execute
  <2> QED BY <2>1, <2>2, <2>3, <1>3 DEF JobsOK
<1>8. StatusOK' /\ DownOK'
  BY <1>3 DEF StatusOK, DownOK, Execute
<1>9. ChainOK'
  <2>1. phase = "up" /\ phase' = "up" /\ queue \in Seq(Job) /\ ledger' = ledger
    BY DEF Execute, TypeOK
  <2> HIDE DEF m, new, IInv
  <2> QED BY <2>1, <1>1, <1>3, <1>4, <1>6, EnqueueChain
<1>10. c \notin evicted' => effects[c] = {}
  BY <1>5 DEF ChainOK, EffectsAreOnRecord, Execute
<1>11. IntentOK' /\ EffectsAreOnRecord' /\ NoReplay'
  BY <1>3, <1>5, <1>10 DEF IntentOK, EffectsAreOnRecord, NoReplay, Execute
<1> QED BY <1>6, <1>7, <1>8, <1>9, <1>11

LEMMA ActionEndsStep ==
  ASSUME IInv, NEW c \in Commands, NEW s \in Statuses, ActionEnds(c, s)
  PROVE  IInv'
<1> USE DEF IInv
<1> DEFINE m == Terminal(c, s)
<1>1. /\ records[c] # None /\ records[c] \in Promise /\ records[c].stage = "running"
      /\ phase = "up" /\ phase' = "up" /\ ledger' = ledger
  BY DEF ActionEnds, TypeOK
<1>2. m \in LedgerMap /\ m[c] # None /\ \A d \in Commands \ {c} : m[d] = persisted[d]
  <2> HIDE DEF m
  <2> QED BY <1>1, TerminalFacts DEF m
<1>3. /\ records'[c] \in Promise /\ records'[c] # None
      /\ records'[c].stage = "settling" /\ records'[c].status = s
      /\ records' \in [Commands -> Promise \cup {None}]
      /\ \A d \in Commands \ {c} : records'[d] = records[d]
  <2>1. [records[c] EXCEPT !.stage = "settling", !.status = s] \in Promise
    BY <1>1 DEF Promise, InFlight
  <2> QED BY <1>1, <2>1, NoneAssumption DEF ActionEnds, TypeOK, Promise
<1>4. Persist(m, queue, c, "terminal")
  BY DEF ActionEnds
<1> HIDE DEF m
<1>5. /\ persisted' \in LedgerMap
      /\ queue' = Append(queue, [snap |-> persisted', owner |-> c, step |-> "terminal"])
      /\ queue' \in Seq(Job) /\ evicted \subseteq evicted' /\ evicted' \subseteq Commands
  <2>1. /\ evicted \subseteq Commands /\ c \in Commands \cup {None} /\ queue \in Seq(Job)
        /\ "terminal" \in {"intent", "terminal", "recovery"}
    BY DEF TypeOK
  <2> QED BY <2>1, <1>2, <1>4, PersistFacts
<1>6. TypeOK'
  <2>1. finished' \in [Commands -> SUBSET Payloads]
    BY <1>1 DEF ActionEnds, TypeOK, Promise
  <2> QED BY <2>1, <1>3, <1>5 DEF ActionEnds, TypeOK
<1>7. JobsOK'
  <2>1. \A i \in 1..Len(queue) : queue[i].owner # c /\ queue[i].step # "recovery"
    BY <1>1 DEF JobsOK
  <2>2. /\ Len(queue') = Len(queue) + 1 /\ Len(queue) \in Nat
        /\ \A i \in 1..Len(queue) : queue'[i] = queue[i]
        /\ queue'[Len(queue) + 1] = [snap |-> persisted', owner |-> c, step |-> "terminal"]
    BY <1>5 DEF TypeOK
  <2> QED BY <2>1, <2>2, <1>1, <1>3 DEF JobsOK
<1>8. StatusOK' /\ DownOK'
  BY <1>1, <1>3 DEF StatusOK, DownOK, Statuses
<1>9. ChainOK'
  <2>1. queue \in Seq(Job)
    BY DEF TypeOK
  <2> HIDE DEF IInv
  <2> QED BY <2>1, <1>1, <1>2, <1>3, <1>4, <1>6, EnqueueChain
<1>10. IntentOK' /\ EffectsAreOnRecord' /\ NoReplay'
  BY <1>1, <1>3, <1>5 DEF IntentOK, EffectsAreOnRecord, NoReplay, ActionEnds
<1> QED BY <1>6, <1>7, <1>8, <1>9, <1>10

\* The queue after its head left it.
LEMMA TailFacts ==
  ASSUME IInv, queue # <<>>
  PROVE  /\ Len(queue) \in Nat \ {0} /\ 1 \in 1..Len(queue)
         /\ Head(queue) = queue[1] /\ Head(queue) \in Job
         /\ Tail(queue) \in Seq(Job) /\ Len(Tail(queue)) = Len(queue) - 1
         /\ \A i \in 1..Len(Tail(queue)) :
              /\ Tail(queue)[i] = queue[i + 1]
              /\ i + 1 \in 1..Len(queue)
              /\ \A j \in i..Len(Tail(queue)) : j + 1 \in (i + 1)..Len(queue)
BY DEF IInv, TypeOK

\* The chain survives the head of the queue leaving it, whether its save
\* succeeded or threw, when no command is forgotten.
LEMMA DequeueChain ==
  ASSUME IInv, queue # <<>>, queue' = Tail(queue), phase # "down",
         ledger' \in {ledger, Head(queue).snap}, persisted' = persisted, evicted' = evicted,
         \A c \in Commands : records[c] # None => records'[c] # None
  PROVE  ChainOK'
<1> USE DEF IInv
<1>1. ASSUME NEW d \in Commands \ evicted', NEW i \in 1..Len(Tail(queue))
      PROVE  /\ Tail(queue)[i].snap[d] # None => persisted'[d] # None
             /\ \A j \in i..Len(Tail(queue)) :
                  Tail(queue)[i].snap[d] # None => Tail(queue)[j].snap[d] # None
             /\ ledger'[d] # None => Tail(queue)[i].snap[d] # None
             /\ (Tail(queue)[i].owner = d /\ Tail(queue)[i].step # "recovery")
                  => Tail(queue)[i].snap[d] # None
  <2>1. /\ Tail(queue)[i] = queue[i + 1] /\ i + 1 \in 1..Len(queue) /\ 1 \in 1..Len(queue)
        /\ i + 1 \in 1..Len(queue) /\ Head(queue) = queue[1]
    BY TailFacts
  <2>2. \A j \in i..Len(Tail(queue)) :
          Tail(queue)[j] = queue[j + 1] /\ j + 1 \in (i + 1)..Len(queue)
    BY TailFacts
  <2>3. /\ queue[i + 1].snap[d] # None => persisted[d] # None
        /\ \A j \in (i + 1)..Len(queue) : queue[i + 1].snap[d] # None => queue[j].snap[d] # None
        /\ ledger[d] # None => queue[i + 1].snap[d] # None
        /\ queue[1].snap[d] # None => queue[i + 1].snap[d] # None
        /\ (queue[i + 1].owner = d /\ queue[i + 1].step # "recovery")
             => queue[i + 1].snap[d] # None
    BY <2>1 DEF ChainOK
  <2> QED BY <2>1, <2>2, <2>3
<1>2. ASSUME NEW d \in Commands \ evicted'
      PROVE  /\ persisted'[d] # None => records'[d] # None
             /\ ledger'[d] # None => persisted'[d] # None
  <2>1. queue[1].snap[d] # None => persisted[d] # None
    BY TailFacts DEF ChainOK
  <2> QED BY <2>1, TailFacts DEF ChainOK
<1> QED BY <1>1, <1>2 DEF ChainOK

\* The jobs left behind the head are still their owners'.
LEMMA DequeueJobs ==
  ASSUME IInv, queue # <<>>, phase' = phase, phase = "up",
         \A c \in Commands \ {Head(queue).owner} : records'[c] = records[c]
  PROVE  /\ \A i \in 1..Len(Tail(queue)) :
              /\ Tail(queue)[i].owner \in Commands \ {Head(queue).owner}
              /\ records'[Tail(queue)[i].owner] # None
              /\ \/ /\ Tail(queue)[i].step = "intent"
                    /\ records'[Tail(queue)[i].owner].stage = "intent"
                 \/ /\ Tail(queue)[i].step = "terminal"
                    /\ records'[Tail(queue)[i].owner].stage = "settling"
         /\ \A i, j \in 1..Len(Tail(queue)) :
              Tail(queue)[i].owner = Tail(queue)[j].owner => i = j
<1> USE DEF IInv
<1>1. ASSUME NEW i \in 1..Len(Tail(queue))
      PROVE  /\ Tail(queue)[i].owner \in Commands \ {Head(queue).owner}
             /\ records'[Tail(queue)[i].owner] # None
             /\ \/ /\ Tail(queue)[i].step = "intent"
                   /\ records'[Tail(queue)[i].owner].stage = "intent"
                \/ /\ Tail(queue)[i].step = "terminal"
                   /\ records'[Tail(queue)[i].owner].stage = "settling"
  <2>1. /\ Tail(queue)[i] = queue[i + 1] /\ i + 1 \in 1..Len(queue)
        /\ 1 \in 1..Len(queue) /\ Head(queue) = queue[1] /\ i + 1 # 1
    BY TailFacts
  <2> QED BY <2>1 DEF JobsOK
<1>2. ASSUME NEW i \in 1..Len(Tail(queue)), NEW j \in 1..Len(Tail(queue)),
             Tail(queue)[i].owner = Tail(queue)[j].owner
      PROVE  i = j
  <2>1. /\ Tail(queue)[i] = queue[i + 1] /\ i + 1 \in 1..Len(queue)
        /\ Tail(queue)[j] = queue[j + 1] /\ j + 1 \in 1..Len(queue)
    BY TailFacts
  <2>2. i + 1 = j + 1
    BY <1>2, <2>1 DEF JobsOK
  <2> QED BY <2>2
<1> QED BY <1>1, <1>2

LEMMA SaveSucceedsStep ==
  ASSUME IInv, SaveSucceeds
  PROVE  IInv'
<1> USE DEF IInv
<1> DEFINE c == Head(queue).owner
<1>1. /\ queue # <<>> /\ queue' = Tail(queue) /\ ledger' = Head(queue).snap
      /\ ledger' \in LedgerMap /\ persisted' = persisted /\ evicted' = evicted
  BY TailFacts DEF SaveSucceeds, Released, Job
<1>2. /\ 1 \in 1..Len(queue) /\ Head(queue) = queue[1] /\ Tail(queue) \in Seq(Job)
  BY <1>1, TailFacts
<1>3. CASE Head(queue).step = "intent"
  <2>1. /\ phase = "up" /\ phase' = "up" /\ c \in Commands
        /\ records[c] # None /\ records[c] \in Promise /\ records[c].stage = "intent"
        /\ records' = [records EXCEPT ![c].stage = "running"]
        /\ effects' = [effects EXCEPT ![c] = @ \cup
             {[payload |-> records[c].payload, start |-> starts, stamp |-> records[c].stamp]}]
    BY <1>2, <1>3 DEF JobsOK, TypeOK, SaveSucceeds
  <2>2. /\ records'[c] \in Promise /\ records'[c] # None /\ records'[c].stage = "running"
        /\ records'[c].status = records[c].status
        /\ records' \in [Commands -> Promise \cup {None}]
        /\ \A d \in Commands \ {c} : records'[d] = records[d]
    <3>1. [records[c] EXCEPT !.stage = "running"] \in Promise
      BY <2>1 DEF Promise, InFlight
    <3> QED BY <2>1, <3>1, NoneAssumption DEF TypeOK, Promise
  <2>3. effects' \in [Commands -> SUBSET [payload : Payloads, start : Nat, stamp : Nat]]
    BY <2>1 DEF TypeOK, Promise
  <2>4. TypeOK'
    BY <1>1, <1>2, <2>1, <2>2, <2>3 DEF TypeOK, SaveSucceeds
  <2>5. JobsOK'
    <3> HIDE DEF IInv
    <3>1. \A d \in Commands \ {Head(queue).owner} : records'[d] = records[d]
      BY <2>2
    <3> QED BY <1>1, <2>1, <3>1, DequeueJobs DEF JobsOK
  <2>6. StatusOK' /\ DownOK'
    BY <2>1, <2>2 DEF StatusOK, DownOK
  <2>7. ChainOK'
    <3> HIDE DEF IInv
    <3> QED BY <1>1, <2>1, <2>2, DequeueChain
  <2>8. c \notin evicted => effects[c] = {} /\ ledger'[c] # None
    BY <1>1, <1>2, <1>3, <2>1 DEF IntentOK, ChainOK
  <2>9. \A d \in Commands \ evicted : effects[d] # {} => ledger'[d] # None
    BY <1>1, <1>2 DEF EffectsAreOnRecord, ChainOK
  <2>10. IntentOK' /\ EffectsAreOnRecord' /\ NoReplay'
    BY SMTT(30), <1>1, <2>1, <2>2, <2>8, <2>9 DEF IntentOK, EffectsAreOnRecord, NoReplay, TypeOK
  <2> QED BY <2>4, <2>5, <2>6, <2>7, <2>10
<1>4. CASE Head(queue).step = "terminal"
  <2>1. /\ phase = "up" /\ phase' = "up" /\ c \in Commands
        /\ records[c] # None /\ records[c] \in Promise /\ records[c].stage = "settling"
        /\ records' = [records EXCEPT ![c].stage = "resolved"]
        /\ effects' = effects
    BY <1>2, <1>4 DEF JobsOK, TypeOK, SaveSucceeds
  <2>2. /\ records'[c] \in Promise /\ records'[c] # None /\ records'[c].stage = "resolved"
        /\ records'[c].status = records[c].status
        /\ records' \in [Commands -> Promise \cup {None}]
        /\ \A d \in Commands \ {c} : records'[d] = records[d]
    <3>1. [records[c] EXCEPT !.stage = "resolved"] \in Promise
      BY <2>1 DEF Promise, InFlight
    <3> QED BY <2>1, <3>1, NoneAssumption DEF TypeOK, Promise
  <2>4. TypeOK'
    BY <1>1, <1>2, <2>1, <2>2 DEF TypeOK, SaveSucceeds
  <2>5. JobsOK'
    <3> HIDE DEF IInv
    <3>1. \A d \in Commands \ {Head(queue).owner} : records'[d] = records[d]
      BY <2>2
    <3> QED BY <1>1, <2>1, <3>1, DequeueJobs DEF JobsOK
  <2>6. StatusOK' /\ DownOK'
    BY <2>1, <2>2 DEF StatusOK, DownOK
  <2>7. ChainOK'
    <3> HIDE DEF IInv
    <3> QED BY <1>1, <2>1, <2>2, DequeueChain
  <2>8. \A d \in Commands \ evicted : effects[d] # {} => ledger'[d] # None
    BY <1>1, <1>2 DEF EffectsAreOnRecord, ChainOK
  <2>9. IntentOK' /\ EffectsAreOnRecord' /\ NoReplay'
    BY <1>1, <2>1, <2>2, <2>8 DEF IntentOK, EffectsAreOnRecord, NoReplay
  <2> QED BY <2>4, <2>5, <2>6, <2>7, <2>9
<1>5. CASE Head(queue).step = "recovery"
  <2>1. /\ phase = "opening" /\ phase' = "up" /\ Len(queue) = 1
        /\ records' = records /\ effects' = effects
    BY <1>2, <1>5 DEF JobsOK, SaveSucceeds
  <2>2. queue' = <<>> /\ Len(queue') = 0
    BY <1>1, <2>1 DEF TypeOK
  <2>3. TypeOK'
    BY <1>1, <1>2, <2>1 DEF TypeOK, SaveSucceeds
  <2>4. JobsOK' /\ StatusOK' /\ DownOK'
    BY <2>1, <2>2 DEF JobsOK, StatusOK, DownOK
  <2>5. ChainOK'
    <3> HIDE DEF IInv
    <3> QED BY <1>1, <2>1, DequeueChain
  <2>6. \A d \in Commands \ evicted : effects[d] # {} => ledger'[d] # None
    BY <1>1, <1>2 DEF EffectsAreOnRecord, ChainOK
  <2>7. IntentOK' /\ EffectsAreOnRecord' /\ NoReplay'
    BY <1>1, <2>1, <2>6 DEF IntentOK, EffectsAreOnRecord, NoReplay
  <2> QED BY <2>3, <2>4, <2>5, <2>7
<1> QED BY <1>3, <1>4, <1>5 DEF SaveSucceeds

LEMMA SaveFailsStep ==
  ASSUME IInv, SaveFails
  PROVE  IInv'
<1> USE DEF IInv
<1> DEFINE c == Head(queue).owner
<1>1. /\ queue # <<>> /\ ledger' \in {ledger, Head(queue).snap} /\ ledger' \in LedgerMap
      /\ effects' = effects
  BY TailFacts DEF SaveFails, Job, TypeOK
<1>2. /\ 1 \in 1..Len(queue) /\ Head(queue) = queue[1] /\ Tail(queue) \in Seq(Job)
  BY <1>1, TailFacts
<1>3. \A d \in Commands \ evicted : effects[d] # {} => ledger'[d] # None
  BY <1>1, <1>2 DEF EffectsAreOnRecord, ChainOK
<1>4. CASE Head(queue).step = "intent"
  <2> DEFINE m == Terminal(c, "failed")
  <2>1. /\ phase = "up" /\ phase' = "up" /\ c \in Commands
        /\ records[c] # None /\ records[c] \in Promise /\ records[c].stage = "intent"
        /\ records' = [records EXCEPT ![c].stage = "settling", ![c].status = "failed"]
        /\ Persist(m, Tail(queue), c, "terminal")
    BY <1>2, <1>4 DEF JobsOK, TypeOK, SaveFails, Released
  <2>2. m \in LedgerMap /\ m[c] # None /\ \A d \in Commands \ {c} : m[d] = persisted[d]
    <3> HIDE DEF IInv
    <3>1. "failed" \in Statuses /\ TypeOK
      BY DEF Statuses, IInv
    <3> QED BY <2>1, <3>1, TerminalFacts
  <2> HIDE DEF m
  <2>3. /\ records'[c] \in Promise /\ records'[c] # None
        /\ records'[c].stage = "settling" /\ records'[c].status = "failed"
        /\ records' \in [Commands -> Promise \cup {None}]
        /\ \A d \in Commands \ {c} : records'[d] = records[d]
    <3>1. [records[c] EXCEPT !.stage = "settling", !.status = "failed"] \in Promise
      BY <2>1 DEF Promise, InFlight, Statuses
    <3> QED BY <2>1, <3>1, NoneAssumption DEF TypeOK, Promise
  <2>4. /\ persisted' \in LedgerMap
        /\ queue' = Append(Tail(queue), [snap |-> persisted', owner |-> c, step |-> "terminal"])
        /\ queue' \in Seq(Job) /\ evicted \subseteq evicted' /\ evicted' \subseteq Commands
    <3>1. /\ evicted \subseteq Commands /\ c \in Commands \cup {None}
          /\ "terminal" \in {"intent", "terminal", "recovery"}
      BY <2>1 DEF TypeOK
    <3> QED BY <3>1, <1>2, <2>1, <2>2, PersistFacts
  <2>5. TypeOK'
    BY <1>1, <2>1, <2>3, <2>4 DEF SaveFails, TypeOK
  <2>6. JobsOK'
    <3> DEFINE q == Tail(queue)
    <3>1. \A d \in Commands \ {Head(queue).owner} : records'[d] = records[d]
      BY <2>3
    <3>2. /\ \A i \in 1..Len(q) :
               /\ q[i].owner \in Commands \ {c}
               /\ records'[q[i].owner] # None
               /\ \/ q[i].step = "intent" /\ records'[q[i].owner].stage = "intent"
                  \/ q[i].step = "terminal" /\ records'[q[i].owner].stage = "settling"
          /\ \A i, j \in 1..Len(q) : q[i].owner = q[j].owner => i = j
      <4> HIDE DEF IInv
      <4> QED BY <1>1, <2>1, <3>1, DequeueJobs
    <3> HIDE DEF q
    <3>3. /\ q \in Seq(Job) /\ Len(q) \in Nat /\ Len(queue') = Len(q) + 1
          /\ \A i \in 1..Len(q) : queue'[i] = q[i]
          /\ queue'[Len(q) + 1] = [snap |-> persisted', owner |-> c, step |-> "terminal"]
      BY <1>2, <2>4 DEF q
    <3> DEFINE n == Len(q) + 1
    <3>4. ASSUME NEW i \in 1..n
          PROVE  /\ queue'[i].owner \in Commands
                 /\ records'[queue'[i].owner] # None
                 /\ \/ queue'[i].step = "intent" /\ records'[queue'[i].owner].stage = "intent"
                    \/ queue'[i].step = "terminal" /\ records'[queue'[i].owner].stage = "settling"
                 /\ queue'[i].owner = c <=> i = n
      <4>1. CASE i = n
        BY SMTT(30), <4>1, <2>1, <2>3, <3>3
      <4>2. CASE i \in 1..Len(q)
        BY <4>2, <3>2, <3>3
      <4> QED BY <4>1, <4>2, <3>3
    <3>5. \A i, j \in 1..n : queue'[i].owner = queue'[j].owner => i = j
      BY <3>2, <3>3, <3>4
    <3> QED BY <2>1, <3>3, <3>4, <3>5 DEF JobsOK
  <2>7. StatusOK' /\ DownOK'
    BY <2>1, <2>3 DEF StatusOK, DownOK
  <2>8. ChainOK'
    <3> HIDE DEF IInv
    <3>1. "terminal" \in {"intent", "terminal"}
      OBVIOUS
    <3> QED BY <3>1, <1>1, <1>2, <2>1, <2>2, <2>3, <2>5, EnqueueChain
  <2>9. IntentOK' /\ EffectsAreOnRecord' /\ NoReplay'
    BY <1>1, <1>3, <2>3, <2>4 DEF IntentOK, EffectsAreOnRecord, NoReplay
  <2> QED BY <2>5, <2>6, <2>7, <2>8, <2>9
<1>5. CASE Head(queue).step = "terminal"
  <2>1. /\ phase = "up" /\ phase' = "up" /\ c \in Commands
        /\ records[c] # None /\ records[c] \in Promise /\ records[c].stage = "settling"
        /\ records' = [records EXCEPT ![c].stage = "rejected"]
        /\ queue' = Tail(queue) /\ persisted' = persisted /\ evicted' = evicted
    BY <1>2, <1>5 DEF JobsOK, TypeOK, SaveFails, Released
  <2>2. /\ records'[c] \in Promise /\ records'[c] # None /\ records'[c].stage = "rejected"
        /\ records'[c].status = records[c].status
        /\ records' \in [Commands -> Promise \cup {None}]
        /\ \A d \in Commands \ {c} : records'[d] = records[d]
    <3>1. [records[c] EXCEPT !.stage = "rejected"] \in Promise
      BY <2>1 DEF Promise, InFlight
    <3> QED BY <2>1, <3>1, NoneAssumption DEF TypeOK, Promise
  <2>3. TypeOK'
    BY <1>1, <1>2, <2>1, <2>2 DEF TypeOK, SaveFails
  <2>4. JobsOK'
    <3> HIDE DEF IInv
    <3>1. \A d \in Commands \ {Head(queue).owner} : records'[d] = records[d]
      BY <2>2
    <3> QED BY <1>1, <2>1, <3>1, DequeueJobs DEF JobsOK
  <2>5. StatusOK' /\ DownOK'
    BY <2>1, <2>2 DEF StatusOK, DownOK
  <2>6. ChainOK'
    <3> HIDE DEF IInv
    <3> QED BY <1>1, <2>1, <2>2, DequeueChain
  <2>7. IntentOK' /\ EffectsAreOnRecord' /\ NoReplay'
    BY <1>1, <1>3, <2>1, <2>2 DEF IntentOK, EffectsAreOnRecord, NoReplay
  <2> QED BY <2>3, <2>4, <2>5, <2>6, <2>7
<1>6. CASE Head(queue).step = "recovery"
  <2>1. /\ phase' = "down" /\ queue' = <<>> /\ Len(queue') = 0 /\ evicted' = evicted
        /\ records' = [d \in Commands |-> None] /\ persisted' = [d \in Commands |-> None]
    BY <1>6 DEF SaveFails
  <2>2. TypeOK'
    BY <1>1, <2>1 DEF TypeOK, SaveFails, LedgerMap
  <2>3. JobsOK' /\ StatusOK' /\ DownOK' /\ ChainOK'
    BY <2>1 DEF JobsOK, StatusOK, DownOK, ChainOK
  <2>4. IntentOK' /\ EffectsAreOnRecord' /\ NoReplay'
    BY <1>1, <1>3, <2>1 DEF IntentOK, EffectsAreOnRecord, NoReplay
  <2> QED BY <2>2, <2>3, <2>4
<1> QED BY <1>4, <1>5, <1>6 DEF SaveFails

LEMMA CrashStep ==
  ASSUME IInv, Crash
  PROVE  IInv'
<1> USE DEF IInv
<1>1. /\ phase' = "down" /\ queue' = <<>> /\ Len(queue') = 0 /\ evicted' = evicted
      /\ records' = [d \in Commands |-> None] /\ persisted' = [d \in Commands |-> None]
      /\ effects' = effects
  BY DEF Crash
<1>2. ledger' = ledger \/ (queue # <<>> /\ ledger' = Head(queue).snap)
  BY DEF Crash
<1>3. ledger' \in LedgerMap
  BY <1>2, TailFacts DEF TypeOK, Job
<1>4. \A d \in Commands \ evicted : effects[d] # {} => ledger'[d] # None
  BY <1>2, TailFacts DEF EffectsAreOnRecord, ChainOK
<1>5. TypeOK'
  BY <1>1, <1>3 DEF TypeOK, Crash, LedgerMap
<1>6. JobsOK' /\ StatusOK' /\ DownOK' /\ ChainOK'
  BY <1>1 DEF JobsOK, StatusOK, DownOK, ChainOK
<1>7. IntentOK' /\ EffectsAreOnRecord' /\ NoReplay'
  BY <1>1, <1>4 DEF IntentOK, EffectsAreOnRecord, NoReplay
<1> QED BY <1>5, <1>6, <1>7

LEMMA BootStep ==
  ASSUME IInv, Boot
  PROVE  IInv'
<1> USE DEF IInv
<1> DEFINE old(d) == [payload |-> ledger[d].payload, at |-> ledger[d].at, stage |-> "resolved",
                      status |-> Recovered(ledger[d]).state, stamp |-> 0]
<1> DEFINE job == [snap |-> RecoveredMap, owner |-> None, step |-> "recovery"]
<1>1. /\ RecoveredMap \in LedgerMap
      /\ \A d \in Commands : RecoveredMap[d] = None <=> ledger[d] = None
      /\ \A d \in Commands : ledger[d] # None => Recovered(ledger[d]).state \in Statuses
  BY RecoveredFacts
<1>2. /\ persisted' = RecoveredMap /\ ledger' = ledger /\ effects' = effects
      /\ evicted' = evicted /\ phase' # "down"
      /\ records' = [d \in Commands |-> IF ledger[d] = None THEN None ELSE old(d)]
      /\ \/ phase' = "opening" /\ queue' = <<job>>
         \/ phase' = "up" /\ queue' = <<>>
  BY DEF Boot
<1>3. \A d \in Commands : ledger[d] # None => old(d) \in Promise
  BY <1>1 DEF TypeOK, LedgerMap, LedgerRecord, Promise
<1>4. \A d \in Commands : /\ records'[d] # None <=> ledger[d] # None
                          /\ records'[d] # None => /\ records'[d].stage = "resolved"
                                                   /\ records'[d].status \in Statuses
  BY <1>1, <1>2, <1>3, NoneAssumption
<1>5. job \in Job
  BY <1>1 DEF Job
<1>6. TypeOK'
  <2>1. queue' \in Seq(Job) /\ phase' \in {"down", "opening", "up"}
    <3> HIDE DEF job
    <3>1. <<>> \in Seq(Job) /\ <<job>> \in Seq(Job)
      BY <1>5
    <3> QED BY <3>1, <1>2
  <2>2. records' \in [Commands -> Promise \cup {None}]
    BY <1>2, <1>3
  <2>3. starts' \in Nat /\ epoch' \in Nat
    BY DEF Boot, TypeOK
  <2> QED BY <2>1, <2>2, <2>3, <1>1, <1>2 DEF Boot, TypeOK
<1>7. /\ Len(queue') \in {0, 1} /\ \A i \in 1..Len(queue') : i = 1 /\ queue'[i] = job
      /\ Len(queue') = 1 => phase' = "opening"
  <2> HIDE DEF job
  <2>1. CASE phase' = "opening" /\ queue' = <<job>>
    BY <2>1
  <2>2. CASE queue' = <<>>
    BY <2>2
  <2> QED BY <2>1, <2>2, <1>2
<1> HIDE DEF old
<1>8. JobsOK' /\ StatusOK' /\ DownOK'
  <2>1. JobsOK'
    BY <1>7 DEF JobsOK
  <2> QED BY <2>1, <1>2, <1>4 DEF StatusOK, DownOK, Statuses
<1>9. ChainOK'
  BY <1>1, <1>2, <1>4, <1>7 DEF ChainOK
<1>10. IntentOK' /\ EffectsAreOnRecord' /\ NoReplay'
  BY <1>2, <1>4 DEF IntentOK, EffectsAreOnRecord, NoReplay
<1> QED BY <1>6, <1>8, <1>9, <1>10

----------------------------------------------------------------------------

LEMMA InitInv == Init => IInv
BY ConstantsAssumption
DEF Init, IInv, TypeOK, LedgerMap, JobsOK, StatusOK, DownOK, ChainOK, IntentOK,
    EffectsAreOnRecord, NoReplay

LEMMA StepInv == IInv /\ [Next]_vars => IInv'
<1> SUFFICES ASSUME IInv, [Next]_vars PROVE IInv'
  OBVIOUS
<1>1. CASE Next
  BY <1>1, IssueStep, ExecuteStep, AnswerStep, SaveSucceedsStep, SaveFailsStep,
     ActionEndsStep, CrashStep, BootStep DEF Next
<1>2. CASE UNCHANGED vars
  BY <1>2 DEF vars, IInv, TypeOK, JobsOK, StatusOK, DownOK, ChainOK, IntentOK,
              EffectsAreOnRecord, NoReplay
<1> QED BY <1>1, <1>2

THEOREM Invariance == Spec => []IInv
BY InitInv, StepInv, PTL DEF Spec

\* The state of RuntimeCommandReceipts and of its ledger file keeps its types.
THEOREM TypeCorrect == Spec => []TypeOK
<1>1. IInv => TypeOK
  BY DEF IInv
<1> QED BY <1>1, Invariance, PTL

\* A mutation only runs once its intent is in the ledger file, and the file
\* never loses it, whatever fails, dies or is retried.
THEOREM EffectsOnRecord == Spec => []EffectsAreOnRecord
<1>1. IInv => EffectsAreOnRecord
  BY DEF IInv
<1> QED BY <1>1, Invariance, PTL

\* A mutation runs at most once per commandId while its record is retained.
THEOREM NeverReplayed == Spec => []NoReplay
<1>1. IInv => NoReplay
  BY DEF IInv
<1> QED BY <1>1, Invariance, PTL

----------------------------------------------------------------------------
(* That receipts agree needs more: what the chain's places say of a       *)
(* command, not only whether they know it.  While the process is up, the  *)
(* record of a command that was not evicted says in persistedRecords what *)
(* its promise says, from its terminal job on in every snapshot, and once *)
(* resolved in the file too; so what was answered is what the file says.  *)

Written(r) ==
  [payload |-> r.payload, at |-> r.at,
   state |-> IF r.stage \in {"intent", "running"} THEN "started" ELSE r.status]

KeptOK == \A c \in Commands \ evicted : records[c] # None => persisted[c] = Written(records[c])

SnapsOK ==
  \A c \in Commands \ evicted : \A i \in 1..Len(queue) :
    /\ (records[c] # None /\ records[c].stage \in {"resolved", "rejected"})
         => queue[i].snap[c] = persisted[c]
    /\ (queue[i].owner = c /\ queue[i].step = "terminal")
         => \A j \in i..Len(queue) : queue[j].snap[c] = persisted[c]

FileOK ==
  \A c \in Commands \ evicted :
    (phase = "up" /\ records[c] # None /\ records[c].stage = "resolved") => ledger[c] = persisted[c]

\* A receipt that was given is in the file, and in memory whenever there is a process.
AnsweredOK ==
  \A c \in Commands \ evicted : \A x \in answers[c] :
    /\ ledger[c] # None /\ ledger[c].state \in Statuses
    /\ x = <<ledger[c].payload, ledger[c].state>>
    /\ phase # "down" => /\ records[c] # None /\ records[c].stage = "resolved"
                         /\ ledger[c] = persisted[c]

\* Wherever a command is said to have completed, it did, evicted or not.
Truthful(m) == \A c \in Commands : (m[c] # None /\ m[c].state = "completed") => m[c].payload \in finished[c]
TruthOK ==
  /\ Truthful(persisted) /\ Truthful(ledger) /\ \A i \in 1..Len(queue) : Truthful(queue[i].snap)
  /\ \A c \in Commands :
       (records[c] # None /\ records[c].status = "completed") => records[c].payload \in finished[c]
  /\ \A c \in Commands, p \in Payloads : <<p, "completed">> \in answers[c] => p \in finished[c]

AgreeInv == KeptOK /\ SnapsOK /\ FileOK /\ AnsweredOK /\ TruthOK

----------------------------------------------------------------------------

\* What persist() retains of m is what m says, and nothing else.
LEMMA PersistKeeps ==
  ASSUME NEW m \in LedgerMap, NEW q, NEW owner, NEW step, Persist(m, q, owner, step)
  PROVE  /\ \A c \in Commands \ evicted' : persisted'[c] = m[c]
         /\ \A c \in Commands : persisted'[c] \in {None, m[c]}
         /\ evicted \subseteq evicted'
<1>1. PICK K \in Retentions(m) : persisted' = KeepOnly(m, K) /\ evicted' = evicted \cup (Known(m) \ K)
  BY DEF Persist
<1> QED BY <1>1 DEF KeepOnly, Known

\* Requesting the save that the command c now waits for: the places agree on c, and no other
\* command's changed.  The save that left the queue, if one did, was c's intent.
LEMMA EnqueueAgrees ==
  ASSUME IInv, IInv', AgreeInv, NEW c \in Commands, NEW m \in LedgerMap,
         \A d \in Commands \ {c} : m[d] = persisted[d] /\ records'[d] = records[d],
         records'[c] # None, m[c] = Written(records'[c]),
         records'[c].stage \notin {"resolved", "rejected"},
         NEW q \in Seq(Job), NEW step \in {"intent", "terminal"}, Persist(m, q, c, step),
         q = queue \/ (queue # <<>> /\ q = Tail(queue)),
         \A i \in 1..Len(q) : q[i].owner # c,
         finished[c] \subseteq finished'[c], \A d \in Commands \ {c} : finished'[d] = finished[d],
         records'[c].status = "completed" => records'[c].payload \in finished'[c]
  PROVE  /\ KeptOK' /\ SnapsOK' /\ Truthful(persisted)'
         /\ \A i \in 1..Len(queue') : Truthful(queue[i].snap)'
         /\ \A d \in Commands \ evicted' : d # c => persisted'[d] = persisted[d]
<1> DEFINE n == Len(q) + 1
<1>1. /\ \A d \in Commands \ evicted' : persisted'[d] = m[d]
      /\ \A d \in Commands : persisted'[d] \in {None, m[d]}
      /\ evicted \subseteq evicted'
  BY PersistKeeps
<1>2. /\ Len(q) \in Nat /\ Len(queue') = n
      /\ queue'[n] = [snap |-> persisted', owner |-> c, step |-> step]
      /\ \A i \in 1..Len(q) : queue'[i] = q[i]
  <2>1. queue' = Append(q, [snap |-> persisted', owner |-> c, step |-> step])
    BY DEF Persist
  <2> QED BY <2>1
<1>3. \A d \in Commands \ evicted' : d # c => persisted'[d] = persisted[d]
  BY <1>1
<1>4. KeptOK'
  BY <1>1, <1>3 DEF AgreeInv, KeptOK
\* What q still holds, by its place in the queue
<1>5. \E k \in {0, 1} :
        /\ \A i \in 1..Len(q) : i + k \in 1..Len(queue) /\ q[i] = queue[i + k]
        /\ \A i \in 1..Len(q) : \A j \in i..Len(q) : j + k \in (i + k)..Len(queue)
  <2>1. CASE q = queue
    <3>1. \A i \in 1..Len(q) : i + 0 = i
      BY <1>2
    <3> QED BY <2>1, <3>1, <1>2
  <2>2. CASE queue # <<>> /\ q = Tail(queue)
    BY <2>2, TailFacts
  <2> QED BY <2>1, <2>2
<1>6. PICK k \in {0, 1} :
        /\ \A i \in 1..Len(q) : i + k \in 1..Len(queue) /\ q[i] = queue[i + k]
        /\ \A i \in 1..Len(q) : \A j \in i..Len(q) : j + k \in (i + k)..Len(queue)
  BY <1>5
<1>7. SnapsOK'
  <2> SUFFICES ASSUME NEW d \in Commands \ evicted', NEW i \in 1..Len(queue')
               PROVE  /\ (records'[d] # None /\ records'[d].stage \in {"resolved", "rejected"})
                           => queue'[i].snap[d] = persisted'[d]
                      /\ (queue'[i].owner = d /\ queue'[i].step = "terminal")
                           => \A j \in i..Len(queue') : queue'[j].snap[d] = persisted'[d]
    BY DEF SnapsOK
  <2>1. CASE i = n
    BY <1>2, <2>1
  <2>2. CASE i \in 1..Len(q)
    <3>1. queue'[i] = queue[i + k] /\ i + k \in 1..Len(queue) /\ d \in Commands \ evicted
      BY <1>1, <1>2, <1>6, <2>2
    <3>2. queue'[i].owner # c
      BY <1>2, <2>2
    <3>3. d # c => /\ (records[d] # None /\ records[d].stage \in {"resolved", "rejected"})
                        => queue'[i].snap[d] = persisted[d]
                   /\ (queue'[i].owner = d /\ queue'[i].step = "terminal")
                        => \A j \in (i + k)..Len(queue) : queue[j].snap[d] = persisted[d]
      BY <3>1 DEF AgreeInv, SnapsOK
    <3>4. ASSUME d # c, queue'[i].owner = d, queue'[i].step = "terminal", NEW j \in i..Len(queue')
          PROVE  queue'[j].snap[d] = persisted'[d]
      <4>1. CASE j = n
        BY <1>2, <4>1
      <4>2. CASE j \in i..Len(q)
        <5>1. queue'[j] = queue[j + k] /\ j + k \in (i + k)..Len(queue)
          <6>1. j \in 1..Len(q)
            BY <1>2, <2>2, <4>2
          <6> QED BY <1>2, <1>6, <2>2, <4>2, <6>1
        <5> QED BY <1>3, <3>3, <3>4, <5>1
      <4> QED BY <1>2, <4>1, <4>2
    <3> QED BY <1>3, <3>2, <3>3, <3>4
  <2> QED BY <1>2, <2>1, <2>2
<1>8. \A d \in Commands : finished[d] \subseteq finished'[d]
  OBVIOUS
<1>9. Truthful(persisted)'
  <2>1. \A d \in Commands : persisted'[d] # None => persisted'[d] = m[d]
    BY <1>1
  <2>2. (m[c] # None /\ m[c].state = "completed") => m[c].payload \in finished'[c]
    BY DEF Written
  <2>3. \A d \in Commands \ {c} : (m[d] # None /\ m[d].state = "completed") => m[d].payload \in finished'[d]
    BY DEF AgreeInv, TruthOK, Truthful
  <2> QED BY <2>1, <2>2, <2>3 DEF Truthful
<1>10. ASSUME NEW i \in 1..Len(queue') PROVE Truthful(queue[i].snap)'
  <2>1. CASE i = n
    BY <1>2, <1>9, <2>1 DEF Truthful
  <2>2. CASE i \in 1..Len(q)
    <3>1. queue'[i] = queue[i + k] /\ i + k \in 1..Len(queue)
      BY <1>2, <1>6, <2>2
    <3>2. \A d \in Commands :
            (queue[i + k].snap[d] # None /\ queue[i + k].snap[d].state = "completed")
              => queue[i + k].snap[d].payload \in finished[d]
      BY <3>1 DEF AgreeInv, TruthOK, Truthful
    <3> QED BY <1>8, <3>1, <3>2 DEF Truthful
  <2> QED BY <1>2, <2>1, <2>2
<1> QED BY <1>3, <1>4, <1>7, <1>9, <1>10

\* The head of the queue leaves it and its owner goes on, saying of itself what it said.
LEMMA DequeueAgrees ==
  ASSUME IInv, AgreeInv, queue # <<>>, queue' = Tail(queue),
         UNCHANGED <<persisted, evicted, finished>>,
         \A d \in Commands : records'[d] # None =>
           /\ records[d] # None /\ Written(records'[d]) = Written(records[d])
           /\ \/ records'[d] = records[d]
              \/ queue[1].owner = d /\ queue[1].step = "terminal"
              \/ records'[d].stage \notin {"resolved", "rejected"}
  PROVE  KeptOK' /\ SnapsOK' /\ \A i \in 1..Len(queue') : Truthful(queue[i].snap)'
<1>1. KeptOK'
  BY DEF AgreeInv, KeptOK
<1>2. ASSUME NEW i \in 1..Len(queue')
      PROVE  /\ queue'[i] = queue[i + 1] /\ i + 1 \in 1..Len(queue) /\ 1 \in 1..Len(queue)
             /\ i + 1 \in 1..Len(queue)
             /\ \A j \in i..Len(queue') : queue'[j] = queue[j + 1] /\ j + 1 \in (i + 1)..Len(queue)
  <2>1. \A j \in i..Len(queue') : j \in 1..Len(queue')
    BY TailFacts
  <2> QED BY <2>1, TailFacts
<1>3. ASSUME NEW d \in Commands \ evicted', NEW i \in 1..Len(queue'),
             records'[d] # None, records'[d].stage \in {"resolved", "rejected"}
      PROVE  queue'[i].snap[d] = persisted'[d]
  <2>1. CASE records'[d] = records[d]
    BY <1>2, <1>3, <2>1 DEF AgreeInv, SnapsOK
  <2>2. CASE queue[1].owner = d /\ queue[1].step = "terminal"
    <3>1. \A j \in 1..Len(queue) : queue[j].snap[d] = persisted[d]
      BY <1>2, <2>2 DEF AgreeInv, SnapsOK
    <3> QED BY <1>2, <3>1
  <2> QED BY <1>3, <2>1, <2>2
<1>4. ASSUME NEW d \in Commands \ evicted', NEW i \in 1..Len(queue'),
             queue'[i].owner = d, queue'[i].step = "terminal", NEW j \in i..Len(queue')
      PROVE  queue'[j].snap[d] = persisted'[d]
  <2>1. \A k \in (i + 1)..Len(queue) : queue[k].snap[d] = persisted[d]
    BY <1>2, <1>4 DEF AgreeInv, SnapsOK
  <2> QED BY <1>2, <2>1
<1>5. ASSUME NEW i \in 1..Len(queue') PROVE Truthful(queue[i].snap)'
  <2>1. \A d \in Commands :
          (queue[i + 1].snap[d] # None /\ queue[i + 1].snap[d].state = "completed")
            => queue[i + 1].snap[d].payload \in finished[d]
    BY <1>2 DEF AgreeInv, TruthOK, Truthful
  <2> QED BY <1>2, <2>1 DEF Truthful
<1> QED BY SMTT(30), <1>1, <1>3, <1>4, <1>5 DEF SnapsOK

\* A file that is left alone, or replaced by the head's snapshot, still holds what was answered.
LEMMA FileAgrees ==
  ASSUME IInv, AgreeInv, ledger' \in {ledger} \cup (IF queue = <<>> THEN {} ELSE {Head(queue).snap})
  PROVE  /\ \A d \in Commands \ evicted : \A x \in answers[d] : ledger'[d] = ledger[d]
         /\ \A d \in Commands :
              (ledger'[d] # None /\ ledger'[d].state = "completed") => ledger'[d].payload \in finished[d]
<1>1. CASE ledger' = ledger
  BY <1>1 DEF AgreeInv, TruthOK, Truthful
<1>2. CASE queue # <<>> /\ ledger' = queue[1].snap
  <2>1. 1 \in 1..Len(queue) /\ phase # "down"
    BY <1>2, TailFacts DEF IInv, JobsOK
  <2>2. ASSUME NEW d \in Commands \ evicted, NEW x \in answers[d] PROVE ledger'[d] = ledger[d]
    BY <1>2, <2>1, <2>2 DEF AgreeInv, AnsweredOK, SnapsOK
  <2>3. \A d \in Commands :
          (ledger'[d] # None /\ ledger'[d].state = "completed") => ledger'[d].payload \in finished[d]
    BY <1>2, <2>1 DEF AgreeInv, TruthOK, Truthful
  <2> QED BY <2>2, <2>3
<1> QED BY <1>1, <1>2, TailFacts

LEMMA AnswerAgrees ==
  ASSUME IInv, AgreeInv, NEW c \in Commands, NEW p \in Payloads, Answer(c, p)
  PROVE  AgreeInv'
<1>1. /\ UNCHANGED <<phase, records, persisted, queue, ledger, finished, evicted>>
      /\ phase = "up" /\ records[c] # None /\ records[c].stage = "resolved" /\ records[c].payload = p
      /\ answers' = [answers EXCEPT ![c] = @ \cup {<<p, records[c].status>>}]
      /\ answers \in [Commands -> SUBSET (Payloads \X Statuses)] /\ records[c] \in Promise
  BY DEF Answer, IInv, TypeOK
<1>2. KeptOK' /\ SnapsOK' /\ FileOK'
  BY <1>1 DEF AgreeInv, KeptOK, SnapsOK, FileOK, Written
<1>3. c \notin evicted => /\ ledger[c] = persisted[c] /\ ledger[c] = Written(records[c]) /\ ledger[c] # None
  <2>1. c \notin evicted => ledger[c] = Written(records[c]) /\ ledger[c] = persisted[c]
    BY <1>1 DEF AgreeInv, KeptOK, FileOK
  <2>2. Written(records[c]) \in LedgerRecord
    BY <1>1 DEF Written, Promise, LedgerRecord, Statuses, IInv, StatusOK
  <2> QED BY <2>1, <2>2, NoneAssumption
<1>4. records[c].status \in Statuses /\ Written(records[c]).state = records[c].status
      /\ Written(records[c]).payload = p
  BY <1>1 DEF Written, IInv, StatusOK, Promise
<1>5. AnsweredOK'
  <2> SUFFICES ASSUME NEW d \in Commands \ evicted, NEW x \in answers'[d]
               PROVE  /\ ledger[d] # None /\ ledger[d].state \in Statuses
                      /\ x = <<ledger[d].payload, ledger[d].state>>
                      /\ records[d] # None /\ records[d].stage = "resolved" /\ ledger[d] = persisted[d]
    BY <1>1 DEF AnsweredOK
  <2>1. CASE x \in answers[d]
    BY <1>1, <2>1 DEF AgreeInv, AnsweredOK
  <2>2. CASE d = c /\ x = <<p, records[c].status>>
    BY <1>1, <1>3, <1>4, <2>2
  <2> QED BY <1>1, <2>1, <2>2
<1>6. TruthOK'
  <2>1. \A d \in Commands, o \in Payloads : <<o, "completed">> \in answers'[d] => o \in finished[d]
    <3> SUFFICES ASSUME NEW d \in Commands, NEW o \in Payloads, <<o, "completed">> \in answers'[d]
                 PROVE  o \in finished[d]
      OBVIOUS
    <3>1. <<o, "completed">> \in answers[d] \/ (d = c /\ o = p /\ records[c].status = "completed")
      BY <1>1
    <3> QED BY <1>1, <3>1 DEF AgreeInv, TruthOK
  <2> QED BY <1>1, <2>1 DEF AgreeInv, TruthOK, Truthful
<1> QED BY <1>2, <1>5, <1>6 DEF AgreeInv

LEMMA ExecuteAgrees ==
  ASSUME IInv, IInv', AgreeInv, NEW c \in Commands, NEW p \in Payloads, NEW t \in Times, Execute(c, p, t)
  PROVE  AgreeInv'
<1> DEFINE r == [payload |-> p, state |-> "started", at |-> t]
<1> DEFINE m == [persisted EXCEPT ![c] = r]
<1> DEFINE new == [payload |-> p, at |-> t, stage |-> "intent", status |-> "pending",
                   stamp |-> issued[c].start]
<1>1. /\ phase = "up" /\ records[c] = None /\ Persist(m, queue, c, "intent")
      /\ records' = [records EXCEPT ![c] = new]
      /\ UNCHANGED <<phase, ledger, finished, answers>>
      /\ persisted \in LedgerMap /\ queue \in Seq(Job) /\ records \in [Commands -> Promise \cup {None}]
      /\ issued[c] \in [epoch : Nat, start : Nat]
  BY DEF Execute, IInv, TypeOK
<1>2. r \in LedgerRecord /\ m \in LedgerMap /\ m[c] = r /\ \A d \in Commands \ {c} : m[d] = persisted[d]
  <2>1. r \in LedgerRecord
    BY DEF LedgerRecord
  <2> QED BY <1>1, <2>1 DEF LedgerMap
<1>3. /\ records'[c] = new /\ new # None /\ \A d \in Commands \ {c} : records'[d] = records[d]
      /\ new.stage = "intent" /\ new.status = "pending" /\ Written(new) = r
  <2>1. new \in Promise
    BY <1>1 DEF Promise, InFlight
  <2> QED BY <1>1, <2>1, NoneAssumption DEF Written
<1>4. \A i \in 1..Len(queue) : queue[i].owner # c
  BY <1>1 DEF IInv, JobsOK
<1>5. /\ KeptOK' /\ SnapsOK' /\ Truthful(persisted)'
      /\ \A i \in 1..Len(queue') : Truthful(queue[i].snap)'
      /\ \A d \in Commands \ evicted' : d # c => persisted'[d] = persisted[d]
  <2> HIDE DEF r, m, new
  <2> QED BY <1>1, <1>2, <1>3, <1>4, EnqueueAgrees
<1>6. evicted \subseteq evicted'
  <2> HIDE DEF m
  <2> QED BY <1>1, <1>2, PersistKeeps
<1>7. FileOK'
  BY <1>1, <1>3, <1>5, <1>6 DEF AgreeInv, FileOK
<1>8. AnsweredOK'
  BY <1>1, <1>3, <1>5, <1>6 DEF AgreeInv, AnsweredOK
<1>9. TruthOK'
  BY <1>1, <1>3, <1>5 DEF AgreeInv, TruthOK, Truthful
<1> QED BY <1>5, <1>7, <1>8, <1>9 DEF AgreeInv

LEMMA ActionEndsAgrees ==
  ASSUME IInv, IInv', AgreeInv, NEW c \in Commands, NEW s \in Statuses, ActionEnds(c, s)
  PROVE  AgreeInv'
<1> DEFINE m == Terminal(c, s)
<1>1. /\ phase = "up" /\ records[c] # None /\ records[c].stage = "running" /\ records[c] \in Promise
      /\ records' = [records EXCEPT ![c].stage = "settling", ![c].status = s]
      /\ finished' = [finished EXCEPT ![c] = IF s = "completed" THEN @ \cup {records[c].payload} ELSE @]
      /\ Persist(m, queue, c, "terminal") /\ UNCHANGED <<phase, ledger, answers>>
      /\ persisted \in LedgerMap /\ queue \in Seq(Job) /\ records \in [Commands -> Promise \cup {None}]
      /\ finished \in [Commands -> SUBSET Payloads]
  BY DEF ActionEnds, IInv, TypeOK
<1>2. /\ m \in LedgerMap /\ \A d \in Commands \ {c} : m[d] = persisted[d]
      /\ m[c] = [payload |-> records[c].payload, state |-> s, at |-> records[c].at]
  <2>1. m \in LedgerMap /\ \A d \in Commands \ {c} : m[d] = persisted[d]
    <3> HIDE DEF m
    <3>1. TypeOK
      BY DEF IInv
    <3> QED BY <1>1, <3>1, TerminalFacts DEF m
  <2> QED BY <1>1, <2>1 DEF Terminal, LedgerMap
<1>3. /\ records'[c] # None /\ records'[c].stage = "settling" /\ records'[c].status = s
      /\ records'[c].payload = records[c].payload /\ Written(records'[c]) = m[c]
      /\ \A d \in Commands \ {c} : records'[d] = records[d]
  <2>1. [records[c] EXCEPT !.stage = "settling", !.status = s] \in Promise
    BY <1>1 DEF Promise, InFlight
  <2>2. records'[c] = [records[c] EXCEPT !.stage = "settling", !.status = s]
        /\ \A d \in Commands \ {c} : records'[d] = records[d]
    BY <1>1
  <2> HIDE DEF m
  <2> QED BY <1>1, <1>2, <2>1, <2>2, NoneAssumption DEF Written, Promise
<1>4. \A i \in 1..Len(queue) : queue[i].owner # c
  BY <1>1 DEF IInv, JobsOK
<1>5. /\ finished[c] \subseteq finished'[c] /\ \A d \in Commands \ {c} : finished'[d] = finished[d]
      /\ records'[c].status = "completed" => records'[c].payload \in finished'[c]
  BY <1>1, <1>3
<1> HIDE DEF m
<1>6. /\ KeptOK' /\ SnapsOK' /\ Truthful(persisted)'
      /\ \A i \in 1..Len(queue') : Truthful(queue[i].snap)'
      /\ \A d \in Commands \ evicted' : d # c => persisted'[d] = persisted[d]
  <2>1. "terminal" \in {"intent", "terminal"} /\ records'[c].stage \notin {"resolved", "rejected"}
    BY <1>3
  <2> QED BY <1>1, <1>2, <1>3, <1>4, <1>5, <2>1, EnqueueAgrees
<1>7. evicted \subseteq evicted'
  BY <1>1, <1>2, PersistKeeps
<1>8. FileOK'
  BY <1>1, <1>3, <1>6, <1>7 DEF AgreeInv, FileOK
<1>9. AnsweredOK'
  <2>1. c \notin evicted => answers[c] = {}
    BY <1>1 DEF AgreeInv, AnsweredOK
  <2> QED BY <1>1, <1>3, <1>6, <1>7, <2>1 DEF AgreeInv, AnsweredOK
<1>10. \A d \in Commands : finished[d] \subseteq finished'[d]
  BY <1>5
<1>11. TruthOK'
  <2>1. Truthful(ledger)'
    BY <1>1, <1>10 DEF AgreeInv, TruthOK, Truthful
  <2>2. \A d \in Commands :
          (records'[d] # None /\ records'[d].status = "completed") => records'[d].payload \in finished'[d]
    BY <1>3, <1>5, <1>10 DEF AgreeInv, TruthOK
  <2>3. \A d \in Commands, o \in Payloads : <<o, "completed">> \in answers'[d] => o \in finished'[d]
    BY <1>1, <1>10 DEF AgreeInv, TruthOK
  <2> QED BY <1>6, <2>1, <2>2, <2>3 DEF TruthOK
<1> QED BY <1>6, <1>8, <1>9, <1>11 DEF AgreeInv

LEMMA SaveSucceedsAgrees ==
  ASSUME IInv, IInv', AgreeInv, SaveSucceeds
  PROVE  AgreeInv'
<1> DEFINE c == Head(queue).owner
<1>1. /\ queue # <<>> /\ queue' = Tail(queue) /\ ledger' = queue[1].snap /\ Head(queue) = queue[1]
      /\ 1 \in 1..Len(queue)
      /\ UNCHANGED <<persisted, finished, answers, evicted>>
  BY TailFacts DEF SaveSucceeds, Released
<1>2. records \in [Commands -> Promise \cup {None}]
  BY DEF IInv, TypeOK
<1>3. \/ /\ queue[1].step = "intent" /\ phase = "up" /\ phase' = "up" /\ c \in Commands
         /\ records[c] # None /\ records[c].stage = "intent"
         /\ records' = [records EXCEPT ![c].stage = "running"]
      \/ /\ queue[1].step = "terminal" /\ phase = "up" /\ phase' = "up" /\ c \in Commands
         /\ records[c] # None /\ records[c].stage = "settling"
         /\ records' = [records EXCEPT ![c].stage = "resolved"]
      \/ queue[1].step = "recovery" /\ phase = "opening" /\ phase' = "up" /\ records' = records
  BY <1>1 DEF SaveSucceeds, IInv, JobsOK
<1>4. ASSUME NEW d \in Commands, records'[d] # None
      PROVE  /\ records[d] # None /\ Written(records'[d]) = Written(records[d])
             /\ \/ records'[d] = records[d]
                \/ queue[1].owner = d /\ queue[1].step = "terminal" /\ records'[d].stage = "resolved"
                \/ records'[d].stage = "running"
             /\ records'[d].payload = records[d].payload /\ records'[d].status = records[d].status
  <2>1. CASE records'[d] = records[d]
    BY <1>4, <2>1
  <2>2. CASE d = c /\ records[c] # None /\ records[c].stage = "intent" /\ records' = [records EXCEPT ![c].stage = "running"]
    BY <1>1, <1>2, <2>2 DEF Written, Promise
  <2>3. CASE d = c /\ records[c] # None /\ records[c].stage = "settling" /\ queue[1].step = "terminal"
             /\ records' = [records EXCEPT ![c].stage = "resolved"]
    BY <1>1, <1>2, <2>3 DEF Written, Promise
  <2> QED BY <1>2, <1>3, <2>1, <2>2, <2>3
<1>5. KeptOK' /\ SnapsOK' /\ \A i \in 1..Len(queue') : Truthful(queue[i].snap)'
  <2>1. \A d \in Commands : records'[d] # None =>
           /\ records[d] # None /\ Written(records'[d]) = Written(records[d])
           /\ \/ records'[d] = records[d]
              \/ queue[1].owner = d /\ queue[1].step = "terminal"
              \/ records'[d].stage \notin {"resolved", "rejected"}
    BY <1>4
  <2> QED BY <1>1, <2>1, DequeueAgrees
<1>6. /\ \A d \in Commands \ evicted : \A x \in answers[d] : ledger'[d] = ledger[d]
      /\ \A d \in Commands :
           (ledger'[d] # None /\ ledger'[d].state = "completed") => ledger'[d].payload \in finished[d]
  BY <1>1, FileAgrees
<1>7. FileOK'
  <2> SUFFICES ASSUME NEW d \in Commands \ evicted, records'[d] # None, records'[d].stage = "resolved"
               PROVE  queue[1].snap[d] = persisted[d]
    BY <1>1 DEF FileOK
  <2>1. CASE records'[d] = records[d]
    BY <1>1, <2>1 DEF AgreeInv, SnapsOK
  <2>2. CASE queue[1].owner = d /\ queue[1].step = "terminal"
    BY <1>1, <2>2, TailFacts DEF AgreeInv, SnapsOK
  <2> QED BY <1>4, <2>1, <2>2
<1>8. AnsweredOK'
  <2> SUFFICES ASSUME NEW d \in Commands \ evicted, NEW x \in answers[d]
               PROVE  /\ ledger'[d] # None /\ ledger'[d].state \in Statuses
                      /\ x = <<ledger'[d].payload, ledger'[d].state>>
                      /\ records'[d] # None /\ records'[d].stage = "resolved"
                      /\ ledger'[d] = persisted[d]
    BY <1>1 DEF AnsweredOK
  <2>1. /\ ledger[d] # None /\ ledger[d].state \in Statuses /\ ledger'[d] = ledger[d]
        /\ x = <<ledger[d].payload, ledger[d].state>>
        /\ records[d] # None /\ records[d].stage = "resolved" /\ ledger[d] = persisted[d]
    BY <1>3, <1>6 DEF AgreeInv, AnsweredOK
  <2>2. records'[d] = records[d]
    BY <1>2, <1>3, <2>1
  <2> QED BY <2>1, <2>2
<1>9. TruthOK'
  <2>1. Truthful(persisted)' /\ Truthful(ledger)'
    BY <1>1, <1>6 DEF AgreeInv, TruthOK, Truthful
  <2>2. \A d \in Commands :
          (records'[d] # None /\ records'[d].status = "completed") => records'[d].payload \in finished'[d]
    BY <1>1, <1>4 DEF AgreeInv, TruthOK
  <2>3. \A d \in Commands, o \in Payloads : <<o, "completed">> \in answers'[d] => o \in finished'[d]
    BY <1>1 DEF AgreeInv, TruthOK
  <2> QED BY <1>5, <2>1, <2>2, <2>3 DEF TruthOK
<1> QED BY <1>5, <1>7, <1>8, <1>9 DEF AgreeInv

LEMMA SettlingFacts ==
  ASSUME NEW r \in Promise, NEW s \in Statuses
  PROVE  LET settling == [r EXCEPT !.stage = "settling", !.status = s] IN
         /\ settling.stage = "settling" /\ settling.status = s
         /\ settling.payload = r.payload /\ settling.at = r.at
BY DEF Promise

LEMMA SaveFailsAgrees ==
  ASSUME IInv, IInv', AgreeInv, SaveFails
  PROVE  AgreeInv'
<1> DEFINE c == Head(queue).owner
<1>1. /\ queue # <<>> /\ ledger' \in {ledger, Head(queue).snap} /\ Head(queue) = queue[1]
      /\ 1 \in 1..Len(queue) /\ Tail(queue) \in Seq(Job)
      /\ UNCHANGED <<finished, answers>>
      /\ records \in [Commands -> Promise \cup {None}] /\ persisted \in LedgerMap
  BY TailFacts DEF SaveFails, IInv, TypeOK
<1>2. /\ \A d \in Commands \ evicted : \A x \in answers[d] : ledger'[d] = ledger[d]
      /\ \A d \in Commands :
           (ledger'[d] # None /\ ledger'[d].state = "completed") => ledger'[d].payload \in finished[d]
  BY <1>1, FileAgrees
\* A command whose file differs now is not one that was resolved.
<1>3. phase = "up" => \A d \in Commands \ evicted :
        (records[d] # None /\ records[d].stage = "resolved") => ledger'[d] = persisted[d]
  BY <1>1 DEF AgreeInv, SnapsOK, FileOK
<1>4. ASSUME NEW d \in Commands \ evicted, NEW x \in answers[d]
      PROVE  /\ ledger'[d] # None /\ ledger'[d].state \in Statuses
             /\ x = <<ledger'[d].payload, ledger'[d].state>>
             /\ phase # "down" =>
                  records[d] # None /\ records[d].stage = "resolved" /\ ledger'[d] = persisted[d]
  BY <1>2 DEF AgreeInv, AnsweredOK
<1>5. Truthful(ledger)'
  BY <1>1, <1>2 DEF Truthful
<1>6. CASE queue[1].step = "intent"
  <2> DEFINE m == Terminal(c, "failed")
  <2>1. /\ phase = "up" /\ phase' = "up" /\ c \in Commands
        /\ records[c] # None /\ records[c] \in Promise /\ records[c].stage = "intent"
        /\ records' = [records EXCEPT ![c].stage = "settling", ![c].status = "failed"]
        /\ Persist(m, Tail(queue), c, "terminal")
    BY <1>1, <1>6 DEF IInv, JobsOK, SaveFails, Released
  <2>2. /\ m \in LedgerMap /\ \A d \in Commands \ {c} : m[d] = persisted[d]
        /\ m[c] = [payload |-> records[c].payload, state |-> "failed", at |-> records[c].at]
    <3>1. m \in LedgerMap /\ \A d \in Commands \ {c} : m[d] = persisted[d]
      <4> HIDE DEF m
      <4>1. TypeOK /\ "failed" \in Statuses
        BY DEF IInv, Statuses
      <4> QED BY <2>1, <4>1, TerminalFacts DEF m
    <3> QED BY <1>1, <2>1, <3>1 DEF Terminal, LedgerMap
  <2>3. /\ records'[c] # None /\ records'[c].stage = "settling" /\ records'[c].status = "failed"
        /\ Written(records'[c]) = m[c]
        /\ \A d \in Commands \ {c} : records'[d] = records[d]
    <3>1. [records[c] EXCEPT !.stage = "settling", !.status = "failed"] \in Promise
      BY <2>1 DEF Promise, InFlight, Statuses
    <3>2. records'[c] = [records[c] EXCEPT !.stage = "settling", !.status = "failed"]
          /\ \A d \in Commands \ {c} : records'[d] = records[d]
      BY <1>1, <2>1
    <3>3. /\ records'[c].stage = "settling" /\ records'[c].status = "failed"
          /\ records'[c].payload = records[c].payload /\ records'[c].at = records[c].at
      <4>1. "failed" \in Statuses
        BY DEF Statuses
      <4>2. records[c] \in Promise
        BY <2>1
      <4> HIDE DEF c
      <4> QED BY <3>2, <4>1, <4>2, SettlingFacts
    <3>4. Written(records'[c]) = [payload |-> records[c].payload, at |-> records[c].at, state |-> "failed"]
      BY <3>3 DEF Written
    <3> HIDE DEF m
    <3> QED BY <2>2, <3>1, <3>2, <3>3, <3>4, NoneAssumption
  <2> HIDE DEF m
  <2>4. \A i \in 1..Len(Tail(queue)) : Tail(queue)[i].owner # c
    <3>1. \A d \in Commands \ {c} : records'[d] = records[d]
      BY <2>3
    <3>2. phase' = phase /\ phase = "up"
      BY <2>1
    <3> QED BY <1>1, <3>1, <3>2, DequeueJobs
  <2>5. /\ KeptOK' /\ SnapsOK' /\ Truthful(persisted)'
        /\ \A i \in 1..Len(queue') : Truthful(queue[i].snap)'
        /\ \A d \in Commands \ evicted' : d # c => persisted'[d] = persisted[d]
    <3>1. /\ "terminal" \in {"intent", "terminal"} /\ records'[c].stage \notin {"resolved", "rejected"}
          /\ records'[c].status # "completed"
          /\ finished[c] \subseteq finished'[c] /\ \A d \in Commands \ {c} : finished'[d] = finished[d]
      BY <1>1, <2>3
    <3>2. Tail(queue) \in Seq(Job) /\ queue # <<>> /\ c \in Commands
      BY <1>1, <2>1
    <3>3. m[c] = Written(records'[c])
      BY <2>3
    <3>4. records'[c].status = "completed" => records'[c].payload \in finished'[c]
      BY <3>1
    <3> HIDE DEF c
    <3> QED BY <1>1, <2>1, <2>2, <2>3, <2>4, <3>1, <3>2, <3>3, <3>4, EnqueueAgrees
  <2>6. evicted \subseteq evicted'
    BY <2>1, <2>2, PersistKeeps
  <2>7. FileOK'
    BY <1>3, <2>1, <2>3, <2>5, <2>6 DEF FileOK
  <2>8. AnsweredOK'
    <3>1. \A d \in Commands \ evicted : \A x \in answers[d] : d # c
      BY <1>4, <2>1
    <3> QED BY SMTT(30), <1>1, <1>4, <2>1, <2>3, <2>5, <2>6, <3>1 DEF AnsweredOK
  <2>9. TruthOK'
    BY <1>1, <1>5, <2>3, <2>5 DEF AgreeInv, TruthOK
  <2> QED BY <2>5, <2>7, <2>8, <2>9 DEF AgreeInv
<1>7. CASE queue[1].step = "terminal"
  <2>1. /\ phase = "up" /\ phase' = "up" /\ c \in Commands
        /\ records[c] # None /\ records[c] \in Promise /\ records[c].stage = "settling"
        /\ records' = [records EXCEPT ![c].stage = "rejected"]
        /\ queue' = Tail(queue) /\ UNCHANGED <<persisted, evicted>>
    BY <1>1, <1>7 DEF IInv, JobsOK, SaveFails, Released
  <2>2. /\ records'[c] # None /\ records'[c].stage = "rejected" /\ Written(records'[c]) = Written(records[c])
        /\ records'[c].payload = records[c].payload /\ records'[c].status = records[c].status
        /\ \A d \in Commands \ {c} : records'[d] = records[d]
    <3>1. [records[c] EXCEPT !.stage = "rejected"] \in Promise
      BY <2>1 DEF Promise
    <3>2. records'[c] = [records[c] EXCEPT !.stage = "rejected"]
          /\ \A d \in Commands \ {c} : records'[d] = records[d]
      BY <1>1, <2>1
    <3>3. /\ records'[c].stage = "rejected" /\ records'[c].payload = records[c].payload
          /\ records'[c].status = records[c].status /\ records'[c].at = records[c].at
      BY <2>1, <3>2 DEF Promise
    <3> QED BY <2>1, <3>1, <3>2, <3>3, NoneAssumption DEF Written
  <2>3. KeptOK' /\ SnapsOK' /\ \A i \in 1..Len(queue') : Truthful(queue[i].snap)'
    <3>1. \A d \in Commands : records'[d] # None =>
             /\ records[d] # None /\ Written(records'[d]) = Written(records[d])
             /\ \/ records'[d] = records[d]
                \/ queue[1].owner = d /\ queue[1].step = "terminal"
                \/ records'[d].stage \notin {"resolved", "rejected"}
      BY <1>1, <1>7, <2>1, <2>2
    <3> QED BY <1>1, <2>1, <3>1, DequeueAgrees
  <2>4. FileOK'
    BY <1>3, <2>1, <2>2 DEF FileOK
  <2>5. AnsweredOK'
    <3>1. \A d \in Commands \ evicted : \A x \in answers[d] : d # c
      BY <1>4, <2>1
    <3> QED BY <1>1, <1>4, <2>1, <2>2, <3>1 DEF AnsweredOK
  <2>6. TruthOK'
    BY SMTT(30), <1>1, <1>5, <2>1, <2>2, <2>3 DEF AgreeInv, TruthOK, Truthful
  <2> QED BY <2>3, <2>4, <2>5, <2>6 DEF AgreeInv
<1>8. CASE queue[1].step = "recovery"
  <2>1. /\ phase' = "down" /\ queue' = <<>> /\ Len(queue') = 0 /\ evicted' = evicted
        /\ records' = [d \in Commands |-> None] /\ persisted' = [d \in Commands |-> None]
    BY <1>1, <1>8 DEF SaveFails
  <2>2. KeptOK' /\ SnapsOK' /\ FileOK'
    BY <2>1 DEF KeptOK, SnapsOK, FileOK
  <2>3. AnsweredOK'
    BY <1>1, <1>4, <2>1 DEF AnsweredOK
  <2>4. TruthOK'
    BY <1>1, <1>5, <2>1 DEF AgreeInv, TruthOK, Truthful
  <2> QED BY <2>2, <2>3, <2>4 DEF AgreeInv
<1> QED BY <1>1, <1>6, <1>7, <1>8 DEF SaveFails

LEMMA CrashAgrees ==
  ASSUME IInv, AgreeInv, Crash
  PROVE  AgreeInv'
<1>1. /\ phase' = "down" /\ queue' = <<>> /\ Len(queue') = 0
      /\ records' = [d \in Commands |-> None] /\ persisted' = [d \in Commands |-> None]
      /\ UNCHANGED <<finished, answers, evicted>>
      /\ ledger' \in {ledger} \cup (IF queue = <<>> THEN {} ELSE {Head(queue).snap})
  BY DEF Crash
<1>2. /\ \A d \in Commands \ evicted : \A x \in answers[d] : ledger'[d] = ledger[d]
      /\ \A d \in Commands :
           (ledger'[d] # None /\ ledger'[d].state = "completed") => ledger'[d].payload \in finished[d]
  BY <1>1, FileAgrees
<1>3. KeptOK' /\ SnapsOK' /\ FileOK'
  BY <1>1 DEF KeptOK, SnapsOK, FileOK
<1>4. AnsweredOK'
  BY <1>1, <1>2 DEF AgreeInv, AnsweredOK
<1>5. TruthOK'
  BY <1>1, <1>2 DEF AgreeInv, TruthOK, Truthful
<1> QED BY <1>3, <1>4, <1>5 DEF AgreeInv

LEMMA BootAgrees ==
  ASSUME IInv, IInv', AgreeInv, Boot
  PROVE  AgreeInv'
<1> DEFINE old(d) == [payload |-> ledger[d].payload, at |-> ledger[d].at, stage |-> "resolved",
                      status |-> Recovered(ledger[d]).state, stamp |-> 0]
<1> DEFINE job == [snap |-> RecoveredMap, owner |-> None, step |-> "recovery"]
<1>1. /\ persisted' = RecoveredMap
      /\ records' = [d \in Commands |-> IF ledger[d] = None THEN None ELSE old(d)]
      /\ UNCHANGED <<ledger, finished, answers, evicted>>
      /\ \/ phase' = "opening" /\ queue' = <<job>>
         \/ phase' = "up" /\ queue' = <<>> /\ \A d \in Known(ledger) : ledger[d].state # "started"
  BY DEF Boot
<1>2. \A d \in Commands : ledger[d] # None => ledger[d] \in LedgerRecord
  BY DEF IInv, TypeOK, LedgerMap
<1>3. ASSUME NEW r \in LedgerRecord
      PROVE  /\ Recovered(r).payload = r.payload /\ Recovered(r).at = r.at
             /\ Recovered(r) = [payload |-> r.payload, state |-> Recovered(r).state, at |-> r.at]
             /\ r.state # "started" => Recovered(r) = r
             /\ r.state = "started" => Recovered(r).state = "failed"
  BY <1>3 DEF LedgerRecord, Recovered
<1>4. /\ \A d \in Commands : records'[d] # None => ledger[d] # None
      /\ \A d \in Commands : ledger[d] # None => RecoveredMap[d] = Recovered(ledger[d])
      /\ \A d \in Commands : RecoveredMap[d] # None => ledger[d] # None
  <2>1. /\ \A d \in Commands : RecoveredMap[d] = None <=> ledger[d] = None
    BY RecoveredFacts DEF IInv
  <2> QED BY <1>1, <2>1 DEF RecoveredMap
<1>5. \A d \in Commands : ledger[d] # None => /\ records'[d] = old(d)
                                              /\ Written(old(d)) = RecoveredMap[d]
  BY <1>1, <1>2, <1>3, <1>4 DEF Written
<1>6. \A d \in Commands : ledger[d] # None => records'[d] # None
  <2>1. \A d \in Commands : ledger[d] # None => old(d) \in Promise
    <3>1. \A d \in Commands : ledger[d] # None => Recovered(ledger[d]).state \in Statuses
      BY RecoveredFacts DEF IInv
    <3> QED BY <1>2, <3>1 DEF LedgerRecord, Promise
  <2> QED BY <1>5, <2>1, NoneAssumption
<1>12. \A d \in Commands : ledger[d] # None =>
         /\ records'[d].stage = "resolved" /\ records'[d].payload = ledger[d].payload
         /\ records'[d].status = Recovered(ledger[d]).state
  BY <1>1
<1>7. \A i \in 1..Len(queue') : i = 1 /\ queue'[i] = job
  <2> HIDE DEF job
  <2>1. CASE queue' = <<job>>
    BY <2>1
  <2>2. CASE queue' = <<>>
    BY <2>2
  <2> QED BY <1>1, <2>1, <2>2
<1>8. KeptOK' /\ SnapsOK'
  <2>1. KeptOK'
    BY <1>1, <1>4, <1>5, <1>7 DEF KeptOK
  <2>2. SnapsOK'
    BY <1>1, <1>4, <1>5, <1>7 DEF SnapsOK
  <2> QED BY <2>1, <2>2
<1>9. FileOK'
  <2> SUFFICES ASSUME NEW d \in Commands \ evicted, phase' = "up", records'[d] # None
               PROVE  ledger[d] = RecoveredMap[d]
    BY <1>1 DEF FileOK
  <2>1. ledger[d] # None /\ ledger[d] \in LedgerRecord /\ ledger[d].state # "started"
    BY <1>1, <1>2, <1>4 DEF Known
  <2> QED BY <1>3, <1>4, <2>1
<1>10. AnsweredOK'
  <2> SUFFICES ASSUME NEW d \in Commands \ evicted, NEW x \in answers[d]
               PROVE  /\ ledger[d] # None /\ ledger[d].state \in Statuses
                      /\ x = <<ledger[d].payload, ledger[d].state>>
                      /\ records'[d] # None /\ records'[d].stage = "resolved"
                      /\ ledger[d] = RecoveredMap[d]
    BY <1>1 DEF AnsweredOK
  <2>1. /\ ledger[d] # None /\ ledger[d].state \in Statuses
        /\ x = <<ledger[d].payload, ledger[d].state>>
    BY DEF AgreeInv, AnsweredOK
  <2>2. ledger[d].state # "started" /\ ledger[d] \in LedgerRecord
    BY <1>2, <2>1 DEF Statuses
  <2>3. records'[d] # None /\ records'[d].stage = "resolved"
    BY <1>6, <1>12, <2>1
  <2>4. RecoveredMap[d] = ledger[d]
    BY <1>3, <1>4, <2>1, <2>2
  <2> HIDE DEF old, job
  <2> QED BY <2>1, <2>3, <2>4
<1>11. TruthOK'
  <2>1. ASSUME NEW d \in Commands, RecoveredMap[d] # None, RecoveredMap[d].state = "completed"
        PROVE  RecoveredMap[d].payload \in finished[d]
    <3>1. /\ ledger[d] # None /\ ledger[d] \in LedgerRecord /\ RecoveredMap[d] = Recovered(ledger[d])
      BY <1>2, <1>4, <2>1
    <3>2. ledger[d].state = "completed"
      BY <1>3, <2>1, <3>1
    <3> QED BY <1>3, <3>1, <3>2 DEF AgreeInv, TruthOK, Truthful
  <2>2. \A d \in Commands :
          (records'[d] # None /\ records'[d].status = "completed") => records'[d].payload \in finished[d]
    <3> SUFFICES ASSUME NEW d \in Commands, records'[d] # None, records'[d].status = "completed"
                 PROVE  records'[d].payload \in finished[d]
      OBVIOUS
    <3>1. /\ ledger[d] # None /\ records'[d].status = Recovered(ledger[d]).state
          /\ records'[d].payload = ledger[d].payload /\ RecoveredMap[d] = Recovered(ledger[d])
          /\ RecoveredMap[d] # None /\ ledger[d] \in LedgerRecord
      <4>1. \A e \in Commands : RecoveredMap[e] = None <=> ledger[e] = None
        BY RecoveredFacts DEF IInv
      <4>2. ledger[d] # None /\ ledger[d] \in LedgerRecord
        BY <1>2, <1>4
      <4>3. records'[d].status = Recovered(ledger[d]).state /\ records'[d].payload = ledger[d].payload
        BY <1>12, <4>2
      <4>4. RecoveredMap[d] = Recovered(ledger[d]) /\ RecoveredMap[d] # None
        BY <1>4, <4>1, <4>2
      <4> QED BY <4>2, <4>3, <4>4
    <3> QED BY <1>3, <2>1, <3>1
  <2>3. Truthful(persisted)' /\ \A i \in 1..Len(queue') : Truthful(queue[i].snap)'
    BY <1>1, <1>7, <2>1 DEF Truthful
  <2> QED BY <1>1, <2>2, <2>3 DEF AgreeInv, TruthOK, Truthful
<1> QED BY <1>8, <1>9, <1>10, <1>11 DEF AgreeInv

LEMMA AgreeInit == Init => AgreeInv
BY DEF Init, AgreeInv, KeptOK, SnapsOK, FileOK, AnsweredOK, TruthOK, Truthful

LEMMA AgreeNext == IInv /\ IInv' /\ AgreeInv /\ [Next]_vars => AgreeInv'
<1> SUFFICES ASSUME IInv, IInv', AgreeInv, [Next]_vars PROVE AgreeInv'
  OBVIOUS
<1>1. ASSUME UNCHANGED <<phase, records, persisted, queue, ledger, finished, answers, evicted>>
      PROVE  AgreeInv'
  BY <1>1 DEF AgreeInv, KeptOK, SnapsOK, FileOK, AnsweredOK, TruthOK, Truthful, Written
<1>2. CASE UNCHANGED vars
  BY <1>1, <1>2 DEF vars
<1>3. ASSUME NEW c \in Commands, Issue(c) PROVE AgreeInv'
  BY <1>1, <1>3 DEF Issue
<1> QED BY <1>2, <1>3, AnswerAgrees, ExecuteAgrees, ActionEndsAgrees, SaveSucceedsAgrees, SaveFailsAgrees,
           CrashAgrees, BootAgrees DEF Next

\* Whatever fails or dies in between, two clients of one commandId are given the same receipt
\* while its record is retained, and a "completed" one only of a mutation that completed.
THEOREM ReceiptsNeverDisagree == Spec => []ReceiptsAgree
<1>1. AgreeInv => ReceiptsAgree
  BY DEF AgreeInv, AnsweredOK, TruthOK, ReceiptsAgree
<1>2. Spec => []AgreeInv
  BY AgreeInit, AgreeNext, Invariance, PTL DEF Spec
<1> QED BY <1>1, <1>2, PTL

------------------------------------------------------------------------------
(* The terminals and sessions in the workspace activity *)

Screens == [at : Terms \union {"none"}, text : Seq(Nat), over : BOOLEAN]

TerminalsTypeOK ==
  /\ known \in [Agents -> [active : BOOLEAN, busy : BOOLEAN]]
  /\ announced \in [Cwds -> [sessions : BOOLEAN, terminals : BOOLEAN]]
  /\ term \in [Terms -> {"none", "live", "exited", "closed"}]
  /\ process \in [Terms -> {"none", "runs", "killed", "ended"}]
  /\ buffer \in [Terms -> Seq(Nat)] /\ outputs \in [Terms -> Nat]
  /\ screen \in [Viewers -> Screens]

\* A terminal that is shown to be over has no process left, and one that nobody opened
\* has no socket.
ProcessesEnd == \A t \in Terms : term[t] = "exited" => process[t] = "ended"
AttachedWereOpen == \A v \in Viewers : screen[v].at # "none" => term[screen[v].at] # "none"

TerminalsInv ==
  /\ TerminalsTypeOK /\ ProcessesEnd /\ AttachedWereOpen
  /\ ShellsAreRunning /\ AnnouncedIsCurrent /\ ViewersAgree

\* Publishing the directory of what changed is enough.
LEMMA SummaryOfTheRest ==
  ASSUME TerminalsTypeOK, NEW s \in Agents, NEW record \in [active : BOOLEAN, busy : BOOLEAN],
         AnnouncedIsCurrent, RecordSession(s, record)
  PROVE  /\ known' \in [Agents -> [active : BOOLEAN, busy : BOOLEAN]]
         /\ announced' \in [Cwds -> [sessions : BOOLEAN, terminals : BOOLEAN]]
         /\ AnnouncedIsCurrent' /\ shells' = shells
<1>1. /\ known' = [known EXCEPT ![s] = record] /\ shells' = shells
      /\ announced' = [announced EXCEPT ![CwdOf[s]] = Summary(CwdOf[s], known', shells)]
  BY DEF RecordSession, PublishCwd
<1>2. known' \in [Agents -> [active : BOOLEAN, busy : BOOLEAN]] /\ \A a \in Agents \ {s} : known'[a] = known[a]
  BY <1>1 DEF TerminalsTypeOK
<1>3. Summary(CwdOf[s], known', shells) \in [sessions : BOOLEAN, terminals : BOOLEAN]
  BY DEF Summary
<1>4. announced' \in [Cwds -> [sessions : BOOLEAN, terminals : BOOLEAN]]
  BY <1>1, <1>3 DEF TerminalsTypeOK
<1>5. ASSUME NEW c \in Cwds PROVE announced'[c] = Summary(c, known', shells')
  <2>1. CASE c = CwdOf[s]
    BY <2>1, <1>1 DEF TerminalsTypeOK
  <2>2. CASE c # CwdOf[s]
    <3>1. announced'[c] = Summary(c, known, shells)
      BY <2>2, <1>1 DEF TerminalsTypeOK, AnnouncedIsCurrent
    <3>2. \A a \in Agents : CwdOf[a] = c => known'[a] = known[a]
      BY <2>2, <1>2
    <3> QED BY <3>1, <3>2, <1>1 DEF Summary
  <2> QED BY <2>1, <2>2
<1> QED BY <1>1, <1>2, <1>4, <1>5 DEF AnnouncedIsCurrent

LEMMA TerminalsAnnounced ==
  ASSUME TerminalsTypeOK, NEW t \in Terms, NEW exited \in BOOLEAN, AnnouncedIsCurrent, UpdateTerminal(t, exited)
  PROVE  /\ announced' \in [Cwds -> [sessions : BOOLEAN, terminals : BOOLEAN]]
         /\ AnnouncedIsCurrent' /\ known' = known
         /\ shells' = IF exited THEN shells \ {t} ELSE shells \union {t}
<1>1. /\ shells' = (IF exited THEN shells \ {t} ELSE shells \union {t}) /\ known' = known
      /\ announced' = [announced EXCEPT ![CwdOf[t]] = Summary(CwdOf[t], known, shells')]
  BY DEF UpdateTerminal, PublishCwd
<1>2. Summary(CwdOf[t], known, shells') \in [sessions : BOOLEAN, terminals : BOOLEAN]
  BY DEF Summary
<1>3. announced' \in [Cwds -> [sessions : BOOLEAN, terminals : BOOLEAN]]
  BY <1>1, <1>2 DEF TerminalsTypeOK
<1>4. ASSUME NEW c \in Cwds PROVE announced'[c] = Summary(c, known', shells')
  <2>1. CASE c = CwdOf[t]
    BY <2>1, <1>1 DEF TerminalsTypeOK
  <2>2. CASE c # CwdOf[t]
    <3>1. announced'[c] = Summary(c, known, shells)
      BY <2>2, <1>1 DEF TerminalsTypeOK, AnnouncedIsCurrent
    <3>2. \A x : CwdOf[x] = c => (x \in shells' <=> x \in shells)
      BY <2>2, <1>1
    <3>3. (\E x \in shells' : CwdOf[x] = c) <=> (\E x \in shells : CwdOf[x] = c)
      BY <3>2
    <3> QED BY <3>1, <3>3, <1>1 DEF Summary
  <2> QED BY <2>1, <2>2
<1> QED BY <1>1, <1>3, <1>4 DEF AnnouncedIsCurrent

\* What a terminal prints keeps its buffer a sequence.
LEMMA TrimmedIsTyped ==
  ASSUME NEW text \in Seq(Nat), NEW data \in Nat
  PROVE  TrimReplayBuffer(Append(text, data)) \in Seq(Nat)
<1>1. PICK a \in Seq(Nat) : a = Append(text, data)
  BY AppendProperties
<1>2. Len(a) > BufferSize => SubSeq(a, Len(a) - BufferSize + 1, Len(a)) \in Seq(Nat)
  <2> SUFFICES ASSUME Len(a) > BufferSize PROVE SubSeq(a, Len(a) - BufferSize + 1, Len(a)) \in Seq(Nat)
    OBVIOUS
  <2>1. Len(a) - BufferSize + 1 \in 1 .. Len(a) + 1 /\ Len(a) \in 0 .. Len(a)
    BY <1>1, TerminalsAssumption
  <2> QED BY <1>1, <2>1, SubSeqProperties
<1> QED BY <1>1, <1>2 DEF TrimReplayBuffer

LEMMA TerminalsBegin == ActivityInit /\ TerminalsInit => TerminalsInv
<1> SUFFICES ASSUME ActivityInit, TerminalsInit PROVE TerminalsInv
  OBVIOUS
<1> USE DEF ActivityInit, TerminalsInit
<1>1. Detached \in Screens /\ Detached.at = "none" /\ Quiet \in [active : BOOLEAN, busy : BOOLEAN] /\ ~IsSessionActive(Quiet)
      /\ NoActivity \in [sessions : BOOLEAN, terminals : BOOLEAN]
  BY DEF Detached, Screens, Quiet, IsSessionActive, NoActivity
<1>2. TerminalsTypeOK
  BY <1>1 DEF TerminalsTypeOK
<1>3. ProcessesEnd /\ AttachedWereOpen /\ ShellsAreRunning /\ ViewersAgree
  BY <1>1 DEF ProcessesEnd, AttachedWereOpen, ShellsAreRunning, ViewersAgree
<1>4. AnnouncedIsCurrent
  BY <1>1 DEF AnnouncedIsCurrent, Summary, NoActivity
<1> QED BY <1>2, <1>3, <1>4 DEF TerminalsInv

LEMMA SessionsAreAnnounced ==
  ASSUME TerminalsInv, SessionActivityNext, UNCHANGED terminalVars
  PROVE  TerminalsInv'
<1>1. TerminalsTypeOK /\ AnnouncedIsCurrent
  BY DEF TerminalsInv
<1>2. \/ UNCHANGED activityVars
      \/ \E s \in Agents, record \in [active : BOOLEAN, busy : BOOLEAN] : RecordSession(s, record)
  <2>1. \A s \in Agents : known[s] \in [active : BOOLEAN, busy : BOOLEAN]
    BY <1>1 DEF TerminalsTypeOK
  <2>2. \A s \in Agents, w \in BOOLEAN : \A p :
          /\ WithActivity(known[s], p) \in [active : BOOLEAN, busy : BOOLEAN]
          /\ WithStatus(known[s], w) \in [active : BOOLEAN, busy : BOOLEAN]
          /\ WithStatus(WithActivity(known[s], p), w) \in [active : BOOLEAN, busy : BOOLEAN]
    BY <2>1 DEF WithActivity, WithStatus
  <2> SUFFICES ASSUME NEW s \in Agents,
                      \/ OpenSession(s) \/ AgentStarts(s) \/ AgentEnds(s) \/ AgentSettles(s)
                      \/ \E p \in {"active", "idle"} : AgentReports(s, p)
                      \/ Shell(s) \/ CloseSession(s) \/ OldTurnStops(s) \/ ListReconciles(s) \/ Heartbeat(s)
                      \/ \E r \in Generations : TimerFires(s, r) \/ ShellChunk(s, r) \/ ShellEnds(s, r)
               PROVE  \/ UNCHANGED activityVars
                      \/ \E record \in [active : BOOLEAN, busy : BOOLEAN] : RecordSession(s, record)
    BY DEF SessionActivityNext
  <2> DEFINE Told == \E record \in [active : BOOLEAN, busy : BOOLEAN] : RecordSession(s, record)
  <2>3. ASSUME NEW p, NEW w \in BOOLEAN, Says(s, p, w) PROVE Told
    <3>1. WithStatus(WithActivity(known[s], p), w) \in [active : BOOLEAN, busy : BOOLEAN]
      BY <2>2
    <3> QED BY <3>1, <2>3 DEF Says
  <2>4. ASSUME PublishStatus(s) PROVE Told
    <3>1. HasActiveWork(s) \in BOOLEAN
      BY DEF HasActiveWork, Works
    <3> QED BY <3>1, <2>2, <2>4 DEF PublishStatus
  <2>5. ASSUME RemoveSession(s) PROVE Told
    BY <2>5 DEF RemoveSession, Quiet
  <2> HIDE DEF Told
  <2>6. CASE OpenSession(s) BY <2>4, <2>6 DEF OpenSession, Told
  <2>7. CASE AgentStarts(s) BY <2>3, <2>7 DEF AgentStarts, Told
  <2>8. CASE AgentEnds(s) BY <2>3, <2>8 DEF AgentEnds, Told
  <2>9. CASE AgentSettles(s) BY <2>9 DEF AgentSettles, activityVars
  <2>10. ASSUME NEW p, AgentReports(s, p) PROVE Told BY <2>3, <2>10 DEF AgentReports
  <2>11. CASE Shell(s) BY <2>2, <2>11 DEF Shell, Told
  <2>12. CASE CloseSession(s) BY <2>5, <2>12 DEF CloseSession, Told
  <2>13. CASE OldTurnStops(s) BY <2>13 DEF OldTurnStops, activityVars
  <2>14. CASE ListReconciles(s) BY <2>5, <2>14 DEF ListReconciles, Told
  <2>15. CASE Heartbeat(s) BY <2>3, <2>4, <2>15 DEF Heartbeat, Told
  <2>16. ASSUME NEW r, TimerFires(s, r) PROVE Told
    <3>1. Works(s, r) \in BOOLEAN
      BY DEF Works
    <3> QED BY <3>1, <2>3, <2>16 DEF TimerFires
  <2>17. ASSUME NEW r, ShellChunk(s, r) PROVE Told BY <2>3, <2>17 DEF ShellChunk
  <2>18. ASSUME NEW r, ShellEnds(s, r) PROVE Told
    <3>1. (r \in streaming[s]) \in BOOLEAN
      OBVIOUS
    <3> QED BY <3>1, <2>3, <2>18 DEF ShellEnds
  <2> QED BY <2>6, <2>7, <2>8, <2>9, <2>10, <2>11, <2>12, <2>13, <2>14, <2>15, <2>16, <2>17, <2>18 DEF Told
<1>3. /\ known' \in [Agents -> [active : BOOLEAN, busy : BOOLEAN]]
      /\ announced' \in [Cwds -> [sessions : BOOLEAN, terminals : BOOLEAN]]
      /\ AnnouncedIsCurrent' /\ shells' = shells
  <2>1. CASE UNCHANGED activityVars
    BY <2>1, <1>1 DEF activityVars, TerminalsTypeOK, AnnouncedIsCurrent, Summary
  <2> QED BY <2>1, <1>1, <1>2, SummaryOfTheRest
<1>4. TerminalsTypeOK' /\ ProcessesEnd' /\ AttachedWereOpen' /\ ShellsAreRunning' /\ ViewersAgree'
  BY <1>3 DEF TerminalsInv, terminalVars, TerminalsTypeOK, ProcessesEnd, AttachedWereOpen, ShellsAreRunning, ViewersAgree, Open
<1> QED BY <1>3, <1>4 DEF TerminalsInv
\* What an action on one terminal must say of the others.
LEMMA OneTerminalChanges ==
  ASSUME TerminalsInv, NEW t \in Terms, TerminalsTypeOK', AnnouncedIsCurrent',
         shells' = (IF term'[t] = "live" /\ process'[t] = "runs" THEN shells \union {t} ELSE shells \ {t}),
         \A x \in Terms \ {t} : /\ term'[x] = term[x] /\ process'[x] = process[x] /\ buffer'[x] = buffer[x],
         term[t] # "none" => term'[t] # "none",
         term'[t] = "exited" => process'[t] = "ended",
         \A v \in Viewers :
           /\ screen'[v].at = screen[v].at
           /\ screen[v].at # t => screen'[v] = screen[v]
           /\ screen[v].at = t /\ t # "none" /\ term[t] # "none" /\ term'[t] \in {"live", "exited"} =>
                screen'[v].text = buffer'[t] /\ screen'[v].over = (term'[t] = "exited")
  PROVE  TerminalsInv'
<1>1. ProcessesEnd'
  BY DEF TerminalsInv, ProcessesEnd
<1>2. \A v \in Viewers : screen[v].at \in Terms \union {"none"}
  BY DEF TerminalsInv, TerminalsTypeOK, Screens
<1>3. AttachedWereOpen'
  BY <1>2 DEF TerminalsInv, AttachedWereOpen
<1>4. ShellsAreRunning'
  BY DEF TerminalsInv, ShellsAreRunning
<1>5. ViewersAgree'
  <2> SUFFICES ASSUME NEW v \in Viewers, screen'[v].at # "none", term'[screen'[v].at] \in {"live", "exited"}
               PROVE  /\ screen'[v].text = buffer'[screen'[v].at]
                      /\ screen'[v].over = (term'[screen'[v].at] = "exited")
    BY DEF ViewersAgree, Open
  <2>1. screen'[v].at = screen[v].at /\ screen[v].at \in Terms
    BY <1>2
  <2>2. CASE screen[v].at = t
    BY <2>1, <2>2 DEF TerminalsInv, AttachedWereOpen
  <2>3. CASE screen[v].at # t
    BY <2>1, <2>3 DEF TerminalsInv, ViewersAgree, Open
  <2> QED BY <2>2, <2>3
<1> QED BY <1>1, <1>3, <1>4, <1>5 DEF TerminalsInv

\* What the sockets of a terminal are sent.
LEMMA EmittedFacts ==
  ASSUME TerminalsTypeOK, NEW t \in Terms, NEW data \in Nat, screen' = Emitted(t, data)
  PROVE  /\ screen' \in [Viewers -> Screens]
         /\ \A v \in Viewers :
              /\ screen'[v].at = screen[v].at
              /\ screen[v].at # t => screen'[v] = screen[v]
              /\ screen[v].at = t => /\ screen'[v].text = TrimReplayBuffer(Append(screen[v].text, data))
                                     /\ screen'[v].over = FALSE
<1>1. \A v \in Viewers : screen[v] \in Screens
  BY DEF TerminalsTypeOK
<1>2. ASSUME NEW v \in Viewers PROVE TrimReplayBuffer(Append(screen[v].text, data)) \in Seq(Nat)
  BY <1>1, TrimmedIsTyped DEF Screens
<1>3. ASSUME NEW v \in Viewers, screen[v].at = t
      PROVE  screen'[v] = [at |-> t, text |-> TrimReplayBuffer(Append(screen[v].text, data)), over |-> FALSE]
  BY <1>1, <1>3 DEF Emitted, Screens
<1>4. ASSUME NEW v \in Viewers, screen[v].at # t PROVE screen'[v] = screen[v]
  BY <1>4 DEF Emitted
<1>5. ASSUME NEW v \in Viewers PROVE screen'[v] \in Screens
  <2>1. CASE screen[v].at = t
    <3>1. PICK x \in Seq(Nat) : x = TrimReplayBuffer(Append(screen[v].text, data))
      BY <1>2
    <3>2. screen'[v] = [at |-> t, text |-> x, over |-> FALSE]
      BY <2>1, <3>1, <1>3
    <3> QED BY <3>2 DEF Screens
  <2>2. CASE screen[v].at # t BY <2>2, <1>1, <1>4
  <2> QED BY <2>1, <2>2
<1>6. screen' = [v \in Viewers |-> screen'[v]]
  BY DEF Emitted
<1>7. screen' \in [Viewers -> Screens]
  BY <1>5, <1>6
<1> QED BY <1>3, <1>4, <1>7

LEMMA TerminalsStep ==
  ASSUME TerminalsInv, TerminalsNext
  PROVE  TerminalsInv'
<1>1. TerminalsTypeOK /\ ProcessesEnd /\ AttachedWereOpen /\ ShellsAreRunning /\ AnnouncedIsCurrent /\ ViewersAgree
  BY DEF TerminalsInv
<1> DEFINE Changes(t) ==
      /\ TerminalsTypeOK' /\ AnnouncedIsCurrent'
      /\ shells' = (IF term'[t] = "live" /\ process'[t] = "runs" THEN shells \union {t} ELSE shells \ {t})
      /\ \A x \in Terms \ {t} : /\ term'[x] = term[x] /\ process'[x] = process[x] /\ buffer'[x] = buffer[x]
      /\ term[t] # "none" => term'[t] # "none"
      /\ term'[t] = "exited" => process'[t] = "ended"
      /\ \A v \in Viewers :
           /\ screen'[v].at = screen[v].at
           /\ screen[v].at # t => screen'[v] = screen[v]
           /\ screen[v].at = t /\ t # "none" /\ term[t] # "none" /\ term'[t] \in {"live", "exited"} =>
                screen'[v].text = buffer'[t] /\ screen'[v].over = (term'[t] = "exited")
<1>2. ASSUME NEW t \in Terms, Changes(t) PROVE TerminalsInv'
  BY <1>2, OneTerminalChanges
<1>3. ASSUME NEW t \in Terms, NEW command \in BOOLEAN, CreateTerminal(t, command) PROVE TerminalsInv'
  <2>1. /\ announced' \in [Cwds -> [sessions : BOOLEAN, terminals : BOOLEAN]]
        /\ AnnouncedIsCurrent' /\ known' = known /\ shells' = shells \union {t}
    <3>1. UpdateTerminal(t, FALSE)
      BY <1>3 DEF CreateTerminal
    <3> QED BY <3>1, <1>1, TerminalsAnnounced
  <2>2. /\ term[t] = "none" /\ term' = [term EXCEPT ![t] = "live"] /\ process' = [process EXCEPT ![t] = "runs"]
        /\ UNCHANGED <<buffer, outputs, screen>>
    BY <1>3 DEF CreateTerminal
  <2>3. TerminalsTypeOK'
    BY <1>1, <2>1, <2>2 DEF TerminalsTypeOK
  <2>4. Changes(t)
    BY <1>1, <2>1, <2>2, <2>3 DEF TerminalsTypeOK
  <2> HIDE DEF Changes
  <2> QED BY <2>4, <1>2
<1>4. ASSUME NEW t \in Terms, Output(t) PROVE TerminalsInv'
  <2>1. /\ process[t] \in {"runs", "killed"} /\ outputs' = [outputs EXCEPT ![t] = @ + 1]
        /\ buffer' = [buffer EXCEPT ![t] = TrimReplayBuffer(Append(@, outputs[t]))]
        /\ screen' = IF Open(t) THEN Emitted(t, outputs[t]) ELSE screen
        /\ UNCHANGED <<term, process, known, shells, announced>>
    BY <1>4 DEF Output
  <2>2. outputs[t] \in Nat /\ buffer[t] \in Seq(Nat)
    BY <1>1 DEF TerminalsTypeOK
  <2>3. TrimReplayBuffer(Append(buffer[t], outputs[t])) \in Seq(Nat)
    BY <2>2, TrimmedIsTyped
  <2>4. AnnouncedIsCurrent'
    BY <1>1, <2>1 DEF AnnouncedIsCurrent, Summary
  <2>5. term[t] # "exited"
    BY <1>1, <2>1 DEF ProcessesEnd
  <2>6. /\ buffer' \in [Terms -> Seq(Nat)] /\ buffer'[t] = TrimReplayBuffer(Append(buffer[t], outputs[t]))
        /\ \A x \in Terms \ {t} : buffer'[x] = buffer[x]
        /\ outputs' \in [Terms -> Nat]
    BY <1>1, <2>1, <2>3 DEF TerminalsTypeOK
  <2>7. CASE ~Open(t)
    <3>1. screen' = screen
      BY <2>1, <2>7
    <3>2. TerminalsTypeOK' /\ ProcessesEnd' /\ AttachedWereOpen' /\ ShellsAreRunning'
      BY <1>1, <2>1, <2>6, <3>1 DEF TerminalsTypeOK, ProcessesEnd, AttachedWereOpen, ShellsAreRunning
    <3>3. \A v \in Viewers : screen[v].at \in Terms \union {"none"}
      BY <1>1 DEF TerminalsTypeOK, Screens
    <3>4. ViewersAgree'
      BY <1>1, <2>1, <2>6, <2>7, <3>1, <3>3 DEF ViewersAgree, Open
    <3> QED BY <2>4, <3>2, <3>4 DEF TerminalsInv
  <2>8. CASE Open(t)
    <3>1. screen' = Emitted(t, outputs[t]) /\ term[t] = "live"
      BY <2>1, <2>5, <2>8 DEF Open
    <3>2. /\ screen' \in [Viewers -> Screens]
          /\ \A v \in Viewers :
              /\ screen'[v].at = screen[v].at
              /\ screen[v].at # t => screen'[v] = screen[v]
              /\ screen[v].at = t => /\ screen'[v].text = TrimReplayBuffer(Append(screen[v].text, outputs[t]))
                                     /\ screen'[v].over = FALSE
      BY <1>1, <2>2, <3>1, EmittedFacts
    <3>3. TerminalsTypeOK'
      BY <1>1, <2>1, <2>6, <3>2 DEF TerminalsTypeOK
    <3>4. \A v \in Viewers : screen[v].at = t /\ t # "none" => screen[v].text = buffer[t]
      BY <1>1, <2>8 DEF ViewersAgree
    <3>5. shells' = IF term'[t] = "live" /\ process'[t] = "runs" THEN shells \union {t} ELSE shells \ {t}
      BY <1>1, <2>1 DEF ShellsAreRunning
    <3>6. Changes(t)
      BY ZenonT(30), <1>1, <2>1, <2>4, <2>6, <3>1, <3>2, <3>3, <3>4, <3>5
    <3> HIDE DEF Changes
    <3> QED BY <3>6, <1>2
  <2> QED BY <2>7, <2>8
<1>5. ASSUME NEW t \in Terms, NEW code, Exit(t, code) PROVE TerminalsInv'
  <2>1. /\ announced' \in [Cwds -> [sessions : BOOLEAN, terminals : BOOLEAN]]
        /\ AnnouncedIsCurrent' /\ known' = known /\ shells' = shells \ {t}
    <3>1. UpdateTerminal(t, TRUE)
      BY <1>5 DEF Exit
    <3> QED BY <3>1, <1>1, TerminalsAnnounced
  <2>2. /\ process' = [process EXCEPT ![t] = "ended"]
        /\ term' = IF Open(t) THEN [term EXCEPT ![t] = "exited"] ELSE term
        /\ screen' = [v \in Viewers |->
                IF screen[v].at = t /\ Open(t) THEN [screen[v] EXCEPT !.over = TRUE] ELSE screen[v]]
        /\ UNCHANGED <<buffer, outputs>>
    BY <1>5 DEF Exit
  <2>3. \A v \in Viewers : screen[v] \in Screens
    BY <1>1 DEF TerminalsTypeOK
  <2>4. ASSUME NEW v \in Viewers, screen[v].at = t, Open(t)
        PROVE screen'[v] = [at |-> t, text |-> screen[v].text, over |-> TRUE]
    BY <2>2, <2>3, <2>4 DEF Screens
  <2>5. ASSUME NEW v \in Viewers, ~(screen[v].at = t /\ Open(t)) PROVE screen'[v] = screen[v]
    BY <2>2, <2>5
  <2>6. screen' \in [Viewers -> Screens]
    <3>1. ASSUME NEW v \in Viewers PROVE screen'[v] \in Screens
      <4>1. CASE screen[v].at = t /\ Open(t)
        <5>1. PICK x \in Seq(Nat) : x = screen[v].text
          BY <2>3 DEF Screens
        <5>2. screen'[v] = [at |-> t, text |-> x, over |-> TRUE]
          BY <4>1, <5>1, <2>4
        <5> QED BY <5>2 DEF Screens
      <4>2. CASE ~(screen[v].at = t /\ Open(t)) BY <4>2, <2>3, <2>5
      <4> QED BY <4>1, <4>2
    <3>2. screen' = [v \in Viewers |-> screen'[v]]
      BY <2>2
    <3> QED BY <3>1, <3>2
  <2>7. TerminalsTypeOK'
    BY <1>1, <2>1, <2>2, <2>6 DEF TerminalsTypeOK
  <2>8. term'[t] = (IF Open(t) THEN "exited" ELSE term[t]) /\ process'[t] = "ended"
        /\ \A x \in Terms \ {t} : term'[x] = term[x] /\ process'[x] = process[x]
    BY <1>1, <2>2 DEF TerminalsTypeOK
  <2>9. \A v \in Viewers : screen[v].at = t /\ t # "none" /\ Open(t) => screen[v].text = buffer[t]
    BY <1>1 DEF ViewersAgree
  <2>10. ASSUME NEW v \in Viewers
         PROVE  /\ screen'[v].at = screen[v].at
                /\ screen[v].at # t => screen'[v] = screen[v]
                /\ screen[v].at = t /\ t # "none" /\ term[t] # "none" /\ term'[t] \in {"live", "exited"} =>
                     screen'[v].text = buffer'[t] /\ screen'[v].over = (term'[t] = "exited")
    <3>1. CASE screen[v].at = t /\ Open(t)
      <4>1. screen'[v].at = t /\ screen'[v].text = screen[v].text /\ screen'[v].over = TRUE
        <5>1. screen'[v] = [at |-> t, text |-> screen[v].text, over |-> TRUE]
          BY <3>1, <2>4
        <5> QED BY <5>1
      <4> QED BY <3>1, <4>1, <2>2, <2>8, <2>9
    <3>2. CASE ~(screen[v].at = t /\ Open(t))
      <4>1. screen'[v] = screen[v]
        BY <3>2, <2>5
      <4> QED BY <3>2, <4>1, <2>8 DEF Open
    <3> QED BY <3>1, <3>2
  <2>11. term[t] # "none" => term'[t] # "none"
    BY <2>8
  <2>12. shells' = IF term'[t] = "live" /\ process'[t] = "runs" THEN shells \union {t} ELSE shells \ {t}
    BY <2>1, <2>8
  <2>13. Changes(t)
    BY <2>1, <2>2, <2>7, <2>8, <2>10, <2>11, <2>12
  <2> HIDE DEF Changes
  <2> QED BY <2>13, <1>2
<1>6. ASSUME NEW t \in Terms, NEW restarted \in BOOLEAN, Continue(t, restarted) PROVE TerminalsInv'
  <2>1. /\ term[t] = "exited" /\ term' = [term EXCEPT ![t] = "live"]
        /\ outputs' = [outputs EXCEPT ![t] = @ + 1]
        /\ buffer' = [buffer EXCEPT ![t] = TrimReplayBuffer(Append(@, outputs[t]))]
        /\ screen' = Emitted(t, outputs[t])
        /\ process' = IF restarted THEN [process EXCEPT ![t] = "runs"] ELSE process
    BY <1>6 DEF Continue
  <2>2. outputs[t] \in Nat /\ buffer[t] \in Seq(Nat) /\ process[t] = "ended" /\ t \notin shells
    BY <1>1, <2>1 DEF TerminalsTypeOK, ProcessesEnd, ShellsAreRunning
  <2>3. TrimReplayBuffer(Append(buffer[t], outputs[t])) \in Seq(Nat)
    BY <2>2, TrimmedIsTyped
  <2>4. /\ announced' \in [Cwds -> [sessions : BOOLEAN, terminals : BOOLEAN]]
        /\ AnnouncedIsCurrent' /\ known' = known /\ shells' = IF restarted THEN shells \union {t} ELSE shells
    <3>1. CASE restarted
      <4>1. UpdateTerminal(t, FALSE)
        BY <1>6, <3>1 DEF Continue
      <4> QED BY <3>1, <4>1, <1>1, TerminalsAnnounced
    <3>2. CASE ~restarted
      BY <1>1, <1>6, <3>2 DEF Continue, TerminalsTypeOK, AnnouncedIsCurrent, Summary
    <3> QED BY <3>1, <3>2
  <2>5. /\ buffer' \in [Terms -> Seq(Nat)] /\ buffer'[t] = TrimReplayBuffer(Append(buffer[t], outputs[t]))
        /\ \A x \in Terms \ {t} : buffer'[x] = buffer[x]
        /\ outputs' \in [Terms -> Nat]
    BY <1>1, <2>1, <2>3 DEF TerminalsTypeOK
  <2>6. /\ screen' \in [Viewers -> Screens]
        /\ \A v \in Viewers :
              /\ screen'[v].at = screen[v].at
              /\ screen[v].at # t => screen'[v] = screen[v]
              /\ screen[v].at = t => /\ screen'[v].text = TrimReplayBuffer(Append(screen[v].text, outputs[t]))
                                     /\ screen'[v].over = FALSE
    BY <1>1, <2>1, <2>2, EmittedFacts
  <2>7. /\ term'[t] = "live" /\ process'[t] = IF restarted THEN "runs" ELSE "ended"
        /\ term' \in [Terms -> {"none", "live", "exited", "closed"}]
        /\ process' \in [Terms -> {"none", "runs", "killed", "ended"}]
        /\ \A x \in Terms \ {t} : term'[x] = term[x] /\ process'[x] = process[x]
    BY <1>1, <2>1, <2>2 DEF TerminalsTypeOK
  <2>8. TerminalsTypeOK'
    BY <1>1, <2>4, <2>5, <2>6, <2>7 DEF TerminalsTypeOK
  <2>9. \A v \in Viewers : screen[v].at = t /\ t # "none" => screen[v].text = buffer[t]
    BY <1>1, <2>1 DEF ViewersAgree, Open
  <2>10. Changes(t)
    BY ZenonT(30), <2>2, <2>4, <2>5, <2>6, <2>7, <2>8, <2>9
  <2> HIDE DEF Changes
  <2> QED BY <2>10, <1>2
<1>7. ASSUME NEW t \in Terms, CloseTerminal(t) PROVE TerminalsInv'
  <2>1. /\ announced' \in [Cwds -> [sessions : BOOLEAN, terminals : BOOLEAN]]
        /\ AnnouncedIsCurrent' /\ known' = known /\ shells' = shells \ {t}
    <3>1. UpdateTerminal(t, TRUE)
      BY <1>7 DEF CloseTerminal, RemoveTerminal
    <3> QED BY <3>1, <1>1, TerminalsAnnounced
  <2>2. /\ term' = [term EXCEPT ![t] = "closed"]
        /\ process' = [process EXCEPT ![t] = IF @ = "runs" THEN "killed" ELSE @]
        /\ UNCHANGED <<buffer, outputs, screen>>
    BY <1>7 DEF CloseTerminal
  <2>3. TerminalsTypeOK'
    BY <1>1, <2>1, <2>2 DEF TerminalsTypeOK
  <2>4. Changes(t)
    BY <1>1, <2>1, <2>2, <2>3 DEF TerminalsTypeOK
  <2> HIDE DEF Changes
  <2> QED BY <2>4, <1>2
<1> HIDE DEF Changes
<1>8. ASSUME NEW t \in Terms, NEW v \in Viewers, Attach(v, t) PROVE TerminalsInv'
  <2>1. /\ Open(t) /\ screen' = [screen EXCEPT ![v] = Replayed(t)]
        /\ UNCHANGED <<term, buffer, process, outputs, known, shells, announced>>
    BY <1>8 DEF Attach
  <2>2. Replayed(t) \in Screens /\ Replayed(t) = [at |-> t, text |-> buffer[t], over |-> term[t] = "exited"]
    BY <1>1 DEF Replayed, Screens, TerminalsTypeOK
  <2>3. screen' \in [Viewers -> Screens] /\ screen'[v] = Replayed(t) /\ \A w \in Viewers \ {v} : screen'[w] = screen[w]
    BY <1>1, <2>1, <2>2 DEF TerminalsTypeOK
  <2>4. TerminalsTypeOK' /\ ProcessesEnd' /\ ShellsAreRunning' /\ AnnouncedIsCurrent'
    BY <1>1, <2>1, <2>3 DEF TerminalsTypeOK, ProcessesEnd, ShellsAreRunning, AnnouncedIsCurrent, Summary
  <2>5. AttachedWereOpen' /\ ViewersAgree'
    BY <1>1, <2>1, <2>2, <2>3 DEF AttachedWereOpen, ViewersAgree, Open
  <2> QED BY <2>4, <2>5 DEF TerminalsInv
<1>9. ASSUME NEW v \in Viewers, Detach(v) PROVE TerminalsInv'
  <2>1. /\ screen' = [screen EXCEPT ![v] = Detached]
        /\ UNCHANGED <<term, buffer, process, outputs, known, shells, announced>>
    BY <1>9 DEF Detach
  <2>2. Detached \in Screens /\ Detached.at = "none"
    BY DEF Detached, Screens
  <2>3. screen' \in [Viewers -> Screens] /\ screen'[v] = Detached /\ \A w \in Viewers \ {v} : screen'[w] = screen[w]
    BY <1>1, <2>1, <2>2 DEF TerminalsTypeOK
  <2>4. TerminalsTypeOK' /\ ProcessesEnd' /\ ShellsAreRunning' /\ AnnouncedIsCurrent'
    BY <1>1, <2>1, <2>3 DEF TerminalsTypeOK, ProcessesEnd, ShellsAreRunning, AnnouncedIsCurrent, Summary
  <2>5. AttachedWereOpen' /\ ViewersAgree'
    BY <1>1, <2>1, <2>2, <2>3 DEF AttachedWereOpen, ViewersAgree, Open
  <2> QED BY <2>4, <2>5 DEF TerminalsInv
<1>10. ASSUME NEW cwd \in Cwds, CloseForCwd(cwd) PROVE TerminalsInv'
  <2> DEFINE closing == {t \in Terms : Open(t) /\ CwdOf[t] = cwd}
  <2>1. /\ term' = [t \in Terms |-> IF t \in closing THEN "closed" ELSE term[t]]
        /\ process' = [t \in Terms |-> IF t \in closing /\ process[t] = "runs" THEN "killed" ELSE process[t]]
        /\ shells' = shells \ closing
        /\ announced' = [announced EXCEPT ![cwd] = Summary(cwd, known, shells')]
        /\ UNCHANGED <<buffer, outputs, screen, known>>
    BY <1>10 DEF CloseForCwd
  <2>2. Summary(cwd, known, shells') \in [sessions : BOOLEAN, terminals : BOOLEAN]
    BY DEF Summary
  <2>3. /\ announced' \in [Cwds -> [sessions : BOOLEAN, terminals : BOOLEAN]]
        /\ announced'[cwd] = Summary(cwd, known, shells')
        /\ \A c \in Cwds \ {cwd} : announced'[c] = announced[c]
    BY <1>1, <2>1, <2>2 DEF TerminalsTypeOK
  <2>4. ASSUME NEW c \in Cwds PROVE announced'[c] = Summary(c, known', shells')
    <3>1. CASE c = cwd
      BY <3>1, <2>1, <2>3
    <3>2. CASE c # cwd
      <4>1. \A x : CwdOf[x] = c => (x \in shells' <=> x \in shells)
        BY <3>2, <2>1
      <4>2. (\E x \in shells' : CwdOf[x] = c) <=> (\E x \in shells : CwdOf[x] = c)
        BY <4>1
      <4>3. announced'[c] = Summary(c, known, shells)
        BY <3>2, <1>1, <2>3 DEF AnnouncedIsCurrent
      <4> QED BY <4>2, <4>3, <2>1 DEF Summary
    <3> QED BY <3>1, <3>2
  <2>5. TerminalsTypeOK'
    BY <1>1, <2>1, <2>3 DEF TerminalsTypeOK
  <2>6. ProcessesEnd' /\ AttachedWereOpen' /\ ShellsAreRunning'
    <3>1. \A t \in Terms : /\ term'[t] = IF t \in closing THEN "closed" ELSE term[t]
                           /\ process'[t] = IF t \in closing /\ process[t] = "runs" THEN "killed" ELSE process[t]
      BY <2>1
    <3>2. \A v \in Viewers : screen[v].at \in Terms \union {"none"}
      BY <1>1 DEF TerminalsTypeOK, Screens
    <3> HIDE DEF closing
    <3>3. ProcessesEnd' /\ AttachedWereOpen'
      BY <1>1, <2>1, <3>1, <3>2 DEF ProcessesEnd, AttachedWereOpen
    <3>4. ShellsAreRunning'
      BY <1>1, <2>1, <3>1 DEF ShellsAreRunning
    <3> QED BY <3>3, <3>4
  <2>7. ViewersAgree'
    <3>1. \A t \in Terms : term'[t] = IF t \in closing THEN "closed" ELSE term[t]
      BY <2>1
    <3>2. \A v \in Viewers : screen[v].at \in Terms \union {"none"}
      BY <1>1 DEF TerminalsTypeOK, Screens
    <3> HIDE DEF closing
    <3> QED BY <1>1, <2>1, <3>1, <3>2 DEF ViewersAgree, Open
  <2> QED BY <2>4, <2>5, <2>6, <2>7 DEF TerminalsInv, AnnouncedIsCurrent
<1> QED BY <1>3, <1>4, <1>5, <1>6, <1>7, <1>8, <1>9, <1>10 DEF TerminalsNext, OpenShell, RunCommand

------------------------------------------------------------------------------
(* The caches of the status *)

CachesTypeOK ==
  /\ world \in Nat /\ written \in BOOLEAN
  /\ loads \in [Loads -> [at : {"none", "reads", "waits", "settled"}, force : BOOLEAN, seen : Nat, lookup : 0 .. MaxLoads]]
  /\ lookups \in [Loads -> [at : {"none", "asks", "settled"}, force : BOOLEAN]]
  /\ loadSequence \in 0 .. MaxLoads /\ pendingLoad \in 0 .. loadSequence
  /\ cached \in [seen : Nat, of : 0 .. MaxLoads, fresh : BOOLEAN] /\ cached.of <= loadSequence
  /\ lookupSequence \in 0 .. MaxLoads /\ pendingLookup \in 0 .. lookupSequence
  /\ cachedLookup \in [of : 0 .. MaxLoads, fresh : BOOLEAN] /\ cachedLookup.of <= lookupSequence

\* Numbers are given out in order.
SequencesAreNew == \A s \in Loads : s > loadSequence => loads[s].at = "none"

\* The load that is to be kept has read what the last write left, unless its invalidation is due.
LatestIsCurrent ==
  \A s \in Loads : s = loadSequence /\ loads[s].at = "waits" /\ ~written => loads[s].seen = world

CachesInv == CachesTypeOK /\ SequencesAreNew /\ LatestIsCurrent /\ StatusIsCurrent

CachesForward ==
  /\ cached'.of # 0 => cached'.of >= cached.of
  /\ cachedLookup'.of >= cachedLookup.of

LEMMA CachesBegin == CachesInit => CachesInv
<1> SUFFICES ASSUME CachesInit PROVE CachesInv
  OBVIOUS
<1>1. CachesTypeOK
  <2>1. 0 \in 0 .. MaxLoads /\ 0 \in Nat
    BY CachesAssumption
  <2>2. /\ NoStatus \in [seen : Nat, of : 0 .. MaxLoads, fresh : BOOLEAN] /\ NoStatus.of = 0
        /\ NoLookup \in [of : 0 .. MaxLoads, fresh : BOOLEAN] /\ NoLookup.of = 0
    BY <2>1 DEF NoStatus, NoLookup
  <2>3. /\ loads \in [Loads -> [at : {"none", "reads", "waits", "settled"}, force : BOOLEAN, seen : Nat, lookup : 0 .. MaxLoads]]
        /\ lookups \in [Loads -> [at : {"none", "asks", "settled"}, force : BOOLEAN]]
    BY <2>1 DEF CachesInit
  <2>4. world \in Nat /\ written \in BOOLEAN /\ cached = NoStatus /\ cachedLookup = NoLookup
    BY DEF CachesInit
  <2>5. loadSequence = 0 /\ pendingLoad = 0 /\ lookupSequence = 0 /\ pendingLookup = 0
    BY DEF CachesInit
  <2>6. 0 \in 0 .. 0 /\ 0 <= 0
    OBVIOUS
  <2> QED BY <2>1, <2>2, <2>3, <2>4, <2>5, <2>6 DEF CachesTypeOK
<1> QED BY <1>1 DEF CachesInit, CachesInv, SequencesAreNew, LatestIsCurrent, StatusIsCurrent, NoStatus

LEMMA LoadKeeps ==
  ASSUME CachesInv, NEW force \in BOOLEAN, Load(force)
  PROVE  CachesInv' /\ CachesForward
<1>1. CachesTypeOK /\ SequencesAreNew /\ LatestIsCurrent /\ StatusIsCurrent
  BY DEF CachesInv
<1>2. PICK n \in Loads : n = loadSequence + 1
  BY <1>1, CachesAssumption DEF Load, Loads, CachesTypeOK
<1>3. /\ loadSequence' = n /\ pendingLoad' = n
      /\ loads' = [loads EXCEPT ![n] = [at |-> "reads", force |-> force, seen |-> 0, lookup |-> 0]]
      /\ UNCHANGED <<world, written, cached, lookups, lookupSequence, pendingLookup, cachedLookup>>
  BY <1>2 DEF Load, releaseVars
<1>4. CachesTypeOK'
  BY <1>1, <1>2, <1>3, CachesAssumption DEF CachesTypeOK, Loads
<1>5. SequencesAreNew' /\ LatestIsCurrent'
  BY <1>1, <1>2, <1>3 DEF CachesTypeOK, SequencesAreNew, LatestIsCurrent, Loads
<1>6. StatusIsCurrent' /\ CachesForward
  BY <1>1, <1>3 DEF StatusIsCurrent, CachesForward, CachesTypeOK
<1> QED BY <1>4, <1>5, <1>6 DEF CachesInv

LEMMA LoadReadsKeeps ==
  ASSUME CachesInv, NEW s \in Loads, LoadReads(s)
  PROVE  CachesInv' /\ CachesForward
<1>1. CachesTypeOK /\ SequencesAreNew /\ LatestIsCurrent /\ StatusIsCurrent
  BY DEF CachesInv
<1>2. PICK k \in 0 .. MaxLoads :
        /\ k = Awaited(loads[s].force) /\ (k <= lookupSequence \/ k = lookupSequence + 1)
  <2>1. Awaited(loads[s].force) \in {0, pendingLookup, lookupSequence + 1} /\ Awaited(loads[s].force) <= MaxLoads
    BY DEF Awaited, LoadReads
  <2> QED BY <2>1, <1>1, CachesAssumption DEF CachesTypeOK
<1>3. /\ loads[s].at = "reads"
      /\ loads' = [loads EXCEPT ![s] = [@ EXCEPT !.at = "waits", !.seen = world, !.lookup = k]]
      /\ IF k > lookupSequence
         THEN /\ lookupSequence' = k /\ pendingLookup' = k
              /\ lookups' = [lookups EXCEPT ![k] = [at |-> "asks", force |-> loads[s].force]]
              /\ UNCHANGED cachedLookup
         ELSE UNCHANGED <<lookups, lookupSequence, pendingLookup, cachedLookup>>
      /\ UNCHANGED <<world, written, loadSequence, pendingLoad, cached>>
  BY <1>2 DEF LoadReads, releaseVars
<1>4. /\ lookups' \in [Loads -> [at : {"none", "asks", "settled"}, force : BOOLEAN]]
      /\ lookupSequence' \in 0 .. MaxLoads /\ pendingLookup' \in 0 .. lookupSequence'
      /\ cachedLookup' = cachedLookup /\ lookupSequence <= lookupSequence'
  <2>1. CASE k > lookupSequence
    <3>1. k \in Loads /\ [at |-> "asks", force |-> loads[s].force] \in [at : {"none", "asks", "settled"}, force : BOOLEAN]
      BY <1>1, <1>2, <2>1 DEF CachesTypeOK, Loads
    <3> QED BY <1>1, <1>2, <1>3, <2>1, <3>1 DEF CachesTypeOK
  <2>2. CASE ~(k > lookupSequence)
    BY <1>1, <1>3, <2>2 DEF CachesTypeOK
  <2> QED BY <2>1, <2>2
<1>5. /\ loads' \in [Loads -> [at : {"none", "reads", "waits", "settled"}, force : BOOLEAN, seen : Nat, lookup : 0 .. MaxLoads]]
      /\ loads'[s].at = "waits" /\ loads'[s].seen = world
      /\ \A x \in Loads \ {s} : loads'[x] = loads[x]
  <2>1. loads[s] \in [at : {"none", "reads", "waits", "settled"}, force : BOOLEAN, seen : Nat, lookup : 0 .. MaxLoads] /\ world \in Nat
    BY <1>1 DEF CachesTypeOK
  <2>2. PICK l : l = [loads[s] EXCEPT !.at = "waits", !.seen = world, !.lookup = k]
    OBVIOUS
  <2>3. l \in [at : {"none", "reads", "waits", "settled"}, force : BOOLEAN, seen : Nat, lookup : 0 .. MaxLoads]
        /\ l.at = "waits" /\ l.seen = world
    BY <2>1, <2>2
  <2>4. loads' = [loads EXCEPT ![s] = l]
    BY <1>3, <2>2
  <2> QED BY <1>1, <2>3, <2>4 DEF CachesTypeOK
<1>6. CachesTypeOK'
  BY <1>1, <1>3, <1>4, <1>5, CachesAssumption DEF CachesTypeOK
<1>7. SequencesAreNew' /\ LatestIsCurrent'
  BY <1>1, <1>3, <1>5 DEF SequencesAreNew, LatestIsCurrent
<1>8. StatusIsCurrent' /\ CachesForward
  BY <1>1, <1>3, <1>4 DEF StatusIsCurrent, CachesForward, CachesTypeOK
<1> QED BY <1>6, <1>7, <1>8 DEF CachesInv

LEMMA SettlingKeeps ==
  ASSUME CachesInv, NEW s \in Loads, LoadSettles(s) \/ LoadFails(s) \/ LookupSettles(s)
  PROVE  CachesInv' /\ CachesForward
<1>1. CachesTypeOK /\ SequencesAreNew /\ LatestIsCurrent /\ StatusIsCurrent
  BY DEF CachesInv
<1>2. CASE LoadSettles(s) \/ LoadFails(s)
  <2>1. /\ loads' = [loads EXCEPT ![s].at = "settled"] /\ loads[s].at \in {"reads", "waits"}
        /\ pendingLoad' = IF pendingLoad = s THEN 0 ELSE pendingLoad
        /\ UNCHANGED <<world, written, loadSequence, lookups, lookupSequence, pendingLookup, cachedLookup>>
    BY <1>2 DEF LoadSettles, LoadFails, releaseVars
  <2>2. \/ cached' = cached
        \/ /\ loads[s].at = "waits" /\ s = loadSequence
           /\ cached' = [seen |-> loads[s].seen, of |-> s, fresh |-> TRUE]
    BY <1>2 DEF LoadSettles, LoadFails, Kept
  <2>3. /\ loads' \in [Loads -> [at : {"none", "reads", "waits", "settled"}, force : BOOLEAN, seen : Nat, lookup : 0 .. MaxLoads]]
        /\ loads'[s].at = "settled" /\ \A x \in Loads \ {s} : loads'[x] = loads[x]
        /\ s <= loadSequence
    BY SMTT(30), <1>1, <2>1 DEF CachesTypeOK, SequencesAreNew, Loads
  <2>4. CachesTypeOK'
    <3>1. loads[s].seen \in Nat /\ s \in 0 .. MaxLoads
      BY <1>1, CachesAssumption DEF CachesTypeOK, Loads
    <3>2. cached' \in [seen : Nat, of : 0 .. MaxLoads, fresh : BOOLEAN] /\ cached'.of <= loadSequence
      <4>1. CASE cached' = cached
        BY <4>1, <1>1 DEF CachesTypeOK
      <4>2. CASE cached' = [seen |-> loads[s].seen, of |-> s, fresh |-> TRUE]
        <5>1. PICK n \in Nat : n = loads[s].seen
          BY <3>1
        <5>2. cached' = [seen |-> n, of |-> s, fresh |-> TRUE]
          BY <4>2, <5>1
        <5> QED BY <5>2, <2>3, <3>1
      <4> QED BY <4>1, <4>2, <2>2
    <3> QED BY <1>1, <2>1, <2>3, <3>2, CachesAssumption DEF CachesTypeOK
  <2>5. SequencesAreNew' /\ LatestIsCurrent'
    BY <1>1, <2>1, <2>3 DEF CachesTypeOK, SequencesAreNew, LatestIsCurrent, Loads
  <2>6. StatusIsCurrent'
    BY <1>1, <2>1, <2>2 DEF StatusIsCurrent, LatestIsCurrent
  <2>7. CachesForward
    BY <1>1, <2>1, <2>2 DEF CachesForward, CachesTypeOK
  <2> QED BY <2>4, <2>5, <2>6, <2>7 DEF CachesInv
<1>3. CASE LookupSettles(s)
  <2>1. /\ lookups' = [lookups EXCEPT ![s].at = "settled"]
        /\ cachedLookup' = IF s = lookupSequence THEN [of |-> s, fresh |-> TRUE] ELSE cachedLookup
        /\ pendingLookup' = IF pendingLookup = s THEN 0 ELSE pendingLookup
        /\ UNCHANGED <<world, written, loads, loadSequence, pendingLoad, cached, lookupSequence>>
    BY <1>3 DEF LookupSettles, Kept, statusVars
  <2>2. CachesTypeOK'
    <3>1. lookups' \in [Loads -> [at : {"none", "asks", "settled"}, force : BOOLEAN]]
      BY <1>1, <2>1 DEF CachesTypeOK
    <3>2. cachedLookup' \in [of : 0 .. MaxLoads, fresh : BOOLEAN] /\ cachedLookup'.of <= lookupSequence
      BY <1>1, <2>1 DEF CachesTypeOK
    <3> QED BY <1>1, <2>1, <3>1, <3>2, CachesAssumption DEF CachesTypeOK
  <2>3. SequencesAreNew' /\ LatestIsCurrent' /\ StatusIsCurrent'
    BY <1>1, <2>1 DEF SequencesAreNew, LatestIsCurrent, StatusIsCurrent
  <2>4. CachesForward
    BY <1>1, <2>1 DEF CachesForward, CachesTypeOK
  <2> QED BY <2>2, <2>3, <2>4 DEF CachesInv
<1> QED BY <1>2, <1>3

LEMMA WritingKeeps ==
  ASSUME CachesInv, WriteSettles \/ Invalidate \/ StatusExpires \/ LookupExpires \/ UNCHANGED cacheVars
  PROVE  CachesInv' /\ CachesForward
<1>1. CachesTypeOK /\ SequencesAreNew /\ LatestIsCurrent /\ StatusIsCurrent
  BY DEF CachesInv
<1>2. CASE WriteSettles
  <2>1. world' = world + 1 /\ written' = TRUE /\ UNCHANGED <<statusVars, releaseVars>>
    BY <1>2 DEF WriteSettles
  <2> QED BY <1>1, <2>1 DEF statusVars, releaseVars, CachesInv, CachesTypeOK, SequencesAreNew, LatestIsCurrent, StatusIsCurrent, CachesForward
<1>3. CASE Invalidate
  <2>1. /\ loadSequence < MaxLoads /\ written' = FALSE /\ cached' = NoStatus /\ pendingLoad' = 0 /\ loadSequence' = loadSequence + 1
        /\ UNCHANGED <<world, loads, lookups, lookupSequence, pendingLookup, cachedLookup>>
    BY <1>3 DEF Invalidate, Drop, releaseVars
  <2>2. CachesTypeOK'
    <3>1. NoStatus \in [seen : Nat, of : 0 .. MaxLoads, fresh : BOOLEAN] /\ NoStatus.of = 0
      BY CachesAssumption DEF NoStatus
    <3>2. /\ cached' \in [seen : Nat, of : 0 .. MaxLoads, fresh : BOOLEAN] /\ cached'.of = 0
          /\ loadSequence' \in 0 .. MaxLoads /\ pendingLoad' = 0
      BY <1>1, <2>1, <3>1, CachesAssumption DEF CachesTypeOK
    <3>3. cached'.of <= loadSequence' /\ pendingLoad' \in 0 .. loadSequence' /\ written' \in BOOLEAN
      <4>1. loadSequence' \in Nat /\ 0 <= loadSequence' /\ 0 \in 0 .. loadSequence'
        BY <3>2, CachesAssumption
      <4> QED BY <2>1, <3>2, <4>1
    <3> QED BY <1>1, <2>1, <3>2, <3>3 DEF CachesTypeOK
  <2>3. SequencesAreNew' /\ LatestIsCurrent'
    BY <1>1, <2>1 DEF CachesTypeOK, SequencesAreNew, LatestIsCurrent, Loads
  <2>4. StatusIsCurrent' /\ CachesForward
    BY <1>1, <2>1 DEF StatusIsCurrent, CachesForward, NoStatus, CachesTypeOK
  <2> QED BY <2>2, <2>3, <2>4 DEF CachesInv
<1>4. CASE StatusExpires
  <2>1. /\ cached' = [cached EXCEPT !.fresh = FALSE]
        /\ UNCHANGED <<world, written, loads, loadSequence, pendingLoad, lookups, lookupSequence, pendingLookup, cachedLookup>>
    BY <1>4 DEF StatusExpires, releaseVars
  <2>2. cached' \in [seen : Nat, of : 0 .. MaxLoads, fresh : BOOLEAN] /\ cached'.of = cached.of /\ cached'.seen = cached.seen
    BY <1>1, <2>1 DEF CachesTypeOK
  <2> QED BY <1>1, <2>1, <2>2 DEF CachesInv, CachesTypeOK, SequencesAreNew, LatestIsCurrent, StatusIsCurrent, CachesForward
<1>5. CASE LookupExpires
  <2>1. /\ cachedLookup' = [cachedLookup EXCEPT !.fresh = FALSE]
        /\ UNCHANGED <<world, written, loads, loadSequence, pendingLoad, cached, lookups, lookupSequence, pendingLookup>>
    BY <1>5 DEF LookupExpires, statusVars
  <2>2. cachedLookup' \in [of : 0 .. MaxLoads, fresh : BOOLEAN] /\ cachedLookup'.of = cachedLookup.of
    BY <1>1, <2>1 DEF CachesTypeOK
  <2> QED BY <1>1, <2>1, <2>2 DEF CachesInv, CachesTypeOK, SequencesAreNew, LatestIsCurrent, StatusIsCurrent, CachesForward
<1>6. CASE UNCHANGED cacheVars
  BY <1>1, <1>6 DEF cacheVars, statusVars, releaseVars, CachesInv, CachesTypeOK, SequencesAreNew, LatestIsCurrent, StatusIsCurrent, CachesForward
<1> QED BY <1>2, <1>3, <1>4, <1>5, <1>6

LEMMA CachesStep == CachesInv /\ [CachesNext]_cacheVars => CachesInv' /\ CachesForward
<1> SUFFICES ASSUME CachesInv, [CachesNext]_cacheVars PROVE CachesInv' /\ CachesForward
  OBVIOUS
<1>1. CASE GetStatus
  BY <1>1, LoadKeeps DEF GetStatus
<1>2. CASE RefreshStatus
  BY <1>2, LoadKeeps DEF RefreshStatus
<1>3. ASSUME NEW s \in Loads, LoadReads(s) PROVE CachesInv' /\ CachesForward
  BY <1>3, LoadReadsKeeps
<1>4. ASSUME NEW s \in Loads, LoadSettles(s) \/ LoadFails(s) \/ LookupSettles(s) PROVE CachesInv' /\ CachesForward
  BY <1>4, SettlingKeeps
<1>5. CASE WriteSettles \/ Invalidate \/ StatusExpires \/ LookupExpires \/ UNCHANGED cacheVars
  BY <1>5, WritingKeeps
<1> QED BY <1>1, <1>2, <1>3, <1>4, <1>5 DEF CachesNext

LEMMA CachesHold == CachesSpec => [][StatusIsCurrent']_cacheVars /\ CachesGoForward
<1>1. CachesSpec => []CachesInv BY CachesBegin, CachesStep, PTL DEF CachesSpec
<1>2. CachesInv /\ [CachesNext]_cacheVars => [StatusIsCurrent']_cacheVars
  BY CachesStep DEF CachesInv
<1>3. CachesInv /\ [CachesNext]_cacheVars =>
        [/\ cached'.of # 0 => cached'.of >= cached.of
         /\ cachedLookup'.of >= cachedLookup.of]_cacheVars
  BY CachesStep DEF CachesForward
<1> QED BY <1>1, <1>2, <1>3, PTL DEF CachesSpec, CachesGoForward

------------------------------------------------------------------------------
(* The branches of a repository *)

Commits == [id : Nat, content : Contents]

Asking == [op : {"none", "stage", "unstage", "discard", "revert", "push"},
           at : {"none", "runs", "reverts", "pushes"},
           paths : SUBSET Paths, owners : SUBSET {"root", "sub"}]

AsksTyped ==
  /\ ask \in [Askers -> Asking]
  /\ \A r \in Askers : ask[r].at = "runs" => ask[r].op \in {"stage", "unstage", "discard"}

GitInv ==
  /\ log \in Seq(Commits) /\ upstream \in Seq(Commits) /\ log # <<>>
  /\ AsksTyped
  /\ made \in Nat /\ index \in [Paths -> Contents] /\ work \in [Paths -> Contents] /\ subHead \in Contents

BranchesGrow == Extends(log, log') /\ Extends(upstream, upstream')

LEMMA ExtendsItself ==
  ASSUME NEW s \in Seq(Commits)
  PROVE  Extends(s, s)
BY SubSeqFull DEF Extends

LEMMA AppendExtends ==
  ASSUME NEW s \in Seq(Commits), NEW c \in Commits
  PROVE  Append(s, c) \in Seq(Commits) /\ Append(s, c) # <<>> /\ Extends(s, Append(s, c))
<1>1. PICK t \in Seq(Commits) : t = Append(s, c)
  BY AppendProperties
<1>2. /\ Len(t) = Len(s) + 1 /\ t # <<>>
      /\ \A i \in 1 .. Len(s) : t[i] = s[i]
  BY <1>1, AppendProperties
<1>3. SubSeq(t, 1, Len(s)) = s
  <2>1. \A i \in 1 .. Len(s) : t[i] \in Commits
    BY <1>2
  <2>2. /\ SubSeq(t, 1, Len(s)) \in Seq(Commits)
        /\ Len(SubSeq(t, 1, Len(s))) = IF 1 <= Len(s) THEN Len(s) - 1 + 1 ELSE 0
        /\ \A i \in 1 .. Len(s) - 1 + 1 : SubSeq(t, 1, Len(s))[i] = t[1 + i - 1]
    BY <2>1, SubSeqProperties
  <2>3. Len(SubSeq(t, 1, Len(s))) = Len(s) /\ \A i \in 1 .. Len(s) : SubSeq(t, 1, Len(s))[i] = s[i]
    BY <2>2, <1>2
  <2>4. PICK u \in Seq(Commits) : u = SubSeq(t, 1, Len(s))
    BY <2>2
  <2> QED BY <2>3, <2>4, SeqEqual
<1> QED BY <1>1, <1>2, <1>3 DEF Extends

\* A request that is over, and one that was looked at.
LEMMA NoAskFacts ==
  ASSUME NEW op \in {"revert", "push"}, NEW at \in {"reverts", "pushes"}
  PROVE  /\ NoAsk \in Asking /\ NoAsk.at # "runs"
         /\ [NoAsk EXCEPT !.op = op, !.at = at] \in Asking
         /\ [NoAsk EXCEPT !.op = op, !.at = at].at # "runs"
<1>1. {} \in SUBSET Paths /\ {} \in SUBSET {"root", "sub"}
  OBVIOUS
<1> QED BY <1>1 DEF NoAsk, Asking

LEMMA GitBegin == GitInit => GitInv
<1> SUFFICES ASSUME GitInit PROVE GitInv
  OBVIOUS
<1>0. [id |-> 1, content |-> 1] \in Commits
  BY DEF Commits, Contents
<1>1. PICK c \in Commits : c = [id |-> 1, content |-> 1]
  BY <1>0
<1>2. log = <<c>> /\ <<c>> \in Seq(Commits) /\ <<c>> # <<>>
  BY <1>1 DEF GitInit
<1>3. NoAsk \in Asking /\ NoAsk.at # "runs"
  BY NoAskFacts
<1>4. ask \in [Askers -> Asking] /\ \A r \in Askers : ask[r].at # "runs"
  BY <1>3 DEF GitInit
<1> QED BY <1>2, <1>4 DEF GitInit, GitInv, AsksTyped, Paths, Contents

\* A commit is one more on the branch.
LEMMA CommitGrows ==
  ASSUME GitInv, NEW content \in Contents, Commit(content)
  PROVE  log' \in Seq(Commits) /\ log' # <<>> /\ made' \in Nat /\ Extends(log, log')
<1>0. [id |-> made + 1, content |-> content] \in Commits
  BY DEF GitInv, Commits
<1>1. PICK c \in Commits : c = [id |-> made + 1, content |-> content]
  BY <1>0
<1>2. log' = Append(log, c)
  BY <1>1 DEF Commit
<1> QED BY <1>2, AppendExtends DEF GitInv, Commit

LEMMA HeadsAreContents ==
  ASSUME GitInv
  PROVE  Tip.content \in Contents /\ \A p \in Paths : HeadOf(p) \in Contents
<1>1. Len(log) \in 1 .. Len(log)
  BY EmptySeq, LenProperties DEF GitInv
<1>2. log[Len(log)] \in Commits
  BY <1>1, ElementOfSeq DEF GitInv
<1> QED BY <1>2 DEF GitInv, HeadOf, Tip, Commits

\* Committing from the index: CommitIndex and CommitByHand.
LEMMA CommitsKeep ==
  ASSUME GitInv, NEW content \in Contents, Commit(content), UNCHANGED <<upstream, ask>>,
         index' \in [Paths -> Contents], work' \in [Paths -> Contents], UNCHANGED subHead
  PROVE  GitInv' /\ BranchesGrow
BY CommitGrows, ExtendsItself DEF GitInv, AsksTyped, BranchesGrow

LEMMA RunningKeeps ==
  ASSUME GitInv, NEW r \in Askers, NEW owner \in {"root", "sub"}, RunInWorktree(r, owner)
  PROVE  GitInv' /\ BranchesGrow
<1> USE DEF branches
<1>1. UNCHANGED <<branches, subHead>> /\ (\A p \in Paths : HeadOf(p) \in Contents)
  BY HeadsAreContents DEF RunInWorktree
<1>2. index' \in [Paths -> Contents] /\ work' \in [Paths -> Contents]
  <2>0. ask[r].op \in {"stage", "unstage", "discard"}
    BY DEF GitInv, AsksTyped, RunInWorktree
  <2>1. CASE ask[r].op = "stage"
    BY <2>1 DEF RunInWorktree, GitInv
  <2>2. CASE ask[r].op = "unstage"
    BY <2>2, <1>1 DEF RunInWorktree, GitInv
  <2>3. CASE ask[r].op = "discard"
    BY <2>3, <1>1 DEF RunInWorktree, GitInv
  <2> QED BY <2>0, <2>1, <2>2, <2>3
<1>3. AsksTyped'
  <2>1. PICK a \in Asking :
          /\ a = IF ask[r].owners = {owner} THEN NoAsk ELSE [ask[r] EXCEPT !.owners = ask[r].owners \ {owner}]
          /\ a.at = "runs" => a.op = ask[r].op
    <3>1. ask[r] \in Asking /\ NoAsk \in Asking /\ NoAsk.at # "runs"
      BY NoAskFacts DEF GitInv, AsksTyped
    <3>2. CASE ask[r].owners = {owner}
      BY <3>1, <3>2
    <3>3. CASE ask[r].owners # {owner}
      <4>1. PICK a \in Asking : a = [ask[r] EXCEPT !.owners = ask[r].owners \ {owner}]
        BY <3>1 DEF Asking
      <4>2. a.at = ask[r].at /\ a.op = ask[r].op
        BY <4>1, <3>1 DEF Asking
      <4> QED BY <4>1, <4>2, <3>3
    <3> QED BY <3>2, <3>3
  <2>2. ask \in [Askers -> Asking] /\ ask[r].at = "runs"
    BY DEF GitInv, AsksTyped, RunInWorktree
  <2>3. ask' = [ask EXCEPT ![r] = a]
    <3>1. CASE ask[r].owners = {owner}
      BY <2>1, <2>2, <3>1 DEF RunInWorktree
    <3>2. CASE ask[r].owners # {owner}
      BY <2>1, <2>2, <3>2 DEF RunInWorktree
    <3> QED BY <3>1, <3>2
  <2> QED BY <2>1, <2>2, <2>3 DEF GitInv, AsksTyped
<1> QED BY <1>1, <1>2, <1>3, ExtendsItself DEF GitInv, BranchesGrow

LEMMA AskingKeeps ==
  ASSUME GitInv, UNCHANGED <<branches, worktrees>>, NEW r \in Askers,
         NEW a \in Asking,
         a.at = "runs" => a.op \in {"stage", "unstage", "discard"}, ask' = [ask EXCEPT ![r] = a]
  PROVE  GitInv' /\ BranchesGrow
<1>1. AsksTyped'
  BY DEF GitInv, AsksTyped
<1> QED BY <1>1, ExtendsItself DEF GitInv, BranchesGrow, branches, worktrees

LEMMA BeginningKeeps ==
  ASSUME GitInv, NEW r \in Askers, NEW paths \in SUBSET Paths, NEW op \in {"stage", "unstage", "discard"},
         Begin(r, op, paths)
  PROVE  GitInv' /\ BranchesGrow
<1>1. PICK a \in Asking :
        a = [op |-> op, at |-> "runs", paths |-> paths, owners |-> WorktreesOf(paths)]
  <2>1. WorktreesOf(paths) \in SUBSET {"root", "sub"}
    BY DEF WorktreesOf, WorktreeOf
  <2> QED BY <2>1 DEF Asking
<1>2. a.op = op /\ ask' = [ask EXCEPT ![r] = a] /\ UNCHANGED <<branches, worktrees>>
  BY <1>1 DEF Begin
<1> QED BY <1>2, AskingKeeps

\* The others: what previews and what ends.
LEMMA EndingKeeps ==
  ASSUME GitInv, NEW r \in Askers, RunFails(r) \/ PreviewRevert(r) \/ PreviewPush(r)
  PROVE  GitInv' /\ BranchesGrow
<1>1. PICK a \in Asking :
        a.at # "runs" /\ ask' = [ask EXCEPT ![r] = a]
  <2>1. NoAsk \in Asking /\ NoAsk.at # "runs"
    BY NoAskFacts
  <2>2. CASE RunFails(r)
    BY <2>1, <2>2 DEF RunFails, Ends
  <2>3. CASE PreviewRevert(r)
    BY <2>3, NoAskFacts DEF PreviewRevert
  <2>4. CASE PreviewPush(r)
    BY <2>4, NoAskFacts DEF PreviewPush
  <2> QED BY <2>2, <2>3, <2>4
<1>2. UNCHANGED <<branches, worktrees>>
  BY DEF RunFails, PreviewRevert, PreviewPush
<1> QED BY <1>1, <1>2, AskingKeeps

LEMMA RevertingKeeps ==
  ASSUME GitInv, NEW r \in Askers, RevertHead(r)
  PROVE  GitInv' /\ BranchesGrow
<1>1. log[Len(log) - 1].content \in Contents
  <2>1. Len(log) - 1 \in 1 .. Len(log)
    BY LenProperties DEF RevertHead, GitInv
  <2>2. log[Len(log) - 1] \in Commits
    BY <2>1, ElementOfSeq DEF GitInv
  <2> QED BY <2>2 DEF Commits
<1>2. index' \in [Paths -> Contents] /\ work' \in [Paths -> Contents]
  BY <1>1 DEF RevertHead, GitInv
<1>3. log' \in Seq(Commits) /\ log' # <<>> /\ made' \in Nat /\ Extends(log, log')
  BY <1>1, CommitGrows DEF RevertHead, RevertCommit
<1>4. AsksTyped' /\ upstream' = upstream /\ subHead' = subHead
  <2>1. NoAsk \in Asking /\ NoAsk.at # "runs"
    BY NoAskFacts
  <2> QED BY <2>1 DEF RevertHead, Ends, GitInv, AsksTyped
<1> QED BY <1>2, <1>3, <1>4, ExtendsItself DEF GitInv, BranchesGrow

LEMMA PushingKeeps ==
  ASSUME GitInv, NEW r \in Askers, Push(r)
  PROVE  GitInv' /\ BranchesGrow
<1>1. AsksTyped' /\ UNCHANGED <<log, made, index, work, subHead>>
  <2>1. NoAsk \in Asking /\ NoAsk.at # "runs"
    BY NoAskFacts
  <2> QED BY <2>1 DEF Push, Ends, GitInv, AsksTyped, worktrees
<1>2. upstream' \in Seq(Commits) /\ Extends(upstream, upstream')
  <2>1. CASE FastForward
    BY <2>1 DEF Push, FastForward, GitInv
  <2>2. CASE ~FastForward
    BY <2>2, ExtendsItself DEF Push, GitInv
  <2> QED BY <2>1, <2>2
<1> QED BY <1>1, <1>2, ExtendsItself DEF GitInv, BranchesGrow

LEMMA OthersKeep ==
  ASSUME GitInv,
         \/ \E p \in Paths : StageByHand(p) \/ \E content \in Contents : Edit(p, content)
         \/ CommitByHand \/ PushByOthers \/ Fetch
  PROVE  GitInv' /\ BranchesGrow
<1> USE DEF branches, worktrees
<1>1. ASSUME NEW p \in Paths, StageByHand(p) \/ \E content \in Contents : Edit(p, content) PROVE GitInv' /\ BranchesGrow
  <2>1. UNCHANGED <<branches, subHead, ask>> /\ index' \in [Paths -> Contents] /\ work' \in [Paths -> Contents]
    BY <1>1 DEF StageByHand, Edit, GitInv
  <2> QED BY <2>1, ExtendsItself DEF GitInv, AsksTyped, BranchesGrow
<1>2. CASE CommitByHand
  <2>1. PICK content \in Contents : Commit(content)
    BY <1>2 DEF CommitByHand, GitInv, Paths
  <2> QED BY <1>2, <2>1, CommitsKeep DEF CommitByHand, GitInv
<1>3. CASE PushByOthers
  <2>0. [id |-> made + 1, content |-> 0] \in Commits
    BY DEF GitInv, Commits, Contents
  <2>1. PICK c \in Commits : c = [id |-> made + 1, content |-> 0]
    BY <2>0
  <2>2. upstream' = Append(upstream, c)
    BY <1>3, <2>1 DEF PushByOthers
  <2>3. upstream' \in Seq(Commits) /\ Extends(upstream, upstream')
    BY <2>2, AppendExtends DEF GitInv
  <2> QED BY <1>3, <2>3, ExtendsItself DEF PushByOthers, GitInv, AsksTyped, BranchesGrow
<1>4. CASE Fetch
  BY <1>4, ExtendsItself DEF Fetch, GitInv, AsksTyped, BranchesGrow
<1> QED BY <1>1, <1>2, <1>3, <1>4

LEMMA GitStep == GitInv /\ [GitNext]_gitVars => GitInv' /\ BranchesGrow
<1> SUFFICES ASSUME GitInv, [GitNext]_gitVars PROVE GitInv' /\ BranchesGrow
  OBVIOUS
<1>1. CASE UNCHANGED gitVars
  BY <1>1, ExtendsItself DEF gitVars, GitInv, AsksTyped, BranchesGrow
<1>2. ASSUME NEW r \in Askers, NEW paths \in (SUBSET Paths) \ {{}},
             Discard(r, paths) \/ \E op \in {"stage", "unstage"} : StageOrUnstage(r, op, paths)
      PROVE  GitInv' /\ BranchesGrow
  BY <1>2, BeginningKeeps DEF Discard, StageOrUnstage
<1>3. ASSUME NEW r \in Askers, CommitIndex(r) PROVE GitInv' /\ BranchesGrow
  <2>1. PICK content \in Contents : Commit(content)
    BY <1>3 DEF CommitIndex, GitInv, Paths
  <2> QED BY <1>3, <2>1, CommitsKeep DEF CommitIndex, GitInv, worktrees
<1> QED BY <1>1, <1>2, <1>3, RunningKeeps, EndingKeeps, RevertingKeeps, PushingKeeps, OthersKeep DEF GitNext

LEMMA HistoryHolds == GitInit /\ [][GitNext]_gitVars => HistoryIsKept
<1>1. GitInv /\ [GitNext]_gitVars => GitInv' /\ [BranchesGrow]_gitVars
  BY GitStep
<1>2. BranchesGrow <=> Extends(log, log') /\ Extends(upstream, upstream')
  BY DEF BranchesGrow
<1> QED BY <1>1, <1>2, GitBegin, PTL DEF HistoryIsKept

------------------------------------------------------------------------------
(* The checkpoints of the review *)

Making == [at : {"none", "waits", "writes"}, id : Nat, read : Seq(Nat)]

CheckpointsTypeOK ==
  /\ maker \in [Makers -> Making]
  /\ line \in Seq(Makers) /\ stored \in Seq(Nat) /\ told \in Seq(Nat) /\ begun \in Nat

\* The creations in progress stand in line once each, and only the first of the line
\* has read the file: what it read is still what the file holds.
LineIsExclusive ==
  /\ \A i, j \in DOMAIN line : line[i] = line[j] => i = j
  /\ \A r \in Makers : maker[r].at # "none" <=> \E i \in DOMAIN line : line[i] = r
  /\ \A r \in Makers : maker[r].at = "writes" => line[1] = r /\ maker[r].read = stored

\* A creation has an identity of its own that the file does not hold yet.
IdsAreNew ==
  /\ \A r \in Makers : maker[r].at # "none" =>
       maker[r].id <= begun /\ \A i \in DOMAIN stored : stored[i] # maker[r].id
  /\ \A i \in DOMAIN stored : stored[i] <= begun
  /\ \A r, q \in Makers : (maker[r].at # "none" /\ maker[q].at # "none" /\ maker[r].id = maker[q].id) => r = q

CheckpointsInv == CheckpointsTypeOK /\ LineIsExclusive /\ IdsAreNew /\ CheckpointsAreKept

LEMMA CheckpointsBegin == CheckpointsInit => CheckpointsInv
<1> SUFFICES ASSUME CheckpointsInit PROVE CheckpointsInv
  OBVIOUS
<1> USE DEF CheckpointsInit
<1>1. NoMaker \in Making /\ NoMaker.at = "none"
  BY DEF NoMaker, Making
<1>2. CheckpointsTypeOK
  BY <1>1 DEF CheckpointsTypeOK
<1>3. \A r \in Makers : maker[r].at = "none"
  BY <1>1
<1>4. DOMAIN line = {} /\ DOMAIN stored = {} /\ DOMAIN told = {}
  OBVIOUS
<1>5. LineIsExclusive /\ IdsAreNew
  BY <1>3, <1>4 DEF LineIsExclusive, IdsAreNew
<1>6. CheckpointsAreKept
  <2>1. PICK place : place = [i \in DOMAIN told |-> i]
    OBVIOUS
  <2>2. place \in [DOMAIN told -> DOMAIN stored]
    BY <2>1, <1>4
  <2> QED BY <2>2, <1>4 DEF CheckpointsAreKept
<1> QED BY <1>2, <1>5, <1>6 DEF CheckpointsInv

LEMMA KeptStays ==
  ASSUME CheckpointsAreKept, UNCHANGED <<stored, told>>
  PROVE  CheckpointsAreKept'
BY DEF CheckpointsAreKept

LEMMA LastOrBefore ==
  ASSUME NEW n \in Nat, NEW k \in 1 .. n + 1
  PROVE  k \in 1 .. n \/ k = n + 1
OBVIOUS

\* One more at the end of the file, whether its creator is told or the process dies before.
LEMMA OneMoreIsKept ==
  ASSUME stored \in Seq(Nat), told \in Seq(Nat), CheckpointsAreKept,
         NEW id \in Nat, \A i \in DOMAIN stored : stored[i] # id,
         stored' = Append(stored, id), told' = told \/ told' = Append(told, id)
  PROVE  CheckpointsAreKept'
<1>1. /\ stored' \in Seq(Nat) /\ DOMAIN stored = 1 .. Len(stored) /\ DOMAIN stored' = 1 .. Len(stored) + 1
      /\ (\A i \in 1 .. Len(stored) : stored'[i] = stored[i]) /\ stored'[Len(stored) + 1] = id
      /\ Len(stored) \in Nat
  BY AppendProperties, LenProperties
<1>2. \A i, j \in DOMAIN stored' : stored'[i] = stored'[j] => i = j
  BY <1>1 DEF CheckpointsAreKept
<1>3. PICK place \in [DOMAIN told -> DOMAIN stored] :
        /\ \A i \in DOMAIN told : stored[place[i]] = told[i]
        /\ \A i, j \in DOMAIN told : i < j => place[i] < place[j]
  BY DEF CheckpointsAreKept
<1>4. CASE told' = told
  <2>1. place \in [DOMAIN told -> DOMAIN stored']
    BY <1>1
  <2>2. \A i \in DOMAIN told : stored'[place[i]] = told[i]
    BY <1>1, <1>3
  <2>3. place \in [DOMAIN told' -> DOMAIN stored']
    BY <1>4, <2>1
  <2>4. \A i \in DOMAIN told' : stored'[place[i]] = told'[i]
    BY <1>4, <2>2
  <2>5. \A i, j \in DOMAIN told' : i < j => place[i] < place[j]
    BY <1>3, <1>4
  <2> QED BY <1>2, <2>3, <2>4, <2>5 DEF CheckpointsAreKept
<1>5. CASE told' = Append(told, id)
  <2>1. /\ DOMAIN told = 1 .. Len(told) /\ DOMAIN told' = 1 .. Len(told) + 1 /\ Len(told) \in Nat
        /\ (\A i \in 1 .. Len(told) : told'[i] = told[i]) /\ told'[Len(told) + 1] = id
    BY <1>5, AppendProperties, LenProperties
  <2>2. PICK longer : longer = [i \in 1 .. Len(told) + 1 |-> IF i = Len(told) + 1 THEN Len(stored) + 1 ELSE place[i]]
    OBVIOUS
  <2>3. \A i \in 1 .. Len(told) : place[i] \in 1 .. Len(stored) /\ longer[i] = place[i]
    <3> SUFFICES ASSUME NEW i \in 1 .. Len(told) PROVE place[i] \in 1 .. Len(stored) /\ longer[i] = place[i]
      OBVIOUS
    <3>1. place[i] \in 1 .. Len(stored)
      BY <2>1, <1>1
    <3>2. i \in 1 .. Len(told) + 1 /\ i # Len(told) + 1
      BY <2>1
    <3> QED BY <3>1, <3>2, <2>2
  <2>4. longer[Len(told) + 1] = Len(stored) + 1
    BY <2>1, <2>2
  <2>5. longer \in [DOMAIN told' -> DOMAIN stored']
    <3>1. \A i \in 1 .. Len(told) + 1 : longer[i] \in 1 .. Len(stored) + 1
      <4> SUFFICES ASSUME NEW i \in 1 .. Len(told) + 1 PROVE longer[i] \in 1 .. Len(stored) + 1
        OBVIOUS
      <4>1. CASE i = Len(told) + 1
        BY <4>1, <2>4, <1>1
      <4>2. CASE i # Len(told) + 1
        <5>1. i \in 1 .. Len(told)
          BY <4>2, <2>1
        <5>2. longer[i] = place[i] /\ place[i] \in 1 .. Len(stored)
          BY <5>1, <2>3
        <5> QED BY <5>2, <1>1
      <4> QED BY <4>1, <4>2
    <3>2. DOMAIN longer = 1 .. Len(told) + 1 /\ longer = [i \in DOMAIN longer |-> longer[i]]
      BY <2>2
    <3> QED BY <3>1, <3>2, <2>1, <1>1
  <2>6. \A i \in DOMAIN told' : stored'[longer[i]] = told'[i]
    BY <2>1, <2>3, <2>4, <1>1, <1>3
  <2>7. \A i, j \in DOMAIN told' : i < j => longer[i] < longer[j]
    <3> SUFFICES ASSUME NEW i \in 1 .. Len(told) + 1, NEW j \in 1 .. Len(told) + 1, i < j
                 PROVE  longer[i] < longer[j]
      BY <2>1
    <3>1. i \in 1 .. Len(told)
      BY <2>1
    <3>2. CASE j \in 1 .. Len(told)
      BY <3>1, <3>2, <2>1, <2>3, <1>3
    <3>3. CASE j = Len(told) + 1
      <4>1. longer[i] \in 1 .. Len(stored)
        BY <3>1, <2>3
      <4> QED BY <4>1, <3>3, <2>4, <1>1
    <3>4. j \in 1 .. Len(told) \/ j = Len(told) + 1
      <4>1. Len(told) \in Nat
        BY <2>1
      <4> QED BY <4>1, LastOrBefore
    <3> QED BY <3>2, <3>3, <3>4
  <2> QED BY <1>2, <2>5, <2>6, <2>7 DEF CheckpointsAreKept
<1> QED BY <1>4, <1>5

\* What the file holds afterwards, and that the one that held the line gives it up.
LEMMA RenamedKeeps ==
  ASSUME CheckpointsInv, NEW r \in Makers, NEW renamed \in BOOLEAN, Renamed(r, renamed), UNCHANGED <<told, begun>>
  PROVE  /\ stored' \in Seq(Nat) /\ CheckpointsAreKept'
         /\ \A i \in DOMAIN stored' : stored'[i] <= begun
         /\ \A q \in Makers \ {r} : maker[q].at # "none" => \A i \in DOMAIN stored' : stored'[i] # maker[q].id
<1>1. CASE stored' = stored
  BY <1>1, KeptStays DEF CheckpointsInv, CheckpointsTypeOK, IdsAreNew
<1>2. CASE maker[r].at = "writes" /\ stored' = Append(maker[r].read, maker[r].id)
  <2>1. /\ maker[r] \in Making /\ maker[r].read = stored /\ stored \in Seq(Nat) /\ told \in Seq(Nat)
        /\ maker[r].id <= begun /\ (\A i \in DOMAIN stored : stored[i] # maker[r].id)
    BY <1>2 DEF CheckpointsInv, CheckpointsTypeOK, LineIsExclusive, IdsAreNew
  <2>2. maker[r].id \in Nat /\ stored' = Append(stored, maker[r].id)
    BY <1>2, <2>1 DEF Making
  <2>3. CheckpointsAreKept'
    BY <2>1, <2>2, OneMoreIsKept DEF CheckpointsInv
  <2>4. \A i \in DOMAIN stored' : stored'[i] = maker[r].id \/ (i \in DOMAIN stored /\ stored'[i] = stored[i])
    BY <2>1, <2>2, AppendProperties, LenProperties
  <2>5. stored' \in Seq(Nat)
    BY <2>1, <2>2, AppendProperties
  <2>6. \A i \in DOMAIN stored' : stored'[i] <= begun
    BY <2>1, <2>4 DEF CheckpointsInv, IdsAreNew
  <2>7. \A q \in Makers \ {r} : maker[q].at # "none" => \A i \in DOMAIN stored' : stored'[i] # maker[q].id
    BY <1>2, <2>4 DEF CheckpointsInv, IdsAreNew
  <2> QED BY <2>3, <2>5, <2>6, <2>7
<1> QED BY <1>1, <1>2 DEF Renamed

\* The first of the line leaves it.
LEMMA ReleaseKeeps ==
  ASSUME CheckpointsInv, NEW r \in Makers, Release(r), line # <<>>, line[1] = r,
         stored' \in Seq(Nat), told' \in Seq(Nat), begun' = begun, CheckpointsAreKept',
         \A i \in DOMAIN stored' : stored'[i] <= begun,
         \A q \in Makers \ {r} : maker[q].at # "none" => \A i \in DOMAIN stored' : stored'[i] # maker[q].id
  PROVE  CheckpointsInv'
<1>1. NoMaker \in Making /\ NoMaker.at = "none"
  BY DEF NoMaker, Making
<1>2. maker' \in [Makers -> Making] /\ maker'[r].at = "none" /\ \A q \in Makers \ {r} : maker'[q] = maker[q]
  BY <1>1 DEF CheckpointsInv, CheckpointsTypeOK, Release
<1>3. /\ line \in Seq(Makers) /\ line' = Tail(line) /\ Len(line) \in Nat /\ DOMAIN line = 1 .. Len(line)
  BY LenProperties DEF CheckpointsInv, CheckpointsTypeOK, Release
<1>4. /\ line' \in Seq(Makers) /\ Len(line') = Len(line) - 1
      /\ \A i \in 1 .. Len(line') : line'[i] = line[i + 1]
  BY <1>3, HeadTailProperties
<1>5. DOMAIN line' = 1 .. Len(line) - 1 /\ Len(line) >= 1
  BY <1>3, <1>4, LenProperties
<1>6. \A q \in Makers \ {r} : maker[q].at # "writes"
  BY DEF CheckpointsInv, LineIsExclusive
<1>7. LineIsExclusive'
  <2>1. \A i, j \in DOMAIN line' : line'[i] = line'[j] => i = j
    BY <1>3, <1>4, <1>5 DEF CheckpointsInv, LineIsExclusive
  <2>0. ASSUME NEW i \in DOMAIN line' PROVE line'[i] # r /\ maker'[line'[i]].at # "none"
    <3>1. i + 1 \in DOMAIN line /\ 1 \in DOMAIN line /\ line'[i] = line[i + 1]
      BY <1>3, <1>4, <1>5
    <3>2. line[i + 1] # r /\ line[i + 1] \in Makers
      <4>1. i + 1 # 1 /\ i + 1 \in 1 .. Len(line)
        BY <3>1, <1>3, <1>5
      <4>2. line[i + 1] \in Makers
        BY <4>1, <1>3, ElementOfSeq
      <4> QED BY <4>1, <4>2, <3>1 DEF CheckpointsInv, LineIsExclusive
    <3>3. maker[line[i + 1]].at # "none"
      BY <3>1, <3>2 DEF CheckpointsInv, LineIsExclusive
    <3> QED BY <3>1, <3>2, <3>3, <1>2
  <2>2. ASSUME NEW q \in Makers, maker'[q].at # "none" PROVE \E i \in DOMAIN line' : line'[i] = q
    <3>1. q # r /\ maker[q].at # "none"
      BY <1>2, <2>2
    <3>2. PICK i \in DOMAIN line : line[i] = q
      BY <3>1 DEF CheckpointsInv, LineIsExclusive
    <3>3. i - 1 \in DOMAIN line' /\ line'[i - 1] = q
      BY <1>3, <1>4, <1>5, <3>1, <3>2
    <3> QED BY <3>3
  <2>3. \A q \in Makers : maker'[q].at # "writes"
    BY <1>2, <1>6
  <2> QED BY <2>0, <2>1, <2>2, <2>3 DEF LineIsExclusive
<1>8. IdsAreNew'
  <2>1. \A q \in Makers : maker'[q].at # "none" => q # r /\ maker'[q] = maker[q]
    BY <1>2
  <2>2. \A q \in Makers : maker'[q].at # "none" =>
          maker'[q].id <= begun' /\ \A i \in DOMAIN stored' : stored'[i] # maker'[q].id
    BY <2>1 DEF CheckpointsInv, IdsAreNew
  <2>3. \A q, p \in Makers : (maker'[q].at # "none" /\ maker'[p].at # "none" /\ maker'[q].id = maker'[p].id) => q = p
    BY <2>1 DEF CheckpointsInv, IdsAreNew
  <2> QED BY <2>2, <2>3 DEF IdsAreNew
<1>9. CheckpointsTypeOK'
  BY <1>2, <1>4 DEF CheckpointsInv, CheckpointsTypeOK
<1> QED BY <1>7, <1>8, <1>9 DEF CheckpointsInv

LEMMA CheckpointsStep == CheckpointsInv /\ [CheckpointsNext]_checkpointVars => CheckpointsInv'
<1> SUFFICES ASSUME CheckpointsInv, [CheckpointsNext]_checkpointVars PROVE CheckpointsInv'
  OBVIOUS
<1> USE DEF CheckpointsInv
<1>0. /\ maker \in [Makers -> Making] /\ line \in Seq(Makers) /\ Len(line) \in Nat /\ DOMAIN line = 1 .. Len(line)
      /\ stored \in Seq(Nat) /\ told \in Seq(Nat) /\ begun \in Nat
  BY LenProperties DEF CheckpointsTypeOK
<1>1. CASE UNCHANGED checkpointVars
  BY <1>1, KeptStays DEF checkpointVars, CheckpointsTypeOK, LineIsExclusive, IdsAreNew
<1>2. ASSUME NEW r \in Makers, TakeDiffs(r) PROVE CheckpointsInv'
  <2>1. PICK m \in Making : m = [NoMaker EXCEPT !.at = "waits", !.id = begun + 1] /\ m.at = "waits" /\ m.id = begun + 1
    <3>1. NoMaker \in Making
      BY DEF NoMaker, Making
    <3>0. begun + 1 \in Nat
      BY <1>0
    <3>2. [NoMaker EXCEPT !.at = "waits", !.id = begun + 1] \in Making
      BY <3>0, <3>1 DEF Making
    <3> QED BY <3>1, <3>2 DEF Making
  <2>2. /\ m.at = "waits" /\ m.id = begun + 1 /\ maker' = [maker EXCEPT ![r] = m] /\ maker[r].at = "none"
        /\ line' = Append(line, r) /\ begun' = begun + 1 /\ stored' = stored /\ told' = told
    <3>1. maker[r].at = "none"
      BY <1>2 DEF TakeDiffs, NoMaker
    <3> QED BY <1>2, <2>1, <3>1 DEF TakeDiffs
  <2>3. maker' \in [Makers -> Making] /\ maker'[r] = m /\ \A q \in Makers \ {r} : maker'[q] = maker[q]
    BY <1>0, <2>2
  <2>4. /\ line' \in Seq(Makers) /\ DOMAIN line' = 1 .. Len(line) + 1
        /\ (\A i \in 1 .. Len(line) : line'[i] = line[i]) /\ line'[Len(line) + 1] = r
    BY <1>0, <2>2, AppendProperties, LenProperties
  <2>5. CheckpointsTypeOK' /\ CheckpointsAreKept'
    <3>1. CheckpointsTypeOK'
      BY <1>0, <2>2, <2>3, <2>4 DEF CheckpointsTypeOK
    <3>2. CheckpointsAreKept'
      BY <2>2, KeptStays
    <3> QED BY <3>1, <3>2
  <2>6. IdsAreNew'
    <3>1. \A i \in DOMAIN stored : stored[i] \in Nat /\ stored[i] <= begun
      BY <1>0, ElementOfSeq, LenProperties DEF IdsAreNew
    <3>2. \A q \in Makers : maker[q].id \in Nat
      BY <1>0 DEF Making
    <3> QED BY <1>0, <2>2, <2>3, <3>1, <3>2 DEF IdsAreNew
  <2>7. ~\E i \in DOMAIN line : line[i] = r
    BY <2>2 DEF LineIsExclusive
  <2>8. LineIsExclusive'
    <3>1. \A i, j \in DOMAIN line' : line'[i] = line'[j] => i = j
      <4> SUFFICES ASSUME NEW i \in 1 .. Len(line) + 1, NEW j \in 1 .. Len(line) + 1, line'[i] = line'[j], i # j
                   PROVE  FALSE
        BY <2>4
      <4>1. CASE i \in 1 .. Len(line) /\ j \in 1 .. Len(line)
        BY <4>1, <1>0, <2>4 DEF LineIsExclusive
      <4>2. CASE i = Len(line) + 1 /\ j \in 1 .. Len(line)
        BY <4>2, <1>0, <2>4, <2>7
      <4>3. CASE j = Len(line) + 1 /\ i \in 1 .. Len(line)
        BY <4>3, <1>0, <2>4, <2>7
      <4> QED BY <4>1, <4>2, <4>3, <1>0
    <3>2. \A q \in Makers : (\E i \in DOMAIN line' : line'[i] = q) <=> (q = r \/ \E i \in DOMAIN line : line[i] = q)
      <4>1. \A i \in 1 .. Len(line) : i \in 1 .. Len(line) + 1
        BY <1>0
      <4>2. \A i \in 1 .. Len(line) + 1 : i \in 1 .. Len(line) \/ i = Len(line) + 1
        BY <1>0
      <4>3. Len(line) + 1 \in 1 .. Len(line) + 1
        BY <1>0
      <4> QED BY <1>0, <2>4, <4>1, <4>2, <4>3
    <3>3. \A q \in Makers : maker'[q].at # "none" <=> (q = r \/ maker[q].at # "none")
      BY <2>2, <2>3
    <3>4. \A q \in Makers : maker'[q].at = "writes" => /\ q # r /\ maker[q].at = "writes" /\ maker'[q].read = stored'
                                                     /\ line[1] = q /\ 1 \in DOMAIN line
      BY <1>0, <2>2, <2>3 DEF LineIsExclusive
    <3> QED BY <1>0, <2>4, <3>1, <3>2, <3>3, <3>4 DEF LineIsExclusive
  <2> QED BY <2>5, <2>6, <2>8
<1>3. ASSUME NEW r \in Makers, ReadFile(r) PROVE CheckpointsInv'
  <2>1. PICK m \in Making : m.at = "writes" /\ m.read = stored /\ m.id = maker[r].id
    <3>1. [at |-> "writes", id |-> maker[r].id, read |-> stored] \in Making
      BY <1>0 DEF Making
    <3> QED BY <3>1
  <2>2. maker' \in [Makers -> Making] /\ UNCHANGED <<line, stored, told, begun>>
        /\ (\A q \in Makers \ {r} : maker'[q] = maker[q])
        /\ maker'[r].at = "writes" /\ maker'[r].read = stored /\ maker'[r].id = maker[r].id
    BY <1>0, <1>3 DEF ReadFile, Making
  <2>3. maker[r].at = "waits" /\ line[1] = r
    BY <1>3 DEF ReadFile, HasTurn
  <2>4. CheckpointsTypeOK' /\ CheckpointsAreKept'
    <3>1. CheckpointsTypeOK'
      BY <2>2 DEF CheckpointsTypeOK
    <3>2. CheckpointsAreKept'
      BY <2>2, KeptStays
    <3> QED BY <3>1, <3>2
  <2>5. \A q \in Makers : maker'[q].id = maker[q].id /\ (maker'[q].at # "none" <=> maker[q].at # "none")
    BY <2>2, <2>3
  <2>6. IdsAreNew' 
    BY <2>2, <2>5, <1>3 DEF IdsAreNew, ReadFile
  <2>7. \A q \in Makers : maker'[q].at = "writes" => line[1] = q /\ maker'[q].read = stored
    BY <2>2, <2>3 DEF LineIsExclusive
  <2>8. LineIsExclusive'
    BY <2>2, <2>5, <2>7 DEF LineIsExclusive
  <2> QED BY <2>4, <2>6, <2>8
<1>4. ASSUME NEW r \in Makers, WriteFile(r) PROVE CheckpointsInv'
  <2>1. line # <<>> /\ line[1] = r /\ maker[r].read = stored /\ maker[r].at = "writes"
    <3>1. maker[r].at = "writes"
      BY <1>4 DEF WriteFile
    <3>2. PICK i \in DOMAIN line : line[i] = r
      BY <3>1 DEF LineIsExclusive
    <3>3. line # <<>>
      BY <3>2
    <3> QED BY <3>1, <3>3 DEF LineIsExclusive
  <2>2. /\ maker[r].id \in Nat /\ (\A i \in DOMAIN stored : stored[i] # maker[r].id)
        /\ stored' = Append(stored, maker[r].id) /\ told' = Append(told, maker[r].id) /\ begun' = begun
    BY <1>0, <1>4, <2>1 DEF WriteFile, Making, IdsAreNew
  <2>3. CheckpointsAreKept'
    BY <1>0, <2>2, OneMoreIsKept
  <2>4. /\ stored' \in Seq(Nat) /\ told' \in Seq(Nat)
        /\ \A i \in DOMAIN stored' : stored'[i] = maker[r].id \/ (i \in DOMAIN stored /\ stored'[i] = stored[i])
    BY <1>0, <2>2, AppendProperties, LenProperties
  <2>5. \A i \in DOMAIN stored' : stored'[i] <= begun
    BY <2>1, <2>4 DEF IdsAreNew
  <2>6. \A q \in Makers \ {r} : maker[q].at # "none" => \A i \in DOMAIN stored' : stored'[i] # maker[q].id
    BY <2>1, <2>4 DEF IdsAreNew
  <2> QED BY <1>4, <2>1, <2>2, <2>3, <2>4, <2>5, <2>6, ReleaseKeeps DEF WriteFile
<1>5. ASSUME NEW r \in Makers, NEW renamed \in BOOLEAN, FileFails(r, renamed) PROVE CheckpointsInv'
  <2>1. line # <<>> /\ line[1] = r
    BY <1>5, <1>0 DEF FileFails, HasTurn, LineIsExclusive
  <2>2. Renamed(r, renamed) /\ UNCHANGED <<told, begun>> /\ Release(r)
    BY <1>5 DEF FileFails
  <2> QED BY <1>0, <2>1, <2>2, RenamedKeeps, ReleaseKeeps
<1>6. ASSUME NEW r \in Makers, NEW renamed \in BOOLEAN, Dies(r, renamed) PROVE CheckpointsInv'
  <2>1. Renamed(r, renamed) /\ UNCHANGED <<told, begun>>
    BY <1>6 DEF Dies
  <2>2. stored' \in Seq(Nat) /\ CheckpointsAreKept' /\ \A i \in DOMAIN stored' : stored'[i] <= begun
    BY <2>1, RenamedKeeps
  <2>3. maker' \in [Makers -> Making] /\ (\A q \in Makers : maker'[q].at = "none") /\ line' = <<>>
    BY <1>6 DEF Dies, NoMaker, Making
  <2> QED BY <1>0, <2>1, <2>2, <2>3 DEF CheckpointsTypeOK, LineIsExclusive, IdsAreNew
<1> QED BY <1>1, <1>2, <1>3, <1>4, <1>5, <1>6 DEF CheckpointsNext

LEMMA CheckpointsHold == CheckpointsInit /\ [][CheckpointsNext]_checkpointVars => []CheckpointsAreKept
<1>1. CheckpointsInv => CheckpointsAreKept
  BY DEF CheckpointsInv
<1> QED BY <1>1, CheckpointsBegin, CheckpointsStep, PTL

------------------------------------------------------------------------------
(* The parts side by side *)

LEMMA WorkspacesStep == TerminalsInv /\ [WorkspacesNext]_workspaceVars => TerminalsInv'
<1> SUFFICES ASSUME TerminalsInv, [WorkspacesNext]_workspaceVars PROVE TerminalsInv'
  OBVIOUS
<1>1. CASE UNCHANGED workspaceVars
  BY <1>1 DEF workspaceVars, activityVars, terminalVars, TerminalsInv, TerminalsTypeOK, ProcessesEnd,
       AttachedWereOpen, ShellsAreRunning, AnnouncedIsCurrent, Summary, ViewersAgree, Open
<1>2. CASE TerminalsNext
  BY <1>2, TerminalsStep
<1>3. CASE SessionActivityNext /\ UNCHANGED terminalVars
  BY <1>3, SessionsAreAnnounced
<1> QED BY <1>1, <1>2, <1>3 DEF WorkspacesNext

\* Whichever component the first state chooses, each part makes steps of its own or none.
LEMMA PartsStep ==
  MCNext \/ UNCHANGED allVars =>
    /\ [Next]_receiptVars /\ [GitNext]_gitVars /\ [CheckpointsNext]_checkpointVars
    /\ [CachesNext]_cacheVars /\ [WorkspacesNext]_workspaceVars
BY DEF MCNext, allVars

\* Whatever interleaves (output, closing, the end of a shell, a session's report, a heartbeat), the
\* shells reported to the workspace activity are those that run, what is announced of each directory
\* is that of its sessions and shells, and a socket attached to an open terminal has what one that
\* attaches now would be sent (terminalService.ts, workspaceActivityService.ts).
THEOREM TerminalsAlwaysAgree == MCSpec => []TerminalsAgree
<1>1. MCInit => TerminalsInv
  BY TerminalsBegin DEF MCInit, WorkspacesInit
<1>2. [MCNext]_allVars => [WorkspacesNext]_workspaceVars
  BY PartsStep
<1>3. TerminalsInv => TerminalsAgree
  BY DEF TerminalsInv, TerminalsAgree
<1>4. MCSpec => []TerminalsInv
  BY <1>1, <1>2, WorkspacesStep, PTL DEF MCSpec
<1> QED BY <1>3, <1>4, PTL

\* However loads, writes of the configuration and expiries overlap, no status that is shown is of a
\* configuration that a write had replaced, and no answer kept gives way to one asked for before it
\* (piWebStatusCache.ts, piWebReleaseLookupCache.ts).
THEOREM CachesStayCurrent == MCSpec => CachesAreCurrent
<1>1. MCInit => CachesInit
  BY DEF MCInit
<1>2. [MCNext]_allVars => [CachesNext]_cacheVars
  BY PartsStep
<1>3. MCSpec => CachesSpec
  BY <1>1, <1>2, PTL DEF MCSpec, CachesSpec
<1> QED BY <1>3, CachesHold DEF CachesAreCurrent

\* No command of the Runtime takes a commit from the branch or from the remote, whatever others
\* commit, push and edit between its preview and its run; and the file of checkpoints holds each
\* one that was acknowledged, in order and once, whatever overlaps, fails or dies (gitService.ts, gitCheckpointStore.ts).
THEOREM NothingIsEverUndone == MCSpec => NothingIsUndone
<1>1. MCInit => GitInit /\ CheckpointsInit
  BY DEF MCInit
<1>2. [MCNext]_allVars => [GitNext]_gitVars /\ [CheckpointsNext]_checkpointVars
  BY PartsStep
<1>3. MCSpec => GitInit /\ [][GitNext]_gitVars
  BY <1>1, <1>2, PTL DEF MCSpec
<1>4. MCSpec => CheckpointsInit /\ [][CheckpointsNext]_checkpointVars
  BY <1>1, <1>2, PTL DEF MCSpec
<1> QED BY <1>3, <1>4, HistoryHolds, CheckpointsHold DEF NothingIsUndone
==============================================================================
