------------------------- MODULE MCOmpRuntimeProofs -------------------------
(* What holds of the parts that MCOmpRuntime puts together, for any number of    *)
(* flows, providers, connections and requests: OMP runtimes serve, credentials   *)
(* are as they are said to be, input arrives in order, and what replaces a       *)
(* session is alone.                                                             *)
(*                                                                              *)
(* Each part has an inductive invariant that names what its actions rely on,      *)
(* and its own specification; EachSteps takes the results to the composition.     *)
EXTENDS MCOmpRuntime, OmpRuntimeProofs, FiniteSetTheorems, SequenceTheorems, WellFoundedInduction, TLAPS

------------------------------------------------------------------------------
(* The migration of credentials *)

Steps == {"idle", "write", "read", "mark", "undo", "rollback"}
Records == [state : {"writing", "verified", "rolled-back", "rollback-required"}, created : SUBSET Providers]
Operations == [step : Steps, n : Nat, created : SUBSET Providers, at : SUBSET Providers, failed : BOOLEAN]

AuthTypeOK ==
  /\ keychain \in [Providers -> Nat] /\ journal \in Seq(Records)
  /\ op \in Operations /\ left \in SUBSET Providers
  /\ Len(journal) <= MaxMigrations

\* An operation is on a record that says what it is about.
OperationOK ==
  op.step # "idle" =>
    /\ op.n \in DOMAIN journal
    /\ journal[op.n].state = IF op.step = "rollback" THEN "verified" ELSE "writing"

\* What is undone so far is gone, unless a deletion failed.
UndoingOK ==
  /\ op.step = "undo" /\ ~op.failed => \A p \in op.created \ left : keychain[p] # op.n
  /\ op.step = "rollback" => \A p \in op.created \ left : keychain[p] # op.n

\* An operation knows the entries of its migration, but one that it is reading back or could
\* not read back, and its record marks those it knows, but the one it is about to mark.
OwnOK ==
  op.step # "idle" =>
    /\ journal[op.n].created \subseteq op.created
    /\ op.step \in {"write", "read", "rollback"} => op.created = journal[op.n].created
    /\ op.step = "read" => \E p \in Providers : op.at = {p}
    /\ \A p \in Providers : keychain[p] = op.n =>
         \/ p \in op.created
         \/ op.step = "read" /\ p \in op.at
         \/ op.step = "undo" /\ <<op.n, p>> \in unread

AuthInv == AuthTypeOK /\ OperationOK /\ UndoingOK /\ OwnOK /\ RecordsAreTrue

\* RecordsAreTrue, of one record.
RecordOK(contents, record, unanswered, n) ==
  /\ record.state = "rolled-back" => \A p \in Providers : contents[p] = n => <<n, p>> \in unanswered
  /\ record.state = "verified" => \A p \in Providers : contents[p] = n => p \in record.created
  /\ \A p, q \in Providers :
       contents[p] = n /\ contents[q] = n /\ p \notin record.created /\ q \notin record.created => p = q

LEMMA RecordsAre == RecordsAreTrue <=> \A n \in DOMAIN journal : RecordOK(keychain, journal[n], unread, n)
BY DEF RecordsAreTrue, RecordOK

LEMMA RecordsAreNext ==
  ASSUME \A n \in DOMAIN journal' : RecordOK(keychain', journal'[n], unread', n)
  PROVE  RecordsAreTrue'
BY DEF RecordsAreTrue, RecordOK

LEMMA OwnShrink ==
  ASSUME NEW contents, NEW after, NEW record, NEW unanswered, NEW more, NEW n, RecordOK(contents, record, unanswered, n),
         \A p \in Providers : after[p] = n => contents[p] = n, unanswered \subseteq more
  PROVE  RecordOK(after, record, more, n)
BY DEF RecordOK

\* The numbers of migrations are none of the other contents of the Keychain.
LEMMA NumbersAre ==
  ASSUME AuthInv, NEW n \in DOMAIN journal
  PROVE  n \in Nat /\ n # NoCredential /\ n # Login /\ journal[n] \in Records
<1>1. journal \in Seq(Records) /\ Len(journal) <= MaxMigrations
  BY DEF AuthInv, AuthTypeOK
<1>2. journal[n] \in Records /\ n \in 1 .. Len(journal) /\ Len(journal) \in Nat
  BY <1>1
<1> QED BY <1>1, <1>2, MigrationsAssumption DEF NoCredential, Login

LEMMA IdleIsTyped == Idle \in Operations /\ Idle.step = "idle" /\ Idle.created = {} /\ ~Idle.failed
BY DEF Idle, Operations, Steps

\* Entries of the Keychain that change are deleted, logged in, or of the operation that writes.
LEMMA KeychainMoves ==
  ASSUME AuthInv, NEW p \in Providers, NEW entry \in Nat,
         keychain' = [keychain EXCEPT ![p] = entry],
         \/ entry = NoCredential \/ entry = Login
         \/ entry = op.n /\ op.step = "write",
         UNCHANGED journal, unread \subseteq unread'
  PROVE  /\ keychain' \in [Providers -> Nat] /\ RecordsAreTrue'
         /\ \A q \in Providers \ {p} : keychain'[q] = keychain[q]
         /\ keychain'[p] = entry
<1>1. keychain' \in [Providers -> Nat] /\ keychain'[p] = entry /\ \A q \in Providers \ {p} : keychain'[q] = keychain[q]
  BY DEF AuthInv, AuthTypeOK
<1>2. ASSUME NEW n \in DOMAIN journal PROVE RecordOK(keychain', journal[n], unread', n)
  <2>1. n \in Nat /\ n # NoCredential /\ n # Login /\ RecordOK(keychain, journal[n], unread, n)
    BY NumbersAre, RecordsAre DEF AuthInv
  <2>2. CASE entry # n
    <3>1. \A q \in Providers : keychain'[q] = n => keychain[q] = n
      BY <1>1, <2>2
    <3> QED BY <2>1, <3>1, OwnShrink
  <2>3. CASE entry = n
    <3>1. n = op.n /\ op.step = "write"
      BY <2>1, <2>3
    <3>2. journal[n].state = "writing" /\ \A q \in Providers : keychain[q] = n => q \in journal[n].created
      BY <3>1 DEF AuthInv, OperationOK, OwnOK
    <3> QED BY <1>1, <3>2 DEF RecordOK
  <2> QED BY <2>2, <2>3
<1> QED BY <1>1, <1>2, RecordsAreNext

\* A record is written by the operation it is of, and says what is so.
LEMMA RecordMoves ==
  ASSUME AuthInv, op.step # "idle", NEW state \in {"writing", "verified", "rolled-back", "rollback-required"},
         Upsert(state), UNCHANGED <<keychain, unread>>,
         state = "rolled-back" => \A p \in Providers : keychain[p] = op.n => <<op.n, p>> \in unread,
         state = "verified" => \A p \in Providers : keychain[p] = op.n => p \in op.created
  PROVE  /\ journal' \in Seq(Records) /\ Len(journal') <= MaxMigrations /\ RecordsAreTrue'
         /\ DOMAIN journal' = DOMAIN journal /\ journal'[op.n].state = state /\ journal'[op.n].created = op.created
<1> DEFINE record == [state |-> state, created |-> op.created]
<1>1. journal \in Seq(Records) /\ op \in Operations /\ Len(journal) <= MaxMigrations /\ op.n \in DOMAIN journal
  BY DEF AuthInv, AuthTypeOK, OperationOK
<1>2. record \in Records /\ record.state = state /\ record.created = op.created
  BY <1>1 DEF Records, Operations
<1>3. journal' = [journal EXCEPT ![op.n] = record]
  BY DEF Upsert
<1> HIDE DEF record
<1>4. /\ journal' \in Seq(Records) /\ DOMAIN journal' = DOMAIN journal /\ journal'[op.n] = record
      /\ \A n \in DOMAIN journal \ {op.n} : journal'[n] = journal[n]
      /\ Len(journal') = Len(journal)
  BY <1>1, <1>2, <1>3
<1>5. ASSUME NEW n \in DOMAIN journal' PROVE RecordOK(keychain', journal'[n], unread', n)
  <2>1. RecordOK(keychain, journal[n], unread, n)
    BY <1>4, RecordsAre DEF AuthInv
  <2>2. CASE n # op.n
    BY <1>4, <2>1, <2>2
  <2>3. CASE n = op.n
    <3>1. journal[n].created \subseteq record.created
      BY <1>2, <2>3 DEF AuthInv, OwnOK
    <3>2. journal'[n] = record
      BY <1>4, <2>3
    <3>3. RecordOK(keychain, record, unread, n)
      BY <1>2, <2>1, <2>3, <3>1 DEF RecordOK
    <3> QED BY <3>2, <3>3
  <2> QED BY <2>2, <2>3
<1>6. RecordsAreTrue'
  BY <1>5, RecordsAreNext
<1>7. Len(journal') <= MaxMigrations
  BY <1>1, <1>4
<1>8. journal'[op.n].state = state /\ journal'[op.n].created = op.created
  BY <1>2, <1>4
<1> QED BY <1>4, <1>6, <1>7, <1>8

\* Steps that leave the Keychain and the journal as they are.
LEMMA OperationMoves ==
  ASSUME AuthInv, UNCHANGED <<keychain, journal>>, unread \subseteq unread',
         op' \in Operations, left' \in SUBSET Providers,
         op'.step # "idle" =>
           op'.n = op.n /\ op.step # "idle" /\ op'.step # "rollback" /\ op.step # "rollback",
         op'.step = "undo" => op'.created \subseteq left',
         OwnOK'
  PROVE  AuthInv'
<1>1. AuthTypeOK'
  BY DEF AuthInv, AuthTypeOK
<1>2. OperationOK'
  BY DEF AuthInv, OperationOK
<1>3. UndoingOK'
  BY DEF AuthInv, UndoingOK
<1>4. ASSUME NEW n \in DOMAIN journal' PROVE RecordOK(keychain', journal'[n], unread', n)
  <2>1. RecordOK(keychain, journal[n], unread, n)
    BY RecordsAre DEF AuthInv
  <2> QED BY <2>1, OwnShrink
<1> QED BY <1>1, <1>2, <1>3, <1>4, RecordsAreNext DEF AuthInv

LEMMA GivesUpTyped ==
  ASSUME AuthInv, GivesUp
  PROVE  /\ op' \in Operations /\ left' \in SUBSET Providers /\ op'.step = "undo" /\ op'.n = op.n
         /\ op'.created = left' /\ op'.created = op.created
<1>1. op \in Operations
  BY DEF AuthInv, AuthTypeOK
<1>2. op' = [op EXCEPT !.step = "undo"] /\ left' = op.created
  BY DEF GivesUp
<1> QED BY <1>1, <1>2 DEF Operations, Steps

\* A migration gives up: what it was reading back and is there yet counts as unread.
LEMMA GivesUpKeeps ==
  ASSUME AuthInv, op.step \in {"write", "read", "mark"}, GivesUp, UNCHANGED <<keychain, journal>>,
         unread \subseteq unread',
         op.step = "read" => \A p \in op.at : keychain[p] = op.n => <<op.n, p>> \in unread'
  PROVE  AuthInv'
<1>1. /\ op' \in Operations /\ left' \in SUBSET Providers /\ op'.step = "undo" /\ op'.n = op.n
      /\ op'.created = left' /\ op'.created = op.created
  BY GivesUpTyped
<1>2. OwnOK'
  BY <1>1 DEF AuthInv, OwnOK
<1> QED BY <1>1, <1>2, OperationMoves

LEMMA AuthStepKeeps == AuthInv /\ [AuthNext]_authVars => AuthInv'
<1> SUFFICES ASSUME AuthInv, [AuthNext]_authVars PROVE AuthInv'
  OBVIOUS
<1>1. /\ keychain \in [Providers -> Nat] /\ journal \in Seq(Records) /\ op \in Operations /\ left \in SUBSET Providers
      /\ Len(journal) <= MaxMigrations /\ OperationOK /\ UndoingOK /\ OwnOK /\ RecordsAreTrue
      /\ op.step \in Steps /\ op.n \in Nat /\ op.created \in SUBSET Providers
  BY DEF AuthInv, AuthTypeOK, Operations
<1>2. CASE Migrate
  <2> DEFINE record == [state |-> "writing", created |-> {}]
  <2>1. /\ op' = [Idle EXCEPT !.step = "write", !.n = Len(journal) + 1] /\ left' = Providers
        /\ journal' = Append(journal, record) /\ Len(journal) < MaxMigrations /\ keychain' = keychain
        /\ unread' = unread /\ \A p \in Providers : keychain[p] = 0
    BY <1>2 DEF Migrate, NoCredential
  <2>2. record \in Records /\ record.state = "writing" /\ record.created = {}
    BY DEF Records
  <2> HIDE DEF record
  <2>3. /\ journal' \in Seq(Records) /\ Len(journal') = Len(journal) + 1 /\ Len(journal) \in Nat
        /\ DOMAIN journal = 1 .. Len(journal) /\ DOMAIN journal' = 1 .. Len(journal) + 1
        /\ journal'[Len(journal) + 1] = record
        /\ \A n \in DOMAIN journal : journal'[n] = journal[n]
    BY <1>1, <2>1, <2>2
  <2>4. op' = [step |-> "write", n |-> Len(journal) + 1, created |-> {}, at |-> {}, failed |-> FALSE]
    BY <2>1 DEF Idle
  <2>5. op' \in Operations /\ op'.step = "write" /\ op'.n = Len(journal) + 1 /\ op'.created = {}
    BY <2>3, <2>4 DEF Operations, Steps
  <2>6. AuthTypeOK'
    BY <1>1, <2>1, <2>3, <2>5, MigrationsAssumption DEF AuthTypeOK
  <2>7. OperationOK' /\ UndoingOK'
    BY <2>2, <2>3, <2>5 DEF OperationOK, UndoingOK
  <2>8. OwnOK'
    <3>1. journal'[op'.n].created = {} /\ op'.n # 0
      BY <2>2, <2>3, <2>5
    <3>2. \A p \in Providers : keychain'[p] # op'.n
      BY <2>1, <3>1
    <3> QED BY <2>5, <3>1, <3>2 DEF OwnOK
  <2>9. ASSUME NEW n \in DOMAIN journal' PROVE RecordOK(keychain', journal'[n], unread', n)
    <3>1. CASE n \in DOMAIN journal
      BY <1>1, <2>1, <2>3, <3>1, RecordsAre
    <3>2. CASE n = Len(journal) + 1
      BY <2>1, <2>3, <3>2 DEF RecordOK
    <3> QED BY <2>3, <3>1, <3>2
  <2> QED BY <2>6, <2>7, <2>8, <2>9, RecordsAreNext DEF AuthInv
<1>3. ASSUME NEW p \in Providers, Write(p) PROVE AuthInv'
  <2>1. /\ op.step = "write" /\ keychain' = [keychain EXCEPT ![p] = op.n] /\ journal' = journal
        /\ op' = [op EXCEPT !.step = "read", !.at = {p}] /\ left' = left \ {p} /\ unread' = unread
    BY <1>3 DEF Write
  <2>2. /\ keychain' \in [Providers -> Nat] /\ RecordsAreTrue'
        /\ \A q \in Providers \ {p} : keychain'[q] = keychain[q]
    BY <1>1, <2>1, KeychainMoves
  <2>3. /\ op' \in Operations /\ op'.step = "read" /\ op'.n = op.n /\ op'.at = {p}
        /\ op'.created = op.created
    BY <1>1, <2>1 DEF Operations, Steps
  <2>4. OwnOK'
    BY <1>1, <2>1, <2>2, <2>3 DEF OwnOK
  <2> QED BY <1>1, <2>1, <2>2, <2>3, <2>4 DEF AuthInv, AuthTypeOK, OperationOK, UndoingOK
<1>4. ASSUME NEW p \in Providers, WriteUnanswered(p) PROVE AuthInv'
  <2>1. /\ op.step = "write" /\ keychain' = [keychain EXCEPT ![p] = op.n] /\ journal' = journal
        /\ GivesUp /\ unread' = unread \cup {<<op.n, p>>}
    BY <1>4 DEF WriteUnanswered
  <2>2. /\ keychain' \in [Providers -> Nat] /\ RecordsAreTrue'
        /\ \A q \in Providers \ {p} : keychain'[q] = keychain[q]
    BY <1>1, <2>1, KeychainMoves
  <2>3. /\ op' \in Operations /\ left' \in SUBSET Providers /\ op'.step = "undo" /\ op'.n = op.n
        /\ op'.created = left' /\ op'.created = op.created
    BY <2>1, GivesUpTyped
  <2>4. OwnOK'
    BY <1>1, <2>1, <2>2, <2>3 DEF OwnOK
  <2> QED BY <1>1, <2>1, <2>2, <2>3, <2>4 DEF AuthInv, AuthTypeOK, OperationOK, UndoingOK
<1>5. ASSUME NEW p \in Providers, WriteRefused(p) PROVE AuthInv'
  BY <1>5, GivesUpKeeps DEF WriteRefused
<1>6. CASE ReadBack
  <2>1. /\ op.step = "read" /\ op' = [op EXCEPT !.step = "mark", !.created = @ \union op.at]
        /\ UNCHANGED <<keychain, journal, left, unread>>
    BY <1>6 DEF ReadBack
  <2>2. /\ op' \in Operations /\ op'.step = "mark" /\ op'.n = op.n
        /\ op'.created = op.created \union op.at
    BY <1>1, <2>1 DEF Operations, Steps
  <2>3. OwnOK'
    BY <1>1, <2>1, <2>2 DEF OwnOK
  <2> QED BY <1>1, <2>1, <2>2, <2>3, OperationMoves
<1>7. CASE ReadBackDiffers
  <2>1. op.step = "read" /\ GivesUp /\ UNCHANGED <<keychain, journal, unread>>
    BY <1>7 DEF ReadBackDiffers
  <2>2. op.n # NoCredential /\ op.n # Login
    BY <1>1, <2>1, NumbersAre DEF OperationOK
  <2>3. \A p \in op.at : keychain[p] # op.n
    <3>1. PICK p \in Providers : op.at = {p}
      BY <1>1, <2>1 DEF OwnOK
    <3> QED BY <1>7, <2>2, <3>1 DEF ReadBackDiffers
  <2> QED BY <2>1, <2>3, GivesUpKeeps
<1>8. CASE StepFails
  <2>1. /\ op.step \in {"write", "read", "mark"} /\ GivesUp /\ UNCHANGED <<keychain, journal>>
        /\ unread' = unread \cup {<<op.n, p>> : p \in {q \in op.at : op.step = "read" /\ keychain[q] = op.n}}
    BY <1>8 DEF StepFails
  <2>2. op.step = "read" => \A p \in op.at : keychain[p] = op.n => <<op.n, p>> \in unread'
    BY <2>1
  <2> QED BY <2>1, <2>2, GivesUpKeeps
<1>9. CASE Mark
  <2>1. /\ op.step = "mark" /\ Upsert("writing") /\ op' = [op EXCEPT !.step = "write"]
        /\ UNCHANGED <<keychain, left, unread>>
    BY <1>9 DEF Mark
  <2>2. op' \in Operations /\ op'.step = "write" /\ op'.n = op.n /\ op'.created = op.created
    BY <1>1, <2>1 DEF Operations, Steps
  <2>3. /\ journal' \in Seq(Records) /\ Len(journal') <= MaxMigrations /\ RecordsAreTrue'
        /\ DOMAIN journal' = DOMAIN journal /\ journal'[op.n].state = "writing" /\ journal'[op.n].created = op.created
    BY <2>1, RecordMoves
  <2>4. OwnOK'
    BY <1>1, <2>1, <2>2, <2>3 DEF OwnOK
  <2> QED BY <1>1, <2>1, <2>2, <2>3, <2>4 DEF AuthInv, AuthTypeOK, OperationOK, UndoingOK
<1>10. ASSUME op' = Idle, left' \in SUBSET Providers, keychain' \in [Providers -> Nat], journal' \in Seq(Records),
              Len(journal') <= MaxMigrations, RecordsAreTrue'
       PROVE  AuthInv'
  BY <1>10, IdleIsTyped DEF AuthInv, AuthTypeOK, OperationOK, UndoingOK, OwnOK
<1>11. ASSUME NEW state \in {"verified", "rolled-back", "rollback-required"}, op.step # "idle",
              Upsert(state), UNCHANGED <<keychain, left, unread>>, op' = Idle,
              state = "rolled-back" => \A p \in Providers : keychain[p] = op.n => <<op.n, p>> \in unread,
              state = "verified" => \A p \in Providers : keychain[p] = op.n => p \in op.created
       PROVE  AuthInv'
  <2>1. journal' \in Seq(Records) /\ Len(journal') <= MaxMigrations /\ RecordsAreTrue'
    BY <1>11, RecordMoves
  <2> QED BY <1>1, <1>10, <1>11, <2>1
<1>12. CASE Verified
  <2>1. op.step = "write" /\ Upsert("verified") /\ op' = Idle /\ UNCHANGED <<keychain, left, unread>>
    BY <1>12 DEF Verified
  <2>2. \A p \in Providers : keychain[p] = op.n => p \in op.created
    BY <1>1, <2>1 DEF OwnOK
  <2> QED BY <1>11, <2>1, <2>2
<1>13. ASSUME op' = Idle, left' \in SUBSET Providers, UNCHANGED <<keychain, journal, unread>> PROVE AuthInv'
  <2>1. RecordsAreTrue'
    BY <1>1, <1>13 DEF RecordsAreTrue
  <2> QED BY <1>1, <1>10, <1>13, <2>1
<1>14. CASE Undone
  <2>1. /\ op.step = "undo" /\ left = {} /\ op' = Idle /\ UNCHANGED <<keychain, left, unread>>
        /\ Upsert(UndoneState) \/ UNCHANGED journal
    BY <1>14 DEF Undone
  <2>2. CASE Upsert(UndoneState)
    <3>1. UndoneState = "rolled-back" => \A p \in Providers : keychain[p] = op.n => <<op.n, p>> \in unread
      <4>1. UndoneState = "rolled-back" => ~op.failed
        BY DEF UndoneState
      <4> QED BY <1>1, <2>1, <4>1 DEF UndoingOK, OwnOK
    <3>2. UndoneState \in {"rolled-back", "rollback-required"}
      BY DEF UndoneState
    <3> HIDE DEF UndoneState
    <3> QED BY <1>11, <2>1, <2>2, <3>1, <3>2
  <2>3. CASE UNCHANGED journal
    BY <1>1, <1>13, <2>1, <2>3
  <2> QED BY <2>1, <2>2, <2>3
<1>15. CASE RollbackEnds
  <2>1. /\ op.step = "rollback" /\ left = {} /\ op' = Idle /\ UNCHANGED <<keychain, left, unread>>
        /\ Upsert("rolled-back")
    BY <1>15 DEF RollbackEnds
  <2>2. \A p \in Providers : keychain[p] # op.n
    BY <1>1, <2>1 DEF UndoingOK, OwnOK
  <2> QED BY <1>11, <2>1, <2>2
<1>16. ASSUME NEW p \in Providers, op.step \in {"undo", "rollback"}, p \in left, left' = left \ {p},
              keychain' = [keychain EXCEPT ![p] = NoCredential], UNCHANGED <<op, journal, unread>>
       PROVE  AuthInv'
  <2>1. /\ keychain' \in [Providers -> Nat] /\ RecordsAreTrue' /\ keychain'[p] = 0
        /\ \A q \in Providers \ {p} : keychain'[q] = keychain[q]
    BY <1>16, KeychainMoves DEF NoCredential
  <2>2. op.n \in DOMAIN journal /\ op.n # 0
    BY <1>1, <1>16 DEF OperationOK
  <2>3. UndoingOK' /\ OwnOK'
    BY <1>1, <1>16, <2>1, <2>2 DEF UndoingOK, OwnOK
  <2> QED BY <1>1, <1>16, <2>1, <2>3 DEF AuthInv, AuthTypeOK, OperationOK
<1>17. ASSUME NEW p \in Providers, Undo(p) PROVE AuthInv'
  <2>1. op.step = "undo" /\ p \in left /\ left' = left \ {p} /\ UNCHANGED <<journal, unread>>
    BY <1>17 DEF Undo
  <2>2. CASE keychain' = [keychain EXCEPT ![p] = NoCredential] /\ UNCHANGED op
    BY <1>16, <2>1, <2>2
  <2>3. CASE op' = [op EXCEPT !.failed = TRUE] /\ UNCHANGED keychain
    <3>1. op' \in Operations /\ op'.step = "undo" /\ op'.n = op.n /\ op'.failed /\ op'.created = op.created
      BY <1>1, <2>1, <2>3 DEF Operations, Steps
    <3>2. OwnOK' /\ RecordsAreTrue'
      BY <1>1, <2>1, <2>3, <3>1 DEF OwnOK, RecordsAreTrue
    <3> QED BY <1>1, <2>1, <2>3, <3>1, <3>2 DEF AuthInv, AuthTypeOK, OperationOK, UndoingOK
  <2> QED BY <1>17, <2>2, <2>3 DEF Undo
<1>18. ASSUME NEW p \in Providers, RollbackDeletes(p) PROVE AuthInv'
  <2>1. op.step = "rollback" /\ p \in left /\ UNCHANGED <<journal, unread>>
    BY <1>18 DEF RollbackDeletes
  <2>2. CASE keychain' = [keychain EXCEPT ![p] = NoCredential] /\ left' = left \ {p} /\ UNCHANGED op
    BY <1>16, <2>1, <2>2
  <2>3. CASE op' = Idle /\ left' = {} /\ UNCHANGED keychain
    BY <1>13, <2>1, <2>3
  <2> QED BY <1>18, <2>2, <2>3 DEF RollbackDeletes
<1>19. ASSUME NEW n \in 1 .. MaxMigrations, Rollback(n) PROVE AuthInv'
  <2>1. /\ n \in DOMAIN journal /\ journal[n].state = "verified" /\ left' = journal[n].created
        /\ op' = [Idle EXCEPT !.step = "rollback", !.n = n, !.created = journal[n].created]
        /\ UNCHANGED <<keychain, journal, unread>>
    BY <1>19 DEF Rollback
  <2>2. journal[n] \in Records
    BY <1>1, <2>1
  <2>3. op' = [step |-> "rollback", n |-> n, created |-> journal[n].created, at |-> {}, failed |-> FALSE]
    BY <2>1 DEF Idle
  <2>4. /\ op' \in Operations /\ op'.step = "rollback" /\ op'.n = n /\ op'.created = left'
        /\ op'.created = journal[n].created /\ left' \in SUBSET Providers
    <3>1. journal[n].created \in SUBSET Providers /\ n \in Nat
      BY <2>2 DEF Records
    <3> HIDE DEF Idle
    <3>2. op' \in Operations
      BY <2>3, <3>1 DEF Operations, Steps
    <3> QED BY <2>1, <2>3, <3>1, <3>2
  <2>5. OwnOK'
    <3>1. \A p \in Providers : keychain[p] = n => p \in journal[n].created
      BY <1>1, <2>1 DEF RecordsAreTrue
    <3> QED BY <2>1, <2>4, <3>1 DEF OwnOK
  <2>6. RecordsAreTrue'
    BY <1>1, <2>1 DEF RecordsAreTrue
  <2> QED BY <1>1, <2>1, <2>4, <2>5, <2>6 DEF AuthInv, AuthTypeOK, OperationOK, UndoingOK
<1>20. ASSUME NEW p \in Providers, LogIn(p) \/ LogOut(p) PROVE AuthInv'
  <2>1. /\ UNCHANGED <<journal, op, left, unread>>
        /\ \/ keychain' = [keychain EXCEPT ![p] = Login]
           \/ keychain' = [keychain EXCEPT ![p] = NoCredential]
    BY <1>20 DEF LogIn, LogOut
  <2>2. Login \in Nat /\ NoCredential \in Nat
    BY MigrationsAssumption DEF Login, NoCredential
  <2>3. /\ keychain' \in [Providers -> Nat] /\ RecordsAreTrue' /\ keychain'[p] \in {Login, NoCredential}
        /\ \A q \in Providers \ {p} : keychain'[q] = keychain[q]
    BY <2>1, <2>2, KeychainMoves
  <2>4. op.step # "idle" => op.n # Login /\ op.n # NoCredential
    BY <1>1, NumbersAre DEF OperationOK
  <2>5. UndoingOK' /\ OwnOK'
    BY <1>1, <2>1, <2>3, <2>4 DEF UndoingOK, OwnOK
  <2> QED BY <1>1, <2>1, <2>3, <2>5 DEF AuthInv, AuthTypeOK, OperationOK
<1>21. CASE Die
  <2>1. op' = Idle /\ left' = {} /\ UNCHANGED <<keychain, journal, unread>>
    BY <1>21 DEF Die
  <2> QED BY <1>13, <2>1
<1>22. CASE UNCHANGED authVars
  BY <1>22 DEF authVars, AuthInv, AuthTypeOK, OperationOK, UndoingOK, OwnOK, RecordsAreTrue
<1> QED BY <1>2, <1>3, <1>4, <1>5, <1>6, <1>7, <1>8, <1>9, <1>12, <1>14, <1>15, <1>17, <1>18, <1>19, <1>20, <1>21, <1>22
        DEF AuthNext, AuthStep

LEMMA AuthBegin == AuthInit => AuthInv
<1> SUFFICES ASSUME AuthInit PROVE AuthInv
  OBVIOUS
<1>1. journal = <<>> /\ journal \in Seq(Records) /\ Len(journal) = 0 /\ DOMAIN journal = {}
  BY DEF AuthInit
<1>2. keychain \in [Providers -> Nat]
  BY DEF AuthInit, NoCredential
<1> QED BY <1>1, <1>2, IdleIsTyped, MigrationsAssumption
        DEF AuthInit, AuthInv, AuthTypeOK, OperationOK, UndoingOK, OwnOK, RecordsAreTrue

\* What the user logged in with goes only when the user, an undoing or a rollback deletes it.
LEMMA LoginsStay ==
  AuthInv /\ [AuthNext]_authVars
    => [\A p \in Providers : keychain[p] = Login => keychain'[p] \in {Login, NoCredential}]_authVars
<1> SUFFICES ASSUME AuthInv, AuthNext, NEW p \in Providers, keychain[p] = Login
             PROVE  keychain'[p] \in {Login, NoCredential}
  OBVIOUS
<1>1. keychain \in [Providers -> Nat] /\ Login # NoCredential
  BY MigrationsAssumption DEF AuthInv, AuthTypeOK, Login, NoCredential
<1>2. \/ keychain' = keychain
      \/ \E q \in Providers : keychain' = [keychain EXCEPT ![q] = NoCredential]
      \/ \E q \in Providers : keychain' = [keychain EXCEPT ![q] = Login]
      \/ \E q \in Providers : keychain[q] = NoCredential /\ keychain' = [keychain EXCEPT ![q] = op.n]
  BY DEF AuthNext, AuthStep, Migrate, StepFails, Die, Rollback, LogIn, LogOut, ReadBack, ReadBackDiffers, Mark,
         Verified, Undone, RollbackEnds, Write, WriteUnanswered, WriteRefused, Undo, RollbackDeletes, StillFree
<1> QED BY <1>1, <1>2

------------------------------------------------------------------------------
(* Logins *)

LoginTypeOK ==
  /\ status \in [Flows -> {"none", "running", "complete", "error", "cancelled", "gone"}]
  /\ pending \in [Flows -> Nat] /\ shown \in [Flows -> Nat] /\ asked \in [Flows -> Nat]
  /\ waits \in [Flows -> SUBSET Nat]
  /\ login \in [Flows -> {"off", "runs", "stored", "resolved", "over"}]
  /\ saved \in [Flows -> BOOLEAN]

\* What there is of one flow.
FlowOK(f) ==
  /\ status[f] = "none" => login[f] = "off" /\ shown[f] = pending[f]
  /\ login[f] \in {"off", "runs"} => ~saved[f]
  /\ login[f] = "resolved" /\ Kept(f) => pending[f] = 0
  /\ Kept(f) /\ login[f] # "resolved" => shown[f] = pending[f]
  /\ login[f] = "over" /\ saved[f] /\ Kept(f) => status[f] = "complete"

LoginInv == LoginTypeOK /\ \A f \in Flows : FlowOK(f)

\* A step of one flow.
LEMMA FlowMoves ==
  ASSUME LoginInv, NEW f \in Flows, LoginTypeOK', FlowOK(f)',
         \A g \in Flows \ {f} : /\ status'[g] = status[g] /\ pending'[g] = pending[g] /\ shown'[g] = shown[g]
                                /\ login'[g] = login[g] /\ saved'[g] = saved[g]
  PROVE  LoginInv'
BY DEF LoginInv, FlowOK, Kept

LEMMA DroppedTyped ==
  ASSUME LoginInv, NEW f \in Flows, Dropped(f)
  PROVE  /\ pending' \in [Flows -> Nat] /\ shown' \in [Flows -> Nat] /\ waits' \in [Flows -> SUBSET Nat]
         /\ pending'[f] = 0 /\ shown'[f] = 0
         /\ \A g \in Flows \ {f} : pending'[g] = pending[g] /\ shown'[g] = shown[g]
BY DEF LoginInv, LoginTypeOK, Dropped

\* A flow whose prompt is dropped, at any point of its provider's login.
LEMMA DropKeeps ==
  ASSUME LoginInv, NEW f \in Flows, Dropped(f), UNCHANGED <<asked, outcome>>,
         \/ status' = status
         \/ \E new \in {"error", "cancelled"} : Running(f) /\ status' = [status EXCEPT ![f] = new],
         login' = login \/ (login[f] = "runs" /\ login' = [login EXCEPT ![f] = "over"])
  PROVE  LoginInv'
<1>1. /\ LoginTypeOK /\ FlowOK(f) /\ saved' = saved /\ asked' = asked
  BY DEF LoginInv, outcome
<1>2. /\ pending' \in [Flows -> Nat] /\ shown' \in [Flows -> Nat] /\ waits' \in [Flows -> SUBSET Nat]
      /\ pending'[f] = 0 /\ shown'[f] = 0
      /\ \A g \in Flows \ {f} : pending'[g] = pending[g] /\ shown'[g] = shown[g]
  BY DroppedTyped
<1>3. /\ status' \in [Flows -> {"none", "running", "complete", "error", "cancelled", "gone"}]
      /\ \A g \in Flows \ {f} : status'[g] = status[g]
      /\ status'[f] = status[f] \/ (status[f] = "running" /\ status'[f] \in {"error", "cancelled"})
  BY <1>1 DEF LoginTypeOK, Running
<1>4. /\ login' \in [Flows -> {"off", "runs", "stored", "resolved", "over"}]
      /\ \A g \in Flows \ {f} : login'[g] = login[g]
      /\ login'[f] = login[f] \/ (login[f] = "runs" /\ login'[f] = "over")
  BY <1>1 DEF LoginTypeOK
<1>5. LoginTypeOK'
  BY <1>1, <1>2, <1>3, <1>4 DEF LoginTypeOK
<1>6. FlowOK(f)'
  BY <1>1, <1>2, <1>3, <1>4 DEF FlowOK, Kept
<1> QED BY <1>1, <1>2, <1>3, <1>4, <1>5, <1>6, FlowMoves

LEMMA LoginStep == LoginInv /\ [LoginNext]_loginVars => LoginInv'
<1> SUFFICES ASSUME LoginInv, [LoginNext]_loginVars PROVE LoginInv'
  OBVIOUS
<1>1. LoginTypeOK /\ \A f \in Flows : FlowOK(f)
  BY DEF LoginInv
<1>2. ASSUME NEW f \in Flows, StartLogin(f) PROVE LoginInv'
  BY <1>1, <1>2, FlowMoves DEF StartLogin, LoginTypeOK, FlowOK, Kept, outcome
<1>3. ASSUME NEW f \in Flows, Prompt(f) PROVE LoginInv'
  <2>1. login[f] = "runs" /\ UNCHANGED <<status, saved>>
    BY <1>3 DEF Prompt, outcome
  <2>2. CASE Running(f)
    <3>1. /\ asked' = [asked EXCEPT ![f] = asked[f] + 1] /\ waits' = [waits EXCEPT ![f] = {asked[f] + 1}]
          /\ pending' = [pending EXCEPT ![f] = asked[f] + 1] /\ shown' = [shown EXCEPT ![f] = asked[f] + 1]
          /\ login' = login
      BY <1>3, <2>2 DEF Prompt
    <3>2. asked[f] + 1 \in Nat
      BY <1>1 DEF LoginTypeOK
    <3>3. LoginTypeOK'
      BY <1>1, <2>1, <3>1, <3>2 DEF LoginTypeOK
    <3>4. /\ pending'[f] = shown'[f]
          /\ \A g \in Flows \ {f} : pending'[g] = pending[g] /\ shown'[g] = shown[g]
      BY <1>1, <3>1 DEF LoginTypeOK
    <3>5. FlowOK(f)'
      BY <1>1, <2>1, <2>2, <3>1, <3>4 DEF FlowOK, Kept, Running
    <3> QED BY <2>1, <3>1, <3>3, <3>4, <3>5, FlowMoves
  <2>3. CASE ~Running(f)
    <3>1. login' = [login EXCEPT ![f] = "over"] /\ UNCHANGED <<asked, waits, pending, shown>>
      BY <1>3, <2>3 DEF Prompt
    <3>2. LoginTypeOK' /\ login'[f] = "over" /\ \A g \in Flows \ {f} : login'[g] = login[g]
      BY <1>1, <2>1, <3>1 DEF LoginTypeOK
    <3>3. FlowOK(f)'
      BY <1>1, <2>1, <3>1, <3>2 DEF FlowOK, Kept
    <3> QED BY <2>1, <3>1, <3>2, <3>3, FlowMoves
  <2> QED BY <2>2, <2>3
<1>4. ASSUME NEW f \in Flows, SignalAborts(f) \/ \E r \in 1 .. MaxPrompts : Respond(f, r) PROVE LoginInv'
  BY <1>4, DropKeeps DEF SignalAborts, Respond
<1>5. ASSUME NEW f \in Flows, Cancel(f) \/ Expire(f) PROVE LoginInv'
  BY <1>5, DropKeeps DEF Cancel, Expire
<1>6. ASSUME NEW f \in Flows, LoginFails(f) PROVE LoginInv'
  <2>1. CASE Running(f)
    BY <1>6, <2>1, DropKeeps DEF LoginFails
  <2>2. CASE ~Running(f)
    <3>1. /\ login[f] = "runs" /\ login' = [login EXCEPT ![f] = "over"]
          /\ UNCHANGED <<pending, shown, waits, status, asked, saved>>
      BY <1>6, <2>2 DEF LoginFails, outcome
    <3>2. LoginTypeOK' /\ login'[f] = "over" /\ \A g \in Flows \ {f} : login'[g] = login[g]
      BY <1>1, <3>1 DEF LoginTypeOK
    <3>3. FlowOK(f)'
      BY <1>1, <3>1, <3>2 DEF FlowOK, Kept
    <3> QED BY <3>1, <3>2, <3>3, FlowMoves
  <2> QED BY <2>1, <2>2
<1>7. ASSUME NEW f \in Flows, Evict(f) PROVE LoginInv'
  BY <1>1, <1>7, FlowMoves DEF Evict, LoginTypeOK, FlowOK, Kept, outcome
<1>8. ASSUME NEW f \in Flows, Store(f) PROVE LoginInv'
  BY <1>1, <1>8, FlowMoves DEF Store, LoginTypeOK, FlowOK, Kept
<1>9. ASSUME NEW f \in Flows, Resolve(f) PROVE LoginInv'
  <2>1. /\ login[f] = "stored" /\ login' = [login EXCEPT ![f] = "resolved"]
        /\ pending' = IF Kept(f) THEN [pending EXCEPT ![f] = 0] ELSE pending
        /\ UNCHANGED <<status, shown, asked, waits, saved>>
    BY <1>9 DEF Resolve
  <2>2. /\ pending' \in [Flows -> Nat] /\ (Kept(f) => pending'[f] = 0)
        /\ \A g \in Flows \ {f} : pending'[g] = pending[g]
    BY <1>1, <2>1 DEF LoginTypeOK
  <2>3. /\ login' \in [Flows -> {"off", "runs", "stored", "resolved", "over"}] /\ login'[f] = "resolved"
        /\ \A g \in Flows \ {f} : login'[g] = login[g]
    BY <1>1, <2>1 DEF LoginTypeOK
  <2>4. LoginTypeOK'
    BY <1>1, <2>1, <2>2, <2>3 DEF LoginTypeOK
  <2>5. FlowOK(f)'
    BY <1>1, <2>1, <2>2, <2>3 DEF FlowOK, Kept
  <2> QED BY <2>1, <2>2, <2>3, <2>4, <2>5, FlowMoves
<1>10. ASSUME NEW f \in Flows, Complete(f) PROVE LoginInv'
  <2>1. /\ login[f] = "resolved" /\ login' = [login EXCEPT ![f] = "over"]
        /\ status' = IF Kept(f) THEN [status EXCEPT ![f] = "complete"] ELSE status
        /\ shown' = IF Kept(f) THEN [shown EXCEPT ![f] = 0] ELSE shown
        /\ UNCHANGED <<pending, asked, waits, saved>>
    BY <1>10 DEF Complete, Reconciles, outcome
  <2>2. /\ shown' \in [Flows -> Nat] /\ (Kept(f) => shown'[f] = 0)
        /\ \A g \in Flows \ {f} : shown'[g] = shown[g]
    BY <1>1, <2>1 DEF LoginTypeOK
  <2>3. /\ login' \in [Flows -> {"off", "runs", "stored", "resolved", "over"}] /\ login'[f] = "over"
        /\ \A g \in Flows \ {f} : login'[g] = login[g]
    BY <1>1, <2>1 DEF LoginTypeOK
  <2>4. /\ status' \in [Flows -> {"none", "running", "complete", "error", "cancelled", "gone"}]
        /\ status'[f] = (IF Kept(f) THEN "complete" ELSE status[f])
        /\ \A g \in Flows \ {f} : status'[g] = status[g]
    BY <1>1, <2>1 DEF LoginTypeOK
  <2>5. LoginTypeOK'
    BY <1>1, <2>1, <2>2, <2>3, <2>4 DEF LoginTypeOK
  <2>6. FlowOK(f)'
    BY <1>1, <2>1, <2>2, <2>3, <2>4 DEF FlowOK, Kept
  <2> QED BY <2>1, <2>2, <2>3, <2>4, <2>5, <2>6, FlowMoves
<1>11. CASE DisposeFlows
  <2>1. /\ status' = [f \in Flows |-> IF Kept(f) THEN "gone" ELSE status[f]]
        /\ waits' = [f \in Flows |-> waits[f] \ {pending[f]}]
        /\ pending' = [f \in Flows |-> 0] /\ shown' = [f \in Flows |-> 0]
        /\ UNCHANGED <<asked, login, saved>>
    BY <1>11 DEF DisposeFlows
  <2>2. LoginTypeOK'
    BY <1>1, <2>1 DEF LoginTypeOK
  <2>3. \A f \in Flows : FlowOK(f)'
    BY <1>1, <2>1 DEF FlowOK, Kept
  <2> QED BY <2>2, <2>3 DEF LoginInv
<1>12. CASE UNCHANGED loginVars
  <2>1. UNCHANGED <<status, pending, shown, asked, waits, login, saved>>
    BY <1>12 DEF loginVars, outcome
  <2> QED BY <1>1, <2>1 DEF LoginInv, LoginTypeOK, FlowOK, Kept
<1> QED BY <1>2, <1>3, <1>4, <1>5, <1>6, <1>7, <1>8, <1>9, <1>10, <1>11, <1>12 DEF LoginNext

LEMMA LoginBegin == LoginInit => LoginInv
BY DEF LoginInit, LoginInv, LoginTypeOK, FlowOK, Kept

LEMMA LoginsAgree == LoginInv => ShownCanBeAnswered /\ CommittedIsComplete
BY DEF LoginInv, FlowOK, ShownCanBeAnswered, CommittedIsComplete

------------------------------------------------------------------------------
(* Warnings of lost credentials *)

WarningsTypeOK ==
  /\ configured \in SUBSET ModelProviders
  /\ emits \in [ModelProviders \union {NoneRemoved} -> Nat]
  /\ model \in [Talks -> ModelProviders \union {Closed}]
  /\ heard \in [Pairs -> {0, 1}]
  /\ warned \in SUBSET Pairs /\ fresh \in SUBSET Pairs /\ owed \in SUBSET Pairs

\* A session that heard of a loss is on record as warned until there are credentials again.
HeardOK == \A k \in Pairs : heard[k] = 1 => k \in warned /\ k[2] \notin configured

\* A loss to be told is of the session's provider, was not told, and there is a change to tell.
OwedOK ==
  /\ fresh \cap warned = {}
  /\ \A k \in owed : /\ model[k[1]] = k[2] /\ k[2] \notin configured /\ k \notin warned
                     /\ emits[k[2]] > 0

WarningsInv == WarningsTypeOK /\ HeardOK /\ OwedOK

LEMMA PairFacts ==
  /\ \A k \in Pairs : k[1] \in Talks /\ k[2] \in ModelProviders /\ k = <<k[1], k[2]>>
                      /\ k[2] # NoneRemoved /\ k[2] # Closed
  /\ \A s : \A k \in Pairs : k \in OfTalk(s) <=> k[1] = s
  /\ \A p \in ModelProviders : On(p) \subseteq Pairs /\ \A k \in Pairs : k \in On(p) <=> k[2] = p /\ model[k[1]] = p
<1>1. \A k \in Pairs : k[1] \in Talks /\ k[2] \in ModelProviders /\ k = <<k[1], k[2]>>
  BY DEF Pairs
<1>2. \A k \in Pairs : k[2] # NoneRemoved /\ k[2] # Closed
  BY <1>1, ProvidersAssumption
<1>3. ASSUME NEW s, NEW k \in Pairs PROVE k \in OfTalk(s) <=> k[1] = s
  BY DEF Pairs, OfTalk
<1>4. ASSUME NEW p \in ModelProviders
      PROVE  On(p) \subseteq Pairs /\ \A k \in Pairs : k \in On(p) <=> k[2] = p /\ model[k[1]] = p
  BY DEF On, Pairs
<1> QED BY <1>1, <1>2, <1>3, <1>4

LEMMA LostFacts ==
  ASSUME WarningsInv, NEW r \in ModelProviders \union {NoneRemoved}
  PROVE  /\ Lost(r) \subseteq Pairs
         /\ \A k \in Pairs : k \in Lost(r) <=> /\ r \notin configured /\ r # NoneRemoved /\ k[2] = r
                                               /\ model[k[1]] = r /\ k \notin warned
BY PairFacts DEF Lost

LEMMA ChangeTyped ==
  ASSUME WarningsInv, NEW p \in ModelProviders, NEW has \in BOOLEAN, NEW r \in ModelProviders \union {NoneRemoved},
         Change(p, has, r)
  PROVE  /\ configured' = IF has THEN configured \union {p} ELSE configured \ {p}
         /\ configured' \in SUBSET ModelProviders
         /\ emits' \in [ModelProviders \union {NoneRemoved} -> Nat]
         /\ \A q \in ModelProviders \union {NoneRemoved} : emits'[q] >= emits[q]
         /\ emits'[r] > 0
         /\ UNCHANGED <<model, warned, fresh>>
<1>1. emits \in [ModelProviders \union {NoneRemoved} -> Nat] /\ configured \in SUBSET ModelProviders
  BY DEF WarningsInv, WarningsTypeOK
<1>2. emits' = [emits EXCEPT ![r] = @ + 1]
  BY DEF Change
<1>3. emits[r] + 1 \in Nat /\ emits[r] + 1 > 0 /\ emits[r] + 1 >= emits[r]
  BY <1>1
<1>4. \A q \in ModelProviders \union {NoneRemoved} : emits[q] >= emits[q]
  BY <1>1
<1> QED BY <1>1, <1>2, <1>3, <1>4 DEF Change

LEMMA WarningsStep == WarningsInv /\ [WarningsNext]_warningVars => WarningsInv'
<1> SUFFICES ASSUME WarningsInv, [WarningsNext]_warningVars PROVE WarningsInv'
  OBVIOUS
<1>1. WarningsTypeOK /\ HeardOK /\ OwedOK
  BY DEF WarningsInv
<1>2. /\ configured \in SUBSET ModelProviders /\ emits \in [ModelProviders \union {NoneRemoved} -> Nat]
      /\ model \in [Talks -> ModelProviders \union {Closed}] /\ heard \in [Pairs -> {0, 1}]
      /\ warned \in SUBSET Pairs /\ fresh \in SUBSET Pairs /\ owed \in SUBSET Pairs
      /\ fresh \cap warned = {}
  BY <1>1 DEF WarningsTypeOK, OwedOK
<1>3. ASSUME NEW p \in ModelProviders, GetsCredentials(p) PROVE WarningsInv'
  <2>1. /\ heard' = [k \in Pairs |-> IF k[2] = p THEN 0 ELSE heard[k]] /\ owed' = {k \in owed : k[2] # p}
        /\ Change(p, TRUE, NoneRemoved)
    BY <1>3 DEF GetsCredentials
  <2>2. /\ configured' = configured \union {p} /\ UNCHANGED <<model, warned, fresh>>
        /\ configured' \in SUBSET ModelProviders /\ emits' \in [ModelProviders \union {NoneRemoved} -> Nat]
        /\ \A q \in ModelProviders \union {NoneRemoved} : emits'[q] >= emits[q]
    BY <2>1, ChangeTyped
  <2>3. HeardOK'
    BY <1>1, <2>1, <2>2 DEF HeardOK
  <2>4. OwedOK'
    <3>1. ASSUME NEW k \in owed' PROVE model[k[1]] = k[2] /\ k[2] \notin configured' /\ k \notin warned /\ emits'[k[2]] > 0
      <4>1. k \in owed /\ k \in Pairs /\ k[2] # p
        BY <1>2, <2>1
      <4>2. emits[k[2]] > 0 /\ k[2] \in ModelProviders
        BY <1>1, <4>1, PairFacts DEF OwedOK
      <4>3. emits'[k[2]] >= emits[k[2]] /\ emits[k[2]] \in Nat /\ emits'[k[2]] \in Nat
        BY <1>2, <2>2, <4>2
      <4> QED BY <1>1, <2>2, <4>1, <4>2, <4>3 DEF OwedOK
    <3> QED BY <1>2, <2>2, <3>1 DEF OwedOK
  <2>5. WarningsTypeOK'
    BY <1>2, <2>1, <2>2 DEF WarningsTypeOK
  <2> QED BY <2>3, <2>4, <2>5 DEF WarningsInv
<1>4. ASSUME NEW p \in ModelProviders, LogsOut(p) PROVE WarningsInv'
  <2>1. /\ owed' = owed \union (IF p \in configured THEN On(p) \intersect fresh ELSE {})
        /\ heard' = heard /\ Change(p, FALSE, p)
    BY <1>4 DEF LogsOut
  <2>2. /\ configured' = configured \ {p} /\ UNCHANGED <<model, warned, fresh>>
        /\ configured' \in SUBSET ModelProviders /\ emits' \in [ModelProviders \union {NoneRemoved} -> Nat]
        /\ emits'[p] > 0 /\ \A q \in ModelProviders \union {NoneRemoved} : emits'[q] >= emits[q]
    BY <2>1, ChangeTyped
  <2>3. HeardOK'
    BY <1>1, <2>1, <2>2 DEF HeardOK
  <2>4. OwedOK'
    <3>1. ASSUME NEW k \in owed PROVE model[k[1]] = k[2] /\ k[2] \notin configured' /\ k \notin warned /\ emits'[k[2]] > 0
      <4>1. emits[k[2]] > 0 /\ k[2] \in ModelProviders
        BY <1>1, <1>2, PairFacts DEF OwedOK
      <4>2. emits'[k[2]] >= emits[k[2]] /\ emits[k[2]] \in Nat /\ emits'[k[2]] \in Nat
        BY <1>2, <2>2, <4>1
      <4> QED BY <1>1, <2>2, <4>1, <4>2 DEF OwedOK
    <3>2. ASSUME NEW k \in On(p) \intersect fresh
          PROVE  model[k[1]] = k[2] /\ k[2] \notin configured' /\ k \notin warned /\ emits'[k[2]] > 0
      <4>1. k[2] = p /\ model[k[1]] = p
        BY <1>2, PairFacts
      <4> QED BY <1>2, <2>2, <4>1
    <3> QED BY <1>2, <2>1, <2>2, <3>1, <3>2 DEF OwedOK
  <2>5. WarningsTypeOK'
    BY <1>2, <2>1, <2>2, PairFacts DEF WarningsTypeOK
  <2> QED BY <2>3, <2>4, <2>5 DEF WarningsInv
<1>5. ASSUME NEW p \in ModelProviders, RollsBack(p) PROVE WarningsInv'
  <2>1. UNCHANGED <<heard, owed>> /\ Change(p, FALSE, NoneRemoved)
    BY <1>5 DEF RollsBack
  <2>2. /\ configured' = configured \ {p} /\ UNCHANGED <<model, warned, fresh>>
        /\ configured' \in SUBSET ModelProviders /\ emits' \in [ModelProviders \union {NoneRemoved} -> Nat]
        /\ \A q \in ModelProviders \union {NoneRemoved} : emits'[q] >= emits[q]
    BY <2>1, ChangeTyped
  <2>3. HeardOK'
    BY <1>1, <2>1, <2>2 DEF HeardOK
  <2>4. OwedOK'
    <3>1. ASSUME NEW k \in owed PROVE model[k[1]] = k[2] /\ k[2] \notin configured' /\ k \notin warned /\ emits'[k[2]] > 0
      <4>1. emits[k[2]] > 0 /\ k[2] \in ModelProviders
        BY <1>1, <1>2, PairFacts DEF OwedOK
      <4>2. emits'[k[2]] >= emits[k[2]] /\ emits[k[2]] \in Nat /\ emits'[k[2]] \in Nat
        BY <1>2, <2>2, <4>1
      <4> QED BY <1>1, <2>2, <4>1, <4>2 DEF OwedOK
    <3> QED BY <1>2, <2>1, <2>2, <3>1 DEF OwedOK
  <2>5. WarningsTypeOK'
    BY <1>2, <2>1, <2>2 DEF WarningsTypeOK
  <2> QED BY <2>3, <2>4, <2>5 DEF WarningsInv
<1>6. ASSUME NEW r \in ModelProviders \union {NoneRemoved}, Tell(r) PROVE WarningsInv'
  <2>1. /\ emits[r] > 0 /\ emits' = [emits EXCEPT ![r] = @ - 1]
        /\ warned' = (warned \ Served) \union Lost(r)
        /\ heard' = [k \in Pairs |-> heard[k] + IF k \in Lost(r) THEN 1 ELSE 0]
        /\ fresh' = (fresh \union Served) \ Lost(r) /\ owed' = owed \ Lost(r)
        /\ UNCHANGED <<configured, model>>
    BY <1>6 DEF Tell, StillWarned
  <2>2. /\ Lost(r) \subseteq Pairs
        /\ \A k \in Pairs : k \in Lost(r) <=> /\ r \notin configured /\ r # NoneRemoved /\ k[2] = r
                                              /\ model[k[1]] = r /\ k \notin warned
    BY LostFacts
  <2>3. Served \subseteq Pairs /\ \A k \in Served : k[2] \in configured
    BY DEF Served
  <2>4. /\ emits' \in [ModelProviders \union {NoneRemoved} -> Nat]
        /\ \A q \in ModelProviders \union {NoneRemoved} : q # r => emits'[q] = emits[q]
    <3>1. emits[r] - 1 \in Nat
      BY <1>2, <2>1
    <3> QED BY <1>2, <2>1, <3>1
  <2>5. \A k \in Pairs : k \in Lost(r) => heard[k] = 0
    BY <1>1, <1>2, <2>2 DEF HeardOK
  <2>6. heard' \in [Pairs -> {0, 1}] /\ \A k \in Pairs : heard'[k] = 1 <=> heard[k] = 1 \/ k \in Lost(r)
    <3>1. \A k \in Pairs : heard[k] \in {0, 1}
      BY <1>2
    <3>2. \A k \in Pairs : heard'[k] = (IF k \in Lost(r) THEN 1 ELSE heard[k])
      BY <2>1, <2>5, <3>1
    <3> QED BY <2>1, <2>5, <3>1, <3>2
  <2>7. HeardOK'
    <3> SUFFICES ASSUME NEW k \in Pairs, heard'[k] = 1 PROVE k \in warned' /\ k[2] \notin configured
      BY <2>1 DEF HeardOK
    <3>1. CASE k \in Lost(r)
      BY <2>1, <2>2, <3>1
    <3>2. CASE heard[k] = 1
      BY <1>1, <2>1, <2>3, <3>2 DEF HeardOK
    <3> QED BY <2>6, <3>1, <3>2
  <2>8. OwedOK'
    <3>1. ASSUME NEW k \in owed'
          PROVE  model[k[1]] = k[2] /\ k[2] \notin configured /\ k \notin warned' /\ emits'[k[2]] > 0
      <4>1. /\ k \in owed /\ k \notin Lost(r) /\ k \in Pairs /\ k[2] \in ModelProviders /\ k[2] # NoneRemoved
            /\ model[k[1]] = k[2] /\ k[2] \notin configured /\ k \notin warned /\ emits[k[2]] > 0
        BY <1>1, <1>2, <2>1, PairFacts DEF OwedOK
      <4>2. k[2] # r
        BY <2>2, <4>1
      <4> QED BY <2>1, <2>4, <4>1, <4>2
    <3>2. fresh' \cap warned' = {}
      BY <1>2, <2>1
    <3> QED BY <2>1, <3>1, <3>2 DEF OwedOK
  <2>9. WarningsTypeOK'
    BY <1>2, <2>1, <2>2, <2>3, <2>4, <2>6 DEF WarningsTypeOK
  <2> QED BY <2>7, <2>8, <2>9 DEF WarningsInv
<1>7. ASSUME NEW s \in Talks, NEW p \in ModelProviders, SetsModel(s, p) \/ OpensTalk(s, p) PROVE WarningsInv'
  <2>1. /\ model' = [model EXCEPT ![s] = p] /\ UNCHANGED <<configured, emits, warned, heard, fresh>>
        /\ owed' = owed \ OfTalk(s) \/ (model[s] = Closed /\ owed' = owed)
    BY <1>7 DEF SetsModel, OpensTalk
  <2>2. \A k \in owed' : k \in owed /\ k \in Pairs /\ k[1] # s
    <3> SUFFICES ASSUME NEW k \in owed' PROVE k \in owed /\ k \in Pairs /\ k[1] # s
      OBVIOUS
    <3>1. k \in owed /\ k \in Pairs
      BY <1>2, <2>1
    <3>2. model[k[1]] # Closed
      BY <1>1, <3>1, PairFacts DEF OwedOK
    <3> QED BY <2>1, <3>1, <3>2, PairFacts
  <2>3. \A t \in Talks : t # s => model'[t] = model[t]
    BY <1>2, <2>1
  <2>4. OwedOK'
    BY <1>1, <2>1, <2>2, <2>3, PairFacts DEF OwedOK
  <2>5. WarningsTypeOK' /\ HeardOK'
    BY <1>1, <1>2, <2>1 DEF WarningsTypeOK, HeardOK
  <2> QED BY <2>4, <2>5 DEF WarningsInv
<1>8. ASSUME NEW s \in Talks, ClosesTalk(s) PROVE WarningsInv'
  <2>1. /\ model' = [model EXCEPT ![s] = Closed] /\ warned' = warned \ OfTalk(s)
        /\ owed' = owed \ OfTalk(s) /\ heard' = [k \in Pairs |-> IF k \in OfTalk(s) THEN 0 ELSE heard[k]]
        /\ fresh' = fresh \union OfTalk(s) /\ UNCHANGED <<configured, emits>>
    BY <1>8 DEF ClosesTalk, ClearedAtClose
  <2>2. OfTalk(s) \subseteq Pairs
    BY DEF OfTalk, Pairs
  <2>3. \A t \in Talks : t # s => model'[t] = model[t]
    BY <1>2, <2>1
  <2>4. HeardOK'
    BY <1>1, <2>1 DEF HeardOK
  <2>5. OwedOK'
    <3>1. \A k \in owed' : k \in owed /\ k \in Pairs /\ k[1] # s
      BY <1>2, <2>1, PairFacts
    <3>2. fresh' \cap warned' = {}
      BY <1>2, <2>1
    <3> QED BY <1>1, <2>1, <2>3, <3>1, <3>2, PairFacts DEF OwedOK
  <2>6. WarningsTypeOK'
    <3>1. heard' \in [Pairs -> {0, 1}]
      BY <1>2, <2>1
    <3> QED BY <1>2, <2>1, <2>2, <3>1 DEF WarningsTypeOK
  <2> QED BY <2>4, <2>5, <2>6 DEF WarningsInv
<1>9. CASE UNCHANGED warningVars
  BY <1>9 DEF warningVars, WarningsInv, WarningsTypeOK, HeardOK, OwedOK
<1> QED BY <1>3, <1>4, <1>5, <1>6, <1>7, <1>8, <1>9 DEF WarningsNext

LEMMA WarningsBegin == WarningsInit => WarningsInv
<1> SUFFICES ASSUME WarningsInit PROVE WarningsInv
  OBVIOUS
<1>1. \A k \in Pairs : heard[k] = 0
  BY DEF WarningsInit
<1> QED BY <1>1 DEF WarningsInit, WarningsInv, WarningsTypeOK, HeardOK, OwedOK

LEMMA WarningsTold == WarningsInv => LossesAreTold
<1> SUFFICES ASSUME WarningsInv PROVE LossesAreTold
  OBVIOUS
<1>1. \A k \in Pairs : heard[k] <= 1
  <2>1. \A k \in Pairs : heard[k] \in {0, 1}
    BY DEF WarningsInv, WarningsTypeOK
  <2> QED BY <2>1
<1>2. ASSUME \A r \in DOMAIN emits : emits[r] = 0 PROVE owed = {}
  <2> SUFFICES ASSUME NEW k \in owed PROVE FALSE
    OBVIOUS
  <2>1. k[2] \in DOMAIN emits /\ emits[k[2]] > 0
    BY PairFacts DEF WarningsInv, WarningsTypeOK, OwedOK
  <2> QED BY <1>2, <2>1
<1> QED BY <1>1, <1>2 DEF LossesAreTold

------------------------------------------------------------------------------
(* Input of clients through the bridge *)

Counted(start, n) == [k \in 1 .. n |-> start + k]

LEMMA CountedFurther ==
  ASSUME NEW start \in Nat, NEW n \in Nat
  PROVE  Append(Counted(start, n), start + n + 1) = Counted(start, n + 1)
<1> DEFINE s == Counted(start, n)  t == Counted(start, n + 1)
<1>1. s \in Seq(Nat) /\ t \in Seq(Nat) /\ Len(s) = n /\ Len(t) = n + 1
  BY DEF Counted
<1>2. \A i \in 1 .. n + 1 : Append(s, start + n + 1)[i] = t[i]
  BY <1>1 DEF Counted
<1> HIDE DEF s, t
<1>3. Append(s, start + n + 1) \in Seq(Nat) /\ Len(Append(s, start + n + 1)) = n + 1
  BY <1>1
<1>4. Append(s, start + n + 1) = t
  BY <1>1, <1>2, <1>3
<1>5. QED BY <1>4 DEF s, t

LEMMA AppendLater ==
  ASSUME NEW s \in Seq(Nat), NEW t \in Seq(Nat), NEW x \in Nat
  PROVE  s \o Append(t, x) = Append(s \o t, x)
OBVIOUS

LEMMA PassHead ==
  ASSUME NEW S, NEW s \in Seq(S), NEW t \in Seq(S), t # <<>>
  PROVE  Append(s, Head(t)) \o Tail(t) = s \o t
OBVIOUS

LEMMA NothingBefore ==
  ASSUME NEW S, NEW s \in Seq(S)
  PROVE  <<>> \o s = s /\ s \o <<>> = s
OBVIOUS

States == {"none", "connecting", "open", "closing", "closed"}

BridgesTypeOK ==
  /\ kind \in [Connections -> {"session", "terminal"}]
  /\ client \in [Connections -> {"none", "open", "closed"}]
  /\ bridged \in [Connections -> BOOLEAN] /\ upstream \in [Connections -> States]
  /\ typed \in [Connections -> Nat] /\ since \in [Connections -> Nat]
  /\ unsent \in [Connections -> Seq(Nat)] /\ wire \in [Connections -> Seq(Nat)]
  /\ arrived \in [Connections -> Seq(Nat)]
  /\ \A c \in Connections : since[c] <= typed[c]

\* Nothing is sent before the upstream opened, and what was buffered is sent when it does;
\* before the bridge there is neither, and a session buffers nothing.
NothingWaits(c) ==
  /\ upstream[c] \in {"none", "connecting"} => wire[c] = <<>> /\ arrived[c] = <<>>
  /\ upstream[c] \in {"none", "open"} => unsent[c] = <<>>
  /\ upstream[c] = "connecting" /\ kind[c] = "session" => unsent[c] = <<>>
  /\ client[c] = "none" => ~bridged[c] /\ upstream[c] = "none"
  /\ ~bridged[c] => upstream[c] \in {"none", "closed"}

InOrder(c) ==
  bridged[c] /\ upstream[c] \in {"connecting", "open"} =>
    \/ kind[c] = "session" /\ upstream[c] = "connecting"
    \/ arrived[c] \o wire[c] \o unsent[c] = Counted(since[c], typed[c] - since[c])

BridgesInv == BridgesTypeOK /\ \A c \in Connections : NothingWaits(c) /\ InOrder(c)

LEMMA OthersStay ==
  ASSUME BridgesInv, BridgesTypeOK', NEW c \in Connections, NothingWaits(c)', InOrder(c)',
         \A d \in Connections \ {c} :
            /\ kind'[d] = kind[d] /\ client'[d] = client[d] /\ bridged'[d] = bridged[d]
            /\ upstream'[d] = upstream[d] /\ typed'[d] = typed[d] /\ since'[d] = since[d]
            /\ unsent'[d] = unsent[d] /\ wire'[d] = wire[d] /\ arrived'[d] = arrived[d]
  PROVE  BridgesInv'
<1>1. ASSUME NEW d \in Connections \ {c} PROVE NothingWaits(d)' /\ InOrder(d)'
  <2>1. NothingWaits(d) /\ InOrder(d) BY DEF BridgesInv
  <2>2. NothingWaits(d)' BY <2>1 DEF NothingWaits
  <2>3. InOrder(d)' BY <2>1 DEF InOrder
  <2>4. QED BY <2>2, <2>3
<1>2. QED BY <1>1 DEF BridgesInv

LEMMA BridgesBegin == BridgesInit => BridgesInv
<1> SUFFICES ASSUME BridgesInit PROVE BridgesInv OBVIOUS
<1>1. BridgesTypeOK BY DEF BridgesInit, BridgesTypeOK, States
<1>2. \A c \in Connections : NothingWaits(c) /\ InOrder(c)
  BY DEF BridgesInit, NothingWaits, InOrder
<1>3. QED BY <1>1, <1>2 DEF BridgesInv

LEMMA BridgesStep == BridgesInv /\ [BridgesNext]_bridgeVars => BridgesInv'
<1> SUFFICES ASSUME BridgesInv, [BridgesNext]_bridgeVars PROVE BridgesInv' OBVIOUS
<1>t. BridgesTypeOK BY DEF BridgesInv
<1>1. CASE UNCHANGED bridgeVars
  <2>1. BridgesTypeOK' BY <1>1, <1>t DEF bridgeVars, BridgesTypeOK
  <2>2. \A c \in Connections : NothingWaits(c)' /\ InOrder(c)'
    BY <1>1 DEF bridgeVars, BridgesInv, NothingWaits, InOrder
  <2>3. QED BY <2>1, <2>2 DEF BridgesInv
<1>2. CASE BridgesNext
  <2> PICK c \in Connections :
       \/ ConnectSession(c) \/ ConnectTerminal(c) \/ Bridge(c) \/ LookupFails(c)
       \/ ClientSends(c) \/ UpstreamOpens(c) \/ Arrives(c) \/ ClientCloses(c) \/ UpstreamCloses(c)
    BY <1>2 DEF BridgesNext
  <2>0. NothingWaits(c) /\ InOrder(c) BY DEF BridgesInv
  <2> DEFINE before == arrived[c] \o wire[c] \o unsent[c]
  <2>1. CASE ConnectSession(c)
    <3>1. BridgesTypeOK' BY <1>t, <2>1 DEF BridgesTypeOK, ConnectSession, Set, States
    <3>2. NothingWaits(c)' BY <1>t, <2>0, <2>1 DEF BridgesTypeOK, ConnectSession, Set, NothingWaits
    <3>3. InOrder(c)' BY <1>t, <2>1 DEF BridgesTypeOK, ConnectSession, Set, InOrder
    <3>4. QED BY <1>t, <2>1, <3>1, <3>2, <3>3, OthersStay DEF BridgesTypeOK, ConnectSession, Set
  <2>2. CASE ConnectTerminal(c)
    <3>1. BridgesTypeOK' BY <1>t, <2>2 DEF BridgesTypeOK, ConnectTerminal, Set
    <3>2. NothingWaits(c)' BY <1>t, <2>0, <2>2 DEF BridgesTypeOK, ConnectTerminal, Set, NothingWaits
    <3>3. InOrder(c)' BY <1>t, <2>0, <2>2 DEF BridgesTypeOK, ConnectTerminal, Set, InOrder
    <3>4. QED BY <1>t, <2>2, <3>1, <3>2, <3>3, OthersStay DEF BridgesTypeOK, ConnectTerminal, Set
  <2>3. CASE Bridge(c)
    <3>1. BridgesTypeOK' BY <1>t, <2>3 DEF BridgesTypeOK, Bridge, Set, States
    <3>2. NothingWaits(c)' BY <1>t, <2>0, <2>3 DEF BridgesTypeOK, Bridge, Set, NothingWaits
    <3>3. arrived'[c] = <<>> /\ wire'[c] = <<>> /\ unsent'[c] = <<>>
      BY <2>0, <2>3 DEF Bridge, NothingWaits
    <3>4. since'[c] = typed'[c] /\ typed'[c] \in Nat BY <1>t, <2>3 DEF Bridge, Set, BridgesTypeOK
    <3>5. Counted(since'[c], typed'[c] - since'[c]) = <<>> BY <3>4 DEF Counted
    <3>6. InOrder(c)' BY <3>3, <3>5 DEF InOrder
    <3>7. QED BY <1>t, <2>3, <3>1, <3>2, <3>6, OthersStay DEF BridgesTypeOK, Bridge, Set
  <2>4. CASE LookupFails(c)
    <3>1. BridgesTypeOK' BY <1>t, <2>4 DEF BridgesTypeOK, LookupFails, Set, States
    <3>2. NothingWaits(c)' BY <1>t, <2>0, <2>4 DEF BridgesTypeOK, LookupFails, Set, NothingWaits
    <3>3. InOrder(c)' BY <1>t, <2>4 DEF BridgesTypeOK, LookupFails, Set, InOrder
    <3>4. QED BY <1>t, <2>4, <3>1, <3>2, <3>3, OthersStay DEF BridgesTypeOK, LookupFails, Set
  <2>5. CASE ClientSends(c)
    <3> DEFINE n == typed[c] - since[c]
    <3>0. /\ typed[c] \in Nat /\ since[c] \in Nat /\ since[c] <= typed[c] /\ n \in Nat
          /\ since[c] + n + 1 = typed[c] + 1 /\ typed[c] + 1 - since[c] = n + 1
          /\ arrived[c] \in Seq(Nat) /\ wire[c] \in Seq(Nat) /\ unsent[c] \in Seq(Nat)
          /\ upstream[c] \in States
      BY <1>t DEF BridgesTypeOK
    <3>1. CASE ~bridged[c] \/ ~(upstream[c] \in {"connecting", "open"})
      <4>1. BridgesTypeOK'
        BY <1>t, <2>5, <3>1 DEF BridgesTypeOK, ClientSends, Send, Buffers
      <4>2. UNCHANGED <<kind, client, bridged, upstream, arrived, unsent, wire, since>>
        BY <1>t, <2>5, <3>1 DEF BridgesTypeOK, ClientSends, Send
      <4>3. NothingWaits(c)' /\ InOrder(c)' BY <2>0, <3>1, <4>2 DEF NothingWaits, InOrder
      <4>4. QED BY <1>t, <2>5, <4>1, <4>2, <4>3, OthersStay DEF BridgesTypeOK, ClientSends
    <3>2. CASE bridged[c] /\ upstream[c] = "open"
      <4>1. /\ typed' = [typed EXCEPT ![c] = @ + 1]
            /\ wire' = [wire EXCEPT ![c] = Append(@, typed[c] + 1)]
            /\ UNCHANGED <<kind, client, bridged, upstream, arrived, unsent, since>>
        BY <2>5, <3>2 DEF ClientSends, Send
      <4>2. BridgesTypeOK' BY <1>t, <4>1 DEF BridgesTypeOK
      <4>3. NothingWaits(c)' BY <2>0, <3>2, <4>1 DEF NothingWaits
      <4>4. unsent[c] = <<>> BY <2>0, <3>2 DEF NothingWaits
      <4>5. arrived[c] \o wire[c] = Counted(since[c], n)
        <5>1. arrived[c] \o wire[c] \in Seq(Nat) BY <3>0
        <5>2. arrived[c] \o wire[c] \o <<>> = arrived[c] \o wire[c] BY <5>1, NothingBefore
        <5>3. QED BY <2>0, <3>2, <4>4, <5>2 DEF InOrder
      <4>6. wire'[c] = Append(wire[c], since[c] + n + 1) /\ typed'[c] = typed[c] + 1
        BY <1>t, <3>0, <4>1 DEF BridgesTypeOK
      <4>7. arrived[c] \o wire'[c] = Append(arrived[c] \o wire[c], since[c] + n + 1)
        <5>1. since[c] + n + 1 \in Nat BY <3>0
        <5>2. arrived[c] \o Append(wire[c], since[c] + n + 1) = Append(arrived[c] \o wire[c], since[c] + n + 1)
          BY <3>0, <5>1, AppendLater
        <5>3. QED BY <4>6, <5>2
      <4>8. Append(Counted(since[c], n), since[c] + n + 1) = Counted(since[c], n + 1)
        BY <3>0, CountedFurther
      <4>9. arrived[c] \o wire'[c] \o <<>> = arrived[c] \o wire'[c]
        <5>1. arrived[c] \o wire'[c] \in Seq(Nat) BY <3>0, <4>2 DEF BridgesTypeOK
        <5>2. QED BY <5>1, NothingBefore
      <4>n. typed'[c] - since'[c] = n + 1 BY <3>0, <4>1, <4>6
      <4>s. (arrived[c] \o wire'[c]) \o <<>> = Counted(since[c], n + 1)
        BY <4>5, <4>7, <4>8, <4>9
      <4> HIDE DEF n
      <4>r. arrived'[c] \o wire'[c] \o unsent'[c] = Counted(since'[c], typed'[c] - since'[c])
        BY <4>1, <4>4, <4>n, <4>s
      <4>10. InOrder(c)' BY <4>r DEF InOrder
      <4>11. QED BY <1>t, <4>1, <4>2, <4>3, <4>10, OthersStay DEF BridgesTypeOK
    <3>3. CASE bridged[c] /\ upstream[c] = "connecting" /\ kind[c] = "session"
      <4>1. UNCHANGED <<kind, client, bridged, upstream, arrived, unsent, wire, since>>
        BY <1>t, <2>5, <3>3 DEF BridgesTypeOK, ClientSends, Send, Buffers
      <4>2. BridgesTypeOK' BY <1>t, <2>5, <4>1 DEF BridgesTypeOK, ClientSends
      <4>3. NothingWaits(c)' /\ InOrder(c)' BY <2>0, <3>3, <4>1 DEF NothingWaits, InOrder
      <4>4. QED BY <1>t, <2>5, <4>1, <4>2, <4>3, OthersStay DEF BridgesTypeOK, ClientSends
    <3>4. CASE bridged[c] /\ upstream[c] = "connecting" /\ kind[c] = "terminal"
      <4>1. /\ typed' = [typed EXCEPT ![c] = @ + 1]
            /\ unsent' = [unsent EXCEPT ![c] = Append(@, typed[c] + 1)]
            /\ UNCHANGED <<kind, client, bridged, upstream, arrived, wire, since>>
        BY <2>5, <3>4 DEF ClientSends, Send, Buffers
      <4>2. BridgesTypeOK' BY <1>t, <4>1 DEF BridgesTypeOK
      <4>3. NothingWaits(c)' BY <2>0, <3>4, <4>1 DEF NothingWaits
      <4>4. unsent'[c] = Append(unsent[c], since[c] + n + 1) /\ typed'[c] = typed[c] + 1
        BY <1>t, <3>0, <4>1 DEF BridgesTypeOK
      <4>5. (arrived[c] \o wire[c]) \o unsent'[c] = Append((arrived[c] \o wire[c]) \o unsent[c], since[c] + n + 1)
        <5>1. since[c] + n + 1 \in Nat BY <3>0
        <5>2. arrived[c] \o wire[c] \in Seq(Nat) BY <3>0
        <5>3. (arrived[c] \o wire[c]) \o Append(unsent[c], since[c] + n + 1)
                = Append((arrived[c] \o wire[c]) \o unsent[c], since[c] + n + 1)
          BY <3>0, <5>1, <5>2, AppendLater
        <5>4. QED BY <4>4, <5>3
      <4>6. Append(Counted(since[c], n), since[c] + n + 1) = Counted(since[c], n + 1)
        BY <3>0, CountedFurther
      <4>7. arrived[c] \o wire[c] \o unsent[c] = Counted(since[c], n)
        BY <2>0, <3>4 DEF InOrder
      <4>n. typed'[c] - since'[c] = n + 1 BY <3>0, <4>1, <4>4
      <4>s. (arrived[c] \o wire[c]) \o unsent'[c] = Counted(since[c], n + 1)
        BY <4>5, <4>6, <4>7
      <4> HIDE DEF n
      <4>r. arrived'[c] \o wire'[c] \o unsent'[c] = Counted(since'[c], typed'[c] - since'[c])
        BY <4>1, <4>n, <4>s
      <4>8. InOrder(c)' BY <4>r DEF InOrder
      <4>9. QED BY <1>t, <4>1, <4>2, <4>3, <4>8, OthersStay DEF BridgesTypeOK
    <3>5. QED BY <1>t, <3>1, <3>2, <3>3, <3>4 DEF BridgesTypeOK
  <2>6. CASE UpstreamOpens(c)
    <3>1. BridgesTypeOK' BY <1>t, <2>6 DEF BridgesTypeOK, UpstreamOpens, Flush, Set, States
    <3>2. /\ unsent'[c] = <<>> /\ wire'[c] = unsent[c] /\ arrived'[c] = <<>> /\ wire[c] = <<>>
          /\ arrived[c] = <<>> /\ upstream'[c] = "open"
      BY <1>t, <2>0, <2>6 DEF BridgesTypeOK, UpstreamOpens, Flush, Set, NothingWaits
    <3>3. NothingWaits(c)' BY <2>0, <2>6, <3>2 DEF NothingWaits, UpstreamOpens
    <3>4. unsent[c] \in Seq(Nat) BY <1>t DEF BridgesTypeOK
    <3>5. ASSUME kind[c] = "session" PROVE InOrder(c)'
      <4>1. since'[c] = typed'[c] /\ typed'[c] \in Nat BY <1>t, <2>6, <3>5 DEF UpstreamOpens, Set, BridgesTypeOK
      <4>2. Counted(since'[c], typed'[c] - since'[c]) = <<>> BY <4>1 DEF Counted
      <4>3. unsent[c] = <<>> BY <2>0, <2>6, <3>5 DEF NothingWaits, UpstreamOpens
      <4>a. arrived'[c] \o wire'[c] \o unsent'[c] = <<>>
        <5>1. (<<>> \o <<>>) \o <<>> = <<>> OBVIOUS
        <5>2. QED BY <3>2, <4>3, <5>1
      <4>4. QED BY <4>2, <4>a DEF InOrder
    <3>6. ASSUME kind[c] = "terminal" PROVE InOrder(c)'
      <4>1. since' = since /\ typed' = typed /\ bridged' = bridged BY <2>6, <3>6 DEF UpstreamOpens
      <4>2. bridged[c] => arrived[c] \o wire[c] \o unsent[c] = Counted(since[c], typed[c] - since[c])
        BY <2>0, <2>6, <3>6 DEF InOrder, UpstreamOpens
      <4>3. (<<>> \o <<>>) \o unsent[c] = (<<>> \o unsent[c]) \o <<>> BY <3>4
      <4>a. arrived'[c] \o wire'[c] \o unsent'[c] = arrived[c] \o wire[c] \o unsent[c]
        BY <3>2, <4>3
      <4>4. QED BY <4>1, <4>2, <4>a DEF InOrder
    <3>7. kind[c] \in {"session", "terminal"} BY <1>t DEF BridgesTypeOK
    <3>9. InOrder(c)' BY <3>5, <3>6, <3>7
    <3>8. QED BY <1>t, <2>6, <3>1, <3>3, <3>9, OthersStay DEF BridgesTypeOK, UpstreamOpens, Flush, Set
  <2>7. CASE Arrives(c)
    <3>1. /\ arrived[c] \in Seq(Nat) /\ wire[c] \in Seq(Nat) /\ wire[c] # <<>>
          /\ arrived'[c] = Append(arrived[c], Head(wire[c])) /\ wire'[c] = Tail(wire[c])
      BY <1>t, <2>7 DEF BridgesTypeOK, Arrives
    <3>2. Append(arrived[c], Head(wire[c])) \o Tail(wire[c]) = arrived[c] \o wire[c]
      BY <3>1, PassHead
    <3>3. Head(wire[c]) \in Nat /\ Tail(wire[c]) \in Seq(Nat) BY <3>1
    <3>4. BridgesTypeOK' BY <1>t, <2>7, <3>3 DEF BridgesTypeOK, Arrives
    <3>5. NothingWaits(c)' BY <2>0, <2>7 DEF NothingWaits, Arrives
    <3>6. InOrder(c)' BY <2>0, <2>7, <3>1, <3>2 DEF InOrder, Arrives
    <3>7. QED BY <1>t, <2>7, <3>4, <3>5, <3>6, OthersStay DEF BridgesTypeOK, Arrives
  <2>8. CASE ClientCloses(c)
    <3>1. BridgesTypeOK' BY <1>t, <2>8 DEF BridgesTypeOK, ClientCloses, PassOnClose, Closing, Set, States
    <3>2. (upstream'[c] = upstream[c] /\ ~bridged[c]) \/ upstream'[c] \in {"none", "closing", "closed"}
      BY <1>t, <2>8 DEF BridgesTypeOK, ClientCloses, PassOnClose, Closing, Set, States
    <3>3. NothingWaits(c)'
      BY <1>t, <2>0, <2>8 DEF BridgesTypeOK, ClientCloses, PassOnClose, Closing, Set, States, NothingWaits
    <3>4. InOrder(c)' BY <2>8, <3>2 DEF InOrder, ClientCloses
    <3>5. QED BY <1>t, <2>8, <3>1, <3>3, <3>4, OthersStay DEF BridgesTypeOK, ClientCloses, PassOnClose, Set
  <2>9. CASE UpstreamCloses(c)
    <3>1. BridgesTypeOK' BY <1>t, <2>9 DEF BridgesTypeOK, UpstreamCloses, Set, States
    <3>2. NothingWaits(c)' BY <1>t, <2>0, <2>9 DEF BridgesTypeOK, UpstreamCloses, Set, NothingWaits
    <3>3. InOrder(c)' BY <1>t, <2>9 DEF BridgesTypeOK, UpstreamCloses, Set, InOrder
    <3>4. QED BY <1>t, <2>9, <3>1, <3>2, <3>3, OthersStay DEF BridgesTypeOK, UpstreamCloses, Set
  <2>10. QED BY <2>1, <2>2, <2>3, <2>4, <2>5, <2>6, <2>7, <2>8, <2>9
<1>3. QED BY <1>1, <1>2

LEMMA InvArrives == BridgesInv => InputArrives
BY DEF BridgesInv, InOrder, Counted, InputArrives

------------------------------------------------------------------------------
(* Replacements and reloads *)

Phases == {"none", "naming", "named", "replacing", "reloading"}

CommandsTypeOK ==
  /\ exclusive \in (SUBSET Asks) /\ inTree \in BOOLEAN
  /\ DOMAIN ask = Asks
  /\ \A r \in Asks : ask[r].phase \in Phases /\ DOMAIN ask[r] = {"phase", "kind", "asked", "name"}

\* The gate is held by the replacement or reload that is under way, and by no other request.
GateIsHeld == \A r \in Asks : r \in exclusive <=> ask[r].phase \in {"replacing", "reloading"}

\* There is at most one, and no tree navigation with it.
GateIsOnes ==
  /\ \A r, s \in exclusive : r = s
  /\ exclusive # {} => ~inTree

CommandsInv == CommandsTypeOK /\ GateIsHeld /\ GateIsOnes

LEMMA CommandsBegin == CommandsInit => CommandsInv
<1> SUFFICES ASSUME CommandsInit PROVE CommandsInv OBVIOUS
<1>1. \A r \in Asks : ask[r] = NoAsk BY DEF CommandsInit
<1>2. NoAsk.phase = "none" /\ DOMAIN NoAsk = {"phase", "kind", "asked", "name"} BY DEF NoAsk
<1>3. exclusive = {} /\ inTree = FALSE /\ DOMAIN ask = Asks BY DEF CommandsInit
<1>4. QED BY <1>1, <1>2, <1>3 DEF CommandsInv, CommandsTypeOK, GateIsHeld, GateIsOnes, Phases

LEMMA GateTaken ==
  ASSUME CommandsInv, NEW r \in Asks, ask[r].phase \in {"none", "naming", "named"},
         ~Occupied, TakesGate(r), UNCHANGED inTree,
         NEW phase \in {"replacing", "reloading"}, NEW what \in {"fork", "clone", "import", "reload", "none"},
         NEW a, NEW n,
         ask' = [ask EXCEPT ![r] = [phase |-> phase, kind |-> what, asked |-> a, name |-> n]]
  PROVE  CommandsInv'
BY DEF CommandsInv, CommandsTypeOK, GateIsHeld, GateIsOnes, Occupied, TakesGate, Phases

LEMMA GateLeft ==
  ASSUME CommandsInv, NEW r \in Asks, LeavesGate(r), Ends(r), UNCHANGED inTree
  PROVE  CommandsInv'
BY DEF CommandsInv, CommandsTypeOK, GateIsHeld, GateIsOnes, LeavesGate, Ends, NoAsk, Phases

LEMMA GateLeftAlone ==
  ASSUME CommandsInv, UNCHANGED <<exclusive, ask>>, inTree' \in BOOLEAN,
         inTree' # inTree => inTree \/ exclusive = {}
  PROVE  CommandsInv'
BY DEF CommandsInv, CommandsTypeOK, GateIsHeld, GateIsOnes

LEMMA CommandsStep == CommandsInv /\ [CommandsNext]_commandVars => CommandsInv'
<1> SUFFICES ASSUME CommandsInv, [CommandsNext]_commandVars PROVE CommandsInv' OBVIOUS
<1>t. CommandsTypeOK BY DEF CommandsInv
<1>1. CASE UNCHANGED commandVars
  BY <1>1, <1>t, GateLeftAlone DEF commandVars, CommandsTypeOK
<1>2. ASSUME NEW r \in Asks,
             \/ \E what \in {"fork", "clone"} : Run(r, what)
             \/ RunForkSelect(r) \/ RespondSelect(r)
             \/ \E fails \in BOOLEAN : LookUpNames(r, fails)
             \/ Import(r) \/ BeginReplacement(r) \/ ReplacementCancelled(r) \/ EndReplacement(r)
             \/ BeginReload(r) \/ EndReload(r)
      PROVE CommandsInv'
  <2>1. ASSUME NEW what \in {"fork", "clone"}, Run(r, what) PROVE CommandsInv'
    BY <2>1 DEF Run, CommandsInv, CommandsTypeOK, GateIsHeld, GateIsOnes, NoAsk, Phases
  <2>2. CASE RunForkSelect(r)
    BY <2>2, <1>t, GateLeftAlone DEF RunForkSelect, CommandsTypeOK
  <2>3. CASE RespondSelect(r)
    BY <2>3 DEF RespondSelect, CommandsInv, CommandsTypeOK, GateIsHeld, GateIsOnes, NoAsk, Phases
  <2>4. ASSUME NEW fails \in BOOLEAN, LookUpNames(r, fails) PROVE CommandsInv'
    <3> DEFINE name == [kind |-> ask[r].kind, n |-> IF fails THEN 1 ELSE FreeName(ask[r].kind)]
    <3>1. ask' = [ask EXCEPT ![r].phase = "named", ![r].name = name] BY <2>4 DEF LookUpNames
    <3>2. ask[r].phase = "naming" /\ UNCHANGED <<exclusive, inTree>> BY <2>4 DEF LookUpNames
    <3> HIDE DEF name
    <3>3. QED BY <3>1, <3>2 DEF CommandsInv, CommandsTypeOK, GateIsHeld, GateIsOnes, Phases
  <2>5. CASE Import(r)
    <3>1. ask[r].phase = "none" BY <2>5 DEF Import, NoAsk
    <3>2. ask' = [ask EXCEPT ![r] = [phase |-> "replacing", kind |-> "import", asked |-> held, name |-> Unnamed]]
          /\ ~Occupied /\ TakesGate(r) /\ UNCHANGED inTree
      BY <2>5 DEF Import
    <3>3. QED BY <3>1, <3>2, GateTaken
  <2>6. CASE BeginReplacement(r)
    <3>1. CASE GateIsFree(r)
      BY <2>6, <3>1 DEF BeginReplacement, GateIsFree, Goes, CommandsInv, CommandsTypeOK, GateIsHeld,
                        GateIsOnes, Occupied, TakesGate, Phases
    <3>2. CASE ~GateIsFree(r)
      BY <2>6, <3>2 DEF BeginReplacement, Ends, CommandsInv, CommandsTypeOK, GateIsHeld, GateIsOnes,
                        NoAsk, Phases
    <3>3. QED BY <3>1, <3>2
  <2>7. CASE ReplacementCancelled(r) BY <2>7, GateLeft DEF ReplacementCancelled
  <2>8. CASE EndReplacement(r) BY <2>8, GateLeft DEF EndReplacement
  <2>9. CASE BeginReload(r)
    <3>1. ask[r].phase = "none" BY <2>9 DEF BeginReload, NoAsk
    <3>2. ask' = [ask EXCEPT ![r] = [phase |-> "reloading", kind |-> "reload", asked |-> held, name |-> Unnamed]]
          /\ ~Occupied /\ TakesGate(r) /\ UNCHANGED inTree
      BY <2>9 DEF BeginReload
    <3>3. QED BY <3>1, <3>2, GateTaken
  <2>10. CASE EndReload(r) BY <2>10, GateLeft DEF EndReload
  <2>11. QED BY <1>2, <2>1, <2>2, <2>3, <2>4, <2>5, <2>6, <2>7, <2>8, <2>9, <2>10
<1>3. CASE BeginCompaction BY <1>3, <1>t, GateLeftAlone DEF BeginCompaction, CommandsTypeOK
<1>4. ASSUME NEW s \in SessionIds, EndCompaction(s) PROVE CommandsInv'
  BY <1>4, <1>t, GateLeftAlone DEF EndCompaction, CommandsTypeOK
<1>5. CASE BeginTurn \/ EndTurn
  BY <1>5, <1>t, GateLeftAlone DEF BeginTurn, EndTurn, CommandsTypeOK
<1>6. CASE Navigate
  BY <1>6, <1>t, GateLeftAlone DEF Navigate, Occupied, CommandsTypeOK
<1>7. QED BY <1>1, <1>2, <1>3, <1>4, <1>5, <1>6 DEF CommandsNext

LEMMA OneIsCounted ==
  ASSUME NEW S, \A x, y \in S : x = y
  PROVE  Cardinality(S) <= 1
<1>1. CASE S = {} BY <1>1, FS_EmptySet
<1>2. ASSUME NEW x \in S PROVE Cardinality(S) <= 1
  <2>1. S = {x} BY <1>2
  <2>2. QED BY <2>1, FS_Singleton
<1>3. QED BY <1>1, <1>2

LEMMA InvAlone == CommandsInv => ReplacementsAreAlone
BY OneIsCounted DEF CommandsInv, GateIsOnes, ReplacementsAreAlone

------------------------------------------------------------------------------
(* Induction, and what a fold is *)

Smaller == OpToRel(<, Nat)

LEMMA SmallerIs == \A m, n \in Nat : <<m, n>> \in Smaller <=> m < n
BY DEF Smaller, OpToRel

\* A set of numbers has a least one.
LEMMA LeastExists ==
  ASSUME NEW S \in SUBSET Nat, S # {}
  PROVE  \E n \in S : \A m \in S : n <= m
<1>1. IsWellFoundedOn(Smaller, Nat) BY NatLessThanWellFounded DEF Smaller
<1>2. \E n \in S : \A m \in S : ~(<<m, n>> \in Smaller) BY <1>1, WFMin
<1>3. \A m, n \in S : ~(<<m, n>> \in Smaller) => n <= m BY SmallerIs
<1> QED BY <1>2, <1>3

\* Induction, over a set in place of a predicate
LEMMA Inductive ==
  ASSUME NEW S, 0 \in S, \A n \in Nat : n \in S => n + 1 \in S
  PROVE  Nat \subseteq S
<1> SUFFICES ASSUME Nat \ S # {} PROVE FALSE OBVIOUS
<1>1. PICK n \in Nat \ S : \A m \in Nat \ S : n <= m BY LeastExists
<1>2. n # 0 /\ n - 1 \in Nat /\ n - 1 \notin Nat \ S BY <1>1
<1> QED BY <1>2

LEMMA MaxOfUpTo ==
  ASSUME NEW n \in Nat, NEW z \in SUBSET (1 .. n + 1), n + 1 \in z
  PROVE  Max(z) = n + 1
<1>1. \A y \in z : n + 1 >= y OBVIOUS
<1>2. ASSUME NEW x \in z, \A y \in z : x >= y PROVE x = n + 1 BY <1>2
<1> QED BY <1>1, <1>2 DEF Max

LEMMA MaxIsThere ==
  ASSUME NEW n \in Nat, NEW z \in SUBSET (1 .. n), z # {}
  PROVE  Max(z) \in z /\ \A y \in z : y <= Max(z)
<1> DEFINE below == {n - y : y \in z}
<1>1. PICK b \in below : \A c \in below : b <= c
  <2>1. \A y \in z : n - y \in Nat OBVIOUS
  <2>2. below \in SUBSET Nat /\ below # {} BY <2>1
  <2> HIDE DEF below
  <2> QED BY <2>2, LeastExists
<1>2. PICK x \in z : b = n - x BY <1>1
<1>3. \A y \in z : x >= y
  <2> SUFFICES ASSUME NEW y \in z PROVE x >= y OBVIOUS
  <2>1. n - y \in below OBVIOUS
  <2>2. n - x <= n - y BY <1>1, <1>2, <2>1
  <2> QED BY <2>2
<1> QED BY <1>3 DEF Max

\* What FoldLeft computes is there: a value for each set of the indices.
FoldOf(g, n, base, step) ==
  \A z \in SUBSET (1 .. n) : g[z] = IF z = {} THEN base ELSE step[<<g[z \ {Max(z)}], Max(z)>>]

LEMMA FoldExists ==
  ASSUME NEW S, NEW base \in S, NEW n \in Nat, NEW step \in [S \X (1 .. n) -> S]
  PROVE  \E g \in [SUBSET (1 .. n) -> S] : FoldOf(g, n, base, step)
<1> DEFINE Exists(m) == m <= n => \E g \in [SUBSET (1 .. m) -> S] : FoldOf(g, m, base, step)
<1> DEFINE Reached == {m \in Nat : Exists(m)}
<1>1. Exists(0)
  <2> DEFINE g == [z \in SUBSET (1 .. 0) |-> base]
  <2>1. g \in [SUBSET (1 .. 0) -> S] OBVIOUS
  <2>2. \A z \in SUBSET (1 .. 0) : z = {} OBVIOUS
  <2>3. FoldOf(g, 0, base, step) BY <2>2 DEF FoldOf
  <2> QED BY <2>1, <2>3
<1>2. ASSUME NEW m \in Nat, Exists(m) PROVE Exists(m + 1)
  <2> SUFFICES ASSUME m + 1 <= n PROVE \E g \in [SUBSET (1 .. m + 1) -> S] : FoldOf(g, m + 1, base, step)
    OBVIOUS
  <2>1. PICK g \in [SUBSET (1 .. m) -> S] : FoldOf(g, m, base, step)
    <3>1. m <= n OBVIOUS
    <3> QED BY <1>2, <3>1
  <2> DEFINE h == [z \in SUBSET (1 .. m + 1) |->
                     IF m + 1 \in z THEN step[<<g[z \ {m + 1}], m + 1>>] ELSE g[z]]
  <2>2. ASSUME NEW z \in SUBSET (1 .. m + 1)
        PROVE  /\ z \ {m + 1} \in SUBSET (1 .. m)
               /\ m + 1 \notin z => z \in SUBSET (1 .. m)
    OBVIOUS
  <2>3. h \in [SUBSET (1 .. m + 1) -> S]
    <3>1. ASSUME NEW z \in SUBSET (1 .. m + 1) PROVE h[z] \in S
      <4>1. g[z \ {m + 1}] \in S BY <2>2
      <4>2. m + 1 \in 1 .. n OBVIOUS
      <4>3. step[<<g[z \ {m + 1}], m + 1>>] \in S BY <4>1, <4>2
      <4>4. m + 1 \notin z => g[z] \in S BY <2>2
      <4> QED BY <4>3, <4>4
    <3> QED BY <3>1
  <2>4. ASSUME NEW z \in SUBSET (1 .. m + 1)
        PROVE  h[z] = IF z = {} THEN base ELSE step[<<h[z \ {Max(z)}], Max(z)>>]
    <3>1. CASE m + 1 \in z
      <4>1. Max(z) = m + 1 BY <3>1, MaxOfUpTo
      <4>2. h[z \ {m + 1}] = g[z \ {m + 1}] BY <2>2
      <4>3. h[z] = step[<<g[z \ {m + 1}], m + 1>>] BY <3>1
      <4> QED BY <3>1, <4>1, <4>2, <4>3
    <3>2. CASE m + 1 \notin z
      <4>1. z \in SUBSET (1 .. m) BY <2>2, <3>2
      <4>2. g[z] = IF z = {} THEN base ELSE step[<<g[z \ {Max(z)}], Max(z)>>] BY <4>1, <2>1 DEF FoldOf
      <4>3. h[z] = g[z] BY <3>2
      <4>4. h[z \ {Max(z)}] = g[z \ {Max(z)}] BY <3>2
      <4> HIDE DEF h
      <4> QED BY <4>2, <4>3, <4>4
    <3> QED BY <3>1, <3>2
  <2>5. FoldOf(h, m + 1, base, step)
    <3> HIDE DEF h
    <3> QED BY <2>4 DEF FoldOf
  <2> QED BY <2>3, <2>5
<1>3. n \in Reached
  <2> HIDE DEF Exists
  <2>1. 0 \in Reached /\ \A m \in Nat : m \in Reached => m + 1 \in Reached BY <1>1, <1>2
  <2> HIDE DEF Reached
  <2> QED BY <2>1, Inductive
<1>4. Exists(n)
  <2> HIDE DEF Exists
  <2> QED BY <1>3
<1>5. n <= n OBVIOUS
<1> QED BY <1>4, <1>5

\* The prefixes of a sequence are the sets that FoldLeft comes along.
LEMMA AlongPrefixes ==
  ASSUME NEW n \in Nat, NEW i \in 1 .. n
  PROVE  1 .. i \in SUBSET (1 .. n) /\ 1 .. i # {} /\ Max(1 .. i) = i /\ (1 .. i) \ {i} = 1 .. i - 1
<1>1. i - 1 \in Nat /\ 1 .. i \in SUBSET (1 .. (i - 1) + 1) /\ (i - 1) + 1 \in 1 .. i OBVIOUS
<1>2. Max(1 .. i) = (i - 1) + 1 BY <1>1, MaxOfUpTo
<1>3. (1 .. i) \ {i} = 1 .. i - 1 OBVIOUS
<1>4. i \in 1 .. i /\ 1 .. i \in SUBSET (1 .. n) OBVIOUS
<1> QED BY <1>2, <1>3, <1>4

------------------------------------------------------------------------------
(* Frames through the pipe *)

LEMMA TimesGrows ==
  ASSUME NEW i \in Nat, NEW j \in Nat, NEW b \in Nat, i <= j
  PROVE  i * b \in Nat /\ i * b <= j * b /\ (i + 1) * b = i * b + b
OBVIOUS

LEMMA CeilIs ==
  ASSUME NEW a \in Nat, NEW b \in Nat \ {0}
  PROVE  /\ Ceil(a, b) \in Nat /\ a <= Ceil(a, b) * b /\ Ceil(a, b) * b < a + b
<1>1. PICK n \in Nat : n = a + b - 1 OBVIOUS
<1>2. (n \div b) * b <= n /\ n < (n \div b) * b + b OBVIOUS
<1>3. n \div b \in Nat OBVIOUS
<1>4. Ceil(a, b) = n \div b BY <1>1 DEF Ceil
<1>5. PICK q \in Nat : q = n \div b BY <1>3
<1>6. PICK m \in Nat : m = q * b OBVIOUS
<1>7. m <= n /\ n < m + b BY <1>2, <1>5, <1>6
<1>8. a <= m /\ m < a + b BY <1>1, <1>7
<1> QED BY <1>4, <1>5, <1>6, <1>8

Frames == [id : Nat, length : Nat \ {0}]
CountOf(frame) == IF frame.length + 1 <= MaxFrame THEN 1 ELSE ChunkCount(frame.length)
LineOf(frame, i) ==
  [frame |-> frame, index |-> i - 1, count |-> CountOf(frame),
   from |-> IF CountOf(frame) = 1 THEN 0 ELSE (i - 1) * ChunkBytes,
   to |-> IF CountOf(frame) = 1 THEN frame.length ELSE Least(i * ChunkBytes, frame.length)]

\* The chunks before the last are full, and together they are the frame.
LEMMA ChunksFit ==
  ASSUME NEW frame \in Frames, frame.length + 1 > MaxFrame
  PROVE  /\ CountOf(frame) \in Nat /\ CountOf(frame) >= 2
         /\ \A i \in 1 .. CountOf(frame) : (i - 1) * ChunkBytes \in Nat /\ (i - 1) * ChunkBytes < frame.length
         /\ CountOf(frame) * ChunkBytes \in Nat /\ CountOf(frame) * ChunkBytes >= frame.length
         /\ frame.length <= MaxWhole => CountOf(frame) <= Ceil(MaxWhole, ChunkBytes)
<1>1. PICK n \in Nat : n = frame.length BY DEF Frames
<1>2. PICK b \in Nat \ {0} : b = ChunkBytes BY FramingAssumption
<1>3. n >= MaxFrame /\ b + 2 <= MaxFrame /\ MaxFrame \in Nat BY <1>1, <1>2, FramingAssumption
<1>4. PICK c \in Nat : c = Ceil(n, b) BY CeilIs
<1>5. n <= c * b /\ c * b < n + b /\ c * b \in Nat
  <2>1. n <= Ceil(n, b) * b /\ Ceil(n, b) * b < n + b BY CeilIs
  <2>2. c * b \in Nat OBVIOUS
  <2> QED BY <1>4, <2>1, <2>2
<1>6. CountOf(frame) = c BY <1>1, <1>2, <1>3, <1>4 DEF CountOf, ChunkCount
<1>7. c >= 2
  <2> SUFFICES ASSUME c <= 1 PROVE FALSE OBVIOUS
  <2>1. c * b <= 1 * b BY TimesGrows
  <2>2. c * b <= b BY <2>1
  <2> QED BY <1>3, <1>5, <2>2
<1>8. ASSUME NEW i \in 1 .. c PROVE (i - 1) * b \in Nat /\ (i - 1) * b < n
  <2>1. PICK j \in Nat : j = i - 1 BY <1>8
  <2>2. j + 1 <= c BY <1>8, <2>1
  <2>3. (j + 1) * b <= c * b /\ (j + 1) * b = j * b + b /\ j * b \in Nat BY <2>2, TimesGrows
  <2>4. PICK m \in Nat : m = j * b BY <2>3
  <2>5. m + b <= c * b BY <2>3, <2>4
  <2>6. m + b < n + b BY <1>5, <2>5
  <2> QED BY <2>1, <2>4, <2>6
<1>9. n <= MaxWhole => c <= Ceil(MaxWhole, b)
  <2> SUFFICES ASSUME n <= MaxWhole PROVE c <= Ceil(MaxWhole, b) OBVIOUS
  <2>1. PICK w \in Nat : w = MaxWhole BY FramingAssumption
  <2>2. PICK d \in Nat : d = Ceil(w, b) BY CeilIs
  <2>3. w <= d * b BY <2>2, CeilIs
  <2>4. CASE c <= d BY <2>1, <2>2, <2>4
  <2>5. CASE d + 1 <= c
    <3>1. (d + 1) * b <= c * b /\ (d + 1) * b = d * b + b /\ d * b \in Nat BY <2>5, TimesGrows
    <3>2. d * b + b < n + b BY <1>5, <3>1
    <3>3. d * b < n BY <3>1, <3>2
    <3> QED BY <2>1, <2>3, <3>1, <3>3
  <2> QED BY <2>4, <2>5
<1> QED BY <1>1, <1>2, <1>5, <1>6, <1>7, <1>8, <1>9

\* A line has at least two bytes, and no more than a line may have.
LEMMA LineIs ==
  ASSUME NEW frame \in Frames, NEW i \in 1 .. CountOf(frame), CountOf(frame) \in Nat
  PROVE  /\ LineOf(frame, i).frame = frame /\ LineOf(frame, i).index = i - 1 /\ LineOf(frame, i).count = CountOf(frame)
         /\ LineOf(frame, i).from \in Nat /\ LineOf(frame, i).to \in Nat
         /\ SizeOf(LineOf(frame, i)) \in Nat /\ SizeOf(LineOf(frame, i)) >= 2 /\ SizeOf(LineOf(frame, i)) <= MaxFrame
<1>1. PICK l : l = LineOf(frame, i) OBVIOUS
<1>2. l.frame = frame /\ l.index = i - 1 /\ l.count = CountOf(frame) BY <1>1 DEF LineOf
<1>3. frame.length \in Nat \ {0} BY DEF Frames
<1>4. CASE CountOf(frame) = 1
  <2>1. l.from = 0 /\ l.to = frame.length BY <1>1, <1>4 DEF LineOf
  <2>2. frame.length + 1 <= MaxFrame BY <1>3, <1>4, ChunksFit, FramingAssumption
  <2>3. SizeOf(l) = l.to - l.from + 1 BY <1>2, <1>4 DEF SizeOf
  <2>4. SizeOf(l) = frame.length + 1 BY <1>3, <2>1, <2>3
  <2> QED BY <1>1, <1>2, <1>3, <2>1, <2>2, <2>4
<1>5. CASE CountOf(frame) # 1
  <2>1. frame.length + 1 > MaxFrame BY <1>3, <1>5, FramingAssumption DEF CountOf
  <2>2. (i - 1) * ChunkBytes \in Nat /\ (i - 1) * ChunkBytes < frame.length BY <2>1, ChunksFit
  <2>3. PICK j \in Nat : j = i - 1 OBVIOUS
  <2>4. PICK b \in Nat \ {0} : b = ChunkBytes /\ b + 2 <= MaxFrame BY FramingAssumption
  <2>5. (j + 1) * b = j * b + b /\ j * b \in Nat BY TimesGrows
  <2>6. PICK m \in Nat : m = j * b BY <2>5
  <2>7. l.from = m /\ l.to = Least(m + b, frame.length) /\ m < frame.length
    <3>1. i = j + 1 BY <2>3
    <3> QED BY <1>1, <1>5, <2>2, <2>3, <2>4, <2>5, <2>6, <3>1 DEF LineOf
  <2>8. l.to \in Nat /\ l.to > m /\ l.to <= m + b BY <1>3, <2>7 DEF Least
  <2>9. SizeOf(l) = l.to - l.from + 2 BY <1>2, <1>5 DEF SizeOf
  <2> QED BY <1>1, <1>2, <2>4, <2>7, <2>8, <2>9, FramingAssumption
<1> QED BY <1>4, <1>5

LEMMA CountIs ==
  ASSUME NEW frame \in Frames
  PROVE  CountOf(frame) \in Nat /\ CountOf(frame) >= 1
<1>1. frame.length \in Nat BY DEF Frames
<1>2. CASE frame.length + 1 <= MaxFrame BY <1>2 DEF CountOf
<1>3. CASE frame.length + 1 > MaxFrame BY <1>3, ChunksFit
<1> QED BY <1>1, <1>2, <1>3, FramingAssumption

LEMMA EncodeIs ==
  ASSUME NEW frame \in Frames
  PROVE  Encode(frame) = [i \in 1 .. CountOf(frame) |-> LineOf(frame, i)]
<1>1. frame.length \in Nat BY DEF Frames
<1> QED BY <1>1 DEF Encode, LineOf, CountOf

Sums(f, chunks) ==
  f = [z \in SUBSET (DOMAIN chunks) |->
         IF z = {} THEN 0 ELSE f[z \ {Max(z)}] + (chunks[Max(z)].to - chunks[Max(z)].from)]

\* Joined is the value of some function that adds up.
LEMMA JoinedIsFold ==
  ASSUME NEW chunks, NEW n \in Nat, DOMAIN chunks = 1 .. n, \A i \in 1 .. n : chunks[i].to \in Nat /\ chunks[i].from \in Nat
  PROVE  \E f : Sums(f, chunks) /\ Joined(chunks) = f[1 .. n]
<1> DEFINE step == [p \in Int \X (1 .. n) |-> p[1] + (chunks[p[2]].to - chunks[p[2]].from)]
<1>1. step \in [Int \X (1 .. n) -> Int] OBVIOUS
<1>2. PICK g \in [SUBSET (1 .. n) -> Int] : FoldOf(g, n, 0, step)
  <2>1. PICK Z : Z = Int OBVIOUS
  <2>2. 0 \in Z /\ step \in [Z \X (1 .. n) -> Z]
    <3> HIDE DEF step
    <3> QED BY <1>1, <2>1
  <2> HIDE DEF step
  <2>3. \E g \in [SUBSET (1 .. n) -> Z] : FoldOf(g, n, 0, step) BY <2>2, FoldExists
  <2> QED BY <2>1, <2>3
<1>3. ASSUME NEW z \in SUBSET (1 .. n), z # {} PROVE Max(z) \in 1 .. n /\ g[z \ {Max(z)}] \in Int
  <2>1. Max(z) \in 1 .. n BY <1>3, MaxIsThere
  <2> QED BY <1>2, <2>1
<1>4. Sums(g, chunks)
  <2>1. ASSUME NEW z \in SUBSET (1 .. n)
        PROVE  g[z] = IF z = {} THEN 0 ELSE g[z \ {Max(z)}] + (chunks[Max(z)].to - chunks[Max(z)].from)
    <3>1. g[z] = IF z = {} THEN 0 ELSE step[<<g[z \ {Max(z)}], Max(z)>>]
      <4> HIDE DEF step
      <4> QED BY <1>2 DEF FoldOf
    <3> QED BY <3>1, <1>3
  <2> HIDE DEF step
  <2> QED BY <2>1, <1>2 DEF Sums
<1>5. Joined(chunks) = (CHOOSE f : Sums(f, chunks))[DOMAIN chunks]
  BY DEF Joined, FoldLeft, MapThenFoldSet, Sums
<1> QED BY <1>4, <1>5

\* The chunks of a frame add up to it.
LEMMA JoinedIsFrame ==
  ASSUME NEW frame \in Frames, CountOf(frame) # 1
  PROVE  Joined([i \in 1 .. CountOf(frame) |-> LineOf(frame, i)]) = frame.length
<1>1. PICK c \in Nat : c = CountOf(frame) /\ c >= 1 BY CountIs
<1>2. PICK chunks : chunks = [i \in 1 .. c |-> LineOf(frame, i)] OBVIOUS
<1>3. DOMAIN chunks = 1 .. c /\ \A i \in 1 .. c : chunks[i] = LineOf(frame, i) BY <1>2
<1>4. \A i \in 1 .. c : chunks[i].to \in Nat /\ chunks[i].from \in Nat BY <1>1, <1>3, LineIs
<1>5. PICK f : Sums(f, chunks) /\ Joined(chunks) = f[1 .. c] BY <1>1, <1>3, <1>4, JoinedIsFold
<1>6. frame.length \in Nat /\ frame.length + 1 > MaxFrame BY <1>1, FramingAssumption DEF Frames, CountOf
<1>7. PICK b \in Nat : b = ChunkBytes BY FramingAssumption
<1>8. /\ \A i \in 1 .. c : (i - 1) * b \in Nat /\ (i - 1) * b < frame.length
      /\ c * b \in Nat /\ c * b >= frame.length
  BY <1>1, <1>6, <1>7, ChunksFit
<1>9. ASSUME NEW i \in 1 .. c PROVE chunks[i].from = (i - 1) * b /\ chunks[i].to = Least(i * b, frame.length)
  BY <1>1, <1>3, <1>7 DEF LineOf
<1> DEFINE So(i) == i <= c => f[1 .. i] = Least(i * b, frame.length)
           All == {i \in Nat : So(i)}
<1>10. So(0)
  <2>1. 1 .. 0 = {} /\ 1 .. 0 \in SUBSET (1 .. c) OBVIOUS
  <2>2. f[1 .. 0] = 0 BY <1>3, <1>5, <2>1 DEF Sums
  <2>3. 0 * b = 0 BY <1>7
  <2>4. Least(0, frame.length) = 0 BY <1>6 DEF Least
  <2> QED BY <2>2, <2>3, <2>4
<1>11. ASSUME NEW i \in Nat, So(i) PROVE So(i + 1)
  <2> SUFFICES ASSUME i + 1 <= c PROVE f[1 .. i + 1] = Least((i + 1) * b, frame.length) OBVIOUS
  <2>1. i + 1 \in 1 .. c /\ i <= c /\ (i + 1) - 1 = i BY <1>1
  <2>2. /\ 1 .. i + 1 \in SUBSET (1 .. c) /\ 1 .. i + 1 # {}
        /\ Max(1 .. i + 1) = i + 1 /\ (1 .. i + 1) \ {i + 1} = 1 .. i
    BY <2>1, <1>1, AlongPrefixes
  <2>3. f[1 .. i + 1] = f[1 .. i] + (chunks[i + 1].to - chunks[i + 1].from)
    BY <1>3, <1>5, <2>2 DEF Sums
  <2>4. PICK m \in Nat : m = i * b /\ m < frame.length BY <1>8, <2>1
  <2>5. f[1 .. i] = m BY <1>6, <1>11, <2>1, <2>4 DEF Least
  <2>6. chunks[i + 1].from = m BY <1>9, <2>1, <2>4
  <2>7. chunks[i + 1].to \in Nat /\ chunks[i + 1].to = Least((i + 1) * b, frame.length) BY <1>4, <1>9, <2>1
  <2> QED BY <2>3, <2>5, <2>6, <2>7
<1>12. c \in All
  <2> HIDE DEF So
  <2>1. 0 \in All /\ \A i \in Nat : i \in All => i + 1 \in All BY <1>10, <1>11
  <2> HIDE DEF All
  <2> QED BY <1>1, <2>1, Inductive
<1>13. f[1 .. c] = Least(c * b, frame.length) BY <1>1, <1>12
<1>14. Least(c * b, frame.length) = frame.length BY <1>6, <1>8 DEF Least
<1> QED BY <1>1, <1>2, <1>5, <1>13, <1>14

\* A place in what is written: the frame, the lines of it that come before, and the byte of the line
Spots == (Nat \ {0}) \X Nat \X (Nat \ {0})
LineAt(S, p) == LineOf(S[p[1]], p[2] + 1)
ByteAt(S, p) == [line |-> LineAt(S, p), at |-> p[3]]
IsSpot(S, p) == p[1] \in 1 .. Len(S) /\ p[2] + 1 \in 1 .. CountOf(S[p[1]]) /\ p[3] \in 1 .. SizeOf(LineAt(S, p))
NextSpot(S, p) ==
  IF p[3] < SizeOf(LineAt(S, p)) THEN <<p[1], p[2], p[3] + 1>>
  ELSE IF p[2] + 1 < CountOf(S[p[1]]) THEN <<p[1], p[2] + 1, 1>> ELSE <<p[1] + 1, 0, 1>>

Accepted(S) ==
  S \in Seq(Frames) /\ \A i \in 1 .. Len(S) : S[i].id = i /\ (S[i].length + 1 <= MaxFrame \/ S[i].length <= MaxWhole)

\* The decoder before the byte at p, if it has returned the first frames already.
Unfinished(S, p) == [k \in 1 .. p[3] - 1 |-> [line |-> LineAt(S, p), at |-> k]]
Gathered(S, p) ==
  IF p[2] = 0 THEN NothingGathered
  ELSE [frame |-> S[p[1]], count |-> CountOf(S[p[1]]), chunks |-> [i \in 1 .. p[2] |-> LineOf(S[p[1]], i)]]
IsDecoder(d) == d = [buffered |-> d.buffered, gathered |-> d.gathered, frames |-> d.frames, throw |-> d.throw]
Decodes(d, S, first, p) ==
  /\ IsDecoder(d) /\ d.throw = FALSE
  /\ d.buffered = Unfinished(S, p) /\ d.gathered = Gathered(S, p)
  /\ d.frames = [i \in 1 .. p[1] - 1 - first |-> S[first + i]]

LEMMA SpotIs ==
  ASSUME NEW S, Accepted(S), NEW p \in Spots, IsSpot(S, p)
  PROVE  /\ NextSpot(S, p) \in Spots /\ S[p[1]] \in Frames /\ LineAt(S, p).frame = S[p[1]] /\ S[p[1]].id = p[1]
         /\ LineAt(S, p).index = p[2] /\ LineAt(S, p).count = CountOf(S[p[1]]) /\ CountOf(S[p[1]]) \in Nat
         /\ SizeOf(LineAt(S, p)) \in Nat /\ SizeOf(LineAt(S, p)) >= 2 /\ SizeOf(LineAt(S, p)) <= MaxFrame
<1>1. PICK frame \in Frames : frame = S[p[1]] BY DEF Accepted, IsSpot
<1>2. PICK i \in 1 .. CountOf(frame) : i = p[2] + 1 BY <1>1 DEF IsSpot
<1>3. CountOf(frame) \in Nat BY CountIs
<1>4. p[2] = i - 1 BY <1>2 DEF Spots
<1>5. LineAt(S, p) = LineOf(frame, i) BY <1>1, <1>2 DEF LineAt
<1>6. NextSpot(S, p) \in Spots BY DEF NextSpot, Spots
<1>7. S[p[1]].id = p[1] BY DEF Accepted, IsSpot
<1>8. /\ LineOf(frame, i).frame = frame /\ LineOf(frame, i).index = i - 1 /\ LineOf(frame, i).count = CountOf(frame)
      /\ SizeOf(LineOf(frame, i)) \in Nat /\ SizeOf(LineOf(frame, i)) >= 2 /\ SizeOf(LineOf(frame, i)) <= MaxFrame
  BY <1>3, LineIs
<1> QED BY <1>1, <1>3, <1>4, <1>5, <1>6, <1>7, <1>8

LEMMA FeedByte ==
  ASSUME NEW d, IsDecoder(d), d.throw = FALSE, NEW byte, ~IsNewline(byte)
  PROVE  /\ IsDecoder(Feed(d, byte)) /\ Feed(d, byte).throw = FALSE /\ Feed(d, byte).buffered = Append(d.buffered, byte)
         /\ Feed(d, byte).gathered = d.gathered /\ Feed(d, byte).frames = d.frames
BY DEF IsDecoder, Feed

LEMMA FeedLast ==
  ASSUME NEW d, IsDecoder(d), d.throw = FALSE, NEW byte, IsNewline(byte),
         Len(Append(d.buffered, byte)) \in Nat, Len(Append(d.buffered, byte)) <= MaxFrame, Parses(Append(d.buffered, byte))
  PROVE  Feed(d, byte) = Consume([d EXCEPT !.buffered = <<>>], byte.line)
BY FramingAssumption DEF Feed

LEMMA Emptied ==
  ASSUME NEW d, IsDecoder(d)
  PROVE  /\ IsDecoder([d EXCEPT !.buffered = <<>>]) /\ [d EXCEPT !.buffered = <<>>].buffered = <<>>
         /\ [d EXCEPT !.buffered = <<>>].throw = d.throw /\ [d EXCEPT !.buffered = <<>>].gathered = d.gathered
         /\ [d EXCEPT !.buffered = <<>>].frames = d.frames
BY DEF IsDecoder

\* A frame of l line is returned.
LEMMA ConsumeFrame ==
  ASSUME NEW d, IsDecoder(d), NEW l, l.count = 1, d.gathered = NothingGathered
  PROVE  /\ IsDecoder(Consume(d, l)) /\ Consume(d, l).throw = d.throw /\ Consume(d, l).buffered = d.buffered
         /\ Consume(d, l).gathered = NothingGathered /\ Consume(d, l).frames = Append(d.frames, l.frame)
BY DEF IsDecoder, Consume

\* The first chunk is the beginning of what is gathered.
LEMMA ConsumeFirst ==
  ASSUME NEW d, IsDecoder(d), NEW l, l.count \in Nat, l.count >= 2, d.gathered = NothingGathered, ValidStart(l)
  PROVE  /\ IsDecoder(Consume(d, l)) /\ Consume(d, l).throw = d.throw /\ Consume(d, l).buffered = d.buffered
         /\ Consume(d, l).gathered = [frame |-> l.frame, count |-> l.count, chunks |-> <<l>>]
         /\ Consume(d, l).frames = d.frames
<1> DEFINE begun == [frame |-> l.frame, count |-> l.count, chunks |-> <<>>]
<1>1. begun.frame = l.frame /\ begun.count = l.count /\ begun.chunks = <<>> OBVIOUS
<1>2. Append(begun.chunks, l) = <<l>> /\ Len(<<l>>) = 1 /\ Len(<<>>) = 0 OBVIOUS
<1>3. l.index = 0 BY DEF ValidStart
<1>4. Consume(d, l) = [d EXCEPT !.gathered = [begun EXCEPT !.chunks = <<l>>]]
  <2>1. (IF d.gathered # NothingGathered THEN d.gathered ELSE begun) = begun OBVIOUS
  <2>2. l.count # 1 /\ 1 < l.count OBVIOUS
  <2> HIDE DEF begun
  <2>3. ~(d.gathered = NothingGathered /\ ~ValidStart(l)) OBVIOUS
  <2> QED BY <2>1, <2>2, <2>3, <1>1, <1>2, <1>3 DEF Consume, begun
<1>5. [begun EXCEPT !.chunks = <<l>>] = [frame |-> l.frame, count |-> l.count, chunks |-> <<l>>] OBVIOUS
<1> HIDE DEF begun
<1> QED BY <1>4, <1>5 DEF IsDecoder

LEMMA WithChunks ==
  ASSUME NEW frame, NEW c, NEW chunks, NEW all, NEW g, g = [frame |-> frame, count |-> c, chunks |-> chunks]
  PROVE  [g EXCEPT !.chunks = all] = [frame |-> frame, count |-> c, chunks |-> all]
OBVIOUS

\* A chunk that goes on what is gathered joins it, or completes the frame.
GoesOnWith(d, l, all) ==
  /\ IsDecoder(d) /\ d.gathered # NothingGathered /\ l.count # 1
  /\ d.gathered.frame = l.frame /\ d.gathered.count = l.count /\ Len(d.gathered.chunks) = l.index
  /\ all = Append(d.gathered.chunks, l)

LEMMA ConsumeMore ==
  ASSUME NEW d, NEW l, NEW all, GoesOnWith(d, l, all), Len(all) < l.count, NEW more, more = [d.gathered EXCEPT !.chunks = all]
  PROVE  /\ IsDecoder(Consume(d, l)) /\ Consume(d, l).throw = d.throw /\ Consume(d, l).buffered = d.buffered
         /\ Consume(d, l).gathered = more
         /\ Consume(d, l).frames = d.frames
<1>1. PICK begun : begun = d.gathered OBVIOUS
<1>2. Consume(d, l) = [d EXCEPT !.gathered = [begun EXCEPT !.chunks = all]] BY <1>1 DEF Consume, GoesOnWith
<1> QED BY <1>1, <1>2 DEF IsDecoder, GoesOnWith

LEMMA ConsumeLast ==
  ASSUME NEW d, NEW l, NEW all, GoesOnWith(d, l, all), ~(Len(all) < l.count), Joined(all) = l.frame.length
  PROVE  /\ IsDecoder(Consume(d, l)) /\ Consume(d, l).throw = d.throw /\ Consume(d, l).buffered = d.buffered
         /\ Consume(d, l).gathered = NothingGathered /\ Consume(d, l).frames = Append(d.frames, l.frame)
<1>1. PICK begun : begun = d.gathered OBVIOUS
<1>2. Consume(d, l) = [d EXCEPT !.gathered = NothingGathered, !.frames = Append(@, begun.frame)]
  BY <1>1 DEF Consume, GoesOnWith
<1> QED BY <1>1, <1>2 DEF IsDecoder, GoesOnWith

LEMMA OneMoreByte ==
  ASSUME NEW l, NEW n \in Nat, NEW b, b = [k \in 1 .. n |-> [line |-> l, at |-> k]]
  PROVE  Append(b, [line |-> l, at |-> n + 1]) = [k \in 1 .. n + 1 |-> [line |-> l, at |-> k]] /\ Len(b) = n
<1>1. PICK T : T = {[line |-> l, at |-> k] : k \in Nat} OBVIOUS
<1>2. \A k \in Nat : [line |-> l, at |-> k] \in T BY <1>1
<1>3. \A k \in 1 .. n : b[k] \in T BY <1>2
<1>4. b \in Seq(T) /\ Len(b) = n BY <1>3
<1>5. Append(b, [line |-> l, at |-> n + 1]) \in Seq(T) BY <1>2, <1>4
<1> QED BY <1>4, <1>5

\* A byte within a line waits for the rest of it.
LEMMA DecodesWithin ==
  ASSUME NEW S, Accepted(S), NEW p \in Spots, IsSpot(S, p), NEW first \in Nat, NEW d, Decodes(d, S, first, p),
         p[3] < SizeOf(LineAt(S, p))
  PROVE  Decodes(Feed(d, ByteAt(S, p)), S, first, NextSpot(S, p))
<1>1. PICK l : l = LineAt(S, p) OBVIOUS
<1>2. PICK byte : byte = ByteAt(S, p) OBVIOUS
<1>3. byte.line = l /\ byte.at = p[3] /\ byte = [line |-> l, at |-> p[3]] BY <1>1, <1>2 DEF ByteAt
<1>4. PICK n \in Nat : p[3] = n + 1 /\ p[3] - 1 = n BY DEF Spots
<1>5. /\ IsDecoder(d) /\ d.throw = FALSE /\ d.buffered = [k \in 1 .. n |-> [line |-> l, at |-> k]]
      /\ d.gathered = Gathered(S, p) /\ d.frames = [i \in 1 .. p[1] - 1 - first |-> S[first + i]]
  BY <1>1, <1>4 DEF Decodes, Unfinished
<1>6. SizeOf(l) \in Nat BY <1>1, SpotIs
<1>7. ~IsNewline(byte) BY <1>1, <1>3, <1>4, <1>6 DEF IsNewline
<1>8. PICK e : e = Feed(d, byte) OBVIOUS
<1>9. /\ IsDecoder(e) /\ e.throw = FALSE /\ e.buffered = Append(d.buffered, byte)
      /\ e.gathered = d.gathered /\ e.frames = d.frames
  <2>1. /\ IsDecoder(Feed(d, byte)) /\ Feed(d, byte).throw = FALSE /\ Feed(d, byte).buffered = Append(d.buffered, byte)
        /\ Feed(d, byte).gathered = d.gathered /\ Feed(d, byte).frames = d.frames
    <3>1. IsDecoder(d) /\ d.throw = FALSE /\ ~IsNewline(byte) BY <1>5, <1>7
    <3> QED BY ONLY <3>1, FeedByte, Zenon
  <2> QED BY <1>8, <2>1
<1>10. Append(d.buffered, byte) = [k \in 1 .. n + 1 |-> [line |-> l, at |-> k]] BY <1>3, <1>4, <1>5, OneMoreByte
<1>11. PICK q : q = NextSpot(S, p) OBVIOUS
<1>12. q[1] = p[1] /\ q[2] = p[2] /\ q[3] = p[3] + 1 BY <1>11 DEF NextSpot
<1>13. LineAt(S, q) = l BY <1>1, <1>12 DEF LineAt
<1>14. Unfinished(S, q) = [k \in 1 .. n + 1 |-> [line |-> l, at |-> k]]
  <2>1. q[3] - 1 = n + 1 BY <1>4, <1>12
  <2> QED BY <1>13, <2>1 DEF Unfinished
<1>15. Gathered(S, q) = Gathered(S, p) BY <1>12 DEF Gathered
<1>16. Decodes(e, S, first, q) BY <1>5, <1>9, <1>10, <1>12, <1>14, <1>15 DEF Decodes
<1> QED BY <1>2, <1>8, <1>11, <1>16

\* A newline completes a line, and what is gathered goes on or is a frame.
LEMMA DecodesLine ==
  ASSUME NEW S, Accepted(S), NEW p \in Spots, IsSpot(S, p), NEW first \in Nat, first <= p[1] - 1,
         NEW d, Decodes(d, S, first, p), p[3] = SizeOf(LineAt(S, p))
  PROVE  Decodes(Feed(d, ByteAt(S, p)), S, first, NextSpot(S, p))
<1>1. PICK l : l = LineAt(S, p) OBVIOUS
<1>2. PICK byte : byte = ByteAt(S, p) OBVIOUS
<1>3. byte.line = l /\ byte.at = p[3] /\ byte = [line |-> l, at |-> p[3]] BY <1>1, <1>2 DEF ByteAt
<1>4. PICK n \in Nat : p[3] = n + 1 /\ p[3] - 1 = n BY DEF Spots
<1>5. /\ IsDecoder(d) /\ d.throw = FALSE /\ d.buffered = [k \in 1 .. n |-> [line |-> l, at |-> k]]
      /\ d.gathered = Gathered(S, p) /\ d.frames = [i \in 1 .. p[1] - 1 - first |-> S[first + i]]
  BY <1>1, <1>4 DEF Decodes, Unfinished
<1>6. PICK frame \in Frames : frame = S[p[1]] BY DEF Accepted, IsSpot
<1>7. PICK c \in Nat : c = CountOf(frame) /\ c >= 1 BY CountIs
<1>8. /\ l.frame = frame /\ l.index = p[2] /\ l.count = c /\ frame.id = p[1]
      /\ SizeOf(l) \in Nat /\ SizeOf(l) >= 2 /\ SizeOf(l) <= MaxFrame /\ p[3] = SizeOf(l)
  BY <1>1, <1>6, <1>7, SpotIs
<1>9. IsNewline(byte) BY <1>3, <1>8 DEF IsNewline
<1>10. PICK bytes : bytes = Append(d.buffered, byte) OBVIOUS
<1>11. bytes = [k \in 1 .. n + 1 |-> [line |-> l, at |-> k]]
  <2>1. byte = [line |-> l, at |-> n + 1] BY <1>3, <1>4
  <2>2. Append(d.buffered, [line |-> l, at |-> n + 1]) = [k \in 1 .. n + 1 |-> [line |-> l, at |-> k]]
    BY <1>5, OneMoreByte
  <2> QED BY <1>10, <2>1, <2>2
<1>12. Len(bytes) = n + 1 /\ bytes[1].line = l /\ bytes = BytesOf(l)
  <2>1. bytes[1] = [line |-> l, at |-> 1] BY <1>11
  <2>2. bytes = BytesOf(l) BY <1>4, <1>8, <1>11 DEF BytesOf
  <2> QED BY <1>11, <2>1, <2>2
<1>13. Len(bytes) \in Nat /\ Len(bytes) <= MaxFrame /\ Parses(bytes) BY <1>4, <1>8, <1>12 DEF Parses
<1>14. PICK emptied : emptied = [d EXCEPT !.buffered = <<>>] OBVIOUS
<1>15. /\ IsDecoder(emptied) /\ emptied.buffered = <<>> /\ emptied.throw = FALSE
       /\ emptied.gathered = d.gathered /\ emptied.frames = d.frames
  BY <1>5, <1>14, Emptied
<1>16. PICK e : e = Consume(emptied, l) OBVIOUS
<1>17. Feed(d, byte) = e BY <1>3, <1>5, <1>9, <1>10, <1>13, <1>14, <1>16, FeedLast
<1>18. PICK q : q = NextSpot(S, p) OBVIOUS
<1>19. q = IF p[2] + 1 < c THEN <<p[1], p[2] + 1, 1>> ELSE <<p[1] + 1, 0, 1>>
  <2>1. ~(p[3] < SizeOf(LineAt(S, p))) BY <1>1, <1>8
  <2>2. CountOf(S[p[1]]) = c BY <1>6, <1>7
  <2> QED BY <1>18, <2>1, <2>2 DEF NextSpot
<1>20. Unfinished(S, q) = <<>>
  <2>1. q[3] - 1 = 0 BY <1>19
  <2> QED BY <2>1 DEF Unfinished
<1>21. p[1] \in Nat /\ p[1] - 1 \in Nat /\ p[2] \in Nat /\ p[2] + 1 <= c /\ p[1] >= 1 BY <1>6, <1>7 DEF IsSpot, Spots
<1>22. d.gathered = IF p[2] = 0 THEN NothingGathered
                    ELSE [frame |-> frame, count |-> c, chunks |-> [i \in 1 .. p[2] |-> LineOf(frame, i)]]
  BY <1>5, <1>6, <1>7 DEF Gathered
<1>23. l = LineOf(frame, p[2] + 1) BY <1>1, <1>6 DEF LineAt
<1>24. p[2] + 1 < c => q[1] = p[1] /\ q[2] = p[2] + 1 BY <1>19
<1>25. ~(p[2] + 1 < c) => q[1] = p[1] + 1 /\ q[2] = 0 BY <1>19
<1>26. [i \in 1 .. p[1] - first |-> S[first + i]] = Append(d.frames, frame)
  <2>1. PICK m \in Nat : m = p[1] - 1 - first /\ m + 1 = p[1] - first BY <1>21
  <2>2. d.frames = [i \in 1 .. m |-> S[first + i]] BY <1>5, <2>1
  <2>3. ASSUME NEW i \in 1 .. m PROVE S[first + i] \in Frames
    <3>1. p[1] \in 1 .. Len(S) /\ S \in Seq(Frames) BY DEF Accepted, IsSpot
    <3>2. first + i \in 1 .. Len(S) BY <1>21, <2>1, <3>1
    <3> QED BY <3>1, <3>2
  <2>4. d.frames \in Seq(Frames) /\ Len(d.frames) = m BY <2>2, <2>3
  <2>5. S[first + (m + 1)] = frame BY <1>6, <1>21, <2>1
  <2>6. Append(d.frames, frame) = [i \in 1 .. m + 1 |-> S[first + i]] BY <2>2, <2>4, <2>5
  <2> QED BY <2>1, <2>6
<1>27. /\ p[2] + 1 < c => e.frames = d.frames
       /\ ~(p[2] + 1 < c) => e.frames = Append(d.frames, frame)
       /\ IsDecoder(e) /\ e.throw = FALSE /\ e.buffered = <<>> /\ e.gathered = Gathered(S, q)
  <2>1. CASE c = 1
    <3>1. p[2] = 0 /\ ~(p[2] + 1 < c) BY <1>21, <2>1
    <3>2. emptied.gathered = NothingGathered /\ l.count = 1 BY <1>8, <1>15, <1>22, <2>1, <3>1
    <3>3. /\ IsDecoder(e) /\ e.throw = emptied.throw /\ e.buffered = emptied.buffered
          /\ e.gathered = NothingGathered /\ e.frames = Append(emptied.frames, l.frame)
      <4>1. IsDecoder(emptied) BY <1>15
      <4> QED BY ONLY <1>16, <3>2, <4>1, ConsumeFrame, Zenon
    <3>4. Gathered(S, q) = NothingGathered BY <1>25, <3>1 DEF Gathered
    <3> QED BY <1>8, <1>15, <3>1, <3>3, <3>4
  <2>2. CASE c # 1 /\ p[2] = 0
    <3>1. c >= 2 /\ 0 + 1 < c BY <1>7, <2>2
    <3>2. emptied.gathered = NothingGathered /\ l.count \in Nat /\ l.count >= 2 BY <1>8, <1>15, <1>22, <2>2, <3>1
    <3>3. ValidStart(l)
      <4>1. frame.length \in Nat /\ frame.length + 1 > MaxFrame
        BY <1>7, <2>2, FramingAssumption DEF Frames, CountOf
      <4>2. frame.length + 1 <= MaxFrame \/ frame.length <= MaxWhole BY <1>6 DEF Accepted, IsSpot
      <4>3. frame.length >= MaxFrame /\ frame.length <= MaxWhole BY <4>1, <4>2, FramingAssumption
      <4>4. c <= Ceil(MaxWhole, ChunkBytes) BY <1>7, <4>1, <4>3, ChunksFit
      <4>5. Ceil(MaxWhole, ChunkBytes) \in Nat BY CeilIs, FramingAssumption
      <4>6. frame.length \in MaxFrame .. MaxWhole BY <4>1, <4>3, FramingAssumption
      <4>7. l.count \in 2 .. Ceil(MaxWhole, ChunkBytes) BY <1>8, <3>1, <4>4, <4>5
      <4>8. l.index = 0 BY <1>8, <2>2
      <4> QED BY <1>8, <4>6, <4>7, <4>8 DEF ValidStart
    <3>4. /\ IsDecoder(e) /\ e.throw = emptied.throw /\ e.buffered = emptied.buffered
          /\ e.gathered = [frame |-> l.frame, count |-> l.count, chunks |-> <<l>>] /\ e.frames = emptied.frames
      <4>1. IsDecoder(emptied) BY <1>15
      <4> QED BY ONLY <1>16, <3>2, <3>3, <4>1, ConsumeFirst, Zenon
    <3>5. Gathered(S, q) = [frame |-> frame, count |-> c, chunks |-> <<l>>]
      <4>1. q[1] = p[1] /\ q[2] = 1 BY <1>24, <2>2, <3>1
      <4>2. [i \in 1 .. 1 |-> LineOf(frame, i)] = <<LineOf(frame, 1)>> OBVIOUS
      <4>3. l = LineOf(frame, 1) BY <1>23, <2>2
      <4> QED BY <1>6, <1>7, <4>1, <4>2, <4>3 DEF Gathered
    <3> QED BY <1>8, <1>15, <2>2, <3>1, <3>4, <3>5
  <2>3. CASE p[2] # 0
    <3>1. PICK j \in Nat : j = p[2] /\ j >= 1 BY <1>21, <2>3
    <3>2. c >= 2 /\ j + 1 <= c BY <1>7, <1>21, <3>1
    <3>3. PICK chunks : chunks = [i \in 1 .. j |-> LineOf(frame, i)] OBVIOUS
    <3>4. emptied.gathered = [frame |-> frame, count |-> c, chunks |-> chunks] BY <1>15, <1>22, <2>3, <3>1, <3>3
    <3>5. PICK all : all = [i \in 1 .. j + 1 |-> LineOf(frame, i)] OBVIOUS
    <3>6. all = Append(chunks, l) /\ Len(all) = j + 1 /\ Len(chunks) = j
      <4>1. PICK T : T = {LineOf(frame, i) : i \in Nat} OBVIOUS
      <4>2. \A i \in Nat : LineOf(frame, i) \in T BY <4>1
      <4>3. chunks \in Seq(T) /\ Len(chunks) = j BY <3>3, <4>2
      <4>4. l = LineOf(frame, j + 1) BY <1>23, <3>1
      <4>5. Append(chunks, l) = [i \in 1 .. j + 1 |-> LineOf(frame, i)] BY <3>3, <4>2, <4>3, <4>4
      <4> QED BY <3>5, <4>3, <4>5
    <3>7. emptied.gathered # NothingGathered
      <4>1. NothingGathered.count = 0 BY DEF NothingGathered
      <4>2. emptied.gathered.count = c BY <3>4
      <4> QED BY <3>2, <4>1, <4>2
    <3>8. Len(all) < c \/ Joined(all) = frame.length
      <4>1. CASE j + 1 = c
        <5>1. CountOf(frame) # 1 BY <1>7, <3>2
        <5> QED BY <1>7, <3>5, <4>1, <5>1, JoinedIsFrame
      <4>2. CASE j + 1 < c BY <3>6, <4>2
      <4> QED BY <3>2, <4>1, <4>2
    <3>9. l.frame = frame /\ l.count = c /\ l.index = Len(chunks) /\ Len(all) \in Nat BY <1>8, <3>1, <3>6
    <3>10. GoesOnWith(emptied, l, all)
      <4>1. emptied.gathered.frame = frame /\ emptied.gathered.count = c /\ emptied.gathered.chunks = chunks BY <3>4
      <4>2. c # 1 BY <3>2
      <4> QED BY <1>15, <3>6, <3>7, <3>9, <4>1, <4>2 DEF GoesOnWith
    <3>11. p[2] + 1 < c => Gathered(S, q) = [frame |-> frame, count |-> c, chunks |-> all]
      <4> SUFFICES ASSUME p[2] + 1 < c PROVE Gathered(S, q) = [frame |-> frame, count |-> c, chunks |-> all] OBVIOUS
      <4>1. q[1] = p[1] /\ q[2] = j + 1 /\ q[2] # 0 BY <1>24, <3>1
      <4>2. S[q[1]] = frame /\ CountOf(frame) = c BY <1>6, <1>7, <4>1
      <4> QED BY <3>5, <4>1, <4>2 DEF Gathered
    <3>12. ~(p[2] + 1 < c) => Gathered(S, q) = NothingGathered BY <1>25 DEF Gathered
    <3>13. CASE p[2] + 1 < c
      <4>1. Len(all) < l.count BY <3>1, <3>6, <3>9, <3>13
      <4>4. PICK more : more = [emptied.gathered EXCEPT !.chunks = all] OBVIOUS
      <4>2. /\ IsDecoder(e) /\ e.throw = emptied.throw /\ e.buffered = emptied.buffered
            /\ e.gathered = more /\ e.frames = emptied.frames
        BY ONLY <1>16, <3>10, <4>1, <4>4, ConsumeMore
      <4>3. [emptied.gathered EXCEPT !.chunks = all] = [frame |-> frame, count |-> c, chunks |-> all] BY ONLY <3>4, WithChunks
      <4> QED BY <1>15, <3>11, <3>13, <4>2, <4>3, <4>4
    <3>14. CASE ~(p[2] + 1 < c)
      <4>1. ~(Len(all) < l.count) BY <3>1, <3>6, <3>9, <3>14
      <4>2. Joined(all) = l.frame.length BY <3>8, <3>9, <4>1
      <4>3. /\ IsDecoder(e) /\ e.throw = emptied.throw /\ e.buffered = emptied.buffered
            /\ e.gathered = NothingGathered /\ e.frames = Append(emptied.frames, l.frame)
        BY ONLY <1>16, <3>10, <4>1, <4>2, ConsumeLast, Zenon
      <4> QED BY <1>8, <1>15, <3>12, <3>14, <4>3
    <3> QED BY <3>13, <3>14
  <2> QED BY <2>1, <2>2, <2>3
<1>28. e.frames = [i \in 1 .. q[1] - 1 - first |-> S[first + i]]
  <2>1. CASE p[2] + 1 < c BY <1>5, <1>24, <1>27, <2>1
  <2>2. CASE ~(p[2] + 1 < c)
    <3>1. q[1] - 1 - first = p[1] - first BY <1>21, <1>25, <2>2
    <3> QED BY <1>25, <1>26, <1>27, <2>2, <3>1
  <2> QED BY <2>1, <2>2
<1>29. Decodes(e, S, first, q) BY <1>20, <1>27, <1>28 DEF Decodes
<1> QED BY <1>2, <1>17, <1>18, <1>29

LEMMA DecodesByte ==
  ASSUME NEW S, Accepted(S), NEW p \in Spots, IsSpot(S, p), NEW first \in Nat, first <= p[1] - 1,
         NEW d, Decodes(d, S, first, p)
  PROVE  /\ Decodes(Feed(d, ByteAt(S, p)), S, first, NextSpot(S, p))
         /\ NextSpot(S, p) \in Spots /\ first <= NextSpot(S, p)[1] - 1
<1>1. p[1] \in Nat /\ p[3] \in Nat BY DEF Spots
<1>2. NextSpot(S, p) \in Spots BY SpotIs
<1>3. first <= NextSpot(S, p)[1] - 1 BY <1>1 DEF NextSpot
<1>4. p[3] < SizeOf(LineAt(S, p)) \/ p[3] = SizeOf(LineAt(S, p))
  <2>1. SizeOf(LineAt(S, p)) \in Nat /\ p[3] \in 1 .. SizeOf(LineAt(S, p)) BY SpotIs DEF IsSpot
  <2> QED BY <1>1, <2>1
<1>5. CASE p[3] < SizeOf(LineAt(S, p)) BY <1>2, <1>3, <1>5, DecodesWithin
<1>6. CASE p[3] = SizeOf(LineAt(S, p)) BY <1>2, <1>3, <1>6, DecodesLine
<1> QED BY <1>4, <1>5, <1>6

Feeds(f, bytes, n, d) ==
  f = [z \in SUBSET (1 .. n) |-> IF z = {} THEN d ELSE Feed(f[z \ {Max(z)}], bytes[Max(z)])]

\* There is a function that feeds byte after byte.
LEMMA FeedsExists ==
  ASSUME NEW bytes, NEW d, NEW n \in Nat
  PROVE  \E f : Feeds(f, bytes, n, d)
<1> DEFINE Exists(m) == \E f : Feeds(f, bytes, m, d)
           Reached == {m \in Nat : Exists(m)}
<1>1. Exists(0)
  <2> DEFINE g == [z \in SUBSET (1 .. 0) |-> d]
  <2>1. \A z \in SUBSET (1 .. 0) : z = {} OBVIOUS
  <2>2. g = [z \in SUBSET (1 .. 0) |-> IF z = {} THEN d ELSE Feed(g[z \ {Max(z)}], bytes[Max(z)])] BY <2>1
  <2> HIDE DEF g
  <2> QED BY <2>2 DEF Feeds
<1>2. ASSUME NEW m \in Nat, Exists(m) PROVE Exists(m + 1)
  <2>1. PICK g : Feeds(g, bytes, m, d) BY <1>2
  <2> DEFINE h == [z \in SUBSET (1 .. m + 1) |->
                     IF m + 1 \in z THEN Feed(g[z \ {m + 1}], bytes[m + 1]) ELSE g[z]]
  <2>2. ASSUME NEW z \in SUBSET (1 .. m + 1)
        PROVE  /\ z \ {m + 1} \in SUBSET (1 .. m)
               /\ m + 1 \notin z => z \in SUBSET (1 .. m)
    OBVIOUS
  <2>3. ASSUME NEW z \in SUBSET (1 .. m + 1)
        PROVE  h[z] = IF z = {} THEN d ELSE Feed(h[z \ {Max(z)}], bytes[Max(z)])
    <3>1. CASE m + 1 \in z
      <4>1. Max(z) = m + 1 BY <3>1, MaxOfUpTo
      <4>2. h[z \ {m + 1}] = g[z \ {m + 1}] BY <2>2
      <4>3. h[z] = Feed(g[z \ {m + 1}], bytes[m + 1]) BY <3>1
      <4> HIDE DEF h
      <4> QED BY <3>1, <4>1, <4>2, <4>3
    <3>2. CASE m + 1 \notin z
      <4>1. z \in SUBSET (1 .. m) BY <2>2, <3>2
      <4>2. g[z] = IF z = {} THEN d ELSE Feed(g[z \ {Max(z)}], bytes[Max(z)]) BY <4>1, <2>1 DEF Feeds
      <4>3. h[z] = g[z] BY <3>2
      <4>4. h[z \ {Max(z)}] = g[z \ {Max(z)}] BY <3>2
      <4> HIDE DEF h
      <4> QED BY <4>2, <4>3, <4>4
    <3> QED BY <3>1, <3>2
  <2>4. h = [z \in SUBSET (1 .. m + 1) |-> h[z]] OBVIOUS
  <2> HIDE DEF h
  <2>5. Feeds(h, bytes, m + 1, d) BY <2>3, <2>4 DEF Feeds
  <2> QED BY <2>5
<1>3. n \in Reached
  <2> HIDE DEF Exists
  <2>1. 0 \in Reached /\ \A m \in Nat : m \in Reached => m + 1 \in Reached BY <1>1, <1>2
  <2> HIDE DEF Reached
  <2> QED BY <2>1, Inductive
<1> QED BY <1>3

LEMMA FedIsFold ==
  ASSUME NEW bytes, NEW n \in Nat, DOMAIN bytes = 1 .. n, NEW d
  PROVE  \E f : Feeds(f, bytes, n, d) /\ FoldLeft(Feed, d, bytes) = f[1 .. n]
<1>1. FoldLeft(Feed, d, bytes) = (CHOOSE f : Feeds(f, bytes, n, d))[1 .. n]
  BY DEF FoldLeft, MapThenFoldSet, Feeds
<1> QED BY <1>1, FeedsExists

\* Bytes that go from one place to another
LineBytes == {[line |-> LineOf(frame, i), at |-> k] : frame \in Frames, i \in Nat, k \in Nat}
IsPlace(S, p) == p \in Spots /\ (IsSpot(S, p) \/ p = <<Len(S) + 1, 0, 1>>)
IsStep(S, byte, p, q) == IsSpot(S, p) /\ byte = ByteAt(S, p) /\ q = NextSpot(S, p)
IsPath(S, bytes, pos, from, to) ==
  /\ bytes \in Seq(LineBytes) /\ pos[1] = from /\ pos[Len(bytes) + 1] = to
  /\ \A k \in 1 .. Len(bytes) + 1 : IsPlace(S, pos[k])
  /\ \A k \in 1 .. Len(bytes) : IsStep(S, bytes[k], pos[k], pos[k + 1])
Passes(S, bytes, from, to) == \E pos : IsPath(S, bytes, pos, from, to)

\* The decoder follows.
LEMMA FedAlong ==
  ASSUME NEW S, Accepted(S), NEW bytes, NEW from, NEW to, Passes(S, bytes, from, to),
         NEW first \in Nat, first <= from[1] - 1, NEW d, Decodes(d, S, first, from)
  PROVE  Decodes(FoldLeft(Feed, d, bytes), S, first, to) /\ first <= to[1] - 1
<1>1. PICK pos : IsPath(S, bytes, pos, from, to) BY DEF Passes
<1>2. PICK n \in Nat : n = Len(bytes) /\ DOMAIN bytes = 1 .. n BY <1>1 DEF IsPath
<1>3. PICK f : Feeds(f, bytes, n, d) /\ FoldLeft(Feed, d, bytes) = f[1 .. n] BY <1>2, FedIsFold
<1>4. /\ pos[1] = from /\ pos[n + 1] = to /\ \A k \in 1 .. n + 1 : IsPlace(S, pos[k])
      /\ \A k \in 1 .. n : IsStep(S, bytes[k], pos[k], pos[k + 1])
  BY <1>1, <1>2 DEF IsPath
<1> DEFINE So(k) == k <= n => Decodes(f[1 .. k], S, first, pos[k + 1]) /\ first <= pos[k + 1][1] - 1
           All == {k \in Nat : So(k)}
<1>5. So(0)
  <2>1. 1 .. 0 = {} /\ {} \in SUBSET (1 .. n) /\ 0 + 1 = 1 OBVIOUS
  <2>2. f[{}] = d BY <1>3, <2>1 DEF Feeds
  <2> QED BY <2>1, <2>2, <1>4
<1>6. ASSUME NEW k \in Nat, So(k) PROVE So(k + 1)
  <2> SUFFICES ASSUME k + 1 <= n PROVE Decodes(f[1 .. k + 1], S, first, pos[(k + 1) + 1]) /\ first <= pos[(k + 1) + 1][1] - 1
    OBVIOUS
  <2>1. PICK i \in 1 .. n : i = k + 1 OBVIOUS
  <2>2. 1 .. i \in SUBSET (1 .. n) /\ 1 .. i # {} /\ Max(1 .. i) = i /\ (1 .. i) \ {i} = 1 .. i - 1 BY AlongPrefixes
  <2>3. i - 1 = k BY <2>1
  <2>4. f[1 .. i] = Feed(f[1 .. k], bytes[i]) BY <1>3, <2>2, <2>3 DEF Feeds
  <2>9. i \in 1 .. n + 1 OBVIOUS
  <2>10. IsPlace(S, pos[i]) /\ IsStep(S, bytes[i], pos[i], pos[i + 1]) BY <1>4, <2>9
  <2>5. PICK p \in Spots : p = pos[i] /\ IsSpot(S, p) BY <2>10 DEF IsPlace, IsStep
  <2>6. bytes[i] = ByteAt(S, p) /\ pos[i + 1] = NextSpot(S, p) BY <2>10, <2>5 DEF IsStep
  <2>7. Decodes(f[1 .. k], S, first, p) /\ first <= p[1] - 1 BY <1>6, <2>1, <2>5
  <2>8. Decodes(Feed(f[1 .. k], ByteAt(S, p)), S, first, NextSpot(S, p)) /\ first <= NextSpot(S, p)[1] - 1
    BY <2>5, <2>7, DecodesByte
  <2> QED BY <2>1, <2>4, <2>6, <2>8
<1>7. n \in All
  <2> HIDE DEF So
  <2>1. 0 \in All /\ \A k \in Nat : k \in All => k + 1 \in All BY <1>5, <1>6
  <2> HIDE DEF All
  <2> QED BY <2>1, Inductive
<1>8. n <= n /\ So(n)
  <2> HIDE DEF So
  <2> QED BY <1>7
<1> QED BY <1>3, <1>4, <1>8

LEMMA PassesWithin ==
  ASSUME NEW S, NEW bytes, NEW from, NEW to, Passes(S, bytes, from, to), NEW n \in 0 .. Len(bytes)
  PROVE  \E mid : Passes(S, SubSeq(bytes, 1, n), from, mid) /\ Passes(S, SubSeq(bytes, n + 1, Len(bytes)), mid, to)
<1>1. PICK pos : IsPath(S, bytes, pos, from, to) BY DEF Passes
<1>2. PICK m \in Nat : m = Len(bytes) /\ n <= m /\ n \in Nat BY <1>1 DEF IsPath
<1>3. PICK a : a = SubSeq(bytes, 1, n) OBVIOUS
<1>4. PICK b : b = SubSeq(bytes, n + 1, m) OBVIOUS
<1>5. a \in Seq(LineBytes) /\ Len(a) = n /\ \A k \in 1 .. n : a[k] = bytes[k] BY <1>1, <1>2, <1>3 DEF IsPath
<1>6. b \in Seq(LineBytes) /\ Len(b) = m - n /\ \A k \in 1 .. m - n : b[k] = bytes[n + k] BY <1>1, <1>2, <1>4 DEF IsPath
<1>7. IsPath(S, a, pos, from, pos[n + 1]) BY <1>1, <1>2, <1>5 DEF IsPath
<1>8. PICK late : late = [k \in 1 .. m - n + 1 |-> pos[n + k]] OBVIOUS
<1>9. IsPath(S, b, late, pos[n + 1], to)
  <2>1. late[1] = pos[n + 1] /\ late[m - n + 1] = to BY <1>1, <1>2, <1>8 DEF IsPath
  <2>2. \A k \in 1 .. m - n + 1 : IsPlace(S, late[k]) BY <1>1, <1>2, <1>8 DEF IsPath
  <2>3. ASSUME NEW k \in 1 .. m - n PROVE IsStep(S, b[k], late[k], late[k + 1])
    <3>1. PICK i \in 1 .. m : i = n + k BY <1>2
    <3>2. IsStep(S, bytes[i], pos[i], pos[i + 1]) BY <1>1, <1>2 DEF IsPath
    <3>3. late[k] = pos[i] /\ late[k + 1] = pos[i + 1] /\ b[k] = bytes[i] BY <1>2, <1>6, <1>8, <3>1
    <3> QED BY <3>2, <3>3
  <2> QED BY <1>6, <2>1, <2>2, <2>3 DEF IsPath
<1> QED BY <1>2, <1>3, <1>4, <1>7, <1>9 DEF Passes

LEMMA PassesOn ==
  ASSUME NEW S, NEW a, NEW b, NEW from, NEW mid, NEW to, Passes(S, a, from, mid), Passes(S, b, mid, to)
  PROVE  Passes(S, a \o b, from, to)
<1>1. PICK pos : IsPath(S, a, pos, from, mid) BY DEF Passes
<1>2. PICK on : IsPath(S, b, on, mid, to) BY DEF Passes
<1>3. PICK n \in Nat : n = Len(a) BY <1>1 DEF IsPath
<1>4. PICK m \in Nat : m = Len(b) BY <1>2 DEF IsPath
<1>5. PICK c : c = a \o b OBVIOUS
<1>6. /\ c \in Seq(LineBytes) /\ Len(c) = n + m /\ \A k \in 1 .. n : c[k] = a[k]
      /\ \A k \in 1 .. m : c[n + k] = b[k]
  BY <1>1, <1>2, <1>3, <1>4, <1>5 DEF IsPath
<1>7. PICK all : all = [k \in 1 .. n + m + 1 |-> IF k <= n THEN pos[k] ELSE on[k - n]] OBVIOUS
<1>8. on[1] = mid /\ pos[n + 1] = mid BY <1>1, <1>2, <1>3 DEF IsPath
<1>9. all[1] = from /\ all[n + m + 1] = to
  <2>1. on[m + 1] = to BY <1>2, <1>4 DEF IsPath
  <2>2. all[n + m + 1] = on[m + 1] BY <1>7
  <2>3. CASE n = 0
    <3>1. all[1] = on[1] BY <2>3, <1>7
    <3>2. pos[1] = from BY <1>1 DEF IsPath
    <3> QED BY <2>1, <2>2, <2>3, <3>1, <3>2, <1>8
  <2>4. CASE n # 0
    <3>1. all[1] = pos[1] BY <2>4, <1>7
    <3> QED BY <2>1, <2>2, <3>1, <1>1 DEF IsPath
  <2> QED BY <2>3, <2>4
<1>10. ASSUME NEW k \in 1 .. n + m + 1 PROVE IsPlace(S, all[k])
  <2>1. CASE k <= n
    <3>1. all[k] = pos[k] /\ k \in 1 .. n + 1 BY <2>1, <1>7
    <3> QED BY <3>1, <1>1, <1>3 DEF IsPath
  <2>2. CASE ~(k <= n)
    <3>1. all[k] = on[k - n] /\ k - n \in 1 .. m + 1 BY <2>2, <1>7
    <3> QED BY <3>1, <1>2, <1>4 DEF IsPath
  <2> QED BY <2>1, <2>2
<1>11. ASSUME NEW k \in 1 .. n + m PROVE IsStep(S, c[k], all[k], all[k + 1])
  <2>1. CASE k <= n
    <3>1. all[k] = pos[k] /\ c[k] = a[k] /\ k \in 1 .. n BY <2>1, <1>6, <1>7
    <3>2. all[k + 1] = pos[k + 1]
      <4>1. CASE k + 1 <= n BY <4>1, <1>7
      <4>2. CASE k = n
        <5>1. all[k + 1] = on[1] BY <4>2, <1>7
        <5> QED BY <5>1, <4>2, <1>8
      <4> QED BY <4>1, <4>2, <2>1
    <3>3. IsStep(S, a[k], pos[k], pos[k + 1]) BY <1>1, <1>3, <3>1 DEF IsPath
    <3> QED BY <3>1, <3>2, <3>3
  <2>2. CASE ~(k <= n)
    <3>1. PICK j \in 1 .. m : j = k - n BY <2>2
    <3>2. n + j = k BY <3>1
    <3>3. c[k] = b[j] BY <3>2, <1>6
    <3>4. all[k] = on[j] /\ all[k + 1] = on[j + 1] BY <2>2, <3>1, <1>7
    <3>5. IsStep(S, b[j], on[j], on[j + 1]) BY <1>2, <1>4 DEF IsPath
    <3> QED BY <3>3, <3>4, <3>5
  <2> QED BY <2>1, <2>2
<1>12. IsPath(S, c, all, from, to)
  <2>1. Len(c) + 1 = n + m + 1 /\ Len(c) = n + m BY <1>6
  <2> QED BY ONLY <2>1, <1>6, <1>9, <1>10, <1>11 DEF IsPath
<1> QED BY <1>5, <1>12 DEF Passes

\* What is written begins with a frame, wherever that is.
LEMMA FrameBegins ==
  ASSUME NEW S, Accepted(S), NEW f \in 1 .. Len(S)
  PROVE  <<f, 0, 1>> \in Spots /\ IsSpot(S, <<f, 0, 1>>)
<1>1. PICK frame \in Frames : frame = S[f] BY DEF Accepted
<1>2. CountOf(frame) \in Nat /\ CountOf(frame) >= 1 BY CountIs
<1>3. 1 \in 1 .. CountOf(frame) BY <1>2
<1>4. SizeOf(LineOf(frame, 1)) \in Nat /\ SizeOf(LineOf(frame, 1)) >= 2 BY <1>2, <1>3, LineIs
<1>5. f \in Nat \ {0} BY DEF Accepted
<1>10. <<f, 0, 1>> \in Spots BY <1>5 DEF Spots
<1>6. PICK p \in Spots : p = <<f, 0, 1>> BY <1>10
<1>7. p[1] = f /\ p[2] = 0 /\ p[3] = 1 BY <1>6
<1>8. LineAt(S, p) = LineOf(frame, 1) BY <1>1, <1>7 DEF LineAt
<1>9. IsSpot(S, p) BY <1>1, <1>3, <1>4, <1>7, <1>8 DEF IsSpot
<1> QED BY <1>6, <1>9

\* More is accepted, and the places stay.
LEMMA SpotStays ==
  ASSUME NEW S, Accepted(S), NEW frame \in Frames, NEW T, T = Append(S, frame), NEW p \in Spots, IsSpot(S, p)
  PROVE  IsSpot(T, p) /\ ByteAt(T, p) = ByteAt(S, p) /\ NextSpot(T, p) = NextSpot(S, p) /\ LineAt(T, p) = LineAt(S, p) /\ T[p[1]] = S[p[1]]
<1>1. S \in Seq(Frames) BY DEF Accepted
<1>2. T[p[1]] = S[p[1]] /\ p[1] \in 1 .. Len(T) BY <1>1 DEF IsSpot
<1>3. LineAt(T, p) = LineAt(S, p) BY <1>2 DEF LineAt
<1> QED BY <1>2, <1>3 DEF IsSpot, ByteAt, NextSpot

LEMMA PlaceStays ==
  ASSUME NEW S, Accepted(S), NEW frame \in Frames, NEW T, T = Append(S, frame), Accepted(T), NEW p, IsPlace(S, p)
  PROVE  IsPlace(T, p) /\ IsSpot(T, p)
<1>1. S \in Seq(Frames) BY DEF Accepted
<1>2. Len(S) + 1 = Len(T) /\ Len(T) \in 1 .. Len(T) BY <1>1
<1>3. CASE IsSpot(S, p) BY <1>3, SpotStays DEF IsPlace
<1>4. CASE p = <<Len(S) + 1, 0, 1>>
  <2>1. p = <<Len(T), 0, 1>> BY <1>2, <1>4
  <2>2. p \in Spots /\ IsSpot(T, p) BY <1>2, <2>1, FrameBegins
  <2> QED BY <2>2 DEF IsPlace
<1> QED BY <1>3, <1>4 DEF IsPlace

LEMMA PassesStay ==
  ASSUME NEW S, Accepted(S), NEW frame \in Frames, NEW T, T = Append(S, frame), Accepted(T),
         NEW bytes, NEW from, NEW to, Passes(S, bytes, from, to)
  PROVE  Passes(T, bytes, from, to)
<1>1. PICK pos : IsPath(S, bytes, pos, from, to) BY DEF Passes
<1>2. ASSUME NEW k \in 1 .. Len(bytes) + 1 PROVE IsPlace(T, pos[k])
  <2>1. IsPlace(S, pos[k]) BY <1>1 DEF IsPath
  <2> QED BY <2>1, PlaceStays
<1>3. ASSUME NEW k \in 1 .. Len(bytes) PROVE IsStep(T, bytes[k], pos[k], pos[k + 1])
  <2>1. IsStep(S, bytes[k], pos[k], pos[k + 1]) BY <1>1 DEF IsPath
  <2>3. k \in 1 .. Len(bytes) + 1 BY <1>1 DEF IsPath
  <2>4. IsPlace(S, pos[k]) BY <2>3, <1>1 DEF IsPath
  <2>2. PICK p \in Spots : p = pos[k] BY <2>4 DEF IsPlace
  <2>5. IsSpot(S, p) BY <2>1, <2>2 DEF IsStep
  <2>6. IsSpot(T, p) /\ ByteAt(T, p) = ByteAt(S, p) /\ NextSpot(T, p) = NextSpot(S, p) BY <2>5, SpotStays
  <2> QED BY <2>1, <2>2, <2>6 DEF IsStep
<1>4. IsPath(T, bytes, pos, from, to) BY <1>1, <1>2, <1>3 DEF IsPath
<1> QED BY <1>4 DEF Passes

\* The bytes of a line go to the beginning of the next.
LEMMA LinePasses ==
  ASSUME NEW S, Accepted(S), NEW f \in 1 .. Len(S), NEW j \in Nat, j < CountOf(S[f]),
         NEW to, to = IF j + 1 < CountOf(S[f]) THEN <<f, j + 1, 1>> ELSE <<f + 1, 0, 1>>
  PROVE  Passes(S, BytesOf(LineOf(S[f], j + 1)), <<f, j, 1>>, to)
<1>1. PICK frame \in Frames : frame = S[f] BY DEF Accepted
<1>2. PICK c \in Nat : c = CountOf(frame) BY CountIs
<1>3. PICK i \in 1 .. c : i = j + 1 BY <1>1, <1>2
<1>4. PICK l : l = LineOf(frame, i) OBVIOUS
<1>5. PICK size \in Nat : size = SizeOf(l) /\ size >= 2 BY <1>2, <1>4, LineIs
<1>6. PICK bytes : bytes = BytesOf(l) OBVIOUS
<1>7. bytes = [k \in 1 .. size |-> [line |-> l, at |-> k]] BY <1>5, <1>6 DEF BytesOf
<1>8. bytes \in Seq(LineBytes) /\ Len(bytes) = size
  <2>1. ASSUME NEW k \in 1 .. size PROVE [line |-> l, at |-> k] \in LineBytes
    <3>1. i \in Nat /\ k \in Nat OBVIOUS
    <3> QED BY <3>1, <1>4 DEF LineBytes
  <2> QED BY <1>7, <2>1
<1>9. f \in Nat /\ f # 0 /\ Len(S) \in Nat BY DEF Accepted
<1>10. ASSUME NEW k \in 1 .. size, NEW p, p = <<f, j, k>>
       PROVE  /\ p \in Spots /\ IsSpot(S, p) /\ bytes[k] = ByteAt(S, p)
              /\ NextSpot(S, p) = IF k < size THEN <<f, j, k + 1>> ELSE to
  <2>1. p \in Spots /\ p[1] = f /\ p[2] = j /\ p[3] = k BY <1>9, <1>10 DEF Spots
  <2>2. LineAt(S, p) = l BY <2>1, <1>1, <1>3, <1>4 DEF LineAt
  <2>3. IsSpot(S, p) BY <2>1, <2>2, <1>1, <1>2, <1>3, <1>5 DEF IsSpot
  <2>4. bytes[k] = ByteAt(S, p) BY <2>1, <2>2, <1>7 DEF ByteAt
  <2>5. k < size => NextSpot(S, p) = <<f, j, k + 1>> BY <2>1, <2>2, <1>5 DEF NextSpot
  <2>6. ~(k < size) => NextSpot(S, p) = to BY <2>1, <2>2, <1>1, <1>2, <1>5 DEF NextSpot
  <2> QED BY <2>1, <2>3, <2>4, <2>5, <2>6
<1>11. IsPlace(S, to)
  <2>1. CASE j + 1 < CountOf(S[f])
    <3>1. to = <<f, j + 1, 1>> BY <2>1
    <3>2. to \in Spots /\ to[1] = f /\ to[2] = j + 1 /\ to[3] = 1 BY <3>1, <1>9 DEF Spots
    <3>3. i + 1 \in 1 .. c /\ to[2] + 1 = i + 1 BY <2>1, <3>2, <1>1, <1>2, <1>3
    <3>4. SizeOf(LineOf(frame, i + 1)) \in Nat /\ SizeOf(LineOf(frame, i + 1)) >= 2 BY <3>3, <1>2, LineIs
    <3>5. LineAt(S, to) = LineOf(frame, i + 1) BY <3>2, <3>3, <1>1 DEF LineAt
    <3>6. IsSpot(S, to) BY <3>2, <3>3, <3>4, <3>5, <1>1, <1>2 DEF IsSpot
    <3> QED BY <3>2, <3>6 DEF IsPlace
  <2>2. CASE ~(j + 1 < CountOf(S[f]))
    <3>1. to = <<f + 1, 0, 1>> BY <2>2
    <3>2. CASE f = Len(S)
      <4>1. to \in Spots BY <3>1, <1>9 DEF Spots
      <4> QED BY <3>1, <3>2, <4>1 DEF IsPlace
    <3>3. CASE f # Len(S)
      <4>1. f + 1 \in 1 .. Len(S) BY <3>3, <1>9
      <4> QED BY <3>1, <4>1, FrameBegins DEF IsPlace
    <3> QED BY <3>2, <3>3
  <2> QED BY <2>1, <2>2
<1>12. PICK pos : pos = [k \in 1 .. size + 1 |-> IF k <= size THEN <<f, j, k>> ELSE to] OBVIOUS
<1>13. ASSUME NEW k \in 1 .. size + 1 PROVE IsPlace(S, pos[k])
  <2>1. CASE k <= size
    <3>1. pos[k] = <<f, j, k>> /\ k \in 1 .. size BY <2>1, <1>12
    <3> QED BY <3>1, <1>10 DEF IsPlace
  <2>2. CASE ~(k <= size)
    <3>1. pos[k] = to BY <2>2, <1>12
    <3> QED BY <3>1, <1>11
  <2> QED BY <2>1, <2>2
<1>14. ASSUME NEW k \in 1 .. size PROVE IsStep(S, bytes[k], pos[k], pos[k + 1])
  <2>1. pos[k] = <<f, j, k>> BY <1>12
  <2>2. pos[k + 1] = IF k < size THEN <<f, j, k + 1>> ELSE to BY <1>12
  <2>3. PICK p : p = <<f, j, k>> OBVIOUS
  <2>4. IsSpot(S, p) /\ bytes[k] = ByteAt(S, p) /\ NextSpot(S, p) = IF k < size THEN <<f, j, k + 1>> ELSE to
    BY <2>3, <1>10
  <2> QED BY <2>1, <2>2, <2>3, <2>4 DEF IsStep
<1>15. pos[1] = <<f, j, 1>> /\ pos[size + 1] = to BY <1>5, <1>12
<1>16. IsPath(S, bytes, pos, <<f, j, 1>>, to)
  BY ONLY <1>8, <1>13, <1>14, <1>15 DEF IsPath
<1> QED BY <1>1, <1>3, <1>4, <1>6, <1>16 DEF Passes

\* Without its last byte, a line is not complete.
LEMMA PassesShort ==
  ASSUME NEW S, Accepted(S), NEW bytes, NEW from, NEW to, Passes(S, bytes, from, to), to[3] = 1, Len(bytes) # 0
  PROVE  \E mid : Passes(S, SubSeq(bytes, 1, Len(bytes) - 1), from, mid) /\ mid[3] # 1
<1>1. PICK pos : IsPath(S, bytes, pos, from, to) BY DEF Passes
<1>12. Len(bytes) - 1 \in Nat /\ (Len(bytes) - 1) + 1 = Len(bytes) BY <1>1 DEF IsPath
<1>2. PICK n \in Nat : n + 1 = Len(bytes) BY <1>12
<1>3. PICK a : a = SubSeq(bytes, 1, n) OBVIOUS
<1>4. a \in Seq(LineBytes) /\ Len(a) = n /\ \A k \in 1 .. n : a[k] = bytes[k] BY <1>1, <1>2, <1>3 DEF IsPath
<1>5. IsPath(S, a, pos, from, pos[n + 1]) BY <1>1, <1>2, <1>4 DEF IsPath
<1>6. IsPlace(S, pos[n + 1]) /\ IsStep(S, bytes[n + 1], pos[n + 1], to)
  <2>1. n + 1 \in 1 .. Len(bytes) /\ n + 1 \in 1 .. Len(bytes) + 1 /\ (n + 1) + 1 = Len(bytes) + 1 BY <1>2
  <2> QED BY <1>1, <2>1 DEF IsPath
<1>7. PICK p \in Spots : p = pos[n + 1] BY <1>6 DEF IsPlace
<1>8. IsSpot(S, p) /\ to = NextSpot(S, p) BY <1>6, <1>7 DEF IsStep
<1>9. SizeOf(LineAt(S, p)) \in Nat /\ SizeOf(LineAt(S, p)) >= 2 BY <1>8, SpotIs
<1>10. p[3] # 1
  <2> SUFFICES ASSUME p[3] = 1 PROVE FALSE OBVIOUS
  <2>1. to = <<p[1], p[2], p[3] + 1>> BY <1>8, <1>9 DEF NextSpot
  <2> QED BY <2>1
<1>11. Len(bytes) - 1 = n BY <1>2
<1> QED BY <1>3, <1>5, <1>7, <1>10, <1>11 DEF Passes

FrameLines == {LineOf(frame, i) : frame \in Frames, i \in Nat}
\* The writer: j lines of the first frame that is queued are written.
Writes(S, W, Q, j) ==
  /\ W \in Seq(Frames) /\ Q \in Seq(Seq(FrameLines)) /\ j \in Nat
  /\ Len(S) = Len(W) + Len(Q) /\ \A i \in 1 .. Len(W) : W[i] = S[i]
  /\ Len(Q) = 0 => j = 0
  /\ Len(Q) # 0 => /\ j < CountOf(S[Len(W) + 1]) /\ Len(Q[1]) = CountOf(S[Len(W) + 1]) - j
                   /\ \A i \in 1 .. Len(Q[1]) : Q[1][i] = LineOf(S[Len(W) + 1], j + i)
  /\ \A i \in 2 .. Len(Q) : Q[i] = Encode(S[Len(W) + i])
\* The reader is at p, and the pipe goes to the place to.
Reads(S, B, G, R, P, p, to) ==
  /\ IsPlace(S, p) /\ Passes(S, P, p, to)
  /\ B = Unfinished(S, p) /\ G = Gathered(S, p) /\ R = [i \in 1 .. p[1] - 1 |-> S[i]]
Meets(S, B, G, R, P, W, j, open) ==
  \E to : /\ \E p : Reads(S, B, G, R, P, p, to)
          /\ to = <<Len(W) + 1, j, 1>> \/ (~open /\ to[3] # 1)

FramingInv ==
  /\ Accepted(sent) /\ ended \in {"no", "yes", "read"} /\ failed \in BOOLEAN /\ (failed => ended = "read")
  /\ ended = "read" => pipe = <<>> /\ (~failed => buffered = <<>> /\ gathered = NothingGathered)
  /\ \E j : Writes(sent, whole, queue, j) /\ Meets(sent, buffered, gathered, got, pipe, whole, j, ended = "no")

LEMMA InInit == FramingInit => FramingInv
<1> SUFFICES ASSUME FramingInit PROVE FramingInv OBVIOUS
<1>1. Accepted(sent) BY DEF FramingInit, Accepted
<1>2. Writes(sent, whole, queue, 0) BY DEF FramingInit, Writes
<1>3. PICK p : p = <<1, 0, 1>> OBVIOUS
<1>4. p \in Spots /\ p[1] = 1 /\ p[2] = 0 /\ p[3] = 1 BY <1>3 DEF Spots
<1>5. IsPlace(sent, p) BY <1>3, <1>4 DEF FramingInit, IsPlace
<1>6. PICK pos : pos = [k \in 1 .. 1 |-> p] OBVIOUS
<1>7. IsPath(<<>>, <<>>, pos, p, p) BY <1>5, <1>6 DEF IsPath, FramingInit
<1>8. Passes(sent, pipe, p, p) BY <1>7 DEF Passes, FramingInit
<1>9. buffered = Unfinished(sent, p) BY <1>4 DEF FramingInit, Unfinished
<1>10. gathered = Gathered(sent, p) BY <1>4 DEF FramingInit, Gathered
<1>11. got = [i \in 1 .. p[1] - 1 |-> sent[i]] BY <1>4 DEF FramingInit
<1>12. Reads(sent, buffered, gathered, got, pipe, p, p) BY <1>5, <1>8, <1>9, <1>10, <1>11 DEF Reads
<1>13. p = <<Len(whole) + 1, 0, 1>> BY <1>3 DEF FramingInit
<1>14. Meets(sent, buffered, gathered, got, pipe, whole, 0, ended = "no") BY <1>12, <1>13 DEF Meets
<1> QED BY <1>1, <1>2, <1>14 DEF FramingInv, FramingInit

\* What is returned
LEMMA ReadsPrefix ==
  ASSUME NEW S, Accepted(S), NEW p, IsPlace(S, p), NEW R, R = [i \in 1 .. p[1] - 1 |-> S[i]]
  PROVE  IsPrefix(R, S) /\ R \in Seq(Frames) /\ Len(R) = p[1] - 1 /\ p[1] - 1 <= Len(S)
<1>1. S \in Seq(Frames) /\ Len(S) \in Nat BY DEF Accepted
<1>2. p[1] \in Nat /\ p[1] # 0 /\ p[1] <= Len(S) + 1 BY <1>1 DEF IsPlace, IsSpot, Spots
<1>3. PICK n \in Nat : n = p[1] - 1 /\ n <= Len(S)
  <2>1. p[1] - 1 \in Nat /\ p[1] - 1 <= Len(S) BY <1>1, <1>2
  <2> QED BY <2>1
<1>4. R = [i \in 1 .. n |-> S[i]] /\ R \in Seq(Frames) /\ Len(R) = n
  <2>1. R = [i \in 1 .. n |-> S[i]] BY <1>3
  <2>2. \A i \in 1 .. n : S[i] \in Frames BY <1>1, <1>3
  <2>3. R \in Seq(Frames) BY ONLY <2>1, <2>2, n \in Nat
  <2>4. Len(R) = n BY ONLY <2>1, n \in Nat
  <2> QED BY <2>1, <2>3, <2>4
<1>5. SubSeq(R, 1, n) = SubSeq(S, 1, n) BY <1>1, <1>3, <1>4
<1>6. IsPrefix(R, S) BY <1>1, <1>3, <1>4, <1>5 DEF IsPrefix
<1> QED BY <1>3, <1>4, <1>6

LEMMA ArriveFromInv == FramingInv => FramesArriveWhole
<1> SUFFICES ASSUME FramingInv PROVE FramesArriveWhole OBVIOUS
<1>1. Accepted(sent) /\ (failed => ended = "read") BY DEF FramingInv
<1>2. PICK j : Writes(sent, whole, queue, j) /\ Meets(sent, buffered, gathered, got, pipe, whole, j, ended = "no")
  BY DEF FramingInv
<1>3. PICK to : /\ \E p : Reads(sent, buffered, gathered, got, pipe, p, to)
                /\ to = <<Len(whole) + 1, j, 1>> \/ (ended # "no" /\ to[3] # 1) BY <1>2 DEF Meets
<1>4. PICK p : Reads(sent, buffered, gathered, got, pipe, p, to) BY <1>3
<1>5. IsPlace(sent, p) /\ p \in Spots BY <1>4 DEF Reads, IsPlace
<1>6. got = [i \in 1 .. p[1] - 1 |-> sent[i]] BY <1>4 DEF Reads
<1>7. IsPrefix(got, sent) /\ got \in Seq(Frames) /\ Len(got) = p[1] - 1 BY <1>1, <1>5, <1>6, ReadsPrefix
<1>8. ASSUME ended = "read", ~failed PROVE got = whole
  <2>1. pipe = <<>> /\ buffered = <<>> /\ gathered = NothingGathered BY <1>8 DEF FramingInv
  <2>2. to = p
    <3>1. PICK pos : IsPath(sent, pipe, pos, p, to) BY <1>4 DEF Reads, Passes
    <3>2. Len(pipe) + 1 = 1 BY <2>1
    <3> QED BY <3>1, <3>2 DEF IsPath
  <2>3. p[3] = 1
    <3>1. PICK n \in Nat : n = p[3] - 1
      <4>1. p[3] - 1 \in Nat BY <1>5 DEF Spots
      <4> QED BY <4>1
    <3>2. buffered = [k \in 1 .. n |-> [line |-> LineAt(sent, p), at |-> k]] BY <1>4, <3>1 DEF Reads, Unfinished
    <3>3. 1 .. n = DOMAIN buffered BY <3>2
    <3>4. 1 .. n = {} BY <3>3, <2>1
    <3>5. n = 0 BY <3>4
    <3> QED BY <3>1, <3>5, <1>5 DEF Spots
  <2>4. to = <<Len(whole) + 1, j, 1>> BY <1>3, <2>2, <2>3
  <2>5. p[1] - 1 = Len(whole)
    <3>1. Len(whole) \in Nat BY <1>2 DEF Writes
    <3> QED BY <3>1, <2>2, <2>4
  <2>6. whole \in Seq(Frames) /\ \A i \in 1 .. Len(whole) : whole[i] = sent[i] BY <1>2 DEF Writes
  <2>7. got = [i \in 1 .. Len(whole) |-> whole[i]] BY <1>6, <2>5, <2>6
  <2> QED BY <2>6, <2>7
<1> QED BY <1>1, <1>7, <1>8 DEF FramesArriveWhole

LEMMA AcceptedMore ==
  ASSUME NEW S, Accepted(S), NEW frame \in Frames, frame.id = Len(S) + 1, frame.length + 1 <= MaxFrame \/ frame.length <= MaxWhole,
         NEW T, T = Append(S, frame)
  PROVE  Accepted(T)
<1>1. S \in Seq(Frames) /\ T \in Seq(Frames) /\ Len(T) = Len(S) + 1 /\ Len(S) \in Nat BY DEF Accepted
<1>2. ASSUME NEW i \in 1 .. Len(T) PROVE T[i].id = i /\ (T[i].length + 1 <= MaxFrame \/ T[i].length <= MaxWhole)
  <2>1. CASE i \in 1 .. Len(S)
    <3>1. T[i] = S[i] BY <1>1, <2>1
    <3> QED BY <2>1, <3>1 DEF Accepted
  <2>2. CASE i = Len(S) + 1
    <3>1. T[i] = frame BY <1>1, <2>2
    <3> QED BY <2>2, <3>1
  <2> QED BY <1>1, <2>1, <2>2
<1> QED BY <1>1, <1>2 DEF Accepted

LEMMA ReadsStay ==
  ASSUME NEW S, Accepted(S), NEW frame \in Frames, NEW T, T = Append(S, frame), Accepted(T),
         NEW B, NEW G, NEW R, NEW P, NEW p, NEW to, Reads(S, B, G, R, P, p, to)
  PROVE  Reads(T, B, G, R, P, p, to)
<1>1. IsPlace(S, p) /\ Passes(S, P, p, to) /\ p \in Spots BY DEF Reads, IsPlace
<1>2. IsPlace(T, p) BY <1>1, PlaceStays
<1>3. Passes(T, P, p, to) BY <1>1, PassesStay
<1>4. S \in Seq(Frames) /\ Len(S) \in Nat BY DEF Accepted
<1>5. Unfinished(T, p) = Unfinished(S, p) /\ Gathered(T, p) = Gathered(S, p)
  <2>1. CASE IsSpot(S, p)
    <3>1. LineAt(T, p) = LineAt(S, p) /\ T[p[1]] = S[p[1]] BY <1>1, <2>1, SpotStays
    <3> QED BY <3>1 DEF Unfinished, Gathered
  <2>2. CASE p = <<Len(S) + 1, 0, 1>>
    <3>1. p[2] = 0 /\ p[3] = 1 BY <2>2
    <3> QED BY <3>1 DEF Unfinished, Gathered
  <2> QED BY <1>1, <2>1, <2>2 DEF IsPlace
<1>6. [i \in 1 .. p[1] - 1 |-> T[i]] = [i \in 1 .. p[1] - 1 |-> S[i]]
  <2>4. R = [i \in 1 .. p[1] - 1 |-> S[i]] BY DEF Reads
  <2>5. p[1] - 1 <= Len(S) BY <1>1, <2>4, ReadsPrefix
  <2>6. p[1] - 1 \in Nat BY <1>1 DEF Spots
  <2>1. p[1] - 1 <= Len(S) /\ p[1] - 1 \in Nat BY <2>5, <2>6
  <2>2. \A i \in 1 .. p[1] - 1 : i \in 1 .. Len(S) BY <2>1, <1>4
  <2>3. \A i \in 1 .. p[1] - 1 : T[i] = S[i] BY <2>2, <1>4
  <2> QED BY <2>3
<1> QED BY <1>2, <1>3, <1>5, <1>6 DEF Reads

LEMMA LinesAre ==
  ASSUME NEW frame \in Frames
  PROVE  /\ Encode(frame) \in Seq(FrameLines) /\ Len(Encode(frame)) = CountOf(frame) /\ CountOf(frame) \in Nat \ {0}
         /\ \A i \in 1 .. CountOf(frame) : Encode(frame)[i] = LineOf(frame, i)
<1>1. PICK c \in Nat \ {0} : c = CountOf(frame) BY CountIs
<1>2. PICK e : e = Encode(frame) /\ e = [i \in 1 .. c |-> LineOf(frame, i)] BY <1>1, EncodeIs
<1>3. \A i \in 1 .. c : LineOf(frame, i) \in FrameLines BY DEF FrameLines
<1>4. e \in Seq(FrameLines) /\ Len(e) = c BY <1>2, <1>3
<1> QED BY <1>1, <1>2, <1>4

LEMMA WritesMore ==
  ASSUME NEW S, Accepted(S), NEW frame \in Frames, NEW T, T = Append(S, frame),
         NEW W, NEW Q, NEW j, Writes(S, W, Q, j)
  PROVE  Writes(T, W, Append(Q, Encode(frame)), j)
<1>1. PICK e \in Seq(FrameLines) : e = Encode(frame) BY LinesAre
<1>2. PICK c \in Nat : c = CountOf(frame) /\ c # 0 /\ Len(e) = c /\ \A i \in 1 .. c : e[i] = LineOf(frame, i) BY <1>1, LinesAre
<1>3. S \in Seq(Frames) BY DEF Accepted
<1>4. W \in Seq(Frames) /\ Q \in Seq(Seq(FrameLines)) /\ j \in Nat /\ Len(S) = Len(W) + Len(Q) BY DEF Writes
<1>5. PICK w \in Nat : w = Len(W) BY <1>4
<1>6. PICK n \in Nat : n = Len(Q) BY <1>4
<1>7. PICK N : N = Append(Q, e) OBVIOUS
<1>8. N \in Seq(Seq(FrameLines)) /\ Len(N) = n + 1 /\ N[n + 1] = e /\ \A i \in 1 .. n : N[i] = Q[i] BY <1>1, <1>4, <1>6, <1>7
<1>14. PICK m \in Nat : m = Len(S) BY <1>3
<1>15. m = w + n BY <1>4, <1>5, <1>6, <1>14
<1>16. Len(T) = m + 1 /\ T[m + 1] = frame /\ \A i \in 1 .. m : T[i] = S[i] BY <1>3, <1>14
<1>9. Len(T) = w + Len(N) /\ T[w + n + 1] = frame /\ \A i \in 1 .. w + n : T[i] = S[i] BY <1>8, <1>15, <1>16
<1>10. \A i \in 1 .. w : W[i] = T[i]
  <2>1. \A i \in 1 .. w : i \in 1 .. w + n BY <1>5, <1>6
  <2> QED BY <2>1, <1>5, <1>9 DEF Writes
<1>11. /\ j < CountOf(T[w + 1]) /\ Len(N[1]) = CountOf(T[w + 1]) - j
       /\ \A i \in 1 .. Len(N[1]) : N[1][i] = LineOf(T[w + 1], j + i)
  <2>1. CASE n = 0
    <3>1. N[1] = e /\ T[w + 1] = frame BY <2>1, <1>8, <1>9
    <3>2. j = 0 BY <2>1, <1>6 DEF Writes
    <3>3. \A i \in 1 .. c : e[i] = LineOf(frame, j + i)
      <4>1. \A i \in 1 .. c : j + i = i BY <3>2
      <4> QED BY <4>1, <1>2
    <3> QED BY <3>1, <3>2, <3>3, <1>2
  <2>2. CASE n # 0
    <3>3. 1 \in 1 .. n /\ w + 1 \in 1 .. w + n BY <2>2
    <3>1. N[1] = Q[1] /\ T[w + 1] = S[w + 1] BY ONLY <3>3, <1>8, <1>9
    <3>2. /\ j < CountOf(S[w + 1]) /\ Len(Q[1]) = CountOf(S[w + 1]) - j
          /\ \A i \in 1 .. Len(Q[1]) : Q[1][i] = LineOf(S[w + 1], j + i) BY <2>2, <1>5, <1>6 DEF Writes
    <3> QED BY <3>1, <3>2
  <2> QED BY <2>1, <2>2
<1>12. ASSUME NEW i \in 2 .. Len(N) PROVE N[i] = Encode(T[w + i])
  <2>1. CASE i = n + 1
    <3>1. w + i = w + n + 1 BY <2>1
    <3> QED BY <2>1, <3>1, <1>1, <1>8, <1>9
  <2>2. CASE i # n + 1
    <3>1. i \in 2 .. n /\ i \in 1 .. n /\ w + i \in 1 .. w + n BY <2>2, <1>8
    <3>2. Q[i] = Encode(S[w + i]) BY <3>1, <1>5, <1>6 DEF Writes
    <3> QED BY <3>1, <3>2, <1>8, <1>9
  <2> QED BY <2>1, <2>2
<1>13. Writes(T, W, N, j)
  <2>1. Len(N) # 0 BY <1>8
  <2> QED BY ONLY <2>1, <1>4, <1>5, <1>8, <1>9, <1>10, <1>11, <1>12 DEF Writes
<1> QED BY <1>1, <1>7, <1>13

LEMMA InEnqueue == ASSUME FramingInv, NEW length \in Lengths, Enqueue(length) PROVE FramingInv'
<1>1. Accepted(sent) BY DEF FramingInv
<1>2. PICK frame : frame = [id |-> Len(sent) + 1, length |-> length] OBVIOUS
<1>3. PICK T : T = Append(sent, frame) OBVIOUS
<1>4. PICK N : N = Append(queue, Encode(frame)) OBVIOUS
<1>5. frame \in Frames /\ frame.id = Len(sent) + 1 /\ frame.length = length
  <2>1. length \in Nat \ {0} BY FramingAssumption
  <2>2. Len(sent) \in Nat BY <1>1 DEF Accepted
  <2> QED BY <2>1, <2>2, <1>2 DEF Frames
<1>6. frame.length + 1 <= MaxFrame \/ frame.length <= MaxWhole BY <1>5 DEF Enqueue, Encodable
<1>7. Accepted(T) BY <1>1, <1>3, <1>5, <1>6, AcceptedMore
<1>8. /\ sent' = T /\ queue' = N /\ ended = "no" /\ ended' = ended /\ failed' = failed /\ whole' = whole /\ pipe' = pipe
      /\ buffered' = buffered /\ gathered' = gathered /\ got' = got
  BY <1>2, <1>3, <1>4 DEF Enqueue
<1>9. PICK j : Writes(sent, whole, queue, j) /\ Meets(sent, buffered, gathered, got, pipe, whole, j, ended = "no")
  BY DEF FramingInv
<1>10. Writes(T, whole, N, j) BY <1>1, <1>3, <1>4, <1>5, <1>9, WritesMore
<1>11. PICK to : /\ \E p : Reads(sent, buffered, gathered, got, pipe, p, to)
                 /\ to = <<Len(whole) + 1, j, 1>> \/ (~(ended = "no") /\ to[3] # 1) BY <1>9 DEF Meets
<1>12. PICK p : Reads(sent, buffered, gathered, got, pipe, p, to) BY <1>11
<1>13. Reads(T, buffered, gathered, got, pipe, p, to) BY <1>1, <1>3, <1>5, <1>7, <1>12, ReadsStay
<1>14. Meets(T, buffered, gathered, got, pipe, whole, j, ended = "no") BY <1>11, <1>13 DEF Meets
<1>15. Writes(sent', whole', queue', j) /\ Meets(sent', buffered', gathered', got', pipe', whole', j, ended' = "no")
  BY <1>8, <1>10, <1>14
<1>16. failed \in BOOLEAN /\ (failed => ended = "read") BY DEF FramingInv
<1> QED BY <1>7, <1>8, <1>15, <1>16 DEF FramingInv

LEMMA InNegotiate == ASSUME FramingInv, Negotiate PROVE FramingInv'
BY DEF FramingInv, Negotiate

LEMMA InFinish == ASSUME FramingInv, Finish PROVE FramingInv'
<1>1. /\ ended = "yes" /\ pipe = <<>> /\ ended' = "read" /\ failed' = (buffered # <<>> \/ gathered # NothingGathered)
      /\ sent' = sent /\ queue' = queue /\ whole' = whole /\ pipe' = pipe /\ buffered' = buffered /\ gathered' = gathered /\ got' = got
  BY DEF Finish
<1>2. PICK j : Writes(sent, whole, queue, j) /\ Meets(sent, buffered, gathered, got, pipe, whole, j, ended = "no")
  BY DEF FramingInv
<1>3. Meets(sent, buffered, gathered, got, pipe, whole, j, FALSE) BY <1>1, <1>2 DEF Meets
<1>4. Meets(sent', buffered', gathered', got', pipe', whole', j, ended' = "no") BY <1>1, <1>3 DEF Meets
<1>5. Writes(sent', whole', queue', j) BY <1>1, <1>2
<1>6. failed' \in BOOLEAN /\ (~failed' => buffered' = <<>> /\ gathered' = NothingGathered) BY <1>1
<1>7. Accepted(sent') BY <1>1 DEF FramingInv
<1> QED BY <1>1, <1>4, <1>5, <1>6, <1>7 DEF FramingInv

LEMMA InWriterEnds == ASSUME FramingInv, NEW cut \in 0 .. Least(1, Len(pipe)), WriterEnds(cut) PROVE FramingInv'
<1>1. PICK P : P = SubSeq(pipe, 1, Len(pipe) - cut) OBVIOUS
<1>2. /\ ended = "no" /\ ended' = "yes" /\ pipe' = P /\ sent' = sent /\ queue' = queue /\ whole' = whole
      /\ buffered' = buffered /\ gathered' = gathered /\ got' = got /\ failed' = failed
  BY <1>1 DEF WriterEnds
<1>3. PICK j : Writes(sent, whole, queue, j) /\ Meets(sent, buffered, gathered, got, pipe, whole, j, ended = "no")
  BY DEF FramingInv
<1>4. PICK to : (\E p : Reads(sent, buffered, gathered, got, pipe, p, to)) /\ to = <<Len(whole) + 1, j, 1>>
  BY <1>2, <1>3 DEF Meets
<1>5. PICK p : Reads(sent, buffered, gathered, got, pipe, p, to) BY <1>4
<1>6. Accepted(sent) /\ Passes(sent, pipe, p, to) /\ to[3] = 1 BY <1>4, <1>5 DEF FramingInv, Reads
<1>7. pipe \in Seq(LineBytes) BY <1>6 DEF Passes, IsPath
<1>8. \E mid : Passes(sent, P, p, mid) /\ (mid = to \/ mid[3] # 1)
  <2>1. CASE cut = 0
    <3>1. P = pipe BY <2>1, <1>1, <1>7
    <3> QED BY <3>1, <1>6
  <2>2. CASE cut # 0
    <3>1. cut = 1 /\ Len(pipe) # 0 BY <2>2, <1>7 DEF Least
    <3> QED BY <3>1, <1>1, <1>6, PassesShort
  <2> QED BY <2>1, <2>2
<1>9. PICK mid : Passes(sent, P, p, mid) /\ (mid = to \/ mid[3] # 1) BY <1>8
<1>10. Reads(sent, buffered, gathered, got, P, p, mid) BY <1>5, <1>9 DEF Reads
<1>11. Meets(sent, buffered, gathered, got, P, whole, j, FALSE) BY <1>4, <1>9, <1>10 DEF Meets
<1>12. Meets(sent', buffered', gathered', got', pipe', whole', j, ended' = "no") BY <1>2, <1>11 DEF Meets
<1>13. Writes(sent', whole', queue', j) BY <1>2, <1>3
<1>14. Accepted(sent') /\ failed' \in BOOLEAN /\ ~failed' BY <1>2 DEF FramingInv
<1> QED BY <1>2, <1>12, <1>13, <1>14 DEF FramingInv

\* The line that is written next
LEMMA NextLine ==
  ASSUME NEW S, Accepted(S), NEW W, NEW Q, NEW j, Writes(S, W, Q, j), Len(Q) # 0
  PROVE  /\ j \in Nat /\ Len(W) \in Nat /\ Len(W) + 1 \in 1 .. Len(S) /\ S[Len(W) + 1] \in Frames
         /\ j < CountOf(S[Len(W) + 1]) /\ Head(Q[1]) = LineOf(S[Len(W) + 1], j + 1) /\ Head(Q[1]).frame = S[Len(W) + 1]
<1>1. PICK w \in Nat : w = Len(W) BY DEF Writes
<1>2. PICK n \in Nat : n = Len(Q) /\ n # 0 BY DEF Writes
<1>3. Len(S) = w + n BY <1>1, <1>2 DEF Writes
<1>4. w + 1 \in 1 .. Len(S) BY <1>2, <1>3
<1>5. PICK frame \in Frames : frame = S[w + 1] BY <1>4 DEF Accepted
<1>6. PICK c \in Nat : c = CountOf(frame) BY CountIs
<1>7. j \in Nat /\ j < c BY <1>1, <1>2, <1>5, <1>6 DEF Writes
<1>8. PICK q \in Seq(FrameLines) : q = Q[1] BY <1>2 DEF Writes
<1>9. Len(q) = c - j /\ \A i \in 1 .. Len(q) : q[i] = LineOf(frame, j + i) BY <1>1, <1>2, <1>5, <1>6, <1>8 DEF Writes
<1>10. Head(q) = LineOf(frame, j + 1)
  <2>1. 1 \in 1 .. Len(q) /\ q # <<>> BY <1>7, <1>8, <1>9
  <2> QED BY <2>1, <1>8, <1>9
<1>11. LineOf(frame, j + 1).frame = frame
  <2>1. j + 1 \in 1 .. CountOf(frame) BY <1>6, <1>7
  <2> QED BY <2>1, <1>6, LineIs
<1> QED BY <1>1, <1>4, <1>5, <1>6, <1>7, <1>8, <1>10, <1>11

LEMMA WritesLast ==
  ASSUME NEW S, Accepted(S), NEW W, NEW Q, NEW j, Writes(S, W, Q, j), Len(Q) # 0, Len(Q[1]) = 1
  PROVE  Writes(S, Append(W, S[Len(W) + 1]), RemoveAt(Q, 1), 0) /\ j + 1 = CountOf(S[Len(W) + 1])
<1>1. PICK w \in Nat : w = Len(W) BY DEF Writes
<1>2. PICK n \in Nat : n + 1 = Len(Q)
  <2>1. Len(Q) \in Nat BY DEF Writes
  <2>2. Len(Q) - 1 \in Nat /\ (Len(Q) - 1) + 1 = Len(Q) BY <2>1
  <2> QED BY <2>2
<1>3. Len(S) = (w + 1) + n
  <2>1. Len(S) = Len(W) + Len(Q) BY DEF Writes
  <2> QED BY <2>1, <1>1, <1>2
<1>4. PICK frame \in Frames : frame = S[w + 1] BY <1>1, NextLine
<1>5. PICK N : N = RemoveAt(Q, 1) OBVIOUS
<1>6. Q \in Seq(Seq(FrameLines)) /\ W \in Seq(Frames) /\ j \in Nat BY DEF Writes
<1>7. N = Tail(Q)
  <2>1. 1 - 1 = 0 /\ 1 + 1 = 2 OBVIOUS
  <2>2. SubSeq(Q, 1, 0) = <<>> BY <1>6
  <2>3. SubSeq(Q, 2, Len(Q)) = Tail(Q) /\ Tail(Q) \in Seq(Seq(FrameLines)) BY <1>2, <1>6
  <2>4. N = SubSeq(Q, 1, 0) \o SubSeq(Q, 2, Len(Q)) BY <1>5, <2>1 DEF RemoveAt
  <2>5. \A t \in Seq(Seq(FrameLines)) : <<>> \o t = t OBVIOUS
  <2> QED BY <2>2, <2>3, <2>4, <2>5
<1>8. N \in Seq(Seq(FrameLines)) /\ Len(N) = n /\ \A i \in 1 .. n : N[i] = Q[i + 1] BY <1>2, <1>6, <1>7
<1>9. PICK V : V = Append(W, frame) OBVIOUS
<1>10. V \in Seq(Frames) /\ Len(V) = w + 1 /\ V[w + 1] = frame /\ \A i \in 1 .. w : V[i] = W[i] BY <1>1, <1>4, <1>6, <1>9
<1>11. \A i \in 1 .. Len(V) : V[i] = S[i]
  <2>1. \A i \in 1 .. w : W[i] = S[i] BY <1>1 DEF Writes
  <2>2. \A i \in 1 .. w + 1 : i \in 1 .. w \/ i = w + 1 OBVIOUS
  <2> QED BY <2>1, <2>2, <1>4, <1>10
<1>12. ASSUME NEW i \in 1 .. n PROVE N[i] = Encode(S[Len(V) + i])
  <2>1. i + 1 \in 2 .. Len(Q) /\ w + (i + 1) = Len(V) + i BY <1>2, <1>10
  <2>2. Q[i + 1] = Encode(S[w + (i + 1)]) BY <2>1, <1>1 DEF Writes
  <2> QED BY <2>1, <2>2, <1>8
<1>13. ASSUME n # 0
       PROVE  /\ 0 < CountOf(S[Len(V) + 1]) /\ Len(N[1]) = CountOf(S[Len(V) + 1]) - 0
              /\ \A i \in 1 .. Len(N[1]) : N[1][i] = LineOf(S[Len(V) + 1], 0 + i)
  <2>1. Len(V) + 1 \in 1 .. Len(S) /\ 1 \in 1 .. n BY <1>3, <1>10, <1>13
  <2>2. PICK next \in Frames : next = S[Len(V) + 1] BY <2>1 DEF Accepted
  <2>3. N[1] = Encode(next) BY <2>1, <2>2, <1>12
  <2>4. PICK c \in Nat \ {0} : c = CountOf(next) /\ Len(Encode(next)) = c /\ \A i \in 1 .. c : Encode(next)[i] = LineOf(next, i)
    BY LinesAre
  <2>5. \A i \in 1 .. c : 0 + i = i OBVIOUS
  <2> QED BY <2>2, <2>3, <2>4, <2>5
<1>14. Writes(S, V, N, 0)
  <2>1. Len(S) = Len(V) + Len(N) BY <1>3, <1>8, <1>10
  <2>2. \A i \in 2 .. Len(N) : i \in 1 .. n BY <1>8
  <2>3. Len(N) = n /\ N \in Seq(Seq(FrameLines)) BY <1>8
  <2> QED BY ONLY <2>1, <2>2, <2>3, <1>10, <1>11, <1>12, <1>13 DEF Writes
<1>15. j + 1 = CountOf(frame)
  <2>1. 1 = CountOf(frame) - j BY <1>1, <1>4 DEF Writes
  <2>2. CountOf(frame) \in Nat BY CountIs
  <2> QED BY <2>1, <2>2, <1>6
<1> QED BY <1>1, <1>4, <1>5, <1>9, <1>14, <1>15

LEMMA WritesNext ==
  ASSUME NEW S, Accepted(S), NEW W, NEW Q, NEW j, Writes(S, W, Q, j), Len(Q) # 0, Len(Q[1]) # 1
  PROVE  Writes(S, W, [Q EXCEPT ![1] = Tail(@)], j + 1) /\ j + 1 < CountOf(S[Len(W) + 1])
<1>1. PICK w \in Nat : w = Len(W) BY DEF Writes
<1>2. PICK frame \in Frames : frame = S[w + 1] BY <1>1, NextLine
<1>3. PICK c \in Nat : c = CountOf(frame) BY CountIs
<1>4. Q \in Seq(Seq(FrameLines)) /\ W \in Seq(Frames) /\ j \in Nat BY DEF Writes
<1>5. PICK q \in Seq(FrameLines) : q = Q[1] BY <1>4
<1>6. j < c /\ Len(q) = c - j /\ \A i \in 1 .. Len(q) : q[i] = LineOf(frame, j + i) BY <1>1, <1>2, <1>3, <1>5 DEF Writes
<1>7. j + 1 < c /\ Len(q) # 0 BY <1>3, <1>4, <1>5, <1>6
<1>8. PICK t : t = Tail(q) OBVIOUS
<1>9. t \in Seq(FrameLines) /\ Len(t) = c - (j + 1) /\ \A i \in 1 .. Len(t) : t[i] = q[i + 1] BY <1>3, <1>4, <1>5, <1>6, <1>7, <1>8
<1>10. ASSUME NEW i \in 1 .. Len(t) PROVE t[i] = LineOf(frame, (j + 1) + i)
  <2>1. i + 1 \in 1 .. Len(q) /\ j + (i + 1) = (j + 1) + i BY <1>4, <1>6, <1>9, <1>3
  <2> QED BY <2>1, <1>6, <1>9
<1>11. PICK N : N = [Q EXCEPT ![1] = Tail(@)] OBVIOUS
<1>12. N \in Seq(Seq(FrameLines)) /\ Len(N) = Len(Q) /\ N[1] = t /\ \A i \in 2 .. Len(N) : N[i] = Q[i]
  <2>1. N = [Q EXCEPT ![1] = t] BY <1>5, <1>8, <1>11
  <2>2. 1 \in 1 .. Len(Q) BY <1>4
  <2> QED BY <2>1, <2>2, <1>4, <1>9
<1>13. Writes(S, W, N, j + 1)
  <2>1. Len(S) = Len(W) + Len(N) /\ Len(N) # 0 /\ j + 1 \in Nat BY <1>12, <1>4 DEF Writes
  <2>2. \A i \in 1 .. Len(W) : W[i] = S[i] BY DEF Writes
  <2>3. \A i \in 2 .. Len(N) : N[i] = Encode(S[Len(W) + i]) BY <1>12 DEF Writes
  <2>4. j + 1 < CountOf(S[Len(W) + 1]) /\ Len(N[1]) = CountOf(S[Len(W) + 1]) - (j + 1) BY <1>1, <1>2, <1>3, <1>7, <1>9, <1>12
  <2>5. \A i \in 1 .. Len(N[1]) : N[1][i] = LineOf(S[Len(W) + 1], (j + 1) + i) BY <1>1, <1>2, <1>10, <1>12
  <2> QED BY ONLY <2>1, <2>2, <2>3, <2>4, <2>5, <1>4, <1>12 DEF Writes
<1> QED BY <1>1, <1>2, <1>3, <1>7, <1>11, <1>13

LEMMA InWriteLine == ASSUME FramingInv, NEW i \in 1 .. MaxFrames, WriteLine(i) PROVE FramingInv'
<1>1. i = 1 /\ ended = "no" /\ 1 \in DOMAIN queue BY DEF WriteLine, HasTurn
<1>2. PICK j : Writes(sent, whole, queue, j) /\ Meets(sent, buffered, gathered, got, pipe, whole, j, ended = "no")
  BY DEF FramingInv
<1>3. Accepted(sent) BY DEF FramingInv
<1>4. Len(queue) # 0
  <2>1. queue \in Seq(Seq(FrameLines)) BY <1>2 DEF Writes
  <2> QED BY <2>1, <1>1
<1>5. PICK w \in Nat : w = Len(whole) BY <1>2 DEF Writes
<1>6. PICK frame \in Frames : frame = sent[w + 1] BY <1>2, <1>3, <1>4, <1>5, NextLine
<1>7. /\ j \in Nat /\ w + 1 \in 1 .. Len(sent) /\ j < CountOf(frame) /\ Head(queue[1]) = LineOf(frame, j + 1)
      /\ Head(queue[1]).frame = frame
  BY <1>2, <1>3, <1>4, <1>5, <1>6, NextLine
<1>8. PICK P : P = pipe \o BytesOf(LineOf(frame, j + 1)) OBVIOUS
<1>9. /\ pipe' = P /\ sent' = sent /\ buffered' = buffered /\ gathered' = gathered /\ got' = got
      /\ failed' = failed /\ ended' = ended
  BY <1>1, <1>7, <1>8 DEF WriteLine
<1>10. PICK to : (\E p : Reads(sent, buffered, gathered, got, pipe, p, to)) /\ to = <<w + 1, j, 1>>
  BY <1>1, <1>2, <1>5 DEF Meets
<1>11. PICK p : Reads(sent, buffered, gathered, got, pipe, p, to) BY <1>10
<1>12. PICK next : next = IF j + 1 < CountOf(frame) THEN <<w + 1, j + 1, 1>> ELSE <<(w + 1) + 1, 0, 1>> OBVIOUS
<1>13. Passes(sent, BytesOf(LineOf(frame, j + 1)), <<w + 1, j, 1>>, next)
  <2>1. PICK f \in 1 .. Len(sent) : f = w + 1 BY <1>7
  <2>2. next = IF j + 1 < CountOf(sent[f]) THEN <<f, j + 1, 1>> ELSE <<f + 1, 0, 1>> BY <2>1, <1>6, <1>12
  <2>3. j < CountOf(sent[f]) BY <2>1, <1>6, <1>7
  <2>4. Passes(sent, BytesOf(LineOf(sent[f], j + 1)), <<f, j, 1>>, next) BY <2>2, <2>3, <1>3, <1>7, LinePasses
  <2> QED BY <2>1, <2>4, <1>6
<1>14. Passes(sent, P, p, next)
  <2>1. Passes(sent, pipe, p, <<w + 1, j, 1>>) BY <1>10, <1>11 DEF Reads
  <2> QED BY <2>1, <1>8, <1>13, PassesOn
<1>15. Reads(sent, buffered, gathered, got, P, p, next) BY <1>11, <1>14 DEF Reads
<1>16. \E k : Writes(sent', whole', queue', k) /\ next = <<Len(whole') + 1, k, 1>>
  <2>1. CASE Len(queue[1]) = 1
    <3>1. PICK V : V = Append(whole, frame) OBVIOUS
    <3>2. PICK N : N = RemoveAt(queue, 1) OBVIOUS
    <3>3. whole' = V /\ queue' = N BY <2>1, <3>1, <3>2, <1>1, <1>7 DEF WriteLine
    <3>4. Writes(sent, V, N, 0) /\ j + 1 = CountOf(frame) BY <2>1, <3>1, <3>2, <1>2, <1>3, <1>4, <1>5, <1>6, WritesLast
    <3>5. Len(V) = w + 1
      <4>1. whole \in Seq(Frames) BY <1>2 DEF Writes
      <4> QED BY <4>1, <3>1, <1>5
    <3>6. next = <<Len(V) + 1, 0, 1>>
      <4>1. CountOf(frame) \in Nat BY CountIs
      <4> QED BY <4>1, <3>4, <3>5, <1>12
    <3> QED BY <3>3, <3>4, <3>6, <1>9
  <2>2. CASE Len(queue[1]) # 1
    <3>1. PICK N : N = [queue EXCEPT ![1] = Tail(@)] OBVIOUS
    <3>2. whole' = whole /\ queue' = N BY <2>2, <3>1, <1>1 DEF WriteLine
    <3>3. Writes(sent, whole, N, j + 1) /\ j + 1 < CountOf(frame) BY <2>2, <3>1, <1>2, <1>3, <1>4, <1>5, <1>6, WritesNext
    <3>4. next = <<Len(whole) + 1, j + 1, 1>> BY <3>3, <1>5, <1>12
    <3> QED BY <3>2, <3>3, <3>4, <1>9
  <2> QED BY <2>1, <2>2
<1>17. PICK k : Writes(sent', whole', queue', k) /\ next = <<Len(whole') + 1, k, 1>> BY <1>16
<1>18. Meets(sent', buffered', gathered', got', pipe', whole', k, ended' = "no") BY <1>9, <1>15, <1>17 DEF Meets
<1>19. Accepted(sent') /\ failed' \in BOOLEAN /\ (failed' => ended' = "read") BY <1>9 DEF FramingInv
<1> QED BY <1>1, <1>9, <1>17, <1>18, <1>19 DEF FramingInv

LEMMA RecordIs ==
  ASSUME NEW b, NEW g, NEW fs, NEW t, NEW d, d = [buffered |-> b, gathered |-> g, frames |-> fs, throw |-> t]
  PROVE  IsDecoder(d) /\ d.buffered = b /\ d.gathered = g /\ d.frames = fs /\ d.throw = t
BY DEF IsDecoder

LEMMA ShortBuffer ==
  ASSUME NEW S, Accepted(S), NEW p, IsPlace(S, p)
  PROVE  ~(Len(Unfinished(S, p)) > MaxFrame) /\ Unfinished(S, p) = [k \in 1 .. p[3] - 1 |-> [line |-> LineAt(S, p), at |-> k]]
<1>1. PICK n \in Nat : n = p[3] - 1
  <2>1. p[3] - 1 \in Nat BY DEF IsPlace, Spots
  <2> QED BY <2>1
<1>2. PICK l : l = LineAt(S, p) OBVIOUS
<1>3. Unfinished(S, p) = [k \in 1 .. n |-> [line |-> l, at |-> k]] BY <1>1, <1>2 DEF Unfinished
<1>4. Len(Unfinished(S, p)) = n BY <1>3
<1>5. n <= MaxFrame
  <2>1. CASE IsSpot(S, p)
    <3>1. SizeOf(LineAt(S, p)) \in Nat /\ SizeOf(LineAt(S, p)) <= MaxFrame BY <2>1, SpotIs DEF IsPlace
    <3> QED BY <2>1, <3>1, <1>1, FramingAssumption DEF IsSpot, IsPlace, Spots
  <2>2. CASE p = <<Len(S) + 1, 0, 1>> BY <2>2, <1>1, FramingAssumption
  <2> QED BY <2>1, <2>2 DEF IsPlace
<1>6. ~(Len(Unfinished(S, p)) > MaxFrame) BY <1>4, <1>5, FramingAssumption
<1>7. Unfinished(S, p) = [k \in 1 .. p[3] - 1 |-> [line |-> LineAt(S, p), at |-> k]] BY DEF Unfinished
<1> QED BY <1>6, <1>7

\* What is returned now comes after what was returned.
LEMMA ReturnsMore ==
  ASSUME NEW S, Accepted(S), NEW a \in Nat, NEW b \in Nat, a <= b, b <= Len(S)
  PROVE  [i \in 1 .. a |-> S[i]] \o [i \in 1 .. b - a |-> S[a + i]] = [i \in 1 .. b |-> S[i]]
<1>1. PICK x : x = [i \in 1 .. a |-> S[i]] OBVIOUS
<1>2. PICK m \in Nat : m = b - a
  <2>1. b - a \in Nat OBVIOUS
  <2> QED BY <2>1
<1>3. PICK y : y = [i \in 1 .. m |-> S[a + i]] OBVIOUS
<1>7. a + m = b BY <1>2
<1>8. S \in Seq(Frames) /\ Len(S) \in Nat BY DEF Accepted
<1>4. x \in Seq(Frames) /\ Len(x) = a
  <2>1. \A i \in 1 .. a : S[i] \in Frames BY <1>8
  <2> QED BY ONLY <2>1, <1>1, a \in Nat
<1>9. y \in Seq(Frames) /\ Len(y) = m
  <2>1. \A i \in 1 .. m : a + i \in 1 .. Len(S) BY <1>7, <1>8
  <2>3. \A k \in 1 .. Len(S) : S[k] \in Frames BY <1>8
  <2>2. \A i \in 1 .. m : S[a + i] \in Frames BY ONLY <2>1, <2>3
  <2> QED BY ONLY <2>2, <1>3, m \in Nat
<1>5. PICK z : z = x \o y OBVIOUS
<1>10. z \in Seq(Frames) /\ Len(z) = a + m BY ONLY <1>4, <1>9, <1>5
<1>6. ASSUME NEW i \in 1 .. a + m PROVE z[i] = S[i]
  <2>1. CASE i <= a
    <3>1. i \in 1 .. a BY <2>1
    <3>2. z[i] = x[i] BY ONLY <3>1, <1>4, <1>9, <1>5, a \in Nat, m \in Nat
    <3> QED BY <3>1, <3>2, <1>1
  <2>2. CASE ~(i <= a)
    <3>1. PICK k \in 1 .. m : k = i - a /\ a + k = i BY <2>2
    <3>3. Len(x) + k \in 1 .. Len(x) + Len(y) /\ ~(Len(x) + k <= Len(x)) /\ (Len(x) + k) - Len(x) = k
      BY ONLY <1>4, <1>9, a \in Nat, m \in Nat, k \in 1 .. m
    <3>4. z[Len(x) + k] = y[k] BY ONLY <3>3, <1>4, <1>9, <1>5
    <3>2. z[a + k] = y[k] BY <3>4, <1>4
    <3> QED BY <3>1, <3>2, <1>3
  <2> QED BY <2>1, <2>2
<1>11. z = [i \in 1 .. a + m |-> S[i]]
  <2>1. z = [i \in 1 .. a + m |-> z[i]] BY ONLY <1>10, a \in Nat, m \in Nat
  <2> QED BY <2>1, <1>6
<1> QED BY <1>1, <1>2, <1>3, <1>5, <1>7, <1>11

LEMMA InPush == ASSUME FramingInv, NEW n \in 1 .. Len(pipe), Push(n) PROVE FramingInv'
<1>1. PICK j : Writes(sent, whole, queue, j) /\ Meets(sent, buffered, gathered, got, pipe, whole, j, ended = "no")
  BY DEF FramingInv
<1>2. PICK to : /\ \E p : Reads(sent, buffered, gathered, got, pipe, p, to)
                /\ to = <<Len(whole) + 1, j, 1>> \/ (~(ended = "no") /\ to[3] # 1) BY <1>1 DEF Meets
<1>3. PICK p : Reads(sent, buffered, gathered, got, pipe, p, to) BY <1>2
<1>4. Accepted(sent) BY DEF FramingInv
<1>5. Passes(sent, pipe, p, to) /\ IsPlace(sent, p) BY <1>3 DEF Reads
<1>6. PICK bytes : bytes = SubSeq(pipe, 1, n) OBVIOUS
<1>7. PICK P : P = SubSeq(pipe, n + 1, Len(pipe)) OBVIOUS
<1>8. \E mid : Passes(sent, bytes, p, mid) /\ Passes(sent, P, mid, to)
  <2>1. n \in 0 .. Len(pipe)
    <3>1. pipe \in Seq(LineBytes) BY <1>5 DEF Passes, IsPath
    <3> QED BY <3>1
  <2> QED BY <2>1, <1>5, <1>6, <1>7, PassesWithin
<1>9. PICK mid : Passes(sent, bytes, p, mid) /\ Passes(sent, P, mid, to) BY <1>8
<1>10. IsPlace(sent, mid)
  <2>1. PICK pos : IsPath(sent, P, pos, mid, to) BY <1>9 DEF Passes
  <2>2. 1 \in 1 .. Len(P) + 1 BY <2>1 DEF IsPath
  <2> QED BY <2>1, <2>2 DEF IsPath
<1>11. PICK t : t = FALSE OBVIOUS
<1>12. PICK before : before = [buffered |-> buffered, gathered |-> gathered, frames |-> <<>>, throw |-> t] OBVIOUS
<1>13. IsDecoder(before) /\ before.buffered = buffered /\ before.gathered = gathered /\ before.frames = <<>> /\ before.throw = t
  BY ONLY <1>12, RecordIs
<1>14. PICK a \in Nat : a = p[1] - 1 /\ a <= Len(sent) /\ p[1] - 1 - a = 0
  <2>1. got = [i \in 1 .. p[1] - 1 |-> sent[i]] BY <1>3 DEF Reads
  <2>2. p[1] - 1 <= Len(sent) BY <2>1, <1>4, <1>5, ReadsPrefix
  <2>3. p[1] - 1 \in Nat BY <1>5 DEF IsPlace, Spots
  <2>4. p[1] - 1 - (p[1] - 1) = 0 BY <2>3
  <2> QED BY <2>2, <2>3, <2>4
<1>15. Decodes(before, sent, a, p)
  <2>1. [i \in 1 .. p[1] - 1 - a |-> sent[a + i]] = <<>> BY <1>14
  <2>2. buffered = Unfinished(sent, p) /\ gathered = Gathered(sent, p) BY <1>3 DEF Reads
  <2>3. before.throw = FALSE BY <1>11, <1>13
  <2> QED BY ONLY <2>1, <2>2, <2>3, <1>13 DEF Decodes
<1>16. PICK d : d = FoldLeft(Feed, before, bytes) OBVIOUS
<1>17. Decodes(d, sent, a, mid) /\ a <= mid[1] - 1
  <2>1. a <= p[1] - 1 BY <1>14
  <2> QED BY <2>1, <1>4, <1>9, <1>15, <1>16, FedAlong
<1>18. d.throw = FALSE /\ d.buffered = Unfinished(sent, mid) /\ d.gathered = Gathered(sent, mid)
       /\ d.frames = [i \in 1 .. mid[1] - 1 - a |-> sent[a + i]] BY <1>17 DEF Decodes
<1>19. ~(Len(d.buffered) > MaxFrame) BY <1>4, <1>10, <1>18, ShortBuffer
<1>20. before = [buffered |-> buffered, gathered |-> gathered, frames |-> <<>>, throw |-> FALSE] BY <1>11, <1>12
<1>21. failed' = FALSE /\ ~failed
  <2>1. failed' = (d.throw \/ Len(d.buffered) > MaxFrame) /\ ~failed BY ONLY <1>6, <1>16, <1>20, Push(n), Zenon DEF Push
  <2> QED BY <2>1, <1>18, <1>19
<1>22. buffered' = d.buffered /\ gathered' = d.gathered /\ got' = got \o d.frames
  BY ONLY <1>6, <1>16, <1>20, <1>21, Push(n), Zenon DEF Push, Remainder
<1>23. pipe' = P /\ sent' = sent /\ queue' = queue /\ whole' = whole /\ ended' = ended
  BY ONLY <1>7, Push(n), Zenon DEF Push
<1>24. got' = [i \in 1 .. mid[1] - 1 |-> sent[i]]
  <2>1. PICK b \in Nat : b = mid[1] - 1 /\ b <= Len(sent)
    <3>1. PICK R : R = [i \in 1 .. mid[1] - 1 |-> sent[i]] OBVIOUS
    <3>2. mid[1] - 1 <= Len(sent) BY <3>1, <1>4, <1>10, ReadsPrefix
    <3>3. mid[1] - 1 \in Nat BY <1>10 DEF IsPlace, Spots
    <3> QED BY <3>2, <3>3
  <2>6. PICK S : S = sent OBVIOUS
  <2>7. a \in Nat /\ b \in Nat /\ a <= b /\ b <= Len(S) /\ Accepted(S) BY <2>1, <2>6, <1>4, <1>14, <1>17
  <2>8. [i \in 1 .. a |-> S[i]] \o [i \in 1 .. b - a |-> S[a + i]] = [i \in 1 .. b |-> S[i]] BY ONLY <2>7, ReturnsMore
  <2>2. [i \in 1 .. a |-> sent[i]] \o [i \in 1 .. b - a |-> sent[a + i]] = [i \in 1 .. b |-> sent[i]] BY <2>6, <2>8
  <2>3. got = [i \in 1 .. a |-> sent[i]] BY <1>3, <1>14 DEF Reads
  <2>4. d.frames = [i \in 1 .. b - a |-> sent[a + i]] BY <2>1, <1>18
  <2>5. got' = got \o d.frames BY <1>22
  <2> QED BY <2>1, <2>2, <2>3, <2>4, <2>5
<1>25. Reads(sent, buffered', gathered', got', P, mid, to) BY <1>9, <1>10, <1>18, <1>22, <1>24 DEF Reads
<1>26. Meets(sent, buffered', gathered', got', P, whole, j, ended = "no") BY <1>2, <1>25 DEF Meets
<1>27. Meets(sent', buffered', gathered', got', pipe', whole', j, ended' = "no") BY <1>23, <1>26
<1>28. Writes(sent', whole', queue', j) BY <1>1, <1>23
<1>29. ended # "read"
  <2>1. Len(pipe) # 0
    <3>1. pipe \in Seq(LineBytes) BY <1>5 DEF Passes, IsPath
    <3> QED BY <3>1
  <2>2. Len(<<>>) = 0 OBVIOUS
  <2> QED BY <2>1, <2>2 DEF FramingInv
<1>30. Accepted(sent') /\ ended' \in {"no", "yes", "read"} BY <1>4, <1>23 DEF FramingInv
<1> QED BY ONLY <1>21, <1>23, <1>27, <1>28, <1>29, <1>30 DEF FramingInv

LEMMA InSame == ASSUME FramingInv, UNCHANGED framingVars PROVE FramingInv'
BY DEF FramingInv, framingVars

LEMMA FramingStep == FramingInv /\ [FramingNext]_framingVars => FramingInv'
<1> SUFFICES ASSUME FramingInv, [FramingNext]_framingVars PROVE FramingInv' OBVIOUS
<1>1. CASE UNCHANGED framingVars BY <1>1, InSame
<1>2. ASSUME NEW length \in Lengths, Enqueue(length) PROVE FramingInv' BY <1>2, InEnqueue
<1>3. CASE Negotiate BY <1>3, InNegotiate
<1>4. ASSUME NEW i \in 1 .. MaxFrames, WriteLine(i) PROVE FramingInv' BY <1>4, InWriteLine
<1>5. ASSUME NEW cut \in 0 .. Least(1, Len(pipe)), WriterEnds(cut) PROVE FramingInv' BY <1>5, InWriterEnds
<1>6. ASSUME NEW n \in 1 .. Len(pipe), Push(n) PROVE FramingInv' BY <1>6, InPush
<1>7. CASE Finish BY <1>7, InFinish
<1> QED BY <1>1, <1>2, <1>3, <1>4, <1>5, <1>6, <1>7 DEF FramingNext

------------------------------------------------------------------------------
(* The composition *)

FramingSpec == FramingInit /\ [][FramingNext]_framingVars
LoginsSpec == LoginInit /\ [][LoginNext]_loginVars
WarningsSpec == WarningsInit /\ [][WarningsNext]_warningVars
BridgesSpec == BridgesInit /\ [][BridgesNext]_bridgeVars
CommandsSpec == CommandsInit /\ [][CommandsNext]_commandVars

LEMMA EachSteps ==
  /\ MCSpec => Spec
  /\ MCSpec => FramesSpec
  /\ MCSpec => FramingSpec
  /\ MCSpec => AuthSpec
  /\ MCSpec => LoginsSpec
  /\ MCSpec => WarningsSpec
  /\ MCSpec => BridgesSpec
  /\ MCSpec => CommandsSpec
<1>1. MCInit => Init /\ OmpFramesInit /\ FramingInit /\ AuthInit /\ LoginInit /\ WarningsInit /\ BridgesInit /\ CommandsInit
  BY DEF MCInit
<1>2. [MCNext]_allVars => /\ [Next]_vars
                         /\ [OmpFramesNext]_ompFrameVars
                         /\ [FramingNext]_framingVars
                         /\ [AuthNext]_authVars
                         /\ [LoginNext]_loginVars
                         /\ [WarningsNext]_warningVars
                         /\ [BridgesNext]_bridgeVars
                         /\ [CommandsNext]_commandVars
  BY DEF MCNext, allVars, ompVars
<1>3. (MCSpec => Spec) /\ (MCSpec => FramesSpec) /\ (MCSpec => FramingSpec)
  BY <1>1, <1>2, PTL DEF MCSpec, Spec, FramesSpec, FramingSpec
<1>4. (MCSpec => AuthSpec) /\ (MCSpec => LoginsSpec) /\ (MCSpec => WarningsSpec)
  BY <1>1, <1>2, PTL DEF MCSpec, AuthSpec, LoginsSpec, WarningsSpec
<1>5. (MCSpec => BridgesSpec) /\ (MCSpec => CommandsSpec) BY <1>1, <1>2, PTL DEF MCSpec, BridgesSpec, CommandsSpec
<1>6. QED BY <1>3, <1>4, <1>5

\* A healthy runtime serves a session alone, a failed one is not handed out, and what a runtime
\* tells of its process is so once all was read (ompSessionService.ts getOrOpen, createRuntime;
\* ompSessionRuntime.ts reduceFrame, refresh, streamSnapshot).
THEOREM RuntimesAlwaysServe == MCSpec => []RuntimesServe
<1>1. Init => RuntimesInv /\ QuietInv BY RuntimesBegin, QuietBegin DEF QuietInv
<1>2. (RuntimesInv /\ QuietInv) /\ [Next]_vars => (RuntimesInv /\ QuietInv)' BY RuntimesStep, QuietStep
<1>3. Spec => [](RuntimesInv /\ QuietInv) BY <1>1, <1>2, PTL DEF Spec
<1>4. RuntimesInv /\ QuietInv => OneHealthyRuntime /\ FailedAreUnlisted BY OneHealthy DEF RuntimesInv
<1>5. RuntimesInv /\ QuietInv /\ RestIsKnown /\ SnapshotsAreCurrent /\ ShownShellsRun => RuntimesServe
  BY <1>4 DEF RuntimesServe
<1>6. QED BY <1>3, <1>5, EachSteps, RestIsAlwaysKnown, SnapshotsStayCurrent, PTL

\* The frames that were accepted for writing are returned, each once, whole and in order, however
\* large they are and wherever the stream is cut, and the decoder throws only if the writer
\* ended within one (ompRpcProtocol.ts push, finish; ompRpcClient.ts enqueueWrite).
THEOREM FramesStayWhole == MCSpec => []FramesArriveWhole
<1>1. FramingSpec => []FramingInv BY InInit, FramingStep, PTL DEF FramingSpec
<1>2. QED BY <1>1, ArriveFromInv, EachSteps, PTL

\* Credentials are as they are said to be: of a login that shows a prompt or is complete, of a
\* record and the entries its migration wrote, and of a session that is told of a loss, whatever fails in between
\* (oauthLoginFlowService.ts, legacyAuthMigration.ts, piSessionService.ts applyAuthChange).
THEOREM CredentialsStayAgreed == MCSpec => []CredentialsAgree
<1>1. AuthSpec => []AuthInv BY AuthBegin, AuthStepKeeps, PTL DEF AuthSpec
<1>2. LoginsSpec => []LoginInv BY LoginBegin, LoginStep, PTL DEF LoginsSpec
<1>3. WarningsSpec => []WarningsInv BY WarningsBegin, WarningsStep, PTL DEF WarningsSpec
<1>4. AuthInv /\ LoginInv /\ WarningsInv => CredentialsAgree
  BY LoginsAgree, WarningsTold DEF AuthInv, CredentialsAgree
<1>5. QED BY <1>1, <1>2, <1>3, <1>4, EachSteps, PTL

\* A migration never replaces a credential that a login saved (legacyAuthMigration.ts).
THEOREM LoginsAreKept == AuthSpec => NeverOverwrites
<1>1. AuthSpec => []AuthInv BY AuthBegin, AuthStepKeeps, PTL DEF AuthSpec
<1>2. QED BY <1>1, LoginsStay, PTL DEF AuthSpec, NeverOverwrites

\* What a client typed reaches its session in order and without a gap, however connections break
\* and are bridged (webSocketBridge.ts, sessionProxyRoutes.ts, terminalProxyRoutes.ts).
THEOREM InputIsKept == BridgesSpec => []InputArrives
<1>1. BridgesSpec => []BridgesInv BY BridgesBegin, BridgesStep, PTL DEF BridgesSpec
<1>2. QED BY <1>1, InvArrives, PTL

\* One command at a time replaces or reloads the session of a runtime, and none does outside of
\* the gate (piSessionService.ts, sessionCommandService.ts).
THEOREM GateIsExclusive == CommandsSpec => [](ReplacementsAreAlone /\ GateIsHeld)
<1>1. CommandsSpec => []CommandsInv BY CommandsBegin, CommandsStep, PTL DEF CommandsSpec
<1>2. CommandsInv => ReplacementsAreAlone /\ GateIsHeld BY InvAlone DEF CommandsInv
<1>3. QED BY <1>1, <1>2, PTL

\* The composition of the parts lets input through in order and replaces sessions one at a time.
THEOREM PartsStayApart == MCSpec => [](InputArrives /\ ReplacementsAreAlone)
<1>1. QED BY EachSteps, InputIsKept, GateIsExclusive, PTL
==============================================================================
