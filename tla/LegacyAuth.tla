------------------------------ MODULE LegacyAuth ------------------------------
(* The migration of a legacy auth.json into the Keychain, its journal and its    *)
(* rollback, while the user logs in and out, steps fail and the Runtime dies.    *)
(* The Keychain's chain per provider makes each operation on one entry atomic.   *)
EXTENDS Naturals, FiniteSets, Sequences

CONSTANTS Providers,
          MaxMigrations, \* bound: migrations
          MaxLogins,     \* bound: logins of the user
          MaxFailures    \* bound: failing steps and deaths

ASSUME MigrationsAssumption == MaxMigrations \in Nat

VARIABLES keychain, \* per provider: NoCredential, Login, or the number of the migration it is from
          journal,  \* the migrations' records: [state, created]
          op,       \* the operation that has the queue: [step, n, created, at, failed]
          left,     \* providers the operation has yet to handle
          unread,   \* history: <<n, p>> if the migration n wrote the entry of p, and the
                    \* write's answer or the reading back failed
          logins, failures

authVars == <<keychain, journal, op, left, unread, logins, failures>>

NoCredential == 0
Login == MaxMigrations + 1
Idle == [step |-> "idle", n |-> 0, created |-> {}, at |-> {}, failed |-> FALSE]

Failing == failures < MaxFailures /\ failures' = failures + 1
Upsert(state) == journal' = [journal EXCEPT ![op.n] = [state |-> state, created |-> op.created]]

\* migrate: no provider of the file has an entry, and the record is written first.
\* A migration that is refused changes nothing.
Migrate ==
  /\ op = Idle /\ Len(journal) < MaxMigrations
  /\ \A p \in Providers : keychain[p] = NoCredential
  /\ journal' = Append(journal, [state |-> "writing", created |-> {}])
  /\ op' = [Idle EXCEPT !.step = "write", !.n = Len(journal) + 1]
  /\ left' = Providers
  /\ UNCHANGED <<keychain, unread, logins, failures>>

\* A mutated write that trusts the list the migration began with.
NotListed(p) == p \in left

\* The entry is looked at again where it is written.
StillFree(p) == keychain[p] = NoCredential

\* An error undoes the entries this migration created.
GivesUp == op' = [op EXCEPT !.step = "undo"] /\ left' = op.created

Write(p) ==
  /\ op.step = "write" /\ p \in left /\ StillFree(p)
  /\ keychain' = [keychain EXCEPT ![p] = op.n]
  /\ op' = [op EXCEPT !.step = "read", !.at = {p}]
  /\ left' = left \ {p}
  /\ UNCHANGED <<journal, unread, logins, failures>>

\* The Keychain's helper writes the entry and then fails, or its answer is lost.
WriteUnanswered(p) ==
  /\ op.step = "write" /\ p \in left /\ StillFree(p) /\ Failing
  /\ keychain' = [keychain EXCEPT ![p] = op.n]
  /\ GivesUp
  /\ unread' = unread \union {<<op.n, p>>}
  /\ UNCHANGED <<journal, logins>>

WriteRefused(p) ==
  /\ op.step = "write" /\ p \in left /\ ~StillFree(p)
  /\ GivesUp
  /\ UNCHANGED <<keychain, journal, unread, logins, failures>>

\* The entry is read back: another login's passes if it has the same type.
ReadBack ==
  /\ op.step = "read"
  /\ \A p \in op.at : keychain[p] # NoCredential
  /\ op' = [op EXCEPT !.step = "mark", !.created = @ \union op.at]
  /\ UNCHANGED <<keychain, journal, left, unread, logins, failures>>

ReadBackDiffers ==
  /\ op.step = "read"
  /\ \E p \in op.at : keychain[p] \in {NoCredential, Login}
  /\ GivesUp
  /\ UNCHANGED <<keychain, journal, unread, logins, failures>>

\* A mutated marking that leaves the journal for the end.
MarkLater ==
  /\ op.step = "mark"
  /\ op' = [op EXCEPT !.step = "write"]
  /\ UNCHANGED <<keychain, journal, left, unread, logins, failures>>

Mark ==
  /\ op.step = "mark"
  /\ Upsert("writing")
  /\ op' = [op EXCEPT !.step = "write"]
  /\ UNCHANGED <<keychain, left, unread, logins, failures>>

\* A listing, a write that does nothing, a reading or a write of the journal fails. What
\* was written and not read back is not marked as created.
StepFails ==
  /\ op.step \in {"write", "read", "mark"} /\ Failing
  /\ GivesUp
  /\ unread' = unread \union {<<op.n, p>> : p \in {q \in op.at : op.step = "read" /\ keychain[q] = op.n}}
  /\ UNCHANGED <<keychain, journal, logins>>

Verified ==
  /\ op.step = "write" /\ left = {}
  /\ Upsert("verified")
  /\ op' = Idle
  /\ UNCHANGED <<keychain, left, unread, logins, failures>>

\* The entries are deleted whatever they hold by then.
Undo(p) ==
  /\ op.step = "undo" /\ p \in left
  /\ left' = left \ {p}
  /\ \/ keychain' = [keychain EXCEPT ![p] = NoCredential] /\ UNCHANGED <<op, failures>>
     \/ Failing /\ op' = [op EXCEPT !.failed = TRUE] /\ UNCHANGED keychain
  /\ UNCHANGED <<journal, unread, logins>>

\* A mutated end that forgets which deletions failed.
UndoneAlways == "rolled-back"

UndoneState == IF op.failed THEN "rollback-required" ELSE "rolled-back"

Undone ==
  /\ op.step = "undo" /\ left = {}
  /\ \/ Upsert(UndoneState) /\ UNCHANGED failures
     \/ Failing /\ UNCHANGED journal
  /\ op' = Idle
  /\ UNCHANGED <<keychain, left, unread, logins>>

\* rollback: a verified migration's entries are deleted; it stops where one fails.
Rollback(n) ==
  /\ op = Idle /\ n \in DOMAIN journal /\ journal[n].state = "verified"
  /\ op' = [Idle EXCEPT !.step = "rollback", !.n = n, !.created = journal[n].created]
  /\ left' = journal[n].created
  /\ UNCHANGED <<keychain, journal, unread, logins, failures>>

RollbackDeletes(p) ==
  /\ op.step = "rollback" /\ p \in left
  /\ \/ keychain' = [keychain EXCEPT ![p] = NoCredential] /\ left' = left \ {p} /\ UNCHANGED <<op, failures>>
     \/ Failing /\ op' = Idle /\ left' = {} /\ UNCHANGED keychain
  /\ UNCHANGED <<journal, unread, logins>>

RollbackEnds ==
  /\ op.step = "rollback" /\ left = {}
  /\ Upsert("rolled-back")
  /\ op' = Idle
  /\ UNCHANGED <<keychain, left, unread, logins, failures>>

\* A login or logout of the user goes through the same chains.
LogIn(p) ==
  /\ logins < MaxLogins /\ logins' = logins + 1
  /\ keychain' = [keychain EXCEPT ![p] = Login]
  /\ UNCHANGED <<journal, op, left, unread, failures>>

LogOut(p) ==
  /\ keychain[p] # NoCredential
  /\ keychain' = [keychain EXCEPT ![p] = NoCredential]
  /\ UNCHANGED <<journal, op, left, unread, logins, failures>>

Die ==
  /\ op # Idle /\ Failing
  /\ op' = Idle /\ left' = {}
  /\ UNCHANGED <<keychain, journal, unread, logins>>

AuthInit ==
  /\ keychain = [p \in Providers |-> NoCredential] /\ journal = <<>>
  /\ op = Idle /\ left = {} /\ unread = {} /\ logins = 0 /\ failures = 0

AuthStep ==
  \/ ReadBack \/ ReadBackDiffers \/ Mark \/ Verified \/ Undone \/ RollbackEnds
  \/ \E p \in Providers : Write(p) \/ WriteRefused(p) \/ Undo(p) \/ RollbackDeletes(p)

AuthNext ==
  \/ Migrate \/ AuthStep \/ StepFails \/ Die
  \/ \E n \in 1 .. MaxMigrations : Rollback(n)
  \/ \E p \in Providers : WriteUnanswered(p) \/ LogIn(p) \/ LogOut(p)

AuthSpec == AuthInit /\ [][AuthNext]_authVars

------------------------------------------------------------------------------

\* A migration never replaces a credential that the user logged in with, also when the
\* login comes after the migration listed the Keychain (legacyAuthMigration.ts: "Migration
\* refuses Keychain conflicts").
NeverOverwrites ==
  [][\A p \in Providers : keychain[p] = Login => keychain'[p] \in {Login, NoCredential}]_authVars

\* What a record says is so of every entry its migration wrote, not only of those it marked.
\* Rolled back, none is left but one whose write's answer or reading back failed, which the
\* code leaves; an entry that could not be deleted makes the record "rollback-required".
\* Verified, all are marked, so that a rollback deletes them. And whenever the Runtime dies,
\* the record marks all of them but the last one at most (legacyAuthMigration.ts migrate, rollback).
RecordsAreTrue ==
  \A n \in DOMAIN journal :
    LET own == {p \in Providers : keychain[p] = n}
        unmarked == own \ journal[n].created
    IN /\ journal[n].state = "rolled-back" => \A p \in own : <<n, p>> \in unread
       /\ journal[n].state = "verified" => unmarked = {}
       /\ \A p, q \in unmarked : p = q
==============================================================================
