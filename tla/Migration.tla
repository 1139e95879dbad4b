------------------------------ MODULE Migration ------------------------------
(***************************************************************************)
(* MigrationRunner::run (db/migration.h): processes that start up bring    *)
(* the database to the versions they declare and keep the ledger table     *)
(* novaboot_schema_migrations.  One migration is one transaction: INSERT   *)
(* of the ledger row, the migration itself, UPDATE of the row, COMMIT.     *)
(* After a failure the transaction is rolled back and record_failed        *)
(* replaces the row in two statements of their own.                        *)
(*                                                                         *)
(* A process may crash at any point, which rolls its transaction back, and *)
(* starts again, possibly as another release of the application.  The      *)
(* database is external: DDL is transactional (PostgreSQL and SQLite), a   *)
(* row is visible to others when committed, and an INSERT of a key that    *)
(* another open transaction has inserted waits for that transaction.       *)
(***************************************************************************)
EXTENDS Integers, FiniteSets, Sequences

CONSTANTS Runners,    \* processes
          Releases,   \* what a release declares: version -> [description, checksum]
          Ledgers,    \* ledgers before the first start: none, or rows 1, 2, ... of an
                      \* early build, whose checksum ensure_ledger makes "legacy"
          MaxStarts   \* bound: starts of all processes together

VARIABLES ledger,   \* committed rows: version -> [description, checksum, success]
          changes,  \* history: committed migrations, in order: [version, script]
          pc,       \* per process
          release,  \* migrations: what the process declares
          applied,  \* the rows the process has read (applied_map)
          at,       \* the version it is working on, 0 for none
          starts

vars == <<ledger, changes, pc, release, applied, at, starts>>

Open == {"inserted", "changed"}
Script(row) == [description |-> row.description, checksum |-> row.checksum]
Change(v, m) == [version |-> v, script |-> m]

Init ==
  /\ ledger \in Ledgers /\ starts = 0
  /\ changes = [v \in 1..Cardinality(DOMAIN ledger) |-> Change(v, Script(ledger[v]))]
  /\ pc = [r \in Runners |-> "off"]
  /\ release \in [Runners -> Releases]
  /\ applied = [r \in Runners |-> <<>>]
  /\ at = [r \in Runners |-> 0]

Row(v, m, ok) ==
  [w \in DOMAIN ledger \cup {v} |->
     IF w = v THEN [description |-> m.description, checksum |-> m.checksum, success |-> ok]
     ELSE ledger[w]]
RowDeleted(v) == [w \in DOMAIN ledger \ {v} |-> ledger[w]]
Go(r, where) == pc' = [pc EXCEPT ![r] = where]

(* run() begins: the ledger exists and is read.                            *)
Start(r) ==
  /\ pc[r] = "off" /\ starts < MaxStarts
  /\ starts' = starts + 1
  /\ \E d \in Releases : release' = [release EXCEPT ![r] = d]
  /\ applied' = [applied EXCEPT ![r] = ledger]
  /\ Go(r, "read")
  /\ UNCHANGED <<ledger, changes, at>>

(* The safety checks on the rows that were read.  A legacy row is compared *)
(* by its description alone.                                               *)
Same(row, m) == row.description = m.description /\ row.checksum \in {"legacy", m.checksum}
Acceptable(rows, declared) ==
  \A v \in DOMAIN rows : rows[v].success /\ v \in DOMAIN declared /\ Same(rows[v], declared[v])

Validate(r) ==
  /\ pc[r] = "read"
  /\ Go(r, IF Acceptable(applied[r], release[r]) THEN "next" ELSE "refused")
  /\ UNCHANGED <<ledger, changes, release, applied, at, starts>>

(* The declared versions are sorted; those among the rows read are skipped.*)
Todo(r) == {v \in DOMAIN release[r] : v \notin DOMAIN applied[r] /\ v > at[r]}
NextVersion(r) == CHOOSE v \in Todo(r) : \A w \in Todo(r) : v <= w

(* BEGIN and the INSERT of the row, which waits for another transaction    *)
(* that has inserted the key and fails on a committed one.                 *)
Insert(r) ==
  /\ pc[r] = "next" /\ Todo(r) # {}
  /\ LET v == NextVersion(r)
     IN /\ \A q \in Runners \ {r} : ~(pc[q] \in Open /\ at[q] = v)
        /\ at' = [at EXCEPT ![r] = v]
        /\ Go(r, IF v \in DOMAIN ledger THEN "rollback" ELSE "inserted")
  /\ UNCHANGED <<ledger, changes, release, applied, starts>>

Finish(r) ==
  /\ pc[r] = "next" /\ Todo(r) = {}
  /\ Go(r, "done")
  /\ UNCHANGED <<ledger, changes, release, applied, at, starts>>

(* migration.apply and the UPDATE, or an exception of either.              *)
Apply(r) ==
  /\ pc[r] = "inserted"
  /\ Go(r, "changed") \/ Go(r, "rollback")
  /\ UNCHANGED <<ledger, changes, release, applied, at, starts>>

(* COMMIT, which makes the row and the change visible together.            *)
Commit(r) ==
  /\ pc[r] = "changed"
  /\ \/ /\ ledger' = Row(at[r], release[r][at[r]], TRUE)
        /\ changes' = Append(changes, Change(at[r], release[r][at[r]]))
        /\ Go(r, "next")
     \/ Go(r, "rollback") /\ UNCHANGED <<ledger, changes>>
  /\ UNCHANGED <<release, applied, at, starts>>

(* record_failed: DELETE, then INSERT.  The INSERT waits and fails like    *)
(* the one of a migration; its failure is swallowed.                       *)
DeleteRow(r) ==
  /\ pc[r] = "rollback"
  /\ ledger' = RowDeleted(at[r])
  /\ Go(r, "record")
  /\ UNCHANGED <<changes, release, applied, at, starts>>

RecordFailedAs(v, m) == Row(v, m, FALSE)

InsertFailed(r) ==
  /\ pc[r] = "record"
  /\ \A q \in Runners \ {r} : ~(pc[q] \in Open /\ at[q] = at[r])
  /\ ledger' = IF at[r] \in DOMAIN ledger THEN ledger ELSE RecordFailedAs(at[r], release[r][at[r]])
  /\ Go(r, "failed")
  /\ UNCHANGED <<changes, release, applied, at, starts>>

(* The process ends, or crashes, and may be started again.                 *)
Stop(r) ==
  /\ pc[r] # "off"
  /\ Go(r, "off")
  /\ at' = [at EXCEPT ![r] = 0] /\ applied' = [applied EXCEPT ![r] = <<>>]
  /\ UNCHANGED <<ledger, changes, release, starts>>

Next == \E r \in Runners :
  Start(r) \/ Validate(r) \/ Insert(r) \/ Finish(r) \/ Apply(r) \/ Commit(r) \/ DeleteRow(r)
  \/ InsertFailed(r) \/ Stop(r)
Spec == Init /\ [][Next]_vars

(* One process runs migrations at a time, as during a rolling restart that *)
(* waits for each instance.                                                *)
OneAtATime == Cardinality({r \in Runners : pc'[r] \notin {"off", "done", "refused", "failed"}}) <= 1

-----------------------------------------------------------------------------
TypeOK ==
  /\ \A v \in DOMAIN ledger : ledger[v].success \in BOOLEAN
  /\ pc \in [Runners -> {"off", "read", "next", "inserted", "changed", "rollback", "record",
                         "refused", "done", "failed"}]
  /\ \A r \in Runners : pc[r] \in Open \cup {"rollback", "record"} => at[r] \in DOMAIN release[r]

(* The ledger tells the truth about the database whatever crashed: a row   *)
(* with success is a change that has been committed, as it describes it; a *)
(* change that has been committed has such a row; and it was made once.    *)
LedgerTruthful ==
  /\ {v \in DOMAIN ledger : ledger[v].success} = {changes[i].version : i \in DOMAIN changes}
  /\ \A i \in DOMAIN changes : Script(ledger[changes[i].version]) = changes[i].script
  /\ \A i, j \in DOMAIN changes : changes[i].version = changes[j].version => i = j

(* Also when processes run at the same time a row with success stands for  *)
(* a change that has been committed as it describes it (the reverse fails: *)
(* record_failed deletes a row whoever wrote it).                          *)
SuccessHonest ==
  \A v \in DOMAIN ledger : ledger[v].success =>
    \E i \in DOMAIN changes : changes[i] = Change(v, Script(ledger[v]))

(* A process that has finished finds all its declared versions applied as  *)
(* it declares them; of a legacy row it only knows the description.        *)
DoneIsDeclared ==
  \A r \in Runners : pc[r] = "done" =>
    \A v \in DOMAIN release[r] : \E i \in DOMAIN changes :
      changes[i].version = v /\ Same(changes[i].script, release[r][v])
=============================================================================
