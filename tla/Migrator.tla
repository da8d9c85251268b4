------------------------------ MODULE Migrator ------------------------------
(***************************************************************************)
(* packages/db-migrate: the migrations of one service's database, run by   *)
(* each of its processes when it starts and rolled back by an operator.    *)
(*                                                                         *)
(* A file's SQL is a transaction of its own, and so is the row that        *)
(* records it: a session may end between the two.  The advisory lock is    *)
(* the session's and goes with it; the table of the rows is made before it *)
(* is taken.  The versions are 1, 2, ... in the order of the list; an      *)
(* image may carry the last file edited.                                   *)
(***************************************************************************)
EXTENDS Naturals, FiniteSets

CONSTANTS
    Service,        \* the services this is checked for
    Process,        \* the service's processes (replicas)
    Operator,       \* the session that runs rollbackLastMigration
    NoOne,
    Versions,       \* length of the list `migrations'
    Unsigned,       \* how many a database from before the checksums has
    Edited          \* processes whose image may carry the last file edited

ASSUME MigratorAssumption ==
    /\ Service \subseteq {"svc-stock", "svc-ordenes", "svc-productos", "svc-obs"}
    /\ Operator \notin Process
    /\ NoOne \notin Process \cup {Operator}
    /\ Versions \in Nat \ {0}
    /\ Unsigned \in 0..Versions
    /\ Edited \subseteq Process

VARIABLES
    service,    \* the service whose database this is
    ledger,     \* the table schema_migrations: "absent", "bare" (no checksums) or "whole"
    schema,     \* versions whose objects the schema has
    records,    \* schema_migrations: the checksum of each version's row
    lock,       \* the session with pg_advisory_lock(lockKey)
    mig,        \* where each process is in runMigrations
    at,         \* the version it is at
    edited,     \* those whose image does
    undo,       \* where the operator is in rollbackLastMigration
    torn,       \* history: versions rolled back whose row is still there
    outdated    \* history: processes that had migrated when a rollback took a version

persisted == <<ledger, schema, records>>
migVars == <<ledger, schema, records, lock, mig, at, edited, undo, torn, outdated>>

Version == 1..Versions
Sum(p, v) == IF v = Versions /\ p \in edited THEN "edited" ELSE "original"

\* Files with a CREATE TYPE or CREATE TRIGGER: their SQL fails on a schema that has it.
Once == IF service \in {"svc-ordenes", "svc-productos"} THEN {1} ELSE {}

Phase == {"idle", "create", "alter", "lock", "check", "record", "done"}

MigTypeOK ==
    /\ ledger \in {"absent", "bare", "whole"}
    /\ schema \subseteq Version
    /\ records \in [Version -> {"none", "null", "original", "edited"}]
    /\ lock \in Process \cup {Operator, NoOne}
    /\ mig \in [Process -> Phase]
    /\ at \in [Process -> 1..(Versions + 1)]
    /\ edited \subseteq Process
    /\ undo \in {"idle", "locked", "dropped"}
    /\ torn \subseteq Version
    /\ outdated \subseteq Process

\* A new database, or one from before the checksums.
MigInit ==
    /\ \E old \in BOOLEAN :
          LET n == IF old THEN Unsigned ELSE 0
          IN /\ ledger = IF old THEN "bare" ELSE "absent"
             /\ schema = 1..n
             /\ records = [v \in Version |-> IF v <= n THEN "null" ELSE "none"]
    /\ lock = NoOne
    /\ mig = [p \in Process |-> "idle"]
    /\ at = [p \in Process |-> 1]
    /\ edited \in {{}, Edited}
    /\ undo = "idle"
    /\ torn = {}
    /\ outdated = {}

-----------------------------------------------------------------------------
\* runMigrations, a statement at a time.
Goes(p, phase) == mig' = [mig EXCEPT ![p] = phase]
MoveOn(p) == at' = [at EXCEPT ![p] = @ + 1]
OnlyProcessMoves == UNCHANGED <<edited, undo, torn, outdated>>

\* CREATE TABLE IF NOT EXISTS and the DO block look whether there is something to do ...
LooksForTable(p) ==
    /\ mig[p] = "idle"
    /\ Goes(p, CASE ledger = "absent" -> "create" [] ledger = "bare" -> "alter" [] OTHER -> "lock")
    /\ UNCHANGED <<persisted, lock, at>>
    /\ OnlyProcessMoves

\* ... and do it, unless another session has in between.
Found(p) == CASE mig[p] = "create" -> "absent" [] mig[p] = "alter" -> "bare" [] OTHER -> ledger

MakesTable(p) ==
    /\ mig[p] \in {"create", "alter"}
    /\ ledger = Found(p)
    /\ ledger' = "whole"
    /\ Goes(p, "lock")
    /\ UNCHANGED <<schema, records, lock, at>>
    /\ OnlyProcessMoves

ensureMigrationsTable(p) == LooksForTable(p) \/ MakesTable(p)

\* The catalogue has the table, or the column, by the time the statement adds it.
TooLate(p) == ledger # Found(p)

\* Mutant of Lockable: pg_try_advisory_lock, its answer not looked at.
AlwaysLockable == TRUE

Lockable == lock = NoOne

TakeLock(p) ==
    /\ mig[p] = "lock"
    /\ Lockable
    /\ lock' = p
    /\ at' = [at EXCEPT ![p] = 1]
    /\ Goes(p, "check")
    /\ UNCHANGED persisted
    /\ OnlyProcessMoves

\* The version has its row: the checksum must be the file's, or is filled in.
Skip(p) ==
    /\ mig[p] = "check"
    /\ at[p] \in Version
    /\ records[at[p]] \in {"null", Sum(p, at[p])}
    /\ records' = [records EXCEPT ![at[p]] = Sum(p, at[p])]
    /\ MoveOn(p)
    /\ UNCHANGED <<ledger, schema, lock, mig>>
    /\ OnlyProcessMoves

ObjectsThere(p) == at[p] \in schema \cap Once

\* Mutant of ApplySql: an error of the file's SQL is only logged.
ApplySqlLogging(p) ==
    /\ mig[p] = "check"
    /\ at[p] \in Version
    /\ records[at[p]] = "none"
    /\ schema' \in {schema, schema \cup {at[p]}}
    /\ Goes(p, "record")
    /\ UNCHANGED <<ledger, records, lock, at>>
    /\ OnlyProcessMoves

ApplySql(p) ==
    /\ mig[p] = "check"
    /\ at[p] \in Version
    /\ records[at[p]] = "none"
    /\ ~ObjectsThere(p)
    /\ schema' = schema \cup {at[p]}
    /\ Goes(p, "record")
    /\ UNCHANGED <<ledger, records, lock, at>>
    /\ OnlyProcessMoves

\* The file's SQL fails: on its own objects, or, it may be, on what an earlier file no
\* longer has there.
SqlFails(p) ==
    /\ mig[p] = "check"
    /\ at[p] \in Version
    /\ records[at[p]] = "none"
    /\ ObjectsThere(p) \/ ~(1..(at[p] - 1) \subseteq schema)

RecordVersion(p) ==
    /\ mig[p] = "record"
    /\ records[at[p]] = "none"
    /\ records' = [records EXCEPT ![at[p]] = Sum(p, at[p])]
    /\ MoveOn(p)
    /\ Goes(p, "check")
    /\ UNCHANGED <<ledger, schema, lock>>
    /\ OnlyProcessMoves

Unlock(p) ==
    /\ mig[p] = "check"
    /\ at[p] > Versions
    /\ lock' = NoOne
    /\ Goes(p, "done")
    /\ UNCHANGED <<persisted, at>>
    /\ OnlyProcessMoves

runMigrations(p) ==
    ensureMigrationsTable(p) \/ Skip(p) \/ ApplySql(p) \/ RecordVersion(p) \/ Unlock(p)

\* The row says that the file was another one when it was applied.
Mismatch(p) ==
    /\ mig[p] = "check"
    /\ at[p] \in Version
    /\ records[at[p]] \notin {"none", "null", Sum(p, at[p])}

\* What makes runMigrations throw of its own: that, or a row that has come in between.
Refuses(p) ==
    LET expected == IF mig[p] = "record" THEN {"none"} ELSE {"none", "null", Sum(p, at[p])}
    IN mig[p] \in {"check", "record"} /\ at[p] \in Version /\ records[at[p]] \notin expected

\* Mutant of EndSession: the lock is not the session's.
LeavesLock(p) ==
    /\ Goes(p, "idle")
    /\ at' = [at EXCEPT ![p] = 1]
    /\ outdated' = outdated \ {p}
    /\ UNCHANGED <<persisted, lock, edited, undo, torn>>

\* client.end, or the end of the process
EndSession(p) ==
    /\ lock' = IF lock = p THEN NoOne ELSE lock
    /\ Goes(p, "idle")
    /\ at' = [at EXCEPT ![p] = 1]
    /\ outdated' = outdated \ {p}
    /\ UNCHANGED <<persisted, edited, undo, torn>>

-----------------------------------------------------------------------------
\* rollbackLastMigration.  Rows are made in the order of the list and only the last
\* one is ever deleted, so the youngest is the greatest.
Recorded == {v \in Version : records[v] # "none"}
Youngest == CHOOSE v \in Recorded : \A w \in Recorded : w <= v

OperatorMakesTable ==
    /\ undo = "idle"
    /\ ledger # "whole"
    /\ ledger' = "whole"
    /\ UNCHANGED <<schema, records, lock, mig, at, edited, undo, torn, outdated>>

RollbackBegins ==
    /\ undo = "idle"
    /\ ledger = "whole"
    /\ Lockable
    /\ Recorded # {}
    /\ lock' = Operator
    /\ undo' = "locked"
    /\ UNCHANGED <<persisted, mig, at, edited, torn, outdated>>

RunDownFile ==
    /\ undo = "locked"
    /\ schema' = schema \ {Youngest}
    /\ torn' = torn \cup {Youngest}
    /\ outdated' = {p \in Process : mig[p] = "done"}
    /\ undo' = "dropped"
    /\ UNCHANGED <<ledger, records, lock, mig, at, edited>>

DeleteRow ==
    /\ undo = "dropped"
    /\ records' = [records EXCEPT ![Youngest] = "none"]
    /\ torn' = torn \ {Youngest}
    /\ lock' = NoOne
    /\ undo' = "idle"
    /\ UNCHANGED <<ledger, schema, mig, at, edited, outdated>>

\* The operator's session ends before its time.
RollbackCut ==
    /\ undo # "idle"
    /\ lock' = NoOne
    /\ undo' = "idle"
    /\ UNCHANGED <<persisted, mig, at, edited, torn, outdated>>

rollbackLastMigration == RunDownFile \/ DeleteRow \/ RollbackCut

-----------------------------------------------------------------------------
\* A version with a row is in the schema, unless a rollback stopped half-way.
Migrated(p) == \A v \in Version : records[v] = Sum(p, v) /\ v \in schema \cup torn

-----------------------------------------------------------------------------
\* Files that ran and whose row was never written: a session ended in between.
HalfApplied ==
    {v \in schema : records[v] = "none" /\ ~\E p \in Process : mig[p] = "record" /\ at[p] = v}

\* What the SQL of the file the process is at may fail on.
Obstacle(p) ==
    /\ mig[p] = "check"
    /\ at[p] \in HalfApplied \/ torn \cap 1..(at[p] - 1) # {}

-----------------------------------------------------------------------------
(* What makes the invariants of ServiceProcess inductive.                      *)
Migrating(p) == mig[p] \in {"check", "record"}

\* The table is there for everybody who has come to the lock.
TableIsThere ==
    /\ \A p \in Process : mig[p] \in {"lock", "check", "record", "done"} => ledger = "whole"
    /\ undo # "idle" => ledger = "whole"

\* Only the session with the lock reads and writes the rows.
LockHeld ==
    /\ \A p \in Process : Migrating(p) <=> lock = p
    /\ undo # "idle" <=> lock = Operator

\* The rows are a prefix of the list, so that a rollback takes the last of them off.
RowsInOrder ==
    /\ \E n \in 0..Versions : Recorded = 1..n
    /\ \A v \in Version : records[v] # "none" => v \in schema \cup torn

\* What a process has seen stays so as long as nobody rolls it back.
Progress ==
    \A p \in Process :
        /\ Migrating(p) => \A v \in Version : v < at[p] => records[v] = Sum(p, v)
        /\ mig[p] = "record" =>
              at[p] \in Version /\ records[at[p]] = "none" /\ at[p] \in schema
        /\ mig[p] = "done" => p \in outdated \/ \A v \in Version : records[v] = Sum(p, v)

UndoInOrder ==
    /\ undo # "idle" => Recorded # {}
    /\ undo = "dropped" => \A p \in Process : mig[p] = "done" => p \in outdated

MigInv == MigTypeOK /\ TableIsThere /\ LockHeld /\ RowsInOrder /\ Progress /\ UndoInOrder
=============================================================================
