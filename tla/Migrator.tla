----------------------------- MODULE Migrator -----------------------------
(***************************************************************************)
(* runMigrations of packages/db, run by several processes at once on one   *)
(* database.  A migrator lists what has been applied once, and then runs   *)
(* each file it has not seen in a transaction of its own; nothing makes it *)
(* wait for another migrator except the locks that PostgreSQL gives to the *)
(* DDL of an open transaction and the primary key of schema_migrations.    *)
(***************************************************************************)
EXTENDS Naturals, FiniteSets

CONSTANTS
    Migrator,     \* the processes that may migrate
    NumFiles,     \* the files of migrations/, numbered in filename order
    Rerunnable,   \* the files whose SQL succeeds when it has run before
    NoMigrator

ASSUME FilesAssumption    == NumFiles \in Nat /\ Rerunnable \subseteq 1..NumFiles
ASSUME MigratorAssumption == NoMigrator \notin Migrator

Files == 1..NumFiles

VARIABLES
    ledger,   \* the ids committed to schema_migrations
    schema,   \* how often the SQL of each file has been committed
    holder,   \* the migrator whose open transaction has locked the schema
    run       \* where each migrator is, the ids it has seen, its next file

migratorVars == <<ledger, schema, holder, run>>

At == {"off", "listing", "file", "changed", "recorded", "done", "failed"}

MigratorTypeOK ==
    /\ ledger \in SUBSET Files
    /\ schema \in [Files -> Nat]
    /\ holder \in Migrator \cup {NoMigrator}
    /\ run \in [Migrator -> [at : At, seen : SUBSET Files, next : 1..NumFiles + 1]]

\* Mutant: the files are counted from zero.
OffFromZero == [at |-> "off", seen |-> {}, next |-> 0]

Off == [at |-> "off", seen |-> {}, next |-> 1]

MigratorInit ==
    /\ ledger = {}
    /\ schema = [f \in Files |-> 0]
    /\ holder = NoMigrator
    /\ run = [m \in Migrator |-> Off]

-----------------------------------------------------------------------------

\* Locks last until the end of the transaction that took them.
Unlocked(m) == IF holder = m THEN NoMigrator ELSE holder

\* Mutant: the catch block rethrows without ROLLBACK, on a pooled connection.
AbandonInTransaction(m, at) ==
    /\ run' = [run EXCEPT ![m] = [Off EXCEPT !.at = at]]
    /\ UNCHANGED <<ledger, schema, holder>>

\* The migrator throws, or its process is killed: an open transaction is rolled
\* back, by ROLLBACK or with its connection.
Abandon(m, at) ==
    /\ holder' = Unlocked(m)
    /\ run' = [run EXCEPT ![m] = [Off EXCEPT !.at = at]]
    /\ UNCHANGED <<ledger, schema>>

\* The process starts and connects.
Launch(m) ==
    /\ run' = [run EXCEPT ![m] = [Off EXCEPT !.at = "listing"]]
    /\ UNCHANGED <<ledger, schema, holder>>

\* CREATE TABLE IF NOT EXISTS, and the one SELECT of the applied ids.
List(m) ==
    /\ run[m].at = "listing"
    /\ run' = [run EXCEPT ![m].at = "file", ![m].seen = ledger]
    /\ UNCHANGED <<ledger, schema, holder>>

HasFile(m) == run[m].at = "file" /\ run[m].next \in Files

Skip(m) ==
    /\ HasFile(m)
    /\ run[m].next \in run[m].seen
    /\ run' = [run EXCEPT ![m].next = @ + 1]
    /\ UNCHANGED <<ledger, schema, holder>>

\* A file needs the objects of the files before it, and most fail when their
\* own objects exist.
SqlSucceeds(f) ==
    /\ \A g \in 1..f - 1 : schema[g] > 0
    /\ schema[f] > 0 => f \in Rerunnable

\* BEGIN and the file's SQL, which waits while another transaction has changed
\* the same objects.
ChangeSchema(m) ==
    /\ HasFile(m)
    /\ run[m].next \notin run[m].seen
    /\ holder = NoMigrator
    /\ IF SqlSucceeds(run[m].next)
       THEN /\ holder' = m
            /\ run' = [run EXCEPT ![m].at = "changed"]
            /\ UNCHANGED <<ledger, schema>>
       ELSE Abandon(m, "failed")

\* Mutant: the INSERT says ON CONFLICT DO NOTHING.
RecordOnceOrTwice(m) ==
    /\ run[m].at = "changed"
    /\ run' = [run EXCEPT ![m].at = "recorded"]
    /\ UNCHANGED <<ledger, schema, holder>>

\* INSERT INTO schema_migrations, whose primary key refuses an id that is there.
Record(m) ==
    /\ run[m].at = "changed"
    /\ IF run[m].next \in ledger
       THEN Abandon(m, "failed")
       ELSE /\ run' = [run EXCEPT ![m].at = "recorded"]
            /\ UNCHANGED <<ledger, schema, holder>>

Committed(m) ==
    /\ ledger' = ledger \cup {run[m].next}
    /\ schema' = [schema EXCEPT ![run[m].next] = @ + 1]
    /\ holder' = Unlocked(m)

Commit(m) ==
    /\ run[m].at = "recorded"
    /\ Committed(m)
    /\ run' = [run EXCEPT ![m].at = "file", ![m].next = @ + 1]

\* The COMMIT takes effect and its answer is lost, so that the ROLLBACK of the
\* catch block finds nothing to undo.
CommitUnanswered(m) ==
    /\ run[m].at = "recorded"
    /\ Committed(m)
    /\ run' = [run EXCEPT ![m] = [Off EXCEPT !.at = "failed"]]

\* Every file has been skipped or applied: exit code 0.
Finish(m) ==
    /\ run[m].at = "file"
    /\ run[m].next = NumFiles + 1
    /\ run' = [run EXCEPT ![m].at = "done"]
    /\ UNCHANGED <<ledger, schema, holder>>

\* Any statement may fail, which ends in exit code 1.
StatementFails(m) ==
    /\ run[m].at \in {"listing", "file", "changed", "recorded"}
    /\ Abandon(m, "failed")

\* What a migrator does when no statement fails.
MigratorStep(m) ==
    List(m) \/ Skip(m) \/ ChangeSchema(m) \/ Record(m) \/ Commit(m) \/ Finish(m)

MigratorFault(m) == CommitUnanswered(m) \/ StatementFails(m)

-----------------------------------------------------------------------------
(* Properties *)

\* However many migrators race and die, schema_migrations tells the schema: an
\* id is there when its SQL has been committed, exactly once, and not before
\* the files it builds on.
LedgerIsSchema ==
    /\ \A f \in Files : schema[f] = IF f \in ledger THEN 1 ELSE 0
    /\ \A f \in ledger : 1..f \subseteq ledger
=============================================================================
