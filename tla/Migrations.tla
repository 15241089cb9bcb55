------------------------------ MODULE Migrations ------------------------------
(***************************************************************************)
(* The schema migrations of db/migrations.ts, run by every process that    *)
(* opens the database with them: the service as it starts, and `migrate`   *)
(* beside it.  A version is looked up first and applied later, in a        *)
(* transaction that also records it; between the two another process may   *)
(* have applied it, and have gone on.                                      *)
(***************************************************************************)
EXTENDS Naturals

CONSTANTS
    Runners,        \* processes that run the migrations
    Service,        \* the one that serves when it is through
    Releases,       \* the last migration of the releases whose databases may be met
    MaxRows         \* bound on the executions inserted

ASSUME MigrationsAssumption ==
    Service \in Runners /\ Releases \subseteq 0..3 /\ MaxRows \in Nat \ {0}

VARIABLES
    applied,        \* schema_migrations
    schema,         \* the migration whose tables are there
    rows,           \* executions in relay_executions
    at,             \* the version a runner is at; 0 when it does not run, 4 when it is
                    \* through, 5 when it runs and was told not to migrate
    missing         \* it looked that version up and did not find it

dbVars == <<applied, schema, rows>>
migrationVars == <<applied, schema, rows, at, missing>>

\* 001_init, 002_simplified_relay_schema, 003_safe_message_authorization
Versions == 1..3
through(r) == at[r] = 4
opened(r) == at[r] \in {4, 5}       \* its database is open, migrated by it or not

\* A database of any age: one that is new, or that an earlier release left.
MigrationsInit ==
    /\ \E v \in Releases :
         /\ applied = 1..v /\ schema = v
         /\ rows = IF v = 0 THEN {} ELSE {1}
    /\ at = [r \in Runners |-> 0]
    /\ missing = [r \in Runners |-> FALSE]

RunMigrations(r) ==
    /\ at[r] = 0
    /\ at' = [at EXCEPT ![r] = 1]
    /\ UNCHANGED <<applied, schema, rows, missing>>

\* RUN_MIGRATIONS_ON_START=false: the process runs on the tables it finds.
SkipMigrations(r) ==
    /\ at[r] = 0
    /\ at' = [at EXCEPT ![r] = 5]
    /\ UNCHANGED <<applied, schema, rows, missing>>

\* Faulty: the answer for one version is taken for the next.
nextUnasked(r) == at' = [at EXCEPT ![r] = @ + 1] /\ UNCHANGED missing

NextVersion(r) ==
    at' = [at EXCEPT ![r] = @ + 1] /\ missing' = [missing EXCEPT ![r] = FALSE]

LookUp(r) ==
    /\ at[r] \in Versions /\ ~missing[r]
    /\ IF at[r] \in applied
         THEN NextVersion(r)
         ELSE missing' = [missing EXCEPT ![r] = TRUE] /\ UNCHANGED at
    /\ UNCHANGED <<applied, schema, rows>>

\* The process ends: it dies, or an exception ends it.
Stops(r) ==
    /\ at' = [at EXCEPT ![r] = 0] /\ missing' = [missing EXCEPT ![r] = FALSE]
    /\ UNCHANGED <<applied, schema, rows>>

\* Faulty: the tables are rebuilt without their rows.
rebuildEmpty(v) == {}

\* What is left of the rows by the SQL of version v: 001 makes what is not there, 002
\* drops the tables of 001, 003 copies the rows into a new table.
rowsAfter(v) == IF v = 2 THEN {} ELSE rows

schemaAfter(v) == IF v = 1 /\ schema > 1 THEN schema ELSE v

\* Faulty: the version column is no primary key.
recordsTwice(v) == TRUE

\* The primary key of schema_migrations.
records(v) == v \notin applied

\* BEGIN IMMEDIATE, the SQL of the version, its record, COMMIT; or ROLLBACK.
Apply(r) ==
    LET v == at[r] IN
    /\ missing[r]
    /\ IF records(v)
         THEN /\ schema' = schemaAfter(v) /\ rows' = rowsAfter(v)
              /\ applied' = applied \cup {v}
              /\ NextVersion(r)
         ELSE Stops(r)

\* The service inserts executions. The statement names columns of version 3: on older
\* tables it throws.
InsertExecution ==
    /\ opened(Service) /\ schema = 3
    /\ \E row \in 1..MaxRows : row \notin rows /\ rows' = rows \cup {row}
    /\ UNCHANGED <<applied, schema, at, missing>>

Migrate(r) == LookUp(r) \/ Apply(r)

MigrationsNext ==
    \/ \E r \in Runners : RunMigrations(r) \/ Migrate(r) \/ Stops(r)
    \/ SkipMigrations(Service)
    \/ InsertExecution

MigrationsSpec == MigrationsInit /\ [][MigrationsNext]_migrationVars

-----------------------------------------------------------------------------
(* Properties.                                                             *)

MigrationsTypeOK ==
    /\ applied \subseteq Versions /\ schema \in 0..3
    /\ rows \subseteq 1..MaxRows
    /\ at \in [Runners -> 0..5] /\ missing \in [Runners -> BOOLEAN]

\* The tables are those of the last recorded version, the versions are recorded in order,
\* and a process whose run came through has left the newest tables, whoever else migrates
\* at the same time. (Of a service that was told not to migrate nothing is said: it runs on
\* the tables it finds.)
SchemaMatchesRecord ==
    /\ applied = 1..schema
    /\ \A r \in Runners : through(r) => schema = 3

\* An execution that was stored since version 2 is never lost: not by a process that found
\* version 2 missing long ago and applies it now, and not by the rebuild of version 3.
RowsAreKept == [][2 \in applied => rows \subseteq rows']_migrationVars

=============================================================================
