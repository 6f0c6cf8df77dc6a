--------------------------- MODULE IndexMigration ---------------------------
(***************************************************************************)
(* scripts/migrate_indexes.py: runs of the script, one after the other or  *)
(* at the same time, against a PostgreSQL database that keeps what a run   *)
(* leaves behind when it fails or is killed.                               *)
(*                                                                         *)
(* create_all is used by the application as well: CreateTables and what    *)
(* follows it take the process as their argument.                          *)
(***************************************************************************)
EXTENDS Integers, Sequences

CONSTANTS
    Runs,   \* executions of the script
    None    \* no process

\* ix_product_category_id fares as ix_product_price does and is left out.
BTrees == {"price", "parent_id"}
Indexes == BTrees \cup {"title_trgm"}

ASSUME NoneAssumption == None \notin Runs \cup Indexes

\* _MIGRATIONS, in their order.
Migrations == <<"pg_trgm", "price", "parent_id", "title_trgm">>

Table(i) == IF i = "parent_id" THEN "category" ELSE "product"

VARIABLES
    tables,     \* whether product and category exist (committed)
    creator,    \* the process whose transaction is creating them
    extension,  \* whether pg_trgm is installed
    index,      \* each index: absent, valid, or invalid
    build,      \* the index being built on each table, or None
    leftBy,     \* history: the run whose build left an index invalid
    rpc,        \* where each run stands
    at,         \* the statement it is at
    errors,     \* whether a statement of it has failed
    exit        \* how it ended

databaseVars == <<tables, creator, extension, index, build, leftBy>>
runVars == <<rpc, at, errors, exit>>
migrationVars == <<databaseVars, runVars>>

MigrationTypeOK ==
    /\ tables \in BOOLEAN
    /\ extension \in BOOLEAN
    /\ index \in [Indexes -> {"absent", "valid", "invalid"}]
    /\ build \in [{"product", "category"} -> Indexes \cup {None}]
    /\ leftBy \in [Indexes -> Runs \cup {None}]
    /\ rpc \in [Runs -> {"idle", "create", "commit", "migrate", "building", "exited"}]
    /\ at \in [Runs -> 1..Len(Migrations) + 1]
    /\ errors \in [Runs -> BOOLEAN]
    /\ exit \in [Runs -> {"none", "success", "failure", "killed"}]

\* A new database, an old one without the indexes, or an up-to-date one.
MigrationInit ==
    /\ \/ tables = FALSE /\ extension = FALSE /\ index = [i \in Indexes |-> "absent"]
       \/ tables = TRUE /\ extension \in BOOLEAN /\ index = [i \in Indexes |-> "absent"]
       \/ tables = TRUE /\ extension = TRUE /\ index = [i \in Indexes |-> "valid"]
    /\ creator = None
    /\ build = [t \in {"product", "category"} |-> None]
    /\ leftBy = [i \in Indexes |-> None]
    /\ rpc = [m \in Runs |-> "idle"]
    /\ at = [m \in Runs |-> 1]
    /\ errors = [m \in Runs |-> FALSE]
    /\ exit = [m \in Runs |-> "none"]

-----------------------------------------------------------------------------
(* create_all in a transaction.  A process that found no tables waits for  *)
(* one that is creating them, and fails when that one commits.             *)

OpenSchema(p) ==
    /\ creator = None /\ ~tables
    /\ creator' = p
    /\ UNCHANGED <<tables, extension, index, build, leftBy>>

SchemaConflict ==
    /\ creator = None /\ tables
    /\ UNCHANGED databaseVars

\* The tables come with the indexes their models declare.
CommitSchema(p) ==
    /\ creator = p
    /\ creator' = None
    /\ tables' = TRUE
    /\ index' = [i \in Indexes |-> IF i \in BTrees THEN "valid" ELSE index[i]]
    /\ UNCHANGED <<extension, build, leftBy>>

RollbackSchema(p) ==
    /\ creator' = IF creator = p THEN None ELSE creator
    /\ UNCHANGED <<tables, extension, index, build, leftBy>>

-----------------------------------------------------------------------------
(* A run.                                                                  *)

RunAt(m, step) == rpc' = [rpc EXCEPT ![m] = step]

Exit(m, status) == RunAt(m, "exited") /\ exit' = [exit EXCEPT ![m] = status]

CheckTables(m) ==
    /\ rpc[m] = "idle"
    /\ RunAt(m, IF tables THEN "migrate" ELSE "create")
    /\ UNCHANGED <<databaseVars, at, errors, exit>>

CreateTables(m) ==
    /\ rpc[m] = "create"
    /\ \/ OpenSchema(m) /\ RunAt(m, "commit") /\ UNCHANGED exit
       \/ SchemaConflict /\ Exit(m, "failure")
    /\ UNCHANGED <<at, errors>>

CommitTables(m) ==
    /\ rpc[m] = "commit"
    /\ CommitSchema(m)
    /\ RunAt(m, "migrate")
    /\ UNCHANGED <<at, errors, exit>>

\* Fault: every exception is taken for "already exists".
FaultyNoted(m) == errors[m]

\* A statement that failed is noted, and the run goes on.
Noted(m) == TRUE

Advance(m, failed) ==
    /\ at' = [at EXCEPT ![m] = @ + 1]
    /\ errors' = [errors EXCEPT ![m] = IF failed THEN Noted(m) ELSE @]

\* UniqueViolationError is another run's CREATE EXTENSION.
CreateExtension(m) ==
    /\ rpc[m] = "migrate" /\ at[m] = 1
    /\ \/ extension' = TRUE /\ Advance(m, FALSE)
       \/ ~extension /\ UNCHANGED extension /\ Advance(m, TRUE)
    /\ UNCHANGED <<tables, creator, index, build, leftBy, rpc, exit>>

\* CREATE INDEX CONCURRENTLY waits for any other on the table.  IF NOT EXISTS
\* is satisfied by an invalid index.
CreateIndex(m) ==
    /\ rpc[m] = "migrate" /\ at[m] \in 2..Len(Migrations)
    /\ LET i == Migrations[at[m]]
       IN  /\ build[Table(i)] = None
           /\ \/ /\ index[i] # "absent"
                 /\ Advance(m, FALSE)
                 /\ UNCHANGED <<databaseVars, rpc>>
              \/ /\ index[i] = "absent"
                 /\ Advance(m, TRUE)
                 /\ UNCHANGED <<databaseVars, rpc>>
              \/ /\ index[i] = "absent"
                 /\ i = "title_trgm" => extension
                 /\ index' = [index EXCEPT ![i] = "invalid"]
                 /\ build' = [build EXCEPT ![Table(i)] = i]
                 /\ leftBy' = [leftBy EXCEPT ![i] = m]
                 /\ RunAt(m, "building")
                 /\ UNCHANGED <<tables, creator, extension, at, errors>>
    /\ UNCHANGED exit

\* Fault: the end of a build is taken for the answer to a later statement.
FaultyWaiting(m, i) == exit[m] = "none"

Waiting(m, i) == rpc[m] = "building" /\ Migrations[at[m]] = i

\* The server ends a build, whether or not its run still waits for it.
EndBuild(t) ==
    /\ build[t] # None
    /\ build' = [build EXCEPT ![t] = None]
    /\ LET i == build[t]
           m == leftBy[i]
       IN  \E ok \in BOOLEAN :
              /\ index' = [index EXCEPT ![i] = IF ok THEN "valid" ELSE "invalid"]
              /\ \/ Waiting(m, i) /\ Advance(m, ~ok) /\ RunAt(m, "migrate")
                 \/ ~Waiting(m, i) /\ UNCHANGED <<at, errors, rpc>>
    /\ UNCHANGED <<tables, creator, extension, leftBy, exit>>

\* The connection is lost: this statement and all after it fail.
LoseConnection(m) ==
    /\ rpc[m] \in {"migrate", "building"} /\ at[m] <= Len(Migrations)
    /\ at' = [at EXCEPT ![m] = Len(Migrations) + 1]
    /\ errors' = [errors EXCEPT ![m] = Noted(m)]
    /\ RunAt(m, "migrate")
    /\ UNCHANGED <<databaseVars, exit>>

Report(m) ==
    /\ rpc[m] = "migrate" /\ at[m] > Len(Migrations)
    /\ Exit(m, IF errors[m] THEN "failure" ELSE "success")
    /\ UNCHANGED <<databaseVars, at, errors>>

\* The run is killed, or cannot connect.
Kill(m) ==
    /\ rpc[m] \notin {"idle", "exited"}
    /\ Exit(m, "killed")
    /\ RollbackSchema(m)
    /\ UNCHANGED <<at, errors>>

RunStep(m) ==
    CheckTables(m) \/ CreateTables(m) \/ CommitTables(m) \/ CreateExtension(m)
        \/ CreateIndex(m) \/ Report(m)

MigrationNext ==
    \/ \E m \in Runs : RunStep(m) \/ LoseConnection(m) \/ Kill(m)
    \/ \E t \in {"product", "category"} : EndBuild(t)

-----------------------------------------------------------------------------
(* Properties.                                                             *)

(* A run that reports success leaves tables and extension in place and no  *)
(* index missing.  What can be wrong with an index is that a build of it   *)
(* goes on or has failed, and then the run that began the build still      *)
(* waits for it, counts it as an error (migrate_indexes.py:101) or was     *)
(* killed: where every run reports success, every index is usable.         *)

UnusableReported ==
    \A m \in Runs : exit[m] = "success" =>
        /\ tables /\ extension
        /\ \A i \in Indexes :
              \/ index[i] = "valid"
              \/ /\ index[i] = "invalid"
                 /\ LET builder == leftBy[i]
                    IN  Waiting(builder, i) \/ errors[builder] \/ exit[builder] = "killed"

(* "All migrations applied successfully." (migrate_indexes.py:110): once a *)
(* run has reported success and no build goes on, every index is usable.   *)

SuccessMeansUsable ==
    (\E m \in Runs : exit[m] = "success") /\ (\A t \in DOMAIN build : build[t] = None) =>
        \A i \in Indexes : index[i] = "valid"
=============================================================================
