----------------------------- MODULE Deployment -----------------------------
(***************************************************************************)
(* The life of the application's worker processes: lifespan (main.py) with *)
(* its schema creation, and the log queue (logging.py) from start to stop, *)
(* beside runs of scripts/migrate_indexes.py on the same database.         *)
(*                                                                         *)
(* Under docker compose the workers are launched when a run has succeeded, *)
(* with AUTO_CREATE_SCHEMA on; started by hand they are launched at any    *)
(* time, with it on or off.                                                *)
(***************************************************************************)
EXTENDS IndexMigration

CONSTANTS
    Workers,    \* worker processes of the application
    MaxQueue    \* bound: records an application leaves in its queue

ASSUME WorkersAssumption ==
    Workers \cap Runs = {} /\ None \notin Workers /\ MaxQueue \in Nat \ {0}

VARIABLES
    wpc,        \* where each worker stands in its lifespan
    queue,      \* _log_queue: records of the app, of the server, a sentinel
    listening,  \* whether its listener thread runs
    failed,     \* history: the workers whose startup has failed
    composed,   \* whether docker compose launches the workers
    autoCreate  \* settings.auto_create_schema

settings == <<composed, autoCreate>>
workerVars == <<wpc, queue, listening, failed, settings>>
vars == <<migrationVars, workerVars>>

TypeOK ==
    /\ MigrationTypeOK
    /\ creator \in Runs \cup Workers \cup {None}
    /\ wpc \in [Workers -> {"off", "check", "create", "commit", "serving", "closing",
                            "joining", "stopped"}]
    /\ queue \in [Workers -> Seq({"app", "server", "sentinel"})]
    /\ listening \in [Workers -> BOOLEAN]
    /\ failed \subseteq Workers
    /\ composed \in BOOLEAN
    /\ autoCreate \in BOOLEAN

Init ==
    /\ MigrationInit
    /\ wpc = [w \in Workers |-> "off"]
    /\ queue = [w \in Workers |-> <<>>]
    /\ listening = [w \in Workers |-> FALSE]
    /\ failed = {}
    /\ composed \in BOOLEAN
    /\ autoCreate \in BOOLEAN
    /\ composed => autoCreate

WorkerAt(w, step) == wpc' = [wpc EXCEPT ![w] = step]

Put(w, records) == queue' = [queue EXCEPT ![w] = @ \o records]

\* The process is gone, with its queue and its listener.
Gone(w) ==
    /\ WorkerAt(w, "off")
    /\ queue' = [queue EXCEPT ![w] = <<>>]
    /\ listening' = [listening EXCEPT ![w] = FALSE]

-----------------------------------------------------------------------------
(* Startup.                                                                *)

\* Fault: the migration is only waited for.
FaultyReleased == ~composed \/ \E m \in Runs : rpc[m] = "exited"

\* depends_on: service_completed_successfully
Released == ~composed \/ \E m \in Runs : exit[m] = "success"

Launch(w) ==
    /\ wpc[w] \in {"off", "stopped"}
    /\ Released
    /\ WorkerAt(w, "check")
    /\ queue' = [queue EXCEPT ![w] = <<>>]
    /\ listening' = [listening EXCEPT ![w] = TRUE]
    /\ UNCHANGED <<migrationVars, failed, settings>>

\* create_all, if it is called at all, looks for the tables.
CheckSchema(w) ==
    /\ wpc[w] = "check"
    /\ WorkerAt(w, IF autoCreate /\ ~tables THEN "create" ELSE "serving")
    /\ UNCHANGED <<migrationVars, queue, listening, failed, settings>>

CreateSchema(w) ==
    /\ wpc[w] = "create"
    /\ OpenSchema(w)
    /\ WorkerAt(w, "commit")
    /\ UNCHANGED <<runVars, queue, listening, failed, settings>>

\* Fault: the worker serves all the same.
FaultyStartupFails(w) ==
    /\ wpc[w] \in {"create", "commit"}
    /\ RollbackSchema(w)
    /\ WorkerAt(w, "serving")
    /\ UNCHANGED <<runVars, queue, listening, failed, settings>>

\* Startup fails before yield: the process ends and is started again.
StartupFails(w) ==
    /\ wpc[w] = "create"
    /\ SchemaConflict
    /\ Gone(w)
    /\ failed' = failed \cup {w}
    /\ UNCHANGED <<runVars, settings>>

CommitWorkersSchema(w) ==
    /\ wpc[w] = "commit"
    /\ CommitSchema(w)
    /\ WorkerAt(w, "serving")
    /\ UNCHANGED <<runVars, queue, listening, failed, settings>>

-----------------------------------------------------------------------------
(* Serving, and the log.                                                   *)

Log(w) ==
    /\ wpc[w] \in {"check", "create", "commit", "serving", "closing"}
    /\ Len(queue[w]) < MaxQueue
    /\ Put(w, <<"app">>)
    /\ UNCHANGED <<migrationVars, wpc, listening, failed, settings>>

\* The listener thread writes a record, or ends at the sentinel.
Listen(w) ==
    /\ listening[w]
    /\ queue[w] # <<>>
    /\ queue' = [queue EXCEPT ![w] = Tail(@)]
    /\ listening' = [listening EXCEPT ![w] = Head(queue[w]) # "sentinel"]
    /\ UNCHANGED <<migrationVars, wpc, failed, settings>>

-----------------------------------------------------------------------------
(* Shutdown.                                                               *)

\* The server has stopped taking requests and the last one has ended.
Shutdown(w) ==
    /\ wpc[w] = "serving"
    /\ WorkerAt(w, "closing")
    /\ UNCHANGED <<migrationVars, queue, listening, failed, settings>>

\* Fault: the listener is stopped before the last record.
FaultyLastRecords == <<"sentinel", "app">>

LastRecords == <<"app", "sentinel">>

\* close_redis_client returns; the record, and the sentinel of stop().
Stop(w) ==
    /\ wpc[w] = "closing"
    /\ Put(w, LastRecords)
    /\ WorkerAt(w, "joining")
    /\ UNCHANGED <<migrationVars, listening, failed, settings>>

\* stop() returns when the thread has ended.  What the server logs after that
\* stays in the queue.
Join(w) ==
    /\ wpc[w] = "joining"
    /\ ~listening[w]
    /\ Put(w, <<"server">>)
    /\ WorkerAt(w, "stopped")
    /\ UNCHANGED <<migrationVars, listening, failed, settings>>

\* The worker is killed, or close_redis_client raises and lifespan with it.
Die(w) ==
    /\ wpc[w] \notin {"off", "stopped"}
    /\ Gone(w)
    /\ RollbackSchema(w)
    /\ UNCHANGED <<runVars, failed, settings>>

-----------------------------------------------------------------------------

Progress(w) ==
    CheckSchema(w) \/ CreateSchema(w) \/ StartupFails(w) \/ CommitWorkersSchema(w)
        \/ Stop(w) \/ Join(w) \/ Listen(w)

Next ==
    \/ MigrationNext /\ UNCHANGED workerVars
    \/ \E w \in Workers : Launch(w) \/ Progress(w) \/ Log(w) \/ Shutdown(w) \/ Die(w)

Spec == Init /\ [][Next]_vars

-----------------------------------------------------------------------------
(* A worker that is to create a missing schema (main.py:73) serves only on *)
(* an existing one, whether it, another worker or the migration made it.   *)
(* With the setting off startup looks at nothing, and nothing is promised. *)

ServesOnSchema ==
    autoCreate =>
        \A w \in Workers : wpc[w] \in {"serving", "closing", "joining", "stopped"} => tables

(* Under docker compose no worker loses the race for the schema            *)
(* (session.py:81), whatever other runs of the migration do meanwhile.     *)

ComposeStartsClean == composed => failed = {}

(* A worker that stopped in order has written every record of the          *)
(* application (logging.py:142); only the server's own come too late.      *)

LogsWritten ==
    \A w \in Workers : wpc[w] = "stopped" => queue[w] = <<"server">>
=============================================================================
