------------------------- MODULE Deployment_proofs -------------------------
(***************************************************************************)
(* Proofs about IndexMigration and Deployment: for any number of runs of   *)
(* the migration and of workers, killed, disconnected and interleaved in   *)
(* any way, and a log queue of any length.                                 *)
(***************************************************************************)
EXTENDS Deployment, SequenceTheorems, TLAPS

TableNames == {"product", "category"}

-----------------------------------------------------------------------------
(* The invariants of the proofs.                                           *)

\* Indexes exist only on tables; an invalid one was begun by a run.
DatabaseInv ==
    /\ creator # None => ~tables
    /\ \A i \in Indexes : index[i] # "absent" => tables
    /\ \A i \in Indexes : index[i] = "invalid" => leftBy[i] \in Runs
    /\ \A t \in TableNames :
          build[t] # None => index[build[t]] = "invalid" /\ Table(build[t]) = t

\* A run without errors has done all statements before the one it is at.
Done(m) ==
    ~errors[m] =>
        /\ at[m] > 1 => extension
        /\ \A j \in 2..at[m] - 1 : index[Migrations[j]] # "absent"

BuildsNow(m, i) == rpc[m] = "building" /\ Migrations[at[m]] = i /\ build[Table(i)] = i

\* An index that a run has left invalid is known to it, or it was killed.
KnowsInvalid(m) ==
    \A i \in Indexes :
        index[i] = "invalid" /\ leftBy[i] = m =>
            BuildsNow(m, i) \/ errors[m] \/ exit[m] = "killed"

RunInv(m) ==
    /\ rpc[m] \in {"migrate", "building"} => tables
    /\ rpc[m] # "exited" => exit[m] = "none"
    /\ rpc[m] = "building" => at[m] \in 2..Len(Migrations)
    /\ exit[m] = "success" => tables /\ ~errors[m] /\ at[m] = Len(Migrations) + 1
    /\ Done(m)
    /\ KnowsInvalid(m)

MigrationInv == DatabaseInv /\ \A m \in Runs : RunInv(m)

\* Under docker compose the tables are there before any worker is.
StartInv ==
    composed =>
        /\ failed = {}
        /\ \A w \in Workers :
              wpc[w] # "off" => tables /\ wpc[w] \notin {"create", "commit"}

NoSentinel(s) == \A k \in 1..Len(s) : s[k] # "sentinel"

EndsInSentinel(s) ==
    /\ Len(s) > 0 /\ s[Len(s)] = "sentinel"
    /\ \A k \in 1..Len(s) - 1 : s[k] # "sentinel"

\* The sentinel comes last, and is there as long as the thread runs.
LogInv(w) ==
    /\ wpc[w] \in {"check", "create", "commit", "serving", "closing"} =>
          listening[w] /\ NoSentinel(queue[w])
    /\ wpc[w] = "joining" =>
          \/ listening[w] /\ EndsInSentinel(queue[w])
          \/ ~listening[w] /\ queue[w] = <<>>
    /\ wpc[w] = "stopped" => ~listening[w] /\ queue[w] = <<"server">>
    /\ wpc[w] = "off" => ~listening[w]

-----------------------------------------------------------------------------
(* Types.                                                                  *)

LEMMA MigrationsFacts ==
    /\ Len(Migrations) = 4
    /\ Migrations[1] = "pg_trgm" /\ Migrations[2] = "price"
    /\ Migrations[3] = "parent_id" /\ Migrations[4] = "title_trgm"
    /\ \A j \in 2..4 : Migrations[j] \in Indexes
    /\ \A i \in Indexes : Table(i) \in TableNames /\ \E j \in 2..4 : Migrations[j] = i
    /\ None \notin Indexes
<1>1. Len(Migrations) = 4
  BY DEF Migrations
<1>2. Migrations[1] = "pg_trgm" /\ Migrations[2] = "price"
  BY DEF Migrations
<1>3. Migrations[3] = "parent_id" /\ Migrations[4] = "title_trgm"
  BY DEF Migrations
<1>4. \A j \in 2..4 : j = 2 \/ j = 3 \/ j = 4
  OBVIOUS
<1>5. \A j \in 2..4 : Migrations[j] \in Indexes
  BY <1>2, <1>3, <1>4 DEF Indexes, BTrees
<1>6. \A i \in Indexes : i = "price" \/ i = "parent_id" \/ i = "title_trgm"
  BY DEF Indexes, BTrees
<1>7. \A i \in Indexes : Table(i) \in TableNames
  BY DEF Table, TableNames
<1>8. \A i \in Indexes : \E j \in 2..4 : Migrations[j] = i
  BY <1>2, <1>3, <1>6
<1> QED
  BY <1>1, <1>2, <1>3, <1>5, <1>7, <1>8, NoneAssumption

\* What Advance leaves.
LEMMA Advanced ==
    ASSUME TypeOK, NEW m \in Runs, at[m] <= Len(Migrations),
           NEW failure \in BOOLEAN, Advance(m, failure)
    PROVE  /\ at' \in [Runs -> 1..Len(Migrations) + 1]
           /\ errors' \in [Runs -> BOOLEAN]
           /\ at'[m] = at[m] + 1
           /\ errors'[m] = (failure \/ errors[m])
           /\ \A k \in Runs : k # m => at'[k] = at[k] /\ errors'[k] = errors[k]
<1> DEFINE E == IF failure THEN Noted(m) ELSE errors[m]
<1>1. at \in [Runs -> 1..Len(Migrations) + 1] /\ errors \in [Runs -> BOOLEAN]
  BY DEF TypeOK, MigrationTypeOK
<1>2. at' = [at EXCEPT ![m] = @ + 1]
  BY DEF Advance
<1>3. at[m] + 1 \in 1..Len(Migrations) + 1
  BY <1>1, MigrationsFacts
<1>4. at' \in [Runs -> 1..Len(Migrations) + 1]
  BY <1>1, <1>2, <1>3
<1>5. at'[m] = at[m] + 1 /\ \A k \in Runs : k # m => at'[k] = at[k]
  BY <1>1, <1>2
<1>6. E = (failure \/ errors[m])
  <2>1. errors[m] \in BOOLEAN
    BY <1>1
  <2>2. CASE failure = TRUE
    BY <2>2 DEF Noted
  <2>3. CASE failure = FALSE
    BY <2>1, <2>3
  <2> QED
    BY <2>2, <2>3
<1>7. E \in BOOLEAN
  BY <1>6
<1>8. errors' = [errors EXCEPT ![m] = E]
  BY DEF Advance
<1> HIDE DEF E
<1>9. /\ errors' \in [Runs -> BOOLEAN]
      /\ errors'[m] = E
      /\ \A k \in Runs : k # m => errors'[k] = errors[k]
  BY <1>1, <1>7, <1>8
<1> QED
  BY <1>4, <1>5, <1>6, <1>9

BeginsBuild(m, i) ==
    /\ index[i] = "absent"
    /\ index' = [index EXCEPT ![i] = "invalid"]
    /\ build' = [build EXCEPT ![Table(i)] = i]
    /\ leftBy' = [leftBy EXCEPT ![i] = m]
    /\ rpc' = [rpc EXCEPT ![m] = "building"]
    /\ UNCHANGED <<tables, creator, extension, at, errors>>

\* CREATE INDEX is answered at once, or a build begins.
LEMMA IndexCases ==
    ASSUME TypeOK, NEW m \in Runs, CreateIndex(m),
           NEW i, i = Migrations[at[m]]
    PROVE  /\ i \in Indexes /\ Table(i) \in TableNames
           /\ build[Table(i)] = None
           /\ exit' = exit
           /\ \/ BeginsBuild(m, i)
              \/ /\ UNCHANGED databaseVars
                 /\ UNCHANGED rpc
                 /\ \E failure \in BOOLEAN :
                       Advance(m, failure) /\ (failure \/ index[i] # "absent")
<1>1. i \in Indexes /\ Table(i) \in TableNames
  BY MigrationsFacts DEF CreateIndex
<1>2. build[Table(i)] = None /\ exit' = exit
  BY DEF CreateIndex
<1>3. CASE index[i] # "absent" /\ Advance(m, FALSE) /\ UNCHANGED <<databaseVars, rpc>>
  BY <1>1, <1>2, <1>3
<1>4. CASE Advance(m, TRUE) /\ UNCHANGED <<databaseVars, rpc>>
  BY <1>1, <1>2, <1>4
<1>5. CASE /\ index[i] = "absent"
           /\ index' = [index EXCEPT ![i] = "invalid"]
           /\ build' = [build EXCEPT ![Table(i)] = i]
           /\ leftBy' = [leftBy EXCEPT ![i] = m]
           /\ RunAt(m, "building")
           /\ UNCHANGED <<tables, creator, extension, at, errors>>
  BY <1>1, <1>2, <1>5 DEF BeginsBuild, RunAt
<1> QED
  BY <1>3, <1>4, <1>5 DEF CreateIndex

LEMMA MigrationTypes ==
    ASSUME TypeOK, MigrationInv, MigrationNext
    PROVE  MigrationTypeOK' /\ creator' \in Runs \cup Workers \cup {None}
<1> USE DEF TypeOK, MigrationTypeOK
<1>1. ASSUME NEW m \in Runs, RunStep(m)
      PROVE  MigrationTypeOK' /\ creator' \in Runs \cup Workers \cup {None}
  <2>1. CASE CheckTables(m)
    BY <2>1 DEF CheckTables, RunAt, databaseVars
  <2>2. CASE CreateTables(m)
    BY <2>2 DEF CreateTables, OpenSchema, SchemaConflict, RunAt, Exit, databaseVars
  <2>3. CASE CommitTables(m)
    BY <2>3 DEF CommitTables, CommitSchema, RunAt
  <2>4. CASE CreateExtension(m)
    <3>1. at[m] <= Len(Migrations)
      BY <2>4, MigrationsFacts DEF CreateExtension
    <3>2. at' \in [Runs -> 1..Len(Migrations) + 1] /\ errors' \in [Runs -> BOOLEAN]
      BY <2>4, <3>1, Advanced DEF CreateExtension
    <3>3. extension' \in BOOLEAN
      BY <2>4 DEF CreateExtension
    <3>4. UNCHANGED <<tables, creator, index, build, leftBy, rpc, exit>>
      BY <2>4 DEF CreateExtension
    <3> QED
      BY <3>2, <3>3, <3>4
  <2>5. CASE CreateIndex(m)
    <3> DEFINE i == Migrations[at[m]]
    <3>1. i \in Indexes /\ Table(i) \in TableNames /\ exit' = exit
      BY <2>5, IndexCases
    <3>2. CASE BeginsBuild(m, i)
      BY <3>1, <3>2 DEF BeginsBuild, TableNames
    <3>3. CASE /\ UNCHANGED databaseVars
               /\ UNCHANGED rpc
               /\ \E failure \in BOOLEAN : Advance(m, failure)
      <4>1. at[m] <= Len(Migrations)
        BY <2>5, MigrationsFacts DEF CreateIndex
      <4>2. at' \in [Runs -> 1..Len(Migrations) + 1] /\ errors' \in [Runs -> BOOLEAN]
        BY <3>3, <4>1, Advanced
      <4> QED
        BY <3>1, <3>3, <4>2 DEF databaseVars
    <3> QED
      BY <2>5, <3>2, <3>3, IndexCases
  <2>6. CASE Report(m)
    BY <2>6 DEF Report, RunAt, Exit, databaseVars
  <2> QED
    BY <1>1, <2>1, <2>2, <2>3, <2>4, <2>5, <2>6 DEF RunStep
<1>2. ASSUME NEW m \in Runs, LoseConnection(m)
      PROVE  MigrationTypeOK' /\ creator' \in Runs \cup Workers \cup {None}
  <2>1. at' \in [Runs -> 1..Len(Migrations) + 1]
    BY <1>2, MigrationsFacts DEF LoseConnection
  <2>2. errors' \in [Runs -> BOOLEAN]
    BY <1>2 DEF LoseConnection, Noted
  <2> QED
    BY <1>2, <2>1, <2>2 DEF LoseConnection, RunAt, databaseVars
<1>3. ASSUME NEW m \in Runs, Kill(m)
      PROVE  MigrationTypeOK' /\ creator' \in Runs \cup Workers \cup {None}
  BY <1>3 DEF Kill, Exit, RunAt, RollbackSchema
<1>4. ASSUME NEW t \in TableNames, EndBuild(t)
      PROVE  MigrationTypeOK' /\ creator' \in Runs \cup Workers \cup {None}
  <2> DEFINE i == build[t]
             m == leftBy[i]
  <2>1. i \in Indexes
    BY <1>4 DEF EndBuild, TableNames
  <2>2. PICK ok \in BOOLEAN :
           /\ index' = [index EXCEPT ![i] = IF ok THEN "valid" ELSE "invalid"]
           /\ \/ Waiting(m, i) /\ Advance(m, ~ok) /\ RunAt(m, "migrate")
              \/ ~Waiting(m, i) /\ UNCHANGED <<at, errors, rpc>>
    BY <1>4 DEF EndBuild
  <2>3. /\ at' \in [Runs -> 1..Len(Migrations) + 1]
        /\ errors' \in [Runs -> BOOLEAN]
        /\ rpc' \in [Runs -> {"idle", "create", "commit", "migrate", "building", "exited"}]
    <3>1. CASE ~Waiting(m, i)
      BY <2>2, <3>1
    <3>2. CASE Waiting(m, i)
      <4>1. Advance(m, ~ok) /\ RunAt(m, "migrate")
        BY <2>2, <3>2
      <4>2. m \in Runs
        BY <1>4, <2>1 DEF EndBuild, MigrationInv, DatabaseInv
      <4>3. at[m] <= Len(Migrations)
        BY <3>2, <4>2, MigrationsFacts DEF Waiting, MigrationInv, RunInv
      <4> QED
        BY <4>1, <4>2, <4>3, Advanced DEF RunAt
    <3> QED
      BY <2>2, <3>1, <3>2
  <2> QED
    BY <1>4, <2>1, <2>2, <2>3 DEF EndBuild, TableNames
<1> QED
  BY <1>1, <1>2, <1>3, <1>4 DEF MigrationNext, TableNames
-----------------------------------------------------------------------------
(* The database, and the runs an action leaves alone.                      *)

\* Nothing is dropped.
Grows ==
    /\ tables => tables'
    /\ extension => extension'
    /\ \A i \in Indexes : index[i] # "absent" => index'[i] # "absent"

Kept(k) ==
    /\ rpc'[k] = rpc[k] /\ at'[k] = at[k] /\ errors'[k] = errors[k] /\ exit'[k] = exit[k]
    /\ \A i \in Indexes :
          index'[i] = "invalid" /\ leftBy'[i] = k =>
             /\ index[i] = "invalid" /\ leftBy[i] = k
             /\ BuildsNow(k, i) => build'[Table(i)] = i

LEMMA DoneKept ==
    ASSUME TypeOK, Grows, NEW k \in Runs, Done(k), at'[k] = at[k], errors'[k] = errors[k]
    PROVE  Done(k)'
<1> SUFFICES ASSUME ~errors[k]
             PROVE  /\ at[k] > 1 => extension'
                    /\ \A j \in 2..at[k] - 1 : index'[Migrations[j]] # "absent"
  BY DEF Done
<1>1. at[k] \in 1..5
  BY MigrationsFacts DEF TypeOK, MigrationTypeOK
<1>2. \A j \in 2..at[k] - 1 : Migrations[j] \in Indexes
  BY <1>1, MigrationsFacts
<1> QED
  BY <1>2 DEF Grows, Done

LEMMA RunKept ==
    ASSUME TypeOK, Grows, NEW k \in Runs, RunInv(k), Kept(k)
    PROVE  RunInv(k)'
<1>1. Done(k)'
  BY DoneKept DEF Kept, RunInv
<1>2. KnowsInvalid(k)'
  BY DEF Kept, RunInv, KnowsInvalid, BuildsNow
<1>3. /\ (rpc[k] \in {"migrate", "building"} => tables)'
      /\ (rpc[k] # "exited" => exit[k] = "none")'
      /\ (rpc[k] = "building" => at[k] \in 2..Len(Migrations))'
      /\ (exit[k] = "success" => tables /\ ~errors[k] /\ at[k] = Len(Migrations) + 1)'
  BY DEF Kept, RunInv, Grows
<1> QED
  BY <1>1, <1>2, <1>3 DEF RunInv

\* The steps of create_all, whoever takes them.
LEMMA SchemaSteps ==
    ASSUME TypeOK, DatabaseInv, NEW p \in Runs \cup Workers,
           OpenSchema(p) \/ SchemaConflict \/ CommitSchema(p) \/ RollbackSchema(p)
    PROVE  /\ DatabaseInv' /\ Grows
           /\ leftBy' = leftBy /\ build' = build
           /\ \A i \in Indexes : index'[i] = "invalid" => index[i] = "invalid"
<1>0. p # None
  BY NoneAssumption, WorkersAssumption
<1>1. CASE OpenSchema(p)
  BY <1>1 DEF OpenSchema, DatabaseInv, Grows
<1>2. CASE SchemaConflict
  BY <1>2 DEF SchemaConflict, DatabaseInv, Grows, databaseVars
<1>3. CASE CommitSchema(p)
  <2>1. ~tables /\ \A i \in Indexes : index[i] = "absent"
    BY <1>0, <1>3 DEF CommitSchema, DatabaseInv
  <2>2. \A t \in TableNames : build[t] = None
    BY <2>1 DEF DatabaseInv, TypeOK, MigrationTypeOK, TableNames
  <2>3. \A i \in Indexes : index'[i] # "invalid"
    BY <1>3, <2>1 DEF CommitSchema
  <2> QED
    BY <1>3, <2>1, <2>2, <2>3 DEF CommitSchema, DatabaseInv, Grows
<1>4. CASE RollbackSchema(p)
  BY <1>4 DEF RollbackSchema, DatabaseInv, Grows
<1> QED
  BY <1>1, <1>2, <1>3, <1>4

\* Steps of create_all leave a run's invariant alone when it does not move.
LEMMA SchemaKeeps ==
    ASSUME TypeOK, DatabaseInv, NEW p \in Runs \cup Workers,
           OpenSchema(p) \/ SchemaConflict \/ CommitSchema(p) \/ RollbackSchema(p),
           NEW k \in Runs, RunInv(k),
           rpc'[k] = rpc[k], at'[k] = at[k], errors'[k] = errors[k], exit'[k] = exit[k]
    PROVE  RunInv(k)'
<1>1. Kept(k)
  BY SchemaSteps DEF Kept, BuildsNow
<1> QED
  BY <1>1, SchemaSteps, RunKept

-----------------------------------------------------------------------------
(* Steps of the script.                                                    *)

LEMMA InitMigrationInv == ASSUME Init PROVE MigrationInv
<1> USE DEF Init, MigrationInit
<1>1. DatabaseInv
  BY DEF DatabaseInv, TableNames
<1>2. ASSUME NEW m \in Runs PROVE RunInv(m)
  <2>1. rpc[m] = "idle" /\ at[m] = 1 /\ exit[m] = "none"
    OBVIOUS
  <2>2. \A i \in Indexes : index[i] # "invalid"
    OBVIOUS
  <2>3. Done(m)
    BY <2>1 DEF Done
  <2> QED
    BY <2>1, <2>2, <2>3 DEF RunInv, KnowsInvalid
<1> QED
  BY <1>1, <1>2 DEF MigrationInv

LEMMA RunStepKeeps ==
    ASSUME TypeOK, MigrationInv, NEW m \in Runs, RunStep(m)
    PROVE  MigrationInv'
<1> DEFINE Others == \A k \in Runs : k # m =>
              /\ rpc'[k] = rpc[k] /\ at'[k] = at[k]
              /\ errors'[k] = errors[k] /\ exit'[k] = exit[k]
<1> USE DEF TypeOK, MigrationTypeOK
<1>1. CASE CheckTables(m)
  <2>1. UNCHANGED databaseVars /\ Others /\ Grows
    BY <1>1 DEF CheckTables, RunAt, Grows, databaseVars
  <2>2. DatabaseInv'
    BY <2>1 DEF databaseVars, DatabaseInv, MigrationInv
  <2>3. ASSUME NEW k \in Runs, k # m PROVE RunInv(k)'
    BY <2>1, <2>3, RunKept DEF databaseVars, Kept, BuildsNow, MigrationInv
  <2>4. RunInv(m)'
    <3>1. Done(m)'
      BY <1>1, <2>1, DoneKept DEF CheckTables, MigrationInv, RunInv
    <3>2. rpc[m] = "idle" /\ exit'[m] = exit[m] /\ errors' = errors /\ at' = at
      BY <1>1 DEF CheckTables
    <3>3. KnowsInvalid(m)'
      BY <2>1, <3>2 DEF databaseVars, MigrationInv, RunInv, KnowsInvalid, BuildsNow
    <3>4. rpc'[m] = IF tables THEN "migrate" ELSE "create"
      BY <1>1 DEF CheckTables, RunAt
    <3> QED
      BY <2>1, <3>1, <3>2, <3>3, <3>4 DEF databaseVars, MigrationInv, RunInv
  <2> QED
    BY <2>2, <2>3, <2>4 DEF MigrationInv
<1>2. CASE CreateTables(m)
  <2>1. OpenSchema(m) \/ SchemaConflict
    BY <1>2 DEF CreateTables
  <2>2. DatabaseInv' /\ Grows /\ leftBy' = leftBy /\ build' = build
        /\ \A i \in Indexes : index'[i] = "invalid" => index[i] = "invalid"
    BY <2>1, SchemaSteps DEF MigrationInv
  <2>3. Others /\ errors' = errors /\ at' = at
    BY <1>2 DEF CreateTables, RunAt, Exit
  <2>4. ASSUME NEW k \in Runs, k # m PROVE RunInv(k)'
    BY <2>1, <2>3, <2>4, SchemaKeeps DEF MigrationInv
  <2>5. RunInv(m)'
    <3>1. Done(m)'
      BY <2>2, <2>3, DoneKept DEF MigrationInv, RunInv
    <3>2. rpc[m] = "create" /\ exit[m] = "none"
      BY <1>2 DEF CreateTables, MigrationInv, RunInv
    <3>3. KnowsInvalid(m)'
      BY <2>2, <2>3, <3>2 DEF MigrationInv, RunInv, KnowsInvalid, BuildsNow
    <3>4. \/ rpc'[m] = "commit" /\ exit'[m] = "none"
          \/ rpc'[m] = "exited" /\ exit'[m] = "failure"
      BY <1>2, <3>2 DEF CreateTables, RunAt, Exit
    <3> QED
      BY <3>1, <3>3, <3>4 DEF RunInv
  <2> QED
    BY <2>2, <2>4, <2>5 DEF MigrationInv
<1>3. CASE CommitTables(m)
  <2>1. CommitSchema(m)
    BY <1>3 DEF CommitTables
  <2>2. DatabaseInv' /\ Grows /\ leftBy' = leftBy /\ build' = build
        /\ \A i \in Indexes : index'[i] = "invalid" => index[i] = "invalid"
    BY <2>1, SchemaSteps DEF MigrationInv
  <2>3. Others /\ errors' = errors /\ at' = at
    BY <1>3 DEF CommitTables, RunAt
  <2>4. ASSUME NEW k \in Runs, k # m PROVE RunInv(k)'
    BY <2>1, <2>3, <2>4, SchemaKeeps DEF MigrationInv
  <2>5. RunInv(m)'
    <3>1. Done(m)'
      BY <2>2, <2>3, DoneKept DEF MigrationInv, RunInv
    <3>2. rpc[m] = "commit" /\ exit'[m] = "none"
      BY <1>3 DEF CommitTables, MigrationInv, RunInv
    <3>3. KnowsInvalid(m)'
      BY <1>3, <2>2, <2>3, <3>2
      DEF MigrationInv, RunInv, KnowsInvalid, BuildsNow, CommitTables
    <3>4. rpc'[m] = "migrate" /\ tables'
      BY <1>3 DEF CommitTables, CommitSchema, RunAt
    <3> QED
      BY <3>1, <3>2, <3>3, <3>4 DEF RunInv
  <2> QED
    BY <2>2, <2>4, <2>5 DEF MigrationInv
<1>6. CASE Report(m)
  <2>1. UNCHANGED databaseVars /\ Others /\ Grows
    BY <1>6 DEF Report, RunAt, Exit, Grows, databaseVars
  <2>2. DatabaseInv'
    BY <2>1 DEF databaseVars, DatabaseInv, MigrationInv
  <2>3. ASSUME NEW k \in Runs, k # m PROVE RunInv(k)'
    BY <2>1, <2>3, RunKept DEF databaseVars, Kept, BuildsNow, MigrationInv
  <2>4. RunInv(m)'
    <3>1. Done(m)'
      BY <1>6, <2>1, DoneKept DEF Report, MigrationInv, RunInv
    <3>2. /\ rpc[m] = "migrate" /\ exit[m] = "none" /\ tables /\ tables'
          /\ at[m] = Len(Migrations) + 1
      <4>1. rpc[m] = "migrate" /\ at[m] > Len(Migrations)
        BY <1>6 DEF Report
      <4>2. exit[m] = "none" /\ tables
        BY <4>1 DEF MigrationInv, RunInv
      <4>3. at[m] = Len(Migrations) + 1
        <5>1. Len(Migrations) = 4 /\ at[m] \in 1..5
          BY MigrationsFacts
        <5> QED
          BY <4>1, <5>1
      <4> QED
        BY <2>1, <4>1, <4>2, <4>3 DEF databaseVars
    <3>3. errors' = errors /\ at' = at /\ rpc'[m] = "exited"
      BY <1>6 DEF Report, RunAt, Exit
    <3>4. exit'[m] = "success" => ~errors[m]
      <4>1. CASE errors[m]
        <5>1. exit' = [exit EXCEPT ![m] = "failure"]
          BY <1>6, <4>1 DEF Report, Exit
        <5> QED
          BY <5>1
      <4> QED
        BY <4>1
    <3>5. KnowsInvalid(m)'
      BY <2>1, <3>2, <3>3 DEF databaseVars, MigrationInv, RunInv, KnowsInvalid, BuildsNow
    <3>6. exit'[m] = "success" => ~errors'[m]
      BY <3>3, <3>4
    <3> QED
      BY <3>1, <3>2, <3>3, <3>5, <3>6 DEF RunInv
  <2> QED
    BY <2>2, <2>3, <2>4 DEF MigrationInv
<1>4. CASE CreateExtension(m)
  <2>1. at[m] = 1 /\ rpc[m] = "migrate" /\ at[m] <= Len(Migrations)
    BY <1>4, MigrationsFacts DEF CreateExtension
  <2>2. PICK failure \in BOOLEAN : Advance(m, failure) /\ (failure \/ extension')
    BY <1>4 DEF CreateExtension
  <2>3. UNCHANGED <<tables, creator, index, build, leftBy, rpc, exit>> /\ Grows
    BY <1>4 DEF CreateExtension, Grows
  <2>4. /\ at'[m] = 2
        /\ errors'[m] = (failure \/ errors[m])
        /\ \A k \in Runs : k # m => at'[k] = at[k] /\ errors'[k] = errors[k]
    BY <2>1, <2>2, Advanced
  <2>5. DatabaseInv'
    BY <2>3 DEF DatabaseInv, MigrationInv
  <2>6. ASSUME NEW k \in Runs, k # m PROVE RunInv(k)'
    BY <2>3, <2>4, <2>6, RunKept DEF Kept, BuildsNow, MigrationInv
  <2>7. RunInv(m)'
    <3>1. Done(m)'
      BY <2>2, <2>4 DEF Done
    <3>2. tables /\ exit[m] = "none"
      BY <2>1 DEF MigrationInv, RunInv
    <3>3. KnowsInvalid(m)'
      BY <2>1, <2>3, <2>4 DEF MigrationInv, RunInv, KnowsInvalid, BuildsNow
    <3> QED
      BY <2>1, <2>3, <3>1, <3>2, <3>3 DEF RunInv
  <2> QED
    BY <2>5, <2>6, <2>7 DEF MigrationInv
<1>5. CASE CreateIndex(m)
  <2> DEFINE i == Migrations[at[m]]
  <2>1. /\ at[m] \in 2..4 /\ rpc[m] = "migrate" /\ at[m] <= Len(Migrations)
        /\ tables /\ exit[m] = "none"
    BY <1>5, MigrationsFacts DEF CreateIndex, MigrationInv, RunInv
  <2>2. i \in Indexes /\ Table(i) \in TableNames /\ exit' = exit /\ build[Table(i)] = None
    BY <1>5, IndexCases
  <2>3. CASE BeginsBuild(m, i)
    <3> HIDE DEF i
    <3>1. /\ index[i] = "absent"
          /\ index' = [index EXCEPT ![i] = "invalid"]
          /\ build' = [build EXCEPT ![Table(i)] = i]
          /\ leftBy' = [leftBy EXCEPT ![i] = m]
          /\ UNCHANGED <<tables, creator, extension, at, errors, exit>>
      BY <2>2, <2>3 DEF BeginsBuild
    <3>2. rpc'[m] = "building" /\ \A k \in Runs : k # m => rpc'[k] = rpc[k]
      BY <2>3 DEF BeginsBuild
    <3>3. Grows
      BY <3>1 DEF Grows
    <3>4. DatabaseInv'
      <4>1. \A j \in Indexes : index'[j] = "invalid" => leftBy'[j] \in Runs
        BY <3>1 DEF DatabaseInv, MigrationInv
      <4>2. ASSUME NEW t \in TableNames, build'[t] # None
            PROVE  index'[build'[t]] = "invalid" /\ Table(build'[t]) = t
        <5>1. CASE t = Table(i)
          BY <2>2, <3>1, <5>1 DEF TableNames
        <5>2. CASE t # Table(i)
          <6>1. build'[t] = build[t]
            BY <3>1, <5>2
          <6>2. index[build[t]] = "invalid" /\ Table(build[t]) = t /\ build[t] \in Indexes
            BY <4>2, <6>1 DEF DatabaseInv, MigrationInv, TableNames
          <6> QED
            BY <3>1, <6>1, <6>2
        <5> QED
          BY <5>1, <5>2
      <4> QED
        BY <2>1, <3>1, <4>1, <4>2 DEF DatabaseInv, MigrationInv
    <3>5. ASSUME NEW k \in Runs, k # m PROVE RunInv(k)'
      <4>1. Kept(k)
        <5>1. rpc'[k] = rpc[k] /\ at'[k] = at[k] /\ errors'[k] = errors[k] /\ exit'[k] = exit[k]
          BY <3>1, <3>2, <3>5
        <5>2. ASSUME NEW j \in Indexes, index'[j] = "invalid", leftBy'[j] = k
              PROVE  /\ index[j] = "invalid" /\ leftBy[j] = k
                     /\ build[Table(j)] = j => build'[Table(j)] = j
          <6>1. j # i /\ index[j] = "invalid" /\ leftBy[j] = k
            BY <2>2, <3>1, <3>5, <5>2
          <6>2. build[Table(j)] = j => Table(j) # Table(i)
            BY <2>2, MigrationsFacts
          <6>3. build[Table(j)] = j => build'[Table(j)] = j
            BY <3>1, <6>2, MigrationsFacts DEF TableNames
          <6> QED
            BY <6>1, <6>3
        <5> QED
          BY <5>1, <5>2 DEF Kept, BuildsNow
      <4> QED
        BY <3>3, <4>1, RunKept DEF MigrationInv
    <3>6. RunInv(m)'
      <4>1. Done(m)'
        BY <3>1, <3>3, DoneKept DEF MigrationInv, RunInv
      <4>2. KnowsInvalid(m)'
        <5> SUFFICES ASSUME NEW j \in Indexes, index'[j] = "invalid", leftBy'[j] = m
                     PROVE  BuildsNow(m, j)' \/ errors[m] \/ exit[m] = "killed"
          BY <3>1 DEF KnowsInvalid
        <5>1. CASE j = i
          <6>1. at' = at /\ Migrations[at[m]] = j
            BY <3>1, <5>1 DEF i
          <6>2. build'[Table(j)] = j
            BY <2>2, <3>1, <5>1 DEF TableNames
          <6> QED
            BY <3>2, <6>1, <6>2 DEF BuildsNow
        <5>2. CASE j # i
          <6>1. index[j] = "invalid" /\ leftBy[j] = m
            BY <3>1, <5>2
          <6> QED
            BY <2>1, <6>1 DEF MigrationInv, RunInv, KnowsInvalid, BuildsNow
        <5> QED
          BY <5>1, <5>2
      <4> QED
        BY <2>1, <3>1, <3>2, <4>1, <4>2, MigrationsFacts DEF RunInv
    <3> QED
      BY <3>4, <3>5, <3>6 DEF MigrationInv
  <2>4. CASE /\ UNCHANGED databaseVars
             /\ UNCHANGED rpc
             /\ \E failure \in BOOLEAN :
                   Advance(m, failure) /\ (failure \/ index[i] # "absent")
    <3>1. PICK failure \in BOOLEAN : Advance(m, failure) /\ (failure \/ index[i] # "absent")
      BY <2>4
    <3>2. /\ at'[m] = at[m] + 1
          /\ errors'[m] = (failure \/ errors[m])
          /\ \A k \in Runs : k # m => at'[k] = at[k] /\ errors'[k] = errors[k]
      BY <2>1, <3>1, Advanced
    <3>3. Grows /\ DatabaseInv'
      BY <2>4 DEF databaseVars, Grows, DatabaseInv, MigrationInv
    <3>4. ASSUME NEW k \in Runs, k # m PROVE RunInv(k)'
      BY <2>2, <2>4, <3>2, <3>3, <3>4, RunKept
      DEF databaseVars, Kept, BuildsNow, MigrationInv
    <3>5. Done(m)'
      <4> SUFFICES ASSUME ~errors'[m]
                   PROVE  /\ extension
                          /\ \A j \in 2..at[m] : index[Migrations[j]] # "absent"
        BY <2>1, <2>4, <3>2 DEF Done, databaseVars
      <4>1. ~errors[m] /\ index[i] # "absent"
        BY <3>1, <3>2
      <4>2. extension /\ \A j \in 2..at[m] - 1 : index[Migrations[j]] # "absent"
        <5>1. Done(m)
          BY DEF MigrationInv, RunInv
        <5>2. at[m] > 1
          BY <2>1
        <5> QED
          BY <4>1, <5>1, <5>2 DEF Done
      <4>3. \A j \in 2..at[m] : j = at[m] \/ j \in 2..at[m] - 1
        BY <2>1
      <4> QED
        BY <4>1, <4>2, <4>3
    <3>6. KnowsInvalid(m)'
      BY <2>1, <2>2, <2>4, <3>2
      DEF databaseVars, MigrationInv, RunInv, KnowsInvalid, BuildsNow
    <3>7. RunInv(m)'
      BY <2>1, <2>2, <2>4, <3>5, <3>6 DEF RunInv, databaseVars
    <3> QED
      BY <3>3, <3>4, <3>7 DEF MigrationInv
  <2> QED
    BY <1>5, <2>3, <2>4, IndexCases
<1> QED
  BY <1>1, <1>2, <1>3, <1>4, <1>5, <1>6 DEF RunStep

LEMMA LoseConnectionKeeps ==
    ASSUME TypeOK, MigrationInv, NEW m \in Runs, LoseConnection(m)
    PROVE  MigrationInv'
<1> USE DEF TypeOK, MigrationTypeOK
<1>1. /\ rpc[m] \in {"migrate", "building"} /\ tables /\ exit[m] = "none"
      /\ UNCHANGED databaseVars /\ UNCHANGED exit
  BY DEF LoseConnection, MigrationInv, RunInv
<1>2. rpc'[m] = "migrate" /\ \A k \in Runs : k # m => rpc'[k] = rpc[k]
  BY DEF LoseConnection, RunAt
<1>3. \A k \in Runs : k # m => at'[k] = at[k]
  BY DEF LoseConnection
<1>4. errors'[m] /\ \A k \in Runs : k # m => errors'[k] = errors[k]
  <2>1. errors' = [errors EXCEPT ![m] = TRUE]
    BY DEF LoseConnection, Noted
  <2> QED
    BY <2>1
<1>5. Grows /\ DatabaseInv'
  BY <1>1 DEF databaseVars, Grows, DatabaseInv, MigrationInv
<1>6. ASSUME NEW k \in Runs, k # m PROVE RunInv(k)'
  BY <1>1, <1>2, <1>3, <1>4, <1>5, <1>6, RunKept DEF databaseVars, Kept, BuildsNow, MigrationInv
<1>7. RunInv(m)'
  BY <1>1, <1>2, <1>4 DEF databaseVars, RunInv, Done, KnowsInvalid
<1> QED
  BY <1>5, <1>6, <1>7 DEF MigrationInv

LEMMA KillKeeps ==
    ASSUME TypeOK, MigrationInv, NEW m \in Runs, Kill(m)
    PROVE  MigrationInv'
<1> USE DEF TypeOK, MigrationTypeOK
<1>1. RollbackSchema(m) /\ at' = at /\ errors' = errors
  BY DEF Kill
<1>2. /\ rpc'[m] = "exited" /\ exit'[m] = "killed"
      /\ \A k \in Runs : k # m => rpc'[k] = rpc[k] /\ exit'[k] = exit[k]
  BY DEF Kill, Exit, RunAt
<1>3. DatabaseInv' /\ Grows
  BY <1>1, SchemaSteps DEF MigrationInv
<1>4. ASSUME NEW k \in Runs, k # m PROVE RunInv(k)'
  BY <1>1, <1>2, <1>4, SchemaKeeps DEF MigrationInv
<1>5. RunInv(m)'
  <2>1. Done(m)'
    BY <1>1, <1>3, DoneKept DEF MigrationInv, RunInv
  <2> QED
    BY <1>2, <2>1 DEF RunInv, KnowsInvalid
<1> QED
  BY <1>3, <1>4, <1>5 DEF MigrationInv

LEMMA EndBuildKeeps ==
    ASSUME TypeOK, MigrationInv, NEW t \in TableNames, EndBuild(t)
    PROVE  MigrationInv'
<1> USE DEF TypeOK, MigrationTypeOK
<1>a. PICK i \in Indexes : i = build[t]
  BY DEF EndBuild, TableNames
<1>b. PICK m \in Runs : m = leftBy[i]
  BY <1>a DEF EndBuild, DatabaseInv, MigrationInv
<1>1. /\ index[i] = "invalid" /\ Table(i) = t
      /\ build' = [build EXCEPT ![t] = None] /\ tables
  BY <1>a DEF EndBuild, DatabaseInv, MigrationInv
<1>2. PICK ok \in BOOLEAN :
         /\ index' = [index EXCEPT ![i] = IF ok THEN "valid" ELSE "invalid"]
         /\ \/ Waiting(m, i) /\ Advance(m, ~ok) /\ RunAt(m, "migrate")
            \/ ~Waiting(m, i) /\ UNCHANGED <<at, errors, rpc>>
  BY <1>a, <1>b DEF EndBuild
<1>3. UNCHANGED <<tables, creator, extension, leftBy, exit>>
  BY DEF EndBuild
<1>4. index'[i] = "invalid" => ~ok
  BY <1>1, <1>2
<1>5. index'[i] # "absent" /\ \A j \in Indexes : j # i => index'[j] = index[j]
  BY <1>1, <1>2
<1>6. Grows
  BY <1>3, <1>5 DEF Grows
<1>7. DatabaseInv'
  <2>1. ASSUME NEW u \in TableNames, build'[u] # None
        PROVE  index'[build'[u]] = "invalid" /\ Table(build'[u]) = u
    <3>1. u # t /\ build'[u] = build[u]
      BY <1>1, <2>1 DEF TableNames
    <3>2. build[u] \in Indexes /\ index[build[u]] = "invalid" /\ Table(build[u]) = u
      BY <2>1, <3>1 DEF TableNames, DatabaseInv, MigrationInv
    <3>3. build[u] # i
      BY <1>1, <3>1, <3>2
    <3> QED
      BY <1>5, <3>1, <3>2, <3>3
  <2>2. \A j \in Indexes : index'[j] = "invalid" => leftBy[j] \in Runs
    BY <1>b, <1>5 DEF DatabaseInv, MigrationInv
  <2> QED
    BY <1>1, <1>3, <2>1, <2>2 DEF DatabaseInv, MigrationInv
<1>8. ASSUME NEW k \in Runs, NEW j \in Indexes, j # i, BuildsNow(k, j)
      PROVE  build'[Table(j)] = j
  BY <1>a, <1>1, <1>8, MigrationsFacts DEF BuildsNow, TableNames
<1>9. ASSUME NEW k \in Runs, k # m PROVE RunInv(k)'
  <2>1. rpc'[k] = rpc[k] /\ at'[k] = at[k] /\ errors'[k] = errors[k] /\ exit'[k] = exit[k]
    <3>1. CASE ~Waiting(m, i)
      BY <1>2, <1>3, <3>1
    <3>2. CASE Waiting(m, i)
      <4>1. Advance(m, ~ok) /\ RunAt(m, "migrate")
        BY <1>2, <3>2
      <4>2. rpc'[k] = rpc[k] /\ at'[k] = at[k]
        BY <1>9, <4>1 DEF Advance, RunAt
      <4>3. at[m] <= Len(Migrations)
        BY <1>1, <3>2, MigrationsFacts DEF Waiting, MigrationInv, RunInv
      <4>4. errors'[k] = errors[k]
        BY <1>1, <1>9, <4>1, <4>3, Advanced
      <4> QED
        BY <1>3, <4>2, <4>4
    <3> QED
      BY <3>1, <3>2
  <2>2. ASSUME NEW j \in Indexes, index'[j] = "invalid", leftBy'[j] = k
        PROVE  /\ index[j] = "invalid" /\ leftBy[j] = k
               /\ BuildsNow(k, j) => build'[Table(j)] = j
    <3>1. j # i /\ index[j] = "invalid" /\ leftBy[j] = k
      BY <1>b, <1>3, <1>5, <1>9, <2>2
    <3> QED
      BY <1>8, <3>1
  <2>3. Kept(k)
    BY <2>1, <2>2 DEF Kept
  <2> QED
    BY <1>6, <2>3, RunKept DEF MigrationInv
<1>10. RunInv(m)'
  <2>1. CASE Waiting(m, i)
    <3>1. /\ at[m] \in 2..4 /\ at[m] <= Len(Migrations) /\ rpc[m] = "building"
          /\ exit[m] = "none" /\ Migrations[at[m]] = i
      BY <1>1, <2>1, MigrationsFacts DEF Waiting, MigrationInv, RunInv
    <3>2. Advance(m, ~ok) /\ RunAt(m, "migrate")
      BY <1>2, <2>1
    <3>3. at'[m] = at[m] + 1 /\ errors'[m] = (~ok \/ errors[m]) /\ rpc'[m] = "migrate"
      BY <1>1, <3>1, <3>2, Advanced DEF RunAt
    <3>4. Done(m)'
      <4> SUFFICES ASSUME ~errors'[m]
                   PROVE  /\ extension
                          /\ \A j \in 2..at[m] : index'[Migrations[j]] # "absent"
        BY <1>3, <3>1, <3>3 DEF Done
      <4>1. ~errors[m]
        BY <3>3
      <4>2. extension /\ \A j \in 2..at[m] - 1 : index[Migrations[j]] # "absent"
        BY <1>1, <3>1, <4>1 DEF Done, RunInv, MigrationInv
      <4>3. \A j \in 2..at[m] : j = at[m] \/ j \in 2..at[m] - 1
        BY <3>1
      <4>4. \A j \in 2..at[m] : Migrations[j] \in Indexes
        BY <3>1, MigrationsFacts
      <4> QED
        BY <1>5, <3>1, <4>2, <4>3, <4>4
    <3>5. KnowsInvalid(m)'
      <4> SUFFICES ASSUME NEW j \in Indexes, index'[j] = "invalid", leftBy[j] = m
                   PROVE  errors'[m]
        BY <1>3 DEF KnowsInvalid
      <4>1. CASE j = i
        BY <1>4, <3>3, <4>1
      <4>2. CASE j # i
        <5>1. index[j] = "invalid" /\ ~BuildsNow(m, j) /\ exit[m] # "killed"
          BY <1>5, <3>1, <4>2 DEF BuildsNow
        <5>2. errors[m]
          BY <1>1, <5>1 DEF MigrationInv, RunInv, KnowsInvalid
        <5> QED
          BY <3>3, <5>2
      <4> QED
        BY <4>1, <4>2
    <3>6. tables' /\ exit'[m] = "none"
      BY <1>1, <1>3, <3>1
    <3> QED
      BY <3>3, <3>4, <3>5, <3>6 DEF RunInv
  <2>2. CASE ~Waiting(m, i)
    <3>1. UNCHANGED <<at, errors, rpc>>
      BY <1>2, <2>2
    <3>2. Done(m)'
      BY <1>1, <1>6, <3>1, DoneKept DEF MigrationInv, RunInv
    <3>3. KnowsInvalid(m)'
      <4> SUFFICES ASSUME NEW j \in Indexes, index'[j] = "invalid", leftBy[j] = m
                   PROVE  BuildsNow(m, j)' \/ errors[m] \/ exit[m] = "killed"
        BY <1>3, <3>1 DEF KnowsInvalid
      <4>1. index[j] = "invalid"
        BY <1>1, <1>5
      <4>2. BuildsNow(m, j) \/ errors[m] \/ exit[m] = "killed"
        BY <1>1, <4>1 DEF MigrationInv, RunInv, KnowsInvalid
      <4>3. BuildsNow(m, j) => j # i
        BY <2>2 DEF BuildsNow, Waiting
      <4> QED
        BY <1>1, <1>8, <3>1, <4>2, <4>3 DEF BuildsNow
    <3> QED
      BY <1>1, <1>3, <3>1, <3>2, <3>3 DEF RunInv, MigrationInv
  <2> QED
    BY <2>1, <2>2
<1> QED
  BY <1>7, <1>9, <1>10 DEF MigrationInv

LEMMA MigrationKeeps ==
    ASSUME TypeOK, MigrationInv, MigrationNext
    PROVE  MigrationInv'
BY RunStepKeeps, LoseConnectionKeeps, KillKeeps, EndBuildKeeps DEF MigrationNext, TableNames

-----------------------------------------------------------------------------
(* Steps of the workers.                                                   *)

WorkerStep(w) == Launch(w) \/ Progress(w) \/ Log(w) \/ Shutdown(w) \/ Die(w)

\* To the database a worker's step is one of create_all, or nothing.
LEMMA WorkerAtDatabase ==
    ASSUME TypeOK, MigrationInv, NEW w \in Workers, WorkerStep(w)
    PROVE  /\ UNCHANGED runVars
           /\ composed' = composed /\ autoCreate' = autoCreate
           /\ \/ UNCHANGED databaseVars
              \/ OpenSchema(w) \/ SchemaConflict \/ CommitSchema(w) \/ RollbackSchema(w)
<1> USE DEF settings
<1>1. CASE Launch(w) \/ Log(w) \/ Shutdown(w)
  BY <1>1 DEF Launch, Log, Shutdown, migrationVars
<1>2. CASE Die(w)
  BY <1>2 DEF Die
<1>3. CASE CheckSchema(w) \/ Stop(w) \/ Join(w) \/ Listen(w)
  BY <1>3 DEF CheckSchema, Stop, Join, Listen, migrationVars
<1>4. CASE CreateSchema(w) \/ StartupFails(w) \/ CommitWorkersSchema(w)
  BY <1>4 DEF CreateSchema, StartupFails, CommitWorkersSchema
<1> QED
  BY <1>1, <1>2, <1>3, <1>4 DEF WorkerStep, Progress

LEMMA WorkerKeepsMigrationInv ==
    ASSUME TypeOK, MigrationInv, NEW w \in Workers, WorkerStep(w)
    PROVE  MigrationInv' /\ Grows
<1>1. UNCHANGED runVars
  BY WorkerAtDatabase
<1>2. CASE UNCHANGED databaseVars
  <2>1. DatabaseInv' /\ Grows
    BY <1>2 DEF databaseVars, DatabaseInv, MigrationInv, Grows
  <2>2. ASSUME NEW k \in Runs PROVE RunInv(k)'
    BY <1>1, <1>2, <2>1, RunKept DEF runVars, databaseVars, Kept, BuildsNow, MigrationInv
  <2> QED
    BY <2>1, <2>2 DEF MigrationInv
<1>3. CASE OpenSchema(w) \/ SchemaConflict \/ CommitSchema(w) \/ RollbackSchema(w)
  <2>1. DatabaseInv' /\ Grows
    BY <1>3, SchemaSteps DEF MigrationInv
  <2>2. ASSUME NEW k \in Runs PROVE RunInv(k)'
    BY <1>1, <1>3, SchemaKeeps DEF runVars, MigrationInv
  <2> QED
    BY <2>1, <2>2 DEF MigrationInv
<1> QED
  BY <1>2, <1>3, WorkerAtDatabase

LEMMA WorkerTypes ==
    ASSUME TypeOK, MigrationInv, NEW w \in Workers, WorkerStep(w)
    PROVE  TypeOK'
<1> DEFINE Records == {"app", "server", "sentinel"}
           Places == {"off", "check", "create", "commit", "serving", "closing", "joining",
                      "stopped"}
<1> USE DEF settings
<1>1. MigrationTypeOK' /\ creator' \in Runs \cup Workers \cup {None}
  <2>1. UNCHANGED runVars
    BY WorkerAtDatabase
  <2>2. CASE UNCHANGED databaseVars
    BY <2>1, <2>2 DEF TypeOK, MigrationTypeOK, databaseVars, runVars
  <2>3. CASE OpenSchema(w) \/ SchemaConflict \/ CommitSchema(w) \/ RollbackSchema(w)
    BY <2>1, <2>3
    DEF TypeOK, MigrationTypeOK, databaseVars, runVars, OpenSchema, SchemaConflict,
        CommitSchema, RollbackSchema
  <2> QED
    BY <2>2, <2>3, WorkerAtDatabase
<1>2. ASSUME NEW s \in Seq(Records), Put(w, s)
      PROVE  queue' \in [Workers -> Seq(Records)]
  <2>1. queue[w] \o s \in Seq(Records)
    BY <1>2, ConcatProperties DEF TypeOK
  <2> QED
    BY <1>2, <2>1 DEF TypeOK, Put
<1>3. CASE Launch(w)
  BY <1>1, <1>3 DEF TypeOK, Launch, WorkerAt
<1>4. CASE CheckSchema(w) \/ CreateSchema(w) \/ CommitWorkersSchema(w) \/ Shutdown(w)
  BY <1>1, <1>4
  DEF TypeOK, CheckSchema, CreateSchema, CommitWorkersSchema, Shutdown, WorkerAt
<1>5. CASE StartupFails(w) \/ Die(w)
  <2>1. Gone(w) /\ composed' = composed /\ autoCreate' = autoCreate
    BY <1>5, WorkerAtDatabase DEF StartupFails, Die
  <2>2. failed' \subseteq Workers
    BY <1>5 DEF TypeOK, StartupFails, Die
  <2>3. wpc' \in [Workers -> Places] /\ listening' \in [Workers -> BOOLEAN]
    BY <2>1 DEF TypeOK, Gone, WorkerAt
  <2>4. queue' \in [Workers -> Seq(Records)]
    <3>1. <<>> \in Seq(Records)
      OBVIOUS
    <3> QED
      BY <2>1, <3>1 DEF TypeOK, Gone
  <2> QED
    BY <1>1, <2>1, <2>2, <2>3, <2>4 DEF TypeOK
<1>6. CASE Log(w)
  <2>1. <<"app">> \in Seq(Records)
    OBVIOUS
  <2>2. queue' \in [Workers -> Seq(Records)]
    BY <1>2, <1>6, <2>1 DEF Log
  <2> QED
    BY <1>1, <1>6, <2>2 DEF TypeOK, Log
<1>7. CASE Stop(w)
  <2>1. LastRecords \in Seq(Records)
    BY DEF LastRecords
  <2>2. queue' \in [Workers -> Seq(Records)]
    BY <1>2, <1>7, <2>1 DEF Stop
  <2> QED
    BY <1>1, <1>7, <2>2 DEF TypeOK, Stop, WorkerAt
<1>8. CASE Join(w)
  <2>1. <<"server">> \in Seq(Records)
    OBVIOUS
  <2>2. queue' \in [Workers -> Seq(Records)]
    BY <1>2, <1>8, <2>1 DEF Join
  <2> QED
    BY <1>1, <1>8, <2>2 DEF TypeOK, Join, WorkerAt
<1>9. CASE Listen(w)
  <2>1. queue[w] \in Seq(Records) /\ queue[w] # <<>>
    BY <1>9 DEF TypeOK, Listen
  <2>2. Tail(queue[w]) \in Seq(Records)
    BY <2>1, HeadTailProperties
  <2>3. queue' \in [Workers -> Seq(Records)]
    BY <1>9, <2>2 DEF TypeOK, Listen
  <2>4. listening' \in [Workers -> BOOLEAN]
    <3> DEFINE more == Head(queue[w]) # "sentinel"
    <3>1. more \in BOOLEAN
      OBVIOUS
    <3>2. listening' = [listening EXCEPT ![w] = more]
      BY <1>9 DEF Listen
    <3> HIDE DEF more
    <3> QED
      BY <3>1, <3>2 DEF TypeOK
  <2> QED
    BY <1>1, <1>9, <2>3, <2>4 DEF TypeOK, Listen
<1> QED
  BY <1>3, <1>4, <1>5, <1>6, <1>7, <1>8, <1>9 DEF WorkerStep, Progress

-----------------------------------------------------------------------------
(* The theorems about types and about the script.                          *)

LEMMA InitTypes == ASSUME Init PROVE TypeOK
<1>1. MigrationTypeOK
  <2>1. MigrationInit
    BY DEF Init
  <2>2. tables \in BOOLEAN /\ extension \in BOOLEAN
    BY <2>1 DEF MigrationInit
  <2>3. index \in [Indexes -> {"absent", "valid", "invalid"}]
    BY <2>1 DEF MigrationInit
  <2>4. at \in [Runs -> 1..Len(Migrations) + 1]
    BY <2>1, MigrationsFacts DEF MigrationInit
  <2>5. /\ build \in [{"product", "category"} -> Indexes \cup {None}]
        /\ leftBy \in [Indexes -> Runs \cup {None}]
        /\ rpc \in [Runs -> {"idle", "create", "commit", "migrate", "building", "exited"}]
        /\ errors \in [Runs -> BOOLEAN]
        /\ exit \in [Runs -> {"none", "success", "failure", "killed"}]
    BY <2>1 DEF MigrationInit
  <2> QED
    BY <2>2, <2>3, <2>4, <2>5 DEF MigrationTypeOK
<1>2. <<>> \in Seq({"app", "server", "sentinel"})
  OBVIOUS
<1> QED
  BY <1>1, <1>2 DEF Init, MigrationInit, TypeOK

LEMMA TypesKept ==
    ASSUME TypeOK, MigrationInv, [Next]_vars
    PROVE  TypeOK' /\ MigrationInv'
<1>1. CASE MigrationNext /\ UNCHANGED workerVars
  <2>1. TypeOK'
    BY <1>1, MigrationTypes DEF TypeOK, workerVars, settings
  <2> QED
    BY <1>1, <2>1, MigrationKeeps
<1>2. ASSUME NEW w \in Workers, WorkerStep(w)
      PROVE  TypeOK' /\ MigrationInv'
  BY <1>2, WorkerTypes, WorkerKeepsMigrationInv
<1>3. CASE UNCHANGED vars
  BY <1>3
  DEF vars, migrationVars, databaseVars, runVars, workerVars, settings, TypeOK, MigrationTypeOK,
      MigrationInv, DatabaseInv, RunInv, Done, KnowsInvalid, BuildsNow
<1> QED
  BY <1>1, <1>2, <1>3 DEF Next, WorkerStep

LEMMA InvariantHolds == Spec => [](TypeOK /\ MigrationInv)
<1>1. Init => TypeOK /\ MigrationInv
  BY InitTypes, InitMigrationInv
<1>2. TypeOK /\ MigrationInv /\ [Next]_vars => (TypeOK /\ MigrationInv)'
  BY TypesKept
<1> QED
  BY <1>1, <1>2, PTL DEF Spec

(* Every state of database, runs and workers has its type.                 *)
THEOREM TypeCorrect == Spec => []TypeOK
BY InvariantHolds, PTL

(* Whatever runs overlap, are killed or lose their connection: after a run *)
(* that reports success tables and extension are there and no index is     *)
(* missing, and one that is not valid is known to the run that began its   *)
(* build: it waits for it, counts it as an error, or was killed.           *)
THEOREM UnusableIndexReported == Spec => []UnusableReported
<1>1. TypeOK /\ MigrationInv => UnusableReported
  <2> SUFFICES ASSUME TypeOK, MigrationInv, NEW m \in Runs, exit[m] = "success"
               PROVE  /\ tables /\ extension
                      /\ \A i \in Indexes :
                            \/ index[i] = "valid"
                            \/ /\ index[i] = "invalid"
                               /\ \/ Waiting(leftBy[i], i)
                                  \/ errors[leftBy[i]]
                                  \/ exit[leftBy[i]] = "killed"
    BY DEF UnusableReported
  <2>1. tables /\ ~errors[m] /\ at[m] = 5 /\ Done(m)
    BY MigrationsFacts DEF MigrationInv, RunInv
  <2>2. extension /\ \A j \in 2..4 : index[Migrations[j]] # "absent"
    BY <2>1 DEF Done
  <2>3. ASSUME NEW i \in Indexes, index[i] # "valid"
        PROVE  /\ index[i] = "invalid"
               /\ \/ Waiting(leftBy[i], i)
                  \/ errors[leftBy[i]]
                  \/ exit[leftBy[i]] = "killed"
    <3>1. index[i] = "invalid"
      BY <2>2, <2>3, MigrationsFacts DEF TypeOK, MigrationTypeOK
    <3>2. leftBy[i] \in Runs /\ KnowsInvalid(leftBy[i])
      BY <3>1 DEF MigrationInv, DatabaseInv, RunInv
    <3> QED
      BY <3>1, <3>2 DEF KnowsInvalid, BuildsNow, Waiting
  <2> QED
    BY <2>1, <2>2, <2>3
<1> QED
  BY <1>1, InvariantHolds, PTL

-----------------------------------------------------------------------------
(* The theorems about startup.                                             *)

LEMMA ServingKept ==
    ASSUME TypeOK, MigrationInv, ServesOnSchema, [Next]_vars
    PROVE  ServesOnSchema'
<1> SUFFICES ASSUME autoCreate'
             PROVE  \A w \in Workers :
                       wpc'[w] \in {"serving", "closing", "joining", "stopped"} => tables'
  BY DEF ServesOnSchema
<1>1. CASE MigrationNext /\ UNCHANGED workerVars
  <2>1. tables => tables'
    BY <1>1 DEF MigrationNext, RunStep, CheckTables, CreateTables, CommitTables,
                CreateExtension, CreateIndex, Report, LoseConnection, Kill, EndBuild,
                OpenSchema, SchemaConflict, CommitSchema, RollbackSchema, databaseVars
  <2> QED
    BY <1>1, <2>1 DEF workerVars, settings, ServesOnSchema
<1>2. ASSUME NEW w \in Workers, WorkerStep(w)
      PROVE  \A v \in Workers :
                wpc'[v] \in {"serving", "closing", "joining", "stopped"} => tables'
  <2> DEFINE Running == {"serving", "closing", "joining", "stopped"}
  <2>1. autoCreate /\ (tables => tables')
    BY <1>2, WorkerAtDatabase, WorkerKeepsMigrationInv DEF Grows
  <2>2. \A v \in Workers : v # w => wpc'[v] = wpc[v]
    BY <1>2
    DEF TypeOK, WorkerStep, Progress, Launch, Log, Shutdown, Die, CheckSchema, CreateSchema,
        StartupFails, CommitWorkersSchema, Stop, Join, Listen, Gone, WorkerAt
  <2>3. wpc'[w] \in Running => tables'
    <3>1. CASE CheckSchema(w)
      BY <2>1, <3>1 DEF TypeOK, CheckSchema, WorkerAt, migrationVars, databaseVars
    <3>2. CASE CommitWorkersSchema(w)
      BY <3>2 DEF CommitWorkersSchema, CommitSchema
    <3>3. CASE Launch(w) \/ Die(w) \/ CreateSchema(w) \/ StartupFails(w)
      BY <3>3 DEF TypeOK, Launch, Die, CreateSchema, StartupFails, Gone, WorkerAt
    <3>4. CASE Log(w) \/ Listen(w)
      BY <2>1, <3>4 DEF ServesOnSchema, Log, Listen
    <3>5. CASE Shutdown(w) \/ Stop(w) \/ Join(w)
      BY <2>1, <3>5 DEF TypeOK, ServesOnSchema, Shutdown, Stop, Join, WorkerAt
    <3> QED
      BY <1>2, <3>1, <3>2, <3>3, <3>4, <3>5 DEF WorkerStep, Progress
  <2> QED
    BY <2>1, <2>2, <2>3 DEF ServesOnSchema
<1>3. CASE UNCHANGED vars
  BY <1>3 DEF vars, migrationVars, databaseVars, workerVars, settings, ServesOnSchema
<1> QED
  BY <1>1, <1>2, <1>3 DEF Next, WorkerStep

(* No worker that runs with auto_create_schema serves requests before the  *)
(* tables exist, whether it or another process creates them.               *)
THEOREM ServesOnSchemaAlways == Spec => []ServesOnSchema
<1>1. Init => ServesOnSchema
  BY DEF Init, ServesOnSchema
<1>2. TypeOK /\ MigrationInv /\ ServesOnSchema /\ [Next]_vars => ServesOnSchema'
  BY ServingKept
<1> QED
  BY <1>1, <1>2, InvariantHolds, PTL DEF Spec

LEMMA StartKept ==
    ASSUME TypeOK, MigrationInv, StartInv, [Next]_vars
    PROVE  StartInv'
<1> SUFFICES ASSUME composed'
             PROVE  /\ failed' = {}
                    /\ \A v \in Workers :
                          wpc'[v] # "off" =>
                             tables' /\ wpc'[v] \notin {"create", "commit"}
  BY DEF StartInv
<1>1. CASE MigrationNext /\ UNCHANGED workerVars
  <2>1. tables => tables'
    BY <1>1 DEF MigrationNext, RunStep, CheckTables, CreateTables, CommitTables,
                CreateExtension, CreateIndex, Report, LoseConnection, Kill, EndBuild,
                OpenSchema, SchemaConflict, CommitSchema, RollbackSchema, databaseVars
  <2> QED
    BY <1>1, <2>1 DEF workerVars, settings, StartInv
<1>2. ASSUME NEW w \in Workers, WorkerStep(w)
      PROVE  /\ failed' = {}
             /\ \A v \in Workers :
                   wpc'[v] # "off" => tables' /\ wpc'[v] \notin {"create", "commit"}
  <2>1. composed /\ (tables => tables')
    BY <1>2, WorkerAtDatabase, WorkerKeepsMigrationInv DEF Grows
  <2>2. /\ failed = {}
        /\ \A v \in Workers :
              wpc[v] # "off" => tables /\ wpc[v] \notin {"create", "commit"}
    BY <2>1 DEF StartInv
  <2>3. \A v \in Workers : v # w => wpc'[v] = wpc[v]
    BY <1>2
    DEF TypeOK, WorkerStep, Progress, Launch, Log, Shutdown, Die, CheckSchema, CreateSchema,
        StartupFails, CommitWorkersSchema, Stop, Join, Listen, Gone, WorkerAt
  <2>4. ~(CreateSchema(w) \/ StartupFails(w) \/ CommitWorkersSchema(w))
    BY <2>2 DEF CreateSchema, StartupFails, CommitWorkersSchema
  <2>5. failed' = {} /\ (wpc'[w] # "off" => tables' /\ wpc'[w] \notin {"create", "commit"})
    <3>1. CASE Launch(w)
      <4>1. \E m \in Runs : exit[m] = "success"
        BY <2>1, <3>1 DEF Launch, Released
      <4>2. tables
        BY <4>1 DEF MigrationInv, RunInv
      <4> QED
        BY <2>1, <2>2, <3>1, <4>2 DEF TypeOK, Launch, WorkerAt
    <3>2. CASE CheckSchema(w)
      BY <2>1, <2>2, <3>2 DEF TypeOK, CheckSchema, WorkerAt
    <3>3. CASE Log(w) \/ Listen(w)
      BY <2>1, <2>2, <3>3 DEF Log, Listen
    <3>4. CASE Shutdown(w) \/ Stop(w) \/ Join(w)
      BY <2>1, <2>2, <3>4 DEF TypeOK, Shutdown, Stop, Join, WorkerAt
    <3>5. CASE Die(w)
      BY <2>2, <3>5 DEF TypeOK, Die, Gone, WorkerAt
    <3> QED
      BY <1>2, <2>4, <3>1, <3>2, <3>3, <3>4, <3>5 DEF WorkerStep, Progress
  <2> QED
    BY <2>1, <2>2, <2>3, <2>5
<1>3. CASE UNCHANGED vars
  BY <1>3 DEF vars, migrationVars, databaseVars, workerVars, settings, StartInv
<1> QED
  BY <1>1, <1>2, <1>3 DEF Next, WorkerStep

(* Waiting for a successful migration keeps every worker out of the race   *)
(* for the schema.                                                         *)
THEOREM ComposeStarts == Spec => []ComposeStartsClean
<1>1. Init => StartInv
  BY DEF Init, StartInv
<1>2. TypeOK /\ MigrationInv /\ StartInv /\ [Next]_vars => StartInv'
  BY StartKept
<1>3. StartInv => ComposeStartsClean
  BY DEF StartInv, ComposeStartsClean
<1> QED
  BY <1>1, <1>2, <1>3, InvariantHolds, PTL DEF Spec

-----------------------------------------------------------------------------
(* The theorem about the log.                                              *)

Records == {"app", "server", "sentinel"}

\* The queue with one or two records behind what it held.
LEMMA OneAppended ==
    ASSUME NEW s \in Seq(Records), NEW r \in Seq(Records), Len(r) = 1, r[1] = "app"
    PROVE  /\ Len(s \o r) = Len(s) + 1
           /\ (s \o r)[Len(s) + 1] = "app"
           /\ \A k \in 1..Len(s) : (s \o r)[k] = s[k]
<1>1. Len(s \o r) = Len(s) + 1
  <2>1. Len(s \o r) = Len(s) + Len(r)
    BY ConcatProperties
  <2> QED
    BY <2>1, Zenon
<1>2. (s \o r)[Len(s) + 1] = "app"
  OBVIOUS
<1>3. \A k \in 1..Len(s) : (s \o r)[k] = s[k]
  OBVIOUS
<1> QED
  BY <1>1, <1>2, <1>3

LEMMA TwoAppended ==
    ASSUME NEW s \in Seq(Records), NEW r \in Seq(Records), Len(r) = 2,
           r[1] = "app", r[2] = "sentinel"
    PROVE  /\ Len(s \o r) = Len(s) + 2
           /\ (s \o r)[Len(s) + 1] = "app" /\ (s \o r)[Len(s) + 2] = "sentinel"
           /\ \A k \in 1..Len(s) : (s \o r)[k] = s[k]
<1>1. Len(s \o r) = Len(s) + 2
  <2>1. Len(s \o r) = Len(s) + Len(r)
    BY ConcatProperties
  <2> QED
    BY <2>1, Zenon
<1>2. (s \o r)[Len(s) + 1] = "app" /\ (s \o r)[Len(s) + 2] = "sentinel"
  <2>1. (s \o r)[Len(s) + 1] = "app"
    OBVIOUS
  <2>2. (s \o r)[Len(s) + 2] = "sentinel"
    BY LenProperties, ConcatProperties
  <2> QED
    BY <2>1, <2>2
<1>3. \A k \in 1..Len(s) : (s \o r)[k] = s[k]
  OBVIOUS
<1> QED
  BY <1>1, <1>2, <1>3

\* A record of the application, and what stop() appends.
LEMMA NoSentinelAppended ==
    ASSUME NEW s \in Seq(Records), NoSentinel(s),
           NEW r \in Seq(Records), Len(r) = 1, r[1] = "app"
    PROVE  NoSentinel(s \o r)
<1>1. Len(s) \in Nat
  BY LenProperties
<1>2. \A k \in 1..Len(s) + 1 : k = Len(s) + 1 \/ k \in 1..Len(s)
  BY <1>1
<1> QED
  BY <1>2, OneAppended DEF NoSentinel

LEMMA SentinelAppended ==
    ASSUME NEW s \in Seq(Records), NoSentinel(s),
           NEW r \in Seq(Records), Len(r) = 2, r[1] = "app", r[2] = "sentinel"
    PROVE  EndsInSentinel(s \o r)
<1>1. Len(s) \in Nat
  BY LenProperties
<1>2. \A k \in 1..Len(s) + 1 : k = Len(s) + 1 \/ k \in 1..Len(s)
  BY <1>1
<1>3. \A k \in 1..Len(s) + 1 : (s \o r)[k] # "sentinel"
  BY <1>2, TwoAppended DEF NoSentinel
<1> QED
  BY <1>1, <1>3, TwoAppended DEF EndsInSentinel

LEMMA Enqueued ==
    ASSUME NEW s \in Seq(Records), NoSentinel(s)
    PROVE  NoSentinel(s \o <<"app">>) /\ EndsInSentinel(s \o LastRecords)
<1>1. <<"app">> \in Seq(Records) /\ Len(<<"app">>) = 1 /\ <<"app">>[1] = "app"
  BY DEF Records
<1>2. /\ LastRecords \in Seq(Records) /\ Len(LastRecords) = 2
      /\ LastRecords[1] = "app" /\ LastRecords[2] = "sentinel"
  BY DEF Records, LastRecords
<1>3. \A r \in Seq(Records) : Len(r) = 1 /\ r[1] = "app" => NoSentinel(s \o r)
  BY NoSentinelAppended
<1> QED
  BY <1>1, <1>2, <1>3, SentinelAppended

\* What the listener takes from the queue, and what it leaves.
LEMMA Dequeued ==
    ASSUME NEW s \in Seq(Records), s # <<>>
    PROVE  /\ NoSentinel(s) => Head(s) # "sentinel" /\ NoSentinel(Tail(s))
           /\ EndsInSentinel(s) =>
                 \/ Head(s) = "sentinel" /\ Tail(s) = <<>>
                 \/ Head(s) # "sentinel" /\ EndsInSentinel(Tail(s))
<1>1. /\ Tail(s) \in Seq(Records) /\ Len(Tail(s)) = Len(s) - 1
      /\ \A k \in 1..Len(Tail(s)) : Tail(s)[k] = s[k + 1]
  BY HeadTailProperties
<1>2. Len(s) \in Nat \ {0} /\ Head(s) = s[1]
  BY EmptySeq
<1>3. NoSentinel(s) => Head(s) # "sentinel" /\ NoSentinel(Tail(s))
  <2>1. \A k \in 1..Len(s) - 1 : k + 1 \in 1..Len(s)
    BY <1>2
  <2> QED
    BY <1>1, <1>2, <2>1 DEF NoSentinel
<1>4. CASE EndsInSentinel(s) /\ Len(s) = 1
  <2>1. Len(Tail(s)) = 0
    BY <1>1, <1>4
  <2>2. Tail(s) = <<>>
    BY <1>1, <2>1, EmptySeq
  <2> QED
    <3>1. Head(s) = "sentinel"
      BY <1>2, <1>4 DEF EndsInSentinel
    <3> QED
      BY <1>3, <2>2, <3>1 DEF NoSentinel
<1>5. CASE EndsInSentinel(s) /\ Len(s) # 1
  <2>1. s[1] # "sentinel"
    <3>1. \A n \in Nat \ {0} : n # 1 => 1 \in 1..n - 1
      OBVIOUS
    <3> QED
      BY <1>2, <1>5, <3>1 DEF EndsInSentinel
  <2>2. Len(Tail(s)) > 0 /\ Tail(s)[Len(Tail(s))] = s[Len(s)]
    BY <1>1, <1>2, <1>5
  <2>3. \A k \in 1..Len(Tail(s)) - 1 : k \in 1..Len(Tail(s)) /\ k + 1 \in 1..Len(s) - 1
    BY <1>1, <1>2
  <2>4. \A k \in 1..Len(Tail(s)) - 1 : Tail(s)[k] # "sentinel"
    BY <1>1, <1>5, <2>3 DEF EndsInSentinel
  <2> QED
    BY <1>2, <1>3, <1>5, <2>1, <2>2, <2>4 DEF EndsInSentinel
<1> QED
  BY <1>3, <1>4, <1>5

LEMMA LogKept ==
    ASSUME TypeOK, NEW w \in Workers, LogInv(w), WorkerStep(w)
    PROVE  LogInv(w)'
<1>0. queue[w] \in Seq(Records)
  BY DEF TypeOK, Records
<1>1. CASE Launch(w)
  <2>1. wpc'[w] = "check" /\ listening'[w] /\ queue'[w] = <<>>
    BY <1>1 DEF TypeOK, Launch, WorkerAt
  <2> QED
    BY <2>1 DEF LogInv, NoSentinel
<1>2. CASE CheckSchema(w) \/ CreateSchema(w) \/ CommitWorkersSchema(w) \/ Shutdown(w)
  <2>1. /\ wpc[w] \in {"check", "create", "commit", "serving"}
        /\ wpc'[w] \in {"create", "commit", "serving", "closing"}
        /\ queue' = queue /\ listening' = listening
    BY <1>2
    DEF TypeOK, CheckSchema, CreateSchema, CommitWorkersSchema, Shutdown, WorkerAt
  <2> QED
    BY <2>1 DEF LogInv
<1>3. CASE StartupFails(w) \/ Die(w)
  <2>1. wpc'[w] = "off" /\ ~listening'[w]
    BY <1>3 DEF TypeOK, StartupFails, Die, Gone, WorkerAt
  <2> QED
    BY <2>1 DEF LogInv
<1>4. CASE Log(w)
  <2>1. /\ wpc[w] \in {"check", "create", "commit", "serving", "closing"}
        /\ wpc' = wpc /\ listening' = listening /\ queue'[w] = queue[w] \o <<"app">>
    BY <1>4 DEF TypeOK, Log, Put
  <2> QED
    BY <1>0, <2>1, Enqueued DEF LogInv
<1>5. CASE Listen(w)
  <2>1. /\ listening[w] /\ queue[w] # <<>> /\ wpc' = wpc
        /\ queue'[w] = Tail(queue[w])
        /\ listening'[w] = (Head(queue[w]) # "sentinel")
    BY <1>5 DEF TypeOK, Listen
  <2>2. \/ wpc[w] \in {"check", "create", "commit", "serving", "closing"}
        \/ wpc[w] = "joining"
    BY <2>1 DEF LogInv, TypeOK
  <2>3. CASE wpc[w] \in {"check", "create", "commit", "serving", "closing"}
    BY <1>0, <2>1, <2>3, Dequeued DEF LogInv
  <2>4. CASE wpc[w] = "joining"
    <3>1. EndsInSentinel(queue[w])
      BY <2>1, <2>4 DEF LogInv
    <3>2. \/ ~listening'[w] /\ queue'[w] = <<>>
          \/ listening'[w] /\ EndsInSentinel(queue'[w])
      BY <1>0, <2>1, <3>1, Dequeued
    <3> QED
      BY <2>1, <2>4, <3>2 DEF LogInv
  <2> QED
    BY <2>2, <2>3, <2>4
<1>6. CASE Stop(w)
  <2>1. /\ wpc[w] = "closing" /\ wpc'[w] = "joining" /\ listening' = listening
        /\ queue'[w] = queue[w] \o LastRecords
    BY <1>6 DEF TypeOK, Stop, Put, WorkerAt
  <2> QED
    BY <1>0, <2>1, Enqueued DEF LogInv
<1>7. CASE Join(w)
  <2>1. /\ wpc[w] = "joining" /\ wpc'[w] = "stopped" /\ listening' = listening
        /\ ~listening[w] /\ queue'[w] = queue[w] \o <<"server">>
    BY <1>7 DEF TypeOK, Join, Put, WorkerAt
  <2>2. queue[w] = <<>>
    BY <2>1 DEF LogInv
  <2>3. <<>> \o <<"server">> = <<"server">>
    BY ConcatEmptySeq DEF Records
  <2> QED
    BY <2>1, <2>2, <2>3 DEF LogInv
<1> QED
  BY <1>1, <1>2, <1>3, <1>4, <1>5, <1>6, <1>7 DEF WorkerStep, Progress

(* A worker that stopped in order has written every record of the          *)
(* application, for a queue of any length.                                 *)
THEOREM LogsWrittenAlways == Spec => []LogsWritten
<1> DEFINE LogsInv == \A w \in Workers : LogInv(w)
<1>1. Init => LogsInv
  BY DEF Init, LogInv
<1>2. ASSUME TypeOK, LogsInv, [Next]_vars
      PROVE  LogsInv'
  <2>1. CASE UNCHANGED workerVars
    BY <1>2, <2>1 DEF workerVars, LogInv
  <2>2. ASSUME NEW w \in Workers, WorkerStep(w)
        PROVE  LogsInv'
    <3>1. ASSUME NEW v \in Workers, v # w
          PROVE  wpc'[v] = wpc[v] /\ queue'[v] = queue[v] /\ listening'[v] = listening[v]
      BY <1>2, <2>2, <3>1
      DEF TypeOK, WorkerStep, Progress, Launch, Log, Shutdown, Die, CheckSchema,
          CreateSchema, StartupFails, CommitWorkersSchema, Stop, Join, Listen, Gone,
          WorkerAt, Put
    <3>2. ASSUME NEW v \in Workers, v # w PROVE LogInv(v)'
      BY <1>2, <3>1, <3>2 DEF LogInv
    <3>3. LogInv(w)'
      BY <1>2, <2>2, LogKept
    <3> QED
      BY <3>2, <3>3
  <2> QED
    BY <1>2, <2>1, <2>2 DEF Next, WorkerStep, vars
<1>3. LogsInv => LogsWritten
  BY DEF LogInv, LogsWritten
<1>4. TypeOK /\ MigrationInv /\ LogsInv /\ [Next]_vars => LogsInv'
  BY <1>2
<1> HIDE DEF LogsInv
<1> QED
  BY <1>1, <1>3, <1>4, InvariantHolds, PTL DEF Spec
=============================================================================
