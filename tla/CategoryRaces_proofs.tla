------------------------ MODULE CategoryRaces_proofs ------------------------
(***************************************************************************)
(* The safety of the concurrent category handlers, for any number of       *)
(* clients, names, ids and any depth limit.                                *)
(*                                                                         *)
(* The first half is about CategoryService.  TypeOK is not inductive: an   *)
(* INSERT may exceed MaxId unless the creates in flight are counted, and   *)
(* what a write stores has the right type only because of what the earlier *)
(* steps of the same request left in req and dirty.  InFlight adds both.   *)
(*                                                                         *)
(* The second half is about CategoryRaces: the tree keeps free of cycles,  *)
(* and within MAX_CATEGORY_DEPTH, unless a commit relied on a validation   *)
(* that another commit had overtaken.  Acyclic says nothing of the         *)
(* requests between their validation and their commit, so it is not        *)
(* inductive.  RInv adds what the validation of each pending request       *)
(* established and what is still true of it, in terms of one depth d for   *)
(* every row.                                                              *)
(***************************************************************************)
EXTENDS CategoryRaces, CategoryTree_proofs, FiniteSetTheorems, TLAPS

Requests == Creates \cup Updates \cup Deletes

\* What the request of one client looks like at each await.
Standing(c) ==
    /\ pc[c] = "idle" => req[c] = NoRequest
    /\ pc[c] = "validate" => req[c] \in Updates /\ MovesUnderParent(req[c])
    /\ pc[c] = "write" => req[c] \in Requests
    /\ pc[c] = "invalidate" => req[c] \in Committed
    /\ req[c] \in Updates =>
         \A f \in dirty[c] : f \in {"parent", "name"} /\ req[c][f] # Unset

InFlight ==
    /\ nextId + Cardinality(PendingCreates) <= MaxId + 1
    /\ \A c \in Clients : Standing(c)

IInv == TypeOK /\ InFlight

-----------------------------------------------------------------------------
(* Requests, told apart by op. *)

LEMMA RequestKinds ==
    ASSUME NEW r \in Requests \cup Committed \cup {NoRequest}
    PROVE  /\ r \in Requests /\ r.op = "create" => r \in Creates
           /\ r \in Requests /\ r.op = "update" => r \in Updates
           /\ r \in Requests /\ r.op = "delete" => r \in Deletes
           /\ r \in Creates => r.op = "create"
           /\ r \in Updates => r.op = "update"
           /\ r \in Deletes => r.op = "delete"
           /\ r = NoRequest => r.op = "none"
           /\ r \in Requests => r # NoRequest
<1> QED BY DEF Requests, Creates, Updates, Deletes, Committed, NoRequest

LEMMA Known == ASSUME TypeOK PROVE KnownIds \subseteq Ids
<1> QED BY MaxIdAssumption DEF TypeOK, KnownIds, Ids

\* A row that PutRow stores.
LEMMA PutRowType ==
    ASSUME NEW live \in SUBSET Ids, NEW table \in [live -> Rows],
           NEW id \in Ids, NEW row \in Rows
    PROVE  PutRow(table, id, row) \in [live \cup {id} -> Rows]
<1> QED BY DEF PutRow

LEMMA WithoutSubtreeType ==
    ASSUME NEW live \in SUBSET Ids, NEW table \in [live -> Rows], NEW id
    PROVE  /\ DOMAIN WithoutSubtree(table, id) \subseteq live
           /\ WithoutSubtree(table, id) \in [DOMAIN WithoutSubtree(table, id) -> Rows]
           /\ \A x \in DOMAIN WithoutSubtree(table, id) :
                WithoutSubtree(table, id)[x] = table[x]
<1> QED BY DEF WithoutSubtree

\* A row outside a removed subtree has its parent outside it too.
LEMMA WithoutSubtreeKeepsParents ==
    ASSUME NEW live \in SUBSET Ids, NEW table \in [live -> Rows], NEW id,
           NEW x \in DOMAIN WithoutSubtree(table, id), table[x].parent \in live
    PROVE  table[x].parent \in DOMAIN WithoutSubtree(table, id)
<1> DEFINE par == [y \in live |-> table[y].parent]
<1> DEFINE p == table[x].parent
<1>1. DOMAIN WithoutSubtree(table, id) = live \ Subtree(par, id) BY DEF WithoutSubtree
<1>2. ASSUME p \in Subtree(par, id) PROVE x \in Subtree(par, id)
  <2>1. x \in DOMAIN par /\ par[x] = p BY <1>1
  <2> HIDE DEF par, p
  <2> QED BY <1>2, <2>1, SubtreeClosed DEF ClosedUnderChildren
<1> QED BY <1>1, <1>2

\* What an UPDATE stores is a row.
LEMMA WrittenRowType ==
    ASSUME TypeOK, InFlight, NEW c \in Clients,
           pc[c] = "write", req[c].op = "update", req[c].id \in DOMAIN cat
    PROVE  WrittenRow(cat, req[c], dirty[c]) \in Rows
<1>1. req[c] \in Updates BY RequestKinds DEF TypeOK, InFlight, Standing, Requests
<1>2. \A f \in dirty[c] : f \in {"parent", "name"} /\ req[c][f] # Unset
  BY <1>1 DEF InFlight, Standing
<1>3. cat[req[c].id] \in Rows BY DEF TypeOK
<1>4. "parent" \in dirty[c] => req[c].parent \in ParentIds BY <1>1, <1>2 DEF Updates
<1>5. "name" \in dirty[c] => req[c].name \in Names BY <1>1, <1>2 DEF Updates
<1> QED BY <1>3, <1>4, <1>5 DEF WrittenRow, Rows

-----------------------------------------------------------------------------
(* One step of one client, as far as clients go. *)

ClientTypes ==
    /\ pc \in [Clients -> Steps]
    /\ req \in [Clients -> Creates \cup Updates \cup Deletes \cup Committed \cup {NoRequest}]
    /\ dirty \in [Clients -> SUBSET {"parent", "name"}]
    /\ answer \in [Clients -> [status : {0, 200, 201, 204, 404, 409, 422, 500},
                               cause : Causes]]

Others(c) ==
    \A d \in Clients \ {c} : pc'[d] = pc[d] /\ req'[d] = req[d] /\ dirty'[d] = dirty[d]

\* What every step leaves true of the clients.
ClientsKept(c) ==
    /\ ClientTypes'
    /\ \A d \in Clients : Standing(d)'
    /\ Others(c)

LEMMA OthersStand ==
    ASSUME NEW c \in Clients, Others(c), \A d \in Clients : Standing(d), Standing(c)'
    PROVE  \A d \in Clients : Standing(d)'
<1> SUFFICES ASSUME NEW d \in Clients, d # c PROVE Standing(d)' OBVIOUS
<1>1. pc'[d] = pc[d] /\ req'[d] = req[d] /\ dirty'[d] = dirty[d] BY DEF Others
<1>2. Standing(d) OBVIOUS
<1> QED BY <1>1, <1>2 DEF Standing

LEMMA Responding ==
    ASSUME ClientTypes, \A d \in Clients : Standing(d), NEW c \in Clients,
           NEW status \in {0, 200, 201, 204, 404, 409, 422, 500}, NEW cause \in Causes,
           Respond(c, status, cause)
    PROVE  ClientsKept(c) /\ pc'[c] = "idle" /\ PendingCreates' \subseteq PendingCreates \ {c}
<1>1. pc' = [pc EXCEPT ![c] = "idle"] /\ req' = [req EXCEPT ![c] = NoRequest]
      /\ dirty' = [dirty EXCEPT ![c] = {}]
      /\ answer' = [answer EXCEPT ![c] = [status |-> status, cause |-> cause]]
  BY DEF Respond, Advance, Response
<1>2. ClientTypes' BY <1>1 DEF ClientTypes, Steps
<1>3. pc'[c] = "idle" /\ req'[c] = NoRequest /\ Others(c) BY <1>1 DEF ClientTypes, Others
<1>4. Standing(c)' BY <1>3, RequestKinds DEF Standing, Requests, Updates, NoRequest
<1>5. PendingCreates' \subseteq PendingCreates \ {c}
  BY <1>3 DEF PendingCreates, Others, NoRequest
<1> QED BY <1>2, <1>3, <1>4, <1>5, OthersStand DEF ClientsKept

LEMMA Proceeding ==
    ASSUME ClientTypes, \A d \in Clients : Standing(d), NEW c \in Clients,
           NEW r \in Requests, NEW step \in {"validate", "write"},
           NEW columns \in SUBSET {"parent", "name"},
           step = "validate" => r \in Updates /\ MovesUnderParent(r),
           r \in Updates => \A f \in columns : r[f] # Unset,
           Proceed(c, r, step, columns)
    PROVE  /\ ClientsKept(c) /\ pc'[c] = step
           /\ PendingCreates' \subseteq PendingCreates \cup {c}
           /\ r.op # "create" => PendingCreates' \subseteq PendingCreates
<1>1. pc' = [pc EXCEPT ![c] = step] /\ req' = [req EXCEPT ![c] = r]
      /\ dirty' = [dirty EXCEPT ![c] = columns]
      /\ answer' = [answer EXCEPT ![c] = [status |-> 0, cause |-> "none"]]
  BY DEF Proceed, Advance, NoAnswer, Response
<1>2. ClientTypes'
  <2>1. pc' \in [Clients -> Steps] BY <1>1 DEF ClientTypes, Steps
  <2>2. (req \in [Clients -> Creates \cup Updates \cup Deletes \cup Committed \cup {NoRequest}])'
    BY <1>1 DEF ClientTypes, Requests
  <2>3. dirty' \in [Clients -> SUBSET {"parent", "name"}] BY <1>1 DEF ClientTypes
  <2>4. [status |-> 0, cause |-> "none"] \in
          [status : {0, 200, 201, 204, 404, 409, 422, 500}, cause : Causes]
    BY DEF Causes
  <2>5. answer' \in [Clients -> [status : {0, 200, 201, 204, 404, 409, 422, 500},
                                cause : Causes]]
    BY <1>1, <2>4 DEF ClientTypes
  <2> QED BY <2>1, <2>2, <2>3, <2>5 DEF ClientTypes
<1>3. pc'[c] = step /\ req'[c] = r /\ dirty'[c] = columns /\ Others(c)
  BY <1>1 DEF ClientTypes, Others
<1>4. Standing(c)' BY <1>3 DEF Standing
<1>5. PendingCreates' \subseteq PendingCreates \cup {c} BY <1>3 DEF PendingCreates, Others
<1>6. r.op # "create" => PendingCreates' \subseteq PendingCreates
  BY <1>3 DEF PendingCreates, Others
<1> QED BY <1>2, <1>3, <1>4, <1>5, <1>6, OthersStand DEF ClientsKept

LEMMA Settling ==
    ASSUME ClientTypes, \A d \in Clients : Standing(d), NEW c \in Clients,
           req[c].op \in {"create", "update", "delete"}, Settle(c)
    PROVE  /\ ClientsKept(c) /\ pc'[c] = "invalidate"
           /\ PendingCreates' \subseteq PendingCreates \ {c}
<1>1. pc' = [pc EXCEPT ![c] = "invalidate"] /\ req' = [req EXCEPT ![c] = [op |-> req[c].op]]
      /\ dirty' = [dirty EXCEPT ![c] = {}] /\ answer' = answer
  BY DEF Settle, Advance
<1>2. [op |-> req[c].op] \in Committed BY DEF Committed
<1>3. ClientTypes' BY <1>1, <1>2 DEF ClientTypes, Steps
<1>4. pc'[c] = "invalidate" /\ req'[c] \in Committed /\ dirty'[c] = {} /\ Others(c)
  BY <1>1, <1>2 DEF ClientTypes, Others
<1>5. Standing(c)' BY <1>4 DEF Standing
<1>6. PendingCreates' \subseteq PendingCreates \ {c} BY <1>4 DEF PendingCreates, Others
<1> QED BY <1>3, <1>4, <1>5, <1>6, OthersStand DEF ClientsKept

-----------------------------------------------------------------------------
(* One step of one client, as far as the table goes. *)

NewRow(c) == [parent |-> req[c].parent, name |-> req[c].name]

Stores(c, id, row) ==
    /\ Violation(cat, id, row) = "none"
    /\ cat' = PutRow(cat, id, row)
    /\ pc'[c] = "invalidate"

Inserted(c) ==
    /\ pc[c] = "write" /\ req[c] \in Creates
    /\ nextId' = nextId + 1 /\ nextId <= MaxId
    /\ \/ UNCHANGED cat /\ pc'[c] = "idle"
       \/ Stores(c, nextId, NewRow(c))

Updated(c) ==
    /\ pc[c] = "write" /\ req[c] \in Updates /\ req[c].id \in DOMAIN cat
    /\ UNCHANGED nextId
    /\ Stores(c, req[c].id, WrittenRow(cat, req[c], dirty[c]))

Deleted(c) ==
    /\ pc[c] = "write" /\ req[c] \in Deletes
    /\ UNCHANGED nextId
    /\ cat' = WithoutSubtree(cat, req[c].id)
    /\ pc'[c] = "invalidate"

Idled(c) ==
    /\ UNCHANGED <<cat, nextId>>
    /\ pc[c] = "write" => pc'[c] = "idle"

TableStep(c) == Idled(c) \/ Inserted(c) \/ Updated(c) \/ Deleted(c)

CountKept == nextId' + Cardinality(PendingCreates') <= MaxId + 1

LEMMA Counted ==
    PendingCreates \in SUBSET Clients /\ IsFiniteSet(PendingCreates)
    /\ Cardinality(PendingCreates) \in Nat
<1> QED BY ClientsAssumption, FS_Subset, FS_CardinalityType DEF PendingCreates

LEMMA OneMore ==
    ASSUME NEW S, IsFiniteSet(S), NEW x
    PROVE  /\ IsFiniteSet(S \cup {x})
           /\ Cardinality(S \cup {x}) <= Cardinality(S) + 1
           /\ Cardinality(S \cup {x}) \in Nat
<1>1. IsFiniteSet(S \cup {x}) /\ Cardinality(S) \in Nat BY FS_AddElement, FS_CardinalityType
<1>2. Cardinality(S \cup {x}) = Cardinality(S) \/ Cardinality(S \cup {x}) = Cardinality(S) + 1
  BY FS_AddElement
<1> QED BY <1>1, <1>2

LEMMA FewerPending ==
    ASSUME TypeOK, InFlight, UNCHANGED nextId, PendingCreates' \subseteq PendingCreates
    PROVE  CountKept
<1>1. Cardinality(PendingCreates') <= Cardinality(PendingCreates)
      /\ Cardinality(PendingCreates') \in Nat
  BY Counted, FS_Subset, FS_CardinalityType
<1> QED BY <1>1, Counted, MaxIdAssumption DEF TypeOK, InFlight, CountKept

\* No step moves a table and its clients otherwise than this.
LEMMA StepShape ==
    ASSUME IInv, NEW c \in Clients, Step(c)
    PROVE  ClientsKept(c) /\ CountKept /\ TableStep(c)
<1>0. ClientTypes /\ TypeOK /\ InFlight /\ \A d \in Clients : Standing(d)
  BY DEF IInv, InFlight, TypeOK, ClientTypes
<1>v. ASSUME NEW v \in Verdicts PROVE v \in Causes /\ VerdictStatus(v) \in {404, 422}
  BY DEF Causes, VerdictStatus
<1>w. \A d \in Clients : pc[d] = "write" => req[d] \in Requests BY <1>0 DEF Standing
<1>k. \A d \in Clients : req[d] \in Requests \cup Committed \cup {NoRequest}
  BY <1>0 DEF ClientTypes, Requests
\* A request that ends, or goes on, with the table left alone.
<1>r. ASSUME NEW status \in {0, 200, 201, 204, 404, 409, 422, 500}, NEW cause \in Causes,
             Respond(c, status, cause), UNCHANGED <<cat, nextId>>
      PROVE  ClientsKept(c) /\ CountKept /\ TableStep(c)
  <2>1. ClientsKept(c) /\ pc'[c] = "idle" /\ PendingCreates' \subseteq PendingCreates \ {c}
    BY <1>0, <1>r, Responding
  <2> QED BY <1>0, <1>r, <2>1, FewerPending DEF TableStep, Idled
<1>1. CASE BeginCreate(c)
  <2>1. pc[c] = "idle" /\ UNCHANGED <<cat, nextId>>
        /\ nextId + Cardinality(PendingCreates) <= MaxId
    BY <1>1 DEF BeginCreate
  <2>2. PICK r \in Creates :
          LET verdict == IF r.parent = NoParent THEN "ok" ELSE ParentVerdict(parents, r.parent)
          IN  IF verdict = "ok" THEN Proceed(c, r, "write", {})
              ELSE Respond(c, VerdictStatus(verdict), verdict)
    BY <1>1 DEF BeginCreate
  <2> DEFINE v == IF r.parent = NoParent THEN "ok" ELSE ParentVerdict(parents, r.parent)
  <2>3. v \in Verdicts BY DEF ParentVerdict, Verdicts
  <2>4. CASE v = "ok"
    <3>1. Proceed(c, r, "write", {}) BY <2>2, <2>4
    <3>2. r \in Requests /\ r \notin Updates BY RequestKinds DEF Requests, Creates, Updates
    <3>3. ClientsKept(c) /\ PendingCreates' \subseteq PendingCreates \cup {c}
      BY <1>0, <3>1, <3>2, Proceeding
    <3>4. CountKept
      <4>1. IsFiniteSet(PendingCreates \cup {c})
            /\ Cardinality(PendingCreates \cup {c}) <= Cardinality(PendingCreates) + 1
            /\ Cardinality(PendingCreates \cup {c}) \in Nat
        BY Counted, OneMore
      <4>2. Cardinality(PendingCreates') <= Cardinality(PendingCreates \cup {c})
            /\ Cardinality(PendingCreates') \in Nat
        BY <3>3, <4>1, FS_Subset, FS_CardinalityType
      <4> QED BY <2>1, <4>1, <4>2, Counted, <1>0, MaxIdAssumption DEF CountKept, TypeOK
    <3> QED BY <2>1, <3>3, <3>4 DEF TableStep, Idled
  <2>5. CASE v # "ok"
    <3>1. Respond(c, VerdictStatus(v), v) BY <2>2, <2>5
    <3> HIDE DEF v
    <3> QED BY <1>r, <1>v, <2>1, <2>3, <3>1
  <2> QED BY <2>4, <2>5
<1>2. CASE BeginUpdate(c)
  <2>1. pc[c] = "idle" /\ UNCHANGED <<cat, nextId>> BY <1>2 DEF BeginUpdate
  <2>2. PICK r \in Updates :
          IF r.id \in DOMAIN cat
          THEN Proceed(c, r, IF MovesUnderParent(r) THEN "validate" ELSE "write",
                       Assigned(r, cat[r.id]))
          ELSE Respond(c, 404, "row_gone")
    BY <1>2 DEF BeginUpdate
  <2>3. CASE r.id \in DOMAIN cat
    <3> DEFINE step == IF MovesUnderParent(r) THEN "validate" ELSE "write"
    <3> DEFINE columns == Assigned(r, cat[r.id])
    <3>1. Proceed(c, r, step, columns) BY <2>2, <2>3
    <3>2. r \in Requests /\ r.op = "update" BY DEF Requests, Updates
    <3>3. columns \in SUBSET {"parent", "name"} /\ \A f \in columns : r[f] # Unset
      BY DEF Assigned
    <3>4. step \in {"validate", "write"} /\ (step = "validate" => MovesUnderParent(r))
      OBVIOUS
    <3> HIDE DEF step, columns
    <3>5. ClientsKept(c) /\ PendingCreates' \subseteq PendingCreates
      BY <1>0, <3>1, <3>2, <3>3, <3>4, Proceeding
    <3> QED BY <1>0, <2>1, <3>5, FewerPending DEF TableStep, Idled
  <2>4. CASE r.id \notin DOMAIN cat
    BY <1>r, <2>1, <2>2, <2>4 DEF Causes
  <2> QED BY <2>3, <2>4
<1>3. CASE BeginDelete(c)
  <2>1. pc[c] = "idle" /\ UNCHANGED <<cat, nextId>> BY <1>3 DEF BeginDelete
  <2>2. PICK r \in Deletes :
          IF r.id \in DOMAIN cat THEN Proceed(c, r, "write", {})
          ELSE Respond(c, 404, "row_gone")
    BY <1>3 DEF BeginDelete
  <2>3. CASE r.id \in DOMAIN cat
    <3>1. Proceed(c, r, "write", {}) BY <2>2, <2>3
    <3>2. r \in Requests /\ r.op = "delete" /\ r \notin Updates
      BY DEF Requests, Deletes, Updates
    <3>3. ClientsKept(c) /\ PendingCreates' \subseteq PendingCreates
      BY <1>0, <3>1, <3>2, Proceeding
    <3> QED BY <1>0, <2>1, <3>3, FewerPending DEF TableStep, Idled
  <2>4. CASE r.id \notin DOMAIN cat
    BY <1>r, <2>1, <2>2, <2>4 DEF Causes
  <2> QED BY <2>3, <2>4
<1>4. CASE ValidateMove(c)
  <2> DEFINE v == ReparentVerdict(parents, req[c].id, req[c].parent)
  <2>1. pc[c] = "validate" /\ UNCHANGED <<cat, nextId>>
        /\ IF v = "ok" THEN Proceed(c, req[c], "write", dirty[c])
           ELSE Respond(c, VerdictStatus(v), v)
    BY <1>4 DEF ValidateMove
  <2>2. v \in Verdicts BY DEF ReparentVerdict, Verdicts
  <2> HIDE DEF v
  <2>3. CASE v = "ok"
    <3>1. req[c] \in Requests /\ req[c] \in Updates /\ req[c].op = "update"
          /\ dirty[c] \in SUBSET {"parent", "name"} /\ \A f \in dirty[c] : req[c][f] # Unset
      BY <1>0, <2>1 DEF Standing, Requests, Updates, ClientTypes
    <3>2. Proceed(c, req[c], "write", dirty[c]) BY <2>1, <2>3
    <3>3. ClientsKept(c) /\ PendingCreates' \subseteq PendingCreates
      BY <1>0, <3>1, <3>2, Proceeding
    <3> QED BY <1>0, <2>1, <3>3, FewerPending DEF TableStep, Idled
  <2>4. CASE v # "ok" BY <1>r, <1>v, <2>1, <2>2, <2>4
  <2> QED BY <2>3, <2>4
<1>c. ASSUME NEW id, NEW row, pc[c] = "write", CommitRow(c, id, row)
      PROVE  /\ ClientsKept(c) /\ PendingCreates' \subseteq PendingCreates \ {c}
             /\ \/ UNCHANGED cat /\ pc'[c] = "idle"
                \/ Stores(c, id, row)
  <2>1. CASE Violation(cat, id, row) = "none"
    <3>1. cat' = PutRow(cat, id, row) /\ Settle(c) BY <1>c, <2>1 DEF CommitRow
    <3>2. req[c].op \in {"create", "update", "delete"}
      BY <1>c, <1>w DEF Requests, Creates, Updates, Deletes
    <3>3. ClientsKept(c) /\ pc'[c] = "invalidate" /\ PendingCreates' \subseteq PendingCreates \ {c}
      BY <1>0, <3>1, <3>2, Settling
    <3> QED BY <2>1, <3>1, <3>3 DEF Stores
  <2>2. CASE Violation(cat, id, row) # "none"
    <3>1. UNCHANGED cat /\ Respond(c, 409, Violation(cat, id, row))
      BY <1>c, <2>2 DEF CommitRow
    <3>2. Violation(cat, id, row) \in Causes BY DEF Violation, Causes
    <3> QED BY <1>0, <3>1, <3>2, Responding
  <2> QED BY <2>1, <2>2
<1>5. CASE InsertCategory(c)
  <2>1. pc[c] = "write" /\ req[c].op = "create" /\ nextId' = nextId + 1
        /\ CommitRow(c, nextId, NewRow(c))
    BY <1>5 DEF InsertCategory, NewRow
  <2>2. /\ ClientsKept(c) /\ PendingCreates' \subseteq PendingCreates \ {c}
        /\ \/ UNCHANGED cat /\ pc'[c] = "idle"
           \/ Stores(c, nextId, NewRow(c))
    BY <1>c, <2>1
  <2>3. c \in PendingCreates /\ req[c] \in Creates
    BY <1>k, <1>w, <2>1, RequestKinds DEF PendingCreates
  <2>4. Cardinality(PendingCreates \ {c}) = Cardinality(PendingCreates) - 1
        /\ IsFiniteSet(PendingCreates \ {c}) /\ Cardinality(PendingCreates \ {c}) \in Nat
    BY <2>3, Counted, FS_RemoveElement, FS_CardinalityType
  <2>5. Cardinality(PendingCreates') <= Cardinality(PendingCreates \ {c})
        /\ Cardinality(PendingCreates') \in Nat
    BY <2>2, <2>4, FS_Subset, FS_CardinalityType
  <2>6. CountKept /\ nextId <= MaxId
    BY <1>0, <2>1, <2>4, <2>5, Counted, MaxIdAssumption DEF CountKept, InFlight, TypeOK
  <2> QED BY <2>1, <2>2, <2>3, <2>6 DEF TableStep, Inserted
<1>6. CASE UpdateCategory(c)
  <2>1. pc[c] = "write" /\ req[c].op = "update" /\ UNCHANGED nextId
    BY <1>6 DEF UpdateCategory
  <2>2. req[c] \in Updates BY <1>k, <1>w, <2>1, RequestKinds
  <2>3. CASE req[c].id \in DOMAIN cat
    <3>1. CommitRow(c, req[c].id, WrittenRow(cat, req[c], dirty[c]))
      BY <1>6, <2>3 DEF UpdateCategory
    <3>2. /\ ClientsKept(c) /\ PendingCreates' \subseteq PendingCreates \ {c}
          /\ \/ UNCHANGED cat /\ pc'[c] = "idle"
             \/ Stores(c, req[c].id, WrittenRow(cat, req[c], dirty[c]))
      BY <1>c, <2>1, <3>1
    <3> QED BY <1>0, <2>1, <2>2, <2>3, <3>2, FewerPending DEF TableStep, Updated, Idled
  <2>4. CASE req[c].id \notin DOMAIN cat
    <3>1. UNCHANGED cat /\ Respond(c, 500, "row_gone") BY <1>6, <2>4 DEF UpdateCategory
    <3> QED BY <1>r, <2>1, <3>1 DEF Causes
  <2> QED BY <2>3, <2>4
<1>7. CASE DeleteCategory(c)
  <2>1. pc[c] = "write" /\ req[c].op = "delete" /\ UNCHANGED nextId /\ Settle(c)
        /\ cat' = WithoutSubtree(cat, req[c].id)
    BY <1>7 DEF DeleteCategory
  <2>2. req[c] \in Deletes BY <1>k, <1>w, <2>1, RequestKinds
  <2>3. ClientsKept(c) /\ pc'[c] = "invalidate" /\ PendingCreates' \subseteq PendingCreates \ {c}
    BY <1>0, <2>1, Settling
  <2> QED BY <1>0, <2>1, <2>2, <2>3, FewerPending DEF TableStep, Deleted
<1>8. CASE InvalidateCache(c)
  <2>1. pc[c] = "invalidate" /\ UNCHANGED <<cat, nextId>>
        /\ Respond(c, SuccessStatus(req[c].op), "none")
    BY <1>8 DEF InvalidateCache
  <2>2. req[c] \in Committed BY <1>0, <2>1 DEF Standing
  <2>3. SuccessStatus(req[c].op) \in {200, 201, 204} BY <2>2 DEF Committed, SuccessStatus
  <2> QED BY <1>r, <2>1, <2>3 DEF Causes
<1>9. CASE Abandon(c)
  BY <1>r, <1>9 DEF Abandon, Causes
<1> QED BY <1>1, <1>2, <1>3, <1>4, <1>5, <1>6, <1>7, <1>8, <1>9 DEF Step

-----------------------------------------------------------------------------
(* The inductive invariant, and the properties. *)

LEMMA InitIInv == Init => IInv
<1> SUFFICES ASSUME Init PROVE IInv OBVIOUS
<1>1. PendingCreates = {} BY DEF Init, PendingCreates, NoRequest
<1>2. Cardinality(PendingCreates) = 0 BY <1>1, FS_EmptySet
<1>3. cat \in [{} -> Rows] BY DEF Init
<1>4. {} \in SUBSET Ids /\ nextId \in 1..(MaxId + 1) BY MaxIdAssumption DEF Init
<1>5. \A id \in DOMAIN cat : id < nextId BY <1>3
<1>6. ClientTypes BY DEF Init, ClientTypes, Steps, NoAnswer, Response, Causes
<1>7. \A c \in Clients : Standing(c)
  BY RequestKinds DEF Init, Standing, Requests, Updates, NoRequest
<1>8. TypeOK BY <1>3, <1>4, <1>5, <1>6 DEF TypeOK, ClientTypes
<1> QED BY <1>2, <1>7, <1>8, MaxIdAssumption DEF IInv, InFlight, Init

LEMMA StepIInv ==
    ASSUME IInv, NEW c \in Clients, Step(c)
    PROVE  IInv'
<1>1. ClientsKept(c) /\ CountKept /\ TableStep(c) BY StepShape
<1>2. ClientTypes' /\ InFlight' BY <1>1 DEF ClientsKept, CountKept, InFlight
<1>3. PICK live \in SUBSET Ids : cat \in [live -> Rows] BY DEF IInv, TypeOK
<1>4. nextId \in 1..(MaxId + 1) /\ \A id \in live : id < nextId BY <1>3 DEF IInv, TypeOK
<1>5. /\ \E l \in SUBSET Ids : cat' \in [l -> Rows]
      /\ nextId' \in 1..(MaxId + 1)
      /\ \A id \in DOMAIN cat' : id < nextId'
  <2>1. CASE Idled(c) BY <1>3, <1>4, <2>1 DEF Idled
  <2>2. CASE Inserted(c)
    <3>1. nextId \in Ids /\ nextId' = nextId + 1 /\ NewRow(c) \in Rows
      BY <1>4, <2>2, MaxIdAssumption DEF Inserted, Ids, Creates, NewRow, Rows
    <3>0. nextId <= MaxId /\ nextId' \in 1..(MaxId + 1) /\ \A id \in live : id < nextId'
      BY <1>4, <2>2, <3>1, MaxIdAssumption DEF Inserted, Ids
    <3>2. CASE UNCHANGED cat BY <1>3, <3>0, <3>2
    <3>3. CASE cat' = PutRow(cat, nextId, NewRow(c))
      <4>1. PutRow(cat, nextId, NewRow(c)) \in [live \cup {nextId} -> Rows]
        BY <1>3, <3>1, PutRowType
      <4>2. cat' \in [live \cup {nextId} -> Rows] /\ live \cup {nextId} \in SUBSET Ids
        BY <3>1, <3>3, <4>1
      <4>3. \A id \in live \cup {nextId} : id < nextId' BY <1>4, <3>0, <3>1
      <4> QED BY <3>0, <4>2, <4>3
    <3> QED BY <2>2, <3>2, <3>3 DEF Inserted, Stores
  <2>3. CASE Updated(c)
    <3>1. req[c].id \in live /\ UNCHANGED nextId
          /\ cat' = PutRow(cat, req[c].id, WrittenRow(cat, req[c], dirty[c]))
      BY <1>3, <2>3 DEF Updated, Stores
    <3>2. WrittenRow(cat, req[c], dirty[c]) \in Rows
      BY <2>3, WrittenRowType DEF Updated, Updates, IInv
    <3> DEFINE id == req[c].id
    <3> DEFINE row == WrittenRow(cat, req[c], dirty[c])
    <3>3. id \in live /\ id \in Ids /\ row \in Rows /\ cat' = PutRow(cat, id, row)
      BY <3>1, <3>2
    <3> HIDE DEF id, row
    <3>4. PutRow(cat, id, row) \in [live \cup {id} -> Rows] BY <1>3, <3>3, PutRowType
    <3>5. cat' \in [live -> Rows]
      <4>1. live \cup {id} = live BY <3>3
      <4> QED BY <3>3, <3>4, <4>1
    <3> QED BY <1>3, <1>4, <3>1, <3>5
  <2>4. CASE Deleted(c)
    <3>1. DOMAIN cat' \subseteq live /\ cat' \in [DOMAIN cat' -> Rows] /\ UNCHANGED nextId
      BY <1>3, <2>4, WithoutSubtreeType DEF Deleted
    <3> QED BY <1>3, <1>4, <3>1
  <2> QED BY <1>1, <2>1, <2>2, <2>3, <2>4 DEF TableStep
<1> QED BY <1>2, <1>5 DEF IInv, TypeOK, ClientTypes

LEMMA StutterIInv == ASSUME IInv, UNCHANGED vars PROVE IInv'
<1> QED BY DEF IInv, vars, TypeOK, InFlight, Standing, PendingCreates

LEMMA SpecIInv == Spec => []IInv
<1>1. Init => IInv BY InitIInv
<1>2. IInv /\ [Next]_vars => IInv' BY StepIInv, StutterIInv DEF Next
<1> QED BY <1>1, <1>2, PTL DEF Spec

\* The state of the table and of every request stays of its type, no id past
\* the bound is drawn, and no row has an id that was not drawn.
THEOREM TypeCorrect == Spec => []TypeOK
<1>1. IInv => TypeOK BY DEF IInv
<1> QED BY <1>1, SpecIInv, PTL

\* A step puts one row that no constraint forbids, removes one subtree, or
\* leaves the table alone.
Puts(id, row) ==
    /\ id \in DOMAIN cat \/ id = nextId
    /\ row \in Rows
    /\ Violation(cat, id, row) = "none"
    /\ DOMAIN cat' = DOMAIN cat \cup {id}
    /\ cat'[id] = row
    /\ \A x \in DOMAIN cat \ {id} : cat'[x] = cat[x]

Removes ==
    /\ DOMAIN cat' \subseteq DOMAIN cat
    /\ \A x \in DOMAIN cat' :
         /\ cat'[x] = cat[x]
         /\ cat[x].parent \in DOMAIN cat => cat[x].parent \in DOMAIN cat'

LEMMA TableCases ==
    ASSUME IInv, NEW c \in Clients, TableStep(c)
    PROVE  UNCHANGED cat \/ Removes \/ \E id, row : Puts(id, row)
<1>1. PICK live \in SUBSET Ids : cat \in [live -> Rows] BY DEF IInv, TypeOK
<1>2. DOMAIN cat = live BY <1>1
<1>3. CASE Idled(c) BY <1>3 DEF Idled
<1>4. CASE Inserted(c)
  <2>1. CASE UNCHANGED cat BY <2>1
  <2>2. CASE Stores(c, nextId, NewRow(c))
    <3>1. nextId \in Ids /\ NewRow(c) \in Rows
      BY <1>4, MaxIdAssumption DEF Inserted, Ids, Creates, NewRow, Rows, IInv, TypeOK
    <3>2. Violation(cat, nextId, NewRow(c)) = "none" /\ cat' = PutRow(cat, nextId, NewRow(c))
      BY <2>2 DEF Stores
    <3>3. /\ DOMAIN PutRow(cat, nextId, NewRow(c)) = live \cup {nextId}
          /\ PutRow(cat, nextId, NewRow(c))[nextId] = NewRow(c)
          /\ \A x \in live \ {nextId} : PutRow(cat, nextId, NewRow(c))[x] = cat[x]
      BY <1>2 DEF PutRow
    <3>4. Puts(nextId, NewRow(c)) BY <1>2, <3>1, <3>2, <3>3 DEF Puts
    <3> QED BY <3>4
  <2> QED BY <1>4, <2>1, <2>2 DEF Inserted
<1>5. CASE Updated(c)
  <2> DEFINE id == req[c].id
  <2> DEFINE row == WrittenRow(cat, req[c], dirty[c])
  <2>1. row \in Rows BY <1>5, WrittenRowType DEF Updated, Updates, IInv
  <2>2. id \in live /\ id \in Ids /\ cat' = PutRow(cat, id, row) /\ Violation(cat, id, row) = "none"
    BY <1>2, <1>5 DEF Updated, Stores
  <2> HIDE DEF id, row
  <2>3. /\ DOMAIN PutRow(cat, id, row) = live \cup {id}
        /\ PutRow(cat, id, row)[id] = row
        /\ \A x \in live \ {id} : PutRow(cat, id, row)[x] = cat[x]
    BY <1>2 DEF PutRow
  <2>4. Puts(id, row) BY <1>2, <2>1, <2>2, <2>3 DEF Puts
  <2> QED BY <2>4
<1>6. CASE Deleted(c)
  <2> DEFINE id == req[c].id
  <2> HIDE DEF id
  <2>1. cat' = WithoutSubtree(cat, id) BY <1>6 DEF Deleted, id
  <2>2. /\ DOMAIN WithoutSubtree(cat, id) \subseteq live
        /\ \A x \in DOMAIN WithoutSubtree(cat, id) : WithoutSubtree(cat, id)[x] = cat[x]
    BY <1>1, WithoutSubtreeType
  <2>3. \A x \in DOMAIN WithoutSubtree(cat, id) :
          cat[x].parent \in live => cat[x].parent \in DOMAIN WithoutSubtree(cat, id)
    BY <1>1, WithoutSubtreeKeepsParents
  <2>4. Removes BY <1>2, <2>1, <2>2, <2>3 DEF Removes
  <2> QED BY <2>4
<1> QED BY <1>3, <1>4, <1>5, <1>6 DEF TableStep

\* No delete leaves a row behind whose parent it removed, and no create or
\* move commits under a parent that is gone, in any interleaving.
THEOREM ReferencesKept == Spec => []ParentsPresent
<1>1. Init => ParentsPresent BY DEF Init, ParentsPresent
<1>2. ASSUME IInv, ParentsPresent, NEW c \in Clients, Step(c) PROVE ParentsPresent'
  <2>1. TableStep(c) BY <1>2, StepShape
  <2>2. CASE UNCHANGED cat BY <1>2, <2>2 DEF ParentsPresent
  <2>3. CASE Removes
    <3> SUFFICES ASSUME NEW x \in DOMAIN cat'
                 PROVE  cat'[x].parent \in DOMAIN cat' \cup {NoParent}
      BY DEF ParentsPresent
    <3>1. x \in DOMAIN cat /\ cat'[x] = cat[x]
          /\ (cat[x].parent \in DOMAIN cat => cat[x].parent \in DOMAIN cat')
      BY <2>3 DEF Removes
    <3> QED BY <1>2, <3>1 DEF ParentsPresent
  <2>4. CASE \E id, row : Puts(id, row)
    <3>1. PICK id, row : Puts(id, row) BY <2>4
    <3>2. row.parent = NoParent \/ row.parent \in DOMAIN cat \cup {id}
      BY <3>1 DEF Puts, Violation, ParentPresent
    <3>3. \A x \in DOMAIN cat' : x # id => x \in DOMAIN cat /\ cat'[x] = cat[x]
      BY <3>1 DEF Puts
    <3>4. DOMAIN cat \subseteq DOMAIN cat' /\ id \in DOMAIN cat' /\ cat'[id] = row
      BY <3>1 DEF Puts
    <3> SUFFICES ASSUME NEW x \in DOMAIN cat'
                 PROVE  cat'[x].parent \in DOMAIN cat' \cup {NoParent}
      BY DEF ParentsPresent
    <3>5. CASE x = id BY <3>2, <3>4, <3>5
    <3>6. CASE x # id BY <1>2, <3>3, <3>4, <3>6 DEF ParentsPresent
    <3> QED BY <3>5, <3>6
  <2> QED BY <1>2, <2>1, <2>2, <2>3, <2>4, TableCases
<1>3. ParentsPresent /\ UNCHANGED vars => ParentsPresent' BY DEF ParentsPresent, vars
<1>4. IInv /\ ParentsPresent /\ [Next]_vars => ParentsPresent' BY <1>2, <1>3 DEF Next
<1> QED BY <1>1, <1>4, SpecIInv, PTL DEF Spec

\* Two siblings never share a name, whatever creates, renames and moves are
\* in flight together.
THEOREM SiblingsKept == Spec => []SiblingNamesUnique
<1>1. Init => SiblingNamesUnique BY DEF Init, SiblingNamesUnique
<1>2. ASSUME IInv, SiblingNamesUnique, NEW c \in Clients, Step(c)
      PROVE  SiblingNamesUnique'
  <2>1. TableStep(c) BY <1>2, StepShape
  <2>2. CASE UNCHANGED cat BY <1>2, <2>2 DEF SiblingNamesUnique
  <2>3. CASE Removes
    <3>1. \A x \in DOMAIN cat' : x \in DOMAIN cat /\ cat'[x] = cat[x] BY <2>3 DEF Removes
    <3> QED BY <1>2, <3>1 DEF SiblingNamesUnique
  <2>4. CASE \E id, row : Puts(id, row)
    <3>1. PICK id, row : Puts(id, row) BY <2>4
    <3>2. row.parent # NoParent => \A x \in DOMAIN cat \ {id} : cat[x] # row
      BY <3>1 DEF Puts, Violation, Duplicates
    <3>3. \A x \in DOMAIN cat' : x # id => x \in DOMAIN cat /\ cat'[x] = cat[x]
      BY <3>1 DEF Puts
    <3>4. cat'[id] = row BY <3>1 DEF Puts
    <3> SUFFICES ASSUME NEW x \in DOMAIN cat', NEW y \in DOMAIN cat',
                        cat'[x].parent # NoParent, cat'[x] = cat'[y]
                 PROVE  x = y
      BY DEF SiblingNamesUnique
    <3>5. CASE x = id \/ y = id BY <3>2, <3>3, <3>4, <3>5
    <3>6. CASE x # id /\ y # id BY <1>2, <3>3, <3>6 DEF SiblingNamesUnique
    <3> QED BY <3>5, <3>6
  <2> QED BY <1>2, <2>1, <2>2, <2>3, <2>4, TableCases
<1>3. SiblingNamesUnique /\ UNCHANGED vars => SiblingNamesUnique'
  BY DEF SiblingNamesUnique, vars
<1>4. IInv /\ SiblingNamesUnique /\ [Next]_vars => SiblingNamesUnique'
  BY <1>2, <1>3 DEF Next
<1> QED BY <1>1, <1>4, SpecIInv, PTL DEF Spec

\* No write in flight brings back a category that another request deleted,
\* and no id is ever used twice.
THEOREM NoResurrection == Spec => DeletedStaysDeleted
<1> DEFINE A == \A id \in 1..(nextId - 1) : id \notin DOMAIN cat => id \notin DOMAIN cat'
<1>1. ASSUME IInv, NEW c \in Clients, Step(c) PROVE A
  <2>1. TableStep(c) BY <1>1, StepShape
  <2>2. nextId \in Nat BY <1>1 DEF IInv, TypeOK
  <2>3. CASE UNCHANGED cat BY <2>3
  <2>4. CASE Removes BY <2>4 DEF Removes
  <2>5. CASE \E id, row : Puts(id, row) BY <2>2, <2>5 DEF Puts
  <2> QED BY <1>1, <2>1, <2>3, <2>4, <2>5, TableCases
<1>2. UNCHANGED vars => A BY DEF vars
<1>3. IInv /\ [Next]_vars => [A]_vars BY <1>1, <1>2 DEF Next
<1> QED BY <1>3, SpecIInv, PTL DEF Spec, DeletedStaysDeleted

\* Every change of the table is followed by its own invalidation before its
\* client is answered success.
THEOREM ChangesInvalidate == Spec => EveryChangeInvalidates
<1> DEFINE A ==
      /\ cat' # cat => \E c \in Clients : pc[c] = "write" /\ pc'[c] = "invalidate"
      /\ \A c \in Clients :
            answer[c].status = 0 /\ answer'[c].status \in {200, 201, 204}
               => pc[c] = "invalidate"
<1>1. ASSUME IInv, NEW c \in Clients, Step(c) PROVE A
  <2>1. TableStep(c) BY <1>1, StepShape
  <2>2. cat' # cat => pc[c] = "write" /\ pc'[c] = "invalidate"
    BY <2>1 DEF TableStep, Idled, Inserted, Updated, Deleted, Stores
  <2>3. answer \in [Clients -> [status : {0, 200, 201, 204, 404, 409, 422, 500}, cause : Causes]]
    BY <1>1 DEF IInv, TypeOK
  <2>4. ASSUME NEW status, status \notin {200, 201, 204}, NEW cause, NEW d \in Clients,
               answer' = [answer EXCEPT ![c] = [status |-> status, cause |-> cause]],
               answer[d].status = 0
        PROVE  answer'[d].status \notin {200, 201, 204}
    <3>1. CASE d = c BY <2>3, <2>4, <3>1
    <3>2. CASE d # c BY <2>3, <2>4, <3>2
    <3> QED BY <3>1, <3>2
  <2>5. ASSUME NEW d \in Clients, answer[d].status = 0, answer'[d].status \in {200, 201, 204}
        PROVE  pc[d] = "invalidate"
    <3>1. ASSUME NEW status, status \notin {200, 201, 204}, NEW cause, Respond(c, status, cause)
          PROVE  FALSE
      BY <2>4, <2>5, <3>1 DEF Respond, Response
    <3>2. ASSUME NEW r, NEW step, NEW columns, Proceed(c, r, step, columns) PROVE FALSE
      BY <2>4, <2>5, <3>2 DEF Proceed, NoAnswer, Response
    <3>3. ASSUME Settle(c) PROVE FALSE BY <2>5, <3>3 DEF Settle
    <3>4. \A v : VerdictStatus(v) \notin {200, 201, 204} BY DEF VerdictStatus
    <3>5. ASSUME NEW id, NEW row, CommitRow(c, id, row) PROVE FALSE
      BY <3>1, <3>3, <3>5 DEF CommitRow
    <3>6. ~ BeginCreate(c) BY <3>1, <3>2, <3>4 DEF BeginCreate
    <3>7. ~ BeginUpdate(c) BY <3>1, <3>2 DEF BeginUpdate
    <3>8. ~ BeginDelete(c) BY <3>1, <3>2 DEF BeginDelete
    <3>9. ~ ValidateMove(c) BY <3>1, <3>2, <3>4 DEF ValidateMove
    <3>10. ~ InsertCategory(c) BY <3>5 DEF InsertCategory
    <3>11. ~ UpdateCategory(c) BY <3>1, <3>5 DEF UpdateCategory
    <3>12. ~ DeleteCategory(c) BY <3>3 DEF DeleteCategory
    <3>13. ~ Abandon(c) BY <3>1 DEF Abandon
    <3>14. InvalidateCache(c)
      BY <1>1, <3>6, <3>7, <3>8, <3>9, <3>10, <3>11, <3>12, <3>13 DEF Step
    <3>15. pc[c] = "invalidate"
           /\ answer' = [answer EXCEPT ![c] = Response(SuccessStatus(req[c].op), "none")]
      BY <3>14 DEF InvalidateCache, Respond
    <3> QED BY <2>3, <2>5, <3>15
  <2> QED BY <2>2, <2>5
<1>2. IInv /\ UNCHANGED vars => A
  BY DEF vars
<1>3. IInv /\ [Next]_vars => [A]_vars BY <1>1, <1>2 DEF Next
<1> QED BY <1>3, SpecIInv, PTL DEF Spec, EveryChangeInvalidates

\* A PATCH never puts back a field its body leaves out, whatever other
\* clients committed to that row after the handler loaded it.
THEOREM NoLostUpdate == Spec => PatchKeepsOtherFields
<1> DEFINE A ==
      \A c \in Clients :
         pc[c] = "write" /\ req[c].op = "update" /\ pc'[c] = "invalidate" =>
            LET id == req[c].id IN
            /\ req[c].parent = Unset => cat'[id].parent = cat[id].parent
            /\ req[c].name = Unset => cat'[id].name = cat[id].name
<1>1. ASSUME IInv, NEW c \in Clients, Step(c) PROVE A
  <2>1. ClientsKept(c) /\ TableStep(c) BY <1>1, StepShape
  <2> SUFFICES ASSUME NEW d \in Clients,
                      pc[d] = "write", req[d].op = "update", pc'[d] = "invalidate"
               PROVE  LET id == req[d].id IN
                      /\ req[d].parent = Unset => cat'[id].parent = cat[id].parent
                      /\ req[d].name = Unset => cat'[id].name = cat[id].name
    OBVIOUS
  <2>2. d = c BY <2>1 DEF ClientsKept, Others
  <2>3. Updated(c)
    <3>1. ~ Idled(c) BY <2>2 DEF Idled
    <3>2. ~ Inserted(c) BY <2>2, RequestKinds DEF Inserted, Requests
    <3>3. ~ Deleted(c) BY <2>2, RequestKinds DEF Deleted, Requests
    <3> QED BY <2>1, <3>1, <3>2, <3>3 DEF TableStep
  <2>4. req[c] \in Updates /\ cat' = PutRow(cat, req[c].id, WrittenRow(cat, req[c], dirty[c]))
    BY <2>3 DEF Updated, Stores
  <2>5. \A f \in dirty[c] : req[c][f] # Unset BY <1>1, <2>4 DEF IInv, InFlight, Standing
  <2>6. req[c].parent = Unset => "parent" \notin dirty[c] BY <2>5
  <2>7. req[c].name = Unset => "name" \notin dirty[c] BY <2>5
  <2>8. cat'[req[c].id] = WrittenRow(cat, req[c], dirty[c]) BY <2>4 DEF PutRow
  <2> QED BY <2>2, <2>6, <2>7, <2>8 DEF WrittenRow
<1>2. IInv /\ UNCHANGED vars => A BY DEF vars
<1>3. IInv /\ [Next]_vars => [A]_vars BY <1>1, <1>2 DEF Next
<1> QED BY <1>3, SpecIInv, PTL DEF Spec, PatchKeepsOtherFields

-----------------------------------------------------------------------------
(* CategoryRaces: what the validation of a pending request is still worth.  *)

PendingMove(c) == pc[c] = "write" /\ req[c] \in Updates /\ req[c].parent \in Ids
PendingChild(c) == pc[c] = "write" /\ req[c] \in Creates /\ req[c].parent \in Ids

\* A request names only ids that were drawn before it.
RequestsKnown ==
    \A c \in Clients :
        /\ req[c] \in Creates \cup Updates /\ req[c].parent \in Ids => req[c].parent < nextId
        /\ req[c] \in Updates => req[c].id < nextId

MoveStillSound(c) ==
    PendingMove(c) /\ "move" \notin overtaken[c] /\ {req[c].id, req[c].parent} \subseteq DOMAIN parents
       => req[c].parent \notin Subtree(parents, req[c].id)

MoveStillFits(c, d) ==
    PendingMove(c) /\ overtaken[c] = {} /\ {req[c].id, req[c].parent} \subseteq DOMAIN parents
       => \A x \in Subtree(parents, req[c].id) :
             d[x] - d[req[c].id] + 1 + d[req[c].parent] <= MaxDepth

ChildStillFits(c, d) ==
    PendingChild(c) /\ overtaken[c] = {} /\ req[c].parent \in DOMAIN parents
       => d[req[c].parent] < MaxDepth

Fits(d) ==
    /\ \A x \in DOMAIN parents : d[x] <= MaxDepth
    /\ \A c \in Clients : MoveStillFits(c, d) /\ ChildStillFits(c, d)

TreeSound ==
    "move" \notin raced =>
        \E d : /\ HasDepth(parents, d)
               /\ \A c \in Clients : MoveStillSound(c)
               /\ raced = {} => Fits(d)

RInv == IInv /\ HistoryTypeOK /\ RequestsKnown /\ TreeSound

-----------------------------------------------------------------------------
(* One step, as far as the tree goes. *)

Same == parents' = parents /\ ~ Moved /\ ~ Grown

Leafed(c) ==
    /\ pc[c] = "write" /\ req[c] \in Creates
    /\ nextId \notin DOMAIN parents /\ nextId # NoParent
    /\ req[c].parent \in DOMAIN parents \cup {NoParent}
    /\ parents' = WithLeaf(parents, nextId, req[c].parent)
    /\ ~ Moved /\ (Grown <=> req[c].parent # NoParent)

Detached(id) ==
    /\ id \in DOMAIN parents
    /\ parents' = Rehung(parents, id, NoParent)
    /\ ~ Moved /\ ~ Grown

MovedBy(c) ==
    /\ PendingMove(c)
    /\ {req[c].id, req[c].parent} \subseteq DOMAIN parents
    /\ parents' = Rehung(parents, req[c].id, req[c].parent)
    /\ Moved

PrunedAt(id) == parents' = Pruned(parents, id) /\ ~ Moved /\ ~ Grown

TreeStep(c) ==
    Same \/ Leafed(c) \/ MovedBy(c) \/ (\E id : Detached(id)) \/ (\E id : PrunedAt(id))

LEMMA IdsAreNotNull ==
    ASSUME IInv
    PROVE  /\ NoParent \notin DOMAIN parents /\ NoParent \notin Ids
           /\ DOMAIN parents = DOMAIN cat /\ DOMAIN cat \subseteq Ids
           /\ nextId \in Nat /\ nextId \notin DOMAIN cat /\ nextId # NoParent
<1>1. DOMAIN parents = DOMAIN cat BY DEF parents
<1>2. DOMAIN cat \subseteq Ids BY DEF IInv, TypeOK
<1>3. NoParent \notin Ids BY ValuesAssumption DEF Ids
<1>4. nextId \in Nat BY MaxIdAssumption DEF IInv, TypeOK
<1>5. nextId \notin DOMAIN cat BY <1>4 DEF IInv, TypeOK
<1> QED BY <1>1, <1>2, <1>3, <1>4, <1>5, ValuesAssumption

LEMMA StepOfTree ==
    ASSUME IInv, RequestsKnown, NEW c \in Clients, TableStep(c)
    PROVE  TreeStep(c)
<1>0. NoParent \notin DOMAIN parents /\ NoParent \notin Ids
      /\ DOMAIN parents = DOMAIN cat /\ nextId # NoParent
      /\ nextId \notin DOMAIN cat /\ DOMAIN cat \subseteq Ids /\ nextId \in Nat
  BY IdsAreNotNull
<1>1. ASSUME UNCHANGED cat PROVE Same
  BY <1>1 DEF Same, Moved, Grown, parents
<1>2. CASE Idled(c) BY <1>1, <1>2 DEF Idled, TreeStep
<1>3. CASE Inserted(c) /\ Stores(c, nextId, NewRow(c))
  <2> DEFINE p == req[c].parent
  <2>1. cat' = PutRow(cat, nextId, NewRow(c)) /\ req[c] \in Creates /\ pc[c] = "write"
        /\ Violation(cat, nextId, NewRow(c)) = "none"
    BY <1>3 DEF Inserted, Stores
  <2>2. NewRow(c).parent = p BY DEF NewRow
  <2>3. p = NoParent \/ p \in DOMAIN cat \cup {nextId}
    BY <2>1, <2>2 DEF Violation, ParentPresent
  <2>4. p \in ParentIds BY <2>1 DEF Creates
  <2>5. p # nextId BY <1>0, <2>1, <2>4 DEF RequestsKnown, ParentIds
  <2>6. DOMAIN cat' = DOMAIN cat \cup {nextId} /\ cat'[nextId] = NewRow(c)
        /\ \A x \in DOMAIN cat : cat'[x] = cat[x]
    BY <1>0, <2>1 DEF PutRow
  <2>7. parents' = WithLeaf(parents, nextId, p)
    BY <1>0, <2>2, <2>6 DEF parents, WithLeaf
  <2>8. ~ Moved BY <2>6 DEF Moved
  <2>9. Grown <=> p # NoParent BY <1>0, <2>2, <2>6 DEF Grown
  <2> QED BY <1>0, <2>1, <2>3, <2>5, <2>7, <2>8, <2>9 DEF TreeStep, Leafed
<1>4. CASE Updated(c)
  <2> DEFINE id == req[c].id
  <2> DEFINE row == WrittenRow(cat, req[c], dirty[c])
  <2>1. id \in DOMAIN cat /\ pc[c] = "write" /\ req[c] \in Updates
        /\ Violation(cat, id, row) = "none" /\ cat' = PutRow(cat, id, row)
    BY <1>4 DEF Updated, Stores
  <2>2. row.parent = IF "parent" \in dirty[c] THEN req[c].parent ELSE cat[id].parent
    BY DEF WrittenRow
  <2>3. \A f \in dirty[c] : req[c][f] # Unset BY <2>1 DEF IInv, InFlight, Standing
  <2>4. "parent" \in dirty[c] => req[c].parent \in ParentIds BY <2>1, <2>3 DEF Updates
  <2> HIDE DEF row
  <2>5. row.parent = NoParent \/ row.parent \in DOMAIN cat
    BY <2>1 DEF Violation, ParentPresent
  <2>6. DOMAIN cat' = DOMAIN cat /\ cat'[id] = row /\ \A x \in DOMAIN cat \ {id} : cat'[x] = cat[x]
    BY <2>1 DEF PutRow
  <2>7. parents' = Rehung(parents, id, row.parent)
    <3>1. parents' = [x \in DOMAIN cat |-> cat'[x].parent] BY <2>6 DEF parents
    <3>2. Rehung(parents, id, row.parent) =
            [x \in DOMAIN cat |-> IF x = id THEN row.parent ELSE cat[x].parent]
      BY DEF Rehung, parents
    <3> QED BY <2>6, <3>1, <3>2
  <2>8. ~ Grown BY <2>6 DEF Grown
  <2>9. Moved <=> row.parent \notin {NoParent, cat[id].parent} BY <2>1, <2>6 DEF Moved
  <2>10. CASE row.parent = cat[id].parent
    <3>1. Rehung(parents, id, row.parent) = parents BY <2>1, <2>10 DEF Rehung, parents
    <3> QED BY <2>7, <2>8, <2>9, <2>10, <3>1 DEF Same, TreeStep
  <2>11. CASE row.parent = NoParent
    BY <1>0, <2>1, <2>7, <2>8, <2>9, <2>11 DEF Detached, TreeStep
  <2>12. CASE row.parent \notin {NoParent, cat[id].parent}
    <3>1. row.parent = req[c].parent /\ req[c].parent \in Ids
      BY <2>2, <2>4, <2>12 DEF row, ParentIds
    <3> QED BY <1>0, <2>1, <2>5, <2>7, <2>9, <2>12, <3>1 DEF MovedBy, PendingMove, TreeStep
  <2> QED BY <2>10, <2>11, <2>12
<1>5. CASE Deleted(c)
  <2> DEFINE id == req[c].id
  <2>1. cat' = [x \in DOMAIN cat \ Subtree(parents, id) |-> cat[x]]
    BY <1>5 DEF Deleted, WithoutSubtree, parents
  <2> HIDE DEF id
  <2>2. DOMAIN cat' = DOMAIN cat \ Subtree(parents, id) /\ \A x \in DOMAIN cat' : cat'[x] = cat[x]
    BY <2>1
  <2>3. parents' = [x \in DOMAIN cat \ Subtree(parents, id) |-> cat[x].parent] BY <2>2 DEF parents
  <2>4. Pruned(parents, id) = [x \in DOMAIN cat \ Subtree(parents, id) |-> cat[x].parent]
    BY DEF Pruned, parents
  <2>5. ~ Moved /\ ~ Grown BY <2>2 DEF Moved, Grown
  <2> QED BY <2>3, <2>4, <2>5 DEF PrunedAt, TreeStep
<1> QED BY <1>1, <1>2, <1>3, <1>4, <1>5 DEF TableStep, Inserted, TreeStep

-----------------------------------------------------------------------------
(* One step, as far as the requests go. *)

\* Nothing is pending after its own step unless the step was its validation,
\* on the table as it still is.
Validated(c) ==
    pc'[c] = "write" =>
        /\ UNCHANGED cat
        /\ req'[c] \in Updates /\ req'[c].parent \in Ids
             => ReparentVerdict(parents, req'[c].id, req'[c].parent) = "ok"
        /\ req'[c] \in Creates /\ req'[c].parent \in Ids
             => ParentVerdict(parents, req'[c].parent) = "ok"

LEMMA StepOfRequest ==
    ASSUME IInv, RequestsKnown, NEW c \in Clients, Step(c)
    PROVE  Validated(c) /\ RequestsKnown'
<1>1. ClientsKept(c) /\ TableStep(c) BY StepShape
<1>2. nextId \in Nat /\ nextId' \in Nat /\ nextId <= nextId'
  BY <1>1, IdsAreNotNull DEF TableStep, Idled, Inserted, Updated, Deleted
<1>3. NoParent \notin Ids /\ Unset \notin Ids BY ValuesAssumption DEF Ids
<1>4. req \in [Clients -> Creates \cup Updates \cup Deletes \cup Committed \cup {NoRequest}]
      /\ pc \in [Clients -> Steps]
  BY DEF IInv, TypeOK
<1>a. \A r \in Creates : r \notin Updates /\ r \notin Deletes BY DEF Creates, Updates, Deletes
<1>b. \A r \in Deletes : r \notin Updates BY DEF Deletes, Updates
\* The new request of the client that moves names ids drawn before.
<1>5. ASSUME /\ req'[c] \in Creates \cup Updates /\ req'[c].parent \in Ids
                  => req'[c].parent < nextId
             /\ req'[c] \in Updates => req'[c].id < nextId
      PROVE  RequestsKnown'
  <2> SUFFICES ASSUME NEW e \in Clients
               PROVE  /\ req'[e] \in Creates \cup Updates /\ req'[e].parent \in Ids
                           => req'[e].parent < nextId'
                      /\ req'[e] \in Updates => req'[e].id < nextId'
    BY DEF RequestsKnown, Ids
  <2>1. CASE e = c BY <1>2, <1>5, <2>1, MaxIdAssumption DEF Ids, Updates
  <2>2. CASE e # c
    <3>1. req'[e] = req[e] BY <1>1, <2>2 DEF ClientsKept, Others
    <3> QED BY <1>2, <3>1, MaxIdAssumption DEF RequestsKnown, Ids, Updates
  <2> QED BY <2>1, <2>2
<1>r. ASSUME NEW status, NEW cause, Respond(c, status, cause) PROVE Validated(c) /\ RequestsKnown'
  <2>1. pc'[c] = "idle" /\ req'[c] = NoRequest BY <1>4, <1>r DEF Respond, Advance
  <2>2. req'[c] \notin Creates \cup Updates BY <2>1 DEF NoRequest, Creates, Updates
  <2> QED BY <1>5, <2>1, <2>2 DEF Validated
<1>s. ASSUME Settle(c) PROVE Validated(c) /\ RequestsKnown'
  <2>1. pc'[c] = "invalidate" /\ req'[c] = [op |-> req[c].op] BY <1>4, <1>s DEF Settle, Advance
  <2>2. req'[c] \notin Creates \cup Updates BY <2>1 DEF Creates, Updates
  <2> QED BY <1>5, <2>1, <2>2 DEF Validated
<1>p. ASSUME NEW r, NEW step, NEW columns, Proceed(c, r, step, columns)
      PROVE  pc'[c] = step /\ req'[c] = r
  BY <1>4, <1>p DEF Proceed, Advance
<1>c. ASSUME NEW id, NEW row, CommitRow(c, id, row) PROVE Validated(c) /\ RequestsKnown'
  BY <1>r, <1>s, <1>c DEF CommitRow
<1>6. CASE BeginCreate(c)
  <2>1. PICK r \in Creates :
          /\ r.parent \in KnownIds \cup {NoParent}
          /\ LET verdict == IF r.parent = NoParent THEN "ok" ELSE ParentVerdict(parents, r.parent)
             IN  IF verdict = "ok" THEN Proceed(c, r, "write", {})
                 ELSE Respond(c, VerdictStatus(verdict), verdict)
    BY <1>6 DEF BeginCreate
  <2> DEFINE v == IF r.parent = NoParent THEN "ok" ELSE ParentVerdict(parents, r.parent)
  <2>2. CASE v = "ok"
    <3>1. Proceed(c, r, "write", {}) BY <2>1, <2>2
    <3>2. pc'[c] = "write" /\ req'[c] = r /\ UNCHANGED cat BY <1>p, <1>6, <3>1 DEF BeginCreate
    <3>3. r.parent \in Ids => ParentVerdict(parents, r.parent) = "ok" BY <1>3, <2>2
    <3>4. Validated(c) BY <1>a, <3>2, <3>3 DEF Validated
    <3>5. r.parent \in Ids => r.parent < nextId BY <1>2, <1>3, <2>1 DEF KnownIds
    <3> QED BY <1>a, <1>5, <3>2, <3>4, <3>5
  <2>3. CASE v # "ok"
    <3>1. Respond(c, VerdictStatus(v), v) BY <2>1, <2>3
    <3> QED BY <1>r, <3>1
  <2> QED BY <2>2, <2>3
<1>7. CASE BeginUpdate(c)
  <2>1. PICK r \in Updates :
          /\ {r.id, r.parent} \subseteq KnownIds \cup {NoParent, Unset}
          /\ IF r.id \in DOMAIN cat
             THEN Proceed(c, r, IF MovesUnderParent(r) THEN "validate" ELSE "write",
                          Assigned(r, cat[r.id]))
             ELSE Respond(c, 404, "row_gone")
    BY <1>7 DEF BeginUpdate
  <2>2. CASE r.id \in DOMAIN cat
    <3>1. Proceed(c, r, IF MovesUnderParent(r) THEN "validate" ELSE "write", Assigned(r, cat[r.id]))
      BY <2>1, <2>2
    <3>2. pc'[c] = (IF MovesUnderParent(r) THEN "validate" ELSE "write") /\ req'[c] = r
          /\ UNCHANGED cat
      BY <1>p, <1>7, <3>1 DEF BeginUpdate
    <3>3. r.op = "update" /\ r.id \in Ids BY DEF Updates
    <3>4. r.parent \in Ids => pc'[c] = "validate" BY <3>2, <3>3 DEF MovesUnderParent
    <3>5. Validated(c) BY <1>a, <3>2, <3>4 DEF Validated
    <3>6. r.id < nextId /\ (r.parent \in Ids => r.parent < nextId)
      BY <1>2, <1>3, <2>1, <3>3 DEF KnownIds
    <3> QED BY <1>5, <3>2, <3>5, <3>6
  <2>3. CASE r.id \notin DOMAIN cat BY <1>r, <2>1, <2>3
  <2> QED BY <2>2, <2>3
<1>8. CASE BeginDelete(c)
  <2>1. PICK r \in Deletes :
          IF r.id \in DOMAIN cat THEN Proceed(c, r, "write", {}) ELSE Respond(c, 404, "row_gone")
    BY <1>8 DEF BeginDelete
  <2>2. CASE r.id \in DOMAIN cat
    <3>1. req'[c] = r /\ UNCHANGED cat BY <1>p, <1>8, <2>1, <2>2 DEF BeginDelete
    <3> QED BY <1>a, <1>b, <1>5, <3>1 DEF Validated
  <2>3. CASE r.id \notin DOMAIN cat BY <1>r, <2>1, <2>3
  <2> QED BY <2>2, <2>3
<1>9. CASE ValidateMove(c)
  <2> DEFINE v == ReparentVerdict(parents, req[c].id, req[c].parent)
  <2>1. IF v = "ok" THEN Proceed(c, req[c], "write", dirty[c])
        ELSE Respond(c, VerdictStatus(v), v)
    BY <1>9 DEF ValidateMove
  <2>2. CASE v = "ok"
    <3>1. req'[c] = req[c] /\ UNCHANGED cat BY <1>p, <1>9, <2>1, <2>2 DEF ValidateMove
    <3>2. req[c] \in Updates BY <1>9 DEF ValidateMove, IInv, InFlight, Standing
    <3>3. Validated(c) BY <1>a, <2>2, <3>1, <3>2 DEF Validated
    <3> QED BY <1>5, <3>1, <3>3 DEF RequestsKnown
  <2>3. CASE v # "ok"
    <3>1. Respond(c, VerdictStatus(v), v) BY <2>1, <2>3
    <3> QED BY <1>r, <3>1
  <2> QED BY <2>2, <2>3
<1>10. CASE InsertCategory(c) BY <1>c, <1>10 DEF InsertCategory
<1>11. CASE UpdateCategory(c) BY <1>c, <1>r, <1>11 DEF UpdateCategory
<1>12. CASE DeleteCategory(c) BY <1>s, <1>12 DEF DeleteCategory
<1>13. CASE InvalidateCache(c) BY <1>r, <1>13 DEF InvalidateCache
<1>14. CASE Abandon(c) BY <1>r, <1>14 DEF Abandon
<1> QED BY <1>6, <1>7, <1>8, <1>9, <1>10, <1>11, <1>12, <1>13, <1>14 DEF Step

-----------------------------------------------------------------------------
(* The history. *)

LEMMA HistoryStep ==
    ASSUME HistoryTypeOK, NEW c \in Clients, Record(c)
    PROVE  /\ HistoryTypeOK' /\ raced \subseteq raced'
           /\ Moved \/ Grown => overtaken[c] \subseteq raced'
           /\ overtaken'[c] = {}
<1>1. Change \subseteq TreeChanges BY DEF Change, TreeChanges
<1>2. overtaken' \in [Clients -> SUBSET TreeChanges] BY <1>1 DEF Record, HistoryTypeOK
<1>3. raced' \subseteq TreeChanges BY DEF Record, HistoryTypeOK
<1>4. raced \subseteq raced' /\ (Moved \/ Grown => overtaken[c] \subseteq raced') BY DEF Record
<1>5. overtaken'[c] = {} BY DEF Record
<1> QED BY <1>2, <1>3, <1>4, <1>5 DEF HistoryTypeOK

\* What a step does to the standing of another client's pending request.
LEMMA OthersOvertaken ==
    ASSUME NEW c \in Clients, ClientsKept(c), Record(c), NEW e \in Clients, e # c
    PROVE  /\ PendingMove(e)' <=> PendingMove(e)
           /\ PendingChild(e)' <=> PendingChild(e)
           /\ req'[e] = req[e]
           /\ PendingMove(e) =>
                /\ overtaken[e] \subseteq overtaken'[e]
                /\ Moved => "move" \in overtaken'[e]
                /\ Grown => "growth" \in overtaken'[e]
           /\ PendingChild(e) =>
                /\ overtaken[e] \subseteq overtaken'[e]
                /\ Moved => "move" \in overtaken'[e]
<1>1. pc'[e] = pc[e] /\ req'[e] = req[e] BY DEF ClientsKept, Others
<1>2. pc[e] = "write" => overtaken'[e] = overtaken[e] \cup (Change \cap Matters(req[e]))
  BY DEF Record
<1>3. PendingMove(e) => Matters(req[e]) = {"move", "growth"}
  BY DEF PendingMove, Matters, MovesUnderParent, Updates
<1>4. PendingChild(e) => Matters(req[e]) = {"move"}
  BY ValuesAssumption DEF PendingChild, Matters, MovesUnderParent, Creates, Ids
<1>5. (Moved => "move" \in Change) /\ (Grown => "growth" \in Change) BY DEF Change
<1>6. (PendingMove(e)' <=> PendingMove(e)) /\ (PendingChild(e)' <=> PendingChild(e))
  BY <1>1 DEF PendingMove, PendingChild
<1>7. PendingMove(e) \/ PendingChild(e) => pc[e] = "write" BY DEF PendingMove, PendingChild
<1> QED BY <1>1, <1>2, <1>3, <1>4, <1>5, <1>6, <1>7

\* Validations that no move has overtaken still exclude a cycle.
LEMMA SoundnessCarried ==
    ASSUME IInv, RequestsKnown, NEW c \in Clients, ClientsKept(c), Validated(c), Record(c),
           \A e \in Clients : MoveStillSound(e),
           DOMAIN parents' \subseteq DOMAIN parents \cup {nextId},
           ~ Moved => \A y \in DOMAIN parents \cap DOMAIN parents' :
                         Subtree(parents', y) \subseteq Subtree(parents, y) \cup {nextId}
    PROVE  \A e \in Clients : MoveStillSound(e)'
<1> SUFFICES ASSUME NEW e \in Clients, PendingMove(e)', "move" \notin overtaken'[e],
                    {req'[e].id, req'[e].parent} \subseteq DOMAIN parents'
             PROVE  req'[e].parent \notin Subtree(parents', req'[e].id)
  BY DEF MoveStillSound
<1> DEFINE id == req'[e].id
<1> DEFINE p == req'[e].parent
<1>0. NoParent \notin Ids /\ nextId \in Nat BY IdsAreNotNull
<1>1. CASE e = c
  <2>1. pc'[c] = "write" /\ p \in Ids /\ req'[c] \in Updates BY <1>1 DEF PendingMove
  <2>2. parents' = parents BY <2>1 DEF Validated, parents
  <2>3. ReparentVerdict(parents, id, p) = "ok" BY <1>1, <2>1 DEF Validated
  <2>4. id \in DOMAIN parents /\ p \in DOMAIN parents /\ p # NoParent BY <1>0, <2>1, <2>2
  <2> HIDE DEF id, p
  <2>5. p \notin Subtree(parents, id) BY <2>3, <2>4, ReparentOkAcyclic
  <2> QED BY <2>2, <2>5 DEF id, p
<1>2. CASE e # c
  <2>1. PendingMove(e) /\ req'[e] = req[e] /\ ~ Moved /\ "move" \notin overtaken[e]
    BY <1>2, OthersOvertaken
  <2>2. id < nextId /\ p < nextId BY <2>1 DEF PendingMove, RequestsKnown
  <2>3. id \in DOMAIN parents /\ p \in DOMAIN parents /\ p # nextId BY <1>0, <2>2
  <2>4. p \notin Subtree(parents, id) BY <2>1, <2>3 DEF MoveStillSound
  <2>5. Subtree(parents', id) \subseteq Subtree(parents, id) \cup {nextId} BY <2>1, <2>3
  <2> QED BY <2>3, <2>4, <2>5
<1> QED BY <1>1, <1>2

\* Validations that nothing has overtaken still keep within the limit.
LEMMA FitCarried ==
    ASSUME IInv, RequestsKnown, NEW c \in Clients, ClientsKept(c), Validated(c), Record(c),
           NEW d, HasDepth(parents, d), Fits(d),
           NEW f, HasDepth(parents', f), \A x \in DOMAIN parents' : f[x] <= MaxDepth,
           DOMAIN parents' \subseteq DOMAIN parents \cup {nextId},
           ~ Moved => \A x \in DOMAIN parents \cap DOMAIN parents' : f[x] <= d[x],
           ~ Moved /\ ~ Grown => Shortens(parents', f, parents, d)
    PROVE  \A e \in Clients : MoveStillFits(e, f)' /\ ChildStillFits(e, f)'
<1>0. NoParent \notin Ids /\ nextId \in Nat BY IdsAreNotNull
<1>d. (\A x \in DOMAIN parents : d[x] \in Nat) /\ (\A x \in DOMAIN parents' : f[x] \in Nat)
  BY DEF HasDepth
<1>1. ASSUME NEW e \in Clients, PendingMove(e)', overtaken'[e] = {},
             {req'[e].id, req'[e].parent} \subseteq DOMAIN parents',
             NEW x \in Subtree(parents', req'[e].id)
      PROVE  f[x] - f[req'[e].id] + 1 + f[req'[e].parent] <= MaxDepth
  <2> DEFINE id == req'[e].id
  <2> DEFINE p == req'[e].parent
  <2>1. CASE e = c
    <3>1. pc'[c] = "write" /\ p \in Ids /\ req'[c] \in Updates BY <1>1, <2>1 DEF PendingMove
    <3>2. parents' = parents BY <3>1 DEF Validated, parents
    <3>3. ReparentVerdict(parents', id, p) = "ok" BY <2>1, <3>1, <3>2 DEF Validated
    <3>4. id \in DOMAIN parents' /\ p \in DOMAIN parents' /\ p # NoParent BY <1>0, <1>1, <3>1
    <3>5. x \in Subtree(parents', id) BY <1>1
    <3> HIDE DEF id, p
    <3>6. f[x] - f[id] + 1 + f[p] <= MaxDepth BY <3>3, <3>4, <3>5, ReparentOkFits
    <3> QED BY <3>6 DEF id, p
  <2>2. CASE e # c
    <3>1. PendingMove(e) /\ req'[e] = req[e] /\ ~ Moved /\ ~ Grown /\ overtaken[e] = {}
      BY <1>1, <2>2, OthersOvertaken
    <3>2. id < nextId /\ p < nextId BY <3>1 DEF PendingMove, RequestsKnown
    <3>3. id \in DOMAIN parents /\ p \in DOMAIN parents BY <1>0, <1>1, <3>2
    <3>4. x \in Subtree(parents, id) /\ f[x] - f[id] <= d[x] - d[id] /\ f[p] <= d[p]
      BY <1>1, <3>1, <3>3 DEF Shortens
    <3>5. d[x] - d[id] + 1 + d[p] <= MaxDepth BY <3>1, <3>3, <3>4 DEF Fits, MoveStillFits
    <3>6. x \in DOMAIN parents /\ x \in DOMAIN parents' BY <1>1, <3>3, <3>4, SubtreeRoot
    <3>7. d[x] \in Nat /\ d[id] \in Nat /\ d[p] \in Nat
          /\ f[x] \in Nat /\ f[id] \in Nat /\ f[p] \in Nat
      BY <1>1, <1>d, <3>3, <3>6
    <3> HIDE DEF id, p
    <3>8. f[x] - f[id] + 1 + f[p] <= MaxDepth BY <3>4, <3>5, <3>7, MaxDepthAssumption
    <3> QED BY <3>8 DEF id, p
  <2> QED BY <2>1, <2>2
<1>2. ASSUME NEW e \in Clients, PendingChild(e)', overtaken'[e] = {},
             req'[e].parent \in DOMAIN parents'
      PROVE  f[req'[e].parent] < MaxDepth
  <2> DEFINE p == req'[e].parent
  <2>1. CASE e = c
    <3>1. pc'[c] = "write" /\ p \in Ids /\ req'[c] \in Creates BY <1>2, <2>1 DEF PendingChild
    <3>2. parents' = parents BY <3>1 DEF Validated, parents
    <3>3. ParentVerdict(parents', p) = "ok" BY <2>1, <3>1, <3>2 DEF Validated
    <3> QED BY <1>2, <3>3, ParentOk
  <2>2. CASE e # c
    <3>1. PendingChild(e) /\ req'[e] = req[e] /\ ~ Moved /\ overtaken[e] = {}
      BY <1>2, <2>2, OthersOvertaken
    <3>2. p < nextId BY <3>1 DEF PendingChild, RequestsKnown
    <3>3. p \in DOMAIN parents BY <1>0, <1>2, <3>2
    <3>4. d[p] < MaxDepth BY <3>1, <3>3 DEF Fits, ChildStillFits
    <3>5. f[p] <= d[p] BY <1>2, <3>1, <3>3
    <3>6. d[p] \in Nat /\ f[p] \in Nat BY <1>2, <1>d, <3>3
    <3> HIDE DEF p
    <3>7. f[p] < MaxDepth BY <3>4, <3>5, <3>6, MaxDepthAssumption
    <3> QED BY <3>7 DEF p
  <2> QED BY <2>1, <2>2
<1> QED BY <1>1, <1>2 DEF MoveStillFits, ChildStillFits

-----------------------------------------------------------------------------
(* The tree stays sound. *)

LEMMA StepOfTreeSound ==
    ASSUME RInv, NEW c \in Clients, Step(c), Record(c)
    PROVE  TreeSound'
<1>0. IInv /\ HistoryTypeOK /\ RequestsKnown /\ TreeSound BY DEF RInv
<1>1. ClientsKept(c) /\ TableStep(c) /\ TreeStep(c) /\ Validated(c)
  BY <1>0, StepShape, StepOfTree, StepOfRequest
<1>2. raced \subseteq raced' /\ (Moved \/ Grown => overtaken[c] \subseteq raced')
  BY <1>0, HistoryStep
<1>3. NoParent \notin Ids /\ DOMAIN parents \subseteq Ids BY <1>0, IdsAreNotNull
<1> SUFFICES ASSUME "move" \notin raced'
             PROVE  \E f : /\ HasDepth(parents', f)
                           /\ \A e \in Clients : MoveStillSound(e)'
                           /\ raced' = {} => Fits(f)'
  BY DEF TreeSound
<1>4. PICK d : /\ HasDepth(parents, d)
               /\ \A e \in Clients : MoveStillSound(e)
               /\ raced = {} => Fits(d)
  BY <1>0, <1>2 DEF TreeSound
<1>5. raced' = {} => raced = {} /\ Fits(d) /\ (Moved \/ Grown => overtaken[c] = {}) BY <1>2, <1>4
<1>6. \A x \in DOMAIN parents : d[x] \in Nat \ {0} BY <1>4 DEF HasDepth
<1>7. raced' = {} => \A x \in DOMAIN parents : d[x] <= MaxDepth BY <1>5 DEF Fits
\* A witness is good when it is a depth and, unless something raced, fits.
<1>8. ASSUME NEW f, HasDepth(parents', f),
             DOMAIN parents' \subseteq DOMAIN parents \cup {nextId},
             ~ Moved => \A y \in DOMAIN parents \cap DOMAIN parents' :
                           Subtree(parents', y) \subseteq Subtree(parents, y) \cup {nextId},
             raced' = {} => \A x \in DOMAIN parents' : f[x] <= MaxDepth,
             ~ Moved => \A x \in DOMAIN parents \cap DOMAIN parents' : f[x] <= d[x],
             ~ Moved /\ ~ Grown => Shortens(parents', f, parents, d)
      PROVE  \E g : /\ HasDepth(parents', g)
                    /\ \A e \in Clients : MoveStillSound(e)'
                    /\ raced' = {} => Fits(g)'
  <2>1. \A e \in Clients : MoveStillSound(e)' BY <1>0, <1>1, <1>4, <1>8, SoundnessCarried
  <2>2. ASSUME raced' = {} PROVE Fits(f)'
    <3>1. Fits(d) /\ \A x \in DOMAIN parents' : f[x] <= MaxDepth BY <1>5, <1>8, <2>2
    <3>2. \A e \in Clients : MoveStillFits(e, f)' /\ ChildStillFits(e, f)'
      BY <1>0, <1>1, <1>4, <1>8, <3>1, FitCarried
    <3> QED BY <3>1, <3>2 DEF Fits
  <2> QED BY <1>8, <2>1, <2>2
\* Shorter chains: all that <1>8 asks for beyond the depth itself.
<1>9. ASSUME NEW f, HasDepth(parents', f), Shortens(parents', f, parents, d),
             DOMAIN parents' \subseteq DOMAIN parents \cup {nextId},
             raced' = {} => \A x \in DOMAIN parents' \ DOMAIN parents : f[x] <= MaxDepth
      PROVE  \E g : /\ HasDepth(parents', g)
                    /\ \A e \in Clients : MoveStillSound(e)'
                    /\ raced' = {} => Fits(g)'
  <2>1. \A x \in DOMAIN parents \cap DOMAIN parents' : f[x] <= d[x] BY <1>9 DEF Shortens
  <2>2. \A y \in DOMAIN parents \cap DOMAIN parents' :
           Subtree(parents', y) \subseteq Subtree(parents, y)
    BY <1>9 DEF Shortens
  <2>3. ASSUME raced' = {}, NEW x \in DOMAIN parents' PROVE f[x] <= MaxDepth
    <3>1. CASE x \in DOMAIN parents
      <4>1. f[x] <= d[x] /\ d[x] <= MaxDepth BY <1>7, <2>1, <2>3, <3>1
      <4>2. f[x] \in Nat /\ d[x] \in Nat BY <1>6, <1>9, <2>3, <3>1 DEF HasDepth
      <4> QED BY <4>1, <4>2, MaxDepthAssumption
    <3>2. CASE x \notin DOMAIN parents BY <1>9, <2>3, <3>2
    <3> QED BY <3>1, <3>2
  <2> QED BY <1>8, <1>9, <2>1, <2>2, <2>3
<1>10. CASE Same
  <2>1. parents' = parents BY <1>10 DEF Same
  <2>2. Shortens(parents', d, parents, d)
    <3>1. \A y \in DOMAIN parents : Subtree(parents, y) \subseteq DOMAIN parents BY SubtreeRoot
    <3> QED BY <1>6, <2>1, <3>1 DEF Shortens
  <2>3. HasDepth(parents', d) BY <1>4, <2>1
  <2> QED BY <1>9, <2>1, <2>2, <2>3
<1>11. CASE \E id : Detached(id)
  <2>1. PICK id : Detached(id) BY <1>11
  <2>2. id \in DOMAIN parents /\ parents' = Rehung(parents, id, NoParent) BY <2>1 DEF Detached
  <2>3. NoParent \notin Subtree(parents, id) BY <1>3, <2>2, SubtreeRoot
  <2>4. BaseDepth(d, NoParent) = 0 BY DEF BaseDepth
  <2>5. HasDepth(parents', ShiftedDepth(parents, d, id, 0))
    BY <1>4, <2>2, <2>3, <2>4, RehungHasDepth
  <2>6. Shortens(parents', ShiftedDepth(parents, d, id, 0), parents, d)
    BY <1>4, <2>2, DetachShortens
  <2>7. DOMAIN parents' = DOMAIN parents BY <2>2 DEF Rehung
  <2> QED BY <1>9, <2>5, <2>6, <2>7
<1>12. CASE \E id : PrunedAt(id)
  <2>1. PICK id : PrunedAt(id) BY <1>12
  <2>2. parents' = Pruned(parents, id) BY <2>1 DEF PrunedAt
  <2>3. HasDepth(parents', PrunedDepth(parents, d, id)) BY <1>4, <2>2, PrunedHasDepth
  <2>4. Shortens(parents', PrunedDepth(parents, d, id), parents, d) BY <1>4, <2>2, PruneShortens
  <2>5. DOMAIN parents' \subseteq DOMAIN parents BY <2>2 DEF Pruned
  <2> QED BY <1>9, <2>3, <2>4, <2>5
<1>13. CASE Leafed(c)
  <2> DEFINE p == req[c].parent
  <2> DEFINE f == LeafDepth(parents, d, nextId, BaseDepth(d, p))
  <2>1. /\ pc[c] = "write" /\ req[c] \in Creates
        /\ nextId \notin DOMAIN parents /\ nextId # NoParent
        /\ p \in DOMAIN parents \cup {NoParent}
        /\ parents' = WithLeaf(parents, nextId, p)
        /\ ~ Moved /\ (Grown <=> p # NoParent)
    BY <1>13 DEF Leafed
  <2>2. HasDepth(parents', f) BY <1>4, <2>1, WithLeafHasDepth
  <2>3. DOMAIN parents' = DOMAIN parents \cup {nextId} BY <2>1 DEF WithLeaf
  <2>4. f[nextId] = BaseDepth(d, p) + 1 /\ \A x \in DOMAIN parents : f[x] = d[x]
    BY <2>1 DEF LeafDepth
  <2>5. CASE p = NoParent
    <3>1. BaseDepth(d, p) = 0 BY <2>5 DEF BaseDepth
    <3>2. f[nextId] <= MaxDepth BY <2>4, <3>1, MaxDepthAssumption
    <3>3. Shortens(parents', f, parents, d) BY <1>4, <2>1, <2>5, <3>1, RootLeafShortens
    <3> HIDE DEF f
    <3> QED BY <1>9, <2>2, <2>3, <3>2, <3>3
  <2>6. CASE p # NoParent
    <3>1. p \in DOMAIN parents /\ p \in Ids /\ BaseDepth(d, p) = d[p]
      BY <1>3, <2>1, <2>6 DEF BaseDepth
    <3>2. raced' = {} => d[p] < MaxDepth
      BY <1>5, <2>1, <2>6, <3>1 DEF Fits, ChildStillFits, PendingChild
    <3>3. raced' = {} => f[nextId] <= MaxDepth BY <1>6, <2>4, <3>1, <3>2, MaxDepthAssumption
    <3>4. \A y \in DOMAIN parents : Subtree(parents', y) \subseteq Subtree(parents, y) \cup {nextId}
      BY <1>4, <2>1, LeafSubtrees
    <3>5. \A x \in DOMAIN parents : f[x] <= d[x] BY <1>6, <2>4
    <3>6. raced' = {} => \A x \in DOMAIN parents' : f[x] <= MaxDepth BY <1>7, <2>3, <2>4, <3>3
    <3> HIDE DEF f, p
    <3> QED BY <1>8, <2>1, <2>2, <2>3, <2>6, <3>4, <3>5, <3>6
  <2> QED BY <2>5, <2>6
<1>14. CASE MovedBy(c)
  <2> DEFINE id == req[c].id
  <2> DEFINE p == req[c].parent
  <2> DEFINE f == ShiftedDepth(parents, d, id, BaseDepth(d, p))
  <2>1. /\ PendingMove(c) /\ id \in DOMAIN parents /\ p \in DOMAIN parents
        /\ parents' = Rehung(parents, id, p) /\ Moved
    BY <1>14 DEF MovedBy
  <2>2. "move" \notin overtaken[c] BY <1>2, <2>1
  <2>3. p \notin Subtree(parents, id) BY <1>4, <2>1, <2>2 DEF MoveStillSound
  <2>4. HasDepth(parents', f) BY <1>4, <2>1, <2>3, RehungHasDepth
  <2>5. DOMAIN parents' = DOMAIN parents BY <2>1 DEF Rehung
  <2>6. p # NoParent /\ BaseDepth(d, p) = d[p] BY <1>3, <2>1 DEF BaseDepth
  <2>7. ASSUME raced' = {}, NEW x \in DOMAIN parents PROVE f[x] <= MaxDepth
    <3>1. overtaken[c] = {} /\ Fits(d) BY <1>5, <2>1, <2>7
    <3>2. CASE x \in Subtree(parents, id)
      <4>1. d[x] - d[id] + 1 + d[p] <= MaxDepth BY <2>1, <3>1, <3>2 DEF Fits, MoveStillFits
      <4>2. f[x] = d[x] - d[id] + d[p] + 1 BY <2>6, <3>2 DEF ShiftedDepth
      <4>3. d[x] \in Nat /\ d[id] \in Nat /\ d[p] \in Nat BY <1>6, <2>1
      <4> HIDE DEF f, id, p
      <4> QED BY <4>1, <4>2, <4>3, MaxDepthAssumption
    <3>3. CASE x \notin Subtree(parents, id)
      <4>1. f[x] = d[x] BY <3>3 DEF ShiftedDepth
      <4> QED BY <1>7, <2>7, <4>1
    <3> QED BY <3>2, <3>3
  <2> HIDE DEF f
  <2> QED BY <1>8, <2>1, <2>4, <2>5, <2>7
<1> QED BY <1>1, <1>10, <1>11, <1>12, <1>13, <1>14 DEF TreeStep

LEMMA InitRInv == RaceInit => RInv
<1> SUFFICES ASSUME RaceInit PROVE RInv OBVIOUS
<1>1. IInv BY InitIInv DEF RaceInit
<1>2. HistoryTypeOK BY DEF RaceInit, HistoryTypeOK
<1>3. \A c \in Clients : req[c] = NoRequest /\ pc[c] = "idle" BY DEF RaceInit, Init
<1>4. RequestsKnown BY <1>3 DEF RequestsKnown, NoRequest, Creates, Updates
<1>5. DOMAIN parents = {} BY DEF RaceInit, Init, parents
<1>6. HasDepth(parents, [x \in {} |-> 1]) BY <1>5 DEF HasDepth, IsDepth
<1>7. \A c \in Clients : MoveStillSound(c) BY <1>3 DEF MoveStillSound, PendingMove
<1>8. Fits([x \in {} |-> 1])
  BY <1>3, <1>5 DEF Fits, MoveStillFits, ChildStillFits, PendingMove, PendingChild
<1> QED BY <1>1, <1>2, <1>4, <1>6, <1>7, <1>8 DEF RInv, TreeSound

LEMMA SpecRInv == RaceSpec => []RInv
<1>1. ASSUME RInv, NEW c \in Clients, Step(c), Record(c) PROVE RInv'
  BY <1>1, StepIInv, HistoryStep, StepOfRequest, StepOfTreeSound DEF RInv
<1>2. ASSUME RInv, UNCHANGED <<vars, historyVars>> PROVE RInv'
  <2>1. UNCHANGED <<cat, nextId, pc, req, dirty, answer, overtaken, raced>>
    BY <1>2 DEF vars, historyVars
  <2>2. UNCHANGED parents BY <2>1 DEF parents
  <2>3. IInv' BY <1>2, <2>1, StutterIInv DEF RInv, vars
  <2>4. HistoryTypeOK' /\ RequestsKnown' BY <1>2, <2>1 DEF RInv, HistoryTypeOK, RequestsKnown
  <2>5. TreeSound'
    BY <1>2, <2>1, <2>2 DEF RInv, TreeSound, MoveStillSound, Fits, MoveStillFits, ChildStillFits,
                          PendingMove, PendingChild
  <2> QED BY <2>3, <2>4, <2>5 DEF RInv
<1>3. RInv /\ [RaceNext]_<<vars, historyVars>> => RInv' BY <1>1, <1>2 DEF RaceNext
<1> QED BY <1>3, InitRInv, PTL DEF RaceSpec

\* The parent links hold no cycle unless a create or move committed on a
\* validation that another request's committed move had overtaken: the check
\* of validate_category_reparent misses no cycle in the table it reads.
THEOREM AcyclicExceptByRace == RaceSpec => []AcyclicUnlessRaced
<1>1. RInv => AcyclicUnlessRaced
  BY DepthMeansAcyclic DEF RInv, TreeSound, AcyclicUnlessRaced
<1> QED BY <1>1, SpecRInv, PTL

\* The subtree query of a search, whose depth nothing limits, ends for every
\* category that does not hang below itself, and a category comes to hang below
\* itself only by a commit on a validation that a move had overtaken.
THEOREM SearchesEnd == RaceSpec => []SubtreeQueriesEnd
<1>1. ASSUME RInv, NEW root \in DOMAIN parents, ~ SubtreeQueryEnds(parents, root)
      PROVE  "move" \in raced /\ parents[root] \in Subtree(parents, root)
  <2>1. IsFiniteSet(DOMAIN parents)
    <3>1. DOMAIN parents \in SUBSET Ids BY <1>1 DEF RInv, IInv, TypeOK, parents
    <3>2. IsFiniteSet(Ids)
      <4>1. 1 \in Int /\ MaxId \in Int BY MaxIdAssumption
      <4> QED BY <4>1, FS_Interval DEF Ids
    <3> QED BY <3>1, <3>2, FS_Subset
  <2>2. AcyclicUnlessRaced BY <1>1, DepthMeansAcyclic DEF RInv, TreeSound, AcyclicUnlessRaced
  <2> QED BY <1>1, <2>1, <2>2, QueryEndsIff, AcyclicQueriesEnd DEF OnCycle, AcyclicUnlessRaced
<1>2. RInv => SubtreeQueriesEnd BY <1>1 DEF SubtreeQueriesEnd
<1> QED BY <1>2, SpecRInv, PTL

\* No category is deeper than MAX_CATEGORY_DEPTH unless a create or a move
\* committed on a validation that another commit had overtaken.
THEOREM DepthKeptExceptByRace == RaceSpec => []DepthKeptUnlessRaced
<1>1. ASSUME RInv, raced = {} PROVE WithinDepth(parents)
  <2>1. PICK d : HasDepth(parents, d) /\ Fits(d) BY <1>1 DEF RInv, TreeSound
  <2>2. d \in [DOMAIN parents -> 1..MaxDepth]
    <3>1. d \in [DOMAIN parents -> Nat \ {0}] BY <2>1 DEF HasDepth
    <3>2. \A x \in DOMAIN parents : d[x] <= MaxDepth BY <2>1 DEF Fits
    <3>3. \A x \in DOMAIN parents : d[x] \in 1..MaxDepth BY <3>1, <3>2, MaxDepthAssumption
    <3> QED BY <3>1, <3>3
  <2> QED BY <2>1, <2>2 DEF WithinDepth, ForestWithin, HasDepth
<1>2. RInv => DepthKeptUnlessRaced BY <1>1 DEF DepthKeptUnlessRaced
<1> QED BY <1>2, SpecRInv, PTL

-----------------------------------------------------------------------------
(* What nothing overtook is done as if alone.  The verdict of a pending     *)
(* request stays what it was, in any table: no depth is needed.             *)

StillOk(c) ==
    /\ PendingMove(c) /\ overtaken[c] = {} /\ {req[c].id, req[c].parent} \subseteq DOMAIN parents
         => ReparentVerdict(parents, req[c].id, req[c].parent) = "ok"
    /\ PendingChild(c) /\ overtaken[c] = {} /\ req[c].parent \in DOMAIN parents
         => ParentVerdict(parents, req[c].parent) = "ok"

\* Only a move, and a row inserted under a parent, add links.
LEMMA LinksOfStep ==
    ASSUME IInv, ParentsPresent, NEW c \in Clients, TreeStep(c), ~ Moved
    PROVE  /\ LinksKept(parents', parents)
           /\ ~ Grown => FewerLinks(parents', parents)
           /\ DOMAIN parents' \subseteq DOMAIN parents \cup {nextId}
<1>0. /\ NoParent \notin DOMAIN parents /\ DOMAIN parents = DOMAIN cat
      /\ nextId \notin DOMAIN parents /\ nextId # NoParent
  BY IdsAreNotNull
<1>1. CASE Same
  <2>1. parents' = parents BY <1>1 DEF Same
  <2> QED BY <1>0, <2>1, WritesAndLinks DEF FewerLinks
<1>2. CASE Leafed(c)
  <2> DEFINE p == req[c].parent
  <2>1. parents' = WithLeaf(parents, nextId, p) /\ (Grown <=> p # NoParent) BY <1>2 DEF Leafed
  <2>2. \A x \in DOMAIN parents : parents[x] # nextId BY <1>0 DEF ParentsPresent, parents
  <2>3. LinksKept(WithLeaf(parents, nextId, p), parents)
        /\ FewerLinks(WithLeaf(parents, nextId, NoParent), parents)
    BY <1>0, <2>2, WritesAndLinks
  <2>4. DOMAIN parents' = DOMAIN parents \cup {nextId} BY <2>1 DEF WithLeaf
  <2> QED BY <2>1, <2>3, <2>4
<1>3. CASE \E id : Detached(id)
  <2>1. PICK id : Detached(id) BY <1>3
  <2>2. parents' = Rehung(parents, id, NoParent) BY <2>1 DEF Detached
  <2>3. FewerLinks(Rehung(parents, id, NoParent), parents) BY <1>0, WritesAndLinks
  <2>4. DOMAIN parents' = DOMAIN parents BY <2>2 DEF Rehung
  <2> QED BY <2>2, <2>3, <2>4 DEF FewerLinks
<1>4. CASE \E id : PrunedAt(id)
  <2>1. PICK id : PrunedAt(id) BY <1>4
  <2>2. parents' = Pruned(parents, id) BY <2>1 DEF PrunedAt
  <2>3. FewerLinks(Pruned(parents, id), parents) BY <1>0, WritesAndLinks
  <2>4. DOMAIN parents' \subseteq DOMAIN parents BY <2>2 DEF Pruned
  <2> QED BY <2>2, <2>3, <2>4 DEF FewerLinks
<1>5. ~ MovedBy(c) BY DEF MovedBy
<1> QED BY <1>1, <1>2, <1>3, <1>4, <1>5 DEF TreeStep

LEMMA OkStep ==
    ASSUME IInv, RequestsKnown, ParentsPresent, NEW c \in Clients, Step(c), Record(c),
           \A e \in Clients : StillOk(e)
    PROVE  \A e \in Clients : StillOk(e)'
<1>1. ClientsKept(c) /\ TreeStep(c) /\ Validated(c) BY StepShape, StepOfTree, StepOfRequest
<1>2. ~ Moved => DOMAIN parents' \subseteq DOMAIN parents \cup {nextId} BY <1>1, LinksOfStep
<1>3. nextId \in Nat /\ NoParent \notin Ids BY IdsAreNotNull
<1>4. StillOk(c)'
  <2> SUFFICES ASSUME pc'[c] = "write" PROVE StillOk(c)'
    BY DEF StillOk, PendingMove, PendingChild
  <2>1. parents' = parents BY <1>1 DEF Validated, parents
  <2> QED BY <1>1, <2>1 DEF StillOk, Validated, PendingMove, PendingChild
<1>5. ASSUME NEW e \in Clients, e # c, PendingMove(e)', overtaken'[e] = {},
             {req'[e].id, req'[e].parent} \subseteq DOMAIN parents'
      PROVE  ReparentVerdict(parents', req'[e].id, req'[e].parent) = "ok"
  <2> DEFINE id == req[e].id
  <2> DEFINE p == req[e].parent
  <2>1. PendingMove(e) /\ req'[e] = req[e] /\ overtaken[e] = {} /\ ~ Moved /\ ~ Grown
    BY <1>1, <1>5, OthersOvertaken
  <2>2. id < nextId /\ p < nextId BY <2>1 DEF PendingMove, RequestsKnown
  <2>3. id \in DOMAIN parents' \cap DOMAIN parents /\ p \in DOMAIN parents' \cap DOMAIN parents
    BY <1>2, <1>3, <1>5, <2>1, <2>2
  <2>4. ReparentVerdict(parents, id, p) = "ok" BY <2>1, <2>3 DEF StillOk
  <2>5. FewerLinks(parents', parents) BY <1>1, <2>1, LinksOfStep
  <2>6. ReparentVerdict(parents', id, p) = "ok" BY <2>3, <2>4, <2>5, ReparentVerdictStays
  <2> QED BY <2>1, <2>6
<1>6. ASSUME NEW e \in Clients, e # c, PendingChild(e)', overtaken'[e] = {},
             req'[e].parent \in DOMAIN parents'
      PROVE  ParentVerdict(parents', req'[e].parent) = "ok"
  <2> DEFINE p == req[e].parent
  <2>1. PendingChild(e) /\ req'[e] = req[e] /\ overtaken[e] = {} /\ ~ Moved
    BY <1>1, <1>6, OthersOvertaken
  <2>2. p < nextId BY <2>1 DEF PendingChild, RequestsKnown
  <2>3. p \in DOMAIN parents' \cap DOMAIN parents BY <1>2, <1>3, <1>6, <2>1, <2>2
  <2>4. ParentVerdict(parents, p) = "ok" BY <2>1, <2>3 DEF StillOk
  <2>5. LinksKept(parents', parents) BY <1>1, <2>1, LinksOfStep
  <2>6. ParentVerdict(parents', p) = "ok" BY <2>3, <2>4, <2>5, ParentVerdictStays
  <2> QED BY <2>1, <2>6
<1> QED BY <1>4, <1>5, <1>6 DEF StillOk

\* The instance's copies of the operators of CategoryTree.
LEMMA AloneSame ==
    /\ \A table, p : Alone!ParentVerdict(table, p) = ParentVerdict(table, p)
    /\ \A table, id, p : Alone!ReparentVerdict(table, id, p) = ReparentVerdict(table, id, p)
    /\ \A table, id : Alone!Subtree(table, id) = Subtree(table, id)
<1>1. Alone!DepthLimit = DepthLimit BY DEF Alone!DepthLimit, DepthLimit
<1>2. ASSUME NEW first, NEW step, NEW n PROVE Alone!Levels(first, step, n) = Levels(first, step, n)
  BY DEF Alone!Levels, Levels
<1>3. ASSUME NEW table PROVE Alone!ParentsOf(table) = ParentsOf(table)
                             /\ Alone!ChildrenOf(table) = ChildrenOf(table)
  BY DEF Alone!ParentsOf, ParentsOf, Alone!ChildrenOf, ChildrenOf
<1>4. ASSUME NEW table, NEW p PROVE Alone!AncestorChain(table, p) = AncestorChain(table, p)
                                    /\ Alone!DescendantChain(table, p) = DescendantChain(table, p)
  BY <1>1, <1>2, <1>3 DEF Alone!AncestorChain, AncestorChain, Alone!DescendantChain, DescendantChain
<1>5. ASSUME NEW chain PROVE Alone!ChainDepth(chain) = ChainDepth(chain)
  BY <1>1 DEF Alone!ChainDepth, ChainDepth
<1>6. ASSUME NEW chain, NEW id PROVE Alone!Contains(chain, id) <=> Contains(chain, id)
  BY DEF Alone!Contains, Contains
<1>7. ASSUME NEW table, NEW id PROVE Alone!SubtreeHeight(table, id) = SubtreeHeight(table, id)
  BY <1>4, <1>5 DEF Alone!SubtreeHeight, SubtreeHeight
<1>8. ASSUME NEW table, NEW id, NEW p PROVE Alone!JoinedDepth(table, id, p) = JoinedDepth(table, id, p)
  BY <1>4, <1>5 DEF Alone!JoinedDepth, JoinedDepth
<1>9. ASSUME NEW table, NEW p PROVE Alone!ParentVerdict(table, p) = ParentVerdict(table, p)
  BY <1>4, <1>5 DEF Alone!ParentVerdict, ParentVerdict
<1>10. ASSUME NEW table, NEW id, NEW p
       PROVE  Alone!ReparentVerdict(table, id, p) = ReparentVerdict(table, id, p)
  BY <1>4, <1>6, <1>7, <1>8 DEF Alone!ReparentVerdict, ReparentVerdict
<1>11. ASSUME NEW table, NEW id PROVE Alone!Subtree(table, id) = Subtree(table, id)
  BY DEF Alone!Subtree, Subtree, Alone!ClosedUnderChildren, ClosedUnderChildren
<1> QED BY <1>9, <1>10, <1>11

\* One step: the tree changes as it would alone, or something overtook it.
LEMMA AloneStep ==
    ASSUME IInv, IInv', RequestsKnown, ParentsPresent, \A e \in Clients : StillOk(e),
           NEW c \in Clients, Step(c), overtaken[c] = {}
    PROVE  UNCHANGED parents \/ Alone!EditsNext
<1>1. TableStep(c) /\ TreeStep(c) BY StepShape, StepOfTree
<1>2. /\ NoParent \notin DOMAIN parents /\ NoParent \notin Ids
      /\ DOMAIN parents = DOMAIN cat /\ DOMAIN cat \subseteq Ids /\ nextId \notin DOMAIN cat
  BY IdsAreNotNull
<1>3. CASE Same BY <1>3 DEF Same
<1>4. CASE Leafed(c)
  <2> DEFINE p == req[c].parent
  <2>1. /\ pc[c] = "write" /\ req[c] \in Creates /\ p \in DOMAIN parents \cup {NoParent}
        /\ parents' = WithLeaf(parents, nextId, p)
    BY <1>4 DEF Leafed
  <2>2. nextId \in Ids \ DOMAIN parents
    <3>1. nextId \in DOMAIN parents' BY <2>1 DEF WithLeaf
    <3>2. DOMAIN parents' = DOMAIN cat' BY DEF parents
    <3>3. DOMAIN cat' \subseteq Ids BY DEF IInv, TypeOK
    <3> QED BY <1>2, <3>1, <3>2, <3>3
  <2>3. p # NoParent => ParentVerdict(parents, p) = "ok"
    <3> SUFFICES ASSUME p # NoParent PROVE ParentVerdict(parents, p) = "ok" OBVIOUS
    <3>1. p \in DOMAIN parents /\ p \in Ids BY <1>2, <2>1
    <3> QED BY <2>1, <3>1 DEF StillOk, PendingChild
  <2>4. parents' = Alone!Hung(nextId, p) BY <2>1 DEF Alone!Hung, WithLeaf
  <2>5. p \in Ids \cup {NoParent} BY <1>2, <2>1
  <2> HIDE DEF p
  <2>6. Alone!Create BY <2>2, <2>3, <2>4, <2>5, AloneSame DEF Alone!Create
  <2> QED BY <2>6 DEF Alone!EditsNext
<1>5. CASE MovedBy(c)
  <2> DEFINE id == req[c].id
  <2> DEFINE p == req[c].parent
  <2>1. /\ PendingMove(c) /\ id \in DOMAIN parents /\ p \in DOMAIN parents
        /\ parents' = Rehung(parents, id, p)
    BY <1>5 DEF MovedBy
  <2>2. ReparentVerdict(parents, id, p) = "ok" BY <2>1 DEF StillOk
  <2>3. parents' = Alone!Hung(id, p)
    <3>1. DOMAIN parents \cup {id} = DOMAIN parents BY <2>1
    <3> HIDE DEF id, p
    <3> QED BY <2>1, <3>1 DEF Alone!Hung, Rehung
  <2>4. p \in Ids BY <1>2, <2>1
  <2> HIDE DEF id, p
  <2>5. Alone!Move BY <2>1, <2>2, <2>3, <2>4, AloneSame DEF Alone!Move
  <2> QED BY <2>5 DEF Alone!EditsNext
<1>6. CASE \E id : Detached(id)
  <2>1. PICK id : Detached(id) BY <1>6
  <2>2. id \in DOMAIN parents /\ parents' = Rehung(parents, id, NoParent) BY <2>1 DEF Detached
  <2>3. ReparentVerdict(parents, id, NoParent) = "ok" BY DEF ReparentVerdict
  <2>4. parents' = Alone!Hung(id, NoParent)
    <3>1. DOMAIN parents \cup {id} = DOMAIN parents BY <2>2
    <3> QED BY <2>2, <3>1 DEF Alone!Hung, Rehung
  <2>5. Alone!Move BY <2>2, <2>3, <2>4, AloneSame DEF Alone!Move
  <2> QED BY <2>5 DEF Alone!EditsNext
<1>7. CASE \E id : PrunedAt(id)
  <2>1. PICK id : PrunedAt(id) BY <1>7
  <2>2. parents' = Pruned(parents, id) BY <2>1 DEF PrunedAt
  <2>3. CASE id \in DOMAIN parents
    <3>1. parents' = [x \in DOMAIN parents \ Alone!Subtree(parents, id) |-> parents[x]]
      BY <2>2, AloneSame DEF Pruned
    <3>2. Alone!Delete BY <2>3, <3>1 DEF Alone!Delete
    <3> QED BY <3>2 DEF Alone!EditsNext
  \* The row is gone already: nothing more goes.
  <2>4. CASE id \notin DOMAIN parents
    <3>1. Subtree(parents, id) = {} BY <2>4, SubtreeOfNothing
    <3>2. parents = [x \in DOMAIN parents |-> parents[x]] BY DEF parents
    <3>3. DOMAIN parents \ Subtree(parents, id) = DOMAIN parents BY <3>1
    <3>4. Pruned(parents, id) = parents BY <3>2, <3>3 DEF Pruned
    <3> QED BY <2>2, <3>4
  <2> QED BY <2>3, <2>4
<1> QED BY <1>1, <1>3, <1>4, <1>5, <1>6, <1>7 DEF TreeStep

\* What a request of create_category, update_category or delete_category does
\* to the tree is what it would have done alone, unless a change that matters
\* to its validation came between that and its commit, whatever the table and
\* whatever raced before.
THEOREM AloneUnlessOvertaken == RaceSpec => AsIfAloneUnlessOvertaken
<1> DEFINE OInv == \A c \in Clients : StillOk(c)
<1> DEFINE A == \/ UNCHANGED parents
                \/ Alone!EditsNext
                \/ \E c \in Clients : pc[c] = "write" /\ pc'[c] = "invalidate" /\ overtaken[c] # {}
<1>1. RaceSpec => Spec
  <2>1. [RaceNext]_<<vars, historyVars>> => [Next]_vars BY DEF RaceNext, Next, vars
  <2> QED BY <2>1, PTL DEF RaceSpec, RaceInit, Spec
<1>2. RaceSpec => []ParentsPresent BY <1>1, ReferencesKept, PTL
<1>3. RaceInit => OInv
  BY DEF RaceInit, Init, StillOk, PendingMove, PendingChild
<1>4. ASSUME RInv, ParentsPresent, OInv, RaceNext PROVE OInv'
  BY <1>4, OkStep DEF RaceNext, RInv
<1>5. ASSUME OInv, UNCHANGED <<vars, historyVars>> PROVE OInv'
  <2>1. UNCHANGED <<cat, pc, req, overtaken>> BY <1>5 DEF vars, historyVars
  <2>2. UNCHANGED parents BY <2>1 DEF parents
  <2> QED BY <1>5, <2>1, <2>2 DEF StillOk, PendingMove, PendingChild
<1>6. RaceSpec => []OInv
  <2> HIDE DEF OInv
  <2>1. RInv /\ ParentsPresent /\ OInv /\ [RaceNext]_<<vars, historyVars>> => OInv'
    BY <1>4, <1>5
  <2> QED BY <1>2, <1>3, <2>1, SpecRInv, PTL DEF RaceSpec
<1>7. ASSUME RInv, RInv', ParentsPresent, OInv, NEW c \in Clients, Step(c) PROVE A
  <2>1. CASE overtaken[c] = {} BY <1>7, <2>1, AloneStep DEF RInv
  <2>2. CASE overtaken[c] # {}
    <3>1. TableStep(c) BY <1>7, StepShape DEF RInv
    <3>2. CASE UNCHANGED cat BY <3>2 DEF parents
    <3>3. CASE pc[c] = "write" /\ pc'[c] = "invalidate" BY <2>2, <3>3
    <3> QED BY <3>1, <3>2, <3>3 DEF TableStep, Idled, Inserted, Updated, Deleted, Stores
  <2> QED BY <2>1, <2>2
<1>8. RInv /\ RInv' /\ ParentsPresent /\ OInv /\ [RaceNext]_<<vars, historyVars>>
        => [A]_<<vars, historyVars>>
  BY <1>7 DEF RaceNext
<1> HIDE DEF A, OInv
<1>9. RaceSpec => [][A]_<<vars, historyVars>> BY <1>2, <1>6, <1>8, SpecRInv, PTL DEF RaceSpec
<1> QED BY <1>9 DEF A, AsIfAloneUnlessOvertaken
=============================================================================
