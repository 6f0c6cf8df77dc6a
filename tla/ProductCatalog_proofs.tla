------------------------ MODULE ProductCatalog_proofs ------------------------
(***************************************************************************)
(* ProductCatalog implements ProductTable, and what follows from that, for *)
(* any number of clients, products, SKUs, prices and categories.           *)
(*                                                                         *)
(* Standing says what the earlier steps of a request left in req and dirty *)
(* for its flush to write: without it a flush could store anything.        *)
(***************************************************************************)
EXTENDS ProductCatalog, TLAPS

Requests == Creates \cup Updates \cup Deletes

\* What the request of one client looks like at each await.
Standing(c) ==
    /\ pc[c] = "idle" => req[c] = NoRequest
    /\ pc[c] = "write" => req[c] \in Requests
    /\ req[c] \in Updates => \A f \in dirty[c] : req[c][f] # Unset

IInv == TypeOK /\ \A c \in Clients : Standing(c)

-----------------------------------------------------------------------------
(* Requests, told apart by op, and the rows they store. *)

LEMMA RequestKinds ==
    ASSUME NEW r \in Requests \cup {NoRequest}
    PROVE  /\ r \in Requests /\ r.op = "create" => r \in Creates
           /\ r \in Requests /\ r.op = "update" => r \in Updates
           /\ r \in Requests /\ r.op = "delete" => r \in Deletes
           /\ r \in Updates => r.op = "update"
           /\ r = NoRequest => r.op = "none"
<1> QED BY DEF Requests, Creates, Updates, Deletes, NoRequest

\* A row with its price possibly null, as a flush tries to write it.
Tried == [sku : Skus, price : Prices \cup {Null}, category : CategoryIds]

LEMMA TriedIsRow ==
    ASSUME NEW id, NEW row \in Tried, Violation(id, row) = "none"
    PROVE  row \in Rows /\ Table!Allowed(id, row)
<1>1. row.price # Null /\ ~ SkuTaken(id, row.sku) /\ CategoryPresent(row.category)
  BY DEF Violation
<1>2. row \in Rows BY <1>1 DEF Tried, Rows
<1> QED BY <1>1, <1>2 DEF SkuTaken, CategoryPresent, Table!Allowed

LEMMA WrittenIsTried ==
    ASSUME IInv, NEW c \in Clients, pc[c] = "write", req[c].op = "update",
           req[c].id \in DOMAIN product
    PROVE  WrittenRow(req[c], dirty[c]) \in Tried
<1>1. req[c] \in Updates BY RequestKinds DEF IInv, TypeOK, Standing, Requests
<1>2. \A f \in dirty[c] : req[c][f] # Unset BY <1>1 DEF IInv, Standing
<1>3. product[req[c].id] \in Rows BY DEF IInv, TypeOK
<1> DEFINE row == WrittenRow(req[c], dirty[c])
<1>4. row.sku \in Skus BY <1>1, <1>2, <1>3 DEF WrittenRow, Updates, Rows, Fields
<1>5. row.price \in Prices \cup {Null} BY <1>1, <1>2, <1>3 DEF WrittenRow, Updates, Rows, Fields
<1>6. row.category \in CategoryIds BY <1>1, <1>2, <1>3 DEF WrittenRow, Updates, Rows, Fields
<1> QED BY <1>4, <1>5, <1>6 DEF WrittenRow, Tried

-----------------------------------------------------------------------------
(* One step of one client, as far as clients go. *)

Statuses == {0, 200, 201, 204, 404, 409, 500}

ClientsOK ==
    /\ pc \in [Clients -> {"idle", "write"}]
    /\ req \in [Clients -> Creates \cup Updates \cup Deletes \cup {NoRequest}]
    /\ dirty \in [Clients -> SUBSET Fields]
    /\ reply \in [status : Statuses, cause : Causes]
    /\ \A c \in Clients : Standing(c)

LEMMA Responding ==
    ASSUME ClientsOK, NEW c \in Clients, NEW status \in Statuses, NEW cause \in Causes,
           Respond(c, status, cause)
    PROVE  ClientsOK'
<1>1. /\ (pc \in [Clients -> {"idle", "write"}])'
      /\ (req \in [Clients -> Creates \cup Updates \cup Deletes \cup {NoRequest}])'
      /\ (dirty \in [Clients -> SUBSET Fields])'
      /\ (reply \in [status : Statuses, cause : Causes])'
  BY DEF ClientsOK, Respond
<1>2. ASSUME NEW d \in Clients PROVE Standing(d)'
  <2>1. CASE d = c
    BY <2>1, RequestKinds DEF ClientsOK, Respond, Standing, NoRequest, Updates
  <2>2. CASE d # c BY <2>2 DEF ClientsOK, Respond, Standing
  <2> QED BY <2>1, <2>2
<1> QED BY <1>1, <1>2 DEF ClientsOK

LEMMA Proceeding ==
    ASSUME ClientsOK, NEW c \in Clients, NEW r \in Requests, NEW columns \in SUBSET Fields,
           r \in Updates => \A f \in columns : r[f] # Unset,
           Proceed(c, r, columns)
    PROVE  ClientsOK'
<1>1. /\ (pc \in [Clients -> {"idle", "write"}])'
      /\ (req \in [Clients -> Creates \cup Updates \cup Deletes \cup {NoRequest}])'
      /\ (dirty \in [Clients -> SUBSET Fields])'
  BY DEF ClientsOK, Proceed, Requests
<1>2. (reply \in [status : Statuses, cause : Causes])'
  BY DEF Proceed, NoReply, Statuses, Causes
<1>3. ASSUME NEW d \in Clients PROVE Standing(d)'
  <2>1. CASE d = c BY <2>1 DEF ClientsOK, Proceed, Standing
  <2>2. CASE d # c BY <2>2 DEF ClientsOK, Proceed, Standing
  <2> QED BY <2>1, <2>2
<1> QED BY <1>1, <1>2, <1>3 DEF ClientsOK

-----------------------------------------------------------------------------
(* One step, as far as the table goes. *)

\* Every step is one of ProductTable's or leaves the table alone, and keeps the
\* clients in order.
LEMMA StepShape ==
    ASSUME IInv, Next
    PROVE  ClientsOK' /\ (Table!TableNext \/ UNCHANGED tableVars)
<1>0. TypeOK /\ ClientsOK BY DEF IInv, TypeOK, ClientsOK, Statuses
<1>1. CASE DropCategories
  <2>1. PICK gone \in SUBSET live :
           /\ live' = live \ gone
           /\ product' = [x \in DOMAIN product |-> Orphaned(product[x], gone)]
           /\ spent' = spent
    BY <1>1 DEF DropCategories
  <2>2. \A x \in DOMAIN product :
           Orphaned(product[x], gone) = Table!Orphaned(product[x], gone)
    BY DEF Orphaned, Table!Orphaned
  <2>3. Table!DropCategories(gone) BY <2>1, <2>2 DEF Table!DropCategories
  <2>4. UNCHANGED <<pc, req, dirty>> /\ reply' = NoReply BY <1>1 DEF DropCategories
  <2>5. ClientsOK'
    BY <1>0, <2>4 DEF ClientsOK, Standing, NoReply, Statuses, Causes
  <2> QED BY <2>3, <2>5 DEF Table!TableNext
<1>2. ASSUME NEW c \in Clients, Step(c)
      PROVE  ClientsOK' /\ (Table!TableNext \/ UNCHANGED tableVars)
  <2>1. CASE BeginCreate(c)
    <3>1. PICK r \in Creates : Proceed(c, r, {}) BY <2>1 DEF BeginCreate
    <3> QED BY <1>0, <2>1, <3>1, Proceeding DEF BeginCreate, Requests
  <2>2. CASE BeginUpdate(c)
    <3>1. PICK r \in Updates :
             IF r.id \in DOMAIN product THEN Proceed(c, r, Assigned(r, product[r.id]))
             ELSE Respond(c, 404, "row_gone")
      BY <2>2 DEF BeginUpdate
    <3>2. CASE r.id \in DOMAIN product
      <4> DEFINE columns == Assigned(r, product[r.id])
      <4>1. columns \in SUBSET Fields /\ \A f \in columns : r[f] # Unset BY DEF Assigned
      <4>2. r \in Requests /\ Proceed(c, r, columns) BY <3>1, <3>2 DEF Requests
      <4> HIDE DEF columns
      <4>3. ClientsOK' BY <1>0, <4>1, <4>2, Proceeding
      <4> QED BY <2>2, <4>3 DEF BeginUpdate
    <3>3. CASE r.id \notin DOMAIN product
      BY <1>0, <2>2, <3>1, <3>3, Responding DEF BeginUpdate, Statuses, Causes
    <3> QED BY <3>2, <3>3
  <2>3. CASE BeginDelete(c)
    <3>1. PICK r \in Deletes : IF r.id \in DOMAIN product THEN Proceed(c, r, {})
                               ELSE Respond(c, 404, "row_gone")
      BY <2>3 DEF BeginDelete
    <3>2. CASE r.id \in DOMAIN product
      BY <1>0, <2>3, <3>1, <3>2, Proceeding DEF BeginDelete, Requests
    <3>3. CASE r.id \notin DOMAIN product
      BY <1>0, <2>3, <3>1, <3>3, Responding DEF BeginDelete, Statuses, Causes
    <3> QED BY <3>2, <3>3
  <2>4. CASE InsertProduct(c)
    <3> DEFINE row == [sku |-> req[c].sku, price |-> req[c].price,
                       category |-> req[c].category]
    <3>1. PICK id \in Fresh : spent' = spent \cup {id} /\ CommitRow(c, id, row, 201)
      BY <2>4 DEF InsertProduct
    <3>2. id \in Ids /\ id \notin spent /\ id \notin DOMAIN product /\ live' = live
      BY <1>0, <2>4 DEF Fresh, TypeOK, InsertProduct
    <3>3. req[c] \in Creates
      BY <1>0, <2>4, RequestKinds DEF InsertProduct, ClientsOK, Standing, Requests
    <3>4. row \in Tried BY <3>3 DEF Creates, Tried
    <3> HIDE DEF row
    <3>5. CASE Violation(id, row) = "none"
      <4>1. row \in Rows /\ Table!Allowed(id, row) BY <3>4, <3>5, TriedIsRow
      <4>2. product' = [x \in DOMAIN product \cup {id} |-> IF x = id THEN row ELSE product[x]]
            /\ Respond(c, 201, "none")
        BY <3>1, <3>5 DEF CommitRow
      <4>3. Table!Insert(id, row) BY <3>1, <3>2, <4>1, <4>2 DEF Table!Insert, Table!Put
      <4>4. ClientsOK' BY <1>0, <4>2, Responding DEF Statuses, Causes
      <4> QED BY <3>2, <4>1, <4>3, <4>4 DEF Table!TableNext, Table!Rows, Rows, CategoryIds
    <3>6. CASE Violation(id, row) # "none"
      <4>1. product' = product /\ Respond(c, 409, Violation(id, row))
        BY <3>1, <3>6 DEF CommitRow
      <4>2. Violation(id, row) \in Causes BY DEF Violation, Causes
      <4>3. Table!Burn(id) BY <3>1, <3>2, <4>1 DEF Table!Burn
      <4>4. ClientsOK' BY <1>0, <4>1, <4>2, Responding DEF Statuses
      <4> QED BY <3>2, <4>3, <4>4 DEF Table!TableNext
    <3> QED BY <3>5, <3>6
  <2>5. CASE UpdateProduct(c)
    <3>1. spent' = spent /\ live' = live BY <2>5 DEF UpdateProduct
    <3>2. CASE req[c].id \in DOMAIN product
      <4> DEFINE row == WrittenRow(req[c], dirty[c])
                 id == req[c].id
      <4>1. row \in Tried BY <2>5, <3>2, WrittenIsTried DEF UpdateProduct
      <4>2. CommitRow(c, id, row, 200) BY <2>5, <3>2 DEF UpdateProduct
      <4>3. id \in DOMAIN product /\ id \in Ids BY <1>0, <3>2 DEF TypeOK
      <4> HIDE DEF row, id
      <4>4. CASE Violation(id, row) = "none"
        <5>1. row \in Rows /\ Table!Allowed(id, row) BY <4>1, <4>4, TriedIsRow
        <5>2. product' = [x \in DOMAIN product \cup {id} |-> IF x = id THEN row ELSE product[x]]
              /\ Respond(c, 200, "none")
          BY <4>2, <4>4 DEF CommitRow
        <5>3. Table!Change(id, row) BY <3>1, <4>3, <5>1, <5>2 DEF Table!Change, Table!Put
        <5>4. ClientsOK' BY <1>0, <5>2, Responding DEF Statuses, Causes
        <5> QED BY <4>3, <5>1, <5>3, <5>4 DEF Table!TableNext, Table!Rows, Rows, CategoryIds
      <4>5. CASE Violation(id, row) # "none"
        <5>1. product' = product /\ Respond(c, 409, Violation(id, row))
          BY <4>2, <4>5 DEF CommitRow
        <5>2. Violation(id, row) \in Causes BY DEF Violation, Causes
        <5>3. ClientsOK' BY <1>0, <5>1, <5>2, Responding DEF Statuses
        <5> QED BY <3>1, <5>1, <5>3 DEF tableVars
      <4> QED BY <4>4, <4>5
    <3>3. CASE req[c].id \notin DOMAIN product
      <4>1. product' = product /\ Respond(c, 500, "row_gone") BY <2>5, <3>3 DEF UpdateProduct
      <4>2. ClientsOK' BY <1>0, <4>1, Responding DEF Statuses, Causes
      <4> QED BY <3>1, <4>1, <4>2 DEF tableVars
    <3> QED BY <3>2, <3>3
  <2>6. CASE DeleteProduct(c)
    <3> DEFINE id == req[c].id
    <3>1. id \in Ids
      BY <1>0, <2>6, RequestKinds DEF DeleteProduct, ClientsOK, Standing, Requests, Deletes
    <3>2. Table!Remove(id) BY <2>6 DEF DeleteProduct, Table!Remove
    <3>3. ClientsOK' BY <1>0, <2>6, Responding DEF DeleteProduct, Statuses, Causes
    <3> QED BY <3>1, <3>2, <3>3 DEF Table!TableNext
  <2>7. CASE FlushFails(c)
    BY <1>0, <2>7, Responding DEF FlushFails, Statuses, Causes
  <2>8. CASE Abandon(c)
    BY <1>0, <2>8, Responding DEF Abandon, Statuses, Causes
  <2> QED BY <1>2, <2>1, <2>2, <2>3, <2>4, <2>5, <2>6, <2>7, <2>8 DEF Step
<1> QED BY <1>1, <1>2 DEF Next

\* The rows stay rows under fresh ids.
TableOK ==
    /\ \E ids \in SUBSET Ids : product \in [ids -> Rows]
    /\ spent \in SUBSET Ids
    /\ DOMAIN product \subseteq spent
    /\ live \in SUBSET Categories

LEMMA TableTyped ==
    ASSUME TableOK, Table!TableNext
    PROVE  TableOK'
<1>0. PICK ids \in SUBSET Ids : product \in [ids -> Rows] BY DEF TableOK
<1>a. DOMAIN product = ids /\ ids \subseteq spent BY <1>0 DEF TableOK
<1>r. Table!Rows = Rows BY DEF Table!Rows, Rows, CategoryIds
<1>1. ASSUME NEW id \in Ids, NEW row \in Rows, Table!Insert(id, row) PROVE TableOK'
  <2>1. product' \in [ids \cup {id} -> Rows] BY <1>0, <1>1 DEF Table!Insert, Table!Put
  <2> QED BY <1>a, <1>1, <2>1 DEF Table!Insert, TableOK
<1>2. ASSUME NEW id \in Ids, NEW row \in Rows, Table!Change(id, row) PROVE TableOK'
  <2>1. product' \in [ids -> Rows] BY <1>0, <1>2 DEF Table!Change, Table!Put
  <2> QED BY <1>a, <1>2, <2>1 DEF Table!Change, TableOK
<1>3. ASSUME NEW id \in Ids, Table!Burn(id) PROVE TableOK'
  BY <1>0, <1>3 DEF Table!Burn, TableOK
<1>4. ASSUME NEW id \in Ids, Table!Remove(id) PROVE TableOK'
  <2>1. product' \in [ids \ {id} -> Rows] BY <1>0, <1>4 DEF Table!Remove
  <2> QED BY <1>a, <1>4, <2>1 DEF Table!Remove, TableOK
<1>5. ASSUME NEW gone \in SUBSET live, Table!DropCategories(gone) PROVE TableOK'
  <2>1. ASSUME NEW row \in Rows PROVE Table!Orphaned(row, gone) \in Rows
    BY DEF Table!Orphaned, Rows, CategoryIds
  <2>2. product' \in [ids -> Rows] BY <1>0, <1>5, <2>1 DEF Table!DropCategories
  <2> QED BY <1>a, <1>5, <2>2 DEF Table!DropCategories, TableOK
<1> QED BY <1>1, <1>2, <1>3, <1>4, <1>5, <1>r DEF Table!TableNext

LEMMA TypesKept ==
    ASSUME IInv, [Next]_vars
    PROVE  IInv' /\ [Table!TableNext]_tableVars
<1>0. TableOK /\ ClientsOK BY DEF IInv, TypeOK, TableOK, ClientsOK, Statuses
<1>1. CASE Next
  <2>1. ClientsOK' /\ (Table!TableNext \/ UNCHANGED tableVars) BY <1>1, StepShape
  <2>2. TableOK' BY <1>0, <2>1, TableTyped DEF TableOK, tableVars
  <2>3. IInv' BY <2>1, <2>2 DEF IInv, TypeOK, TableOK, ClientsOK, Statuses
  <2> QED BY <2>1, <2>3
<1>2. CASE UNCHANGED vars
  BY <1>2 DEF vars, tableVars, IInv, TypeOK, Standing
<1> QED BY <1>1, <1>2

LEMMA InitOK == ASSUME Init PROVE IInv
<1>1. TableOK
  <2>1. product \in [{} -> Rows] BY DEF Init
  <2>2. {} \in SUBSET Ids OBVIOUS
  <2> QED BY <2>1, <2>2 DEF Init, TableOK
<1>2. ClientsOK
  <2>1. reply \in [status : Statuses, cause : Causes]
    BY DEF Init, NoReply, Statuses, Causes
  <2>2. \A c \in Clients : Standing(c) BY DEF Init, Standing
  <2> QED BY <2>1, <2>2 DEF Init, ClientsOK
<1> QED BY <1>1, <1>2 DEF IInv, TypeOK, TableOK, ClientsOK, Statuses

THEOREM Invariant == Spec => []IInv
<1>1. Init => IInv BY InitOK
<1>2. IInv /\ [Next]_vars => IInv' BY TypesKept
<1> QED BY <1>1, <1>2, PTL DEF Spec

\* Every state of the catalog is well-typed; the rows are under drawn ids.
THEOREM TypeCorrect == Spec => []TypeOK
<1>1. IInv => TypeOK BY DEF IInv
<1> QED BY <1>1, Invariant, PTL

-----------------------------------------------------------------------------
\* The handlers implement the table: whatever the interleaving, the failures
\* and the deaths, the table undergoes only ProductTable's steps.
THEOREM TableImplemented == Spec => ImplementsTable
<1>1. Init => Table!TableInit BY DEF Init, Table!TableInit
<1>2. IInv /\ [Next]_vars => [Table!TableNext]_tableVars BY TypesKept
<1>3. UNCHANGED tableVars => UNCHANGED Table!tableVars BY DEF tableVars, Table!tableVars
<1>4. IInv /\ [Next]_vars => [Table!TableNext]_(Table!tableVars) BY <1>2, <1>3
<1> QED BY <1>1, <1>4, Invariant, PTL DEF Spec, ImplementsTable, Table!TableSpec

\* ProductTable's steps keep SKUs unique: Allowed looks at every other row.
LEMMA TableKeepsSkus ==
    ASSUME TableOK, SkusUnique, [Table!TableNext]_tableVars
    PROVE  SkusUnique'
<1>0. PICK ids \in SUBSET Ids : product \in [ids -> Rows] BY DEF TableOK
<1>1. ASSUME NEW id, NEW row, Table!Allowed(id, row), Table!Put(id, row) PROVE SkusUnique'
  BY <1>1 DEF Table!Allowed, Table!Put, SkusUnique
<1>2. ASSUME NEW gone, Table!DropCategories(gone) PROVE SkusUnique'
  <2>1. ASSUME NEW row \in Rows PROVE Table!Orphaned(row, gone).sku = row.sku
    BY DEF Table!Orphaned, Rows
  <2>2. DOMAIN product' = DOMAIN product
        /\ \A x \in DOMAIN product : product'[x] = Table!Orphaned(product[x], gone)
    BY <1>2 DEF Table!DropCategories
  <2>3. \A x \in DOMAIN product : product'[x].sku = product[x].sku
    BY <1>0, <2>1, <2>2
  <2> QED BY <2>2, <2>3 DEF SkusUnique
<1>3. ASSUME NEW id, Table!Remove(id) PROVE SkusUnique'
  BY <1>3 DEF Table!Remove, SkusUnique
<1>4. CASE UNCHANGED product BY <1>4 DEF SkusUnique
<1> QED BY <1>1, <1>2, <1>3, <1>4
      DEF Table!TableNext, Table!Insert, Table!Change, Table!Burn, tableVars

\* No two products ever share a SKU.
THEOREM SkusKept == Spec => []SkusUnique
<1>1. Init => SkusUnique BY DEF Init, SkusUnique
<1>2. IInv /\ SkusUnique /\ [Next]_vars => SkusUnique'
  <2>1. IInv => TableOK BY DEF IInv, TypeOK, TableOK
  <2> QED BY <2>1, TypesKept, TableKeepsSkus
<1> QED BY <1>1, <1>2, Invariant, PTL DEF Spec

\* ProductTable's steps keep category references: SET NULL goes with the drop.
LEMMA TableKeepsCategories ==
    ASSUME TableOK, CategoriesExist, [Table!TableNext]_tableVars
    PROVE  CategoriesExist'
<1>0. PICK ids \in SUBSET Ids : product \in [ids -> Rows] BY DEF TableOK
<1>1. ASSUME NEW id, NEW row, Table!Allowed(id, row), Table!Put(id, row), UNCHANGED live
      PROVE  CategoriesExist'
  BY <1>1 DEF Table!Allowed, Table!Put, CategoriesExist
<1>2. ASSUME NEW gone, Table!DropCategories(gone) PROVE CategoriesExist'
  <2>1. ASSUME NEW row \in Rows, row.category \in live \cup {NoCategory}
        PROVE  Table!Orphaned(row, gone).category \in (live \ gone) \cup {NoCategory}
    BY <2>1 DEF Table!Orphaned, Rows
  <2>2. live' = live \ gone /\ DOMAIN product' = DOMAIN product
        /\ \A x \in DOMAIN product : product'[x] = Table!Orphaned(product[x], gone)
    BY <1>2 DEF Table!DropCategories
  <2> QED BY <1>0, <2>1, <2>2 DEF CategoriesExist
<1>3. ASSUME NEW id, Table!Remove(id) PROVE CategoriesExist'
  BY <1>3 DEF Table!Remove, CategoriesExist
<1>4. CASE UNCHANGED <<product, live>> BY <1>4 DEF CategoriesExist
<1> QED BY <1>1, <1>2, <1>3, <1>4
      DEF Table!TableNext, Table!Insert, Table!Change, Table!Burn, tableVars

\* No product ever names a category that is gone.
THEOREM CategoriesKept == Spec => []CategoriesExist
<1>1. Init => CategoriesExist BY DEF Init, CategoriesExist
<1>2. IInv /\ CategoriesExist /\ [Next]_vars => CategoriesExist'
  <2>1. IInv => TableOK BY DEF IInv, TypeOK, TableOK
  <2> QED BY <2>1, TypesKept, TableKeepsCategories
<1> QED BY <1>1, <1>2, Invariant, PTL DEF Spec

-----------------------------------------------------------------------------
\* A PATCH writes no field that its body leaves out, for dirty holds only
\* fields that the body names.
THEOREM OmittedFieldsStay == Spec => OmittedFieldsKept
<1> DEFINE Kept(c) ==
      pc[c] = "write" /\ req[c].op = "update" /\ pc'[c] = "idle" /\ reply'.status = 200 =>
         \A f \in Fields :
             req[c][f] = Unset => product'[req[c].id][f] = product[req[c].id][f]
<1>1. ASSUME IInv, [Next]_vars, NEW c \in Clients PROVE Kept(c)
  <2> SUFFICES ASSUME pc[c] = "write", req[c].op = "update",
                      pc'[c] = "idle", reply'.status = 200,
                      NEW f \in Fields, req[c][f] = Unset
               PROVE  product'[req[c].id][f] = product[req[c].id][f]
    OBVIOUS
  <2>1. req[c] \in Updates BY <1>1, RequestKinds DEF IInv, TypeOK, Standing, Requests
  <2>2. f \notin dirty[c] BY <1>1, <2>1 DEF IInv, Standing
  <2>3. Next BY <1>1 DEF vars
  <2>4. ~ DropCategories BY <1>1 DEF DropCategories, NoReply
  <2>5. PICK d \in Clients : Step(d) BY <2>3, <2>4 DEF Next
  <2>6. d = c
    <3> SUFFICES ASSUME d # c PROVE FALSE OBVIOUS
    <3>1. \A status, cause : Respond(d, status, cause) => pc'[c] = pc[c]
      BY <1>1 DEF Respond, IInv, TypeOK
    <3>2. \A r, columns : Proceed(d, r, columns) => pc'[c] = pc[c]
      BY <1>1 DEF Proceed, IInv, TypeOK
    <3>3. \A id, row, status : CommitRow(d, id, row, status) => pc'[c] = pc[c]
      BY <3>1 DEF CommitRow
    <3>4. pc'[c] = pc[c]
      BY <2>5, <3>1, <3>2, <3>3 DEF Step, BeginCreate, BeginUpdate, BeginDelete,
            InsertProduct, UpdateProduct, DeleteProduct, FlushFails, Abandon
    <3> QED BY <3>4
  <2>7. UpdateProduct(c)
    BY <1>1, <2>5, <2>6 DEF Step, BeginCreate, BeginUpdate, BeginDelete, InsertProduct,
          DeleteProduct, FlushFails, Abandon, Respond
  <2>8. req[c].id \in DOMAIN product
        /\ product' = [x \in DOMAIN product \cup {req[c].id} |->
                         IF x = req[c].id THEN WrittenRow(req[c], dirty[c]) ELSE product[x]]
    BY <2>7 DEF UpdateProduct, CommitRow, Respond
  <2>9. product'[req[c].id] = WrittenRow(req[c], dirty[c]) BY <2>8
  <2>10. f \in {"sku", "price", "category"} BY DEF Fields
  <2> QED BY <2>2, <2>9, <2>10 DEF WrittenRow
<1>2. IInv /\ [Next]_vars => \A c \in Clients : Kept(c) BY <1>1
<1>3. IInv /\ [Next]_vars => [\A c \in Clients : Kept(c)]_vars BY <1>2
<1> QED BY <1>3, Invariant, PTL DEF Spec, OmittedFieldsKept
=============================================================================
