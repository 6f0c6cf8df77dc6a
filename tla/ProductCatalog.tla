--------------------------- MODULE ProductCatalog ---------------------------
(***************************************************************************)
(* The handlers of app/api/products.py that write, run by concurrent       *)
(* clients while categories are being deleted.                             *)
(*                                                                         *)
(* As in CategoryService: each client's request is one coroutine with one  *)
(* session, pc[c] names the await where it stands, a SELECT reads what is  *)
(* committed, and flush + commit is one step.                              *)
(***************************************************************************)
EXTENDS Integers, FiniteSets

CONSTANTS
    Clients,    \* requests in flight at once
    Ids,        \* bound: the ids the sequence yields
    Skus,
    Prices,
    Categories, \* the category ids that exist at the start
    NoCategory, \* category_id null
    Null,       \* null in a field whose column is NOT NULL
    Unset       \* a field the PATCH body leaves out

ASSUME ClientsAssumption == IsFiniteSet(Clients) /\ IsFiniteSet(Ids)
ASSUME ValuesAssumption ==
    /\ NoCategory \notin Categories
    /\ Null \notin Skus \cup Prices
    /\ Unset \notin Skus \cup Prices \cup Categories \cup {NoCategory, Null}

VARIABLES
    product,    \* the committed rows: id -> [sku, price, category]
    spent,      \* ids drawn from the sequence so far
    live,       \* the categories that exist
    pc,         \* where each client's request stands
    req,        \* the request of each client
    dirty,      \* the columns its flush will write
    reply       \* the answer that the last step gave, if it gave one

tableVars == <<product, spent, live>>
vars == <<tableVars, pc, req, dirty, reply>>

-----------------------------------------------------------------------------
CategoryIds == Categories \cup {NoCategory}
Rows == [sku : Skus, price : Prices, category : CategoryIds]
Fields == {"sku", "price", "category"}

Creates == [op : {"create"}, sku : Skus, price : Prices, category : CategoryIds]

\* ProductUpdate accepts null for sku and price; price shows what comes of it.
Updates == [op : {"update"}, id : Ids, sku : Skus \cup {Unset},
            price : Prices \cup {Null, Unset}, category : CategoryIds \cup {Unset}]
Deletes == [op : {"delete"}, id : Ids]

NoRequest == [op |-> "none"]
NoReply == [status |-> 0, cause |-> "none"]

Causes == {"none", "row_gone", "null", "duplicate", "category_gone", "database"}

TypeOK ==
    /\ \E ids \in SUBSET Ids : product \in [ids -> Rows]
    /\ spent \in SUBSET Ids
    /\ DOMAIN product \subseteq spent
    /\ live \in SUBSET Categories
    /\ pc \in [Clients -> {"idle", "write"}]
    /\ req \in [Clients -> Creates \cup Updates \cup Deletes \cup {NoRequest}]
    /\ dirty \in [Clients -> SUBSET Fields]
    /\ reply \in [status : {0, 200, 201, 204, 404, 409, 500}, cause : Causes]

Init ==
    /\ product = [id \in {} |-> 0]
    /\ spent = {}
    /\ live = Categories
    /\ pc = [c \in Clients |-> "idle"]
    /\ req = [c \in Clients |-> NoRequest]
    /\ dirty = [c \in Clients |-> {}]
    /\ reply = NoReply

-----------------------------------------------------------------------------
Respond(c, status, cause) ==
    /\ pc' = [pc EXCEPT ![c] = "idle"]
    /\ req' = [req EXCEPT ![c] = NoRequest]
    /\ dirty' = [dirty EXCEPT ![c] = {}]
    /\ reply' = [status |-> status, cause |-> cause]

Proceed(c, r, columns) ==
    /\ pc' = [pc EXCEPT ![c] = "write"]
    /\ req' = [req EXCEPT ![c] = r]
    /\ dirty' = [dirty EXCEPT ![c] = columns]
    /\ reply' = NoReply

Fresh == Ids \ spent
PendingCreates == {c \in Clients : req[c].op = "create"}

\* POST /products: nothing is read before flush.  The second conjunct bounds
\* the ids drawn.
BeginCreate(c) ==
    /\ pc[c] = "idle"
    /\ Cardinality(PendingCreates) < Cardinality(Fresh)
    /\ \E r \in Creates : Proceed(c, r, {})
    /\ UNCHANGED tableVars

\* Fault: what the body leaves out counts as assigned.
FaultyAssigned(r, row) == {f \in Fields : r[f] # row[f]}

\* The attributes that differ from the row loaded; no other column is written.
Assigned(r, row) == {f \in Fields : r[f] # Unset /\ r[f] # row[f]}

\* PATCH /products/{id} up to session.get's answer.  A client names ids it was
\* given; they may be gone by now.
BeginUpdate(c) ==
    /\ pc[c] = "idle"
    /\ \E r \in Updates :
          /\ r.id \in spent
          /\ IF r.id \in DOMAIN product
             THEN Proceed(c, r, Assigned(r, product[r.id]))
             ELSE Respond(c, 404, "row_gone")
    /\ UNCHANGED tableVars

\* DELETE /products/{id} up to session.get's answer.
BeginDelete(c) ==
    /\ pc[c] = "idle"
    /\ \E r \in Deletes :
          /\ r.id \in spent
          /\ IF r.id \in DOMAIN product
             THEN Proceed(c, r, {})
             ELSE Respond(c, 404, "row_gone")
    /\ UNCHANGED tableVars

-----------------------------------------------------------------------------
(* The constraints: NOT NULL, then the unique index, then the foreign key.  *)

\* Fault: SKUs are compared when a product is inserted, not when it changes.
FaultySkuTaken(id, sku) ==
    id \notin DOMAIN product /\ \E x \in DOMAIN product : product[x].sku = sku

SkuTaken(id, sku) == \E x \in DOMAIN product \ {id} : product[x].sku = sku

\* Fault: no foreign key; the category was looked up when the request began.
FaultyCategoryPresent(category) == TRUE

CategoryPresent(category) == category \in live \cup {NoCategory}

Violation(id, row) ==
    IF row.price = Null THEN "null"
    ELSE IF SkuTaken(id, row.sku) THEN "duplicate"
    ELSE IF ~ CategoryPresent(row.category) THEN "category_gone"
    ELSE "none"

\* The end of flush + commit: the row is in, or the transaction is rolled back
\* and every IntegrityError answers 409, "SKU must be unique".
CommitRow(c, id, row, status) ==
    IF Violation(id, row) = "none"
    THEN /\ product' = [x \in DOMAIN product \cup {id} |->
                           IF x = id THEN row ELSE product[x]]
         /\ Respond(c, status, "none")
    ELSE /\ UNCHANGED product
         /\ Respond(c, 409, Violation(id, row))

\* Fault: a deleted product's id is drawn again.
FaultyInsertProduct(c) ==
    /\ pc[c] = "write" /\ req[c].op = "create"
    /\ \E id \in Ids \ DOMAIN product :
          /\ spent' = spent \cup {id}
          /\ CommitRow(c, id, [sku |-> req[c].sku, price |-> req[c].price,
                               category |-> req[c].category], 201)
    /\ UNCHANGED live

\* Of two INSERTs the later one to draw its id may be the first to commit.
InsertProduct(c) ==
    /\ pc[c] = "write" /\ req[c].op = "create"
    /\ \E id \in Fresh :
          /\ spent' = spent \cup {id}
          /\ CommitRow(c, id, [sku |-> req[c].sku, price |-> req[c].price,
                               category |-> req[c].category], 201)
    /\ UNCHANGED live

\* Fault: model_dump() without exclude_unset: an absent category_id is NULL.
FaultyWrittenRow(r, columns) ==
    LET written(f) == IF f \in columns THEN r[f] ELSE product[r.id][f]
    IN  [sku |-> written("sku"), price |-> written("price"),
         category |-> IF r.category = Unset THEN NoCategory ELSE written("category")]

WrittenRow(r, columns) ==
    LET written(f) == IF f \in columns THEN r[f] ELSE product[r.id][f]
    IN  [sku |-> written("sku"), price |-> written("price"), category |-> written("category")]

\* updated_at always changes, so an UPDATE is always sent.  When it matches no
\* row the session raises StaleDataError, which the handler does not catch.
UpdateProduct(c) ==
    /\ pc[c] = "write" /\ req[c].op = "update"
    /\ IF req[c].id \in DOMAIN product
       THEN CommitRow(c, req[c].id, WrittenRow(req[c], dirty[c]), 200)
       ELSE UNCHANGED product /\ Respond(c, 500, "row_gone")
    /\ UNCHANGED <<spent, live>>

\* A row already gone is no error.
DeleteProduct(c) ==
    /\ pc[c] = "write" /\ req[c].op = "delete"
    /\ product' = [x \in DOMAIN product \ {req[c].id} |-> product[x]]
    /\ Respond(c, 204, "none")
    /\ UNCHANGED <<spent, live>>

\* Any other database error in flush or commit (the lock cycle of a PATCH with
\* a category's delete, a lost connection) escapes the handler; get_session
\* rolls back.
FlushFails(c) ==
    /\ pc[c] = "write"
    /\ Respond(c, 500, "database")
    /\ UNCHANGED tableVars

\* The worker dies or the request is cancelled before commit.
Abandon(c) ==
    /\ pc[c] = "write"
    /\ Respond(c, 0, "none")
    /\ UNCHANGED tableVars

Orphaned(row, gone) ==
    IF row.category \in gone THEN [row EXCEPT !.category = NoCategory] ELSE row

\* DELETE /categories/{id}: a category goes with its subtree, and the products
\* that were in it stay, without a category.
DropCategories ==
    /\ \E gone \in SUBSET live \ {{}} :
          /\ live' = live \ gone
          /\ product' = [x \in DOMAIN product |-> Orphaned(product[x], gone)]
    /\ reply' = NoReply
    /\ UNCHANGED <<spent, pc, req, dirty>>

Step(c) ==
    \/ BeginCreate(c) \/ BeginUpdate(c) \/ BeginDelete(c)
    \/ InsertProduct(c) \/ UpdateProduct(c) \/ DeleteProduct(c)
    \/ FlushFails(c) \/ Abandon(c)

Next == DropCategories \/ \E c \in Clients : Step(c)

Spec == Init /\ [][Next]_vars

-----------------------------------------------------------------------------
(* Properties. *)

\* No two products share a SKU, in whatever order concurrent creates and
\* PATCHes commit (the handlers leave it to the constraint and the 409).
SkusUnique ==
    \A x, y \in DOMAIN product : product[x].sku = product[y].sku => x = y

\* No product names a category that is gone: not by the delete itself, not by
\* a PATCH or a create that was under way when the category was deleted.
CategoriesExist ==
    \A x \in DOMAIN product : product[x].category \in live \cup {NoCategory}

\* app/schemas/product.py: "fields omitted from the JSON body are left
\* untouched".  Also when another client changed them, or a category's delete
\* cleared category_id, after the handler loaded the row.
OmittedFieldsKept ==
    [][\A c \in Clients :
         pc[c] = "write" /\ req[c].op = "update" /\ pc'[c] = "idle" /\ reply'.status = 200 =>
            \A f \in Fields :
                req[c][f] = Unset => product'[req[c].id][f] = product[req[c].id][f]]_vars

\* All the table ever undergoes is what ProductTable allows: rows inserted
\* under fresh ids, changed, removed, and orphaned when their category goes;
\* a request that fails or dies half-way leaves the table as it was.
Table == INSTANCE ProductTable

ImplementsTable == Table!TableSpec
=============================================================================
