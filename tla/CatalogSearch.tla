--------------------------- MODULE CatalogSearch ---------------------------
(***************************************************************************)
(* search_products (app/services/product_service.py) and list_products     *)
(* (app/api/products.py), which read a page and a total in two statements, *)
(* each on its own snapshot of a product table that others change.         *)
(* list_categories is list_products over the other table.                  *)
(*                                                                         *)
(* A page is a set of ids with the attributes shown for each; ORDER BY id  *)
(* makes its order the order of the ids.                                   *)
(***************************************************************************)
EXTENDS ProductTable

CONSTANTS
    Readers,    \* requests in flight at once
    Limits,     \* page sizes asked for
    Offsets     \* offsets asked for

ASSUME PagingAssumption == Limits \subseteq Nat \ {0} /\ Offsets \subseteq Nat
ASSUME PricesAssumption == Prices \subseteq Nat

VARIABLES
    rpc,        \* the await at which each request stands
    query,      \* what it asks for
    shown,      \* the items as its session holds them: id -> attributes
    total,      \* the total it answers
    disturbed   \* history: the table changed since the request began

searchVars == <<rpc, query, shown, total, disturbed>>
vars == <<tableVars, searchVars>>

-----------------------------------------------------------------------------
CategoryIds == Categories \cup {NoCategory}

Between(low, high) == {price \in Prices : low <= price /\ price <= high}

\* categories is the answer of get_category_subtree_ids.  LookupContract lets
\* it be a list of the past, so any is possible; an empty one matches nothing.
\* Without category_id it is every category and none.
Searches ==
    {[kind |-> "search", prices |-> prices, categories |-> categories,
      limit |-> limit, offset |-> offset] :
        prices \in {Between(low, high) : low, high \in Prices} \ {{}},
        categories \in SUBSET Categories \cup {CategoryIds},
        limit \in Limits, offset \in Offsets}

Lists ==
    {[kind |-> "list", prices |-> Prices, categories |-> CategoryIds,
      limit |-> limit, offset |-> offset] : limit \in Limits, offset \in Offsets}

NoQuery == [kind |-> "none"]

Empty == [id \in {} |-> 0]

Accepts(q, row) == row.price \in q.prices /\ row.category \in q.categories

Matches(q) == {id \in DOMAIN product : Accepts(q, product[id])}

\* ORDER BY id
Rank(ids, id) == Cardinality({x \in ids : x < id})

\* LIMIT and OFFSET
Page(q) ==
    {id \in Matches(q) : /\ q.offset <= Rank(Matches(q), id)
                         /\ Rank(Matches(q), id) < q.offset + q.limit}

SearchTypeOK ==
    /\ TableTypeOK
    /\ rpc \in [Readers -> {"idle", "page", "total", "answered"}]
    /\ query \in [Readers -> Searches \cup Lists \cup {NoQuery}]
    /\ shown \in [Readers -> UNION {[ids -> Rows] : ids \in SUBSET Ids}]
    /\ total \in [Readers -> Nat]
    /\ disturbed \in [Readers -> BOOLEAN]

SearchInit ==
    /\ TableInit
    /\ rpc = [r \in Readers |-> "idle"]
    /\ query = [r \in Readers |-> NoQuery]
    /\ shown = [r \in Readers |-> Empty]
    /\ total = [r \in Readers |-> 0]
    /\ disturbed = [r \in Readers |-> FALSE]

-----------------------------------------------------------------------------
ReaderAt(r, step) == rpc' = [rpc EXCEPT ![r] = step]

Answer(r, items, count) ==
    /\ ReaderAt(r, "answered")
    /\ shown' = [shown EXCEPT ![r] = items]
    /\ total' = [total EXCEPT ![r] = count]

\* The request up to its first product query, the subtree lookup included.
\* (min_price above max_price is refused with 422 before that.)
Begin(r) ==
    /\ rpc[r] = "idle"
    /\ ReaderAt(r, "page")
    /\ \E q \in Searches \cup Lists : query' = [query EXCEPT ![r] = q]
    /\ UNCHANGED <<tableVars, shown, total, disturbed>>

\* Fault: a short page counts as the last one at any offset.
FaultyOnlyPage(q, page) == Cardinality(page) < q.limit

\* offset == 0 and len(records) < limit
OnlyPage(q, page) == q.offset = 0 /\ Cardinality(page) < q.limit

QueryPage(r) ==
    /\ rpc[r] = "page"
    /\ LET page == Page(query[r])
           items == [id \in page |-> product[id]]
       IN  IF OnlyPage(query[r], page)
           THEN Answer(r, items, Cardinality(page))
           ELSE /\ ReaderAt(r, "total")
                /\ shown' = [shown EXCEPT ![r] = items]
                /\ UNCHANGED total
    /\ UNCHANGED <<tableVars, query, disturbed>>

\* Fault: the first query's items, refreshed from the table.
FaultyReread(items, page) == [id \in DOMAIN items \cap DOMAIN product |-> product[id]]

\* The session's identity map: of a row it has loaded already, the instance
\* keeps the attributes it has.
Reread(items, page) ==
    [id \in page |-> IF id \in DOMAIN items THEN items[id] ELSE product[id]]

\* Fault: COUNT without the filters.
FaultyWindowTotal(q) == Cardinality(DOMAIN product)

\* COUNT(*) OVER (), a column of the page's rows: without a row, no count.
WindowTotal(q) == IF Page(q) = {} THEN 0 ELSE Cardinality(Matches(q))

\* search_products: page and count once more, in one statement.
QueryWindowed(r) ==
    /\ rpc[r] = "total" /\ query[r].kind = "search"
    /\ Answer(r, Reread(shown[r], Page(query[r])), WindowTotal(query[r]))
    /\ UNCHANGED <<tableVars, query, disturbed>>

\* list_products: a separate COUNT.
QueryCount(r) ==
    /\ rpc[r] = "total" /\ query[r].kind = "list"
    /\ Answer(r, shown[r], Cardinality(DOMAIN product))
    /\ UNCHANGED <<tableVars, query, disturbed>>

\* The session is closed: after the answer, or because the request died.
Close(r) ==
    /\ rpc[r] # "idle"
    /\ ReaderAt(r, "idle")
    /\ query' = [query EXCEPT ![r] = NoQuery]
    /\ shown' = [shown EXCEPT ![r] = Empty]
    /\ total' = [total EXCEPT ![r] = 0]
    /\ disturbed' = [disturbed EXCEPT ![r] = FALSE]
    /\ UNCHANGED tableVars

ReaderStep(r) ==
    Begin(r) \/ QueryPage(r) \/ QueryWindowed(r) \/ QueryCount(r) \/ Close(r)

\* Someone else's transaction.
TableStep ==
    /\ TableNext
    /\ disturbed' = [r \in Readers |-> disturbed[r] \/ rpc[r] \in {"page", "total"}]
    /\ UNCHANGED <<rpc, query, shown, total>>

SearchNext == TableStep \/ \E r \in Readers : ReaderStep(r)

SearchSpec == SearchInit /\ [][SearchNext]_vars

-----------------------------------------------------------------------------
(* Properties. *)

\* Every item of an answer satisfies the filters of its search as shown, also
\* when the product changed between the two queries and the identity map mixes
\* attributes of the first with the selection of the second.
ShownMatchesFilter ==
    \A r \in Readers : rpc[r] = "answered" =>
        \A id \in DOMAIN shown[r] : Accepts(query[r], shown[r][id])

\* A search's page and total belong together although others write between
\* the queries: at most limit items, and when there are any, the total reaches
\* past them exactly as far as further pages exist.
PageFitsTotal ==
    \A r \in Readers :
        LET count == Cardinality(DOMAIN shown[r])
            last == query[r].offset + count
        IN  rpc[r] = "answered" /\ query[r].kind = "search" /\ count > 0 =>
                /\ count <= query[r].limit
                /\ total[r] >= last
                /\ count < query[r].limit => total[r] = last

\* An answer given while nobody wrote is exact: the page in question with the
\* attributes stored, and as total the number of matches, unless the page is
\* beyond the last match.
ExactUndisturbed ==
    [][\A r \in Readers :
         rpc[r] # "answered" /\ rpc'[r] = "answered" /\ ~ disturbed[r] =>
            LET q == query[r] IN
            /\ shown'[r] = [id \in Page(q) |-> product[id]]
            /\ q.kind = "list" \/ Page(q) # {} => total'[r] = Cardinality(Matches(q))]_vars

\* app/services/product_service.py: "Return filtered products and total count".
TotalCountsMatches ==
    [][\A r \in Readers :
         rpc[r] # "answered" /\ rpc'[r] = "answered" /\ ~ disturbed[r] =>
            total'[r] = Cardinality(Matches(query[r]))]_vars
=============================================================================
