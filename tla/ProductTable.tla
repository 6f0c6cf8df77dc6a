---------------------------- MODULE ProductTable ----------------------------
(***************************************************************************)
(* The product table as its schema promises it: rows that come, change and *)
(* go one transaction at a time, each SKU once, no row under a category    *)
(* that is gone.  Requests, sessions and answers are in ProductCatalog,    *)
(* which implements this module; the readers are in CatalogSearch, which   *)
(* runs against it.                                                        *)
(*                                                                         *)
(* A row keeps the columns that differ in kind: a unique one (sku), one    *)
(* that searches compare and that is NOT NULL (price; title and the others *)
(* behave like it), and the foreign key.                                   *)
(***************************************************************************)
EXTENDS Integers, FiniteSets

CONSTANTS
    Ids,        \* bound: the ids the sequence yields
    Skus,
    Prices,
    Categories, \* the category ids that exist at the start
    NoCategory  \* category_id IS NULL

ASSUME IdsAssumption == IsFiniteSet(Ids) /\ Ids \subseteq Int
ASSUME NoCategoryAssumption == NoCategory \notin Categories

VARIABLES
    product,    \* the committed rows: id -> [sku, price, category]
    spent,      \* ids drawn so far, by INSERTs that failed too
    live        \* the categories that exist

tableVars == <<product, spent, live>>

Rows == [sku : Skus, price : Prices, category : Categories \cup {NoCategory}]

TableTypeOK ==
    /\ \E ids \in SUBSET Ids : product \in [ids -> Rows]
    /\ spent \in SUBSET Ids
    /\ DOMAIN product \subseteq spent
    /\ live \in SUBSET Categories

TableInit ==
    /\ product = [id \in {} |-> 0]
    /\ spent = {}
    /\ live = Categories

Allowed(id, row) ==
    /\ \A x \in DOMAIN product \ {id} : product[x].sku # row.sku
    /\ row.category \in live \cup {NoCategory}

Put(id, row) ==
    product' = [x \in DOMAIN product \cup {id} |-> IF x = id THEN row ELSE product[x]]

\* Fault: ids are not drawn from a sequence.
FaultyInsert(id, row) ==
    /\ id \notin DOMAIN product
    /\ Allowed(id, row)
    /\ Put(id, row)
    /\ UNCHANGED <<spent, live>>

\* Two INSERTs may commit in the other order than they drew their ids.
Insert(id, row) ==
    /\ id \notin spent
    /\ Allowed(id, row)
    /\ Put(id, row)
    /\ spent' = spent \cup {id}
    /\ UNCHANGED live

\* An INSERT that fails still uses its id up.
Burn(id) ==
    /\ id \notin spent
    /\ spent' = spent \cup {id}
    /\ UNCHANGED <<product, live>>

Change(id, row) ==
    /\ id \in DOMAIN product
    /\ Allowed(id, row)
    /\ Put(id, row)
    /\ UNCHANGED <<spent, live>>

Remove(id) ==
    /\ product' = [x \in DOMAIN product \ {id} |-> product[x]]
    /\ UNCHANGED <<spent, live>>

Orphaned(row, gone) ==
    IF row.category \in gone THEN [row EXCEPT !.category = NoCategory] ELSE row

\* A category is deleted with its subtree; ON DELETE SET NULL goes with it.
DropCategories(gone) ==
    /\ live' = live \ gone
    /\ product' = [x \in DOMAIN product |-> Orphaned(product[x], gone)]
    /\ UNCHANGED spent

TableNext ==
    \/ \E id \in Ids, row \in Rows : Insert(id, row) \/ Change(id, row)
    \/ \E id \in Ids : Burn(id) \/ Remove(id)
    \/ \E gone \in SUBSET live : DropCategories(gone)

TableSpec == TableInit /\ [][TableNext]_tableVars
=============================================================================
