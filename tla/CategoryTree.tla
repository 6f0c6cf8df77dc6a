---------------------------- MODULE CategoryTree ----------------------------
(***************************************************************************)
(* The queries that app/services/category_service.py sends to the          *)
(* categories table, as operators on a snapshot of that table.             *)
(*                                                                         *)
(* A snapshot is a function par whose domain is the set of ids of the live *)
(* rows; par[x] is the parent_id of row x, NoParent for SQL's NULL.        *)
(* Nothing is assumed about par: it may hold a cycle, and a row may name a *)
(* parent that is not there, since a query runs on whatever is committed.  *)
(***************************************************************************)
EXTENDS Integers, FiniteSets

CONSTANTS
    MaxDepth,   \* MAX_CATEGORY_DEPTH
    NoParent    \* parent_id IS NULL

ASSUME MaxDepthAssumption == MaxDepth \in Nat \ {0}

-----------------------------------------------------------------------------
(* A recursive CTE, depth by depth: Levels(first, step, n)[k] is the set   *)
(* of ids in the rows of depth k.                                          *)

Levels(first, step, n) ==
    LET level[k \in 1..n] == IF k = 1 THEN first ELSE step[level[k - 1]]
    IN  level

ParentsOf(par) ==
    [S \in SUBSET DOMAIN par |-> {x \in DOMAIN par : \E y \in S : par[y] = x}]

ChildrenOf(par) ==
    [S \in SUBSET DOMAIN par |-> {x \in DOMAIN par : par[x] \in S}]

\* Every caller bounds both walks at one row more than the allowed depth.
DepthLimit == MaxDepth + 1

AncestorChain(par, start) ==
    Levels({start} \cap DOMAIN par, ParentsOf(par), DepthLimit)

DescendantChain(par, start) ==
    Levels({start} \cap DOMAIN par, ChildrenOf(par), DepthLimit)

\* Fault: only the candidate parent is compared, not its ancestors.
FaultyContains(chain, id) == id \in chain[1]

\* Fault: the candidate parent itself is not compared.
FaultyContainsAbove(chain, id) == \E k \in DOMAIN chain \ {1} : id \in chain[k]

Contains(chain, id) == \E k \in DOMAIN chain : id \in chain[k]

\* SELECT max(depth): 0 stands for NULL, the answer when there is no row.
ChainDepth(chain) ==
    CHOOSE d \in 0..DepthLimit :
        /\ d # 0 => chain[d] # {}
        /\ \A k \in (d + 1)..DepthLimit : chain[k] = {}

\* Fault: the moved category counts for one row, whatever hangs under it.
FaultySubtreeHeight(par, id) == 1

\* coalesce(max(depth), 1)
SubtreeHeight(par, id) ==
    LET h == ChainDepth(DescendantChain(par, id)) IN IF h = 0 THEN 1 ELSE h

-----------------------------------------------------------------------------
(* The verdicts of validate_category_parent and validate_category_reparent, *)
(* each computed by one statement on one snapshot.                          *)

Verdicts == {"ok", "parent_not_found", "cycle_detected", "depth_exceeded"}

\* Fault: one level is lost, the new category counted twice.
FaultyParentVerdict(par, p) ==
    LET depth == ChainDepth(AncestorChain(par, p))
    IN  IF depth = 0 THEN "parent_not_found"
        ELSE IF depth + 1 >= MaxDepth THEN "depth_exceeded"
        ELSE "ok"

ParentVerdict(par, p) ==
    LET depth == ChainDepth(AncestorChain(par, p))
    IN  IF depth = 0 THEN "parent_not_found"
        ELSE IF depth >= MaxDepth THEN "depth_exceeded"
        ELSE "ok"

\* One SELECT over the product of the two chains: the row's own chain is
\* empty once the row is gone, the product with it, and max(depth) is NULL.
JoinedDepth(par, id, p) ==
    IF id \in DOMAIN par THEN ChainDepth(AncestorChain(par, p)) ELSE 0

ReparentVerdict(par, id, p) ==
    LET depth == JoinedDepth(par, id, p)
    IN  IF p = NoParent THEN "ok"
        ELSE IF depth = 0 THEN "parent_not_found"
        ELSE IF Contains(AncestorChain(par, p), id) THEN "cycle_detected"
        ELSE IF depth + SubtreeHeight(par, id) > MaxDepth THEN "depth_exceeded"
        ELSE "ok"

-----------------------------------------------------------------------------
(* category_subtree_cte, and what ON DELETE CASCADE removes: the ids that   *)
(* belong to every set that holds the root, if the root is there, and is    *)
(* closed under children.  Of a root that is gone nothing is found.         *)

ClosedUnderChildren(par, S) == \A x \in DOMAIN par : par[x] \in S => x \in S

\* Fault: the query does not recurse.
FaultySubtree(par, root) ==
    {x \in DOMAIN par : x = root \/ par[x] = root}

Subtree(par, root) ==
    {x \in DOMAIN par :
        \A S \in SUBSET DOMAIN par :
            {root} \cap DOMAIN par \subseteq S /\ ClosedUnderChildren(par, S) => x \in S}

\* The rows of category_subtree_cte at depth k, without a limit on the depth.
RowsAtDepth(par, root, k) ==
    Levels({root} \cap DOMAIN par, ChildrenOf(par), k)[k]

\* The query ends at the first depth without rows: UNION ALL drops none that was
\* found before.  If there is such a depth, it comes before there are more
\* depths than rows in the table.
SubtreeQueryEnds(par, root) ==
    RowsAtDepth(par, root, Cardinality(DOMAIN par) + 1) = {}

-----------------------------------------------------------------------------
(* What a well-formed table is.  d gives every row its depth, 1 for a root: *)
(* such a d exists exactly when every parent is there and no parent link    *)
(* is on a cycle.                                                           *)

IsDepth(par, d) ==
    \A x \in DOMAIN par :
        IF par[x] = NoParent
        THEN d[x] = 1
        ELSE par[x] \in DOMAIN par /\ d[x] = d[par[x]] + 1

ForestWithin(par, limit) == \E d \in [DOMAIN par -> 1..limit] : IsDepth(par, d)

WithinDepth(par) == ForestWithin(par, MaxDepth)

\* No set of rows in which every row has its parent: no cycle of links.
Acyclic(par) ==
    \A S \in (SUBSET DOMAIN par) \ {{}} : \E x \in S : par[x] \notin S
=============================================================================
