---------------------------- MODULE CategoryEdits ----------------------------
(***************************************************************************)
(* The category handlers one request at a time: what the verdicts of       *)
(* CategoryTree are worth when nothing comes between validation and        *)
(* commit.                                                                 *)
(***************************************************************************)
EXTENDS CategoryTree

CONSTANT Ids    \* the ids that the sequence may yield

ASSUME IdsAssumption == NoParent \notin Ids

VARIABLE par    \* parent_id of every live row

Hung(id, p) == [x \in DOMAIN par \cup {id} |-> IF x = id THEN p ELSE par[x]]

EditsInit == par = [id \in {} |-> NoParent]

Create ==
    \E id \in Ids \ DOMAIN par, p \in Ids \cup {NoParent} :
        /\ p # NoParent => ParentVerdict(par, p) = "ok"
        /\ par' = Hung(id, p)

Move ==
    \E id \in DOMAIN par, p \in Ids \cup {NoParent} :
        /\ ReparentVerdict(par, id, p) = "ok"
        /\ par' = Hung(id, p)

Delete ==
    \E id \in DOMAIN par :
        par' = [x \in DOMAIN par \ Subtree(par, id) |-> par[x]]

EditsNext == Create \/ Move \/ Delete

EditsSpec == EditsInit /\ [][EditsNext]_par

-----------------------------------------------------------------------------
(* Properties. *)

\* One at a time, the handlers keep every parent present, the links free of
\* cycles and every category within MAX_CATEGORY_DEPTH.
StaysWithinDepth == WithinDepth(par)

\* The verdicts are exact: a create or a move is refused if and only if it
\* would break that, although both walks stop one row past the limit.
VerdictsExact ==
    /\ \A id \in Ids \ DOMAIN par, p \in Ids :
          ParentVerdict(par, p) = "ok" <=> WithinDepth(Hung(id, p))
    /\ \A id \in DOMAIN par, p \in Ids \cup {NoParent} :
          ReparentVerdict(par, id, p) = "ok" <=> WithinDepth(Hung(id, p))

\* ... and name the reason: a cycle is reported if and only if there would be
\* one and the parent exists.
CycleReportedExactly ==
    \A id, p \in DOMAIN par :
        ReparentVerdict(par, id, p) = "cycle_detected" <=> ~ Acyclic(Hung(id, p))

\* The subtree query returns the ids whose chain of parents leads to the root:
\* walking down and walking up agree.
SubtreeIsDescendants ==
    \A root \in DOMAIN par :
        Subtree(par, root) =
            {x \in DOMAIN par : Contains(AncestorChain(par, x), root)}
=============================================================================
