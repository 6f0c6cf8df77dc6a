---------------------------- MODULE CategoryRaces ----------------------------
(***************************************************************************)
(* CategoryService with two history variables that say which commits       *)
(* relied on a validation that was no longer true to the table: the window *)
(* between validate_category_parent / validate_category_reparent and the   *)
(* commit of the same request, during which another request may commit.    *)
(***************************************************************************)
EXTENDS CategoryService

VARIABLES
    overtaken,  \* what others did to the tree since a request was validated
    raced       \* what had overtaken the requests that committed all the same

historyVars == <<overtaken, raced>>

TreeChanges == {"move", "growth"}

HistoryTypeOK ==
    /\ overtaken \in [Clients -> SUBSET TreeChanges]
    /\ raced \subseteq TreeChanges

\* In a step: a row is hung under another parent, a new row under a parent.
\* Detaching a row to the root and deleting rows only shorten chains.
Moved ==
    \E id \in DOMAIN cat \cap DOMAIN cat' :
        cat'[id].parent \notin {NoParent, cat[id].parent}
Grown == \E id \in DOMAIN cat' \ DOMAIN cat : cat'[id].parent # NoParent

Change == (IF Moved THEN {"move"} ELSE {}) \cup (IF Grown THEN {"growth"} ELSE {})

\* What can make a validation false: two INSERTs never lengthen each other's
\* ancestor chains, so growth is no matter to a create.
Matters(r) ==
    IF MovesUnderParent(r) THEN {"move", "growth"}
    ELSE IF r.op = "create" /\ r.parent # NoParent THEN {"move"}
    ELSE {}

Record(c) ==
    /\ overtaken' = [d \in Clients |->
                        IF d # c /\ pc[d] = "write"
                        THEN overtaken[d] \cup (Change \cap Matters(req[d]))
                        ELSE {}]
    /\ raced' = IF Moved \/ Grown THEN raced \cup overtaken[c] ELSE raced

RaceInit == Init /\ overtaken = [c \in Clients |-> {}] /\ raced = {}

RaceNext == \E c \in Clients : Step(c) /\ Record(c)

RaceSpec == RaceInit /\ [][RaceNext]_<<vars, historyVars>>

-----------------------------------------------------------------------------
(* Properties. *)

\* The handlers one request at a time, on the same table.
Alone == INSTANCE CategoryEdits WITH par <- parents

\* What a request does to the tree is what it would have done with nobody else
\* around, its validation and its write at one moment, unless a change that
\* matters to its validation came in between.  It holds in any table, one that
\* an earlier race has left with a cycle included: a delete, a detachment or a
\* new root never makes a validation false.
AsIfAloneUnlessOvertaken ==
    [][\/ UNCHANGED parents
       \/ Alone!EditsNext
       \/ \E c \in Clients :
             pc[c] = "write" /\ pc'[c] = "invalidate" /\ overtaken[c] # {}]_<<vars, historyVars>>

\* The parent links hold no cycle unless a create or move committed on a
\* validation that another client's committed move had overtaken: the window
\* between validate_category_reparent and the commit is the only way in.
AcyclicUnlessRaced == "move" \notin raced => Acyclic(parents)

\* The subtree query, which a search waits for and which stops at no depth, ends
\* for every category that does not hang below itself, whatever else does; and
\* only a commit on a validation that a move had overtaken makes one do so.
SubtreeQueriesEnd ==
    \A root \in DOMAIN parents :
        ~ SubtreeQueryEnds(parents, root) =>
            "move" \in raced /\ parents[root] \in Subtree(parents, root)

\* No category is deeper than MAX_CATEGORY_DEPTH unless a create committed on
\* a validation that a move had overtaken, or a move on one that a move or a
\* create had overtaken.
DepthKeptUnlessRaced == raced = {} => WithinDepth(parents)

\* validate_category_reparent (category_service.py:233): "parent exists, no
\* cycles, depth within limits".
NoCycles == Acyclic(parents)
=============================================================================
