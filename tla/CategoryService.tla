--------------------------- MODULE CategoryService ---------------------------
(***************************************************************************)
(* The handlers of app/api/categories.py that write, run by concurrent     *)
(* clients against one categories table.                                   *)
(*                                                                         *)
(* A handler is a coroutine with its own session and transaction; it gives *)
(* way at each await, and every SELECT reads what is committed at that     *)
(* moment (PostgreSQL's READ COMMITTED).  pc[c] names the await at which   *)
(* client c's request stands.  flush and commit form one step: between     *)
(* them the handler does nothing, and the row locks that flush takes keep  *)
(* every conflicting writer waiting until commit.                          *)
(*                                                                         *)
(* The Redis counter that InvalidateCache bumps, and the lookups that read *)
(* it, are in module SubtreeCache.                                         *)
(***************************************************************************)
EXTENDS CategoryTree, FiniteSets

CONSTANTS
    Clients,    \* requests in flight at once
    Names,      \* category names
    MaxId,      \* bound: INSERTs that draw an id from the sequence
    Unset       \* a field the PATCH body leaves out

ASSUME ClientsAssumption == IsFiniteSet(Clients)
ASSUME MaxIdAssumption == MaxId \in Nat
ASSUME ValuesAssumption ==
    /\ Names # {}
    /\ NoParent \notin Nat
    /\ Unset \notin Names \cup Nat \cup {NoParent}

Ids == 1..MaxId
ParentIds == Ids \cup {NoParent}

VARIABLES
    cat,        \* the committed rows: id -> [parent, name]
    nextId,     \* what the id sequence yields next
    pc,         \* the await at which each client's request stands
    req,        \* the request of each client
    dirty,      \* the columns its flush will write (UPDATE ... SET)
    answer      \* its last response, with the reason for it

vars == <<cat, nextId, pc, req, dirty, answer>>

parents == [id \in DOMAIN cat |-> cat[id].parent]

-----------------------------------------------------------------------------
(* Requests and responses. *)

Creates == [op : {"create"}, parent : ParentIds, name : Names]
Updates == [op : {"update"}, id : Ids,
            parent : ParentIds \cup {Unset}, name : Names \cup {Unset}]
Deletes == [op : {"delete"}, id : Ids]

NoRequest == [op |-> "none"]

\* Once committed, all that matters of a request is which operation it was.
Committed == [op : {"create", "update", "delete"}]

\* Fault: a move that also renames goes without validation.
FaultyMovesUnderParent(r) == r.op = "update" /\ r.parent \in Ids /\ r.name = Unset

MovesUnderParent(r) == r.op = "update" /\ r.parent \in Ids

\* cause is what the statement met; the response itself does not carry it.
Response(status, cause) == [status |-> status, cause |-> cause]
NoAnswer == Response(0, "none")

SuccessStatus(op) == CASE op = "create" -> 201
                       [] op = "update" -> 200
                       [] op = "delete" -> 204

VerdictStatus(verdict) == IF verdict = "parent_not_found" THEN 404 ELSE 422

\* The statuses the route decorators declare besides success.
DeclaredStatuses == {400, 404, 409, 422}

Rows == [parent : ParentIds, name : Names]
Steps == {"idle", "validate", "write", "invalidate"}
Causes == {"none", "row_gone", "duplicate", "parent_gone"} \cup Verdicts

TypeOK ==
    /\ \E live \in SUBSET Ids : cat \in [live -> Rows]
    /\ nextId \in 1..(MaxId + 1)
    /\ \A id \in DOMAIN cat : id < nextId
    /\ pc \in [Clients -> Steps]
    /\ req \in [Clients -> Creates \cup Updates \cup Deletes \cup Committed \cup {NoRequest}]
    /\ dirty \in [Clients -> SUBSET {"parent", "name"}]
    /\ answer \in [Clients -> [status : {0, 200, 201, 204, 404, 409, 422, 500},
                               cause : Causes]]

Init ==
    /\ cat = [id \in {} |-> [parent |-> NoParent, name |-> CHOOSE n \in Names : TRUE]]
    /\ nextId = 1
    /\ pc = [c \in Clients |-> "idle"]
    /\ req = [c \in Clients |-> NoRequest]
    /\ dirty = [c \in Clients |-> {}]
    /\ answer = [c \in Clients |-> NoAnswer]

-----------------------------------------------------------------------------
Advance(c, step) == pc' = [pc EXCEPT ![c] = step]

\* The request ends: the session is closed, its transaction is over.
Respond(c, status, cause) ==
    /\ Advance(c, "idle")
    /\ req' = [req EXCEPT ![c] = NoRequest]
    /\ dirty' = [dirty EXCEPT ![c] = {}]
    /\ answer' = [answer EXCEPT ![c] = Response(status, cause)]

Proceed(c, r, step, columns) ==
    /\ Advance(c, step)
    /\ req' = [req EXCEPT ![c] = r]
    /\ dirty' = [dirty EXCEPT ![c] = columns]
    /\ answer' = [answer EXCEPT ![c] = NoAnswer]

\* A client names ids it was given; they may be gone by now.
KnownIds == 1..(nextId - 1)

PendingCreates == {c \in Clients : req[c].op = "create" /\ pc[c] # "invalidate"}

\* POST /categories up to validate_category_parent's answer.  The second
\* conjunct bounds the ids drawn.
BeginCreate(c) ==
    /\ pc[c] = "idle"
    /\ nextId + Cardinality(PendingCreates) <= MaxId
    /\ \E r \in Creates :
          /\ r.parent \in KnownIds \cup {NoParent}
          /\ LET verdict == IF r.parent = NoParent THEN "ok"
                            ELSE ParentVerdict(parents, r.parent)
             IN  IF verdict = "ok"
                 THEN Proceed(c, r, "write", {})
                 ELSE Respond(c, VerdictStatus(verdict), verdict)
    /\ UNCHANGED <<cat, nextId>>

\* The attributes that the handler assigns and that differ from the row it
\* loaded: the session writes these columns and no other.
Assigned(r, row) ==
    {f \in {"parent", "name"} : r[f] # Unset /\ r[f] # row[f]}

\* PATCH /categories/{id} up to get_category_or_none's answer.
BeginUpdate(c) ==
    /\ pc[c] = "idle"
    /\ \E r \in Updates :
          /\ {r.id, r.parent} \subseteq KnownIds \cup {NoParent, Unset}
          /\ IF r.id \in DOMAIN cat
             THEN Proceed(c, r, IF MovesUnderParent(r) THEN "validate" ELSE "write",
                          Assigned(r, cat[r.id]))
             ELSE Respond(c, 404, "row_gone")
    /\ UNCHANGED <<cat, nextId>>

\* DELETE /categories/{id} up to get_category_or_none's answer.
BeginDelete(c) ==
    /\ pc[c] = "idle"
    /\ \E r \in Deletes :
          /\ r.id \in KnownIds
          /\ IF r.id \in DOMAIN cat
             THEN Proceed(c, r, "write", {})
             ELSE Respond(c, 404, "row_gone")
    /\ UNCHANGED <<cat, nextId>>

\* validate_category_reparent
ValidateMove(c) ==
    /\ pc[c] = "validate"
    /\ LET verdict == ReparentVerdict(parents, req[c].id, req[c].parent)
       IN  IF verdict = "ok"
           THEN Proceed(c, req[c], "write", dirty[c])
           ELSE Respond(c, VerdictStatus(verdict), verdict)
    /\ UNCHANGED <<cat, nextId>>

-----------------------------------------------------------------------------
(* The constraints of the categories table.  The unique constraint sees no  *)
(* two NULLs as equal; the index is consulted before the foreign key.       *)

\* Fault: siblings are compared when a row is inserted, not when it changes.
FaultyDuplicates(table, id, row) ==
    /\ row.parent # NoParent /\ id \notin DOMAIN table
    /\ \E x \in DOMAIN table : table[x] = row

Duplicates(table, id, row) ==
    row.parent # NoParent /\ \E x \in DOMAIN table \ {id} : table[x] = row

ParentPresent(table, id, row) ==
    row.parent = NoParent \/ row.parent \in DOMAIN table \cup {id}

Violation(table, id, row) ==
    IF Duplicates(table, id, row) THEN "duplicate"
    ELSE IF ~ ParentPresent(table, id, row) THEN "parent_gone"
    ELSE "none"

PutRow(table, id, row) ==
    [x \in DOMAIN table \cup {id} |-> IF x = id THEN row ELSE table[x]]

\* Fault: the response goes out without the invalidation.
FaultySettle(c) == Respond(c, SuccessStatus(req[c].op), "none")

Settle(c) ==
    /\ Advance(c, "invalidate")
    /\ req' = [req EXCEPT ![c] = [op |-> req[c].op]]
    /\ dirty' = [dirty EXCEPT ![c] = {}]
    /\ UNCHANGED answer

\* The end of flush + commit: the new row is in, or the transaction is rolled
\* back and every IntegrityError answers 409.
CommitRow(c, id, row) ==
    IF Violation(cat, id, row) = "none"
    THEN /\ cat' = PutRow(cat, id, row)
         /\ Settle(c)
    ELSE /\ UNCHANGED cat
         /\ Respond(c, 409, Violation(cat, id, row))

\* Fault: the id is not drawn from the sequence.
FaultyInsertCategory(c) ==
    /\ pc[c] = "write" /\ req[c].op = "create"
    /\ CommitRow(c, nextId, [parent |-> req[c].parent, name |-> req[c].name])
    /\ UNCHANGED nextId

\* The id is drawn from the sequence whether or not the INSERT succeeds.
InsertCategory(c) ==
    /\ pc[c] = "write" /\ req[c].op = "create"
    /\ nextId' = nextId + 1
    /\ CommitRow(c, nextId, [parent |-> req[c].parent, name |-> req[c].name])

\* Fault: model_dump() without exclude_unset, so that an absent parent_id is NULL.
FaultyWrittenRow(table, r, columns) ==
    [parent |-> IF r.parent = Unset THEN NoParent ELSE r.parent,
     name   |-> IF "name" \in columns THEN r.name ELSE table[r.id].name]

WrittenRow(table, r, columns) ==
    [parent |-> IF "parent" \in columns THEN r.parent ELSE table[r.id].parent,
     name   |-> IF "name" \in columns THEN r.name ELSE table[r.id].name]

\* Fault: an upsert, which stores the row again when it is gone.
FaultyUpdateCategory(c) ==
    /\ pc[c] = "write" /\ req[c].op = "update"
    /\ IF req[c].id \in DOMAIN cat
       THEN CommitRow(c, req[c].id, WrittenRow(cat, req[c], dirty[c]))
       ELSE \E name \in Names :
               CommitRow(c, req[c].id, [parent |-> NoParent, name |-> name])
    /\ UNCHANGED nextId

\* updated_at always changes, so an UPDATE is always sent.  When it matches no
\* row the session raises StaleDataError, which the handler does not catch.
UpdateCategory(c) ==
    /\ pc[c] = "write" /\ req[c].op = "update"
    /\ IF req[c].id \in DOMAIN cat
       THEN CommitRow(c, req[c].id, WrittenRow(cat, req[c], dirty[c]))
       ELSE UNCHANGED cat /\ Respond(c, 500, "row_gone")
    /\ UNCHANGED nextId

\* Fault: the foreign key without ON DELETE CASCADE, and without a check.
FaultyWithoutSubtree(table, id) == [x \in DOMAIN table \ {id} |-> table[x]]

WithoutSubtree(table, id) ==
    LET removed == Subtree([x \in DOMAIN table |-> table[x].parent], id)
    IN  [x \in DOMAIN table \ removed |-> table[x]]

\* DELETE ... ON DELETE CASCADE; a row already gone is no error.
DeleteCategory(c) ==
    /\ pc[c] = "write" /\ req[c].op = "delete"
    /\ cat' = WithoutSubtree(cat, req[c].id)
    /\ Settle(c)
    /\ UNCHANGED nextId

\* invalidate_category_subtree_cache, then the response.
InvalidateCache(c) ==
    /\ pc[c] = "invalidate"
    /\ Respond(c, SuccessStatus(req[c].op), "none")
    /\ UNCHANGED <<cat, nextId>>

\* The worker dies or the request is cancelled: an open transaction is rolled
\* back, a committed one stays, and nobody is answered.
Abandon(c) ==
    /\ pc[c] # "idle"
    /\ Respond(c, 0, "none")
    /\ UNCHANGED <<cat, nextId>>

Step(c) ==
    \/ BeginCreate(c) \/ BeginUpdate(c) \/ BeginDelete(c) \/ ValidateMove(c)
    \/ InsertCategory(c) \/ UpdateCategory(c) \/ DeleteCategory(c)
    \/ InvalidateCache(c) \/ Abandon(c)

Next == \E c \in Clients : Step(c)

Spec == Init /\ [][Next]_vars
-----------------------------------------------------------------------------
(* Properties. *)

\* Every committed row's parent is committed too: a delete takes the whole
\* subtree with it, rows that other clients hung there meanwhile included,
\* and no create or move ends up under a parent that a delete removed.
ParentsPresent ==
    \A id \in DOMAIN cat : cat[id].parent \in DOMAIN cat \cup {NoParent}

\* No two siblings share a name, whatever order concurrent creates, renames
\* and moves commit in (create_category, update_category).
SiblingNamesUnique ==
    \A x, y \in DOMAIN cat :
        cat[x].parent # NoParent /\ cat[x] = cat[y] => x = y

\* A PATCH changes the fields its body names and no other: it never puts back
\* a value that another client changed after the handler loaded the row.
PatchKeepsOtherFields ==
    [][\A c \in Clients :
         pc[c] = "write" /\ req[c].op = "update" /\ pc'[c] = "invalidate" =>
            LET id == req[c].id IN
            /\ req[c].parent = Unset => cat'[id].parent = cat[id].parent
            /\ req[c].name = Unset => cat'[id].name = cat[id].name]_vars

\* A category once deleted stays deleted: no PATCH that loaded it before the
\* delete brings it back, and no later create is given its id.
DeletedStaysDeleted ==
    [][\A id \in 1..(nextId - 1) : id \notin DOMAIN cat => id \notin DOMAIN cat']_vars

\* README.md: "missing resources return HTTP `404`".
MissingAnswers404 ==
    \A c \in Clients : answer[c].cause = "row_gone" => answer[c].status = 404

\* Whatever changes the table leaves its client about to invalidate the
\* subtree cache, and no client answers success without having done so.
EveryChangeInvalidates ==
    [][/\ cat' # cat => \E c \in Clients : pc[c] = "write" /\ pc'[c] = "invalidate"
       /\ \A c \in Clients :
             answer[c].status = 0 /\ answer'[c].status \in {200, 201, 204}
                => pc[c] = "invalidate"]_vars
=============================================================================
