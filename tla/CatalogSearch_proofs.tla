------------------------ MODULE CatalogSearch_proofs ------------------------
(***************************************************************************)
(* What an answer of CatalogSearch guarantees although the table changes   *)
(* between its two statements, for any filter, page size, offset and table.*)
(*                                                                         *)
(* The counting behind PageFitsTotal: ORDER BY id ranks n matches          *)
(* 0 .. n - 1 without gap or repetition, so LIMIT and OFFSET cut out as    *)
(* many ids as ranks.                                                      *)
(***************************************************************************)
EXTENDS CatalogSearch, FiniteSetTheorems, TLAPS

-----------------------------------------------------------------------------
(* Ranks. *)

LEMMA RankBelow ==
    ASSUME NEW S \in SUBSET Int, IsFiniteSet(S), NEW id \in S
    PROVE  Rank(S, id) \in 0..(Cardinality(S) - 1)
<1> DEFINE B == {x \in S : x < id}
<1>1. IsFiniteSet(S \ {id}) /\ Cardinality(S \ {id}) = Cardinality(S) - 1
  BY FS_RemoveElement
<1>2. B \in SUBSET (S \ {id}) OBVIOUS
<1>3. IsFiniteSet(B) /\ Cardinality(B) <= Cardinality(S \ {id})
  BY <1>1, <1>2, FS_Subset
<1>4. Cardinality(B) \in Nat /\ Cardinality(S) \in Nat BY <1>3, FS_CardinalityType
<1> QED BY <1>1, <1>3, <1>4 DEF Rank

LEMMA RankRises ==
    ASSUME NEW S \in SUBSET Int, IsFiniteSet(S), NEW a \in S, NEW b \in S, a < b
    PROVE  Rank(S, a) < Rank(S, b)
<1> DEFINE A == {x \in S : x < a}
           B == {x \in S : x < b}
<1>1. IsFiniteSet(B) BY FS_Subset
<1>2. IsFiniteSet(B \ {a}) /\ Cardinality(B \ {a}) = Cardinality(B) - 1
  BY <1>1, FS_RemoveElement
<1>3. A \in SUBSET (B \ {a})
  <2>1. ASSUME NEW x \in S, x < a PROVE x < b /\ x # a
    <3>1. x \in Int /\ a \in Int /\ b \in Int OBVIOUS
    <3> QED BY <2>1, <3>1
  <2> QED BY <2>1
<1>4. IsFiniteSet(A) /\ Cardinality(A) <= Cardinality(B \ {a}) BY <1>2, <1>3, FS_Subset
<1>5. Cardinality(A) \in Nat /\ Cardinality(B) \in Nat BY <1>1, <1>4, FS_CardinalityType
<1> QED BY <1>2, <1>4, <1>5 DEF Rank

\* Every rank below the number of ids is taken, by one id.
LEMMA RanksAreAll ==
    ASSUME NEW S \in SUBSET Int, IsFiniteSet(S)
    PROVE  /\ \A a, b \in S : Rank(S, a) = Rank(S, b) => a = b
           /\ \A k \in 0..(Cardinality(S) - 1) : \E id \in S : Rank(S, id) = k
<1> DEFINE T == 0..(Cardinality(S) - 1)
           f == [id \in S |-> Rank(S, id)]
<1>1. Cardinality(S) \in Nat BY FS_CardinalityType
<1>2. IsFiniteSet(T) /\ Cardinality(T) = Cardinality(S)
  <2>1. IsFiniteSet(T) /\ Cardinality(T) = IF 0 > Cardinality(S) - 1 THEN 0
                                           ELSE (Cardinality(S) - 1) - 0 + 1
    BY <1>1, FS_Interval
  <2> QED BY <1>1, <2>1
<1>3. f \in [S -> T] BY RankBelow
<1>4. ASSUME NEW a \in S, NEW b \in S, a # b PROVE Rank(S, a) # Rank(S, b)
  <2>1. Rank(S, a) \in Int /\ Rank(S, b) \in Int BY RankBelow
  <2>2. CASE a < b BY <2>1, <2>2, RankRises
  <2>3. CASE b < a BY <2>1, <2>3, RankRises
  <2> QED BY <1>4, <2>2, <2>3
<1>5. f \in Injection(S, T) BY <1>3, <1>4 DEF Injection, IsInjective
<1> HIDE DEF T
<1>6. f \in Surjection(S, T)
  <2> HIDE DEF f
  <2> QED BY <1>2, <1>5, FS_Injection
<1>7. \A k \in T : \E id \in S : Rank(S, id) = k BY <1>6 DEF Surjection
<1> QED BY <1>4, <1>7 DEF T

\* LIMIT and OFFSET on a set of ids.
Cut(S, offset, limit) ==
    {id \in S : offset <= Rank(S, id) /\ Rank(S, id) < offset + limit}

CutFits(S, offset, limit) ==
    LET count == Cardinality(Cut(S, offset, limit))
    IN  /\ count \in Nat
        /\ count <= limit
        /\ count > 0 => Cardinality(S) >= offset + count
        /\ count > 0 /\ count < limit => Cardinality(S) = offset + count

LEMMA CutSize ==
    ASSUME NEW S \in SUBSET Int, IsFiniteSet(S), NEW offset \in Nat, NEW limit \in Nat \ {0}
    PROVE  CutFits(S, offset, limit)
<1> DEFINE n == Cardinality(S)
           last == IF offset + limit <= n THEN offset + limit - 1 ELSE n - 1
           T == offset..last
           C == Cut(S, offset, limit)
           g == [id \in C |-> Rank(S, id)]
<1>1. n \in Nat BY FS_CardinalityType
<1>2. \A id \in S : Rank(S, id) \in 0..(n - 1) BY RankBelow
<1>3. C \in SUBSET S /\ IsFiniteSet(C) BY FS_Subset DEF Cut
<1>4. g \in [C -> T]
  <2> SUFFICES ASSUME NEW id \in C PROVE Rank(S, id) \in T OBVIOUS
  <2>1. /\ id \in S /\ offset <= Rank(S, id) /\ Rank(S, id) < offset + limit
    BY DEF Cut
  <2>2. Rank(S, id) \in 0..(n - 1) BY <1>2, <2>1
  <2> HIDE DEF n, C
  <2> QED BY <1>1, <2>1, <2>2
<1>5. ASSUME NEW k \in T PROVE \E id \in C : Rank(S, id) = k
  <2>1. k \in 0..(n - 1) /\ offset <= k /\ k < offset + limit
    <3> HIDE DEF n
    <3> QED BY <1>1, <1>5
  <2>2. PICK id \in S : Rank(S, id) = k BY <2>1, RanksAreAll
  <2> QED BY <2>1, <2>2 DEF Cut
<1>6. g \in Bijection(C, T)
  <2>1. \A a, b \in C : g[a] = g[b] => a = b BY <1>3, RanksAreAll
  <2>2. \A k \in T : \E id \in C : g[id] = k BY <1>5
  <2> HIDE DEF g, C, T
  <2> QED BY <1>4, <2>1, <2>2 DEF Bijection, Injection, IsInjective, Surjection
<1>7. Cardinality(C) = Cardinality(T)
  <2>1. ExistsBijection(C, T) BY <1>6 DEF ExistsBijection
  <2> HIDE DEF C, T
  <2> QED BY <1>3, <2>1, FS_Bijection
<1>8. last \in Int
  <2> HIDE DEF n
  <2> QED BY <1>1
<1>9. Cardinality(T) = IF offset > last THEN 0 ELSE last - offset + 1
  <2> HIDE DEF last
  <2> QED BY <1>8, FS_Interval
<1> DEFINE count == Cardinality(C)
<1>10. count = IF offset > last THEN 0 ELSE last - offset + 1 BY <1>7, <1>9
<1> HIDE DEF n, count
<1>11. /\ count \in Nat
       /\ count <= limit
       /\ count > 0 => n >= offset + count
       /\ count > 0 /\ count < limit => n = offset + count
  BY <1>1, <1>10
<1> QED BY <1>11 DEF CutFits, n, count

-----------------------------------------------------------------------------
(* The table and what a statement reads of it. *)

LEMMA QueryParts ==
    ASSUME NEW q \in Searches \cup Lists
    PROVE  q.limit \in Nat \ {0} /\ q.offset \in Nat
<1> QED BY PagingAssumption DEF Searches, Lists

LEMMA MatchesFinite ==
    ASSUME TableTypeOK, NEW q
    PROVE  /\ Matches(q) \in SUBSET Int /\ IsFiniteSet(Matches(q))
           /\ Cardinality(Matches(q)) \in Nat
           /\ IsFiniteSet(DOMAIN product) /\ Cardinality(DOMAIN product) \in Nat
<1>1. DOMAIN product \in SUBSET Ids BY DEF TableTypeOK
<1>2. Matches(q) \in SUBSET Ids BY <1>1 DEF Matches
<1> QED BY <1>1, <1>2, IdsAssumption, FS_Subset, FS_CardinalityType

LEMMA PageIsCut ==
    ASSUME NEW q \in Searches \cup Lists
    PROVE  Page(q) = Cut(Matches(q), q.offset, q.limit)
<1> QED BY DEF Page, Cut

LEMMA PageMatches ==
    ASSUME TableTypeOK, NEW q
    PROVE  /\ Page(q) \in SUBSET Ids /\ Page(q) \subseteq DOMAIN product
           /\ \A id \in Page(q) : product[id] \in Rows /\ Accepts(q, product[id])
<1> QED BY DEF Page, Matches, TableTypeOK

LEMMA TableTyped ==
    ASSUME TableTypeOK, [TableNext]_tableVars
    PROVE  TableTypeOK'
<1>0. PICK ids \in SUBSET Ids : product \in [ids -> Rows] BY DEF TableTypeOK
<1>a. DOMAIN product = ids /\ ids \subseteq spent BY <1>0 DEF TableTypeOK
<1>1. ASSUME NEW id \in Ids, NEW row \in Rows, Insert(id, row) PROVE TableTypeOK'
  <2>1. product' \in [ids \cup {id} -> Rows] BY <1>0, <1>1 DEF Insert, Put
  <2> QED BY <1>a, <1>1, <2>1 DEF Insert, TableTypeOK
<1>2. ASSUME NEW id \in Ids, NEW row \in Rows, Change(id, row) PROVE TableTypeOK'
  <2>1. product' \in [ids -> Rows] BY <1>0, <1>2 DEF Change, Put
  <2> QED BY <1>a, <1>2, <2>1 DEF Change, TableTypeOK
<1>3. ASSUME NEW id \in Ids, Burn(id) PROVE TableTypeOK'
  BY <1>0, <1>3 DEF Burn, TableTypeOK
<1>4. ASSUME NEW id \in Ids, Remove(id) PROVE TableTypeOK'
  <2>1. product' \in [ids \ {id} -> Rows] BY <1>0, <1>4 DEF Remove
  <2> QED BY <1>a, <1>4, <2>1 DEF Remove, TableTypeOK
<1>5. ASSUME NEW gone \in SUBSET live, DropCategories(gone) PROVE TableTypeOK'
  <2>1. ASSUME NEW row \in Rows PROVE Orphaned(row, gone) \in Rows
    BY DEF Orphaned, Rows
  <2>2. product' \in [ids -> Rows] BY <1>0, <1>5, <2>1 DEF DropCategories
  <2> QED BY <1>a, <1>5, <2>2 DEF DropCategories, TableTypeOK
<1>6. CASE UNCHANGED tableVars BY <1>6 DEF tableVars, TableTypeOK
<1> QED BY <1>1, <1>2, <1>3, <1>4, <1>5, <1>6 DEF TableNext

-----------------------------------------------------------------------------
(* What each reader's state satisfies; a step of one leaves the others'.    *)

Sound(r) ==
    /\ rpc[r] # "idle" => query[r] \in Searches \cup Lists
    /\ rpc[r] \in {"total", "answered"} =>
         \A id \in DOMAIN shown[r] : Accepts(query[r], shown[r][id])
    /\ LET count == Cardinality(DOMAIN shown[r])
           last == query[r].offset + count
       IN  rpc[r] = "answered" /\ query[r].kind = "search" /\ count > 0 =>
               /\ count <= query[r].limit
               /\ total[r] >= last
               /\ count < query[r].limit => total[r] = last

ReadersOK ==
    /\ rpc \in [Readers -> {"idle", "page", "total", "answered"}]
    /\ query \in [Readers -> Searches \cup Lists \cup {NoQuery}]
    /\ shown \in [Readers -> UNION {[ids -> Rows] : ids \in SUBSET Ids}]
    /\ total \in [Readers -> Nat]
    /\ disturbed \in [Readers -> BOOLEAN]

\* Neither type nor filter nor count is an invariant without the others: an
\* answer's items are those that the session held since the first statement.
IInv == TableTypeOK /\ ReadersOK /\ \A r \in Readers : Sound(r)

LEMMA Implied == ASSUME IInv PROVE SearchTypeOK /\ ShownMatchesFilter /\ PageFitsTotal
<1>1. SearchTypeOK BY DEF IInv, ReadersOK, SearchTypeOK
<1>2. ShownMatchesFilter BY DEF IInv, Sound, ShownMatchesFilter
<1>3. PageFitsTotal BY DEF IInv, Sound, PageFitsTotal
<1> QED BY <1>1, <1>2, <1>3

Others(r) ==
    \A s \in Readers \ {r} : rpc'[s] = rpc[s] /\ query'[s] = query[s]
                             /\ shown'[s] = shown[s] /\ total'[s] = total[s]

LEMMA OthersSound ==
    ASSUME NEW r \in Readers, Others(r), \A s \in Readers : Sound(s), Sound(r)'
    PROVE  \A s \in Readers : Sound(s)'
<1> SUFFICES ASSUME NEW s \in Readers, s # r PROVE Sound(s)' OBVIOUS
<1>1. rpc'[s] = rpc[s] /\ query'[s] = query[s] /\ shown'[s] = shown[s] /\ total'[s] = total[s]
  BY DEF Others
<1>2. Sound(s) OBVIOUS
<1> QED BY <1>1, <1>2 DEF Sound

\* A partial table: what a request may hold and show.
Views == UNION {[ids -> Rows] : ids \in SUBSET Ids}

LEMMA ViewOf ==
    ASSUME NEW ids \in SUBSET Ids, NEW view \in [ids -> Rows]
    PROVE  view \in Views /\ DOMAIN view = ids
<1> QED BY DEF Views

\* An answer is sound if its items pass the filter and its total fits.
LEMMA Answering ==
    ASSUME IInv, NEW r \in Readers, rpc[r] # "idle",
           NEW items \in Views, NEW count \in Nat,
           \A id \in DOMAIN items : Accepts(query[r], items[id]),
           query[r].kind = "search" /\ Cardinality(DOMAIN items) > 0 =>
              /\ Cardinality(DOMAIN items) <= query[r].limit
              /\ count >= query[r].offset + Cardinality(DOMAIN items)
              /\ Cardinality(DOMAIN items) < query[r].limit =>
                   count = query[r].offset + Cardinality(DOMAIN items),
           Answer(r, items, count), UNCHANGED <<query, disturbed>>
    PROVE  ReadersOK' /\ \A s \in Readers : Sound(s)'
<1>1. rpc' = [rpc EXCEPT ![r] = "answered"] /\ shown' = [shown EXCEPT ![r] = items]
      /\ total' = [total EXCEPT ![r] = count] /\ query' = query /\ disturbed' = disturbed
  BY DEF Answer, ReaderAt
<1>2. ReadersOK' BY <1>1 DEF IInv, ReadersOK, Views
<1>3. Others(r) /\ rpc'[r] = "answered" /\ shown'[r] = items /\ total'[r] = count
  BY <1>1 DEF Others, IInv, ReadersOK
<1>4. query[r] \in Searches \cup Lists BY DEF IInv, Sound
<1>5. Sound(r)' BY <1>1, <1>3, <1>4 DEF Sound
<1> QED BY <1>2, <1>3, <1>5, OthersSound DEF IInv

LEMMA StepKeeps ==
    ASSUME IInv, NEW r \in Readers, ReaderStep(r)
    PROVE  IInv'
<1> SUFFICES ReadersOK' /\ \A s \in Readers : Sound(s)'
  <2>1. UNCHANGED tableVars
    BY DEF ReaderStep, Begin, QueryPage, QueryWindowed, QueryCount, Close
  <2>2. TableTypeOK' BY <2>1, TableTyped DEF IInv
  <2> QED BY <2>2 DEF IInv
<1> DEFINE q == query[r]
<1>0. TableTypeOK /\ ReadersOK /\ Sound(r) BY DEF IInv
<1>q. rpc[r] # "idle" => q \in Searches \cup Lists /\ q.limit \in Nat \ {0} /\ q.offset \in Nat
  BY <1>0, QueryParts DEF Sound
<1>m. /\ Matches(q) \in SUBSET Int /\ IsFiniteSet(Matches(q)) /\ Cardinality(Matches(q)) \in Nat
      /\ Cardinality(DOMAIN product) \in Nat
  BY <1>0, MatchesFinite
<1>p. Page(q) \in SUBSET Ids /\ \A id \in Page(q) : product[id] \in Rows /\ Accepts(q, product[id])
  BY <1>0, PageMatches
<1>c. ASSUME rpc[r] # "idle" PROVE CutFits(Matches(q), q.offset, q.limit)
                                   /\ Page(q) = Cut(Matches(q), q.offset, q.limit)
  BY <1>c, <1>m, <1>q, CutSize, PageIsCut
<1>1. CASE Begin(r)
  <2>1. PICK asked \in Searches \cup Lists : query' = [query EXCEPT ![r] = asked]
    BY <1>1 DEF Begin
  <2>2. rpc' = [rpc EXCEPT ![r] = "page"] /\ UNCHANGED <<shown, total, disturbed>>
    BY <1>1 DEF Begin, ReaderAt
  <2>3. ReadersOK' BY <1>0, <2>1, <2>2 DEF ReadersOK
  <2>4. Others(r) /\ rpc'[r] = "page" /\ query'[r] = asked
    BY <1>0, <2>1, <2>2 DEF Others, ReadersOK
  <2>5. Sound(r)' BY <2>4 DEF Sound
  <2> QED BY <2>3, <2>4, <2>5, OthersSound DEF IInv
<1>2. CASE QueryPage(r)
  <2> DEFINE items == [id \in Page(q) |-> product[id]]
  <2>1. rpc[r] = "page" /\ UNCHANGED <<query, disturbed>> BY <1>2 DEF QueryPage
  <2>2. items \in Views /\ DOMAIN items = Page(q) BY <1>p, ViewOf
  <2>3. \A id \in DOMAIN items : Accepts(q, items[id]) BY <1>p
  <2>4. CASE OnlyPage(q, Page(q))
    <3>1. Answer(r, items, Cardinality(Page(q))) BY <1>2, <2>4 DEF QueryPage
    <3>2. q.offset = 0 /\ Cardinality(Page(q)) < q.limit BY <2>4 DEF OnlyPage
    <3>3. Cardinality(Page(q)) \in Nat BY <1>c, <2>1 DEF CutFits
    <3>4. /\ Cardinality(DOMAIN items) <= q.limit
          /\ Cardinality(Page(q)) >= q.offset + Cardinality(DOMAIN items)
          /\ Cardinality(Page(q)) = q.offset + Cardinality(DOMAIN items)
      <4> HIDE DEF items, q
      <4> QED BY <1>q, <2>1, <2>2, <3>2, <3>3
    <3> HIDE DEF items
    <3>5. rpc[r] # "idle" BY <2>1
    <3> QED BY <2>1, <2>2, <2>3, <3>1, <3>3, <3>4, <3>5, Answering
  <2>5. CASE ~ OnlyPage(q, Page(q))
    <3>1. rpc' = [rpc EXCEPT ![r] = "total"] /\ shown' = [shown EXCEPT ![r] = items]
          /\ UNCHANGED total
      BY <1>2, <2>5 DEF QueryPage, ReaderAt
    <3> HIDE DEF items
    <3>2. ReadersOK' BY <1>0, <2>1, <2>2, <3>1 DEF ReadersOK, Views
    <3>3. Others(r) /\ rpc'[r] = "total" /\ shown'[r] = items /\ query'[r] = q
      BY <1>0, <2>1, <3>1 DEF Others, ReadersOK
    <3> HIDE DEF q
    <3>4. Sound(r)' BY <1>q, <2>1, <2>3, <3>3 DEF Sound
    <3> QED BY <3>2, <3>3, <3>4, OthersSound DEF IInv
  <2> QED BY <2>4, <2>5
<1>3. CASE QueryWindowed(r)
  <2> DEFINE items == Reread(shown[r], Page(q))
  <2>1. rpc[r] = "total" /\ UNCHANGED <<query, disturbed>>
        /\ Answer(r, items, WindowTotal(q))
    BY <1>3 DEF QueryWindowed
  <2>2. PICK ids \in SUBSET Ids : shown[r] \in [ids -> Rows] BY <1>0 DEF ReadersOK
  <2>3. items \in [Page(q) -> Rows] BY <1>p, <2>2 DEF Reread
  <2>4. items \in Views /\ DOMAIN items = Page(q) BY <1>p, <2>3, ViewOf
  <2>5. \A id \in DOMAIN items : Accepts(q, items[id])
    BY <1>0, <1>p, <2>1 DEF Sound, Reread
  <2> HIDE DEF items
  <2>6. WindowTotal(q) \in Nat BY <1>m DEF WindowTotal
  <2>7. Cardinality(Page(q)) > 0 =>
           /\ Cardinality(Page(q)) <= q.limit
           /\ WindowTotal(q) >= q.offset + Cardinality(Page(q))
           /\ Cardinality(Page(q)) < q.limit => WindowTotal(q) = q.offset + Cardinality(Page(q))
    <3>1. CutFits(Matches(q), q.offset, q.limit) /\ Page(q) = Cut(Matches(q), q.offset, q.limit)
      BY <1>c, <2>1
    <3>2. SUFFICES ASSUME Cardinality(Page(q)) > 0
                   PROVE  WindowTotal(q) = Cardinality(Matches(q))
      BY <3>1, <1>m DEF CutFits
    <3>3. Page(q) # {} BY <3>2, FS_EmptySet
    <3> QED BY <3>3 DEF WindowTotal
  <2> QED BY <2>1, <2>4, <2>5, <2>6, <2>7, Answering
<1>4. CASE QueryCount(r)
  <2>1. rpc[r] = "total" /\ q.kind = "list" /\ UNCHANGED <<query, disturbed>>
        /\ Answer(r, shown[r], Cardinality(DOMAIN product))
    BY <1>4 DEF QueryCount
  <2>2. shown[r] \in Views BY <1>0 DEF ReadersOK, Views
  <2>3. \A id \in DOMAIN shown[r] : Accepts(q, shown[r][id]) BY <1>0, <2>1 DEF Sound
  <2>4. q.kind # "search" BY <2>1
  <2> QED BY <1>m, <2>1, <2>2, <2>3, <2>4, Answering
<1>5. CASE Close(r)
  <2>1. /\ rpc' = [rpc EXCEPT ![r] = "idle"] /\ query' = [query EXCEPT ![r] = NoQuery]
        /\ shown' = [shown EXCEPT ![r] = Empty] /\ total' = [total EXCEPT ![r] = 0]
        /\ disturbed' = [disturbed EXCEPT ![r] = FALSE]
    BY <1>5 DEF Close, ReaderAt
  <2>2. Empty \in Views
    <3>1. Empty \in [{} -> Rows] BY DEF Empty
    <3> QED BY <3>1, ViewOf
  <2>3. ReadersOK' BY <1>0, <2>1, <2>2 DEF ReadersOK, Views
  <2>4. Others(r) /\ rpc'[r] = "idle" BY <1>0, <2>1 DEF Others, ReadersOK
  <2>5. Sound(r)' BY <2>4 DEF Sound
  <2> QED BY <2>3, <2>4, <2>5, OthersSound DEF IInv
<1> QED BY <1>1, <1>2, <1>3, <1>4, <1>5 DEF ReaderStep

LEMMA NextKeeps == ASSUME IInv, [SearchNext]_vars PROVE IInv'
<1>1. CASE TableStep
  <2>1. [TableNext]_tableVars /\ UNCHANGED <<rpc, query, shown, total>>
        /\ disturbed' \in [Readers -> BOOLEAN]
    BY <1>1 DEF TableStep, IInv, ReadersOK
  <2>2. TableTypeOK' BY <2>1, TableTyped DEF IInv
  <2>3. ReadersOK' BY <2>1 DEF IInv, ReadersOK
  <2>4. \A r \in Readers : Sound(r)' BY <2>1 DEF IInv, Sound
  <2> QED BY <2>2, <2>3, <2>4 DEF IInv
<1>2. ASSUME NEW r \in Readers, ReaderStep(r) PROVE IInv' BY <1>2, StepKeeps
<1>3. CASE UNCHANGED vars
  <2>1. UNCHANGED tableVars /\ UNCHANGED searchVars BY <1>3 DEF vars
  <2>2. TableTypeOK' BY <2>1, TableTyped DEF IInv
  <2> QED BY <2>1, <2>2 DEF IInv, ReadersOK, Sound, searchVars
<1> QED BY <1>1, <1>2, <1>3 DEF SearchNext

LEMMA InitKeeps == ASSUME SearchInit PROVE IInv
<1>1. TableTypeOK
  <2>1. product \in [{} -> Rows] BY DEF SearchInit, TableInit
  <2>2. {} \in SUBSET Ids OBVIOUS
  <2> QED BY <2>1, <2>2 DEF SearchInit, TableInit, TableTypeOK
<1>2. Empty \in Views
  <2>1. Empty \in [{} -> Rows] BY DEF Empty
  <2> QED BY <2>1, ViewOf
<1>3. ReadersOK BY <1>2 DEF SearchInit, ReadersOK, Views
<1>4. \A r \in Readers : Sound(r) BY DEF SearchInit, Sound
<1> QED BY <1>1, <1>3, <1>4 DEF IInv

\* The inductive invariant holds throughout.
THEOREM Invariant == SearchSpec => []IInv
<1>1. SearchInit => IInv BY InitKeeps
<1>2. IInv /\ [SearchNext]_vars => IInv' BY NextKeeps
<1> QED BY <1>1, <1>2, PTL DEF SearchSpec

\* Every state of the readers and the table is well-typed.
THEOREM TypeCorrect == SearchSpec => []SearchTypeOK
<1> QED BY Implied, Invariant, PTL

\* Every item shown satisfies the filters of its search.
THEOREM ItemsMatch == SearchSpec => []ShownMatchesFilter
<1> QED BY Implied, Invariant, PTL

\* Page and total of a search belong together, whoever writes in between.
THEOREM TotalsFit == SearchSpec => []PageFitsTotal
<1> QED BY Implied, Invariant, PTL
-----------------------------------------------------------------------------
(* Without a write in between, the second statement sees the first's table. *)

\* What a page query answers now.
ViewNow(q) == [id \in Page(q) |-> product[id]]

\* While the table stands still, the session holds what it would read again.
Fresh(r) == rpc[r] = "total" /\ ~ disturbed[r] => shown[r] = ViewNow(query[r])

\* A reader that keeps its query, and a table that does not change.
LEMMA ViewKept ==
    ASSUME NEW r \in Readers, query'[r] = query[r], product' = product
    PROVE  ViewNow(query[r])' = ViewNow(query[r])
<1> QED BY DEF ViewNow, Page, Matches, Accepts, Rank

LEMMA StepFresh ==
    ASSUME IInv, \A r \in Readers : Fresh(r), NEW s \in Readers, ReaderStep(s)
    PROVE  \A r \in Readers : Fresh(r)'
<1>0. ReadersOK BY DEF IInv
<1>1. product' = product
  BY DEF ReaderStep, Begin, QueryPage, QueryWindowed, QueryCount, Close, tableVars
<1>2. ASSUME NEW r \in Readers, r # s PROVE Fresh(r)'
  <2>1. /\ rpc'[r] = rpc[r] /\ query'[r] = query[r]
        /\ shown'[r] = shown[r] /\ disturbed'[r] = disturbed[r]
    BY <1>0, <1>2 DEF ReadersOK, ReaderStep, Begin, QueryPage, QueryWindowed, QueryCount,
                      Close, Answer, ReaderAt
  <2>2. Fresh(r) /\ ViewNow(query[r])' = ViewNow(query[r]) BY <1>1, <2>1, ViewKept
  <2> QED BY <2>1, <2>2 DEF Fresh
<1>3. Fresh(s)'
  <2>1. CASE QueryPage(s)
    <3>1. query'[s] = query[s] BY <2>1 DEF QueryPage
    <3>2. ViewNow(query[s])' = ViewNow(query[s]) BY <1>1, <3>1, ViewKept
    <3>3. rpc'[s] = "total" => shown'[s] = ViewNow(query[s])
      BY <1>0, <2>1 DEF ReadersOK, QueryPage, Answer, ReaderAt, ViewNow
    <3> QED BY <3>2, <3>3 DEF Fresh
  <2>2. CASE Begin(s) BY <1>0, <2>2 DEF ReadersOK, Begin, ReaderAt, Fresh
  <2>3. CASE QueryWindowed(s)
    BY <1>0, <2>3 DEF ReadersOK, QueryWindowed, Answer, ReaderAt, Fresh
  <2>4. CASE QueryCount(s) BY <1>0, <2>4 DEF ReadersOK, QueryCount, Answer, ReaderAt, Fresh
  <2>5. CASE Close(s) BY <1>0, <2>5 DEF ReadersOK, Close, ReaderAt, Fresh
  <2> QED BY <2>1, <2>2, <2>3, <2>4, <2>5 DEF ReaderStep
<1> QED BY <1>2, <1>3

LEMMA FreshKept ==
    ASSUME IInv, \A r \in Readers : Fresh(r), [SearchNext]_vars
    PROVE  \A r \in Readers : Fresh(r)'
<1>1. CASE TableStep
  \* Whoever stands before the second statement is disturbed now.
  <2> SUFFICES ASSUME NEW r \in Readers, rpc'[r] = "total" PROVE disturbed'[r]
    BY DEF Fresh
  <2>1. rpc[r] = "total" /\ disturbed'[r] = (disturbed[r] \/ rpc[r] \in {"page", "total"})
    BY <1>1 DEF TableStep
  <2> QED BY <2>1
<1>2. CASE \E s \in Readers : ReaderStep(s) BY <1>2, StepFresh
<1>3. CASE UNCHANGED vars
  <2> SUFFICES ASSUME NEW r \in Readers PROVE Fresh(r)' OBVIOUS
  <2>1. product' = product /\ query' = query /\ rpc' = rpc /\ shown' = shown
        /\ disturbed' = disturbed
    BY <1>3 DEF vars, tableVars, searchVars
  <2>2. Fresh(r) /\ ViewNow(query[r])' = ViewNow(query[r]) BY <2>1, ViewKept
  <2> QED BY <2>1, <2>2 DEF Fresh
<1> QED BY <1>1, <1>2, <1>3 DEF SearchNext

\* A list asks for nothing in particular: every row matches.
LEMMA ListMatchesAll ==
    ASSUME TableTypeOK, NEW q \in Lists
    PROVE  Matches(q) = DOMAIN product
<1>1. ASSUME NEW id \in DOMAIN product PROVE Accepts(q, product[id])
  <2>1. product[id] \in Rows BY DEF TableTypeOK
  <2>2. product[id].price \in Prices /\ product[id].category \in CategoryIds
    BY <2>1 DEF Rows, CategoryIds
  <2> QED BY <2>2 DEF Lists, Accepts
<1> QED BY <1>1 DEF Matches

\* What the answer of an undisturbed request is.
LEMMA ExactAnswer ==
    ASSUME IInv, NEW r \in Readers, Fresh(r), ReaderStep(r),
           rpc[r] # "answered", rpc'[r] = "answered", ~ disturbed[r]
    PROVE  /\ shown'[r] = ViewNow(query[r])
           /\ query[r].kind = "list" \/ Page(query[r]) # {} =>
                total'[r] = Cardinality(Matches(query[r]))
<1> DEFINE q == query[r]
<1>0. TableTypeOK /\ ReadersOK /\ Sound(r) BY DEF IInv
<1>1. CASE QueryPage(r)
  <2>1. rpc[r] = "page" /\ OnlyPage(q, Page(q))
        /\ Answer(r, ViewNow(q), Cardinality(Page(q)))
    BY <1>0, <1>1 DEF QueryPage, ReaderAt, ReadersOK, ViewNow
  <2>2. shown'[r] = ViewNow(q) /\ total'[r] = Cardinality(Page(q))
    BY <1>0, <2>1 DEF Answer, ReadersOK
  <2>3. q \in Searches \cup Lists BY <1>0, <2>1 DEF Sound
  <2>4. /\ Matches(q) \in SUBSET Int /\ IsFiniteSet(Matches(q))
        /\ Cardinality(Matches(q)) \in Nat
    BY <1>0, MatchesFinite
  <2>5. q.limit \in Nat \ {0} /\ q.offset = 0 /\ Cardinality(Page(q)) < q.limit
    BY <2>1, <2>3, QueryParts DEF OnlyPage
  \* A first page that is not full holds every match.
  <2>6. Cardinality(Page(q)) = Cardinality(Matches(q))
    <3>1. CutFits(Matches(q), q.offset, q.limit) /\ Page(q) = Cut(Matches(q), q.offset, q.limit)
      BY <2>3, <2>4, <2>5, CutSize, PageIsCut
    <3>2. /\ Cardinality(Page(q)) \in Nat
          /\ Cardinality(Page(q)) > 0 => Cardinality(Matches(q)) = Cardinality(Page(q))
      BY <2>5, <3>1 DEF CutFits
    <3>3. ASSUME Matches(q) # {} PROVE Cardinality(Page(q)) # 0
      <4>1. Cardinality(Matches(q)) # 0 BY <2>4, <3>3, FS_EmptySet
      <4>2. 0 \in 0..(Cardinality(Matches(q)) - 1)
        <5> HIDE DEF q
        <5> QED BY <2>4, <4>1
      <4>3. PICK id \in Matches(q) : Rank(Matches(q), id) = 0 BY <2>4, <4>2, RanksAreAll
      <4>4. id \in Page(q) BY <2>5, <4>3 DEF Page
      <4>5. IsFiniteSet(Page(q)) BY <2>4, FS_Subset DEF Page
      <4> QED BY <4>4, <4>5, FS_EmptySet
    <3>4. Matches(q) = {} => Page(q) = Matches(q) BY DEF Page
    <3> QED BY <3>2, <3>3, <3>4
  <2> QED BY <2>2, <2>6
<1>2. CASE QueryWindowed(r)
  <2>1. rpc[r] = "total" /\ q.kind = "search"
        /\ Answer(r, Reread(shown[r], Page(q)), WindowTotal(q))
    BY <1>2 DEF QueryWindowed
  <2>2. shown[r] = ViewNow(q) BY <2>1 DEF Fresh
  <2>3. Reread(ViewNow(q), Page(q)) = ViewNow(q) BY DEF Reread, ViewNow
  <2>4. shown'[r] = ViewNow(q) /\ total'[r] = WindowTotal(q)
    BY <1>0, <2>1, <2>2, <2>3 DEF Answer, ReadersOK
  <2> QED BY <2>1, <2>4 DEF WindowTotal
<1>3. CASE QueryCount(r)
  <2>1. rpc[r] = "total" /\ q.kind = "list" /\ Answer(r, shown[r], Cardinality(DOMAIN product))
    BY <1>3 DEF QueryCount
  <2>2. shown'[r] = ViewNow(q) /\ total'[r] = Cardinality(DOMAIN product)
    BY <1>0, <2>1 DEF Answer, ReadersOK, Fresh
  <2>3. q \in Lists BY <1>0, <2>1 DEF Sound, Searches
  <2> QED BY <1>0, <2>2, <2>3, ListMatchesAll
<1>4. CASE Begin(r) BY <1>0, <1>4 DEF Begin, ReaderAt, ReadersOK
<1>5. CASE Close(r) BY <1>0, <1>5 DEF Close, ReaderAt, ReadersOK
<1> QED BY <1>1, <1>2, <1>3, <1>4, <1>5 DEF ReaderStep

\* An answer given while nobody wrote is the page asked for with the stored
\* attributes and, unless the page is past the last match, the number of
\* matches: search_products' shortcut for a first page that is not full, its
\* window count and list_products' separate COUNT agree.
THEOREM UndisturbedExact == SearchSpec => ExactUndisturbed
<1> DEFINE FInv == \A r \in Readers : Fresh(r)
<1> DEFINE A == \A r \in Readers :
         rpc[r] # "answered" /\ rpc'[r] = "answered" /\ ~ disturbed[r] =>
            LET q == query[r] IN
            /\ shown'[r] = [id \in Page(q) |-> product[id]]
            /\ q.kind = "list" \/ Page(q) # {} => total'[r] = Cardinality(Matches(q))
<1>1. SearchInit => FInv BY DEF SearchInit, Fresh
<1>2. IInv /\ FInv /\ [SearchNext]_vars => FInv' BY FreshKept
<1>3. ASSUME IInv, FInv, SearchNext PROVE A
  <2> SUFFICES ASSUME NEW r \in Readers, rpc[r] # "answered", rpc'[r] = "answered", ~ disturbed[r]
               PROVE  /\ shown'[r] = ViewNow(query[r])
                      /\ query[r].kind = "list" \/ Page(query[r]) # {} =>
                           total'[r] = Cardinality(Matches(query[r]))
    BY DEF ViewNow
  <2>1. ReaderStep(r)
    <3>1. ~ TableStep BY DEF TableStep
    <3>2. PICK s \in Readers : ReaderStep(s) BY <1>3, <3>1 DEF SearchNext
    <3>3. s = r
      BY <1>3, <3>2 DEF IInv, ReadersOK, ReaderStep, Begin, QueryPage, QueryWindowed, QueryCount,
                        Close, Answer, ReaderAt
    <3> QED BY <3>2, <3>3
  <2> QED BY <1>3, <2>1, ExactAnswer
<1>4. UNCHANGED vars => A BY DEF vars, searchVars
<1>5. IInv /\ FInv /\ [SearchNext]_vars => [A]_vars BY <1>3, <1>4
<1> HIDE DEF A, FInv
<1>6. SearchSpec => [][A]_vars BY <1>1, <1>2, <1>5, Invariant, PTL DEF SearchSpec
<1> QED BY <1>6 DEF A, ExactUndisturbed

-----------------------------------------------------------------------------
(* A client that asks for one page after the other. *)

\* The query for the page with the given number, counted from 0.
PageNumber(q, k) == [q EXCEPT !.offset = k * q.limit]

\* A rank lies in one of the intervals that consecutive pages cut out.
LEMMA PageOfRank ==
    ASSUME NEW rank \in Nat, NEW limit \in Nat \ {0}
    PROVE  \E k \in Nat : k * limit <= rank /\ rank < k * limit + limit
<1> DEFINE k == rank \div limit
<1>1. k \in Nat /\ k * limit <= rank /\ rank < k * limit + limit BY SMT
<1> QED BY <1>1

LEMMA PagesInOrder ==
    ASSUME NEW j \in Nat, NEW k \in Nat, j < k, NEW limit \in Nat \ {0}
    PROVE  /\ j * limit \in Nat /\ k * limit \in Nat
           /\ j * limit + limit <= k * limit
<1>1. j * limit \in Nat /\ k * limit \in Nat BY SMT
<1>2. (k - j - 1) * limit >= 0 BY SMT
<1>3. (k - j - 1) * limit = k * limit - j * limit - limit BY SMT
<1> QED BY <1>1, <1>2, <1>3

LEMMA NumberedPage ==
    ASSUME NEW q \in Searches \cup Lists, NEW k \in Nat
    PROVE  Page(PageNumber(q, k)) = Cut(Matches(q), k * q.limit, q.limit)
<1> DEFINE p == PageNumber(q, k)
<1>1. /\ p.limit = q.limit /\ p.offset = k * q.limit
      /\ p.prices = q.prices /\ p.categories = q.categories
  BY DEF PageNumber, Searches, Lists
<1>2. Matches(p) = Matches(q) BY <1>1 DEF Matches, Accepts
<1> HIDE DEF p
<1>3. Page(p) = Cut(Matches(q), k * q.limit, q.limit) BY <1>1, <1>2 DEF Page, Cut
<1> QED BY <1>3 DEF p

\* As long as nobody writes, the pages at the offsets 0, limit, 2 * limit and
\* so on show every match and nothing else, each match once, and in the order of
\* the ids from one page to the next: what a client of search_products or
\* list_products that pages through an answer relies on.
THEOREM PagesShowEachMatchOnce ==
    ASSUME TableTypeOK, NEW q \in Searches \cup Lists
    PROVE  /\ Matches(q) = UNION {Page(PageNumber(q, k)) : k \in Nat}
           /\ \A j, k \in Nat : j < k =>
                \A a \in Page(PageNumber(q, j)), b \in Page(PageNumber(q, k)) : a < b
<1> DEFINE M == Matches(q)
<1>1. M \in SUBSET Int /\ IsFiniteSet(M) BY MatchesFinite
<1>2. q.limit \in Nat \ {0} BY QueryParts
<1>3. Cardinality(M) \in Nat BY MatchesFinite
<1>4. ASSUME NEW id \in M PROVE Rank(M, id) \in Nat
  <2>1. Rank(M, id) \in 0..(Cardinality(M) - 1) BY <1>1, RankBelow
  <2> QED BY <1>3, <2>1
<1> HIDE DEF M
<1>5. ASSUME NEW id \in M PROVE \E k \in Nat : id \in Page(PageNumber(q, k))
  <2>1. PICK k \in Nat : k * q.limit <= Rank(M, id) /\ Rank(M, id) < k * q.limit + q.limit
    BY <1>2, <1>4, PageOfRank
  <2>2. id \in Cut(M, k * q.limit, q.limit) BY <2>1 DEF Cut
  <2> QED BY <2>2, NumberedPage DEF M
<1>6. ASSUME NEW k \in Nat PROVE Page(PageNumber(q, k)) \subseteq M
  BY NumberedPage DEF Cut, M
<1>7. ASSUME NEW j \in Nat, NEW k \in Nat, j < k,
             NEW a \in Page(PageNumber(q, j)), NEW b \in Page(PageNumber(q, k))
      PROVE  a < b
  <2>1. a \in Cut(M, j * q.limit, q.limit) /\ b \in Cut(M, k * q.limit, q.limit)
    BY NumberedPage DEF M
  <2>2. a \in M /\ b \in M BY <2>1 DEF Cut
  <2>3. Rank(M, a) < j * q.limit + q.limit /\ k * q.limit <= Rank(M, b)
    BY <2>1 DEF Cut
  <2>4. /\ j * q.limit \in Nat /\ k * q.limit \in Nat
        /\ j * q.limit + q.limit <= k * q.limit
    BY <1>2, <1>7, PagesInOrder
  <2>5. Rank(M, a) < Rank(M, b) BY <1>2, <1>4, <2>2, <2>3, <2>4
  <2>6. CASE b < a BY <1>1, <1>4, <2>2, <2>5, <2>6, RankRises
  <2>7. a # b BY <1>4, <2>2, <2>5
  <2>8. a \in Int /\ b \in Int BY <1>1, <2>2
  <2> QED BY <2>6, <2>7, <2>8
<1> QED BY <1>5, <1>6, <1>7 DEF M
=============================================================================
