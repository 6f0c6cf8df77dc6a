------------------------ MODULE CategoryEdits_proofs ------------------------
(***************************************************************************)
(* The category handlers one at a time, for any set of ids and any depth   *)
(* limit: the verdicts are exact, name the right reason, and keep the tree *)
(* within the limit.                                                       *)
(*                                                                         *)
(* That every category is within the limit is nearly inductive by itself;  *)
(* EInv adds that the rows are among Ids, so that NULL is no row.          *)
(***************************************************************************)
EXTENDS CategoryEdits, CategoryTree_proofs

EInv == DOMAIN par \subseteq Ids /\ WithinDepth(par)

\* What an INSERT and what an UPDATE of parent_id makes of the table.
LEMMA HungIs ==
    ASSUME NEW id, NEW p
    PROVE  /\ Hung(id, p) = WithLeaf(par, id, p)
           /\ id \in DOMAIN par => Hung(id, p) = Rehung(par, id, p)
<1>1. Hung(id, p) = WithLeaf(par, id, p) BY DEF Hung, WithLeaf
<1>2. ASSUME id \in DOMAIN par PROVE Hung(id, p) = Rehung(par, id, p)
  <2>1. DOMAIN par \cup {id} = DOMAIN par BY <1>2
  <2> QED BY <2>1 DEF Hung, Rehung
<1> QED BY <1>1, <1>2

LEMMA InitEInv == EditsInit => EInv
<1> SUFFICES ASSUME EditsInit PROVE EInv OBVIOUS
<1>1. DOMAIN par = {} BY DEF EditsInit
<1>2. [x \in DOMAIN par |-> 1] \in [DOMAIN par -> 1..MaxDepth] BY <1>1
<1>3. IsDepth(par, [x \in DOMAIN par |-> 1]) BY <1>1 DEF IsDepth
<1> QED BY <1>1, <1>2, <1>3 DEF EInv, WithinDepth, ForestWithin

LEMMA NullIsNoRow == ASSUME EInv PROVE NoParent \notin DOMAIN par
<1> QED BY IdsAssumption DEF EInv

LEMMA ExactVerdicts == ASSUME EInv PROVE VerdictsExact
<1>1. NoParent \notin DOMAIN par /\ WithinDepth(par) BY NullIsNoRow DEF EInv
<1>2. ASSUME NEW id \in Ids \ DOMAIN par, NEW p \in Ids
      PROVE  ParentVerdict(par, p) = "ok" <=> WithinDepth(Hung(id, p))
  <2>1. id # NoParent /\ p # NoParent BY IdsAssumption
  <2>2. Hung(id, p) = WithLeaf(par, id, p) BY HungIs
  <2> QED BY <1>1, <2>1, <2>2, ParentVerdictExact
<1>3. ASSUME NEW id \in DOMAIN par, NEW p \in Ids \cup {NoParent}
      PROVE  ReparentVerdict(par, id, p) = "ok" <=> WithinDepth(Hung(id, p))
  <2>1. Hung(id, p) = Rehung(par, id, p) BY HungIs
  <2> QED BY <1>1, <2>1, ReparentVerdictExact
<1> QED BY <1>2, <1>3 DEF VerdictsExact

LEMMA StepEInv == ASSUME EInv, EditsNext PROVE EInv'
<1>1. NoParent \notin DOMAIN par /\ WithinDepth(par) BY NullIsNoRow DEF EInv
<1>2. PICK d : HasDepth(par, d) /\ \A x \in DOMAIN par : d[x] <= MaxDepth
  BY <1>1, WithinDepthIff
<1>3. CASE Create
  <2>1. PICK id \in Ids \ DOMAIN par, p \in Ids \cup {NoParent} :
          /\ p # NoParent => ParentVerdict(par, p) = "ok"
          /\ par' = Hung(id, p)
    BY <1>3 DEF Create
  <2>2. id # NoParent BY IdsAssumption
  <2>3. par' = WithLeaf(par, id, p) BY <2>1, HungIs
  <2>4. DOMAIN par' = DOMAIN par \cup {id} BY <2>3 DEF WithLeaf
  <2>5. CASE p # NoParent
    <3>1. WithinDepth(WithLeaf(par, id, p)) BY <1>1, <2>1, <2>2, <2>5, ParentVerdictExact
    <3> QED BY <2>3, <2>4, <3>1 DEF EInv
  <2>6. CASE p = NoParent
    <3> DEFINE e == LeafDepth(par, d, id, 0)
    <3>1. HasDepth(par', e)
      <4>1. BaseDepth(d, p) = 0 BY <2>6 DEF BaseDepth
      <4> QED BY <1>2, <2>2, <2>3, <2>6, <4>1, WithLeafHasDepth
    <3>2. \A x \in DOMAIN par' : e[x] <= MaxDepth BY <1>2, <2>4, MaxDepthAssumption DEF LeafDepth
    <3>3. NoParent \notin DOMAIN par' BY <1>1, <2>2, <2>4
    <3> HIDE DEF e
    <3>4. WithinDepth(par') BY <3>1, <3>2, <3>3, WithinDepthIff
    <3> QED BY <2>4, <3>4 DEF EInv, WithinDepth, ForestWithin, IsDepth
  <2> QED BY <2>5, <2>6
<1>4. CASE Move
  <2>1. PICK id \in DOMAIN par, p \in Ids \cup {NoParent} :
          ReparentVerdict(par, id, p) = "ok" /\ par' = Hung(id, p)
    BY <1>4 DEF Move
  <2>2. par' = Rehung(par, id, p) BY <2>1, HungIs
  <2>3. DOMAIN par' = DOMAIN par BY <2>2 DEF Rehung
  <2>4. WithinDepth(Rehung(par, id, p)) BY <1>1, <2>1, ReparentVerdictExact
  <2> QED BY <2>2, <2>3, <2>4 DEF EInv
<1>5. CASE Delete
  <2>1. PICK id \in DOMAIN par : par' = Pruned(par, id) BY <1>5 DEF Delete, Pruned
  <2> DEFINE e == PrunedDepth(par, d, id)
  <2>2. HasDepth(par', e) BY <1>2, <2>1, PrunedHasDepth
  <2>3. DOMAIN par' \subseteq DOMAIN par /\ \A x \in DOMAIN par' : e[x] = d[x]
    BY <2>1 DEF Pruned, PrunedDepth
  <2> HIDE DEF e
  <2>4. \A x \in DOMAIN par' : e[x] <= MaxDepth BY <1>2, <2>3
  <2>5. WithinDepth(par') BY <1>1, <2>2, <2>3, <2>4, WithinDepthIff
  <2> QED BY <2>3, <2>5 DEF EInv
<1> QED BY <1>3, <1>4, <1>5 DEF EditsNext

LEMMA EditsEInv == EditsSpec => []EInv
<1>1. EInv /\ UNCHANGED par => EInv' BY DEF EInv, WithinDepth, ForestWithin, IsDepth
<1>2. EInv /\ [EditsNext]_par => EInv' BY <1>1, StepEInv
<1> QED BY <1>2, InitEInv, PTL DEF EditsSpec

-----------------------------------------------------------------------------
(* The theorems. *)

\* One at a time, create_category, update_category and delete_category keep
\* every parent present, the links free of cycles and every category within
\* MAX_CATEGORY_DEPTH.
THEOREM DepthKeptOneAtATime == EditsSpec => []StaysWithinDepth
<1>1. EInv => StaysWithinDepth BY DEF EInv, StaysWithinDepth
<1> QED BY <1>1, EditsEInv, PTL

\* validate_category_parent and validate_category_reparent refuse a request if
\* and only if its write would break that: the walks, cut off one row past the
\* limit, refuse nothing that fits and let nothing through that does not.
THEOREM VerdictsAreExact == EditsSpec => []VerdictsExact
<1> QED BY EditsEInv, ExactVerdicts, PTL

\* "cycle_detected" is the answer if and only if the move would close a cycle.
THEOREM CyclesReportedExactly == EditsSpec => []CycleReportedExactly
<1>1. ASSUME EInv, NEW id \in DOMAIN par, NEW p \in DOMAIN par
      PROVE  ReparentVerdict(par, id, p) = "cycle_detected" <=> ~ Acyclic(Hung(id, p))
  <2>1. NoParent \notin DOMAIN par /\ WithinDepth(par) BY <1>1, NullIsNoRow DEF EInv
  <2>2. PICK d : HasDepth(par, d) /\ \A x \in DOMAIN par : d[x] <= MaxDepth
    BY <2>1, WithinDepthIff
  <2>3. ReparentVerdict(par, id, p) = "cycle_detected" <=> p \in Subtree(par, id)
    BY <2>1, <2>2, ReparentVerdictIs
  <2>4. p \notin Subtree(par, id) => Acyclic(Rehung(par, id, p))
    BY <2>2, RehungHasDepth, DepthMeansAcyclic
  <2>5. Hung(id, p) = Rehung(par, id, p) BY HungIs
  <2> QED BY <2>3, <2>4, <2>5, HungBelowItself
<1>2. EInv => CycleReportedExactly BY <1>1 DEF CycleReportedExactly
<1> QED BY <1>2, EditsEInv, PTL

\* The subtree query, walking down, returns the ids whose chain of parents,
\* walked up, leads to the root.
THEOREM SubtreesAreDescendants == EditsSpec => []SubtreeIsDescendants
<1>1. ASSUME EInv, NEW root \in DOMAIN par
      PROVE  Subtree(par, root) = {x \in DOMAIN par : Contains(AncestorChain(par, x), root)}
  <2>1. NoParent \notin DOMAIN par /\ WithinDepth(par) BY <1>1, NullIsNoRow DEF EInv
  <2>2. PICK d : HasDepth(par, d) /\ \A x \in DOMAIN par : d[x] <= MaxDepth
    BY <2>1, WithinDepthIff
  <2>3. \A x \in DOMAIN par : Contains(AncestorChain(par, x), root) <=> x \in Subtree(par, root)
    BY <2>2, ChainIsExact
  <2>4. Subtree(par, root) \subseteq DOMAIN par BY SubtreeRoot
  <2> QED BY <2>3, <2>4
<1>2. EInv => SubtreeIsDescendants BY <1>1 DEF SubtreeIsDescendants
<1> QED BY <1>2, EditsEInv, PTL
=============================================================================
