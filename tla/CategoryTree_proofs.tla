------------------------- MODULE CategoryTree_proofs -------------------------
(***************************************************************************)
(* Facts about the queries of CategoryTree, for every table and every      *)
(* depth limit: what the two depth-limited walks find in a well-formed     *)
(* table, and what a create, a move, a detachment or a delete that the     *)
(* verdicts allow makes of it.                                             *)
(***************************************************************************)
EXTENDS CategoryTree, FiniteSetTheorems, WellFoundedInduction, TLAPS

(* Induction on natural numbers in the only form needed here. *)

LEMMA LeastElement ==
    ASSUME NEW T \in SUBSET Nat, T # {}
    PROVE  \E m \in T : \A y \in T : m <= y
<1> DEFINE R == OpToRel(<, Nat)
<1>1. IsWellFoundedOn(R, Nat) BY NatLessThanWellFounded
<1>2. T \subseteq Nat OBVIOUS
<1> HIDE DEF R
<1>3. \E x \in T : \A y \in T : ~ (<<y, x>> \in R) BY <1>1, <1>2, WFMin
<1>4. ASSUME NEW x \in Nat, NEW y \in Nat, <<y, x>> \notin R PROVE x <= y
  BY <1>4 DEF R, OpToRel
<1> QED BY <1>2, <1>3, <1>4

\* A set of naturals that holds 1 and, with j, j + 1 up to n, holds 1..n.
LEMMA ClimbTo ==
    ASSUME NEW n \in Nat, NEW G, n # 0 => 1 \in G,
           \A j \in 1..n : j \in G /\ j + 1 <= n => j + 1 \in G
    PROVE  1..n \subseteq G
<1> DEFINE Bad == {j \in 1..n : j \notin G}
<1> SUFFICES ASSUME Bad # {} PROVE FALSE OBVIOUS
<1>1. PICK m \in Bad : \A y \in Bad : m <= y
  <2>1. Bad \in SUBSET Nat OBVIOUS
  <2> QED BY <2>1, LeastElement
<1>2. m # 1 BY <1>1
<1>3. m - 1 \in 1..n /\ m - 1 \notin Bad BY <1>1, <1>2
<1>4. m - 1 \in G BY <1>3
<1>5. (m - 1) + 1 = m BY <1>1
<1>6. m \in G BY <1>1, <1>3, <1>4, <1>5
<1> QED BY <1>1, <1>6

-----------------------------------------------------------------------------
(* A recursive CTE, unfolded. *)

Unfolded(level, first, step, n) ==
    /\ DOMAIN level = 1..n
    /\ \A k \in 1..n : level[k] = IF k = 1 THEN first ELSE step[level[k - 1]]

LEMMA LevelsUnfold ==
    ASSUME NEW U, NEW first \in SUBSET U, NEW step \in [SUBSET U -> SUBSET U],
           NEW n \in Nat
    PROVE  Unfolded(Levels(first, step, n), first, step, n)
<1> DEFINE Good(m, g) == g = [k \in 1..m |-> IF k = 1 THEN first ELSE step[g[k - 1]]]
<1> DEFINE Bad == {m \in Nat : ~ \E g : Good(m, g)}
<1>1. Bad = {}
  <2> SUFFICES ASSUME Bad # {} PROVE FALSE OBVIOUS
  <2> HIDE DEF Good
  <2>1. PICK m \in Bad : \A y \in Bad : m <= y BY LeastElement
  <2>2. CASE m = 0
    <3> DEFINE g == [k \in 1..0 |-> first]
    <3>1. Good(0, g) BY DEF Good
    <3> HIDE DEF g
    <3> QED BY <2>1, <2>2, <3>1
  <2>3. CASE m # 0
    <3>1. m - 1 \in Nat /\ m - 1 \notin Bad BY <2>1, <2>3
    <3>2. PICK h : Good(m - 1, h) BY <3>1
    <3> DEFINE g == [k \in 1..m |-> IF k = 1 THEN first ELSE step[h[k - 1]]]
    <3>3. ASSUME NEW k \in 1..(m - 1) PROVE g[k] = h[k]
      <4>1. h = [j \in 1..(m - 1) |-> IF j = 1 THEN first ELSE step[h[j - 1]]]
        BY <3>2 DEF Good
      <4>2. h[k] = IF k = 1 THEN first ELSE step[h[k - 1]]
        <5> HIDE DEF g
        <5> QED BY <4>1
      <4>3. k \in 1..m BY <3>1
      <4> QED BY <4>2, <4>3
    <3>4. ASSUME NEW k \in 1..m
          PROVE  g[k] = IF k = 1 THEN first ELSE step[g[k - 1]]
      <4>1. k # 1 => k - 1 \in 1..(m - 1) BY <3>1
      <4> QED BY <3>3, <4>1
    <3>5. g = [k \in 1..m |-> g[k]] OBVIOUS
    <3> HIDE DEF g
    <3>6. Good(m, g) BY <3>4, <3>5 DEF Good
    <3> QED BY <2>1, <3>6
  <2> QED BY <2>2, <2>3
<1>2. \E g : Good(n, g) BY <1>1
<1>3. Levels(first, step, n) = CHOOSE g : Good(n, g) BY DEF Levels
<1> HIDE DEF Good
<1> DEFINE L == Levels(first, step, n)
<1>4. Good(n, L) BY <1>2, <1>3
<1> HIDE DEF L
<1>5. L = [k \in 1..n |-> IF k = 1 THEN first ELSE step[L[k - 1]]] BY <1>4 DEF Good
<1>6. DOMAIN L = 1..n BY <1>5
<1>7. \A k \in 1..n : L[k] = IF k = 1 THEN first ELSE step[L[k - 1]] BY <1>5
<1> QED BY <1>6, <1>7 DEF L, Unfolded

-----------------------------------------------------------------------------
(* SELECT max(depth) is the last depth that has rows. *)

IsLastLevel(d, chain) ==
    /\ d \in 0..DepthLimit
    /\ d # 0 => chain[d] # {}
    /\ \A k \in (d + 1)..DepthLimit : chain[k] = {}

LEMMA ChainDepthIsLast ==
    ASSUME NEW chain
    PROVE  IsLastLevel(ChainDepth(chain), chain)
<1> DEFINE T == {d \in 0..DepthLimit : \A k \in (d + 1)..DepthLimit : chain[k] = {}}
<1>1. DepthLimit \in Nat BY MaxDepthAssumption DEF DepthLimit
<1>2. T \in SUBSET Nat /\ T # {}
  <2>1. DepthLimit \in T BY <1>1
  <2> QED BY <1>1, <2>1
<1>3. PICK m \in T : \A y \in T : m <= y BY <1>2, LeastElement
<1>4. m # 0 => chain[m] # {}
  <2> SUFFICES ASSUME m # 0, chain[m] = {} PROVE FALSE OBVIOUS
  <2>1. m \in 1..DepthLimit /\ m - 1 \in 0..DepthLimit BY <1>1, <1>3
  <2>2. \A k \in ((m - 1) + 1)..DepthLimit : k = m \/ k \in (m + 1)..DepthLimit
    BY <1>1, <2>1
  <2>3. \A k \in ((m - 1) + 1)..DepthLimit : chain[k] = {} BY <1>3, <2>2
  <2>4. m - 1 \in T BY <2>1, <2>3
  <2> QED BY <1>3, <2>1, <2>4
<1>5. m \in 0..DepthLimit /\ \A k \in (m + 1)..DepthLimit : chain[k] = {} BY <1>3
<1>6. \E d \in 0..DepthLimit :
        (d # 0 => chain[d] # {}) /\ \A k \in (d + 1)..DepthLimit : chain[k] = {}
  BY <1>4, <1>5
<1>7. /\ ChainDepth(chain) \in 0..DepthLimit
      /\ ChainDepth(chain) # 0 => chain[ChainDepth(chain)] # {}
      /\ \A k \in (ChainDepth(chain) + 1)..DepthLimit : chain[k] = {}
  BY <1>6 DEF ChainDepth
<1> QED BY <1>7 DEF IsLastLevel

LEMMA AncestorLevels ==
    ASSUME NEW par, NEW p
    PROVE  Unfolded(AncestorChain(par, p), {p} \cap DOMAIN par, ParentsOf(par), DepthLimit)
<1>1. {p} \cap DOMAIN par \in SUBSET DOMAIN par OBVIOUS
<1>2. ParentsOf(par) \in [SUBSET DOMAIN par -> SUBSET DOMAIN par] BY DEF ParentsOf
<1>3. DepthLimit \in Nat BY MaxDepthAssumption DEF DepthLimit
<1> QED BY <1>1, <1>2, <1>3, LevelsUnfold DEF AncestorChain

LEMMA DescendantLevels ==
    ASSUME NEW par, NEW id
    PROVE  Unfolded(DescendantChain(par, id), {id} \cap DOMAIN par, ChildrenOf(par), DepthLimit)
<1>1. {id} \cap DOMAIN par \in SUBSET DOMAIN par OBVIOUS
<1>2. ChildrenOf(par) \in [SUBSET DOMAIN par -> SUBSET DOMAIN par] BY DEF ChildrenOf
<1>3. DepthLimit \in Nat BY MaxDepthAssumption DEF DepthLimit
<1> QED BY <1>1, <1>2, <1>3, LevelsUnfold DEF DescendantChain

\* The levels are sets of rows.
LevelsIn(level, n, U) == \A k \in 1..n : level[k] \subseteq U

LEMMA LevelsAreRows ==
    ASSUME NEW U, NEW first \in SUBSET U, NEW step \in [SUBSET U -> SUBSET U],
           NEW n \in Nat, NEW level, Unfolded(level, first, step, n)
    PROVE  LevelsIn(level, n, U)
<1>1. \A k \in 1..n : level[k] = IF k = 1 THEN first ELSE step[level[k - 1]] BY DEF Unfolded
<1> DEFINE G == {k \in 1..n : level[k] \in SUBSET U}
<1>2. n # 0 => 1 \in G BY <1>1
<1>3. \A j \in 1..n : j \in G /\ j + 1 <= n => j + 1 \in G
  <2> SUFFICES ASSUME NEW j \in 1..n, j \in G, j + 1 <= n PROVE j + 1 \in G OBVIOUS
  <2>1. j + 1 \in 1..n /\ j + 1 # 1 /\ (j + 1) - 1 = j OBVIOUS
  <2>2. level[j + 1] = step[level[j]] BY <1>1, <2>1
  <2> QED BY <2>1, <2>2
<1> HIDE DEF G
<1>4. 1..n \subseteq G BY <1>2, <1>3, ClimbTo
<1> QED BY <1>4 DEF G, LevelsIn

\* The walk upwards: who is in it, and what one step up adds.
ClimbsFrom(level, par, p) ==
    /\ p \in level[1]
    /\ DOMAIN level = 1..DepthLimit
    /\ \A k \in 1..DepthLimit : level[k] \subseteq DOMAIN par
    /\ \A k \in 1..DepthLimit : \A x \in level[k] :
         k + 1 <= DepthLimit /\ par[x] \in DOMAIN par => par[x] \in level[k + 1]

LEMMA AncestorWalk ==
    ASSUME NEW par, NEW p \in DOMAIN par
    PROVE  ClimbsFrom(AncestorChain(par, p), par, p)
<1> DEFINE A == AncestorChain(par, p)
<1>0. DepthLimit \in Nat \ {0} BY MaxDepthAssumption DEF DepthLimit
<1>1. Unfolded(A, {p} \cap DOMAIN par, ParentsOf(par), DepthLimit) BY AncestorLevels
<1> HIDE DEF A
<1>2. ParentsOf(par) \in [SUBSET DOMAIN par -> SUBSET DOMAIN par] BY DEF ParentsOf
<1>3. \A k \in 1..DepthLimit : A[k] \in SUBSET DOMAIN par
  <2>1. {p} \cap DOMAIN par \in SUBSET DOMAIN par OBVIOUS
  <2>2. LevelsIn(A, DepthLimit, DOMAIN par) BY <1>0, <1>1, <1>2, <2>1, LevelsAreRows
  <2> QED BY <2>2 DEF LevelsIn
<1>4. DOMAIN A = 1..DepthLimit /\ p \in A[1] BY <1>0, <1>1 DEF Unfolded
<1>5. ASSUME NEW k \in 1..DepthLimit, NEW x \in A[k], k + 1 <= DepthLimit, par[x] \in DOMAIN par
      PROVE  par[x] \in A[k + 1]
  <2>1. k + 1 \in 1..DepthLimit /\ k + 1 # 1 /\ (k + 1) - 1 = k BY <1>0, <1>5
  <2>2. A[k + 1] = ParentsOf(par)[A[k]] BY <1>1, <2>1 DEF Unfolded
  <2>3. ParentsOf(par)[A[k]] = {z \in DOMAIN par : \E y \in A[k] : par[y] = z}
    BY <1>3 DEF ParentsOf
  <2> QED BY <1>5, <2>2, <2>3
<1> QED BY <1>3, <1>4, <1>5 DEF A, ClimbsFrom

\* The walk downwards.
DescendsFrom(level, par, id) ==
    /\ id \in level[1]
    /\ \A k \in 1..DepthLimit : \A x \in level[k], y \in DOMAIN par :
         k + 1 <= DepthLimit /\ par[y] = x => y \in level[k + 1]

LEMMA DescendantWalk ==
    ASSUME NEW par, NEW id \in DOMAIN par
    PROVE  DescendsFrom(DescendantChain(par, id), par, id)
<1> DEFINE A == DescendantChain(par, id)
<1>0. DepthLimit \in Nat \ {0} BY MaxDepthAssumption DEF DepthLimit
<1>1. Unfolded(A, {id} \cap DOMAIN par, ChildrenOf(par), DepthLimit) BY DescendantLevels
<1> HIDE DEF A
<1>2. ChildrenOf(par) \in [SUBSET DOMAIN par -> SUBSET DOMAIN par] BY DEF ChildrenOf
<1>3. \A k \in 1..DepthLimit : A[k] \in SUBSET DOMAIN par
  <2>1. {id} \cap DOMAIN par \in SUBSET DOMAIN par OBVIOUS
  <2>2. LevelsIn(A, DepthLimit, DOMAIN par) BY <1>0, <1>1, <1>2, <2>1, LevelsAreRows
  <2> QED BY <2>2 DEF LevelsIn
<1>4. id \in A[1] BY <1>0, <1>1 DEF Unfolded
<1>5. ASSUME NEW k \in 1..DepthLimit, NEW x \in A[k], NEW y \in DOMAIN par,
             k + 1 <= DepthLimit, par[y] = x
      PROVE  y \in A[k + 1]
  <2>1. k + 1 \in 1..DepthLimit /\ k + 1 # 1 /\ (k + 1) - 1 = k BY <1>0, <1>5
  <2>2. A[k + 1] = ChildrenOf(par)[A[k]] BY <1>1, <2>1 DEF Unfolded
  <2>3. ChildrenOf(par)[A[k]] = {z \in DOMAIN par : par[z] \in A[k]} BY <1>3 DEF ChildrenOf
  <2> QED BY <1>5, <2>2, <2>3
<1> QED BY <1>4, <1>5 DEF A, DescendsFrom

-----------------------------------------------------------------------------
(* Subtrees. *)

LEMMA SubtreeLeast ==
    ASSUME NEW par, NEW id, NEW S \in SUBSET DOMAIN par, id \in S, ClosedUnderChildren(par, S)
    PROVE  Subtree(par, id) \subseteq S
<1> QED BY DEF Subtree

LEMMA SubtreeClosed ==
    ASSUME NEW par, NEW id
    PROVE  ClosedUnderChildren(par, Subtree(par, id))
<1> SUFFICES ASSUME NEW x \in DOMAIN par, par[x] \in Subtree(par, id),
                    NEW S \in SUBSET DOMAIN par, id \in S, ClosedUnderChildren(par, S)
             PROVE  x \in S
  BY DEF ClosedUnderChildren, Subtree
<1>1. par[x] \in S BY SubtreeLeast
<1> QED BY <1>1 DEF ClosedUnderChildren

LEMMA SubtreeRoot ==
    ASSUME NEW par, NEW id \in DOMAIN par
    PROVE  id \in Subtree(par, id) /\ Subtree(par, id) \subseteq DOMAIN par
<1> QED BY DEF Subtree

LEMMA SubtreeOfNothing ==
    ASSUME NEW par, NEW id, id \notin DOMAIN par
    PROVE  Subtree(par, id) = {}
<1>1. ClosedUnderChildren(par, {}) BY DEF ClosedUnderChildren
<1>2. {} \in SUBSET DOMAIN par /\ {id} \cap DOMAIN par \subseteq {} OBVIOUS
<1> QED BY <1>1, <1>2 DEF Subtree

LEMMA SubtreeParents ==
    ASSUME NEW par, NEW id \in DOMAIN par, NEW x \in Subtree(par, id), x # id
    PROVE  par[x] \in Subtree(par, id)
<1> DEFINE T == {y \in Subtree(par, id) : y = id \/ par[y] \in Subtree(par, id)}
<1>1. T \in SUBSET DOMAIN par /\ id \in T BY SubtreeRoot
<1>2. ClosedUnderChildren(par, T)
  <2> SUFFICES ASSUME NEW y \in DOMAIN par, par[y] \in T PROVE y \in T
    BY DEF ClosedUnderChildren
  <2>1. par[y] \in Subtree(par, id) OBVIOUS
  <2>2. y \in Subtree(par, id) BY <2>1, SubtreeClosed DEF ClosedUnderChildren
  <2> QED BY <2>1, <2>2
<1>3. Subtree(par, id) \subseteq T BY <1>1, <1>2, SubtreeLeast
<1> QED BY <1>3

LEMMA SubtreeNested ==
    ASSUME NEW par, NEW id \in DOMAIN par, NEW y \in Subtree(par, id)
    PROVE  Subtree(par, y) \subseteq Subtree(par, id)
<1>1. Subtree(par, id) \in SUBSET DOMAIN par BY SubtreeRoot
<1> QED BY <1>1, SubtreeClosed, SubtreeLeast

\* A table whose links are among the links of another has smaller subtrees.
LEMMA SubtreeShrinks ==
    ASSUME NEW par, NEW par2, NEW id \in DOMAIN par2, id \in DOMAIN par,
           \A x \in DOMAIN par2 :
              par2[x] \in DOMAIN par2 => x \in DOMAIN par /\ par[x] = par2[x]
    PROVE  Subtree(par2, id) \subseteq Subtree(par, id)
<1> DEFINE S == Subtree(par, id) \cap DOMAIN par2
<1>1. S \in SUBSET DOMAIN par2 /\ id \in S BY SubtreeRoot
<1>2. ClosedUnderChildren(par2, S)
  <2> SUFFICES ASSUME NEW x \in DOMAIN par2, par2[x] \in S PROVE x \in S
    BY DEF ClosedUnderChildren
  <2>1. x \in DOMAIN par /\ par[x] = par2[x] OBVIOUS
  <2> QED BY <2>1, SubtreeClosed DEF ClosedUnderChildren
<1>3. Subtree(par2, id) \subseteq S BY <1>1, <1>2, SubtreeLeast
<1> QED BY <1>3

-----------------------------------------------------------------------------
(* Depth. *)

HasDepth(par, d) ==
    /\ d \in [DOMAIN par -> Nat \ {0}]
    /\ NoParent \notin DOMAIN par
    /\ IsDepth(par, d)

\* A table in which every row has a depth has no cycle of parent links.
LEMMA DepthMeansAcyclic ==
    ASSUME NEW par, NEW d, HasDepth(par, d)
    PROVE  Acyclic(par)
<1> SUFFICES ASSUME NEW S \in (SUBSET DOMAIN par) \ {{}}, \A x \in S : par[x] \in S
             PROVE  FALSE
  BY DEF Acyclic
<1> DEFINE T == {d[x] : x \in S}
<1>1. T \in SUBSET Nat /\ T # {} BY DEF HasDepth
<1>2. PICK m \in T : \A y \in T : m <= y BY <1>1, LeastElement
<1>3. PICK x \in S : m = d[x] BY <1>2
<1>4. par[x] \in S /\ par[x] # NoParent /\ x \in DOMAIN par /\ par[x] \in DOMAIN par BY DEF HasDepth
<1>5. d[x] = d[par[x]] + 1 BY <1>4 DEF HasDepth, IsDepth
<1>6. d[par[x]] \in T /\ d[par[x]] \in Nat BY <1>4 DEF HasDepth
<1> HIDE DEF T
<1> QED BY <1>2, <1>3, <1>5, <1>6

LEMMA SubtreeIsBelow ==
    ASSUME NEW par, NEW d, HasDepth(par, d), NEW id \in DOMAIN par
    PROVE  \A x \in Subtree(par, id) : d[x] >= d[id]
<1> DEFINE S == {x \in DOMAIN par : d[x] >= d[id]}
<1>0. \A x \in DOMAIN par : d[x] \in Nat BY DEF HasDepth
<1>1. S \in SUBSET DOMAIN par /\ id \in S BY <1>0
<1>2. ClosedUnderChildren(par, S)
  <2> SUFFICES ASSUME NEW x \in DOMAIN par, par[x] \in S PROVE x \in S
    BY DEF ClosedUnderChildren
  <2>1. d[x] = d[par[x]] + 1 BY DEF HasDepth, IsDepth
  <2> QED BY <1>0, <2>1
<1> HIDE DEF S
<1>3. Subtree(par, id) \subseteq S BY <1>1, <1>2, SubtreeLeast
<1> QED BY <1>3 DEF S

-----------------------------------------------------------------------------
(* What an "ok" from the two validations means. *)

\* The walk upwards, cut off at MaxDepth + 1 rows, has seen every ancestor of
\* the candidate parent when it is no longer than MaxDepth: the comparison
\* with the moved row then misses no cycle.
LEMMA NoAncestorMissed ==
    ASSUME NEW par, NEW id \in DOMAIN par, NEW p \in DOMAIN par,
           ChainDepth(AncestorChain(par, p)) <= MaxDepth,
           ~ Contains(AncestorChain(par, p), id)
    PROVE  p \notin Subtree(par, id)
<1> DEFINE A == AncestorChain(par, p)
<1>1. ClimbsFrom(A, par, p) /\ IsLastLevel(ChainDepth(A), A) BY AncestorWalk, ChainDepthIsLast
<1>2. ~ Contains(A, id) /\ ChainDepth(A) <= MaxDepth OBVIOUS
<1>3. DepthLimit = MaxDepth + 1 /\ MaxDepth \in Nat \ {0} BY MaxDepthAssumption DEF DepthLimit
<1> HIDE DEF A
<1>4. A[DepthLimit] = {} BY <1>1, <1>2, <1>3 DEF IsLastLevel
<1> DEFINE S == {x \in DOMAIN par : \A k \in 1..DepthLimit : x \notin A[k]}
<1>5. S \in SUBSET DOMAIN par /\ id \in S BY <1>1, <1>2 DEF Contains, ClimbsFrom
<1>6. ClosedUnderChildren(par, S)
  <2> SUFFICES ASSUME NEW x \in DOMAIN par, par[x] \in S,
                      NEW k \in 1..DepthLimit, x \in A[k]
               PROVE  FALSE
    BY DEF ClosedUnderChildren
  <2>1. k # DepthLimit BY <1>4
  <2>2. k + 1 \in 1..DepthLimit /\ k + 1 <= DepthLimit BY <1>3, <2>1
  <2>3. par[x] \in A[k + 1] BY <1>1, <2>2 DEF ClimbsFrom
  <2> QED BY <2>2, <2>3
<1>7. p \notin S BY <1>1, <1>3 DEF ClimbsFrom
<1> HIDE DEF S
<1>8. Subtree(par, id) \subseteq S BY <1>5, <1>6, SubtreeLeast
<1> QED BY <1>7, <1>8

\* The length of that walk bounds the depth of the candidate parent.
LEMMA ChainBoundsDepth ==
    ASSUME NEW par, NEW d, HasDepth(par, d), NEW p \in DOMAIN par,
           ChainDepth(AncestorChain(par, p)) <= MaxDepth
    PROVE  d[p] <= ChainDepth(AncestorChain(par, p))
<1> DEFINE A == AncestorChain(par, p)
<1> DEFINE k == ChainDepth(A)
<1>1. ClimbsFrom(A, par, p) /\ IsLastLevel(k, A) BY AncestorWalk, ChainDepthIsLast
<1>2. k <= MaxDepth OBVIOUS
<1>3. DepthLimit = MaxDepth + 1 /\ MaxDepth \in Nat \ {0} BY MaxDepthAssumption DEF DepthLimit
<1> HIDE DEF A, k
<1>4. SUFFICES ASSUME d[p] > k PROVE FALSE
  <2>1. k \in Nat /\ d[p] \in Nat BY <1>1, <1>3 DEF IsLastLevel, HasDepth
  <2> QED BY <2>1 DEF k, A
<1>5. k \in Nat /\ d[p] \in Nat /\ k + 1 \in 1..DepthLimit
  BY <1>1, <1>2, <1>3 DEF IsLastLevel, HasDepth
<1> DEFINE n == k + 1
<1> DEFINE G == {j \in 1..n : \E y \in A[j] : d[y] = d[p] - j + 1}
<1>6. 1 \in G BY <1>1, <1>5 DEF ClimbsFrom
<1>7. ASSUME NEW j \in 1..n, j \in G, j + 1 <= n PROVE j + 1 \in G
  <2>1. PICK y \in A[j] : d[y] = d[p] - j + 1 BY <1>7
  <2>2. j \in 1..DepthLimit /\ j + 1 <= DepthLimit /\ j < d[p] BY <1>3, <1>4, <1>5, <1>7
  <2>3. y \in DOMAIN par BY <1>1, <2>2 DEF ClimbsFrom
  <2>4. d[y] > 1 BY <1>5, <2>1, <2>2
  <2>5. par[y] \in DOMAIN par /\ d[y] = d[par[y]] + 1 BY <2>3, <2>4 DEF HasDepth, IsDepth
  <2>6. par[y] \in A[j + 1] BY <1>1, <2>2, <2>5 DEF ClimbsFrom
  <2>7. d[par[y]] \in Nat BY <2>5 DEF HasDepth
  <2>8. d[par[y]] = d[p] - (j + 1) + 1 BY <1>5, <2>1, <2>5, <2>7
  <2> QED BY <1>5, <1>7, <2>6, <2>8
<1>8. 1..n \subseteq G
  <2> HIDE DEF G
  <2> QED BY <1>5, <1>6, <1>7, ClimbTo
<1>9. n \in G BY <1>5, <1>8
<1>10. A[n] # {} BY <1>9
<1>11. A[n] = {} BY <1>1, <1>5 DEF IsLastLevel
<1> QED BY <1>10, <1>11

\* The height of the moved subtree bounds how far its rows are below its root.
LEMMA HeightBoundsSubtree ==
    ASSUME NEW par, NEW d, HasDepth(par, d), NEW id \in DOMAIN par,
           SubtreeHeight(par, id) <= MaxDepth
    PROVE  \A x \in Subtree(par, id) : d[x] - d[id] + 1 <= SubtreeHeight(par, id)
<1> DEFINE A == DescendantChain(par, id)
<1> DEFINE k == ChainDepth(A)
<1>1. DescendsFrom(A, par, id) /\ IsLastLevel(k, A) BY DescendantWalk, ChainDepthIsLast
<1>2. DepthLimit = MaxDepth + 1 /\ MaxDepth \in Nat \ {0} BY MaxDepthAssumption DEF DepthLimit
<1>3. k # 0
  <2> HIDE DEF A, k
  <2> SUFFICES ASSUME k = 0 PROVE FALSE OBVIOUS
  <2>1. 1 \in (k + 1)..DepthLimit BY <1>2
  <2> QED BY <1>1, <2>1 DEF IsLastLevel, DescendsFrom
<1>4. SubtreeHeight(par, id) = k BY <1>3 DEF SubtreeHeight
<1>5. k <= MaxDepth BY <1>4
<1> HIDE DEF A, k
<1>6. A[DepthLimit] = {} BY <1>1, <1>2, <1>5 DEF IsLastLevel
<1> DEFINE S == {x \in DOMAIN par : \E j \in 1..DepthLimit : x \in A[j] /\ d[x] = d[id] + j - 1}
<1>7. \A x \in DOMAIN par : d[x] \in Nat BY DEF HasDepth
<1>8. S \in SUBSET DOMAIN par /\ id \in S
  <2>1. 1 \in 1..DepthLimit /\ id \in A[1] /\ d[id] = d[id] + 1 - 1
    BY <1>1, <1>2, <1>7 DEF DescendsFrom
  <2> QED BY <2>1
<1>9. ClosedUnderChildren(par, S)
  <2> SUFFICES ASSUME NEW y \in DOMAIN par, par[y] \in S PROVE y \in S
    BY DEF ClosedUnderChildren
  <2>1. PICK j \in 1..DepthLimit : par[y] \in A[j] /\ d[par[y]] = d[id] + j - 1 OBVIOUS
  <2>2. j # DepthLimit BY <1>6, <2>1
  <2>3. j + 1 \in 1..DepthLimit /\ j + 1 <= DepthLimit BY <1>2, <2>2
  <2>4. y \in A[j + 1] BY <1>1, <2>1, <2>3 DEF DescendsFrom
  <2>5. d[y] = d[par[y]] + 1 /\ par[y] \in DOMAIN par BY DEF HasDepth, IsDepth
  <2>6. d[y] = d[id] + (j + 1) - 1 BY <1>7, <2>1, <2>5
  <2> QED BY <2>3, <2>4, <2>6
<1>10. Subtree(par, id) \subseteq S
  <2> HIDE DEF S
  <2> QED BY <1>8, <1>9, SubtreeLeast
<1> SUFFICES ASSUME NEW x \in Subtree(par, id) PROVE d[x] - d[id] + 1 <= k BY <1>4
<1>11. PICK j \in 1..DepthLimit : x \in A[j] /\ d[x] = d[id] + j - 1 BY <1>10
<1>12. k \in Nat /\ j <= k
  <2>1. k \in Nat /\ \A i \in (k + 1)..DepthLimit : A[i] = {} BY <1>1, <1>2 DEF IsLastLevel
  <2> QED BY <1>2, <1>11, <2>1
<1> QED BY <1>7, <1>11, <1>12

-----------------------------------------------------------------------------
(* What a write makes of the depths.  base is the depth of the new parent,  *)
(* 0 when there is none.                                                    *)

BaseDepth(d, p) == IF p = NoParent THEN 0 ELSE d[p]

Rehung(par, id, p) == [par EXCEPT ![id] = p]

ShiftedDepth(par, d, id, base) ==
    [x \in DOMAIN par |-> IF x \in Subtree(par, id) THEN d[x] - d[id] + base + 1 ELSE d[x]]

LEMMA RehungHasDepth ==
    ASSUME NEW par, NEW d, HasDepth(par, d), NEW id \in DOMAIN par,
           NEW p \in DOMAIN par \cup {NoParent}, p \notin Subtree(par, id)
    PROVE  HasDepth(Rehung(par, id, p), ShiftedDepth(par, d, id, BaseDepth(d, p)))
<1> DEFINE base == BaseDepth(d, p)
<1> DEFINE e == ShiftedDepth(par, d, id, base)
<1> DEFINE new == Rehung(par, id, p)
<1>1. base \in Nat BY DEF HasDepth, BaseDepth
<1>2. \A x \in DOMAIN par : d[x] \in Nat \ {0} BY DEF HasDepth
<1>3. Subtree(par, id) \subseteq DOMAIN par /\ id \in Subtree(par, id) BY SubtreeRoot
<1>4. \A x \in Subtree(par, id) : d[x] >= d[id] BY SubtreeIsBelow
<1>5. DOMAIN new = DOMAIN par /\ new[id] = p /\ \A x \in DOMAIN par \ {id} : new[x] = par[x]
  BY DEF Rehung
<1>6. \A x \in DOMAIN par :
        e[x] = IF x \in Subtree(par, id) THEN d[x] - d[id] + base + 1 ELSE d[x]
  BY DEF ShiftedDepth
<1>7. e \in [DOMAIN par -> Nat \ {0}]
  <2>1. \A x \in DOMAIN par : e[x] \in Nat \ {0} BY <1>1, <1>2, <1>3, <1>4, <1>6
  <2>2. e = [x \in DOMAIN par |-> e[x]] BY DEF ShiftedDepth
  <2> HIDE DEF e
  <2> QED BY <2>1, <2>2
<1> HIDE DEF e, new
<1>8. IsDepth(new, e)
  <2> SUFFICES ASSUME NEW x \in DOMAIN par
               PROVE  IF new[x] = NoParent THEN e[x] = 1
                      ELSE new[x] \in DOMAIN par /\ e[x] = e[new[x]] + 1
    BY <1>5 DEF IsDepth
  <2>1. CASE x = id
    <3>1. e[id] = base + 1 BY <1>1, <1>2, <1>3, <1>6
    <3>2. CASE p = NoParent
      <4>1. base = 0 BY <3>2 DEF BaseDepth
      <4> QED BY <1>5, <2>1, <3>1, <3>2, <4>1
    <3>3. CASE p # NoParent
      <4>1. base = d[p] /\ p \in DOMAIN par BY <3>3 DEF BaseDepth
      <4>2. e[p] = d[p] BY <1>6, <4>1
      <4> QED BY <1>5, <2>1, <3>1, <3>3, <4>1, <4>2
    <3> QED BY <3>2, <3>3
  <2>2. CASE x # id /\ x \in Subtree(par, id)
    <3>1. par[x] \in Subtree(par, id) BY <2>2, SubtreeParents
    <3>2. par[x] \in DOMAIN par /\ par[x] # NoParent BY <1>3, <3>1 DEF HasDepth
    <3>3. d[x] = d[par[x]] + 1 BY <3>2 DEF HasDepth, IsDepth
    <3>4. e[x] = e[par[x]] + 1 BY <1>1, <1>2, <1>6, <2>2, <3>1, <3>2, <3>3
    <3> QED BY <1>5, <2>2, <3>2, <3>4
  <2>3. CASE x \notin Subtree(par, id)
    <3>1. x # id /\ new[x] = par[x] /\ e[x] = d[x] BY <1>3, <1>5, <1>6, <2>3
    <3>2. CASE par[x] = NoParent BY <3>1, <3>2 DEF HasDepth, IsDepth
    <3>3. CASE par[x] # NoParent
      <4>1. par[x] \in DOMAIN par /\ d[x] = d[par[x]] + 1 BY <3>3 DEF HasDepth, IsDepth
      <4>2. par[x] \notin Subtree(par, id) BY <2>3, SubtreeClosed DEF ClosedUnderChildren
      <4>3. e[par[x]] = d[par[x]] BY <1>6, <4>1, <4>2
      <4> QED BY <3>1, <3>3, <4>1, <4>3
    <3> QED BY <3>2, <3>3
  <2> QED BY <2>1, <2>2, <2>3
<1> QED BY <1>5, <1>7, <1>8 DEF HasDepth, e, new

WithLeaf(par, id, p) == [x \in DOMAIN par \cup {id} |-> IF x = id THEN p ELSE par[x]]

LeafDepth(par, d, id, base) ==
    [x \in DOMAIN par \cup {id} |-> IF x = id THEN base + 1 ELSE d[x]]

LEMMA WithLeafHasDepth ==
    ASSUME NEW par, NEW d, HasDepth(par, d), NEW id, id \notin DOMAIN par, id # NoParent,
           NEW p \in DOMAIN par \cup {NoParent}
    PROVE  HasDepth(WithLeaf(par, id, p), LeafDepth(par, d, id, BaseDepth(d, p)))
<1> DEFINE base == BaseDepth(d, p)
<1> DEFINE e == LeafDepth(par, d, id, base)
<1> DEFINE new == WithLeaf(par, id, p)
<1>1. base \in Nat BY DEF HasDepth, BaseDepth
<1>2. \A x \in DOMAIN par : d[x] \in Nat \ {0} BY DEF HasDepth
<1>3. DOMAIN new = DOMAIN par \cup {id} /\ new[id] = p /\ \A x \in DOMAIN par : new[x] = par[x]
  BY DEF WithLeaf
<1>4. e[id] = base + 1 /\ \A x \in DOMAIN par : e[x] = d[x] BY DEF LeafDepth
<1>5. e \in [DOMAIN par \cup {id} -> Nat \ {0}] BY <1>1, <1>2 DEF LeafDepth
<1> HIDE DEF e, new
<1>6. IsDepth(new, e)
  <2> SUFFICES ASSUME NEW x \in DOMAIN par \cup {id}
               PROVE  IF new[x] = NoParent THEN e[x] = 1
                      ELSE new[x] \in DOMAIN new /\ e[x] = e[new[x]] + 1
    BY <1>3 DEF IsDepth
  <2>1. CASE x = id
    <3>1. CASE p = NoParent
      <4>1. base = 0 BY <3>1 DEF BaseDepth
      <4> QED BY <1>3, <1>4, <2>1, <3>1, <4>1
    <3>2. CASE p # NoParent
      <4>1. base = d[p] /\ p \in DOMAIN par BY <3>2 DEF BaseDepth
      <4> QED BY <1>3, <1>4, <2>1, <3>2, <4>1
    <3> QED BY <3>1, <3>2
  <2>2. CASE x # id
    <3>1. x \in DOMAIN par /\ new[x] = par[x] /\ e[x] = d[x] BY <1>3, <1>4, <2>2
    <3>2. CASE par[x] = NoParent BY <3>1, <3>2 DEF HasDepth, IsDepth
    <3>3. CASE par[x] # NoParent
      <4>1. par[x] \in DOMAIN par /\ d[x] = d[par[x]] + 1 BY <3>1, <3>3 DEF HasDepth, IsDepth
      <4> QED BY <1>3, <1>4, <3>1, <3>3, <4>1
    <3> QED BY <3>2, <3>3
  <2> QED BY <2>1, <2>2
<1> QED BY <1>3, <1>5, <1>6 DEF HasDepth, e, new

Pruned(par, id) == [x \in DOMAIN par \ Subtree(par, id) |-> par[x]]

PrunedDepth(par, d, id) == [x \in DOMAIN par \ Subtree(par, id) |-> d[x]]

LEMMA PrunedHasDepth ==
    ASSUME NEW par, NEW d, HasDepth(par, d), NEW id
    PROVE  HasDepth(Pruned(par, id), PrunedDepth(par, d, id))
<1> DEFINE e == PrunedDepth(par, d, id)
<1> DEFINE new == Pruned(par, id)
<1> DEFINE D == DOMAIN par \ Subtree(par, id)
<1>1. DOMAIN new = D /\ \A x \in D : new[x] = par[x] /\ e[x] = d[x] BY DEF Pruned, PrunedDepth
<1>2. e \in [D -> Nat \ {0}] BY DEF PrunedDepth, HasDepth
<1>3. ASSUME NEW x \in D, par[x] # NoParent PROVE par[x] \in D /\ d[x] = d[par[x]] + 1
  <2>1. par[x] \in DOMAIN par /\ d[x] = d[par[x]] + 1 BY <1>3 DEF HasDepth, IsDepth
  <2>2. par[x] \notin Subtree(par, id) BY SubtreeClosed DEF ClosedUnderChildren
  <2> QED BY <2>1, <2>2
<1>4. \A x \in D : par[x] = NoParent => d[x] = 1 BY DEF HasDepth, IsDepth
<1> HIDE DEF e, new
<1>5. IsDepth(new, e) BY <1>1, <1>3, <1>4 DEF IsDepth
<1> QED BY <1>1, <1>2, <1>5 DEF HasDepth, e, new

-----------------------------------------------------------------------------
(* Writes that lengthen nothing: what was within the limit stays there.     *)

Shortens(par2, e, par, d) ==
    /\ \A x \in DOMAIN par2 \cap DOMAIN par : e[x] <= d[x]
    /\ \A y \in DOMAIN par2 \cap DOMAIN par : \A x \in Subtree(par2, y) :
         x \in Subtree(par, y) /\ e[x] - e[y] <= d[x] - d[y]

LEMMA DetachShortens ==
    ASSUME NEW par, NEW d, HasDepth(par, d), NEW id \in DOMAIN par
    PROVE  Shortens(Rehung(par, id, NoParent), ShiftedDepth(par, d, id, 0), par, d)
<1> DEFINE e == ShiftedDepth(par, d, id, 0)
<1> DEFINE new == Rehung(par, id, NoParent)
<1>1. \A x \in DOMAIN par : d[x] \in Nat \ {0} BY DEF HasDepth
<1>2. DOMAIN new = DOMAIN par /\ new[id] = NoParent
      /\ \A x \in DOMAIN par \ {id} : new[x] = par[x]
  BY DEF Rehung
<1>3. \A x \in DOMAIN par : e[x] = IF x \in Subtree(par, id) THEN d[x] - d[id] + 1 ELSE d[x]
  BY <1>1 DEF ShiftedDepth
<1>4. NoParent \notin DOMAIN par BY DEF HasDepth
<1> HIDE DEF e, new
<1>5. \A x \in DOMAIN par : e[x] <= d[x] BY <1>1, <1>3
<1>6. ASSUME NEW y \in DOMAIN par, NEW x \in Subtree(new, y)
      PROVE  x \in Subtree(par, y) /\ e[x] - e[y] <= d[x] - d[y]
  <2>1. \A z \in DOMAIN new : new[z] \in DOMAIN new => z \in DOMAIN par /\ par[z] = new[z]
    BY <1>2, <1>4
  <2>2. x \in Subtree(par, y) BY <1>2, <2>1, SubtreeShrinks
  <2>3. x \in DOMAIN par BY <2>2, SubtreeRoot
  <2>4. y \in Subtree(par, id) => x \in Subtree(par, id) BY <2>2, SubtreeNested
  <2> QED BY <1>1, <1>3, <2>2, <2>3, <2>4
<1> QED BY <1>2, <1>5, <1>6 DEF Shortens, e, new

LEMMA PruneShortens ==
    ASSUME NEW par, NEW d, HasDepth(par, d), NEW id
    PROVE  Shortens(Pruned(par, id), PrunedDepth(par, d, id), par, d)
<1> DEFINE e == PrunedDepth(par, d, id)
<1> DEFINE new == Pruned(par, id)
<1> DEFINE D == DOMAIN par \ Subtree(par, id)
<1>1. DOMAIN new = D /\ \A x \in D : new[x] = par[x] /\ e[x] = d[x] BY DEF Pruned, PrunedDepth
<1>2. \A x \in DOMAIN par : d[x] \in Nat BY DEF HasDepth
<1> HIDE DEF e, new
<1>3. ASSUME NEW y \in D, NEW x \in Subtree(new, y)
      PROVE  x \in Subtree(par, y) /\ e[x] - e[y] <= d[x] - d[y]
  <2>1. \A z \in DOMAIN new : new[z] \in DOMAIN new => z \in DOMAIN par /\ par[z] = new[z]
    BY <1>1
  <2>2. y \in DOMAIN new /\ y \in DOMAIN par BY <1>1
  <2>3. x \in Subtree(par, y) BY <2>1, <2>2, SubtreeShrinks
  <2>4. x \in DOMAIN new BY <2>2, SubtreeRoot
  <2> QED BY <1>1, <1>2, <2>3, <2>4
<1> QED BY <1>1, <1>2, <1>3 DEF Shortens, e, new

LEMMA RootLeafShortens ==
    ASSUME NEW par, NEW d, HasDepth(par, d), NEW id, id \notin DOMAIN par, id # NoParent
    PROVE  Shortens(WithLeaf(par, id, NoParent), LeafDepth(par, d, id, 0), par, d)
<1> DEFINE e == LeafDepth(par, d, id, 0)
<1> DEFINE new == WithLeaf(par, id, NoParent)
<1>1. DOMAIN new = DOMAIN par \cup {id} /\ new[id] = NoParent
      /\ \A x \in DOMAIN par : new[x] = par[x] /\ e[x] = d[x]
  BY DEF WithLeaf, LeafDepth
<1>2. \A x \in DOMAIN par : d[x] \in Nat BY DEF HasDepth
<1>3. NoParent \notin DOMAIN par BY DEF HasDepth
<1> HIDE DEF e, new
<1>4. ASSUME NEW y \in DOMAIN par, NEW x \in Subtree(new, y)
      PROVE  x \in Subtree(par, y) /\ e[x] - e[y] <= d[x] - d[y]
  <2>1. \A z \in DOMAIN new : new[z] \in DOMAIN new => z \in DOMAIN par /\ par[z] = new[z]
    BY <1>1, <1>3
  <2>2. y \in DOMAIN new BY <1>1
  <2>3. x \in Subtree(par, y) BY <2>1, <2>2, SubtreeShrinks
  <2>4. x \in DOMAIN par BY <2>3, SubtreeRoot
  <2> QED BY <1>1, <1>2, <2>3, <2>4
<1> QED BY <1>1, <1>2, <1>4 DEF Shortens, e, new

\* A new leaf adds itself, and nothing else, to the subtrees there are.
LEMMA LeafSubtrees ==
    ASSUME NEW par, NEW d, HasDepth(par, d), NEW id, id \notin DOMAIN par, id # NoParent,
           NEW p, NEW y \in DOMAIN par
    PROVE  Subtree(WithLeaf(par, id, p), y) \subseteq Subtree(par, y) \cup {id}
<1> DEFINE new == WithLeaf(par, id, p)
<1> DEFINE S == Subtree(par, y) \cup {id}
<1>1. DOMAIN new = DOMAIN par \cup {id} /\ \A x \in DOMAIN par : new[x] = par[x] BY DEF WithLeaf
<1>2. y \in S /\ S \in SUBSET DOMAIN new BY <1>1, SubtreeRoot
<1> HIDE DEF new
<1>3. ClosedUnderChildren(new, S)
  <2> SUFFICES ASSUME NEW x \in DOMAIN new, new[x] \in S, x # id PROVE x \in S
    BY DEF ClosedUnderChildren
  <2>1. x \in DOMAIN par /\ new[x] = par[x] BY <1>1
  <2>2. par[x] # id BY <2>1 DEF HasDepth, IsDepth
  <2>3. par[x] \in Subtree(par, y) BY <2>1, <2>2
  <2> QED BY <2>1, <2>3, SubtreeClosed DEF ClosedUnderChildren
<1> HIDE DEF S
<1>4. Subtree(new, y) \subseteq S BY <1>2, <1>3, SubtreeLeast
<1> QED BY <1>4 DEF S, new

-----------------------------------------------------------------------------
(* The two verdicts. *)

LEMMA ParentOk ==
    ASSUME NEW par, NEW d, HasDepth(par, d), NEW p \in DOMAIN par, ParentVerdict(par, p) = "ok"
    PROVE  d[p] < MaxDepth
<1> DEFINE k == ChainDepth(AncestorChain(par, p))
<1>1. k < MaxDepth /\ k \in Nat
  <2>1. IsLastLevel(k, AncestorChain(par, p)) BY ChainDepthIsLast
  <2>2. k \in Nat BY <2>1, MaxDepthAssumption DEF IsLastLevel, DepthLimit
  <2>3. ~ (k >= MaxDepth) BY DEF ParentVerdict
  <2> HIDE DEF k
  <2> QED BY <2>2, <2>3, MaxDepthAssumption
<1>2. d[p] <= k
  <2>1. ChainDepth(AncestorChain(par, p)) <= MaxDepth BY <1>1, MaxDepthAssumption
  <2> QED BY <2>1, ChainBoundsDepth
<1>3. d[p] \in Nat BY DEF HasDepth
<1> HIDE DEF k
<1> QED BY <1>1, <1>2, <1>3, MaxDepthAssumption

\* What validate_category_reparent makes sure of.  The first half needs
\* nothing of the table.
LEMMA ReparentOkAcyclic ==
    ASSUME NEW par, NEW id \in DOMAIN par, NEW p \in DOMAIN par, p # NoParent,
           ReparentVerdict(par, id, p) = "ok"
    PROVE  /\ p \notin Subtree(par, id)
           /\ ChainDepth(AncestorChain(par, p)) <= MaxDepth
           /\ SubtreeHeight(par, id) <= MaxDepth
           /\ ChainDepth(AncestorChain(par, p)) + SubtreeHeight(par, id) <= MaxDepth
           /\ ChainDepth(AncestorChain(par, p)) \in Nat
           /\ SubtreeHeight(par, id) \in Nat
<1> DEFINE k == ChainDepth(AncestorChain(par, p))
<1> DEFINE h == SubtreeHeight(par, id)
<1>1. k \in Nat
  <2>1. IsLastLevel(k, AncestorChain(par, p)) BY ChainDepthIsLast
  <2> QED BY <2>1, MaxDepthAssumption DEF IsLastLevel, DepthLimit
<1>2. h \in Nat \ {0}
  <2> DEFINE l == ChainDepth(DescendantChain(par, id))
  <2>1. IsLastLevel(l, DescendantChain(par, id)) BY ChainDepthIsLast
  <2>2. l \in Nat BY <2>1, MaxDepthAssumption DEF IsLastLevel, DepthLimit
  <2>3. h = IF l = 0 THEN 1 ELSE l BY DEF SubtreeHeight
  <2> HIDE DEF l, h
  <2> QED BY <2>2, <2>3
<1>3. k # 0 /\ ~ Contains(AncestorChain(par, p), id) /\ ~ (k + h > MaxDepth)
  BY DEF ReparentVerdict, JoinedDepth
<1>4. k <= MaxDepth /\ h <= MaxDepth /\ k + h <= MaxDepth
  <2> HIDE DEF k, h
  <2> QED BY <1>1, <1>2, <1>3, MaxDepthAssumption
<1>5. p \notin Subtree(par, id) BY <1>3, <1>4, NoAncestorMissed
<1> QED BY <1>1, <1>2, <1>4, <1>5

LEMMA ReparentOkFits ==
    ASSUME NEW par, NEW d, HasDepth(par, d), NEW id \in DOMAIN par, NEW p \in DOMAIN par,
           p # NoParent, ReparentVerdict(par, id, p) = "ok"
    PROVE  \A x \in Subtree(par, id) : d[x] - d[id] + 1 + d[p] <= MaxDepth
<1> DEFINE k == ChainDepth(AncestorChain(par, p))
<1> DEFINE h == SubtreeHeight(par, id)
<1>1. k \in Nat /\ h \in Nat /\ k <= MaxDepth /\ h <= MaxDepth /\ k + h <= MaxDepth
  BY ReparentOkAcyclic
<1>2. d[p] <= k BY <1>1, ChainBoundsDepth
<1>3. \A x \in Subtree(par, id) : d[x] - d[id] + 1 <= h BY <1>1, HeightBoundsSubtree
<1>4. Subtree(par, id) \subseteq DOMAIN par BY SubtreeRoot
<1>5. \A x \in DOMAIN par : d[x] \in Nat BY DEF HasDepth
<1> HIDE DEF k, h
<1> QED BY <1>1, <1>2, <1>3, <1>4, <1>5, MaxDepthAssumption
-----------------------------------------------------------------------------
(* The walks return nothing else: an induction along their levels.          *)

LEMMA ClimbsWithin ==
    ASSUME NEW par, NEW p, NEW G,
           p \in DOMAIN par => p \in G[1],
           \A k \in 1..DepthLimit : \A x \in G[k] \cap DOMAIN par :
              k + 1 <= DepthLimit /\ par[x] \in DOMAIN par => par[x] \in G[k + 1]
    PROVE  \A k \in 1..DepthLimit : AncestorChain(par, p)[k] \subseteq G[k] \cap DOMAIN par
<1> DEFINE A == AncestorChain(par, p)
<1> DEFINE Good == {k \in 1..DepthLimit : A[k] \subseteq G[k] \cap DOMAIN par}
<1>0. DepthLimit \in Nat \ {0} BY MaxDepthAssumption DEF DepthLimit
<1>1. Unfolded(A, {p} \cap DOMAIN par, ParentsOf(par), DepthLimit) BY AncestorLevels
<1> HIDE DEF A
<1>2. 1 \in Good BY <1>0, <1>1 DEF Unfolded
<1>3. ASSUME NEW k \in 1..DepthLimit, k \in Good, k + 1 <= DepthLimit PROVE k + 1 \in Good
  <2>1. k + 1 \in 1..DepthLimit /\ k + 1 # 1 /\ (k + 1) - 1 = k BY <1>0, <1>3
  <2>2. A[k + 1] = ParentsOf(par)[A[k]] BY <1>1, <2>1 DEF Unfolded
  <2>3. A[k] \in SUBSET DOMAIN par BY <1>3
  <2>4. A[k + 1] = {z \in DOMAIN par : \E y \in A[k] : par[y] = z} BY <2>2, <2>3 DEF ParentsOf
  <2>5. A[k] \subseteq G[k] \cap DOMAIN par BY <1>3
  <2>6. A[k + 1] \subseteq G[k + 1] \cap DOMAIN par BY <1>3, <2>4, <2>5
  <2> QED BY <2>1, <2>6
<1> HIDE DEF Good
<1>4. 1..DepthLimit \subseteq Good BY <1>0, <1>2, <1>3, ClimbTo
<1> QED BY <1>4 DEF Good, A

LEMMA DescendsWithin ==
    ASSUME NEW par, NEW id, NEW G,
           id \in DOMAIN par => id \in G[1],
           \A k \in 1..DepthLimit : \A y \in DOMAIN par :
              k + 1 <= DepthLimit /\ par[y] \in G[k] => y \in G[k + 1]
    PROVE  \A k \in 1..DepthLimit : DescendantChain(par, id)[k] \subseteq G[k] \cap DOMAIN par
<1> DEFINE A == DescendantChain(par, id)
<1> DEFINE Good == {k \in 1..DepthLimit : A[k] \subseteq G[k] \cap DOMAIN par}
<1>0. DepthLimit \in Nat \ {0} BY MaxDepthAssumption DEF DepthLimit
<1>1. Unfolded(A, {id} \cap DOMAIN par, ChildrenOf(par), DepthLimit) BY DescendantLevels
<1> HIDE DEF A
<1>2. 1 \in Good BY <1>0, <1>1 DEF Unfolded
<1>3. ASSUME NEW k \in 1..DepthLimit, k \in Good, k + 1 <= DepthLimit PROVE k + 1 \in Good
  <2>1. k + 1 \in 1..DepthLimit /\ k + 1 # 1 /\ (k + 1) - 1 = k BY <1>0, <1>3
  <2>2. A[k + 1] = ChildrenOf(par)[A[k]] BY <1>1, <2>1 DEF Unfolded
  <2>3. A[k] \in SUBSET DOMAIN par BY <1>3
  <2>4. A[k + 1] = {y \in DOMAIN par : par[y] \in A[k]} BY <2>2, <2>3 DEF ChildrenOf
  <2>5. A[k] \subseteq G[k] \cap DOMAIN par BY <1>3
  <2>6. A[k + 1] \subseteq G[k + 1] \cap DOMAIN par BY <1>3, <2>4, <2>5
  <2> QED BY <2>1, <2>6
<1> HIDE DEF Good
<1>4. 1..DepthLimit \subseteq Good BY <1>0, <1>2, <1>3, ClimbTo
<1> QED BY <1>4 DEF Good, A

-----------------------------------------------------------------------------
(* In a table within the limit the walks are exact.                         *)

\* Nothing above a row that is not there.
LEMMA NoChainWithoutRow ==
    ASSUME NEW par, NEW p, p \notin DOMAIN par
    PROVE  ChainDepth(AncestorChain(par, p)) = 0
<1> DEFINE A == AncestorChain(par, p)
<1> DEFINE G == [k \in 1..DepthLimit |-> {}]
<1>1. \A k \in 1..DepthLimit : A[k] \subseteq G[k] \cap DOMAIN par
  <2>1. \A k \in 1..DepthLimit : \A x \in G[k] \cap DOMAIN par :
           k + 1 <= DepthLimit /\ par[x] \in DOMAIN par => par[x] \in G[k + 1]
    OBVIOUS
  <2> HIDE DEF G
  <2> QED BY <2>1, ClimbsWithin
<1>2. \A k \in 1..DepthLimit : A[k] = {} BY <1>1
<1>3. IsLastLevel(ChainDepth(A), A) BY ChainDepthIsLast
<1> HIDE DEF A
<1>4. DepthLimit \in Nat BY MaxDepthAssumption DEF DepthLimit
<1>5. ChainDepth(A) = 0 BY <1>2, <1>3, <1>4 DEF IsLastLevel
<1> QED BY <1>5 DEF A

\* The walk upwards counts the depth of the row.
LEMMA ChainIsDepth ==
    ASSUME NEW par, NEW d, HasDepth(par, d), NEW p \in DOMAIN par, d[p] <= MaxDepth
    PROVE  ChainDepth(AncestorChain(par, p)) = d[p]
<1> DEFINE A == AncestorChain(par, p)
<1> DEFINE n == ChainDepth(A)
<1> DEFINE G == [k \in 1..DepthLimit |-> {x \in DOMAIN par : d[x] + k = d[p] + 1}]
<1>0. DepthLimit = MaxDepth + 1 /\ MaxDepth \in Nat \ {0} BY MaxDepthAssumption DEF DepthLimit
<1>1. \A x \in DOMAIN par : d[x] \in Nat \ {0} BY DEF HasDepth
<1>2. \A k \in 1..DepthLimit : A[k] \subseteq G[k] \cap DOMAIN par
  <2>1. p \in G[1] BY <1>0, <1>1
  <2>2. ASSUME NEW k \in 1..DepthLimit, NEW x \in G[k] \cap DOMAIN par,
               k + 1 <= DepthLimit, par[x] \in DOMAIN par
        PROVE  par[x] \in G[k + 1]
    <3>1. d[x] = d[par[x]] + 1 BY <2>2 DEF HasDepth, IsDepth
    <3>2. d[par[x]] + (k + 1) = d[p] + 1 BY <1>1, <2>2, <3>1
    <3> QED BY <1>0, <2>2, <3>2
  <2> HIDE DEF G
  <2> QED BY <2>1, <2>2, ClimbsWithin
<1>3. IsLastLevel(n, A) BY ChainDepthIsLast
<1> HIDE DEF A, n
<1>4. n <= d[p]
  <2>1. CASE n = 0 BY <1>1, <2>1
  <2>2. CASE n # 0
    <3>1. n \in 1..DepthLimit /\ A[n] # {} BY <1>0, <1>3, <2>2 DEF IsLastLevel
    <3>2. PICK x \in DOMAIN par : d[x] + n = d[p] + 1 BY <1>2, <3>1
    <3> QED BY <1>1, <3>1, <3>2
  <2> QED BY <2>1, <2>2
<1>5. n <= MaxDepth BY <1>0, <1>1, <1>3, <1>4 DEF IsLastLevel
<1>6. d[p] <= n
  <2>1. ChainDepth(AncestorChain(par, p)) <= MaxDepth BY <1>5 DEF n, A
  <2> QED BY <2>1, ChainBoundsDepth DEF n, A
<1>7. n = d[p] BY <1>0, <1>1, <1>3, <1>4, <1>6 DEF IsLastLevel
<1> QED BY <1>7 DEF n, A

\* ... and meets only rows that have the row below them.
LEMMA ChainIsAbove ==
    ASSUME NEW par, NEW p \in DOMAIN par, NEW id, Contains(AncestorChain(par, p), id)
    PROVE  p \in Subtree(par, id)
<1> DEFINE A == AncestorChain(par, p)
<1> DEFINE G == [k \in 1..DepthLimit |-> {x \in DOMAIN par : p \in Subtree(par, x)}]
<1>0. DepthLimit \in Nat \ {0} BY MaxDepthAssumption DEF DepthLimit
<1>1. p \in G[1] BY <1>0, SubtreeRoot
<1>2. ASSUME NEW k \in 1..DepthLimit, NEW x \in G[k] \cap DOMAIN par,
             k + 1 <= DepthLimit, par[x] \in DOMAIN par
      PROVE  par[x] \in G[k + 1]
  <2>1. par[x] \in Subtree(par, par[x]) BY <1>2, SubtreeRoot
  <2>2. x \in Subtree(par, par[x]) BY <2>1, SubtreeClosed DEF ClosedUnderChildren
  <2>3. p \in Subtree(par, x) BY <1>2
  <2>4. p \in Subtree(par, par[x]) BY <1>2, <2>2, <2>3, SubtreeNested
  <2> QED BY <1>0, <1>2, <2>4
<1>3. DOMAIN A = 1..DepthLimit BY AncestorLevels DEF Unfolded
<1>4. \A k \in 1..DepthLimit : A[k] \subseteq G[k] \cap DOMAIN par
  <2> HIDE DEF G
  <2> QED BY <1>1, <1>2, ClimbsWithin
<1> QED BY <1>3, <1>4 DEF Contains

LEMMA ChainIsExact ==
    ASSUME NEW par, NEW d, HasDepth(par, d), NEW p \in DOMAIN par, d[p] <= MaxDepth,
           NEW id \in DOMAIN par
    PROVE  Contains(AncestorChain(par, p), id) <=> p \in Subtree(par, id)
<1>1. ChainDepth(AncestorChain(par, p)) <= MaxDepth BY ChainIsDepth
<1> QED BY <1>1, NoAncestorMissed, ChainIsAbove

\* Some row of the subtree is as far below its root as the height says.
LEMMA HeightIsReached ==
    ASSUME NEW par, NEW d, HasDepth(par, d), NEW id \in DOMAIN par
    PROVE  /\ SubtreeHeight(par, id) \in Nat \ {0}
           /\ \E x \in Subtree(par, id) : d[x] + 1 = d[id] + SubtreeHeight(par, id)
<1> DEFINE A == DescendantChain(par, id)
<1> DEFINE n == ChainDepth(A)
<1> DEFINE G ==
      [k \in 1..DepthLimit |-> {x \in Subtree(par, id) : d[x] + 1 = d[id] + k}]
<1>0. DepthLimit \in Nat \ {0} BY MaxDepthAssumption DEF DepthLimit
<1>1. \A x \in DOMAIN par : d[x] \in Nat \ {0} BY DEF HasDepth
<1>2. id \in Subtree(par, id) /\ Subtree(par, id) \subseteq DOMAIN par BY SubtreeRoot
<1>3. \A k \in 1..DepthLimit : A[k] \subseteq G[k] \cap DOMAIN par
  <2>1. id \in G[1] BY <1>0, <1>2
  <2>2. ASSUME NEW k \in 1..DepthLimit, NEW y \in DOMAIN par,
               k + 1 <= DepthLimit, par[y] \in G[k]
        PROVE  y \in G[k + 1]
    <3>1. par[y] \in Subtree(par, id) /\ d[par[y]] + 1 = d[id] + k BY <2>2
    <3>2. y \in Subtree(par, id) BY <3>1, SubtreeClosed DEF ClosedUnderChildren
    <3>3. par[y] \in DOMAIN par /\ d[y] = d[par[y]] + 1
      BY <1>2, <3>1 DEF HasDepth, IsDepth
    <3>4. d[y] + 1 = d[id] + (k + 1) BY <1>1, <3>1, <3>3
    <3> QED BY <1>0, <2>2, <3>2, <3>4
  <2> HIDE DEF G
  <2> QED BY <2>1, <2>2, DescendsWithin
<1>4. IsLastLevel(n, A) /\ id \in A[1] BY ChainDepthIsLast, DescendantWalk DEF DescendsFrom
<1>5. SubtreeHeight(par, id) = IF n = 0 THEN 1 ELSE n BY DEF SubtreeHeight
<1> HIDE DEF A, n
<1>6. n # 0 BY <1>0, <1>4 DEF IsLastLevel
<1>7. n \in 1..DepthLimit /\ A[n] # {} BY <1>0, <1>4, <1>6 DEF IsLastLevel
<1>8. \E x \in Subtree(par, id) : d[x] + 1 = d[id] + n BY <1>3, <1>7
<1> QED BY <1>5, <1>6, <1>7, <1>8

-----------------------------------------------------------------------------
(* The depth of a row is determined by the table.                           *)

LEMMA DepthUnique ==
    ASSUME NEW par, NEW d, HasDepth(par, d), NEW e, HasDepth(par, e)
    PROVE  \A x \in DOMAIN par : d[x] = e[x]
<1> DEFINE Bad == {x \in DOMAIN par : d[x] # e[x]}
<1> SUFFICES ASSUME Bad # {} PROVE FALSE OBVIOUS
<1> DEFINE T == {d[x] : x \in Bad}
<1>1. T \in SUBSET Nat /\ T # {} BY DEF HasDepth
<1>2. PICK m \in T : \A y \in T : m <= y BY <1>1, LeastElement
<1>3. PICK x \in Bad : m = d[x] BY <1>2
<1>4. par[x] # NoParent BY <1>3 DEF HasDepth, IsDepth
<1>5. par[x] \in DOMAIN par /\ d[x] = d[par[x]] + 1 /\ e[x] = e[par[x]] + 1
  BY <1>3, <1>4 DEF HasDepth, IsDepth
<1>6. d[par[x]] \in Nat BY <1>5 DEF HasDepth
<1>7. d[par[x]] \notin T
  <2> HIDE DEF T
  <2> QED BY <1>2, <1>3, <1>5, <1>6
<1>8. par[x] \notin Bad BY <1>7
<1>9. d[par[x]] = e[par[x]] BY <1>5, <1>8
<1> QED BY <1>3, <1>5, <1>9

LEMMA WithinDepthIff ==
    ASSUME NEW par, NoParent \notin DOMAIN par
    PROVE  WithinDepth(par) <=>
              \E d : HasDepth(par, d) /\ \A x \in DOMAIN par : d[x] <= MaxDepth
<1>0. MaxDepth \in Nat \ {0} BY MaxDepthAssumption
<1>1. ASSUME WithinDepth(par)
      PROVE  \E d : HasDepth(par, d) /\ \A x \in DOMAIN par : d[x] <= MaxDepth
  <2>1. PICK d \in [DOMAIN par -> 1..MaxDepth] : IsDepth(par, d)
    BY <1>1 DEF WithinDepth, ForestWithin
  <2>2. d \in [DOMAIN par -> Nat \ {0}] /\ \A x \in DOMAIN par : d[x] <= MaxDepth BY <1>0, <2>1
  <2> QED BY <2>1, <2>2 DEF HasDepth
<1>2. ASSUME NEW d, HasDepth(par, d), \A x \in DOMAIN par : d[x] <= MaxDepth
      PROVE  WithinDepth(par)
  <2>1. d \in [DOMAIN par -> 1..MaxDepth] BY <1>0, <1>2 DEF HasDepth
  <2> QED BY <1>2, <2>1 DEF WithinDepth, ForestWithin, HasDepth
<1> QED BY <1>1, <1>2

\* A row hung below itself closes a cycle, in any table.
LEMMA HungBelowItself ==
    ASSUME NEW par, NEW id \in DOMAIN par, NEW p \in Subtree(par, id)
    PROVE  ~ Acyclic(Rehung(par, id, p))
<1> DEFINE new == Rehung(par, id, p)
<1> DEFINE S == {x \in Subtree(par, id) : p \in Subtree(par, x)}
<1>1. DOMAIN new = DOMAIN par /\ new[id] = p /\ \A x \in DOMAIN par \ {id} : new[x] = par[x]
  BY DEF Rehung
<1>2. id \in Subtree(par, id) /\ Subtree(par, id) \subseteq DOMAIN par BY SubtreeRoot
<1>3. id \in S /\ S \in SUBSET DOMAIN par BY <1>2
<1> HIDE DEF new
<1>4. ASSUME NEW x \in S PROVE new[x] \in S
  <2>1. CASE x = id
    <3>1. p \in DOMAIN par /\ p \in Subtree(par, p) BY <1>2, SubtreeRoot
    <3> QED BY <1>1, <2>1, <3>1
  <2>2. CASE x # id
    <3>1. new[x] = par[x] BY <1>1, <1>3, <2>2
    <3>2. par[x] \in Subtree(par, id) /\ par[x] \in DOMAIN par BY <1>2, <2>2, SubtreeParents
    <3>3. par[x] \in Subtree(par, par[x]) BY <3>2, SubtreeRoot
    <3>4. x \in Subtree(par, par[x]) BY <1>3, <3>3, SubtreeClosed DEF ClosedUnderChildren
    <3>5. p \in Subtree(par, par[x]) BY <3>2, <3>4, SubtreeNested
    <3> QED BY <3>1, <3>2, <3>5
  <2> QED BY <2>1, <2>2
<1> HIDE DEF S
<1>5. S \in (SUBSET DOMAIN new) \ {{}} BY <1>1, <1>3
<1> QED BY <1>4, <1>5 DEF Acyclic, new

-----------------------------------------------------------------------------
(* In a table within the limit the verdicts are exact: "ok" if and only if  *)
(* the write leaves a table within the limit.                               *)

LEMMA ParentVerdictExact ==
    ASSUME NEW par, NoParent \notin DOMAIN par, WithinDepth(par),
           NEW id, id \notin DOMAIN par, id # NoParent, NEW p, p # NoParent
    PROVE  ParentVerdict(par, p) = "ok" <=> WithinDepth(WithLeaf(par, id, p))
<1> DEFINE new == WithLeaf(par, id, p)
<1>0. MaxDepth \in Nat \ {0} BY MaxDepthAssumption
<1>1. PICK d : HasDepth(par, d) /\ \A x \in DOMAIN par : d[x] <= MaxDepth BY WithinDepthIff
<1>2. DOMAIN new = DOMAIN par \cup {id} /\ new[id] = p BY DEF WithLeaf
<1>3. NoParent \notin DOMAIN new BY <1>2
<1>4. CASE p \in DOMAIN par
  <2> DEFINE e == LeafDepth(par, d, id, d[p])
  <2>1. HasDepth(new, e)
    <3>1. BaseDepth(d, p) = d[p] BY DEF BaseDepth
    <3> QED BY <1>1, <1>4, <3>1, WithLeafHasDepth
  <2>2. e[id] = d[p] + 1 /\ \A x \in DOMAIN par : e[x] = d[x] BY DEF LeafDepth
  <2>3. d[p] \in Nat \ {0} /\ d[p] <= MaxDepth BY <1>1, <1>4 DEF HasDepth
  <2> HIDE DEF e, new
  <2>4. WithinDepth(new) <=> d[p] + 1 <= MaxDepth
    <3>1. ASSUME WithinDepth(new) PROVE d[p] + 1 <= MaxDepth
      <4>1. PICK f : HasDepth(new, f) /\ \A x \in DOMAIN new : f[x] <= MaxDepth
        BY <1>3, <3>1, WithinDepthIff
      <4>2. e[id] = f[id] BY <1>2, <2>1, <4>1, DepthUnique
      <4> QED BY <1>2, <2>2, <4>1, <4>2
    <3>2. ASSUME d[p] + 1 <= MaxDepth PROVE WithinDepth(new)
      <4>1. \A x \in DOMAIN new : e[x] <= MaxDepth BY <1>1, <1>2, <2>2, <3>2
      <4> QED BY <1>3, <2>1, <4>1, WithinDepthIff
    <3> QED BY <3>1, <3>2
  <2>5. ChainDepth(AncestorChain(par, p)) = d[p] BY <1>1, <1>4, <2>3, ChainIsDepth
  <2>6. ParentVerdict(par, p) = "ok" <=> ~ (d[p] >= MaxDepth) BY <2>3, <2>5 DEF ParentVerdict
  <2> QED BY <1>0, <2>3, <2>4, <2>6 DEF new
<1>5. CASE p \notin DOMAIN par
  <2>1. ParentVerdict(par, p) = "parent_not_found" BY <1>5, NoChainWithoutRow DEF ParentVerdict
  <2> HIDE DEF new
  <2>2. ASSUME WithinDepth(new) PROVE FALSE
    <3>1. PICK f : HasDepth(new, f) BY <1>3, <2>2, WithinDepthIff
    <3>2. p \in DOMAIN new /\ f[id] = f[p] + 1 BY <1>2, <3>1 DEF HasDepth, IsDepth
    <3>3. p = id BY <1>2, <1>5, <3>2
    <3>4. f[id] \in Nat BY <1>2, <3>1 DEF HasDepth
    <3> QED BY <3>2, <3>3, <3>4
  <2> QED BY <2>1, <2>2 DEF new
<1> QED BY <1>4, <1>5

\* The verdict on a move, told by where the new parent is.
LEMMA ReparentVerdictIs ==
    ASSUME NEW par, NEW d, HasDepth(par, d), \A x \in DOMAIN par : d[x] <= MaxDepth,
           NEW id \in DOMAIN par, NEW p, p # NoParent
    PROVE  ReparentVerdict(par, id, p) =
              IF p \notin DOMAIN par THEN "parent_not_found"
              ELSE IF p \in Subtree(par, id) THEN "cycle_detected"
              ELSE IF d[p] + SubtreeHeight(par, id) > MaxDepth THEN "depth_exceeded"
              ELSE "ok"
<1> DEFINE k == ChainDepth(AncestorChain(par, p))
<1>1. JoinedDepth(par, id, p) = k BY DEF JoinedDepth
<1>2. CASE p \notin DOMAIN par BY <1>1, <1>2, NoChainWithoutRow DEF ReparentVerdict
<1>3. CASE p \in DOMAIN par
  <2>1. d[p] \in Nat \ {0} /\ d[p] <= MaxDepth BY <1>3 DEF HasDepth
  <2>2. k = d[p] BY <1>3, <2>1, ChainIsDepth
  <2>3. Contains(AncestorChain(par, p), id) <=> p \in Subtree(par, id)
    BY <1>3, <2>1, ChainIsExact
  <2> HIDE DEF k
  <2> QED BY <1>1, <1>3, <2>1, <2>2, <2>3 DEF ReparentVerdict
<1> QED BY <1>2, <1>3

LEMMA ReparentVerdictExact ==
    ASSUME NEW par, NoParent \notin DOMAIN par, WithinDepth(par),
           NEW id \in DOMAIN par, NEW p
    PROVE  ReparentVerdict(par, id, p) = "ok" <=> WithinDepth(Rehung(par, id, p))
<1> DEFINE new == Rehung(par, id, p)
<1> DEFINE h == SubtreeHeight(par, id)
<1>0. MaxDepth \in Nat \ {0} BY MaxDepthAssumption
<1>1. PICK d : HasDepth(par, d) /\ \A x \in DOMAIN par : d[x] <= MaxDepth BY WithinDepthIff
<1>2. DOMAIN new = DOMAIN par /\ new[id] = p BY DEF Rehung
<1>3. NoParent \notin DOMAIN new BY <1>2
<1>4. \A x \in DOMAIN par : d[x] \in Nat \ {0} BY <1>1 DEF HasDepth
<1>5. h \in Nat \ {0} /\ \E x \in Subtree(par, id) : d[x] + 1 = d[id] + h BY <1>1, HeightIsReached
<1>6. id \in Subtree(par, id) /\ Subtree(par, id) \subseteq DOMAIN par BY SubtreeRoot
<1>7. \A x \in Subtree(par, id) : d[x] >= d[id] BY <1>1, SubtreeIsBelow
<1> HIDE DEF new
<1>8. CASE p = NoParent
  <2> DEFINE e == ShiftedDepth(par, d, id, 0)
  <2>1. ReparentVerdict(par, id, p) = "ok" BY <1>8 DEF ReparentVerdict
  <2>2. HasDepth(new, e)
    <3>1. BaseDepth(d, p) = 0 /\ p \notin Subtree(par, id) BY <1>6, <1>8 DEF BaseDepth
    <3> QED BY <1>1, <1>8, <3>1, RehungHasDepth DEF new
  <2>3. \A x \in DOMAIN par :
          e[x] = IF x \in Subtree(par, id) THEN d[x] - d[id] + 0 + 1 ELSE d[x]
    BY DEF ShiftedDepth
  <2> HIDE DEF e
  <2>4. \A x \in DOMAIN new : e[x] <= MaxDepth BY <1>0, <1>1, <1>2, <1>4, <2>3
  <2> QED BY <1>3, <2>1, <2>2, <2>4, WithinDepthIff DEF new
<1>9. CASE p # NoParent /\ p \notin DOMAIN par
  <2>1. ReparentVerdict(par, id, p) # "ok" BY <1>1, <1>9, ReparentVerdictIs
  <2>2. ASSUME WithinDepth(new) PROVE FALSE
    <3>1. PICK f : HasDepth(new, f) BY <1>3, <2>2, WithinDepthIff
    <3> QED BY <1>2, <1>9, <3>1 DEF HasDepth, IsDepth
  <2> QED BY <2>1, <2>2 DEF new
<1>10. CASE p \in Subtree(par, id)
  <2>1. ReparentVerdict(par, id, p) # "ok" BY <1>1, <1>3, <1>2, <1>6, <1>10, ReparentVerdictIs
  <2>2. ASSUME WithinDepth(new) PROVE FALSE
    <3>1. PICK f : HasDepth(new, f) BY <1>3, <2>2, WithinDepthIff
    <3>2. Acyclic(new) BY <3>1, DepthMeansAcyclic
    <3> QED BY <1>10, <3>2, HungBelowItself DEF new
  <2> QED BY <2>1, <2>2 DEF new
<1>11. CASE p \in DOMAIN par /\ p # NoParent /\ p \notin Subtree(par, id)
  <2> DEFINE e == ShiftedDepth(par, d, id, d[p])
  <2>1. ReparentVerdict(par, id, p) = "ok" <=> ~ (d[p] + h > MaxDepth)
    BY <1>1, <1>11, ReparentVerdictIs
  <2>2. HasDepth(new, e)
    <3>1. BaseDepth(d, p) = d[p] BY <1>11 DEF BaseDepth
    <3> QED BY <1>1, <1>11, <3>1, RehungHasDepth DEF new
  <2>3. \A x \in DOMAIN par :
          e[x] = IF x \in Subtree(par, id) THEN d[x] - d[id] + d[p] + 1 ELSE d[x]
    BY DEF ShiftedDepth
  <2>4. d[p] \in Nat /\ d[id] \in Nat BY <1>4, <1>11
  <2> HIDE DEF e, h
  <2>5. ASSUME WithinDepth(new) PROVE d[p] + h <= MaxDepth
    <3>1. PICK f : HasDepth(new, f) /\ \A x \in DOMAIN new : f[x] <= MaxDepth
      BY <1>3, <2>5, WithinDepthIff
    <3>2. PICK x \in Subtree(par, id) : d[x] + 1 = d[id] + h BY <1>5
    <3>3. x \in DOMAIN par /\ e[x] = f[x] BY <1>2, <1>6, <2>2, <3>1, DepthUnique
    <3>4. e[x] = d[x] - d[id] + d[p] + 1 BY <2>3, <3>3
    <3>5. e[x] <= MaxDepth BY <1>2, <3>1, <3>3
    <3> QED BY <1>0, <1>4, <1>5, <2>4, <3>2, <3>3, <3>4, <3>5
  <2>6. ASSUME d[p] + h <= MaxDepth PROVE WithinDepth(new)
    <3>1. \A x \in Subtree(par, id) : d[x] - d[id] + 1 <= h
      <4>1. h <= MaxDepth BY <1>0, <1>5, <2>4, <2>6
      <4> QED BY <1>1, <4>1, HeightBoundsSubtree DEF h
    <3>2. \A x \in DOMAIN new : e[x] <= MaxDepth
      BY <1>0, <1>1, <1>2, <1>4, <1>5, <2>3, <2>4, <2>6, <3>1
    <3> QED BY <1>3, <2>2, <3>2, WithinDepthIff
  <2> QED BY <1>0, <1>5, <2>1, <2>4, <2>5, <2>6 DEF new
<1> QED BY <1>6, <1>8, <1>9, <1>10, <1>11

-----------------------------------------------------------------------------
(* A verdict "ok" outlives what only takes links away, in any table.        *)

\* Among the rows that stay, no link is new.
LinksKept(par2, par) ==
    \A x \in DOMAIN par2 \cap DOMAIN par :
        par2[x] \in DOMAIN par2 => par2[x] \in DOMAIN par /\ par[x] = par2[x]

\* ... and no new row has a parent.
FewerLinks(par2, par) ==
    /\ LinksKept(par2, par)
    /\ \A x \in DOMAIN par2 \ DOMAIN par : par2[x] \notin DOMAIN par2

LEMMA ChainsShrink ==
    ASSUME NEW par, NEW par2, NEW p \in DOMAIN par2 \cap DOMAIN par
    PROVE  /\ LinksKept(par2, par) =>
                \A k \in 1..DepthLimit : AncestorChain(par2, p)[k] \subseteq AncestorChain(par, p)[k]
           /\ FewerLinks(par2, par) =>
                \A k \in 1..DepthLimit : DescendantChain(par2, p)[k] \subseteq DescendantChain(par, p)[k]
<1>0. DepthLimit \in Nat \ {0} BY MaxDepthAssumption DEF DepthLimit
<1>1. ASSUME LinksKept(par2, par)
      PROVE  \A k \in 1..DepthLimit : AncestorChain(par2, p)[k] \subseteq AncestorChain(par, p)[k]
  <2> DEFINE A == AncestorChain(par, p)
  <2>1. ClimbsFrom(A, par, p) BY AncestorWalk
  <2> HIDE DEF A
  <2>2. ASSUME NEW k \in 1..DepthLimit, NEW x \in A[k] \cap DOMAIN par2,
               k + 1 <= DepthLimit, par2[x] \in DOMAIN par2
        PROVE  par2[x] \in A[k + 1]
    <3>1. x \in DOMAIN par BY <2>1, <2>2 DEF ClimbsFrom
    <3>2. par2[x] \in DOMAIN par /\ par[x] = par2[x] BY <1>1, <2>2, <3>1 DEF LinksKept
    <3> QED BY <2>1, <2>2, <3>2 DEF ClimbsFrom
  <2>3. p \in A[1] BY <2>1 DEF ClimbsFrom
  <2>4. \A k \in 1..DepthLimit : AncestorChain(par2, p)[k] \subseteq A[k] \cap DOMAIN par2
    BY <2>2, <2>3, ClimbsWithin
  <2> QED BY <2>4 DEF A
<1>2. ASSUME FewerLinks(par2, par)
      PROVE  \A k \in 1..DepthLimit : DescendantChain(par2, p)[k] \subseteq DescendantChain(par, p)[k]
  <2> DEFINE D == DescendantChain(par, p)
  <2> DEFINE G == [k \in 1..DepthLimit |-> D[k] \cap DOMAIN par2]
  <2>1. DescendsFrom(D, par, p) BY DescendantWalk
  <2> HIDE DEF D
  <2>2. ASSUME NEW k \in 1..DepthLimit, NEW y \in DOMAIN par2, k + 1 <= DepthLimit, par2[y] \in G[k]
        PROVE  y \in G[k + 1]
    <3>1. par2[y] \in D[k] /\ par2[y] \in DOMAIN par2 BY <2>2
    <3>2. y \in DOMAIN par /\ par[y] = par2[y] BY <1>2, <2>2, <3>1 DEF FewerLinks, LinksKept
    <3>3. y \in D[k + 1] BY <2>1, <2>2, <3>1, <3>2 DEF DescendsFrom
    <3> QED BY <1>0, <2>2, <3>3
  <2>3. p \in G[1] BY <1>0, <2>1 DEF DescendsFrom
  <2>4. \A k \in 1..DepthLimit : G[k] = D[k] \cap DOMAIN par2 OBVIOUS
  <2> HIDE DEF G
  <2>5. \A k \in 1..DepthLimit : DescendantChain(par2, p)[k] \subseteq G[k] \cap DOMAIN par2
    BY <2>2, <2>3, DescendsWithin
  <2> QED BY <2>4, <2>5 DEF D
<1> QED BY <1>1, <1>2

LEMMA ShorterChain ==
    ASSUME NEW chain, NEW chain2, \A k \in 1..DepthLimit : chain2[k] \subseteq chain[k]
    PROVE  /\ ChainDepth(chain) \in Nat /\ ChainDepth(chain2) \in Nat
           /\ ChainDepth(chain2) <= ChainDepth(chain)
<1> DEFINE m == ChainDepth(chain)
<1> DEFINE n == ChainDepth(chain2)
<1>1. IsLastLevel(m, chain) /\ IsLastLevel(n, chain2) BY ChainDepthIsLast
<1>2. DepthLimit \in Nat BY MaxDepthAssumption DEF DepthLimit
<1> HIDE DEF m, n
<1>3. m \in Nat /\ n \in Nat BY <1>1, <1>2 DEF IsLastLevel
<1>4. SUFFICES ASSUME n > m PROVE FALSE BY <1>3 DEF m, n
<1>5. n \in 1..DepthLimit /\ n \in (m + 1)..DepthLimit BY <1>1, <1>2, <1>3, <1>4 DEF IsLastLevel
<1>6. chain2[n] # {} /\ chain[n] = {} BY <1>1, <1>5 DEF IsLastLevel
<1> QED BY <1>5, <1>6

LEMMA ChainOfRow ==
    ASSUME NEW par, NEW p \in DOMAIN par
    PROVE  ChainDepth(AncestorChain(par, p)) # 0
<1> DEFINE A == AncestorChain(par, p)
<1>1. ClimbsFrom(A, par, p) /\ IsLastLevel(ChainDepth(A), A) BY AncestorWalk, ChainDepthIsLast
<1>2. DepthLimit \in Nat \ {0} BY MaxDepthAssumption DEF DepthLimit
<1> HIDE DEF A
<1>3. A[1] # {} BY <1>1 DEF ClimbsFrom
<1>4. ChainDepth(A) # 0 BY <1>1, <1>2, <1>3 DEF IsLastLevel
<1> QED BY <1>4 DEF A

LEMMA ParentVerdictStays ==
    ASSUME NEW par, NEW par2, LinksKept(par2, par), NEW p \in DOMAIN par2 \cap DOMAIN par,
           ParentVerdict(par, p) = "ok"
    PROVE  ParentVerdict(par2, p) = "ok"
<1> DEFINE m == ChainDepth(AncestorChain(par, p))
<1> DEFINE n == ChainDepth(AncestorChain(par2, p))
<1>1. m \in Nat /\ n \in Nat /\ n <= m BY ChainsShrink, ShorterChain
<1>2. n # 0 BY ChainOfRow
<1>3. ~ (m >= MaxDepth) BY DEF ParentVerdict
<1>4. ParentVerdict(par2, p) = IF n = 0 THEN "parent_not_found"
                               ELSE IF n >= MaxDepth THEN "depth_exceeded" ELSE "ok"
  BY DEF ParentVerdict
<1> HIDE DEF m, n
<1>5. ~ (n >= MaxDepth) BY <1>1, <1>3, MaxDepthAssumption
<1> QED BY <1>2, <1>4, <1>5

\* coalesce(max(depth), 1) keeps the order of heights.
LEMMA CoalesceKeepsOrder ==
    ASSUME NEW a \in Nat, NEW b \in Nat, b <= a
    PROVE  /\ (IF a = 0 THEN 1 ELSE a) \in Nat /\ (IF b = 0 THEN 1 ELSE b) \in Nat
           /\ (IF b = 0 THEN 1 ELSE b) <= (IF a = 0 THEN 1 ELSE a)
<1> QED OBVIOUS

LEMMA ReparentVerdictStays ==
    ASSUME NEW par, NEW par2, FewerLinks(par2, par), NEW id \in DOMAIN par2 \cap DOMAIN par,
           NEW p \in DOMAIN par2 \cap DOMAIN par, ReparentVerdict(par, id, p) = "ok"
    PROVE  ReparentVerdict(par2, id, p) = "ok"
<1> SUFFICES ASSUME p # NoParent PROVE ReparentVerdict(par2, id, p) = "ok"
  BY DEF ReparentVerdict
<1> DEFINE m == ChainDepth(AncestorChain(par, p))
<1> DEFINE n == ChainDepth(AncestorChain(par2, p))
<1> DEFINE h == SubtreeHeight(par, id)
<1> DEFINE i == SubtreeHeight(par2, id)
<1>0. LinksKept(par2, par) BY DEF FewerLinks
<1>1. m \in Nat /\ n \in Nat /\ n <= m BY <1>0, ChainsShrink, ShorterChain
<1>2. n # 0 BY ChainOfRow
<1>3. h \in Nat /\ i \in Nat /\ i <= h
  <2> DEFINE k == ChainDepth(DescendantChain(par, id))
  <2> DEFINE l == ChainDepth(DescendantChain(par2, id))
  <2>1. k \in Nat /\ l \in Nat /\ l <= k BY ChainsShrink, ShorterChain
  <2>2. h = (IF k = 0 THEN 1 ELSE k) /\ i = (IF l = 0 THEN 1 ELSE l) BY DEF SubtreeHeight
  <2> HIDE DEF h, i, k, l
  <2> QED BY <2>1, <2>2, CoalesceKeepsOrder
<1>4. ~ Contains(AncestorChain(par, p), id) /\ ~ (m + h > MaxDepth)
  BY DEF ReparentVerdict, JoinedDepth
<1>5. ~ Contains(AncestorChain(par2, p), id)
  <2>1. DOMAIN AncestorChain(par, p) = 1..DepthLimit /\ DOMAIN AncestorChain(par2, p) = 1..DepthLimit
    BY AncestorLevels DEF Unfolded
  <2>2. \A k \in 1..DepthLimit : AncestorChain(par2, p)[k] \subseteq AncestorChain(par, p)[k]
    BY <1>0, ChainsShrink
  <2> QED BY <1>4, <2>1, <2>2 DEF Contains
<1>6. ~ (n + i > MaxDepth)
  <2> HIDE DEF m, n, h, i
  <2> QED BY <1>1, <1>3, <1>4, MaxDepthAssumption
<1>7. JoinedDepth(par2, id, p) = n BY DEF JoinedDepth
<1> HIDE DEF m, n, h, i
<1> QED BY <1>2, <1>5, <1>6, <1>7 DEF ReparentVerdict, n, i

\* What a detachment, a delete and an insert do to the links.
LEMMA WritesAndLinks ==
    ASSUME NEW par, NoParent \notin DOMAIN par, NEW id
    PROVE  /\ FewerLinks(par, par)
           /\ FewerLinks(Rehung(par, id, NoParent), par)
           /\ FewerLinks(Pruned(par, id), par)
           /\ id \notin DOMAIN par /\ id # NoParent /\ (\A x \in DOMAIN par : par[x] # id) =>
                /\ \A p : LinksKept(WithLeaf(par, id, p), par)
                /\ FewerLinks(WithLeaf(par, id, NoParent), par)
<1>1. FewerLinks(par, par) BY DEF FewerLinks, LinksKept
<1>2. FewerLinks(Rehung(par, id, NoParent), par)
  <2> DEFINE new == Rehung(par, id, NoParent)
  <2>1. DOMAIN new = DOMAIN par /\ \A x \in DOMAIN par : new[x] = IF x = id THEN NoParent ELSE par[x]
    BY DEF Rehung
  <2> HIDE DEF new
  <2>2. FewerLinks(new, par) BY <2>1 DEF FewerLinks, LinksKept
  <2> QED BY <2>2 DEF new
<1>3. FewerLinks(Pruned(par, id), par) BY DEF FewerLinks, LinksKept, Pruned
<1>4. ASSUME id \notin DOMAIN par, id # NoParent, \A x \in DOMAIN par : par[x] # id
      PROVE  /\ \A p : LinksKept(WithLeaf(par, id, p), par)
             /\ FewerLinks(WithLeaf(par, id, NoParent), par)
  <2>1. ASSUME NEW p PROVE LinksKept(WithLeaf(par, id, p), par)
    BY <1>4 DEF LinksKept, WithLeaf
  <2>2. ASSUME NEW x \in DOMAIN WithLeaf(par, id, NoParent) \ DOMAIN par
        PROVE  WithLeaf(par, id, NoParent)[x] \notin DOMAIN WithLeaf(par, id, NoParent)
    <3>1. DOMAIN WithLeaf(par, id, NoParent) = DOMAIN par \cup {id} BY DEF WithLeaf
    <3>2. WithLeaf(par, id, NoParent)[x] = NoParent BY <3>1, <2>2 DEF WithLeaf
    <3> QED BY <1>4, <3>1, <3>2
  <2> QED BY <2>1, <2>2 DEF FewerLinks
<1> QED BY <1>1, <1>2, <1>3, <1>4

-----------------------------------------------------------------------------
(* The subtree query, whose depth nothing limits.                           *)

\* The depths one by one.
LEMMA RowsByDepth ==
    ASSUME NEW par, NEW root
    PROVE  /\ RowsAtDepth(par, root, 1) = {root} \cap DOMAIN par
           /\ \A k \in Nat \ {0} :
                /\ RowsAtDepth(par, root, k) \subseteq DOMAIN par
                /\ RowsAtDepth(par, root, k + 1) =
                     {x \in DOMAIN par : par[x] \in RowsAtDepth(par, root, k)}
<1> DEFINE first == {root} \cap DOMAIN par
           step == ChildrenOf(par)
           L(n) == Levels(first, step, n)
<1>1. first \in SUBSET DOMAIN par /\ step \in [SUBSET DOMAIN par -> SUBSET DOMAIN par]
  BY DEF ChildrenOf
<1>2. \A S \in SUBSET DOMAIN par : step[S] = {x \in DOMAIN par : par[x] \in S}
  BY DEF ChildrenOf
<1> HIDE DEF first, step
<1>3. ASSUME NEW n \in Nat PROVE Unfolded(L(n), first, step, n) BY <1>1, LevelsUnfold
<1> HIDE DEF L
<1>4. ASSUME NEW n \in Nat, NEW m \in Nat, n <= m PROVE \A k \in 1..n : L(n)[k] = L(m)[k]
  <2> DEFINE G == {k \in 1..n : L(n)[k] = L(m)[k]}
  <2>1. n # 0 => 1 \in G
    <3>1. n # 0 => 1 \in 1..n /\ 1 \in 1..m BY <1>4
    <3> QED BY <1>3, <3>1 DEF Unfolded
  <2>2. ASSUME NEW j \in 1..n, j \in G, j + 1 <= n PROVE j + 1 \in G
    <3>1. j + 1 \in 1..n /\ j + 1 \in 1..m /\ j + 1 # 1 /\ (j + 1) - 1 = j BY <1>4, <2>2
    <3>2. L(n)[j + 1] = step[L(n)[j]] /\ L(m)[j + 1] = step[L(m)[j]]
      BY <1>3, <3>1 DEF Unfolded
    <3> QED BY <2>2, <3>1, <3>2
  <2> HIDE DEF G
  <2>3. 1..n \subseteq G BY <2>1, <2>2, ClimbTo
  <2> QED BY <2>3 DEF G
<1> DEFINE R(k) == RowsAtDepth(par, root, k)
<1>5. ASSUME NEW k \in Nat PROVE R(k) = L(k)[k] BY DEF RowsAtDepth, L, first, step
<1> HIDE DEF R
<1>6. R(1) = first BY <1>3, <1>5 DEF Unfolded
<1>7. ASSUME NEW k \in Nat \ {0} PROVE R(k + 1) = step[R(k)]
  <2>1. k + 1 \in Nat /\ k + 1 \in 1..(k + 1) /\ k \in 1..k /\ k + 1 # 1 /\ (k + 1) - 1 = k
    OBVIOUS
  <2>2. L(k + 1)[k + 1] = step[L(k + 1)[k]] BY <1>3, <2>1 DEF Unfolded
  <2>3. L(k)[k] = L(k + 1)[k] BY <1>4, <2>1
  <2> QED BY <1>5, <2>1, <2>2, <2>3
<1>8. \A k \in Nat \ {0} : R(k) \in SUBSET DOMAIN par
  <2> DEFINE Bad == {k \in Nat \ {0} : R(k) \notin SUBSET DOMAIN par}
  <2> SUFFICES ASSUME Bad # {} PROVE FALSE OBVIOUS
  <2>1. Bad \in SUBSET Nat OBVIOUS
  <2>2. PICK m \in Bad : \A y \in Bad : m <= y BY <2>1, LeastElement
  <2>3. m # 1 BY <1>1, <1>6, <2>2
  <2>4. m - 1 \in Nat \ {0} /\ m - 1 \notin Bad /\ (m - 1) + 1 = m BY <2>2, <2>3
  <2>5. R(m) = step[R(m - 1)] /\ R(m - 1) \in SUBSET DOMAIN par BY <1>7, <2>4
  <2>6. R(m) \in SUBSET DOMAIN par BY <1>1, <2>5
  <2> QED BY <2>2, <2>6
<1>9. ASSUME NEW k \in Nat \ {0} PROVE R(k + 1) = {x \in DOMAIN par : par[x] \in R(k)}
  BY <1>2, <1>7, <1>8
<1> QED BY <1>6, <1>8, <1>9 DEF R, first

\* The query finds the least set that holds the root and is closed under
\* children, as Subtree has it, and in any table: at a finite depth each.
THEOREM SubtreeByDepth ==
    ASSUME NEW par, NEW root
    PROVE  Subtree(par, root) = UNION {RowsAtDepth(par, root, k) : k \in Nat \ {0}}
<1> DEFINE R(k) == RowsAtDepth(par, root, k)
           All == UNION {R(k) : k \in Nat \ {0}}
<1>1. /\ R(1) = {root} \cap DOMAIN par
      /\ \A k \in Nat \ {0} : /\ R(k) \subseteq DOMAIN par
                              /\ R(k + 1) = {x \in DOMAIN par : par[x] \in R(k)}
  BY RowsByDepth
<1> HIDE DEF R
<1>2. Subtree(par, root) \subseteq All
  <2>1. All \in SUBSET DOMAIN par BY <1>1
  <2>2. {root} \cap DOMAIN par \subseteq All BY <1>1
  <2>3. ClosedUnderChildren(par, All)
    <3> SUFFICES ASSUME NEW x \in DOMAIN par, NEW k \in Nat \ {0}, par[x] \in R(k)
                 PROVE  x \in All
      BY DEF ClosedUnderChildren
    <3>1. x \in R(k + 1) /\ k + 1 \in Nat \ {0} BY <1>1
    <3> QED BY <3>1
  <2> HIDE DEF All
  <2> QED BY <2>1, <2>2, <2>3 DEF Subtree
<1>3. \A k \in Nat \ {0} : R(k) \subseteq Subtree(par, root)
  <2> DEFINE Bad == {k \in Nat \ {0} : ~ R(k) \subseteq Subtree(par, root)}
  <2> SUFFICES ASSUME Bad # {} PROVE FALSE OBVIOUS
  <2>1. Bad \in SUBSET Nat OBVIOUS
  <2>2. PICK m \in Bad : \A y \in Bad : m <= y BY <2>1, LeastElement
  <2>3. m # 1 BY <1>1, <2>2, SubtreeRoot
  <2>4. m - 1 \in Nat \ {0} /\ m - 1 \notin Bad /\ (m - 1) + 1 = m BY <2>2, <2>3
  <2>5. R(m) = {x \in DOMAIN par : par[x] \in R(m - 1)} BY <1>1, <2>4
  <2>6. R(m - 1) \subseteq Subtree(par, root) BY <2>4
  <2>7. R(m) \subseteq Subtree(par, root) BY <2>5, <2>6, SubtreeClosed DEF ClosedUnderChildren
  <2> QED BY <2>2, <2>7
<1> QED BY <1>2, <1>3 DEF R

\* A category that hangs below itself.
OnCycle(par, root) == root \in DOMAIN par /\ par[root] \in Subtree(par, root)

\* A row found at two depths has the root below itself.
LEMMA FoundTwice ==
    ASSUME NEW par, NEW root, NEW j \in Nat \ {0}, NEW k \in Nat \ {0}, j < k,
           NEW x \in RowsAtDepth(par, root, j), x \in RowsAtDepth(par, root, k)
    PROVE  OnCycle(par, root)
<1> DEFINE R(n) == RowsAtDepth(par, root, n)
<1>1. /\ R(1) = {root} \cap DOMAIN par
      /\ \A n \in Nat \ {0} : /\ R(n) \subseteq DOMAIN par
                              /\ R(n + 1) = {y \in DOMAIN par : par[y] \in R(n)}
  BY RowsByDepth
<1>2. x \in R(j) /\ x \in R(k) OBVIOUS
<1>3. \A n \in Nat \ {0} : R(n) \subseteq Subtree(par, root) BY SubtreeByDepth
<1> HIDE DEF R
<1> DEFINE Twice == {n \in Nat \ {0} : \E m \in Nat : n < m /\ R(n) \cap R(m) # {}}
<1>4. PICK n \in Twice : \A y \in Twice : n <= y
  <2>1. Twice \in SUBSET Nat /\ j \in Twice BY <1>2
  <2> QED BY <2>1, LeastElement
<1>5. PICK m \in Nat, z \in DOMAIN par : n < m /\ z \in R(n) /\ z \in R(m) BY <1>1, <1>4
<1>6. m - 1 \in Nat \ {0} /\ (m - 1) + 1 = m BY <1>4, <1>5
<1>7. par[z] \in R(m - 1) BY <1>1, <1>5, <1>6
<1>8. n = 1
  <2> SUFFICES ASSUME n # 1 PROVE FALSE OBVIOUS
  <2>1. n - 1 \in Nat \ {0} /\ (n - 1) + 1 = n /\ n - 1 < m - 1 BY <1>4, <1>5, <1>6
  <2>2. par[z] \in R(n - 1) BY <1>1, <1>5, <2>1
  <2>3. n - 1 \in Twice BY <1>6, <1>7, <2>1, <2>2
  <2> QED BY <1>4, <2>1, <2>3
<1>9. z = root BY <1>1, <1>5, <1>8
<1> QED BY <1>3, <1>5, <1>6, <1>7, <1>9 DEF OnCycle

\* A depth without rows is the last.
LEMMA NothingDeeper ==
    ASSUME NEW par, NEW root, NEW n \in Nat \ {0}, RowsAtDepth(par, root, n) = {},
           NEW m \in Nat, n <= m
    PROVE  RowsAtDepth(par, root, m) = {}
<1> DEFINE R(k) == RowsAtDepth(par, root, k)
<1>1. \A k \in Nat \ {0} : R(k + 1) = {y \in DOMAIN par : par[y] \in R(k)} BY RowsByDepth
<1>2. R(n) = {} OBVIOUS
<1> HIDE DEF R
<1> DEFINE Bad == {k \in Nat : n <= k /\ R(k) # {}}
<1> SUFFICES ASSUME Bad # {} PROVE FALSE BY DEF R
<1>3. PICK k \in Bad : \A y \in Bad : k <= y
  <2>1. Bad \in SUBSET Nat OBVIOUS
  <2> QED BY <2>1, LeastElement
<1>4. k # n BY <1>2, <1>3
<1>5. k - 1 \in Nat \ {0} /\ (k - 1) + 1 = k /\ n <= k - 1 /\ k - 1 \notin Bad BY <1>3, <1>4
<1> QED BY <1>1, <1>3, <1>5

\* Below a root that hangs below itself every depth repeats deeper down.
LEMMA CycleRepeats ==
    ASSUME NEW par, NEW root, OnCycle(par, root)
    PROVE  \A n \in Nat \ {0} : RowsAtDepth(par, root, n) # {}
<1> DEFINE R(k) == RowsAtDepth(par, root, k)
<1>1. /\ R(1) = {root} \cap DOMAIN par
      /\ \A n \in Nat \ {0} : R(n + 1) = {y \in DOMAIN par : par[y] \in R(n)}
  BY RowsByDepth
<1>2. PICK p \in Nat \ {0} : par[root] \in R(p) BY SubtreeByDepth DEF OnCycle
<1>3. \A n \in Nat \ {0} : \A m \in Nat : R(n) = {} /\ n <= m => R(m) = {} BY NothingDeeper
<1> HIDE DEF R
<1>4. root \in R(p + 1) BY <1>1, <1>2 DEF OnCycle
<1>5. \A k \in Nat \ {0} : R(k) \subseteq R(k + p)
  <2> DEFINE Bad == {k \in Nat \ {0} : ~ R(k) \subseteq R(k + p)}
  <2> SUFFICES ASSUME Bad # {} PROVE FALSE OBVIOUS
  <2>1. Bad \in SUBSET Nat OBVIOUS
  <2>2. PICK m \in Bad : \A y \in Bad : m <= y BY <2>1, LeastElement
  <2>3. m # 1
    <3>1. 1 + p = p + 1 OBVIOUS
    <3> QED BY <1>1, <1>4, <2>2, <3>1
  <2>4. m - 1 \in Nat \ {0} /\ m - 1 \notin Bad /\ (m - 1) + 1 = m BY <2>2, <2>3
  <2>5. (m - 1) + p \in Nat \ {0} /\ ((m - 1) + p) + 1 = m + p BY <2>4
  <2>6. R(m - 1) \subseteq R((m - 1) + p) BY <2>4
  <2>7. R(m) \subseteq R(m + p) BY <1>1, <2>4, <2>5, <2>6
  <2> QED BY <2>2, <2>7
<1> DEFINE Void == {n \in Nat \ {0} : R(n) = {}}
<1> SUFFICES ASSUME Void # {} PROVE FALSE BY DEF R
<1>6. PICK n \in Void : \A y \in Void : n <= y
  <2>1. Void \in SUBSET Nat OBVIOUS
  <2> QED BY <2>1, LeastElement
<1>7. n # 1 BY <1>1, <1>6 DEF OnCycle
<1>8. n - 1 \in Nat \ {0} /\ n - 1 \notin Void BY <1>6, <1>7
<1>9. R(n - 1) # {} /\ R(n - 1) \subseteq R((n - 1) + p) BY <1>5, <1>8
<1>10. n \in Nat \ {0} /\ (n - 1) + p \in Nat /\ n <= (n - 1) + p BY <1>6, <1>8
<1>11. R((n - 1) + p) = {} BY <1>3, <1>6, <1>10
<1> QED BY <1>9, <1>11

\* In a table with finitely many rows the query ends if and only if its root
\* does not hang below itself: a cycle elsewhere, or one above the root, is no
\* matter to it.  If it has not ended at one depth more than there are rows, then
\* it never does.
THEOREM QueryEndsIff ==
    ASSUME NEW par, NEW root, IsFiniteSet(DOMAIN par)
    PROVE  /\ SubtreeQueryEnds(par, root) <=> ~ OnCycle(par, root)
           /\ SubtreeQueryEnds(par, root) <=>
                 \E n \in Nat \ {0} : RowsAtDepth(par, root, n) = {}
<1> DEFINE N == Cardinality(DOMAIN par)
           R(k) == RowsAtDepth(par, root, k)
<1>1. N \in Nat BY FS_CardinalityType
<1>2. \A k \in Nat \ {0} : R(k) \subseteq DOMAIN par BY RowsByDepth
<1>3. \A j, k \in Nat \ {0} : j < k /\ R(j) \cap R(k) # {} => OnCycle(par, root)
  BY FoundTwice
<1>4. \A n \in Nat \ {0} : \A m \in Nat : R(n) = {} /\ n <= m => R(m) = {} BY NothingDeeper
<1>5. OnCycle(par, root) => \A n \in Nat \ {0} : R(n) # {} BY CycleRepeats
<1>6. SubtreeQueryEnds(par, root) <=> R(N + 1) = {} BY DEF SubtreeQueryEnds
<1>7. 1..(N + 1) \subseteq Nat \ {0} /\ N + 1 \in Nat \ {0} BY <1>1
<1>8. IsFiniteSet(1..(N + 1)) /\ Cardinality(1..(N + 1)) = N + 1
  <2>1. /\ IsFiniteSet(1..(N + 1))
        /\ Cardinality(1..(N + 1)) = IF 1 > N + 1 THEN 0 ELSE (N + 1) - 1 + 1
    BY <1>7, FS_Interval
  <2> QED BY <1>1, <2>1
<1> HIDE DEF R
<1>9. ASSUME R(N + 1) # {} PROVE OnCycle(par, root)
  <2> DEFINE f == [k \in 1..(N + 1) |-> CHOOSE x \in DOMAIN par : x \in R(k)]
  <2>1. ASSUME NEW k \in 1..(N + 1) PROVE f[k] \in DOMAIN par /\ f[k] \in R(k)
    <3>1. k \in Nat \ {0} /\ k <= N + 1 BY <1>1, <1>7
    <3>2. R(k) # {} BY <1>4, <1>7, <1>9, <3>1
    <3>3. \E x \in DOMAIN par : x \in R(k) BY <1>2, <3>1, <3>2
    <3> QED BY <3>3
  <2>2. f \in [1..(N + 1) -> DOMAIN par] BY <2>1
  <2> HIDE DEF f
  <2>3. N < Cardinality(1..(N + 1)) BY <1>1, <1>8
  <2>4. PICK a, b \in 1..(N + 1) : a # b /\ f[a] = f[b]
    <3> HIDE DEF N
    <3>1. IsFiniteSet(1..(N + 1)) /\ Cardinality(DOMAIN par) < Cardinality(1..(N + 1))
      BY <1>8, <2>3 DEF N
    <3> QED BY <2>2, <3>1, FS_PigeonHole
  <2>5. f[a] \in R(a) /\ f[a] \in R(b) BY <2>1, <2>4
  <2>6. a \in Nat \ {0} /\ b \in Nat \ {0} /\ (a < b \/ b < a) BY <1>7, <2>4
  <2> QED BY <1>3, <2>5, <2>6
<1> HIDE DEF N
<1>10. (\E n \in Nat \ {0} : R(n) = {}) => ~ OnCycle(par, root) BY <1>5
<1> QED BY <1>6, <1>7, <1>9, <1>10 DEF R

\* Without a cycle of links every subtree query ends.
LEMMA AcyclicQueriesEnd ==
    ASSUME NEW par, NEW root, IsFiniteSet(DOMAIN par), Acyclic(par)
    PROVE  SubtreeQueryEnds(par, root)
<1> SUFFICES ASSUME OnCycle(par, root) PROVE FALSE BY QueryEndsIff
<1> DEFINE S == Subtree(par, root)
<1>1. S \in (SUBSET DOMAIN par) \ {{}} BY SubtreeRoot DEF OnCycle
<1>2. \A x \in S : par[x] \in S BY SubtreeParents DEF OnCycle
<1> HIDE DEF S
<1> QED BY <1>1, <1>2 DEF Acyclic
=============================================================================
