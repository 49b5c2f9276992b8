------------------------- MODULE GravityCellsProofs -------------------------
(***************************************************************************)
(* The lists of near and far cells are right for every tree and whatever   *)
(* the comparisons of distances say, and so is what spheres feel by them.  *)
(*                                                                         *)
(* The invariant of CellPairs looks at the lists of a leaf together with   *)
(* the calls that are still pending for it: at every moment they cover the *)
(* tree exactly once, because a call is only ever replaced by an entry     *)
(* with the same leaves or by the two halves of its cell.                  *)
(*                                                                         *)
(* The invariant of GravityCells adds that the sums of a cell count each   *)
(* sphere of its leaves once.  The sums are a function that is defined by  *)
(* recursion over the tree; what holds for it is proved by looking at the  *)
(* last cell for which it would not hold.                                  *)
(***************************************************************************)
EXTENDS GravityCells, FiniteSetTheorems, WellFoundedInduction, TLAPS

\* The calls still to be made for a leaf; a leaf whose turn has not come yet
\* will begin at the root.
Calls(leaf) ==
  IF leaf = current THEN pending ELSE IF leaf > current THEN {} ELSE {1}

Lists(leaf) == pairwise[leaf] \union approximating[leaf]

CoverOnce(cells) ==
  /\ \A l \in Leaves : \E c \in cells : l \in Below[c]
  /\ \A c, d \in cells : c # d => Below[c] \intersect Below[d] = {}

CoverInv ==
  \A leaf \in Leaves :
    /\ CoverOnce(Lists(leaf) \union Calls(leaf))
    /\ Calls(leaf) \intersect Lists(leaf) = {}
    /\ pairwise[leaf] \intersect approximating[leaf] = {}

ListsInv ==
  \A leaf \in Leaves :
    /\ pairwise[leaf] \subseteq Leaves
    /\ \A c \in approximating[leaf] : leaf \notin Below[c]

Inv == TypeOK /\ CoverInv /\ ListsInv

-----------------------------------------------------------------------------
\* The root is a cell, leaves are cells, and the halves of an inner cell too.
LEMMA CellFacts ==
  /\ 1 \in Cells
  /\ Leaves \subseteq Cells
  /\ LeafCount \in Leaves
  /\ 2 * LeafCount - 1 \in Leaves
  /\ \A c \in Cells : c < LeafCount => 2 * c \in Cells /\ 2 * c + 1 \in Cells
  /\ \A c \in Cells : c >= LeafCount => c \in Leaves
  BY CellPairsAssumption, SMT DEF Cells, Leaves

\* Every cell has leaves below it, and only leaves.
LEMMA BelowFacts ==
  ASSUME NEW c \in Cells
  PROVE  Below[c] \subseteq Leaves /\ Below[c] # {}
  BY CellPairsAssumption

\* The loop stops at the first leaf, and the recursion before it leaves the tree.
LEMMA TypeStep ==
  ASSUME TypeOK, [Next]_vars
  PROVE  TypeOK'
<1>1. ASSUME NEW test \in pending, Split(test) PROVE TypeOK'
  BY <1>1, CellFacts DEF TypeOK, Split
<1>2. ASSUME NEW test \in pending, AddPairwise(test) PROVE TypeOK'
  BY <1>2 DEF TypeOK, AddPairwise
<1>3. ASSUME NEW test \in pending, AddApproximating(test) PROVE TypeOK'
  BY <1>3 DEF TypeOK, AddApproximating
<1>4. CASE NextLeaf
  <2>1. current - 1 \in Leaves
    BY <1>4, CellPairsAssumption, SMT DEF NextLeaf, TypeOK, Leaves
  <2> QED BY <1>4, <2>1, CellFacts DEF TypeOK, NextLeaf
<1>5. CASE UNCHANGED vars
  BY <1>5 DEF TypeOK, vars
<1> QED BY <1>1, <1>2, <1>3, <1>4, <1>5 DEF Next

\* Every variable keeps its type (rebuildGravityCellPairs).
THEOREM TypeCorrect == Spec => []TypeOK
<1>1. Init => TypeOK
  BY CellFacts DEF Init, TypeOK
<1> QED
  BY <1>1, TypeStep, PTL DEF Spec

-----------------------------------------------------------------------------
\* Dividing a cell keeps a cover a cover.
LEMMA SplitCover ==
  ASSUME NEW lists \in SUBSET Cells, NEW calls \in SUBSET Cells,
         NEW test \in calls, test < LeafCount,
         CoverOnce(lists \union calls), calls \intersect lists = {}
  PROVE  LET new == (calls \ {test}) \union {2 * test, 2 * test + 1}
         IN  CoverOnce(lists \union new) /\ new \intersect lists = {}
<1> DEFINE a == 2 * test
           b == 2 * test + 1
           new == (calls \ {test}) \union {2 * test, 2 * test + 1}
<1>1. /\ test \in Cells /\ a \in Cells /\ b \in Cells
      /\ Below[test] = Below[a] \union Below[b]
      /\ Below[a] \intersect Below[b] = {}
      /\ Below[a] # {} /\ Below[b] # {}
  <2>1. test \in 1 .. LeafCount - 1
    BY CellPairsAssumption, SMT DEF Cells
  <2>2. a \in Cells /\ b \in Cells
    BY CellFacts
  <2> QED BY <2>1, <2>2, CellPairsAssumption, BelowFacts
<1> HIDE DEF a, b
<1>2. new = (calls \ {test}) \union {a, b}
  BY DEF a, b
<1> HIDE DEF new
<1>3. \A c \in lists \union (calls \ {test}) :
        Below[c] \intersect Below[test] = {} /\ c # a /\ c # b
  <2> SUFFICES ASSUME NEW c \in lists \union (calls \ {test})
               PROVE  Below[c] \intersect Below[test] = {} /\ c # a /\ c # b
    OBVIOUS
  <2>1. c # test
    OBVIOUS
  <2>2. Below[c] \intersect Below[test] = {}
    BY <2>1 DEF CoverOnce
  <2> QED BY <2>2, <1>1
<1>4. \A l \in Leaves : \E c \in lists \union new : l \in Below[c]
  <2> SUFFICES ASSUME NEW l \in Leaves
               PROVE  \E c \in lists \union new : l \in Below[c]
    OBVIOUS
  <2>1. PICK c \in lists \union calls : l \in Below[c]
    BY DEF CoverOnce
  <2>2. CASE c = test
    BY <2>1, <2>2, <1>1, <1>2
  <2>3. CASE c # test
    BY <2>1, <2>3, <1>2
  <2> QED BY <2>2, <2>3
<1>5. \A c, d \in lists \union new : c # d => Below[c] \intersect Below[d] = {}
  <2> SUFFICES ASSUME NEW c \in lists \union new, NEW d \in lists \union new, c # d
               PROVE  Below[c] \intersect Below[d] = {}
    OBVIOUS
  <2>1. CASE c \in {a, b} /\ d \in {a, b}
    BY <2>1, <1>1
  <2>2. CASE c \in {a, b} /\ d \notin {a, b}
    BY <2>2, <1>1, <1>2, <1>3
  <2>3. CASE c \notin {a, b} /\ d \in {a, b}
    BY <2>3, <1>1, <1>2, <1>3
  <2>4. CASE c \notin {a, b} /\ d \notin {a, b}
    BY <2>4, <1>2 DEF CoverOnce
  <2> QED BY <2>1, <2>2, <2>3, <2>4
<1>6. new \intersect lists = {}
  BY <1>2, <1>3
<1> QED BY <1>4, <1>5, <1>6 DEF CoverOnce, new

\* At the beginning every leaf has one call for it, of the root.
LEMMA InvBegins ==
  ASSUME Init
  PROVE  Inv
<1>1. TypeOK
  BY CellFacts DEF Init, TypeOK
<1>2. \A leaf \in Leaves : Lists(leaf) = {} /\ Calls(leaf) = {1}
  BY CellPairsAssumption, SMT DEF Init, Lists, Calls, Leaves
<1>3. CoverOnce({1})
  BY CellPairsAssumption DEF CoverOnce
<1>4. CoverInv
  BY <1>2, <1>3 DEF CoverInv, Init
<1>5. ListsInv
  BY DEF Init, ListsInv
<1> QED BY <1>1, <1>4, <1>5 DEF Inv

\* Every call puts a cell on a list or divides it.
LEMMA InvStep ==
  ASSUME Inv, [Next]_vars
  PROVE  Inv'
<1> SUFFICES CoverInv' /\ ListsInv'
  BY TypeStep DEF Inv
<1> USE DEF Inv
<1>0. current \in Leaves /\ pending \subseteq Cells
  BY DEF TypeOK
<1>1. ASSUME NEW test \in pending, Split(test) PROVE CoverInv' /\ ListsInv'
  <2>1. ListsInv'
    BY <1>1 DEF ListsInv, Split
  <2>2. ASSUME NEW leaf \in Leaves
        PROVE  /\ CoverOnce(Lists(leaf) \union Calls(leaf))'
               /\ (Calls(leaf) \intersect Lists(leaf))' = {}
               /\ (pairwise[leaf] \intersect approximating[leaf])' = {}
    <3>1. Lists(leaf)' = Lists(leaf)
      BY <1>1 DEF Lists, Split
    <3>2. Lists(leaf) \subseteq Cells
      BY DEF Lists, TypeOK
    <3>3. CASE leaf = current
      <4>1. Calls(leaf) = pending /\ Calls(leaf)' = pending'
        BY <3>3, <1>1 DEF Calls, Split
      <4>2. CoverOnce(Lists(leaf) \union pending) /\ pending \intersect Lists(leaf) = {}
        BY <4>1 DEF CoverInv
      <4>3. /\ CoverOnce(Lists(leaf) \union pending')
            /\ pending' \intersect Lists(leaf) = {}
        <5>1. /\ Lists(leaf) \in SUBSET Cells /\ pending \in SUBSET Cells
              /\ test \in pending /\ test < LeafCount
              /\ pending' = (pending \ {test}) \union {2 * test, 2 * test + 1}
          BY <1>0, <1>1, <3>2 DEF Split
        <5>2. LET new == (pending \ {test}) \union {2 * test, 2 * test + 1}
              IN  CoverOnce(Lists(leaf) \union new) /\ new \intersect Lists(leaf) = {}
          BY <4>2, <5>1, SplitCover
        <5> QED BY <5>1, <5>2
      <4> QED BY <3>1, <4>1, <4>3, <1>1 DEF CoverInv, CoverOnce, Split
    <3>4. CASE leaf # current
      BY <3>1, <3>4, <1>1 DEF CoverInv, CoverOnce, Split, Calls
    <3> QED BY <3>3, <3>4
  <2> QED BY <2>1, <2>2 DEF CoverInv
<1>2. ASSUME NEW test \in pending, AddPairwise(test) PROVE CoverInv' /\ ListsInv'
  <2>1. ListsInv'
    BY <1>0, <1>2, CellFacts DEF ListsInv, AddPairwise, TypeOK
  <2>2. \A leaf \in Leaves :
          /\ (Lists(leaf) \union Calls(leaf))' = Lists(leaf) \union Calls(leaf)
          /\ (Calls(leaf) \intersect Lists(leaf))' = {}
          /\ (pairwise[leaf] \intersect approximating[leaf])' = {}
    BY <1>0, <1>2 DEF CoverInv, Lists, Calls, AddPairwise, TypeOK
  <2> QED BY <2>1, <2>2 DEF CoverInv, CoverOnce
<1>3. ASSUME NEW test \in pending, AddApproximating(test) PROVE CoverInv' /\ ListsInv'
  <2>1. ListsInv'
    BY <1>0, <1>3 DEF ListsInv, AddApproximating, IsFar, IsParent, TypeOK
  <2>2. \A leaf \in Leaves :
          /\ (Lists(leaf) \union Calls(leaf))' = Lists(leaf) \union Calls(leaf)
          /\ (Calls(leaf) \intersect Lists(leaf))' = {}
          /\ (pairwise[leaf] \intersect approximating[leaf])' = {}
    BY <1>0, <1>3 DEF CoverInv, Lists, Calls, AddApproximating, TypeOK
  <2> QED BY <2>1, <2>2 DEF CoverInv, CoverOnce
<1>4. CASE NextLeaf
  <2>1. ListsInv'
    BY <1>4 DEF ListsInv, NextLeaf
  <2>2. \A leaf \in Leaves : Lists(leaf)' = Lists(leaf) /\ Calls(leaf)' = Calls(leaf)
    BY <1>0, <1>4, CellPairsAssumption, SMT DEF NextLeaf, Lists, Calls, Leaves
  <2> QED BY <1>4, <2>1, <2>2 DEF CoverInv, CoverOnce, NextLeaf
<1>5. CASE UNCHANGED vars
  BY <1>5 DEF CoverInv, ListsInv, CoverOnce, Lists, Calls, vars
<1> QED BY <1>1, <1>2, <1>3, <1>4, <1>5 DEF Next

\* The lists and calls together cover the tree once, and no approximated cell
\* is above its leaf: the inductive invariant.
THEOREM Invariance == Spec => []Inv
  BY InvBegins, InvStep, PTL DEF Spec

\* When the lists of a leaf are complete nothing is pending for it.
LEMMA DoneMeansNoCalls ==
  ASSUME TypeOK, NEW leaf \in Leaves, Done(leaf)
  PROVE  Calls(leaf) = {}
  BY SMT DEF TypeOK, Done, Calls, Leaves

\* Finished lists with nothing pending are a cover by themselves.
LEMMA InvCovers ==
  ASSUME Inv
  PROVE  ListsCoverOnce
<1> SUFFICES ASSUME NEW leaf \in Leaves, Done(leaf)
             PROVE  LET lists == pairwise[leaf] \union approximating[leaf]
                    IN  /\ UNION {Below[c] : c \in lists} = Leaves
                        /\ \A c, d \in lists :
                             c # d => Below[c] \intersect Below[d] = {}
                        /\ pairwise[leaf] \intersect approximating[leaf] = {}
  BY DEF ListsCoverOnce
<1>1. Calls(leaf) = {}
  BY DoneMeansNoCalls DEF Inv
<1>2. CoverOnce(Lists(leaf)) /\ pairwise[leaf] \intersect approximating[leaf] = {}
  BY <1>1 DEF Inv, CoverInv
<1>3. Lists(leaf) \subseteq Cells
  BY DEF Inv, TypeOK, Lists
<1>4. UNION {Below[c] : c \in Lists(leaf)} = Leaves
  BY <1>2, <1>3, BelowFacts DEF CoverOnce
<1> QED BY <1>2, <1>4 DEF CoverOnce, Lists

\* Every leaf of the tree is on the finished lists of every leaf exactly once,
\* by itself or in one cell above it (rebuildGravityCellPairs).
THEOREM CoverCorrect == Spec => []ListsCoverOnce
  BY InvCovers, Invariance, PTL

\* No cell above a leaf is approximated, and the leaf is its own near cell: a
\* sphere never attracts itself (sphereAcceleration excludes it by its index).
THEOREM OwnCellCorrect == Spec => []OwnCellIsNear
<1>1. Inv => OwnCellIsNear
  <2> SUFFICES ASSUME Inv, NEW leaf \in Leaves
               PROVE  /\ \A c \in approximating[leaf] : leaf \notin Below[c]
                      /\ Done(leaf) => leaf \in pairwise[leaf]
    BY DEF OwnCellIsNear
  <2>1. \A c \in approximating[leaf] : leaf \notin Below[c]
    BY DEF Inv, ListsInv
  <2>2. ASSUME Done(leaf) PROVE leaf \in pairwise[leaf]
    <3>1. PICK c \in Lists(leaf) : leaf \in Below[c]
      BY <2>2, DoneMeansNoCalls DEF Inv, CoverInv, CoverOnce
    <3>2. c \in pairwise[leaf] /\ c \in Leaves
      BY <2>1, <3>1 DEF Lists, Inv, ListsInv
    <3> QED BY <3>1, <3>2, CellPairsAssumption
  <2> QED BY <2>1, <2>2
<1> QED BY <1>1, Invariance, PTL

\* A list of cells without common leaves is not longer than the tree has leaves.
LEMMA DisjointCellsFit ==
  ASSUME NEW list \in SUBSET Cells,
         \A c, d \in list : c # d => Below[c] \intersect Below[d] = {}
  PROVE  Cardinality(list) <= LeafCount
<1> DEFINE some == [c \in list |-> CHOOSE l \in Leaves : l \in Below[c]]
<1>1. \A c \in list : some[c] \in Leaves /\ some[c] \in Below[c]
  BY BelowFacts
<1>2. some \in Injection(list, Leaves)
  <2>1. some \in [list -> Leaves]
    BY <1>1
  <2>2. \A c, d \in list : some[c] = some[d] => c = d
    BY <1>1
  <2> HIDE DEF some
  <2> QED BY <2>1, <2>2 DEF Injection, IsInjective
<1>3. IsFiniteSet(Leaves) /\ Cardinality(Leaves) = LeafCount
  <2>1. LeafCount \in Int /\ 2 * LeafCount - 1 \in Int /\ LeafCount <= 2 * LeafCount - 1
    BY CellPairsAssumption
  <2>2. /\ IsFiniteSet(LeafCount .. 2 * LeafCount - 1)
        /\ Cardinality(LeafCount .. 2 * LeafCount - 1) = (2 * LeafCount - 1) - LeafCount + 1
    BY <2>1, FS_Interval
  <2> QED BY <2>1, <2>2 DEF Leaves
<1> HIDE DEF some
<1> QED BY <1>2, <1>3, FS_Injection

\* The lists of a leaf have no more entries than there are leaves to divide.
LEMMA InvFits ==
  ASSUME Inv
  PROVE  ListsFit
<1> SUFFICES ASSUME NEW leaf \in Leaves
             PROVE  /\ Cardinality(pairwise[leaf]) <= LeafCount
                    /\ Cardinality(approximating[leaf]) <= LeafCount
  BY DEF ListsFit, ListSize
<1>1. pairwise[leaf] \in SUBSET Cells /\ approximating[leaf] \in SUBSET Cells
  BY DEF Inv, TypeOK
<1>2. \A c, d \in Lists(leaf) : c # d => Below[c] \intersect Below[d] = {}
  BY DEF Inv, CoverInv, CoverOnce
<1> QED BY <1>1, <1>2, DisjointCellsFit DEF Lists

\* No list of cells ever exceeds its capacity, so addElement() does not throw.
THEOREM ListsFitCorrect == Spec => []ListsFit
  BY InvFits, Invariance, PTL

-----------------------------------------------------------------------------
(* The sums *)

\* Every set of cells that is not empty has a last one.
LEMMA LastCell ==
  ASSUME NEW S \in SUBSET Cells, S # {}
  PROVE  \E c \in S : \A d \in S : d <= c
<1> DEFINE before == OpToRel(<, Nat)
           top == 2 * LeafCount
           T == {top - c : c \in S}
<1>0. top \in Nat /\ \A c \in Cells : c \in Nat /\ top - c \in Nat
  BY CellPairsAssumption DEF Cells
<1>1. IsWellFoundedOn(before, Nat)
  BY NatLessThanWellFounded
<1>2. \A y \in Nat, x \in Nat : y < x => <<y, x>> \in before
  BY DEF OpToRel
<1>3. T \subseteq Nat /\ T # {}
  BY <1>0
<1> HIDE DEF before
<1>4. PICK x \in T : \A y \in T : ~(<<y, x>> \in before)
  BY <1>1, <1>3, WFMin
<1>5. PICK c \in S : x = top - c
  BY <1>4
<1>6. ASSUME NEW d \in S PROVE d <= c
  <2>1. top - d \in T /\ top - d \in Nat /\ x \in Nat
    BY <1>0, <1>3, <1>4
  <2>2. ~(top - d < x)
    BY <2>1, <1>2, <1>4
  <2> QED
    BY <2>1, <2>2, <1>0, <1>5
<1> QED
  BY <1>6

\* What a cell passes on to the cell above it, and its sums.
Up(part) == IF HasMass(part) THEN part ELSE Nothing

SumOf(sums, c) ==
  Plus(Nothing,
       IF c >= LeafCount THEN [i \in Spheres |-> IF at[i] = c THEN 1 ELSE 0]
       ELSE Plus(Up(sums[2 * c]), Up(sums[2 * c + 1])))

\* SumsFrom without its local names.
LEMMA SumsFromDef ==
  SumsFrom([c \in Cells |-> Nothing])
    = CHOOSE sums : sums = [c \in Cells |-> SumOf(sums, c)]
  BY DEF SumsFrom, SumOf, Up

Parts == [Spheres -> Nat]

\* The sums of a cell look only at the cells below it.
LEMMA SumOfTyped ==
  ASSUME NEW sums, NEW c \in Cells,
         c < LeafCount => sums[2 * c] \in Parts /\ sums[2 * c + 1] \in Parts
  PROVE  SumOf(sums, c) \in Parts
<1>1. Nothing \in Parts
  BY DEF Nothing, Parts
<1>2. \A part \in Parts : Up(part) \in Parts
  BY <1>1 DEF Up
<1>3. \A part1, part2 \in Parts : Plus(part1, part2) \in Parts
  BY DEF Plus, Parts
<1>4. CASE c >= LeafCount
  <2>1. [i \in Spheres |-> IF at[i] = c THEN 1 ELSE 0] \in Parts
    BY DEF Parts
  <2> QED
    BY <1>1, <1>3, <1>4, <2>1 DEF SumOf
<1>5. CASE ~(c >= LeafCount)
  <2>1. c < LeafCount
    BY <1>5, CellPairsAssumption DEF Cells
  <2>2. Up(sums[2 * c]) \in Parts /\ Up(sums[2 * c + 1]) \in Parts
    BY <2>1, <1>2
  <2> QED
    BY <1>1, <1>3, <1>5, <2>2 DEF SumOf
<1> QED
  BY <1>4, <1>5

\* The sums can be calculated from the last cell to the first: the function
\* that updateGravityCellData() calculates exists.
LEMMA SumsExist ==
  \E sums \in [Cells -> Parts] : \A c \in Cells : sums[c] = SumOf(sums, c)
<1> DEFINE Right(sums, c) == sums[c] = SumOf(sums, c)
           Begun(c) == \E sums \in [Cells -> Parts] : \A d \in Cells : d >= c => Right(sums, d)
           Missing == {c \in Cells : ~Begun(c)}
<1>1. Missing = {}
  <2> SUFFICES ASSUME Missing # {} PROVE FALSE
    OBVIOUS
  <2>1. PICK c \in Missing : \A d \in Missing : d <= c
    BY LastCell
  <2>2. c \in Cells /\ ~Begun(c) /\ c \in Nat
    BY CellPairsAssumption DEF Cells
  <2> HIDE DEF Missing
  <2>3. PICK sums \in [Cells -> Parts] : \A d \in Cells : d >= c + 1 => Right(sums, d)
    <3>1. CASE c + 1 \in Cells
      <4>1. c + 1 \notin Missing
        BY <2>1, <2>2
      <4> QED
        BY <3>1, <4>1 DEF Missing
    <3>2. CASE c + 1 \notin Cells
      <4>1. \A d \in Cells : ~(d >= c + 1)
        BY <2>2, <3>2, CellPairsAssumption DEF Cells
      <4>2. [d \in Cells |-> Nothing] \in [Cells -> Parts]
        BY DEF Nothing, Parts
      <4> QED
        BY <4>1, <4>2
    <3> QED
      BY <3>1, <3>2
  <2> DEFINE new == [sums EXCEPT ![c] = SumOf(sums, c)]
  <2>4. new \in [Cells -> Parts]
    BY <2>2, CellFacts, SumOfTyped
  <2>5. \A d \in Cells : new[d] = IF d = c THEN SumOf(sums, c) ELSE sums[d]
    OBVIOUS
  <2> HIDE DEF new
  <2>6. ASSUME NEW d \in Cells, d >= c PROVE Right(new, d)
    <3>1. SumOf(new, d) = SumOf(sums, d)
      <4>1. CASE d >= LeafCount
        BY <4>1 DEF SumOf
      <4>2. CASE ~(d >= LeafCount)
        <5>1. 2 * d \in Cells /\ 2 * d + 1 \in Cells /\ 2 * d # c /\ 2 * d + 1 # c
          BY <2>2, <2>6, <4>2, CellFacts, CellPairsAssumption DEF Cells
        <5>2. new[2 * d] = sums[2 * d] /\ new[2 * d + 1] = sums[2 * d + 1]
          BY <2>5, <5>1
        <5> QED
          BY <4>2, <5>2 DEF SumOf
      <4> QED
        BY <4>1, <4>2
    <3>2. CASE d = c
      BY <2>5, <3>1, <3>2
    <3>3. CASE d # c
      <4>1. d >= c + 1
        BY <2>2, <2>6, <3>3, CellPairsAssumption DEF Cells
      <4> QED
        BY <2>3, <2>5, <3>1, <3>3, <4>1
    <3> QED
      BY <3>2, <3>3
  <2>7. Begun(c)
    BY <2>4, <2>6
  <2> QED
    BY <2>2, <2>7
<1>2. 1 \in Cells /\ Begun(1)
  BY <1>1, CellFacts
<1>3. \A d \in Cells : d >= 1
  BY CellPairsAssumption DEF Cells
<1> QED
  BY <1>2, <1>3

\* The sums that updateGravityCellData() leaves are those of every cell.
LEMMA SumsRight ==
  LET sums == SumsFrom([c \in Cells |-> Nothing])
  IN  sums \in [Cells -> Parts] /\ \A c \in Cells : sums[c] = SumOf(sums, c)
<1>1. PICK sums \in [Cells -> Parts] : \A c \in Cells : sums[c] = SumOf(sums, c)
  BY SumsExist
<1>2. sums = [c \in Cells |-> SumOf(sums, c)]
  BY <1>1
<1> DEFINE chosen == CHOOSE any : any = [c \in Cells |-> SumOf(any, c)]
<1>3. chosen = [c \in Cells |-> SumOf(chosen, c)]
  BY <1>2
<1> HIDE DEF chosen
<1>4. \A c \in Cells : chosen[c] = SumOf(chosen, c)
  BY <1>3
<1> DEFINE Bad == {c \in Cells : chosen[c] \notin Parts}
<1>5. Bad = {}
  <2> SUFFICES ASSUME Bad # {} PROVE FALSE
    OBVIOUS
  <2>1. PICK c \in Bad : \A d \in Bad : d <= c
    BY LastCell
  <2>2. c \in Cells /\ chosen[c] \notin Parts
    OBVIOUS
  <2>3. c < LeafCount => chosen[2 * c] \in Parts /\ chosen[2 * c + 1] \in Parts
    <3> SUFFICES ASSUME c < LeafCount
                 PROVE  chosen[2 * c] \in Parts /\ chosen[2 * c + 1] \in Parts
      OBVIOUS
    <3>1. 2 * c \in Cells /\ 2 * c + 1 \in Cells /\ ~(2 * c <= c) /\ ~(2 * c + 1 <= c)
      BY <2>2, CellFacts, CellPairsAssumption DEF Cells
    <3> QED
      BY <2>1, <3>1
  <2> QED
    BY <2>2, <2>3, <1>4, SumOfTyped
<1>6. chosen \in [Cells -> Parts]
  BY <1>3, <1>5
<1> QED
  BY <1>4, <1>6, SumsFromDef DEF chosen

\* A cell sums up spheres of its own leaves only, and each with mass once.
SumsCount(sums) ==
  \A c \in Cells, j \in Spheres :
    /\ sums[c][j] \in 0 .. 1
    /\ sums[c][j] > 0 => at[j] \in Below[c]
    /\ j \notin massless /\ at[j] \in Below[c] => sums[c][j] = 1

\* Each half of a cell has other leaves, so no sphere gets into a sum twice; and a
\* half that holds a sphere with mass is passed on.
LEMMA SumsCorrect ==
  ASSUME at \in [Spheres -> Leaves], NEW sums \in [Cells -> Parts],
         \A c \in Cells : sums[c] = SumOf(sums, c)
  PROVE  SumsCount(sums)
<1> DEFINE Right(c) ==
      \A j \in Spheres :
        /\ sums[c][j] \in 0 .. 1
        /\ sums[c][j] > 0 => at[j] \in Below[c]
        /\ j \notin massless /\ at[j] \in Below[c] => sums[c][j] = 1
           Wrong == {c \in Cells : ~Right(c)}
<1>1. Wrong = {}
  <2> SUFFICES ASSUME Wrong # {} PROVE FALSE
    OBVIOUS
  <2>1. PICK c \in Wrong : \A d \in Wrong : d <= c
    BY LastCell
  <2>2. c \in Cells /\ ~Right(c)
    OBVIOUS
  <2>3. CASE c >= LeafCount
    <3>1. Below[c] = {c}
      BY <2>2, <2>3, CellFacts, CellPairsAssumption
    <3>2. \A j \in Spheres : sums[c][j] = 0 + IF at[j] = c THEN 1 ELSE 0
      <4>1. sums[c] = Plus(Nothing, [i \in Spheres |-> IF at[i] = c THEN 1 ELSE 0])
        BY <2>2, <2>3 DEF SumOf
      <4> QED
        BY <4>1 DEF Plus, Nothing
    <3> QED
      BY <2>2, <3>1, <3>2
  <2>4. CASE ~(c >= LeafCount)
    <3> DEFINE a == 2 * c
               b == 2 * c + 1
    <3>1. /\ a \in Cells /\ b \in Cells /\ ~(a <= c) /\ ~(b <= c)
          /\ c \in 1 .. LeafCount - 1
      BY <2>2, <2>4, CellFacts, CellPairsAssumption DEF Cells
    <3>2. Below[c] = Below[a] \union Below[b] /\ Below[a] \intersect Below[b] = {}
      BY <3>1, CellPairsAssumption
    <3>3. Right(a) /\ Right(b)
      BY <2>1, <3>1
    <3>4. \A j \in Spheres : sums[c][j] = 0 + (Up(sums[a])[j] + Up(sums[b])[j])
      <4>1. sums[c] = Plus(Nothing, Plus(Up(sums[a]), Up(sums[b])))
        BY <2>2, <2>4 DEF SumOf
      <4> QED
        BY <4>1 DEF Plus, Nothing
    <3> HIDE DEF a, b
    <3>5. ASSUME NEW d \in {a, b}, NEW j \in Spheres
          PROVE  /\ Up(sums[d])[j] \in 0 .. 1
                 /\ Up(sums[d])[j] > 0 => at[j] \in Below[d]
                 /\ j \notin massless /\ at[j] \in Below[d] => Up(sums[d])[j] = 1
      <4>1. Right(d)
        BY <3>3
      <4>2. CASE HasMass(sums[d])
        BY <4>1, <4>2 DEF Up
      <4>3. CASE ~HasMass(sums[d])
        <5>1. Up(sums[d])[j] = 0
          BY <4>3 DEF Up, Nothing
        <5>2. j \notin massless => sums[d][j] # 1
          BY <4>3 DEF HasMass
        <5> QED
          BY <4>1, <5>1, <5>2
      <4> QED
        BY <4>2, <4>3
    <3>6. ASSUME NEW j \in Spheres
          PROVE  /\ sums[c][j] \in 0 .. 1
                 /\ sums[c][j] > 0 => at[j] \in Below[c]
                 /\ j \notin massless /\ at[j] \in Below[c] => sums[c][j] = 1
      <4> DEFINE ua == Up(sums[a])[j]
                 ub == Up(sums[b])[j]
      <4>1. /\ ua \in 0 .. 1 /\ ub \in 0 .. 1
            /\ ua > 0 => at[j] \in Below[a]
            /\ ub > 0 => at[j] \in Below[b]
            /\ j \notin massless /\ at[j] \in Below[a] => ua = 1
            /\ j \notin massless /\ at[j] \in Below[b] => ub = 1
        BY <3>5
      <4>2. sums[c][j] = 0 + (ua + ub)
        BY <3>4
      <4> HIDE DEF ua, ub
      <4>3. ~(ua = 1 /\ ub = 1)
        BY <4>1, <3>2
      <4>4. ua \in {0, 1} /\ ub \in {0, 1}
        BY <4>1
      <4> QED
        BY <4>1, <4>2, <4>3, <4>4, <3>2
    <3> QED
      BY <2>2, <3>6
  <2> QED
    BY <2>3, <2>4
<1> QED
  BY <1>1 DEF SumsCount

-----------------------------------------------------------------------------
(* What a sphere feels *)

\* The inductive invariant: the lists are complete before they are used, the
\* sums are right while forces are calculated, and what was felt for the lists
\* of the last step does not count for those of this one.
GravityInv ==
  /\ Inv
  /\ GravityTypeOK
  /\ phase # "forces" => done = {}
  /\ phase = "forces" => SumsCount(sum)
  /\ EverySphereFeltOnce

\* The cells of both lists divide the tree, and a sphere's own leaf is a near
\* cell: so what is counted for a sphere is right.
LEMMA FeltRight ==
  ASSUME Inv, GravityTypeOK, phase = "forces", SumsCount(sum),
         NEW i \in Spheres, NEW j \in Spheres
  PROVE  /\ Felt(i, j) \in Nat
         /\ Felt(i, j) <= (IF i = j THEN 0 ELSE 1)
         /\ i # j /\ j \notin massless => Felt(i, j) = 1
<1> DEFINE near == pairwise[at[i]]
           distant == approximating[at[i]]
           counted == {c \in distant : sum[c][j] > 0}
<1>1. at[i] \in Leaves /\ at[j] \in Leaves /\ at[j] \in Cells
  BY CellFacts DEF GravityTypeOK
<1>2. near \subseteq Leaves /\ distant \subseteq Cells /\ near \intersect distant = {}
  BY <1>1 DEF Inv, TypeOK, ListsInv, CoverInv
<1>3. Done(at[i])
  BY <1>1, CellPairsAssumption DEF GravityTypeOK, Done, Leaves
<1>4. CoverOnce(near \union distant)
  BY <1>1, <1>3, DoneMeansNoCalls DEF Inv, CoverInv, Lists
<1>5. \A c \in counted : at[j] \in Below[c]
  BY <1>2 DEF SumsCount
<1>6. Cardinality({}) = 0 /\ \A c : Cardinality({c}) = 1
  BY FS_EmptySet, FS_Singleton
<1>7. \A l \in near : Below[l] = {l}
  BY <1>2, CellPairsAssumption
<1> DEFINE many == Cardinality(counted)
<1>0. Felt(i, j) = (IF j # i /\ at[j] \in near THEN 1 ELSE 0) + many
  BY DEF Felt
<1>8. CASE i = j
  <2>1. counted = {}
    BY <1>1, <1>5, <1>8 DEF Inv, ListsInv
  <2>2. many = 0
    BY <2>1, <1>6
  <2> HIDE DEF many
  <2> QED
    BY <2>2, <1>0, <1>8
<1>9. CASE i # j /\ at[j] \in near
  <2>1. counted = {}
    <3>1. \A c \in distant : c # at[j]
      BY <1>2, <1>9
    <3>2. \A c \in distant : Below[c] \intersect Below[at[j]] = {}
      BY <1>4, <1>9, <3>1 DEF CoverOnce
    <3> QED
      BY <1>5, <1>7, <1>9, <3>2
  <2>2. many = 0
    BY <2>1, <1>6
  <2> HIDE DEF many
  <2> QED
    BY <2>2, <1>0, <1>9
<1>10. CASE i # j /\ at[j] \notin near
  <2>1. PICK c \in near \union distant : at[j] \in Below[c]
    BY <1>1, <1>4 DEF CoverOnce
  <2>2. c \in distant
    BY <2>1, <1>7, <1>10
  <2>3. counted \subseteq {c}
    BY <1>4, <1>5, <2>1 DEF CoverOnce
  <2>4. counted = {} \/ counted = {c}
    BY <2>3
  <2>5. j \notin massless => counted = {c}
    BY <1>2, <2>1, <2>2, <2>3 DEF SumsCount
  <2>6. many \in {0, 1} /\ (counted = {c} => many = 1)
    BY <2>4, <1>6
  <2> HIDE DEF counted, many
  <2> QED
    BY <2>5, <2>6, <1>0, <1>10
<1> QED
  BY <1>8, <1>9, <1>10

\* Nothing is felt before the lists are built.
LEMMA GravityBegins ==
  ASSUME GravityInit
  PROVE  GravityInv
<1>1. Inv
  BY InvBegins DEF GravityInit
<1>2. LeafCount \in Leaves
  BY CellFacts
<1>3. GravityTypeOK
  BY <1>1, <1>2 DEF GravityInit, GravityTypeOK, Inv, Nothing
<1> QED
  BY <1>1, <1>3 DEF GravityInit, GravityInv, EverySphereFeltOnce

\* The phases of a step: lists, sums, forces.
LEMMA GravityStep ==
  ASSUME GravityInv, [GravityNext]_allVars
  PROVE  GravityInv'
<1> USE DEF GravityInv
<1>1. CASE BuildPairs
  <2>1. Inv' /\ phase = "startUp" /\ UNCHANGED gravityVars
    BY <1>1, InvStep DEF BuildPairs
  <2>2. GravityTypeOK'
    BY <2>1 DEF GravityTypeOK, gravityVars, Inv
  <2> QED
    BY <2>1, <2>2 DEF gravityVars, EverySphereFeltOnce
<1>2. ASSUME NEW what \in {"step", "energy"}, Begin(what) PROVE GravityInv'
  <2>1. Inv'
    BY <1>2, InvStep DEF Begin, listVars, vars
  <2>2. phase # "startUp" \/ (current = LeafCount /\ pending = {})
    BY <1>2 DEF Begin
  <2>3. GravityTypeOK'
    BY <1>2, <2>1, <2>2 DEF Begin, GravityTypeOK, Inv, listVars
  <2> QED
    BY <1>2, <2>1, <2>3 DEF Begin, EverySphereFeltOnce
<1>3. CASE UpdateSphereGravityCellLists
  <2>1. Inv'
    BY <1>3, InvStep DEF UpdateSphereGravityCellLists, listVars, vars
  <2>2. GravityTypeOK'
    BY <1>3, <2>1 DEF UpdateSphereGravityCellLists, GravityTypeOK, Inv, listVars
  <2> QED
    BY <1>3, <2>1, <2>2 DEF UpdateSphereGravityCellLists, EverySphereFeltOnce
<1>4. CASE UpdateGravityCellData
  <2>1. Inv'
    BY <1>4, InvStep DEF UpdateGravityCellData, listVars, vars
  <2>2. /\ phase = "data" /\ done = {} /\ phase' = "forces" /\ done' = {}
        /\ UNCHANGED <<listVars, massless, purpose, at, felt>>
    BY <1>4 DEF UpdateGravityCellData
  <2>3. at \in [Spheres -> Leaves]
    BY DEF GravityTypeOK
  <2>4. sum' \in [Cells -> Parts] /\ \A c \in Cells : sum'[c] = SumOf(sum', c)
    BY <1>4, SumsRight DEF UpdateGravityCellData
  <2>5. SumsCount(sum')
    BY <2>3, <2>4, SumsCorrect
  <2>6. SumsCount(sum)'
    BY <2>2, <2>5 DEF SumsCount
  <2>7. sum' \in [Cells -> [Spheres -> 0 .. 1]]
    BY <2>4, <2>5 DEF SumsCount, Parts
  <2>8. GravityTypeOK'
    BY <2>1, <2>2, <2>7 DEF GravityTypeOK, Inv, listVars
  <2> QED
    BY <2>1, <2>2, <2>6, <2>8 DEF EverySphereFeltOnce
<1>5. ASSUME NEW i \in Spheres, SphereAcceleration(i) \/ SphereEnergy(i) PROVE GravityInv'
  <2>1. Calculate(i)
    BY <1>5 DEF SphereAcceleration, SphereEnergy
  <2>2. Inv'
    BY <2>1, InvStep DEF Calculate, listVars, vars
  <2>3. /\ phase = "forces" /\ phase' = "forces" /\ done' = done \union {i}
        /\ felt' = [felt EXCEPT ![i] = [j \in Spheres |-> Felt(i, j)]]
        /\ UNCHANGED <<listVars, massless, purpose, at, sum>>
    BY <2>1 DEF Calculate
  <2>4. \A j \in Spheres :
          /\ Felt(i, j) \in Nat
          /\ Felt(i, j) <= (IF i = j THEN 0 ELSE 1)
          /\ i # j /\ j \notin massless => Felt(i, j) = 1
    BY <2>3, FeltRight
  <2>5. felt \in [Spheres -> [Spheres -> Nat]]
    BY DEF GravityTypeOK
  <2>6. felt' \in [Spheres -> [Spheres -> Nat]]
    BY <2>3, <2>4, <2>5
  <2>7. GravityTypeOK'
    BY <2>2, <2>3, <2>6 DEF GravityTypeOK, Inv, listVars
  <2>8. SumsCount(sum)'
    BY <2>3 DEF SumsCount
  <2>9. EverySphereFeltOnce'
    <3> SUFFICES ASSUME NEW k \in done', NEW j \in Spheres
                 PROVE  /\ felt'[k][j] <= (IF k = j THEN 0 ELSE 1)
                        /\ k # j /\ j \notin massless' => felt'[k][j] = 1
      BY DEF EverySphereFeltOnce
    <3>1. k \in Spheres
      BY <2>7 DEF GravityTypeOK
    <3>2. CASE k = i
      <4>1. felt'[k][j] = Felt(i, j)
        BY <2>3, <2>5, <3>2
      <4> QED
        BY <2>3, <2>4, <3>2, <4>1
    <3>3. CASE k # i
      <4>1. k \in done /\ felt'[k] = felt[k]
        BY <2>3, <2>5, <3>1, <3>3
      <4> QED
        BY <2>3, <4>1 DEF EverySphereFeltOnce
    <3> QED
      BY <3>2, <3>3
  <2> QED
    BY <2>2, <2>3, <2>7, <2>8, <2>9
<1>6. CASE UNCHANGED allVars
  <2>1. Inv'
    BY <1>6, InvStep DEF allVars, listVars, vars
  <2>2. UNCHANGED <<current, pending, massless, phase, purpose, at, sum, done, felt>>
    BY <1>6 DEF allVars, listVars, gravityVars
  <2>3. GravityTypeOK'
    BY <2>1, <2>2 DEF GravityTypeOK, Inv
  <2> QED
    BY <2>1, <2>2, <2>3 DEF SumsCount, EverySphereFeltOnce
<1> QED
  BY <1>1, <1>2, <1>3, <1>4, <1>5, <1>6 DEF GravityNext

\* The inductive invariant of GravityCells.
LEMMA GravityInvariant == GravitySpec => []GravityInv
  BY GravityBegins, GravityStep, PTL DEF GravitySpec

\* Spheres are in leaves, lists are used only when they are complete, and no
\* sphere is in the sums of a cell twice (updateSphereGravityCellLists,
\* updateGravityCellData).
THEOREM GravityTypeCorrect == GravitySpec => []GravityTypeOK
<1>1. GravityInv => GravityTypeOK
  BY DEF GravityInv
<1> QED
  BY <1>1, GravityInvariant, PTL

\* The lists of all leaves divide the tree at every step and every request for
\* the energy, too, not only when startUp() has built them.
THEOREM GravityListsCorrect == GravitySpec => [](ListsCoverOnce /\ ListsFit)
<1>1. GravityInv => ListsCoverOnce /\ ListsFit
  BY InvCovers, InvFits DEF GravityInv
<1> QED
  BY <1>1, GravityInvariant, PTL

\* Every sphere feels each other sphere that has mass exactly once, and no
\* sphere itself, for every tree, every number of spheres, wherever they are and
\* whatever the comparisons of distances say (rebuildGravityCellPairs,
\* updateSphereGravityCellLists, updateGravityCellData and sphereAcceleration
\* together).
THEOREM FeltOnceCorrect == GravitySpec => []EverySphereFeltOnce
<1>1. GravityInv => EverySphereFeltOnce
  BY DEF GravityInv
<1> QED
  BY <1>1, GravityInvariant, PTL
=============================================================================
