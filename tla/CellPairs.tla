----------------------------- MODULE CellPairs ------------------------------
(***************************************************************************)
(* Which cells of the gravity tree act on which                            *)
(* (rebuildGravityCellPairs in Server/src/SphereCalculator.cpp).           *)
(*                                                                         *)
(* The cells form a binary tree in an array: cell 1 is the root, 2*c and   *)
(* 2*c+1 are the halves of cell c, and the last gravityCellCount3 of the   *)
(* 2*gravityCellCount3 places are the leaves.  For every leaf the code     *)
(* walks the tree from the root and puts each cell it stops at on one of   *)
(* two lists: near cells, whose spheres act one by one, and far cells,     *)
(* whose mass acts as a whole.                                             *)
(*                                                                         *)
(* One call of the recursion is one action and pending holds the calls     *)
(* that are still to be made.  The code makes them depth first; the order  *)
(* shows only in the order of the lists, which are summed over.            *)
(***************************************************************************)
EXTENDS Integers, FiniteSets

CONSTANTS
  LeafCount,   \* gravityCellCount3
  Below,       \* the leaves below each cell
  FarTests,    \* outcomes of theta < maximumTheta: sets of <<leaf, cell>>
  Periodics    \* values of periodicBoundaryConditions

Leaves == LeafCount .. 2 * LeafCount - 1
Cells == 1 .. 2 * LeafCount - 1

ASSUME CellPairsAssumption ==
  /\ LeafCount \in Nat \ {0}
  /\ Below \in [Cells -> (SUBSET Leaves) \ {{}}]
  /\ Below[1] = Leaves
  /\ \A leaf \in Leaves : Below[leaf] = {leaf}
  /\ \A c \in 1 .. LeafCount - 1 :
       /\ Below[c] = Below[2 * c] \union Below[2 * c + 1]
       /\ Below[2 * c] \intersect Below[2 * c + 1] = {}
  /\ \A far \in FarTests : far \subseteq Leaves \X Cells
  /\ Periodics \subseteq BOOLEAN

VARIABLES
  far,            \* the comparisons that come out as "far away"
  periodic,       \* periodicBoundaryConditions
  current,        \* currentCellIndex, the leaf whose lists are built
  pending,        \* test cells of the calls that are still to be made
  pairwise,       \* pairwiseCellsPerGravityCell
  approximating   \* approximatingCellsPerGravityCell

vars == <<far, periodic, current, pending, pairwise, approximating>>

TypeOK ==
  /\ far \in FarTests
  /\ periodic \in Periodics
  /\ current \in Leaves
  /\ pending \subseteq Cells
  /\ pairwise \in [Leaves -> SUBSET Cells]
  /\ approximating \in [Leaves -> SUBSET Cells]

ListSizeOfHalf == LeafCount \div 2

\* maxPairwiseCellsPerGravityCell and maxApproximatingCellsPerGravityCell: one
\* entry more makes TwoDimArray::addElement() throw.
ListSize == LeafCount

Init ==
  /\ far \in FarTests
  /\ periodic \in Periodics
  /\ current = 2 * LeafCount - 1
  /\ pending = {1}
  /\ pairwise = [leaf \in Leaves |-> {}]
  /\ approximating = [leaf \in Leaves |-> {}]

-----------------------------------------------------------------------------
\* The loop that climbs from currentCellIndex to the level of the test cell ends
\* at the test cell exactly when the current leaf is below it.
IsParent(test) == current \in Below[test]

\* theta < maximumTheta decides, and nothing is far in a periodic box.
IsFar(test) == ~periodic /\ ~IsParent(test) /\ <<current, test>> \in far

SplitIntoFirstHalf(test) ==
  /\ test \in pending
  /\ test < LeafCount
  /\ ~IsFar(test)
  /\ pending' = (pending \ {test}) \union {2 * test}
  /\ UNCHANGED <<far, periodic, current, pairwise, approximating>>

\* A cell that is not far is divided ...
Split(test) ==
  /\ test \in pending
  /\ test < LeafCount
  /\ ~IsFar(test)
  /\ pending' = (pending \ {test}) \union {2 * test, 2 * test + 1}
  /\ UNCHANGED <<far, periodic, current, pairwise, approximating>>

\* ... unless it is a leaf.
AddPairwise(test) ==
  /\ test \in pending
  /\ test >= LeafCount
  /\ ~IsFar(test)
  /\ pending' = pending \ {test}
  /\ pairwise' = [pairwise EXCEPT ![current] = @ \union {test}]
  /\ UNCHANGED <<far, periodic, current, approximating>>

AddApproximating(test) ==
  /\ test \in pending
  /\ IsFar(test)
  /\ pending' = pending \ {test}
  /\ approximating' = [approximating EXCEPT ![current] = @ \union {test}]
  /\ UNCHANGED <<far, periodic, current, pairwise>>

\* The loop over cellIndex; the cells that are no leaves get no lists.
NextLeaf ==
  /\ pending = {}
  /\ current > LeafCount
  /\ current' = current - 1
  /\ pending' = {1}
  /\ UNCHANGED <<far, periodic, pairwise, approximating>>

Next ==
  \/ \E test \in pending :
       Split(test) \/ AddPairwise(test) \/ AddApproximating(test)
  \/ NextLeaf

Spec == Init /\ [][Next]_vars

-----------------------------------------------------------------------------
\* The leaf's lists are complete.
Done(leaf) == leaf > current \/ (leaf = current /\ pending = {})

\* The lists of a leaf hold every leaf of the tree exactly once, by itself or in
\* exactly one cell above it: no sphere is forgotten and none acts twice,
\* whatever the comparisons say (rebuildGravityCellPairs, sphereAcceleration).
ListsCoverOnce ==
  \A leaf \in Leaves : Done(leaf) =>
    LET lists == pairwise[leaf] \union approximating[leaf]
    IN  /\ UNION {Below[c] : c \in lists} = Leaves
        /\ \A c, d \in lists : c # d => Below[c] \intersect Below[d] = {}
        /\ pairwise[leaf] \intersect approximating[leaf] = {}

\* A sphere is excluded from its own cell's sum by its index, which works only
\* in the pairwise list: no cell above the leaf is approximated, and the leaf is
\* its own near cell.
OwnCellIsNear ==
  \A leaf \in Leaves :
    /\ \A c \in approximating[leaf] : leaf \notin Below[c]
    /\ Done(leaf) => leaf \in pairwise[leaf]

\* No list is ever full before an element is added, so addElement() never throws.
ListsFit ==
  \A leaf \in Leaves :
    /\ Cardinality(pairwise[leaf]) <= ListSize
    /\ Cardinality(approximating[leaf]) <= ListSize
=============================================================================
