--------------------------- MODULE MCGravityCells ---------------------------
(***************************************************************************)
(* Small trees for TLC.  The comparison may come out in any way: FarTests  *)
(* has one member for every set of cells below the root, the same for all  *)
(* leaves, since the lists of one leaf do not depend on those of another.  *)
(***************************************************************************)
EXTENDS GravityCells, TLC

CONSTANTS s1, s2, s3

MCSpheres == {s1, s2, s3}
MCMasslessSets == {{}, {s3}}

MCLeaves == LeafCount .. 2 * LeafCount - 1
MCCells == 1 .. 2 * LeafCount - 1

\* The leaves below a cell, from the numbering of the array.
MCBelow ==
  LET below[c \in MCCells] ==
        IF c >= LeafCount THEN {c} ELSE below[2 * c] \union below[2 * c + 1]
  IN  below

MCFarTests == {MCLeaves \X cells : cells \in SUBSET (MCCells \ {1})}

SphereSymmetry == Permutations({s1, s2})

\* `while (index > testCellIndex) index /= 2;`
Climb[index \in MCCells] ==
  [test \in MCCells |-> IF index > test THEN Climb[index \div 2][test] ELSE index]

\* The loop of the code finds exactly the cells above a leaf.
ASSUME ClimbFindsParents ==
  \A leaf \in MCLeaves, test \in MCCells :
    Climb[leaf][test] = test <=> leaf \in MCBelow[test]
=============================================================================
