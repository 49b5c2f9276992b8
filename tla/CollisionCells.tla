--------------------------- MODULE CollisionCells ---------------------------
(***************************************************************************)
(* The grid that finds the spheres that may collide (updateSphereBox,      *)
(* updateSphereCellLists, the collision part of sphereAcceleration and of  *)
(* getTotalEnergy_internal).                                               *)
(*                                                                         *)
(* Every step lays a grid over the box around all spheres, enters each     *)
(* sphere into the cells it can touch during the step, and lets a sphere   *)
(* collide with those it shares a cell with.  A request for the total      *)
(* energy does the same between two steps.  The code does it along three   *)
(* axes; the model has one.  Lengths are integers, so that a cell number   *)
(* is an exact quotient, and speeds are distances per step.                *)
(*                                                                         *)
(* A cell number below zero is converted to unsigned short, for which C++  *)
(* promises nothing: x86 wraps it to a large number, which is then limited *)
(* to the last cell, others saturate it to 0.  Conversions holds what the  *)
(* build can do.                                                           *)
(***************************************************************************)
EXTENDS Integers, FiniteSets

CONSTANTS
  Spheres,      \* indices of the spheres, from 0
  CellCount,    \* cellCount
  Capacity,     \* maxCollidingSpheresPerSphere
  Purposes,     \* what the lists are built for: "step", "energy"
  Positions, Radii,
  Moves,        \* timeStep*speed
  Bends,        \* timeStep*timeStep*acc/2
  Conversions   \* what a negative cell number becomes: "wraps", "saturates"

ASSUME CollisionCellsAssumption ==
  /\ IsFiniteSet(Spheres)
  /\ Spheres = 0 .. Cardinality(Spheres) - 1
  /\ Cardinality(Spheres) > 1
  /\ CellCount \in Nat \ {0}
  /\ Capacity \in Nat
  /\ Positions \subseteq Int /\ Moves \subseteq Int /\ Bends \subseteq Int
  /\ Radii \subseteq Nat \ {0}
  /\ Purposes \subseteq {"step", "energy"}
  /\ Conversions \subseteq {"wraps", "saturates"}

CellIndices == 0 .. CellCount - 1

VARIABLES
  pos, radius, move, bend,  \* spheres
  conversion,               \* how this build converts a negative number
  purpose,                  \* a step, or getTotalEnergy_internal()
  boxLow, boxHigh,          \* sphereBoxPosition, and it plus sphereBoxSize
  cells,                    \* cellIndicesOfSpheres
  colliding,                \* collidingSpheresPerSphere
  acted,                    \* how often a sphere was tested for a collision with
                            \* a sphere, and its force or energy added
  thrown,                   \* a list was found to be full
  phase                     \* "box", "cells", or "forces" when lists are built

spheresVars == <<pos, radius, move, bend, conversion, purpose>>
vars == <<spheresVars, boxLow, boxHigh, cells, colliding, acted, thrown, phase>>

Lowest(S) == CHOOSE x \in S : \A y \in S : x <= y
Highest(S) == CHOOSE x \in S : \A y \in S : x >= y

TypeOK ==
  /\ pos \in [Spheres -> Int] /\ radius \in [Spheres -> Radii]
  /\ move \in [Spheres -> Moves] /\ bend \in [Spheres -> Bends]
  /\ conversion \in Conversions /\ purpose \in Purposes
  /\ boxLow \in Int /\ boxHigh \in Int
  /\ cells \in [Spheres -> SUBSET CellIndices]
  /\ phase # "box" => boxLow <= pos[0] /\ pos[0] <= boxHigh
  /\ phase = "forces" => \A i \in Spheres : cells[i] # {}
  /\ colliding \in [Spheres -> SUBSET Spheres]
  /\ \A i \in Spheres : Cardinality(colliding[i]) <= Capacity
  /\ acted \in [Spheres -> [Spheres -> Nat]]
  /\ thrown \in BOOLEAN
  /\ phase \in {"box", "cells", "forces"}

\* Of the first sphere the code looks only at its position.
Lows == {pos[0]} \union {pos[i] - radius[i] : i \in Spheres \ {0}}
Highs == {pos[0]} \union {pos[i] + radius[i] : i \in Spheres \ {0}}

\* The lowest place a sphere touches during the step.
LowEnd(i) ==
  LET moved == IF move[i] < 0 THEN pos[i] + move[i] ELSE pos[i]
  IN  (IF bend[i] < 0 THEN moved + bend[i] ELSE moved) - radius[i]

\* Cell numbers are quotients of lengths, truncated towards zero.
Scaled(length, low, high) ==
  IF length >= 0 THEN (length * CellCount) \div (high - low)
  ELSE -((-length * CellCount) \div (high - low))

Init ==
  /\ pos \in [Spheres -> Positions] /\ radius \in [Spheres -> Radii]
  /\ move \in [Spheres -> Moves] /\ bend \in [Spheres -> Bends]
  /\ conversion \in Conversions /\ purpose \in Purposes
  /\ boxLow = 0 /\ boxHigh = 0
  /\ cells = [i \in Spheres |-> {}]
  /\ colliding = [i \in Spheres |-> {}]
  /\ acted = [i \in Spheres |-> [j \in Spheres |-> 0]]
  /\ thrown = FALSE
  /\ phase = "box"

-----------------------------------------------------------------------------
\* updateSphereBox()
UpdateSphereBox ==
  /\ phase = "box"
  /\ boxLow' = Lowest(Lows)
  /\ boxHigh' = Highest(Highs)
  /\ phase' = "cells"
  /\ UNCHANGED <<spheresVars, cells, colliding, acted, thrown>>

\* The conversion to unsigned short and the limit to the last cell.
Limited(number) ==
  IF number < 0 THEN IF conversion = "wraps" THEN CellCount - 1 ELSE 0
  ELSE IF number < CellCount THEN number ELSE CellCount - 1

\* The highest.
HighEnd(i) ==
  LET moved == IF move[i] > 0 THEN pos[i] + move[i] ELSE pos[i]
  IN  (IF bend[i] > 0 THEN moved + bend[i] ELSE moved) + radius[i]

CellRangeHalfOpen(i) ==
  LET min == Limited(Scaled(LowEnd(i) - boxLow, boxLow, boxHigh))
      max == Limited(Scaled(HighEnd(i) - boxLow, boxLow, boxHigh))
  IN  {min} \union (min .. max - 1)

\* indexMin .. indexMax; the upper index is not allowed to be the smaller one.
CellRange(i) ==
  LET min == Limited(Scaled(LowEnd(i) - boxLow, boxLow, boxHigh))
      max == Limited(Scaled(HighEnd(i) - boxLow, boxLow, boxHigh))
  IN  min .. IF max < min THEN min ELSE max

\* updateSphereCellLists()
UpdateSphereCellLists ==
  /\ phase = "cells"
  /\ cells' = [i \in Spheres |-> CellRange(i)]
  /\ phase' = "forces"
  /\ UNCHANGED <<spheresVars, boxLow, boxHigh, colliding, acted, thrown>>

Candidates(i) == {j \in Spheres \ {i} : cells[i] \intersect cells[j] # {}}

\* The cells are visited one after the other and a sphere can be met in several.
\* A list that is full throws at the next meeting, of a new sphere or not.
Full(i) ==
  \/ Cardinality(Candidates(i)) > Capacity
  \/ /\ Cardinality(Candidates(i)) = Capacity
     /\ \E j \in Candidates(i) :
          Cardinality({c \in cells[i] : c \in cells[j]}) > 1

ActsPerCell(i, j) == Cardinality(cells[i] \intersect cells[j])

\* addElementIfNotContained() lets a sphere act only when it is met first.
Acts(i, j) == IF j \in Candidates(i) THEN 1 ELSE 0

\* The collision lists of sphere i are reset and filled again.
Collide(i) ==
  /\ phase = "forces"
  /\ ~thrown
  /\ colliding[i] = {}
  /\ Candidates(i) # {}
  /\ IF Full(i)
     THEN thrown' = TRUE /\ UNCHANGED <<colliding, acted>>
     ELSE /\ colliding' = [colliding EXCEPT ![i] = Candidates(i)]
          /\ acted' = [acted EXCEPT ![i] = [j \in Spheres |-> Acts(i, j)]]
          /\ UNCHANGED thrown
  /\ UNCHANGED <<spheresVars, boxLow, boxHigh, cells, phase>>

\* The collisions of one sphere; every sphere has its own list, so the order in
\* which the parallel loop takes them does not matter.
SphereAcceleration(i) == purpose = "step" /\ Collide(i)

\* One round of the loop of getTotalEnergy_internal(), which is not parallel.
SphereEnergy(i) ==
  /\ purpose = "energy"
  /\ \A j \in 0 .. i - 1 : Candidates(j) = {} \/ colliding[j] # {}
  /\ Collide(i)

Next ==
  \/ UpdateSphereBox
  \/ UpdateSphereCellLists
  \/ \E i \in Spheres : SphereAcceleration(i) \/ SphereEnergy(i)

Spec == Init /\ [][Next]_vars

-----------------------------------------------------------------------------
Distance(x, y) == IF x < y THEN y - x ELSE x - y

\* Overlap at the beginning of the step, and at its end if nothing deflects them.
OverlapNow(i, j) == Distance(pos[i], pos[j]) < radius[i] + radius[j]
OverlapAtEnd(i, j) ==
  Distance(pos[i] + move[i] + bend[i], pos[j] + move[j] + bend[j])
    < radius[i] + radius[j]

\* The sphere reaches out of the box by a whole cell or more, and the build
\* wraps the number of that cell: its cells begin at the last one.
StartsBelow(i) ==
  conversion = "wraps" /\ Scaled(LowEnd(i) - boxLow, boxLow, boxHigh) < 0

\* Two spheres that overlap at the beginning or at the end of a step share a
\* cell, so that the exact test is made for them, unless one of the two starts
\* in a wrapped cell; no third sphere matters (updateSphereCellLists).
OverlapsAreCandidates ==
  phase = "forces" =>
    \A i, j \in Spheres :
      /\ i # j /\ ~StartsBelow(i) /\ ~StartsBelow(j)
      /\ OverlapNow(i, j) \/ OverlapAtEnd(i, j)
      => j \in Candidates(i)

\* "Flag if sphere collisions get detected." (Actions.hpp), without the
\* exception: a build that wraps misses pairs of a first sphere or of a fast
\* one (updateSphereBox, updateSphereCellLists).
OverlapsAreAlwaysCandidates ==
  phase = "forces" =>
    \A i, j \in Spheres :
      i # j /\ (OverlapNow(i, j) \/ OverlapAtEnd(i, j)) => j \in Candidates(i)

\* A sphere acts on another at most once however many cells they share, and if
\* it acts the other way round it does so too: action and reaction, and in the
\* energy the same pairs (addElementIfNotContained, sphereAcceleration,
\* getTotalEnergy_internal).
EachActsOnce ==
  \A i, j \in Spheres :
    /\ acted[i][j] <= 1
    /\ acted[i][j] = 1 /\ colliding[j] # {} => acted[j][i] = 1

\* "Calculate and get the total energy." (Actions.hpp): the energy of two
\* spheres that overlap is part of the total once.
PairEnergyCountedOnce ==
  purpose = "energy" /\ (\A i \in Spheres : Candidates(i) = {} \/ colliding[i] # {}) =>
    \A i, j \in Spheres :
      i # j /\ OverlapNow(i, j) => acted[i][j] + acted[j][i] <= 1

\* addElementIfNotContained() throws only if there is an element to be added
\* and no room for it.
FullMeansNoRoom ==
  thrown => \E i \in Spheres : Cardinality(Candidates(i)) > Capacity
=============================================================================
