---------------------------- MODULE GravityCells -----------------------------
(***************************************************************************)
(* Forces between distant spheres (updateSphereGravityCellLists,           *)
(* updateGravityCellData and the gravity and Lennard-Jones parts of        *)
(* sphereAcceleration and getTotalEnergy_internal in                       *)
(* Server/src/SphereCalculator.cpp).                                       *)
(*                                                                         *)
(* The lists of near and far cells are built once, in startUp(), by the    *)
(* recursion of CellPairs.  Every step, and every request for the total    *)
(* energy, then enters the spheres into the leaves, sums them up from the  *)
(* leaves to the root, and lets each sphere feel the spheres of its near   *)
(* cells one by one and its far cells as a whole.                          *)
(*                                                                         *)
(* A cell's mass, mass centre and number of spheres are three sums over    *)
(* the same spheres; sum says how often each sphere is part of them.       *)
(***************************************************************************)
EXTENDS CellPairs

CONSTANTS
  Spheres,
  MasslessSets   \* sets of spheres without mass: added and not updated yet

ASSUME GravityCellsAssumption ==
  /\ IsFiniteSet(Spheres)
  /\ MasslessSets \subseteq SUBSET Spheres

VARIABLES
  massless,   \* spheres whose mass is zero
  phase,      \* "startUp", "lists", "data", or "forces" when both are built
  purpose,    \* what they are built for: "step", "energy"
  at,         \* gravityCellIndexOfSpheres, sphereIndicesInGravityCells
  sum,        \* massSumPerCell, massVectorSumPerCell, sphereCountPerGravityCell
  done,       \* spheres whose acceleration or energy is calculated
  felt        \* how often each sphere was part of what a sphere felt

listVars == <<far, periodic, current, pending, pairwise, approximating>>
gravityVars == <<massless, phase, purpose, at, sum, done, felt>>
allVars == <<listVars, gravityVars>>

Nothing == [i \in Spheres |-> 0]

GravityTypeOK ==
  /\ TypeOK
  /\ massless \in MasslessSets
  /\ phase \in {"startUp", "lists", "data", "forces"}
  /\ phase # "startUp" => current = LeafCount /\ pending = {}
  /\ purpose \in {"step", "energy"}
  /\ at \in [Spheres -> Leaves]
  /\ sum \in [Cells -> [Spheres -> 0 .. 1]]
  /\ done \subseteq Spheres
  /\ felt \in [Spheres -> [Spheres -> Nat]]

GravityInit ==
  /\ Init
  /\ massless \in MasslessSets
  /\ phase = "startUp"
  /\ purpose = "step"
  /\ at = [i \in Spheres |-> LeafCount]
  /\ sum = [c \in Cells |-> Nothing]
  /\ done = {}
  /\ felt = [i \in Spheres |-> Nothing]

-----------------------------------------------------------------------------
BuildPairs ==
  /\ phase = "startUp"
  /\ Next
  /\ UNCHANGED gravityVars

\* startUp() is over, or the last step or request is.
Begin(what) ==
  /\ \/ phase = "startUp" /\ current = LeafCount /\ pending = {}
     \/ phase = "forces" /\ done = Spheres
  /\ phase' = "lists"
  /\ purpose' = what
  /\ done' = {}
  /\ UNCHANGED <<listVars, massless, at, sum, felt>>

\* updateSphereGravityCellLists(): the box around the spheres is divided anew
\* every time, so a sphere can be in any leaf, and limiting the coordinates
\* leaves every sphere in one (a box of size zero divides by zero: any leaf).
UpdateSphereGravityCellLists ==
  /\ phase = "lists"
  /\ at' \in [Spheres -> Leaves]
  /\ phase' = "data"
  /\ UNCHANGED <<listVars, massless, purpose, sum, done, felt>>

HasMass(part) == \E i \in Spheres \ massless : part[i] > 0

Plus(part1, part2) == [i \in Spheres |-> part1[i] + part2[i]]

\* The sums of all cells, begun with those that are in start; a cell whose mass
\* is zero is not added to the cell above it.
SumsFrom(start) ==
  LET own(c) == [i \in Spheres |-> IF at[i] = c THEN 1 ELSE 0]
      total[c \in Cells] ==
        LET up(child) == IF HasMass(total[child]) THEN total[child] ELSE Nothing
        IN  Plus(start[c], IF c >= LeafCount THEN own(c) ELSE Plus(up(2 * c), up(2 * c + 1)))
  IN  total

UpdateDataKeepsSums ==
  /\ phase = "data"
  /\ sum' = SumsFrom(sum)
  /\ phase' = "forces"
  /\ UNCHANGED <<listVars, massless, purpose, at, done, felt>>

\* updateGravityCellData()
UpdateGravityCellData ==
  /\ phase = "data"
  /\ sum' = SumsFrom([c \in Cells |-> Nothing])
  /\ phase' = "forces"
  /\ UNCHANGED <<listVars, massless, purpose, at, done, felt>>

FeltFromOwnCell(i, j) ==
  (IF at[j] \in pairwise[at[i]] THEN 1 ELSE 0)
    + Cardinality({c \in approximating[at[i]] : sum[c][j] > 0})

\* How often sphere j is felt by sphere i: by itself if it is in a near cell,
\* and with each far cell that it is part of.
Felt(i, j) ==
  (IF j # i /\ at[j] \in pairwise[at[i]] THEN 1 ELSE 0)
    + Cardinality({c \in approximating[at[i]] : sum[c][j] > 0})

Calculate(i) ==
  /\ phase = "forces"
  /\ i \notin done
  /\ done' = done \union {i}
  /\ felt' = [felt EXCEPT ![i] = [j \in Spheres |-> Felt(i, j)]]
  /\ UNCHANGED <<listVars, massless, phase, purpose, at, sum>>

\* The parallel loop of a step.
SphereAcceleration(i) == purpose = "step" /\ Calculate(i)

\* One round of the loop of getTotalEnergy_internal().
SphereEnergy(i) == purpose = "energy" /\ Calculate(i)

GravityNext ==
  \/ BuildPairs
  \/ \E what \in {"step", "energy"} : Begin(what)
  \/ UpdateSphereGravityCellLists
  \/ UpdateGravityCellData
  \/ \E i \in Spheres : SphereAcceleration(i) \/ SphereEnergy(i)

GravitySpec == GravityInit /\ [][GravityNext]_allVars

-----------------------------------------------------------------------------
\* Newton's law for every pair: a sphere feels each other sphere exactly once,
\* by itself or as part of one far cell, and never itself.  Only a sphere that
\* has no mass yet may be missing (from the Lennard-Jones force of a far cell,
\* which counts spheres), and even that is never felt twice (rebuildGravity-
\* CellPairs, updateSphereGravityCellLists, updateGravityCellData and
\* sphereAcceleration together).
EverySphereFeltOnce ==
  \A i \in done, j \in Spheres :
    /\ felt[i][j] <= (IF i = j THEN 0 ELSE 1)
    /\ i # j /\ j \notin massless => felt[i][j] = 1
=============================================================================
