--------------------------- MODULE IntegrationStep ---------------------------
(***************************************************************************)
(* One integration step of all spheres (the three functions                *)
(* integrateRungeKuttaStep of SphereCalculator), getTotalEnergy and the    *)
(* calculation counter, as the worker thread and its OpenMP threads run    *)
(* them.                                                                   *)
(*                                                                         *)
(* A step first rebuilds the lists its forces need.  A parallel loop then  *)
(* integrates every sphere: a part of the step whose error is too large is *)
(* divided into two halves, and a half may be divided again.  A second     *)
(* parallel loop makes the new positions the positions.  Between, the      *)
(* loops of other spheres read a sphere's old position and extrapolate it  *)
(* with its speed.                                                         *)
(*                                                                         *)
(* Numbers are replaced by the time they stand for, counted from the       *)
(* beginning of the step: pos[i] is the time of spheres[i].pos, speed[i]   *)
(* that of spheres[i].speed, newPos[i] that of newSpherePos[i].  Whether an*)
(* error is too large is left open.                                        *)
(***************************************************************************)
EXTENDS Integers, Sequences, FiniteSets

CONSTANTS
  Counts,       \* numbers of spheres the simulation may have
  MaxDivision,  \* maximumStepDivision
  Threads,      \* OpenMP threads
  FlagSets,     \* the sets of forces and boundary conditions to choose from
  MaxSteps      \* bound on the steps

Flags == {"collisionDetection", "gravityCalculation", "lennardJonesPotential",
          "periodicBoundaryConditions"}

ASSUME IntegrationStepAssumption ==
  /\ Counts \subseteq Nat /\ Counts # {} /\ IsFiniteSet(Counts)
  /\ MaxDivision \in Nat
  /\ Threads \in Nat \ {0}
  /\ FlagSets \subseteq SUBSET Flags
  /\ MaxSteps \in Nat

\* The length of a part that can be divided d times more, in the units of the
\* smallest part, and the time step, the part that has not been divided yet.
Units[d \in 0 .. MaxDivision] == IF d = 0 THEN 1 ELSE 2 * Units[d - 1]
TimeStep == Units[MaxDivision]

MaxCount == CHOOSE n \in Counts : \A m \in Counts : m <= n
AllSpheres == 0 .. MaxCount - 1

VARIABLES
  count,        \* spheres.size()
  flags,        \* the flags among the variables that are TRUE
  fresh,        \* lists that were built from the present positions
  phase,        \* "idle", "integrate" or "publish": where the worker is
  iteration,    \* of each sphere: "waiting", "running" or "finished"
  parts,        \* the stack of the recursion: parts still to be done
  read,         \* what the evaluation of the topmost part has read
  pos, newPos, speed,
  acc,          \* of what trial spheres[i].acc is the mean: its interval and
                \* what it has read
  calculations, \* calculationCounter, in trials
  sincePop,     \* trials since the counter was read
  popped,       \* what was returned last, and the trials since the time before
  stepCounter

sphereVars == <<pos, newPos, speed, acc>>
loopVars == <<iteration, parts, read>>
counterVars == <<calculations, sincePop, popped>>
vars == <<count, flags, fresh, phase, loopVars, sphereVars, counterVars, stepCounter>>

Spheres == 0 .. count - 1
Times == 0 .. TimeStep
Readings == {"nothing", "speedsAtBegin", "otherSpeeds"}

\* A part of the step.  dSpeed says what the trial has read that was rejected
\* before the part was divided.
Part == [start : Times, length : 1 .. TimeStep, depth : 0 .. MaxDivision,
         dSpeed : Readings]
Divided(part) == part.dSpeed # "nothing"

\* What the loop passes for every sphere.
WholeStep == [start |-> 0, length |-> TimeStep, depth |-> 0, dSpeed |-> "nothing"]

TypeOK ==
  /\ count \in Counts
  /\ flags \in FlagSets
  /\ fresh \subseteq {"box", "collisionCells", "gravityCells"}
  /\ phase \in {"idle", "integrate", "publish"}
  /\ iteration \in [AllSpheres -> {"waiting", "running", "finished"}]
  /\ \A i \in AllSpheres : parts[i] \in Seq(Part) /\ Len(parts[i]) <= 2 * MaxDivision + 1
  /\ read \in [AllSpheres -> Readings]
  /\ {pos, newPos, speed} \subseteq [AllSpheres -> Times]
  /\ acc \in [AllSpheres -> [start : Times, length : Times, read : Readings]]
  /\ {calculations, sincePop} \subseteq Nat
  /\ popped \in [value : Nat, since : Nat]
  /\ stepCounter \in 0 .. MaxSteps

Init ==
  /\ count \in Counts
  /\ flags \in FlagSets
  /\ fresh = {}
  /\ phase = "idle"
  /\ iteration = [i \in AllSpheres |-> "waiting"]
  /\ parts = [i \in AllSpheres |-> <<>>]
  /\ read = [i \in AllSpheres |-> "nothing"]
  /\ pos = [i \in AllSpheres |-> TimeStep]
  /\ newPos = [i \in AllSpheres |-> TimeStep]
  /\ speed = [i \in AllSpheres |-> TimeStep]
  /\ acc = [i \in AllSpheres |->
              [start |-> 0, length |-> TimeStep, read |-> "speedsAtBegin"]]
  /\ calculations = 0 /\ sincePop = 0
  /\ popped = [value |-> 0, since |-> 0]
  /\ stepCounter = 0

-----------------------------------------------------------------------------
(* Lists. *)

Cells == {"gravityCalculation", "lennardJonesPotential"}

\* What sphereAcceleration() and getTotalEnergy_internal() read.
ListsRead ==
  (IF "collisionDetection" \in flags THEN {"collisionCells"} ELSE {})
    \union (IF flags \intersect Cells # {} THEN {"gravityCells"} ELSE {})

\* What both build first: the box, and the cells that lie in it.
ListsBuilt ==
  (IF flags \ {"periodicBoundaryConditions"} # {} THEN {"box"} ELSE {})
    \union (IF "collisionDetection" \in flags THEN {"collisionCells"} ELSE {})
    \union (IF flags \intersect Cells # {} THEN {"gravityCells"} ELSE {})

-----------------------------------------------------------------------------
(* What the worker does between two steps. *)

\* A variable is received.
SetFlags(f) ==
  /\ phase = "idle"
  /\ f # flags
  /\ flags' = f
  /\ UNCHANGED <<count, fresh, phase, loopVars, sphereVars, counterVars, stepCounter>>

\* Spheres are added or removed; the lists are of the old ones.
Resize(n) ==
  /\ phase = "idle"
  /\ count' = n
  /\ fresh' = {}
  /\ UNCHANGED <<flags, phase, loopVars, sphereVars, counterVars, stepCounter>>

AddSpheres(n) == n > count /\ Resize(n)
RemoveSpheres(n) == n < count /\ Resize(n)

\* Positions or speeds are set: updateSphere(), updateAllSpheres() and
\* updateSpherePositionsInBox().  The lists are those of the old ones.
UpdateSpheres == count > 0 /\ Resize(count)

\* getTotalEnergy() prepares the lists as a step does.
GetTotalEnergy ==
  /\ phase = "idle"
  /\ fresh' = fresh \union ListsBuilt
  /\ UNCHANGED <<count, flags, phase, loopVars, sphereVars, counterVars, stepCounter>>

\* Without spheres the counter is neither returned nor reset.
PopCalculationCounter ==
  /\ phase = "idle"
  /\ sincePop' = 0
  /\ popped' = [value |-> IF count > 0 THEN calculations \div count ELSE 0,
                since |-> sincePop]
  /\ calculations' = IF count > 0 THEN 0 ELSE calculations
  /\ UNCHANGED <<count, flags, fresh, phase, loopVars, sphereVars, stepCounter>>

\* integrateRungeKuttaStep() picks the function for the flags; it prepares the
\* lists and enters the first loop.
BeginStep ==
  /\ phase = "idle"
  /\ stepCounter < MaxSteps
  /\ phase' = "integrate"
  /\ fresh' = fresh \union ListsBuilt
  /\ iteration' = [i \in AllSpheres |-> "waiting"]
  /\ pos' = [i \in AllSpheres |-> pos[i] - TimeStep]
  /\ speed' = [i \in AllSpheres |-> speed[i] - TimeStep]
  /\ UNCHANGED <<count, flags, parts, read, newPos, acc, counterVars, stepCounter>>

-----------------------------------------------------------------------------
(* The first parallel loop. *)

Running == {i \in Spheres : iteration[i] = "running"}

BeginSphereButTheLast(i) ==
  /\ phase = "integrate"
  /\ i < count - 1
  /\ iteration[i] = "waiting"
  /\ iteration' = [iteration EXCEPT ![i] = "running"]
  /\ newPos' = [newPos EXCEPT ![i] = pos[i]]
  /\ parts' = [parts EXCEPT ![i] = <<WholeStep>>]
  /\ UNCHANGED <<count, flags, fresh, phase, read, pos, speed, acc, counterVars, stepCounter>>

\* A thread takes the next index (schedule(dynamic,1)).
BeginSphere(i) ==
  /\ phase = "integrate"
  /\ iteration[i] = "waiting"
  /\ \A j \in Spheres : j < i => iteration[j] # "waiting"
  /\ Cardinality(Running) < Threads
  /\ iteration' = [iteration EXCEPT ![i] = "running"]
  /\ newPos' = [newPos EXCEPT ![i] = pos[i]]
  /\ parts' = [parts EXCEPT ![i] = <<WholeStep>>]
  /\ UNCHANGED <<count, flags, fresh, phase, read, pos, speed, acc, counterVars, stepCounter>>

\* The stages of the topmost part; another sphere's speed is multiplied by
\* timeDiff, the beginning of this part.
Evaluate(i) ==
  /\ iteration[i] = "running"
  /\ parts[i] # <<>>
  /\ ~Divided(Head(parts[i]))
  /\ read[i] = "nothing"
  /\ read' = [read EXCEPT ![i] =
                IF /\ Head(parts[i]).start > 0
                   /\ \E j \in Spheres \ {i} : speed[j] > 0
                THEN "otherSpeeds" ELSE "speedsAtBegin"]
  /\ calculations' = calculations + 1
  /\ sincePop' = sincePop + 1
  /\ UNCHANGED <<count, flags, fresh, phase, iteration, parts, sphereVars, popped,
                 stepCounter>>

DivideWithoutTimeDiff(i) ==
  /\ read[i] # "nothing"
  /\ LET part == Head(parts[i])
         half == [part EXCEPT !.length = @ \div 2, !.depth = @ + 1]
     IN  /\ part.depth < MaxDivision
         /\ parts' = [parts EXCEPT ![i] =
              <<half, half, [part EXCEPT !.dSpeed = read[i]]>> \o Tail(@)]
  /\ read' = [read EXCEPT ![i] = "nothing"]
  /\ UNCHANGED <<count, flags, fresh, phase, iteration, sphereVars, counterVars, stepCounter>>

\* The error is too large and another division is allowed.
Divide(i) ==
  /\ read[i] # "nothing"
  /\ LET part == Head(parts[i])
         half == [part EXCEPT !.length = @ \div 2, !.depth = @ + 1]
     IN  /\ part.depth < MaxDivision
         /\ parts' = [parts EXCEPT ![i] =
              <<half, [half EXCEPT !.start = @ + half.length],
                [part EXCEPT !.dSpeed = read[i]]>> \o Tail(@)]
  /\ read' = [read EXCEPT ![i] = "nothing"]
  /\ UNCHANGED <<count, flags, fresh, phase, iteration, sphereVars, counterVars, stepCounter>>

\* The mean of a trial of the part.
AccOf(part, trial) == [start |-> part.start, length |-> part.length, read |-> trial]

\* It is small enough, or there is nothing else to be done about it.
Accept(i) ==
  /\ read[i] # "nothing"
  /\ LET part == Head(parts[i])
     IN  /\ newPos' = [newPos EXCEPT ![i] = @ + part.length]
         /\ speed' = [speed EXCEPT ![i] = @ + part.length]
         /\ acc' = [acc EXCEPT ![i] = AccOf(part, read[i])]
  /\ parts' = [parts EXCEPT ![i] = Tail(@)]
  /\ read' = [read EXCEPT ![i] = "nothing"]
  /\ UNCHANGED <<count, flags, fresh, phase, iteration, pos, counterVars, stepCounter>>

EndDividedWithTheLastTrial(i) ==
  /\ iteration[i] = "running"
  /\ parts[i] # <<>>
  /\ Divided(Head(parts[i]))
  /\ acc' = [acc EXCEPT ![i] = AccOf(Head(parts[i]), @.read)]
  /\ parts' = [parts EXCEPT ![i] = Tail(@)]
  /\ UNCHANGED <<count, flags, fresh, phase, iteration, read, pos, newPos, speed,
                 counterVars, stepCounter>>

\* Both halves are done: the speed they have reached stays, but the acceleration
\* becomes that of the trial that was rejected before them.
EndDivided(i) ==
  /\ iteration[i] = "running"
  /\ parts[i] # <<>>
  /\ Divided(Head(parts[i]))
  /\ acc' = [acc EXCEPT ![i] = AccOf(Head(parts[i]), Head(parts[i]).dSpeed)]
  /\ parts' = [parts EXCEPT ![i] = Tail(@)]
  /\ UNCHANGED <<count, flags, fresh, phase, iteration, read, pos, newPos, speed,
                 counterVars, stepCounter>>

FinishAndPublish(i) ==
  /\ iteration[i] = "running"
  /\ parts[i] = <<>>
  /\ iteration' = [iteration EXCEPT ![i] = "finished"]
  /\ pos' = [pos EXCEPT ![i] = newPos[i]]
  /\ UNCHANGED <<count, flags, fresh, phase, parts, read, newPos, speed, acc, counterVars,
                 stepCounter>>

Finish(i) ==
  /\ iteration[i] = "running"
  /\ parts[i] = <<>>
  /\ iteration' = [iteration EXCEPT ![i] = "finished"]
  /\ UNCHANGED <<count, flags, fresh, phase, parts, read, sphereVars, counterVars, stepCounter>>

-----------------------------------------------------------------------------
(* The second parallel loop and the end of the step. *)

\* The first loop ends with a barrier.
BeginPublish ==
  /\ phase = "integrate"
  /\ \A i \in Spheres : iteration[i] = "finished"
  /\ phase' = "publish"
  /\ fresh' = {}
  /\ UNCHANGED <<count, flags, loopVars, sphereVars, counterVars, stepCounter>>

Publish(i) ==
  /\ phase = "publish"
  /\ pos[i] # newPos[i]
  /\ pos' = [pos EXCEPT ![i] = newPos[i]]
  /\ UNCHANGED <<count, flags, fresh, phase, loopVars, newPos, speed, acc, counterVars,
                 stepCounter>>

\* Spheres that are not there count as moved, so that they may be added later.
EndStep ==
  /\ phase = "publish"
  /\ \A i \in Spheres : pos[i] = newPos[i]
  /\ phase' = "idle"
  /\ pos' = [i \in AllSpheres |-> IF i \in Spheres THEN pos[i] ELSE TimeStep]
  /\ speed' = [i \in AllSpheres |-> IF i \in Spheres THEN speed[i] ELSE TimeStep]
  /\ stepCounter' = stepCounter + 1
  /\ UNCHANGED <<count, flags, fresh, loopVars, newPos, acc, counterVars>>

Next ==
  \/ \E f \in FlagSets : SetFlags(f)
  \/ \E n \in Counts : AddSpheres(n) \/ RemoveSpheres(n)
  \/ UpdateSpheres
  \/ GetTotalEnergy \/ PopCalculationCounter
  \/ BeginStep \/ BeginPublish \/ EndStep
  \/ \E i \in Spheres :
       \/ BeginSphere(i) \/ Evaluate(i) \/ Divide(i) \/ Accept(i)
       \/ EndDivided(i) \/ Finish(i) \/ Publish(i)

Spec == Init /\ [][Next]_vars

\* The threads of the loops run.
FairSpec ==
  /\ Spec
  /\ WF_vars(BeginPublish) /\ WF_vars(EndStep)
  /\ \A i \in AllSpheres :
       WF_vars(i \in Spheres /\ (\/ BeginSphere(i) \/ Evaluate(i) \/ Divide(i) \/ Accept(i)
                                 \/ EndDivided(i) \/ Finish(i) \/ Publish(i)))

-----------------------------------------------------------------------------
\* The parts of a divided step tile it: whenever a part begins, the sphere's new
\* position, its speed and timeDiff are of the same time, and a sphere is
\* finished at the end of the step (integrateRungeKuttaStep_internal).
PartsTileTheStep ==
  phase = "integrate" =>
    \A i \in Spheres :
      /\ iteration[i] = "running" /\ parts[i] # <<>> /\ ~Divided(Head(parts[i])) =>
           newPos[i] = Head(parts[i]).start /\ speed[i] = Head(parts[i]).start
      /\ iteration[i] = "finished" => newPos[i] = TimeStep /\ speed[i] = TimeStep

\* The acceleration a sphere keeps, from which the next step's cells are computed,
\* is the mean of the first trial over the whole step.  That trial reads no other
\* sphere's speed but as it was at the beginning: however often the step is divided
\* and however the threads' spheres interleave, the acceleration comes out the same,
\* unlike the speeds (integrateRungeKuttaStep_internal).
AccIsOfTheFirstTrial ==
  phase = "idle" =>
    \A i \in Spheres :
      acc[i] = [start |-> 0, length |-> TimeStep, read |-> "speedsAtBegin"]

PositionsAreOfOneTime ==
  phase = "integrate" => \A i \in Spheres : pos[i] = 0

ListsAreFresh ==
  \A i \in Spheres : read[i] # "nothing" => ListsRead \subseteq fresh

\* Forces are calculated from one instant: while any thread calculates one, every
\* sphere has its position of the beginning of the step, and the lists that are
\* read were built from these positions, for every combination of flags (the two
\* parallel loops of integrateRungeKuttaStep_internal).
ForcesSeeOneInstant == PositionsAreOfOneTime /\ ListsAreFresh

\* A step ends however large the errors are: the division is bounded.
StepEnds == phase = "integrate" ~> phase = "idle"

\* "Time difference (in s) for movements of other spheres."
\* (sphereAcceleration, SphereCalculator.hpp): a position is extrapolated from the
\* beginning of the step with the speed of the beginning of the step.
OthersMoveAsAtBegin == \A i \in Spheres : read[i] # "otherSpeeds"

\* "Get and reset the number of force calculations per sphere." (Actions.hpp,
\* popCalculationCounter): what is returned was calculated since the counter was
\* read before.
PopReportsNewCalculations == popped.value <= popped.since
=============================================================================
