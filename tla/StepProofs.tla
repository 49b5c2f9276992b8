----------------------------- MODULE StepProofs -----------------------------
(***************************************************************************)
(* A step of the simulation is right for every number of spheres, threads  *)
(* and divisions: the parts a sphere's step is divided into tile it, its   *)
(* acceleration is kept for the whole step, and while forces are           *)
(* calculated every position is of the beginning of the step and the lists *)
(* are of these positions.                                                 *)
(*                                                                         *)
(* The invariant describes the stack of the recursion (Tiled): every part  *)
(* ends where the part below it is looked at next, the lowest ends with    *)
(* the step, and the sphere's time is that of the topmost.  That halves    *)
(* add up to the part they were made of needs the lengths of the parts     *)
(* (Units).                                                                *)
(*                                                                         *)
(* The values a step calculates with follow the variables they are derived *)
(* from, for all settings, in whatever order they arrive (second half).    *)
(* That invariant says what a calculation cannot see: while the main       *)
(* thread is between two accesses of a call that computes a value, what it *)
(* has read is still current, or a signal that repairs it is posted.       *)
(***************************************************************************)
EXTENDS IntegrationStep, DerivedValues, SequenceTheorems, FiniteSetTheorems,
        WellFoundedInduction, TLAPS

\* Every set of numbers that is not empty has a first one.
LEMMA FirstNumber ==
  ASSUME NEW S \in SUBSET Nat, S # {}
  PROVE  \E k \in S : \A j \in S : k <= j
<1> DEFINE before == OpToRel(<, Nat)
<1>1. IsWellFoundedOn(before, Nat)
  BY NatLessThanWellFounded
<1>2. \A y \in Nat, x \in Nat : y < x => <<y, x>> \in before
  BY DEF OpToRel
<1> HIDE DEF before
<1>3. S \subseteq Nat
  OBVIOUS
<1>4. PICK k \in S : \A j \in S : ~(<<j, k>> \in before)
  BY <1>1, <1>3, WFMin
<1>5. \A j \in S : j \in Nat /\ k \in Nat /\ ~(j < k)
  BY <1>2, <1>3, <1>4
<1> QED
  BY <1>5

\* A finite set of numbers has a highest one.
LEMMA HighestExists ==
  ASSUME NEW S \in SUBSET Int, IsFiniteSet(S), S # {}
  PROVE  \E x \in S : \A y \in S : y <= x
<1>1. PICK n \in Nat : ExistsSurjection(1 .. n, S)
  BY FS_NatSurjection
<1>2. PICK f \in Surjection(1 .. n, S) : TRUE
  BY <1>1 DEF ExistsSurjection
<1>3. /\ \A k \in 1 .. n : f[k] \in S /\ f[k] \in Int
      /\ \A x \in S : \E k \in 1 .. n : f[k] = x
  BY <1>2 DEF Surjection
<1>4. n >= 1 /\ n \in 1 .. n
  <2>1. PICK k \in 1 .. n : f[k] \in S
    BY <1>3
  <2> QED
    BY <2>1
<1> DEFINE Top(k, m) == m \in 1 .. k /\ \A j \in 1 .. k : f[j] <= f[m]
           Bad == {k \in 1 .. n : \A m \in 1 .. n : ~Top(k, m)}
<1>5. Bad = {}
  <2> SUFFICES ASSUME Bad # {} PROVE FALSE
    OBVIOUS
  <2>1. Bad \in SUBSET Nat
    OBVIOUS
  <2>2. PICK k \in Bad : \A j \in Bad : k <= j
    BY <2>1, FirstNumber
  <2>3. k \in 1 .. n /\ \A m \in 1 .. n : ~Top(k, m)
    OBVIOUS
  <2>4. k # 1
    <3>1. 1 \in 1 .. n /\ Top(1, 1)
      BY <1>3, <1>4
    <3> QED
      BY <2>3, <3>1
  <2>5. k - 1 \in 1 .. n /\ ~(k <= k - 1)
    BY <2>3, <2>4
  <2>6. PICK m \in 1 .. n : Top(k - 1, m)
    BY <2>2, <2>5
  <2>7. \A j \in 1 .. k : j \in 1 .. n /\ (j \in 1 .. k - 1 \/ j = k)
    BY <2>3
  <2>8. m \in 1 .. k /\ k \in 1 .. k /\ \A j \in 1 .. k - 1 : f[j] <= f[m]
    BY <2>3, <2>6
  <2>9. CASE f[k] <= f[m]
    <3>1. \A j \in 1 .. k : f[j] <= f[m]
      BY <2>7, <2>8, <2>9
    <3> QED
      BY <2>3, <2>8, <3>1
  <2>10. CASE ~(f[k] <= f[m])
    <3>1. f[m] <= f[k] /\ f[k] <= f[k]
      BY <1>3, <2>3, <2>10
    <3>2. \A j \in 1 .. k - 1 : f[j] <= f[k]
      BY <1>3, <2>3, <2>7, <2>8, <3>1
    <3>3. \A j \in 1 .. k : f[j] <= f[k]
      BY <2>7, <3>1, <3>2
    <3> QED
      BY <2>3, <2>8, <3>3
  <2> QED
    BY <2>9, <2>10
<1>6. PICK m \in 1 .. n : Top(n, m)
  <2>1. n \notin Bad
    BY <1>5
  <2> QED
    BY <1>4, <2>1
<1>7. f[m] \in S /\ \A y \in S : y <= f[m]
  BY <1>3, <1>6
<1> QED
  BY <1>7

\* MaxCount is the largest of the numbers of spheres.
LEMMA AllSpheresAreEnough ==
  MaxCount \in Nat /\ \A n \in Counts : n \in Nat /\ n <= MaxCount
<1>1. Counts \in SUBSET Int /\ Counts \subseteq Nat /\ IsFiniteSet(Counts) /\ Counts # {}
  BY IntegrationStepAssumption
<1>2. \E n \in Counts : \A m \in Counts : m <= n
  BY <1>1, HighestExists
<1> QED
  BY <1>1, <1>2 DEF MaxCount

-----------------------------------------------------------------------------
(* The lengths of parts *)

\* The first n lengths, each the double of the one before.
Doubling(f, n) ==
  /\ f \in [0 .. n -> Nat \ {0}]
  /\ f[0] = 1
  /\ \A d \in 1 .. n : f[d] = 2 * f[d - 1]

\* There are such lengths.
LEMMA DoublingExists ==
  ASSUME NEW n \in Nat
  PROVE  \E f : Doubling(f, n)
<1> DEFINE Missing == {k \in 0 .. n : \A f : ~Doubling(f, k)}
<1>1. Missing = {}
  <2> SUFFICES ASSUME Missing # {} PROVE FALSE
    OBVIOUS
  <2>1. Missing \in SUBSET Nat
    OBVIOUS
  <2>2. PICK k \in Missing : \A j \in Missing : k <= j
    BY <2>1, FirstNumber
  <2>3. k \in 0 .. n /\ \A f : ~Doubling(f, k)
    OBVIOUS
  <2>4. CASE k = 0
    <3>1. Doubling([j \in 0 .. 0 |-> 1], 0)
      BY DEF Doubling
    <3> QED
      BY <2>3, <2>4, <3>1
  <2>5. CASE k # 0
    <3>1. k - 1 \in 0 .. n /\ ~(k <= k - 1) /\ k \in 1 .. n
      BY <2>3, <2>5
    <3>2. PICK f : Doubling(f, k - 1)
      BY <2>2, <3>1
    <3> DEFINE more == [j \in 0 .. k |-> IF j = k THEN 2 * f[k - 1] ELSE f[j]]
    <3>3. \A j \in 0 .. k : more[j] = IF j = k THEN 2 * f[k - 1] ELSE f[j]
      OBVIOUS
    <3>4. /\ f[0] = 1
          /\ \A j \in 0 .. k - 1 : f[j] \in Nat \ {0}
          /\ \A j \in 1 .. k - 1 : f[j] = 2 * f[j - 1]
      BY <3>1, <3>2 DEF Doubling
    <3>5. more \in [0 .. k -> Nat \ {0}]
      <4>1. 2 * f[k - 1] \in Nat \ {0}
        BY <3>1, <3>4
      <4> QED
        BY <3>1, <3>4, <4>1
    <3> HIDE DEF more
    <3>6. more[0] = 1 /\ \A j \in 1 .. k : more[j] = 2 * more[j - 1]
      BY <3>1, <3>3, <3>4
    <3>7. Doubling(more, k)
      BY <3>5, <3>6 DEF Doubling
    <3> QED
      BY <2>3, <3>7
  <2> QED
    BY <2>4, <2>5
<1> QED
  BY <1>1

\* A part is twice as long as its halves.
LEMMA UnitsDouble == Doubling(Units, MaxDivision)
<1> DEFINE Next1(f) == [d \in 0 .. MaxDivision |-> IF d = 0 THEN 1 ELSE 2 * f[d - 1]]
<1>1. MaxDivision \in Nat
  BY IntegrationStepAssumption
<1>2. PICK f : Doubling(f, MaxDivision)
  BY <1>1, DoublingExists
<1>3. f = Next1(f)
  BY <1>1, <1>2 DEF Doubling
<1>4. Units = Next1(Units)
  BY <1>3 DEF Units
<1>5. Units[0] = 1 /\ \A d \in 1 .. MaxDivision : Units[d] = 2 * Units[d - 1]
  BY <1>1, <1>4
<1> DEFINE Bad == {k \in 0 .. MaxDivision : Units[k] \notin Nat \ {0}}
<1>6. Bad = {}
  <2> SUFFICES ASSUME Bad # {} PROVE FALSE
    OBVIOUS
  <2>1. Bad \in SUBSET Nat
    OBVIOUS
  <2>2. PICK k \in Bad : \A j \in Bad : k <= j
    BY <2>1, FirstNumber
  <2>3. k \in 1 .. MaxDivision /\ k - 1 \in 0 .. MaxDivision /\ ~(k <= k - 1)
    BY <1>1, <1>5
  <2>4. Units[k - 1] \in Nat \ {0}
    BY <2>2, <2>3
  <2> QED
    BY <1>5, <2>3, <2>4
<1>7. Units \in [0 .. MaxDivision -> Nat \ {0}]
  BY <1>4, <1>6
<1> QED
  BY <1>5, <1>7 DEF Doubling

\* The lengths of the whole step, of a part and of its halves.
LEMMA LengthFacts ==
  /\ TimeStep \in Nat \ {0} /\ MaxDivision \in Nat
  /\ \A d \in 0 .. MaxDivision - 1 :
       /\ Units[MaxDivision - (d + 1)] \in Nat \ {0}
       /\ Units[MaxDivision - d] = 2 * Units[MaxDivision - (d + 1)]
<1>1. MaxDivision \in Nat
  BY IntegrationStepAssumption
<1>2. /\ \A d \in 0 .. MaxDivision : Units[d] \in Nat \ {0}
      /\ \A d \in 1 .. MaxDivision : Units[d] = 2 * Units[d - 1]
  BY UnitsDouble DEF Doubling
<1>3. TimeStep \in Nat \ {0}
  BY <1>1, <1>2 DEF TimeStep
<1>4. ASSUME NEW d \in 0 .. MaxDivision - 1
      PROVE  /\ Units[MaxDivision - (d + 1)] \in Nat \ {0}
             /\ Units[MaxDivision - d] = 2 * Units[MaxDivision - (d + 1)]
  <2> DEFINE x == MaxDivision - d
  <2>1. x \in 1 .. MaxDivision /\ x - 1 \in 0 .. MaxDivision /\ x - 1 = MaxDivision - (d + 1)
    BY <1>1
  <2> QED
    BY <1>2, <2>1
<1> QED
  BY <1>1, <1>3, <1>4

-----------------------------------------------------------------------------
(* The stack of parts *)

\* The time at which a part is looked at next: an undivided one at its beginning,
\* a divided one when its halves are done.
DueTime(part) == IF Divided(part) THEN part.start + part.length ELSE part.start

\* The stack s of a sphere that has reached time t: every part has the length of
\* its depth and ends where the next is due, the lowest is the whole step.
Tiled(s, t) ==
  /\ \A p \in 1 .. Len(s) :
       /\ s[p].length = Units[MaxDivision - s[p].depth]
       /\ s[p].start + s[p].length <= TimeStep
       /\ Len(s) - p <= 2 * s[p].depth
       /\ s[p].start + s[p].length = IF p = Len(s) THEN TimeStep ELSE DueTime(s[p + 1])
  /\ s # <<>> => s[Len(s)].start = 0
  /\ t = IF s = <<>> THEN TimeStep ELSE DueTime(s[1])

\* The components of a part.
LEMMA PartFacts ==
  ASSUME NEW part \in Part
  PROVE  /\ part.start \in Nat /\ part.start <= TimeStep
         /\ part.length \in Nat \ {0} /\ part.length <= TimeStep
         /\ part.depth \in 0 .. MaxDivision
         /\ part.dSpeed \in Readings
  BY LengthFacts DEF Part, Times

\* The topmost part and the parts below it.
LEMMA StackFacts ==
  ASSUME NEW s \in Seq(Part), s # <<>>
  PROVE  /\ Len(s) \in Nat \ {0} /\ Head(s) = s[1] /\ s[1] \in Part
         /\ Tail(s) \in Seq(Part) /\ Len(Tail(s)) = Len(s) - 1
         /\ \A p \in 1 .. Len(s) - 1 : Tail(s)[p] = s[p + 1]
         /\ \A p \in 1 .. Len(s) : s[p] \in Part
<1>1. Len(s) \in Nat \ {0}
  BY EmptySeq
<1>2. /\ Tail(s) \in Seq(Part) /\ Len(Tail(s)) = Len(s) - 1
      /\ \A p \in 1 .. Len(Tail(s)) : Tail(s)[p] = s[p + 1]
  BY HeadTailProperties
<1>3. Head(s) = s[1]
  OBVIOUS
<1>4. 1 \in 1 .. Len(s)
  BY <1>1
<1>5. \A p \in 1 .. Len(s) : s[p] \in Part
  BY ElementOfSeq
<1> QED
  BY <1>1, <1>2, <1>3, <1>4, <1>5

\* A sphere begins with the whole step, at its beginning.
LEMMA BeginTiled == <<WholeStep>> \in Seq(Part) /\ Tiled(<<WholeStep>>, 0)
<1> PICK s : s = <<WholeStep>>
  OBVIOUS
<1>1. /\ WholeStep.start = 0 /\ WholeStep.length = TimeStep /\ WholeStep.depth = 0
      /\ ~Divided(WholeStep)
  BY DEF WholeStep, Divided
<1>2. WholeStep \in Part
  BY LengthFacts DEF WholeStep, Part, Times, Readings
<1>3. s \in Seq(Part) /\ Len(s) = 1 /\ s[1] = WholeStep /\ s # <<>>
  BY <1>2
<1>4. \A p \in 1 .. 1 : p = 1
  OBVIOUS
<1>5. Units[MaxDivision - 0] = TimeStep
  BY LengthFacts DEF TimeStep
<1>6. Tiled(s, 0)
  <2>1. DueTime(s[1]) = 0
    BY <1>1, <1>3 DEF DueTime
  <2>2. ASSUME NEW p \in 1 .. 1
        PROVE  /\ s[p].length = Units[MaxDivision - s[p].depth]
               /\ s[p].start + s[p].length <= TimeStep
               /\ 1 - p <= 2 * s[p].depth
               /\ s[p].start + s[p].length = IF p = 1 THEN TimeStep ELSE DueTime(s[p + 1])
    BY <1>1, <1>3, <1>4, <1>5, LengthFacts
  <2> QED
    BY <1>1, <1>3, <2>1, <2>2 DEF Tiled
<1> QED
  BY <1>3, <1>6

\* When the topmost part is done the sphere has reached its end; when it was the
\* only one, that is the end of the step.
LEMMA TiledTail ==
  ASSUME NEW s \in Seq(Part), s # <<>>, NEW t, Tiled(s, t)
  PROVE  /\ Tiled(Tail(s), s[1].start + s[1].length)
         /\ Tail(s) = <<>> => s[1].start = 0 /\ s[1].length = TimeStep
         /\ t = DueTime(s[1])
<1> DEFINE rest == Tail(s)
           n == Len(s)
           end == s[1].start + s[1].length
<1>1. /\ n \in Nat \ {0} /\ s[1] \in Part /\ rest \in Seq(Part) /\ Len(rest) = n - 1
      /\ \A p \in 1 .. n - 1 : rest[p] = s[p + 1]
      /\ \A p \in 1 .. n : s[p] \in Part
  BY StackFacts
<1>2. rest = <<>> <=> n = 1
  <2>1. Len(<<>>) = 0 /\ (rest # <<>> => Len(rest) # 0)
    BY <1>1, EmptySeq
  <2> HIDE DEF rest, n
  <2> QED
    BY <1>1, <2>1
<1> HIDE DEF rest, n
<1>3. /\ \A p \in 1 .. n :
           /\ s[p].length = Units[MaxDivision - s[p].depth]
           /\ s[p].start + s[p].length <= TimeStep
           /\ n - p <= 2 * s[p].depth
           /\ s[p].start + s[p].length = IF p = n THEN TimeStep ELSE DueTime(s[p + 1])
      /\ s[n].start = 0
      /\ t = DueTime(s[1])
  BY DEF Tiled, n
<1>4. end = IF n = 1 THEN TimeStep ELSE DueTime(s[2])
  <2>1. 1 \in 1 .. n /\ 1 + 1 = 2
    BY <1>1
  <2> QED
    BY <1>3, <2>1
<1>5. ASSUME NEW p \in 1 .. n - 1
      PROVE  /\ rest[p].length = Units[MaxDivision - rest[p].depth]
             /\ rest[p].start + rest[p].length <= TimeStep
             /\ (n - 1) - p <= 2 * rest[p].depth
             /\ rest[p].start + rest[p].length
                  = IF p = n - 1 THEN TimeStep ELSE DueTime(rest[p + 1])
  <2> PICK q : q = p + 1
    OBVIOUS
  <2>1. q \in 1 .. n /\ rest[p] = s[q] /\ n - q = (n - 1) - p /\ (q = n <=> p = n - 1)
    BY <1>1
  <2>2. p # n - 1 => rest[p + 1] = s[q + 1]
    BY <1>1
  <2> QED
    BY <1>3, <2>1, <2>2
<1>6. rest # <<>> => rest[n - 1].start = 0 /\ rest[1] = s[2]
  <2>1. n # 1 => n - 1 \in 1 .. n - 1 /\ (n - 1) + 1 = n /\ 1 \in 1 .. n - 1 /\ 1 + 1 = 2
    BY <1>1
  <2> QED
    BY <1>1, <1>2, <1>3, <2>1
<1> HIDE DEF end
<1>7. Tiled(rest, end)
  BY <1>1, <1>2, <1>4, <1>5, <1>6 DEF Tiled
<1>8. n = 1 => s[1].start = 0 /\ s[1].length = TimeStep
  <2>1. n = 1 => s[1].start = 0 /\ s[1].start + s[1].length = TimeStep
    BY <1>3, <1>4 DEF end
  <2>2. s[1].length \in Nat
    BY <1>1, PartFacts
  <2> QED
    BY <2>1, <2>2, LengthFacts
<1> QED
  BY <1>2, <1>3, <1>7, <1>8 DEF rest, end

\* The two halves of a part, and what stays of it until they are done.
Halved(part, half, second, whole) ==
  /\ half \in Part /\ second \in Part /\ whole \in Part
  /\ half.start = part.start /\ whole.start = part.start
  /\ second.start = part.start + half.length
  /\ second.length = half.length /\ whole.length = part.length
  /\ half.length + half.length = part.length
  /\ half.length = Units[MaxDivision - (part.depth + 1)]
  /\ half.depth = part.depth + 1 /\ second.depth = part.depth + 1
  /\ whole.depth = part.depth
  /\ ~Divided(half) /\ ~Divided(second) /\ Divided(whole)

\* A part that may be divided has halves.
LEMMA HalvesFit ==
  ASSUME NEW part \in Part, part.depth < MaxDivision, ~Divided(part),
         NEW trial \in Readings, trial # "nothing",
         part.length = Units[MaxDivision - part.depth],
         part.start + part.length <= TimeStep,
         NEW half, half = [part EXCEPT !.length = @ \div 2, !.depth = @ + 1],
         NEW second, second = [half EXCEPT !.start = @ + half.length],
         NEW whole, whole = [part EXCEPT !.dSpeed = trial]
  PROVE  Halved(part, half, second, whole)
<1>1. /\ part.start \in Nat /\ part.length \in Nat \ {0} /\ part.depth \in 0 .. MaxDivision
      /\ part.start <= TimeStep /\ part.length <= TimeStep
      /\ part.dSpeed \in Readings
  BY PartFacts
<1>2. TimeStep \in Nat \ {0} /\ MaxDivision \in Nat
  BY LengthFacts
<1> DEFINE h == Units[MaxDivision - (part.depth + 1)]
<1>3. h \in Nat \ {0} /\ part.length = 2 * h
  <2>1. part.depth \in 0 .. MaxDivision - 1
    BY <1>1, <1>2
  <2> QED
    BY <2>1, LengthFacts
<1> HIDE DEF h
<1>4. part.length \div 2 = h
  BY <1>3
<1>5. part \in [start : Times, length : 1 .. TimeStep, depth : 0 .. MaxDivision,
                dSpeed : Readings]
  BY DEF Part
<1>6. /\ half.start = part.start /\ half.length = h /\ half.depth = part.depth + 1
      /\ half.dSpeed = part.dSpeed
  BY <1>4, <1>5
<1>7. h \in 1 .. TimeStep /\ part.depth + 1 \in 0 .. MaxDivision /\ part.start + h \in 0 .. TimeStep
  BY <1>1, <1>2, <1>3
<1>8. half \in [start : Times, length : 1 .. TimeStep, depth : 0 .. MaxDivision,
                dSpeed : Readings]
  BY <1>4, <1>5, <1>7
<1>9. /\ second.start = part.start + h /\ second.length = h /\ second.depth = part.depth + 1
      /\ second.dSpeed = part.dSpeed
  BY <1>6, <1>8
<1>10. second \in [start : Times, length : 1 .. TimeStep, depth : 0 .. MaxDivision,
                   dSpeed : Readings]
  BY <1>6, <1>7, <1>8 DEF Times
<1>11. /\ whole.start = part.start /\ whole.length = part.length /\ whole.depth = part.depth
       /\ whole.dSpeed = trial
  BY <1>5
<1>12. whole \in [start : Times, length : 1 .. TimeStep, depth : 0 .. MaxDivision,
                  dSpeed : Readings]
  BY <1>5
<1>13. half \in Part /\ second \in Part /\ whole \in Part
  BY <1>8, <1>10, <1>12 DEF Part
<1>14. h + h = part.length
  BY <1>3
<1>15. ~Divided(half) /\ ~Divided(second) /\ Divided(whole)
  BY <1>6, <1>9, <1>11 DEF Divided
<1> QED
  BY <1>6, <1>9, <1>11, <1>13, <1>14, <1>15 DEF Halved, h

\* The stack when the topmost part of s has been divided.
Stacked(new, half, second, whole, s) ==
  /\ new[1] = half /\ new[2] = second /\ new[3] = whole
  /\ \A p \in 1 .. Len(new) :
       \/ p \in 1 .. 3
       \/ p - 2 \in 1 .. Len(s) /\ new[p] = s[p - 2]

\* A division keeps the time and the tiling: the second half begins where the first
\* ends and ends where the part ends.
LEMMA TiledDivide ==
  ASSUME NEW s \in Seq(Part), s # <<>>, NEW t, Tiled(s, t),
         ~Divided(s[1]), NEW half, NEW second, NEW whole, Halved(s[1], half, second, whole),
         NEW new, new = <<half, second, whole>> \o Tail(s)
  PROVE  /\ new \in Seq(Part) /\ new # <<>> /\ Tiled(new, t)
         /\ Stacked(new, half, second, whole, s)
<1> PICK part : part = s[1]
  OBVIOUS
<1> DEFINE n == Len(s)
           rest == Tail(s)
<1>1. /\ n \in Nat \ {0} /\ part \in Part /\ rest \in Seq(Part) /\ Len(rest) = n - 1
      /\ \A p \in 1 .. n - 1 : rest[p] = s[p + 1]
  BY StackFacts
<1> HIDE DEF n
<1>2. /\ \A p \in 1 .. n :
           /\ s[p].length = Units[MaxDivision - s[p].depth]
           /\ s[p].start + s[p].length <= TimeStep
           /\ n - p <= 2 * s[p].depth
           /\ s[p].start + s[p].length = IF p = n THEN TimeStep ELSE DueTime(s[p + 1])
      /\ s[n].start = 0
      /\ t = DueTime(part)
  BY DEF Tiled, n
<1>3. /\ part.length = Units[MaxDivision - part.depth]
      /\ part.start + part.length <= TimeStep
      /\ n - 1 <= 2 * part.depth
      /\ part.start + part.length = IF n = 1 THEN TimeStep ELSE DueTime(s[2])
  <2>1. 1 \in 1 .. n /\ 1 + 1 = 2
    BY <1>1
  <2> QED
    BY <1>2, <2>1
<1>4. /\ half \in Part /\ second \in Part /\ whole \in Part
      /\ half.start = part.start /\ whole.start = part.start
      /\ second.start = part.start + half.length
      /\ second.length = half.length /\ whole.length = part.length
      /\ half.length + half.length = part.length
      /\ half.length = Units[MaxDivision - (part.depth + 1)]
      /\ half.depth = part.depth + 1 /\ second.depth = part.depth + 1
      /\ whole.depth = part.depth
      /\ ~Divided(half) /\ ~Divided(second) /\ Divided(whole)
  BY DEF Halved
<1> PICK top : top = <<half, second, whole>>
  OBVIOUS
<1>5. /\ top \in Seq(Part) /\ Len(top) = 3
      /\ top[1] = half /\ top[2] = second /\ top[3] = whole
  BY <1>4
<1>6. /\ new \in Seq(Part) /\ Len(new) = n + 2
      /\ \A p \in 1 .. n + 2 : new[p] = IF p <= 3 THEN top[p] ELSE rest[p - 3]
  <2>1. new = top \o rest
    OBVIOUS
  <2> HIDE DEF rest
  <2>2. /\ new \in Seq(Part) /\ Len(new) = Len(top) + Len(rest)
        /\ \A p \in 1 .. Len(top) + Len(rest) :
             new[p] = IF p <= Len(top) THEN top[p] ELSE rest[p - Len(top)]
    BY <1>1, <1>5, <2>1, ConcatProperties, SMTT(60)
  <2>3. Len(top) + Len(rest) = n + 2
    BY <1>1, <1>5
  <2> QED
    BY <1>5, <2>2, <2>3
<1>7. new[1] = half /\ new[2] = second /\ new[3] = whole
  <2>1. 1 \in 1 .. n + 2 /\ 2 \in 1 .. n + 2 /\ 3 \in 1 .. n + 2
    BY <1>1
  <2> QED
    BY <1>5, <1>6, <2>1
<1>8. ASSUME NEW p \in 4 .. n + 2 PROVE p - 2 \in 1 .. n /\ new[p] = s[p - 2]
  <2>1. p - 3 \in 1 .. n - 1 /\ (p - 3) + 1 = p - 2 /\ p - 2 \in 1 .. n /\ p \in 1 .. n + 2
        /\ ~(p <= 3)
    BY <1>1
  <2> QED
    BY <1>1, <1>6, <2>1
<1>9. new # <<>>
  <2>1. Len(<<>>) = 0
    BY EmptySeq
  <2> QED
    BY <1>1, <1>6, <2>1
<1>10. /\ part.start \in Nat /\ part.length \in Nat /\ half.length \in Nat
       /\ part.depth \in 0 .. MaxDivision /\ TimeStep \in Nat /\ MaxDivision \in Nat
  BY <1>1, <1>4, PartFacts, LengthFacts
<1> HIDE DEF rest
<1>11. ASSUME NEW p \in 1 .. n + 2
       PROVE  /\ new[p].length = Units[MaxDivision - new[p].depth]
              /\ new[p].start + new[p].length <= TimeStep
              /\ (n + 2) - p <= 2 * new[p].depth
              /\ new[p].start + new[p].length
                   = IF p = n + 2 THEN TimeStep ELSE DueTime(new[p + 1])
  <2>1. CASE p = 1
    <3>1. half.start + half.length = second.start /\ DueTime(second) = second.start
      BY <1>4, <1>10 DEF DueTime
    <3>2. half.start + half.length <= TimeStep
      <4> PICK x, y, z : x = part.start /\ y = part.length /\ z = half.length
        OBVIOUS
      <4>1. x \in Nat /\ y \in Nat /\ z \in Nat /\ TimeStep \in Nat
        BY <1>10
      <4>2. x + y <= TimeStep /\ z + z = y /\ half.start = x
        BY <1>3, <1>4
      <4>3. x + z <= TimeStep
        BY <4>1, <4>2
      <4> QED
        BY <4>2, <4>3
    <3>3. (n + 2) - 1 <= 2 * half.depth /\ 1 # n + 2
      <4> PICK d : d = part.depth
        OBVIOUS
      <4>1. half.depth = d + 1 /\ d \in Nat /\ n - 1 <= 2 * d /\ n \in Nat
        BY <1>1, <1>3, <1>4, <1>10
      <4>2. (n + 2) - 1 <= 2 * (d + 1) /\ 1 # n + 2
        BY <4>1
      <4> QED
        BY <4>1, <4>2
    <3>4. half.length = Units[MaxDivision - half.depth] /\ 1 + 1 = 2
      BY <1>4
    <3> QED
      BY <1>7, <2>1, <3>1, <3>2, <3>3, <3>4
  <2>2. CASE p = 2
    <3>1. second.start + second.length = part.start + part.length
      BY <1>4, <1>10
    <3>2. DueTime(whole) = part.start + part.length
      BY <1>4 DEF DueTime
    <3>3. (n + 2) - 2 <= 2 * second.depth /\ 2 # n + 2 /\ 2 + 1 = 3
      BY <1>1, <1>3, <1>4, <1>10, SMTT(30)
    <3>4. second.length = Units[MaxDivision - second.depth]
      BY <1>4
    <3> QED
      BY <1>3, <1>7, <2>2, <3>1, <3>2, <3>3, <3>4
  <2>3. CASE p = 3
    <3>1. 3 = n + 2 <=> n = 1
      BY <1>1
    <3>2. n # 1 => new[4] = s[2]
      <4>1. n # 1 => 4 \in 4 .. n + 2 /\ 4 - 2 = 2
        BY <1>1
      <4> QED
        BY <1>8, <4>1
    <3>3. (n + 2) - 3 <= 2 * whole.depth /\ 3 + 1 = 4
      BY <1>1, <1>3, <1>4, <1>10
    <3>4. whole.start + whole.length = IF n = 1 THEN TimeStep ELSE DueTime(s[2])
      BY <1>3, <1>4
    <3>5. whole.length = Units[MaxDivision - whole.depth] /\ whole.start + whole.length <= TimeStep
      BY <1>3, <1>4
    <3> QED
      BY <1>7, <2>3, <3>1, <3>2, <3>3, <3>4, <3>5
  <2>4. CASE p \in 4 .. n + 2
    <3> PICK q : q = p - 2
      OBVIOUS
    <3>0. n \in Nat /\ p \in Int
      BY <1>1
    <3>1. q \in 1 .. n /\ new[p] = s[q] /\ n - q = (n + 2) - p /\ (q = n <=> p = n + 2)
      <4>1. q \in 1 .. n /\ new[p] = s[q]
        BY <1>8, <2>4
      <4>2. n - q = (n + 2) - p /\ (q = n <=> p = n + 2)
        BY <3>0
      <4> QED
        BY <4>1, <4>2
    <3>2. p # n + 2 => new[p + 1] = s[q + 1]
      <4>1. p # n + 2 => p + 1 \in 4 .. n + 2 /\ (p + 1) - 2 = q + 1
        BY <1>1, <2>4
      <4> QED
        BY <1>8, <4>1
    <3> QED
      BY <1>2, <3>1, <3>2
  <2>5. p = 1 \/ p = 2 \/ p = 3 \/ p \in 4 .. n + 2
    BY <1>1
  <2> QED
    BY <2>1, <2>2, <2>3, <2>4, <2>5
<1>12. new[n + 2].start = 0
  <2>1. CASE n = 1
    BY <1>2, <1>4, <1>7, <2>1
  <2>2. CASE n # 1
    <3>1. n + 2 \in 4 .. n + 2 /\ (n + 2) - 2 = n
      BY <1>1, <2>2
    <3> QED
      BY <1>2, <1>8, <3>1
  <2> QED
    BY <2>1, <2>2
<1>13. t = DueTime(new[1])
  <2>1. t = part.start
    BY <1>2 DEF DueTime
  <2>2. DueTime(half) = part.start
    BY <1>4 DEF DueTime
  <2> QED
    BY <1>7, <2>1, <2>2
<1>14. \A p \in 1 .. n + 2 : p \in 1 .. 3 \/ p \in 4 .. n + 2
  BY <1>1
<1>15. Tiled(new, t)
  BY <1>6, <1>9, <1>11, <1>12, <1>13 DEF Tiled
<1>16. Stacked(new, half, second, whole, s)
  BY <1>6, <1>7, <1>8, <1>14 DEF n, Stacked
<1> QED
  BY <1>6, <1>9, <1>15, <1>16

-----------------------------------------------------------------------------
(* The invariant *)

Typed ==
  /\ count \in Counts
  /\ flags \in FlagSets
  /\ fresh \subseteq {"box", "collisionCells", "gravityCells"}
  /\ phase \in {"idle", "integrate", "publish"}
  /\ iteration \in [AllSpheres -> {"waiting", "running", "finished"}]
  /\ parts \in [AllSpheres -> Seq(Part)]
  /\ read \in [AllSpheres -> Readings]
  /\ pos \in [AllSpheres -> Times]
  /\ newPos \in [AllSpheres -> Times]
  /\ speed \in [AllSpheres -> Times]
  /\ acc \in [AllSpheres -> [start : Times, length : Times, read : Readings]]
  /\ calculations \in Nat
  /\ sincePop \in Nat
  /\ popped \in [value : Nat, since : Nat]
  /\ stepCounter \in 0 .. MaxSteps
  /\ phase # "idle" => stepCounter < MaxSteps

\* A trial of a part at the beginning of the step reads every speed as it was then.
ReadAtBegin(s) ==
  \A p \in 1 .. Len(s) : s[p].start = 0 => s[p].dSpeed # "otherSpeeds"

\* The mean of the first trial.
FirstTrial == AccOf(WholeStep, "speedsAtBegin")

\* A sphere's stack is tiled while its step is running and empty otherwise; it is at
\* the beginning of the step until it runs and at its end when it has finished.
SphereInv(i) ==
  /\ parts[i] = <<>> => read[i] = "nothing" /\ acc[i] = FirstTrial
  /\ read[i] # "nothing" => ~Divided(parts[i][1])
  /\ read[i] # "nothing" /\ parts[i][1].start = 0 => read[i] = "speedsAtBegin"
  /\ ReadAtBegin(parts[i])
  /\ iteration[i] # "running" => parts[i] = <<>>
  /\ iteration[i] = "running" =>
       /\ phase = "integrate" /\ i \in Spheres
       /\ Tiled(parts[i], newPos[i]) /\ speed[i] = newPos[i]
  /\ phase = "idle" => pos[i] = TimeStep /\ speed[i] = TimeStep
  /\ phase = "integrate" => pos[i] = 0
  /\ phase = "integrate" /\ iteration[i] = "waiting" => speed[i] = 0
  /\ phase # "idle" /\ iteration[i] = "finished" => newPos[i] = TimeStep /\ speed[i] = TimeStep
  /\ phase = "publish" /\ i \in Spheres => iteration[i] = "finished"

StepInv ==
  /\ Typed
  /\ phase = "integrate" => ListsBuilt \subseteq fresh
  /\ \A i \in AllSpheres : SphereInv(i)

\* Every sphere of the simulation is among those that are modelled.
LEMMA SpheresFacts ==
  ASSUME Typed
  PROVE  /\ count \in Nat /\ MaxCount \in Nat /\ Spheres \subseteq AllSpheres
         /\ \A i \in AllSpheres : i \in Nat
  BY AllSpheresAreEnough DEF Typed, Spheres, AllSpheres

\* The stack never outgrows the room of TypeOK, and a sphere's time stays in the step.
LEMMA TiledFits ==
  ASSUME NEW s \in Seq(Part), NEW t, Tiled(s, t)
  PROVE  Len(s) <= 2 * MaxDivision + 1 /\ t \in Times
<1>1. TimeStep \in Nat /\ MaxDivision \in Nat
  BY LengthFacts
<1>2. CASE s = <<>>
  <2>1. Len(s) = 0 /\ t = TimeStep
    BY <1>2, EmptySeq DEF Tiled
  <2> QED
    BY <1>1, <2>1 DEF Times
<1>3. CASE s # <<>>
  <2> PICK n, part : n = Len(s) /\ part = s[1]
    OBVIOUS
  <2>1. n \in Nat \ {0} /\ part \in Part /\ 1 \in 1 .. n
    BY <1>3, StackFacts
  <2>2. /\ n - 1 <= 2 * part.depth /\ part.start + part.length <= TimeStep
        /\ t = DueTime(part)
    BY <1>3, <2>1 DEF Tiled
  <2>3. /\ part.start \in Nat /\ part.length \in Nat /\ part.depth \in 0 .. MaxDivision
        /\ part.start <= TimeStep
    BY <2>1, PartFacts
  <2>4. n <= 2 * MaxDivision + 1
    BY <1>1, <2>1, <2>2, <2>3
  <2>5. t = part.start \/ t = part.start + part.length
    BY <2>2 DEF DueTime
  <2>6. t \in 0 .. TimeStep
    BY <1>1, <2>2, <2>3, <2>5
  <2> QED
    BY <2>4, <2>6 DEF Times
<1> QED
  BY <1>2, <1>3

\* The invariant implies the types.
LEMMA StepInvTyped == StepInv => TypeOK
<1> SUFFICES ASSUME StepInv PROVE TypeOK
  OBVIOUS
<1>1. Typed /\ \A i \in AllSpheres : SphereInv(i)
  BY DEF StepInv
<1>2. ASSUME NEW i \in AllSpheres
      PROVE  parts[i] \in Seq(Part) /\ Len(parts[i]) <= 2 * MaxDivision + 1
  <2>1. parts[i] \in Seq(Part)
    BY <1>1 DEF Typed
  <2>2. CASE iteration[i] = "running"
    BY <1>1, <2>1, <2>2, TiledFits DEF SphereInv
  <2>3. CASE iteration[i] # "running"
    <3>1. parts[i] = <<>> /\ Len(<<>>) = 0
      BY <1>1, <2>3, EmptySeq DEF SphereInv
    <3> QED
      BY <2>1, <3>1, LengthFacts
  <2> QED
    BY <2>2, <2>3
<1> QED
  BY <1>1, <1>2 DEF Typed, TypeOK

\* It implies what the runs check.
LEMMA StepInvIsEnough ==
  StepInv => PartsTileTheStep /\ AccIsOfTheFirstTrial /\ ForcesSeeOneInstant
<1> SUFFICES ASSUME StepInv PROVE PartsTileTheStep /\ AccIsOfTheFirstTrial /\ ForcesSeeOneInstant
  OBVIOUS
<1>1. Typed /\ \A i \in Spheres : i \in AllSpheres /\ SphereInv(i)
  BY SpheresFacts DEF StepInv
<1>2. PartsTileTheStep
  <2> SUFFICES ASSUME phase = "integrate", NEW i \in Spheres
               PROVE  /\ iteration[i] = "running" /\ parts[i] # <<>> /\ ~Divided(Head(parts[i])) =>
                           newPos[i] = Head(parts[i]).start /\ speed[i] = Head(parts[i]).start
                      /\ iteration[i] = "finished" => newPos[i] = TimeStep /\ speed[i] = TimeStep
    BY DEF PartsTileTheStep
  <2>1. SphereInv(i) /\ parts[i] \in Seq(Part)
    BY <1>1 DEF Typed
  <2>2. iteration[i] = "finished" => newPos[i] = TimeStep /\ speed[i] = TimeStep
    BY <2>1 DEF SphereInv
  <2>3. ASSUME iteration[i] = "running", parts[i] # <<>>, ~Divided(Head(parts[i]))
        PROVE  newPos[i] = Head(parts[i]).start /\ speed[i] = Head(parts[i]).start
    <3>1. Tiled(parts[i], newPos[i]) /\ speed[i] = newPos[i]
      BY <2>1, <2>3 DEF SphereInv
    <3>2. Head(parts[i]) = parts[i][1]
      BY <2>1, <2>3, StackFacts
    <3>3. newPos[i] = DueTime(parts[i][1])
      BY <2>3, <3>1 DEF Tiled
    <3> QED
      BY <2>3, <3>1, <3>2, <3>3 DEF DueTime
  <2> QED
    BY <2>2, <2>3
<1>3. AccIsOfTheFirstTrial
  <2> SUFFICES ASSUME phase = "idle", NEW i \in Spheres
               PROVE  acc[i] = [start |-> 0, length |-> TimeStep, read |-> "speedsAtBegin"]
    BY DEF AccIsOfTheFirstTrial
  <2>1. SphereInv(i)
    BY <1>1
  <2>2. parts[i] = <<>>
    BY <2>1 DEF SphereInv
  <2> QED
    BY <2>1, <2>2 DEF SphereInv, FirstTrial, AccOf, WholeStep
<1>4. PositionsAreOfOneTime
  BY <1>1 DEF PositionsAreOfOneTime, SphereInv
<1>5. ListsAreFresh
  <2> SUFFICES ASSUME NEW i \in Spheres, read[i] # "nothing" PROVE ListsRead \subseteq fresh
    BY DEF ListsAreFresh
  <2>1. SphereInv(i)
    BY <1>1
  <2>2. phase = "integrate"
    BY <2>1 DEF SphereInv
  <2>3. ListsRead \subseteq ListsBuilt
    BY DEF ListsRead, ListsBuilt
  <2> QED
    BY <2>2, <2>3 DEF StepInv
<1> QED
  BY <1>2, <1>3, <1>4, <1>5 DEF ForcesSeeOneInstant

-----------------------------------------------------------------------------
(* The steps of one sphere *)

\* A thread changes only what belongs to its sphere, and counts.
OnlySphere(i) ==
  /\ UNCHANGED <<count, flags, fresh, phase, stepCounter>>
  /\ \A j \in AllSpheres : j # i =>
       /\ parts'[j] = parts[j] /\ read'[j] = read[j] /\ acc'[j] = acc[j]
       /\ iteration'[j] = iteration[j] /\ pos'[j] = pos[j]
       /\ newPos'[j] = newPos[j] /\ speed'[j] = speed[j]

LEMMA OneSphere ==
  ASSUME StepInv, Typed', NEW i \in Spheres, OnlySphere(i), SphereInv(i)'
  PROVE  StepInv'
<1>1. Spheres' = Spheres /\ AllSpheres' = AllSpheres /\ ListsBuilt' = ListsBuilt
  BY DEF OnlySphere, Spheres, AllSpheres, ListsBuilt
<1>2. ASSUME NEW j \in AllSpheres PROVE SphereInv(j)'
  <2>1. CASE j = i
    BY <2>1
  <2>2. CASE j # i
    <3>1. SphereInv(j)
      BY DEF StepInv
    <3>2. /\ parts'[j] = parts[j] /\ read'[j] = read[j] /\ acc'[j] = acc[j]
          /\ iteration'[j] = iteration[j] /\ pos'[j] = pos[j]
          /\ newPos'[j] = newPos[j] /\ speed'[j] = speed[j] /\ phase' = phase
      BY <2>2 DEF OnlySphere
    <3> QED
      BY <1>1, <3>1, <3>2 DEF SphereInv
  <2> QED
    BY <2>1, <2>2
<1> QED
  BY <1>1, <1>2 DEF StepInv, OnlySphere

\* A thread takes the sphere and its whole step.
LEMMA BeginSphereKeeps ==
  ASSUME StepInv, NEW i \in Spheres, BeginSphere(i)
  PROVE  StepInv'
<1>1. Typed /\ i \in AllSpheres /\ SphereInv(i)
  BY SpheresFacts DEF StepInv
<1>2. /\ phase = "integrate" /\ iteration[i] = "waiting"
      /\ iteration' = [iteration EXCEPT ![i] = "running"]
      /\ newPos' = [newPos EXCEPT ![i] = pos[i]]
      /\ parts' = [parts EXCEPT ![i] = <<WholeStep>>]
      /\ UNCHANGED <<count, flags, fresh, phase, read, pos, speed, acc, counterVars, stepCounter>>
  BY DEF BeginSphere
<1>3. /\ iteration'[i] = "running" /\ newPos'[i] = pos[i] /\ parts'[i] = <<WholeStep>>
      /\ \A j \in AllSpheres : j # i =>
           /\ iteration'[j] = iteration[j] /\ newPos'[j] = newPos[j] /\ parts'[j] = parts[j]
  BY <1>1, <1>2 DEF Typed
<1>4. Typed'
  <2>1. parts' \in [AllSpheres -> Seq(Part)]
    BY <1>1, <1>2, BeginTiled DEF Typed
  <2>2. newPos' \in [AllSpheres -> Times]
    BY <1>1, <1>2 DEF Typed
  <2>3. iteration' \in [AllSpheres -> {"waiting", "running", "finished"}]
    BY <1>1, <1>2 DEF Typed
  <2> QED
    BY <1>1, <1>2, <2>1, <2>2, <2>3 DEF Typed, counterVars
<1>5. OnlySphere(i)
  BY <1>2, <1>3 DEF OnlySphere
<1>6. SphereInv(i)'
  <2>1. parts[i] = <<>> /\ pos[i] = 0 /\ speed[i] = 0 /\ read[i] = "nothing"
    BY <1>1, <1>2 DEF SphereInv
  <2>2. Tiled(parts'[i], newPos'[i]) /\ speed'[i] = newPos'[i]
    BY <1>2, <1>3, <2>1, BeginTiled
  <2>3. parts'[i] # <<>> /\ read'[i] = "nothing"
    <3>1. <<WholeStep>> # <<>>
      OBVIOUS
    <3> QED
      BY <1>2, <1>3, <2>1, <3>1
  <2>4. phase' = "integrate" /\ i \in Spheres' /\ pos'[i] = 0
    BY <1>2, <2>1 DEF Spheres
  <2>5. ReadAtBegin(parts'[i])
    <3>1. Len(<<WholeStep>>) = 1 /\ <<WholeStep>>[1] = WholeStep /\ \A p \in 1 .. 1 : p = 1
      OBVIOUS
    <3>2. WholeStep.dSpeed # "otherSpeeds"
      BY DEF WholeStep
    <3> QED
      BY <1>3, <3>1, <3>2 DEF ReadAtBegin
  <2> QED
    BY <1>3, <2>2, <2>3, <2>4, <2>5 DEF SphereInv, ReadAtBegin
<1> QED
  BY <1>4, <1>5, <1>6, OneSphere

\* The stages of the topmost part.
LEMMA EvaluateKeeps ==
  ASSUME StepInv, NEW i \in Spheres, Evaluate(i)
  PROVE  StepInv'
<1>1. Typed /\ i \in AllSpheres /\ SphereInv(i) /\ parts[i] \in Seq(Part)
  BY SpheresFacts DEF StepInv, Typed
<1>2. PICK outcome \in {"speedsAtBegin", "otherSpeeds"} :
        /\ parts[i] # <<>> /\ ~Divided(Head(parts[i]))
        /\ Head(parts[i]).start > 0 \/ outcome = "speedsAtBegin"
        /\ read' = [read EXCEPT ![i] = outcome]
        /\ calculations' = calculations + 1 /\ sincePop' = sincePop + 1
        /\ UNCHANGED <<count, flags, fresh, phase, iteration, parts, sphereVars, popped,
                       stepCounter>>
  BY DEF Evaluate
<1>3. read'[i] = outcome /\ \A j \in AllSpheres : j # i => read'[j] = read[j]
  BY <1>1, <1>2 DEF Typed
<1>4. Typed'
  <2>1. read' \in [AllSpheres -> Readings]
    BY <1>1, <1>2 DEF Typed, Readings
  <2>2. calculations' \in Nat /\ sincePop' \in Nat
    BY <1>1, <1>2 DEF Typed
  <2> QED
    BY <1>1, <1>2, <2>1, <2>2 DEF Typed, sphereVars
<1>5. OnlySphere(i)
  BY <1>2, <1>3 DEF OnlySphere, sphereVars
<1>6. SphereInv(i)'
  <2>1. Head(parts[i]) = parts[i][1]
    BY <1>1, <1>2, StackFacts
  <2>2. parts'[i] # <<>> /\ ~Divided(parts'[i][1])
    BY <1>2, <2>1
  <2>3. parts'[i][1].start = 0 => read'[i] = "speedsAtBegin"
    BY <1>2, <1>3, <2>1
  <2>4. ReadAtBegin(parts'[i])
    BY <1>1, <1>2 DEF SphereInv
  <2> QED
    BY <1>1, <1>2, <2>2, <2>3, <2>4 DEF SphereInv, Spheres, sphereVars, ReadAtBegin
<1> QED
  BY <1>4, <1>5, <1>6, OneSphere

\* Two parts for one.
LEMMA DivideKeeps ==
  ASSUME StepInv, NEW i \in Spheres, Divide(i)
  PROVE  StepInv'
<1>1. Typed /\ i \in AllSpheres /\ SphereInv(i) /\ parts[i] \in Seq(Part)
  BY SpheresFacts DEF StepInv, Typed
<1> PICK s : s = parts[i]
  OBVIOUS
<1>2. /\ s \in Seq(Part) /\ read[i] # "nothing" /\ s # <<>> /\ ~Divided(s[1])
      /\ read[i] \in Readings /\ ReadAtBegin(s)
      /\ s[1].start = 0 => read[i] = "speedsAtBegin"
  BY <1>1 DEF Divide, SphereInv, Typed
<1>3. Head(s) = s[1] /\ s[1] \in Part
  BY <1>2, StackFacts
<1>half. PICK half : half = [s[1] EXCEPT !.length = @ \div 2, !.depth = @ + 1]
  OBVIOUS
<1>second. PICK second : second = [half EXCEPT !.start = @ + half.length]
  OBVIOUS
<1>whole. PICK whole : whole = [s[1] EXCEPT !.dSpeed = read[i]]
  OBVIOUS
<1>new. PICK new : new = <<half, second, whole>> \o Tail(s)
  OBVIOUS
<1>4. /\ s[1].depth < MaxDivision
      /\ parts' = [parts EXCEPT ![i] = new]
      /\ read' = [read EXCEPT ![i] = "nothing"]
      /\ UNCHANGED <<count, flags, fresh, phase, iteration, sphereVars, counterVars, stepCounter>>
  BY <1>3, <1>half, <1>second, <1>whole, <1>new DEF Divide
<1>5. iteration[i] = "running" /\ Tiled(s, newPos[i]) /\ speed[i] = newPos[i]
  BY <1>1, <1>2 DEF SphereInv, Typed
<1>6. new \in Seq(Part) /\ new # <<>> /\ Tiled(new, newPos[i]) /\ ReadAtBegin(new)
  <2>1. /\ s[1].length = Units[MaxDivision - s[1].depth]
        /\ s[1].start + s[1].length <= TimeStep
    <3>1. 1 \in 1 .. Len(s)
      BY <1>2, StackFacts
    <3> QED
      BY <1>5, <3>1 DEF Tiled
  <2>2. Halved(s[1], half, second, whole)
    BY <1>2, <1>3, <1>4, <1>half, <1>second, <1>whole, <2>1, HalvesFit
  <2> PICK t : t = newPos[i]
    OBVIOUS
  <2>3. s \in Seq(Part) /\ s # <<>> /\ ~Divided(s[1]) /\ Tiled(s, t)
    BY <1>2, <1>5
  <2>4. /\ new \in Seq(Part) /\ new # <<>> /\ Tiled(new, t)
        /\ Stacked(new, half, second, whole, s)
    BY <1>new, <2>2, <2>3, TiledDivide
  <2>5. /\ half.dSpeed # "otherSpeeds" /\ second.dSpeed # "otherSpeeds"
        /\ whole.start = 0 => whole.dSpeed # "otherSpeeds"
    <3>1. half.dSpeed = "nothing" /\ second.dSpeed = "nothing"
      BY <2>2 DEF Halved, Divided
    <3>2. whole.start = s[1].start
      BY <2>2 DEF Halved
    <3>3. whole.dSpeed = read[i]
      BY <1>3, <1>whole DEF Part
    <3> QED
      BY <1>2, <3>1, <3>2, <3>3
  <2>6. ReadAtBegin(new)
    <3> SUFFICES ASSUME NEW p \in 1 .. Len(new), new[p].start = 0
                 PROVE  new[p].dSpeed # "otherSpeeds"
      BY DEF ReadAtBegin
    <3>1. CASE p \in 1 .. 3
      <4>1. p = 1 \/ p = 2 \/ p = 3
        BY <3>1
      <4> QED
        BY <2>4, <2>5, <4>1 DEF Stacked
    <3>2. CASE p - 2 \in 1 .. Len(s) /\ new[p] = s[p - 2]
      BY <1>2, <3>2 DEF ReadAtBegin
    <3> QED
      BY <2>4, <3>1, <3>2 DEF Stacked
  <2> QED
    BY <2>4, <2>6
<1>7. /\ parts'[i] = new /\ read'[i] = "nothing"
      /\ \A j \in AllSpheres : j # i => parts'[j] = parts[j] /\ read'[j] = read[j]
  BY <1>1, <1>4 DEF Typed
<1>8. Typed'
  <2>1. parts' \in [AllSpheres -> Seq(Part)]
    BY <1>1, <1>4, <1>6 DEF Typed
  <2>2. read' \in [AllSpheres -> Readings]
    BY <1>1, <1>4 DEF Typed, Readings
  <2> QED
    BY <1>1, <1>4, <2>1, <2>2 DEF Typed, sphereVars, counterVars
<1>9. OnlySphere(i)
  BY <1>4, <1>7 DEF OnlySphere, sphereVars
<1>10. SphereInv(i)'
  <2>1. phase' = phase /\ Spheres' = Spheres /\ iteration'[i] = "running" /\ phase = "integrate"
    BY <1>1, <1>4, <1>5 DEF SphereInv, Spheres
  <2>2. pos'[i] = 0 /\ newPos'[i] = newPos[i] /\ speed'[i] = speed[i]
    BY <1>1, <1>4, <2>1 DEF SphereInv, sphereVars
  <2>3. Tiled(parts'[i], newPos'[i]) /\ speed'[i] = newPos'[i]
    BY <1>5, <1>6, <1>7, <2>2
  <2>4. ReadAtBegin(parts'[i])
    BY <1>6, <1>7
  <2> QED
    BY <1>6, <1>7, <2>1, <2>2, <2>3, <2>4 DEF SphereInv, ReadAtBegin
<1> QED
  BY <1>8, <1>9, <1>10, OneSphere

\* What lies below the topmost part stays.
LEMMA TailReadAtBegin ==
  ASSUME NEW s \in Seq(Part), s # <<>>, ReadAtBegin(s)
  PROVE  ReadAtBegin(Tail(s))
<1> PICK n : n = Len(s)
  OBVIOUS
<1>1. /\ n \in Nat \ {0} /\ Len(Tail(s)) = n - 1
      /\ \A p \in 1 .. n - 1 : Tail(s)[p] = s[p + 1]
  BY StackFacts
<1>2. \A p \in 1 .. n - 1 : p + 1 \in 1 .. n
  BY <1>1
<1> QED
  BY <1>1, <1>2 DEF ReadAtBegin

\* The part is done, and the sphere is at its end.
LEMMA AcceptKeeps ==
  ASSUME StepInv, NEW i \in Spheres, Accept(i)
  PROVE  StepInv'
<1>1. Typed /\ i \in AllSpheres /\ SphereInv(i) /\ parts[i] \in Seq(Part)
  BY SpheresFacts DEF StepInv, Typed
<1> PICK s : s = parts[i]
  OBVIOUS
<1> PICK part : part = s[1]
  OBVIOUS
<1>2. /\ s \in Seq(Part) /\ read[i] # "nothing" /\ s # <<>> /\ ~Divided(part)
      /\ read[i] \in Readings /\ ReadAtBegin(s)
      /\ part.start = 0 => read[i] = "speedsAtBegin"
  BY <1>1 DEF Accept, SphereInv, Typed
<1>3. Head(s) = part /\ part \in Part /\ Tail(s) \in Seq(Part)
  BY <1>2, StackFacts
<1>4. /\ newPos' = [newPos EXCEPT ![i] = @ + part.length]
      /\ speed' = [speed EXCEPT ![i] = @ + part.length]
      /\ acc' = [acc EXCEPT ![i] = AccOf(part, read[i])]
      /\ parts' = [parts EXCEPT ![i] = Tail(s)]
      /\ read' = [read EXCEPT ![i] = "nothing"]
      /\ UNCHANGED <<count, flags, fresh, phase, iteration, pos, counterVars, stepCounter>>
  BY <1>3 DEF Accept
<1>5. iteration[i] = "running" /\ Tiled(s, newPos[i]) /\ speed[i] = newPos[i]
  BY <1>1, <1>2 DEF SphereInv, Typed
<1>6. /\ Tiled(Tail(s), part.start + part.length)
      /\ Tail(s) = <<>> => part.start = 0 /\ part.length = TimeStep
      /\ newPos[i] = part.start
  <2> PICK t : t = newPos[i]
    OBVIOUS
  <2>1. Tiled(s, t)
    BY <1>5
  <2>2. /\ Tiled(Tail(s), part.start + part.length)
        /\ Tail(s) = <<>> => part.start = 0 /\ part.length = TimeStep
        /\ t = DueTime(part)
    BY <1>2, <2>1, TiledTail
  <2> QED
    BY <1>2, <2>2 DEF DueTime
<1>7. /\ part.start + part.length \in Times
      /\ AccOf(part, read[i]) \in [start : Times, length : Times, read : Readings]
  <2>1. part.start + part.length \in Times
    BY <1>3, <1>6, TiledFits
  <2>2. part.start \in Times /\ part.length \in Times
    BY <1>3, PartFacts, LengthFacts DEF Times
  <2> QED
    BY <1>2, <2>1, <2>2 DEF AccOf
<1>8. /\ parts'[i] = Tail(s) /\ read'[i] = "nothing" /\ acc'[i] = AccOf(part, read[i])
      /\ newPos'[i] = part.start + part.length /\ speed'[i] = part.start + part.length
      /\ \A j \in AllSpheres : j # i =>
           /\ parts'[j] = parts[j] /\ read'[j] = read[j] /\ acc'[j] = acc[j]
           /\ newPos'[j] = newPos[j] /\ speed'[j] = speed[j]
  BY <1>1, <1>4, <1>5, <1>6 DEF Typed
<1>9. Typed'
  <2>1. parts' \in [AllSpheres -> Seq(Part)]
    BY <1>1, <1>3, <1>4 DEF Typed
  <2>2. read' \in [AllSpheres -> Readings]
    BY <1>1, <1>4 DEF Typed, Readings
  <2>3. acc' \in [AllSpheres -> [start : Times, length : Times, read : Readings]]
    BY <1>1, <1>4, <1>7 DEF Typed
  <2>4. newPos' \in [AllSpheres -> Times] /\ speed' \in [AllSpheres -> Times]
    BY <1>1, <1>4, <1>5, <1>6, <1>7 DEF Typed
  <2> QED
    BY <1>1, <1>4, <2>1, <2>2, <2>3, <2>4 DEF Typed, counterVars
<1>10. OnlySphere(i)
  BY <1>4, <1>8 DEF OnlySphere
<1>11. SphereInv(i)'
  <2>1. phase' = phase /\ Spheres' = Spheres /\ iteration'[i] = "running" /\ phase = "integrate"
    BY <1>1, <1>4, <1>5 DEF SphereInv, Spheres
  <2>2. pos'[i] = 0
    BY <1>1, <1>4, <2>1 DEF SphereInv
  <2>3. Tiled(parts'[i], newPos'[i]) /\ speed'[i] = newPos'[i]
    BY <1>6, <1>8
  <2>4. parts'[i] = <<>> => acc'[i] = FirstTrial
    BY <1>2, <1>6, <1>8 DEF FirstTrial, AccOf, WholeStep
  <2>6. ReadAtBegin(parts'[i])
    BY <1>2, <1>8, TailReadAtBegin
  <2>5. FirstTrial' = FirstTrial /\ read'[i] = "nothing"
    BY <1>8
  <2> QED
    BY <2>1, <2>2, <2>3, <2>4, <2>5, <2>6 DEF SphereInv, ReadAtBegin
<1> QED
  BY <1>9, <1>10, <1>11, OneSphere

\* Both halves are done, and the acceleration is that of the trial before them.
LEMMA EndDividedKeeps ==
  ASSUME StepInv, NEW i \in Spheres, EndDivided(i)
  PROVE  StepInv'
<1>1. Typed /\ i \in AllSpheres /\ SphereInv(i) /\ parts[i] \in Seq(Part)
  BY SpheresFacts DEF StepInv, Typed
<1> PICK s : s = parts[i]
  OBVIOUS
<1> PICK part : part = s[1]
  OBVIOUS
<1>2. s \in Seq(Part) /\ s # <<>> /\ iteration[i] = "running" /\ ReadAtBegin(s)
  BY <1>1 DEF EndDivided, SphereInv
<1>3. Head(s) = part /\ part \in Part /\ Tail(s) \in Seq(Part)
  BY <1>2, StackFacts
<1>4. /\ Divided(part)
      /\ part.dSpeed \in Readings
      /\ part.start = 0 => part.dSpeed = "speedsAtBegin"
      /\ acc' = [acc EXCEPT ![i] = AccOf(part, part.dSpeed)]
      /\ parts' = [parts EXCEPT ![i] = Tail(s)]
      /\ UNCHANGED <<count, flags, fresh, phase, iteration, read, pos, newPos, speed,
                     counterVars, stepCounter>>
  <2>1. /\ Divided(part)
        /\ acc' = [acc EXCEPT ![i] = AccOf(part, part.dSpeed)]
        /\ parts' = [parts EXCEPT ![i] = Tail(s)]
        /\ UNCHANGED <<count, flags, fresh, phase, iteration, read, pos, newPos, speed,
                       counterVars, stepCounter>>
    BY <1>3 DEF EndDivided
  <2>2. part.dSpeed \in Readings
    BY <1>3, PartFacts
  <2>3. 1 \in 1 .. Len(s)
    BY <1>2, StackFacts
  <2>4. part.start = 0 => part.dSpeed # "otherSpeeds"
    BY <1>2, <2>3 DEF ReadAtBegin
  <2> QED
    BY <2>1, <2>2, <2>4 DEF Divided, Readings
<1>5. Tiled(s, newPos[i]) /\ speed[i] = newPos[i] /\ read[i] = "nothing"
  BY <1>1, <1>2, <1>4 DEF SphereInv, Typed
<1>6. /\ Tiled(Tail(s), newPos[i])
      /\ Tail(s) = <<>> => part.start = 0 /\ part.length = TimeStep
  <2> PICK t : t = newPos[i]
    OBVIOUS
  <2>1. Tiled(s, t)
    BY <1>5
  <2>2. /\ Tiled(Tail(s), part.start + part.length)
        /\ Tail(s) = <<>> => part.start = 0 /\ part.length = TimeStep
        /\ t = DueTime(part)
    BY <1>2, <2>1, TiledTail
  <2> QED
    BY <1>4, <2>2 DEF DueTime
<1>7. AccOf(part, part.dSpeed) \in [start : Times, length : Times, read : Readings]
  <2>1. part.start \in Times /\ part.length \in Times
    BY <1>3, PartFacts, LengthFacts DEF Times
  <2> QED
    BY <1>4, <2>1 DEF AccOf
<1>8. /\ parts'[i] = Tail(s) /\ acc'[i] = AccOf(part, part.dSpeed)
      /\ \A j \in AllSpheres : j # i => parts'[j] = parts[j] /\ acc'[j] = acc[j]
  BY <1>1, <1>4 DEF Typed
<1>9. Typed'
  <2>1. parts' \in [AllSpheres -> Seq(Part)]
    BY <1>1, <1>3, <1>4 DEF Typed
  <2>2. acc' \in [AllSpheres -> [start : Times, length : Times, read : Readings]]
    BY <1>1, <1>4, <1>7 DEF Typed
  <2> QED
    BY <1>1, <1>4, <2>1, <2>2 DEF Typed, counterVars
<1>10. OnlySphere(i)
  BY <1>4, <1>8 DEF OnlySphere
<1>11. SphereInv(i)'
  <2>1. phase' = phase /\ Spheres' = Spheres /\ iteration'[i] = "running" /\ phase = "integrate"
    BY <1>1, <1>2, <1>4 DEF SphereInv, Spheres
  <2>2. pos'[i] = 0 /\ newPos'[i] = newPos[i] /\ speed'[i] = speed[i] /\ read'[i] = "nothing"
    BY <1>1, <1>4, <1>5, <2>1 DEF SphereInv
  <2>3. Tiled(parts'[i], newPos'[i]) /\ speed'[i] = newPos'[i]
    BY <1>5, <1>6, <1>8, <2>2
  <2>4. parts'[i] = <<>> => acc'[i] = FirstTrial
    BY <1>2, <1>4, <1>6, <1>8 DEF FirstTrial, AccOf, WholeStep
  <2>6. ReadAtBegin(parts'[i])
    BY <1>2, <1>8, TailReadAtBegin
  <2>5. FirstTrial' = FirstTrial
    OBVIOUS
  <2> QED
    BY <2>1, <2>2, <2>3, <2>4, <2>5, <2>6 DEF SphereInv, ReadAtBegin
<1> QED
  BY <1>9, <1>10, <1>11, OneSphere

\* The sphere is at the end of its step; its position is not published yet.
LEMMA FinishKeeps ==
  ASSUME StepInv, NEW i \in Spheres, Finish(i)
  PROVE  StepInv'
<1>1. Typed /\ i \in AllSpheres /\ SphereInv(i)
  BY SpheresFacts DEF StepInv
<1>2. /\ iteration[i] = "running" /\ parts[i] = <<>>
      /\ iteration' = [iteration EXCEPT ![i] = "finished"]
      /\ UNCHANGED <<count, flags, fresh, phase, parts, read, sphereVars, counterVars,
                     stepCounter>>
  BY DEF Finish
<1>3. iteration'[i] = "finished" /\ \A j \in AllSpheres : j # i => iteration'[j] = iteration[j]
  BY <1>1, <1>2 DEF Typed
<1>4. Typed'
  <2>1. iteration' \in [AllSpheres -> {"waiting", "running", "finished"}]
    BY <1>1, <1>2 DEF Typed
  <2> QED
    BY <1>1, <1>2, <2>1 DEF Typed, sphereVars, counterVars
<1>5. OnlySphere(i)
  BY <1>2, <1>3 DEF OnlySphere, sphereVars
<1>6. SphereInv(i)'
  <2>1. phase = "integrate" /\ newPos[i] = TimeStep /\ speed[i] = TimeStep
    BY <1>1, <1>2 DEF SphereInv, Tiled
  <2>2. FirstTrial' = FirstTrial
    OBVIOUS
  <2> QED
    BY <1>1, <1>2, <1>3, <2>1, <2>2 DEF SphereInv, sphereVars
<1> QED
  BY <1>4, <1>5, <1>6, OneSphere

\* The second loop makes the new position the position.
LEMMA PublishKeeps ==
  ASSUME StepInv, NEW i \in Spheres, Publish(i)
  PROVE  StepInv'
<1>1. Typed /\ i \in AllSpheres /\ SphereInv(i)
  BY SpheresFacts DEF StepInv
<1>2. /\ phase = "publish"
      /\ pos' = [pos EXCEPT ![i] = newPos[i]]
      /\ UNCHANGED <<count, flags, fresh, phase, loopVars, newPos, speed, acc, counterVars,
                     stepCounter>>
  BY DEF Publish
<1>3. \A j \in AllSpheres : j # i => pos'[j] = pos[j]
  BY <1>1, <1>2 DEF Typed
<1>4. Typed'
  <2>1. pos' \in [AllSpheres -> Times]
    BY <1>1, <1>2 DEF Typed
  <2> QED
    BY <1>1, <1>2, <2>1 DEF Typed, loopVars, counterVars
<1>5. OnlySphere(i)
  BY <1>2, <1>3 DEF OnlySphere, loopVars
<1>6. SphereInv(i)'
  <2>1. phase' = "publish" /\ Spheres' = Spheres /\ FirstTrial' = FirstTrial
    BY <1>2 DEF Spheres
  <2> QED
    BY <1>1, <1>2, <2>1 DEF SphereInv, loopVars
<1> QED
  BY <1>4, <1>5, <1>6, OneSphere

-----------------------------------------------------------------------------
(* The steps of the worker *)

\* Lists are for a set of flags.
LEMMA ListsTyped == ListsBuilt \subseteq {"box", "collisionCells", "gravityCells"}
  BY DEF ListsBuilt

\* Between two steps every sphere rests: the flags, the number of spheres, the lists
\* and the counter may change.
LEMMA BetweenStepsKeeps ==
  ASSUME StepInv,
         \/ \E f \in FlagSets : SetFlags(f)
         \/ \E n \in Counts : AddSpheres(n) \/ RemoveSpheres(n)
         \/ UpdateSpheres \/ GetTotalEnergy \/ PopCalculationCounter
         \/ UNCHANGED vars
  PROVE  StepInv'
<1>1. Typed /\ \A i \in AllSpheres : SphereInv(i)
  BY DEF StepInv
<1>2. CASE UNCHANGED vars
  <2>1. Typed'
    BY <1>1, <1>2 DEF Typed, vars, loopVars, sphereVars, counterVars
  <2>2. Spheres' = Spheres /\ ListsBuilt' = ListsBuilt
    BY <1>2 DEF Spheres, ListsBuilt, vars
  <2>3. ASSUME NEW i \in AllSpheres PROVE SphereInv(i)'
    BY <1>1, <1>2, <2>2 DEF SphereInv, vars, loopVars, sphereVars
  <2>4. phase' = phase /\ fresh' = fresh
    BY <1>2 DEF vars
  <2> QED
    BY <2>1, <2>2, <2>3, <2>4 DEF StepInv
<1>3. CASE ~(UNCHANGED vars)
  <2>1. /\ phase = "idle"
        /\ UNCHANGED <<phase, iteration, parts, read, pos, newPos, speed, acc, stepCounter>>
        /\ flags' \in FlagSets /\ count' \in Counts
        /\ fresh' \subseteq {"box", "collisionCells", "gravityCells"}
        /\ \/ UNCHANGED counterVars
           \/ PopCalculationCounter
    <3>1. ASSUME NEW n, Resize(n), n \in Counts
          PROVE  /\ phase = "idle" /\ count' = n /\ fresh' = {}
                 /\ UNCHANGED <<flags, phase, iteration, parts, read, pos, newPos, speed, acc,
                                counterVars, stepCounter>>
      BY <3>1 DEF Resize, loopVars, sphereVars
    <3>2. CASE \E f \in FlagSets : SetFlags(f)
      BY <1>1, <3>2 DEF SetFlags, Typed, loopVars, sphereVars
    <3>3. CASE \E n \in Counts : AddSpheres(n) \/ RemoveSpheres(n)
      BY <1>1, <3>1, <3>3 DEF AddSpheres, RemoveSpheres, Typed
    <3>4. CASE UpdateSpheres
      BY <1>1, <3>1, <3>4 DEF UpdateSpheres, Typed
    <3>5. CASE GetTotalEnergy
      BY <1>1, <3>5, ListsTyped DEF GetTotalEnergy, Typed, loopVars, sphereVars
    <3>6. CASE PopCalculationCounter
      BY <1>1, <3>6 DEF PopCalculationCounter, Typed, loopVars, sphereVars
    <3> QED
      BY <1>3, <3>2, <3>3, <3>4, <3>5, <3>6
  <2>2. calculations' \in Nat /\ sincePop' \in Nat /\ popped' \in [value : Nat, since : Nat]
    <3>1. calculations \in Nat /\ sincePop \in Nat /\ popped \in [value : Nat, since : Nat]
      BY <1>1 DEF Typed
    <3>2. CASE UNCHANGED counterVars
      BY <3>1, <3>2 DEF counterVars
    <3>3. CASE PopCalculationCounter
      <4>1. count \in Nat
        BY <1>1, SpheresFacts
      <4> PICK value : value = IF count > 0 THEN calculations \div count ELSE 0
        OBVIOUS
      <4>2. value \in Nat
        BY <3>1, <4>1
      <4>3. /\ sincePop' = 0 /\ popped' = [value |-> value, since |-> sincePop]
            /\ calculations' = IF count > 0 THEN 0 ELSE calculations
        BY <3>3 DEF PopCalculationCounter
      <4>4. popped' \in [value : Nat, since : Nat]
        BY <3>1, <4>2, <4>3
      <4> QED
        BY <3>1, <4>3, <4>4
    <3> QED
      BY <2>1, <3>2, <3>3
  <2>3. Typed'
    BY <1>1, <2>1, <2>2 DEF Typed
  <2>4. ASSUME NEW i \in AllSpheres PROVE SphereInv(i)'
    <3>1. SphereInv(i) /\ FirstTrial' = FirstTrial
      BY <1>1
    <3>2. iteration[i] # "running" /\ phase' = "idle"
      BY <2>1, <3>1 DEF SphereInv
    <3> QED
      BY <2>1, <3>1, <3>2 DEF SphereInv
  <2> QED
    BY <2>1, <2>3, <2>4 DEF StepInv
<1> QED
  BY <1>2, <1>3

\* A step begins, its first loop ends, and it ends.
LEMMA WorkerKeeps ==
  ASSUME StepInv, BeginStep \/ BeginPublish \/ EndStep
  PROVE  StepInv'
<1>1. Typed /\ \A i \in AllSpheres : SphereInv(i)
  BY DEF StepInv
<1>2. TimeStep \in Nat \ {0} /\ Times = 0 .. TimeStep /\ FirstTrial' = FirstTrial
  BY LengthFacts DEF Times
<1>3. CASE BeginStep
  <2>1. /\ phase = "idle" /\ phase' = "integrate" /\ stepCounter < MaxSteps
        /\ fresh' = fresh \union ListsBuilt
        /\ iteration' = [i \in AllSpheres |-> "waiting"]
        /\ pos' = [i \in AllSpheres |-> pos[i] - TimeStep]
        /\ speed' = [i \in AllSpheres |-> speed[i] - TimeStep]
        /\ UNCHANGED <<count, flags, parts, read, newPos, acc, counterVars, stepCounter>>
    BY <1>3 DEF BeginStep
  <2>2. ASSUME NEW i \in AllSpheres
        PROVE  /\ iteration[i] # "running" /\ parts[i] = <<>>
               /\ pos[i] = TimeStep /\ speed[i] = TimeStep
    BY <1>1, <2>1 DEF SphereInv
  <2>3. \A i \in AllSpheres : pos'[i] = 0 /\ speed'[i] = 0 /\ iteration'[i] = "waiting"
    BY <1>2, <2>1, <2>2
  <2>4. pos' \in [AllSpheres -> Times] /\ speed' \in [AllSpheres -> Times]
    BY <1>2, <2>1, <2>3
  <2>5. Typed'
    BY <1>1, <2>1, <2>4, ListsTyped DEF Typed, counterVars
  <2>6. ASSUME NEW i \in AllSpheres PROVE SphereInv(i)'
    BY <1>1, <1>2, <2>1, <2>2, <2>3 DEF SphereInv
  <2>7. ListsBuilt' = ListsBuilt
    BY <2>1 DEF ListsBuilt
  <2> QED
    BY <2>1, <2>5, <2>6, <2>7 DEF StepInv
<1>4. CASE BeginPublish
  <2>1. /\ phase = "integrate" /\ phase' = "publish" /\ fresh' = {}
        /\ \A i \in Spheres : iteration[i] = "finished"
        /\ UNCHANGED <<count, flags, iteration, parts, read, pos, newPos, speed, acc,
                       counterVars, stepCounter>>
    BY <1>4 DEF BeginPublish, loopVars, sphereVars
  <2>2. Typed'
    BY <1>1, <2>1 DEF Typed, counterVars
  <2>3. ASSUME NEW i \in AllSpheres PROVE SphereInv(i)'
    <3>1. SphereInv(i) /\ Spheres' = Spheres
      BY <1>1, <2>1 DEF Spheres
    <3>2. iteration[i] # "running"
      BY <2>1, <3>1 DEF SphereInv
    <3> QED
      BY <1>2, <2>1, <3>1, <3>2 DEF SphereInv
  <2> QED
    BY <2>1, <2>2, <2>3 DEF StepInv
<1>5. CASE EndStep
  <2>1. /\ phase = "publish" /\ phase' = "idle"
        /\ \A i \in Spheres : pos[i] = newPos[i]
        /\ pos' = [i \in AllSpheres |-> IF i \in Spheres THEN pos[i] ELSE TimeStep]
        /\ speed' = [i \in AllSpheres |-> IF i \in Spheres THEN speed[i] ELSE TimeStep]
        /\ stepCounter' = stepCounter + 1
        /\ UNCHANGED <<count, flags, fresh, iteration, parts, read, newPos, acc, counterVars>>
    BY <1>5 DEF EndStep, loopVars
  <2>2. ASSUME NEW i \in AllSpheres
        PROVE  /\ pos'[i] = TimeStep /\ speed'[i] = TimeStep
               /\ iteration[i] # "running"
    <3>1. SphereInv(i)
      BY <1>1
    <3>2. i \in Spheres => newPos[i] = TimeStep /\ speed[i] = TimeStep
      BY <2>1, <3>1 DEF SphereInv
    <3>3. iteration[i] # "running"
      BY <2>1, <3>1 DEF SphereInv
    <3> QED
      BY <2>1, <3>2, <3>3
  <2>3. pos' \in [AllSpheres -> Times] /\ speed' \in [AllSpheres -> Times]
    BY <1>2, <2>1, <2>2
  <2>4. stepCounter' \in 0 .. MaxSteps
    <3>1. stepCounter \in 0 .. MaxSteps /\ stepCounter < MaxSteps /\ MaxSteps \in Nat
      BY <1>1, <2>1, IntegrationStepAssumption DEF Typed
    <3> QED
      BY <2>1, <3>1
  <2>5. Typed'
    BY <1>1, <2>1, <2>3, <2>4 DEF Typed, counterVars
  <2>6. ASSUME NEW i \in AllSpheres PROVE SphereInv(i)'
    BY <1>1, <1>2, <2>1, <2>2 DEF SphereInv
  <2> QED
    BY <2>1, <2>5, <2>6 DEF StepInv
<1> QED
  BY <1>3, <1>4, <1>5

-----------------------------------------------------------------------------
(* The theorems *)

\* The invariant holds at the beginning.
LEMMA InitKeeps == Init => StepInv
<1> SUFFICES ASSUME Init PROVE StepInv
  OBVIOUS
<1>1. TimeStep \in Nat \ {0} /\ Times = 0 .. TimeStep /\ MaxSteps \in Nat
  BY LengthFacts, IntegrationStepAssumption DEF Times
<1>2. <<>> \in Seq(Part) /\ 0 \in Times /\ TimeStep \in Times
  BY <1>1, EmptySeq
<1>3. Typed
  BY <1>1, <1>2 DEF Init, Typed, Readings
<1>4. ASSUME NEW i \in AllSpheres PROVE SphereInv(i)
  <2>1. parts[i] = <<>> /\ read[i] = "nothing" /\ acc[i] = FirstTrial
    BY DEF Init, FirstTrial, AccOf, WholeStep
  <2>2. ReadAtBegin(parts[i])
    BY <2>1 DEF ReadAtBegin
  <2> QED
    BY <2>1, <2>2 DEF Init, SphereInv
<1>5. phase # "integrate"
  BY DEF Init
<1> QED
  BY <1>3, <1>4, <1>5 DEF StepInv

\* Every step keeps it.
LEMMA NextKeeps == StepInv /\ [Next]_vars => StepInv'
<1> SUFFICES ASSUME StepInv, [Next]_vars PROVE StepInv'
  OBVIOUS
<1>1. CASE \/ \E f \in FlagSets : SetFlags(f)
           \/ \E n \in Counts : AddSpheres(n) \/ RemoveSpheres(n)
           \/ UpdateSpheres \/ GetTotalEnergy \/ PopCalculationCounter
           \/ UNCHANGED vars
  BY <1>1, BetweenStepsKeeps
<1>2. CASE BeginStep \/ BeginPublish \/ EndStep
  BY <1>2, WorkerKeeps
<1>3. ASSUME NEW i \in Spheres,
             \/ BeginSphere(i) \/ Evaluate(i) \/ Divide(i) \/ Accept(i)
             \/ EndDivided(i) \/ Finish(i) \/ Publish(i)
      PROVE  StepInv'
  BY <1>3, BeginSphereKeeps, EvaluateKeeps, DivideKeeps, AcceptKeeps, EndDividedKeeps,
     FinishKeeps, PublishKeeps
<1> QED
  BY <1>1, <1>2, <1>3 DEF Next

\* Every variable keeps its type, and the recursion never goes deeper than the
\* divisions allow (SphereCalculator::integrateRungeKuttaStep_internal).
THEOREM TypeCorrect == Spec => []TypeOK
<1>1. StepInv => TypeOK
  BY StepInvTyped
<1> QED
  BY <1>1, InitKeeps, NextKeeps, PTL DEF Spec

\* The parts of a divided step tile it, for every number of divisions and whatever the
\* errors are (SphereCalculator::integrateRungeKuttaStep_internal).
THEOREM PartsCorrect == Spec => []PartsTileTheStep
<1>1. StepInv => PartsTileTheStep
  BY StepInvIsEnough
<1> QED
  BY <1>1, InitKeeps, NextKeeps, PTL DEF Spec

\* The acceleration that is kept is the mean of the first trial over the whole step,
\* which depends on nothing the threads do during the step: of a part at the beginning
\* the code remembers, below any number of divisions, a trial that read no speed but
\* those of the beginning (dSpeed in integrateRungeKuttaStep_internal).
THEOREM AccCorrect == Spec => []AccIsOfTheFirstTrial
<1>1. StepInv => AccIsOfTheFirstTrial
  BY StepInvIsEnough
<1> QED
  BY <1>1, InitKeeps, NextKeeps, PTL DEF Spec

\* While forces are calculated every position is of the beginning of the step, and the
\* lists are built from these positions, for every set of flags and every number of
\* threads (the two parallel loops of integrateRungeKuttaStep_internal).
THEOREM InstantCorrect == Spec => []ForcesSeeOneInstant
<1>1. StepInv => ForcesSeeOneInstant
  BY StepInvIsEnough
<1> QED
  BY <1>1, InitKeeps, NextKeeps, PTL DEF Spec

\* Where steps are not divided, other spheres move with the speed of the beginning: the
\* only trial is the one of the whole step, whose timeDiff is 0
\* (integrateRungeKuttaStep_internal).
THEOREM UndividedCorrect ==
  ASSUME MaxDivision = 0
  PROVE  Spec => []OthersMoveAsAtBegin
<1>1. StepInv => OthersMoveAsAtBegin
  <2> SUFFICES ASSUME StepInv, NEW i \in Spheres, read[i] # "nothing"
               PROVE  read[i] = "speedsAtBegin"
    BY DEF OthersMoveAsAtBegin
  <2>1. i \in AllSpheres /\ SphereInv(i) /\ parts[i] \in Seq(Part) /\ iteration[i] \in
          {"waiting", "running", "finished"}
    BY SpheresFacts DEF StepInv, Typed
  <2> PICK s, t : s = parts[i] /\ t = newPos[i]
    OBVIOUS
  <2>2. s \in Seq(Part) /\ s # <<>> /\ Tiled(s, t)
    BY <2>1 DEF SphereInv
  <2>3. Len(s) <= 1
    BY <2>2, TiledFits
  <2>4. Len(s) \in Nat \ {0} /\ Tail(s) \in Seq(Part) /\ Len(Tail(s)) = Len(s) - 1
    BY <2>2, StackFacts
  <2>5. Tail(s) = <<>>
    BY <2>3, <2>4, EmptySeq
  <2>6. s[1].start = 0
    BY <2>2, <2>5, TiledTail
  <2> QED
    BY <2>1, <2>6 DEF SphereInv
<1> QED
  BY <1>1, InitKeeps, NextKeeps, PTL DEF Spec

\* While there are spheres the counter holds the trials since it was read.
CounterInv == calculations = sincePop /\ popped.value <= popped.since

LEMMA CounterKeeps ==
  ASSUME 0 \notin Counts, StepInv, CounterInv, [Next]_vars
  PROVE  CounterInv'
<1>1. /\ count \in Nat \ {0} /\ calculations \in Nat /\ sincePop \in Nat
      /\ popped \in [value : Nat, since : Nat]
  BY SpheresFacts DEF StepInv, Typed
<1>2. CASE UNCHANGED counterVars
  BY <1>2 DEF CounterInv, counterVars
<1>3. CASE PopCalculationCounter
  <2> PICK value : value = calculations \div count
    OBVIOUS
  <2>1. value \in Nat /\ value <= calculations
    BY <1>1
  <2>2. /\ sincePop' = 0 /\ calculations' = 0
        /\ popped' = [value |-> value, since |-> sincePop]
    BY <1>1, <1>3 DEF PopCalculationCounter
  <2>3. popped'.value = value /\ popped'.since = sincePop
    BY <2>2
  <2> QED
    BY <2>1, <2>2, <2>3 DEF CounterInv
<1>4. CASE \E i \in Spheres : Evaluate(i)
  <2>1. calculations' = calculations + 1 /\ sincePop' = sincePop + 1 /\ popped' = popped
    BY <1>4 DEF Evaluate
  <2> QED
    BY <2>1 DEF CounterInv
<1>5. ASSUME ~(UNCHANGED counterVars), ~PopCalculationCounter
      PROVE  \E i \in Spheres : Evaluate(i)
  BY <1>5 DEF Next, vars, SetFlags, AddSpheres, RemoveSpheres, UpdateSpheres, Resize,
     GetTotalEnergy, BeginStep, BeginPublish, EndStep, BeginSphere, Divide, Accept,
     EndDivided, Finish, Publish
<1> QED
  BY <1>2, <1>3, <1>4, <1>5

\* What popCalculationCounter() returns was calculated since it was called before, if
\* the simulation never runs out of spheres.
THEOREM PopCorrect ==
  ASSUME 0 \notin Counts
  PROVE  Spec => []PopReportsNewCalculations
<1>1. Init => CounterInv
  BY DEF Init, CounterInv
<1>2. StepInv /\ CounterInv /\ [Next]_vars => CounterInv'
  BY CounterKeeps
<1>3. CounterInv => PopReportsNewCalculations
  BY DEF CounterInv, PopReportsNewCalculations
<1> QED
  BY <1>1, <1>2, <1>3, InitKeeps, NextKeeps, PTL DEF Spec

-----------------------------------------------------------------------------
(* The values a step calculates with: the invariant *)

Modulus == {"sphereSphereE", "sphereWallE"}

\* What stands at a place of the longest call, and its last k accesses.
CallAt(n) ==
  IF n <= 4 THEN Read(ReadsOf("sphereSphereE")[n])
  ELSE IF n = 5 THEN Store("sphereSphereE")
  ELSE IF n <= 9 THEN Read(ReadsOf("sphereWallE")[n - 5])
  ELSE Store("sphereWallE")
Remaining(k) == [n \in 1 .. k |-> CallAt(10 - k + n)]

\* How many variables are read for the value that is computed next.
ReadSoFar(k) == IF k = 0 THEN 0 ELSE IF k >= 6 THEN 10 - k ELSE 5 - k

AllMethods == Known \union {Fallback}
InstallOf(half, method) == [op |-> "install", half |-> half, method |-> method]
Installs == {InstallOf(half, method) : half \in 1 .. 2, method \in AllMethods}
Accesses ==
  {Read(var) : var \in Variables} \union {Store(what) : what \in Modulus}
    \union {Choose, Replace} \union Installs

SettingMessages == {Set(var, value) : var \in Variables, value \in Values}

ValuesTyped ==
  /\ client \in [Variables -> Values] /\ variables \in [Variables -> Values]
  /\ sets \in 0 .. MaxSets /\ asked \in 0 .. MaxAsked
  /\ toServer \in Seq(SettingMessages \union {Steps})
  /\ toClient \in Seq({Set("integratorMethod", Fallback)})
  /\ items \in Seq(SettingMessages)
  /\ steps \in Nat
  /\ posted \in Seq(Variables)
  /\ todo \in Seq(Accesses)
  /\ operands \in Seq(Values)
  /\ derived \in [Modulus -> Seq(Values)]
  /\ \A what \in Modulus : Len(derived[what]) = 4
  /\ butcherTableau \in [1 .. 2 -> AllMethods]
  /\ stage \in AllMethods \union {None}

\* The steps that are asked for are under way, granted or done.
StepsCounted ==
  \E c \in [0 .. Len(toServer) -> 0 .. MaxAsked] :
    /\ c[0] = 0
    /\ \A n \in 1 .. Len(toServer) :
         c[n] = c[n - 1] + (IF toServer[n] = Steps THEN 1 ELSE 0)
    /\ steps + c[Len(toServer)] <= asked

\* A signal that will have a value computed again is on its way.
PostedFor(S) == \E n \in 1 .. Len(posted) : posted[n] \in S
SphereModuli == {"sphereE", "spherePoissonRatio"}

\* What was read for a value is what the variables still are.
ReadsAreCurrent(what) ==
  \A n \in 1 .. Len(operands) : operands[n] = variables[ReadsOf(what)[n]]
IsCurrent(what) ==
  \A n \in 1 .. 4 : derived[what][n] = variables[ReadsOf(what)[n]]

\* The moduli, when k accesses of the call are left.
ModuliFollow(k) ==
  /\ \/ PostedFor(SphereModuli)
     \/ k >= 6 /\ ReadsAreCurrent("sphereSphereE")
     \/ k < 6 /\ IsCurrent("sphereSphereE")
  /\ \/ PostedFor(Moduli)
     \/ k >= 6
     \/ k \in 1 .. 5 /\ ReadsAreCurrent("sphereWallE")
     \/ k = 0 /\ IsCurrent("sphereWallE")

\* A sequence of installations whose last two are of one method.
Ends(s, method) ==
  /\ Len(s) >= 2
  /\ s[Len(s) - 1] = InstallOf(1, method)
  /\ s[Len(s)] = InstallOf(2, method)

\* What is left of a call that builds the tableau; set() may have called it again.
Builds(s) ==
  /\ Len(s) >= 1
  /\ s[1] \in {Choose, Replace} \union Installs
  /\ \A n \in 2 .. Len(s) : s[n] \in Installs
  /\ s[1] \in {Choose, Replace} => Len(s) = 1 \/ Ends(s, Fallback)
  /\ s[1] \in Installs =>
       \/ Len(s) = 1 /\ \E method \in AllMethods : s[1] = InstallOf(2, method)
       \/ \E method \in AllMethods : Ends(s, method)

TableauFollows ==
  LET method == MethodOf(variables["integratorMethod"])
  IN  \/ PostedFor({"integratorMethod"})
      \/ ~Builds(todo) /\ butcherTableau[1] = method /\ butcherTableau[2] = method
      \/ Len(todo) = 1 /\ todo[1] \in {Choose, Replace}
      \/ Len(todo) = 1 /\ todo[1] = InstallOf(2, method) /\ butcherTableau[1] = method
      \/ Ends(todo, method)

MainThread ==
  \E k \in 0 .. 10 :
    /\ \/ todo = Remaining(k)
       \/ k = 0 /\ Builds(todo)
    /\ Len(operands) = ReadSoFar(k)
    /\ ModuliFollow(k)

\* Settings arrive in the order in which they were made.
IsFor(message, var) == message.op = "updateVariable" /\ message.var = var
NoneFor(messages, var) == \A n \in 1 .. Len(messages) : ~IsFor(messages[n], var)
LastFor(messages, var, value) ==
  \E n \in 1 .. Len(messages) :
    /\ messages[n] = Set(var, value)
    /\ \A m \in n + 1 .. Len(messages) : ~IsFor(messages[m], var)
Arrives(var) ==
  \/ LastFor(toServer, var, client[var])
  \/ NoneFor(toServer, var) /\ LastFor(items, var, client[var])
  \/ NoneFor(toServer, var) /\ NoneFor(items, var) /\ variables[var] = client[var]
SettingsOnTheirWay == \A var \in Variables \ {"integratorMethod"} : Arrives(var)

ValuesInv ==
  /\ ValuesTyped /\ StepsCounted
  /\ MainThread /\ TableauFollows
  /\ SettingsOnTheirWay

-----------------------------------------------------------------------------
(* The values a step calculates with: lemmas about the calls *)

\* The formulas read four moduli, that of two spheres those of spheres only.
LEMMA ReadsFacts ==
  /\ \A what \in Modulus : DOMAIN ReadsOf(what) = 1 .. 4
  /\ \A n \in 1 .. 4 : ReadsOf("sphereSphereE")[n] \in SphereModuli
  /\ \A n \in 1 .. 4 : ReadsOf("sphereWallE")[n] \in Moduli
  /\ SphereModuli \subseteq Moduli /\ Moduli \subseteq Variables \ {"integratorMethod"}
<1>1. ReadsOf("sphereSphereE")
        = <<"spherePoissonRatio", "sphereE", "spherePoissonRatio", "sphereE">>
  BY DEF ReadsOf
<1>2. ReadsOf("sphereWallE")
        = <<"spherePoissonRatio", "sphereE", "wallPoissonRatio", "wallE">>
  BY DEF ReadsOf
<1>3. \A what \in Modulus : what = "sphereSphereE" \/ what = "sphereWallE"
  BY DEF Modulus
<1>4. \A n \in 1 .. 4 : n = 1 \/ n = 2 \/ n = 3 \/ n = 4
  OBVIOUS
<1>5. \A n \in 1 .. 4 : ReadsOf("sphereSphereE")[n] \in SphereModuli
  BY <1>1, <1>4 DEF SphereModuli
<1>6. \A n \in 1 .. 4 : ReadsOf("sphereWallE")[n] \in Moduli
  BY <1>2, <1>4 DEF Moduli
<1>7. SphereModuli \subseteq Moduli /\ Moduli \subseteq Variables \ {"integratorMethod"}
  BY DEF SphereModuli, Moduli, Variables
<1>8. \A what \in Modulus : DOMAIN ReadsOf(what) = 1 .. 4
  BY <1>1, <1>2, <1>3
<1> QED
  BY <1>5, <1>6, <1>7, <1>8

\* What stands at a place of a call, in five parts.
LEMMA CallAtFacts ==
  ASSUME NEW n \in 1 .. 10
  PROVE  /\ CallAt(n) \in Accesses
         /\ n \in 1 .. 4 => CallAt(n) = Read(ReadsOf("sphereSphereE")[n])
         /\ n = 5 => CallAt(n) = Store("sphereSphereE")
         /\ n \in 6 .. 9 => CallAt(n) = Read(ReadsOf("sphereWallE")[n - 5])
         /\ n = 10 => CallAt(n) = Store("sphereWallE")
<1>1. n \in 1 .. 4 => CallAt(n) = Read(ReadsOf("sphereSphereE")[n])
  BY DEF CallAt
<1>2. n = 5 => CallAt(n) = Store("sphereSphereE")
  BY DEF CallAt
<1>3. n \in 6 .. 9 => CallAt(n) = Read(ReadsOf("sphereWallE")[n - 5]) /\ n - 5 \in 1 .. 4
  BY DEF CallAt
<1>4. n = 10 => CallAt(n) = Store("sphereWallE")
  BY DEF CallAt
<1>5. /\ \A var \in Variables : Read(var) \in Accesses
      /\ Store("sphereSphereE") \in Accesses /\ Store("sphereWallE") \in Accesses
  BY DEF Accesses, Modulus
<1>6. \A i \in 1 .. 4 : /\ ReadsOf("sphereSphereE")[i] \in Variables
                        /\ ReadsOf("sphereWallE")[i] \in Variables
  BY ReadsFacts
<1>7. n \in 1 .. 4 \/ n = 5 \/ n \in 6 .. 9 \/ n = 10
  OBVIOUS
<1>8. CallAt(n) \in Accesses
  BY <1>1, <1>2, <1>3, <1>4, <1>5, <1>6, <1>7
<1> QED
  BY <1>1, <1>2, <1>3, <1>4, <1>8

\* A call loses its first access at a time.
LEMMA RemainingFacts ==
  ASSUME NEW k \in 0 .. 10
  PROVE  /\ Remaining(k) \in Seq(Accesses) /\ Len(Remaining(k)) = k
         /\ k # 0 => /\ Remaining(k) # <<>>
                     /\ Head(Remaining(k)) = CallAt(11 - k)
                     /\ Tail(Remaining(k)) = Remaining(k - 1)
<1>1. \A n \in 1 .. k : 10 - k + n \in 1 .. 10
  OBVIOUS
<1>2. \A n \in 1 .. k : CallAt(10 - k + n) \in Accesses
  BY <1>1, CallAtFacts
<1>3. Remaining(k) \in [1 .. k -> Accesses]
  BY <1>2 DEF Remaining
<1>4. Remaining(k) \in Seq(Accesses) /\ Len(Remaining(k)) = k
  BY <1>3
<1>5. ASSUME k # 0
      PROVE  /\ Remaining(k) # <<>>
             /\ Head(Remaining(k)) = CallAt(11 - k)
             /\ Tail(Remaining(k)) = Remaining(k - 1)
  <2>1. Remaining(k) # <<>> /\ 1 \in 1 .. k /\ 10 - k + 1 = 11 - k
    BY <1>4, <1>5
  <2>2. Head(Remaining(k)) = CallAt(11 - k)
    BY <1>4, <2>1 DEF Remaining
  <2>3. /\ Tail(Remaining(k)) \in Seq(Accesses) /\ Len(Tail(Remaining(k))) = k - 1
        /\ \A n \in 1 .. k - 1 : Tail(Remaining(k))[n] = Remaining(k)[n + 1]
    BY <1>4, <2>1
  <2>4. /\ Remaining(k - 1) = [n \in 1 .. k - 1 |-> CallAt(10 - (k - 1) + n)]
        /\ k - 1 \in 0 .. 10
    BY <1>5 DEF Remaining
  <2>5. ASSUME NEW n \in 1 .. k - 1
        PROVE  Tail(Remaining(k))[n] = Remaining(k - 1)[n]
    <3>1. n + 1 \in 1 .. k /\ 10 - k + (n + 1) = 10 - (k - 1) + n
      OBVIOUS
    <3>2. Remaining(k)[n + 1] = CallAt(10 - k + (n + 1))
      BY <3>1 DEF Remaining
    <3> QED
      BY <2>3, <2>4, <3>1, <3>2
  <2>6. Tail(Remaining(k)) \in [1 .. k - 1 -> Accesses]
    BY <2>3, LenProperties
  <2>7. Tail(Remaining(k)) = Remaining(k - 1)
    BY <2>4, <2>5, <2>6
  <2> QED
    BY <2>1, <2>2, <2>7
<1> QED
  BY <1>4, <1>5

\* A call that stores what it has read.
LEMMA FourAndOne ==
  ASSUME NEW S, NEW s \in Seq(S), NEW e \in S, Len(s) = 4
  PROVE  /\ s \o <<e>> \in Seq(S) /\ Len(s \o <<e>>) = 5
         /\ \A n \in 1 .. 5 : (s \o <<e>>)[n] = IF n <= 4 THEN s[n] ELSE <<e>>[n - 4]
<1>1. <<e>> \in Seq(S) /\ Len(<<e>>) = 1
  OBVIOUS
<1>2. /\ s \o <<e>> \in Seq(S) /\ Len(s \o <<e>>) = Len(s) + Len(<<e>>)
      /\ \A n \in 1 .. Len(s) + Len(<<e>>) :
           (s \o <<e>>)[n] = IF n <= Len(s) THEN s[n] ELSE <<e>>[n - Len(s)]
  BY <1>1, ConcatProperties
<1> QED
  BY <1>1, <1>2

\* Two formulas, one after the other.
LEMMA FiveAndFive ==
  ASSUME NEW S, NEW s \in Seq(S), NEW t \in Seq(S), Len(s) = 5, Len(t) = 5
  PROVE  /\ s \o t \in Seq(S) /\ Len(s \o t) = 10
         /\ \A n \in 1 .. 10 : (s \o t)[n] = IF n <= 5 THEN s[n] ELSE t[n - 5]
<1>1. /\ s \o t \in Seq(S) /\ Len(s \o t) = Len(s) + Len(t)
      /\ \A n \in 1 .. Len(s) + Len(t) :
           (s \o t)[n] = IF n <= Len(s) THEN s[n] ELSE t[n - Len(s)]
  BY ConcatProperties
<1> QED
  BY <1>1

\* One formula reads its four variables and stores the result.
LEMMA ComputeIs ==
  ASSUME NEW what \in Modulus
  PROVE  /\ ComputeModulus(what) = [n \in 1 .. 5 |->
              IF n <= 4 THEN Read(ReadsOf(what)[n]) ELSE Store(what)]
<1> DEFINE reads == [n \in 1 .. 4 |-> Read(ReadsOf(what)[n])]
<1>1. ComputeModulus(what) = reads \o <<Store(what)>>
  BY ReadsFacts DEF ComputeModulus
<1>2. \A n \in 1 .. 4 : ReadsOf(what)[n] \in Variables
  BY ReadsFacts DEF Modulus
<1>3. reads \in Seq(Accesses) /\ Len(reads) = 4 /\ Store(what) \in Accesses
  BY <1>2 DEF Accesses
<1>4. \A n \in 1 .. 4 : reads[n] = Read(ReadsOf(what)[n])
  OBVIOUS
<1> HIDE DEF reads
<1> DEFINE call == reads \o <<Store(what)>>
<1>5. /\ call \in Seq(Accesses) /\ Len(call) = 5
      /\ \A n \in 1 .. 5 : call[n] = IF n <= 4 THEN reads[n] ELSE <<Store(what)>>[n - 4]
  BY <1>3, FourAndOne
<1>6. \A n \in 1 .. 5 :
        call[n] = IF n <= 4 THEN Read(ReadsOf(what)[n]) ELSE Store(what)
  <2>1. \A n \in 1 .. 5 : n <= 4 \/ n = 5
    OBVIOUS
  <2>2. <<Store(what)>>[1] = Store(what)
    OBVIOUS
  <2>3. \A n \in 1 .. 5 : n <= 4 => call[n] = Read(ReadsOf(what)[n])
    BY <1>4, <1>5
  <2>4. call[5] = Store(what)
    BY <1>5, <2>2
  <2> QED
    BY <2>1, <2>3, <2>4
<1>7. call \in [1 .. 5 -> Accesses]
  BY <1>5, LenProperties
<1> HIDE DEF call
<1> QED
  BY <1>1, <1>6, <1>7 DEF call

\* What a signal makes the main thread do.
LEMMA CallsFacts ==
  ASSUME NEW var \in Variables
  PROVE  /\ var \in SphereModuli => Calls(var) = Remaining(10)
         /\ var \in Moduli \ SphereModuli => Calls(var) = Remaining(5)
         /\ var = "integratorMethod" => Calls(var) = <<Choose>>
         /\ var = "maximumTheta" => Calls(var) = <<>>
<1> DEFINE S == ComputeModulus("sphereSphereE")
           W == ComputeModulus("sphereWallE")
<1>1. var \in SphereModuli => Calls(var) = S \o W
  BY Zenon DEF Calls, SphereModuli
<1>2. var \in Moduli \ SphereModuli => Calls(var) = W
  <2>1. var \in Moduli \ SphereModuli => var = "wallE" \/ var = "wallPoissonRatio"
    BY DEF Moduli, SphereModuli
  <2>2. Calls("wallE") = W /\ Calls("wallPoissonRatio") = W
    BY DEF Calls
  <2> QED
    BY <2>1, <2>2
<1>3. Calls("integratorMethod") = <<Choose>> /\ Calls("maximumTheta") = <<>>
  BY DEF Calls
<1>4. /\ S = [n \in 1 .. 5 |-> IF n <= 4 THEN Read(ReadsOf("sphereSphereE")[n])
                               ELSE Store("sphereSphereE")]
      /\ W = [n \in 1 .. 5 |-> IF n <= 4 THEN Read(ReadsOf("sphereWallE")[n])
                               ELSE Store("sphereWallE")]
  BY ComputeIs DEF Modulus
<1>5. Remaining(5) = W
  <2>1. \A n \in 1 .. 5 : /\ 10 - 5 + n \in 6 .. 10 /\ 10 - 5 + n - 5 = n
                          /\ n <= 4 <=> 10 - 5 + n <= 9
    OBVIOUS
  <2> HIDE DEF W
  <2>2. \A n \in 1 .. 5 : CallAt(10 - 5 + n) = W[n]
    BY <1>4, <2>1 DEF CallAt
  <2>3. W = [n \in 1 .. 5 |-> W[n]]
    BY <1>4
  <2> QED
    BY <2>2, <2>3 DEF Remaining
<1>6. Remaining(10) = S \o W
  <2> HIDE DEF S, W
  <2>1. \A n \in 1 .. 10 : CallAt(10 - 10 + n) = IF n <= 5 THEN S[n] ELSE W[n - 5]
    BY <1>4 DEF CallAt
  <2>2. S \in Seq(Accesses) /\ W \in Seq(Accesses) /\ Len(S) = 5 /\ Len(W) = 5
    <3>1. \A n \in 1 .. 5 : /\ S[n] = CallAt(n) /\ CallAt(n) \in Accesses
                           /\ W[n] = CallAt(n + 5) /\ CallAt(n + 5) \in Accesses
      <4>1. \A n \in 1 .. 5 : n \in 1 .. 10 /\ n + 5 \in 1 .. 10
        OBVIOUS
      <4>2. \A n \in 1 .. 5 : CallAt(n) \in Accesses /\ CallAt(n + 5) \in Accesses
        BY <4>1, CallAtFacts
      <4> QED
        BY <1>4, <4>2 DEF CallAt
    <3>2. S \in [1 .. 5 -> Accesses] /\ W \in [1 .. 5 -> Accesses]
      BY <1>4, <3>1
    <3>3. ASSUME NEW f \in [1 .. 5 -> Accesses] PROVE f \in Seq(Accesses) /\ Len(f) = 5
      <4>1. f \in Seq(Accesses)
        BY SeqDef
      <4>2. DOMAIN f = 1 .. 5 /\ 5 \in Nat
        OBVIOUS
      <4> QED
        BY <4>1, <4>2
    <3> QED
      BY <3>2, <3>3
  <2>3. /\ S \o W \in Seq(Accesses) /\ Len(S \o W) = 10
        /\ \A n \in 1 .. 10 : (S \o W)[n] = IF n <= 5 THEN S[n] ELSE W[n - 5]
    BY <2>2, FiveAndFive
  <2>4. /\ Remaining(10) \in Seq(Accesses) /\ Len(Remaining(10)) = 10
        /\ \A n \in 1 .. 10 : Remaining(10)[n] = CallAt(10 - 10 + n)
    BY RemainingFacts DEF Remaining
  <2>5. \A n \in 1 .. 10 : Remaining(10)[n] = (S \o W)[n]
    BY <2>1, <2>3, <2>4
  <2> QED
    BY <2>3, <2>4, <2>5, SeqEqual
<1> HIDE DEF S, W
<1> QED
  BY <1>1, <1>2, <1>3, <1>5, <1>6

\* Values, methods and settings are what the types say.
LEMMA ValuesFacts ==
  /\ Values \subseteq Nat /\ 0 \in Values /\ CashKarp54 \in Values /\ Fallback \in Values
  /\ \A setting \in Settings : setting[1] \in Variables /\ setting[2] \in Values
  /\ AllMethods = Methods
  /\ MaxSets \in Nat /\ MaxAsked \in Nat
  /\ "integratorMethod" \in Variables
<1>1. \A setting \in Settings : setting[1] \in Variables /\ setting[2] \in Nat
  BY DerivedValuesAssumption
<1>2. /\ Values \subseteq Nat /\ 0 \in Values /\ CashKarp54 \in Values /\ Fallback \in Values
      /\ \A setting \in Settings : setting[2] \in Values
  BY <1>1 DEF Values, CashKarp54, Fallback, RungeKuttaFehlberg54
<1>3. AllMethods = Methods
  BY DEF AllMethods, Known, Fallback, RungeKuttaFehlberg54, Methods
<1>4. "integratorMethod" \in Variables
  BY DEF Variables
<1> QED
  BY <1>1, <1>2, <1>3, <1>4, DerivedValuesAssumption

\* An access of the main thread is of one of five kinds.
LEMMA AccessFacts ==
  ASSUME NEW a \in Accesses
  PROVE  /\ a.op = "read" => \E var \in Variables : a = Read(var)
         /\ a.op = "store" => \E what \in Modulus : a = Store(what)
         /\ a.op = "choose" <=> a = Choose
         /\ a.op = "replace" <=> a = Replace
         /\ a.op = "install" <=> a \in Installs
<1>1. /\ \A var \in Variables : Read(var).op = "read"
      /\ \A what \in Modulus : Store(what).op = "store"
      /\ Choose.op = "choose" /\ Replace.op = "replace"
      /\ \A half \in 1 .. 2, method \in AllMethods : InstallOf(half, method).op = "install"
  BY DEF Read, Store, Choose, Replace, InstallOf
<1>2. /\ \A b \in Installs : b.op = "install"
      /\ \/ \E var \in Variables : a = Read(var)
         \/ \E what \in Modulus : a = Store(what)
         \/ a = Choose \/ a = Replace \/ a \in Installs
  BY <1>1 DEF Accesses, Installs
<1> QED
  BY <1>1, <1>2

\* The fields of what is installed.
LEMMA InstallFacts ==
  /\ \A half \in 1 .. 2, method \in AllMethods :
       /\ InstallOf(half, method) \in Installs
       /\ InstallOf(half, method).half = half /\ InstallOf(half, method).method = method
  /\ \A a \in Installs : /\ a.half \in 1 .. 2 /\ a.method \in AllMethods
                         /\ a = InstallOf(a.half, a.method)
  /\ \A method \in AllMethods :
       /\ Install(method) \in Seq(Accesses) /\ Len(Install(method)) = 2
       /\ Install(method)[1] = InstallOf(1, method) /\ Install(method)[2] = InstallOf(2, method)
  /\ Installs \subseteq Accesses /\ Choose \in Accesses /\ Replace \in Accesses
  /\ Choose \notin Installs /\ Replace \notin Installs /\ Choose # Replace
<1>1. \A half \in 1 .. 2, method \in AllMethods :
       /\ InstallOf(half, method) \in Installs
       /\ InstallOf(half, method).half = half /\ InstallOf(half, method).method = method
  BY DEF Installs, InstallOf
<1>2. ASSUME NEW a \in Installs
      PROVE  a.half \in 1 .. 2 /\ a.method \in AllMethods /\ a = InstallOf(a.half, a.method)
  <2>1. PICK half \in 1 .. 2, method \in AllMethods : a = InstallOf(half, method)
    BY DEF Installs
  <2> QED
    BY <1>1, <2>1
<1>3. Installs \subseteq Accesses /\ Choose \in Accesses /\ Replace \in Accesses
  BY DEF Accesses
<1>4. Choose \notin Installs /\ Replace \notin Installs /\ Choose # Replace
  <2>1. Choose.op = "choose" /\ Replace.op = "replace"
    BY DEF Choose, Replace
  <2>2. \A a \in Installs : a.op = "install"
    BY DEF Installs, InstallOf
  <2> QED
    BY <2>1, <2>2
<1>5. ASSUME NEW method \in AllMethods
      PROVE  /\ Install(method) \in Seq(Accesses) /\ Len(Install(method)) = 2
             /\ Install(method)[1] = InstallOf(1, method)
             /\ Install(method)[2] = InstallOf(2, method)
  <2>1. Install(method) = [half \in 1 .. 2 |-> InstallOf(half, method)]
    BY DEF Install, InstallOf
  <2>2. \A half \in 1 .. 2 : InstallOf(half, method) \in Accesses
    BY <1>1, <1>3
  <2>3. Install(method) \in [1 .. 2 -> Accesses]
    BY <2>1, <2>2
  <2>4. Install(method) \in Seq(Accesses) /\ DOMAIN Install(method) = 1 .. 2
    BY <2>3, SeqDef
  <2> QED
    BY <2>1, <2>4
<1> QED
  BY <1>1, <1>2, <1>3, <1>4, <1>5

\* A message is a setting or asks for steps, and is not both.
LEMMA MessageFacts ==
  /\ \A m \in SettingMessages : \E var \in Variables, value \in Values : m = Set(var, value)
  /\ \A var \in Variables, value \in Values :
       /\ Set(var, value) \in SettingMessages /\ Set(var, value) # Steps
       /\ Set(var, value).var = var /\ Set(var, value).value = value
       /\ \A other \in Variables : IsFor(Set(var, value), other) <=> other = var
  /\ \A var \in Variables : ~IsFor(Steps, var)
  /\ Steps \notin SettingMessages
<1>1. Steps.op = "calculateStep"
  BY DEF Steps
<1>2. \A var \in Variables, value \in Values :
        /\ Set(var, value).op = "updateVariable"
        /\ Set(var, value).var = var /\ Set(var, value).value = value
  BY DEF Set
<1>3. \A m \in SettingMessages : m.op = "updateVariable"
  BY <1>2 DEF SettingMessages
<1> QED
  BY <1>1, <1>2, <1>3 DEF SettingMessages, IsFor

-----------------------------------------------------------------------------
(* The values a step calculates with: what a step leaves alone *)

\* What has no part in the steps leaves them counted.
LEMMA StepsStayCounted ==
  ASSUME StepsCounted, UNCHANGED <<asked, toServer, steps>>
  PROVE  StepsCounted'
BY DEF StepsCounted

\* A call is disturbed by what it does and by the moduli only.
LEMMA MainThreadStays ==
  ASSUME MainThread, UNCHANGED <<todo, operands, derived, posted>>,
         \A var \in Moduli : variables'[var] = variables[var]
  PROVE  MainThread'
<1>1. PICK k \in 0 .. 10 :
        /\ \/ todo = Remaining(k)
           \/ k = 0 /\ Builds(todo)
        /\ Len(operands) = ReadSoFar(k)
        /\ ModuliFollow(k)
  BY DEF MainThread
<1>2. Builds(todo)' = Builds(todo)
  OBVIOUS
<1>3. Len(operands) \in 0 .. 4
  BY <1>1 DEF ReadSoFar
<1>4. /\ \A n \in 1 .. 4 : ReadsOf("sphereSphereE")[n] \in Moduli
      /\ \A n \in 1 .. 4 : ReadsOf("sphereWallE")[n] \in Moduli
  BY ReadsFacts
<1>5. ModuliFollow(k)'
  <2>1. \A S : PostedFor(S)' = PostedFor(S)
    BY DEF PostedFor
  <2>2. /\ ReadsAreCurrent("sphereSphereE")' <=> ReadsAreCurrent("sphereSphereE")
        /\ ReadsAreCurrent("sphereWallE")' <=> ReadsAreCurrent("sphereWallE")
    <3>1. \A n \in 1 .. Len(operands) : n \in 1 .. 4
      <4>1. \A l \in 0 .. 4 : \A n \in 1 .. l : n \in 1 .. 4
        OBVIOUS
      <4> QED
        BY <1>3, <4>1
    <3> QED
      BY <1>4, <3>1 DEF ReadsAreCurrent
  <2>3. /\ IsCurrent("sphereSphereE")' <=> IsCurrent("sphereSphereE")
        /\ IsCurrent("sphereWallE")' <=> IsCurrent("sphereWallE")
    BY <1>4 DEF IsCurrent
  <2> QED
    BY <1>1, <2>1, <2>2, <2>3 DEF ModuliFollow
<1> QED
  BY <1>1, <1>2, <1>5 DEF MainThread

\* The tableau is disturbed by its own call and by the method only.
LEMMA TableauStays ==
  ASSUME TableauFollows, UNCHANGED <<todo, posted, butcherTableau, variables>>
  PROVE  TableauFollows'
BY DEF TableauFollows, PostedFor, MethodOf

\* Settings under way are disturbed by what sends or takes them only.
LEMMA SettingsStay ==
  ASSUME SettingsOnTheirWay, UNCHANGED <<toServer, items>>,
         \A var \in Variables \ {"integratorMethod"} :
           client'[var] = client[var] /\ variables'[var] = variables[var]
  PROVE  SettingsOnTheirWay'
BY DEF SettingsOnTheirWay, Arrives, LastFor, NoneFor

-----------------------------------------------------------------------------
(* The values a step calculates with: the client *)

\* A request more at the end.
LEMMA OneMore ==
  ASSUME NEW S, NEW s \in Seq(S), NEW e \in S
  PROVE  /\ Append(s, e) \in Seq(S) /\ Len(Append(s, e)) = Len(s) + 1
         /\ \A n \in 1 .. Len(s) : Append(s, e)[n] = s[n]
         /\ Append(s, e)[Len(s) + 1] = e
         /\ Len(s) \in Nat
OBVIOUS

\* One less at the beginning.
LEMMA OneLess ==
  ASSUME NEW S, NEW s \in Seq(S), s # <<>>
  PROVE  /\ Tail(s) \in Seq(S) /\ Len(Tail(s)) = Len(s) - 1
         /\ \A n \in 1 .. Len(s) - 1 : Tail(s)[n] = s[n + 1]
         /\ Head(s) \in S /\ Head(s) = s[1] /\ 1 \in 1 .. Len(s)
         /\ Len(s) \in Nat \ {0}
<1>1. Len(s) \in Nat \ {0} /\ Head(s) = s[1]
  BY EmptySeq
<1>2. Head(s) \in S /\ Tail(s) \in Seq(S) /\ Len(Tail(s)) = Len(s) - 1
      /\ \A n \in 1 .. Len(s) - 1 : Tail(s)[n] = s[n + 1]
  BY HeadTailProperties
<1> QED
  BY <1>1, <1>2

\* Settings for other variables, and requests for steps, at the end of a channel
\* leave the last one for a variable what it is.
LEMMA AppendedOther ==
  ASSUME NEW S, NEW s \in Seq(S), NEW e \in S, NEW var, NEW value,
         ~IsFor(e, var)
  PROVE  /\ NoneFor(s, var) => NoneFor(Append(s, e), var)
         /\ LastFor(s, var, value) => LastFor(Append(s, e), var, value)
<1> DEFINE t == Append(s, e)
<1>1. /\ t \in Seq(S) /\ Len(t) = Len(s) + 1 /\ Len(s) \in Nat
      /\ \A n \in 1 .. Len(s) : t[n] = s[n]
      /\ t[Len(s) + 1] = e
  BY OneMore
<1> HIDE DEF t
<1>2. NoneFor(s, var) => NoneFor(t, var)
  BY <1>1 DEF NoneFor
<1>3. ASSUME LastFor(s, var, value) PROVE LastFor(t, var, value)
  <2>1. PICK n \in 1 .. Len(s) :
          /\ s[n] = Set(var, value)
          /\ \A m \in n + 1 .. Len(s) : ~IsFor(s[m], var)
    BY <1>3 DEF LastFor
  <2>2. n \in 1 .. Len(t) /\ t[n] = Set(var, value)
    BY <1>1, <2>1
  <2>3. ASSUME NEW m \in n + 1 .. Len(t) PROVE ~IsFor(t[m], var)
    BY <1>1, <2>1
  <2> QED
    BY <2>2, <2>3 DEF LastFor
<1> QED
  BY <1>2, <1>3 DEF t

\* The last of all is the last for its variable.
LEMMA AppendedLast ==
  ASSUME NEW S, NEW s \in Seq(S), NEW var, NEW value, Set(var, value) \in S
  PROVE  LastFor(Append(s, Set(var, value)), var, value)
<1> DEFINE t == Append(s, Set(var, value))
<1>1. /\ Len(t) = Len(s) + 1 /\ Len(s) \in Nat
      /\ t[Len(s) + 1] = Set(var, value)
  BY OneMore
<1> HIDE DEF t
<1>2. Len(t) \in 1 .. Len(t) /\ t[Len(t)] = Set(var, value) /\ Len(t) + 1 .. Len(t) = {}
  BY <1>1
<1>3. LastFor(t, var, value)
  BY <1>2 DEF LastFor
<1> QED
  BY <1>3 DEF t

\* What is left of a channel when its first message is taken.
LEMMA TakenFirst ==
  ASSUME NEW S, NEW s \in Seq(S), s # <<>>, NEW var, NEW value
  PROVE  /\ NoneFor(s, var) => NoneFor(Tail(s), var) /\ ~IsFor(Head(s), var)
         /\ LastFor(s, var, value) =>
              \/ LastFor(Tail(s), var, value)
              \/ NoneFor(Tail(s), var) /\ Head(s) = Set(var, value)
<1> DEFINE t == Tail(s)
           first == Head(s)
<1>1. /\ Len(t) = Len(s) - 1 /\ Len(s) \in Nat \ {0}
      /\ \A n \in 1 .. Len(s) - 1 : t[n] = s[n + 1]
      /\ first = s[1]
  BY OneLess
<1> HIDE DEF t, first
<1>2. NoneFor(s, var) => NoneFor(t, var) /\ ~IsFor(first, var)
  BY <1>1 DEF NoneFor
<1>3. ASSUME LastFor(s, var, value)
      PROVE  \/ LastFor(t, var, value)
             \/ NoneFor(t, var) /\ first = Set(var, value)
  <2>1. PICK n \in 1 .. Len(s) :
          /\ s[n] = Set(var, value)
          /\ \A m \in n + 1 .. Len(s) : ~IsFor(s[m], var)
    BY <1>3 DEF LastFor
  <2>2. \A m \in 1 .. Len(t) : m + 1 \in 1 .. Len(s) /\ t[m] = s[m + 1]
    BY <1>1
  <2>3. CASE n = 1
    <3>1. \A m \in 1 .. Len(t) : ~IsFor(t[m], var)
      BY <1>1, <2>1, <2>2, <2>3
    <3> QED
      BY <1>1, <2>1, <2>3, <3>1 DEF NoneFor
  <2>4. CASE n # 1
    <3>1. n - 1 \in 1 .. Len(t) /\ t[n - 1] = Set(var, value)
      BY <1>1, <2>1, <2>4
    <3>2. \A m \in n - 1 + 1 .. Len(t) : ~IsFor(t[m], var)
      BY <1>1, <2>1, <2>2
    <3> QED
      BY <3>1, <3>2 DEF LastFor
  <2> QED
    BY <2>3, <2>4
<1> QED
  BY <1>2, <1>3 DEF t, first

\* The count of the steps grows with the channel, and only by a request for steps.
LEMMA CountMore ==
  ASSUME StepsCounted, ValuesTyped, NEW e \in SettingMessages \union {Steps},
         toServer' = Append(toServer, e), steps' = steps,
         asked' = asked + (IF e = Steps THEN 1 ELSE 0), asked' <= MaxAsked
  PROVE  StepsCounted'
<1> DEFINE one == IF e = Steps THEN 1 ELSE 0
           l == Len(toServer)
<1>1. PICK c \in [0 .. Len(toServer) -> 0 .. MaxAsked] :
        /\ c[0] = 0
        /\ \A n \in 1 .. Len(toServer) :
             c[n] = c[n - 1] + (IF toServer[n] = Steps THEN 1 ELSE 0)
        /\ steps + c[Len(toServer)] <= asked
  BY DEF StepsCounted
<1>2. /\ toServer \in Seq(SettingMessages \union {Steps}) /\ steps \in Nat
      /\ asked \in 0 .. MaxAsked /\ MaxAsked \in Nat
  BY ValuesFacts DEF ValuesTyped
<1>3. /\ Len(toServer') = l + 1 /\ l \in Nat
      /\ \A n \in 1 .. l : toServer'[n] = toServer[n]
      /\ toServer'[l + 1] = e
  BY <1>2, OneMore
<1>4. one \in 0 .. 1 /\ asked' = asked + one
  OBVIOUS
<1> HIDE DEF one, l
<1>5. c[l] \in 0 .. MaxAsked /\ c[l] + one \in 0 .. MaxAsked /\ steps' + (c[l] + one) <= asked'
  <2>1. l \in 0 .. l
    BY <1>3
  <2>2. c[l] \in 0 .. MaxAsked /\ steps + c[l] <= asked
    BY <1>1, <2>1 DEF l
  <2> QED
    BY <1>2, <1>4, <2>2
<1> DEFINE d == [n \in 0 .. l + 1 |-> IF n = l + 1 THEN c[l] + one ELSE c[n]]
<1>6. /\ d \in [0 .. l + 1 -> 0 .. MaxAsked] /\ d[0] = 0
      /\ \A n \in 0 .. l : d[n] = c[n]
      /\ d[l + 1] = c[l] + one
  <2>1. \A n \in 0 .. l + 1 : n = l + 1 \/ n \in 0 .. l
    BY <1>3
  <2>2. \A n \in 0 .. l : c[n] \in 0 .. MaxAsked /\ n \in 0 .. l + 1 /\ n # l + 1
    BY <1>1, <1>3 DEF l
  <2>3. 0 \in 0 .. l /\ l + 1 \in 0 .. l + 1
    BY <1>3
  <2> QED
    BY <1>1, <1>5, <2>1, <2>2, <2>3
<1> HIDE DEF d
<1>7. ASSUME NEW n \in 1 .. l + 1
      PROVE  d[n] = d[n - 1] + (IF toServer'[n] = Steps THEN 1 ELSE 0)
  <2>1. CASE n = l + 1
    BY <1>3, <1>6, <2>1 DEF one
  <2>2. CASE n # l + 1
    <3>1. n \in 1 .. l /\ n \in 0 .. l /\ n - 1 \in 0 .. l
      BY <1>3, <2>2
    <3>2. c[n] = c[n - 1] + (IF toServer[n] = Steps THEN 1 ELSE 0)
      BY <1>1, <3>1 DEF l
    <3> QED
      BY <1>3, <1>6, <3>1, <3>2
  <2> QED
    BY <2>1, <2>2
<1>8. Len(toServer') = l + 1 /\ steps' + d[Len(toServer')] <= asked'
  BY <1>3, <1>5, <1>6
<1> QED
  BY <1>6, <1>7, <1>8 DEF StepsCounted

\* set() and the request for steps.
LEMMA ClientKeeps ==
  ASSUME ValuesInv,
         \/ \E setting \in Settings : ClientSets(setting[1], setting[2])
         \/ ClientAsksForStep
  PROVE  ValuesInv'
<1>1. ValuesTyped /\ StepsCounted /\ MainThread /\ TableauFollows /\ SettingsOnTheirWay
  BY DEF ValuesInv
<1>2. toServer \in Seq(SettingMessages \union {Steps}) /\ client \in [Variables -> Values]
      /\ sets \in 0 .. MaxSets /\ asked \in 0 .. MaxAsked /\ MaxSets \in Nat /\ MaxAsked \in Nat
  BY <1>1, ValuesFacts DEF ValuesTyped
<1>3. ASSUME NEW var \in Variables, NEW value \in Values, ClientSets(var, value)
      PROVE  ValuesInv'
  <2>1. /\ sets < MaxSets /\ client' = [client EXCEPT ![var] = value] /\ sets' = sets + 1
        /\ toServer' = Append(toServer, Set(var, value))
        /\ UNCHANGED <<asked, toClient, items, steps, variables, posted, todo, operands,
                       derived, butcherTableau, stage>>
    BY <1>3 DEF ClientSets, queueVars, mainVars
  <2>2. Set(var, value) \in SettingMessages \union {Steps} /\ Set(var, value) # Steps
    BY MessageFacts
  <2>3. ValuesTyped'
    <3>1. /\ sets' \in 0 .. MaxSets /\ client' \in [Variables -> Values]
          /\ toServer' \in Seq(SettingMessages \union {Steps})
      BY <1>2, <2>1, <2>2, OneMore
    <3> QED
      BY <1>1, <2>1, <3>1 DEF ValuesTyped
  <2>4. StepsCounted'
    <3>1. asked' = asked + (IF Set(var, value) = Steps THEN 1 ELSE 0) /\ asked' <= MaxAsked
      BY <1>2, <2>1, <2>2
    <3> QED
      BY <1>1, <2>1, <2>2, <3>1, CountMore
  <2>5. MainThread' /\ TableauFollows'
    BY <1>1, <2>1, MainThreadStays, TableauStays
  <2>6. ASSUME NEW other \in Variables \ {"integratorMethod"} PROVE Arrives(other)'
    <3>1. Arrives(other)
      BY <1>1 DEF SettingsOnTheirWay
    <3>2. CASE other = var
      <4>1. client'[other] = value
        BY <1>2, <2>1, <3>2
      <4>2. LastFor(toServer', other, client'[other])
        BY <1>2, <2>1, <2>2, <3>2, <4>1, AppendedLast
      <4> QED
        BY <4>2 DEF Arrives, LastFor
    <3>3. CASE other # var
      <4>1. client'[other] = client[other] /\ ~IsFor(Set(var, value), other)
        BY <1>2, <2>1, <3>3, MessageFacts
      <4>2. /\ NoneFor(toServer, other) => NoneFor(toServer', other)
            /\ LastFor(toServer, other, client[other]) => LastFor(toServer', other, client[other])
        BY <1>2, <2>1, <2>2, <4>1, AppendedOther
      <4>3. /\ NoneFor(items', other) <=> NoneFor(items, other)
            /\ LastFor(items', other, client[other]) <=> LastFor(items, other, client[other])
            /\ variables' = variables
        BY <2>1
      <4>4. \/ LastFor(toServer', other, client'[other])
            \/ NoneFor(toServer', other) /\ LastFor(items', other, client'[other])
            \/ NoneFor(toServer', other) /\ NoneFor(items', other)
                 /\ variables'[other] = client'[other]
        BY <3>1, <4>1, <4>2, <4>3 DEF Arrives
      <4> QED
        BY <4>4 DEF Arrives, LastFor, NoneFor
    <3> QED
      BY <3>2, <3>3
  <2> QED
    BY <2>3, <2>4, <2>5, <2>6 DEF ValuesInv, SettingsOnTheirWay
<1>4. CASE ClientAsksForStep
  <2>1. /\ asked < MaxAsked /\ asked' = asked + 1
        /\ toServer' = Append(toServer, Steps)
        /\ UNCHANGED <<client, sets, toClient, items, steps, variables, posted, todo, operands,
                       derived, butcherTableau, stage>>
    BY <1>4 DEF ClientAsksForStep, queueVars, mainVars
  <2>2. Steps \in SettingMessages \union {Steps}
    OBVIOUS
  <2>3. ValuesTyped'
    <3>1. asked' \in 0 .. MaxAsked /\ toServer' \in Seq(SettingMessages \union {Steps})
      BY <1>2, <2>1, <2>2, OneMore
    <3> QED
      BY <1>1, <2>1, <3>1 DEF ValuesTyped
  <2>4. StepsCounted'
    BY <1>1, <1>2, <2>1, <2>2, CountMore
  <2>5. MainThread' /\ TableauFollows'
    BY <1>1, <2>1, MainThreadStays, TableauStays
  <2>6. ASSUME NEW other \in Variables \ {"integratorMethod"} PROVE Arrives(other)'
    <3>1. Arrives(other) /\ ~IsFor(Steps, other)
      BY <1>1, MessageFacts DEF SettingsOnTheirWay
    <3>2. /\ NoneFor(toServer, other) => NoneFor(toServer', other)
          /\ LastFor(toServer, other, client[other]) => LastFor(toServer', other, client[other])
      BY <1>2, <2>1, <2>2, <3>1, AppendedOther
    <3>3. \/ LastFor(toServer', other, client'[other])
          \/ NoneFor(toServer', other) /\ LastFor(items', other, client'[other])
          \/ NoneFor(toServer', other) /\ NoneFor(items', other)
               /\ variables'[other] = client'[other]
      BY <2>1, <3>1, <3>2 DEF Arrives
    <3> QED
      BY <3>3 DEF Arrives, LastFor, NoneFor
  <2> QED
    BY <2>3, <2>4, <2>5, <2>6 DEF ValuesInv, SettingsOnTheirWay
<1>5. \A setting \in Settings : setting[1] \in Variables /\ setting[2] \in Values
  BY ValuesFacts
<1> QED
  BY <1>3, <1>4, <1>5

\* The client hears of the method that replaces its own, and of nothing else.
LEMMA ClientReceivesKeeps ==
  ASSUME ValuesInv, ClientReceives
  PROVE  ValuesInv'
<1>1. ValuesTyped /\ StepsCounted /\ MainThread /\ TableauFollows /\ SettingsOnTheirWay
  BY DEF ValuesInv
<1>2. /\ toClient \in Seq({Set("integratorMethod", Fallback)})
      /\ client \in [Variables -> Values]
  BY <1>1 DEF ValuesTyped
<1>3. /\ toClient # <<>> /\ toClient' = Tail(toClient)
      /\ client' = [client EXCEPT ![Head(toClient).var] = Head(toClient).value]
      /\ UNCHANGED <<sets, asked, toServer, items, steps, variables, posted, todo, operands,
                     derived, butcherTableau, stage>>
  BY DEF ClientReceives, queueVars, mainVars
<1>4. /\ toClient' \in Seq({Set("integratorMethod", Fallback)})
      /\ Head(toClient) = Set("integratorMethod", Fallback)
  BY <1>2, <1>3, OneLess
<1>5. Head(toClient).var = "integratorMethod" /\ Head(toClient).value = Fallback
  BY <1>4, MessageFacts, ValuesFacts
<1>6. /\ client' \in [Variables -> Values]
      /\ \A var \in Variables \ {"integratorMethod"} : client'[var] = client[var]
  BY <1>2, <1>3, <1>5, ValuesFacts
<1>7. ValuesTyped'
  BY <1>1, <1>3, <1>4, <1>6 DEF ValuesTyped
<1>8. StepsCounted' /\ MainThread' /\ TableauFollows' /\ SettingsOnTheirWay'
  BY <1>1, <1>3, <1>6, StepsStayCounted, MainThreadStays, TableauStays, SettingsStay
<1> QED
  BY <1>7, <1>8 DEF ValuesInv

-----------------------------------------------------------------------------
(* The values a step calculates with: the queue *)

\* Steps that are taken from the channel are granted.
LEMMA CountLess ==
  ASSUME StepsCounted, ValuesTyped, toServer # <<>>, toServer' = Tail(toServer),
         steps' = steps + (IF Head(toServer) = Steps THEN 1 ELSE 0), asked' = asked
  PROVE  StepsCounted'
<1> DEFINE l == Len(toServer)
<1>1. PICK c \in [0 .. Len(toServer) -> 0 .. MaxAsked] :
        /\ c[0] = 0
        /\ \A n \in 1 .. Len(toServer) :
             c[n] = c[n - 1] + (IF toServer[n] = Steps THEN 1 ELSE 0)
        /\ steps + c[Len(toServer)] <= asked
  BY DEF StepsCounted
<1>2. toServer \in Seq(SettingMessages \union {Steps}) /\ steps \in Nat /\ asked \in Nat
      /\ MaxAsked \in Nat
  BY ValuesFacts DEF ValuesTyped
<1>3. /\ Len(toServer') = l - 1 /\ l \in Nat \ {0} /\ Head(toServer) = toServer[1]
      /\ \A n \in 1 .. l - 1 : toServer'[n] = toServer[n + 1]
  BY <1>2, OneLess
<1>4. 1 \in 1 .. l /\ c[1] = (IF Head(toServer) = Steps THEN 1 ELSE 0)
  BY <1>1, <1>3
<1> HIDE DEF l
<1>5. \A n \in 1 .. l : c[n] >= c[1] /\ c[n] - c[1] \in 0 .. MaxAsked
  <2> DEFINE Bad == {n \in 1 .. l : ~(c[n] >= c[1])}
  <2>1. \A n \in 0 .. l : c[n] \in 0 .. MaxAsked
    BY <1>1 DEF l
  <2>2. ASSUME Bad # {} PROVE FALSE
    <3>1. Bad \in SUBSET Nat
      OBVIOUS
    <3>2. PICK k \in Bad : \A j \in Bad : k <= j
      BY <2>2, <3>1, FirstNumber
    <3>3. k \in 1 .. l /\ ~(c[k] >= c[1]) /\ c[k] \in Nat /\ c[1] \in Nat
      BY <1>4, <2>1
    <3>4. k # 1
      BY <3>3
    <3>5. k - 1 \in 1 .. l /\ c[k - 1] \in Nat /\ ~(k <= k - 1)
      <4>1. k - 1 \in 1 .. l /\ k - 1 \in 0 .. l /\ ~(k <= k - 1)
        BY <1>3, <3>3, <3>4
      <4> QED
        BY <2>1, <4>1
    <3>6. c[k - 1] >= c[1]
      BY <3>2, <3>5
    <3>7. c[k] >= c[k - 1]
      BY <1>1, <3>3, <3>5 DEF l
    <3> QED
      BY <3>3, <3>5, <3>6, <3>7
  <2>3. \A n \in 1 .. l : c[n] >= c[1]
    BY <2>2
  <2>4. \A n \in 1 .. l : c[n] \in 0 .. MaxAsked /\ c[1] \in 0 .. MaxAsked
    BY <1>4, <2>1
  <2> QED
    BY <1>2, <2>3, <2>4
<1> DEFINE d == [n \in 0 .. l - 1 |-> c[n + 1] - c[1]]
<1>6. \A n \in 0 .. l - 1 : n + 1 \in 1 .. l /\ d[n] = c[n + 1] - c[1]
  BY <1>3
<1>7. d \in [0 .. l - 1 -> 0 .. MaxAsked]
  BY <1>5, <1>6
<1>8. c[1] \in Nat /\ c[l] \in Nat
  <2>1. 1 \in 0 .. l /\ l \in 0 .. l
    BY <1>3
  <2> QED
    BY <1>1, <2>1 DEF l
<1>9. d[0] = 0 /\ d[l - 1] = c[l] - c[1]
  <2>1. 0 \in 0 .. l - 1 /\ l - 1 \in 0 .. l - 1 /\ 0 + 1 = 1 /\ l - 1 + 1 = l
    BY <1>3
  <2>2. d[0] = c[1] - c[1]
    BY <1>6, <2>1
  <2>3. d[l - 1] = c[l] - c[1]
    BY <1>6, <2>1
  <2> QED
    BY <1>8, <2>2, <2>3
<1> HIDE DEF d
<1>10. ASSUME NEW n \in 1 .. l - 1
       PROVE  d[n] = d[n - 1] + (IF toServer'[n] = Steps THEN 1 ELSE 0)
  <2>1. /\ n \in 0 .. l - 1 /\ n - 1 \in 0 .. l - 1 /\ n + 1 \in 1 .. l /\ n \in 1 .. l
        /\ n - 1 + 1 = n /\ n + 1 - 1 = n
    BY <1>3
  <2>2. d[n] = c[n + 1] - c[1] /\ d[n - 1] = c[n] - c[1]
    BY <1>6, <2>1
  <2>3. c[n + 1] = c[n] + (IF toServer[n + 1] = Steps THEN 1 ELSE 0)
    BY <1>1, <2>1 DEF l
  <2>4. c[n] \in Nat /\ c[n + 1] \in Nat
    <3>1. n \in 0 .. l /\ n + 1 \in 0 .. l
      BY <2>1
    <3> QED
      BY <1>1, <3>1 DEF l
  <2>5. toServer'[n] = toServer[n + 1]
    BY <1>3
  <2> QED
    <3> DEFINE step == IF toServer[n + 1] = Steps THEN 1 ELSE 0
    <3>1. step \in Nat /\ c[n + 1] = c[n] + step
      BY <2>3
    <3> HIDE DEF step
    <3>2. d[n] = d[n - 1] + step
      BY <1>8, <2>2, <2>4, <3>1
    <3> QED
      BY <2>5, <3>2 DEF step
<1>11. steps' + d[Len(toServer')] <= asked'
  <2>1. steps' = steps + c[1] /\ asked' = asked /\ d[Len(toServer')] = c[l] - c[1]
    BY <1>3, <1>4, <1>9
  <2>2. steps + c[l] <= asked
    BY <1>1 DEF l
  <2> QED
    BY <1>2, <1>8, <2>1, <2>2
<1>12. Len(toServer') = l - 1
  BY <1>3
<1> QED
  BY <1>7, <1>9, <1>10, <1>11, <1>12 DEF StepsCounted

\* pushItem() keeps the order of the settings.
LEMMA ServerReceivesKeeps ==
  ASSUME ValuesInv, ServerReceives
  PROVE  ValuesInv'
<1>1. ValuesTyped /\ StepsCounted /\ MainThread /\ TableauFollows /\ SettingsOnTheirWay
  BY DEF ValuesInv
<1>2. toServer \in Seq(SettingMessages \union {Steps}) /\ items \in Seq(SettingMessages)
      /\ steps \in Nat
  BY <1>1 DEF ValuesTyped
<1>3. /\ toServer # <<>> /\ toServer' = Tail(toServer)
      /\ Head(toServer) = Steps => steps' = steps + 1 /\ items' = items
      /\ Head(toServer) # Steps => steps' = steps /\ items' = Append(items, Head(toServer))
      /\ UNCHANGED <<client, sets, asked, toClient, variables, posted, todo, operands,
                     derived, butcherTableau, stage>>
  BY DEF ServerReceives, clientVars, mainVars
<1>4. /\ toServer' \in Seq(SettingMessages \union {Steps})
      /\ Head(toServer) \in SettingMessages \union {Steps}
  BY <1>2, <1>3, OneLess
<1>5. ValuesTyped'
  <2>1. steps' \in Nat /\ items' \in Seq(SettingMessages)
    <3>1. CASE Head(toServer) = Steps
      BY <1>2, <1>3, <3>1
    <3>2. CASE Head(toServer) # Steps
      BY <1>2, <1>3, <1>4, <3>2, OneMore
    <3> QED
      BY <3>1, <3>2
  <2> QED
    BY <1>1, <1>3, <1>4, <2>1 DEF ValuesTyped
<1>6. StepsCounted'
  <2>1. steps' = steps + (IF Head(toServer) = Steps THEN 1 ELSE 0)
    BY <1>2, <1>3
  <2> QED
    BY <1>1, <1>3, <2>1, CountLess
<1>7. MainThread' /\ TableauFollows'
  BY <1>1, <1>3, MainThreadStays, TableauStays
<1>8. ASSUME NEW var \in Variables \ {"integratorMethod"} PROVE Arrives(var)'
  <2> DEFINE value == client[var]
             first == Head(toServer)
  <2>1. Arrives(var)
    BY <1>1 DEF SettingsOnTheirWay
  <2>2. /\ NoneFor(toServer, var) => NoneFor(toServer', var) /\ ~IsFor(first, var)
        /\ LastFor(toServer, var, value) =>
             \/ LastFor(toServer', var, value)
             \/ NoneFor(toServer', var) /\ first = Set(var, value)
    BY <1>2, <1>3, TakenFirst
  <2>3. /\ ~IsFor(first, var) =>
             /\ NoneFor(items, var) => NoneFor(items', var)
             /\ LastFor(items, var, value) => LastFor(items', var, value)
    <3>1. CASE first = Steps
      BY <1>3, <3>1
    <3>2. CASE first # Steps
      <4>1. first \in SettingMessages /\ items' = Append(items, first)
        BY <1>3, <1>4, <3>2
      <4> QED
        BY <1>2, <4>1, AppendedOther
    <3> QED
      BY <3>1, <3>2
  <2>4. first = Set(var, value) => LastFor(items', var, value)
    <3>1. ASSUME first = Set(var, value) PROVE LastFor(items', var, value)
      <4>1. value \in Values
        BY <1>1 DEF ValuesTyped
      <4>2. Set(var, value) \in SettingMessages /\ first # Steps
        BY <3>1, <4>1, MessageFacts
      <4>3. items' = Append(items, Set(var, value))
        BY <1>3, <3>1, <4>2
      <4> QED
        BY <1>2, <4>2, <4>3, AppendedLast
    <3> QED
      BY <3>1
  <2>5. client'[var] = value /\ variables'[var] = variables[var]
    BY <1>3
  <2> HIDE DEF value, first
  <2>6. \/ LastFor(toServer', var, client'[var])
        \/ NoneFor(toServer', var) /\ LastFor(items', var, client'[var])
        \/ NoneFor(toServer', var) /\ NoneFor(items', var) /\ variables'[var] = client'[var]
    <3>1. \/ LastFor(toServer, var, value)
          \/ NoneFor(toServer, var) /\ LastFor(items, var, value)
          \/ NoneFor(toServer, var) /\ NoneFor(items, var) /\ variables[var] = value
      BY <2>1 DEF Arrives, value
    <3> QED
      BY <2>2, <2>3, <2>4, <2>5, <3>1
  <2> QED
    BY <2>6 DEF Arrives, LastFor, NoneFor
<1> QED
  BY <1>5, <1>6, <1>7, <1>8 DEF ValuesInv, SettingsOnTheirWay

\* A signal more keeps what was posted, and is one for its variable.
LEMMA OneMorePosted ==
  ASSUME posted \in Seq(Variables), NEW var \in Variables, posted' = Append(posted, var)
  PROVE  /\ posted' \in Seq(Variables)
         /\ \A S : PostedFor(S) => PostedFor(S)'
         /\ \A S : var \in S => PostedFor(S)'
<1>1. /\ posted' \in Seq(Variables) /\ Len(posted') = Len(posted) + 1 /\ Len(posted) \in Nat
      /\ \A n \in 1 .. Len(posted) : posted'[n] = posted[n]
      /\ posted'[Len(posted) + 1] = var
  BY OneMore
<1>2. /\ \A n \in 1 .. Len(posted) : n \in 1 .. Len(posted')
      /\ Len(posted) + 1 \in 1 .. Len(posted')
  BY <1>1
<1> QED
  BY <1>1, <1>2 DEF PostedFor

\* A setting that changes a variable leaves a signal behind.
LEMMA HandleUpdateKeeps ==
  ASSUME ValuesInv, HandleUpdateVariable
  PROVE  ValuesInv'
<1>1. ValuesTyped /\ StepsCounted /\ MainThread /\ TableauFollows /\ SettingsOnTheirWay
  BY DEF ValuesInv
<1>2. /\ items \in Seq(SettingMessages) /\ posted \in Seq(Variables)
      /\ variables \in [Variables -> Values]
  BY <1>1 DEF ValuesTyped
<1> DEFINE item == Head(items)
<1>3. /\ items # <<>> /\ items' = Tail(items)
      /\ variables' = [variables EXCEPT ![item.var] = item.value]
      /\ posted' = IF variables[item.var] = item.value THEN posted
                   ELSE Append(posted, item.var)
      /\ UNCHANGED <<client, sets, asked, toServer, toClient, steps, todo, operands,
                     derived, butcherTableau, stage>>
  BY DEF HandleUpdateVariable, clientVars, mainVars
<1>4. items' \in Seq(SettingMessages) /\ item \in SettingMessages
  BY <1>2, <1>3, OneLess
<1>5. PICK v \in Variables, x \in Values : item = Set(v, x)
  BY <1>4, MessageFacts
<1>6. item.var = v /\ item.value = x
  BY <1>5, MessageFacts
<1>7. /\ variables' = [variables EXCEPT ![v] = x]
      /\ posted' = IF variables[v] = x THEN posted ELSE Append(posted, v)
  BY <1>3, <1>6
<1> HIDE DEF item
<1>8. /\ variables' \in [Variables -> Values] /\ variables'[v] = x
      /\ \A var \in Variables \ {v} : variables'[var] = variables[var]
  BY <1>2, <1>7
<1>9. ValuesTyped'
  <2>1. posted' \in Seq(Variables)
    BY <1>2, <1>7, OneMorePosted
  <2> QED
    BY <1>1, <1>3, <1>4, <1>8, <2>1 DEF ValuesTyped
<1>10. StepsCounted'
  BY <1>1, <1>3, StepsStayCounted
<1>11. SettingsOnTheirWay'
  <2> SUFFICES ASSUME NEW var \in Variables \ {"integratorMethod"} PROVE Arrives(var)'
    BY DEF SettingsOnTheirWay
  <2> DEFINE value == client[var]
  <2>1. Arrives(var)
    BY <1>1 DEF SettingsOnTheirWay
  <2>2. /\ NoneFor(items, var) => NoneFor(items', var) /\ ~IsFor(item, var)
        /\ LastFor(items, var, value) =>
             \/ LastFor(items', var, value)
             \/ NoneFor(items', var) /\ item = Set(var, value)
    BY <1>2, <1>3, TakenFirst DEF item
  <2>3. ~IsFor(item, var) => variables'[var] = variables[var]
    <3>1. IsFor(item, var) <=> var = v
      BY <1>5, MessageFacts
    <3> QED
      BY <1>8, <3>1
  <2>4. item = Set(var, value) => variables'[var] = value
    <3>1. value \in Values
      BY <1>1 DEF ValuesTyped
    <3>2. Set(var, value).var = var /\ Set(var, value).value = value
      BY <3>1, MessageFacts
    <3> QED
      BY <1>6, <1>8, <3>2
  <2>5. client'[var] = value
    BY <1>3
  <2>6. NoneFor(toServer', var) <=> NoneFor(toServer, var)
    BY <1>3 DEF NoneFor
  <2>7. LastFor(toServer', var, value) <=> LastFor(toServer, var, value)
    BY <1>3 DEF LastFor
  <2>8. \/ LastFor(toServer, var, value)
        \/ NoneFor(toServer, var) /\ LastFor(items, var, value)
        \/ NoneFor(toServer, var) /\ NoneFor(items, var) /\ variables[var] = value
    BY <2>1 DEF Arrives
  <2> HIDE DEF value
  <2>9. \/ LastFor(toServer', var, client'[var])
        \/ NoneFor(toServer', var) /\ LastFor(items', var, client'[var])
        \/ NoneFor(toServer', var) /\ NoneFor(items', var) /\ variables'[var] = client'[var]
    BY <2>2, <2>3, <2>4, <2>5, <2>6, <2>7, <2>8
  <2> QED
    BY <2>9 DEF Arrives, LastFor, NoneFor
<1>12. CASE variables[v] = x
  <2>1. variables' = variables /\ posted' = posted
    BY <1>2, <1>7, <1>12
  <2>2. MainThread' /\ TableauFollows'
    BY <1>1, <1>3, <2>1, MainThreadStays, TableauStays
  <2> QED
    BY <1>9, <1>10, <1>11, <2>2 DEF ValuesInv
<1>13. CASE variables[v] # x
  <2>1. posted' = Append(posted, v)
    BY <1>7, <1>13
  <2>2. /\ \A S : PostedFor(S) => PostedFor(S)'
        /\ \A S : v \in S => PostedFor(S)'
    BY <1>2, <2>1, OneMorePosted
  <2>3. MainThread'
    <3>1. PICK k \in 0 .. 10 :
            /\ \/ todo = Remaining(k)
               \/ k = 0 /\ Builds(todo)
            /\ Len(operands) = ReadSoFar(k)
            /\ ModuliFollow(k)
      BY <1>1 DEF MainThread
    <3>2. Builds(todo)' = Builds(todo)
      BY <1>3
    <3>3. ASSUME NEW what \in Modulus, NEW S,
                 \A n \in 1 .. 4 : ReadsOf(what)[n] \in S, S \subseteq Variables, v \notin S
          PROVE  /\ ReadsAreCurrent(what) => ReadsAreCurrent(what)'
                 /\ IsCurrent(what) => IsCurrent(what)'
      <4>1. \A n \in 1 .. 4 : variables'[ReadsOf(what)[n]] = variables[ReadsOf(what)[n]]
        BY <1>8, <3>3
      <4>2. \A n \in 1 .. Len(operands) : n \in 1 .. 4
        <5>1. Len(operands) \in 0 .. 4
          BY <3>1 DEF ReadSoFar
        <5>2. \A l \in 0 .. 4 : \A n \in 1 .. l : n \in 1 .. 4
          OBVIOUS
        <5> QED
          BY <5>1, <5>2
      <4>3. ReadsAreCurrent(what) => ReadsAreCurrent(what)'
        BY <1>3, <4>1, <4>2 DEF ReadsAreCurrent
      <4>4. IsCurrent(what) => IsCurrent(what)'
        BY <1>3, <4>1 DEF IsCurrent
      <4> QED
        BY <4>3, <4>4
    <3>4. /\ \A n \in 1 .. 4 : ReadsOf("sphereSphereE")[n] \in SphereModuli
          /\ \A n \in 1 .. 4 : ReadsOf("sphereWallE")[n] \in Moduli
          /\ SphereModuli \subseteq Variables /\ Moduli \subseteq Variables
          /\ "sphereSphereE" \in Modulus /\ "sphereWallE" \in Modulus
      BY ReadsFacts DEF Modulus
    <3>5. \/ PostedFor(SphereModuli)'
          \/ k >= 6 /\ ReadsAreCurrent("sphereSphereE")'
          \/ k < 6 /\ IsCurrent("sphereSphereE")'
      <4>1. CASE v \in SphereModuli
        BY <2>2, <4>1
      <4>2. CASE v \notin SphereModuli
        <5>1. /\ ReadsAreCurrent("sphereSphereE") => ReadsAreCurrent("sphereSphereE")'
              /\ IsCurrent("sphereSphereE") => IsCurrent("sphereSphereE")'
          BY <3>3, <3>4, <4>2
        <5> QED
          BY <2>2, <3>1, <5>1 DEF ModuliFollow
      <4> QED
        BY <4>1, <4>2
    <3>6. \/ PostedFor(Moduli)'
          \/ k >= 6
          \/ k \in 1 .. 5 /\ ReadsAreCurrent("sphereWallE")'
          \/ k = 0 /\ IsCurrent("sphereWallE")'
      <4>1. CASE v \in Moduli
        BY <2>2, <4>1
      <4>2. CASE v \notin Moduli
        <5>1. /\ ReadsAreCurrent("sphereWallE") => ReadsAreCurrent("sphereWallE")'
              /\ IsCurrent("sphereWallE") => IsCurrent("sphereWallE")'
          BY <3>3, <3>4, <4>2
        <5> QED
          BY <2>2, <3>1, <5>1 DEF ModuliFollow
      <4> QED
        BY <4>1, <4>2
    <3>7. ModuliFollow(k)'
      BY <3>5, <3>6 DEF ModuliFollow
    <3> QED
      BY <1>3, <3>1, <3>2, <3>7 DEF MainThread
  <2>4. TableauFollows'
    <3>1. CASE v = "integratorMethod"
      <4>1. PostedFor({"integratorMethod"})'
        BY <2>2, <3>1
      <4> QED
        BY <4>1 DEF TableauFollows
    <3>2. CASE v # "integratorMethod"
      <4>1. variables'["integratorMethod"] = variables["integratorMethod"]
        BY <1>8, <3>2, ValuesFacts
      <4>2. PostedFor({"integratorMethod"}) => PostedFor({"integratorMethod"})'
        BY <2>2
      <4> QED
        BY <1>1, <1>3, <4>1, <4>2 DEF TableauFollows, Builds, Ends, MethodOf
    <3> QED
      BY <3>1, <3>2
  <2> QED
    BY <1>9, <1>10, <1>11, <2>3, <2>4 DEF ValuesInv
<1> QED
  BY <1>12, <1>13

\* The worker begins and ends a step.
LEMMA CalculationKeeps ==
  ASSUME ValuesInv, BeginCalculation \/ EndCalculation
  PROVE  ValuesInv'
<1>1. ValuesTyped /\ StepsCounted /\ MainThread /\ TableauFollows /\ SettingsOnTheirWay
  BY DEF ValuesInv
<1>2. /\ UNCHANGED <<client, sets, asked, toServer, toClient, items, variables, posted, todo,
                     operands, derived, butcherTableau>>
      /\ \/ stage' = butcherTableau[1] /\ steps > 0 /\ steps' = steps - 1
         \/ stage' = None /\ steps' = steps
  BY DEF BeginCalculation, EndCalculation, clientVars, queueVars, mainVars
<1>3. steps \in Nat /\ steps' \in Nat /\ steps' <= steps /\ stage' \in AllMethods \union {None}
  <2>1. steps \in Nat /\ butcherTableau[1] \in AllMethods
    BY <1>1 DEF ValuesTyped
  <2> QED
    BY <1>2, <2>1
<1>4. ValuesTyped'
  BY <1>1, <1>2, <1>3 DEF ValuesTyped
<1>5. StepsCounted'
  <2>1. PICK c \in [0 .. Len(toServer) -> 0 .. MaxAsked] :
          /\ c[0] = 0
          /\ \A n \in 1 .. Len(toServer) :
               c[n] = c[n - 1] + (IF toServer[n] = Steps THEN 1 ELSE 0)
          /\ steps + c[Len(toServer)] <= asked
    BY <1>1 DEF StepsCounted
  <2>2. Len(toServer) \in Nat /\ asked \in Nat /\ MaxAsked \in Nat
    BY <1>1, ValuesFacts DEF ValuesTyped
  <2>3. c[Len(toServer)] \in Nat
    BY <2>1, <2>2
  <2>4. steps' + c[Len(toServer)] <= asked
    BY <1>3, <2>1, <2>2, <2>3
  <2> QED
    BY <1>2, <2>1, <2>4 DEF StepsCounted
<1>6. MainThread' /\ TableauFollows' /\ SettingsOnTheirWay'
  BY <1>1, <1>2, MainThreadStays, TableauStays, SettingsStay
<1> QED
  BY <1>4, <1>5, <1>6 DEF ValuesInv

-----------------------------------------------------------------------------
(* The values a step calculates with: the main thread *)

\* What is left of a call for the moduli builds no tableau.
LEMMA RemainingBuildsNothing ==
  ASSUME NEW k \in 0 .. 10
  PROVE  /\ ~Builds(Remaining(k))
         /\ \A method \in AllMethods : ~Ends(Remaining(k), method)
         /\ k # 0 => Remaining(k)[1] \notin {Choose, Replace} \union Installs
<1>1. Len(Remaining(k)) = k /\ \A n \in 1 .. k : Remaining(k)[n] = CallAt(10 - k + n)
  BY RemainingFacts DEF Remaining
<1>2. \A n \in 1 .. 10 : CallAt(n).op = "read" \/ CallAt(n).op = "store"
  BY DEF CallAt, Read, Store
<1>3. ASSUME NEW n \in 1 .. k
      PROVE  Remaining(k)[n] \notin {Choose, Replace} \union Installs
  <2>1. 10 - k + n \in 1 .. 10
    OBVIOUS
  <2>2. Remaining(k)[n].op = "read" \/ Remaining(k)[n].op = "store"
    BY <1>1, <1>2, <2>1
  <2>3. \A a \in {Choose, Replace} \union Installs : a.op # "read" /\ a.op # "store"
    BY DEF Choose, Replace, Installs, InstallOf
  <2> QED
    BY <2>2, <2>3
<1>4. k # 0 => 1 \in 1 .. k /\ k \in 1 .. k
  OBVIOUS
<1>5. ~Builds(Remaining(k))
  BY <1>1, <1>3, <1>4 DEF Builds
<1>6. ASSUME NEW method \in AllMethods PROVE ~Ends(Remaining(k), method)
  <2>1. InstallOf(2, method) \in Installs
    BY InstallFacts
  <2> QED
    BY <1>1, <1>3, <1>4, <2>1 DEF Ends
<1> QED
  BY <1>3, <1>4, <1>5, <1>6

\* Between two calls nothing is left.
LEMMA NothingLeft ==
  /\ Remaining(0) = <<>> /\ ~Builds(<<>>)
  /\ \A method \in AllMethods : ~Ends(<<>>, method)
<1>1. Remaining(0) \in Seq(Accesses) /\ Len(Remaining(0)) = 0
  BY RemainingFacts
<1>2. Remaining(0) = <<>>
  BY <1>1, EmptySeq
<1> QED
  BY <1>2, RemainingBuildsNothing

\* The number of the variable's method is one of a byte.
LEMMA MethodFacts ==
  ASSUME ValuesTyped
  PROVE  /\ MethodOf(variables["integratorMethod"]) \in Nat
         /\ MethodOf(Fallback) = Fallback /\ Fallback \in AllMethods
         /\ Known \subseteq AllMethods /\ Fallback \notin Known
<1>1. variables["integratorMethod"] \in Nat
  BY ValuesFacts DEF ValuesTyped
<1>2. MethodOf(Fallback) = Fallback
  BY DEF MethodOf, Fallback, RungeKuttaFehlberg54
<1> QED
  BY <1>1, <1>2 DEF MethodOf, AllMethods, Known

\* A signal that is taken is for one variable, the others stay.
LEMMA OneLessPosted ==
  ASSUME posted \in Seq(Variables), posted # <<>>, posted' = Tail(posted)
  PROVE  /\ posted' \in Seq(Variables) /\ Head(posted) \in Variables
         /\ \A S : PostedFor(S) => Head(posted) \in S \/ PostedFor(S)'
<1>1. /\ posted' \in Seq(Variables) /\ Len(posted') = Len(posted) - 1
      /\ \A n \in 1 .. Len(posted) - 1 : posted'[n] = posted[n + 1]
      /\ Head(posted) \in Variables /\ Head(posted) = posted[1]
      /\ Len(posted) \in Nat \ {0}
  BY OneLess
<1>2. ASSUME NEW S, PostedFor(S) PROVE Head(posted) \in S \/ PostedFor(S)'
  <2>1. PICK n \in 1 .. Len(posted) : posted[n] \in S
    BY <1>2 DEF PostedFor
  <2>2. CASE n = 1
    BY <1>1, <2>1, <2>2
  <2>3. CASE n # 1
    <3>1. n - 1 \in 1 .. Len(posted) - 1 /\ n - 1 + 1 = n
      BY <1>1, <2>3
    <3>2. n - 1 \in 1 .. Len(posted') /\ posted'[n - 1] \in S
      BY <1>1, <2>1, <3>1
    <3> QED
      BY <3>2 DEF PostedFor
  <2> QED
    BY <2>2, <2>3
<1> QED
  BY <1>1, <1>2

\* A signal is handled.
LEMMA VariableUpdatedKeeps ==
  ASSUME ValuesInv, VariableUpdated
  PROVE  ValuesInv'
<1>1. ValuesTyped /\ StepsCounted /\ MainThread /\ TableauFollows /\ SettingsOnTheirWay
  BY DEF ValuesInv
<1> DEFINE h == Head(posted)
<1>2. /\ todo = <<>> /\ posted # <<>> /\ todo' = Calls(h) /\ posted' = Tail(posted)
      /\ UNCHANGED <<client, sets, asked, toServer, toClient, items, steps, variables,
                     operands, derived, butcherTableau, stage>>
  BY DEF VariableUpdated, clientVars, queueVars
<1>3. posted \in Seq(Variables)
  BY <1>1 DEF ValuesTyped
<1>4. /\ posted' \in Seq(Variables) /\ h \in Variables
      /\ \A S : PostedFor(S) => h \in S \/ PostedFor(S)'
  BY <1>2, <1>3, OneLessPosted
<1> HIDE DEF h
<1>5. /\ \/ PostedFor(SphereModuli)
         \/ IsCurrent("sphereSphereE")
      /\ \/ PostedFor(Moduli)
         \/ IsCurrent("sphereWallE")
      /\ Len(operands) = 0
  <2>1. PICK k \in 0 .. 10 :
          /\ \/ todo = Remaining(k)
             \/ k = 0 /\ Builds(todo)
          /\ Len(operands) = ReadSoFar(k)
          /\ ModuliFollow(k)
    BY <1>1 DEF MainThread
  <2>2. k = 0
    <3>1. Len(todo) = 0
      BY <1>2
    <3> QED
      BY <2>1, <3>1, RemainingFacts
  <2> QED
    BY <2>1, <2>2 DEF ModuliFollow, ReadSoFar
<1>6. /\ IsCurrent("sphereSphereE")' <=> IsCurrent("sphereSphereE")
      /\ IsCurrent("sphereWallE")' <=> IsCurrent("sphereWallE")
  BY <1>2 DEF IsCurrent
<1>7. /\ ReadsAreCurrent("sphereSphereE")' /\ ReadsAreCurrent("sphereWallE")'
      /\ Len(operands') = 0
  BY <1>2, <1>5 DEF ReadsAreCurrent
<1> DEFINE method == MethodOf(variables["integratorMethod"])
<1>8. \/ PostedFor({"integratorMethod"})
      \/ butcherTableau[1] = method /\ butcherTableau[2] = method
  <2>1. Len(todo) = 0
    BY <1>2
  <2> QED
    BY <1>1, <2>1 DEF TableauFollows, Ends
<1>9. method' = method
  BY <1>2 DEF MethodOf
<1> HIDE DEF method
<1>10. h \in SphereModuli \/ h \in Moduli \ SphereModuli \/ h = "integratorMethod"
         \/ h = "maximumTheta"
  BY <1>4 DEF Variables
<1>11. /\ SphereModuli \subseteq Moduli
       /\ "integratorMethod" \notin Moduli /\ "maximumTheta" \notin Moduli
  BY DEF SphereModuli, Moduli
<1>12. CASE h \in Moduli \/ h = "maximumTheta"
  <2>1. PICK k \in 0 .. 10 :
          /\ todo' = Remaining(k) /\ ReadSoFar(k) = 0
          /\ h \in SphereModuli => k = 10
          /\ h \in Moduli \ SphereModuli => k = 5
          /\ h = "maximumTheta" => k = 0
    <3>1. CASE h \in SphereModuli
      BY <1>2, <1>4, <1>11, <3>1, CallsFacts DEF ReadSoFar
    <3>2. CASE h \in Moduli \ SphereModuli
      BY <1>2, <1>4, <1>11, <3>2, CallsFacts DEF ReadSoFar
    <3>3. CASE h = "maximumTheta"
      BY <1>2, <1>4, <1>11, <3>3, CallsFacts, NothingLeft DEF ReadSoFar
    <3> QED
      BY <1>10, <1>11, <1>12, <3>1, <3>2, <3>3
  <2>2. \/ PostedFor(SphereModuli)'
        \/ k >= 6 /\ ReadsAreCurrent("sphereSphereE")'
        \/ k < 6 /\ IsCurrent("sphereSphereE")'
    BY <1>4, <1>5, <1>6, <1>7, <1>11, <1>12, <2>1
  <2>3. \/ PostedFor(Moduli)'
        \/ k >= 6
        \/ k \in 1 .. 5 /\ ReadsAreCurrent("sphereWallE")'
        \/ k = 0 /\ IsCurrent("sphereWallE")'
    BY <1>4, <1>5, <1>6, <1>7, <1>11, <1>12, <2>1
  <2>4. ModuliFollow(k)'
    BY <2>2, <2>3 DEF ModuliFollow
  <2>5. MainThread'
    BY <1>7, <2>1, <2>4 DEF MainThread
  <2>6. todo' \in Seq(Accesses) /\ ~Builds(todo')
    BY <2>1, RemainingFacts, RemainingBuildsNothing
  <2>7. TableauFollows'
    <3>1. \/ PostedFor({"integratorMethod"})'
          \/ butcherTableau'[1] = method' /\ butcherTableau'[2] = method'
      BY <1>2, <1>4, <1>8, <1>9, <1>11, <1>12
    <3> QED
      BY <2>6, <3>1 DEF TableauFollows, method
  <2>8. ValuesTyped'
    BY <1>1, <1>2, <1>4, <2>6 DEF ValuesTyped
  <2>9. StepsCounted' /\ SettingsOnTheirWay'
    BY <1>1, <1>2, StepsStayCounted, SettingsStay
  <2> QED
    BY <2>5, <2>7, <2>8, <2>9 DEF ValuesInv
<1>13. CASE h = "integratorMethod"
  <2>1. todo' = <<Choose>>
    BY <1>2, <1>4, <1>13, CallsFacts
  <2>2. todo' \in Seq(Accesses) /\ Len(todo') = 1 /\ todo'[1] = Choose
    BY <2>1, InstallFacts
  <2>3. Builds(todo')
    BY <2>2, InstallFacts DEF Builds
  <2>4. ModuliFollow(0)'
    <3>1. \/ PostedFor(SphereModuli)'
          \/ IsCurrent("sphereSphereE")'
      BY <1>4, <1>5, <1>6, <1>11, <1>13
    <3>2. \/ PostedFor(Moduli)'
          \/ IsCurrent("sphereWallE")'
      BY <1>4, <1>5, <1>6, <1>11, <1>13
    <3> QED
      BY <3>1, <3>2 DEF ModuliFollow
  <2>5. MainThread'
    BY <1>7, <2>3, <2>4 DEF MainThread, ReadSoFar
  <2>6. TableauFollows'
    BY <2>2 DEF TableauFollows
  <2>7. ValuesTyped'
    BY <1>1, <1>2, <1>4, <2>2 DEF ValuesTyped
  <2>8. StepsCounted' /\ SettingsOnTheirWay'
    BY <1>1, <1>2, StepsStayCounted, SettingsStay
  <2> QED
    BY <2>5, <2>6, <2>7, <2>8 DEF ValuesInv
<1> QED
  BY <1>10, <1>11, <1>12, <1>13

\* Where the main thread is when it reads or stores.
LEMMA ComputingAt ==
  ASSUME ValuesInv, Doing("read") \/ Doing("store")
  PROVE  \E k \in 1 .. 10 :
           /\ todo = Remaining(k) /\ Head(todo) = CallAt(11 - k)
           /\ Tail(todo) = Remaining(k - 1)
           /\ Len(operands) = ReadSoFar(k)
           /\ ModuliFollow(k)
<1>1. PICK k \in 0 .. 10 :
        /\ \/ todo = Remaining(k)
           \/ k = 0 /\ Builds(todo)
        /\ Len(operands) = ReadSoFar(k)
        /\ ModuliFollow(k)
  BY DEF ValuesInv, MainThread
<1>2. todo \in Seq(Accesses) /\ todo # <<>>
  BY DEF ValuesInv, ValuesTyped, Doing
<1>3. Head(todo) = todo[1] /\ Head(todo) \in Accesses
  BY <1>2, OneLess
<1>4. ~Builds(todo)
  <2>1. \A a \in {Choose, Replace} \union Installs : a.op # "read" /\ a.op # "store"
    BY DEF Choose, Replace, Installs, InstallOf
  <2>2. todo[1] \notin {Choose, Replace} \union Installs
    BY <1>3, <2>1 DEF Doing
  <2> QED
    BY <2>2 DEF Builds
<1>5. todo = Remaining(k) /\ k # 0
  BY <1>1, <1>2, <1>4, NothingLeft
<1>6. Head(todo) = CallAt(11 - k) /\ Tail(todo) = Remaining(k - 1) /\ k \in 1 .. 10
  <2>1. Head(Remaining(k)) = CallAt(11 - k) /\ Tail(Remaining(k)) = Remaining(k - 1)
    BY <1>5, RemainingFacts
  <2> QED
    BY <1>5, <2>1
<1> QED
  BY <1>1, <1>5, <1>6

\* While moduli are computed the tableau is what it was.
LEMMA TableauStaysInCall ==
  ASSUME ValuesInv, NEW k \in 1 .. 10, todo = Remaining(k), todo' = Remaining(k - 1),
         UNCHANGED <<posted, butcherTableau, variables>>
  PROVE  TableauFollows'
<1> DEFINE method == MethodOf(variables["integratorMethod"])
<1>1. /\ ~Builds(todo) /\ todo[1] \notin {Choose, Replace} \union Installs
      /\ \A m \in AllMethods : ~Ends(todo, m)
      /\ k \in 0 .. 10 /\ k - 1 \in 0 .. 10
  BY RemainingBuildsNothing
<1>2. ~Builds(todo')
  BY <1>1, RemainingBuildsNothing
<1>3. \A m : m \notin AllMethods => ~Ends(todo, m)
  <2>1. ASSUME NEW m, Ends(todo, m) PROVE m \in AllMethods
    <3>1. Len(todo) = k /\ k >= 2 /\ todo[k] = InstallOf(2, m)
      BY <1>1, <2>1, RemainingFacts DEF Ends
    <3>2. todo[k].op = "install"
      BY <3>1 DEF InstallOf
    <3>3. todo[k] = CallAt(10)
      BY <3>1 DEF Remaining
    <3>4. CallAt(10).op = "store"
      BY DEF CallAt, Store
    <3> QED
      BY <3>2, <3>3, <3>4
  <2> QED
    BY <2>1
<1>4. \/ PostedFor({"integratorMethod"})
      \/ butcherTableau[1] = method /\ butcherTableau[2] = method
  <2>1. todo[1] # InstallOf(2, method)
    <3>1. InstallOf(2, method).op = "install"
      BY DEF InstallOf
    <3>2. todo[1] = CallAt(10 - k + 1) /\ 10 - k + 1 \in 1 .. 10
      BY DEF Remaining
    <3>3. \A n \in 1 .. 10 : CallAt(n).op = "read" \/ CallAt(n).op = "store"
      BY DEF CallAt, Read, Store
    <3> QED
      BY <3>1, <3>2, <3>3
  <2> QED
    BY <1>1, <1>3, <2>1 DEF ValuesInv, TableauFollows
<1>5. PostedFor({"integratorMethod"})' <=> PostedFor({"integratorMethod"})
  BY DEF PostedFor
<1> QED
  BY <1>2, <1>4, <1>5 DEF TableauFollows, MethodOf

\* A variable is read for the value that is computed.
LEMMA ReadKeeps ==
  ASSUME ValuesInv, ReadVariable
  PROVE  ValuesInv'
<1>1. ValuesTyped /\ StepsCounted /\ SettingsOnTheirWay
  BY DEF ValuesInv
<1>2. /\ Doing("read") /\ todo' = Tail(todo)
      /\ operands' = Append(operands, variables[Head(todo).var])
      /\ UNCHANGED <<client, sets, asked, toServer, toClient, items, steps, variables, posted,
                     derived, butcherTableau, stage>>
  BY DEF ReadVariable, clientVars, queueVars
<1>3. PICK k \in 1 .. 10 :
        /\ todo = Remaining(k) /\ Head(todo) = CallAt(11 - k) /\ Tail(todo) = Remaining(k - 1)
        /\ Len(operands) = ReadSoFar(k)
        /\ ModuliFollow(k)
  BY <1>2, ComputingAt
<1> DEFINE what == IF k >= 6 THEN "sphereSphereE" ELSE "sphereWallE"
           n == ReadSoFar(k) + 1
           x == variables[ReadsOf(what)[n]]
<1>4. k \in 7 .. 10 \/ k \in 2 .. 5
  <2>1. Head(todo).op = "read" /\ Store("sphereSphereE").op = "store"
        /\ Store("sphereWallE").op = "store"
    BY <1>2 DEF Doing, Store
  <2>2. k # 6 /\ k # 1
    <3>1. k = 6 => CallAt(11 - k) = Store("sphereSphereE")
      BY CallAtFacts
    <3>2. k = 1 => CallAt(11 - k) = Store("sphereWallE")
      BY CallAtFacts
    <3> QED
      BY <1>3, <2>1, <3>1, <3>2
  <2> QED
    BY <2>2
<1>5. Head(todo) = Read(ReadsOf(what)[n]) /\ n \in 1 .. 4
  <2>1. CASE k \in 7 .. 10
    <3>1. 11 - k \in 1 .. 4 /\ 11 - k \in 1 .. 10 /\ n = 11 - k /\ what = "sphereSphereE"
      BY <2>1 DEF ReadSoFar
    <3> HIDE DEF n, what
    <3> QED
      BY <1>3, <3>1, CallAtFacts
  <2>2. CASE k \in 2 .. 5
    <3>1. 11 - k \in 6 .. 9 /\ 11 - k \in 1 .. 10 /\ n = 11 - k - 5 /\ n \in 1 .. 4
          /\ what = "sphereWallE"
      BY <2>2 DEF ReadSoFar
    <3> HIDE DEF n, what
    <3> QED
      BY <1>3, <3>1, CallAtFacts
  <2> QED
    BY <1>4, <2>1, <2>2
<1>6. operands' = Append(operands, x) /\ x \in Values
  <2>1. Read(ReadsOf(what)[n]).var = ReadsOf(what)[n]
    BY DEF Read
  <2>2. ReadsOf(what)[n] \in Variables
    BY <1>5, ReadsFacts
  <2> HIDE DEF what, n
  <2> QED
    BY <1>1, <1>2, <1>5, <2>1, <2>2 DEF ValuesTyped
<1>7. operands \in Seq(Values)
  BY <1>1 DEF ValuesTyped
<1>8. k - 1 \in 1 .. 10 /\ ReadSoFar(k - 1) = n /\ ReadSoFar(k) \in 0 .. 4
  BY <1>4 DEF ReadSoFar
<1>9. what \in {"sphereSphereE", "sphereWallE"} /\ (k >= 6 <=> what = "sphereSphereE")
      /\ (k < 6 <=> what = "sphereWallE") /\ (k >= 6 <=> k - 1 >= 6)
  BY <1>4
<1>10. /\ operands' \in Seq(Values) /\ Len(operands') = n
       /\ \A i \in 1 .. ReadSoFar(k) : operands'[i] = operands[i]
       /\ operands'[n] = x
  BY <1>3, <1>6, <1>7, OneMore
<1>11. n = ReadSoFar(k) + 1
  OBVIOUS
<1>12. x = variables[ReadsOf(what)[n]]
  OBVIOUS
<1> HIDE DEF what, n, x
<1>13. ReadsAreCurrent(what) => ReadsAreCurrent(what)'
  <2> SUFFICES ASSUME ReadsAreCurrent(what), NEW i \in 1 .. Len(operands')
               PROVE  operands'[i] = variables'[ReadsOf(what)[i]]
    BY DEF ReadsAreCurrent
  <2>1. i \in 1 .. ReadSoFar(k) \/ i = n
    BY <1>5, <1>8, <1>10, <1>11
  <2>2. CASE i \in 1 .. ReadSoFar(k)
    BY <1>2, <1>3, <1>10, <2>2 DEF ReadsAreCurrent
  <2>3. CASE i = n
    BY <1>2, <1>10, <1>12, <2>3
  <2> QED
    BY <2>1, <2>2, <2>3
<1>14. \A S : PostedFor(S)' <=> PostedFor(S)
  BY <1>2 DEF PostedFor
<1>15. IsCurrent("sphereSphereE")' <=> IsCurrent("sphereSphereE")
  BY <1>2 DEF IsCurrent
<1>16. ModuliFollow(k - 1)'
  <2>1. \/ PostedFor(SphereModuli)'
        \/ k - 1 >= 6 /\ ReadsAreCurrent("sphereSphereE")'
        \/ k - 1 < 6 /\ IsCurrent("sphereSphereE")'
    BY <1>3, <1>4, <1>9, <1>13, <1>14, <1>15 DEF ModuliFollow
  <2>2. \/ PostedFor(Moduli)'
        \/ k - 1 >= 6
        \/ k - 1 \in 1 .. 5 /\ ReadsAreCurrent("sphereWallE")'
    BY <1>3, <1>4, <1>9, <1>13, <1>14 DEF ModuliFollow
  <2> QED
    BY <2>1, <2>2 DEF ModuliFollow
<1>17. MainThread'
  <2>1. k - 1 \in 0 .. 10 /\ todo' = Remaining(k - 1) /\ Len(operands') = ReadSoFar(k - 1)
    BY <1>2, <1>3, <1>8, <1>10
  <2> QED
    BY <1>16, <2>1 DEF MainThread
<1>18. TableauFollows'
  BY <1>2, <1>3, TableauStaysInCall
<1>19. ValuesTyped'
  <2>1. todo' \in Seq(Accesses)
    <3>1. k - 1 \in 0 .. 10 /\ todo' = Remaining(k - 1)
      BY <1>2, <1>3
    <3> QED
      BY <3>1, RemainingFacts
  <2> QED
    BY <1>1, <1>2, <1>10, <2>1 DEF ValuesTyped
<1>20. StepsCounted' /\ SettingsOnTheirWay'
  BY <1>1, <1>2, StepsStayCounted, SettingsStay
<1> QED
  BY <1>17, <1>18, <1>19, <1>20 DEF ValuesInv

\* A value is stored when all it is computed from was read.
LEMMA StoreKeeps ==
  ASSUME ValuesInv, StoreModulus
  PROVE  ValuesInv'
<1>1. ValuesTyped /\ StepsCounted /\ SettingsOnTheirWay
  BY DEF ValuesInv
<1>2. /\ Doing("store") /\ todo' = Tail(todo) /\ operands' = <<>>
      /\ derived' = [derived EXCEPT ![Head(todo).what] = operands]
      /\ UNCHANGED <<client, sets, asked, toServer, toClient, items, steps, variables, posted,
                     butcherTableau, stage>>
  BY DEF StoreModulus, clientVars, queueVars
<1>3. PICK k \in 1 .. 10 :
        /\ todo = Remaining(k) /\ Head(todo) = CallAt(11 - k) /\ Tail(todo) = Remaining(k - 1)
        /\ Len(operands) = ReadSoFar(k)
        /\ ModuliFollow(k)
  BY <1>2, ComputingAt
<1>4. k = 6 \/ k = 1
  <2>1. Head(todo).op = "store"
    BY <1>2 DEF Doing
  <2>2. \A var : Read(var).op = "read"
    BY DEF Read
  <2>3. k \in 7 .. 10 => CallAt(11 - k) = Read(ReadsOf("sphereSphereE")[11 - k])
    <3>1. k \in 7 .. 10 => 11 - k \in 1 .. 4 /\ 11 - k \in 1 .. 10
      OBVIOUS
    <3> QED
      BY <3>1, CallAtFacts
  <2>4. k \in 2 .. 5 => CallAt(11 - k) = Read(ReadsOf("sphereWallE")[11 - k - 5])
    <3>1. k \in 2 .. 5 => 11 - k \in 6 .. 9 /\ 11 - k \in 1 .. 10
      OBVIOUS
    <3> QED
      BY <3>1, CallAtFacts
  <2>5. k \in 7 .. 10 \/ k = 6 \/ k \in 2 .. 5 \/ k = 1
    OBVIOUS
  <2> QED
    BY <1>3, <2>1, <2>2, <2>3, <2>4, <2>5
<1> DEFINE what == IF k = 6 THEN "sphereSphereE" ELSE "sphereWallE"
<1>5. Head(todo).what = what /\ what \in Modulus
  <2>1. \A w : Store(w).what = w
    BY DEF Store
  <2>2. CASE k = 6
    <3>1. CallAt(11 - k) = Store("sphereSphereE")
      BY <2>2, CallAtFacts
    <3> QED
      BY <1>3, <2>1, <2>2, <3>1 DEF Modulus
  <2>3. CASE k = 1
    <3>1. CallAt(11 - k) = Store("sphereWallE")
      BY <2>3, CallAtFacts
    <3> QED
      BY <1>3, <2>1, <2>3, <3>1 DEF Modulus
  <2> QED
    BY <1>4, <2>2, <2>3
<1>6. /\ derived \in [Modulus -> Seq(Values)] /\ \A w \in Modulus : Len(derived[w]) = 4
      /\ operands \in Seq(Values) /\ Len(operands) = 4
  BY <1>1, <1>3, <1>4 DEF ValuesTyped, ReadSoFar
<1>7. /\ derived' \in [Modulus -> Seq(Values)] /\ derived'[what] = operands
      /\ \A w \in Modulus : w # what => derived'[w] = derived[w]
  BY <1>2, <1>5, <1>6
<1>8. \A S : PostedFor(S)' <=> PostedFor(S)
  BY <1>2 DEF PostedFor
<1>9. what = "sphereSphereE" <=> k = 6
  OBVIOUS
<1>10. what = "sphereWallE" <=> k # 6
  OBVIOUS
<1> HIDE DEF what
<1>11. ReadsAreCurrent(what) => IsCurrent(what)'
  BY <1>2, <1>6, <1>7 DEF ReadsAreCurrent, IsCurrent
<1>12. ReadsAreCurrent("sphereWallE")' /\ Len(operands') = 0
  BY <1>2 DEF ReadsAreCurrent
<1>13. ModuliFollow(k - 1)'
  <2>1. CASE k = 6
    <3>1. \/ PostedFor(SphereModuli)'
          \/ IsCurrent("sphereSphereE")'
      BY <1>3, <1>8, <1>9, <1>11, <2>1 DEF ModuliFollow
    <3> QED
      BY <1>12, <2>1, <3>1 DEF ModuliFollow
  <2>2. CASE k = 1
    <3>1. IsCurrent("sphereSphereE")' <=> IsCurrent("sphereSphereE")
      <4>1. derived'["sphereSphereE"] = derived["sphereSphereE"]
        BY <1>7, <1>9, <2>2 DEF Modulus
      <4> QED
        BY <1>2, <4>1 DEF IsCurrent
    <3>2. \/ PostedFor(SphereModuli)'
          \/ IsCurrent("sphereSphereE")'
      BY <1>3, <1>8, <2>2, <3>1 DEF ModuliFollow
    <3>3. \/ PostedFor(Moduli)'
          \/ IsCurrent("sphereWallE")'
      BY <1>3, <1>8, <1>10, <1>11, <2>2 DEF ModuliFollow
    <3> QED
      BY <2>2, <3>2, <3>3 DEF ModuliFollow
  <2> QED
    BY <1>4, <2>1, <2>2
<1>14. MainThread'
  <2>1. k - 1 \in 0 .. 10 /\ ReadSoFar(k - 1) = 0 /\ todo' = Remaining(k - 1)
    BY <1>2, <1>3, <1>4 DEF ReadSoFar
  <2> QED
    BY <1>12, <1>13, <2>1 DEF MainThread
<1>15. TableauFollows'
  BY <1>2, <1>3, TableauStaysInCall
<1>16. ValuesTyped'
  <2>1. todo' \in Seq(Accesses) /\ operands' \in Seq(Values)
    <3>1. k - 1 \in 0 .. 10 /\ todo' = Remaining(k - 1)
      BY <1>2, <1>3
    <3> QED
      BY <1>2, <3>1, RemainingFacts, EmptySeq
  <2>2. \A w \in Modulus : Len(derived'[w]) = 4
    BY <1>6, <1>7
  <2> QED
    BY <1>1, <1>2, <1>7, <2>1, <2>2 DEF ValuesTyped
<1>17. StepsCounted' /\ SettingsOnTheirWay'
  BY <1>1, <1>2, StepsStayCounted, SettingsStay
<1> QED
  BY <1>14, <1>15, <1>16, <1>17 DEF ValuesInv

\* Another access in front of a call that builds the tableau.
LEMMA InFront ==
  ASSUME NEW e \in Accesses, NEW s \in Seq(Accesses)
  PROVE  /\ <<e>> \o s \in Seq(Accesses) /\ Len(<<e>> \o s) = Len(s) + 1 /\ Len(s) \in Nat
         /\ (<<e>> \o s)[1] = e
         /\ \A n \in 1 .. Len(s) : (<<e>> \o s)[n + 1] = s[n]
<1>1. <<e>> \in Seq(Accesses) /\ Len(<<e>>) = 1 /\ <<e>>[1] = e /\ Len(s) \in Nat
  OBVIOUS
<1>2. /\ <<e>> \o s \in Seq(Accesses) /\ Len(<<e>> \o s) = Len(<<e>>) + Len(s)
      /\ \A n \in 1 .. Len(<<e>>) + Len(s) :
           (<<e>> \o s)[n] = IF n <= Len(<<e>>) THEN <<e>>[n] ELSE s[n - Len(<<e>>)]
  BY <1>1, ConcatProperties
<1>3. /\ Len(<<e>> \o s) = Len(s) + 1
      /\ \A n \in 1 .. Len(s) + 1 : (<<e>> \o s)[n] = IF n <= 1 THEN <<e>>[n] ELSE s[n - 1]
  BY <1>1, <1>2
<1> HIDE <1>2
<1>4. (<<e>> \o s)[1] = e
  <2>1. 1 \in 1 .. Len(s) + 1
    BY <1>1
  <2> QED
    BY <1>1, <1>3, <2>1
<1>5. ASSUME NEW n \in 1 .. Len(s) PROVE (<<e>> \o s)[n + 1] = s[n]
  <2>1. n + 1 \in 1 .. Len(s) + 1 /\ ~(n + 1 <= 1) /\ n + 1 - 1 = n
    BY <1>1
  <2> QED
    BY <1>3, <2>1
<1> QED
  BY <1>1, <1>2, <1>3, <1>4, <1>5

\* Installing a method in front of what is left.
LEMMA InstallInFront ==
  ASSUME NEW method \in AllMethods, NEW s \in Seq(Accesses)
  PROVE  /\ Install(method) \o s \in Seq(Accesses)
         /\ Len(Install(method) \o s) = Len(s) + 2 /\ Len(s) \in Nat
         /\ (Install(method) \o s)[1] = InstallOf(1, method)
         /\ (Install(method) \o s)[2] = InstallOf(2, method)
         /\ \A n \in 1 .. Len(s) : (Install(method) \o s)[n + 2] = s[n]
<1> DEFINE p == Install(method)
<1>1. /\ p \in Seq(Accesses) /\ Len(p) = 2 /\ Len(s) \in Nat
      /\ p[1] = InstallOf(1, method) /\ p[2] = InstallOf(2, method)
  BY InstallFacts
<1> HIDE DEF p
<1>2. /\ p \o s \in Seq(Accesses) /\ Len(p \o s) = Len(p) + Len(s)
      /\ \A n \in 1 .. Len(p) + Len(s) :
           (p \o s)[n] = IF n <= Len(p) THEN p[n] ELSE s[n - Len(p)]
  BY <1>1, ConcatProperties
<1>3. /\ Len(p \o s) = Len(s) + 2
      /\ \A n \in 1 .. Len(s) + 2 : (p \o s)[n] = IF n <= 2 THEN p[n] ELSE s[n - 2]
  BY <1>1, <1>2
<1>4. (p \o s)[1] = InstallOf(1, method) /\ (p \o s)[2] = InstallOf(2, method)
  <2>1. 1 \in 1 .. Len(s) + 2 /\ 2 \in 1 .. Len(s) + 2 /\ 1 <= 2 /\ 2 <= 2
    BY <1>1
  <2> QED
    BY <1>1, <1>3, <2>1
<1>5. ASSUME NEW n \in 1 .. Len(s) PROVE (p \o s)[n + 2] = s[n]
  <2>1. n + 2 \in 1 .. Len(s) + 2 /\ ~(n + 2 <= 2) /\ n + 2 - 2 = n
    BY <1>1
  <2> QED
    BY <1>3, <2>1
<1> QED
  BY <1>1, <1>2, <1>3, <1>4, <1>5 DEF p

\* What follows the first access of a call that builds the tableau.
LEMMA RestOfBuilding ==
  ASSUME NEW s \in Seq(Accesses), Builds(s)
  PROVE  /\ Tail(s) \in Seq(Accesses) /\ Len(Tail(s)) = Len(s) - 1
         /\ Len(s) \in Nat \ {0} /\ Head(s) = s[1]
         /\ \A n \in 1 .. Len(s) - 1 : Tail(s)[n] = s[n + 1] /\ s[n + 1] \in Installs
         /\ \A method : Len(s) >= 3 /\ Ends(s, method) => Ends(Tail(s), method)
         /\ s[1] \in {Choose, Replace} =>
              \A method : Ends(s, method) => Len(s) >= 3
<1>1. s # <<>>
  BY DEF Builds
<1>2. /\ Tail(s) \in Seq(Accesses) /\ Len(Tail(s)) = Len(s) - 1
      /\ Len(s) \in Nat \ {0} /\ Head(s) = s[1]
      /\ \A n \in 1 .. Len(s) - 1 : Tail(s)[n] = s[n + 1]
  BY <1>1, OneLess
<1>3. ASSUME NEW n \in 1 .. Len(s) - 1 PROVE s[n + 1] \in Installs
  <2>1. n + 1 \in 2 .. Len(s)
    BY <1>2
  <2> QED
    BY <2>1 DEF Builds
<1>4. ASSUME NEW method, Len(s) >= 3, Ends(s, method) PROVE Ends(Tail(s), method)
  <2>1. /\ Len(s) - 1 \in 1 .. Len(s) - 1 /\ Len(s) - 2 \in 1 .. Len(s) - 1
        /\ Len(s) - 1 + 1 = Len(s) /\ Len(s) - 2 + 1 = Len(s) - 1
        /\ Len(s) - 1 - 1 = Len(s) - 2 /\ Len(s) - 1 >= 2
    BY <1>2, <1>4
  <2>2. Tail(s)[Len(s) - 1] = s[Len(s)] /\ Tail(s)[Len(s) - 2] = s[Len(s) - 1]
    BY <1>2, <2>1
  <2> QED
    BY <1>2, <1>4, <2>1, <2>2 DEF Ends
<1>5. ASSUME s[1] \in {Choose, Replace}, NEW method, Ends(s, method) PROVE Len(s) >= 3
  <2>1. Len(s) >= 2 /\ (Len(s) = 2 => s[1] = InstallOf(1, method))
    BY <1>5 DEF Ends
  <2>2. InstallOf(1, method).op = "install" /\ Choose.op = "choose" /\ Replace.op = "replace"
    BY DEF InstallOf, Choose, Replace
  <2>3. Len(s) # 2
    BY <1>5, <2>1, <2>2
  <2> QED
    BY <1>2, <2>1, <2>3
<1> QED
  BY <1>2, <1>3, <1>4, <1>5

\* A call that goes on in front of what is left ends as that does, or as it does itself.
LEMMA EndsInFront ==
  ASSUME NEW s \in Seq(Accesses)
  PROVE  /\ \A e \in Accesses : \A m : Ends(s, m) => Ends(<<e>> \o s, m)
         /\ \A x \in AllMethods : \A m : Ends(s, m) => Ends(Install(x) \o s, m)
         /\ \A x \in AllMethods : s = <<>> => Ends(Install(x) \o s, x)
<1>1. ASSUME NEW e \in Accesses, NEW m, Ends(s, m) PROVE Ends(<<e>> \o s, m)
  <2> DEFINE t == <<e>> \o s
             l == Len(s)
  <2>1. Len(t) = l + 1 /\ l \in Nat /\ \A n \in 1 .. l : t[n + 1] = s[n]
    BY InFront
  <2>2. l >= 2 /\ s[l - 1] = InstallOf(1, m) /\ s[l] = InstallOf(2, m)
    BY <1>1 DEF Ends
  <2> HIDE DEF t, l
  <2>3. l \in 1 .. l /\ l - 1 \in 1 .. l /\ l - 1 + 1 = l /\ l + 1 - 1 = l /\ l + 1 >= 2
    BY <2>1, <2>2
  <2>4. t[l + 1] = InstallOf(2, m) /\ t[l] = InstallOf(1, m)
    BY <2>1, <2>2, <2>3
  <2>5. Ends(t, m)
    BY <2>1, <2>3, <2>4 DEF Ends
  <2> QED
    BY <2>5 DEF t
<1>2. ASSUME NEW x \in AllMethods, NEW m, Ends(s, m) PROVE Ends(Install(x) \o s, m)
  <2> DEFINE t == Install(x) \o s
             l == Len(s)
  <2>1. Len(t) = l + 2 /\ l \in Nat /\ \A n \in 1 .. l : t[n + 2] = s[n]
    BY InstallInFront
  <2>2. l >= 2 /\ s[l - 1] = InstallOf(1, m) /\ s[l] = InstallOf(2, m)
    BY <1>2 DEF Ends
  <2> HIDE DEF t, l
  <2>3. /\ l \in 1 .. l /\ l - 1 \in 1 .. l /\ l - 1 + 2 = l + 1 /\ l + 2 - 1 = l + 1
        /\ l + 2 >= 2
    BY <2>1, <2>2
  <2>4. t[l + 2] = InstallOf(2, m) /\ t[l + 1] = InstallOf(1, m)
    BY <2>1, <2>2, <2>3
  <2>5. Ends(t, m)
    BY <2>1, <2>3, <2>4 DEF Ends
  <2> QED
    BY <2>5 DEF t
<1>3. ASSUME NEW x \in AllMethods, s = <<>> PROVE Ends(Install(x) \o s, x)
  <2>1. Len(s) = 0
    BY <1>3
  <2>2. /\ Len(Install(x) \o s) = 2
        /\ (Install(x) \o s)[1] = InstallOf(1, x) /\ (Install(x) \o s)[2] = InstallOf(2, x)
    <3>1. /\ Len(Install(x) \o s) = Len(s) + 2
          /\ (Install(x) \o s)[1] = InstallOf(1, x) /\ (Install(x) \o s)[2] = InstallOf(2, x)
      BY InstallInFront
    <3> QED
      BY <2>1, <3>1
  <2> QED
    BY <2>2 DEF Ends
<1> QED
  BY <1>1, <1>2, <1>3

\* Such a call builds the tableau.
LEMMA BuildsInFront ==
  ASSUME NEW s \in Seq(Accesses), \A n \in 1 .. Len(s) : s[n] \in Installs,
         s = <<>> \/ Ends(s, Fallback)
  PROVE  /\ \A e \in {Choose, Replace} : Builds(<<e>> \o s)
         /\ \A x \in AllMethods : Builds(Install(x) \o s)
<1>1. ASSUME NEW e \in {Choose, Replace} PROVE Builds(<<e>> \o s)
  <2> DEFINE t == <<e>> \o s
             l == Len(s)
  <2>1. e \in Accesses
    BY InstallFacts
  <2>2. /\ Len(t) = l + 1 /\ l \in Nat /\ t[1] = e
        /\ \A n \in 1 .. l : t[n + 1] = s[n]
    BY <2>1, InFront
  <2>3. s = <<>> => l = 0
    OBVIOUS
  <2>4. Ends(s, Fallback) => Ends(t, Fallback)
    BY <2>1, EndsInFront
  <2> HIDE DEF t
  <2>5. ASSUME NEW n \in 2 .. Len(t) PROVE t[n] \in Installs
    <3>1. n - 1 \in 1 .. l /\ n - 1 + 1 = n
      BY <2>2
    <3> QED
      BY <2>2, <3>1
  <2> HIDE DEF l
  <2>6. t[1] \in {Choose, Replace} /\ t[1] \notin Installs /\ Len(t) >= 1
    BY <2>2, InstallFacts
  <2>7. Len(t) = 1 \/ Ends(t, Fallback)
    BY <2>2, <2>3, <2>4
  <2>8. Builds(t)
    BY <2>5, <2>6, <2>7 DEF Builds
  <2> QED
    BY <2>8 DEF t
<1>2. ASSUME NEW x \in AllMethods PROVE Builds(Install(x) \o s)
  <2> DEFINE t == Install(x) \o s
             l == Len(s)
  <2>1. /\ Len(t) = l + 2 /\ l \in Nat
        /\ t[1] = InstallOf(1, x) /\ t[2] = InstallOf(2, x)
        /\ \A n \in 1 .. l : t[n + 2] = s[n]
    BY InstallInFront
  <2>2. \E m \in AllMethods : Ends(t, m)
    <3>1. Fallback \in AllMethods
      BY DEF AllMethods
    <3> QED
      BY <3>1, EndsInFront
  <2>3. InstallOf(1, x) \in Installs /\ InstallOf(2, x) \in Installs
    BY InstallFacts
  <2> HIDE DEF t
  <2>4. ASSUME NEW n \in 2 .. Len(t) PROVE t[n] \in Installs
    <3>1. CASE n = 2
      BY <2>1, <2>3, <3>1
    <3>2. CASE n # 2
      <4>1. n - 2 \in 1 .. l /\ n - 2 + 2 = n
        BY <2>1, <3>2
      <4> QED
        BY <2>1, <4>1
    <3> QED
      BY <3>1, <3>2
  <2>5. t[1] \in Installs /\ t[1] \notin {Choose, Replace} /\ Len(t) >= 1
    BY <2>1, <2>3, InstallFacts
  <2>6. Builds(t)
    BY <2>2, <2>4, <2>5 DEF Builds
  <2> QED
    BY <2>6 DEF t
<1> QED
  BY <1>1, <1>2

\* What the main thread knows when it builds the tableau.
LEMMA BuildingAt ==
  ASSUME ValuesInv, Doing("choose") \/ Doing("replace") \/ Doing("install")
  PROVE  /\ todo \in Seq(Accesses) /\ Builds(todo)
         /\ Len(operands) = 0 /\ ModuliFollow(0)
         /\ Doing("choose") => todo[1] = Choose
         /\ Doing("replace") => todo[1] = Replace
         /\ Doing("install") => todo[1] \in Installs
<1>1. PICK k \in 0 .. 10 :
        /\ \/ todo = Remaining(k)
           \/ k = 0 /\ Builds(todo)
        /\ Len(operands) = ReadSoFar(k)
        /\ ModuliFollow(k)
  BY DEF ValuesInv, MainThread
<1>2. todo \in Seq(Accesses) /\ todo # <<>>
  BY DEF ValuesInv, ValuesTyped, Doing
<1>3. Head(todo) = todo[1] /\ Head(todo) \in Accesses
  BY <1>2, OneLess
<1>4. /\ Doing("choose") => todo[1] = Choose
      /\ Doing("replace") => todo[1] = Replace
      /\ Doing("install") => todo[1] \in Installs
  BY <1>3, AccessFacts DEF Doing
<1>5. todo # Remaining(k)
  BY <1>2, <1>4, NothingLeft, RemainingBuildsNothing
<1>6. k = 0 /\ Builds(todo)
  BY <1>1, <1>5
<1> QED
  BY <1>1, <1>2, <1>4, <1>6 DEF ReadSoFar

\* Where the tableau is not touched, the call goes on building it.
LEMMA BuildingGoesOn ==
  ASSUME ValuesInv, ModuliFollow(0), Len(operands) = 0,
         Builds(todo') \/ todo' = <<>>,
         UNCHANGED <<posted, operands, derived>>,
         \A var \in Moduli : variables'[var] = variables[var]
  PROVE  MainThread'
<1>1. /\ IsCurrent("sphereSphereE")' <=> IsCurrent("sphereSphereE")
      /\ IsCurrent("sphereWallE")' <=> IsCurrent("sphereWallE")
  BY ReadsFacts DEF IsCurrent
<1>2. \A S : PostedFor(S)' <=> PostedFor(S)
  BY DEF PostedFor
<1>3. ModuliFollow(0)'
  BY <1>1, <1>2 DEF ModuliFollow
<1>4. todo' = Remaining(0) \/ Builds(todo')
  BY NothingLeft
<1> QED
  BY <1>3, <1>4 DEF MainThread, ReadSoFar

\* The method is read and looked for.
LEMMA ChooseKeeps ==
  ASSUME ValuesInv, ChooseMethod
  PROVE  ValuesInv'
<1>1. ValuesTyped /\ StepsCounted /\ TableauFollows /\ SettingsOnTheirWay
  BY DEF ValuesInv
<1> DEFINE method == MethodOf(variables["integratorMethod"])
           rest == Tail(todo)
<1>2. /\ Doing("choose")
      /\ todo' = (IF method \in Known THEN Install(method) ELSE <<Replace>>) \o rest
      /\ UNCHANGED <<client, sets, asked, toServer, toClient, items, steps, variables, posted,
                     operands, derived, butcherTableau, stage>>
  BY DEF ChooseMethod, clientVars, queueVars
<1>3. /\ todo \in Seq(Accesses) /\ Builds(todo) /\ todo[1] = Choose
      /\ Len(operands) = 0 /\ ModuliFollow(0)
  BY <1>2, BuildingAt
<1>4. /\ rest \in Seq(Accesses) /\ Len(rest) = Len(todo) - 1 /\ Len(todo) \in Nat \ {0}
      /\ \A n \in 1 .. Len(todo) - 1 : rest[n] = todo[n + 1] /\ todo[n + 1] \in Installs
      /\ \A m : Ends(todo, m) => Ends(rest, m)
  BY <1>3, RestOfBuilding
<1>5. method \in Known => method \in AllMethods
  BY DEF AllMethods
<1>6. method' = method
  BY <1>2 DEF MethodOf
<1>7. /\ rest = <<>> \/ Ends(rest, Fallback)
      /\ \/ PostedFor({"integratorMethod"})
         \/ rest = <<>> \/ Ends(rest, method)
  <2>1. Len(todo) = 1 => rest = <<>>
    <3>1. Len(todo) = 1 => Len(rest) = 0
      BY <1>4
    <3> HIDE DEF rest
    <3> QED
      BY <1>4, <3>1, EmptySeq
  <2>2. Len(todo) = 1 \/ Ends(todo, Fallback)
    BY <1>3 DEF Builds
  <2>3. \/ PostedFor({"integratorMethod"})
        \/ Len(todo) = 1 \/ Ends(todo, method)
    BY <1>1, <1>3 DEF TableauFollows
  <2> QED
    BY <1>4, <2>1, <2>2, <2>3
<1>8. \A n \in 1 .. Len(rest) : rest[n] \in Installs
  BY <1>4
<1>9. PostedFor({"integratorMethod"})' <=> PostedFor({"integratorMethod"})
  BY <1>2 DEF PostedFor
<1>10. TableauFollows' <=>
         \/ PostedFor({"integratorMethod"})'
         \/ ~Builds(todo') /\ butcherTableau'[1] = method' /\ butcherTableau'[2] = method'
         \/ Len(todo') = 1 /\ todo'[1] \in {Choose, Replace}
         \/ Len(todo') = 1 /\ todo'[1] = InstallOf(2, method') /\ butcherTableau'[1] = method'
         \/ Ends(todo', method')
  BY DEF TableauFollows
<1> HIDE DEF method, rest
<1>11. CASE method \in Known
  <2>1. todo' = Install(method) \o rest
    BY <1>2, <1>11
  <2>2. Builds(todo') /\ todo' \in Seq(Accesses)
    BY <1>4, <1>5, <1>7, <1>8, <1>11, <2>1, BuildsInFront, InstallInFront
  <2>3. PostedFor({"integratorMethod"}) \/ Ends(todo', method)
    BY <1>4, <1>5, <1>7, <1>11, <2>1, EndsInFront
  <2> QED
    BY <2>2, <2>3, <1>1, <1>2, <1>3, <1>6, <1>9, <1>10, BuildingGoesOn, StepsStayCounted,
       SettingsStay DEF ValuesInv, ValuesTyped
<1>12. CASE method \notin Known
  <2>1. todo' = <<Replace>> \o rest
    BY <1>2, <1>12
  <2>2. /\ Builds(todo') /\ todo' \in Seq(Accesses) /\ Len(todo') = Len(rest) + 1
        /\ todo'[1] = Replace
    BY <1>4, <1>7, <1>8, <2>1, BuildsInFront, InFront, InstallFacts
  <2>3. \/ PostedFor({"integratorMethod"})
        \/ Len(todo') = 1 /\ todo'[1] \in {Choose, Replace}
        \/ Ends(todo', method)
    <3>1. rest = <<>> => Len(rest) = 0
      OBVIOUS
    <3>2. Ends(rest, method) => Ends(todo', method)
      BY <1>4, <2>1, EndsInFront, InstallFacts
    <3> QED
      BY <1>7, <2>2, <3>1, <3>2
  <2> QED
    BY <2>2, <2>3, <1>1, <1>2, <1>3, <1>6, <1>9, <1>10, BuildingGoesOn, StepsStayCounted,
       SettingsStay DEF ValuesInv, ValuesTyped
<1> QED
  BY <1>11, <1>12

\* set() replaces a method that does not exist.
LEMMA ReplaceKeeps ==
  ASSUME ValuesInv, ReplaceMethod
  PROVE  ValuesInv'
<1>1. ValuesTyped /\ StepsCounted /\ TableauFollows /\ SettingsOnTheirWay
  BY DEF ValuesInv
<1> DEFINE rest == Tail(todo)
           fallback == Set("integratorMethod", Fallback)
<1>2. /\ Doing("replace")
      /\ \/ /\ variables["integratorMethod"] = Fallback
            /\ todo' = Install(Fallback) \o rest
            /\ variables' = variables /\ toClient' = toClient
         \/ /\ variables' = [variables EXCEPT !["integratorMethod"] = Fallback]
            /\ toClient' = Append(toClient, fallback)
            /\ todo' = <<Choose>> \o Install(Fallback) \o rest
      /\ UNCHANGED <<client, sets, asked, toServer, items, steps, posted, operands, derived,
                     butcherTableau, stage>>
  BY DEF ReplaceMethod, clientVars, queueVars
<1>3. /\ todo \in Seq(Accesses) /\ Builds(todo) /\ todo[1] = Replace
      /\ Len(operands) = 0 /\ ModuliFollow(0)
  BY <1>2, BuildingAt
<1>4. /\ rest \in Seq(Accesses) /\ Len(rest) = Len(todo) - 1 /\ Len(todo) \in Nat \ {0}
      /\ \A n \in 1 .. Len(todo) - 1 : rest[n] = todo[n + 1] /\ todo[n + 1] \in Installs
      /\ \A m : Ends(todo, m) => Ends(rest, m)
  BY <1>3, RestOfBuilding
<1>5. rest = <<>> \/ Ends(rest, Fallback)
  <2>1. Len(todo) = 1 => rest = <<>>
    <3>1. Len(todo) = 1 => Len(rest) = 0
      BY <1>4
    <3> HIDE DEF rest
    <3> QED
      BY <1>4, <3>1, EmptySeq
  <2>2. Len(todo) = 1 \/ Ends(todo, Fallback)
    BY <1>3 DEF Builds
  <2> QED
    BY <1>4, <2>1, <2>2
<1>6. \A n \in 1 .. Len(rest) : rest[n] \in Installs
  BY <1>4
<1>7. Fallback \in AllMethods /\ MethodOf(Fallback) = Fallback
  BY <1>1, MethodFacts
<1> DEFINE call == Install(Fallback) \o rest
<1> HIDE DEF rest
<1>8. /\ call \in Seq(Accesses) /\ Builds(call) /\ Ends(call, Fallback)
      /\ \A n \in 1 .. Len(call) : call[n] \in Installs
  <2>1. /\ call \in Seq(Accesses) /\ Len(call) = Len(rest) + 2 /\ Len(rest) \in Nat
        /\ call[1] = InstallOf(1, Fallback) /\ call[2] = InstallOf(2, Fallback)
        /\ \A n \in 1 .. Len(rest) : call[n + 2] = rest[n]
    BY <1>4, <1>7, InstallInFront
  <2>2. Builds(call) /\ Ends(call, Fallback)
    BY <1>4, <1>5, <1>6, <1>7, BuildsInFront, EndsInFront
  <2>3. InstallOf(1, Fallback) \in Installs /\ InstallOf(2, Fallback) \in Installs
    BY <1>7, InstallFacts
  <2> HIDE DEF call
  <2>4. ASSUME NEW n \in 1 .. Len(call) PROVE call[n] \in Installs
    <3>1. n = 1 \/ n = 2 \/ (n - 2 \in 1 .. Len(rest) /\ n - 2 + 2 = n)
      BY <2>1
    <3> QED
      BY <1>6, <2>1, <2>3, <3>1
  <2> QED
    BY <2>1, <2>2, <2>4
<1>9. <<Choose>> \o Install(Fallback) \o rest = <<Choose>> \o call
  <2>1. <<Choose>> \in Seq(Accesses) /\ Install(Fallback) \in Seq(Accesses)
    BY <1>7, InstallFacts
  <2> QED
    BY <1>4, <2>1, ConcatAssociative
<1> HIDE DEF call
<1>10. /\ todo' = call \/ todo' = <<Choose>> \o call
       /\ variables' \in [Variables -> Values] /\ variables'["integratorMethod"] = Fallback
       /\ \A var \in Variables \ {"integratorMethod"} : variables'[var] = variables[var]
       /\ toClient' \in Seq({fallback})
  <2>1. variables \in [Variables -> Values] /\ toClient \in Seq({fallback})
    BY <1>1 DEF ValuesTyped
  <2>2. CASE todo' = call /\ variables' = variables /\ toClient' = toClient
               /\ variables["integratorMethod"] = Fallback
    BY <2>1, <2>2
  <2>3. CASE /\ variables' = [variables EXCEPT !["integratorMethod"] = Fallback]
             /\ toClient' = Append(toClient, fallback)
             /\ todo' = <<Choose>> \o call
    <3>1. toClient' \in Seq({fallback})
      BY <2>1, <2>3, OneMore
    <3>2. /\ variables' \in [Variables -> Values] /\ variables'["integratorMethod"] = Fallback
          /\ \A var \in Variables \ {"integratorMethod"} : variables'[var] = variables[var]
      BY <2>1, <2>3, ValuesFacts
    <3> QED
      BY <2>3, <3>1, <3>2
  <2> HIDE DEF fallback
  <2> QED
    BY <1>2, <1>9, <2>2, <2>3 DEF call
<1>11. Builds(todo') /\ Ends(todo', Fallback) /\ todo' \in Seq(Accesses)
  <2>1. /\ <<Choose>> \o call \in Seq(Accesses) /\ Ends(<<Choose>> \o call, Fallback)
        /\ Builds(<<Choose>> \o call)
    BY <1>8, BuildsInFront, EndsInFront, InFront, InstallFacts
  <2> QED
    BY <1>8, <1>10, <2>1
<1>12. MainThread'
  <2>1. \A var \in Moduli : variables'[var] = variables[var]
    BY <1>10, ReadsFacts
  <2> QED
    BY <1>2, <1>3, <1>11, <2>1, BuildingGoesOn
<1>13. TableauFollows'
  <2>1. MethodOf(variables'["integratorMethod"]) = Fallback
    BY <1>7, <1>10
  <2> QED
    BY <1>11, <2>1 DEF TableauFollows, MethodOf
<1>14. ValuesTyped'
  BY <1>1, <1>2, <1>10, <1>11 DEF ValuesTyped
<1>15. StepsCounted' /\ SettingsOnTheirWay'
  BY <1>1, <1>2, <1>10, StepsStayCounted, SettingsStay
<1> QED
  BY <1>12, <1>13, <1>14, <1>15 DEF ValuesInv

\* Half a tableau is copied.
LEMMA InstallKeeps ==
  ASSUME ValuesInv, InstallHalf
  PROVE  ValuesInv'
<1>1. ValuesTyped /\ StepsCounted /\ TableauFollows /\ SettingsOnTheirWay
  BY DEF ValuesInv
<1> DEFINE method == MethodOf(variables["integratorMethod"])
           first == Head(todo)
<1>2. /\ Doing("install") /\ todo' = Tail(todo)
      /\ butcherTableau' = [butcherTableau EXCEPT ![first.half] = first.method]
      /\ UNCHANGED <<client, sets, asked, toServer, toClient, items, steps, variables, posted,
                     operands, derived, stage>>
  BY DEF InstallHalf, clientVars, queueVars
<1>3. /\ todo \in Seq(Accesses) /\ Builds(todo) /\ todo[1] \in Installs
      /\ Len(operands) = 0 /\ ModuliFollow(0)
  BY <1>2, BuildingAt
<1>4. /\ todo' \in Seq(Accesses) /\ Len(todo') = Len(todo) - 1 /\ Len(todo) \in Nat \ {0}
      /\ first = todo[1]
      /\ \A n \in 1 .. Len(todo) - 1 : todo'[n] = todo[n + 1] /\ todo[n + 1] \in Installs
      /\ \A m : Len(todo) >= 3 /\ Ends(todo, m) => Ends(todo', m)
  BY <1>2, <1>3, RestOfBuilding
<1>5. /\ first.half \in 1 .. 2 /\ first.method \in AllMethods
      /\ butcherTableau \in [1 .. 2 -> AllMethods]
  BY <1>1, <1>3, <1>4, InstallFacts DEF ValuesTyped
<1>6. /\ butcherTableau' \in [1 .. 2 -> AllMethods]
      /\ butcherTableau'[first.half] = first.method
      /\ \A half \in 1 .. 2 : half # first.half => butcherTableau'[half] = butcherTableau[half]
  BY <1>2, <1>5
<1>7. /\ \A m : InstallOf(1, m).half = 1 /\ InstallOf(1, m).method = m
      /\ \A m : InstallOf(2, m).half = 2 /\ InstallOf(2, m).method = m
  BY DEF InstallOf
<1>8. todo[1] \notin {Choose, Replace}
  BY <1>3, InstallFacts
<1>9. \/ PostedFor({"integratorMethod"})
      \/ Len(todo) = 1 /\ todo[1] = InstallOf(2, method) /\ butcherTableau[1] = method
      \/ Ends(todo, method)
  BY <1>1, <1>3, <1>8 DEF TableauFollows
<1>10. PostedFor({"integratorMethod"})' <=> PostedFor({"integratorMethod"})
  BY <1>2 DEF PostedFor
<1>11. method' = method
  BY <1>2 DEF MethodOf
<1>12. TableauFollows' <=>
         \/ PostedFor({"integratorMethod"})'
         \/ ~Builds(todo') /\ butcherTableau'[1] = method' /\ butcherTableau'[2] = method'
         \/ Len(todo') = 1 /\ todo'[1] \in {Choose, Replace}
         \/ Len(todo') = 1 /\ todo'[1] = InstallOf(2, method') /\ butcherTableau'[1] = method'
         \/ Ends(todo', method')
  BY DEF TableauFollows
<1> HIDE DEF method, first
<1>13. CASE Len(todo) = 1
  <2>1. todo' = <<>> /\ ~Builds(todo')
    <3>1. todo' = <<>>
      BY <1>4, <1>13, EmptySeq
    <3> QED
      BY <3>1, NothingLeft
  <2>2. \/ PostedFor({"integratorMethod"})
        \/ butcherTableau'[1] = method /\ butcherTableau'[2] = method
    <3>1. ~Ends(todo, method)
      BY <1>13 DEF Ends
    <3>2. ASSUME todo[1] = InstallOf(2, method), butcherTableau[1] = method
          PROVE  butcherTableau'[1] = method /\ butcherTableau'[2] = method
      <4>1. first.half = 2 /\ first.method = method
        BY <1>4, <1>7, <3>2
      <4> QED
        BY <1>6, <3>2, <4>1
    <3> QED
      BY <1>9, <3>1, <3>2
  <2>3. TableauFollows'
    BY <1>10, <1>11, <1>12, <2>1, <2>2
  <2>4. MainThread'
    BY <1>2, <1>3, <2>1, BuildingGoesOn
  <2>5. ValuesTyped'
    BY <1>1, <1>2, <1>4, <1>6 DEF ValuesTyped
  <2>6. StepsCounted' /\ SettingsOnTheirWay'
    BY <1>1, <1>2, StepsStayCounted, SettingsStay
  <2> QED
    BY <2>3, <2>4, <2>5, <2>6 DEF ValuesInv
<1>14. CASE Len(todo) # 1
  <2>1. PICK m \in AllMethods : Ends(todo, m)
    BY <1>3, <1>14 DEF Builds
  <2>2. 1 \in 1 .. Len(todo) - 1 /\ \A n \in 2 .. Len(todo') : n \in 1 .. Len(todo) - 1
    BY <1>4, <1>14
  <2>3. todo'[1] \in Installs /\ \A n \in 2 .. Len(todo') : todo'[n] \in Installs
    BY <1>4, <2>2
  <2>4. todo'[1] \notin {Choose, Replace}
    BY <2>3, InstallFacts
  <2>5. CASE Len(todo) = 2
    <3>1. \A x : Ends(todo, x) => todo[1] = InstallOf(1, x) /\ todo'[1] = InstallOf(2, x)
      BY <1>4, <2>2, <2>5 DEF Ends
    <3>2. Len(todo') = 1 /\ todo'[1] = InstallOf(2, m)
      BY <1>4, <2>1, <2>5, <3>1
    <3>3. Builds(todo')
      BY <2>3, <2>4, <3>2 DEF Builds
    <3>4. ASSUME Ends(todo, method)
          PROVE  todo'[1] = InstallOf(2, method) /\ butcherTableau'[1] = method
      <4>1. first.half = 1 /\ first.method = method
        BY <1>4, <1>7, <3>1, <3>4
      <4> QED
        BY <1>6, <3>1, <3>4, <4>1
    <3>5. \/ PostedFor({"integratorMethod"})
          \/ todo'[1] = InstallOf(2, method) /\ butcherTableau'[1] = method
      BY <1>9, <1>14, <3>4
    <3>6. TableauFollows'
      BY <1>10, <1>11, <1>12, <3>2, <3>5
    <3>7. MainThread'
      BY <1>2, <1>3, <3>3, BuildingGoesOn
    <3>8. ValuesTyped'
      BY <1>1, <1>2, <1>4, <1>6 DEF ValuesTyped
    <3>9. StepsCounted' /\ SettingsOnTheirWay'
      BY <1>1, <1>2, StepsStayCounted, SettingsStay
    <3> QED
      BY <3>6, <3>7, <3>8, <3>9 DEF ValuesInv
  <2>6. CASE Len(todo) >= 3
    <3>1. Ends(todo', m)
      BY <1>4, <2>1, <2>6
    <3>2. Builds(todo')
      <4>1. Len(todo') >= 1
        BY <1>4, <2>6
      <4> QED
        BY <2>3, <2>4, <3>1, <4>1 DEF Builds
    <3>3. PostedFor({"integratorMethod"}) \/ Ends(todo', method)
      BY <1>4, <1>9, <1>14, <2>6
    <3>4. TableauFollows'
      BY <1>10, <1>11, <1>12, <3>3
    <3>5. MainThread'
      BY <1>2, <1>3, <3>2, BuildingGoesOn
    <3>6. ValuesTyped'
      BY <1>1, <1>2, <1>4, <1>6 DEF ValuesTyped
    <3>7. StepsCounted' /\ SettingsOnTheirWay'
      BY <1>1, <1>2, StepsStayCounted, SettingsStay
    <3> QED
      BY <3>4, <3>5, <3>6, <3>7 DEF ValuesInv
  <2>7. Len(todo) = 2 \/ Len(todo) >= 3
    BY <1>4, <1>14
  <2> QED
    BY <2>5, <2>6, <2>7
<1> QED
  BY <1>13, <1>14

-----------------------------------------------------------------------------
(* The values a step calculates with: the theorems *)

\* The invariant holds at the beginning.
LEMMA ValuesInitKeeps == ValuesInit => ValuesInv
<1> SUFFICES ASSUME ValuesInit PROVE ValuesInv
  OBVIOUS
<1>1. /\ client = [var \in Variables |-> Default(var)] /\ variables = client
      /\ sets = 0 /\ asked = 0 /\ steps = 0 /\ stage = None
      /\ toServer = <<>> /\ toClient = <<>> /\ items = <<>> /\ posted = <<>>
      /\ todo = <<>> /\ operands = <<>>
  BY Zenon DEF ValuesInit
<1>2. /\ derived = [what \in {"sphereSphereE", "sphereWallE"} |-> Now(what)]
      /\ butcherTableau = [half \in 1 .. 2 |-> CashKarp54]
  BY Zenon DEF ValuesInit
<1>3. client \in [Variables -> Values] /\ variables["integratorMethod"] = CashKarp54
  BY <1>1, ValuesFacts DEF Default
<1>4. \A what \in Modulus :
        /\ derived[what] \in Seq(Values) /\ Len(derived[what]) = 4
        /\ \A n \in 1 .. 4 : derived[what][n] = variables[ReadsOf(what)[n]]
  <2> SUFFICES ASSUME NEW what \in Modulus
               PROVE  /\ derived[what] \in Seq(Values) /\ Len(derived[what]) = 4
                      /\ \A n \in 1 .. 4 : derived[what][n] = variables[ReadsOf(what)[n]]
    OBVIOUS
  <2>1. derived[what] = Now(what)
    BY <1>2 DEF Modulus
  <2>2. Now(what) = [n \in 1 .. 4 |-> variables[ReadsOf(what)[n]]]
    BY ReadsFacts DEF Now
  <2>3. \A n \in 1 .. 4 : ReadsOf(what)[n] \in Variables
    BY ReadsFacts DEF Modulus
  <2>4. Now(what) \in [1 .. 4 -> Values] /\ 4 \in Nat
    BY <1>1, <1>3, <2>2, <2>3
  <2>5. Now(what) \in Seq(Values)
    BY <2>4, SeqDef
  <2>6. Len(Now(what)) = 4
    BY <2>2, <2>4
  <2> QED
    BY <2>1, <2>2, <2>5, <2>6
<1>5. derived \in [Modulus -> Seq(Values)]
  <2>1. derived = [what \in Modulus |-> Now(what)]
    BY <1>2 DEF Modulus
  <2> QED
    BY <1>4, <2>1
<1>6. CashKarp54 \in AllMethods
  BY DEF AllMethods, Known, Methods, CashKarp54, Fallback, RungeKuttaFehlberg54
<1>7. ValuesTyped
  <2>1. butcherTableau \in [1 .. 2 -> AllMethods]
    BY <1>2, <1>6
  <2>2. sets \in 0 .. MaxSets /\ asked \in 0 .. MaxAsked /\ steps \in Nat
    BY <1>1, ValuesFacts
  <2>3. /\ toServer \in Seq(SettingMessages \union {Steps}) /\ items \in Seq(SettingMessages)
        /\ toClient \in Seq({Set("integratorMethod", Fallback)}) /\ posted \in Seq(Variables)
        /\ todo \in Seq(Accesses) /\ operands \in Seq(Values)
    BY <1>1, EmptySeq
  <2> QED
    BY <1>1, <1>3, <1>4, <1>5, <2>1, <2>2, <2>3 DEF ValuesTyped
<1>8. StepsCounted
  <2> DEFINE c == [n \in 0 .. 0 |-> 0]
  <2>1. c \in [0 .. 0 -> 0 .. MaxAsked] /\ c[0] = 0
    BY ValuesFacts
  <2> HIDE DEF c
  <2>2. Len(toServer) = 0
    BY <1>1
  <2> QED
    BY <1>1, <2>1, <2>2 DEF StepsCounted
<1>9. MainThread
  <2>1. IsCurrent("sphereSphereE") /\ IsCurrent("sphereWallE")
    BY <1>4 DEF IsCurrent, Modulus
  <2>2. ModuliFollow(0)
    BY <2>1 DEF ModuliFollow
  <2>3. todo = Remaining(0) /\ Len(operands) = 0
    BY <1>1, NothingLeft
  <2> QED
    BY <2>2, <2>3 DEF MainThread, ReadSoFar
<1>10. TableauFollows
  <2>1. MethodOf(variables["integratorMethod"]) = CashKarp54
    BY <1>3 DEF MethodOf, CashKarp54
  <2>2. ~Builds(todo)
    BY <1>1, NothingLeft
  <2> QED
    BY <1>2, <2>1, <2>2 DEF TableauFollows
<1>11. SettingsOnTheirWay
  BY <1>1 DEF SettingsOnTheirWay, Arrives, NoneFor
<1> QED
  BY <1>7, <1>8, <1>9, <1>10, <1>11 DEF ValuesInv

\* Every step keeps it.
LEMMA ValuesNextKeeps == ValuesInv /\ [ValuesNext]_valuesVars => ValuesInv'
<1> SUFFICES ASSUME ValuesInv, [ValuesNext]_valuesVars PROVE ValuesInv'
  OBVIOUS
<1>1. CASE UNCHANGED valuesVars
  <2>1. UNCHANGED <<client, sets, asked, toServer, toClient, items, steps, variables, posted,
                    todo, operands, derived, butcherTableau, stage>>
    BY <1>1 DEF valuesVars, clientVars, queueVars, mainVars
  <2>2. ValuesTyped' /\ StepsCounted' /\ MainThread' /\ TableauFollows' /\ SettingsOnTheirWay'
    BY <2>1, StepsStayCounted, MainThreadStays, TableauStays, SettingsStay
    DEF ValuesInv, ValuesTyped
  <2> QED
    BY <2>2 DEF ValuesInv
<1>2. CASE \E setting \in Settings : ClientSets(setting[1], setting[2])
  BY <1>2, ClientKeeps
<1>3. CASE ClientAsksForStep
  BY <1>3, ClientKeeps
<1>4. CASE ClientReceives
  BY <1>4, ClientReceivesKeeps
<1>5. CASE MainNext
  BY <1>5, ServerReceivesKeeps, VariableUpdatedKeeps, ReadKeeps, StoreKeeps, ChooseKeeps,
     ReplaceKeeps, InstallKeeps DEF MainNext
<1>6. CASE WorkerNext
  BY <1>6, HandleUpdateKeeps, CalculationKeeps DEF WorkerNext
<1> QED
  BY <1>1, <1>2, <1>3, <1>4, <1>5, <1>6 DEF ValuesNext

\* What the invariant says between two calls of the main thread.
LEMMA ValuesInvAtRest ==
  ASSUME ValuesInv, posted = <<>>, todo = <<>>
  PROVE  /\ \A what \in Modulus : derived[what] = Now(what)
         /\ \A half \in 1 .. 2 : butcherTableau[half] = MethodOf(variables["integratorMethod"])
<1>1. /\ ValuesTyped /\ MainThread /\ TableauFollows
      /\ Len(todo) = 0 /\ Len(posted) = 0 /\ \A S : ~PostedFor(S)
  BY DEF ValuesInv, PostedFor
<1>2. PICK k \in 0 .. 10 :
        /\ \/ todo = Remaining(k)
           \/ k = 0 /\ Builds(todo)
        /\ ModuliFollow(k)
  BY <1>1 DEF MainThread
<1>3. k = 0
  BY <1>1, <1>2, RemainingFacts
<1>4. IsCurrent("sphereSphereE") /\ IsCurrent("sphereWallE")
  BY <1>1, <1>2, <1>3 DEF ModuliFollow
<1>5. ASSUME NEW what \in Modulus PROVE derived[what] = Now(what)
  <2>1. \A n \in 1 .. 4 : derived[what][n] = variables[ReadsOf(what)[n]]
    BY <1>4 DEF IsCurrent, Modulus
  <2>2. derived[what] \in Seq(Values) /\ Len(derived[what]) = 4
    BY <1>1 DEF ValuesTyped
  <2>3. derived[what] \in [1 .. 4 -> Values]
    BY <2>2, LenProperties
  <2>4. Now(what) = [n \in 1 .. 4 |-> variables[ReadsOf(what)[n]]]
    BY ReadsFacts DEF Now
  <2> QED
    BY <2>1, <2>3, <2>4
<1>6. ~Builds(todo) /\ \A method : ~Ends(todo, method)
  BY <1>1 DEF Builds, Ends
<1>7. /\ butcherTableau[1] = MethodOf(variables["integratorMethod"])
      /\ butcherTableau[2] = MethodOf(variables["integratorMethod"])
  BY <1>1, <1>6 DEF TableauFollows
<1> QED
  BY <1>5, <1>7

\* Every variable keeps its type, no more is read than a formula needs, and no more
\* steps are granted than were asked for.
THEOREM ValuesTypeCorrect == ValuesSpec => []ValuesTypeOK
<1>1. ASSUME ValuesInv PROVE ValuesTypeOK
  <2>1. ValuesTyped /\ StepsCounted /\ MainThread
    BY <1>1 DEF ValuesInv
  <2>2. \A S : \A s \in Seq(S) : ToSet(s) \subseteq S
    <3> SUFFICES ASSUME NEW S, NEW s \in Seq(S) PROVE ToSet(s) \subseteq S
      OBVIOUS
    <3>1. DOMAIN s = 1 .. Len(s) /\ \A n \in 1 .. Len(s) : s[n] \in S
      BY LenProperties, ElementOfSeq
    <3> QED
      BY <3>1 DEF ToSet
  <2>3. \A m \in ToSet(toServer) : m = Steps \/ <<m.var, m.value>> \in Variables \X Values
    <3>1. ToSet(toServer) \subseteq SettingMessages \union {Steps}
      BY <2>1, <2>2 DEF ValuesTyped
    <3> QED
      BY <3>1, MessageFacts
  <2>4. ToSet(items) \union ToSet(toClient) \subseteq
          {Set(var, value) : var \in Variables, value \in Values}
    <3>1. ToSet(items) \subseteq SettingMessages
      BY <2>1, <2>2 DEF ValuesTyped
    <3>2. ToSet(toClient) \subseteq {Set("integratorMethod", Fallback)}
      BY <2>1, <2>2 DEF ValuesTyped
    <3>3. Set("integratorMethod", Fallback) \in SettingMessages
      BY ValuesFacts, MessageFacts
    <3> QED
      BY <3>1, <3>2, <3>3 DEF SettingMessages
  <2>5. steps \in 0 .. MaxAsked
    <3>1. PICK c \in [0 .. Len(toServer) -> 0 .. MaxAsked] : steps + c[Len(toServer)] <= asked
      BY <2>1 DEF StepsCounted
    <3>2. Len(toServer) \in Nat /\ steps \in Nat /\ asked \in 0 .. MaxAsked /\ MaxAsked \in Nat
      BY <2>1, ValuesFacts DEF ValuesTyped
    <3>3. c[Len(toServer)] \in Nat
      BY <3>1, <3>2
    <3> QED
      BY <3>1, <3>2, <3>3
  <2>6. ToSet(posted) \subseteq Variables
    BY <2>1, <2>2 DEF ValuesTyped
  <2>7. PICK k \in 0 .. 10 :
          /\ \/ todo = Remaining(k)
             \/ k = 0 /\ Builds(todo)
          /\ Len(operands) = ReadSoFar(k)
    BY <2>1 DEF MainThread
  <2>8. Len(operands) <= 4
    BY <2>7 DEF ReadSoFar
  <2>9. todo # <<>> \/ operands = <<>>
    <3> SUFFICES ASSUME todo = <<>> PROVE operands = <<>>
      OBVIOUS
    <3>1. Len(todo) = 0
      OBVIOUS
    <3>2. k = 0
      BY <2>7, <3>1, RemainingFacts
    <3>3. Len(operands) = 0 /\ operands \in Seq(Values)
      BY <2>1, <2>7, <3>2 DEF ReadSoFar, ValuesTyped
    <3> QED
      BY <3>3, EmptySeq
  <2>10. Len(derived.sphereSphereE) = 4 /\ Len(derived.sphereWallE) = 4
    BY <2>1 DEF ValuesTyped, Modulus
  <2> QED
    BY <2>1, <2>3, <2>4, <2>5, <2>6, <2>8, <2>9, <2>10 DEF ValuesTypeOK, ValuesTyped, AllMethods
<1> QED
  BY <1>1, ValuesInitKeeps, ValuesNextKeeps, PTL DEF ValuesSpec

\* What is computed from variables belongs to them once every signal is handled,
\* whatever is set and however reading, storing and the worker's settings interleave.
THEOREM ValuesFollow == ValuesSpec => []DerivedFollows
<1>1. ASSUME ValuesInv PROVE DerivedFollows
  BY <1>1, ValuesInvAtRest DEF DerivedFollows, Modulus
<1> QED
  BY <1>1, ValuesInitKeeps, ValuesNextKeeps, PTL DEF ValuesSpec

\* A step that begins when every signal is handled integrates with the order of the
\* method that is named, if the five tableaux have their orders: which method is used is
\* settled here for all settings, what its coefficients are worth is a computation.
THEOREM OrdersFollow ==
  ASSUME \A method \in Methods : TableauIsOfOrder[method]
  PROVE  ValuesSpec => []OrdersAsNamed
<1>1. ASSUME ValuesInv PROVE OrdersAsNamed
  <2> SUFFICES ASSUME posted = <<>>, todo = <<>>
               PROVE  \E method \in Methods :
                        /\ butcherTableau = <<method, method>>
                        /\ TableauIsOfOrder[method]
                        /\ OrderOf(method) = OrderOf(MethodOf(variables["integratorMethod"]))
    BY DEF OrdersAsNamed
  <2> DEFINE method == MethodOf(variables["integratorMethod"])
  <2>1. \A half \in 1 .. 2 : butcherTableau[half] = method
    BY <1>1, ValuesInvAtRest
  <2>2. butcherTableau \in [1 .. 2 -> Methods]
    BY <1>1, ValuesFacts DEF ValuesInv, ValuesTyped
  <2> HIDE DEF method
  <2>3. method \in Methods
    BY <2>1, <2>2
  <2>4. butcherTableau = <<method, method>>
    BY <2>1, <2>2
  <2> QED
    BY <2>3, <2>4 DEF method
<1> QED
  BY <1>1, ValuesInitKeeps, ValuesNextKeeps, PTL DEF ValuesSpec

\* When no setting is under way, the server has what the client has, but for the method,
\* which the server may have replaced.
THEOREM SettingsAgreeCorrect == ValuesSpec => []SettingsAgree
<1>1. ASSUME ValuesInv PROVE SettingsAgree
  <2> SUFFICES ASSUME toServer = <<>>, items = <<>>,
                      NEW var \in Variables \ {"integratorMethod"}
               PROVE  variables[var] = client[var]
    BY DEF SettingsAgree
  <2>1. Len(toServer) = 0 /\ Len(items) = 0
    OBVIOUS
  <2>2. Arrives(var)
    BY <1>1 DEF ValuesInv, SettingsOnTheirWay
  <2> QED
    BY <2>1, <2>2 DEF Arrives, LastFor
<1> QED
  BY <1>1, ValuesInitKeeps, ValuesNextKeeps, PTL DEF ValuesSpec
=============================================================================
