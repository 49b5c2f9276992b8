------------------------ MODULE CollisionCellsProofs ------------------------
(***************************************************************************)
(* The grid finds every pair of spheres that may collide, whatever their   *)
(* number, positions and speeds and the number of cells: the cells of a    *)
(* sphere are the numbers from its lowest to its highest place, and cell   *)
(* numbers grow with the place (ScaledGrows, LimitedGrows).  The last      *)
(* breaks for a place below the box if negative numbers wrap, and only     *)
(* there.  And whoever acts on a sphere is acted upon by it.               *)
(***************************************************************************)
EXTENDS CollisionCells, FiniteSetTheorems, WellFoundedInduction, TLAPS

\* Every set of numbers that is not empty has a first one.
LEMMA FirstNumber ==
  ASSUME NEW S \in SUBSET Nat, S # {}
  PROVE  \E k \in S : \A j \in S : k <= j
<1> DEFINE before == OpToRel(<, Nat)
<1>1. IsWellFoundedOn(before, Nat)
  BY NatLessThanWellFounded
<1>2. \A y \in Nat, x \in Nat : y < x => <<y, x>> \in before
  BY DEF OpToRel
<1> HIDE DEF before
<1>3. S \subseteq Nat
  OBVIOUS
<1>4. PICK k \in S : \A j \in S : ~(<<j, k>> \in before)
  BY <1>1, <1>3, WFMin
<1>5. \A j \in S : j \in Nat /\ k \in Nat /\ ~(j < k)
  BY <1>2, <1>3, <1>4
<1> QED
  BY <1>5

\* One of finitely many numbers is the least.
LEMMA LeastOfList ==
  ASSUME NEW n \in Nat \ {0}, NEW f, \A j \in 0 .. n - 1 : f[j] \in Int
  PROVE  \E m \in 0 .. n - 1 : \A j \in 0 .. n - 1 : f[m] <= f[j]
<1> DEFINE Least(k, m) == m \in 0 .. k /\ \A j \in 0 .. k : f[m] <= f[j]
           Bad == {k \in 0 .. n - 1 : \A m \in 0 .. n - 1 : ~Least(k, m)}
<1>1. Bad = {}
  <2> SUFFICES ASSUME Bad # {} PROVE FALSE
    OBVIOUS
  <2>1. Bad \in SUBSET Nat
    OBVIOUS
  <2>2. PICK k \in Bad : \A j \in Bad : k <= j
    BY <2>1, FirstNumber
  <2>3. k \in 0 .. n - 1 /\ \A m \in 0 .. n - 1 : ~Least(k, m)
    OBVIOUS
  <2>4. k # 0
    <3>1. 0 \in 0 .. n - 1 /\ \A j \in 0 .. 0 : j = 0
      OBVIOUS
    <3>2. Least(0, 0)
      BY <3>1
    <3> QED
      BY <2>3, <3>1, <3>2
  <2>5. k - 1 \in 0 .. n - 1 /\ ~(k <= k - 1)
    BY <2>3, <2>4
  <2>6. PICK m \in 0 .. n - 1 : Least(k - 1, m)
    BY <2>2, <2>5
  <2>7. \A j \in 0 .. k : j \in 0 .. n - 1 /\ (j \in 0 .. k - 1 \/ j = k)
    BY <2>3
  <2>8. m \in 0 .. k /\ k \in 0 .. k /\ \A j \in 0 .. k - 1 : f[m] <= f[j]
    BY <2>3, <2>6
  <2>9. CASE f[m] <= f[k]
    <3>1. \A j \in 0 .. k : f[m] <= f[j]
      BY <2>7, <2>8, <2>9
    <3> QED
      BY <2>3, <2>8, <3>1
  <2>10. CASE ~(f[m] <= f[k])
    <3>1. f[k] <= f[m] /\ f[k] <= f[k]
      BY <2>3, <2>10
    <3>2. \A j \in 0 .. k - 1 : f[k] <= f[j]
      BY <2>3, <2>7, <2>8, <3>1
    <3>3. \A j \in 0 .. k : f[k] <= f[j]
      BY <2>7, <3>1, <3>2
    <3> QED
      BY <2>3, <2>8, <3>3
  <2> QED
    BY <2>9, <2>10
<1>2. n - 1 \in 0 .. n - 1 /\ n - 1 \notin Bad
  BY <1>1
<1>3. PICK m \in 0 .. n - 1 : Least(n - 1, m)
  BY <1>2
<1> QED
  BY <1>3

\* One is the greatest.
LEMMA GreatestOfList ==
  ASSUME NEW n \in Nat \ {0}, NEW f, \A j \in 0 .. n - 1 : f[j] \in Int
  PROVE  \E m \in 0 .. n - 1 : \A j \in 0 .. n - 1 : f[j] <= f[m]
<1> DEFINE g == [j \in 0 .. n - 1 |-> -f[j]]
<1>1. \A j \in 0 .. n - 1 : g[j] = -f[j] /\ g[j] \in Int
  OBVIOUS
<1> HIDE DEF g
<1>2. PICK m \in 0 .. n - 1 : \A j \in 0 .. n - 1 : g[m] <= g[j]
  BY <1>1, LeastOfList
<1>3. \A j \in 0 .. n - 1 : f[j] <= f[m]
  <2> SUFFICES ASSUME NEW j \in 0 .. n - 1 PROVE f[j] <= f[m]
    OBVIOUS
  <2>1. -f[m] <= -f[j] /\ f[m] \in Int /\ f[j] \in Int
    BY <1>1, <1>2
  <2> QED
    BY <2>1
<1> QED
  BY <1>3

-----------------------------------------------------------------------------
(* The box *)

SpheresTyped ==
  /\ pos \in [Spheres -> Int] /\ radius \in [Spheres -> Radii]
  /\ move \in [Spheres -> Moves] /\ bend \in [Spheres -> Bends]
  /\ conversion \in Conversions /\ purpose \in Purposes

\* There are at least two spheres, and the first has the index 0.
LEMMA SpheresFacts ==
  /\ Cardinality(Spheres) \in Nat \ {0} /\ Spheres = 0 .. Cardinality(Spheres) - 1
  /\ 0 \in Spheres /\ 1 \in Spheres \ {0} /\ IsFiniteSet(Spheres)
<1>1. IsFiniteSet(Spheres) /\ Spheres = 0 .. Cardinality(Spheres) - 1 /\ Cardinality(Spheres) > 1
  BY CollisionCellsAssumption
<1>2. Cardinality(Spheres) \in Nat
  BY <1>1, FS_CardinalityType
<1> PICK n : n = Cardinality(Spheres)
  OBVIOUS
<1>3. n \in Nat /\ n > 1
  BY <1>1, <1>2
<1>4. n \in Nat \ {0} /\ 0 \in 0 .. n - 1 /\ 1 \in 0 .. n - 1
  BY <1>3
<1> QED
  BY <1>1, <1>4

\* What a sphere is made of.
LEMMA SphereFacts ==
  ASSUME SpheresTyped, NEW i \in Spheres
  PROVE  pos[i] \in Int /\ radius[i] \in Nat \ {0} /\ move[i] \in Int /\ bend[i] \in Int
  BY CollisionCellsAssumption DEF SpheresTyped

\* The box has a lower and a higher end and is not empty.
LEMMA BoxFacts ==
  ASSUME SpheresTyped
  PROVE  /\ Lowest(Lows) \in Int /\ Highest(Highs) \in Int
         /\ Lowest(Lows) <= pos[0] /\ pos[0] <= Highest(Highs)
         /\ Lowest(Lows) < Highest(Highs)
<1> PICK n : n = Cardinality(Spheres)
  OBVIOUS
<1>1. /\ n \in Nat \ {0} /\ Spheres = 0 .. n - 1 /\ 0 \in Spheres /\ 1 \in Spheres \ {0}
  BY SpheresFacts
<1>2. \A i \in Spheres : pos[i] \in Int /\ radius[i] \in Nat \ {0}
  BY SphereFacts
<1>3. \E x \in Lows : \A y \in Lows : x <= y
  <2> DEFINE f == [i \in Spheres |-> IF i = 0 THEN pos[0] ELSE pos[i] - radius[i]]
  <2>1. \A i \in Spheres : f[i] \in Int /\ f[i] \in Lows
    BY <1>1, <1>2 DEF Lows
  <2>2. \A y \in Lows : \E i \in Spheres : y = f[i]
    <3> SUFFICES ASSUME NEW y \in Lows PROVE \E i \in Spheres : y = f[i]
      OBVIOUS
    <3>1. CASE y = pos[0]
      BY <1>1, <3>1
    <3>2. CASE y # pos[0]
      <4>1. PICK i \in Spheres \ {0} : y = pos[i] - radius[i]
        BY <3>2 DEF Lows
      <4> QED
        BY <4>1
    <3> QED
      BY <3>1, <3>2
  <2> HIDE DEF f
  <2>3. PICK m \in 0 .. n - 1 : \A j \in 0 .. n - 1 : f[m] <= f[j]
    BY <1>1, <2>1, LeastOfList
  <2>4. \A y \in Lows : f[m] <= y
    BY <1>1, <2>2, <2>3
  <2>5. f[m] \in Lows
    BY <1>1, <2>1
  <2> QED
    BY <2>4, <2>5
<1>4. \E x \in Highs : \A y \in Highs : x >= y
  <2> DEFINE f == [i \in Spheres |-> IF i = 0 THEN pos[0] ELSE pos[i] + radius[i]]
  <2>1. \A i \in Spheres : f[i] \in Int /\ f[i] \in Highs
    BY <1>1, <1>2 DEF Highs
  <2>2. \A y \in Highs : \E i \in Spheres : y = f[i]
    <3> SUFFICES ASSUME NEW y \in Highs PROVE \E i \in Spheres : y = f[i]
      OBVIOUS
    <3>1. CASE y = pos[0]
      BY <1>1, <3>1
    <3>2. CASE y # pos[0]
      <4>1. PICK i \in Spheres \ {0} : y = pos[i] + radius[i]
        BY <3>2 DEF Highs
      <4> QED
        BY <4>1
    <3> QED
      BY <3>1, <3>2
  <2> HIDE DEF f
  <2>3. PICK m \in 0 .. n - 1 : \A j \in 0 .. n - 1 : f[j] <= f[m]
    BY <1>1, <2>1, GreatestOfList
  <2>4. \A j \in 0 .. n - 1 : f[m] >= f[j]
    BY <1>1, <2>1, <2>3
  <2>5. \A y \in Highs : f[m] >= y
    BY <1>1, <2>2, <2>4
  <2>6. f[m] \in Highs
    BY <1>1, <2>1
  <2> QED
    BY <2>5, <2>6
<1>5. Lowest(Lows) \in Lows /\ \A y \in Lows : Lowest(Lows) <= y
  BY <1>3 DEF Lowest
<1>6. Highest(Highs) \in Highs /\ \A y \in Highs : Highest(Highs) >= y
  BY <1>4 DEF Highest
<1>7. Lows \subseteq Int /\ Highs \subseteq Int /\ pos[0] \in Lows /\ pos[0] \in Highs
  BY <1>1, <1>2 DEF Lows, Highs
<1>8. pos[1] - radius[1] \in Lows /\ pos[1] + radius[1] \in Highs
  BY <1>1 DEF Lows, Highs
<1> PICK low, high : low = Lowest(Lows) /\ high = Highest(Highs)
  OBVIOUS
<1>9. /\ low \in Int /\ high \in Int /\ low <= pos[0] /\ high >= pos[0]
      /\ low <= pos[1] - radius[1] /\ high >= pos[1] + radius[1]
  BY <1>5, <1>6, <1>7, <1>8
<1>10. pos[0] \in Int /\ pos[1] \in Int /\ radius[1] \in Nat \ {0}
  BY <1>1, <1>2
<1>11. pos[0] <= high /\ low < high
  BY <1>9, <1>10
<1> QED
  BY <1>9, <1>11

-----------------------------------------------------------------------------
(* Cell numbers *)

\* Products grow with either factor.
LEMMA TimesGrows ==
  ASSUME NEW a \in Int, NEW b \in Int, NEW c \in Nat, a <= b
  PROVE  a * c <= b * c
<1>1. \A k \in Nat : k * c \in Nat
  BY SMT
<1>2. b - a \in Nat /\ (b - a) * c = b * c - a * c
  BY SMT
<1>3. a * c \in Int /\ b * c \in Int
  BY SMT
<1> QED
  BY <1>1, <1>2, <1>3

\* So do quotients.
LEMMA QuotientGrows ==
  ASSUME NEW x \in Nat, NEW y \in Nat, NEW d \in Nat \ {0}, x <= y
  PROVE  x \div d \in Nat /\ y \div d \in Nat /\ x \div d <= y \div d
<1> PICK q, r, p, s : q = x \div d /\ r = x % d /\ p = y \div d /\ s = y % d
  OBVIOUS
<1>1. q \in Nat /\ p \in Nat
  BY SMT
<1>2. r \in 0 .. d - 1 /\ s \in 0 .. d - 1
  BY SMT
<1>3. x = q * d + r /\ y = p * d + s
  BY SMT
<1>4. q <= p
  <2> SUFFICES ASSUME p + 1 <= q PROVE FALSE
    BY <1>1
  <2>1. (p + 1) * d <= q * d
    BY <1>1, TimesGrows
  <2>2. (p + 1) * d = p * d + d
    BY <1>1, SMT
  <2>3. p * d \in Int /\ q * d \in Int
    BY <1>1, SMT
  <2> QED
    BY <1>2, <1>3, <2>1, <2>2, <2>3
<1> QED
  BY <1>1, <1>4

\* The number of the cell grows with the length.
LEMMA ScaledGrows ==
  ASSUME NEW a \in Int, NEW b \in Int, a <= b,
         NEW low \in Int, NEW high \in Int, low < high
  PROVE  /\ Scaled(a, low, high) \in Int /\ Scaled(b, low, high) \in Int
         /\ Scaled(a, low, high) <= Scaled(b, low, high)
<1> PICK d : d = high - low
  OBVIOUS
<1>1. d \in Nat \ {0} /\ CellCount \in Nat
  BY CollisionCellsAssumption
<1>2. CASE a >= 0
  <2>1. a * CellCount <= b * CellCount
    BY <1>1, TimesGrows
  <2>2. a * CellCount \in Nat /\ b * CellCount \in Nat /\ b >= 0
    BY <1>1, <1>2, SMT
  <2> QED
    BY <1>1, <1>2, <2>1, <2>2, QuotientGrows DEF Scaled
<1>3. CASE a < 0 /\ b >= 0
  <2>1. -a * CellCount \in Nat /\ b * CellCount \in Nat
    BY <1>1, <1>3, SMT
  <2>2. (-a * CellCount) \div d \in Nat /\ (b * CellCount) \div d \in Nat
    BY <1>1, <2>1, QuotientGrows
  <2>3. /\ Scaled(a, low, high) = -((-a * CellCount) \div d)
        /\ Scaled(b, low, high) = (b * CellCount) \div d
    BY <1>3 DEF Scaled
  <2> QED
    BY <2>2, <2>3
<1>4. CASE b < 0
  <2>1. -b <= -a /\ -a \in Nat /\ -b \in Nat /\ a < 0
    BY <1>4
  <2>2. -b * CellCount <= -a * CellCount
    BY <1>1, <2>1, TimesGrows
  <2>3. -a * CellCount \in Nat /\ -b * CellCount \in Nat
    BY <1>1, <2>1, SMT
  <2>4. /\ (-a * CellCount) \div d \in Nat /\ (-b * CellCount) \div d \in Nat
        /\ (-b * CellCount) \div d <= (-a * CellCount) \div d
    BY <1>1, <2>2, <2>3, QuotientGrows
  <2>5. /\ Scaled(a, low, high) = -((-a * CellCount) \div d)
        /\ Scaled(b, low, high) = -((-b * CellCount) \div d)
    BY <1>4, <2>1 DEF Scaled
  <2> QED
    BY <2>4, <2>5
<1> QED
  BY <1>2, <1>3, <1>4

\* The conversion keeps the order, unless a number below zero wraps.
LEMMA LimitedGrows ==
  ASSUME NEW a \in Int, NEW b \in Int, a <= b, conversion # "wraps" \/ a >= 0
  PROVE  Limited(a) <= Limited(b)
  BY CollisionCellsAssumption DEF Limited

\* It yields a cell.
LEMMA LimitedIsCell ==
  ASSUME NEW a \in Int
  PROVE  Limited(a) \in CellIndices
  BY CollisionCellsAssumption DEF Limited, CellIndices

-----------------------------------------------------------------------------
(* Ends of spheres *)

\* The ends lie around the sphere as it is and as it will be.
LEMMA EndsAround ==
  ASSUME SpheresTyped, NEW i \in Spheres
  PROVE  /\ LowEnd(i) \in Int /\ HighEnd(i) \in Int
         /\ LowEnd(i) <= pos[i] - radius[i]
         /\ LowEnd(i) <= pos[i] + move[i] + bend[i] - radius[i]
         /\ pos[i] + radius[i] <= HighEnd(i)
         /\ pos[i] + move[i] + bend[i] + radius[i] <= HighEnd(i)
<1> PICK p, r, m, b : p = pos[i] /\ r = radius[i] /\ m = move[i] /\ b = bend[i]
  OBVIOUS
<1>1. p \in Int /\ r \in Nat \ {0} /\ m \in Int /\ b \in Int
  BY SphereFacts
<1>2. /\ LowEnd(i) \in Int /\ LowEnd(i) <= p - r /\ LowEnd(i) <= p + m + b - r
  BY <1>1 DEF LowEnd
<1>3. /\ HighEnd(i) \in Int /\ p + r <= HighEnd(i) /\ p + m + b + r <= HighEnd(i)
  BY <1>1 DEF HighEnd
<1> QED
  BY <1>2, <1>3

\* The lower end of a sphere is not above its upper end, nor above the upper
\* end of a sphere it overlaps.
LEMMA EndsCross ==
  ASSUME SpheresTyped, NEW i \in Spheres, NEW j \in Spheres,
         i = j \/ OverlapNow(i, j) \/ OverlapAtEnd(i, j)
  PROVE  LowEnd(i) <= HighEnd(j)
<1> PICK p, r, e, q, s, f :
      /\ p = pos[i] /\ r = radius[i] /\ e = pos[i] + move[i] + bend[i]
      /\ q = pos[j] /\ s = radius[j] /\ f = pos[j] + move[j] + bend[j]
  OBVIOUS
<1>1. /\ p \in Int /\ r \in Nat \ {0} /\ e \in Int
      /\ q \in Int /\ s \in Nat \ {0} /\ f \in Int
  BY SphereFacts
<1>2. /\ LowEnd(i) \in Int /\ LowEnd(i) <= p - r /\ LowEnd(i) <= e - r
      /\ HighEnd(j) \in Int /\ q + s <= HighEnd(j) /\ f + s <= HighEnd(j)
  <2>1. /\ LowEnd(i) \in Int /\ LowEnd(i) <= pos[i] - radius[i]
        /\ LowEnd(i) <= pos[i] + move[i] + bend[i] - radius[i]
    BY EndsAround
  <2>2. /\ HighEnd(j) \in Int /\ pos[j] + radius[j] <= HighEnd(j)
        /\ pos[j] + move[j] + bend[j] + radius[j] <= HighEnd(j)
    BY EndsAround
  <2>3. LowEnd(i) <= p - r /\ q + s <= HighEnd(j)
    BY <2>1, <2>2
  <2>4. LowEnd(i) <= e - r
    BY <1>1, <2>1, SphereFacts
  <2>5. f + s <= HighEnd(j)
    BY <1>1, <2>2, SphereFacts
  <2> QED
    BY <2>1, <2>2, <2>3, <2>4, <2>5
<1>3. CASE i = j
  BY <1>1, <1>2, <1>3
<1>4. CASE OverlapNow(i, j)
  <2>1. Distance(p, q) < r + s
    BY <1>4 DEF OverlapNow
  <2>2. p - r <= q + s
    BY <1>1, <2>1 DEF Distance
  <2> QED
    BY <1>1, <1>2, <2>2
<1>5. CASE OverlapAtEnd(i, j)
  <2>1. Distance(e, f) < r + s
    BY <1>5 DEF OverlapAtEnd
  <2>2. e - r <= f + s
    BY <1>1, <2>1 DEF Distance
  <2> QED
    BY <1>1, <1>2, <2>2
<1> QED
  BY <1>3, <1>4, <1>5

\* The relation of overlapping does not depend on the order.
LEMMA OverlapsBothWays ==
  ASSUME SpheresTyped, NEW i \in Spheres, NEW j \in Spheres
  PROVE  /\ OverlapNow(i, j) => OverlapNow(j, i)
         /\ OverlapAtEnd(i, j) => OverlapAtEnd(j, i)
<1> PICK p, r, e, q, s, f :
      /\ p = pos[i] /\ r = radius[i] /\ e = pos[i] + move[i] + bend[i]
      /\ q = pos[j] /\ s = radius[j] /\ f = pos[j] + move[j] + bend[j]
  OBVIOUS
<1>1. /\ p \in Int /\ r \in Nat \ {0} /\ e \in Int
      /\ q \in Int /\ s \in Nat \ {0} /\ f \in Int
  BY SphereFacts
<1>2. Distance(p, q) < r + s => Distance(q, p) < s + r
  BY <1>1 DEF Distance
<1>3. Distance(e, f) < r + s => Distance(f, e) < s + r
  BY <1>1 DEF Distance
<1> QED
  BY <1>2, <1>3 DEF OverlapNow, OverlapAtEnd

\* The cell in which a length along the box ends, and the cells of a sphere.
CellAt(length) == Limited(Scaled(length, boxLow, boxHigh))
MinCell(i) == CellAt(LowEnd(i) - boxLow)
MaxCell(i) == CellAt(HighEnd(i) - boxLow)

\* They are cells of the grid, and at least one.
LEMMA RangeFacts ==
  ASSUME SpheresTyped, boxLow \in Int, boxHigh \in Int, boxLow < boxHigh,
         NEW i \in Spheres
  PROVE  /\ MinCell(i) \in CellIndices /\ MaxCell(i) \in CellIndices
         /\ MinCell(i) \in CellRange(i) /\ CellRange(i) \subseteq CellIndices
         /\ \A c \in Int : MinCell(i) <= c /\ c <= MaxCell(i) => c \in CellRange(i)
<1>1. LowEnd(i) - boxLow \in Int /\ HighEnd(i) - boxLow \in Int
  BY EndsAround
<1>2. /\ Scaled(LowEnd(i) - boxLow, boxLow, boxHigh) \in Int
      /\ Scaled(HighEnd(i) - boxLow, boxLow, boxHigh) \in Int
  BY <1>1, ScaledGrows
<1>3. MinCell(i) \in CellIndices /\ MaxCell(i) \in CellIndices
  BY <1>2, LimitedIsCell DEF MinCell, MaxCell, CellAt
<1>4. CellRange(i) = MinCell(i) .. IF MaxCell(i) < MinCell(i) THEN MinCell(i) ELSE MaxCell(i)
  BY DEF CellRange, MinCell, MaxCell, CellAt
<1> PICK min, max : min = MinCell(i) /\ max = MaxCell(i)
  OBVIOUS
<1>5. min \in CellIndices /\ max \in CellIndices /\ CellCount \in Nat \ {0}
  BY <1>3, CollisionCellsAssumption
<1>6. CellRange(i) = min .. IF max < min THEN min ELSE max
  BY <1>4
<1>7. min \in CellRange(i) /\ CellRange(i) \subseteq CellIndices
  BY <1>5, <1>6 DEF CellIndices
<1>8. \A c \in Int : min <= c /\ c <= max => c \in CellRange(i)
  BY <1>5, <1>6 DEF CellIndices
<1> QED
  BY <1>5, <1>7, <1>8

\* A sphere that overlaps another starts in a cell the other does not end before.
LEMMA CellsCross ==
  ASSUME SpheresTyped, boxLow \in Int, boxHigh \in Int, boxLow < boxHigh,
         NEW i \in Spheres, NEW j \in Spheres, ~StartsBelow(i),
         i = j \/ OverlapNow(i, j) \/ OverlapAtEnd(i, j)
  PROVE  MinCell(i) <= MaxCell(j)
<1>1. LowEnd(i) \in Int /\ HighEnd(j) \in Int
  BY EndsAround
<1>2. LowEnd(i) <= HighEnd(j)
  BY EndsCross
<1>3. /\ LowEnd(i) - boxLow \in Int /\ HighEnd(j) - boxLow \in Int
      /\ LowEnd(i) - boxLow <= HighEnd(j) - boxLow
  BY <1>1, <1>2
<1> PICK a, b : /\ a = Scaled(LowEnd(i) - boxLow, boxLow, boxHigh)
                /\ b = Scaled(HighEnd(j) - boxLow, boxLow, boxHigh)
  OBVIOUS
<1>4. a \in Int /\ b \in Int /\ a <= b
  BY <1>3, ScaledGrows
<1>5. conversion # "wraps" \/ ~(a < 0)
  BY DEF StartsBelow
<1>6. conversion # "wraps" \/ a >= 0
  BY <1>4, <1>5
<1>7. Limited(a) <= Limited(b)
  BY <1>4, <1>6, LimitedGrows
<1> QED
  BY <1>7 DEF MinCell, MaxCell, CellAt

\* Two spheres that overlap share a cell, if neither starts in a wrapped one.
LEMMA OverlapsShare ==
  ASSUME SpheresTyped, boxLow \in Int, boxHigh \in Int, boxLow < boxHigh,
         NEW i \in Spheres, NEW j \in Spheres,
         ~StartsBelow(i), ~StartsBelow(j),
         OverlapNow(i, j) \/ OverlapAtEnd(i, j)
  PROVE  CellRange(i) \intersect CellRange(j) # {}
<1>1. OverlapNow(j, i) \/ OverlapAtEnd(j, i)
  BY OverlapsBothWays
<1>2. MinCell(i) <= MaxCell(j)
  BY CellsCross
<1>3. MinCell(j) <= MaxCell(i)
  BY <1>1, CellsCross
<1>4. MinCell(i) <= MaxCell(i) /\ MinCell(j) <= MaxCell(j)
  BY CellsCross
<1>5. /\ MinCell(i) \in Int /\ MinCell(j) \in Int
      /\ MaxCell(i) \in Int /\ MaxCell(j) \in Int
  BY RangeFacts, CollisionCellsAssumption DEF CellIndices
<1>6. CASE MinCell(i) <= MinCell(j)
  <2>1. MinCell(j) \in CellRange(i)
    BY <1>3, <1>5, <1>6, RangeFacts
  <2>2. MinCell(j) \in CellRange(j)
    BY RangeFacts
  <2> QED
    BY <2>1, <2>2
<1>7. CASE ~(MinCell(i) <= MinCell(j))
  <2>1. MinCell(i) \in CellRange(j)
    BY <1>2, <1>5, <1>7, RangeFacts
  <2>2. MinCell(i) \in CellRange(i)
    BY RangeFacts
  <2> QED
    BY <2>1, <2>2
<1> QED
  BY <1>6, <1>7

-----------------------------------------------------------------------------
(* The inductive invariant *)

\* Variables of the right kind; the type invariant without what follows from
\* how the cells are computed.
Typed ==
  /\ SpheresTyped
  /\ boxLow \in Int /\ boxHigh \in Int
  /\ cells \in [Spheres -> SUBSET CellIndices]
  /\ colliding \in [Spheres -> SUBSET Spheres]
  /\ acted \in [Spheres -> [Spheres -> Nat]]
  /\ thrown \in BOOLEAN
  /\ phase \in {"box", "cells", "forces"}

\* The box and the cells are those of the spheres as they are.
GridIsFresh ==
  /\ phase # "box" => boxLow = Lowest(Lows) /\ boxHigh = Highest(Highs)
  /\ phase = "forces" => cells = [i \in Spheres |-> CellRange(i)]

\* The list of a sphere is empty, or all its candidates are in it and have acted.
Unvisited(i) == colliding[i] = {} /\ acted[i] = [j \in Spheres |-> 0]
Visited(i) ==
  /\ phase = "forces"
  /\ colliding[i] = Candidates(i)
  /\ acted[i] = [j \in Spheres |-> Acts(i, j)]
  /\ Cardinality(colliding[i]) <= Capacity

GridInv == Typed /\ GridIsFresh /\ \A i \in Spheres : Unvisited(i) \/ Visited(i)

\* The invariant holds before anything is built.
LEMMA InvInit == Init => GridInv
<1> SUFFICES ASSUME Init PROVE GridInv
  OBVIOUS
<1>1. /\ boxLow = 0 /\ boxHigh = 0 /\ cells = [i \in Spheres |-> {}]
      /\ colliding = [i \in Spheres |-> {}] /\ thrown = FALSE /\ phase = "box"
      /\ acted = [i \in Spheres |-> [j \in Spheres |-> 0]]
  BY Zenon DEF Init
<1>2. /\ pos \in [Spheres -> Positions] /\ radius \in [Spheres -> Radii]
      /\ move \in [Spheres -> Moves] /\ bend \in [Spheres -> Bends]
      /\ conversion \in Conversions /\ purpose \in Purposes
  BY Zenon DEF Init
<1>4. SpheresTyped
  BY <1>2, CollisionCellsAssumption DEF SpheresTyped
<1>5. Typed
  <2>1. boxLow \in Int /\ boxHigh \in Int
    BY <1>1
  <2>2. thrown \in BOOLEAN
    BY <1>1, Zenon
  <2>3. cells \in [Spheres -> SUBSET CellIndices]
    BY <1>1
  <2>4. colliding \in [Spheres -> SUBSET Spheres]
    BY <1>1
  <2>5. acted \in [Spheres -> [Spheres -> Nat]]
    BY <1>1
  <2>6. phase \in {"box", "cells", "forces"}
    BY <1>1
  <2> QED
    BY <1>4, <2>1, <2>2, <2>3, <2>4, <2>5, <2>6 DEF Typed
<1>6. GridIsFresh
  BY <1>1 DEF GridIsFresh
<1>7. \A i \in Spheres : Unvisited(i)
  BY <1>1 DEF Unvisited
<1> QED
  BY <1>5, <1>6, <1>7 DEF GridInv

\* No step moves a sphere; so where the box belongs does not change either.
LEMMA SpheresKept ==
  ASSUME spheresVars' = spheresVars
  PROVE  /\ SpheresTyped => SpheresTyped'
         /\ Lowest(Lows)' = Lowest(Lows) /\ Highest(Highs)' = Highest(Highs)
         /\ \A i \in Spheres : LowEnd(i)' = LowEnd(i) /\ HighEnd(i)' = HighEnd(i)
         /\ \A n : Limited(n)' = Limited(n)
<1>1. /\ pos' = pos /\ radius' = radius /\ move' = move /\ bend' = bend
      /\ conversion' = conversion /\ purpose' = purpose
  BY DEF spheresVars
<1>2. SpheresTyped => SpheresTyped'
  BY <1>1 DEF SpheresTyped
<1>3. Lows' = Lows /\ Highs' = Highs
  BY <1>1 DEF Lows, Highs
<1>4. Lowest(Lows)' = Lowest(Lows) /\ Highest(Highs)' = Highest(Highs)
  BY <1>3 DEF Lowest, Highest
<1>5. \A i \in Spheres : LowEnd(i)' = LowEnd(i) /\ HighEnd(i)' = HighEnd(i)
  BY <1>1 DEF LowEnd, HighEnd
<1>6. \A n : Limited(n)' = Limited(n)
  BY <1>1 DEF Limited
<1> QED
  BY <1>2, <1>4, <1>5, <1>6

\* With the box, the cells of a sphere do not change.
LEMMA RangeKept ==
  ASSUME spheresVars' = spheresVars, boxLow' = boxLow, boxHigh' = boxHigh,
         NEW i \in Spheres
  PROVE  CellRange(i)' = CellRange(i)
<1>1. LowEnd(i)' = LowEnd(i) /\ HighEnd(i)' = HighEnd(i) /\ \A n : Limited(n)' = Limited(n)
  BY SpheresKept
<1>2. conversion' = conversion
  BY DEF spheresVars
<1> QED
  BY <1>1, <1>2 DEF CellRange, Limited, Scaled

\* Neither do its candidates, nor what is known of its list.
LEMMA ListKept ==
  ASSUME cells' = cells, colliding' = colliding, acted' = acted, phase' = phase,
         NEW i \in Spheres
  PROVE  /\ Candidates(i)' = Candidates(i)
         /\ Unvisited(i) => Unvisited(i)'
         /\ Visited(i) => Visited(i)'
<1>1. Candidates(i)' = Candidates(i)
  BY DEF Candidates
<1>2. Unvisited(i) => Unvisited(i)'
  BY DEF Unvisited
<1>3. Visited(i) => Visited(i)'
  BY <1>1 DEF Visited, Acts
<1> QED
  BY <1>1, <1>2, <1>3

\* Filling the list of one sphere preserves the invariant.
LEMMA InvCollide ==
  ASSUME GridInv, NEW i \in Spheres, Collide(i)
  PROVE  GridInv'
<1>1. /\ spheresVars' = spheresVars /\ boxLow' = boxLow /\ boxHigh' = boxHigh
      /\ cells' = cells /\ phase' = phase /\ phase = "forces"
  BY DEF Collide
<1>2. Typed /\ GridIsFresh
  BY DEF GridInv
<1>3. \A k \in Spheres : CellRange(k)' = CellRange(k)
  BY <1>1, RangeKept
<1>4. GridIsFresh'
  <2>1. boxLow' = Lowest(Lows)' /\ boxHigh' = Highest(Highs)'
    BY <1>1, <1>2, SpheresKept DEF GridIsFresh
  <2>2. cells' = [k \in Spheres |-> CellRange(k)']
    BY <1>1, <1>2, <1>3 DEF GridIsFresh
  <2> QED
    BY <2>1, <2>2 DEF GridIsFresh
<1>5. \A k \in Spheres : Candidates(k)' = Candidates(k)
  BY <1>1 DEF Candidates
<1>6. CASE Full(i)
  <2>1. thrown' = TRUE /\ colliding' = colliding /\ acted' = acted
    BY <1>6 DEF Collide
  <2>2. Typed'
    BY <1>1, <1>2, <2>1, SpheresKept DEF Typed
  <2>3. \A k \in Spheres : Unvisited(k)' \/ Visited(k)'
    BY <1>1, <2>1, ListKept DEF GridInv
  <2> QED
    BY <1>4, <2>2, <2>3 DEF GridInv
<1>7. CASE ~Full(i)
  <2>1. /\ colliding' = [colliding EXCEPT ![i] = Candidates(i)]
        /\ acted' = [acted EXCEPT ![i] = [j \in Spheres |-> Acts(i, j)]]
        /\ thrown' = thrown
    BY <1>7 DEF Collide
  <2>2. Candidates(i) \in SUBSET Spheres /\ \A j \in Spheres : Acts(i, j) \in Nat
    BY DEF Candidates, Acts
  <2>3. [j \in Spheres |-> Acts(i, j)] \in [Spheres -> Nat]
    BY <2>2
  <2>4. Typed'
    <3>1. colliding' \in [Spheres -> SUBSET Spheres]
      BY <1>2, <2>1, <2>2 DEF Typed
    <3>2. acted' \in [Spheres -> [Spheres -> Nat]]
      BY <1>2, <2>1, <2>3 DEF Typed
    <3> QED
      BY <1>1, <1>2, <2>1, <3>1, <3>2, SpheresKept DEF Typed
  <2>5. Cardinality(Candidates(i)) <= Capacity
    <3>1. IsFiniteSet(Candidates(i))
      BY <2>2, SpheresFacts, FS_Subset
    <3>2. Cardinality(Candidates(i)) \in Nat /\ Capacity \in Nat
      BY <3>1, FS_CardinalityType, CollisionCellsAssumption
    <3>3. ~(Cardinality(Candidates(i)) > Capacity)
      BY <1>7 DEF Full
    <3> QED
      BY <3>2, <3>3
  <2>6. Visited(i)'
    <3>1. /\ colliding'[i] = Candidates(i)
          /\ acted'[i] = [j \in Spheres |-> Acts(i, j)]
      BY <1>2, <2>1 DEF Typed
    <3>2. \A j \in Spheres : Acts(i, j)' = Acts(i, j)
      BY <1>5 DEF Acts
    <3> QED
      BY <1>1, <1>5, <2>5, <3>1, <3>2 DEF Visited
  <2>7. \A k \in Spheres \ {i} : Unvisited(k)' \/ Visited(k)'
    <3> SUFFICES ASSUME NEW k \in Spheres \ {i} PROVE Unvisited(k)' \/ Visited(k)'
      OBVIOUS
    <3>1. colliding'[k] = colliding[k] /\ acted'[k] = acted[k]
      BY <1>2, <2>1 DEF Typed
    <3>2. \A j \in Spheres : Acts(k, j)' = Acts(k, j)
      BY <1>5 DEF Acts
    <3>3. Unvisited(k) => Unvisited(k)'
      BY <3>1 DEF Unvisited
    <3>4. Visited(k) => Visited(k)'
      BY <1>1, <1>5, <3>1, <3>2 DEF Visited
    <3> QED
      BY <3>3, <3>4 DEF GridInv
  <2> QED
    BY <1>4, <2>4, <2>6, <2>7 DEF GridInv
<1> QED
  BY <1>6, <1>7

\* Every step preserves the invariant.
LEMMA InvStep == GridInv /\ [Next]_vars => GridInv'
<1> SUFFICES ASSUME GridInv, [Next]_vars PROVE GridInv'
  OBVIOUS
<1>1. Typed /\ GridIsFresh /\ SpheresTyped
  BY DEF GridInv, Typed
<1>2. CASE UpdateSphereBox
  <2>1. /\ spheresVars' = spheresVars /\ cells' = cells /\ colliding' = colliding
        /\ acted' = acted /\ thrown' = thrown /\ phase = "box" /\ phase' = "cells"
        /\ boxLow' = Lowest(Lows) /\ boxHigh' = Highest(Highs)
    BY <1>2 DEF UpdateSphereBox
  <2>2. Typed'
    BY <1>1, <2>1, SpheresKept, BoxFacts DEF Typed
  <2>3. GridIsFresh'
    BY <2>1, SpheresKept DEF GridIsFresh
  <2>4. \A i \in Spheres : Unvisited(i)'
    BY <2>1 DEF GridInv, Unvisited, Visited
  <2> QED
    BY <2>2, <2>3, <2>4 DEF GridInv
<1>3. CASE UpdateSphereCellLists
  <2>1. /\ spheresVars' = spheresVars /\ colliding' = colliding /\ acted' = acted
        /\ thrown' = thrown /\ phase = "cells" /\ phase' = "forces"
        /\ boxLow' = boxLow /\ boxHigh' = boxHigh
        /\ cells' = [i \in Spheres |-> CellRange(i)]
    BY <1>3 DEF UpdateSphereCellLists
  <2>2. boxLow = Lowest(Lows) /\ boxHigh = Highest(Highs)
    BY <1>1, <2>1 DEF GridIsFresh
  <2>3. boxLow \in Int /\ boxHigh \in Int /\ boxLow < boxHigh
    BY <1>1, <2>2, BoxFacts
  <2>4. \A i \in Spheres : CellRange(i) \subseteq CellIndices
    BY <1>1, <2>3, RangeFacts
  <2>5. Typed'
    BY <1>1, <2>1, <2>4, SpheresKept DEF Typed
  <2>6. \A i \in Spheres : CellRange(i)' = CellRange(i)
    BY <2>1, RangeKept
  <2>7. GridIsFresh'
    BY <2>1, <2>2, <2>6, SpheresKept DEF GridIsFresh
  <2>8. \A i \in Spheres : Unvisited(i)'
    BY <2>1 DEF GridInv, Unvisited, Visited
  <2> QED
    BY <2>5, <2>7, <2>8 DEF GridInv
<1>4. CASE \E i \in Spheres : SphereAcceleration(i) \/ SphereEnergy(i)
  <2>1. PICK i \in Spheres : Collide(i)
    BY <1>4 DEF SphereAcceleration, SphereEnergy
  <2> QED
    BY <2>1, InvCollide
<1>5. CASE UNCHANGED vars
  <2>1. /\ spheresVars' = spheresVars /\ boxLow' = boxLow /\ boxHigh' = boxHigh
        /\ cells' = cells /\ colliding' = colliding /\ acted' = acted
        /\ thrown' = thrown /\ phase' = phase
    BY <1>5 DEF vars
  <2>2. Typed'
    BY <1>1, <2>1, SpheresKept DEF Typed
  <2>3. \A k \in Spheres : CellRange(k)' = CellRange(k)
    BY <2>1, RangeKept
  <2>4. GridIsFresh'
    BY <1>1, <2>1, <2>3, SpheresKept DEF GridIsFresh
  <2>5. \A k \in Spheres : Unvisited(k)' \/ Visited(k)'
    BY <2>1, ListKept DEF GridInv
  <2> QED
    BY <2>2, <2>4, <2>5 DEF GridInv
<1> QED
  BY <1>2, <1>3, <1>4, <1>5 DEF Next

-----------------------------------------------------------------------------
(* What follows *)

\* The invariant holds in every reachable state.
THEOREM Invariance == Spec => []GridInv
  BY InvInit, InvStep, PTL DEF Spec

\* Every variable has its type: each sphere has at least one cell and they are
\* cells of the grid, the first sphere lies in the box, no list holds more than
\* the array has room for (updateSphereBox, updateSphereCellLists).
THEOREM TypeCorrect == Spec => []TypeOK
<1>1. GridInv => TypeOK
  <2> SUFFICES ASSUME GridInv PROVE TypeOK
    OBVIOUS
  <2>1. Typed /\ GridIsFresh /\ SpheresTyped
    BY DEF GridInv, Typed
  <2>2. phase # "box" => boxLow <= pos[0] /\ pos[0] <= boxHigh
    BY <2>1, BoxFacts DEF GridIsFresh
  <2>3. phase = "forces" => \A i \in Spheres : cells[i] # {}
    <3> SUFFICES ASSUME phase = "forces", NEW i \in Spheres PROVE cells[i] # {}
      OBVIOUS
    <3>1. boxLow \in Int /\ boxHigh \in Int /\ boxLow < boxHigh
      BY <2>1, BoxFacts DEF GridIsFresh
    <3>2. cells[i] = CellRange(i)
      BY <2>1 DEF GridIsFresh
    <3>3. MinCell(i) \in CellRange(i)
      BY <2>1, <3>1, RangeFacts
    <3> QED
      BY <3>2, <3>3
  <2>4. \A i \in Spheres : Cardinality(colliding[i]) <= Capacity
    <3> SUFFICES ASSUME NEW i \in Spheres PROVE Cardinality(colliding[i]) <= Capacity
      OBVIOUS
    <3>1. CASE Visited(i)
      BY <3>1 DEF Visited
    <3>2. CASE Unvisited(i)
      <4>1. Cardinality(colliding[i]) = 0
        BY <3>2, FS_EmptySet DEF Unvisited
      <4> QED
        BY <4>1, CollisionCellsAssumption
    <3> QED
      BY <3>1, <3>2 DEF GridInv
  <2> QED
    BY <2>1, <2>2, <2>3, <2>4 DEF TypeOK, Typed, SpheresTyped
<1> QED
  BY <1>1, Invariance, PTL

\* Spheres act on each other at most once and both ways, however many cells
\* they share (addElementIfNotContained, sphereAcceleration).
THEOREM OnceCorrect == Spec => []EachActsOnce
<1>1. GridInv => EachActsOnce
  <2> SUFFICES ASSUME GridInv, NEW i \in Spheres, NEW j \in Spheres
               PROVE  /\ acted[i][j] <= 1
                      /\ acted[i][j] = 1 /\ colliding[j] # {} => acted[j][i] = 1
    BY DEF EachActsOnce
  <2>1. CASE Unvisited(i)
    <3>1. acted[i][j] = 0
      BY <2>1 DEF Unvisited
    <3> QED
      BY <3>1
  <2>2. CASE Visited(i)
    <3>1. acted[i][j] = Acts(i, j)
      BY <2>2 DEF Visited
    <3>2. acted[i][j] <= 1
      BY <3>1 DEF Acts
    <3>3. ASSUME acted[i][j] = 1, colliding[j] # {} PROVE acted[j][i] = 1
      <4>1. j \in Candidates(i)
        BY <3>1, <3>3 DEF Acts
      <4>2. i \in Candidates(j)
        BY <4>1 DEF Candidates
      <4>3. Visited(j)
        BY <3>3 DEF GridInv, Unvisited
      <4>4. acted[j][i] = Acts(j, i)
        BY <4>3 DEF Visited
      <4> QED
        BY <4>2, <4>4 DEF Acts
    <3> QED
      BY <3>2, <3>3
  <2> QED
    BY <2>1, <2>2 DEF GridInv
<1> QED
  BY <1>1, Invariance, PTL

\* Spheres that overlap at the beginning or the end of a step share a cell,
\* unless one of them starts in a wrapped cell: whatever the number of cells,
\* the positions and the speeds, and wherever the other spheres are
\* (updateSphereBox, updateSphereCellLists).
THEOREM OverlapsCorrect == Spec => []OverlapsAreCandidates
<1>1. GridInv => OverlapsAreCandidates
  <2> SUFFICES ASSUME GridInv, phase = "forces", NEW i \in Spheres, NEW j \in Spheres,
                      i # j, ~StartsBelow(i), ~StartsBelow(j),
                      OverlapNow(i, j) \/ OverlapAtEnd(i, j)
               PROVE  j \in Candidates(i)
    BY DEF OverlapsAreCandidates
  <2>1. Typed /\ GridIsFresh /\ SpheresTyped
    BY DEF GridInv, Typed
  <2>2. boxLow \in Int /\ boxHigh \in Int /\ boxLow < boxHigh
    BY <2>1, BoxFacts DEF GridIsFresh
  <2>3. CellRange(i) \intersect CellRange(j) # {}
    BY <2>1, <2>2, OverlapsShare
  <2>4. cells[i] = CellRange(i) /\ cells[j] = CellRange(j)
    BY <2>1 DEF GridIsFresh
  <2> QED
    BY <2>3, <2>4 DEF Candidates
<1> QED
  BY <1>1, Invariance, PTL

\* A build that never wraps misses no overlap at all; so the wrapping alone is
\* what the code loses them by (updateSphereCellLists).
THEOREM SaturatingMissesNone ==
  ASSUME "wraps" \notin Conversions
  PROVE  Spec => []OverlapsAreAlwaysCandidates
<1>1. GridInv /\ OverlapsAreCandidates => OverlapsAreAlwaysCandidates
  <2> SUFFICES ASSUME GridInv, OverlapsAreCandidates PROVE OverlapsAreAlwaysCandidates
    OBVIOUS
  <2>1. conversion # "wraps"
    BY DEF GridInv, Typed, SpheresTyped
  <2>2. \A i \in Spheres : ~StartsBelow(i)
    BY <2>1 DEF StartsBelow
  <2> QED
    BY <2>2 DEF OverlapsAreCandidates, OverlapsAreAlwaysCandidates
<1> QED
  BY <1>1, Invariance, OverlapsCorrect, PTL
=============================================================================
