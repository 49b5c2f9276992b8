------------------------------ MODULE Tableaux -------------------------------
(***************************************************************************)
(* The Runge-Kutta methods (updateIntegratorMethod, the constructor of     *)
(* ButcherTableau and the stage sums of integrateRungeKuttaStep_internal). *)
(*                                                                         *)
(* The 142 coefficients are typed in by hand, as one row after the other,  *)
(* and the only check is that a row sums up to its stage's time.  The model*)
(* has the same numbers as fractions and computes with them in the field   *)
(* of integers modulo a prime: an equation between fractions holds in the  *)
(* field if it holds at all, and one that does not hold fails there for    *)
(* all but a few primes.                                                   *)
(***************************************************************************)
EXTENDS Integers, Sequences, Functions

CONSTANT Primes     \* the fields to compute in

\* The denominators have no prime factor greater than 53.
ASSUME TableauxAssumption == Primes \subseteq {1009, 2003, 4001}

\* enum Method
HeunEuler21 == 0
BogackiShampine32 == 1
RungeKuttaFehlberg54 == 2
CashKarp54 == 3
DormandPrince54 == 4
Methods == 0 .. 4

-----------------------------------------------------------------------------
(* The coefficients.  A row of a is padded with zeros on the right.  *)

Heun == [
  a |-> << <<>>, << <<1,1>> >> >>,
  b |-> << <<1,2>>, <<1,2>> >>,
  b_ |-> << <<1,1>>, <<0,1>> >>,
  c |-> << <<0,1>>, <<1,1>> >>]

Bogacki == [
  a |-> << <<>>, << <<1,2>> >>, << <<0,1>>, <<3,4>> >>, << <<2,9>>, <<1,3>>, <<4,9>> >> >>,
  b |-> << <<2,9>>, <<1,3>>, <<4,9>>, <<0,1>> >>,
  b_ |-> << <<7,24>>, <<1,4>>, <<1,3>>, <<1,8>> >>,
  c |-> << <<0,1>>, <<1,2>>, <<3,4>>, <<1,1>> >>]

CashKarp == [
  a |-> << <<>>, << <<1,5>> >>, << <<3,40>>, <<9,40>> >>,
           << <<3,10>>, <<-9,10>>, <<6,5>> >>,
           << <<-11,54>>, <<5,2>>, <<-70,27>>, <<35,27>> >>,
           << <<1631,55296>>, <<175,512>>, <<575,13824>>, <<44275,110592>>, <<253,4096>> >> >>,
  b |-> << <<37,378>>, <<0,1>>, <<250,621>>, <<125,594>>, <<0,1>>, <<512,1771>> >>,
  b_ |-> << <<2825,27648>>, <<0,1>>, <<18575,48384>>, <<13525,55296>>, <<277,14336>>, <<1,4>> >>,
  c |-> << <<0,1>>, <<1,5>>, <<3,10>>, <<3,5>>, <<1,1>>, <<7,8>> >>]

DormandPrince == [
  a |-> << <<>>, << <<1,5>> >>, << <<3,40>>, <<9,40>> >>,
           << <<44,45>>, <<-56,15>>, <<32,9>> >>,
           << <<19372,6561>>, <<-25360,2187>>, <<64448,6561>>, <<-212,729>> >>,
           << <<9017,3168>>, <<-355,33>>, <<46732,5247>>, <<49,176>>, <<-5103,18656>> >>,
           << <<35,384>>, <<0,1>>, <<500,1113>>, <<125,192>>, <<-2187,6784>>, <<11,84>> >> >>,
  b |-> << <<35,384>>, <<0,1>>, <<500,1113>>, <<125,192>>, <<-2187,6784>>, <<11,84>>, <<0,1>> >>,
  b_ |-> << <<5179,57600>>, <<0,1>>, <<7571,16695>>, <<393,640>>, <<-92097,339200>>,
            <<187,2100>>, <<1,40>> >>,
  c |-> << <<0,1>>, <<1,5>>, <<3,10>>, <<4,5>>, <<8,9>>, <<1,1>>, <<1,1>> >>]

RungeKuttaFehlberg == [
  a |-> << <<>>, << <<1,4>> >>, << <<3,32>>, <<9,32>> >>,
           << <<1932,2197>>, <<-7200,2197>>, <<7296,2197>> >>,
           << <<439,216>>, <<-8,1>>, <<3680,513>>, <<-845,4104>> >>,
           << <<-8,27>>, <<2,1>>, <<-3544,2565>>, <<1859,4104>>, <<-11,40>> >> >>,
  b |-> << <<16,135>>, <<0,1>>, <<6656,12825>>, <<28561,56430>>, <<-9,50>>, <<2,55>> >>,
  b_ |-> << <<25,216>>, <<0,1>>, <<1408,2565>>, <<2197,4104>>, <<-1,5>>, <<0,1>> >>,
  c |-> << <<0,1>>, <<1,4>>, <<3,8>>, <<12,13>>, <<1,1>>, <<1,2>> >>]

CoefficientsOf(method) ==
  CASE method = HeunEuler21 -> Heun
    [] method = BogackiShampine32 -> Bogacki
    [] method = CashKarp54 -> CashKarp
    [] method = DormandPrince54 -> DormandPrince
    [] OTHER -> RungeKuttaFehlberg

\* Coefficient (x, y) of the array that is given to the constructor, from 0.
Entry(method, x, y) ==
  LET row == CoefficientsOf(method).a[x + 1]
  IN  IF y < Len(row) THEN row[y + 1] ELSE <<0, 1>>

Stages(method) == Len(CoefficientsOf(method).b)

-----------------------------------------------------------------------------
(* The field. *)

Inverses == [p \in Primes |-> [d \in 1 .. p - 1 |-> CHOOSE i \in 1 .. p - 1 : (d * i) % p = 1]]

\* A fraction in the field with p elements.
InField(q, p) == ((q[1] % p) * Inverses[p][q[2] % p]) % p

-----------------------------------------------------------------------------
(* The tableau of a method in the field with p elements. *)

BuiltSwapsWeights(method, p) ==
  LET stages == 0 .. Stages(method) - 1
      column(v) == [x \in stages |-> InField(CoefficientsOf(method)[v][x + 1], p)]
  IN  [a |-> [x \in stages |-> [y \in stages |-> InField(Entry(method, x, y), p)]],
       b |-> column("b_"), b_ |-> column("b"), c |-> column("c")]

\* The loops of the constructor.
Built(method, p) ==
  LET stages == 0 .. Stages(method) - 1
      column(v) == [x \in stages |-> InField(CoefficientsOf(method)[v][x + 1], p)]
  IN  [a |-> [x \in stages |-> [y \in stages |-> InField(Entry(method, x, y), p)]],
       b |-> column("b"), b_ |-> column("b_"), c |-> column("c")]

\* "Error: Butcher tableau checksum is wrong!"
Complains(t, p) ==
  \E x \in DOMAIN t.c : SumFunctionOnSet(t.a[x], DOMAIN t.c) % p # t.c[x]

-----------------------------------------------------------------------------
(* What a tableau is worth.  The stages of the code add up the stages before *)
(* them, and a trial adds up all stages with the weights b or b_.            *)

StageSum(t, v, p) ==
  [n \in DOMAIN v |->
     SumFunctionOnSet([j \in DOMAIN v |-> t.a[n][j] * v[j]], 0 .. n - 1) % p]
Product(u, v, p) == [n \in DOMAIN v |-> (u[n] * v[n]) % p]
WeightedSum(w, v, p) == SumFunction([j \in DOMAIN v |-> w[j] * v[j]]) % p

Ones(t) == [n \in DOMAIN t.b |-> 1]

\* The order conditions: the elementary weight of every rooted tree with this
\* number of nodes, times the density of the tree, is one.
Trees(t, order, p) ==
  LET S(v) == StageSum(t, v, p)
      P(u, v) == Product(u, v, p)
      c1 == S(Ones(t))
      c2 == P(c1, c1)
      c3 == P(c2, c1)
      ac == S(c1)
      ac2 == S(c2)
      aac == S(ac)
  IN  CASE order = 1 -> {<<1, Ones(t)>>}
        [] order = 2 -> {<<2, c1>>}
        [] order = 3 -> {<<3, c2>>, <<6, ac>>}
        [] order = 4 -> {<<4, c3>>, <<8, P(c1, ac)>>, <<12, ac2>>, <<24, aac>>}
        [] order = 5 -> {<<5, P(c2, c2)>>, <<10, P(c2, ac)>>, <<15, P(c1, ac2)>>,
                         <<30, P(c1, aac)>>, <<20, P(ac, ac)>>, <<20, S(c3)>>,
                         <<40, S(P(c1, ac))>>, <<60, S(ac2)>>, <<120, S(aac)>>}

HasOrder(t, weights, order, p) ==
  \A tree \in Trees(t, order, p) : (tree[1] * WeightedSum(weights, tree[2], p)) % p = 1

\* "Heun-Euler of order 2+1 ...", "... of order 5+4 ..." (Integrators.hpp)
OrderOf(method) ==
  CASE method = HeunEuler21 -> 2
    [] method = BogackiShampine32 -> 3
    [] OTHER -> 5

\* The stage loop reads every coefficient, and the sums of the rows are the times c
\* of the tableau.  A step itself never reads c: it extrapolates the other spheres
\* by the same timeDiff in every stage (SphereCalculator.cpp:698).
StagesUseEveryCoefficient(t, p) ==
  \A n \in DOMAIN t.b :
    /\ \A j \in DOMAIN t.b : j >= n => t.a[n][j] = 0
    /\ StageSum(t, Ones(t), p)[n] = t.c[n]

\* The solution that is kept is of this order, the one it is compared with of the
\* order below and no more, so that their difference is the error of the second;
\* no coefficient is lost, and the constructor's own check finds no wrong row.
\* This is the order of the tableau, for a sphere that depends on nothing that moves
\* in other ways within a step; spheres that act on each other reach less.
IsOfOrder(t, order, p) ==
  /\ \A n \in 1 .. order : HasOrder(t, t.b, n, p)
  /\ \A n \in 1 .. order - 1 : HasOrder(t, t.b_, n, p)
  /\ ~HasOrder(t, t.b_, order, p)
  /\ StagesUseEveryCoefficient(t, p)
  /\ ~Complains(t, p)
=============================================================================
