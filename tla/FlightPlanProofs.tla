-------------------------- MODULE FlightPlanProofs --------------------------
(***************************************************************************)
(* Whatever the pilot enters, the fuel of a plan is of the flight that is  *)
(* planned, and of figures that were entered: for routes of any length,    *)
(* any tables, any winds and any elevations.                               *)
(***************************************************************************)
EXTENDS FlightPlan, FiniteSetTheorems, WellFoundedInduction, TLAPS

-----------------------------------------------------------------------------
(* Induction, as a least counterexample: of a number of which something is *)
(* not so there is a least one.                                            *)
LEMMA LeastNumber ==
    ASSUME NEW T \in SUBSET Nat, T # {}
    PROVE  \E n \in T : \A m \in T : n <= m
<1>1. PICK n \in T : \A m \in T : <<m, n>> \notin OpToRel(<, Nat)
  BY NatLessThanWellFounded, WFMin
<1>2. \A m \in T : ~(m < n)
  BY <1>1 DEF OpToRel
<1> QED
  BY <1>2

(* What holds of no number, and of the next of each, holds of all.         *)
LEMMA AllNumbers ==
    ASSUME NEW N \in Nat, NEW T \in SUBSET (0..N), 0 \in T,
           \A n \in 1..N : n - 1 \in T => n \in T
    PROVE  T = 0..N
<1> SUFFICES ASSUME (0..N) \ T # {} PROVE FALSE
  OBVIOUS
<1>1. PICK n \in (0..N) \ T : \A m \in (0..N) \ T : n <= m
  <2>1. (0..N) \ T \in SUBSET Nat
    OBVIOUS
  <2> QED BY <2>1, LeastNumber
<1>2. n \in 1..N /\ n - 1 \in 0..N /\ n - 1 < n
  BY <1>1
<1> QED
  BY <1>1, <1>2

-----------------------------------------------------------------------------
(* Sums of natural numbers, saturated.                                     *)
LEMMA Saturated ==
    ASSUME NEW a \in Nat
    PROVE  Saturate(a) \in 0..Infinity /\ Saturate(a) <= a /\ (a < Infinity <=> Saturate(a) < Infinity)
           /\ (a < Infinity => Saturate(a) = a) /\ (a >= Infinity => Saturate(a) = Infinity)
BY InfinityIsNat DEF Saturate, Lesser

(* A definition by recursion is of a function that there is.               *)
Summed(v, N, f) ==
    /\ f \in [0..N -> 0..Infinity] /\ f[0] = 0
    /\ \A n \in 1..N : f[n] = Saturate(f[n - 1] + v[n])

(* Every sequence of natural numbers has its sums.                         *)
LEMMA SumsExist ==
    ASSUME NEW N \in Nat, NEW v \in [1..N -> Nat]
    PROVE  \E f : Summed(v, N, f)
<1> DEFINE T == {n \in 0..N : \E f : Summed(v, n, f)}
<1>1. 0 \in T
  <2>1. Summed(v, 0, [n \in 0..0 |-> 0])
    BY InfinityIsNat DEF Summed
  <2> QED BY <2>1
<1>2. ASSUME NEW n \in 1..N, n - 1 \in T PROVE n \in T
  <2>1. PICK f : Summed(v, n - 1, f)
    BY <1>2
  <2> DEFINE g == [k \in 0..n |-> IF k = n THEN Saturate(f[n - 1] + v[n]) ELSE f[k]]
  <2>2. f[n - 1] \in 0..Infinity /\ v[n] \in Nat
    BY <2>1 DEF Summed
  <2>3. Saturate(f[n - 1] + v[n]) \in 0..Infinity
    <3>1. f[n - 1] + v[n] \in Nat
      BY <2>2, InfinityIsNat
    <3> QED BY <3>1, Saturated
  <2>4. g \in [0..n -> 0..Infinity] /\ g[0] = 0
    BY <2>1, <2>3 DEF Summed
  <2>5. ASSUME NEW k \in 1..n PROVE g[k] = Saturate(g[k - 1] + v[k])
    BY <2>1 DEF Summed
  <2> HIDE DEF g
  <2>6. Summed(v, n, g)
    BY <2>4, <2>5 DEF Summed
  <2> QED BY <2>6
<1> HIDE DEF T
<1>3. T = 0..N
  BY <1>1, <1>2, AllNumbers DEF T
<1>4. N \in T
  BY <1>3
<1> QED
  BY <1>4 DEF T

(* Sums is such a function, so that what its recursion says may be used.   *)
LEMMA SumsAre ==
    ASSUME NEW N \in Nat, NEW v \in [1..N -> Nat]
    PROVE  Summed(v, N, Sums(v)) /\ Len(v) = N
<1>1. Len(v) = N
  OBVIOUS
<1> DEFINE Rec(f) == f = [n \in 0..N |-> IF n = 0 THEN 0 ELSE Saturate(f[n - 1] + v[n])]
<1>2. Sums(v) = CHOOSE f : Rec(f)
  BY <1>1 DEF Sums
<1>3. \E f : Rec(f)
  <2>1. PICK f : Summed(v, N, f)
    BY SumsExist
  <2>2. f = [n \in 0..N |-> f[n]]
    BY <2>1 DEF Summed
  <2>3. \A n \in 0..N : f[n] = IF n = 0 THEN 0 ELSE Saturate(f[n - 1] + v[n])
    BY <2>1 DEF Summed
  <2>4. Rec(f)
    BY <2>2, <2>3
  <2> QED BY <2>4
<1>4. Rec(Sums(v))
  BY <1>2, <1>3
<1> DEFINE s == Sums(v)
<1>5. s = [n \in 0..N |-> s[n]] /\ s[0] = 0 /\ \A n \in 1..N : s[n] = Saturate(s[n - 1] + v[n])
  <2> HIDE DEF s
  <2>1. s = [n \in 0..N |-> IF n = 0 THEN 0 ELSE Saturate(s[n - 1] + v[n])]
    BY <1>4 DEF s
  <2> QED BY <2>1
<1> DEFINE T == {n \in 0..N : s[n] \in 0..Infinity}
<1> HIDE DEF s
<1>6. T = 0..N
  <2>1. 0 \in T
    BY <1>5, InfinityIsNat
  <2>2. ASSUME NEW n \in 1..N, n - 1 \in T PROVE n \in T
    <3>1. s[n - 1] + v[n] \in Nat
      BY <2>2, InfinityIsNat
    <3>2. s[n] \in 0..Infinity
      BY <3>1, <1>5, Saturated
    <3> QED BY <3>2
  <2> HIDE DEF T
  <2> QED BY <2>1, <2>2, AllNumbers DEF T
<1>7. Summed(v, N, s)
  BY <1>5, <1>6 DEF Summed
<1> QED
  BY <1>1, <1>7 DEF s

(* A sum that is finite is the exact one, and so is every part of it.      *)
LEMMA FiniteSums ==
    ASSUME NEW N \in Nat, NEW v \in [1..N -> Nat], NEW f, Summed(v, N, f), f[N] < Infinity
    PROVE  /\ \A n \in 0..N : f[n] \in Nat /\ f[n] < Infinity
           /\ \A n \in 1..N : f[n - 1] \in Nat /\ v[n] \in Nat /\ f[n] = f[n - 1] + v[n]
<1>1. \A n \in 0..N : f[n] \in Nat /\ f[n] <= Infinity
  BY InfinityIsNat DEF Summed
<1>2. \A n \in 1..N : /\ n \in 0..N /\ n - 1 \in 0..N /\ f[n - 1] + v[n] \in Nat /\ v[n] \in Nat
                      /\ f[n] = Saturate(f[n - 1] + v[n])
  <2>1. \A n \in 1..N : n \in 0..N /\ n - 1 \in 0..N /\ v[n] \in Nat
    OBVIOUS
  <2> QED BY <2>1, <1>1 DEF Summed
<1>3. ASSUME NEW n \in 1..N, f[n] < Infinity
      PROVE  f[n] = f[n - 1] + v[n] /\ f[n - 1] < Infinity
  <2> DEFINE x == f[n - 1] + v[n]
  <2>1. x \in Nat /\ f[n] = Saturate(x) /\ f[n - 1] <= x
    BY <1>1, <1>2
  <2> HIDE DEF x
  <2>2. x < Infinity /\ Saturate(x) = x
    BY <2>1, <1>3, Saturated
  <2>3. f[n - 1] < Infinity
    BY <2>1, <2>2, <1>1, <1>2, InfinityIsNat
  <2> QED BY <2>1, <2>2, <2>3 DEF x
<1> DEFINE T == {m \in 0..N : f[N - m] < Infinity}
<1>4. 0 \in T
  OBVIOUS
<1>5. ASSUME NEW m \in 1..N, m - 1 \in T PROVE m \in T
  <2>1. N - (m - 1) \in 1..N /\ (N - (m - 1)) - 1 = N - m /\ m \in 0..N
    OBVIOUS
  <2> QED BY <2>1, <1>3, <1>5
<1> HIDE DEF T
<1>6. T = 0..N
  BY <1>4, <1>5, AllNumbers DEF T
<1>7. \A n \in 0..N : f[n] < Infinity
  <2>1. ASSUME NEW n \in 0..N PROVE f[n] < Infinity
    <3>1. N - n \in T /\ N - (N - n) = n
      BY <1>6
    <3> QED BY <3>1 DEF T
  <2> QED BY <2>1
<1>8. \A n \in 1..N : n \in 0..N /\ n - 1 \in 0..N
  OBVIOUS
<1> QED
  BY <1>1, <1>2, <1>3, <1>7, <1>8

(* Where one sum exceeds another in every place, it is not the lesser.     *)
LEMMA SumsCompare ==
    ASSUME NEW N \in Nat, NEW v \in [1..N -> Nat], NEW w \in [1..N -> Nat],
           \A n \in 1..N : v[n] <= w[n],
           NEW f, Summed(v, N, f), NEW g, Summed(w, N, g), g[N] < Infinity
    PROVE  f[N] <= g[N]
<1>0. \A n \in 1..N : g[n - 1] \in Nat /\ w[n] \in Nat /\ g[n] = g[n - 1] + w[n]
  BY FiniteSums
<1> DEFINE T == {n \in 0..N : f[n] <= g[n]}
<1>1. 0 \in T
  BY DEF Summed
<1>2. ASSUME NEW n \in 1..N, n - 1 \in T PROVE n \in T
  <2>1. g[n - 1] \in Nat /\ w[n] \in Nat /\ g[n] = g[n - 1] + w[n] /\ n \in 0..N /\ n - 1 \in 0..N
    BY <1>0
  <2>2. f[n - 1] \in Nat /\ v[n] \in Nat /\ f[n] = Saturate(f[n - 1] + v[n]) /\ v[n] <= w[n]
    BY <2>1, InfinityIsNat DEF Summed
  <2>3. f[n - 1] + v[n] \in Nat /\ f[n - 1] + v[n] <= g[n]
    BY <2>1, <2>2, <1>2
  <2>4. Saturate(f[n - 1] + v[n]) <= f[n - 1] + v[n] /\ Saturate(f[n - 1] + v[n]) \in Int
    <3> DEFINE x == f[n - 1] + v[n]
    <3>1. x \in Nat
      BY <2>3
    <3> HIDE DEF x, T
    <3>2. Saturate(x) \in 0..Infinity /\ Saturate(x) <= x
      BY <3>1, Saturated
    <3>3. Saturate(x) <= x /\ Saturate(x) \in Int
      BY <3>2, InfinityIsNat
    <3> QED BY <3>3 DEF x
  <2>5. f[n] <= g[n]
    BY <2>1, <2>2, <2>3, <2>4
  <2> QED BY <2>1, <2>5
<1> HIDE DEF T
<1>3. T = 0..N
  BY <1>1, <1>2, AllNumbers DEF T
<1>4. N \in T
  BY <1>3
<1> QED
  BY <1>4 DEF T

-----------------------------------------------------------------------------
(* Products and quotients.                                                 *)
LEMMA TimesMonotone ==
    ASSUME NEW a \in Int, NEW b \in Int, a <= b, NEW c \in Nat
    PROVE  a * c \in Int /\ b * c \in Int /\ a * c <= b * c /\ c * a = a * c /\ c * b = b * c
<1>1. b - a \in Nat
  OBVIOUS
<1>2. (b - a) * c \in Nat
  BY <1>1
<1>3. b * c = a * c + (b - a) * c
  OBVIOUS
<1> QED
  BY <1>2, <1>3

(* Inequalities divided by a positive number ...                           *)
LEMMA Cancel ==
    ASSUME NEW a \in Int, NEW b \in Int, NEW c \in Nat \ {0}, a * c < b * c + c
    PROVE  a <= b
<1> SUFFICES ASSUME b + 1 <= a PROVE FALSE
  OBVIOUS
<1>1. (b + 1) * c <= a * c /\ a * c \in Int
  BY TimesMonotone
<1>2. (b + 1) * c = b * c + c /\ b * c \in Int
  OBVIOUS
<1> QED
  BY <1>1, <1>2

(* ... and what the integer quotient is, times the divisor.                *)
LEMMA Quotient ==
    ASSUME NEW a \in Int, NEW b \in Nat \ {0}
    PROVE  a \div b \in Int /\ (a \div b) * b <= a /\ a < (a \div b) * b + b /\ (a >= 0 => a \div b >= 0)
OBVIOUS

(* One leg more.                                                           *)
LEMMA SpeedStep ==
    ASSUME NEW a \in Nat, NEW b \in Nat, NEW n \in Nat, NEW e \in Nat, NEW d \in Nat,
           NEW s \in Nat \ {0}, NEW slow \in Nat, NEW fast \in Nat, slow <= s, s <= fast,
           e * s <= d, d <= e * s + s, slow * a <= b, b <= fast * (a + n)
    PROVE  slow * (a + e) <= b + d /\ b + d <= fast * (a + e + (n + 1))
<1>1. slow * e <= s * e /\ slow * e \in Int /\ s * e = e * s /\ e * s \in Int
  BY TimesMonotone
<1>2. slow * (a + e) = slow * a + slow * e /\ slow * a \in Int
  OBVIOUS
<1>3. e + 1 \in Nat /\ s * (e + 1) <= fast * (e + 1) /\ fast * (e + 1) \in Int
  <2>1. e + 1 \in Nat
    OBVIOUS
  <2> QED BY <2>1, TimesMonotone
<1>4. s * (e + 1) = e * s + s
  OBVIOUS
<1>5. fast * (a + e + (n + 1)) = fast * (a + n) + fast * (e + 1) /\ fast * (a + n) \in Int
  OBVIOUS
<1> QED
  BY <1>1, <1>2, <1>3, <1>4, <1>5

(* Over a route flown without a stop, the time is that of its length at a  *)
(* speed between the slowest and the fastest, up to a second a leg.        *)
LEMMA MeanSpeed ==
    ASSUME NEW N \in Nat, NEW d \in [1..N -> Nat], NEW s \in [1..N -> Nat \ {0}], NEW e,
           e = [n \in 1..N |-> d[n] \div s[n]],
           NEW slow \in Nat, NEW fast \in Nat, \A n \in 1..N : slow <= s[n] /\ s[n] <= fast,
           NEW f, Summed(d, N, f), f[N] < Infinity, NEW g, Summed(e, N, g), g[N] < Infinity
    PROVE  slow * g[N] <= f[N] /\ f[N] <= fast * (g[N] + N)
<1>0. ASSUME NEW n \in 1..N
      PROVE  /\ d[n] \in Nat /\ s[n] \in Nat \ {0} /\ e[n] \in Nat
             /\ e[n] * s[n] <= d[n] /\ d[n] <= e[n] * s[n] + s[n]
  <2> DEFINE x == d[n]
             y == s[n]
  <2>1. x \in Nat /\ y \in Nat \ {0} /\ e[n] = x \div y
    OBVIOUS
  <2> HIDE DEF x, y
  <2>2. x \div y \in Nat /\ (x \div y) * y <= x /\ x <= (x \div y) * y + y
    <3>1. /\ x \div y \in Int /\ (x \div y) * y <= x /\ x < (x \div y) * y + y
          /\ (x >= 0 => x \div y >= 0)
      BY <2>1, Quotient
    <3>2. (x \div y) * y + y \in Int
      BY <2>1, <3>1
    <3> QED BY <2>1, <3>1, <3>2
  <2> QED BY <2>1, <2>2 DEF x, y
<1>1. e \in [1..N -> Nat]
  BY <1>0
<1>2. \A n \in 1..N : f[n - 1] \in Nat /\ d[n] \in Nat /\ f[n] = f[n - 1] + d[n]
  BY FiniteSums
<1>3. \A n \in 1..N : g[n - 1] \in Nat /\ e[n] \in Nat /\ g[n] = g[n - 1] + e[n]
  <2>1. ASSUME NEW v \in [1..N -> Nat], Summed(v, N, g)
        PROVE  \A n \in 1..N : g[n - 1] \in Nat /\ v[n] \in Nat /\ g[n] = g[n - 1] + v[n]
    BY <2>1, FiniteSums
  <2> QED BY <1>1, <2>1
<1> DEFINE T == {n \in 0..N : slow * g[n] <= f[n] /\ f[n] <= fast * (g[n] + n)}
<1>4. 0 \in T
  <2>1. f[0] = 0 /\ g[0] = 0 /\ 0 \in 0..N
    BY DEF Summed
  <2> QED BY <2>1
<1>5. ASSUME NEW n \in 1..N, n - 1 \in T PROVE n \in T
  <2> DEFINE a == g[n - 1]
             b == f[n - 1]
             x == e[n]
             y == d[n]
             z == s[n]
             k == n - 1
  <2>1. /\ a \in Nat /\ b \in Nat /\ x \in Nat /\ y \in Nat /\ z \in Nat \ {0} /\ k \in Nat
        /\ g[n] = a + x /\ f[n] = b + y /\ n = k + 1 /\ n \in 0..N
        /\ x * z <= y /\ y <= x * z + z /\ slow <= z /\ z <= fast
    BY <1>0, <1>2, <1>3
  <2>2. slow * a <= b /\ b <= fast * (a + k)
    BY <1>5
  <2> HIDE DEF a, b, x, y, z, k, T
  <2>3. slow * (a + x) <= b + y /\ b + y <= fast * (a + x + (k + 1))
    BY <2>1, <2>2, SpeedStep
  <2>4. slow * g[n] <= f[n] /\ f[n] <= fast * (g[n] + n)
    BY <2>1, <2>3
  <2> QED BY <2>1, <2>4 DEF T
<1> HIDE DEF T
<1>6. T = 0..N
  BY <1>4, <1>5, AllNumbers DEF T
<1>7. N \in T
  BY <1>6
<1> QED
  BY <1>7 DEF T
-----------------------------------------------------------------------------
(* The legs of a route, and what is flown on each.                         *)
LegCount(route) == IF Len(route) = 0 THEN 0 ELSE Len(route) - 1

FlownLeg == [distance : Nat, ground_speed : Int]

(* A route of n points has n - 1 legs, each between two points.            *)
LEMMA LegsAreCounted ==
    ASSUME NEW route \in Seq(Point)
    PROVE  /\ LegCount(route) \in Nat /\ LegsOf(route) = 1..LegCount(route)
           /\ Len(route) \in Nat /\ LegCount(route) <= Len(route)
           /\ (Len(route) >= 2 => LegCount(route) >= 1)
           /\ \A i \in LegsOf(route) : route[i] \in Point /\ route[i + 1] \in Point
BY DEF LegCount, LegsOf

(* A leg has a length ...                                                  *)
LEMMA DistanceIsNat ==
    ASSUME NEW from \in Point, NEW to \in Point
    PROVE  DistanceNm(from, to) \in Nat
<1>1. from[1] \in Int /\ from[2] \in Int /\ to[1] \in Int /\ to[2] \in Int
  BY DEF Point
<1> QED
  BY <1>1 DEF DistanceNm, AbsOf

(* The side of a right triangle is no longer than its hypotenuse.          *)
LEMMA RootIsThere ==
    ASSUME NEW square \in Nat, NEW most \in Nat, square <= most * most
    PROVE  Root(square, most) \in 0..most
<1> DEFINE T == {n \in Nat : square < (n + 1) * (n + 1)}
<1>1. most \in T
  <2>1. (most + 1) * (most + 1) = most * most + 2 * most + 1 /\ most * most \in Nat
    OBVIOUS
  <2>2. square < (most + 1) * (most + 1)
    BY <2>1
  <2> QED BY <2>2
<1>2. PICK r \in T : \A n \in T : r <= n
  <2>1. T \in SUBSET Nat /\ T # {}
    BY <1>1
  <2> QED BY <2>1, LeastNumber
<1>3. r \in 0..most /\ square < (r + 1) * (r + 1)
  BY <1>1, <1>2
<1>4. r * r <= square
  <2>1. CASE r = 0
    BY <2>1
  <2>2. CASE r # 0
    <3>1. r - 1 \in Nat /\ r - 1 \notin T /\ (r - 1) + 1 = r /\ r * r \in Nat
      BY <2>2, <1>2
    <3> QED BY <3>1
  <2> QED BY <2>1, <2>2
<1> HIDE DEF T
<1>5. \E n \in 0..most : n * n <= square /\ square < (n + 1) * (n + 1)
  BY <1>3, <1>4
<1> QED
  BY <1>5 DEF Root

(* ... a course along the meridians and parallels unit sines ...           *)
LEMMA SineIsUnit ==
    ASSUME NEW deg
    PROVE  Sine(deg) \in {-1, 0, 1}
<1>1. CASE deg = 90
  BY <1>1 DEF Sine
<1>2. CASE deg = 270
  BY <1>2 DEF Sine
<1>3. CASE deg # 90 /\ deg # 270
  BY <1>3 DEF Sine
<1> QED
  BY <1>1, <1>2, <1>3

(* ... and the wind triangle, over them, a whole ground speed ...          *)
LEMMA SolvedSpeedIsInt ==
    ASSUME NEW course, NEW tas \in Nat, NEW wind \in Wind
    PROVE  Solve(course, tas, wind) \in Int
<1> DEFINE beta == (wind.direction - course) % 360
           sine == Sine(beta)
           cosine == Cosine(beta)
           w == wind.speed
           across == Lesser(AbsOf(w * sine), tas)
<1>1. sine \in {-1, 0, 1} /\ cosine \in {-1, 0, 1} /\ w \in Nat
  <2> HIDE DEF beta
  <2> QED BY SineIsUnit DEF Cosine, Wind
<1>2. Solve(course, tas, wind) = IF tas <= 0 THEN 0 ELSE Cathetus(tas, across) - w * cosine
  BY DEF Solve
<1> HIDE DEF beta, sine, cosine, w
<1>3. across \in 0..tas
  <2>1. w * sine \in Int
    BY <1>1
  <2>2. AbsOf(w * sine) \in Nat
    BY <2>1 DEF AbsOf
  <2> QED BY <2>2 DEF Lesser
<1> HIDE DEF across
<1>4. Cathetus(tas, across) \in 0..tas
  <2>1. across \in Nat /\ across <= tas
    BY <1>3
  <2>2. across * across <= tas * across /\ tas * across <= tas * tas /\ tas * across \in Int
    BY <2>1, TimesMonotone
  <2>3. across * across \in Nat /\ tas * tas \in Nat
    BY <2>1
  <2>4. tas * tas - across * across \in Nat /\ tas * tas - across * across <= tas * tas
    BY <2>2, <2>3
  <2> DEFINE square == tas * tas - across * across
  <2>5. square \in Nat /\ square <= tas * tas
    BY <2>4
  <2>6. Cathetus(tas, across) = Root(square, tas)
    BY DEF Cathetus
  <2> HIDE DEF square
  <2>7. Root(square, tas) \in 0..tas
    BY <2>5, RootIsThere
  <2> QED BY <2>6, <2>7
<1>5. w * cosine \in Int
  BY <1>1
<1> QED
  BY <1>2, <1>4, <1>5

(* ... on every leg, whether a wind was entered for it or not.             *)
LEMMA SpeedIsInt ==
    ASSUME NEW route \in Seq(Point), NEW i, NEW tas \in Nat,
           NEW aloft \in [1..MaxLegs -> Optional(Wind)]
    PROVE  GroundSpeedOn(route, i, tas, aloft) \in Int
<1>1. WindOn(aloft, i) \in Wind \cup {None}
  BY DEF WindOn, Optional
<1> QED
  BY <1>1, SolvedSpeedIsInt DEF GroundSpeedOn

(* The legs flown at a speed, of a climb or a descent.                     *)
LEMMA LegsAreFlown ==
    ASSUME NEW route \in Seq(Point), NEW tas \in Nat,
           NEW aloft \in [1..MaxLegs -> Optional(Wind)]
    PROVE  LegsAt(route, tas, aloft) \in [1..LegCount(route) -> FlownLeg]
BY LegsAreCounted, DistanceIsNat, SpeedIsInt DEF LegsAt, FlownLeg

(* The descent's legs, back from the arrival, are as many.                 *)
LEMMA LegsAreReversed ==
    ASSUME NEW N \in Nat, NEW legs \in [1..N -> FlownLeg]
    PROVE  Reverse(legs) \in [1..N -> FlownLeg]
<1>1. Len(legs) = N
  OBVIOUS
<1>2. \A i \in 1..N : (N - i) + 1 \in 1..N
  OBVIOUS
<1> QED
  BY <1>1, <1>2 DEF Reverse

-----------------------------------------------------------------------------
(* How far the legs reach.                                                 *)
Lengths(legs) == [i \in DOMAIN legs |-> legs[i].distance]

(* The distance through the first n of them is a sum.                      *)
LEMMA LengthsAreSummed ==
    ASSUME NEW N \in Nat, NEW legs \in [1..N -> FlownLeg]
    PROVE  /\ Len(legs) = N /\ DOMAIN legs = 1..N
           /\ Lengths(legs) \in [1..N -> Nat]
           /\ Summed(Lengths(legs), N, Sums(Lengths(legs)))
           /\ \A n \in 0..N : /\ DistanceThrough(legs, n) = Sums(Lengths(legs))[n]
                              /\ DistanceThrough(legs, n) \in Nat
                              /\ DistanceThrough(legs, n) <= Infinity
<1>1. Len(legs) = N /\ DOMAIN legs = 1..N
  OBVIOUS
<1>2. Lengths(legs) \in [1..N -> Nat]
  BY <1>1 DEF Lengths, FlownLeg
<1>3. Summed(Lengths(legs), N, Sums(Lengths(legs)))
  BY <1>2, SumsAre
<1>4. \A n \in 0..N : DistanceThrough(legs, n) = Sums(Lengths(legs))[n]
  BY DEF DistanceThrough, Lengths
<1>5. \A n \in 0..N : Sums(Lengths(legs))[n] \in 0..Infinity
  BY <1>3 DEF Summed
<1> QED
  BY <1>1, <1>2, <1>3, <1>4, <1>5, InfinityIsNat
-----------------------------------------------------------------------------
(* The nav log.                                                            *)
NavLeg == [distance : Nat, ground_speed : Int, ete : Nat, fuel : Nat]

Etes(legs) == [i \in DOMAIN legs |-> legs[i].ete]
Fuels(legs) == [i \in DOMAIN legs |-> legs[i].fuel]

LegIsTimed(leg, burn) ==
    /\ leg.ete = IF leg.ground_speed > 0 THEN leg.distance \div leg.ground_speed ELSE Infinity
    /\ leg.fuel = IF leg.ete = Infinity THEN Infinity ELSE leg.ete * burn

IsLog(log, route, burn) ==
    /\ log.legs \in [1..LegCount(route) -> NavLeg]
    /\ \A i \in 1..LegCount(route) :
         LegIsTimed(log.legs[i], burn) /\ log.legs[i].distance = Distances(route)[i]
    /\ log.total_distance = Sums(Distances(route))[LegCount(route)]
    /\ log.total_ete = Sums(Etes(log.legs))[LegCount(route)]
    /\ log.total_fuel = Sums(Fuels(log.legs))[LegCount(route)]

(* The length of the route is a sum.                                       *)
LEMMA DistancesAreSummed ==
    ASSUME NEW route \in Seq(Point)
    PROVE  /\ Distances(route) \in [1..LegCount(route) -> Nat]
           /\ Summed(Distances(route), LegCount(route), Sums(Distances(route)))
           /\ Len(Distances(route)) = LegCount(route)
<1>1. Distances(route) \in [1..LegCount(route) -> Nat]
  BY LegsAreCounted, DistanceIsNat DEF Distances
<1>2. LegCount(route) \in Nat
  BY LegsAreCounted
<1> QED
  BY <1>1, <1>2, SumsAre

(* The climb's and the descent's legs are of the lengths of the route's.   *)
LEMMA LegsAreOfTheRoute ==
    ASSUME NEW route \in Seq(Point), NEW tas \in Nat,
           NEW aloft \in [1..MaxLegs -> Optional(Wind)]
    PROVE  Lengths(LegsAt(route, tas, aloft)) = Distances(route)
BY DEF Lengths, LegsAt, Distances

(* A row of the log carries its distance, and a time when it has a speed.  *)
LEMMA LegIsPlanned ==
    ASSUME NEW distance \in Nat, NEW speed \in Int, NEW burn \in Nat
    PROVE  /\ LegPlan(distance, speed, burn) \in NavLeg
           /\ LegIsTimed(LegPlan(distance, speed, burn), burn)
           /\ LegPlan(distance, speed, burn).distance = distance
<1>1. speed > 0 => distance \div speed \in Nat
  BY Quotient
<1> DEFINE ete == IF speed > 0 THEN distance \div speed ELSE Infinity
           fuel == IF ete = Infinity THEN Infinity ELSE ete * burn
<1>2. ete \in Nat
  BY <1>1, InfinityIsNat
<1>3. LegPlan(distance, speed, burn)
        = [distance |-> distance, ground_speed |-> speed, ete |-> ete, fuel |-> fuel]
  BY DEF LegPlan
<1>4. fuel \in Nat
  <2> HIDE DEF ete
  <2> QED BY <1>2, InfinityIsNat
<1>5. [distance |-> distance, ground_speed |-> speed, ete |-> ete, fuel |-> fuel] \in NavLeg
  <2> HIDE DEF ete, fuel
  <2> QED BY <1>2, <1>4 DEF NavLeg
<1>6. LegIsTimed([distance |-> distance, ground_speed |-> speed, ete |-> ete, fuel |-> fuel], burn)
  BY DEF LegIsTimed
<1> HIDE DEF ete, fuel
<1> QED
  BY <1>3, <1>5, <1>6

(* plan_route: a row for each leg of the route, and the totals their sums. *)
LEMMA LogIsOfTheRoute ==
    ASSUME NEW route \in Seq(Point), NEW aircraft \in Aircraft,
           NEW aloft \in [1..MaxLegs -> Optional(Wind)]
    PROVE  IsLog(PlanRoute(route, aircraft, aloft), route, aircraft.fuel_burn)
<1> DEFINE N == LegCount(route)
           tas == aircraft.cruise_tas
           burn == aircraft.fuel_burn
           legs == [i \in LegsOf(route) |-> PlanLeg(route, i, aircraft, aloft)]
           log == PlanRoute(route, aircraft, aloft)
<1>1. tas \in Nat /\ burn \in Nat
  BY DEF Aircraft
<1>2. N \in Nat /\ LegsOf(route) = 1..N
  BY LegsAreCounted
<1>3. ASSUME NEW i \in LegsOf(route)
      PROVE  /\ DistanceNm(route[i], route[i + 1]) \in Nat
             /\ GroundSpeedOn(route, i, tas, aloft) \in Int
             /\ legs[i] = LegPlan(DistanceNm(route[i], route[i + 1]), GroundSpeedOn(route, i, tas, aloft), burn)
  BY <1>1, LegsAreCounted, DistanceIsNat, SpeedIsInt DEF PlanLeg
<1>4. ASSUME NEW i \in LegsOf(route)
      PROVE  /\ legs[i] \in NavLeg /\ LegIsTimed(legs[i], burn)
             /\ legs[i].distance = DistanceNm(route[i], route[i + 1])
  <2> DEFINE d == DistanceNm(route[i], route[i + 1])
             v == GroundSpeedOn(route, i, tas, aloft)
  <2>1. d \in Nat /\ v \in Int /\ burn \in Nat /\ legs[i] = LegPlan(d, v, burn)
    BY <1>1, <1>3
  <2> HIDE DEF legs, tas, burn, d, v
  <2>2. /\ LegPlan(d, v, burn) \in NavLeg /\ LegIsTimed(LegPlan(d, v, burn), burn)
        /\ LegPlan(d, v, burn).distance = d
    BY <2>1, LegIsPlanned
  <2> QED BY <2>1, <2>2 DEF d
<1>5. Distances(route) = [i \in LegsOf(route) |-> DistanceNm(route[i], route[i + 1])]
  BY DEF Distances
<1>6. legs \in [1..N -> NavLeg] /\ DOMAIN legs = 1..N /\ Len(legs) = N
  <2>1. legs \in [1..N -> NavLeg]
    BY <1>2, <1>4
  <2> HIDE DEF legs, N
  <2> QED BY <1>2, <2>1
<1>7. log = Totals(legs)
  BY DEF PlanRoute
<1> HIDE DEF legs
<1>8. /\ Totals(legs).legs = legs
      /\ Totals(legs).total_distance = Sums([i \in DOMAIN legs |-> legs[i].distance])[Len(legs)]
      /\ Totals(legs).total_ete = Sums([i \in DOMAIN legs |-> legs[i].ete])[Len(legs)]
      /\ Totals(legs).total_fuel = Sums([i \in DOMAIN legs |-> legs[i].fuel])[Len(legs)]
  BY DEF Totals, SumOf
<1>9. [i \in DOMAIN legs |-> legs[i].distance] = Distances(route)
  <2>1. \A i \in 1..N : legs[i].distance = DistanceNm(route[i], route[i + 1])
    BY <1>2, <1>4
  <2> HIDE DEF N
  <2> QED BY <1>2, <1>5, <1>6, <2>1
<1>10. /\ [i \in DOMAIN legs |-> legs[i].ete] = Etes(legs)
       /\ [i \in DOMAIN legs |-> legs[i].fuel] = Fuels(legs)
  BY DEF Etes, Fuels
<1>11. \A i \in 1..N : LegIsTimed(legs[i], burn) /\ legs[i].distance = Distances(route)[i]
  BY <1>2, <1>4, <1>5
<1> HIDE DEF log, N, burn
<1> QED
  BY <1>6, <1>7, <1>8, <1>9, <1>10, <1>11 DEF IsLog, log, N, burn
-----------------------------------------------------------------------------
(* More on sums: of multiples, of numbers one of which is infinite, and of *)
(* the least and the greatest of some numbers.                             *)
LEMMA SaturatedSum ==
    ASSUME NEW a \in Nat, NEW b \in Nat
    PROVE  /\ Saturate(Saturate(a) + b) = Saturate(a + b)
           /\ Saturate(a + Saturate(b)) = Saturate(a + b)
           /\ Saturate(Saturate(a) + Saturate(b)) = Saturate(a + b)
BY InfinityIsNat DEF Saturate, Lesser

TimesTo(a, c, b) == b = Saturate(a * c)
Scaled(w, v, c, N) == \A n \in 1..N : w[n] = v[n] * c

(* A sum of multiples is the multiple of the sum, rounded leg by leg.      *)
LEMMA SumsScaled ==
    ASSUME NEW N \in Nat, NEW v \in [1..N -> Nat], NEW c \in Nat, NEW w \in [1..N -> Nat],
           Scaled(w, v, c, N),
           NEW f, Summed(w, N, f), NEW g, Summed(v, N, g), g[N] < Infinity
    PROVE  TimesTo(g[N], c, f[N])
<1>1. \A n \in 1..N : g[n - 1] \in Nat /\ v[n] \in Nat /\ g[n] = g[n - 1] + v[n]
  BY FiniteSums
<1>2. f[0] = 0 /\ g[0] = 0 /\ \A n \in 1..N : f[n] = Saturate(f[n - 1] + w[n])
  BY DEF Summed
<1> DEFINE T == {n \in 0..N : f[n] = Saturate(g[n] * c)}
<1>3. 0 \in T
  <2>1. Saturate(0) = 0
    BY InfinityIsNat DEF Saturate, Lesser
  <2> QED BY <1>2, <2>1
<1>4. ASSUME NEW n \in 1..N, n - 1 \in T PROVE n \in T
  <2> DEFINE a == g[n - 1]
             x == v[n]
  <2>1. a \in Nat /\ x \in Nat /\ g[n] = a + x /\ w[n] = x * c /\ n \in 0..N
    BY <1>1 DEF Scaled
  <2>2. f[n] = Saturate(Saturate(a * c) + x * c)
    BY <1>2, <1>4 DEF Scaled
  <2> HIDE DEF a, x, T
  <2>3. a * c \in Nat /\ x * c \in Nat /\ (a + x) * c = a * c + x * c
    BY <2>1
  <2>4. Saturate(Saturate(a * c) + x * c) = Saturate(a * c + x * c)
    BY <2>3, SaturatedSum
  <2>5. f[n] = Saturate((a + x) * c)
    BY <2>2, <2>3, <2>4
  <2> QED BY <2>1, <2>5 DEF T
<1> HIDE DEF T
<1>5. T = 0..N
  BY <1>3, <1>4, AllNumbers DEF T
<1>6. N \in T
  BY <1>5
<1> QED
  BY <1>6 DEF T, TimesTo

(* An infinite part makes an infinite sum.                                 *)
LEMMA SumsOfInfinity ==
    ASSUME NEW N \in Nat, NEW v \in [1..N -> Nat], NEW i \in 1..N, v[i] >= Infinity,
           NEW f, Summed(v, N, f)
    PROVE  f[N] = Infinity
<1>1. \A n \in 1..N : f[n - 1] \in Nat /\ f[n] = Saturate(f[n - 1] + v[n]) /\ v[n] \in Nat
  BY InfinityIsNat DEF Summed
<1> DEFINE T == {n \in 0..N : n < i \/ f[n] = Infinity}
<1>2. 0 \in T
  OBVIOUS
<1>3. ASSUME NEW n \in 1..N, n - 1 \in T PROVE n \in T
  <2>1. CASE n < i
    BY <2>1
  <2>2. CASE n >= i
    <3> DEFINE x == f[n - 1] + v[n]
    <3>1. x \in Nat /\ f[n] = Saturate(x)
      BY <1>1
    <3>2. x >= Infinity
      BY <1>1, <1>3, <2>2, InfinityIsNat
    <3> HIDE DEF x, T
    <3>3. f[n] = Infinity
      BY <3>1, <3>2, Saturated
    <3> QED BY <3>3 DEF T
  <2> QED BY <2>1, <2>2
<1> HIDE DEF T
<1>4. T = 0..N
  BY <1>2, <1>3, AllNumbers DEF T
<1>5. N \in T
  BY <1>4
<1> QED
  BY <1>5 DEF T

(* Of finitely many speeds one is the least and one the greatest.          *)
LEMMA ExtremesAreThere ==
    ASSUME NEW N \in Nat \ {0}, NEW s \in [1..N -> Nat]
    PROVE  \E i, j \in 1..N : \A n \in 1..N : s[i] <= s[n] /\ s[n] <= s[j]
<1> DEFINE T == {k \in 0..N : k = 0 \/ \E i, j \in 1..k : \A n \in 1..k : s[i] <= s[n] /\ s[n] <= s[j]}
<1>1. 0 \in T
  OBVIOUS
<1>2. ASSUME NEW k \in 1..N, k - 1 \in T PROVE k \in T
  <2>1. k \in 0..N /\ k \in 1..k /\ \A n \in 1..k : n \in 1..N /\ s[n] \in Nat /\ (n = k \/ n \in 1..(k - 1))
    OBVIOUS
  <2>2. CASE k = 1
    <3>1. \A n \in 1..k : s[k] <= s[n] /\ s[n] <= s[k]
      BY <2>1, <2>2
    <3> QED BY <2>1, <3>1
  <2>3. CASE k # 1
    <3>1. PICK i, j \in 1..(k - 1) : \A n \in 1..(k - 1) : s[i] <= s[n] /\ s[n] <= s[j]
      BY <1>2, <2>3
    <3> DEFINE low == IF s[k] <= s[i] THEN k ELSE i
               high == IF s[j] <= s[k] THEN k ELSE j
    <3>2. i \in 1..k /\ j \in 1..k /\ low \in 1..k /\ high \in 1..k
      BY <2>1
    <3>3. \A n \in 1..k : s[low] <= s[n] /\ s[n] <= s[high]
      BY <2>1, <3>1, <3>2
    <3> HIDE DEF low, high
    <3> QED BY <2>1, <3>2, <3>3
  <2> QED BY <2>2, <2>3
<1> HIDE DEF T
<1>3. T = 0..N
  BY <1>1, <1>2, AllNumbers DEF T
<1>4. N \in T
  BY <1>3
<1> QED
  BY <1>4 DEF T

-----------------------------------------------------------------------------
(* What the nav log's totals say of the route.                             *)
LEMMA EtesAre ==
    ASSUME NEW route \in Seq(Point), NEW burn \in Nat, NEW log, IsLog(log, route, burn)
    PROVE  /\ DOMAIN log.legs = 1..LegCount(route)
           /\ Etes(log.legs) \in [1..LegCount(route) -> Nat]
           /\ Fuels(log.legs) \in [1..LegCount(route) -> Nat]
           /\ Summed(Etes(log.legs), LegCount(route), Sums(Etes(log.legs)))
           /\ Summed(Fuels(log.legs), LegCount(route), Sums(Fuels(log.legs)))
           /\ log.total_ete \in 0..Infinity /\ log.total_distance \in 0..Infinity
<1>1. LegCount(route) \in Nat
  BY LegsAreCounted
<1>2. log.legs \in [1..LegCount(route) -> NavLeg] /\ DOMAIN log.legs = 1..LegCount(route)
  BY DEF IsLog
<1>3. /\ Etes(log.legs) \in [1..LegCount(route) -> Nat]
      /\ Fuels(log.legs) \in [1..LegCount(route) -> Nat]
  BY <1>2 DEF Etes, Fuels, NavLeg
<1>4. /\ Summed(Etes(log.legs), LegCount(route), Sums(Etes(log.legs)))
      /\ Summed(Fuels(log.legs), LegCount(route), Sums(Fuels(log.legs)))
  BY <1>1, <1>3, SumsAre
<1>5. log.total_ete \in 0..Infinity
  BY <1>1, <1>4 DEF IsLog, Summed
<1>6. log.total_distance \in 0..Infinity
  BY <1>1, DistancesAreSummed DEF IsLog, Summed
<1> QED
  BY <1>2, <1>3, <1>4, <1>5, <1>6

(* A route that takes some time and no more is flown over the ground.      *)
LEMMA FlyableLegs ==
    ASSUME NEW route \in Seq(Point), NEW burn \in Nat, NEW log, IsLog(log, route, burn),
           log.total_ete < Infinity
    PROVE  \A i \in 1..LegCount(route) :
             /\ log.legs[i].ground_speed \in Nat \ {0} /\ log.legs[i].ete \in Nat
             /\ log.legs[i].ete < Infinity
             /\ log.legs[i].ete = log.legs[i].distance \div log.legs[i].ground_speed
<1> DEFINE N == LegCount(route)
           e == Etes(log.legs)
           g == Sums(e)
<1>1. N \in Nat /\ e \in [1..N -> Nat] /\ Summed(e, N, g) /\ g[N] < Infinity
  BY LegsAreCounted, EtesAre DEF IsLog
<1>2. \A i \in 1..N : e[i] = log.legs[i].ete
  BY EtesAre DEF Etes
<1>3. \A i \in 1..N : LegIsTimed(log.legs[i], burn) /\ log.legs[i] \in NavLeg
  BY DEF IsLog
<1> HIDE DEF N, e, g
<1>4. /\ \A n \in 0..N : g[n] \in Nat /\ g[n] < Infinity
      /\ \A n \in 1..N : g[n - 1] \in Nat /\ e[n] \in Nat /\ g[n] = g[n - 1] + e[n]
  BY <1>1, FiniteSums
<1>5. ASSUME NEW i \in 1..N PROVE e[i] \in Nat /\ e[i] < Infinity
  <2>1. i \in 0..N /\ g[i] < Infinity /\ g[i - 1] \in Nat /\ e[i] \in Nat /\ g[i] = g[i - 1] + e[i]
    BY <1>1, <1>4
  <2> QED BY <2>1, InfinityIsNat
<1>6. ASSUME NEW i \in 1..N
      PROVE  /\ log.legs[i].ground_speed \in Nat \ {0} /\ log.legs[i].ete \in Nat
             /\ log.legs[i].ete < Infinity
             /\ log.legs[i].ete = log.legs[i].distance \div log.legs[i].ground_speed
  <2>1. log.legs[i].ete < Infinity /\ log.legs[i].ete \in Nat /\ log.legs[i].ground_speed \in Int
    BY <1>2, <1>3, <1>5 DEF NavLeg
  <2>2. log.legs[i].ete # Infinity
    BY <2>1, InfinityIsNat
  <2>3. log.legs[i].ground_speed > 0
    BY <1>3, <2>1, <2>2 DEF LegIsTimed
  <2> QED BY <1>3, <2>1, <2>3 DEF LegIsTimed
<1> QED
  BY <1>6 DEF N

(* The whole route, at the cruise burn.                                    *)
LEMMA FuelIsPerTime ==
    ASSUME NEW route \in Seq(Point), Sums(Distances(route))[LegCount(route)] < Infinity,
           NEW burn \in Nat, NEW log, IsLog(log, route, burn)
    PROVE  log.total_fuel = Saturate(Gallons(log.total_ete, burn))
<1> DEFINE N == LegCount(route)
           e == Etes(log.legs)
           w == Fuels(log.legs)
<1>1. /\ N \in Nat /\ e \in [1..N -> Nat] /\ w \in [1..N -> Nat]
      /\ Summed(e, N, Sums(e)) /\ Summed(w, N, Sums(w))
      /\ log.total_ete = Sums(e)[N] /\ log.total_fuel = Sums(w)[N]
  BY LegsAreCounted, EtesAre DEF IsLog
<1>2. \A i \in 1..N : e[i] = log.legs[i].ete /\ w[i] = log.legs[i].fuel
  BY EtesAre DEF Etes, Fuels
<1>3. \A i \in 1..N : LegIsTimed(log.legs[i], burn) /\ log.legs[i] \in NavLeg
                      /\ log.legs[i].distance = Distances(route)[i]
  BY DEF IsLog
<1>4. Sums(e)[N] \in 0..Infinity
  BY <1>1 DEF Summed
<1>5. CASE log.total_ete < Infinity
  <2>1. \A i \in 1..N : log.legs[i].ete \in Nat /\ log.legs[i].ete < Infinity
    BY <1>5, FlyableLegs
  <2> HIDE DEF N, e, w
  <2>2. Scaled(w, e, burn, N)
    BY <1>2, <1>3, <2>1, InfinityIsNat DEF LegIsTimed, Scaled
  <2>3. Sums(w)[N] = Saturate(Sums(e)[N] * burn)
    <3> DEFINE f == Sums(w)
               g == Sums(e)
    <3>1. Summed(w, N, f) /\ Summed(e, N, g) /\ g[N] < Infinity
      BY <1>1, <1>5
    <3> HIDE DEF f, g
    <3>2. N \in Nat /\ e \in [1..N -> Nat] /\ w \in [1..N -> Nat]
      BY <1>1
    <3>3. TimesTo(g[N], burn, f[N])
      BY <2>2, <3>1, <3>2, SumsScaled
    <3> QED BY <3>3 DEF f, g, TimesTo
  <2>4. log.total_ete # Infinity
    BY <1>1, <1>4, <1>5, InfinityIsNat
  <2> QED BY <1>1, <2>3, <2>4 DEF Gallons
<1>6. CASE ~(log.total_ete < Infinity)
  <2> DEFINE d == Distances(route)
  <2>1. d \in [1..N -> Nat] /\ Summed(d, N, Sums(d)) /\ Sums(d)[N] < Infinity
    BY DistancesAreSummed
  <2> HIDE DEF N, e, w, d
  <2>2. PICK i \in 1..N : ~(e[i] <= d[i])
    <3>1. ASSUME \A n \in 1..N : e[n] <= d[n]
          PROVE  Sums(e)[N] <= Sums(d)[N]
      BY <1>1, <2>1, <3>1, SumsCompare
    <3>2. Sums(e)[N] \in Int /\ Sums(d)[N] \in Int
      BY <1>1, <1>4, <2>1, InfinityIsNat DEF Summed
    <3> QED BY <1>1, <1>6, <2>1, <3>1, <3>2, InfinityIsNat
  <2>3. e[i] = Infinity
    <3> DEFINE leg == log.legs[i]
               speed == leg.ground_speed
               distance == leg.distance
    <3>1. leg.ete = e[i] /\ distance = d[i] /\ distance \in Nat /\ speed \in Int /\ LegIsTimed(leg, burn)
      BY <1>2, <1>3 DEF d, NavLeg
    <3>2. speed > 0 => distance \div speed <= distance
      <4> HIDE DEF speed, distance
      <4>1. ASSUME speed > 0 PROVE distance \div speed <= distance
        <5>1. distance \div speed \in Int /\ (distance \div speed) * speed <= distance /\ distance \div speed >= 0
          BY <3>1, <4>1, Quotient
        <5> DEFINE q == distance \div speed
        <5>2. q \in Nat /\ 1 \in Int /\ speed \in Int /\ 1 <= speed /\ q * speed <= distance
          BY <3>1, <4>1, <5>1
        <5> HIDE DEF q
        <5>3. 1 * q <= speed * q /\ speed * q = q * speed /\ speed * q \in Int
          BY <5>2, TimesMonotone
        <5>4. q <= distance
          BY <3>1, <5>2, <5>3
        <5> QED BY <5>4 DEF q
      <4> QED BY <4>1
    <3>3. ~(speed > 0)
      BY <3>1, <3>2, <2>2 DEF LegIsTimed
    <3> QED BY <3>1, <3>3 DEF LegIsTimed
  <2>4. w[i] = Infinity
    BY <1>2, <1>3, <2>3 DEF LegIsTimed
  <2>5. Sums(w)[N] = Infinity /\ Sums(e)[N] = Infinity
    <3> DEFINE f == Sums(w)
               g == Sums(e)
    <3>1. Summed(w, N, f) /\ Summed(e, N, g)
      BY <1>1
    <3> HIDE DEF f, g
    <3>2. w[i] >= Infinity /\ e[i] >= Infinity
      BY <2>3, <2>4, InfinityIsNat
    <3>3. f[N] = Infinity
      BY <1>1, <3>1, <3>2, SumsOfInfinity
    <3>4. g[N] = Infinity
      BY <1>1, <3>1, <3>2, SumsOfInfinity
    <3> QED BY <3>3, <3>4 DEF f, g
  <2>6. Saturate(Infinity) = Infinity
    BY DEF Saturate, Lesser
  <2> QED BY <1>1, <2>5, <2>6 DEF Gallons
<1> QED
  BY <1>5, <1>6
-----------------------------------------------------------------------------
(* The level part of the route, at the mean speed of the whole.            *)
LEMMA LevelPart ==
    ASSUME NEW E \in Nat, NEW D \in Nat \ {0}, NEW N \in Nat, NEW slow \in Nat, NEW fast \in Nat,
           NEW cd \in Nat, cd <= D, slow * E <= D, D <= fast * (E + N), NEW t \in Nat,
           t * D <= cd * E, cd * E < t * D + D
    PROVE  slow * t <= cd /\ cd <= fast * (t + (N + 1))
<1>1. slow * t <= cd
  <2> DEFINE a == t * D
             b == cd * E
             c == slow * E
  <2>1. a \in Int /\ b \in Int /\ a <= b /\ c \in Int /\ c <= D
    OBVIOUS
  <2> HIDE DEF a, b, c
  <2>2. a * slow <= b * slow /\ a * slow \in Int /\ b * slow \in Int
    BY <2>1, TimesMonotone
  <2>3. c * cd <= D * cd /\ D * cd = cd * D /\ cd * D \in Int /\ c * cd \in Int
    BY <2>1, TimesMonotone
  <2>4. b * slow = c * cd
    BY DEF b, c
  <2>5. a * slow = (slow * t) * D
    BY DEF a
  <2>6. (slow * t) * D < cd * D + D
    BY <2>2, <2>3, <2>4, <2>5
  <2>7. slow * t \in Int
    OBVIOUS
  <2> DEFINE p == slow * t
  <2> HIDE DEF p
  <2>8. p <= cd
    BY <2>6, <2>7, Cancel DEF p
  <2> QED BY <2>8 DEF p
<1>2. cd <= fast * (t + (N + 1))
  <2> DEFINE a == t * D + D + D * N
             b == cd * E + cd * N
             c == fast * (E + N)
  <2>1. cd * N <= D * N /\ cd * N \in Int /\ D * N \in Int /\ cd * E \in Int /\ t * D \in Int
    BY TimesMonotone
  <2>2. a \in Int /\ b \in Int /\ b <= a
    BY <2>1
  <2>3. c \in Int /\ D <= c
    OBVIOUS
  <2> HIDE DEF a, b, c
  <2>4. b * fast <= a * fast /\ a * fast \in Int /\ b * fast \in Int
    BY <2>2, TimesMonotone
  <2>5. D * cd <= c * cd /\ D * cd = cd * D /\ c * cd \in Int
    BY <2>3, TimesMonotone
  <2>6. c * cd = b * fast
    BY DEF b, c
  <2> DEFINE p == fast * (t + (N + 1))
  <2>7. a * fast = p * D /\ p \in Int
    BY DEF a
  <2> HIDE DEF p
  <2>8. cd * D < p * D + D
    BY <2>4, <2>5, <2>6, <2>7
  <2>9. cd <= p
    BY <2>7, <2>8, Cancel
  <2> QED BY <2>9 DEF p
<1> QED
  BY <1>1, <1>2

IsLevelTime(slow, fast, t, cd, n) == slow * t <= cd /\ cd <= fast * (t + n)

SpeedsOf(log) == {log.legs[i].ground_speed : i \in DOMAIN log.legs}

(* The route's own legs are flown in the nav log's time, up to a second a  *)
(* leg, at a speed between their slowest and their fastest.                *)
LEMMA RouteAtMeanSpeed ==
    ASSUME NEW route \in Seq(Point), LegCount(route) >= 1,
           Sums(Distances(route))[LegCount(route)] < Infinity,
           NEW burn \in Nat, NEW log, IsLog(log, route, burn), log.total_ete < Infinity
    PROVE  \E slow, fast \in SpeedsOf(log) :
             /\ slow \in Nat /\ fast \in Nat
             /\ IsLevelTime(slow, fast, log.total_ete, log.total_distance, LegCount(route))
<1> DEFINE N == LegCount(route)
           d == Distances(route)
           e == Etes(log.legs)
           s == [n \in 1..N |-> log.legs[n].ground_speed]
           f == Sums(d)
           g == Sums(e)
<1>1. /\ N \in Nat \ {0} /\ d \in [1..N -> Nat] /\ Summed(d, N, f) /\ f[N] < Infinity
      /\ Summed(e, N, g) /\ g[N] < Infinity /\ log.total_ete = g[N] /\ log.total_distance = f[N]
  BY LegsAreCounted, DistancesAreSummed, EtesAre DEF IsLog
<1>2. /\ s \in [1..N -> Nat \ {0}] /\ DOMAIN log.legs = 1..N
      /\ e = [n \in 1..N |-> d[n] \div s[n]]
  <2>1. \A i \in 1..N : /\ log.legs[i].ground_speed \in Nat \ {0}
                        /\ log.legs[i].ete = log.legs[i].distance \div log.legs[i].ground_speed
    BY FlyableLegs
  <2>2. DOMAIN log.legs = 1..N
    BY EtesAre
  <2>3. \A i \in 1..N : log.legs[i].distance = d[i]
    BY DEF IsLog
  <2>4. e = [n \in 1..N |-> log.legs[n].ete]
    BY <2>2 DEF Etes
  <2> HIDE DEF N, d, e
  <2> QED BY <2>1, <2>2, <2>3, <2>4
<1>3. \A i \in 1..N : s[i] \in SpeedsOf(log)
  BY <1>2 DEF SpeedsOf
<1> HIDE DEF N, d, e, s, f, g
<1>4. PICK i, j \in 1..N : \A n \in 1..N : s[i] <= s[n] /\ s[n] <= s[j]
  <2>1. s \in [1..N -> Nat]
    BY <1>2
  <2> QED BY <1>1, <2>1, ExtremesAreThere
<1> DEFINE slow == s[i]
           fast == s[j]
<1>5. slow \in Nat /\ fast \in Nat /\ slow \in SpeedsOf(log) /\ fast \in SpeedsOf(log)
  BY <1>2, <1>3
<1>6. \A n \in 1..N : slow <= s[n] /\ s[n] <= fast
  BY <1>4
<1> HIDE DEF slow, fast
<1>7. slow * g[N] <= f[N] /\ f[N] <= fast * (g[N] + N)
  BY <1>1, <1>2, <1>5, <1>6, MeanSpeed
<1>8. IsLevelTime(slow, fast, g[N], f[N], N)
  BY <1>7 DEF IsLevelTime
<1> QED
  BY <1>1, <1>5, <1>8 DEF N

(* The time in level flight is that of its miles at some speed between the *)
(* slowest and the fastest leg of the log.                                 *)
LEMMA CruiseIsTimed ==
    ASSUME NEW route \in Seq(Point), LegCount(route) >= 1,
           Sums(Distances(route))[LegCount(route)] < Infinity,
           NEW burn \in Nat, NEW log, IsLog(log, route, burn),
           NEW vertical, vertical.cruise_distance \in Nat,
           vertical.cruise_distance <= log.total_distance
    PROVE  /\ CruiseTime(vertical, log) \in Nat
           /\ log.total_ete < Infinity =>
                \E slow, fast \in SpeedsOf(log) :
                  IsLevelTime(slow, fast, CruiseTime(vertical, log), vertical.cruise_distance, Len(route))
<1> DEFINE E == log.total_ete
           D == log.total_distance
           N == LegCount(route)
           cd == vertical.cruise_distance
           t == CruiseTime(vertical, log)
<1>1. E \in Nat /\ D \in Nat /\ N \in Nat /\ cd \in Nat /\ cd <= D /\ E <= Infinity
  BY EtesAre, LegsAreCounted, InfinityIsNat
<1>2. N >= 1 /\ Len(route) = N + 1
  BY DEF LegCount
<1>3. t = IF E \in {0, Infinity} \/ D = 0 THEN 0 ELSE (cd * E) \div D
  BY DEF CruiseTime
<1>4. ASSUME E < Infinity
      PROVE  \E slow, fast \in SpeedsOf(log) :
               /\ slow \in Nat /\ fast \in Nat
               /\ IsLevelTime(slow, fast, E, D, N)
  BY <1>4, RouteAtMeanSpeed
<1> HIDE DEF E, D, N, cd, t
<1>5. CASE E \in {0, Infinity} \/ D = 0
  <2>1. t = 0
    BY <1>3, <1>5
  <2>2. ASSUME E < Infinity
        PROVE  \E slow, fast \in SpeedsOf(log) : IsLevelTime(slow, fast, t, cd, Len(route))
    <3>1. PICK slow \in SpeedsOf(log), fast \in SpeedsOf(log) :
            /\ slow \in Nat /\ fast \in Nat
            /\ IsLevelTime(slow, fast, E, D, N)
      BY <1>4, <2>2
    <3>2. slow * t <= cd
      BY <1>1, <2>1, <3>1
    <3>3. cd <= fast * (t + (N + 1))
      <4>1. CASE D = 0
        <5>1. fast * (N + 1) \in Nat /\ cd = 0
          BY <1>1, <3>1, <4>1
        <5> QED BY <2>1, <5>1, <1>1
      <4>2. CASE D # 0
        <5>1. E = 0
          BY <1>5, <2>2, <4>2, <1>1, InfinityIsNat
        <5>2. D <= fast * N
          BY <1>1, <3>1, <5>1 DEF IsLevelTime
        <5>3. N * fast <= (N + 1) * fast /\ fast * N = N * fast /\ fast * (N + 1) = (N + 1) * fast
              /\ N * fast \in Int /\ (N + 1) * fast \in Int
          BY <1>1, <3>1, TimesMonotone
        <5> QED BY <1>1, <2>1, <5>2, <5>3
      <4> QED BY <4>1, <4>2
    <3>4. IsLevelTime(slow, fast, t, cd, Len(route))
      BY <1>2, <3>2, <3>3 DEF IsLevelTime
    <3> QED BY <3>4
  <2> QED BY <2>1, <2>2 DEF E, cd, t
<1>6. CASE ~(E \in {0, Infinity} \/ D = 0)
  <2>1. /\ t = (cd * E) \div D /\ cd * E \in Nat /\ D \in Nat \ {0}
    BY <1>1, <1>3, <1>6
  <2>2. t \in Nat /\ t * D <= cd * E /\ cd * E < t * D + D
    <3> DEFINE a == cd * E
    <3>1. a \in Nat /\ t = a \div D /\ D \in Nat \ {0}
      BY <2>1
    <3> HIDE DEF a
    <3>2. /\ a \div D \in Int /\ (a \div D) * D <= a /\ a < (a \div D) * D + D
          /\ (a >= 0 => a \div D >= 0)
      BY <3>1, Quotient
    <3>3. t \in Nat /\ t * D <= a /\ a < t * D + D
      BY <3>1, <3>2
    <3> QED BY <3>3 DEF a
  <2>3. ASSUME E < Infinity
        PROVE  \E slow, fast \in SpeedsOf(log) : IsLevelTime(slow, fast, t, cd, Len(route))
    <3>1. PICK slow \in SpeedsOf(log), fast \in SpeedsOf(log) :
            /\ slow \in Nat /\ fast \in Nat
            /\ IsLevelTime(slow, fast, E, D, N)
      BY <1>4, <2>3
    <3>2. slow * E <= D /\ D <= fast * (E + N)
      BY <3>1 DEF IsLevelTime
    <3>3. slow * t <= cd /\ cd <= fast * (t + (N + 1))
      BY <1>1, <2>1, <2>2, <3>1, <3>2, LevelPart
    <3>4. IsLevelTime(slow, fast, t, cd, Len(route))
      BY <1>2, <3>3 DEF IsLevelTime
    <3> QED BY <3>4
  <2> QED BY <2>2, <2>3 DEF E, cd, t
<1> QED
  BY <1>5, <1>6
-----------------------------------------------------------------------------
(* The points of the vertical profile.                                     *)
LEMMA ChangesAreInt ==
    ASSUME NEW N \in Nat, NEW legs \in [1..N -> FlownLeg], NEW altitude \in Int, NEW rate \in Nat
    PROVE  DistanceForAltitudeChange(legs, altitude, rate) \in Optional(Int)
<1> DEFINE v == [i \in DOMAIN legs |->
                   IF Stuck(legs[i]) THEN Infinity ELSE legs[i].distance \div legs[i].ground_speed]
           need == (60 * altitude) \div rate
           done == {i \in DOMAIN legs : SecondsThrough(legs, i) >= need}
           last == CHOOSE i \in done : \A j \in done : i <= j
<1>1. DOMAIN legs = 1..N /\ \A i \in 1..N : legs[i].distance \in Nat /\ legs[i].ground_speed \in Int
  BY DEF FlownLeg
<1>2. v \in [1..N -> Nat]
  <2>1. ASSUME NEW i \in 1..N PROVE v[i] \in Nat
    <3> DEFINE d == legs[i].distance
               s == legs[i].ground_speed
    <3>1. d \in Nat /\ s \in Int /\ v[i] = IF s <= 0 THEN Infinity ELSE d \div s
      BY <1>1 DEF Stuck
    <3> HIDE DEF d, s, v
    <3>2. ~(s <= 0) => d \div s \in Nat
      BY <3>1, Quotient
    <3> QED BY <3>1, <3>2, InfinityIsNat
  <2> QED BY <1>1, <2>1
<1>3. \A n \in 0..N : SecondsThrough(legs, n) = Sums(v)[n]
  BY DEF SecondsThrough
<1> HIDE DEF v
<1>4. \A n \in 0..N : SecondsThrough(legs, n) \in Nat
  BY <1>2, <1>3, SumsAre, InfinityIsNat DEF Summed
<1>5. \A n \in 0..N : DistanceThrough(legs, n) \in Nat
  BY LengthsAreSummed
<1>6. DistanceForAltitudeChange(legs, altitude, rate) =
        IF altitude <= 0 THEN 0
        ELSE IF rate <= 0 THEN None
        ELSE IF done = {} THEN None ELSE OnLeg(legs, last, need)
  BY DEF DistanceForAltitudeChange, DistanceIn
<1>7. ASSUME ~(rate <= 0), done # {} PROVE OnLeg(legs, last, need) \in Int
  <2>1. need \in Int
    <3> DEFINE a == 60 * altitude
    <3>1. a \in Int /\ rate \in Nat \ {0}
      BY <1>7
    <3> HIDE DEF a
    <3>2. a \div rate \in Int
      BY <3>1, Quotient
    <3> QED BY <3>2 DEF a
  <2>2. last \in 1..N
    <3>1. done \in SUBSET (1..N) /\ done \in SUBSET Nat
      BY <1>1
    <3> HIDE DEF done
    <3>2. \E i \in done : \A j \in done : i <= j
      BY <1>7, <3>1, LeastNumber
    <3>3. last \in done
      BY <3>2
    <3> QED BY <3>1, <3>3
  <2> HIDE DEF last, need, done
  <2> DEFINE a == DistanceThrough(legs, last - 1)
             b == SecondsThrough(legs, last - 1)
             s == legs[last].ground_speed
  <2>3. last - 1 \in 0..N /\ a \in Nat /\ b \in Nat /\ s \in Int
    BY <1>1, <1>4, <1>5, <2>2
  <2>4. OnLeg(legs, last, need) = a + (IF Stuck(legs[last]) THEN 0 ELSE (need - b) * s)
    BY DEF OnLeg
  <2> HIDE DEF a, b, s
  <2>5. (need - b) * s \in Int
    BY <2>1, <2>3
  <2> QED BY <2>3, <2>4, <2>5
<1> HIDE DEF done, last, need
<1> QED
  BY <1>6, <1>7 DEF Optional

(* The altitude after a distance of climb is a number.                     *)
LEMMA AltitudesAreInt ==
    ASSUME NEW N \in Nat, NEW legs \in [1..N -> FlownLeg], NEW start \in Int, NEW rate \in Nat,
           NEW distance \in Int
    PROVE  AltitudeAfter(legs, start, rate, distance) \in Int
<1> DEFINE step == [i \in DOMAIN legs |-> Lesser(legs[i].distance, distance - DistanceThrough(legs, i - 1))]
           v == [i \in DOMAIN legs |->
                   SecondsOn(legs[i], Lesser(legs[i].distance, distance - DistanceThrough(legs, i - 1)))]
           seconds == Sums(v)[N]
<1>1. DOMAIN legs = 1..N /\ Len(legs) = N
      /\ \A i \in 1..N : legs[i].distance \in Nat /\ legs[i].ground_speed \in Int
  BY DEF FlownLeg
<1>2. \A i \in 1..N : step[i] \in Int
  <2>1. \A i \in 1..N : i - 1 \in 0..N /\ DistanceThrough(legs, i - 1) \in Nat
    BY LengthsAreSummed
  <2> QED BY <1>1, <2>1 DEF Lesser
<1>3. \A i \in 1..N : v[i] = SecondsOn(legs[i], step[i])
  BY <1>1
<1>4. v \in [1..N -> Nat]
  <2>1. ASSUME NEW i \in 1..N PROVE v[i] \in Nat
    <3> DEFINE x == step[i]
               s == legs[i].ground_speed
    <3>1. x \in Int /\ s \in Int /\ v[i] = IF x <= 0 THEN 0 ELSE IF s <= 0 THEN Infinity ELSE x \div s
      BY <1>1, <1>2, <1>3 DEF SecondsOn, Stuck
    <3> HIDE DEF x, s, v
    <3>2. ~(x <= 0) /\ ~(s <= 0) => x \div s \in Nat
      BY <3>1, Quotient
    <3> QED BY <3>1, <3>2, InfinityIsNat
  <2> QED BY <1>1, <2>1
<1>5. AltitudeAfter(legs, start, rate, distance)
        = IF seconds = Infinity THEN Infinity ELSE start + (rate * seconds) \div 60
  BY <1>1 DEF AltitudeAfter
<1> HIDE DEF v
<1>6. seconds \in Nat
  BY <1>4, SumsAre, InfinityIsNat DEF Summed
<1> HIDE DEF seconds
<1>7. (rate * seconds) \div 60 \in Int
  <2> DEFINE a == rate * seconds
  <2>1. a \in Int
    BY <1>6
  <2> HIDE DEF a
  <2>2. a \div 60 \in Int
    BY <2>1, Quotient
  <2> QED BY <2>2 DEF a
<1> QED
  BY <1>5, <1>6, <1>7, InfinityIsNat

(* What is done again and again to a member of a set stays in it.          *)
Iterates(f, N, S, h, a) ==
    f \in [0..N -> S] /\ \A n \in 0..N : f[n] = IF n = 0 THEN a ELSE h[f[n - 1]]

(* A function iterated N times, as the recursion spans is.                 *)
LEMMA Iterated ==
    ASSUME NEW N \in Nat, NEW S, NEW h \in [S -> S], NEW a \in S
    PROVE  \E f : Iterates(f, N, S, h, a)
<1> DEFINE Is(f, k) == f \in [0..k -> S] /\ f[0] = a /\ \A n \in 1..k : f[n] = h[f[n - 1]]
           T == {k \in 0..N : \E f : Is(f, k)}
<1>1. 0 \in T
  <2>1. Is([n \in 0..0 |-> a], 0)
    OBVIOUS
  <2>2. 0 \in 0..N
    OBVIOUS
  <2> HIDE DEF Is
  <2> QED BY <2>1, <2>2
<1>2. ASSUME NEW k \in 1..N, k - 1 \in T PROVE k \in T
  <2>1. PICK f : Is(f, k - 1)
    BY <1>2
  <2> DEFINE g == [n \in 0..k |-> IF n = k THEN h[f[k - 1]] ELSE f[n]]
  <2>2. h[f[k - 1]] \in S
    BY <2>1
  <2>3. g \in [0..k -> S] /\ g[0] = a
    BY <2>1, <2>2
  <2>4. \A n \in 1..k : g[n] = h[g[n - 1]]
    BY <2>1
  <2> HIDE DEF g
  <2>5. Is(g, k)
    BY <2>3, <2>4
  <2> QED BY <2>5
<1> HIDE DEF T
<1>3. T = 0..N
  BY <1>1, <1>2, AllNumbers DEF T
<1>4. PICK f : Is(f, N)
  BY <1>3 DEF T
<1>5. \A n \in 0..N : f[n] = IF n = 0 THEN a ELSE h[f[n - 1]]
  BY <1>4
<1>6. Iterates(f, N, S, h, a)
  BY <1>4, <1>5 DEF Iterates
<1> QED
  BY <1>6

Span == [low : Int, high : Int]

(* The bisection ends at a number of miles.                                *)
LEMMA CrossoverIsInt ==
    ASSUME NEW N \in Nat, NEW up \in [1..N -> FlownLeg], NEW M \in Nat, NEW down \in [1..M -> FlownLeg],
           NEW climb \in PhaseData, NEW descent \in PhaseData, NEW total \in Int
    PROVE  Crossover(climb, descent, up, down, total) \in Int
<1> DEFINE Up(d) == AltitudeAfter(up, climb.elevation, climb.rate, d)
           Down(d) == AltitudeAfter(down, descent.elevation, descent.rate, total - d)
           Split(span, mid) ==
             IF Up(mid) < Down(mid) THEN [span EXCEPT !.low = mid] ELSE [span EXCEPT !.high = mid]
           Halve(span) ==
             IF span.high - span.low <= 1 THEN span ELSE Split(span, (span.low + span.high) \div 2)
           first == [low |-> 0, high |-> total]
           Rec(f) == f = [n \in 0..Halvings |-> IF n = 0 THEN first ELSE Halve(f[n - 1])]
           spans == CHOOSE f : Rec(f)
           end == spans[Halvings]
<1>1. \/ Crossover(climb, descent, up, down, total) \in {0, total}
      \/ Crossover(climb, descent, up, down, total) = (end.low + end.high + 1) \div 2
  BY DEF Crossover
<1> HIDE DEF Up, Down
<1>2. ASSUME NEW span \in Span PROVE Halve(span) \in Span
  <2> DEFINE a == span.low
             b == span.high
             mid == (a + b) \div 2
  <2>1. a \in Int /\ b \in Int
    BY DEF Span
  <2>2. mid \in Int
    <3> DEFINE c == a + b
    <3>1. c \in Int
      BY <2>1
    <3> HIDE DEF c
    <3>2. c \div 2 \in Int
      BY <3>1, Quotient
    <3> QED BY <3>2 DEF c
  <2>3. Halve(span) = IF b - a <= 1 THEN span ELSE Split(span, mid)
    OBVIOUS
  <2> HIDE DEF mid
  <2>4. Split(span, mid) \in Span
    BY <2>2 DEF Span
  <2> HIDE DEF Split, Halve
  <2> QED BY <2>3, <2>4
<1> HIDE DEF Split, Halve
<1>3. first \in Span
  BY DEF Span
<1> HIDE DEF first
<1>4. \E f : Rec(f)
  <2> DEFINE h == [span \in Span |-> Halve(span)]
  <2>1. h \in [Span -> Span] /\ Halvings \in Nat
    BY <1>2, HalvingsIsCount
  <2>2. PICK f : Iterates(f, Halvings, Span, h, first)
    <3> HIDE DEF h
    <3> QED BY <2>1, <1>3, Iterated
  <2>3. ASSUME NEW n \in 0..Halvings PROVE f[n] = IF n = 0 THEN first ELSE Halve(f[n - 1])
    <3>1. n # 0 => n - 1 \in 0..Halvings /\ f[n - 1] \in Span
      BY <2>1, <2>2 DEF Iterates
    <3>2. n # 0 => h[f[n - 1]] = Halve(f[n - 1])
      BY <3>1
    <3> HIDE DEF h
    <3> QED BY <2>2, <3>2 DEF Iterates
  <2>4. f = [n \in 0..Halvings |-> f[n]]
    BY <2>2 DEF Iterates
  <2>5. Rec(f)
    BY <2>3, <2>4
  <2> HIDE DEF Rec
  <2> QED BY <2>5
<1>5. Rec(spans)
  <2> HIDE DEF Rec
  <2> QED BY <1>4
<1> HIDE DEF spans
<1>6. \A n \in 0..Halvings : spans[n] = IF n = 0 THEN first ELSE Halve(spans[n - 1])
  BY <1>5
<1> HIDE DEF Rec
<1> DEFINE T == {n \in 0..Halvings : spans[n] \in Span}
<1>7. T = 0..Halvings
  <2>1. 0 \in T
    BY <1>3, <1>6, HalvingsIsCount
  <2>2. ASSUME NEW n \in 1..Halvings, n - 1 \in T PROVE n \in T
    <3>1. n \in 0..Halvings /\ n # 0 /\ spans[n - 1] \in Span
      BY <2>2
    <3>2. spans[n] \in Span
      BY <1>2, <1>6, <3>1
    <3> QED BY <3>1, <3>2
  <2> HIDE DEF T
  <2>3. T \in SUBSET (0..Halvings)
    BY DEF T
  <2> QED BY <2>1, <2>2, <2>3, AllNumbers, HalvingsIsCount
<1>8. end \in Span
  BY <1>7, HalvingsIsCount
<1> HIDE DEF end
<1>9. (end.low + end.high + 1) \div 2 \in Int
  <2> DEFINE c == end.low + end.high + 1
  <2>1. c \in Int
    BY <1>8 DEF Span
  <2> HIDE DEF c
  <2>2. c \div 2 \in Int
    BY <2>1, Quotient
  <2> QED BY <2>2 DEF c
<1> QED
  BY <1>1, <1>9

(* A point of the profile lies where it says, that far from both ends.     *)
Clamp(distance, total) == Greater(0, Lesser(distance, total))

(* Clamping keeps a distance on the route ...                              *)
LEMMA Clamped ==
    ASSUME NEW distance \in Int, NEW total \in Nat
    PROVE  Clamp(distance, total) \in Nat /\ Clamp(distance, total) <= total
BY DEF Clamp, Greater, Lesser

(* ... and distances in their order.                                       *)
LEMMA ClampIsMonotone ==
    ASSUME NEW a \in Int, NEW b \in Int, a <= b, NEW total \in Nat
    PROVE  Clamp(a, total) <= Clamp(b, total)
BY DEF Clamp, Greater, Lesser

(* point_at: a top lies as far from both ends as its distance, clamped,    *)
(* says.                                                                   *)
LEMMA PointIsOnTheRoute ==
    ASSUME NEW route \in Seq(Point), LegCount(route) >= 1,
           NEW legs \in [1..LegCount(route) -> FlownLeg],
           NEW distance \in Int, NEW altitude \in Int, NEW time \in Nat
    PROVE  LET total == DistanceThrough(legs, LegCount(route))
               point == PointAt(route, legs, distance, altitude, time)
           IN /\ point \in TopPoint
              /\ point.from_departure = Clamp(distance, total)
              /\ point.to_arrival = total - Clamp(distance, total)
              /\ point.time = time
<1> DEFINE N == LegCount(route)
           total == DistanceThrough(legs, N)
           clamped == Clamp(distance, total)
           IsLeg(i) == /\ clamped <= DistanceThrough(legs, i)
                       /\ \A j \in 1..(i - 1) : DistanceThrough(legs, j) < clamped
           leg == CHOOSE i \in DOMAIN legs : IsLeg(i)
           along == clamped - DistanceThrough(legs, leg - 1)
           place == IntermediatePoint(route[leg], route[leg + 1], along)
           point == PointAt(route, legs, distance, altitude, time)
<1>1. /\ N \in Nat \ {0} /\ Len(legs) = N /\ DOMAIN legs = 1..N
      /\ \A n \in 0..N : DistanceThrough(legs, n) \in Nat
      /\ \A i \in 1..N : route[i] \in Point /\ route[i + 1] \in Point
  <2>1. N \in Nat \ {0} /\ \A i \in 1..N : route[i] \in Point /\ route[i + 1] \in Point
    BY LegsAreCounted
  <2> HIDE DEF N
  <2>2. legs \in [1..N -> FlownLeg]
    BY DEF N
  <2>3. Len(legs) = N /\ DOMAIN legs = 1..N /\ \A n \in 0..N : DistanceThrough(legs, n) \in Nat
    BY <2>1, <2>2, LengthsAreSummed
  <2> QED BY <2>1, <2>3
<1>2. point = [from_departure |-> clamped, to_arrival |-> total - clamped,
               leg_index |-> leg, leg_along |-> along, position |-> place,
               altitude |-> altitude, time |-> time]
  BY <1>1 DEF PointAt, PointOnLeg, Clamp
<1>3. total \in Nat /\ clamped \in Nat /\ clamped <= total
  <2>1. total \in Nat
    BY <1>1
  <2> HIDE DEF total
  <2> QED BY <2>1, Clamped
<1>4. \E i \in 1..N : IsLeg(i)
  <2> DEFINE T == {i \in 1..N : clamped <= DistanceThrough(legs, i)}
  <2>1. N \in T
    BY <1>1, <1>3
  <2>2. T \in SUBSET Nat /\ T # {}
    BY <2>1
  <2>3. PICK i \in T : \A j \in T : i <= j
    <3> HIDE DEF T
    <3> QED BY <2>2, LeastNumber
  <2> HIDE DEF clamped
  <2>4. ASSUME NEW j \in 1..(i - 1) PROVE DistanceThrough(legs, j) < clamped
    <3>1. j \in 1..N /\ j \in 0..N /\ ~(i <= j)
      BY <2>3, <1>1
    <3>2. j \notin T
      BY <2>3, <3>1
    <3> QED BY <1>1, <1>3, <3>1, <3>2
  <2> QED BY <2>3, <2>4
<1>5. leg \in 1..N
  <2> HIDE DEF IsLeg
  <2> QED BY <1>1, <1>4
<1> HIDE DEF leg, total, clamped, IsLeg
<1>6. along \in Int
  <2>1. leg - 1 \in 0..N
    BY <1>1, <1>5
  <2> QED BY <1>1, <1>3, <2>1
<1> HIDE DEF along
<1>7. place \in [1..2 -> Int]
  <2>1. \A c \in 1..2 : route[leg][c] \in Int /\ route[leg + 1][c] \in Int
    <3>1. ASSUME NEW p \in Point PROVE p[1] \in Int /\ p[2] \in Int
      BY DEF Point
    <3>2. route[leg] \in Point /\ route[leg + 1] \in Point
      BY <1>1, <1>5
    <3>3. \A c \in 1..2 : c = 1 \/ c = 2
      OBVIOUS
    <3> QED BY <3>1, <3>2, <3>3
  <2>2. ASSUME NEW c \in 1..2
        PROVE  route[leg][c] + SignOf(route[leg + 1][c] - route[leg][c]) * along \in Int
    <3> DEFINE a == route[leg][c]
               b == route[leg + 1][c]
    <3>1. a \in Int /\ b \in Int
      BY <2>1
    <3> HIDE DEF a, b
    <3>2. SignOf(b - a) \in {-1, 0, 1}
      BY DEF SignOf
    <3>3. SignOf(b - a) * along \in Int
      BY <1>6, <3>2
    <3>4. a + SignOf(b - a) * along \in Int
      BY <3>1, <3>3
    <3> QED BY <3>4 DEF a, b
  <2> QED BY <2>2 DEF IntermediatePoint
<1> HIDE DEF place
<1>8. [from_departure |-> clamped, to_arrival |-> total - clamped,
       leg_index |-> leg, leg_along |-> along, position |-> place,
       altitude |-> altitude, time |-> time] \in TopPoint
  BY <1>1, <1>3, <1>5, <1>6, <1>7 DEF TopPoint
<1> HIDE DEF point
<1> QED
  BY <1>2, <1>8 DEF point, total, clamped, N

(* The time of a climb or a descent is a number of minutes.                *)
LEMMA PhaseTimeIsNat ==
    ASSUME NEW altitude \in Int, NEW phase \in PhaseData
    PROVE  PhaseTime(altitude, phase) \in Nat
<1> DEFINE a == 60 * (altitude - phase.elevation)
           r == phase.rate
<1>1. a \in Int /\ r \in Nat
  BY DEF PhaseData
<1>2. PhaseTime(altitude, phase)
        = IF r = 0 THEN (IF altitude > phase.elevation THEN Infinity ELSE 0) ELSE Greater(0, a \div r)
  BY DEF PhaseTime
<1> HIDE DEF a, r
<1>3. r # 0 => a \div r \in Int
  BY <1>1, Quotient
<1> QED
  BY <1>1, <1>2, <1>3, InfinityIsNat DEF Greater

-----------------------------------------------------------------------------
(* The vertical profile: every mile climbed, level or descended, once.     *)
ClimbedIn(vertical) ==
    IF vertical.top_of_climb = None THEN 0 ELSE vertical.top_of_climb.from_departure
DescendedIn(vertical) ==
    IF vertical.top_of_descent = None THEN 0 ELSE vertical.top_of_descent.to_arrival

IsProfile(vertical, total) ==
    /\ vertical.top_of_climb \in Optional(TopPoint) /\ vertical.top_of_descent \in Optional(TopPoint)
    /\ vertical.peak \in Int /\ vertical.total = total
    /\ vertical.cruise_distance \in Nat /\ vertical.cruise_distance <= total
    /\ vertical.top_of_climb # None \/ vertical.top_of_descent # None =>
         ClimbedIn(vertical) + vertical.cruise_distance + DescendedIn(vertical) = total

IsFlight(flight, route) ==
    /\ flight.points = route /\ flight.cruise \in Int
    /\ flight.climb \in Optional(PhaseData) /\ flight.descent \in Optional(PhaseData)
    /\ flight.up \in [1..LegCount(route) -> FlownLeg]
    /\ flight.down \in [1..LegCount(route) -> FlownLeg]

(* A top is where it was found, and both where the ends' phases are known. *)
IsTop(point, distance, total) ==
    /\ point \in TopPoint
    /\ point.from_departure = Clamp(distance, total)
    /\ point.to_arrival = total - Clamp(distance, total)

(* So the top of a climb or a descent is a point of the route ...          *)
LEMMA TopIsOnTheRoute ==
    ASSUME NEW route \in Seq(Point), LegCount(route) >= 1, NEW flight, IsFlight(flight, route),
           NEW distance \in Int, NEW altitude \in Int, NEW phase \in PhaseData
    PROVE  IsTop(PointAt(flight.points, flight.up, distance, altitude, PhaseTime(altitude, phase)),
                 distance, DistanceThrough(flight.up, LegCount(route)))
<1>1. flight.points = route /\ flight.up \in [1..LegCount(route) -> FlownLeg]
  BY DEF IsFlight
<1>2. PhaseTime(altitude, phase) \in Nat
  BY PhaseTimeIsNat
<1> QED
  BY <1>1, <1>2, PointIsOnTheRoute DEF IsTop

(* ... with its two distances adding up to the whole.                      *)
LEMMA TopIsSomething ==
    ASSUME NEW point, NEW distance \in Int, NEW total \in Nat, IsTop(point, distance, total)
    PROVE  /\ point # None /\ point \in TopPoint
           /\ Clamp(distance, total) \in Nat /\ Clamp(distance, total) <= total
           /\ point.from_departure = Clamp(distance, total)
           /\ point.to_arrival = total - Clamp(distance, total)
BY NoneIsNothing, Clamped DEF IsTop

(* A profile that reaches its cruising altitude splits the route in three. *)
LEMMA ReachedIsProfile ==
    ASSUME NEW total \in Nat, NEW cruise \in Int,
           NEW toc \in Optional(Int), NEW tod \in Optional(Int), NEW a, NEW b,
           IF toc = None THEN a = None ELSE IsTop(a, toc, total),
           IF tod = None THEN b = None ELSE IsTop(b, tod, total),
           toc # None \/ tod # None, toc # None /\ tod # None => toc <= tod
    PROVE  IsProfile(ReachedProfile(a, b, cruise, total), total)
<1> DEFINE v == ReachedProfile(a, b, cruise, total)
           cd == IF None \notin {a, b} THEN Greater(0, b.from_departure - a.from_departure)
                 ELSE IF a /= None THEN a.to_arrival ELSE b.from_departure
<1>1. /\ v.top_of_climb = a /\ v.top_of_descent = b /\ v.peak = cruise /\ v.total = total
      /\ v.cruise_distance = cd
  BY DEF ReachedProfile
<1> HIDE DEF v
<1>2. CASE toc # None /\ tod # None
  <2> DEFINE m == Clamp(toc, total)
             n == Clamp(tod, total)
  <2>1. toc \in Int /\ tod \in Int /\ toc <= tod
    BY <1>2 DEF Optional
  <2>2. /\ a # None /\ a \in TopPoint /\ m \in Nat /\ m <= total /\ a.from_departure = m
        /\ b # None /\ b \in TopPoint /\ n \in Nat /\ n <= total /\ b.from_departure = n
        /\ b.to_arrival = total - n
    BY <1>2, <2>1, TopIsSomething
  <2>3. m <= n
    BY <2>1, ClampIsMonotone
  <2> HIDE DEF m, n
  <2>4. cd = n - m
    BY <2>2, <2>3 DEF Greater
  <2>5. ClimbedIn(v) = m /\ DescendedIn(v) = total - n
    BY <1>1, <2>2 DEF ClimbedIn, DescendedIn
  <2> HIDE DEF cd
  <2>6. v.cruise_distance \in Nat /\ v.cruise_distance <= total
        /\ ClimbedIn(v) + v.cruise_distance + DescendedIn(v) = total
    BY <1>1, <2>2, <2>3, <2>4, <2>5
  <2> QED BY <1>1, <2>2, <2>6 DEF IsProfile, Optional, v
<1>3. CASE toc # None /\ tod = None
  <2> DEFINE m == Clamp(toc, total)
  <2>1. toc \in Int
    BY <1>3 DEF Optional
  <2>2. /\ a # None /\ a \in TopPoint /\ m \in Nat /\ m <= total /\ a.from_departure = m
        /\ a.to_arrival = total - m /\ b = None
    BY <1>3, <2>1, TopIsSomething
  <2> HIDE DEF m
  <2>3. cd = total - m /\ ClimbedIn(v) = m /\ DescendedIn(v) = 0
    BY <1>1, <2>2 DEF ClimbedIn, DescendedIn
  <2> HIDE DEF cd
  <2>4. v.cruise_distance \in Nat /\ v.cruise_distance <= total
        /\ ClimbedIn(v) + v.cruise_distance + DescendedIn(v) = total
    BY <1>1, <2>2, <2>3
  <2> QED BY <1>1, <2>2, <2>4 DEF IsProfile, Optional, v
<1>4. CASE toc = None /\ tod # None
  <2> DEFINE n == Clamp(tod, total)
  <2>1. tod \in Int
    BY <1>4 DEF Optional
  <2>2. /\ b # None /\ b \in TopPoint /\ n \in Nat /\ n <= total /\ b.from_departure = n
        /\ b.to_arrival = total - n /\ a = None
    BY <1>4, <2>1, TopIsSomething
  <2> HIDE DEF n
  <2>3. cd = n /\ ClimbedIn(v) = 0 /\ DescendedIn(v) = total - n
    BY <1>1, <2>2 DEF ClimbedIn, DescendedIn
  <2> HIDE DEF cd
  <2>4. v.cruise_distance \in Nat /\ v.cruise_distance <= total
        /\ ClimbedIn(v) + v.cruise_distance + DescendedIn(v) = total
    BY <1>1, <2>2, <2>3
  <2> QED BY <1>1, <2>2, <2>4 DEF IsProfile, Optional, v
<1> QED
  BY <1>2, <1>3, <1>4

(* One whose climb meets its descent splits it in two.                     *)
LEMMA MetIsProfile ==
    ASSUME NEW total \in Nat, NEW meet \in Int, NEW peak \in Int, NEW a, NEW b,
           IsTop(a, meet, total), IsTop(b, meet, total)
    PROVE  IsProfile(ShortProfile(a, b, peak, total), total)
<1> DEFINE v == ShortProfile(a, b, peak, total)
           m == Clamp(meet, total)
<1>1. /\ v.top_of_climb = a /\ v.top_of_descent = b /\ v.peak = peak /\ v.total = total
      /\ v.cruise_distance = 0
  BY DEF ShortProfile
<1> HIDE DEF v
<1>2. /\ a # None /\ a \in TopPoint /\ m \in Nat /\ m <= total /\ a.from_departure = m
      /\ b # None /\ b \in TopPoint /\ b.to_arrival = total - m
  BY TopIsSomething
<1> HIDE DEF m
<1>3. ClimbedIn(v) = m /\ DescendedIn(v) = total - m
  BY <1>1, <1>2 DEF ClimbedIn, DescendedIn
<1>4. ClimbedIn(v) + v.cruise_distance + DescendedIn(v) = total
  BY <1>1, <1>2, <1>3
<1> QED
  BY <1>1, <1>2, <1>4 DEF IsProfile, Optional, v

(* One without a climb and a descent is level.                             *)
LEMMA OneSidedIsProfile ==
    ASSUME NEW total \in Nat, NEW peak \in Int
    PROVE  IsProfile(ShortProfile(None, None, peak, total), total)
BY DEF ShortProfile, IsProfile, Optional

(* Each way the vertical profile comes out.                                *)
LEMMA PlacedIsProfile ==
    ASSUME NEW route \in Seq(Point), LegCount(route) >= 1, NEW flight, IsFlight(flight, route),
           flight.climb # None \/ flight.descent # None
    PROVE  LET total == DistanceThrough(flight.up, LegCount(route))
           IN IsProfile(Placed(flight, total), total)
<1> DEFINE N == LegCount(route)
           total == DistanceThrough(flight.up, N)
           toc == Needed(flight.up, flight.climb, flight.cruise)
           back == Needed(flight.down, flight.descent, flight.cruise)
           tod == Before(total, back)
<1>1. /\ flight.points = route /\ flight.cruise \in Int
      /\ flight.climb \in PhaseData \cup {None} /\ flight.descent \in PhaseData \cup {None}
      /\ flight.up \in [1..N -> FlownLeg] /\ flight.down \in [1..N -> FlownLeg]
  BY DEF IsFlight, Optional
<1>2. N \in Nat /\ N >= 1
  BY LegsAreCounted
<1>3. total \in Nat
  <2>1. N \in 0..N
    BY <1>2
  <2> HIDE DEF N
  <2> QED BY <1>1, <1>2, <2>1, LengthsAreSummed
<1>4. Placed(flight, total) = ProfileOf(flight, total, toc, tod)
  BY DEF Placed
<1>5. ASSUME NEW legs \in [1..N -> FlownLeg], NEW phase \in PhaseData \cup {None}
      PROVE  /\ Needed(legs, phase, flight.cruise) \in Int \cup {None}
             /\ Needed(legs, phase, flight.cruise) # None => phase \in PhaseData
  <2>1. CASE phase = None
    BY <2>1 DEF Needed
  <2>2. CASE phase # None
    <3>1. phase \in PhaseData
      BY <2>2
    <3> DEFINE altitude == flight.cruise - phase.elevation
    <3>2. altitude \in Int /\ phase.rate \in Nat
      BY <1>1, <3>1 DEF PhaseData
    <3>3. Needed(legs, phase, flight.cruise) = DistanceForAltitudeChange(legs, altitude, phase.rate)
      BY <2>2 DEF Needed
    <3> HIDE DEF altitude, N
    <3>4. DistanceForAltitudeChange(legs, altitude, phase.rate) \in Optional(Int)
      BY <1>2, <3>2, ChangesAreInt
    <3> QED BY <3>1, <3>3, <3>4 DEF Optional
  <2> QED BY <2>1, <2>2
<1>6. /\ toc \in Int \cup {None} /\ (toc # None => flight.climb \in PhaseData)
      /\ back \in Int \cup {None} /\ (back # None => flight.descent \in PhaseData)
  BY <1>1, <1>5
<1> HIDE DEF toc, back
<1>7. /\ tod \in Int \cup {None} /\ (tod # None => flight.descent \in PhaseData)
  BY <1>3, <1>6 DEF Before
<1> HIDE DEF tod, total
<1>8. ASSUME NEW distance \in Int, NEW altitude \in Int, NEW phase \in PhaseData
      PROVE  IsTop(PointAt(flight.points, flight.up, distance, altitude, PhaseTime(altitude, phase)),
                   distance, total)
  BY <1>8, TopIsOnTheRoute DEF total
<1>9. CASE CruiseReached(toc, tod, flight.climb, flight.descent)
  <2>1. /\ toc # None \/ tod # None
        /\ toc # None /\ tod # None => toc <= tod
    BY <1>9 DEF CruiseReached
  <2> DEFINE a == IF toc = None \/ flight.climb = None THEN None
                  ELSE PointAt(flight.points, flight.up, toc, flight.cruise,
                               PhaseTime(flight.cruise, flight.climb))
             b == IF tod = None \/ flight.descent = None THEN None
                  ELSE PointAt(flight.points, flight.up, tod, flight.cruise,
                               PhaseTime(flight.cruise, flight.descent))
  <2>2. ProfileOf(flight, total, toc, tod) = ReachedProfile(a, b, flight.cruise, total)
    BY <1>9 DEF ProfileOf, Reached
  <2>3. IF toc = None THEN a = None ELSE IsTop(a, toc, total)
    <3>1. CASE toc # None /\ flight.climb # None
      <4>1. toc \in Int /\ flight.climb \in PhaseData
        BY <3>1, <1>6
      <4>2. IsTop(PointAt(flight.points, flight.up, toc, flight.cruise,
                          PhaseTime(flight.cruise, flight.climb)), toc, total)
        BY <1>1, <1>8, <4>1
      <4> QED BY <3>1, <4>2
    <3>2. CASE toc # None /\ flight.climb = None
      BY <3>2, <1>6, <1>1 DEF Needed, toc
    <3> QED BY <3>1, <3>2
  <2>4. IF tod = None THEN b = None ELSE IsTop(b, tod, total)
    <3>1. CASE tod # None /\ flight.descent # None
      <4>1. tod \in Int /\ flight.descent \in PhaseData
        BY <3>1, <1>7
      <4>2. IsTop(PointAt(flight.points, flight.up, tod, flight.cruise,
                          PhaseTime(flight.cruise, flight.descent)), tod, total)
        BY <1>1, <1>8, <4>1
      <4> QED BY <3>1, <4>2
    <3>2. CASE tod # None /\ flight.descent = None
      BY <3>2, <1>7 DEF Needed, Before, tod, back
    <3> QED BY <3>1, <3>2
  <2> HIDE DEF a, b
  <2>5. toc \in Optional(Int) /\ tod \in Optional(Int)
    BY <1>6, <1>7 DEF Optional
  <2>6. IsProfile(ReachedProfile(a, b, flight.cruise, total), total)
    BY <1>1, <1>3, <2>1, <2>3, <2>4, <2>5, ReachedIsProfile
  <2> QED BY <1>4, <2>2, <2>6 DEF total, N
<1>10. CASE ~CruiseReached(toc, tod, flight.climb, flight.descent)
            /\ None \notin {flight.climb, flight.descent}
  <2> DEFINE meet == Crossover(flight.climb, flight.descent, flight.up, flight.down, total)
             peak == Lesser(AltitudeAfter(flight.up, flight.climb.elevation, flight.climb.rate, meet),
                            flight.cruise)
             a == PointAt(flight.points, flight.up, meet, peak, PhaseTime(peak, flight.climb))
             b == PointAt(flight.points, flight.up, meet, peak, PhaseTime(peak, flight.descent))
  <2>1. flight.climb \in PhaseData /\ flight.descent \in PhaseData
    BY <1>1, <1>10
  <2>2. flight.climb.elevation \in Int /\ flight.climb.rate \in Nat
    BY <2>1 DEF PhaseData
  <2>3. ProfileOf(flight, total, toc, tod) = ShortProfile(a, b, peak, total)
    BY <1>10 DEF ProfileOf, MetAt, Met
  <2> HIDE DEF N
  <2>4. meet \in Int
    <3>1. total \in Int
      BY <1>3
    <3> QED BY <1>1, <1>2, <2>1, <3>1, CrossoverIsInt
  <2> HIDE DEF meet
  <2>5. peak \in Int
    <3>1. AltitudeAfter(flight.up, flight.climb.elevation, flight.climb.rate, meet) \in Int
      BY <1>1, <1>2, <2>2, <2>4, AltitudesAreInt
    <3> QED BY <1>1, <3>1 DEF Lesser
  <2> HIDE DEF peak
  <2>6. IsTop(a, meet, total) /\ IsTop(b, meet, total)
    BY <1>8, <2>1, <2>4, <2>5
  <2> HIDE DEF a, b
  <2>7. IsProfile(ShortProfile(a, b, peak, total), total)
    BY <1>3, <2>4, <2>5, <2>6, MetIsProfile
  <2> QED BY <1>4, <2>3, <2>7 DEF total, N
<1>11. CASE ~CruiseReached(toc, tod, flight.climb, flight.descent)
            /\ None \in {flight.climb, flight.descent}
  <2> DEFINE top == IF flight.climb /= None
                    THEN AltitudeAfter(flight.up, flight.climb.elevation, flight.climb.rate, total)
                    ELSE AltitudeAfter(flight.down, flight.descent.elevation, flight.descent.rate, total)
             peak == Lesser(top, flight.cruise)
  <2>1. ProfileOf(flight, total, toc, tod) = ShortProfile(None, None, peak, total)
    BY <1>11 DEF ProfileOf, OneSided
  <2> HIDE DEF N
  <2>2. top \in Int
    <3>1. ASSUME NEW legs \in [1..N -> FlownLeg], NEW phase \in PhaseData
          PROVE  AltitudeAfter(legs, phase.elevation, phase.rate, total) \in Int
      <4>1. phase.elevation \in Int /\ phase.rate \in Nat /\ total \in Int
        BY <1>3 DEF PhaseData
      <4> QED BY <1>2, <4>1, AltitudesAreInt
    <3>2. (flight.climb # None => flight.climb \in PhaseData)
          /\ (flight.climb = None => flight.descent \in PhaseData)
      BY <1>1
    <3> QED BY <1>1, <3>1, <3>2
  <2> HIDE DEF top
  <2>3. peak \in Int
    BY <1>1, <2>2 DEF Lesser
  <2> HIDE DEF peak
  <2>4. IsProfile(ShortProfile(None, None, peak, total), total)
    BY <1>3, <2>3, OneSidedIsProfile
  <2> QED BY <1>4, <2>1, <2>4 DEF total, N
<1> QED
  BY <1>9, <1>10, <1>11

(* A phase is there when its elevation and its rate are.                   *)
LEMMA PhaseIsData ==
    ASSUME NEW elevation \in Optional(Int), NEW rate \in Optional(Nat)
    PROVE  /\ Phase(elevation, rate) \in Optional(PhaseData)
           /\ None \notin {elevation, rate} => Phase(elevation, rate) # None
<1>1. CASE None \in {elevation, rate}
  BY <1>1 DEF Phase, Optional
<1>2. CASE None \notin {elevation, rate}
  <2>1. elevation \in Int /\ rate \in Nat
    BY <1>2 DEF Optional
  <2>2. Phase(elevation, rate) = [elevation |-> elevation, rate |-> rate]
    BY <1>2 DEF Phase
  <2>3. Phase(elevation, rate) \in PhaseData
    BY <2>1, <2>2 DEF PhaseData
  <2> QED BY <2>3, NoneIsNothing DEF Optional
<1> QED
  BY <1>1, <1>2

RouteLength(route) == Sums(Distances(route))[LegCount(route)]

(* A climb or descent without a speed of its own is flown at cruise speed. *)
LEMMA SpeedsOfPhases ==
    ASSUME NEW aircraft \in Aircraft
    PROVE  /\ Or(aircraft.climb_tas, aircraft.cruise_tas) \in Nat
           /\ Or(aircraft.descent_tas, aircraft.cruise_tas) \in Nat
BY DEF Or, Aircraft, Optional

(* plan_vertical: whatever it returns splits the route into climb, level   *)
(* flight and descent, each mile in one of them.                           *)
LEMMA VerticalIsProfile ==
    ASSUME NEW route \in Seq(Point), NEW aircraft \in Aircraft,
           NEW aloft \in [1..MaxLegs -> Optional(Wind)],
           NEW departure \in Optional(Int), NEW arrival \in Optional(Int),
           PlanVertical(route, aircraft, aloft, departure, arrival) # None
    PROVE  /\ LegCount(route) >= 1
           /\ IsProfile(PlanVertical(route, aircraft, aloft, departure, arrival), RouteLength(route))
<1> DEFINE N == LegCount(route)
           up == ClimbLegs(route, aircraft, aloft)
           down == DescentLegs(route, aircraft, aloft)
           climb == Phase(departure, aircraft.climb_rate)
           descent == Phase(arrival, aircraft.descent_rate)
           cruise == aircraft.cruise_altitude
           flight == [points |-> route, cruise |-> cruise, climb |-> climb, descent |-> descent,
                      up |-> up, down |-> down]
           total == DistanceThrough(up, N)
<1>1. N \in Nat
  BY LegsAreCounted
<1>2. /\ up \in [1..N -> FlownLeg] /\ Lengths(up) = Distances(route)
      /\ down \in [1..N -> FlownLeg]
  <2> DEFINE fast == Or(aircraft.climb_tas, aircraft.cruise_tas)
             slow == Or(aircraft.descent_tas, aircraft.cruise_tas)
  <2>1. fast \in Nat /\ slow \in Nat
    BY SpeedsOfPhases
  <2>2. up = LegsAt(route, fast, aloft) /\ down = Reverse(LegsAt(route, slow, aloft))
    BY DEF ClimbLegs, DescentLegs
  <2> HIDE DEF fast, slow, up, down, N
  <2>3. /\ LegsAt(route, fast, aloft) \in [1..N -> FlownLeg]
        /\ LegsAt(route, slow, aloft) \in [1..N -> FlownLeg]
        /\ Lengths(LegsAt(route, fast, aloft)) = Distances(route)
    BY <2>1, LegsAreFlown, LegsAreOfTheRoute DEF N
  <2>4. Reverse(LegsAt(route, slow, aloft)) \in [1..N -> FlownLeg]
    BY <1>1, <2>3, LegsAreReversed
  <2> QED BY <2>2, <2>3, <2>4
<1> HIDE DEF up, down
<1>3. Len(up) = N /\ total = RouteLength(route)
  <2>1. N \in 0..N
    BY <1>1
  <2>2. Len(up) = N /\ total = Sums(Lengths(up))[N]
    <3> HIDE DEF N
    <3> QED BY <1>1, <1>2, <2>1, LengthsAreSummed
  <2> QED BY <1>2, <2>2 DEF RouteLength
<1>4. /\ ~(Len(route) < 2) /\ cruise # None
      /\ ~(None \in {departure, aircraft.climb_rate} /\ None \in {arrival, aircraft.descent_rate})
      /\ PlanVertical(route, aircraft, aloft, departure, arrival) = Placed(flight, total)
  <2>1. PlanVertical(route, aircraft, aloft, departure, arrival) =
          IF Len(route) < 2 \/ cruise = None
               \/ (None \in {departure, aircraft.climb_rate} /\ None \in {arrival, aircraft.descent_rate})
          THEN None ELSE Placed(flight, DistanceThrough(flight.up, Len(flight.up)))
    BY DEF PlanVertical, up, down
  <2>2. DistanceThrough(flight.up, Len(flight.up)) = total
    BY <1>3
  <2> HIDE DEF flight, total
  <2> QED BY <2>1, <2>2
<1>5. LegCount(route) >= 1
  BY <1>4, LegsAreCounted
<1>6. /\ climb \in Optional(PhaseData) /\ descent \in Optional(PhaseData)
      /\ climb # None \/ descent # None
  <2>1. aircraft.climb_rate \in Optional(Nat) /\ aircraft.descent_rate \in Optional(Nat)
    BY DEF Aircraft
  <2> QED BY <1>4, <2>1, PhaseIsData
<1>7. cruise \in Int
  BY <1>4 DEF Aircraft, Optional
<1> HIDE DEF climb, descent, cruise
<1>8. IsFlight(flight, route) /\ (flight.climb # None \/ flight.descent # None) /\ flight.up = up
  BY <1>2, <1>6, <1>7 DEF IsFlight
<1> HIDE DEF flight
<1>9. IsProfile(Placed(flight, total), total)
  BY <1>5, <1>8, PlacedIsProfile
<1> HIDE DEF total
<1> QED
  BY <1>3, <1>4, <1>5, <1>9
-----------------------------------------------------------------------------
(* The rows of a table are in one order, whatever order they are typed in. *)
LEMMA RowsAreTyped ==
    ASSUME NEW rows \in Seq(TableRow), NEW i \in DOMAIN rows
    PROVE  /\ i \in Int /\ rows[i] \in TableRow /\ rows[i].altitude \in Int
           /\ rows[i].tas \in Nat /\ rows[i].fuel \in Nat
           /\ rows[i].vertical_speed \in Optional(Nat)
<1>1. i \in Int /\ rows[i] \in TableRow
  OBVIOUS
<1> QED
  BY <1>1 DEF TableRow

(* The stable sort by altitude orders any two rows ...                     *)
LEMMA RowsAreOrdered ==
    ASSUME NEW rows \in Seq(TableRow)
    PROVE  /\ \A i, j \in DOMAIN rows : i # j => SortsBefore(rows, i, j) \/ SortsBefore(rows, j, i)
           /\ \A i, j, k \in DOMAIN rows :
                SortsBefore(rows, i, j) /\ SortsBefore(rows, j, k) => SortsBefore(rows, i, k)
<1>1. \A i \in DOMAIN rows : i \in Int /\ rows[i].altitude \in Int
  BY RowsAreTyped
<1> QED
  BY <1>1 DEF SortsBefore

IsFirst(rows, S, i) == \A j \in S \ {i} : SortsBefore(rows, i, j)
IsLast(rows, S, i) == \A j \in S \ {i} : SortsBefore(rows, j, i)

(* ... so that every set of rows has a first and a last ...                *)
LEMMA EndsAreThere ==
    ASSUME NEW rows \in Seq(TableRow), NEW S \in SUBSET DOMAIN rows, S # {}
    PROVE  (\E i \in S : IsFirst(rows, S, i)) /\ (\E i \in S : IsLast(rows, S, i))
<1> DEFINE N == Len(rows)
           Ends(R) ==
             R # {} => (\E i \in R : IsFirst(rows, R, i)) /\ (\E i \in R : IsLast(rows, R, i))
           T == {k \in 0..N : \A R \in SUBSET (1..k) : Ends(R)}
<1>1. N \in Nat /\ DOMAIN rows = 1..N
  OBVIOUS
<1>2. /\ \A i, j \in 1..N : i # j => SortsBefore(rows, i, j) \/ SortsBefore(rows, j, i)
      /\ \A i, j, k \in 1..N : SortsBefore(rows, i, j) /\ SortsBefore(rows, j, k) => SortsBefore(rows, i, k)
  BY <1>1, RowsAreOrdered
<1> HIDE DEF N
<1>3. 0 \in T
  <2>1. 1..0 = {} /\ 0 \in 0..N
    BY <1>1
  <2>2. \A R \in SUBSET (1..0) : Ends(R)
    BY <2>1
  <2> QED BY <2>1, <2>2
<1>4. ASSUME NEW k \in 1..N, k - 1 \in T PROVE k \in T
  <2>1. ASSUME NEW R \in SUBSET (1..k), R # {}
        PROVE  (\E i \in R : IsFirst(rows, R, i)) /\ (\E i \in R : IsLast(rows, R, i))
    <3> DEFINE Q == R \ {k}
    <3>1. Q \in SUBSET (1..(k - 1)) /\ R \in SUBSET (1..N) /\ Q \in SUBSET (1..N)
      BY <1>1
    <3>2. Ends(Q)
      BY <1>4, <3>1
    <3> HIDE DEF T
    <3>3. CASE Q = {}
      <4>1. R = {k}
        BY <2>1, <3>3
      <4> QED BY <4>1 DEF IsFirst, IsLast
    <3>4. CASE Q # {} /\ k \notin R
      BY <3>2, <3>4
    <3>5. CASE Q # {} /\ k \in R
      <4>1. PICK i \in Q : IsFirst(rows, Q, i)
        BY <3>2, <3>5
      <4>2. PICK j \in Q : IsLast(rows, Q, j)
        BY <3>2, <3>5
      <4>3. i \in R /\ j \in R /\ i # k /\ j # k /\ i \in 1..N /\ j \in 1..N /\ k \in 1..N
        BY <3>1
      <4>4. \E x \in R : IsFirst(rows, R, x)
        <5>1. CASE SortsBefore(rows, i, k)
          <6>1. IsFirst(rows, R, i)
            BY <4>1, <5>1 DEF IsFirst
          <6> QED BY <4>3, <6>1
        <5>2. CASE SortsBefore(rows, k, i)
          <6>1. ASSUME NEW y \in R, y # k PROVE SortsBefore(rows, k, y)
            <7>1. y \in Q /\ y \in 1..N
              BY <3>1, <6>1
            <7>2. y = i \/ SortsBefore(rows, i, y)
              BY <4>1, <7>1 DEF IsFirst
            <7> QED BY <1>2, <4>3, <5>2, <7>1, <7>2
          <6>2. IsFirst(rows, R, k)
            BY <6>1 DEF IsFirst
          <6> QED BY <3>5, <6>2
        <5> QED BY <1>2, <4>3, <5>1, <5>2
      <4>5. \E x \in R : IsLast(rows, R, x)
        <5>1. CASE SortsBefore(rows, k, j)
          <6>1. IsLast(rows, R, j)
            BY <4>2, <5>1 DEF IsLast
          <6> QED BY <4>3, <6>1
        <5>2. CASE SortsBefore(rows, j, k)
          <6>1. ASSUME NEW y \in R, y # k PROVE SortsBefore(rows, y, k)
            <7>1. y \in Q /\ y \in 1..N
              BY <3>1, <6>1
            <7>2. y = j \/ SortsBefore(rows, y, j)
              BY <4>2, <7>1 DEF IsLast
            <7> QED BY <1>2, <4>3, <5>2, <7>1, <7>2
          <6>2. IsLast(rows, R, k)
            BY <6>1 DEF IsLast
          <6> QED BY <3>5, <6>2
        <5> QED BY <1>2, <4>3, <5>1, <5>2
      <4> QED BY <4>4, <4>5
    <3> QED BY <3>3, <3>4, <3>5
  <2>2. k \in 0..N
    BY <1>1
  <2> QED BY <2>1, <2>2
<1> HIDE DEF T
<1>5. T = 0..N
  <2>1. T \in SUBSET (0..N)
    BY DEF T
  <2> QED BY <1>1, <1>3, <1>4, <2>1, AllNumbers
<1>6. N \in T /\ S \in SUBSET (1..N)
  BY <1>1, <1>5
<1>7. Ends(S)
  BY <1>6 DEF T
<1> QED
  BY <1>7

(* ... which are the lowest and the highest.                               *)
LEMMA EndsAre ==
    ASSUME NEW rows \in Seq(TableRow), NEW S \in SUBSET DOMAIN rows, S # {}
    PROVE  /\ Lowest(rows, S) \in S /\ Highest(rows, S) \in S
           /\ \A j \in S : rows[Lowest(rows, S)].altitude <= rows[j].altitude
           /\ \A j \in S : rows[j].altitude <= rows[Highest(rows, S)].altitude
<1>1. (\E i \in S : IsFirst(rows, S, i)) /\ (\E i \in S : IsLast(rows, S, i))
  BY EndsAreThere
<1>2. Lowest(rows, S) \in S /\ IsFirst(rows, S, Lowest(rows, S))
  BY <1>1 DEF Lowest, IsFirst
<1>3. Highest(rows, S) \in S /\ IsLast(rows, S, Highest(rows, S))
  BY <1>1 DEF Highest, IsLast
<1>4. \A i \in S : rows[i].altitude \in Int
  BY RowsAreTyped
<1> QED
  BY <1>2, <1>3, <1>4 DEF IsFirst, IsLast, SortsBefore

(* A value between two rows is between theirs.                             *)
LEMMA BlendIsBetween ==
    ASSUME NEW a \in Nat, NEW b \in Nat, NEW k \in Nat, NEW m \in Nat \ {0}, k <= m
    PROVE  LET x == a + ((b - a) * k) \div m
           IN x \in Nat /\ ((a <= x /\ x <= b) \/ (b <= x /\ x <= a))
<1> DEFINE p == (b - a) * k
           q == p \div m
<1>1. p \in Int
  OBVIOUS
<1>2. q \in Int /\ q * m <= p /\ p < q * m + m /\ q * m \in Int
  <2> HIDE DEF p
  <2>1. p \div m \in Int /\ (p \div m) * m <= p /\ p < (p \div m) * m + m
    BY <1>1, Quotient
  <2> QED BY <2>1
<1> HIDE DEF q
<1>3. CASE a <= b
  <2>1. 0 * k <= (b - a) * k /\ 0 * k = 0
    BY <1>3, TimesMonotone
  <2>2. k * (b - a) <= m * (b - a) /\ k * (b - a) = p /\ m * (b - a) = (b - a) * m
    BY <1>3, TimesMonotone DEF p
  <2>3. 0 <= p /\ p <= (b - a) * m /\ (b - a) * m \in Int
    BY <2>1, <2>2 DEF p
  <2> DEFINE c == b - a
  <2>4. c \in Nat /\ p <= c * m /\ c * m \in Int /\ 0 <= p
    BY <1>3, <2>3
  <2> HIDE DEF c, p
  <2>5. q * m < c * m + m
    BY <1>1, <1>2, <2>4
  <2>6. q <= c
    BY <1>2, <2>4, <2>5, Cancel
  <2>7. 0 * m < q * m + m
    BY <1>1, <1>2, <2>4
  <2>8. 0 <= q
    BY <1>2, <2>7, Cancel
  <2> QED BY <1>2, <2>4, <2>6, <2>8 DEF c, q, p
<1>4. CASE b <= a
  <2>1. (b - a) * k <= 0 * k /\ 0 * k = 0
    BY <1>4, TimesMonotone
  <2>2. k * (a - b) <= m * (a - b) /\ k * (a - b) = -p /\ m * (a - b) = -((b - a) * m)
    BY <1>4, TimesMonotone DEF p
  <2>3. p <= 0 /\ (b - a) * m <= p /\ (b - a) * m \in Int
    BY <1>1, <2>1, <2>2 DEF p
  <2> DEFINE c == b - a
  <2>4. c \in Int /\ c <= 0 /\ c * m <= p /\ c * m \in Int /\ p <= 0
    BY <1>4, <2>3
  <2> HIDE DEF c, p
  <2>5. c * m < q * m + m
    BY <1>1, <1>2, <2>4
  <2>6. c <= q
    BY <1>2, <2>4, <2>5, Cancel
  <2>7. q * m < 0 * m + m
    BY <1>1, <1>2, <2>4
  <2>8. q <= 0
    BY <1>2, <2>7, Cancel
  <2> QED BY <1>2, <2>4, <2>6, <2>8 DEF c, q, p
<1> QED
  BY <1>3, <1>4
-----------------------------------------------------------------------------
(* What a table says of an altitude is between what its rows say.          *)
IsWithin(row, rows, S) ==
    /\ row \in TableRow
    /\ WithinRows(row.tas, "tas", rows, S) /\ WithinRows(row.fuel, "fuel", rows, S)
    /\ row.vertical_speed # None => WithinRows(row.vertical_speed, "vertical_speed", rows, S)

(* A row of a table is within the table ...                                *)
LEMMA RowIsWithin ==
    ASSUME NEW rows \in Seq(TableRow), NEW S \in SUBSET DOMAIN rows, NEW i \in S
    PROVE  IsWithin(rows[i], rows, S)
<1>1. /\ rows[i] \in TableRow /\ rows[i].tas \in Nat /\ rows[i].fuel \in Nat
      /\ rows[i].vertical_speed \in Optional(Nat)
  BY RowsAreTyped
<1>2. rows[i].tas <= rows[i].tas /\ rows[i].fuel <= rows[i].fuel
  BY <1>1
<1>3. rows[i].vertical_speed # None => rows[i].vertical_speed <= rows[i].vertical_speed
  BY <1>1 DEF Optional
<1> QED
  BY <1>1, <1>2, <1>3 DEF IsWithin, WithinRows

(* ... and so is one interpolated between two of its rows ...              *)
LEMMA BetweenIsWithin ==
    ASSUME NEW rows \in Seq(TableRow), NEW S \in SUBSET DOMAIN rows, NEW i \in S, NEW j \in S,
           NEW altitude \in Int, rows[i].altitude < altitude, altitude <= rows[j].altitude
    PROVE  IsWithin(Between(rows[i], rows[j], altitude), rows, S)
<1> DEFINE lower == rows[i]
           upper == rows[j]
           k == altitude - lower.altitude
           m == upper.altitude - lower.altitude
           row == Between(lower, upper, altitude)
<1>1. /\ lower \in TableRow /\ lower.altitude \in Int /\ lower.tas \in Nat /\ lower.fuel \in Nat
      /\ lower.vertical_speed \in Optional(Nat)
      /\ upper \in TableRow /\ upper.altitude \in Int /\ upper.tas \in Nat /\ upper.fuel \in Nat
      /\ upper.vertical_speed \in Optional(Nat)
  BY RowsAreTyped
<1>2. k \in Nat /\ m \in Nat \ {0} /\ k <= m
  <2> DEFINE x == lower.altitude
             y == upper.altitude
  <2>1. x \in Int /\ y \in Int /\ x < altitude /\ altitude <= y
    BY <1>1
  <2>2. k = altitude - x /\ m = y - x
    OBVIOUS
  <2> HIDE DEF x, y, k, m
  <2> QED BY <2>1, <2>2
<1>3. ASSUME NEW a \in Nat, NEW b \in Nat
      PROVE  /\ Blend(a, b, altitude, lower, upper) \in Nat
             /\ \/ a <= Blend(a, b, altitude, lower, upper) /\ Blend(a, b, altitude, lower, upper) <= b
                \/ b <= Blend(a, b, altitude, lower, upper) /\ Blend(a, b, altitude, lower, upper) <= a
  <2>1. Blend(a, b, altitude, lower, upper) = a + ((b - a) * k) \div m
    BY DEF Blend
  <2> HIDE DEF k, m
  <2> QED BY <1>2, <2>1, BlendIsBetween
<1>4. /\ row.altitude = altitude /\ row.power = lower.power
      /\ row.tas = Blend(lower.tas, upper.tas, altitude, lower, upper)
      /\ row.fuel = Blend(lower.fuel, upper.fuel, altitude, lower, upper)
      /\ row.vertical_speed =
           IF None \in {lower.vertical_speed, upper.vertical_speed} THEN None
           ELSE Blend(lower.vertical_speed, upper.vertical_speed, altitude, lower, upper)
      /\ row = [altitude |-> row.altitude, tas |-> row.tas, fuel |-> row.fuel,
                vertical_speed |-> row.vertical_speed, power |-> row.power]
  BY DEF Between
<1>5. ASSUME NEW column, NEW v \in Nat, rows[i][column] \in Nat, rows[j][column] \in Nat,
             v = Blend(rows[i][column], rows[j][column], altitude, lower, upper)
      PROVE  WithinRows(v, column, rows, S)
  <2> DEFINE a == rows[i][column]
             b == rows[j][column]
  <2>1. a \in Nat /\ b \in Nat /\ v = Blend(a, b, altitude, lower, upper)
    BY <1>5
  <2> HIDE DEF a, b, lower, upper
  <2>2. (a <= v /\ v <= b) \/ (b <= v /\ v <= a)
    BY <1>3, <2>1
  <2> QED BY <2>2 DEF WithinRows, a, b
<1> HIDE DEF row, k, m
<1>6. row.tas \in Nat /\ row.fuel \in Nat
  BY <1>1, <1>3, <1>4
<1>7. WithinRows(row.tas, "tas", rows, S) /\ WithinRows(row.fuel, "fuel", rows, S)
  BY <1>1, <1>4, <1>5, <1>6
<1>8. row.vertical_speed \in Optional(Nat)
      /\ (row.vertical_speed # None => WithinRows(row.vertical_speed, "vertical_speed", rows, S))
  <2>1. CASE None \in {lower.vertical_speed, upper.vertical_speed}
    BY <2>1, <1>4 DEF Optional
  <2>2. CASE None \notin {lower.vertical_speed, upper.vertical_speed}
    <3>1. lower.vertical_speed \in Nat /\ upper.vertical_speed \in Nat
      BY <1>1, <2>2 DEF Optional
    <3>2. /\ row.vertical_speed = Blend(lower.vertical_speed, upper.vertical_speed, altitude, lower, upper)
          /\ row.vertical_speed \in Nat
      BY <1>3, <1>4, <2>2, <3>1
    <3>3. WithinRows(row.vertical_speed, "vertical_speed", rows, S)
      BY <1>5, <3>1, <3>2
    <3> QED BY <3>2, <3>3 DEF Optional
  <2> QED BY <2>1, <2>2
<1>9. row \in TableRow
  <2>1. row.altitude \in Int /\ row.power \in STRING
    BY <1>1, <1>4 DEF TableRow
  <2> QED BY <1>4, <1>6, <1>8, <2>1 DEF TableRow
<1> QED
  BY <1>7, <1>8, <1>9 DEF IsWithin, row

(* ... and what interpolate makes of a set of rows, for every altitude.    *)
LEMMA InterpolatedIsWithin ==
    ASSUME NEW rows \in Seq(TableRow), NEW S \in SUBSET DOMAIN rows, NEW altitude \in Int
    PROVE  IF S = {} THEN Interpolate(rows, S, altitude) = None
           ELSE IsWithin(Interpolate(rows, S, altitude), rows, S)
<1>1. CASE S = {}
  BY <1>1 DEF Interpolate
<1>2. CASE S # {}
  <2> DEFINE first == Lowest(rows, S)
             last == Highest(rows, S)
             below == {i \in S : rows[i].altitude < altitude}
  <2>1. first \in S /\ last \in S
    BY <1>2, EndsAre
  <2>2. \A i \in S : rows[i].altitude \in Int
    BY RowsAreTyped
  <2>3. Interpolate(rows, S, altitude) =
          IF altitude <= rows[first].altitude THEN rows[first]
          ELSE IF altitude >= rows[last].altitude THEN rows[last]
          ELSE Between(rows[Highest(rows, below)], rows[Lowest(rows, S \ below)], altitude)
    BY <1>2 DEF Interpolate
  <2> HIDE DEF first, last
  <2>4. CASE altitude <= rows[first].altitude
    <3>1. IsWithin(rows[first], rows, S)
      BY <2>1, RowIsWithin
    <3> QED BY <1>2, <2>3, <2>4, <3>1
  <2>5. CASE ~(altitude <= rows[first].altitude) /\ altitude >= rows[last].altitude
    <3>1. IsWithin(rows[last], rows, S)
      BY <2>1, RowIsWithin
    <3> QED BY <1>2, <2>3, <2>5, <3>1
  <2>6. CASE ~(altitude <= rows[first].altitude) /\ ~(altitude >= rows[last].altitude)
    <3> DEFINE i == Highest(rows, below)
               j == Lowest(rows, S \ below)
    <3>1. first \in below /\ last \in S \ below
      BY <2>1, <2>2, <2>6
    <3>2. i \in below /\ j \in S \ below
      <4>1. below \in SUBSET DOMAIN rows /\ below # {} /\ S \ below \in SUBSET DOMAIN rows /\ S \ below # {}
        BY <3>1
      <4> HIDE DEF below
      <4> QED BY <4>1, EndsAre
    <3> HIDE DEF i, j
    <3>3. i \in S /\ j \in S /\ rows[i].altitude < altitude /\ altitude <= rows[j].altitude
      BY <2>2, <3>2
    <3>4. IsWithin(Between(rows[i], rows[j], altitude), rows, S)
      BY <3>3, BetweenIsWithin
    <3> QED BY <1>2, <2>3, <2>6, <3>4 DEF i, j
  <2> QED BY <2>4, <2>5, <2>6
<1> QED
  BY <1>1, <1>2
-----------------------------------------------------------------------------
(* The figures that are planned with.                                      *)
LEMMA TablesAreTyped ==
    ASSUME NEW aircraft \in Aircraft, aircraft.performance # None
    PROVE  /\ aircraft.performance.climb \in Seq(TableRow)
           /\ aircraft.performance.cruise \in Seq(TableRow)
           /\ aircraft.performance.descent \in Seq(TableRow)
<1>1. aircraft.performance \in Performance
  BY DEF Aircraft, Optional
<1> QED
  BY <1>1 DEF Performance

(* The row of a climb or a descent is within its table.                    *)
LEMMA PhaseRowIsWithin ==
    ASSUME NEW aircraft \in Aircraft, NEW table \in {"climb", "descent"},
           NEW elevation \in Optional(Int), NEW altitude \in Int,
           PhaseRow(aircraft, table, elevation, altitude) # None
    PROVE  /\ aircraft.performance # None
           /\ IsWithin(PhaseRow(aircraft, table, elevation, altitude),
                       aircraft.performance[table], DOMAIN aircraft.performance[table])
<1> DEFINE rows == aircraft.performance[table]
           middle == Midpoint(Field(elevation), altitude)
<1>1. aircraft.performance # None /\ PhaseRow(aircraft, table, elevation, altitude)
                                       = Interpolate(rows, DOMAIN rows, middle)
  BY DEF PhaseRow
<1>2. rows \in Seq(TableRow)
  BY <1>1, TablesAreTyped
<1>3. middle \in Int
  <2> DEFINE a == Field(elevation) + altitude
  <2>1. a \in Int /\ middle = a \div 2
    BY DEF Field, Or, Optional, Midpoint
  <2> HIDE DEF a, middle
  <2> QED BY <2>1, Quotient
<1> HIDE DEF rows, middle
<1>4. /\ DOMAIN rows \in SUBSET DOMAIN rows
      /\ IF DOMAIN rows = {} THEN Interpolate(rows, DOMAIN rows, middle) = None
         ELSE IsWithin(Interpolate(rows, DOMAIN rows, middle), rows, DOMAIN rows)
  BY <1>2, <1>3, InterpolatedIsWithin
<1> QED
  BY <1>1, <1>4 DEF rows

OfOnePower(rows, i) == {j \in DOMAIN rows : rows[j].power = rows[i].power}
PowersOf(rows) == {rows[i].power : i \in DOMAIN rows}

(* A table of one power setting is all of that setting.                    *)
LEMMA OnePower ==
    ASSUME NEW rows \in Seq(TableRow), Cardinality(PowersOf(rows)) = 1
    PROVE  \A i \in DOMAIN rows : OfOnePower(rows, i) = DOMAIN rows
<1>1. IsFiniteSet(DOMAIN rows)
  <2>1. DOMAIN rows = 1..Len(rows) /\ Len(rows) \in Nat /\ 1 \in Int /\ Len(rows) \in Int
    OBVIOUS
  <2> QED BY <2>1, FS_Interval
<1>2. IsFiniteSet(PowersOf(rows))
  <2> DEFINE f == [i \in DOMAIN rows |-> rows[i].power]
  <2>1. f \in Surjection(DOMAIN rows, PowersOf(rows))
    BY DEF Surjection, PowersOf
  <2> HIDE DEF f
  <2> QED BY <1>1, <2>1, FS_Surjection
<1>3. PICK x : PowersOf(rows) = {x}
  BY <1>2, FS_Singleton
<1>4. \A i \in DOMAIN rows : rows[i].power = x
  BY <1>3 DEF PowersOf
<1> QED
  BY <1>4 DEF OfOnePower

(* The cruise row is within the rows of one power setting: the one         *)
(* entered, or the only one there is.                                      *)
LEMMA CruiseRowIsWithin ==
    ASSUME NEW aircraft \in Aircraft, CruiseRow(aircraft) # None
    PROVE  /\ aircraft.performance # None /\ CruiseRow(aircraft) \in TableRow
           /\ \E i \in DOMAIN aircraft.performance.cruise :
                IsWithin(CruiseRow(aircraft), aircraft.performance.cruise,
                         OfOnePower(aircraft.performance.cruise, i))
           /\ \/ aircraft.power_setting \in PowersOf(aircraft.performance.cruise)
              \/ Cardinality(PowersOf(aircraft.performance.cruise)) = 1
<1> DEFINE rows == aircraft.performance.cruise
           altitude == aircraft.cruise_altitude
           setting == aircraft.power_setting
           row == CruiseRow(aircraft)
           Of(power) == {i \in DOMAIN rows : rows[i].power = power}
<1>1. /\ aircraft.performance # None /\ altitude # None
      /\ row = CruiseAt(rows, altitude, setting)
  BY DEF CruiseRow
<1>2. rows \in Seq(TableRow) /\ altitude \in Int
  <2>1. altitude \in Int
    BY <1>1 DEF Aircraft, Optional
  <2> QED BY <1>1, <2>1, TablesAreTyped
<1>3. \/ setting # None /\ row = Interpolate(rows, Of(setting), altitude)
      \/ Cardinality(PowersOf(rows)) = 1 /\ row = Interpolate(rows, DOMAIN rows, altitude)
  BY <1>1 DEF CruiseAt, PowersOf
<1> HIDE DEF rows, altitude, setting, row
<1>4. row # None
  BY DEF row
<1>5. ASSUME NEW S \in SUBSET DOMAIN rows, row = Interpolate(rows, S, altitude)
      PROVE  S # {} /\ IsWithin(row, rows, S)
  BY <1>2, <1>4, <1>5, InterpolatedIsWithin
<1>6. CASE setting # None /\ row = Interpolate(rows, Of(setting), altitude)
  <2>1. Of(setting) # {} /\ IsWithin(row, rows, Of(setting))
    BY <1>5, <1>6
  <2>2. PICK i \in DOMAIN rows : rows[i].power = setting
    BY <2>1
  <2>3. OfOnePower(rows, i) = Of(setting) /\ setting \in PowersOf(rows)
    BY <2>2 DEF OfOnePower, PowersOf
  <2> HIDE DEF Of
  <2> QED BY <1>1, <2>1, <2>2, <2>3 DEF IsWithin, rows, setting, row
<1>7. CASE Cardinality(PowersOf(rows)) = 1 /\ row = Interpolate(rows, DOMAIN rows, altitude)
  <2>1. DOMAIN rows # {} /\ IsWithin(row, rows, DOMAIN rows)
    BY <1>5, <1>7
  <2>2. PICK i \in DOMAIN rows : OfOnePower(rows, i) = DOMAIN rows
    BY <1>2, <1>7, <2>1, OnePower
  <2> QED BY <1>1, <1>7, <2>1, <2>2 DEF IsWithin, rows, row
<1> QED
  BY <1>3, <1>6, <1>7

(* A profile with rows put in its place is a profile.                      *)
LEMMA EffectiveIsAircraft ==
    ASSUME NEW aircraft \in Aircraft, NEW cruise \in Optional(TableRow),
           NEW up \in Optional(TableRow), NEW down \in Optional(TableRow)
    PROVE  LET e == WithRows(aircraft, cruise, up, down)
           IN /\ e \in Aircraft /\ e.fuel_capacity = aircraft.fuel_capacity
              /\ e.cruise_tas = Cell(cruise, "tas", aircraft.cruise_tas)
              /\ e.fuel_burn = Cell(cruise, "fuel", aircraft.fuel_burn)
              /\ e.climb_tas = Or(aircraft.climb_tas, Cell(up, "tas", None))
              /\ e.climb_rate = Or(aircraft.climb_rate, Cell(up, "vertical_speed", None))
              /\ e.descent_tas = Or(aircraft.descent_tas, Cell(down, "tas", None))
<1> DEFINE e == WithRows(aircraft, cruise, up, down)
<1>1. /\ DOMAIN e = DOMAIN aircraft
      /\ e.cruise_tas = Cell(cruise, "tas", aircraft.cruise_tas)
      /\ e.fuel_burn = Cell(cruise, "fuel", aircraft.fuel_burn)
      /\ e.climb_rate = Or(aircraft.climb_rate, Cell(up, "vertical_speed", None))
      /\ e.climb_tas = Or(aircraft.climb_tas, Cell(up, "tas", None))
      /\ e.climb_fuel = Or(aircraft.climb_fuel, Cell(up, "fuel", None))
      /\ e.descent_rate = Or(aircraft.descent_rate, Cell(down, "vertical_speed", None))
      /\ e.descent_tas = Or(aircraft.descent_tas, Cell(down, "tas", None))
      /\ e.descent_fuel = Or(aircraft.descent_fuel, Cell(down, "fuel", None))
      /\ e.cruise_altitude = aircraft.cruise_altitude /\ e.taxi_fuel = aircraft.taxi_fuel
      /\ e.fuel_capacity = aircraft.fuel_capacity /\ e.reserve_seconds = aircraft.reserve_seconds
      /\ e.performance = aircraft.performance /\ e.power_setting = aircraft.power_setting
  BY DEF WithRows, Aircraft
<1>2. e = [cruise_tas |-> e.cruise_tas, fuel_burn |-> e.fuel_burn, cruise_altitude |-> e.cruise_altitude,
           climb_rate |-> e.climb_rate, climb_tas |-> e.climb_tas, climb_fuel |-> e.climb_fuel,
           descent_rate |-> e.descent_rate, descent_tas |-> e.descent_tas,
           descent_fuel |-> e.descent_fuel, taxi_fuel |-> e.taxi_fuel,
           fuel_capacity |-> e.fuel_capacity, reserve_seconds |-> e.reserve_seconds,
           performance |-> e.performance, power_setting |-> e.power_setting]
  <2>1. e = [x \in DOMAIN aircraft |-> e[x]]
    BY DEF WithRows
  <2>2. DOMAIN aircraft =
          {"cruise_tas", "fuel_burn", "cruise_altitude", "climb_rate", "climb_tas", "climb_fuel",
           "descent_rate", "descent_tas", "descent_fuel", "taxi_fuel", "fuel_capacity",
           "reserve_seconds", "performance", "power_setting"}
    BY DEF Aircraft
  <2> HIDE DEF e
  <2> QED BY <2>1, <2>2
<1>3. /\ aircraft.cruise_tas \in Nat /\ aircraft.fuel_burn \in Nat
      /\ aircraft.cruise_altitude \in Optional(Int) /\ aircraft.climb_rate \in Optional(Nat)
      /\ aircraft.climb_tas \in Optional(Nat) /\ aircraft.climb_fuel \in Optional(Nat)
      /\ aircraft.descent_rate \in Optional(Nat) /\ aircraft.descent_tas \in Optional(Nat)
      /\ aircraft.descent_fuel \in Optional(Nat) /\ aircraft.taxi_fuel \in Optional(Nat)
      /\ aircraft.fuel_capacity \in Optional(Nat) /\ aircraft.reserve_seconds \in Optional(Int)
      /\ aircraft.performance \in Optional(Performance) /\ aircraft.power_setting \in Optional(STRING)
  BY DEF Aircraft
<1> HIDE DEF e
<1>4. ASSUME NEW row \in Optional(TableRow), NEW scalar \in Nat
      PROVE  Cell(row, "tas", scalar) \in Nat /\ Cell(row, "fuel", scalar) \in Nat
  BY DEF Cell, Optional, TableRow
<1>5. ASSUME NEW row \in Optional(TableRow)
      PROVE  /\ Cell(row, "tas", None) \in Optional(Nat) /\ Cell(row, "fuel", None) \in Optional(Nat)
             /\ Cell(row, "vertical_speed", None) \in Optional(Nat)
  BY DEF Cell, Optional, TableRow
<1>6. ASSUME NEW a \in Optional(Nat), NEW b \in Optional(Nat) PROVE Or(a, b) \in Optional(Nat)
  BY DEF Or
<1>7. e.cruise_tas \in Nat /\ e.fuel_burn \in Nat
  BY <1>1, <1>3, <1>4
<1>8. /\ e.climb_rate \in Optional(Nat) /\ e.climb_tas \in Optional(Nat) /\ e.climb_fuel \in Optional(Nat)
      /\ e.descent_rate \in Optional(Nat) /\ e.descent_tas \in Optional(Nat)
      /\ e.descent_fuel \in Optional(Nat)
  BY <1>1, <1>3, <1>5, <1>6
<1>9. e \in Aircraft
  BY <1>1, <1>2, <1>3, <1>7, <1>8 DEF Aircraft
<1> QED
  BY <1>1, <1>9 DEF e

(* The rows a plan is made with.                                           *)
InPhaseRow(aircraft, table, elevation) ==
    IF aircraft.cruise_altitude = None THEN None
    ELSE PhaseRow(aircraft, table, elevation, aircraft.cruise_altitude)

(* The rows looked up for the phases of a flight are within their tables.  *)
LEMMA InPhaseRowIsWithin ==
    ASSUME NEW aircraft \in Aircraft, NEW table \in {"climb", "descent"}, NEW elevation \in Optional(Int)
    PROVE  LET row == InPhaseRow(aircraft, table, elevation)
           IN /\ row \in Optional(TableRow)
              /\ row # None => /\ aircraft.performance # None
                               /\ IsWithin(row, aircraft.performance[table],
                                           DOMAIN aircraft.performance[table])
<1> DEFINE row == InPhaseRow(aircraft, table, elevation)
<1>1. CASE row = None
  BY <1>1 DEF Optional
<1>2. CASE row # None
  <2>1. aircraft.cruise_altitude # None /\ row = PhaseRow(aircraft, table, elevation, aircraft.cruise_altitude)
    BY <1>2 DEF InPhaseRow
  <2>2. aircraft.cruise_altitude \in Int
    BY <2>1 DEF Aircraft, Optional
  <2> HIDE DEF row
  <2>3. /\ aircraft.performance # None
        /\ IsWithin(row, aircraft.performance[table], DOMAIN aircraft.performance[table])
    BY <1>2, <2>1, <2>2, PhaseRowIsWithin
  <2> QED BY <2>3 DEF IsWithin, Optional, row
<1> QED
  BY <1>1, <1>2

(* The profile a plan is made with: the entered figures, replaced by the   *)
(* rows' for the cruise and completed by them for the other phases.        *)
LEMMA EffectiveIs ==
    ASSUME NEW aircraft \in Aircraft, NEW departure \in Optional(Int), NEW arrival \in Optional(Int)
    PROVE  LET e == Effective(aircraft, departure, arrival)
               cruise == CruiseRow(aircraft)
               up == InPhaseRow(aircraft, "climb", departure)
               down == InPhaseRow(aircraft, "descent", arrival)
           IN /\ e \in Aircraft /\ e.fuel_capacity = aircraft.fuel_capacity
              /\ e.cruise_tas = Cell(cruise, "tas", aircraft.cruise_tas)
              /\ e.fuel_burn = Cell(cruise, "fuel", aircraft.fuel_burn)
              /\ e.climb_tas = Or(aircraft.climb_tas, Cell(up, "tas", None))
              /\ e.climb_rate = Or(aircraft.climb_rate, Cell(up, "vertical_speed", None))
              /\ e.descent_tas = Or(aircraft.descent_tas, Cell(down, "tas", None))
<1> DEFINE cruise == CruiseRow(aircraft)
           up == InPhaseRow(aircraft, "climb", departure)
           down == InPhaseRow(aircraft, "descent", arrival)
<1>1. Effective(aircraft, departure, arrival) = WithRows(aircraft, cruise, up, down)
  BY DEF Effective, InPhaseRow
<1>2. up \in Optional(TableRow) /\ down \in Optional(TableRow)
  BY InPhaseRowIsWithin
<1>3. cruise \in Optional(TableRow)
  BY CruiseRowIsWithin DEF Optional
<1> HIDE DEF cruise, up, down
<1>4. LET e == WithRows(aircraft, cruise, up, down)
      IN /\ e \in Aircraft /\ e.fuel_capacity = aircraft.fuel_capacity
         /\ e.cruise_tas = Cell(cruise, "tas", aircraft.cruise_tas)
         /\ e.fuel_burn = Cell(cruise, "fuel", aircraft.fuel_burn)
         /\ e.climb_tas = Or(aircraft.climb_tas, Cell(up, "tas", None))
         /\ e.climb_rate = Or(aircraft.climb_rate, Cell(up, "vertical_speed", None))
         /\ e.descent_tas = Or(aircraft.descent_tas, Cell(down, "tas", None))
  BY <1>2, <1>3, EffectiveIsAircraft
<1> QED
  BY <1>1, <1>4 DEF cruise, up, down
-----------------------------------------------------------------------------
(* The fuel.                                                               *)
IsCharged(fuel, aware, times, climbing, cruising, descending) ==
    /\ fuel.phase_aware = aware /\ fuel.times = times /\ fuel.taxi \in Nat
    /\ fuel.trip = Saturate(fuel.taxi + climbing + cruising + descending)
    /\ fuel.within_capacity = TRUE =>
         fuel.taxi + fuel.climb + fuel.cruise + fuel.descent + fuel.reserve <= fuel.capacity

(* What is charged: a phase for its time, each at its burn, and whether    *)
(* the tank holds it.                                                      *)
LEMMA ChargeIs ==
    ASSUME NEW aircraft \in Aircraft,
           aircraft.fuel_capacity # None => aircraft.fuel_capacity < Infinity,
           NEW aware, NEW times, NEW climbing \in Nat, NEW cruising \in Nat, NEW descending \in Nat
    PROVE  IsCharged(Charge(aircraft, aware, times, climbing, cruising, descending),
                     aware, times, climbing, cruising, descending)
<1> DEFINE taxi == Or(aircraft.taxi_fuel, 0)
           reserve == Greater(0, Or(aircraft.reserve_seconds, 0)) * aircraft.fuel_burn
           capacity == aircraft.fuel_capacity
           trip == Saturate(Saturate(taxi + climbing) + Saturate(cruising + descending))
           required == Saturate(trip + reserve)
           fuel == Charge(aircraft, aware, times, climbing, cruising, descending)
<1>1. /\ fuel.phase_aware = aware /\ fuel.times = times /\ fuel.taxi = taxi /\ fuel.trip = trip
      /\ fuel.climb = climbing /\ fuel.cruise = cruising /\ fuel.descent = descending
      /\ fuel.reserve = reserve /\ fuel.capacity = capacity
      /\ fuel.within_capacity = IF capacity = None THEN None ELSE required <= capacity
  BY DEF Charge
<1>2. taxi \in Nat
  BY DEF Or, Aircraft, Optional
<1>3. reserve \in Nat
  <2> DEFINE s == Greater(0, Or(aircraft.reserve_seconds, 0))
             b == aircraft.fuel_burn
  <2>1. s \in Nat /\ b \in Nat
    BY DEF Or, Aircraft, Optional, Greater
  <2>2. reserve = s * b
    OBVIOUS
  <2> HIDE DEF s, b, reserve
  <2> QED BY <2>1, <2>2
<1>4. capacity # None => capacity \in Nat /\ capacity < Infinity
  BY DEF Aircraft, Optional
<1> HIDE DEF taxi, reserve, capacity, fuel
<1>5. trip = Saturate(taxi + climbing + cruising + descending)
  <2> DEFINE a == taxi + climbing
             b == cruising + descending
  <2>1. a \in Nat /\ b \in Nat
    BY <1>2
  <2>2. taxi + climbing + cruising + descending = a + b
    BY <1>2
  <2>3. trip = Saturate(Saturate(a) + Saturate(b))
    OBVIOUS
  <2> HIDE DEF a, b, trip
  <2>4. Saturate(Saturate(a) + Saturate(b)) = Saturate(a + b)
    BY <2>1, SaturatedSum
  <2> QED BY <2>2, <2>3, <2>4
<1>6. ASSUME fuel.within_capacity = TRUE
      PROVE  taxi + climbing + cruising + descending + reserve <= capacity
  <2>1. capacity # None /\ required <= capacity
    BY <1>1, <1>6, NoneIsNothing
  <2> DEFINE a == taxi + climbing + cruising + descending
             b == a + reserve
  <2>2. a \in Nat /\ b \in Nat
    BY <1>2, <1>3
  <2> HIDE DEF a
  <2>3. required = Saturate(b)
    <3>1. trip = Saturate(a)
      BY <1>5 DEF a
    <3> HIDE DEF trip
    <3>2. Saturate(Saturate(a) + reserve) = Saturate(a + reserve)
      BY <1>3, <2>2, SaturatedSum
    <3> QED BY <3>1, <3>2
  <2> HIDE DEF b, required
  <2>4. Saturate(b) < Infinity
    BY <1>4, <2>1, <2>2, <2>3, Saturated, InfinityIsNat
  <2>5. b = Saturate(b)
    BY <2>2, <2>4, Saturated
  <2>6. b <= capacity
    BY <2>1, <2>3, <2>5
  <2> QED BY <2>6 DEF a, b
<1> HIDE DEF trip
<1> QED
  BY <1>1, <1>2, <1>5, <1>6 DEF fuel, IsCharged

(* summarize_fuel: one charge for the phases of the profile, or for the    *)
(* whole log when there is none.                                           *)
LEMMA SummaryIs ==
    ASSUME NEW aircraft \in Aircraft,
           aircraft.fuel_capacity # None => aircraft.fuel_capacity < Infinity,
           NEW route \in Seq(Point), RouteLength(route) < Infinity,
           NEW log, IsLog(log, route, aircraft.fuel_burn), NEW vertical,
           vertical # None => LegCount(route) >= 1 /\ IsProfile(vertical, RouteLength(route)),
           NEW departure \in Optional(Int), NEW arrival \in Optional(Int)
    PROVE  LET fuel == SummarizeFuel(aircraft, vertical, log, departure, arrival)
           IN /\ fuel.phase_aware = (vertical # None)
              /\ vertical = None => fuel.trip = Saturate(fuel.taxi + log.total_fuel)
              /\ vertical # None => fuel.times.cruise = CruiseTime(vertical, log)
              /\ fuel.within_capacity = TRUE =>
                   fuel.taxi + fuel.climb + fuel.cruise + fuel.descent + fuel.reserve <= fuel.capacity
<1> DEFINE times == PhaseTimes(vertical, log)
           burn == aircraft.fuel_burn
           Burn(scalar, table, elevation) ==
             Or(Or(scalar, Cell(PhaseRow(aircraft, table, elevation, vertical.peak), "fuel", None)), burn)
           climbing == IF vertical = None THEN 0
                       ELSE Gallons(times.climb, Burn(aircraft.climb_fuel, "climb", departure))
           cruising == Gallons(times.cruise, burn)
           descending == IF vertical = None THEN 0
                         ELSE Gallons(times.descent, Burn(aircraft.descent_fuel, "descent", arrival))
           fuel == SummarizeFuel(aircraft, vertical, log, departure, arrival)
<1>1. fuel = Charge(aircraft, vertical /= None, times, climbing, cruising, descending)
  BY DEF SummarizeFuel
<1>2. burn \in Nat /\ log.total_ete \in Nat
  BY EtesAre, InfinityIsNat DEF Aircraft
<1>3. ASSUME NEW seconds \in Nat, NEW gph \in Nat PROVE Gallons(seconds, gph) \in Nat
  BY InfinityIsNat DEF Gallons
<1>4. CASE vertical = None
  <2>1. times.cruise = log.total_ete
    BY <1>4 DEF PhaseTimes
  <2> HIDE DEF times
  <2>2. cruising = Gallons(log.total_ete, burn) /\ climbing = 0 /\ descending = 0
    BY <1>4, <2>1
  <2>3. log.total_fuel = Saturate(cruising)
    <3>1. Sums(Distances(route))[LegCount(route)] < Infinity
      BY DEF RouteLength
    <3> HIDE DEF cruising
    <3>2. log.total_fuel = Saturate(Gallons(log.total_ete, aircraft.fuel_burn))
      BY <1>2, <3>1, FuelIsPerTime
    <3> QED BY <2>2, <3>2
  <2>4. cruising \in Nat
    BY <1>2, <1>3, <2>2
  <2> HIDE DEF climbing, cruising, descending, fuel
  <2>5. IsCharged(fuel, vertical /= None, times, climbing, cruising, descending)
    <3>1. climbing \in Nat /\ descending \in Nat
      BY <2>2
    <3>2. ASSUME NEW aware
          PROVE  IsCharged(Charge(aircraft, aware, times, climbing, cruising, descending),
                           aware, times, climbing, cruising, descending)
      BY <2>4, <3>1, ChargeIs
    <3> QED BY <1>1, <3>2, Zenon
  <2>6. fuel.trip = Saturate(fuel.taxi + log.total_fuel)
    <3> DEFINE taxi == fuel.taxi
    <3>1. taxi \in Nat /\ fuel.trip = Saturate(taxi + climbing + cruising + descending)
      BY <2>5 DEF IsCharged
    <3> HIDE DEF taxi
    <3>2. taxi + climbing + cruising + descending = taxi + cruising
      BY <2>2, <2>4, <3>1
    <3>3. Saturate(taxi + Saturate(cruising)) = Saturate(taxi + cruising)
      BY <2>4, <3>1, SaturatedSum
    <3> QED BY <2>3, <3>1, <3>2, <3>3 DEF taxi
  <2> QED BY <1>4, <2>5, <2>6 DEF fuel, IsCharged
<1>5. CASE vertical # None
  <2>1. /\ LegCount(route) >= 1 /\ IsProfile(vertical, RouteLength(route))
        /\ log.total_distance = RouteLength(route)
    BY <1>5 DEF IsLog, RouteLength
  <2>2. /\ times.climb = Time(vertical.top_of_climb) /\ times.descent = Time(vertical.top_of_descent)
        /\ times.cruise = CruiseTime(vertical, log)
    BY <1>5 DEF PhaseTimes
  <2>3. times.climb \in Nat /\ times.descent \in Nat
    BY <2>1, <2>2 DEF IsProfile, Optional, TopPoint, Time
  <2>4. times.cruise \in Nat
    <3>1. Sums(Distances(route))[LegCount(route)] < Infinity
      BY DEF RouteLength
    <3>2. vertical.cruise_distance \in Nat /\ vertical.cruise_distance <= log.total_distance
      BY <2>1 DEF IsProfile
    <3>3. CruiseTime(vertical, log) \in Nat
      BY <1>2, <2>1, <3>1, <3>2, CruiseIsTimed
    <3> QED BY <2>2, <3>3
  <2>5. vertical.peak \in Int
    BY <2>1 DEF IsProfile
  <2>6. ASSUME NEW scalar \in Optional(Nat), NEW table \in {"climb", "descent"},
               NEW elevation \in Optional(Int)
        PROVE  Burn(scalar, table, elevation) \in Nat
    <3> DEFINE row == PhaseRow(aircraft, table, elevation, vertical.peak)
    <3>1. row \in Optional(TableRow)
      BY <2>5, PhaseRowIsWithin DEF IsWithin, Optional
    <3> HIDE DEF row
    <3>2. Cell(row, "fuel", None) \in Optional(Nat)
      BY <3>1 DEF Cell, Optional, TableRow
    <3> QED BY <1>2, <3>2 DEF Or, Optional, row
  <2>7. aircraft.climb_fuel \in Optional(Nat) /\ aircraft.descent_fuel \in Optional(Nat)
    BY DEF Aircraft
  <2> HIDE DEF times, Burn, burn
  <2>8. climbing \in Nat /\ cruising \in Nat /\ descending \in Nat
    BY <1>2, <1>3, <1>5, <2>3, <2>4, <2>6, <2>7
  <2> HIDE DEF climbing, cruising, descending, fuel
  <2>9. IsCharged(fuel, vertical /= None, times, climbing, cruising, descending)
    <3>1. ASSUME NEW aware
          PROVE  IsCharged(Charge(aircraft, aware, times, climbing, cruising, descending),
                           aware, times, climbing, cruising, descending)
      BY <2>8, ChargeIs
    <3> QED BY <1>1, <3>1, Zenon
  <2> QED BY <1>5, <2>2, <2>9 DEF fuel, IsCharged
<1> QED
  BY <1>4, <1>5
-----------------------------------------------------------------------------
(* What has been entered whenever a plan is made.                          *)
FormInv ==
    /\ points \in Routes /\ profile \in Profiles
    /\ winds \in [1..MaxLegs -> Optional(Wind)]
    /\ departure_elevation \in Optional(Int) /\ arrival_elevation \in Optional(Int)

(* What the pilot has entered is of its type, whatever is changed or       *)
(* shown.                                                                  *)
LEMMA FormIsEntered == Spec => []FormInv
<1>1. Init => FormInv
  BY DEF Init, FormInv, Optional
<1>2. FormInv /\ [Next]_form => FormInv'
  <2> SUFFICES ASSUME FormInv, [Next]_form PROVE FormInv'
    OBVIOUS
  <2>1. CASE ChangeRoute
    BY <2>1 DEF ChangeRoute, FormInv
  <2>2. CASE ChooseAircraft
    BY <2>2 DEF ChooseAircraft, FormInv
  <2>3. CASE WindsArrive
    BY <2>3, FormIsTyped DEF WindsArrive, FormInv
  <2>4. CASE ElevationsArrive
    BY <2>4, FormIsTyped DEF ElevationsArrive, FormInv
  <2>5. CASE UNCHANGED form
    BY <2>5 DEF form, FormInv
  <2> QED BY <2>1, <2>2, <2>3, <2>4, <2>5 DEF Next
<1> QED
  BY <1>1, <1>2, PTL DEF Spec

EffectiveNow == Effective(profile, departure_elevation, arrival_elevation)
LogNow == PlanRoute(points, EffectiveNow, winds)
VerticalNow == PlanVertical(points, EffectiveNow, winds, departure_elevation, arrival_elevation)

(* A plan is made of the form as it is now.                                *)
LEMMA PlanIsOfTheForm ==
    /\ Plan.nav_log = LogNow /\ Plan.vertical = VerticalNow /\ Plan.effective = EffectiveNow
    /\ Plan.fuel = SummarizeFuel(EffectiveNow, VerticalNow, LogNow, departure_elevation, arrival_elevation)
    /\ Plan.cruise_source = IF CruiseRow(profile) = None THEN "scalar" ELSE "table"
BY DEF Plan, PlanFlight, LogNow, VerticalNow, EffectiveNow

(* Every figure of a plan was entered or lies within the rows of a table.  *)
LEMMA FiguresOfThePlan ==
    ASSUME FormInv
    PROVE  FiguresAreEntered(Plan)
<1> DEFINE tables == profile.performance
           e == EffectiveNow
           cruise == CruiseRow(profile)
           up == InPhaseRow(profile, "climb", departure_elevation)
           down == InPhaseRow(profile, "descent", arrival_elevation)
<1>1. profile \in Aircraft /\ departure_elevation \in Optional(Int) /\ arrival_elevation \in Optional(Int)
  BY FormIsTyped DEF FormInv
<1>2. /\ e.cruise_tas = Cell(cruise, "tas", profile.cruise_tas)
      /\ e.fuel_burn = Cell(cruise, "fuel", profile.fuel_burn)
      /\ e.climb_tas = Or(profile.climb_tas, Cell(up, "tas", None))
      /\ e.climb_rate = Or(profile.climb_rate, Cell(up, "vertical_speed", None))
      /\ e.descent_tas = Or(profile.descent_tas, Cell(down, "tas", None))
  BY <1>1, EffectiveIs DEF EffectiveNow
<1>3. /\ up # None => tables # None /\ IsWithin(up, tables.climb, DOMAIN tables.climb)
      /\ down # None => tables # None /\ IsWithin(down, tables.descent, DOMAIN tables.descent)
  BY <1>1, InPhaseRowIsWithin
<1>4. cruise # None =>
        /\ \E i \in DOMAIN tables.cruise : IsWithin(cruise, tables.cruise, OfOnePower(tables.cruise, i))
        /\ profile.power_setting \in PowersOf(tables.cruise) \/ Cardinality(PowersOf(tables.cruise)) = 1
  BY <1>1, CruiseRowIsWithin
<1> HIDE DEF e, cruise, up, down
<1>5. /\ e = Plan.effective
      /\ Plan.cruise_source = IF cruise = None THEN "scalar" ELSE "table"
  BY PlanIsOfTheForm DEF e, cruise
<1>6. ASSUME cruise = None
      PROVE  e.cruise_tas = profile.cruise_tas /\ e.fuel_burn = profile.fuel_burn
             /\ Plan.cruise_source = "scalar"
  BY <1>2, <1>5, <1>6 DEF Cell
<1>7. ASSUME cruise # None
      PROVE  /\ \E i \in DOMAIN tables.cruise :
                  WithinRows(e.cruise_tas, "tas", tables.cruise, OfOnePower(tables.cruise, i))
             /\ \E i \in DOMAIN tables.cruise :
                  WithinRows(e.fuel_burn, "fuel", tables.cruise, OfOnePower(tables.cruise, i))
             /\ Plan.cruise_source = "table"
  <2>1. e.cruise_tas = cruise.tas /\ e.fuel_burn = cruise.fuel
    BY <1>2, <1>7 DEF Cell
  <2>2. PICK i \in DOMAIN tables.cruise : IsWithin(cruise, tables.cruise, OfOnePower(tables.cruise, i))
    BY <1>4, <1>7
  <2> QED BY <1>5, <1>7, <2>1, <2>2 DEF IsWithin
<1>8. /\ \/ e.climb_tas = profile.climb_tas
         \/ tables # None /\ WithinRows(e.climb_tas, "tas", tables["climb"], DOMAIN tables["climb"])
      /\ \/ e.climb_rate = profile.climb_rate
         \/ /\ tables # None
            /\ WithinRows(e.climb_rate, "vertical_speed", tables["climb"], DOMAIN tables["climb"])
  BY <1>2, <1>3 DEF Or, Cell, IsWithin
<1>9. \/ e.descent_tas = profile.descent_tas
      \/ tables # None /\ WithinRows(e.descent_tas, "tas", tables["descent"], DOMAIN tables["descent"])
  BY <1>2, <1>3 DEF Or, Cell, IsWithin
<1> QED
  BY <1>4, <1>5, <1>6, <1>7, <1>8, <1>9 DEF FiguresAreEntered, OfOnePower, PowersOf

(* The fuel of a plan is that of its phases.                               *)
LEMMA FuelOfThePlan ==
    ASSUME FormInv
    PROVE  FuelIsOfThePhases(Plan)
<1> DEFINE e == EffectiveNow
           log == LogNow
           vertical == VerticalNow
           fuel == SummarizeFuel(e, vertical, log, departure_elevation, arrival_elevation)
           N == LegCount(points)
<1>1. /\ points \in Seq(Point) /\ profile \in Aircraft
      /\ winds \in [1..MaxLegs -> Optional(Wind)]
      /\ departure_elevation \in Optional(Int) /\ arrival_elevation \in Optional(Int)
  BY FormIsTyped DEF FormInv
<1>2. RouteLength(points) < Infinity
  <2>1. Sums(Distances(points))[Len(Distances(points))] < Infinity
    BY InfinityIsAbove DEF FormInv
  <2> QED BY <1>1, <2>1, DistancesAreSummed DEF RouteLength
<1>3. /\ e \in Aircraft /\ e.fuel_capacity = profile.fuel_capacity
      /\ e.fuel_capacity # None => e.fuel_capacity < Infinity
  <2>1. e \in Aircraft /\ e.fuel_capacity = profile.fuel_capacity
    BY <1>1, EffectiveIs DEF EffectiveNow
  <2>2. profile.fuel_capacity # None => profile.fuel_capacity < Infinity
    BY InfinityIsAbove DEF FormInv
  <2> QED BY <2>1, <2>2
<1> HIDE DEF e
<1>4. IsLog(log, points, e.fuel_burn)
  BY <1>1, <1>3, LogIsOfTheRoute DEF LogNow, e
<1>5. vertical # None => N >= 1 /\ IsProfile(vertical, RouteLength(points))
  BY <1>1, <1>3, VerticalIsProfile DEF VerticalNow, e
<1> HIDE DEF log, vertical
<1>6. /\ fuel.phase_aware = (vertical # None)
      /\ vertical = None => fuel.trip = Saturate(fuel.taxi + log.total_fuel)
      /\ vertical # None => fuel.times.cruise = CruiseTime(vertical, log)
      /\ fuel.within_capacity = TRUE =>
           fuel.taxi + fuel.climb + fuel.cruise + fuel.descent + fuel.reserve <= fuel.capacity
  BY <1>1, <1>2, <1>3, <1>4, <1>5, SummaryIs
<1> HIDE DEF fuel
<1>7. /\ Plan.nav_log = log /\ Plan.vertical = vertical /\ Plan.fuel = fuel
  BY PlanIsOfTheForm DEF e, log, vertical, fuel
<1>8. ASSUME vertical # None, vertical.top_of_climb # None \/ vertical.top_of_descent # None
      PROVE  ClimbedIn(vertical) + vertical.cruise_distance + DescendedIn(vertical) = vertical.total
  BY <1>5, <1>8 DEF IsProfile
<1>9. ASSUME vertical # None, log.total_ete < Infinity
      PROVE  \E slow, fast \in SpeedsOf(log) :
               /\ slow * fuel.times.cruise <= vertical.cruise_distance
               /\ vertical.cruise_distance <= fast * (fuel.times.cruise + Len(points))
  <2>1. N >= 1 /\ IsProfile(vertical, RouteLength(points)) /\ log.total_distance = RouteLength(points)
    BY <1>4, <1>5, <1>9 DEF IsLog, RouteLength
  <2>2. /\ Sums(Distances(points))[LegCount(points)] < Infinity
        /\ vertical.cruise_distance \in Nat /\ vertical.cruise_distance <= log.total_distance
    BY <1>2, <2>1 DEF RouteLength, IsProfile
  <2>3. e.fuel_burn \in Nat
    BY <1>3 DEF Aircraft
  <2>4. \E slow, fast \in SpeedsOf(log) :
          IsLevelTime(slow, fast, CruiseTime(vertical, log), vertical.cruise_distance, Len(points))
    BY <1>1, <1>4, <1>9, <2>1, <2>2, <2>3, CruiseIsTimed
  <2> QED BY <1>6, <1>9, <2>4 DEF IsLevelTime
<1> QED
  BY <1>6, <1>7, <1>8, <1>9 DEF FuelIsOfThePhases, SpeedsOf, ClimbedIn, DescendedIn

(* Whatever was entered, the fuel of the plan is of the flight it plans:   *)
(* every mile is climbed, flown level or descended, once, for the time it  *)
(* takes, and the figures stand on numbers that were entered               *)
(* (summarize_fuel, flight.rs:213-331; performance.rs:10-163).             *)
THEOREM FuelIsPlanned == Spec => []FuelIsOfTheFlight
<1>1. FormInv => FuelIsOfTheFlight
  BY FuelOfThePlan, FiguresOfThePlan DEF FuelIsOfTheFlight, FuelOf
<1> QED
  BY <1>1, FormIsEntered, PTL
=============================================================================
