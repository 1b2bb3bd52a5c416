------------------------------- MODULE Route -------------------------------
(***************************************************************************)
(* The horizontal nav log (ff-planning geo.rs, wind.rs, route.rs): each    *)
(* leg's distance, ground speed, time and fuel, and their totals.          *)
(*                                                                         *)
(* Speeds are in knots, times in seconds and distances in nm/3600, so a    *)
(* distance is a speed times a time.  Fuel is in gallons per hour times    *)
(* seconds.  The chart is flat, its legs run along meridians and parallels *)
(* and winds blow from the compass quarters, so the triangle is solved in  *)
(* integers; the headings and the magnetic variation, which nothing else   *)
(* is computed from, are left out.                                         *)
(***************************************************************************)
EXTENDS Integers, SequencesExt

CONSTANTS
  None,        \* an Option that holds nothing
  Infinity     \* f64::INFINITY: above every number the instance computes

ASSUME InfinityIsNat == Infinity \in Nat

AbsOf(n) == IF n < 0 THEN -n ELSE n
SignOf(n) == IF n < 0 THEN -1 ELSE IF n = 0 THEN 0 ELSE 1
Lesser(a, b) == IF a <= b THEN a ELSE b
Greater(a, b) == IF a >= b THEN a ELSE b
Saturate(n) == Lesser(n, Infinity)

(* The first of two Options that holds something: Option::or. *)
Or(option, other) == IF option = None THEN other ELSE option

-----------------------------------------------------------------------------
(* geo.rs on the flat chart; a point is <<lat, lon>>. *)

DistanceNm(from, to) == AbsOf(to[1] - from[1]) + AbsOf(to[2] - from[2])

InitialBearingDeg(from, to) ==
  IF to[2] > from[2] THEN 90 ELSE IF to[2] < from[2] THEN 270
  ELSE IF to[1] < from[1] THEN 180 ELSE 0

(* The point `along` of the way from one point to the other. *)
IntermediatePoint(from, to, along) ==
  [c \in 1..2 |-> from[c] + SignOf(to[c] - from[c]) * along]

-----------------------------------------------------------------------------
Sine(deg) == CASE deg = 90 -> 1 [] deg = 270 -> -1 [] OTHER -> 0
Cosine(deg) == Sine((deg + 90) % 360)

(* The cathetus of a right triangle, to the knot. *)
Root(square, most) == CHOOSE r \in 0..most : r * r <= square /\ square < (r + 1) * (r + 1)
Cathetus(hypotenuse, other) == Root(hypotenuse * hypotenuse - other * other, hypotenuse)

(***************************************************************************)
(* wind::solve: the ground speed made good.  A wind across that is faster  *)
(* than the aircraft is clamped to its airspeed; into such a wind the      *)
(* ground speed is zero or negative.                                       *)
(***************************************************************************)
Solve(course, tas, wind) ==
  LET beta == (wind.direction - course) % 360
      across == Lesser(AbsOf(wind.speed * Sine(beta)), tas)
  IN IF tas <= 0 THEN 0
     ELSE Cathetus(tas, across) - wind.speed * Cosine(beta)

(* winds.and_then(|w| w.get(i).copied().flatten()): a leg the list does    *)
(* not reach has no wind, like one the list says nothing of.               *)
WindOn(winds, i) == IF i \in DOMAIN winds THEN winds[i] ELSE None

GroundSpeedOn(points, i, tas, winds) ==
  LET wind == WindOn(winds, i)
  IN IF wind = None THEN tas
     ELSE Solve(InitialBearingDeg(points[i], points[i + 1]), tas, wind)

-----------------------------------------------------------------------------
LegsOf(points) == 1..(Len(points) - 1)

LegPlan(distance, speed, burn) ==
  LET ete == IF speed > 0 THEN distance \div speed ELSE Infinity
  IN [distance |-> distance, ground_speed |-> speed, ete |-> ete,
      fuel |-> IF ete = Infinity THEN Infinity ELSE ete * burn]

PlanLeg(points, i, profile, winds) ==
  LegPlan(DistanceNm(points[i], points[i + 1]),
          GroundSpeedOn(points, i, profile.cruise_tas, winds), profile.fuel_burn)

(* What the first n of some numbers add up to. *)
Sums(numbers) ==
  LET sum[n \in 0..Len(numbers)] ==
        IF n = 0 THEN 0 ELSE Saturate(sum[n - 1] + numbers[n])
  IN sum

SumOf(Value(_), legs) == Sums([i \in DOMAIN legs |-> Value(legs[i])])[Len(legs)]

Totals(legs) ==
  [legs |-> legs,
   total_distance |-> SumOf(LAMBDA leg : leg.distance, legs),
   total_ete |-> SumOf(LAMBDA leg : leg.ete, legs),
   total_fuel |-> SumOf(LAMBDA leg : leg.fuel, legs)]

PlanRoute(points, profile, winds) ==
  Totals([i \in LegsOf(points) |-> PlanLeg(points, i, profile, winds)])
=============================================================================
