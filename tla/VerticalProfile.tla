--------------------------- MODULE VerticalProfile ---------------------------
(***************************************************************************)
(* Top of climb and top of descent (ff-planning vertical.rs).  Climb and   *)
(* descent are flown at speeds of their own, so each has its own ground    *)
(* speed over every leg.  A change of altitude is kept as the seconds it   *)
(* takes at the phase's rate, which a leg either lasts or does not: the    *)
(* source's gradient times distance against feet, divided by the rate.     *)
(***************************************************************************)
EXTENDS Route

CONSTANT Halvings    \* of the bisection: enough to reach one unit of distance

ASSUME HalvingsIsCount == Halvings \in Nat

Stuck(leg) == leg.ground_speed <= 0

SecondsOn(leg, distance) ==
  IF distance <= 0 THEN 0
  ELSE IF Stuck(leg) THEN Infinity ELSE distance \div leg.ground_speed

(* How far the first n legs reach, and how long they take. *)
DistanceThrough(legs, n) == Sums([i \in DOMAIN legs |-> legs[i].distance])[n]
SecondsThrough(legs, n) ==
  Sums([i \in DOMAIN legs |->
          IF Stuck(legs[i]) THEN Infinity ELSE legs[i].distance \div legs[i].ground_speed])[n]

(***************************************************************************)
(* distance_for_altitude_change: along the legs, until the change is done. *)
(* On a leg that makes no headway the rest of it happens in place; when    *)
(* the route runs out first there is no answer.                            *)
(***************************************************************************)
OnLeg(legs, last, need) ==
  DistanceThrough(legs, last - 1)
    + (IF Stuck(legs[last]) THEN 0
       ELSE (need - SecondsThrough(legs, last - 1)) * legs[last].ground_speed)

DistanceIn(legs, need, done) ==
  IF done = {} THEN None
  ELSE OnLeg(legs, CHOOSE i \in done : \A j \in done : i <= j, need)

DistanceForAltitudeChange(legs, altitude, rate) ==
  LET Within(need) ==
        DistanceIn(legs, need, {i \in DOMAIN legs : SecondsThrough(legs, i) >= need})
  IN IF altitude <= 0 THEN 0
     ELSE IF rate <= 0 THEN None
     ELSE Within((60 * altitude) \div rate)

(* altitude_after: infinite once a leg without headway is entered. *)
AltitudeAfter(legs, start, rate, distance) ==
  LET Step(i) == Lesser(legs[i].distance, distance - DistanceThrough(legs, i - 1))
      After(seconds) == IF seconds = Infinity THEN Infinity ELSE start + (rate * seconds) \div 60
  IN After(Sums([i \in DOMAIN legs |-> SecondsOn(legs[i], Step(i))])[Len(legs)])

(***************************************************************************)
(* crossover_distance_nm: where the climb meets the descent.  Two infinite *)
(* altitudes differ by a NaN, which is neither below nor above zero.       *)
(***************************************************************************)
Crossover(climb, descent, climbLegs, descentLegs, total) ==
  LET Up(d) == AltitudeAfter(climbLegs, climb.elevation, climb.rate, d)
      Down(d) == AltitudeAfter(descentLegs, descent.elevation, descent.rate, total - d)
      NaN(d) == Up(d) = Infinity /\ Down(d) = Infinity
      Split(span, mid) ==
        IF Up(mid) < Down(mid) THEN [span EXCEPT !.low = mid] ELSE [span EXCEPT !.high = mid]
      Halve(span) ==
        IF span.high - span.low <= 1 THEN span ELSE Split(span, (span.low + span.high) \div 2)
      spans[n \in 0..Halvings] ==
        IF n = 0 THEN [low |-> 0, high |-> total] ELSE Halve(spans[n - 1])
      Middle(span) == (span.low + span.high + 1) \div 2
  IN IF Up(0) >= Down(0) /\ ~NaN(0) THEN 0
     ELSE IF Up(total) <= Down(total) /\ ~NaN(total) THEN total
     ELSE Middle(spans[Halvings])

(***************************************************************************)
(* point_at: the place a distance from the departure falls on.  A leg's    *)
(* fraction is kept as the distance along it.                              *)
(***************************************************************************)
PointOnLeg(points, leg, along, clamped, total, altitude, time) ==
  [from_departure |-> clamped, to_arrival |-> total - clamped,
   leg_index |-> leg, leg_along |-> along,
   position |-> IntermediatePoint(points[leg], points[leg + 1], along),
   altitude |-> altitude, time |-> time]

PointAt(points, legs, distance, altitude, time) ==
  LET OnTheLeg(leg, clamped, total) ==
        PointOnLeg(points, leg, clamped - DistanceThrough(legs, leg - 1), clamped, total, altitude, time)
      Within(clamped, total) ==
        OnTheLeg(CHOOSE i \in DOMAIN legs :
                   /\ clamped <= DistanceThrough(legs, i)
                   /\ \A j \in 1..(i - 1) : DistanceThrough(legs, j) < clamped,
                 clamped, total)
      Of(total) == Within(Greater(0, Lesser(distance, total)), total)
  IN Of(DistanceThrough(legs, Len(legs)))

(* The seconds a phase takes between an altitude and its end of the route; *)
(* with no rate at all, for ever or (0.0 / 0.0 is dropped by max) no time. *)
PhaseTime(altitude, phase) ==
  IF phase.rate = 0 THEN (IF altitude > phase.elevation THEN Infinity ELSE 0)
  ELSE Greater(0, (60 * (altitude - phase.elevation)) \div phase.rate)

-----------------------------------------------------------------------------
(* What a phase needs: its end's elevation and its rate. *)
Phase(elevation, rate) ==
  IF None \in {elevation, rate} THEN None ELSE [elevation |-> elevation, rate |-> rate]

LegsAt(points, tas, winds) ==
  [i \in LegsOf(points) |->
     [distance |-> DistanceNm(points[i], points[i + 1]),
      ground_speed |-> GroundSpeedOn(points, i, tas, winds)]]

(* The climb's legs as they are flown; the descent's, from the arrival back. *)
ClimbLegs(points, profile, winds) ==
  LegsAt(points, Or(profile.climb_tas, profile.cruise_tas), winds)
DescentLegsFromDeparture(points, profile, winds) ==
  LegsAt(points, Or(profile.descent_tas, profile.cruise_tas), winds)
DescentLegs(points, profile, winds) ==
  Reverse(LegsAt(points, Or(profile.descent_tas, profile.cruise_tas), winds))

(* plan_vertical when the cruise altitude is reached: each modelled phase  *)
(* has its point, and the rest of the route is level.                      *)
ReachedProfile(toc, tod, cruise, total) ==
  [top_of_climb |-> toc, top_of_descent |-> tod, cruise_reached |-> TRUE,
   peak |-> cruise, total |-> total,
   cruise_distance |->
     IF None \notin {toc, tod} THEN Greater(0, tod.from_departure - toc.from_departure)
     ELSE IF toc /= None THEN toc.to_arrival ELSE tod.from_departure]

(* ... and when it does not fit in the route. *)
ShortProfile(toc, tod, peak, total) ==
  [top_of_climb |-> toc, top_of_descent |-> tod, cruise_reached |-> FALSE,
   peak |-> peak, total |-> total, cruise_distance |-> 0]

(* Some((toc, tod)) needs toc at or before tod; a phase whose inputs are   *)
(* there but which the route is too short for is never reached.            *)
CruiseReached(toc, tod, climb, descent) ==
  CASE toc /= None /\ tod /= None -> toc <= tod
    [] toc /= None /\ tod = None -> descent = None
    [] toc = None /\ tod /= None -> climb = None
    [] OTHER -> FALSE

(* Both tops where they are reached. *)
Reached(flight, total, toc, tod) ==
  LET At(distance, phase) ==
        IF distance = None \/ phase = None THEN None
        ELSE PointAt(flight.points, flight.up, distance, flight.cruise, PhaseTime(flight.cruise, phase))
  IN ReachedProfile(At(toc, flight.climb), At(tod, flight.descent), flight.cruise, total)

(* Both tops where the climb and the descent meet, no higher than cruise. *)
Met(flight, total, meet, summit) ==
  LET At(phase) == PointAt(flight.points, flight.up, meet, summit, PhaseTime(summit, phase))
  IN ShortProfile(At(flight.climb), At(flight.descent), summit, total)

MetAt(flight, total, meet) ==
  Met(flight, total, meet,
      Lesser(AltitudeAfter(flight.up, flight.climb.elevation, flight.climb.rate, meet), flight.cruise))

(* No tops when only one end is known: the altitude at the other end. *)
OneSided(flight, total) ==
  LET top == IF flight.climb /= None
             THEN AltitudeAfter(flight.up, flight.climb.elevation, flight.climb.rate, total)
             ELSE AltitudeAfter(flight.down, flight.descent.elevation, flight.descent.rate, total)
  IN ShortProfile(None, None, Lesser(top, flight.cruise), total)

ProfileOf(flight, total, toc, tod) ==
  IF CruiseReached(toc, tod, flight.climb, flight.descent) THEN Reached(flight, total, toc, tod)
  ELSE IF None \notin {flight.climb, flight.descent}
  THEN MetAt(flight, total, Crossover(flight.climb, flight.descent, flight.up, flight.down, total))
  ELSE OneSided(flight, total)

(* How far along its legs a phase takes from or to cruise. *)
Needed(legs, phase, cruise) ==
  IF phase = None THEN None
  ELSE DistanceForAltitudeChange(legs, cruise - phase.elevation, phase.rate)

Before(total, back) == IF back = None THEN None ELSE total - back

Placed(flight, total) ==
  ProfileOf(flight, total, Needed(flight.up, flight.climb, flight.cruise),
            Before(total, Needed(flight.down, flight.descent, flight.cruise)))

PlanVertical(points, profile, winds, departure, arrival) ==
  LET flight == [points |-> points, cruise |-> profile.cruise_altitude,
                 climb |-> Phase(departure, profile.climb_rate),
                 descent |-> Phase(arrival, profile.descent_rate),
                 up |-> ClimbLegs(points, profile, winds),
                 down |-> DescentLegs(points, profile, winds)]
      Profiled(f) == Placed(f, DistanceThrough(f.up, Len(f.up)))
  IN IF Len(points) < 2 \/ profile.cruise_altitude = None
          \/ (None \in {departure, profile.climb_rate} /\ None \in {arrival, profile.descent_rate})
     THEN None ELSE Profiled(flight)
=============================================================================
