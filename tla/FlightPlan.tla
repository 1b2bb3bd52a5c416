----------------------------- MODULE FlightPlan -----------------------------
(***************************************************************************)
(* One planning pass (ff-planning flight.rs, performance.rs): cruise and   *)
(* phase figures out of the aircraft's performance tables, the nav log and *)
(* the vertical profile planned with them, and the fuel by phase.          *)
(*                                                                         *)
(* The state is the form the client plans from: the route, the aircraft,   *)
(* the winds and the field elevations.  The pilot changes one of them at a *)
(* time, and the plan is a function of them all.                           *)
(***************************************************************************)
EXTENDS VerticalProfile, FiniteSets

CONSTANTS
  Routes,       \* sequences of points
  Profiles,     \* the aircraft the pilot may choose
  WindChoices,  \* what winds aloft may say of a leg
  Elevations,   \* the field elevations, or None for an end that has none
  MaxLegs       \* no more than this many legs have a wind of their own

(* What can be entered: nothing negative but altitudes and coordinates. *)
Optional(S) == S \cup {None}

Point == Int \X Int

Wind == [direction : 0..359, speed : Nat]

TableRow == [altitude : Int, tas : Nat, fuel : Nat, vertical_speed : Optional(Nat), power : STRING]

Performance == [climb : Seq(TableRow), cruise : Seq(TableRow), descent : Seq(TableRow)]

Aircraft ==
  [cruise_tas : Nat, fuel_burn : Nat, cruise_altitude : Optional(Int),
   climb_rate : Optional(Nat), climb_tas : Optional(Nat), climb_fuel : Optional(Nat),
   descent_rate : Optional(Nat), descent_tas : Optional(Nat), descent_fuel : Optional(Nat),
   taxi_fuel : Optional(Nat), fuel_capacity : Optional(Nat), reserve_seconds : Optional(Int),
   performance : Optional(Performance), power_setting : Optional(STRING)]

(* A climb or descent that can be flown, and a top of one. *)
PhaseData == [elevation : Int, rate : Nat]

TopPoint ==
  [from_departure : Nat, to_arrival : Nat, leg_index : Nat, leg_along : Int,
   position : [1..2 -> Int], altitude : Int, time : Nat]

ASSUME FormIsTyped ==
  /\ Routes \subseteq Seq(Point) /\ Profiles \subseteq Aircraft
  /\ WindChoices \subseteq Optional(Wind) /\ Elevations \subseteq Optional(Int)
  /\ MaxLegs \in Nat

ASSUME NoneIsNothing ==
  /\ None \notin Int /\ None \notin STRING /\ None \notin BOOLEAN /\ None \notin Wind
  /\ None \notin TableRow /\ None \notin Performance /\ None \notin PhaseData /\ None \notin TopPoint

Distances(route) == [i \in LegsOf(route) |-> DistanceNm(route[i], route[i + 1])]

(* No route is as long as that and no tank holds as much. *)
ASSUME InfinityIsAbove ==
  /\ \A route \in Routes : Sums(Distances(route))[Len(Distances(route))] < Infinity
  /\ \A aircraft \in Profiles : aircraft.fuel_capacity /= None => aircraft.fuel_capacity < Infinity

VARIABLES points, profile, winds, departure_elevation, arrival_elevation

form == <<points, profile, winds, departure_elevation, arrival_elevation>>

-----------------------------------------------------------------------------
(* performance.rs. *)

(* A row below, at or above the altitude: interpolated from the two rows   *)
(* around it, and held at the table's ends.                                *)
Blend(a, b, altitude, lower, upper) ==
  a + ((b - a) * (altitude - lower.altitude)) \div (upper.altitude - lower.altitude)

Between(lower, upper, altitude) ==
  [altitude |-> altitude,
   tas |-> Blend(lower.tas, upper.tas, altitude, lower, upper),
   fuel |-> Blend(lower.fuel, upper.fuel, altitude, lower, upper),
   vertical_speed |->
     IF None \in {lower.vertical_speed, upper.vertical_speed} THEN None
     ELSE Blend(lower.vertical_speed, upper.vertical_speed, altitude, lower, upper),
   power |-> lower.power]

(* Of some rows of a table the one that sorts first, and the one that      *)
(* sorts last; rows of one altitude stay in the order they were typed in.  *)
SortsBefore(rows, i, j) ==
  rows[i].altitude < rows[j].altitude \/ (rows[i].altitude = rows[j].altitude /\ i < j)

Lowest(rows, S) == CHOOSE i \in S : \A j \in S \ {i} : SortsBefore(rows, i, j)
Highest(rows, S) == CHOOSE i \in S : \A j \in S \ {i} : SortsBefore(rows, j, i)

(* The trend of the first two rows carried on past the ends. *)
Extrapolated(rows, S, altitude) ==
  LET first == Lowest(rows, S)
      others == S \ {first}
  IN IF S = {} THEN None
     ELSE IF others = {} THEN rows[first]
     ELSE Between(rows[first], rows[Lowest(rows, others)], altitude)

(* Between the last row below the altitude and the next. *)
Interpolate(rows, S, altitude) ==
  LET first == Lowest(rows, S)
      last == Highest(rows, S)
      below == {i \in S : rows[i].altitude < altitude}
  IN IF S = {} THEN None
     ELSE IF altitude <= rows[first].altitude THEN rows[first]
     ELSE IF altitude >= rows[last].altitude THEN rows[last]
     ELSE Between(rows[Highest(rows, below)], rows[Lowest(rows, S \ below)], altitude)

(* The setting asked for, or the only one the table has: never a mixture. *)
CruiseAt(table, altitude, setting) ==
  LET settings == {table[i].power : i \in DOMAIN table}
      Of(power) == {i \in DOMAIN table : table[i].power = power}
  IN IF table = <<>> THEN None
     ELSE IF setting /= None THEN Interpolate(table, Of(setting), altitude)
     ELSE IF Cardinality(settings) = 1 THEN Interpolate(table, DOMAIN table, altitude)
     ELSE None

-----------------------------------------------------------------------------
Midpoint(a, b) == (a + b) \div 2

(* elevation.unwrap_or(0.0) *)
Field(elevation) == Or(elevation, 0)

(* The table's row for a phase, at the middle of it; None without a table. *)
PhaseRow(aircraft, table, elevation, altitude) ==
  IF aircraft.performance = None THEN None
  ELSE Interpolate(aircraft.performance[table], DOMAIN aircraft.performance[table],
                   Midpoint(Field(elevation), altitude))

CruiseRow(aircraft) ==
  IF aircraft.performance = None \/ aircraft.cruise_altitude = None THEN None
  ELSE CruiseAt(aircraft.performance.cruise, aircraft.cruise_altitude, aircraft.power_setting)

Cell(row, column, scalar) == IF row = None THEN scalar ELSE row[column]

(***************************************************************************)
(* plan_flight's effective profile: cruise figures of the table first,     *)
(* phase figures of the table only where the profile has none of its own.  *)
(***************************************************************************)
WithRows(aircraft, cruise, up, down) ==
  [aircraft EXCEPT
     !.cruise_tas = Cell(cruise, "tas", @), !.fuel_burn = Cell(cruise, "fuel", @),
     !.climb_rate = Or(@, Cell(up, "vertical_speed", None)),
     !.climb_tas = Or(@, Cell(up, "tas", None)),
     !.climb_fuel = Or(@, Cell(up, "fuel", None)),
     !.descent_rate = Or(@, Cell(down, "vertical_speed", None)),
     !.descent_tas = Or(@, Cell(down, "tas", None)),
     !.descent_fuel = Or(@, Cell(down, "fuel", None))]

Effective(aircraft, departure, arrival) ==
  LET InPhase(table, elevation) ==
        IF aircraft.cruise_altitude = None THEN None
        ELSE PhaseRow(aircraft, table, elevation, aircraft.cruise_altitude)
  IN WithRows(aircraft, CruiseRow(aircraft), InPhase("climb", departure), InPhase("descent", arrival))

(***************************************************************************)
(* summarize_fuel.  Without a vertical profile the whole flight is charged *)
(* at the cruise burn; with one, each phase for the time it lasts, cruise  *)
(* over the level part at the nav log's average ground speed.              *)
(***************************************************************************)
Time(point) == IF point = None THEN 0 ELSE point.time

Gallons(seconds, gph) == IF seconds = Infinity THEN Infinity ELSE seconds * gph

(* The level part timed as long as the whole route. *)
WholeTime(vertical, route) == route.total_ete

CruiseTime(vertical, route) ==
  IF route.total_ete \in {0, Infinity} \/ route.total_distance = 0 THEN 0
  ELSE (vertical.cruise_distance * route.total_ete) \div route.total_distance

(* What each phase burns in the time it takes, and their sums. *)
Charge(aircraft, aware, times, climbing, cruising, descending) ==
  LET taxi == Or(aircraft.taxi_fuel, 0)
      reserve == Greater(0, Or(aircraft.reserve_seconds, 0)) * aircraft.fuel_burn
      Total(trip, required) ==
        [taxi |-> taxi, climb |-> climbing, cruise |-> cruising, descent |-> descending,
         trip |-> trip, reserve |-> reserve, required |-> required,
         capacity |-> aircraft.fuel_capacity,
         within_capacity |-> IF aircraft.fuel_capacity = None THEN None
                             ELSE required <= aircraft.fuel_capacity,
         times |-> times, phase_aware |-> aware]
      Of(trip) == Total(trip, Saturate(trip + reserve))
  IN Of(Saturate(Saturate(taxi + climbing) + Saturate(cruising + descending)))

PhaseTimes(vertical, route) ==
  IF vertical = None THEN [climb |-> 0, cruise |-> route.total_ete, descent |-> 0]
  ELSE [climb |-> Time(vertical.top_of_climb), cruise |-> CruiseTime(vertical, route),
        descent |-> Time(vertical.top_of_descent)]

SummarizeFuel(aircraft, vertical, route, departure, arrival) ==
  LET Burn(scalar, table, elevation) ==
        Or(Or(scalar, Cell(PhaseRow(aircraft, table, elevation, vertical.peak), "fuel", None)),
           aircraft.fuel_burn)
      In(times, phase, scalar, elevation) ==
        IF vertical = None THEN 0 ELSE Gallons(times[phase], Burn(scalar, phase, elevation))
      Timed(times) ==
        Charge(aircraft, vertical /= None, times,
               In(times, "climb", aircraft.climb_fuel, departure),
               Gallons(times["cruise"], aircraft.fuel_burn),
               In(times, "descent", aircraft.descent_fuel, arrival))
  IN Timed(PhaseTimes(vertical, route))

PlanFlight(route, aircraft, aloft, departure, arrival) ==
  LET With(effective, log, vertical) ==
        [nav_log |-> log, vertical |-> vertical, effective |-> effective,
         fuel |-> SummarizeFuel(effective, vertical, log, departure, arrival),
         cruise_source |-> IF CruiseRow(aircraft) = None THEN "scalar" ELSE "table"]
      Flown(effective) ==
        With(effective, PlanRoute(route, effective, aloft),
             PlanVertical(route, effective, aloft, departure, arrival))
  IN Flown(Effective(aircraft, departure, arrival))

-----------------------------------------------------------------------------
Init ==
  /\ points \in Routes
  /\ profile \in Profiles
  /\ winds = [i \in 1..MaxLegs |-> None]
  /\ departure_elevation = None
  /\ arrival_elevation = None

ChangeRoute ==
  /\ points' \in Routes
  /\ UNCHANGED <<profile, winds, departure_elevation, arrival_elevation>>

ChooseAircraft ==
  /\ profile' \in Profiles
  /\ UNCHANGED <<points, winds, departure_elevation, arrival_elevation>>

WindsArrive ==
  /\ \E i \in 1..MaxLegs, wind \in WindChoices : winds' = [winds EXCEPT ![i] = wind]
  /\ UNCHANGED <<points, profile, departure_elevation, arrival_elevation>>

ElevationsArrive ==
  /\ departure_elevation' \in Elevations
  /\ arrival_elevation' \in Elevations
  /\ UNCHANGED <<points, profile, winds>>

Next == ChangeRoute \/ ChooseAircraft \/ WindsArrive \/ ElevationsArrive

Spec == Init /\ [][Next]_form
-----------------------------------------------------------------------------
Plan == PlanFlight(points, profile, winds, departure_elevation, arrival_elevation)

(* The flight followed by the clock: how long the part of the route that   *)
(* lies between two distances takes at the speeds of these legs.           *)
TimeOver(legs, from, to) ==
  LET Part(i) == Lesser(to, DistanceThrough(legs, i)) - Greater(from, DistanceThrough(legs, i - 1))
  IN Sums([i \in DOMAIN legs |-> SecondsOn(legs[i], Part(i))])[Len(legs)]

(* The legs of the plan at the climb's and at the descent's speeds. *)
Climbing(plan) == ClimbLegs(points, plan.effective, winds)
Descending(plan) == DescentLegsFromDeparture(points, plan.effective, winds)

(* The places a distance along the route may be. *)
IsOnRoute(point, log) ==
  \E i \in LegsOf(points) :
    /\ point.leg_index = i
    /\ DistanceNm(points[i], point.position) + DistanceNm(point.position, points[i + 1])
         = DistanceNm(points[i], points[i + 1])
    /\ point.from_departure = DistanceNm(points[i], point.position) + DistanceThrough(log.legs, i - 1)
    /\ point.from_departure + point.to_arrival = log.total_distance

(* The phase lasts as long over the ground as in the air, to the second.   *)
(* It may end early, in place, where the wind leaves no headway.           *)
SameTime(a, b) == AbsOf(a - b) <= 1

(***************************************************************************)
(* The tops are where the flight would find them.  Climbing from the       *)
(* departure at the climb's ground speeds, leg by leg, takes to the top of *)
(* climb as long as the climb takes; the descent from its top arrives with *)
(* the field; the tops come in order, and lie on the route where they say. *)
(* When cruise does not fit the two are one point that both phases reach,  *)
(* below cruise (plan_vertical, vertical.rs:187-412).                      *)
(***************************************************************************)
MakesHeadway(climbing, descending) ==
  \A i \in LegsOf(points) : ~Stuck(climbing[i]) /\ ~Stuck(descending[i])

TopsOf(log, vertical, toc, tod, climbing, descending) ==
  LET ClimbTime(distance) == TimeOver(climbing, 0, distance)
      DescentTime(distance) == TimeOver(descending, distance, vertical.total)
      headway == MakesHeadway(climbing, descending)
  IN /\ toc /= None => IsOnRoute(toc, log)
     /\ tod /= None => IsOnRoute(tod, log)
     /\ toc /= None /\ tod /= None => toc.from_departure <= tod.from_departure
     /\ vertical.cruise_reached /\ headway =>
          /\ toc /= None => SameTime(ClimbTime(toc.from_departure), toc.time)
          /\ tod /= None => SameTime(DescentTime(tod.from_departure), tod.time)
     /\ ~vertical.cruise_reached /\ toc /= None /\ headway =>
          /\ toc.position = tod.position
          /\ toc.altitude = tod.altitude
          /\ toc.to_arrival > 0 /\ toc.from_departure > 0 /\ profile.climb_rate /= 0 =>
               /\ SameTime(ClimbTime(toc.from_departure), toc.time)
               /\ AbsOf(DescentTime(toc.from_departure) - tod.time) <= 2

TopsOfPlan(plan) ==
  plan.vertical /= None =>
    TopsOf(plan.nav_log, plan.vertical, plan.vertical.top_of_climb, plan.vertical.top_of_descent,
           Climbing(plan), Descending(plan))

TopsAreFlown == TopsOfPlan(Plan)

(***************************************************************************)
(* A planned figure stands on numbers the pilot entered: the cruise speed  *)
(* and burn lie within the rows of one power setting, the phases' within   *)
(* their tables, in whatever order the rows were typed, and an ambiguous   *)
(* table yields to the typed figures (performance.rs:10-18, 126-163).      *)
(***************************************************************************)
WithinRows(value, column, rows, S) ==
  \E a, b \in S : rows[a][column] <= value /\ value <= rows[b][column]

FiguresAreEntered(plan) ==
  LET tables == profile.performance
      OfOne(value, column) ==
        \E i \in DOMAIN tables.cruise :
          WithinRows(value, column, tables.cruise,
                     {j \in DOMAIN tables.cruise : tables.cruise[j].power = tables.cruise[i].power})
      Settings == {tables.cruise[i].power : i \in DOMAIN tables.cruise}
      Entered(typed, value, column, rows) ==
        \/ value = typed
        \/ tables /= None /\ WithinRows(value, column, tables[rows], DOMAIN tables[rows])
  IN /\ plan.cruise_source = "table" =>
          /\ OfOne(plan.effective.cruise_tas, "tas")
          /\ OfOne(plan.effective.fuel_burn, "fuel")
          /\ profile.power_setting \in Settings \/ Cardinality(Settings) = 1
     /\ plan.cruise_source = "scalar" =>
          /\ plan.effective.cruise_tas = profile.cruise_tas
          /\ plan.effective.fuel_burn = profile.fuel_burn
     /\ Entered(profile.climb_tas, plan.effective.climb_tas, "tas", "climb")
     /\ Entered(profile.climb_rate, plan.effective.climb_rate, "vertical_speed", "climb")
     /\ Entered(profile.descent_tas, plan.effective.descent_tas, "tas", "descent")

(***************************************************************************)
(* The fuel is of the flight that is planned: every mile of the route is   *)
(* climbed, flown level or descended, once, and the level part is charged  *)
(* for the time its miles take; a plan without phases is charged for the   *)
(* whole log; and what is said to fit in the tanks fits with the reserve   *)
(* (summarize_fuel, flight.rs:213-331).                                    *)
(***************************************************************************)
FuelIsOfThePhases(plan) ==
  LET fuel == plan.fuel
      toc == plan.vertical.top_of_climb
      tod == plan.vertical.top_of_descent
      climbed == IF toc = None THEN 0 ELSE toc.from_departure
      descended == IF tod = None THEN 0 ELSE tod.to_arrival
      flyable == plan.nav_log.total_ete < Infinity
      speeds == {plan.nav_log.legs[i].ground_speed : i \in DOMAIN plan.nav_log.legs}
  IN /\ ~fuel.phase_aware =>
          fuel.trip = Saturate(fuel.taxi + plan.nav_log.total_fuel)
     /\ fuel.phase_aware /\ (toc /= None \/ tod /= None) =>
          /\ climbed + plan.vertical.cruise_distance + descended = plan.vertical.total
          /\ flyable => \E slow, fast \in speeds :
               /\ slow * fuel.times.cruise <= plan.vertical.cruise_distance
               /\ plan.vertical.cruise_distance <= fast * (fuel.times.cruise + Len(points))
     /\ fuel.within_capacity = TRUE =>
          fuel.taxi + fuel.climb + fuel.cruise + fuel.descent + fuel.reserve <= fuel.capacity

(* The fuel is of the flight that is planned, and of figures the pilot has *)
(* entered.                                                                *)
FuelOf(plan) == FuelIsOfThePhases(plan) /\ FiguresAreEntered(plan)

FuelIsOfTheFlight == FuelOf(Plan)

(***************************************************************************)
(* "Fuel to fly the route" (flight.rs:62-63): a route that can be flown    *)
(* and is not of no length takes more fuel than taxiing does.              *)
(***************************************************************************)
FuelOfTrip(plan) ==
  plan.nav_log.total_ete < Infinity /\ plan.nav_log.total_distance > 0
    => plan.fuel.trip > plan.fuel.taxi

TripFuelIsOfTheRoute == FuelOfTrip(Plan)
=============================================================================
