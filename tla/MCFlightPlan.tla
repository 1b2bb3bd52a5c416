---------------------------- MODULE MCFlightPlan ----------------------------
(***************************************************************************)
(* Five routes of up to three points, 6 to 24 nm a leg, with a leg of no   *)
(* length and one flown back; winds of 60 kt from two quarters, ahead,     *)
(* across or behind depending on the leg; aircraft with typed figures and  *)
(* with tables, of one power setting and of two, too slow for the wind,    *)
(* with a cruise that does not fit, without one, and without a rate.       *)
(***************************************************************************)
EXTENDS FlightPlan

Mile == 3600

MCRoutes ==
  {<< <<0, 0>> >>,
   << <<0, 0>>, <<12 * Mile, 0>> >>,
   << <<0, 0>>, <<6 * Mile, 0>>, <<6 * Mile, 12 * Mile>> >>,
   << <<0, 0>>, <<6 * Mile, 0>>, <<6 * Mile, 0>> >>,
   << <<0, 0>>, <<24 * Mile, 0>>, <<18 * Mile, 0>> >>}

MCWindChoices ==
  {None} \cup [direction : {0, 90}, speed : {60}]

MCElevations == {None, 0, 4000}

Row(altitude, tas, fuel, speed, power) ==
  [altitude |-> altitude, tas |-> tas, fuel |-> fuel, vertical_speed |-> speed, power |-> power]

(* Rows as they were typed in, not in order. *)
Tables(settings) ==
  [climb |-> <<Row(2000, 70, 10, 400, ""), Row(1000, 80, 12, 600, "")>>,
   descent |-> <<Row(0, 100, 4, 500, "")>>,
   cruise |-> <<Row(4000, 80, 6, None, "65%"), Row(2000, 120, 10, None, "65%")>>
               \o IF settings = 1 THEN <<>>
                  ELSE <<Row(2000, 160, 16, None, "75%"), Row(4000, 150, 14, None, "75%")>>]

Typed ==
  [cruise_tas |-> 100, fuel_burn |-> 8, cruise_altitude |-> 3000,
   climb_rate |-> 500, climb_tas |-> 75, climb_fuel |-> 11,
   descent_rate |-> 500, descent_tas |-> None, descent_fuel |-> None,
   taxi_fuel |-> Mile, fuel_capacity |-> 4 * Mile, reserve_seconds |-> 1800,
   performance |-> None, power_setting |-> None]

Untyped ==
  [Typed EXCEPT !.climb_rate = None, !.climb_tas = None, !.climb_fuel = None, !.descent_rate = None]

MCProfiles ==
  {Typed,
   [Typed EXCEPT !.climb_tas = 60, !.climb_rate = 1000],
   [Typed EXCEPT !.cruise_tas = 60, !.taxi_fuel = None],
   [Typed EXCEPT !.cruise_altitude = 9000, !.descent_tas = 65],
   [Typed EXCEPT !.cruise_altitude = None],
   [Typed EXCEPT !.climb_rate = 0],
   [Typed EXCEPT !.performance = Tables(2), !.power_setting = "75%", !.fuel_capacity = None],
   [Untyped EXCEPT !.performance = Tables(1)],
   [Untyped EXCEPT !.performance = Tables(1), !.cruise_altitude = 9000],
   [Untyped EXCEPT !.performance = Tables(2)]}

(* For the run on the trip fuel: a cruise altitude only a long route fits. *)
MCHighCruise == {[Typed EXCEPT !.cruise_altitude = 9000]}
=============================================================================
