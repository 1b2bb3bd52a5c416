----------------------------- MODULE MCQueries -----------------------------
(* Two airports and what hangs on them, a few rows that clash in each       *)
(* table.                                                                   *)
EXTENDS Queries

Field(icao, name, lat, lon, type) ==
    [icao |-> icao, faa_id |-> None, iata |-> None, name |-> name, lat |-> lat, lon |-> lon, type |-> type]

AD == <<1, 4>>

AK == <<1, 11>>

PA == <<16, 1>>

PADK == Field(AD, <<3>>, 52, -176, "Airport")

PASY == Field(AK, <<19, 1, 4>>, 52, 174, "Airport")

Pad == Field(PA, <<16>>, 51, 180, "Heliport")

Named == Field(<<1>>, <<2>>, 40, -74, "Airport")

Nothing ==
    [airport |-> <<>>, runway |-> <<>>, frequency |-> <<>>, procedure |-> <<>>, transition |-> <<>>, leg |-> <<>>,
     navaid |-> <<>>, waypoint |-> <<>>, airway |-> <<>>, airspace |-> <<>>, chart |-> <<>>, dtpp |-> <<>>,
     preferred |-> <<>>, source |-> None, cycle |-> {}]

Approach(id, icao) == [id |-> id, airport |-> icao, kind |-> 1, ident |-> <<9, id>>]

Volume(id, class, south, north, west, east) ==
    [id |-> id, class |-> class, name |-> <<id>>, box |-> [south |-> south, north |-> north, west |-> west, east |-> east]]

Leg(seq, fix) == [transition |-> 1, seq |-> seq, fix |-> fix]

RW1 == RW \o <<1>>

Fixed(ident, lat) == [ident |-> ident, lat |-> lat, lon |-> 0]

Runway(icao, le, he, at) ==
    [airport |-> icao, ident |-> le \o he, le_ident |-> le, he_ident |-> he, le |-> <<at, 1>>, he |-> <<at, 2>>]

Tuned(icao, kind, khz, remark) == [airport |-> icao, kind |-> kind, khz |-> khz, remark |-> remark]

Plate(icao, ident, name, file) ==
    [airport |-> icao, procedure_ident |-> ident, chart_name |-> name, pdf_url |-> file]

MCBase ==
    [map |-> Nothing,
     procedure |-> [Nothing EXCEPT !.airport = <<PADK, PASY>>, !.procedure = <<Approach(1, AD)>>,
                                   !.transition = <<[id |-> 1, procedure |-> 1, kind |-> 1, ident |-> <<>>]>>],
     airport |-> [Nothing EXCEPT !.airport = <<PADK, PASY>>],
     route |-> [Nothing EXCEPT !.airport = <<PADK, PASY>>],
     search |-> Nothing]

MCRows ==
    [map |-> [airport |-> {PADK, PASY, Pad, Named}, procedure |-> {Approach(1, AD), Approach(2, AK)},
              airspace |-> {Volume(1, "E", 40, 60, -180, -170), Volume(2, "PROHIBITED", 51, 53, 173, 175),
                            Volume(3, "E", 39, 41, -75, -70)},
              chart |-> {[id |-> 1, kind |-> 2, name |-> <<1>>, box |-> Volume(1, "E", 35, 45, -80, -70).box]}],
     procedure |-> [leg |-> {Leg(20, RW1), Leg(10, AK), Leg(30, None)}, waypoint |-> {Fixed(AK, 1), Fixed(AK, 8), Fixed(RW1, 2)},
                    navaid |-> {Fixed(AK, 3), Fixed(RW1, 4)},
                    runway |-> {Runway(AD, <<1>>, <<2>>, 5), Runway(AK, <<1>>, <<2>>, 6), Runway(AD, <<3>>, <<1>>, 7)},
                    dtpp |-> {Plate(AD, <<9, 1>>, <<1>>, 1), Plate(AD, <<9, 1>>, <<2>>, 2)}],
     airport |-> [frequency |-> {Tuned(AD, "OTHER", 119, <<1>>), Tuned(AD, "APP", 119, <<2>>), Tuned(AD, "TWR", 119, <<1>>),
                                 Tuned(AD, "OTHER", 121, None), Tuned(AK, "CTAF", 119, <<3>>)},
                  runway |-> {Runway(AD, <<1>>, <<2>>, 5), Runway(AK, <<3>>, <<4>>, 6)},
                  dtpp |-> {Plate(AD, AirportDiagramIdent, <<1>>, 1), Plate(AD, <<9, 1>>, <<2>>, 2),
                            Plate(AD, <<9, 2>>, <<2>>, 2), Plate(AK, AirportDiagramIdent, <<1>>, 3)}],
     route |-> [waypoint |-> {Fixed(AK, 1), Fixed(PA, 2)}, navaid |-> {Fixed(AK, 3), Fixed(<<4>>, 4)},
                airway |-> {[ident |-> <<22, 4>>, legs |-> <<AK, <<4>>, PA>>]},
                preferred |-> {[source |-> s, orig |-> AD, dest |-> d] : s \in {"PFR", "CDR"}, d \in {AD, AK}}],
     search |-> [airport |-> {PADK, PASY, Pad, Named, Field(<<4>>, <<16, 1>>, 0, 0, "Airport")}]]

MCLargest == [map |-> 5, procedure |-> 5, airport |-> 4, route |-> 5, search |-> 5]

Box(west, south, east, north) == [west |-> west, south |-> south, east |-> east, north |-> north]

MCBoxes == {Box(170, 50, -170, 60), Box(-80, 30, -60, 50), Box(-180, 0, 180, 90), Box(178, 51, -180, 51)}

MCTyped == {<<>>, <<22>>, AD, PA, <<Blank, Lower(1), Lower(11), Blank>>, <<4>>, <<Underscore>>}
=============================================================================
