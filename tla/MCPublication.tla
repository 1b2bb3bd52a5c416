--------------------------- MODULE MCPublication ---------------------------
(* A United States of two airports, an export of France with one and a     *)
(* community listing of Germany; sound feeds of two dates, and feeds that   *)
(* differ from one in a single fault, or in what may be missing.           *)
EXTENDS Publication

CONSTANTS KSFO, KOAK, LFPG, EDDF, SFO, SSTIK, RW28, OSI, PORTE, KLIDE, V25

Position(a) == CASE a = KSFO -> <<37 * Degree, -122 * Degree>>
                 [] a = KOAK -> <<38 * Degree, -122 * Degree>>
                 [] a = LFPG -> <<49 * Degree, 2 * Degree>>
                 [] a = EDDF -> <<50 * Degree, 8 * Degree>>
                 [] OTHER -> <<10 * Degree, 10 * Degree>>

---------------------------------------------------------------------------
(* Lines of the CIFP file. *)

Blank == [short |-> FALSE, sub13 |-> None, continuation |-> FALSE]

AirportLine(a) == [section |-> "P", sub6 |-> "A", icao |-> a, lat |-> Position(a)[1],
                   lon |-> Position(a)[2], elevation |-> 10, name |-> a] @@ Blank

RunwayLine(a, num) == [section |-> "P", sub6 |-> "G", icao |-> a, ident |-> [num |-> num, sfx |-> ""],
                       length |-> 3000, lat |-> 0, lon |-> 0, bearing |-> 10 * num] @@ Blank

LegLine(a, kind, ident, transition, seq, fix) ==
    [section |-> "P", sub6 |-> kind, icao |-> a, ident |-> ident, seq |-> seq, route_type |-> "5",
     transition |-> transition, fix |-> fix, altitude |-> [desc |-> "+", a1 |-> 4000, a2 |-> None]] @@ Blank

PointLine(section, sub, ident) ==
    [section |-> section, sub6 |-> sub, ident |-> ident, region |-> "K2", lat |-> 37 * Degree,
     lon |-> -122 * Degree, vor |-> TRUE, facility |-> "D", dme_lat |-> None, dme_lon |-> None] @@ Blank

AirwayLine(seq, fix) == [section |-> "E", sub6 |-> "R", ident |-> V25, seq |-> seq, fix |-> fix] @@ Blank

Ils28 == [prefix |-> "I", suffix |-> None]

File(airports) ==
    MapSeq(airports, AirportLine) \o
    <<RunwayLine(KSFO, 10), RunwayLine(KSFO, 28), RunwayLine(EDDF, 7),
      LegLine(KSFO, "D", SSTIK, RW28, 10, PORTE), LegLine(KSFO, "F", Ils28, NoTransition, 10, OSI),
      LegLine(EDDF, "D", SSTIK, NoTransition, 10, PORTE),
      AirwayLine(10, OSI), AirwayLine(20, KLIDE),
      PointLine("D", "", OSI), PointLine("E", "A", OSI), PointLine("E", "A", PORTE), PointLine("E", "A", KLIDE)>>

MCRunwayOf == (RW28 :> [num |-> 28, sfx |-> ""]) @@ (Ils28 :> [num |-> 28, sfx |-> ""])

---------------------------------------------------------------------------
(* The other sources. *)

Frequency(arpt) == [facility |-> arpt, site_type |-> "AIRPORT", mhz |-> 120, use |-> <<"LCL">>]

NasrOf(base) ==
    [base |-> base, runways |-> <<[arpt |-> SFO, id |-> <<[num |-> 10, sfx |-> ""], [num |-> 28, sfx |-> ""]>>,
                                   length |-> 3000, surface |-> <<"ASPH">>]>>,
     ends |-> <<>>, freqs |-> <<Frequency(SFO), Frequency(EDDF)>>]

NasrBase == <<[arpt |-> SFO, icao |-> KSFO], [arpt |-> EDDF, icao |-> None]>>

Square == <<<<0, 0>>, <<0, 1>>, <<1, 1>>>>

Boundary(n, type) == [id |-> <<"FAA", n>>, type |-> type, lower |-> <<0, "SFC">>,
                      upper |-> <<100, "STD">>, geometry |-> <<<<Square>>>>]

Text(tag, value) == <<<<"open", tag>>, <<"text", value>>, <<"close">>>>

Coordinate(seconds, digits) ==
    [digits |-> digits, deg |-> seconds \div Degree, min |-> 0, sec |-> 0, negative |-> FALSE]

Ahp(a, position) ==
    [tag |-> "Ahp", body |-> <<<<"open", "AhpUid">>>> \o Text("codeId", a) \o <<<<"close">>>>
                             \o Text("geoLat", Coordinate(position[1], 2))
                             \o Text("geoLong", Coordinate(position[2], 3))]

Rwy(a) ==
    [tag |-> "Rwy", body |-> <<<<"open", "RwyUid">>, <<"open", "AhpUid">>>> \o Text("codeId", a)
        \o <<<<"close">>>> \o Text("txtDesig", <<[num |-> 8, sfx |-> "L"], [num |-> 26, sfx |-> "R"]>>)
        \o <<<<"close">>>>]

Export(effective) ==
    [zip |-> FALSE, doc |-> [whole |-> TRUE, effective |-> effective,
       features |-> <<Ahp(LFPG, Position(LFPG)), Ahp(KSFO, <<1 * Degree, 1 * Degree>>), Rwy(LFPG), Rwy(EDDF)>>]]

Item(icao, point) == [icao |-> icao, country |-> "DE", point |-> point, elevation |-> None]

Listing(points) ==
    [airports |-> [i \in 1..Len(points) |-> Item(IF i = 1 THEN EDDF ELSE LFPG, points[i])],
     navaids |-> <<>>,
     airspaces |-> <<[id |-> 1, icao_class |-> 3, kind |-> None, lower |-> None, upper |-> None,
                      ring |-> Square]>>]

PfrLine(orig, dest) == [cells |-> PfrCells, type |-> "H", orig |-> orig, dest |-> dest,
                        route |-> <<orig, V25, dest>>]

CdrLine(orig, dest) == [cells |-> CdrCells, orig |-> orig, dest |-> dest, route |-> <<orig, dest>>]

Plate(code, name, pdf, ident) ==
    <<<<"record">>, <<"text", "chart_code", code>>, <<"text", "chart_name", name>>,
      <<"text", "pdf_name", pdf>>, <<"text", "faanfd18", ident>>, <<"end">>>>

Name(type, runway) == [type |-> type, runway |-> runway, circling |-> None]

Metafile ==
    <<<<"airport", KSFO>>>> \o Plate("IAP", Name(<<"ILS", "OR", "LOC">>, [num |-> 28, sfx |-> ""]), 1, <<>>)
      \o Plate("DP", None, 2, <<SSTIK, PORTE>>) \o Plate("APD", None, 3, <<>>)
      \o <<<<"airport", KOAK>>>> \o Plate("DP", None, 4, <<SSTIK, PORTE>>)

---------------------------------------------------------------------------
(* Feeds. *)

Map(label, suffix) == <<label, suffix>>

Sound(date) ==
    [cifp |-> [listing |-> {date}, zips |-> [d \in {date} |-> File(<<KSFO, KOAK>>)]],
     nasr |-> [d \in {date} |-> NasrOf(NasrBase)],
     class |-> [B |-> <<<<Boundary(1, "CLASS")>>, <<>>>>, C |-> <<<<>>>>, D |-> <<<<>>>>],
     special |-> <<<<Boundary(2, "MOA")>>, <<Boundary(3, "R")>>, <<>>>>,
     export |-> Export(1), key |-> TRUE, states |-> <<<<"DE", "ED">>>>,
     listings |-> [c \in {"DE", "FR"} |-> Listing(<<Position(EDDF), Position(KOAK)>>)],
     pfr |-> <<PfrLine(SFO, KOAK), PfrLine(SFO, OSI)>>, cdr |-> <<CdrLine(KSFO, EDDF), CdrLine(KSFO, OSI)>>,
     offers |-> [f \in {1, 2} |-> [from |-> f, to |-> f]], metafiles |-> [f \in {1, 2} |-> Metafile],
     site |-> [d \in {1} |-> [sectional |-> {1}, tac |-> {1}, heli |-> None]],
     page |-> [dates |-> {1}, low |-> {1}, high |-> {}],
     zips |-> [sectional |-> (<<1, 1>> :> <<Map(1, "SEC")>>),
               enroute |-> (<<1, 1>> :> <<Map(6, "ENR"), Map(7, "ENR")>>),
               tac |-> (<<1, 1>> :> <<Map(1, "TAC"), Map(1, "FLY")>>), heli |-> <<>>]]

WithAirports(f, airports) == [f EXCEPT !.cifp.zips = [d \in DOMAIN @ |-> File(airports)]]

(* What can be wrong, one thing at a time. *)
Faulty(f) ==
    <<[f EXCEPT !.cifp.listing = {}],
     [f EXCEPT !.nasr = [d \in DOMAIN @ |-> None]],
     [f EXCEPT !.nasr = [d \in DOMAIN @ |-> NasrOf(<<None>>)]],
     WithAirports(f, <<KSFO, KSFO>>),
     [f EXCEPT !.class.D = <<None>>],
     [f EXCEPT !.special = <<<<Boundary(1, "MOA")>>, <<>>>>],
     [f EXCEPT !.export = Export(None)],
     [f EXCEPT !.states = <<<<"FR", "LF">>>>],
     [f EXCEPT !.listings["DE"] = Listing(<<<<0, 0>>>>)]>>

(* What can be wrong with the charts. *)
FaultyCharts(f) ==
    <<[f EXCEPT !.site = [d \in {1} |-> [sectional |-> None, tac |-> None, heli |-> None]]],
     [f EXCEPT !.zips.sectional = (<<1, 1>> :> None)],
     [f EXCEPT !.zips.enroute = (<<1, 1>> :> <<Map(6, "ENR"), Map(6, "ENR")>>)],
     [f EXCEPT !.page = None]>>

(* What may be missing, or there twice, without a run failing for it. *)
Lesser(f) ==
    <<[f EXCEPT !.export = None, !.nasr = [d \in DOMAIN @ |-> NasrOf(Append(NasrBase, [arpt |-> OSI, icao |-> KSFO]))],
                !.offers = <<>>, !.site[1].tac = Down, !.listings["DE"].navaids = None, !.cdr = None],
     [f EXCEPT !.key = FALSE, !.pfr = None, !.metafiles = [d \in {1, 2} |-> None]]>>

(* A cycle without any other source. *)
Alone(f) == [f EXCEPT !.export = None, !.key = FALSE, !.pfr = None, !.cdr = None, !.offers = <<>>]

(* So little that it must not follow a sound cycle. *)
Meagre(f) == <<[WithAirports(f, <<KSFO>>) EXCEPT !.export = None, !.key = FALSE]>>

MCFeeds == <<Sound(1), Sound(2)>> \o Faulty(Sound(1)) \o FaultyCharts(Alone(Sound(1)))
             \o Lesser(Sound(1)) \o Meagre(Sound(2))
=============================================================================
