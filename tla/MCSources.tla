----------------------------- MODULE MCSources -----------------------------
(* Few records of each format, chosen so that they clash: parallel runways, *)
(* repeated keys, foreign blocks, branches and loops, unfinished records.   *)
EXTENDS Sources

CONSTANTS KSFO, KOAK, SSTIK, RW28L, RW28R, PORTE, PLAIN, EDDF

Blank == [short |-> FALSE, sub13 |-> None, continuation |-> FALSE, section |-> "P"]

EndLine(a, num, sfx) ==
    [sub6 |-> "G", icao |-> a, ident |-> [num |-> num, sfx |-> sfx], length |-> 100, lat |-> 0, lon |-> 0,
     bearing |-> 0] @@ Blank

LegLine(kind, ident, transition, seq, fix, altitude) ==
    [sub6 |-> kind, icao |-> KSFO, ident |-> ident, seq |-> seq, route_type |-> "5", transition |-> transition,
     fix |-> fix, altitude |-> altitude] @@ Blank

Window == [desc |-> "B", a1 |-> 9000, a2 |-> 4000]

AtLeast == [desc |-> "+", a1 |-> 4000, a2 |-> None]

Segment(from, to) == [from |-> from, to |-> to, min |-> 100 * to]

NasrEnd(rwy, num) ==
    [rwy |-> rwy, end |-> [num |-> num, sfx |-> ""], heading |-> 10 * num]

Rwy1028 == <<[num |-> 10, sfx |-> ""], [num |-> 28, sfx |-> ""]>>

Rwy1533 == <<[num |-> 15, sfx |-> ""], [num |-> 33, sfx |-> ""]>>

Item(icao, point) == [icao |-> icao, country |-> "DE", point |-> point, elevation |-> None]

MCRecords ==
    [ends |-> {EndLine(KSFO, 10, "L"), EndLine(KSFO, 28, "R"), EndLine(KSFO, 28, "L"), EndLine(KSFO, 10, "R"),
               EndLine(KOAK, 28, "R"), EndLine(KOAK, None, "")},
     legs |-> {LegLine("D", SSTIK, RW28L, 10, PORTE, Window), LegLine("D", SSTIK, RW28R, 10, PORTE, AtLeast),
               LegLine("D", SSTIK, PLAIN, 20, PORTE, Window), LegLine("D", SSTIK, PLAIN, 10, None, AtLeast),
               LegLine("E", PORTE, RW28L, 20, SSTIK, Window), LegLine("D", SSTIK, PLAIN, 20, None, AtLeast)},
     elements |-> {<<"open", "AhpUid">>, <<"open", "OrgUid">>, <<"open", "txtName">>, <<"close">>,
                   <<"text", PLAIN>>},
     segments |-> {Segment(1, 2), Segment(2, 3), Segment(3, 4), Segment(4, 1), Segment(2, 5)},
     ends_nasr |-> {NasrEnd(Rwy1028, 10), NasrEnd(Rwy1028, 28), NasrEnd(Rwy1533, 15)},
     plates |-> {<<"airport", KSFO>>, <<"record">>, <<"end">>, <<"text", "pdf_name", 1>>,
                 <<"text", "chart_code", "DP">>},
     items |-> {Item(EDDF, <<1, 1>>), Item(None, <<2, 2>>), Item(None, None)},
     columns |-> BOOLEAN,
     rows |-> {None, <<1, 4>>, <<2, 5>>, <<3, 3>>}]

MCLongest == [ends |-> 5, legs |-> 4, elements |-> 6, segments |-> 5, ends_nasr |-> 3, plates |-> 6, items |-> 5,
              columns |-> 9, rows |-> 6]

MCDesignators == (RW28L :> [num |-> 28, sfx |-> "L"]) @@ (RW28R :> [num |-> 28, sfx |-> "R"])
=============================================================================
