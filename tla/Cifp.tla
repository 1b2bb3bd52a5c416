-------------------------------- MODULE Cifp --------------------------------
(***************************************************************************)
(* What the CIFP parser makes of the records of one file.  A record is a   *)
(* TLA+ record of decoded fields: None stands for a field that is blank or *)
(* does not decode, a runway designator is its number and suffix letter,   *)
(* an identifier is a string or a small record naming the parts the code   *)
(* tells apart.  An extractor answers the set of what it extracted: one    *)
(* row, or none when the record is refused.                                *)
(***************************************************************************)
EXTENDS Fields

---------------------------------------------------------------------------
(* Classification.                                                         *)

CategoryFor(section, sub) ==
    CASE section = "P" /\ sub = "A" -> "airport"
      [] section = "P" /\ sub = "G" -> "runway"
      [] section = "P" /\ sub = "D" -> "SID"
      [] section = "P" /\ sub = "E" -> "STAR"
      [] section = "P" /\ sub = "F" -> "APPROACH"
      [] <<section, sub>> \in {<<"P", "N">>, <<"D", "B">>} -> "ndb"
      [] section = "D" /\ sub # "B" -> "vhf"
      [] <<section, sub>> \in {<<"P", "C">>, <<"E", "A">>} -> "waypoint"
      [] section = "E" /\ sub = "R" -> "airway"
      [] section = "E" /\ sub = "U" -> "communication"
      [] OTHER -> None

(* The subsection is in column 6, or in column 13 behind an airport.       *)
Category(l) ==
    LET first == CategoryFor(l.section, l.sub6) IN
    LET second == CategoryFor(l.section, l.sub13) IN
    IF first # None THEN first ELSE IF second # None THEN second ELSE "unknown"

ProcedureKinds == {"SID", "STAR", "APPROACH"}

Present(l, fields) == ~l.short /\ \A f \in fields : l[f] # None

---------------------------------------------------------------------------
(* Field extraction: which fields a row cannot do without, and where the   *)
(* others come from.                                                       *)

ExtractAirport(l) ==
    IF Category(l) = "airport" /\ Present(l, {"icao", "lat", "lon", "elevation", "name"})
    THEN {[icao |-> l.icao, faa_id |-> None, lat |-> l.lat, lon |-> l.lon]} ELSE {}

ExtractRunwayEnd(l) ==
    IF Category(l) = "runway" /\ Present(l, {"icao", "ident", "length", "lat", "lon"})
    THEN {[airport |-> l.icao, ident |-> l.ident, length |-> l.length,
           bearing |-> l.bearing]}
    ELSE {}

NavaidClassType(vor, facility) ==
    CASE vor /\ facility = "D" -> "VOR/DME"
      [] vor /\ facility = "T" -> "VORTAC"
      [] vor /\ facility \notin {"D", "T"} -> "VOR"
      [] ~vor /\ facility \in {"T", "M"} -> "TACAN"
      [] OTHER -> "DME"

(* Without a VOR the position is that of the DME, field by field.          *)
ExtractVhfNavaid(l) ==
    LET lat == IF l.lat # None THEN l.lat ELSE l.dme_lat IN
    LET lon == IF l.lon # None THEN l.lon ELSE l.dme_lon IN
    IF Category(l) = "vhf" /\ Present(l, {"ident", "region"}) /\ None \notin {lat, lon}
    THEN {[ident |-> l.ident, region |-> l.region, lat |-> lat, lon |-> lon,
           type |-> NavaidClassType(l.vor, l.facility)]}
    ELSE {}

ExtractNdbNavaid(l) ==
    IF Category(l) = "ndb" /\ Present(l, {"ident", "region", "lat", "lon"})
    THEN {[ident |-> l.ident, region |-> l.region, lat |-> l.lat, lon |-> l.lon,
           type |-> "NDB"]}
    ELSE {}

ExtractWaypoint(l) ==
    IF Category(l) = "waypoint" /\ Present(l, {"ident", "region", "lat", "lon"})
    THEN {[ident |-> l.ident, region |-> l.region, lat |-> l.lat, lon |-> l.lon]}
    ELSE {}

ExtractProcedureLegRow(l) ==
    IF Category(l) \in ProcedureKinds /\ Present(l, {"icao", "ident", "seq"})
    THEN {[airport |-> l.icao, kind |-> Category(l), ident |-> l.ident,
           route_type |-> l.route_type, transition |-> l.transition, seq |-> l.seq,
           fix |-> l.fix, altitude |-> l.altitude]}
    ELSE {}

(* Continuation records of an airway are refused; those of a procedure     *)
(* are not, and BuildProcedures drops them by their key.                   *)
ExtractAirwayLegRow(l) ==
    IF /\ Category(l) = "airway"
       /\ ~l.continuation
       /\ Present(l, {"ident", "seq", "fix"})
    THEN {[route |-> l.ident, seq |-> l.seq, fix |-> l.fix]} ELSE {}

---------------------------------------------------------------------------
(* Runway ends, paired with their reciprocals.                             *)

ReciprocalNumberSuffix(d) ==
    [num |-> IF d.num > 18 THEN d.num - 18 ELSE d.num + 18,
     sfx |-> CASE d.sfx = "L" -> "R" [] d.sfx = "R" -> "L" [] OTHER -> d.sfx]

PartnerAnywhere(ends, used, i) ==
    LET free == {j \in (i + 1)..Len(ends) :
                   /\ j \notin used
                   /\ ends[j].ident = ReciprocalNumberSuffix(ends[i].ident)} IN
    IF free = {} THEN i ELSE Min(free)

(* The first later end of the same airport that is free and reciprocal.    *)
Partner(ends, used, i) ==
    LET free == {j \in (i + 1)..Len(ends) :
                   /\ j \notin used
                   /\ ends[j].airport = ends[i].airport
                   /\ ends[j].ident = ReciprocalNumberSuffix(ends[i].ident)} IN
    IF free = {} THEN i ELSE Min(free)

(* Before each end, those that have their runway or need none.             *)
UsedEnds(ends) ==
    LET Spoken(used, i) == IF i \in used \/ ends[i].ident.num = None THEN {i} ELSE {i, Partner(ends, used, i)}
    IN FoldLeft(LAMBDA seen, i : Append(seen, Last(seen) \cup Spoken(Last(seen), i)),
                <<{}>>, [i \in Places(ends) |-> i])

(* An end without a partner is both ends of its own runway.                *)
PairRunwayEnds(ends) ==
    LET used == UsedEnds(ends)
        Runway(low, high) == [airport |-> low.airport,
                              ident |-> <<low.ident, high.ident>>,
                              length |-> Max({low.length, high.length}),
                              surface |-> "Other"]
        Pair(i) ==
          IF i \in used[i] \/ ends[i].ident.num = None THEN {}
          ELSE LET other == ends[Partner(ends, used[i], i)] IN
               {IF ends[i].ident.num <= ReciprocalNumberSuffix(ends[i].ident).num
                THEN Runway(ends[i], other) ELSE Runway(other, ends[i])}
    IN FilterMap([i \in Places(ends) |-> i], Pair)

---------------------------------------------------------------------------
(* Procedures: rows grouped into procedures, transitions and legs.         *)

AltitudeAsCoded(desc, a1, a2) ==
    CASE desc = "+" -> IF a1 = None THEN None ELSE <<"above", a1>>
      [] desc = "-" -> IF a1 = None THEN None ELSE <<"below", a1>>
      [] desc = "B" -> IF None \in {a1, a2} THEN None ELSE <<"between", a1, a2>>
      [] OTHER -> IF a1 = None THEN None ELSE <<"at", a1>>

AltitudeConstraint(desc, a1, a2) ==
    CASE desc = "+" -> IF a1 = None THEN None ELSE <<"above", a1>>
      [] desc = "-" -> IF a1 = None THEN None ELSE <<"below", a1>>
      [] desc = "B" -> IF None \in {a1, a2} THEN None
                       ELSE <<"between", Min({a1, a2}), Max({a1, a2})>>
      [] OTHER -> IF a1 = None THEN None ELSE <<"at", a1>>

NoTransition == ""

TransitionKind(kind, route_type, named) ==
    CASE kind = "APPROACH" /\ route_type = "Z" -> "MISSED"
      [] ~named /\ ~(kind = "APPROACH" /\ route_type = "Z") -> "COMMON"
      [] named /\ kind = "APPROACH" /\ route_type = "A" -> "APPROACH"
      [] named /\ kind = "APPROACH" /\ route_type \notin {"A", "Z"} -> "COMMON"
      [] OTHER -> "ENROUTE"

ProcedureIdFor(r) == <<r.airport, r.kind, r.ident>>

(* The digits and an L, C or R behind them; of "28B", both parallels, only *)
(* the digits.                                                             *)
ExtractRunwayNumber(d) ==
    IF d.num = None THEN None
    ELSE [num |-> d.num, sfx |-> IF d.sfx \in {"L", "C", "R"} THEN d.sfx ELSE ""]

RunwayOfIdent(ident, RunwayIn) ==
    IF ident \in DOMAIN RunwayIn THEN ExtractRunwayNumber(RunwayIn[ident]) ELSE None

FirstRunwayIdent(transitions, RunwayIn) ==
    LET served == {RunwayOfIdent(t, RunwayIn) : t \in transitions} \ {None} IN
    IF served # {} THEN CHOOSE d \in served : TRUE ELSE None

(* A departure or arrival serves a runway when its runway transitions are  *)
(* all of that one.                                                        *)
DeriveSidStarRunwayIdent(transitions, RunwayIn) ==
    LET served == {RunwayOfIdent(t, RunwayIn) : t \in transitions} \ {None} IN
    IF Cardinality(served) = 1 THEN CHOOSE d \in served : TRUE ELSE None

LegKeyByFix(r) == <<r.airport, r.ident, r.transition, r.fix>>

LegKey(r) == <<r.airport, r.ident, r.transition, r.seq>>

(* Continuation records repeat the key of the record they extend.          *)
FirstOfKey(rows, Key(_)) ==
    {i \in 1..Len(rows) : \A j \in 1..(i - 1) : Key(rows[j]) # Key(rows[i])}

Label(r) ==
    LET kind == TransitionKind(r.kind, r.route_type, r.transition # NoTransition) IN
    IF kind \in {"COMMON", "MISSED"} THEN kind ELSE r.transition

TransitionId(r) == <<ProcedureIdFor(r), Label(r)>>

LastLegs(rows) ==
    {i \in Places(rows) : \A j \in (i + 1)..Len(rows) : LegKey(rows[j]) # LegKey(rows[i])}

(* The rows that become legs: the first of each key, so that a             *)
(* continuation never stands in for the leg it continues.                  *)
FirstLegs(rows) == FirstOfKey(rows, LegKey)

(* RunwayIn gives the designator inside the names that have one: the ident *)
(* of an approach, the "RW" transition of a departure or arrival.          *)
BuildProcedures(rows, RunwayIn) ==
    LET kept == FirstLegs(rows)
        ids == {ProcedureIdFor(rows[i]) : i \in kept}
        transitions == {TransitionId(rows[i]) : i \in kept}
        InOrder(i, j) == \/ rows[i].seq < rows[j].seq
                         \/ rows[i].seq = rows[j].seq /\ i < j
        LegsOf(t) == SetToSortSeq({i \in kept : TransitionId(rows[i]) = t}, InOrder)
        Leg(i) == [seq |-> rows[i].seq, fix |-> rows[i].fix,
                   altitude |-> AltitudeConstraint(rows[i].altitude.desc, rows[i].altitude.a1,
                                                   rows[i].altitude.a2)]
        Idents(p) == {t[2] : t \in {u \in transitions : u[1] = p}} \ {"COMMON", "MISSED"}
    IN [procedures |-> [p \in ids |-> IF p[2] = "APPROACH" THEN RunwayOfIdent(p[3], RunwayIn)
                                      ELSE DeriveSidStarRunwayIdent(Idents(p), RunwayIn)],
        legs |-> [t \in transitions |-> [k \in 1..Len(LegsOf(t)) |-> Leg(LegsOf(t)[k])]]]

---------------------------------------------------------------------------
(* Airways: the first record of a sequence number wins.                    *)

AirwayKindFor(letter) ==
    CASE letter = "V" -> "VICTOR" [] letter = "J" -> "JET" [] letter = "T" -> "RNAV_LOW"
      [] letter = "Q" -> "RNAV_HIGH" [] OTHER -> "OTHER"

BuildAirways(rows) ==
    LET kept == FirstOfKey(rows, LAMBDA r : <<r.route, r.seq>>)
        idents == {rows[i].route : i \in kept}
        Of(a) == SetToSortSeq({i \in kept : rows[i].route = a},
                              LAMBDA i, j : rows[i].seq < rows[j].seq)
    IN [a \in idents |-> [k \in 1..Len(Of(a)) |->
                            [seq |-> rows[Of(a)[k]].seq, fix |-> rows[Of(a)[k]].fix]]]
=============================================================================
