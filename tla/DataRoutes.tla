---------------------------- MODULE DataRoutes ----------------------------
(***************************************************************************)
(* The /data routes of the server: what each answers out of the tables db  *)
(* of the bundle that latest.json names.                                   *)
(***************************************************************************)
EXTENDS Sql

CONSTANTS SearchCap,        \* 20 rows
          IdentCap,         \* 20 rows in the route builder's search,
          PerTable          \* and 10 of each kind

(* minLon,minLat,maxLon,maxLat.  The parts are read up to the first that   *)
(* is no number; unless that makes four the request has no box at all.     *)
ParseBbox(parts) ==
    LET bad == {i \in Places(parts) : parts[i] = None}
        read == IF bad = {} THEN parts ELSE SubSeq(parts, 1, Min(bad) - 1)
    IN IF Len(read) = 4 THEN [west |-> read[1], south |-> read[2], east |-> read[3], north |-> read[4]]
       ELSE None

Inside(box, a) ==
    \/ box = None
    \/ box.west <= a.lon /\ a.lon <= box.east /\ box.south <= a.lat /\ a.lat <= box.north

Overlaps(box, r) ==
    \/ box = None
    \/ /\ r.box.west <= box.east /\ r.box.east >= box.west
       /\ r.box.south <= box.north /\ r.box.north >= box.south

Airports(db, parts) ==
    LET box == ParseBbox(parts) IN
    OrderedBy(Matching(db.airport, LAMBDA a : Inside(box, a)), LAMBDA a : a.icao)

Charts(db, parts) == LET box == ParseBbox(parts) IN Matching(db.chart, LAMBDA c : Overlaps(box, c))

Airspace(db, parts) == LET box == ParseBbox(parts) IN Matching(db.airspace, LAMBDA v : Overlaps(box, v))

(* A bundle older than its table of sources has None for it.               *)
Attributions(db) == IF db.source = None THEN <<>> ELSE OrderedBy(db.source, LAMBDA s : s.name)

---------------------------------------------------------------------------
(* The two searches.                                                       *)

CodeMatches(a, q) == LikePrefix(a.icao, q) \/ LikePrefix(a.faa_id, q) \/ LikePrefix(a.iata, q)

SearchByIdent(db, typed) ==
    LET q == Tidy(typed)
        hits == Matching(db.airport, LAMBDA a : CodeMatches(a, q) \/ LikeAnywhere(a.name, q))
    IN IF q = <<>> THEN <<>> ELSE Limit(OrderedBy(hits, LAMBDA a : a.icao), SearchCap)

Search(db, typed) ==
    LET q == Tidy(typed)
        hits == Matching(db.airport, LAMBDA a : CodeMatches(a, q) \/ LikeAnywhere(a.name, q))
    IN IF q = <<>> THEN <<>>
       ELSE Limit(OrderedBy(hits, LAMBDA a : <<TrueFirst(a.icao = q)>> \o a.icao), SearchCap)

HitsIn(rows, q, kind) ==
    LET found == GroupedBy(Matching(rows, LAMBDA r : LikePrefix(r.ident, q)), LAMBDA r : r.ident)
    IN MapSeq(Limit(OrderedBy(found, LAMBDA r : r.ident), PerTable), LAMBDA r : [kind |-> kind, ident |-> r.ident])

SearchIdents(db, typed) ==
    LET q == Tidy(typed)
        fields == OrderedBy(Matching(db.airport, LAMBDA a : CodeMatches(a, q)), LAMBDA a : a.icao)
        all == MapSeq(Limit(fields, PerTable), LAMBDA a : [kind |-> 0, ident |-> a.icao])
                 \o HitsIn(db.navaid, q, 1) \o HitsIn(db.waypoint, q, 2) \o HitsIn(db.airway, q, 3)
    IN IF q = <<>> THEN <<>>
       ELSE Limit(OrderedBy(all, LAMBDA h : <<TrueFirst(h.ident = q), h.kind>> \o h.ident), IdentCap)

---------------------------------------------------------------------------
(* One airport, procedure, airway.                                         *)

(* ff_etl::dtpp::AIRPORT_DIAGRAM_IDENT.                                    *)
AirportDiagramIdent == <<1, Underscore, 4>>

ChartOfAnyField(db, icao, ident) ==
    FirstWhere(db.dtpp, LAMBDA c : c.procedure_ident = ident)

ChartOf(db, icao, ident) ==
    FirstWhere(db.dtpp, LAMBDA c : c.airport = icao /\ c.procedure_ident = ident)

AirportDetail(db, icao) ==
    LET a == FirstWhere(db.airport, LAMBDA r : r.icao = icao) IN
    IF a = None THEN None
    ELSE [airport |-> a,
          runways |-> OrderedBy(Matching(db.runway, LAMBDA r : r.airport = icao), LAMBDA r : r.ident),
          frequencies |-> Matching(db.frequency, LAMBDA f : f.airport = icao),
          diagram |-> ChartOf(db, icao, AirportDiagramIdent)]

AirportProcedures(db, icao) ==
    OrderedBy(Matching(db.procedure, LAMBDA p : p.airport = icao), LAMBDA p : <<p.kind>> \o p.ident)

(* Waypoints, then navaids, then, for RWnn, an end of the airport's own    *)
(* runways.                                                                *)
PointOf(rows, ident) ==
    LET r == FirstWhere(rows, LAMBDA w : w.ident = ident) IN
    IF r = None THEN None ELSE <<r.lat, r.lon>>

RW == <<18, 23>>

ThresholdOf(r, rwy) == IF r.le_ident = rwy THEN r.le ELSE r.he

RunwayEnd(db, icao, ident) ==
    LET rwy == SubSeq(ident, 3, Len(ident))
        r == FirstWhere(db.runway, LAMBDA x : x.airport = icao /\ rwy \in {x.le_ident, x.he_ident})
    IN IF ~IsPrefix(RW, ident) \/ r = None THEN None ELSE ThresholdOf(r, rwy)

Coordinate(db, icao, ident) ==
    Either(PointOf(db.waypoint, ident), Either(PointOf(db.navaid, ident), RunwayEnd(db, icao, ident)))

LegsOf(db, transition) ==
    OrderedBy(Matching(db.leg, LAMBDA l : l.transition = transition), LAMBDA l : <<l.seq>>)

TransitionsOf(db, id) ==
    OrderedBy(Matching(db.transition, LAMBDA t : t.procedure = id), LAMBDA t : <<t.kind>> \o t.ident)

ProcedureDetail(db, id) ==
    LET p == FirstWhere(db.procedure, LAMBDA r : r.id = id)
        transitions == MapSeq(TransitionsOf(db, id), LAMBDA t : [id |-> t.id, legs |-> LegsOf(db, t.id)])
        named == (UNION {{t.legs[k].fix : k \in Places(t.legs)} : t \in ToSet(transitions)}) \ {None}
    IN IF p = None THEN None
       ELSE [procedure |-> p, transitions |-> transitions,
             fixes |-> [f \in {n \in named : Coordinate(db, p.airport, n) # None} |->
                          Coordinate(db, p.airport, f)],
             chart |-> ChartOf(db, p.airport, p.ident)]

(* An airway never ends at a runway.                                       *)
AirwayDetail(db, typed) ==
    LET a == FirstWhere(db.airway, LAMBDA r : Upper(r.ident) = Upper(typed))
        OnAirway(f) == Either(PointOf(db.waypoint, f), PointOf(db.navaid, f))
    IN IF a = None THEN None
       ELSE [ident |-> a.ident, legs |-> a.legs,
             fixes |-> [f \in {g \in ToSet(a.legs) : OnAirway(g) # None} |-> OnAirway(f)]]

PreferredRoutes(db, from, to) ==
    LET between == Matching(db.preferred, LAMBDA r : r.orig = Tidy(from) /\ r.dest = Tidy(to)) IN
    IF <<>> \in {Tidy(from), Tidy(to)} THEN <<>>
    ELSE OrderedBy(between, LAMBDA r : <<TrueFirst(r.source = "PFR")>>)

NearestWaypoint(db, lat, lon) ==
    LET Apart(f) == (f.lat - lat) * (f.lat - lat) + (f.lon - lon) * (f.lon - lon)
        all == db.waypoint
    IN FirstWhere(all, LAMBDA f : \A i \in Places(all) : Apart(f) <= Apart(all[i]))

(* The closest of all waypoints and navaids, a waypoint before a navaid at *)
(* one distance, by the square of the distance in degrees.                 *)
NearestFix(db, lat, lon) ==
    LET all == db.waypoint \o db.navaid
        Apart(f) == (f.lat - lat) * (f.lat - lat) + (f.lon - lon) * (f.lon - lon)
    IN FirstWhere(all, LAMBDA f : \A i \in Places(all) : Apart(f) <= Apart(all[i]))
=============================================================================
