--------------------------- MODULE DeviceQueries ---------------------------
(***************************************************************************)
(* The queries the Android app makes of the bundle db on the device.  The  *)
(* screens are drawn from what they answer.                                *)
(***************************************************************************)
EXTENDS Sql

(* AIRPORT_DIAGRAM_IDENT as the device has it.                             *)
AirportDiagramIdent == <<1, Blank, 4>>

---------------------------------------------------------------------------
(* The viewport.  Over the antimeridian its west is east of its east.      *)

LonPredicateBetween(box, lon) == box.west <= lon /\ lon <= box.east

LonPredicate(box, lon) ==
    IF box.west <= box.east THEN box.west <= lon /\ lon <= box.east
    ELSE lon >= box.west \/ lon <= box.east

HasProcedures(db, a) == \E i \in Places(db.procedure) : db.procedure[i].airport = a.icao

Towered(db, a) ==
    \E i \in Places(db.frequency) : db.frequency[i].airport = a.icao /\ db.frequency[i].kind = "TWR"

AirportsInBbox(db, box, limit) ==
    LET inside == Matching(db.airport, LAMBDA a : box.south <= a.lat /\ a.lat <= box.north /\ LonPredicate(box, a.lon))
        Significance(a) == <<TrueFirst(HasProcedures(db, a)), TrueFirst(a.type = "Airport")>> \o a.icao
    IN Limit(OrderedBy(inside, Significance), limit)

(* What truncation keeps first: what a pilot does about the volume.        *)
AirspacePriority(class) ==
    CASE class \in {"B", "C", "D", "ATZ"} -> 0
      [] class \in {"PROHIBITED", "RESTRICTED", "WARNING", "DANGER"} -> 1
      [] class \in {"MOA", "ALERT", "PARACHUTE", "GLIDER", "LOW FLYING"} -> 2
      [] class \in {"RMZ", "TMZ"} -> 3
      [] OTHER -> 4

(* The classes a bundle has, by their names.                               *)
ClassOrder ==
    <<"A", "ALERT", "ATZ", "B", "C", "D", "E", "F", "G", "GLIDER", "LOW FLYING", "MOA", "PARACHUTE", "PROHIBITED",
      "RESTRICTED", "RMZ", "TMZ", "WARNING">>

PlaceIn(order, text) ==
    LET at == {i \in Places(order) : order[i] = text} IN IF at = {} THEN Len(order) + 1 ELSE Min(at)

AirspaceInBbox(db, box, limit) ==
    LET Across(v) == IF box.west <= box.east THEN v.box.east >= box.west /\ v.box.west <= box.east
                     ELSE v.box.east >= box.west \/ v.box.west <= box.east
        inside == Matching(db.airspace, LAMBDA v :
                    v.box.north >= box.south /\ v.box.south <= box.north /\ Across(v))
        Heed(v) == <<AirspacePriority(v.class), PlaceIn(ClassOrder, v.class)>> \o v.name
    IN Limit(OrderedBy(inside, Heed), limit)

---------------------------------------------------------------------------
(* Search: each table is cut to the limit before the hits are ranked.      *)

Hits(rows, q, limit, kind) ==
    LET found == GroupedBy(Matching(rows, LAMBDA r : LikePrefix(r.ident, q)), LAMBDA r : r.ident)
    IN MapSeq(Limit(OrderedBy(found, LAMBDA r : r.ident), limit), LAMBDA r : [kind |-> kind, ident |-> r.ident])

HitRankByKind(h, q) == <<h.kind>>

HitRank(h, q) == <<TrueFirst(h.ident = q), h.kind>>

Search(db, typed, most) ==
    LET q == Tidy(typed)
        limit == Max({most, 1})
        named == Matching(db.airport, LAMBDA a :
                   \/ LikePrefix(a.icao, q) \/ LikePrefix(a.faa_id, q) \/ LikePrefix(a.iata, q)
                   \/ LikeAnywhere(a.name, q))
        hits == MapSeq(Limit(OrderedBy(named, LAMBDA a : a.icao), limit), LAMBDA a : [kind |-> 0, ident |-> a.icao])
                  \o Hits(db.navaid, q, limit, 1) \o Hits(db.waypoint, q, limit, 2)
    IN IF q = <<>> THEN <<>> ELSE Limit(OrderedBy(hits, LAMBDA h : HitRank(h, q)), limit)

---------------------------------------------------------------------------
(* What a pilot tunes: one row for each frequency, under the most useful   *)
(* kind that any record gives it, with every distinct remark.              *)

FrequencyKindOrder ==
    <<"ATIS", "AWOS", "ASOS", "CTAF", "UNICOM", "CLNC DEL", "GND", "TWR", "APP", "DEP">>

RankOf(kind) == PlaceIn(FrequencyKindOrder, kind)

FirstKind(group) == group[1].kind

BestKind(group) ==
    LET best == Min({RankOf(f.kind) : f \in ToSet(group)}) IN
    FirstWhere(group, LAMBDA f : RankOf(f.kind) = best).kind

Remarks(group) ==
    GroupedBy(Matching(MapSeq(group, LAMBDA f : f.remark), LAMBDA r : r # None), LAMBDA r : r)

CollapseFrequencies(rows) ==
    LET Group(khz) == Matching(rows, LAMBDA f : f.khz = khz)
        groups == MapSeq(GroupedBy(rows, LAMBDA f : f.khz), LAMBDA f :
                    [khz |-> f.khz, kind |-> BestKind(Group(f.khz)), remarks |-> Remarks(Group(f.khz))])
    IN OrderedBy(groups, LAMBDA g : <<RankOf(g.kind), g.khz>>)

---------------------------------------------------------------------------
(* One airport, one procedure.                                             *)

DtppChart(db, icao, ident) ==
    FirstWhere(db.dtpp, LAMBDA c : c.airport = icao /\ c.procedure_ident = ident)

AirportDetail(db, typed) ==
    LET icao == Tidy(typed)
        a == FirstWhere(db.airport, LAMBDA r : r.icao = icao) IN
    IF a = None THEN None
    ELSE [airport |-> a, towered |-> Towered(db, a),
          runways |-> OrderedBy(Matching(db.runway, LAMBDA r : r.airport = icao), LAMBDA r : r.ident),
          frequencies |-> CollapseFrequencies(Matching(db.frequency, LAMBDA f : f.airport = icao)),
          diagram |-> DtppChart(db, icao, AirportDiagramIdent)]

AirportProcedures(db, typed) ==
    OrderedBy(Matching(db.procedure, LAMBDA p : p.airport = Tidy(typed)), LAMBDA p : <<p.kind>> \o p.ident)

RunwayPrefix == <<18, 23>>

At(rows, ident) ==
    LET r == FirstWhere(rows, LAMBDA w : w.ident = ident) IN
    IF r = None THEN None ELSE <<r.lat, r.lon>>

RunwayAnywhere(db, rwy, icao) ==
    FirstWhere(db.runway, LAMBDA x : rwy \in {x.le_ident, x.he_ident})

RunwayHere(db, rwy, icao) ==
    FirstWhere(db.runway, LAMBDA x : x.airport = icao /\ rwy \in {x.le_ident, x.he_ident})

(* Waypoint, then navaid, then, for RWnn, an end of this airport's runways.*)
ResolveFix(db, ident, icao) ==
    LET rwy == SubSeq(ident, 3, Len(ident))
        r == IF IsPrefix(RunwayPrefix, ident) THEN RunwayHere(db, rwy, icao) ELSE None
        threshold == IF r = None THEN None ELSE IF r.le_ident = rwy THEN r.le ELSE r.he
    IN Either(At(db.waypoint, ident), Either(At(db.navaid, ident), threshold))

ProcedureDetail(db, id) ==
    LET p == FirstWhere(db.procedure, LAMBDA r : r.id = id)
        Drawn(l) == [seq |-> l.seq, fix |-> l.fix,
                     at |-> IF l.fix = None THEN None ELSE ResolveFix(db, l.fix, p.airport)]
        Legs(t) == MapSeq(OrderedBy(Matching(db.leg, LAMBDA l : l.transition = t.id), LAMBDA l : <<l.seq>>), Drawn)
        transitions == OrderedBy(Matching(db.transition, LAMBDA t : t.procedure = id),
                                 LAMBDA t : <<t.kind>> \o t.ident)
    IN IF p = None THEN None
       ELSE [procedure |-> p,
             transitions |-> MapSeq(transitions, LAMBDA t : [id |-> t.id, legs |-> Legs(t)]),
             chart |-> DtppChart(db, p.airport, p.ident)]

Charts(db) == OrderedBy(db.chart, LAMBDA c : <<c.kind>> \o c.name)

Attributions(db) == IF db.source = None THEN <<>> ELSE OrderedBy(db.source, LAMBDA s : s.name)

(* One plate for each file, the diagram before the rest.                   *)
AirportPlates(db, typed) ==
    LET listed == GroupedBy(Matching(db.dtpp, LAMBDA c : c.airport = Tidy(typed)), LAMBDA c : c.pdf_url) IN
    OrderedBy(listed, LAMBDA c : <<TrueFirst(c.procedure_ident = AirportDiagramIdent)>> \o c.chart_name)
=============================================================================
