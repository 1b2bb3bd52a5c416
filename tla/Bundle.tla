------------------------------- MODULE Bundle -------------------------------
(***************************************************************************)
(* The database of one cycle and the inserters that fill it.  A bundle is  *)
(* a record of its tables: a table with a primary key is a function from   *)
(* its keys to its rows, one without is a sequence of rows.  An inserter   *)
(* runs in one transaction and answers the bundle afterwards, or None when *)
(* a constraint of the schema refuses a row and everything is undone.      *)
(***************************************************************************)
EXTENDS Cifp, FaaFeeds

EmptyBundle ==
    [airport |-> <<>>, runway |-> <<>>, frequency |-> <<>>, procedure |-> <<>>, leg |-> <<>>,
     navaid |-> <<>>, waypoint |-> <<>>, airway |-> <<>>, airspace |-> <<>>, chart |-> <<>>,
     dtpp |-> <<>>, preferred |-> <<>>, source |-> <<>>, cycle |-> {}]

---------------------------------------------------------------------------
(* The four ways rows go into tables.                                      *)

IcaoOfRow(row) == row.icao

IdOfRow(row) == row.id

Keyed(rows, Key(_)) ==
    [k \in {Key(rows[i]) : i \in Places(rows)} |->
       rows[Min({i \in Places(rows) : Key(rows[i]) = k})]]

(* Two tables as one; where both have a row the first table's counts.      *)
Together(table, new) ==
    [k \in DOMAIN table \cup DOMAIN new |-> IF k \in DOMAIN table THEN table[k] ELSE new[k]]

(* INSERT under a primary key, or None.                                    *)
Inserted(table, rows, Key(_)) ==
    LET new == Keyed(rows, Key) IN
    IF Cardinality(DOMAIN new) = Len(rows) /\ DOMAIN new \cap DOMAIN table = {}
    THEN Together(table, new) ELSE None

(* INSERT OR IGNORE of airports: what is there stays.                      *)
Ignoring(table, rows) == Together(table, Keyed(rows, IcaoOfRow))

(* INSERT OR REPLACE of one row.                                           *)
Replacing(table, key, row) ==
    [k \in DOMAIN table \cup {key} |-> IF k = key THEN row ELSE table[k]]

(* A row's reference to an airport.                                        *)
References(rows, Ref(_), table) == \A i \in Places(rows) : Ref(rows[i]) \in DOMAIN table

---------------------------------------------------------------------------
(* First pass over the CIFP file.  icaos restricts a bundle to a region;   *)
(* None is the whole file.  Airways belong to no airport.                  *)

Wanted(icaos, icao) == icaos = None \/ icao \in icaos

CollectRecords(lines, icaos) ==
    [airports |-> Where(FilterMap(lines, ExtractAirport), LAMBDA a : Wanted(icaos, a.icao)),
     ends |-> Where(FilterMap(lines, ExtractRunwayEnd), LAMBDA e : Wanted(icaos, e.airport)),
     rows |-> Where(FilterMap(lines, ExtractProcedureLegRow), LAMBDA r : Wanted(icaos, r.airport)),
     airway_rows |-> FilterMap(lines, ExtractAirwayLegRow)]

OfAnyAirport(rows, airports) == rows

OfKnownAirports(rows, airports) ==
    Where(rows, LAMBDA r : r.airport \in {airports[i].icao : i \in Places(airports)})

(* Children of airports whose own record was not understood go.            *)
RetainChildren(c) ==
    [c EXCEPT !.ends = OfKnownAirports(@, c.airports), !.rows = OfKnownAirports(@, c.airports)]

(* Second pass: the navaids and waypoints that legs name, the first of     *)
(* each ident.  VHF and NDB navaids share one set of idents.               *)
FirstsByIdent(rows) ==
    LET First(i) == IF \A j \in 1..(i - 1) : rows[j].ident # rows[i].ident THEN {rows[i]} ELSE {}
    IN FilterMap([i \in Places(rows) |-> i], First)

FirstOfIdent(rows, idents) == FirstsByIdent(Where(rows, LAMBDA r : r.ident \in idents))

ResolveFixesInOneSpace(lines, idents) ==
    LET navaids == FirstOfIdent(FilterMap(lines, LAMBDA l : ExtractVhfNavaid(l) \cup ExtractNdbNavaid(l)), idents)
    IN [navaids |-> navaids,
        waypoints |-> FirstOfIdent(FilterMap(lines, ExtractWaypoint),
                                   idents \ {navaids[i].ident : i \in Places(navaids)})]

ResolveFixes(lines, idents) ==
    [navaids |-> FirstOfIdent(FilterMap(lines, LAMBDA l : ExtractVhfNavaid(l) \cup ExtractNdbNavaid(l)),
                              idents),
     waypoints |-> FirstOfIdent(FilterMap(lines, ExtractWaypoint), idents)]

FixesOf(legs) ==
    (UNION {{legs[t][k].fix : k \in Places(legs[t])} : t \in DOMAIN legs}) \ {None}

---------------------------------------------------------------------------
(* Enrichment from NASR.  None when a table does not parse.                *)

(* An airport's identifier by its local one: the last row's counts.        *)
IcaosByFaaId(rows) ==
    [arpt \in {rows[i].arpt : i \in Places(rows)} |->
       AirportKey(rows[Max({i \in Places(rows) : rows[i].arpt = arpt})])]

SurfacesByEnds(runways) ==
    LET Key(i) == <<runways[i].airport, runways[i].ident>> IN
    [key \in {Key(i) : i \in Places(runways)} |->
       runways[Max({i \in Places(runways) : Key(i) = key})].surface]

(* What the map of local identifiers may be when it is turned round: of    *)
(* two with one ICAO code either may be the one that stays.                *)
FaaIdsByIcao(IcaoOf) ==
    LET icaos == {IcaoOf[a] : a \in DOMAIN IcaoOf} IN
    {ids \in [icaos -> DOMAIN IcaoOf] : \A icao \in icaos : IcaoOf[ids[icao]] = icao}

FrequenciesOf(freqs, IcaoOf) ==
    FlattenSeq(MapSeq(SetToSeq(DOMAIN IcaoOf), LAMBDA arpt :
      FrequenciesForAirport(freqs, arpt, IcaoOf[arpt])))

LoadNasrEnrichment(nasr, icaos) ==
    LET base == ParseTable(nasr.base)
        rwys == ParseTable(nasr.runways)
        ends == ParseTable(nasr.ends)
        freqs == ParseTable(nasr.freqs) IN
    IF None \in {base, rwys, ends, freqs} THEN None
    ELSE
    LET IcaoOf == IcaosByFaaId(Where(base, LAMBDA row : Wanted(icaos, AirportKey(row))))
        known == Where(rwys, LAMBDA r : r.arpt \in DOMAIN IcaoOf)
    IN [surfaces |-> SurfacesByEnds(MapSeq(known, LAMBDA r :
                       RunwayFromRows(r, Where(ends, LAMBDA e : e.arpt = r.arpt), IcaoOf[r.arpt]))),
        frequencies |-> FrequenciesOf(freqs, IcaoOf),
        faa_ids |-> FaaIdsByIcao(IcaoOf)]

ApplyNasrSurfaces(runways, surfaces) ==
    MapSeq(runways, LAMBDA r :
      IF <<r.airport, r.ident>> \in DOMAIN surfaces
      THEN [r EXCEPT !.surface = surfaces[<<r.airport, r.ident>>]] ELSE r)

BackfillFaaIds(airports, faa_ids) ==
    MapSeq(airports, LAMBDA a :
      IF a.icao \in DOMAIN faa_ids THEN [a EXCEPT !.faa_id = faa_ids[a.icao]] ELSE a)

---------------------------------------------------------------------------
(* build_bundle, from CIFP lines and a NASR extract: the bundles it may    *)
(* make of them.  The only constraint the file can break is one airport    *)
(* given twice.                                                            *)

BundleOf(c, p, airways, fixes, extra, faa_ids) ==
    LET airports == Inserted(<<>>, BackfillFaaIds(c.airports, faa_ids), IcaoOfRow) IN
    IF airports = None THEN None
    ELSE [EmptyBundle EXCEPT
            !.airport = airports,
            !.runway = ApplyNasrSurfaces(PairRunwayEnds(c.ends), extra.surfaces),
            !.frequency = OfKnownAirports(extra.frequencies, c.airports),
            !.procedure = p.procedures,
            !.leg = p.legs,
            !.navaid = fixes.navaids,
            !.waypoint = fixes.waypoints,
            !.airway = MapSeq(SetToSeq(DOMAIN airways), LAMBDA a : [ident |-> a, legs |-> airways[a]])]

BuildBundle(lines, nasr, icaos, RunwayIn) ==
    LET c == RetainChildren(CollectRecords(lines, icaos))
        p == BuildProcedures(c.rows, RunwayIn)
        airways == BuildAirways(c.airway_rows)
        extra == LoadNasrEnrichment(nasr, icaos)
        fixes == ResolveFixes(lines, FixesOf(p.legs) \cup FixesOf(airways))
    IN IF extra = None THEN {None}
       ELSE {BundleOf(c, p, airways, fixes, extra, faa_ids) : faa_ids \in extra.faa_ids}

---------------------------------------------------------------------------
(* The inserters of the later steps.                                       *)

AddAiracCycle(db, date) == [db EXCEPT !.cycle = @ \cup {date}]

PolygonBbox(ring) ==
    LET lats == {ring[i][1] : i \in Places(ring)} IN
    LET lons == {ring[i][2] : i \in Places(ring)} IN
    IF ring = <<>> THEN None ELSE [south |-> Min(lats), north |-> Max(lats), west |-> Min(lons), east |-> Max(lons)]

AddAirspace(db, volumes) ==
    LET Row(v) == [id |-> v.id, class |-> v.class, floor |-> v.floor, ceiling |-> v.ceiling,
                   ring |-> v.boundary, box |-> PolygonBbox(v.boundary)]
        table == Inserted(db.airspace, MapSeq(volumes, Row), IdOfRow)
    IN IF table = None THEN None ELSE [db EXCEPT !.airspace = table]

AddDtppCharts(db, charts) == [db EXCEPT !.dtpp = @ \o charts]

(* Airports already in the bundle keep their rows; only new ones count.    *)
NetNew(db, airports) ==
    Cardinality({airports[i].icao : i \in Places(airports)} \ DOMAIN db.airport)

AddOpenAip(db, airports, navaids, cycle) ==
    [db EXCEPT !.airport = Ignoring(@, airports),
               !.navaid = @ \o navaids,
               !.source = Replacing(@, "openAIP", cycle)]

(* The rows of a route refer to its two airports.                          *)
RoutesHaveAirports(db, routes) ==
    /\ References(routes, LAMBDA r : r.orig, db.airport)
    /\ References(routes, LAMBDA r : r.dest, db.airport)

AddPreferredRoutes(db, routes) == [db EXCEPT !.preferred = @ \o routes]

AddAixm(db, data) ==
    [db EXCEPT !.airport = Ignoring(@, data.airports),
               !.runway = @ \o OfKnownAirports(data.runways, data.airports),
               !.navaid = @ \o data.navaids,
               !.waypoint = @ \o data.waypoints,
               !.airway = @ \o MapSeq(SetToSeq(DOMAIN data.airways), LAMBDA a :
                                 [ident |-> a, legs |-> data.airways[a].legs]),
               !.source = Replacing(@, "France (SIA)", data.effective)]

(* The rows of the maps of one zip; each carries the digest of the archive *)
(* made of its map.                                                        *)
AddCharts(db, charts) ==
    LET table == Inserted(db.chart, charts, IdOfRow) IN
    IF table = None THEN None ELSE [db EXCEPT !.chart = table]
=============================================================================
