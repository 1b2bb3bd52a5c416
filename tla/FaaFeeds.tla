------------------------------ MODULE FaaFeeds ------------------------------
(***************************************************************************)
(* What the pipeline takes from the FAA's servers: which cycle, which      *)
(* charts, which airspace, which routes, and what the tables of a NASR     *)
(* extract say.  Dates and chart names are numbers in their order; None    *)
(* stands for an answer that is not a success, Down for a request that     *)
(* fails.                                                                  *)
(***************************************************************************)
EXTENDS Fields

CONSTANT PageSize

ASSUME PageSizeIsCount == PageSize \in Nat \ {0}

(* What is not on the server is refused.                                   *)
Offered(files, name) == IF name \in DOMAIN files THEN files[name] ELSE None

---------------------------------------------------------------------------
(* Cycles.                                                                 *)

(* The newest file of the listing, whether or not it is in effect yet.     *)
LatestCifpZipName(listing) == IF listing = {} THEN None ELSE Max(listing)

FetchCifp(feed) ==
    IF feed.listing = None THEN None
    ELSE LET date == LatestCifpZipName(feed.listing) IN
         IF date = None THEN None
         ELSE IF Offered(feed.zips, date) = None THEN None ELSE [date |-> date, file |-> feed.zips[date]]

(* The NASR package is asked for by the date of the CIFP file; all of its  *)
(* four tables have to be in it.                                           *)
NasrTables == {"base", "runways", "ends", "freqs"}

FetchNasr(packages, date) ==
    LET package == Offered(packages, date) IN
    IF package = None THEN None ELSE IF NasrTables \subseteq DOMAIN package THEN package ELSE None

---------------------------------------------------------------------------
(* Charts.                                                                 *)

(* Names of the zips of one directory, sorted.                             *)
ZipNamesFromListing(listing) == Ascending(listing)

ChartCycleDates(page) == Descending(page)

ListChartDir(site, date, dir) ==
    IF site[date][dir] \in {None, Down} THEN <<>> ELSE ZipNamesFromListing(site[date][dir])

(* The newest date whose sectional listing names charts gives the names;   *)
(* every date stays a candidate for the charts themselves.                 *)
DiscoverChartCycle(site) ==
    LET dates == ChartCycleDates(DOMAIN site)
        Step(s, d) ==
          CASE s # None -> s
            [] s = None /\ site[d]["sectional"] = Down -> Down
            [] s = None /\ site[d]["sectional"] \notin {None, Down, {}} ->
                 [dates |-> dates,
                  sectional |-> ZipNamesFromListing(site[d]["sectional"]),
                  tac |-> ListChartDir(site, d, "tac"),
                  heli |-> ListChartDir(site, d, "heli")]
            [] OTHER -> None
        found == FoldLeft(Step, None, dates)
    IN IF found = Down THEN None ELSE found

(* The panels of both series are on one page with their dates.             *)
EnrouteCycleDates(page) == Descending(page.dates)

IfrPanelNamesFromPage(page, series) == Ascending(page[series])

DiscoverIfrEnrouteCycle(page) ==
    IF page = None THEN None
    ELSE IF page.dates = {} \/ (page.low = {} /\ page.high = {}) THEN None
    ELSE [dates |-> EnrouteCycleDates(page), low |-> IfrPanelNamesFromPage(page, "low"),
          high |-> IfrPanelNamesFromPage(page, "high")]

(* The first of the candidate dates that has the zip; a request that fails *)
(* ends the search, a refusal tries the next date.                         *)
ZipOf(name, dates, zips) ==
    LET hits == {i \in Places(dates) : Offered(zips, <<dates[i], name>>) # None}
        found == IF hits = {} THEN None ELSE Offered(zips, <<dates[Min(hits)], name>>)
    IN IF found = Down THEN None ELSE found

(* Every map in a zip is a chart; a zip without one is an error.  A zip is *)
(* the sequence of its maps, each <<label, suffix>>.                       *)
FetchSectionalChart(name, dates, zips) ==
    LET zip == ZipOf(name, dates, zips) IN
    IF zip = None \/ zip = <<>> THEN None ELSE MapSeq(zip, LAMBDA t : [label |-> t[1], kind |-> "Sectional"])

FetchIfrEnroutePanel(name, dates, zips, kind) ==
    LET zip == ZipOf(name, dates, zips) IN
    IF zip = None \/ zip = <<>> THEN None ELSE MapSeq(zip, LAMBDA t : [label |-> t[1], kind |-> kind])

TifKinds == [TAC |-> "TerminalAreaChart", FLY |-> "VfrFlyway", HEL |-> "HelicopterRoute"]

ClassifyChartTif(t) ==
    IF t[2] \in DOMAIN TifKinds THEN {[label |-> t[1], kind |-> TifKinds[t[2]]]} ELSE {}

(* Maps of an unknown product are passed over.                             *)
FetchTerminalChartZip(name, dates, zips) ==
    LET zip == ZipOf(name, dates, zips) IN
    IF zip = None \/ zip = <<>> THEN None ELSE FilterMap(zip, ClassifyChartTif)

---------------------------------------------------------------------------
(* Airspace, page by page until a page that is not full.                   *)

FetchAllPages(pages) ==
    LET Step(s, p) ==
          CASE s.done -> s
            [] ~s.done /\ p = None -> [s EXCEPT !.all = None, !.done = TRUE]
            [] OTHER -> [all |-> s.all \o p, done |-> Len(p) < PageSize]
    IN FoldLeft(Step, [all |-> <<>>, done |-> FALSE], pages).all

FaaAltitudeLimit(val, code) ==
    LET v == NonNegative(Either(val, 0)) IN
    CASE code = "SFC" -> <<"SFC", 0>>
      [] code = "UNLTD" -> <<"UNL", 0>>
      [] code = "STD" -> <<"FL", v>>
      [] code = "AGL" -> <<"AGL", v>>
      [] OTHER -> <<"MSL", v>>

(* The first ring of the first part.                                       *)
ExteriorRing(geometry) == IF geometry = <<>> THEN <<>> ELSE IF geometry[1] = <<>> THEN <<>> ELSE geometry[1][1]

FaaVolume(f, class) ==
    [id |-> f.id, class |-> class, floor |-> FaaAltitudeLimit(f.lower[1], f.lower[2]),
     ceiling |-> FaaAltitudeLimit(f.upper[1], f.upper[2]), boundary |-> ExteriorRing(f.geometry)]

(* One query per class; a failure of any is a failure of all.              *)
FetchClassAirspace(feed) ==
    LET Of(class) == FetchAllPages(feed[class]) IN
    IF None \in {Of("B"), Of("C"), Of("D")} THEN None
    ELSE FlattenSeq(MapSeq(<<"B", "C", "D">>, LAMBDA c : MapSeq(Of(c), LAMBDA f : FaaVolume(f, c))))

SpecialUseKinds == [MOA |-> "Moa", R |-> "Restricted", P |-> "Prohibited", W |-> "Warning", A |-> "Alert"]

FetchSpecialUseAirspace(pages) ==
    LET features == FetchAllPages(pages)
        Volume(f) == IF f.type \in DOMAIN SpecialUseKinds THEN {FaaVolume(f, SpecialUseKinds[f.type])} ELSE {}
    IN IF features = None THEN None ELSE FilterMap(features, Volume)
---------------------------------------------------------------------------
(* Preferred and coded departure routes.  A line of either file is a       *)
(* record of its cells with the number of cells it split into; a route is  *)
(* the sequence of its words.                                              *)

PfrCells == 14

CdrCells == 11

(* The endpoints are part of the published route; they go when they are    *)
(* whole words of it.                                                      *)
StripEndpoints(route, orig, dest) ==
    LET s == IF route # <<>> /\ Head(route) = orig THEN Tail(route) ELSE route IN
    IF s # <<>> /\ Last(s) = dest THEN Front(s) ELSE s

(* Airports are a sequence of rows; of two with one local identifier the   *)
(* later one is found.                                                     *)
LoadAirportLookup(airports) ==
    LET ids == {airports[i].faa_id : i \in Places(airports)} \ {None} IN
    [icaos |-> {airports[i].icao : i \in Places(airports)},
     by_faa_id |-> [id \in ids |->
        airports[Max({i \in Places(airports) : airports[i].faa_id = id})].icao]]

ResolveIcao(raw, lookup) ==
    IF raw \in lookup.icaos THEN raw
    ELSE IF raw \in DOMAIN lookup.by_faa_id THEN lookup.by_faa_id[raw] ELSE None

(* The North American Routes start at an oceanic fix, not at an airport.   *)
ParsePfr(lines, lookup) ==
    LET Row(f) ==
          IF f.cells # PfrCells \/ f.type = "NAR"
             \/ None \in {ResolveIcao(f.orig, lookup), ResolveIcao(f.dest, lookup)} THEN {}
          ELSE {[source |-> "PFR", orig |-> ResolveIcao(f.orig, lookup),
                 dest |-> ResolveIcao(f.dest, lookup),
                 route |-> StripEndpoints(f.route, f.orig, f.dest)]}
    IN FilterMap(lines, Row)

ParseCdrAsWritten(lines, lookup) ==
    LET Row(f) == {[source |-> "CDR", orig |-> f.orig, dest |-> f.dest, route |-> f.route]}
    IN FilterMap(lines, Row)

(* Coded departure routes name airports by ICAO identifier only.           *)
ParseCdr(lines, lookup) ==
    LET Row(f) ==
          IF f.cells # CdrCells \/ ~{f.orig, f.dest} \subseteq lookup.icaos THEN {}
          ELSE {[source |-> "CDR", orig |-> f.orig, dest |-> f.dest,
                 route |-> StripEndpoints(f.route, f.orig, f.dest)]}
    IN FilterMap(lines, Row)

(* Each file on its own: one that cannot be had costs only its routes.     *)
FetchAndParse(pfr, cdr, airports) ==
    LET lookup == LoadAirportLookup(airports) IN
    (IF pfr = None THEN <<>> ELSE ParsePfr(pfr, lookup))
      \o (IF cdr = None THEN <<>> ELSE ParseCdr(cdr, lookup))

---------------------------------------------------------------------------
(* The rows of the NASR tables.                                            *)

ParseTable(rows) == IF None \in ToSet(rows) THEN None ELSE rows

(* The ICAO identifier, or for the many fields without one the local one.  *)
AirportKey(row) == IF row.icao # None THEN row.icao ELSE row.arpt

SiteType(code) ==
    CASE code = "H" -> "Heliport" [] code = "S" -> "Seaplane" [] code = "U" -> "Ultralight"
      [] OTHER -> "Airport"

(* Of a mixed surface the first material.                                  *)
SurfaceType(materials) ==
    CASE materials # <<>> /\ materials[1] = "ASPH" -> "Asphalt"
      [] materials # <<>> /\ materials[1] = "CONC" -> "Concrete"
      [] materials # <<>> /\ materials[1] = "TURF" -> "Turf"
      [] materials # <<>> /\ materials[1] = "GRVL" -> "Gravel"
      [] materials # <<>> /\ materials[1] = "WATER" -> "Water"
      [] OTHER -> "Other"

(* The first rule that applies; some ask how the text begins, some what it *)
(* mentions.                                                               *)
FreqUseKind(use) ==
    LET Is(w) == use = <<w>> IN
    LET Begins(w) == use # <<>> /\ use[1] = w IN
    LET Mentions(w) == w \in ToSet(use) IN
    LET rules == <<<<Is("CTAF"), "Ctaf">>, <<Is("UNICOM"), "Unicom">>, <<Begins("LCL"), "Tower">>,
                   <<Begins("GND"), "Ground">>, <<Begins("CD"), "Clearance">>,
                   <<Mentions("ATIS"), "Atis">>, <<Begins("AWOS") \/ Begins("ASOS"), "Awos">>,
                   <<Mentions("APCH"), "Approach">>, <<Mentions("DEP"), "Departure">>,
                   <<TRUE, "Other">>>> IN
    rules[Min({i \in 1..Len(rules) : rules[i][1]})][2]

AirportFromRow(row) ==
    [icao |-> AirportKey(row), faa_id |-> row.arpt, lat |-> row.lat, lon |-> row.lon,
     type |-> SiteType(row.site)]

EndNumber(ident) == IF ident.num = None THEN 0 ELSE ident.num

RunwayFromRowsInFileOrder(rwy, ends, icao) ==
    LET places == {i \in 1..Len(ends) : ends[i].rwy = rwy.id}
        matching == Ascending(places)
        End(k) == IF k <= Len(matching)
                  THEN [ident |-> ends[matching[k]].end, heading |-> ends[matching[k]].heading]
                  ELSE [ident |-> rwy.id[k], heading |-> 0]
    IN [airport |-> icao, ident |-> rwy.id, length |-> rwy.length,
        surface |-> SurfaceType(rwy.surface), low |-> End(1), high |-> End(2)]

(* The rows of the runway's ends by their numbers; the first is the low    *)
(* end and the second the high one, whichever halves they are.             *)
RunwayFromRows(rwy, ends, icao) ==
    LET matching == {i \in Places(ends) : ends[i].rwy = rwy.id}
        Number(i) == EndNumber(ends[i].end)
        First(places) == CHOOSE i \in places : \A j \in places :
                           Number(i) < Number(j) \/ (Number(i) = Number(j) /\ i <= j)
        others == {i \in matching : i # First(matching)}
        End(places, k) == IF places = {} THEN [ident |-> rwy.id[k], heading |-> 0]
                          ELSE [ident |-> ends[First(places)].end, heading |-> ends[First(places)].heading]
    IN [airport |-> icao, ident |-> rwy.id, length |-> rwy.length,
        surface |-> SurfaceType(rwy.surface), low |-> End(matching, 1), high |-> End(others, 2)]

(* Of the frequencies of the country, those serving this airport as an     *)
(* airport, less the ones whose number does not parse.                     *)
FrequenciesForAirport(rows, arpt, icao) ==
    LET own == Where(rows, LAMBDA r : /\ r.facility = arpt
                                      /\ r.site_type = "AIRPORT"
                                      /\ r.mhz # None)
    IN [k \in 1..Len(own) |-> [airport |-> icao, kind |-> FreqUseKind(own[k].use),
                               mhz |-> own[k].mhz]]
=============================================================================
