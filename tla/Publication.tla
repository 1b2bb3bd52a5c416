---------------------------- MODULE Publication ----------------------------
(***************************************************************************)
(* The pipeline that builds and publishes a cycle, run after run over one  *)
(* data directory, and the server that answers from that directory while   *)
(* it does.  What a run finds outside is one record, its feed.  A copy on  *)
(* disk passes through a state in which the file is only partly written    *)
(* (Torn), and a run can be killed between any two steps.                  *)
(***************************************************************************)
EXTENDS Bundle, Dtpp

CONSTANTS Feeds,        \* what runs may find, by number
          Cycles,       \* the dates of those feeds
          RunwayOf,     \* the designator inside a name
          Today,
          MaxRuns

(* A feed is dated by its cycles, and what lists things is a sequence.     *)
ASSUME CyclesAreDates == Cycles \subseteq Int /\ IsFiniteSet(Cycles)

IsList(x) == Len(x) \in Nat

NoneOrList(x) == x = None \/ IsList(x)

IsExport(file) ==
    LET IsDocument(doc) == doc = None \/ IsList(doc.features) IN
    \/ file = None
    \/ ~file.zip /\ IsDocument(file.doc)
    \/ file.zip /\ IsList(file.entries) /\ \A i \in Places(file.entries) : IsDocument(file.entries[i].doc)

ASSUME FeedsAreLists ==
    \A n \in DOMAIN Feeds :
      LET feed == Feeds[n] IN
      /\ feed.cifp.listing = None \/ feed.cifp.listing \subseteq Cycles
      /\ \A d \in DOMAIN feed.cifp.zips : NoneOrList(feed.cifp.zips[d])
      /\ \A d \in DOMAIN feed.nasr : feed.nasr[d] = None \/ \A t \in DOMAIN feed.nasr[d] : IsList(feed.nasr[d][t])
      /\ IsExport(feed.export)
      /\ NoneOrList(feed.states)
      /\ \A c \in DOMAIN feed.listings : \A t \in {"airports", "navaids", "airspaces"} :
           NoneOrList(feed.listings[c][t])
      /\ NoneOrList(feed.pfr) /\ NoneOrList(feed.cdr)
      /\ \A c \in DOMAIN feed.metafiles : NoneOrList(feed.metafiles[c])
      /\ \A series \in {"sectional", "enroute", "tac", "heli"} : \A z \in DOMAIN feed.zips[series] :
           feed.zips[series][z] = Down \/ NoneOrList(feed.zips[series][z])

Aixm == INSTANCE Aixm

OpenAip == INSTANCE OpenAip WITH MaxPages <- 1

(* What there is in place of a file: nothing yet, or a part of it.         *)
Absent == [absent |-> TRUE]

Torn == [torn |-> TRUE]

VARIABLES
    job,          \* the run in progress
    published,    \* the directory of each cycle: its database and archives
    pointer,      \* latest.json
    request,      \* the cycle whose manifest the server is reading
    manifest,     \* the answer it gave last
    runs,
    interrupted,  \* history: cycles being published, or left half published
    served        \* history: the airports of the bundle the pointer named last

vars == <<job, published, pointer, request, manifest, runs, interrupted, served>>

Init ==
    /\ job = None
    /\ published = [c \in Cycles |-> [db |-> Absent, files |-> <<>>]]
    /\ pointer = Absent
    /\ request = None
    /\ manifest = None
    /\ runs = 0
    /\ interrupted = {}
    /\ served = None

---------------------------------------------------------------------------
(* Building.  Each step leaves the bundle one stage further, or fails the  *)
(* run; the bundle lives in a directory of its own that goes with the run. *)

disk == <<published, pointer, request, manifest, interrupted, served>>

Found == Feeds[job.feed]

Stage(step) == job # None /\ job.step = step

Fail == job' = [job EXCEPT !.step = "failed", !.at = job.step]

(* The step's outcome: the bundle afterwards, or None.                     *)
Continue(db, step) ==
    IF db = None THEN Fail ELSE job' = [job EXCEPT !.db = db, !.step = step]

Start(feed) ==
    /\ job = None
    /\ runs < MaxRuns
    /\ job' = [step |-> "fetch", at |-> None, feed |-> feed, date |-> None, db |-> EmptyBundle,
               airports |-> 0, charts |-> None, todo |-> <<>>, files |-> <<>>]
    /\ runs' = runs + 1
    /\ UNCHANGED disk

FetchSources ==
    /\ Stage("fetch")
    /\ LET cifp == FetchCifp(Found.cifp)
           nasr == IF cifp = None THEN None ELSE FetchNasr(Found.nasr, cifp.date)
       IN IF nasr = None THEN Fail
          ELSE job' = [job EXCEPT !.date = cifp.date, !.step = "build"]
    /\ UNCHANGED <<disk, runs>>

Build ==
    /\ Stage("build")
    /\ \E db \in BuildBundle(FetchCifp(Found.cifp).file, FetchNasr(Found.nasr, job.date), None, RunwayOf) :
         IF db = None THEN Fail
         ELSE job' = [job EXCEPT !.db = AddAiracCycle(db, job.date),
                                 !.airports = Cardinality(DOMAIN db.airport), !.step = "airspace"]
    /\ UNCHANGED <<disk, runs>>

AddBoundaries ==
    /\ Stage("airspace")
    /\ LET class == FetchClassAirspace(Found.class)
           special == FetchSpecialUseAirspace(Found.special)
       IN IF None \in {class, special} THEN Fail
          ELSE Continue(AddAirspace(job.db, class \o special), "export")
    /\ UNCHANGED <<disk, runs>>

ExtendCountingAll(db, airports, volumes, step) ==
    LET all == AddAirspace(db, volumes) IN
    IF all = None THEN Fail
    ELSE job' = [job EXCEPT !.db = all, !.airports = @ + Len(airports), !.step = step]

(* Data of one more source, with the airports it is the first to give.     *)
Extend(db, airports, volumes, step) ==
    LET all == AddAirspace(db, volumes) IN
    IF all = None THEN Fail
    ELSE job' = [job EXCEPT !.db = all, !.airports = @ + NetNew(job.db, airports), !.step = step]

(* The national export.  One that is absent or unreadable is passed over;  *)
(* one that does not say how old it is fails the run.                      *)
AddExport ==
    /\ Stage("export")
    /\ LET data == Aixm!LoadAixm(Found.export, "LF") IN
       CASE data = None -> Continue(job.db, "community")
         [] data # None /\ data.effective = None -> Fail
         [] OTHER -> Extend(AddAixm(job.db, data), data.airports, data.airspaces, "community")
    /\ UNCHANGED <<disk, runs>>

(* Without a key the step does not exist.                                  *)
AddCommunity ==
    /\ Stage("community")
    /\ LET loaded == IF ~Found.key THEN None
                     ELSE OpenAip!LoadConfigured(Found.states, Found.listings) IN
       CASE ~Found.key -> Continue(job.db, "routes")
         [] Found.key /\ loaded = None -> Fail
         [] OTHER -> Extend(AddOpenAip(job.db, loaded.airports, loaded.navaids, job.date),
                            loaded.airports, loaded.airspaces, "routes")
    /\ UNCHANGED <<disk, runs>>

AirportRows(db) == SetToSeq({db.airport[icao] : icao \in DOMAIN db.airport})

AddRoutes ==
    /\ Stage("routes")
    /\ LET routes == FetchAndParse(Found.pfr, Found.cdr, AirportRows(job.db)) IN
       IF RoutesHaveAirports(job.db, routes)
       THEN job' = [job EXCEPT !.db = AddPreferredRoutes(@, routes), !.step = "plates"] ELSE Fail
    /\ UNCHANGED <<disk, runs>>

ProcedureRows(db) ==
    MapSeq(SetToSeq(DOMAIN db.procedure), LAMBDA p :
      [airport |-> p[1], kind |-> p[2], ident |-> p[3], runway |-> db.procedure[p]])

(* No cycle in effect, or no metafile: no plates.                          *)
AddPlates ==
    /\ Stage("plates")
    /\ LET cycle == DiscoverDtppCycle(Found.offers, Today)
           events == IF cycle \in {None, Down} THEN None ELSE Offered(Found.metafiles, cycle)
       IN job' = [job EXCEPT !.db = IF events = None THEN @
                                    ELSE AddDtppCharts(@, MatchDtppCharts(events, ProcedureRows(@),
                                                                          DOMAIN @.airport, cycle)),
                             !.step = "charts"]
    /\ UNCHANGED <<disk, runs>>

---------------------------------------------------------------------------
(* Charts.  todo holds what is left of the series being tiled, each item   *)
(* <<series, name>>.                                                       *)

Items(series, names) == MapSeq(names, LAMBDA n : <<series, n>>)

DiscoverCharts ==
    /\ Stage("charts")
    /\ LET found == DiscoverChartCycle(Found.site) IN
       IF found = None THEN Fail
       ELSE job' = [job EXCEPT !.charts = found, !.todo = Items("sectional", found.sectional),
                               !.step = "sectional"]
    /\ UNCHANGED <<disk, runs>>

Parts(item, feed, dates) ==
    CASE item[1] = "sectional" -> FetchSectionalChart(item[2], dates, feed.zips["sectional"])
      [] item[1] \in {"low", "high"} ->
           FetchIfrEnroutePanel(item[2], EnrouteCycleDates(feed.page), feed.zips["enroute"], item[1])
      [] item[1] = "tac" -> FetchTerminalChartZip(item[2], dates, feed.zips["tac"])
      [] OTHER -> FetchTerminalChartZip(item[2], dates, feed.zips["heli"])

(* Charts of one city differ in the suffix of their kind.                  *)
Slug(part) == IF part.kind \in {"TerminalAreaChart", "VfrFlyway", "HelicopterRoute"}
              THEN <<part.label, part.kind>> ELSE <<part.label>>

Tiling == {"sectional", "enroute", "terminal"}

(* Every map of a zip becomes an archive with a row in the catalogue, or   *)
(* the run fails.  The bytes of an archive differ from run to run.         *)
TileChart ==
    /\ job # None /\ job.step \in Tiling /\ job.todo # <<>>
    /\ LET parts == Parts(Head(job.todo), Found, job.charts.dates)
           Row(p) == [id |-> <<job.date, Slug(p)>>, kind |-> p.kind, file |-> Slug(p),
                      sha256 |-> <<Slug(p), runs>>]
           db == IF parts = None THEN None ELSE AddCharts(job.db, MapSeq(parts, Row))
       IN IF db = None THEN Fail
          ELSE job' = [job EXCEPT !.db = db, !.todo = Tail(@),
                                  !.files = @ \o MapSeq(parts, LAMBDA p : <<Slug(p), <<Slug(p), runs>>>>)]
    /\ UNCHANGED <<disk, runs>>

NextSeries ==
    /\ job # None /\ job.step \in Tiling /\ job.todo = <<>>
    /\ LET ifr == DiscoverIfrEnrouteCycle(Found.page) IN
       CASE job.step = "sectional" /\ ifr = None -> Fail
         [] job.step = "sectional" /\ ifr # None ->
              job' = [job EXCEPT !.step = "enroute", !.todo = Items("low", ifr.low) \o Items("high", ifr.high)]
         [] job.step = "enroute" ->
              job' = [job EXCEPT !.step = "terminal",
                                 !.todo = Items("tac", job.charts.tac) \o Items("heli", job.charts.heli)]
         [] job.step = "terminal" -> job' = [job EXCEPT !.step = "validate"]
    /\ UNCHANGED <<disk, runs>>

---------------------------------------------------------------------------
(* Validation against the cycle the pointer names.                         *)

LatestBundle == IF pointer \in {Absent, Torn} THEN pointer ELSE published[pointer.cycle].db

AirportCount(db) == Cardinality(DOMAIN db.airport)

HalvedFromHalf(airports, previous) == airports * 4 < previous

HalvedFrom(airports, previous) == airports * 2 < previous

ValidateWithoutPlaces(db, airports, previous) ==
    /\ airports # 0
    /\ previous # Torn
    /\ previous # Absent => ~HalvedFrom(airports, AirportCount(previous))

ValidateBundle(db, airports, previous) ==
    /\ airports # 0
    /\ \A icao \in DOMAIN db.airport : Aixm!Plausible(db.airport[icao].lat, db.airport[icao].lon)
    /\ \A s \in DOMAIN db.source : db.source[s] # None
    /\ previous # Torn
    /\ previous # Absent => ~HalvedFrom(airports, AirportCount(previous))

Validate ==
    /\ Stage("validate")
    /\ IF ValidateBundle(job.db, job.airports, LatestBundle)
       THEN job' = [job EXCEPT !.step = "publish"] ELSE Fail
    /\ UNCHANGED <<disk, runs>>

---------------------------------------------------------------------------
(* Publication: into the directory of the cycle, over what is there.       *)

Named(ptr) == IF ptr \in {Absent, Torn} THEN None ELSE ptr.cycle

(* The bundle a reader of the pointer finds.                               *)
Serve == served' = IF Named(pointer') = None THEN served
                   ELSE IF published'[Named(pointer')].db \in {Absent, Torn} THEN served
                   ELSE AirportCount(published'[Named(pointer')].db)

BeginPublishPointerFirst ==
    /\ Stage("publish")
    /\ job' = [job EXCEPT !.step = "bundle"]
    /\ published' = [published EXCEPT ![job.date].db = Torn]
    /\ pointer' = [cycle |-> job.date, files |-> MapSeq(job.files, LAMBDA f : f[1])]
    /\ UNCHANGED <<request, manifest, runs, served, interrupted>>

BeginPublish ==
    /\ Stage("publish")
    /\ job' = [job EXCEPT !.step = "bundle"]
    /\ published' = [published EXCEPT ![job.date].db = Torn]
    /\ interrupted' = interrupted \cup {job.date}
    /\ UNCHANGED <<pointer, request, manifest, runs, served>>

CopyBundle ==
    /\ Stage("bundle")
    /\ job' = [job EXCEPT !.step = "archives", !.todo = job.files]
    /\ published' = [published EXCEPT ![job.date].db = job.db]
    /\ UNCHANGED <<pointer, request, manifest, runs, interrupted>>
    /\ Serve

Archives == published[job.date].files

BeginArchive ==
    /\ Stage("archives") /\ job.todo # <<>>
    /\ job' = [job EXCEPT !.step = "archive"]
    /\ published' = [published EXCEPT ![job.date].files = Replacing(@, Head(job.todo)[1], Torn)]
    /\ UNCHANGED <<pointer, request, manifest, runs, interrupted, served>>

CopyArchive ==
    /\ Stage("archive")
    /\ job' = [job EXCEPT !.step = "archives", !.todo = Tail(@)]
    /\ published' = [published EXCEPT ![job.date].files = Replacing(@, Head(job.todo)[1], Head(job.todo)[2])]
    /\ UNCHANGED <<pointer, request, manifest, runs, interrupted, served>>

BeginPointer ==
    /\ Stage("archives") /\ job.todo = <<>>
    /\ job' = [job EXCEPT !.step = "pointer"]
    /\ pointer' = Torn
    /\ UNCHANGED <<published, request, manifest, runs, interrupted, served>>

WritePointer ==
    /\ Stage("pointer")
    /\ job' = None
    /\ pointer' = [cycle |-> job.date, files |-> MapSeq(job.files, LAMBDA f : f[1])]
    /\ interrupted' = interrupted \ {job.date}
    /\ UNCHANGED <<published, request, manifest, runs>>
    /\ Serve

(* The run ends: after an error of its own, or killed at any moment.       *)
Exit ==
    /\ Stage("failed")
    /\ job' = None
    /\ UNCHANGED <<disk, runs>>

Kill ==
    /\ job # None
    /\ job' = None
    /\ UNCHANGED <<disk, runs>>

---------------------------------------------------------------------------
(* GET /cycles/latest: the pointer, then the file it names.                *)

(* The digest of a bundle tells runs apart, as those of its archives do.   *)
Digest(db) == IF db \in {Absent, Torn} THEN db ELSE [charts |-> db.chart]

RequestManifest ==
    /\ request = None
    /\ IF Named(pointer) = None
       THEN request' = None /\ manifest' = [cycle |-> None, content |-> pointer]
       ELSE request' = pointer.cycle /\ UNCHANGED manifest
    /\ UNCHANGED <<job, published, pointer, runs, interrupted, served>>

AnswerManifest ==
    /\ request # None
    /\ request' = None
    /\ manifest' = [cycle |-> request, content |-> Digest(published[request].db)]
    /\ UNCHANGED <<job, published, pointer, runs, interrupted, served>>

Step ==
    \/ FetchSources \/ Build \/ AddBoundaries \/ AddExport \/ AddCommunity \/ AddRoutes \/ AddPlates
    \/ DiscoverCharts \/ TileChart \/ NextSeries \/ Validate
    \/ BeginPublish \/ CopyBundle \/ BeginArchive \/ CopyArchive \/ BeginPointer \/ WritePointer
    \/ Exit

Next ==
    \/ \E feed \in DOMAIN Feeds : Start(feed)
    \/ Step
    \/ Kill
    \/ RequestManifest
    \/ AnswerManifest

Spec == Init /\ [][Next]_vars
---------------------------------------------------------------------------
(* Properties.                                                             *)

(* The count that validation compares is that of the bundle: airports that *)
(* several sources know are counted once (stats.airports in run).          *)
StatsMatchTheBundle ==
    job # None => job.airports = AirportCount(job.db)

(* At every step each row that names a parent finds it in the bundle.      *)
ChildrenHaveParents ==
    job # None =>
      LET db == job.db
          Under(rows) == References(rows, LAMBDA r : r.airport, db.airport) IN
      /\ Under(db.runway) /\ Under(db.frequency) /\ Under(db.dtpp)
      /\ \A p \in DOMAIN db.procedure : p[1] \in DOMAIN db.airport
      /\ \A t \in DOMAIN db.leg : t[1] \in DOMAIN db.procedure
      /\ \A i \in Places(db.dtpp) :
           \/ db.dtpp[i].procedure = AirportDiagramIdent
           \/ \E p \in DOMAIN db.procedure : p[1] = db.dtpp[i].airport /\ p[3] = db.dtpp[i].procedure

Idents(rows) == {rows[i].ident : i \in Places(rows)}

(* Each fix a leg names has its one row as a navaid and its one row as a   *)
(* waypoint if the file defines such; an ident may be both.                *)
NamedFixesAreThere ==
    job # None /\ job.step = "airspace" =>
      LET lines == FetchCifp(Found.cifp).file
          legs == FixesOf(job.db.leg) \cup FixesOf(MapSeq(job.db.airway, LAMBDA a : a.legs))
          vhf == Idents(FilterMap(lines, ExtractVhfNavaid))
          ndb == Idents(FilterMap(lines, ExtractNdbNavaid))
      IN /\ Idents(job.db.navaid) = legs \cap (vhf \cup ndb)
         /\ Len(job.db.navaid) = Cardinality(legs \cap (vhf \cup ndb))
         /\ Idents(job.db.waypoint) = legs \cap Idents(FilterMap(lines, ExtractWaypoint))

(* No bundle lies in a published directory whole that has an airport in an *)
(* impossible place, or a source that cannot say how old it is.            *)
BundlesAreSound ==
    \A c \in Cycles :
      published[c].db \notin {Absent, Torn} =>
        LET db == published[c].db IN
        /\ \A a \in DOMAIN db.airport : Aixm!Plausible(db.airport[a].lat, db.airport[a].lon)
        /\ \A s \in DOMAIN db.source : db.source[s] # None
        /\ db.cycle = {c}

(* Between one whole bundle clients can be served and the next, the number *)
(* of airports never falls below half, however runs failed in between.     *)
ServedNeverCollapses ==
    [][served # None /\ served' # served => served' * 2 >= served]_vars

(* The cycle the pointer names is whole, and its catalogue lists exactly   *)
(* the archives that were published with it, by their digests, unless a    *)
(* publication of that very cycle is under way or was cut short.           *)
CatalogueIsOnDisk ==
    Named(pointer) # None /\ Named(pointer) \notin interrupted =>
      LET c == published[pointer.cycle] IN
      /\ c.db # Torn
      /\ {c.db.chart[id].file : id \in DOMAIN c.db.chart} = ToSet(pointer.files)
      /\ \A id \in DOMAIN c.db.chart : c.files[c.db.chart[id].file] = c.db.chart[id].sha256

(* The server hashes a file that is partly written only while the cycle it *)
(* names is being published over, or after such a publication was killed.  *)
ManifestIsOfAWholeBundle ==
    [][manifest' # manifest /\ manifest'.content = Torn /\ manifest'.cycle # None =>
         manifest'.cycle \in interrupted]_vars

(* Routes and plates are extras: whatever their sources say, the inserts   *)
(* they lead to do not fail a run.                                         *)
ExtrasNeverFailARun ==
    job # None /\ job.step = "failed" => job.at \notin {"routes", "plates"}
(* However many sources a bundle is built from, it is consistent at every  *)
(* step of a run: the airports counted are those it has, no row is without *)
(* its parent, and no fix is lost between navaids and waypoints.           *)
BundleIsConsistent == StatsMatchTheBundle /\ ChildrenHaveParents /\ NamedFixesAreThere

(* What lies in the published directories can be trusted, catalogue and    *)
(* archives too, but for the cycle that is being published over.           *)
PublishedIsSound == BundlesAreSound /\ CatalogueIsOnDisk
=============================================================================
