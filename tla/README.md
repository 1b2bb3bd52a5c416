# freeflight in TLA+

freeflight is an electronic flight bag: a pipeline (`services/ff-etl`) builds one
SQLite bundle per 28-day aeronautical cycle and publishes it, an HTTP service
(`services/ff-api`) serves the bundle, charts, plates, weather, NOTAMs, sign-in and
aircraft, and two clients (`apps/android`, `apps/web`) use it.  The Android app keeps
everything on the device and must work with no network.  A Rust core
(`crates/ff-uniffi`, `crates/ff-sync`) owns the files on the device.

This directory holds a model of the system from the source files a cycle is built of to
the screen it is read on; the configurations that model-check it with TLC; and theorems
checked by TLAPS.

## 1. Inventory

| part | state | operations | talks to |
|---|---|---|---|
| parsers (`ff-cifp`, `ff-aixm`, `ff-openaip`, `ff-nasr`) | — | read a source file into rows | the pipeline |
| building a bundle (`ff-etl` bundle, fetch, dtpp, preferred_routes, chart_prep) | the tables of the bundle under construction | discover, fetch, match, crop, insert | the FAA, SIA, openAIP; the parsers |
| publication (`ff-etl` pipeline, validate, publish; `ff-api` cycles) | work files, published files, `latest.json` | run; read the manifest, serve a bundle | the server's disk |
| reading a bundle (`ff-api/routes/data.rs`, `ff-uniffi/query.rs`) | — | maps, airport pages, procedures, search, routes | the bundle |
| flight planning (`ff-planning`) | the form of the client | recalculate | the clients, through wasm and uniffi |
| bundle store (`ff-sync/apply.rs`) | `cycles/<id>`, `.incoming-<id>`, the `current` marker, finished downloads | apply a download, prune superseded cycles | the file system |
| cycle sync (`CycleRepository.kt`, `ApiClient.kt`) | partial download, sync job, what the screen shows | check, download, resume, refresh | ff-api over HTTP, the core over uniffi |
| chart store (`ff-uniffi` lib, charts) | chart files named by content hash, cache of open tile readers | install, remove, read a tile, prune | the bundle's catalogue, the tile server |
| chart downloads (`CycleRepository.kt`) | per-chart jobs, one set job, partial files, progress on screen | download, download a set, cancel, dismiss, remove | ff-api, chart store |
| plate store (`PlateRepository.kt`) | plate PDFs, partial files | fetch (direct, then through the proxy), download all, cancel, clear | the FAA, ff-api |
| NOTAM client (`ff-notam/client.rs`) | pacer, token, cache | fetch | the FAA's NOTAM service |
| sign-in (`ff-api` auth, `ff-accounts`) | pending sign-ins, users, sessions | start, callback, lookup, sign out, delete account, sweep | Google/Discord, database |
| aircraft accounts (`ff-accounts/aircraft.rs`) | aircraft and their performance tables | create, update, delete, replace performance, read | database |
| rate limiter (`ff-api/ratelimit.rs`) | one token bucket per client address | check, evict | the proxy routes |
| flight recording (Android) | points in memory, flight files | start, stop, save, list, delete; service restart | the file system |
| screen state (`FreeflightViewModel.kt`) | the open airport and its weather and procedures, route and plan | open, close, load, recalculate | core, ff-api |
| fleet (Android) | aircraft rows, published list, selection | add, update, delete, select, refresh | the app's database |
| phases (`ff-postflight`), cycle clock (`ff-core`), magnetic variation, weight and balance, tile geometry, decoders, UI | — | pure | — |

How they interact.  A run of the pipeline discovers a cycle, fetches a dozen feeds that
come and go independently, and inserts them one after another into tables that refer to
each other.  What it publishes is read by ff-api with no lock between them.  The web reads
a bundle through ff-api, the device through its own queries, and both expect the same
answers.  A device polls the manifest, downloads over a resumable transfer and swaps the
bundle in under the core's mutex while coroutines on other threads refresh the screen
and read tiles; the same partial files are written by jobs that may be cancelled but
not stopped; the server keeps sign-ins and token buckets in memory behind mutexes, and
users and sessions in a database through several statements per request.

What is hard here: records that come in whatever order a file has them, repeated or
missing; six sources inserted over one another; file-system calls that are atomic only one
by one; process deaths and failed calls between any two of them; downloads resumed against
a server whose file changed; blocking I/O that outlives the cancellation of its coroutine;
check-then-act over a database; viewports across the antimeridian and queries cut to a
limit; profiles that do not fit their route; and clocks (token expiry, pacing, sign-in
timeouts).  PROJECT.json lists each hazard at its line.

What makes each component correct:

- **parsers**: what is extracted does not depend on the order of the file where the
  format does not; every row has the keys and partners the schema needs.
- **building a bundle**: references are kept after every insertion; only the feeds a
  cycle cannot do without fail a run; cropping keeps the whole chart.
- **publication**: the pointer names a cycle whose files are all there; a cycle of less
  than half the airports does not follow a fuller one; a manifest is of one whole bundle.
- **reading a bundle**: everything in view is shown; a page is complete
  and every link on it leads somewhere; a procedure is drawn to what its names mean, and to
  its own airport's runways.
- **flight planning**: the tops of climb and descent are where the flight crosses them,
  and the fuel is of that flight.
- **bundle store**: whatever crashes or fails, the marker names a whole bundle of that
  very cycle; a reported success is true; a retry gets past any litter; a prune leaves
  nothing superseded and touches nothing else.
- **cycle sync**: the device moves forward only, onto whole announced bundles; a
  published cycle arrives in the end; the screen claims no work that is not being done.
- **chart store**: a file stored under a published digest has that digest; no open
  archive and no remembered failure outlives its file; a prune deletes exactly what the
  active cycle does not refer to.
- **chart downloads**: what is installed is whole, whoever else writes the partial file;
  progress on screen has a worker behind it.
- **NOTAM client**: the upstream limit holds at the upstream; one token request for a
  crowd; a token lasts until it is used; everyone is answered.
- **sign-in and aircraft accounts**: a trip to the provider makes one session, of the
  person it was about; nothing outlives or crosses an account; the caps hold.
- **rate limiter**: forgetting a client changes no answer; the rate is capped; a client
  that waits as told is let through.
- **plate store, flight recording, screen state, fleet**: what is shown is what is
  stored, about the thing the pilot has open, and nothing deleted comes back.

## 2. Plan

| order | module | composes | status |
|---|---|---|---|
| 1 | `AtomicSwap` – what a device promises about its active bundle | | done |
| 2 | `BundleStore` – apply and prune, one file-system call a step | refines `AtomicSwap` | done, proved |
| 3 | `CycleSync` – the download protocol, with apply as one step | stands on `AtomicSwap` | done, proved |
| 4 | `ChartLibrary`, `ChartStore` – charts without and with the cache | `ChartStore` refines `ChartLibrary` | done, proved |
| 5 | `ChartDownloads` – jobs, cancellation and shared partial files | drops an assumption of `ChartStore` | done, proved |
| 6 | `NotamClient` – pacer, token and retries in time | | done, proved |
| 7 | `RateLimit` – buckets, eviction, Retry-After | | done, proved |
| 8 | `Accounts` – sign-in, sessions, aircraft over a database | | done, proved |
| 9 | `Fields`, `Cifp`, `Aixm`, `OpenAip`, `Dtpp`, `FaaFeeds`, `ChartPrep` – what each source is read as | | done |
| 10 | `Sources` – files in any order | module group 9 | done; scans and the smaller feeds proved |
| 11 | `Bundle` – tables, keys and inserters | | done |
| 12 | `Publication` – the pipeline from feeds to pointer, under a reader | 9 and 11; its cycles are what `CycleSync!Publish` announces | done, proved |
| 13 | `Sql`, `DataRoutes`, `DeviceQueries`, `Queries` – one bundle, two readers | | done, proved |
| 14 | `Route`, `VerticalProfile`, `FlightPlan` – one planning pass | | done, fuel proved |
| 15 | `PlateStore` – concurrent fetches of a plate, the proxy, clearing | the shape of 5 | next |
| 16 | `FlightRecording`, `Fleet`, `AirportSheet` – files, tables and late answers under coroutines | | later |
| 17 | `Phases`, `CycleCurrency`, `WeatherCache` – pure algorithms and caches | | later |

The theorems about a module `M` are in `MProofs`; those about the three parts of ff-api
(`RateLimit`, `NotamClient`, `Accounts`) are in `ServerProofs`, one part after the other, and
those about `Sources` in `PublicationProofs`, with whose lemmas on lists they are proved.
So that one module can extend several, the specifications of all but one have names of
their own (`LimiterSpec`, `NotamSpec`, `ReadingSpec`).

Abstract specifications: `AtomicSwap` and `ChartLibrary`, each shown to be implemented
(checked and proved).

## 3. The modules and the code

PROJECT.json's map names the lines of every definition.  The abstractions:

### From the sources to a published cycle

- **`Fields`** holds what the modules on parsed data share: `None` for a field that is
  absent or does not decode, `Down` for a request that fails as a whole, rounding and
  metres in feet.
- **`Cifp`, `Aixm`, `OpenAip`, `Dtpp`, `FaaFeeds` (NASR, the charts' listings, airspace and
  the preferred routes) and `ChartPrep`** are operators: a parser is what it makes of the records of its file, in
  their order.  Fields are decoded (a runway designator is its number and suffix, a
  coordinate its degrees, minutes and seconds, a chart name its words), because what the
  code compares and drops is parts of those; column positions and XML tokens are below the
  model.  `ChartPrep` reads an image as what the code measures of it: which columns are
  white, and the longest dark run of each row; what is cut of the preview is scaled to the
  sheet and rounded as the code does.
- **`Sources`** is a state machine of one file: `format` is what it is a file of, `contents`
  its records.  The file grows by a record at a time, so that every file over the given
  records is a state, and the properties relate what the parser makes of it to the records
  in it.  A preview has a width (`PreviewWidth`), and so have the sheets that it may be a
  preview of (`SheetWidths`).
- **`Bundle`** is the database under construction: a record of tables, a function where
  there is a primary key and a sequence where there is none.  Each inserter answers the
  bundle afterwards, or `None` when a constraint refuses a row and the transaction is undone.
  `BuildBundle` answers a set: of two local identifiers with one ICAO code either may stay,
  as the code turns a hash map round (`FaaIdsByIcao`).
- **`Publication`** is `pipeline::run` in its order, a fetch or an insertion a step, over one
  data directory, run after run.  What a run finds outside is one record, its feed.  A file
  being copied is `Torn` until the copy ends.  `Kill` ends a run between any two steps.  The
  server reads the pointer and, in a second step, the bundle that the pointer named.

### Reading a bundle

- **`Sql`** is what the readers ask of SQLite: LIKE, ORDER BY with LIMIT, upper case and
  comparison of texts, a text being a sequence of numbers.  An ORDER BY is given by what
  comes strictly before what, ties staying in the order of the table, and the place of a
  row in the answer is the number of rows before it.
- **`DataRoutes`** and **`DeviceQueries`** are operators, one for each route and each query,
  from the tables of one bundle to the answer.
- **`Queries`** grows a bundle by a row at a time in the tables a screen is drawn from, and
  reads it with both.  `Schema` gives the columns of each table their types and `IsBundle`
  says that a bundle has rows of them, each under a primary key of its own.
  Coordinates are whole degrees.  Where the code computes a distance,
  the model has the box it is cut to.  What a leg may mean by a name (`Meant`) is said
  without the readers: a waypoint of that name, or else a navaid, or else an end of its own
  airport's runways.  Of several fixes with one ident either reader takes the first row; the
  bundle does not say which was meant, and no property does.

### Flight planning

- **`Route`**, **`VerticalProfile`**, **`FlightPlan`** are one planning pass.  Speeds are in
  knots, times in seconds, distances in 1/3600 nm and fuel in gallons per hour times seconds,
  so everything is an integer.  The chart is flat, legs run along meridians and parallels
  and winds blow from the quarters of the compass, which turns the wind triangle into
  integers; headings, from which nothing else is computed, are left out.  Sums over legs
  are a recursive function (`Sums`) that saturates at `Infinity`.  The search for the point
  where climb meets descent halves whole units of distance.  Rows of a performance table
  are taken by their places: a set of places is a group of rows of one power setting, and
  `Lowest` and `Highest` of it are the ends of the stable sort.  The state is the form a client plans from, and a step changes one part of it.

### The device

- **`BundleStore`** has one action per file-system call of `apply_downloaded_bundle`
  and `prune_superseded_cycles`, in the order of the code.  `bundle`, `incoming` and
  `staged` are the directories of `BundleLayout`; a file is the bundle it is a copy of, or
  `Corrupt`.  `remove_dir_all` is two steps, because it empties a directory before it
  removes it.  `Fail` is any of the calls returning an error, `Crash` the process dying
  before any of them.  `Update` guards `BeginApply` as `downloadLatestCycle` does, by
  `is_update_available`.  The mutex of `Freeflight` is the single `pc`.
- **`AtomicSwap`** says what a reader of the active cycle sees: a bundle, replaced in one
  step by a newer one.  The refinement maps `active` to what opening the marker's cycle
  gives.
- **`CycleSync`** abstracts a file to how many chunks are there and the bundles they are
  of.  `Request` to `BodyEnd` are `ApiClient.download` against a server that may honour or
  ignore Range, and whose file may be republished under the transfer (`Publish`); `Apply`
  is the core's call in one step, as `BundleStore` entitles it to be.  `other` is any
  other job's `refresh`, whose three reads and one write are separate steps on a thread
  of its own.
- **`ChartStore`** has one action per method of `Freeflight` that touches charts, as all of
  them hold the mutex; the prune is several, as it may die between files.  The file
  content is the key it is an archive of.  **`ChartLibrary`** is the same promise without a
  cache, an orphan or a prune that takes time.
- **`ChartDownloads`** opens up what `ChartStore` takes as one step: `install_chart` is
  `Verify` and `Rename`, the partial file is an inode, and a transfer keeps writing to the
  inode it opened wherever it has been renamed to.  Cancelling a coroutine only marks it.

### The server

- **`NotamClient`** is a state machine per caller through `fetch_notams_raw`, `get_token`
  and `wait_turn`.  Instants are kept as distances from now, so time is finite without a
  bound on it; `Dropped` is the future of a handler whose client hung up.
- **`RateLimit`** is `check_at` and `enforce`, which reads the clock before the lock.
  Tokens are integers, `Cost` to a request and `Rate` to a tick.  `budget` and `late` are
  history: what a limiter with perfect memory would hold, and whether a check has used
  an old clock reading.
- **`Accounts`** has a process per request that executes one SQL statement, or one
  transaction, a step; foreign keys, cascades and the unique index are what the schema
  says.  An expiry may pass at any moment.  `person` and `csrf` in a row are history.
  Figures and `verified_at` are left out, and so is the mode without a database.

## 4. Runs

One run for each question; all of them exhaustive.

| run | what it shows | bounds |
|---|---|---|
| `sources` | `CifpIsReadRight`, `AixmIsReadRight`, `FeedsAreReadRight`, `CutKeepsTheChart`: what every parser makes of every short file | files of three to six records (nine columns of a scan, six rows of a preview of five columns, of sheets of four to twelve) over records chosen to clash |
| `publication` | `BundleIsConsistent`, `PublishedIsSound`, `ExtrasNeverFailARun`, `ServedNeverCollapses`, `ManifestIsOfAWholeBundle` | two runs; two sound feeds of different dates and sixteen that differ from one in what is missing, malformed or repeated |
| `queries` | `MapsShowTheView` (the device; the server where the viewport does not cross the antimeridian), `PagesAreComplete` (both; see below), `SearchLeadsOn` (airports and airways on the server, fixes on both) | five screens, four or five rows in the tables of each, four viewports, one across the antimeridian, and seven searches |
| `flight_plan` | `TopsAreFlown`, `FuelIsOfTheFlight` | five routes of up to two legs, ten aircraft, a wind of 60 kt ahead, across or behind, each elevation unknown, at sea level or above the cruise altitude |
| `flight_plan_fuel` (violated) | a climb that is never marked is never charged for | one aircraft |
| `bundle_store` | readers of the store see an atomic forward swap of verified bundles; success reports are true; a retry succeeds | three cycles, one published twice; two crashes or failed calls |
| `cycle_sync` | forward only, whole bundles, honest progress; delivery unless trapped | two cycles, one published twice, in two and three chunks; three faults |
| `chart_store` | the store with its cache reads like a library without one | three cycles with a chart that returns, one that stays, one without a digest |
| `chart_downloads` | whole installs and honest progress, with Range | one chart, two coroutines, three chunks |
| `notam_client` | spacing, one token request, tokens outlive the queue, everyone answered | two callers, a queue of two slots, one retry |
| `rate_limit` | eviction costs nobody and, with prompt threads, gives nobody a token; waiting pays | three clients, one more than tracked without eviction; two threads, late by a tick |
| `accounts` | nothing outlives or crosses an account; one session to a trip; the cap | two people, two requests, two trips, two aircraft, a cap of one |

What is asked of a page (`PagesAreComplete`): each leg of a procedure is drawn at one and
the same point by both readers, one that its name may mean; a page of an airport has the
field and all its runways in both, the frequencies and a diagram on the web, and on the
device each frequency once, with every remark, and each plate once.  The device's link to the
diagram and its search for airports are not as their comments say (section 6): no property
is about them, and the diagram is in the device's list of plates all the same.

Why the bounds are enough.  A parser clashes on two records with one key, or on a record
between two that belong together, so files longer than the longest chain (a ring of four
segments with a branch; two pairs of runway ends and a stranger) add no new case.  A feed
with two faults fails at the first of them.  In `publication` the second run is what meets
the files, the counts and the pointer of the first, whether it ended or was killed.  In
`queries` a viewport is cut to one row and to two (`Caps`), below and above what it has,
searches of the server are cut to one hit a table and two or four in all, and those of the
device to one and to two.  `flight_plan` has routes
shorter and longer than climb and descent together, a leg of no length, and winds no
slower than the slowest aircraft.  The file-system and download models interact through
one shared path at a time, so a second edition and a second worker already give every
overlap; faults beyond the second only repeat litter that is there already (every kind
of litter appears after one, and two allow a fault during the recovery).  `NotamClient` has
the proportions of the real durations: a queue that can fill, a retry, lateness that uses
up the margin and a token that expires while callers wait.  `RateLimit` needs two
clients to push the map over its cap and one to be forgotten.  In `Accounts` two trips
are one to sign in and one to be caught between two statements, and ids are handed out
twice so that their reuse would show.  `Limits`, `MaxFaults`, `MaxRuns`, `Longest`,
`Largest`, `Worker`, `Request`, `Long` are the bounds; all but `Long`, which is saturation,
are on the number of things that may happen.

Fairness.  `BundleStore`: the thread holding the mutex keeps running.  `CycleSync`: a
coroutine that can go on does, and a pilot who is offered an update taps again (strong,
as the button is there only between jobs); nothing is assumed of the network beyond
finitely many faults.  `NotamClient`: time passes and callers that can go on do; the
answer of NMS is assumed in `FairUpstreamSpec`, and not in `FairSpec`: the client sets no
timeout on its requests, so without that assumption one unanswered token request holds
the lock and everybody behind it for ever.

## 5. Proofs

| module | theorems | inductive invariant |
|---|---|---|
| `BundleStoreProofs` | types, `ActiveIsGenuine`, `AppliedIsActive`, `PruneReclaims`, implements `AtomicSwap` | what each step of apply knows of the four paths: the bundle being moved is the verified one, the final directory is not the active one because the target is newer, and the doomed are exactly the superseded not yet deleted |
| `CycleSyncProofs` | types, `BusyMeansActive`, `WholeBundles` | the answer a transfer is reading is of the bundle it opened, and what the job remembers of the manifest was published; the digest check at `Apply` does the rest |
| `ChartStoreProofs` | types, `DigestsAreHonest`, `CacheIsDisk`, `PruneSparesActive`, `PruneReclaims`, implements `ChartLibrary` | the cache is what opening the file now gives, and a prune in progress has the catalogue it started with |
| `ChartDownloadsProofs` | types, `ProgressHasWorker`, `InstalledIsWhole` | for progress: who shows a chart is the coroutine in its transfer; for whole archives: a worker writes only at the end of the inode it opened, so a whole one is never written to again, and an inode that has been verified is whole |
| `PublicationProofs` | `CountsMatch`, `ExtrasAreHarmless`, `PublishedCyclesAreSound`, `NeverCollapses`, `TornOnlyWhenInterrupted`, `BundlesAreConsistent`; of `Sources` `FeedsAreRead`, `ChartsAreKept` | `Inv` and `KinInv`, and `IsFile`: the file is a sequence of records of its format; see below |
| `QueriesProofs` | bundles stay of the schema, `MapsShowTheView`, `PagesAreComplete`, `SearchLeadsOn` | `IsBundle(db)`; see below |
| `FlightPlanProofs` | `FuelIsOfTheFlight` | what was entered is of its type; see below |
| `ServerProofs`, limiter | `BudgetIsHonoured`, `RateIsExact`, `WaitSuffices` | the level of a bucket (what its owner would find) against the budget; eviction keeps levels because a bucket idle for `IDLE_EVICTION` is full |
| `ServerProofs`, NOTAM client | types, `Spaced`, `TokenShared`, `TokenOutlivesQueue` | slots handed out are spaced and at most `MaxWait` ahead; the holder of the lock is the only one without a token; the life left of a token covers the longest wait plus lateness |
| `ServerProofs`, accounts | types, `DeletedWithAccount`, `NothingCrossesAccounts`, `OneSessionPerTrip`, `RegistrationsDiffer`, `OvershootIsBounded` | ids are never handed out twice, so a request that remembers a deleted user finds nobody; a state is pending, carried by one request or behind one session; for the cap, the aircraft of a user and the requests that have still to insert for them are counted together |

`PublicationProofs` is for any number of cycles, feeds and runs, killed anywhere.  Its
invariant `Inv` joins what no property says alone.  `JobInv`: from the build on the bundle
is of the run's date, the count is that of its airports, and the archives made so far are
exactly the files of the catalogue, with their digests (`Catalogued`).  `SoundInv`: what is
being published has passed validation.  `DiskInv`: a bundle torn on disk is of a cycle
recorded as interrupted.  `CopyInv`: while archives are copied, each is still to do or lies
on disk whole, which is what makes the pointer true when the last is done.  `PointerInv`
and `ServedInv`: what the pointer names is what was served last, and the bundle on its way
there is no less than half of it; the pointer does not move between validation and
publication, as there is one run at a time.  A second invariant, `KinInv`, stands on the
first: rows keep their parents (`Family`) while other sources bring airports, runways and
plates, and right after the build the fixes that legs name are answered (`FixesAnswer`).
It carries one fact from step to step that no property mentions: the NASR extract that
the fetch found is there when the build reads it.  Under both lie lemmas on how the
parsers put lists together: what a partial conversion gathers (`Gathered`), that a join of
lists brings each item as often as its parts do (`ComesOnce`), the first row of each ident
(`FirstsAreOne`), how ignoring inserts count (`IgnoringCounts`), and for each step that what
its source is read as is a list of rows of airports that are there.

The same module is about single files of any length (`Sources`).  The invariant is only that
a file is a sequence of records; what a parser makes of one is a recursion along it, and a
statement about every step of that recursion is proved of the least step at which it could
fail.  The reader of the plate index, at any event, has every text of its record from
between two events with no start and no end of a record between them, up to now if the
record is open (`OfOneRecord`); the pages of a listing, after any number of them, are its
beginning of that length (`HasRead`); and both recursive functions exist, which TLA+ does
not give for nothing (`ReadersExist`, `ReadsExist`).  That a listing without codes keeps its
fields apart is `ComesOnce` on keys that carry their place.  For scans the lemmas are that
the first wide run of content is where the cut of its edge ends (`CutBeforeContent`), that
every dark line is in one cluster (`ClustersOfLines`), so that the frame is of lines that
are there (`FramesAreInThePicture`), and that scaling down and rounding outwards loses
nothing of it (`ScaledOutwards`).

`QueriesProofs` is for every bundle of the schema, of any size, and every viewport, cap and
text.  Its invariant is short and its lemmas are not: the work lies in what a query answers.
A list is taken in three steps, and each has a lemma that says what it is by its places:
the rows that match (`TakenIs`), those rows in order (`SortedIs`: every one of them once, and
none before one it sorts after), the first of them (`LimitIs`: what is cut is not before what
is kept).  On these stand the three theorems: what is in view is shown by the device on
either side of the antimeridian, and by the web where the viewport does not cross it; both
readers draw a leg at the same one of the points its name may mean; what a page lists,
groups or collapses it does not lose; on the web an airport, and on the device a fix, that
is typed in full outranks what merely contains it, and an airway among the hits opens.  Where one would reason by induction on texts or rows, the least place at
which two of them differ serves instead (`LeastNatural`, from the library's fact that `<` on
the naturals is well founded, which mentions no operator).

`FlightPlanProofs` is for routes of any length, any tables, winds, speeds and elevations.
The invariant says that what was entered is typed, and the rest is about the operators.
That a sum over legs exists and is what its recursion says (`SumsAre`), is exact while
finite and grows with its parts (`SumsCompare`, `SumsScaled`) gives the mean speed: the level
part of a route, a share of the whole time, is flown at a speed between those of the slowest
and the fastest leg, up to the rounding of a second a leg (`MeanSpeed`, `CruiseIsTimed`).
That tops are clamped to the route, and a climb that has none left ends where the descent
begins, gives that each mile is climbed, level or descended once, in every way
`plan_vertical` can come out (`VerticalIsProfile`).  That the lowest and the highest row of
a group exist, whatever the order they were typed in (`EndsAre`), and that a blend of two
rows is between them (`BlendIsBetween`) gives that no figure is extrapolated
(`InterpolatedIsWithin`).

Assumptions.  Constants are typed by the named ASSUMEs, which TLC evaluates.  Besides:

- the limiter needs `FillsWhileIdle` (a bucket fills within `IDLE_EVICTION`; the defaults do,
  in 15 of 300 seconds) and for `WaitSuffices` a rate of at least one request a second, both
  hypotheses of the theorems;
- the NOTAM client needs `TimeAssumption`, the relation of spacing, lateness and margins
  that client.rs chooses its constants by;
- `PublicationProofs` needs `CyclesAreDates` (cycles are numbered, and there are finitely
  many), `FeedsAreLists` (what a file or an answer lists, if it was there to be read, is a
  finite sequence: nothing is said of what is in it) and `NoneIsNoField` (the value for what
  is absent is no date); for single files, `ScansAreMeasured` (a column is white or not, the
  dark run of a row lies in the row) and `FeedsAreReadable` (a metafile is tags and texts, a
  listing may be asked for a page at least, and no chart code that is wanted and no page is
  the value for what is absent);
- `QueriesProofs` needs `RowsAreOfTheSchema` (a row inserted has the columns of its table;
  idents are upper case and not empty, as the parsers leave them; the corners of an area are
  in their order, as they are computed by minimum and maximum), `BoxesAreViews` (a viewport
  is on the globe, and one that does not cross the antimeridian ends short of it unless it
  starts on it: a place there has two longitudes and BETWEEN finds the one stored),
  `CapsArePositive`, and `NoneIsNoRow`;
- `FlightPlanProofs` needs `FormIsTyped` (nothing entered is negative but altitudes,
  coordinates and the reserve), `InfinityIsAbove` (no route is as long and no tank as large as
  the number that stands for an infinite float) and `NoneIsNothing`;
- `OnlyWholeArchives` of `ChartDownloadsProofs` has the hypothesis that the server honours
  Range (`RangeModes = {TRUE}`), without which a transfer may start the file over between
  the check of another job and its rename; and an inode is always free, as there are more
  of them than files and workers (a count of a finite set, in that module).

The type invariants of `CycleSync`, `ChartDownloads` and the other proved modules but
`NotamClient` are proved and not run, and so are `Inv`, `KinInv` and `IsFile` of `PublicationProofs`.

Only model-checked:

- liveness (`RetrySucceeds`, `DeliveredOrTrapped`, `EveryoneAnswered`), since the prover does
  not do fairness or ENABLED;
- `CifpIsReadRight` and `AixmIsReadRight`: these parsers carry their state in the library's
  folds (which ends are taken, which elements are open, where a chain has got to), and what
  the properties say of them relates all of it to the whole file.  Two of their parts are
  true of files as they come and not of every file the constants allow: that runway numbers
  have reciprocals, and that no departure has the ident of an arrival of its airport, as the
  key of a leg does not tell the two apart.  The theorems of `Publication` hold whatever
  these folds compute;
- `TopsAreFlown`: it compares times that the model rounds to seconds, at altitudes that it
  rounds to feet; a foot at a slow enough rate takes longer than the tolerance of the
  property, and so do enough legs.  It is true of the rates and routes of the run and not of
  every rate and route of the integer model.  What it says of the order of the tops and their
  place on the route is among the lemmas of `FuelIsPlanned` (`VerticalIsProfile`).

## 6. Where the code and its documentation disagree

`flight_plan_fuel` is a run and a finding: `flight.rs:62` documents the fuel of a trip as
"Fuel to fly the route: taxi + climb + cruise + descent.", and 264 sums over the points
that were marked; when none is (a cruise altitude the route is too short for, one of the
elevations unknown) the trip is charged for taxiing alone.  Others, met while modelling:

- `ApiClient.kt:140`: a partial bundle of full length, left by a death before the apply, is
  resumed from its end; the server answers 416 and it is never got past.
- `CycleRepository.kt:102-105`: the message for a bundle that does not open says that
  downloading it again should replace it; no download of the same cycle is offered,
  since no newer one is found.
- `CycleRepository.kt`: a `refresh` that straddles a swap leaves the old cycle on screen.
- chart downloads: without Range, a fragment of an archive can be installed as verified,
  because another job deletes and starts over the file between the check and the rename.
- `ff-notam/client.rs`: no timeout on the token request, as said under Fairness.
- `airway.rs:137` follows the first segment of the file out of a fix; 98-99 say that the
  result does not depend on the order of the segments, which at a branch it does.
- `uniffi/query.rs:20-25` says that its ident of the airport diagram is "the same constant
  `ff-etl::dtpp` writes", and has `AIRPORT DIAGRAM` where `dtpp.rs:145` writes
  `AIRPORT_DIAGRAM`: the device finds no diagram (229) and does not list it first among the
  plates, as 601 says.  The fixture of its tests (`tests.rs:213`) has the device's spelling.
  `DeviceQueries` and `DataRoutes` have a constant each, as the code has.
- `uniffi/query.rs:115-118` says that exact idents rank first; airports, which match by a
  part of their name too, are cut to the limit in the order of their codes (129-132) before
  they are ranked, so the one typed in full may be missing.  The server puts the exact match
  first.
- `data.rs:246-250` tests longitudes with one interval: a viewport across the antimeridian,
  which the device turns round, shows nothing on the web.
- `ff-storage/lib.rs:10-12` says that migrations run in one transaction; 44-63 run each
  outside of any.
- `cifp/extract.rs`: the key by which a repeated leg is dropped lacks the kind of the
  procedure, so a departure and an arrival of one name at one airport may lose legs.
- `chart_prep.rs:244-245`: on a sheet with narrow marks at both edges and white between
  them the cuts overlap and the unsigned difference underflows.
- `route.rs:139-144`: a leg the wind does not let the aircraft fly takes an infinite time;
  the fuel required may be finite and within capacity, as it comes from the profile.
- `apply.rs:203-204` promises that a failure leaves the active cycle readable; re-applying
  the active id (called a legitimate repair path at 234-237) deletes it first.  The app
  never does.
- `charts`: a partial chart that was refused "is left so that it can be resumed"
  (`lib.rs:230-232`), but one of full length cannot be.
- `CycleRepository.kt:258-263`: a cancelled set download goes on reporting progress and
  leaves its last report on screen.
- `lib.rs:83-107`: `current_cycle` can return one cycle's id with another's date.
- `ratelimit.rs:42-43` calls `MAX_TRACKED_CLIENTS` a cap; it is where eviction of idle
  clients starts.  `ratelimit.rs:248`: two threads can credit the same time twice.
  `ratelimit.rs:254`: below one request a second the wait told is too short.
- `routes/aircraft.rs:24-27`: the cap of 50 aircraft can be passed by requests that
  count together.
- `apply.rs:241-246`: nothing is synced before the marker is renamed, so the order that
  survives a power loss is the file system's; the model covers the death of the process.

## 7. Not modelled

- **Plate store**: the jobs and partial files of `ChartDownloads` again, without the digest
  that says what a whole file is.  Next in the plan.
- **Flight recording, the fleet on the device, screen state**: coroutines over one user's
  files, table or screen.  They race (a late answer is written over what is open now; the
  last-aircraft guard tests the published list), with nothing in the code that an
  invariant could hold against the last writer winning.  Later in the plan.
- **Phases of flight, magnetic variation, weight and balance, chart tiling**: floating-point
  functions of their input.
- **Cycle arithmetic, freshness notices, version negotiation, CORS**: comparisons of a few
  values, which their unit tests cover point by point.
- **Proxy routes (weather, d-TPP, butterlog, NOTAM), the weather cache, the tile server**:
  one request in, one request out, with no state of their own, or a cache whose entries do
  not relate.
- **Bindings, decoders, data records, views, the web application, command lines,
  maintenance tools, examples and deployment scripts**: no state that outlives a call or a
  page beyond what the modules above have.
- Inside modelled parts: HTTP, zip and XML plumbing, character columns and sets, GDAL and
  pixels, great-circle geometry, the in-memory sessions of a server without a database,
  migrations of the schema, and everything whose only effect is a log line or a report.
