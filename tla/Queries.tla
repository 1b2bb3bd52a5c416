------------------------------ MODULE Queries ------------------------------
(***************************************************************************)
(* One bundle read by its two readers: the server's data routes, for the   *)
(* web, and the device's own queries.  The bundle grows by a row at a time *)
(* in each table a screen is drawn from, so every small bundle is a state. *)
(***************************************************************************)
EXTENDS DataRoutes

CONSTANTS Base,         \* the rows that are there from the start, for each screen
          Rows,         \* the rows that may come, by table
          Largest,      \* how many of them come at most
          Boxes,        \* viewports, some across the antimeridian
          Caps,         \* how many airports or airspaces the device asks for
          Typed         \* what is typed into the search field

Device == INSTANCE DeviceQueries

(* What a bundle has in its tables.  Identifiers are upper-case and have   *)
(* no blanks; latitudes and longitudes are whole degrees.                  *)
Optional(S) == S \cup {None}

Text == Seq(Int)

Ident == {s \in Seq((1..99) \ {Underscore}) : s # <<>>}

Longitude == -180..180

View == [west : Longitude, south : Int, east : Longitude, north : Int]

Extent == {b \in View : b.south <= b.north /\ b.west <= b.east}

Fix == [ident : Ident, lat : Int, lon : Longitude]

Schema ==
    [airport |-> [icao : Ident, faa_id : Optional(Ident), iata : Optional(Ident), name : Text,
                  lat : Int, lon : Longitude, type : STRING],
     runway |-> [airport : Ident, ident : Ident, le_ident : Ident, he_ident : Ident,
                 le : Int \X Int, he : Int \X Int],
     frequency |-> [airport : Ident, kind : STRING, khz : Int, remark : Optional(Text)],
     procedure |-> [id : Nat, airport : Ident, kind : Int, ident : Text],
     transition |-> [id : Nat, procedure : Nat, kind : Int, ident : Text],
     leg |-> [transition : Nat, seq : Int, fix : Optional(Ident)],
     navaid |-> Fix,
     waypoint |-> Fix,
     airway |-> [ident : Ident, legs : Seq(Ident)],
     airspace |-> [id : Nat, class : STRING, name : Text, box : Extent],
     chart |-> [id : Nat, kind : Int, name : Text, box : Extent],
     dtpp |-> [airport : Ident, procedure_ident : Text, chart_name : Text, pdf_url : Int],
     preferred |-> [source : STRING, orig : Ident, dest : Ident]]

(* Primary keys of the schema.                                             *)
Keyed == {"airport", "airspace", "procedure", "transition"}

KeyOf(t, r) == IF t = "airport" THEN r.icao ELSE r.id

IsBundle(d) ==
    \A t \in DOMAIN Schema :
      /\ t \in DOMAIN d /\ d[t] \in Seq(Schema[t])
      /\ t \in Keyed => \A i, j \in Places(d[t]) : KeyOf(t, d[t][i]) = KeyOf(t, d[t][j]) => i = j

ASSUME NoneIsNoRow == None \notin Text /\ None \notin View /\ \A t \in DOMAIN Schema : None \notin Schema[t]

ASSUME RowsAreOfTheSchema ==
    \A s \in DOMAIN Base :
      /\ IsBundle(Base[s])
      /\ \A t \in DOMAIN Rows[s] : t \in DOMAIN Schema /\ Rows[s][t] \subseteq Schema[t]

(* A viewport that does not cross the antimeridian ends short of it, or    *)
(* starts on it too: a place on it has two longitudes, and BETWEEN finds   *)
(* the one that is stored.                                                 *)
ASSUME BoxesAreViews ==
    \A box \in Boxes : box \in View /\ (box.west <= box.east => box.east < 180 \/ box.west = -180)

ASSUME CapsArePositive == Caps \subseteq Nat /\ {SearchCap, IdentCap, PerTable} \subseteq Nat \ {0}

VARIABLES screen, db

vars == <<screen, db>>

Init == screen \in DOMAIN Base /\ db = Base[screen]

Size(d) == MapThenSumSet(LAMBDA t : Len(d[t]), DOMAIN Rows[screen])

InsertRow ==
    /\ Size(db) < Size(Base[screen]) + Largest[screen]
    /\ \E t \in DOMAIN Rows[screen] : \E r \in Rows[screen][t] :
         /\ t \in Keyed => \A i \in Places(db[t]) : KeyOf(t, db[t][i]) # KeyOf(t, r)
         /\ db' = [db EXCEPT ![t] = Append(@, r)]
    /\ UNCHANGED screen

Next == InsertRow

Spec == Init /\ [][Next]_vars

---------------------------------------------------------------------------
(* The map.                                                                *)

FullCircle == 360

InView(box, lat, lon) ==
    LET east == IF box.east < box.west THEN box.east + FullCircle ELSE box.east IN
    /\ box.south <= lat /\ lat <= box.north
    /\ \E turn \in {0, FullCircle} : box.west <= lon + turn /\ lon + turn <= east

CornerInView(box, v) ==
    \E lat \in {v.box.south, v.box.north}, lon \in {v.box.west, v.box.east} : InView(box, lat, lon)

PartsOf(box) == <<box.west, box.south, box.east, box.north>>

(* A viewport shows nothing outside it and as much of what is inside as it *)
(* may, on either side of the antimeridian; what is cut is never an        *)
(* airport with procedures for one without, nor a prohibited area for a    *)
(* wide one.  Where the viewport does not cross, the web shows the same,   *)
(* with the same charts and credits.                                       *)
MapsShowTheView ==
    screen = "map" => \A box \in Boxes :
      LET inside == {a \in ToSet(db.airport) : InView(box, a.lat, a.lon)}
          touched == {v \in ToSet(db.airspace) : CornerInView(box, v)} IN
      /\ \A n \in Caps :
           LET fields == ToSet(Device!AirportsInBbox(db, box, n))
               volumes == ToSet(Device!AirspaceInBbox(db, box, n)) IN
           /\ fields \subseteq inside /\ Cardinality(fields) = Min({n, Cardinality(inside)})
           /\ \A cut \in inside \ fields, kept \in fields :
                Device!HasProcedures(db, cut) => Device!HasProcedures(db, kept)
           /\ \A cut \in touched \ volumes :
                /\ Cardinality(volumes) = n
                /\ \A kept \in volumes : cut.class = "PROHIBITED" => kept.class # "E"
      /\ box.west <= box.east =>
           /\ ToSet(Airports(db, PartsOf(box))) = inside
           /\ ToSet(Airspace(db, PartsOf(box))) = ToSet(Device!AirspaceInBbox(db, box, Len(db.airspace)))
           /\ ToSet(Charts(db, PartsOf(box))) = {c \in ToSet(Device!Charts(db)) : Overlaps(box, c)}
      /\ Attributions(db) = Device!Attributions(db)

---------------------------------------------------------------------------
(* A procedure.                                                            *)

OwnEnds(icao, ident) ==
    {r.le : r \in {x \in ToSet(db.runway) : x.airport = icao /\ ident = RW \o x.le_ident}}
      \cup {r.he : r \in {x \in ToSet(db.runway) : x.airport = icao /\ ident = RW \o x.he_ident}}

FixesOf(rows, ident) == {<<r.lat, r.lon>> : r \in {x \in ToSet(rows) : x.ident = ident}}

(* What a leg of a procedure may mean by a name: waypoints, or else        *)
(* navaids, or else an end of a runway of the procedure's own airport.     *)
Meant(icao, ident) ==
    CASE FixesOf(db.waypoint, ident) # {} -> FixesOf(db.waypoint, ident)
      [] FixesOf(db.waypoint, ident) = {} /\ FixesOf(db.navaid, ident) # {} -> FixesOf(db.navaid, ident)
      [] OTHER -> OwnEnds(icao, ident)

(* The two readers draw the same line: each leg of a procedure at one and  *)
(* the same point, which is one that its name may mean, and at none only   *)
(* where the bundle has nothing of that name.                              *)
ProceduresAreDrawnAlike ==
    screen = "procedure" => \A p \in ToSet(db.procedure) :
      LET web == ProcedureDetail(db, p.id)
          app == Device!ProcedureDetail(db, p.id) IN
      /\ web.chart = app.chart /\ AirportProcedures(db, p.airport) = Device!AirportProcedures(db, p.airport)
      /\ Len(web.transitions) = Len(app.transitions)
      /\ \A t \in Places(app.transitions) :
           LET legs == app.transitions[t].legs IN
           /\ MapSeq(legs, LAMBDA l : l.fix) = MapSeq(web.transitions[t].legs, LAMBDA l : l.fix)
           /\ \A k \in Places(legs) : legs[k].fix # None =>
                LET drawn == legs[k].at
                    f == legs[k].fix IN
                /\ drawn = IF f \in DOMAIN web.fixes THEN web.fixes[f] ELSE None
                /\ IF Meant(p.airport, f) = {} THEN drawn = None ELSE drawn \in Meant(p.airport, f)

---------------------------------------------------------------------------
(* An airport.                                                             *)

Of(t, a) == {r \in ToSet(db[t]) : r.airport = a.icao}

(* Either page of an airport is that airport's, with its own runways, all  *)
(* of them.  The web lists its frequencies as they are, and links one of   *)
(* its diagrams if it has any.  The device lists each frequency once,      *)
(* drops no remark, and gives it a kind that a record gives it and none of *)
(* them betters; its list of plates has each file of the airport once, the *)
(* diagram's among them.  Its link to a diagram is not in this: it looks   *)
(* for an ident that is never written (AirportDiagramIdent).               *)
AirportPageIsComplete ==
    screen = "airport" => \A a \in ToSet(db.airport) :
      LET web == AirportDetail(db, a.icao)
          app == Device!AirportDetail(db, a.icao)
          diagrams == {c \in Of("dtpp", a) : c.procedure_ident = AirportDiagramIdent}
          plates == Device!AirportPlates(db, a.icao) IN
      /\ web.airport = a /\ app.airport = a
      /\ web.runways = app.runways /\ ToSet(app.runways) = Of("runway", a)
      /\ ToSet(web.frequencies) = Of("frequency", a)
      /\ IF diagrams = {} THEN web.diagram = None ELSE web.diagram \in diagrams
      /\ IsInjective(MapSeq(app.frequencies, LAMBDA g : g.khz))
      /\ \A f \in Of("frequency", a) : \E g \in ToSet(app.frequencies) :
           /\ g.khz = f.khz /\ (f.remark # None => f.remark \in ToSet(g.remarks))
           /\ Device!RankOf(g.kind) <= Device!RankOf(f.kind)
      /\ \A g \in ToSet(app.frequencies) : \E f \in Of("frequency", a) : f.khz = g.khz /\ f.kind = g.kind
      /\ IsInjective(MapSeq(plates, LAMBDA c : c.pdf_url))
      /\ {c.pdf_url : c \in ToSet(plates)} = {c.pdf_url : c \in Of("dtpp", a)}

---------------------------------------------------------------------------
(* Search.                                                                 *)

(* In the route builder each answer leads on to the next: a fix typed in   *)
(* full is among the hits, and leads those of the device however few it    *)
(* asks for; an airway that is hit opens, each fix of it that the bundle   *)
(* has is placed, and a tap on that place finds a fix that is there.       *)
(* Filed routes are all those between the two airports, the preferred ones *)
(* first.                                                                  *)
HitsLeadOn ==
    screen = "route" =>
      /\ \A q \in Typed, f \in ToSet(db.waypoint) \cup ToSet(db.navaid) :
           f.ident = Tidy(q) =>
             /\ \E h \in ToSet(SearchIdents(db, q)) : h.ident = f.ident
             /\ \A n \in Caps : LET hits == Device!Search(db, q, n) IN hits # <<>> /\ hits[1].ident = f.ident
      /\ \A q \in Typed : \A h \in ToSet(SearchIdents(db, q)) : h.kind = 3 =>
           LET a == AirwayDetail(db, h.ident) IN
           /\ a.ident = h.ident /\ [ident |-> a.ident, legs |-> a.legs] \in ToSet(db.airway)
           /\ \A f \in ToSet(db.waypoint) \cup ToSet(db.navaid) :
                f.ident \in ToSet(a.legs) => f.ident \in DOMAIN a.fixes
           /\ \A i \in DOMAIN a.fixes :
                LET tapped == NearestFix(db, a.fixes[i][1], a.fixes[i][2]) IN
                tapped # None /\ <<tapped.lat, tapped.lon>> = a.fixes[i]
      /\ \A a, b \in ToSet(db.airport) :
           LET routes == PreferredRoutes(db, a.icao, b.icao) IN
           /\ ToSet(routes) = {r \in ToSet(db.preferred) : r.orig = a.icao /\ r.dest = b.icao}
           /\ \A j \in Places(routes) : routes[j].source = "PFR" => \A i \in 1..j : routes[i].source = "PFR"

(* An airport whose identifier is typed in full leads the hits on the web, *)
(* however many others match and however few hits are wanted.  The device  *)
(* cuts the airports to its limit first, and no such thing holds there.    *)
TypedIdentLeads ==
    screen = "search" => \A q \in Typed :
      (\E a \in ToSet(db.airport) : a.icao = Tidy(q)) => Search(db, q) # <<>> /\ Search(db, q)[1].icao = Tidy(q)

---------------------------------------------------------------------------
(* A procedure is drawn to what its names may mean, by both readers alike, *)
(* and the page of an airport has its field and all its runways on both,   *)
(* its frequencies and diagram on the web, its collapsed frequencies and   *)
(* its plates on the device, and nothing of another airport.               *)
PagesAreComplete == ProceduresAreDrawnAlike /\ AirportPageIsComplete

(* What is typed is found, and what is found can be opened and placed: an  *)
(* airport on the web, a fix on the web and on the device, an airway.      *)
SearchLeadsOn == HitsLeadOn /\ TypedIdentLeads
=============================================================================
