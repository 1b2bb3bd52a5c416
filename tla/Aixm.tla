-------------------------------- MODULE Aixm --------------------------------
(***************************************************************************)
(* What the parser of a national AIXM 4.5 snapshot makes of its features.  *)
(* The document is a sequence of events ("open", "text", "close"); behind  *)
(* the reader a feature is a function from field names, or paths, to text. *)
(* Lengths are whole metres or feet.                                       *)
(***************************************************************************)
EXTENDS Fields

Get(f, key) == IF key \in DOMAIN f THEN f[key] ELSE None

Lacks(f, keys) == \E k \in keys : Get(f, k) = None

---------------------------------------------------------------------------
(* Coordinates, in seconds of arc.  A raw coordinate is its degrees,       *)
(* minutes and seconds, how many digits the degrees were written with, and *)
(* whether the hemisphere letter is south or west.  Written with another   *)
(* number of digits than expected, it is read as one decimal number of     *)
(* degrees; a plain decimal has no minutes.                                *)

ParseCoord(c, deg_digits) ==
    IF c = None THEN None
    ELSE LET value == IF c.digits = deg_digits THEN c.deg * Degree + c.min * 60 + c.sec
                      ELSE IF c.digits = None THEN c.deg * Degree
                      ELSE (c.deg * 10000 + c.min * 100 + c.sec) * Degree IN
         IF c.negative THEN -value ELSE value

ParseLat(c) == ParseCoord(c, 2)

ParseLon(c) == ParseCoord(c, 3)

---------------------------------------------------------------------------
InAnyBlock(stack, uid) == Len(stack) \in {1, 2}

(* The streaming reader.  A text is a field of the feature when its        *)
(* element is a child of the feature, or of the feature's own identity     *)
(* block; the blocks of the features it refers to are passed over.         *)

InScope(stack, uid) == \/ Len(stack) = 1
                       \/ Len(stack) = 2 /\ stack[1] = uid

FirstWins(fields, key, text) ==
    IF key \in DOMAIN fields THEN fields
    ELSE [k \in DOMAIN fields \cup {key} |-> IF k = key THEN text ELSE fields[k]]

NoFields == [k \in {} |-> None]

ReadFeature(events, uid) ==
    LET Step(s, e) ==
          CASE e[1] = "open" -> [s EXCEPT !.stack = Append(@, e[2])]
            [] e[1] = "close" -> [s EXCEPT !.stack = IF @ = <<>> THEN @ ELSE Front(@)]
            [] e[1] = "text" /\ s.stack # <<>> /\ InScope(s.stack, uid) ->
                 [s EXCEPT !.fields = FirstWins(@, Last(s.stack), e[2])]
            [] OTHER -> s
    IN FoldLeft(Step, [stack |-> <<>>, fields |-> NoFields], events).fields

(* The same, keyed by the path of the element, attributes included.        *)
ReadFeaturePaths(events) ==
    LET Step(s, e) ==
          CASE e[1] = "open" -> [s EXCEPT !.stack = Append(@, e[2])]
            [] e[1] = "attr" -> [s EXCEPT !.fields = FirstWins(@, <<s.stack, e[2]>>, e[3])]
            [] e[1] = "close" -> [s EXCEPT !.stack = IF @ = <<>> THEN @ ELSE Front(@)]
            [] e[1] = "text" /\ s.stack # <<>> ->
                 [s EXCEPT !.fields = FirstWins(@, s.stack, e[2])]
            [] OTHER -> s
    IN FoldLeft(Step, [stack |-> <<>>, fields |-> NoFields], events).fields

---------------------------------------------------------------------------
(* Points, aids and airports: nothing without an identity and a position.  *)

ElevationFt(f) ==
    IF Get(f, "valElev") = None THEN None
    ELSE IF Get(f, "uomDistVer") = "M" THEN MetresInFeet(f["valElev"]) ELSE f["valElev"]

Lat(f) == ParseLat(Get(f, "geoLat"))

Lon(f) == ParseLon(Get(f, "geoLong"))

AirportFromFields(f) ==
    LET icao == Either(Get(f, "codeId"), Get(f, "codeIcao")) IN
    IF None \in {icao, Lat(f), Lon(f)} THEN {}
    ELSE {[icao |-> icao, faa_id |-> None, name |-> Get(f, "txtName"),
           lat |-> Lat(f), lon |-> Lon(f), elevation |-> Either(ElevationFt(f), 0),
           type |-> IF Get(f, "codeType") = "HP" THEN "Heliport" ELSE "Airport"]}

NavaidTypeOf == [Vor |-> "VOR", Ndb |-> "NDB", Dme |-> "DME", Tcn |-> "TACAN"]

(* In kHz; a frequency without a unit is told by its size.                 *)
FreqKhz(f) ==
    LET val == Get(f, "valFreq") IN
    LET unit == Get(f, "uomFreq") IN
    CASE val = None -> None
      [] val # None /\ unit = "KHZ" -> val
      [] val # None /\ unit = "MHZ" -> val * 1000
      [] OTHER -> IF val < 100 THEN val * 1000 ELSE val

NavaidFromFields(tag, f, region) ==
    IF None \in {Get(f, "codeId"), Lat(f), Lon(f)} THEN {}
    ELSE {[ident |-> f["codeId"], type |-> NavaidTypeOf[tag], lat |-> Lat(f), lon |-> Lon(f),
           freq_khz |-> FreqKhz(f), region |-> region]}

WaypointFromFields(f, region) ==
    IF None \in {Get(f, "codeId"), Lat(f), Lon(f)} THEN {}
    ELSE {[ident |-> f["codeId"], lat |-> Lat(f), lon |-> Lon(f), region |-> region]}

---------------------------------------------------------------------------
(* Runways: two kinds of feature, joined by airport and designator, which  *)
(* is the pair of its halves.                                              *)

SurfaceOf(code) ==
    CASE code \in {"ASPH", "BITUM", "TARMAC"} -> "Asphalt"
      [] code = "CONC" -> "Concrete"
      [] code = "GRASS" -> "Turf"
      [] code \in {"GRAVE", "GVL"} -> "Gravel"
      [] code = "WATER" -> "Water"
      [] OTHER -> "Other"

DimFt(f, key) ==
    LET val == Either(Get(f, key), 0) IN
    IF Get(f, <<"uomDimRwy">>) = "FT" THEN val ELSE MetresInFeet(val)

RwyAirport == <<"RwyUid", "AhpUid", "codeId">>

RwyDesig == <<"RwyUid", "txtDesig">>

RwyRaw(f) ==
    IF Lacks(f, {RwyAirport, RwyDesig}) THEN {}
    ELSE {[airport |-> f[RwyAirport], designator |-> f[RwyDesig],
           length |-> DimFt(f, <<"valLen">>), surface |-> SurfaceOf(Get(f, <<"codeComposition">>))]}

Under(uid, path) == <<uid>> \o path

RdnRaw(f) ==
    LET lat == ParseLat(Get(f, <<"geoLat">>)) IN
    LET lon == ParseLon(Get(f, <<"geoLong">>)) IN
    IF Lacks(f, {Under("RdnUid", RwyAirport), Under("RdnUid", RwyDesig), <<"RdnUid", "txtDesig">>})
    THEN {}
    ELSE {[airport |-> f[Under("RdnUid", RwyAirport)], runway |-> f[Under("RdnUid", RwyDesig)],
           dir |-> f[<<"RdnUid", "txtDesig">>], heading |-> Either(Get(f, <<"valTrueBrg">>), 0),
           pos |-> IF None \in {lat, lon} THEN <<0, 0>> ELSE <<lat, lon>>]}

(* The first direction with the name of the half; without one, its name.   *)
MakeEnd(dirs, half) ==
    LET own == SelectSeq(dirs, LAMBDA d : d.dir = half) IN
    IF own = <<>> THEN [ident |-> half, pos |-> <<0, 0>>, heading |-> 0]
    ELSE [ident |-> half, pos |-> own[1].pos, heading |-> own[1].heading]

AssembleRunways(rwys, rdns) ==
    LET Dirs(r) == SelectSeq(rdns, LAMBDA d : d.airport = r.airport /\ d.runway = r.designator)
    IN MapSeq(rwys, LAMBDA r :
         [airport |-> r.airport, ident |-> r.designator, length |-> r.length, surface |-> r.surface,
          low |-> MakeEnd(Dirs(r), r.designator[1]), high |-> MakeEnd(Dirs(r), r.designator[2])])

---------------------------------------------------------------------------
(* Airways: segments chained end to start.                                 *)

FlToFt(val, unit) ==
    CASE val # None /\ unit = "FL" -> val * 100
      [] val # None /\ unit = "FT" -> val
      [] OTHER -> None

(* An end of a segment is a fix of any kind, in its role at the end.       *)
RoleFix(f, role) ==
    LET paths == {k \in DOMAIN f : /\ Len(k) = 3 /\ k[1] = "RsgUid" /\ k[3] = "codeId"
                                   /\ k[2] \in {"VorUid" \o role, "DpnUid" \o role}} IN
    IF paths = {} THEN None ELSE f[CHOOSE k \in paths : TRUE]

RteRaw(f) == IF Lacks(f, {<<"RteUid", "txtDesig">>}) THEN {} ELSE {f[<<"RteUid", "txtDesig">>]}

RsgRaw(f) ==
    IF Lacks(f, {<<"RsgUid", "RteUid", "txtDesig">>}) \/ None \in {RoleFix(f, "Sta"), RoleFix(f, "End")}
    THEN {}
    ELSE {[airway |-> f[<<"RsgUid", "RteUid", "txtDesig">>],
           from |-> RoleFix(f, "Sta"), to |-> RoleFix(f, "End"),
           min |-> FlToFt(Get(f, <<"valDistVerLower">>), Get(f, <<"uomDistVerLower">>)),
           upper |-> Get(f, <<"codeLvl">>) = "U", rnav |-> Get(f, <<"codeType">>) = "RNAV"]}

AirwayKind(rnav, upper) ==
    IF rnav THEN IF upper THEN "RNAV_HIGH" ELSE "RNAV_LOW"
            ELSE IF upper THEN "JET" ELSE "VICTOR"

ChainFixesInFileOrder(segs) ==
    IF segs = <<>> THEN <<>>
    ELSE <<[fix |-> segs[1].from, min |-> None]>> \o MapSeq(segs, LAMBDA s : [fix |-> s.to, min |-> s.min])

NeverPassed(legs, fix) == FALSE

(* A fix that is on the way already.                                       *)
Passed(legs, fix) == \E k \in Places(legs) : legs[k].fix = fix

(* From the lowest fix nothing leads to, each step takes the first unused  *)
(* segment out of the current fix and stops at a fix already on the way.   *)
(* Fixes are numbers, in the order of their names.                         *)
ChainFixes(segs) ==
    IF segs = <<>> THEN <<>>
    ELSE
    LET starts == {segs[i].from : i \in 1..Len(segs)}
        ends == {segs[i].to : i \in 1..Len(segs)}
        heads == IF starts \ ends # {} THEN starts \ ends ELSE starts
        head == Min(heads)
        Out(s) == {i \in 1..Len(segs) : i \notin s.used /\ segs[i].from = s.at}
        Step(s, n) ==
          IF s.done \/ Out(s) = {} THEN [s EXCEPT !.done = TRUE]
          ELSE LET i == Min(Out(s)) IN
               IF Passed(s.legs, segs[i].to) THEN [s EXCEPT !.done = TRUE]
               ELSE [legs |-> Append(s.legs, [fix |-> segs[i].to, min |-> segs[i].min]),
                     at |-> segs[i].to, used |-> s.used \cup {i}, done |-> FALSE]
    IN FoldLeft(Step, [legs |-> <<[fix |-> head, min |-> None]>>, at |-> head,
                       used |-> {}, done |-> FALSE],
                [n \in 1..Len(segs) |-> n]).legs

AssembleAirways(rtes, rsgs) ==
    LET idents == ToSet(rtes) \cup {rsgs[i].airway : i \in 1..Len(rsgs)}
        Segs(a) == SelectSeq(rsgs, LAMBDA s : s.airway = a)
        Kind(segs) == IF segs = <<>> THEN "OTHER"
                      ELSE AirwayKind(\A i \in 1..Len(segs) : segs[i].rnav,
                                      \E i \in 1..Len(segs) : segs[i].upper)
    IN [a \in idents |-> [kind |-> Kind(Segs(a)), legs |-> ChainFixes(Segs(a))]]

---------------------------------------------------------------------------
(* Airspace: what is known of a volume, joined to its border by mid.       *)

AirspaceClass(type, class) ==
    CASE type \in {"R", "TRA"} -> "Restricted"
      [] type \in {"P", "UIR-P"} -> "Prohibited"
      [] type \in {"D", "D-OTHER"} -> "Warning"
      [] type \in {"TMA", "CTR", "CTA"} /\ class \in {"B", "C", "D", "E", "G"} -> class
      [] OTHER -> None

LimitNames == [upper |-> <<<<"codeDistVerUpper">>, <<"valDistVerUpper">>, <<"uomDistVerUpper">>>>,
               lower |-> <<<<"codeDistVerLower">>, <<"valDistVerLower">>, <<"uomDistVerLower">>>>]

AltitudeLimit(f, names) ==
    LET code == Get(f, names[1]) IN
    LET v == Either(Get(f, names[2]), 0) IN
    LET ft == NonNegative(IF Get(f, names[3]) = "M" THEN MetresInFeet(v) ELSE v) IN
    CASE code = "SFC" -> <<"SFC", 0>>
      [] code = "UNL" -> <<"UNL", 0>>
      [] code = "STD" -> <<"FL", NonNegative(v)>>
      [] code = "HEI" -> <<"AGL", ft>>
      [] OTHER -> <<"MSL", ft>>

AseRaw(f) ==
    LET mid == <<<<"AseUid">>, "mid">> IN
    IF Lacks(f, {mid, <<"AseUid", "codeType">>}) THEN {}
    ELSE {[id |-> f[mid], class |-> AirspaceClass(f[<<"AseUid", "codeType">>], Get(f, <<"codeClass">>)),
           floor |-> AltitudeLimit(f, LimitNames.lower),
           ceiling |-> AltitudeLimit(f, LimitNames.upper)]}

(* Of a border: the first airspace it names, every vertex, the last circle. *)
ReadAbd(items) ==
    LET Step(s, it) ==
          CASE it[1] = "Avx" -> [s EXCEPT !.vertices = Append(@, it[2])]
            [] it[1] = "Circle" -> [s EXCEPT !.circle = it[2]]
            [] it[1] = "AseUid" /\ s.airspace = None -> [s EXCEPT !.airspace = it[2]]
            [] OTHER -> s
    IN FoldLeft(Step, [airspace |-> None, vertices |-> <<>>, circle |-> None], items)

(* The vertices with a position; one that ends an arc stands with the      *)
(* points of the arc to it when there is somewhere to start and a centre.  *)
BuildPolygon(abd) ==
    LET Step(s, v) ==
          IF None \in {Lat(v), Lon(v)} THEN s
          ELSE LET p == <<Lat(v), Lon(v)>>
                   centre == {Get(v, "geoLatArc"), Get(v, "geoLongArc")}
                   arc == Get(v, "codeType") \in {"CWA", "CCA"} /\ s.prev # None /\ None \notin centre
               IN [prev |-> p,
                   points |-> s.points \o
                     IF arc THEN <<<<"arc", s.prev, p, v["codeType"]>>, p>> ELSE <<p>>]
        points == FoldLeft(Step, [prev |-> None, points |-> <<>>], abd.vertices).points
    IN CASE abd.circle # None /\ Lacks(abd.circle, {"geoLatCen", "geoLongCen", "valRadius"}) -> None
         [] abd.circle # None /\ ~Lacks(abd.circle, {"geoLatCen", "geoLongCen", "valRadius"}) ->
              <<<<"circle", abd.circle>>>>
         [] OTHER -> IF Len(points) >= 3 THEN points ELSE None

(* The first border of an airspace counts.                                 *)
AssembleAirspaces(ases, abds) ==
    LET Border(a) == SelectSeq(abds, LAMBDA b : b.airspace = a.id)
        Volume(a) == IF a.class = None \/ Border(a) = <<>> THEN {}
                     ELSE IF BuildPolygon(Border(a)[1]) = None THEN {}
                     ELSE {[id |-> a.id, class |-> a.class, floor |-> a.floor, ceiling |-> a.ceiling,
                            boundary |-> BuildPolygon(Border(a)[1])]}
    IN FilterMap(ases, Volume)

---------------------------------------------------------------------------
(* A document: features in any order, each read as its tag asks, and the   *)
(* joins made when the last one has been read.  None for a document that   *)
(* breaks off in the middle of its markup.                                 *)

NavaidTags == {"Vor", "Ndb", "Dme", "Tcn"}

ParseSnapshot(doc, region) ==
    LET Of(tag) == Where(doc.features, LAMBDA f : f.tag = tag)
        Paths(f) == ReadFeaturePaths(f.body)
        Navaid(f) == NavaidFromFields(f.tag, ReadFeature(f.body, f.tag \o "Uid"), region)
        Raws(tag, Raw(_)) == FilterMap(Of(tag), LAMBDA f : Raw(Paths(f)))
    IN IF ~doc.whole THEN None
       ELSE [effective |-> doc.effective,
             airports |-> FilterMap(Of("Ahp"), LAMBDA f : AirportFromFields(ReadFeature(f.body, "AhpUid"))),
             navaids |-> FilterMap(SelectSeq(doc.features, LAMBDA f : f.tag \in NavaidTags), Navaid),
             waypoints |-> FilterMap(Of("Dpn"), LAMBDA f :
                             WaypointFromFields(ReadFeature(f.body, "DpnUid"), region)),
             runways |-> AssembleRunways(Raws("Rwy", RwyRaw), Raws("Rdn", RdnRaw)),
             airways |-> AssembleAirways(Raws("Rte", RteRaw), Raws("Rsg", RsgRaw)),
             airspaces |-> AssembleAirspaces(Raws("Ase", AseRaw), MapSeq(Of("Abd"), LAMBDA f : ReadAbd(f.body)))]
---------------------------------------------------------------------------
(* The step of the pipeline.  A file is a document or a zip of named       *)
(* entries, of which the first that is AIXM is read; None is a file that   *)
(* cannot be opened.                                                       *)

ReadAixmBytes(file) ==
    CASE file = None -> None
      [] file # None /\ ~file.zip -> file.doc
      [] OTHER -> LET named == {i \in Places(file.entries) : file.entries[i].aixm} IN
                  IF named = {} THEN None ELSE file.entries[Min(named)].doc

Plausible(lat, lon) ==
    /\ -90 * Degree <= lat /\ lat <= 90 * Degree
    /\ -180 * Degree <= lon /\ lon <= 180 * Degree
    /\ <<lat, lon>> # <<0, 0>>

(* One airport in an impossible place does not cost the cycle.             *)
LoadAixm(file, region) ==
    LET doc == ReadAixmBytes(file)
        data == IF doc = None THEN None ELSE ParseSnapshot(doc, region)
    IN IF data = None THEN None
       ELSE [data EXCEPT !.airports = Where(@, LAMBDA a : Plausible(a.lat, a.lon))]
=============================================================================
