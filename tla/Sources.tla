------------------------------ MODULE Sources ------------------------------
(***************************************************************************)
(* The files a cycle is made of, as the parsers meet them: records come in *)
(* whatever order a file happens to have, repeated or missing.  A file     *)
(* grows by a record at a time, so every file over the given records is a  *)
(* state, and the properties say what the parsers make of it.              *)
(***************************************************************************)
EXTENDS Bundle, Dtpp, ChartPrep

CONSTANTS Records,      \* the records of each format
          Longest,      \* how many of them a file has at most
          Designators,  \* the designator inside a name
          MaxPages,
          PreviewWidth, \* of a shrunken scan
          SheetWidths   \* of what it may be a scan of

(* What is measured of a scan: columns are white or not, and the dark run  *)
(* of a row lies in the row.                                               *)
ASSUME ScansAreMeasured ==
    /\ PreviewWidth \in Nat \ {0} /\ SheetWidths \subseteq Nat \ {0}
    /\ Records["columns"] \subseteq BOOLEAN
    /\ \A run \in Records["rows"] \ {None} : \E a, b \in 1..PreviewWidth : a <= b /\ run = <<a, b>>

(* What is read of a metafile are tags and texts, and of a listing a page  *)
(* at least, which is something other than a refusal.                      *)
ASSUME FeedsAreReadable ==
    /\ MaxPages \in Nat \ {0}
    /\ None \notin [items : Seq(Records["items"]), total_pages : Nat]
    /\ None \notin WantedChartCodes
    /\ \A event \in Records["plates"] : event[1] = "text" => event = <<"text", event[2], event[3]>>

Snapshot == INSTANCE Aixm

Listing == INSTANCE OpenAip

VARIABLES format, contents

reading == <<format, contents>>

ReadingInit == format \in DOMAIN Records /\ contents = <<>>

ReadRecord ==
    /\ Len(contents) < Longest[format]
    /\ \E r \in Records[format] : contents' = Append(contents, r)
    /\ UNCHANGED format

ReadingNext == ReadRecord

ReadingSpec == ReadingInit /\ [][ReadingNext]_reading

OfFormat(f) == format = f

---------------------------------------------------------------------------
(* CIFP.                                                                   *)

Ends == FilterMap(contents, ExtractRunwayEnd)

Opposite(d, e) ==
    /\ d.num - e.num \in {18, -18}
    /\ <<d.sfx, e.sfx>> \in {<<"L", "R">>, <<"R", "L">>, <<"C", "C">>, <<"", "">>}

Mentions(runways, airport, d) ==
    Quantify(Places(runways), LAMBDA i : runways[i].airport = airport /\ d \in ToSet(runways[i].ident))

(* Every end of a runway that has a number is in exactly one runway of its *)
(* own airport, whose two ends face each other, the lower number first;    *)
(* and no two ends that face each other are left apart (pair_runway_ends). *)
EndsArePairedOff ==
    OfFormat("ends") =>
      LET runways == PairRunwayEnds(Ends)
          Single(i) == runways[i].ident[1] = runways[i].ident[2] IN
      /\ \A i \in Places(Ends) : Ends[i].ident.num # None =>
           Mentions(runways, Ends[i].airport, Ends[i].ident) =
             Quantify(Places(Ends), LAMBDA j : <<Ends[j].airport, Ends[j].ident>> = <<Ends[i].airport, Ends[i].ident>>)
      /\ \A i \in Places(runways) :
           \/ Single(i)
           \/ Opposite(runways[i].ident[1], runways[i].ident[2]) /\ runways[i].ident[1].num < runways[i].ident[2].num
      /\ \A i, j \in Places(runways) :
           ~(/\ Single(i) /\ Single(j) /\ runways[i].airport = runways[j].airport
             /\ Opposite(runways[i].ident[1], runways[j].ident[1]))

Rows == FilterMap(contents, ExtractProcedureLegRow)

Built == BuildProcedures(Rows, Designators)

LegOf(row) ==
    [seq |-> row.seq, fix |-> row.fix,
     altitude |-> AltitudeConstraint(row.altitude.desc, row.altitude.a1, row.altitude.a2)]

(* However often the key of a leg is repeated, the leg is there once and   *)
(* says what the first record of that key says: a transition's legs are    *)
(* the legs of the first records of its keys, neither more nor fewer, and  *)
(* they ascend.                                                            *)
LegsAreTheFirstOfTheirKey ==
    OfFormat("legs") =>
      LET Key(i) == <<Rows[i].airport, Rows[i].ident, Rows[i].transition, Rows[i].seq>>
          firsts == {i \in Places(Rows) : \A j \in 1..(i - 1) : Key(j) # Key(i)} IN
      /\ DOMAIN Built.legs = {TransitionId(Rows[i]) : i \in firsts}
      /\ \A t \in DOMAIN Built.legs :
           LET legs == Built.legs[t]
               own == {i \in firsts : TransitionId(Rows[i]) = t} IN
           /\ \A k \in 1..(Len(legs) - 1) : legs[k].seq <= legs[k + 1].seq
           /\ Len(legs) = Cardinality(own) /\ ToSet(legs) = {LegOf(Rows[i]) : i \in own}

(* A procedure names a runway only when all its runway transitions agree,  *)
(* so a departure of both parallels names neither.                         *)
RunwayOnlyWhenAllAgree ==
    OfFormat("legs") =>
      \A p \in DOMAIN Built.procedures : p[2] # "APPROACH" /\ Built.procedures[p] # None =>
        \A i \in Places(Rows) :
          ProcedureIdFor(Rows[i]) = p /\ Rows[i].transition \in DOMAIN Designators =>
            ExtractRunwayNumber(Designators[Rows[i].transition]) = Built.procedures[p]

(* Between two altitudes the lower one comes first, in whichever order the *)
(* record has them.                                                        *)
WindowsAreOrdered ==
    OfFormat("legs") =>
      \A t \in DOMAIN Built.legs : \A k \in Places(Built.legs[t]) :
        LET a == Built.legs[t][k].altitude IN
        a # None => (a[1] = "between" => a[2] <= a[3])

---------------------------------------------------------------------------
(* AIXM.                                                                   *)

(* The identity of a feature is its own: nothing inside a block of the     *)
(* organisation it belongs to becomes one of its fields.                   *)
FieldsAreTheFeaturesOwn ==
    OfFormat("elements") =>
      LET own == Snapshot!ReadFeature(contents, "AhpUid")
          paths == Snapshot!ReadFeaturePaths(contents) IN
      \A k \in DOMAIN own :
        \E p \in DOMAIN paths : p \in {<<k>>, <<"AhpUid", k>>} /\ paths[p] = own[k]

Linear(segs) ==
    /\ \A i, j \in Places(segs) : i # j => segs[i].from # segs[j].from /\ segs[i].to # segs[j].to
    /\ LET starts == {segs[i].from : i \in Places(segs)}
           ends == {segs[i].to : i \in Places(segs)}
       IN Cardinality(starts \ ends) = 1 /\ \A i \in Places(segs) : segs[i].from # segs[i].to

Chained(segs) == MapSeq(Snapshot!ChainFixes(segs), LAMBDA l : l.fix)

(* The segments of an airway that does not branch come out end to start in *)
(* whatever order the file has them, none left out (chain_fixes).          *)
LinearAirwaysAreWhole ==
    OfFormat("segments") /\ contents # <<>> /\ Linear(contents) =>
      LET chain == Chained(contents)
          Joined(a, b) == \E k \in 1..(Len(chain) - 1) : chain[k] = a /\ chain[k + 1] = b
          Cycle == \E S \in SUBSET Places(contents) \ {{}} : {contents[i].from : i \in S} = {contents[i].to : i \in S}
      IN Cycle \/ \A i \in Places(contents) : Joined(contents[i].from, contents[i].to)

(* Whatever a bag of segments has in it, branches, rings, gaps, an airway  *)
(* passes no fix twice and goes from fix to fix along a segment, at its    *)
(* altitude.                                                               *)
AirwaysRunAlongSegments ==
    OfFormat("segments") =>
      LET legs == Snapshot!ChainFixes(contents) IN
      /\ IsInjective(Chained(contents))
      /\ \A k \in 1..(Len(legs) - 1) :
           [from |-> legs[k].fix, to |-> legs[k + 1].fix, min |-> legs[k + 1].min] \in ToSet(contents)

---------------------------------------------------------------------------
(* NASR, plates, listings, scans.                                          *)

HalvesOf(rwy) == {rwy.id[1], rwy.id[2]}

(* With rows for both its ends a runway has the lower number's at its low  *)
(* end, whichever row the file has first.                                  *)
LowEndIsTheLower ==
    OfFormat("ends_nasr") =>
      LET rwy == [id |-> <<[num |-> 10, sfx |-> ""], [num |-> 28, sfx |-> ""]>>, length |-> 1, surface |-> <<>>]
          r == RunwayFromRows(rwy, contents, None) IN
      {contents[i].end : i \in {j \in Places(contents) : contents[j].rwy = rwy.id}} = HalvesOf(rwy) =>
        r.low.ident.num <= r.high.ident.num

(* The fields of one record never fill in for those of another: a plate's  *)
(* file and the procedure it is of stood in one and the same record.       *)
PlatesAreOfOneRecord ==
    OfFormat("plates") =>
      LET out == ParseDtppRecords(contents)
          Within(i, j) == i <= j /\ \A k \in i..j : contents[k][1] \notin {"record", "end"}
          Text(i, tag, v) == contents[i] = <<"text", tag, v>> IN
      \A n \in Places(out) :
        \E i, j \in Places(contents) :
          /\ Text(i, "pdf_name", out[n].pdf_name)
          /\ Text(j, "chart_code", out[n].chart_code)
          /\ Within(i, j) \/ Within(j, i)

PageOf(n) == [items |-> SubSeq(contents, (n - 1) * PageSize + 1, Min({n * PageSize, Len(contents)})),
              total_pages |-> (Len(contents) + PageSize - 1) \div PageSize]

(* A listing that stands still is read whole and in order, up to the       *)
(* limit of pages (fetch_all).                                             *)
ListingIsReadWhole ==
    OfFormat("items") =>
      LET reads[n \in 0..(MaxPages + 1)] ==
            IF n = 0 THEN Listing!FetchStart
            ELSE IF reads[n - 1].done THEN reads[n - 1]
            ELSE Listing!FetchPage(reads[n - 1], PageOf(reads[n - 1].page))
          read == reads[MaxPages + 1]
      IN read.done /\ read.all = SubSeq(contents, 1, Min({Len(contents), MaxPages * PageSize}))

(* Fields without an ICAO code keep rows of their own: no two items of a   *)
(* listing share a key unless the service gave both the same code, so the  *)
(* insert that ignores known airports drops neither.                       *)
UncodedFieldsStayApart ==
    OfFormat("items") =>
      LET rows == Listing!ConvertCountry([airports |-> contents, navaids |-> <<>>, airspaces |-> <<>>], "ED").airports IN
      \A i, j \in Places(rows) :
        i # j /\ rows[i].icao = rows[j].icao => \E k \in Places(contents) : contents[k].icao = rows[i].icao

(* Of a chart on a sheet of any width, seen in the preview as a run of     *)
(* content as wide as the search looks for, the cut takes half a column of *)
(* the sheet at most, which is what its rounding may.                      *)
CropKeepsTheChart ==
    OfFormat("columns") /\ contents # <<>> =>
      \A fw \in SheetWidths :
        LET w == Len(contents)
            window == CropLegendAndCollar(contents, fw) IN
        \A i \in 1..(w - Run + 1) :
          (\A j \in i..(i + Run - 1) : ~contents[j]) =>
            /\ 2 * window.left * w <= 2 * (i - 1) * fw + w
            /\ 2 * window.right * w >= 2 * (i + Run - 1) * fw - w

(* A frame that is found lies inside the window cut from the sheet, at any *)
(* scale of the preview, and the window inside the sheet.                  *)
FrameIsInsideTheCut ==
    OfFormat("rows") =>
      LET w == PreviewWidth
          box == DetectNeatline(contents, w) IN
      box # None =>
        \A fw \in SheetWidths :
          LET cut == ToSource(box.left, box.right, w, fw) IN
          /\ cut.left * w <= (box.left - 1) * fw /\ cut.right * w >= box.right * fw
          /\ 0 <= cut.left /\ cut.left < cut.right /\ cut.right <= fw
---------------------------------------------------------------------------
(* CIFP: a runway's ends find each other, a leg says what the first record *)
(* of its key says, a procedure has a runway only if it has one, a window  *)
(* its floor first (pair_runway_ends, build_procedures, extract.rs).       *)
CifpIsReadRight ==
    EndsArePairedOff /\ LegsAreTheFirstOfTheirKey /\ RunwayOnlyWhenAllAgree /\ WindowsAreOrdered

(* AIXM: a feature has its own fields and no other's, an airway only legs  *)
(* that are segments, and all of them where it does not branch (parser.rs, *)
(* chain_fixes).                                                           *)
AixmIsReadRight == FieldsAreTheFeaturesOwn /\ LinearAirwaysAreWhole /\ AirwaysRunAlongSegments

(* The smaller feeds: no row of one record, page, runway end or uncoded    *)
(* field is taken for, or lost to, another's (nasr, dtpp, openAIP).        *)
FeedsAreReadRight ==
    LowEndIsTheLower /\ PlatesAreOfOneRecord /\ ListingIsReadWhole /\ UncodedFieldsStayApart

(* The cut that takes legend and collar off a scanned sheet takes none of  *)
(* the chart, at the preview's scale or the sheet's (chart_prep.rs).       *)
CutKeepsTheChart == CropKeepsTheChart /\ FrameIsInsideTheCut
=============================================================================
