-------------------------------- MODULE Dtpp --------------------------------
(***************************************************************************)
(* Plates of the FAA's d-TPP metafile, matched to the procedures of the    *)
(* bundle being built.  A chart name is the words before its "RWY", with   *)
(* a kind of approach such as "RNAV (GPS)" one word, the runway, and the   *)
(* letter of a circling chart; an approach ident is its letter prefix and  *)
(* its suffix letter.                                                      *)
(***************************************************************************)
EXTENDS Fields

CONSTANT AirportDiagramIdent   \* the ident of an airport diagram, AIRPORT_DIAGRAM

Letters == {"A", "B", "W", "X", "Y", "Z"}

---------------------------------------------------------------------------
(* The metafile, read as events.  A record belongs to the airport opened   *)
(* last, and has the last text of each of its tags.                        *)

WantedChartCodes == {"DP", "ODP", "STR", "IAP", "APD"}

NoRecord == [chart_code |-> None, chart_name |-> None, pdf_name |-> None, faanfd18 |-> <<>>]

(* The reader before each event; Opened is what a start tag makes of the   *)
(* record before it.                                                       *)
ReadersOf(events, Opened(_)) ==
    LET Read(s, e) ==
          CASE e[1] = "airport" -> [s EXCEPT !.icao = e[2]]
            [] e[1] = "record" -> [s EXCEPT !.open = TRUE, !.rec = Opened(@)]
            [] e[1] = "text" /\ s.open -> [s EXCEPT !.rec[e[2]] = e[3]]
            [] e[1] = "end" -> [s EXCEPT !.open = FALSE]
            [] OTHER -> s
        readers[i \in 1..(Len(events) + 1)] ==
          IF i = 1 THEN [icao |-> None, open |-> FALSE, rec |-> NoRecord] ELSE Read(readers[i - 1], events[i - 1])
    IN readers

(* What is in the reader when a record ends.                               *)
RecordsOf(events, readers) ==
    LET Ended(i) ==
          LET s == readers[i] IN
          IF /\ events[i][1] = "end"
             /\ s.icao # None /\ s.rec.pdf_name # None
             /\ s.rec.chart_code \in WantedChartCodes
          THEN {[icao |-> s.icao, chart_code |-> s.rec.chart_code, chart_name |-> s.rec.chart_name,
                 pdf_name |-> s.rec.pdf_name, faanfd18 |-> s.rec.faanfd18]} ELSE {}
    IN FilterMap([i \in Places(events) |-> i], Ended)

ParseDtppRecordsUncleared(events) == RecordsOf(events, ReadersOf(events, LAMBDA rec : rec))

ParseDtppRecords(events) == RecordsOf(events, ReadersOf(events, LAMBDA rec : NoRecord))

---------------------------------------------------------------------------
(* Approaches have no name in common with their plates: they meet in type, *)
(* runway and suffix.                                                      *)

ApproachTypeTable ==
    "I" :> {"ILS"} @@ "L" :> {"LOC", "LOC/DME"} @@ "LOC" :> {"LOC", "LOC/DME"}
      @@ "B" :> {"LOC BC", "LOC/BC"} @@ "LBC" :> {"LOC BC", "LOC/BC"}
      @@ "R" :> {"RNAV (GPS)", "RNAV (RNP)"} @@ "RNV" :> {"RNAV (GPS)", "RNAV (RNP)"}
      @@ "RNVA" :> {"RNAV (GPS)", "RNAV (RNP)"} @@ "V" :> {"VOR"} @@ "VOR" :> {"VOR"}
      @@ "D" :> {"VOR/DME"} @@ "VDM" :> {"VOR/DME"} @@ "N" :> {"NDB"} @@ "NDB" :> {"NDB"}
      @@ "Q" :> {"NDB/DME"} @@ "T" :> {"TACAN"}
      @@ "H" :> {"HI-TACAN", "HI-ILS", "HI-LOC", "COPTER"} @@ "X" :> {"LDA"} @@ "LDA" :> {"LDA"}
      @@ "G" :> {"GLS", "IGS"} @@ "P" :> {"GPS"} @@ "GPS" :> {"GPS"}

(* Each alternative of a name may carry the suffix.                        *)
Alternatives(words) ==
    LET Step(acc, w) == IF w = "OR" THEN Append(acc, <<>>)
                        ELSE [acc EXCEPT ![Len(acc)] = Append(@, w)]
        Bare(phrase) == IF Len(phrase) > 1 /\ Last(phrase) \in Letters THEN Front(phrase) ELSE phrase
    IN {Bare(p) : p \in ToSet(FoldLeft(Step, <<<<>>>>, words))}

(* The suffix of a chart for a runway is in its type, that of a circling   *)
(* chart behind a dash.                                                    *)
ParseChartName(name) ==
    LET last == IF name.type = <<>> THEN None ELSE Last(name.type) IN
    [phrases |-> {p[1] : p \in {q \in Alternatives(name.type) : Len(q) = 1}},
     runway |-> name.runway,
     suffix |-> CASE name.runway = None -> name.circling
                  [] name.runway # None /\ last \in Letters -> last
                  [] OTHER -> None]

CandidatePrefixes(phrases) ==
    {x \in DOMAIN ApproachTypeTable : ApproachTypeTable[x] \cap phrases # {}}

ParseApproachIdent(ident) == [prefix |-> ident.prefix, suffix |-> ident.suffix]

(* Departures are published as ident.transition, arrivals the other way    *)
(* round.  The first procedure that fits is taken.                         *)
Fits(r, p) ==
    CASE r.chart_code \in {"DP", "ODP"} ->
           p.kind = "SID" /\ r.faanfd18 # <<>> /\ p.ident = r.faanfd18[1]
      [] r.chart_code = "STR" ->
           p.kind = "STAR" /\ r.faanfd18 # <<>> /\ p.ident = Last(r.faanfd18)
      [] r.chart_code = "IAP" ->
           LET chart == ParseChartName(r.chart_name) IN
           /\ p.kind = "APPROACH"
           /\ p.runway = chart.runway
           /\ ParseApproachIdent(p.ident).prefix \in CandidatePrefixes(chart.phrases)
           /\ ParseApproachIdent(p.ident).suffix = chart.suffix
      [] OTHER -> FALSE

MatchRecord(r, procedures) == Where(procedures, LAMBDA p : Fits(r, p))

IsAirportDiagramInBundle(r, icaos) == r.chart_code = "APD" /\ r.icao \in icaos

(* A diagram belongs to the airport, which need have no procedures.        *)
MatchDtppCharts(events, procedures, icaos, cycle) ==
    LET Of(icao) == Where(procedures, LAMBDA p : p.airport = icao)
        Row(r, ident) == [airport |-> r.icao, procedure |-> ident, pdf |-> r.pdf_name, cycle |-> cycle]
        Match(r) ==
          CASE r.chart_code = "APD" ->
                 IF IsAirportDiagramInBundle(r, icaos) THEN {Row(r, AirportDiagramIdent)} ELSE {}
            [] r.chart_code # "APD" ->
                 LET fits == MatchRecord(r, Of(r.icao)) IN
                 IF fits = <<>> THEN {} ELSE {Row(r, fits[1].ident)}
    IN FilterMap(ParseDtppRecords(events), Match)

---------------------------------------------------------------------------
(* The cycle in effect today, by the dates each folder's metafile states.  *)
(* offers: folders with what asking for the head of their metafile brings, *)
(* Down for a request that fails and None for a refusal.                *)

DiscoverDtppCycle(offers, today) ==
    LET Step(s, folder) ==
          LET o == offers[folder] IN
          CASE s # None -> s
            [] s = None /\ o = Down -> Down
            [] s = None /\ o # Down /\ o # None ->
                 IF None \notin {o.from, o.to} /\ o.from <= today /\ today <= o.to THEN folder ELSE None
            [] OTHER -> None
    IN FoldLeft(Step, None, Descending(DOMAIN offers))
=============================================================================
