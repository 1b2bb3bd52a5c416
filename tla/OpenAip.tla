------------------------------- MODULE OpenAip -------------------------------
(***************************************************************************)
(* What the openAIP conversions make of the features of one country, and   *)
(* how the client reads a listing page by page.  A measure is              *)
(* <<value, unit, datum>>, its parts None where the service left them out  *)
(* or sent a code nobody has identified.  Values are whole units.          *)
(***************************************************************************)
EXTENDS Fields

CONSTANT MaxPages    \* of one listing, one at least

---------------------------------------------------------------------------
(* Conversions: a feature becomes one row, or is skipped and counted.      *)

LengthFt(m) ==
    CASE m = None \/ m[1] = None -> None
      [] m # None /\ m[1] # None /\ m[2] = "METRES" -> MetresInFeet(m[1])
      [] m # None /\ m[1] # None /\ m[2] = "FEET" -> m[1]
      [] OTHER -> None

ConvertAirportByCountry(a, index) ==
    IF a.point = None THEN {}
    ELSE {[icao |-> IF a.icao # None THEN a.icao ELSE <<"OAIP", a.country>>]}

(* Most fields have no ICAO code and are known by their place in the       *)
(* country's listing.                                                      *)
ConvertAirport(a, index) ==
    IF a.point = None THEN {}
    ELSE {[icao |-> IF a.icao # None THEN a.icao ELSE <<"OAIP", a.country, index>>,
           faa_id |-> None, lat |-> a.point[1], lon |-> a.point[2], type |-> "Airport",
           elevation |-> IF LengthFt(a.elevation) = None THEN 0 ELSE LengthFt(a.elevation)]}

NavaidType(n) ==
    CASE n.freq_unit = "KHZ" -> "NDB"
      [] n.freq_unit = "MHZ" /\ n.channel # None -> "VOR/DME"
      [] n.freq_unit = "MHZ" /\ n.channel = None -> "VOR"
      [] OTHER -> None

ConvertNavaid(n, region) ==
    IF None \in {n.point, n.ident, NavaidType(n)} THEN {}
    ELSE {[ident |-> n.ident, region |-> region, lat |-> n.point[1], lon |-> n.point[2],
           type |-> NavaidType(n),
           freq_khz |-> IF n.freq = None THEN None
                        ELSE IF n.freq_unit = "MHZ" THEN n.freq * 1000 ELSE n.freq]}

ClassLetters == <<"A", "B", "C", "D", "E", "F", "G">>

IcaoClass(code) ==
    IF code # None /\ code \in 0..6 THEN ClassLetters[code + 1] ELSE None

SpecialUse ==
    1 :> "Restricted" @@ 2 :> "Warning" @@ 3 :> "Prohibited" @@ 5 :> "Tmz" @@ 6 :> "Rmz"
      @@ 13 :> "Atz" @@ 21 :> "Glider" @@ 25 :> "LowFlying" @@ 28 :> "Parachute"

SpecialUseFromType(kind) ==
    IF kind # None /\ kind \in DOMAIN SpecialUse THEN SpecialUse[kind] ELSE None

Above(datum, ft) ==
    IF datum # "GND" THEN <<"MSL", ft>> ELSE IF ft = 0 THEN <<"SFC", 0>> ELSE <<"AGL", ft>>

(* A flight level is told by its unit or by the standard datum; whatever   *)
(* is not understood is unlimited.                                         *)
LimitOf(m) ==
    CASE m = None \/ m[1] = None -> <<"UNL", 0>>
      [] m # None /\ m[1] # None /\ (m[2] = "FL" \/ m[3] = "STD") -> <<"FL", NonNegative(m[1])>>
      [] m # None /\ m[1] # None /\ m[2] = "FEET" /\ m[3] \in {"GND", "MSL"} ->
           Above(m[3], NonNegative(m[1]))
      [] m # None /\ m[1] # None /\ m[2] = "METRES" /\ m[3] # "STD" ->
           Above(m[3], NonNegative(MetresInFeet(m[1])))
      [] OTHER -> <<"UNL", 0>>

(* A volume without an ICAO class is kept for what its type forbids.       *)
ConvertAirspace(a) ==
    LET class == IF IcaoClass(a.icao_class) # None THEN IcaoClass(a.icao_class)
                 ELSE SpecialUseFromType(a.kind) IN
    IF class = None \/ Len(a.ring) < 3 THEN {}
    ELSE {[id |-> <<"OAIP", a.id>>, class |-> class, floor |-> LimitOf(a.lower),
           ceiling |-> LimitOf(a.upper), boundary |-> a.ring]}

Converted(items, Convert(_, _)) ==
    FlattenSeq([i \in 1..Len(items) |-> SetToSeq(Convert(items[i], i))])

SkippedOf(items, Convert(_, _)) ==
    Cardinality({i \in 1..Len(items) : Convert(items[i], i) = {}})

ConvertCountry(c, region) ==
    [airports |-> Converted(c.airports, ConvertAirport),
     navaids |-> Converted(c.navaids, LAMBDA n, i : ConvertNavaid(n, region)),
     airspaces |-> Converted(c.airspaces, LAMBDA a, i : ConvertAirspace(a)),
     skipped |-> SkippedOf(c.airports, ConvertAirport)
                 + SkippedOf(c.navaids, LAMBDA n, i : ConvertNavaid(n, region))
                 + SkippedOf(c.airspaces, LAMBDA a, i : ConvertAirspace(a))]

---------------------------------------------------------------------------
(* Paging.  One step of the loop: a page is asked for, and what has been   *)
(* read of the listing grows by its items.  The loop ends at the page the  *)
(* answer calls the last, at the client's own limit, or at a refusal.      *)

FetchStart == [page |-> 1, all |-> <<>>, done |-> FALSE, failed |-> FALSE]

FetchPageToTheLastButOne(f, answer) ==
    IF answer = None THEN [f EXCEPT !.failed = TRUE, !.done = TRUE]
    ELSE LET last == f.page + 1 >= answer.total_pages \/ f.page >= MaxPages IN
         [f EXCEPT !.all = @ \o answer.items, !.done = last,
                   !.page = IF last THEN @ ELSE @ + 1]

FetchPage(f, answer) ==
    IF answer = None THEN [f EXCEPT !.failed = TRUE, !.done = TRUE]
    ELSE LET last == f.page >= answer.total_pages \/ f.page >= MaxPages IN
         [f EXCEPT !.all = @ \o answer.items, !.done = last,
                   !.page = IF last THEN @ ELSE @ + 1]
---------------------------------------------------------------------------
(* The step of the pipeline.  A configured state is <<country, region>>,   *)
(* either part None when the entry leaves it out.                          *)

DefaultStates == <<<<"DE", "ED">>, <<"GB", "EG">>, <<"CA", "CY">>, <<"GL", "BG">>, <<"DK", "EK">>,
                   <<"FO", "EK">>, <<"IS", "BI">>, <<"IE", "EI">>, <<"PT", "LP">>, <<"ES", "LE">>, <<"BE", "EB">>, <<"NL", "EH">>, <<"LU", "EL">>>>

(* States with an official export.                                         *)
AixmStates == {"FR"}

ConfiguredStates(raw) ==
    CASE raw = None -> DefaultStates
      [] raw # None /\ (\E i \in Places(raw) : None \in {raw[i][1], raw[i][2]}) -> None
      [] OTHER -> raw

(* A state whose three listings could not all be read contributes nothing. *)
LoadState(listings, country, region) ==
    IF country \notin DOMAIN listings THEN None
    ELSE LET l == listings[country] IN
         IF None \in {l.airports, l.navaids, l.airspaces} THEN None ELSE ConvertCountry(l, region)

(* A malformed configuration, or one that asks for a state that has an     *)
(* official export, fails; a state that cannot be read is passed over.     *)
LoadConfigured(raw, listings) ==
    LET states == ConfiguredStates(raw)
        data == MapSeq(states, LAMBDA s : LoadState(listings, s[1], s[2]))
        All(table) == FlattenSeq(MapSeq(data, LAMBDA d : IF d = None THEN <<>> ELSE d[table]))
    IN CASE states = None -> None
         [] states # None /\ (\E i \in Places(states) : states[i][1] \in AixmStates) -> None
         [] OTHER -> [airports |-> All("airports"), navaids |-> All("navaids"), airspaces |-> All("airspaces")]
=============================================================================
