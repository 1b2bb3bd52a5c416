---------------------------- MODULE MCChartStore ----------------------------
(* Three cycles: chart a is withdrawn in the second and back unchanged in  *)
(* the third, chart b carries over from the second, and chart o of the     *)
(* first comes from a catalogue without digests.                           *)
EXTENDS ChartStore, TLC

CONSTANTS a, b, o, ka, kb, ko

MCKeyOf ==
    <<(a :> ka)    @@ (b :> NoKey) @@ (o :> ko),
      (a :> NoKey) @@ (b :> kb)    @@ (o :> NoKey),
      (a :> ka)    @@ (b :> kb)    @@ (o :> NoKey)>>
=============================================================================
