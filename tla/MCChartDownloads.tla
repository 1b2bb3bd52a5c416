-------------------------- MODULE MCChartDownloads --------------------------
(* Two coroutines on one chart, and a set of two charts. *)
EXTENDS ChartDownloads, TLC

CONSTANTS c1, c2, w1, w2

Coroutines == Permutations(Worker)
=============================================================================
