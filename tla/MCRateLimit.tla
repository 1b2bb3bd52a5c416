---------------------------- MODULE MCRateLimit ----------------------------
(* Three clients and two threads.  Two units to a request and two to a     *)
(* second; the burst is two requests and comes back within the idle time.  *)
EXTENDS RateLimit, TLC

CONSTANTS k1, k2, k3, w1, w2

Symmetric == Permutations(Client) \cup Permutations(Worker)
=============================================================================
