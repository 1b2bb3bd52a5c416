--------------------------- MODULE MCBundleStore ---------------------------
(* Three cycles, the second of which was published twice. *)
EXTENDS BundleStore, TLC

CONSTANTS b1, b2, b2r, b3

AllPublished == (b1 :> 1) @@ (b2 :> 2) @@ (b2r :> 2) @@ (b3 :> 3)
=============================================================================
