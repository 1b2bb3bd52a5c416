----------------------------- MODULE AtomicSwap -----------------------------
(***************************************************************************)
(* What the on-disk bundle store promises its readers, with no file system *)
(* in sight: one active bundle, replaced in a single step, only ever by a  *)
(* genuine bundle of a newer cycle, and reported "applied" in that very    *)
(* step and in no other.                                                   *)
(***************************************************************************)
EXTENDS Integers

CONSTANTS Bundle,    \* the bundles the pipeline has published
          CycleOf,   \* the cycle each of them is a bundle of
          NoFile     \* no bundle at all

VARIABLES active,    \* the bundle a reader opens
          outcome    \* how the last finished operation ended

vars == <<active, outcome>>

Init == active = NoFile /\ outcome = "none"

(* The active bundle becomes b, a bundle of a newer cycle. *)
Swap(b) ==
    /\ active = NoFile \/ (active \in Bundle /\ CycleOf[b] > CycleOf[active])
    /\ active' = b
    /\ outcome' = "applied"

(* Anything else an operation does leaves the active bundle alone, and is  *)
(* never reported as "applied".                                            *)
Other ==
    /\ outcome' \in {"none", "refused", "failed", "pruned"}
    /\ UNCHANGED active

Next == Other \/ \E b \in Bundle : Swap(b)

Spec == Init /\ [][Next]_vars
=============================================================================
