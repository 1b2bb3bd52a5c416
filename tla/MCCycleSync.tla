---------------------------- MODULE MCCycleSync ----------------------------
(* Two cycles, the second published twice with a longer second edition.    *)
EXTENDS CycleSync, TLC

CONSTANTS b1, b2, b2r

MCCycleOf == [b \in Bundle |-> IF b = b1 THEN 1 ELSE 2]
MCSizeOf  == [b \in Bundle |-> IF b = b2r THEN 3 ELSE 2]
=============================================================================
