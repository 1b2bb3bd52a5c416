------------------------------- MODULE Fields -------------------------------
(***************************************************************************)
(* What the modules about parsed data share.  None is the value of an      *)
(* optional field that is absent, blank or not understood; Down is the     *)
(* answer to a request that fails altogether.                              *)
(***************************************************************************)
EXTENDS Integers, Sequences, FiniteSets, SequencesExt, FiniteSetsExt

CONSTANTS None, Down

ASSUME NoneIsNoField == None \notin Int

Either(a, b) == IF a # None THEN a ELSE b

(* n/d to the nearest whole, away from zero at the half.                   *)
Rounded(n, d) == IF n >= 0 THEN (2 * n + d) \div (2 * d) ELSE -((d - 2 * n) \div (2 * d))

(* 3.28084 feet to the metre, to the nearest foot.                         *)
MetresInFeet(m) == Rounded(m * 328084, 100000)

Degree == 3600

NonNegative(n) == IF n < 0 THEN 0 ELSE n

(* Places of a sequence in the order of their elements.                    *)
Places(s) == 1..Len(s)

MapSeq(s, Op(_)) == [i \in Places(s) |-> Op(s[i])]

(* Results of a partial conversion, in order; each is a set of at most one.*)
FilterMap(s, Op(_)) == FlattenSeq([i \in Places(s) |-> SetToSeq(Op(s[i]))])

(* SelectSeq, in a form that can be reasoned about.                        *)
Where(s, Test(_)) == FilterMap(s, LAMBDA x : IF Test(x) THEN {x} ELSE {})

(* Dates, ranks and other values in order, newest or greatest first.       *)
Descending(S) == SetToSortSeq(S, LAMBDA a, b : a > b)

Ascending(S) == SetToSortSeq(S, LAMBDA a, b : a < b)
=============================================================================
