-------------------------------- MODULE Sql --------------------------------
(***************************************************************************)
(* What the readers of a bundle ask of SQLite.  A text is a sequence of    *)
(* numbers, one for each letter, so that texts can be ordered and taken    *)
(* apart; a table is the sequence of its rows in the order of their ids.   *)
(***************************************************************************)
EXTENDS Fields

Blank == 0

Underscore == 27

Lower(c) == c + 100

Upper(text) == MapSeq(text, LAMBDA c : IF c > 100 THEN c - 100 ELSE c)

(* trim().to_uppercase() of what somebody typed.                           *)
Tidy(text) ==
    LET ink == {i \in Places(text) : text[i] # Blank} IN
    IF ink = {} THEN <<>> ELSE Upper(SubSeq(text, Min(ink), Max(ink)))

(* LIKE, where an underscore of the pattern stands for any letter.         *)
SameLetter(p, c) == p \in {c, Underscore}

HasAt(text, k, p) ==
    k + Len(p) <= Len(text) /\ \A i \in Places(p) : SameLetter(p[i], text[k + i])

LikePrefix(text, p) == text # None /\ HasAt(text, 0, p)

LikeAnywhere(text, p) == \E k \in 0..Len(text) : HasAt(text, k, p)

(* The order of texts, and of keys that end in one.                        *)
Before(a, b) ==
    \E k \in 0..Len(a) :
      /\ k < Len(b) /\ SubSeq(a, 1, k) = SubSeq(b, 1, k)
      /\ k = Len(a) \/ a[k + 1] < b[k + 1]

(* The places S of a table put in order: the k-th is the one that k - 1    *)
(* others come before, by their keys or, under one key, in the table.      *)
Sooner(keys, i, j) == Before(keys[i], keys[j]) \/ (keys[i] = keys[j] /\ i < j)

InOrder(S, keys) ==
    [k \in 1..Cardinality(S) |->
       CHOOSE i \in S : Cardinality({j \in S : Sooner(keys, j, i)}) = k - 1]

RowsAt(rows, places) == MapSeq(places, LAMBDA i : rows[i])

(* The rows at some places in the order of the table, and all of them by   *)
(* the keys that they have.                                                *)
Unkeyed(rows) == MapSeq(rows, LAMBDA r : <<>>)

Taken(rows, S) == RowsAt(rows, InOrder(S, Unkeyed(rows)))

Sorted(rows, keys) == RowsAt(rows, InOrder(Places(rows), keys))

(* WHERE, and no ORDER BY.                                                 *)
Matching(rows, P(_)) == Taken(rows, {i \in Places(rows) : P(rows[i])})

(* ORDER BY key.                                                           *)
OrderedBy(rows, Key(_)) == Sorted(rows, MapSeq(rows, Key))

Limit(rows, n) == SubSeq(rows, 1, Min({n, Len(rows)}))

(* A query for one row: the first that there is, or None.                  *)
FirstAt(rows, S) == IF S = {} THEN None ELSE rows[Min(S)]

FirstWhere(rows, P(_)) == FirstAt(rows, {i \in Places(rows) : P(rows[i])})

(* GROUP BY key: the first row of each.                                    *)
Firsts(keys) == {i \in Places(keys) : \A j \in 1..(i - 1) : keys[j] # keys[i]}

GroupedBy(rows, Key(_)) == Taken(rows, Firsts(MapSeq(rows, Key)))

(* A boolean column, the true ones first.                                  *)
TrueFirst(b) == IF b THEN 0 ELSE 1
=============================================================================
