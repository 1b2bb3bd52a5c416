--------------------------- MODULE QueriesProofs ---------------------------
(***************************************************************************)
(* In every bundle of the schema, and of any size, the map of the device   *)
(* shows what its viewport has, and so does that of the web where it does  *)
(* not cross the antimeridian; procedures are drawn alike and the pages of *)
(* the airports complete; a search finds what is typed and leads on.  Only *)
(* the diagram on the device and its search for airports are not as their  *)
(* comments say, and no theorem is about them.                             *)
(*                                                                         *)
(* A list that a query returns is taken in three steps, and each has a     *)
(* lemma that says what it is by its places: the rows that match (TakenIs),*)
(* those rows in order (SortedIs), the first of them (LimitIs).  Where one *)
(* would reason by induction on the text or the rows, the least place at   *)
(* which two of them differ serves (LeastNatural).                         *)
(***************************************************************************)
EXTENDS Queries, FiniteSetTheorems, WellFoundedInduction, TLAPS

-----------------------------------------------------------------------------
(* What can be had of a number, can be had of a least one.                 *)
LEMMA LeastNatural ==
    ASSUME NEW T \in SUBSET Nat, T # {}
    PROVE  \E n \in T : \A m \in T : n <= m
<1>1. IsWellFoundedOn(OpToRel(<, Nat), Nat)
  BY NatLessThanWellFounded
<1>2. PICK n \in T : \A m \in T : <<m, n>> \notin OpToRel(<, Nat)
  BY <1>1, WFMin
<1>3. \A m \in T : ~(m < n)
  BY <1>2 DEF OpToRel
<1> QED
  BY <1>3

(* Texts before one another agree up to some place, where the one ends or  *)
(* has the lesser letter.                                                  *)
SameUpTo(a, b, k) == \A i \in 1..k : a[i] = b[i]

(* A text comes before another at the first place where they differ.       *)
LEMMA BeforeMeans ==
    ASSUME NEW a \in Seq(Int), NEW b \in Seq(Int)
    PROVE  Before(a, b) <=> \E k \in 0..Len(a) :
             k < Len(b) /\ SameUpTo(a, b, k) /\ (k = Len(a) \/ a[k + 1] < b[k + 1])
<1>1. Len(a) \in Nat /\ Len(b) \in Nat
  OBVIOUS
<1>2. ASSUME NEW k \in 0..Len(a), k < Len(b)
      PROVE  SubSeq(a, 1, k) = SubSeq(b, 1, k) <=> SameUpTo(a, b, k)
  <2>1. SubSeq(a, 1, k) = [i \in 1..k |-> a[i]] /\ SubSeq(b, 1, k) = [i \in 1..k |-> b[i]]
    <3>1. k \in Nat /\ k - 1 + 1 = k
      OBVIOUS
    <3> QED BY <1>1, <1>2, <3>1
  <2> QED
    BY <2>1 DEF SameUpTo
<1> QED
  BY <1>2 DEF Before

(* Texts are in a strict total order.                                      *)
LEMMA BeforeIsOrder ==
    ASSUME NEW a \in Seq(Int), NEW b \in Seq(Int)
    PROVE  /\ ~Before(a, a)
           /\ a = b \/ Before(a, b) \/ Before(b, a)
           /\ \A c \in Seq(Int) : Before(a, b) /\ Before(b, c) => Before(a, c)
<1>1. Len(a) \in Nat /\ Len(b) \in Nat
  OBVIOUS
<1>2. ~Before(a, a)
  <2> SUFFICES ASSUME Before(a, a) PROVE FALSE
    OBVIOUS
  <2>1. PICK k \in 0..Len(a) : k < Len(a) /\ (k = Len(a) \/ a[k + 1] < a[k + 1])
    BY BeforeMeans
  <2>2. k + 1 \in 1..Len(a) /\ a[k + 1] \in Int
    BY <2>1, <1>1
  <2> QED
    BY <2>1, <2>2, <1>1
<1>3. ASSUME NEW c \in Seq(Int), Before(a, b), Before(b, c) PROVE Before(a, c)
  <2>1. PICK k \in 0..Len(a) : k < Len(b) /\ SameUpTo(a, b, k) /\ (k = Len(a) \/ a[k + 1] < b[k + 1])
    BY <1>3, BeforeMeans
  <2>2. PICK l \in 0..Len(b) : l < Len(c) /\ SameUpTo(b, c, l) /\ (l = Len(b) \/ b[l + 1] < c[l + 1])
    BY <1>3, BeforeMeans
  <2>3. Len(c) \in Nat
    OBVIOUS
  <2>4. CASE l < k
    <3>1. l \in 0..Len(a) /\ l + 1 \in 1..k /\ l # Len(b)
      BY <2>1, <2>2, <2>4, <1>1
    <3>2. SameUpTo(a, c, l)
      BY <2>1, <2>2, <2>4, <1>1 DEF SameUpTo
    <3>3. a[l + 1] = b[l + 1]
      BY <2>1, <3>1 DEF SameUpTo
    <3> QED
      BY <3>1, <3>2, <3>3, <2>2, BeforeMeans
  <2>5. CASE l >= k
    <3>1. SameUpTo(a, c, k)
      BY <2>1, <2>2, <2>5, <1>1 DEF SameUpTo
    <3>2. k < Len(c)
      BY <2>1, <2>2, <2>5, <1>1, <2>3
    <3>3. k = Len(a) \/ a[k + 1] < c[k + 1]
      <4> SUFFICES ASSUME k # Len(a) PROVE a[k + 1] < c[k + 1]
        OBVIOUS
      <4>1. k + 1 \in 1..Len(a) /\ k + 1 \in 1..Len(b) /\ k + 1 \in 1..Len(c) /\ a[k + 1] < b[k + 1]
        BY <2>1, <3>2, <1>1, <2>3
      <4>2. a[k + 1] \in Int /\ b[k + 1] \in Int /\ c[k + 1] \in Int
        BY <4>1
      <4>3. b[k + 1] <= c[k + 1]
        <5>1. CASE l = k
          BY <5>1, <2>2, <2>1, <4>2
        <5>2. CASE l > k
          <6>1. k + 1 \in 1..l
            BY <5>2, <2>1, <2>2, <1>1
          <6> QED
            BY <6>1, <2>2, <4>2 DEF SameUpTo
        <5> QED
          BY <5>1, <5>2, <2>5, <2>1, <2>2, <1>1
      <4> QED
        BY <4>1, <4>2, <4>3
    <3> QED
      BY <3>1, <3>2, <3>3, BeforeMeans
  <2> QED
    BY <2>4, <2>5, <2>1, <2>2, <1>1
<1>4. ASSUME a # b PROVE Before(a, b) \/ Before(b, a)
  <2> DEFINE Ended(k) == k = Len(a) \/ k = Len(b)
             T == {k \in Nat : k <= Len(a) /\ k <= Len(b) /\ (Ended(k) \/ a[k + 1] # b[k + 1])}
  <2>1. T # {}
    <3>1. CASE Len(a) <= Len(b)
      <4>1. Len(a) \in T
        BY <3>1, <1>1
      <4> QED BY <4>1
    <3>2. CASE Len(b) <= Len(a)
      <4>1. Len(b) \in T
        BY <3>2, <1>1
      <4> QED BY <4>1
    <3> QED
      BY <3>1, <3>2, <1>1
  <2>2. PICK k \in T : \A m \in T : k <= m
    <3>1. T \in SUBSET Nat
      OBVIOUS
    <3> HIDE DEF T
    <3> QED
      BY <2>1, <3>1, LeastNatural
  <2>3. SameUpTo(a, b, k)
    <3> SUFFICES ASSUME NEW i \in 1..k, a[i] # b[i] PROVE FALSE
      BY DEF SameUpTo
    <3>1. i - 1 \in Nat /\ i - 1 <= Len(a) /\ i - 1 <= Len(b) /\ (i - 1) + 1 = i
      BY <1>1
    <3>2. i - 1 \in T
      BY <3>1
    <3>3. k <= i - 1
      BY <3>2, <2>2
    <3> QED
      BY <3>3
  <2>4. SameUpTo(b, a, k)
    BY <2>3 DEF SameUpTo
  <2>5. CASE k # Len(a) /\ k # Len(b)
    <3>1. k + 1 \in 1..Len(a) /\ k + 1 \in 1..Len(b)
      BY <2>5, <1>1
    <3>2. a[k + 1] \in Int /\ b[k + 1] \in Int /\ a[k + 1] # b[k + 1]
      BY <3>1, <2>5
    <3>3. a[k + 1] < b[k + 1] \/ b[k + 1] < a[k + 1]
      BY <3>2
    <3>4. k \in 0..Len(a) /\ k \in 0..Len(b) /\ k < Len(a) /\ k < Len(b)
      BY <3>1, <1>1
    <3> QED
      BY <3>3, <3>4, <2>3, <2>4, BeforeMeans
  <2>6. CASE k = Len(a) /\ k # Len(b)
    <3>1. k \in 0..Len(a) /\ k < Len(b)
      BY <2>6, <1>1
    <3> QED
      BY <3>1, <2>6, <2>3, BeforeMeans
  <2>7. CASE k = Len(b) /\ k # Len(a)
    <3>1. k \in 0..Len(b) /\ k < Len(a)
      BY <2>7, <1>1
    <3> QED
      BY <3>1, <2>7, <2>4, BeforeMeans
  <2>8. CASE k = Len(a) /\ k = Len(b)
    <3>1. \A i \in 1..Len(a) : a[i] = b[i]
      BY <2>3, <2>8 DEF SameUpTo
    <3>2. a \in [1..Len(a) -> Int] /\ b \in [1..Len(b) -> Int]
      OBVIOUS
    <3>3. a = b
      BY <3>1, <3>2, <2>8
    <3> QED
      BY <3>3, <1>4
  <2> QED
    BY <2>5, <2>6, <2>7, <2>8
<1> QED
  BY <1>2, <1>3, <1>4
-----------------------------------------------------------------------------
(* Places in order.                                                        *)

(* A set of places of a list is finite, and no larger than the list.       *)
LEMMA FinitePlaces ==
    ASSUME NEW n \in Nat, NEW S \in SUBSET (1..n)
    PROVE  IsFiniteSet(S) /\ Cardinality(S) \in Nat /\ Cardinality(S) <= n
<1>1. IsFiniteSet(1..n) /\ Cardinality(1..n) = n
  BY FS_Interval
<1> QED
  BY <1>1, FS_Subset, FS_CardinalityType

(* Sooner is a total order of the places.                                  *)
LEMMA SoonerIsOrder ==
    ASSUME NEW keys, NEW i \in Int, NEW j \in Int, keys[i] \in Seq(Int), keys[j] \in Seq(Int)
    PROVE  /\ ~Sooner(keys, i, i)
           /\ i = j \/ Sooner(keys, i, j) \/ Sooner(keys, j, i)
           /\ \A l \in Int : keys[l] \in Seq(Int) /\ Sooner(keys, i, j) /\ Sooner(keys, j, l) => Sooner(keys, i, l)
<1>1. ~Sooner(keys, i, i)
  BY BeforeIsOrder DEF Sooner
<1>2. i = j \/ Sooner(keys, i, j) \/ Sooner(keys, j, i)
  BY BeforeIsOrder DEF Sooner
<1>3. ASSUME NEW l \in Int, keys[l] \in Seq(Int), Sooner(keys, i, j), Sooner(keys, j, l)
      PROVE  Sooner(keys, i, l)
  <2>1. CASE Before(keys[i], keys[j]) /\ Before(keys[j], keys[l])
    BY <2>1, <1>3, BeforeIsOrder DEF Sooner
  <2>2. CASE Before(keys[i], keys[j]) /\ keys[j] = keys[l]
    BY <2>2 DEF Sooner
  <2>3. CASE keys[i] = keys[j] /\ Before(keys[j], keys[l])
    BY <2>3 DEF Sooner
  <2>4. CASE keys[i] = keys[j] /\ i < j /\ keys[j] = keys[l] /\ j < l
    BY <2>4, <1>3 DEF Sooner
  <2> QED
    BY <1>3, <2>1, <2>2, <2>3, <2>4 DEF Sooner
<1> QED
  BY <1>1, <1>2, <1>3

(* So each place of the answer is one place of the table.                  *)
LEMMA InOrderIs ==
    ASSUME NEW n \in Nat, NEW S \in SUBSET (1..n), NEW keys, \A i \in S : keys[i] \in Seq(Int)
    PROVE  LET q == InOrder(S, keys)
               m == Cardinality(S) IN
           /\ q \in [1..m -> S]
           /\ \A i \in S : \E k \in 1..m : q[k] = i
           /\ \A k, l \in 1..m : k < l => Sooner(keys, q[k], q[l])
<1> DEFINE q == InOrder(S, keys)
           m == Cardinality(S)
           Earlier(i) == {j \in S : Sooner(keys, j, i)}
           Rank == [i \in S |-> Cardinality(Earlier(i)) + 1]
<1>1. IsFiniteSet(S) /\ m \in Nat /\ S \subseteq Int
  <2>1. IsFiniteSet(S) /\ Cardinality(S) \in Nat
    BY FinitePlaces
  <2>2. S \subseteq Int
    OBVIOUS
  <2> QED
    BY <2>1, <2>2
<1>2. \A i \in S : IsFiniteSet(Earlier(i)) /\ Cardinality(Earlier(i)) \in Nat
  <2> TAKE i \in S
  <2>1. Earlier(i) \in SUBSET S
    OBVIOUS
  <2> HIDE DEF Earlier
  <2> QED
    BY <2>1, <1>1, FS_Subset, FS_CardinalityType
<1>3. ASSUME NEW i \in S, NEW j \in S, Sooner(keys, i, j)
      PROVE  Rank[i] < Rank[j]
  <2>1. Earlier(i) \subseteq Earlier(j) /\ i \in Earlier(j) /\ i \notin Earlier(i)
    BY <1>1, <1>3, SoonerIsOrder
  <2>2. Earlier(i) \in SUBSET Earlier(j) /\ Earlier(i) # Earlier(j)
    BY <2>1
  <2>3. Cardinality(Earlier(i)) < Cardinality(Earlier(j))
    <3> HIDE DEF Earlier
    <3> QED
      BY <2>2, <1>2, FS_Subset
  <2>4. Rank[i] = Cardinality(Earlier(i)) + 1 /\ Rank[j] = Cardinality(Earlier(j)) + 1
    OBVIOUS
  <2> HIDE DEF Rank, Earlier
  <2> QED
    BY <2>3, <2>4, <1>2
<1>4. \A i \in S : Rank[i] \in 1..m
  <2> TAKE i \in S
  <2>1. Earlier(i) \in SUBSET (S \ {i})
    BY <1>1, SoonerIsOrder
  <2>2. IsFiniteSet(S \ {i}) /\ Cardinality(S \ {i}) = m - 1
    BY <1>1, FS_RemoveElement
  <2>3. Cardinality(Earlier(i)) <= m - 1
    <3> HIDE DEF Earlier
    <3> QED
      BY <2>1, <2>2, FS_Subset
  <2>4. Rank[i] = Cardinality(Earlier(i)) + 1
    OBVIOUS
  <2> HIDE DEF Rank, Earlier
  <2> QED
    BY <2>3, <2>4, <1>1, <1>2
<1>5. \A i, j \in S : Rank[i] = Rank[j] => i = j
  <2> SUFFICES ASSUME NEW i \in S, NEW j \in S, i # j PROVE Rank[i] # Rank[j]
    OBVIOUS
  <2>1. Sooner(keys, i, j) \/ Sooner(keys, j, i)
    BY <1>1, SoonerIsOrder
  <2>2. Rank[i] \in Int /\ Rank[j] \in Int
    BY <1>4
  <2> HIDE DEF Rank
  <2> QED
    BY <2>1, <2>2, <1>3
<1>6. \A k \in 1..m : \E i \in S : Rank[i] = k
  <2>1. Rank \in [S -> 1..m]
    BY <1>4
  <2> HIDE DEF Rank
  <2>2. Rank \in Injection(S, 1..m)
    BY <2>1, <1>5 DEF Injection, IsInjective
  <2>3. IsFiniteSet(1..m) /\ Cardinality(1..m) = m
    BY <1>1, FS_Interval
  <2>4. Rank \in Surjection(S, 1..m)
    BY <2>2, <2>3, FS_Injection
  <2> QED
    BY <2>4 DEF Surjection
<1>7. \A k \in 1..m : q[k] \in S /\ Rank[q[k]] = k
  <2> TAKE k \in 1..m
  <2>1. PICK i \in S : Rank[i] = k
    BY <1>6
  <2>2. Cardinality(Earlier(i)) = k - 1
    <3>1. Rank[i] = Cardinality(Earlier(i)) + 1
      OBVIOUS
    <3>2. k \in Int
      BY <1>1
    <3> HIDE DEF Rank, Earlier
    <3> QED
      BY <3>1, <3>2, <2>1, <1>2
  <2>3. q[k] = CHOOSE c \in S : Cardinality({j \in S : Sooner(keys, j, c)}) = k - 1
    BY DEF InOrder
  <2> HIDE DEF q
  <2>4. q[k] \in S /\ Cardinality({j \in S : Sooner(keys, j, q[k])}) = k - 1
    BY <2>2, <2>3
  <2>5. Rank[q[k]] = Cardinality({j \in S : Sooner(keys, j, q[k])}) + 1
    BY <2>4
  <2> HIDE DEF Rank
  <2> QED
    BY <2>4, <2>5
<1>8. q \in [1..m -> S]
  <2> DEFINE At(k) == CHOOSE i \in S : Cardinality({j \in S : Sooner(keys, j, i)}) = k - 1
  <2>1. q = [k \in 1..m |-> At(k)]
    BY DEF InOrder
  <2>2. \A k \in 1..m : At(k) = q[k]
    BY <2>1
  <2> HIDE DEF q, Rank, At
  <2> QED
    BY <2>1, <2>2, <1>7
<1>9. ASSUME NEW i \in S PROVE \E k \in 1..m : q[k] = i
  <2>1. q[Rank[i]] \in S /\ Rank[q[Rank[i]]] = Rank[i]
    BY <1>4, <1>7
  <2> HIDE DEF q, Rank
  <2> QED
    BY <2>1, <1>4, <1>5
<1>10. ASSUME NEW k \in 1..m, NEW l \in 1..m, k < l PROVE Sooner(keys, q[k], q[l])
  <2>1. Rank[q[k]] = k /\ Rank[q[l]] = l /\ q[k] \in S /\ q[l] \in S
    BY <1>7
  <2> HIDE DEF q, Rank
  <2>2. ~Sooner(keys, q[l], q[k])
    <3>1. k \in Int /\ l \in Int /\ ~(l < k)
      BY <1>1, <1>10
    <3>2. Sooner(keys, q[l], q[k]) => Rank[q[l]] < Rank[q[k]]
      BY <2>1, <1>3
    <3> HIDE DEF Earlier
    <3> QED
      BY <2>1, <3>1, <3>2
  <2>3. q[k] # q[l]
    BY <2>1, <1>10
  <2> QED
    BY <2>1, <2>2, <2>3, <1>1, SoonerIsOrder
<1> QED
  BY <1>8, <1>9, <1>10

-----------------------------------------------------------------------------
(* Lists made of a table.                                                  *)

(* What is taken of a table keeps its order, has each place once and no    *)
(* other row.                                                              *)
TakenOf(rows, S, out) ==
    /\ Len(out) = Cardinality(S)
    /\ ToSet(out) = {rows[i] : i \in S}
    /\ \A k, l \in Places(out) : k < l => \E i, j \in S : i < j /\ out[k] = rows[i] /\ out[l] = rows[j]

(* A function on 1..m is a list of m.                                      *)
LEMMA ListOf ==
    ASSUME NEW X, NEW m \in Nat, NEW f, f = [k \in 1..m |-> f[k]], \A k \in 1..m : f[k] \in X
    PROVE  f \in Seq(X) /\ Len(f) = m /\ DOMAIN f = 1..m
<1>1. f \in [1..m -> X]
  OBVIOUS
<1> QED
  BY <1>1

(* What a list is, by its places.                                          *)
LEMMA ListIs ==
    ASSUME NEW X, NEW s \in Seq(X)
    PROVE  /\ Len(s) \in Nat /\ Places(s) = 1..Len(s) /\ DOMAIN s = Places(s)
           /\ \A i \in Places(s) : i \in Nat /\ s[i] \in X
           /\ ToSet(s) = {s[i] : i \in Places(s)} /\ ToSet(s) \subseteq X
<1>1. Len(s) \in Nat /\ Places(s) = 1..Len(s) /\ DOMAIN s = Places(s)
  BY DEF Places
<1>2. \A i \in 1..Len(s) : i \in Nat /\ s[i] \in X
  OBVIOUS
<1> QED
  BY <1>1, <1>2 DEF ToSet

(* Taken does what TakenOf says.                                           *)
LEMMA TakenIs ==
    ASSUME NEW X, NEW rows \in Seq(X), NEW S \in SUBSET Places(rows)
    PROVE  Taken(rows, S) \in Seq(X) /\ TakenOf(rows, S, Taken(rows, S))
<1> DEFINE keys == Unkeyed(rows)
           q == InOrder(S, keys)
           m == Cardinality(S)
           out == Taken(rows, S)
<1>1. Len(rows) \in Nat /\ S \in SUBSET (1..Len(rows)) /\ m \in Nat
  BY FinitePlaces DEF Places
<1>2. \A i \in 1..Len(rows) : keys[i] = <<>>
  BY DEF Unkeyed, MapSeq, Places
<1>3. \A i \in S : keys[i] \in Seq(Int)
  <2>1. <<>> \in Seq(Int)
    OBVIOUS
  <2> HIDE DEF keys
  <2> QED
    BY <1>1, <1>2, <2>1
<1>4. /\ q \in [1..m -> S]
      /\ \A i \in S : \E k \in 1..m : q[k] = i
      /\ \A k, l \in 1..m : k < l => Sooner(keys, q[k], q[l])
  <2> HIDE DEF keys
  <2> QED
    BY <1>1, <1>3, InOrderIs
<1>5. \A k, l \in 1..m : k < l => q[k] < q[l]
  <2> SUFFICES ASSUME NEW k \in 1..m, NEW l \in 1..m, k < l PROVE q[k] < q[l]
    OBVIOUS
  <2>1. Sooner(keys, q[k], q[l]) /\ q[k] \in S /\ q[l] \in S
    BY <1>4
  <2>2. keys[q[k]] = <<>> /\ keys[q[l]] = <<>>
    BY <2>1, <1>1, <1>2
  <2>3. ~Before(<<>>, <<>>)
    <3>1. <<>> \in Seq(Int)
      OBVIOUS
    <3> QED BY <3>1, BeforeIsOrder
  <2> HIDE DEF q, keys
  <2> QED
    BY <2>1, <2>2, <2>3 DEF Sooner
<1>6. out = [k \in 1..m |-> rows[q[k]]] /\ Len(out) = m
  <2>1. q \in Seq(S) /\ Len(q) = m
    <3> HIDE DEF q, m
    <3> QED BY <1>4, <1>1
  <2>2. out = [k \in 1..Len(q) |-> rows[q[k]]]
    BY DEF Taken, RowsAt, MapSeq, Places
  <2> HIDE DEF out, q, m
  <2> QED
    BY <2>1, <2>2, <1>1
<1>7. out \in Seq(X)
  <2>1. \A i \in S : rows[i] \in X
    BY <1>1
  <2>2. \A k \in 1..m : out[k] = rows[q[k]] /\ out[k] \in X
    <3> HIDE DEF out, q, m
    <3> QED BY <1>4, <1>6, <2>1
  <2>3. out = [k \in 1..m |-> out[k]]
    <3> HIDE DEF out, q, m
    <3> QED BY <1>6
  <2> HIDE DEF out, q, m
  <2> QED
    BY <2>2, <2>3, <1>1, ListOf
<1>8. ToSet(out) = {rows[i] : i \in S}
  <2>1. DOMAIN out = 1..m
    BY <1>6
  <2> HIDE DEF out, q, m
  <2> QED
    BY <2>1, <1>6, <1>4 DEF ToSet
<1>9. ASSUME NEW k \in Places(out), NEW l \in Places(out), k < l
      PROVE  \E i, j \in S : i < j /\ out[k] = rows[i] /\ out[l] = rows[j]
  <2> HIDE DEF out, q, m
  <2> QED
    BY <1>4, <1>5, <1>6, <1>9 DEF Places
<1>10. TakenOf(rows, S, out)
  <2> HIDE DEF out, q
  <2> QED
    BY <1>6, <1>8, <1>9 DEF TakenOf
<1> QED
  BY <1>7, <1>10

(* A sorted table has the same rows, the lesser key first.                 *)
SortedOf(rows, keys, out) ==
    /\ Len(out) = Len(rows)
    /\ ToSet(out) = ToSet(rows)
    /\ \A k, l \in Places(out) : k < l =>
         \E i, j \in Places(rows) : Sooner(keys, i, j) /\ out[k] = rows[i] /\ out[l] = rows[j]

(* Sorted does what SortedOf says.                                         *)
LEMMA SortedIs ==
    ASSUME NEW X, NEW rows \in Seq(X), NEW keys, \A i \in Places(rows) : keys[i] \in Seq(Int)
    PROVE  Sorted(rows, keys) \in Seq(X) /\ SortedOf(rows, keys, Sorted(rows, keys))
<1> DEFINE n == Len(rows)
           S == Places(rows)
           q == InOrder(S, keys)
           out == Sorted(rows, keys)
<1>1. n \in Nat /\ S = 1..n /\ Cardinality(S) = n /\ S \in SUBSET (1..n)
  <2>1. n \in Nat
    OBVIOUS
  <2>2. Cardinality(1..n) = n
    <3> HIDE DEF n
    <3>1. 1 \in Int /\ n \in Int
      BY <2>1
    <3>2. Cardinality(1..n) = IF 1 > n THEN 0 ELSE n - 1 + 1
      BY <3>1, FS_Interval
    <3> QED BY <3>2, <2>1
  <2> QED
    BY <2>1, <2>2 DEF Places
<1>2. /\ q \in [1..n -> S]
      /\ \A i \in S : \E k \in 1..n : q[k] = i
      /\ \A k, l \in 1..n : k < l => Sooner(keys, q[k], q[l])
  <2>1. \A i \in S : keys[i] \in Seq(Int)
    OBVIOUS
  <2>2. /\ q \in [1..Cardinality(S) -> S]
        /\ \A i \in S : \E k \in 1..Cardinality(S) : q[k] = i
        /\ \A k, l \in 1..Cardinality(S) : k < l => Sooner(keys, q[k], q[l])
    <3>1. n \in Nat /\ S \in SUBSET (1..n)
      BY <1>1
    <3> HIDE DEF S, n
    <3> QED
      BY <3>1, <2>1, InOrderIs
  <2> HIDE DEF S, n, q
  <2> QED
    BY <1>1, <2>2
<1>3. out = [k \in 1..n |-> rows[q[k]]] /\ Len(out) = n
  <2>1. q \in Seq(S) /\ Len(q) = n
    <3> HIDE DEF q, n
    <3> QED BY <1>2, <1>1
  <2>2. out = [k \in 1..Len(q) |-> rows[q[k]]]
    BY DEF Sorted, RowsAt, MapSeq, Places
  <2> HIDE DEF out, q, n
  <2> QED
    BY <2>1, <2>2, <1>1
<1>4. out \in Seq(X)
  <2>1. \A i \in S : rows[i] \in X
    BY <1>1
  <2>2. \A k \in 1..n : out[k] = rows[q[k]] /\ out[k] \in X
    <3> HIDE DEF out, q, n
    <3> QED BY <1>2, <1>3, <2>1
  <2>3. out = [k \in 1..n |-> out[k]]
    <3> HIDE DEF out, q, n
    <3> QED BY <1>3
  <2> HIDE DEF out, q, n
  <2> QED
    BY <2>2, <2>3, <1>1, ListOf
<1>5. ToSet(out) = ToSet(rows)
  <2>1. DOMAIN out = S /\ DOMAIN rows = S
    BY <1>1, <1>3
  <2>2. S = 1..n
    BY <1>1
  <2> HIDE DEF out, q, n, S
  <2> QED
    BY <2>1, <2>2, <1>2, <1>3 DEF ToSet
<1>6. ASSUME NEW k \in Places(out), NEW l \in Places(out), k < l
      PROVE  \E i, j \in Places(rows) : Sooner(keys, i, j) /\ out[k] = rows[i] /\ out[l] = rows[j]
  <2> HIDE DEF out, q
  <2> QED
    BY <1>2, <1>3, <1>6 DEF Places
<1>7. SortedOf(rows, keys, out)
  <2> HIDE DEF out, q
  <2> QED
    BY <1>3, <1>5, <1>6 DEF SortedOf
<1> QED
  BY <1>4, <1>7

(* Min is the least of a set of numbers.                                   *)
LEMMA MinIs ==
    ASSUME NEW S \in SUBSET Nat, S # {}
    PROVE  Min(S) \in S /\ \A n \in S : Min(S) <= n
<1>1. \E n \in S : \A m \in S : n <= m
  BY LeastNatural
<1> QED
  BY <1>1 DEF Min

(* A list can be mapped row by row.                                        *)
LEMMA MapSeqIs ==
    ASSUME NEW rows, NEW X, rows \in Seq(X), NEW Y, NEW f, f = [i \in Places(rows) |-> f[i]],
           \A i \in Places(rows) : f[i] \in Y
    PROVE  f \in Seq(Y) /\ Len(f) = Len(rows) /\ Places(f) = Places(rows) /\ DOMAIN f = Places(rows)
<1>1. Len(rows) \in Nat /\ Places(rows) = 1..Len(rows)
  BY DEF Places
<1> QED
  BY <1>1, ListOf DEF Places

(* A list without repetitions.                                             *)
LEMMA DistinctIsKept ==
    ASSUME NEW X, NEW rows \in Seq(X), IsInjective(rows), NEW out \in Seq(X),
           \A k, l \in Places(out) : k < l =>
             \E i, j \in Places(rows) : i # j /\ out[k] = rows[i] /\ out[l] = rows[j]
    PROVE  IsInjective(out)
<1>1. DOMAIN rows = Places(rows) /\ DOMAIN out = Places(out) /\ Places(out) \subseteq Int
  BY DEF Places
<1>2. \A k, l \in Places(out) : k < l => out[k] # out[l]
  BY <1>1 DEF IsInjective
<1>3. \A k, l \in Places(out) : k < l \/ l < k \/ k = l
  BY <1>1
<1> QED
  BY <1>1, <1>2, <1>3 DEF IsInjective

(* Taking from a list without duplicates makes none ...                    *)
LEMMA TakenOnce ==
    ASSUME NEW X, NEW rows \in Seq(X), IsInjective(rows), NEW S \in SUBSET Places(rows)
    PROVE  IsInjective(Taken(rows, S))
<1> DEFINE out == Taken(rows, S)
<1>1. out \in Seq(X) /\ TakenOf(rows, S, out)
  BY TakenIs
<1>2. Places(rows) \subseteq Int
  BY DEF Places
<1>3. ASSUME NEW k \in Places(out), NEW l \in Places(out), k < l
      PROVE  \E i, j \in Places(rows) : i # j /\ out[k] = rows[i] /\ out[l] = rows[j]
  <2>1. PICK i \in S, j \in S : i < j /\ out[k] = rows[i] /\ out[l] = rows[j]
    BY <1>1, <1>3 DEF TakenOf
  <2>2. i \in Places(rows) /\ j \in Places(rows) /\ i # j
    BY <2>1, <1>2
  <2> QED
    BY <2>1, <2>2
<1> HIDE DEF out
<1> QED
  BY <1>1, <1>3, DistinctIsKept DEF out

(* ... and neither does sorting it.                                        *)
LEMMA SortedOnce ==
    ASSUME NEW X, NEW rows \in Seq(X), IsInjective(rows),
           NEW keys, \A i \in Places(rows) : keys[i] \in Seq(Int)
    PROVE  IsInjective(Sorted(rows, keys))
<1> DEFINE out == Sorted(rows, keys)
<1>1. out \in Seq(X) /\ SortedOf(rows, keys, out)
  BY SortedIs
<1>2. Places(rows) \subseteq Int
  BY DEF Places
<1>3. ASSUME NEW k \in Places(out), NEW l \in Places(out), k < l
      PROVE  \E i, j \in Places(rows) : i # j /\ out[k] = rows[i] /\ out[l] = rows[j]
  <2>1. PICK i \in Places(rows), j \in Places(rows) : Sooner(keys, i, j) /\ out[k] = rows[i] /\ out[l] = rows[j]
    BY <1>1, <1>3 DEF SortedOf
  <2>2. i # j
    BY <2>1, <1>2, SoonerIsOrder
  <2> QED
    BY <2>1, <2>2
<1> HIDE DEF out
<1> QED
  BY <1>1, <1>3, DistinctIsKept DEF out

(* A list without duplicates is as long as it has rows.                    *)
LEMMA CardinalityOfList ==
    ASSUME NEW X, NEW s \in Seq(X), IsInjective(s)
    PROVE  IsFiniteSet(ToSet(s)) /\ Cardinality(ToSet(s)) = Len(s)
<1> DEFINE T == ToSet(s)
           m == Len(s)
<1>1. m \in Nat /\ DOMAIN s = 1..m
  OBVIOUS
<1>2. T = {s[i] : i \in 1..m}
  BY <1>1 DEF ToSet
<1>3. s \in [1..m -> T]
  <2>1. s = [i \in 1..m |-> s[i]]
    BY <1>1
  <2> HIDE DEF T, m
  <2> QED BY <1>2, <2>1
<1>4. s \in Bijection(1..m, T)
  <2> HIDE DEF T, m
  <2>1. s \in Injection(1..m, T)
    BY <1>1, <1>3 DEF Injection, IsInjective
  <2>2. s \in Surjection(1..m, T)
    BY <1>2, <1>3 DEF Surjection
  <2> QED
    BY <2>1, <2>2 DEF Bijection
<1>5. IsFiniteSet(1..m) /\ Cardinality(1..m) = m
  <2> HIDE DEF m
  <2>1. 1 \in Int /\ m \in Int
    BY <1>1
  <2>2. IsFiniteSet(1..m) /\ Cardinality(1..m) = IF 1 > m THEN 0 ELSE m - 1 + 1
    BY <2>1, FS_Interval
  <2> QED BY <2>2, <1>1
<1> HIDE DEF T, m
<1>6. IsFiniteSet(T) /\ Cardinality(T) = m
  <2> DEFINE D == 1..m
  <2>1. s \in Bijection(D, T) /\ IsFiniteSet(D) /\ Cardinality(D) = m
    BY <1>4, <1>5
  <2>2. ExistsBijection(D, T)
    <3> HIDE DEF D
    <3> QED BY <2>1 DEF ExistsBijection
  <2> HIDE DEF D
  <2> QED
    BY <2>1, <2>2, FS_Bijection
<1> QED
  BY <1>6 DEF T, m

(* The first n of a list.                                                  *)
LimitOf(rows, n, out) ==
    /\ Len(out) <= Len(rows) /\ Len(out) <= n
    /\ Len(out) = n \/ Len(out) = Len(rows)
    /\ \A k \in Places(out) : k \in Places(rows) /\ out[k] = rows[k]

(* Limit does what LimitOf says.                                           *)
LEMMA LimitIs ==
    ASSUME NEW X, NEW rows \in Seq(X), NEW n \in Nat
    PROVE  Limit(rows, n) \in Seq(X) /\ LimitOf(rows, n, Limit(rows, n))
<1> DEFINE m == Min({n, Len(rows)})
           out == Limit(rows, n)
<1>1. m \in Nat /\ m \in {n, Len(rows)} /\ m <= n /\ m <= Len(rows)
  <2>1. {n, Len(rows)} \in SUBSET Nat /\ {n, Len(rows)} # {}
    OBVIOUS
  <2> QED
    BY <2>1, MinIs
<1>2. out = [i \in 1..m |-> rows[i]]
  <2>1. out = SubSeq(rows, 1, m)
    BY DEF Limit
  <2>2. m - 1 + 1 = m
    BY <1>1
  <2> HIDE DEF out, m
  <2> QED
    BY <2>1, <2>2, <1>1
<1>3. \A i \in 1..m : i \in Places(rows) /\ out[i] = rows[i] /\ out[i] \in X
  <2> HIDE DEF out, m
  <2> QED BY <1>1, <1>2 DEF Places
<1>4. out \in Seq(X) /\ Len(out) = m
  <2> HIDE DEF m
  <2>1. out = [i \in 1..m |-> out[i]]
    <3> HIDE DEF out
    <3> QED BY <1>2
  <2> HIDE DEF out
  <2> QED BY <2>1, <1>1, <1>3, ListOf
<1>5. LimitOf(rows, n, out)
  <2> HIDE DEF out, m
  <2> QED BY <1>1, <1>3, <1>4 DEF LimitOf, Places
<1> QED
  BY <1>4, <1>5

(* The first row of a kind, and the first of each kind.                    *)
LEMMA FirstAtIs ==
    ASSUME NEW X, NEW rows \in Seq(X), NEW S \in SUBSET Places(rows)
    PROVE  /\ S = {} => FirstAt(rows, S) = None
           /\ S # {} => \E i \in S : FirstAt(rows, S) = rows[i] /\ \A j \in S : i <= j
<1>1. S \in SUBSET Nat
  BY DEF Places
<1> QED
  BY <1>1, MinIs DEF FirstAt

(* There is a first row of every key, and only one.                        *)
LEMMA FirstsAre ==
    ASSUME NEW keys, Len(keys) \in Nat
    PROVE  /\ Firsts(keys) \in SUBSET Places(keys)
           /\ \A i \in Places(keys) : \E k \in Firsts(keys) : k <= i /\ keys[k] = keys[i]
           /\ \A i, j \in Firsts(keys) : keys[i] = keys[j] => i = j
<1>1. Places(keys) \subseteq Nat /\ Places(keys) = 1..Len(keys)
  BY DEF Places
<1>2. ASSUME NEW i \in Places(keys) PROVE \E k \in Firsts(keys) : k <= i /\ keys[k] = keys[i]
  <2> DEFINE T == {k \in Places(keys) : keys[k] = keys[i]}
  <2>1. T \in SUBSET Nat /\ i \in T
    BY <1>1
  <2>2. PICK k \in T : \A m \in T : k <= m
    BY <2>1, LeastNatural
  <2>3. ASSUME NEW j \in 1..(k - 1) PROVE keys[j] # keys[k]
    <3>1. j \in Places(keys) /\ ~(k <= j)
      BY <1>1, <2>2
    <3> QED
      BY <3>1, <2>2
  <2> QED
    BY <2>1, <2>2, <2>3 DEF Firsts
<1>3. ASSUME NEW i \in Firsts(keys), NEW j \in Firsts(keys), keys[i] = keys[j] PROVE i = j
  <2>1. i \in Nat /\ j \in Nat /\ i >= 1 /\ j >= 1
    BY <1>1 DEF Firsts
  <2>2. ~(i < j)
    <3> SUFFICES ASSUME i < j PROVE FALSE
      OBVIOUS
    <3>1. i \in 1..(j - 1)
      BY <2>1
    <3> QED BY <3>1, <1>3 DEF Firsts
  <2>3. ~(j < i)
    <3> SUFFICES ASSUME j < i PROVE FALSE
      OBVIOUS
    <3>1. j \in 1..(i - 1)
      BY <2>1
    <3> QED BY <3>1, <1>3 DEF Firsts
  <2> QED
    BY <2>1, <2>2, <2>3
<1> QED
  BY <1>2, <1>3 DEF Firsts

-----------------------------------------------------------------------------
(* The device reads with the same tools.                                   *)

(* The device's queries and the server's are written with the same tools.  *)
LEMMA SameTools ==
    /\ \A s : Device!Places(s) = Places(s)
    /\ \A s : Device!ToSet(s) = ToSet(s)
    /\ \A S : Device!Min(S) = Min(S)
    /\ \A rows, S : Device!Taken(rows, S) = Taken(rows, S)
    /\ \A rows, keys : Device!Sorted(rows, keys) = Sorted(rows, keys)
    /\ \A rows, n : Device!Limit(rows, n) = Limit(rows, n)
    /\ \A rows, S : Device!FirstAt(rows, S) = FirstAt(rows, S)
    /\ \A keys : Device!Firsts(keys) = Firsts(keys)
<1>1. \A s : Device!Places(s) = Places(s)
  BY DEF Device!Places, Places
<1>2. \A s : Device!ToSet(s) = ToSet(s)
  BY DEF Device!ToSet, ToSet
<1>3. \A S : Device!Min(S) = Min(S)
  BY DEF Device!Min, Min
<1>6. \A S, keys : Device!InOrder(S, keys) = InOrder(S, keys)
  BY DEF Device!InOrder, InOrder, Device!Sooner, Sooner, Device!Before, Before, Device!Cardinality, Cardinality
<1>7. \A rows, q : Device!RowsAt(rows, q) = RowsAt(rows, q)
  BY <1>1 DEF Device!RowsAt, RowsAt, Device!MapSeq, MapSeq
<1>8. \A rows : Device!Unkeyed(rows) = Unkeyed(rows)
  BY <1>1 DEF Device!Unkeyed, Unkeyed, Device!MapSeq, MapSeq
<1>9. \A rows, S : Device!Taken(rows, S) = Taken(rows, S)
  BY <1>6, <1>7, <1>8 DEF Device!Taken, Taken
<1>10. \A rows, keys : Device!Sorted(rows, keys) = Sorted(rows, keys)
  BY <1>1, <1>6, <1>7 DEF Device!Sorted, Sorted
<1>11. \A rows, n : Device!Limit(rows, n) = Limit(rows, n)
  BY <1>3 DEF Device!Limit, Limit
<1>12. \A rows, S : Device!FirstAt(rows, S) = FirstAt(rows, S)
  BY <1>3 DEF Device!FirstAt, FirstAt
<1>13. \A keys : Device!Firsts(keys) = Firsts(keys)
  BY <1>1 DEF Device!Firsts, Firsts
<1> QED
  BY <1>1, <1>2, <1>3, <1>9, <1>10, <1>11, <1>12, <1>13

(* The lesser key has no greater first part.                               *)
LEMMA LesserLeads ==
    ASSUME NEW a \in Seq(Int), NEW b \in Seq(Int), Before(a, b) \/ a = b, Len(a) >= 1, Len(b) >= 1
    PROVE  a[1] <= b[1]
<1>1. 1 \in 1..Len(a) /\ 1 \in 1..Len(b) /\ a[1] \in Int /\ b[1] \in Int
  OBVIOUS
<1>2. CASE Before(a, b)
  <2>1. PICK k \in 0..Len(a) : k < Len(b) /\ SameUpTo(a, b, k) /\ (k = Len(a) \/ a[k + 1] < b[k + 1])
    BY <1>2, BeforeMeans
  <2>2. CASE k = 0
    <3>1. a[0 + 1] < b[0 + 1]
      BY <2>1, <2>2
    <3> QED BY <3>1, <1>1
  <2>3. CASE k # 0
    <3>1. 1 \in 1..k
      BY <2>3
    <3>2. a[1] = b[1]
      BY <2>1, <3>1 DEF SameUpTo
    <3> QED BY <3>2, <1>1
  <2> QED
    BY <2>2, <2>3
<1> QED
  BY <1>1, <1>2

-----------------------------------------------------------------------------
(* Every bundle that comes about is one of the schema.                     *)

Inv == screen \in DOMAIN Base /\ IsBundle(db)

(* A screen starts with a bundle of the schema ...                         *)
LEMMA BundleInit == Init => Inv
  BY RowsAreOfTheSchema DEF Init, Inv

(* ... and a row inserted under a new key leaves it one.                   *)
LEMMA BundleStep == Inv /\ [Next]_vars => Inv'
<1>1. ASSUME Inv, UNCHANGED vars PROVE Inv'
  BY <1>1 DEF Inv, vars, IsBundle
<1>2. ASSUME Inv, InsertRow PROVE Inv'
  <2>1. screen \in DOMAIN Base /\ screen' = screen
    BY <1>2 DEF Inv, InsertRow
  <2>2. PICK t \in DOMAIN Rows[screen] : \E r \in Rows[screen][t] :
          /\ t \in Keyed => \A i \in Places(db[t]) : KeyOf(t, db[t][i]) # KeyOf(t, r)
          /\ db' = [db EXCEPT ![t] = Append(@, r)]
    BY <1>2 DEF InsertRow
  <2>3. PICK r \in Rows[screen][t] :
          /\ t \in Keyed => \A i \in Places(db[t]) : KeyOf(t, db[t][i]) # KeyOf(t, r)
          /\ db' = [db EXCEPT ![t] = Append(@, r)]
    BY <2>2
  <2>4. t \in DOMAIN Schema /\ r \in Schema[t]
    BY <2>1, <2>2, <2>3, RowsAreOfTheSchema
  <2>5. DOMAIN Schema \subseteq DOMAIN db /\ db[t] \in Seq(Schema[t])
    BY <1>2, <2>4 DEF Inv, IsBundle
  <2>6. DOMAIN db' = DOMAIN db /\ db'[t] = Append(db[t], r) /\ \A s \in DOMAIN db : s # t => db'[s] = db[s]
    BY <2>3, <2>4, <2>5
  <2>7. db'[t] \in Seq(Schema[t]) /\ Places(db'[t]) = Places(db[t]) \cup {Len(db[t]) + 1}
    BY <2>4, <2>5, <2>6 DEF Places
  <2>8. ASSUME t \in Keyed, NEW i \in Places(db'[t]), NEW j \in Places(db'[t]),
               KeyOf(t, db'[t][i]) = KeyOf(t, db'[t][j])
        PROVE  i = j
    <3> DEFINE n == Len(db[t])
    <3>1. /\ \A k \in Places(db[t]) : db'[t][k] = db[t][k]
          /\ db'[t][n + 1] = r
      BY <2>5, <2>6 DEF Places
    <3>2. \A k, l \in Places(db[t]) : KeyOf(t, db[t][k]) = KeyOf(t, db[t][l]) => k = l
      BY <1>2, <2>4, <2>8 DEF Inv, IsBundle
    <3>3. \A k \in Places(db[t]) : KeyOf(t, db[t][k]) # KeyOf(t, r)
      BY <2>3, <2>8
    <3> QED
      BY <2>7, <2>8, <3>1, <3>2, <3>3
  <2>9. ASSUME NEW s \in DOMAIN Schema
        PROVE  /\ s \in DOMAIN db' /\ db'[s] \in Seq(Schema[s])
               /\ s \in Keyed => \A i, j \in Places(db'[s]) : KeyOf(s, db'[s][i]) = KeyOf(s, db'[s][j]) => i = j
    <3>1. CASE s = t
      BY <3>1, <2>5, <2>6, <2>7, <2>8
    <3>2. CASE s # t
      <4>1. db'[s] = db[s]
        BY <3>2, <2>5, <2>6
      <4>2. /\ s \in DOMAIN db /\ db[s] \in Seq(Schema[s])
            /\ s \in Keyed => \A i, j \in Places(db[s]) : KeyOf(s, db[s][i]) = KeyOf(s, db[s][j]) => i = j
        BY <1>2 DEF Inv, IsBundle
      <4> QED
        BY <4>1, <4>2, <2>6
    <3> QED
      BY <3>1, <3>2
  <2>10. IsBundle(db')
    BY <2>9 DEF IsBundle
  <2> QED
    BY <2>1, <2>10 DEF Inv
<1> QED
  BY <1>1, <1>2 DEF Next

(* The bundle is one of the schema, each row of it under a key of its own. *)
THEOREM SpecBundle == Spec => []Inv
  BY BundleInit, BundleStep, PTL DEF Spec

(* What the queries need of the tables of a bundle.                        *)
LEMMA Tables ==
    ASSUME Inv
    PROVE  /\ \A t \in DOMAIN Schema : db[t] \in Seq(Schema[t])
           /\ IsInjective(db.airport) /\ IsInjective(db.airspace)
           /\ \A p, r \in ToSet(db.procedure) : p.id = r.id => p = r
<1>1. \A t \in DOMAIN Schema : db[t] \in Seq(Schema[t])
  BY DEF Inv, IsBundle
<1>2. \A t \in Keyed : t \in DOMAIN Schema
  BY DEF Keyed, Schema
<1>3. \A t \in Keyed : \A i, j \in Places(db[t]) : KeyOf(t, db[t][i]) = KeyOf(t, db[t][j]) => i = j
  BY <1>2 DEF Inv, IsBundle
<1>4. \A t \in Keyed : DOMAIN db[t] = Places(db[t])
  BY <1>1, <1>2 DEF Places
<1>5. \A t \in Keyed : IsInjective(db[t])
  BY <1>3, <1>4 DEF IsInjective
<1>6. ASSUME NEW p \in ToSet(db.procedure), NEW r \in ToSet(db.procedure), p.id = r.id PROVE p = r
  <2>1. "procedure" \in Keyed /\ "procedure" # "airport"
    BY DEF Keyed
  <2>2. PICK i \in Places(db.procedure), j \in Places(db.procedure) : p = db.procedure[i] /\ r = db.procedure[j]
    BY <1>4, <2>1 DEF ToSet
  <2> QED
    BY <1>3, <1>6, <2>1, <2>2 DEF KeyOf
<1> QED
  BY <1>1, <1>5, <1>6 DEF Keyed

-----------------------------------------------------------------------------
(* The map.                                                                *)

(* An identifier is a text without wildcards, and not empty.               *)
LEMMA IdentIsText ==
    ASSUME NEW x \in Ident
    PROVE  /\ x \in Seq(Int) /\ Len(x) >= 1
           /\ \A i \in Places(x) : x[i] \in 1..99 /\ x[i] # Underscore
<1>1. x \in Seq((1..99) \ {Underscore}) /\ x # <<>>
  BY DEF Ident
<1>2. Len(x) \in Nat /\ x = [i \in 1..Len(x) |-> x[i]]
  BY <1>1
<1>3. \A i \in 1..Len(x) : x[i] \in (1..99) \ {Underscore}
  BY <1>1
<1>4. \A i \in 1..Len(x) : x[i] \in Int
  <2> TAKE i \in 1..Len(x)
  <2>1. x[i] \in 1..99
    BY <1>3
  <2>2. 1..99 \subseteq Int
    OBVIOUS
  <2> QED BY <2>1, <2>2
<1>5. x \in Seq(Int)
  BY <1>2, <1>4, ListOf
<1>6. Len(x) # 0
  BY <1>1
<1> QED
  BY <1>2, <1>3, <1>5, <1>6 DEF Places

(* What is known of a viewport.                                            *)
LEMMA BoxIs ==
    ASSUME NEW box \in Boxes
    PROVE  /\ box.west \in -180..180 /\ box.east \in -180..180 /\ box.south \in Int /\ box.north \in Int
           /\ box.west \in Int /\ box.east \in Int /\ box \in View
           /\ box.west <= box.east => box.east < 180 \/ box.west = -180
<1>1. -180..180 \subseteq Int
  OBVIOUS
<1> QED
  BY <1>1, BoxesAreViews DEF View, Longitude

(* The device's longitude predicate finds what is in view: one span, or    *)
(* two across the antimeridian.                                            *)
LEMMA SeenIs ==
    ASSUME NEW box \in Boxes, NEW lat \in Int, NEW lon \in -180..180
    PROVE  InView(box, lat, lon) <=> box.south <= lat /\ lat <= box.north /\ Device!LonPredicate(box, lon)
<1> DEFINE East == IF box.east < box.west THEN box.east + 360 ELSE box.east
<1>1. /\ box.west \in -180..180 /\ box.east \in -180..180
      /\ box.west <= box.east => box.east < 180 \/ box.west = -180
  BY BoxIs
<1>2. InView(box, lat, lon) <=>
        /\ box.south <= lat /\ lat <= box.north
        /\ (box.west <= lon + 0 /\ lon + 0 <= East) \/ (box.west <= lon + 360 /\ lon + 360 <= East)
  BY DEF InView, FullCircle
<1>3. Device!LonPredicate(box, lon) <=>
        IF box.west <= box.east THEN box.west <= lon /\ lon <= box.east ELSE lon >= box.west \/ lon <= box.east
  BY DEF Device!LonPredicate
<1>4. CASE box.west <= box.east
  <2>1. East = box.east
    <3>1. box.east \in Int /\ box.west \in Int
      BY <1>1
    <3>2. ~(box.east < box.west)
      BY <3>1, <1>4
    <3> QED BY <3>2
  <2> HIDE DEF East
  <2>2. (box.west <= lon + 0 /\ lon + 0 <= East) \/ (box.west <= lon + 360 /\ lon + 360 <= East)
          <=> box.west <= lon /\ lon <= box.east
    BY <2>1, <1>1, <1>4
  <2> QED
    BY <2>2, <1>2, <1>3, <1>4
<1>5. CASE ~(box.west <= box.east)
  <2>1. East = box.east + 360
    <3>1. box.east \in Int /\ box.west \in Int
      BY <1>1
    <3>2. box.east < box.west
      BY <3>1, <1>5
    <3> QED BY <3>2
  <2> HIDE DEF East
  <2>2. (box.west <= lon + 0 /\ lon + 0 <= East) \/ (box.west <= lon + 360 /\ lon + 360 <= East)
          <=> lon >= box.west \/ lon <= box.east
    BY <2>1, <1>1, <1>5
  <2> QED
    BY <2>2, <1>2, <1>3, <1>5
<1> QED
  BY <1>4, <1>5

(* The lesser of two.                                                      *)
LEMMA MinOfTwo ==
    ASSUME NEW m \in Nat, NEW n \in Nat
    PROVE  Min({m, n}) = IF m <= n THEN m ELSE n
<1>1. {m, n} \in SUBSET Nat /\ {m, n} # {}
  OBVIOUS
<1> QED
  BY <1>1, MinIs

(* A list without repetitions that is sorted and cut: what is cut does not *)
(* come before what is kept.                                               *)
CutOf(rows, keys, n, out) ==
    /\ ToSet(out) \subseteq ToSet(rows)
    /\ Cardinality(ToSet(out)) = Min({n, Cardinality(ToSet(rows))})
    /\ \A cut \in ToSet(rows) \ ToSet(out), kept \in ToSet(out) :
         /\ Cardinality(ToSet(out)) = n
         /\ \E i, j \in Places(rows) : rows[i] = kept /\ rows[j] = cut /\ Sooner(keys, i, j)

(* A list sorted and then cut is what CutOf says.                          *)
LEMMA CutIs ==
    ASSUME NEW X, NEW rows \in Seq(X), IsInjective(rows),
           NEW keys, \A i \in Places(rows) : keys[i] \in Seq(Int), NEW n \in Nat
    PROVE  CutOf(rows, keys, n, Limit(Sorted(rows, keys), n))
<1> DEFINE all == Sorted(rows, keys)
           out == Limit(all, n)
<1>1. all \in Seq(X) /\ IsInjective(all) /\ SortedOf(rows, keys, all)
  BY SortedIs, SortedOnce
<1>2. out \in Seq(X) /\ LimitOf(all, n, out)
  BY <1>1, LimitIs
<1> HIDE DEF all, out
<1>3. /\ Len(all) \in Nat /\ DOMAIN all = Places(all) /\ Places(all) = 1..Len(all)
      /\ Len(out) \in Nat /\ DOMAIN out = Places(out) /\ Places(out) = 1..Len(out)
  BY <1>1, <1>2 DEF Places
<1>4. IsInjective(out)
  <2>1. \A k \in Places(out) : k \in Places(all) /\ out[k] = all[k]
    BY <1>2 DEF LimitOf
  <2> QED
    BY <2>1, <1>1, <1>3 DEF IsInjective
<1>5. /\ Cardinality(ToSet(out)) = Len(out)
      /\ Cardinality(ToSet(rows)) = Len(rows)
      /\ Len(rows) = Len(all)
      /\ ToSet(rows) = ToSet(all)
  BY <1>1, <1>2, <1>4, CardinalityOfList DEF SortedOf
<1>6. ToSet(out) \subseteq ToSet(rows)
  <2>1. \A k \in Places(out) : k \in Places(all) /\ out[k] = all[k]
    BY <1>2 DEF LimitOf
  <2> QED
    BY <2>1, <1>3, <1>5 DEF ToSet
<1>7. Cardinality(ToSet(out)) = Min({n, Cardinality(ToSet(rows))})
  <2>1. Min({n, Len(all)}) = IF n <= Len(all) THEN n ELSE Len(all)
    BY <1>3, MinOfTwo
  <2>2. Len(out) <= Len(all) /\ Len(out) <= n /\ (Len(out) = n \/ Len(out) = Len(all))
    BY <1>2 DEF LimitOf
  <2>3. Len(out) = Min({n, Len(all)})
    <3>1. Len(out) \in Int /\ Len(all) \in Int /\ n \in Int
      BY <1>3
    <3>2. CASE n <= Len(all)
      BY <3>1, <3>2, <2>1, <2>2
    <3>3. CASE ~(n <= Len(all))
      BY <3>1, <3>3, <2>1, <2>2
    <3> QED
      BY <3>2, <3>3
  <2> QED
    BY <2>3, <1>5
<1>8. ASSUME NEW cut \in ToSet(rows) \ ToSet(out), NEW kept \in ToSet(out)
      PROVE  /\ Cardinality(ToSet(out)) = n
             /\ \E i, j \in Places(rows) : rows[i] = kept /\ rows[j] = cut /\ Sooner(keys, i, j)
  <2>1. PICK l \in Places(all) : all[l] = cut
    BY <1>3, <1>5 DEF ToSet
  <2>2. PICK k \in Places(out) : out[k] = kept
    BY <1>3 DEF ToSet
  <2>3. k \in Places(all) /\ all[k] = kept
    BY <2>2, <1>2 DEF LimitOf
  <2>4. l \notin Places(out)
    BY <2>1, <1>2, <1>3 DEF LimitOf, ToSet
  <2>5. k < l /\ Len(out) # Len(all)
    <3>1. l \in 1..Len(all) /\ k \in 1..Len(out) /\ l \notin 1..Len(out) /\ Len(all) \in Nat /\ Len(out) \in Nat
      BY <2>1, <2>2, <2>4, <1>3
    <3> QED
      BY <3>1
  <2>6. \E i, j \in Places(rows) : Sooner(keys, i, j) /\ all[k] = rows[i] /\ all[l] = rows[j]
    BY <2>1, <2>3, <2>5, <1>1 DEF SortedOf
  <2> QED
    BY <2>1, <2>3, <2>5, <2>6, <1>2, <1>5 DEF LimitOf
<1>9. CutOf(rows, keys, n, out)
  BY <1>6, <1>7, <1>8 DEF CutOf
<1> QED
  BY <1>9 DEF out, all

(* The airports of a viewport: no field without a procedure takes the      *)
(* place of one with.                                                      *)
LEMMA AirportsOfBox ==
    ASSUME Inv, NEW box \in Boxes, NEW n \in Nat
    PROVE  LET inside == {a \in ToSet(db.airport) : InView(box, a.lat, a.lon)}
               fields == ToSet(Device!AirportsInBbox(db, box, n)) IN
           /\ fields \subseteq inside /\ Cardinality(fields) = Min({n, Cardinality(inside)})
           /\ \A cut \in inside \ fields, kept \in fields :
                Device!HasProcedures(db, cut) => Device!HasProcedures(db, kept)
<1> DEFINE X == Schema.airport
           table == db.airport
           inside == {a \in ToSet(table) : InView(box, a.lat, a.lon)}
           S == {i \in Places(table) : box.south <= table[i].lat /\ table[i].lat <= box.north
                                         /\ Device!LonPredicate(box, table[i].lon)}
           rows == Taken(table, S)
           KeyAt(a) == <<Device!TrueFirst(Device!HasProcedures(db, a)), Device!TrueFirst(a.type = "Airport")>> \o a.icao
           keys == [i \in Places(rows) |-> KeyAt(rows[i])]
           out == Limit(Sorted(rows, keys), n)
<1>1. Device!AirportsInBbox(db, box, n) = out
  BY SameTools DEF Device!AirportsInBbox, Device!Matching, Device!OrderedBy, Device!MapSeq
<1>2. table \in Seq(X) /\ IsInjective(table) /\ S \in SUBSET Places(table)
  BY Tables DEF Schema
<1>3. rows \in Seq(X) /\ TakenOf(table, S, rows) /\ IsInjective(rows)
  <2> HIDE DEF X, table, S
  <2> QED BY <1>2, TakenIs, TakenOnce
<1>4. \A a \in X : a.lat \in Int /\ a.lon \in -180..180 /\ a.icao \in Seq(Int)
  BY IdentIsText DEF Schema, Longitude
<1>5. ToSet(rows) = inside
  <2>1. DOMAIN table = Places(table) /\ \A i \in Places(table) : table[i] \in X
    BY <1>2 DEF Places
  <2>2. \A i \in Places(table) : InView(box, table[i].lat, table[i].lon) <=> i \in S
    <3> HIDE DEF X, table
    <3> QED BY <2>1, <1>4, SeenIs
  <2>3. ToSet(rows) = {table[i] : i \in S}
    BY <1>3 DEF TakenOf
  <2> HIDE DEF X, S, rows, table
  <2> QED
    BY <2>1, <2>2, <2>3, <1>2 DEF ToSet
<1>6. \A a \in X : /\ KeyAt(a) \in Seq(Int) /\ Len(KeyAt(a)) >= 1
                   /\ KeyAt(a)[1] = IF Device!HasProcedures(db, a) THEN 0 ELSE 1
  <2> TAKE a \in X
  <2>1. a.icao \in Seq(Int)
    BY <1>4
  <2> HIDE DEF X
  <2> QED
    BY <2>1 DEF Device!TrueFirst
<1>7. \A i \in Places(rows) : rows[i] \in X /\ keys[i] = KeyAt(rows[i])
  <2> HIDE DEF X, rows, KeyAt
  <2> QED BY <1>3 DEF Places
<1>8. CutOf(rows, keys, n, out)
  <2>1. \A i \in Places(rows) : keys[i] \in Seq(Int)
    <3> HIDE DEF X, rows, KeyAt, keys
    <3> QED BY <1>6, <1>7
  <2> HIDE DEF X, rows, keys
  <2> QED
    BY <2>1, <1>3, CutIs
<1>9. ASSUME NEW cut \in inside \ ToSet(out), NEW kept \in ToSet(out), Device!HasProcedures(db, cut)
      PROVE  Device!HasProcedures(db, kept)
  <2>1. PICK i \in Places(rows), j \in Places(rows) : rows[i] = kept /\ rows[j] = cut /\ Sooner(keys, i, j)
    <3> HIDE DEF inside, rows, keys, out
    <3> QED BY <1>5, <1>8 DEF CutOf
  <2>2. /\ kept \in X /\ cut \in X /\ keys[i] = KeyAt(kept) /\ keys[j] = KeyAt(cut)
        /\ Before(keys[i], keys[j]) \/ keys[i] = keys[j]
    <3> HIDE DEF X, rows, keys, KeyAt
    <3> QED BY <2>1, <1>7 DEF Sooner
  <2>3. KeyAt(kept)[1] <= KeyAt(cut)[1]
    <3> HIDE DEF X, rows, keys, KeyAt
    <3> QED BY <2>2, <1>6, LesserLeads
  <2> HIDE DEF X, rows, keys, KeyAt
  <2> QED
    BY <2>2, <2>3, <1>6, <1>9
<1>10. /\ ToSet(out) \subseteq inside /\ Cardinality(ToSet(out)) = Min({n, Cardinality(inside)})
  <2> HIDE DEF inside, rows, keys, out
  <2> QED BY <1>5, <1>8 DEF CutOf
<1> QED
  BY <1>1, <1>9, <1>10

(* A list within its cap is not cut.                                       *)
LEMMA UncutIs ==
    ASSUME NEW X, NEW rows \in Seq(X), NEW keys, \A i \in Places(rows) : keys[i] \in Seq(Int),
           NEW n \in Nat, Len(rows) <= n
    PROVE  ToSet(Limit(Sorted(rows, keys), n)) = ToSet(rows)
<1> DEFINE all == Sorted(rows, keys)
           out == Limit(all, n)
<1>1. all \in Seq(X) /\ SortedOf(rows, keys, all)
  BY SortedIs
<1>2. out \in Seq(X) /\ LimitOf(all, n, out)
  BY <1>1, LimitIs
<1> HIDE DEF all, out
<1>3. /\ Len(all) \in Nat /\ DOMAIN all = Places(all) /\ Places(all) = 1..Len(all)
      /\ Len(out) \in Nat /\ DOMAIN out = Places(out) /\ Places(out) = 1..Len(out)
  BY <1>1, <1>2 DEF Places
<1>4. Len(out) = Len(all)
  <2>1. Len(all) <= n
    BY <1>1 DEF SortedOf
  <2>2. Len(out) <= Len(all) /\ (Len(out) = n \/ Len(out) = Len(all))
    BY <1>2 DEF LimitOf
  <2>3. Len(all) \in Int /\ Len(out) \in Int
    BY <1>3
  <2> QED
    BY <2>1, <2>2, <2>3
<1>5. ToSet(out) = ToSet(all)
  <2>1. \A k \in Places(all) : out[k] = all[k]
    BY <1>2, <1>3, <1>4 DEF LimitOf
  <2> QED
    BY <2>1, <1>3, <1>4 DEF ToSet
<1>6. ToSet(all) = ToSet(rows)
  BY <1>1 DEF SortedOf
<1>7. ToSet(out) = ToSet(rows)
  BY <1>5, <1>6
<1> QED
  BY <1>7 DEF out, all

(* Two lists one after the other.                                          *)
LEMMA JoinIs ==
    ASSUME NEW X, NEW a \in Seq(X), NEW b \in Seq(X)
    PROVE  /\ a \o b \in Seq(X) /\ Len(a \o b) = Len(a) + Len(b)
           /\ \A i \in 1..(Len(a) + Len(b)) : (a \o b)[i] = IF i <= Len(a) THEN a[i] ELSE b[i - Len(a)]
  OBVIOUS

(* A key of two numbers and a text is a text.                              *)
LEMMA PairBefore ==
    ASSUME NEW u \in Int, NEW k \in Int, NEW s \in Seq(Int)
    PROVE  <<u, k>> \o s \in Seq(Int) /\ Len(<<u, k>> \o s) >= 1 /\ (<<u, k>> \o s)[1] = u
<1>1. <<u, k>> \in Seq(Int) /\ Len(<<u, k>>) = 2 /\ <<u, k>>[1] = u
  OBVIOUS
<1>2. ASSUME NEW p \in Seq(Int), Len(p) = 2, p[1] = u
      PROVE  p \o s \in Seq(Int) /\ Len(p \o s) >= 1 /\ (p \o s)[1] = u
  <2>1. Len(p) \in Nat /\ Len(s) \in Nat
    OBVIOUS
  <2>2. p \o s \in Seq(Int) /\ Len(p \o s) = Len(p) + Len(s)
    OBVIOUS
  <2>3. 1 \in 1..(Len(p) + Len(s)) /\ 1 <= Len(p)
    BY <2>1, <1>2
  <2>4. (p \o s)[1] = p[1]
    BY <2>3, JoinIs
  <2>5. 2 + Len(s) >= 1
    BY <2>1
  <2> QED
    BY <2>2, <2>4, <2>5, <1>2
<1> QED
  BY <1>1, <1>2

(* A text has a place in every list of texts.                              *)
LEMMA PlaceIsNumber ==
    ASSUME NEW order, Len(order) \in Nat, NEW text
    PROVE  Device!PlaceIn(order, text) \in Nat
<1> DEFINE at == {i \in Device!Places(order) : order[i] = text}
<1>1. Device!PlaceIn(order, text) = IF at = {} THEN Len(order) + 1 ELSE Device!Min(at)
  BY DEF Device!PlaceIn
<1>2. at \in SUBSET Nat
  BY DEF Device!Places
<1>3. at # {} => Device!Min(at) \in Nat
  <2> HIDE DEF at
  <2> QED BY <1>2, MinIs, SameTools
<1> HIDE DEF at
<1> QED
  BY <1>1, <1>3

(* Every class and every kind of frequency has one.                        *)
LEMMA RankIs ==
    /\ \A class : Device!PlaceIn(Device!ClassOrder, class) \in Nat
    /\ \A kind : Device!RankOf(kind) \in Nat
<1>1. Len(Device!ClassOrder) = 18 /\ Len(Device!FrequencyKindOrder) = 10
  BY DEF Device!ClassOrder, Device!FrequencyKindOrder
<1>2. Len(Device!ClassOrder) \in Nat /\ Len(Device!FrequencyKindOrder) \in Nat
  BY <1>1
<1> QED
  BY <1>2, PlaceIsNumber DEF Device!RankOf

(* Class E is not drawn as early as a prohibited area.                     *)
LEMMA ProhibitedFirst ==
    \A c, d : Device!AirspacePriority(c) <= Device!AirspacePriority(d) /\ d = "PROHIBITED" => c # "E"
<1>1. Device!AirspacePriority("PROHIBITED") = 1 /\ Device!AirspacePriority("E") = 4
  BY DEF Device!AirspacePriority
<1>2. ~(4 <= 1)
  OBVIOUS
<1> QED
  BY <1>1, <1>2

(* The volumes that a viewport meets, the ones a pilot heeds first.        *)
LEMMA AirspaceOfBox ==
    ASSUME Inv, NEW box \in Boxes, NEW n \in Nat
    PROVE  LET touched == {v \in ToSet(db.airspace) : CornerInView(box, v)}
               volumes == ToSet(Device!AirspaceInBbox(db, box, n)) IN
           /\ \A cut \in touched \ volumes :
                /\ Cardinality(volumes) = n
                /\ \A kept \in volumes : cut.class = "PROHIBITED" => kept.class # "E"
           /\ box.west <= box.east /\ n = Len(db.airspace) =>
                volumes = {v \in ToSet(db.airspace) : Overlaps(box, v)}
<1> DEFINE X == Schema.airspace
           table == db.airspace
           touched == {v \in ToSet(table) : CornerInView(box, v)}
           Across(v) == IF box.west <= box.east THEN v.box.east >= box.west /\ v.box.west <= box.east
                        ELSE v.box.east >= box.west \/ v.box.west <= box.east
           Met(v) == v.box.north >= box.south /\ v.box.south <= box.north /\ Across(v)
           S == {i \in Places(table) : Met(table[i])}
           rows == Taken(table, S)
           KeyAt(v) == <<Device!AirspacePriority(v.class), Device!PlaceIn(Device!ClassOrder, v.class)>> \o v.name
           keys == [i \in Places(rows) |-> KeyAt(rows[i])]
           out == Limit(Sorted(rows, keys), n)
<1>1. Device!AirspaceInBbox(db, box, n) = out
  BY SameTools DEF Device!AirspaceInBbox, Device!Matching, Device!OrderedBy, Device!MapSeq
<1>2. table \in Seq(X) /\ IsInjective(table) /\ S \in SUBSET Places(table)
  BY Tables DEF Schema
<1>3. rows \in Seq(X) /\ TakenOf(table, S, rows) /\ IsInjective(rows)
  <2> HIDE DEF X, table, S
  <2> QED BY <1>2, TakenIs, TakenOnce
<1>4. \A v \in X : v.name \in Seq(Int) /\ v.box \in Extent /\ v.class \in STRING
  BY DEF Schema, Text
<1>5. \A b \in Extent : /\ b.west \in -180..180 /\ b.east \in -180..180 /\ b.south \in Int /\ b.north \in Int
                        /\ b.south <= b.north /\ b.west <= b.east /\ b.west \in Int /\ b.east \in Int
  <2>1. -180..180 \subseteq Int
    OBVIOUS
  <2> QED
    BY <2>1 DEF Extent, View, Longitude
<1>6. ToSet(rows) = {v \in ToSet(table) : Met(v)}
  <2>1. DOMAIN table = Places(table)
    BY <1>2 DEF Places
  <2>2. ToSet(rows) = {table[i] : i \in S}
    BY <1>3 DEF TakenOf
  <2> HIDE DEF X, rows, table, Met
  <2> QED
    BY <2>1, <2>2, <1>2 DEF ToSet
<1>7. ASSUME NEW v \in X, CornerInView(box, v) PROVE Met(v)
  <2> DEFINE b == v.box
  <2>1. /\ b.west \in -180..180 /\ b.east \in -180..180 /\ b.south \in Int /\ b.north \in Int
        /\ b.south <= b.north /\ b.west <= b.east /\ b.west \in Int /\ b.east \in Int
    <3>1. b \in Extent
      <4> HIDE DEF X
      <4> QED BY <1>4, <1>7
    <3> HIDE DEF b
    <3> QED BY <3>1, <1>5
  <2>2. PICK lat \in {v.box.south, v.box.north}, lon \in {v.box.west, v.box.east} : InView(box, lat, lon)
    BY <1>7 DEF CornerInView
  <2>3. lat \in Int /\ lon \in -180..180 /\ lon \in Int
    BY <2>1, <2>2
  <2>4. box.south <= lat /\ lat <= box.north /\ Device!LonPredicate(box, lon)
    BY <2>2, <2>3, SeenIs
  <2>5. v.box.west <= lon /\ lon <= v.box.east /\ v.box.south <= lat /\ lat <= v.box.north
    BY <2>1, <2>2
  <2>6. IF box.west <= box.east THEN box.west <= lon /\ lon <= box.east ELSE lon >= box.west \/ lon <= box.east
    BY <2>4 DEF Device!LonPredicate
  <2>7. box.west \in Int /\ box.east \in Int /\ box.south \in Int /\ box.north \in Int
    BY BoxIs
  <2>8. b.north >= box.south /\ b.south <= box.north
    BY <2>1, <2>3, <2>4, <2>5, <2>7
  <2>9. Across(v)
    BY <2>1, <2>3, <2>5, <2>6, <2>7
  <2> HIDE DEF Across
  <2> QED
    BY <2>8, <2>9
<1>8. \A v \in X : KeyAt(v) \in Seq(Int) /\ Len(KeyAt(v)) >= 1 /\ KeyAt(v)[1] = Device!AirspacePriority(v.class)
  <2> TAKE v \in X
  <2>1. v.name \in Seq(Int)
    BY <1>4
  <2> DEFINE u == Device!AirspacePriority(v.class)
             k == Device!PlaceIn(Device!ClassOrder, v.class)
             s == v.name
  <2>2. u \in Int
    BY DEF Device!AirspacePriority
  <2>3. k \in Int
    <3> k \in Nat
      BY RankIs
    <3> QED OBVIOUS
  <2> HIDE DEF X, u, k, s
  <2>4. s \in Seq(Int)
    BY <2>1 DEF s
  <2>5. <<u, k>> \o s \in Seq(Int) /\ Len(<<u, k>> \o s) >= 1 /\ (<<u, k>> \o s)[1] = u
    BY <2>2, <2>3, <2>4, PairBefore
  <2> QED
    BY <2>5 DEF u, k, s
<1>9. \A i \in Places(rows) : rows[i] \in X /\ keys[i] = KeyAt(rows[i])
  <2> HIDE DEF X, rows, KeyAt
  <2> QED BY <1>3 DEF Places
<1>10. \A i \in Places(rows) : keys[i] \in Seq(Int)
  <2> HIDE DEF X, rows, KeyAt, keys
  <2> QED BY <1>8, <1>9
<1>11. CutOf(rows, keys, n, out)
  <2> HIDE DEF X, rows, keys
  <2> QED
    BY <1>3, <1>10, CutIs
<1>12. ASSUME NEW cut \in touched \ ToSet(out)
       PROVE  /\ Cardinality(ToSet(out)) = n
              /\ \A kept \in ToSet(out) : cut.class = "PROHIBITED" => kept.class # "E"
  <2>1. cut \in X
    <3>1. DOMAIN table = Places(table) /\ \A i \in Places(table) : table[i] \in X
      <4> HIDE DEF X, table, S
      <4> QED BY <1>2, ListIs
    <3> HIDE DEF X, table, out
    <3> QED BY <3>1 DEF ToSet
  <2>2. cut \in ToSet(rows) \ ToSet(out)
    <3> HIDE DEF X, rows, table, out, Met
    <3> QED BY <2>1, <1>6, <1>7
  <2>3. Cardinality(ToSet(out)) = n
    <3>1. CASE ToSet(out) = {}
      <4>1. Cardinality(ToSet(out)) = 0
        BY <3>1, FS_EmptySet
      <4>2. Cardinality(ToSet(rows)) \in Nat /\ Cardinality(ToSet(rows)) # 0
        <5>1. IsFiniteSet(ToSet(rows)) /\ ToSet(rows) # {}
          <6> HIDE DEF X, rows
          <6> QED BY <2>2, <1>3, CardinalityOfList
        <5> HIDE DEF rows
        <5> QED BY <5>1, FS_EmptySet, FS_CardinalityType
      <4>3. Cardinality(ToSet(out)) = Min({n, Cardinality(ToSet(rows))})
        <5> HIDE DEF rows, keys, out
        <5> QED BY <1>11 DEF CutOf
      <4> HIDE DEF rows, out
      <4> QED BY <4>1, <4>2, <4>3, MinOfTwo
    <3>2. CASE ToSet(out) # {}
      <4> HIDE DEF rows, keys, out
      <4> QED BY <3>2, <2>2, <1>11 DEF CutOf
    <3> QED BY <3>1, <3>2
  <2>4. ASSUME NEW kept \in ToSet(out), cut.class = "PROHIBITED" PROVE kept.class # "E"
    <3>1. PICK i \in Places(rows), j \in Places(rows) : rows[i] = kept /\ rows[j] = cut /\ Sooner(keys, i, j)
      <4> HIDE DEF rows, keys, out
      <4> QED BY <2>2, <1>11 DEF CutOf
    <3>2. /\ kept \in X /\ keys[i] = KeyAt(kept) /\ keys[j] = KeyAt(cut)
          /\ Before(keys[i], keys[j]) \/ keys[i] = keys[j]
      <4> HIDE DEF X, rows, keys, KeyAt
      <4> QED BY <3>1, <1>9 DEF Sooner
    <3>3. KeyAt(kept)[1] <= KeyAt(cut)[1]
      <4> HIDE DEF X, rows, keys, KeyAt
      <4> QED BY <3>2, <2>1, <1>8, LesserLeads
    <3>4. Device!AirspacePriority(kept.class) <= Device!AirspacePriority(cut.class)
      <4> HIDE DEF X, KeyAt
      <4> QED BY <3>2, <3>3, <2>1, <1>8
    <3> QED
      BY <3>4, <2>4, ProhibitedFirst
  <2> QED
    BY <2>3, <2>4
<1>13. ASSUME box.west <= box.east, n = Len(table)
       PROVE  ToSet(out) = {v \in ToSet(table) : Overlaps(box, v)}
  <2>1. Len(rows) <= n
    <3>1. S \in SUBSET (1..Len(table)) /\ Len(table) \in Nat
      BY <1>2 DEF Places
    <3>2. Cardinality(S) <= Len(table)
      <4> HIDE DEF S, table
      <4> QED BY <3>1, FinitePlaces
    <3> HIDE DEF rows, S, table
    <3> QED BY <3>2, <1>3, <1>13 DEF TakenOf
  <2>2. ToSet(out) = ToSet(rows)
    <3> HIDE DEF X, rows, keys
    <3> QED BY <2>1, <1>3, <1>10, UncutIs
  <2>3. \A v : Met(v) <=> Overlaps(box, v)
    <3>1. box # None
      BY BoxIs, NoneIsNoRow
    <3> QED
      BY <3>1, <1>13 DEF Overlaps
  <2> HIDE DEF rows, out, table, Met
  <2> QED
    BY <2>2, <2>3, <1>6
<1> HIDE DEF out, touched
<1> QED
  BY <1>1, <1>12, <1>13 DEF touched

(* parse_bbox reads the viewport the web sends.                            *)
LEMMA BoxOfParts ==
    ASSUME NEW box \in Boxes
    PROVE  ParseBbox(PartsOf(box)) = box /\ box # None
<1> DEFINE parts == PartsOf(box)
           bad == {i \in Places(parts) : parts[i] = None}
<1>1. /\ box.west \in Int /\ box.east \in Int /\ box.south \in Int /\ box.north \in Int
      /\ box \in View
  BY BoxIs
<1>2. parts = <<box.west, box.south, box.east, box.north>>
  BY DEF PartsOf
<1>3. /\ Len(parts) = 4 /\ parts[1] = box.west /\ parts[2] = box.south /\ parts[3] = box.east /\ parts[4] = box.north
      /\ \A i \in 1..4 : i = 1 \/ i = 2 \/ i = 3 \/ i = 4
  BY <1>2
<1>4. bad = {}
  <2> HIDE DEF parts
  <2> QED BY <1>1, <1>3, NoneIsNoField DEF Places
<1>5. ParseBbox(parts) = [west |-> parts[1], south |-> parts[2], east |-> parts[3], north |-> parts[4]]
  <2> HIDE DEF parts
  <2> QED BY <1>3, <1>4 DEF ParseBbox
<1>6. box = [west |-> box.west, south |-> box.south, east |-> box.east, north |-> box.north]
  <2>1. \A v \in View : v = [west |-> v.west, south |-> v.south, east |-> v.east, north |-> v.north]
    BY DEF View
  <2> QED
    BY <2>1, <1>1
<1>7. ParseBbox(PartsOf(box)) = box
  <2>1. ParseBbox(parts) = box
    <3> HIDE DEF parts
    <3> QED BY <1>3, <1>5, <1>6
  <2> QED
    BY <2>1
<1>8. box # None
  BY <1>1, NoneIsNoRow
<1> QED
  BY <1>7, <1>8

(* The web shows a viewport that does not cross.                           *)
LEMMA WebOfBox ==
    ASSUME Inv, NEW box \in Boxes, box.west <= box.east
    PROVE  /\ ToSet(Airports(db, PartsOf(box))) = {a \in ToSet(db.airport) : InView(box, a.lat, a.lon)}
           /\ ToSet(Airspace(db, PartsOf(box))) = {v \in ToSet(db.airspace) : Overlaps(box, v)}
           /\ ToSet(Charts(db, PartsOf(box))) = {c \in ToSet(Device!Charts(db)) : Overlaps(box, c)}
<1>1. ParseBbox(PartsOf(box)) = box /\ box # None
  BY BoxOfParts
<1>2. ToSet(Airports(db, PartsOf(box))) = {a \in ToSet(db.airport) : InView(box, a.lat, a.lon)}
  <2> DEFINE X == Schema.airport
             table == db.airport
             S == {i \in Places(table) : Inside(box, table[i])}
             rows == Taken(table, S)
             keys == [i \in Places(rows) |-> rows[i].icao]
             out == Sorted(rows, keys)
  <2>1. Airports(db, PartsOf(box)) = out
    BY <1>1 DEF Airports, Matching, OrderedBy, MapSeq
  <2>2. table \in Seq(X) /\ S \in SUBSET Places(table)
    BY Tables DEF Schema
  <2>3. \A a \in X : a.lat \in Int /\ a.lon \in -180..180 /\ a.icao \in Seq(Int)
    BY IdentIsText DEF Schema, Longitude
  <2>4. rows \in Seq(X) /\ TakenOf(table, S, rows)
    <3> HIDE DEF X, table, S
    <3> QED BY <2>2, TakenIs
  <2>5. \A i \in Places(rows) : keys[i] \in Seq(Int)
    <3>1. \A i \in Places(rows) : rows[i] \in X /\ keys[i] = rows[i].icao
      <4> HIDE DEF X, rows
      <4> QED BY <2>4, ListIs
    <3> HIDE DEF X, rows, keys
    <3> QED BY <3>1, <2>3
  <2>6. ToSet(out) = ToSet(rows)
    <3> HIDE DEF X, rows, keys
    <3> QED BY <2>4, <2>5, SortedIs DEF SortedOf
  <2>7. ToSet(rows) = {a \in ToSet(table) : InView(box, a.lat, a.lon)}
    <3>1. ToSet(table) = {table[i] : i \in Places(table)} /\ \A i \in Places(table) : table[i] \in X
      <4> HIDE DEF X, table, S
      <4> QED BY <2>2, ListIs
    <3>2. \A a \in X : InView(box, a.lat, a.lon) <=> Inside(box, a)
      <4> TAKE a \in X
      <4>1. a.lat \in Int /\ a.lon \in -180..180
        <5> HIDE DEF X
        <5> QED BY <2>3
      <4> QED
        BY <1>1, <4>1, SeenIs DEF Inside, Device!LonPredicate
    <3>3. ToSet(rows) = {table[i] : i \in S}
      BY <2>4 DEF TakenOf
    <3> HIDE DEF X, rows, table
    <3> QED
      BY <3>1, <3>2, <3>3
  <2> HIDE DEF rows, out
  <2> QED
    BY <2>1, <2>6, <2>7
<1>3. \A X, table : table \in Seq(X) =>
        ToSet(Taken(table, {i \in Places(table) : Overlaps(box, table[i])})) = {v \in ToSet(table) : Overlaps(box, v)}
  <2> TAKE X, table
  <2> DEFINE S == {i \in Places(table) : Overlaps(box, table[i])}
             rows == Taken(table, S)
  <2> HAVE table \in Seq(X)
  <2>1. ToSet(table) = {table[i] : i \in Places(table)}
    BY ListIs
  <2>2. S \in SUBSET Places(table)
    OBVIOUS
  <2>3. ToSet(rows) = {table[i] : i \in S}
    <3> HIDE DEF S
    <3> QED BY <2>2, TakenIs DEF TakenOf
  <2>4. ToSet(rows) = {v \in ToSet(table) : Overlaps(box, v)}
    <3> HIDE DEF rows
    <3> QED BY <2>1, <2>3
  <2> QED
    BY <2>4
<1>4. db.airspace \in Seq(Schema.airspace) /\ db.chart \in Seq(Schema.chart)
  BY Tables DEF Schema
<1>5. ToSet(Airspace(db, PartsOf(box))) = {v \in ToSet(db.airspace) : Overlaps(box, v)}
  BY <1>1, <1>3, <1>4 DEF Airspace, Matching
<1>6. ToSet(Charts(db, PartsOf(box))) = {c \in ToSet(db.chart) : Overlaps(box, c)}
  BY <1>1, <1>3, <1>4 DEF Charts, Matching
<1>7. ToSet(Device!Charts(db)) = ToSet(db.chart)
  <2> DEFINE rows == db.chart
             X == Schema.chart
             keys == [i \in Places(rows) |-> <<rows[i].kind>> \o rows[i].name]
  <2>1. Device!Charts(db) = Sorted(rows, keys)
    BY SameTools DEF Device!Charts, Device!OrderedBy, Device!MapSeq
  <2>2. \A c \in X : <<c.kind>> \o c.name \in Seq(Int)
    BY DEF Schema, Text
  <2>3. \A i \in Places(rows) : keys[i] \in Seq(Int)
    <3>1. \A i \in Places(rows) : rows[i] \in X /\ keys[i] = <<rows[i].kind>> \o rows[i].name
      <4> HIDE DEF X
      <4> QED BY <1>4, ListIs DEF X
    <3> HIDE DEF X, rows, keys
    <3> QED BY <3>1, <2>2
  <2>4. SortedOf(rows, keys, Sorted(rows, keys))
    <3> HIDE DEF keys, rows
    <3> QED BY <1>4, <2>3, SortedIs DEF rows
  <2> QED
    BY <2>1, <2>4 DEF SortedOf
<1> QED
  BY <1>2, <1>5, <1>6, <1>7

(* A bundle of the schema is enough for the maps.                          *)
LEMMA MapsHold == Inv => MapsShowTheView
<1> SUFFICES ASSUME Inv, screen = "map", NEW box \in Boxes
             PROVE  LET inside == {a \in ToSet(db.airport) : InView(box, a.lat, a.lon)}
                        touched == {v \in ToSet(db.airspace) : CornerInView(box, v)} IN
      /\ \A n \in Caps :
           LET fields == ToSet(Device!AirportsInBbox(db, box, n))
               volumes == ToSet(Device!AirspaceInBbox(db, box, n)) IN
           /\ fields \subseteq inside /\ Cardinality(fields) = Min({n, Cardinality(inside)})
           /\ \A cut \in inside \ fields, kept \in fields :
                Device!HasProcedures(db, cut) => Device!HasProcedures(db, kept)
           /\ \A cut \in touched \ volumes :
                /\ Cardinality(volumes) = n
                /\ \A kept \in volumes : cut.class = "PROHIBITED" => kept.class # "E"
      /\ box.west <= box.east =>
           /\ ToSet(Airports(db, PartsOf(box))) = inside
           /\ ToSet(Airspace(db, PartsOf(box))) = ToSet(Device!AirspaceInBbox(db, box, Len(db.airspace)))
           /\ ToSet(Charts(db, PartsOf(box))) = {c \in ToSet(Device!Charts(db)) : Overlaps(box, c)}
      /\ Attributions(db) = Device!Attributions(db)
  BY DEF MapsShowTheView
<1>1. \A n \in Caps : n \in Nat
  BY CapsArePositive
<1>2. Len(db.airspace) \in Nat
  <2>1. db.airspace \in Seq(Schema.airspace)
    BY Tables DEF Schema
  <2> QED BY <2>1
<1>3. Attributions(db) = Device!Attributions(db)
  BY SameTools DEF Attributions, Device!Attributions, OrderedBy, Device!OrderedBy, MapSeq, Device!MapSeq
<1>4. box.west <= box.east =>
           /\ ToSet(Airports(db, PartsOf(box))) = {a \in ToSet(db.airport) : InView(box, a.lat, a.lon)}
           /\ ToSet(Airspace(db, PartsOf(box))) = ToSet(Device!AirspaceInBbox(db, box, Len(db.airspace)))
           /\ ToSet(Charts(db, PartsOf(box))) = {c \in ToSet(Device!Charts(db)) : Overlaps(box, c)}
  BY <1>2, WebOfBox, AirspaceOfBox
<1> QED
  BY <1>1, <1>3, <1>4, AirportsOfBox, AirspaceOfBox

(* In every bundle and viewport the map of the device shows what is in     *)
(* view, and what a cap leaves out is never a field with procedures for    *)
(* one without nor a prohibited area for a wide one.  Nothing is said of   *)
(* the web where the viewport crosses the antimeridian, and everywhere     *)
(* else it shows the same rows.                                            *)
THEOREM MapsAreTrue == Spec => []MapsShowTheView
  BY SpecBundle, MapsHold, PTL

-----------------------------------------------------------------------------
(* Identifiers as they are typed and as they are stored.                   *)

(* An identifier is upper-case and trimmed already.                        *)
LEMMA PlainIs ==
    ASSUME NEW x \in Ident
    PROVE  Tidy(x) = x /\ Device!Tidy(x) = x /\ Upper(x) = x
<1> DEFINE n == Len(x)
           ink == {i \in Places(x) : x[i] # Blank}
<1>1. /\ x \in Seq(Int) /\ n \in Nat /\ n >= 1
      /\ \A i \in 1..n : x[i] \in Int /\ x[i] # Blank /\ ~(x[i] > 100)
  <2>1. x \in Seq(Int) /\ n \in Nat /\ n >= 1
    BY IdentIsText
  <2>2. \A i \in 1..n : x[i] \in 1..99
    BY IdentIsText DEF Places
  <2>3. \A c \in 1..99 : c \in Int /\ c # 0 /\ ~(c > 100)
    OBVIOUS
  <2> HIDE DEF n
  <2> QED
    BY <2>1, <2>2, <2>3 DEF Blank
<1>2. ink = 1..n /\ ink # {}
  <2>1. Places(x) = 1..n
    BY DEF Places
  <2>2. 1 \in 1..n
    <3> HIDE DEF n
    <3> QED BY <1>1
  <2> HIDE DEF n
  <2> QED BY <1>1, <2>1, <2>2
<1>3. Min(ink) = 1
  <2> HIDE DEF n, ink
  <2>1. ink \in SUBSET Nat
    BY <1>1, <1>2
  <2>2. Min(ink) \in ink /\ \A m \in ink : Min(ink) <= m
    BY <1>2, <2>1, MinIs
  <2>3. 1 \in ink /\ \A m \in ink : 1 <= m /\ m \in Int
    BY <1>1, <1>2
  <2>4. Min(ink) <= 1 /\ 1 <= Min(ink) /\ Min(ink) \in Int
    BY <2>2, <2>3
  <2> QED BY <2>4
<1>4. Max(ink) = n
  <2> HIDE DEF n, ink
  <2>1. n \in ink /\ \A m \in ink : n >= m /\ m \in Int
    BY <1>1, <1>2
  <2>2. Max(ink) \in ink /\ \A m \in ink : Max(ink) >= m
    BY <2>1 DEF Max
  <2>3. Max(ink) >= n /\ n >= Max(ink) /\ n \in Int /\ Max(ink) \in Int
    BY <2>1, <2>2
  <2> QED BY <2>3
<1>5. SubSeq(x, 1, n) = x
  <2>1. x = [i \in 1..n |-> x[i]]
    BY <1>1
  <2>2. SubSeq(x, 1, n) = [i \in 1..(n - 1 + 1) |-> x[1 + i - 1]]
    BY <1>1
  <2>3. n - 1 + 1 = n /\ \A i \in 1..n : 1 + i - 1 = i
    <3> HIDE DEF n
    <3> QED BY <1>1
  <2> HIDE DEF n
  <2> QED
    BY <2>1, <2>2, <2>3
<1>6. Upper(x) = x
  <2>1. Upper(x) = [i \in 1..n |-> IF x[i] > 100 THEN x[i] - 100 ELSE x[i]]
    BY DEF Upper, MapSeq, Places
  <2>2. x = [i \in 1..n |-> x[i]]
    BY <1>1
  <2> HIDE DEF n
  <2> QED
    BY <2>1, <2>2, <1>1
<1>7. Tidy(x) = x
  <2>1. Tidy(x) = IF ink = {} THEN <<>> ELSE Upper(SubSeq(x, Min(ink), Max(ink)))
    BY DEF Tidy
  <2> HIDE DEF ink, n
  <2> QED
    BY <2>1, <1>2, <1>3, <1>4, <1>5, <1>6
<1>8. Device!Tidy(x) = Tidy(x)
  BY DEF Device!Tidy, Tidy, Device!Upper, Upper, Device!MapSeq, MapSeq, Device!Places, Places,
         Device!Min, Min, Device!Max, Max, Device!Blank, Blank
<1> QED
  BY <1>6, <1>7, <1>8

(* The start of a list.                                                    *)
LEMMA StartOf ==
    ASSUME NEW X, NEW s \in Seq(X), NEW k \in 0..Len(s)
    PROVE  SubSeq(s, 1, k) = [i \in 1..k |-> s[i]]
<1>1. k \in Nat /\ k - 1 + 1 = k /\ Len(s) \in Nat
  OBVIOUS
<1> QED
  BY <1>1

(* RW and the name of a runway.                                            *)
LEMMA RunwayName ==
    ASSUME NEW f \in Seq(Int), NEW y \in Seq(Int)
    PROVE  f = RW \o y <=> IsPrefix(RW, f) /\ SubSeq(f, 3, Len(f)) = y
<1> DEFINE n == Len(f)
           m == Len(y)
<1>1. n \in Nat /\ m \in Nat /\ f = [i \in 1..n |-> f[i]] /\ y = [i \in 1..m |-> y[i]]
  OBVIOUS
<1>2. RW \in Seq(Int) /\ Len(RW) = 2 /\ RW[1] = 18 /\ RW[2] = 23
  BY DEF RW
<1>3. IsPrefix(RW, f) <=> 2 <= n /\ f[1] = 18 /\ f[2] = 23
  <2>1. IsPrefix(RW, f) <=> 2 <= n /\ SubSeq(RW, 1, 2) = SubSeq(f, 1, 2)
    BY <1>2 DEF IsPrefix
  <2>2. SubSeq(RW, 1, 2) = [i \in 1..2 |-> RW[i]]
    <3>1. 2 \in 0..Len(RW)
      BY <1>2
    <3> HIDE DEF n, m
    <3> QED BY <1>2, <3>1, StartOf
  <2>3. ASSUME 2 <= n PROVE SubSeq(f, 1, 2) = [i \in 1..2 |-> f[i]]
    <3>1. 2 \in 0..Len(f)
      BY <2>3, <1>1
    <3> HIDE DEF n, m
    <3> QED BY <3>1, StartOf
  <2>4. [i \in 1..2 |-> RW[i]] = [i \in 1..2 |-> f[i]] <=> RW[1] = f[1] /\ RW[2] = f[2]
    <3>1. \A i \in 1..2 : i = 1 \/ i = 2
      OBVIOUS
    <3>2. 1 \in 1..2 /\ 2 \in 1..2
      OBVIOUS
    <3> HIDE DEF n, m
    <3> QED BY <3>1, <3>2
  <2> HIDE DEF n, m
  <2> QED
    BY <2>1, <2>2, <2>3, <2>4, <1>2
<1> DEFINE tail == SubSeq(f, 3, n)
<1>4. ASSUME 2 <= n
      PROVE  tail = [i \in 1..(n - 2) |-> f[i + 2]] /\ Len(tail) = n - 2
  <2>1. tail = [i \in 1..(n - 3 + 1) |-> f[3 + i - 1]]
    BY <1>1, <1>4
  <2>2. n - 3 + 1 = n - 2 /\ \A i \in 1..(n - 2) : 3 + i - 1 = i + 2
    <3> HIDE DEF n
    <3> QED BY <1>1
  <2>3. tail = [i \in 1..(n - 2) |-> f[i + 2]]
    <3> HIDE DEF n, tail
    <3> QED BY <2>1, <2>2
  <2>4. n - 2 \in Nat
    <3> HIDE DEF n
    <3> QED BY <1>1, <1>4
  <2>5. Len(tail) = n - 2
    <3> HIDE DEF n, tail
    <3> QED BY <2>3, <2>4
  <2> QED BY <2>3, <2>5
<1> DEFINE whole == RW \o y
<1>5. /\ Len(whole) = m + 2 /\ whole[1] = 18 /\ whole[2] = 23
      /\ \A i \in 1..m : whole[i + 2] = y[i]
      /\ whole = [i \in 1..(m + 2) |-> whole[i]]
  <2>0. /\ RW \o y \in Seq(Int) /\ Len(RW \o y) = Len(RW) + Len(y)
        /\ \A i \in 1..(Len(RW) + Len(y)) : (RW \o y)[i] = IF i <= Len(RW) THEN RW[i] ELSE y[i - Len(RW)]
    <3>1. RW \in Seq(Int)
      BY <1>2
    <3> HIDE DEF n, m, tail, whole
    <3> QED BY <3>1, JoinIs
  <2>1. whole \in Seq(Int) /\ Len(whole) = 2 + m
    BY <2>0, <1>2
  <2>2. \A i \in 1..(2 + m) : whole[i] = IF i <= 2 THEN RW[i] ELSE y[i - 2]
    BY <2>0, <1>2
  <2>3. 1 \in 1..(2 + m) /\ 2 \in 1..(2 + m) /\ \A i \in 1..m : i + 2 \in 1..(2 + m) /\ ~(i + 2 <= 2) /\ (i + 2) - 2 = i
    <3> HIDE DEF m
    <3> QED BY <1>1
  <2>4. 2 + m = m + 2
    <3> HIDE DEF m
    <3> QED BY <1>1
  <2>5. whole = [i \in 1..(2 + m) |-> whole[i]]
    <3> HIDE DEF m, whole
    <3> QED BY <2>1
  <2>6. \A i \in 1..m : whole[i + 2] = y[i]
    <3> HIDE DEF m, whole
    <3> QED BY <2>2, <2>3
  <2>7. whole[1] = 18 /\ whole[2] = 23
    <3> HIDE DEF m, whole
    <3> QED BY <2>2, <2>3, <1>2
  <2> HIDE DEF m, whole
  <2> QED BY <2>1, <2>4, <2>5, <2>6, <2>7
<1>6. ASSUME f = whole PROVE IsPrefix(RW, f) /\ tail = y
  <2>1. n = m + 2 /\ 2 <= n /\ n - 2 = m
    <3>1. n = m + 2
      BY <1>5, <1>6
    <3> HIDE DEF n, m, whole
    <3> QED BY <3>1, <1>1
  <2>2. tail = [i \in 1..m |-> f[i + 2]]
    <3> HIDE DEF n, m, tail, whole
    <3> QED BY <2>1, <1>4
  <2>3. \A i \in 1..m : f[i + 2] = y[i]
    <3> HIDE DEF whole, m
    <3> QED BY <1>5, <1>6
  <2>4. tail = y
    <3> HIDE DEF n, m, tail, whole
    <3> QED BY <2>2, <2>3, <1>1
  <2>5. f[1] = 18 /\ f[2] = 23
    <3> HIDE DEF whole
    <3> QED BY <1>5, <1>6
  <2> HIDE DEF n, m, tail, whole
  <2> QED BY <2>1, <2>4, <2>5, <1>3
<1>7. ASSUME IsPrefix(RW, f), tail = y PROVE f = whole
  <2>1. 2 <= n /\ f[1] = 18 /\ f[2] = 23
    <3> HIDE DEF n
    <3> QED BY <1>3, <1>7
  <2>2. m = n - 2 /\ n = m + 2
    <3>1. m = n - 2
      <4>1. Len(tail) = n - 2
        <5> HIDE DEF n, tail
        <5> QED BY <2>1, <1>4
      <4> HIDE DEF n, tail
      <4> QED BY <4>1, <1>7
    <3> HIDE DEF n, m
    <3> QED BY <3>1, <1>1
  <2>3. y = [i \in 1..m |-> f[i + 2]]
    <3>1. tail = [i \in 1..m |-> f[i + 2]]
      <4> HIDE DEF n, m, tail
      <4> QED BY <1>4, <2>1, <2>2
    <3> QED BY <3>1, <1>7
  <2>4. \A i \in 1..m : f[i + 2] = y[i]
    <3> HIDE DEF m
    <3> QED BY <2>3
  <2>5. \A i \in 1..(m + 2) : i = 1 \/ i = 2 \/ (i - 2 \in 1..m /\ i = (i - 2) + 2)
    <3> HIDE DEF m
    <3> QED BY <1>1
  <2>6. \A i \in 1..(m + 2) : f[i] = whole[i]
    <3> TAKE i \in 1..(m + 2)
    <3>1. CASE i = 1
      BY <3>1, <2>1, <1>5
    <3>2. CASE i = 2
      BY <3>2, <2>1, <1>5
    <3>3. CASE i - 2 \in 1..m /\ i = (i - 2) + 2
      <4>1. f[(i - 2) + 2] = whole[(i - 2) + 2]
        <5> HIDE DEF n, m, whole
        <5> QED BY <3>3, <2>4, <1>5
      <4> HIDE DEF n, m, whole
      <4> QED BY <4>1, <3>3
    <3> HIDE DEF n, m, whole
    <3> QED BY <3>1, <3>2, <3>3, <2>5
  <2>7. f = [i \in 1..(m + 2) |-> f[i]]
    <3> HIDE DEF n, m
    <3> QED BY <1>1, <2>2
  <2> HIDE DEF n, m, whole
  <2> QED BY <2>6, <2>7, <1>5
<1> QED
  BY <1>6, <1>7

-----------------------------------------------------------------------------
(* A procedure.                                                            *)

(* A row of a table is of its schema, and no None.                         *)
LEMMA RowsAreRows ==
    ASSUME Inv, NEW t \in DOMAIN Schema
    PROVE  /\ db[t] \in Seq(Schema[t]) /\ None \notin Schema[t]
           /\ ToSet(db[t]) \subseteq Schema[t] /\ ToSet(db[t]) = {db[t][i] : i \in Places(db[t])}
           /\ \A i \in Places(db[t]) : db[t][i] \in Schema[t] /\ db[t][i] # None
<1>1. db[t] \in Seq(Schema[t]) /\ None \notin Schema[t]
  BY Tables, NoneIsNoRow
<1>2. /\ ToSet(db[t]) \subseteq Schema[t] /\ ToSet(db[t]) = {db[t][i] : i \in Places(db[t])}
      /\ \A i \in Places(db[t]) : db[t][i] \in Schema[t]
  BY <1>1, ListIs
<1> QED
  BY <1>1, <1>2

(* The first of some rows is one of them.                                  *)
FirstOf(table, S) == (S = {} /\ FirstAt(table, S) = None) \/ \E i \in S : FirstAt(table, S) = table[i]

(* FirstAt finds a row if there is one.                                    *)
LEMMA FirstIsOne ==
    ASSUME NEW X, NEW table \in Seq(X), NEW S \in SUBSET Places(table)
    PROVE  FirstOf(table, S)
  BY FirstAtIs DEF FirstOf

(* Where the server looks a fix up, and what it finds there.               *)
LEMMA PointIs ==
    ASSUME Inv, NEW t \in {"waypoint", "navaid"}, NEW f
    PROVE  LET found == {i \in Places(db[t]) : db[t][i].ident = f} IN
           /\ PointOf(db[t], f) = None <=> found = {}
           /\ found # {} => \E i \in found : PointOf(db[t], f) = <<db[t][i].lat, db[t][i].lon>>
<1> DEFINE X == Fix
           table == db[t]
           found == {i \in Places(table) : table[i].ident = f}
           r == FirstAt(table, found)
<1>1. table \in Seq(X) /\ \A i \in Places(table) : table[i] \in X /\ table[i] # None
  <2>1. t \in DOMAIN Schema /\ Schema[t] = Fix
    BY DEF Schema
  <2> QED
    BY <2>1, RowsAreRows
<1>2. \A x \in X : <<x.lat, x.lon>> # None
  <2>1. \A x \in X : x.lat \in Int /\ x.lon \in Int
    <3>1. -180..180 \subseteq Int
      OBVIOUS
    <3> QED BY <3>1 DEF Fix, Longitude
  <2>2. \A a, b \in Int : <<a, b>> \in Seq(Int)
    OBVIOUS
  <2> HIDE DEF X
  <2> QED
    BY <2>1, <2>2, NoneIsNoRow DEF Text
<1>3. FirstOf(table, found)
  <2> HIDE DEF X, table
  <2> QED BY <1>1, FirstIsOne
<1>4. PointOf(table, f) = IF r = None THEN None ELSE <<r.lat, r.lon>>
  BY DEF PointOf, FirstWhere
<1> HIDE DEF table, r
<1>5. PointOf(table, f) = None <=> found = {}
  BY <1>1, <1>2, <1>3, <1>4 DEF FirstOf, r
<1>6. ASSUME found # {} PROVE \E i \in found : PointOf(table, f) = <<table[i].lat, table[i].lon>>
  <2>1. PICK i \in found : r = table[i]
    BY <1>3, <1>6 DEF FirstOf, r
  <2>2. r # None
    BY <2>1, <1>1
  <2> QED
    BY <2>1, <2>2, <1>4
<1> QED
  BY <1>5, <1>6 DEF table

(* The two readers place a fix at one point.                               *)
LEMMA PlacedAlike ==
    ASSUME NEW f, NEW icao
    PROVE  Device!ResolveFix(db, f, icao) = Coordinate(db, icao, f)
<1> DEFINE rwy == SubSeq(f, 3, Len(f))
           S == {i \in Places(db.runway) : db.runway[i].airport = icao /\ rwy \in {db.runway[i].le_ident, db.runway[i].he_ident}}
           r == FirstAt(db.runway, S)
<1>1. \A rows : Device!At(rows, f) = PointOf(rows, f)
  BY SameTools DEF Device!At, PointOf, Device!FirstWhere, FirstWhere
<1>2. Device!IsPrefix(Device!RunwayPrefix, f) = IsPrefix(RW, f)
  BY DEF Device!IsPrefix, IsPrefix, Device!RunwayPrefix, RW
<1>3. Device!RunwayHere(db, rwy, icao) = r
  BY SameTools DEF Device!RunwayHere, Device!FirstWhere
<1>4. RunwayEnd(db, icao, f) = IF ~IsPrefix(RW, f) \/ r = None THEN None ELSE IF r.le_ident = rwy THEN r.le ELSE r.he
  BY DEF RunwayEnd, FirstWhere, ThresholdOf
<1>5. Device!ResolveFix(db, f, icao) =
        LET q == IF IsPrefix(RW, f) THEN r ELSE None
            threshold == IF q = None THEN None ELSE IF q.le_ident = rwy THEN q.le ELSE q.he
        IN Either(PointOf(db.waypoint, f), Either(PointOf(db.navaid, f), threshold))
  <2> HIDE DEF r
  <2> QED
    BY <1>1, <1>2, <1>3 DEF Device!ResolveFix, Device!Either, Either
<1> HIDE DEF r, rwy
<1>6. CASE ~IsPrefix(RW, f)
  BY <1>4, <1>5, <1>6 DEF Coordinate
<1>7. CASE IsPrefix(RW, f)
  BY <1>4, <1>5, <1>7 DEF Coordinate
<1> QED
  BY <1>6, <1>7

(* A name is placed at something that it may mean, if there is any.        *)
LEMMA PlacedRight ==
    ASSUME Inv, NEW f \in Ident, NEW icao
    PROVE  IF Meant(icao, f) = {} THEN Coordinate(db, icao, f) = None
           ELSE Coordinate(db, icao, f) \in Meant(icao, f)
<1>1. "waypoint" \in DOMAIN Schema /\ "navaid" \in DOMAIN Schema /\ "runway" \in DOMAIN Schema
  BY DEF Schema
<1>2. ASSUME NEW t \in {"waypoint", "navaid"}
      PROVE  /\ PointOf(db[t], f) = None <=> FixesOf(db[t], f) = {}
             /\ FixesOf(db[t], f) # {} => PointOf(db[t], f) \in FixesOf(db[t], f)
  <2> DEFINE table == db[t]
             found == {i \in Places(table) : table[i].ident = f}
  <2>1. ToSet(table) = {table[i] : i \in Places(table)}
    BY <1>1, RowsAreRows
  <2>2. FixesOf(table, f) = {<<table[i].lat, table[i].lon>> : i \in found}
    <3>1. {x \in ToSet(table) : x.ident = f} = {table[i] : i \in found}
      <4> HIDE DEF table
      <4> QED BY <2>1
    <3> DEFINE A == {x \in ToSet(table) : x.ident = f}
    <3>2. FixesOf(table, f) = {<<x.lat, x.lon>> : x \in A}
      BY DEF FixesOf
    <3>3. A = {table[i] : i \in found}
      BY <3>1
    <3> HIDE DEF A, table, found
    <3> QED BY <3>2, <3>3
  <2>3. /\ PointOf(table, f) = None <=> found = {}
        /\ found # {} => \E i \in found : PointOf(table, f) = <<table[i].lat, table[i].lon>>
    BY PointIs
  <2> HIDE DEF table, found
  <2>4. /\ PointOf(table, f) = None <=> FixesOf(table, f) = {}
        /\ FixesOf(table, f) # {} => PointOf(table, f) \in FixesOf(table, f)
    BY <2>2, <2>3
  <2> QED
    BY <2>4 DEF table
<1> DEFINE ways == FixesOf(db["waypoint"], f)
           aids == FixesOf(db["navaid"], f)
<1>3. /\ PointOf(db["waypoint"], f) = None <=> ways = {}
      /\ ways # {} => PointOf(db["waypoint"], f) \in ways
  BY <1>2
<1>4. /\ PointOf(db["navaid"], f) = None <=> aids = {}
      /\ aids # {} => PointOf(db["navaid"], f) \in aids
  BY <1>2
<1>5. Meant(icao, f) = IF ways # {} THEN ways ELSE IF aids # {} THEN aids ELSE OwnEnds(icao, f)
  BY DEF Meant
<1>6. ASSUME ways = {}, aids = {}
      PROVE  IF OwnEnds(icao, f) = {} THEN Coordinate(db, icao, f) = None
             ELSE Coordinate(db, icao, f) \in OwnEnds(icao, f)
  <2>1. Coordinate(db, icao, f) = RunwayEnd(db, icao, f)
    <3> HIDE DEF ways, aids
    <3> QED BY <1>3, <1>4, <1>6 DEF Coordinate, Either
  <2> DEFINE rwy == SubSeq(f, 3, Len(f))
             table == db.runway
             S == {i \in Places(table) : table[i].airport = icao /\ rwy \in {table[i].le_ident, table[i].he_ident}}
             r == FirstAt(table, S)
  <2>2. RunwayEnd(db, icao, f) = IF ~IsPrefix(RW, f) \/ r = None THEN None ELSE IF r.le_ident = rwy THEN r.le ELSE r.he
    BY DEF RunwayEnd, FirstWhere, ThresholdOf
  <2>3. /\ table \in Seq(Schema["runway"]) /\ ToSet(table) = {table[i] : i \in Places(table)}
        /\ \A i \in Places(table) : table[i] \in Schema["runway"] /\ table[i] # None
    BY <1>1, RowsAreRows
  <2>4. \A i \in Places(table) : table[i].le_ident \in Seq(Int) /\ table[i].he_ident \in Seq(Int)
    <3>1. \A x \in Schema["runway"] : x.le_ident \in Ident /\ x.he_ident \in Ident
      BY DEF Schema
    <3> HIDE DEF table
    <3> QED
      BY <2>3, <3>1, IdentIsText
  <2>5. \A i \in Places(table) :
          /\ f = RW \o table[i].le_ident <=> IsPrefix(RW, f) /\ rwy = table[i].le_ident
          /\ f = RW \o table[i].he_ident <=> IsPrefix(RW, f) /\ rwy = table[i].he_ident
    <3>1. f \in Seq(Int)
      BY IdentIsText
    <3> HIDE DEF table
    <3> QED
      BY <3>1, <2>4, RunwayName
  <2>6. OwnEnds(icao, f) =
          {table[i].le : i \in {k \in Places(table) : table[k].airport = icao /\ f = RW \o table[k].le_ident}}
            \cup {table[i].he : i \in {k \in Places(table) : table[k].airport = icao /\ f = RW \o table[k].he_ident}}
    <3>1. {x \in ToSet(table) : x.airport = icao /\ f = RW \o x.le_ident}
            = {table[i] : i \in {k \in Places(table) : table[k].airport = icao /\ f = RW \o table[k].le_ident}}
      <4> HIDE DEF table
      <4> QED BY <2>3
    <3>2. {x \in ToSet(table) : x.airport = icao /\ f = RW \o x.he_ident}
            = {table[i] : i \in {k \in Places(table) : table[k].airport = icao /\ f = RW \o table[k].he_ident}}
      <4> HIDE DEF table
      <4> QED BY <2>3
    <3> DEFINE A == {x \in ToSet(table) : x.airport = icao /\ f = RW \o x.le_ident}
               B == {x \in ToSet(table) : x.airport = icao /\ f = RW \o x.he_ident}
               I == {k \in Places(table) : table[k].airport = icao /\ f = RW \o table[k].le_ident}
               J == {k \in Places(table) : table[k].airport = icao /\ f = RW \o table[k].he_ident}
    <3>3. OwnEnds(icao, f) = {x.le : x \in A} \cup {x.he : x \in B}
      BY DEF OwnEnds
    <3>4. A = {table[i] : i \in I} /\ B = {table[i] : i \in J}
      BY <3>1, <3>2
    <3> HIDE DEF A, B, I, J, table
    <3>5. {x.le : x \in A} = {table[i].le : i \in I} /\ {x.he : x \in B} = {table[i].he : i \in J}
      BY <3>4
    <3> QED
      BY <3>3, <3>5 DEF I, J
  <2>7. FirstOf(table, S)
    <3>1. S \in SUBSET Places(table)
      OBVIOUS
    <3> HIDE DEF table, S
    <3> QED BY <3>1, <2>3, FirstIsOne
  <2>8. CASE ~IsPrefix(RW, f)
    <3>1. OwnEnds(icao, f) = {}
      <4> HIDE DEF table, rwy
      <4> QED BY <2>5, <2>6, <2>8
    <3> HIDE DEF r
    <3> QED
      BY <3>1, <2>1, <2>2, <2>8
  <2>9. CASE IsPrefix(RW, f) /\ S = {}
    <3>1. OwnEnds(icao, f) = {}
      <4> HIDE DEF table, rwy
      <4> QED BY <2>5, <2>6, <2>9
    <3>2. r = None
      BY <2>7, <2>9 DEF FirstOf
    <3> HIDE DEF r
    <3> QED
      BY <3>1, <3>2, <2>1, <2>2
  <2>10. CASE IsPrefix(RW, f) /\ S # {}
    <3>1. PICK i \in S : r = table[i]
      <4> HIDE DEF S, table
      <4> QED BY <2>7, <2>10 DEF FirstOf
    <3>2. i \in Places(table) /\ r # None /\ r.airport = icao /\ rwy \in {r.le_ident, r.he_ident}
      <4> HIDE DEF r, table, rwy
      <4> QED BY <3>1, <2>3
    <3>3. CASE r.le_ident = rwy
      <4>1. Coordinate(db, icao, f) = table[i].le
        <5> HIDE DEF r, table, rwy, S
        <5> QED BY <3>1, <3>2, <3>3, <2>1, <2>2, <2>10
      <4>2. table[i].le \in OwnEnds(icao, f)
        <5> HIDE DEF r, table, rwy, S
        <5> QED BY <3>1, <3>2, <3>3, <2>5, <2>6, <2>10
      <4> QED BY <4>1, <4>2
    <3>4. CASE r.le_ident # rwy
      <4>1. Coordinate(db, icao, f) = table[i].he
        <5> HIDE DEF r, table, rwy, S
        <5> QED BY <3>1, <3>2, <3>4, <2>1, <2>2, <2>10
      <4>2. table[i].he \in OwnEnds(icao, f)
        <5> HIDE DEF r, table, rwy, S
        <5> QED BY <3>1, <3>2, <3>4, <2>5, <2>6, <2>10
      <4> QED BY <4>1, <4>2
    <3> QED
      BY <3>3, <3>4
  <2> QED
    BY <2>8, <2>9, <2>10
<1>7. ways # {} => Coordinate(db, icao, f) \in ways
  <2> HIDE DEF ways, aids
  <2> QED BY <1>3 DEF Coordinate, Either
<1>8. ways = {} /\ aids # {} => Coordinate(db, icao, f) \in aids
  <2> HIDE DEF ways, aids
  <2> QED BY <1>3, <1>4 DEF Coordinate, Either
<1> HIDE DEF ways, aids
<1> QED
  BY <1>5, <1>6, <1>7, <1>8

(* A bundle of the schema is enough for the procedures.                    *)
LEMMA ProceduresHold == Inv => ProceduresAreDrawnAlike
<1> SUFFICES ASSUME Inv, screen = "procedure", NEW p \in ToSet(db.procedure)
             PROVE  LET web == ProcedureDetail(db, p.id)
                        app == Device!ProcedureDetail(db, p.id) IN
      /\ web.chart = app.chart /\ AirportProcedures(db, p.airport) = Device!AirportProcedures(db, p.airport)
      /\ Len(web.transitions) = Len(app.transitions)
      /\ \A t \in Places(app.transitions) :
           LET legs == app.transitions[t].legs IN
           /\ MapSeq(legs, LAMBDA l : l.fix) = MapSeq(web.transitions[t].legs, LAMBDA l : l.fix)
           /\ \A k \in Places(legs) : legs[k].fix # None =>
                LET drawn == legs[k].at
                    f == legs[k].fix IN
                /\ drawn = IF f \in DOMAIN web.fixes THEN web.fixes[f] ELSE None
                /\ IF Meant(p.airport, f) = {} THEN drawn = None ELSE drawn \in Meant(p.airport, f)
  BY DEF ProceduresAreDrawnAlike
<1> DEFINE web == ProcedureDetail(db, p.id)
           app == Device!ProcedureDetail(db, p.id)
           S == {i \in Places(db.procedure) : db.procedure[i].id = p.id}
           TT == TransitionsOf(db, p.id)
           Lines == [k \in Places(TT) |-> [id |-> TT[k].id, legs |-> LegsOf(db, TT[k].id)]]
           Drawn(l) == [seq |-> l.seq, fix |-> l.fix,
                        at |-> IF l.fix = None THEN None ELSE Coordinate(db, p.airport, l.fix)]
           named == (UNION {{t.legs[k].fix : k \in Places(t.legs)} : t \in ToSet(Lines)}) \ {None}
           Fixes == [f \in {n \in named : Coordinate(db, p.airport, n) # None} |-> Coordinate(db, p.airport, f)]
<1>1. p # None /\ p.airport \in Ident
  <2>1. "procedure" \in DOMAIN Schema /\ \A x \in Schema["procedure"] : x.airport \in Ident
    BY DEF Schema
  <2> QED
    BY <2>1, RowsAreRows
<1>2. FirstAt(db.procedure, S) = p
  <2>1. "procedure" \in DOMAIN Schema
    BY DEF Schema
  <2>2. db.procedure \in Seq(Schema["procedure"]) /\ ToSet(db.procedure) = {db.procedure[i] : i \in Places(db.procedure)}
    BY <2>1, RowsAreRows
  <2>3. S \in SUBSET Places(db.procedure) /\ S # {}
    BY <2>2
  <2>4. FirstOf(db.procedure, S)
    BY <2>2, <2>3, FirstIsOne
  <2>5. PICK i \in S : FirstAt(db.procedure, S) = db.procedure[i]
    <3> HIDE DEF S
    <3> QED BY <2>3, <2>4 DEF FirstOf
  <2>6. db.procedure[i] \in ToSet(db.procedure) /\ db.procedure[i].id = p.id
    BY <2>2
  <2>7. db.procedure[i] = p
    <3> HIDE DEF S
    <3> QED BY <2>6, Tables
  <2> QED
    BY <2>5, <2>7
<1>3. web = [procedure |-> p, transitions |-> Lines, fixes |-> Fixes, chart |-> ChartOf(db, p.airport, p.ident)]
  <2>1. FirstWhere(db.procedure, LAMBDA r : r.id = p.id) = p
    BY <1>2 DEF FirstWhere
  <2> QED
    BY <1>1, <2>1 DEF ProcedureDetail, MapSeq
<1> DEFINE TQ == Taken(db.transition, {i \in Places(db.transition) : db.transition[i].procedure = p.id})
           TS == Sorted(TQ, [i \in Places(TQ) |-> <<TQ[i].kind>> \o TQ[i].ident])
           LQ(id) == Taken(db.leg, {i \in Places(db.leg) : db.leg[i].transition = id})
           LS(id) == Sorted(LQ(id), [i \in Places(LQ(id)) |-> <<LQ(id)[i].seq>>])
<1>4. TT = TS /\ \A id : LegsOf(db, id) = LS(id)
  BY DEF TransitionsOf, LegsOf, OrderedBy, Matching, MapSeq
<1>5. app.chart = ChartOf(db, p.airport, p.ident)
  <2>1. Device!FirstWhere(db.procedure, LAMBDA r : r.id = p.id) = p
    BY <1>2, SameTools DEF Device!FirstWhere
  <2>2. app.chart = Device!DtppChart(db, p.airport, p.ident)
    BY <1>1, <2>1 DEF Device!ProcedureDetail
  <2>3. Device!DtppChart(db, p.airport, p.ident) = ChartOf(db, p.airport, p.ident)
    BY SameTools DEF Device!DtppChart, ChartOf, Device!FirstWhere, FirstWhere
  <2> QED
    BY <2>2, <2>3
<1>6. app.transitions = [k \in Places(TS) |-> [id |-> TS[k].id, legs |-> [i \in Places(LS(TS[k].id)) |-> Drawn(LS(TS[k].id)[i])]]]
  <2> DEFINE FA == Device!FirstAt(db.procedure, {i \in Device!Places(db.procedure) : db.procedure[i].id = p.id})
  <2>1. FA = p
    BY <1>2, SameTools
  <2> DEFINE TQd == Device!Taken(db.transition, {i \in Device!Places(db.transition) : db.transition[i].procedure = p.id})
             TD == Device!Sorted(TQd, [i \in Device!Places(TQd) |-> <<TQd[i].kind>> \o TQd[i].ident])
             LQd(id) == Device!Taken(db.leg, {i \in Device!Places(db.leg) : db.leg[i].transition = id})
             LD(id) == Device!Sorted(LQd(id), [i \in Device!Places(LQd(id)) |-> <<LQd(id)[i].seq>>])
             DD(l) == [seq |-> l.seq, fix |-> l.fix,
                       at |-> IF l.fix = None THEN None ELSE Device!ResolveFix(db, l.fix, FA.airport)]
  <2>2. app.transitions = [k \in Device!Places(TD) |->
                            [id |-> TD[k].id, legs |-> [i \in Device!Places(LD(TD[k].id)) |-> DD(LD(TD[k].id)[i])]]]
    <3>1. FA # None
      BY <1>1, <2>1
    <3> QED BY <3>1 DEF Device!ProcedureDetail, Device!FirstWhere, Device!OrderedBy, Device!Matching, Device!MapSeq
  <2>3. TQd = TQ /\ TD = TS
    BY SameTools
  <2>4. \A id : LQd(id) = LQ(id) /\ LD(id) = LS(id)
    BY SameTools
  <2>5. \A l : DD(l) = Drawn(l)
    BY <2>1, PlacedAlike
  <2>6. \A s : Device!Places(s) = Places(s)
    BY SameTools
  <2> HIDE DEF app, TD, LD, DD, TS, LS, Drawn
  <2> QED
    BY <2>2, <2>3, <2>4, <2>5, <2>6
<1>7. AirportProcedures(db, p.airport) = Device!AirportProcedures(db, p.airport)
  <2>1. Device!Tidy(p.airport) = p.airport
    BY <1>1, PlainIs
  <2> QED
    BY <2>1, SameTools DEF AirportProcedures, Device!AirportProcedures, OrderedBy, Device!OrderedBy,
                           Matching, Device!Matching, MapSeq, Device!MapSeq<1>8. TS \in Seq(Schema["transition"])
  <2> DEFINE X == Schema["transition"]
             S0 == {i \in Places(db.transition) : db.transition[i].procedure = p.id}
             keys == [i \in Places(TQ) |-> <<TQ[i].kind>> \o TQ[i].ident]
  <2>1. db.transition \in Seq(X)
    <3>1. "transition" \in DOMAIN Schema
      BY DEF Schema
    <3> HIDE DEF X
    <3> QED BY <3>1, RowsAreRows DEF X
  <2>2. TQ \in Seq(X)
    <3> HIDE DEF X
    <3> QED BY <2>1, TakenIs
  <2>3. \A x \in X : <<x.kind>> \o x.ident \in Seq(Int)
    BY DEF Schema, Text
  <2>4. \A i \in Places(TQ) : keys[i] \in Seq(Int)
    <3>1. \A i \in Places(TQ) : TQ[i] \in X /\ keys[i] = <<TQ[i].kind>> \o TQ[i].ident
      <4> HIDE DEF X, TQ
      <4> QED BY <2>2, ListIs
    <3> HIDE DEF X, TQ, keys
    <3> QED BY <2>3, <3>1
  <2> HIDE DEF X, TQ
  <2>5. Sorted(TQ, keys) \in Seq(X)
    <3> HIDE DEF keys
    <3> QED BY <2>2, <2>4, SortedIs
  <2> QED
    BY <2>5 DEF X
<1>9. \A id : LS(id) \in Seq(Schema["leg"])
  <2> TAKE id
  <2> DEFINE X == Schema["leg"]
             L0 == LQ(id)
             keys == [i \in Places(L0) |-> <<L0[i].seq>>]
  <2>1. db.leg \in Seq(X)
    <3>1. "leg" \in DOMAIN Schema
      BY DEF Schema
    <3> HIDE DEF X
    <3> QED BY <3>1, RowsAreRows DEF X
  <2>2. L0 \in Seq(X)
    <3> HIDE DEF X
    <3> QED BY <2>1, TakenIs
  <2>3. \A x \in X : <<x.seq>> \in Seq(Int)
    BY DEF Schema
  <2>4. \A i \in Places(L0) : keys[i] \in Seq(Int)
    <3>1. \A i \in Places(L0) : L0[i] \in X /\ keys[i] = <<L0[i].seq>>
      <4> HIDE DEF X, L0
      <4> QED BY <2>2, ListIs
    <3> HIDE DEF X, L0, keys
    <3> QED BY <2>3, <3>1
  <2>5. Sorted(L0, keys) \in Seq(X)
    <3> HIDE DEF X, L0, keys
    <3> QED BY <2>2, <2>4, SortedIs
  <2> QED
    BY <2>5
<1> HIDE DEF TS, LS
<1>10. /\ web.transitions = Lines /\ web.fixes = Fixes /\ web.chart = app.chart
  <2> HIDE DEF web, app, Lines, Fixes
  <2> QED BY <1>3, <1>5
<1>11. /\ Lines = [k \in Places(TS) |-> [id |-> TS[k].id, legs |-> LS(TS[k].id)]]
       /\ Len(Lines) = Len(TS) /\ ToSet(Lines) = {Lines[k] : k \in Places(TS)}
  <2>1. Lines = [k \in Places(TS) |-> [id |-> TS[k].id, legs |-> LS(TS[k].id)]]
    BY <1>4
  <2>2. DOMAIN Lines = Places(TS) /\ Places(TS) = 1..Len(TS) /\ Len(TS) \in Nat
    <3>1. Places(TS) = 1..Len(TS) /\ Len(TS) \in Nat
      BY <1>8, ListIs
    <3> HIDE DEF Lines
    <3> QED BY <2>1, <3>1
  <2>3. Len(Lines) = Len(TS)
    <3> DEFINE Y == {Lines[k] : k \in Places(TS)}
    <3>1. Lines = [k \in 1..Len(TS) |-> Lines[k]] /\ \A k \in 1..Len(TS) : Lines[k] \in Y
      <4> HIDE DEF Lines
      <4> QED BY <2>1, <2>2
    <3> HIDE DEF Lines, Y
    <3> QED BY <3>1, <2>2, ListOf
  <2> HIDE DEF Lines
  <2> QED
    BY <2>1, <2>2, <2>3 DEF ToSet
<1>12. Len(app.transitions) = Len(TS) /\ Places(app.transitions) = Places(TS)
  <2> DEFINE g == app.transitions
             Y == {g[k] : k \in Places(TS)}
  <2>1. Places(TS) = 1..Len(TS) /\ Len(TS) \in Nat
    BY <1>8, ListIs
  <2>2. g = [k \in 1..Len(TS) |-> g[k]]
    <3> HIDE DEF app, Drawn
    <3> QED BY <1>6, <2>1
  <2>3. \A k \in 1..Len(TS) : g[k] \in Y
    BY <2>1
  <2> HIDE DEF g, Y
  <2>4. Len(g) = Len(TS)
    BY <2>1, <2>2, <2>3, ListOf
  <2> QED
    BY <2>4 DEF g, Places
<1>13. ASSUME NEW t \in Places(app.transitions)
       PROVE  LET legs == app.transitions[t].legs IN
           /\ MapSeq(legs, LAMBDA l : l.fix) = MapSeq(web.transitions[t].legs, LAMBDA l : l.fix)
           /\ \A k \in Places(legs) : legs[k].fix # None =>
                LET drawn == legs[k].at
                    f == legs[k].fix IN
                /\ f \in Ident
                /\ drawn = Coordinate(db, p.airport, f)
                /\ drawn = IF f \in DOMAIN web.fixes THEN web.fixes[f] ELSE None
  <2> DEFINE L == LS(TS[t].id)
             legs == app.transitions[t].legs
  <2>1. t \in Places(TS)
    BY <1>12, <1>13
  <2>2. legs = [i \in Places(L) |-> Drawn(L[i])]
    <3> HIDE DEF app, Drawn
    <3> QED BY <1>6, <2>1
  <2>3. web.transitions[t].legs = L /\ Lines[t] \in ToSet(Lines) /\ Lines[t].legs = L
    <3>1. Lines[t] = [id |-> TS[t].id, legs |-> LS(TS[t].id)]
      <4> HIDE DEF Lines
      <4> QED BY <1>11, <2>1
    <3>2. Lines[t] \in ToSet(Lines)
      <4> HIDE DEF Lines
      <4> QED BY <1>11, <2>1
    <3>3. web.transitions = Lines
      BY <1>10
    <3> HIDE DEF web, Lines
    <3> QED BY <3>1, <3>2, <3>3
  <2>4. L \in Seq(Schema["leg"]) /\ \A k \in Places(L) : L[k] \in Schema["leg"]
    <3>1. L \in Seq(Schema["leg"])
      BY <1>9
    <3> HIDE DEF L
    <3> QED BY <3>1, ListIs
  <2>5. Places(legs) = Places(L)
    <3> DEFINE Y == {legs[k] : k \in Places(L)}
    <3>1. legs = [k \in Places(L) |-> legs[k]] /\ \A k \in Places(L) : legs[k] \in Y
      <4> HIDE DEF L, legs, Drawn
      <4> QED BY <2>2
    <3> HIDE DEF L, legs, Y
    <3> QED BY <2>4, <3>1, MapSeqIs
  <2>6. MapSeq(legs, LAMBDA l : l.fix) = MapSeq(web.transitions[t].legs, LAMBDA l : l.fix)
    <3>1. \A k \in Places(L) : legs[k].fix = L[k].fix
      <4> HIDE DEF L, legs
      <4> QED BY <2>2
    <3> HIDE DEF L, legs, web
    <3> QED BY <3>1, <2>3, <2>5 DEF MapSeq
  <2>7. ASSUME NEW k \in Places(legs), legs[k].fix # None
        PROVE  /\ legs[k].fix \in Ident
               /\ legs[k].at = Coordinate(db, p.airport, legs[k].fix)
               /\ legs[k].at = IF legs[k].fix \in DOMAIN web.fixes THEN web.fixes[legs[k].fix] ELSE None
    <3> DEFINE f == L[k].fix
    <3>1. k \in Places(L) /\ legs[k].fix = f /\ f # None /\ legs[k].at = Coordinate(db, p.airport, f)
      <4> HIDE DEF L, legs
      <4> QED BY <2>2, <2>5, <2>7
    <3>2. f \in Ident
      <4>1. \A x \in Schema["leg"] : x.fix \in Ident \cup {None}
        BY DEF Schema, Optional
      <4> HIDE DEF L
      <4> QED BY <4>1, <3>1, <2>4
    <3>3. f \in named
      <4> HIDE DEF L, Lines
      <4> QED BY <3>1, <2>3
    <3>4. Coordinate(db, p.airport, f) = IF f \in DOMAIN Fixes THEN Fixes[f] ELSE None
      <4> HIDE DEF named, f
      <4> QED BY <3>3
    <3> HIDE DEF L, legs, f, web, Fixes
    <3> QED BY <3>1, <3>2, <3>4, <1>10
  <2> HIDE DEF legs, web, app
  <2> QED
    BY <2>6, <2>7 DEF legs
<1>14. Len(web.transitions) = Len(app.transitions)
  <2> HIDE DEF web, app, Lines
  <2> QED BY <1>10, <1>11, <1>12
<1>15. ASSUME NEW t \in Places(app.transitions), NEW k \in Places(app.transitions[t].legs),
              app.transitions[t].legs[k].fix # None
       PROVE  LET drawn == app.transitions[t].legs[k].at
                  f == app.transitions[t].legs[k].fix IN
              /\ drawn = IF f \in DOMAIN web.fixes THEN web.fixes[f] ELSE None
              /\ IF Meant(p.airport, f) = {} THEN drawn = None ELSE drawn \in Meant(p.airport, f)
  <2> DEFINE drawn == app.transitions[t].legs[k].at
             f == app.transitions[t].legs[k].fix
  <2>1. /\ f \in Ident /\ drawn = Coordinate(db, p.airport, f)
        /\ drawn = IF f \in DOMAIN web.fixes THEN web.fixes[f] ELSE None
    <3> HIDE DEF web, app
    <3> QED BY <1>13, <1>15
  <2>2. IF Meant(p.airport, f) = {} THEN Coordinate(db, p.airport, f) = None
        ELSE Coordinate(db, p.airport, f) \in Meant(p.airport, f)
    <3> HIDE DEF app
    <3> QED BY <2>1, PlacedRight
  <2> HIDE DEF web, drawn, f
  <2> QED
    BY <2>1, <2>2 DEF drawn, f
<1>16. \A t \in Places(app.transitions) :
         MapSeq(app.transitions[t].legs, LAMBDA l : l.fix) = MapSeq(web.transitions[t].legs, LAMBDA l : l.fix)
  <2> HIDE DEF web, app
  <2> QED BY <1>13
<1> HIDE DEF web, app
<1>17. /\ web.chart = app.chart /\ AirportProcedures(db, p.airport) = Device!AirportProcedures(db, p.airport)
       /\ Len(web.transitions) = Len(app.transitions)
       /\ \A t \in Places(app.transitions) :
           LET legs == app.transitions[t].legs IN
           /\ MapSeq(legs, LAMBDA l : l.fix) = MapSeq(web.transitions[t].legs, LAMBDA l : l.fix)
           /\ \A k \in Places(legs) : legs[k].fix # None =>
                LET drawn == legs[k].at
                    f == legs[k].fix IN
                /\ drawn = IF f \in DOMAIN web.fixes THEN web.fixes[f] ELSE None
                /\ IF Meant(p.airport, f) = {} THEN drawn = None ELSE drawn \in Meant(p.airport, f)
  BY <1>7, <1>10, <1>14, <1>15, <1>16
<1> QED
  BY <1>17 DEF web, app

-----------------------------------------------------------------------------
(* An airport.                                                             *)

(* The heads of the groups under K: one for each value of K.               *)
KeysBy(K, rows, keys) ==
    keys = [i \in Places(rows) |-> keys[i]] /\ \A i \in Places(rows) : keys[i] = K[rows[i]]

(* The first rows of their keys stand for all rows.                        *)
LEMMA HeadsAre ==
    ASSUME NEW X, NEW rows \in Seq(X), NEW K, NEW keys, KeysBy(K, rows, keys)
    PROVE  LET heads == Taken(rows, Firsts(keys)) IN
           /\ heads \in Seq(X) /\ ToSet(heads) \subseteq ToSet(rows)
           /\ \A x \in ToSet(rows) : \E h \in ToSet(heads) : K[h] = K[x]
           /\ \A k, l \in Places(heads) : K[heads[k]] = K[heads[l]] => k = l
<1> DEFINE S == Firsts(keys)
           heads == Taken(rows, S)
<1>1. /\ Len(rows) \in Nat /\ Places(rows) = 1..Len(rows) /\ DOMAIN rows = Places(rows)
      /\ ToSet(rows) = {rows[i] : i \in Places(rows)} /\ \A i \in Places(rows) : i \in Nat
  BY ListIs
<1>2. Len(keys) = Len(rows) /\ Places(keys) = Places(rows)
  <2> DEFINE Y == {keys[i] : i \in Places(rows)}
  <2>1. keys = [i \in Places(rows) |-> keys[i]] /\ \A i \in Places(rows) : keys[i] \in Y
    BY DEF KeysBy
  <2> HIDE DEF Y
  <2> QED
    BY <2>1, MapSeqIs
<1>3. /\ S \in SUBSET Places(rows)
      /\ \A i \in Places(rows) : \E k \in S : K[rows[k]] = K[rows[i]]
      /\ \A i, j \in S : K[rows[i]] = K[rows[j]] => i = j
  <2>1. /\ S \in SUBSET Places(keys)
        /\ \A i \in Places(keys) : \E k \in S : k <= i /\ keys[k] = keys[i]
        /\ \A i, j \in S : keys[i] = keys[j] => i = j
    <3>1. Len(keys) \in Nat
      BY <1>1, <1>2
    <3> QED BY <3>1, FirstsAre
  <2> HIDE DEF S
  <2>2. S \in SUBSET Places(rows)
    BY <2>1, <1>2
  <2>3. ASSUME NEW i \in Places(rows) PROVE \E k \in S : K[rows[k]] = K[rows[i]]
    <3>1. PICK k \in S : keys[k] = keys[i]
      BY <2>1, <1>2
    <3>2. keys[k] = K[rows[k]] /\ keys[i] = K[rows[i]]
      BY <2>2 DEF KeysBy
    <3> QED BY <3>1, <3>2
  <2>4. ASSUME NEW i \in S, NEW j \in S, K[rows[i]] = K[rows[j]] PROVE i = j
    <3>1. keys[i] = K[rows[i]] /\ keys[j] = K[rows[j]]
      BY <2>2 DEF KeysBy
    <3>2. keys[i] = keys[j]
      BY <3>1, <2>4
    <3> QED BY <3>2, <2>1
  <2> QED
    BY <2>2, <2>3, <2>4
<1>4. heads \in Seq(X) /\ TakenOf(rows, S, heads)
  <2> HIDE DEF S
  <2> QED BY <1>3, TakenIs
<1>5. ToSet(heads) = {rows[i] : i \in S}
  BY <1>4 DEF TakenOf
<1>6. Places(heads) \subseteq Nat
  <2> HIDE DEF heads
  <2> QED BY <1>4, ListIs
<1>7. ASSUME NEW k \in Places(heads), NEW l \in Places(heads), k < l PROVE K[heads[k]] # K[heads[l]]
  <2>1. PICK i \in S, j \in S : i < j /\ heads[k] = rows[i] /\ heads[l] = rows[j]
    <3> HIDE DEF heads, S
    <3> QED BY <1>4, <1>7 DEF TakenOf
  <2>2. i \in Nat /\ j \in Nat
    <3> HIDE DEF S
    <3> QED BY <1>1, <1>3
  <2>3. i # j
    BY <2>1, <2>2
  <2> HIDE DEF heads, S
  <2> QED
    BY <2>1, <2>3, <1>3
<1>8. \A k, l \in Places(heads) : K[heads[k]] = K[heads[l]] => k = l
  <2> HIDE DEF heads
  <2>1. \A k, l \in Places(heads) : k < l \/ l < k \/ k = l
    BY <1>6
  <2> QED
    BY <2>1, <1>7
<1> HIDE DEF heads, S
<1>9. ToSet(heads) \subseteq ToSet(rows)
  BY <1>1, <1>3, <1>5
<1>10. ASSUME NEW x \in ToSet(rows) PROVE \E h \in ToSet(heads) : K[h] = K[x]
  <2>1. PICK i \in Places(rows) : x = rows[i]
    BY <1>1
  <2>2. PICK k \in S : K[rows[k]] = K[rows[i]]
    BY <1>3
  <2> QED
    BY <2>1, <2>2, <1>5
<1> QED
  BY <1>4, <1>8, <1>9, <1>10 DEF heads, S

(* Sorting keeps a list under keys of its own.                             *)
LEMMA SortedApart ==
    ASSUME NEW X, NEW rows \in Seq(X), NEW keys, \A i \in Places(rows) : keys[i] \in Seq(Int), NEW K,
           \A i, j \in Places(rows) : K[rows[i]] = K[rows[j]] => i = j
    PROVE  LET out == Sorted(rows, keys) IN
           \A k, l \in Places(out) : K[out[k]] = K[out[l]] => k = l
<1> DEFINE out == Sorted(rows, keys)
<1>1. out \in Seq(X) /\ SortedOf(rows, keys, out)
  BY SortedIs
<1> HIDE DEF out
<1>2. Places(out) \subseteq Nat /\ Places(rows) \subseteq Int
  BY <1>1, ListIs
<1>3. ASSUME NEW k \in Places(out), NEW l \in Places(out), k < l PROVE K[out[k]] # K[out[l]]
  <2>1. PICK i \in Places(rows), j \in Places(rows) : Sooner(keys, i, j) /\ out[k] = rows[i] /\ out[l] = rows[j]
    BY <1>1, <1>3 DEF SortedOf
  <2>2. i # j
    BY <2>1, <1>2, SoonerIsOrder
  <2> QED
    BY <2>1, <2>2
<1>4. \A k, l \in Places(out) : k < l \/ l < k \/ k = l
  BY <1>2
<1>5. \A k, l \in Places(out) : K[out[k]] = K[out[l]] => k = l
  BY <1>3, <1>4
<1> QED
  BY <1>5 DEF out

(* What the device makes of the records of one frequency.                  *)
LEMMA GroupIs ==
    ASSUME NEW G \in Seq(Schema["frequency"]), Len(G) # 0
    PROVE  /\ \E f \in ToSet(G) : Device!BestKind(G) = f.kind
           /\ \A f \in ToSet(G) : Device!RankOf(Device!BestKind(G)) <= Device!RankOf(f.kind)
           /\ \A f \in ToSet(G) : f.remark # None => f.remark \in ToSet(Device!Remarks(G))
<1> DEFINE X == Schema["frequency"]
           ranks == {Device!RankOf(f.kind) : f \in ToSet(G)}
           best == Min(ranks)
           S == {i \in Places(G) : Device!RankOf(G[i].kind) = best}
<1>1. /\ ToSet(G) = {G[i] : i \in Places(G)} /\ Places(G) = 1..Len(G) /\ Len(G) \in Nat
      /\ \A i \in Places(G) : G[i] \in X
  BY ListIs
<1>2. best \in ranks /\ \A r \in ranks : best <= r
  <2>1. ranks \in SUBSET Nat
    BY RankIs
  <2>2. G[1] \in ToSet(G)
    <3>1. 1 \in Places(G)
      BY <1>1
    <3> QED BY <3>1, <1>1
  <2>3. ranks # {}
    BY <2>2
  <2> HIDE DEF ranks
  <2> QED
    BY <2>1, <2>3, MinIs
<1>3. Device!BestKind(G) = FirstAt(G, S).kind
  BY SameTools DEF Device!BestKind, Device!FirstWhere
<1>4. \E i \in S : FirstAt(G, S) = G[i]
  <2>1. S \in SUBSET Places(G) /\ S # {}
    <3> HIDE DEF best
    <3> QED BY <1>1, <1>2
  <2> HIDE DEF S, X
  <2> QED
    BY <2>1, FirstIsOne DEF FirstOf
<1>5. \E f \in ToSet(G) : Device!BestKind(G) = f.kind /\ Device!RankOf(f.kind) = best
  <2> HIDE DEF best, X
  <2> QED BY <1>1, <1>3, <1>4
<1>6. \A f \in ToSet(G) : Device!RankOf(Device!BestKind(G)) <= Device!RankOf(f.kind)
  <2>1. Device!RankOf(Device!BestKind(G)) = best
    <3> HIDE DEF best
    <3> QED BY <1>5
  <2> HIDE DEF best
  <2> QED BY <2>1, <1>2
<1>7. ASSUME NEW f \in ToSet(G), f.remark # None PROVE f.remark \in ToSet(Device!Remarks(G))
  <2> DEFINE rows == [i \in Places(G) |-> G[i].remark]
             Y == Optional(Text)
             T == {i \in Places(rows) : rows[i] # None}
             told == Taken(rows, T)
             keys == [i \in Places(told) |-> told[i]]
             K == [y \in Y |-> y]
             heads == Taken(told, Firsts(keys))
  <2>1. Device!Remarks(G) = heads
    BY SameTools DEF Device!Remarks, Device!GroupedBy, Device!Matching, Device!MapSeq
  <2>2. rows \in Seq(Y) /\ Places(rows) = Places(G)
    <3>1. \A x \in X : x.remark \in Y
      BY DEF Schema
    <3>2. rows = [i \in Places(G) |-> rows[i]] /\ \A i \in Places(G) : rows[i] \in Y
      <4> HIDE DEF X, Y
      <4> QED BY <3>1, <1>1
    <3> HIDE DEF X, Y, rows
    <3> QED
      BY <3>2, MapSeqIs
  <2>3. told \in Seq(Y) /\ ToSet(told) = {rows[i] : i \in T}
    <3> HIDE DEF Y, rows
    <3> QED BY <2>2, TakenIs DEF TakenOf
  <2>4. f.remark \in ToSet(told)
    <3>1. PICK i \in Places(G) : f = G[i]
      BY <1>1
    <3>2. i \in T /\ rows[i] = f.remark
      BY <3>1, <2>2, <1>7
    <3> HIDE DEF told, rows, T
    <3> QED
      BY <3>2, <2>3
  <2>5. ToSet(told) \subseteq Y /\ \A i \in Places(told) : told[i] \in Y
    <3> HIDE DEF told, Y
    <3> QED BY <2>3, ListIs
  <2>6. KeysBy(K, told, keys)
    <3> HIDE DEF told, Y
    <3> QED BY <2>5 DEF KeysBy
  <2>7. /\ ToSet(heads) \subseteq ToSet(told)
        /\ \A x \in ToSet(told) : \E h \in ToSet(heads) : K[h] = K[x]
    <3>1. told \in Seq(Y)
      BY <2>3
    <3> HIDE DEF told, Y, keys, K, S, X, T, rows, best, ranks
    <3> QED BY <3>1, <2>6, HeadsAre
  <2>8. f.remark \in ToSet(heads)
    <3>1. PICK h \in ToSet(heads) : K[h] = K[f.remark]
      <4> HIDE DEF told, heads, K
      <4> QED BY <2>4, <2>7
    <3>2. h \in Y /\ f.remark \in Y
      <4> HIDE DEF told, heads, Y, K
      <4> QED BY <2>4, <2>5, <2>7
    <3>3. h = f.remark
      <4> HIDE DEF heads, Y
      <4> QED BY <3>1, <3>2
    <3> QED
      BY <3>3
  <2> QED
    BY <2>1, <2>8
<1> QED
  BY <1>5, <1>6, <1>7
(* The frequencies of an airport, collapsed.                               *)
LEMMA CollapsedRight ==
    ASSUME NEW R \in Seq(Schema["frequency"])
    PROVE  LET list == Device!CollapseFrequencies(R) IN
           /\ IsInjective(MapSeq(list, LAMBDA g : g.khz))
           /\ \A f \in ToSet(R) : \E g \in ToSet(list) :
                /\ g.khz = f.khz /\ (f.remark # None => f.remark \in ToSet(g.remarks))
                /\ Device!RankOf(g.kind) <= Device!RankOf(f.kind)
           /\ \A g \in ToSet(list) : \E f \in ToSet(R) : f.khz = g.khz /\ f.kind = g.kind
<1> DEFINE X == Schema["frequency"]
           K == [x \in X |-> x.khz]
           byKhz == [i \in Places(R) |-> R[i].khz]
           heads == Taken(R, Firsts(byKhz))
           Group(khz) == Taken(R, {i \in Places(R) : R[i].khz = khz})
           GroupOf(f) == [khz |-> f.khz, kind |-> Device!BestKind(Group(f.khz)), remarks |-> Device!Remarks(Group(f.khz))]
           groups == [i \in Places(heads) |-> GroupOf(heads[i])]
           keys == [i \in Places(groups) |-> <<Device!RankOf(groups[i].kind), groups[i].khz>>]
           list == Sorted(groups, keys)
           Y == {groups[i] : i \in Places(heads)}
<1>1. Device!CollapseFrequencies(R) = list
  <2> DEFINE GD(khz) == Device!Taken(R, {i \in Device!Places(R) : R[i].khz = khz})
             HD == Device!Taken(R, Device!Firsts([i \in Device!Places(R) |-> R[i].khz]))
             GG == [i \in Device!Places(HD) |-> [khz |-> HD[i].khz, kind |-> Device!BestKind(GD(HD[i].khz)),
                                                 remarks |-> Device!Remarks(GD(HD[i].khz))]]
  <2>1. Device!CollapseFrequencies(R) = Device!Sorted(GG, [i \in Device!Places(GG) |-> <<Device!RankOf(GG[i].kind), GG[i].khz>>])
    BY DEF Device!CollapseFrequencies, Device!OrderedBy, Device!GroupedBy, Device!Matching, Device!MapSeq
  <2>2. \A khz : GD(khz) = Group(khz)
    BY SameTools
  <2>3. HD = heads
    BY SameTools
  <2>4. \A s : Device!Places(s) = Places(s)
    BY SameTools
  <2>5. GG = groups
    <3> HIDE DEF HD, heads, GD, Group
    <3> QED BY <2>2, <2>3, <2>4
  <2> HIDE DEF GG, groups
  <2> QED
    BY <2>1, <2>5, SameTools
<1>2. \A x \in X : x.khz \in Int /\ K[x] = x.khz
  BY DEF Schema
<1>3. /\ ToSet(R) = {R[i] : i \in Places(R)} /\ \A i \in Places(R) : R[i] \in X
      /\ ToSet(R) \subseteq X
  BY ListIs
<1>4. /\ heads \in Seq(X) /\ ToSet(heads) \subseteq ToSet(R)
      /\ \A x \in ToSet(R) : \E h \in ToSet(heads) : K[h] = K[x]
      /\ \A k, l \in Places(heads) : K[heads[k]] = K[heads[l]] => k = l
  <2>1. KeysBy(K, R, byKhz)
    <3> HIDE DEF X, K
    <3> QED BY <1>2, <1>3 DEF KeysBy
  <2>2. R \in Seq(X)
    OBVIOUS
  <2> HIDE DEF X, K, byKhz
  <2> QED
    BY <2>1, <2>2, HeadsAre
<1>5. /\ ToSet(heads) = {heads[i] : i \in Places(heads)}
      /\ \A i \in Places(heads) : heads[i] \in X
  <2> HIDE DEF X, heads
  <2> QED BY <1>4, ListIs
<1>6. ASSUME NEW h \in ToSet(R)
      PROVE  LET G == Group(h.khz) IN
             /\ G \in Seq(X) /\ Len(G) # 0 /\ ToSet(G) = {f \in ToSet(R) : f.khz = h.khz}
  <2> DEFINE S == {i \in Places(R) : R[i].khz = h.khz}
             G == Group(h.khz)
  <2>1. G \in Seq(X) /\ ToSet(G) = {R[i] : i \in S}
    <3>1. S \in SUBSET Places(R)
      OBVIOUS
    <3>2. G = Taken(R, S)
      OBVIOUS
    <3> HIDE DEF S, G
    <3> QED BY <3>1, <3>2, TakenIs DEF TakenOf
  <2>2. ToSet(G) = {f \in ToSet(R) : f.khz = h.khz}
    <3> HIDE DEF G
    <3> QED BY <2>1, <1>3
  <2>3. Len(G) # 0
    <3> SUFFICES ASSUME Len(G) = 0 PROVE FALSE
      OBVIOUS
    <3>1. ToSet(G) = {}
      <4>1. ToSet(G) = {G[i] : i \in Places(G)} /\ Places(G) = 1..Len(G)
        <5> HIDE DEF G, X
        <5> QED BY <2>1, ListIs
      <4> HIDE DEF G
      <4> QED BY <4>1
    <3> HIDE DEF G
    <3> QED BY <3>1, <2>2
  <2> HIDE DEF G
  <2> QED
    BY <2>1, <2>2, <2>3 DEF G
<1>7. groups \in Seq(Y) /\ Places(groups) = Places(heads) /\ \A i \in Places(heads) : groups[i] = GroupOf(heads[i])
  <2>1. groups = [i \in Places(heads) |-> groups[i]] /\ \A i \in Places(heads) : groups[i] \in Y
    <3> HIDE DEF GroupOf
    <3> QED OBVIOUS
  <2>2. \A i \in Places(heads) : groups[i] = GroupOf(heads[i])
    <3> HIDE DEF GroupOf, heads
    <3> QED OBVIOUS
  <2>3. heads \in Seq(X)
    <3> HIDE DEF heads, X, K
    <3> QED BY <1>4
  <2>4. Places(heads) = 1..Len(heads) /\ Len(heads) \in Nat
    <3> HIDE DEF heads, X
    <3> QED BY <2>3, ListIs
  <2>5. groups \in Seq(Y) /\ Len(groups) = Len(heads)
    <3> HIDE DEF Y, groups, heads, X
    <3>1. groups = [k \in 1..Len(heads) |-> groups[k]] /\ \A k \in 1..Len(heads) : groups[k] \in Y
      BY <2>1, <2>4
    <3> QED BY <3>1, <2>4, ListOf
  <2>6. Places(groups) = Places(heads)
    <3> HIDE DEF Y, groups, heads, X
    <3>1. Places(groups) = 1..Len(groups)
      BY <2>5, ListIs
    <3> QED BY <3>1, <2>4, <2>5
  <2> HIDE DEF Y, groups, heads, X, K, GroupOf
  <2> QED
    BY <2>2, <2>5, <2>6
<1>8. ASSUME NEW i \in Places(heads)
      PROVE  /\ groups[i].khz = heads[i].khz /\ groups[i].khz \in Int
             /\ \E f \in ToSet(R) : f.khz = groups[i].khz /\ f.kind = groups[i].kind
             /\ \A f \in ToSet(R) : f.khz = heads[i].khz =>
                  /\ Device!RankOf(groups[i].kind) <= Device!RankOf(f.kind)
                  /\ f.remark # None => f.remark \in ToSet(groups[i].remarks)
  <2> DEFINE h == heads[i]
             G == Group(h.khz)
  <2>1. h \in X /\ h \in ToSet(R)
    <3> HIDE DEF heads, X
    <3> QED BY <1>4, <1>5
  <2>2. /\ groups[i].khz = h.khz /\ groups[i].kind = Device!BestKind(G) /\ groups[i].remarks = Device!Remarks(G)
    <3>1. groups[i] = GroupOf(h)
      BY <1>7
    <3> HIDE DEF groups, h, Group
    <3> QED BY <3>1
  <2>3. G \in Seq(X) /\ Len(G) # 0 /\ ToSet(G) = {f \in ToSet(R) : f.khz = h.khz}
    <3> HIDE DEF h, Group, X
    <3> QED BY <2>1, <1>6
  <2>4. /\ \E f \in ToSet(G) : Device!BestKind(G) = f.kind
        /\ \A f \in ToSet(G) : Device!RankOf(Device!BestKind(G)) <= Device!RankOf(f.kind)
        /\ \A f \in ToSet(G) : f.remark # None => f.remark \in ToSet(Device!Remarks(G))
    <3> HIDE DEF G
    <3> QED BY <2>3, GroupIs
  <2>5. h.khz \in Int
    <3> HIDE DEF h, X
    <3> QED BY <2>1, <1>2
  <2> HIDE DEF G, h, groups
  <2> QED
    BY <2>2, <2>3, <2>4, <2>5 DEF h
<1>9. \A i \in Places(groups) : keys[i] \in Seq(Int)
  <2> TAKE i \in Places(groups)
  <2>1. keys[i] = <<Device!RankOf(groups[i].kind), groups[i].khz>>
    <3> HIDE DEF groups
    <3> QED OBVIOUS
  <2>2. groups[i].khz \in Int /\ Device!RankOf(groups[i].kind) \in Int
    <3> HIDE DEF groups
    <3> QED BY <1>7, <1>8, RankIs
  <2> HIDE DEF keys, groups
  <2> QED
    BY <2>1, <2>2
<1>10. list \in Seq(Y) /\ ToSet(list) = {groups[i] : i \in Places(heads)}
  <2>1. list \in Seq(Y) /\ ToSet(list) = ToSet(groups)
    <3> HIDE DEF Y, groups, keys
    <3> QED BY <1>7, <1>9, SortedIs DEF SortedOf
  <2>2. ToSet(groups) = {groups[i] : i \in Places(groups)}
    <3> HIDE DEF Y, groups
    <3> QED BY <1>7, ListIs
  <2> HIDE DEF Y, groups, list
  <2> QED
    BY <2>1, <2>2, <1>7
<1>11. \A k, l \in Places(list) : list[k].khz = list[l].khz => k = l
  <2> DEFINE KG == [g \in Y |-> g.khz]
  <2>1. \A i \in Places(groups) : groups[i] \in Y /\ KG[groups[i]] = groups[i].khz
    <3>1. \A i \in Places(groups) : groups[i] \in Y
      <4> HIDE DEF Y, groups
      <4> QED BY <1>7, ListIs
    <3> HIDE DEF Y, groups
    <3> QED BY <3>1
  <2>2. \A i, j \in Places(groups) : KG[groups[i]] = KG[groups[j]] => i = j
    <3> TAKE i \in Places(groups), j \in Places(groups)
    <3> HAVE KG[groups[i]] = KG[groups[j]]
    <3>1. i \in Places(heads) /\ j \in Places(heads)
      <4> HIDE DEF groups, heads
      <4> QED BY <1>7
    <3>2. heads[i].khz = heads[j].khz
      <4> HIDE DEF groups, heads, KG
      <4> QED BY <3>1, <2>1, <1>8
    <3>3. K[heads[i]] = K[heads[j]]
      <4> HIDE DEF heads, K, X
      <4> QED BY <3>1, <3>2, <1>2, <1>5
    <3> HIDE DEF heads, K
    <3> QED BY <3>1, <3>3, <1>4
  <2>3. \A k, l \in Places(list) : KG[list[k]] = KG[list[l]] => k = l
    <3> HIDE DEF Y, groups, keys, KG
    <3> QED BY <2>2, <1>7, <1>9, SortedApart
  <2>4. \A k \in Places(list) : KG[list[k]] = list[k].khz
    <3>1. \A k \in Places(list) : list[k] \in Y
      <4> HIDE DEF Y, list
      <4> QED BY <1>10, ListIs
    <3> HIDE DEF Y, list
    <3> QED BY <3>1
  <2> HIDE DEF list, KG
  <2> QED
    BY <2>3, <2>4
<1>12. IsInjective(MapSeq(list, LAMBDA g : g.khz))
  <2> HIDE DEF list
  <2>1. MapSeq(list, LAMBDA g : g.khz) = [i \in Places(list) |-> list[i].khz]
    BY DEF MapSeq
  <2> QED
    BY <2>1, <1>11 DEF IsInjective
<1>13. ASSUME NEW f \in ToSet(R)
       PROVE  \E g \in ToSet(list) :
                /\ g.khz = f.khz /\ (f.remark # None => f.remark \in ToSet(g.remarks))
                /\ Device!RankOf(g.kind) <= Device!RankOf(f.kind)
  <2>1. \E h \in ToSet(heads) : K[h] = K[f]
    <3> HIDE DEF heads, K
    <3> QED BY <1>4
  <2>2. PICK i \in Places(heads) : K[heads[i]] = K[f]
    <3> HIDE DEF heads, K
    <3> QED BY <2>1, <1>5
  <2>3. heads[i].khz = f.khz
    <3> HIDE DEF heads, K, X
    <3> QED BY <2>2, <1>2, <1>3, <1>5
  <2>4. groups[i] \in ToSet(list)
    <3> HIDE DEF list, groups, heads
    <3> QED BY <1>10
  <2> HIDE DEF list, groups, heads
  <2> QED
    BY <2>3, <2>4, <1>8
<1>14. ASSUME NEW g \in ToSet(list) PROVE \E f \in ToSet(R) : f.khz = g.khz /\ f.kind = g.kind
  <2> HIDE DEF list, groups, heads
  <2>1. PICK i \in Places(heads) : g = groups[i]
    BY <1>10
  <2> QED
    BY <2>1, <1>8
<1> HIDE DEF list
<1> QED
  BY <1>1, <1>12, <1>13, <1>14

(* A query for the rows of one field in a table gives them all.            *)
LEMMA RowsOf ==
    ASSUME Inv, NEW t \in {"runway", "frequency", "dtpp"}, NEW a
    PROVE  LET R == Taken(db[t], {i \in Places(db[t]) : db[t][i].airport = a.icao}) IN
           R \in Seq(Schema[t]) /\ ToSet(R) = Of(t, a)
<1> DEFINE X == Schema[t]
           rows == db[t]
           S == {i \in Places(rows) : rows[i].airport = a.icao}
           R == Taken(rows, S)
<1>1. t \in DOMAIN Schema
  BY DEF Schema
<1>2. rows \in Seq(X) /\ S \in SUBSET Places(rows) /\ ToSet(rows) = {rows[i] : i \in Places(rows)}
  BY <1>1, RowsAreRows
<1>3. R \in Seq(X) /\ ToSet(R) = {rows[i] : i \in S}
  <2> HIDE DEF S, X, rows
  <2> QED BY <1>2, TakenIs DEF TakenOf
<1>4. {rows[i] : i \in S} = {x \in ToSet(rows) : x.airport = a.icao}
  <2> HIDE DEF X, rows
  <2> QED BY <1>2
<1>5. Of(t, a) = {x \in ToSet(rows) : x.airport = a.icao}
  BY DEF Of
<1> HIDE DEF R, S
<1> QED
  BY <1>3, <1>4, <1>5 DEF R, S

(* A field is the one found under its identifier.                          *)
LEMMA FieldIs ==
    ASSUME Inv, NEW a \in ToSet(db.airport)
    PROVE  /\ a # None /\ a.icao \in Ident
           /\ FirstAt(db.airport, {i \in Places(db.airport) : db.airport[i].icao = a.icao}) = a
<1> DEFINE rows == db["airport"]
           S == {i \in Places(rows) : rows[i].icao = a.icao}
<1>1. /\ "airport" \in DOMAIN Schema /\ "airport" \in Keyed
      /\ \A r \in Schema["airport"] : r.icao \in Ident
  BY DEF Schema, Keyed
<1>2. /\ rows \in Seq(Schema["airport"]) /\ ToSet(rows) = {rows[i] : i \in Places(rows)}
      /\ \A i \in Places(rows) : rows[i] \in Schema["airport"] /\ rows[i] # None
  BY <1>1, RowsAreRows
<1>3. PICK i \in Places(rows) : a = rows[i]
  BY <1>2
<1>4. \A k, l \in Places(rows) : rows[k].icao = rows[l].icao => k = l
  <2>1. \A k, l \in Places(rows) : KeyOf("airport", rows[k]) = KeyOf("airport", rows[l]) => k = l
    BY <1>1 DEF Inv, IsBundle
  <2> QED
    BY <2>1 DEF KeyOf
<1>5. S = {i}
  <2> HIDE DEF rows
  <2> QED BY <1>3, <1>4
<1>6. FirstOf(rows, S)
  <2>1. S \in SUBSET Places(rows)
    OBVIOUS
  <2> HIDE DEF S, rows
  <2> QED BY <2>1, <1>2, FirstIsOne
<1>7. FirstAt(rows, S) = a
  <2> HIDE DEF S, rows
  <2> QED BY <1>3, <1>5, <1>6 DEF FirstOf
<1>8. a # None /\ a.icao \in Ident
  <2> HIDE DEF rows, S
  <2> QED BY <1>1, <1>2, <1>3
<1> QED
  BY <1>7, <1>8

(* What is on the page of a field, read by the server and by the device.   *)
LEMMA DetailIs ==
    ASSUME Inv, NEW a \in ToSet(db.airport)
    PROVE  LET web == AirportDetail(db, a.icao)
               app == Device!AirportDetail(db, a.icao)
               Own(t) == Taken(db[t], {i \in Places(db[t]) : db[t][i].airport = a.icao})
               strips == Own("runway") IN
           /\ web.airport = a /\ app.airport = a
           /\ web.runways = Sorted(strips, [i \in Places(strips) |-> strips[i].ident])
           /\ app.runways = web.runways
           /\ web.frequencies = Own("frequency")
           /\ app.frequencies = Device!CollapseFrequencies(Own("frequency"))
           /\ web.diagram = FirstAt(db.dtpp, {i \in Places(db.dtpp) : db.dtpp[i].airport = a.icao
                                                 /\ db.dtpp[i].procedure_ident = AirportDiagramIdent})
<1> DEFINE web == AirportDetail(db, a.icao)
           app == Device!AirportDetail(db, a.icao)
           T == {i \in Places(db.airport) : db.airport[i].icao = a.icao}
           R == Taken(db.runway, {i \in Places(db.runway) : db.runway[i].airport = a.icao})
           F == Taken(db.frequency, {i \in Places(db.frequency) : db.frequency[i].airport = a.icao})
           runways == Sorted(R, [i \in Places(R) |-> R[i].ident])
           D == {i \in Places(db.dtpp) : db.dtpp[i].airport = a.icao /\ db.dtpp[i].procedure_ident = AirportDiagramIdent}
<1>1. a # None /\ FirstAt(db.airport, T) = a /\ Device!Tidy(a.icao) = a.icao
  BY FieldIs, PlainIs
<1>2. /\ web.airport = a /\ web.runways = runways /\ web.frequencies = F
      /\ web.diagram = FirstAt(db.dtpp, D)
  BY <1>1 DEF AirportDetail, ChartOf, FirstWhere, OrderedBy, Matching, MapSeq
<1> DEFINE TD == {i \in Device!Places(db.airport) : db.airport[i].icao = a.icao}
           RD == Device!Taken(db.runway, {i \in Device!Places(db.runway) : db.runway[i].airport = a.icao})
           FD == Device!Taken(db.frequency, {i \in Device!Places(db.frequency) : db.frequency[i].airport = a.icao})
<1>3. Device!FirstAt(db.airport, TD) = a
  BY <1>1, SameTools
<1>4. /\ app.airport = a
      /\ app.runways = Device!Sorted(RD, [i \in Device!Places(RD) |-> RD[i].ident])
      /\ app.frequencies = Device!CollapseFrequencies(FD)
  <2>1. Device!FirstWhere(db.airport, LAMBDA r : r.icao = a.icao) = a
    BY <1>3 DEF Device!FirstWhere
  <2> QED
    BY <1>1, <2>1 DEF Device!AirportDetail, Device!OrderedBy, Device!Matching, Device!MapSeq
<1>5. RD = R /\ FD = F
  BY SameTools
<1> HIDE DEF web, app, RD, R, FD, F
<1>6. app.airport = a /\ app.runways = runways /\ app.frequencies = Device!CollapseFrequencies(F)
  BY <1>4, <1>5, SameTools
<1> QED
  BY <1>2, <1>6 DEF web, app, R, F

(* The plates, one for each file.                                          *)
LEMMA PlatesOf ==
    ASSUME Inv, NEW a \in ToSet(db.airport)
    PROVE  LET plates == Device!AirportPlates(db, a.icao) IN
           /\ IsInjective(MapSeq(plates, LAMBDA c : c.pdf_url))
           /\ {c.pdf_url : c \in ToSet(plates)} = {c.pdf_url : c \in {x \in ToSet(db.dtpp) : x.airport = a.icao}}
<1> DEFINE X == Schema["dtpp"]
           rows == db.dtpp
           S == {i \in Places(rows) : rows[i].airport = a.icao}
           R == Taken(rows, S)
           byUrl == [i \in Places(R) |-> R[i].pdf_url]
           heads == Taken(R, Firsts(byUrl))
           keys == [i \in Places(heads) |->
                      <<Device!TrueFirst(heads[i].procedure_ident = Device!AirportDiagramIdent)>> \o heads[i].chart_name]
           plates == Sorted(heads, keys)
           K == [x \in X |-> x.pdf_url]
<1>1. /\ "airport" \in DOMAIN Schema /\ "dtpp" \in DOMAIN Schema
      /\ \A r \in Schema["airport"] : r.icao \in Ident
      /\ \A x \in X : x.chart_name \in Seq(Int) /\ K[x] = x.pdf_url
  BY DEF Schema, Text
<1>2. Device!Tidy(a.icao) = a.icao
  <2>1. a \in Schema["airport"]
    BY <1>1, RowsAreRows
  <2> QED
    BY <2>1, <1>1, PlainIs
<1>3. Device!AirportPlates(db, a.icao) = plates
  <2> DEFINE SD == {i \in Device!Places(rows) : rows[i].airport = a.icao}
             RD == Device!Taken(rows, SD)
             UD == [i \in Device!Places(RD) |-> RD[i].pdf_url]
             HD == Device!Taken(RD, Device!Firsts(UD))
             KD == [i \in Device!Places(HD) |->
                      <<Device!TrueFirst(HD[i].procedure_ident = Device!AirportDiagramIdent)>> \o HD[i].chart_name]
  <2>1. Device!AirportPlates(db, a.icao) = Device!Sorted(HD, KD)
    BY <1>2 DEF Device!AirportPlates, Device!OrderedBy, Device!GroupedBy, Device!Matching, Device!MapSeq
  <2>2. RD = R
    BY SameTools
  <2>3. UD = byUrl
    <3> HIDE DEF RD, R
    <3> QED BY <2>2, SameTools
  <2>4. HD = heads
    <3> HIDE DEF RD, R, UD, byUrl
    <3> QED BY <2>2, <2>3, SameTools
  <2>5. KD = keys
    <3> HIDE DEF HD, heads
    <3> QED BY <2>4, SameTools
  <2> HIDE DEF HD, heads, KD, keys
  <2> QED
    BY <2>1, <2>4, <2>5, SameTools
<1>4. rows \in Seq(X) /\ S \in SUBSET Places(rows) /\ ToSet(rows) = {rows[i] : i \in Places(rows)}
  BY <1>1, RowsAreRows
<1>5. R \in Seq(X) /\ ToSet(R) = {x \in ToSet(rows) : x.airport = a.icao}
  <2>1. R \in Seq(X) /\ ToSet(R) = {rows[i] : i \in S}
    <3> HIDE DEF S, X, rows
    <3> QED BY <1>4, TakenIs DEF TakenOf
  <2>2. {rows[i] : i \in S} = {x \in ToSet(rows) : x.airport = a.icao}
    <3> HIDE DEF X, rows
    <3> QED BY <1>4
  <2> HIDE DEF R, S
  <2> QED BY <2>1, <2>2
<1>6. /\ ToSet(R) = {R[i] : i \in Places(R)} /\ \A i \in Places(R) : R[i] \in X
      /\ ToSet(R) \subseteq X
  <2> HIDE DEF R, X
  <2> QED BY <1>5, ListIs
<1>7. /\ heads \in Seq(X) /\ ToSet(heads) \subseteq ToSet(R)
      /\ \A x \in ToSet(R) : \E h \in ToSet(heads) : K[h] = K[x]
      /\ \A k, l \in Places(heads) : K[heads[k]] = K[heads[l]] => k = l
  <2>1. KeysBy(K, R, byUrl)
    <3> HIDE DEF X, K, R
    <3> QED BY <1>1, <1>6 DEF KeysBy
  <2> HIDE DEF X, K, byUrl, R
  <2> QED
    BY <2>1, <1>5, HeadsAre
<1>8. \A i \in Places(heads) : heads[i] \in X
  <2> HIDE DEF X, heads
  <2> QED BY <1>7, ListIs
<1>9. \A i \in Places(heads) : keys[i] \in Seq(Int)
  <2> TAKE i \in Places(heads)
  <2> DEFINE lead == Device!TrueFirst(heads[i].procedure_ident = Device!AirportDiagramIdent)
  <2>1. keys[i] = <<lead>> \o heads[i].chart_name
    <3> HIDE DEF heads
    <3> QED OBVIOUS
  <2>2. lead \in Int
    BY DEF Device!TrueFirst
  <2>3. heads[i].chart_name \in Seq(Int)
    <3> HIDE DEF heads, X, K
    <3> QED BY <1>1, <1>8
  <2> HIDE DEF keys, heads, lead
  <2>4. <<lead>> \in Seq(Int)
    BY <2>2
  <2> QED
    BY <2>1, <2>3, <2>4, JoinIs
<1>10. plates \in Seq(X) /\ ToSet(plates) = ToSet(heads)
  <2> HIDE DEF X, heads, keys
  <2> QED BY <1>7, <1>9, SortedIs DEF SortedOf
<1>11. \A k, l \in Places(plates) : K[plates[k]] = K[plates[l]] => k = l
  <2> HIDE DEF X, heads, keys, K
  <2> QED BY <1>7, <1>9, SortedApart
<1>12. \A k \in Places(plates) : plates[k] \in X
  <2> HIDE DEF X, plates
  <2> QED BY <1>10, ListIs
<1>13. IsInjective(MapSeq(plates, LAMBDA c : c.pdf_url))
  <2> HIDE DEF plates, K, X
  <2>1. MapSeq(plates, LAMBDA c : c.pdf_url) = [i \in Places(plates) |-> plates[i].pdf_url]
    BY DEF MapSeq
  <2> QED
    BY <2>1, <1>1, <1>11, <1>12 DEF IsInjective
<1>14. {c.pdf_url : c \in ToSet(plates)} = {c.pdf_url : c \in ToSet(R)}
  <2> HIDE DEF plates, K, X, heads, R
  <2>1. ASSUME NEW c \in ToSet(R) PROVE \E p \in ToSet(plates) : p.pdf_url = c.pdf_url
    BY <1>1, <1>6, <1>7, <1>10
  <2>2. \A p \in ToSet(plates) : p \in ToSet(R)
    BY <1>7, <1>10
  <2> QED
    BY <2>1, <2>2
<1> HIDE DEF plates, R
<1> QED
  BY <1>3, <1>5, <1>13, <1>14

(* A bundle of the schema is enough for the page of a field.               *)
LEMMA AirportPageHolds == Inv => AirportPageIsComplete
<1> SUFFICES ASSUME Inv PROVE AirportPageIsComplete
  OBVIOUS
<1>1. ASSUME NEW a \in ToSet(db.airport)
      PROVE  LET web == AirportDetail(db, a.icao)
                 app == Device!AirportDetail(db, a.icao) IN
             /\ web.airport = a /\ app.airport = a
             /\ web.runways = app.runways /\ ToSet(app.runways) = Of("runway", a)
             /\ ToSet(web.frequencies) = Of("frequency", a)
  <2> DEFINE strips == Taken(db["runway"], {i \in Places(db["runway"]) : db["runway"][i].airport = a.icao})
             keys == [i \in Places(strips) |-> strips[i].ident]
             records == Taken(db["frequency"], {i \in Places(db["frequency"]) : db["frequency"][i].airport = a.icao})
             web == AirportDetail(db, a.icao)
             app == Device!AirportDetail(db, a.icao)
  <2>1. /\ web.airport = a /\ app.airport = a
        /\ web.runways = Sorted(strips, keys) /\ app.runways = web.runways
        /\ web.frequencies = records
    BY DetailIs
  <2>2. strips \in Seq(Schema["runway"]) /\ ToSet(strips) = Of("runway", a) /\ ToSet(records) = Of("frequency", a)
    BY RowsOf
  <2>3. \A i \in Places(strips) : keys[i] \in Seq(Int)
    <3>1. \A x \in Schema["runway"] : x.ident \in Seq(Int)
      <4>1. \A x \in Schema["runway"] : x.ident \in Ident
        BY DEF Schema
      <4> QED BY <4>1, IdentIsText
    <3> HIDE DEF strips
    <3>2. \A i \in Places(strips) : strips[i] \in Schema["runway"]
      BY <2>2, ListIs
    <3> QED
      BY <3>1, <3>2
  <2>4. ToSet(Sorted(strips, keys)) = ToSet(strips)
    <3> HIDE DEF strips, keys
    <3> QED BY <2>2, <2>3, SortedIs DEF SortedOf
  <2> HIDE DEF strips, keys, records, web, app
  <2>5. /\ web.airport = a /\ app.airport = a
        /\ web.runways = app.runways /\ ToSet(app.runways) = Of("runway", a)
        /\ ToSet(web.frequencies) = Of("frequency", a)
    BY <2>1, <2>2, <2>4
  <2> QED
    BY <2>5 DEF web, app
<1>2. ASSUME NEW a \in ToSet(db.airport)
      PROVE  LET web == AirportDetail(db, a.icao)
                 diagrams == {c \in Of("dtpp", a) : c.procedure_ident = AirportDiagramIdent} IN
             IF diagrams = {} THEN web.diagram = None ELSE web.diagram \in diagrams
  <2> DEFINE rows == db["dtpp"]
             D == {i \in Places(rows) : rows[i].airport = a.icao /\ rows[i].procedure_ident = AirportDiagramIdent}
             diagrams == {c \in Of("dtpp", a) : c.procedure_ident = AirportDiagramIdent}
             link == AirportDetail(db, a.icao).diagram
  <2>1. link = FirstAt(rows, D)
    BY DetailIs
  <2>2. rows \in Seq(Schema["dtpp"]) /\ ToSet(rows) = {rows[i] : i \in Places(rows)}
    <3>1. "dtpp" \in DOMAIN Schema
      BY DEF Schema
    <3> QED BY <3>1, RowsAreRows
  <2>3. diagrams = {rows[i] : i \in D}
    <3>1. diagrams = {c \in ToSet(rows) : c.airport = a.icao /\ c.procedure_ident = AirportDiagramIdent}
      BY DEF Of
    <3> HIDE DEF rows, diagrams
    <3> QED BY <2>2, <3>1
  <2>4. FirstOf(rows, D)
    <3>1. D \in SUBSET Places(rows)
      OBVIOUS
    <3> HIDE DEF D, rows
    <3> QED BY <3>1, <2>2, FirstIsOne
  <2> HIDE DEF rows, D, diagrams, link
  <2>5. IF diagrams = {} THEN link = None ELSE link \in diagrams
    BY <2>1, <2>3, <2>4 DEF FirstOf
  <2> QED
    BY <2>5 DEF diagrams, link
<1>3. ASSUME NEW a \in ToSet(db.airport)
      PROVE  LET list == Device!AirportDetail(db, a.icao).frequencies IN
             /\ IsInjective(MapSeq(list, LAMBDA g : g.khz))
             /\ \A f \in Of("frequency", a) : \E g \in ToSet(list) :
                  /\ g.khz = f.khz /\ (f.remark # None => f.remark \in ToSet(g.remarks))
                  /\ Device!RankOf(g.kind) <= Device!RankOf(f.kind)
             /\ \A g \in ToSet(list) : \E f \in Of("frequency", a) : f.khz = g.khz /\ f.kind = g.kind
  <2> DEFINE R == Taken(db["frequency"], {i \in Places(db["frequency"]) : db["frequency"][i].airport = a.icao})
             list == Device!CollapseFrequencies(R)
  <2>1. R \in Seq(Schema["frequency"]) /\ ToSet(R) = Of("frequency", a)
    BY RowsOf
  <2>2. Device!AirportDetail(db, a.icao).frequencies = list
    BY DetailIs
  <2> HIDE DEF R
  <2>3. /\ IsInjective(MapSeq(list, LAMBDA g : g.khz))
        /\ \A f \in ToSet(R) : \E g \in ToSet(list) :
             /\ g.khz = f.khz /\ (f.remark # None => f.remark \in ToSet(g.remarks))
             /\ Device!RankOf(g.kind) <= Device!RankOf(f.kind)
        /\ \A g \in ToSet(list) : \E f \in ToSet(R) : f.khz = g.khz /\ f.kind = g.kind
    BY <2>1, CollapsedRight
  <2> HIDE DEF list
  <2> QED
    BY <2>1, <2>2, <2>3
<1>4. ASSUME NEW a \in ToSet(db.airport)
      PROVE  LET plates == Device!AirportPlates(db, a.icao) IN
             /\ IsInjective(MapSeq(plates, LAMBDA c : c.pdf_url))
             /\ {c.pdf_url : c \in ToSet(plates)} = {c.pdf_url : c \in Of("dtpp", a)}
  BY PlatesOf DEF Of
<1> QED
  BY <1>1, <1>2, <1>3, <1>4 DEF AirportPageIsComplete

(* Procedures are drawn alike, to what their names may mean.  The page of  *)
(* an airport is complete: field and runways for both readers, frequencies *)
(* and diagram on the web, frequencies and plates on the device.           *)
THEOREM PagesAreWhole == Spec => []PagesAreComplete
<1>1. Inv => PagesAreComplete
  BY ProceduresHold, AirportPageHolds DEF PagesAreComplete
<1> QED
  BY <1>1, SpecBundle, PTL
-----------------------------------------------------------------------------
(* Search.                                                                 *)

(* A list that is sorted by a key of its rows and cut begins with a row    *)
(* that none comes before.                                                 *)
LEMMA LeadIs ==
    ASSUME NEW X, NEW rows \in Seq(X), NEW K, NEW keys, KeysBy(K, rows, keys),
           \A i \in Places(rows) : keys[i] \in Seq(Int), NEW n \in Nat \ {0}, NEW x \in ToSet(rows)
    PROVE  LET out == Limit(Sorted(rows, keys), n) IN
           /\ out \in Seq(X) /\ ToSet(out) \subseteq ToSet(rows)
           /\ Len(out) \in Nat /\ Len(out) # 0 /\ 1 \in Places(out) /\ out[1] \in ToSet(rows)
           /\ K[out[1]] = K[x] \/ Before(K[out[1]], K[x])
<1> DEFINE all == Sorted(rows, keys)
           out == Limit(all, n)
<1>1. all \in Seq(X) /\ SortedOf(rows, keys, all)
  BY SortedIs
<1>2. out \in Seq(X) /\ LimitOf(all, n, out)
  <2> HIDE DEF all
  <2> QED BY <1>1, LimitIs
<1> HIDE DEF all, out
<1>3. /\ Len(all) \in Nat /\ Places(all) = 1..Len(all) /\ ToSet(all) = {all[i] : i \in Places(all)}
      /\ Len(out) \in Nat /\ Places(out) = 1..Len(out) /\ ToSet(out) = {out[i] : i \in Places(out)}
  BY <1>1, <1>2, ListIs
<1>4. ToSet(all) = ToSet(rows)
  BY <1>1 DEF SortedOf
<1>5. ToSet(out) \subseteq ToSet(rows)
  BY <1>2, <1>3, <1>4 DEF LimitOf
<1>6. PICK l \in Places(all) : all[l] = x
  BY <1>3, <1>4
<1>7. Len(out) # 0 /\ 1 \in Places(out)
  <2>1. Len(all) # 0 /\ Len(out) \in Int /\ Len(all) \in Int
    BY <1>3, <1>6
  <2>2. Len(out) = n \/ Len(out) = Len(all)
    BY <1>2 DEF LimitOf
  <2>3. Len(out) # 0
    BY <2>1, <2>2
  <2> QED
    BY <2>3, <1>3
<1>8. 1 \in Places(all) /\ out[1] = all[1]
  BY <1>2, <1>7 DEF LimitOf
<1>9. K[out[1]] = K[x] \/ Before(K[out[1]], K[x])
  <2>1. CASE l = 1
    BY <2>1, <1>6, <1>8
  <2>2. CASE l # 1
    <3>1. 1 < l
      BY <1>3, <1>6, <2>2
    <3>2. PICK i \in Places(rows), j \in Places(rows) : Sooner(keys, i, j) /\ all[1] = rows[i] /\ all[l] = rows[j]
      BY <3>1, <1>1, <1>6, <1>8 DEF SortedOf
    <3>3. keys[i] = K[out[1]] /\ keys[j] = K[x]
      BY <3>2, <1>6, <1>8 DEF KeysBy
    <3> QED
      BY <3>2, <3>3 DEF Sooner
  <2> QED
    BY <2>1, <2>2
<1>10. out[1] \in ToSet(rows) /\ 1 \in Places(out) /\ Len(out) # 0 /\ Len(out) \in Nat
  BY <1>3, <1>5, <1>7
<1> QED
  BY <1>2, <1>5, <1>9, <1>10 DEF out, all

(* An identifier starts with itself, and is the least of those that start  *)
(* with it.                                                                *)
LEMMA OwnPrefix ==
    ASSUME NEW q \in Ident
    PROVE  LikePrefix(q, q) /\ \A x \in Ident : LikePrefix(x, q) => ~Before(x, q)
<1>1. q \in Seq(Int) /\ Len(q) \in Nat /\ \A i \in Places(q) : q[i] # Underscore /\ i \in Int
  BY IdentIsText DEF Places
<1>2. \A x \in Ident : x # None
  <2>1. \A x \in Ident : x \in Text
    BY IdentIsText DEF Text
  <2> QED
    BY <2>1, NoneIsNoRow
<1>3. LikePrefix(q, q)
  <2>1. 0 + Len(q) <= Len(q) /\ \A i \in Places(q) : 0 + i = i
    BY <1>1
  <2> QED
    BY <2>1, <1>2 DEF LikePrefix, HasAt, SameLetter
<1>4. ASSUME NEW x \in Ident, LikePrefix(x, q), Before(x, q) PROVE FALSE
  <2>1. x \in Seq(Int) /\ Len(x) \in Nat /\ \A i \in 1..Len(x) : x[i] \in Int
    BY IdentIsText
  <2>2. 0 + Len(q) <= Len(x) /\ \A i \in Places(q) : q[i] = x[0 + i]
    BY <1>1, <1>4 DEF LikePrefix, HasAt, SameLetter
  <2>3. PICK k \in 0..Len(x) : k < Len(q) /\ (k = Len(x) \/ x[k + 1] < q[k + 1])
    BY <1>1, <1>4, <2>1, BeforeMeans
  <2>4. k + 1 \in Places(q) /\ k # Len(x) /\ k + 1 \in 1..Len(x)
    BY <1>1, <2>1, <2>2, <2>3 DEF Places
  <2>5. q[k + 1] = x[0 + (k + 1)] /\ 0 + (k + 1) = k + 1
    BY <2>2, <2>4
  <2>6. x[k + 1] < x[k + 1] /\ x[k + 1] \in Int
    BY <2>1, <2>3, <2>4, <2>5
  <2> QED
    BY <2>6
<1> QED
  BY <1>3, <1>4

(* What leads a key decides, where it differs.                             *)
LEMMA LedBy ==
    ASSUME NEW a \in Seq(Int), NEW b \in Seq(Int), NEW u \in Int, NEW v \in Int,
           <<u>> \o a = <<v>> \o b \/ Before(<<u>> \o a, <<v>> \o b)
    PROVE  u <= v
<1> DEFINE ka == <<u>> \o a
           kb == <<v>> \o b
<1>1. ka = kb \/ Before(ka, kb)
  OBVIOUS
<1>2. ka \in Seq(Int) /\ Len(ka) >= 1 /\ ka[1] = u
  OBVIOUS
<1>3. kb \in Seq(Int) /\ Len(kb) >= 1 /\ kb[1] = v
  OBVIOUS
<1> HIDE DEF ka, kb
<1>4. ka[1] <= kb[1]
  BY <1>1, <1>2, <1>3, LesserLeads
<1> QED
  BY <1>2, <1>3, <1>4

(* What is typed as a whole identifier leads the list of hits.             *)
LEMMA TypedLeads == Inv => TypedIdentLeads
<1> SUFFICES ASSUME Inv, NEW t \in Typed, NEW a \in ToSet(db.airport), a.icao = Tidy(t)
             PROVE  Search(db, t) # <<>> /\ Search(db, t)[1].icao = Tidy(t)
  BY DEF TypedIdentLeads
<1> DEFINE X == Schema["airport"]
           rows == db.airport
           q == a.icao
           Wanted(r) == CodeMatches(r, q) \/ LikeAnywhere(r.name, q)
           S == {i \in Places(rows) : Wanted(rows[i])}
           hits == Taken(rows, S)
           keys == [i \in Places(hits) |-> <<TrueFirst(hits[i].icao = q)>> \o hits[i].icao]
           K == [x \in X |-> <<TrueFirst(x.icao = q)>> \o x.icao]
           out == Limit(Sorted(hits, keys), SearchCap)
<1>1. "airport" \in DOMAIN Schema /\ \A x \in X : x.icao \in Ident
  BY DEF Schema
<1>2. /\ rows \in Seq(X) /\ S \in SUBSET Places(rows)
      /\ ToSet(rows) = {rows[i] : i \in Places(rows)} /\ ToSet(rows) \subseteq X
  BY <1>1, RowsAreRows
<1>3. q \in Ident /\ q # <<>>
  <2>1. q \in Ident
    BY <1>1, <1>2
  <2> QED
    BY <2>1 DEF Ident
<1>4. Search(db, t) = out
  BY <1>3 DEF Search, OrderedBy, Matching, MapSeq
<1>5. hits \in Seq(X) /\ ToSet(hits) = {rows[i] : i \in S}
  <2> HIDE DEF S, X, rows
  <2> QED BY <1>2, TakenIs DEF TakenOf
<1>6. a \in ToSet(hits)
  <2>1. PICK i \in Places(rows) : a = rows[i]
    BY <1>2
  <2>2. LikePrefix(a.icao, q)
    BY <1>3, OwnPrefix
  <2>3. i \in S
    BY <2>1, <2>2 DEF CodeMatches
  <2> HIDE DEF S, hits, rows
  <2> QED
    BY <2>1, <2>3, <1>5
<1>7. \A i \in Places(hits) : hits[i] \in X
  <2> HIDE DEF X, hits
  <2> QED BY <1>5, ListIs
<1>8. KeysBy(K, hits, keys)
  <2>1. \A i \in Places(hits) : keys[i] = K[hits[i]]
    <3> HIDE DEF X, hits
    <3> QED BY <1>7
  <2> HIDE DEF hits, K, X
  <2> QED BY <2>1 DEF KeysBy
<1>9. \A x \in X : K[x] = <<TrueFirst(x.icao = q)>> \o x.icao /\ K[x] \in Seq(Int) /\ x.icao \in Seq(Int)
  <2> TAKE x \in X
  <2>1. K[x] = <<TrueFirst(x.icao = q)>> \o x.icao
    <3> HIDE DEF X
    <3> QED OBVIOUS
  <2>2. x.icao \in Seq(Int)
    <3> HIDE DEF X
    <3> QED BY <1>1, IdentIsText
  <2>3. <<TrueFirst(x.icao = q)>> \in Seq(Int)
    BY DEF TrueFirst
  <2> HIDE DEF K
  <2> QED
    BY <2>1, <2>2, <2>3, JoinIs
<1>10. \A i \in Places(hits) : keys[i] \in Seq(Int)
  <2> HIDE DEF X, hits, K, keys
  <2> QED BY <1>7, <1>8, <1>9 DEF KeysBy
<1>11. SearchCap \in Nat \ {0}
  BY CapsArePositive
<1>12. /\ out \in Seq(X) /\ ToSet(out) \subseteq ToSet(hits) /\ Len(out) # 0 /\ out[1] \in ToSet(hits)
       /\ K[out[1]] = K[a] \/ Before(K[out[1]], K[a])
  <2> HIDE DEF X, hits, K, keys
  <2> QED BY <1>5, <1>6, <1>8, <1>10, <1>11, LeadIs
<1>13. out[1] \in X /\ a \in X
  <2>1. S \subseteq Places(rows) /\ a \in ToSet(rows)
    BY <1>2
  <2> HIDE DEF out, X, rows, S, hits
  <2>2. ToSet(hits) \subseteq X
    BY <2>1, <1>2, <1>5
  <2> QED BY <2>1, <2>2, <1>2, <1>12
<1>14. out[1].icao = q
  <2> DEFINE h == out[1]
  <2>1. /\ K[h] = <<TrueFirst(h.icao = q)>> \o h.icao /\ h.icao \in Seq(Int)
        /\ K[a] = <<TrueFirst(a.icao = q)>> \o a.icao /\ a.icao \in Seq(Int)
    <3> HIDE DEF out, X, K
    <3> QED BY <1>9, <1>13
  <2>2. K[h] = K[a] \/ Before(K[h], K[a])
    BY <1>12
  <2> DEFINE u == TrueFirst(h.icao = q)
             v == TrueFirst(a.icao = q)
  <2>3. u \in Int /\ v \in Int /\ v = 0 /\ (u <= 0 => h.icao = q)
    <3> HIDE DEF h, K, out, S, hits, rows, X
    <3> QED BY DEF TrueFirst
  <2>4. K[h] = <<u>> \o h.icao /\ K[a] = <<v>> \o a.icao
    BY <2>1
  <2> HIDE DEF h, K, u, v
  <2> DEFINE y == h.icao
             z == a.icao
  <2>5. y \in Seq(Int) /\ z \in Seq(Int) /\ (<<u>> \o y = <<v>> \o z \/ Before(<<u>> \o y, <<v>> \o z))
    BY <2>1, <2>2, <2>4
  <2> HIDE DEF y, z
  <2>7. u <= v
    BY <2>3, <2>5, LedBy
  <2>6. h.icao = q
    BY <2>3, <2>7
  <2> QED
    BY <2>6 DEF h
<1>15. out # <<>>
  <2> HIDE DEF out
  <2> QED BY <1>12
<1> HIDE DEF out
<1> QED
  BY <1>4, <1>14, <1>15

(* The hits of one table: a row of each identifier that starts so.         *)
HitsAre(rows, q, kind, hits) ==
    /\ hits \in Seq([kind : {kind}, ident : Ident])
    /\ \A h \in ToSet(hits) : \E r \in ToSet(rows) : h.ident = r.ident
    /\ q \in Ident /\ (\E r \in ToSet(rows) : r.ident = q) => \E h \in ToSet(hits) : h.ident = q

(* The first of them, at most cap.                                         *)
HitsUpTo(rows, q, kind, cap) ==
    LET found == GroupedBy(Matching(rows, LAMBDA r : LikePrefix(r.ident, q)), LAMBDA r : r.ident) IN
    MapSeq(Limit(OrderedBy(found, LAMBDA r : r.ident), cap), LAMBDA r : [kind |-> kind, ident |-> r.ident])

(* HitsUpTo does what HitsAre says.                                        *)
LEMMA HitsOf ==
    ASSUME NEW X, NEW rows \in Seq(X), \A x \in X : x.ident \in Ident, NEW q, NEW kind \in 0..3,
           NEW cap \in Nat \ {0}
    PROVE  HitsAre(rows, q, kind, HitsUpTo(rows, q, kind, cap))
<1> DEFINE S == {i \in Places(rows) : LikePrefix(rows[i].ident, q)}
           M == Taken(rows, S)
           idents == [i \in Places(M) |-> M[i].ident]
           found == Taken(M, Firsts(idents))
           keys == [i \in Places(found) |-> found[i].ident]
           K == [x \in X |-> x.ident]
           cut == Limit(Sorted(found, keys), cap)
           hits == [i \in Places(cut) |-> [kind |-> kind, ident |-> cut[i].ident]]
           Y == [kind : {kind}, ident : Ident]
<1>1. HitsUpTo(rows, q, kind, cap) = hits
  BY DEF HitsUpTo, GroupedBy, OrderedBy, Matching, MapSeq
<1>2. cap \in Nat \ {0}
  OBVIOUS
<1>3. /\ ToSet(rows) = {rows[i] : i \in Places(rows)} /\ ToSet(rows) \subseteq X
      /\ S \in SUBSET Places(rows)
  BY ListIs
<1>4. M \in Seq(X) /\ ToSet(M) = {rows[i] : i \in S}
  <2> HIDE DEF S
  <2> QED BY <1>3, TakenIs DEF TakenOf
<1>5. \A i \in Places(M) : M[i] \in X
  <2> HIDE DEF M
  <2> QED BY <1>4, ListIs
<1>6. \A x \in X : K[x] = x.ident /\ x.ident \in Seq(Int)
  BY IdentIsText
<1>7. KeysBy(K, M, idents)
  <2>1. \A i \in Places(M) : idents[i] = K[M[i]]
    <3> HIDE DEF M
    <3> QED BY <1>5
  <2> HIDE DEF M, K
  <2> QED BY <2>1 DEF KeysBy
<1>8. /\ found \in Seq(X) /\ ToSet(found) \subseteq ToSet(M)
      /\ \A x \in ToSet(M) : \E h \in ToSet(found) : K[h] = K[x]
  <2>1. M \in Seq(X) /\ KeysBy(K, M, idents)
    BY <1>4, <1>7
  <2> HIDE DEF M, K, idents
  <2> QED BY <2>1, HeadsAre
<1>9. \A i \in Places(found) : found[i] \in X
  <2> HIDE DEF found
  <2> QED BY <1>8, ListIs
<1>10. KeysBy(K, found, keys)
  <2>1. \A i \in Places(found) : keys[i] = K[found[i]]
    <3> HIDE DEF found
    <3> QED BY <1>9
  <2> HIDE DEF found, K
  <2> QED BY <2>1 DEF KeysBy
<1>11. \A i \in Places(found) : keys[i] \in Seq(Int)
  <2> HIDE DEF found, K, keys
  <2> QED BY <1>6, <1>9, <1>10 DEF KeysBy
<1>12. /\ Sorted(found, keys) \in Seq(X) /\ ToSet(Sorted(found, keys)) = ToSet(found)
  <2> HIDE DEF found, keys
  <2> QED BY <1>8, <1>11, SortedIs DEF SortedOf
<1>13. /\ cut \in Seq(X) /\ \A k \in Places(cut) : cut[k] \in X /\ cut[k] \in ToSet(found)
  <2> DEFINE all == Sorted(found, keys)
  <2>1. all \in Seq(X) /\ ToSet(all) = ToSet(found)
    BY <1>12
  <2>2. cut \in Seq(X) /\ LimitOf(all, cap, cut)
    <3> HIDE DEF found, keys
    <3> QED BY <1>2, <2>1, LimitIs
  <2>3. ToSet(all) = {all[k] : k \in Places(all)}
    <3> HIDE DEF all
    <3> QED BY <2>1, ListIs
  <2> HIDE DEF all, cut
  <2>4. \A k \in Places(cut) : cut[k] \in X
    BY <2>2, ListIs
  <2> QED
    BY <2>1, <2>2, <2>3, <2>4 DEF LimitOf
<1>14. /\ hits \in Seq(Y) /\ Places(hits) = Places(cut)
       /\ \A k \in Places(cut) : hits[k] = [kind |-> kind, ident |-> cut[k].ident]
  <2>1. \A k \in Places(cut) : hits[k] = [kind |-> kind, ident |-> cut[k].ident]
    <3> HIDE DEF cut
    <3> QED OBVIOUS
  <2>2. \A k \in Places(cut) : hits[k] \in Y
    <3> HIDE DEF cut
    <3> QED BY <1>13
  <2>3. hits = [k \in Places(cut) |-> hits[k]]
    <3> HIDE DEF cut
    <3> QED OBVIOUS
  <2>4. cut \in Seq(X)
    BY <1>13
  <2> HIDE DEF hits, cut, Y
  <2>5. hits \in Seq(Y) /\ Places(hits) = Places(cut)
    BY <2>2, <2>3, <2>4, MapSeqIs
  <2> QED
    BY <2>1, <2>5
<1>15. ToSet(hits) = {hits[k] : k \in Places(cut)}
  <2> HIDE DEF hits, cut, Y
  <2> QED BY <1>14, ListIs
<1>16. ToSet(M) \subseteq ToSet(rows)
  <2> HIDE DEF M, S
  <2> QED BY <1>3, <1>4
<1>17. ASSUME NEW h \in ToSet(hits) PROVE \E r \in ToSet(rows) : h.ident = r.ident
  <2>1. PICK k \in Places(cut) : h = hits[k]
    <3> HIDE DEF hits, cut
    <3> QED BY <1>15
  <2>2. cut[k] \in ToSet(rows)
    <3> HIDE DEF cut, found, M
    <3> QED BY <2>1, <1>8, <1>13, <1>16
  <2>3. h.ident = cut[k].ident
    <3> HIDE DEF cut, hits, Y
    <3>1. hits[k] = [kind |-> kind, ident |-> cut[k].ident]
      BY <1>14
    <3> QED BY <2>1, <3>1
  <2> QED
    BY <2>2, <2>3
<1>18. ASSUME q \in Ident, NEW r \in ToSet(rows), r.ident = q PROVE \E h \in ToSet(hits) : h.ident = q
  <2>1. r \in ToSet(M)
    <3>1. PICK i \in Places(rows) : r = rows[i]
      BY <1>3
    <3>2. i \in S
      BY <3>1, <1>18, OwnPrefix
    <3> HIDE DEF M, S
    <3> QED BY <3>1, <3>2, <1>4
  <2>2. PICK x \in ToSet(found) : K[x] = K[r]
    <3> HIDE DEF found, K, M
    <3> QED BY <2>1, <1>8
  <2>3. x \in X /\ r \in X /\ K[x] = q
    <3>1. x \in X
      <4> HIDE DEF found, K
      <4> QED BY <1>8, ListIs
    <3> HIDE DEF K, found, M
    <3> QED BY <3>1, <2>2, <1>3, <1>6, <1>18
  <2>4. /\ 1 \in Places(cut)
        /\ K[cut[1]] = q \/ Before(K[cut[1]], q)
    <3>1. 1 \in Places(cut) /\ (K[cut[1]] = K[x] \/ Before(K[cut[1]], K[x]))
      <4> HIDE DEF found, keys, K
      <4> QED BY <1>2, <1>8, <1>10, <1>11, LeadIs
    <3> HIDE DEF cut, K
    <3> QED BY <2>3, <3>1
  <2>5. cut[1] \in X /\ LikePrefix(cut[1].ident, q)
    <3>1. cut[1] \in X /\ cut[1] \in ToSet(M)
      <4> HIDE DEF cut, found, M
      <4> QED BY <2>4, <1>8, <1>13
    <3>2. PICK i \in S : cut[1] = rows[i]
      <4> HIDE DEF cut, M, S
      <4> QED BY <3>1, <1>4
    <3>3. LikePrefix(rows[i].ident, q)
      <4> HIDE DEF cut
      <4> QED OBVIOUS
    <3> HIDE DEF cut, S
    <3> QED BY <3>1, <3>2, <3>3
  <2>6. cut[1].ident = q
    <3>1. K[cut[1]] = cut[1].ident /\ cut[1].ident \in Ident
      <4> HIDE DEF cut, K
      <4> QED BY <2>5, <1>6
    <3>2. ~Before(cut[1].ident, q)
      <4> HIDE DEF cut, K
      <4> QED BY <3>1, <2>5, <1>18, OwnPrefix
    <3> HIDE DEF cut, K
    <3> QED BY <2>4, <3>1, <3>2
  <2>7. hits[1] \in ToSet(hits) /\ hits[1].ident = q
    <3> HIDE DEF cut, hits, Y, K, M, found, keys, idents, S
    <3>1. hits[1] = [kind |-> kind, ident |-> cut[1].ident]
      BY <2>4, <1>14
    <3>2. hits[1] \in ToSet(hits)
      BY <2>4, <1>15
    <3> QED BY <2>6, <3>1, <3>2
  <2> QED
    BY <2>7
<1> HIDE DEF hits, Y
<1>19. hits \in Seq(Y)
  BY <1>14
<1> QED
  BY <1>1, <1>17, <1>18, <1>19 DEF Y, HitsAre

(* The rows of two lists one after the other.                              *)
LEMMA Joined ==
    ASSUME NEW X, NEW a \in Seq(X), NEW b \in Seq(X)
    PROVE  a \o b \in Seq(X) /\ ToSet(a \o b) = ToSet(a) \cup ToSet(b)
<1> DEFINE c == a \o b
<1>1. /\ c \in Seq(X) /\ Len(c) = Len(a) + Len(b)
      /\ \A i \in 1..(Len(a) + Len(b)) : c[i] = IF i <= Len(a) THEN a[i] ELSE b[i - Len(a)]
  BY JoinIs
<1> HIDE DEF c
<1>2. /\ ToSet(a) = {a[i] : i \in 1..Len(a)} /\ Len(a) \in Nat
      /\ ToSet(b) = {b[i] : i \in 1..Len(b)} /\ Len(b) \in Nat
      /\ ToSet(c) = {c[i] : i \in 1..Len(c)}
  <2>1. \A s \in Seq(X) : ToSet(s) = {s[i] : i \in 1..Len(s)} /\ Len(s) \in Nat
    BY ListIs DEF Places
  <2> QED BY <2>1, <1>1
<1>3. ASSUME NEW x \in ToSet(c) PROVE x \in ToSet(a) \cup ToSet(b)
  <2>1. PICK i \in 1..Len(c) : x = c[i]
    BY <1>2
  <2>2. CASE i <= Len(a)
    <3>1. i \in 1..Len(a) /\ c[i] = a[i]
      BY <1>1, <1>2, <2>2
    <3> QED BY <3>1, <2>1, <1>2
  <2>3. CASE ~(i <= Len(a))
    <3>1. i - Len(a) \in 1..Len(b) /\ c[i] = b[i - Len(a)]
      BY <1>1, <1>2, <2>3
    <3> QED BY <3>1, <2>1, <1>2
  <2> QED
    BY <2>2, <2>3
<1>4. ASSUME NEW x \in ToSet(a) PROVE x \in ToSet(c)
  <2>1. PICK i \in 1..Len(a) : x = a[i]
    BY <1>2
  <2>2. i \in 1..Len(c) /\ c[i] = a[i]
    BY <1>1, <1>2
  <2> QED
    BY <2>1, <2>2, <1>2
<1>5. ASSUME NEW x \in ToSet(b) PROVE x \in ToSet(c)
  <2>1. PICK i \in 1..Len(b) : x = b[i]
    BY <1>2
  <2>2. i + Len(a) \in 1..Len(c) /\ c[i + Len(a)] = b[i]
    BY <1>1, <1>2
  <2> QED
    BY <2>1, <2>2, <1>2
<1> QED
  BY <1>1, <1>3, <1>4, <1>5 DEF c

(* The first of the fields at the places S, at most cap.                   *)
FieldsUpTo(S, cap) ==
    LET M == Taken(db.airport, S)
        cut == Limit(Sorted(M, [i \in Places(M) |-> M[i].icao]), cap) IN
    [i \in Places(cut) |-> [kind |-> 0, ident |-> cut[i].icao]]

(* The fields among the hits of the web, and of the device.                *)
FieldHits(q) == FieldsUpTo({i \in Places(db.airport) : CodeMatches(db.airport[i], q)}, PerTable)

DeviceFieldHits(q, cap) ==
    FieldsUpTo({i \in Places(db.airport) :
                  \/ Device!LikePrefix(db.airport[i].icao, q) \/ Device!LikePrefix(db.airport[i].faa_id, q)
                  \/ Device!LikePrefix(db.airport[i].iata, q) \/ Device!LikeAnywhere(db.airport[i].name, q)}, cap)

(* They are hits.                                                          *)
LEMMA FieldHitsAre ==
    ASSUME Inv, NEW S \in SUBSET Places(db.airport), NEW cap \in Nat
    PROVE  FieldsUpTo(S, cap) \in Seq([kind : {0}, ident : Ident])
<1> DEFINE X == Schema["airport"]
           M == Taken(db.airport, S)
           keys == [i \in Places(M) |-> M[i].icao]
           all == Sorted(M, keys)
           cut == Limit(all, cap)
           hits == [i \in Places(cut) |-> [kind |-> 0, ident |-> cut[i].icao]]
           Y == [kind : {0}, ident : Ident]
<1>1. FieldsUpTo(S, cap) = hits
  BY DEF FieldsUpTo
<1>2. cap \in Nat
  OBVIOUS
<1>3. "airport" \in DOMAIN Schema /\ \A x \in X : x.icao \in Ident
  BY DEF Schema
<1>4. db.airport \in Seq(X) /\ S \in SUBSET Places(db.airport)
  BY <1>3, RowsAreRows
<1>5. M \in Seq(X)
  <2> HIDE DEF X
  <2> QED BY <1>4, TakenIs
<1>6. \A i \in Places(M) : keys[i] \in Seq(Int)
  <2>1. \A i \in Places(M) : M[i] \in X
    <3> HIDE DEF M, X
    <3> QED BY <1>5, ListIs
  <2>2. \A i \in Places(M) : keys[i] = M[i].icao
    <3> HIDE DEF M
    <3> QED OBVIOUS
  <2> HIDE DEF M, keys, X
  <2> QED
    BY <2>1, <2>2, <1>3, IdentIsText
<1>7. all \in Seq(X)
  <2> HIDE DEF M, keys, X
  <2> QED BY <1>5, <1>6, SortedIs
<1>8. cut \in Seq(X)
  <2> HIDE DEF all, X
  <2> QED BY <1>2, <1>7, LimitIs
<1>9. \A i \in Places(cut) : cut[i] \in X
  <2> HIDE DEF cut, X
  <2> QED BY <1>8, ListIs
<1>10. hits = [i \in Places(cut) |-> hits[i]] /\ \A i \in Places(cut) : hits[i] \in Y
  <2> HIDE DEF cut, X
  <2> QED BY <1>3, <1>9
<1>11. hits \in Seq(Y)
  <2> HIDE DEF cut, X, hits, Y
  <2> QED BY <1>8, <1>10, MapSeqIs
<1> QED
  BY <1>1, <1>11

(* The hits of one kind are hits.                                          *)
LEMMA Wider ==
    ASSUME NEW k \in 0..3, NEW s \in Seq([kind : {k}, ident : Ident])
    PROVE  s \in Seq([kind : 0..3, ident : Ident]) /\ \A h \in ToSet(s) : h.kind = k /\ h.ident \in Ident
<1> DEFINE Y == [kind : {k}, ident : Ident]
           Z == [kind : 0..3, ident : Ident]
<1>1. \A h \in Y : h \in Z /\ h.kind = k /\ h.ident \in Ident
  <2>1. {k} \subseteq 0..3
    OBVIOUS
  <2> QED BY <2>1
<1>2. ToSet(s) \subseteq Y /\ Len(s) \in Nat /\ s = [i \in 1..Len(s) |-> s[i]] /\ \A i \in 1..Len(s) : s[i] \in Y
  <2>1. s \in Seq(Y)
    OBVIOUS
  <2> HIDE DEF Y
  <2>2. ToSet(s) \subseteq Y
    BY <2>1, ListIs
  <2> QED BY <2>1, <2>2
<1>3. s \in Seq(Z)
  <2> HIDE DEF Y, Z
  <2> QED BY <1>1, <1>2, ListOf
<1> QED
  BY <1>1, <1>2, <1>3

(* search_idents finds the fix that is typed, and no airway that is not    *)
(* there.                                                                  *)
LEMMA IdentsFound ==
    ASSUME Inv, NEW t
    PROVE  LET list == SearchIdents(db, t) IN
           /\ \A f \in ToSet(db.waypoint) \cup ToSet(db.navaid) :
                f.ident = Tidy(t) => \E h \in ToSet(list) : h.ident = f.ident
           /\ \A h \in ToSet(list) : h.kind = 3 => \E r \in ToSet(db.airway) : r.ident = h.ident
<1> DEFINE q == Tidy(t)
           A == FieldHits(q)
           N == HitsIn(db.navaid, q, 1)
           W == HitsIn(db.waypoint, q, 2)
           R == HitsIn(db.airway, q, 3)
           all == A \o N \o W \o R
           Z == [kind : 0..3, ident : Ident]
           keys == [i \in Places(all) |-> <<TrueFirst(all[i].ident = q), all[i].kind>> \o all[i].ident]
           K == [h \in Z |-> <<TrueFirst(h.ident = q), h.kind>> \o h.ident]
           out == Limit(Sorted(all, keys), IdentCap)
<1>1. SearchIdents(db, t) = IF q = <<>> THEN <<>> ELSE out
  BY DEF SearchIdents, OrderedBy, Matching, MapSeq, FieldHits, FieldsUpTo
<1>0. PerTable \in Nat \ {0} /\ \A rows, k : HitsIn(rows, q, k) = HitsUpTo(rows, q, k, PerTable)
  <2> HIDE DEF q
  <2> QED BY CapsArePositive DEF HitsIn, HitsUpTo
<1>2. /\ {"navaid", "waypoint", "airway"} \subseteq DOMAIN Schema
      /\ Schema["navaid"] = Fix /\ Schema["waypoint"] = Fix /\ \A x \in Fix : x.ident \in Ident
      /\ \A x \in Schema["airway"] : x.ident \in Ident
  BY DEF Schema, Fix
<1>3. db.navaid \in Seq(Fix) /\ db.waypoint \in Seq(Fix) /\ db.airway \in Seq(Schema["airway"])
  BY <1>2, RowsAreRows
<1>4. /\ N \in Seq([kind : {1}, ident : Ident])
      /\ q \in Ident /\ (\E r \in ToSet(db.navaid) : r.ident = q) => \E h \in ToSet(N) : h.ident = q
  <2>1. 1 \in 0..3
    OBVIOUS
  <2> HIDE DEF q
  <2>2. HitsAre(db.navaid, q, 1, N)
    BY <2>1, <1>0, <1>2, <1>3, HitsOf
  <2> HIDE DEF N
  <2> QED BY <2>2 DEF HitsAre
<1>5. /\ W \in Seq([kind : {2}, ident : Ident])
      /\ q \in Ident /\ (\E r \in ToSet(db.waypoint) : r.ident = q) => \E h \in ToSet(W) : h.ident = q
  <2>1. 2 \in 0..3
    OBVIOUS
  <2> HIDE DEF q
  <2>2. HitsAre(db.waypoint, q, 2, W)
    BY <2>1, <1>0, <1>2, <1>3, HitsOf
  <2> HIDE DEF W
  <2> QED BY <2>2 DEF HitsAre
<1>6. /\ R \in Seq([kind : {3}, ident : Ident])
      /\ \A h \in ToSet(R) : \E r \in ToSet(db.airway) : h.ident = r.ident
  <2>1. 3 \in 0..3
    OBVIOUS
  <2> DEFINE X == Schema["airway"]
  <2>2. db.airway \in Seq(X) /\ \A x \in X : x.ident \in Ident
    BY <1>2, <1>3
  <2> HIDE DEF q, X
  <2>3. HitsAre(db.airway, q, 3, R)
    BY <1>0, <2>1, <2>2, HitsOf
  <2> HIDE DEF R
  <2> QED BY <2>3 DEF HitsAre
<1>7. A \in Seq([kind : {0}, ident : Ident])
  <2> HIDE DEF q
  <2> QED BY FieldHitsAre, CapsArePositive DEF FieldHits
<1> HIDE DEF A, N, W, R
<1>8. /\ A \in Seq(Z) /\ N \in Seq(Z) /\ W \in Seq(Z) /\ R \in Seq(Z)
      /\ \A h \in ToSet(A) : h.kind = 0
      /\ \A h \in ToSet(N) : h.kind = 1
      /\ \A h \in ToSet(W) : h.kind = 2
  <2>1. 0 \in 0..3 /\ 1 \in 0..3 /\ 2 \in 0..3 /\ 3 \in 0..3
    OBVIOUS
  <2> QED BY <2>1, <1>4, <1>5, <1>6, <1>7, Wider
<1>9. all \in Seq(Z) /\ ToSet(all) = ToSet(A) \cup ToSet(N) \cup ToSet(W) \cup ToSet(R)
  <2> HIDE DEF Z
  <2> DEFINE AN == A \o N
             ANW == AN \o W
             ANWR == ANW \o R
  <2>1. AN \in Seq(Z) /\ ToSet(AN) = ToSet(A) \cup ToSet(N)
    BY <1>8, Joined
  <2> HIDE DEF AN
  <2>2. ANW \in Seq(Z) /\ ToSet(ANW) = ToSet(AN) \cup ToSet(W)
    BY <2>1, <1>8, Joined
  <2> HIDE DEF ANW
  <2>3. ANWR \in Seq(Z) /\ ToSet(ANWR) = ToSet(ANW) \cup ToSet(R)
    BY <2>2, <1>8, Joined
  <2> HIDE DEF ANWR
  <2>4. all = ANWR
    BY DEF AN, ANW, ANWR
  <2> HIDE DEF all
  <2> QED
    BY <2>1, <2>2, <2>3, <2>4
<1> HIDE DEF all
<1>10. \A i \in Places(all) : all[i] \in Z
  <2> HIDE DEF Z
  <2> QED BY <1>9, ListIs
<1>11. \A h \in Z : K[h] \in Seq(Int) /\ Len(K[h]) >= 1 /\ K[h][1] = TrueFirst(h.ident = q)
  <2> TAKE h \in Z
  <2> HIDE DEF q
  <2>1. K[h] = <<TrueFirst(h.ident = q), h.kind>> \o h.ident
    <3> HIDE DEF Z
    <3> QED OBVIOUS
  <2>2. h.ident \in Seq(Int) /\ h.kind \in Int
    <3>1. h.ident \in Ident /\ h.kind \in 0..3
      OBVIOUS
    <3>2. 0..3 \subseteq Int
      OBVIOUS
    <3> HIDE DEF Z
    <3> QED BY <3>1, <3>2, IdentIsText
  <2> DEFINE u == TrueFirst(h.ident = q)
             s == h.ident
             k == h.kind
  <2>3. u \in Int
    BY DEF TrueFirst
  <2>4. K[h] = <<u, k>> \o s /\ s \in Seq(Int) /\ k \in Int
    BY <2>1, <2>2
  <2> HIDE DEF K, Z, u, s, k
  <2>5. <<u, k>> \o s \in Seq(Int) /\ Len(<<u, k>> \o s) >= 1 /\ (<<u, k>> \o s)[1] = u
    BY <2>3, <2>4, PairBefore
  <2> QED
    BY <2>4, <2>5 DEF u
<1>12. KeysBy(K, all, keys)
  <2>1. \A i \in Places(all) : keys[i] = K[all[i]]
    <3> HIDE DEF Z, q
    <3> QED BY <1>10
  <2> HIDE DEF K, Z, q
  <2> QED BY <2>1 DEF KeysBy
<1>13. \A i \in Places(all) : keys[i] \in Seq(Int)
  <2> HIDE DEF K, Z, q, keys
  <2> QED BY <1>10, <1>11, <1>12 DEF KeysBy
<1>14. IdentCap \in Nat \ {0}
  BY CapsArePositive
<1>15. out \in Seq(Z) /\ ToSet(out) \subseteq ToSet(all)
  <2> DEFINE sorted == Sorted(all, keys)
  <2>1. sorted \in Seq(Z) /\ ToSet(sorted) = ToSet(all)
    <3> HIDE DEF keys, Z
    <3> QED BY <1>9, <1>13, SortedIs DEF SortedOf
  <2>2. out \in Seq(Z) /\ LimitOf(sorted, IdentCap, out)
    <3> HIDE DEF keys, Z
    <3> QED BY <2>1, <1>14, LimitIs
  <2> HIDE DEF sorted, out, Z
  <2>3. ToSet(sorted) = {sorted[i] : i \in Places(sorted)} /\ ToSet(out) = {out[i] : i \in Places(out)}
    BY <2>1, <2>2, ListIs
  <2> QED
    BY <2>1, <2>2, <2>3 DEF LimitOf
<1>16. ASSUME NEW f \in ToSet(db.waypoint) \cup ToSet(db.navaid), f.ident = q
       PROVE  \E h \in ToSet(SearchIdents(db, t)) : h.ident = f.ident
  <2>1. q \in Ident /\ q # <<>>
    <3>1. f \in Fix
      <4>1. ToSet(db.waypoint) \subseteq Fix /\ ToSet(db.navaid) \subseteq Fix
        BY <1>3, ListIs
      <4> QED BY <4>1
    <3>2. q \in Ident
      <4> HIDE DEF q
      <4> QED BY <3>1, <1>2, <1>16
    <3> HIDE DEF q
    <3> QED BY <3>2 DEF Ident
  <2>2. PICK x \in ToSet(all) : x.ident = q
    <3> HIDE DEF q
    <3> QED BY <2>1, <1>4, <1>5, <1>9, <1>16
  <2>3. /\ Len(out) # 0 /\ 1 \in Places(out) /\ out[1] \in ToSet(all)
        /\ K[out[1]] = K[x] \/ Before(K[out[1]], K[x])
    <3> HIDE DEF K, Z, q, keys
    <3> QED BY <1>9, <1>12, <1>13, <1>14, LeadIs
  <2> DEFINE h == out[1]
  <2>4. h \in Z /\ x \in Z
    <3> HIDE DEF Z, out
    <3> QED BY <2>3, <1>9, ListIs
  <2>5. h.ident = q
    <3> DEFINE u == TrueFirst(h.ident = q)
               v == TrueFirst(x.ident = q)
    <3>1. /\ K[h] \in Seq(Int) /\ Len(K[h]) >= 1 /\ K[h][1] = u
          /\ K[x] \in Seq(Int) /\ Len(K[x]) >= 1 /\ K[x][1] = v
      <4> HIDE DEF Z, out, K, q
      <4> QED BY <2>4, <1>11
    <3>2. K[h] = K[x] \/ Before(K[h], K[x])
      BY <2>3
    <3>3. v = 0 /\ (u <= 0 => h.ident = q)
      <4> HIDE DEF q, h
      <4> QED BY <2>2 DEF TrueFirst
    <3> HIDE DEF h, K, u, v
    <3>4. u <= v
      BY <3>1, <3>2, LesserLeads
    <3> QED BY <3>3, <3>4
  <2>6. h \in ToSet(out)
    <3> HIDE DEF out, Z
    <3> QED BY <2>3, <1>15, ListIs
  <2> HIDE DEF out, q
  <2> QED
    BY <2>1, <2>5, <2>6, <1>1, <1>16
<1>17. ASSUME NEW h \in ToSet(SearchIdents(db, t)), h.kind = 3
       PROVE  \E r \in ToSet(db.airway) : r.ident = h.ident
  <2>1. h \in ToSet(all)
    <3>1. ToSet(<<>>) = {}
      BY DEF ToSet
    <3> HIDE DEF out, q
    <3> QED BY <3>1, <1>1, <1>15, <1>17
  <2>2. h \in ToSet(R)
    <3>1. 3 # 0 /\ 3 # 1 /\ 3 # 2
      OBVIOUS
    <3> QED BY <2>1, <3>1, <1>8, <1>9, <1>17
  <2> QED
    BY <2>2, <1>6
<1> QED
  BY <1>16, <1>17

(* On the device the fix that is typed leads the hits, however few of them *)
(* are wanted.                                                             *)
LEMMA FixLeadsOnTheDevice ==
    ASSUME Inv, NEW t, NEW n \in Nat, NEW f \in ToSet(db.waypoint) \cup ToSet(db.navaid), f.ident = Tidy(t)
    PROVE  Device!Search(db, t, n) # <<>> /\ Device!Search(db, t, n)[1].ident = f.ident
<1> DEFINE q == Tidy(t)
           cap == Device!Max({n, 1})
           A == DeviceFieldHits(q, cap)
           N == HitsUpTo(db.navaid, q, 1, cap)
           W == HitsUpTo(db.waypoint, q, 2, cap)
           all == A \o N \o W
           Z == [kind : 0..3, ident : Ident]
           keys == [i \in Places(all) |-> <<TrueFirst(all[i].ident = q), all[i].kind>>]
           K == [h \in Z |-> <<TrueFirst(h.ident = q), h.kind>>]
           out == Limit(Sorted(all, keys), cap)
<1>1. Device!Tidy(t) = q
  BY DEF Device!Tidy, Tidy, Device!Upper, Upper, Device!MapSeq, MapSeq, Device!Places, Places,
         Device!Min, Min, Device!Max, Max, Device!Blank, Blank
<1>2. cap \in Nat \ {0}
  <2>1. CASE n >= 1
    <3>1. n \in {n, 1} /\ \A m \in {n, 1} : n >= m
      BY <2>1
    <3>2. cap \in {n, 1} /\ \A m \in {n, 1} : cap >= m
      BY <3>1 DEF Device!Max
    <3> HIDE DEF cap
    <3> QED BY <2>1, <3>2
  <2>2. CASE ~(n >= 1)
    <3>1. 1 \in {n, 1} /\ \A m \in {n, 1} : 1 >= m
      BY <2>2
    <3>2. cap \in {n, 1} /\ \A m \in {n, 1} : cap >= m
      BY <3>1 DEF Device!Max
    <3> HIDE DEF cap
    <3> QED BY <3>2
  <2> QED
    BY <2>1, <2>2
<1>3. /\ \A a, b : Device!LikePrefix(a, b) = LikePrefix(a, b)
      /\ \A b : Device!TrueFirst(b) = TrueFirst(b)
  BY SameTools DEF Device!LikePrefix, LikePrefix, Device!HasAt, HasAt, Device!SameLetter, SameLetter,
                   Device!Underscore, Underscore, Device!TrueFirst, TrueFirst
<1>4. \A rows, k : Device!Hits(rows, q, cap, k) = HitsUpTo(rows, q, k, cap)
  <2> HIDE DEF q, cap
  <2> TAKE rows, k
  <2> DEFINE M == Taken(rows, {i \in Places(rows) : LikePrefix(rows[i].ident, q)})
             heads == Taken(M, Firsts([i \in Places(M) |-> M[i].ident]))
             first == Limit(Sorted(heads, [i \in Places(heads) |-> heads[i].ident]), cap)
  <2>1. HitsUpTo(rows, q, k, cap) = [i \in Places(first) |-> [kind |-> k, ident |-> first[i].ident]]
    BY DEF HitsUpTo, GroupedBy, OrderedBy, Matching, MapSeq
  <2> DEFINE MD == Device!Taken(rows, {i \in Device!Places(rows) : Device!LikePrefix(rows[i].ident, q)})
             headsD == Device!Taken(MD, Device!Firsts([i \in Device!Places(MD) |-> MD[i].ident]))
             firstD == Device!Limit(Device!Sorted(headsD, [i \in Device!Places(headsD) |-> headsD[i].ident]), cap)
  <2>2. Device!Hits(rows, q, cap, k) = [i \in Device!Places(firstD) |-> [kind |-> k, ident |-> firstD[i].ident]]
    BY DEF Device!Hits, Device!GroupedBy, Device!OrderedBy, Device!Matching, Device!MapSeq
  <2>3. MD = M
    BY <1>3, SameTools
  <2>4. headsD = heads
    <3> HIDE DEF M, MD
    <3> QED BY <2>3, SameTools
  <2>5. firstD = first
    <3> HIDE DEF heads, headsD
    <3> QED BY <2>4, SameTools
  <2> HIDE DEF first, firstD
  <2> QED
    BY <2>1, <2>2, <2>5, SameTools
<1>5. /\ Schema["navaid"] = Fix /\ Schema["waypoint"] = Fix /\ \A x \in Fix : x.ident \in Ident
      /\ db.navaid \in Seq(Fix) /\ db.waypoint \in Seq(Fix)
  <2>1. /\ {"navaid", "waypoint"} \subseteq DOMAIN Schema
        /\ Schema["navaid"] = Fix /\ Schema["waypoint"] = Fix /\ \A x \in Fix : x.ident \in Ident
    BY DEF Schema, Fix
  <2> QED
    BY <2>1, RowsAreRows
<1>6. f \in Fix /\ q \in Ident /\ q # <<>>
  <2>1. f \in Fix
    <3>1. ToSet(db.waypoint) \subseteq Fix /\ ToSet(db.navaid) \subseteq Fix
      BY <1>5, ListIs
    <3> QED BY <3>1
  <2>2. q \in Ident
    <3> HIDE DEF q
    <3> QED BY <2>1, <1>5 DEF q
  <2> HIDE DEF q
  <2> QED BY <2>1, <2>2 DEF Ident
<1> DEFINE AD == Device!MapSeq(Device!Limit(Device!OrderedBy(Device!Matching(db.airport, LAMBDA a :
                       \/ Device!LikePrefix(a.icao, q) \/ Device!LikePrefix(a.faa_id, q)
                       \/ Device!LikePrefix(a.iata, q) \/ Device!LikeAnywhere(a.name, q)), LAMBDA a : a.icao), cap),
                     LAMBDA a : [kind |-> 0, ident |-> a.icao])
<1>7. AD = A
  <2> HIDE DEF q, cap
  <2> DEFINE Found == {i \in Places(db.airport) :
                  \/ Device!LikePrefix(db.airport[i].icao, q) \/ Device!LikePrefix(db.airport[i].faa_id, q)
                  \/ Device!LikePrefix(db.airport[i].iata, q) \/ Device!LikeAnywhere(db.airport[i].name, q)}
             FoundD == {i \in Device!Places(db.airport) :
                  \/ Device!LikePrefix(db.airport[i].icao, q) \/ Device!LikePrefix(db.airport[i].faa_id, q)
                  \/ Device!LikePrefix(db.airport[i].iata, q) \/ Device!LikeAnywhere(db.airport[i].name, q)}
             M == Taken(db.airport, Found)
             MD == Device!Taken(db.airport, FoundD)
             first == Limit(Sorted(M, [i \in Places(M) |-> M[i].icao]), cap)
             firstD == Device!Limit(Device!Sorted(MD, [i \in Device!Places(MD) |-> MD[i].icao]), cap)
  <2>1. A = [i \in Places(first) |-> [kind |-> 0, ident |-> first[i].icao]]
    BY DEF DeviceFieldHits, FieldsUpTo
  <2>2. AD = [i \in Device!Places(firstD) |-> [kind |-> 0, ident |-> firstD[i].icao]]
    BY DEF Device!OrderedBy, Device!Matching, Device!MapSeq
  <2>3. FoundD = Found
    BY SameTools
  <2>4. MD = M
    <3> HIDE DEF Found, FoundD
    <3> QED BY <2>3, SameTools
  <2>5. firstD = first
    <3> HIDE DEF M, MD
    <3> QED BY <2>4, SameTools
  <2> HIDE DEF first, firstD, A, AD
  <2> QED
    BY <2>1, <2>2, <2>5, SameTools
<1>8. Device!Search(db, t, n) = out
  <2> DEFINE allD == AD \o Device!Hits(db.navaid, q, cap, 1) \o Device!Hits(db.waypoint, q, cap, 2)
             keysD == [i \in Device!Places(allD) |-> <<Device!TrueFirst(allD[i].ident = q), allD[i].kind>>]
  <2>1. Device!Search(db, t, n) = Device!Limit(Device!Sorted(allD, keysD), cap)
    <3> DEFINE dt == Device!Tidy(t)
               Fields(s) ==
                 Device!MapSeq(Device!Limit(Device!OrderedBy(Device!Matching(db.airport, LAMBDA a :
                       \/ Device!LikePrefix(a.icao, s) \/ Device!LikePrefix(a.faa_id, s)
                       \/ Device!LikePrefix(a.iata, s) \/ Device!LikeAnywhere(a.name, s)), LAMBDA a : a.icao), cap),
                     LAMBDA a : [kind |-> 0, ident |-> a.icao])
               Every(s) == Fields(s) \o Device!Hits(db.navaid, s, cap, 1) \o Device!Hits(db.waypoint, s, cap, 2)
               Ranks(s) == [i \in Device!Places(Every(s)) |-> <<Device!TrueFirst(Every(s)[i].ident = s), Every(s)[i].kind>>]
    <3>1. Device!Search(db, t, n) = IF dt = <<>> THEN <<>> ELSE Device!Limit(Device!Sorted(Every(dt), Ranks(dt)), cap)
      BY DEF Device!Search, Device!HitRank, Device!OrderedBy, Device!MapSeq
    <3>2. Every(q) = allD /\ Ranks(q) = keysD
      BY DEF AD
    <3>3. dt = q
      BY <1>1
    <3> HIDE DEF dt, q, Every, Ranks, allD, keysD
    <3> QED
      BY <3>1, <3>2, <3>3, <1>6
  <2>2. allD = all
    <3> HIDE DEF AD, A, N, W, cap, q
    <3> QED BY <1>4, <1>7 DEF N, W
  <2>3. keysD = keys
    <3> HIDE DEF allD, all, q
    <3> QED BY <2>2, <1>3, SameTools
  <2> HIDE DEF allD, all, keys, keysD
  <2> QED
    BY <2>1, <2>2, <2>3, SameTools
<1> HIDE DEF AD
<1>9. /\ N \in Seq([kind : {1}, ident : Ident])
      /\ (\E r \in ToSet(db.navaid) : r.ident = q) => \E h \in ToSet(N) : h.ident = q
  <2>1. 1 \in 0..3
    OBVIOUS
  <2> HIDE DEF q, cap
  <2>2. HitsAre(db.navaid, q, 1, N)
    BY <2>1, <1>2, <1>5, HitsOf
  <2> HIDE DEF N
  <2> QED BY <2>2, <1>6 DEF HitsAre
<1>10. /\ W \in Seq([kind : {2}, ident : Ident])
       /\ (\E r \in ToSet(db.waypoint) : r.ident = q) => \E h \in ToSet(W) : h.ident = q
  <2>1. 2 \in 0..3
    OBVIOUS
  <2> HIDE DEF q, cap
  <2>2. HitsAre(db.waypoint, q, 2, W)
    BY <2>1, <1>2, <1>5, HitsOf
  <2> HIDE DEF W
  <2> QED BY <2>2, <1>6 DEF HitsAre
<1>11. A \in Seq([kind : {0}, ident : Ident])
  <2> HIDE DEF q, cap
  <2> QED BY <1>2, FieldHitsAre DEF DeviceFieldHits
<1> HIDE DEF A, N, W
<1>12. A \in Seq(Z) /\ N \in Seq(Z) /\ W \in Seq(Z)
  <2>1. 0 \in 0..3 /\ 1 \in 0..3 /\ 2 \in 0..3
    OBVIOUS
  <2> QED BY <2>1, <1>9, <1>10, <1>11, Wider
<1>13. all \in Seq(Z) /\ ToSet(all) = ToSet(A) \cup ToSet(N) \cup ToSet(W)
  <2> HIDE DEF Z
  <2> DEFINE AN == A \o N
             ANW == AN \o W
  <2>1. AN \in Seq(Z) /\ ToSet(AN) = ToSet(A) \cup ToSet(N)
    BY <1>12, Joined
  <2> HIDE DEF AN
  <2>2. ANW \in Seq(Z) /\ ToSet(ANW) = ToSet(AN) \cup ToSet(W)
    BY <2>1, <1>12, Joined
  <2> HIDE DEF ANW
  <2>3. all = ANW
    BY DEF AN, ANW
  <2> HIDE DEF all
  <2> QED
    BY <2>1, <2>2, <2>3
<1> HIDE DEF all
<1>14. \A i \in Places(all) : all[i] \in Z
  <2> HIDE DEF Z
  <2> QED BY <1>13, ListIs
<1>15. \A h \in Z : K[h] \in Seq(Int) /\ Len(K[h]) >= 1 /\ K[h][1] = TrueFirst(h.ident = q)
  <2> TAKE h \in Z
  <2> HIDE DEF q
  <2>1. K[h] = <<TrueFirst(h.ident = q), h.kind>>
    <3> HIDE DEF Z
    <3> QED OBVIOUS
  <2> DEFINE u == TrueFirst(h.ident = q)
             k == h.kind
  <2>2. u \in Int /\ k \in Int
    <3>1. h.kind \in 0..3
      OBVIOUS
    <3>2. 0..3 \subseteq Int
      OBVIOUS
    <3> QED BY <3>1, <3>2 DEF TrueFirst
  <2>3. K[h] = <<u, k>>
    BY <2>1
  <2> HIDE DEF K, Z, u, k
  <2>4. <<u, k>> \in Seq(Int) /\ Len(<<u, k>>) >= 1 /\ <<u, k>>[1] = u
    BY <2>2
  <2> QED
    BY <2>3, <2>4 DEF u
<1>16. KeysBy(K, all, keys)
  <2>1. \A i \in Places(all) : keys[i] = K[all[i]]
    <3> HIDE DEF Z, q
    <3> QED BY <1>14
  <2> HIDE DEF K, Z, q
  <2> QED BY <2>1 DEF KeysBy
<1>17. \A i \in Places(all) : keys[i] \in Seq(Int)
  <2> HIDE DEF K, Z, q, keys
  <2> QED BY <1>14, <1>15, <1>16 DEF KeysBy
<1>18. PICK x \in ToSet(all) : x.ident = q
  <2>1. f.ident = q
    OBVIOUS
  <2> HIDE DEF q
  <2> QED BY <2>1, <1>9, <1>10, <1>13
<1>19. /\ Len(out) # 0 /\ 1 \in Places(out) /\ out[1] \in ToSet(all)
       /\ K[out[1]] = K[x] \/ Before(K[out[1]], K[x])
  <2> HIDE DEF K, Z, q, keys, cap
  <2> QED BY <1>2, <1>13, <1>16, <1>17, <1>18, LeadIs
<1> DEFINE h == out[1]
<1>20. h \in Z /\ x \in Z
  <2> HIDE DEF Z, out
  <2> QED BY <1>18, <1>19, <1>13, ListIs
<1>21. h.ident = q
  <2> DEFINE u == TrueFirst(h.ident = q)
             v == TrueFirst(x.ident = q)
  <2>1. /\ K[h] \in Seq(Int) /\ Len(K[h]) >= 1 /\ K[h][1] = u
        /\ K[x] \in Seq(Int) /\ Len(K[x]) >= 1 /\ K[x][1] = v
    <3> HIDE DEF Z, out, K, q
    <3> QED BY <1>20, <1>15
  <2>2. K[h] = K[x] \/ Before(K[h], K[x])
    BY <1>19
  <2>3. v = 0 /\ (u <= 0 => h.ident = q)
    <3> HIDE DEF q, h
    <3> QED BY <1>18 DEF TrueFirst
  <2> HIDE DEF h, K, u, v
  <2>4. u <= v
    BY <2>1, <2>2, LesserLeads
  <2> QED BY <2>3, <2>4
<1>22. out # <<>>
  <2> HIDE DEF out
  <2> QED BY <1>19
<1> HIDE DEF out
<1> QED
  BY <1>8, <1>21, <1>22

(* A square is not negative, and none but that of zero is zero.            *)
LEMMA SquareIs ==
    ASSUME NEW x \in Int
    PROVE  x * x \in Int /\ x * x >= 0 /\ (x * x <= 0 => x = 0)
<1>1. CASE x = 0
  BY <1>1
<1>2. CASE x > 0
  <2>1. x * x > 0
    BY <1>2
  <2> QED BY <2>1, <1>2
<1>3. CASE x < 0
  <2>1. x * x > 0
    BY <1>3
  <2> QED BY <2>1, <1>3
<1> QED
  BY <1>1, <1>2, <1>3

ApartOf(f, lat, lon) == (f.lat - lat) * (f.lat - lat) + (f.lon - lon) * (f.lon - lon)

(* A fix is at no distance from where it is, and from nowhere else.        *)
LEMMA ApartIs ==
    ASSUME NEW f \in Fix, NEW lat \in Int, NEW lon \in Int
    PROVE  /\ ApartOf(f, lat, lon) \in Int /\ ApartOf(f, lat, lon) >= 0
           /\ ApartOf(f, lat, lon) <= 0 => f.lat = lat /\ f.lon = lon
           /\ f.lat = lat /\ f.lon = lon => ApartOf(f, lat, lon) = 0
<1>1. f.lat \in Int /\ f.lon \in Int
  <2>1. -180..180 \subseteq Int
    OBVIOUS
  <2> QED BY <2>1 DEF Fix, Longitude
<1> DEFINE x == f.lat - lat
           y == f.lon - lon
           xx == x * x
           yy == y * y
<1>2. x \in Int /\ y \in Int /\ (x = 0 <=> f.lat = lat) /\ (y = 0 <=> f.lon = lon)
  BY <1>1
<1>3. ApartOf(f, lat, lon) = xx + yy
  BY DEF ApartOf
<1> HIDE DEF x, y
<1>4. xx \in Int /\ xx >= 0 /\ (xx <= 0 => x = 0) /\ yy \in Int /\ yy >= 0 /\ (yy <= 0 => y = 0)
  BY <1>2, SquareIs
<1>5. x = 0 /\ y = 0 => xx = 0 /\ yy = 0
  OBVIOUS
<1> HIDE DEF xx, yy
<1> QED
  BY <1>2, <1>3, <1>4, <1>5

(* A tap right on a fix finds a fix that is there.                         *)
LEMMA NearestIs ==
    ASSUME Inv, NEW w \in ToSet(db.waypoint) \cup ToSet(db.navaid)
    PROVE  LET tapped == NearestFix(db, w.lat, w.lon) IN
           tapped # None /\ tapped.lat = w.lat /\ tapped.lon = w.lon
<1> DEFINE all == db.waypoint \o db.navaid
           lat == w.lat
           lon == w.lon
           S == {k \in Places(all) : \A i \in Places(all) : ApartOf(all[k], lat, lon) <= ApartOf(all[i], lat, lon)}
<1>1. NearestFix(db, lat, lon) = FirstAt(all, S)
  BY DEF NearestFix, FirstWhere, ApartOf
<1>2. db.waypoint \in Seq(Fix) /\ db.navaid \in Seq(Fix) /\ None \notin Fix
  <2>1. {"navaid", "waypoint"} \subseteq DOMAIN Schema /\ Schema["navaid"] = Fix /\ Schema["waypoint"] = Fix
    BY DEF Schema
  <2> QED BY <2>1, RowsAreRows
<1>3. all \in Seq(Fix) /\ ToSet(all) = ToSet(db.waypoint) \cup ToSet(db.navaid)
  BY <1>2, Joined
<1> HIDE DEF all
<1>4. ToSet(all) = {all[i] : i \in Places(all)} /\ \A i \in Places(all) : all[i] \in Fix
  BY <1>3, ListIs
<1>5. PICK j \in Places(all) : all[j] = w
  BY <1>3, <1>4
<1>6. lat \in Int /\ lon \in Int
  <2>1. w \in Fix
    BY <1>4, <1>5
  <2>2. -180..180 \subseteq Int
    OBVIOUS
  <2> QED BY <2>1, <2>2 DEF Fix, Longitude
<1>7. ApartOf(all[j], lat, lon) = 0
  <2>1. all[j].lat = lat /\ all[j].lon = lon /\ all[j] \in Fix
    BY <1>4, <1>5
  <2> HIDE DEF lat, lon
  <2> QED BY <2>1, <1>6, ApartIs
<1> HIDE DEF lat, lon
<1>8. \A i \in Places(all) : ApartOf(all[i], lat, lon) \in Int /\ ApartOf(all[i], lat, lon) >= 0
  BY <1>4, <1>6, ApartIs
<1>9. j \in S
  BY <1>5, <1>7, <1>8
<1>10. \A k \in S : all[k] \in Fix /\ ApartOf(all[k], lat, lon) <= 0
  BY <1>4, <1>5, <1>7
<1>11. FirstOf(all, S)
  <2>1. S \in SUBSET Places(all)
    OBVIOUS
  <2> HIDE DEF S
  <2> QED BY <2>1, <1>3, FirstIsOne
<1> HIDE DEF S
<1>12. PICK k \in S : FirstAt(all, S) = all[k]
  BY <1>9, <1>11 DEF FirstOf
<1>13. all[k] # None /\ all[k].lat = lat /\ all[k].lon = lon
  BY <1>2, <1>6, <1>10, <1>12, ApartIs
<1> QED
  BY <1>1, <1>12, <1>13 DEF lat, lon

(* An airway that is asked for opens with its legs, each with a fix of its *)
(* name if there is one, and a tap on any of them finds it again.          *)
LEMMA AirwayOpens ==
    ASSUME Inv, NEW ident, NEW r \in ToSet(db.airway), r.ident = ident
    PROVE  LET a == AirwayDetail(db, ident) IN
           /\ a.ident = ident /\ [ident |-> a.ident, legs |-> a.legs] \in ToSet(db.airway)
           /\ \A f \in ToSet(db.waypoint) \cup ToSet(db.navaid) :
                f.ident \in ToSet(a.legs) => f.ident \in DOMAIN a.fixes
           /\ \A i \in DOMAIN a.fixes :
                LET tapped == NearestFix(db, a.fixes[i][1], a.fixes[i][2]) IN
                tapped # None /\ <<tapped.lat, tapped.lon>> = a.fixes[i]
<1> DEFINE X == Schema["airway"]
           rows == db.airway
           S == {i \in Places(rows) : Upper(rows[i].ident) = Upper(ident)}
           row == FirstAt(rows, S)
           OnAirway(f) == Either(PointOf(db.waypoint, f), PointOf(db.navaid, f))
           fixes == [f \in {g \in ToSet(row.legs) : OnAirway(g) # None} |-> OnAirway(f)]
           a == AirwayDetail(db, ident)
<1>1. "airway" \in DOMAIN Schema /\ \A x \in X : x.ident \in Ident
  BY DEF Schema
<1>2. /\ rows \in Seq(X) /\ S \in SUBSET Places(rows) /\ ToSet(rows) = {rows[i] : i \in Places(rows)}
      /\ \A i \in Places(rows) : rows[i] \in X /\ rows[i] # None
  BY <1>1, RowsAreRows
<1>3. row # None /\ row.ident = ident
  <2>1. PICK j \in Places(rows) : rows[j] = r
    BY <1>2
  <2>2. j \in S
    BY <2>1
  <2>3. FirstOf(rows, S)
    <3> HIDE DEF S, X, rows
    <3> QED BY <1>2, FirstIsOne
  <2>4. PICK i \in S : row = rows[i]
    <3> HIDE DEF S, rows
    <3> QED BY <2>2, <2>3 DEF FirstOf
  <2>5. Upper(rows[i].ident) = Upper(ident) /\ i \in Places(rows)
    OBVIOUS
  <2>6. rows[i].ident \in Ident /\ ident \in Ident
    <3> HIDE DEF S, X, rows
    <3> QED BY <1>1, <1>2, <2>1, <2>5
  <2>7. rows[i].ident = ident
    <3> HIDE DEF S, X, rows
    <3> QED BY <2>5, <2>6, PlainIs
  <2> HIDE DEF S, rows, row
  <2> QED
    BY <2>4, <2>5, <2>7, <1>2
<1>4. a = IF row = None THEN None ELSE [ident |-> row.ident, legs |-> row.legs, fixes |-> fixes]
  BY DEF AirwayDetail, FirstWhere
<1> HIDE DEF row
<1>5. a = [ident |-> ident, legs |-> row.legs, fixes |-> fixes]
  <2> HIDE DEF fixes, a
  <2> QED BY <1>3, <1>4
<1>6. a.ident = ident /\ a.legs = row.legs /\ a.fixes = fixes
  <2> HIDE DEF fixes, a
  <2> QED BY <1>5
<1>7. [ident |-> a.ident, legs |-> a.legs] \in ToSet(rows)
  <2>1. row \in ToSet(rows)
    <3> HIDE DEF S, X, rows, a, fixes
    <3>1. FirstOf(rows, S)
      BY <1>2, FirstIsOne
    <3> QED BY <3>1, <1>2, <1>3 DEF FirstOf, row
  <2>2. row \in [ident : Ident, legs : Seq(Ident)]
    <3>1. X = [ident : Ident, legs : Seq(Ident)]
      BY DEF Schema
    <3>2. ToSet(rows) \subseteq X
      <4> HIDE DEF S, X, rows, a, fixes
      <4> QED BY <1>2, ListIs
    <3> HIDE DEF X, a, rows
    <3> QED BY <2>1, <3>1, <3>2
  <2>3. row = [ident |-> row.ident, legs |-> row.legs]
    <3> HIDE DEF a, rows
    <3> QED BY <2>2
  <2> HIDE DEF a, rows, fixes
  <2> QED
    BY <2>1, <2>3, <1>3, <1>6
<1>8. ASSUME NEW f \in ToSet(db.waypoint) \cup ToSet(db.navaid) PROVE OnAirway(f.ident) # None
  <2>1. /\ ToSet(db.waypoint) = {db.waypoint[i] : i \in Places(db.waypoint)}
        /\ ToSet(db.navaid) = {db.navaid[i] : i \in Places(db.navaid)}
    <3>1. {"navaid", "waypoint"} \subseteq DOMAIN Schema
      BY DEF Schema
    <3> QED BY <3>1, RowsAreRows
  <2>2. CASE f \in ToSet(db.waypoint)
    <3>1. PICK i \in Places(db.waypoint) : f = db.waypoint[i]
      BY <2>1, <2>2
    <3>2. PointOf(db.waypoint, f.ident) # None
      BY <3>1, PointIs
    <3> QED BY <3>2 DEF Either
  <2>3. CASE f \in ToSet(db.navaid)
    <3>1. PICK i \in Places(db.navaid) : f = db.navaid[i]
      BY <2>1, <2>3
    <3>2. PointOf(db.navaid, f.ident) # None
      BY <3>1, PointIs
    <3> QED BY <3>2 DEF Either
  <2> QED
    BY <2>2, <2>3
<1>9. ASSUME NEW f, OnAirway(f) # None
      PROVE  \E w \in ToSet(db.waypoint) \cup ToSet(db.navaid) : OnAirway(f) = <<w.lat, w.lon>>
  <2>1. /\ ToSet(db.waypoint) = {db.waypoint[i] : i \in Places(db.waypoint)}
        /\ ToSet(db.navaid) = {db.navaid[i] : i \in Places(db.navaid)}
    <3>1. {"navaid", "waypoint"} \subseteq DOMAIN Schema
      BY DEF Schema
    <3> QED BY <3>1, RowsAreRows
  <2>2. CASE PointOf(db.waypoint, f) # None
    <3>1. \E i \in Places(db.waypoint) : PointOf(db.waypoint, f) = <<db.waypoint[i].lat, db.waypoint[i].lon>>
      BY <2>2, PointIs
    <3> QED BY <3>1, <2>1, <2>2 DEF Either
  <2>3. CASE PointOf(db.waypoint, f) = None
    <3>1. OnAirway(f) = PointOf(db.navaid, f)
      BY <2>3 DEF Either
    <3>2. \E i \in Places(db.navaid) : PointOf(db.navaid, f) = <<db.navaid[i].lat, db.navaid[i].lon>>
      BY <3>1, <1>9, PointIs
    <3> QED BY <3>1, <3>2, <2>1
  <2> QED
    BY <2>2, <2>3
<1>10. ASSUME NEW f \in ToSet(db.waypoint) \cup ToSet(db.navaid), f.ident \in ToSet(a.legs)
       PROVE  f.ident \in DOMAIN a.fixes
  <2>1. OnAirway(f.ident) # None /\ f.ident \in ToSet(row.legs)
    <3> HIDE DEF a, fixes, OnAirway
    <3> QED BY <1>6, <1>8, <1>10
  <2>2. DOMAIN fixes = {g \in ToSet(row.legs) : OnAirway(g) # None}
    <3> HIDE DEF OnAirway
    <3> QED OBVIOUS
  <2> HIDE DEF a, fixes, OnAirway
  <2> QED
    BY <2>1, <2>2, <1>6
<1>11. ASSUME NEW i \in DOMAIN a.fixes
       PROVE  LET tapped == NearestFix(db, a.fixes[i][1], a.fixes[i][2]) IN
              tapped # None /\ <<tapped.lat, tapped.lon>> = a.fixes[i]
  <2>1. a.fixes[i] = OnAirway(i) /\ OnAirway(i) # None
    <3>1. i \in DOMAIN fixes
      <4> HIDE DEF a, fixes
      <4> QED BY <1>6
    <3>2. fixes[i] = OnAirway(i) /\ OnAirway(i) # None
      <4> HIDE DEF OnAirway, a
      <4> QED BY <3>1
    <3> HIDE DEF a, fixes, OnAirway
    <3> QED BY <3>2, <1>6
  <2>2. PICK w \in ToSet(db.waypoint) \cup ToSet(db.navaid) : a.fixes[i] = <<w.lat, w.lon>>
    <3> HIDE DEF a, fixes, OnAirway
    <3> QED BY <2>1, <1>9
  <2>3. a.fixes[i][1] = w.lat /\ a.fixes[i][2] = w.lon
    <3> HIDE DEF a
    <3> QED BY <2>2
  <2> HIDE DEF a
  <2> QED
    BY <2>2, <2>3, NearestIs
<1> HIDE DEF a
<1> QED
  BY <1>6, <1>7, <1>10, <1>11 DEF a

(* The filed routes between two fields, all of them, the preferred ones    *)
(* first.                                                                  *)
LEMMA FiledRoutes ==
    ASSUME Inv, NEW from \in Ident, NEW to \in Ident
    PROVE  LET routes == PreferredRoutes(db, from, to) IN
           /\ ToSet(routes) = {r \in ToSet(db.preferred) : r.orig = from /\ r.dest = to}
           /\ \A j \in Places(routes) : routes[j].source = "PFR" => \A i \in 1..j : routes[i].source = "PFR"
<1> DEFINE X == Schema["preferred"]
           rows == db.preferred
           S == {i \in Places(rows) : rows[i].orig = from /\ rows[i].dest = to}
           M == Taken(rows, S)
           keys == [i \in Places(M) |-> <<TrueFirst(M[i].source = "PFR")>>]
           out == Sorted(M, keys)
<1>1. Tidy(from) = from /\ Tidy(to) = to /\ from # <<>> /\ to # <<>>
  BY PlainIs DEF Ident
<1>2. PreferredRoutes(db, from, to) = out
  BY <1>1 DEF PreferredRoutes, OrderedBy, Matching, MapSeq
<1>3. /\ rows \in Seq(X) /\ S \in SUBSET Places(rows) /\ ToSet(rows) = {rows[i] : i \in Places(rows)}
  <2>1. "preferred" \in DOMAIN Schema
    BY DEF Schema
  <2> QED BY <2>1, RowsAreRows
<1>4. M \in Seq(X) /\ ToSet(M) = {r \in ToSet(rows) : r.orig = from /\ r.dest = to}
  <2>1. M \in Seq(X) /\ ToSet(M) = {rows[i] : i \in S}
    <3> HIDE DEF S, X, rows
    <3> QED BY <1>3, TakenIs DEF TakenOf
  <2>2. {rows[i] : i \in S} = {r \in ToSet(rows) : r.orig = from /\ r.dest = to}
    <3> HIDE DEF X, rows
    <3> QED BY <1>3
  <2> HIDE DEF M, S
  <2> QED BY <2>1, <2>2
<1>5. \A i \in Places(M) : keys[i] = <<TrueFirst(M[i].source = "PFR")>> /\ keys[i] \in Seq(Int)
  <2> HIDE DEF M
  <2> QED BY DEF TrueFirst
<1>6. out \in Seq(X) /\ SortedOf(M, keys, out)
  <2> HIDE DEF M, keys, X
  <2> QED BY <1>4, <1>5, SortedIs
<1>7. ToSet(out) = {r \in ToSet(rows) : r.orig = from /\ r.dest = to}
  <2> HIDE DEF out, M
  <2> QED BY <1>4, <1>6 DEF SortedOf
<1>8. Places(out) = 1..Len(out) /\ Len(out) \in Nat
  <2> HIDE DEF out, X
  <2> QED BY <1>6, ListIs
<1>9. ASSUME NEW j \in Places(out), out[j].source = "PFR", NEW i \in 1..j PROVE out[i].source = "PFR"
  <2>1. CASE i = j
    <3> HIDE DEF out
    <3> QED BY <2>1, <1>9
  <2>2. CASE i # j
    <3>1. i \in Places(out) /\ i < j
      <4> HIDE DEF out
      <4> QED BY <2>2, <1>8
    <3>2. PICK k \in Places(M), l \in Places(M) : Sooner(keys, k, l) /\ out[i] = M[k] /\ out[j] = M[l]
      <4> HIDE DEF out, M, keys
      <4> QED BY <3>1, <1>6 DEF SortedOf
    <3>3. Before(keys[k], keys[l]) \/ keys[k] = keys[l]
      BY <3>2 DEF Sooner
    <3>4. /\ keys[k] = <<TrueFirst(M[k].source = "PFR")>> /\ keys[k] \in Seq(Int)
          /\ keys[l] = <<TrueFirst(M[l].source = "PFR")>> /\ keys[l] \in Seq(Int)
      BY <1>5
    <3> HIDE DEF keys, M, out
    <3>5. Len(keys[k]) >= 1 /\ Len(keys[l]) >= 1
      BY <3>4
    <3>6. keys[k][1] <= keys[l][1]
      BY <3>3, <3>4, <3>5, LesserLeads
    <3>7. TrueFirst(M[k].source = "PFR") <= TrueFirst(M[l].source = "PFR")
      BY <3>4, <3>6
    <3>8. M[k].source = "PFR"
      BY <3>2, <3>7, <1>9 DEF TrueFirst
    <3> QED
      BY <3>2, <3>8
  <2> QED
    BY <2>1, <2>2
<1> HIDE DEF out
<1> QED
  BY <1>2, <1>7, <1>9

(* A bundle of the schema is enough for what is found to lead on.          *)
LEMMA HitsLead == Inv => HitsLeadOn
<1> SUFFICES ASSUME Inv PROVE HitsLeadOn
  OBVIOUS
<1>1. ASSUME NEW q \in Typed, NEW f \in ToSet(db.waypoint) \cup ToSet(db.navaid), f.ident = Tidy(q)
      PROVE  /\ \E h \in ToSet(SearchIdents(db, q)) : h.ident = f.ident
             /\ \A n \in Caps : LET hits == Device!Search(db, q, n) IN hits # <<>> /\ hits[1].ident = f.ident
  <2>1. \A n \in Caps : n \in Nat
    BY CapsArePositive
  <2> QED
    BY <1>1, <2>1, IdentsFound, FixLeadsOnTheDevice
<1>2. ASSUME NEW q \in Typed, NEW h \in ToSet(SearchIdents(db, q)), h.kind = 3
      PROVE  LET a == AirwayDetail(db, h.ident) IN
             /\ a.ident = h.ident /\ [ident |-> a.ident, legs |-> a.legs] \in ToSet(db.airway)
             /\ \A f \in ToSet(db.waypoint) \cup ToSet(db.navaid) :
                  f.ident \in ToSet(a.legs) => f.ident \in DOMAIN a.fixes
             /\ \A i \in DOMAIN a.fixes :
                  LET tapped == NearestFix(db, a.fixes[i][1], a.fixes[i][2]) IN
                  tapped # None /\ <<tapped.lat, tapped.lon>> = a.fixes[i]
  <2>1. PICK r \in ToSet(db.airway) : r.ident = h.ident
    BY <1>2, IdentsFound
  <2> QED
    BY <2>1, AirwayOpens
<1>3. ASSUME NEW a \in ToSet(db.airport), NEW b \in ToSet(db.airport)
      PROVE  LET routes == PreferredRoutes(db, a.icao, b.icao) IN
             /\ ToSet(routes) = {r \in ToSet(db.preferred) : r.orig = a.icao /\ r.dest = b.icao}
             /\ \A j \in Places(routes) : routes[j].source = "PFR" => \A i \in 1..j : routes[i].source = "PFR"
  <2>1. a.icao \in Ident /\ b.icao \in Ident
    <3>1. "airport" \in DOMAIN Schema /\ \A x \in Schema["airport"] : x.icao \in Ident
      BY DEF Schema
    <3> QED BY <3>1, RowsAreRows
  <2> QED
    BY <2>1, FiledRoutes
<1> QED
  BY <1>1, <1>2, <1>3 DEF HitsLeadOn

(* A fix that is typed is found on the web and leads the hits on the       *)
(* device, an airport leads those of the web, and what is found leads on.  *)
THEOREM SearchIsAnswered == Spec => []SearchLeadsOn
<1>1. Inv => SearchLeadsOn
  BY HitsLead, TypedLeads DEF SearchLeadsOn
<1> QED
  BY <1>1, SpecBundle, PTL
=============================================================================
