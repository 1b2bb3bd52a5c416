------------------------- MODULE PublicationProofs -------------------------
(***************************************************************************)
(* A cycle published out of any feeds, by runs that may be killed; and, at *)
(* the end, what the parsers of Sources make of any single file.           *)
(***************************************************************************)
EXTENDS Publication, Sources, FiniteSetTheorems, SequenceTheorems, WellFoundedInduction, TLAPS

---------------------------------------------------------------------------
LEMMA LeastNatural ==
    ASSUME NEW T \in SUBSET Nat, T # {}
    PROVE  \E n \in T : \A m \in T : n <= m
<1>1. IsWellFoundedOn(OpToRel(<, Nat), Nat)
  BY NatLessThanWellFounded
<1>2. PICK n \in T : \A m \in T : <<m, n>> \notin OpToRel(<, Nat)
  BY <1>1, WFMin
<1>3. \A m \in T : ~(m < n)
  BY <1>2 DEF OpToRel
<1> QED
  BY <1>3

LEMMA MinOfNaturals ==
    ASSUME NEW T \in SUBSET Nat, T # {}
    PROVE  Min(T) \in T /\ \A m \in T : Min(T) <= m
BY LeastNatural DEF Min

LEMMA MaxOfInts ==
    ASSUME NEW T \in SUBSET Int, IsFiniteSet(T), T # {}
    PROVE  Max(T) \in T /\ \A x \in T : x <= Max(T)
<1> DEFINE HasMax(U) == \E x \in U : \A y \in U : x >= y
           Bad == {U \in SUBSET T : U # {} /\ ~HasMax(U)}
           Sizes == {Cardinality(U) : U \in Bad}
<1>1. SUFFICES ASSUME Bad # {} PROVE FALSE
  <2>1. T \notin Bad
    BY <1>1
  <2>2. HasMax(T)
    BY <2>1
  <2> QED
    BY <2>2 DEF Max
<1>2. \A U \in SUBSET T : IsFiniteSet(U) /\ Cardinality(U) \in Nat
  BY FS_Subset, FS_CardinalityType
<1>3. PICK n \in Sizes : \A m \in Sizes : n <= m
  <2>1. Sizes \in SUBSET Nat /\ Sizes # {}
    BY <1>1, <1>2
  <2> HIDE DEF Sizes
  <2> QED
    BY <2>1, LeastNatural
<1>4. PICK U \in Bad : n = Cardinality(U)
  OBVIOUS
<1>5. PICK x \in U : TRUE
  OBVIOUS
<1> DEFINE V == U \ {x}
<1>6. Cardinality(V) = n - 1
  BY <1>2, <1>4, FS_RemoveElement
<1>7. V \notin Bad
  <2> SUFFICES ASSUME V \in Bad PROVE FALSE
    OBVIOUS
  <2>1. n <= n - 1
    BY <1>3, <1>6
  <2>2. n \in Nat
    BY <1>2, <1>4
  <2> QED
    BY <2>1, <2>2
<1>8. HasMax(U)
  <2>1. CASE V = {}
    <3>1. U = {x} /\ x \in Int
      BY <2>1
    <3> QED
      BY <3>1
  <2>2. CASE V # {}
    <3>1. PICK y \in V : \A z \in V : y >= z
      BY <1>7, <2>2
    <3>2. x \in Int /\ y \in Int /\ V \subseteq Int
      OBVIOUS
    <3>3. CASE x >= y
      <4>1. \A z \in U : x >= z
        BY <3>1, <3>2, <3>3
      <4> QED BY <4>1
    <3>4. CASE y >= x
      <4>1. \A z \in U : y >= z
        BY <3>1, <3>2, <3>4
      <4> QED BY <4>1
    <3> QED
      BY <3>2, <3>3, <3>4
  <2> QED
    BY <2>1, <2>2
<1> QED
  BY <1>8

---------------------------------------------------------------------------
(* Sequences put together from sequences.                                  *)

Joins(F, seqs, n) ==
    F = [i \in 1..n |-> IF i = 1 THEN seqs[i] ELSE F[i - 1] \o seqs[i]]

LEMMA JoinsExists ==
    ASSUME NEW seqs, NEW n \in Nat
    PROVE  \E F : Joins(F, seqs, n)
<1> DEFINE T == {m \in Nat : ~ \E F : Joins(F, seqs, m)}
<1> SUFFICES ASSUME T # {} PROVE FALSE
  OBVIOUS
<1>1. PICK m \in T : \A k \in T : m <= k
  BY LeastNatural
<1>2. CASE m = 0
  <2>1. Joins(<<>>, seqs, 0)
    <3> DEFINE F == [i \in 1..0 |-> IF i = 1 THEN seqs[i] ELSE <<>>[i - 1] \o seqs[i]]
    <3>1. F = <<>>
      OBVIOUS
    <3> QED BY <3>1 DEF Joins
  <2> QED BY <2>1, <1>2
<1>3. CASE m # 0
  <2>1. m - 1 \in Nat /\ m - 1 \notin T
    BY <1>1, <1>3
  <2>2. PICK F : Joins(F, seqs, m - 1)
    BY <2>1
  <2> DEFINE G == [i \in 1..m |-> IF i < m THEN F[i]
                                  ELSE IF m = 1 THEN seqs[m] ELSE F[m - 1] \o seqs[m]]
             H == [i \in 1..m |-> IF i = 1 THEN seqs[i] ELSE G[i - 1] \o seqs[i]]
  <2>3. ASSUME NEW i \in 1..m PROVE G[i] = H[i]
    <3>1. CASE i < m
      <4>1. i \in 1..(m - 1) /\ G[i] = F[i]
        BY <3>1, <2>1
      <4>2. F[i] = IF i = 1 THEN seqs[i] ELSE F[i - 1] \o seqs[i]
        BY <2>2, <4>1 DEF Joins
      <4>3. i # 1 => G[i - 1] = F[i - 1]
        BY <4>1, <3>1
      <4> QED BY <4>1, <4>2, <4>3
    <3>2. CASE i = m
      <4>1. m # 1 => G[m - 1] = F[m - 1]
        BY <2>1
      <4> QED BY <3>2, <4>1
    <3> QED BY <3>1, <3>2
  <2>4. G = H
    BY <2>3
  <2>5. Joins(G, seqs, m)
    BY <2>4 DEF Joins
  <2> QED BY <2>5, <1>1
<1> QED
  BY <1>2, <1>3

LEMMA FlattenIs ==
    ASSUME NEW n \in Nat, NEW S, NEW seqs \in [1..n -> Seq(S)]
    PROVE  IF n = 0 THEN FlattenSeq(seqs) = <<>>
           ELSE \E F : Joins(F, seqs, n) /\ FlattenSeq(seqs) = F[n]
<1>1. Len(seqs) = n /\ seqs \in Seq(Seq(S))
  OBVIOUS
<1>2. CASE n = 0
  BY <1>1, <1>2 DEF FlattenSeq
<1>3. CASE n # 0
  <2> DEFINE F == CHOOSE F : F = [i \in 1..n |-> IF i = 1 THEN seqs[i] ELSE F[i - 1] \o seqs[i]]
  <2>1. Joins(F, seqs, n)
    BY JoinsExists DEF Joins
  <2>2. FlattenSeq(seqs) = F[n]
    BY <1>1, <1>3 DEF FlattenSeq
  <2> QED BY <1>3, <2>1, <2>2
<1> QED
  BY <1>2, <1>3

(* Nothing is in a joined sequence that is not in one of its parts, and    *)
(* everything is that is.                                                  *)
Gathers(s, seqs, n) ==
    /\ \A k \in 1..Len(s) : \E i \in 1..n : \E j \in 1..Len(seqs[i]) : s[k] = seqs[i][j]
    /\ \A i \in 1..n : \A j \in 1..Len(seqs[i]) : \E k \in 1..Len(s) : s[k] = seqs[i][j]

LEMMA JoinsGather ==
    ASSUME NEW n \in Nat, NEW S, NEW seqs \in [1..n -> Seq(S)],
           NEW F, Joins(F, seqs, n)
    PROVE  \A m \in 1..n : F[m] \in Seq(S) /\ Gathers(F[m], seqs, m)
<1> DEFINE T == {m \in 1..n : ~(F[m] \in Seq(S) /\ Gathers(F[m], seqs, m))}
<1> SUFFICES ASSUME T # {} PROVE FALSE
  OBVIOUS
<1>1. PICK m \in T : \A k \in T : m <= k
  <2>1. T \in SUBSET Nat
    OBVIOUS
  <2> HIDE DEF T
  <2> QED BY <2>1, LeastNatural
<1>2. F[m] = IF m = 1 THEN seqs[m] ELSE F[m - 1] \o seqs[m]
  BY <1>1 DEF Joins
<1>3. seqs[m] \in Seq(S) /\ m \in 1..n
  BY <1>1
<1>4. CASE m = 1
  <2>1. F[m] = seqs[1] /\ F[m] \in Seq(S)
    BY <1>2, <1>3, <1>4
  <2>2. Gathers(F[m], seqs, m)
    BY <2>1, <1>4 DEF Gathers
  <2> QED BY <1>1, <2>1, <2>2
<1>5. CASE m # 1
  <2>1. m - 1 \in 1..n /\ m - 1 \notin T
    BY <1>1, <1>3, <1>5
  <2> DEFINE s == F[m - 1]
             t == seqs[m]
  <2>2. s \in Seq(S) /\ Gathers(s, seqs, m - 1)
    BY <2>1
  <2>3. F[m] = s \o t /\ t \in Seq(S)
    BY <1>2, <1>3, <1>5
  <2>4. F[m] \in Seq(S) /\ Len(F[m]) = Len(s) + Len(t)
    BY <2>2, <2>3
  <2>5. \A k \in 1..Len(s) : F[m][k] = s[k]
    BY <2>2, <2>3
  <2>6. \A k \in 1..Len(t) : F[m][Len(s) + k] = t[k]
    BY <2>2, <2>3
  <2>7. ASSUME NEW k \in 1..Len(F[m])
        PROVE  \E i \in 1..m : \E j \in 1..Len(seqs[i]) : F[m][k] = seqs[i][j]
    <3>1. CASE k <= Len(s)
      <4>1. k \in 1..Len(s) /\ F[m][k] = s[k]
        BY <3>1, <2>2, <2>4, <2>5
      <4>2. PICK i \in 1..(m - 1) : \E j \in 1..Len(seqs[i]) : s[k] = seqs[i][j]
        BY <4>1, <2>2 DEF Gathers
      <4>3. i \in 1..m
        BY <1>3
      <4> QED BY <4>1, <4>2, <4>3
    <3>2. CASE k > Len(s)
      <4> DEFINE j == k - Len(s)
      <4>1. j \in 1..Len(t) /\ k = Len(s) + j
        BY <3>2, <2>2, <2>3, <2>4
      <4>2. F[m][k] = seqs[m][j] /\ j \in 1..Len(seqs[m])
        BY <4>1, <2>6
      <4>3. m \in 1..m
        BY <1>3
      <4> HIDE DEF j, t
      <4> QED BY <4>2, <4>3
    <3> QED
      BY <3>1, <3>2, <2>2, <2>4
  <2>8. ASSUME NEW i \in 1..m, NEW j \in 1..Len(seqs[i])
        PROVE  \E k \in 1..Len(F[m]) : F[m][k] = seqs[i][j]
    <3>1. CASE i = m
      <4>1. j \in 1..Len(t)
        BY <3>1
      <4>2. F[m][Len(s) + j] = t[j]
        BY <4>1, <2>6
      <4>3. Len(s) \in Nat /\ Len(t) \in Nat
        BY <2>2, <2>3
      <4>4. Len(s) + j \in 1..Len(F[m])
        BY <4>1, <4>3, <2>4
      <4> QED BY <3>1, <4>2, <4>4
    <3>2. CASE i # m
      <4>1. i \in 1..(m - 1)
        BY <3>2, <1>3
      <4>2. PICK k \in 1..Len(s) : s[k] = seqs[i][j]
        BY <4>1, <2>2 DEF Gathers
      <4>3. k \in 1..Len(F[m])
        BY <2>2, <2>3, <2>4
      <4> QED BY <4>2, <4>3, <2>5
    <3> QED
      BY <3>1, <3>2
  <2>9. Gathers(F[m], seqs, m)
    BY <2>7, <2>8 DEF Gathers
  <2> QED BY <1>1, <2>4, <2>9
<1> QED
  BY <1>4, <1>5

LEMMA FlattenGathers ==
    ASSUME NEW n \in Nat, NEW S, NEW seqs \in [1..n -> Seq(S)]
    PROVE  FlattenSeq(seqs) \in Seq(S) /\ Gathers(FlattenSeq(seqs), seqs, n)
<1>1. CASE n = 0
  <2>1. FlattenSeq(seqs) = <<>>
    BY <1>1, FlattenIs
  <2> QED
    BY <1>1, <2>1 DEF Gathers
<1>2. CASE n # 0
  <2>1. PICK F : Joins(F, seqs, n) /\ FlattenSeq(seqs) = F[n]
    BY <1>2, FlattenIs
  <2>2. n \in 1..n
    BY <1>2
  <2> QED
    BY <2>1, <2>2, JoinsGather
<1> QED
  BY <1>1, <1>2

---------------------------------------------------------------------------
LEMMA SetToSeqIs ==
    ASSUME NEW S, IsFiniteSet(S)
    PROVE  /\ SetToSeq(S) \in [1..Cardinality(S) -> S]
           /\ Cardinality(S) \in Nat
           /\ \A x \in S : \E i \in 1..Cardinality(S) : SetToSeq(S)[i] = x
           /\ IsInjective(SetToSeq(S))
<1>1. Cardinality(S) \in Nat /\ ExistsBijection(1..Cardinality(S), S)
  BY FS_CardinalityType
<1> DEFINE n == Cardinality(S)
<1>2. PICK f \in Bijection(1..n, S) : TRUE
  BY <1>1 DEF ExistsBijection
<1>3. f \in [1..n -> S] /\ IsInjective(f)
  BY <1>2 DEF Bijection, Injection, Surjection, IsInjective
<1> DEFINE g == SetToSeq(S)
<1>4. g \in [1..n -> S] /\ IsInjective(g)
  BY <1>3 DEF SetToSeq
<1> HIDE DEF g
<1>5. g \in Injection(1..n, S)
  BY <1>4 DEF Injection, IsInjective
<1>6. IsFiniteSet(1..n) /\ Cardinality(1..n) = n
  BY <1>1, FS_Interval
<1>7. g \in Surjection(1..n, S)
  BY <1>5, <1>6, FS_Injection
<1> QED
  BY <1>1, <1>4, <1>7 DEF g, Surjection

(* Partial conversions: sets[i] is what the i-th item became.              *)
LEMMA Filtered ==
    ASSUME NEW n \in Nat, NEW sets, \A i \in 1..n : IsFiniteSet(sets[i])
    PROVE  LET s == FlattenSeq([i \in 1..n |-> SetToSeq(sets[i])])
               S == UNION {sets[i] : i \in 1..n}
           IN s \in Seq(S) /\ ToSet(s) = S
<1> DEFINE S == UNION {sets[i] : i \in 1..n}
           seqs == [i \in 1..n |-> SetToSeq(sets[i])]
<1>1. ASSUME NEW i \in 1..n PROVE SetToSeq(sets[i]) \in Seq(S)
  <2>1. SetToSeq(sets[i]) \in [1..Cardinality(sets[i]) -> sets[i]] /\ Cardinality(sets[i]) \in Nat
    BY SetToSeqIs
  <2>2. SetToSeq(sets[i]) \in Seq(sets[i])
    BY <2>1
  <2>3. sets[i] \subseteq S
    OBVIOUS
  <2> HIDE DEF S
  <2> QED BY <2>2, <2>3
<1>2. seqs \in [1..n -> Seq(S)]
  BY <1>1
<1>3. \A i \in 1..n : seqs[i] = SetToSeq(sets[i])
  OBVIOUS
<1> DEFINE s == FlattenSeq(seqs)
<1> HIDE DEF seqs, s
<1>4. s \in Seq(S) /\ Gathers(s, seqs, n)
  <2> HIDE DEF S
  <2> QED BY <1>2, FlattenGathers DEF s
<1>5. ASSUME NEW i \in 1..n, NEW x \in sets[i] PROVE x \in ToSet(s)
  <2>1. PICK j \in 1..Cardinality(sets[i]) : SetToSeq(sets[i])[j] = x
    BY SetToSeqIs
  <2>2. SetToSeq(sets[i]) \in [1..Cardinality(sets[i]) -> sets[i]] /\ Cardinality(sets[i]) \in Nat
    BY SetToSeqIs
  <2>3. j \in 1..Len(seqs[i]) /\ seqs[i][j] = x
    BY <1>3, <2>1, <2>2
  <2>4. PICK k \in 1..Len(s) : s[k] = seqs[i][j]
    BY <1>4, <2>3 DEF Gathers
  <2>5. k \in DOMAIN s
    BY <1>4
  <2> QED BY <2>3, <2>4, <2>5 DEF ToSet
<1>6. ToSet(s) \subseteq S
  BY <1>4 DEF ToSet
<1>7. S \subseteq ToSet(s)
  BY <1>5
<1> QED
  BY <1>4, <1>6, <1>7 DEF seqs, s

LEMMA OwnRange ==
    ASSUME NEW S, NEW s \in Seq(S)
    PROVE  s \in Seq(ToSet(s))
<1>1. s \in [1..Len(s) -> S] /\ Len(s) \in Nat
  OBVIOUS
<1>2. s \in [1..Len(s) -> ToSet(s)]
  BY <1>1 DEF ToSet
<1> QED
  BY <1>1, <1>2

LEMMA ListsAreSeqs ==
    ASSUME NEW S, NEW s \in Seq(S)
    PROVE  IsList(s) /\ Len(s) \in Nat /\ DOMAIN s = Places(s)
BY DEF IsList, Places

IsSeq(s) == s \in Seq(ToSet(s))

(* What a partial conversion keeps, in any of its uses.                    *)
LEMMA Gathered ==
    ASSUME NEW s, IsList(s), NEW sets, \A i \in Places(s) : IsFiniteSet(sets[i]),
           NEW w, w = FlattenSeq([i \in Places(s) |-> SetToSeq(sets[i])])
    PROVE  /\ IsSeq(w) /\ IsList(w)
           /\ ToSet(w) = UNION {sets[i] : i \in Places(s)}
           /\ \A k \in Places(w) : w[k] \in ToSet(w)
<1> DEFINE S == UNION {sets[i] : i \in 1..Len(s)}
<1>1. w \in Seq(S) /\ ToSet(w) = S
  <2>1. Len(s) \in Nat /\ Places(s) = 1..Len(s)
    BY DEF IsList, Places
  <2>2. w = FlattenSeq([i \in 1..Len(s) |-> SetToSeq(sets[i])])
    BY <2>1
  <2> DEFINE m == Len(s)
  <2> HIDE DEF m
  <2>3. FlattenSeq([i \in 1..m |-> SetToSeq(sets[i])]) \in Seq(UNION {sets[i] : i \in 1..m})
        /\ ToSet(FlattenSeq([i \in 1..m |-> SetToSeq(sets[i])])) = UNION {sets[i] : i \in 1..m}
    <3>1. m \in Nat /\ \A i \in 1..m : IsFiniteSet(sets[i])
      BY <2>1 DEF m
    <3> QED BY <3>1, Filtered
  <2> QED BY <2>2, <2>3 DEF m
<1>2. S = UNION {sets[i] : i \in Places(s)}
  BY DEF Places
<1> HIDE DEF S
<1>3. IsSeq(w) /\ IsList(w)
  BY <1>1, OwnRange, ListsAreSeqs DEF IsSeq
<1>4. \A k \in Places(w) : w[k] \in ToSet(w)
  BY <1>1, ListsAreSeqs DEF ToSet
<1> QED
  BY <1>1, <1>2, <1>3, <1>4

---------------------------------------------------------------------------
(* Sequences without a repetition.                                         *)

Once(s, v) == \A i, j \in 1..Len(s) : s[i] = v /\ s[j] = v => i = j

Distinct(s) == \A i, j \in 1..Len(s) : s[i] = s[j] => i = j

InOneOf(seqs, n, v) ==
    \A i, j \in 1..n : i < j =>
      \A a \in 1..Len(seqs[i]), b \in 1..Len(seqs[j]) : seqs[i][a] = v => seqs[j][b] # v

LEMMA JoinsOnce ==
    ASSUME NEW n \in Nat, NEW S, NEW seqs \in [1..n -> Seq(S)], NEW v, \A i \in 1..n : Once(seqs[i], v),
           InOneOf(seqs, n, v), NEW F, Joins(F, seqs, n)
    PROVE  \A m \in 1..n : Once(F[m], v)
<1> DEFINE T == {m \in 1..n : ~Once(F[m], v)}
<1> SUFFICES ASSUME T # {} PROVE FALSE
  OBVIOUS
<1>1. PICK m \in T : \A k \in T : m <= k
  <2>1. T \in SUBSET Nat
    OBVIOUS
  <2> HIDE DEF T
  <2> QED BY <2>1, LeastNatural
<1>2. F[m] = IF m = 1 THEN seqs[m] ELSE F[m - 1] \o seqs[m]
  BY <1>1 DEF Joins
<1>3. seqs[m] \in Seq(S) /\ m \in 1..n /\ Once(seqs[m], v)
  BY <1>1
<1>4. CASE m = 1
  BY <1>1, <1>2, <1>3, <1>4
<1>5. CASE m # 1
  <2>1. m - 1 \in 1..n /\ m - 1 \notin T
    BY <1>1, <1>3, <1>5
  <2> DEFINE s == F[m - 1]
             t == seqs[m]
             both == s \o t
  <2>2. Once(s, v)
    BY <2>1
  <2>3. s \in Seq(S) /\ Gathers(s, seqs, m - 1)
    BY <2>1, JoinsGather
  <2>4. \A i \in 1..Len(s), j \in 1..Len(t) : s[i] = v => t[j] # v
    <3> SUFFICES ASSUME NEW i \in 1..Len(s), NEW j \in 1..Len(t), s[i] = v PROVE t[j] # v
      OBVIOUS
    <3>1. PICK k \in 1..(m - 1) : \E a \in 1..Len(seqs[k]) : s[i] = seqs[k][a]
      BY <2>3 DEF Gathers
    <3>2. PICK a \in 1..Len(seqs[k]) : s[i] = seqs[k][a]
      BY <3>1
    <3>3. k \in 1..n /\ k < m /\ m \in 1..n
      BY <1>3, <2>1
    <3>4. seqs[k][a] = v => seqs[m][j] # v
      <4> HIDE DEF s
      <4> QED BY <3>3 DEF InOneOf
    <3> QED BY <3>2, <3>4
  <2>5. t \in Seq(S) /\ Once(t, v) /\ F[m] = both
    BY <1>2, <1>3, <1>5
  <2> HIDE DEF s, t
  <2>6. Len(both) = Len(s) + Len(t) /\ Len(s) \in Nat /\ Len(t) \in Nat
    BY <2>3, <2>5
  <2>7. \A k \in 1..Len(s) : both[k] = s[k]
    BY <2>3, <2>5
  <2>8. \A k \in 1..Len(both) : k > Len(s) => both[k] = t[k - Len(s)] /\ k - Len(s) \in 1..Len(t)
    BY <2>3, <2>5, <2>6
  <2> HIDE DEF both
  <2>9. ASSUME NEW i \in 1..Len(both), NEW j \in 1..Len(both), both[i] = v, both[j] = v PROVE i = j
    <3>1. CASE i <= Len(s) /\ j <= Len(s)
      <4>1. i \in 1..Len(s) /\ j \in 1..Len(s)
        BY <2>6, <3>1
      <4> QED BY <2>2, <2>7, <2>9, <4>1 DEF Once
    <3>2. CASE i <= Len(s) /\ j > Len(s)
      <4>1. i \in 1..Len(s) /\ j - Len(s) \in 1..Len(t) /\ both[j] = t[j - Len(s)]
        BY <2>6, <2>8, <3>2
      <4> QED BY <2>4, <2>7, <2>9, <4>1
    <3>3. CASE i > Len(s) /\ j <= Len(s)
      <4>1. j \in 1..Len(s) /\ i - Len(s) \in 1..Len(t) /\ both[i] = t[i - Len(s)]
        BY <2>6, <2>8, <3>3
      <4> QED BY <2>4, <2>7, <2>9, <4>1
    <3>4. CASE i > Len(s) /\ j > Len(s)
      <4>1. /\ i - Len(s) \in 1..Len(t) /\ j - Len(s) \in 1..Len(t)
            /\ t[i - Len(s)] = v /\ t[j - Len(s)] = v
        BY <2>6, <2>8, <2>9, <3>4
      <4>2. i - Len(s) = j - Len(s)
        BY <2>5, <4>1 DEF Once
      <4> QED BY <2>6, <4>2
    <3> QED BY <2>6, <3>1, <3>2, <3>3, <3>4
  <2>10. Once(F[m], v)
    BY <2>5, <2>9 DEF Once
  <2> QED BY <1>1, <2>10
<1> QED
  BY <1>4, <1>5, <1>1

(* What comes of one item only is there once.                              *)
LEMMA ComesOnce ==
    ASSUME NEW s, IsList(s), NEW sets, \A i \in Places(s) : IsFiniteSet(sets[i]),
           NEW v, \A i, j \in Places(s) : i < j => v \notin sets[i] \cap sets[j],
           NEW w, w = FlattenSeq([i \in Places(s) |-> SetToSeq(sets[i])])
    PROVE  Once(w, v)
<1> DEFINE n == Len(s)
           S == UNION {sets[i] : i \in 1..n}
           seqs == [i \in 1..n |-> SetToSeq(sets[i])]
<1>1. n \in Nat /\ Places(s) = 1..n
  BY DEF IsList, Places
<1>2. ASSUME NEW i \in 1..n
      PROVE  /\ seqs[i] \in [1..Cardinality(sets[i]) -> sets[i]] /\ Cardinality(sets[i]) \in Nat
             /\ IsInjective(seqs[i])
  <2>1. seqs[i] = SetToSeq(sets[i])
    OBVIOUS
  <2> HIDE DEF seqs
  <2> QED BY <1>1, <2>1, SetToSeqIs
<1>3. seqs = [i \in 1..n |-> seqs[i]] /\ w = FlattenSeq(seqs)
  BY <1>1
<1> HIDE DEF seqs
<1>4. ASSUME NEW i \in 1..n PROVE /\ seqs[i] \in Seq(S) /\ Once(seqs[i], v)
                                  /\ \A a \in 1..Len(seqs[i]) : seqs[i][a] \in sets[i]
  <2>1. seqs[i] \in Seq(sets[i]) /\ Len(seqs[i]) = Cardinality(sets[i]) /\ DOMAIN seqs[i] = 1..Len(seqs[i])
    <3> DEFINE g == seqs[i]
               m == Cardinality(sets[i])
               R == sets[i]
    <3>1. g \in [1..m -> R] /\ m \in Nat
      BY <1>2
    <3> HIDE DEF g, m, R
    <3>2. g \in Seq(R) /\ Len(g) = m /\ DOMAIN g = 1..Len(g)
      BY <3>1
    <3> QED BY <3>2 DEF g, m, R
  <2>2. sets[i] \subseteq S
    OBVIOUS
  <2> HIDE DEF S
  <2> QED BY <1>2, <2>1, <2>2 DEF Once, IsInjective
<1> HIDE DEF S
<1>5. seqs \in [1..n -> Seq(S)]
  BY <1>3, <1>4
<1>6. InOneOf(seqs, n, v)
  <2> SUFFICES ASSUME NEW i \in 1..n, NEW j \in 1..n, i < j,
                      NEW a \in 1..Len(seqs[i]), NEW b \in 1..Len(seqs[j]), seqs[i][a] = v
               PROVE  seqs[j][b] # v
    BY DEF InOneOf
  <2>1. seqs[i][a] \in sets[i] /\ seqs[j][b] \in sets[j] /\ v \notin sets[i] \cap sets[j]
    BY <1>1, <1>4
  <2> QED BY <2>1
<1> HIDE DEF n
<1>7. CASE n = 0
  <2>1. w = <<>>
    BY <1>1, <1>3, <1>5, <1>7, FlattenIs
  <2> QED BY <2>1 DEF Once
<1>8. CASE n # 0
  <2>1. PICK F : Joins(F, seqs, n) /\ w = F[n]
    BY <1>1, <1>3, <1>5, <1>8, FlattenIs
  <2>2. \A m \in 1..n : Once(F[m], v)
    BY <1>1, <1>4, <1>5, <1>6, <2>1, JoinsOnce
  <2> QED BY <1>1, <1>8, <2>1, <2>2
<1> QED
  BY <1>7, <1>8

(* Sets with nothing in common, one behind the other.                      *)
LEMMA GatheredOnce ==
    ASSUME NEW s, IsList(s), NEW sets, \A i \in Places(s) : IsFiniteSet(sets[i]),
           \A i, j \in Places(s) : i < j => sets[i] \cap sets[j] = {},
           NEW w, w = FlattenSeq([i \in Places(s) |-> SetToSeq(sets[i])])
    PROVE  Distinct(w)
<1>1. ASSUME NEW v PROVE Once(w, v)
  BY ComesOnce
<1> QED
  BY <1>1 DEF Once, Distinct

---------------------------------------------------------------------------
(* Airports by identifier.                                                 *)

AirportsOf(rows) ==
    [k \in {rows[i].icao : i \in Places(rows)} |-> rows[Min({i \in Places(rows) : rows[i].icao = k})]]

AreByIdent(table) ==
    IsFiniteSet(DOMAIN table) /\ \A k \in DOMAIN table : table[k].icao = k

LEMMA AirportsOfRows ==
    ASSUME NEW rows, IsList(rows)
    PROVE  AreByIdent(AirportsOf(rows)) /\ DOMAIN AirportsOf(rows) = {rows[i].icao : i \in Places(rows)}
<1> DEFINE Idx(k) == {i \in Places(rows) : rows[i].icao = k}
           keys == {rows[i].icao : i \in Places(rows)}
<1>1. IsFiniteSet(Places(rows))
  BY FS_Interval DEF Places, IsList
<1>2. IsFiniteSet(keys)
  <2> DEFINE f == [i \in Places(rows) |-> rows[i].icao]
  <2>1. f \in Surjection(Places(rows), keys)
    BY DEF Surjection
  <2> QED BY <1>1, <2>1, FS_Surjection
<1>3. ASSUME NEW k \in keys PROVE rows[Min(Idx(k))].icao = k
  <2>1. Idx(k) \in SUBSET Nat /\ Idx(k) # {}
    BY DEF Places, IsList
  <2> HIDE DEF Idx
  <2>2. Min(Idx(k)) \in Idx(k)
    BY <2>1, MinOfNaturals
  <2> QED BY <2>2 DEF Idx
<1> QED
  BY <1>2, <1>3 DEF AirportsOf, AreByIdent

LEMMA DisjointSizes ==
    ASSUME NEW A, NEW B, IsFiniteSet(A), IsFiniteSet(B), A \cap B = {}
    PROVE  Cardinality(A \cup B) = Cardinality(A) + Cardinality(B)
<1>1. Cardinality(A \cup B) = Cardinality(A) + Cardinality(B) - Cardinality(A \cap B)
  BY FS_Union
<1>2. Cardinality(A) \in Nat /\ Cardinality(B) \in Nat /\ Cardinality(A \cap B) = 0
  BY FS_CardinalityType, FS_EmptySet
<1> QED
  BY <1>1, <1>2

(* Airports that are ignored were there: the count grows by the new ones.  *)
LEMMA IgnoringCounts ==
    ASSUME NEW table, AreByIdent(table), NEW rows, IsList(rows)
    PROVE  LET all == Ignoring(table, rows)
               new == {rows[i].icao : i \in Places(rows)} \ DOMAIN table
           IN /\ AreByIdent(all)
              /\ DOMAIN all = DOMAIN table \cup new
              /\ Cardinality(DOMAIN all) = Cardinality(DOMAIN table) + Cardinality(new)
<1> DEFINE g == AirportsOf(rows)
           all == Together(table, g)
           new == DOMAIN g \ DOMAIN table
<1>1. Ignoring(table, rows) = all
  BY DEF Ignoring, Keyed, AirportsOf, IcaoOfRow
<1>2. AreByIdent(g) /\ DOMAIN g = {rows[i].icao : i \in Places(rows)}
  BY AirportsOfRows
<1> HIDE DEF g
<1>3. DOMAIN all = DOMAIN table \cup new
  <2>1. DOMAIN all = DOMAIN table \cup DOMAIN g
    BY DEF Together
  <2> HIDE DEF all
  <2> QED BY <2>1
<1>4. IsFiniteSet(new) /\ new \subseteq DOMAIN g /\ IsFiniteSet(DOMAIN table)
  BY <1>2, FS_Difference DEF AreByIdent
<1>5. \A k \in DOMAIN all : all[k].icao = k
  <2>1. \A k \in DOMAIN table \cup DOMAIN g : all[k] = IF k \in DOMAIN table THEN table[k] ELSE g[k]
    BY DEF Together
  <2> HIDE DEF all
  <2> QED BY <1>2, <1>3, <2>1 DEF AreByIdent
<1> HIDE DEF all
<1>6. DOMAIN table \cap new = {}
  OBVIOUS
<1> HIDE DEF new
<1>7. /\ IsFiniteSet(DOMAIN all)
      /\ Cardinality(DOMAIN all) = Cardinality(DOMAIN table) + Cardinality(new)
  <2>1. IsFiniteSet(DOMAIN table \cup new)
    BY <1>4, FS_Union
  <2>2. Cardinality(DOMAIN table \cup new) = Cardinality(DOMAIN table) + Cardinality(new)
    BY <1>4, <1>6, DisjointSizes
  <2> QED BY <1>3, <2>1, <2>2
<1> QED
  BY <1>1, <1>2, <1>3, <1>5, <1>7 DEF new, AreByIdent

---------------------------------------------------------------------------
(* What the sources give is lists, whatever is in them.                    *)

LEMMA CifpIsRead ==
    ASSUME NEW n \in DOMAIN Feeds, FetchCifp(Feeds[n].cifp) # None
    PROVE  /\ FetchCifp(Feeds[n].cifp).date \in Cycles
           /\ IsList(FetchCifp(Feeds[n].cifp).file)
<1> DEFINE feed == Feeds[n].cifp
           date == LatestCifpZipName(feed.listing)
<1>1. feed.listing # None /\ date # None /\ Offered(feed.zips, date) # None
  BY DEF FetchCifp
<1>2. FetchCifp(feed) = [date |-> date, file |-> feed.zips[date]]
  BY <1>1 DEF FetchCifp
<1>3. feed.listing \subseteq Cycles
  BY <1>1, FeedsAreLists
<1>4. date \in Cycles
  <2>1. feed.listing # {} /\ date = Max(feed.listing)
    BY <1>1 DEF LatestCifpZipName
  <2>2. feed.listing \in SUBSET Int /\ IsFiniteSet(feed.listing)
    BY <1>3, CyclesAreDates, FS_Subset
  <2> HIDE DEF date
  <2> QED BY <1>3, <2>1, <2>2, MaxOfInts
<1>5. date \in DOMAIN feed.zips /\ feed.zips[date] # None
  BY <1>1 DEF Offered
<1>6. IsList(feed.zips[date])
  BY <1>5, FeedsAreLists DEF NoneOrList
<1> QED
  BY <1>2, <1>4, <1>6

(* The records of a file: airports by their own records, and what belongs  *)
(* to them.                                                                *)
Collected(lines) == RetainChildren(CollectRecords(lines, None))

LEMMA AirportsAreCollected ==
    ASSUME NEW lines, IsList(lines)
    PROVE  /\ IsList(Collected(lines).airports)
           /\ \A i \in Places(Collected(lines).airports) : "icao" \in DOMAIN Collected(lines).airports[i]
<1> DEFINE found == FilterMap(lines, ExtractAirport)
           wanted == Where(found, LAMBDA a : Wanted(None, a.icao))
<1>1. IsList(found) /\ \A i \in Places(found) : "icao" \in DOMAIN found[i]
  <2> DEFINE sets == [i \in Places(lines) |-> ExtractAirport(lines[i])]
  <2>1. \A i \in Places(lines) : IsFiniteSet(sets[i])
    BY FS_EmptySet, FS_Singleton DEF ExtractAirport
  <2>2. \A i \in Places(lines) : \A a \in sets[i] : "icao" \in DOMAIN a
    BY DEF ExtractAirport
  <2>3. found = FlattenSeq([i \in Places(lines) |-> SetToSeq(sets[i])])
    BY DEF FilterMap
  <2> HIDE DEF sets, found
  <2>4. IsList(found) /\ ToSet(found) = UNION {sets[i] : i \in Places(lines)} /\ \A k \in Places(found) : found[k] \in ToSet(found)
    BY <2>1, <2>3, Gathered
  <2> QED BY <2>2, <2>4
<1>2. IsList(wanted) /\ \A i \in Places(wanted) : "icao" \in DOMAIN wanted[i]
  <2> HIDE DEF found
  <2> DEFINE sets == [i \in Places(found) |-> IF Wanted(None, found[i].icao) THEN {found[i]} ELSE {}]
  <2>1. \A i \in Places(found) : IsFiniteSet(sets[i])
    BY FS_EmptySet, FS_Singleton
  <2>2. \A i \in Places(found) : \A a \in sets[i] : "icao" \in DOMAIN a
    BY <1>1
  <2>3. wanted = FlattenSeq([i \in Places(found) |-> SetToSeq(sets[i])])
    BY DEF Where, FilterMap
  <2> HIDE DEF sets, wanted
  <2>4. IsList(wanted) /\ ToSet(wanted) = UNION {sets[i] : i \in Places(found)} /\ \A k \in Places(wanted) : wanted[k] \in ToSet(wanted)
    BY <1>1, <2>1, <2>3, Gathered
  <2> QED BY <2>2, <2>4
<1> QED
  BY <1>2 DEF Collected, RetainChildren, CollectRecords

AirwayRows(airways) ==
    LET idents == SetToSeq(DOMAIN airways) IN
    [i \in Places(idents) |-> [ident |-> idents[i], legs |-> airways[idents[i]]]]

LEMMA BundleOfIs ==
    ASSUME NEW c, IsList(c.airports), \A i \in Places(c.airports) : "icao" \in DOMAIN c.airports[i], NEW p, NEW airways, NEW fixes, NEW extra,
           NEW faa_ids, BundleOf(c, p, airways, fixes, extra, faa_ids) # None
    PROVE  LET db == BundleOf(c, p, airways, fixes, extra, faa_ids) IN
           /\ DOMAIN db = DOMAIN EmptyBundle
           /\ AreByIdent(db.airport)
           /\ DOMAIN db.airport = {c.airports[i].icao : i \in Places(c.airports)}
           /\ db.cycle = {} /\ db.chart = <<>> /\ db.dtpp = <<>>
           /\ db.runway = ApplyNasrSurfaces(PairRunwayEnds(c.ends), extra.surfaces)
           /\ db.frequency = OfKnownAirports(extra.frequencies, c.airports)
           /\ db.procedure = p.procedures /\ db.leg = p.legs
           /\ db.navaid = fixes.navaids /\ db.waypoint = fixes.waypoints
           /\ db.airway = AirwayRows(airways)
<1> DEFINE rows == BackfillFaaIds(c.airports, faa_ids)
           table == Inserted(<<>>, rows, IcaoOfRow)
           runways == ApplyNasrSurfaces(PairRunwayEnds(c.ends), extra.surfaces)
           frequencies == OfKnownAirports(extra.frequencies, c.airports)
           rest == AirwayRows(airways)
           db == BundleOf(c, p, airways, fixes, extra, faa_ids)
<1>1. /\ IsList(rows) /\ Places(rows) = Places(c.airports)
      /\ \A i \in Places(rows) : rows[i].icao = c.airports[i].icao
  <2>1. rows = [i \in Places(c.airports) |->
                  IF c.airports[i].icao \in DOMAIN faa_ids
                  THEN [c.airports[i] EXCEPT !.faa_id = faa_ids[c.airports[i].icao]] ELSE c.airports[i]]
    BY DEF BackfillFaaIds, MapSeq
  <2>2. Places(c.airports) = 1..Len(c.airports) /\ Len(c.airports) \in Nat
    BY DEF Places, IsList
  <2> HIDE DEF rows
  <2>3. \A i \in Places(c.airports) : rows[i].icao = c.airports[i].icao
    BY <2>1
  <2>4. Len(rows) = Len(c.airports)
    BY <2>1, <2>2
  <2> QED BY <2>2, <2>3, <2>4 DEF Places, IsList
<1>2. /\ table # None
      /\ db = [EmptyBundle EXCEPT
                  !.airport = table, !.runway = runways, !.frequency = frequencies, !.procedure = p.procedures,
                  !.leg = p.legs, !.navaid = fixes.navaids, !.waypoint = fixes.waypoints, !.airway = rest]
  BY DEF BundleOf, AirwayRows, MapSeq
<1>3. table = AirportsOf(rows)
  <2>1. table = Together(<<>>, AirportsOf(rows))
    BY <1>2 DEF Inserted, Keyed, AirportsOf, IcaoOfRow
  <2> HIDE DEF rows, table
  <2> QED BY <2>1 DEF Together, AirportsOf
<1> HIDE DEF rows, table
<1>4. AreByIdent(table) /\ DOMAIN table = {c.airports[i].icao : i \in Places(c.airports)}
  <2>1. AreByIdent(table) /\ DOMAIN table = {rows[i].icao : i \in Places(rows)}
    BY <1>1, <1>3, AirportsOfRows
  <2> QED BY <1>1, <2>1
<1> HIDE DEF runways, frequencies, rest, db
<1>5. /\ DOMAIN db = DOMAIN EmptyBundle /\ db.airport = table
      /\ db.cycle = {} /\ db.chart = <<>> /\ db.dtpp = <<>>
      /\ db.runway = runways /\ db.frequency = frequencies /\ db.procedure = p.procedures
      /\ db.leg = p.legs /\ db.navaid = fixes.navaids /\ db.waypoint = fixes.waypoints /\ db.airway = rest
  BY <1>2 DEF EmptyBundle
<1> QED
  BY <1>4, <1>5 DEF db, runways, frequencies, rest

(* The parts a bundle is built from.                                       *)
Airways(lines) == BuildAirways(Collected(lines).airway_rows)

Procedures(lines) == BuildProcedures(Collected(lines).rows, RunwayOf)

Fixes(lines) == ResolveFixes(lines, FixesOf(Procedures(lines).legs) \cup FixesOf(Airways(lines)))

(* A bundle that may be built is one of its parts and of a choice of the   *)
(* local identifiers.                                                      *)
LEMMA BuiltOf ==
    ASSUME NEW lines, NEW nasr, NEW db \in BuildBundle(lines, nasr, None, RunwayOf), db # None
    PROVE  LET extra == LoadNasrEnrichment(nasr, None) IN
           /\ extra # None
           /\ \E faa_ids \in extra.faa_ids :
                db = BundleOf(Collected(lines), Procedures(lines), Airways(lines), Fixes(lines), extra, faa_ids)
  BY DEF BuildBundle, Collected, Procedures, Airways, Fixes

LEMMA BuildBundleIs ==
    ASSUME NEW lines, IsList(lines), NEW nasr, NEW db \in BuildBundle(lines, nasr, None, RunwayOf), db # None
    PROVE  /\ DOMAIN db = DOMAIN EmptyBundle
           /\ AreByIdent(db.airport)
           /\ db.cycle = {}
           /\ db.chart = <<>>
<1> DEFINE extra == LoadNasrEnrichment(nasr, None)
           c == Collected(lines)
           p == Procedures(lines)
           airways == Airways(lines)
           fixes == Fixes(lines)
<1>1. PICK faa_ids \in extra.faa_ids : db = BundleOf(c, p, airways, fixes, extra, faa_ids)
  BY BuiltOf
<1>2. IsList(c.airports) /\ \A i \in Places(c.airports) : "icao" \in DOMAIN c.airports[i]
  BY AirportsAreCollected
<1> HIDE DEF c, p, airways, fixes, extra
<1> QED
  BY <1>1, <1>2, BundleOfIs

(* The two instances have the library's operators under names of their own. *)
LEMMA AixmHasTheLibrary ==
    ASSUME NEW x
    PROVE  Aixm!FlattenSeq(x) = FlattenSeq(x) /\ Aixm!SetToSeq(x) = SetToSeq(x) /\ Aixm!Min(x) = Min(x)
<1>1. Aixm!FlattenSeq(x) = FlattenSeq(x)
  BY DEF Aixm!FlattenSeq, FlattenSeq
<1>2. Aixm!SetToSeq(x) = SetToSeq(x)
  <2>1. Aixm!Cardinality(x) = Cardinality(x)
    BY DEF Aixm!Cardinality, Cardinality
  <2> QED BY <2>1 DEF Aixm!SetToSeq, SetToSeq, Aixm!IsInjective, IsInjective
<1>3. Aixm!Min(x) = Min(x)
  BY DEF Aixm!Min, Min
<1> QED
  BY <1>1, <1>2, <1>3

LEMMA OpenAipHasTheLibrary ==
    ASSUME NEW x
    PROVE  OpenAip!FlattenSeq(x) = FlattenSeq(x) /\ OpenAip!SetToSeq(x) = SetToSeq(x)
<1>1. OpenAip!FlattenSeq(x) = FlattenSeq(x)
  BY DEF OpenAip!FlattenSeq, FlattenSeq
<1>2. OpenAip!SetToSeq(x) = SetToSeq(x)
  <2>1. OpenAip!Cardinality(x) = Cardinality(x)
    BY DEF OpenAip!Cardinality, Cardinality
  <2> QED BY <2>1 DEF OpenAip!SetToSeq, SetToSeq, OpenAip!IsInjective, IsInjective
<1> QED
  BY <1>1, <1>2

LEMMA DocumentsAreLists ==
    ASSUME NEW n \in DOMAIN Feeds, Aixm!ReadAixmBytes(Feeds[n].export) # None
    PROVE  IsList(Aixm!ReadAixmBytes(Feeds[n].export).features)
<1> DEFINE file == Feeds[n].export
           doc == Aixm!ReadAixmBytes(file)
<1>1. IsExport(file)
  BY FeedsAreLists
<1>2. CASE ~file.zip
  BY <1>1, <1>2 DEF IsExport, Aixm!ReadAixmBytes
<1>3. CASE file # None /\ file.zip
  <2> DEFINE named == {i \in Aixm!Places(file.entries) : file.entries[i].aixm}
  <2>1. named # {} /\ doc = file.entries[Min(named)].doc
    BY <1>3, AixmHasTheLibrary DEF Aixm!ReadAixmBytes
  <2>2. IsList(file.entries)
    BY <1>1, <1>3 DEF IsExport
  <2>3. named \in SUBSET Nat
    BY <2>2 DEF Aixm!Places, IsList
  <2>4. Min(named) \in Places(file.entries)
    <3>1. named \subseteq Places(file.entries)
      BY DEF Aixm!Places, Places
    <3> HIDE DEF named
    <3> QED BY <2>1, <2>3, <3>1, MinOfNaturals
  <2> HIDE DEF named
  <2> QED BY <1>1, <1>3, <2>1, <2>4 DEF IsExport
<1> QED
  BY <1>1, <1>2, <1>3 DEF IsExport, Aixm!ReadAixmBytes

LEMMA ExportIsRead ==
    ASSUME NEW n \in DOMAIN Feeds, NEW region, Aixm!LoadAixm(Feeds[n].export, region) # None
    PROVE  IsList(Aixm!LoadAixm(Feeds[n].export, region).airports)
<1> DEFINE file == Feeds[n].export
           doc == Aixm!ReadAixmBytes(file)
           ahps == Aixm!Where(doc.features, LAMBDA f : f.tag = "Ahp")
           Row(f) == Aixm!AirportFromFields(Aixm!ReadFeature(f.body, "AhpUid"))
           read == Aixm!FilterMap(ahps, LAMBDA f : Row(f))
           kept == Aixm!Where(read, LAMBDA a : Aixm!Plausible(a.lat, a.lon))
<1>1. doc # None
  BY DEF Aixm!LoadAixm
<1>2. IsList(doc.features)
  BY <1>1, DocumentsAreLists
<1>3. IsList(ahps)
  <2> DEFINE sets == [i \in 1..Len(doc.features) |-> IF doc.features[i].tag = "Ahp" THEN {doc.features[i]} ELSE {}]
  <2>1. \A i \in 1..Len(doc.features) : IsFiniteSet(sets[i])
    BY FS_EmptySet, FS_Singleton
  <2>2. ahps = FlattenSeq([i \in 1..Len(doc.features) |-> SetToSeq(sets[i])])
    BY AixmHasTheLibrary DEF Aixm!Where, Aixm!FilterMap, Aixm!Places
  <2> HIDE DEF sets, ahps, doc
  <2> QED BY <1>2, <2>1, <2>2, Filtered, ListsAreSeqs DEF IsList
<1> HIDE DEF ahps
<1>4. IsList(read)
  <2> DEFINE sets == [i \in 1..Len(ahps) |-> Row(ahps[i])]
  <2>1. \A i \in 1..Len(ahps) : IsFiniteSet(sets[i])
    BY FS_EmptySet, FS_Singleton DEF Aixm!AirportFromFields
  <2>2. read = FlattenSeq([i \in 1..Len(ahps) |-> SetToSeq(sets[i])])
    BY AixmHasTheLibrary DEF Aixm!FilterMap, Aixm!Places
  <2> HIDE DEF sets, read
  <2> QED BY <1>3, <2>1, <2>2, Filtered, ListsAreSeqs DEF IsList
<1>5. IsList(kept)
  <2> HIDE DEF read
  <2> DEFINE sets == [i \in 1..Len(read) |-> IF Aixm!Plausible(read[i].lat, read[i].lon) THEN {read[i]} ELSE {}]
  <2>1. \A i \in 1..Len(read) : IsFiniteSet(sets[i])
    BY FS_EmptySet, FS_Singleton
  <2>2. kept = FlattenSeq([i \in 1..Len(read) |-> SetToSeq(sets[i])])
    BY AixmHasTheLibrary DEF Aixm!Where, Aixm!FilterMap, Aixm!Places
  <2> HIDE DEF sets, kept
  <2> QED BY <1>4, <2>1, <2>2, Filtered, ListsAreSeqs DEF IsList
<1> HIDE DEF doc, file
<1>6. Aixm!LoadAixm(file, region).airports = kept
  <2> DEFINE data == Aixm!ParseSnapshot(doc, region)
  <2>1. data # None
    BY <1>1 DEF Aixm!LoadAixm, doc, file
  <2>2. "airports" \in DOMAIN data /\ data.airports = read
    BY <2>1 DEF Aixm!ParseSnapshot, ahps
  <2>3. Aixm!LoadAixm(file, region) = [data EXCEPT !.airports = Aixm!Where(@, LAMBDA a : Aixm!Plausible(a.lat, a.lon))]
    BY <1>1, <2>1 DEF Aixm!LoadAixm, doc
  <2> HIDE DEF data, read
  <2> QED BY <2>2, <2>3
<1> QED
  BY <1>5, <1>6 DEF file

LEMMA AirportOrNone ==
    ASSUME NEW a, NEW index
    PROVE  IsFiniteSet(OpenAip!ConvertAirport(a, index))
<1>1. CASE a.point = None
  BY <1>1, FS_EmptySet DEF OpenAip!ConvertAirport
<1>2. CASE a.point # None
  <2>1. PICK row : OpenAip!ConvertAirport(a, index) = {row}
    BY <1>2 DEF OpenAip!ConvertAirport
  <2> QED BY <2>1, FS_Singleton
<1> QED
  BY <1>1, <1>2

LEMMA CommunityIsRead ==
    ASSUME NEW n \in DOMAIN Feeds,
           OpenAip!LoadConfigured(Feeds[n].states, Feeds[n].listings) # None
    PROVE  IsList(OpenAip!LoadConfigured(Feeds[n].states, Feeds[n].listings).airports)
<1> DEFINE raw == Feeds[n].states
           listings == Feeds[n].listings
           states == OpenAip!ConfiguredStates(raw)
           Of(s) == OpenAip!LoadState(listings, s[1], s[2])
           lists == [i \in 1..Len(states) |-> IF Of(states[i]) = None THEN <<>> ELSE Of(states[i]).airports]
           S == UNION {ToSet(lists[i]) : i \in 1..Len(states)}
<1>1. states # None
  BY DEF OpenAip!LoadConfigured
<1>2. IsList(states)
  <2>1. NoneOrList(raw)
    BY FeedsAreLists
  <2>2. (states = raw /\ raw # None) \/ states = OpenAip!DefaultStates
    BY <1>1 DEF OpenAip!ConfiguredStates
  <2>3. IsList(OpenAip!DefaultStates)
    BY DEF OpenAip!DefaultStates, IsList
  <2> QED BY <2>1, <2>2, <2>3 DEF NoneOrList
<1>3. ASSUME NEW i \in 1..Len(states), Of(states[i]) # None
      PROVE  Of(states[i]).airports \in Seq(ToSet(lists[i]))
  <2> DEFINE country == states[i][1]
             region == states[i][2]
             l == listings[country]
             sets == [k \in 1..Len(l.airports) |-> OpenAip!ConvertAirport(l.airports[k], k)]
             own == FlattenSeq([k \in 1..Len(l.airports) |-> SetToSeq(sets[k])])
  <2>1. country \in DOMAIN listings /\ l.airports # None /\ Of(states[i]) = OpenAip!ConvertCountry(l, region)
    BY <1>3 DEF OpenAip!LoadState
  <2>2. IsList(l.airports)
    BY <2>1, FeedsAreLists DEF NoneOrList
  <2>3. Of(states[i]).airports = own
    <3> DEFINE theirs == [k \in 1..Len(l.airports) |-> OpenAip!SetToSeq(OpenAip!ConvertAirport(l.airports[k], k))]
    <3>1. Of(states[i]).airports = OpenAip!FlattenSeq(theirs)
      <4>1. OpenAip!ConvertCountry(l, region).airports = OpenAip!FlattenSeq(theirs)
        <5> HIDE DEF l, region
        <5> QED BY DEF OpenAip!ConvertCountry, OpenAip!Converted
      <4> HIDE DEF theirs, Of, l, region
      <4> QED BY <2>1, <4>1
    <3>2. theirs = [k \in 1..Len(l.airports) |-> SetToSeq(sets[k])]
      BY OpenAipHasTheLibrary
    <3> HIDE DEF theirs, sets, l
    <3> QED BY <3>1, <3>2, OpenAipHasTheLibrary
  <2>4. \A k \in 1..Len(l.airports) : IsFiniteSet(sets[k])
    BY AirportOrNone
  <2>5. own \in Seq(UNION {sets[k] : k \in 1..Len(l.airports)})
    <3> HIDE DEF sets, l
    <3> QED BY <2>2, <2>4, Filtered DEF IsList
  <2>6. lists[i] = own
    BY <1>3, <2>3
  <2> HIDE DEF own, lists
  <2>7. own \in Seq(ToSet(own))
    BY <2>5, OwnRange
  <2> QED BY <2>3, <2>6, <2>7
<1>4. \A i \in 1..Len(states) : lists[i] \in Seq(S)
  <2> SUFFICES ASSUME NEW i \in 1..Len(states) PROVE lists[i] \in Seq(S)
    OBVIOUS
  <2>1. lists[i] \in Seq(ToSet(lists[i]))
    <3>1. CASE Of(states[i]) = None
      <4>1. lists[i] = <<>>
        BY <3>1
      <4> HIDE DEF lists
      <4> QED BY <4>1
    <3>2. CASE Of(states[i]) # None
      <4>1. lists[i] = Of(states[i]).airports
        BY <3>2
      <4> QED BY <1>3, <3>2, <4>1
    <3> QED BY <3>1, <3>2
  <2>2. ToSet(lists[i]) \subseteq S
    <3> HIDE DEF lists
    <3> QED OBVIOUS
  <2> HIDE DEF lists, S
  <2> QED BY <2>1, <2>2
<1>5. IsList(FlattenSeq(lists))
  <2>1. lists \in [1..Len(states) -> Seq(S)]
    BY <1>4
  <2> HIDE DEF lists, S
  <2> QED BY <1>2, <2>1, FlattenGathers, ListsAreSeqs DEF IsList
<1>6. OpenAip!LoadConfigured(raw, listings).airports = FlattenSeq(lists)
  <2> DEFINE data == [i \in 1..Len(states) |-> Of(states[i])]
             All(t) == FlattenSeq([i \in 1..Len(data) |-> IF data[i] = None THEN <<>> ELSE data[i][t]])
  <2>1. OpenAip!LoadConfigured(raw, listings).airports = All("airports")
    BY OpenAipHasTheLibrary DEF OpenAip!LoadConfigured, OpenAip!MapSeq, OpenAip!Places
  <2>2. Len(data) = Len(states)
    BY <1>2 DEF IsList
  <2>3. [i \in 1..Len(data) |-> IF data[i] = None THEN <<>> ELSE data[i]["airports"]] = lists
    BY <2>2
  <2> QED BY <2>1, <2>3
<1> QED
  BY <1>5, <1>6

LEMMA PartsAreLists ==
    ASSUME NEW n \in DOMAIN Feeds, NEW item, NEW dates, Parts(item, Feeds[n], dates) # None
    PROVE  IsList(Parts(item, Feeds[n], dates))
<1> DEFINE zips(series) == Feeds[n].zips[series]
           Is(zip) == zip = None \/ IsList(zip)
<1>1. ASSUME NEW name, NEW among, NEW series \in {"sectional", "enroute", "tac", "heli"}
      PROVE  Is(ZipOf(name, among, zips(series)))
  <2>1. ASSUME NEW z, Offered(zips(series), z) # Down PROVE Is(Offered(zips(series), z))
    <3>1. CASE z \in DOMAIN zips(series)
      <4>1. zips(series)[z] = Down \/ NoneOrList(zips(series)[z])
        BY <3>1, FeedsAreLists
      <4> QED BY <2>1, <3>1, <4>1 DEF Offered, NoneOrList
    <3>2. CASE z \notin DOMAIN zips(series)
      BY <3>2 DEF Offered
    <3> QED BY <3>1, <3>2
  <2> HIDE DEF zips
  <2> QED BY <2>1 DEF ZipOf
<1>2. ASSUME NEW zip, IsList(zip), NEW kind
      PROVE  /\ IsList([i \in Places(zip) |-> [label |-> zip[i][1], kind |-> kind]])
             /\ IsList(FilterMap(zip, ClassifyChartTif))
  <2>1. IsList([i \in Places(zip) |-> [label |-> zip[i][1], kind |-> kind]])
    BY <1>2 DEF IsList, Places
  <2> DEFINE sets == [i \in 1..Len(zip) |-> ClassifyChartTif(zip[i])]
  <2>2. \A i \in 1..Len(zip) : IsFiniteSet(sets[i])
    BY FS_EmptySet, FS_Singleton DEF ClassifyChartTif
  <2>3. FilterMap(zip, ClassifyChartTif) = FlattenSeq([i \in 1..Len(zip) |-> SetToSeq(sets[i])])
    BY DEF FilterMap, Places
  <2>4. IsList(FilterMap(zip, ClassifyChartTif))
    <3> HIDE DEF sets
    <3> QED BY <1>2, <2>2, <2>3, Filtered, ListsAreSeqs DEF IsList
  <2> QED BY <2>1, <2>4
<1>3. ASSUME NEW name, NEW among, FetchSectionalChart(name, among, zips("sectional")) # None
      PROVE  IsList(FetchSectionalChart(name, among, zips("sectional")))
  <2> DEFINE zip == ZipOf(name, among, zips("sectional"))
  <2>1. Is(zip)
    BY <1>1
  <2>2. zip # None /\ FetchSectionalChart(name, among, zips("sectional"))
                       = [i \in Places(zip) |-> [label |-> zip[i][1], kind |-> "Sectional"]]
    BY <1>3 DEF FetchSectionalChart, MapSeq
  <2> HIDE DEF zip
  <2> QED BY <1>2, <2>1, <2>2
<1>4. ASSUME NEW name, NEW among, NEW kind, FetchIfrEnroutePanel(name, among, zips("enroute"), kind) # None
      PROVE  IsList(FetchIfrEnroutePanel(name, among, zips("enroute"), kind))
  <2> DEFINE zip == ZipOf(name, among, zips("enroute"))
  <2>1. Is(zip)
    BY <1>1
  <2>2. zip # None /\ FetchIfrEnroutePanel(name, among, zips("enroute"), kind)
                       = [i \in Places(zip) |-> [label |-> zip[i][1], kind |-> kind]]
    <3> HIDE DEF zips
    <3> QED BY <1>4 DEF FetchIfrEnroutePanel, MapSeq
  <2> HIDE DEF zip
  <2>3. IsList([i \in Places(zip) |-> [label |-> zip[i][1], kind |-> kind]])
    BY <1>2, <2>1, <2>2
  <2> HIDE DEF zips
  <2> QED BY <2>2, <2>3
<1>5. ASSUME NEW name, NEW among, NEW series \in {"tac", "heli"},
             FetchTerminalChartZip(name, among, zips(series)) # None
      PROVE  IsList(FetchTerminalChartZip(name, among, zips(series)))
  <2> DEFINE zip == ZipOf(name, among, zips(series))
  <2>1. Is(zip)
    BY <1>1
  <2>2. zip # None /\ FetchTerminalChartZip(name, among, zips(series)) = FilterMap(zip, ClassifyChartTif)
    BY <1>5 DEF FetchTerminalChartZip
  <2> HIDE DEF zip
  <2> QED BY <1>2, <2>1, <2>2
<1> QED
  BY <1>3, <1>4, <1>5 DEF Parts

---------------------------------------------------------------------------
(* The catalogue of charts and the archives made, in step.                 *)

Catalogued(chart, files, run) ==
    /\ IsSeq(files)
    /\ \A f \in ToSet(files) : f[2] = <<f[1], run>>
    /\ \A id \in DOMAIN chart : chart[id].sha256 = <<chart[id].file, run>>
    /\ {chart[id].file : id \in DOMAIN chart} = {f[1] : f \in ToSet(files)}

LEMMA Appended ==
    ASSUME NEW s, IsSeq(s), NEW t, IsSeq(t)
    PROVE  IsSeq(s \o t) /\ ToSet(s \o t) = ToSet(s) \cup ToSet(t)
<1> DEFINE S == ToSet(s) \cup ToSet(t)
           both == s \o t
<1>1. s \in Seq(S) /\ t \in Seq(S)
  <2>1. s \in Seq(ToSet(s)) /\ t \in Seq(ToSet(t)) /\ ToSet(s) \subseteq S /\ ToSet(t) \subseteq S
    BY DEF IsSeq
  <2> HIDE DEF S
  <2> QED BY <2>1
<1> HIDE DEF S
<1>2. both \in Seq(S) /\ Len(both) = Len(s) + Len(t)
  BY <1>1
<1>3. \A i \in 1..Len(s) : both[i] = s[i] /\ i \in DOMAIN both
  BY <1>1
<1>4. \A i \in 1..Len(t) : both[Len(s) + i] = t[i] /\ Len(s) + i \in DOMAIN both
  BY <1>1
<1>5. DOMAIN s = 1..Len(s) /\ DOMAIN t = 1..Len(t) /\ Len(s) \in Nat /\ Len(t) \in Nat
  BY <1>1
<1>6. S \subseteq ToSet(both)
  BY <1>3, <1>4, <1>5 DEF S, ToSet
<1>7. ToSet(both) \subseteq S
  BY <1>2 DEF ToSet
<1> QED
  BY <1>2, <1>6, <1>7, OwnRange DEF S, IsSeq

LEMMA MappedList ==
    ASSUME NEW n \in Nat, NEW f, f = [i \in 1..n |-> f[i]]
    PROVE  IsSeq(f) /\ ToSet(f) = {f[i] : i \in 1..n} /\ IsList(f) /\ Places(f) = 1..n
<1>1. f \in [1..n -> {f[i] : i \in 1..n}]
  OBVIOUS
<1>2. f \in Seq({f[i] : i \in 1..n}) /\ Len(f) = n /\ DOMAIN f = 1..n
  BY <1>1
<1> QED
  BY <1>2, OwnRange DEF ToSet, IsSeq, Places, IsList

ById(rows) == [k \in {rows[i].id : i \in Places(rows)} |-> rows[Min({i \in Places(rows) : rows[i].id = k})]]

LEMMA ChartsById ==
    ASSUME NEW rows, IsList(rows)
    PROVE  /\ DOMAIN ById(rows) = {rows[i].id : i \in Places(rows)}
           /\ \A k \in DOMAIN ById(rows) : \E i \in Places(rows) : rows[i].id = k /\ ById(rows)[k] = rows[i]
<1> SUFFICES ASSUME NEW k \in {rows[i].id : i \in Places(rows)}
             PROVE  \E i \in Places(rows) : rows[i].id = k /\ ById(rows)[k] = rows[i]
  BY DEF ById
<1> DEFINE idx == {i \in Places(rows) : rows[i].id = k}
<1>1. ById(rows)[k] = rows[Min(idx)]
  BY DEF ById
<1>2. idx \in SUBSET Nat /\ idx # {}
  BY DEF Places, IsList
<1> HIDE DEF idx
<1>3. Min(idx) \in idx
  BY <1>2, MinOfNaturals
<1> QED
  BY <1>1, <1>3 DEF idx

LEMMA DigestsById ==
    ASSUME NEW rows, IsList(rows), NEW run, \A i \in Places(rows) : rows[i].sha256 = <<rows[i].file, run>>
    PROVE  \A k \in DOMAIN ById(rows) : ById(rows)[k].sha256 = <<ById(rows)[k].file, run>>
<1> DEFINE new == ById(rows)
<1>1. \A k \in DOMAIN new : \E i \in Places(rows) : new[k] = rows[i]
  BY ChartsById
<1> HIDE DEF new
<1>2. \A k \in DOMAIN new : new[k].sha256 = <<new[k].file, run>>
  BY <1>1
<1> QED
  BY <1>2 DEF new

(* One identifier, one file: no two maps of a zip lose a row to each other. *)
LEMMA FilesById ==
    ASSUME NEW rows, IsList(rows),
           \A i, j \in Places(rows) : rows[i].id = rows[j].id => rows[i].file = rows[j].file
    PROVE  {ById(rows)[k].file : k \in DOMAIN ById(rows)} = {rows[i].file : i \in Places(rows)}
<1> DEFINE new == ById(rows)
<1>1. /\ DOMAIN new = {rows[i].id : i \in Places(rows)}
      /\ \A k \in DOMAIN new : \E i \in Places(rows) : rows[i].id = k /\ new[k] = rows[i]
  BY ChartsById
<1> HIDE DEF new
<1>2. \A k \in DOMAIN new : \E i \in Places(rows) : new[k].file = rows[i].file
  BY <1>1
<1>3. ASSUME NEW i \in Places(rows) PROVE \E k \in DOMAIN new : new[k].file = rows[i].file
  <2>1. PICK j \in Places(rows) : rows[j].id = rows[i].id /\ new[rows[i].id] = rows[j]
    BY <1>1
  <2>2. rows[j].file = rows[i].file
    BY <2>1
  <2> QED BY <1>1, <2>1, <2>2
<1>4. {new[k].file : k \in DOMAIN new} = {rows[i].file : i \in Places(rows)}
  BY <1>2, <1>3
<1> QED
  BY <1>4 DEF new

LEMMA ChartsAreAdded ==
    ASSUME NEW db, "chart" \in DOMAIN db, NEW files, NEW run, Catalogued(db.chart, files, run),
           NEW rows, IsList(rows),
           \A i \in Places(rows) : rows[i].sha256 = <<rows[i].file, run>>,
           \A i, j \in Places(rows) : rows[i].id = rows[j].id => rows[i].file = rows[j].file,
           NEW made, IsSeq(made), ToSet(made) = {<<rows[i].file, <<rows[i].file, run>>>> : i \in Places(rows)},
           AddCharts(db, rows) # None
    PROVE  \E chart : /\ AddCharts(db, rows) = [db EXCEPT !.chart = chart]
                      /\ Catalogued(chart, files \o made, run)
<1> DEFINE new == ById(rows)
           old == db.chart
           chart == Together(old, new)
<1>1. AddCharts(db, rows) = [db EXCEPT !.chart = chart] /\ DOMAIN new \cap DOMAIN old = {}
  BY DEF AddCharts, Inserted, Keyed, IdOfRow, ById
<1>2. /\ \A k \in DOMAIN new : new[k].sha256 = <<new[k].file, run>>
      /\ {new[k].file : k \in DOMAIN new} = {rows[i].file : i \in Places(rows)}
  <2> HIDE DEF chart, old
  <2>1. \A k \in DOMAIN ById(rows) : ById(rows)[k].sha256 = <<ById(rows)[k].file, run>>
    <3>1. \A i \in Places(rows) : rows[i].sha256 = <<rows[i].file, run>>
      OBVIOUS
    <3> HIDE DEF new, old
    <3> QED BY <3>1, DigestsById
  <2>2. {ById(rows)[k].file : k \in DOMAIN ById(rows)} = {rows[i].file : i \in Places(rows)}
    BY FilesById, Zenon
  <2> QED BY <2>1, <2>2
<1> HIDE DEF new, old
<1>3. /\ \A k \in DOMAIN chart :
           (k \in DOMAIN old /\ chart[k] = old[k]) \/ (k \in DOMAIN new /\ chart[k] = new[k])
      /\ \A k \in DOMAIN old : k \in DOMAIN chart /\ chart[k] = old[k]
      /\ \A k \in DOMAIN new : k \in DOMAIN chart /\ chart[k] = new[k]
  BY <1>1 DEF Together
<1> HIDE DEF chart
<1>4. Catalogued(old, files, run)
  BY DEF old
<1>5. IsSeq(files \o made) /\ ToSet(files \o made) = ToSet(files) \cup ToSet(made)
  BY <1>4, Appended DEF Catalogued
<1>6. \A f \in ToSet(files \o made) : f[2] = <<f[1], run>>
  <2>1. \A f \in ToSet(made) : f[2] = <<f[1], run>>
    OBVIOUS
  <2> QED BY <1>4, <1>5, <2>1 DEF Catalogued
<1>7. \A k \in DOMAIN chart : chart[k].sha256 = <<chart[k].file, run>>
  BY <1>2, <1>3, <1>4 DEF Catalogued
<1>8. {chart[k].file : k \in DOMAIN chart} = {f[1] : f \in ToSet(files \o made)}
  <2>1. {chart[k].file : k \in DOMAIN chart} = {old[k].file : k \in DOMAIN old} \cup {new[k].file : k \in DOMAIN new}
    BY <1>3
  <2>2. {f[1] : f \in ToSet(made)} = {rows[i].file : i \in Places(rows)}
    <3>1. \A f \in ToSet(made) : \E i \in Places(rows) : f[1] = rows[i].file
      OBVIOUS
    <3>2. \A i \in Places(rows) : \E f \in ToSet(made) : f[1] = rows[i].file
      <4> SUFFICES ASSUME NEW i \in Places(rows) PROVE \E f \in ToSet(made) : f[1] = rows[i].file
        OBVIOUS
      <4> DEFINE g == <<rows[i].file, <<rows[i].file, run>>>>
      <4>1. g \in ToSet(made) /\ g[1] = rows[i].file
        OBVIOUS
      <4> HIDE DEF g
      <4> QED BY <4>1
    <3> QED BY <3>1, <3>2
  <2>3. {f[1] : f \in ToSet(files \o made)} = {f[1] : f \in ToSet(files)} \cup {f[1] : f \in ToSet(made)}
    BY <1>5
  <2> QED BY <1>2, <1>4, <2>1, <2>2, <2>3 DEF Catalogued
<1>9. Catalogued(chart, files \o made, run)
  BY <1>5, <1>6, <1>7, <1>8 DEF Catalogued
<1> QED
  BY <1>1, <1>9

---------------------------------------------------------------------------
(* Routes between airports of the bundle.                                  *)

LEMMA RowsOfAirports ==
    ASSUME NEW db, AreByIdent(db.airport)
    PROVE  /\ IsList(AirportRows(db))
           /\ \A i \in Places(AirportRows(db)) : AirportRows(db)[i].icao \in DOMAIN db.airport
<1> DEFINE table == db.airport
           S == {table[k] : k \in DOMAIN table}
           rows == SetToSeq(S)
<1>1. IsFiniteSet(S)
  <2>1. IsFiniteSet(DOMAIN table)
    BY DEF AreByIdent
  <2> DEFINE f == [k \in DOMAIN table |-> table[k]]
  <2>2. f \in Surjection(DOMAIN table, S)
    BY DEF Surjection
  <2> HIDE DEF f, S, table
  <2> QED BY <2>1, <2>2, FS_Surjection
<1>2. \A x \in S : x.icao \in DOMAIN table
  BY DEF AreByIdent
<1>3. AirportRows(db) = rows
  BY DEF AirportRows
<1> HIDE DEF S
<1>4. rows \in [1..Cardinality(S) -> S] /\ Cardinality(S) \in Nat
  BY <1>1, SetToSeqIs
<1>5. rows \in Seq(S)
  BY <1>4
<1>6. IsList(rows) /\ \A i \in Places(rows) : rows[i] \in S
  BY <1>5 DEF IsList, Places
<1> HIDE DEF rows
<1> QED
  BY <1>2, <1>3, <1>6

LEMMA ResolvedAirports ==
    ASSUME NEW rows, IsList(rows), NEW A, \A i \in Places(rows) : rows[i].icao \in A,
           NEW raw, ResolveIcao(raw, LoadAirportLookup(rows)) # None
    PROVE  ResolveIcao(raw, LoadAirportLookup(rows)) \in A
<1> DEFINE ids == {rows[i].faa_id : i \in Places(rows)} \ {None}
           idx == {i \in Places(rows) : rows[i].faa_id = raw}
<1>1. CASE raw \in {rows[i].icao : i \in Places(rows)}
  BY <1>1 DEF ResolveIcao, LoadAirportLookup
<1>2. CASE raw \notin {rows[i].icao : i \in Places(rows)}
  <2>1. raw \in ids /\ ResolveIcao(raw, LoadAirportLookup(rows)) = rows[Max(idx)].icao
    BY <1>2 DEF ResolveIcao, LoadAirportLookup
  <2>2. idx \subseteq Places(rows) /\ idx # {}
    BY <2>1
  <2>3. Places(rows) \subseteq Int /\ IsFiniteSet(Places(rows))
    BY FS_Interval DEF Places, IsList
  <2> HIDE DEF idx
  <2>4. Max(idx) \in idx
    BY <2>2, <2>3, FS_Subset, MaxOfInts
  <2> QED BY <2>1, <2>2, <2>4
<1> QED
  BY <1>1, <1>2

LEMMA RoutesAreAnswered ==
    ASSUME NEW n \in DOMAIN Feeds, NEW db, AreByIdent(db.airport)
    PROVE  RoutesHaveAirports(db, FetchAndParse(Feeds[n].pfr, Feeds[n].cdr, AirportRows(db)))
<1> DEFINE A == DOMAIN db.airport
           rows == AirportRows(db)
           lookup == LoadAirportLookup(rows)
           pfr == Feeds[n].pfr
           cdr == Feeds[n].cdr
           Between(r) == r.orig \in A /\ r.dest \in A
           Only(routes) == \E S : routes \in Seq(S) /\ \A r \in S : Between(r)
           Resolved(raw) == ResolveIcao(raw, lookup)
<1>1. IsList(rows) /\ \A i \in Places(rows) : rows[i].icao \in A
  BY RowsOfAirports
<1>2. /\ \A raw : Resolved(raw) # None => Resolved(raw) \in A
      /\ lookup.icaos \subseteq A
  <2>1. lookup.icaos \subseteq A
    BY <1>1 DEF LoadAirportLookup
  <2> HIDE DEF rows, A
  <2> QED BY <1>1, <2>1, ResolvedAirports
<1>3. pfr # None => Only(ParsePfr(pfr, lookup))
  <2> SUFFICES ASSUME pfr # None PROVE Only(ParsePfr(pfr, lookup))
    OBVIOUS
  <2> DEFINE Row(f) == IF f.cells # PfrCells \/ f.type = "NAR" \/ None \in {Resolved(f.orig), Resolved(f.dest)} THEN {}
                       ELSE {[source |-> "PFR", orig |-> Resolved(f.orig), dest |-> Resolved(f.dest),
                              route |-> StripEndpoints(f.route, f.orig, f.dest)]}
             sets == [i \in 1..Len(pfr) |-> Row(pfr[i])]
             S == UNION {sets[i] : i \in 1..Len(pfr)}
  <2>1. IsList(pfr)
    BY FeedsAreLists DEF NoneOrList
  <2>2. \A i \in 1..Len(pfr) : IsFiniteSet(sets[i]) /\ \A r \in sets[i] : Between(r)
    <3> SUFFICES ASSUME NEW i \in 1..Len(pfr)
                 PROVE  IsFiniteSet(sets[i]) /\ \A r \in sets[i] : Between(r)
      OBVIOUS
    <3>1. IsFiniteSet(sets[i])
      BY FS_EmptySet, FS_Singleton
    <3>2. \A r \in sets[i] : Between(r)
      <4> HIDE DEF lookup, A, pfr
      <4> QED BY <1>2
    <3> HIDE DEF sets
    <3> QED BY <3>1, <3>2
  <2>3. ParsePfr(pfr, lookup) = FlattenSeq([i \in 1..Len(pfr) |-> SetToSeq(sets[i])])
    <3> HIDE DEF lookup, pfr
    <3> QED BY DEF ParsePfr, FilterMap, Places
  <2> HIDE DEF sets
  <2>4. ParsePfr(pfr, lookup) \in Seq(S)
    <3> HIDE DEF pfr
    <3> QED BY <2>1, <2>2, <2>3, Filtered DEF IsList
  <2>5. \A r \in S : Between(r)
    BY <2>2
  <2> HIDE DEF S, lookup, Between
  <2> QED BY <2>4, <2>5
<1>4. cdr # None => Only(ParseCdr(cdr, lookup))
  <2> SUFFICES ASSUME cdr # None PROVE Only(ParseCdr(cdr, lookup))
    OBVIOUS
  <2> DEFINE Row(f) == IF f.cells # CdrCells \/ ~{f.orig, f.dest} \subseteq lookup.icaos THEN {}
                       ELSE {[source |-> "CDR", orig |-> f.orig, dest |-> f.dest,
                              route |-> StripEndpoints(f.route, f.orig, f.dest)]}
             sets == [i \in 1..Len(cdr) |-> Row(cdr[i])]
             S == UNION {sets[i] : i \in 1..Len(cdr)}
  <2>1. IsList(cdr)
    BY FeedsAreLists DEF NoneOrList
  <2>2. \A i \in 1..Len(cdr) : IsFiniteSet(sets[i]) /\ \A r \in sets[i] : Between(r)
    <3> SUFFICES ASSUME NEW i \in 1..Len(cdr)
                 PROVE  IsFiniteSet(sets[i]) /\ \A r \in sets[i] : Between(r)
      OBVIOUS
    <3>1. IsFiniteSet(sets[i])
      BY FS_EmptySet, FS_Singleton
    <3>2. \A r \in sets[i] : Between(r)
      <4> HIDE DEF lookup, A, cdr
      <4> QED BY <1>2
    <3> HIDE DEF sets
    <3> QED BY <3>1, <3>2
  <2>3. ParseCdr(cdr, lookup) = FlattenSeq([i \in 1..Len(cdr) |-> SetToSeq(sets[i])])
    <3> HIDE DEF lookup, cdr
    <3> QED BY DEF ParseCdr, FilterMap, Places
  <2> HIDE DEF sets
  <2>4. ParseCdr(cdr, lookup) \in Seq(S)
    <3> HIDE DEF cdr
    <3> QED BY <2>1, <2>2, <2>3, Filtered DEF IsList
  <2>5. \A r \in S : Between(r)
    BY <2>2
  <2> HIDE DEF S, lookup, Between
  <2> QED BY <2>4, <2>5
<1> DEFINE first == IF pfr = None THEN <<>> ELSE ParsePfr(pfr, lookup)
           second == IF cdr = None THEN <<>> ELSE ParseCdr(cdr, lookup)
<1>5. Only(first) /\ Only(second)
  <2>1. Only(<<>>)
    <3> HIDE DEF Between
    <3> DEFINE S == {}
    <3>1. <<>> \in Seq(S) /\ \A r \in S : Between(r)
      OBVIOUS
    <3> HIDE DEF S
    <3> QED BY <3>1
  <2> HIDE DEF Only, pfr, cdr, lookup
  <2> QED BY <1>3, <1>4, <2>1
<1>6. FetchAndParse(pfr, cdr, rows) = first \o second
  BY DEF FetchAndParse
<1> HIDE DEF first, second, Between
<1>7. \A i \in Places(first \o second) : Between((first \o second)[i])
  <2>1. PICK S : first \in Seq(S) /\ \A r \in S : Between(r)
    BY <1>5
  <2>2. PICK T : second \in Seq(T) /\ \A r \in T : Between(r)
    BY <1>5
  <2>3. first \o second \in Seq(S \cup T)
    <3>1. first \in Seq(S \cup T) /\ second \in Seq(S \cup T)
      BY <2>1, <2>2
    <3> QED BY <3>1
  <2>4. \A i \in Places(first \o second) : (first \o second)[i] \in S \cup T
    BY <2>3 DEF Places
  <2> QED BY <2>1, <2>2, <2>4
<1> QED
  BY <1>6, <1>7 DEF RoutesHaveAirports, References, Between

---------------------------------------------------------------------------
(* The first row of each ident: one for every ident there is.              *)

OnePerIdent(rows) == \A i, j \in Places(rows) : rows[i].ident = rows[j].ident => i = j

LEMMA IdentsAreCounted ==
    ASSUME NEW rows, IsList(rows), OnePerIdent(rows)
    PROVE  Cardinality(Idents(rows)) = Len(rows)
<1> DEFINE f == [i \in Places(rows) |-> rows[i].ident]
           T == Idents(rows)
<1>1. Places(rows) = 1..Len(rows) /\ Len(rows) \in Nat
  BY DEF Places, IsList
<1>2. f \in Bijection(Places(rows), T)
  BY DEF Bijection, Injection, Surjection, IsInjective, OnePerIdent, Idents
<1> HIDE DEF f, T
<1>3. IsFiniteSet(Places(rows)) /\ Cardinality(Places(rows)) = Len(rows)
  <2> DEFINE n == Len(rows)
  <2> HIDE DEF n
  <2>1. n \in Nat => IsFiniteSet(1..n) /\ Cardinality(1..n) = n
    BY FS_Interval
  <2> QED BY <1>1, <2>1 DEF n
<1>4. Cardinality(T) = Cardinality(Places(rows))
  BY <1>2, <1>3, FS_Bijection DEF ExistsBijection
<1> QED
  BY <1>3, <1>4 DEF T

LEMMA FirstsAreOne ==
    ASSUME NEW rows, IsList(rows)
    PROVE  LET firsts == FirstsByIdent(rows) IN
           /\ IsSeq(firsts) /\ IsList(firsts)
           /\ Idents(firsts) = Idents(rows)
           /\ Len(firsts) = Cardinality(Idents(rows))
<1> DEFINE First(i) == IF \A j \in 1..(i - 1) : rows[j].ident # rows[i].ident THEN {rows[i]} ELSE {}
           ids == [i \in Places(rows) |-> i]
           sets == [i \in Places(rows) |-> First(i)]
           w == FirstsByIdent(rows)
<1>1. IsList(ids) /\ Places(ids) = Places(rows)
  BY DEF Places, IsList
<1>2. w = FlattenSeq([i \in Places(ids) |-> SetToSeq(sets[i])])
  BY <1>1 DEF FirstsByIdent, FilterMap
<1>3. \A i \in Places(rows) : /\ sets[i] = {rows[i]} \/ sets[i] = {}
                              /\ sets[i] = {rows[i]} <=> \A j \in 1..(i - 1) : rows[j].ident # rows[i].ident
  OBVIOUS
<1>4. Places(rows) \subseteq Nat /\ \A i \in Places(rows) : \A j \in Nat : 0 < j /\ j < i => j \in Places(rows) /\ j \in 1..(i - 1)
  BY DEF Places, IsList
<1> HIDE DEF ids, sets, w, First
<1>5. \A i \in Places(ids) : IsFiniteSet(sets[i])
  <2> SUFFICES ASSUME NEW i \in Places(rows) PROVE IsFiniteSet(sets[i])
    BY <1>1
  <2>1. CASE sets[i] = {}
    BY <2>1, FS_EmptySet
  <2>2. CASE sets[i] = {rows[i]}
    BY <2>2, FS_Singleton
  <2> QED BY <1>3, <2>1, <2>2
<1>6. ASSUME NEW i \in Places(rows), NEW j \in Places(rows), i < j, sets[i] # {}, sets[j] # {}
      PROVE  rows[i].ident # rows[j].ident
  <2>1. i \in 1..(j - 1)
    BY <1>4, <1>6 DEF Places
  <2> QED BY <1>3, <1>6, <2>1
<1>7. \A i, j \in Places(ids) : i < j => sets[i] \cap sets[j] = {}
  BY <1>1, <1>3, <1>6
<1>8. /\ IsSeq(w) /\ IsList(w) /\ ToSet(w) = UNION {sets[i] : i \in Places(rows)}
      /\ \A k \in Places(w) : w[k] \in ToSet(w)
  BY <1>1, <1>2, <1>5, Gathered
<1>9. Distinct(w)
  BY <1>1, <1>2, <1>5, <1>7, GatheredOnce
<1>10. OnePerIdent(w)
  <2> SUFFICES ASSUME NEW k \in Places(w), NEW l \in Places(w), w[k].ident = w[l].ident PROVE k = l
    BY DEF OnePerIdent
  <2>1. PICK i \in Places(rows) : w[k] \in sets[i]
    BY <1>8
  <2>2. PICK j \in Places(rows) : w[l] \in sets[j]
    BY <1>8
  <2>3. w[k] = rows[i] /\ w[l] = rows[j]
    BY <1>3, <2>1, <2>2
  <2>4. i = j
    BY <1>4, <1>6, <2>1, <2>2, <2>3
  <2> QED BY <1>9, <2>3, <2>4 DEF Distinct, Places
<1>11. Idents(w) = Idents(rows)
  <2>1. Idents(w) \subseteq Idents(rows)
    <3> SUFFICES ASSUME NEW k \in Places(w) PROVE w[k].ident \in Idents(rows)
      BY DEF Idents
    <3>1. PICK i \in Places(rows) : w[k] \in sets[i]
      BY <1>8
    <3>2. w[k] = rows[i]
      BY <1>3, <3>1
    <3> QED BY <3>2 DEF Idents
  <2>2. ASSUME NEW i \in Places(rows) PROVE rows[i].ident \in Idents(w)
    <3> DEFINE same == {j \in Places(rows) : rows[j].ident = rows[i].ident}
    <3>1. same \in SUBSET Nat /\ same # {}
      BY <1>4
    <3> HIDE DEF same
    <3>2. PICK j \in same : \A l \in same : j <= l
      BY <3>1, LeastNatural
    <3>3. j \in Places(rows) /\ rows[j].ident = rows[i].ident
      BY DEF same
    <3>4. \A l \in 1..(j - 1) : rows[l].ident # rows[j].ident
      <4> SUFFICES ASSUME NEW l \in 1..(j - 1), rows[l].ident = rows[j].ident PROVE FALSE
        OBVIOUS
      <4>1. j \in Nat /\ l \in Nat /\ 0 < l /\ l < j
        BY <1>4, <3>3
      <4>2. l \in same
        BY <1>4, <3>3, <4>1 DEF same
      <4> QED BY <3>2, <4>1, <4>2
    <3>5. rows[j] \in ToSet(w)
      BY <1>3, <1>8, <3>3, <3>4
    <3>6. PICK k \in DOMAIN w : w[k] = rows[j]
      BY <3>5 DEF ToSet
    <3>7. k \in Places(w)
      BY <1>8, ListsAreSeqs DEF IsSeq
    <3> QED BY <3>3, <3>6, <3>7 DEF Idents
  <2> QED BY <2>1, <2>2 DEF Idents
<1>12. Cardinality(Idents(w)) = Len(w)
  BY <1>8, <1>10, IdentsAreCounted
<1> QED
  BY <1>8, <1>11, <1>12 DEF w

(* Of the rows of the wanted idents the first of each.                     *)
LEMMA FirstOfWanted ==
    ASSUME NEW rows, IsList(rows), NEW idents
    PROVE  /\ Idents(FirstOfIdent(rows, idents)) = Idents(rows) \cap idents
           /\ Len(FirstOfIdent(rows, idents)) = Cardinality(Idents(rows) \cap idents)
<1> DEFINE w == Where(rows, LAMBDA r : r.ident \in idents)
           sets == [i \in Places(rows) |-> IF rows[i].ident \in idents THEN {rows[i]} ELSE {}]
<1>1. \A i \in Places(rows) : IsFiniteSet(sets[i])
  BY FS_EmptySet, FS_Singleton
<1>2. w = FlattenSeq([i \in Places(rows) |-> SetToSeq(sets[i])])
  BY DEF Where, FilterMap
<1>3. \A i \in Places(rows) : sets[i] = IF rows[i].ident \in idents THEN {rows[i]} ELSE {}
  OBVIOUS
<1>4. FirstOfIdent(rows, idents) = FirstsByIdent(w)
  BY DEF FirstOfIdent
<1> HIDE DEF sets, w
<1>5. IsSeq(w) /\ IsList(w) /\ ToSet(w) = UNION {sets[i] : i \in Places(rows)} /\ \A k \in Places(w) : w[k] \in ToSet(w)
  BY <1>1, <1>2, Gathered
<1>6. Idents(w) = Idents(rows) \cap idents
  <2>1. \A k \in Places(w) : w[k].ident \in Idents(rows) \cap idents
    <3> SUFFICES ASSUME NEW k \in Places(w) PROVE w[k].ident \in Idents(rows) \cap idents
      OBVIOUS
    <3>1. PICK i \in Places(rows) : w[k] \in sets[i]
      BY <1>5
    <3>2. w[k] = rows[i] /\ rows[i].ident \in idents
      BY <1>3, <3>1
    <3> QED BY <3>2 DEF Idents
  <2>2. ASSUME NEW i \in Places(rows), rows[i].ident \in idents PROVE rows[i].ident \in Idents(w)
    <3>1. rows[i] \in ToSet(w)
      <4>1. rows[i] \in sets[i]
        BY <1>3, <2>2
      <4> QED BY <1>5, <4>1
    <3>2. PICK k \in DOMAIN w : w[k] = rows[i]
      BY <3>1 DEF ToSet
    <3>3. k \in Places(w)
      BY <1>5, ListsAreSeqs DEF IsSeq
    <3> QED BY <3>2, <3>3 DEF Idents
  <2> QED BY <2>1, <2>2 DEF Idents
<1>7. LET firsts == FirstsByIdent(w) IN Idents(firsts) = Idents(w) /\ Len(firsts) = Cardinality(Idents(w))
  BY <1>5, FirstsAreOne
<1> QED
  BY <1>4, <1>6, <1>7

---------------------------------------------------------------------------
(* Rows and the airports they are of.                                      *)

AirportsIn(rows) == {rows[i].airport : i \in Places(rows)}

IcaosIn(rows) == {rows[i].icao : i \in Places(rows)}

LEMMA KnownOnly ==
    ASSUME NEW rows, IsList(rows), NEW airports
    PROVE  LET known == OfKnownAirports(rows, airports) IN
           IsSeq(known) /\ IsList(known) /\ AirportsIn(known) \subseteq IcaosIn(airports)
<1> DEFINE A == IcaosIn(airports)
           sets == [i \in Places(rows) |-> IF rows[i].airport \in A THEN {rows[i]} ELSE {}]
           w == OfKnownAirports(rows, airports)
<1>1. \A i \in Places(rows) : IsFiniteSet(sets[i])
  BY FS_EmptySet, FS_Singleton
<1>2. w = FlattenSeq([i \in Places(rows) |-> SetToSeq(sets[i])])
  BY DEF OfKnownAirports, Where, FilterMap, IcaosIn
<1>3. \A i \in Places(rows) : \A r \in sets[i] : r.airport \in A
  OBVIOUS
<1> HIDE DEF sets, w, A
<1>4. IsSeq(w) /\ IsList(w) /\ ToSet(w) = UNION {sets[i] : i \in Places(rows)} /\ \A k \in Places(w) : w[k] \in ToSet(w)
  BY <1>1, <1>2, Gathered
<1>5. \A k \in Places(w) : w[k].airport \in A
  BY <1>3, <1>4
<1> QED
  BY <1>4, <1>5 DEF w, A, AirportsIn

(* A runway is of the airport its ends are of.                             *)
LEMMA PartnersShareAirports ==
    ASSUME NEW ends, IsList(ends), NEW used, NEW i \in Places(ends)
    PROVE  /\ Partner(ends, used, i) \in Places(ends)
           /\ ends[Partner(ends, used, i)].airport = ends[i].airport
<1> DEFINE free == {j \in (i + 1)..Len(ends) : /\ j \notin used
                                               /\ ends[j].airport = ends[i].airport
                                               /\ ends[j].ident = ReciprocalNumberSuffix(ends[i].ident)}
<1>1. Partner(ends, used, i) = IF free = {} THEN i ELSE Min(free)
  BY DEF Partner
<1>2. free \in SUBSET Nat /\ \A j \in free : j \in Places(ends) /\ ends[j].airport = ends[i].airport
  BY DEF Places, IsList
<1> HIDE DEF free
<1>3. free # {} => Min(free) \in free
  BY <1>2, MinOfNaturals
<1> QED
  BY <1>1, <1>2, <1>3

LEMMA PairedEnds ==
    ASSUME NEW ends, IsList(ends)
    PROVE  LET runways == PairRunwayEnds(ends) IN
           /\ IsSeq(runways) /\ IsList(runways) /\ AirportsIn(runways) \subseteq AirportsIn(ends)
           /\ \A i \in Places(runways) : "airport" \in DOMAIN runways[i]
<1> DEFINE used == UsedEnds(ends)
           ids == [i \in Places(ends) |-> i]
           Runway(low, high) == [airport |-> low.airport,
                                 ident |-> <<low.ident, high.ident>>,
                                 length |-> Max({low.length, high.length}),
                                 surface |-> "Other"]
           Pair(i) ==
             IF i \in used[i] \/ ends[i].ident.num = None THEN {}
             ELSE LET other == ends[Partner(ends, used[i], i)] IN
                  {IF ends[i].ident.num <= ReciprocalNumberSuffix(ends[i].ident).num
                   THEN Runway(ends[i], other) ELSE Runway(other, ends[i])}
           sets == [i \in Places(ends) |-> Pair(i)]
           w == PairRunwayEnds(ends)
<1>1. IsList(ids) /\ Places(ids) = Places(ends)
  BY DEF Places, IsList
<1>2. w = FlattenSeq([i \in Places(ids) |-> SetToSeq(sets[i])])
  <2> HIDE DEF Pair
  <2>1. w = FilterMap(ids, Pair)
    BY DEF PairRunwayEnds, Pair
  <2>2. [i \in Places(ids) |-> SetToSeq(Pair(ids[i]))] = [i \in Places(ids) |-> SetToSeq(sets[i])]
    BY <1>1
  <2> HIDE DEF w, ids, sets
  <2> QED BY <2>1, <2>2 DEF FilterMap
<1>3. ASSUME NEW i \in Places(ends)
      PROVE  /\ IsFiniteSet(sets[i])
             /\ \A r \in sets[i] : r.airport = ends[i].airport /\ "airport" \in DOMAIN r
  <2> DEFINE other == ends[Partner(ends, used[i], i)]
  <2>1. sets[i] = Pair(i)
    OBVIOUS
  <2>2. other.airport = ends[i].airport
    BY PartnersShareAirports
  <2>3. \A low, high : Runway(low, high).airport = low.airport /\ "airport" \in DOMAIN Runway(low, high)
    OBVIOUS
  <2> HIDE DEF sets, other, used, Runway
  <2>4. \/ sets[i] = {}
        \/ sets[i] = {Runway(ends[i], other)}
        \/ sets[i] = {Runway(other, ends[i])}
    BY <2>1 DEF other
  <2>5. CASE sets[i] = {}
    BY <2>5, FS_EmptySet
  <2>6. ASSUME NEW r, r.airport = ends[i].airport, "airport" \in DOMAIN r, sets[i] = {r}
        PROVE  IsFiniteSet(sets[i]) /\ \A x \in sets[i] : x.airport = ends[i].airport /\ "airport" \in DOMAIN x
    BY <2>6, FS_Singleton
  <2>7. /\ Runway(ends[i], other).airport = ends[i].airport /\ "airport" \in DOMAIN Runway(ends[i], other)
        /\ Runway(other, ends[i]).airport = ends[i].airport /\ "airport" \in DOMAIN Runway(other, ends[i])
    BY <2>2, <2>3
  <2> QED BY <2>4, <2>5, <2>6, <2>7
<1> HIDE DEF ids, sets, w
<1>4. IsSeq(w) /\ IsList(w) /\ ToSet(w) = UNION {sets[i] : i \in Places(ids)} /\ \A k \in Places(w) : w[k] \in ToSet(w)
  BY <1>1, <1>2, <1>3, Gathered
<1>5. ASSUME NEW k \in Places(w) PROVE w[k].airport \in AirportsIn(ends) /\ "airport" \in DOMAIN w[k]
  <2>1. PICK i \in Places(ends) : w[k] \in sets[i]
    BY <1>1, <1>4
  <2>2. w[k].airport = ends[i].airport /\ "airport" \in DOMAIN w[k]
    BY <1>3, <2>1
  <2> QED BY <2>2 DEF AirportsIn
<1> QED
  BY <1>4, <1>5 DEF w, AirportsIn

LEMMA SurfacedRunways ==
    ASSUME NEW runways, IsList(runways), NEW surfaces,
           \A i \in Places(runways) : "airport" \in DOMAIN runways[i]
    PROVE  LET all == ApplyNasrSurfaces(runways, surfaces) IN
           IsSeq(all) /\ IsList(all) /\ AirportsIn(all) = AirportsIn(runways)
<1> DEFINE all == ApplyNasrSurfaces(runways, surfaces)
           n == Len(runways)
<1>1. all = [i \in 1..n |->
               IF <<runways[i].airport, runways[i].ident>> \in DOMAIN surfaces
               THEN [runways[i] EXCEPT !.surface = surfaces[<<runways[i].airport, runways[i].ident>>]]
               ELSE runways[i]]
  BY DEF ApplyNasrSurfaces, MapSeq, Places
<1>2. n \in Nat /\ Places(runways) = 1..n
  BY DEF IsList, Places
<1> HIDE DEF all, n
<1>3. \A i \in 1..n : all[i].airport = runways[i].airport
  BY <1>1, <1>2
<1>4. IsSeq(all) /\ IsList(all) /\ Places(all) = 1..n
  <2>1. all = [i \in 1..n |-> all[i]]
    BY <1>1
  <2> QED BY <1>2, <2>1, MappedList
<1>5. AirportsIn(all) = AirportsIn(runways)
  <2>1. \A i \in Places(all) : \E j \in Places(runways) : all[i].airport = runways[j].airport
    BY <1>2, <1>3, <1>4
  <2>2. \A j \in Places(runways) : \E i \in Places(all) : runways[j].airport = all[i].airport
    BY <1>2, <1>3, <1>4
  <2> QED BY <2>1, <2>2 DEF AirportsIn
<1> QED
  BY <1>4, <1>5 DEF all

(* A procedure is of the airport its rows are of, and a transition of a    *)
(* procedure there is.                                                     *)
LEMMA ProceduresAreBuilt ==
    ASSUME NEW rows, IsList(rows), NEW RunwayIn
    PROVE  LET p == BuildProcedures(rows, RunwayIn) IN
           /\ IsFiniteSet(DOMAIN p.procedures)
           /\ \A id \in DOMAIN p.procedures : id[1] \in AirportsIn(rows)
           /\ \A t \in DOMAIN p.legs : t[1] \in DOMAIN p.procedures
<1> DEFINE kept == FirstLegs(rows)
           ids == {ProcedureIdFor(rows[i]) : i \in kept}
           transitions == {TransitionId(rows[i]) : i \in kept}
           p == BuildProcedures(rows, RunwayIn)
<1>1. DOMAIN p.procedures = ids /\ DOMAIN p.legs = transitions
  BY DEF BuildProcedures
<1>2. kept \subseteq Places(rows)
  BY DEF FirstLegs, FirstOfKey, Places
<1> HIDE DEF kept, p
<1>3. IsFiniteSet(ids)
  <2>1. IsFiniteSet(kept)
    <3>1. IsFiniteSet(Places(rows))
      BY FS_Interval DEF Places, IsList
    <3> QED BY <1>2, <3>1, FS_Subset
  <2> DEFINE f == [i \in kept |-> ProcedureIdFor(rows[i])]
  <2>2. f \in Surjection(kept, ids)
    BY DEF Surjection
  <2> HIDE DEF f, ids
  <2> QED BY <2>1, <2>2, FS_Surjection
<1>4. \A id \in ids : id[1] \in AirportsIn(rows)
  BY <1>2 DEF ProcedureIdFor, AirportsIn
<1>5. \A t \in transitions : t[1] \in ids
  BY DEF TransitionId
<1> QED
  BY <1>1, <1>3, <1>4, <1>5 DEF p

---------------------------------------------------------------------------
(* What a file's records and its other sources come to.                    *)

LEMMA IdentsGathered ==
    ASSUME NEW s, IsList(s), NEW sets, \A i \in Places(s) : IsFiniteSet(sets[i]),
           NEW w, w = FlattenSeq([i \in Places(s) |-> SetToSeq(sets[i])])
    PROVE  /\ IsList(w)
           /\ \A x : x \in Idents(w) <=> \E i \in Places(s) : \E r \in sets[i] : x = r.ident
<1>1. IsSeq(w) /\ IsList(w) /\ ToSet(w) = UNION {sets[i] : i \in Places(s)} /\ \A k \in Places(w) : w[k] \in ToSet(w)
  BY Gathered
<1>2. \A k \in Places(w) : \E i \in Places(s) : w[k] \in sets[i]
  BY <1>1
<1>3. ASSUME NEW i \in Places(s), NEW r \in sets[i] PROVE \E k \in Places(w) : w[k] = r
  <2>1. r \in ToSet(w)
    BY <1>1
  <2>2. DOMAIN w = Places(w)
    BY <1>1, ListsAreSeqs DEF IsSeq
  <2> QED BY <2>1, <2>2 DEF ToSet
<1> QED
  BY <1>1, <1>2, <1>3 DEF Idents

LEMMA ChildrenAreCollected ==
    ASSUME NEW lines, IsList(lines)
    PROVE  LET c == Collected(lines) IN
           /\ IsList(c.ends) /\ AirportsIn(c.ends) \subseteq IcaosIn(c.airports)
           /\ IsList(c.rows) /\ AirportsIn(c.rows) \subseteq IcaosIn(c.airports)
           /\ IsList(c.airway_rows)
<1> DEFINE raw == CollectRecords(lines, None)
           c == Collected(lines)
           Mine(r) == Wanted(None, r.airport)
           foundEnds == FilterMap(lines, ExtractRunwayEnd)
           foundRows == FilterMap(lines, ExtractProcedureLegRow)
<1>1. IsList(foundEnds)
  <2> DEFINE sets == [i \in Places(lines) |-> ExtractRunwayEnd(lines[i])]
  <2>1. \A i \in Places(lines) : IsFiniteSet(sets[i])
    BY FS_EmptySet, FS_Singleton DEF ExtractRunwayEnd
  <2>2. foundEnds = FlattenSeq([i \in Places(lines) |-> SetToSeq(sets[i])])
    BY DEF FilterMap
  <2> HIDE DEF sets, foundEnds
  <2> QED BY <2>1, <2>2, Gathered
<1>2. IsList(foundRows)
  <2> DEFINE sets == [i \in Places(lines) |-> ExtractProcedureLegRow(lines[i])]
  <2>1. \A i \in Places(lines) : IsFiniteSet(sets[i])
    BY FS_EmptySet, FS_Singleton DEF ExtractProcedureLegRow
  <2>2. foundRows = FlattenSeq([i \in Places(lines) |-> SetToSeq(sets[i])])
    BY DEF FilterMap
  <2> HIDE DEF sets, foundRows
  <2> QED BY <2>1, <2>2, Gathered
<1>3. IsList(raw.airway_rows)
  <2> DEFINE sets == [i \in Places(lines) |-> ExtractAirwayLegRow(lines[i])]
             found == raw.airway_rows
  <2>1. \A i \in Places(lines) : IsFiniteSet(sets[i])
    BY FS_EmptySet, FS_Singleton DEF ExtractAirwayLegRow
  <2>2. found = FlattenSeq([i \in Places(lines) |-> SetToSeq(sets[i])])
    BY DEF CollectRecords, FilterMap
  <2> HIDE DEF sets, found
  <2>3. IsList(found)
    BY <2>1, <2>2, Gathered
  <2> QED BY <2>3 DEF found
<1>4. ASSUME NEW s, IsList(s) PROVE IsList(Where(s, Mine))
  <2> DEFINE sets == [i \in Places(s) |-> IF Mine(s[i]) THEN {s[i]} ELSE {}]
             w == Where(s, Mine)
  <2>1. \A i \in Places(s) : IsFiniteSet(sets[i])
    BY FS_EmptySet, FS_Singleton
  <2>2. w = FlattenSeq([i \in Places(s) |-> SetToSeq(sets[i])])
    BY DEF Where, FilterMap
  <2> HIDE DEF sets, w, Mine
  <2>3. IsList(w)
    BY <1>4, <2>1, <2>2, Gathered
  <2> QED BY <2>3 DEF w
<1>5. raw.ends = Where(foundEnds, Mine) /\ raw.rows = Where(foundRows, Mine)
  BY DEF CollectRecords
<1> HIDE DEF foundEnds, foundRows, Mine
<1>6. IsList(raw.ends) /\ IsList(raw.rows)
  BY <1>1, <1>2, <1>4, <1>5
<1>7. /\ c.airports = raw.airports /\ c.airway_rows = raw.airway_rows
      /\ c.ends = OfKnownAirports(raw.ends, raw.airports)
      /\ c.rows = OfKnownAirports(raw.rows, raw.airports)
  BY DEF Collected, RetainChildren, CollectRecords
<1> HIDE DEF raw, c
<1>8. IsList(c.ends) /\ AirportsIn(c.ends) \subseteq IcaosIn(c.airports)
  BY <1>6, <1>7, KnownOnly
<1>9. IsList(c.rows) /\ AirportsIn(c.rows) \subseteq IcaosIn(c.airports)
  BY <1>6, <1>7, KnownOnly
<1> QED
  BY <1>3, <1>7, <1>8, <1>9 DEF c

LEMMA FrequenciesAreListed ==
    ASSUME NEW freqs, IsList(freqs), NEW IcaoOf, IsFiniteSet(DOMAIN IcaoOf)
    PROVE  IsList(FrequenciesOf(freqs, IcaoOf))
<1> DEFINE ids == SetToSeq(DOMAIN IcaoOf)
           n == Cardinality(DOMAIN IcaoOf)
           seqs == [i \in 1..n |-> FrequenciesForAirport(freqs, ids[i], IcaoOf[ids[i]])]
           S == UNION {ToSet(seqs[i]) : i \in 1..n}
<1>1. ids \in [1..n -> DOMAIN IcaoOf] /\ n \in Nat
  BY SetToSeqIs
<1>2. FrequenciesOf(freqs, IcaoOf) = FlattenSeq(seqs)
  <2>1. Places(ids) = 1..n
    BY <1>1 DEF Places
  <2> HIDE DEF ids, n
  <2> QED BY <2>1 DEF FrequenciesOf, MapSeq, ids
<1>3. ASSUME NEW arpt, NEW icao PROVE IsSeq(FrequenciesForAirport(freqs, arpt, icao))
  <2> DEFINE Serves(r) == r.facility = arpt /\ r.site_type = "AIRPORT" /\ r.mhz # None
             own == Where(freqs, Serves)
             sets == [i \in Places(freqs) |-> IF Serves(freqs[i]) THEN {freqs[i]} ELSE {}]
             f == FrequenciesForAirport(freqs, arpt, icao)
  <2>1. \A i \in Places(freqs) : IsFiniteSet(sets[i])
    BY FS_EmptySet, FS_Singleton
  <2>2. own = FlattenSeq([i \in Places(freqs) |-> SetToSeq(sets[i])])
    BY DEF Where, FilterMap
  <2>3. f = [k \in 1..Len(own) |-> [airport |-> icao, kind |-> FreqUseKind(own[k].use), mhz |-> own[k].mhz]]
    BY DEF FrequenciesForAirport
  <2> HIDE DEF sets, own, f
  <2>4. IsList(own)
    BY <2>1, <2>2, Gathered
  <2>5. f = [k \in 1..Len(own) |-> f[k]] /\ Len(own) \in Nat
    BY <2>3, <2>4 DEF IsList
  <2>6. IsSeq(f)
    BY <2>5, MappedList
  <2> QED BY <2>6 DEF f
<1>4. \A i \in 1..n : IsSeq(seqs[i])
  BY <1>3
<1>5. seqs = [i \in 1..n |-> seqs[i]]
  OBVIOUS
<1> HIDE DEF seqs, n, ids
<1>6. ASSUME NEW i \in 1..n PROVE seqs[i] \in Seq(S)
  <2>1. seqs[i] \in Seq(ToSet(seqs[i])) /\ ToSet(seqs[i]) \subseteq S
    BY <1>4 DEF IsSeq
  <2> HIDE DEF S
  <2> QED BY <2>1
<1> HIDE DEF S
<1>7. seqs \in [1..n -> Seq(S)]
  BY <1>5, <1>6
<1>8. FlattenSeq(seqs) \in Seq(S)
  BY <1>1, <1>7, FlattenGathers
<1> QED
  BY <1>2, <1>8, ListsAreSeqs

LEMMA EnrichmentIsListed ==
    ASSUME NEW nasr, IsList(nasr.base), IsList(nasr.freqs), LoadNasrEnrichment(nasr, None) # None
    PROVE  IsList(LoadNasrEnrichment(nasr, None).frequencies)
<1> DEFINE base == ParseTable(nasr.base)
           freqs == ParseTable(nasr.freqs)
           Mine(row) == Wanted(None, AirportKey(row))
           rows == Where(base, Mine)
           IcaoOf == IcaosByFaaId(rows)
<1>1. base # None /\ freqs # None /\ LoadNasrEnrichment(nasr, None).frequencies = FrequenciesOf(freqs, IcaoOf)
  BY DEF LoadNasrEnrichment
<1>2. IsList(base) /\ IsList(freqs)
  BY <1>1 DEF ParseTable
<1> HIDE DEF base, freqs
<1>3. IsList(rows)
  <2> DEFINE sets == [i \in Places(base) |-> IF Mine(base[i]) THEN {base[i]} ELSE {}]
  <2>1. \A i \in Places(base) : IsFiniteSet(sets[i])
    BY FS_EmptySet, FS_Singleton
  <2>2. rows = FlattenSeq([i \in Places(base) |-> SetToSeq(sets[i])])
    BY DEF Where, FilterMap
  <2> HIDE DEF sets, rows, Mine
  <2> QED BY <1>2, <2>1, <2>2, Gathered
<1> HIDE DEF rows
<1>4. IsFiniteSet(DOMAIN IcaoOf)
  <2> DEFINE T == {rows[i].arpt : i \in Places(rows)}
             f == [i \in Places(rows) |-> rows[i].arpt]
  <2>1. DOMAIN IcaoOf = T
    BY DEF IcaosByFaaId
  <2>2. IsFiniteSet(Places(rows))
    BY <1>3, FS_Interval DEF Places, IsList
  <2>3. f \in Surjection(Places(rows), T)
    BY DEF Surjection
  <2> HIDE DEF f, T
  <2>4. IsFiniteSet(T)
    BY <2>2, <2>3, FS_Surjection
  <2> QED BY <2>1, <2>4
<1> HIDE DEF IcaoOf
<1> QED
  BY <1>1, <1>2, <1>4, FrequenciesAreListed

---------------------------------------------------------------------------
(* Fixes: what legs and airways name, and what the file defines of it.     *)

Vhf(lines) == Idents(FilterMap(lines, ExtractVhfNavaid))

Ndb(lines) == Idents(FilterMap(lines, ExtractNdbNavaid))

Waypoints(lines) == Idents(FilterMap(lines, ExtractWaypoint))

LEMMA FixesAreResolved ==
    ASSUME NEW lines, IsList(lines), NEW idents
    PROVE  LET fixes == ResolveFixes(lines, idents) IN
           /\ Idents(fixes.navaids) = idents \cap (Vhf(lines) \cup Ndb(lines))
           /\ Len(fixes.navaids) = Cardinality(idents \cap (Vhf(lines) \cup Ndb(lines)))
           /\ Idents(fixes.waypoints) = idents \cap Waypoints(lines)
<1> DEFINE vhf == [i \in Places(lines) |-> ExtractVhfNavaid(lines[i])]
           ndb == [i \in Places(lines) |-> ExtractNdbNavaid(lines[i])]
           both == [i \in Places(lines) |-> ExtractVhfNavaid(lines[i]) \cup ExtractNdbNavaid(lines[i])]
           points == [i \in Places(lines) |-> ExtractWaypoint(lines[i])]
           v == FilterMap(lines, ExtractVhfNavaid)
           n == FilterMap(lines, ExtractNdbNavaid)
           b == FilterMap(lines, LAMBDA l : ExtractVhfNavaid(l) \cup ExtractNdbNavaid(l))
           w == FilterMap(lines, ExtractWaypoint)
           fixes == ResolveFixes(lines, idents)
<1>1. \A i \in Places(lines) : IsFiniteSet(vhf[i]) /\ IsFiniteSet(ndb[i]) /\ IsFiniteSet(points[i])
  <2>1. \A l : IsFiniteSet(ExtractVhfNavaid(l))
    BY FS_EmptySet, FS_Singleton DEF ExtractVhfNavaid
  <2>2. \A l : IsFiniteSet(ExtractNdbNavaid(l))
    BY FS_EmptySet, FS_Singleton DEF ExtractNdbNavaid
  <2>3. \A l : IsFiniteSet(ExtractWaypoint(l))
    BY FS_EmptySet, FS_Singleton DEF ExtractWaypoint
  <2> QED BY <2>1, <2>2, <2>3
<1>2. \A i \in Places(lines) : both[i] = vhf[i] \cup ndb[i]
  OBVIOUS
<1>3. /\ v = FlattenSeq([i \in Places(lines) |-> SetToSeq(vhf[i])])
      /\ n = FlattenSeq([i \in Places(lines) |-> SetToSeq(ndb[i])])
  BY DEF FilterMap
<1>4. /\ b = FlattenSeq([i \in Places(lines) |-> SetToSeq(both[i])])
      /\ w = FlattenSeq([i \in Places(lines) |-> SetToSeq(points[i])])
  BY DEF FilterMap
<1>5. fixes.navaids = FirstOfIdent(b, idents) /\ fixes.waypoints = FirstOfIdent(w, idents)
  BY DEF ResolveFixes
<1>6. Vhf(lines) = Idents(v) /\ Ndb(lines) = Idents(n) /\ Waypoints(lines) = Idents(w)
  BY DEF Vhf, Ndb, Waypoints
<1> HIDE DEF vhf, ndb, both, points, v, n, b, w, fixes
<1>7. \A i \in Places(lines) : IsFiniteSet(both[i])
  <2> SUFFICES ASSUME NEW i \in Places(lines) PROVE IsFiniteSet(both[i])
    OBVIOUS
  <2>1. IsFiniteSet(vhf[i]) /\ IsFiniteSet(ndb[i])
    BY <1>1
  <2>2. IsFiniteSet(vhf[i] \cup ndb[i])
    BY <2>1, FS_Union
  <2> QED BY <1>2, <2>2
<1>8. IsList(b) /\ \A x : x \in Idents(b) <=> \E i \in Places(lines) : \E r \in both[i] : x = r.ident
  BY <1>4, <1>7, IdentsGathered
<1>9. \A x : x \in Idents(v) <=> \E i \in Places(lines) : \E r \in vhf[i] : x = r.ident
  BY <1>1, <1>3, IdentsGathered
<1>10. \A x : x \in Idents(n) <=> \E i \in Places(lines) : \E r \in ndb[i] : x = r.ident
  BY <1>1, <1>3, IdentsGathered
<1>11. IsList(w)
  BY <1>1, <1>4, IdentsGathered
<1>12. Idents(b) = Idents(v) \cup Idents(n)
  <2>1. \A x : x \in Idents(b) <=> x \in Idents(v) \/ x \in Idents(n)
    BY <1>2, <1>8, <1>9, <1>10
  <2> QED BY <2>1
<1>13. /\ Idents(FirstOfIdent(b, idents)) = Idents(b) \cap idents
       /\ Len(FirstOfIdent(b, idents)) = Cardinality(Idents(b) \cap idents)
  BY <1>8, FirstOfWanted
<1>14. Idents(FirstOfIdent(w, idents)) = Idents(w) \cap idents
  BY <1>11, FirstOfWanted
<1>15. Idents(b) \cap idents = idents \cap (Vhf(lines) \cup Ndb(lines)) /\ Idents(w) \cap idents = idents \cap Waypoints(lines)
  BY <1>6, <1>12
<1>16. /\ Idents(fixes.navaids) = idents \cap (Vhf(lines) \cup Ndb(lines))
       /\ Len(fixes.navaids) = Cardinality(idents \cap (Vhf(lines) \cup Ndb(lines)))
  BY <1>5, <1>13, <1>15
<1>17. Idents(fixes.waypoints) = idents \cap Waypoints(lines)
  BY <1>5, <1>14, <1>15
<1> QED
  BY <1>16, <1>17 DEF fixes

LEMMA FixesOfAirways ==
    ASSUME NEW airways, IsFiniteSet(DOMAIN airways)
    PROVE  FixesOf(MapSeq(AirwayRows(airways), LAMBDA a : a.legs)) = FixesOf(airways)
<1> DEFINE ids == SetToSeq(DOMAIN airways)
           n == Cardinality(DOMAIN airways)
           legs == MapSeq(AirwayRows(airways), LAMBDA a : a.legs)
           In(l, x) == \E t \in DOMAIN l : \E k \in Places(l[t]) : x = l[t][k].fix
<1>1. /\ ids \in [1..n -> DOMAIN airways] /\ n \in Nat
      /\ \A a \in DOMAIN airways : \E i \in 1..n : ids[i] = a
  BY SetToSeqIs
<1>2. Places(ids) = 1..n
  BY <1>1 DEF Places
<1>3. AirwayRows(airways) = [i \in 1..n |-> [ident |-> ids[i], legs |-> airways[ids[i]]]]
  BY <1>2 DEF AirwayRows
<1> HIDE DEF ids, n
<1>4. Places(AirwayRows(airways)) = 1..n
  BY <1>1, <1>3 DEF Places
<1>5. DOMAIN legs = 1..n /\ \A i \in 1..n : legs[i] = airways[ids[i]]
  <2>1. legs = [i \in Places(AirwayRows(airways)) |-> AirwayRows(airways)[i].legs]
    BY DEF MapSeq
  <2> HIDE DEF legs
  <2> QED BY <1>3, <1>4, <2>1
<1> HIDE DEF legs
<1>6. \A x : In(legs, x) => In(airways, x)
  BY <1>1, <1>5
<1>7. \A x : In(airways, x) => In(legs, x)
  <2> SUFFICES ASSUME NEW x, In(airways, x) PROVE In(legs, x)
    OBVIOUS
  <2>1. PICK a \in DOMAIN airways : \E k \in Places(airways[a]) : x = airways[a][k].fix
    OBVIOUS
  <2>2. PICK i \in 1..n : ids[i] = a
    BY <1>1
  <2> QED BY <1>5, <2>1, <2>2
<1>8. \A l : \A x : x \in FixesOf(l) <=> In(l, x) /\ x # None
  <2> SUFFICES ASSUME NEW l, NEW x PROVE x \in FixesOf(l) <=> In(l, x) /\ x # None
    OBVIOUS
  <2> DEFINE Sets == {{l[t][k].fix : k \in Places(l[t])} : t \in DOMAIN l}
  <2>1. FixesOf(l) = (UNION Sets) \ {None}
    BY DEF FixesOf
  <2>2. ASSUME In(l, x) PROVE x \in UNION Sets
    <3>1. PICK t \in DOMAIN l : \E k \in Places(l[t]) : x = l[t][k].fix
      BY <2>2
    <3>2. {l[t][j].fix : j \in Places(l[t])} \in Sets
      OBVIOUS
    <3> QED BY <3>1, <3>2
  <2>3. ASSUME x \in UNION Sets PROVE In(l, x)
    <3>1. PICK S \in Sets : x \in S
      BY <2>3
    <3> QED BY <3>1
  <2> HIDE DEF Sets, In
  <2> QED BY <2>1, <2>2, <2>3
<1> HIDE DEF In
<1>9. FixesOf(legs) = FixesOf(airways)
  <2>1. \A x : x \in FixesOf(legs) <=> x \in FixesOf(airways)
    BY <1>6, <1>7, <1>8
  <2> QED BY <2>1
<1> QED
  BY <1>9 DEF legs

LEMMA AirwaysAreFinite ==
    ASSUME NEW rows, IsList(rows)
    PROVE  IsFiniteSet(DOMAIN BuildAirways(rows))
<1> DEFINE kept == FirstOfKey(rows, LAMBDA r : <<r.route, r.seq>>)
           T == {rows[i].route : i \in kept}
           f == [i \in kept |-> rows[i].route]
<1>1. DOMAIN BuildAirways(rows) = T
  BY DEF BuildAirways
<1>2. kept \subseteq Places(rows)
  BY DEF FirstOfKey, Places
<1> HIDE DEF kept
<1>3. IsFiniteSet(kept)
  <2>1. IsFiniteSet(Places(rows))
    BY FS_Interval DEF Places, IsList
  <2> QED BY <1>2, <2>1, FS_Subset
<1>4. f \in Surjection(kept, T)
  BY DEF Surjection
<1> HIDE DEF f, T
<1>5. IsFiniteSet(T)
  BY <1>3, <1>4, FS_Surjection
<1> QED
  BY <1>1, <1>5

---------------------------------------------------------------------------
(* Rows and their parents.                                                 *)

OfAirports(db) ==
    /\ IsSeq(db.runway) /\ AirportsIn(db.runway) \subseteq DOMAIN db.airport
    /\ IsSeq(db.frequency) /\ AirportsIn(db.frequency) \subseteq DOMAIN db.airport
    /\ IsFiniteSet(DOMAIN db.procedure)
    /\ \A p \in DOMAIN db.procedure : p[1] \in DOMAIN db.airport
    /\ \A t \in DOMAIN db.leg : t[1] \in DOMAIN db.procedure

PlateOf(db, row) ==
    /\ row.airport \in DOMAIN db.airport
    /\ \/ row.procedure = AirportDiagramIdent
       \/ \E p \in DOMAIN db.procedure : p[1] = row.airport /\ p[3] = row.procedure

OfProcedures(db) == IsSeq(db.dtpp) /\ \A i \in Places(db.dtpp) : PlateOf(db, db.dtpp[i])

Family(db) == OfAirports(db) /\ OfProcedures(db)

LEMMA BundleHasParents ==
    ASSUME NEW lines, IsList(lines), NEW nasr, IsList(nasr.base), IsList(nasr.freqs),
           NEW db \in BuildBundle(lines, nasr, None, RunwayOf), db # None
    PROVE  Family(db)
<1> DEFINE c == Collected(lines)
           p == Procedures(lines)
           airways == Airways(lines)
           fixes == Fixes(lines)
           extra == LoadNasrEnrichment(nasr, None)
           icaos == IcaosIn(c.airports)
<1>1. extra # None /\ \E faa_ids \in extra.faa_ids : db = BundleOf(c, p, airways, fixes, extra, faa_ids)
  BY BuiltOf
<1>2. IsList(c.airports) /\ \A i \in Places(c.airports) : "icao" \in DOMAIN c.airports[i]
  BY AirportsAreCollected
<1>3. /\ IsList(c.ends) /\ AirportsIn(c.ends) \subseteq icaos
      /\ IsList(c.rows) /\ AirportsIn(c.rows) \subseteq icaos
  BY ChildrenAreCollected
<1>4. IsList(extra.frequencies)
  BY <1>1, EnrichmentIsListed
<1>5. /\ IsFiniteSet(DOMAIN p.procedures)
      /\ \A id \in DOMAIN p.procedures : id[1] \in AirportsIn(c.rows)
      /\ \A t \in DOMAIN p.legs : t[1] \in DOMAIN p.procedures
  BY <1>3, ProceduresAreBuilt DEF Procedures
<1> HIDE DEF c, p, airways, fixes, extra
<1>6. /\ DOMAIN db.airport = icaos /\ db.dtpp = <<>>
      /\ db.runway = ApplyNasrSurfaces(PairRunwayEnds(c.ends), extra.surfaces)
      /\ db.frequency = OfKnownAirports(extra.frequencies, c.airports)
      /\ db.procedure = p.procedures /\ db.leg = p.legs
  BY <1>1, <1>2, BundleOfIs DEF IcaosIn
<1> HIDE DEF icaos
<1>7. IsSeq(db.runway) /\ AirportsIn(db.runway) \subseteq icaos
  <2> DEFINE paired == PairRunwayEnds(c.ends)
  <2>1. /\ IsList(paired) /\ AirportsIn(paired) \subseteq AirportsIn(c.ends)
        /\ \A i \in Places(paired) : "airport" \in DOMAIN paired[i]
    BY <1>3, PairedEnds
  <2> HIDE DEF paired
  <2>2. LET all == ApplyNasrSurfaces(paired, extra.surfaces) IN IsSeq(all) /\ AirportsIn(all) = AirportsIn(paired)
    BY <2>1, SurfacedRunways
  <2> QED BY <1>3, <1>6, <2>1, <2>2 DEF paired
<1>8. IsSeq(db.frequency) /\ AirportsIn(db.frequency) \subseteq icaos
  BY <1>4, <1>6, KnownOnly DEF icaos
<1>9. OfAirports(db)
  BY <1>3, <1>5, <1>6, <1>7, <1>8 DEF OfAirports
<1>10. OfProcedures(db)
  BY <1>6 DEF OfProcedures, IsSeq, ToSet, Places
<1> QED
  BY <1>1, <1>9, <1>10 DEF Family

---------------------------------------------------------------------------
(* The legs of a bundle name fixes; the tables of navaids and waypoints    *)
(* answer.                                                                 *)

LegLists(rows) == [i \in Places(rows) |-> rows[i].legs]

NamedFixes(db) == FixesOf(db.leg) \cup FixesOf(LegLists(db.airway))

FixesAnswer(db, lines) ==
    /\ Idents(db.navaid) = NamedFixes(db) \cap (Vhf(lines) \cup Ndb(lines))
    /\ Len(db.navaid) = Cardinality(NamedFixes(db) \cap (Vhf(lines) \cup Ndb(lines)))
    /\ Idents(db.waypoint) = NamedFixes(db) \cap Waypoints(lines)

LEMMA BundleNamesItsFixes ==
    ASSUME NEW lines, IsList(lines), NEW nasr, NEW db \in BuildBundle(lines, nasr, None, RunwayOf), db # None
    PROVE  FixesAnswer(db, lines)
<1> DEFINE c == Collected(lines)
           p == Procedures(lines)
           airways == Airways(lines)
           fixes == Fixes(lines)
           extra == LoadNasrEnrichment(nasr, None)
           idents == FixesOf(p.legs) \cup FixesOf(airways)
<1>1. \E faa_ids \in extra.faa_ids : db = BundleOf(c, p, airways, fixes, extra, faa_ids)
  BY BuiltOf
<1>2. IsList(c.airports) /\ \A i \in Places(c.airports) : "icao" \in DOMAIN c.airports[i]
  BY AirportsAreCollected
<1>3. IsFiniteSet(DOMAIN airways)
  BY ChildrenAreCollected, AirwaysAreFinite DEF Airways
<1>4. /\ Idents(fixes.navaids) = idents \cap (Vhf(lines) \cup Ndb(lines))
      /\ Len(fixes.navaids) = Cardinality(idents \cap (Vhf(lines) \cup Ndb(lines)))
      /\ Idents(fixes.waypoints) = idents \cap Waypoints(lines)
  <2> DEFINE ids == FixesOf(Procedures(lines).legs) \cup FixesOf(Airways(lines))
  <2>1. fixes = ResolveFixes(lines, ids) /\ ids = idents
    BY DEF Fixes
  <2> HIDE DEF ids, idents, fixes
  <2> QED BY <2>1, FixesAreResolved
<1>5. FixesOf(LegLists(AirwayRows(airways))) = FixesOf(airways)
  BY <1>3, FixesOfAirways DEF LegLists, MapSeq
<1> HIDE DEF c, p, airways, fixes, extra
<1>6. /\ db.leg = p.legs /\ db.navaid = fixes.navaids /\ db.waypoint = fixes.waypoints
      /\ db.airway = AirwayRows(airways)
  BY <1>1, <1>2, BundleOfIs
<1>7. NamedFixes(db) = idents
  BY <1>5, <1>6 DEF NamedFixes
<1> HIDE DEF idents
<1> QED
  BY <1>4, <1>6, <1>7 DEF FixesAnswer

---------------------------------------------------------------------------
(* The runways of the export.                                              *)

LEMMA ExportRunways ==
    ASSUME NEW n \in DOMAIN Feeds, NEW region, Aixm!LoadAixm(Feeds[n].export, region) # None
    PROVE  IsList(Aixm!LoadAixm(Feeds[n].export, region).runways)
<1> DEFINE file == Feeds[n].export
           doc == Aixm!ReadAixmBytes(file)
           features == doc.features
           tagged == Aixm!Where(features, LAMBDA f : f.tag = "Rwy")
           rwys == Aixm!FilterMap(tagged, LAMBDA f : Aixm!RwyRaw(Aixm!ReadFeaturePaths(f.body)))
           rdns == Aixm!FilterMap(Aixm!Where(features, LAMBDA f : f.tag = "Rdn"),
                                  LAMBDA f : Aixm!RdnRaw(Aixm!ReadFeaturePaths(f.body)))
           runways == Aixm!AssembleRunways(rwys, rdns)
           data == Aixm!ParseSnapshot(doc, region)
           loaded == Aixm!LoadAixm(file, region)
<1>1. doc # None /\ data # None
  BY DEF Aixm!LoadAixm
<1>2. IsList(features)
  BY <1>1, DocumentsAreLists
<1>3. loaded.runways = runways
  <2>1. "runways" \in DOMAIN data /\ data.runways = runways
    BY <1>1 DEF Aixm!ParseSnapshot
  <2>2. loaded = [data EXCEPT !.airports = Aixm!Where(@, LAMBDA a : Aixm!Plausible(a.lat, a.lon))]
    BY <1>1 DEF Aixm!LoadAixm
  <2> HIDE DEF data, runways, loaded
  <2> QED BY <2>1, <2>2
<1> HIDE DEF features
<1>4. IsList(tagged)
  <2> DEFINE sets == [i \in Places(features) |-> IF features[i].tag = "Rwy" THEN {features[i]} ELSE {}]
  <2>1. \A i \in Places(features) : IsFiniteSet(sets[i])
    BY FS_EmptySet, FS_Singleton
  <2>2. tagged = FlattenSeq([i \in Places(features) |-> SetToSeq(sets[i])])
    BY AixmHasTheLibrary DEF Aixm!Where, Aixm!FilterMap, Aixm!Places, Places
  <2> HIDE DEF sets, tagged
  <2> QED BY <1>2, <2>1, <2>2, Gathered
<1> HIDE DEF tagged
<1>5. IsList(rwys)
  <2> DEFINE sets == [i \in Places(tagged) |-> Aixm!RwyRaw(Aixm!ReadFeaturePaths(tagged[i].body))]
  <2>1. \A i \in Places(tagged) : IsFiniteSet(sets[i])
    <3>1. \A f : IsFiniteSet(Aixm!RwyRaw(f))
      BY FS_EmptySet, FS_Singleton DEF Aixm!RwyRaw
    <3> QED BY <3>1
  <2>2. rwys = FlattenSeq([i \in Places(tagged) |-> SetToSeq(sets[i])])
    BY AixmHasTheLibrary DEF Aixm!FilterMap, Aixm!Places, Places
  <2> HIDE DEF sets, rwys
  <2> QED BY <1>4, <2>1, <2>2, Gathered
<1> HIDE DEF rwys, rdns
<1>6. IsList(runways)
  <2>1. runways = [i \in 1..Len(rwys) |-> runways[i]]
    BY DEF Aixm!AssembleRunways, Aixm!MapSeq, Aixm!Places
  <2> HIDE DEF runways
  <2>2. Len(runways) = Len(rwys)
    BY <1>5, <2>1 DEF IsList
  <2> QED BY <1>5, <2>2 DEF IsList
<1> HIDE DEF runways, loaded
<1>7. IsList(loaded.runways)
  BY <1>3, <1>6
<1> QED
  BY <1>7 DEF loaded, file

---------------------------------------------------------------------------
(* Plates and what they are plates of.                                     *)

LEMMA MatchesAreAmong ==
    ASSUME NEW r, NEW ps, IsList(ps)
    PROVE  /\ MatchRecord(r, ps) # <<>> => 1 \in Places(MatchRecord(r, ps))
           /\ \A k \in Places(MatchRecord(r, ps)) : \E i \in Places(ps) : MatchRecord(r, ps)[k] = ps[i]
<1> DEFINE sets == [i \in Places(ps) |-> IF Fits(r, ps[i]) THEN {ps[i]} ELSE {}]
           w == MatchRecord(r, ps)
<1>1. \A i \in Places(ps) : IsFiniteSet(sets[i])
  BY FS_EmptySet, FS_Singleton
<1>2. w = FlattenSeq([i \in Places(ps) |-> SetToSeq(sets[i])])
  BY DEF MatchRecord, Where, FilterMap
<1>3. \A i \in Places(ps) : \A x \in sets[i] : x = ps[i]
  OBVIOUS
<1> HIDE DEF sets, w
<1>4. /\ IsSeq(w) /\ ToSet(w) = UNION {sets[i] : i \in Places(ps)}
      /\ \A k \in Places(w) : w[k] \in ToSet(w)
  BY <1>1, <1>2, Gathered
<1>5. w # <<>> => 1 \in Places(w)
  BY <1>4 DEF IsSeq, Places
<1>6. \A k \in Places(w) : \E i \in Places(ps) : w[k] = ps[i]
  BY <1>3, <1>4
<1> QED
  BY <1>5, <1>6 DEF w

LEMMA RecordsAreListed ==
    ASSUME NEW events, IsList(events), NEW readers
    PROVE  IsList(RecordsOf(events, readers))
<1> DEFINE Ended(i) ==
             LET s == readers[i] IN
             IF /\ events[i][1] = "end"
                /\ s.icao # None /\ s.rec.pdf_name # None
                /\ s.rec.chart_code \in WantedChartCodes
             THEN {[icao |-> s.icao, chart_code |-> s.rec.chart_code, chart_name |-> s.rec.chart_name,
                    pdf_name |-> s.rec.pdf_name, faanfd18 |-> s.rec.faanfd18]} ELSE {}
           ids == [i \in Places(events) |-> i]
           sets == [i \in Places(ids) |-> Ended(i)]
<1>1. IsList(ids) /\ Places(ids) = Places(events)
  BY DEF Places, IsList
<1>2. RecordsOf(events, readers) = FlattenSeq([i \in Places(ids) |-> SetToSeq(sets[i])])
  BY <1>1 DEF RecordsOf, FilterMap
<1>3. \A i \in Places(ids) : IsFiniteSet(sets[i])
  BY FS_EmptySet, FS_Singleton
<1> HIDE DEF ids, sets
<1> QED
  BY <1>1, <1>2, <1>3, Gathered

LEMMA ProceduresAreRows ==
    ASSUME NEW db, IsFiniteSet(DOMAIN db.procedure)
    PROVE  /\ IsList(ProcedureRows(db))
           /\ \A i \in Places(ProcedureRows(db)) : \E p \in DOMAIN db.procedure :
                ProcedureRows(db)[i].airport = p[1] /\ ProcedureRows(db)[i].ident = p[3]
<1> DEFINE ids == SetToSeq(DOMAIN db.procedure)
           n == Cardinality(DOMAIN db.procedure)
           rows == ProcedureRows(db)
<1>1. ids \in [1..n -> DOMAIN db.procedure] /\ n \in Nat
  BY SetToSeqIs
<1>2. rows = [i \in Places(ids) |-> [airport |-> ids[i][1], kind |-> ids[i][2], ident |-> ids[i][3],
                                     runway |-> db.procedure[ids[i]]]]
  BY DEF ProcedureRows, MapSeq
<1> HIDE DEF ids, n, rows
<1>3. Places(ids) = 1..n
  BY <1>1 DEF Places
<1>4. Len(rows) = n
  BY <1>1, <1>2, <1>3
<1>5. IsList(rows) /\ \A i \in Places(rows) : \E p \in DOMAIN db.procedure : rows[i].airport = p[1] /\ rows[i].ident = p[3]
  BY <1>1, <1>2, <1>3, <1>4 DEF IsList, Places
<1> QED
  BY <1>5 DEF rows

LEMMA PlatesAreMatched ==
    ASSUME NEW events, IsList(events), NEW cycle, NEW db, IsFiniteSet(DOMAIN db.procedure),
           \A p \in DOMAIN db.procedure : p[1] \in DOMAIN db.airport
    PROVE  LET rows == MatchDtppCharts(events, ProcedureRows(db), DOMAIN db.airport, cycle) IN
           IsSeq(rows) /\ \A i \in Places(rows) : PlateOf(db, rows[i])
<1> DEFINE ps == ProcedureRows(db)
           records == ParseDtppRecords(events)
           Own(icao) == Where(ps, LAMBDA p : p.airport = icao)
           Row(r, ident) == [airport |-> r.icao, procedure |-> ident, pdf |-> r.pdf_name, cycle |-> cycle]
           fits(r) == MatchRecord(r, Own(r.icao))
           Match(r) ==
             CASE r.chart_code = "APD" ->
                    IF IsAirportDiagramInBundle(r, DOMAIN db.airport) THEN {Row(r, AirportDiagramIdent)} ELSE {}
               [] r.chart_code # "APD" ->
                    IF fits(r) = <<>> THEN {} ELSE {Row(r, fits(r)[1].ident)}
           sets == [i \in Places(records) |-> Match(records[i])]
           rows == MatchDtppCharts(events, ps, DOMAIN db.airport, cycle)
<1>1. IsList(records)
  <2> DEFINE readers == ReadersOf(events, LAMBDA rec : NoRecord)
  <2>1. records = RecordsOf(events, readers)
    BY DEF ParseDtppRecords
  <2> HIDE DEF readers, records
  <2> QED BY <2>1, RecordsAreListed
<1>2. rows = FlattenSeq([i \in Places(records) |-> SetToSeq(sets[i])])
  BY DEF MatchDtppCharts, FilterMap
<1> HIDE DEF records, rows
<1>3. /\ IsList(ps)
      /\ \A i \in Places(ps) : \E p \in DOMAIN db.procedure : ps[i].airport = p[1] /\ ps[i].ident = p[3]
  BY ProceduresAreRows
<1> HIDE DEF ps
<1>4. ASSUME NEW icao
      PROVE  IsList(Own(icao)) /\ \A k \in Places(Own(icao)) : \E i \in Places(ps) : Own(icao)[k] = ps[i] /\ ps[i].airport = icao
  <2> DEFINE own == Own(icao)
             mine == [i \in Places(ps) |-> IF ps[i].airport = icao THEN {ps[i]} ELSE {}]
  <2>1. \A i \in Places(ps) : IsFiniteSet(mine[i])
    BY FS_EmptySet, FS_Singleton
  <2>2. own = FlattenSeq([i \in Places(ps) |-> SetToSeq(mine[i])])
    BY DEF Where, FilterMap
  <2>3. \A i \in Places(ps) : \A x \in mine[i] : x = ps[i] /\ x.airport = icao
    OBVIOUS
  <2> HIDE DEF own, mine
  <2>4. /\ IsList(own) /\ ToSet(own) = UNION {mine[i] : i \in Places(ps)}
        /\ \A k \in Places(own) : own[k] \in ToSet(own)
    BY <1>3, <2>1, <2>2, Gathered
  <2>5. \A k \in Places(own) : \E i \in Places(ps) : own[k] = ps[i] /\ ps[i].airport = icao
    BY <2>3, <2>4
  <2> QED BY <2>4, <2>5 DEF own
<1> HIDE DEF Own
<1>5. ASSUME NEW r, fits(r) # <<>>
      PROVE  \E p \in DOMAIN db.procedure : p[1] = r.icao /\ p[3] = fits(r)[1].ident
  <2>1. IsList(Own(r.icao))
    BY <1>4
  <2>2. 1 \in Places(fits(r)) /\ \E k \in Places(Own(r.icao)) : fits(r)[1] = Own(r.icao)[k]
    BY <1>5, <2>1, MatchesAreAmong
  <2> HIDE DEF fits
  <2>3. PICK k \in Places(Own(r.icao)) : fits(r)[1] = Own(r.icao)[k]
    BY <2>2
  <2>4. PICK i \in Places(ps) : Own(r.icao)[k] = ps[i] /\ ps[i].airport = r.icao
    BY <1>4
  <2> QED BY <1>3, <2>3, <2>4
<1> HIDE DEF fits
<1>6. ASSUME NEW r PROVE IsFiniteSet(Match(r)) /\ \A x \in Match(r) : PlateOf(db, x)
  <2>1. CASE r.chart_code = "APD"
    <3>1. Match(r) = {} \/ (r.icao \in DOMAIN db.airport /\ Match(r) = {Row(r, AirportDiagramIdent)})
      BY <2>1 DEF IsAirportDiagramInBundle
    <3> HIDE DEF Match
    <3>2. CASE Match(r) = {}
      BY <3>2, FS_EmptySet
    <3>3. CASE r.icao \in DOMAIN db.airport /\ Match(r) = {Row(r, AirportDiagramIdent)}
      <4>1. PlateOf(db, Row(r, AirportDiagramIdent))
        BY <3>3 DEF PlateOf
      <4> QED BY <3>3, <4>1, FS_Singleton
    <3> QED BY <3>1, <3>2, <3>3
  <2>2. CASE r.chart_code # "APD"
    <3>1. Match(r) = {} \/ (fits(r) # <<>> /\ Match(r) = {Row(r, fits(r)[1].ident)})
      BY <2>2
    <3> HIDE DEF Match
    <3>2. CASE Match(r) = {}
      BY <3>2, FS_EmptySet
    <3>3. CASE fits(r) # <<>> /\ Match(r) = {Row(r, fits(r)[1].ident)}
      <4>1. PICK p \in DOMAIN db.procedure : p[1] = r.icao /\ p[3] = fits(r)[1].ident
        BY <1>5, <3>3
      <4>2. PlateOf(db, Row(r, fits(r)[1].ident))
        BY <4>1 DEF PlateOf
      <4> QED BY <3>3, <4>2, FS_Singleton
    <3> QED BY <3>1, <3>2, <3>3
  <2> QED BY <2>1, <2>2
<1> HIDE DEF Match
<1>7. \A i \in Places(records) : IsFiniteSet(sets[i]) /\ \A x \in sets[i] : PlateOf(db, x)
  BY <1>6
<1> HIDE DEF sets
<1>8. /\ IsSeq(rows) /\ ToSet(rows) = UNION {sets[i] : i \in Places(records)}
      /\ \A k \in Places(rows) : rows[k] \in ToSet(rows)
  BY <1>1, <1>2, <1>7, Gathered
<1>9. \A k \in Places(rows) : PlateOf(db, rows[k])
  BY <1>7, <1>8
<1> QED
  BY <1>8, <1>9 DEF rows, ps

---------------------------------------------------------------------------
(* The inductive invariant.                                                *)

JobKeys == {"step", "at", "feed", "date", "db", "airports", "charts", "todo", "files"}

Tables == DOMAIN EmptyBundle

IsBundle(db) == DOMAIN db = Tables /\ AreByIdent(db.airport)

(* A run at any of its steps: which cycle it is of once the sources have   *)
(* told, the count in step with the bundle, the archives in step with the  *)
(* catalogue.                                                              *)
IsJob(j, run) ==
    /\ DOMAIN j = JobKeys
    /\ j.feed \in DOMAIN Feeds
    /\ j.step \in {"fetch", "failed"} \/ j.date \in Cycles
    /\ j.step \in {"fetch", "build", "failed"} \/ j.db.cycle = {j.date}
    /\ j.step \in {"fetch", "build"} => j.files = <<>>
    /\ j.step = "build" => FetchCifp(Feeds[j.feed].cifp) # None
    /\ j.step = "failed" => j.at \notin {"routes", "plates"}
    /\ IsBundle(j.db)
    /\ j.airports = AirportCount(j.db)
    /\ Catalogued(j.db.chart, j.files, run)

JobInv == job # None => IsJob(job, runs)

Publishing == {"publish", "bundle", "archives", "archive", "pointer"}

Writing == Publishing \ {"publish"}

Copying == {"archives", "archive", "pointer"}

During(steps) == job # None /\ job.step \in steps

IsSound(db) ==
    /\ \A a \in DOMAIN db.airport : Aixm!Plausible(db.airport[a].lat, db.airport[a].lon)
    /\ \A s \in DOMAIN db.source : db.source[s] # None

SoundInv == During(Publishing) => IsSound(job.db)

DiskInv ==
    /\ DOMAIN published = Cycles
    /\ \A c \in Cycles :
         /\ DOMAIN published[c] = {"db", "files"}
         /\ published[c].db = Torn => c \in interrupted
         /\ published[c].db \notin {Absent, Torn} => IsBundle(published[c].db)

(* While archives are copied: each is still to do or lies on disk whole.   *)
CopyInv ==
    /\ During(Writing) => job.date \in interrupted
    /\ During(Copying) =>
         LET onDisk == published[job.date].files IN
         /\ published[job.date].db = job.db
         /\ IsSeq(job.todo)
         /\ \A f \in ToSet(job.todo) : f[2] = <<f[1], runs>>
         /\ \A f \in ToSet(job.files) :
              \/ \E g \in ToSet(job.todo) : g[1] = f[1]
              \/ f[1] \in DOMAIN onDisk /\ onDisk[f[1]] = <<f[1], runs>>
         /\ job.step = "archive" => job.todo # <<>>
         /\ job.step = "pointer" => job.todo = <<>>

PointerInv ==
    /\ pointer \in {Absent, Torn} \/ pointer.cycle \in Cycles
    /\ request = None \/ request \in Cycles

(* What the pointer names is what was served last, and what is about to be *)
(* published is no less than half of it.                                   *)
ServedInv ==
    /\ served = None \/ served \in Nat
    /\ pointer = Absent => served = None
    /\ pointer \notin {Absent, Torn} =>
         /\ LatestBundle # Absent
         /\ LatestBundle # Torn => served = AirportCount(LatestBundle)
    /\ During(Publishing) /\ served # None => AirportCount(job.db) * 2 >= served

Inv ==
    /\ JobInv /\ SoundInv /\ DiskInv /\ CopyInv /\ PointerInv /\ ServedInv
    /\ BundlesAreSound /\ CatalogueIsOnDisk

LEMMA Apart ==
    /\ Absent # Torn
    /\ \A db : DOMAIN db = Tables => db # Absent /\ db # Torn
    /\ \A chart : [charts |-> chart] # Torn
    /\ \A c, f : [cycle |-> c, files |-> f] # Absent /\ [cycle |-> c, files |-> f] # Torn
    /\ \A c \in Cycles : c # None
<1>1. DOMAIN Absent = {"absent"} /\ DOMAIN Torn = {"torn"}
  BY DEF Absent, Torn
<1>2. {"airport", "chart"} \subseteq Tables
  BY DEF Tables, EmptyBundle
<1>3. \A chart : DOMAIN [charts |-> chart] = {"charts"}
  OBVIOUS
<1>4. \A c, f : DOMAIN [cycle |-> c, files |-> f] = {"cycle", "files"}
  OBVIOUS
<1>5. \A c \in Cycles : c # None
  BY CyclesAreDates, NoneIsNoField
<1>6. Absent # Torn
  BY <1>1
<1>7. \A db : DOMAIN db = Tables => db # Absent /\ db # Torn
  BY <1>1, <1>2
<1>8. \A chart : [charts |-> chart] # Torn
  BY <1>1, <1>3
<1>9. \A c, f : [cycle |-> c, files |-> f] # Absent /\ [cycle |-> c, files |-> f] # Torn
  BY <1>1, <1>4
<1> QED
  BY <1>5, <1>6, <1>7, <1>8, <1>9

(* The part of the catalogue's invariant that is about one cycle.          *)
IsWhole(c, files) ==
    /\ c.db # Torn
    /\ {c.db.chart[id].file : id \in DOMAIN c.db.chart} = ToSet(files)
    /\ \A id \in DOMAIN c.db.chart : c.files[c.db.chart[id].file] = c.db.chart[id].sha256

CatalogueOf(ptr, torn, dirs) ==
    Named(ptr) # None /\ Named(ptr) \notin torn => IsWhole(dirs[ptr.cycle], ptr.files)

LEMMA CatalogueMeans ==
    /\ CatalogueIsOnDisk <=> CatalogueOf(pointer, interrupted, published)
    /\ CatalogueIsOnDisk' <=> CatalogueOf(pointer', interrupted', published')
BY DEF CatalogueIsOnDisk, CatalogueOf, IsWhole, Named

LEMMA InitInv == Init => Inv
<1> SUFFICES ASSUME Init PROVE Inv
  OBVIOUS
<1> USE DEF Init
<1>1. JobInv /\ SoundInv /\ CopyInv
  BY DEF JobInv, SoundInv, CopyInv, During
<1>2. DiskInv /\ BundlesAreSound
  BY Apart DEF DiskInv, BundlesAreSound
<1>3. PointerInv /\ ServedInv /\ CatalogueIsOnDisk
  BY DEF PointerInv, ServedInv, CatalogueIsOnDisk, Named, During
<1> QED
  BY <1>1, <1>2, <1>3 DEF Inv

(* A step that leaves the directory alone and is not one of publication    *)
(* keeps whatever holds of the directory.                                  *)
LEMMA QuietSteps ==
    ASSUME Inv, UNCHANGED disk, JobInv', job' = None \/ job'.step \notin Publishing
    PROVE  Inv'
<1> USE DEF disk, Inv
<1>1. SoundInv' /\ CopyInv'
  BY DEF SoundInv, CopyInv, During, Writing, Copying, Publishing
<1>2. DiskInv' /\ PointerInv' /\ BundlesAreSound'
  BY DEF DiskInv, PointerInv, BundlesAreSound
<1>3. CatalogueIsOnDisk'
  BY CatalogueMeans
<1>4. ServedInv'
  BY DEF ServedInv, LatestBundle, During
<1> QED
  BY <1>1, <1>2, <1>3, <1>4

LEMMA FailKeepsJob ==
    ASSUME NEW j, NEW run, IsJob(j, run), j.step \notin {"routes", "plates"}
    PROVE  /\ IsJob([j EXCEPT !.step = "failed", !.at = j.step], run)
           /\ [j EXCEPT !.step = "failed", !.at = j.step].step = "failed"
BY DEF IsJob, JobKeys

(* A later step: only the tables other than airports change.               *)
LEMMA LaterStep ==
    ASSUME NEW j, NEW run, IsJob(j, run), j.step \notin {"fetch", "build", "failed"},
           NEW db, DOMAIN db = Tables, db.airport = j.db.airport, db.cycle = j.db.cycle, db.chart = j.db.chart,
           NEW step, step \notin {"fetch", "build", "failed"},
           NEW k, DOMAIN k = JobKeys, k.db = db, k.step = step, k.feed = j.feed, k.date = j.date,
           k.airports = j.airports, k.files = j.files
    PROVE  IsJob(k, run)
BY DEF IsJob, IsBundle, AirportCount

---------------------------------------------------------------------------
(* The steps that build a bundle.                                          *)

LEMMA EmptyIsGood ==
    /\ IsBundle(EmptyBundle) /\ AirportCount(EmptyBundle) = 0 /\ EmptyBundle.cycle = {}
    /\ \A run : Catalogued(EmptyBundle.chart, <<>>, run)
<1>1. EmptyBundle.airport = <<>> /\ EmptyBundle.chart = <<>> /\ EmptyBundle.cycle = {}
  BY DEF EmptyBundle
<1>2. DOMAIN <<>> = {}
  OBVIOUS
<1>3. AreByIdent(<<>>) /\ Cardinality(DOMAIN <<>>) = 0
  BY <1>2, FS_EmptySet DEF AreByIdent
<1>4. IsSeq(<<>>) /\ ToSet(<<>>) = {}
  BY DEF IsSeq, ToSet
<1>5. \A run : Catalogued(<<>>, <<>>, run)
  BY <1>2, <1>4 DEF Catalogued
<1> QED
  BY <1>1, <1>3, <1>5 DEF IsBundle, AirportCount, Tables

LEMMA StartKeeps == ASSUME Inv, NEW feed \in DOMAIN Feeds, Start(feed) PROVE Inv'
<1>1. job'.step = "fetch" /\ UNCHANGED disk
  BY DEF Start
<1>2. IsJob(job', runs')
  BY EmptyIsGood DEF Start, IsJob, JobKeys
<1> QED
  BY <1>1, <1>2, QuietSteps DEF JobInv, Publishing

LEMMA FetchKeeps == ASSUME Inv, FetchSources PROVE Inv'
<1>1. IsJob(job, runs) /\ job.step = "fetch"
  BY DEF Inv, JobInv, FetchSources, Stage
<1>2. UNCHANGED disk /\ runs' = runs
  BY DEF FetchSources
<1>3. CASE Fail
  BY <1>1, <1>2, <1>3, FailKeepsJob, QuietSteps DEF Fail, JobInv, Publishing
<1>4. CASE ~Fail
  <2> DEFINE cifp == FetchCifp(Found.cifp)
  <2>1. cifp # None /\ job' = [job EXCEPT !.date = cifp.date, !.step = "build"]
    <3>1. CASE cifp = None
      BY <1>4, <3>1 DEF FetchSources
    <3>2. CASE cifp # None
      BY <1>4, <3>2 DEF FetchSources
    <3> QED BY <3>1, <3>2
  <2>2. cifp.date \in Cycles
    BY <1>1, <2>1, CifpIsRead DEF Found, IsJob
  <2>3. IsJob(job', runs)
    <3>1. FetchCifp(Feeds[job.feed].cifp) # None
      BY <2>1 DEF Found
    <3> HIDE DEF cifp
    <3> QED BY <1>1, <2>1, <2>2, <3>1 DEF IsJob, JobKeys
  <2> HIDE DEF cifp
  <2>4. job'.step = "build"
    BY <1>1, <2>1 DEF IsJob, JobKeys
  <2> QED BY <1>2, <2>3, <2>4, QuietSteps DEF JobInv, Publishing
<1> QED
  BY <1>3, <1>4

LEMMA FailingKeeps ==
    ASSUME Inv, job # None, job.step \notin {"routes", "plates"}, Fail, UNCHANGED disk, UNCHANGED runs
    PROVE  Inv'
<1>1. IsJob(job, runs)
  BY DEF Inv, JobInv
<1> QED
  BY <1>1, FailKeepsJob, QuietSteps DEF Fail, JobInv, Publishing

LEMMA ContinuingKeeps ==
    ASSUME Inv, job # None, job.step \notin {"fetch", "build", "failed"}, UNCHANGED disk, UNCHANGED runs,
           NEW db, DOMAIN db = Tables, db.airport = job.db.airport, db.cycle = job.db.cycle, db.chart = job.db.chart,
           NEW step, step \notin {"fetch", "build", "failed"}, step \notin Publishing,
           DOMAIN job' = JobKeys, job'.db = db, job'.step = step, job'.feed = job.feed, job'.date = job.date,
           job'.airports = job.airports, job'.files = job.files
    PROVE  Inv'
<1>1. IsJob(job, runs)
  BY DEF Inv, JobInv
<1>2. IsJob(job', runs)
  <2> DEFINE k == job'
  <2>1. /\ DOMAIN k = JobKeys /\ k.db = db /\ k.step = step /\ k.feed = job.feed /\ k.date = job.date
        /\ k.airports = job.airports /\ k.files = job.files
    OBVIOUS
  <2> HIDE DEF k
  <2>2. IsJob(k, runs)
    BY <1>1, <2>1, LaterStep
  <2> QED BY <2>2 DEF k
<1> QED
  BY <1>2, QuietSteps DEF JobInv

LEMMA BuildKeeps == ASSUME Inv, Build PROVE Inv'
<1>1. IsJob(job, runs) /\ job # None /\ job.step = "build" /\ UNCHANGED disk /\ runs' = runs
  BY DEF Inv, JobInv, Build, Stage
<1> DEFINE cifp == FetchCifp(Found.cifp)
           lines == cifp.file
           nasr == FetchNasr(Found.nasr, job.date)
<1>2. CASE Fail
  BY <1>1, <1>2, FailingKeeps
<1>3. CASE ~Fail
  <2>1. PICK db \in BuildBundle(lines, nasr, None, RunwayOf) :
           db # None /\ job' = [job EXCEPT !.db = AddAiracCycle(db, job.date),
                                           !.airports = Cardinality(DOMAIN db.airport), !.step = "airspace"]
    BY <1>3 DEF Build
  <2>2. IsList(lines)
    BY <1>1, CifpIsRead DEF IsJob, Found
  <2>3. DOMAIN db = Tables /\ AreByIdent(db.airport) /\ db.cycle = {} /\ db.chart = <<>>
    <3> HIDE DEF lines, nasr
    <3> QED BY <2>1, <2>2, BuildBundleIs DEF Tables
  <2> DEFINE all == AddAiracCycle(db, job.date)
  <2>4. /\ DOMAIN all = Tables /\ all.airport = db.airport /\ all.chart = <<>> /\ all.cycle = {job.date}
    BY <2>3 DEF AddAiracCycle, Tables, EmptyBundle
  <2> HIDE DEF all
  <2>5. Catalogued(all.chart, job.files, runs)
    <3>1. job.files = <<>>
      BY <1>1 DEF IsJob
    <3>2. Catalogued(<<>>, <<>>, runs)
      BY EmptyIsGood DEF EmptyBundle
    <3> QED BY <2>4, <3>1, <3>2
  <2>6. IsJob(job', runs)
    BY <1>1, <2>1, <2>3, <2>4, <2>5 DEF IsJob, JobKeys, IsBundle, AirportCount, all
  <2>7. job'.step = "airspace"
    BY <1>1, <2>1 DEF IsJob, JobKeys
  <2> QED BY <1>1, <2>6, <2>7, QuietSteps DEF JobInv, Publishing
<1> QED
  BY <1>2, <1>3

LEMMA AirspaceTable ==
    ASSUME NEW db, NEW volumes, AddAirspace(db, volumes) # None
    PROVE  \E table : AddAirspace(db, volumes) = [db EXCEPT !.airspace = table]
BY DEF AddAirspace

LEMMA BoundariesKeep == ASSUME Inv, AddBoundaries PROVE Inv'
<1>1. IsJob(job, runs) /\ job # None /\ job.step = "airspace" /\ UNCHANGED disk /\ runs' = runs
  BY DEF Inv, JobInv, AddBoundaries, Stage
<1>2. CASE Fail
  BY <1>1, <1>2, FailingKeeps
<1>3. CASE ~Fail
  <2>1. PICK volumes : AddAirspace(job.db, volumes) # None /\
                       job' = [job EXCEPT !.db = AddAirspace(job.db, volumes), !.step = "export"]
    BY <1>3 DEF AddBoundaries, Continue
  <2> DEFINE db == AddAirspace(job.db, volumes)
  <2>2. DOMAIN db = Tables /\ db.airport = job.db.airport /\ db.cycle = job.db.cycle /\ db.chart = job.db.chart
    <3>1. PICK table : db = [job.db EXCEPT !.airspace = table]
      BY <2>1, AirspaceTable
    <3> HIDE DEF db
    <3> QED BY <1>1, <3>1 DEF IsJob, IsBundle, Tables, EmptyBundle
  <2> HIDE DEF db
  <2>3. /\ DOMAIN job' = JobKeys /\ job'.db = db /\ job'.step = "export" /\ job'.feed = job.feed
        /\ job'.date = job.date /\ job'.airports = job.airports /\ job'.files = job.files
    BY <1>1, <2>1 DEF IsJob, JobKeys, db
  <2> QED BY <1>1, <2>2, <2>3, ContinuingKeeps DEF Publishing
<1> QED
  BY <1>2, <1>3

(* The count goes with the airports: those the bundle has not yet.         *)
LEMMA ExtendKeeps ==
    ASSUME Inv, job # None, job.step \notin {"fetch", "build", "failed"}, UNCHANGED disk, UNCHANGED runs,
           NEW airports, IsList(airports), NEW volumes, NEW db,
           DOMAIN db = Tables, db.airport = Ignoring(job.db.airport, airports),
           db.cycle = job.db.cycle, db.chart = job.db.chart,
           NEW step, step \notin {"fetch", "build", "failed"}, step \notin Publishing,
           job.step \notin {"routes", "plates"},
           Extend(db, airports, volumes, step)
    PROVE  Inv'
<1>1. IsJob(job, runs)
  BY DEF Inv, JobInv
<1>2. CASE Fail
  BY <1>2, FailingKeeps
<1>3. CASE ~Fail
  <2> DEFINE all == AddAirspace(db, volumes)
             new == {airports[i].icao : i \in Places(airports)} \ DOMAIN job.db.airport
  <2>1. all # None /\ job' = [job EXCEPT !.db = all, !.airports = @ + Cardinality(new), !.step = step]
    <3>1. CASE all = None
      BY <1>3, <3>1 DEF Extend
    <3>2. CASE all # None
      BY <1>3, <3>2 DEF Extend, NetNew
    <3> QED BY <3>1, <3>2
  <2>2. PICK table : all = [db EXCEPT !.airspace = table]
    BY <2>1, AirspaceTable
  <2> HIDE DEF all
  <2>3. DOMAIN all = Tables /\ all.airport = Ignoring(job.db.airport, airports)
        /\ all.cycle = job.db.cycle /\ all.chart = job.db.chart
    BY <2>2 DEF Tables, EmptyBundle
  <2>4. AreByIdent(all.airport) /\ Cardinality(DOMAIN all.airport) = Cardinality(DOMAIN job.db.airport) + Cardinality(new)
    <3>1. AreByIdent(job.db.airport)
      BY <1>1 DEF IsJob, IsBundle
    <3>2. /\ AreByIdent(Ignoring(job.db.airport, airports))
          /\ Cardinality(DOMAIN Ignoring(job.db.airport, airports)) = Cardinality(DOMAIN job.db.airport) + Cardinality(new)
      BY <3>1, IgnoringCounts
    <3> HIDE DEF new
    <3> QED BY <2>3, <3>2
  <2> HIDE DEF new
  <2> DEFINE k == job'
  <2>5. /\ DOMAIN k = JobKeys /\ k.db = all /\ k.step = step /\ k.feed = job.feed /\ k.date = job.date
        /\ k.airports = job.airports + Cardinality(new) /\ k.files = job.files
    BY <1>1, <2>1 DEF IsJob, JobKeys
  <2> HIDE DEF k
  <2>6. IsJob(k, runs)
    BY <1>1, <2>3, <2>4, <2>5 DEF IsJob, IsBundle, AirportCount
  <2> QED BY <2>5, <2>6, QuietSteps DEF JobInv, k
<1> QED
  BY <1>2, <1>3

LEMMA ExportKeeps == ASSUME Inv, AddExport PROVE Inv'
<1>1. IsJob(job, runs) /\ job # None /\ job.step = "export" /\ UNCHANGED disk /\ runs' = runs
  BY DEF Inv, JobInv, AddExport, Stage
<1> DEFINE data == Aixm!LoadAixm(Found.export, "LF")
           db == AddAixm(job.db, data)
<1>2. CASE data = None
  <2>1. Continue(job.db, "community")
    BY <1>2 DEF AddExport
  <2>2. CASE Fail
    BY <1>1, <2>2, FailingKeeps
  <2>3. CASE ~Fail
    <3>1. /\ DOMAIN job' = JobKeys /\ job'.db = job.db /\ job'.step = "community" /\ job'.feed = job.feed
          /\ job'.date = job.date /\ job'.airports = job.airports /\ job'.files = job.files
      BY <1>1, <2>1, <2>3 DEF Continue, IsJob, JobKeys
    <3>2. DOMAIN job.db = Tables
      BY <1>1 DEF IsJob, IsBundle
    <3> QED BY <1>1, <3>1, <3>2, ContinuingKeeps DEF Publishing
  <2> QED BY <2>2, <2>3
<1>3. CASE data # None /\ data.effective = None
  <2>1. Fail
    BY <1>3 DEF AddExport
  <2> QED BY <1>1, <2>1, FailingKeeps
<1>4. CASE data # None /\ data.effective # None
  <2>1. Extend(db, data.airports, data.airspaces, "community")
    BY <1>4 DEF AddExport
  <2>2. IsList(data.airports)
    BY <1>1, <1>4, ExportIsRead DEF IsJob, Found
  <2> HIDE DEF data
  <2>3. /\ DOMAIN db = Tables /\ db.airport = Ignoring(job.db.airport, data.airports)
        /\ db.cycle = job.db.cycle /\ db.chart = job.db.chart
    <3>1. DOMAIN job.db = Tables
      BY <1>1 DEF IsJob, IsBundle
    <3>2. db = [job.db EXCEPT !.airport = Ignoring(@, data.airports), !.runway = db.runway, !.navaid = db.navaid,
                              !.waypoint = db.waypoint, !.airway = db.airway, !.source = db.source]
      BY <3>1 DEF AddAixm, Tables, EmptyBundle
    <3> HIDE DEF db
    <3> QED BY <3>1, <3>2 DEF Tables, EmptyBundle
  <2> HIDE DEF db
  <2> QED BY <1>1, <2>1, <2>2, <2>3, ExtendKeeps DEF Publishing
<1> QED
  BY <1>2, <1>3, <1>4

LEMMA CommunityKeeps == ASSUME Inv, AddCommunity PROVE Inv'
<1>1. IsJob(job, runs) /\ job # None /\ job.step = "community" /\ UNCHANGED disk /\ runs' = runs
  BY DEF Inv, JobInv, AddCommunity, Stage
<1> DEFINE loaded == OpenAip!LoadConfigured(Found.states, Found.listings)
           db == AddOpenAip(job.db, loaded.airports, loaded.navaids, job.date)
<1>2. CASE ~Found.key
  <2>1. Continue(job.db, "routes")
    BY <1>2 DEF AddCommunity
  <2>2. CASE Fail
    BY <1>1, <2>2, FailingKeeps
  <2>3. CASE ~Fail
    <3>1. /\ DOMAIN job' = JobKeys /\ job'.db = job.db /\ job'.step = "routes" /\ job'.feed = job.feed
          /\ job'.date = job.date /\ job'.airports = job.airports /\ job'.files = job.files
      BY <1>1, <2>1, <2>3 DEF Continue, IsJob, JobKeys
    <3>2. DOMAIN job.db = Tables
      BY <1>1 DEF IsJob, IsBundle
    <3> QED BY <1>1, <3>1, <3>2, ContinuingKeeps DEF Publishing
  <2> QED BY <2>2, <2>3
<1>3. CASE Found.key /\ loaded = None
  <2>1. Fail
    BY <1>3 DEF AddCommunity
  <2> QED BY <1>1, <2>1, FailingKeeps
<1>4. CASE Found.key /\ loaded # None
  <2>1. Extend(db, loaded.airports, loaded.airspaces, "routes")
    BY <1>4 DEF AddCommunity
  <2>2. IsList(loaded.airports)
    BY <1>1, <1>4, CommunityIsRead DEF IsJob, Found
  <2> HIDE DEF loaded
  <2>3. /\ DOMAIN db = Tables /\ db.airport = Ignoring(job.db.airport, loaded.airports)
        /\ db.cycle = job.db.cycle /\ db.chart = job.db.chart
    <3>1. DOMAIN job.db = Tables
      BY <1>1 DEF IsJob, IsBundle
    <3> QED BY <3>1 DEF AddOpenAip, Tables, EmptyBundle
  <2> HIDE DEF db
  <2> QED BY <1>1, <2>1, <2>2, <2>3, ExtendKeeps DEF Publishing
<1> QED
  BY <1>2, <1>3, <1>4

LEMMA RoutesKeep == ASSUME Inv, AddRoutes PROVE Inv'
<1>1. IsJob(job, runs) /\ job # None /\ job.step = "routes" /\ UNCHANGED disk /\ runs' = runs
  BY DEF Inv, JobInv, AddRoutes, Stage
<1> DEFINE routes == FetchAndParse(Found.pfr, Found.cdr, AirportRows(job.db))
           db == AddPreferredRoutes(job.db, routes)
<1>2. RoutesHaveAirports(job.db, routes)
  BY <1>1, RoutesAreAnswered DEF IsJob, IsBundle, Found
<1>3. job' = [job EXCEPT !.db = db, !.step = "plates"]
  BY <1>2 DEF AddRoutes
<1> HIDE DEF routes
<1>4. DOMAIN db = Tables /\ db.airport = job.db.airport /\ db.cycle = job.db.cycle /\ db.chart = job.db.chart
  BY <1>1 DEF AddPreferredRoutes, IsJob, IsBundle, Tables, EmptyBundle
<1> HIDE DEF db
<1>5. /\ DOMAIN job' = JobKeys /\ job'.db = db /\ job'.step = "plates" /\ job'.feed = job.feed
      /\ job'.date = job.date /\ job'.airports = job.airports /\ job'.files = job.files
  BY <1>1, <1>3 DEF IsJob, JobKeys
<1> QED
  <2> DEFINE k == job'
  <2>1. IsJob(k, runs)
    <3> HIDE DEF k
    <3>1. /\ DOMAIN k = JobKeys /\ k.db = db /\ k.step = "plates" /\ k.feed = job.feed /\ k.date = job.date
          /\ k.airports = job.airports /\ k.files = job.files
      BY <1>5 DEF k
    <3> QED BY <1>1, <1>4, <3>1, LaterStep
  <2> QED BY <1>1, <1>5, <2>1, QuietSteps DEF JobInv, Publishing

LEMMA PlatesKeep == ASSUME Inv, AddPlates PROVE Inv'
<1>1. IsJob(job, runs) /\ job # None /\ job.step = "plates" /\ UNCHANGED disk /\ runs' = runs
  BY DEF Inv, JobInv, AddPlates, Stage
<1> DEFINE db == job'.db
<1>2. DOMAIN db = Tables /\ db.airport = job.db.airport /\ db.cycle = job.db.cycle /\ db.chart = job.db.chart
  <2>1. \/ db = job.db
        \/ \E charts : db = AddDtppCharts(job.db, charts)
    BY <1>1 DEF AddPlates, IsJob, JobKeys
  <2> HIDE DEF db
  <2>2. CASE db = job.db
    BY <1>1, <2>2 DEF IsJob, IsBundle
  <2>3. CASE \E charts : db = AddDtppCharts(job.db, charts)
    BY <1>1, <2>3 DEF AddDtppCharts, IsJob, IsBundle, Tables, EmptyBundle
  <2> QED BY <2>1, <2>2, <2>3
<1>3. /\ DOMAIN job' = JobKeys /\ job'.step = "charts" /\ job'.feed = job.feed
      /\ job'.date = job.date /\ job'.airports = job.airports /\ job'.files = job.files
  BY <1>1 DEF AddPlates, IsJob, JobKeys
<1>4. job'.db = db
  OBVIOUS
<1> HIDE DEF db
<1> QED
  BY <1>1, <1>2, <1>3, <1>4, ContinuingKeeps DEF Publishing

LEMMA DiscoverKeeps == ASSUME Inv, DiscoverCharts PROVE Inv'
<1>1. IsJob(job, runs) /\ job # None /\ job.step = "charts" /\ UNCHANGED disk /\ runs' = runs
  BY DEF Inv, JobInv, DiscoverCharts, Stage
<1>2. CASE Fail
  BY <1>1, <1>2, FailingKeeps
<1>3. CASE ~Fail
  <2>1. /\ DOMAIN job' = JobKeys /\ job'.db = job.db /\ job'.step = "sectional" /\ job'.feed = job.feed
        /\ job'.date = job.date /\ job'.airports = job.airports /\ job'.files = job.files
    BY <1>1, <1>3 DEF DiscoverCharts, IsJob, JobKeys
  <2>2. DOMAIN job.db = Tables
    BY <1>1 DEF IsJob, IsBundle
  <2> QED BY <1>1, <2>1, <2>2, ContinuingKeeps DEF Publishing
<1> QED
  BY <1>2, <1>3

LEMMA NextSeriesKeeps == ASSUME Inv, NextSeries PROVE Inv'
<1>1. IsJob(job, runs) /\ job # None /\ job.step \in Tiling /\ UNCHANGED disk /\ runs' = runs
  BY DEF Inv, JobInv, NextSeries
<1>2. CASE Fail
  BY <1>1, <1>2, FailingKeeps DEF Tiling
<1>3. CASE ~Fail
  <2> DEFINE next == CASE job.step = "sectional" -> "enroute" [] job.step = "enroute" -> "terminal" [] OTHER -> "validate"
  <2>1. \E todo, step : /\ step \in {"enroute", "terminal", "validate"}
                        /\ job' = [job EXCEPT !.step = step, !.todo = todo]
    <3>1. CASE job.step = "sectional"
      BY <1>3, <3>1 DEF NextSeries
    <3>2. CASE job.step = "enroute"
      BY <1>3, <3>2 DEF NextSeries
    <3>3. CASE job.step = "terminal"
      <4>1. job' = [job EXCEPT !.step = "validate"]
        BY <1>3, <3>3 DEF NextSeries
      <4>2. job' = [job EXCEPT !.step = "validate", !.todo = job.todo]
        BY <1>1, <4>1 DEF IsJob, JobKeys
      <4> QED BY <4>2
    <3> QED BY <1>1, <3>1, <3>2, <3>3 DEF Tiling
  <2>2. PICK todo, step : /\ step \in {"enroute", "terminal", "validate"}
                          /\ job' = [job EXCEPT !.step = step, !.todo = todo]
    BY <2>1
  <2>3. /\ DOMAIN job' = JobKeys /\ job'.db = job.db /\ job'.step = step /\ job'.feed = job.feed
        /\ job'.date = job.date /\ job'.airports = job.airports /\ job'.files = job.files
    BY <1>1, <2>2 DEF IsJob, JobKeys
  <2>4. DOMAIN job.db = Tables
    BY <1>1 DEF IsJob, IsBundle
  <2> QED BY <1>1, <2>2, <2>3, <2>4, ContinuingKeeps DEF Publishing, Tiling
<1> QED
  BY <1>2, <1>3

LEMMA TileKeeps == ASSUME Inv, TileChart PROVE Inv'
<1>1. IsJob(job, runs) /\ job # None /\ job.step \in Tiling /\ UNCHANGED disk /\ runs' = runs
  BY DEF Inv, JobInv, TileChart
<1> DEFINE parts == Parts(Head(job.todo), Found, job.charts.dates)
           Row(p) == [id |-> <<job.date, Slug(p)>>, kind |-> p.kind, file |-> Slug(p), sha256 |-> <<Slug(p), runs>>]
           rows == [i \in Places(parts) |-> Row(parts[i])]
           made == [i \in Places(parts) |-> <<Slug(parts[i]), <<Slug(parts[i]), runs>>>>]
           db == AddCharts(job.db, rows)
<1>2. CASE Fail
  BY <1>1, <1>2, FailingKeeps DEF Tiling
<1>3. CASE ~Fail
  <2>1. parts # None /\ db # None
        /\ job' = [job EXCEPT !.db = db, !.todo = Tail(@), !.files = @ \o made]
    <3>1. CASE parts = None
      BY <1>3, <3>1 DEF TileChart
    <3>2. CASE parts # None /\ db = None
      BY <1>3, <3>2 DEF TileChart, MapSeq
    <3>3. CASE parts # None /\ db # None
      BY <1>3, <3>3 DEF TileChart, MapSeq
    <3> QED BY <3>1, <3>2, <3>3
  <2>2. IsList(parts)
    BY <1>1, <2>1, PartsAreLists DEF IsJob, Found
  <2>3. PICK chart : db = [job.db EXCEPT !.chart = chart] /\ Catalogued(chart, job.files \o made, runs)
    <3> HIDE DEF parts
    <3>1. IsList(rows) /\ Places(rows) = Places(parts)
      BY <2>2 DEF IsList, Places
    <3>2. \A i \in Places(rows) : rows[i] = Row(parts[i])
      BY <3>1
    <3>3. /\ \A i \in Places(rows) : rows[i].sha256 = <<rows[i].file, runs>>
          /\ \A i, j \in Places(rows) : rows[i].id = rows[j].id => rows[i].file = rows[j].file
      <4> HIDE DEF rows
      <4>1. ASSUME NEW i \in Places(rows)
            PROVE  rows[i].sha256 = <<rows[i].file, runs>> /\ rows[i].id = <<job.date, rows[i].file>>
        <5>1. rows[i] = Row(parts[i])
          BY <3>2
        <5>2. rows[i].file = Slug(parts[i])
          BY <5>1
        <5> QED BY <5>1, <5>2
      <4>2. \A i, j \in Places(rows) : rows[i].id = rows[j].id => rows[i].file = rows[j].file
        <5> SUFFICES ASSUME NEW i \in Places(rows), NEW j \in Places(rows), rows[i].id = rows[j].id
                     PROVE  rows[i].file = rows[j].file
          OBVIOUS
        <5>1. <<job.date, rows[i].file>> = <<job.date, rows[j].file>>
          BY <4>1
        <5> QED BY <5>1
      <4> QED BY <4>1, <4>2
    <3>4. IsSeq(made) /\ ToSet(made) = {<<rows[i].file, <<rows[i].file, runs>>>> : i \in Places(rows)}
      <4>1. Len(parts) \in Nat /\ Places(parts) = 1..Len(parts)
        BY <2>2 DEF IsList, Places
      <4>2. IsSeq(made) /\ ToSet(made) = {made[i] : i \in 1..Len(parts)}
        <5>1. made = [i \in 1..Len(parts) |-> made[i]]
          BY <4>1
        <5> HIDE DEF made
        <5> QED BY <4>1, <5>1, MappedList
      <4>3. \A i \in Places(parts) : made[i] = <<rows[i].file, <<rows[i].file, runs>>>>
        OBVIOUS
      <4> HIDE DEF made, rows
      <4> QED BY <3>1, <4>1, <4>2, <4>3
    <3>5. "chart" \in DOMAIN job.db /\ Catalogued(job.db.chart, job.files, runs)
      BY <1>1 DEF IsJob, IsBundle, Tables, EmptyBundle
    <3> HIDE DEF rows, made
    <3> QED BY <2>1, <3>1, <3>3, <3>4, <3>5, ChartsAreAdded
  <2> HIDE DEF db, made
  <2>4. DOMAIN db = Tables /\ db.airport = job.db.airport /\ db.cycle = job.db.cycle /\ db.chart = chart
    BY <1>1, <2>3 DEF IsJob, IsBundle, Tables, EmptyBundle
  <2> DEFINE k == job'
  <2>5. /\ DOMAIN k = JobKeys /\ k.db = db /\ k.step = job.step /\ k.feed = job.feed
        /\ k.date = job.date /\ k.airports = job.airports /\ k.files = job.files \o made
    BY <1>1, <2>1 DEF IsJob, JobKeys
  <2> HIDE DEF k
  <2>6. IsJob(k, runs)
    BY <1>1, <2>3, <2>4, <2>5 DEF IsJob, IsBundle, AirportCount, Tiling
  <2> QED BY <1>1, <2>5, <2>6, QuietSteps DEF JobInv, Publishing, Tiling, k
<1> QED
  BY <1>2, <1>3

---------------------------------------------------------------------------
(* The steps that publish it.                                              *)

LEMMA MovesKeepJob ==
    ASSUME Inv, job # None, job.step \notin {"fetch", "build", "failed"}, UNCHANGED runs,
           NEW step, step \notin {"fetch", "build", "failed"}, NEW todo,
           job' = [job EXCEPT !.step = step, !.todo = todo]
    PROVE  /\ JobInv' /\ DOMAIN job' = JobKeys /\ job'.step = step /\ job'.todo = todo
           /\ job'.db = job.db /\ job'.date = job.date /\ job'.files = job.files /\ job'.airports = job.airports
<1>1. IsJob(job, runs)
  BY DEF Inv, JobInv
<1> DEFINE k == job'
<1>2. /\ DOMAIN k = JobKeys /\ k.step = step /\ k.todo = todo /\ k.db = job.db /\ k.date = job.date
      /\ k.files = job.files /\ k.airports = job.airports /\ k.feed = job.feed
  BY <1>1 DEF IsJob, JobKeys
<1> HIDE DEF k
<1>3. IsJob(k, runs)
  <2>1. DOMAIN job.db = Tables
    BY <1>1 DEF IsJob, IsBundle
  <2> QED BY <1>1, <1>2, <2>1, LaterStep
<1> QED
  BY <1>2, <1>3 DEF k, JobInv

LEMMA CountIsNat ==
    ASSUME NEW db, IsBundle(db)
    PROVE  AirportCount(db) \in Nat
BY FS_CardinalityType DEF IsBundle, AreByIdent, AirportCount

(* The comparison with the bundle that clients have: nothing is published  *)
(* that has less than half of its airports.                                *)
LEMMA ValidateKeeps == ASSUME Inv, Validate PROVE Inv'
<1>1. IsJob(job, runs) /\ job # None /\ job.step = "validate" /\ UNCHANGED disk /\ runs' = runs
  BY DEF Inv, JobInv, Validate, Stage
<1>2. CASE Fail
  BY <1>1, <1>2, FailingKeeps
<1>3. CASE ~Fail
  <2>1. ValidateBundle(job.db, job.airports, LatestBundle) /\ job' = [job EXCEPT !.step = "publish"]
    BY <1>3 DEF Validate
  <2>2. job' = [job EXCEPT !.step = "publish", !.todo = job.todo]
    BY <1>1, <2>1 DEF IsJob, JobKeys
  <2>3. JobInv' /\ job'.step = "publish" /\ job'.db = job.db
    BY <1>1, <2>2, MovesKeepJob
  <2>4. SoundInv' /\ CopyInv'
    BY <2>1, <2>3 DEF SoundInv, CopyInv, During, Writing, Copying, Publishing, IsSound, ValidateBundle
  <2>5. DiskInv' /\ PointerInv' /\ BundlesAreSound'
    BY <1>1 DEF Inv, disk, DiskInv, PointerInv, BundlesAreSound
  <2>7. CatalogueIsOnDisk'
    BY <1>1, CatalogueMeans DEF Inv, disk
  <2>6. ServedInv'
    <3>1. served # None => AirportCount(job.db) * 2 >= served
      <4> SUFFICES ASSUME served # None PROVE AirportCount(job.db) * 2 >= served
        OBVIOUS
      <4>1. pointer # Absent /\ LatestBundle # Torn
        BY <2>1 DEF Inv, ServedInv, ValidateBundle
      <4>2. pointer \notin {Absent, Torn}
        BY <4>1 DEF LatestBundle
      <4>3. served = AirportCount(LatestBundle) /\ LatestBundle # Absent
        BY <4>1, <4>2 DEF Inv, ServedInv
      <4>4. ~(job.airports * 2 < served)
        BY <2>1, <4>3 DEF ValidateBundle, HalvedFrom
      <4>5. job.airports = AirportCount(job.db) /\ AirportCount(job.db) \in Nat /\ served \in Nat
        BY <1>1, CountIsNat DEF IsJob, Inv, ServedInv
      <4> QED BY <4>4, <4>5
    <3>2. UNCHANGED <<served, pointer, published>>
      BY <1>1 DEF disk
    <3> QED BY <2>3, <3>1, <3>2 DEF Inv, ServedInv, LatestBundle, During
  <2> QED BY <2>3, <2>4, <2>5, <2>6, <2>7 DEF Inv
<1> QED
  BY <1>2, <1>3

LEMMA Head_Tail ==
    ASSUME NEW s, IsSeq(s), s # <<>>
    PROVE  IsSeq(Tail(s)) /\ ToSet(s) = {Head(s)} \cup ToSet(Tail(s))
<1>1. s \in Seq(ToSet(s)) /\ Len(s) \in Nat /\ Len(s) > 0 /\ DOMAIN s = 1..Len(s)
  BY DEF IsSeq
<1>2. Tail(s) \in Seq(ToSet(s)) /\ Len(Tail(s)) = Len(s) - 1 /\ DOMAIN Tail(s) = 1..(Len(s) - 1)
  BY <1>1
<1>3. \A i \in DOMAIN Tail(s) : Tail(s)[i] = s[i + 1]
  BY <1>1, <1>2
<1>4. Head(s) = s[1]
  BY <1>1
<1>5. ToSet(s) \subseteq {Head(s)} \cup ToSet(Tail(s))
  <2> SUFFICES ASSUME NEW i \in DOMAIN s PROVE s[i] = Head(s) \/ \E j \in DOMAIN Tail(s) : s[i] = Tail(s)[j]
    BY DEF ToSet
  <2>1. CASE i = 1
    BY <1>4, <2>1
  <2>2. CASE i # 1
    <3>1. i - 1 \in DOMAIN Tail(s) /\ Tail(s)[i - 1] = s[i]
      BY <1>1, <1>2, <1>3, <2>2
    <3> QED BY <3>1
  <2> QED BY <2>1, <2>2
<1>6. {Head(s)} \cup ToSet(Tail(s)) \subseteq ToSet(s)
  <2>1. Head(s) \in ToSet(s)
    BY <1>1, <1>4 DEF ToSet
  <2>2. ToSet(Tail(s)) \subseteq ToSet(s)
    BY <1>2 DEF ToSet
  <2> QED BY <2>1, <2>2
<1> QED
  BY <1>2, <1>5, <1>6, OwnRange DEF IsSeq

(* The catalogue that clients rely on is out of reach of a publication of  *)
(* another cycle.                                                          *)
LEMMA CatalogueStays ==
    ASSUME Inv, UNCHANGED pointer, NEW date, date \in interrupted', interrupted \subseteq interrupted',
           \A c \in Cycles \ {date} : published'[c] = published[c]
    PROVE  CatalogueIsOnDisk'
<1>1. SUFFICES ASSUME Named(pointer) # None, Named(pointer) \notin interrupted'
               PROVE  IsWhole(published'[pointer.cycle], pointer.files)
  BY CatalogueMeans DEF CatalogueOf
<1>2. pointer.cycle \in Cycles \ {date} /\ Named(pointer) \notin interrupted
  BY <1>1 DEF Inv, Named, PointerInv
<1>3. published'[pointer.cycle] = published[pointer.cycle]
  BY <1>2
<1>4. IsWhole(published[pointer.cycle], pointer.files)
  BY <1>1, <1>2, CatalogueMeans DEF Inv, CatalogueOf
<1> QED
  BY <1>3, <1>4

LEMMA BeginPublishKeeps == ASSUME Inv, BeginPublish PROVE Inv'
<1>1. IsJob(job, runs) /\ job # None /\ job.step = "publish" /\ runs' = runs
  BY DEF Inv, JobInv, BeginPublish, Stage
<1>2. /\ published' = [published EXCEPT ![job.date].db = Torn] /\ interrupted' = interrupted \cup {job.date}
      /\ UNCHANGED <<pointer, request, served>>
  BY DEF BeginPublish
<1>3. job' = [job EXCEPT !.step = "bundle", !.todo = job.todo]
  BY <1>1 DEF BeginPublish, IsJob, JobKeys
<1>4. JobInv' /\ job'.step = "bundle" /\ job'.db = job.db /\ job'.date = job.date
  BY <1>1, <1>3, MovesKeepJob
<1>5. job.date \in Cycles
  BY <1>1 DEF IsJob
<1>6. /\ DOMAIN published' = Cycles
      /\ \A c \in Cycles \ {job.date} : published'[c] = published[c]
      /\ published'[job.date].db = Torn /\ DOMAIN published'[job.date] = {"db", "files"}
  BY <1>2, <1>5 DEF Inv, DiskInv
<1>7. SoundInv' /\ CopyInv'
  BY <1>1, <1>2, <1>4 DEF Inv, SoundInv, CopyInv, During, Writing, Copying, Publishing
<1>8. DiskInv' /\ PointerInv' /\ BundlesAreSound'
  BY <1>2, <1>5, <1>6, Apart DEF Inv, DiskInv, PointerInv, BundlesAreSound
<1>9. ServedInv'
  BY <1>1, <1>2, <1>4, <1>6, Apart DEF Inv, ServedInv, LatestBundle, During, Publishing, PointerInv
<1>10. CatalogueIsOnDisk'
  BY <1>2, <1>6, CatalogueStays
<1> QED
  BY <1>4, <1>7, <1>8, <1>9, <1>10 DEF Inv

(* What is served when the pointer or the bundle it names has changed.     *)
LEMMA ServeIs ==
    ASSUME Serve
    PROVE  /\ pointer' \in {Absent, Torn} => served' = served
           /\ pointer' \notin {Absent, Torn} /\ pointer'.cycle # None =>
                LET db == published'[pointer'.cycle].db IN
                served' = IF db \in {Absent, Torn} THEN served ELSE AirportCount(db)
BY DEF Serve, Named

LEMMA CopyBundleKeeps ==
    ASSUME Inv, CopyBundle
    PROVE  Inv' /\ (served # None /\ served' # served => served' * 2 >= served)
<1>1. IsJob(job, runs) /\ job # None /\ job.step = "bundle" /\ runs' = runs
  BY DEF Inv, JobInv, CopyBundle, Stage
<1>2. published' = [published EXCEPT ![job.date].db = job.db] /\ UNCHANGED <<pointer, request, interrupted>>
  BY DEF CopyBundle
<1>3. job' = [job EXCEPT !.step = "archives", !.todo = job.files]
  BY DEF CopyBundle
<1>4. /\ JobInv' /\ job'.step = "archives" /\ job'.todo = job.files
      /\ job'.db = job.db /\ job'.date = job.date /\ job'.files = job.files
  BY <1>1, <1>3, MovesKeepJob
<1>5. /\ job.date \in Cycles /\ IsBundle(job.db) /\ job.db.cycle = {job.date}
      /\ IsSeq(job.files) /\ \A f \in ToSet(job.files) : f[2] = <<f[1], runs>>
  BY <1>1 DEF IsJob, Catalogued
<1>6. job.db # Absent /\ job.db # Torn
  BY <1>5, Apart DEF IsBundle
<1>7. /\ DOMAIN published' = Cycles
      /\ \A c \in Cycles \ {job.date} : published'[c] = published[c]
      /\ published'[job.date].db = job.db /\ DOMAIN published'[job.date] = {"db", "files"}
  BY <1>2, <1>5 DEF Inv, DiskInv
<1>8. IsSound(job.db) /\ job.date \in interrupted
  BY <1>1 DEF Inv, SoundInv, CopyInv, During, Publishing, Writing
<1>9. SoundInv' /\ CopyInv'
  <2>1. SoundInv'
    BY <1>4, <1>8 DEF SoundInv
  <2>2. During(Writing)' => job'.date \in interrupted'
    BY <1>2, <1>4, <1>8
  <2>3. \A f \in ToSet(job'.todo) : f[2] = <<f[1], runs'>>
    BY <1>1, <1>4, <1>5
  <2>4. \A f \in ToSet(job'.files) : \E g \in ToSet(job'.todo) : g[1] = f[1]
    BY <1>4
  <2> QED BY <1>4, <1>5, <1>7, <2>1, <2>2, <2>3, <2>4 DEF CopyInv
<1>10. DiskInv' /\ PointerInv'
  BY <1>2, <1>5, <1>6, <1>7 DEF Inv, DiskInv, PointerInv
<1>11. BundlesAreSound'
  BY <1>5, <1>7, <1>8 DEF Inv, BundlesAreSound, IsSound
<1>12. CatalogueIsOnDisk'
  BY <1>2, <1>7, <1>8, CatalogueStays
<1>13. AirportCount(job.db) \in Nat /\ (served # None => AirportCount(job.db) * 2 >= served)
  BY <1>1, <1>5, CountIsNat DEF Inv, ServedInv, During, Publishing
<1>14. pointer \in {Absent, Torn} => served' = served
  BY <1>2, ServeIs DEF CopyBundle
<1>15. pointer \notin {Absent, Torn} /\ pointer.cycle # job.date => served' = served /\ LatestBundle' = LatestBundle
  <2> SUFFICES ASSUME pointer \notin {Absent, Torn}, pointer.cycle # job.date
               PROVE  served' = served /\ LatestBundle' = LatestBundle
    OBVIOUS
  <2>1. pointer.cycle \in Cycles /\ pointer.cycle # None
    BY Apart DEF Inv, PointerInv
  <2>2. published'[pointer.cycle] = published[pointer.cycle]
    BY <1>7, <2>1
  <2>3. LatestBundle = published[pointer.cycle].db /\ LatestBundle' = LatestBundle
    BY <1>2, <2>2 DEF LatestBundle
  <2>4. LatestBundle # Absent /\ (LatestBundle # Torn => served = AirportCount(LatestBundle))
    BY DEF Inv, ServedInv
  <2>5. served' = IF LatestBundle \in {Absent, Torn} THEN served ELSE AirportCount(LatestBundle)
    BY <1>2, <2>1, <2>2, <2>3, ServeIs DEF CopyBundle
  <2> QED BY <2>3, <2>4, <2>5
<1>16. pointer \notin {Absent, Torn} /\ pointer.cycle = job.date =>
         served' = AirportCount(job.db) /\ LatestBundle' = job.db
  <2> SUFFICES ASSUME pointer \notin {Absent, Torn}, pointer.cycle = job.date
               PROVE  served' = AirportCount(job.db) /\ LatestBundle' = job.db
    OBVIOUS
  <2>1. pointer'.cycle # None
    BY <1>2, <1>5, Apart
  <2> QED BY <1>2, <1>6, <1>7, <2>1, ServeIs DEF CopyBundle, LatestBundle
<1>17. ServedInv'
  <2>1. served' \in {served, AirportCount(job.db)}
    BY <1>14, <1>15, <1>16
  <2>2. pointer = Absent => served' = None
    BY <1>14 DEF Inv, ServedInv
  <2>3. pointer \notin {Absent, Torn} =>
          LatestBundle' # Absent /\ (LatestBundle' # Torn => served' = AirportCount(LatestBundle'))
    BY <1>6, <1>15, <1>16 DEF Inv, ServedInv
  <2>4. served' # None => AirportCount(job.db) * 2 >= served'
    BY <1>13, <2>1
  <2>5. served' = None \/ served' \in Nat
    BY <1>13, <2>1 DEF Inv, ServedInv
  <2>6. AirportCount(LatestBundle)' = AirportCount(LatestBundle')
    BY DEF AirportCount
  <2> QED BY <1>2, <1>4, <2>2, <2>3, <2>4, <2>5, <2>6 DEF ServedInv
<1>18. served # None /\ served' # served => served' * 2 >= served
  BY <1>13, <1>14, <1>15, <1>16
<1> QED
  BY <1>4, <1>9, <1>10, <1>11, <1>12, <1>17, <1>18 DEF Inv

(* Writing an archive into a cycle's directory touches no database.        *)
LEMMA WritingArchives ==
    ASSUME Inv, job # None, job.step \in Copying, UNCHANGED <<pointer, request, runs, interrupted, served>>,
           NEW files, published' = [published EXCEPT ![job.date].files = files],
           JobInv', job'.step \in Copying,
           job'.db = job.db, job'.date = job.date, CopyInv'
    PROVE  Inv'
<1>1. IsJob(job, runs)
  BY DEF Inv, JobInv
<1>2. job.date \in Cycles /\ job.date \in interrupted
  BY <1>1 DEF IsJob, Inv, CopyInv, During, Copying, Writing, Publishing
<1>3. /\ DOMAIN published' = Cycles
      /\ \A c \in Cycles \ {job.date} : published'[c] = published[c]
      /\ published'[job.date].db = published[job.date].db /\ DOMAIN published'[job.date] = {"db", "files"}
  BY <1>2 DEF Inv, DiskInv
<1>4. \A c \in Cycles : published'[c].db = published[c].db /\ DOMAIN published'[c] = {"db", "files"}
  BY <1>3 DEF Inv, DiskInv
<1>5. SoundInv'
  BY DEF Inv, SoundInv, During, Copying, Publishing
<1>6. DiskInv' /\ PointerInv' /\ BundlesAreSound'
  <2>1. DiskInv'
    BY <1>3, <1>4 DEF Inv, DiskInv
  <2>2. PointerInv'
    BY DEF Inv, PointerInv
  <2>3. BundlesAreSound'
    BY <1>4 DEF Inv, BundlesAreSound
  <2> QED BY <2>1, <2>2, <2>3
<1>7. LatestBundle' = LatestBundle
  BY <1>4 DEF LatestBundle, Inv, PointerInv
<1>8. ServedInv'
  <2>1. AirportCount(LatestBundle)' = AirportCount(LatestBundle)
    BY <1>7 DEF AirportCount
  <2> QED BY <1>7, <2>1 DEF Inv, ServedInv, During, Copying, Publishing
<1>9. CatalogueIsOnDisk'
  BY <1>2, <1>3, CatalogueStays
<1> QED
  BY <1>5, <1>6, <1>8, <1>9 DEF Inv

LEMMA BeginArchiveKeeps == ASSUME Inv, BeginArchive PROVE Inv'
<1> DEFINE name == Head(job.todo)[1]
           files == Replacing(published[job.date].files, name, Torn)
<1>1. IsJob(job, runs) /\ job # None /\ job.step = "archives" /\ job.todo # <<>>
  BY DEF Inv, JobInv, BeginArchive, Stage
<1>2. published' = [published EXCEPT ![job.date].files = files]
  BY <1>1 DEF BeginArchive, IsJob, Inv, DiskInv
<1>3. UNCHANGED <<pointer, runs, interrupted, served, request>>
  BY DEF BeginArchive
<1>4. job' = [job EXCEPT !.step = "archive", !.todo = job.todo]
  BY <1>1 DEF BeginArchive, IsJob, JobKeys
<1>5. /\ JobInv' /\ job'.step = "archive" /\ job'.todo = job.todo
      /\ job'.db = job.db /\ job'.date = job.date /\ job'.files = job.files
  BY <1>1, <1>3, <1>4, MovesKeepJob
<1>6. CopyInv'
  <2> DEFINE onDisk == published[job.date].files
  <2>1. /\ job.date \in interrupted /\ published[job.date].db = job.db /\ IsSeq(job.todo)
        /\ \A f \in ToSet(job.todo) : f[2] = <<f[1], runs>>
        /\ \A f \in ToSet(job.files) :
             \/ \E g \in ToSet(job.todo) : g[1] = f[1]
             \/ f[1] \in DOMAIN onDisk /\ onDisk[f[1]] = <<f[1], runs>>
    BY <1>1 DEF Inv, CopyInv, During, Copying, Writing, Publishing
  <2>2. published'[job.date].files = files /\ published'[job.date].db = job.db
    BY <1>1, <1>2, <2>1 DEF IsJob, Inv, DiskInv
  <2>3. Head(job.todo) \in ToSet(job.todo)
    BY <1>1, <2>1, Head_Tail
  <2>4. \A f \in ToSet(job.files) :
             \/ \E g \in ToSet(job.todo) : g[1] = f[1]
             \/ f[1] \in DOMAIN files /\ files[f[1]] = <<f[1], runs>>
    <3> SUFFICES ASSUME NEW f \in ToSet(job.files), f[1] # name, ~ \E g \in ToSet(job.todo) : g[1] = f[1]
                 PROVE  f[1] \in DOMAIN files /\ files[f[1]] = <<f[1], runs>>
      BY <2>3
    <3> QED BY <2>1 DEF Replacing
  <2> HIDE DEF files, onDisk
  <2> QED BY <1>1, <1>3, <1>5, <2>1, <2>2, <2>4 DEF CopyInv, During, Copying, Writing, Publishing
<1> QED
  BY <1>1, <1>2, <1>3, <1>5, <1>6, WritingArchives DEF Copying

LEMMA CopyArchiveKeeps == ASSUME Inv, CopyArchive PROVE Inv'
<1> DEFINE first == Head(job.todo)
           files == Replacing(published[job.date].files, first[1], first[2])
<1>1. IsJob(job, runs) /\ job # None /\ job.step = "archive"
  BY DEF Inv, JobInv, CopyArchive, Stage
<1>2. published' = [published EXCEPT ![job.date].files = files]
  BY <1>1 DEF CopyArchive, IsJob, Inv, DiskInv
<1>3. UNCHANGED <<pointer, runs, interrupted, served, request>>
  BY DEF CopyArchive
<1>4. job' = [job EXCEPT !.step = "archives", !.todo = Tail(job.todo)]
  BY <1>1 DEF CopyArchive, IsJob, JobKeys
<1>5. /\ JobInv' /\ job'.step = "archives" /\ job'.todo = Tail(job.todo)
      /\ job'.db = job.db /\ job'.date = job.date /\ job'.files = job.files
  BY <1>1, <1>3, <1>4, MovesKeepJob
<1>6. CopyInv'
  <2> DEFINE onDisk == published[job.date].files
  <2>1. /\ job.date \in interrupted /\ published[job.date].db = job.db /\ IsSeq(job.todo) /\ job.todo # <<>>
        /\ \A f \in ToSet(job.todo) : f[2] = <<f[1], runs>>
        /\ \A f \in ToSet(job.files) :
             \/ \E g \in ToSet(job.todo) : g[1] = f[1]
             \/ f[1] \in DOMAIN onDisk /\ onDisk[f[1]] = <<f[1], runs>>
    BY <1>1 DEF Inv, CopyInv, During, Copying, Writing, Publishing
  <2>2. published'[job.date].files = files /\ published'[job.date].db = job.db
    BY <1>1, <1>2, <2>1 DEF IsJob, Inv, DiskInv
  <2>3. IsSeq(Tail(job.todo)) /\ ToSet(job.todo) = {first} \cup ToSet(Tail(job.todo))
    BY <2>1, Head_Tail
  <2>4. \A f \in ToSet(job.files) :
             \/ \E g \in ToSet(Tail(job.todo)) : g[1] = f[1]
             \/ f[1] \in DOMAIN files /\ files[f[1]] = <<f[1], runs>>
    <3> SUFFICES ASSUME NEW f \in ToSet(job.files), ~ \E g \in ToSet(Tail(job.todo)) : g[1] = f[1]
                 PROVE  f[1] \in DOMAIN files /\ files[f[1]] = <<f[1], runs>>
      OBVIOUS
    <3>1. CASE f[1] = first[1]
      <4>1. first[2] = <<first[1], runs>>
        BY <2>1, <2>3
      <4> QED BY <3>1, <4>1 DEF Replacing
    <3>2. CASE f[1] # first[1]
      <4>1. f[1] \in DOMAIN onDisk /\ onDisk[f[1]] = <<f[1], runs>>
        BY <2>1, <2>3, <3>2
      <4> QED BY <3>2, <4>1 DEF Replacing
    <3> QED BY <3>1, <3>2
  <2>5. \A f \in ToSet(Tail(job.todo)) : f[2] = <<f[1], runs>>
    BY <2>1, <2>3
  <2> HIDE DEF files, onDisk
  <2> QED BY <1>1, <1>3, <1>5, <2>1, <2>2, <2>3, <2>4, <2>5 DEF CopyInv, During, Copying, Writing, Publishing
<1> QED
  BY <1>1, <1>2, <1>3, <1>5, <1>6, WritingArchives DEF Copying

LEMMA BeginPointerKeeps == ASSUME Inv, BeginPointer PROVE Inv'
<1>1. IsJob(job, runs) /\ job # None /\ job.step = "archives" /\ job.todo = <<>>
  BY DEF Inv, JobInv, BeginPointer, Stage
<1>2. pointer' = Torn /\ UNCHANGED <<published, runs, interrupted, served, request>>
  BY DEF BeginPointer
<1>3. job' = [job EXCEPT !.step = "pointer", !.todo = job.todo]
  BY <1>1 DEF BeginPointer, IsJob, JobKeys
<1>4. /\ JobInv' /\ job'.step = "pointer" /\ job'.todo = job.todo
      /\ job'.db = job.db /\ job'.date = job.date /\ job'.files = job.files
  BY <1>1, <1>2, <1>3, MovesKeepJob
<1>5. SoundInv' /\ DiskInv' /\ PointerInv' /\ BundlesAreSound'
  BY <1>1, <1>2, <1>4 DEF Inv, SoundInv, DiskInv, PointerInv, BundlesAreSound, During, Publishing
<1>6. CopyInv'
  BY <1>1, <1>2, <1>4 DEF Inv, CopyInv, During, Copying, Writing, Publishing
<1>7. ServedInv' /\ CatalogueIsOnDisk'
  BY <1>1, <1>2, <1>4, Apart DEF Inv, ServedInv, CatalogueIsOnDisk, Named, During, Publishing
<1> QED
  BY <1>4, <1>5, <1>6, <1>7 DEF Inv

LEMMA NamesOf ==
    ASSUME NEW s, IsSeq(s)
    PROVE  ToSet(MapSeq(s, LAMBDA f : f[1])) = {f[1] : f \in ToSet(s)}
<1>1. DOMAIN s = 1..Len(s) /\ Len(s) \in Nat
  BY DEF IsSeq
<1> DEFINE m == MapSeq(s, LAMBDA f : f[1])
<1>2. DOMAIN m = 1..Len(s) /\ \A i \in 1..Len(s) : m[i] = s[i][1]
  BY <1>1 DEF MapSeq, Places
<1> HIDE DEF m
<1>3. ToSet(m) \subseteq {f[1] : f \in ToSet(s)}
  BY <1>1, <1>2 DEF ToSet
<1>4. {f[1] : f \in ToSet(s)} \subseteq ToSet(m)
  BY <1>1, <1>2 DEF ToSet
<1> QED
  BY <1>3, <1>4 DEF m

(* The pointer is written last: by then the cycle it names is on disk.     *)
LEMMA WritePointerKeeps ==
    ASSUME Inv, WritePointer
    PROVE  Inv' /\ (served # None /\ served' # served => served' * 2 >= served)
<1>1. IsJob(job, runs) /\ job # None /\ job.step = "pointer"
  BY DEF Inv, JobInv, WritePointer, Stage
<1> DEFINE names == MapSeq(job.files, LAMBDA f : f[1])
           onDisk == published[job.date].files
<1>2. /\ job' = None /\ UNCHANGED <<published, runs, request>> /\ interrupted' = interrupted \ {job.date}
      /\ pointer' = [cycle |-> job.date, files |-> names]
  BY DEF WritePointer
<1>3. job.date \in Cycles /\ IsBundle(job.db) /\ Catalogued(job.db.chart, job.files, runs)
  BY <1>1 DEF IsJob
<1>4. pointer' \notin {Absent, Torn} /\ pointer'.cycle = job.date /\ pointer'.files = names /\ job.date # None
  <2> HIDE DEF names
  <2> QED BY <1>2, <1>3, Apart
<1>5. /\ published[job.date].db = job.db
      /\ \A f \in ToSet(job.files) : f[1] \in DOMAIN onDisk /\ onDisk[f[1]] = <<f[1], runs>>
  <2>1. published[job.date].db = job.db /\ job.todo = <<>>
    BY <1>1 DEF Inv, CopyInv, During, Copying
  <2>2. ToSet(job.todo) = {}
    BY <2>1 DEF ToSet
  <2> QED BY <1>1, <2>1, <2>2 DEF Inv, CopyInv, During, Copying
<1>6. job.db # Absent /\ job.db # Torn /\ IsSeq(job.files)
  BY <1>3, Apart DEF IsBundle, Catalogued
<1>7. ToSet(names) = {f[1] : f \in ToSet(job.files)}
  BY <1>6, NamesOf
<1> HIDE DEF names, onDisk
<1>8. JobInv' /\ SoundInv' /\ CopyInv'
  BY <1>2 DEF JobInv, SoundInv, CopyInv, During
<1>9. BundlesAreSound' /\ PointerInv'
  BY <1>2, <1>3, <1>4 DEF Inv, PointerInv, BundlesAreSound
<1>10. DiskInv'
  <2>1. \A c \in Cycles : published[c].db = Torn => c \in interrupted \ {job.date}
    BY <1>5, <1>6 DEF Inv, DiskInv
  <2> QED BY <1>2, <2>1 DEF Inv, DiskInv
<1>11. CatalogueIsOnDisk'
  <2>1. Named(pointer') = job.date
    BY <1>4 DEF Named
  <2>2. {job.db.chart[id].file : id \in DOMAIN job.db.chart} = ToSet(names)
    BY <1>3, <1>7 DEF Catalogued
  <2>3. \A id \in DOMAIN job.db.chart : onDisk[job.db.chart[id].file] = job.db.chart[id].sha256
    <3> SUFFICES ASSUME NEW id \in DOMAIN job.db.chart
                 PROVE  onDisk[job.db.chart[id].file] = job.db.chart[id].sha256
      OBVIOUS
    <3>1. PICK f \in ToSet(job.files) : job.db.chart[id].file = f[1]
      BY <1>3 DEF Catalogued
    <3>2. job.db.chart[id].sha256 = <<job.db.chart[id].file, runs>>
      BY <1>3 DEF Catalogued
    <3> QED BY <1>5, <3>1, <3>2
  <2>4. IsWhole(published[job.date], names)
    BY <1>5, <1>6, <2>2, <2>3 DEF IsWhole, onDisk
  <2> QED BY <1>2, <1>4, <2>4, CatalogueMeans DEF CatalogueOf
<1>12. served' = AirportCount(job.db) /\ LatestBundle' = job.db
  <2>1. LatestBundle' = published'[job.date].db
    BY <1>4 DEF LatestBundle
  <2> QED BY <1>2, <1>4, <1>5, <1>6, <2>1, ServeIs DEF WritePointer
<1>13. AirportCount(job.db) \in Nat /\ (served # None => AirportCount(job.db) * 2 >= served)
  BY <1>1, <1>3, CountIsNat DEF Inv, ServedInv, During, Publishing
<1>14. ServedInv'
  <2>1. AirportCount(LatestBundle)' = AirportCount(LatestBundle')
    BY DEF AirportCount
  <2> QED BY <1>2, <1>4, <1>6, <1>12, <1>13, <2>1 DEF ServedInv, During
<1> QED
  BY <1>8, <1>9, <1>10, <1>11, <1>12, <1>13, <1>14 DEF Inv

---------------------------------------------------------------------------
(* The theorems.                                                           *)

LEMMA EndsKeep == ASSUME Inv, Exit \/ Kill PROVE Inv'
<1>1. job' = None /\ UNCHANGED <<disk, runs>>
  BY DEF Exit, Kill
<1>2. JobInv'
  BY <1>1 DEF JobInv
<1> QED
  BY <1>1, <1>2, QuietSteps

(* The server only reads.                                                  *)
LEMMA ServerKeeps == ASSUME Inv, RequestManifest \/ AnswerManifest \/ UNCHANGED vars PROVE Inv'
<1>1. UNCHANGED <<job, published, pointer, runs, interrupted, served>>
  BY DEF RequestManifest, AnswerManifest, vars
<1>2. request' = None \/ request' \in Cycles
  BY DEF RequestManifest, AnswerManifest, vars, Named, Inv, PointerInv
<1>3. JobInv' /\ SoundInv' /\ CopyInv'
  BY <1>1 DEF Inv, JobInv, SoundInv, CopyInv, During
<1>4. DiskInv' /\ PointerInv' /\ BundlesAreSound'
  BY <1>1, <1>2 DEF Inv, DiskInv, PointerInv, BundlesAreSound
<1>5. LatestBundle' = LatestBundle
  BY <1>1 DEF LatestBundle
<1>6. AirportCount(LatestBundle)' = AirportCount(LatestBundle)
  BY <1>5 DEF AirportCount
<1>7. ServedInv' /\ CatalogueIsOnDisk'
  BY <1>1, <1>5, <1>6 DEF Inv, ServedInv, CatalogueIsOnDisk, During, Named
<1> QED
  BY <1>3, <1>4, <1>7 DEF Inv

LEMMA NextInv == Inv /\ [Next]_vars => Inv'
<1> SUFFICES ASSUME Inv, [Next]_vars PROVE Inv'
  OBVIOUS
<1>1. CASE \E feed \in DOMAIN Feeds : Start(feed)
  BY <1>1, StartKeeps
<1>2. CASE FetchSources \/ Build
  BY <1>2, FetchKeeps, BuildKeeps
<1>3. CASE AddBoundaries \/ AddExport \/ AddCommunity
  BY <1>3, BoundariesKeep, ExportKeeps, CommunityKeeps
<1>4. CASE AddRoutes \/ AddPlates
  BY <1>4, RoutesKeep, PlatesKeep
<1>5. CASE DiscoverCharts \/ TileChart \/ NextSeries
  BY <1>5, DiscoverKeeps, TileKeeps, NextSeriesKeeps
<1>6. CASE Validate
  BY <1>6, ValidateKeeps
<1>7. CASE BeginPublish \/ CopyBundle \/ BeginArchive \/ CopyArchive
  BY <1>7, BeginPublishKeeps, CopyBundleKeeps, BeginArchiveKeeps, CopyArchiveKeeps
<1>8. CASE BeginPointer \/ WritePointer
  BY <1>8, BeginPointerKeeps, WritePointerKeeps
<1>9. CASE Exit \/ Kill
  BY <1>9, EndsKeep
<1>10. CASE RequestManifest \/ AnswerManifest \/ UNCHANGED vars
  BY <1>10, ServerKeeps
<1> QED
  BY <1>1, <1>2, <1>3, <1>4, <1>5, <1>6, <1>7, <1>8, <1>9, <1>10 DEF Next, Step

LEMMA SpecInv == Spec => []Inv
<1>1. Init => Inv
  BY InitInv
<1>2. Inv /\ [Next]_vars => Inv'
  BY NextInv
<1> QED
  BY <1>1, <1>2, PTL DEF Spec

---------------------------------------------------------------------------
(* Kinship through the run: rows keep their parents while others join.     *)

SameFamily(new, db) ==
    /\ DOMAIN db.airport \subseteq DOMAIN new.airport
    /\ new.runway = db.runway /\ new.frequency = db.frequency /\ new.dtpp = db.dtpp
    /\ new.procedure = db.procedure /\ new.leg = db.leg

LEMMA FamilyStays ==
    ASSUME NEW db, Family(db), NEW new, SameFamily(new, db)
    PROVE  Family(new)
<1>1. OfAirports(new)
  BY DEF Family, OfAirports, SameFamily
<1>2. OfProcedures(new)
  BY DEF Family, OfProcedures, PlateOf, SameFamily
<1> QED
  BY <1>1, <1>2 DEF Family

LEMMA RunwaysJoin ==
    ASSUME NEW db, Family(db), NEW more, IsSeq(more), NEW new, AirportsIn(more) \subseteq DOMAIN new.airport,
           DOMAIN db.airport \subseteq DOMAIN new.airport, new.runway = db.runway \o more,
           new.frequency = db.frequency, new.dtpp = db.dtpp, new.procedure = db.procedure, new.leg = db.leg
    PROVE  Family(new)
<1>1. IsSeq(db.runway) /\ AirportsIn(db.runway) \subseteq DOMAIN db.airport
  BY DEF Family, OfAirports
<1>2. IsSeq(new.runway) /\ ToSet(new.runway) = ToSet(db.runway) \cup ToSet(more)
  BY <1>1, Appended
<1>3. ASSUME NEW s, IsSeq(s) PROVE AirportsIn(s) = {r.airport : r \in ToSet(s)}
  <2>1. s \in Seq(ToSet(s)) /\ DOMAIN s = Places(s)
    BY <1>3 DEF IsSeq, Places
  <2> QED BY <2>1 DEF AirportsIn, ToSet
<1>4. AirportsIn(new.runway) = AirportsIn(db.runway) \cup AirportsIn(more)
  BY <1>1, <1>2, <1>3
<1>5. OfAirports(new)
  BY <1>1, <1>2, <1>4 DEF Family, OfAirports
<1>6. OfProcedures(new)
  BY DEF Family, OfProcedures, PlateOf
<1> QED
  BY <1>5, <1>6 DEF Family

LEMMA PlatesJoin ==
    ASSUME NEW db, Family(db), NEW more, IsSeq(more), \A i \in Places(more) : PlateOf(db, more[i]),
           NEW new, new.dtpp = db.dtpp \o more, new.airport = db.airport,
           new.runway = db.runway, new.frequency = db.frequency, new.procedure = db.procedure, new.leg = db.leg
    PROVE  Family(new)
<1>1. IsSeq(db.dtpp) /\ \A i \in Places(db.dtpp) : PlateOf(db, db.dtpp[i])
  BY DEF Family, OfProcedures
<1>2. IsSeq(new.dtpp) /\ ToSet(new.dtpp) = ToSet(db.dtpp) \cup ToSet(more)
  BY <1>1, Appended
<1>3. ASSUME NEW s, IsSeq(s) PROVE DOMAIN s = Places(s)
  BY <1>3 DEF IsSeq, Places
<1>4. ASSUME NEW i \in Places(new.dtpp) PROVE PlateOf(new, new.dtpp[i])
  <2>1. new.dtpp[i] \in ToSet(db.dtpp) \/ new.dtpp[i] \in ToSet(more)
    BY <1>2, <1>3 DEF ToSet
  <2>2. PlateOf(db, new.dtpp[i])
    BY <1>1, <1>3, <2>1 DEF ToSet
  <2> QED BY <2>2 DEF PlateOf
<1>5. OfProcedures(new)
  BY <1>2, <1>4 DEF OfProcedures
<1>6. OfAirports(new)
  BY DEF Family, OfAirports
<1> QED
  BY <1>5, <1>6 DEF Family

(* The second invariant, on top of Inv.                                    *)
IsKin(j) ==
    /\ Family(j.db)
    /\ j.step = "build" => FetchNasr(Feeds[j.feed].nasr, j.date) # None
    /\ j.step = "airspace" => FixesAnswer(j.db, FetchCifp(Feeds[j.feed].cifp).file)

KinInv == job # None => IsKin(job)

LEMMA NasrIsRead ==
    ASSUME NEW n \in DOMAIN Feeds, NEW date, FetchNasr(Feeds[n].nasr, date) # None
    PROVE  LET nasr == FetchNasr(Feeds[n].nasr, date) IN IsList(nasr.base) /\ IsList(nasr.freqs)
<1> DEFINE packages == Feeds[n].nasr
           nasr == FetchNasr(packages, date)
<1>1. nasr = Offered(packages, date) /\ NasrTables \subseteq DOMAIN nasr
  BY DEF FetchNasr
<1>2. date \in DOMAIN packages /\ nasr = packages[date]
  BY <1>1 DEF Offered, FetchNasr
<1>3. \A d \in DOMAIN packages : packages[d] = None \/ \A t \in DOMAIN packages[d] : IsList(packages[d][t])
  BY FeedsAreLists
<1>4. nasr # None
  OBVIOUS
<1> HIDE DEF nasr, packages
<1>5. \A t \in DOMAIN nasr : IsList(nasr[t])
  BY <1>2, <1>3, <1>4
<1>6. IsList(nasr.base) /\ IsList(nasr.freqs)
  BY <1>1, <1>5 DEF NasrTables
<1> QED
  BY <1>6 DEF nasr, packages

LEMMA KinStays ==
    ASSUME KinInv, job # None, NEW db, SameFamily(db, job.db), job'.db = db, job'.step \notin {"build", "airspace"}
    PROVE  KinInv'
<1>1. Family(db)
  BY FamilyStays DEF KinInv, IsKin
<1> DEFINE k == job'
<1>2. k.db = db /\ k.step \notin {"build", "airspace"}
  OBVIOUS
<1> HIDE DEF k
<1>3. IsKin(k)
  BY <1>1, <1>2 DEF IsKin
<1> QED
  BY <1>3 DEF KinInv, k

LEMMA KinOfJob ==
    ASSUME KinInv, job # None, job'.db = job.db, job'.step \notin {"build", "airspace"}
    PROVE  KinInv'
<1>1. SameFamily(job.db, job.db)
  BY DEF SameFamily
<1> QED
  BY <1>1, KinStays

LEMMA KinArises ==
    ASSUME Family(job'.db), job'.step \notin {"build", "airspace"}
    PROVE  KinInv'
<1> DEFINE k == job'
<1>1. Family(k.db) /\ k.step \notin {"build", "airspace"}
  OBVIOUS
<1> HIDE DEF k
<1>2. IsKin(k)
  BY <1>1 DEF IsKin
<1> QED
  BY <1>2 DEF KinInv, k

LEMMA KinStarts == ASSUME NEW feed \in DOMAIN Feeds, Start(feed) PROVE KinInv'
<1> DEFINE db == EmptyBundle
<1>1. job'.db = db /\ job'.step = "fetch"
  BY DEF Start
<1>2. db.runway = <<>> /\ db.frequency = <<>> /\ db.procedure = <<>> /\ db.leg = <<>> /\ db.dtpp = <<>>
  BY DEF EmptyBundle
<1> HIDE DEF db
<1>3. IsSeq(<<>>) /\ Places(<<>>) = {} /\ DOMAIN <<>> = {} /\ IsFiniteSet(DOMAIN <<>>)
  BY FS_EmptySet DEF IsSeq, Places
<1>4. Family(db)
  BY <1>2, <1>3 DEF Family, OfAirports, OfProcedures, AirportsIn
<1> QED
  BY <1>1, <1>4, KinArises

LEMMA KinFails == ASSUME Inv, KinInv, job # None, Fail PROVE KinInv'
<1>1. job'.db = job.db /\ job'.step = "failed"
  BY DEF Inv, JobInv, IsJob, JobKeys, Fail
<1> QED
  BY <1>1, KinOfJob

LEMMA KinFetches == ASSUME Inv, KinInv, FetchSources PROVE KinInv'
<1>1. IsJob(job, runs) /\ job # None /\ job.step = "fetch"
  BY DEF Inv, JobInv, FetchSources, Stage
<1>2. CASE Fail
  BY <1>1, <1>2, KinFails
<1>3. CASE ~Fail
  <2> DEFINE cifp == FetchCifp(Found.cifp)
             nasr == FetchNasr(Found.nasr, cifp.date)
             k == job'
  <2>1. nasr # None /\ k = [job EXCEPT !.date = cifp.date, !.step = "build"]
    <3>1. CASE cifp = None
      BY <1>3, <3>1 DEF FetchSources
    <3>2. CASE cifp # None
      BY <1>3, <3>2 DEF FetchSources
    <3> QED BY <3>1, <3>2
  <2> HIDE DEF cifp, k
  <2>2. k.db = job.db /\ k.step = "build" /\ k.date = cifp.date /\ k.feed = job.feed
    BY <1>1, <2>1 DEF IsJob, JobKeys
  <2>3. FetchNasr(Feeds[k.feed].nasr, k.date) # None
    BY <2>1, <2>2 DEF Found
  <2>4. Family(k.db)
    BY <1>1, <2>2 DEF KinInv, IsKin
  <2>5. IsKin(k)
    BY <2>2, <2>3, <2>4 DEF IsKin
  <2> QED BY <2>5 DEF KinInv, k
<1> QED
  BY <1>2, <1>3

LEMMA KinBuilds == ASSUME Inv, KinInv, Build PROVE KinInv'
<1>1. IsJob(job, runs) /\ job # None /\ job.step = "build"
  BY DEF Inv, JobInv, Build, Stage
<1>2. CASE Fail
  BY <1>1, <1>2, KinFails
<1>3. CASE ~Fail
  <2> DEFINE lines == FetchCifp(Found.cifp).file
             nasr == FetchNasr(Found.nasr, job.date)
             k == job'
  <2>1. PICK db \in BuildBundle(lines, nasr, None, RunwayOf) :
           db # None /\ k = [job EXCEPT !.db = AddAiracCycle(db, job.date),
                                        !.airports = Cardinality(DOMAIN db.airport), !.step = "airspace"]
    BY <1>3 DEF Build
  <2> DEFINE all == AddAiracCycle(db, job.date)
  <2>2. IsList(lines)
    BY <1>1, CifpIsRead DEF IsJob, Found
  <2>3. IsList(nasr.base) /\ IsList(nasr.freqs)
    BY <1>1, NasrIsRead DEF KinInv, IsKin, IsJob, Found
  <2>4. DOMAIN db = DOMAIN EmptyBundle /\ Family(db) /\ FixesAnswer(db, lines)
    <3> HIDE DEF lines, nasr
    <3> QED BY <2>1, <2>2, <2>3, BuildBundleIs, BundleHasParents, BundleNamesItsFixes
  <2> HIDE DEF lines, k
  <2>5. /\ all.airport = db.airport /\ all.runway = db.runway /\ all.frequency = db.frequency
        /\ all.procedure = db.procedure /\ all.leg = db.leg /\ all.dtpp = db.dtpp
        /\ all.navaid = db.navaid /\ all.waypoint = db.waypoint /\ all.airway = db.airway
    BY <2>4 DEF AddAiracCycle, EmptyBundle
  <2>6. k.db = all /\ k.step = "airspace" /\ k.feed = job.feed
    BY <1>1, <2>1 DEF IsJob, JobKeys
  <2> HIDE DEF all
  <2>7. Family(all)
    BY <2>4, <2>5, FamilyStays DEF SameFamily
  <2>8. FixesAnswer(all, lines)
    BY <2>4, <2>5 DEF FixesAnswer, NamedFixes
  <2>9. IsKin(k)
    BY <2>6, <2>7, <2>8 DEF IsKin, lines, Found
  <2> QED BY <2>9 DEF KinInv, k
<1> QED
  BY <1>2, <1>3

LEMMA KinContinues ==
    ASSUME Inv, KinInv, job # None, NEW db, db # None => SameFamily(db, job.db),
           NEW step, step \notin {"build", "airspace"}, Continue(db, step)
    PROVE  KinInv'
<1>1. CASE Fail
  BY <1>1, KinFails
<1>2. CASE ~Fail
  <2>1. db # None /\ job'.db = db /\ job'.step = step
    BY <1>2 DEF Continue, Inv, JobInv, IsJob, JobKeys
  <2> QED BY <2>1, KinStays
<1> QED
  BY <1>1, <1>2

LEMMA SameAirspace ==
    ASSUME NEW db, DOMAIN db = Tables, NEW volumes, AddAirspace(db, volumes) # None
    PROVE  SameFamily(AddAirspace(db, volumes), db)
<1>1. PICK table : AddAirspace(db, volumes) = [db EXCEPT !.airspace = table]
  BY AirspaceTable
<1> QED
  BY <1>1 DEF SameFamily, Tables, EmptyBundle

LEMMA KinBoundaries == ASSUME Inv, KinInv, AddBoundaries PROVE KinInv'
<1>1. DOMAIN job.db = Tables /\ job # None
  BY DEF Inv, JobInv, IsJob, IsBundle, AddBoundaries, Stage
<1>2. CASE Fail
  BY <1>1, <1>2, KinFails
<1>3. CASE ~Fail
  <2>1. PICK volumes : Continue(AddAirspace(job.db, volumes), "export")
    BY <1>3 DEF AddBoundaries
  <2> QED BY <1>1, <2>1, SameAirspace, KinContinues
<1> QED
  BY <1>2, <1>3

LEMMA KinExtends ==
    ASSUME Inv, KinInv, job # None, NEW db, DOMAIN db = Tables, Family(db), NEW airports, NEW volumes,
           NEW step, step \notin {"build", "airspace"}, Extend(db, airports, volumes, step)
    PROVE  KinInv'
<1> DEFINE all == AddAirspace(db, volumes)
<1>1. CASE all = None
  BY <1>1, KinFails DEF Extend
<1>2. CASE all # None
  <2>1. job'.db = all /\ job'.step = step
    BY <1>2 DEF Extend, Inv, JobInv, IsJob, JobKeys
  <2>2. Family(all)
    BY <1>2, SameAirspace, FamilyStays
  <2> QED BY <2>1, <2>2, KinArises
<1> QED
  BY <1>1, <1>2

LEMMA IgnoringJoins ==
    ASSUME NEW table, AreByIdent(table), NEW rows, IsList(rows)
    PROVE  DOMAIN Ignoring(table, rows) = DOMAIN table \cup IcaosIn(rows)
<1>1. DOMAIN Ignoring(table, rows) = DOMAIN table \cup ({rows[i].icao : i \in Places(rows)} \ DOMAIN table)
  BY IgnoringCounts
<1> QED
  BY <1>1 DEF IcaosIn

LEMMA KinExport == ASSUME Inv, KinInv, AddExport PROVE KinInv'
<1>1. IsJob(job, runs) /\ job # None /\ DOMAIN job.db = Tables /\ AreByIdent(job.db.airport) /\ Family(job.db)
  BY DEF Inv, JobInv, IsJob, IsBundle, AddExport, Stage, KinInv, IsKin
<1> DEFINE data == Aixm!LoadAixm(Found.export, "LF")
           db == AddAixm(job.db, data)
           more == OfKnownAirports(data.runways, data.airports)
<1>2. CASE data = None
  <2>1. Continue(job.db, "community")
    BY <1>2 DEF AddExport
  <2>2. SameFamily(job.db, job.db)
    BY DEF SameFamily
  <2> QED BY <1>1, <2>1, <2>2, KinContinues
<1>3. CASE data # None /\ data.effective = None
  <2>1. Fail
    BY <1>3 DEF AddExport
  <2> QED BY <1>1, <2>1, KinFails
<1>4. CASE data # None /\ data.effective # None
  <2>1. Extend(db, data.airports, data.airspaces, "community")
    BY <1>4 DEF AddExport
  <2>2. IsList(data.airports) /\ IsList(data.runways)
    BY <1>1, <1>4, ExportIsRead, ExportRunways DEF IsJob, Found
  <2> HIDE DEF data
  <2>3. IsSeq(more) /\ AirportsIn(more) \subseteq IcaosIn(data.airports)
    BY <2>2, KnownOnly
  <2> HIDE DEF more
  <2>4. db = [job.db EXCEPT !.airport = Ignoring(@, data.airports), !.runway = @ \o more, !.navaid = db.navaid,
                            !.waypoint = db.waypoint, !.airway = db.airway, !.source = db.source]
    BY <1>1 DEF AddAixm, Tables, EmptyBundle, more
  <2> HIDE DEF db
  <2>5. /\ DOMAIN db = Tables /\ db.airport = Ignoring(job.db.airport, data.airports)
        /\ db.runway = job.db.runway \o more /\ db.frequency = job.db.frequency /\ db.dtpp = job.db.dtpp
        /\ db.procedure = job.db.procedure /\ db.leg = job.db.leg
    BY <1>1, <2>4 DEF Tables, EmptyBundle
  <2>6. DOMAIN db.airport = DOMAIN job.db.airport \cup IcaosIn(data.airports)
    BY <1>1, <2>2, <2>5, IgnoringJoins
  <2>7. Family(db)
    <3>1. DOMAIN job.db.airport \subseteq DOMAIN db.airport /\ AirportsIn(more) \subseteq DOMAIN db.airport
      BY <2>3, <2>6
    <3> DEFINE old == job.db
    <3> HIDE DEF old
    <3>2. Family(db)
      BY <1>1, <2>3, <2>5, <3>1, RunwaysJoin DEF old
    <3> QED BY <3>2
  <2> QED BY <1>1, <2>1, <2>5, <2>7, KinExtends
<1> QED
  BY <1>2, <1>3, <1>4

LEMMA KinCommunity == ASSUME Inv, KinInv, AddCommunity PROVE KinInv'
<1>1. IsJob(job, runs) /\ job # None /\ DOMAIN job.db = Tables /\ AreByIdent(job.db.airport) /\ Family(job.db)
  BY DEF Inv, JobInv, IsJob, IsBundle, AddCommunity, Stage, KinInv, IsKin
<1> DEFINE loaded == OpenAip!LoadConfigured(Found.states, Found.listings)
           db == AddOpenAip(job.db, loaded.airports, loaded.navaids, job.date)
<1>2. CASE ~Found.key
  <2>1. Continue(job.db, "routes")
    BY <1>2 DEF AddCommunity
  <2>2. SameFamily(job.db, job.db)
    BY DEF SameFamily
  <2> QED BY <1>1, <2>1, <2>2, KinContinues
<1>3. CASE Found.key /\ loaded = None
  <2>1. Fail
    BY <1>3 DEF AddCommunity
  <2> QED BY <1>1, <2>1, KinFails
<1>4. CASE Found.key /\ loaded # None
  <2>1. Extend(db, loaded.airports, loaded.airspaces, "routes")
    BY <1>4 DEF AddCommunity
  <2>2. IsList(loaded.airports)
    BY <1>1, <1>4, CommunityIsRead DEF IsJob, Found
  <2> HIDE DEF loaded
  <2>3. /\ DOMAIN db = Tables /\ db.airport = Ignoring(job.db.airport, loaded.airports)
        /\ db.runway = job.db.runway /\ db.frequency = job.db.frequency /\ db.dtpp = job.db.dtpp
        /\ db.procedure = job.db.procedure /\ db.leg = job.db.leg
    BY <1>1 DEF AddOpenAip, Tables, EmptyBundle
  <2> HIDE DEF db
  <2>4. DOMAIN db.airport = DOMAIN job.db.airport \cup IcaosIn(loaded.airports)
    BY <1>1, <2>2, <2>3, IgnoringJoins
  <2>5. SameFamily(db, job.db)
    BY <2>3, <2>4 DEF SameFamily
  <2>6. Family(db)
    BY <1>1, <2>5, FamilyStays
  <2> QED BY <1>1, <2>1, <2>3, <2>6, KinExtends
<1> QED
  BY <1>2, <1>3, <1>4

LEMMA KinRoutes == ASSUME Inv, KinInv, AddRoutes PROVE KinInv'
<1>1. IsJob(job, runs) /\ job # None /\ DOMAIN job.db = Tables
  BY DEF Inv, JobInv, IsJob, IsBundle, AddRoutes, Stage
<1>2. CASE Fail
  BY <1>1, <1>2, KinFails
<1>3. CASE ~Fail
  <2> DEFINE routes == FetchAndParse(Found.pfr, Found.cdr, AirportRows(job.db))
             db == AddPreferredRoutes(job.db, routes)
  <2>1. job' = [job EXCEPT !.db = db, !.step = "plates"]
    BY <1>3 DEF AddRoutes
  <2> HIDE DEF routes
  <2>2. SameFamily(db, job.db)
    BY <1>1 DEF AddPreferredRoutes, SameFamily, Tables, EmptyBundle
  <2> HIDE DEF db
  <2>3. job'.db = db /\ job'.step = "plates"
    BY <1>1, <2>1 DEF IsJob, JobKeys
  <2> QED BY <1>1, <2>2, <2>3, KinStays
<1> QED
  BY <1>2, <1>3

LEMMA KinPlates == ASSUME Inv, KinInv, AddPlates PROVE KinInv'
<1>1. IsJob(job, runs) /\ job # None /\ DOMAIN job.db = Tables /\ Family(job.db)
  BY DEF Inv, JobInv, IsJob, IsBundle, AddPlates, Stage, KinInv, IsKin
<1> DEFINE cycle == DiscoverDtppCycle(Found.offers, Today)
           events == IF cycle \in {None, Down} THEN None ELSE Offered(Found.metafiles, cycle)
           rows == MatchDtppCharts(events, ProcedureRows(job.db), DOMAIN job.db.airport, cycle)
           db == AddDtppCharts(job.db, rows)
<1>2. job'.step = "charts"
  BY <1>1 DEF AddPlates, IsJob, JobKeys
<1>3. CASE events = None
  <2>1. job'.db = job.db
    BY <1>1, <1>3 DEF AddPlates, IsJob, JobKeys
  <2> QED BY <1>1, <1>2, <2>1, KinOfJob
<1>4. CASE events # None
  <2>1. job'.db = db
    BY <1>1, <1>4 DEF AddPlates, IsJob, JobKeys
  <2>2. IsList(events)
    <3>1. cycle \in DOMAIN Found.metafiles /\ events = Found.metafiles[cycle]
      BY <1>4 DEF Offered
    <3>2. \A c \in DOMAIN Found.metafiles : NoneOrList(Found.metafiles[c])
      BY <1>1, FeedsAreLists DEF Found, IsJob
    <3> HIDE DEF cycle, events
    <3> QED BY <1>4, <3>1, <3>2 DEF NoneOrList
  <2> HIDE DEF cycle, events
  <2>3. IsSeq(rows) /\ \A i \in Places(rows) : PlateOf(job.db, rows[i])
    <3>1. IsFiniteSet(DOMAIN job.db.procedure) /\ \A p \in DOMAIN job.db.procedure : p[1] \in DOMAIN job.db.airport
      BY <1>1 DEF Family, OfAirports
    <3> QED BY <2>2, <3>1, PlatesAreMatched
  <2> HIDE DEF rows
  <2>4. /\ db.dtpp = job.db.dtpp \o rows /\ db.airport = job.db.airport
        /\ db.runway = job.db.runway /\ db.frequency = job.db.frequency
        /\ db.procedure = job.db.procedure /\ db.leg = job.db.leg
    BY <1>1 DEF AddDtppCharts, Tables, EmptyBundle
  <2> HIDE DEF db
  <2>5. Family(db)
    BY <1>1, <2>3, <2>4, PlatesJoin
  <2> QED BY <1>2, <2>1, <2>5, KinArises
<1> QED
  BY <1>3, <1>4

LEMMA KinTiles == ASSUME Inv, KinInv, TileChart PROVE KinInv'
<1>1. IsJob(job, runs) /\ job # None /\ DOMAIN job.db = Tables /\ job.step \in Tiling
  BY DEF Inv, JobInv, IsJob, IsBundle, TileChart
<1>2. CASE Fail
  BY <1>1, <1>2, KinFails
<1>3. CASE ~Fail
  <2>1. PICK rows, todo, files : /\ AddCharts(job.db, rows) # None
                                 /\ job' = [job EXCEPT !.db = AddCharts(job.db, rows), !.todo = todo, !.files = files]
    <3> DEFINE parts == Parts(Head(job.todo), Found, job.charts.dates)
               Row(p) == [id |-> <<job.date, Slug(p)>>, kind |-> p.kind, file |-> Slug(p), sha256 |-> <<Slug(p), runs>>]
               rows == [i \in Places(parts) |-> Row(parts[i])]
               made == [i \in Places(parts) |-> <<Slug(parts[i]), <<Slug(parts[i]), runs>>>>]
               db == AddCharts(job.db, rows)
    <3>1. db # None /\ job' = [job EXCEPT !.db = db, !.todo = Tail(@), !.files = @ \o made]
      <4>1. CASE parts = None
        BY <1>3, <4>1 DEF TileChart
      <4>2. CASE parts # None /\ db = None
        BY <1>3, <4>2 DEF TileChart, MapSeq
      <4>3. CASE parts # None /\ db # None
        BY <1>3, <4>3 DEF TileChart, MapSeq
      <4> QED BY <4>1, <4>2, <4>3
    <3> HIDE DEF rows, made
    <3> QED BY <3>1
  <2> DEFINE db == AddCharts(job.db, rows)
  <2>2. SameFamily(db, job.db)
    <3>1. PICK table : db = [job.db EXCEPT !.chart = table]
      BY <2>1 DEF AddCharts
    <3> HIDE DEF db
    <3> QED BY <1>1, <3>1 DEF SameFamily, Tables, EmptyBundle
  <2> HIDE DEF db
  <2>3. job'.db = db /\ job'.step = job.step
    BY <1>1, <2>1 DEF IsJob, JobKeys, db
  <2> QED BY <1>1, <2>2, <2>3, KinStays DEF Tiling
<1> QED
  BY <1>2, <1>3

LEMMA KinMoves ==
    ASSUME Inv, KinInv,
           \/ DiscoverCharts \/ NextSeries \/ Validate \/ BeginPublish
           \/ CopyBundle \/ BeginArchive \/ CopyArchive \/ BeginPointer
    PROVE  KinInv'
<1>1. DOMAIN job = JobKeys /\ job # None
  BY DEF Inv, JobInv, IsJob, DiscoverCharts, NextSeries, Validate, BeginPublish, CopyBundle, BeginArchive,
         CopyArchive, BeginPointer, Stage
<1>2. CASE Fail
  BY <1>1, <1>2, KinFails
<1>3. CASE ~Fail
  <2>1. job'.db = job.db /\ job'.step \notin {"build", "airspace"}
    <3>1. CASE DiscoverCharts
      BY <1>1, <1>3, <3>1 DEF DiscoverCharts, JobKeys
    <3>2. CASE NextSeries
      <4>1. CASE job.step = "sectional"
        BY <1>1, <1>3, <3>2, <4>1 DEF NextSeries, JobKeys
      <4>2. CASE job.step = "enroute"
        BY <1>1, <1>3, <3>2, <4>2 DEF NextSeries, JobKeys
      <4>3. CASE job.step = "terminal"
        BY <1>1, <1>3, <3>2, <4>3 DEF NextSeries, JobKeys
      <4> QED BY <3>2, <4>1, <4>2, <4>3 DEF NextSeries, Tiling
    <3>3. CASE Validate
      BY <1>1, <1>3, <3>3 DEF Validate, JobKeys
    <3>4. CASE BeginPublish \/ CopyBundle \/ BeginArchive
      BY <1>1, <3>4 DEF BeginPublish, CopyBundle, BeginArchive, JobKeys
    <3>5. CASE CopyArchive \/ BeginPointer
      BY <1>1, <3>5 DEF CopyArchive, BeginPointer, JobKeys
    <3> QED BY <3>1, <3>2, <3>3, <3>4, <3>5
  <2> QED BY <1>1, <2>1, KinOfJob
<1> QED
  BY <1>2, <1>3

LEMMA NextKin == Inv /\ KinInv /\ [Next]_vars => KinInv'
<1> SUFFICES ASSUME Inv, KinInv, [Next]_vars PROVE KinInv'
  OBVIOUS
<1>1. CASE \E feed \in DOMAIN Feeds : Start(feed)
  BY <1>1, KinStarts
<1>2. CASE FetchSources \/ Build \/ AddBoundaries
  BY <1>2, KinFetches, KinBuilds, KinBoundaries
<1>3. CASE AddExport \/ AddCommunity \/ AddRoutes \/ AddPlates \/ TileChart
  BY <1>3, KinExport, KinCommunity, KinRoutes, KinPlates, KinTiles
<1>4. CASE \/ DiscoverCharts \/ NextSeries \/ Validate \/ BeginPublish
           \/ CopyBundle \/ BeginArchive \/ CopyArchive \/ BeginPointer
  BY <1>4, KinMoves
<1>5. CASE WritePointer \/ Exit \/ Kill
  BY <1>5 DEF WritePointer, Exit, Kill, KinInv
<1>6. CASE RequestManifest \/ AnswerManifest \/ UNCHANGED vars
  BY <1>6 DEF RequestManifest, AnswerManifest, vars, KinInv
<1> QED
  BY <1>1, <1>2, <1>3, <1>4, <1>5, <1>6 DEF Next, Step

LEMMA SpecKin == Spec => []KinInv
<1>1. Init => KinInv
  BY DEF Init, KinInv
<1>2. Inv /\ KinInv /\ [Next]_vars => KinInv'
  BY NextKin
<1> QED
  BY <1>1, <1>2, SpecInv, PTL DEF Spec

LEMMA KinMeansParents == KinInv => ChildrenHaveParents
<1> SUFFICES ASSUME KinInv, job # None PROVE ChildrenHaveParents
  BY DEF ChildrenHaveParents
<1> DEFINE db == job.db
<1>1. OfAirports(db) /\ OfProcedures(db)
  BY DEF KinInv, IsKin, Family
<1> HIDE DEF db
<1>2. /\ \A i \in Places(db.runway) : db.runway[i].airport \in DOMAIN db.airport
      /\ \A i \in Places(db.frequency) : db.frequency[i].airport \in DOMAIN db.airport
  BY <1>1 DEF OfAirports, AirportsIn
<1>3. \A i \in Places(db.dtpp) : db.dtpp[i].airport \in DOMAIN db.airport
  BY <1>1 DEF OfProcedures, PlateOf
<1>4. /\ \A p \in DOMAIN db.procedure : p[1] \in DOMAIN db.airport
      /\ \A t \in DOMAIN db.leg : t[1] \in DOMAIN db.procedure
  BY <1>1 DEF OfAirports
<1>5. \A i \in Places(db.dtpp) :
        \/ db.dtpp[i].procedure = AirportDiagramIdent
        \/ \E p \in DOMAIN db.procedure : p[1] = db.dtpp[i].airport /\ p[3] = db.dtpp[i].procedure
  BY <1>1 DEF OfProcedures, PlateOf
<1> QED
  BY <1>2, <1>3, <1>4, <1>5 DEF ChildrenHaveParents, References, db

LEMMA KinMeansFixes == KinInv => NamedFixesAreThere
<1> SUFFICES ASSUME KinInv, job # None, job.step = "airspace" PROVE NamedFixesAreThere
  BY DEF NamedFixesAreThere
<1> DEFINE db == job.db
           lines == FetchCifp(Found.cifp).file
<1>1. FixesAnswer(db, lines)
  BY DEF KinInv, IsKin, Found
<1> HIDE DEF db, lines
<1> QED
  BY <1>1 DEF NamedFixesAreThere, FixesAnswer, NamedFixes, LegLists, MapSeq, Vhf, Ndb, Waypoints, db, lines

---------------------------------------------------------------------------
(* The theorems.                                                           *)

(* Whatever its sources list, the airports a run counts (stats.airports)   *)
(* are those of its bundle, at every step: what inserts ignored or other   *)
(* sources replaced is never counted twice.                                *)
THEOREM CountsMatch == Spec => []StatsMatchTheBundle
<1>1. Inv => StatsMatchTheBundle
  BY DEF Inv, JobInv, IsJob, StatsMatchTheBundle
<1> QED
  BY <1>1, SpecInv, PTL

(* For every file the sources may give: the rows of a bundle have the      *)
(* parents they name at every step of a run, through two passes over the   *)
(* file, airports that other sources bring and plates matched late; and    *)
(* each fix that a leg names has its one row of each kind that the file    *)
(* defines (build_bundle, match_dtpp_charts).                              *)
THEOREM BundlesAreConsistent == Spec => []BundleIsConsistent
<1>1. Inv /\ KinInv => BundleIsConsistent
  BY KinMeansParents, KinMeansFixes DEF BundleIsConsistent, Inv, JobInv, IsJob, StatsMatchTheBundle
<1> QED
  BY <1>1, SpecInv, SpecKin, PTL

(* For every feed: no source of preferred routes and no plate index makes  *)
(* a run fail (add_preferred_routes, add_dtpp_metadata in pipeline.rs).    *)
THEOREM ExtrasAreHarmless == Spec => []ExtrasNeverFailARun
<1>1. Inv => ExtrasNeverFailARun
  BY DEF Inv, JobInv, IsJob, ExtrasNeverFailARun
<1> QED
  BY <1>1, SpecInv, PTL

(* For every number of cycles and feeds, and runs killed at any step: a    *)
(* whole bundle on disk passed validation for the cycle it lies under, and *)
(* the pointer names a cycle whose catalogue agrees with its archives.     *)
THEOREM PublishedCyclesAreSound == Spec => []PublishedIsSound
<1>1. Inv => PublishedIsSound
  BY DEF Inv, PublishedIsSound
<1> QED
  BY <1>1, SpecInv, PTL

(* Clients never see the number of airports fall below half from one whole *)
(* bundle to the next, whatever runs failed or were killed between the     *)
(* validation against the last bundle and the pointer (validate_bundle).   *)
THEOREM NeverCollapses == Spec => ServedNeverCollapses
<1>1. Inv /\ [Next]_vars => (served # None /\ served' # served => served' * 2 >= served)
  <2> SUFFICES ASSUME Inv, [Next]_vars, served' # served
               PROVE  served # None => served' * 2 >= served
    OBVIOUS
  <2>1. CopyBundle \/ WritePointer
    BY DEF Next, Step, vars, disk, Start, FetchSources, Build, AddBoundaries, AddExport, AddCommunity, AddRoutes,
           AddPlates, DiscoverCharts, TileChart, NextSeries, Validate, BeginPublish, BeginArchive, CopyArchive,
           BeginPointer, Exit, Kill, RequestManifest, AnswerManifest
  <2> QED BY <2>1, CopyBundleKeeps, WritePointerKeeps
<1>2. Inv /\ [Next]_vars => [served # None /\ served' # served => served' * 2 >= served]_vars
  BY <1>1
<1> QED
  BY <1>2, SpecInv, PTL DEF Spec, ServedNeverCollapses

(* GET /cycles/latest answers with the digest of a torn bundle only for a  *)
(* cycle that is being published over, or was when its run was killed.     *)
THEOREM TornOnlyWhenInterrupted == Spec => ManifestIsOfAWholeBundle
<1>1. Inv /\ [Next]_vars =>
        (manifest' # manifest /\ manifest'.content = Torn /\ manifest'.cycle # None => manifest'.cycle \in interrupted)
  <2> SUFFICES ASSUME Inv, [Next]_vars, manifest' # manifest, manifest'.content = Torn, manifest'.cycle # None
               PROVE  manifest'.cycle \in interrupted
    OBVIOUS
  <2>1. RequestManifest \/ AnswerManifest
    BY DEF Next, Step, vars, disk, Start, FetchSources, Build, AddBoundaries, AddExport, AddCommunity, AddRoutes,
           AddPlates, DiscoverCharts, TileChart, NextSeries, Validate, BeginPublish, CopyBundle, BeginArchive,
           CopyArchive, BeginPointer, WritePointer, Exit, Kill
  <2>2. CASE RequestManifest
    BY <2>2 DEF RequestManifest
  <2>3. CASE AnswerManifest
    <3>1. request \in Cycles /\ manifest' = [cycle |-> request, content |-> Digest(published[request].db)]
      BY <2>3 DEF AnswerManifest, Inv, PointerInv
    <3>2. published[request].db = Torn
      BY <3>1, Apart DEF Digest
    <3> QED BY <3>1, <3>2 DEF Inv, DiskInv
  <2> QED BY <2>1, <2>2, <2>3
<1>2. Inv /\ [Next]_vars =>
        [manifest' # manifest /\ manifest'.content = Torn /\ manifest'.cycle # None => manifest'.cycle \in interrupted]_vars
  BY <1>1
<1> QED
  BY <1>2, SpecInv, PTL DEF Spec, ManifestIsOfAWholeBundle

---------------------------------------------------------------------------
(* The files.                                                              *)

(* A file is a sequence of records of its format.                          *)
IsFile == format \in DOMAIN Records /\ contents \in Seq(Records[format])

LEMMA FilesAreRead == ReadingSpec => []IsFile
<1>1. ReadingInit => IsFile
  BY DEF ReadingInit, IsFile
<1>2. IsFile /\ [ReadingNext]_reading => IsFile'
  BY DEF IsFile, ReadingNext, ReadRecord, reading
<1> QED
  BY <1>1, <1>2, PTL DEF ReadingSpec

(* What the sheet loses at one edge ends before the first run of content   *)
(* that is wide enough.                                                    *)
LEMMA CutBeforeContent ==
    ASSUME NEW white \in Seq(BOOLEAN), NEW i \in 1..(Len(white) - Run + 1),
           \A j \in i..(i + Run - 1) : ~white[j]
    PROVE  EdgeCut(white) \in Nat /\ EdgeCut(white) < i
<1> DEFINE ContentFrom(k) == \A j \in k..Min({k + Run - 1, Len(white)}) : ~white[j]
           starts == {k \in Places(white) : ContentFrom(k)}
<1>1. Run \in Nat \ {0} /\ Len(white) \in Nat
  BY RunIsCount
<1>2. Min({i + Run - 1, Len(white)}) = i + Run - 1
  <2>1. i + Run - 1 \in Nat /\ i + Run - 1 <= Len(white)
    BY <1>1
  <2> QED BY <1>1, <2>1 DEF Min
<1>3. i \in starts
  BY <1>1, <1>2 DEF Places
<1>4. starts \in SUBSET Nat
  BY <1>1 DEF Places
<1>5. EdgeCut(white) = IF starts = {} THEN 0 ELSE Min(starts) - 1
  BY DEF EdgeCut
<1> HIDE DEF starts
<1>6. Min(starts) \in starts /\ Min(starts) <= i
  BY <1>3, <1>4, MinOfNaturals
<1> DEFINE least == Min(starts)
<1> HIDE DEF ContentFrom, least
<1>7. starts # {} /\ least \in Nat \ {0} /\ least <= i
  <2>1. \A x \in starts : x \in Nat \ {0}
    BY <1>1 DEF starts, Places
  <2>2. starts # {}
    BY <1>3
  <2> QED BY <1>6, <2>1, <2>2 DEF least
<1>8. i \in Int
  OBVIOUS
<1> QED
  BY <1>5, <1>7, <1>8 DEF least

(* On the sheet a cut is half a column too deep at most.                   *)
LEMMA RoundedCut ==
    ASSUME NEW e \in Nat, NEW m \in Nat, e <= m, NEW full \in Nat \ {0}, NEW w \in Nat \ {0}
    PROVE  Rounded(e * full, w) \in Int /\ 2 * Rounded(e * full, w) * w <= 2 * m * full + w
<1> DEFINE n == e * full
           most == m * full
           d == 2 * w
           a == 2 * n + w
           q == a \div d
<1>1. n \in Nat /\ most \in Nat /\ n <= most
  BY SMT
<1>2. Rounded(n, w) = q
  BY <1>1 DEF Rounded
<1>3. 2 * m * full = 2 * most
  BY SMT
<1> HIDE DEF n, most
<1>4. a \in Nat /\ d \in Nat \ {0} /\ a <= 2 * most + w
  BY <1>1
<1> HIDE DEF a
<1>5. q \in Int /\ q * d <= a /\ q * d \in Int
  <2> HIDE DEF d
  <2> QED BY <1>4
<1> HIDE DEF q
<1>6. 2 * q * w = q * d
  BY <1>5, SMT DEF d
<1> QED
  BY <1>1, <1>2, <1>3, <1>4, <1>5, <1>6 DEF n

LEMMA TheChartIsKept == IsFile => CropKeepsTheChart
<1> SUFFICES ASSUME IsFile, format = "columns", contents # <<>>, NEW fw \in SheetWidths,
                    NEW i \in 1..(Len(contents) - Run + 1), \A j \in i..(i + Run - 1) : ~contents[j]
             PROVE  LET w == Len(contents)
                        window == CropLegendAndCollar(contents, fw) IN
                    /\ 2 * window.left * w <= 2 * (i - 1) * fw + w
                    /\ 2 * window.right * w >= 2 * (i + Run - 1) * fw - w
  BY DEF CropKeepsTheChart, OfFormat
<1> DEFINE n == Len(contents)
           back == Reverse(contents)
           k == n - (i + Run - 1) + 1
<1>1. contents \in Seq(BOOLEAN)
  <2>1. contents \in Seq(Records["columns"]) /\ Records["columns"] \subseteq BOOLEAN
    BY ScansAreMeasured DEF IsFile
  <2> QED BY <2>1
<1>2. n \in Nat \ {0} /\ Run \in Nat \ {0} /\ fw \in Nat \ {0}
  BY <1>1, RunIsCount, ScansAreMeasured
<1>3. back \in Seq(BOOLEAN) /\ Len(back) = n /\ \A j \in 1..n : back[j] = contents[n - j + 1]
  <2>1. back = [j \in 1..n |-> contents[(n - j) + 1]]
    BY DEF Reverse
  <2>2. \A j \in 1..n : contents[(n - j) + 1] \in BOOLEAN
    BY <1>1, <1>2
  <2> HIDE DEF back, n
  <2>3. back \in [1..n -> BOOLEAN]
    BY <2>1, <2>2
  <2> QED BY <1>2, <2>1, <2>3
<1>4. k \in 1..(Len(back) - Run + 1)
  BY <1>2, <1>3
<1>5. \A j \in k..(k + Run - 1) : ~back[j]
  <2> SUFFICES ASSUME NEW j \in k..(k + Run - 1) PROVE ~back[j]
    OBVIOUS
  <2>1. n - j + 1 \in i..(i + Run - 1) /\ j \in 1..n
    BY <1>2
  <2>2. back[j] = contents[n - j + 1]
    BY <1>3, <2>1
  <2> QED BY <2>1, <2>2
<1>6. EdgeCut(back) \in Nat /\ EdgeCut(back) < k
  <2> HIDE DEF back, k
  <2> QED BY <1>3, <1>4, <1>5, CutBeforeContent
<1>7. EdgeCut(contents) \in Nat /\ EdgeCut(contents) < i
  BY <1>1, CutBeforeContent
<1> DEFINE before == Rounded(EdgeCut(contents) * fw, n)
           behind == Rounded(EdgeCut(back) * fw, n)
           window == CropLegendAndCollar(contents, fw)
<1>8. window.left = before /\ window.right = fw - behind
  BY <1>3 DEF CropLegendAndCollar
<1> HIDE DEF back, n, window
<1>9. before \in Int /\ 2 * before * n <= 2 * (i - 1) * fw + n
  <2>1. i - 1 \in Nat /\ EdgeCut(contents) <= i - 1
    BY <1>7
  <2> QED BY <1>2, <1>7, <2>1, RoundedCut
<1>10. behind \in Int /\ 2 * behind * n <= 2 * (k - 1) * fw + n
  <2>1. k - 1 \in Nat /\ EdgeCut(back) <= k - 1
    BY <1>2, <1>3, <1>4, <1>6
  <2> HIDE DEF k
  <2> QED BY <1>2, <1>6, <2>1, RoundedCut
<1> HIDE DEF before, behind
<1>11. 2 * (fw - behind) * n >= 2 * (i + Run - 1) * fw - n
  <2> DEFINE e == i + Run - 1
  <2>1. e \in Int /\ k - 1 = n - e
    BY <1>2
  <2>2. 2 * behind * n <= 2 * (n - e) * fw + n
    BY <1>10, <2>1
  <2> HIDE DEF e
  <2>3. 2 * (fw - behind) * n = 2 * fw * n - 2 * behind * n
    BY <1>2, <1>10, SMT
  <2>4. 2 * (n - e) * fw = 2 * fw * n - 2 * e * fw
    BY <1>2, <2>1, SMT
  <2>5. 2 * behind * n \in Int /\ 2 * fw * n \in Int /\ 2 * e * fw \in Int
    BY <1>2, <1>10, <2>1
  <2>6. 2 * (fw - behind) * n >= 2 * e * fw - n
    BY <1>2, <2>2, <2>3, <2>4, <2>5
  <2> QED BY <2>6 DEF e
<1> QED
  BY <1>8, <1>9, <1>11 DEF n, window

---------------------------------------------------------------------------
(* The frame.                                                              *)

(* Of finitely many things some measure most.                              *)
LEMMA SomeLargest ==
    ASSUME NEW S, IsFiniteSet(S), S # {}, NEW f \in [S -> Int]
    PROVE  {x \in S : \A y \in S : f[y] <= f[x]} # {}
<1> DEFINE T == {f[x] : x \in S}
<1>1. T \in SUBSET Int /\ T # {}
  OBVIOUS
<1>2. IsFiniteSet(T)
  <2>1. f \in Surjection(S, T)
    BY DEF Surjection
  <2> QED BY <2>1, FS_Surjection
<1> HIDE DEF T
<1>3. Max(T) \in T /\ \A t \in T : t <= Max(T)
  BY <1>1, <1>2, MaxOfInts
<1>4. PICK x \in S : f[x] = Max(T)
  BY <1>3 DEF T
<1> QED
  BY <1>3, <1>4 DEF T

(* A line of the frame begins and ends with a row of it.                   *)
LEMMA ClustersOfLines ==
    ASSUME NEW lines \in SUBSET Nat, IsFiniteSet(lines)
    PROVE  /\ IsFiniteSet(ClusterLines(lines))
           /\ \A c \in ClusterLines(lines) : c[1] \in lines /\ c[2] \in lines /\ c[1] <= c[2]
<1> DEFINE firsts == {y \in lines : \A z \in lines : z < y => z + MergePx < y}
           lasts == {y \in lines : \A z \in lines : y < z => y + MergePx < z}
           Cluster(y) == <<y, Min({z \in lasts : y <= z})>>
<1>1. ClusterLines(lines) = {Cluster(y) : y \in firsts}
  BY DEF ClusterLines
<1>2. IsFiniteSet(firsts)
  BY FS_Subset
<1>3. ASSUME NEW y \in firsts PROVE Cluster(y)[1] \in lines /\ Cluster(y)[2] \in lines /\ Cluster(y)[1] <= Cluster(y)[2]
  <2> DEFINE later == {z \in lasts : y <= z}
  <2>1. Max(lines) \in lines /\ \A x \in lines : x <= Max(lines)
    <3>1. lines \in SUBSET Int /\ lines # {}
      OBVIOUS
    <3> QED BY <3>1, MaxOfInts
  <2> DEFINE m == Max(lines)
  <2>2. m \in later
    <3> HIDE DEF m
    <3>1. m \in lines /\ m \in Nat /\ y \in lines /\ y <= m
      BY <2>1 DEF m
    <3>2. \A z \in lines : ~(m < z)
      <4>1. \A z \in lines : z <= m /\ z \in Nat
        BY <2>1 DEF m
      <4> QED BY <3>1, <4>1
    <3> QED BY <3>1, <3>2
  <2>3. later \in SUBSET Nat /\ later # {}
    BY <2>2
  <2> HIDE DEF later
  <2>4. Min(later) \in later
    BY <2>3, MinOfNaturals
  <2> QED BY <2>4 DEF later
<1>4. IsFiniteSet({Cluster(y) : y \in firsts})
  <2> DEFINE f == [y \in firsts |-> Cluster(y)]
  <2> HIDE DEF Cluster, firsts
  <2>1. f \in Surjection(firsts, {Cluster(y) : y \in firsts})
    BY DEF Surjection
  <2> QED BY <1>2, <2>1, FS_Surjection
<1> QED
  BY <1>1, <1>3, <1>4

LEMMA CellsAreFramed ==
    ASSUME NEW clusters, IsFiniteSet(clusters), \A c \in clusters : c[1] \in Nat /\ c[2] \in Nat,
           WidestCell(clusters) # None
    PROVE  \E c, d \in clusters : WidestCell(clusters) = <<c[1], d[2]>>
<1> DEFINE Neighbours(c, d) == c[2] < d[1] /\ \A e \in clusters : e[1] <= c[1] \/ d[1] <= e[1]
           cells == {cell \in clusters \X clusters : Neighbours(cell[1], cell[2])}
           Gap(cell) == cell[2][1] - cell[1][2]
           widest == {cell \in cells : \A other \in cells : Gap(other) <= Gap(cell)}
           tops == {cell[1][1] : cell \in widest}
           bottoms == {cell[2][2] : cell \in widest}
<1>1. cells # {} /\ WidestCell(clusters) = <<Max(tops), Max(bottoms)>>
  BY DEF WidestCell
<1>2. \A cell \in cells : /\ cell[1] \in clusters /\ cell[2] \in clusters
                          /\ Gap(cell) \in Int /\ cell[1][1] \in Int /\ cell[2][2] \in Int
  OBVIOUS
<1>3. IsFiniteSet(cells)
  <2>1. IsFiniteSet(clusters \X clusters)
    BY FS_Product
  <2> QED BY <2>1, FS_Subset
<1> HIDE DEF cells
<1>4. widest # {}
  <2> DEFINE f == [cell \in cells |-> Gap(cell)]
  <2>1. f \in [cells -> Int]
    BY <1>2
  <2>2. {x \in cells : \A y \in cells : f[y] <= f[x]} # {}
    <3> HIDE DEF f
    <3> QED BY <1>1, <1>3, <2>1, SomeLargest
  <2> QED BY <2>2
<1>5. IsFiniteSet(widest) /\ \A cell \in widest : cell \in cells
  BY <1>3, FS_Subset
<1> HIDE DEF widest, Gap
<1>6. Max(tops) \in tops
  <2>1. tops \in SUBSET Int /\ tops # {}
    BY <1>2, <1>4, <1>5
  <2> DEFINE f == [cell \in widest |-> cell[1][1]]
  <2>2. f \in Surjection(widest, tops)
    BY DEF Surjection
  <2>3. IsFiniteSet(tops)
    BY <1>5, <2>2, FS_Surjection
  <2> HIDE DEF tops
  <2> QED BY <2>1, <2>3, MaxOfInts
<1>7. Max(bottoms) \in bottoms
  <2>1. bottoms \in SUBSET Int /\ bottoms # {}
    BY <1>2, <1>4, <1>5
  <2> DEFINE f == [cell \in widest |-> cell[2][2]]
  <2>2. f \in Surjection(widest, bottoms)
    BY DEF Surjection
  <2>3. IsFiniteSet(bottoms)
    BY <1>5, <2>2, FS_Surjection
  <2> HIDE DEF bottoms
  <2> QED BY <2>1, <2>3, MaxOfInts
<1>8. PICK a \in widest : Max(tops) = a[1][1]
  BY <1>6
<1>9. PICK b \in widest : Max(bottoms) = b[2][2]
  BY <1>7
<1>10. a[1] \in clusters /\ b[2] \in clusters
  BY <1>2, <1>5
<1> QED
  BY <1>1, <1>8, <1>9, <1>10

(* The frame lies in the picture, and is not turned over.                  *)
LEMMA FramesAreInThePicture ==
    ASSUME NEW w \in Nat, NEW rows, Len(rows) \in Nat,
           \A y \in Places(rows) : rows[y] # None => \E a, b \in 1..w : a <= b /\ rows[y] = <<a, b>>,
           DetectNeatline(rows, w) # None
    PROVE  LET box == DetectNeatline(rows, w) IN
           box.left \in 1..w /\ box.right \in 1..w /\ box.left <= box.right
<1> DEFINE h == Len(rows)
           RunOf(y) == rows[y][2] - rows[y][1] + 1
           lines == {y \in Places(rows) : rows[y] # None /\ RunOf(y) >= (4 * w) \div 10}
           clusters == ClusterLines(lines)
           cell == WidestCell(clusters)
           Cluster(y) == CHOOSE c \in clusters : c[1] <= y /\ y <= c[2]
           Within(y) == {z \in lines : Cluster(y)[1] <= z /\ z <= Cluster(y)[2]}
           Span(y) == rows[Max({z \in Within(y) : \A v \in Within(y) : RunOf(v) <= RunOf(z)})]
           left == Min({Span(cell[1])[1], Span(cell[2])[1]})
           right == Max({Span(cell[1])[2], Span(cell[2])[2]})
<1>1. cell # None /\ DetectNeatline(rows, w) = [left |-> left, top |-> cell[1], right |-> right, bottom |-> cell[2]]
  BY DEF DetectNeatline
<1>2. lines \in SUBSET Nat /\ IsFiniteSet(lines)
  <2>1. IsFiniteSet(Places(rows)) /\ Places(rows) \in SUBSET Nat
    BY FS_Interval DEF Places
  <2> QED BY <2>1, FS_Subset
<1>3. ASSUME NEW y \in lines
      PROVE  rows[y][1] \in 1..w /\ rows[y][2] \in 1..w /\ rows[y][1] <= rows[y][2] /\ RunOf(y) \in Int
  <2>1. PICK a, b \in 1..w : a <= b /\ rows[y] = <<a, b>>
    OBVIOUS
  <2> QED BY <2>1
<1> HIDE DEF lines
<1>4. /\ IsFiniteSet(clusters)
      /\ \A c \in clusters : c[1] \in lines /\ c[2] \in lines /\ c[1] <= c[2]
  BY <1>2, ClustersOfLines
<1> HIDE DEF clusters
<1>5. PICK c, d \in clusters : cell = <<c[1], d[2]>>
  <2>1. \A e \in clusters : e[1] \in Nat /\ e[2] \in Nat
    BY <1>2, <1>4
  <2> QED BY <1>1, <1>4, <2>1, CellsAreFramed
<1> HIDE DEF cell
<1>6. ASSUME NEW y \in {c[1], d[2]} PROVE \E z \in lines : Span(y) = rows[z]
  <2>1. \E e \in clusters : e[1] <= y /\ y <= e[2]
    <3>1. c[1] \in Nat /\ c[2] \in Nat /\ d[1] \in Nat /\ d[2] \in Nat
      BY <1>2, <1>4
    <3>2. c[1] <= c[1] /\ c[1] <= c[2] /\ d[1] <= d[2] /\ d[2] <= d[2]
      BY <1>4, <3>1
    <3> QED BY <3>2
  <2>2. Cluster(y) \in clusters
    BY <2>1
  <2> HIDE DEF Cluster
  <2>3. Cluster(y)[1] \in Within(y)
    <3>1. Cluster(y)[1] \in lines /\ Cluster(y)[1] \in Nat /\ Cluster(y)[1] <= Cluster(y)[2]
      BY <1>2, <1>4, <2>2
    <3> QED BY <3>1
  <2> DEFINE in == Within(y)
             f == [z \in in |-> RunOf(z)]
             most == {z \in in : \A v \in in : f[v] <= f[z]}
  <2>4. IsFiniteSet(in) /\ in # {} /\ \A z \in in : z \in lines
    BY <1>2, <2>3, FS_Subset
  <2>5. Span(y) = rows[Max({z \in in : \A v \in in : RunOf(v) <= RunOf(z)})]
    OBVIOUS
  <2> HIDE DEF in, Span, Within
  <2>6. f \in [in -> Int]
    BY <1>3, <2>4
  <2>7. Span(y) = rows[Max(most)]
    <3>1. most = {z \in in : \A v \in in : RunOf(v) <= RunOf(z)}
      OBVIOUS
    <3> QED BY <2>5, <3>1
  <2>8. most # {}
    <3> HIDE DEF f
    <3> QED BY <2>4, <2>6, SomeLargest
  <2>9. IsFiniteSet(most) /\ \A z \in most : z \in lines
    BY <2>4, FS_Subset
  <2> HIDE DEF f, most
  <2>10. most \in SUBSET Int
    <3>1. ASSUME NEW z \in most PROVE z \in Int
      <4>1. z \in lines
        BY <2>9
      <4> QED BY <1>2, <4>1
    <3> QED BY <3>1
  <2>11. Max(most) \in most
    BY <2>8, <2>9, <2>10, MaxOfInts
  <2> QED BY <2>7, <2>9, <2>11
<1>7. cell[1] = c[1] /\ cell[2] = d[2]
  BY <1>5
<1> HIDE DEF Span
<1>8. PICK s \in lines : Span(cell[1]) = rows[s]
  BY <1>6, <1>7
<1>9. PICK t \in lines : Span(cell[2]) = rows[t]
  BY <1>6, <1>7
<1> DEFINE p == rows[s]
           q == rows[t]
<1>10. p[1] \in 1..w /\ p[2] \in 1..w /\ p[1] <= p[2] /\ q[1] \in 1..w /\ q[2] \in 1..w /\ q[1] <= q[2]
  BY <1>3
<1>11. left = Min({p[1], q[1]}) /\ right = Max({p[2], q[2]})
  BY <1>8, <1>9
<1> HIDE DEF left, right, p, q
<1>12. left \in {p[1], q[1]} /\ left <= p[1] /\ left <= q[1]
  <2>1. {p[1], q[1]} \in SUBSET Nat /\ {p[1], q[1]} # {}
    BY <1>10
  <2> QED BY <1>11, <2>1, MinOfNaturals
<1>13. right \in {p[2], q[2]} /\ p[2] <= right /\ q[2] <= right
  <2>1. {p[2], q[2]} \in SUBSET Int /\ {p[2], q[2]} # {}
    BY <1>10
  <2>2. IsFiniteSet({p[2]} \cup {q[2]}) /\ {p[2]} \cup {q[2]} = {p[2], q[2]}
    BY FS_Singleton, FS_Union
  <2>3. IsFiniteSet({p[2], q[2]})
    BY <2>2
  <2> QED BY <1>11, <2>1, <2>3, MaxOfInts
<1>14. left \in 1..w /\ right \in 1..w /\ left <= right
  BY <1>10, <1>12, <1>13
<1> QED
  BY <1>1, <1>14

(* A window of the preview, on the sheet: floor and ceiling keep its own   *)
(* columns in it, and the sheet's edge is as far as it goes.               *)
LEMMA ScaledOutwards ==
    ASSUME NEW w \in Nat \ {0}, NEW fw \in Nat \ {0}, NEW left \in 1..w, NEW right \in 1..w, left <= right
    PROVE  LET cut == ToSource(left, right, w, fw) IN
           /\ cut.left * w <= (left - 1) * fw /\ cut.right * w >= right * fw
           /\ 0 <= cut.left /\ cut.left < cut.right /\ cut.right <= fw
<1> DEFINE a == (left - 1) * fw
           b == right * fw
           floor == a \div w
           ceiling == (b + w - 1) \div w
           edge == Min({fw, ceiling})
<1>1. a \in Int /\ b \in Int /\ a >= 0 /\ a + fw <= b
  <2>1. left - 1 \in Nat /\ left \in Nat /\ right \in Nat
    OBVIOUS
  <2>2. (left - 1) * fw \in Nat /\ right * fw \in Nat
    BY <2>1
  <2>3. (left - 1) * fw + fw = left * fw
    BY <2>1
  <2>4. left * fw <= right * fw
    BY <2>1, SMT
  <2> QED BY <2>2, <2>3, <2>4
<1>2. b <= fw * w /\ fw * w \in Nat
  <2>1. right <= w /\ right \in Nat /\ w \in Nat /\ fw \in Nat
    OBVIOUS
  <2> QED BY <2>1, SMT
<1> HIDE DEF a, b
<1>3. floor \in Int /\ floor * w <= a /\ floor >= 0 /\ floor * w \in Int
  BY <1>1
<1>4. ceiling \in Int /\ b + w - 1 < ceiling * w + w /\ ceiling * w \in Int
  BY <1>1
<1> HIDE DEF floor, ceiling
<1>5. b <= ceiling * w
  BY <1>1, <1>4
<1>6. edge \in {fw, ceiling} /\ edge <= fw
  BY <1>4 DEF Min
<1> HIDE DEF edge
<1>7. b <= edge * w /\ edge * w \in Int /\ edge \in Int
  BY <1>2, <1>4, <1>5, <1>6
<1>8. floor < edge
  <2> SUFFICES ASSUME edge <= floor PROVE FALSE
    BY <1>3, <1>7
  <2>1. edge * w <= floor * w
    BY <1>3, <1>7, SMT
  <2> QED BY <1>1, <1>3, <1>7, <2>1
<1>9. ToSource(left, right, w, fw) = [left |-> floor, right |-> edge]
  BY DEF ToSource, floor, edge, ceiling, a, b
<1> QED
  BY <1>3, <1>6, <1>7, <1>8, <1>9 DEF a, b

LEMMA TheFrameIsCut == IsFile => FrameIsInsideTheCut
<1> SUFFICES ASSUME IsFile, format = "rows", DetectNeatline(contents, PreviewWidth) # None, NEW fw \in SheetWidths
             PROVE  LET box == DetectNeatline(contents, PreviewWidth)
                        cut == ToSource(box.left, box.right, PreviewWidth, fw) IN
                    /\ cut.left * PreviewWidth <= (box.left - 1) * fw
                    /\ cut.right * PreviewWidth >= box.right * fw
                    /\ 0 <= cut.left /\ cut.left < cut.right /\ cut.right <= fw
  BY DEF FrameIsInsideTheCut, OfFormat
<1> DEFINE w == PreviewWidth
           box == DetectNeatline(contents, w)
<1>1. w \in Nat \ {0} /\ fw \in Nat \ {0}
  BY ScansAreMeasured
<1>2. box.left \in 1..w /\ box.right \in 1..w /\ box.left <= box.right
  <2>1. contents \in Seq(Records["rows"])
    BY DEF IsFile
  <2>2. ASSUME NEW y \in Places(contents), contents[y] # None
        PROVE  \E a, b \in 1..w : a <= b /\ contents[y] = <<a, b>>
    <3>1. contents[y] \in Records["rows"]
      BY <2>1 DEF Places
    <3> QED BY <2>2, <3>1, ScansAreMeasured
  <2>3. Len(contents) \in Nat
    BY <2>1
  <2> QED BY <1>1, <2>2, <2>3, FramesAreInThePicture
<1> HIDE DEF box, w
<1> QED
  BY <1>1, <1>2, ScaledOutwards DEF box, w

(* However the columns and rows of a scan look, and whatever sheet it was  *)
(* shrunk from: of a run of content that is wide enough the search for     *)
(* white bands takes half a column of the sheet at most, and the frame     *)
(* that is found stays in the window cut from the sheet                    *)
(* (crop_legend_and_collar, crop_to_neatline).                             *)
THEOREM ChartsAreKept == ReadingSpec => []CutKeepsTheChart
<1>1. IsFile => CutKeepsTheChart
  BY TheChartIsKept, TheFrameIsCut DEF CutKeepsTheChart
<1> QED
  BY <1>1, FilesAreRead, PTL

---------------------------------------------------------------------------
(* Runway ends.                                                            *)

(* Of some places the first by number, and of equal numbers by place.      *)
LEMMA FirstByNumber ==
    ASSUME NEW places \in SUBSET Nat, places # {}, NEW num, \A i \in places : num[i] \in Nat
    PROVE  \E k \in places : \A j \in places : num[k] < num[j] \/ (num[k] = num[j] /\ k <= j)
<1> DEFINE numbers == {num[i] : i \in places}
<1>1. PICK n \in numbers : \A m \in numbers : n <= m
  <2>1. numbers \in SUBSET Nat /\ numbers # {}
    OBVIOUS
  <2> HIDE DEF numbers
  <2> QED BY <2>1, LeastNatural
<1> DEFINE lowest == {i \in places : num[i] = n}
<1>2. PICK k \in lowest : \A m \in lowest : k <= m
  <2>1. lowest \in SUBSET Nat /\ lowest # {}
    OBVIOUS
  <2> HIDE DEF lowest
  <2> QED BY <2>1, LeastNatural
<1>3. ASSUME NEW j \in places PROVE num[k] < num[j] \/ (num[k] = num[j] /\ k <= j)
  <2>1. num[k] = n /\ n <= num[j] /\ n \in Nat /\ num[j] \in Nat
    BY <1>1, <1>2
  <2>2. num[j] = n => k <= j
    BY <1>2
  <2> HIDE DEF lowest, numbers
  <2> QED BY <2>1, <2>2
<1> QED
  BY <1>2, <1>3

(* With rows for a lower and a higher number, whatever lies between them   *)
(* in the file: the first two by number do not descend.                    *)
LEMMA LowBeforeHigh == IsFile => LowEndIsTheLower
<1> DEFINE ten == [num |-> 10, sfx |-> ""]
           twentyEight == [num |-> 28, sfx |-> ""]
           rwy == [id |-> <<ten, twentyEight>>, length |-> 1, surface |-> <<>>]
           r == RunwayFromRows(rwy, contents, None)
           matching == {i \in Places(contents) : contents[i].rwy = rwy.id}
<1>0. SUFFICES ASSUME IsFile, {contents[i].end : i \in matching} = HalvesOf(rwy)
             PROVE  r.low.ident.num <= r.high.ident.num
  BY DEF LowEndIsTheLower, OfFormat
<1> DEFINE num == [i \in matching |-> EndNumber(contents[i].end)]
           IsFirst(k, places) == \A j \in places : num[k] < num[j] \/ (num[k] = num[j] /\ k <= j)
           First(places) == CHOOSE k \in places : \A j \in places :
                              \/ EndNumber(contents[k].end) < EndNumber(contents[j].end)
                              \/ EndNumber(contents[k].end) = EndNumber(contents[j].end) /\ k <= j
           others == {i \in matching : i # First(matching)}
<1>1. HalvesOf(rwy) = {ten, twentyEight}
  BY DEF HalvesOf
<1>2. matching \in SUBSET Nat
  <2>1. Places(contents) \in SUBSET Nat
    BY DEF Places
  <2> QED BY <2>1
<1>3. r = [airport |-> None, ident |-> rwy.id, length |-> rwy.length, surface |-> SurfaceType(rwy.surface),
           low |-> IF matching = {} THEN [ident |-> rwy.id[1], heading |-> 0]
                   ELSE [ident |-> contents[First(matching)].end, heading |-> contents[First(matching)].heading],
           high |-> IF others = {} THEN [ident |-> rwy.id[2], heading |-> 0]
                    ELSE [ident |-> contents[First(others)].end, heading |-> contents[First(others)].heading]]
  BY DEF RunwayFromRows
<1>4. /\ \A i \in matching : contents[i].end \in {ten, twentyEight}
      /\ \E i, j \in matching : contents[i].end = ten /\ contents[j].end = twentyEight
  <2> HIDE DEF rwy, ten, twentyEight, matching
  <2> QED BY <1>0, <1>1
<1> HIDE DEF r, matching, First, IsFirst, rwy
<1>5. \A i \in matching : num[i] \in Nat /\ num[i] = contents[i].end.num /\ num[i] = EndNumber(contents[i].end)
  <2> SUFFICES ASSUME NEW i \in matching
               PROVE  num[i] \in Nat /\ num[i] = contents[i].end.num /\ num[i] = EndNumber(contents[i].end)
    OBVIOUS
  <2>1. contents[i].end.num \in {10, 28}
    <3>1. ten.num = 10 /\ twentyEight.num = 28
      OBVIOUS
    <3> HIDE DEF ten, twentyEight
    <3> QED BY <1>4, <3>1
  <2>2. contents[i].end.num # None
    <3>1. 10 # None /\ 28 # None
      BY NoneIsNoField
    <3> QED BY <2>1, <3>1
  <2>3. num[i] = EndNumber(contents[i].end)
    OBVIOUS
  <2>4. EndNumber(contents[i].end) = contents[i].end.num
    BY <2>2 DEF EndNumber
  <2> QED BY <2>1, <2>3, <2>4
<1>6. \E i, j \in matching : i # j
  <2>1. ten # twentyEight
    <3>1. ten.num = 10 /\ twentyEight.num = 28
      OBVIOUS
    <3> HIDE DEF ten, twentyEight
    <3> QED BY <3>1
  <2> HIDE DEF ten, twentyEight
  <2> QED BY <1>4, <2>1
<1> HIDE DEF num
<1>7. ASSUME NEW places \in SUBSET matching, places # {}
      PROVE  First(places) \in places /\ IsFirst(First(places), places)
  <2>1. \E k \in places : IsFirst(k, places)
    <3>1. places \in SUBSET Nat /\ \A i \in places : num[i] \in Nat
      BY <1>2, <1>5
    <3> QED BY <1>7, <3>1, FirstByNumber DEF IsFirst
  <2>2. \A i \in places : EndNumber(contents[i].end) = num[i]
    BY <1>5
  <2> QED BY <2>1, <2>2 DEF First, IsFirst
<1> DEFINE a == First(matching)
           b == First(others)
<1>8. matching # {} /\ others # {} /\ others \in SUBSET matching
  <2>1. PICK i, j \in matching : i # j
    BY <1>6
  <2>2. i # First(matching) \/ j # First(matching)
    BY <2>1
  <2>3. others # {}
    BY <2>2
  <2> QED BY <2>1, <2>3
<1>9. a \in matching /\ IsFirst(a, matching) /\ b \in matching
  <2>1. b \in others
    BY <1>7, <1>8
  <2>2. matching \in SUBSET matching
    OBVIOUS
  <2>3. a \in matching /\ IsFirst(a, matching)
    <3> QED BY <1>7, <1>8, <2>2
  <2> QED BY <1>8, <2>1, <2>3
<1>10. r.low.ident = contents[a].end /\ r.high.ident = contents[b].end
  BY <1>3, <1>8
<1> HIDE DEF a, b
<1>11. num[a] <= num[b]
  <2>1. num[a] < num[b] \/ num[a] = num[b]
    BY <1>9 DEF IsFirst
  <2> QED BY <1>5, <1>9, <2>1
<1> QED
  BY <1>5, <1>9, <1>10, <1>11

---------------------------------------------------------------------------
(* Fields without a code.                                                  *)

LEMMA ListingHasTheLibrary ==
    ASSUME NEW x
    PROVE  Listing!FlattenSeq(x) = FlattenSeq(x) /\ Listing!SetToSeq(x) = SetToSeq(x)
<1>1. Listing!FlattenSeq(x) = FlattenSeq(x)
  BY DEF Listing!FlattenSeq, FlattenSeq
<1>2. Listing!SetToSeq(x) = SetToSeq(x)
  <2>1. Listing!Cardinality(x) = Cardinality(x)
    BY DEF Listing!Cardinality, Cardinality
  <2> QED BY <2>1 DEF Listing!SetToSeq, SetToSeq, Listing!IsInjective, IsInjective
<1> QED
  BY <1>1, <1>2

(* A field is one row or none, under its own code or one that its place in *)
(* the listing makes.                                                      *)
LEMMA OneFieldOneRow ==
    ASSUME NEW a, NEW index
    PROVE  /\ IsFiniteSet(Listing!ConvertAirport(a, index))
           /\ \A x, y \in Listing!ConvertAirport(a, index) : x = y
           /\ \A x \in Listing!ConvertAirport(a, index) :
                x.icao = a.icao \/ x.icao = <<"OAIP", a.country, index>>
<1>1. CASE a.point = None
  BY <1>1, FS_EmptySet DEF Listing!ConvertAirport
<1>2. CASE a.point # None
  <2> DEFINE row == [icao |-> IF a.icao # None THEN a.icao ELSE <<"OAIP", a.country, index>>,
                     faa_id |-> None, lat |-> a.point[1], lon |-> a.point[2], type |-> "Airport",
                     elevation |-> IF Listing!LengthFt(a.elevation) = None THEN 0 ELSE Listing!LengthFt(a.elevation)]
  <2>1. Listing!ConvertAirport(a, index) = {row}
    BY <1>2 DEF Listing!ConvertAirport
  <2>2. row.icao = a.icao \/ row.icao = <<"OAIP", a.country, index>>
    OBVIOUS
  <2> HIDE DEF row
  <2> QED BY <2>1, <2>2, FS_Singleton
<1> QED
  BY <1>1, <1>2

LEMMA UncodedStayApart == IsFile => UncodedFieldsStayApart
<1> DEFINE whole == [airports |-> contents, navaids |-> <<>>, airspaces |-> <<>>]
           rows == Listing!ConvertCountry(whole, "ED").airports
           sets == [k \in Places(contents) |-> Listing!ConvertAirport(contents[k], k)]
<1> SUFFICES ASSUME IsFile, NEW i \in Places(rows), NEW j \in Places(rows), i # j, rows[i].icao = rows[j].icao,
                    \A k \in Places(contents) : contents[k].icao # rows[i].icao
             PROVE  FALSE
  BY DEF UncodedFieldsStayApart, OfFormat
<1>1. rows = FlattenSeq([k \in Places(contents) |-> SetToSeq(sets[k])])
  <2> DEFINE theirs == [k \in 1..Len(contents) |-> Listing!SetToSeq(Listing!ConvertAirport(contents[k], k))]
  <2>1. rows = Listing!FlattenSeq(theirs)
    BY DEF Listing!ConvertCountry, Listing!Converted
  <2>2. theirs = [k \in Places(contents) |-> SetToSeq(sets[k])]
    BY ListingHasTheLibrary DEF Places
  <2> HIDE DEF theirs, sets, rows
  <2> QED BY <2>1, <2>2, ListingHasTheLibrary
<1>2. \A k \in Places(contents) :
        /\ IsFiniteSet(sets[k])
        /\ \A x, y \in sets[k] : x = y
        /\ \A x \in sets[k] : x.icao = contents[k].icao \/ x.icao = <<"OAIP", contents[k].country, k>>
  <2> SUFFICES ASSUME NEW k \in Places(contents)
               PROVE  /\ IsFiniteSet(sets[k])
                      /\ \A x, y \in sets[k] : x = y
                      /\ \A x \in sets[k] : x.icao = contents[k].icao \/ x.icao = <<"OAIP", contents[k].country, k>>
    OBVIOUS
  <2>1. sets[k] = Listing!ConvertAirport(contents[k], k)
    OBVIOUS
  <2> HIDE DEF sets
  <2> QED BY <2>1, OneFieldOneRow
<1>3. IsList(contents)
  BY DEF IsFile, IsList
<1> HIDE DEF rows, sets
<1>4. /\ \A k \in Places(rows) : rows[k] \in ToSet(rows)
      /\ ToSet(rows) = UNION {sets[k] : k \in Places(contents)}
  BY <1>1, <1>2, <1>3, Gathered
<1>5. PICK p \in Places(contents) : rows[i] \in sets[p]
  BY <1>4
<1>6. PICK q \in Places(contents) : rows[j] \in sets[q]
  BY <1>4
<1> DEFINE v == rows[i]
<1>7. v.icao = <<"OAIP", contents[p].country, p>> /\ rows[j].icao = <<"OAIP", contents[q].country, q>>
  BY <1>2, <1>5, <1>6
<1>8. p = q /\ rows[j] = v
  <2>1. <<"OAIP", contents[p].country, p>>[3] = <<"OAIP", contents[q].country, q>>[3]
    BY <1>7
  <2>2. p = q
    BY <2>1
  <2> QED BY <1>2, <1>5, <1>6, <2>2
<1>9. ASSUME NEW a \in Places(contents), NEW b \in Places(contents), a < b PROVE v \notin sets[a] \cap sets[b]
  <2> SUFFICES ASSUME v \in sets[a], v \in sets[b] PROVE FALSE
    OBVIOUS
  <2>1. v.icao = <<"OAIP", contents[a].country, a>> /\ v.icao = <<"OAIP", contents[b].country, b>>
    BY <1>2
  <2>2. <<"OAIP", contents[a].country, a>>[3] = <<"OAIP", contents[b].country, b>>[3]
    BY <2>1
  <2>3. a = b
    BY <2>2
  <2> QED BY <1>9, <2>3 DEF Places
<1>10. Once(rows, v)
  <2> HIDE DEF v
  <2> QED BY <1>1, <1>2, <1>3, <1>9, ComesOnce
<1> QED
  BY <1>8, <1>10 DEF Once, Places

---------------------------------------------------------------------------
(* A listing, page by page.                                                *)

NextRead(f) == IF f.done THEN f ELSE Listing!FetchPage(f, PageOf(f.page))

Reads(reads, n) == reads = [k \in 0..n |-> IF k = 0 THEN Listing!FetchStart ELSE NextRead(reads[k - 1])]

LEMMA ReadsExist ==
    ASSUME NEW n \in Nat
    PROVE  \E reads : Reads(reads, n)
<1> DEFINE T == {m \in Nat : ~ \E reads : Reads(reads, m)}
<1> SUFFICES ASSUME T # {} PROVE FALSE
  OBVIOUS
<1>1. PICK m \in T : \A k \in T : m <= k
  BY LeastNatural
<1>2. CASE m = 0
  <2> DEFINE f == [k \in 0..0 |-> Listing!FetchStart]
             g == [k \in 0..0 |-> IF k = 0 THEN Listing!FetchStart ELSE NextRead(f[k - 1])]
  <2>1. f = g
    OBVIOUS
  <2>2. Reads(f, 0)
    BY <2>1 DEF Reads
  <2> QED BY <1>1, <1>2, <2>2
<1>3. CASE m # 0
  <2>1. m - 1 \in Nat /\ m - 1 \notin T
    BY <1>1, <1>3
  <2>2. PICK f : Reads(f, m - 1)
    BY <2>1
  <2> DEFINE g == [k \in 0..m |-> IF k < m THEN f[k] ELSE NextRead(f[m - 1])]
             h == [k \in 0..m |-> IF k = 0 THEN Listing!FetchStart ELSE NextRead(g[k - 1])]
  <2>3. ASSUME NEW k \in 0..m PROVE g[k] = h[k]
    <3>1. CASE k < m
      <4>1. k \in 0..(m - 1) /\ g[k] = f[k]
        BY <3>1, <2>1
      <4>2. f[k] = IF k = 0 THEN Listing!FetchStart ELSE NextRead(f[k - 1])
        BY <2>2, <4>1 DEF Reads
      <4>3. k # 0 => g[k - 1] = f[k - 1]
        BY <4>1, <3>1
      <4> QED BY <4>1, <4>2, <4>3
    <3>2. CASE k = m
      <4>1. g[m - 1] = f[m - 1]
        BY <2>1
      <4> QED BY <1>3, <3>2, <4>1
    <3> QED BY <3>1, <3>2
  <2>4. g = h
    BY <2>3
  <2>5. Reads(g, m)
    BY <2>4 DEF Reads
  <2> QED BY <2>5, <1>1
<1> QED
  BY <1>2, <1>3

Smaller(a, b) == IF a <= b THEN a ELSE b

LEMMA MinOfTwo ==
    ASSUME NEW a \in Int, NEW b \in Int
    PROVE  Min({a, b}) = Smaller(a, b)
BY DEF Min, Smaller

(* What the loop has of the listing after some pages.                      *)
Fetching(page, all, done, failed) == [page |-> page, all |-> all, done |-> done, failed |-> failed]

Fetch(page, all, done) == Fetching(page, all, done, FALSE)

BeginningOf(k) == SubSeq(contents, 1, Smaller(Len(contents), k))

HasRead(f, n) ==
    \/ f.done /\ f.all = BeginningOf(MaxPages * PageSize)
    \/ f = Fetch(n + 1, BeginningOf(n * PageSize), FALSE) /\ n < MaxPages

Pages == (Len(contents) + PageSize - 1) \div PageSize

IsLast(n) == n + 1 >= Pages \/ n + 1 >= MaxPages

(* The items of the next page.                                             *)
LEMMA PageOfItems ==
    ASSUME IsFile, OfFormat("items"), NEW n \in Nat
    PROVE  /\ PageOf(n + 1) = [items |-> SubSeq(contents, n * PageSize + 1, Smaller((n + 1) * PageSize, Len(contents))),
                               total_pages |-> Pages]
           /\ PageOf(n + 1) # None
<1> DEFINE m == n * PageSize
           k == (n + 1) * PageSize
           items == SubSeq(contents, m + 1, Smaller(k, Len(contents)))
<1>1. PageSize \in Nat \ {0} /\ contents \in Seq(Records["items"]) /\ Len(contents) \in Nat
  BY PageSizeIsCount DEF IsFile, OfFormat
<1>2. m \in Nat /\ k \in Nat /\ ((n + 1) - 1) * PageSize + 1 = m + 1
  BY <1>1
<1>3. Min({k, Len(contents)}) = Smaller(k, Len(contents))
  BY <1>1, <1>2, MinOfTwo
<1>4. PageOf(n + 1) = [items |-> items, total_pages |-> Pages]
  BY <1>2, <1>3 DEF PageOf, Pages
<1>5. items \in Seq(Records["items"])
  <2> DEFINE l == Smaller(k, Len(contents))
  <2>1. m + 1 \in Nat \ {0} /\ l \in Nat /\ l <= Len(contents)
    BY <1>1, <1>2 DEF Smaller
  <2> HIDE DEF m, k, l
  <2>2. \A j \in (m + 1)..l : contents[j] \in Records["items"]
    BY <1>1, <2>1
  <2>3. m + 1 \in Int /\ l \in Int
    BY <2>1
  <2>4. SubSeq(contents, m + 1, l) \in Seq(Records["items"])
    BY <2>2, <2>3, SubSeqProperties, Zenon
  <2> QED BY <2>4 DEF l
<1>6. Pages \in Nat
  BY <1>1 DEF Pages
<1> HIDE DEF items
<1>7. [items |-> items, total_pages |-> Pages] # None
  BY <1>5, <1>6, FeedsAreReadable
<1> QED
  BY <1>4, <1>7 DEF items

(* The first pages' items, and those of the next page.                     *)
LEMMA OnePageMore ==
    ASSUME IsFile, OfFormat("items"), NEW n \in Nat
    PROVE  BeginningOf(n * PageSize) \o SubSeq(contents, n * PageSize + 1, Smaller((n + 1) * PageSize, Len(contents)))
             = BeginningOf((n + 1) * PageSize)
<1> DEFINE m == n * PageSize
           k == (n + 1) * PageSize
           L == Len(contents)
<1>1. PageSize \in Nat \ {0} /\ contents \in Seq(Records["items"]) /\ L \in Nat
  BY PageSizeIsCount DEF IsFile, OfFormat
<1>2. m \in Nat /\ k = m + PageSize /\ k \in Nat
  BY <1>1
<1>3. CASE m <= L
  <2> DEFINE l == Smaller(L, k)
  <2>1. Smaller(L, m) = m /\ Smaller(k, L) = l /\ m <= l /\ l <= L /\ l \in Nat
    BY <1>1, <1>2, <1>3 DEF Smaller
  <2> HIDE DEF m, k, l
  <2>2. m \in (1 - 1)..L /\ l \in m..L /\ 1 \in 1..(L + 1)
    BY <1>1, <1>2, <1>3, <2>1
  <2>3. SubSeq(contents, 1, m) \o SubSeq(contents, m + 1, l) = SubSeq(contents, 1, l)
    BY <1>1, <2>2, ConcatAdjacentSubSeq
  <2>4. BeginningOf(m) = SubSeq(contents, 1, m) /\ BeginningOf(k) = SubSeq(contents, 1, l)
    BY <2>1 DEF BeginningOf, l
  <2> QED BY <2>1, <2>3, <2>4 DEF m, k
<1>4. CASE m > L
  <2>1. Smaller(L, m) = L /\ Smaller(k, L) = L /\ Smaller(L, k) = L /\ L < m + 1
    BY <1>1, <1>2, <1>4 DEF Smaller
  <2>2. SubSeq(contents, m + 1, L) = <<>>
    BY <1>1, <1>2, <2>1, SubSeqEmpty
  <2>3. SubSeq(contents, 1, L) = contents
    BY <1>1, SubSeqFull
  <2>4. contents \o <<>> = contents
    BY <1>1, ConcatEmptySeq
  <2>5. BeginningOf(m) = contents /\ BeginningOf(k) = contents
    BY <2>1, <2>3 DEF BeginningOf
  <2> QED BY <2>1, <2>2, <2>4, <2>5
<1>5. m <= L \/ m > L
  <2> HIDE DEF m, L
  <2> QED BY <1>1, <1>2
<1> QED
  BY <1>3, <1>4, <1>5

(* The loop takes the page it asked for, and goes on until the last.       *)
LEMMA FetchIsOfAPage ==
    ASSUME NEW page, NEW all, NEW items, NEW total, [items |-> items, total_pages |-> total] # None
    PROVE  LET last == page >= total \/ page >= MaxPages IN
           Listing!FetchPage(Fetch(page, all, FALSE), [items |-> items, total_pages |-> total])
             = Fetch(IF last THEN page ELSE page + 1, all \o items, last)
<1> DEFINE last == page >= total \/ page >= MaxPages
           answer == [items |-> items, total_pages |-> total]
           f == Fetch(page, all, FALSE)
<1>1. answer.items = items /\ answer.total_pages = total
  OBVIOUS
<1>2. f.page = page /\ f.all = all /\ f.failed = FALSE
  BY DEF Fetch, Fetching
<1>3. Listing!FetchPage(f, answer) =
        [f EXCEPT !.all = all \o items, !.done = last, !.page = IF last THEN page ELSE page + 1]
  BY <1>1, <1>2 DEF Listing!FetchPage
<1> HIDE DEF last
<1>4. PICK dn, no, pg, al : dn = last /\ no = FALSE /\ pg = (IF last THEN page ELSE page + 1) /\ al = all \o items
  OBVIOUS
<1>5. [Fetching(page, all, no, no) EXCEPT !.all = al, !.done = dn, !.page = pg] = Fetching(pg, al, dn, no)
  <2>1. [Fetching(page, all, no, no) EXCEPT !.all = al] = Fetching(page, al, no, no)
    BY DEF Fetching
  <2>2. [Fetching(page, al, no, no) EXCEPT !.done = dn] = Fetching(page, al, dn, no)
    BY DEF Fetching
  <2>3. [Fetching(page, al, dn, no) EXCEPT !.page = pg] = Fetching(pg, al, dn, no)
    BY DEF Fetching
  <2> QED BY <2>1, <2>2, <2>3
<1>6. [f EXCEPT !.all = al, !.done = dn, !.page = pg] = Fetch(pg, al, dn)
  BY <1>4, <1>5, Zenon DEF Fetch
<1>7. [f EXCEPT !.all = all \o items, !.done = last, !.page = IF last THEN page ELSE page + 1]
        = Fetch(IF last THEN page ELSE page + 1, all \o items, last)
  BY <1>4, <1>6, Zenon
<1> QED
  BY <1>3, <1>7 DEF last

(* After the last page there is nothing left, or the limit is reached.     *)
LEMMA LastPageEnds ==
    ASSUME IsFile, OfFormat("items"), NEW n \in Nat, n < MaxPages, IsLast(n)
    PROVE  BeginningOf((n + 1) * PageSize) = BeginningOf(MaxPages * PageSize)
<1> DEFINE P == PageSize
           M == MaxPages
           L == Len(contents)
           k == (n + 1) * P
<1>1. P \in Nat \ {0} /\ M \in Nat \ {0} /\ L \in Nat
  BY PageSizeIsCount, FeedsAreReadable DEF IsFile
<1>2. CASE n + 1 = M
  BY <1>2
<1>3. CASE n + 1 # M
  <2>1. n + 1 >= Pages /\ n + 1 < M
    BY <1>1, <1>3 DEF IsLast
  <2>2. Pages \in Int /\ L + P - 1 < Pages * P + P
    BY <1>1 DEF Pages
  <2>3. Pages * P <= k /\ Pages * P \in Int /\ k \in Int
    BY <1>1, <2>1, <2>2, SMT
  <2>4. L <= k
    BY <1>1, <2>2, <2>3
  <2>5. k <= M * P /\ M * P \in Nat
    BY <1>1, <2>1, SMT
  <2>6. Smaller(L, k) = L /\ Smaller(L, M * P) = L
    BY <1>1, <2>3, <2>4, <2>5 DEF Smaller
  <2> QED BY <2>6 DEF BeginningOf
<1> QED
  BY <1>2, <1>3

(* A page more keeps to the beginning of the listing.                      *)
LEMMA ReadsOn ==
    ASSUME IsFile, OfFormat("items"), NEW n \in Nat, NEW f, HasRead(f, n)
    PROVE  HasRead(NextRead(f), n + 1)
<1>1. CASE f.done
  <2>1. ~(f = Fetch(n + 1, BeginningOf(n * PageSize), FALSE))
    BY <1>1 DEF Fetch, Fetching
  <2>2. NextRead(f) = f
    BY <1>1 DEF NextRead
  <2> QED BY <2>1, <2>2 DEF HasRead
<1>2. CASE ~f.done
  <2> DEFINE items == SubSeq(contents, n * PageSize + 1, Smaller((n + 1) * PageSize, Len(contents)))
             all == BeginningOf((n + 1) * PageSize)
             page == IF IsLast(n) THEN n + 1 ELSE (n + 1) + 1
  <2>1. f = Fetch(n + 1, BeginningOf(n * PageSize), FALSE) /\ n < MaxPages
    BY <1>2 DEF HasRead
  <2>2. f.page = n + 1
    BY <2>1 DEF Fetch, Fetching
  <2>3. NextRead(f) = Listing!FetchPage(f, PageOf(n + 1))
    BY <1>2, <2>2 DEF NextRead
  <2>4. PageOf(n + 1) = [items |-> items, total_pages |-> Pages] /\ PageOf(n + 1) # None
    BY PageOfItems
  <2>5. BeginningOf(n * PageSize) \o items = all
    BY OnePageMore
  <2> HIDE DEF items, all
  <2>6. NextRead(f) = Fetch(page, all, IsLast(n))
    BY <2>1, <2>3, <2>4, <2>5, FetchIsOfAPage DEF IsLast
  <2>7. CASE IsLast(n)
    <3>1. all = BeginningOf(MaxPages * PageSize)
      BY <2>1, <2>7, LastPageEnds DEF all
    <3>2. NextRead(f).done /\ NextRead(f).all = all
      BY <2>6, <2>7 DEF Fetch, Fetching
    <3> QED BY <3>1, <3>2 DEF HasRead
  <2>8. CASE ~IsLast(n)
    <3>1. n + 1 < MaxPages
      BY <2>8, FeedsAreReadable DEF IsLast
    <3>2. page = (n + 1) + 1 /\ IsLast(n) = FALSE
      BY <2>8 DEF IsLast
    <3>3. NextRead(f) = Fetch((n + 1) + 1, all, FALSE)
      BY <2>6, <3>2
    <3> QED BY <3>1, <3>3 DEF HasRead, all
  <2> QED BY <2>7, <2>8
<1> QED
  BY <1>1, <1>2

(* Before the first page nothing is read.                                  *)
LEMMA ReadsFromTheStart == IsFile /\ OfFormat("items") => HasRead(Listing!FetchStart, 0)
<1> SUFFICES ASSUME IsFile, OfFormat("items") PROVE HasRead(Listing!FetchStart, 0)
  OBVIOUS
<1>1. Len(contents) \in Nat /\ 0 * PageSize = 0 /\ 0 < MaxPages
  BY PageSizeIsCount, FeedsAreReadable DEF IsFile
<1>2. Smaller(Len(contents), 0) = 0
  BY <1>1 DEF Smaller
<1>3. SubSeq(contents, 1, 0) = <<>>
  BY SubSeqEmpty
<1>4. BeginningOf(0 * PageSize) = <<>>
  BY <1>1, <1>2, <1>3 DEF BeginningOf
<1>5. 0 + 1 = 1
  OBVIOUS
<1>6. Listing!FetchStart = Fetch(0 + 1, BeginningOf(0 * PageSize), FALSE)
  BY <1>4, <1>5 DEF Listing!FetchStart, Fetch, Fetching
<1> QED
  BY <1>1, <1>6 DEF HasRead

(* The loop at any page: of the least that had not read the beginning, the *)
(* one before had.                                                         *)
LEMMA ReadsAreTheBeginning ==
    ASSUME IsFile, OfFormat("items"), NEW N \in Nat, NEW reads, Reads(reads, N)
    PROVE  HasRead(reads[N], N)
<1> DEFINE T == {n \in 0..N : ~HasRead(reads[n], n)}
<1>1. SUFFICES ASSUME T # {} PROVE FALSE
  OBVIOUS
<1>2. PICK n \in T : \A k \in T : n <= k
  <2>1. T \in SUBSET Nat
    OBVIOUS
  <2> HIDE DEF T
  <2> QED BY <1>1, <2>1, LeastNatural
<1>3. n \in 0..N /\ ~HasRead(reads[n], n)
  BY <1>2
<1>4. reads[n] = IF n = 0 THEN Listing!FetchStart ELSE NextRead(reads[n - 1])
  BY <1>3 DEF Reads
<1>5. CASE n = 0
  BY <1>3, <1>4, <1>5, ReadsFromTheStart
<1>6. CASE n # 0
  <2>1. n - 1 \in 0..N /\ n - 1 \in Nat /\ (n - 1) + 1 = n /\ ~(n <= n - 1)
    BY <1>3, <1>6
  <2>2. HasRead(reads[n - 1], n - 1)
    BY <1>2, <2>1
  <2>3. HasRead(NextRead(reads[n - 1]), (n - 1) + 1)
    BY <2>1, <2>2, ReadsOn
  <2> QED BY <1>3, <1>4, <1>6, <2>1, <2>3
<1> QED
  BY <1>5, <1>6

(* What has been read is the beginning of the listing: after n pages those *)
(* of n, and when the loop is over all there are, up to the limit.         *)
LEMMA ListingIsWhole == IsFile => ListingIsReadWhole
<1> SUFFICES ASSUME IsFile, OfFormat("items") PROVE ListingIsReadWhole
  BY DEF ListingIsReadWhole
<1> DEFINE reads == CHOOSE reads : reads = [n \in 0..(MaxPages + 1) |->
                      IF n = 0 THEN Listing!FetchStart
                      ELSE IF reads[n - 1].done THEN reads[n - 1]
                      ELSE Listing!FetchPage(reads[n - 1], PageOf(reads[n - 1].page))]
           N == MaxPages + 1
<1>1. N \in Nat /\ ~(N < MaxPages)
  BY FeedsAreReadable
<1>2. Reads(reads, N)
  <2>1. \E f : Reads(f, N)
    BY <1>1, ReadsExist
  <2> QED BY <2>1 DEF Reads, NextRead
<1>3. HasRead(reads[N], N)
  <2> HIDE DEF reads, N
  <2> QED BY <1>1, <1>2, ReadsAreTheBeginning
<1>4. reads[N].done /\ reads[N].all = BeginningOf(MaxPages * PageSize)
  BY <1>1, <1>3 DEF HasRead
<1>5. MaxPages * PageSize \in Int /\ Len(contents) \in Int
  BY PageSizeIsCount, FeedsAreReadable DEF IsFile
<1>6. Min({Len(contents), MaxPages * PageSize}) = Smaller(Len(contents), MaxPages * PageSize)
  BY <1>5, MinOfTwo
<1> HIDE DEF reads
<1>7. reads[MaxPages + 1].done /\ reads[MaxPages + 1].all = SubSeq(contents, 1, Min({Len(contents), MaxPages * PageSize}))
  BY <1>4, <1>6 DEF BeginningOf
<1> QED
  BY <1>7 DEF ListingIsReadWhole, reads

---------------------------------------------------------------------------
(* The metafile, event by event.                                           *)

ReadEvent(s, e) ==
    CASE e[1] = "airport" -> [s EXCEPT !.icao = e[2]]
      [] e[1] = "record" -> [s EXCEPT !.open = TRUE, !.rec = NoRecord]
      [] e[1] = "text" /\ s.open -> [s EXCEPT !.rec[e[2]] = e[3]]
      [] e[1] = "end" -> [s EXCEPT !.open = FALSE]
      [] OTHER -> s

FirstReader == [icao |-> None, open |-> FALSE, rec |-> NoRecord]

Follow(readers, events, n) ==
    readers = [i \in 1..n |-> IF i = 1 THEN FirstReader ELSE ReadEvent(readers[i - 1], events[i - 1])]

LEMMA ReadersExist ==
    ASSUME NEW n \in Nat, NEW events
    PROVE  \E readers : Follow(readers, events, n)
<1> DEFINE T == {m \in Nat : ~ \E readers : Follow(readers, events, m)}
<1> SUFFICES ASSUME T # {} PROVE FALSE
  OBVIOUS
<1>1. PICK m \in T : \A k \in T : m <= k
  BY LeastNatural
<1>2. CASE m = 0
  <2> DEFINE f == [i \in 1..0 |-> FirstReader]
             g == [i \in 1..0 |-> IF i = 1 THEN FirstReader ELSE ReadEvent(f[i - 1], events[i - 1])]
  <2>1. f = g
    OBVIOUS
  <2>2. Follow(f, events, 0)
    BY <2>1 DEF Follow
  <2> QED BY <1>1, <1>2, <2>2
<1>3. CASE m # 0
  <2>1. m - 1 \in Nat /\ m - 1 \notin T
    BY <1>1, <1>3
  <2>2. PICK f : Follow(f, events, m - 1)
    BY <2>1
  <2> DEFINE g == [i \in 1..m |-> IF i < m THEN f[i]
                                  ELSE IF m = 1 THEN FirstReader ELSE ReadEvent(f[m - 1], events[m - 1])]
             h == [i \in 1..m |-> IF i = 1 THEN FirstReader ELSE ReadEvent(g[i - 1], events[i - 1])]
  <2>3. ASSUME NEW i \in 1..m PROVE g[i] = h[i]
    <3>1. CASE i < m
      <4>1. i \in 1..(m - 1) /\ g[i] = f[i]
        BY <3>1, <2>1
      <4>2. f[i] = IF i = 1 THEN FirstReader ELSE ReadEvent(f[i - 1], events[i - 1])
        BY <2>2, <4>1 DEF Follow
      <4>3. i # 1 => g[i - 1] = f[i - 1]
        BY <4>1, <3>1
      <4> QED BY <4>1, <4>2, <4>3
    <3>2. CASE i = m
      <4>1. m # 1 => g[m - 1] = f[m - 1]
        BY <2>1
      <4> QED BY <1>3, <3>2, <4>1
    <3> QED BY <3>1, <3>2
  <2>4. g = h
    BY <2>3
  <2>5. Follow(g, events, m)
    BY <2>4 DEF Follow
  <2> QED BY <2>5, <1>1
<1> QED
  BY <1>2, <1>3

(* No record starts or ends from one event up to another.                  *)
Quiet(b, e) == \A k \in b..(e - 1) : contents[k][1] \notin {"record", "end"}

(* A field is empty, or its text stood between the two.                    *)
StoodIn(rec, tag, b, e) ==
    rec[tag] = None \/ \E j \in b..(e - 1) : contents[j] = <<"text", tag, rec[tag]>>

(* What the reader has was read between two events of one record, of the   *)
(* one that is open up to now.                                             *)
OfOneRecord(s, i) ==
    /\ {"icao", "open", "rec"} \subseteq DOMAIN s
    /\ {"pdf_name", "chart_code"} \subseteq DOMAIN s.rec
    /\ s.open \in BOOLEAN
    /\ \E b \in 1..i : \E e \in b..i :
         /\ Quiet(b, e) /\ StoodIn(s.rec, "pdf_name", b, e) /\ StoodIn(s.rec, "chart_code", b, e)
         /\ s.open => e = i

LEMMA FirstReaderIsOfOneRecord == OfOneRecord(FirstReader, 1)
<1>1. Quiet(1, 1)
  BY DEF Quiet
<1>2. FirstReader.rec = NoRecord /\ FirstReader.open = FALSE
  BY DEF FirstReader
<1>3. NoRecord["pdf_name"] = None /\ NoRecord["chart_code"] = None /\ {"pdf_name", "chart_code"} \subseteq DOMAIN NoRecord
  BY DEF NoRecord
<1>4. {"icao", "open", "rec"} \subseteq DOMAIN FirstReader
  BY DEF FirstReader
<1>5. StoodIn(NoRecord, "pdf_name", 1, 1) /\ StoodIn(NoRecord, "chart_code", 1, 1)
  BY <1>3 DEF StoodIn
<1>6. ~FirstReader.open /\ FirstReader.open \in BOOLEAN
  BY <1>2
<1>7. \E b \in 1..1 : \E e \in b..1 :
        /\ Quiet(b, e) /\ StoodIn(FirstReader.rec, "pdf_name", b, e) /\ StoodIn(FirstReader.rec, "chart_code", b, e)
        /\ FirstReader.open => e = 1
  <2>1. 1 \in 1..1
    OBVIOUS
  <2> QED BY <2>1, <1>1, <1>2, <1>5, <1>6
<1> QED
  BY <1>2, <1>3, <1>4, <1>6, <1>7 DEF OfOneRecord

(* An event that neither starts nor ends a record.                         *)
LEMMA QuietlyOn ==
    ASSUME NEW i \in Nat \ {0}, NEW b \in 1..i, Quiet(b, i), contents[i][1] \notin {"record", "end"}
    PROVE  Quiet(b, i + 1)
BY DEF Quiet

LEMMA StillRead ==
    ASSUME NEW rec, NEW tag, NEW b \in Nat, NEW e \in Nat, StoodIn(rec, tag, b, e)
    PROVE  StoodIn(rec, tag, b, e + 1)
BY DEF StoodIn

(* The reader keeps its record, with the event behind it.                  *)
LEMMA KeptIsOfOneRecord ==
    ASSUME NEW i \in Nat \ {0}, NEW s, OfOneRecord(s, i), NEW t,
           {"icao", "open", "rec"} \subseteq DOMAIN t, t.rec = s.rec, t.open \in BOOLEAN,
           t.open => s.open /\ contents[i][1] \notin {"record", "end"}
    PROVE  OfOneRecord(t, i + 1)
<1>1. PICK b \in 1..i : \E e \in b..i :
         /\ Quiet(b, e) /\ StoodIn(s.rec, "pdf_name", b, e) /\ StoodIn(s.rec, "chart_code", b, e)
         /\ s.open => e = i
  BY DEF OfOneRecord
<1>2. PICK e \in b..i :
         /\ Quiet(b, e) /\ StoodIn(s.rec, "pdf_name", b, e) /\ StoodIn(s.rec, "chart_code", b, e)
         /\ s.open => e = i
  BY <1>1
<1>3. {"pdf_name", "chart_code"} \subseteq DOMAIN t.rec /\ b \in 1..(i + 1)
  BY DEF OfOneRecord
<1>4. CASE t.open
  <2>1. e = i /\ Quiet(b, i + 1)
    BY <1>2, <1>4, QuietlyOn
  <2>2. StoodIn(t.rec, "pdf_name", b, i + 1) /\ StoodIn(t.rec, "chart_code", b, i + 1)
    BY <1>2, <2>1, StillRead
  <2>3. i + 1 \in b..(i + 1)
    OBVIOUS
  <2> QED BY <1>3, <2>1, <2>2, <2>3 DEF OfOneRecord
<1>5. CASE ~t.open
  <2>1. e \in b..(i + 1)
    OBVIOUS
  <2> QED BY <1>2, <1>3, <1>5, <2>1 DEF OfOneRecord
<1> QED
  BY <1>4, <1>5

LEMMA ReaderStaysWithARecord ==
    ASSUME IsFile, OfFormat("plates"), NEW i \in Places(contents), NEW s, OfOneRecord(s, i)
    PROVE  OfOneRecord(ReadEvent(s, contents[i]), i + 1)
<1> DEFINE e == contents[i]
           t == ReadEvent(s, e)
<1>1. i \in Nat \ {0} /\ e \in Records["plates"]
  BY DEF IsFile, OfFormat, Places
<1>2. {"icao", "open", "rec"} \subseteq DOMAIN s /\ {"pdf_name", "chart_code"} \subseteq DOMAIN s.rec /\ s.open \in BOOLEAN
  BY DEF OfOneRecord
<1>3. CASE e[1] = "airport"
  <2>1. t = [s EXCEPT !.icao = e[2]]
    BY <1>3 DEF ReadEvent
  <2> HIDE DEF t, e
  <2>2. DOMAIN t = DOMAIN s /\ t.rec = s.rec /\ t.open = s.open
    BY <1>2, <2>1
  <2>3. e[1] \notin {"record", "end"}
    BY <1>3
  <2>4. OfOneRecord(t, i + 1)
    BY <1>1, <1>2, <2>2, <2>3, KeptIsOfOneRecord DEF e
  <2> QED BY <2>4 DEF t, e
<1>4. CASE e[1] = "record"
  <2>1. t = [s EXCEPT !.open = TRUE, !.rec = NoRecord]
    BY <1>4 DEF ReadEvent
  <2> HIDE DEF t, e
  <2>2. DOMAIN t = DOMAIN s /\ t.rec = NoRecord /\ t.open = TRUE
    BY <1>2, <2>1
  <2>3. NoRecord["pdf_name"] = None /\ NoRecord["chart_code"] = None /\ {"pdf_name", "chart_code"} \subseteq DOMAIN NoRecord
    BY DEF NoRecord
  <2>4. Quiet(i + 1, i + 1)
    BY <1>1 DEF Quiet
  <2>5. StoodIn(t.rec, "pdf_name", i + 1, i + 1) /\ StoodIn(t.rec, "chart_code", i + 1, i + 1)
    BY <2>2, <2>3 DEF StoodIn
  <2>6. i + 1 \in 1..(i + 1) /\ i + 1 \in (i + 1)..(i + 1)
    BY <1>1
  <2>7. OfOneRecord(t, i + 1)
    BY <1>2, <2>2, <2>3, <2>4, <2>5, <2>6 DEF OfOneRecord
  <2> QED BY <2>7 DEF t, e
<1>5. CASE e[1] = "text" /\ s.open
  <2>1. t = [s EXCEPT !.rec[e[2]] = e[3]]
    BY <1>5 DEF ReadEvent
  <2>2. e = <<"text", e[2], e[3]>>
    BY <1>1, <1>5, FeedsAreReadable
  <2> HIDE DEF t, e
  <2> DEFINE rec == [s.rec EXCEPT ![e[2]] = e[3]]
  <2>3. DOMAIN t = DOMAIN s /\ t.rec = rec /\ t.open = s.open
    BY <1>2, <2>1
  <2>4. DOMAIN rec = DOMAIN s.rec
    OBVIOUS
  <2>5. PICK b \in 1..i : /\ Quiet(b, i) /\ StoodIn(s.rec, "pdf_name", b, i) /\ StoodIn(s.rec, "chart_code", b, i)
    BY <1>5 DEF OfOneRecord
  <2>6. ASSUME NEW tag \in {"pdf_name", "chart_code"}, StoodIn(s.rec, tag, b, i)
        PROVE  StoodIn(rec, tag, b, i + 1)
    <3>1. CASE tag = e[2]
      <4>1. rec[tag] = e[3]
        BY <1>2, <3>1
      <4>2. contents[i] = <<"text", tag, rec[tag]>> /\ i \in b..((i + 1) - 1)
        BY <1>1, <2>2, <3>1, <4>1 DEF e
      <4> QED BY <4>2 DEF StoodIn
    <3>2. CASE tag # e[2]
      <4>1. rec[tag] = s.rec[tag]
        BY <1>2, <3>2
      <4>2. StoodIn(s.rec, tag, b, i + 1)
        BY <1>1, <2>6, StillRead
      <4> HIDE DEF rec
      <4> QED BY <4>1, <4>2 DEF StoodIn
    <3> QED BY <3>1, <3>2
  <2> HIDE DEF rec
  <2>7. StoodIn(t.rec, "pdf_name", b, i + 1) /\ StoodIn(t.rec, "chart_code", b, i + 1)
    BY <2>3, <2>5, <2>6
  <2>8. Quiet(b, i + 1)
    BY <1>1, <1>5, <2>5, QuietlyOn DEF e
  <2>9. b \in 1..(i + 1) /\ i + 1 \in b..(i + 1)
    BY <1>1
  <2>10. OfOneRecord(t, i + 1)
    BY <1>2, <2>3, <2>4, <2>7, <2>8, <2>9 DEF OfOneRecord
  <2> QED BY <2>10 DEF t, e
<1>6. CASE e[1] = "end"
  <2>1. t = [s EXCEPT !.open = FALSE]
    BY <1>6 DEF ReadEvent
  <2> HIDE DEF t, e
  <2>2. DOMAIN t = DOMAIN s /\ t.rec = s.rec /\ t.open = FALSE
    BY <1>2, <2>1
  <2>3. OfOneRecord(t, i + 1)
    BY <1>1, <1>2, <2>2, KeptIsOfOneRecord
  <2> QED BY <2>3 DEF t, e
<1>7. CASE e[1] \notin {"airport", "record", "end"} /\ ~(e[1] = "text" /\ s.open)
  <2>1. t = s
    BY <1>7 DEF ReadEvent
  <2> HIDE DEF t
  <2>2. OfOneRecord(t, i + 1)
    BY <1>1, <1>2, <1>7, <2>1, KeptIsOfOneRecord
  <2> QED BY <2>2 DEF t
<1> QED
  BY <1>3, <1>4, <1>5, <1>6, <1>7

LEMMA ReadersAreOfOneRecord ==
    ASSUME IsFile, OfFormat("plates"), NEW readers, Follow(readers, contents, Len(contents) + 1)
    PROVE  \A i \in 1..(Len(contents) + 1) : OfOneRecord(readers[i], i)
<1> DEFINE N == Len(contents) + 1
           T == {i \in 1..N : ~OfOneRecord(readers[i], i)}
<1>1. SUFFICES ASSUME T # {} PROVE FALSE
  OBVIOUS
<1>2. PICK i \in T : \A k \in T : i <= k
  <2>1. T \in SUBSET Nat
    OBVIOUS
  <2> HIDE DEF T
  <2> QED BY <1>1, <2>1, LeastNatural
<1>3. i \in 1..N /\ ~OfOneRecord(readers[i], i) /\ Len(contents) \in Nat
  BY <1>2 DEF IsFile
<1>4. readers[i] = IF i = 1 THEN FirstReader ELSE ReadEvent(readers[i - 1], contents[i - 1])
  BY <1>3 DEF Follow
<1>5. CASE i = 1
  BY <1>3, <1>4, <1>5, FirstReaderIsOfOneRecord
<1>6. CASE i # 1
  <2>1. i - 1 \in Places(contents) /\ i - 1 \in 1..N /\ (i - 1) + 1 = i /\ ~(i <= i - 1)
    BY <1>3, <1>6 DEF Places
  <2>2. OfOneRecord(readers[i - 1], i - 1)
    BY <1>2, <2>1
  <2>3. OfOneRecord(ReadEvent(readers[i - 1], contents[i - 1]), (i - 1) + 1)
    BY <2>1, <2>2, ReaderStaysWithARecord
  <2> QED BY <1>3, <1>4, <1>6, <2>1, <2>3
<1> QED
  BY <1>5, <1>6

(* What a record leaves behind it has a file and a code, both its own.     *)
LEMMA PlatesStandTogether == IsFile => PlatesAreOfOneRecord
<1> SUFFICES ASSUME IsFile, OfFormat("plates") PROVE PlatesAreOfOneRecord
  BY DEF PlatesAreOfOneRecord
<1> DEFINE out == ParseDtppRecords(contents)
           readers == ReadersOf(contents, LAMBDA rec : NoRecord)
           Within(i, j) == i <= j /\ \A k \in i..j : contents[k][1] \notin {"record", "end"}
           Text(i, tag, v) == contents[i] = <<"text", tag, v>>
           Ended(i) ==
             LET s == readers[i] IN
             IF /\ contents[i][1] = "end"
                /\ s.icao # None /\ s.rec.pdf_name # None
                /\ s.rec.chart_code \in WantedChartCodes
             THEN {[icao |-> s.icao, chart_code |-> s.rec.chart_code, chart_name |-> s.rec.chart_name,
                    pdf_name |-> s.rec.pdf_name, faanfd18 |-> s.rec.faanfd18]} ELSE {}
           ids == [i \in Places(contents) |-> i]
           sets == [i \in Places(ids) |-> Ended(i)]
<1>1. IsList(contents) /\ Len(contents) \in Nat
  BY DEF IsFile, IsList
<1>2. Follow(readers, contents, Len(contents) + 1)
  <2>1. \E f : Follow(f, contents, Len(contents) + 1)
    BY <1>1, ReadersExist
  <2> QED BY <2>1 DEF Follow, ReadersOf, ReadEvent, FirstReader
<1> HIDE DEF readers
<1>3. \A i \in 1..(Len(contents) + 1) : OfOneRecord(readers[i], i)
  BY <1>2, ReadersAreOfOneRecord
<1>4. IsList(ids) /\ Places(ids) = Places(contents)
  BY <1>1 DEF Places, IsList
<1>5. out = FlattenSeq([i \in Places(ids) |-> SetToSeq(sets[i])])
  BY <1>4 DEF ParseDtppRecords, RecordsOf, FilterMap, readers
<1>6. \A i \in Places(ids) : IsFiniteSet(sets[i])
  BY FS_EmptySet, FS_Singleton
<1> HIDE DEF out
<1>7. ASSUME NEW n \in Places(out)
      PROVE  \E i, j \in Places(contents) :
               /\ Text(i, "pdf_name", out[n].pdf_name) /\ Text(j, "chart_code", out[n].chart_code)
               /\ Within(i, j) \/ Within(j, i)
  <2>1. PICK m \in Places(contents) : out[n] \in sets[m]
    <3> HIDE DEF ids, sets
    <3>1. out[n] \in UNION {sets[i] : i \in Places(ids)}
      BY <1>4, <1>5, <1>6, Gathered
    <3> QED BY <1>4, <3>1
  <2> DEFINE s == readers[m]
  <2>2. /\ s.rec.pdf_name # None /\ s.rec.chart_code \in WantedChartCodes
        /\ out[n] = [icao |-> s.icao, chart_code |-> s.rec.chart_code, chart_name |-> s.rec.chart_name,
                     pdf_name |-> s.rec.pdf_name, faanfd18 |-> s.rec.faanfd18]
    BY <1>4, <2>1
  <2>3. m \in 1..(Len(contents) + 1) /\ OfOneRecord(s, m)
    BY <1>1, <1>3 DEF Places
  <2> HIDE DEF s
  <2>4. out[n].pdf_name = s.rec.pdf_name /\ out[n].chart_code = s.rec.chart_code
    BY <2>2
  <2>5. s.rec.chart_code # None
    BY <2>2, FeedsAreReadable
  <2>6. PICK b \in 1..m : \E e \in b..m :
          Quiet(b, e) /\ StoodIn(s.rec, "pdf_name", b, e) /\ StoodIn(s.rec, "chart_code", b, e)
    BY <2>3 DEF OfOneRecord
  <2>11. PICK e \in b..m :
          Quiet(b, e) /\ StoodIn(s.rec, "pdf_name", b, e) /\ StoodIn(s.rec, "chart_code", b, e)
    BY <2>6
  <2>7. PICK i \in b..(e - 1) : Text(i, "pdf_name", out[n].pdf_name)
    BY <2>2, <2>4, <2>11 DEF StoodIn
  <2>8. PICK j \in b..(e - 1) : Text(j, "chart_code", out[n].chart_code)
    BY <2>4, <2>5, <2>11 DEF StoodIn
  <2>9. i \in Places(contents) /\ j \in Places(contents)
    BY <1>1 DEF Places
  <2>10. Within(i, j) \/ Within(j, i)
    BY <2>11 DEF Quiet
  <2> QED BY <2>7, <2>8, <2>9, <2>10
<1> QED
  BY <1>7 DEF PlatesAreOfOneRecord, out

(* The smaller feeds are read right, whatever they are fed: a runway's low *)
(* end is the lower, a plate is of one record, a listing is whole and its  *)
(* uncoded fields stay apart (nasr, dtpp, openAIP).                        *)
THEOREM FeedsAreRead == ReadingSpec => []FeedsAreReadRight
<1>1. IsFile => FeedsAreReadRight
  BY LowBeforeHigh, PlatesStandTogether, ListingIsWhole, UncodedStayApart DEF FeedsAreReadRight
<1> QED
  BY <1>1, FilesAreRead, PTL
=============================================================================
