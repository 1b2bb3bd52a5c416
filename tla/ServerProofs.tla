---------------------------- MODULE ServerProofs ----------------------------
(***************************************************************************)
(* Three parts of ff-api: the limiter in front of every proxied request,   *)
(* the NOTAM client behind it, and the accounts.  They share nothing, and  *)
(* are proved one after the other.                                         *)
(***************************************************************************)
EXTENDS RateLimit, NotamClient, Accounts, FiniteSetTheorems, TLAPS

(***************************************************************************)
(* Where a bucket fills within the idle time, a limiter that forgets its   *)
(* idle clients answers as one that remembers them all, however long its   *)
(* threads take never to the client's loss; and where a token takes no     *)
(* more than a second, the wait it tells a refused client is enough.       *)
(***************************************************************************)

FillsWhileIdle == Burst <= Rate * IdleEviction

LimiterInv == LimiterTypeOK /\ BudgetIsHonoured /\ RateIsExact

-----------------------------------------------------------------------------
(* More time, more tokens. *)
LEMMA RateMonotone ==
    ASSUME NEW a \in Nat, NEW b \in Nat, a <= b
    PROVE  Rate * a \in Nat /\ Rate * b \in Nat /\ Rate * a <= Rate * b
<1>1. Rate \in Nat
  BY UnitAssumption
<1>2. Rate * a \in Nat /\ Rate * b \in Nat
  BY <1>1
<1>3. Rate * (b - a) \in Nat
  BY <1>1
<1>4. Rate * b = Rate * a + Rate * (b - a)
  BY <1>1
<1> QED
  BY <1>2, <1>3, <1>4

(* A bucket that could be forgotten is full. *)
LEMMA IdleIsFull ==
    ASSUME FillsWhileIdle, NEW t \in 0..Burst, NEW i \in Nat, IdleEviction <= i
    PROVE  Least(t + Rate * i, Burst) = Burst
<1>1. IdleEviction \in Nat /\ Burst \in Nat
  BY UnitAssumption
<1>2. Rate * i \in Nat /\ Burst <= Rate * i
  BY <1>1, RateMonotone DEF FillsWhileIdle
<1> QED
  BY <1>1, <1>2 DEF Least

(* A tick fills a bucket, seen or unseen, by as much as its budget. *)
LEMMA TickLevel ==
    ASSUME NEW t \in 0..Burst, NEW i \in 0..Long
    PROVE  Least(t + Rate * Least(i + 1, Long), Burst)
             = Least(Least(t + Rate * i, Burst) + Rate, Burst)
<1>1. Rate \in Nat /\ Burst \in Nat /\ Long \in Nat /\ i \in Nat
  BY UnitAssumption
<1>2. Rate * i \in Nat /\ Rate * (i + 1) = Rate * i + Rate
  BY <1>1
<1>3. CASE i + 1 <= Long
  BY <1>1, <1>2, <1>3 DEF Least
<1>4. CASE i = Long
  <2>1. Long - MaxLag \in Nat /\ Long - MaxLag <= Long
    BY <1>1, UnitAssumption, LongAssumption
  <2>2. Burst <= Rate * Long /\ Rate * Long \in Nat
    <3>1. Rate * (Long - MaxLag) <= Rate * Long /\ Rate * Long \in Nat
                /\ Rate * (Long - MaxLag) \in Nat
      BY <1>1, <2>1, RateMonotone
    <3> QED
      BY <1>1, <3>1, LongAssumption
  <2> QED
    BY <1>1, <1>4, <2>2 DEF Least
<1> QED
  BY <1>1, <1>3, <1>4

-----------------------------------------------------------------------------
LEMMA LevelType == LimiterTypeOK => \A k \in Client : Level(k) \in 0..Burst
<1> SUFFICES ASSUME LimiterTypeOK, NEW k \in Client PROVE Level(k) \in 0..Burst
  OBVIOUS
<1>1. CASE k \in Tracked
  <2>1. buckets[k].tokens \in 0..Burst /\ buckets[k].idle \in Nat
    BY <1>1 DEF LimiterTypeOK, Bucket
  <2>2. Rate * buckets[k].idle \in Nat
    BY <2>1, UnitAssumption
  <2> QED
    BY <1>1, <2>1, <2>2, UnitAssumption DEF Level, Least
<1>2. CASE k \notin Tracked
  BY <1>2, UnitAssumption DEF Level
<1> QED
  BY <1>1, <1>2

(* A check forgets only full buckets, an old clock reading makes it find   *)
(* no more than the level and give the rest back as idle time, and a       *)
(* current one makes it find the level.                                    *)
LEMMA CheckLevel ==
    ASSUME LimiterTypeOK, FillsWhileIdle, NEW k \in Client, NEW age \in 0..MaxLag
    PROVE  /\ Kept(age) \subseteq Tracked
           /\ \A j \in Tracked \ Kept(age) : Level(j) = Burst
           /\ Refilled(k, age) \in 0..Burst
           /\ age = 0 => Refilled(k, age) = Level(k)
           /\ Refilled(k, age) = Burst \/ Refilled(k, age) + Rate * age >= Level(k)
<1>1. Kept(age) \subseteq Tracked /\ age \in Nat
  BY UnitAssumption DEF Kept
<1>2. \A j \in Tracked :
        /\ buckets[j].tokens \in 0..Burst /\ buckets[j].idle \in 0..Long
        /\ buckets[j].idle \in Nat
        /\ Elapsed(buckets[j].idle, age) \in Nat
        /\ Elapsed(buckets[j].idle, age) <= buckets[j].idle
        /\ buckets[j].idle <= Elapsed(buckets[j].idle, age) + age
        /\ age = 0 => Elapsed(buckets[j].idle, age) = buckets[j].idle
  BY <1>1, UnitAssumption DEF LimiterTypeOK, Bucket, Elapsed, Most
<1>3. \A j \in Tracked \ Kept(age) : Level(j) = Burst
  <2> SUFFICES ASSUME NEW j \in Tracked, j \notin Kept(age)
               PROVE  Level(j) = Burst
    OBVIOUS
  <2>1. ~(Elapsed(buckets[j].idle, age) < IdleEviction)
    BY DEF Kept
  <2>2. buckets[j].idle \in Nat /\ IdleEviction <= buckets[j].idle
    BY <1>2, <2>1, UnitAssumption
  <2>3. Least(buckets[j].tokens + Rate * buckets[j].idle, Burst) = Burst
    BY <1>2, <2>2, IdleIsFull
  <2> QED
    BY <2>3 DEF Level
<1>4. CASE k \notin Kept(age)
  <2>1. Refilled(k, age) = Burst
    BY <1>4 DEF Refilled
  <2>2. Level(k) = Burst
    BY <1>3, <1>4 DEF Level
  <2> QED
    BY <1>1, <1>3, <2>1, <2>2, UnitAssumption
<1>5. CASE k \in Kept(age)
  <2> DEFINE t == buckets[k].tokens
             i == buckets[k].idle
             e == Elapsed(buckets[k].idle, age)
  <2>1. /\ t \in 0..Burst /\ {i, e} \subseteq Nat
        /\ e <= i /\ i <= e + age /\ (age = 0 => e = i)
    BY <1>1, <1>2, <1>5
  <2>2. Refilled(k, age) = Least(t + Rate * e, Burst)
    BY <1>5 DEF Refilled
  <2>3. Level(k) = Least(t + Rate * i, Burst)
    BY <1>1, <1>5 DEF Level
  <2> HIDE DEF t, i, e
  <2>4. Rate * i \in Nat /\ Rate * e \in Nat /\ Rate * age \in Nat
    BY <1>1, <2>1, UnitAssumption
  <2>5. Rate * i <= Rate * e + Rate * age
    <3>1. Rate * (e + age) = Rate * e + Rate * age
      BY <1>1, <2>1, UnitAssumption
    <3>2. Rate * i <= Rate * (e + age)
      BY <1>1, <2>1, RateMonotone
    <3> QED
      BY <3>1, <3>2
  <2>6. Refilled(k, age) \in 0..Burst
    BY <2>1, <2>2, <2>4, UnitAssumption DEF Least
  <2>7. age = 0 => Refilled(k, age) = Level(k)
    BY <2>1, <2>2, <2>3
  <2>8. Refilled(k, age) = Burst \/ Refilled(k, age) + Rate * age >= Level(k)
    BY <2>1, <2>2, <2>3, <2>4, <2>5, UnitAssumption DEF Least
  <2> QED
    BY <1>1, <1>3, <2>6, <2>7, <2>8
<1> QED
  BY <1>4, <1>5

(* A wait is a number of seconds. *)
LEMMA WaitIsSeconds ==
    ASSUME NEW tokens \in 0..Burst, ~(tokens >= Cost)
    PROVE  RetryAfter(tokens) \in Nat \ {0}
<1> DEFINE second == Rate * Second
           short  == (Cost - tokens) \div second
<1>1. second \in Nat \ {0} /\ Cost - tokens \in Nat
  BY UnitAssumption
<1> HIDE DEF second
<1>2. short \in Nat
  BY <1>1
<1> QED
  BY <1>2 DEF RetryAfter, Most, second

LEMMA LimiterInitInv == LimiterInit => LimiterInv
<1> SUFFICES ASSUME LimiterInit PROVE LimiterInv
  OBVIOUS
<1>1. LimiterTypeOK
  <2>1. Tracked = {}
    BY DEF LimiterInit, Tracked
  <2>2. budget \in [Client -> 0..Burst] /\ told \in [Client -> {-1} \cup (Nat \ {0})]
    BY UnitAssumption DEF LimiterInit
  <2>3. asking \in [Worker -> [client : Client, age : 0..MaxLag] \cup {NoRequest}]
    BY DEF LimiterInit
  <2>4. late \in BOOLEAN
    BY DEF LimiterInit
  <2> QED
    BY <2>1, <2>2, <2>3, <2>4 DEF LimiterTypeOK
<1>2. \A k \in Client : Level(k) = Burst /\ budget[k] = Burst
  BY DEF LimiterInit, Level, Tracked
<1> QED
  BY <1>1, <1>2, LevelType, UnitAssumption DEF LimiterInv, BudgetIsHonoured, RateIsExact

LEMMA ArriveInv ==
    ASSUME LimiterInv, NEW w \in Worker, NEW k \in Client, Arrive(w, k)
    PROVE  LimiterInv'
BY UnitAssumption
   DEF LimiterInv, LimiterTypeOK, BudgetIsHonoured, RateIsExact, Level, Tracked, Arrive

(* A check pays from the bucket what it pays from the budget, and nobody   *)
(* else notices it.                                                        *)
LEMMA CheckInv ==
    ASSUME LimiterInv, FillsWhileIdle, NEW w \in Worker, CheckAt(w),
           NEW k, k = asking[w].client, NEW age, age = asking[w].age
    PROVE  LimiterInv'
<1> DEFINE tokens == Refilled(k, age)
           paid   == IF tokens >= Cost THEN Cost ELSE 0
           answer == IF tokens >= Cost THEN -1 ELSE RetryAfter(tokens)
           left   == Most(budget[k] - paid, 0)
<1>1. k \in Client /\ age \in 0..MaxLag /\ age \in Nat
  BY UnitAssumption DEF LimiterInv, LimiterTypeOK, CheckAt
<1>2. /\ Kept(age) \subseteq Tracked
      /\ \A j \in Tracked \ Kept(age) : Level(j) = Burst
      /\ tokens \in 0..Burst
      /\ age = 0 => tokens = Level(k)
      /\ tokens = Burst \/ tokens + Rate * age >= Level(k)
  BY <1>1, CheckLevel DEF LimiterInv
<1>3. /\ buckets' = [j \in Kept(age) \cup {k} |->
           IF j = k THEN [tokens |-> tokens - paid, idle |-> age] ELSE buckets[j]]
      /\ told' = [told EXCEPT ![k] = answer]
      /\ budget' = [budget EXCEPT ![k] = left]
      /\ asking' = [asking EXCEPT ![w] = NoRequest]
      /\ late' = (late \/ age > 0)
  BY DEF CheckAt
<1>4. Tracked' = Kept(age) \cup {k}
  BY <1>3 DEF Tracked
<1>5. tokens - paid \in 0..Burst /\ paid \in {0, Cost} /\ paid \in Nat
  BY <1>2, UnitAssumption
<1>6. answer \in {-1} \cup (Nat \ {0})
  BY <1>2, WaitIsSeconds
<1>7. Level(k) \in 0..Burst /\ budget[k] \in 0..Burst /\ Level(k) >= budget[k]
  BY <1>1, LevelType DEF LimiterInv, LimiterTypeOK, BudgetIsHonoured
<1>8. left \in 0..Burst
  BY <1>5, <1>7, UnitAssumption DEF Most
<1>9. LimiterTypeOK'
  <2> HIDE DEF tokens, paid, answer, left
  <2>1. Tracked' \subseteq Client
    BY <1>1, <1>2, <1>4 DEF LimiterInv, LimiterTypeOK
  <2>2. \A j \in Tracked' : buckets'[j] \in Bucket
    <3>1. ASSUME NEW j \in Tracked', j = k PROVE buckets'[j] \in Bucket
      <4>1. buckets'[j] = [tokens |-> tokens - paid, idle |-> age]
        BY <1>3, <1>4, <3>1
      <4>2. age \in 0..Long
        BY <1>1, UnitAssumption, LongAssumption
      <4> QED
        BY <1>5, <4>1, <4>2 DEF Bucket
    <3>2. ASSUME NEW j \in Tracked', j # k PROVE buckets'[j] \in Bucket
      <4>1. buckets'[j] = buckets[j] /\ j \in Tracked
        BY <1>2, <1>3, <1>4, <3>2
      <4> QED
        BY <4>1 DEF LimiterInv, LimiterTypeOK
    <3> QED
      BY <3>1, <3>2
  <2>3. asking' \in [Worker -> [client : Client, age : 0..MaxLag] \cup {NoRequest}]
    BY <1>3 DEF LimiterInv, LimiterTypeOK
  <2>4. told' \in [Client -> {-1} \cup (Nat \ {0})]
    BY <1>3, <1>6 DEF LimiterInv, LimiterTypeOK
  <2>5. budget' \in [Client -> 0..Burst]
    BY <1>3, <1>8 DEF LimiterInv, LimiterTypeOK
  <2>6. late' \in BOOLEAN
    BY <1>3 DEF LimiterInv, LimiterTypeOK
  <2> QED
    BY <2>1, <2>2, <2>3, <2>4, <2>5, <2>6 DEF LimiterTypeOK
<1>10. budget'[k] = left /\ \A j \in Client \ {k} : budget'[j] = budget[j]
  BY <1>1, <1>3 DEF LimiterInv, LimiterTypeOK
<1>11. Level(k)' = Least(tokens - paid + Rate * age, Burst)
  <2> HIDE DEF tokens, paid
  <2>1. buckets'[k] = [tokens |-> tokens - paid, idle |-> age] /\ k \in Tracked'
    BY <1>3, <1>4
  <2> QED
    BY <2>1 DEF Level
<1>12. \A j \in Client \ {k} : Level(j)' = Level(j)
  <2> SUFFICES ASSUME NEW j \in Client, j # k PROVE Level(j)' = Level(j)
    OBVIOUS
  <2> HIDE DEF tokens, paid, answer, left
  <2>1. CASE j \in Kept(age)
    <3>1. buckets'[j] = buckets[j] /\ j \in Tracked' /\ j \in Tracked
      BY <1>2, <1>3, <1>4, <2>1
    <3> QED
      BY <3>1 DEF Level
  <2>2. CASE j \notin Kept(age)
    <3>1. j \notin Tracked'
      BY <1>4, <2>2
    <3>2. Level(j) = Burst
      BY <1>2, <2>2 DEF Level
    <3> QED
      BY <3>1, <3>2 DEF Level
  <2> QED
    BY <2>1, <2>2
<1>13. Rate * age \in Nat /\ (age = 0 => Rate * age = 0)
  BY <1>1, UnitAssumption
<1>14. Level(k)' >= left
  <2> HIDE DEF tokens, paid
  <2> QED
    BY <1>2, <1>5, <1>7, <1>11, <1>13, UnitAssumption DEF Least, Most
<1>15. ~late' => Level(k)' = left
  <2>1. SUFFICES ASSUME ~late' PROVE Level(k)' = left
    OBVIOUS
  <2>2. ~late /\ age = 0
    <3>1. ~late /\ ~(age > 0)
      BY <1>3, <2>1
    <3> QED
      BY <1>1, <3>1
  <2>3. tokens = budget[k]
    BY <1>1, <1>2, <2>2 DEF LimiterInv, RateIsExact
  <2>4. left = tokens - paid
    BY <1>5, <2>3 DEF Most
  <2> HIDE DEF tokens, paid, left
  <2> QED
    BY <1>5, <1>11, <1>13, <2>2, <2>4, UnitAssumption DEF Least
<1> HIDE DEF tokens, paid, answer, left
<1>16. BudgetIsHonoured'
  BY <1>10, <1>12, <1>14 DEF LimiterInv, BudgetIsHonoured
<1>17. RateIsExact'
  <2> SUFFICES ASSUME ~late', NEW j \in Client PROVE Level(j)' = budget'[j]
    BY DEF RateIsExact
  <2>1. CASE j = k
    BY <1>10, <1>15, <2>1
  <2>2. CASE j # k
    <3>1. ~late
      BY <1>3
    <3> QED
      BY <1>10, <1>12, <2>2, <3>1 DEF LimiterInv, RateIsExact
  <2> QED
    BY <2>1, <2>2
<1> QED
  BY <1>9, <1>16, <1>17 DEF LimiterInv

LEMMA TickInv ==
    ASSUME LimiterInv, LimiterTick
    PROVE  LimiterInv'
<1>1. /\ Tracked' = Tracked
      /\ \A k \in Tracked :
           buckets'[k] = [tokens |-> buckets[k].tokens,
                          idle |-> Least(buckets[k].idle + 1, Long)]
  BY DEF LimiterTick, Tracked
<1>2. \A k \in Tracked : buckets[k].tokens \in 0..Burst /\ buckets[k].idle \in 0..Long
  BY DEF LimiterInv, LimiterTypeOK, Bucket
<1>3. LimiterTypeOK'
  <2>1. \A k \in Tracked' : buckets'[k] \in Bucket
    <3>1. \A k \in Tracked : Least(buckets[k].idle + 1, Long) \in 0..Long
      BY <1>2, UnitAssumption DEF Least
    <3>2. ASSUME NEW k \in Tracked' PROVE buckets'[k] \in Bucket
      <4> DEFINE idle == Least(buckets[k].idle + 1, Long)
      <4>1. /\ idle \in 0..Long /\ buckets[k].tokens \in 0..Burst
            /\ buckets'[k] = [tokens |-> buckets[k].tokens, idle |-> idle]
        BY <1>1, <1>2, <3>1, <3>2
      <4> HIDE DEF idle
      <4> QED
        BY <4>1 DEF Bucket
    <3> QED
      BY <3>2
  <2>2. asking' \in [Worker -> [client : Client, age : 0..MaxLag] \cup {NoRequest}]
    BY UnitAssumption DEF LimiterInv, LimiterTypeOK, LimiterTick
  <2>3. budget' \in [Client -> 0..Burst]
    BY UnitAssumption DEF LimiterInv, LimiterTypeOK, LimiterTick, Least
  <2> QED
    BY <1>1, <2>1, <2>2, <2>3 DEF LimiterInv, LimiterTypeOK, LimiterTick
<1>4. \A k \in Client : Level(k)' = Least(Level(k) + Rate, Burst)
  <2> SUFFICES ASSUME NEW k \in Client PROVE Level(k)' = Least(Level(k) + Rate, Burst)
    OBVIOUS
  <2>1. CASE k \in Tracked
    <3> DEFINE idle == Least(buckets[k].idle + 1, Long)
    <3>1. k \in Tracked' /\ buckets'[k] = [tokens |-> buckets[k].tokens, idle |-> idle]
      BY <1>1, <2>1
    <3>2. Least(buckets[k].tokens + Rate * idle, Burst)
            = Least(Least(buckets[k].tokens + Rate * buckets[k].idle, Burst) + Rate,
                    Burst)
      BY <1>2, <2>1, TickLevel
    <3> HIDE DEF idle
    <3>3. Level(k)' = Least(buckets[k].tokens + Rate * idle, Burst)
      BY <3>1 DEF Level
    <3>4. Level(k) = Least(buckets[k].tokens + Rate * buckets[k].idle, Burst)
      BY <2>1 DEF Level
    <3> QED
      BY <3>2, <3>3, <3>4
  <2>2. CASE k \notin Tracked
    BY <1>1, <2>2, UnitAssumption DEF Level, Least
  <2> QED
    BY <2>1, <2>2
<1>5. \A k \in Client : budget'[k] = Least(budget[k] + Rate, Burst)
  BY DEF LimiterTick
<1>6. BudgetIsHonoured'
  <2> SUFFICES ASSUME NEW k \in Client PROVE Level(k)' >= budget'[k]
    BY DEF BudgetIsHonoured
  <2>1. /\ Level(k) \in 0..Burst /\ budget[k] \in 0..Burst
        /\ Level(k) >= budget[k]
    BY LevelType DEF LimiterInv, LimiterTypeOK, BudgetIsHonoured
  <2> QED
    BY <1>4, <1>5, <2>1, UnitAssumption DEF Least
<1>7. RateIsExact'
  BY <1>4, <1>5 DEF LimiterTick, LimiterInv, RateIsExact
<1> QED
  BY <1>3, <1>6, <1>7 DEF LimiterInv

LEMMA LimiterSpecInv == ASSUME FillsWhileIdle PROVE LimiterSpec => []LimiterInv
<1>1. LimiterInv /\ [LimiterNext]_limiter => LimiterInv'
  <2> SUFFICES ASSUME LimiterInv, [LimiterNext]_limiter PROVE LimiterInv'
    OBVIOUS
  <2>1. ASSUME NEW w \in Worker, CheckAt(w) PROVE LimiterInv'
    BY <2>1, CheckInv
  <2>2. ASSUME NEW w \in Worker, NEW k \in Client, Arrive(w, k) PROVE LimiterInv'
    BY <2>2, ArriveInv
  <2>3. CASE LimiterTick
    BY <2>3, TickInv
  <2>4. CASE UNCHANGED limiter
    BY <2>4 DEF limiter, LimiterInv, LimiterTypeOK, BudgetIsHonoured, RateIsExact, Level, Tracked
  <2> QED
    BY <2>1, <2>2, <2>3, <2>4 DEF LimiterNext
<1> QED
  BY LimiterInitInv, <1>1, PTL DEF LimiterSpec

-----------------------------------------------------------------------------
(* Whatever the number of clients and the limits, as long as a bucket can  *)
(* fill within the idle time, no client loses anything to check_at's       *)
(* eviction or to the lateness of its threads.                             *)
THEOREM NobodyIsShortchanged ==
    ASSUME FillsWhileIdle PROVE LimiterSpec => []BudgetIsHonoured
BY LimiterSpecInv, PTL DEF LimiterInv

(* And none gains anything, as long as no check comes late: the rate is    *)
(* capped.                                                                 *)
THEOREM RateIsCapped ==
    ASSUME FillsWhileIdle PROVE LimiterSpec => []RateIsExact
BY LimiterSpecInv, PTL DEF LimiterInv

(* Where a token takes no more than a second, a client that waits as long  *)
(* as its Retry-After says is let through.                                 *)
THEOREM WaitingPays ==
    ASSUME FillsWhileIdle, Cost <= Rate * Second
    PROVE  LimiterSpec => []WaitSuffices
<1>1. LimiterInv => WaitSuffices
  <2> SUFFICES ASSUME LimiterInv, NEW k \in Tracked, told[k] >= 0
               PROVE  Level(k) + Rate * Second * told[k] >= Cost
    BY DEF WaitSuffices
  <2> DEFINE second == Rate * Second
  <2>1. told[k] \in Nat \ {0} /\ Level(k) \in Nat
    BY LevelType DEF LimiterInv, LimiterTypeOK
  <2>2. second \in Nat /\ Cost \in Nat /\ Cost <= second
    BY UnitAssumption
  <2> HIDE DEF second
  <2>3. second * told[k] = second + second * (told[k] - 1)
        /\ second * (told[k] - 1) \in Nat
    BY <2>1, <2>2
  <2>4. Level(k) + second * told[k] >= Cost
    BY <2>1, <2>2, <2>3
  <2> QED
    BY <2>4 DEF second
<1> QED
  BY LimiterSpecInv, <1>1, PTL

-----------------------------------------------------------------------------
(***************************************************************************)
(* The NOTAM client never spends the upstream's budget faster than it is   *)
(* given, shares its token requests, and never queues a request past the   *)
(* end of its token: for any number of callers and any durations that keep *)
(* the proportions TimeAssumption states.                                  *)
(***************************************************************************)

(* Slots are reserved Spacing apart and in order: nothing waits within     *)
(* Spacing of the next free one, ...                                       *)
SlotsBeforeNext == \A c \in Waiting : wake[c] + Spacing <= next

(* ... no two callers wait within Spacing of each other, ...               *)
SlotsApart ==
    \A c, d \in Waiting :
        c # d => wake[c] + Spacing <= wake[d] \/ wake[d] + Spacing <= wake[c]

(* ... and every slot, the next free one included, comes at least Spacing  *)
(* less the lateness of the request after the last one that reached NMS.   *)
SlotsAfterLast ==
    /\ \A c \in Waiting : wake[c] + since >= Spacing - MaxLate
    /\ next + since >= Spacing - MaxLate

PacerInv == SlotsBeforeNext /\ SlotsApart /\ SlotsAfterLast /\ Spaced

(* A token request is made under token_refresh with no token to use; a     *)
(* cached token is alive for most of the margin after its last use; and a  *)
(* queued request gets its slot before its token ends.                     *)
TokenInv ==
    /\ \A c \in Caller : pc[c] \in {"postWait", "posted"}
                           => refresher = c /\ usable = 0
    /\ usable > 0 => alive >= usable + Margin - MaxTransit
    /\ \A c \in Caller : pc[c] = "getWait" => life[c] > wake[c] + MaxLate

NotamInv == NotamTypeOK /\ PacerInv /\ TokenInv

-----------------------------------------------------------------------------
LEMMA NotamInitInv == NotamInit => NotamInv
BY TimeAssumption, CallerAssumption
   DEF NotamInit, NotamInv, NotamTypeOK, PacerInv, TokenInv, SlotsBeforeNext, SlotsApart,
       SlotsAfterLast, Spaced, Waiting

(* Every step keeps the variables in their types. *)
LEMMA NotamTypeStep == NotamTypeOK /\ [NotamNext]_notam => NotamTypeOK'
<1> SUFFICES ASSUME NotamTypeOK, [NotamNext]_notam PROVE NotamTypeOK'
  OBVIOUS
<1> USE TimeAssumption
    DEF NotamTypeOK, Return, WaitTurn, Retry, Release, pacer, token
<1>1. ASSUME NEW c \in Caller, Fetch(c) PROVE NotamTypeOK'
  BY <1>1 DEF Fetch
<1>2. ASSUME NEW c \in Caller, GetToken(c) PROVE NotamTypeOK'
  BY <1>2 DEF GetToken
<1>3. ASSUME NEW c \in Caller, Post(c) PROVE NotamTypeOK'
  BY <1>3 DEF Post, Send
<1>4. ASSUME NEW c \in Caller, Get(c) PROVE NotamTypeOK'
  BY <1>4 DEF Get, Send
<1>5. ASSUME NEW c \in Caller, Acquire(c) PROVE NotamTypeOK'
  BY <1>5 DEF Acquire
<1>6. ASSUME NEW c \in Caller, Answer(c) PROVE NotamTypeOK'
  BY <1>6 DEF Answer
<1>7. ASSUME NEW c \in Caller, TokenGranted(c) PROVE NotamTypeOK'
  BY <1>7 DEF TokenGranted
<1>8. ASSUME NEW c \in Caller, TokenRefused(c) PROVE NotamTypeOK'
  BY <1>8 DEF TokenRefused
<1>9. ASSUME NEW c \in Caller, Unauthorized(c) PROVE NotamTypeOK'
  BY <1>9 DEF Unauthorized
<1>10. ASSUME NEW c \in Caller, RateLimited(c) PROVE NotamTypeOK'
  BY <1>10 DEF RateLimited
<1>11. ASSUME NEW c \in Caller, Dropped(c) PROVE NotamTypeOK'
  BY <1>11 DEF Dropped
<1>12. CASE Tick
  BY <1>12 DEF Tick, Less, Waiting
<1>13. CASE UNCHANGED notam
  BY <1>13 DEF notam
<1> QED
  BY <1>1, <1>2, <1>3, <1>4, <1>5, <1>6, <1>7, <1>8, <1>9, <1>10, <1>11,
     <1>12, <1>13 DEF NotamNext, Local, Replied

-----------------------------------------------------------------------------
(* Reserving the next free slot keeps all slots apart, and so does giving  *)
(* up.                                                                     *)
LEMMA WaitTurnPacer ==
    ASSUME NotamTypeOK, PacerInv, NEW c \in Caller, pc[c] \notin {"postWait", "getWait"},
           NEW state \in {"postWait", "getWait"}, NEW tokenLife,
           WaitTurn(c, state, tokenLife), UNCHANGED <<since, gap>>
    PROVE  PacerInv'
<1> USE TimeAssumption
    DEF NotamTypeOK, PacerInv, SlotsBeforeNext, SlotsApart, SlotsAfterLast, Spaced,
        Waiting
<1>1. CASE next > MaxWait /\ Return(c) /\ UNCHANGED next
  BY <1>1 DEF Return
<1>2. CASE /\ next <= MaxWait
           /\ pc' = [pc EXCEPT ![c] = state]
           /\ wake' = [wake EXCEPT ![c] = next]
           /\ next' = next + Spacing
  <2>1. Waiting' = Waiting \cup {c}
    BY <1>2
  <2>2. \A d \in Waiting : d # c /\ wake'[d] = wake[d]
    BY <1>2
  <2>3. wake'[c] = next
    BY <1>2
  <2> QED
    BY <1>2, <2>1, <2>2, <2>3
<1> QED
  BY <1>1, <1>2 DEF WaitTurn

(* A caller that stops waiting, or was not, disturbs no slot. *)
LEMMA LeavePacer ==
    ASSUME NotamTypeOK, PacerInv, NEW c \in Caller, NEW s, s \notin {"postWait", "getWait"},
           pc' = [pc EXCEPT ![c] = s],
           wake' = wake \/ wake' = [wake EXCEPT ![c] = 0],
           UNCHANGED pacer
    PROVE  PacerInv'
<1>1. Waiting' \subseteq Waiting \ {c}
  BY DEF Waiting, NotamTypeOK
<1>2. \A d \in Waiting' : wake'[d] = wake[d]
  BY <1>1 DEF Waiting, NotamTypeOK
<1> QED
  BY <1>1, <1>2 DEF PacerInv, SlotsBeforeNext, SlotsApart, SlotsAfterLast,
     Spaced, pacer

(* A request that reaches NMS, up to MaxLate after its slot, is spaced from *)
(* the one before it, and every slot left is spaced from it.                *)
LEMMA SendPacer ==
    ASSUME NotamTypeOK, PacerInv, NEW c \in Caller,
           NEW waiting \in {"postWait", "getWait"}, NEW sent \in {"posted", "sent"},
           Send(c, waiting, sent)
    PROVE  PacerInv'
<1> USE TimeAssumption
    DEF NotamTypeOK, PacerInv, SlotsBeforeNext, SlotsApart, SlotsAfterLast, Spaced
<1>1. c \in Waiting /\ wake[c] \in -MaxLate..0
  BY DEF Send, Waiting
<1>2. Waiting' = Waiting \ {c}
  BY DEF Send, Waiting
<1>3. \A d \in Waiting' : d \in Waiting /\ wake'[d] = wake[d]
  BY <1>2 DEF Send, Waiting
<1>4. since' = 0 /\ gap' = since /\ next' = next
  BY DEF Send
<1>5. SlotsBeforeNext' /\ SlotsApart'
  BY <1>2, <1>3, <1>4
<1>6. gap' >= Limit
  BY <1>1, <1>4
<1>7. \A d \in Waiting' : wake'[d] >= Spacing - MaxLate
  <2> TAKE d \in Waiting'
  <2>1. d # c /\ wake[d] \in -MaxLate..MaxWait
    BY <1>2, <1>3 DEF Waiting
  <2>2. wake[d] >= wake[c] + Spacing
    BY <1>1, <1>3, <2>1
  <2> QED
    BY <1>1, <1>3, <2>1, <2>2
<1>8. next' >= Spacing - MaxLate
  BY <1>1, <1>4
<1> QED
  BY <1>3, <1>4, <1>5, <1>6, <1>7, <1>8 DEF Waiting

(* Time brings every slot closer by as much. *)
LEMMA TickPacer ==
    ASSUME NotamTypeOK, PacerInv, Tick
    PROVE  PacerInv'
<1>1. /\ {Spacing, MaxLate, Limit, next} \subseteq Nat
      /\ since \in 0..Spacing
  BY TimeAssumption DEF NotamTypeOK
<1>2. Waiting' = Waiting
  BY DEF Tick, Waiting
<1>3. \A c \in Waiting : wake[c] \in Int /\ wake'[c] = wake[c] - 1
  BY TimeAssumption DEF Tick, Waiting, NotamTypeOK
<1>4. next' \in Nat /\ next' >= next - 1
  BY <1>1 DEF Tick, Less
<1>5. since' = IF since < Spacing THEN since + 1 ELSE Spacing
  BY DEF Tick
<1>6. SlotsBeforeNext' /\ SlotsApart'
  <2>1. \A c \in Waiting : wake'[c] + Spacing <= next'
    BY <1>1, <1>3, <1>4 DEF PacerInv, SlotsBeforeNext
  <2>2. \A c, d \in Waiting : c # d =>
          wake'[c] + Spacing <= wake'[d] \/ wake'[d] + Spacing <= wake'[c]
    BY <1>1, <1>3 DEF PacerInv, SlotsApart
  <2> QED
    BY <1>2, <2>1, <2>2 DEF SlotsBeforeNext, SlotsApart
<1>7. \A c \in Waiting : wake'[c] + since' >= Spacing - MaxLate
  <2> SUFFICES ASSUME NEW c \in Waiting
               PROVE  wake'[c] + since' >= Spacing - MaxLate
    OBVIOUS
  <2>1. wake[c] > -MaxLate
    BY DEF Tick
  <2>2. wake[c] + since >= Spacing - MaxLate
    BY DEF PacerInv, SlotsAfterLast
  <2> QED
    BY <1>1, <1>3, <1>5, <2>1, <2>2
<1>8. next' + since' >= Spacing - MaxLate
  <2>1. next + since >= Spacing - MaxLate
    BY DEF PacerInv, SlotsAfterLast
  <2> QED
    BY <1>1, <1>4, <1>5, <2>1
<1>9. Spaced'
  BY DEF Tick, PacerInv, Spaced
<1> QED
  BY <1>2, <1>6, <1>7, <1>8, <1>9 DEF PacerInv, SlotsAfterLast

LEMMA PacerStep == NotamTypeOK /\ PacerInv /\ [NotamNext]_notam => PacerInv'
<1> SUFFICES ASSUME NotamTypeOK, PacerInv, [NotamNext]_notam PROVE PacerInv'
  OBVIOUS
<1> USE DEF pacer
<1>1. ASSUME NEW c \in Caller, Fetch(c) PROVE PacerInv'
  BY <1>1, LeavePacer DEF Fetch
<1>2. ASSUME NEW c \in Caller, GetToken(c) PROVE PacerInv'
  <2>1. CASE WaitTurn(c, "getWait", alive)
    BY <1>2, <2>1, WaitTurnPacer DEF GetToken
  <2>2. CASE pc' = [pc EXCEPT ![c] = "lock"] /\ UNCHANGED <<wake, next>>
    BY <1>2, <2>2, LeavePacer DEF GetToken
  <2> QED
    BY <1>2, <2>1, <2>2 DEF GetToken
<1>3. ASSUME NEW c \in Caller, Post(c) PROVE PacerInv'
  BY <1>3, SendPacer DEF Post
<1>4. ASSUME NEW c \in Caller, Get(c) PROVE PacerInv'
  BY <1>4, SendPacer DEF Get
<1>5. ASSUME NEW c \in Caller, Acquire(c) PROVE PacerInv'
  BY <1>5, WaitTurnPacer DEF Acquire
<1>6. ASSUME NEW c \in Caller, Answer(c) PROVE PacerInv'
  BY <1>6, LeavePacer DEF Answer, Return
<1>7. ASSUME NEW c \in Caller, TokenGranted(c) PROVE PacerInv'
  BY <1>7, WaitTurnPacer DEF TokenGranted
<1>8. ASSUME NEW c \in Caller, TokenRefused(c) PROVE PacerInv'
  BY <1>8, LeavePacer DEF TokenRefused, Return
<1>9. ASSUME NEW c \in Caller, Unauthorized(c) PROVE PacerInv'
  BY <1>9, LeavePacer DEF Unauthorized, Return
<1>10. ASSUME NEW c \in Caller, RateLimited(c) PROVE PacerInv'
  BY <1>10, LeavePacer DEF RateLimited, Retry, Return
<1>11. ASSUME NEW c \in Caller, Dropped(c) PROVE PacerInv'
  BY <1>11, LeavePacer DEF Dropped, Return
<1>12. CASE Tick
  BY <1>12, TickPacer
<1>13. CASE UNCHANGED notam
  BY <1>13 DEF notam, PacerInv, SlotsBeforeNext, SlotsApart, SlotsAfterLast,
     Spaced, Waiting
<1> QED
  BY <1>1, <1>2, <1>3, <1>4, <1>5, <1>6, <1>7, <1>8, <1>9, <1>10, <1>11,
     <1>12, <1>13 DEF NotamNext, Local, Replied

-----------------------------------------------------------------------------
(* The mutex carries the sharing, the margin carries the wait. *)
LEMMA TokenStep == NotamTypeOK /\ TokenInv /\ [NotamNext]_notam => TokenInv'
<1> SUFFICES ASSUME NotamTypeOK, TokenInv, [NotamNext]_notam PROVE TokenInv'
  OBVIOUS
<1> USE TimeAssumption, CallerAssumption
    DEF NotamTypeOK, TokenInv, Return, WaitTurn, Retry, Release, pacer, token
<1>1. ASSUME NEW c \in Caller, Fetch(c) PROVE TokenInv'
  BY <1>1 DEF Fetch
<1>2. ASSUME NEW c \in Caller, GetToken(c) PROVE TokenInv'
  BY <1>2 DEF GetToken
<1>3. ASSUME NEW c \in Caller, Post(c) PROVE TokenInv'
  BY <1>3 DEF Post, Send
<1>4. ASSUME NEW c \in Caller, Get(c) PROVE TokenInv'
  BY <1>4 DEF Get, Send
<1>5. ASSUME NEW c \in Caller, Acquire(c) PROVE TokenInv'
  BY <1>5 DEF Acquire
<1>6. ASSUME NEW c \in Caller, Answer(c) PROVE TokenInv'
  BY <1>6 DEF Answer
<1>7. ASSUME NEW c \in Caller, TokenGranted(c) PROVE TokenInv'
  BY <1>7 DEF TokenGranted
<1>8. ASSUME NEW c \in Caller, TokenRefused(c) PROVE TokenInv'
  BY <1>8 DEF TokenRefused
<1>9. ASSUME NEW c \in Caller, Unauthorized(c) PROVE TokenInv'
  BY <1>9 DEF Unauthorized
<1>10. ASSUME NEW c \in Caller, RateLimited(c) PROVE TokenInv'
  BY <1>10 DEF RateLimited
<1>11. ASSUME NEW c \in Caller, Dropped(c) PROVE TokenInv'
  BY <1>11 DEF Dropped
<1>12. CASE Tick
  BY <1>12 DEF Tick, Less, Waiting
<1>13. CASE UNCHANGED notam
  BY <1>13 DEF notam
<1> QED
  BY <1>1, <1>2, <1>3, <1>4, <1>5, <1>6, <1>7, <1>8, <1>9, <1>10, <1>11,
     <1>12, <1>13 DEF NotamNext, Local, Replied

LEMMA NotamSpecInv == NotamSpec => []NotamInv
<1>1. NotamInv /\ [NotamNext]_notam => NotamInv'
  BY NotamTypeStep, PacerStep, TokenStep DEF NotamInv
<1> QED
  BY NotamInitInv, <1>1, PTL DEF NotamSpec

-----------------------------------------------------------------------------
(* The variables of the NOTAM client keep their types; in particular no    *)
(* call is ever queued for longer than MaxWait.                            *)
THEOREM NotamTypeCorrect == NotamSpec => []NotamTypeOK
BY NotamSpecInv, PTL DEF NotamInv

(* However late its requests run and however many callers there are, the   *)
(* client never sends NMS two requests closer than NMS allows.             *)
THEOREM NeverSpikes == NotamSpec => []Spaced
BY NotamSpecInv, PTL DEF NotamInv, PacerInv

(* Callers that find no token share one token request. *)
THEOREM OneTokenRequest == NotamSpec => []TokenShared
<1>1. NotamInv => TokenShared
  BY CallerAssumption DEF NotamInv, TokenInv, TokenShared
<1> QED
  BY NotamSpecInv, <1>1, PTL

(* No request reaches NMS with a token that expired while it was queued. *)
THEOREM TokensOutliveQueue == NotamSpec => []TokenOutlivesQueue
<1>1. NotamInv => TokenOutlivesQueue
  BY TimeAssumption DEF NotamInv, NotamTypeOK, TokenInv, TokenOutlivesQueue
<1> QED
  BY NotamSpecInv, <1>1, PTL

-----------------------------------------------------------------------------
(***************************************************************************)
(* The invariants of the accounts, for any number of people, requests and  *)
(* aircraft, and for every cap.                                            *)
(***************************************************************************)

SigningIn == {"exchange", "upsert", "session"}

(* A request on its way from the provider carries a state, and one past    *)
(* the exchange the person it is for.  The id of a deleted user never      *)
(* comes back, so that the user a request has found is that person still,  *)
(* or gone.                                                                *)
RequestsKnowTheirPerson ==
    \A r \in Request :
        /\ request[r].pc \in SigningIn => request[r].csrf \in Ids("csrf")
        /\ request[r].pc \notin {"idle", "exchange"} => request[r].person \in Person
        /\ /\ request[r].pc \notin {"idle", "exchange", "upsert"}
           /\ request[r].user \in DOMAIN users
           => users[request[r].user] = request[r].person

(* A state is pending, or carried by one request, or behind one session.   *)
StatesAreSpentOnce ==
    /\ \A r \in Request : request[r].pc \in SigningIn =>
         /\ request[r].csrf \notin DOMAIN pending
         /\ \A t \in DOMAIN sessions : sessions[t].csrf # request[r].csrf
         /\ \A q \in Request : q # r /\ request[q].pc \in SigningIn
                                 => request[q].csrf # request[r].csrf
    /\ \A t \in DOMAIN sessions : sessions[t].csrf \notin DOMAIN pending

(* NothingCrossesAccounts and DeletedWithAccount, table by table.          *)
RowsHaveTheirUser ==
    /\ \A t \in DOMAIN sessions : /\ sessions[t].user \in DOMAIN users
                                  /\ users[sessions[t].user] = sessions[t].person
    /\ \A a \in DOMAIN aircraft : /\ aircraft[a].user \in DOMAIN users
                                  /\ users[aircraft[a].user] = aircraft[a].person

Inv == /\ TypeOK
       /\ RequestsKnowTheirPerson
       /\ RowsHaveTheirUser
       /\ StatesAreSpentOnce
       /\ OneSessionPerTrip
       /\ RegistrationsDiffer
       /\ OvershootIsBounded

LEMMA Kinds == DOMAIN Limits = {"csrf", "user", "token", "aircraft"}
BY LimitsAssumption

RequestRecord ==
    [pc : {"idle", "exchange", "upsert", "session", "count", "insert", "seed",
           "replace", "update", "delete", "deleteUser"},
     csrf : 0..seq.csrf, person : Person \cup {Nobody},
     user : 0..seq.user, aircraft : 0..seq.aircraft, left : SUBSET Phase]

(* Handing out an id moves its counter on by one, and no other.            *)
LEMMA Counters ==
    ASSUME TypeOK, NEW kind \in DOMAIN Limits, HandOut(kind)
    PROVE  /\ seq[kind] \in Nat
           /\ seq' \in [DOMAIN Limits -> Nat]
           /\ seq'[kind] = seq[kind] + 1
           /\ \A k \in DOMAIN Limits : /\ k # kind => seq'[k] = seq[k]
                                      /\ Ids(k) \subseteq Ids(k)'
                                      /\ 0..seq[k] \subseteq 0..seq'[k]
           /\ seq[kind] + 1 \in Ids(kind)' /\ seq[kind] + 1 \notin Ids(kind)
BY DEF TypeOK, HandOut, Ids

(* Replacing a table changes the rows of an aircraft and nothing else.     *)
LEMMA PerformanceKeepsRows ==
    ASSUME TypeOK, NEW u, NEW a, NEW phase \in Phase, NEW rows \in {"book", "own"},
           ReplacePerformance(u, a, phase, rows)
    PROVE  /\ DOMAIN aircraft' = DOMAIN aircraft
           /\ \A b \in DOMAIN aircraft :
                /\ aircraft'[b] \in [user : Ids("user"), registration : Registration,
                                     rows : [Phase -> {"none", "book", "own"}],
                                     person : Person]
                /\ aircraft'[b].user = aircraft[b].user
                /\ aircraft'[b].registration = aircraft[b].registration
                /\ aircraft'[b].person = aircraft[b].person
<1>1. CASE a \in Fleet(u)
  <2> DEFINE row == [aircraft[a] EXCEPT !.rows = [aircraft[a].rows EXCEPT ![phase] = rows]]
  <2>1. aircraft' = [aircraft EXCEPT ![a] = row] /\ a \in DOMAIN aircraft
    BY <1>1 DEF ReplacePerformance, Fleet
  <2>2. /\ row \in [user : Ids("user"), registration : Registration,
                    rows : [Phase -> {"none", "book", "own"}], person : Person]
        /\ row.user = aircraft[a].user
        /\ row.registration = aircraft[a].registration
        /\ row.person = aircraft[a].person
    BY <2>1 DEF TypeOK
  <2> HIDE DEF row
  <2> QED
    BY <2>1, <2>2 DEF TypeOK
<1>2. CASE a \notin Fleet(u)
  BY <1>2 DEF ReplacePerformance, TypeOK
<1> QED
  BY <1>1, <1>2

LEMMA InitInv == Init => Inv
<1> SUFFICES ASSUME Init PROVE Inv
  OBVIOUS
<1>1. TypeOK
  BY Kinds DEF Init, TypeOK, Idle, Ids
<1>2. RequestsKnowTheirPerson /\ StatesAreSpentOnce /\ RowsHaveTheirUser
  BY DEF Init, Idle, SigningIn, RequestsKnowTheirPerson, StatesAreSpentOnce,
         RowsHaveTheirUser
<1>3. OneSessionPerTrip /\ RegistrationsDiffer /\ OvershootIsBounded
  BY DEF Init, OneSessionPerTrip, RegistrationsDiffer, OvershootIsBounded
<1> QED
  BY <1>1, <1>2, <1>3 DEF Inv

-----------------------------------------------------------------------------
(* Every step keeps the tables, the requests and the counters in their     *)
(* types.                                                                  *)
LEMMA TypeStep ==
    TypeOK /\ RequestsKnowTheirPerson /\ RowsHaveTheirUser /\ [Next]_vars => TypeOK'
<1> SUFFICES ASSUME TypeOK, RequestsKnowTheirPerson, RowsHaveTheirUser, [Next]_vars
             PROVE  TypeOK'
  OBVIOUS
<1> USE Kinds DEF TypeOK, Ids, Idle, Goto, Respond, HandOut, Restrict, Insert,
        RequestRecord
<1>1. CASE Login
  <2>1. /\ HandOut("csrf")
        /\ pending' = Insert(Restrict(pending, Swept), seq.csrf + 1, TRUE)
        /\ UNCHANGED <<users, sessions, aircraft, request>>
    BY <1>1 DEF Login
  <2>2. /\ seq' \in [DOMAIN Limits -> Nat]
        /\ \A s \in 1..seq.csrf : s \in 1..seq'.csrf
        /\ seq.csrf + 1 \in 1..seq'.csrf
        /\ seq'.user = seq.user /\ seq'.token = seq.token
        /\ seq'.aircraft = seq.aircraft
        /\ \A s \in 0..seq.csrf : s \in 0..seq'.csrf
    BY <2>1
  <2>3. \A s \in DOMAIN pending' : s \in Ids("csrf")' /\ pending'[s] \in BOOLEAN
    BY <2>1, <2>2 DEF Swept
  <2>4. \A t \in DOMAIN sessions' : t \in Ids("token")' /\
          sessions'[t] \in [user : Ids("user")', valid : BOOLEAN,
                            csrf : Ids("csrf")', person : Person]
    BY <2>1, <2>2
  <2> QED
    BY ZenonT(60), <2>1, <2>2, <2>3, <2>4
<1>2. ASSUME NEW r \in Request, NEW s \in 1..seq.csrf, Callback(r, s)
      PROVE  TypeOK'
  BY <1>2 DEF Callback, Swept
<1>3. ASSUME NEW r \in Request, NEW p \in Person, Exchange(r, p)
      PROVE  TypeOK'
  <2> DEFINE row == [request[r] EXCEPT !.pc = "upsert", !.person = p]
  <2>1. request' = [request EXCEPT ![r] = row]
    BY <1>3 DEF Exchange
  <2>2. request[r] \in RequestRecord
    OBVIOUS
  <2>3. row \in RequestRecord
    BY <2>2
  <2>4. UNCHANGED <<pending, users, sessions, aircraft, seq>>
    BY <1>3 DEF Exchange
  <2> HIDE DEF row
  <2> QED
    BY <2>1, <2>3, <2>4
<1>4. ASSUME NEW r \in Request, UpsertUser(r) PROVE TypeOK'
  BY <1>4 DEF UpsertUser, NewUser, RequestsKnowTheirPerson
<1>5. ASSUME NEW r \in Request, CreateSession(r) PROVE TypeOK'
  <2>1. CASE request[r].user \in DOMAIN users
    <3> DEFINE row == [user |-> request[r].user, valid |-> TRUE,
                       csrf |-> request[r].csrf, person |-> request[r].person]
    <3>1. row \in [user : Ids("user"), valid : BOOLEAN,
                   csrf : Ids("csrf"), person : Person]
      BY <1>5, <2>1 DEF CreateSession, RequestsKnowTheirPerson, SigningIn
    <3>2. /\ HandOut("token")
          /\ sessions' = Insert(sessions, seq.token + 1, row)
          /\ UNCHANGED <<pending, users, aircraft>>
      BY <1>5, <2>1 DEF CreateSession
    <3>3. request' = [request EXCEPT ![r] = Idle]
      BY <1>5 DEF CreateSession
    <3> HIDE DEF row
    <3>4. /\ seq' \in [DOMAIN Limits -> Nat]
          /\ seq'.csrf = seq.csrf /\ seq'.user = seq.user
          /\ seq'.aircraft = seq.aircraft
          /\ \A t \in 1..seq.token : t \in 1..seq'.token
          /\ seq.token + 1 \in 1..seq'.token
      BY <3>2
    <3>5. \A t \in DOMAIN sessions' : t \in Ids("token")' /\
            sessions'[t] \in [user : Ids("user")', valid : BOOLEAN,
                              csrf : Ids("csrf")', person : Person]
      BY <3>1, <3>2, <3>4
    <3>6. \A a \in DOMAIN aircraft' : a \in Ids("aircraft")' /\
            aircraft'[a] \in [user : Ids("user")', registration : Registration,
                              rows : [Phase -> {"none", "book", "own"}],
                              person : Person]
      BY <3>2, <3>4
    <3>7. request' \in [Request -> RequestRecord']
      BY <3>3, <3>4
    <3> QED
      BY <3>2, <3>4, <3>5, <3>6, <3>7
  <2>2. CASE request[r].user \notin DOMAIN users
    BY <1>5, <2>2 DEF CreateSession
  <2> QED
    BY <2>1, <2>2
<1>6. ASSUME NEW t \in DOMAIN sessions, Logout(t) PROVE TypeOK'
  BY <1>6 DEF Logout
<1>7. CASE SweepExpiredSessions
  BY <1>7 DEF SweepExpiredSessions, RestrictValues
<1>8. CASE Expire
  <2>1. ASSUME NEW s \in Swept, pending' = [pending EXCEPT ![s] = FALSE],
               UNCHANGED <<sessions, users, aircraft, request, seq>>
        PROVE  TypeOK'
    BY <2>1
  <2>2. ASSUME NEW t \in DOMAIN sessions,
               sessions' = [sessions EXCEPT ![t].valid = FALSE],
               UNCHANGED <<pending, users, aircraft, request, seq>>
        PROVE  TypeOK'
    <3> DEFINE row == [sessions[t] EXCEPT !.valid = FALSE]
    <3>1. sessions' = [sessions EXCEPT ![t] = row]
      BY <2>2
    <3>2. sessions[t] \in [user : Ids("user"), valid : BOOLEAN,
                           csrf : Ids("csrf"), person : Person]
      BY <2>2
    <3>3. row \in [user : Ids("user"), valid : BOOLEAN,
                   csrf : Ids("csrf"), person : Person]
      BY <3>2
    <3> HIDE DEF row
    <3> QED
      BY <2>2, <3>1, <3>3
  <2> QED
    BY <1>8, <2>1, <2>2 DEF Expire
<1>9. ASSUME NEW r \in Request, NEW t \in DOMAIN sessions,
             NEW op \in {"count", "replace", "update", "delete", "deleteUser"},
             Authenticate(r, t, op)
      PROVE  TypeOK'
  <2>1. request' = [request EXCEPT ![r] =
                      [request[r] EXCEPT !.pc = op, !.user = sessions[t].user,
                                         !.person = users[sessions[t].user]]]
    BY <1>9 DEF Authenticate
  <2>2. sessions[t].user \in 0..seq.user /\ users[sessions[t].user] \in Person
    BY DEF RowsHaveTheirUser
  <2> QED
    BY SMTT(30), <1>9, <2>1, <2>2 DEF Authenticate
<1>10. ASSUME NEW r \in Request, CountAircraft(r) PROVE TypeOK'
  BY <1>10 DEF CountAircraft
<1>11. ASSUME NEW r \in Request, NEW reg \in Registration, InsertAircraft(r, reg)
       PROVE  TypeOK'
  BY <1>11 DEF InsertAircraft, Allowed, RequestsKnowTheirPerson
<1>12. ASSUME NEW r \in Request, Seed(r) PROVE TypeOK'
  <2>1. PICK left \in SUBSET Phase :
          request' = [request EXCEPT ![r] = [request[r] EXCEPT !.left = left]]
          \/ request' = [request EXCEPT ![r] = Idle]
    BY <1>12 DEF Seed
  <2>2. CASE UNCHANGED aircraft
    BY SMTT(30), <1>12, <2>1, <2>2 DEF Seed
  <2>3. ASSUME NEW phase \in Phase,
               ReplacePerformance(request[r].user, request[r].aircraft, phase, "book")
        PROVE  TypeOK'
    <3>1. UNCHANGED <<pending, users, sessions, seq>>
      BY <1>12 DEF Seed
    <3>2. request' \in [Request -> RequestRecord]
      BY <2>1
    <3>3. \A a \in DOMAIN aircraft' : a \in Ids("aircraft") /\
            aircraft'[a] \in [user : Ids("user"), registration : Registration,
                              rows : [Phase -> {"none", "book", "own"}],
                              person : Person]
      BY <2>3, PerformanceKeepsRows
    <3> QED
      BY <3>1, <3>2, <3>3
  <2> QED
    BY <1>12, <2>2, <2>3 DEF Seed
<1>13. ASSUME NEW r \in Request, NEW a \in DOMAIN aircraft, NEW phase \in Phase,
              Replace(r, a, phase)
       PROVE  TypeOK'
  BY <1>13, PerformanceKeepsRows DEF Replace
<1>14. ASSUME NEW r \in Request, NEW a \in DOMAIN aircraft,
              NEW reg \in Registration, UpdateAircraft(r, a, reg)
       PROVE  TypeOK'
  BY <1>14 DEF UpdateAircraft
<1>15. ASSUME NEW r \in Request, NEW a \in DOMAIN aircraft, DeleteAircraft(r, a)
       PROVE  TypeOK'
  BY <1>15 DEF DeleteAircraft
<1>16. ASSUME NEW r \in Request, DeleteUser(r) PROVE TypeOK'
  BY <1>16 DEF DeleteUser, RestrictValues
<1>17. ASSUME NEW r \in Request, Fail(r) PROVE TypeOK'
  BY <1>17 DEF Fail
<1>18. CASE Restart
  BY <1>18 DEF Restart
<1>19. CASE UNCHANGED vars
  BY <1>19 DEF vars
<1> HIDE DEF TypeOK, Ids, Idle, Goto, Respond, HandOut, Restrict, Insert,
             RequestRecord
<1> QED
  BY <1>1, <1>2, <1>3, <1>4, <1>5, <1>6, <1>7, <1>8, <1>9, <1>10, <1>11, <1>12,
     <1>13, <1>14, <1>15, <1>16, <1>17, <1>18, <1>19 DEF Next, SignIn, Manage

(* A request keeps to its person, and a row to its user.                   *)
LEMMA OwnerStep ==
    TypeOK /\ RequestsKnowTheirPerson /\ RowsHaveTheirUser /\ [Next]_vars
        => RequestsKnowTheirPerson' /\ RowsHaveTheirUser'
<1> SUFFICES ASSUME TypeOK, RequestsKnowTheirPerson, RowsHaveTheirUser,
                    [Next]_vars
             PROVE  RequestsKnowTheirPerson' /\ RowsHaveTheirUser'
  OBVIOUS
<1> USE Kinds DEF TypeOK, Ids, Idle, Goto, Respond, HandOut, Restrict, Insert,
        RequestsKnowTheirPerson, RowsHaveTheirUser, SigningIn
<1>1. CASE Login
  BY <1>1 DEF Login, Swept
<1>2. ASSUME NEW r \in Request, NEW s \in 1..seq.csrf, Callback(r, s)
      PROVE  RequestsKnowTheirPerson' /\ RowsHaveTheirUser'
  BY <1>2 DEF Callback, Swept
<1>3. ASSUME NEW r \in Request, NEW p \in Person, Exchange(r, p)
      PROVE  RequestsKnowTheirPerson' /\ RowsHaveTheirUser'
  BY <1>3 DEF Exchange
<1>4. ASSUME NEW r \in Request, UpsertUser(r)
      PROVE  RequestsKnowTheirPerson' /\ RowsHaveTheirUser'
  BY <1>4 DEF UpsertUser, NewUser
<1>5. ASSUME NEW r \in Request, CreateSession(r)
      PROVE  RequestsKnowTheirPerson' /\ RowsHaveTheirUser'
  BY <1>5 DEF CreateSession
<1>6. ASSUME NEW t \in DOMAIN sessions, Logout(t)
      PROVE  RequestsKnowTheirPerson' /\ RowsHaveTheirUser'
  BY <1>6 DEF Logout
<1>7. CASE SweepExpiredSessions
  BY <1>7 DEF SweepExpiredSessions, RestrictValues
<1>8. CASE Expire
  BY <1>8 DEF Expire, Swept
<1>9. ASSUME NEW r \in Request, NEW t \in DOMAIN sessions,
             NEW op \in {"count", "replace", "update", "delete", "deleteUser"},
             Authenticate(r, t, op)
      PROVE  RequestsKnowTheirPerson' /\ RowsHaveTheirUser'
  BY <1>9 DEF Authenticate
<1>10. ASSUME NEW r \in Request, CountAircraft(r)
      PROVE  RequestsKnowTheirPerson' /\ RowsHaveTheirUser'
  BY <1>10 DEF CountAircraft
<1>11. ASSUME NEW r \in Request, NEW reg \in Registration, InsertAircraft(r, reg)
      PROVE  RequestsKnowTheirPerson' /\ RowsHaveTheirUser'
  BY <1>11 DEF InsertAircraft, Allowed
<1>12. ASSUME NEW r \in Request, Seed(r)
      PROVE  RequestsKnowTheirPerson' /\ RowsHaveTheirUser'
  BY <1>12, PerformanceKeepsRows DEF Seed
<1>13. ASSUME NEW r \in Request, NEW a \in DOMAIN aircraft, NEW phase \in Phase,
              Replace(r, a, phase)
      PROVE  RequestsKnowTheirPerson' /\ RowsHaveTheirUser'
  BY <1>13, PerformanceKeepsRows DEF Replace
<1>14. ASSUME NEW r \in Request, NEW a \in DOMAIN aircraft,
              NEW reg \in Registration, UpdateAircraft(r, a, reg)
      PROVE  RequestsKnowTheirPerson' /\ RowsHaveTheirUser'
  BY <1>14 DEF UpdateAircraft
<1>15. ASSUME NEW r \in Request, NEW a \in DOMAIN aircraft, DeleteAircraft(r, a)
      PROVE  RequestsKnowTheirPerson' /\ RowsHaveTheirUser'
  BY <1>15 DEF DeleteAircraft
<1>16. ASSUME NEW r \in Request, DeleteUser(r)
      PROVE  RequestsKnowTheirPerson' /\ RowsHaveTheirUser'
  BY <1>16 DEF DeleteUser, RestrictValues
<1>17. ASSUME NEW r \in Request, Fail(r)
      PROVE  RequestsKnowTheirPerson' /\ RowsHaveTheirUser'
  BY <1>17 DEF Fail
<1>18. CASE Restart
  BY <1>18 DEF Restart
<1>19. CASE UNCHANGED vars
  BY <1>19 DEF vars
<1> HIDE DEF TypeOK, Ids, Idle, Goto, Respond, HandOut, Restrict, Insert,
             RequestsKnowTheirPerson, RowsHaveTheirUser, SigningIn
<1> QED
  BY <1>1, <1>2, <1>3, <1>4, <1>5, <1>6, <1>7, <1>8, <1>9, <1>10, <1>11, <1>12,
     <1>13, <1>14, <1>15, <1>16, <1>17, <1>18, <1>19 DEF Next, SignIn, Manage

(* Most steps leave the trips alone: no state moves, nobody starts one.    *)
LEMMA TripsUntouched ==
    ASSUME StatesAreSpentOnce, OneSessionPerTrip, UNCHANGED <<pending, sessions>>,
           \A q \in Request : request'[q].pc \in SigningIn => request'[q] = request[q]
    PROVE  StatesAreSpentOnce' /\ OneSessionPerTrip'
BY DEF StatesAreSpentOnce, OneSessionPerTrip

(* Whatever becomes of a state, it is not there twice.                     *)
LEMMA TripStep ==
    TypeOK /\ StatesAreSpentOnce /\ OneSessionPerTrip /\ [Next]_vars
        => StatesAreSpentOnce' /\ OneSessionPerTrip'
<1> SUFFICES ASSUME TypeOK, StatesAreSpentOnce, OneSessionPerTrip,
                    [Next]_vars
             PROVE  StatesAreSpentOnce' /\ OneSessionPerTrip'
  OBVIOUS
<1> USE Kinds DEF TypeOK, Ids, Idle, Goto, Respond, HandOut, Restrict, Insert,
        StatesAreSpentOnce, OneSessionPerTrip, SigningIn
<1>1. CASE Login
  BY <1>1 DEF Login, Swept
<1>2. ASSUME NEW r \in Request, NEW s \in 1..seq.csrf, Callback(r, s)
      PROVE  StatesAreSpentOnce' /\ OneSessionPerTrip'
  <2>1. CASE request' = [request EXCEPT ![r] = Idle]
    BY <1>2, <2>1 DEF Callback, Swept
  <2>2. CASE /\ s \in Swept
             /\ request' = [request EXCEPT ![r].pc = "exchange", ![r].csrf = s]
    <3>1. /\ request'[r].csrf = s
          /\ \A q \in Request \ {r} : request'[q] = request[q]
      BY <2>2
    <3>2. s \in DOMAIN pending /\ DOMAIN pending' \subseteq DOMAIN pending \ {s}
      BY <1>2, <2>2 DEF Callback, Swept
    <3>3. sessions' = sessions
      BY <1>2 DEF Callback
    <3> QED
      BY <3>1, <3>2, <3>3
  <2> QED
    BY <1>2, <2>1, <2>2 DEF Callback
<1>3. ASSUME NEW r \in Request, NEW p \in Person, Exchange(r, p)
      PROVE  StatesAreSpentOnce' /\ OneSessionPerTrip'
  BY <1>3 DEF Exchange
<1>4. ASSUME NEW r \in Request, UpsertUser(r)
      PROVE  StatesAreSpentOnce' /\ OneSessionPerTrip'
  BY <1>4 DEF UpsertUser, NewUser
<1>5. ASSUME NEW r \in Request, CreateSession(r)
      PROVE  StatesAreSpentOnce' /\ OneSessionPerTrip'
  BY <1>5 DEF CreateSession
<1>6. ASSUME NEW t \in DOMAIN sessions, Logout(t)
      PROVE  StatesAreSpentOnce' /\ OneSessionPerTrip'
  BY <1>6 DEF Logout
<1>7. CASE SweepExpiredSessions
  BY <1>7 DEF SweepExpiredSessions, RestrictValues
<1>8. CASE Expire
  BY SMTT(30), <1>8 DEF Expire, Swept
<1>9. ASSUME NEW r \in Request, NEW t \in DOMAIN sessions,
             NEW op \in {"count", "replace", "update", "delete", "deleteUser"},
             Authenticate(r, t, op)
      PROVE  StatesAreSpentOnce' /\ OneSessionPerTrip'
  <2>1. UNCHANGED <<pending, sessions>>
    BY <1>9 DEF Authenticate
  <2>2. \A q \in Request : request'[q].pc \in SigningIn => request'[q] = request[q]
    BY <1>9 DEF Authenticate
  <2> QED
    BY <2>1, <2>2, TripsUntouched
<1>10. ASSUME NEW r \in Request, CountAircraft(r)
      PROVE  StatesAreSpentOnce' /\ OneSessionPerTrip'
  <2>1. UNCHANGED <<pending, sessions>>
    BY <1>10 DEF CountAircraft
  <2>2. \A q \in Request : request'[q].pc \in SigningIn => request'[q] = request[q]
    BY <1>10 DEF CountAircraft
  <2> QED
    BY <2>1, <2>2, TripsUntouched
<1>11. ASSUME NEW r \in Request, NEW reg \in Registration, InsertAircraft(r, reg)
      PROVE  StatesAreSpentOnce' /\ OneSessionPerTrip'
  <2>1. UNCHANGED <<pending, sessions>>
    BY <1>11 DEF InsertAircraft
  <2>2. \A q \in Request : request'[q].pc \in SigningIn => request'[q] = request[q]
    BY <1>11 DEF InsertAircraft
  <2> QED
    BY <2>1, <2>2, TripsUntouched
<1>12. ASSUME NEW r \in Request, Seed(r)
      PROVE  StatesAreSpentOnce' /\ OneSessionPerTrip'
  <2>1. UNCHANGED <<pending, sessions>>
    BY <1>12 DEF Seed
  <2>2. \A q \in Request : request'[q].pc \in SigningIn => request'[q] = request[q]
    BY <1>12 DEF Seed
  <2> QED
    BY <2>1, <2>2, TripsUntouched
<1>13. ASSUME NEW r \in Request, NEW a \in DOMAIN aircraft, NEW phase \in Phase,
              Replace(r, a, phase)
      PROVE  StatesAreSpentOnce' /\ OneSessionPerTrip'
  <2>1. UNCHANGED <<pending, sessions>>
    BY <1>13 DEF Replace
  <2>2. \A q \in Request : request'[q].pc \in SigningIn => request'[q] = request[q]
    BY <1>13 DEF Replace
  <2> QED
    BY <2>1, <2>2, TripsUntouched
<1>14. ASSUME NEW r \in Request, NEW a \in DOMAIN aircraft,
              NEW reg \in Registration, UpdateAircraft(r, a, reg)
      PROVE  StatesAreSpentOnce' /\ OneSessionPerTrip'
  <2>1. UNCHANGED <<pending, sessions>>
    BY <1>14 DEF UpdateAircraft
  <2>2. \A q \in Request : request'[q].pc \in SigningIn => request'[q] = request[q]
    BY <1>14 DEF UpdateAircraft
  <2> QED
    BY <2>1, <2>2, TripsUntouched
<1>15. ASSUME NEW r \in Request, NEW a \in DOMAIN aircraft, DeleteAircraft(r, a)
      PROVE  StatesAreSpentOnce' /\ OneSessionPerTrip'
  <2>1. UNCHANGED <<pending, sessions>>
    BY <1>15 DEF DeleteAircraft
  <2>2. \A q \in Request : request'[q].pc \in SigningIn => request'[q] = request[q]
    BY <1>15 DEF DeleteAircraft
  <2> QED
    BY <2>1, <2>2, TripsUntouched
<1>16. ASSUME NEW r \in Request, DeleteUser(r)
      PROVE  StatesAreSpentOnce' /\ OneSessionPerTrip'
  BY <1>16 DEF DeleteUser, RestrictValues
<1>17. ASSUME NEW r \in Request, Fail(r)
      PROVE  StatesAreSpentOnce' /\ OneSessionPerTrip'
  BY <1>17 DEF Fail
<1>18. CASE Restart
  BY <1>18 DEF Restart
<1>19. CASE UNCHANGED vars
  BY <1>19 DEF vars
<1> HIDE DEF TypeOK, Ids, Idle, Goto, Respond, HandOut, Restrict, Insert,
             StatesAreSpentOnce, OneSessionPerTrip, SigningIn
<1> QED
  BY <1>1, <1>2, <1>3, <1>4, <1>5, <1>6, <1>7, <1>8, <1>9, <1>10, <1>11, <1>12,
     <1>13, <1>14, <1>15, <1>16, <1>17, <1>18, <1>19 DEF Next, SignIn, Manage

(* The unique index looks at the fleet of the user and at no other.        *)
LEMMA RegistrationStep ==
    TypeOK /\ RegistrationsDiffer /\ [Next]_vars => RegistrationsDiffer'
<1> SUFFICES ASSUME TypeOK, RegistrationsDiffer, [Next]_vars
             PROVE  RegistrationsDiffer'
  OBVIOUS
<1>1. CASE UNCHANGED aircraft
  BY <1>1 DEF RegistrationsDiffer
<1>2. ASSUME NEW r \in Request, NEW reg \in Registration, InsertAircraft(r, reg)
      PROVE  RegistrationsDiffer'
  BY <1>2 DEF InsertAircraft, Allowed, Fleet, Insert, TypeOK, Ids,
              RegistrationsDiffer
<1>3. ASSUME NEW u, NEW a, NEW phase \in Phase, NEW rows \in {"book", "own"},
             ReplacePerformance(u, a, phase, rows)
      PROVE  RegistrationsDiffer'
  BY <1>3, PerformanceKeepsRows DEF RegistrationsDiffer
<1>4. ASSUME NEW r \in Request, NEW a \in DOMAIN aircraft,
             NEW reg \in Registration, UpdateAircraft(r, a, reg)
      PROVE  RegistrationsDiffer'
  BY <1>4 DEF UpdateAircraft, Allowed, Fleet, TypeOK, RegistrationsDiffer
<1>5. ASSUME NEW r \in Request, NEW a \in DOMAIN aircraft, DeleteAircraft(r, a)
      PROVE  RegistrationsDiffer'
  BY <1>5 DEF DeleteAircraft, Restrict, RegistrationsDiffer
<1>6. ASSUME NEW r \in Request, DeleteUser(r) PROVE RegistrationsDiffer'
  BY <1>6 DEF DeleteUser, RestrictValues, Restrict, RegistrationsDiffer
<1>7. ASSUME NEW r \in Request, Seed(r) PROVE RegistrationsDiffer'
  <2>1. ASSUME NEW phase \in Phase,
               ReplacePerformance(request[r].user, request[r].aircraft, phase, "book")
        PROVE  RegistrationsDiffer'
    BY <1>3, <2>1
  <2> QED
    BY <1>1, <1>7, <2>1 DEF Seed, TypeOK
<1>8. ASSUME NEW r \in Request, NEW a \in DOMAIN aircraft, NEW phase \in Phase,
             Replace(r, a, phase)
      PROVE  RegistrationsDiffer'
  BY <1>3, <1>8 DEF Replace
<1>9. ASSUME NEW r \in Request, Manage(r) PROVE RegistrationsDiffer'
  BY <1>1, <1>2, <1>4, <1>5, <1>6, <1>7, <1>8, <1>9 DEF Manage, Authenticate, CountAircraft
<1>10. ASSUME NEW r \in Request, SignIn(r) PROVE RegistrationsDiffer'
  BY <1>1, <1>10 DEF SignIn, Callback, Exchange, UpsertUser, CreateSession
<1> QED
  BY <1>1, <1>9, <1>10 DEF Next, vars, Login, Logout, SweepExpiredSessions, Expire, Fail, Restart

-----------------------------------------------------------------------------
LEMMA Finite ==
    ASSUME TypeOK, NEW u
    PROVE  /\ IsFiniteSet(Fleet(u)) /\ Cardinality(Fleet(u)) \in Nat
           /\ IsFiniteSet(Inserting(u)) /\ Cardinality(Inserting(u)) \in Nat
           /\ Cardinality(Inserting(u)) <= Cardinality(Request)
           /\ Cardinality(Request) \in Nat
<1>1. IsFiniteSet(Fleet(u))
  <2>1. IsFiniteSet(1..seq.aircraft)
    BY Kinds, FS_Interval DEF TypeOK
  <2>2. Fleet(u) \in SUBSET (1..seq.aircraft)
    BY DEF Fleet, TypeOK, Ids
  <2> QED
    BY <2>1, <2>2, FS_Subset
<1>2. /\ IsFiniteSet(Inserting(u))
      /\ Cardinality(Inserting(u)) <= Cardinality(Request)
  <2>1. Inserting(u) \in SUBSET Request
    BY DEF Inserting
  <2> QED
    BY <2>1, RequestAssumption, FS_Subset
<1> QED
  BY <1>1, <1>2, RequestAssumption, FS_CardinalityType

(* The cap is held where neither the fleet of a user nor the requests that *)
(* have still to insert for them gain a member.                            *)
LEMMA NoGain ==
    ASSUME TypeOK, OvershootIsBounded, NEW u \in DOMAIN users,
           Fleet(u)' \subseteq Fleet(u), Inserting(u)' \subseteq Inserting(u)
    PROVE  Cardinality(Fleet(u)') + Cardinality(Inserting(u)')
             < MaxAircraft + Cardinality(Request)
<1>1. /\ Cardinality(Fleet(u)') \in Nat
      /\ Cardinality(Fleet(u)') <= Cardinality(Fleet(u))
  BY Finite, FS_Subset, FS_CardinalityType
<1>2. /\ Cardinality(Inserting(u)') \in Nat
      /\ Cardinality(Inserting(u)') <= Cardinality(Inserting(u))
  BY Finite, FS_Subset, FS_CardinalityType
<1>3. Cardinality(Fleet(u)) + Cardinality(Inserting(u))
        < MaxAircraft + Cardinality(Request)
  BY DEF OvershootIsBounded
<1> QED
  BY <1>1, <1>2, <1>3, Finite, MaxAircraftAssumption

(* A request that still found room makes one more to insert; an insert     *)
(* makes one aircraft more and one request less.                           *)
LEMMA CapStep ==
    TypeOK /\ OvershootIsBounded /\ [Next]_vars => OvershootIsBounded'
<1> SUFFICES ASSUME TypeOK, OvershootIsBounded, [Next]_vars,
                    NEW u \in DOMAIN users'
             PROVE  Cardinality(Fleet(u)') + Cardinality(Inserting(u)')
                      < MaxAircraft + Cardinality(Request)
  BY DEF OvershootIsBounded
<1> DEFINE Held == Cardinality(Fleet(u)') + Cardinality(Inserting(u)')
                     < MaxAircraft + Cardinality(Request)
<1>1. CASE u \notin DOMAIN users
  <2>1. PICK r \in Request : UpsertUser(r) /\ u = seq.user + 1
    BY ZenonT(60), <1>1 DEF Next, SignIn, Manage, vars, Login, Callback, Exchange, UpsertUser,
                NewUser, Insert, CreateSession, Logout, SweepExpiredSessions,
                Expire, Authenticate, CountAircraft, InsertAircraft, Seed, Replace,
                UpdateAircraft, DeleteAircraft, DeleteUser, Restrict, Fail, Restart
  <2>2. Fleet(u)' = {}
    BY <2>1, Kinds DEF UpsertUser, Fleet, TypeOK, Ids
  <2>3. Inserting(u)' = {}
    BY <2>1, Kinds DEF UpsertUser, Inserting, TypeOK
  <2> QED
    BY <2>2, <2>3, FS_EmptySet, Finite, MaxAircraftAssumption
<1>2. CASE u \in DOMAIN users
  <2>1. ASSUME Fleet(u)' \subseteq Fleet(u), Inserting(u)' \subseteq Inserting(u)
        PROVE  Held
    BY <1>2, <2>1, NoGain
  <2>2. ASSUME NEW r \in Request, CountAircraft(r), request[r].user = u,
               request' = [request EXCEPT ![r].pc = "insert"]
        PROVE  Held
    <3>1. Fleet(u)' = Fleet(u) /\ Cardinality(Fleet(u)) < MaxAircraft
      <4>1. Cardinality(Fleet(u)) < MaxAircraft
        BY <2>2, Finite, MaxAircraftAssumption DEF CountAircraft, Respond, Idle, TypeOK
      <4> QED
        BY <2>2, <4>1 DEF CountAircraft, Fleet
    <3>2. Inserting(u)' \in SUBSET Request
      BY DEF Inserting
    <3>3. /\ Cardinality(Inserting(u)') \in Nat
          /\ Cardinality(Inserting(u)') <= Cardinality(Request)
      BY <3>2, RequestAssumption, FS_Subset, FS_CardinalityType
    <3> QED
      BY <3>1, <3>3, Finite, MaxAircraftAssumption
  <2>3. ASSUME NEW r \in Request, NEW reg \in Registration,
               InsertAircraft(r, reg), request[r].user = u,
               Fleet(u)' = Fleet(u) \cup {seq.aircraft + 1}
        PROVE  Held
    <3>1. r \in Inserting(u) /\ Inserting(u)' = Inserting(u) \ {r}
      BY <2>3 DEF InsertAircraft, Inserting, TypeOK, Respond, Idle
    <3>2. Cardinality(Inserting(u)') = Cardinality(Inserting(u)) - 1
      BY <3>1, Finite, FS_RemoveElement
    <3>3. Cardinality(Fleet(u)') = Cardinality(Fleet(u)) + 1
      <4>1. seq.aircraft + 1 \notin Fleet(u)
        BY Kinds DEF TypeOK, Ids, Fleet
      <4> QED
        BY <2>3, <4>1, Finite, FS_AddElement
    <3>4. Cardinality(Fleet(u)) + Cardinality(Inserting(u))
            < MaxAircraft + Cardinality(Request)
      BY <1>2 DEF OvershootIsBounded
    <3> QED
      BY <3>2, <3>3, <3>4, Finite, MaxAircraftAssumption
  <2>4. CASE Login
    <3>1. Fleet(u)' \subseteq Fleet(u)
      BY <2>4 DEF Login, Fleet
    <3>2. Inserting(u)' \subseteq Inserting(u)
      BY <2>4 DEF Login, Inserting, TypeOK, Respond, Goto, Idle
    <3> QED
      BY <2>1, <3>1, <3>2
  <2>5. ASSUME NEW r \in Request, NEW s \in 1..seq.csrf, Callback(r, s)
        PROVE  Held
    <3>1. Fleet(u)' \subseteq Fleet(u)
      BY <2>5 DEF Callback, Fleet
    <3>2. Inserting(u)' \subseteq Inserting(u)
      BY <2>5 DEF Callback, Inserting, TypeOK, Respond, Goto, Idle
    <3> QED
      BY <2>1, <3>1, <3>2
  <2>6. ASSUME NEW r \in Request, NEW p \in Person, Exchange(r, p)
        PROVE  Held
    <3>1. Fleet(u)' \subseteq Fleet(u)
      BY <2>6 DEF Exchange, Fleet
    <3>2. Inserting(u)' \subseteq Inserting(u)
      BY <2>6 DEF Exchange, Inserting, TypeOK, Respond, Goto, Idle
    <3> QED
      BY <2>1, <3>1, <3>2
  <2>7. ASSUME NEW r \in Request, UpsertUser(r)
        PROVE  Held
    <3>1. Fleet(u)' \subseteq Fleet(u)
      BY <2>7 DEF UpsertUser, Fleet
    <3>2. Inserting(u)' \subseteq Inserting(u)
      BY <2>7 DEF UpsertUser, Inserting, TypeOK, Respond, Goto, Idle
    <3> QED
      BY <2>1, <3>1, <3>2
  <2>8. ASSUME NEW r \in Request, CreateSession(r)
        PROVE  Held
    <3>1. Fleet(u)' \subseteq Fleet(u)
      BY <2>8 DEF CreateSession, Fleet
    <3>2. Inserting(u)' \subseteq Inserting(u)
      BY <2>8 DEF CreateSession, Inserting, TypeOK, Respond, Goto, Idle
    <3> QED
      BY <2>1, <3>1, <3>2
  <2>9. ASSUME NEW t \in DOMAIN sessions, Logout(t)
        PROVE  Held
    <3>1. Fleet(u)' \subseteq Fleet(u)
      BY <2>9 DEF Logout, Fleet
    <3>2. Inserting(u)' \subseteq Inserting(u)
      BY <2>9 DEF Logout, Inserting, TypeOK, Respond, Goto, Idle
    <3> QED
      BY <2>1, <3>1, <3>2
  <2>10. CASE SweepExpiredSessions \/ Expire
    <3>1. Fleet(u)' \subseteq Fleet(u)
      BY <2>10 DEF SweepExpiredSessions, Expire, Fleet
    <3>2. Inserting(u)' \subseteq Inserting(u)
      BY <2>10 DEF SweepExpiredSessions, Expire, Inserting, TypeOK, Respond, Goto, Idle
    <3> QED
      BY <2>1, <3>1, <3>2
  <2>11. ASSUME NEW r \in Request, NEW t \in DOMAIN sessions,
               NEW op \in {"count", "replace", "update", "delete", "deleteUser"},
               Authenticate(r, t, op)
        PROVE  Held
    <3>1. Fleet(u)' \subseteq Fleet(u)
      BY <2>11 DEF Authenticate, Fleet
    <3>2. Inserting(u)' \subseteq Inserting(u)
      BY <2>11 DEF Authenticate, Inserting, TypeOK, Respond, Goto, Idle
    <3> QED
      BY <2>1, <3>1, <3>2
  <2>12. ASSUME NEW r \in Request, Seed(r)
        PROVE  Held
    <3>1. Fleet(u)' \subseteq Fleet(u)
      <4>1. ASSUME NEW phase \in Phase,
                   ReplacePerformance(request[r].user, request[r].aircraft, phase,
                                      "book")
            PROVE  Fleet(u)' \subseteq Fleet(u)
        BY <4>1, PerformanceKeepsRows DEF Fleet
      <4>2. CASE UNCHANGED aircraft
        BY <4>2 DEF Fleet
      <4> QED
        BY <2>12, <4>1, <4>2 DEF Seed, TypeOK
    <3>2. Inserting(u)' \subseteq Inserting(u)
      BY <2>12 DEF Seed, Inserting, TypeOK, Respond, Goto, Idle
    <3> QED
      BY <2>1, <3>1, <3>2
  <2>13. ASSUME NEW r \in Request, NEW a \in DOMAIN aircraft, NEW phase \in Phase,
               Replace(r, a, phase)
        PROVE  Held
    <3>1. Fleet(u)' \subseteq Fleet(u)
      BY <2>13, PerformanceKeepsRows DEF Replace, Fleet
    <3>2. Inserting(u)' \subseteq Inserting(u)
      BY <2>13 DEF Replace, Inserting, TypeOK, Respond, Goto, Idle
    <3> QED
      BY <2>1, <3>1, <3>2
  <2>14. ASSUME NEW r \in Request, NEW a \in DOMAIN aircraft,
               NEW reg \in Registration, UpdateAircraft(r, a, reg)
        PROVE  Held
    <3>1. Fleet(u)' \subseteq Fleet(u)
      BY <2>14 DEF UpdateAircraft, Fleet
    <3>2. Inserting(u)' \subseteq Inserting(u)
      BY <2>14 DEF UpdateAircraft, Inserting, TypeOK, Respond, Goto, Idle
    <3> QED
      BY <2>1, <3>1, <3>2
  <2>15. ASSUME NEW r \in Request, NEW a \in DOMAIN aircraft, DeleteAircraft(r, a)
        PROVE  Held
    <3>1. Fleet(u)' \subseteq Fleet(u)
      BY <2>15 DEF DeleteAircraft, Restrict, Fleet
    <3>2. Inserting(u)' \subseteq Inserting(u)
      BY <2>15 DEF DeleteAircraft, Restrict, Inserting, TypeOK, Respond, Goto, Idle
    <3> QED
      BY <2>1, <3>1, <3>2
  <2>16. ASSUME NEW r \in Request, DeleteUser(r)
        PROVE  Held
    <3>1. Fleet(u)' \subseteq Fleet(u)
      BY <2>16 DEF DeleteUser, RestrictValues, Restrict, Fleet
    <3>2. Inserting(u)' \subseteq Inserting(u)
      BY <2>16 DEF DeleteUser, RestrictValues, Restrict, Inserting, TypeOK, Respond, Goto, Idle
    <3> QED
      BY <2>1, <3>1, <3>2
  <2>17. ASSUME NEW r \in Request, Fail(r)
        PROVE  Held
    <3>1. Fleet(u)' \subseteq Fleet(u)
      BY <2>17 DEF Fail, Fleet
    <3>2. Inserting(u)' \subseteq Inserting(u)
      BY <2>17 DEF Fail, Inserting, TypeOK, Respond, Goto, Idle
    <3> QED
      BY <2>1, <3>1, <3>2
  <2>18. CASE Restart
    <3>1. Fleet(u)' \subseteq Fleet(u)
      BY <2>18 DEF Restart, Fleet
    <3>2. Inserting(u)' \subseteq Inserting(u)
      BY <2>18 DEF Restart, Inserting, TypeOK, Respond, Goto, Idle
    <3> QED
      BY <2>1, <3>1, <3>2
  <2>19. CASE UNCHANGED vars
    <3>1. Fleet(u)' \subseteq Fleet(u)
      BY <2>19 DEF vars, Fleet
    <3>2. Inserting(u)' \subseteq Inserting(u)
      BY <2>19 DEF vars, Inserting, TypeOK, Respond, Goto, Idle
    <3> QED
      BY <2>1, <3>1, <3>2
  <2>20. ASSUME NEW r \in Request, CountAircraft(r) PROVE Held
    <3>1. Fleet(u)' = Fleet(u)
      BY <2>20 DEF CountAircraft, Fleet
    <3>2. CASE request' = [request EXCEPT ![r].pc = "insert"] /\ request[r].user = u
      BY <2>2, <2>20, <3>2
    <3>3. CASE request' = [request EXCEPT ![r].pc = "insert"] /\ request[r].user # u
      <4>1. Inserting(u)' \subseteq Inserting(u)
        BY <3>3 DEF Inserting, TypeOK
      <4> QED
        BY <2>1, <3>1, <4>1
    <3>4. CASE request' = [request EXCEPT ![r] = Idle]
      <4>1. Inserting(u)' \subseteq Inserting(u)
        BY <3>4 DEF Inserting, TypeOK, Idle
      <4> QED
        BY <2>1, <3>1, <4>1
    <3> QED
      BY <2>20, <3>2, <3>3, <3>4 DEF CountAircraft, Goto, Respond
  <2>21. ASSUME NEW r \in Request, NEW reg \in Registration, InsertAircraft(r, reg)
        PROVE  Held
    <3>1. Inserting(u)' \subseteq Inserting(u)
      BY <2>21 DEF InsertAircraft, Inserting, TypeOK, Respond, Idle
    <3>2. CASE Fleet(u)' \subseteq Fleet(u)
      BY <2>1, <3>1, <3>2
    <3>3. CASE /\ request[r].user = u
               /\ Fleet(u)' = Fleet(u) \cup {seq.aircraft + 1}
      BY <2>3, <2>21, <3>3
    <3>4. CASE UNCHANGED aircraft
      BY <3>2, <3>4 DEF Fleet
    <3>5. CASE Allowed(request[r].user, reg, DOMAIN aircraft)
      <4>1. seq.aircraft + 1 \notin DOMAIN aircraft
        BY Kinds DEF TypeOK, Ids
      <4>2. /\ DOMAIN aircraft' = DOMAIN aircraft \cup {seq.aircraft + 1}
            /\ aircraft'[seq.aircraft + 1].user = request[r].user
            /\ \A a \in DOMAIN aircraft : aircraft'[a] = aircraft[a]
        BY <2>21, <3>5, <4>1 DEF InsertAircraft, Insert
      <4> QED
        BY <3>2, <3>3, <4>2 DEF Fleet
    <3> QED
      BY <2>21, <3>4, <3>5 DEF InsertAircraft
  <2> QED
    BY <2>4, <2>5, <2>6, <2>7, <2>8, <2>9, <2>10, <2>11, <2>12,
       <2>13, <2>14, <2>15, <2>16, <2>17, <2>18, <2>19, <2>20,
       <2>21
    DEF Next, SignIn, Manage
<1> QED
  BY <1>1, <1>2

-----------------------------------------------------------------------------
LEMMA InductiveInv == Spec => []Inv
<1>1. Inv /\ [Next]_vars => Inv'
  BY TypeStep, OwnerStep, TripStep, RegistrationStep, CapStep DEF Inv
<1> QED
  BY InitInv, <1>1, PTL DEF Spec

(* The tables, the requests and the counters of auth.rs and aircraft.rs    *)
(* hold what they are declared to hold.                                    *)
THEOREM TypeCorrect == Spec => []TypeOK
<1>1. Inv => TypeOK
  BY DEF Inv
<1> QED
  BY InductiveInv, <1>1, PTL

(* A session or an aircraft of a deleted account is nowhere, however       *)
(* deleting it raced the statements of store_session and create.           *)
THEOREM DeletedAccountsLeaveNothing == Spec => []DeletedWithAccount
<1>1. Inv => DeletedWithAccount
  BY DEF Inv, RowsHaveTheirUser, DeletedWithAccount, Range
<1> QED
  BY InductiveInv, <1>1, PTL

(* A session is its person's and an aircraft its pilot's, though the       *)
(* account may have been deleted and made again while a request held on to *)
(* the old id.                                                             *)
THEOREM AccountsAreApart == Spec => []NothingCrossesAccounts
<1>1. Inv => NothingCrossesAccounts
  BY DEF Inv, RowsHaveTheirUser, NothingCrossesAccounts, Range
<1> QED
  BY InductiveInv, <1>1, PTL

(* callback consumes a state before anything can fail, so that a trip to   *)
(* the provider makes one session however often it is replayed.            *)
THEOREM TripsMakeOneSession == Spec => []OneSessionPerTrip
<1>1. Inv => OneSessionPerTrip
  BY DEF Inv
<1> QED
  BY InductiveInv, <1>1, PTL

(* However many requests create and rename at once, the registrations of a *)
(* pilot's aircraft differ.                                                *)
THEOREM RegistrationsAreUnique == Spec => []RegistrationsDiffer
<1>1. Inv => RegistrationsDiffer
  BY DEF Inv
<1> QED
  BY InductiveInv, <1>1, PTL

(* create counts and inserts in two statements: the cap is passed by fewer *)
(* aircraft than there are requests at once, for every cap.                *)
THEOREM CapIsNearlyHeld == Spec => []OvershootIsBounded
<1>1. Inv => OvershootIsBounded
  BY DEF Inv
<1> QED
  BY InductiveInv, <1>1, PTL
=============================================================================
