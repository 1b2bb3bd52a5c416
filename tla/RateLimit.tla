----------------------------- MODULE RateLimit -----------------------------
(***************************************************************************)
(* The limiter in front of ff-api's proxy routes (ratelimit.rs): a token   *)
(* bucket per client address, refilled when it is looked at, and forgotten *)
(* when it has been idle and many are tracked.                             *)
(*                                                                         *)
(* Tokens are counted in units, Cost of them to a request and Rate of them *)
(* to a tick; an instant is kept as its distance from now.                 *)
(***************************************************************************)
EXTENDS Integers, FiniteSets

CONSTANTS Client,      \* addresses
          Worker,      \* the server's threads
          Cost, Rate,
          Second,      \* ticks in a second
          Burst,       \* FF_RATE_LIMIT_BURST, in units
          IdleEviction, \* IDLE_EVICTION
          MaxTracked,  \* MAX_TRACKED_CLIENTS
          MaxLag,      \* the time a thread can take from reading the clock
                       \* to locking the map
          Long,        \* bound: a longer idle time makes no difference
          NoRequest

ASSUME UnitAssumption ==
    /\ {Cost, Rate, Second, Burst, IdleEviction, Long} \subseteq Nat \ {0}
    /\ {MaxTracked, MaxLag} \subseteq Nat
    /\ Cost <= Burst
ASSUME LongAssumption ==
    /\ MaxLag <= Long
    /\ IdleEviction <= Long - MaxLag /\ Burst <= Rate * (Long - MaxLag)

VARIABLES buckets,  \* what is tracked: the tokens of a client, and how long
                    \* ago it was last_seen
          asking,   \* what each thread has in hand: a client, and how long
                    \* ago the clock was read for it
          told,     \* the Retry-After of each client's last answer, in
                    \* seconds; -1 when it was let through
          budget,   \* history: what a client could spend if nothing were
                    \* ever forgotten and threads took no time; not below 0
          late      \* history: has a check ever used an old clock reading?

limiter == <<buckets, asking, told, budget, late>>

Least(a, b) == IF a < b THEN a ELSE b
Most(a, b)  == IF a < b THEN b ELSE a

Tracked == DOMAIN buckets

LimiterInit ==
    /\ buckets = [k \in {} |-> [tokens |-> Burst, idle |-> 0]]
    /\ asking = [w \in Worker |-> NoRequest]
    /\ told = [k \in Client |-> -1]
    /\ budget = [k \in Client |-> Burst] /\ late = FALSE

-----------------------------------------------------------------------------
(* Mutant: as_secs for as_secs_f64. *)
ElapsedSeconds(idle, age) == Second * (Most(idle - age, 0) \div Second)

(* duration_since, which is zero for an instant in the future. *)
Elapsed(idle, age) == Most(idle - age, 0)

(* Mutant: whoever is not asking right now is forgotten. *)
KeptBusy(age) == {j \in Tracked : Elapsed(buckets[j].idle, age) = 0}

(* The clients remembered by a check. *)
Kept(age) ==
    IF Cardinality(Tracked) > MaxTracked
    THEN {j \in Tracked : Elapsed(buckets[j].idle, age) < IdleEviction}
    ELSE Tracked

(* The tokens of a client when it asks: a new one starts with the burst. *)
Refilled(k, age) ==
    IF k \in Kept(age)
    THEN Least(buckets[k].tokens + Rate * Elapsed(buckets[k].idle, age), Burst)
    ELSE Burst

(* Mutant: the wait is rounded down to no time at all. *)
WaitTruncated(tokens) == (Cost - tokens) \div (Rate * Second)

(* The wait, in whole seconds: rounded down, but never zero. *)
RetryAfter(tokens) == Most((Cost - tokens) \div (Rate * Second), 1)

(* enforce: a request comes in and the clock is read ... *)
Arrive(w, k) ==
    /\ asking[w] = NoRequest
    /\ asking' = [asking EXCEPT ![w] = [client |-> k, age |-> 0]]
    /\ UNCHANGED <<buckets, told, budget, late>>

(* ... and check_at, under the lock. *)
CheckAt(w) ==
    /\ asking[w] # NoRequest
    /\ LET k   == asking[w].client
           age == asking[w].age
           tokens == Refilled(k, age)
           paid == IF tokens >= Cost THEN Cost ELSE 0
       IN  /\ buckets' = [j \in Kept(age) \cup {k} |->
                 IF j = k THEN [tokens |-> tokens - paid, idle |-> age]
                 ELSE buckets[j]]
           /\ told' = [told EXCEPT ![k] =
                 IF tokens >= Cost THEN -1 ELSE RetryAfter(tokens)]
           /\ budget' = [budget EXCEPT ![k] = Most(@ - paid, 0)]
    /\ late' = (late \/ asking[w].age > 0)
    /\ asking' = [asking EXCEPT ![w] = NoRequest]

LimiterTick ==
    /\ \A w \in Worker : asking[w] # NoRequest => asking[w].age < MaxLag
    /\ buckets' = [k \in Tracked |->
         [tokens |-> buckets[k].tokens, idle |-> Least(buckets[k].idle + 1, Long)]]
    /\ asking' = [w \in Worker |->
         IF asking[w] = NoRequest THEN NoRequest
         ELSE [client |-> asking[w].client, age |-> asking[w].age + 1]]
    /\ budget' = [k \in Client |-> Least(budget[k] + Rate, Burst)]
    /\ UNCHANGED <<told, late>>

LimiterNext ==
    \/ \E w \in Worker : CheckAt(w) \/ \E k \in Client : Arrive(w, k)
    \/ LimiterTick

LimiterSpec == LimiterInit /\ [][LimiterNext]_limiter

-----------------------------------------------------------------------------
Bucket == [tokens : 0..Burst, idle : 0..Long]

LimiterTypeOK ==
    /\ Tracked \subseteq Client
    /\ \A k \in Tracked : buckets[k] \in Bucket
    /\ asking \in [Worker -> [client : Client, age : 0..MaxLag] \cup {NoRequest}]
    /\ told \in [Client -> {-1} \cup (Nat \ {0})]
    /\ budget \in [Client -> 0..Burst] /\ late \in BOOLEAN

(* What a client that asked now would find.                                *)
Level(k) ==
    IF k \in Tracked
    THEN Least(buckets[k].tokens + Rate * buckets[k].idle, Burst)
    ELSE Burst

(* "A full bucket is indistinguishable from a client that has never been   *)
(* seen": refilling on demand and evicting, a client always finds what a   *)
(* bucket kept for ever would hold ...                                     *)
BudgetIsHonoured == \A k \in Client : Level(k) >= budget[k]

(* ... and no more than that, so its sustained rate is capped, as long as  *)
(* every check is made with the clock as it is.                            *)
RateIsExact == ~late => \A k \in Client : Level(k) = budget[k]

(* A refused client that waits as long as it was told finds a token. *)
WaitSuffices ==
    \A k \in Tracked :
        told[k] >= 0 => Level(k) + Rate * Second * told[k] >= Cost
=============================================================================
