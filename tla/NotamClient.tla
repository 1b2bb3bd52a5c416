---------------------------- MODULE NotamClient ----------------------------
(***************************************************************************)
(* The client of the FAA's NOTAM service (ff-notam, client.rs), shared by  *)
(* every request ff-api serves: a pacer that spaces upstream requests, a   *)
(* bearer token fetched once for everybody who finds none, and a bounded   *)
(* number of retries.  A hit of its five-minute cache is answered before   *)
(* any of this and is left out.                                            *)
(*                                                                         *)
(* Time is counted in ticks; every clock reading is kept as its distance   *)
(* from now, so that behaviours need no end.                               *)
(***************************************************************************)
EXTENDS Integers, FiniteSets

CONSTANTS Caller,
          NoCaller,
          Spacing,     \* MIN_REQUEST_SPACING
          MaxWait,     \* MAX_QUEUE_WAIT
          MaxRetries,  \* MAX_RATE_LIMIT_RETRIES
          Life,        \* expires_in of a token
          Margin,      \* the 60 seconds taken off it
          Limit,       \* the spacing NMS enforces
          MaxLate,     \* how late after its slot a request can reach NMS
          MaxTransit   \* how long a token can be on its way from NMS

ASSUME TimeAssumption ==
    /\ {Spacing, MaxWait, MaxRetries, Life, Margin, Limit, MaxLate, MaxTransit}
         \subseteq Nat
    /\ Limit + MaxLate <= Spacing /\ MaxLate < Spacing
    /\ MaxTransit + MaxWait + MaxLate < Margin
    /\ Margin < Life
ASSUME CallerAssumption == NoCaller \notin Caller

VARIABLES pc,         \* where each fetch_notams_raw is
          wake,       \* when the slot it sleeps until comes
          life,       \* how long NMS will accept the token it carries
          retries,    \* its retries so far
          next,       \* Pacer.next_slot, 0 when it is past
          refresher,  \* who holds token_refresh
          usable,     \* how long the cached token will be handed out
          alive,      \* how long NMS will accept it
          since,      \* how long ago the last request reached NMS, at most
                      \* Spacing
          gap         \* since, when that request did

notam == <<pc, wake, life, retries, next, refresher, usable, alive, since, gap>>

pacer == <<next, since, gap>>
token == <<refresher, usable, alive>>

Waiting  == {c \in Caller : pc[c] \in {"postWait", "getWait"}}
Upstream == {c \in Caller : pc[c] \in {"posted", "sent"}}

Less(t) == IF t > 0 THEN t - 1 ELSE 0

NotamInit ==
    /\ pc = [c \in Caller |-> "idle"]
    /\ wake = [c \in Caller |-> 0] /\ life = [c \in Caller |-> 0]
    /\ retries = [c \in Caller |-> 0]
    /\ next = 0 /\ since = Spacing /\ gap = Spacing
    /\ refresher = NoCaller /\ usable = 0 /\ alive = 0

-----------------------------------------------------------------------------
(* The call ends, with an answer or an error. *)
Return(c) ==
    /\ pc' = [pc EXCEPT ![c] = "idle"]
    /\ wake' = [wake EXCEPT ![c] = 0] /\ life' = [life EXCEPT ![c] = 0]
    /\ retries' = [retries EXCEPT ![c] = 0]

(* Mutants: the slot is not taken; the queue has no end. *)
WaitTurnShared(c, state, tokenLife) ==
    \/ /\ next > MaxWait
       /\ Return(c) /\ UNCHANGED next
    \/ /\ next <= MaxWait
       /\ pc' = [pc EXCEPT ![c] = state]
       /\ wake' = [wake EXCEPT ![c] = next]
       /\ life' = [life EXCEPT ![c] = tokenLife]
       /\ UNCHANGED <<retries, next>>

WaitTurnUnbounded(c, state, tokenLife) ==
    /\ pc' = [pc EXCEPT ![c] = state]
    /\ wake' = [wake EXCEPT ![c] = next]
    /\ life' = [life EXCEPT ![c] = tokenLife]
    /\ next' = next + Spacing
    /\ UNCHANGED retries

(* Pacer::wait_turn: reserves the next free slot and sleeps until it, or   *)
(* gives up with Busy, which is not retried.                               *)
WaitTurn(c, state, tokenLife) ==
    \/ /\ next > MaxWait
       /\ Return(c) /\ UNCHANGED next
    \/ /\ next <= MaxWait
       /\ pc' = [pc EXCEPT ![c] = state]
       /\ wake' = [wake EXCEPT ![c] = next]
       /\ life' = [life EXCEPT ![c] = tokenLife]
       /\ next' = next + Spacing
       /\ UNCHANGED retries

Release(c) == refresher' = IF refresher = c THEN NoCaller ELSE refresher

(* Mutant: 429s are retried for as long as they come. *)
RetryForever(c) ==
    /\ pc' = [pc EXCEPT ![c] = "token"]
    /\ wake' = [wake EXCEPT ![c] = 0] /\ life' = [life EXCEPT ![c] = 0]
    /\ UNCHANGED retries

(* A 429 starts the attempt over, a bounded number of times. *)
Retry(c) ==
    \/ /\ retries[c] < MaxRetries
       /\ pc' = [pc EXCEPT ![c] = "token"]
       /\ wake' = [wake EXCEPT ![c] = 0] /\ life' = [life EXCEPT ![c] = 0]
       /\ retries' = [retries EXCEPT ![c] = @ + 1]
    \/ retries[c] = MaxRetries /\ Return(c)

-----------------------------------------------------------------------------
(* A cache miss. *)
Fetch(c) ==
    /\ pc[c] = "idle"
    /\ pc' = [pc EXCEPT ![c] = "token"]
    /\ UNCHANGED <<wake, life, retries, pacer, token>>

(* get_token: the cached one, or get in line to ask for one. *)
GetToken(c) ==
    /\ pc[c] = "token"
    /\ \/ usable > 0 /\ WaitTurn(c, "getWait", alive)
       \/ /\ usable = 0
          /\ pc' = [pc EXCEPT ![c] = "lock"]
          /\ UNCHANGED <<wake, life, retries, next>>
    /\ UNCHANGED <<since, gap, token>>

(* Mutant: whoever gets the lock asks. *)
AcquireAndAsk(c) ==
    /\ pc[c] = "lock" /\ refresher = NoCaller
    /\ WaitTurn(c, "postWait", 0)
    /\ refresher' = IF pc'[c] = "postWait" THEN c ELSE NoCaller
    /\ UNCHANGED <<since, gap, usable, alive>>

(* With token_refresh held, look again, since somebody else may have asked. *)
Acquire(c) ==
    /\ pc[c] = "lock" /\ refresher = NoCaller
    /\ \/ usable > 0 /\ WaitTurn(c, "getWait", alive) /\ UNCHANGED refresher
       \/ /\ usable = 0
          /\ WaitTurn(c, "postWait", 0)
          /\ refresher' = IF pc'[c] = "postWait" THEN c ELSE NoCaller
    /\ UNCHANGED <<since, gap, usable, alive>>

(* A request reaches NMS. *)
Send(c, waiting, sent) ==
    /\ pc[c] = waiting /\ wake[c] <= 0
    /\ pc' = [pc EXCEPT ![c] = sent]
    /\ wake' = [wake EXCEPT ![c] = 0]
    /\ since' = 0 /\ gap' = since
    /\ UNCHANGED <<life, retries, next, token>>

Post(c) == Send(c, "postWait", "posted")
Get(c)  == Send(c, "getWait", "sent")

(* Mutant: the token is kept to the end of its life. *)
TokenGrantedInFull(c) ==
    /\ pc[c] = "posted"
    /\ \E transit \in 0..MaxTransit :
         alive' = Life - transit /\ WaitTurn(c, "getWait", Life - transit)
    /\ usable' = Life
    /\ Release(c)
    /\ UNCHANGED <<since, gap>>

(* A new token, handed out until a margin before its end. *)
TokenGranted(c) ==
    /\ pc[c] = "posted"
    /\ \E transit \in 0..MaxTransit :
         alive' = Life - transit /\ WaitTurn(c, "getWait", Life - transit)
    /\ usable' = Life - Margin
    /\ Release(c)
    /\ UNCHANGED <<since, gap>>

(* NMS answers 200, or with an error other than a 401 and a 429 ... *)
Answer(c) ==
    /\ pc[c] = "sent"
    /\ Return(c)
    /\ UNCHANGED <<pacer, token>>

TokenRefused(c) ==
    /\ pc[c] = "posted"
    /\ Return(c)
    /\ Release(c)
    /\ UNCHANGED <<pacer, usable, alive>>

(* ... or a 401, which drops whatever token is cached by now ...           *)
Unauthorized(c) ==
    /\ pc[c] = "sent"
    /\ Return(c)
    /\ usable' = 0 /\ alive' = 0
    /\ UNCHANGED <<pacer, refresher>>

(* ... or a 429. *)
RateLimited(c) ==
    /\ pc[c] \in {"posted", "sent"}
    /\ Retry(c)
    /\ Release(c)
    /\ UNCHANGED <<pacer, usable, alive>>

(* The client of ff-api hangs up: the future is dropped where it waits.    *)
Dropped(c) ==
    /\ pc[c] \in {"lock", "postWait", "posted", "getWait", "sent"}
    /\ Return(c)
    /\ Release(c)
    /\ UNCHANGED <<pacer, usable, alive>>

Tick ==
    /\ \A c \in Waiting : wake[c] > -MaxLate
    /\ wake' = [c \in Caller |-> IF c \in Waiting THEN wake[c] - 1 ELSE 0]
    /\ life' = [c \in Caller |-> Less(life[c])]
    /\ next' = Less(next)
    /\ usable' = Less(usable) /\ alive' = Less(alive)
    /\ since' = IF since < Spacing THEN since + 1 ELSE Spacing
    /\ UNCHANGED <<pc, retries, refresher, gap>>

-----------------------------------------------------------------------------
Local(c) == GetToken(c) \/ Post(c) \/ Get(c)

Replied(c) == \/ Answer(c) \/ TokenGranted(c) \/ TokenRefused(c)
              \/ Unauthorized(c) \/ RateLimited(c)

NotamNext ==
    \/ \E c \in Caller :
         Fetch(c) \/ Local(c) \/ Acquire(c) \/ Replied(c) \/ Dropped(c)
    \/ Tick

NotamSpec == NotamInit /\ [][NotamNext]_notam

(* The runtime polls every task that is ready, tokio's mutex serves its    *)
(* waiters in order, and time goes by; nothing makes NMS answer ...        *)
FairSpec ==
    /\ NotamSpec
    /\ WF_notam(Tick)
    /\ \A c \in Caller : WF_notam(Local(c)) /\ SF_notam(Acquire(c))

(* ... but NMS itself. *)
FairUpstreamSpec == FairSpec /\ \A c \in Caller : WF_notam(Replied(c))

-----------------------------------------------------------------------------
NotamTypeOK ==
    /\ pc \in [Caller -> {"idle", "token", "lock", "postWait", "posted",
                          "getWait", "sent"}]
    /\ wake \in [Caller -> -MaxLate..MaxWait]
    /\ life \in [Caller -> 0..Life]
    /\ retries \in [Caller -> 0..MaxRetries]
    /\ next \in 0..(MaxWait + Spacing)
    /\ refresher \in Caller \cup {NoCaller}
    /\ usable \in 0..Life /\ alive \in 0..Life
    /\ since \in 0..Spacing /\ gap \in 0..Spacing

(* Requests that reach NMS, token requests included and late ones too, are *)
(* at least the enforced spacing apart.                                    *)
Spaced == gap >= Limit

(* "Concurrent callers that all find the cache empty share one token       *)
(* request": there is never a second one beside it, nor one while a token  *)
(* is there to be used.                                                    *)
TokenShared ==
    \A c \in Caller : pc[c] = "posted" =>
        /\ usable = 0
        /\ \A d \in Caller : pc[d] \in {"postWait", "posted"} => d = c

(* No caller is still in the queue when the token it carries runs out: the *)
(* margin covers the wait.                                                 *)
TokenOutlivesQueue == \A c \in Caller : pc[c] = "getWait" => life[c] > 0

(* Every fetch ends: nobody is left behind the token lock or the queue.    *)
EveryoneAnswered == \A c \in Caller : pc[c] # "idle" ~> pc[c] = "idle"

=============================================================================
