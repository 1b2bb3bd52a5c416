------------------------------ MODULE Accounts ------------------------------
(***************************************************************************)
(* Accounts on ff-api with an account database: signing in through a       *)
(* provider (routes/auth.rs), sessions (ff-accounts), and the aircraft of  *)
(* an account (routes/aircraft.rs).  A handler is a process that talks to  *)
(* the database one statement, or one transaction, at a time; any number   *)
(* of them run at once.                                                    *)
(*                                                                         *)
(* Time is abstracted to the passing of an expiry, which can happen at any *)
(* moment; tables of performance figures to where their rows come from.    *)
(***************************************************************************)
EXTENDS Integers, FiniteSets, FiniteSetsExt, Functions

CONSTANTS Person,        \* a (provider, subject) pair
          Request,       \* bound: requests handled at once
          Registration,
          Phase,         \* the performance tables of an aircraft
          MaxAircraft,   \* MAX_AIRCRAFT_PER_USER
          Limits,        \* bound: how many ids of each kind are handed out
          Nobody

ASSUME LimitsAssumption ==
    Limits \in [{"csrf", "user", "token", "aircraft"} -> Nat]
ASSUME MaxAircraftAssumption == MaxAircraft \in Nat \ {0}
ASSUME NobodyAssumption == Nobody \notin Person
ASSUME RequestAssumption == IsFiniteSet(Request)

VARIABLES pending,   \* the csrf states out at the providers: still valid?
          users,     \* app_user: the person of each id
          sessions,  \* session, by token; history: the trip it is from and
                     \* the person the provider named
          aircraft,  \* aircraft with its aircraft_performance, by id;
                     \* history: the person who was signed in
          request,   \* the handlers under way
          seq        \* the last id handed out of each kind

vars == <<pending, users, sessions, aircraft, request, seq>>

Idle == [pc |-> "idle", csrf |-> 0, person |-> Nobody, user |-> 0, aircraft |-> 0,
         left |-> {}]  \* the tables it has still to seed

Init ==
    /\ pending = [s \in {} |-> TRUE]
    /\ users = [u \in {} |-> Nobody]
    /\ sessions = [t \in {} |-> Idle] /\ aircraft = [a \in {} |-> Idle]
    /\ request = [r \in Request |-> Idle]
    /\ seq = [kind \in DOMAIN Limits |-> 0]

Insert(f, id, row) == [i \in DOMAIN f \cup {id} |-> IF i = id THEN row ELSE f[i]]

Goto(r, pc) == request' = [request EXCEPT ![r].pc = pc]
Respond(r)  == request' = [request EXCEPT ![r] = Idle]

(* Random tokens and serial columns: nothing is handed out twice.          *)
HandOut(kind) == /\ seq[kind] < Limits[kind]
                 /\ seq' = [seq EXCEPT ![kind] = @ + 1]

-----------------------------------------------------------------------------
(* login: every write sweeps the expired states. *)
Swept == {s \in DOMAIN pending : pending[s]}

Login ==
    /\ HandOut("csrf")
    /\ pending' = Insert(Restrict(pending, Swept), seq.csrf + 1, TRUE)
    /\ UNCHANGED <<users, sessions, aircraft, request>>

(* Mutant: the state is looked up and stays. *)
CallbackKeepsState(r, s) ==
    /\ request[r].pc = "idle"
    /\ pending' = Restrict(pending, Swept)
    /\ IF s \in Swept
         THEN request' = [request EXCEPT ![r].pc = "exchange", ![r].csrf = s]
         ELSE Respond(r)
    /\ UNCHANGED <<users, sessions, aircraft, seq>>

(* callback consumes the state first, whatever comes of the request: it    *)
(* may name another provider, carry an error, or no code.                  *)
Callback(r, s) ==
    /\ request[r].pc = "idle"
    /\ pending' = Restrict(pending, Swept \ {s})
    /\ \/ /\ s \in Swept
          /\ request' = [request EXCEPT ![r].pc = "exchange", ![r].csrf = s]
       \/ Respond(r)
    /\ UNCHANGED <<users, sessions, aircraft, seq>>

(* The provider says who it is. *)
Exchange(r, p) ==
    /\ request[r].pc = "exchange"
    /\ request' = [request EXCEPT ![r].pc = "upsert", ![r].person = p]
    /\ UNCHANGED <<pending, users, sessions, aircraft, seq>>

(* Mutant: an id is one more than the greatest in the table.               *)
NewUserReused == 1 + Max(DOMAIN users \cup {0})

NewUser == seq.user + 1

(* store_session records the user in one statement ...                     *)
UpsertUser(r) ==
    LET p == request[r].person IN
    /\ request[r].pc = "upsert"
    /\ \/ \E u \in DOMAIN users :
            /\ users[u] = p
            /\ request' = [request EXCEPT ![r].pc = "session", ![r].user = u]
            /\ UNCHANGED <<users, seq>>
       \/ /\ p \notin Range(users)
          /\ HandOut("user")
          /\ users' = Insert(users, NewUser, p)
          /\ request' = [request EXCEPT ![r].pc = "session", ![r].user = NewUser]
    /\ UNCHANGED <<pending, sessions, aircraft>>

(* Mutant: user_id refers to no table. *)
CreateSessionUnchecked(r) ==
    /\ request[r].pc = "session"
    /\ HandOut("token")
    /\ sessions' = Insert(sessions, seq.token + 1,
         [user |-> request[r].user, valid |-> TRUE,
          csrf |-> request[r].csrf, person |-> request[r].person])
    /\ Respond(r)
    /\ UNCHANGED <<pending, users, aircraft>>

(* ... and the session in another; a user deleted in between is an error   *)
(* of the database.                                                        *)
CreateSession(r) ==
    /\ request[r].pc = "session"
    /\ IF request[r].user \in DOMAIN users
         THEN /\ HandOut("token")
              /\ sessions' = Insert(sessions, seq.token + 1,
                   [user |-> request[r].user, valid |-> TRUE,
                    csrf |-> request[r].csrf, person |-> request[r].person])
         ELSE UNCHANGED <<sessions, seq>>
    /\ Respond(r)
    /\ UNCHANGED <<pending, users, aircraft>>

Logout(t) ==
    /\ sessions' = Restrict(sessions, DOMAIN sessions \ {t})
    /\ UNCHANGED <<pending, users, aircraft, request, seq>>

SweepExpiredSessions ==
    /\ sessions' = RestrictValues(sessions, LAMBDA s : s.valid)
    /\ UNCHANGED <<pending, users, aircraft, request, seq>>

Expire ==
    /\ \/ \E s \in Swept : pending' = [pending EXCEPT ![s] = FALSE]
                           /\ UNCHANGED sessions
       \/ \E t \in DOMAIN sessions :
            /\ sessions[t].valid
            /\ sessions' = [sessions EXCEPT ![t].valid = FALSE]
            /\ UNCHANGED pending
    /\ UNCHANGED <<users, aircraft, request, seq>>

-----------------------------------------------------------------------------
(* require_account_user, and the operation the request then goes on to.    *)
Authenticate(r, t, op) ==
    /\ request[r].pc = "idle"
    /\ sessions[t].valid
    /\ request' = [request EXCEPT ![r].pc = op, ![r].user = sessions[t].user,
                                  ![r].person = users[sessions[t].user]]
    /\ UNCHANGED <<pending, users, sessions, aircraft, seq>>

Fleet(u) == {a \in DOMAIN aircraft : aircraft[a].user = u}

Inserting(u) == {r \in Request : request[r].pc = "insert" /\ request[r].user = u}

(* Mutant: one aircraft more. *)
CountToTheLimit(r) ==
    /\ request[r].pc = "count"
    /\ IF Cardinality(Fleet(request[r].user)) > MaxAircraft
         THEN Respond(r) ELSE Goto(r, "insert")
    /\ UNCHANGED <<pending, users, sessions, aircraft, seq>>

(* create counts the fleet in one statement ...                            *)
CountAircraft(r) ==
    /\ request[r].pc = "count"
    /\ IF Cardinality(Fleet(request[r].user)) >= MaxAircraft
         THEN Respond(r) ELSE Goto(r, "insert")
    /\ UNCHANGED <<pending, users, sessions, aircraft, seq>>

(* The constraints on an aircraft of user u: its user is there, and its    *)
(* registration is unique.                                                 *)
Allowed(u, registration, others) ==
    /\ u \in DOMAIN users
    /\ \A a \in others \cap Fleet(u) : aircraft[a].registration # registration

(* ... inserts in another, and goes on to seed its tables if it was made   *)
(* from a type.                                                            *)
InsertAircraft(r, registration) ==
    LET u == request[r].user IN
    /\ request[r].pc = "insert"
    /\ IF Allowed(u, registration, DOMAIN aircraft)
         THEN /\ HandOut("aircraft")
              /\ aircraft' = Insert(aircraft, seq.aircraft + 1,
                   [user |-> u, registration |-> registration,
                    rows |-> [phase \in Phase |-> "none"],
                    person |-> request[r].person])
              /\ \/ Respond(r)
                 \/ request' = [request EXCEPT ![r].pc = "seed", ![r].left = Phase,
                                               ![r].aircraft = seq.aircraft + 1]
         ELSE Respond(r) /\ UNCHANGED <<aircraft, seq>>
    /\ UNCHANGED <<pending, users, sessions>>

(* The transaction of replace_performance does nothing to an aircraft that *)
(* is not theirs, or no longer there.                                      *)
ReplacePerformance(u, a, phase, rows) ==
    aircraft' = IF a \in Fleet(u)
                  THEN [aircraft EXCEPT ![a].rows[phase] = rows] ELSE aircraft

(* Table after table; one that cannot be written is skipped.               *)
Seed(r) ==
    /\ request[r].pc = "seed"
    /\ IF request[r].left = {}
         THEN Respond(r) /\ UNCHANGED aircraft
         ELSE \E phase \in request[r].left :
                /\ request' = [request EXCEPT ![r].left = @ \ {phase}]
                /\ \/ ReplacePerformance(request[r].user, request[r].aircraft,
                                         phase, "book")
                   \/ UNCHANGED aircraft
    /\ UNCHANGED <<pending, users, sessions, seq>>

Replace(r, a, phase) ==
    /\ request[r].pc = "replace"
    /\ ReplacePerformance(request[r].user, a, phase, "own")
    /\ Respond(r)
    /\ UNCHANGED <<pending, users, sessions, seq>>

UpdateAircraft(r, a, registration) ==
    /\ request[r].pc = "update"
    /\ aircraft' = IF /\ a \in Fleet(request[r].user)
                      /\ Allowed(request[r].user, registration, DOMAIN aircraft \ {a})
                     THEN [aircraft EXCEPT ![a].registration = registration]
                     ELSE aircraft
    /\ Respond(r)
    /\ UNCHANGED <<pending, users, sessions, seq>>

DeleteAircraft(r, a) ==
    /\ request[r].pc = "delete"
    /\ aircraft' = Restrict(aircraft,
                     DOMAIN aircraft \ ({a} \cap Fleet(request[r].user)))
    /\ Respond(r)
    /\ UNCHANGED <<pending, users, sessions, seq>>

(* delete_account: one statement, and the cascades. *)
DeleteUser(r) ==
    LET others(row) == row.user # request[r].user IN
    /\ request[r].pc = "deleteUser"
    /\ users' = Restrict(users, DOMAIN users \ {request[r].user})
    /\ sessions' = RestrictValues(sessions, others)
    /\ aircraft' = RestrictValues(aircraft, others)
    /\ Respond(r)
    /\ UNCHANGED <<pending, seq>>

-----------------------------------------------------------------------------
(* The provider or the database does not answer, or the client hangs up.   *)
Fail(r) ==
    /\ request[r].pc # "idle"
    /\ Respond(r)
    /\ UNCHANGED <<pending, users, sessions, aircraft, seq>>

(* The database survives the server. *)
Restart ==
    /\ pending' = [s \in {} |-> TRUE]
    /\ request' = [r \in Request |-> Idle]
    /\ UNCHANGED <<users, sessions, aircraft, seq>>

SignIn(r) ==
    \/ \E s \in 1..seq.csrf : Callback(r, s)
    \/ \E p \in Person : Exchange(r, p)
    \/ UpsertUser(r) \/ CreateSession(r)

Manage(r) ==
    \/ \E t \in DOMAIN sessions, op \in {"count", "replace", "update", "delete",
                                         "deleteUser"} : Authenticate(r, t, op)
    \/ CountAircraft(r) \/ Seed(r) \/ DeleteUser(r)
    \/ \E reg \in Registration : InsertAircraft(r, reg)
    \/ \E a \in DOMAIN aircraft :
         \/ DeleteAircraft(r, a)
         \/ \E phase \in Phase : Replace(r, a, phase)
         \/ \E reg \in Registration : UpdateAircraft(r, a, reg)

Next ==
    \/ Login
    \/ \E r \in Request : SignIn(r) \/ Manage(r) \/ Fail(r)
    \/ \E t \in DOMAIN sessions : Logout(t)
    \/ SweepExpiredSessions \/ Expire \/ Restart

Spec == Init /\ [][Next]_vars

-----------------------------------------------------------------------------
Ids(kind) == 1..seq[kind]

TypeOK ==
    /\ seq \in [DOMAIN Limits -> Nat]
    /\ \A s \in DOMAIN pending : s \in Ids("csrf") /\ pending[s] \in BOOLEAN
    /\ \A u \in DOMAIN users : u \in Ids("user") /\ users[u] \in Person
    /\ \A t \in DOMAIN sessions : t \in Ids("token") /\
         sessions[t] \in [user : Ids("user"), valid : BOOLEAN,
                          csrf : Ids("csrf"), person : Person]
    /\ \A a \in DOMAIN aircraft : a \in Ids("aircraft") /\
         aircraft[a] \in [user : Ids("user"), registration : Registration,
                          rows : [Phase -> {"none", "book", "own"}],
                          person : Person]
    /\ request \in [Request ->
         [pc : {"idle", "exchange", "upsert", "session", "count", "insert", "seed",
                "replace", "update", "delete", "deleteUser"},
          csrf : 0..seq.csrf, person : Person \cup {Nobody},
          user : 0..seq.user, aircraft : 0..seq.aircraft, left : SUBSET Phase]]

(* Deleting an account deletes everything it owns, also what a request     *)
(* that was under way meanwhile would still have written.                  *)
DeletedWithAccount ==
    \A row \in Range(sessions) \cup Range(aircraft) : row.user \in DOMAIN users

(* A session signs in as the person the provider vouched for, and an       *)
(* aircraft is in the fleet of the person who was signed in, whatever      *)
(* accounts were deleted and made again while they were being written.     *)
NothingCrossesAccounts ==
    \A row \in Range(sessions) \cup Range(aircraft) :
        row.user \in DOMAIN users => users[row.user] = row.person

(* A trip to the provider makes at most one session.                       *)
OneSessionPerTrip ==
    \A t, u \in DOMAIN sessions : sessions[t].csrf = sessions[u].csrf => t = u

(* Counting and inserting are two statements, so requests that count       *)
(* together pass the cap: by no more than there are of them, with those    *)
(* that have still to insert.                                              *)
OvershootIsBounded ==
    \A u \in DOMAIN users :
        Cardinality(Fleet(u)) + Cardinality(Inserting(u))
          < MaxAircraft + Cardinality(Request)

(* "The unique index is what rejects a duplicate": a pilot's aircraft have *)
(* different registrations, whichever requests race.                       *)
RegistrationsDiffer ==
    \A a, b \in DOMAIN aircraft :
        /\ aircraft[a].user = aircraft[b].user
        /\ aircraft[a].registration = aircraft[b].registration
        => a = b
=============================================================================
