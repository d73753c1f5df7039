--------------------------------- MODULE Gateway ---------------------------------
(***************************************************************************)
(* The way of a request through the router: the rate limiter, the          *)
(* authentication its route demands, and the handler; here of the routes   *)
(* that register merchants, exchange their keys and edit their rows.       *)
(* Requests share the limiter's map and the accounts' tables, and each is  *)
(* served by one goroutine from its arrival to its response.               *)
(***************************************************************************)
EXTENDS RateLimiter

CONSTANTS
    Merchants, Emails, Keys, Fields, Values,   \* of the accounts
    Loads  \* bound: how many requests of which routes in how many ticks to look at,
           \* beginning with how many merchants

VARIABLES
    email, key, stored, row, issued, job,
    served,  \* requests whose handler, or authentication, has begun
    load     \* the load of this behaviour

Accounts == INSTANCE MerchantAccounts

accounts == <<email, key, stored, row, issued, job>>
vars     == <<limiterVars, accounts, served, load>>

Routes == {"open", "register", "keys", "api", "profile", "scenario"}

ASSUME LoadAssumption ==
    Loads \subseteq [routes : SUBSET Routes, requests : Nat, ticks : Nat, merchants : Nat]
--------------------------------------------------------------------------------
Init ==
    /\ LimiterInit /\ Accounts!Init
    /\ served = {}
    /\ load \in Loads
    /\ Cardinality(Accounts!Registered) = load.merchants

Arrive(r, c) ==
    /\ Cardinality(Arrived) < load.requests
    /\ LoadOrStore(r, c)
    /\ UNCHANGED <<accounts, served, load>>

Limited(r) == Limit(r) /\ UNCHANGED <<accounts, served, load>>

\* A faulty variant: a refused request goes on as well.
PassesRefused == (At("next") \cup At("refused")) \ served

\* c.Next(): the middleware and the handler of the route have their turn.
Passed == At("next") \ served

Enter(r) ==
    /\ r \in Passed
    /\ served' = served \cup {r}
    /\ UNCHANGED <<limiterVars, load>>

\* A route without effect here, or a request its authentication or its handler
\* turns away at once.
Answer(r) == Enter(r) /\ UNCHANGED accounts

Register(r) ==
    /\ "register" \in load.routes
    /\ Enter(r) /\ \E e \in Emails : Accounts!EmailExists(r, e)

RegenerateKeys(r) ==
    /\ "keys" \in load.routes
    /\ Enter(r) /\ \E m \in Merchants : Accounts!RegenerateKeys(r, m)

UpdateCustomer(r) ==
    /\ "api" \in load.routes
    /\ Enter(r) /\ \E k \in issued, sent \in Accounts!Sent : Accounts!RequireSecretKey(r, k, sent)

UpdateProfile(r) ==
    /\ "profile" \in load.routes
    /\ Enter(r)
    /\ \E m \in Merchants, sent \in Accounts!Sent :
          Accounts!RequireJWT(r, "edit", "merchants", m, sent)

Scenario(r) ==
    /\ "scenario" \in load.routes
    /\ Enter(r)
    /\ \E op \in {"get", "edit"}, m \in Merchants, sent \in Accounts!Sent :
          Accounts!RequireJWT(r, op, "scenario_configs", m, sent)

Handle(r) == Accounts!Proceed(r) /\ UNCHANGED <<limiterVars, served, load>>

Time ==
    /\ now < load.ticks
    /\ Tick
    /\ UNCHANGED <<accounts, served, load>>

Next ==
    \/ \E r \in Requests :
          \/ \E c \in Clients : Arrive(r, c)
          \/ Limited(r)
          \/ Answer(r) \/ Register(r) \/ RegenerateKeys(r)
          \/ UpdateCustomer(r) \/ UpdateProfile(r) \/ Scenario(r)
          \/ Handle(r)
    \/ Time

Spec == Init /\ [][Next]_vars
--------------------------------------------------------------------------------
(* Properties. *)

\* Only a request that the limiter let pass has its handler run.
OnlyAdmittedServed ==
    /\ served \subseteq At("next")
    /\ Requests \ served \subseteq Accounts!Free

\* The variables of both components have their types, and a request that the limiter
\* refused, or has not judged yet, never has a job.
TypeOK == LimiterTypeOK /\ Accounts!TypeOK /\ OnlyAdmittedServed

AccountsUnique == Accounts!AccountsUnique
KeysRetire     == Accounts!KeysRetire
FieldsAsSent   == Accounts!FieldsAsSent
================================================================================
