----------------------------- MODULE GatewayProofs -----------------------------
(***************************************************************************)
(* The gateway implements its two components: seen through the limiter's   *)
(* variables it is a limiter, through the accounts' variables it is the    *)
(* accounts.  What is proved of either holds of every request's way        *)
(* through the router.                                                     *)
(***************************************************************************)
EXTENDS Gateway, LimiterProofs

\* A step of a handler leaves the limiter alone, and a step of the limiter is one of
\* RateLimiter.
LEMMA LimiterStep == [Next]_vars => [LimiterNext]_limiterVars
<1> SUFFICES ASSUME [Next]_vars PROVE [LimiterNext]_limiterVars
  OBVIOUS
<1>1. ASSUME NEW r \in Requests, Enter(r) PROVE UNCHANGED limiterVars
  BY <1>1 DEF Enter
<1>2. ASSUME NEW r \in Requests, Handle(r) PROVE UNCHANGED limiterVars
  BY <1>2 DEF Handle
<1>3. ASSUME NEW r \in Requests, NEW c \in Clients, Arrive(r, c) PROVE LimiterNext
  BY <1>3 DEF Arrive, LimiterNext
<1>4. ASSUME NEW r \in Requests, Limited(r) PROVE LimiterNext
  BY <1>4 DEF Limited, LimiterNext
<1>5. CASE Time
  BY <1>5 DEF Time, LimiterNext
<1>6. CASE UNCHANGED vars
  BY <1>6 DEF vars
<1> QED
  BY <1>1, <1>2, <1>3, <1>4, <1>5, <1>6
  DEF Next, Answer, Register, RegenerateKeys, UpdateCustomer, UpdateProfile, Scenario

\* What the limiter does leaves the accounts alone, and a handler's step is one of
\* MerchantAccounts.
LEMMA AccountsStep == [Next]_vars => [Accounts!Next]_accounts
<1> SUFFICES ASSUME [Next]_vars PROVE [Accounts!Next]_accounts
  OBVIOUS
<1>1. ASSUME NEW r \in Requests, NEW c \in Clients, Arrive(r, c) PROVE UNCHANGED accounts
  BY <1>1 DEF Arrive
<1>2. ASSUME NEW r \in Requests, Limited(r) \/ Answer(r) PROVE UNCHANGED accounts
  BY <1>2 DEF Limited, Answer
<1>3. ASSUME NEW r \in Requests, Register(r) \/ RegenerateKeys(r) PROVE Accounts!Next
  BY <1>3 DEF Register, RegenerateKeys, Accounts!Next, Accounts!Serve
<1>4. ASSUME NEW r \in Requests, UpdateCustomer(r) PROVE Accounts!Next
  BY <1>4 DEF UpdateCustomer, Accounts!Next, Accounts!Serve
<1>5. ASSUME NEW r \in Requests, UpdateProfile(r) PROVE Accounts!Next
  BY <1>5 DEF UpdateProfile, Accounts!Next, Accounts!Serve, Accounts!Tables
<1>6. ASSUME NEW r \in Requests, Scenario(r) PROVE Accounts!Next
  BY <1>6 DEF Scenario, Accounts!Next, Accounts!Serve, Accounts!Tables
<1>7. ASSUME NEW r \in Requests, Handle(r) PROVE Accounts!Next
  BY <1>7 DEF Handle, Accounts!Next
<1>8. CASE Time
  BY <1>8 DEF Time
<1>9. CASE UNCHANGED vars
  BY <1>9 DEF vars
<1> QED
  BY <1>1, <1>2, <1>3, <1>4, <1>5, <1>6, <1>7, <1>8, <1>9 DEF Next

\* The router's limiter behaves as RateLimiter says, whatever the handlers do.
THEOREM ImplementsLimiter == Spec => LimiterSpec
<1>1. Init => LimiterInit
  BY DEF Init
<1> QED
  BY <1>1, LimiterStep, PTL DEF Spec, LimiterSpec

\* The accounts behave as MerchantAccounts says, whatever the limiter admits.
THEOREM ImplementsAccounts == Spec => Accounts!Spec
<1>1. Init => Accounts!Init
  BY DEF Init
<1>2. [Next]_vars => [Accounts!Next]_(Accounts!vars)
  BY AccountsStep DEF accounts, Accounts!vars
<1> QED
  BY <1>1, <1>2, PTL DEF Spec, Accounts!Spec

\* A request that has passed the limiter stays past it.
LEMMA PassedForGood ==
    LimiterTypeOK /\ [LimiterNext]_limiterVars => At("next") \subseteq At("next")'
<1> SUFFICES ASSUME LimiterTypeOK, [LimiterNext]_limiterVars,
                    NEW s \in Requests, visit[s].pc = "next"
             PROVE  visit'[s] = visit[s]
  BY DEF At, Arrived
<1>1. visit[s] # Waiting
  BY DEF Waiting
<1>2. ASSUME NEW r \in Requests, NEW v, Step(r, v), r # s PROVE visit'[s] = visit[s]
  BY <1>2 DEF Step, LimiterTypeOK
<1>3. ASSUME NEW r \in Requests, NEW c \in Clients, LoadOrStore(r, c) PROVE visit'[s] = visit[s]
  BY <1>1, <1>2, <1>3 DEF LoadOrStore
<1>4. ASSUME NEW r \in Requests, Lock(r) PROVE visit'[s] = visit[s]
  BY <1>2, <1>4 DEF Lock
<1>5. ASSUME NEW r \in Requests, Count(r) PROVE visit'[s] = visit[s]
  BY <1>2, <1>5 DEF Count
<1>6. ASSUME NEW r \in Requests, Tally(r) PROVE visit'[s] = visit[s]
  BY <1>2, <1>6 DEF Tally
<1>7. ASSUME NEW r \in Requests, NEW c \in Clients, Judge(r, c) PROVE visit'[s] = visit[s]
  BY <1>2, <1>7 DEF Judge
<1>8. ASSUME NEW r \in Requests, Delete(r) \/ EndSweep(r) PROVE visit'[s] = visit[s]
  BY <1>2, <1>8 DEF Delete, EndSweep
<1>9. CASE Tick \/ UNCHANGED limiterVars
  BY <1>9 DEF Tick, limiterVars
<1> QED
  BY <1>3, <1>4, <1>5, <1>6, <1>7, <1>8, <1>9 DEF LimiterNext, Limit

\* There is a job, or none, for every request.
JobsTotal == DOMAIN job = Requests

\* Request r's job may change, and no other's.
OnlyJobOf(r) ==
    /\ DOMAIN job' = DOMAIN job
    /\ \A s \in Requests : s # r => job'[s] = job[s]

LEMMA JobSet ==
    ASSUME JobsTotal, NEW r, NEW j, job' = [job EXCEPT ![r] = j] PROVE OnlyJobOf(r)
BY DEF JobsTotal, OnlyJobOf

\* A request goes on with its own job, and only if it has one.
LEMMA ProceedFacts ==
    ASSUME JobsTotal, NEW r \in Requests, Accounts!Proceed(r)
    PROVE  job[r] # Accounts!Resting /\ OnlyJobOf(r)
<1>1. CASE Accounts!Create(r)
  BY <1>1, JobSet DEF Accounts!Create, Accounts!Doing, Accounts!Return
<1>2. CASE Accounts!FindRow(r)
  BY <1>2, JobSet DEF Accounts!FindRow, Accounts!GotRow, Accounts!Doing, Accounts!Return,
                      Accounts!Goto
<1>3. CASE Accounts!CreateScenario(r)
  BY <1>3, JobSet DEF Accounts!CreateScenario, Accounts!GotRow, Accounts!Doing,
                      Accounts!Return, Accounts!Goto
<1>4. CASE Accounts!SaveRow(r)
  BY <1>4, JobSet DEF Accounts!SaveRow, Accounts!Doing, Accounts!Return
<1>5. CASE Accounts!RefuseEdit(r)
  BY <1>5, JobSet DEF Accounts!RefuseEdit, Accounts!Doing, Accounts!Return
<1> QED
  BY <1>1, <1>2, <1>3, <1>4, <1>5 DEF Accounts!Proceed

\* A handler that begins gives its own request a job, if any.
LEMMA BeginFacts ==
    ASSUME JobsTotal, NEW r \in Requests,
           Answer(r) \/ Register(r) \/ RegenerateKeys(r) \/ UpdateCustomer(r)
             \/ UpdateProfile(r) \/ Scenario(r)
    PROVE  Enter(r) /\ OnlyJobOf(r)
<1>1. ASSUME UNCHANGED job PROVE OnlyJobOf(r)
  BY <1>1 DEF OnlyJobOf
<1>2. ASSUME NEW j, Accounts!Begin(r, j) PROVE OnlyJobOf(r)
  BY <1>2, JobSet DEF Accounts!Begin
<1>3. CASE Answer(r)
  BY <1>1, <1>3 DEF Answer, accounts
<1>4. CASE Register(r)
  BY <1>2, <1>4 DEF Register, Accounts!EmailExists
<1>5. CASE RegenerateKeys(r)
  BY <1>1, <1>5 DEF RegenerateKeys, Accounts!RegenerateKeys
<1>6. CASE UpdateCustomer(r)
  BY <1>2, <1>6 DEF UpdateCustomer, Accounts!RequireSecretKey
<1>7. CASE UpdateProfile(r)
  BY <1>2, <1>7 DEF UpdateProfile, Accounts!RequireJWT
<1>8. CASE Scenario(r)
  BY <1>2, <1>8 DEF Scenario, Accounts!RequireJWT
<1> QED
  BY <1>3, <1>4, <1>5, <1>6, <1>7, <1>8

\* A request that is not served yet gets no job.
LEMMA ServedInv ==
    LimiterTypeOK /\ JobsTotal /\ OnlyAdmittedServed /\ [Next]_vars
        => JobsTotal' /\ OnlyAdmittedServed'
<1> SUFFICES ASSUME LimiterTypeOK, JobsTotal, OnlyAdmittedServed, [Next]_vars
             PROVE  JobsTotal' /\ OnlyAdmittedServed'
  OBVIOUS
<1>1. At("next") \subseteq At("next")'
  BY LimiterStep, PassedForGood
<1>2. \A s \in Requests \ served : job[s] = Accounts!Resting
  BY DEF OnlyAdmittedServed, Accounts!Free
<1>3. ASSUME NEW r \in Requests, Enter(r), OnlyJobOf(r) PROVE JobsTotal' /\ OnlyAdmittedServed'
  <2>1. r \in At("next") /\ served' = served \cup {r}
    BY <1>3 DEF Enter, Passed
  <2> QED
    BY <1>1, <1>2, <1>3, <2>1 DEF OnlyJobOf, JobsTotal, OnlyAdmittedServed, Accounts!Free
<1>4. ASSUME UNCHANGED <<job, served>> PROVE JobsTotal' /\ OnlyAdmittedServed'
  BY <1>1, <1>4 DEF JobsTotal, OnlyAdmittedServed, Accounts!Free
<1>5. ASSUME NEW r \in Requests, Handle(r) PROVE JobsTotal' /\ OnlyAdmittedServed'
  <2>1. job[r] # Accounts!Resting /\ OnlyJobOf(r) /\ served' = served
    BY <1>5, ProceedFacts DEF Handle
  <2>2. r \in served
    BY <1>2, <2>1
  <2> QED
    BY <1>1, <1>2, <2>1, <2>2 DEF OnlyJobOf, JobsTotal, OnlyAdmittedServed, Accounts!Free
<1>6. ASSUME NEW r \in Requests,
             Answer(r) \/ Register(r) \/ RegenerateKeys(r) \/ UpdateCustomer(r)
               \/ UpdateProfile(r) \/ Scenario(r)
      PROVE  JobsTotal' /\ OnlyAdmittedServed'
  BY <1>3, <1>6, BeginFacts
<1>7. ASSUME NEW r \in Requests, Limited(r) \/ \E c \in Clients : Arrive(r, c)
      PROVE  JobsTotal' /\ OnlyAdmittedServed'
  BY <1>4, <1>7 DEF Arrive, Limited, accounts
<1>8. CASE Time \/ UNCHANGED vars
  BY <1>4, <1>8 DEF Time, vars, accounts
<1> QED
  BY <1>5, <1>6, <1>7, <1>8 DEF Next

\* However a request comes through the router, its handler runs only if the limiter
\* let it pass.
THEOREM OnlyAdmittedAreServed == Spec => []OnlyAdmittedServed
<1>1. Init => JobsTotal /\ OnlyAdmittedServed
  BY DEF Init, JobsTotal, OnlyAdmittedServed, Accounts!Init, Accounts!Free
<1>2. Spec => []LimiterTypeOK
  BY ImplementsLimiter, TypesKept, PTL
<1> QED
  BY <1>1, <1>2, ServedInv, PTL DEF Spec

\* The quota is kept on the way through the whole router.
THEOREM GatewayQuota == Spec => []QuotaExact
BY ImplementsLimiter, QuotaKept, PTL

\* So is the one quota at a time, over sweeps and new buckets.
THEOREM GatewayOneQuota == Spec => []OneQuotaAtATime
BY ImplementsLimiter, OneQuota, PTL
--------------------------------------------------------------------------------
(* What is proved of the accounts alone holds behind the limiter. *)

A == INSTANCE AccountProofs

\* Both instances of MerchantAccounts are the same specification.
LEMMA SameInit == Accounts!Init => A!Init
BY DEF Accounts!Init, A!Init, Accounts!Registered, A!Registered, Accounts!NoEmail, A!NoEmail,
       Accounts!NoKey, A!NoKey, Accounts!Tables, A!Tables, Accounts!Defaults, A!Defaults,
       Accounts!Default, A!Default, Accounts!Resting, A!Resting

LEMMA SameStep == [Accounts!Next]_(Accounts!vars) => [A!Next]_(A!vars)
<1> SUFFICES ASSUME Accounts!Next PROVE A!Next
  BY DEF Accounts!vars, A!vars
<1> USE DEF Accounts!Resting, A!Resting, Accounts!Begin, A!Begin, Accounts!Goto, A!Goto,
            Accounts!Return, A!Return, Accounts!Doing, A!Doing, Accounts!Registered,
            A!Registered, Accounts!Tables, A!Tables
<1>1. Accounts!Sent = A!Sent /\ Accounts!Defaults = A!Defaults
  BY DEF Accounts!Sent, A!Sent, Accounts!Defaults, A!Defaults, Accounts!Default, A!Default
<1>2. \A k : Accounts!Fresh(k) <=> A!Fresh(k)
  BY DEF Accounts!Fresh, A!Fresh
<1>3. \A op, t, m, sent : Accounts!NewEdit(op, t, m, sent) = A!NewEdit(op, t, m, sent)
  BY <1>1 DEF Accounts!NewEdit, A!NewEdit
<1>4. ASSUME NEW r \in Requests, NEW found, Accounts!GotRow(r, found) PROVE A!GotRow(r, found)
  BY <1>4 DEF Accounts!GotRow, A!GotRow
<1>5. ASSUME NEW r \in Requests, NEW e, Accounts!EmailExists(r, e) PROVE A!EmailExists(r, e)
  BY <1>5 DEF Accounts!EmailExists, A!EmailExists, Accounts!Taken, A!Taken
<1>6. ASSUME NEW r \in Requests, NEW m, Accounts!RegenerateKeys(r, m)
      PROVE  A!RegenerateKeys(r, m)
  BY <1>2, <1>6 DEF Accounts!RegenerateKeys, A!RegenerateKeys
<1>7. ASSUME NEW r \in Requests, NEW k, NEW sent, Accounts!RequireSecretKey(r, k, sent)
      PROVE  A!RequireSecretKey(r, k, sent)
  BY <1>3, <1>7 DEF Accounts!RequireSecretKey, A!RequireSecretKey
<1>8. ASSUME NEW r \in Requests, NEW op, NEW t, NEW m, NEW sent,
             Accounts!RequireJWT(r, op, t, m, sent)
      PROVE  A!RequireJWT(r, op, t, m, sent)
  BY <1>3, <1>8 DEF Accounts!RequireJWT, A!RequireJWT
<1>9. ASSUME NEW r \in Requests, Accounts!Create(r) PROVE A!Create(r)
  BY <1>1, <1>2, <1>9 DEF Accounts!Create, A!Create, Accounts!Creates, A!Creates,
     Accounts!Taken, A!Taken
<1>10. ASSUME NEW r \in Requests, Accounts!FindRow(r) PROVE A!FindRow(r)
  BY <1>4, <1>10 DEF Accounts!FindRow, A!FindRow
<1>11. ASSUME NEW r \in Requests, Accounts!CreateScenario(r) PROVE A!CreateScenario(r)
  BY <1>1, <1>4, <1>11 DEF Accounts!CreateScenario, A!CreateScenario, Accounts!InsertsRow,
     A!InsertsRow
<1>12. ASSUME NEW r \in Requests, Accounts!SaveRow(r) PROVE A!SaveRow(r)
  BY <1>12 DEF Accounts!SaveRow, A!SaveRow, Accounts!Merged, A!Merged, Accounts!KeyAfter,
     A!KeyAfter
<1>13. ASSUME NEW r \in Requests, Accounts!RefuseEdit(r) PROVE A!RefuseEdit(r)
  BY <1>13 DEF Accounts!RefuseEdit, A!RefuseEdit
<1>14. PICK r \in Requests : Accounts!Serve(r) \/ Accounts!Proceed(r)
  BY DEF Accounts!Next
<1>15. CASE Accounts!Serve(r)
  BY <1>1, <1>5, <1>6, <1>7, <1>8, <1>15 DEF Accounts!Serve, A!Serve, A!Next
<1>16. CASE Accounts!Proceed(r)
  BY <1>9, <1>10, <1>11, <1>12, <1>13, <1>16 DEF Accounts!Proceed, A!Proceed, A!Next
<1> QED
  BY <1>14, <1>15, <1>16

LEMMA SameSpec == Spec => A!Spec
BY ImplementsAccounts, SameInit, SameStep, PTL DEF Accounts!Spec, A!Spec

\* The variables of limiter and accounts have their types, and no request has a job
\* that the limiter has not admitted.
THEOREM GatewayTypes == Spec => []TypeOK
<1>1. Spec => []LimiterTypeOK
  BY ImplementsLimiter, TypesKept, PTL
<1>2. Spec => []A!TypeOK
  BY SameSpec, A!TypesKept, PTL
<1>3. LimiterTypeOK /\ A!TypeOK /\ OnlyAdmittedServed => TypeOK
  BY DEF TypeOK, Accounts!TypeOK, A!TypeOK, Accounts!NoEmail, A!NoEmail, Accounts!NoKey,
         A!NoKey, Accounts!Registered, A!Registered, Accounts!Tables, A!Tables, Accounts!Row,
         A!Row, Accounts!Default, A!Default, Accounts!Insertion, A!Insertion, Accounts!Edit,
         A!Edit, Accounts!Sent, A!Sent, Accounts!Resting, A!Resting
<1> QED
  BY <1>1, <1>2, <1>3, OnlyAdmittedAreServed, PTL

\* Behind the limiter, too, an email has one account and a key one merchant.
THEOREM GatewayUniqueness == Spec => []AccountsUnique
<1>1. A!AccountsUnique => AccountsUnique
  BY DEF AccountsUnique, Accounts!AccountsUnique, A!AccountsUnique, Accounts!Registered,
         A!Registered
<1> QED
  BY <1>1, SameSpec, A!UniquenessKept, PTL

\* A key that was exchanged authenticates no request again.
THEOREM GatewayKeysRetire == Spec => KeysRetire
<1>1. [\A m \in A!Registered : key'[m] # key[m] => key'[m] \notin issued]_(A!vars)
        => [\A m \in Accounts!Registered : key'[m] # key[m] => key'[m] \notin issued]_(Accounts!vars)
  BY DEF Accounts!Registered, A!Registered, Accounts!vars, A!vars
<1> QED
  BY <1>1, SameSpec, A!KeysStayRetired, PTL DEF KeysRetire, Accounts!KeysRetire, A!KeysRetire

\* Whatever way edits come through the router, a row changes as one of them asked for.
THEOREM GatewayEdits == Spec => FieldsAsSent
<1>1. [\A t \in A!Tables, m \in Merchants :
          <<t, m>> \in stored /\ row'[t][m] # row[t][m] =>
              \E r \in Requests :
                 /\ A!Saves(r, t, m)
                 /\ \A f \in Fields :
                       IF f \in DOMAIN job[r].sent THEN row'[t][m][f] = job[r].sent[f]
                       ELSE row'[t][m][f] # row[t][m][f] => job[r].copy[f] # row[t][m][f]]_(A!vars)
        => [\A t \in Accounts!Tables, m \in Merchants :
          <<t, m>> \in stored /\ row'[t][m] # row[t][m] =>
              \E r \in Requests :
                 /\ Accounts!Saves(r, t, m)
                 /\ \A f \in Fields :
                       IF f \in DOMAIN job[r].sent THEN row'[t][m][f] = job[r].sent[f]
                       ELSE row'[t][m][f] # row[t][m][f] => job[r].copy[f] # row[t][m][f]]_(Accounts!vars)
  <2>1. \A r, t, m : A!Saves(r, t, m) <=> Accounts!Saves(r, t, m)
    BY DEF Accounts!Saves, A!Saves, Accounts!Doing, A!Doing, Accounts!Resting, A!Resting
  <2>2. A!Tables = Accounts!Tables /\ A!vars = Accounts!vars /\ (A!vars)' = (Accounts!vars)'
    BY DEF Accounts!Tables, A!Tables, Accounts!vars, A!vars
  <2> QED
    BY <2>1, <2>2
<1> QED
  BY <1>1, SameSpec, A!EditsAsSent, PTL DEF FieldsAsSent, Accounts!FieldsAsSent, A!FieldsAsSent
================================================================================
