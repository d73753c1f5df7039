----------------------------- MODULE AccountProofs -----------------------------
(***************************************************************************)
(* Proofs about MerchantAccounts, for any number of merchants, requests,   *)
(* emails, keys, fields and values.                                        *)
(***************************************************************************)
EXTENDS MerchantAccounts, TLAPS

IndInv == TypeOK /\ AccountsUnique

\* Only a scenario is created on the fly.
Creators == \A r \in Requests : Doing(r, "create") => job[r].table = "scenario_configs"

\* A registration's record is told from an edit's, and both from none, by the step.
LEMMA JobFacts ==
    /\ \A j \in Insertion : j # Resting /\ j.pc = "insert" /\ j.email \in Emails
    /\ \A j \in Edit : j # Resting /\ j.pc # "insert"
    /\ Resting.pc = "resting"
BY DEF Insertion, Edit, Resting

\* What a request that is at a step of an edit remembers.
LEMMA EditFacts ==
    ASSUME TypeOK, NEW r \in Requests, NEW pc \in {"find", "create", "save"}, Doing(r, pc)
    PROVE  /\ job[r] \in Edit
           /\ job[r].table \in Tables /\ job[r].merchant \in Merchants
           /\ job[r].sent \in Sent /\ job[r].copy \in Row
<1>1. job[r] \in Edit
  BY JobFacts DEF TypeOK, Doing
<1> QED
  BY <1>1 DEF Edit

\* The default of every field is a row, and so is a row with some fields replaced.
LEMMA RowFacts ==
    /\ Defaults \in Row
    /\ \A j \in Edit : Merged(j) \in Row
<1>1. Defaults \in Row
  BY DEF Defaults, Row
<1>2. ASSUME NEW j \in Edit PROVE Merged(j) \in Row
  <2>1. j.copy \in Row /\ j.sent \in Sent
    BY DEF Edit
  <2>2. \A f \in DOMAIN j.sent : j.sent[f] \in Values \cup {Default}
    BY <2>1 DEF Sent
  <2> QED
    BY <2>1, <2>2 DEF Merged, Row
<1> QED
  BY <1>1, <1>2

\* The initial database satisfies the invariant.
LEMMA InitInv == Init => IndInv
<1> SUFFICES ASSUME Init PROVE IndInv
  OBVIOUS
<1>1. stored \subseteq Tables \X Merchants
  BY DEF Init, Tables
<1>2. \A m \in Registered : email[m] \in Emails /\ key[m] \in Keys
  BY DEF Init, Registered
<1>3. issued \subseteq Keys /\ \A m \in Registered : key[m] \in issued
  BY <1>2 DEF Init
<1>4. TypeOK
  BY <1>1, <1>2, <1>3, RowFacts DEF Init, TypeOK
<1> QED
  BY <1>4 DEF IndInv, Init, AccountsUnique

\* Steps that leave accounts and keys alone keep the invariant when the types are
\* kept.
LEMMA AccountsKept ==
    ASSUME IndInv, UNCHANGED <<email, key, issued>>, Registered' = Registered,
           stored' \subseteq Tables \X Merchants,
           row' \in [Tables -> [Merchants -> Row]],
           job' \in [Requests -> Insertion \cup Edit \cup {Resting}]
    PROVE  IndInv'
BY DEF IndInv, TypeOK, AccountsUnique

\* A new job record.
LEMMA JobChanged ==
    ASSUME TypeOK, NEW r \in Requests, NEW j \in Insertion \cup Edit \cup {Resting},
           job' = [job EXCEPT ![r] = j]
    PROVE  job' \in [Requests -> Insertion \cup Edit \cup {Resting}]
BY DEF TypeOK

\* Registration looks the email up.
LEMMA EmailExistsInv ==
    ASSUME IndInv, NEW r \in Requests, NEW e \in Emails, EmailExists(r, e) PROVE IndInv'
<1>1. [pc |-> "insert", email |-> e] \in Insertion
  BY DEF Insertion
<1>2. job' \in [Requests -> Insertion \cup Edit \cup {Resting}]
  BY <1>1, JobChanged DEF EmailExists, Begin, IndInv
<1> QED
  BY <1>2, AccountsKept DEF EmailExists, IndInv, TypeOK, Registered

\* Registration inserts: the index keeps the emails apart, and a fresh key differs
\* from every key there is.
LEMMA CreateInv == ASSUME IndInv, NEW r \in Requests, Create(r) PROVE IndInv'
<1>1. job[r] \in Insertion /\ job[r].email \in Emails
  BY JobFacts DEF Create, Doing, IndInv, TypeOK, Edit
<1>2. job' \in [Requests -> Insertion \cup Edit \cup {Resting}]
  BY JobChanged DEF Create, Return, IndInv
<1>3. CASE Creates(job[r].email)
  <2>1. PICK m \in Merchants \ Registered, k \in Keys :
          /\ Fresh(k)
          /\ email'  = [email EXCEPT ![m] = job[r].email]
          /\ key'    = [key EXCEPT ![m] = k]
          /\ issued' = issued \cup {k}
          /\ stored' = stored \cup {<<"merchants", m>>}
          /\ row'    = [row EXCEPT !["merchants"][m] = Defaults]
    BY <1>3 DEF Create
  <2>2. Registered' = Registered \cup {m}
    BY <2>1 DEF Registered
  <2>3. \A n \in Registered : email'[n] = email[n] /\ key'[n] = key[n] /\ n # m
    BY <2>1 DEF IndInv, TypeOK, Registered
  <2>4. email'[m] = job[r].email /\ key'[m] = k
    BY <2>1 DEF IndInv, TypeOK
  <2>5. TypeOK'
    <3>1. /\ email' \in [Merchants -> Emails \cup {NoEmail}]
          /\ key' \in [Merchants -> Keys \cup {NoKey}]
          /\ issued' \subseteq Keys
      BY <1>1, <2>1 DEF IndInv, TypeOK
    <3>2. stored' \subseteq Tables \X Merchants
      BY <2>1 DEF IndInv, TypeOK, Tables
    <3>3. row' \in [Tables -> [Merchants -> Row]]
      BY <2>1, RowFacts DEF IndInv, TypeOK, Tables
    <3>4. \A n \in Registered' : email'[n] \in Emails /\ key'[n] \in issued'
      BY <1>1, <2>1, <2>2, <2>3, <2>4 DEF IndInv, TypeOK
    <3> QED
      BY <1>2, <3>1, <3>2, <3>3, <3>4 DEF TypeOK
  <2>6. \A n \in Registered : email[n] # job[r].email /\ key[n] # k
    BY <1>3, <2>1 DEF Creates, Taken, Fresh, IndInv, TypeOK
  <2>7. AccountsUnique'
    BY <2>2, <2>3, <2>4, <2>6 DEF IndInv, AccountsUnique
  <2> QED
    BY <2>5, <2>7 DEF IndInv
<1>4. CASE ~ Creates(job[r].email)
  BY <1>2, <1>4, AccountsKept DEF Create, IndInv, TypeOK, Registered
<1> QED
  BY <1>3, <1>4

\* A merchant's keys are replaced by fresh ones.
LEMMA RegenerateInv ==
    ASSUME IndInv, NEW r \in Requests, NEW m \in Merchants, RegenerateKeys(r, m) PROVE IndInv'
<1>1. PICK k \in Keys :
        /\ Fresh(k)
        /\ key' = [key EXCEPT ![m] = k]
        /\ issued' = issued \cup {k}
  BY DEF RegenerateKeys
<1>2. m \in Registered /\ UNCHANGED <<email, stored, row, job>>
  BY DEF RegenerateKeys
<1>3. Registered' = Registered
  BY <1>2 DEF Registered
<1>4. \A n \in Registered : key'[n] = IF n = m THEN k ELSE key[n]
  BY <1>1 DEF IndInv, TypeOK, Registered
<1>5. \A n \in Registered : key[n] \in issued /\ key[n] # k
  BY <1>1 DEF Fresh, IndInv, TypeOK
<1>6. TypeOK'
  BY <1>1, <1>2, <1>3, <1>4 DEF IndInv, TypeOK
<1>7. AccountsUnique'
  BY <1>2, <1>3, <1>4, <1>5 DEF IndInv, AccountsUnique
<1> QED
  BY <1>6, <1>7 DEF IndInv

\* An edit's first record.
LEMMA NewEditFacts ==
    ASSUME TypeOK, NEW m \in Registered, NEW op \in {"get", "edit"}, NEW t \in Tables,
           NEW sent \in Sent
    PROVE  NewEdit(op, t, m, sent) \in Edit
<1>1. m \in Merchants /\ key[m] \in Keys
  BY DEF TypeOK, Registered
<1> QED
  BY <1>1, RowFacts DEF NewEdit, Edit

\* Authentication begins an edit and changes nothing else.
LEMMA EditBegins ==
    ASSUME IndInv, NEW r \in Requests, NEW j \in Edit, Begin(r, j),
           UNCHANGED <<email, key, stored, row, issued>>
    PROVE  IndInv'
<1>1. job' \in [Requests -> Insertion \cup Edit \cup {Resting}]
  BY JobChanged DEF Begin, IndInv
<1> QED
  BY <1>1, AccountsKept DEF IndInv, TypeOK, Registered

LEMMA SecretKeyInv ==
    ASSUME IndInv, NEW r \in Requests, NEW k \in issued, NEW sent \in Sent,
           RequireSecretKey(r, k, sent)
    PROVE  IndInv'
BY NewEditFacts, EditBegins DEF RequireSecretKey, IndInv, Tables

LEMMA JWTInv ==
    ASSUME IndInv, NEW r \in Requests, NEW op \in {"get", "edit"}, NEW t \in Tables,
           NEW m \in Merchants, NEW sent \in Sent, RequireJWT(r, op, t, m, sent)
    PROVE  IndInv'
BY NewEditFacts, EditBegins DEF RequireJWT, IndInv

\* What a request does with the row it found.
LEMMA GotRowFacts ==
    ASSUME TypeOK, NEW r \in Requests, job[r] \in Edit, NEW found \in Row, GotRow(r, found)
    PROVE  job' \in [Requests -> Insertion \cup Edit \cup {Resting}]
<1> DEFINE saving == [job[r] EXCEPT !.pc = "save", !.copy = found, !.key = key[job[r].merchant]]
<1>1. key[job[r].merchant] \in Keys \cup {NoKey}
  BY DEF TypeOK, Edit
<1>2. saving \in Edit
  BY <1>1 DEF Edit
<1>3. job' = [job EXCEPT ![r] = Resting] \/ job' = [job EXCEPT ![r] = saving]
  BY DEF GotRow, Return, Goto
<1> HIDE DEF saving
<1> QED
  BY <1>2, <1>3, JobChanged

\* A request finds its row, or goes on to create it, or gives up.
LEMMA FindRowInv == ASSUME IndInv, NEW r \in Requests, FindRow(r) PROVE IndInv'
<1> DEFINE creating == [job[r] EXCEPT !.pc = "create"]
<1>1. /\ job[r] \in Edit /\ job[r].table \in Tables /\ job[r].merchant \in Merchants
      /\ UNCHANGED <<email, key, stored, row, issued>>
  BY EditFacts DEF FindRow, IndInv
<1>2. row[job[r].table][job[r].merchant] \in Row /\ creating \in Edit
  BY <1>1 DEF IndInv, TypeOK, Edit
<1>3. \/ GotRow(r, row[job[r].table][job[r].merchant])
      \/ job' = [job EXCEPT ![r] = creating]
      \/ job' = [job EXCEPT ![r] = Resting]
  BY DEF FindRow, Goto, Return
<1> HIDE DEF creating
<1>4. job' \in [Requests -> Insertion \cup Edit \cup {Resting}]
  BY <1>1, <1>2, <1>3, GotRowFacts, JobChanged DEF IndInv
<1> QED
  BY <1>1, <1>4, AccountsKept DEF IndInv, TypeOK, Registered

\* The default scenario: an insertion into another table than that of the accounts.
LEMMA CreateScenarioInv ==
    ASSUME IndInv, NEW r \in Requests, CreateScenario(r), job[r].table = "scenario_configs"
    PROVE  IndInv'
<1>1. /\ job[r] \in Edit /\ job[r].merchant \in Merchants
      /\ UNCHANGED <<email, key, issued>>
  BY EditFacts DEF CreateScenario, IndInv
<1>2. job' \in [Requests -> Insertion \cup Edit \cup {Resting}]
  BY <1>1, RowFacts, GotRowFacts, JobChanged DEF CreateScenario, Return, IndInv
<1>3. /\ Registered' = Registered /\ stored' \subseteq Tables \X Merchants
      /\ row' \in [Tables -> [Merchants -> Row]]
  <2>1. CASE InsertsRow(job[r].table, job[r].merchant)
    <3>1. /\ stored' = stored \cup {<<"scenario_configs", job[r].merchant>>}
          /\ row' = [row EXCEPT !["scenario_configs"][job[r].merchant] = Defaults]
      BY <2>1 DEF CreateScenario
    <3> QED
      BY <1>1, <3>1, RowFacts DEF IndInv, TypeOK, Tables, Registered
  <2>2. CASE ~ InsertsRow(job[r].table, job[r].merchant)
    BY <2>2 DEF CreateScenario, IndInv, TypeOK, Registered
  <2> QED
    BY <2>1, <2>2
<1> QED
  BY <1>1, <1>2, <1>3, AccountsKept
\* A save replaces a row by a row, and no key.
LEMMA SaveRowInv == ASSUME IndInv, NEW r \in Requests, SaveRow(r) PROVE IndInv'
<1>1. /\ job[r] \in Edit /\ job[r].table \in Tables /\ job[r].merchant \in Merchants
      /\ UNCHANGED <<email, key, stored, issued>>
  BY EditFacts DEF SaveRow, KeyAfter, IndInv
<1>2. Merged(job[r]) \in Row
  BY <1>1, RowFacts
<1>3. row' \in [Tables -> [Merchants -> Row]]
  BY <1>1, <1>2 DEF SaveRow, IndInv, TypeOK
<1>4. job' \in [Requests -> Insertion \cup Edit \cup {Resting}]
  BY JobChanged DEF SaveRow, Return, IndInv
<1> QED
  BY <1>1, <1>3, <1>4, AccountsKept DEF IndInv, TypeOK, Registered

\* An edit is refused.
LEMMA RefuseEditInv == ASSUME IndInv, NEW r \in Requests, RefuseEdit(r) PROVE IndInv'
<1>1. job' \in [Requests -> Insertion \cup Edit \cup {Resting}]
  BY JobChanged DEF RefuseEdit, Return, IndInv
<1> QED
  BY <1>1, AccountsKept DEF RefuseEdit, IndInv, TypeOK, Registered

\* The steps of a request, one by one.
LEMMA NextCases ==
    ASSUME Next,
           NEW P,
           \A r \in Requests, e \in Emails : EmailExists(r, e) => P,
           \A r \in Requests, m \in Merchants : RegenerateKeys(r, m) => P,
           \A r \in Requests, k \in issued, sent \in Sent : RequireSecretKey(r, k, sent) => P,
           \A r \in Requests, op \in {"get", "edit"}, t \in Tables, m \in Merchants,
              sent \in Sent : RequireJWT(r, op, t, m, sent) => P,
           \A r \in Requests : Create(r) => P,
           \A r \in Requests : FindRow(r) => P,
           \A r \in Requests : CreateScenario(r) => P,
           \A r \in Requests : SaveRow(r) => P,
           \A r \in Requests : RefuseEdit(r) => P
    PROVE  P
<1>1. PICK r \in Requests : Serve(r) \/ Proceed(r)
  BY DEF Next
<1>2. CASE Serve(r)
  BY <1>2 DEF Serve
<1>3. CASE Proceed(r)
  BY <1>3 DEF Proceed
<1> QED
  BY <1>1, <1>2, <1>3

\* Whoever is not about to create a row after a step, or was before it, or found that
\* there is no scenario.
LEMMA CreatorsInv == TypeOK /\ Creators /\ Next => Creators'
<1> SUFFICES ASSUME TypeOK, Creators, Next, NEW s \in Requests, Doing(s, "create")'
             PROVE  job'[s].table = "scenario_configs"
  BY DEF Creators
<1>1. job'[s] # Resting /\ job'[s].pc = "create"
  BY DEF Doing
<1>2. job'[s] = job[s] => job'[s].table = "scenario_configs"
  BY <1>1 DEF Creators, Doing
<1>3. ASSUME NEW r \in Requests, NEW j, job' = [job EXCEPT ![r] = j],
             j = Resting \/ j.pc # "create"
      PROVE  job'[s] = job[s]
  BY <1>1, <1>3 DEF TypeOK
<1>4. ASSUME NEW r \in Requests, NEW found, GotRow(r, found), job[r] \in Edit
      PROVE  job'[s] = job[s]
  <2> DEFINE saving == [job[r] EXCEPT !.pc = "save", !.copy = found, !.key = key[job[r].merchant]]
  <2>1. saving.pc = "save"
    BY <1>4 DEF Edit
  <2>2. job' = [job EXCEPT ![r] = Resting] \/ job' = [job EXCEPT ![r] = saving]
    BY <1>4 DEF GotRow, Return, Goto
  <2> HIDE DEF saving
  <2> QED
    BY <1>3, <2>1, <2>2
<1>5. ASSUME NEW r \in Requests, NEW e \in Emails, EmailExists(r, e) PROVE job'[s] = job[s]
  BY <1>3, <1>5 DEF EmailExists, Begin
<1>6. ASSUME NEW r \in Requests, NEW m \in Merchants, RegenerateKeys(r, m) PROVE job'[s] = job[s]
  BY <1>6 DEF RegenerateKeys
<1>7. ASSUME NEW r \in Requests, NEW op, NEW t, NEW m, NEW sent, Begin(r, NewEdit(op, t, m, sent))
      PROVE  job'[s] = job[s]
  BY <1>3, <1>7 DEF Begin, NewEdit
<1>8. ASSUME NEW r \in Requests, NEW k \in issued, NEW sent \in Sent, RequireSecretKey(r, k, sent)
      PROVE  job'[s] = job[s]
  BY <1>7, <1>8 DEF RequireSecretKey
<1>9. ASSUME NEW r \in Requests, NEW op \in {"get", "edit"}, NEW t \in Tables,
             NEW m \in Merchants, NEW sent \in Sent, RequireJWT(r, op, t, m, sent)
      PROVE  job'[s] = job[s]
  BY <1>7, <1>9 DEF RequireJWT
<1>10. ASSUME NEW r \in Requests, Create(r) \/ SaveRow(r) \/ RefuseEdit(r)
       PROVE  job'[s] = job[s]
  BY <1>3, <1>10 DEF Create, SaveRow, RefuseEdit, Return
<1>11. ASSUME NEW r \in Requests, CreateScenario(r) PROVE job'[s] = job[s]
  <2>1. job[r] \in Edit
    BY <1>11, EditFacts DEF CreateScenario
  <2> QED
    BY <1>3, <1>4, <1>11, <2>1 DEF CreateScenario, Return
<1>12. ASSUME NEW r \in Requests, FindRow(r)
       PROVE  job'[s] = job[s] \/ job'[s].table = "scenario_configs"
  <2> DEFINE creating == [job[r] EXCEPT !.pc = "create"]
  <2>1. job[r] \in Edit
    BY <1>12, EditFacts DEF FindRow
  <2>2. \/ GotRow(r, row[job[r].table][job[r].merchant])
        \/ job' = [job EXCEPT ![r] = Resting]
        \/ job[r].table = "scenario_configs" /\ job' = [job EXCEPT ![r] = creating]
    BY <1>12 DEF FindRow, Goto, Return
  <2>3. creating.table = job[r].table
    BY <2>1 DEF Edit
  <2> HIDE DEF creating
  <2>4. CASE job[r].table = "scenario_configs" /\ job' = [job EXCEPT ![r] = creating]
    BY <2>3, <2>4 DEF TypeOK
  <2> QED
    BY <1>3, <1>4, <2>1, <2>2, <2>4
<1>13. job'[s] = job[s] \/ job'[s].table = "scenario_configs"
  BY <1>5, <1>6, <1>8, <1>9, <1>10, <1>11, <1>12, NextCases
<1> QED
  BY <1>2, <1>13

\* Every step keeps the invariant.
LEMMA NextInv == IndInv /\ Creators /\ [Next]_vars => IndInv' /\ Creators'
<1> SUFFICES ASSUME IndInv, Creators, [Next]_vars PROVE IndInv' /\ Creators'
  OBVIOUS
<1>1. CASE Next
  <2>1. ASSUME NEW r \in Requests, CreateScenario(r) PROVE IndInv'
    <3>1. job[r].table = "scenario_configs"
      BY <2>1 DEF CreateScenario, Creators
    <3> QED
      BY <2>1, <3>1, CreateScenarioInv
  <2>2. IndInv'
    BY <1>1, <2>1, NextCases, EmailExistsInv, RegenerateInv, SecretKeyInv, JWTInv, CreateInv,
       FindRowInv, SaveRowInv, RefuseEditInv
  <2> QED
    BY <1>1, <2>2, CreatorsInv DEF IndInv
<1>2. CASE UNCHANGED vars
  BY <1>2 DEF vars, IndInv, Creators, TypeOK, AccountsUnique, Registered, Doing
<1> QED
  BY <1>1, <1>2

\* The invariant holds in every reachable state.
THEOREM Invariance == Spec => [](IndInv /\ Creators)
<1>1. Init => Creators
  BY DEF Init, Creators, Doing
<1> QED
  BY <1>1, InitInv, NextInv, PTL DEF Spec

\* The variables always have their types.
THEOREM TypesKept == Spec => []TypeOK
<1>1. IndInv => TypeOK
  BY DEF IndInv
<1> QED
  BY <1>1, Invariance, PTL

\* However registrations race, an email has one account and a key one merchant.
THEOREM UniquenessKept == Spec => []AccountsUnique
<1>1. IndInv => AccountsUnique
  BY DEF IndInv
<1> QED
  BY <1>1, Invariance, PTL

\* A replaced key never works again.
THEOREM KeysStayRetired == Spec => KeysRetire
<1> DEFINE Retire == \A m \in Registered : key'[m] # key[m] => key'[m] \notin issued
<1>1. IndInv /\ Creators /\ [Next]_vars => [Retire]_vars
  <2> SUFFICES ASSUME IndInv, Next PROVE Retire
    OBVIOUS
  <2>1. ASSUME UNCHANGED key PROVE Retire
    BY <2>1
  <2>2. ASSUME NEW m \in Merchants, NEW k, Fresh(k), key' = [key EXCEPT ![m] = k]
        PROVE  Retire
    BY <2>2 DEF Fresh, IndInv, TypeOK, Registered
  <2>3. ASSUME NEW r \in Requests, Create(r) PROVE Retire
    BY <2>1, <2>2, <2>3 DEF Create
  <2>4. ASSUME NEW r \in Requests, NEW m \in Merchants, RegenerateKeys(r, m) PROVE Retire
    BY <2>2, <2>4 DEF RegenerateKeys
  <2>5. ASSUME NEW r \in Requests, SaveRow(r) PROVE Retire
    BY <2>1, <2>5 DEF SaveRow, KeyAfter
  <2> HIDE DEF Retire
  <2> QED
    BY <2>1, <2>3, <2>4, <2>5, NextCases
    DEF EmailExists, RequireSecretKey, RequireJWT, FindRow, CreateScenario, RefuseEdit
<1> QED
  BY <1>1, Invariance, PTL DEF Spec, KeysRetire
\* A row that is there changes only when an edit of it is saved, and then as the edit
\* asked for: no other merchant's request, no registration and no second creation of
\* a scenario touches it.
THEOREM EditsAsSent == Spec => FieldsAsSent
<1> DEFINE AsSent(t, m) ==
      <<t, m>> \in stored /\ row'[t][m] # row[t][m] =>
          \E r \in Requests :
             /\ Saves(r, t, m)
             /\ \A f \in Fields :
                   IF f \in DOMAIN job[r].sent THEN row'[t][m][f] = job[r].sent[f]
                   ELSE row'[t][m][f] # row[t][m][f] => job[r].copy[f] # row[t][m][f]
<1>1. ASSUME IndInv, Creators, Next, NEW t \in Tables, NEW m \in Merchants PROVE AsSent(t, m)
  <2>1. ASSUME row'[t][m] = row[t][m] PROVE AsSent(t, m)
    BY <2>1
  <2>2. ASSUME NEW u \in Tables, NEW n \in Merchants, <<u, n>> \notin stored,
               row' = [row EXCEPT ![u][n] = Defaults]
        PROVE  AsSent(t, m)
    BY <2>2 DEF IndInv, TypeOK
  <2>3. ASSUME NEW r \in Requests, Create(r) PROVE AsSent(t, m)
    BY <2>1, <2>2, <2>3 DEF Create, Registered, Tables
  <2>4. ASSUME NEW r \in Requests, CreateScenario(r) PROVE AsSent(t, m)
    <3>1. job[r].table \in Tables /\ job[r].merchant \in Merchants
      <4>1. Doing(r, "create")
        BY <2>4 DEF CreateScenario
      <4> QED
        BY <1>1, <4>1, EditFacts DEF IndInv
    <3> QED
      BY <2>1, <2>2, <2>4, <3>1 DEF CreateScenario, InsertsRow
  <2>5. ASSUME NEW r \in Requests, SaveRow(r) PROVE AsSent(t, m)
    <3>1. /\ job[r] \in Edit /\ job[r].table \in Tables /\ job[r].merchant \in Merchants
          /\ job'[r] = Resting /\ Doing(r, "save")
      <4>1. Doing(r, "save") /\ job' = [job EXCEPT ![r] = Resting]
        BY <2>5 DEF SaveRow, Return
      <4> QED
        BY <1>1, <4>1, EditFacts DEF IndInv, TypeOK
    <3>2. CASE t = job[r].table /\ m = job[r].merchant
      <4>1. row'[t][m] = Merged(job[r])
        <5>1. row' = [row EXCEPT ![job[r].table][job[r].merchant] = Merged(job[r])]
          BY <2>5 DEF SaveRow
        <5> QED
          BY <1>1, <3>1, <3>2, <5>1 DEF IndInv, TypeOK
      <4>2. \A f \in Fields : row'[t][m][f] =
               IF f \in DOMAIN job[r].sent THEN job[r].sent[f] ELSE job[r].copy[f]
        BY <4>1 DEF Merged
      <4> QED
        BY <3>1, <3>2, <4>2 DEF Saves
    <3>3. CASE ~ (t = job[r].table /\ m = job[r].merchant)
      BY <1>1, <2>1, <2>5, <3>1, <3>3 DEF SaveRow, IndInv, TypeOK
    <3> QED
      BY <3>2, <3>3
  <2>6. UNCHANGED row => AsSent(t, m)
    BY <2>1
  <2> HIDE DEF AsSent
  <2> QED
    BY <1>1, <2>3, <2>4, <2>5, <2>6, NextCases
    DEF EmailExists, RegenerateKeys, RequireSecretKey, RequireJWT, FindRow, RefuseEdit
<1>2. IndInv /\ Creators /\ [Next]_vars =>
         [\A t \in Tables, m \in Merchants : AsSent(t, m)]_vars
  BY <1>1
<1> QED
  BY <1>2, Invariance, PTL DEF Spec, FieldsAsSent
================================================================================
