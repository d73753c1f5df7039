---------------------------- MODULE MerchantAccounts ----------------------------
(***************************************************************************)
(* Merchants, their API keys, and the rows a merchant edits in part: its   *)
(* profile, its scenario configuration and a customer of its own.          *)
(* Registration checks the email before it inserts; an edit finds the row, *)
(* applies the fields that were sent and saves; a key authenticates a      *)
(* request before its handler runs.  Each SQL statement is one step, and   *)
(* job[r] is what the goroutine of request r remembers in between.         *)
(* KeyFromCopy, InsertsOver and the like are faulty variants of the        *)
(* definition that follows them.                                           *)
(***************************************************************************)
EXTENDS Integers, FiniteSets

CONSTANTS
    Requests,   \* requests, each served by its own goroutine
    Merchants,  \* bound: primary keys of merchants, drawn in no order
    Emails,     \* in lower case, as registration stores them
    Keys,       \* bound: secret keys, positive, numbered as they are generated
    Fields,     \* the fields of a row that an edit may send or omit
    Values      \* what an edit may set a field to, besides the default

VARIABLES
    email,    \* merchants.email
    key,      \* merchants.secret_key
    stored,   \* the rows there are: <<table, merchant>>
    row,      \* the editable columns of the row of a table and merchant
    issued,   \* every key that was ever stored
    job       \* what each request is doing

vars == <<email, key, stored, row, issued, job>>
--------------------------------------------------------------------------------
Tables   == {"merchants", "scenario_configs", "customers"}
NoEmail  == "none"
NoKey    == 0
Default  == "default"
Row      == [Fields -> Values \cup {Default}]
Sent     == UNION {[S -> Values \cup {Default}] : S \in SUBSET Fields}
Defaults == [f \in Fields |-> Default]

Resting == [pc |-> "resting"]
Free    == {r \in Requests : job[r] = Resting}

Registered == {m \in Merchants : <<"merchants", m>> \in stored}
Fresh(k)   == k \in Keys \ issued /\ \A l \in Keys \ issued : k <= l

\* What a request remembers: the row it found, and the key that came with it.
Insertion == [pc : {"insert"}, email : Emails]
Edit == [pc : {"find", "create", "save"}, op : {"get", "edit"}, table : Tables,
         merchant : Merchants, sent : Sent, copy : Row,
         key : Keys \cup {NoKey}]

\* The database of an earlier run: some merchants, some of them with a customer; no
\* scenario yet.
Init ==
    /\ stored \in SUBSET ({"merchants", "customers"} \X Merchants)
    /\ \A m \in Merchants : <<"customers", m>> \in stored => m \in Registered
    /\ email \in [Merchants -> Emails \cup {NoEmail}]
    /\ key \in [Merchants -> Keys \cup {NoKey}]
    /\ \A m \in Merchants : /\ email[m] \in Emails <=> m \in Registered
                            /\ key[m] \in Keys <=> m \in Registered
    /\ \A m, n \in Registered : m # n => email[m] # email[n] /\ key[m] # key[n]
    /\ row    = [t \in Tables |-> [m \in Merchants |-> Defaults]]
    /\ issued = {key[m] : m \in Registered}
    /\ \A k \in Keys, l \in issued : k <= l => k \in issued
    /\ job    = [r \in Requests |-> Resting]

Begin(r, j)  == job[r] = Resting /\ job' = [job EXCEPT ![r] = j]
Goto(r, j)   == job' = [job EXCEPT ![r] = j]
Return(r)    == job' = [job EXCEPT ![r] = Resting]
Doing(r, pc) == job[r] # Resting /\ job[r].pc = pc
--------------------------------------------------------------------------------
(* Registration and keys. *)

Taken(e) == \E m \in Registered : email[m] = e

\* Register: the email is free.
EmailExists(r, e) ==
    /\ ~ Taken(e)
    /\ Begin(r, [pc |-> "insert", email |-> e])
    /\ UNCHANGED <<email, key, stored, row, issued>>

CreatesTaken(e) == TRUE

\* The unique index on the email.
Creates(e) == ~ Taken(e)

\* Create, with a new key pair, or the error of the index.
Create(r) ==
    /\ Doing(r, "insert")
    /\ Return(r)
    /\ IF Creates(job[r].email)
       THEN \E m \in Merchants \ Registered, k \in Keys :
              /\ Fresh(k)
              /\ email'  = [email EXCEPT ![m] = job[r].email]
              /\ key'    = [key EXCEPT ![m] = k]
              /\ issued' = issued \cup {k}
              /\ stored' = stored \cup {<<"merchants", m>>}
              /\ row'    = [row EXCEPT !["merchants"][m] = Defaults]
       ELSE UNCHANGED <<email, key, stored, row, issued>>

\* RegenerateKeys: one statement, for the merchant of an access token.
RegenerateKeys(r, m) ==
    /\ job[r] = Resting
    /\ m \in Registered
    /\ \E k \in Keys :
         /\ Fresh(k)
         /\ key' = [key EXCEPT ![m] = k]
         /\ issued' = issued \cup {k}
    /\ UNCHANGED <<email, stored, row, job>>
--------------------------------------------------------------------------------
(* Edits. *)

NewEdit(op, t, m, sent) ==
    [pc |-> "find", op |-> op, table |-> t, merchant |-> m, sent |-> sent,
     copy |-> Defaults, key |-> key[m]]

\* RequireSecretKey: whoever presents a key that is stored acts for its merchant,
\* from here on whatever becomes of the key; here to update a customer.
RequireSecretKey(r, k, sent) ==
    /\ \E m \in Registered :
         /\ key[m] = k
         /\ Begin(r, NewEdit("edit", "customers", m, sent))
    /\ UNCHANGED <<email, key, stored, row, issued>>

\* RequireJWT: an access token names the merchant, who is looked up; the profile
\* and the scenario are read or edited.  Reset sends the default of every field.
RequireJWT(r, op, t, m, sent) ==
    /\ t # "customers"
    /\ op = "get" => t = "scenario_configs" /\ sent = << >>
    /\ m \in Registered
    /\ Begin(r, NewEdit(op, t, m, sent))
    /\ UNCHANGED <<email, key, stored, row, issued>>

\* A read ends with the row it found, an edit goes on to save.
GotRow(r, found) ==
    LET j == job[r] IN
    IF j.op = "get" THEN Return(r)
    ELSE Goto(r, [j EXCEPT !.pc = "save", !.copy = found, !.key = key[j.merchant]])

\* FindByID, FindByMerchantID, FindByCode: only a scenario that is not there yet
\* is no error.
FindRow(r) ==
    LET j == job[r]
        there == <<j.table, j.merchant>> \in stored
    IN  /\ Doing(r, "find")
        /\ \/ there /\ GotRow(r, row[j.table][j.merchant])
           \/ /\ ~ there /\ j.table = "scenario_configs"
              /\ Goto(r, [j EXCEPT !.pc = "create"])
           \/ ~ there /\ j.table # "scenario_configs" /\ Return(r)
        /\ UNCHANGED <<email, key, stored, row, issued>>

InsertsOver(t, m) == TRUE

\* The unique index on scenario_configs.merchant_id.
InsertsRow(t, m) == <<t, m>> \notin stored

\* The default scenario is created on the fly; when another request was faster,
\* this one ends with the error of the index.
CreateScenario(r) ==
    LET j == job[r] IN
    /\ Doing(r, "create")
    /\ IF InsertsRow(j.table, j.merchant)
       THEN /\ stored' = stored \cup {<<j.table, j.merchant>>}
            /\ row' = [row EXCEPT ![j.table][j.merchant] = Defaults]
            /\ GotRow(r, Defaults)
       ELSE Return(r) /\ UNCHANGED <<stored, row>>
    /\ UNCHANGED <<email, key, issued>>

\* nil means don't touch.
Merged(j) == [f \in Fields |-> IF f \in DOMAIN j.sent THEN j.sent[f] ELSE j.copy[f]]

KeyFromCopy(j) == IF j.table = "merchants" THEN [key EXCEPT ![j.merchant] = j.key] ELSE key

\* The profile is saved by column, a scenario or a customer as a whole row; none of
\* them writes the key.
KeyAfter(j) == key

SaveRow(r) ==
    LET j == job[r] IN
    /\ Doing(r, "save")
    /\ row' = [row EXCEPT ![j.table][j.merchant] = Merged(j)]
    /\ key' = KeyAfter(j)
    /\ Return(r)
    /\ UNCHANGED <<email, stored, issued>>

\* What was sent turns out to be invalid, after the row was found.
RefuseEdit(r) ==
    /\ Doing(r, "save")
    /\ Return(r)
    /\ UNCHANGED <<email, key, stored, row, issued>>
--------------------------------------------------------------------------------
Serve(r) ==
    \/ \E e \in Emails : EmailExists(r, e)
    \/ \E m \in Merchants : RegenerateKeys(r, m)
    \/ \E k \in issued, sent \in Sent : RequireSecretKey(r, k, sent)
    \/ \E op \in {"get", "edit"}, t \in Tables, m \in Merchants, sent \in Sent :
          RequireJWT(r, op, t, m, sent)

Proceed(r) ==
    \/ Create(r) \/ FindRow(r) \/ CreateScenario(r) \/ SaveRow(r) \/ RefuseEdit(r)

Next == \E r \in Requests : Serve(r) \/ Proceed(r)

Spec == Init /\ [][Next]_vars
--------------------------------------------------------------------------------
(* Properties. *)

TypeOK ==
    /\ email \in [Merchants -> Emails \cup {NoEmail}]
    /\ key \in [Merchants -> Keys \cup {NoKey}]
    /\ \A m \in Registered : email[m] \in Emails /\ key[m] \in issued
    /\ stored \subseteq Tables \X Merchants
    /\ row \in [Tables -> [Merchants -> Row]]
    /\ issued \subseteq Keys
    /\ job \in [Requests -> Insertion \cup Edit \cup {Resting}]

\* However registrations and regenerations overlap, an email has one account, and
\* a key that authenticates belongs to one merchant.
AccountsUnique ==
    \A m, n \in Registered : m # n => email[m] # email[n] /\ key[m] # key[n]

\* A key that was replaced never works again: no save of a row that was read while
\* it was current brings it back.
KeysRetire ==
    [][\A m \in Registered : key'[m] # key[m] => key'[m] \notin issued]_vars

\* Request r saves table t of merchant m in this step.
Saves(r, t, m) ==
    /\ Doing(r, "save") /\ job'[r] = Resting
    /\ job[r].table = t /\ job[r].merchant = m

\* A row changes only by an edit.  Fields that were sent get what was sent; one
\* that was omitted keeps its value, unless another edit has changed it since this
\* one found the row (and is then lost).
FieldsAsSent ==
    [][\A t \in Tables, m \in Merchants :
          <<t, m>> \in stored /\ row'[t][m] # row[t][m] =>
              \E r \in Requests :
                 /\ Saves(r, t, m)
                 /\ \A f \in Fields :
                       IF f \in DOMAIN job[r].sent THEN row'[t][m][f] = job[r].sent[f]
                       ELSE row'[t][m][f] # row[t][m][f] => job[r].copy[f] # row[t][m][f]]_vars
================================================================================
