--------------------------- MODULE CustomerDirectory ---------------------------
(***************************************************************************)
(* The customers of one merchant and the transactions that point at them:  *)
(* the ways a request finds or creates a customer, transactions created    *)
(* for it, and the migration that merges the duplicates an earlier release *)
(* left behind before it installs the unique index.                        *)
(*                                                                         *)
(* Each statement is a step; a request remembers in work[r] what it read.  *)
(* Emails are normalised by every caller before they get here.             *)
(*                                                                         *)
(* Beside some definitions stands a faulty variant (InsertsBlindly, ...),  *)
(* used by nothing: put in its place it breaks a property below.           *)
(***************************************************************************)
EXTENDS Integers, FiniteSets

CONSTANTS
    Emails,
    Customers,   \* customer rows, numbered in the order of (created_at, id)
    Payments,    \* transaction rows
    Refs,        \* references that callers choose
    Requests,    \* goroutines
    MaxFaults    \* bound: failed statements and crashes

ASSUME CustomerAssumption == Customers \subseteq Nat \ {0}
ASSUME FaultBoundAssumption == MaxFaults \in Nat

VARIABLES
    customers,   \* the customers table
    payments,    \* the transactions table, with the email each was made for
    indexed,     \* idx_customers_merchant_email exists
    serving,     \* the migration is over and requests are served
    work,        \* what each goroutine is doing
    faults

vars == <<customers, payments, indexed, serving, work, faults>>
--------------------------------------------------------------------------------
NoRow    == [email |-> "none"]
Customer == [email : Emails, live : BOOLEAN]

\* ref is "" when the reference was generated: it is like no other.
NoPayment == [ref |-> "none"]
Payment   == [email : Emails, ref : Refs \cup {""}, customer : Customers]

Idle == [pc |-> "idle"]
Ops  == {"initialize", "charge", "create"}
Job  == [pc : {"find", "exists", "insert", "refind", "pay"}, op : Ops,
         email : Emails, ref : Refs \cup {""}, customer : Customers \cup {0}]

NewJob(pc, op, e, ref) ==
    [pc |-> pc, op |-> op, email |-> e, ref |-> ref, customer |-> 0]

\* Queries see the rows that are not soft-deleted.
Live(c)       == customers[c] # NoRow /\ customers[c].live
ByEmail(e)    == {c \in Customers : Live(c) /\ customers[c].email = e}
ReferenceExists(ref) ==
    \E p \in Payments : payments[p] # NoPayment /\ payments[p].ref = ref

Goto(r, job) == work' = [work EXCEPT ![r] = job]
Return(r)    == work' = [work EXCEPT ![r] = Idle]
Begin(r, job) == serving /\ work[r] = Idle /\ Goto(r, job)
--------------------------------------------------------------------------------
\* A database of the earlier release: customers may be duplicated, each
\* transaction has one of them, references are unique.
Init ==
    /\ customers \in [Customers -> {NoRow} \cup [email : Emails, live : {TRUE}]]
    /\ payments \in [Payments -> {NoPayment} \cup Payment]
    /\ \A p \in Payments : payments[p] # NoPayment =>
           /\ customers[payments[p].customer] # NoRow
           /\ payments[p].email = customers[payments[p].customer].email
    /\ \A p, q \in Payments :
           payments[p] # NoPayment /\ payments[q] # NoPayment
           /\ payments[p].ref = payments[q].ref /\ payments[p].ref # "" => p = q
    /\ indexed = FALSE
    /\ serving = FALSE
    /\ work = [r \in Requests |-> Idle]
    /\ faults = 0

(* The start of the process. *)

\* The oldest live row that shares the email of c.
CanonicalNewest(c, d) ==
    /\ d \in ByEmail(customers[c].email)
    /\ \A b \in ByEmail(customers[c].email) : b <= d

CanonicalOfAll(c, d) == Live(d) /\ \A b \in Customers : Live(b) => d <= b
Canonical(c, d) ==
    /\ d \in ByEmail(customers[c].email)
    /\ \A b \in ByEmail(customers[c].email) : d <= b

\* One database transaction points the payments at the canonical rows and soft-
\* deletes the others.
Reconcile ==
    /\ ~ serving
    /\ payments' = [p \in Payments |->
           IF payments[p] # NoPayment /\ Live(payments[p].customer)
           THEN [payments[p] EXCEPT !.customer =
                     CHOOSE d \in Customers : Canonical(payments[p].customer, d)]
           ELSE payments[p]]
    /\ customers' = [c \in Customers |->
           IF Live(c) THEN [customers[c] EXCEPT !.live = Canonical(c, c)]
           ELSE customers[c]]
    /\ UNCHANGED <<indexed, serving, work, faults>>

\* CREATE UNIQUE INDEX IF NOT EXISTS fails on duplicates, and the start with it.
\* Where there are none Reconcile changes nothing, and need not be seen before.
CreateIndex ==
    /\ ~ serving
    /\ \A e \in Emails : \A c, d \in ByEmail(e) : c = d
    /\ indexed' = TRUE
    /\ serving' = TRUE
    /\ UNCHANGED <<customers, payments, work, faults>>
--------------------------------------------------------------------------------
(* Requests. *)

\* POST /transaction/initialize; a reference of the caller must be new.
Initialize(r, e, ref) ==
    /\ ref # "" => ~ ReferenceExists(ref)
    /\ Begin(r, NewJob("find", "initialize", e, ref))
    /\ UNCHANGED <<customers, payments, indexed, serving, faults>>

\* POST /charge with an email and an amount only.
InlineCharge(r, e) ==
    /\ Begin(r, NewJob("find", "charge", e, ""))
    /\ UNCHANGED <<customers, payments, indexed, serving, faults>>

\* POST /customer.
CreateCustomer(r, e) ==
    /\ Begin(r, NewJob("exists", "create", e, ""))
    /\ UNCHANGED <<customers, payments, indexed, serving, faults>>

\* The lookup of both FindOrCreate.  When it finds nothing the service goes on
\* to Create, which asks again, the repository to the insert.
FindByEmail(r) ==
    LET w == work[r] IN
    /\ w.pc = "find"
    /\ \/ \E c \in ByEmail(w.email) : Goto(r, [w EXCEPT !.pc = "pay", !.customer = c])
       \/ /\ ByEmail(w.email) = {}
          /\ Goto(r, [w EXCEPT !.pc = IF w.op = "charge" THEN "insert" ELSE "exists"])
    /\ UNCHANGED <<customers, payments, indexed, serving, faults>>

\* Create refuses an email that is taken.
EmailExists(r) ==
    LET w == work[r] IN
    /\ w.pc = "exists"
    /\ IF ByEmail(w.email) = {} THEN Goto(r, [w EXCEPT !.pc = "insert"]) ELSE Return(r)
    /\ UNCHANGED <<customers, payments, indexed, serving, faults>>

\* ON CONFLICT DO NOTHING on the unique index.
InsertsBlindly(w) == TRUE
Inserts(w) == indexed => ByEmail(w.email) = {}

RefusedAsTaken(w) == Idle
\* A refused insert: the repository's FindOrCreate reads the row that won, the
\* service's Create answers that the email is taken.
Refused(w) == IF w.op = "charge" THEN [w EXCEPT !.pc = "refind"] ELSE Idle

CreatedUnkeyed(w, c) == [w EXCEPT !.pc = "pay"]
\* After the insert of row c: a payment follows unless only the customer was wanted.
Created(w, c) ==
    IF w.op = "create" THEN Idle ELSE [w EXCEPT !.pc = "pay", !.customer = c]

CreateOnce(r) ==
    LET w == work[r] IN
    /\ w.pc = "insert"
    /\ IF Inserts(w)
       THEN \E c \in Customers :
              /\ customers[c] = NoRow
              /\ customers' = [customers EXCEPT ![c] = [email |-> w.email, live |-> TRUE]]
              /\ Goto(r, Created(w, c))
       ELSE Goto(r, Refused(w)) /\ UNCHANGED customers
    /\ UNCHANGED <<payments, indexed, serving, faults>>

\* The repository's second lookup.
FindWinner(r) ==
    LET w == work[r] IN
    /\ w.pc = "refind"
    /\ \/ \E c \in ByEmail(w.email) : Goto(r, [w EXCEPT !.pc = "pay", !.customer = c])
       \/ ByEmail(w.email) = {} /\ Return(r)
    /\ UNCHANGED <<customers, payments, indexed, serving, faults>>

\* The unique index on merchant and reference.
NewReferenceUnchecked(w) == TRUE
NewReference(w) == w.ref = "" \/ ~ ReferenceExists(w.ref)

CreateTransaction(r) ==
    LET w == work[r] IN
    /\ w.pc = "pay"
    /\ IF NewReference(w)
       THEN \E p \in Payments :
              /\ payments[p] = NoPayment
              /\ payments' = [payments EXCEPT ![p] =
                     [email |-> w.email, ref |-> w.ref, customer |-> w.customer]]
       ELSE UNCHANGED payments
    /\ Return(r)
    /\ UNCHANGED <<customers, indexed, serving, faults>>

\* A statement fails and the request returns the error.
RequestError(r) ==
    /\ faults < MaxFaults
    /\ work[r] # Idle
    /\ Return(r)
    /\ faults' = faults + 1
    /\ UNCHANGED <<customers, payments, indexed, serving>>

\* The process ends, in the middle of the migration or of requests, and starts.
Crash ==
    /\ faults < MaxFaults
    /\ serving' = FALSE
    /\ work' = [r \in Requests |-> Idle]
    /\ faults' = faults + 1
    /\ UNCHANGED <<customers, payments, indexed>>

Continue(r) ==
    \/ FindByEmail(r) \/ EmailExists(r) \/ CreateOnce(r)
    \/ FindWinner(r) \/ CreateTransaction(r)

Arrive(r, e) ==
    \/ \E ref \in Refs \cup {""} : Initialize(r, e, ref)
    \/ InlineCharge(r, e)
    \/ CreateCustomer(r, e)

Next ==
    \/ Reconcile \/ CreateIndex
    \/ \E r \in Requests : Continue(r) \/ RequestError(r) \/ \E e \in Emails : Arrive(r, e)
    \/ Crash

Spec == Init /\ [][Next]_vars
--------------------------------------------------------------------------------
(* Properties. *)

\* Every variable has its type; rows and jobs have the right shape.
TypeOK ==
    /\ customers \in [Customers -> Customer \cup {NoRow}]
    /\ payments \in [Payments -> Payment \cup {NoPayment}]
    /\ indexed \in BOOLEAN /\ serving \in BOOLEAN
    /\ work \in [Requests -> Job \cup {Idle}]
    /\ faults \in Nat

\* The migration's promise: once the unique index is there, whatever the earlier
\* release left, concurrent first payments of one email make one customer.
OneCustomerPerEmail ==
    indexed => \A e \in Emails : \A c, d \in ByEmail(e) : c = d

\* "This preserves history": a payment always belongs to a live customer with the
\* email it was made for, whether its row was merged into another by the migration,
\* or its request lost the race for the insert and found the winner's row.
PaymentsKeepCustomer ==
    \A p \in Payments : payments[p] # NoPayment =>
        payments[p].customer \in ByEmail(payments[p].email)

\* Two requests that both found a reference free do not both get a transaction.
ReferenceOnce ==
    \A p, q \in Payments :
        payments[p] # NoPayment /\ payments[q] # NoPayment
        /\ payments[p].ref = payments[q].ref /\ payments[p].ref # "" => p = q

PaysFor(w) ==
    \E p \in Payments :
        /\ payments[p] = NoPayment
        /\ payments'[p] # NoPayment /\ payments'[p].email = w.email

\* An inline charge whose customer is created by another request at the same time
\* is not refused: unless a statement fails it ends with its transaction.
InlineChargePays ==
    [][\A r \in Requests :
          work[r] # Idle /\ work[r].op = "charge" /\ work'[r] = Idle
          /\ faults' = faults => PaysFor(work[r])]_vars

\* The directory in the promise's terms: live rows, and the payments made.
Known   == [e \in Emails |-> ByEmail(e)]
MadeFor == [p \in Payments |-> IF payments[p] = NoPayment THEN "" ELSE payments[p].email]
Buyer   == [p \in Payments |-> IF payments[p] = NoPayment THEN 0 ELSE payments[p].customer]

\* The whole directory keeps one promise: duplicates are merged into the oldest row of
\* their email and nothing else moves; once the index is built an email never changes
\* its customer nor a payment its own, though every restart runs the migration again
\* over the rows that requests have made meanwhile.
Promise == INSTANCE DirectoryPromise
    WITH known <- Known, madeFor <- MadeFor, buyer <- Buyer, settled <- indexed
KeepsPromise == Promise!Spec
================================================================================
