----------------------------- MODULE CustomerProofs -----------------------------
(***************************************************************************)
(* The customer directory keeps its promises for every set of requests,    *)
(* rows, payments and faults, and for every database the earlier release   *)
(* may have left.                                                          *)
(***************************************************************************)
EXTENDS CustomerDirectory, WellFoundedInduction, TLAPS

\* What a goroutine may rely on of what it has read: rows do not go away while
\* requests are served, so a customer found or created is still there when the
\* payment is made, and a refused insert has a winner.
JobOK(w) ==
    /\ serving
    /\ w.op = "charge" => w.pc # "exists" /\ w.ref = ""
    /\ w.pc = "refind" => ByEmail(w.email) # {}
    /\ w.pc = "pay" => w.customer \in ByEmail(w.email)

JobsOK == \A r \in Requests : work[r] # Idle => JobOK(work[r])

\* Inductive: requests are served with the index in place only.
IndInv ==
    /\ TypeOK
    /\ serving => indexed
    /\ OneCustomerPerEmail
    /\ PaymentsKeepCustomer
    /\ ReferenceOnce
    /\ JobsOK
--------------------------------------------------------------------------------
\* Some row of a non-empty set of customers is the oldest.
LEMMA Oldest ==
    ASSUME NEW S \in SUBSET Customers, S # {}
    PROVE  \E c \in S : \A d \in S : c <= d
<1>1. S \subseteq Nat
  BY CustomerAssumption
<1>2. PICK c \in S : \A d \in S : ~ (<<d, c>> \in OpToRel(<, Nat))
  BY <1>1, NatLessThanWellFounded, WFMin
<1>3. \A d \in S : ~ (d < c)
  BY <1>1, <1>2 DEF OpToRel
<1> QED
  BY <1>1, <1>3

\* Every live customer has one canonical row, of the same email.
LEMMA CanonicalExists ==
    ASSUME NEW c \in Customers, Live(c)
    PROVE  LET d == CHOOSE d \in Customers : Canonical(c, d)
           IN  d \in Customers /\ Canonical(c, d)
<1>1. ByEmail(customers[c].email) \in SUBSET Customers /\ c \in ByEmail(customers[c].email)
  BY DEF ByEmail
<1>2. \E d \in Customers : Canonical(c, d)
  BY <1>1, Oldest DEF Canonical
<1> QED
  BY <1>2

LEMMA CanonicalUnique ==
    ASSUME NEW c \in Customers, NEW d \in Customers, NEW e \in Customers,
           customers[c].email = customers[d].email,
           Canonical(c, e), Canonical(d, d)
    PROVE  d = e
BY CustomerAssumption DEF Canonical, ByEmail

\* A canonical row is canonical for itself.
LEMMA CanonicalOfItself ==
    ASSUME NEW c \in Customers, NEW d \in Customers, Canonical(c, d)
    PROVE  Live(d) /\ customers[d].email = customers[c].email /\ Canonical(d, d)
BY DEF Canonical, ByEmail

\* The earlier release's database satisfies what is asked of it.
LEMMA InitIndInv == Init => IndInv
<1> SUFFICES ASSUME Init PROVE IndInv
  OBVIOUS
<1>1. TypeOK
  BY DEF Init, TypeOK, Customer, Idle
<1>2. PaymentsKeepCustomer
  BY DEF Init, PaymentsKeepCustomer, ByEmail, Live, Payment, NoPayment
<1>3. ReferenceOnce /\ JobsOK /\ OneCustomerPerEmail /\ (serving => indexed)
  BY DEF Init, ReferenceOnce, JobsOK, OneCustomerPerEmail
<1> QED
  BY <1>1, <1>2, <1>3 DEF IndInv

\* What the migration does to a customer: of the live rows of an email the canonical
\* one stays live.
LEMMA ReconciledRow ==
    ASSUME IndInv, Reconcile, NEW c \in Customers
    PROVE  /\ Live(c)' <=> Live(c) /\ Canonical(c, c)
           /\ Live(c) => customers'[c].email = customers[c].email
           /\ customers'[c] \in Customer \cup {NoRow}
<1>1. customers \in [Customers -> Customer \cup {NoRow}]
  BY DEF IndInv, TypeOK
<1> QED
  BY <1>1 DEF Reconcile, Live, Customer, NoRow, Canonical, ByEmail

\* What it does to a payment: it goes to the canonical row of its customer.
LEMMA ReconciledPayment ==
    ASSUME IndInv, Reconcile, NEW p \in Payments, payments[p] # NoPayment
    PROVE  \E c, d \in Customers :
             /\ payments[p] \in Payment /\ payments[p].customer = c
             /\ Live(c) /\ customers[c].email = payments[p].email
             /\ payments'[p] = [payments[p] EXCEPT !.customer = d]
             /\ Canonical(c, d)
<1> DEFINE c == payments[p].customer
           d == CHOOSE d \in Customers : Canonical(c, d)
<1>1. payments[p] \in Payment
  BY DEF IndInv, TypeOK
<1>2. c \in Customers /\ Live(c) /\ customers[c].email = payments[p].email
  BY <1>1 DEF IndInv, PaymentsKeepCustomer, ByEmail, Payment
<1>3. payments'[p] = [payments[p] EXCEPT !.customer = d]
  BY <1>2 DEF Reconcile
<1>4. d \in Customers /\ Canonical(c, d)
  BY <1>2, CanonicalExists
<1> HIDE DEF d
<1> QED
  BY <1>1, <1>2, <1>3, <1>4

\* The migration keeps every payment with its email on a live row.
LEMMA ReconcileStep ==
    ASSUME IndInv, Reconcile
    PROVE  IndInv'
<1> USE DEF IndInv
<1>0. customers \in [Customers -> Customer \cup {NoRow}]
      /\ payments \in [Payments -> Payment \cup {NoPayment}]
  BY DEF TypeOK
<1>1. ASSUME NEW c \in Customers
      PROVE  /\ Live(c)' <=> Live(c) /\ Canonical(c, c)
             /\ Live(c) => customers'[c].email = customers[c].email
             /\ customers'[c] \in Customer \cup {NoRow}
  BY ReconciledRow
<1>2. ASSUME NEW p \in Payments, payments[p] # NoPayment
      PROVE  /\ payments'[p] \in Payment
             /\ payments'[p].email = payments[p].email
             /\ payments'[p].ref = payments[p].ref
             /\ \E e : e = payments[p].email /\ payments'[p].customer \in ByEmail(e)'
  <2>1. PICK c \in Customers, d \in Customers :
           /\ payments[p] \in Payment /\ payments[p].customer = c
           /\ Live(c) /\ customers[c].email = payments[p].email
           /\ payments'[p] = [payments[p] EXCEPT !.customer = d]
           /\ Canonical(c, d)
    BY <1>2, ReconciledPayment
  <2>2. Live(d) /\ customers[d].email = customers[c].email /\ Canonical(d, d)
    BY <2>1, CanonicalOfItself
  <2>3. PICK e : e = payments[p].email
    OBVIOUS
  <2>4. d \in ByEmail(e)'
    BY <1>1, <2>1, <2>2, <2>3 DEF ByEmail
  <2> QED
    BY <2>1, <2>3, <2>4 DEF Payment
<1>3. ASSUME NEW p \in Payments, payments[p] = NoPayment
      PROVE  payments'[p] = NoPayment
  BY <1>3 DEF Reconcile
<1>4. TypeOK'
  <2>1. customers' \in [Customers -> Customer \cup {NoRow}]
    BY <1>1 DEF Reconcile
  <2>2. payments' \in [Payments -> Payment \cup {NoPayment}]
    BY <1>2, <1>3 DEF Reconcile
  <2> QED
    BY <2>1, <2>2 DEF Reconcile, TypeOK
<1>5. OneCustomerPerEmail'
  <2> SUFFICES ASSUME NEW e \in Emails, NEW c \in ByEmail(e)', NEW d \in ByEmail(e)'
               PROVE  c = d
    BY DEF OneCustomerPerEmail
  <2>1. c \in Customers /\ d \in Customers /\ Live(c)' /\ Live(d)'
        /\ customers'[c].email = e /\ customers'[d].email = e
    BY DEF ByEmail
  <2>2. Canonical(c, c) /\ Canonical(d, d) /\ customers[c].email = customers[d].email
    BY <1>1, <2>1
  <2> QED
    BY <2>1, <2>2, CanonicalUnique
<1>6. PaymentsKeepCustomer'
  BY <1>2, <1>3 DEF PaymentsKeepCustomer
<1>7. ReferenceOnce'
  BY <1>2, <1>3 DEF ReferenceOnce
<1>8. JobsOK'
  <2>1. work' = work /\ ~ serving
    BY DEF Reconcile
  <2> QED
    BY <2>1 DEF JobsOK, JobOK
<1> QED
  BY <1>4, <1>5, <1>6, <1>7, <1>8 DEF Reconcile
--------------------------------------------------------------------------------
\* A step of goroutine r keeps every job in order if customers stay and its own
\* next job is in order.
LEMMA JobsKept ==
    ASSUME IndInv, serving' = serving, \A e : ByEmail(e) \subseteq ByEmail(e)',
           NEW r \in Requests, NEW job, work' = [work EXCEPT ![r] = job],
           job # Idle => JobOK(job)'
    PROVE  JobsOK'
<1> SUFFICES ASSUME NEW s \in Requests, work'[s] # Idle
             PROVE  JobOK(work[s])'
  BY DEF JobsOK
<1>1. work \in [Requests -> Job \cup {Idle}]
  BY DEF IndInv, TypeOK
<1>2. CASE s = r
  <2>1. work'[s] = job
    BY <1>1, <1>2
  <2> QED
    BY <2>1 DEF JobOK
<1>3. CASE s # r
  <2>1. work'[s] = work[s]
    BY <1>1, <1>3
  <2>2. PICK w \in Job : w = work[s]
    BY <1>1, <2>1
  <2>3. JobOK(w)
    BY <2>1, <2>2 DEF IndInv, JobsOK
  <2>4. JobOK(w)'
    BY <2>3 DEF JobOK
  <2> QED
    BY <2>1, <2>2, <2>4 DEF JobOK
<1> QED
  BY <1>2, <1>3

\* A step that changes one goroutine's job only.
LEMMA JobStep ==
    ASSUME IndInv, UNCHANGED <<customers, payments, indexed, serving>>, faults' \in Nat,
           NEW r \in Requests, NEW job \in Job \cup {Idle},
           work' = [work EXCEPT ![r] = job], job # Idle => JobOK(job)
    PROVE  IndInv'
<1>1. TypeOK'
  BY DEF IndInv, TypeOK
<1>2. UNCHANGED <<OneCustomerPerEmail, PaymentsKeepCustomer, ReferenceOnce>>
  BY DEF OneCustomerPerEmail, PaymentsKeepCustomer, ReferenceOnce, ByEmail, Live
<1>3. \A e : ByEmail(e)' = ByEmail(e)
  BY DEF ByEmail, Live
<1>4. job # Idle => JobOK(job)'
  BY <1>3 DEF JobOK
<1>5. JobsOK'
  BY <1>3, <1>4, JobsKept
<1> QED
  BY <1>1, <1>2, <1>5 DEF IndInv

\* A goroutine that is about to take a step has a job.
LEMMA Busy ==
    ASSUME IndInv, NEW r \in Requests, work[r] # Idle
    PROVE  work[r] \in Job /\ JobOK(work[r])
BY DEF IndInv, TypeOK, JobsOK

LEMMA ArriveStep ==
    ASSUME IndInv, NEW r \in Requests, NEW e \in Emails, Arrive(r, e)
    PROVE  IndInv'
<1>1. ASSUME NEW pc \in {"find", "exists"}, NEW op \in Ops, NEW ref \in Refs \cup {""},
             op = "charge" => pc = "find" /\ ref = "",
             Begin(r, NewJob(pc, op, e, ref)),
             UNCHANGED <<customers, payments, indexed, serving, faults>>
      PROVE  IndInv'
  <2>1. NewJob(pc, op, e, ref) \in Job
    BY DEF NewJob, Job
  <2>2. JobOK(NewJob(pc, op, e, ref))
    BY <1>1 DEF JobOK, NewJob, Begin
  <2> QED
    BY <1>1, <2>1, <2>2, JobStep DEF Begin, Goto, IndInv, TypeOK
<1>2. CASE \E ref \in Refs \cup {""} : Initialize(r, e, ref)
  BY <1>1, <1>2 DEF Initialize, Ops
<1>3. CASE InlineCharge(r, e)
  BY <1>1, <1>3 DEF InlineCharge, Ops
<1>4. CASE CreateCustomer(r, e)
  BY <1>1, <1>4 DEF CreateCustomer, Ops
<1> QED
  BY <1>2, <1>3, <1>4 DEF Arrive

\* The lookups: a job that goes on to pay holds a live row of its email.
LEMMA LookupStep ==
    ASSUME IndInv, NEW r \in Requests, FindByEmail(r) \/ EmailExists(r) \/ FindWinner(r)
    PROVE  IndInv'
<1>1. work[r] # Idle
  <2>1. work[r].pc \in {"find", "exists", "refind"}
    BY DEF FindByEmail, EmailExists, FindWinner
  <2> QED
    BY <2>1 DEF Idle
<1>2. PICK w \in Job : w = work[r] /\ JobOK(w)
  BY <1>1, Busy
<1>3. ASSUME NEW pc \in {"find", "exists", "insert", "refind", "pay"}
      PROVE  LET job == [w EXCEPT !.pc = pc]
             IN  job \in Job /\ job.pc = pc /\ job.op = w.op /\ job.email = w.email
                 /\ job.ref = w.ref /\ job # Idle
  BY DEF Job, Idle
<1>4. ASSUME NEW pc \in {"exists", "insert"}, pc = "exists" => w.op # "charge",
             Goto(r, [w EXCEPT !.pc = pc]),
             UNCHANGED <<customers, payments, indexed, serving, faults>>
      PROVE  IndInv'
  <2> DEFINE job == [w EXCEPT !.pc = pc]
  <2>1. job \in Job /\ JobOK(job)
    BY <1>2, <1>3, <1>4 DEF JobOK
  <2> HIDE DEF job
  <2> QED
    BY <1>4, <2>1, JobStep DEF Goto, IndInv, TypeOK, job
<1>5. ASSUME NEW c \in ByEmail(w.email),
             Goto(r, [w EXCEPT !.pc = "pay", !.customer = c]),
             UNCHANGED <<customers, payments, indexed, serving, faults>>
      PROVE  IndInv'
  <2> DEFINE job == [w EXCEPT !.pc = "pay", !.customer = c]
  <2>1. c \in Customers
    BY DEF ByEmail
  <2>2. job \in Job /\ job.pc = "pay" /\ job.op = w.op /\ job.email = w.email
        /\ job.ref = w.ref /\ job.customer = c
    BY <2>1 DEF Job
  <2>3. JobOK(job)
    BY <1>2, <2>2 DEF JobOK
  <2>4. work' = [work EXCEPT ![r] = job]
    BY <1>5 DEF Goto
  <2> HIDE DEF job
  <2> QED
    BY <1>5, <2>2, <2>3, <2>4, JobStep DEF IndInv, TypeOK
<1>6. ASSUME Return(r), UNCHANGED <<customers, payments, indexed, serving, faults>>
      PROVE  IndInv'
  BY <1>6, JobStep DEF Return, IndInv, TypeOK
<1>7. CASE FindByEmail(r)
  BY <1>2, <1>4, <1>5, <1>7 DEF FindByEmail
<1>8. CASE EmailExists(r)
  BY <1>2, <1>4, <1>6, <1>8 DEF EmailExists, JobOK
<1>9. CASE FindWinner(r)
  BY <1>2, <1>5, <1>6, <1>9 DEF FindWinner
<1> QED
  BY <1>7, <1>8, <1>9

\* The insert adds the first live row of its email, or leaves the table alone.
LEMMA CreateOnceStep ==
    ASSUME IndInv, NEW r \in Requests, CreateOnce(r)
    PROVE  IndInv'
<1>1. work[r] # Idle
  BY DEF CreateOnce, Idle
<1>2. PICK w \in Job : w = work[r] /\ JobOK(w)
  BY <1>1, Busy
<1>3. serving /\ indexed
  BY <1>2 DEF JobOK, IndInv
<1>4. CASE ~ Inserts(w)
  <2>1. ByEmail(w.email) # {}
    BY <1>4 DEF Inserts
  <2>2. Refused(w) \in Job \cup {Idle} /\ (Refused(w) # Idle => JobOK(Refused(w)))
    BY <1>2, <2>1 DEF Refused, JobOK, Job
  <2> QED
    BY <1>2, <1>4, <2>2, JobStep DEF CreateOnce, Goto, IndInv, TypeOK
<1>5. CASE Inserts(w)
  <2>1. ByEmail(w.email) = {}
    BY <1>3, <1>5 DEF Inserts
  <2>2. PICK c \in Customers :
            /\ customers[c] = NoRow
            /\ customers' = [customers EXCEPT ![c] = [email |-> w.email, live |-> TRUE]]
            /\ work' = [work EXCEPT ![r] = Created(w, c)]
    BY <1>2, <1>5 DEF CreateOnce, Goto
  <2>3. UNCHANGED <<payments, indexed, serving, faults>>
    BY DEF CreateOnce
  <2>4. customers \in [Customers -> Customer \cup {NoRow}] /\ w.email \in Emails
    BY DEF IndInv, TypeOK, Job
  <2>5. ~ Live(c) /\ Live(c)' /\ customers'[c].email = w.email
    BY <2>2, <2>4 DEF Live, NoRow
  <2>6. \A d \in Customers : d # c => customers'[d] = customers[d]
    BY <2>2, <2>4
  <2>7. ASSUME NEW e
        PROVE  ByEmail(e)' = IF e = w.email THEN ByEmail(e) \cup {c} ELSE ByEmail(e)
    BY <2>5, <2>6 DEF ByEmail, Live
  <2>8. Created(w, c) \in Job \cup {Idle}
        /\ (Created(w, c) # Idle => JobOK(Created(w, c))')
    <3>1. CASE w.op = "create"
      BY <3>1 DEF Created
    <3>2. CASE w.op # "create"
      <4> DEFINE job == [w EXCEPT !.pc = "pay", !.customer = c]
      <4>1. job \in Job /\ job.pc = "pay" /\ job.op = w.op /\ job.email = w.email
            /\ job.ref = w.ref /\ job.customer = c
        BY DEF Job
      <4>2. job.customer \in ByEmail(job.email)'
        BY <2>7, <4>1
      <4>3. JobOK(job)'
        BY <1>2, <1>3, <2>3, <4>1, <4>2 DEF JobOK
      <4> QED
        BY <3>2, <4>1, <4>3 DEF Created
    <3> QED
      BY <3>1, <3>2
  <2>9. TypeOK'
    BY <2>2, <2>3, <2>4, <2>8 DEF IndInv, TypeOK, Customer
  <2>10. OneCustomerPerEmail'
    BY <2>1, <2>3, <2>7 DEF IndInv, OneCustomerPerEmail
  <2>11. PaymentsKeepCustomer'
    BY <2>3, <2>7 DEF IndInv, PaymentsKeepCustomer
  <2>12. ReferenceOnce'
    BY <2>3 DEF IndInv, ReferenceOnce
  <2>13. JobsOK'
    <3>1. \A e : ByEmail(e) \subseteq ByEmail(e)'
      BY <2>7
    <3>2. PICK job : job = Created(w, c)
      OBVIOUS
    <3>3. job # Idle => JobOK(job)'
      BY <2>8, <3>2 DEF JobOK
    <3> QED
      BY <2>2, <2>3, <3>1, <3>2, <3>3, JobsKept
  <2> QED
    BY <1>3, <2>3, <2>9, <2>10, <2>11, <2>12, <2>13 DEF IndInv
<1> QED
  BY <1>4, <1>5

\* A payment is made for the customer that was found, under a reference of its own.
LEMMA CreateTransactionStep ==
    ASSUME IndInv, NEW r \in Requests, CreateTransaction(r)
    PROVE  IndInv'
<1>1. work[r] # Idle
  BY DEF CreateTransaction, Idle
<1>2. PICK w \in Job : w = work[r] /\ JobOK(w)
  BY <1>1, Busy
<1>3. CASE ~ NewReference(w)
  BY <1>2, <1>3, JobStep DEF CreateTransaction, Return, IndInv, TypeOK
<1>4. CASE NewReference(w)
  <2>1. w.pc = "pay" /\ w.customer \in ByEmail(w.email)
    BY <1>2 DEF CreateTransaction, JobOK
  <2> DEFINE row == [email |-> w.email, ref |-> w.ref, customer |-> w.customer]
  <2>2. PICK p \in Payments :
            payments[p] = NoPayment /\ payments' = [payments EXCEPT ![p] = row]
    BY <1>2, <1>4 DEF CreateTransaction
  <2>3. UNCHANGED <<customers, indexed, serving, faults>>
        /\ work' = [work EXCEPT ![r] = Idle]
    BY DEF CreateTransaction, Return
  <2>4. row \in Payment /\ row.ref = w.ref /\ row.email = w.email
        /\ row.customer = w.customer
    BY <2>1 DEF Job, Payment, ByEmail
  <2> HIDE DEF row
  <2>5. payments \in [Payments -> Payment \cup {NoPayment}]
    BY DEF IndInv, TypeOK
  <2>6. payments'[p] = row /\ \A q \in Payments : q # p => payments'[q] = payments[q]
    BY <2>2, <2>5
  <2>7. \A e : ByEmail(e)' = ByEmail(e)
    BY <2>3 DEF ByEmail, Live
  <2>8. TypeOK'
    BY <2>2, <2>3, <2>4, <2>5 DEF IndInv, TypeOK
  <2>9. PaymentsKeepCustomer'
    BY <2>1, <2>4, <2>6, <2>7 DEF IndInv, PaymentsKeepCustomer
  <2>10. ReferenceOnce'
    <3>1. ASSUME NEW q \in Payments, payments[q] # NoPayment, payments[q].ref = w.ref
          PROVE  w.ref = ""
      BY <1>4, <3>1 DEF NewReference, ReferenceExists
    <3>2. ReferenceOnce
      BY DEF IndInv
    <3> SUFFICES ASSUME NEW x \in Payments, NEW y \in Payments,
                        payments'[x] # NoPayment, payments'[y] # NoPayment,
                        payments'[x].ref = payments'[y].ref, payments'[x].ref # "",
                        x # y
                 PROVE  FALSE
      BY DEF ReferenceOnce
    <3>3. CASE x # p /\ y # p
      BY <2>6, <3>2, <3>3 DEF ReferenceOnce
    <3>4. CASE x = p
      BY <2>4, <2>6, <3>1, <3>4
    <3>5. CASE y = p
      BY <2>4, <2>6, <3>1, <3>5
    <3> QED
      BY <3>3, <3>4, <3>5
  <2>11. OneCustomerPerEmail'
    BY <2>3, <2>7 DEF IndInv, OneCustomerPerEmail
  <2>12. JobsOK'
    BY <2>3, <2>7, JobsKept
  <2> QED
    BY <2>3, <2>8, <2>9, <2>10, <2>11, <2>12 DEF IndInv
<1> QED
  BY <1>3, <1>4

LEMMA NextIndInv ==
    ASSUME IndInv, [Next]_vars
    PROVE  IndInv'
<1>1. CASE Reconcile
  BY <1>1, ReconcileStep
<1>2. CASE CreateIndex
  <2>1. UNCHANGED <<customers, payments, work, faults>> /\ indexed' /\ serving' /\ ~ serving
    BY <1>2 DEF CreateIndex
  <2>2. \A e : ByEmail(e)' = ByEmail(e)
    BY <2>1 DEF ByEmail, Live
  <2>3. OneCustomerPerEmail'
    BY <1>2, <2>2 DEF CreateIndex, OneCustomerPerEmail
  <2>4. JobsOK'
    BY <2>1 DEF IndInv, JobsOK, JobOK
  <2>5. TypeOK' /\ ReferenceOnce' /\ PaymentsKeepCustomer'
    BY <1>2, <2>1, <2>2 DEF IndInv, TypeOK, ReferenceOnce, PaymentsKeepCustomer, CreateIndex
  <2> QED
    BY <2>1, <2>3, <2>4, <2>5 DEF IndInv
<1>3. ASSUME NEW r \in Requests, Continue(r) PROVE IndInv'
  BY <1>3, LookupStep, CreateOnceStep, CreateTransactionStep DEF Continue
<1>4. ASSUME NEW r \in Requests, RequestError(r) PROVE IndInv'
  <2>1. faults \in Nat /\ faults' = faults + 1
    BY <1>4 DEF RequestError, IndInv, TypeOK
  <2>2. faults' \in Nat
    BY <2>1
  <2> QED
    BY <1>4, <2>2, JobStep DEF RequestError, Return
<1>5. ASSUME NEW r \in Requests, NEW e \in Emails, Arrive(r, e) PROVE IndInv'
  BY <1>5, ArriveStep
<1>6. CASE Crash
  <2>1. UNCHANGED <<customers, payments, indexed>> /\ serving' = FALSE
        /\ work' = [r \in Requests |-> Idle] /\ faults' = faults + 1
    BY <1>6 DEF Crash
  <2>2. \A e : ByEmail(e)' = ByEmail(e)
    BY <2>1 DEF ByEmail, Live
  <2>3. TypeOK'
    <3>1. faults \in Nat /\ work' \in [Requests -> Job \cup {Idle}]
      BY <2>1 DEF IndInv, TypeOK
    <3>2. faults' \in Nat
      BY <2>1, <3>1
    <3> QED
      BY <2>1, <3>1, <3>2 DEF IndInv, TypeOK
  <2> QED
    BY <2>1, <2>2, <2>3
    DEF IndInv, OneCustomerPerEmail, PaymentsKeepCustomer, ReferenceOnce, JobsOK
<1>7. CASE UNCHANGED vars
  <2>1. \A e : ByEmail(e)' = ByEmail(e)
    BY <1>7 DEF vars, ByEmail, Live
  <2>2. TypeOK' /\ OneCustomerPerEmail' /\ PaymentsKeepCustomer' /\ ReferenceOnce'
    BY <1>7, <2>1 DEF vars, IndInv, TypeOK, OneCustomerPerEmail, PaymentsKeepCustomer, ReferenceOnce
  <2>3. JobsOK'
    BY <1>7, <2>1 DEF vars, IndInv, JobsOK, JobOK
  <2> QED
    BY <1>7, <2>2, <2>3 DEF vars, IndInv
<1> QED
  BY <1>1, <1>2, <1>3, <1>4, <1>5, <1>6, <1>7 DEF Next

LEMMA Invariance == Spec => []IndInv
BY InitIndInv, NextIndInv, PTL DEF Spec
--------------------------------------------------------------------------------
\* Every variable keeps its type.
THEOREM DirectoryTypes == Spec => []TypeOK
BY Invariance, PTL DEF IndInv

\* Once the index is there, no email has two live customers.
THEOREM CustomersUnique == Spec => []OneCustomerPerEmail
BY Invariance, PTL DEF IndInv

\* Migration, lost races and crashes leave every payment with a live customer of
\* the email it was made for.
THEOREM HistoryKept == Spec => []PaymentsKeepCustomer
BY Invariance, PTL DEF IndInv

\* No two transactions have the same caller-given reference.
THEOREM ReferencesUnique == Spec => []ReferenceOnce
BY Invariance, PTL DEF IndInv

\* An inline charge that fails no statement ends with its transaction.
THEOREM InlineChargesPay == Spec => InlineChargePays
<1>1. ASSUME IndInv, [Next]_vars, NEW r \in Requests, work[r] # Idle,
             work[r].op = "charge", work'[r] = Idle, faults' = faults
      PROVE  PaysFor(work[r])
  <2>1. PICK w \in Job : w = work[r] /\ JobOK(w)
    BY <1>1, Busy
  <2>2. w # Idle /\ w.op = "charge" /\ w.ref = "" /\ w.pc # "exists"
    BY <1>1, <2>1 DEF JobOK
  <2>3. work \in [Requests -> Job \cup {Idle}] /\ faults \in Nat
    BY <1>1 DEF IndInv, TypeOK
  <2>4. ASSUME NEW job, work' = [work EXCEPT ![r] = job] PROVE job = Idle
    BY <1>1, <2>3, <2>4
  <2>5. ASSUME NEW pc PROVE [w EXCEPT !.pc = pc] # Idle
    BY DEF Job, Idle
  <2>6. ASSUME NEW pc, NEW c PROVE [w EXCEPT !.pc = pc, !.customer = c] # Idle
    BY DEF Job, Idle
  <2>7. ~ FindByEmail(r)
    <3> SUFFICES ASSUME FindByEmail(r) PROVE FALSE
      OBVIOUS
    <3>1. CASE \E c \in ByEmail(w.email) : Goto(r, [w EXCEPT !.pc = "pay", !.customer = c])
      <4>1. PICK c : Goto(r, [w EXCEPT !.pc = "pay", !.customer = c])
        BY <3>1
      <4> QED
        BY <2>4, <2>6, <4>1 DEF Goto
    <3>2. CASE Goto(r, [w EXCEPT !.pc = IF w.op = "charge" THEN "insert" ELSE "exists"])
      <4>1. PICK pc : pc = IF w.op = "charge" THEN "insert" ELSE "exists"
        OBVIOUS
      <4>2. work' = [work EXCEPT ![r] = [w EXCEPT !.pc = pc]]
        BY <3>2, <4>1 DEF Goto
      <4> QED
        BY <2>4, <2>5, <4>2
    <3> QED
      BY <2>1, <3>1, <3>2 DEF FindByEmail
  <2>8. ~ EmailExists(r)
    BY <2>1, <2>2 DEF EmailExists
  <2>9. ~ CreateOnce(r)
    <3> SUFFICES ASSUME CreateOnce(r) PROVE FALSE
      OBVIOUS
    <3>1. PICK job : /\ work' = [work EXCEPT ![r] = job]
                     /\ \/ job = Refused(w)
                        \/ \E c \in Customers : job = Created(w, c)
      BY <2>1 DEF CreateOnce, Goto
    <3>2. job = Idle
      BY <2>4, <3>1
    <3>3. CASE job = Refused(w)
      BY <2>2, <2>5, <3>2, <3>3 DEF Refused
    <3>4. CASE \E c \in Customers : job = Created(w, c)
      <4>1. PICK c \in Customers : job = Created(w, c)
        BY <3>4
      <4>2. job = [w EXCEPT !.pc = "pay", !.customer = c]
        BY <2>2, <4>1 DEF Created
      <4> QED
        BY <2>6, <3>2, <4>2
    <3> QED
      BY <3>1, <3>3, <3>4
  <2>10. ~ FindWinner(r)
    <3> SUFFICES ASSUME FindWinner(r) PROVE FALSE
      OBVIOUS
    <3>1. w.pc = "refind" /\ ByEmail(w.email) # {}
      BY <2>1 DEF FindWinner, JobOK
    <3>2. PICK c : Goto(r, [w EXCEPT !.pc = "pay", !.customer = c])
      BY <2>1, <3>1 DEF FindWinner
    <3> QED
      BY <2>4, <2>6, <3>2 DEF Goto
  <2>11. ASSUME NEW s \in Requests, Continue(s) \/ \E e \in Emails : Arrive(s, e)
         PROVE  s = r
    <3>1. PICK job : work' = [work EXCEPT ![s] = job]
      BY <2>11 DEF Continue, Arrive, FindByEmail, EmailExists, CreateOnce, FindWinner,
        CreateTransaction, Initialize, InlineCharge, CreateCustomer, Begin, Goto, Return
    <3> QED
      BY <1>1, <2>3, <3>1
  <2>12. ASSUME NEW e \in Emails PROVE ~ Arrive(r, e)
    BY <1>1 DEF Arrive, Initialize, InlineCharge, CreateCustomer, Begin
  <2>13. ASSUME NEW s \in Requests PROVE ~ RequestError(s)
    BY <1>1, <2>3 DEF RequestError
  <2>14. ~ Crash /\ ~ Reconcile /\ ~ CreateIndex /\ ~ UNCHANGED vars
    BY <1>1, <2>3 DEF Crash, Reconcile, CreateIndex, vars
  <2>15. CreateTransaction(r)
    BY <1>1, <2>7, <2>8, <2>9, <2>10, <2>11, <2>12, <2>13, <2>14 DEF Next, Continue
  <2>16. NewReference(w)
    BY <2>2 DEF NewReference
  <2>17. PICK p \in Payments :
            /\ payments[p] = NoPayment
            /\ payments' = [payments EXCEPT ![p] =
                  [email |-> w.email, ref |-> w.ref, customer |-> w.customer]]
    BY <2>1, <2>15, <2>16 DEF CreateTransaction
  <2>18. payments'[p] = [email |-> w.email, ref |-> w.ref, customer |-> w.customer]
    BY <1>1, <2>17 DEF IndInv, TypeOK
  <2> QED
    BY <2>1, <2>17, <2>18 DEF PaysFor, NoPayment
<1>2. IndInv /\ [Next]_vars =>
          [\A r \in Requests :
              work[r] # Idle /\ work[r].op = "charge" /\ work'[r] = Idle
              /\ faults' = faults => PaysFor(work[r])]_vars
  BY <1>1
<1> QED
  BY <1>2, Invariance, PTL DEF Spec, InlineChargePays
--------------------------------------------------------------------------------
(***************************************************************************)
(* The directory implements DirectoryPromise.                              *)
(***************************************************************************)

promised == <<Known, MadeFor, Buyer, indexed>>

\* The promise's terms, email by email and payment by payment.
LEMMA Terms ==
    ASSUME IndInv
    PROVE  /\ Known \in [Emails -> SUBSET Customers]
           /\ MadeFor \in [Payments -> Emails \cup {""}]
           /\ Buyer \in [Payments -> Customers \cup {0}]
           /\ \A p \in Payments :
                 \/ payments[p] = NoPayment /\ Buyer[p] = 0 /\ MadeFor[p] = ""
                 \/ /\ payments[p] \in Payment
                    /\ Buyer[p] = payments[p].customer /\ MadeFor[p] = payments[p].email
                    /\ MadeFor[p] \in Emails /\ Buyer[p] # 0
                    /\ Buyer[p] \in ByEmail(MadeFor[p])
<1>1. payments \in [Payments -> Payment \cup {NoPayment}]
  BY DEF IndInv, TypeOK
<1>2. \A p \in Payments : payments[p] \in Payment =>
          payments[p].customer \in Customers /\ payments[p].email \in Emails
  BY DEF Payment
<1>3. ASSUME NEW p \in Payments, payments[p] # NoPayment
      PROVE  payments[p].customer \in ByEmail(payments[p].email)
  BY <1>3 DEF IndInv, PaymentsKeepCustomer
<1>4. Known \in [Emails -> SUBSET Customers]
  BY DEF Known, ByEmail
<1>5. /\ MadeFor \in [Payments -> Emails \cup {""}]
      /\ Buyer \in [Payments -> Customers \cup {0}]
  BY <1>1, <1>2 DEF MadeFor, Buyer
<1> QED
  BY <1>1, <1>2, <1>3, <1>4, <1>5, CustomerAssumption DEF MadeFor, Buyer

\* The tables behind the terms are the same, and so are the terms.
LEMMA TermsStay ==
    ASSUME UNCHANGED <<customers, payments, indexed>>
    PROVE  UNCHANGED promised
BY DEF promised, Known, ByEmail, Live, MadeFor, Buyer

LEMMA InitPromise == Init => Promise!Init
<1> SUFFICES ASSUME Init PROVE Promise!Init
  OBVIOUS
<1>1. IndInv
  BY InitIndInv
<1>2. \A e, f \in Emails : e # f => Known[e] \cap Known[f] = {}
  BY DEF Known, ByEmail
<1>3. ASSUME NEW p \in Payments
      PROVE  \/ Buyer[p] = 0 /\ MadeFor[p] = ""
             \/ MadeFor[p] \in Emails /\ Buyer[p] \in Known[MadeFor[p]]
  BY <1>1, Terms DEF Known
<1> QED
  BY <1>1, <1>2, <1>3, Terms DEF Init, Promise!Init

\* Before the index is built the migration is the promise's Merge.
LEMMA MergeStep ==
    ASSUME IndInv, Reconcile, ~ indexed
    PROVE  Promise!Merge
<1>1. IndInv' /\ UNCHANGED indexed
  BY ReconcileStep DEF Reconcile
<1>2. ASSUME NEW e \in Emails PROVE Known'[e] = Promise!Oldest(e)
  <2>1. ASSUME NEW c \in Customers, c \in ByEmail(e)
        PROVE  Canonical(c, c) <=> \A d \in ByEmail(e) : c <= d
    BY <2>1 DEF Canonical, ByEmail
  <2>2. ByEmail(e)' = {c \in ByEmail(e) : \A d \in ByEmail(e) : c <= d}
    <3>1. ASSUME NEW c \in Customers
          PROVE  c \in ByEmail(e)' <=> c \in ByEmail(e) /\ Canonical(c, c)
      BY ReconciledRow DEF ByEmail
    <3> QED
      BY <2>1, <3>1 DEF ByEmail
  <2> QED
    BY <2>2 DEF Known, Promise!Oldest
<1>3. Known' = [e \in Emails |-> Promise!Oldest(e)]
  BY <1>2 DEF Known
<1>4. ASSUME NEW p \in Payments
      PROVE  /\ MadeFor'[p] = MadeFor[p]
             /\ IF Buyer[p] = 0 THEN Buyer'[p] = 0 ELSE Buyer'[p] \in Promise!Oldest(MadeFor[p])
  <2>1. CASE payments[p] = NoPayment
    <3>1. payments'[p] = NoPayment
      BY <2>1 DEF Reconcile
    <3> QED
      BY <2>1, <3>1 DEF MadeFor, Buyer
  <2>2. CASE payments[p] # NoPayment
    <3>1. PICK c \in Customers, d \in Customers :
             /\ payments[p] \in Payment /\ payments[p].customer = c
             /\ Live(c) /\ customers[c].email = payments[p].email
             /\ payments'[p] = [payments[p] EXCEPT !.customer = d]
             /\ Canonical(c, d)
      BY <2>2, ReconciledPayment
    <3>2. payments'[p] # NoPayment /\ payments'[p].customer = d
          /\ payments'[p].email = payments[p].email /\ payments[p].email \in Emails
      BY <3>1 DEF Payment, NoPayment
    <3>3. MadeFor[p] = payments[p].email /\ MadeFor'[p] = payments[p].email
          /\ Buyer'[p] = d /\ Buyer[p] = c /\ c # 0
      BY <2>2, <3>1, <3>2, CustomerAssumption DEF MadeFor, Buyer
    <3>4. d \in Promise!Oldest(payments[p].email)
      BY <3>1, <3>2 DEF Canonical, Promise!Oldest, Known
    <3> QED
      BY <3>3, <3>4
  <2> QED
    BY <2>1, <2>2
<1>5. MadeFor' = MadeFor
  BY <1>4 DEF MadeFor
<1>6. Buyer' \in [Payments -> Customers \cup {0}]
  <2>1. \A p \in Payments : payments'[p] = NoPayment \/ payments'[p].customer \in Customers
    BY <1>1 DEF IndInv, PaymentsKeepCustomer, ByEmail
  <2> QED
    BY <2>1 DEF Buyer
<1> QED
  BY <1>1, <1>3, <1>4, <1>5, <1>6 DEF Promise!Merge

\* Once it is there, running the migration again changes nothing.
LEMMA MergeAgain ==
    ASSUME IndInv, Reconcile, indexed
    PROVE  UNCHANGED <<customers, payments>>
<1>1. ASSUME NEW c \in Customers, Live(c), NEW d \in Customers, Canonical(c, d)
      PROVE  d = c
  <2>1. customers[c] \in Customer
    BY <1>1 DEF IndInv, TypeOK, Live
  <2>2. customers[c].email \in Emails
    BY <2>1 DEF Customer
  <2> QED
    BY <1>1, <2>2 DEF IndInv, OneCustomerPerEmail, Canonical, ByEmail
<1>2. ASSUME NEW c \in Customers PROVE customers'[c] = customers[c]
  <2>1. CASE ~ Live(c)
    BY <2>1 DEF Reconcile
  <2>2. CASE Live(c)
    <3>1. Canonical(c, c) = TRUE
      <4>1. PICK d \in Customers : Canonical(c, d)
        BY <2>2, CanonicalExists
      <4>2. d = c
        BY <1>1, <2>2, <4>1
      <4> QED
        BY <4>1, <4>2 DEF Canonical
    <3>2. PICK row \in Customer : row = customers[c]
      BY <2>2 DEF IndInv, TypeOK, Live
    <3>3. customers'[c] = [row EXCEPT !.live = TRUE]
      BY <2>2, <3>1, <3>2 DEF Reconcile
    <3>4. row.live = TRUE
      BY <2>2, <3>2 DEF Live, Customer
    <3> QED
      BY <3>2, <3>3, <3>4 DEF Customer
  <2> QED
    BY <2>1, <2>2
<1>3. ASSUME NEW p \in Payments PROVE payments'[p] = payments[p]
  <2>1. CASE payments[p] = NoPayment
    BY <2>1 DEF Reconcile
  <2>2. CASE payments[p] # NoPayment
    <3>1. PICK c \in Customers, d \in Customers :
             /\ payments[p] \in Payment /\ payments[p].customer = c
             /\ Live(c) /\ customers[c].email = payments[p].email
             /\ payments'[p] = [payments[p] EXCEPT !.customer = d]
             /\ Canonical(c, d)
      BY <2>2, ReconciledPayment
    <3>2. d = payments[p].customer
      BY <1>1, <3>1
    <3>3. PICK row \in Payment : row = payments[p]
      BY <3>1
    <3>4. payments'[p] = [row EXCEPT !.customer = row.customer]
      BY <3>1, <3>2, <3>3
    <3> QED
      BY <3>3, <3>4 DEF Payment
  <2> QED
    BY <2>1, <2>2
<1>4. customers \in [Customers -> Customer \cup {NoRow}]
      /\ payments \in [Payments -> Payment \cup {NoPayment}]
  BY DEF IndInv, TypeOK
<1>5. customers' = customers
  BY <1>2, <1>4 DEF Reconcile
<1>6. payments' = payments
  BY <1>3, <1>4 DEF Reconcile
<1> QED
  BY <1>5, <1>6

\* An insert welcomes a customer that no email knows.
LEMMA WelcomeStep ==
    ASSUME IndInv, NEW r \in Requests, CreateOnce(r)
    PROVE  Promise!Next \/ UNCHANGED promised
<1>1. work[r] # Idle
  BY DEF CreateOnce, Idle
<1>2. PICK w \in Job : w = work[r] /\ JobOK(w)
  BY <1>1, Busy
<1>3. indexed /\ UNCHANGED <<payments, indexed>>
  BY <1>2 DEF JobOK, IndInv, CreateOnce
<1>4. CASE ~ Inserts(w)
  <2>1. customers' = customers
    BY <1>2, <1>4 DEF CreateOnce
  <2> QED
    BY <1>3, <2>1, TermsStay
<1>5. CASE Inserts(w)
  <2>1. ByEmail(w.email) = {} /\ w.email \in Emails
    BY <1>3, <1>5 DEF Inserts, Job
  <2>2. PICK c \in Customers :
            /\ customers[c] = NoRow
            /\ customers' = [customers EXCEPT ![c] = [email |-> w.email, live |-> TRUE]]
    BY <1>2, <1>5 DEF CreateOnce
  <2>3. customers \in [Customers -> Customer \cup {NoRow}]
    BY DEF IndInv, TypeOK
  <2>4. ~ Live(c) /\ Live(c)' /\ customers'[c].email = w.email
    BY <2>2, <2>3 DEF Live, NoRow
  <2>5. \A d \in Customers : d # c => customers'[d] = customers[d]
    BY <2>2, <2>3
  <2>6. ASSUME NEW e \in Emails
        PROVE  ByEmail(e)' = IF e = w.email THEN {c} ELSE ByEmail(e)
    BY <2>1, <2>4, <2>5 DEF ByEmail, Live
  <2>7. Known' = [Known EXCEPT ![w.email] = {c}]
    BY <2>1, <2>6 DEF Known
  <2>8. Known[w.email] = {} /\ \A f \in Emails : c \notin Known[f]
    BY <2>1, <2>4 DEF Known, ByEmail
  <2>9. UNCHANGED <<MadeFor, Buyer>>
    BY <1>3 DEF MadeFor, Buyer
  <2>10. Promise!Welcome(w.email, c)
    BY <1>3, <2>7, <2>8, <2>9 DEF Promise!Welcome
  <2> QED
    BY <2>1, <2>10 DEF Promise!Next
<1> QED
  BY <1>4, <1>5

\* A payment is made for the one customer of its email.
LEMMA PayStep ==
    ASSUME IndInv, NEW r \in Requests, CreateTransaction(r)
    PROVE  Promise!Next \/ UNCHANGED promised
<1>1. work[r] # Idle
  BY DEF CreateTransaction, Idle
<1>2. PICK w \in Job : w = work[r] /\ JobOK(w)
  BY <1>1, Busy
<1>3. indexed /\ UNCHANGED <<customers, indexed>>
  BY <1>2 DEF JobOK, IndInv, CreateTransaction
<1>4. CASE payments' = payments
  BY <1>3, <1>4, TermsStay
<1>5. CASE payments' # payments
  <2>1. w.customer \in ByEmail(w.email) /\ w.email \in Emails /\ w.customer \in Customers
    BY <1>2 DEF CreateTransaction, JobOK, Job, ByEmail
  <2> DEFINE row == [email |-> w.email, ref |-> w.ref, customer |-> w.customer]
  <2>2. PICK p \in Payments :
            payments[p] = NoPayment /\ payments' = [payments EXCEPT ![p] = row]
    BY <1>2, <1>5 DEF CreateTransaction
  <2>3. row.email = w.email /\ row.customer = w.customer /\ row # NoPayment
    BY DEF NoPayment
  <2> HIDE DEF row
  <2>4. payments \in [Payments -> Payment \cup {NoPayment}]
    BY DEF IndInv, TypeOK
  <2>5. payments'[p] = row /\ \A q \in Payments : q # p => payments'[q] = payments[q]
    BY <2>2, <2>4
  <2>6. MadeFor' = [MadeFor EXCEPT ![p] = w.email]
    BY <2>3, <2>5 DEF MadeFor
  <2>7. Buyer' = [Buyer EXCEPT ![p] = w.customer]
    BY <2>3, <2>5 DEF Buyer
  <2>8. Known' = Known
    BY <1>3 DEF Known, ByEmail, Live
  <2>9. Buyer[p] = 0 /\ w.customer \in Known[w.email]
    BY <2>1, <2>2 DEF Buyer, Known
  <2>10. Promise!Pay(p, w.email, w.customer)
    BY <1>3, <2>6, <2>7, <2>8, <2>9 DEF Promise!Pay
  <2> QED
    BY <2>1, <2>10 DEF Promise!Next
<1> QED
  BY <1>4, <1>5

LEMMA DirectoryStep ==
    ASSUME IndInv, [Next]_vars
    PROVE  [Promise!Next]_promised
<1>1. CASE Reconcile
  <2>1. CASE indexed
    BY <1>1, <2>1, MergeAgain, TermsStay DEF Reconcile
  <2>2. CASE ~ indexed
    BY <1>1, <2>2, MergeStep DEF Promise!Next
  <2> QED
    BY <2>1, <2>2
<1>2. CASE CreateIndex
  <2>1. UNCHANGED <<Known, MadeFor, Buyer>> /\ indexed' = TRUE
    BY <1>2 DEF CreateIndex, Known, ByEmail, Live, MadeFor, Buyer
  <2>2. \A e \in Emails : \A c, d \in Known[e] : c = d
    BY <1>2 DEF CreateIndex, Known
  <2> QED
    BY <2>1, <2>2 DEF Promise!Next, Promise!Settle
<1>3. ASSUME NEW r \in Requests, CreateOnce(r) PROVE [Promise!Next]_promised
  BY <1>3, WelcomeStep
<1>4. ASSUME NEW r \in Requests, CreateTransaction(r) PROVE [Promise!Next]_promised
  BY <1>4, PayStep
<1>5. CASE UNCHANGED <<customers, payments, indexed>>
  BY <1>5, TermsStay
<1> QED
  BY <1>1, <1>2, <1>3, <1>4, <1>5
  DEF Next, Continue, FindByEmail, EmailExists, FindWinner, RequestError, Arrive, Initialize,
      InlineCharge, CreateCustomer, Crash, vars

\* From the earlier release's duplicates to the last payment, through restarts and
\* lost races, the directory does what the promise allows and nothing else.
THEOREM DirectoryKept == Spec => KeepsPromise
<1>1. IndInv /\ [Next]_vars => [Promise!Next]_Promise!vars
  BY DirectoryStep DEF promised, Promise!vars
<1> QED
  BY <1>1, InitPromise, Invariance, PTL DEF Spec, KeepsPromise, Promise!Spec
================================================================================
