------------------------------- MODULE ChargeProofs -----------------------------
(***************************************************************************)
(* Machine-checked safety of ChargeLifecycle for every set of              *)
(* transactions, charge ids and goroutines and every bound.  IndInv of     *)
(* ChargeInvariant is inductive; the safety properties follow from it.     *)
(***************************************************************************)
EXTENDS ChargeInvariant, TLAPS

\* What every step leaves true of the past: rows are never deleted or moved,
\* OTP logs only accumulate, a payment is never forgotten, and a transaction
\* that ended without one stays so; a failure or a refund stays on record unless
\* a round of the expiry worker has overwritten it.
Grows ==
    /\ \A t \in Txs :
         /\ status[t] # "none" => status'[t] # "none"
         /\ issued[t] <= issued'[t]
         /\ paid[t] => paid'[t]
         /\ ~ paid[t] /\ status[t] \in {"failed", "abandoned"}
              => ~ paid'[t] /\ status'[t] \in {"failed", "abandoned"}
         /\ status[t] = "failed" => status'[t] = "failed" \/ t \in lapsed'
         /\ status[t] = "reversed" => status'[t] = "reversed" \/ t \in lapsed'
         /\ t \in lapsed => t \in lapsed'
    /\ \A c \in ChargeIds : charges[c] # NoRow =>
         /\ charges'[c] # NoRow
         /\ charges'[c].tx = charges[c].tx
         /\ charges'[c].sampled = charges[c].sampled

\* A job keeps its invariant when other goroutines move the table forward.
LEMMA JobKept ==
    ASSUME TypeOK, TypeOK', TxsOK, Grows, NEW w \in Job, JobOK(w)
    PROVE  JobOK(w)'
<1> DEFINE t == w.tx
<1>1. t \in Txs /\ w.log \in Nat /\ w.otp \in Nat
  BY DEF Job
<1>2. issued[t] \in Nat /\ issued'[t] \in Nat
  BY <1>1 DEF TypeOK
<1>3. HoldsRow(w) => HoldsRow(w)'
  BY DEF HoldsRow, Grows
<1>4. HoldsRow(w) /\ ReadOtp(w) => ReadOtp(w)'
  BY DEF HoldsRow, ReadOtp, Grows
<1>5. status'[t] # "none" /\ issued[t] <= issued'[t]
  BY <1>1 DEF Grows, sweep, JobOK
<1>6. w.log <= issued'[t]
  BY <1>1, <1>2, <1>5 DEF JobOK
<1>7. w.pc = "checkotp" => w.otp <= issued'[t]
  BY <1>1, <1>2, <1>5 DEF JobOK
<1>8. w.pc = "dispatch" =>
           \/ w.result = "success"  /\ paid'[t]
           \/ w.result = "failed"   /\ ~ paid'[t] /\ Still(w, "failed")'
           \/ w.result = "reversed" /\ paid'[t] /\ Still(w, "reversed")'
  <2>1. w.pc = "dispatch" /\ w.result = "failed" =>
            ~ paid[t] /\ status[t] \in {"failed", "abandoned"}
    BY <1>1 DEF JobOK, Still, TxsOK, TxOK
  <2> QED
    BY <1>1, <2>1 DEF JobOK, Grows, Still
<1> QED
  BY <1>3, <1>4, <1>5, <1>6, <1>7, <1>8 DEF JobOK

\* A step of goroutine r keeps the invariant of every job if it moves the table
\* forward and its own next job is in order.
LEMMA JobsKept ==
    ASSUME TypeOK, TypeOK', TxsOK, JobsOK, Grows,
           NEW r \in Workers, NEW job, work' = [work EXCEPT ![r] = job],
           job # Idle => JobOK(job)'
    PROVE  JobsOK'
<1> SUFFICES ASSUME NEW q \in Workers, work'[q] # Idle
             PROVE  JobOK(work[q])'
  BY DEF JobsOK
<1>1. CASE q = r
  <2>1. work'[q] = job
    BY <1>1 DEF TypeOK
  <2> QED
    BY <2>1 DEF JobOK, HoldsRow, ReadOtp, Still
<1>2. CASE q # r
  <2>1. work'[q] = work[q] /\ work[q] \in Job
    BY <1>2 DEF TypeOK
  <2>2. PICK w \in Job : w = work[q]
    BY <2>1
  <2>3. JobOK(w)
    BY <2>1, <2>2 DEF JobsOK
  <2>4. JobOK(w)'
    BY <2>3, JobKept
  <2> QED
    BY <2>1, <2>2, <2>4 DEF JobOK, HoldsRow, ReadOtp, Still
<1> QED
  BY <1>1, <1>2

\* What was announced stays true when the table moves forward.
LEMMA EventsKept ==
    ASSUME TypeOK, EventsOK, Grows, events' = events
    PROVE  EventsOK'
BY DEF TypeOK, EventsOK, EventOK, Grows

\* A step that only changes what a goroutine remembers.
LEMMA JobStep ==
    ASSUME IndInv, NEW r \in Workers, NEW job \in Job \cup {Idle},
           work' = [work EXCEPT ![r] = job],
           job # Idle => JobOK(job),
           UNCHANGED <<table, sweep, aged>>, faults' \in Nat
    PROVE  IndInv'
<1> USE DEF table, sweep
<1>1. TypeOK'
  BY DEF IndInv, TypeOK
<1>2. RowsOK' /\ PairsOK'
  BY DEF IndInv, RowsOK, RowOK, PairsOK
<1>3. TxsOK' /\ EventsOK'
  BY DEF IndInv, TxsOK, TxOK, EventsOK, EventOK
<1>4. Grows
  <2>1. ASSUME NEW t \in Txs PROVE issued[t] <= issued[t]
    <3>1. issued[t] \in Nat
      BY DEF IndInv, TypeOK
    <3> QED
      BY <3>1
  <2> QED
    BY <2>1 DEF Grows, sweep
<1>5. job # Idle => JobOK(job)'
  <2> SUFFICES ASSUME job # Idle
               PROVE  JobOK(job)'
    OBVIOUS
  <2>1. job \in Job /\ JobOK(job)
    OBVIOUS
  <2> QED
    BY <1>1, <1>4, <2>1, JobKept DEF IndInv
<1>6. JobsOK'
  BY <1>1, <1>4, <1>5, JobsKept DEF IndInv
<1> QED
  BY <1>1, <1>2, <1>3, <1>6 DEF IndInv

\* A job built by NewJob, with the fields a step sets, has the type of a job.
LEMMA NewJobType ==
    ASSUME NEW pc \in Steps, NEW t \in Txs, NEW o \in TxStatuses
    PROVE  NewJob(pc, t, o) \in Job
BY DEF NewJob, Job

\* What a handler knows of the row c it has just read in flow f.
RowRead(t, f, c) ==
    /\ charges[c] # NoRow
    /\ charges[c].flow = f
    /\ status[t] # "none"
    /\ charges[c].otp <= issued[t]
    /\ f = OtpFlow /\ charges[c].sampled = "success" => charges[c].otp > 0

\* The read half of a form step leaves a job that holds the row it has read.
LEMMA ReadStep ==
    ASSUME IndInv, NEW r \in Workers, NEW t \in Txs, NEW f \in Flows, NEW job \in Job,
           job.tx = t,
           Read(r, t, f, job), ReadsOnly
    PROVE  \E c \in ChargeIds :
             LET read == [job EXCEPT !.charge = c, !.flow = f, !.otp = charges[c].otp]
             IN  /\ read \in Job
                 /\ HoldsRow(read)
                 /\ work' = [work EXCEPT ![r] = read]
                 /\ RowRead(t, f, c)
<1>1. PICK c \in Rows(t) :
         /\ charges[c].flow = f
         /\ work' = [work EXCEPT ![r] = [job EXCEPT !.charge = c, !.flow = f, !.otp = charges[c].otp]]
  BY DEF Read, Goto
<1>2. c \in ChargeIds /\ charges[c] # NoRow /\ charges[c].tx = t /\ c \in Nat
  BY <1>1, ChargeIdAssumption DEF Rows
<1>3. charges[c] \in Charge /\ charges[c].otp \in Nat
  BY <1>2 DEF IndInv, TypeOK, Charge
<1> DEFINE read == [job EXCEPT !.charge = c, !.flow = f, !.otp = charges[c].otp]
<1>4. read \in Job
  BY <1>2, <1>3 DEF Job
<1>5. read.charge = c /\ read.tx = t
  BY DEF Job
<1>6. HoldsRow(read)
  BY <1>2, <1>5 DEF HoldsRow
<1>7. RowOK(c)
  BY <1>2 DEF IndInv, RowsOK
<1>8. status[t] # "none" /\ charges[c].otp <= issued[t]
  BY <1>2, <1>7 DEF RowOK
<1>9. f = OtpFlow /\ charges[c].sampled = "success" => charges[c].otp > 0
  <2> SUFFICES ASSUME f = OtpFlow, charges[c].sampled = "success"
               PROVE  charges[c].otp > 0
    OBVIOUS
  <2>1. charges[c].status = "pending"
    BY <1>1, <1>7 DEF RowOK, OtpFlow
  <2> QED
    BY <1>1, <1>2, <1>7, <2>1 DEF RowOK
<1> QED
  BY <1>1, <1>2, <1>4, <1>6, <1>8, <1>9 DEF RowRead

\* The handlers that read a charge in flow f and will advance or finalize it.
LEMMA FormReadStep ==
    ASSUME IndInv, NEW r \in Workers, NEW t \in Txs, NEW f \in Flows,
           NEW job \in Job, job.tx = t, job.log = 0, job.result = "success",
           \/ job.pc = "advance" /\ job.next = OtpFlow
           \/ job.pc = "finalize",
           Read(r, t, f, job), ReadsOnly
    PROVE  IndInv'
<1>1. PICK c \in ChargeIds :
         LET read == [job EXCEPT !.charge = c, !.flow = f, !.otp = charges[c].otp]
         IN  /\ read \in Job
             /\ HoldsRow(read)
             /\ work' = [work EXCEPT ![r] = read]
             /\ RowRead(t, f, c)
  BY ReadStep
<1> DEFINE read == [job EXCEPT !.charge = c, !.flow = f, !.otp = charges[c].otp]
<1>2. /\ read.tx = t /\ read.log = 0 /\ read.result = "success"
      /\ read.pc = job.pc /\ read.next = job.next
  BY DEF Job
<1>3. issued[t] \in Nat /\ faults' \in Nat
  BY DEF IndInv, TypeOK, ReadsOnly
<1> HIDE DEF read
<1>4. read \in Job /\ HoldsRow(read) /\ work' = [work EXCEPT ![r] = read]
  BY <1>1 DEF read
<1>5. JobOK(read)
  BY <1>1, <1>2, <1>3, <1>4 DEF JobOK, Outcomes, OtpFlow, RowRead
<1>6. UNCHANGED <<table, sweep, aged>>
  BY DEF ReadsOnly
<1> QED
  BY <1>3, <1>4, <1>5, <1>6, JobStep

LEMMA SubmitFactorStep ==
    ASSUME IndInv, NEW r \in Workers, NEW t \in Txs, NEW f \in Factors,
           SubmitFactor(r, t, f)
    PROVE  IndInv'
<1> DEFINE job == [NewJob("advance", t, "success") EXCEPT !.next = OtpFlow]
<1>1. job \in Job /\ job.tx = t /\ job.log = 0 /\ job.result = "success"
      /\ job.pc = "advance" /\ job.next = OtpFlow
  BY DEF NewJob, Job, Steps, TxStatuses, Outcomes, OtpFlow, Flows
<1>2. Read(r, t, f, job) /\ ReadsOnly /\ f \in Flows
  BY DEF SubmitFactor, Factors, Flows
<1> QED
  BY <1>1, <1>2, FormReadStep

LEMMA ResendOTPStep ==
    ASSUME IndInv, NEW r \in Workers, NEW t \in Txs, ResendOTP(r, t)
    PROVE  IndInv'
<1> DEFINE job == [NewJob("advance", t, "success") EXCEPT !.next = OtpFlow]
<1>1. job \in Job /\ job.tx = t /\ job.log = 0 /\ job.result = "success"
      /\ job.pc = "advance" /\ job.next = OtpFlow
  BY DEF NewJob, Job, Steps, TxStatuses, Outcomes, OtpFlow, Flows
<1>2. Read(r, t, OtpFlow, job) /\ ReadsOnly /\ OtpFlow \in Flows
  BY DEF ResendOTP, Flows, OtpFlow
<1> QED
  BY <1>1, <1>2, FormReadStep

LEMMA Simulate3DSStep ==
    ASSUME IndInv, NEW r \in Workers, NEW t \in Txs, Simulate3DS(r, t)
    PROVE  IndInv'
<1> DEFINE job == NewJob("finalize", t, "success")
<1>1. job \in Job /\ job.tx = t /\ job.log = 0 /\ job.result = "success"
      /\ job.pc = "finalize"
  BY DEF NewJob, Job, Steps, TxStatuses, Outcomes
<1>2. Read(r, t, "open_url", job) /\ ReadsOnly /\ "open_url" \in Flows
  BY DEF Simulate3DS, Flows
<1> QED
  BY <1>1, <1>2, FormReadStep

LEMMA SubmitOTPStep ==
    ASSUME IndInv, NEW r \in Workers, NEW t \in Txs, NEW k, SubmitOTP(r, t, k)
    PROVE  IndInv'
<1> DEFINE job == [NewJob("checkotp", t, "success") EXCEPT !.log = k]
<1>1. issued[t] \in Nat /\ faults' \in Nat
  BY DEF IndInv, TypeOK, SubmitOTP, ReadsOnly
<1>2. k \in Nat /\ k > 0 /\ k <= issued[t]
  BY <1>1 DEF SubmitOTP
<1>3. job \in Job /\ job.tx = t
  BY <1>2 DEF NewJob, Job, Steps, TxStatuses, Outcomes
<1>4. OtpFlow \in Flows /\ Read(r, t, OtpFlow, job) /\ ReadsOnly
  BY DEF SubmitOTP, Flows, OtpFlow
<1>5. PICK j \in Job : j = job
  BY <1>3
<1>6. PICK f \in Flows : f = OtpFlow
  BY <1>4
<1>7. /\ j.pc = "checkotp" /\ j.tx = t /\ j.log = k /\ j.result = "success"
      /\ Read(r, t, f, j) /\ ReadsOnly
  BY <1>4, <1>5, <1>6 DEF NewJob
<1>8. PICK c \in ChargeIds :
         LET read == [j EXCEPT !.charge = c, !.flow = f, !.otp = charges[c].otp]
         IN  /\ read \in Job
             /\ HoldsRow(read)
             /\ work' = [work EXCEPT ![r] = read]
             /\ RowRead(t, f, c)
  BY <1>7, ReadStep
<1> DEFINE read == [j EXCEPT !.charge = c, !.flow = f, !.otp = charges[c].otp]
<1>9. /\ read.pc = "checkotp" /\ read.tx = t /\ read.log = k /\ read.result = "success"
      /\ read.flow = OtpFlow /\ read.charge = c /\ read.otp = charges[c].otp
  BY <1>6, <1>7 DEF Job
<1>10. read \in Job /\ HoldsRow(read) /\ work' = [work EXCEPT ![r] = read]
  BY <1>8
<1> HIDE DEF read
<1>11. JobOK(read)
  BY <1>1, <1>2, <1>6, <1>8, <1>9, <1>10 DEF JobOK, ReadOtp, RowRead
<1>12. UNCHANGED <<table, sweep, aged>>
  BY <1>4 DEF ReadsOnly
<1> QED
  BY <1>1, <1>10, <1>11, <1>12, JobStep

\* A goroutine that is not idle has a job, and the job is in order.
LEMMA Busy ==
    ASSUME IndInv, NEW r \in Workers, work[r] # Idle
    PROVE  work[r] \in Job /\ JobOK(work[r])
BY DEF IndInv, TypeOK, JobsOK

LEMMA CheckOTPStep ==
    ASSUME IndInv, NEW r \in Workers, CheckOTP(r)
    PROVE  IndInv'
<1>1. work[r].pc = "checkotp" /\ work[r] # Idle
  BY DEF CheckOTP, Idle
<1>2. PICK w \in Job : w = work[r] /\ JobOK(w)
  BY <1>1, Busy
<1>3. HoldsRow(w) /\ w.result = "success" /\ ReadOtp(w) /\ w.otp <= issued[w.tx]
      /\ status[w.tx] # "none" /\ w.log <= issued[w.tx] /\ w.log > 0
  BY <1>1, <1>2 DEF JobOK
<1>4. w.log = issued[w.tx] /\ ReadsOnly
  BY <1>2 DEF CheckOTP
<1>5. issued[w.tx] \in Nat /\ faults' \in Nat /\ w.otp \in Nat
  BY <1>4 DEF IndInv, TypeOK, ReadsOnly, Job
<1>6. CASE charges[w.charge].chan = "mobile_money"
  <2> DEFINE job == [w EXCEPT !.pc = "advance", !.next = "pay_offline"]
  <2>1. job \in Job
    BY DEF Job, Steps, Flows
  <2>2. /\ job.pc = "advance" /\ job.next = "pay_offline" /\ job.tx = w.tx
        /\ job.log = w.log /\ job.otp = w.otp /\ job.result = w.result
        /\ job.charge = w.charge /\ job.flow = w.flow
    BY DEF Job
  <2>3. work' = [work EXCEPT ![r] = job]
    BY <1>2, <1>6 DEF CheckOTP, Goto
  <2> HIDE DEF job
  <2>4. JobOK(job)
    BY <1>3, <1>4, <1>5, <2>2 DEF JobOK, HoldsRow, ReadOtp, Still
  <2> QED
    BY <1>4, <1>5, <2>1, <2>3, <2>4, JobStep DEF ReadsOnly
<1>7. CASE charges[w.charge].chan # "mobile_money"
  <2> DEFINE job == [w EXCEPT !.pc = "finalize", !.otp = 0]
  <2>1. job \in Job
    BY DEF Job, Steps
  <2>2. /\ job.pc = "finalize" /\ job.tx = w.tx
        /\ job.log = w.log /\ job.result = w.result /\ job.charge = w.charge
    BY DEF Job
  <2>3. work' = [work EXCEPT ![r] = job]
    BY <1>2, <1>7 DEF CheckOTP, Goto
  <2> HIDE DEF job
  <2>4. JobOK(job)
    BY <1>3, <1>4, <1>5, <2>2 DEF JobOK, HoldsRow, Outcomes
  <2> QED
    BY <1>4, <1>5, <2>1, <2>3, <2>4, JobStep DEF ReadsOnly
<1> QED
  BY <1>6, <1>7

LEMMA RefuseOTPStep ==
    ASSUME IndInv, NEW r \in Workers, RefuseOTP(r)
    PROVE  IndInv'
<1>1. faults' \in Nat
  BY DEF IndInv, TypeOK, RefuseOTP, ReadsOnly
<1> QED
  BY <1>1, JobStep DEF RefuseOTP, Return, ReadsOnly

LEMMA RequestErrorStep ==
    ASSUME IndInv, NEW r \in Workers, RequestError(r)
    PROVE  IndInv'
<1>1. faults \in Nat
  BY DEF IndInv, TypeOK
<1>2. faults' \in Nat
  BY <1>1 DEF RequestError, Fault
<1> QED
  BY <1>2, JobStep DEF RequestError, Return

LEMMA RefundStep ==
    ASSUME IndInv, NEW r \in Workers, NEW t \in Txs, Refund(r, t)
    PROVE  IndInv'
<1> DEFINE job == NewJob("reverse", t, "reversed")
<1>1. job \in Job /\ job.tx = t /\ job.log = 0 /\ job.pc = "reverse" /\ job.result = "reversed"
  BY DEF NewJob, Job, Steps, TxStatuses
<1>2. issued[t] \in Nat /\ faults' \in Nat
  BY DEF IndInv, TypeOK, Refund, ReadsOnly
<1>3. work' = [work EXCEPT ![r] = job] /\ ReadsOnly /\ status[t] = "success"
  BY DEF Refund, Begin
<1> HIDE DEF job
<1>4. JobOK(job)
  BY <1>1, <1>2, <1>3 DEF JobOK
<1> QED
  BY <1>1, <1>2, <1>3, <1>4, JobStep DEF ReadsOnly

LEMMA ForceOutcomeStep ==
    ASSUME IndInv, NEW r \in Workers, NEW t \in Txs, NEW o, ForceOutcome(r, t, o)
    PROVE  IndInv'
<1> DEFINE job == NewJob("force", t, o)
<1>1. o \in Outcomes
  BY DEF ForceOutcome
<1>2. job \in Job /\ job.tx = t /\ job.log = 0 /\ job.pc = "force" /\ job.result = o
  BY <1>1 DEF NewJob, Job, Steps, TxStatuses
<1>3. issued[t] \in Nat /\ faults' \in Nat
  BY DEF IndInv, TypeOK, ForceOutcome, ReadsOnly
<1>4. work' = [work EXCEPT ![r] = job] /\ ReadsOnly /\ status[t] = "pending"
  BY DEF ForceOutcome, Begin
<1> HIDE DEF job
<1>5. JobOK(job)
  BY <1>1, <1>2, <1>3, <1>4 DEF JobOK
<1> QED
  BY <1>2, <1>3, <1>4, <1>5, JobStep DEF ReadsOnly

\* The steps that touch neither the table nor a job, or drop jobs: time, the
\* selection and the errors of the expiry worker, and restarts.
LEMMA QuietStep ==
    ASSUME IndInv, UNCHANGED table,
           work' = work \/ work' = [r \in Workers |-> Idle],
           stale' \subseteq stale \cup {t \in Txs : status[t] # "none"},
           half' \subseteq half, lapsed' = lapsed, aged' \subseteq Txs, faults' \in Nat
    PROVE  IndInv'
<1> USE DEF table
<1>1. TypeOK'
  BY DEF IndInv, TypeOK
<1>2. RowsOK' /\ PairsOK' /\ EventsOK'
  BY DEF IndInv, RowsOK, RowOK, PairsOK, EventsOK, EventOK
<1>3. TxsOK'
  BY DEF IndInv, TxsOK, TxOK
<1>4. JobsOK'
  BY DEF IndInv, JobsOK, JobOK, HoldsRow, ReadOtp, Still
<1> QED
  BY <1>1, <1>2, <1>3, <1>4 DEF IndInv

LEMMA SweepAndFaultSteps ==
    ASSUME IndInv,
           \/ SelectStale
           \/ \E t \in Txs : Age(t) \/ SweepError(t)
           \/ Crash \/ Shutdown
    PROVE  IndInv'
<1>1. faults \in Nat /\ aged \subseteq Txs
  BY DEF IndInv, TypeOK
<1>2. CASE SelectStale
  BY <1>1, <1>2, QuietStep DEF SelectStale, Expired
<1>3. ASSUME NEW t \in Txs, Age(t) PROVE IndInv'
  BY <1>1, <1>3, QuietStep DEF Age, sweep
<1>4. ASSUME NEW t \in Txs, SweepError(t) PROVE IndInv'
  BY <1>1, <1>4, QuietStep DEF SweepError, Fault
<1>5. CASE Crash
  BY <1>1, <1>5, QuietStep DEF Crash, Restart, Fault
<1>6. CASE Shutdown
  BY <1>1, <1>6, QuietStep DEF Shutdown, Restart, Fault
<1> QED
  BY <1>2, <1>3, <1>4, <1>5, <1>6

\* A step that issues no OTP leaves the counters where they are.
LEMMA NothingIssued ==
    ASSUME TypeOK, issued' = issued
    PROVE  \A u \in Txs : issued[u] <= issued'[u]
<1> SUFFICES ASSUME NEW u \in Txs PROVE issued[u] <= issued'[u]
  OBVIOUS
<1>1. issued[u] \in Nat
  BY DEF TypeOK
<1> QED
  BY <1>1

LEMMA InitializeStep ==
    ASSUME IndInv, NEW t \in Txs, NEW ch, Initialize(t, ch)
    PROVE  IndInv'
<1> USE DEF Initialize
<1>1. TypeOK'
  BY DEF IndInv, TypeOK, Channels, TxStatuses, sweep
<1>2. RowsOK'
  BY DEF IndInv, TypeOK, RowsOK, RowOK, Charge
<1>3. PairsOK' /\ TxsOK' /\ EventsOK'
  BY DEF IndInv, TypeOK, PairsOK, TxsOK, TxOK, EventsOK, EventOK, sweep
<1>4. Grows
  <2>1. \A u \in Txs : issued[u] <= issued'[u]
    BY NothingIssued DEF IndInv
  <2> QED
    BY <2>1 DEF IndInv, TypeOK, Grows, sweep
<1>5. JobsOK'
  <2> SUFFICES ASSUME NEW q \in Workers, work'[q] # Idle
               PROVE  JobOK(work[q])'
    BY DEF JobsOK
  <2>1. PICK w \in Job : w = work[q] /\ JobOK(w)
    BY Busy
  <2>2. JobOK(w)'
    BY <1>1, <1>4, <2>1, JobKept DEF IndInv
  <2> QED
    BY <2>1, <2>2 DEF JobOK, HoldsRow, ReadOtp, Still
<1> QED
  BY <1>1, <1>2, <1>3, <1>5 DEF IndInv

LEMMA StartChargeStep ==
    ASSUME IndInv, NEW r \in Workers, NEW t \in Txs, NEW ch, NEW f, NEW o,
           StartCharge(r, t, ch, f, o)
    PROVE  IndInv'
<1> DEFINE job == [NewJob("create", t, o) EXCEPT
                      !.chan = ch, !.seen = channel[t], !.flow = f]
<1>1. <<ch, f>> \in StartFlows /\ o \in Outcomes
  BY KindAssumption DEF StartCharge
<1>2. ch \in Channels /\ f \in Flows /\ channel[t] \in Channels \cup {""}
  BY <1>1 DEF StartFlows, Channels, Flows, IndInv, TypeOK
<1>3. PICK n \in Job : n = NewJob("create", t, o)
  BY <1>1 DEF NewJob, Job, Steps, TxStatuses
<1>4. PICK j \in Job : j = job
  BY <1>2, <1>3 DEF Job
<1>5. /\ j.pc = "create" /\ j.tx = t /\ j.log = 0 /\ j.result = o
      /\ j.chan = ch /\ j.flow = f
  BY <1>4 DEF NewJob
<1>6. work' = [work EXCEPT ![r] = j]
  BY <1>4 DEF StartCharge, Begin
<1> HIDE DEF job
<1>7. TypeOK'
  <2>1. work' \in [Workers -> Job \cup {Idle}]
    BY <1>4, <1>6 DEF IndInv, TypeOK
  <2>2. status' \in [Txs -> TxStatuses \cup {"none"}]
    BY DEF IndInv, TypeOK, StartCharge, TxStatuses
  <2> QED
    BY <2>1, <2>2 DEF IndInv, TypeOK, StartCharge, sweep
<1>8. RowsOK'
  BY DEF IndInv, TypeOK, RowsOK, RowOK, Charge, StartCharge
<1>9. PairsOK' /\ TxsOK' /\ EventsOK'
  BY DEF IndInv, TypeOK, PairsOK, TxsOK, TxOK, EventsOK, EventOK, StartCharge, sweep
<1>10. \A u \in Txs : issued[u] \in Nat /\ issued' = issued
  BY DEF IndInv, TypeOK, StartCharge
<1>11. Grows
  <2>1. \A u \in Txs : issued[u] <= issued'[u]
    BY <1>10, NothingIssued DEF IndInv
  <2> QED
    BY <2>1 DEF IndInv, TypeOK, Grows, StartCharge, sweep
<1>12. status'[t] = "pending"
  BY DEF StartCharge, IndInv, TypeOK
<1>13. JobOK(j)'
  BY <1>1, <1>5, <1>10, <1>12 DEF JobOK
<1>14. JobsOK'
  BY <1>6, <1>7, <1>11, <1>13, JobsKept DEF IndInv
<1> QED
  BY <1>7, <1>8, <1>9, <1>14 DEF IndInv

\* A handler that gives up changes its own job only.
LEMMA ReturnStep ==
    ASSUME IndInv, NEW r \in Workers, Return(r),
           UNCHANGED <<table, sweep, aged, faults>>
    PROVE  IndInv'
<1>1. faults' \in Nat
  BY DEF IndInv, TypeOK
<1> QED
  BY <1>1, JobStep DEF Return

LEMMA CreateChargeStep ==
    ASSUME IndInv, NEW r \in Workers, CreateCharge(r)
    PROVE  IndInv'
<1>1. work[r].pc = "create" /\ work[r] # Idle
  <2>1. work[r].pc = "create"
    BY DEF CreateCharge, Creates, Asks, NewCharge
  <2> QED
    BY <2>1 DEF Idle
<1>2. PICK w \in Job : w = work[r] /\ JobOK(w)
  BY <1>1, Busy
<1> DEFINE t    == w.tx
           asks == w.flow = OtpFlow /\ w.result = "success"
<1>3. t \in Txs /\ w.pc = "create" /\ status[t] # "none" /\ w.log <= issued[t]
      /\ w.chan \in Channels /\ w.flow \in Flows /\ w.result \in Outcomes
      /\ w.log \in Nat
  BY <1>1, <1>2 DEF JobOK, Job, StartFlows, Channels, Flows
<1>4. issued \in [Txs -> Nat] /\ issued[t] \in Nat
  BY <1>3 DEF IndInv, TypeOK
<1>5. CASE UNCHANGED <<charges, issued>> /\ Return(r)
  BY <1>5, ReturnStep DEF CreateCharge, Creates, Asks, NewCharge, table
<1>6. CASE /\ PendingRows(t) = {}
           /\ \E c \in FreeIds :
                /\ charges' = [charges EXCEPT ![c] =
                     [tx |-> t, chan |-> w.chan, status |-> "pending",
                      flow |-> w.flow, otp |-> IF asks THEN issued[t] + 1 ELSE 0,
                      sampled |-> w.result]]
                /\ issued' = [issued EXCEPT ![t] = IF asks THEN @ + 1 ELSE @]
                /\ Goto(r, [w EXCEPT !.pc = "channel", !.charge = c])
  <2>1. PICK c \in FreeIds :
          /\ charges' = [charges EXCEPT ![c] =
               [tx |-> t, chan |-> w.chan, status |-> "pending",
                flow |-> w.flow, otp |-> IF asks THEN issued[t] + 1 ELSE 0,
                sampled |-> w.result]]
          /\ issued' = [issued EXCEPT ![t] = IF asks THEN @ + 1 ELSE @]
          /\ Goto(r, [w EXCEPT !.pc = "channel", !.charge = c])
    BY <1>6
  <2>2. c \in ChargeIds /\ charges[c] = NoRow /\ c \in Nat
    BY ChargeIdAssumption DEF FreeIds
  <2>3. UNCHANGED <<status, paid, channel, used, events, sweep, aged, faults>>
    BY DEF CreateCharge, Creates, Asks, NewCharge
  <2>4. PICK row \in Charge :
          /\ row.tx = t /\ row.status = "pending" /\ row.flow = w.flow
          /\ row.sampled = w.result
          /\ row.otp = IF asks THEN issued[t] + 1 ELSE 0
          /\ charges' = [charges EXCEPT ![c] = row]
    <3> DEFINE row == [tx |-> t, chan |-> w.chan, status |-> "pending",
                flow |-> w.flow, otp |-> IF asks THEN issued[t] + 1 ELSE 0,
                sampled |-> w.result]
    <3>1. row \in Charge
      BY <1>3, <1>4 DEF Charge
    <3> QED
      BY <2>1, <3>1
  <2>5. PICK job \in Job :
          /\ job.tx = t /\ job.charge = c /\ job.pc = "channel" /\ job.log = w.log
          /\ job.result = w.result /\ job.chan = w.chan
          /\ work' = [work EXCEPT ![r] = job]
    <3> DEFINE job == [w EXCEPT !.pc = "channel", !.charge = c]
    <3>1. job \in Job
      BY <2>2 DEF Job, Steps
    <3>2. /\ job.tx = t /\ job.charge = c /\ job.pc = "channel" /\ job.log = w.log
          /\ job.result = w.result /\ job.chan = w.chan
      BY DEF Job
    <3> QED
      BY <2>1, <3>1, <3>2 DEF Goto
  <2>6. /\ issued' \in [Txs -> Nat]
        /\ issued'[t] = IF asks THEN issued[t] + 1 ELSE issued[t]
        /\ \A u \in Txs : u # t => issued'[u] = issued[u]
        /\ \A u \in Txs : issued[u] <= issued'[u]
    BY <1>3, <1>4, <2>1
  <2>7. charges' \in [ChargeIds -> Charge \cup {NoRow}] /\ charges'[c] = row
        /\ \A d \in ChargeIds : d # c => charges'[d] = charges[d]
    BY <2>2, <2>4 DEF IndInv, TypeOK
  <2>8. row # NoRow
    BY <2>4 DEF NoRow
  <2>9. TypeOK'
    BY <2>3, <2>5, <2>6, <2>7 DEF IndInv, TypeOK, sweep
  <2>10. Grows
    BY <2>2, <2>3, <2>6, <2>7 DEF IndInv, TypeOK, Grows, sweep
  <2>11. ASSUME NEW d \in ChargeIds, charges'[d] # NoRow
         PROVE  RowOK(d)'
    <3>1. CASE d = c
      <4>1. charges'[d] = row /\ status' = status /\ used' = used /\ row.tx \in Txs
        BY <2>3, <2>4, <2>7, <3>1, <1>3
      <4>2. issued[t] + 1 \notin used[t]
        BY <1>3, <1>4 DEF IndInv, TxsOK, TxOK
      <4>3. row.otp <= issued'[t]
        BY <1>4, <2>4, <2>6
      <4>4. row.flow = OtpFlow =>
               \/ row.otp = issued'[t] /\ issued'[t] \notin used[t] /\ issued'[t] > 0
               \/ row.otp = 0 /\ row.sampled # "success"
        BY <1>4, <2>4, <2>6, <4>2
      <4> QED
        BY <1>3, <2>4, <4>1, <4>3, <4>4 DEF RowOK
    <3>2. CASE d # c
      <4>0. charges'[d] = charges[d] /\ charges[d] # NoRow
        BY <2>7, <2>11, <3>2
      <4>1. charges'[d] = charges[d] /\ charges[d] # NoRow /\ RowOK(d)
            /\ charges[d] \in Charge
        BY <4>0 DEF IndInv, RowsOK, TypeOK
      <4>2. charges[d].tx \in Txs /\ charges[d].otp \in Nat
            /\ issued[charges[d].tx] \in Nat /\ issued'[charges[d].tx] \in Nat
        BY <1>4, <2>6, <4>1 DEF Charge
      <4>3. charges[d].otp <= issued[charges[d].tx]
            /\ issued[charges[d].tx] <= issued'[charges[d].tx]
        BY <2>6, <4>1, <4>2 DEF RowOK
      <4>4. charges[d].otp <= issued'[charges[d].tx]
        BY <4>2, <4>3
      <4>5. charges[d].status = "pending" => charges[d].tx # t
        BY <1>6, <4>1 DEF PendingRows, Rows
      <4>6. charges[d].status = "pending" =>
               issued'[charges[d].tx] = issued[charges[d].tx]
        BY <2>6, <4>2, <4>5
      <4>7. charges[d].status = "pending" /\ charges[d].flow = OtpFlow =>
               \/ /\ charges[d].otp = issued'[charges[d].tx]
                  /\ issued'[charges[d].tx] \notin used[charges[d].tx]
                  /\ issued'[charges[d].tx] > 0
               \/ charges[d].otp = 0 /\ charges[d].sampled # "success"
        BY <4>1, <4>6 DEF RowOK
      <4> QED
        BY <2>3, <4>1, <4>4, <4>7 DEF RowOK
    <3> QED
      BY <3>1, <3>2
  <2>12. RowsOK'
    BY <2>11 DEF RowsOK
  <2>13. PairsOK'
    <3>1. \A d \in ChargeIds : charges[d] # NoRow /\ charges[d].tx = t
             => charges[d].status # "pending"
      BY <1>6 DEF PendingRows, Rows
    <3> QED
      BY <2>4, <2>7, <3>1 DEF IndInv, PairsOK
  <2>14. TxsOK'
    <3> SUFFICES ASSUME NEW u \in Txs PROVE TxOK(u)'
      BY DEF TxsOK
    <3>1. TxOK(u) /\ issued[u] \in Nat /\ issued'[u] \in Nat /\ used[u] \subseteq Nat
      BY <1>4, <2>6 DEF IndInv, TxsOK, TypeOK
    <3>2. \A k \in used[u] : 1 <= k /\ k <= issued'[u]
      BY <2>6, <3>1 DEF TxOK
    <3> QED
      BY <2>3, <3>1, <3>2 DEF TxOK, sweep
  <2>15. EventsOK'
    BY <2>3, <2>9, <2>10, EventsKept DEF IndInv
  <2>16. JobOK(job)'
    <3>1. job.log <= issued'[t]
      BY <1>3, <1>4, <2>5, <2>6
    <3>2. HoldsRow(job)'
      BY <2>2, <2>4, <2>5, <2>7, <2>8 DEF HoldsRow
    <3> QED
      BY <1>3, <2>3, <2>5, <3>1, <3>2 DEF JobOK
  <2>17. JobsOK'
    BY <2>5, <2>9, <2>10, <2>16, JobsKept DEF IndInv
  <2> QED
    BY <2>9, <2>12, <2>13, <2>14, <2>15, <2>17 DEF IndInv
<1> QED
  BY <1>1, <1>2, <1>5, <1>6 DEF CreateCharge, Creates, Asks, NewCharge

\* The part of a step's proof that does not depend on the step: jobs and events
\* follow from Grows.
LEMMA TableStep ==
    ASSUME IndInv, TypeOK', Grows, RowsOK', PairsOK', TxsOK', events' = events,
           NEW r \in Workers, NEW job, work' = [work EXCEPT ![r] = job],
           job # Idle => JobOK(job)'
    PROVE  IndInv'
<1>1. EventsOK'
  BY EventsKept DEF IndInv
<1>2. JobsOK'
  BY JobsKept DEF IndInv
<1> QED
  BY <1>1, <1>2 DEF IndInv

LEMMA SweepTableStep ==
    ASSUME IndInv, TypeOK', Grows, RowsOK', PairsOK', TxsOK', events' = events,
           work' = work
    PROVE  IndInv'
<1>1. EventsOK'
  BY EventsKept DEF IndInv
<1>2. JobsOK'
  <2> SUFFICES ASSUME NEW q \in Workers, work'[q] # Idle
               PROVE  JobOK(work[q])'
    BY DEF JobsOK
  <2>1. PICK w \in Job : w = work[q] /\ JobOK(w)
    BY Busy
  <2>2. JobOK(w)'
    BY <2>1, JobKept DEF IndInv
  <2> QED
    BY <2>1, <2>2 DEF JobOK, HoldsRow, ReadOtp, Still
<1> QED
  BY <1>1, <1>2 DEF IndInv

\* The job that follows a commit.
LEMMA AnnounceJob ==
    ASSUME NEW w \in Job
    PROVE  /\ Announce(w) \in Job
           /\ Announce(w).pc = "dispatch" /\ Announce(w).tx = w.tx
           /\ Announce(w).log = 0 /\ Announce(w).result = w.result
<1>1. w.tx \in Txs /\ w.result \in TxStatuses /\ w.flow \in Flows \cup {""}
  BY DEF Job
<1>2. PICK n \in Job : n = NewJob("dispatch", w.tx, w.result)
  BY <1>1, NewJobType DEF Steps
<1>3. n.pc = "dispatch" /\ n.tx = w.tx /\ n.log = 0 /\ n.result = w.result
  BY <1>2 DEF NewJob
<1>4. PICK f \in Flows \cup {""} : f = IF Background(w) THEN w.flow ELSE ""
  BY <1>1
<1>5. Announce(w) = [n EXCEPT !.flow = f]
  BY <1>2, <1>4 DEF Announce
<1> QED
  BY <1>3, <1>5 DEF Job

LEMMA SetChannelStep ==
    ASSUME IndInv, NEW r \in Workers, SetChannel(r)
    PROVE  IndInv'
<1>1. work[r].pc = "channel" /\ work[r] # Idle
  <2>1. work[r].pc = "channel"
    BY DEF SetChannel, Writes
  <2> QED
    BY <2>1 DEF Idle
<1>2. PICK w \in Job : w = work[r] /\ JobOK(w)
  BY <1>1, Busy
<1>3. HoldsRow(w) /\ w.result \in Outcomes /\ w.chan \in Channels /\ w.tx \in Txs
      /\ status[w.tx] # "none" /\ w.log <= issued[w.tx]
  BY <1>1, <1>2 DEF JobOK, Job
<1>4. UNCHANGED <<status, paid, charges, issued, used, events, sweep, aged, faults>>
  BY DEF SetChannel, Writes
<1>5. channel' \in [Txs -> Channels \cup {""}]
  BY <1>2, <1>3 DEF SetChannel, Writes, IndInv, TypeOK
<1>6. PICK job \in Job \cup {Idle} :
        /\ work' = [work EXCEPT ![r] = job]
        /\ job # Idle => /\ job.pc = "finalize" /\ job.tx = w.tx /\ job.charge = w.charge
                         /\ job.result = w.result /\ job.log = w.log
  <2>1. CASE w.result = "success"
    BY <1>2, <2>1 DEF SetChannel, Writes, Return
  <2>2. CASE w.result # "success"
    <3> DEFINE job == [w EXCEPT !.pc = "finalize", !.chan = "", !.seen = ""]
    <3>1. job \in Job /\ job.pc = "finalize" /\ job.tx = w.tx /\ job.charge = w.charge
          /\ job.result = w.result /\ job.log = w.log
      BY DEF Job, Steps
    <3>2. work' = [work EXCEPT ![r] = job]
      BY <1>2, <2>2 DEF SetChannel, Writes, Goto
    <3> QED
      BY <3>1, <3>2
  <2> QED
    BY <2>1, <2>2
<1>7. TypeOK'
  BY <1>4, <1>5, <1>6 DEF IndInv, TypeOK, sweep
<1>8. RowsOK' /\ PairsOK' /\ TxsOK'
  BY <1>4 DEF IndInv, RowsOK, RowOK, PairsOK, TxsOK, TxOK, sweep
<1>9. Grows
  <2>1. \A u \in Txs : issued[u] <= issued'[u]
    BY <1>4, NothingIssued DEF IndInv
  <2> QED
    BY <1>4, <2>1 DEF Grows, sweep
<1>10. job # Idle => JobOK(job)'
  BY <1>3, <1>4, <1>6 DEF JobOK, HoldsRow
<1> QED
  BY <1>4, <1>6, <1>7, <1>8, <1>9, <1>10, TableStep

LEMMA ReverseStep ==
    ASSUME IndInv, NEW r \in Workers, Reverse(r)
    PROVE  IndInv'
<1>1. work[r].pc = "reverse" /\ work[r] # Idle
  <2>1. work[r].pc = "reverse"
    BY DEF Reverse, Reverses
  <2> QED
    BY <2>1 DEF Idle
<1>2. PICK w \in Job : w = work[r] /\ JobOK(w)
  BY <1>1, Busy
<1> DEFINE t == w.tx
<1>3. w.result = "reversed" /\ t \in Txs
  BY <1>1, <1>2 DEF JobOK, Job
<1>4. CASE status[t] # "success"
  BY <1>2, <1>4, ReturnStep DEF Reverse, Reverses, table
<1>5. CASE status[t] = "success"
  <2>1. /\ status' = [status EXCEPT ![t] = "reversed"]
        /\ work' = [work EXCEPT ![r] = Announce(w)]
        /\ UNCHANGED <<paid, channel, charges, issued, used, events, sweep, aged, faults>>
    BY <1>2, <1>5 DEF Reverse, Reverses, Goto
  <2>2. PICK job \in Job : /\ job = Announce(w)
                           /\ job.pc = "dispatch" /\ job.tx = t /\ job.log = 0
                           /\ job.result = "reversed"
    BY <1>3, AnnounceJob
  <2>3. TypeOK'
    BY <2>1, <2>2 DEF IndInv, TypeOK, TxStatuses, sweep
  <2>4. paid[t]
    BY <1>3, <1>5 DEF IndInv, TxsOK, TxOK
  <2>5. RowsOK'
    BY <1>3, <1>5, <2>1 DEF IndInv, RowsOK, RowOK, TypeOK, Charge
  <2>6. PairsOK'
    BY <2>1 DEF IndInv, PairsOK
  <2>7. TxsOK'
    BY <1>3, <1>5, <2>1, <2>4 DEF IndInv, TxsOK, TxOK, TypeOK, sweep
  <2>8. Grows
    <3>1. \A u \in Txs : issued[u] <= issued'[u]
      BY <2>1, NothingIssued DEF IndInv
    <3> QED
      BY <1>5, <2>1, <2>4, <3>1 DEF Grows, sweep, IndInv, TypeOK
  <2>9. JobOK(job)'
    <3>1. issued'[t] \in Nat /\ status'[t] = "reversed" /\ paid'[t]
      BY <1>3, <2>1, <2>4 DEF IndInv, TypeOK
    <3> QED
      BY <2>2, <3>1 DEF JobOK, Still
  <2> QED
    BY <2>1, <2>2, <2>3, <2>5, <2>6, <2>7, <2>8, <2>9, TableStep
<1> QED
  BY <1>4, <1>5

LEMMA DispatchStep ==
    ASSUME IndInv, NEW r \in Workers, Dispatch(r)
    PROVE  IndInv'
<1>1. work[r].pc = "dispatch" /\ work[r] # Idle
  <2>1. work[r].pc = "dispatch"
    BY DEF Dispatch
  <2> QED
    BY <2>1 DEF Idle
<1>2. PICK w \in Job : w = work[r] /\ JobOK(w)
  BY <1>1, Busy
<1> DEFINE t == w.tx
<1>3. CASE UNCHANGED events
  BY <1>3, ReturnStep DEF Dispatch, table
<1>4. CASE events' = [events EXCEPT ![t] = @ \cup {EventOf(w.result)}]
  <2>1. t \in Txs /\ \/ w.result = "success"  /\ paid[t]
                     \/ w.result = "failed"   /\ ~ paid[t]
                           /\ status[t] \in {"failed", "abandoned"}
                     \/ w.result = "reversed" /\ paid[t]
    BY <1>1, <1>2 DEF JobOK, Job, Still, IndInv, TxsOK, TxOK
  <2>2. UNCHANGED <<status, paid, channel, charges, issued, used, sweep, aged, faults>>
        /\ work' = [work EXCEPT ![r] = Idle]
    BY DEF Dispatch, Return
  <2>3. EventOf(w.result) \in EventTypes
    BY <2>1 DEF EventOf, EventTypes
  <2>4. TypeOK'
    BY <1>4, <2>1, <2>2, <2>3 DEF IndInv, TypeOK, sweep
  <2>5. RowsOK' /\ PairsOK' /\ TxsOK'
    BY <2>2 DEF IndInv, RowsOK, RowOK, PairsOK, TxsOK, TxOK, sweep
  <2>6. EventsOK'
    BY <1>4, <2>1, <2>2 DEF IndInv, EventsOK, EventOK, EventOf, TypeOK
  <2>7. Grows
    <3>1. \A u \in Txs : issued[u] <= issued'[u]
      BY <2>2, NothingIssued DEF IndInv
    <3> QED
      BY <2>2, <3>1 DEF Grows, sweep
  <2>8. JobsOK'
    BY <2>2, <2>4, <2>7, JobsKept DEF IndInv
  <2> QED
    BY <2>4, <2>5, <2>6, <2>8 DEF IndInv
<1> QED
  BY <1>2, <1>3, <1>4 DEF Dispatch

LEMMA ExpireTransactionStep ==
    ASSUME IndInv, NEW t \in Txs, ExpireTransaction(t)
    PROVE  IndInv'
<1> USE DEF ExpireTransaction
<1>1. status[t] # "none"
  BY DEF IndInv, TxsOK, TxOK
<1>2. TypeOK'
  BY DEF IndInv, TypeOK, TxStatuses, Outcomes
<1>3. RowsOK'
  BY DEF IndInv, RowsOK, RowOK, TypeOK, Charge
<1>4. PairsOK'
  BY DEF IndInv, PairsOK
<1>5. TxsOK'
  BY <1>1 DEF IndInv, TxsOK, TxOK, TypeOK
<1>6. Grows
  <2>1. \A u \in Txs : issued[u] <= issued'[u]
    BY NothingIssued DEF IndInv
  <2> QED
    BY <1>1, <2>1 DEF Grows, sweep, IndInv, TypeOK
<1> QED
  BY <1>2, <1>3, <1>4, <1>5, <1>6, SweepTableStep

\* The charges after those of t that were pending have ended as e.
EndedRows(t, e) ==
    /\ charges' \in [ChargeIds -> Charge \cup {NoRow}]
    /\ \A c \in ChargeIds :
         \/ /\ c \notin PendingRows(t)
            /\ charges'[c] = charges[c]
         \/ /\ c \in PendingRows(t)
            /\ charges'[c] # NoRow
            /\ charges'[c].tx = t /\ charges'[c].sampled = charges[c].sampled
            /\ charges'[c].status = e
            /\ charges'[c].flow = e
            /\ charges'[c].otp \in {0, charges[c].otp}

\* Ending the pending charges of t: they become rows of the right shape, their
\* transaction and sampled outcome stay, and no other row changes.
LEMMA EndChargesRows ==
    ASSUME TypeOK, NEW t \in Txs, NEW o \in Outcomes,
           EndCharges(t, o, TRUE) \/ EndCharges(t, o, FALSE)
    PROVE  EndedRows(t, ChargeEnd(o))
<1>1. ASSUME NEW c \in ChargeIds, c \in PendingRows(t)
      PROVE  /\ charges'[c] \in Charge
             /\ charges'[c].tx = t /\ charges'[c].sampled = charges[c].sampled
             /\ charges'[c].status = ChargeEnd(o)
             /\ charges'[c].flow = ChargeEnd(o)
             /\ charges'[c].otp \in {0, charges[c].otp}
  <2>1. charges[c] \in Charge /\ charges[c].tx = t
    BY <1>1 DEF PendingRows, Rows, TypeOK
  <2>2. PICK row \in Charge : row = charges[c]
    BY <2>1
  <2>3. PICK e \in {"success", "failed"} : e = ChargeEnd(o)
    BY DEF ChargeEnd
  <2>4. row.otp \in Nat
    BY DEF Charge
  <2>5. PICK k \in {0, row.otp} :
           charges'[c] = [row EXCEPT !.status = e, !.flow = e, !.otp = k]
    <3>1. CASE EndCharges(t, o, TRUE)
      BY <1>1, <2>2, <2>3, <3>1 DEF EndCharges
    <3>2. CASE EndCharges(t, o, FALSE)
      BY <1>1, <2>2, <2>3, <3>2 DEF EndCharges
    <3> QED
      BY <3>1, <3>2
  <2> DEFINE new == [row EXCEPT !.status = e, !.flow = e, !.otp = k]
  <2>6. /\ new \in Charge /\ new.tx = row.tx /\ new.sampled = row.sampled
        /\ new.status = e /\ new.flow = e /\ new.otp = k
    <3>1. k \in Nat /\ e \in Flows /\ e \in {"pending", "success", "failed"}
      BY <2>4 DEF Flows
    <3> QED
      BY <3>1 DEF Charge
  <2>7. charges'[c] = new
    BY <2>5
  <2> HIDE DEF new
  <2> QED
    BY <2>1, <2>2, <2>3, <2>5, <2>6, <2>7
<1>2. ASSUME NEW c \in ChargeIds, c \notin PendingRows(t)
      PROVE  charges'[c] = charges[c]
  BY <1>2 DEF EndCharges
<1>3. \A c \in ChargeIds : charges'[c] \in Charge \cup {NoRow}
  BY <1>1, <1>2 DEF TypeOK
<1>4. charges' \in [ChargeIds -> Charge \cup {NoRow}]
  BY <1>3 DEF EndCharges
<1>5. \A row \in Charge : row # NoRow
  BY DEF Charge, NoRow
<1> QED
  BY <1>1, <1>2, <1>4, <1>5 DEF EndedRows

LEMMA ExpireChargesStep ==
    ASSUME IndInv, NEW t \in Txs, ExpireCharges(t)
    PROVE  IndInv'
<1>0. EndedRows(t, "failed")
  <2>1. PICK o \in Outcomes : o = "abandoned"
    BY DEF Outcomes
  <2>2. ChargeEnd(o) = "failed"
    BY <2>1 DEF ChargeEnd
  <2>3. EndCharges(t, o, TRUE) /\ TypeOK
    BY <2>1 DEF ExpireCharges, IndInv
  <2> QED
    BY <2>2, <2>3, EndChargesRows
<1>1. /\ charges' \in [ChargeIds -> Charge \cup {NoRow}]
      /\ \A c \in ChargeIds :
           \/ /\ c \notin PendingRows(t)
              /\ charges'[c] = charges[c]
           \/ /\ c \in PendingRows(t)
              /\ charges'[c] # NoRow
              /\ charges'[c].tx = t /\ charges'[c].sampled = charges[c].sampled
              /\ charges'[c].status = "failed"
              /\ charges'[c].flow = "failed"
              /\ charges'[c].otp \in {0, charges[c].otp}
  BY <1>0 DEF EndedRows
<1>2. /\ t \in half /\ half' = {}
      /\ UNCHANGED <<status, paid, channel, issued, used, events, stale, lapsed, work, aged, faults>>
  BY DEF ExpireCharges
<1>3. status[t] \notin {"none", "pending"}
  BY <1>2 DEF IndInv, TxsOK, TxOK
<1>4. TypeOK'
  BY <1>1, <1>2 DEF IndInv, TypeOK
<1>5. RowsOK'
  <2> SUFFICES ASSUME NEW c \in ChargeIds, charges'[c] # NoRow
               PROVE  RowOK(c)'
    BY DEF RowsOK
  <2>1. CASE c \notin PendingRows(t)
    BY <1>1, <1>2, <2>1 DEF IndInv, RowsOK, RowOK
  <2>2. CASE c \in PendingRows(t)
    <3>1. charges[c] # NoRow /\ charges[c].tx = t /\ RowOK(c)
          /\ charges[c] \in Charge
      BY <2>2 DEF PendingRows, Rows, IndInv, RowsOK, TypeOK
    <3>2. charges[c].otp <= issued[t] /\ charges[c].otp \in Nat /\ issued[t] \in Nat
      BY <3>1 DEF RowOK, Charge, IndInv, TypeOK
    <3>3. charges'[c].otp <= issued[t]
      BY <1>1, <2>2, <3>2
    <3> QED
      BY <1>1, <1>2, <1>3, <2>2, <3>3 DEF RowOK, OtpFlow
  <2> QED
    BY <2>1, <2>2
<1>6. PairsOK'
  BY <1>1 DEF IndInv, PairsOK, PendingRows, Rows
<1>7. TxsOK'
  BY <1>2 DEF IndInv, TxsOK, TxOK
<1>8. Grows
  <2>1. \A u \in Txs : issued[u] <= issued'[u]
    BY <1>2, NothingIssued DEF IndInv
  <2> QED
    BY <1>1, <1>2, <2>1 DEF Grows, sweep, PendingRows, Rows
<1> QED
  BY <1>2, <1>4, <1>5, <1>6, <1>7, <1>8, SweepTableStep

\* The job that follows the commit which decided t with outcome o.
LEMMA DecidedJob ==
    ASSUME TypeOK', NEW w \in Job, w.result \in Outcomes, NEW job \in Job \cup {Idle},
           IF w.result = "abandoned" THEN job = Idle ELSE job = Announce(w),
           status'[w.tx] = w.result, paid'[w.tx] <=> w.result = "success"
    PROVE  job # Idle => JobOK(job)'
<1> SUFFICES ASSUME job # Idle PROVE JobOK(job)'
  OBVIOUS
<1>1. /\ job.pc = "dispatch" /\ job.tx = w.tx /\ job.log = 0 /\ job.result = w.result
      /\ w.result \in {"success", "failed"}
  BY AnnounceJob DEF Outcomes
<1>2. issued'[w.tx] \in Nat
  BY DEF TypeOK, Job
<1> QED
  BY <1>1, <1>2 DEF JobOK, Still

LEMMA ForceTerminalStateStep ==
    ASSUME IndInv, NEW r \in Workers, ForceTerminalState(r)
    PROVE  IndInv'
<1>1. work[r].pc = "force" /\ work[r] # Idle
  <2>1. work[r].pc = "force"
    BY DEF ForceTerminalState, Forces
  <2> QED
    BY <2>1 DEF Idle
<1>2. PICK w \in Job : w = work[r] /\ JobOK(w)
  BY <1>1, Busy
<1> DEFINE t == w.tx
<1>3. PICK o \in Outcomes : w.result = o
  BY <1>1, <1>2 DEF JobOK
<1>4. t \in Txs
  BY DEF Job
<1>5. CASE status[t] # "pending"
  BY <1>2, <1>5, ReturnStep DEF ForceTerminalState, Forces, table
<1>7. CASE status[t] = "pending" /\ PendingRows(t) = {}
  <2>1. PICK job : job = [w EXCEPT !.pc = "commit"]
    OBVIOUS
  <2>2. /\ job \in Job /\ job.pc = "commit" /\ job.tx = w.tx /\ job.log = w.log
        /\ job.result = w.result
    BY <2>1 DEF Job, Steps
  <2>3. JobOK(job)
    BY <1>1, <1>2, <2>2 DEF JobOK
  <2>4. work' = [work EXCEPT ![r] = job] /\ UNCHANGED <<table, sweep, aged, faults>>
    BY <1>2, <1>7, <2>1 DEF ForceTerminalState, Forces, Goto, table
  <2>5. faults' \in Nat
    BY <2>4 DEF IndInv, TypeOK
  <2> QED
    BY <2>2, <2>3, <2>4, <2>5, JobStep
<1>6. CASE status[t] = "pending" /\ PendingRows(t) # {}
  <2>1. /\ status' = [status EXCEPT ![t] = o]
        /\ paid' = [paid EXCEPT ![t] = @ \/ o = "success"]
        /\ EndCharges(t, o, FALSE)
        /\ IF o = "abandoned" THEN Return(r) ELSE Goto(r, Announce(w))
        /\ UNCHANGED <<channel, issued, used, events, sweep, aged, faults>>
    BY <1>2, <1>3, <1>6 DEF ForceTerminalState, Forces, Decide
  <2>2. /\ charges' \in [ChargeIds -> Charge \cup {NoRow}]
        /\ \A c \in ChargeIds :
             \/ /\ c \notin PendingRows(t)
                /\ charges'[c] = charges[c]
             \/ /\ c \in PendingRows(t)
                /\ charges'[c] # NoRow
                /\ charges'[c].tx = t /\ charges'[c].sampled = charges[c].sampled
                /\ charges'[c].status = ChargeEnd(o)
                /\ charges'[c].flow = ChargeEnd(o)
                /\ charges'[c].otp \in {0, charges[c].otp}
    <3>1. EndedRows(t, ChargeEnd(o))
      BY <1>4, <2>1, EndChargesRows DEF IndInv
    <3> QED
      BY <3>1 DEF EndedRows
  <2>3. ~ paid[t] /\ paid[t] \in BOOLEAN
    BY <1>4, <1>6 DEF IndInv, TxsOK, TxOK, TypeOK
  <2>4. /\ paid' \in [Txs -> BOOLEAN] /\ (paid'[t] <=> o = "success")
        /\ \A u \in Txs : u # t => paid'[u] = paid[u]
    BY <1>4, <2>1, <2>3 DEF IndInv, TypeOK
  <2>5. /\ status' \in [Txs -> TxStatuses \cup {"none"}] /\ status'[t] = o
        /\ \A u \in Txs : u # t => status'[u] = status[u]
    BY <1>4, <2>1 DEF IndInv, TypeOK, TxStatuses
  <2>6. PICK job \in Job \cup {Idle} :
           /\ IF o = "abandoned" THEN job = Idle ELSE job = Announce(w)
           /\ work' = [work EXCEPT ![r] = job]
    BY <2>1, AnnounceJob DEF Return, Goto
  <2>7. TypeOK'
    BY <2>1, <2>2, <2>4, <2>5, <2>6 DEF IndInv, TypeOK, sweep
  <2>8. job # Idle => JobOK(job)'
    BY <1>3, <2>4, <2>5, <2>6, <2>7, DecidedJob
  <2>9. \A c \in ChargeIds : charges[c] # NoRow /\ charges[c].tx = t
           => c \in PendingRows(t)
    BY <1>6 DEF IndInv, RowsOK, RowOK, PendingRows, Rows
  <2>10. o \in {"success", "failed", "abandoned"} /\ ChargeEnd(o) \in {"success", "failed"}
         /\ (ChargeEnd(o) = "success" <=> o = "success")
    BY DEF Outcomes, ChargeEnd
  <2>11. RowsOK'
    <3> SUFFICES ASSUME NEW c \in ChargeIds, charges'[c] # NoRow
                 PROVE  RowOK(c)'
      BY DEF RowsOK
    <3>1. CASE c \notin PendingRows(t)
      <4>1. charges'[c] = charges[c] /\ RowOK(c) /\ charges[c].tx # t
        BY <2>2, <2>9, <3>1 DEF IndInv, RowsOK
      <4>2. charges[c].tx \in Txs
        BY <4>1 DEF IndInv, TypeOK, Charge
      <4> QED
        BY <2>1, <2>4, <2>5, <4>1, <4>2 DEF RowOK
    <3>2. CASE c \in PendingRows(t)
      <4>1. charges[c] # NoRow /\ charges[c].tx = t /\ RowOK(c)
            /\ charges[c] \in Charge
        BY <3>2 DEF PendingRows, Rows, IndInv, RowsOK, TypeOK
      <4>2. charges[c].otp <= issued[t] /\ charges[c].otp \in Nat /\ issued[t] \in Nat
        BY <4>1 DEF RowOK, Charge, IndInv, TypeOK
      <4>3. charges'[c].otp <= issued'[t]
        BY <2>1, <2>2, <3>2, <4>2
      <4> QED
        BY <2>2, <2>4, <2>5, <2>10, <3>2, <4>3 DEF RowOK, OtpFlow
    <3> QED
      BY <3>1, <3>2
  <2>12. PairsOK'
    <3> SUFFICES ASSUME NEW c \in ChargeIds, NEW d \in ChargeIds,
                        charges'[c] # NoRow, charges'[d] # NoRow,
                        charges'[c].tx = charges'[d].tx,
                        charges'[c].status = charges'[d].status,
                        charges'[c].status \in {"pending", "success"}
                 PROVE  c = d
      BY DEF PairsOK
    <3>1. CASE c \in PendingRows(t) /\ d \in PendingRows(t)
      BY <3>1 DEF PendingRows, Rows, IndInv, PairsOK
    <3>2. CASE c \notin PendingRows(t) /\ d \notin PendingRows(t)
      BY <2>2, <3>2 DEF IndInv, PairsOK
    <3>3. CASE c \in PendingRows(t) /\ d \notin PendingRows(t)
      BY <2>2, <2>9, <3>3
    <3>4. CASE c \notin PendingRows(t) /\ d \in PendingRows(t)
      BY <2>2, <2>9, <3>4
    <3> QED
      BY <3>1, <3>2, <3>3, <3>4
  <2>13. TxsOK'
    BY <1>6, <2>1, <2>4, <2>5, <2>10 DEF IndInv, TxsOK, TxOK, sweep
  <2>14. Grows
    <3>1. \A u \in Txs : issued[u] <= issued'[u]
      BY <2>1, NothingIssued DEF IndInv
    <3>2. \A c \in ChargeIds : charges[c] # NoRow =>
             charges'[c] # NoRow /\ charges'[c].tx = charges[c].tx
             /\ charges'[c].sampled = charges[c].sampled
      BY <2>2 DEF PendingRows, Rows
    <3> QED
      BY <1>6, <2>1, <2>3, <2>4, <2>5, <2>10, <3>1, <3>2 DEF Grows, sweep
  <2> QED
    BY <2>1, <2>6, <2>7, <2>8, <2>11, <2>12, <2>13, <2>14, TableStep
<1> QED
  BY <1>5, <1>6, <1>7

\* The commit of a forced outcome that had found no charge: one inserted since stays
\* as it is.
LEMMA CommitForcedStep ==
    ASSUME IndInv, LocksOK, NEW r \in Workers, CommitForced(r)
    PROVE  IndInv'
<1>1. work[r].pc = "commit" /\ work[r] # Idle
  <2>1. work[r].pc = "commit"
    BY DEF CommitForced
  <2> QED
    BY <2>1 DEF Idle
<1>2. PICK w \in Job : w = work[r] /\ JobOK(w)
  BY <1>1, Busy
<1> DEFINE t == w.tx
<1>3. PICK o \in Outcomes : w.result = o
  BY <1>1, <1>2 DEF JobOK
<1>4. t \in Txs /\ status[t] = "pending"
  BY <1>1, <1>2 DEF Job, LocksOK
<1>5. /\ status' = [status EXCEPT ![t] = o]
      /\ paid' = [paid EXCEPT ![t] = @ \/ o = "success"]
      /\ IF o = "abandoned" THEN Return(r) ELSE Goto(r, Announce(w))
      /\ UNCHANGED <<channel, charges, issued, used, events, sweep, aged, faults>>
  BY <1>2, <1>3 DEF CommitForced, Decide
<1>6. ~ paid[t] /\ paid[t] \in BOOLEAN
  BY <1>4 DEF IndInv, TxsOK, TxOK, TypeOK
<1>7. /\ paid' \in [Txs -> BOOLEAN] /\ (paid'[t] <=> o = "success")
      /\ \A u \in Txs : u # t => paid'[u] = paid[u]
  BY <1>4, <1>5, <1>6 DEF IndInv, TypeOK
<1>8. /\ status' \in [Txs -> TxStatuses \cup {"none"}] /\ status'[t] = o
      /\ \A u \in Txs : u # t => status'[u] = status[u]
  BY <1>4, <1>5 DEF IndInv, TypeOK, TxStatuses
<1>9. PICK job \in Job \cup {Idle} :
         /\ IF o = "abandoned" THEN job = Idle ELSE job = Announce(w)
         /\ work' = [work EXCEPT ![r] = job]
  BY <1>5, AnnounceJob DEF Return, Goto
<1>10. TypeOK'
  BY <1>5, <1>7, <1>8, <1>9 DEF IndInv, TypeOK, sweep
<1>11. job # Idle => JobOK(job)'
  BY <1>3, <1>7, <1>8, <1>9, <1>10, DecidedJob
<1>12. o \in {"success", "failed", "abandoned"}
  BY DEF Outcomes
<1>13. RowsOK'
  <2> SUFFICES ASSUME NEW c \in ChargeIds, charges'[c] # NoRow
               PROVE  RowOK(c)'
    BY DEF RowsOK
  <2>1. charges[c] # NoRow /\ charges'[c] = charges[c] /\ RowOK(c) /\ charges[c] \in Charge
    BY <1>5 DEF IndInv, RowsOK, TypeOK
  <2>2. CASE charges[c].tx = t
    BY <1>4, <1>5, <1>8, <1>12, <2>1, <2>2 DEF RowOK
  <2>3. CASE charges[c].tx # t
    <3>1. charges[c].tx \in Txs
      BY <2>1 DEF Charge
    <3> QED
      BY <1>5, <1>7, <1>8, <2>1, <2>3, <3>1 DEF RowOK
  <2> QED
    BY <2>2, <2>3
<1>14. PairsOK'
  BY <1>5 DEF IndInv, PairsOK
<1>15. TxsOK'
  BY <1>4, <1>5, <1>7, <1>8, <1>12 DEF IndInv, TxsOK, TxOK, sweep
<1>16. Grows
  <2>1. \A u \in Txs : issued[u] <= issued'[u]
    BY <1>5, NothingIssued DEF IndInv
  <2> QED
    BY <1>4, <1>5, <1>6, <1>7, <1>8, <1>12, <2>1 DEF Grows, sweep
<1> QED
  BY <1>5, <1>9, <1>10, <1>11, <1>13, <1>14, <1>15, <1>16, TableStep

\* The charge a job holds is a row of its transaction.
LEMMA HeldRow ==
    ASSUME IndInv, NEW w \in Job, HoldsRow(w)
    PROVE  /\ w.charge \in ChargeIds /\ w.tx \in Txs
           /\ charges[w.charge] \in Charge /\ charges[w.charge] # NoRow
           /\ charges[w.charge].tx = w.tx /\ RowOK(w.charge)
BY DEF HoldsRow, IndInv, TypeOK, RowsOK, Job

LEMMA FinalizeStep ==
    ASSUME IndInv, NEW r \in Workers, Finalize(r)
    PROVE  IndInv'
<1>1. work[r].pc = "finalize" /\ work[r] # Idle
  <2>1. work[r].pc = "finalize"
    BY DEF Finalize
  <2> QED
    BY <2>1 DEF Idle
<1>2. PICK w \in Job : w = work[r] /\ JobOK(w)
  BY <1>1, Busy
<1> DEFINE t == w.tx
           c == w.charge
<1>3. PICK o \in Outcomes : w.result = o
  BY <1>1, <1>2 DEF JobOK
<1>4. HoldsRow(w) /\ w.log <= issued[t] /\ w.log \in Nat
  BY <1>1, <1>2 DEF JobOK, Job
<1>5. /\ c \in ChargeIds /\ t \in Txs /\ charges[c] \in Charge /\ charges[c] # NoRow
      /\ charges[c].tx = t /\ RowOK(c)
  BY <1>4, HeldRow
<1>6. CASE ~ Finalizes(w)
  BY <1>2, <1>6, ReturnStep DEF Finalize, table
<1>7. CASE Finalizes(w)
  <2>1. /\ charges' = [charges EXCEPT ![c].status = ChargeEnd(o),
                                      ![c].flow = ChargeEnd(o), ![c].otp = 0]
        /\ status' = [status EXCEPT ![t] = o]
        /\ paid' = [paid EXCEPT ![t] = @ \/ o = "success"]
        /\ used' = [used EXCEPT ![t] = IF w.log = 0 THEN @ ELSE @ \cup {w.log}]
        /\ IF o = "abandoned" THEN Return(r) ELSE Goto(r, Announce(w))
        /\ UNCHANGED <<channel, issued, events, sweep, aged, faults>>
    BY <1>2, <1>3, <1>7 DEF Finalize
  <2>2. charges[c].status = "pending" /\ status[t] = "pending"
    BY <1>7 DEF Finalizes
  <2>3. o \in {"success", "failed", "abandoned"} /\ ChargeEnd(o) \in {"success", "failed"}
         /\ (ChargeEnd(o) = "success" <=> o = "success")
    BY DEF Outcomes, ChargeEnd
  <2>4. PICK new \in Charge :
           /\ new.tx = t /\ new.sampled = charges[c].sampled /\ new.otp = 0
           /\ new.status = ChargeEnd(o) /\ new.flow = ChargeEnd(o)
           /\ charges' = [charges EXCEPT ![c] = new]
    <3>1. PICK row \in Charge : row = charges[c]
      BY <1>5
    <3>2. PICK e \in {"success", "failed"} : e = ChargeEnd(o)
      BY <2>3
    <3> DEFINE new == [row EXCEPT !.status = e, !.flow = e, !.otp = 0]
    <3>3. /\ new \in Charge /\ new.tx = row.tx /\ new.sampled = row.sampled
          /\ new.status = e /\ new.flow = e /\ new.otp = 0
      BY DEF Charge, Flows
    <3>4. charges' = [charges EXCEPT ![c] = new]
      BY <2>1, <3>1, <3>2
    <3> HIDE DEF new
    <3> QED
      BY <1>5, <3>1, <3>2, <3>3, <3>4
  <2>5. new # NoRow
    BY DEF Charge, NoRow
  <2>6. charges' \in [ChargeIds -> Charge \cup {NoRow}] /\ charges'[c] = new
        /\ \A d \in ChargeIds : d # c => charges'[d] = charges[d]
    BY <1>5, <2>4 DEF IndInv, TypeOK
  <2>7. ~ paid[t] /\ paid[t] \in BOOLEAN
    BY <1>5, <2>2 DEF IndInv, TxsOK, TxOK, TypeOK
  <2>8. /\ paid' \in [Txs -> BOOLEAN] /\ (paid'[t] <=> o = "success")
        /\ \A u \in Txs : u # t => paid'[u] = paid[u]
    BY <1>5, <2>1, <2>7 DEF IndInv, TypeOK
  <2>9. /\ status' \in [Txs -> TxStatuses \cup {"none"}] /\ status'[t] = o
        /\ \A u \in Txs : u # t => status'[u] = status[u]
    BY <1>5, <2>1 DEF IndInv, TypeOK, TxStatuses
  <2>10. /\ used' \in [Txs -> SUBSET Nat]
         /\ used'[t] = IF w.log = 0 THEN used[t] ELSE used[t] \cup {w.log}
         /\ \A u \in Txs : u # t => used'[u] = used[u]
    BY <1>4, <1>5, <2>1 DEF IndInv, TypeOK
  <2>11. PICK job \in Job \cup {Idle} :
           /\ IF o = "abandoned" THEN job = Idle ELSE job = Announce(w)
           /\ work' = [work EXCEPT ![r] = job]
    BY <2>1, AnnounceJob DEF Return, Goto
  <2>12. TypeOK'
    BY <2>1, <2>6, <2>8, <2>9, <2>10, <2>11 DEF IndInv, TypeOK, sweep
  <2>13. job # Idle => JobOK(job)'
    BY <1>3, <2>8, <2>9, <2>11, <2>12, DecidedJob
  <2>14. \A d \in ChargeIds : charges[d] # NoRow /\ charges[d].tx = t => d = c
    BY <1>5, <2>2 DEF IndInv, RowsOK, RowOK, PairsOK
  <2>15. RowsOK'
    <3> SUFFICES ASSUME NEW d \in ChargeIds, charges'[d] # NoRow
                 PROVE  RowOK(d)'
      BY DEF RowsOK
    <3>1. CASE d = c
      <4>1. issued'[t] \in Nat /\ 0 <= issued'[t]
        <5>1. issued'[t] \in Nat
          BY <1>5, <2>12 DEF TypeOK
        <5> QED
          BY <5>1
      <4>2. /\ charges'[d].tx = t /\ charges'[d].otp = 0
            /\ charges'[d].status = ChargeEnd(o) /\ charges'[d].flow = ChargeEnd(o)
        BY <2>4, <2>6, <3>1
      <4>3. status'[t] \notin {"none", "pending"} /\ (ChargeEnd(o) = "success" => paid'[t])
        BY <2>3, <2>8, <2>9
      <4> QED
        BY <2>3, <4>1, <4>2, <4>3 DEF RowOK
    <3>2. CASE d # c
      <4>1. charges'[d] = charges[d] /\ charges[d] # NoRow
        BY <2>6, <3>2
      <4>2. charges[d].tx # t /\ RowOK(d) /\ charges[d].tx \in Txs
        BY <2>14, <3>2, <4>1 DEF IndInv, RowsOK, TypeOK, Charge
      <4>3. PICK u \in Txs : u = charges[d].tx /\ u # t
        BY <4>2
      <4>4. /\ status'[u] = status[u] /\ paid'[u] = paid[u]
            /\ used'[u] = used[u] /\ issued'[u] = issued[u]
        BY <2>1, <2>8, <2>9, <2>10, <4>3
      <4> QED
        BY <4>1, <4>2, <4>3, <4>4 DEF RowOK
    <3> QED
      BY <3>1, <3>2
  <2>16. PairsOK'
    BY <2>4, <2>6, <2>14 DEF IndInv, PairsOK
  <2>17. TxsOK'
    <3> SUFFICES ASSUME NEW u \in Txs PROVE TxOK(u)'
      BY DEF TxsOK
    <3>1. TxOK(u) /\ issued' = issued /\ half' = half /\ stale' = stale /\ lapsed' = lapsed
      BY <2>1 DEF IndInv, TxsOK, sweep
    <3>2. CASE u # t
      BY <2>8, <2>9, <2>10, <3>1, <3>2 DEF TxOK
    <3>3. CASE u = t
      <4>1. \A k \in used'[t] : 1 <= k /\ k <= issued[t]
        BY <1>4, <2>10, <3>1, <3>3 DEF TxOK
      <4> QED
        BY <2>2, <2>3, <2>8, <2>9, <3>1, <3>3, <4>1 DEF TxOK
    <3> QED
      BY <3>2, <3>3
  <2>18. Grows
    <3>1. \A u \in Txs : issued[u] <= issued'[u]
      BY <2>1, NothingIssued DEF IndInv
    <3>2. \A d \in ChargeIds : charges[d] # NoRow =>
             charges'[d] # NoRow /\ charges'[d].tx = charges[d].tx
             /\ charges'[d].sampled = charges[d].sampled
      BY <1>5, <2>4, <2>5, <2>6
    <3> QED
      BY <2>1, <2>2, <2>3, <2>7, <2>8, <2>9, <3>1, <3>2 DEF Grows, sweep
  <2> QED
    BY <2>1, <2>11, <2>12, <2>13, <2>15, <2>16, <2>17, <2>18, TableStep
<1> QED
  BY <1>6, <1>7

LEMMA AdvanceStep ==
    ASSUME IndInv, NEW r \in Workers, Advance(r)
    PROVE  IndInv'
<1>1. work[r].pc = "advance" /\ work[r] # Idle
  <2>1. work[r].pc = "advance"
    BY DEF Advance, Resolver
  <2> QED
    BY <2>1 DEF Idle
<1>2. PICK w \in Job : w = work[r] /\ JobOK(w)
  BY <1>1, Busy
<1> DEFINE t == w.tx
           c == w.charge
           asks == w.next = OtpFlow
<1>3. HoldsRow(w) /\ w.result = "success" /\ w.log <= issued[t] /\ w.log \in Nat
      /\ w.next \in {OtpFlow, "pay_offline"} /\ status[t] # "none"
      /\ (~ asks => w.log > 0)
  BY <1>1, <1>2 DEF JobOK, Job
<1>4. /\ c \in ChargeIds /\ t \in Txs /\ charges[c] \in Charge /\ charges[c] # NoRow
      /\ charges[c].tx = t /\ RowOK(c)
  BY <1>3, HeldRow
<1>5. issued \in [Txs -> Nat] /\ issued[t] \in Nat /\ used \in [Txs -> SUBSET Nat]
  BY <1>4 DEF IndInv, TypeOK
<1>6. CASE ~ Advances(w)
  BY <1>2, <1>6, ReturnStep DEF Advance, Resolver, table
<1>7. CASE Advances(w)
  <2>1. /\ charges' = [charges EXCEPT ![c].flow = w.next,
                                      ![c].otp = IF asks THEN issued[t] + 1 ELSE 0]
        /\ issued' = [issued EXCEPT ![t] = IF asks THEN @ + 1 ELSE @]
        /\ used' = [used EXCEPT ![t] = IF asks THEN @ ELSE @ \cup {w.log}]
        /\ IF asks THEN Return(r)
           ELSE Goto(r, [w EXCEPT !.pc = "finalize", !.flow = "pay_offline",
                                  !.next = "", !.otp = 0, !.log = 0])
        /\ UNCHANGED <<status, paid, channel, events, sweep, aged, faults>>
    BY <1>2, <1>7 DEF Advance, Resolver
  <2>2. charges[c].status = "pending"
    BY <1>7 DEF Advances
  <2>3. PICK new \in Charge :
           /\ new.tx = t /\ new.sampled = charges[c].sampled
           /\ new.otp = (IF asks THEN issued[t] + 1 ELSE 0)
           /\ new.status = "pending" /\ new.flow = w.next
           /\ charges' = [charges EXCEPT ![c] = new]
    <3>1. PICK row \in Charge : row = charges[c]
      BY <1>4
    <3>2. PICK f \in Flows : f = w.next
      BY <1>3 DEF Flows, OtpFlow
    <3>3. PICK k \in Nat : k = IF asks THEN issued[t] + 1 ELSE 0
      BY <1>5
    <3> DEFINE new == [row EXCEPT !.flow = f, !.otp = k]
    <3>4. /\ new \in Charge /\ new.tx = row.tx /\ new.sampled = row.sampled
          /\ new.otp = k /\ new.status = row.status /\ new.flow = f
      BY DEF Charge
    <3>5. charges' = [charges EXCEPT ![c] = new]
      BY <2>1, <3>1, <3>2, <3>3
    <3> HIDE DEF new
    <3> QED
      BY <1>4, <2>2, <3>1, <3>2, <3>3, <3>4, <3>5
  <2>4. new # NoRow
    BY DEF Charge, NoRow
  <2>5. charges' \in [ChargeIds -> Charge \cup {NoRow}] /\ charges'[c] = new
        /\ \A d \in ChargeIds : d # c => charges'[d] = charges[d]
    BY <1>4, <2>3 DEF IndInv, TypeOK
  <2>6. /\ issued' \in [Txs -> Nat]
        /\ issued'[t] = IF asks THEN issued[t] + 1 ELSE issued[t]
        /\ \A u \in Txs : u # t => issued'[u] = issued[u]
        /\ \A u \in Txs : issued[u] <= issued'[u]
    BY <1>4, <1>5, <2>1
  <2>7. /\ used' \in [Txs -> SUBSET Nat]
        /\ used'[t] = IF asks THEN used[t] ELSE used[t] \cup {w.log}
        /\ \A u \in Txs : u # t => used'[u] = used[u]
    BY <1>3, <1>4, <1>5, <2>1
  <2>8. PICK job \in Job \cup {Idle} :
           /\ work' = [work EXCEPT ![r] = job]
           /\ job # Idle => /\ job.pc = "finalize" /\ job.tx = t /\ job.charge = c
                            /\ job.result = "success" /\ job.log = 0
    <3>1. CASE asks
      BY <2>1, <3>1 DEF Return
    <3>2. CASE ~ asks
      <4> DEFINE job == [w EXCEPT !.pc = "finalize", !.flow = "pay_offline",
                                  !.next = "", !.otp = 0, !.log = 0]
      <4>1. job \in Job /\ job.pc = "finalize" /\ job.tx = t /\ job.charge = c
            /\ job.result = w.result /\ job.log = 0
        BY DEF Job, Steps, Flows
      <4>2. work' = [work EXCEPT ![r] = job]
        BY <2>1, <3>2 DEF Goto
      <4> HIDE DEF job
      <4> QED
        BY <1>3, <4>1, <4>2
    <3> QED
      BY <3>1, <3>2
  <2>9. TypeOK'
    BY <2>1, <2>5, <2>6, <2>7, <2>8 DEF IndInv, TypeOK, sweep
  <2>10. \A d \in ChargeIds :
            charges[d] # NoRow /\ charges[d].tx = t /\ charges[d].status = "pending"
            => d = c
    BY <1>4, <2>2 DEF IndInv, PairsOK
  <2>11. issued[t] + 1 \notin used[t]
    BY <1>4, <1>5 DEF IndInv, TxsOK, TxOK
  <2>12. RowsOK'
    <3> SUFFICES ASSUME NEW d \in ChargeIds, charges'[d] # NoRow
                 PROVE  RowOK(d)'
      BY DEF RowsOK
    <3>1. CASE d = c
      <4>1. new.otp <= issued'[t]
        BY <1>5, <2>3, <2>6
      <4>2. new.flow = OtpFlow => /\ new.otp = issued'[t] /\ issued'[t] > 0
                                  /\ issued'[t] \notin used'[t]
        BY <1>5, <2>3, <2>6, <2>7, <2>11
      <4> QED
        BY <1>3, <1>4, <2>1, <2>3, <2>5, <3>1, <4>1, <4>2 DEF RowOK
    <3>2. CASE d # c
      <4>1. charges'[d] = charges[d] /\ charges[d] # NoRow
        BY <2>5, <3>2
      <4>2. RowOK(d) /\ charges[d].tx \in Txs /\ charges[d].otp \in Nat
        BY <4>1 DEF IndInv, RowsOK, TypeOK, Charge
      <4>3. issued[charges[d].tx] \in Nat /\ issued'[charges[d].tx] \in Nat
            /\ issued[charges[d].tx] <= issued'[charges[d].tx]
        BY <1>5, <2>6, <4>2
      <4>4. charges[d].otp <= issued'[charges[d].tx]
        BY <4>2, <4>3 DEF RowOK
      <4>5. charges[d].status = "pending" => charges[d].tx # t
        BY <2>10, <3>2, <4>1
      <4>6. charges[d].status = "pending" =>
               issued'[charges[d].tx] = issued[charges[d].tx]
               /\ used'[charges[d].tx] = used[charges[d].tx]
        BY <2>6, <2>7, <4>2, <4>5
      <4> QED
        BY <2>1, <4>1, <4>2, <4>4, <4>6 DEF RowOK
    <3> QED
      BY <3>1, <3>2
  <2>13. PairsOK'
    BY <1>4, <2>2, <2>3, <2>5 DEF IndInv, PairsOK
  <2>14. TxsOK'
    <3> SUFFICES ASSUME NEW u \in Txs PROVE TxOK(u)'
      BY DEF TxsOK
    <3>1. /\ TxOK(u) /\ half' = half /\ stale' = stale /\ lapsed' = lapsed
          /\ status' = status /\ paid' = paid
      BY <2>1 DEF IndInv, TxsOK, sweep
    <3>2. CASE u # t
      BY <2>6, <2>7, <3>1, <3>2 DEF TxOK
    <3>3. CASE u = t
      <4>1. used[t] \subseteq Nat /\ w.log <= issued'[t] /\ issued'[t] \in Nat
        BY <1>3, <1>4, <1>5, <2>6
      <4>2. \A k \in used[t] : 1 <= k /\ k <= issued'[t]
        BY <1>5, <2>6, <3>1, <3>3, <4>1 DEF TxOK
      <4>3. \A k \in used'[t] : 1 <= k /\ k <= issued'[t]
        BY <1>3, <2>7, <4>1, <4>2
      <4> QED
        BY <3>1, <3>3, <4>3 DEF TxOK
    <3> QED
      BY <3>2, <3>3
  <2>15. Grows
    <3>1. \A d \in ChargeIds : charges[d] # NoRow =>
             charges'[d] # NoRow /\ charges'[d].tx = charges[d].tx
             /\ charges'[d].sampled = charges[d].sampled
      BY <1>4, <2>3, <2>4, <2>5
    <3> QED
      BY <2>1, <2>6, <3>1 DEF Grows, sweep
  <2>16. job # Idle => JobOK(job)'
    <3>1. issued'[t] \in Nat /\ status' = status
      BY <1>4, <2>1, <2>6
    <3>2. job # Idle => HoldsRow(job)'
      BY <1>4, <2>3, <2>4, <2>5, <2>8 DEF HoldsRow
    <3> QED
      BY <1>3, <2>8, <3>1, <3>2 DEF JobOK, Outcomes
  <2> QED
    BY <2>1, <2>8, <2>9, <2>12, <2>13, <2>14, <2>15, <2>16, TableStep
<1> QED
  BY <1>6, <1>7
--------------------------------------------------------------------------------
\* The invariant holds initially.
LEMMA InitIndInv ==
    ASSUME Init
    PROVE  IndInv
<1>1. TypeOK
  BY DEF Init, TypeOK
<1>2. RowsOK /\ PairsOK /\ JobsOK
  BY DEF Init, RowsOK, PairsOK, JobsOK
<1>3. TxsOK /\ EventsOK
  BY DEF Init, TxsOK, TxOK, EventsOK, EventOK
<1> QED
  BY <1>1, <1>2, <1>3 DEF IndInv

\* Every step of the system preserves it, as long as a transaction whose row is locked
\* stays pending.
LEMMA NextIndInv ==
    ASSUME IndInv, LocksOK, Next
    PROVE  IndInv'
<1>1. ASSUME NEW t \in Txs, NEW ch, Initialize(t, ch) PROVE IndInv'
  BY <1>1, InitializeStep
<1>2. ASSUME NEW r \in Workers, Continue(r) PROVE IndInv'
  BY <1>2, CreateChargeStep, SetChannelStep, CheckOTPStep, RefuseOTPStep, AdvanceStep,
     FinalizeStep, ReverseStep, ForceTerminalStateStep, CommitForcedStep, DispatchStep
  DEF Continue
<1>3. ASSUME NEW r \in Workers, NEW t \in Txs, Arrive(r, t) PROVE IndInv'
  BY <1>3, StartChargeStep, SubmitFactorStep, Simulate3DSStep,
     ResendOTPStep, SubmitOTPStep, RefundStep, ForceOutcomeStep DEF Arrive
<1>4. ASSUME NEW r \in Workers, RequestError(r) PROVE IndInv'
  BY <1>4, RequestErrorStep
<1>5. CASE Request
  BY <1>1, <1>2, <1>3, <1>4, <1>5 DEF Request
<1>6. CASE ExpiryWorker
  BY <1>6, SweepAndFaultSteps, ExpireTransactionStep, ExpireChargesStep DEF ExpiryWorker
<1>7. CASE \/ \E t \in Txs : Age(t) \/ SweepError(t)
           \/ Crash \/ Shutdown
  BY <1>7, SweepAndFaultSteps
<1> QED
  BY <1>5, <1>6, <1>7 DEF Next

\* A stuttering step changes nothing the invariant speaks of.
LEMMA StutterIndInv ==
    ASSUME IndInv, UNCHANGED vars
    PROVE  IndInv'
<1>1. faults' \in Nat /\ aged' \subseteq Txs
  BY DEF vars, IndInv, TypeOK
<1> QED
  BY <1>1, QuietStep DEF vars, sweep

\* A goroutine goes on without a lock of its own, and nobody who waits for a commit
\* has lost its transaction.
LEMMA LocksKept ==
    ASSUME IndInv, LocksOK, NEW r \in Workers, NEW job, job.pc # "commit",
           work' = [work EXCEPT ![r] = job],
           \A q \in Workers : q # r /\ work[q].pc = "commit" => status'[work[q].tx] = "pending"
    PROVE  LocksOK'
<1>1. work'[r] = job /\ \A q \in Workers : q # r => work'[q] = work[q]
  BY DEF IndInv, TypeOK
<1> QED
  BY <1>1 DEF LocksOK

\* A goroutine goes on, without a lock, and decides nothing.
LEMMA LocksQuiet ==
    ASSUME IndInv, LocksOK, NEW r \in Workers, NEW job, job.pc # "commit",
           work' = [work EXCEPT ![r] = job], status' = status
    PROVE  LocksOK'
BY LocksKept DEF LocksOK

\* Whoever waits for a commit is at a transaction of the model.
LEMMA LockedTx ==
    ASSUME IndInv, LocksOK, NEW q \in Workers, work[q].pc = "commit"
    PROVE  work[q].tx \in Txs /\ status[work[q].tx] = "pending" /\ Locked(work[q].tx)
<1>1. work[q] # Idle
  BY DEF Idle
<1>2. PICK w \in Job : w = work[q]
  BY <1>1, Busy
<1> QED
  BY <1>2 DEF Job, LocksOK, Locked

\* The status of a transaction that is not locked may change.
LEMMA OthersLocked ==
    ASSUME IndInv, LocksOK, NEW t, NEW s, status' = [status EXCEPT ![t] = s],
           s = "pending" \/ ~ Locked(t), NEW q \in Workers, work[q].pc = "commit"
    PROVE  status'[work[q].tx] = "pending"
<1>1. work[q].tx \in Txs /\ status[work[q].tx] = "pending" /\ Locked(work[q].tx)
  BY LockedTx
<1> QED
  BY <1>1 DEF IndInv, TypeOK

\* A goroutine that is past its commit holds no lock.
LEMMA NoLock ==
    ASSUME NEW w
    PROVE  Idle.pc # "commit" /\ Announce(w).pc # "commit"
BY DEF Idle, Announce, NewJob

\* What the two steps of a forced outcome do: they decide a pending transaction, or
\* leave the tables alone.
ForcedChange(r, w) ==
    \/ /\ status[w.tx] = "pending"
       /\ status' = [status EXCEPT ![w.tx] = w.result]
       /\ paid' = [paid EXCEPT ![w.tx] = @ \/ w.result = "success"]
       /\ IF w.result = "abandoned" THEN Return(r) ELSE Goto(r, Announce(w))
       /\ \/ /\ w.pc = "force" /\ ~ Locked(w.tx)
             /\ EndCharges(w.tx, w.result, FALSE)
          \/ w.pc = "commit" /\ UNCHANGED charges
    \/ /\ UNCHANGED <<charges, status, paid>>
       /\ \/ Return(r)
          \/ /\ w.pc = "force" /\ Forces(w) /\ ~ Locked(w.tx)
             /\ Goto(r, [w EXCEPT !.pc = "commit"])

LEMMA ForcedCases ==
    ASSUME IndInv, LocksOK, NEW r \in Workers, ForceTerminalState(r) \/ CommitForced(r)
    PROVE  \E w \in Job :
             /\ w = work[r] /\ JobOK(w) /\ w.pc \in {"force", "commit"}
             /\ w.tx \in Txs /\ w.result \in Outcomes
             /\ UNCHANGED <<channel, issued, used, events, sweep, aged, faults>>
             /\ ForcedChange(r, w)
<1>1. work[r].pc \in {"force", "commit"} /\ work[r] # Idle
  <2>1. work[r].pc \in {"force", "commit"}
    BY DEF ForceTerminalState, CommitForced
  <2> QED
    BY <2>1 DEF Idle
<1>2. PICK w \in Job : w = work[r] /\ JobOK(w)
  BY <1>1, Busy
<1>3. w.tx \in Txs /\ w.result \in Outcomes
  BY <1>1, <1>2 DEF Job, JobOK
<1>4. CASE ForceTerminalState(r)
  <2>1. w.pc = "force" /\ UNCHANGED <<channel, issued, used, events, sweep, aged, faults>>
    BY <1>2, <1>4 DEF ForceTerminalState
  <2>2. CASE Forces(w) /\ ~ Locked(w.tx) /\ Decide(r) /\ EndCharges(w.tx, w.result, FALSE)
    BY <1>2, <1>3, <2>1, <2>2 DEF Decide, Forces, ForcedChange
  <2>3. CASE Forces(w) /\ ~ Locked(w.tx) /\ Goto(r, [w EXCEPT !.pc = "commit"])
             /\ UNCHANGED <<charges, status, paid>>
    BY <1>2, <1>3, <2>1, <2>3 DEF ForcedChange
  <2>4. CASE Return(r) /\ UNCHANGED <<charges, status, paid>>
    BY <1>2, <1>3, <2>1, <2>4 DEF ForcedChange
  <2> QED
    BY <1>2, <1>4, <2>2, <2>3, <2>4 DEF ForceTerminalState
<1>5. CASE CommitForced(r)
  <2>1. status[w.tx] = "pending" /\ w.pc = "commit"
    BY <1>2, <1>5 DEF CommitForced, LocksOK
  <2> QED
    BY <1>2, <1>3, <1>5, <2>1 DEF CommitForced, Decide, ForcedChange
<1> QED
  BY <1>4, <1>5

\* The steps of a forced outcome: one goroutine at most is between the two.
LEMMA ForcedLocks ==
    ASSUME IndInv, LocksOK, NEW r \in Workers, ForceTerminalState(r) \/ CommitForced(r)
    PROVE  LocksOK'
<1>1. PICK w \in Job :
         /\ w = work[r] /\ w.tx \in Txs
         /\ \/ /\ status' = [status EXCEPT ![w.tx] = w.result]
               /\ w.pc = "commit" \/ ~ Locked(w.tx)
               /\ IF w.result = "abandoned" THEN Return(r) ELSE Goto(r, Announce(w))
            \/ status' = status /\ Return(r)
            \/ /\ Forces(w) /\ ~ Locked(w.tx) /\ status' = status
               /\ Goto(r, [w EXCEPT !.pc = "commit"])
  BY ForcedCases DEF ForcedChange
<1>2. CASE status' = status /\ Return(r)
  BY <1>2, NoLock, LocksQuiet DEF Return
<1>3. CASE /\ Forces(w) /\ ~ Locked(w.tx) /\ status' = status
           /\ Goto(r, [w EXCEPT !.pc = "commit"])
  <2>1. PICK job \in Job : job = [w EXCEPT !.pc = "commit"]
    BY DEF Job, Steps
  <2>2. job.tx = w.tx /\ job.pc = "commit"
    BY <2>1 DEF Job
  <2>3. work'[r] = job /\ \A q \in Workers : q # r => work'[q] = work[q]
    BY <1>3, <2>1 DEF Goto, IndInv, TypeOK
  <2> QED
    BY <1>3, <2>2, <2>3 DEF LocksOK, Locked, Forces
<1>4. CASE /\ status' = [status EXCEPT ![w.tx] = w.result]
           /\ w.pc = "commit" \/ ~ Locked(w.tx)
           /\ IF w.result = "abandoned" THEN Return(r) ELSE Goto(r, Announce(w))
  <2>1. PICK job : job.pc # "commit" /\ work' = [work EXCEPT ![r] = job]
    BY <1>4, NoLock DEF Return, Goto
  <2>2. ASSUME NEW q \in Workers, q # r, work[q].pc = "commit"
        PROVE  status'[work[q].tx] = "pending"
    <3>1. work[q].tx \in Txs /\ status[work[q].tx] = "pending" /\ Locked(work[q].tx)
      BY <2>2, LockedTx
    <3>2. work[q].tx # w.tx
      <4>1. CASE w.pc = "commit"
        BY <1>1, <2>2, <4>1 DEF LocksOK
      <4>2. CASE ~ Locked(w.tx)
        BY <3>1, <4>2
      <4> QED
        BY <1>4, <4>1, <4>2
    <3> QED
      BY <1>4, <3>1, <3>2 DEF IndInv, TypeOK
  <2> QED
    BY <2>1, <2>2, LocksKept
<1> QED
  BY <1>1, <1>2, <1>3, <1>4

\* A running goroutine's step keeps the locks in order.
LEMMA ContinueLocks ==
    ASSUME IndInv, LocksOK, NEW r \in Workers, Continue(r)
    PROVE  LocksOK'
<1> DEFINE Goes(job) == job.pc # "commit" /\ work' = [work EXCEPT ![r] = job]
<1>1. CASE SetChannel(r) \/ CheckOTP(r) \/ CreateCharge(r) \/ Advance(r)
  <2>1. work[r] # Idle
    <3>1. work[r].pc \in {"channel", "checkotp", "create", "advance"}
      BY <1>1, Zenon DEF SetChannel, CheckOTP, CreateCharge, Advance
    <3> QED
      BY <3>1 DEF Idle
  <2>2. PICK w \in Job : w = work[r]
    BY <2>1, Busy
  <2>3. \A c : [w EXCEPT !.pc = "channel", !.charge = c].pc # "commit"
    BY DEF Job
  <2>4. [w EXCEPT !.pc = "finalize", !.chan = "", !.seen = ""].pc # "commit"
    BY DEF Job
  <2>5. /\ [w EXCEPT !.pc = "advance", !.next = "pay_offline"].pc # "commit"
        /\ [w EXCEPT !.pc = "finalize", !.otp = 0].pc # "commit"
    BY DEF Job
  <2>6. Resolver(w).pc # "commit"
    BY DEF Job, Resolver
  <2>7. \E job : Goes(job)
    <3>1. CASE SetChannel(r)
      BY <2>2, <2>4, <3>1, NoLock DEF SetChannel, Goto, Return
    <3>2. CASE CheckOTP(r)
      BY <2>2, <2>5, <3>2, NoLock DEF CheckOTP, Goto, Return
    <3>3. CASE CreateCharge(r)
      BY <2>2, <2>3, <3>3, NoLock DEF CreateCharge, Goto, Return
    <3>4. CASE Advance(r)
      BY <2>2, <2>6, <3>4, NoLock DEF Advance, Goto, Return
    <3> QED
      BY <1>1, <3>1, <3>2, <3>3, <3>4
  <2>8. status' = status
    BY <1>1 DEF SetChannel, CheckOTP, CreateCharge, Advance, ReadsOnly, table
  <2> QED
    BY <2>7, <2>8, LocksQuiet
<1>2. CASE RefuseOTP(r) \/ Dispatch(r)
  BY <1>2, NoLock, LocksQuiet DEF RefuseOTP, Dispatch, Return, ReadsOnly, table
<1>3. CASE Finalize(r) \/ Reverse(r)
  <2>1. work[r] # Idle
    <3>1. work[r].pc \in {"finalize", "reverse"}
      BY <1>3, Zenon DEF Finalize, Reverse
    <3> QED
      BY <3>1 DEF Idle
  <2>2. PICK w \in Job : w = work[r]
    BY <2>1, Busy
  <2>3. PICK job : Goes(job)
    BY <1>3, <2>2, NoLock DEF Finalize, Reverse, Goto, Return
  <2>4. \/ status' = status
        \/ ~ Locked(w.tx) /\ \E s : status' = [status EXCEPT ![w.tx] = s]
    <3>1. CASE Finalize(r)
      BY <2>2, <3>1 DEF Finalize
    <3>2. CASE Reverse(r)
      <4>1. status[w.tx] = "success" => ~ Locked(w.tx)
        BY DEF Locked, LocksOK
      <4> QED
        BY <2>2, <3>2, <4>1 DEF Reverse, Reverses
    <3> QED
      BY <1>3, <3>1, <3>2
  <2> QED
    BY <2>3, <2>4, LocksQuiet, OthersLocked, LocksKept
<1>4. CASE ForceTerminalState(r) \/ CommitForced(r)
  BY <1>4, ForcedLocks
<1> QED
  BY <1>1, <1>2, <1>3, <1>4 DEF Continue

\* A goroutine that begins holds no lock.
LEMMA ArriveLocks ==
    ASSUME IndInv, LocksOK, NEW r \in Workers, NEW t \in Txs, Arrive(r, t)
    PROVE  LocksOK'
<1>1. \E job : job.pc # "commit" /\ work' = [work EXCEPT ![r] = job]
  <2>1. ASSUME NEW pc \in Steps \ {"commit"}, NEW o \in TxStatuses
        PROVE  NewJob(pc, t, o) \in Job /\ NewJob(pc, t, o).pc # "commit"
    <3>1. NewJob(pc, t, o).pc = pc
      BY DEF NewJob
    <3> QED
      BY <3>1, NewJobType
  <2>2. ASSUME NEW job \in Job, job.pc # "commit", NEW a, NEW b, NEW c
        PROVE  /\ [job EXCEPT !.chan = a, !.seen = b, !.flow = c].pc # "commit"
               /\ [job EXCEPT !.charge = a, !.flow = b, !.otp = c].pc # "commit"
    BY <2>2 DEF Job
  <2>3. ASSUME NEW job \in Job, job.pc # "commit", NEW f, Read(r, t, f, job)
        PROVE  \E j : j.pc # "commit" /\ work' = [work EXCEPT ![r] = j]
    <3>1. PICK c : work' = [work EXCEPT ![r] = [job EXCEPT !.charge = c, !.flow = f,
                                                           !.otp = charges[c].otp]]
      BY <2>3 DEF Read, Goto
    <3> DEFINE j == [job EXCEPT !.charge = c, !.flow = f, !.otp = charges[c].otp]
    <3>2. j.pc # "commit"
      BY <2>2, <2>3
    <3> HIDE DEF j
    <3>3. work' = [work EXCEPT ![r] = j]
      BY <3>1 DEF j
    <3> QED
      BY <3>2, <3>3
  <2>4. ASSUME NEW ch, NEW f, NEW o, StartCharge(r, t, ch, f, o)
        PROVE  \E j : j.pc # "commit" /\ work' = [work EXCEPT ![r] = j]
    <3> DEFINE new == NewJob("create", t, o)
               j == [new EXCEPT !.chan = ch, !.seen = channel[t], !.flow = f]
    <3>1. work' = [work EXCEPT ![r] = j] /\ o \in TxStatuses
      BY <2>4 DEF StartCharge, Begin, TxStatuses
    <3>2. new \in Job /\ new.pc # "commit"
      BY <2>1, <3>1 DEF Steps
    <3> HIDE DEF new
    <3>3. j.pc # "commit"
      BY <2>2, <3>2
    <3> HIDE DEF j
    <3> QED
      BY <3>1, <3>3
  <2>5. ASSUME NEW f, SubmitFactor(r, t, f)
        PROVE  \E j : j.pc # "commit" /\ work' = [work EXCEPT ![r] = j]
    <3>1. PICK job \in Job : job.pc # "commit" /\ Read(r, t, f, job)
      BY <2>5 DEF SubmitFactor, NewJob, Job, Steps, TxStatuses, Outcomes, OtpFlow, Flows
    <3> QED
      BY <2>3, <3>1
  <2>6. ASSUME ResendOTP(r, t)
        PROVE  \E j : j.pc # "commit" /\ work' = [work EXCEPT ![r] = j]
    <3>1. PICK job \in Job : job.pc # "commit" /\ Read(r, t, OtpFlow, job)
      BY <2>6 DEF ResendOTP, NewJob, Job, Steps, TxStatuses, Outcomes, OtpFlow, Flows
    <3> QED
      BY <2>3, <3>1
  <2>7. ASSUME Simulate3DS(r, t)
        PROVE  \E j : j.pc # "commit" /\ work' = [work EXCEPT ![r] = j]
    BY <2>1, <2>3, <2>7 DEF Simulate3DS, Steps, TxStatuses, Outcomes
  <2>8. ASSUME NEW k \in 1 .. issued[t], SubmitOTP(r, t, k)
        PROVE  \E j : j.pc # "commit" /\ work' = [work EXCEPT ![r] = j]
    <3>1. issued[t] \in Nat
      BY DEF IndInv, TypeOK
    <3>2. PICK n \in Nat : n = k
      BY <3>1
    <3>3. PICK job \in Job : job.pc # "commit" /\ Read(r, t, OtpFlow, job)
      BY <2>8, <3>2 DEF SubmitOTP, NewJob, Job, Steps, TxStatuses, Outcomes, OtpFlow, Flows
    <3> QED
      BY <2>3, <3>3
  <2>9. ASSUME Refund(r, t)
        PROVE  \E j : j.pc # "commit" /\ work' = [work EXCEPT ![r] = j]
    BY <2>1, <2>9 DEF Refund, Begin, Steps, TxStatuses
  <2>10. ASSUME NEW o, ForceOutcome(r, t, o)
         PROVE  \E j : j.pc # "commit" /\ work' = [work EXCEPT ![r] = j]
    BY <2>1, <2>10 DEF ForceOutcome, Begin, Steps, TxStatuses
  <2> QED
    BY <2>4, <2>5, <2>6, <2>7, <2>8, <2>9, <2>10 DEF Arrive
<1>2. status' = status \/ status' = [status EXCEPT ![t] = "pending"]
  BY DEF Arrive, StartCharge, SubmitFactor, Simulate3DS, ResendOTP, SubmitOTP, Refund,
         ForceOutcome, ReadsOnly, table
<1> QED
  BY <1>1, <1>2, LocksQuiet, OthersLocked, LocksKept

\* Every step keeps the locks in order: nobody decides a transaction whose row
\* another has updated and not committed.
LEMMA NextLocksOK ==
    ASSUME IndInv, LocksOK, [Next]_vars
    PROVE  LocksOK'
<1>1. ASSUME NEW t \in Txs, NEW ch, Initialize(t, ch) PROVE LocksOK'
  <2>1. work' = work /\ status' = [status EXCEPT ![t] = "pending"]
    BY <1>1 DEF Initialize
  <2> QED
    BY <2>1, OthersLocked DEF LocksOK
<1>2. ASSUME NEW r \in Workers, RequestError(r) PROVE LocksOK'
  BY <1>2, NoLock, LocksQuiet DEF RequestError, Return, table
<1>3. CASE Request
  BY <1>1, <1>2, <1>3, ContinueLocks, ArriveLocks DEF Request
<1>4. ASSUME NEW t \in Txs, ExpireTransaction(t) PROVE LocksOK'
  <2>1. work' = work /\ status' = [status EXCEPT ![t] = "abandoned"] /\ ~ Locked(t)
    BY <1>4 DEF ExpireTransaction
  <2> QED
    BY <2>1, OthersLocked DEF LocksOK
<1>5. CASE \/ SelectStale \/ \E t \in Txs : ExpireCharges(t) \/ Age(t) \/ SweepError(t)
           \/ UNCHANGED vars
  <2>1. work' = work /\ status' = status
    BY <1>5 DEF SelectStale, ExpireCharges, Age, SweepError, vars, table
  <2> QED
    BY <2>1 DEF LocksOK
<1>6. CASE Crash \/ Shutdown
  <2>1. \A r \in Workers : work'[r] = Idle
    BY <1>6 DEF Crash, Shutdown, Restart
  <2> QED
    BY <2>1, NoLock DEF LocksOK
<1> QED
  BY <1>3, <1>4, <1>5, <1>6 DEF Next, ExpiryWorker

\* In the beginning nobody holds one.
LEMMA InitLocksOK ==
    ASSUME Init
    PROVE  LocksOK
BY NoLock DEF Init, LocksOK

\* For every set of transactions, charges and goroutines: the tables, the jobs and
\* the locks are always in order.
THEOREM Invariance == Spec => [](IndInv /\ LocksOK)
<1>1. Init => IndInv /\ LocksOK
  BY InitIndInv, InitLocksOK
<1>2. IndInv /\ LocksOK /\ [Next]_vars => (IndInv /\ LocksOK)'
  BY NextIndInv, StutterIndInv, NextLocksOK
<1> QED
  BY <1>1, <1>2, PTL DEF Spec
--------------------------------------------------------------------------------
(* The safety properties that TLC checks, for every value of the constants. *)

\* Every row, transaction and job always has the right shape.
THEOREM TypeCorrect == Spec => []TypeOK
<1>1. IndInv => TypeOK
  BY DEF IndInv
<1> QED
  BY <1>1, Invariance, PTL

\* The customer is charged once: of all the charges of a transaction at most one
\* ever ends successful, however requests, force, expiry and faults overlap.
THEOREM ChargedOnce == Spec => []SingleSuccess
<1>1. IndInv => SingleSuccess
  BY DEF IndInv, PairsOK, SingleSuccess, Rows
<1> QED
  BY <1>1, Invariance, PTL

\* A successful charge has been paid for, and a payment is never read as pending
\* or failed afterwards.
THEOREM PaymentsRecorded == Spec => []SuccessIsPaid
<1>1. IndInv => SuccessIsPaid
  BY DEF IndInv, RowsOK, RowOK, TxsOK, TxOK, SuccessIsPaid, Rows
<1> QED
  BY <1>1, Invariance, PTL

\* A pending transaction has at most one charge, which is pending: the lookup
\* by reference of the form steps finds it.
THEOREM LookupUnambiguous == Spec => []OpenTxHasOneCharge
<1>1. IndInv => OpenTxHasOneCharge
  BY DEF IndInv, RowsOK, RowOK, PairsOK, OpenTxHasOneCharge, Rows
<1> QED
  BY <1>1, Invariance, PTL

\* The OTP on a charge is always the newest, unused log of its transaction.
THEOREM OtpTablesAgree == Spec => []OtpInStep
<1>1. IndInv => OtpInStep
  BY DEF IndInv, RowsOK, RowOK, OtpInStep, Rows, PendingRows
<1> QED
  BY <1>1, Invariance, PTL

\* What the merchant is told never contradicts what happened.
THEOREM EventsSupported == Spec => []EventsAgree
<1>1. IndInv => EventsAgree
  BY DEF IndInv, EventsOK, EventOK, EventsAgree
<1> QED
  BY <1>1, Invariance, PTL

--------------------------------------------------------------------------------
(* What holds as long as no fault happens: a charge that is offline has its        *)
(* goroutine, and a transaction the channel of its charge.                         *)

\* A charge that nothing but its goroutine, or the expiry worker, ends; and the
\* goroutine that is about to end it.
Waiting(c) ==
    /\ charges[c] # NoRow
    /\ charges[c].status = "pending" /\ charges[c].flow = "pay_offline"
    /\ status[charges[c].tx] = "pending"

Resolves(w, c) ==
    w # Idle /\ w.pc = "finalize" /\ w.flow = "pay_offline" /\ w.log = 0 /\ w.charge = c

Served == \A c \in ChargeIds : Waiting(c) => \E r \in Workers : Resolves(work[r], c)

\* Goroutines that do not step go on serving their charges.
LEMMA OthersServe ==
    ASSUME Served, NEW r \in Workers,
           \A q \in Workers : q # r => work'[q] = work[q],
           \A c \in ChargeIds : Waiting(c)' =>
               (Waiting(c) /\ ~ Resolves(work[r], c)) \/ Resolves(work'[r], c)
    PROVE  Served'
<1> SUFFICES ASSUME NEW c \in ChargeIds, Waiting(c)'
             PROVE  \E q \in Workers : Resolves(work'[q], c)
  BY DEF Served, Resolves
<1>1. CASE Resolves(work'[r], c)
  BY <1>1
<1>2. CASE ~ Resolves(work'[r], c)
  <2>1. PICK q \in Workers : Resolves(work[q], c) /\ q # r
    BY <1>2 DEF Served
  <2> QED
    BY <2>1
<1> QED
  BY <1>1, <1>2

\* A step of a goroutine that is not resolving a charge, and takes none offline.
LEMMA BystanderServes ==
    ASSUME IndInv, Served, NEW r \in Workers, NEW job, work' = [work EXCEPT ![r] = job],
           work[r] = Idle \/ work[r].pc # "finalize",
           \A c \in ChargeIds : Waiting(c)' => Waiting(c)
    PROVE  Served'
<1>1. \A c : ~ Resolves(work[r], c)
  BY DEF Resolves
<1>2. \A q \in Workers : q # r => work'[q] = work[q]
  BY DEF IndInv, TypeOK
<1> QED
  BY <1>1, <1>2, OthersServe

\* A charge is never put back: only rows of pending transactions wait.
LEMMA NoNewWaiting ==
    ASSUME IndInv, charges' = charges,
           \A t \in Txs : status'[t] = "pending" => status[t] \in {"none", "pending"}
    PROVE  \A c \in ChargeIds : Waiting(c)' => Waiting(c)
<1> SUFFICES ASSUME NEW c \in ChargeIds, Waiting(c)' PROVE Waiting(c)
  OBVIOUS
<1>1. charges[c] # NoRow /\ charges[c] \in Charge /\ RowOK(c)
  BY DEF Waiting, IndInv, TypeOK, RowsOK
<1>2. charges[c].tx \in Txs /\ status[charges[c].tx] # "none"
  BY <1>1 DEF Charge, RowOK
<1> QED
  BY <1>1, <1>2 DEF Waiting

\* Ending the pending charges of a transaction takes none offline.
LEMMA EndingServes ==
    ASSUME IndInv, NEW t, NEW o, NEW k, EndCharges(t, o, k),
           \A u \in Txs : status'[u] = "pending" => status[u] = "pending"
    PROVE  \A c \in ChargeIds : Waiting(c)' => Waiting(c)
<1> SUFFICES ASSUME NEW c \in ChargeIds, Waiting(c)' PROVE Waiting(c)
  OBVIOUS
<1>1. charges[c] # NoRow /\ charges[c] \in Charge
  BY DEF Waiting, IndInv, TypeOK, EndCharges, PendingRows, Rows
<1>2. charges'[c] = charges[c]
  <2>1. SUFFICES ASSUME c \in PendingRows(t) PROVE FALSE
    BY DEF EndCharges
  <2>2. charges'[c].status = ChargeEnd(o)
    BY <1>1, <2>1 DEF EndCharges, Charge
  <2> QED
    BY <2>2 DEF Waiting, ChargeEnd
<1> QED
  BY <1>1, <1>2 DEF Waiting, Charge

\* A new charge starts with a question to the customer, not offline.
LEMMA CreateServes ==
    ASSUME IndInv, Served, NEW r \in Workers, CreateCharge(r)
    PROVE  Served'
<1>1. work[r].pc = "create" /\ work[r] # Idle
  <2>1. work[r].pc = "create"
    BY DEF CreateCharge
  <2> QED
    BY <2>1 DEF Idle
<1>2. PICK w \in Job : w = work[r] /\ JobOK(w)
  BY <1>1, Busy
<1>3. w.flow # "pay_offline"
  BY <1>1, <1>2 DEF JobOK, StartFlows
<1>4. PICK job : work' = [work EXCEPT ![r] = job]
  BY <1>2 DEF CreateCharge, Goto, Return
<1>5. \A c \in ChargeIds : Waiting(c)' => Waiting(c)
  <2>1. CASE charges' = charges
    BY <2>1, NoNewWaiting DEF CreateCharge
  <2>2. CASE charges' # charges
    <3>1. PICK d \in FreeIds : charges' = [charges EXCEPT ![d] = NewCharge(w)]
      BY <1>2, <2>2 DEF CreateCharge
    <3>2. NewCharge(w).flow = w.flow
      BY DEF NewCharge
    <3>3. \A c \in ChargeIds : charges'[c] = charges[c] \/ charges'[c] = NewCharge(w)
      BY <3>1 DEF IndInv, TypeOK
    <3>4. status' = status
      BY DEF CreateCharge
    <3> QED
      BY <1>3, <3>2, <3>3, <3>4 DEF Waiting
  <2> QED
    BY <2>1, <2>2
<1> QED
  BY <1>1, <1>4, <1>5, BystanderServes

\* AdvanceFlow takes a charge offline together with the goroutine it becomes.
LEMMA AdvanceServes ==
    ASSUME IndInv, Served, NEW r \in Workers, Advance(r)
    PROVE  Served'
<1>1. work[r].pc = "advance" /\ work[r] # Idle
  BY DEF Advance, Resolver, Idle
<1>2. PICK w \in Job : w = work[r] /\ JobOK(w)
  BY <1>1, Busy
<1>3. HoldsRow(w) /\ w.next \in {OtpFlow, "pay_offline"}
  BY <1>1, <1>2 DEF JobOK
<1>4. /\ w.charge \in ChargeIds /\ charges[w.charge] \in Charge /\ charges[w.charge] # NoRow
      /\ status' = status
  BY <1>3, HeldRow DEF Advance
<1>5. CASE ~ Advances(w)
  <2>1. work' = [work EXCEPT ![r] = Idle] /\ charges' = charges
    BY <1>2, <1>5 DEF Advance, Return
  <2> QED
    BY <1>1, <1>4, <2>1, NoNewWaiting, BystanderServes
<1>6. CASE Advances(w)
  <2>1. PICK n \in Nat : charges' = [charges EXCEPT ![w.charge].flow = w.next, ![w.charge].otp = n]
    <3>1. issued[w.tx] + 1 \in Nat
      <4>1. issued \in [Txs -> Nat]
        BY DEF IndInv, TypeOK
      <4> QED
        BY <1>3, <4>1, HeldRow
    <3>2. PICK n : /\ n = IF w.next = OtpFlow THEN issued[w.tx] + 1 ELSE 0
                   /\ charges' = [charges EXCEPT ![w.charge].flow = w.next, ![w.charge].otp = n]
      BY <1>2, <1>6, Zenon DEF Advance
    <3>3. n \in Nat
      BY <3>1, <3>2
    <3> QED
      BY <3>2, <3>3
  <2>2. \A c \in ChargeIds : c # w.charge => charges'[c] = charges[c]
    BY <2>1 DEF IndInv, TypeOK
  <2>3. charges'[w.charge].flow = w.next
    BY <1>4, <2>1 DEF IndInv, TypeOK, Charge
  <2>4. CASE w.next = OtpFlow
    <3>1. work' = [work EXCEPT ![r] = Idle]
      BY <1>2, <1>6, <2>4 DEF Advance, Return
    <3>2. \A c \in ChargeIds : Waiting(c)' => Waiting(c)
      BY <1>4, <2>2, <2>3, <2>4 DEF Waiting, OtpFlow
    <3> QED
      BY <1>1, <3>1, <3>2, BystanderServes
  <2>5. CASE w.next = "pay_offline"
    <3>1. work' = [work EXCEPT ![r] = Resolver(w)]
      BY <1>2, <1>6, <2>5 DEF Advance, Goto, OtpFlow
    <3>2. work'[r] = Resolver(w) /\ \A q \in Workers : q # r => work'[q] = work[q]
      BY <3>1 DEF IndInv, TypeOK
    <3>3. Resolves(Resolver(w), w.charge)
      BY DEF Resolves, Resolver, Job, Idle
    <3>4. \A c : ~ Resolves(work[r], c)
      BY <1>1 DEF Resolves
    <3>5. \A c \in ChargeIds : c # w.charge => (Waiting(c)' => Waiting(c))
      BY <1>4, <2>2 DEF Waiting
    <3> QED
      BY <3>2, <3>3, <3>4, <3>5, OthersServe
  <2> QED
    BY <1>3, <2>4, <2>5
<1> QED
  BY <1>5, <1>6

\* Finalize ends the charge its goroutine was to serve: it is refused only if the
\* charge waits no longer.
LEMMA FinalizeServes ==
    ASSUME IndInv, Served, NEW r \in Workers, Finalize(r)
    PROVE  Served'
<1>1. work[r].pc = "finalize" /\ work[r] # Idle
  <2>1. work[r].pc = "finalize"
    BY DEF Finalize
  <2> QED
    BY <2>1 DEF Idle
<1>2. PICK w \in Job : w = work[r] /\ JobOK(w)
  BY <1>1, Busy
<1>3. HoldsRow(w) /\ w.result \in Outcomes
  BY <1>1, <1>2 DEF JobOK
<1>4. /\ w.charge \in ChargeIds /\ charges[w.charge] \in Charge /\ w.tx \in Txs
      /\ charges[w.charge].tx = w.tx
  BY <1>3, HeldRow
<1>5. PICK job : work' = [work EXCEPT ![r] = job]
  BY <1>2 DEF Finalize, Return, Goto
<1>6. \A q \in Workers : q # r => work'[q] = work[q]
  BY <1>5 DEF IndInv, TypeOK
<1>7. CASE ~ Finalizes(w)
  <2>1. charges' = charges /\ status' = status
    BY <1>2, <1>7 DEF Finalize
  <2>2. ASSUME NEW c \in ChargeIds, Waiting(c), Resolves(w, c) PROVE FALSE
    <3>1. 0 \notin used[w.tx]
      BY <1>4 DEF IndInv, TxsOK, TxOK
    <3> QED
      BY <1>4, <1>7, <2>2, <3>1 DEF Finalizes, Waiting, Resolves
  <2>3. \A c \in ChargeIds : Waiting(c)' => Waiting(c)
    BY <2>1, NoNewWaiting
  <2> QED
    BY <1>2, <1>6, <2>2, <2>3, OthersServe
<1>8. CASE Finalizes(w)
  <2>1. PICK e \in {"success", "failed"} :
            charges' = [charges EXCEPT ![w.charge].status = e, ![w.charge].flow = e,
                                       ![w.charge].otp = 0]
    BY <1>2, <1>8 DEF Finalize, ChargeEnd
  <2>2. \A c \in ChargeIds : c # w.charge => charges'[c] = charges[c]
    BY <2>1 DEF IndInv, TypeOK
  <2>3. charges'[w.charge].status = e
    BY <1>4, <2>1 DEF IndInv, TypeOK, Charge
  <2>4. status' = [status EXCEPT ![w.tx] = w.result] /\ w.result # "pending"
    BY <1>2, <1>3, <1>8 DEF Finalize, Outcomes
  <2>5. \A u \in Txs : status'[u] = "pending" => status[u] = "pending"
    BY <1>4, <2>4 DEF IndInv, TypeOK
  <2>6. ASSUME NEW c \in ChargeIds, Waiting(c)'
        PROVE  Waiting(c) /\ ~ Resolves(work[r], c)
    <3>1. c # w.charge /\ charges'[c] = charges[c]
      BY <2>2, <2>3, <2>6 DEF Waiting
    <3>2. charges[c] \in Charge /\ charges[c].tx \in Txs
      <4>1. charges[c] \in Charge
        BY <2>6, <3>1 DEF Waiting, IndInv, TypeOK
      <4> QED
        BY <4>1 DEF Charge
    <3> QED
      BY <1>2, <2>5, <2>6, <3>1, <3>2 DEF Waiting, Resolves
  <2> QED
    BY <1>6, <2>6, OthersServe
<1> QED
  BY <1>7, <1>8

\* As long as no fault happens, every step keeps every waiting charge served.
LEMMA ServedStep ==
    ASSUME IndInv, LocksOK, Served, Next, faults' = faults
    PROVE  Served'
<1>0. ASSUME NEW k PROVE ~ Fault(k)
  <2>1. faults \in Nat
    BY DEF IndInv, TypeOK
  <2>2. faults' # faults + 1
    BY <2>1
  <2> QED
    BY <2>2 DEF Fault
<1>1. ASSUME NEW t \in Txs, NEW ch, Initialize(t, ch) PROVE Served'
  <2>1. \A u \in Txs : status'[u] = "pending" => status[u] \in {"none", "pending"}
    BY <1>1 DEF Initialize, IndInv, TypeOK
  <2>2. charges' = charges /\ work' = work
    BY <1>1 DEF Initialize
  <2> QED
    BY <2>1, <2>2, NoNewWaiting DEF Served
<1>2. ASSUME NEW r \in Workers, NEW t \in Txs, Arrive(r, t) PROVE Served'
  <2>1. PICK job : work[r] = Idle /\ work' = [work EXCEPT ![r] = job]
    <3>1. CASE \E cf \in Kinds, o \in Outcomes : StartCharge(r, t, cf[1], cf[2], o)
      BY <3>1 DEF StartCharge, Begin
    <3>2. CASE \E f \in Factors : SubmitFactor(r, t, f)
      BY <3>2 DEF SubmitFactor, Read, Begin, Goto
    <3>3. CASE Simulate3DS(r, t)
      BY <3>3 DEF Simulate3DS, Read, Begin, Goto
    <3>4. CASE ResendOTP(r, t)
      BY <3>4 DEF ResendOTP, Read, Begin, Goto
    <3>5. CASE \E k \in 1 .. issued[t] : SubmitOTP(r, t, k)
      BY <3>5 DEF SubmitOTP, Read, Begin, Goto
    <3>6. CASE Refund(r, t)
      BY <3>6 DEF Refund, Begin
    <3>7. CASE \E o \in Outcomes : ForceOutcome(r, t, o)
      BY <3>7 DEF ForceOutcome, Begin
    <3> QED
      BY <1>2, <3>1, <3>2, <3>3, <3>4, <3>5, <3>6, <3>7 DEF Arrive
  <2>2. charges' = charges
    BY <1>2 DEF Arrive, StartCharge, SubmitFactor, Simulate3DS, ResendOTP, SubmitOTP,
                Refund, ForceOutcome, ReadsOnly, table
  <2>3. \A u \in Txs : status'[u] = "pending" => status[u] \in {"none", "pending"}
    <3>1. CASE status' = status
      BY <3>1
    <3>2. CASE status' # status
      <4>1. status' = [status EXCEPT ![t] = "pending"] /\ status[t] \in {"none", "pending"}
        BY <1>2, <3>2 DEF Arrive, StartCharge, SubmitFactor, Simulate3DS, ResendOTP,
            SubmitOTP, Refund, ForceOutcome, ReadsOnly, table
      <4> QED
        BY <4>1 DEF IndInv, TypeOK
    <3> QED
      BY <3>1, <3>2
  <2>4. \A c \in ChargeIds : Waiting(c)' => Waiting(c)
    BY <2>2, <2>3, NoNewWaiting
  <2> QED
    BY <2>1, <2>4, BystanderServes
<1>3. ASSUME NEW r \in Workers, Continue(r) PROVE Served'
  <2>1. CASE CreateCharge(r) \/ Advance(r) \/ Finalize(r)
    BY <2>1, CreateServes, AdvanceServes, FinalizeServes
  <2>2. CASE SetChannel(r) \/ CheckOTP(r) \/ RefuseOTP(r) \/ Dispatch(r)
    <3>1. PICK job : work' = [work EXCEPT ![r] = job]
      BY <2>2 DEF SetChannel, CheckOTP, RefuseOTP, Dispatch, Goto, Return
    <3>2. work[r].pc # "finalize"
      BY <2>2 DEF SetChannel, CheckOTP, RefuseOTP, Dispatch
    <3>3. charges' = charges /\ status' = status
      BY <2>2 DEF SetChannel, CheckOTP, RefuseOTP, Dispatch, ReadsOnly, table
    <3>4. \A c \in ChargeIds : Waiting(c)' => Waiting(c)
      BY <3>3, NoNewWaiting
    <3> QED
      BY <3>1, <3>2, <3>4, BystanderServes
  <2>3. CASE Reverse(r)
    <3>1. PICK job : work' = [work EXCEPT ![r] = job]
      BY <2>3 DEF Reverse, Goto, Return
    <3>2. work[r].pc # "finalize" /\ charges' = charges
      BY <2>3 DEF Reverse
    <3>3. \A u \in Txs : status'[u] = "pending" => status[u] \in {"none", "pending"}
      BY <2>3 DEF Reverse, IndInv, TypeOK
    <3>4. \A c \in ChargeIds : Waiting(c)' => Waiting(c)
      BY <3>2, <3>3, NoNewWaiting
    <3> QED
      BY <3>1, <3>2, <3>4, BystanderServes
  <2>4. CASE ForceTerminalState(r) \/ CommitForced(r)
    <3>1. PICK w \in Job :
             /\ w = work[r] /\ w.pc \in {"force", "commit"} /\ w.result \in Outcomes
             /\ status' = status \/ status' = [status EXCEPT ![w.tx] = w.result]
             /\ charges' = charges \/ EndCharges(w.tx, w.result, FALSE)
             /\ Return(r) \/ \E job : Goto(r, job)
      BY <2>4, ForcedCases DEF ForcedChange
    <3>2. PICK job : work' = [work EXCEPT ![r] = job]
      BY <3>1 DEF Return, Goto
    <3>3. w.result # "pending" /\ work[r].pc # "finalize"
      BY <3>1 DEF Outcomes
    <3>4. \A u \in Txs : status'[u] = "pending" => status[u] = "pending"
      BY <3>1, <3>3 DEF IndInv, TypeOK
    <3>5. \A c \in ChargeIds : Waiting(c)' => Waiting(c)
      BY <3>1, <3>4, NoNewWaiting, EndingServes
    <3> QED
      BY <3>2, <3>3, <3>5, BystanderServes
  <2> QED
    BY <1>3, <2>1, <2>2, <2>3, <2>4 DEF Continue
<1>4. CASE ExpiryWorker
  <2>1. work' = work
    BY <1>4 DEF ExpiryWorker, SelectStale, ExpireTransaction, ExpireCharges, table
  <2>2. \A c \in ChargeIds : Waiting(c)' => Waiting(c)
    <3>1. CASE SelectStale
      <4>1. charges' = charges /\ status' = status
        BY <3>1 DEF SelectStale, table
      <4> QED
        BY <4>1, NoNewWaiting
    <3>2. ASSUME NEW t \in Txs, ExpireTransaction(t)
          PROVE  \A c \in ChargeIds : Waiting(c)' => Waiting(c)
      <4>1. charges' = charges /\ status' = [status EXCEPT ![t] = "abandoned"]
        BY <3>2 DEF ExpireTransaction
      <4>2. \A u \in Txs : status'[u] = "pending" => status[u] \in {"none", "pending"}
        BY <4>1 DEF IndInv, TypeOK
      <4> QED
        BY <4>1, <4>2, NoNewWaiting
    <3>3. ASSUME NEW t \in Txs, ExpireCharges(t)
          PROVE  \A c \in ChargeIds : Waiting(c)' => Waiting(c)
      <4>1. EndCharges(t, "abandoned", TRUE) /\ status' = status
        BY <3>3 DEF ExpireCharges
      <4> QED
        BY <4>1, EndingServes
    <3> QED
      BY <1>4, <3>1, <3>2, <3>3 DEF ExpiryWorker
  <2> QED
    BY <2>1, <2>2 DEF Served
<1>5. ASSUME NEW t \in Txs, Age(t) PROVE Served'
  BY <1>5 DEF Age, Served, Waiting, Resolves, table
<1> QED
  BY <1>0, <1>1, <1>2, <1>3, <1>4, <1>5
  DEF Next, Request, RequestError, SweepError, Crash, Shutdown

\* A stuttering step keeps it too.
LEMMA ServedStutter ==
    ASSUME Served, UNCHANGED vars
    PROVE  Served'
BY DEF Served, Waiting, Resolves, vars, table

\* Faults are counted for good.
LEMMA FaultsGrow ==
    ASSUME IndInv, [Next]_vars, faults' = 0
    PROVE  faults = 0 /\ faults' = faults
<1>1. faults \in Nat
  BY DEF IndInv, TypeOK
<1>2. faults' = faults \/ faults' = faults + 1
  <2>1. ASSUME NEW r \in Workers, Continue(r) PROVE faults' = faults
    BY <2>1 DEF Continue, CreateCharge, SetChannel, CheckOTP, RefuseOTP, Advance, Finalize,
        Reverse, ForceTerminalState, CommitForced, Dispatch, ReadsOnly
  <2>2. ASSUME NEW r \in Workers, NEW t \in Txs, Arrive(r, t) PROVE faults' = faults
    BY <2>2 DEF Arrive, StartCharge, SubmitFactor, Simulate3DS, ResendOTP, SubmitOTP, Refund,
        ForceOutcome, ReadsOnly
  <2>3. CASE Request
    BY <2>1, <2>2, <2>3 DEF Request, Initialize, RequestError, Fault
  <2>4. CASE ExpiryWorker
    BY <2>4 DEF ExpiryWorker, SelectStale, ExpireTransaction, ExpireCharges
  <2>5. CASE \E t \in Txs : Age(t) \/ SweepError(t)
    BY <2>5 DEF Age, SweepError, Fault
  <2>6. CASE Crash \/ Shutdown
    BY <2>6 DEF Crash, Shutdown, Restart, Fault
  <2>7. CASE UNCHANGED vars
    BY <2>7 DEF vars
  <2> QED
    BY <2>3, <2>4, <2>5, <2>6, <2>7 DEF Next
<1> QED
  BY <1>1, <1>2

\* Without faults a MoMo charge that waits offline always has its goroutine, for any
\* number of charges, resends and concurrent requests.
THEOREM MomoAlwaysServed == Spec => []MomoServed
<1>1. Init => (faults = 0 => Served)
  BY DEF Init, Served, Waiting
<1>2. IndInv /\ LocksOK /\ (faults = 0 => Served) /\ [Next]_vars => (faults = 0 => Served)'
  BY FaultsGrow, ServedStep, ServedStutter
<1>3. IndInv /\ (faults = 0 => Served) => MomoServed
  BY DEF MomoServed, MomoHasGoroutine, Served, Waiting, Resolves, Background, PendingRows, Rows
<1> QED
  BY <1>1, <1>2, <1>3, Invariance, PTL DEF Spec

\* What a goroutine still knows of the channel of its transaction: before the insert
\* of a first charge nobody has changed it, and after the insert only the goroutines
\* of that charge write it.
ChannelKnown(w) ==
    status[w.tx] = "pending" =>
        /\ w.pc = "create" /\ Rows(w.tx) = {} => w.seen = channel[w.tx]
        /\ w.pc = "channel" =>
               /\ w.chan = charges[w.charge].chan
               /\ channel[w.tx] = w.seen \/ channel[w.tx] = w.chan

\* The goroutine is about to write the channel of charge c.
Labels(w, c) == w # Idle /\ w.pc = "channel" /\ w.charge = c

Labelled(c) ==
    charges[c] # NoRow /\ status[charges[c].tx] = "pending" =>
        \/ channel[charges[c].tx] = charges[c].chan
        \/ \E r \in Workers : Labels(work[r], c)

ChannelInv ==
    /\ \A r \in Workers : work[r] # Idle => ChannelKnown(work[r])
    /\ \A c \in ChargeIds : Labelled(c)

\* Steps that write no channel, insert no row and reopen no transaction keep it, if
\* those who begin know the channel and nobody forgets to write his.
LEMMA ChannelKept ==
    ASSUME IndInv, ChannelInv,
           \A t \in Txs : status[t] # "none" => channel'[t] = channel[t],
           \A t \in Txs : status'[t] = "pending" => status[t] \in {"none", "pending"},
           \A c \in ChargeIds :
               /\ charges'[c] = NoRow <=> charges[c] = NoRow
               /\ charges[c] # NoRow =>
                      charges'[c].tx = charges[c].tx /\ charges'[c].chan = charges[c].chan,
           \A r \in Workers : work'[r] = work[r]
               \/ /\ work[r] = Idle \/ work[r].pc # "channel"
                  /\ \/ work'[r] = Idle
                     \/ work'[r].pc \notin {"create", "channel"}
                     \/ ChannelKnown(work[r])'
    PROVE  ChannelInv'
<1>1. ASSUME NEW t \in Txs PROVE Rows(t)' = Rows(t)
  BY DEF Rows
<1>2. ASSUME NEW r \in Workers, work'[r] # Idle
      PROVE  ChannelKnown(work[r])'
  <2>1. CASE work'[r] = work[r]
    <3>1. PICK w \in Job : w = work[r] /\ JobOK(w) /\ ChannelKnown(w)
      BY <1>2, <2>1, Busy DEF ChannelInv
    <3>2. w.tx \in Txs /\ status[w.tx] # "none"
      BY <3>1 DEF Job, JobOK
    <3>3. w.pc = "channel" => charges'[w.charge].chan = charges[w.charge].chan
      BY <3>1 DEF JobOK, HoldsRow
    <3>4. channel'[w.tx] = channel[w.tx] /\ Rows(w.tx)' = Rows(w.tx)
          /\ (status'[w.tx] = "pending" => status[w.tx] = "pending")
      BY <1>1, <3>2
    <3>5. ChannelKnown(w)'
      BY <3>1, <3>3, <3>4 DEF ChannelKnown
    <3> QED
      BY <2>1, <3>1, <3>5 DEF ChannelKnown
  <2>2. CASE work'[r].pc \notin {"create", "channel"}
    BY <2>2 DEF ChannelKnown
  <2> QED
    BY <1>2, <2>1, <2>2
<1>3. ASSUME NEW c \in ChargeIds PROVE Labelled(c)'
  <2> SUFFICES ASSUME charges'[c] # NoRow, status'[charges'[c].tx] = "pending"
               PROVE  \/ channel'[charges'[c].tx] = charges'[c].chan
                      \/ \E r \in Workers : Labels(work[r], c)'
    BY DEF Labelled
  <2>1. /\ charges[c] # NoRow /\ charges[c] \in Charge /\ RowOK(c)
        /\ charges'[c].tx = charges[c].tx /\ charges'[c].chan = charges[c].chan
    BY DEF IndInv, TypeOK, RowsOK
  <2>2. PICK t \in Txs : t = charges[c].tx
    BY <2>1 DEF Charge
  <2>3. status[t] = "pending" /\ channel'[t] = channel[t]
    BY <2>1, <2>2 DEF RowOK
  <2>4. CASE channel[t] = charges[c].chan
    BY <2>1, <2>2, <2>3, <2>4
  <2>5. ASSUME NEW r \in Workers, Labels(work[r], c)
        PROVE  Labels(work[r], c)'
    BY <2>5 DEF Labels
  <2> QED
    BY <2>1, <2>2, <2>3, <2>4, <2>5 DEF ChannelInv, Labelled
<1> QED
  BY <1>2, <1>3 DEF ChannelInv

\* A step of one goroutine that changes no row's channel.
LEMMA ChannelJobKept ==
    ASSUME IndInv, ChannelInv, NEW r \in Workers, NEW job,
           work' = [work EXCEPT ![r] = job], channel' = channel,
           \A t \in Txs : status'[t] = "pending" => status[t] \in {"none", "pending"},
           \A c \in ChargeIds :
               /\ charges'[c] = NoRow <=> charges[c] = NoRow
               /\ charges[c] # NoRow =>
                      charges'[c].tx = charges[c].tx /\ charges'[c].chan = charges[c].chan,
           work[r] = Idle \/ work[r].pc # "channel",
           job = Idle \/ job.pc \notin {"create", "channel"}
    PROVE  ChannelInv'
<1>1. work'[r] = job /\ \A q \in Workers : q # r => work'[q] = work[q]
  BY DEF IndInv, TypeOK
<1> QED
  BY <1>1, ChannelKept

\* A goroutine begins to charge: it has just read the channel.
LEMMA StartChannel ==
    ASSUME IndInv, ChannelInv, NEW r \in Workers, NEW t \in Txs, NEW ch, NEW f, NEW o,
           StartCharge(r, t, ch, f, o)
    PROVE  ChannelInv'
<1>1. PICK job : /\ work' = [work EXCEPT ![r] = job]
                 /\ job.pc = "create" /\ job.tx = t /\ job.seen = channel[t]
  <2> DEFINE job == [NewJob("create", t, o) EXCEPT !.chan = ch, !.seen = channel[t], !.flow = f]
  <2>1. job.pc = "create" /\ job.tx = t /\ job.seen = channel[t]
    BY DEF NewJob
  <2>2. work' = [work EXCEPT ![r] = job]
    BY DEF StartCharge, Begin
  <2> QED
    BY <2>1, <2>2
<1>2. work[r] = Idle /\ channel' = channel /\ charges' = charges
  BY DEF StartCharge, Begin
<1>3. work'[r] = job /\ \A q \in Workers : q # r => work'[q] = work[q]
  BY <1>1 DEF IndInv, TypeOK
<1>4. \A u \in Txs : status'[u] = "pending" => status[u] \in {"none", "pending"}
  BY DEF StartCharge, IndInv, TypeOK
<1>5. ChannelKnown(job)'
  BY <1>1, <1>2 DEF ChannelKnown
<1>6. ChannelKnown(work[r])'
  BY <1>3, <1>5 DEF ChannelKnown
<1> QED
  BY <1>2, <1>3, <1>4, <1>6, ChannelKept

\* On a pending transaction there is one row at most.
LEMMA OneRow ==
    ASSUME IndInv, NEW t \in Txs, status[t] = "pending", NEW c \in Rows(t), NEW d \in Rows(t)
    PROVE  c = d /\ charges[c].status = "pending"
BY DEF IndInv, RowsOK, RowOK, PairsOK, Rows

\* The insert: a charge of a pending transaction is its first.
LEMMA CreateChannel ==
    ASSUME IndInv, ChannelInv, NEW r \in Workers, CreateCharge(r)
    PROVE  ChannelInv'
<1>1. work[r].pc = "create" /\ work[r] # Idle
  <2>1. work[r].pc = "create"
    BY DEF CreateCharge
  <2> QED
    BY <2>1 DEF Idle
<1>2. PICK w \in Job : w = work[r] /\ JobOK(w) /\ ChannelKnown(w)
  BY <1>1, Busy DEF ChannelInv
<1> DEFINE t == w.tx
<1>3. t \in Txs /\ channel' = channel /\ status' = status
  BY DEF Job, CreateCharge
<1>4. CASE ~ Creates(w)
  <2>1. work' = [work EXCEPT ![r] = Idle] /\ charges' = charges
    BY <1>2, <1>4 DEF CreateCharge, Return
  <2> QED
    BY <1>1, <1>3, <2>1, ChannelJobKept
<1>5. CASE Creates(w)
  <2>1. PICK c \in FreeIds : /\ charges' = [charges EXCEPT ![c] = NewCharge(w)]
                             /\ work' = [work EXCEPT ![r] = [w EXCEPT !.pc = "channel", !.charge = c]]
    BY <1>2, <1>5 DEF CreateCharge, Goto
  <2> DEFINE job == [w EXCEPT !.pc = "channel", !.charge = c]
  <2>2. /\ job # Idle /\ job.pc = "channel" /\ job.charge = c /\ job.tx = t
        /\ job.chan = w.chan /\ job.seen = w.seen
    BY DEF Job, Idle
  <2>3. work'[r] = job /\ \A q \in Workers : q # r => work'[q] = work[q]
    BY <2>1 DEF IndInv, TypeOK
  <2> HIDE DEF job
  <2>4. /\ c \in ChargeIds /\ charges[c] = NoRow /\ charges'[c] = NewCharge(w)
        /\ \A d \in ChargeIds : d # c => charges'[d] = charges[d]
    BY <2>1 DEF FreeIds, IndInv, TypeOK
  <2>5. NewCharge(w).tx = t /\ NewCharge(w).chan = w.chan /\ NewCharge(w) # NoRow
    BY DEF NewCharge, NoRow
  <2>6. c \in Rows(t)' /\ \A u \in Txs : u # t => Rows(u)' = Rows(u)
    BY <2>4, <2>5 DEF Rows
  <2>7. status[t] = "pending" => Rows(t) = {}
    BY <1>3, <1>5, OneRow DEF Creates, PendingRows
  <2>8. ASSUME NEW q \in Workers, work'[q] # Idle PROVE ChannelKnown(work[q])'
    <3>1. CASE q = r
      <4>1. ChannelKnown(job)'
        BY <1>1, <1>2, <1>3, <2>2, <2>4, <2>5, <2>7 DEF ChannelKnown
      <4> QED
        BY <2>3, <3>1, <4>1 DEF ChannelKnown
    <3>2. CASE q # r
      <4>1. PICK v \in Job : v = work[q] /\ v = work'[q] /\ JobOK(v) /\ ChannelKnown(v)
        BY <2>3, <2>8, <3>2, Busy DEF ChannelInv
      <4>2. v.tx \in Txs
        BY DEF Job
      <4>3. v.pc = "channel" =>
                /\ charges'[v.charge] = charges[v.charge] /\ v.charge \in Rows(v.tx)
        BY <2>4, <4>1 DEF JobOK, HoldsRow, Rows
      <4>4. ChannelKnown(v)'
        BY <1>3, <2>6, <2>7, <4>1, <4>2, <4>3 DEF ChannelKnown
      <4> QED
        BY <4>1, <4>4 DEF ChannelKnown
    <3> QED
      BY <3>1, <3>2
  <2>9. ASSUME NEW d \in ChargeIds PROVE Labelled(d)'
    <3>1. CASE d = c
      <4>1. Labels(work[r], d)'
        BY <2>2, <2>3, <3>1 DEF Labels
      <4> QED
        BY <4>1 DEF Labelled
    <3>2. CASE d # c
      <4>1. ASSUME NEW q \in Workers, Labels(work[q], d) PROVE Labels(work[q], d)'
        <5>1. q # r
          BY <1>1, <4>1 DEF Labels
        <5> QED
          BY <2>3, <4>1, <5>1 DEF Labels
      <4>2. Labelled(d) /\ charges'[d] = charges[d]
        BY <2>4, <3>2 DEF ChannelInv
      <4> QED
        BY <1>3, <4>1, <4>2 DEF Labelled
    <3> QED
      BY <3>1, <3>2
  <2> QED
    BY <2>8, <2>9 DEF ChannelInv
<1> QED
  BY <1>4, <1>5

\* setTransactionChannel: afterwards the transaction has the channel of its charge,
\* although the comparison uses the channel read before the insert.
LEMMA WriteChannel ==
    ASSUME IndInv, ChannelInv, NEW r \in Workers, SetChannel(r)
    PROVE  ChannelInv'
<1>1. work[r].pc = "channel" /\ work[r] # Idle
  <2>1. work[r].pc = "channel"
    BY DEF SetChannel
  <2> QED
    BY <2>1 DEF Idle
<1>2. PICK w \in Job : w = work[r] /\ JobOK(w) /\ ChannelKnown(w)
  BY <1>1, Busy DEF ChannelInv
<1> DEFINE t == w.tx
           c == w.charge
<1>3. /\ HoldsRow(w) /\ t \in Txs /\ c \in Rows(t)
      /\ charges' = charges /\ status' = status
      /\ channel' = IF Writes(w) THEN [channel EXCEPT ![t] = w.chan] ELSE channel
  BY <1>1, <1>2, HeldRow DEF JobOK, SetChannel, Rows
<1>4. \A u \in Txs : u # t => channel'[u] = channel[u]
  BY <1>3 DEF IndInv, TypeOK
<1>5. status[t] = "pending" => channel'[t] = w.chan /\ charges[c].chan = w.chan
  BY <1>1, <1>2, <1>3 DEF ChannelKnown, Writes, IndInv, TypeOK
<1>6. PICK job : /\ work' = [work EXCEPT ![r] = job]
                 /\ job = Idle \/ job.pc = "finalize"
  <2>1. CASE w.result = "success"
    BY <1>2, <2>1 DEF SetChannel, Return
  <2>2. CASE w.result # "success"
    <3> DEFINE job == [w EXCEPT !.pc = "finalize", !.chan = "", !.seen = ""]
    <3>1. work' = [work EXCEPT ![r] = job]
      BY <1>2, <2>2 DEF SetChannel, Goto
    <3>2. job.pc = "finalize"
      BY DEF Job
    <3> QED
      BY <3>1, <3>2
  <2> QED
    BY <2>1, <2>2
<1>7. work'[r] = job /\ \A q \in Workers : q # r => work'[q] = work[q]
  BY <1>6 DEF IndInv, TypeOK
<1>8. \A d \in Rows(t) : status[t] = "pending" => d = c
  BY <1>3, OneRow
<1>9. \A u \in Txs : Rows(u)' = Rows(u)
  BY <1>3 DEF Rows
<1>10. ASSUME NEW q \in Workers, work'[q] # Idle PROVE ChannelKnown(work[q])'
  <2>1. CASE q = r
    BY <1>6, <1>7, <1>10, <2>1 DEF ChannelKnown
  <2>2. CASE q # r
    <3>1. PICK v \in Job : v = work[q] /\ v = work'[q] /\ JobOK(v) /\ ChannelKnown(v)
      BY <1>7, <1>10, <2>2, Busy DEF ChannelInv
    <3>2. v.tx \in Txs
      BY DEF Job
    <3>3. v.pc = "channel" => v.charge \in Rows(v.tx)
      BY <3>1 DEF JobOK, HoldsRow, Rows
    <3>4. ChannelKnown(v)'
      <4>1. CASE v.tx = t
        BY <1>3, <1>5, <1>8, <1>9, <3>1, <3>3, <4>1 DEF ChannelKnown
      <4>2. CASE v.tx # t
        BY <1>3, <1>4, <1>9, <3>1, <3>2, <4>2 DEF ChannelKnown
      <4> QED
        BY <4>1, <4>2
    <3> QED
      BY <3>1, <3>4 DEF ChannelKnown
  <2> QED
    BY <2>1, <2>2
<1>11. ASSUME NEW d \in ChargeIds PROVE Labelled(d)'
  <2> SUFFICES ASSUME charges[d] # NoRow, status[charges[d].tx] = "pending"
               PROVE  \/ channel'[charges[d].tx] = charges[d].chan
                      \/ \E q \in Workers : Labels(work[q], d)'
    BY <1>3 DEF Labelled
  <2>1. PICK u \in Txs : u = charges[d].tx /\ d \in Rows(u)
    <3>1. charges[d] \in Charge
      BY DEF IndInv, TypeOK
    <3> QED
      BY <3>1 DEF Charge, Rows
  <2>2. CASE u = t
    BY <1>5, <1>8, <2>1, <2>2
  <2>3. CASE u # t
    <3>1. ASSUME NEW q \in Workers, Labels(work[q], d) PROVE Labels(work[q], d)'
      <4>1. q # r
        BY <1>2, <1>3, <2>1, <2>3, <3>1 DEF Labels, Rows
      <4> QED
        BY <1>7, <3>1, <4>1 DEF Labels
    <3> QED
      BY <1>4, <2>1, <2>3, <3>1 DEF ChannelInv, Labelled
  <2> QED
    BY <2>2, <2>3
<1> QED
  BY <1>10, <1>11 DEF ChannelInv

\* Ending the pending charges of a transaction leaves every row its channel.
LEMMA EndedRowsStay ==
    ASSUME IndInv, NEW t, NEW o, NEW k, EndCharges(t, o, k), NEW c \in ChargeIds
    PROVE  /\ charges'[c] = NoRow <=> charges[c] = NoRow
           /\ charges[c] # NoRow =>
                  charges'[c].tx = charges[c].tx /\ charges'[c].chan = charges[c].chan
<1>1. CASE c \notin PendingRows(t)
  BY <1>1 DEF EndCharges
<1>2. CASE c \in PendingRows(t)
  <2>1. PICK row \in Charge : row = charges[c] /\ row # NoRow
    BY <1>2 DEF PendingRows, Rows, IndInv, TypeOK
  <2>2. PICK x, y, z : charges'[c] = [row EXCEPT !.status = x, !.flow = y, !.otp = z]
    BY <1>2, <2>1 DEF EndCharges
  <2>3. charges'[c].tx = row.tx /\ charges'[c].chan = row.chan /\ charges'[c] # NoRow
    BY <2>2 DEF Charge, NoRow
  <2> QED
    BY <2>1, <2>3
<1> QED
  BY <1>1, <1>2

\* The steps of a goroutine that insert nothing leave every row its channel and open
\* no transaction again.
LEMMA RowsStay ==
    ASSUME IndInv, LocksOK, NEW r \in Workers, Continue(r), ~ CreateCharge(r), ~ SetChannel(r)
    PROVE  /\ \A t \in Txs : status'[t] = "pending" => status[t] \in {"none", "pending"}
           /\ \A c \in ChargeIds :
                  /\ charges'[c] = NoRow <=> charges[c] = NoRow
                  /\ charges[c] # NoRow =>
                         charges'[c].tx = charges[c].tx /\ charges'[c].chan = charges[c].chan
<1> DEFINE Stays ==
      /\ \A t \in Txs : status'[t] = "pending" => status[t] \in {"none", "pending"}
      /\ \A c \in ChargeIds :
             /\ charges'[c] = NoRow <=> charges[c] = NoRow
             /\ charges[c] # NoRow =>
                    charges'[c].tx = charges[c].tx /\ charges'[c].chan = charges[c].chan
<1>1. ASSUME NEW d \in ChargeIds, charges[d] \in Charge, NEW row,
             row.tx = charges[d].tx, row.chan = charges[d].chan, row # NoRow,
             charges' = [charges EXCEPT ![d] = row]
      PROVE  \A c \in ChargeIds :
                  /\ charges'[c] = NoRow <=> charges[c] = NoRow
                  /\ charges[c] # NoRow =>
                         charges'[c].tx = charges[c].tx /\ charges'[c].chan = charges[c].chan
  <2>1. charges[d] # NoRow
    BY <1>1 DEF Charge, NoRow
  <2> QED
    BY <1>1, <2>1 DEF IndInv, TypeOK
<1>2. CASE CheckOTP(r) \/ RefuseOTP(r) \/ Dispatch(r)
  BY <1>2 DEF CheckOTP, RefuseOTP, Dispatch, ReadsOnly, table
<1>3. CASE Reverse(r)
  BY <1>3 DEF Reverse, IndInv, TypeOK
<1>4. CASE Advance(r)
  <2>1. work[r].pc = "advance" /\ work[r] # Idle
    BY <1>4 DEF Advance, Resolver, Idle
  <2>2. PICK w \in Job : w = work[r] /\ JobOK(w)
    BY <2>1, Busy
  <2>3. w.charge \in ChargeIds /\ charges[w.charge] \in Charge
    BY <2>1, <2>2, HeldRow DEF JobOK
  <2>4. status' = status
    BY <1>4 DEF Advance
  <2>5. CASE charges' = charges
    BY <2>4, <2>5
  <2>6. CASE charges' # charges
    <3>1. PICK n : charges' = [charges EXCEPT ![w.charge].flow = w.next, ![w.charge].otp = n]
      BY <1>4, <2>2, <2>6 DEF Advance
    <3>2. PICK old \in Charge : old = charges[w.charge]
      BY <2>3
    <3>3. PICK row : row = [old EXCEPT !.flow = w.next, !.otp = n]
      OBVIOUS
    <3>4. charges' = [charges EXCEPT ![w.charge] = row]
      BY <3>1, <3>2, <3>3
    <3>5. row.tx = old.tx /\ row.chan = old.chan /\ row # NoRow
      BY <3>3 DEF Charge, NoRow
    <3> QED
      BY <1>1, <2>3, <2>4, <3>2, <3>4, <3>5
  <2> QED
    BY <2>5, <2>6
<1>5. CASE Finalize(r)
  <2>1. work[r].pc = "finalize" /\ work[r] # Idle
    <3>1. work[r].pc = "finalize"
      BY <1>5 DEF Finalize
    <3> QED
      BY <3>1 DEF Idle
  <2>2. PICK w \in Job : w = work[r] /\ JobOK(w)
    BY <2>1, Busy
  <2>3. w.charge \in ChargeIds /\ charges[w.charge] \in Charge /\ w.result # "pending"
    BY <2>1, <2>2, HeldRow DEF JobOK, Outcomes
  <2>4. \A t \in Txs : status'[t] = "pending" => status[t] \in {"none", "pending"}
    BY <1>5, <2>2, <2>3 DEF Finalize, IndInv, TypeOK
  <2>5. CASE charges' = charges
    BY <2>4, <2>5
  <2>6. CASE charges' # charges
    <3>1. PICK e : charges' = [charges EXCEPT ![w.charge].status = e, ![w.charge].flow = e,
                                              ![w.charge].otp = 0]
      BY <1>5, <2>2, <2>6 DEF Finalize
    <3>2. PICK old \in Charge : old = charges[w.charge]
      BY <2>3
    <3>3. PICK row : row = [old EXCEPT !.status = e, !.flow = e, !.otp = 0]
      OBVIOUS
    <3>4. charges' = [charges EXCEPT ![w.charge] = row]
      BY <3>1, <3>2, <3>3
    <3>5. row.tx = old.tx /\ row.chan = old.chan /\ row # NoRow
      BY <3>3 DEF Charge, NoRow
    <3> QED
      BY <1>1, <2>3, <2>4, <3>2, <3>4, <3>5
  <2> QED
    BY <2>5, <2>6
<1>6. CASE ForceTerminalState(r) \/ CommitForced(r)
  <2>1. PICK w \in Job :
           /\ w.result \in Outcomes
           /\ status' = status \/ status' = [status EXCEPT ![w.tx] = w.result]
           /\ charges' = charges \/ EndCharges(w.tx, w.result, FALSE)
    BY <1>6, ForcedCases DEF ForcedChange
  <2>2. \A t \in Txs : status'[t] = "pending" => status[t] \in {"none", "pending"}
    BY <2>1 DEF Outcomes, IndInv, TypeOK
  <2> QED
    BY <2>1, <2>2, EndedRowsStay
<1> QED
  BY <1>2, <1>3, <1>4, <1>5, <1>6 DEF Continue

\* A form step begins in the state its handler chose.
LEMMA ReadBegins ==
    ASSUME NEW r \in Workers, NEW t, NEW f, NEW job \in Job, Read(r, t, f, job)
    PROVE  \E read : work[r] = Idle /\ work' = [work EXCEPT ![r] = read] /\ read.pc = job.pc
<1>1. PICK c : /\ work[r] = Idle
              /\ Goto(r, [job EXCEPT !.charge = c, !.flow = f, !.otp = charges[c].otp])
  BY DEF Read
<1> DEFINE read == [job EXCEPT !.charge = c, !.flow = f, !.otp = charges[c].otp]
<1>2. read.pc = job.pc
  BY DEF Job
<1>3. work' = [work EXCEPT ![r] = read]
  BY <1>1 DEF Goto
<1> HIDE DEF read
<1> QED
  BY <1>1, <1>2, <1>3

\* Only initiations write a channel.
LEMMA OtherArrivals ==
    ASSUME NEW r \in Workers, NEW t \in Txs, Arrive(r, t),
           ~ \E cf \in Kinds, o \in Outcomes : StartCharge(r, t, cf[1], cf[2], o)
    PROVE  \E job : /\ work[r] = Idle /\ work' = [work EXCEPT ![r] = job]
                    /\ job.pc \notin {"create", "channel"}
<1> DEFINE adv    == [NewJob("advance", t, "success") EXCEPT !.next = OtpFlow]
           fin    == NewJob("finalize", t, "success")
           chk(k) == [NewJob("checkotp", t, "success") EXCEPT !.log = k]
<1>1. adv \in Job /\ adv.pc = "advance"
  BY DEF NewJob, Job, Steps, TxStatuses, Outcomes, OtpFlow, Flows
<1>2. fin \in Job /\ fin.pc = "finalize"
  BY DEF NewJob, Job, Steps, TxStatuses, Outcomes
<1>3. \A k \in Nat : chk(k) \in Job /\ chk(k).pc = "checkotp"
  BY DEF NewJob, Job, Steps, TxStatuses, Outcomes
<1>4. (\E f \in Factors : SubmitFactor(r, t, f)) \/ ResendOTP(r, t) => \E f : Read(r, t, f, adv)
  BY DEF SubmitFactor, ResendOTP
<1>5. Simulate3DS(r, t) => \E f : Read(r, t, f, fin)
  BY DEF Simulate3DS
<1>6. (\E k \in 1 .. issued[t] : SubmitOTP(r, t, k)) => \E k \in Nat : \E f : Read(r, t, f, chk(k))
  BY DEF SubmitOTP
<1> HIDE DEF adv, fin, chk
<1>7. CASE (\E f \in Factors : SubmitFactor(r, t, f)) \/ ResendOTP(r, t)
  BY <1>1, <1>4, <1>7, ReadBegins
<1>8. CASE Simulate3DS(r, t)
  BY <1>2, <1>5, <1>8, ReadBegins
<1>9. CASE \E k \in 1 .. issued[t] : SubmitOTP(r, t, k)
  BY <1>3, <1>6, <1>9, ReadBegins
<1>10. CASE Refund(r, t) \/ \E o \in Outcomes : ForceOutcome(r, t, o)
  <2>1. PICK pc \in {"reverse", "force"} : \E o : Begin(r, NewJob(pc, t, o))
    BY <1>10 DEF Refund, ForceOutcome
  <2>2. \A o : NewJob(pc, t, o).pc = pc
    BY DEF NewJob
  <2> QED
    BY <2>1, <2>2 DEF Begin
<1> QED
  BY <1>7, <1>8, <1>9, <1>10 DEF Arrive

\* As long as no fault happens, every step keeps what goroutines know of channels.
LEMMA ChannelStep ==
    ASSUME IndInv, LocksOK, ChannelInv, Next, faults' = faults
    PROVE  ChannelInv'
<1> DEFINE Stays ==
      /\ \A t \in Txs : status'[t] = "pending" => status[t] \in {"none", "pending"}
      /\ \A c \in ChargeIds :
             /\ charges'[c] = NoRow <=> charges[c] = NoRow
             /\ charges[c] # NoRow =>
                    charges'[c].tx = charges[c].tx /\ charges'[c].chan = charges[c].chan
<1>0. ASSUME NEW k PROVE ~ Fault(k)
  <2>1. faults \in Nat
    BY DEF IndInv, TypeOK
  <2>2. faults' # faults + 1
    BY <2>1
  <2> QED
    BY <2>2 DEF Fault
<1>1. ASSUME NEW t \in Txs, NEW ch, Initialize(t, ch) PROVE ChannelInv'
  <2>1. \A u \in Txs : /\ status'[u] = "pending" => status[u] \in {"none", "pending"}
                       /\ status[u] # "none" => channel'[u] = channel[u]
    BY <1>1 DEF Initialize, IndInv, TypeOK
  <2>2. charges' = charges /\ work' = work
    BY <1>1 DEF Initialize
  <2> QED
    BY <2>1, <2>2, ChannelKept
<1>2. ASSUME NEW r \in Workers, NEW t \in Txs, Arrive(r, t) PROVE ChannelInv'
  <2>1. CASE \E cf \in Kinds, o \in Outcomes : StartCharge(r, t, cf[1], cf[2], o)
    BY <2>1, StartChannel
  <2>2. CASE ~ \E cf \in Kinds, o \in Outcomes : StartCharge(r, t, cf[1], cf[2], o)
    <3>1. PICK job : /\ work[r] = Idle /\ work' = [work EXCEPT ![r] = job]
                     /\ job.pc \notin {"create", "channel"}
      BY <1>2, <2>2, OtherArrivals
    <3>2. charges' = charges /\ channel' = channel /\ status' = status
      BY <1>2, <2>2 DEF Arrive, SubmitFactor, Simulate3DS, ResendOTP, SubmitOTP,
                        Refund, ForceOutcome, ReadsOnly, table
    <3> QED
      BY <3>1, <3>2, ChannelJobKept
  <2> QED
    BY <2>1, <2>2
<1>3. ASSUME NEW r \in Workers, Continue(r) PROVE ChannelInv'
  <2>1. CASE CreateCharge(r) \/ SetChannel(r)
    BY <2>1, CreateChannel, WriteChannel
  <2>2. CASE ~ (CreateCharge(r) \/ SetChannel(r))
    <3>1. work[r] # Idle /\ work[r].pc # "channel" /\ channel' = channel
      <4>1. work[r].pc \in Steps \ {"channel"}
        BY <1>3, <2>2 DEF Continue, CheckOTP, RefuseOTP, Advance, Resolver, Finalize, Reverse,
                          ForceTerminalState, CommitForced, Dispatch, Steps
      <4>2. channel' = channel
        BY <1>3, <2>2 DEF Continue, CheckOTP, RefuseOTP, Advance, Finalize, Reverse,
                          ForceTerminalState, CommitForced, Dispatch, ReadsOnly, table
      <4> QED
        BY <4>1, <4>2 DEF Steps, Idle
    <3>2. PICK w \in Job : w = work[r] /\ JobOK(w)
      BY <3>1, Busy
    <3>3. PICK job : /\ work' = [work EXCEPT ![r] = job]
                     /\ job = Idle \/ job.pc \notin {"create", "channel"}
      <4>1. CASE CheckOTP(r)
        <5> DEFINE adv == [w EXCEPT !.pc = "advance", !.next = "pay_offline"]
                   fin == [w EXCEPT !.pc = "finalize", !.otp = 0]
        <5>1. adv.pc = "advance" /\ fin.pc = "finalize"
          BY DEF Job
        <5>2. work' = [work EXCEPT ![r] = adv] \/ work' = [work EXCEPT ![r] = fin]
          BY <3>2, <4>1 DEF CheckOTP, Goto
        <5> HIDE DEF adv, fin
        <5> QED
          BY <5>1, <5>2
      <4>2. CASE RefuseOTP(r) \/ Dispatch(r)
        BY <4>2 DEF RefuseOTP, Dispatch, Return
      <4>3. CASE Advance(r)
        <5>1. Resolver(w).pc = "finalize"
          BY DEF Resolver, Job
        <5>2. work' = [work EXCEPT ![r] = Idle] \/ work' = [work EXCEPT ![r] = Resolver(w)]
          BY <3>2, <4>3 DEF Advance, Goto, Return
        <5> QED
          BY <5>1, <5>2
      <4>4. CASE Finalize(r) \/ Reverse(r) \/ ForceTerminalState(r) \/ CommitForced(r)
        <5>1. Announce(w).pc = "dispatch" /\ [w EXCEPT !.pc = "commit"].pc = "commit"
          BY DEF Announce, NewJob, Job
        <5>2. CASE Finalize(r) \/ Reverse(r)
          <6>1. work' = [work EXCEPT ![r] = Idle] \/ work' = [work EXCEPT ![r] = Announce(w)]
            BY <3>2, <5>2 DEF Finalize, Reverse, Goto, Return
          <6> QED
            BY <5>1, <6>1
        <5>3. CASE ForceTerminalState(r) \/ CommitForced(r)
          <6>1. \/ work' = [work EXCEPT ![r] = Idle]
                \/ work' = [work EXCEPT ![r] = Announce(w)]
                \/ work' = [work EXCEPT ![r] = [w EXCEPT !.pc = "commit"]]
            BY <3>2, <5>3, ForcedCases DEF ForcedChange, Goto, Return
          <6> QED
            BY <5>1, <6>1
        <5> QED
          BY <4>4, <5>2, <5>3
      <4> QED
        BY <1>3, <2>2, <4>1, <4>2, <4>3, <4>4 DEF Continue
    <3>4. Stays
      BY <1>3, <2>2, RowsStay
    <3> QED
      BY <3>1, <3>3, <3>4, ChannelJobKept
  <2> QED
    BY <2>1, <2>2
<1>4. CASE ExpiryWorker
  <2>1. work' = work /\ channel' = channel
    BY <1>4 DEF ExpiryWorker, SelectStale, ExpireTransaction, ExpireCharges, table
  <2>2. Stays
    <3>1. CASE SelectStale
      BY <3>1 DEF SelectStale, table
    <3>2. ASSUME NEW t \in Txs, ExpireTransaction(t) PROVE Stays
      BY <3>2 DEF ExpireTransaction, IndInv, TypeOK
    <3>3. ASSUME NEW t \in Txs, ExpireCharges(t) PROVE Stays
      BY <3>3, EndedRowsStay DEF ExpireCharges
    <3> QED
      BY <1>4, <3>1, <3>2, <3>3 DEF ExpiryWorker
  <2> QED
    BY <2>1, <2>2, ChannelKept
<1>5. ASSUME NEW t \in Txs, Age(t) PROVE ChannelInv'
  BY <1>5, ChannelKept DEF Age, table
<1> QED
  BY <1>0, <1>1, <1>2, <1>3, <1>4, <1>5
  DEF Next, Request, RequestError, SweepError, Crash, Shutdown

LEMMA ChannelStutter ==
    ASSUME IndInv, ChannelInv, UNCHANGED vars
    PROVE  ChannelInv'
BY ChannelKept DEF vars, table

\* Without faults the channel of a pending transaction is that of its charge as soon
\* as the handler is done, however initiations for it overlap.
THEOREM ChannelsAgree == Spec => []ChannelFollowsCharge
<1>1. Init => (faults = 0 => ChannelInv)
  BY DEF Init, ChannelInv, Labelled
<1>2. IndInv /\ LocksOK /\ (faults = 0 => ChannelInv) /\ [Next]_vars => (faults = 0 => ChannelInv)'
  BY FaultsGrow, ChannelStep, ChannelStutter
<1>3. IndInv /\ (faults = 0 => ChannelInv) => ChannelFollowsCharge
  BY DEF ChannelFollowsCharge, ChannelInv, Labelled, Labels, Rows
<1> QED
  BY <1>1, <1>2, <1>3, Invariance, PTL DEF Spec
--------------------------------------------------------------------------------
(***************************************************************************)
(* A MoMo charge goes offline with its current OTP.  AdvanceFlow compares  *)
(* nothing with an OTP that was empty when SubmitOTP read it, so the       *)
(* argument is about those: a charge without an OTP on a pending           *)
(* transaction is its first row, no code was ever issued, and SubmitOTP    *)
(* has none to accept.                                                     *)
(***************************************************************************)

\* A job that will take a charge offline without comparing its OTP.
Unguarded(w) ==
    /\ w.pc = "checkotp" \/ (w.pc = "advance" /\ w.next = "pay_offline")
    /\ w.otp = 0

EmptyJob(w) == Unguarded(w) => status[w.tx] # "pending"

EmptyRow(c) ==
    charges[c].flow = OtpFlow /\ charges[c].otp = 0 /\ status[charges[c].tx] = "pending"
    => issued[charges[c].tx] = 0

EmptyOtpInv ==
    /\ \A t \in Txs : Rows(t) = {} => issued[t] = 0
    /\ \A c \in ChargeIds : charges[c] # NoRow => EmptyRow(c)
    /\ \A r \in Workers : EmptyJob(work[r])

\* A step leaves the row alone, or takes it out of send_otp.
Leaves(c) ==
    \/ charges'[c] = charges[c]
    \/ /\ charges[c] # NoRow /\ charges'[c] # NoRow
       /\ charges'[c].tx = charges[c].tx /\ charges'[c].flow # OtpFlow

\* No transaction that was decided becomes pending.
NoneReopened == \A t \in Txs : status'[t] = "pending" => status[t] \in {"none", "pending"}

\* A decided transaction stays decided for the job that relies on it.
LEMMA EmptyJobStays ==
    ASSUME IndInv, EmptyOtpInv, NoneReopened, NEW r \in Workers, Unguarded(work[r])
    PROVE  status'[work[r].tx] # "pending"
<1>1. work[r] # Idle /\ status[work[r].tx] # "pending"
  BY DEF EmptyOtpInv, EmptyJob, Unguarded, Idle
<1>2. work[r].tx \in Txs /\ status[work[r].tx] # "none"
  BY <1>1, Busy DEF Job, JobOK
<1> QED
  BY <1>1, <1>2 DEF NoneReopened

\* Steps that issue no OTP, insert no row and start no unguarded job.
LEMMA EmptyOtpKept ==
    ASSUME IndInv, EmptyOtpInv, issued' = issued, NoneReopened,
           \A c \in ChargeIds : Leaves(c),
           \A r \in Workers :
               \/ work'[r] = work[r]
               \/ ~ Unguarded(work'[r])
               \/ status'[work'[r].tx] # "pending"
    PROVE  EmptyOtpInv'
<1>1. ASSUME NEW t \in Txs, Rows(t)' = {} PROVE issued'[t] = 0
  <2>1. Rows(t) = {}
    BY <1>1 DEF Rows, Leaves
  <2> QED
    BY <2>1 DEF EmptyOtpInv
<1>2. ASSUME NEW c \in ChargeIds, charges'[c] # NoRow PROVE EmptyRow(c)'
  <2>1. CASE charges'[c] = charges[c]
    <3>1. charges[c] \in Charge /\ RowOK(c) /\ EmptyRow(c)
      BY <1>2, <2>1 DEF EmptyOtpInv, IndInv, TypeOK, RowsOK
    <3>2. charges[c].tx \in Txs /\ status[charges[c].tx] # "none"
      BY <3>1 DEF Charge, RowOK
    <3> QED
      BY <2>1, <3>1, <3>2 DEF EmptyRow, NoneReopened
  <2>2. CASE charges'[c] # charges[c]
    BY <2>2 DEF Leaves, EmptyRow
  <2> QED
    BY <2>1, <2>2
<1>3. ASSUME NEW r \in Workers PROVE EmptyJob(work[r])'
  <2>1. CASE work'[r] = work[r]
    <3>1. Unguarded(work'[r]) => Unguarded(work[r])
      BY <2>1
    <3>2. Unguarded(work'[r]) => status'[work'[r].tx] # "pending"
      BY <2>1, <3>1, EmptyJobStays
    <3> QED
      BY <3>2 DEF EmptyJob, Unguarded
  <2>2. CASE work'[r] # work[r]
    BY <2>2 DEF EmptyJob, Unguarded
  <2> QED
    BY <2>1, <2>2
<1> QED
  BY <1>1, <1>2, <1>3 DEF EmptyOtpInv

\* The same for a step of one goroutine.
LEMMA EmptyOtpJob ==
    ASSUME IndInv, EmptyOtpInv, issued' = issued, NoneReopened,
           \A c \in ChargeIds : Leaves(c),
           NEW r \in Workers, NEW job, work' = [work EXCEPT ![r] = job],
           ~ Unguarded(job) \/ status'[job.tx] # "pending"
    PROVE  EmptyOtpInv'
<1>1. work'[r] = job /\ \A q \in Workers : q # r => work'[q] = work[q]
  BY DEF IndInv, TypeOK
<1> QED
  BY <1>1, EmptyOtpKept

\* The insert: the first row of a pending transaction, which has no OTP yet.
LEMMA EmptyOtpCreate ==
    ASSUME IndInv, EmptyOtpInv, NEW r \in Workers, CreateCharge(r)
    PROVE  EmptyOtpInv'
<1>1. work[r].pc = "create" /\ work[r] # Idle
  <2>1. work[r].pc = "create"
    BY DEF CreateCharge
  <2> QED
    BY <2>1 DEF Idle
<1>2. PICK w \in Job : w = work[r] /\ JobOK(w)
  BY <1>1, Busy
<1> DEFINE t == w.tx
<1>3. t \in Txs /\ status' = status /\ issued \in [Txs -> Nat]
  BY DEF Job, CreateCharge, IndInv, TypeOK
<1>4. CASE ~ Creates(w)
  <2>1. work' = [work EXCEPT ![r] = Idle] /\ charges' = charges /\ issued' = issued
    BY <1>2, <1>4 DEF CreateCharge, Return
  <2>2. ~ Unguarded(Idle)
    BY DEF Unguarded, Idle
  <2> QED
    BY <1>3, <2>1, <2>2, EmptyOtpJob DEF Leaves, NoneReopened
<1>5. CASE Creates(w)
  <2>1. PICK c \in FreeIds :
           /\ charges' = [charges EXCEPT ![c] = NewCharge(w)]
           /\ issued' = [issued EXCEPT ![t] = IF Asks(w) THEN @ + 1 ELSE @]
           /\ work' = [work EXCEPT ![r] = [w EXCEPT !.pc = "channel", !.charge = c]]
    BY <1>2, <1>5 DEF CreateCharge, Goto
  <2>2. ~ Unguarded([w EXCEPT !.pc = "channel", !.charge = c])
    BY DEF Unguarded, Job
  <2>3. ~ Unguarded(work'[r]) /\ \A q \in Workers : q # r => work'[q] = work[q]
    BY <2>1, <2>2 DEF IndInv, TypeOK
  <2>4. /\ c \in ChargeIds /\ charges[c] = NoRow /\ charges'[c] = NewCharge(w)
        /\ \A d \in ChargeIds : d # c => charges'[d] = charges[d]
    BY <2>1 DEF FreeIds, IndInv, TypeOK
  <2>5. NewCharge(w).tx = t /\ NewCharge(w) # NoRow
        /\ NewCharge(w).otp = IF Asks(w) THEN issued[t] + 1 ELSE 0
    BY DEF NewCharge, NoRow
  <2>6. c \in Rows(t)' /\ \A u \in Txs : u # t => Rows(u)' = Rows(u)
    BY <2>4, <2>5 DEF Rows
  <2>7. status[t] = "pending" => Rows(t) = {} /\ issued[t] = 0
    <3>1. status[t] = "pending" => Rows(t) = {}
      BY <1>3, <1>5, OneRow DEF Creates, PendingRows
    <3> QED
      BY <1>3, <3>1 DEF EmptyOtpInv
  <2>8. /\ \A u \in Txs : u # t => issued'[u] = issued[u]
        /\ ~ Asks(w) => issued'[t] = issued[t]
    BY <1>3, <2>1
  <2>9. ASSUME NEW u \in Txs, Rows(u)' = {} PROVE issued'[u] = 0
    BY <2>6, <2>8, <2>9 DEF EmptyOtpInv
  <2>10. ASSUME NEW d \in ChargeIds, charges'[d] # NoRow PROVE EmptyRow(d)'
    <3>1. CASE d = c
      <4>1. charges'[d].otp = 0 => ~ Asks(w)
        BY <1>3, <2>4, <2>5, <3>1
      <4> QED
        BY <1>3, <2>4, <2>5, <2>7, <2>8, <3>1, <4>1 DEF EmptyRow
    <3>2. CASE d # c
      <4>1. /\ charges'[d] = charges[d] /\ charges[d] # NoRow
            /\ charges[d].tx \in Txs /\ EmptyRow(d)
        BY <2>4, <2>10, <3>2 DEF EmptyOtpInv, IndInv, TypeOK, Charge
      <4>2. status[t] = "pending" => charges[d].tx # t
        BY <2>7, <4>1 DEF Rows
      <4> QED
        BY <1>3, <2>8, <4>1, <4>2 DEF EmptyRow
    <3> QED
      BY <3>1, <3>2
  <2>11. ASSUME NEW q \in Workers PROVE EmptyJob(work[q])'
    BY <1>3, <2>3 DEF EmptyOtpInv, EmptyJob, Unguarded
  <2> QED
    BY <2>9, <2>10, <2>11 DEF EmptyOtpInv
<1> QED
  BY <1>4, <1>5

\* AdvanceFlow issues an OTP to the charge that asks for one, and takes the other
\* charges out of send_otp.
LEMMA EmptyOtpAdvance ==
    ASSUME IndInv, EmptyOtpInv, NEW r \in Workers, Advance(r)
    PROVE  EmptyOtpInv'
<1>1. work[r].pc = "advance" /\ work[r] # Idle
  BY DEF Advance, Resolver, Idle
<1>2. PICK w \in Job : w = work[r] /\ JobOK(w)
  BY <1>1, Busy
<1> DEFINE t == w.tx
<1>3. /\ w.charge \in ChargeIds /\ t \in Txs /\ charges[w.charge] # NoRow
      /\ charges[w.charge] \in Charge /\ charges[w.charge].tx = t
      /\ w.next \in {OtpFlow, "pay_offline"}
  BY <1>1, <1>2, HeldRow DEF JobOK
<1>4. status' = status /\ issued \in [Txs -> Nat]
      /\ charges \in [ChargeIds -> Charge \cup {NoRow}]
  BY DEF Advance, IndInv, TypeOK
<1>5. ~ Unguarded(Idle) /\ ~ Unguarded(Resolver(w))
  BY DEF Unguarded, Idle, Resolver, Job
<1>6. PICK old \in Charge : old = charges[w.charge]
  BY <1>3
<1>7. CASE ~ Advances(w)
  <2>1. work' = [work EXCEPT ![r] = Idle] /\ charges' = charges /\ issued' = issued
    BY <1>2, <1>7 DEF Advance, Return
  <2> QED
    BY <1>4, <1>5, <2>1, EmptyOtpJob DEF Leaves, NoneReopened
<1>8. CASE Advances(w) /\ w.next = "pay_offline"
  <2>1. PICK row : row = [old EXCEPT !.flow = "pay_offline", !.otp = 0]
    OBVIOUS
  <2>2. /\ charges' = [charges EXCEPT ![w.charge] = row] /\ issued' = issued
        /\ work' = [work EXCEPT ![r] = Resolver(w)]
    BY <1>2, <1>4, <1>6, <1>8, <2>1 DEF Advance, Goto, OtpFlow
  <2>3. row.tx = old.tx /\ row.flow # OtpFlow /\ row # NoRow
    BY <2>1 DEF Charge, NoRow, OtpFlow
  <2>4. \A c \in ChargeIds : Leaves(c)
    BY <1>3, <1>4, <1>6, <2>2, <2>3 DEF Leaves
  <2> QED
    BY <1>4, <1>5, <2>2, <2>4, EmptyOtpJob DEF NoneReopened
<1>9. CASE Advances(w) /\ w.next = OtpFlow
  <2>1. PICK row : row = [old EXCEPT !.flow = OtpFlow, !.otp = issued[t] + 1]
    OBVIOUS
  <2>2. /\ charges' = [charges EXCEPT ![w.charge] = row]
        /\ issued' = [issued EXCEPT ![t] = @ + 1]
        /\ work' = [work EXCEPT ![r] = Idle]
    BY <1>2, <1>6, <1>9, <2>1 DEF Advance, Return
  <2>3. row.tx = t /\ row.otp # 0 /\ row # NoRow
    <3>1. row.tx = old.tx /\ row.otp = issued[t] + 1 /\ row # NoRow
      BY <2>1 DEF Charge, NoRow
    <3>2. issued[t] \in Nat
      BY <1>3, <1>4
    <3> QED
      BY <1>3, <1>6, <3>1, <3>2
  <2>4. /\ charges'[w.charge] = row
        /\ \A d \in ChargeIds : d # w.charge => charges'[d] = charges[d]
    BY <1>3, <1>4, <2>2
  <2>5. ASSUME NEW u \in Txs, Rows(u)' = {} PROVE issued'[u] = 0
    <3>1. u # t
      BY <1>3, <2>3, <2>4, <2>5 DEF Rows
    <3>2. Rows(u) = {}
      BY <1>3, <2>4, <2>5, <3>1 DEF Rows
    <3> QED
      BY <1>4, <2>2, <3>1, <3>2 DEF EmptyOtpInv
  <2>6. ASSUME NEW d \in ChargeIds, charges'[d] # NoRow PROVE EmptyRow(d)'
    <3>1. CASE d = w.charge
      BY <2>3, <2>4, <3>1 DEF EmptyRow
    <3>2. CASE d # w.charge
      <4>1. /\ charges'[d] = charges[d] /\ charges[d] # NoRow
            /\ charges[d].tx \in Txs /\ EmptyRow(d)
        BY <2>4, <2>6, <3>2 DEF EmptyOtpInv, IndInv, TypeOK, Charge
      <4>2. status[t] = "pending" => charges[d].tx # t
        BY <1>3, <3>2, <4>1, OneRow DEF Rows
      <4>3. charges[d].tx # t => issued'[charges[d].tx] = issued[charges[d].tx]
        BY <1>4, <2>2, <4>1
      <4> QED
        BY <1>4, <4>1, <4>2, <4>3 DEF EmptyRow
    <3> QED
      BY <3>1, <3>2
  <2>7. ASSUME NEW q \in Workers PROVE EmptyJob(work[q])'
    <3>1. work'[q] = work[q] \/ work'[q] = Idle
      BY <2>2 DEF IndInv, TypeOK
    <3> QED
      BY <1>4, <1>5, <3>1 DEF EmptyOtpInv, EmptyJob, Unguarded
  <2> QED
    BY <2>5, <2>6, <2>7 DEF EmptyOtpInv
<1> QED
  BY <1>3, <1>7, <1>8, <1>9

\* A row that ends leaves send_otp.
LEMMA EndedLeaves ==
    ASSUME IndInv, NEW t, NEW o, NEW k, EndCharges(t, o, k), NEW c \in ChargeIds
    PROVE  Leaves(c)
<1>1. CASE c \notin PendingRows(t)
  BY <1>1 DEF EndCharges, Leaves
<1>2. CASE c \in PendingRows(t)
  <2>1. PICK row \in Charge : row = charges[c] /\ row # NoRow
    BY <1>2 DEF PendingRows, Rows, IndInv, TypeOK
  <2>2. PICK x, z : charges'[c] = [row EXCEPT !.status = x, !.flow = ChargeEnd(o), !.otp = z]
    BY <1>2, <2>1 DEF EndCharges
  <2>3. charges'[c].tx = row.tx /\ charges'[c].flow # OtpFlow /\ charges'[c] # NoRow
    BY <2>2 DEF Charge, NoRow, ChargeEnd, OtpFlow
  <2> QED
    BY <2>1, <2>3 DEF Leaves
<1> QED
  BY <1>1, <1>2

\* The other steps of a goroutine.
LEMMA EmptyOtpContinue ==
    ASSUME IndInv, LocksOK, EmptyOtpInv, NEW r \in Workers, Continue(r)
    PROVE  EmptyOtpInv'
<1>1. CASE CreateCharge(r)
  BY <1>1, EmptyOtpCreate
<1>2. CASE Advance(r)
  BY <1>2, EmptyOtpAdvance
<1>3. ~ Unguarded(Idle) /\ \A w \in Job : ~ Unguarded(Announce(w))
  BY DEF Unguarded, Idle, Announce, NewJob
<1>4. CASE CheckOTP(r)
  <2>1. work[r].pc = "checkotp" /\ work[r] # Idle
    <3>1. work[r].pc = "checkotp"
      BY <1>4 DEF CheckOTP
    <3> QED
      BY <3>1 DEF Idle
  <2>2. PICK w \in Job : w = work[r]
    BY <2>1, Busy
  <2> DEFINE adv == [w EXCEPT !.pc = "advance", !.next = "pay_offline"]
             fin == [w EXCEPT !.pc = "finalize", !.otp = 0]
  <2>3. adv.tx = w.tx /\ adv.otp = w.otp /\ fin.pc = "finalize"
    BY DEF Job
  <2>4. /\ work' = [work EXCEPT ![r] = adv] \/ work' = [work EXCEPT ![r] = fin]
        /\ issued' = issued /\ charges' = charges /\ status' = status
    BY <1>4, <2>2 DEF CheckOTP, Goto, ReadsOnly, table
  <2> HIDE DEF adv, fin
  <2>5. Unguarded(adv) => status'[adv.tx] # "pending"
    <3>1. w.otp = 0 => Unguarded(work[r])
      BY <2>1, <2>2 DEF Unguarded
    <3> QED
      BY <2>2, <2>3, <2>4, <3>1 DEF Unguarded, EmptyOtpInv, EmptyJob
  <2>6. ~ Unguarded(fin)
    BY <2>3 DEF Unguarded
  <2> QED
    BY <2>4, <2>5, <2>6, EmptyOtpJob DEF Leaves, NoneReopened
<1>5. CASE SetChannel(r)
  <2>1. work[r].pc = "channel" /\ work[r] # Idle
    <3>1. work[r].pc = "channel"
      BY <1>5 DEF SetChannel
    <3> QED
      BY <3>1 DEF Idle
  <2>2. PICK w \in Job : w = work[r]
    BY <2>1, Busy
  <2> DEFINE fin == [w EXCEPT !.pc = "finalize", !.chan = "", !.seen = ""]
  <2>3. fin.pc = "finalize"
    BY DEF Job
  <2>4. /\ work' = [work EXCEPT ![r] = Idle] \/ work' = [work EXCEPT ![r] = fin]
        /\ issued' = issued /\ charges' = charges /\ status' = status
    BY <1>5, <2>2 DEF SetChannel, Goto, Return
  <2> HIDE DEF fin
  <2> QED
    BY <1>3, <2>3, <2>4, EmptyOtpJob DEF Leaves, NoneReopened, Unguarded
<1>6. CASE RefuseOTP(r) \/ Dispatch(r)
  <2>1. /\ work' = [work EXCEPT ![r] = Idle]
        /\ issued' = issued /\ charges' = charges /\ status' = status
    BY <1>6 DEF RefuseOTP, Dispatch, Return, ReadsOnly, table
  <2> QED
    BY <1>3, <2>1, EmptyOtpJob DEF Leaves, NoneReopened
<1>7. CASE Finalize(r) \/ Reverse(r)
  <2>1. work[r] # Idle
    BY <1>7 DEF Finalize, Reverse, Idle
  <2>2. PICK w \in Job : w = work[r] /\ JobOK(w)
    BY <2>1, Busy
  <2>3. /\ work' = [work EXCEPT ![r] = Idle] \/ work' = [work EXCEPT ![r] = Announce(w)]
        /\ issued' = issued
    <3>1. CASE Finalize(r)
      BY <2>2, <3>1 DEF Finalize, Goto, Return
    <3>2. CASE Reverse(r)
      BY <2>2, <3>2 DEF Reverse, Goto, Return
    <3> QED
      BY <1>7, <3>1, <3>2
  <2>4. NoneReopened
    BY <1>7, RowsStay DEF Finalize, Reverse, Continue, CreateCharge, SetChannel, NoneReopened
  <2>5. ASSUME NEW c \in ChargeIds PROVE Leaves(c)
    <3>1. CASE charges' = charges
      BY <3>1 DEF Leaves
    <3>2. CASE charges' # charges
      <4>1. Finalize(r) /\ w.pc = "finalize"
        BY <1>7, <2>2, <3>2 DEF Finalize, Reverse
      <4>2. charges[w.charge] \in Charge /\ w.charge \in ChargeIds
        BY <2>2, <4>1, HeldRow DEF JobOK
      <4>3. PICK old \in Charge : old = charges[w.charge]
        BY <4>2
      <4>4. PICK e : /\ e = ChargeEnd(w.result)
                     /\ charges' = [charges EXCEPT ![w.charge].status = e,
                                                   ![w.charge].flow = e,
                                                   ![w.charge].otp = 0]
        BY <2>2, <3>2, <4>1 DEF Finalize
      <4>5. PICK row : /\ row = [old EXCEPT !.status = e, !.flow = e, !.otp = 0]
                       /\ charges' = [charges EXCEPT ![w.charge] = row]
        BY <4>3, <4>4
      <4>6. row.tx = old.tx /\ row.flow # OtpFlow /\ row # NoRow /\ old # NoRow
        <5>1. e # OtpFlow
          BY <4>4 DEF ChargeEnd, OtpFlow
        <5>2. row.tx = old.tx /\ row.flow = e /\ row # NoRow
          BY <4>3, <4>5 DEF Charge, NoRow
        <5>3. old # NoRow
          BY <4>3 DEF Charge, NoRow
        <5> QED
          BY <5>1, <5>2, <5>3
      <4> QED
        BY <4>2, <4>3, <4>5, <4>6 DEF Leaves, IndInv, TypeOK
    <3> QED
      BY <3>1, <3>2
  <2> QED
    BY <1>3, <2>3, <2>4, <2>5, EmptyOtpJob
<1>8. CASE ForceTerminalState(r) \/ CommitForced(r)
  <2>0. PICK w \in Job : w.result \in Outcomes /\ issued' = issued /\ ForcedChange(r, w)
    BY <1>8, ForcedCases
  <2>1. /\ status' = status \/ status' = [status EXCEPT ![w.tx] = w.result]
        /\ charges' = charges \/ EndCharges(w.tx, w.result, FALSE)
        /\ \/ work' = [work EXCEPT ![r] = Idle]
           \/ work' = [work EXCEPT ![r] = Announce(w)]
           \/ work' = [work EXCEPT ![r] = [w EXCEPT !.pc = "commit"]]
    BY <2>0 DEF ForcedChange, Goto, Return
  <2>2. NoneReopened
    BY <2>0, <2>1 DEF Outcomes, NoneReopened, IndInv, TypeOK
  <2>3. \A c \in ChargeIds : Leaves(c)
    BY <2>1, EndedLeaves DEF Leaves
  <2>4. ~ Unguarded([w EXCEPT !.pc = "commit"])
    BY DEF Unguarded, Job
  <2> QED
    BY <1>3, <2>0, <2>1, <2>2, <2>3, <2>4, EmptyOtpJob
<1> QED
  BY <1>1, <1>2, <1>4, <1>5, <1>6, <1>7, <1>8 DEF Continue

\* SubmitOTP reads an empty OTP only from a charge whose transaction is decided:
\* otherwise there would be no code for the customer to send.
LEMMA ReadGuarded ==
    ASSUME IndInv, EmptyOtpInv, NEW r \in Workers, NEW t \in Txs, NEW f, NEW job \in Job,
           Read(r, t, f, job), job.tx = t,
           job.pc = "checkotp" => f = OtpFlow /\ issued[t] # 0,
           job.pc = "advance" => job.next = OtpFlow
    PROVE  \E read : /\ work' = [work EXCEPT ![r] = read]
                     /\ ~ Unguarded(read) \/ status[read.tx] # "pending"
<1>1. PICK c \in Rows(t) :
         /\ charges[c].flow = f
         /\ Goto(r, [job EXCEPT !.charge = c, !.flow = f, !.otp = charges[c].otp])
  BY DEF Read
<1> DEFINE read == [job EXCEPT !.charge = c, !.flow = f, !.otp = charges[c].otp]
<1>2. read.pc = job.pc /\ read.tx = t /\ read.otp = charges[c].otp /\ read.next = job.next
  BY DEF Job
<1>3. work' = [work EXCEPT ![r] = read]
  BY <1>1 DEF Goto
<1> HIDE DEF read
<1>4. c \in ChargeIds /\ charges[c].tx = t /\ EmptyRow(c)
  BY DEF Rows, EmptyOtpInv
<1>5. Unguarded(read) => status[read.tx] # "pending"
  BY <1>1, <1>2, <1>4 DEF Unguarded, EmptyRow, OtpFlow
<1> QED
  BY <1>3, <1>5

LEMMA EmptyOtpArrive ==
    ASSUME IndInv, EmptyOtpInv, NEW r \in Workers, NEW t \in Txs, Arrive(r, t)
    PROVE  EmptyOtpInv'
<1> DEFINE adv    == [NewJob("advance", t, "success") EXCEPT !.next = OtpFlow]
           fin    == NewJob("finalize", t, "success")
           chk(k) == [NewJob("checkotp", t, "success") EXCEPT !.log = k]
<1>1. adv \in Job /\ adv.tx = t /\ adv.pc = "advance" /\ adv.next = OtpFlow
  BY DEF NewJob, Job, Steps, TxStatuses, Outcomes, OtpFlow, Flows
<1>2. fin \in Job /\ fin.tx = t /\ fin.pc = "finalize"
  BY DEF NewJob, Job, Steps, TxStatuses, Outcomes
<1>3. \A k \in Nat : chk(k) \in Job /\ chk(k).tx = t /\ chk(k).pc = "checkotp"
  BY DEF NewJob, Job, Steps, TxStatuses, Outcomes
<1>4. CASE \E cf \in Kinds, o \in Outcomes : StartCharge(r, t, cf[1], cf[2], o)
  <2>1. PICK cf \in Kinds, o \in Outcomes : StartCharge(r, t, cf[1], cf[2], o)
    BY <1>4
  <2> DEFINE job == [NewJob("create", t, o) EXCEPT
                        !.chan = cf[1], !.seen = channel[t], !.flow = cf[2]]
  <2>2. job.pc = "create"
    BY DEF NewJob
  <2>3. /\ work' = [work EXCEPT ![r] = job] /\ charges' = charges /\ issued' = issued
        /\ status[t] \in {"none", "pending"} /\ status' = [status EXCEPT ![t] = "pending"]
    BY <2>1 DEF StartCharge, Begin
  <2> HIDE DEF job
  <2>4. NoneReopened
    BY <2>3 DEF NoneReopened, IndInv, TypeOK
  <2> QED
    BY <2>2, <2>3, <2>4, EmptyOtpJob DEF Leaves, Unguarded
<1>5. CASE ~ \E cf \in Kinds, o \in Outcomes : StartCharge(r, t, cf[1], cf[2], o)
  <2>1. charges' = charges /\ issued' = issued /\ status' = status
    BY <1>5 DEF Arrive, SubmitFactor, Simulate3DS, ResendOTP, SubmitOTP,
                Refund, ForceOutcome, ReadsOnly, table
  <2>2. (\E f \in Factors : SubmitFactor(r, t, f)) \/ ResendOTP(r, t) => \E f : Read(r, t, f, adv)
    BY DEF SubmitFactor, ResendOTP
  <2>3. Simulate3DS(r, t) => \E f : Read(r, t, f, fin)
    BY DEF Simulate3DS
  <2>4. (\E k \in 1 .. issued[t] : SubmitOTP(r, t, k)) =>
            issued[t] # 0 /\ \E k \in Nat : Read(r, t, OtpFlow, chk(k))
    <3>1. issued[t] \in Nat
      BY DEF IndInv, TypeOK
    <3> QED
      BY <3>1 DEF SubmitOTP
  <2> HIDE DEF adv, fin, chk
  <2>5. \E job : /\ work' = [work EXCEPT ![r] = job]
                 /\ ~ Unguarded(job) \/ status[job.tx] # "pending"
    <3>1. CASE (\E f \in Factors : SubmitFactor(r, t, f)) \/ ResendOTP(r, t)
      BY <1>1, <2>2, <3>1, ReadGuarded
    <3>2. CASE Simulate3DS(r, t)
      BY <1>2, <2>3, <3>2, ReadGuarded
    <3>3. CASE \E k \in 1 .. issued[t] : SubmitOTP(r, t, k)
      BY <1>3, <2>4, <3>3, ReadGuarded
    <3>4. CASE Refund(r, t) \/ \E o \in Outcomes : ForceOutcome(r, t, o)
      <4>1. PICK pc \in {"reverse", "force"} : \E o : Begin(r, NewJob(pc, t, o))
        BY <3>4 DEF Refund, ForceOutcome
      <4>2. \A o : ~ Unguarded(NewJob(pc, t, o))
        BY DEF NewJob, Unguarded
      <4> QED
        BY <4>1, <4>2 DEF Begin
    <3> QED
      BY <1>5, <3>1, <3>2, <3>3, <3>4 DEF Arrive
  <2> QED
    BY <2>1, <2>5, EmptyOtpJob DEF Leaves, NoneReopened
<1> QED
  BY <1>4, <1>5

\* Every step keeps what an empty OTP means.
LEMMA EmptyOtpStep ==
    ASSUME IndInv, LocksOK, EmptyOtpInv, [Next]_vars
    PROVE  EmptyOtpInv'
<1>0. ~ Unguarded(Idle)
  BY DEF Unguarded, Idle
<1>1. ASSUME issued' = issued, charges' = charges, NoneReopened,
             \A r \in Workers : work'[r] = work[r] \/ work'[r] = Idle
      PROVE  EmptyOtpInv'
  BY <1>0, <1>1, EmptyOtpKept DEF Leaves
<1>2. ASSUME NEW t \in Txs, NEW ch, Initialize(t, ch) PROVE EmptyOtpInv'
  <2>1. NoneReopened
    BY <1>2 DEF Initialize, IndInv, TypeOK, NoneReopened
  <2> QED
    BY <1>1, <1>2, <2>1 DEF Initialize
<1>3. ASSUME NEW r \in Workers, RequestError(r) PROVE EmptyOtpInv'
  <2>1. \A q \in Workers : work'[q] = work[q] \/ work'[q] = Idle
    BY <1>3 DEF RequestError, Return, IndInv, TypeOK
  <2> QED
    BY <1>1, <1>3, <2>1 DEF RequestError, table, NoneReopened
<1>4. CASE Request
  BY <1>2, <1>3, <1>4, EmptyOtpContinue, EmptyOtpArrive DEF Request
<1>5. CASE ExpiryWorker
  <2>1. CASE SelectStale
    BY <1>1, <2>1 DEF SelectStale, table, NoneReopened
  <2>2. ASSUME NEW t \in Txs, ExpireTransaction(t) PROVE EmptyOtpInv'
    <3>1. NoneReopened
      BY <2>2 DEF ExpireTransaction, IndInv, TypeOK, NoneReopened
    <3> QED
      BY <1>1, <2>2, <3>1 DEF ExpireTransaction
  <2>3. ASSUME NEW t \in Txs, ExpireCharges(t) PROVE EmptyOtpInv'
    <3>1. /\ EndCharges(t, "abandoned", TRUE)
          /\ issued' = issued /\ status' = status /\ work' = work
      BY <2>3 DEF ExpireCharges
    <3> QED
      BY <3>1, EndedLeaves, EmptyOtpKept DEF NoneReopened
  <2> QED
    BY <1>5, <2>1, <2>2, <2>3 DEF ExpiryWorker
<1>6. CASE \E t \in Txs : Age(t) \/ SweepError(t)
  BY <1>1, <1>6 DEF Age, SweepError, table, NoneReopened
<1>7. CASE Crash \/ Shutdown
  BY <1>1, <1>7 DEF Crash, Shutdown, Restart, table, NoneReopened
<1>8. CASE UNCHANGED vars
  BY <1>1, <1>8 DEF vars, table, NoneReopened
<1> QED
  BY <1>4, <1>5, <1>6, <1>7, <1>8 DEF Next

LEMMA EmptyOtpStart ==
    ASSUME Init
    PROVE  EmptyOtpInv
BY DEF Init, EmptyOtpInv, EmptyJob, Unguarded, Idle

\* The step that takes a MoMo charge offline consumes the newest code: the OTP
\* the handler read is, by AdvanceFlow's comparison, still the charge's, hence
\* the newest log, and the code it checked lies between the two.
LEMMA AdvanceUsesCurrentOtp ==
    ASSUME IndInv, EmptyOtpInv, NEW r \in Workers, Advance(r), NEW c \in ChargeIds, GoesOffline(c)
    PROVE  UsesCurrentOtp(charges[c].tx, c) \/ LateFailure(c)
<1>1. work[r].pc = "advance" /\ work[r] # Idle
  BY DEF Advance, Resolver, Idle
<1>2. work[r] \in Job /\ JobOK(work[r])
  BY <1>1, Busy
<1>3. PICK w \in Job : w = work[r]
  BY <1>2
<1>4. HoldsRow(w) /\ w.next \in {OtpFlow, "pay_offline"}
  BY <1>1, <1>2, <1>3 DEF JobOK
<1>5. w.charge \in ChargeIds /\ charges[w.charge] \in Charge /\ w.tx \in Txs
      /\ charges[w.charge].tx = w.tx
  BY <1>4, HeldRow DEF HoldsRow
<1>6. charges[c].flow = OtpFlow /\ charges'[c].flow = "pay_offline"
  BY DEF GoesOffline
<1>7. charges' # charges
  BY <1>6 DEF OtpFlow
<1>8. /\ Advances(w)
      /\ charges' = [charges EXCEPT
             ![w.charge].flow = w.next,
             ![w.charge].otp  = IF w.next = OtpFlow THEN issued[w.tx] + 1 ELSE 0]
      /\ used' = [used EXCEPT ![w.tx] = IF w.next = OtpFlow THEN @ ELSE @ \cup {w.log}]
  BY <1>3, <1>7 DEF Advance, Resolver
<1>9. charges \in [ChargeIds -> Charge \cup {NoRow}] /\ used \in [Txs -> SUBSET Nat]
      /\ issued \in [Txs -> Nat]
  BY DEF IndInv, TypeOK
<1>10. c = w.charge
  BY <1>5, <1>6, <1>8, <1>9 DEF OtpFlow
<1>11. w.next = "pay_offline"
  <2>1. SUFFICES ASSUME w.next = OtpFlow PROVE FALSE
    BY <1>4, <2>1
  <2>2. charges'[w.charge].flow = OtpFlow
    BY <1>5, <1>8, <1>9, <2>1 DEF Charge
  <2> QED
    BY <1>6, <1>10, <2>2 DEF OtpFlow
<1>12. /\ w.flow = OtpFlow /\ w.otp <= w.log /\ w.log <= issued[w.tx]
       /\ w.otp \in Nat /\ w.log \in Nat /\ issued[w.tx] \in Nat
       /\ charges[c].sampled = "success" => w.otp > 0
  BY <1>1, <1>2, <1>3, <1>5, <1>9, <1>10, <1>11 DEF JobOK, ReadOtp, Job
<1>13. CASE w.otp = 0
  <2>1. Unguarded(work[r])
    BY <1>1, <1>3, <1>11, <1>13 DEF Unguarded
  <2>2. status[charges[c].tx] # "pending"
    BY <1>3, <1>5, <1>10, <2>1 DEF EmptyOtpInv, EmptyJob
  <2> QED
    BY <1>12, <1>13, <2>2 DEF LateFailure
<1>14. CASE w.otp > 0
  <2>1. charges[c].status = "pending" /\ charges[c].otp = w.otp
    BY <1>8, <1>10, <1>12, <1>14 DEF Advances
  <2>2. charges[c].otp = issued[w.tx]
    BY <1>5, <1>6, <1>10, <1>14, <2>1 DEF IndInv, RowsOK, RowOK, GoesOffline
  <2>3. w.log = issued[w.tx]
    BY <1>12, <2>1, <2>2
  <2>4. used'[w.tx] = used[w.tx] \cup {w.log}
    BY <1>5, <1>8, <1>9, <1>11 DEF OtpFlow
  <2> QED
    BY <1>5, <1>10, <2>2, <2>3, <2>4 DEF UsesCurrentOtp
<1> QED
  BY <1>12, <1>13, <1>14

\* Every MoMo charge goes offline only with the OTP it holds at that moment: a code
\* superseded by a resend, at any point between the reads, is refused.  The exception
\* is a charge that was to fail and came after its transaction was decided.
THEOREM MomoOtpCurrent == Spec => MomoUsesCurrentOtp
<1>1. ASSUME IndInv, LocksOK, EmptyOtpInv, [Next]_vars, NEW c \in ChargeIds, GoesOffline(c)
      PROVE  UsesCurrentOtp(charges[c].tx, c) \/ LateFailure(c)
  <2>1. /\ charges[c].flow = OtpFlow /\ charges'[c].flow = "pay_offline"
        /\ charges[c] # NoRow /\ charges \in [ChargeIds -> Charge \cup {NoRow}]
    BY <1>1 DEF GoesOffline, IndInv, TypeOK
  <2>2. charges' # charges
    BY <2>1 DEF OtpFlow
  <2>3. ASSUME NEW r \in Workers, Continue(r)
        PROVE  UsesCurrentOtp(charges[c].tx, c) \/ LateFailure(c)
    <3>1. ~ CreateCharge(r)
      BY <2>1, <2>2 DEF CreateCharge, Creates, Asks, NewCharge, FreeIds, OtpFlow
    <3>2. ~ Finalize(r)
      <4>1. SUFFICES ASSUME Finalize(r) PROVE FALSE
        OBVIOUS
      <4>2. PICK d, o : charges' = [charges EXCEPT ![d].status = ChargeEnd(o),
                                                   ![d].flow = ChargeEnd(o),
                                                   ![d].otp = 0]
        BY <2>2, <4>1 DEF Finalize
      <4>3. charges[c] \in Charge
        BY <2>1
      <4>4. CASE c = d
        <5>1. charges'[c].flow = ChargeEnd(o)
          BY <2>1, <4>2, <4>3, <4>4 DEF Charge
        <5> QED
          BY <2>1, <5>1 DEF ChargeEnd
      <4> QED
        BY <2>1, <4>2, <4>4 DEF OtpFlow
    <3>3. ~ (ForceTerminalState(r) \/ CommitForced(r))
      <4>1. SUFFICES ASSUME ForceTerminalState(r) \/ CommitForced(r) PROVE FALSE
        OBVIOUS
      <4>2. PICK t, o : EndCharges(t, o, FALSE)
        BY <1>1, <2>2, <4>1, ForcedCases DEF ForcedChange
      <4> QED
        BY <2>1, <4>2 DEF EndCharges, Charge, ChargeEnd, OtpFlow
    <3> QED
      BY <1>1, <2>2, <2>3, <3>1, <3>2, <3>3, AdvanceUsesCurrentOtp
      DEF Continue, SetChannel, Writes, CheckOTP, RefuseOTP, Reverse, Reverses, Dispatch, ReadsOnly, table
  <2>4. ASSUME NEW t \in Txs PROVE ~ ExpireCharges(t)
    BY <2>1 DEF ExpireCharges, EndCharges, Charge, ChargeEnd, OtpFlow
  <2>5. ASSUME NEW r \in Workers, NEW t \in Txs PROVE ~ Arrive(r, t)
    BY <2>2 DEF Arrive, StartCharge, SubmitFactor, Simulate3DS, ResendOTP, SubmitOTP,
                Refund, ForceOutcome, ReadsOnly, table
  <2>6. ASSUME NEW r \in Workers PROVE ~ RequestError(r)
    BY <2>2 DEF RequestError, table
  <2>7. ASSUME NEW t, NEW ch PROVE ~ Initialize(t, ch)
    BY <2>2 DEF Initialize
  <2>8. ~ ExpiryWorker
    BY <2>2, <2>4 DEF ExpiryWorker, SelectStale, ExpireTransaction, table
  <2>9. ASSUME NEW t \in Txs PROVE ~ (Age(t) \/ SweepError(t))
    BY <2>2 DEF Age, SweepError, table
  <2>10. ~ (Crash \/ Shutdown \/ UNCHANGED vars)
    BY <2>2 DEF Crash, Shutdown, Restart, table, vars
  <2> QED
    BY <1>1, <2>3, <2>5, <2>6, <2>7, <2>8, <2>9, <2>10 DEF Next, Request
<1>2. IndInv /\ LocksOK /\ EmptyOtpInv /\ [Next]_vars =>
        [\A c \in ChargeIds :
            GoesOffline(c) => UsesCurrentOtp(charges[c].tx, c) \/ LateFailure(c)]_vars
  BY <1>1
<1>3. Init => EmptyOtpInv
  BY EmptyOtpStart
<1>4. IndInv /\ LocksOK /\ EmptyOtpInv /\ [Next]_vars => EmptyOtpInv'
  BY EmptyOtpStep
<1> QED
  BY <1>2, <1>3, <1>4, Invariance, PTL DEF Spec, MomoUsesCurrentOtp
--------------------------------------------------------------------------------
(***************************************************************************)
(* ChargeLifecycle implements PaymentPromise: the selection of a round of  *)
(* the expiry worker is the promise's doomed, and the history variable     *)
(* lapsed its lapsed.                                                      *)
(***************************************************************************)

\* What the promise speaks about.
promised == <<status, paid, events, stale, lapsed>>

\* Every step that decides a transaction is the promise's Decide.
LEMMA DecideStep ==
    ASSUME IndInv, NEW t \in Txs, NEW o \in Outcomes, status[t] = "pending",
           status' = [status EXCEPT ![t] = o],
           paid' = [paid EXCEPT ![t] = @ \/ o = "success"],
           UNCHANGED <<events, sweep>>
    PROVE  Promise!Decide(t, o)
<1>1. paid \in [Txs -> BOOLEAN] /\ ~ paid[t]
  BY DEF IndInv, TypeOK, TxsOK, TxOK
<1>2. (paid[t] \/ o = "success") = (o = "success")
  BY <1>1
<1>3. paid' = [paid EXCEPT ![t] = (o = "success")]
  BY <1>1, <1>2
<1> QED
  BY <1>3 DEF Promise!Decide, Outcomes, sweep

\* A goroutine's step is a step of the promise: Finalize and a forced outcome
\* decide, Reverse takes back, Dispatch announces what the facts support.
LEMMA ContinueStep ==
    ASSUME IndInv, LocksOK, NEW r \in Workers, Continue(r)
    PROVE  Promise!Next \/ UNCHANGED promised
<1>1. CASE Finalize(r)
  <2>1. work[r].pc = "finalize" /\ work[r] # Idle
    BY <1>1 DEF Finalize, Idle
  <2>2. PICK w \in Job : w = work[r] /\ JobOK(w)
    BY <2>1, Busy
  <2>3. w.tx \in Txs /\ w.result \in Outcomes
    BY <2>1, <2>2 DEF Job, JobOK
  <2>4. CASE Finalizes(w)
    <3>1. Promise!Decide(w.tx, w.result)
      BY <1>1, <2>2, <2>3, <2>4, DecideStep DEF Finalize, Finalizes
    <3> QED
      BY <2>3, <3>1 DEF Promise!Next, Outcomes
  <2>5. CASE ~ Finalizes(w)
    BY <1>1, <2>2, <2>5 DEF Finalize, sweep, promised
  <2> QED
    BY <2>4, <2>5
<1>2. CASE ForceTerminalState(r) \/ CommitForced(r)
  <2>1. PICK w \in Job :
           /\ w.tx \in Txs /\ w.result \in Outcomes /\ UNCHANGED <<events, sweep>>
           /\ \/ /\ status[w.tx] = "pending"
                 /\ status' = [status EXCEPT ![w.tx] = w.result]
                 /\ paid' = [paid EXCEPT ![w.tx] = @ \/ w.result = "success"]
              \/ UNCHANGED <<status, paid>>
    BY <1>2, ForcedCases DEF ForcedChange
  <2>2. CASE UNCHANGED <<status, paid>>
    BY <2>1, <2>2 DEF sweep, promised
  <2>3. CASE /\ status[w.tx] = "pending"
             /\ status' = [status EXCEPT ![w.tx] = w.result]
             /\ paid' = [paid EXCEPT ![w.tx] = @ \/ w.result = "success"]
    <3>1. Promise!Decide(w.tx, w.result)
      BY <2>1, <2>3, DecideStep
    <3> QED
      BY <2>1, <3>1 DEF Promise!Next, Outcomes
  <2> QED
    BY <2>1, <2>2, <2>3
<1>3. CASE Reverse(r)
  <2>1. work[r].pc = "reverse" /\ work[r] # Idle
    BY <1>3 DEF Reverse, Reverses, Idle
  <2>2. PICK w \in Job : w = work[r]
    BY <2>1, Busy
  <2>3. w.tx \in Txs
    BY DEF Job
  <2> QED
    BY <1>3, <2>2, <2>3 DEF Reverse, Reverses, Promise!Next, Promise!TakeBack, sweep, promised
<1>4. CASE Dispatch(r)
  <2>1. work[r].pc = "dispatch" /\ work[r] # Idle
    BY <1>4 DEF Dispatch, Idle
  <2>2. PICK w \in Job : w = work[r] /\ JobOK(w)
    BY <2>1, Busy
  <2>3. PICK t \in Txs : t = w.tx
    BY DEF Job
  <2>4. CASE events' = events
    BY <1>4, <2>4 DEF Dispatch, sweep, promised
  <2>5. CASE events' # events
    <3>1. PICK e : e = EventOf(w.result)
      OBVIOUS
    <3>2. events' = [events EXCEPT ![t] = @ \cup {e}] /\ UNCHANGED <<status, paid, sweep>>
      BY <1>4, <2>2, <2>3, <2>5, <3>1 DEF Dispatch
    <3>3. \/ e = "charge.success" /\ paid[t]
          \/ e = "charge.failed" /\ ~ paid[t] /\ (status[t] = "failed" \/ t \in lapsed)
          \/ e = "refund.processed" /\ paid[t] /\ (status[t] = "reversed" \/ t \in lapsed)
      BY <2>1, <2>2, <2>3, <3>1 DEF JobOK, EventOf, Still
    <3>4. e \in {"charge.success", "charge.failed", "refund.processed"}
      BY <3>3
    <3>5. e \in Promise!Supported(t)
      BY <3>3 DEF Promise!Supported
    <3>6. Promise!Announce(t, e)
      BY <3>2, <3>5 DEF Promise!Announce, sweep
    <3> QED
      BY <3>4, <3>6 DEF Promise!Next
  <2> QED
    BY <2>4, <2>5
<1> QED
  BY <1>1, <1>2, <1>3, <1>4
  DEF Continue, CreateCharge, Creates, Asks, NewCharge, SetChannel, Writes, CheckOTP,
      RefuseOTP, Advance, Resolver, ReadsOnly, table, sweep, promised

\* A charge request opens the transaction it creates, and only reads otherwise.
LEMMA OpenStep ==
    ASSUME IndInv, NEW t \in Txs, status[t] \in {"none", "pending"},
           status' = [status EXCEPT ![t] = "pending"], UNCHANGED <<paid, events, sweep>>
    PROVE  \/ UNCHANGED promised
           \/ Promise!Open(t)
<1>1. status \in [Txs -> TxStatuses \cup {"none"}]
  BY DEF IndInv, TypeOK
<1> QED
  BY <1>1 DEF Promise!Open, sweep, promised

\* Every step of the system is a step of the promise, or a stutter.
LEMMA PromiseStep ==
    ASSUME IndInv, LocksOK, [Next]_vars
    PROVE  [Promise!Next]_promised
<1>1. ASSUME NEW t \in Txs, NEW ch, Initialize(t, ch)
      PROVE  Promise!Next
  BY <1>1 DEF Initialize, Promise!Next, Promise!Open, sweep
<1>2. ASSUME NEW r \in Workers, NEW t \in Txs, Arrive(r, t)
      PROVE  Promise!Next \/ UNCHANGED promised
  <2>1. CASE \E ch, f, o : StartCharge(r, t, ch, f, o)
    BY <2>1, OpenStep DEF StartCharge, Promise!Next
  <2> QED
    BY <1>2, <2>1
    DEF Arrive, SubmitFactor, Simulate3DS, ResendOTP, SubmitOTP,
        Refund, ForceOutcome, ReadsOnly, table, sweep, promised
<1>3. ASSUME NEW t \in Txs, ExpireTransaction(t)
      PROVE  Promise!Next
  BY <1>3 DEF ExpireTransaction, Promise!Next, Promise!Lapse
<1>4. CASE Request
  BY <1>1, <1>2, <1>4, ContinueStep DEF Request, RequestError, table, sweep, promised
<1>5. CASE ExpiryWorker
  <2>1. CASE SelectStale
    BY <2>1 DEF SelectStale, Expired, IndInv, TypeOK, Promise!Next, Promise!Doom, table
  <2> QED
    BY <1>3, <1>5, <2>1 DEF ExpiryWorker, ExpireCharges, table, promised
<1>6. CASE (\E t \in Txs : Age(t) \/ SweepError(t)) \/ Crash \/ Shutdown
  <2>1. CASE \E t \in Txs : SweepError(t)
    BY <2>1 DEF SweepError, Promise!Next, Promise!Doom, table, promised
  <2>2. CASE Crash \/ Shutdown
    BY <2>2 DEF Crash, Shutdown, Restart, Promise!Next, Promise!Doom, table
  <2> QED
    BY <1>6, <2>1, <2>2 DEF Age, table, sweep, promised
<1> QED
  BY <1>4, <1>5, <1>6 DEF Next, vars, table, sweep, promised

\* The whole system keeps the promise: every transaction is decided once, only
\* one that a round of the expiry worker saw pending lapses late, and what is
\* announced is true of the transaction or was until such a lapse.
THEOREM PromiseKept == Spec => KeepsPromise
<1>1. Init => Promise!Init
  BY DEF Init, Promise!Init
<1>2. IndInv /\ LocksOK /\ [Next]_vars => [Promise!Next]_promised
  BY PromiseStep
<1>3. IndInv /\ LocksOK /\ [Next]_vars => [Promise!Next]_Promise!vars
  BY <1>2 DEF Promise!vars, promised
<1> QED
  BY <1>1, <1>3, Invariance, PTL DEF Spec, KeepsPromise, Promise!Spec
--------------------------------------------------------------------------------
(***************************************************************************)
(* Which charges are left behind, and which transactions change their mind *)
(* without a late round.                                                   *)
(***************************************************************************)

\* The expiry worker is between its two statements for one transaction at most.
OneHalf == \A t, u \in half : t = u

LEMMA OneHalfStep ==
    ASSUME OneHalf, [Next]_vars
    PROVE  OneHalf'
<1>1. half' \subseteq half \/ \E t \in Txs : half' = {t}
  <2>1. ASSUME NEW r \in Workers, Continue(r) PROVE half' = half
    BY <2>1 DEF Continue, CreateCharge, SetChannel, CheckOTP, RefuseOTP, Advance, Finalize,
        Reverse, ForceTerminalState, CommitForced, Dispatch, ReadsOnly, sweep
  <2>2. ASSUME NEW r \in Workers, NEW t \in Txs, Arrive(r, t) PROVE half' = half
    BY <2>2 DEF Arrive, StartCharge, SubmitFactor, Simulate3DS, ResendOTP, SubmitOTP, Refund,
        ForceOutcome, ReadsOnly, sweep
  <2>3. CASE Request
    BY <2>1, <2>2, <2>3 DEF Request, Initialize, RequestError, sweep
  <2>4. CASE ExpiryWorker
    BY <2>4 DEF ExpiryWorker, SelectStale, ExpireTransaction, ExpireCharges
  <2>5. CASE \E t \in Txs : Age(t) \/ SweepError(t)
    BY <2>5 DEF Age, SweepError, sweep
  <2>6. CASE Crash \/ Shutdown
    BY <2>6 DEF Crash, Shutdown, Restart, sweep
  <2>7. CASE UNCHANGED vars
    BY <2>7 DEF vars, sweep
  <2> QED
    BY <2>3, <2>4, <2>5, <2>6, <2>7 DEF Next
<1> QED
  BY <1>1 DEF OneHalf

\* The row c is not left behind by a step: if nobody will end it now, nobody would
\* have ended it before.
Minded(c) == c \in Stuck' => c \in Stuck

\* A step that leaves the row and the status of its transaction alone.
LEMMA MindedSame ==
    ASSUME NEW c \in ChargeIds, charges[c] # NoRow,
           charges'[c].tx = charges[c].tx, charges'[c].status = charges[c].status,
           status'[charges[c].tx] \in {status[charges[c].tx], "pending"}, half' = half
    PROVE  Minded(c)
BY DEF Minded, Stuck

\* A step that ends the pending charges of t.
LEMMA MindedEnded ==
    ASSUME IndInv, NEW t \in Txs, NEW o \in Outcomes, NEW k, EndCharges(t, o, k),
           NEW c \in ChargeIds, charges[c] # NoRow
    PROVE  \/ charges[c].tx = t /\ charges'[c].status # "pending"
           \/ charges[c].tx # t /\ charges'[c] = charges[c]
<1>1. PICK row \in Charge : row = charges[c]
  BY DEF IndInv, TypeOK
<1>2. CASE c \in PendingRows(t)
  <2>1. PICK y, z : charges'[c] = [row EXCEPT !.status = ChargeEnd(o), !.flow = y, !.otp = z]
    BY <1>1, <1>2 DEF EndCharges
  <2>2. charges'[c].status = ChargeEnd(o) /\ ChargeEnd(o) # "pending"
    BY <2>1 DEF Charge, ChargeEnd
  <2> QED
    BY <1>2, <2>2 DEF PendingRows, Rows
<1>3. CASE c \notin PendingRows(t)
  <2>1. charges'[c] = charges[c]
    BY <1>3 DEF EndCharges
  <2> QED
    BY <1>3, <2>1 DEF PendingRows, Rows
<1> QED
  BY <1>2, <1>3

\* Finalize ends the only charge in progress together with its transaction.
LEMMA MindedFinalize ==
    ASSUME IndInv, NEW r \in Workers, Finalize(r), NEW c \in ChargeIds, charges[c] # NoRow
    PROVE  Minded(c)
<1>1. work[r].pc = "finalize" /\ work[r] # Idle /\ half' = half
  <2>1. work[r].pc = "finalize" /\ half' = half
    BY DEF Finalize, sweep
  <2> QED
    BY <2>1 DEF Idle
<1>2. PICK w \in Job : w = work[r] /\ JobOK(w)
  BY <1>1, Busy
<1>3. /\ w.charge \in ChargeIds /\ w.tx \in Txs /\ w.result \in Outcomes
      /\ charges[w.charge] \in Charge /\ charges[w.charge] # NoRow
      /\ charges[w.charge].tx = w.tx
  BY <1>1, <1>2, HeldRow DEF JobOK
<1>4. CASE ~ Finalizes(w)
  <2>1. charges' = charges /\ status' = status
    BY <1>2, <1>4 DEF Finalize
  <2> QED
    BY <1>1, <2>1, MindedSame
<1>5. CASE Finalizes(w)
  <2>1. status[w.tx] = "pending" /\ charges[w.charge].status = "pending"
    BY <1>5 DEF Finalizes
  <2>2. status' = [status EXCEPT ![w.tx] = w.result]
    BY <1>2, <1>5 DEF Finalize
  <2>3. PICK old \in Charge : old = charges[w.charge]
    BY <1>3
  <2>4. PICK row : row = [old EXCEPT !.status = ChargeEnd(w.result),
                                     !.flow = ChargeEnd(w.result), !.otp = 0]
    OBVIOUS
  <2>5. charges' = [charges EXCEPT ![w.charge] = row]
    BY <1>2, <1>5, <2>3, <2>4 DEF Finalize
  <2>6. row.status # "pending"
    BY <2>4 DEF Charge, ChargeEnd
  <2>7. CASE c = w.charge
    <3>1. charges'[c].status # "pending"
      BY <1>3, <2>5, <2>6, <2>7 DEF IndInv, TypeOK
    <3> QED
      BY <3>1 DEF Minded, Stuck
  <2>8. CASE c # w.charge
    <3>1. charges'[c] = charges[c] /\ charges[c] \in Charge /\ charges[c].tx \in Txs
      <4>1. charges[c] \in Charge
        BY DEF IndInv, TypeOK
      <4> QED
        BY <2>5, <2>8, <4>1 DEF IndInv, TypeOK, Charge
    <3>2. charges[c].tx # w.tx
      <4>1. charges[c].tx = w.tx => charges[c].status = "pending"
        BY <2>1 DEF IndInv, RowsOK, RowOK
      <4> QED
        BY <1>3, <2>1, <2>8, <4>1 DEF IndInv, PairsOK
    <3>3. status'[charges[c].tx] = status[charges[c].tx]
      BY <2>2, <3>1, <3>2 DEF IndInv, TypeOK
    <3> QED
      BY <1>1, <3>1, <3>3, MindedSame
  <2> QED
    BY <2>7, <2>8
<1> QED
  BY <1>4, <1>5

\* A forced outcome ends the charge it has found in its own commit; one that was
\* inserted when it had already looked is left behind.
LEMMA MindedForce ==
    ASSUME IndInv, LocksOK, NEW r \in Workers, ForceTerminalState(r) \/ CommitForced(r),
           NEW c \in ChargeIds, charges[c] # NoRow
    PROVE  Minded(c) \/ Locked(charges[c].tx)
<1>1. PICK w \in Job :
         /\ w = work[r] /\ w.tx \in Txs /\ w.result \in Outcomes /\ half' = half
         /\ \/ /\ status' = [status EXCEPT ![w.tx] = w.result]
               /\ \/ EndCharges(w.tx, w.result, FALSE)
                  \/ w.pc = "commit" /\ UNCHANGED charges
            \/ UNCHANGED <<charges, status>>
  <2>1. PICK w \in Job :
           /\ w = work[r] /\ w.tx \in Txs /\ w.result \in Outcomes
           /\ UNCHANGED sweep /\ ForcedChange(r, w)
    BY ForcedCases
  <2>2. half' = half
    BY <2>1 DEF sweep
  <2>3. \/ /\ status' = [status EXCEPT ![w.tx] = w.result]
           /\ \/ EndCharges(w.tx, w.result, FALSE)
              \/ w.pc = "commit" /\ UNCHANGED charges
        \/ UNCHANGED <<charges, status>>
    BY <2>1 DEF ForcedChange
  <2> QED
    BY <2>1, <2>2, <2>3
<1>2. charges[c].tx \in Txs
  <2>1. charges[c] \in Charge
    BY DEF IndInv, TypeOK
  <2> QED
    BY <2>1 DEF Charge
<1>3. CASE UNCHANGED <<charges, status>>
  BY <1>1, <1>3, MindedSame
<1>4. ASSUME status' = [status EXCEPT ![w.tx] = w.result],
             charges[c].tx # w.tx, charges'[c] = charges[c]
      PROVE  Minded(c)
  <2>1. status'[charges[c].tx] = status[charges[c].tx]
    BY <1>2, <1>4 DEF IndInv, TypeOK
  <2> QED
    BY <1>1, <1>4, <2>1, MindedSame
<1>5. CASE /\ status' = [status EXCEPT ![w.tx] = w.result]
           /\ EndCharges(w.tx, w.result, FALSE)
  <2>1. CASE charges[c].tx = w.tx /\ charges'[c].status # "pending"
    BY <2>1 DEF Minded, Stuck
  <2> QED
    BY <1>1, <1>4, <1>5, <2>1, MindedEnded
<1>6. CASE /\ status' = [status EXCEPT ![w.tx] = w.result]
           /\ w.pc = "commit" /\ UNCHANGED charges
  <2>1. CASE charges[c].tx = w.tx
    BY <1>1, <1>6, <2>1 DEF Locked
  <2> QED
    BY <1>4, <1>6, <2>1
<1> QED
  BY <1>1, <1>3, <1>5, <1>6

\* No other step of a goroutine leaves an existing row behind.
LEMMA MindedContinue ==
    ASSUME IndInv, LocksOK, NEW r \in Workers, Continue(r),
           NEW c \in ChargeIds, charges[c] # NoRow
    PROVE  Minded(c) \/ Locked(charges[c].tx)
<1>0. charges[c] \in Charge /\ charges[c].tx \in Txs
  <2>1. charges[c] \in Charge
    BY DEF IndInv, TypeOK
  <2> QED
    BY <2>1 DEF Charge
<1>1. CASE CreateCharge(r)
  <2>1. charges'[c] = charges[c] /\ status' = status /\ half' = half
    BY <1>1 DEF CreateCharge, FreeIds, IndInv, TypeOK, sweep
  <2> QED
    BY <2>1, MindedSame
<1>2. CASE SetChannel(r) \/ CheckOTP(r) \/ RefuseOTP(r) \/ Dispatch(r)
  <2>1. charges' = charges /\ status' = status /\ half' = half
    BY <1>2 DEF SetChannel, CheckOTP, RefuseOTP, Dispatch, ReadsOnly, table, sweep
  <2> QED
    BY <2>1, MindedSame
<1>3. CASE Advance(r)
  <2>1. status' = status /\ half' = half
    BY <1>3 DEF Advance, sweep
  <2>2. CASE charges' = charges
    BY <2>1, <2>2, MindedSame
  <2>3. CASE charges' # charges
    <3>1. PICK w \in Job : w = work[r]
      <4>1. work[r].pc = "advance" /\ work[r] # Idle
        BY <1>3 DEF Advance, Resolver, Idle
      <4> QED
        BY <4>1, Busy
    <3>2. PICK y : charges' = [charges EXCEPT ![w.charge].flow = w.next, ![w.charge].otp = y]
      BY <1>3, <2>3, <3>1 DEF Advance
    <3>3. PICK old \in Charge : old = charges[c]
      BY <1>0
    <3>4. \/ charges'[c] = [old EXCEPT !.flow = w.next, !.otp = y]
          \/ charges'[c] = charges[c]
      BY <3>2, <3>3 DEF IndInv, TypeOK
    <3>5. charges'[c].tx = charges[c].tx /\ charges'[c].status = charges[c].status
      BY <3>3, <3>4 DEF Charge
    <3> QED
      BY <2>1, <3>5, MindedSame
  <2> QED
    BY <2>2, <2>3
<1>4. CASE Reverse(r)
  <2>1. charges' = charges /\ half' = half
    BY <1>4 DEF Reverse, sweep
  <2>2. \/ status' = status
        \/ status[work[r].tx] = "success" /\ status' = [status EXCEPT ![work[r].tx] = "reversed"]
    BY <1>4 DEF Reverse, Reverses
  <2>3. status'[charges[c].tx] # "pending" => status[charges[c].tx] # "pending"
    BY <1>0, <2>2 DEF IndInv, TypeOK
  <2> QED
    BY <2>1, <2>3 DEF Minded, Stuck
<1> QED
  BY <1>1, <1>2, <1>3, <1>4, MindedFinalize, MindedForce DEF Continue

\* Nor does a round of the expiry worker, which ends the charges of a transaction
\* right after it has abandoned it.
LEMMA MindedWorker ==
    ASSUME IndInv, OneHalf, ExpiryWorker, NEW c \in ChargeIds, charges[c] # NoRow
    PROVE  Minded(c)
<1>0. charges[c].tx \in Txs
  <2>1. charges[c] \in Charge
    BY DEF IndInv, TypeOK
  <2> QED
    BY <2>1 DEF Charge
<1>1. CASE SelectStale
  BY <1>1, MindedSame DEF SelectStale, table
<1>2. ASSUME NEW t \in Txs, ExpireTransaction(t) PROVE Minded(c)
  <2>1. half = {} /\ half' = {t} /\ charges' = charges /\ status' = [status EXCEPT ![t] = "abandoned"]
    BY <1>2 DEF ExpireTransaction
  <2>2. charges[c].tx # t => status'[charges[c].tx] = status[charges[c].tx]
    BY <1>0, <2>1 DEF IndInv, TypeOK
  <2> QED
    BY <2>1, <2>2 DEF Minded, Stuck
<1>3. ASSUME NEW t \in Txs, ExpireCharges(t) PROVE Minded(c)
  <2>1. t \in half /\ EndCharges(t, "abandoned", TRUE) /\ half' = {} /\ status' = status
    BY <1>3 DEF ExpireCharges
  <2>2. "abandoned" \in Outcomes
    BY DEF Outcomes
  <2>3. \A u \in half : u = t
    BY <2>1 DEF OneHalf
  <2>4. \/ charges[c].tx = t /\ charges'[c].status # "pending"
        \/ charges[c].tx # t /\ charges'[c] = charges[c]
    BY <2>1, <2>2, MindedEnded
  <2> QED
    BY <2>1, <2>3, <2>4 DEF Minded, Stuck
<1> QED
  BY <1>1, <1>2, <1>3 DEF ExpiryWorker

\* A fault strands the charges whose transaction the expiry worker has just abandoned,
\* and no others.
LEMMA MindedFault ==
    ASSUME IndInv, UNCHANGED table, half' = half \/ half' = {},
           NEW k, Fault(k), NEW c \in ChargeIds, charges[c] # NoRow
    PROVE  Minded(c) \/ (faults' # faults /\ charges[c].tx \in half)
<1>1. faults' # faults
  <2>1. faults \in Nat
    BY DEF IndInv, TypeOK
  <2> QED
    BY <2>1 DEF Fault
<1>2. CASE half' = half
  BY <1>2, MindedSame DEF table
<1>3. CASE charges[c].tx \notin half
  BY <1>3 DEF Minded, Stuck, table
<1> QED
  BY <1>1, <1>2, <1>3

LEMMA MindedStep ==
    ASSUME IndInv, LocksOK, OneHalf, Next,
           NEW c \in ChargeIds, charges[c] # NoRow
    PROVE  \/ Minded(c)
           \/ Locked(charges[c].tx)
           \/ faults' # faults /\ charges[c].tx \in half
<1>1. charges[c].tx \in Txs
  <2>1. charges[c] \in Charge
    BY DEF IndInv, TypeOK
  <2> QED
    BY <2>1 DEF Charge
<1>2. ASSUME NEW t \in Txs, NEW ch, Initialize(t, ch) PROVE Minded(c)
  <2>1. charges' = charges /\ half' = half /\ status' = [status EXCEPT ![t] = "pending"]
    BY <1>2 DEF Initialize, sweep
  <2>2. status'[charges[c].tx] \in {status[charges[c].tx], "pending"}
    BY <1>1, <2>1 DEF IndInv, TypeOK
  <2> QED
    BY <2>1, <2>2, MindedSame
<1>3. ASSUME NEW r \in Workers, NEW t \in Txs, Arrive(r, t) PROVE Minded(c)
  <2>1. charges' = charges /\ half' = half
        /\ (status' = status \/ status' = [status EXCEPT ![t] = "pending"])
    BY <1>3 DEF Arrive, StartCharge, SubmitFactor, Simulate3DS, ResendOTP, SubmitOTP, Refund,
                ForceOutcome, ReadsOnly, table, sweep
  <2>2. status'[charges[c].tx] \in {status[charges[c].tx], "pending"}
    BY <1>1, <2>1 DEF IndInv, TypeOK
  <2> QED
    BY <2>1, <2>2, MindedSame
<1>4. ASSUME NEW t \in Txs, Age(t) PROVE Minded(c)
  BY <1>4, MindedSame DEF Age, table, sweep
<1>5. ASSUME NEW r \in Workers, RequestError(r)
      PROVE  Minded(c) \/ (faults' # faults /\ charges[c].tx \in half)
  BY <1>5, MindedFault DEF RequestError, sweep
<1>6. ASSUME NEW t \in Txs, SweepError(t)
      PROVE  Minded(c) \/ (faults' # faults /\ charges[c].tx \in half)
  BY <1>6, MindedFault DEF SweepError
<1>7. CASE Crash
  BY <1>7, MindedFault DEF Crash, Restart
<1>8. CASE Shutdown
  BY <1>8, MindedFault DEF Shutdown, Restart
<1> QED
  BY <1>2, <1>3, <1>4, <1>5, <1>6, <1>7, <1>8, MindedContinue, MindedWorker DEF Next, Request

\* A step leaves behind only a charge it has just inserted, or one that a forced outcome
\* had looked for too early, or, if it is a fault, one whose transaction the expiry worker
\* has just abandoned: otherwise deciding a transaction and ending its charge is one
\* commit, or two statements of the expiry worker in a row.
THEOREM LeftBehindIfMissed == Spec => StuckOnlyIfMissed
<1>1. Init => OneHalf
  BY DEF Init, OneHalf
<1>2. OneHalf /\ [Next]_vars => OneHalf'
  BY OneHalfStep
<1>3. IndInv /\ LocksOK /\ OneHalf /\ [Next]_vars =>
          [\A c \in Stuck' \ Stuck :
              \/ charges[c] = NoRow
              \/ Locked(charges[c].tx)
              \/ faults' # faults /\ charges[c].tx \in half]_vars
  <2> SUFFICES ASSUME IndInv, LocksOK, OneHalf, Next, NEW c \in Stuck' \ Stuck
               PROVE  \/ charges[c] = NoRow
                      \/ Locked(charges[c].tx)
                      \/ faults' # faults /\ charges[c].tx \in half
    OBVIOUS
  <2>1. c \in ChargeIds /\ ~ Minded(c)
    BY DEF Stuck, Minded
  <2> QED
    BY <2>1, MindedStep
<1> QED
  BY <1>1, <1>2, <1>3, Invariance, PTL DEF Spec, StuckOnlyIfMissed

\* What TerminalIsFinal says of a transaction.
Final(t) ==
    /\ status[t] \in Outcomes /\ status'[t] # status[t]
       => status[t] = "success" /\ status'[t] = "reversed"
    /\ status[t] = "reversed" => status'[t] = "reversed"

\* A transaction changes as the promise says it may.
LEMMA FinalStep ==
    ASSUME IndInv, LocksOK, [Next]_vars, NEW t \in Txs, t \notin lapsed'
    PROVE  Final(t)
<1>0. status \in [Txs -> TxStatuses \cup {"none"}] /\ "pending" \notin Outcomes
      /\ "none" \notin Outcomes
  BY DEF IndInv, TypeOK, Outcomes
<1>1. CASE status' = status
  BY <1>1 DEF Final
<1>2. ASSUME NEW u \in Txs, Promise!Open(u) PROVE Final(t)
  BY <1>0, <1>2 DEF Promise!Open, Final
<1>3. ASSUME NEW u \in Txs, NEW o, Promise!Decide(u, o) PROVE Final(t)
  BY <1>0, <1>3 DEF Promise!Decide, Final
<1>4. ASSUME NEW u \in Txs, Promise!TakeBack(u) PROVE Final(t)
  BY <1>0, <1>4 DEF Promise!TakeBack, Final
<1>5. ASSUME NEW u \in Txs, Promise!Lapse(u) PROVE Final(t)
  BY <1>0, <1>5 DEF Promise!Lapse, Outcomes, Final
<1>6. [Promise!Next]_promised
  BY PromiseStep
<1>7. Promise!Next => \/ status' = status
                      \/ \E u \in Txs : Promise!Open(u) \/ Promise!TakeBack(u) \/ Promise!Lapse(u)
                      \/ \E u \in Txs : \E o : Promise!Decide(u, o)
  BY DEF Promise!Next, Promise!Doom, Promise!Announce
<1> QED
  BY <1>1, <1>2, <1>3, <1>4, <1>5, <1>6, <1>7 DEF promised

\* Beside refunds, the late rounds of the expiry worker are the only thing that
\* changes a decided transaction.
FinalUnlessLate == [][\A t \in Txs : t \in lapsed' \/ Final(t)]_vars

\* What is true instead of the comment that only one terminal transition can win: it
\* is of every transaction that no round has overwritten, and of all of them as long
\* as no round comes late.
THEOREM FinalUnlessLapsed ==
    Spec => FinalUnlessLate /\ ([](lapsed = {}) => TerminalIsFinal)
<1>1. IndInv /\ LocksOK /\ [Next]_vars => [\A t \in Txs : t \in lapsed' \/ Final(t)]_vars
  BY FinalStep
<1> DEFINE A == \A t \in Txs :
      /\ status[t] \in Outcomes /\ status'[t] # status[t]
         => status[t] = "success" /\ status'[t] = "reversed"
      /\ status[t] = "reversed" => status'[t] = "reversed"
<1>2. IndInv /\ LocksOK /\ [Next]_vars /\ (lapsed = {})' => [A]_vars
  BY FinalStep DEF Final
<1> QED
  BY <1>1, <1>2, Invariance, PTL DEF Spec, FinalUnlessLate, TerminalIsFinal
================================================================================
