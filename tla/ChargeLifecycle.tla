---------------------------- MODULE ChargeLifecycle ----------------------------
(***************************************************************************)
(* The payment core of payfake-api: transactions, the charges attached to  *)
(* them, the one-time passwords that guard a charge, the dashboard's force *)
(* and refund operations, and the expiry worker.                           *)
(*                                                                         *)
(* Every SQL statement or database transaction is one atomic step, but for *)
(* ForceTerminalState where others can come between its statements; the    *)
(* Go code between two steps runs on values read earlier.  A Worker is a   *)
(* goroutine: an HTTP handler, or the MoMo goroutine a handler turns into  *)
(* once its response is written.  work[r] holds what the goroutine         *)
(* remembers between two database accesses.  A handler that returns an     *)
(* error before it has changed anything leaves no trace here.              *)
(*                                                                         *)
(* The conditions of the conditional updates have names of their own, and  *)
(* beside some of them stands a faulty variant that nothing here uses      *)
(* (CreatesBesides, FinalizesDecided, ...): put in the place of the        *)
(* condition it breaks a property, which shows what the condition is for.  *)
(***************************************************************************)
EXTENDS Integers, FiniteSets

CONSTANTS
    Txs,        \* transactions, each with its own reference and access code
    ChargeIds,  \* primary keys of charges: positive, drawn in no order
    Workers,    \* goroutines that serve requests
    Kinds,      \* bound: the <<channel, first flow>> pairs customers choose from
    MaxOtps,    \* bound: OTP logs of one transaction
    MaxFaults,  \* bound: faults in a behaviour
    FaultKinds  \* which of AllFaultKinds may happen

AllFaultKinds == {"error", "crash", "shutdown"}

\* The flow each kind of charge starts in: local card, international card,
\* mobile money and bank transfer.
StartFlows == {<<"card", "send_pin">>, <<"card", "open_url">>,
               <<"mobile_money", "send_otp">>,
               <<"bank_transfer", "send_birthday">>}

ASSUME KindAssumption == Kinds \subseteq StartFlows
ASSUME ChargeIdAssumption == ChargeIds \subseteq Nat \ {0}
ASSUME BoundAssumption == MaxOtps \in Nat /\ MaxFaults \in Nat
ASSUME FaultAssumption == FaultKinds \subseteq AllFaultKinds

VARIABLES
    status,   \* transactions.status, "none" before the row exists
    paid,     \* transactions.paid_at is set
    channel,  \* transactions.channel, "" until known
    charges,  \* the charges table
    issued,   \* number of OTP logs of a transaction; the k-th holds code k
    used,     \* the OTP logs of a transaction that are marked used
    events,   \* webhook events recorded for a transaction
    work,     \* what each goroutine is doing
    stale,    \* expiry worker: selected transactions it has not updated yet
    half,     \* expiry worker: abandoned, its charges not updated yet
    lapsed,   \* history: the decided transactions a round has overwritten
    aged,     \* transactions created more than an hour ago
    faults    \* faults so far

table == <<status, paid, channel, charges, issued, used, events>>
sweep == <<stale, half, lapsed>>
vars  == <<table, work, sweep, aged, faults>>
--------------------------------------------------------------------------------
Channels   == {"card", "mobile_money", "bank_transfer"}
Outcomes   == {"success", "failed", "abandoned"}
TxStatuses == Outcomes \cup {"pending", "reversed"}
OtpFlow    == "send_otp"
Flows      == {"send_pin", "send_otp", "send_birthday", "open_url",
               "pay_offline", "success", "failed"}
EventTypes == {"charge.success", "charge.failed", "refund.processed"}

NoRow  == [status |-> "none"]
Charge == [tx : Txs, chan : Channels, status : {"pending", "success", "failed"},
           flow : Flows, otp : Nat, sampled : Outcomes]

Idle  == [pc |-> "idle"]
Steps == {"create", "channel", "advance", "checkotp", "finalize", "reverse",
          "force", "commit", "dispatch"}
Job   == [pc : Steps, tx : Txs, charge : Nat, chan : Channels \cup {""},
          seen : Channels \cup {""}, flow : Flows \cup {""},
          next : Flows \cup {""}, otp : Nat, log : Nat,
          result : TxStatuses]

\* A goroutine about to take step pc on t; the fields a step needs are set by
\* whoever builds the job.  result is the status it is heading for.
NewJob(pc, t, o) ==
    [pc |-> pc, tx |-> t, charge |-> 0, chan |-> "", seen |-> "", flow |-> "",
     next |-> "", otp |-> 0, log |-> 0, result |-> o]

Rows(t)        == {c \in ChargeIds : charges[c] # NoRow /\ charges[c].tx = t}
PendingRows(t) == {c \in Rows(t) : charges[c].status = "pending"}
FreeIds        == {c \in ChargeIds : charges[c] = NoRow}

\* ForceTerminalState has updated the row of t and not committed: whoever is to
\* write that row waits, whoever reads it still finds the old one.
Locked(t) == \E r \in Workers : work[r].pc = "commit" /\ work[r].tx = t

\* A lookup by reference returns the row with the lowest primary key.
First(t, c) == c \in Rows(t) /\ \A d \in Rows(t) : c <= d

EventOfForced(o) == IF o = "reversed" THEN "refund.processed" ELSE "charge.success"

EventOf(o) == CASE o = "success" -> "charge.success"
                [] o = "failed"  -> "charge.failed"
                [] OTHER         -> "refund.processed"

\* The goroutine that resolves a MoMo charge runs on after its response.
Background(w) == w # Idle /\ w.flow = "pay_offline"
--------------------------------------------------------------------------------
Init ==
    /\ status  = [t \in Txs |-> "none"]
    /\ paid    = [t \in Txs |-> FALSE]
    /\ channel = [t \in Txs |-> ""]
    /\ charges = [c \in ChargeIds |-> NoRow]
    /\ issued  = [t \in Txs |-> 0]
    /\ used    = [t \in Txs |-> {}]
    /\ events  = [t \in Txs |-> {}]
    /\ work    = [r \in Workers |-> Idle]
    /\ stale   = {}
    /\ half    = {}
    /\ lapsed  = {}
    /\ aged    = {}
    /\ faults  = 0

\* After a commit: the outcome is still to be announced.
Announce(w) ==
    [NewJob("dispatch", w.tx, w.result) EXCEPT
        !.flow = IF Background(w) THEN w.flow ELSE ""]

Begin(r, job) == work[r] = Idle /\ work' = [work EXCEPT ![r] = job]
Goto(r, job)  == work' = [work EXCEPT ![r] = job]
Return(r)     == work' = [work EXCEPT ![r] = Idle]

\* POST /transaction/initialize: a pending transaction, whose channel is known
\* only when the merchant allows a single one.
Initialize(t, ch) ==
    /\ status[t] = "none"
    /\ ch \in Channels \cup {""}
    /\ status'  = [status EXCEPT ![t] = "pending"]
    /\ channel' = [channel EXCEPT ![t] = ch]
    /\ UNCHANGED <<paid, charges, issued, used, events, work, sweep, aged, faults>>

\* ChargeCard, ChargeMobileMoney and ChargeBank up to the insert: the
\* transaction is found pending, or is created on the spot when the caller gave
\* an email and an amount only, and the scenario decides the outcome o.
StartCharge(r, t, ch, f, o) ==
    /\ status[t] \in {"none", "pending"}
    /\ Begin(r, [NewJob("create", t, o) EXCEPT
                    !.chan = ch, !.seen = channel[t], !.flow = f])
    /\ <<ch, f>> \in Kinds
    /\ o \in Outcomes
    /\ status' = [status EXCEPT ![t] = "pending"]
    /\ UNCHANGED <<paid, channel, charges, issued, used, events, sweep, aged, faults>>

\* A MoMo charge that is to succeed gets its first OTP and log with its row.
Asks(w) == w.flow = OtpFlow /\ w.result = "success"

CreatesBesides(w) == FreeIds # {} /\ (Asks(w) => issued[w.tx] < MaxOtps)

\* The partial unique index admits one pending charge of a transaction.
Creates(w) ==
    /\ PendingRows(w.tx) = {}
    /\ FreeIds # {}
    /\ Asks(w) => issued[w.tx] < MaxOtps

NewChargeNoOtp(w) ==
    [tx |-> w.tx, chan |-> w.chan, status |-> "pending", flow |-> w.flow,
     otp |-> 0, sampled |-> w.result]

NewCharge(w) ==
    [tx |-> w.tx, chan |-> w.chan, status |-> "pending", flow |-> w.flow,
     otp |-> IF Asks(w) THEN issued[w.tx] + 1 ELSE 0, sampled |-> w.result]

\* CreateOnce, whatever the status of the transaction is by now.
CreateCharge(r) ==
    LET w == work[r] IN
    /\ w.pc = "create"
    /\ IF Creates(w)
       THEN \E c \in FreeIds :
              /\ charges' = [charges EXCEPT ![c] = NewCharge(w)]
              /\ issued' = [issued EXCEPT ![w.tx] = IF Asks(w) THEN @ + 1 ELSE @]
              /\ Goto(r, [w EXCEPT !.pc = "channel", !.charge = c])
       ELSE Return(r) /\ UNCHANGED <<charges, issued>>
    /\ UNCHANGED <<status, paid, channel, used, events, sweep, aged, faults>>

\* The channel was written when the transaction was read in another one.
WritesUnset(w) == w.seen = ""
Writes(w) == w.seen # w.chan

\* setTransactionChannel, judged on the channel read with the transaction; then
\* the response, or failCharge / abandonCharge when the scenario said so.
SetChannel(r) ==
    LET w == work[r] IN
    /\ w.pc = "channel"
    /\ Writes(w) => ~ Locked(w.tx)
    /\ channel' = IF Writes(w) THEN [channel EXCEPT ![w.tx] = w.chan] ELSE channel
    /\ IF w.result = "success" THEN Return(r)
       ELSE Goto(r, [w EXCEPT !.pc = "finalize", !.chan = "", !.seen = ""])
    /\ UNCHANGED <<status, paid, charges, issued, used, events, sweep, aged, faults>>

\* The read half of a form step: the first charge of t, found in flow f; the
\* rest of the handler works from this copy.
Read(r, t, f, job) ==
    /\ work[r] = Idle
    /\ \E c \in Rows(t) :
         /\ First(t, c)
         /\ charges[c].flow = f
         /\ Goto(r, [job EXCEPT !.charge = c, !.flow = f, !.otp = charges[c].otp])

ReadsOnly == UNCHANGED <<table, sweep, aged, faults>>

\* SubmitPIN and SubmitBirthday: whatever is sent is accepted, and the charge
\* shall ask for an OTP.
Factors == {"send_pin", "send_birthday"}

SubmitFactor(r, t, f) ==
    /\ f \in Factors
    /\ Read(r, t, f, [NewJob("advance", t, "success") EXCEPT !.next = OtpFlow])
    /\ ReadsOnly

ResendOTP(r, t) ==
    /\ Read(r, t, OtpFlow, [NewJob("advance", t, "success") EXCEPT !.next = OtpFlow])
    /\ ReadsOnly

Simulate3DS(r, t) ==
    /\ Read(r, t, "open_url", NewJob("finalize", t, "success"))
    /\ ReadsOnly

\* The customer sends code k, one of those issued so far.
SubmitOTP(r, t, k) ==
    /\ k \in 1 .. issued[t]
    /\ Read(r, t, OtpFlow, [NewJob("checkotp", t, "success") EXCEPT !.log = k])
    /\ ReadsOnly

\* The second read of SubmitOTP: the newest log must be unused and hold k.  A
\* card or bank charge is then finalized, a MoMo charge goes offline.
CheckOTP(r) ==
    LET w == work[r] IN
    /\ w.pc = "checkotp"
    /\ w.log = issued[w.tx]
    /\ w.log \notin used[w.tx]
    /\ Goto(r, IF charges[w.charge].chan = "mobile_money"
               THEN [w EXCEPT !.pc = "advance", !.next = "pay_offline"]
               ELSE [w EXCEPT !.pc = "finalize", !.otp = 0])
    /\ ReadsOnly

\* The code is wrong, used, superseded, or more than ten minutes old.
RefuseOTP(r) ==
    /\ work[r].pc = "checkotp"
    /\ Return(r)
    /\ ReadsOnly

AdvancesAnyOtp(w) ==
    /\ charges[w.charge].status = "pending"
    /\ charges[w.charge].flow = w.flow
    /\ IF w.next = "pay_offline" THEN w.log \notin used[w.tx]
       ELSE issued[w.tx] < MaxOtps

\* AdvanceFlow compares the OTP only when the caller passes a non-empty one: the
\* handlers that start from send_otp pass what they read, the others "".
Advances(w) ==
    /\ charges[w.charge].status = "pending"
    /\ charges[w.charge].flow = w.flow
    /\ w.otp = 0 \/ w.flow # OtpFlow \/ charges[w.charge].otp = w.otp
    /\ IF w.next = "pay_offline" THEN w.log \notin used[w.tx]
       ELSE issued[w.tx] < MaxOtps

ResolverStale(w) == [w EXCEPT !.pc = "finalize", !.next = "", !.otp = 0, !.log = 0]

\* The goroutine of resolveMomoAsync holds the handler's copy of the charge.
Resolver(w) == [w EXCEPT !.pc = "finalize", !.flow = "pay_offline",
                         !.next = "", !.otp = 0, !.log = 0]

\* AdvanceFlow: towards send_otp it stores a fresh OTP and its log, towards
\* pay_offline it consumes the log that was checked.
Advance(r) ==
    LET w == work[r]
        t == w.tx
        asks == w.next = OtpFlow
    IN  /\ w.pc = "advance"
        /\ IF Advances(w)
           THEN /\ charges' = [charges EXCEPT
                     ![w.charge].flow = w.next,
                     ![w.charge].otp  = IF asks THEN issued[t] + 1 ELSE 0]
                /\ issued' = [issued EXCEPT ![t] = IF asks THEN @ + 1 ELSE @]
                /\ used'   = [used EXCEPT ![t] = IF asks THEN @ ELSE @ \cup {w.log}]
                /\ IF asks THEN Return(r)
                   ELSE Goto(r, Resolver(w))
           ELSE Return(r) /\ UNCHANGED <<charges, issued, used>>
        /\ UNCHANGED <<status, paid, channel, events, sweep, aged, faults>>

FinalizesDecided(w) ==
    /\ charges[w.charge].status = "pending"
    /\ charges[w.charge].flow = w.flow
    /\ w.log \notin used[w.tx]

\* Finalize succeeds only if the charge is still pending in the flow the caller
\* read, the transaction is pending, and the OTP log (if any) is unused.
Finalizes(w) ==
    /\ charges[w.charge].status = "pending"
    /\ charges[w.charge].flow = w.flow
    /\ status[w.tx] = "pending"
    /\ w.log \notin used[w.tx]

ChargeEndAsTx(o) == o

\* The status, and the flow, a charge ends in when its transaction ends in o.
ChargeEnd(o) == IF o = "success" THEN "success" ELSE "failed"

\* succeedCharge, failCharge and abandonCharge: one commit ends both rows.
\* Only an abandoned charge is not announced.
Finalize(r) ==
    LET w == work[r]
        t == w.tx
        o == w.result
    IN  /\ w.pc = "finalize"
        /\ Finalizes(w) => ~ Locked(t)
        /\ IF Finalizes(w)
           THEN /\ charges' = [charges EXCEPT ![w.charge].status = ChargeEnd(o),
                                              ![w.charge].flow = ChargeEnd(o),
                                              ![w.charge].otp = 0]
                /\ status' = [status EXCEPT ![t] = o]
                /\ paid'   = [paid EXCEPT ![t] = @ \/ o = "success"]
                /\ used'   = [used EXCEPT ![t] = IF w.log = 0 THEN @ ELSE @ \cup {w.log}]
                /\ IF o = "abandoned" THEN Return(r)
                   ELSE Goto(r, Announce(w))
           ELSE Return(r) /\ UNCHANGED <<charges, status, paid, used>>
        /\ UNCHANGED <<channel, issued, events, sweep, aged, faults>>

\* Refund reads a successful transaction.
Refund(r, t) ==
    /\ status[t] = "success"
    /\ Begin(r, NewJob("reverse", t, "reversed"))
    /\ ReadsOnly

\* ReverseSuccessful is conditional on it again.
ReversesAny(w) == TRUE
Reverses(w) == status[w.tx] = "success"

Reverse(r) ==
    LET w == work[r] IN
    /\ w.pc = "reverse"
    /\ IF Reverses(w)
       THEN /\ status' = [status EXCEPT ![w.tx] = "reversed"]
            /\ Goto(r, Announce(w))
       ELSE Return(r) /\ UNCHANGED status
    /\ UNCHANGED <<paid, channel, charges, issued, used, events, sweep, aged, faults>>

\* ForceOutcome reads a pending transaction.
ForceOutcome(r, t, o) ==
    /\ status[t] = "pending"
    /\ Begin(r, NewJob("force", t, o))
    /\ o \in Outcomes
    /\ ReadsOnly

EndCharges(t, o, keepOtp) ==
    charges' = [c \in ChargeIds |->
        IF c \in PendingRows(t)
        THEN [charges[c] EXCEPT !.status = ChargeEnd(o), !.flow = ChargeEnd(o),
                                !.otp = IF keepOtp THEN @ ELSE 0]
        ELSE charges[c]]

\* ForceTerminalState is conditional on it again.
ForcesAny(w) == TRUE
Forces(w) == status[w.tx] = "pending"

Decide(r) ==
    LET w == work[r]
        o == w.result
    IN  /\ status' = [status EXCEPT ![w.tx] = o]
        /\ paid'   = [paid EXCEPT ![w.tx] = @ \/ o = "success"]
        /\ IF o = "abandoned" THEN Return(r) ELSE Goto(r, Announce(w))

\* A pending charge is found, locked and ended in the same commit: until then no
\* other can be inserted.  Where there is none, one may come before the commit.
ForceTerminalState(r) ==
    LET w == work[r] IN
    /\ w.pc = "force"
    /\ Forces(w) => ~ Locked(w.tx)
    /\ \/ /\ Forces(w) /\ PendingRows(w.tx) # {}
          /\ Decide(r) /\ EndCharges(w.tx, w.result, FALSE)
       \/ /\ Forces(w) /\ PendingRows(w.tx) = {}
          /\ Goto(r, [w EXCEPT !.pc = "commit"])
          /\ UNCHANGED <<charges, status, paid>>
       \/ ~ Forces(w) /\ Return(r) /\ UNCHANGED <<charges, status, paid>>
    /\ UNCHANGED <<channel, issued, used, events, sweep, aged, faults>>

CommitForced(r) ==
    /\ work[r].pc = "commit"
    /\ Decide(r)
    /\ UNCHANGED <<channel, charges, issued, used, events, sweep, aged, faults>>

\* Dispatch records the event, once per transaction and type, if the merchant
\* has a webhook URL at that moment.
Dispatch(r) ==
    LET w == work[r] IN
    /\ w.pc = "dispatch"
    /\ \/ events' = [events EXCEPT ![w.tx] = @ \cup {EventOf(w.result)}]
       \/ UNCHANGED events
    /\ Return(r)
    /\ UNCHANGED <<status, paid, channel, charges, issued, used, sweep, aged, faults>>
--------------------------------------------------------------------------------
(* The expiry worker, and time. *)

\* An hour passes since t was created; its age matters only while it is pending.
Age(t) ==
    /\ status[t] = "pending"
    /\ t \notin aged
    /\ aged' = aged \cup {t}
    /\ UNCHANGED <<table, work, sweep, faults>>

ExpiredUntouched == {t \in aged : status[t] = "pending" /\ Rows(t) = {}}
Expired == {t \in aged : status[t] = "pending"}

\* A round begins: the transactions that are pending and old at this moment.
SelectStale ==
    /\ stale = {} /\ half = {}
    /\ stale' = Expired
    /\ stale' # {}
    /\ UNCHANGED <<table, half, lapsed, work, aged, faults>>

\* UpdateStatus on the next selected row, whatever its status is by now.
ExpireTransaction(t) ==
    /\ half = {}
    /\ t \in stale
    /\ ~ Locked(t)
    /\ status' = [status EXCEPT ![t] = "abandoned"]
    /\ stale'  = stale \ {t}
    /\ half'   = {t}
    /\ lapsed' = IF status[t] \in {"success", "failed", "reversed"}
                 THEN lapsed \cup {t} ELSE lapsed
    /\ UNCHANGED <<paid, channel, charges, issued, used, events, work, aged, faults>>

\* The separate statement that ends its pending charges.
ExpireCharges(t) ==
    /\ t \in half
    /\ EndCharges(t, "abandoned", TRUE)
    /\ half' = {}
    /\ UNCHANGED <<status, paid, channel, issued, used, events, stale, lapsed, work, aged, faults>>
--------------------------------------------------------------------------------
(* Faults, at most MaxFaults of them. *)

Fault(kind) ==
    /\ kind \in FaultKinds
    /\ faults < MaxFaults
    /\ faults' = faults + 1

\* A database call fails and the goroutine returns the error.
RequestError(r) ==
    /\ Fault("error")
    /\ work[r] # Idle
    /\ Return(r)
    /\ UNCHANGED <<table, sweep, aged>>

\* A statement of the expiry worker fails: it logs the first and skips the
\* transaction, and it does not look at the result of the second.
SweepError(t) ==
    /\ Fault("error")
    /\ \/ half = {} /\ t \in stale /\ stale' = stale \ {t} /\ UNCHANGED half
       \/ t \in half /\ half' = {} /\ UNCHANGED stale
    /\ UNCHANGED <<table, lapsed, work, aged>>

\* The process ends and is started again; only the database survives.
Restart ==
    /\ work' = [r \in Workers |-> Idle]
    /\ stale' = {}
    /\ half' = {}
    /\ UNCHANGED <<table, lapsed, aged>>

Crash == Fault("crash") /\ Restart

\* SIGTERM: Server.Shutdown waits for the handlers, and for nothing else.
Shutdown ==
    /\ Fault("shutdown")
    /\ \A r \in Workers : work[r] = Idle \/ Background(work[r])
    /\ Restart
--------------------------------------------------------------------------------
\* What the goroutine r does next, once it has begun.
Continue(r) ==
    \/ CreateCharge(r) \/ SetChannel(r)
    \/ CheckOTP(r) \/ RefuseOTP(r)
    \/ Advance(r) \/ Finalize(r)
    \/ Reverse(r) \/ ForceTerminalState(r) \/ CommitForced(r)
    \/ Dispatch(r)

\* A request arrives and its handler performs its first database access.
Arrive(r, t) ==
    \/ \E cf \in Kinds, o \in Outcomes : StartCharge(r, t, cf[1], cf[2], o)
    \/ (\E f \in Factors : SubmitFactor(r, t, f)) \/ Simulate3DS(r, t)
    \/ ResendOTP(r, t) \/ \E k \in 1 .. issued[t] : SubmitOTP(r, t, k)
    \/ Refund(r, t)
    \/ \E o \in Outcomes : ForceOutcome(r, t, o)

Request ==
    \/ \E t \in Txs, ch \in {""} \cup {cf[1] : cf \in Kinds} : Initialize(t, ch)
    \/ \E r \in Workers : Continue(r) \/ \E t \in Txs : Arrive(r, t)
    \/ \E r \in Workers : RequestError(r)

ExpiryWorker ==
    \/ SelectStale
    \/ \E t \in Txs : ExpireTransaction(t) \/ ExpireCharges(t)

Next ==
    \/ Request
    \/ ExpiryWorker
    \/ \E t \in Txs : Age(t) \/ SweepError(t)
    \/ Crash \/ Shutdown

Spec == Init /\ [][Next]_vars

\* Goroutines that have work are scheduled, the ticker of the expiry worker
\* fires again and again, and transactions grow old.
Fairness ==
    /\ \A r \in Workers : WF_vars(Continue(r))
    /\ WF_vars(ExpiryWorker)
    /\ \A t \in Txs : WF_vars(Age(t))

LiveSpec == Spec /\ Fairness
--------------------------------------------------------------------------------
(* Properties. *)

\* Every variable has its type; charges and jobs are rows of the right shape.
TypeOK ==
    /\ status  \in [Txs -> TxStatuses \cup {"none"}]
    /\ paid    \in [Txs -> BOOLEAN]
    /\ channel \in [Txs -> Channels \cup {""}]
    /\ charges \in [ChargeIds -> Charge \cup {NoRow}]
    /\ issued  \in [Txs -> Nat]
    /\ used    \in [Txs -> SUBSET Nat]
    /\ events  \in [Txs -> SUBSET EventTypes]
    /\ work    \in [Workers -> Job \cup {Idle}]
    /\ stale \subseteq Txs /\ half \subseteq Txs
    /\ lapsed \subseteq Txs /\ aged \subseteq Txs
    /\ faults \in Nat

\* The customer is charged once: whatever requests, forced outcomes and expiry
\* rounds overlap, one charge of a transaction at most ends successful (Finalize
\* and ForceTerminalState need a pending transaction, CreateOnce does not).
SingleSuccess ==
    \A t \in Txs : \A c, d \in Rows(t) :
        charges[c].status = "success" /\ charges[d].status = "success" => c = d

\* A successful charge has been paid for: paid_at is set, and the transaction
\* never reads pending or failed again, even if the expiry worker or a refund
\* has changed its status since.
SuccessIsPaid ==
    \A t \in Txs :
        /\ \A c \in Rows(t) : charges[c].status = "success" => paid[t]
        /\ paid[t] => status[t] \in {"success", "reversed", "abandoned"}
        /\ status[t] \in {"success", "reversed"} => paid[t]

\* While a transaction is pending it has no finished charge and at most one in
\* progress, so the form steps' lookup by lowest key cannot pick a wrong row.
OpenTxHasOneCharge ==
    \A t \in Txs : status[t] = "pending" =>
        \A c, d \in Rows(t) : c = d /\ charges[c].status = "pending"

\* The OTP on a charge that waits for one is the newest log of its transaction
\* and that log is unused: two tables, written by PIN, birthday, resend, create
\* and consumed by SubmitOTP, stay in step.  Only a MoMo charge whose scenario
\* said failure, caught before failCharge runs, has no OTP of its own.
OtpInStep ==
    \A t \in Txs : \A c \in PendingRows(t) :
        charges[c].flow = OtpFlow =>
            \/ charges[c].otp = issued[t] /\ issued[t] \notin used[t] /\ issued[t] > 0
            \/ charges[c].otp = 0 /\ charges[c].sampled # "success"

\* What the merchant is told agrees with what happened, across all overlaps of
\* a commit and its later Dispatch: success and failure are never both announced,
\* and a refund is announced only for a payment.
EventsAgree ==
    \A t \in Txs :
        /\ "charge.success" \in events[t] => paid[t]
        /\ "refund.processed" \in events[t] => paid[t]
        /\ "charge.failed" \in events[t] =>
               ~ paid[t] /\ status[t] \in {"failed", "abandoned"}

GoesOffline(c) ==
    /\ charges[c] # NoRow
    /\ charges[c].flow = OtpFlow
    /\ charges'[c].flow = "pay_offline"

UsesCurrentOtp(t, c) ==
    /\ charges[c].otp = issued[t]
    /\ used'[t] = used[t] \cup {issued[t]}

\* The scenario said failure, so the charge got no OTP, and its transaction had been
\* decided when its row was inserted.
LateFailure(c) ==
    charges[c].sampled # "success" /\ status[charges[c].tx] # "pending"

\* A MoMo charge leaves send_otp for pay_offline only with the OTP it holds at
\* that moment: one superseded by ResendOTP between SubmitOTP's two reads and
\* its AdvanceFlow is refused (the expectedOTP argument).  So does a charge whose
\* scenario said failure, if a resend gives it an OTP before failCharge runs.  Only
\* such a charge on a transaction that is decided already may pass unguarded, for
\* AdvanceFlow compares nothing with an empty OTP; Finalize will refuse it.
MomoUsesCurrentOtp ==
    [][\A c \in ChargeIds :
          GoesOffline(c) => UsesCurrentOtp(charges[c].tx, c) \/ LateFailure(c)]_vars

\* A MoMo charge that waits offline on a pending transaction has its goroutine:
\* nothing else would ever complete it.
MomoHasGoroutine ==
    \A t \in Txs : \A c \in PendingRows(t) :
        status[t] = "pending" /\ charges[c].flow = "pay_offline" =>
            \E r \in Workers : Background(work[r]) /\ work[r].charge = c

\* Without faults no MoMo charge loses its goroutine: whatever else happens to the
\* charge between SubmitOTP's reads, AdvanceFlow and Finalize agree on its flow.
MomoServed == faults = 0 => MomoHasGoroutine

\* Without faults, once its handler has returned, the charge in progress on a
\* pending transaction is in the channel the transaction reports, although
\* setTransactionChannel judges by the channel read before the insert.
ChannelFollowsCharge ==
    \A t \in Txs : \A c \in Rows(t) :
        faults = 0 /\ status[t] = "pending" =>
            \/ channel[t] = charges[c].chan
            \/ \E r \in Workers : work[r] # Idle /\ work[r].pc = "channel"
                                  /\ work[r].charge = c

\* Charges nobody will end: pending, but their transaction is decided and no round of
\* the expiry worker is about to end them.
Stuck == {c \in ChargeIds :
             /\ charges[c] # NoRow /\ charges[c].status = "pending"
             /\ status[charges[c].tx] # "pending" /\ charges[c].tx \notin half}

\* A charge is left behind only if it was missed: its row came late, inserted after
\* its transaction was decided, or a forced outcome had looked for it too early, or a
\* fault hit the expiry worker between its two statements.  No other step, and no fault
\* at any other moment, leaves one: whoever else decides a transaction ends the charge
\* that was in progress in the same commit.
StuckOnlyIfMissed ==
    [][\A c \in Stuck' \ Stuck :
          \/ charges[c] = NoRow
          \/ Locked(charges[c].tx)
          \/ faults' # faults /\ charges[c].tx \in half]_vars

\* The core keeps the merchant's promise whatever requests, rounds of the expiry
\* worker and faults overlap: each transaction is decided once, only one that was
\* pending when a round selected it lapses late, and what is announced is true of
\* the transaction, or was until a late lapse overwrote it.
Promise == INSTANCE PaymentPromise WITH doomed <- stale
KeepsPromise == Promise!Spec

\* Every transaction is settled in the end: by its charge, by force, or by the
\* expiry worker, whatever crashes and errors come first.
PendingSettles == \A t \in Txs : status[t] = "pending" ~> status[t] # "pending"
--------------------------------------------------------------------------------
(* Claims of the code's comments that its steps do not keep; see README.md. *)

\* "only one terminal transition can win": a transaction that has left pending
\* changes status again by a refund only.
TerminalIsFinal ==
    [][\A t \in Txs :
          /\ status[t] \in Outcomes /\ status'[t] # status[t]
             => status[t] = "success" /\ status'[t] = "reversed"
          /\ status[t] = "reversed" => status'[t] = "reversed"]_vars

\* "the old one is invalidated by overwriting it": a charge succeeds from
\* send_otp only with the newest OTP of its transaction.
OldOtpInvalidated ==
    [][\A c \in ChargeIds :
          charges[c] # NoRow /\ charges[c].flow = OtpFlow =>
              \A k \in used'[charges[c].tx] \ used[charges[c].tx] :
                  k = issued[charges[c].tx]]_vars

\* "a charge stuck at send_pin or pay_offline for over an hour should also be
\* marked as failed": every pending charge is ended.
PendingChargesEnd ==
    \A c \in ChargeIds :
        charges[c] # NoRow /\ charges[c].status = "pending"
        ~> charges[c].status # "pending"
================================================================================
