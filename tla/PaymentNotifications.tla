-------------------------- MODULE PaymentNotifications --------------------------
(***************************************************************************)
(* The payment core and webhook delivery together, from the customer's     *)
(* payment to the merchant's endpoint.  A goroutine of the core that is to *)
(* announce an outcome runs Dispatch itself, up to CreateEvent; delivery   *)
(* goes on in goroutines of its own.  While a worker is inside Dispatch,   *)
(* one sender holds what it remembers there.  The process is one: a crash  *)
(* or a shutdown ends the goroutines of both components.                   *)
(***************************************************************************)
EXTENDS ChargeLifecycle

CONSTANTS
    Senders, RetryLimit, MaxRetries   \* of delivery

ASSUME NoticeAssumption == RetryLimit \in Nat /\ MaxRetries \in Nat

VARIABLES
    url, row, tries, succeeded, accepted, job, batch, retries   \* of delivery

\* The delivery key of an event is made of its transaction and type.
Events     == Txs \X EventTypes
HookFaults == FaultKinds \ {"shutdown"}
Hooks == INSTANCE WebhookDelivery WITH FaultKinds <- HookFaults

core       == <<table, work, sweep, aged>>
hooks      == <<url, row, tries, succeeded, accepted, job, batch, retries>>
systemVars == <<core, hooks, faults>>
--------------------------------------------------------------------------------
\* The event a goroutine in Dispatch announces, and the senders that stand for
\* it there.
News(w)     == <<w.tx, EventOf(w.result)>>
Inside(r)   == Hooks!At("insert", News(work[r]))
Announcing  == {r \in Workers : work[r].pc = "dispatch"}

SystemInit == Init /\ Hooks!Init

\* Dispatch finds the merchant and its URL, and prepares the event.
EnterDispatch(r, s) ==
    /\ r \in Announcing /\ Inside(r) = {}
    /\ Hooks!Dispatch(s, News(work[r]))
    /\ UNCHANGED <<core, faults>>

\* There is no URL: nothing is recorded.
SkipDispatch(r) ==
    /\ r \in Announcing /\ Inside(r) = {} /\ ~ url
    /\ Dispatch(r) /\ UNCHANGED events
    /\ UNCHANGED hooks

\* CreateEvent: the event is in the table, the goroutine of the core goes its way
\* and the delivery its own.
RecordEvent(r, s) ==
    /\ r \in Announcing /\ s \in Inside(r)
    /\ Dispatch(r) /\ EventOf(work[r].result) \in events'[work[r].tx]
    /\ Hooks!CreateEvent(s)

\* A statement inside Dispatch fails: the core does not look at the error.
DispatchError(r) ==
    /\ r \in Announcing
    /\ RequestError(r)
    /\ IF Inside(r) = {} THEN UNCHANGED hooks
       ELSE \E s \in Inside(r) : Hooks!SenderError(s)

\* All other steps belong to one component.
CoreStep ==
    /\ \/ \E t \in Txs, ch \in {""} \cup {cf[1] : cf \in Kinds} : Initialize(t, ch)
       \/ \E r \in Workers \ Announcing :
             \/ RequestError(r)
             \/ \E t \in Txs : Arrive(r, t)
       \/ ExpiryWorker
       \/ \E t \in Txs : Age(t) \/ SweepError(t)
    /\ UNCHANGED hooks

Deliver(s) ==
    /\ \/ Hooks!FindMerchant(s) \/ Hooks!Post(s)
       \/ Hooks!CreateAttempt(s) \/ Hooks!RecordAttemptResult(s)
    /\ UNCHANGED core

HookStep ==
    \/ \E s \in Senders : Deliver(s)
    \/ /\ \/ Hooks!RetryWorker \/ Hooks!UpdateProfile
          \/ \E s \in Senders, e \in Events : Hooks!Retry(s, e)
          \/ \E s \in Senders : job[s].pc # "insert" /\ Hooks!SenderError(s)
       /\ UNCHANGED core

Stop == (Crash \/ Shutdown) /\ Hooks!Restart

\* What a goroutine of the core does next.
WorkerStep(r) ==
    \/ r \notin Announcing /\ Continue(r) /\ UNCHANGED hooks
    \/ \E s \in Senders : RecordEvent(r, s)

BeginDispatch(r) == SkipDispatch(r) \/ \E s \in Senders : EnterDispatch(r, s)

SystemNext ==
    \/ \E r \in Workers : WorkerStep(r) \/ BeginDispatch(r) \/ DispatchError(r)
    \/ CoreStep
    \/ HookStep
    \/ Stop

SystemSpec == SystemInit /\ [][SystemNext]_systemVars

\* As in the two components: goroutines run, tickers fire and transactions age.
\* Whoever needs a sender, a goroutine inside Dispatch or the retry worker, gets
\* one in the end, though others may take the few there are here first.
SystemFairness ==
    /\ \A r \in Workers : SF_systemVars(WorkerStep(r) \/ BeginDispatch(r))
    /\ WF_systemVars(ExpiryWorker /\ UNCHANGED hooks)
    /\ \A t \in Txs : WF_systemVars(Age(t) /\ UNCHANGED hooks)
    /\ \A s \in Senders : WF_systemVars(Deliver(s))
    /\ SF_systemVars(Hooks!RetryWorker /\ UNCHANGED core)

LiveSystem == SystemSpec /\ SystemFairness
--------------------------------------------------------------------------------
(* Properties. *)

\* The endpoint never accepts false news, however deliveries and retries of an
\* outcome lag behind refunds, forced outcomes and the expiry worker: a success or
\* a refund only of a payment that was made, a failure only of one that was not;
\* and what the core takes for recorded is what the delivery table holds.
NoFalseNews ==
    \A t \in Txs :
        /\ <<t, "charge.success">> \in accepted => paid[t]
        /\ <<t, "refund.processed">> \in accepted => paid[t]
        /\ <<t, "charge.failed">> \in accepted => ~ paid[t]
        /\ events[t] = {k \in EventTypes : <<t, k>> \in Hooks!Recorded}

\* The outcomes the core knows of and delivery has not dealt with.
Outcome(t) == (IF paid[t] THEN {"charge.success"} ELSE {}) \cup
              CASE status[t] = "failed"   -> {"charge.failed"}
                [] status[t] = "reversed" -> {"refund.processed"}
                [] OTHER                  -> {}
Untold == {e \in Events : e[2] \in Outcome(e[1]) /\ ~ Hooks!Settled(e)}

\* Outcomes that are not in the delivery table and that no goroutine is about to put
\* there: nothing will ever tell the merchant.
Forgotten ==
    {e \in Events : /\ e[2] \in Outcome(e[1]) /\ e \notin Hooks!Recorded
                   /\ \A r \in Announcing : News(work[r]) # e}

\* An outcome is forgotten only by a fault at that step, or because the merchant has
\* no URL then: every other way from a commit through Dispatch to the table, or to
\* an event of the same key that is there already, keeps it.
ForgottenOnlyByFault ==
    [][Forgotten' \subseteq Forgotten \/ ~ url \/ faults' # faults]_systemVars

\* A merchant that has a URL in the end is told of every outcome that is not
\* forgotten: its event is delivered, or tried to the limit, whatever errors and
\* crashes come during the delivery: the retry worker takes up what is in the table.
\* Only an outcome that never got there, between its commit and the end of its
\* Dispatch, is lost; ForgottenOnlyByFault says how that can happen.
OutcomesTold == <>[]url => []<>(Untold \subseteq Forgotten)
================================================================================
