---------------------------- MODULE WebhookDelivery ----------------------------
(***************************************************************************)
(* Webhook delivery: the events of one merchant, the goroutines that send  *)
(* them, the attempts they record, the retry worker and the dashboard's    *)
(* Retry.  An event is named by its delivery key, transaction and type.    *)
(*                                                                         *)
(* A Sender is a goroutine: a caller inside Dispatch, or one running       *)
(* deliver.  Each database access and the HTTP exchange is one step, and   *)
(* job[s] holds what the goroutine remembers in between.  The merchant's   *)
(* endpoint is part of the environment; accepted is what it has accepted.  *)
(* InsertsAgain, ResultTrusting and their like are faulty variants of the  *)
(* definition that follows them, see ChargeLifecycle.                      *)
(***************************************************************************)
EXTENDS Integers, FiniteSets

CONSTANTS
    Events,      \* delivery keys
    Senders,     \* goroutines
    RetryLimit,  \* the retry worker leaves an event alone after so many attempts
    MaxRetries,  \* bound: clicks on Retry in the dashboard
    MaxFaults,   \* bound: faults in a behaviour
    FaultKinds   \* which of AllFaultKinds may happen

AllFaultKinds == {"error", "crash"}

ASSUME LimitAssumption == RetryLimit \in Nat
ASSUME DeliveryBoundAssumption == MaxRetries \in Nat /\ MaxFaults \in Nat
ASSUME DeliveryFaultAssumption == FaultKinds \subseteq AllFaultKinds

VARIABLES
    url,       \* the merchant has a webhook URL
    row,       \* webhook_events
    tries,     \* webhook_attempts: the number of rows of an event
    succeeded, \* events one of whose attempt rows says succeeded
    accepted,  \* environment: events the endpoint has answered with 2xx
    job,       \* what each goroutine is doing
    batch,     \* retry worker: selected events it has not spawned yet
    retries,   \* clicks on Retry so far
    faults     \* faults so far

store  == <<row, tries, succeeded>>
counts == <<retries, faults>>
vars   == <<url, store, accepted, job, batch, counts>>
--------------------------------------------------------------------------------
NoEvent == [status |-> "none"]
Event   == [delivered : BOOLEAN, attempts : Nat]
Idle    == [pc |-> "idle"]
Job     == [pc : {"insert", "lookup", "post", "attempt", "result"},
            event : Events, ok : BOOLEAN]

Recorded    == {e \in Events : row[e] # NoEvent}
Delivered   == {e \in Recorded : row[e].delivered}
At(pc, e)   == {s \in Senders : job[s] # Idle /\ job[s].pc = pc /\ job[s].event = e}

NewJob(pc, e) == [pc |-> pc, event |-> e, ok |-> FALSE]

Begin(s, w) == job[s] = Idle /\ job' = [job EXCEPT ![s] = w]
Goto(s, w)  == job' = [job EXCEPT ![s] = w]
Return(s)   == job' = [job EXCEPT ![s] = Idle]

Init ==
    /\ url       \in BOOLEAN
    /\ row       = [e \in Events |-> NoEvent]
    /\ tries     = [e \in Events |-> 0]
    /\ succeeded = {}
    /\ accepted  = {}
    /\ job       = [s \in Senders |-> Idle]
    /\ batch     = {}
    /\ retries   = 0
    /\ faults    = 0
--------------------------------------------------------------------------------
\* Dispatch, called after a transaction was decided or refunded: without a URL
\* no event is recorded.
Dispatch(s, e) ==
    /\ url
    /\ Begin(s, NewJob("insert", e))
    /\ UNCHANGED <<url, store, accepted, batch, counts>>

InsertsAgain(e) == TRUE
InsertsFirst(e) == Recorded = {}

\* The unique index on delivery_key: ON CONFLICT DO NOTHING.
Inserts(e) == e \notin Recorded

\* CreateEvent; the caller that inserted the row starts the first delivery.
CreateEvent(s) ==
    LET w == job[s] IN
    /\ w.pc = "insert"
    /\ IF Inserts(w.event)
       THEN /\ row' = [row EXCEPT ![w.event] = [delivered |-> FALSE, attempts |-> 0]]
            /\ Goto(s, [w EXCEPT !.pc = "lookup"])
       ELSE Return(s) /\ UNCHANGED row
    /\ UNCHANGED <<url, tries, succeeded, accepted, batch, counts>>

\* deliver looks the merchant up again: its URL may be gone by now, and then
\* nothing is sent and nothing recorded.
FindMerchant(s) ==
    LET w == job[s] IN
    /\ w.pc = "lookup"
    /\ IF url THEN Goto(s, [w EXCEPT !.pc = "post"]) ELSE Return(s)
    /\ UNCHANGED <<url, store, accepted, batch, counts>>

\* The HTTP exchange: the endpoint may accept the event and the answer be lost.
Post(s) ==
    LET w == job[s] IN
    /\ w.pc = "post"
    /\ \/ /\ accepted' = accepted \cup {w.event}
          /\ \E ok \in BOOLEAN : Goto(s, [w EXCEPT !.pc = "attempt", !.ok = ok])
       \/ /\ Goto(s, [w EXCEPT !.pc = "attempt", !.ok = FALSE])
          /\ UNCHANGED accepted
    /\ UNCHANGED <<url, store, batch, counts>>

\* CreateAttempt.
CreateAttempt(s) ==
    LET w == job[s] IN
    /\ w.pc = "attempt"
    /\ tries' = [tries EXCEPT ![w.event] = @ + 1]
    /\ succeeded' = IF w.ok THEN succeeded \cup {w.event} ELSE succeeded
    /\ Goto(s, [w EXCEPT !.pc = "result"])
    /\ UNCHANGED <<url, row, accepted, batch, counts>>

ResultTrusting(w)   == [delivered |-> TRUE, attempts |-> row[w.event].attempts + 1]
ResultCountsDown(w) == [delivered |-> row[w.event].delivered \/ w.ok,
                        attempts  |-> row[w.event].attempts - 1]
ResultNotCounted(w) == [delivered |-> row[w.event].delivered \/ w.ok,
                        attempts  |-> IF w.ok THEN row[w.event].attempts
                                      ELSE row[w.event].attempts + 1]

\* The row after an attempt: counted in the database, delivered only set.
Result(w) == [delivered |-> row[w.event].delivered \/ w.ok,
              attempts  |-> row[w.event].attempts + 1]

\* RecordAttemptResult, a separate statement.
RecordAttemptResult(s) ==
    LET w == job[s] IN
    /\ w.pc = "result"
    /\ row' = [row EXCEPT ![w.event] = Result(w)]
    /\ Return(s)
    /\ UNCHANGED <<url, tries, succeeded, accepted, batch, counts>>

\* The dashboard's Retry, delivered or not.
Retry(s, e) ==
    /\ retries < MaxRetries
    /\ e \in Recorded
    /\ Begin(s, NewJob("lookup", e))
    /\ retries' = retries + 1
    /\ UNCHANGED <<url, store, accepted, batch, faults>>

DueAlways == {e \in Recorded : ~ row[e].delivered}
DueOnce == {e \in Recorded : ~ row[e].delivered /\ row[e].attempts < 1}
DueTried == {e \in Recorded : /\ ~ row[e].delivered
                              /\ row[e].attempts > 0 /\ row[e].attempts < RetryLimit}

\* FindUndeliveredEvents.
Due == {e \in Recorded : ~ row[e].delivered /\ row[e].attempts < RetryLimit}

\* A tick of the retry worker, which may find older deliveries under way.
SelectDue ==
    /\ batch = {}
    /\ batch' = Due
    /\ batch' # {}
    /\ UNCHANGED <<url, store, accepted, job, counts>>

\* It starts a goroutine for each selected event.
Spawn(s, e) ==
    /\ e \in batch
    /\ batch' = batch \ {e}
    /\ Begin(s, NewJob("lookup", e))
    /\ UNCHANGED <<url, store, accepted, counts>>

\* UpdateProfile sets or clears the URL, or writes an older one back.
UpdateProfile ==
    /\ url' \in BOOLEAN
    /\ UNCHANGED <<store, accepted, job, batch, counts>>
--------------------------------------------------------------------------------
Fault(kind) ==
    /\ kind \in FaultKinds
    /\ faults < MaxFaults
    /\ faults' = faults + 1

\* A database call fails: the goroutine logs it, or returns it, and ends.
SenderError(s) ==
    /\ Fault("error")
    /\ job[s] # Idle
    /\ Return(s)
    /\ UNCHANGED <<url, store, accepted, batch, retries>>

\* The process ends, in a crash or because shutdown does not wait for senders,
\* and is started again.
Restart ==
    /\ job' = [s \in Senders |-> Idle]
    /\ batch' = {}
    /\ UNCHANGED <<url, store, accepted, retries>>

Crash == Fault("crash") /\ Restart
--------------------------------------------------------------------------------
Continue(s) ==
    \/ CreateEvent(s) \/ FindMerchant(s) \/ Post(s)
    \/ CreateAttempt(s) \/ RecordAttemptResult(s)

RetryWorker == SelectDue \/ \E s \in Senders, e \in Events : Spawn(s, e)

Next ==
    \/ \E s \in Senders :
          \/ Continue(s) \/ SenderError(s)
          \/ \E e \in Events : Dispatch(s, e) \/ Retry(s, e)
    \/ RetryWorker
    \/ UpdateProfile
    \/ Crash

Spec == Init /\ [][Next]_vars

\* Goroutines are scheduled, the ticker keeps firing, and a spawned delivery gets
\* a goroutine even when callers keep taking the few there are here.
Fairness ==
    /\ \A s \in Senders : WF_vars(Continue(s))
    /\ WF_vars(SelectDue)
    /\ \A e \in Events : SF_vars(\E s \in Senders : Spawn(s, e))

LiveSpec == Spec /\ Fairness
--------------------------------------------------------------------------------
(* Properties. *)

TypeOK ==
    /\ url \in BOOLEAN
    /\ row \in [Events -> Event \cup {NoEvent}]
    /\ tries \in [Events -> Nat]
    /\ succeeded \subseteq Events /\ accepted \subseteq Events /\ batch \subseteq Events
    /\ job \in [Senders -> Job \cup {Idle}]
    /\ retries \in Nat /\ faults \in Nat

\* The dashboard can show why an event counts as delivered: an attempt row says
\* so, and the endpoint did accept it, however deliveries of the event overlap
\* and wherever a crash falls between the attempt row and the event row.
DeliveredHasProof == Delivered \subseteq succeeded \cap accepted

\* The attempts counter follows the attempt rows: it never runs ahead, and without
\* faults it lags by exactly the deliveries between their two statements.
AttemptsAccounted ==
    \A e \in Recorded :
        /\ row[e].attempts + Cardinality(At("result", e)) <= tries[e]
        /\ faults = 0 => row[e].attempts + Cardinality(At("result", e)) = tries[e]

\* Overlapping rounds do not run away: a tick that finds an event below the limit
\* sends it again although older deliveries of it have not been counted yet, so the
\* limit is overrun, but only by the deliveries that can be under way at a time and
\* by the clicks on Retry.
Flying(e) == {s \in Senders : job[s] # Idle /\ job[s].pc # "insert" /\ job[s].event = e}
OverrunBounded ==
    \A e \in Recorded :
        row[e].attempts + Cardinality(Flying(e)) <= RetryLimit + Cardinality(Senders) + retries

\* Delivery keeps its promise: recorded before it is sent, at least once, delivered
\* only after it was accepted and never undelivered again.
Promise == INSTANCE DeliveryPromise WITH recorded <- Recorded, delivered <- Delivered
KeepsPromise == Promise!Spec

\* The retry worker gets every recorded event delivered or to its attempt limit,
\* provided the merchant keeps a URL in the end.
Settled(e) == row[e] # NoEvent /\ (row[e].delivered \/ row[e].attempts >= RetryLimit)
EventsSettle ==
    \A e \in Events : <>[] url => (row[e] # NoEvent ~> Settled(e))

\* Claim of comments that the code does not keep (see README.md): "We still record
\* the attempt", because an event without attempts is one "the retry worker
\* retr[ies] forever": events settle whatever the merchant does with its URL.
EventsAlwaysSettle == \A e \in Events : row[e] # NoEvent ~> Settled(e)
================================================================================
