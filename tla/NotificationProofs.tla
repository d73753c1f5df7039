--------------------------- MODULE NotificationProofs ---------------------------
(***************************************************************************)
(* The payment core and delivery keep their promises together: the proofs  *)
(* about each of them carry over to PaymentNotifications, and the endpoint *)
(* never accepts news that are not true.                                   *)
(***************************************************************************)
EXTENDS PaymentNotifications, ChargeProofs

D == INSTANCE DeliveryProofs WITH FaultKinds <- HookFaults

\* What DeliveryProofs assumes of its constants holds here.
LEMMA DeliveryConstants ==
    /\ RetryLimit \in Nat
    /\ MaxRetries \in Nat /\ MaxFaults \in Nat
    /\ HookFaults \subseteq D!AllFaultKinds
BY NoticeAssumption, BoundAssumption, FaultAssumption
   DEF HookFaults, AllFaultKinds, D!AllFaultKinds

\* What the core takes for recorded is what the delivery table holds.
InStep == \A t \in Txs : events[t] = {k \in EventTypes : <<t, k>> \in D!Recorded}

SystemInv == IndInv /\ LocksOK /\ D!IndInv /\ InStep

\* What a step of the composition does to the core, and to delivery.
CoreSide == Next \/ (UNCHANGED core /\ faults' \in Nat)
HookSide == D!Next \/ D!ElsewhereStep

\* Every step of delivery in the composition is one of the component.
LEMMA SameSteps ==
    /\ \A s, e : /\ Hooks!Dispatch(s, e) => D!Dispatch(s, e)
                 /\ Hooks!Retry(s, e) => D!Retry(s, e)
                 /\ Hooks!Spawn(s, e) => D!Spawn(s, e)
    /\ \A s : /\ Hooks!CreateEvent(s) => D!CreateEvent(s)
              /\ Hooks!FindMerchant(s) => D!FindMerchant(s)
              /\ Hooks!Post(s) => D!Post(s)
              /\ Hooks!CreateAttempt(s) => D!CreateAttempt(s)
              /\ Hooks!RecordAttemptResult(s) => D!RecordAttemptResult(s)
              /\ Hooks!SenderError(s) => D!SenderError(s)
    /\ Hooks!SelectDue => D!SelectDue
    /\ Hooks!UpdateProfile => D!UpdateProfile
    /\ Hooks!Restart => D!Restart
<1> USE DEF Hooks!store, D!store, Hooks!counts, D!counts, Hooks!Begin, D!Begin,
            Hooks!Goto, D!Goto, Hooks!Return, D!Return, Hooks!Idle, D!Idle,
            Hooks!NewJob, D!NewJob, Hooks!Recorded, D!Recorded, Hooks!NoEvent, D!NoEvent
<1>1. ASSUME NEW s, NEW e
      PROVE  /\ Hooks!Dispatch(s, e) => D!Dispatch(s, e)
             /\ Hooks!Retry(s, e) => D!Retry(s, e)
             /\ Hooks!Spawn(s, e) => D!Spawn(s, e)
  BY DEF Hooks!Dispatch, D!Dispatch, Hooks!Retry, D!Retry, Hooks!Spawn, D!Spawn
<1>2. ASSUME NEW s
      PROVE  /\ Hooks!CreateEvent(s) => D!CreateEvent(s)
             /\ Hooks!FindMerchant(s) => D!FindMerchant(s)
             /\ Hooks!Post(s) => D!Post(s)
             /\ Hooks!CreateAttempt(s) => D!CreateAttempt(s)
             /\ Hooks!RecordAttemptResult(s) => D!RecordAttemptResult(s)
             /\ Hooks!SenderError(s) => D!SenderError(s)
  <2>1. Hooks!CreateEvent(s) => D!CreateEvent(s)
    BY DEF Hooks!CreateEvent, D!CreateEvent, Hooks!Inserts, D!Inserts
  <2>2. Hooks!FindMerchant(s) => D!FindMerchant(s)
    BY DEF Hooks!FindMerchant, D!FindMerchant
  <2>3. Hooks!Post(s) => D!Post(s)
    BY DEF Hooks!Post, D!Post
  <2>4. Hooks!CreateAttempt(s) => D!CreateAttempt(s)
    BY DEF Hooks!CreateAttempt, D!CreateAttempt
  <2>5. Hooks!RecordAttemptResult(s) => D!RecordAttemptResult(s)
    BY DEF Hooks!RecordAttemptResult, D!RecordAttemptResult, Hooks!Result, D!Result
  <2>6. Hooks!SenderError(s) => D!SenderError(s)
    BY DEF Hooks!SenderError, D!SenderError, Hooks!Fault, D!Fault
  <2> QED BY <2>1, <2>2, <2>3, <2>4, <2>5, <2>6
<1>3. Hooks!SelectDue => D!SelectDue
  BY DEF Hooks!SelectDue, D!SelectDue, Hooks!Due, D!Due
<1>4. Hooks!UpdateProfile => D!UpdateProfile
  BY DEF Hooks!UpdateProfile, D!UpdateProfile
<1>5. Hooks!Restart => D!Restart
  BY DEF Hooks!Restart, D!Restart
<1> QED BY <1>1, <1>2, <1>3, <1>4, <1>5

\* A fault of either component leaves the other one with a count that is a number.
LEMMA FaultCount ==
    ASSUME faults \in Nat, NEW kind, Fault(kind) \/ Hooks!Fault(kind)
    PROVE  faults' \in Nat
BY DEF Fault, Hooks!Fault

\* Requests and the expiry worker announce nothing outside Dispatch.
LEMMA CoreStepEvents ==
    ASSUME CoreStep
    PROVE  /\ Next /\ events' = events /\ UNCHANGED hooks
           /\ faults' = faults \/ \E k : Fault(k)
<1> USE DEF table, sweep, ReadsOnly
<1>1. ASSUME NEW r \in Workers, NEW t \in Txs, Arrive(r, t)
      PROVE  events' = events /\ faults' = faults
  BY <1>1 DEF Arrive, StartCharge, SubmitFactor, Simulate3DS, ResendOTP, SubmitOTP, Refund, ForceOutcome
<1>2. ASSUME NEW r \in Workers, RequestError(r)
      PROVE  events' = events /\ Fault("error")
  BY <1>2 DEF RequestError
<1>3. CASE ExpiryWorker
  <2>1. events' = events /\ faults' = faults
    BY <1>3 DEF ExpiryWorker, SelectStale, ExpireTransaction, ExpireCharges
  <2> QED BY <1>3, <2>1 DEF CoreStep, Next
<1>4. ASSUME NEW t \in Txs, Age(t) \/ SweepError(t)
      PROVE  events' = events /\ (faults' = faults \/ Fault("error"))
  BY <1>4 DEF Age, SweepError
<1>5. ASSUME NEW t \in Txs, NEW ch, Initialize(t, ch)
      PROVE  events' = events /\ faults' = faults
  BY <1>5 DEF Initialize
<1> QED
  BY <1>1, <1>2, <1>3, <1>4, <1>5 DEF CoreStep, Next, Request

\* Neither does any other step of a goroutine.
LEMMA WorkerStepEvents ==
    ASSUME NEW r \in Workers, r \notin Announcing, Continue(r)
    PROVE  events' = events /\ faults' = faults
BY DEF Announcing, Continue, CreateCharge, SetChannel, CheckOTP, RefuseOTP, Advance,
       Finalize, Reverse, ForceTerminalState, CommitForced, Dispatch, table, ReadsOnly

\* Of the steps of delivery CreateEvent alone adds to the table.
LEMMA RecordedKept ==
    ASSUME D!IndInv,
           \/ \E s \in Senders, e \in Events : D!Dispatch(s, e) \/ D!Retry(s, e) \/ D!Spawn(s, e)
           \/ \E s \in Senders : \/ D!FindMerchant(s) \/ D!Post(s) \/ D!CreateAttempt(s)
                                 \/ D!RecordAttemptResult(s) \/ D!SenderError(s)
           \/ D!SelectDue \/ D!UpdateProfile \/ D!ElsewhereStep
    PROVE  D!Recorded' = D!Recorded
BY DeliveryConstants, D!BeginInv, D!SendInv, D!ResultInv, D!OtherInv

\* The two stay in step while neither adds an event.
LEMMA InStepKept ==
    ASSUME InStep, events' = events, D!Recorded' = D!Recorded
    PROVE  InStep'
BY DEF InStep

LEMMA Quiet ==
    ASSUME faults' \in Nat, UNCHANGED hooks
    PROVE  D!ElsewhereStep
BY DEF D!ElsewhereStep, D!store, hooks

\* A goroutine of the core records its event together with its sender.
LEMMA RecordEventStep ==
    ASSUME SystemInv, NEW r \in Workers, NEW s \in Senders, RecordEvent(r, s)
    PROVE  CoreSide /\ HookSide /\ InStep'
<1>1. work[r].pc = "dispatch" /\ work[r] # Idle
  BY DEF RecordEvent, Announcing, Idle
<1>2. PICK w \in Job : w = work[r]
  BY <1>1, Busy DEF SystemInv
<1>3. PICK e : e = EventOf(w.result)
  OBVIOUS
<1>4. w.tx \in Txs /\ e \in EventTypes
  BY <1>2, <1>3 DEF Job, EventOf, EventTypes
<1>5. job[s].event = <<w.tx, e>>
  BY <1>2, <1>3 DEF RecordEvent, Inside, News, Hooks!At
<1>6. events' = [events EXCEPT ![w.tx] = @ \cup {e}]
  <2>1. events \in [Txs -> SUBSET EventTypes]
    BY DEF SystemInv, IndInv, TypeOK
  <2>2. CASE events' = events
    BY <1>2, <1>3, <1>4, <2>1, <2>2 DEF RecordEvent
  <2>3. CASE events' # events
    BY <1>2, <1>3, <2>3 DEF RecordEvent, Dispatch
  <2> QED BY <2>2, <2>3
<1>7. D!CreateEvent(s)
  BY SameSteps DEF RecordEvent
<1>8. D!Recorded' = D!Recorded \cup {<<w.tx, e>>}
  BY <1>5, <1>7, DeliveryConstants, D!CreateEventInv DEF SystemInv
<1>9. InStep'
  BY <1>4, <1>6, <1>8 DEF SystemInv, InStep, IndInv, TypeOK
<1> QED
  BY <1>7, <1>9 DEF RecordEvent, CoreSide, HookSide, Next, Request, Continue, D!Next, D!Continue

\* An error inside Dispatch ends the goroutine and its sender alike.
LEMMA DispatchErrorStep ==
    ASSUME SystemInv, NEW r \in Workers, DispatchError(r)
    PROVE  CoreSide /\ HookSide /\ InStep'
<1>1. Next /\ events' = events /\ faults' \in Nat
  BY FaultCount DEF DispatchError, Announcing, Next, Request, RequestError, table,
     SystemInv, IndInv, TypeOK
<1>2. D!ElsewhereStep \/ \E s \in Senders : D!SenderError(s)
  <2>1. CASE Inside(r) = {}
    BY <1>1, <2>1, Quiet DEF DispatchError
  <2>2. CASE Inside(r) # {}
    BY <2>2, SameSteps DEF DispatchError, Inside, Hooks!At
  <2> QED BY <2>1, <2>2
<1>3. D!Recorded' = D!Recorded
  BY <1>2, RecordedKept DEF SystemInv
<1> QED
  BY <1>1, <1>2, <1>3, InStepKept DEF SystemInv, CoreSide, HookSide, D!Next

\* The steps of delivery alone.
LEMMA HookStepSides ==
    ASSUME SystemInv,
           HookStep \/ \E r \in Workers, s \in Senders : EnterDispatch(r, s)
    PROVE  CoreSide /\ HookSide /\ InStep'
<1>1. faults \in Nat
  BY DEF SystemInv, IndInv, TypeOK
<1>2. ASSUME NEW s \in Senders, Deliver(s)
      PROVE  /\ UNCHANGED core /\ faults' = faults
             /\ \/ D!FindMerchant(s) \/ D!Post(s)
                \/ D!CreateAttempt(s) \/ D!RecordAttemptResult(s)
  <2>1. \/ D!FindMerchant(s) \/ D!Post(s)
        \/ D!CreateAttempt(s) \/ D!RecordAttemptResult(s)
    BY <1>2, SameSteps DEF Deliver
  <2>2. faults' = faults
    BY <2>1 DEF D!FindMerchant, D!Post, D!CreateAttempt, D!RecordAttemptResult, D!counts
  <2> QED BY <1>2, <2>1, <2>2 DEF Deliver
<1>3. CASE \E s \in Senders : Deliver(s)
  BY <1>1, <1>2, <1>3, RecordedKept, InStepKept
  DEF SystemInv, CoreSide, HookSide, D!Next, D!Continue, core, table
<1>4. CASE Hooks!RetryWorker /\ UNCHANGED core
  <2>1. D!SelectDue \/ \E s \in Senders, e \in Events : D!Spawn(s, e)
    BY <1>4, SameSteps DEF Hooks!RetryWorker
  <2>2. faults' = faults
    BY <2>1 DEF D!SelectDue, D!Spawn, D!counts
  <2> QED
    BY <1>1, <1>4, <2>1, <2>2, RecordedKept, InStepKept
    DEF SystemInv, CoreSide, HookSide, D!Next, D!RetryWorker, core, table
<1>5. CASE Hooks!UpdateProfile /\ UNCHANGED core
  <2>1. D!UpdateProfile
    BY <1>5, SameSteps
  <2>2. faults' = faults
    BY <2>1 DEF D!UpdateProfile, D!counts
  <2> QED
    BY <1>1, <1>5, <2>1, <2>2, RecordedKept, InStepKept
    DEF SystemInv, CoreSide, HookSide, D!Next, core, table
<1>6. ASSUME NEW s \in Senders, UNCHANGED core,
             \/ Hooks!SenderError(s)
             \/ \E e \in Events : \/ Hooks!Retry(s, e)
                                  \/ Hooks!Dispatch(s, e) /\ faults' = faults
      PROVE  CoreSide /\ HookSide /\ InStep'
  <2>1. D!SenderError(s) \/ \E e \in Events : D!Retry(s, e) \/ D!Dispatch(s, e)
    BY <1>6, SameSteps
  <2>2. faults' \in Nat
    BY <1>1, <1>6, FaultCount DEF Hooks!SenderError, Hooks!Retry
  <2> QED
    BY <1>6, <2>1, <2>2, RecordedKept, InStepKept
    DEF SystemInv, CoreSide, HookSide, D!Next, core, table
<1>7. ASSUME NEW r \in Workers, NEW s \in Senders, EnterDispatch(r, s)
      PROVE  CoreSide /\ HookSide /\ InStep'
  <2>1. News(work[r]) \in Events
    <3>1. work[r].pc = "dispatch" /\ work[r] # Idle
      BY <1>7 DEF EnterDispatch, Announcing, Idle
    <3>2. work[r] \in Job
      BY <3>1, Busy DEF SystemInv
    <3> QED BY <3>2 DEF Job, News, Events, EventOf, EventTypes
  <2> QED BY <1>6, <1>7, <2>1 DEF EnterDispatch
<1> QED
  BY <1>3, <1>4, <1>5, <1>6, <1>7 DEF HookStep

\* Every step of the composition is a step of each component, or leaves it alone.
LEMMA Sides ==
    ASSUME SystemInv, SystemNext
    PROVE  CoreSide /\ HookSide /\ InStep'
<1>1. faults \in Nat
  BY DEF SystemInv, IndInv, TypeOK
<1>2. ASSUME NEW r \in Workers, r \notin Announcing, Continue(r), UNCHANGED hooks
      PROVE  CoreSide /\ HookSide /\ InStep'
  <2>1. D!ElsewhereStep
    BY <1>1, <1>2, WorkerStepEvents, Quiet
  <2> QED
    BY <1>2, <2>1, WorkerStepEvents, RecordedKept, InStepKept
    DEF SystemInv, CoreSide, HookSide, Next, Request
<1>3. ASSUME NEW r \in Workers, SkipDispatch(r)
      PROVE  CoreSide /\ HookSide /\ InStep'
  <2>1. D!ElsewhereStep /\ events' = events
    BY <1>1, <1>3, Quiet DEF SkipDispatch, Dispatch
  <2> QED
    BY <1>3, <2>1, RecordedKept, InStepKept
    DEF SystemInv, CoreSide, HookSide, Next, Request, Continue, SkipDispatch
<1>4. CASE CoreStep
  <2>1. D!ElsewhereStep
    BY <1>1, <1>4, CoreStepEvents, FaultCount, Quiet
  <2> QED
    BY <1>4, <2>1, CoreStepEvents, RecordedKept, InStepKept DEF SystemInv, CoreSide, HookSide
<1>5. CASE Stop
  <2>1. D!ElsewhereStep
    BY <1>1, <1>5, SameSteps, FaultCount DEF Stop, Crash, Shutdown, D!ElsewhereStep
  <2>2. events' = events
    BY <1>5 DEF Stop, Crash, Shutdown, Restart, table
  <2> QED
    BY <1>5, <2>1, <2>2, RecordedKept, InStepKept DEF SystemInv, CoreSide, HookSide, Next, Stop
<1> QED
  BY <1>2, <1>3, <1>4, <1>5, RecordEventStep, DispatchErrorStep, HookStepSides
  DEF SystemNext, WorkerStep, BeginDispatch

\* The core's invariant does not depend on how many faults delivery had.
LEMMA CoreRests ==
    ASSUME IndInv, LocksOK, UNCHANGED core, faults' \in Nat
    PROVE  IndInv' /\ LocksOK'
<1>1. aged \subseteq Txs
  BY DEF IndInv, TypeOK
<1>2. IndInv'
  BY <1>1, QuietStep DEF core, sweep
<1>3. LocksOK'
  BY DEF core, table, LocksOK
<1> QED
  BY <1>2, <1>3

LEMMA SystemStutters ==
    ASSUME SystemInv, UNCHANGED systemVars
    PROVE  CoreSide /\ HookSide /\ InStep'
<1>1. UNCHANGED core /\ faults' \in Nat /\ D!ElsewhereStep /\ events' = events
  BY Quiet DEF SystemInv, IndInv, TypeOK, systemVars, core, table
<1> QED
  BY <1>1, RecordedKept, InStepKept DEF SystemInv, CoreSide, HookSide

\* The composition keeps the invariants of both components, and what the core takes
\* for recorded stays what the delivery table holds.
THEOREM SystemInvariance == SystemSpec => []SystemInv
<1>1. SystemInit => SystemInv
  <2> SUFFICES ASSUME SystemInit PROVE SystemInv
    OBVIOUS
  <2>1. IndInv /\ LocksOK
    BY InitIndInv, InitLocksOK DEF SystemInit
  <2>2. D!Init
    BY DEF SystemInit, Hooks!Init, D!Init, Hooks!NoEvent, D!NoEvent, Hooks!Idle, D!Idle
  <2>3. D!IndInv
    BY <2>2, DeliveryConstants, D!InitInv
  <2>4. InStep
    BY <2>2 DEF InStep, SystemInit, Init, D!Init, D!Recorded
  <2> QED BY <2>1, <2>3, <2>4 DEF SystemInv
<1>2. SystemInv /\ [SystemNext]_systemVars => SystemInv'
  <2> SUFFICES ASSUME SystemInv, [SystemNext]_systemVars PROVE SystemInv'
    OBVIOUS
  <2>1. CoreSide /\ HookSide /\ InStep'
    BY Sides, SystemStutters
  <2>2. IndInv' /\ LocksOK'
    BY <2>1, NextIndInv, NextLocksOK, CoreRests DEF SystemInv, CoreSide
  <2>3. D!IndInv'
    BY <2>1, DeliveryConstants, D!StepInv DEF SystemInv, HookSide
  <2> QED BY <2>1, <2>2, <2>3 DEF SystemInv
<1> QED
  BY <1>1, <1>2, PTL DEF SystemSpec

\* The composition keeps the core's promise to the merchant.
THEOREM SystemKeepsPaymentPromise == SystemSpec => KeepsPromise
<1>1. SystemInit => Promise!Init
  BY DEF SystemInit, Init, Promise!Init
<1>2. SystemInv /\ [SystemNext]_systemVars => [Promise!Next]_Promise!vars
  <2> SUFFICES ASSUME SystemInv, [SystemNext]_systemVars PROVE [Promise!Next]_Promise!vars
    OBVIOUS
  <2>1. CoreSide
    BY Sides, SystemStutters
  <2>2. CASE Next
    BY <2>2, PromiseStep DEF SystemInv, Promise!vars, promised
  <2>3. CASE UNCHANGED core
    BY <2>3 DEF core, table, sweep, Promise!vars
  <2> QED BY <2>1, <2>2, <2>3 DEF CoreSide
<1> QED
  BY <1>1, <1>2, SystemInvariance, PTL DEF SystemSpec, KeepsPromise, Promise!Spec

\* And delivery keeps its own, driven by the core.
THEOREM SystemKeepsDeliveryPromise == SystemSpec => Hooks!KeepsPromise
<1>1. SystemInit => Hooks!Promise!Init
  BY DEF SystemInit, Hooks!Init, Hooks!Promise!Init, Hooks!Recorded, Hooks!Delivered
<1>2. SystemInv /\ [SystemNext]_systemVars => [Hooks!Promise!Next]_Hooks!Promise!vars
  <2> SUFFICES ASSUME SystemInv, [SystemNext]_systemVars
               PROVE  [Hooks!Promise!Next]_Hooks!Promise!vars
    OBVIOUS
  <2>1. HookSide
    BY Sides, SystemStutters
  <2>2. [D!Promise!Next]_D!Promise!vars
    BY <2>1, DeliveryConstants, D!StepInv DEF SystemInv, HookSide
  <2> QED
    BY <2>2 DEF Hooks!Promise!Next, D!Promise!Next, Hooks!Promise!vars, D!Promise!vars,
        Hooks!Promise!Record, D!Promise!Record, Hooks!Promise!Accept, D!Promise!Accept,
        Hooks!Promise!Confirm, D!Promise!Confirm, Hooks!Recorded, D!Recorded,
        Hooks!Delivered, D!Delivered, Hooks!NoEvent, D!NoEvent
<1> QED
  BY <1>1, <1>2, SystemInvariance, PTL DEF SystemSpec, Hooks!KeepsPromise, Hooks!Promise!Spec

\* The endpoint never accepts news that are not true, for any number of
\* transactions, charges, goroutines, senders and retries.
THEOREM NewsAreTrue == SystemSpec => []NoFalseNews
<1>1. SystemInv => NoFalseNews
  <2> SUFFICES ASSUME SystemInv, NEW t \in Txs
               PROVE  /\ <<t, "charge.success">> \in accepted => paid[t]
                      /\ <<t, "refund.processed">> \in accepted => paid[t]
                      /\ <<t, "charge.failed">> \in accepted => ~ paid[t]
                      /\ events[t] = {k \in EventTypes : <<t, k>> \in Hooks!Recorded}
    BY DEF NoFalseNews
  <2>1. events[t] = {k \in EventTypes : <<t, k>> \in D!Recorded}
    BY DEF SystemInv, InStep
  <2>2. accepted \subseteq D!Recorded
    BY DEF SystemInv, D!IndInv, D!StoreOK
  <2>3. D!Recorded = Hooks!Recorded
    BY DEF D!Recorded, Hooks!Recorded, D!NoEvent, Hooks!NoEvent
  <2>4. \A k \in EventTypes : <<t, k>> \in accepted => k \in events[t]
    BY <2>1, <2>2
  <2>5. EventOK(t)
    BY DEF SystemInv, IndInv, EventsOK
  <2> QED
    BY <2>1, <2>3, <2>4, <2>5 DEF EventOK, EventTypes
<1> QED
  BY <1>1, SystemInvariance, PTL
--------------------------------------------------------------------------------
\* An outcome is a success once it was paid, and what the status says.
LEMMA OutcomeFacts ==
    ASSUME NEW t \in Txs, NEW k
    PROVE  k \in Outcome(t) <=> \/ (paid[t] /\ k = "charge.success")
                               \/ (status[t] = "failed" /\ k = "charge.failed")
                               \/ (status[t] = "reversed" /\ k = "refund.processed")
<1>1. CASE status[t] = "failed"
  BY <1>1 DEF Outcome
<1>2. CASE status[t] = "reversed"
  BY <1>2 DEF Outcome
<1>3. CASE status[t] \notin {"failed", "reversed"}
  BY <1>3 DEF Outcome
<1> QED
  BY <1>1, <1>2, <1>3

\* And after a step.
LEMMA OutcomeFactsNext ==
    ASSUME NEW t \in Txs, NEW k
    PROVE  k \in Outcome(t)' <=> \/ (paid'[t] /\ k = "charge.success")
                                \/ (status'[t] = "failed" /\ k = "charge.failed")
                                \/ (status'[t] = "reversed" /\ k = "refund.processed")
<1>1. CASE status'[t] = "failed"
  BY <1>1 DEF Outcome
<1>2. CASE status'[t] = "reversed"
  BY <1>2 DEF Outcome
<1>3. CASE status'[t] \notin {"failed", "reversed"}
  BY <1>3 DEF Outcome
<1> QED
  BY <1>1, <1>2, <1>3

\* A goroutine that decides a transaction is about to announce what it decided.
LEMMA DecidedIsAnnounced ==
    ASSUME IndInv, LocksOK, NEW r \in Workers, r \notin Announcing, Continue(r),
           NEW t \in Txs, NEW k \in EventTypes, k \in Outcome(t)', k \notin Outcome(t)
    PROVE  r \in Announcing' /\ News(work[r])' = <<t, k>>
<1>1. /\ status \in [Txs -> TxStatuses \cup {"none"}] /\ paid \in [Txs -> BOOLEAN]
      /\ work \in [Workers -> Job \cup {Idle}]
  BY DEF IndInv, TypeOK
<1>2. ~ UNCHANGED <<status, paid>>
  BY OutcomeFacts DEF Outcome
<1>3. \/ Finalize(r) /\ Finalizes(work[r])
      \/ Reverse(r) /\ Reverses(work[r])
      \/ ForceTerminalState(r) \/ CommitForced(r)
  BY <1>2 DEF Continue, CreateCharge, SetChannel, CheckOTP, RefuseOTP, Advance, Announcing,
      Finalize, Reverse, Dispatch, ReadsOnly, table
<1>4. PICK w \in Job : w = work[r] /\ w.pc \in {"finalize", "reverse", "force", "commit"}
  <2>1. work[r].pc \in {"finalize", "reverse", "force", "commit"}
    BY <1>3 DEF Finalize, Reverse, ForceTerminalState, CommitForced
  <2>2. work[r] # Idle
    BY <2>1 DEF Idle
  <2> QED
    BY <1>1, <2>1, <2>2
<1>5. w.tx \in Txs /\ w.result \in TxStatuses
  BY DEF Job
<1>6. /\ status' = [status EXCEPT ![w.tx] = w.result]
      /\ \A u \in Txs : paid'[u] => paid[u] \/ (u = w.tx /\ w.result = "success")
      /\ w.result = "abandoned" \/ work' = [work EXCEPT ![r] = Announce(w)]
  <2>1. CASE Finalize(r) /\ Finalizes(work[r])
    <3>1. paid' = [paid EXCEPT ![w.tx] = paid[w.tx] \/ w.result = "success"]
      BY <1>4, <2>1 DEF Finalize
    <3> QED
      BY <1>1, <1>4, <1>5, <2>1, <3>1 DEF Finalize, Goto
  <2>2. CASE ForceTerminalState(r) \/ CommitForced(r)
    <3>1. PICK v \in Job :
             /\ v = work[r]
             /\ \/ /\ status' = [status EXCEPT ![v.tx] = v.result]
                   /\ paid' = [paid EXCEPT ![v.tx] = @ \/ v.result = "success"]
                   /\ IF v.result = "abandoned" THEN Return(r) ELSE Goto(r, Announce(v))
                \/ UNCHANGED <<status, paid>>
      BY <2>2, ForcedCases DEF ForcedChange
    <3>2. v = w
      BY <1>4, <3>1
    <3> QED
      BY <1>1, <1>2, <1>5, <3>1, <3>2 DEF Goto
  <2>3. CASE Reverse(r) /\ Reverses(work[r])
    <3>1. w.result = "reversed"
      <4>1. w.pc = "reverse" /\ w # Idle
        BY <1>4, <2>3 DEF Reverse, Idle
      <4> QED
        BY <1>4, <4>1, Busy DEF JobOK
    <3> QED
      BY <1>4, <1>5, <2>3, <3>1 DEF Reverse, Goto
  <2> QED
    BY <1>3, <2>1, <2>2, <2>3
<1>7. /\ \A u \in Txs \ {w.tx} : status'[u] = status[u]
      /\ status'[w.tx] = w.result
  BY <1>1, <1>5, <1>6
<1>8. /\ t = w.tx
      /\ \/ w.result = "success" /\ k = "charge.success"
         \/ w.result = "failed" /\ k = "charge.failed"
         \/ w.result = "reversed" /\ k = "refund.processed"
  BY <1>6, <1>7, OutcomeFacts, OutcomeFactsNext
<1>9. work'[r] = Announce(w)
  BY <1>1, <1>6, <1>8
<1>10. /\ Announce(w).pc = "dispatch" /\ Announce(w).tx = w.tx
       /\ Announce(w).result = w.result
  BY DEF Announce, NewJob
<1> QED
  BY <1>8, <1>9, <1>10 DEF Announcing, News, EventOf
\* A step of a goroutine touches its own job only.
LEMMA OwnJob ==
    ASSUME IndInv, NEW r \in Workers, Continue(r), NEW q \in Workers, q # r
    PROVE  work'[q] = work[q]
<1>1. work \in [Workers -> Job \cup {Idle}]
  BY DEF IndInv, TypeOK
<1>2. work' = work \/ \E w : work' = [work EXCEPT ![r] = w]
  <2>1. CASE ForceTerminalState(r) \/ CommitForced(r)
    BY <2>1 DEF ForceTerminalState, CommitForced, Decide, Goto, Return
  <2>2. CASE ~ (ForceTerminalState(r) \/ CommitForced(r))
    BY <2>2 DEF Continue, CreateCharge, SetChannel, CheckOTP, RefuseOTP, Advance, Finalize,
        Reverse, Dispatch, Goto, Return
  <2> QED
    BY <2>1, <2>2
<1> QED
  BY <1>1, <1>2

\* Requests that arrive, the expiry worker and time decide nothing that is announced,
\* and leave the goroutines in Dispatch alone.
LEMMA CoreStepTells ==
    ASSUME IndInv, CoreStep, faults' = faults
    PROVE  /\ \A t \in Txs : Outcome(t)' \subseteq Outcome(t)
           /\ \A r \in Announcing : work'[r] = work[r]
<1>1. /\ status \in [Txs -> TxStatuses \cup {"none"}] /\ paid \in [Txs -> BOOLEAN]
      /\ work \in [Workers -> Job \cup {Idle}] /\ faults \in Nat
  BY DEF IndInv, TypeOK
<1> DEFINE Tells ==
      /\ paid' = paid
      /\ \/ status' = status
         \/ \E t \in Txs, o \in {"pending", "abandoned"} : status' = [status EXCEPT ![t] = o]
      /\ \/ work' = work
         \/ \E r \in Workers : \E w : work[r] = Idle /\ work' = [work EXCEPT ![r] = w]
<1>2. Tells
  <2>1. ASSUME NEW r \in Workers, NEW t \in Txs, Arrive(r, t) PROVE Tells
    BY <2>1 DEF Arrive, StartCharge, SubmitFactor, Simulate3DS, ResendOTP, SubmitOTP, Refund,
        ForceOutcome, Read, Begin, Goto, ReadsOnly, table
  <2>2. ASSUME NEW t \in Txs, NEW ch, Initialize(t, ch) PROVE Tells
    BY <2>2 DEF Initialize
  <2>3. CASE ExpiryWorker
    BY <2>3 DEF ExpiryWorker, SelectStale, ExpireTransaction, ExpireCharges, table
  <2>4. ASSUME NEW t \in Txs, Age(t) PROVE Tells
    BY <2>4 DEF Age, table
  <2>5. ASSUME NEW t \in Txs, SweepError(t) PROVE FALSE
    BY <1>1, <2>5 DEF SweepError, Fault
  <2>6. ASSUME NEW r \in Workers, RequestError(r) PROVE FALSE
    BY <1>1, <2>6 DEF RequestError, Fault
  <2> QED
    BY <2>1, <2>2, <2>3, <2>4, <2>5, <2>6 DEF CoreStep
<1>3. ASSUME NEW t \in Txs, NEW k \in Outcome(t)' PROVE k \in Outcome(t)
  <2>1. status'[t] = status[t] \/ status'[t] \in {"pending", "abandoned"}
    BY <1>1, <1>2
  <2> QED
    BY <1>2, <1>3, <2>1, OutcomeFacts, OutcomeFactsNext
<1>4. \A r \in Announcing : work'[r] = work[r]
  BY <1>1, <1>2 DEF Announcing, Idle
<1> QED
  BY <1>3, <1>4

\* The delivery table only grows.
LEMMA RecordedGrows ==
    ASSUME SystemInv, [SystemNext]_systemVars
    PROVE  Hooks!Recorded \subseteq Hooks!Recorded'
<1>1. HookSide
  BY Sides, SystemStutters
<1>2. [D!Promise!Next]_D!Promise!vars
  BY <1>1, DeliveryConstants, D!StepInv DEF SystemInv, HookSide
<1>3. D!Recorded \subseteq D!Recorded'
  BY <1>2 DEF D!Promise!Next, D!Promise!vars, D!Promise!Record, D!Promise!Accept,
      D!Promise!Confirm
<1> QED
  BY <1>3 DEF D!Recorded, Hooks!Recorded, D!NoEvent, Hooks!NoEvent

\* An outcome that no step of this kind makes, and no goroutine drops, is not forgotten.
LEMMA NotForgotten ==
    ASSUME SystemInv, [SystemNext]_systemVars, NEW e \in Forgotten',
           e[2] \in Outcome(e[1]),
           \A r \in Announcing : News(work[r]) = e => work'[r] = work[r]
    PROVE  e \in Forgotten
<1>1. e \in Events /\ e \notin Hooks!Recorded
  BY RecordedGrows DEF Forgotten
<1>2. ASSUME NEW r \in Announcing, News(work[r]) = e PROVE FALSE
  <2>1. r \in Announcing' /\ News(work[r])' = e
    BY <1>2 DEF Announcing, News
  <2> QED
    BY <2>1 DEF Forgotten
<1> QED
  BY <1>1, <1>2 DEF Forgotten

LEMMA ForgottenStep ==
    ASSUME SystemInv, [SystemNext]_systemVars, url, faults' = faults, NEW e \in Forgotten'
    PROVE  e \in Forgotten
<1>1. PICK t \in Txs, k \in EventTypes : e = <<t, k>>
  BY DEF Forgotten, Events
<1>2. k \in Outcome(t)' /\ e[1] = t /\ e[2] = k
  BY <1>1 DEF Forgotten
<1>3. IndInv /\ LocksOK /\ faults \in Nat
  BY DEF SystemInv, IndInv, TypeOK
<1>4. CASE UNCHANGED core
  BY <1>2, <1>4, NotForgotten DEF core, table, Outcome
<1>5. ASSUME NEW r \in Workers, r \notin Announcing, Continue(r), UNCHANGED hooks
      PROVE  e \in Forgotten
  <2>1. k \in Outcome(t)
    <3>1. ~ (r \in Announcing' /\ News(work[r])' = e)
      BY DEF Forgotten
    <3> QED
      BY <1>1, <1>2, <1>3, <1>5, <3>1, DecidedIsAnnounced
  <2>2. \A q \in Announcing : work'[q] = work[q]
    BY <1>3, <1>5, OwnJob DEF Announcing
  <2> QED
    BY <1>2, <2>1, <2>2, NotForgotten
<1>6. ASSUME NEW r \in Workers, NEW s \in Senders, RecordEvent(r, s)
      PROVE  e \in Forgotten
  <2>1. k \in Outcome(t)
    BY <1>2, <1>6 DEF RecordEvent, Dispatch, Outcome
  <2>2. News(work[r]) # e
    <3>1. D!CreateEvent(s) /\ job[s].event = News(work[r])
      BY <1>6, SameSteps DEF RecordEvent, Inside, Hooks!At
    <3>2. News(work[r]) \in D!Recorded'
      BY <3>1, DeliveryConstants, D!CreateEventInv DEF SystemInv
    <3>3. e \notin D!Recorded'
      BY DEF Forgotten, D!Recorded, Hooks!Recorded, D!NoEvent, Hooks!NoEvent
    <3> QED
      BY <3>2, <3>3
  <2>3. \A q \in Announcing : q # r => work'[q] = work[q]
    BY <1>3, <1>6, OwnJob DEF Announcing, RecordEvent, Continue
  <2> QED
    BY <1>2, <2>1, <2>2, <2>3, NotForgotten
<1>7. CASE CoreStep
  BY <1>2, <1>3, <1>7, CoreStepTells, NotForgotten
<1>8. ASSUME NEW r \in Workers, SkipDispatch(r) PROVE FALSE
  BY <1>8 DEF SkipDispatch
<1>9. ASSUME NEW r \in Workers, DispatchError(r) PROVE FALSE
  BY <1>3, <1>9 DEF DispatchError, RequestError, Fault
<1>10. ~ Stop
  BY <1>3 DEF Stop, Crash, Shutdown, Fault
<1>11. HookStep \/ (\E r \in Workers, s \in Senders : EnterDispatch(r, s)) => UNCHANGED core
  BY DEF HookStep, Deliver, EnterDispatch
<1>12. UNCHANGED systemVars => UNCHANGED core
  BY DEF systemVars
<1> QED
  BY <1>4, <1>5, <1>6, <1>7, <1>8, <1>9, <1>10, <1>11, <1>12
  DEF SystemNext, WorkerStep, BeginDispatch

\* Between the commit that decides a transaction and the delivery table an outcome is
\* lost to a fault, or to a merchant without a URL, and to nothing else.
THEOREM OutcomesForgottenByFaultOnly == SystemSpec => ForgottenOnlyByFault
<1>1. SystemInv /\ [SystemNext]_systemVars =>
        [Forgotten' \subseteq Forgotten \/ ~ url \/ faults' # faults]_systemVars
  BY ForgottenStep
<1> QED
  BY <1>1, SystemInvariance, PTL DEF SystemSpec, ForgottenOnlyByFault
================================================================================
