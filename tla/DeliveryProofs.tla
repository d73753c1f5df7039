---------------------------- MODULE DeliveryProofs -----------------------------
(***************************************************************************)
(* Proofs about WebhookDelivery, for any number of events, goroutines,     *)
(* retries and faults and any retry limit: what an event that counts as    *)
(* delivered stands for, that the attempts counter follows the attempt     *)
(* rows, and that the module implements DeliveryPromise.                   *)
(***************************************************************************)
EXTENDS WebhookDelivery, FiniteSetTheorems, TLAPS

\* What a goroutine past a step relies on: the event it delivers is recorded, and
\* a 2xx answer it remembers was given.
HoldsEvent(w) ==
    /\ w.pc # "insert" => w.event \in Recorded
    /\ w.ok => w.event \in accepted
    /\ w.pc = "result" /\ w.ok => w.event \in succeeded

JobsOK == \A s \in Senders : job[s] # Idle => HoldsEvent(job[s])

\* Events that were attempted, or are about to be, were recorded before.
StoreOK ==
    /\ batch \subseteq Recorded
    /\ accepted \subseteq Recorded
    /\ succeeded \subseteq accepted

IndInv == TypeOK /\ JobsOK /\ StoreOK /\ DeliveredHasProof

\* The initial state satisfies the invariant.
LEMMA InitInv == Init => IndInv
<1> SUFFICES ASSUME Init PROVE IndInv
  OBVIOUS
<1>1. Recorded = {} /\ Delivered = {}
  BY DEF Init, Recorded, Delivered
<1>2. TypeOK
  BY DEF Init, TypeOK, NoEvent, Idle
<1>3. JobsOK /\ StoreOK /\ DeliveredHasProof
  BY <1>1 DEF Init, JobsOK, StoreOK, DeliveredHasProof
<1> QED
  BY <1>2, <1>3 DEF IndInv

\* A job is told from Idle, and an event row from no row, by their fields.
LEMMA Shapes ==
    /\ \A w \in Job : w # Idle
    /\ Idle.pc = "idle"
    /\ \A x \in Event : x # NoEvent
BY DEF Job, Idle, Event, NoEvent

\* A step that replaces one job, keeps the events table and takes nothing back
\* keeps the invariant.
LEMMA JobStep ==
    ASSUME IndInv, NEW s \in Senders, NEW w \in Job \cup {Idle},
           job' = [job EXCEPT ![s] = w],
           row' = row, TypeOK',
           accepted \subseteq accepted', accepted' \subseteq Recorded,
           succeeded \subseteq succeeded', succeeded' \subseteq accepted',
           batch' \subseteq Recorded,
           w # Idle => HoldsEvent(w)'
    PROVE  IndInv' /\ Recorded' = Recorded /\ Delivered' = Delivered
<1>1. Recorded' = Recorded /\ Delivered' = Delivered
  BY DEF Recorded, Delivered
<1>2. StoreOK' /\ DeliveredHasProof'
  BY <1>1 DEF IndInv, StoreOK, DeliveredHasProof
<1>3. job \in [Senders -> Job \cup {Idle}]
  BY DEF IndInv, TypeOK
<1>4. ASSUME NEW q \in Senders, job'[q] # Idle PROVE HoldsEvent(job[q])'
  <2>1. CASE q = s
    BY <1>3, <1>4, <2>1
  <2>2. CASE q # s
    <3>1. job'[q] = job[q]
      BY <1>3, <2>2
    <3> QED BY <1>1, <1>4, <3>1 DEF IndInv, JobsOK, HoldsEvent
  <2> QED BY <2>1, <2>2
<1>5. JobsOK'
  BY <1>4 DEF JobsOK
<1> QED BY <1>1, <1>2, <1>5 DEF IndInv

\* The parts of the invariant that the proofs below start from.
LEMMA Parts ==
    IndInv => /\ job \in [Senders -> Job \cup {Idle}]
              /\ row \in [Events -> Event \cup {NoEvent}]
              /\ tries \in [Events -> Nat]
              /\ url \in BOOLEAN /\ retries \in Nat /\ faults \in Nat
              /\ batch \subseteq Recorded /\ accepted \subseteq Recorded
              /\ succeeded \subseteq accepted /\ Delivered \subseteq succeeded
              /\ Recorded \subseteq Events /\ Delivered \subseteq Recorded
              /\ \A s \in Senders : job[s] # Idle => job[s] \in Job /\ HoldsEvent(job[s])
BY DEF IndInv, TypeOK, StoreOK, DeliveredHasProof, JobsOK, Recorded, Delivered

\* A goroutine begins: in Dispatch, or with a recorded event.
LEMMA BeginInv ==
    ASSUME IndInv, NEW s \in Senders, NEW e \in Events,
           Dispatch(s, e) \/ Retry(s, e) \/ Spawn(s, e)
    PROVE  IndInv' /\ Recorded' = Recorded /\ Delivered' = Delivered /\ accepted' = accepted
<1>1. PICK pc \in {"insert", "lookup"} :
          /\ job' = [job EXCEPT ![s] = NewJob(pc, e)]
          /\ pc = "lookup" => e \in Recorded
  BY Parts DEF Dispatch, Retry, Spawn, Begin
<1> DEFINE w == NewJob(pc, e)
<1>2. w \in Job /\ w.pc = pc /\ w.event = e /\ ~ w.ok
  BY DEF NewJob, Job
<1>3. /\ UNCHANGED <<url, row, tries, succeeded, accepted, faults>>
      /\ batch' \subseteq batch /\ retries' \in Nat
  BY Parts DEF Dispatch, Retry, Spawn, store, counts
<1> HIDE DEF w
<1>4. job' = [job EXCEPT ![s] = w]
  BY <1>1 DEF w
<1>5. TypeOK'
  BY <1>2, <1>3, <1>4 DEF IndInv, TypeOK
<1>6. HoldsEvent(w)'
  BY <1>1, <1>2, <1>3 DEF HoldsEvent, Recorded
<1> QED
  BY <1>2, <1>3, <1>4, <1>5, <1>6, Parts, JobStep

\* deliver, up to and including the attempt row.
LEMMA SendInv ==
    ASSUME IndInv, NEW s \in Senders, FindMerchant(s) \/ Post(s) \/ CreateAttempt(s)
    PROVE  /\ IndInv' /\ Recorded' = Recorded /\ Delivered' = Delivered
           /\ accepted' \in {accepted, accepted \cup {job[s].event}}
           /\ job[s].event \in Recorded
<1>1. /\ job[s] # Idle /\ job[s] \in Job /\ HoldsEvent(job[s])
      /\ job[s].event \in Recorded /\ job[s].event \in Events
  BY Parts, Shapes DEF FindMerchant, Post, CreateAttempt, HoldsEvent
<1>2. UNCHANGED <<url, row, batch, retries, faults>>
  BY DEF FindMerchant, Post, CreateAttempt, store, counts
<1>3. PICK w \in Job \cup {Idle} :
          /\ job' = [job EXCEPT ![s] = w]
          /\ w # Idle => HoldsEvent(w)'
          /\ accepted' \in {accepted, accepted \cup {job[s].event}}
          /\ tries' \in [Events -> Nat]
          /\ succeeded \subseteq succeeded' /\ succeeded' \subseteq accepted'
  <2>1. CASE FindMerchant(s)
    <3>1. PICK w \in Job : w = [job[s] EXCEPT !.pc = "post"]
      BY <1>1 DEF Job
    <3>2. w.pc = "post" /\ w.event = job[s].event /\ w.ok = job[s].ok
      BY <1>1, <3>1 DEF Job
    <3>3. UNCHANGED <<tries, succeeded, accepted>>
      BY <2>1 DEF FindMerchant, store
    <3>4. HoldsEvent(w)'
      BY <1>1, <1>2, <3>2, <3>3 DEF HoldsEvent, Recorded
    <3>5. job' = [job EXCEPT ![s] = w] \/ job' = [job EXCEPT ![s] = Idle]
      BY <2>1, <3>1 DEF FindMerchant, Goto, Return
    <3> QED BY <3>3, <3>4, <3>5, Parts
  <2>2. CASE Post(s)
    <3>1. PICK ok \in BOOLEAN :
              /\ job' = [job EXCEPT ![s] = [job[s] EXCEPT !.pc = "attempt", !.ok = ok]]
              /\ accepted' \in {accepted, accepted \cup {job[s].event}}
              /\ ok => job[s].event \in accepted'
      BY <2>2 DEF Post, Goto
    <3>2. PICK w \in Job : w = [job[s] EXCEPT !.pc = "attempt", !.ok = ok]
      BY <1>1 DEF Job
    <3>3. w.pc = "attempt" /\ w.ok = ok /\ w.event = job[s].event
      BY <1>1, <3>2 DEF Job
    <3>4. HoldsEvent(w)'
      BY <1>1, <1>2, <3>1, <3>3 DEF HoldsEvent, Recorded
    <3>5. UNCHANGED <<tries, succeeded>>
      BY <2>2 DEF Post, store
    <3> QED BY <3>1, <3>2, <3>4, <3>5, Parts
  <2>3. CASE CreateAttempt(s)
    <3>1. PICK w \in Job : w = [job[s] EXCEPT !.pc = "result"]
      BY <1>1 DEF Job
    <3>2. w.pc = "result" /\ w.ok = job[s].ok /\ w.event = job[s].event
      BY <1>1, <3>1 DEF Job
    <3>3. /\ job' = [job EXCEPT ![s] = w] /\ accepted' = accepted
          /\ tries' = [tries EXCEPT ![job[s].event] = @ + 1]
          /\ succeeded' = IF job[s].ok THEN succeeded \cup {job[s].event} ELSE succeeded
      BY <2>3, <3>1 DEF CreateAttempt, Goto
    <3>4. succeeded \subseteq succeeded' /\ succeeded' \subseteq accepted'
      BY <1>1, <3>3, Parts DEF HoldsEvent
    <3>5. HoldsEvent(w)'
      BY <1>1, <1>2, <3>2, <3>3 DEF HoldsEvent, Recorded
    <3>6. tries' \in [Events -> Nat]
      BY <1>1, <3>3, Parts
    <3> QED BY <3>3, <3>4, <3>5, <3>6
  <2> QED BY <2>1, <2>2, <2>3
<1>4. accepted \subseteq accepted' /\ accepted' \subseteq Recorded
  BY <1>1, <1>3, Parts
<1>5. TypeOK'
  <2>1. accepted' \subseteq Events /\ succeeded' \subseteq Events
    BY <1>3, <1>4, Parts
  <2> QED BY <1>2, <1>3, <2>1 DEF IndInv, TypeOK
<1> QED
  <2>1. batch' \subseteq Recorded
    BY <1>2, Parts
  <2>2. row' = row
    BY <1>2
  <2>3. IndInv' /\ Recorded' = Recorded /\ Delivered' = Delivered
    BY <1>3, <1>4, <1>5, <2>1, <2>2, JobStep
  <2> QED BY <1>1, <1>3, <2>3

\* What a step of another part of the process, or its end, does to delivery.
ElsewhereStep ==
    /\ faults' \in Nat
    /\ Restart \/ UNCHANGED <<url, store, accepted, job, batch, retries>>

\* The remaining steps, which leave the events table alone.
LEMMA OtherInv ==
    ASSUME IndInv,
           \/ \E s \in Senders : SenderError(s)
           \/ SelectDue \/ UpdateProfile \/ ElsewhereStep
    PROVE  IndInv' /\ Recorded' = Recorded /\ Delivered' = Delivered /\ accepted' = accepted
<1>1. /\ UNCHANGED <<row, tries, succeeded, accepted>>
      /\ batch' \in {batch, {}, Due}
      /\ url' \in BOOLEAN /\ retries' \in Nat /\ faults' \in Nat
  BY Parts DEF SenderError, SelectDue, UpdateProfile, ElsewhereStep, Restart, store, counts, Fault
<1>2. /\ job' \in [Senders -> Job \cup {Idle}]
      /\ \A s \in Senders : job'[s] # Idle => job'[s] = job[s]
  BY Parts DEF SenderError, SelectDue, UpdateProfile, ElsewhereStep, Restart, counts, Return
<1>3. Recorded' = Recorded /\ Delivered' = Delivered
  BY <1>1 DEF Recorded, Delivered
<1>4. batch' \subseteq Recorded
  BY <1>1, Parts DEF Due
<1>5. TypeOK'
  BY <1>1, <1>2, <1>4, Parts DEF IndInv, TypeOK
<1>6. JobsOK'
  BY <1>1, <1>2, <1>3 DEF IndInv, JobsOK, HoldsEvent
<1>7. StoreOK' /\ DeliveredHasProof'
  BY <1>1, <1>3, <1>4 DEF IndInv, StoreOK, DeliveredHasProof
<1> QED BY <1>1, <1>3, <1>5, <1>6, <1>7 DEF IndInv

\* A step that writes one row of the events table, and ends or moves on one job,
\* keeps the invariant if the row is backed by an attempt that succeeded.
LEMMA RowStep ==
    ASSUME IndInv, NEW s \in Senders, NEW w \in Job \cup {Idle},
           NEW e \in Events, NEW x \in Event,
           job' = [job EXCEPT ![s] = w],
           row' = [row EXCEPT ![e] = x],
           UNCHANGED <<url, tries, succeeded, accepted, batch, counts>>,
           w # Idle => w.event = e /\ w.pc = "lookup" /\ ~ w.ok,
           x.delivered => e \in succeeded
    PROVE  /\ IndInv' /\ Recorded' = Recorded \cup {e}
           /\ Delivered' = IF x.delivered THEN Delivered \cup {e} ELSE Delivered \ {e}
<1>1. /\ row' \in [Events -> Event \cup {NoEvent}]
      /\ row'[e] = x /\ x # NoEvent
      /\ \A d \in Events \ {e} : row'[d] = row[d]
  BY Parts, Shapes
<1>2. Recorded' = Recorded \cup {e}
  BY <1>1 DEF Recorded
<1>3. Delivered' = IF x.delivered THEN Delivered \cup {e} ELSE Delivered \ {e}
  BY <1>1, <1>2 DEF Recorded, Delivered
<1>4. job' \in [Senders -> Job \cup {Idle}]
  BY Parts
<1>5. TypeOK'
  BY <1>1, <1>4 DEF IndInv, TypeOK, counts
<1>6. StoreOK' /\ DeliveredHasProof'
  BY <1>2, <1>3, Parts DEF StoreOK, DeliveredHasProof
<1>7. ASSUME NEW q \in Senders, job'[q] # Idle PROVE HoldsEvent(job[q])'
  <2>1. CASE q = s
    <3>1. job'[q] = w
      BY <2>1, Parts
    <3> QED BY <1>2, <1>7, <3>1 DEF HoldsEvent
  <2>2. CASE q # s
    <3>1. job'[q] = job[q]
      BY <2>2, Parts
    <3>2. HoldsEvent(job[q])
      BY <1>7, <3>1, Parts
    <3> QED BY <1>2, <3>1, <3>2 DEF HoldsEvent
  <2> QED BY <2>1, <2>2
<1>8. JobsOK'
  BY <1>7 DEF JobsOK
<1> QED BY <1>2, <1>3, <1>5, <1>6, <1>8 DEF IndInv

\* CreateEvent inserts a row that is not delivered, or finds one and ends.
LEMMA CreateEventInv ==
    ASSUME IndInv, NEW s \in Senders, CreateEvent(s)
    PROVE  /\ IndInv' /\ Delivered' = Delivered /\ accepted' = accepted
           /\ job[s].event \in Events
           /\ Recorded' = Recorded \cup {job[s].event}
<1>1. /\ job[s] # Idle /\ job[s] \in Job /\ job[s].event \in Events
  BY Parts, Shapes DEF CreateEvent, Job
<1>2. CASE Inserts(job[s].event)
  <2> DEFINE w == [job[s] EXCEPT !.pc = "lookup"]
             x == [delivered |-> FALSE, attempts |-> 0]
  <2>1. w \in Job /\ w.pc = "lookup" /\ w.event = job[s].event /\ w.ok = job[s].ok
    BY <1>1 DEF Job
  <2>2. x \in Event /\ ~ x.delivered
    BY DEF Event
  <2>3. /\ job' = [job EXCEPT ![s] = w]
        /\ row' = [row EXCEPT ![job[s].event] = x]
        /\ UNCHANGED <<url, tries, succeeded, accepted, batch, counts>>
    BY <1>2 DEF CreateEvent, Goto
  <2>4. job[s].event \notin Recorded /\ job[s].event \notin Delivered
    BY <1>2 DEF Inserts, Delivered
  <2>5. ~ job[s].ok
    BY <1>1, <2>4, Parts DEF HoldsEvent
  <2> HIDE DEF w, x
  <2>6. /\ IndInv' /\ Recorded' = Recorded \cup {job[s].event}
        /\ Delivered' = Delivered \ {job[s].event}
    BY <1>1, <2>1, <2>2, <2>3, <2>5, RowStep
  <2> QED BY <1>1, <2>3, <2>4, <2>6
<1>3. CASE ~ Inserts(job[s].event)
  <2>1. /\ job' = [job EXCEPT ![s] = Idle]
        /\ UNCHANGED <<url, row, tries, succeeded, accepted, batch, counts>>
    BY <1>3 DEF CreateEvent, Return
  <2>2. TypeOK'
    BY <2>1, Parts DEF IndInv, TypeOK, counts
  <2>3. batch' \subseteq Recorded /\ accepted' \subseteq Recorded
        /\ succeeded' \subseteq accepted' /\ row' = row
        /\ accepted \subseteq accepted' /\ succeeded \subseteq succeeded'
    BY <2>1, Parts
  <2>4. IndInv' /\ Recorded' = Recorded /\ Delivered' = Delivered
    BY <2>1, <2>2, <2>3, JobStep
  <2>5. job[s].event \in Recorded
    BY <1>3 DEF Inserts
  <2> QED BY <1>1, <2>1, <2>4, <2>5
<1> QED BY <1>2, <1>3

\* RecordAttemptResult marks the event delivered after a success only, and leaves
\* it delivered after a failure.
LEMMA ResultInv ==
    ASSUME IndInv, NEW s \in Senders, RecordAttemptResult(s)
    PROVE  /\ IndInv' /\ Recorded' = Recorded /\ accepted' = accepted
           /\ \/ Delivered' = Delivered
              \/ /\ job[s].event \in accepted
                 /\ Delivered' = Delivered \cup {job[s].event}
<1> DEFINE e == job[s].event
           x == Result(job[s])
<1>1. /\ job[s] \in Job /\ e \in Recorded /\ e \in Events
      /\ job[s].ok => e \in succeeded
  BY Parts, Shapes DEF RecordAttemptResult, HoldsEvent
<1>2. row[e] \in Event /\ job[s].ok \in BOOLEAN
  BY <1>1, Parts DEF Recorded, Job
<1>3. x \in Event /\ x.delivered = (row[e].delivered \/ job[s].ok)
  BY <1>2 DEF Result, Event
<1>4. row[e].delivered => e \in Delivered
  BY <1>1 DEF Delivered
<1>5. x.delivered => e \in succeeded
  BY <1>1, <1>3, <1>4, Parts
<1>6. /\ job' = [job EXCEPT ![s] = Idle]
      /\ row' = [row EXCEPT ![e] = x]
      /\ UNCHANGED <<url, tries, succeeded, accepted, batch, counts>>
  BY DEF RecordAttemptResult, Return
<1> HIDE DEF x
<1>7. /\ IndInv' /\ Recorded' = Recorded \cup {e}
      /\ Delivered' = IF x.delivered THEN Delivered \cup {e} ELSE Delivered \ {e}
  BY <1>1, <1>3, <1>5, <1>6, RowStep
<1>8. ~ x.delivered => e \notin Delivered
  BY <1>3 DEF Delivered
<1>9. e \in succeeded => e \in accepted
  BY Parts
<1>10. Recorded' = Recorded /\ accepted' = accepted
  BY <1>1, <1>6, <1>7
<1>11. CASE x.delivered
  BY <1>5, <1>7, <1>9, <1>10, <1>11
<1>12. CASE ~ x.delivered
  BY <1>7, <1>8, <1>10, <1>12
<1> QED BY <1>7, <1>11, <1>12

\* Every step keeps the invariant, and is a step or a stutter of the promise.
LEMMA StepInv ==
    ASSUME IndInv, Next \/ ElsewhereStep
    PROVE  IndInv' /\ [Promise!Next]_(Promise!vars)
<1>1. ASSUME Recorded' = Recorded, Delivered' = Delivered, accepted' = accepted
      PROVE  [Promise!Next]_(Promise!vars)
  BY <1>1 DEF Promise!vars
<1>2. ASSUME NEW e \in Recorded, Recorded' = Recorded, Delivered' = Delivered,
             accepted' = accepted \cup {e}
      PROVE  [Promise!Next]_(Promise!vars)
  BY <1>2, Parts DEF Promise!Next, Promise!Accept
<1>3. ASSUME NEW e \in Events \ Recorded, Recorded' = Recorded \cup {e},
             Delivered' = Delivered, accepted' = accepted
      PROVE  [Promise!Next]_(Promise!vars)
  BY <1>3 DEF Promise!Next, Promise!Record
<1>4. ASSUME NEW e \in accepted, Recorded' = Recorded, accepted' = accepted,
             Delivered' = Delivered \cup {e}
      PROVE  [Promise!Next]_(Promise!vars)
  BY <1>4, Parts DEF Promise!Next, Promise!Confirm
<1>5. CASE \E s \in Senders, e \in Events : Dispatch(s, e) \/ Retry(s, e) \/ Spawn(s, e)
  BY <1>1, <1>5, BeginInv
<1>6. CASE \E s \in Senders : FindMerchant(s) \/ Post(s) \/ CreateAttempt(s)
  BY <1>1, <1>2, <1>6, SendInv
<1>7. CASE \/ \E s \in Senders : SenderError(s)
           \/ SelectDue \/ UpdateProfile \/ Crash \/ ElsewhereStep
  <2>1. Crash => ElsewhereStep
    BY Parts DEF Crash, Fault, ElsewhereStep
  <2> QED BY <1>1, <1>7, <2>1, OtherInv
<1>8. CASE \E s \in Senders : CreateEvent(s)
  <2>1. PICK s \in Senders : CreateEvent(s)
    BY <1>8
  <2>2. /\ IndInv' /\ Delivered' = Delivered /\ accepted' = accepted
        /\ job[s].event \in Events
        /\ Recorded' = Recorded \cup {job[s].event}
    BY <2>1, CreateEventInv
  <2>3. CASE job[s].event \in Recorded
    BY <1>1, <2>2, <2>3
  <2>4. CASE job[s].event \notin Recorded
    BY <1>3, <2>2, <2>4
  <2> QED BY <2>2, <2>3, <2>4
<1>9. CASE \E s \in Senders : RecordAttemptResult(s)
  BY <1>1, <1>4, <1>9, ResultInv
<1> QED
  BY <1>5, <1>6, <1>7, <1>8, <1>9 DEF Next, Continue, RetryWorker

LEMMA Stutters == IndInv /\ UNCHANGED vars => ElsewhereStep
BY Parts DEF ElsewhereStep, vars, counts

\* The invariant holds in every reachable state.
THEOREM DeliveryInvariance == Spec => []IndInv
<1>1. IndInv /\ [Next]_vars => IndInv'
  BY StepInv, Stutters
<1> QED BY <1>1, InitInv, PTL DEF Spec

\* Every variable keeps its type.
THEOREM DeliveryTypes == Spec => []TypeOK
<1>1. IndInv => TypeOK
  BY DEF IndInv
<1> QED BY <1>1, DeliveryInvariance, PTL

\* An event counts as delivered only with an attempt row that says so and after the
\* endpoint accepted it, whatever overlaps, errors and crashes came before.
THEOREM DeliveredIsBacked == Spec => []DeliveredHasProof
<1>1. IndInv => DeliveredHasProof
  BY DEF IndInv
<1> QED BY <1>1, DeliveryInvariance, PTL

\* The module implements DeliveryPromise: an event is recorded before it is sent,
\* confirmed after it was accepted, and never unconfirmed.
THEOREM DeliveryKept == Spec => KeepsPromise
<1>1. Init => Promise!Init
  BY DEF Init, Promise!Init, Recorded, Delivered
<1>2. IndInv /\ [Next]_vars => [Promise!Next]_(Promise!vars)
  BY StepInv, Stutters
<1> QED
  BY <1>1, <1>2, DeliveryInvariance, PTL DEF Spec, KeepsPromise, Promise!Spec
--------------------------------------------------------------------------------
\* Deliveries under way are finite in number, so that those between the two
\* statements can be counted; an event that is not recorded was never tried.
Working == {s \in Senders : job[s] # Idle}

Untried == \A e \in Events \ Recorded : tries[e] = 0

Accounts == IsFiniteSet(Working) /\ Untried /\ AttemptsAccounted

\* Who is between the two statements for an event, after one job was replaced.
LEMMA ResultAfter ==
    ASSUME IndInv, NEW s \in Senders, NEW w \in Job \cup {Idle},
           job' = [job EXCEPT ![s] = w], NEW e \in Events
    PROVE  At("result", e)' =
              IF w # Idle /\ w.pc = "result" /\ w.event = e
              THEN At("result", e) \cup {s} ELSE At("result", e) \ {s}
BY Parts DEF At

\* So are the goroutines that deliver.
LEMMA WorkingAfter ==
    ASSUME IndInv, IsFiniteSet(Working), NEW s \in Senders, NEW w,
           job' = [job EXCEPT ![s] = w]
    PROVE  IsFiniteSet(Working')
<1>1. Working' \subseteq Working \cup {s}
  BY Parts DEF Working
<1> QED
  BY <1>1, FS_AddElement, FS_Subset

\* The deliveries of an event between the two statements are finite in number.
LEMMA ResultFinite ==
    ASSUME IsFiniteSet(Working), NEW e
    PROVE  IsFiniteSet(At("result", e)) /\ Cardinality(At("result", e)) \in Nat
<1>1. At("result", e) \subseteq Working
  BY DEF At, Working
<1> QED
  BY <1>1, FS_Subset, FS_CardinalityType

\* Steps that write neither table nor begin or end the second statement keep the
\* accounts.
LEMMA QuietStep ==
    ASSUME IndInv, Accounts, NEW s \in Senders, NEW w \in Job \cup {Idle},
           job' = [job EXCEPT ![s] = w],
           UNCHANGED <<row, tries, faults>>,
           job[s] = Idle \/ job[s].pc # "result", w = Idle \/ w.pc # "result"
    PROVE  Accounts'
<1>1. \A e \in Events : At("result", e)' = At("result", e)
  <2> TAKE e \in Events
  <2>1. s \notin At("result", e)
    BY DEF At
  <2>2. At("result", e)' = At("result", e) \ {s}
    BY ResultAfter
  <2> QED
    BY <2>1, <2>2
<1>2. Recorded' = Recorded /\ Recorded \subseteq Events
  BY DEF Recorded
<1>3. IsFiniteSet(Working')
  BY WorkingAfter DEF Accounts
<1> QED
  BY <1>1, <1>2, <1>3 DEF Accounts, Untried, AttemptsAccounted

\* After a fault, deliveries may be missing between the two statements.
LEMMA FaultStep ==
    ASSUME IndInv, Accounts, faults' = faults + 1,
           UNCHANGED <<row, tries>>,
           \A q \in Senders : job'[q] = job[q] \/ job'[q] = Idle
    PROVE  Accounts'
<1>1. \A e \in Events : At("result", e)' \subseteq At("result", e)
  BY DEF At
<1>2. Recorded' = Recorded /\ Recorded \subseteq Events
  BY DEF Recorded
<1>3. IsFiniteSet(Working')
  <2>1. Working' \subseteq Working
    BY DEF Working
  <2> QED
    BY <2>1, FS_Subset DEF Accounts
<1>4. faults' # 0
  BY Parts
<1>5. ASSUME NEW e \in Recorded PROVE row[e].attempts + Cardinality(At("result", e)') <= tries[e]
  <2>1. row[e].attempts \in Nat /\ tries[e] \in Nat
    BY Parts DEF Recorded, Event
  <2>2. Cardinality(At("result", e)') <= Cardinality(At("result", e))
    BY <1>1, <1>2, ResultFinite, FS_Subset DEF Accounts
  <2>3. Cardinality(At("result", e)') \in Nat /\ Cardinality(At("result", e)) \in Nat
    BY <1>1, <1>2, ResultFinite, FS_Subset, FS_CardinalityType DEF Accounts
  <2>4. row[e].attempts + Cardinality(At("result", e)) <= tries[e]
    BY DEF Accounts, AttemptsAccounted
  <2> QED
    BY <2>1, <2>2, <2>3, <2>4
<1> QED
  BY <1>2, <1>3, <1>4, <1>5 DEF Accounts, Untried, AttemptsAccounted

\* A new event has neither attempts nor attempt rows.
LEMMA InsertStep ==
    ASSUME IndInv, Accounts, NEW s \in Senders, CreateEvent(s), Inserts(job[s].event)
    PROVE  Accounts'
<1> DEFINE e == job[s].event
           w == [job[s] EXCEPT !.pc = "lookup"]
           x == [delivered |-> FALSE, attempts |-> 0]
<1>1. /\ job[s] # Idle /\ job[s] \in Job /\ job[s].pc = "insert" /\ job[s].event \in Events
      /\ job[s].event \notin Recorded
  BY Parts, Shapes DEF CreateEvent, Job, Inserts
<1>2. w \in Job /\ w.pc = "lookup"
  BY <1>1 DEF Job
<1>3. /\ job' = [job EXCEPT ![s] = w] /\ row' = [row EXCEPT ![e] = x]
      /\ UNCHANGED <<tries, faults>>
  BY DEF CreateEvent, Goto, counts
<1>4. IsFiniteSet(Working')
  BY <1>3, WorkingAfter DEF Accounts
<1>5. PICK d \in Events : d = e /\ d \notin Recorded
  BY <1>1
<1> HIDE DEF w
<1>6. ASSUME NEW f \in Events PROVE At("result", f)' = At("result", f)
  <2>1. s \notin At("result", f)
    BY <1>1 DEF At
  <2>2. At("result", f)' = At("result", f) \ {s}
    BY <1>2, <1>3, ResultAfter
  <2> QED
    BY <2>1, <2>2
<1>7. /\ row'[d] = x /\ \A f \in Events : f # d => row'[f] = row[f]
  BY <1>3, <1>5, Parts
<1>8. Recorded' \subseteq Recorded \cup {d} /\ Recorded \subseteq Recorded'
  BY <1>5, <1>7 DEF Recorded
<1>9. tries[d] = 0 /\ Cardinality(At("result", d)) = 0
  <2>1. At("result", d) = {}
    BY <1>5, Parts DEF At, HoldsEvent
  <2> QED
    BY <1>5, <2>1, FS_EmptySet DEF Accounts, Untried
<1>10. AttemptsAccounted'
  <2> SUFFICES ASSUME NEW f \in Recorded'
               PROVE  /\ row'[f].attempts + Cardinality(At("result", f)') <= tries'[f]
                      /\ faults' = 0 => row'[f].attempts + Cardinality(At("result", f)') = tries'[f]
    BY DEF AttemptsAccounted
  <2>1. CASE f = d
    BY <1>3, <1>6, <1>7, <1>9, <2>1
  <2>2. CASE f # d
    BY <1>3, <1>6, <1>7, <1>8, <2>2, Parts DEF Accounts, AttemptsAccounted
  <2> QED
    BY <2>1, <2>2
<1>11. Untried'
  BY <1>3, <1>8 DEF Accounts, Untried
<1> QED
  BY <1>4, <1>10, <1>11 DEF Accounts

\* The attempt row is written, and the delivery is between the two statements.
LEMMA AttemptStep ==
    ASSUME IndInv, Accounts, NEW s \in Senders, CreateAttempt(s) PROVE Accounts'
<1> DEFINE w == [job[s] EXCEPT !.pc = "result"]
<1>1. PICK d \in Events : d = job[s].event /\ d \in Recorded
  BY Parts, Shapes DEF CreateAttempt, HoldsEvent
<1>2. job[s] # Idle /\ job[s] \in Job /\ job[s].pc = "attempt"
  BY Parts, Shapes DEF CreateAttempt
<1>3. w \in Job /\ w # Idle /\ w.pc = "result" /\ w.event = d
  BY <1>1, <1>2, Shapes DEF Job
<1>4. /\ job' = [job EXCEPT ![s] = w] /\ tries' = [tries EXCEPT ![d] = @ + 1]
      /\ UNCHANGED <<row, faults>>
  BY <1>1 DEF CreateAttempt, Goto, counts
<1> HIDE DEF w
<1>5. Recorded' = Recorded /\ Recorded \subseteq Events
  BY <1>4 DEF Recorded
<1>6. IsFiniteSet(Working')
  BY <1>4, WorkingAfter DEF Accounts
<1>7. \A f \in Events : s \notin At("result", f)
  BY <1>2 DEF At
<1>8. \A f \in Events : At("result", f)' =
         IF f = d THEN At("result", f) \cup {s} ELSE At("result", f)
  <2> TAKE f \in Events
  <2>1. At("result", f)' = IF f = d THEN At("result", f) \cup {s} ELSE At("result", f) \ {s}
    BY <1>3, <1>4, ResultAfter
  <2> QED
    BY <1>7, <2>1
<1>9. Cardinality(At("result", d)') = Cardinality(At("result", d)) + 1
  BY <1>7, <1>8, ResultFinite, FS_AddElement DEF Accounts
<1>10. AttemptsAccounted'
  <2> SUFFICES ASSUME NEW f \in Recorded
               PROVE  /\ row[f].attempts + Cardinality(At("result", f)') <= tries'[f]
                      /\ faults = 0 => row[f].attempts + Cardinality(At("result", f)') = tries'[f]
    BY <1>4, <1>5 DEF AttemptsAccounted
  <2>1. /\ row[f].attempts \in Nat /\ tries[f] \in Nat /\ Cardinality(At("result", f)) \in Nat
        /\ row[f].attempts + Cardinality(At("result", f)) <= tries[f]
        /\ faults = 0 => row[f].attempts + Cardinality(At("result", f)) = tries[f]
    BY Parts, ResultFinite DEF Recorded, Event, Accounts, AttemptsAccounted
  <2>2. tries'[f] = IF f = d THEN tries[f] + 1 ELSE tries[f]
    BY <1>4, <1>5, Parts
  <2>3. CASE f = d
    BY <1>9, <2>1, <2>2, <2>3
  <2>4. CASE f # d
    BY <1>5, <1>8, <2>1, <2>2, <2>4
  <2> QED
    BY <2>3, <2>4
<1>11. Untried'
  BY <1>1, <1>4, <1>5, Parts DEF Accounts, Untried
<1> QED
  BY <1>6, <1>10, <1>11 DEF Accounts

\* The event row is counted up, and the delivery ends.
LEMMA ResultStep ==
    ASSUME IndInv, Accounts, NEW s \in Senders, RecordAttemptResult(s) PROVE Accounts'
<1>1. PICK d \in Events : d = job[s].event /\ d \in Recorded
  BY Parts, Shapes DEF RecordAttemptResult, HoldsEvent
<1>2. job[s] # Idle /\ job[s] \in Job /\ job[s].pc = "result"
  BY Parts, Shapes DEF RecordAttemptResult
<1>3. /\ row[d] \in Event /\ Result(job[s]) \in Event
      /\ Result(job[s]).attempts = row[d].attempts + 1
  BY <1>1, <1>2, Parts DEF Recorded, Result, Event, Job
<1>4. /\ job' = [job EXCEPT ![s] = Idle] /\ row' = [row EXCEPT ![d] = Result(job[s])]
      /\ UNCHANGED <<tries, faults>>
  BY <1>1 DEF RecordAttemptResult, Return, counts
<1>5. \A f \in Events : row'[f] = IF f = d THEN Result(job[s]) ELSE row[f]
  BY <1>4, Parts
<1>6. Recorded' = Recorded /\ Recorded \subseteq Events
  BY <1>1, <1>3, <1>5, Shapes DEF Recorded
<1>7. IsFiniteSet(Working')
  BY <1>4, WorkingAfter DEF Accounts
<1>8. s \in At("result", d) /\ \A f \in Events : f # d => s \notin At("result", f)
  BY <1>1, <1>2 DEF At
<1>9. \A f \in Events : At("result", f)' = At("result", f) \ {s}
  BY <1>4, ResultAfter
<1>10. Cardinality(At("result", d)') = Cardinality(At("result", d)) - 1
  BY <1>8, <1>9, ResultFinite, FS_RemoveElement DEF Accounts
<1>11. AttemptsAccounted'
  <2> SUFFICES ASSUME NEW f \in Recorded
               PROVE  /\ row'[f].attempts + Cardinality(At("result", f)') <= tries[f]
                      /\ faults = 0 => row'[f].attempts + Cardinality(At("result", f)') = tries[f]
    BY <1>4, <1>6 DEF AttemptsAccounted
  <2>1. /\ row[f].attempts \in Nat /\ tries[f] \in Nat /\ Cardinality(At("result", f)) \in Nat
        /\ row[f].attempts + Cardinality(At("result", f)) <= tries[f]
        /\ faults = 0 => row[f].attempts + Cardinality(At("result", f)) = tries[f]
    BY Parts, ResultFinite DEF Recorded, Event, Accounts, AttemptsAccounted
  <2>2. CASE f = d
    BY <1>3, <1>5, <1>10, <2>1, <2>2
  <2>3. CASE f # d
    <3>1. At("result", f)' = At("result", f) /\ row'[f] = row[f]
      BY <1>5, <1>6, <1>8, <1>9, <2>3
    <3> QED
      BY <2>1, <3>1
  <2> QED
    BY <2>2, <2>3
<1>12. Untried'
  BY <1>4, <1>6 DEF Accounts, Untried
<1> QED
  BY <1>7, <1>11, <1>12 DEF Accounts
\* Every step keeps the accounts.
LEMMA AccountsStep == ASSUME IndInv, Accounts, [Next]_vars PROVE Accounts'
<1>1. ASSUME NEW s \in Senders, NEW e \in Events, Dispatch(s, e) \/ Retry(s, e) \/ Spawn(s, e)
      PROVE  Accounts'
  <2>1. PICK pc \in {"insert", "lookup"} : job' = [job EXCEPT ![s] = NewJob(pc, e)]
    BY <1>1 DEF Dispatch, Retry, Spawn, Begin
  <2>2. /\ NewJob(pc, e) \in Job /\ NewJob(pc, e).pc # "result" /\ job[s] = Idle
        /\ UNCHANGED <<row, tries, faults>>
    BY <1>1 DEF NewJob, Job, Dispatch, Retry, Spawn, Begin, store, counts
  <2> QED
    BY <2>1, <2>2, QuietStep
<1>2. ASSUME NEW s \in Senders, FindMerchant(s) \/ Post(s) PROVE Accounts'
  <2>1. job[s] \in Job /\ job[s].pc \in {"lookup", "post"}
    BY <1>2, Parts, Shapes DEF FindMerchant, Post
  <2>2. /\ [job[s] EXCEPT !.pc = "post"] \in Job /\ [job[s] EXCEPT !.pc = "post"].pc = "post"
        /\ \A ok \in BOOLEAN :
              /\ [job[s] EXCEPT !.pc = "attempt", !.ok = ok] \in Job
              /\ [job[s] EXCEPT !.pc = "attempt", !.ok = ok].pc = "attempt"
    BY <2>1 DEF Job
  <2>3. PICK w \in Job \cup {Idle} : job' = [job EXCEPT ![s] = w] /\ (w = Idle \/ w.pc # "result")
    BY <1>2, <2>2 DEF FindMerchant, Post, Goto, Return
  <2>4. UNCHANGED <<row, tries, faults>>
    BY <1>2 DEF FindMerchant, Post, store, counts
  <2> QED
    BY <2>1, <2>3, <2>4, QuietStep
<1>3. ASSUME NEW s \in Senders, CreateEvent(s) PROVE Accounts'
  <2>1. CASE Inserts(job[s].event)
    BY <1>3, <2>1, InsertStep
  <2>2. CASE ~ Inserts(job[s].event)
    <3>1. /\ job' = [job EXCEPT ![s] = Idle] /\ job[s].pc = "insert"
          /\ UNCHANGED <<row, tries, faults>>
      BY <1>3, <2>2 DEF CreateEvent, Return, counts
    <3> QED
      BY <3>1, QuietStep
  <2> QED
    BY <2>1, <2>2
<1>4. ASSUME NEW s \in Senders, CreateAttempt(s) PROVE Accounts'
  BY <1>4, AttemptStep
<1>5. ASSUME NEW s \in Senders, RecordAttemptResult(s) PROVE Accounts'
  BY <1>5, ResultStep
<1>6. ASSUME Crash \/ \E s \in Senders : SenderError(s) PROVE Accounts'
  <2>1. /\ faults' = faults + 1 /\ UNCHANGED <<row, tries>>
        /\ \A q \in Senders : job'[q] = job[q] \/ job'[q] = Idle
    BY <1>6, Parts DEF Crash, Restart, SenderError, Return, Fault, store
  <2> QED
    BY <2>1, FaultStep
<1>7. ASSUME SelectDue \/ UpdateProfile \/ UNCHANGED vars PROVE Accounts'
  <2>1. UNCHANGED <<row, tries, faults, job>>
    BY <1>7 DEF SelectDue, UpdateProfile, vars, store, counts
  <2>2. Recorded' = Recorded /\ Working' = Working
        /\ \A e \in Events : At("result", e)' = At("result", e)
    BY <2>1 DEF Recorded, Working, At
  <2>3. Recorded \subseteq Events
    BY Parts
  <2> QED
    BY <2>1, <2>2, <2>3 DEF Accounts, Untried, AttemptsAccounted
<1> QED
  BY <1>1, <1>2, <1>3, <1>4, <1>5, <1>6, <1>7 DEF Next, Continue, RetryWorker

\* The attempts counter never runs ahead of the attempt rows, however deliveries of an
\* event overlap, and without faults lags only by those between the two statements.
THEOREM AttemptsStayAccounted == Spec => []AttemptsAccounted
<1>1. Init => Accounts
  <2> SUFFICES ASSUME Init PROVE Accounts
    OBVIOUS
  <2>1. Working = {} /\ Recorded = {}
    BY DEF Init, Working, Recorded
  <2> QED
    BY <2>1, FS_EmptySet DEF Init, Accounts, Untried, AttemptsAccounted
<1>2. IndInv /\ Accounts /\ [Next]_vars => IndInv' /\ Accounts'
  BY StepInv, Stutters, AccountsStep
<1>3. Accounts => AttemptsAccounted
  BY DEF Accounts
<1> QED
  BY <1>1, <1>2, <1>3, InitInv, PTL DEF Spec
--------------------------------------------------------------------------------
\* How often an event may have been attempted once all that is under way or selected
\* has been counted.
Selected(e) == IF e \in batch THEN 1 ELSE 0
Load(e)     == row[e].attempts + Cardinality(Flying(e)) + Selected(e)
Bound       == RetryLimit + Cardinality(Senders) + retries
LoadBounded == \A e \in Recorded : Load(e) <= Bound

\* All the numbers in it are natural.
LEMMA Numbers ==
    ASSUME IndInv, IsFiniteSet(Senders), NEW e \in Recorded
    PROVE  /\ row[e].attempts \in Nat /\ Bound \in Nat /\ Cardinality(Senders) \in Nat
           /\ IsFiniteSet(Flying(e)) /\ Cardinality(Flying(e)) \in Nat
           /\ Cardinality(Flying(e)) <= Cardinality(Senders)
<1>1. Flying(e) \subseteq Senders
  BY DEF Flying
<1>2. row[e].attempts \in Nat /\ retries \in Nat
  BY Parts DEF Recorded, Event
<1>3. Cardinality(Senders) \in Nat
  BY FS_CardinalityType
<1> QED
  BY <1>1, <1>2, <1>3, FS_Subset, FS_CardinalityType, LimitAssumption DEF Bound

\* Who delivers an event, after one job was replaced.
LEMMA FlyingAfter ==
    ASSUME IndInv, NEW s \in Senders, NEW w \in Job \cup {Idle},
           job' = [job EXCEPT ![s] = w], NEW e \in Events
    PROVE  Flying(e)' =
              IF w # Idle /\ w.pc # "insert" /\ w.event = e
              THEN Flying(e) \cup {s} ELSE Flying(e) \ {s}
BY Parts DEF Flying

\* An event that is neither counted, sent, selected nor clicked keeps its load or
\* loses some.
LEMMA LoadKept ==
    ASSUME IndInv, IsFiniteSet(Senders), LoadBounded, NEW e \in Recorded,
           row'[e] = row[e], Flying(e)' \subseteq Flying(e),
           e \in batch' => e \in batch, retries' \in Nat, retries' >= retries
    PROVE  Load(e)' <= Bound'
<1>1. Load(e) <= Bound
  BY DEF LoadBounded
<1>2. /\ Cardinality(Flying(e)') <= Cardinality(Flying(e))
      /\ Cardinality(Flying(e)') \in Nat
  BY Numbers, FS_Subset, FS_CardinalityType
<1>3. retries \in Nat /\ RetryLimit \in Nat
  BY Parts, LimitAssumption
<1> QED
  BY <1>1, <1>2, <1>3, Numbers DEF Load, Bound, Selected

\* Steps that only end deliveries or move them on.
LEMMA LoadQuiet ==
    ASSUME IndInv, IsFiniteSet(Senders), LoadBounded, UNCHANGED <<row, retries>>,
           \A e \in Events : Flying(e)' \subseteq Flying(e), batch' \subseteq batch
    PROVE  LoadBounded'
<1>1. Recorded' = Recorded /\ Recorded \subseteq Events /\ retries \in Nat
  BY Parts DEF Recorded
<1>2. ASSUME NEW e \in Recorded PROVE Load(e)' <= Bound'
  BY <1>1, LoadKept
<1> QED
  BY <1>1, <1>2 DEF LoadBounded

\* A click on Retry: one delivery more, and one click more.
LEMMA LoadRetry ==
    ASSUME IndInv, IsFiniteSet(Senders), LoadBounded,
           NEW s \in Senders, NEW e \in Events, Retry(s, e)
    PROVE  LoadBounded'
<1>1. /\ NewJob("lookup", e) \in Job /\ NewJob("lookup", e).pc = "lookup"
      /\ NewJob("lookup", e).event = e /\ NewJob("lookup", e) # Idle
  BY Shapes DEF NewJob, Job
<1>2. /\ job[s] = Idle /\ job' = [job EXCEPT ![s] = NewJob("lookup", e)]
      /\ UNCHANGED <<row, batch>> /\ retries' = retries + 1 /\ retries \in Nat
  BY Parts DEF Retry, Begin, store
<1>3. \A d \in Events : Flying(d)' = IF d = e THEN Flying(d) \cup {s} ELSE Flying(d) \ {s}
  BY <1>1, <1>2, FlyingAfter
<1>4. Recorded' = Recorded /\ Recorded \subseteq Events /\ e \in Recorded
  BY <1>2, Parts DEF Recorded, Retry
<1>5. ASSUME NEW d \in Recorded PROVE Load(d)' <= Bound'
  <2>1. CASE d # e
    BY <1>2, <1>3, <1>4, <2>1, LoadKept
  <2>2. CASE d = e
    <3>1. s \notin Flying(e)
      BY <1>2 DEF Flying
    <3>2. Cardinality(Flying(e)') = Cardinality(Flying(e)) + 1
      BY <1>3, <1>4, <3>1, Numbers, FS_AddElement
    <3>3. Load(e) <= Bound
      BY <1>4 DEF LoadBounded
    <3> QED
      BY <1>2, <1>4, <2>2, <3>2, <3>3, Numbers, LimitAssumption DEF Load, Bound, Selected
  <2> QED
    BY <2>1, <2>2
<1> QED
  BY <1>4, <1>5 DEF LoadBounded

\* The delivery of a selected event begins.
LEMMA LoadSpawn ==
    ASSUME IndInv, IsFiniteSet(Senders), LoadBounded,
           NEW s \in Senders, NEW e \in Events, Spawn(s, e)
    PROVE  LoadBounded'
<1>1. /\ NewJob("lookup", e) \in Job /\ NewJob("lookup", e).pc = "lookup"
      /\ NewJob("lookup", e).event = e /\ NewJob("lookup", e) # Idle
  BY Shapes DEF NewJob, Job
<1>2. /\ job[s] = Idle /\ job' = [job EXCEPT ![s] = NewJob("lookup", e)]
      /\ UNCHANGED <<row, retries>> /\ e \in batch /\ batch' = batch \ {e}
      /\ retries \in Nat
  BY Parts DEF Spawn, Begin, store, counts
<1>3. \A d \in Events : Flying(d)' = IF d = e THEN Flying(d) \cup {s} ELSE Flying(d) \ {s}
  BY <1>1, <1>2, FlyingAfter
<1>4. Recorded' = Recorded /\ Recorded \subseteq Events /\ e \in Recorded
  BY <1>2, Parts DEF Recorded
<1>5. ASSUME NEW d \in Recorded PROVE Load(d)' <= Bound'
  <2>1. CASE d # e
    BY <1>2, <1>3, <1>4, <2>1, LoadKept
  <2>2. CASE d = e
    <3>1. s \notin Flying(e)
      BY <1>2 DEF Flying
    <3>2. Cardinality(Flying(e)') = Cardinality(Flying(e)) + 1
      BY <1>3, <1>4, <3>1, Numbers, FS_AddElement
    <3>3. Selected(e) = 1 /\ Selected(e)' = 0
      BY <1>2 DEF Selected
    <3>4. Load(e) <= Bound
      BY <1>4 DEF LoadBounded
    <3> QED
      BY <1>2, <1>4, <2>2, <3>2, <3>3, <3>4, Numbers, LimitAssumption DEF Load, Bound
  <2> QED
    BY <2>1, <2>2
<1> QED
  BY <1>4, <1>5 DEF LoadBounded

\* A tick selects events below the limit only, and no more than all senders can be
\* delivering one of them.
LEMMA LoadSelect ==
    ASSUME IndInv, IsFiniteSet(Senders), LoadBounded, SelectDue
    PROVE  LoadBounded'
<1>1. UNCHANGED <<row, job, retries>> /\ batch' = Due
  BY DEF SelectDue, store, counts
<1>2. /\ Recorded' = Recorded /\ Recorded \subseteq Events
      /\ \A e \in Events : Flying(e)' = Flying(e)
  BY <1>1 DEF Recorded, Flying
<1>3. ASSUME NEW e \in Recorded PROVE Load(e)' <= Bound'
  <2>1. CASE e \notin Due
    BY <1>1, <1>2, <2>1, Parts, LoadKept
  <2>2. CASE e \in Due
    <3>1. row[e].attempts < RetryLimit /\ Selected(e)' = 1
      BY <1>1, <2>2 DEF Due, Selected
    <3>2. retries \in Nat
      BY Parts
    <3> QED
      BY <1>1, <1>2, <3>1, <3>2, Numbers, LimitAssumption DEF Load, Bound
  <2> QED
    BY <2>1, <2>2
<1> QED
  BY <1>2, <1>3 DEF LoadBounded

\* A new event has its first delivery under way and nothing else.
LEMMA LoadInsert ==
    ASSUME IndInv, IsFiniteSet(Senders), LoadBounded,
           NEW s \in Senders, CreateEvent(s), Inserts(job[s].event)
    PROVE  LoadBounded'
<1> DEFINE w == [job[s] EXCEPT !.pc = "lookup"]
           x == [delivered |-> FALSE, attempts |-> 0]
<1>1. /\ job[s] # Idle /\ job[s] \in Job /\ job[s].pc = "insert" /\ job[s].event \in Events
      /\ job[s].event \notin Recorded
  BY Parts, Shapes DEF CreateEvent, Job, Inserts
<1>2. PICK d \in Events : d = job[s].event /\ d \notin Recorded
  BY <1>1
<1>3. w \in Job /\ w.pc = "lookup" /\ w.event = d /\ w # Idle
  BY <1>1, <1>2, Shapes DEF Job
<1>4. /\ job' = [job EXCEPT ![s] = w] /\ row' = [row EXCEPT ![d] = x]
      /\ UNCHANGED <<batch, retries>>
  BY <1>2 DEF CreateEvent, Goto, counts
<1> HIDE DEF w
<1>5. \A f \in Events : Flying(f)' = IF f = d THEN Flying(f) \cup {s} ELSE Flying(f) \ {s}
  BY <1>3, <1>4, FlyingAfter
<1>6. /\ row'[d] = x /\ \A f \in Events : f # d => row'[f] = row[f]
      /\ Recorded' \subseteq Recorded \cup {d} /\ Recorded \subseteq Events
  BY <1>4, Parts DEF Recorded
<1>7. d \notin batch' /\ Flying(d) = {}
  BY <1>2, <1>4, Parts DEF Flying, HoldsEvent
<1>8. Cardinality(Senders) \in Nat /\ Cardinality(Senders) >= 1
  BY FS_CardinalityType, FS_EmptySet
<1>9. retries \in Nat
  BY Parts
<1>10. ASSUME NEW f \in Recorded' PROVE Load(f)' <= Bound'
  <2>1. CASE f # d
    BY <1>4, <1>5, <1>6, <1>9, <2>1, LoadKept
  <2>2. CASE f = d
    <3>1. Flying(d)' = {s}
      BY <1>5, <1>7
    <3>2. Cardinality(Flying(d)') = 1
      BY <3>1, FS_Singleton
    <3>3. x.attempts = 0 /\ Selected(d)' = 0
      BY <1>7 DEF Selected
    <3> QED
      BY <1>4, <1>6, <1>8, <1>9, <2>2, <3>2, <3>3, LimitAssumption DEF Load, Bound
  <2> QED
    BY <2>1, <2>2
<1> QED
  BY <1>10 DEF LoadBounded

\* A delivery ends and is counted.
LEMMA LoadResult ==
    ASSUME IndInv, IsFiniteSet(Senders), LoadBounded,
           NEW s \in Senders, RecordAttemptResult(s)
    PROVE  LoadBounded'
<1>1. PICK d \in Events : d = job[s].event /\ d \in Recorded
  BY Parts, Shapes DEF RecordAttemptResult, HoldsEvent
<1>2. job[s] # Idle /\ job[s] \in Job /\ job[s].pc = "result"
  BY Parts, Shapes DEF RecordAttemptResult
<1>3. Result(job[s]) \in Event /\ Result(job[s]).attempts = row[d].attempts + 1
  BY <1>1, <1>2, Parts DEF Recorded, Result, Event, Job
<1>4. /\ job' = [job EXCEPT ![s] = Idle] /\ row' = [row EXCEPT ![d] = Result(job[s])]
      /\ UNCHANGED <<batch, retries>>
  BY <1>1, <1>3 DEF RecordAttemptResult, Return, counts
<1>5. \A f \in Events : row'[f] = IF f = d THEN Result(job[s]) ELSE row[f]
  BY <1>4, Parts
<1>6. Recorded' = Recorded /\ Recorded \subseteq Events
  BY <1>1, <1>3, <1>5, Shapes DEF Recorded
<1>7. \A f \in Events : Flying(f)' = Flying(f) \ {s}
  BY <1>4, FlyingAfter
<1>8. s \in Flying(d) /\ retries \in Nat
  BY <1>1, <1>2, Parts DEF Flying
<1>9. ASSUME NEW f \in Recorded PROVE Load(f)' <= Bound'
  <2>1. CASE f # d
    BY <1>4, <1>5, <1>6, <1>7, <1>8, <2>1, LoadKept
  <2>2. CASE f = d
    <3>1. Cardinality(Flying(d)') = Cardinality(Flying(d)) - 1
      BY <1>1, <1>7, <1>8, Numbers, FS_RemoveElement
    <3>2. row'[d].attempts = row[d].attempts + 1 /\ Selected(d)' = Selected(d)
      BY <1>3, <1>4, <1>5 DEF Selected
    <3>3. Load(d) <= Bound /\ Bound' = Bound
      BY <1>1, <1>4 DEF LoadBounded, Bound
    <3>4. Selected(d) \in Nat
      BY DEF Selected
    <3> QED
      BY <1>1, <2>2, <3>1, <3>2, <3>3, <3>4, Numbers DEF Load
  <2> QED
    BY <2>1, <2>2
<1> QED
  BY <1>6, <1>9 DEF LoadBounded

\* Every step keeps the bound.
LEMMA LoadStep ==
    ASSUME IndInv, IsFiniteSet(Senders), LoadBounded, [Next]_vars
    PROVE  LoadBounded'
<1>1. ASSUME NEW s \in Senders, NEW w \in Job \cup {Idle}, job' = [job EXCEPT ![s] = w],
             UNCHANGED <<row, batch, retries>>,
             \/ w = Idle \/ w.pc = "insert"
             \/ job[s] # Idle /\ job[s].pc # "insert" /\ w.event = job[s].event
      PROVE  LoadBounded'
  <2>1. \A e \in Events : Flying(e)' \subseteq Flying(e)
    BY <1>1, FlyingAfter DEF Flying
  <2> QED
    BY <1>1, <2>1, LoadQuiet
<1>2. ASSUME NEW s \in Senders, NEW e \in Events, Dispatch(s, e) PROVE LoadBounded'
  <2>1. NewJob("insert", e) \in Job /\ NewJob("insert", e).pc = "insert"
    BY DEF NewJob, Job
  <2> QED
    BY <1>1, <1>2, <2>1 DEF Dispatch, Begin, store, counts
<1>3. ASSUME NEW s \in Senders, FindMerchant(s) \/ Post(s) \/ CreateAttempt(s)
      PROVE  LoadBounded'
  <2>1. job[s] # Idle /\ job[s] \in Job /\ job[s].pc # "insert"
    BY <1>3, Parts, Shapes DEF FindMerchant, Post, CreateAttempt
  <2>2. \A pc \in {"post", "result"} :
           /\ [job[s] EXCEPT !.pc = pc] \in Job
           /\ [job[s] EXCEPT !.pc = pc].event = job[s].event
    BY <2>1 DEF Job
  <2>3. \A ok \in BOOLEAN :
           /\ [job[s] EXCEPT !.pc = "attempt", !.ok = ok] \in Job
           /\ [job[s] EXCEPT !.pc = "attempt", !.ok = ok].event = job[s].event
    BY <2>1 DEF Job
  <2>4. PICK w \in Job \cup {Idle} :
           job' = [job EXCEPT ![s] = w] /\ (w = Idle \/ w.event = job[s].event)
    <3>1. CASE FindMerchant(s)
      BY <2>2, <3>1 DEF FindMerchant, Goto, Return
    <3>2. CASE Post(s)
      BY <2>3, <3>2 DEF Post, Goto
    <3>3. CASE CreateAttempt(s)
      BY <2>2, <3>3 DEF CreateAttempt, Goto
    <3> QED
      BY <1>3, <3>1, <3>2, <3>3
  <2>5. UNCHANGED <<row, batch, retries>>
    BY <1>3 DEF FindMerchant, Post, CreateAttempt, store, counts
  <2> QED
    BY <1>1, <2>1, <2>4, <2>5
<1>4. ASSUME NEW s \in Senders, CreateEvent(s) PROVE LoadBounded'
  <2>1. CASE Inserts(job[s].event)
    BY <1>4, <2>1, LoadInsert
  <2>2. CASE ~ Inserts(job[s].event)
    BY <1>1, <1>4, <2>2 DEF CreateEvent, Return, counts
  <2> QED
    BY <2>1, <2>2
<1>5. ASSUME NEW s \in Senders, SenderError(s) PROVE LoadBounded'
  BY <1>1, <1>5 DEF SenderError, Return, store
<1>6. ASSUME Crash PROVE LoadBounded'
  <2>1. \A e \in Events : Flying(e)' = {}
    BY <1>6 DEF Crash, Restart, Flying
  <2> QED
    BY <1>6, <2>1, LoadQuiet DEF Crash, Restart, store
<1>7. ASSUME UpdateProfile \/ UNCHANGED vars PROVE LoadBounded'
  <2>1. UNCHANGED <<row, job, batch, retries>>
    BY <1>7 DEF UpdateProfile, vars, store, counts
  <2>2. \A e \in Events : Flying(e)' = Flying(e)
    BY <2>1 DEF Flying
  <2> QED
    BY <2>1, <2>2, LoadQuiet
<1> QED
  BY <1>2, <1>3, <1>4, <1>5, <1>6, <1>7, LoadRetry, LoadSpawn, LoadSelect, LoadResult
  DEF Next, Continue, RetryWorker

\* However ticks, clicks and slow deliveries overlap, and whatever faults lose, the
\* attempts of an event overrun the limit only by the deliveries that can be under way
\* at a time and by the clicks.
THEOREM OverrunIsBounded == IsFiniteSet(Senders) => (Spec => []OverrunBounded)
<1> SUFFICES ASSUME IsFiniteSet(Senders) PROVE Spec => []OverrunBounded
  OBVIOUS
<1>1. Init => LoadBounded
  BY DEF Init, LoadBounded, Recorded
<1>2. IndInv /\ LoadBounded /\ [Next]_vars => IndInv' /\ LoadBounded'
  BY StepInv, Stutters, LoadStep
<1>3. IndInv /\ LoadBounded => OverrunBounded
  <2> SUFFICES ASSUME IndInv, LoadBounded, NEW e \in Recorded
               PROVE  row[e].attempts + Cardinality(Flying(e)) <= Bound
    BY DEF OverrunBounded, Bound
  <2>1. Load(e) <= Bound /\ Selected(e) \in Nat
    BY DEF LoadBounded, Selected
  <2> QED
    BY <2>1, Numbers DEF Load
<1> QED
  BY <1>1, <1>2, <1>3, InitInv, PTL DEF Spec
================================================================================
