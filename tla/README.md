# Payfake API: TLA+ models, checks and proofs

Payfake is a Paystack-compatible payment simulator: a Go HTTP server over
PostgreSQL. Money never moves, so its correctness is that of its state: what
happens to a transaction, its charge, its one-time passwords, the webhook
events a merchant receives and the sessions of the dashboard when requests,
background goroutines, two periodic workers, crashes and shutdowns overlap.
This directory models that state, model-checks it on small instances with TLC
and proves the central results for instances of every size with TLAPS.

Paths below are relative to the repository; `service/`, `repository/` and the
like are under `src/internal/`.

## 1. Inventory

| Component | State | Operations | Interacts through | Hard behaviour |
|---|---|---|---|---|
| Payment core (`service/charge_service.go`, `service/transaction_service.go`, `repository/charge_repo.go`, `repository/transaction_repo.go`, `repository/otp_repo.go`) | `transactions`, `charges`, `otp_logs`; goroutine locals | initialize, charge (card, mobile money, bank), PIN, birthday, OTP, resend, 3DS, refund, force | calls the simulator on initiation and webhook dispatch after a commit; shares its tables with the expiry worker | check-then-act between statements; conditional updates; goroutine outliving its request; simulated delays |
| Expiry worker (`transaction_service.go:361-435`) | the rows it selected | select, abandon, end charges | the same tables | stale selection, unconditional update, two statements |
| Webhook delivery (`service/webhook_service.go`, `repository/webhook_repo.go`) | `webhook_events`, `webhook_attempts`; goroutine locals | dispatch, deliver, retry (dashboard), retry worker | called by the core; HTTP to the merchant; reads the merchant's URL | overlapping deliveries, lost answers, two statements per attempt, attempt limit |
| Sessions (`service/auth_service.go`, `repository/refresh_session_repo.go`) | `refresh_sessions`, password | register, login, refresh, logout, change password | merchants table | replayed tokens, rotation against revocation, statement snapshots |
| Simulator and scenario (`service/simulator_service.go`, `service/scenario_service.go`) | one scenario row per merchant, created on first use | resolve outcome, get, update, reset | called by the core | concurrent first uses; read-modify-save of whole rows |
| Customers (`service/customer_service.go`, `repository/customer_repo.go`) | `customers`; references to them in `transactions` | create, find-or-create (in the service and in the repository), update | called by initialize and charge; merged by the migration | concurrent first use of an email; legacy duplicates |
| Merchant accounts (`service/auth_service.go`, `service/merchant_service.go`, `repository/merchant_repo.go`, `middleware/auth.go`) | `merchants` | register, regenerate keys, update profile, authenticate by key or token | URL and secret read by deliveries; keys read by every API request | an email checked long before it is inserted; columns written back as they were read |
| Rate limiter (`middleware/rate_limit.go`) | a concurrent map of buckets, a mutex in each, an atomic counter | count a request, sweep | every request before its handler | the mutexes of all buckets taken by a sweep; a bucket judged under its mutex and deleted after |
| Start and shutdown (`src/cmd/api/main.go`) | process | start workers, shut down | ends every goroutine | goroutines nothing waits for |
| Schema and migrations (`database/database.go`) | indexes | migrate, de-duplicate legacy rows | the unique indexes the core relies on | legacy duplicates |
| Handlers, router, other middleware, responses, logging, statistics, `src/pkg` | none that anything else reads | binding, formatting, log rows | | none |

What makes each correct:

- **Payment core**: one successful charge per transaction; a success is recorded
  on both rows; a decided transaction changes by one refund only; the lookup of
  a charge by reference is unambiguous while it matters; OTP rows and charge
  stay in step and an old OTP has no effect; announcements agree with the facts;
  everything pending is settled in the end.
- **Webhooks**: recorded before sent, at least once, delivered means accepted and
  stays delivered, attempts are counted, retrying ends.
- **Sessions**: one unconsumed token per browser; what is closed stays closed;
  a password change closes everything.
- **Customers**: one per email; a transaction keeps its customer through migration
  and races; a reference chosen by a caller is used once.
- **Core and delivery together**: the endpoint is never told what is not true, and, once
  the merchant keeps a URL, is told of everything but an outcome whose event was never
  recorded: a fault fell between its commit and its announcement, or there was no URL.
- **Merchant accounts**: an email has one account, a key one merchant; a key that was
  exchanged never works again; an edit changes what was sent, and loses what an
  overlapping edit set only.
- **Rate limiter**: exactly the quota passes in a window; nobody waits for a bucket
  while holding one; a sweep ends a client's window early in a race only, and only such
  a race gives a client a second quota in one window.

## 2. Modules

| Module | What it is |
|---|---|
| `ChargeLifecycle` | payment core and expiry worker, with errors, crashes and shutdown |
| `PaymentPromise` | abstract specification: what the core promises a merchant |
| `ChargeInvariant` | the inductive invariant `IndInv` of the core |
| `ChargeProofs` | proofs of the invariants and action properties, and that the core implements `PaymentPromise` |
| `WebhookDelivery` | events, senders, retry worker, dashboard retry, endpoint |
| `DeliveryPromise` | abstract specification of delivery |
| `DeliveryProofs` | its invariant and refinement proofs |
| `RefreshSessions` | login, rotation, logout, password change |
| `SessionPromise` | abstract specification of sessions: opened, renewed with a fresh token, closed for good |
| `SessionProofs` | its invariants, the refinement, and what `RevokeAll` achieves |
| `CustomerDirectory` | customers, the transactions that point at them, the merging of duplicates at start-up |
| `DirectoryPromise` | abstract specification of customers: the past merged once, then one customer per email for good |
| `CustomerProofs` | its invariants and the refinement |
| `PaymentNotifications` | composes `ChargeLifecycle` and `WebhookDelivery` at `Dispatch` |
| `NotificationProofs` | carries both components' proofs over to the composition, and proves its own |
| `RateLimiter` | buckets, windows, mutexes and the sweep |
| `LimiterProofs` | its proofs |
| `MerchantAccounts` | registration, keys, and the rows a merchant edits in part: profile, scenario, customer |
| `AccountProofs` | its proofs |
| `Gateway` | composes `RateLimiter` and `MerchantAccounts`: the way of a request through the router |
| `GatewayProofs` | the composition implements both |
| `MC_Charge`, `MC_Webhook`, `MC_Notifications`, `MC_Sessions`, `MC_Customers`, `MC_Gateway` | small instances |

### Grain of atomicity

One step is one SQL statement or one database transaction. Everything the Go
code does between two of them uses values read earlier, which the models keep in
a record per goroutine (`work[r]`, `job[s]`): its `pc` names the next database
access. A handler begins with the read its decision rests on and takes its other
steps later, interleaved with everybody else. A handler that returns an error
before it has changed anything is no step.

A database transaction (READ COMMITTED) is one step where nothing another
goroutine does can come between its statements and its commit:

- `Finalize`, `AdvanceFlow` and `Rotate` name their rows by id. Each condition is
  evaluated on the locked, current row, the lock is kept until the commit, and the
  whole is rolled back when a condition fails.
- `CreateOnce` inserts a charge, and the OTP log of that charge, or nothing; an
  insert that meets an uncommitted one in the unique index waits for it.
- `ForceTerminalState` and the expiry worker's second statement look for the pending
  charges of a transaction. If there is one it is locked, and until the commit the
  partial unique index admits no other.

Two statements that look for rows and may miss what is inserted meanwhile are split:

- `ForceTerminalState` that has found no pending charge: its transaction is decided
  (`pc` is `commit`) but not committed. `Locked(t)` says so: whoever is to write that row
  waits (`Finalize`, `SetChannel`, a second forced outcome, `ExpireTransaction`), whoever
  reads it finds the old one, and a charge can be inserted. `CommitForced` is the commit.
- `RevokeAll` in `RefreshSessions`: an `UPDATE` over many rows visits the rows that
  existed when it started, and an insert committed meanwhile is not among them.

### `ChargeLifecycle`

| Model | Code |
|---|---|
| `status`, `paid`, `channel` | `transactions.status`, `paid_at`, `channel` |
| `charges` | charge rows: transaction, channel, status, flow status, OTP; `sampled` is the outcome the scenario gave (kept for the properties) |
| `issued`, `used` | OTP logs of a transaction, the k-th holding code k; those marked used |
| `events` | webhook events recorded (the details are in `WebhookDelivery`) |
| `Initialize`, `StartCharge` | `TransactionService.Initialize`; `ChargeCard`, `ChargeMobileMoney`, `ChargeBank` with `findOrCreateTransaction` and the scenario's outcome |
| `CreateCharge`, `SetChannel` | `CreateOnce` under the partial unique index; `setTransactionChannel` |
| `SubmitFactor` (PIN or birthday), `ResendOTP`, `SubmitOTP`, `CheckOTP`, `RefuseOTP`, `Advance` | the form steps: read by lowest charge id, second read for the OTP, `AdvanceFlow` |
| `Simulate3DS`, `Finalize` | `succeedCharge`, `failCharge`, `abandonCharge` over `ChargeRepository.Finalize`; also the mobile money goroutine |
| `Refund`, `Reverse`; `ForceOutcome`, `ForceTerminalState`, `CommitForced` | read, then conditional update; the commit of a forced outcome that found no charge, before which the row is `Locked` |
| `Dispatch` | recording the event after the commit, or not when there is no URL |
| `Age`, `SelectStale`, `ExpireTransaction`, `ExpireCharges` | time; `expireStaleTransactions`: select, `UpdateStatus`, the update of charges |
| `RequestError`, `SweepError`, `Crash`, `Shutdown` | a failing statement; the process ends; shutdown waits for handlers only |

Beside some conditions stands a *faulty variant* (`FinalizesDecided`,
`CreatesBesides`, ...), used by nothing: put in the place of the condition it
makes a property fail, which shows that the property depends on it.

`PaymentPromise` knows transactions only: opened, decided once, taken back once, and
announced when the facts support it. The expiry worker may overwrite a decided status
(which it does, see section 4), but only of a transaction that was pending when a
round selected it: the promise keeps these in `doomed`, which the core's `stale`
implements, and remembers in `lapsed` those that were overwritten, a history variable
of both. A transaction that no round had selected is therefore final.

### `WebhookDelivery`

`Dispatch`/`CreateEvent` (URL read, insert with ON CONFLICT DO NOTHING on the
delivery key), then `FindMerchant`, `Post`, `CreateAttempt`,
`RecordAttemptResult` are the steps of `deliver`. `SelectDue` and `Spawn` are
the retry worker: it selects and starts one goroutine per event, without looking
whether an earlier delivery is still under way. `Post` lets the endpoint accept an
event while its answer is lost. The merchant's URL changes at any time.
`DeliveryPromise` says: recorded, then accepted (any number of times), then
confirmed for good.

### `RefreshSessions`

A row per refresh token; `family` is the login it descends from and `parent` the
token rotated into it (neither is a column: both are history the properties speak
of). `SessionPromise` knows tokens and sessions only; `Promise` maps a session to the
tokens of its family that a refresh would accept (not used, not revoked, not expired),
so that a rotation is `Renew`, and logout, `RevokeAll` and time are `Close`.
`RefreshTokens` then `Rotate`, `Logout` then `Revoke`, `ChangePassword` then
`UpdatePassword`, `StartRevokeAll`, `RevokeAll` follow the code's statements.

### `CustomerDirectory`

| Model | Code |
|---|---|
| `customers`, `payments` | live and soft-deleted customer rows, numbered in the order `(created_at, id)`; transactions with their customer, and the email they were made for (history the properties speak of) |
| `Init` | any database an earlier release can have left: duplicates of an email, transactions of any of them |
| `Reconcile`, `CreateIndex` | the database transaction of `migrate` that repoints transactions to the oldest row and soft-deletes the rest (`database.go:76-122`); the unique index (`:123-129`). Requests are served afterwards |
| `Initialize`, `InlineCharge`, `CreateCustomer` | `POST /transaction/initialize` with its reference check; `POST /charge` with an email and an amount; `POST /customer` |
| `FindByEmail`, `EmailExists`, `CreateOnce`, `FindWinner` | the statements of the two `FindOrCreate`: the service's goes on to `Create`, which asks again and refuses a taken email; the repository's inserts and, when refused, reads the winner's row |
| `CreateTransaction` | the insert under the unique index on references |
| `RequestError`, `Crash` | a failing statement; the process ends and the migration runs again |

`DirectoryPromise` has no rows, requests or restarts: the live customers of each email,
and the email and customer of each payment. `Reconcile` is its `Merge` before the index
is there, and must change nothing afterwards, when a restart runs it again over what
requests have made.

One process runs at a time: a migration beside a server of the earlier release is
not modelled.

### `PaymentNotifications`

The module extends `ChargeLifecycle` and instantiates `WebhookDelivery` with the pairs
of a transaction and an event type for its events: that pair is the delivery key. In
the code, a goroutine of the core that has committed an outcome calls
`WebhookService.Dispatch` itself; delivery leaves it after `CreateEvent`, with
`go s.deliver`. In the model a worker in `dispatch` and a sender are that goroutine
together: `EnterDispatch` (merchant and URL are read), `RecordEvent` (the worker's
`Dispatch` and the sender's `CreateEvent` are one step, after which the worker is done
and the sender delivers), `SkipDispatch` (no URL) and `DispatchError` (a statement in
it fails; the core does not look at the error). `Stop` ends the goroutines of both.
Everything else is a step of one component, taken as it is.

### `RateLimiter`

| Model | Code (`middleware/rate_limit.go`) |
|---|---|
| `limiter`, `bucket`, `mutex`, `tally` | the map `limiter` and its entries; `count`, `windowStart`, `lastSeen`; `entry.mu`; `limiterRequests`, modulo `CleanupEvery` (1024) |
| `LoadOrStore`, `Lock`, `Count`, `Tally` | the steps of `RateLimit` |
| `Judge`, `Delete`, `EndSweep` | `cleanupLimiter`: `Range`, the judgement under the mutex, `Delete` by key afterwards |
| `torn` | history: the buckets that were deleted in a race (`Raced`), used, made or fetched by a request since the sweep judged the client |
| `Tick` | time, in fractions of a window |

A bucket is an object: a request that holds it goes on using it after the map has
dropped it, and the client's next request gets another one. `QuotaExact` is about one
bucket, so it says nothing of a second one in the same window; `OneQuotaAtATime` does:
of the buckets a client has drawn on, but for those in `torn`, no two have windows that
overlap. The exception is real. With four requests (one to sweep, and three of its
victim: an old one, one that uses the bucket after the judgement, one that gets a new
bucket after the deletion) TLC finds the second quota when the exception is dropped; four
are too many for the run kept here, in which buckets are torn and made again, but not
within one window.

### `MerchantAccounts` and `Gateway`

| Model | Code |
|---|---|
| `email`, `key`, `stored`, `row`, `issued` | columns of `merchants`; which rows there are; the editable columns of the merchant, its scenario and a customer; every secret key ever stored (history) |
| `EmailExists`, `Create` | `AuthService.Register`: the check, and the insert under the unique index after the password has been hashed |
| `RegenerateKeys` | one `UPDATE` |
| `RequireSecretKey`, `RequireJWT` | the authentication that a request passes before its handler |
| `FindRow`, `CreateScenario`, `SaveRow`, `RefuseEdit` | `UpdateProfile`, `ScenarioService.Get`, `Update` and `Reset`, `CustomerService.Update`: find (a missing scenario is created), apply what was sent, save |

In `Gateway` a request arrives, takes the limiter's steps, and once admitted (`Passed`)
has its route's authentication and handler run, in one goroutine throughout.
`Accounts == INSTANCE MerchantAccounts` shares the request ids with the limiter.

## 3. Runs

Passing runs:

| Run | Checks | Instance | Distinct states |
|---|---|---|---|
| `charge_safety` | `TypeOK`, `SingleSuccess`, `SuccessIsPaid`, `OpenTxHasOneCharge`, `OtpInStep`, `EventsAgree`, `MomoServed`, `ChannelFollowsCharge`, `MomoUsesCurrentOtp`, `StuckOnlyIfMissed`, `KeepsPromise` | 1 transaction, 2 charges, 2 goroutines, mobile money, local cards and 3DS cards, 2 OTPs, 1 fault of any kind | 3.2 million |
| `webhook_delivery` | `TypeOK`, `DeliveredHasProof`, `AttemptsAccounted`, `OverrunBounded`, `KeepsPromise`, `EventsSettle` | 1 event, 3 senders, limit 3, 1 dashboard retry, 1 fault, with fairness | 250 thousand |
| `notifications` | `NoFalseNews`, `IndInv`, `ForgottenOnlyByFault`, `OutcomesTold`, `PendingSettles` | 1 transaction, 1 charge of a local or a 3DS card, 1 goroutine, 1 sender, limit 1, 1 error or crash, a URL that comes and goes, with fairness | 370 thousand |
| `gateway` | `TypeOK`, `QuotaExact`, `NoHoldAndWait`, `OneQuotaAtATime`, `SweepSparesLive`, `AccountsUnique`, `KeysRetire`, `FieldsAsSent` | quota 2, windows of 2 ticks, a sweep by every second request, 2 clients; the loads of `SmallLoads`, up to 3 requests and 2 merchants | 1.5 million |
| `sessions` | `OneUnusedPerFamily`, `ClosedStaysClosed`, `KeepsPromise` | 4 tokens, 2 requests, 1 password change, 1 fault | 390 thousand |
| `customers` | `TypeOK`, `OneCustomerPerEmail`, `PaymentsKeepCustomer`, `ReferenceOnce`, `InlineChargePays`, `KeepsPromise` | 2 emails, 3 customer rows, 2 transactions, 1 reference, 3 requests, 1 fault, every legacy database of that size | 530 thousand |

Why these bounds. Transactions do not interact except in the worker's list, so one
is enough for the races on it. Two goroutines and the expiry worker are three
actors; every race on one payment found in the code is between two of them, and the
second goroutine may run several requests while the first is held up. Two charges
are needed for one on a transaction already decided, two OTPs for a resend; two
channels for one that is stale. They also reach what `MomoUsesCurrentOtp` excepts (`LateFailure`): a
first charge with an OTP, a second one sampled to fail and inserted after the decision,
advanced with the first one's code. Three senders are dispatch, worker and dashboard on
one event. The composition adds what lies between the components, which one
goroutine, one sender and one fault reach: a refund, a forced outcome or an expiry
while delivery lags; the core's inductive invariant is evaluated there, too, because it
is costly, and proved for every instance. Four tokens allow two logins with a rotation each, or three
rotations of one. Three customer rows are the oldest of an email, its duplicate and
a customer of the other email; three requests are the two of a race and one that uses
its result. Three requests and a quota of two make one be refused; with a sweep by
every second request and windows of two ticks, five ticks are enough for a bucket to
become stale (more than two windows), be deleted and be made again. A load bounds
which routes are looked at together, because requests for different rows do not meet:
two registrations and an exchange of keys, an edit beside exchanges, three uses of a
scenario, two merchants, and any two routes. The counters that would grow without end
(`issued`, `retries`, `password`, `now`, `faults`) are bounded by constants named in
the modules.

In the runs with symmetry only goroutines, transactions, tokens, emails, requests or
merchants are permuted; charge ids, customer rows, keys and buckets are not, because
lookups and allocation order them. Deadlock checking is off because the bounds stop
the model.

## 4. Where the code differs from what it says

Each run below checks one statement of a comment and finds a behaviour of the code
that breaks it.

| Run | Statement | Behaviour |
|---|---|---|
| `claim_terminal` (`TerminalIsFinal`) | "only one terminal transition can win" (`transaction_repo.go:143`) | the expiry worker selects a pending transaction, it is paid, `UpdateStatus` (`transaction_service.go:415`) abandons it: `paid_at` is set, the charge successful, the status abandoned |
| `claim_old_otp` (`OldOtpInvalidated`) | "the old one is invalidated by overwriting it" (`charge_service.go:632`) | card or bank: code 1 is checked, `ResendOTP` issues code 2, `Finalize` completes the payment with code 1 |
| `claim_stuck_charge` (`PendingChargesEnd`) | "a charge stuck at send_pin or pay_offline for over an hour should also be marked as failed/abandoned" (`transaction_service.go:421-423`) | a request reads the transaction as pending, the worker abandons it and ends its (zero) charges, the request inserts its charge: no later round looks at it |
| `claim_shutdown` (`MomoHasGoroutine`) | shutdown "covers MoMo async goroutines" (`main.go:82-84`) | `Server.Shutdown` waits for connections; the goroutine of a charge in `pay_offline` is lost |
| `claim_retry_forever` (`EventsAlwaysSettle`) | "We still record the attempt" (`webhook_service.go:122-123`), which is to keep the worker from retrying for ever (`:69-71`) | the URL is cleared after the event was recorded: `deliver` returns with no attempt, and each round selects the event again |
| `claim_revoke_all` (`RevokeAllCloses`) | "no existing browser can silently extend its session" (`refresh_session_repo.go:60-62`) | a rotation commits its replacement while `RevokeAll` runs; the replacement stays usable |

What holds instead is checked and, except for the last, proved:

| Refuted | Holds |
|---|---|
| `TerminalIsFinal` | it is true of every transaction that no late round has overwritten (`FinalUnlessLapsed`), and such a round overwrites only what it had selected while it was pending (`KeepsPromise`) |
| `OldOtpInvalidated` | for mobile money the OTP that takes effect is the one the charge holds at that moment, whatever its scenario said; but a charge that was to fail, inserted after its transaction was decided, has no OTP to compare and can be taken offline with an earlier charge's code, after which `Finalize` refuses it (`MomoUsesCurrentOtp`) |
| `PendingChargesEnd` | a charge is left behind only if it was inserted after its transaction was decided, or after a forced outcome had looked for it and before its commit, or if an error or the end of the process falls between the expiry worker's two statements for its transaction (`StuckOnlyIfMissed`) |
| `MomoHasGoroutine` | without faults a charge that waits offline has its goroutine (`MomoServed`) |
| `RevokeAllCloses` | a password change closes every session if no fault happens and no rotation commits beside its statement (`RevokeAllClosesAlone`) |
| `EventsAlwaysSettle` | events settle if the merchant has a URL from some point on (`EventsSettle`) |

`claim_stuck_charge` and `claim_retry_forever` are liveness claims, checked with
the fairness of section 5. Five more behaviours were seen and have no run.
`ForceTerminalState` "keeps the transaction and its optional charge record in sync"
(`transaction_repo.go:140-141`), but a charge inserted after it has looked for one and
before it commits stays pending on a decided transaction: the second exception of
`StuckOnlyIfMissed`. The third breaks the comment of `claim_stuck_charge` as well: the worker
looks neither at the result of its second statement nor at that transaction again. The service's `FindOrCreate` is to find or create a customer "transparently"
(`customer_service.go:70-74`), but answers that the email is taken when another
request inserts it first; `InlineChargePays` is therefore about inline charges
only, which use the repository's. A comment on key generation
(`src/pkg/keygen/keygen.go:58-62`) says that a rotation leaves the public key alone;
`AuthService.RegenerateKeys` (`auth_service.go:226-235`) replaces both keys, on every
path, so there is nothing to explore. And one behaviour no sentence of the repository
excludes: during the delay of a charge that the scenario wants to fail, a form step
can advance the charge, the failure is then refused (the flow has changed), and the
charge can succeed.

## 5. Fairness

- Goroutines that have a step to take eventually take it (`WF` on `Continue`): the
  Go scheduler, and database calls that return.
- The expiry worker: `WF` on its steps; its ticker fires every five minutes for the
  life of the process, and it runs at start-up. Time passes (`WF` on `Age`).
- The retry worker: `WF` on `SelectDue` (ticker), `SF` on spawning a selected
  event. `Spawn` needs an idle sender of the few in the model; `go s.deliver` needs
  none, so strong fairness only removes a limit the code does not have.
- In the composition (`SystemFairness`) a goroutine of the core that is to enter
  `Dispatch`, and the retry worker, need a sender that another may take first: again
  `SF`, for the same reason. A goroutine waits for nobody else.
- Nothing is assumed of customers, merchants, operators or faults.

`EventsSettle` assumes that the merchant keeps a URL from some point on; without
that it is false (`claim_retry_forever`). So does `OutcomesTold`, and nothing else:
whatever errors and crashes there are, before, during or after a delivery, all outcomes
are told but the `Forgotten` ones, which never got from their commit through `Dispatch`
into the table. `ForgottenOnlyByFault` says that only a fault at that step, or no URL then,
makes one of these; the code has nothing that would notice it.

## 6. Proofs

For every value of the constants, from the constants' named assumptions only:

| Theorem | Statement |
|---|---|
| `Invariance` | `Spec => [](IndInv /\ LocksOK)` of the core |
| `TypeCorrect`, `ChargedOnce`, `PaymentsRecorded`, `LookupUnambiguous`, `OtpTablesAgree`, `EventsSupported`, `MomoAlwaysServed`, `ChannelsAgree` | `Spec => []` `TypeOK`, `SingleSuccess`, `SuccessIsPaid`, `OpenTxHasOneCharge`, `OtpInStep`, `EventsAgree`, `MomoServed`, `ChannelFollowsCharge` |
| `MomoOtpCurrent`, `LeftBehindIfMissed`, `PromiseKept` | `Spec =>` `MomoUsesCurrentOtp`, `StuckOnlyIfMissed`, `KeepsPromise` |
| `FinalUnlessLapsed` | `Spec => FinalUnlessLate /\ ([](lapsed = {}) => TerminalIsFinal)` |
| `DeliveryInvariance`, `DeliveryTypes`, `DeliveredIsBacked`, `AttemptsStayAccounted`, `DeliveryKept` | the delivery invariant, `TypeOK`, `DeliveredHasProof`, `AttemptsAccounted`, `Spec => KeepsPromise` |
| `OverrunIsBounded` | `IsFiniteSet(Senders) => (Spec => []OverrunBounded)` |
| `SystemInvariance`, `NewsAreTrue`, `SystemKeepsPaymentPromise`, `SystemKeepsDeliveryPromise`, `OutcomesForgottenByFaultOnly` | of `PaymentNotifications`: the invariants of both components together, `[]NoFalseNews`, each component's promise, and `SystemSpec => ForgottenOnlyByFault` |
| `SessionInvariance`, `SessionTypes`, `UsedOnce`, `ClosedForGood` | the session invariant, `TypeOK`, `OneUnusedPerFamily`, `Spec => ClosedStaysClosed` |
| `SessionsKept`, `RevokeAllClosesAlone` | `Spec => KeepsPromise`; `Spec => (RotationsWait /\ [](faults = 0) => RevokeAllCloses)` |
| `DirectoryTypes`, `CustomersUnique`, `HistoryKept`, `ReferencesUnique`, `InlineChargesPay` | `TypeOK`, `OneCustomerPerEmail`, `PaymentsKeepCustomer`, `ReferenceOnce`, `Spec => InlineChargePays` |
| `DirectoryKept` | `Spec => KeepsPromise` |
| `TypesKept`, `QuotaKept`, `NeverHoldsAndWaits`, `SweepsSpareLive`, `OneQuota` | of `RateLimiter`: `LimiterTypeOK`, `QuotaExact`, `NoHoldAndWait`, `SweepSparesLive`, `OneQuotaAtATime` |
| `UniquenessKept`, `KeysStayRetired`, `EditsAsSent` | of `MerchantAccounts`: `AccountsUnique`, `KeysRetire`, `FieldsAsSent` |
| `ImplementsLimiter`, `ImplementsAccounts`, `OnlyAdmittedAreServed`, `GatewayQuota`, `GatewayOneQuota` | the gateway implements `LimiterSpec` and `Accounts!Spec`; `[]OnlyAdmittedServed`, `[]QuotaExact`, `[]OneQuotaAtATime` |
| `GatewayTypes`, `GatewayUniqueness`, `GatewayKeysRetire`, `GatewayEdits` | of `Gateway`: `TypeOK`, `AccountsUnique`, `KeysRetire`, `FieldsAsSent` behind the limiter |

The argument for the core. None of the safety properties is inductive: each says
something of the tables, and a goroutine half way through a request could break it
with what it remembers. `IndInv` therefore says

- of each row (`RowOK`), pair of rows (`PairsOK`) and transaction (`TxOK`) how the
  three tables fit together, for decided transactions as well (a pending charge on
  an abandoned transaction is allowed; a second pending or a second successful one
  is not);
- of each goroutine (`JobOK`) what stays true of the values it holds: the charge
  exists and belongs to its transaction; a code it has checked was issued and is no
  older than the OTP it read; the outcome it is about to announce is still supported
  by `paid` and `status`, even if the expiry worker has overwritten the status.

Beside it stands `LocksOK`: a forced outcome that waits for its commit still finds its
transaction pending, and no other waits for the same one. `CommitForced` writes without
looking again, so everything `IndInv` says of a decided transaction rests on it; it is
inductive together with `IndInv` because every writer of `status` waits while the row is
locked. `ChargeProofs` shows it action by action (`LocksKept`, `LocksQuiet`, `ForcedLocks`,
`ContinueLocks`, `ArriveLocks`).

`ChargeProofs` has one lemma per action and a few lemmas for kinds of steps (a read,
a step that changes one job, a table update that leaves jobs alone). The refinement
maps every step to `Decide`, `TakeBack`, `Doom`, `Lapse`, `Announce`, `Open` or a
stutter. Two properties hold only while no fault has happened and rest on invariants
of their own, beside `IndInv`: `Served` (a charge that waits offline has a goroutine
that is about to finalize exactly that charge in that flow, so that `Finalize` cannot
refuse it while it waits) and `ChannelInv` (before the first charge of a transaction
is inserted the channel is still the one that was read, and afterwards only goroutines
of that charge write it). `MomoUsesCurrentOtp` rests on `EmptyOtpInv`: a charge without an
OTP on a pending transaction is its first row and no code was issued yet, so `SubmitOTP`
has none to accept, and a job that holds an empty OTP and will take its charge offline
has a transaction that is decided. That no charge is left behind (`StuckOnlyIfMissed`) is a property
of steps, faults included: `PairsOK` says that `Finalize` ends the only charge in progress, `OneHalf`
that the expiry worker is between its two statements for one transaction at most, and
the commit of a forced outcome can strand only a charge whose transaction was `Locked`.

The delivery invariant adds that a job past the insert holds a recorded event, and
that a remembered success was accepted and, at its last step, has an attempt row; for
`AttemptsAccounted` it counts the deliveries between their two statements. How far the
attempt limit is overrun needs more: `LoadBounded` bounds the attempts counted and the
deliveries under way together with those the current round has selected and not started,
each of which will occupy a sender. Here the senders have to be finitely many, an
assumption of that theorem alone.

The session invariant adds that families are founded by existing tokens and that requests
hold tokens that exist. The promise of `SessionPromise` is kept through the refinement
mapping of `RefreshSessions`, one step of the code being one step of the promise or a
stutter.

The invariant of the directory adds that a job which is to pay holds a live row with its
email, that a job which reads the winner will find one, and that jobs exist only while
requests are served, which is after the index was built. Against `DirectoryPromise` the
statements of a request map to stutters until the one that makes the customer or the
payment visible, and the reconciliation of a start maps to the merge of duplicates.
That `Reconcile` leaves each payment a live customer needs the oldest row of every email
to exist: a lemma from the well-foundedness of the numbering of rows, whatever finite or
infinite set they are.

The composition reuses these proofs by instance: `D == INSTANCE DeliveryProofs` with the
composition's events, whose assumptions on the constants are proved first. Every step
is shown to be a step of the core or leave it alone, and a step of delivery or one of
those its own proof allows to the rest of the process. To `IndInv`, `LocksOK` and the
delivery invariant `SystemInv` adds that the events
the core takes for recorded are the rows delivery holds; then false news are impossible
because what was accepted was recorded, and what is recorded is supported by the core's
invariant.

For the limiter, the counter of a bucket has to be the number of requests counted in its
window, and the admitted ones the smaller of it and the quota: cardinalities over the
requests that have arrived, which therefore are finitely many. The clock enters by
`Times`: nobody was counted in a window that had ended. `Doom` says why a bucket may be
deleted: at the time of the judgement its window had ended, or it has been used since
the sweeping request was counted. For `OneQuotaAtATime`, `QuotaInv` follows the buckets a
client has drawn on and lost: unless a race tore it, each was idle for two windows when it
was deleted, so its window ended before the next bucket was made. For the accounts, types and uniqueness are
inductive as they stand; that an edit changes what was sent needs in addition `Creators`,
that only a scenario is ever created on the fly. In the gateway both specifications are
implemented with the identity for a mapping, since each component's variables change by
its own steps only; that no refused request is served needs the invariant that a request
has a job only after it entered its handler. With that refinement every theorem about
the accounts alone holds behind the limiter (`A == INSTANCE AccountProofs`).

Only model-checked: the liveness properties (`PendingSettles`, `EventsSettle`,
`OutcomesTold`), which are out of the prover's reach together with the fairness they rest
on, and that the code's claims of section 4 fail.

## 7. Not modelled

- **Several merchants** in the core, delivery, sessions and customers: rows are scoped by
  merchant id in every query. `MerchantAccounts` has several, for keys and emails.
- **CORS, request ids, logging, statistics, responses**: no state other parts depend on.
- **Amounts, card data, payloads, signatures, texts**: no property depends on them.
  `SubmitAddress` is unreachable beyond its guard: no charge is ever in `send_address`.
- **Access tokens**: they have no row, and expire by time alone; a request with one is a
  request for its merchant.
- **`RateLimitWebhookTest`** is the algorithm of `RateLimiter` on a map of its own with
  merchants for addresses, which nobody sweeps: that module with `CleanupEvery` out of
  reach.
- **The session of a registration**: `Register` stores it after the merchant; if that
  fails the client is told that registration failed though the account exists. Nothing
  in the repository says what should happen; the merchant can log in.
- **The order of row locks inside a database transaction**: `Finalize` locks the charge
  before the transaction, `ForceTerminalState` the other way round, so PostgreSQL may
  abort one of them as a deadlock victim. To the models that is an error before any
  change. The lock of a forced outcome that waits for its commit is modelled (`Locked`).
- **Card checks and outcome resolution**: pure functions of one request, decided before
  any state is touched; the core takes any of the outcomes the simulator can return.
- **The migration of legacy charges and events**: see the plan.

## 8. Plan

Done: payment core and expiry worker with the abstract promise; delivery; both composed;
sessions; customers and references; rate limiter; merchant accounts and partial edits;
their composition in the gateway; the proofs of all of them. Next, in this order:

1. **Statement-level core**: `Finalize` and the rest of `ForceTerminalState` as sequences
   of statements under row locks, with the abort of a deadlock victim, shown to implement
   the steps used here.
2. **Legacy rows of charges and events**: the de-duplication by the migration beside that
   of customers.
3. **A run for the service's `FindOrCreate`** (section 4).
4. **Pure parts**: outcome resolution, card expiry and Luhn against reference definitions.
5. **The gateway in front of the core**: forms and dashboard of the payment core behind
   the limiter, as the accounts are now.
