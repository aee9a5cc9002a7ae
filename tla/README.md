# Verification of SettleKit's settlement core

SettleKit sells digital goods for stablecoins: a buyer sends a transfer, the
backend finds it on a network, and the buyer gets access (a repository, a key, a
role, an API). Beside that it runs escrows, payment streams, royalty payouts and an
autonomous operator that pays bills out of a guarded vault. This directory holds
TLA+ models of the parts that move money or turn it into access, the TLC
configurations that check them, and TLAPS proofs of what matters most. `PROJECT.json` is the index: which
definition stands for which lines, which run checks what, and which mutation of
the code each property notices.

Contents: [inventory](#inventory) · [plan](#plan) · [the models](#the-models) ·
[runs](#runs) · [fairness](#fairness) · [proofs](#proofs) ·
[disagreements with the code](#disagreements-with-the-code) ·
[not modelled](#not-modelled)

## Inventory

The repository is a pnpm monorepo: some hundred packages, three backend programs
(`apps/checkout`, `apps/worker`, `apps/api`), user interfaces, contracts, SDKs,
and a set of sample applications that share nothing with the product. The three
programs share one Postgres database. **They use next to no transactions** (the claim of a
charge is one): every repository call is one statement, and nearly every write is an upsert of a whole
JSON document computed from a copy read before an `await`. What keeps that
correct is a few unique indexes, derived row identifiers, and the order in which
the writes are made. That is where bugs live that a unit test does not reach, and
it decides what is modelled first.

| Component | State | Operations | Talks to | What is hard | What makes it correct |
|---|---|---|---|---|---|
| Payment and session lifecycle (`packages/payments`) | none, pure functions on documents | confirm, fail, refund; complete, expire, cancel, collect | everyone | the caller may save an old copy | only the transitions of the drawn flow |
| Checkout confirm and fulfilment (`apps/checkout/lib`) | `payments`, `checkout_sessions`, `customers`, `entitlements`, `coupon_redemptions`; an in-flight map per process | `confirmOnce`, `claimTxHash`, `fulfillOnce`, `saveCollectedFields`, `markExpired` | networks, outbox, worker and API through the tables | several processes, polling buyers, death between writes | one transfer, one payment; nothing granted before money; granted exactly once |
| Worker payment confirmation, route watch (`apps/worker/src/jobs`) | the same tables; the copies a tick holds | one tick, one fill | networks, outbox | stale copies, races with the checkout | as above; a buyer who leaves is still served |
| Merchant payment API (`apps/api/src/routes/payments.ts`, `checkout-sessions.ts`) | the same tables | record, confirm, fail, refund, observe; collect, cancel, expire | networks, outbox | two requests at once, other hash than recorded | as above; a refund stays a refund |
| Webhook outbox and delivery (`packages/persistence`, `webhook-retry-job`) | `webhook_events`, `worker_webhook_jobs`, `webhook_endpoints` | enqueue, retry tick, resend, test, register, disable, enable, rotate | merchant servers | crash between event and jobs, crash between post and record, stale endpoint copies | every subscriber gets its event, once unless something died; caps hold |
| Delivery runs (`packages/delivery`, `delivery-runner-job`) | `worker_delivery_queue`, and what stands in other systems | enqueue, execute, roll back, retry, save | GitHub, Discord, mail, keys | one of several actions fails, lost answers, crash before the single save | record and reality agree; a paid run ends delivered |
| Worker scheduler | a flag per job | tick | every job | ticks that overlap or die | a job never overlaps itself |
| Onchain billing, dunning (`packages/onchain-billing`, `packages/dunning`) | `onchain_subscriptions`, `onchain_charges` with leases, `dunning_states`; the buyer's allowance on a chain | grant, charge (claim, pull, record, confirm), retry, suspend, cancel | networks, core subscriptions, entitlements, delivery runs | worker and API charge at once, a pull whose outcome is unknown, a cancel in between | one pull per period; paid means pulled; a due period is settled; a cancel stays |
| Entitlements, access sync | `entitlements`, grants outside | grant, expire, revoke, sync | GitHub, Discord | save first and revoke later, with a crash between | expired access is taken back |
| Coupons | coupons, redemptions | validate, redeem | checkout, API | count races | limits hold |
| Refunds, disputes, payouts, invoices | a record each | status moves | API, payout rail | late answers of the rail | no second payout |
| Operator vault (`OperatorVault.sol`) | USDC held, four buckets, reservations, escalations, the day's spending, rules | allocate, pay or escalate, approve, reject, expire, yield, withdraw, change rules | token, yield adapter, operator service, owner | any order of calls by operator and owner, caps changed and days turning in between | buckets and reservations are backed; the operator stays within the day's cap; an escalation moves its amount once |
| Operator service (`packages/operator`, `operator-tick-job`) | `operator_bills`, `operator_escalations`, `operator_claims`, the hash-chained decision log | handle a bill, approve, reject, expire, record | the vault, the owner's requests, the worker | two calls for one event or escalation, several proposals of one event, answers of the vault that are lost, kills, clocks at the edge of the time to decide | an event is decided once and a bill paid no more often than was decided; the books call paid what the vault paid |
| Stream contract (`LeptonStreamSettlement.sol`) | streams, a pool of tokens | open, settle, pause, resume, close | token | accrual across pauses, capped by the reserve | money is conserved; active time is billed once |
| Escrow and bond contracts (`SettleKitEscrow.sol`, `AgentReputationBond.sol`) | deals, a balance | create and fund, release, refund, dispute; release, slash | token | orders of the three parties' calls | a deal pays once, to one side |
| Escrow tasks (`packages/escrow`) | `escrow_tasks` and six audit tables | ten transitions of a table | API | two requests on one task, a request cut off half way | a released task was funded and has a worker |
| Idempotent payouts (`settlement-core`, `citation-toll`, two Lepton jobs) | `lepton_settlements` or memory, royalty legs, refunds of streams | list, claim, send, record, mark | networks | two sweeps of one reference, a transfer whose answer is lost, legs that come meanwhile | one transfer per reference and per leg; every leg is settled in the end |
| x402 and facilitator | nonce and settlement stores | verify, settle | agents, gateway | replayed or parallel headers | one settlement per authorization |
| Identity, chains, routing, wallets | clients of services | requests | external | classification of answers | errors are not successes |
| Interfaces, SDKs, samples | none shared | | API | | |

How a purchase runs through them: the checkout creates a session; the buyer's
page posts a hash and keeps polling; `confirmOnce` claims the hash (the unique
`tx_hash` index decides a race), confirms the payment, completes the session,
counts the promo, enqueues `payment.confirmed`, and grants. If the buyer leaves
after the claim, the worker's `payment-confirm` tick does the same with its own
code. The API can record, confirm, fail or refund the same rows, and `observe`
and `route-watch` insert payments already confirmed. `payment.confirmed` goes
through the outbox to merchant endpoints. A subscription charge instead queues
a delivery run, which the worker executes.

The components with their sources and their status, those not modelled with the
reason, are listed in `PROJECT.json`; the hazards, each at its line, too.

## Plan

Order: the path from money to access first, then what is told to others, then
what money does later.

1. **Done.** `Lifecycle`, `Settlement`, `PaidAccess` (abstract), proofs of the
   money-first invariants, of "one transfer, one payment" and of the refinement.
2. **Done.** `WebhookDelivery`, model-checked, its safety as theorems.
3. **Done.** `DeliveryRuns`, model-checked, its safety as theorems.
4. **Done.** `OnchainBilling`: the charge engine of a subscription billed by
   Permit2, model-checked, with theorems about its types, about cancels, about the
   pulls of a period and about what the books call paid; the abstract
   `PeriodCharge`, with the refinement as a theorem.
5. **Done.** `OperatorVault`, `StreamSettlement`, `SettleKitEscrow`: the contracts
   as state machines, with their safety as theorems.
6. **Done.** `Operator` over `OperatorVault` (the vault is the abstract
   specification of the service's money, and the refinement is a theorem);
   `EscrowTasks`; `RoyaltySweep`.
7. `AccessSync`: entitlements that expire and the revocation of what they
   granted; composed with `DeliveryRuns` as the source of grants.
8. `X402`: verify, settle, nonce store, under parallel and repeated headers.
9. **Done.** Proofs of what counts payments along the history: `PulledOnce`,
   `PaidIsPulled`, `RedeemedOnce`, `LegPaidOnce`, `BillPaidOnce`.

Everything to be proved about is written without recursive operators, with its
parameters as constants with named assumptions, and with its invariants as
conjunctions of named parts.

## The models

### Reading rules

* **One action is the code between two awaits.** A handler that reads, waits and
  writes is two or more actions, with what it holds meanwhile in a local record
  (`act[a]` in `Settlement`, `wk`, `emitting` and `editing` in `WebhookDelivery`,
  `runner` in `DeliveryRuns`, `run` and `cancel` in `OnchainBilling`, `handlers` in
  `Operator`, `requests` in `EscrowTasks`, `sweeps` in `RoyaltySweep`). Copies are kept as copies, so a save writes what was
  read, not what is stored.
* **Nothing is transactional** but the claim of a charge, so each statement is its
  own step. A transaction of a contract is one action, whose guard is every check
  that would revert. A unique index
  is a condition on the save (`IndexAllows`), a foreign key too (`KeysExist`).
* **Data is what the properties distinguish**: amounts, line items, messages,
  e-mail and signatures are gone; a payment is (session, hash, status).
* **History variables** (`settledBy`; `owed`, `acked`, `inARow`; `effect`, `vanished`;
  `payments`; `metered`; `sent`, `unpaid`) record
  what happened; no guard reads them, apart from the bounds and, in
  `DeliveryRuns`, a rollback that finds its grant gone.
* A definition with a comment "Mutant:" stands right before the one it is a bug
  of; nothing uses it. It says what the properties are sensitive to.

### `Lifecycle`

`payment-lifecycle.ts` and the session half of `checkout.ts`. Where the code
throws, `CanX` is false; `X` is the document returned. `CanConfirm` admits a
confirmed payment with the same hash (the idempotent return), `CanRefund` a
refunded one.

### `Settlement`

| Actors | Code | Actions |
|---|---|---|
| flight `<<process, session>>` (the in-flight map allows one) | `store.ts` `confirmOnce` … `fulfill.ts` | `Confirm` · `FindExisting` · `FindPrior` · `Verify` · `EnsureCustomer` · `ClaimTx` · `SaveConfirmed` · `SaveCompleted` · `CountRedemption` · `SaveRedeemed` · `Emit` · `FindLedger` · `Grant` |
| `Worker` | `payment-confirm-job.ts` | `StartTick` · `TakePayment` · `WorkerVerify` · `WorkerSave` · `WorkerEmit` · `WorkerComplete` · `ScanEntitlements` · `WorkerGrant` |
| request `r` | `routes/payments.ts` | `Record` · `ApiConfirm` · `ApiReadSession` · `ApiUnused` · `ApiVerify` · `ApiSave` · `ApiRedeem` · `ApiComplete` · `ApiGrant` · `ApiEmit` · `ApiReadPayment` · `ApiSaveStatus` |
| request `r` | `observe`, `route-watch.ts` | `Notice` · `NoticeVerify` · `NoticeSave` · `NoticeEmit` |
| request `r` | session routes, `saveCollectedFields`, `markExpired` | `EditRead` · `EditSave` |
| networks | external | `ChainStep`: unseen, seen, then final or late (a quote that expired) |
| the host | external | `Crash`: one process loses all its handlers; tables stay |

`payment`, `session`, `customers`, `events`, `redemptions` are tables. An
entitlement is either in `ledger` (the checkout derives its identifier from the
payment, so writing it twice is writing it once) or counted in `extra` (the worker
and the API use random identifiers). `Ops` says which merchant and background
operations a deployment uses, and a run or a theorem can speak of "every
deployment that does not use confirm". `Pays[tx]` is the set of sessions whose
terms a transfer meets: two sessions at one price share transfers, and nothing but
the index tells them apart.

### `PaidAccess`

What a merchant is promised: a transfer settles one payment for ever, and a
payment is served only after a transfer settled it. `Settlement` implements it
(`KeepsPromise`) with `settledBy` for itself and `served` = the payments with an
entitlement or an event.

### `WebhookDelivery`

`InsertEvent`, `ReadTargets`, `InsertJob` are the three statements of
`PgWebhookOutbox.enqueue`. `StartTick` reads the due jobs once, `TakeJob` reads the
live endpoint of each, `Post` is one attempt of `deliverWithRetry` (an exception
replaces the attempts made so far by one, as the job does), `SaveJob` and
`SaveHealth` write back the copies changed by `recordJobAttempts` and
`applyEndpointOutcome`. `EditRead`/`EditSave` are disable, enable and
rotate-secret; `QueueManual` is resend and test. `nextAttemptAt` is a flag that
`Elapse` lowers.

### `DeliveryRuns`

A run is the vector of its action states; `ResetFailed`, `Open`, `Advance`,
`ExecuteOk`, `ExecuteFail`, `Retreat`, `Undo`, `DeriveRunStatus` are
`retry.ts`, `runner.ts` and `internal.ts`; `StartRuns`, `TakeRun`, `SaveRun`, `RunnerCrash`
the job around them. `effect[r][i]` counts what action `i` leaves standing in the
other system: an answer may be lost after the call took effect (`MaxLost`), be it an
execution, which is then tried again, or a rollback, whose action goes on reading
*succeeded* (`vanished` remembers it); and only one snapshot is saved, at the end.

### `OnchainBilling`

One subscription whose buyer signed a Permit2 allowance of `Covered` periods.
`run[r]` is a call of `chargeSubscription`, of the worker's `subscription-charge`
job or of the API (`Api`): both may run at once.

| Code | Actions |
|---|---|
| `submitGrant`, POST `/grant` | `GrantRead` · `GrantSave`, which goes on with a charge |
| `cancel`, POST `/cancel` | `CancelRead` · `CancelSave` · `CancelCore` |
| `chargeSubscription` | `Call` · `Start` · `WaitForRetry` · `ClaimCharge` (`decideClaim` under the row lock) |
| `collect` with the Permit2 provider | `ListCharges` · `ReadReceipt` · `ReadAllowance` (with `Reconciled`) · `Send` · `RecordStep` · `Confirm` · `SaveSucceeded` |
| `decline`, the dunning service | `SaveFailed` · `GetDunning` · `FindActive` · `StartDunning` · `FindCampaign` · `RecordAttempt` (`Attempt`) · `RetryIsDue` |
| `patchSubscription` | `ReadForPatch` · `PatchSubscription` (`Merged`) |
| the access hooks | `HookCore` · `HookEntitlement` |
| failures | `Throw` (an error inside the try of `collect`) · `Crash` · `SendLost` · `LeaseEnds` |
| external | `Mine` · `Revoke` · `NextPeriod` |

Amounts are counted in prices of a period, which is what the comparison of
`Reconciled` is about. A call carries its copy of the charge (`step`, `leased`), of
the dunning row (`dun`) and of the subscription row it is about to patch
(`patched`); `then` says how it goes on. Time is the period the clock is in, a flag
for a dunning attempt that is not due yet, and leases that end: a lease that ends
under a working holder, or a period that begins during a call, counts as a fault,
since a lease is ten minutes and a period at least weeks.

### `PeriodCharge`

What the customer and the merchant of a subscription are promised: a period is pulled
once, no more periods are marked paid than were pulled, and the subscription is paid
through, and access runs to, a period that is marked paid. A *slip*, whatever went
wrong, may cost two pulls of a period more and one mark, and from then on a paid
period may be opened again; a revoked allowance may cost one mark. `OnchainBilling`
implements it (`KeepsPromise`): `pulls` are the mined transfers, `paid` the succeeded
charges, `booked` the `paidThrough` of the row, `through` the period the entitlement
runs to, `slips` the faults.

### `BlockTime`, `OperatorVault`

`BlockTime` is the block clock that the contracts share. `OperatorVault` has one
action for each external function of the contract: `Allocate`, `PayNow` and
`Escalate` (the two outcomes of `pay`, behind `PayChecks`), `SweepToYield`,
`RedeemFromYield` for the operator; `Approve`, `Reject`, `OwnerWithdraw`, `SetCaps`,
`SetAllowlist`, `SetOperator`, `TransferOwnership`, `SetYieldAdapter`, `SetPaused`
for the owner; `Expire` and `Inflow` for anyone. `escalations` is `_pending`, an id
is a place in it. Of `spentOnDay` the entry of the current day is kept, the only
one the code reads. `operatorToday` and `capToday` are history.

### `Operator`

`EXTENDS OperatorVault`: a step of the service is a step of the vault or leaves it
alone. `handlers[h]` is a call of the service, one action per `await`:

| Code | Actions |
|---|---|
| `BillIntake`, `operator-tick-job` | `Intake` · `PickDue` |
| `handleWith` | `TakeClaim` · `ReadBills` · `EngineThrows` and `Unclaim`, or `Decide` · the proposals · `Finish` · `UpdateBill` |
| `execute`, one proposal after the other | `ProposePayout` / `ProposeUnmatched` · `PayBill` / `PayFails` / `PayLost` · `OpenRow`; `ProposeAside` |
| `record` | `ReadHead` · `AppendDecision` / `Relink` / `RecordThrows` |
| `approve`, `reject` | `BeginResolve` · `TakeClaim` · `CheckRow` · `VaultCall` / `VaultCallRefused` / `VaultCallFails` / `VaultCallLost` · `ApproveFresh` · `LoadRow` · `SaveRow` · `FindBill` · `CloseBill` |
| `expireStale` | `ListStale` · `SaveExpired` · `ExpireNext` · `FindBill` · `CloseBill` |
| the host, the rest | `ResolveThrows` · `Kill` · `Fund` · `OwnerAdmin` |

The engine is a nondeterministic choice of proposals, at most `MaxProposals`
(`MAX_PROPOSALS_PER_EVENT`) of one event, any number of them payouts, of one bill or of
several. They are revealed as they are carried out: nothing between two of them depends
on those to come. What the tools check when a proposal is made, they check against
`open`, the bills the engine saw open while it decided. `ProposeAside` is what has
nothing to do with a bill: declined, deferred, failed, sent to the owner, or executed,
and then it is an allocation; a refund, a sweep or a redemption would do the same to the
books, which see a status only. An event is the `bill.due` of a bill (a bill is its own
event and its own decision hash), or another that `Concerns` a bill or none. `said` is
`aggregateOutcome` of what was carried out so far. Four variables are history: `acted`
counts the decisions of an event, `planned` the payouts of a bill they asked for, `aside`
the bills a decision executed something else about, `overlaps` the owner's requests on a
row that an approval under way has opened. `behind` says that another decision was appended since the call
read the head of the log, which is all of the hash chain that control depends on.

### `StreamSettlement`, `SettleKitEscrow`, `EscrowTasks`

`StreamSettlement` has the five functions of the contract over a clock; `metered`
is the history of the instants a stream was active. `SettleKitEscrow` models an
escrow and a bond as one kind of deal: a bond is a deal whose seller side is paid
by `slash` and whose buyer side by `release`; only an escrow can be disputed.
`EscrowTasks` is the table `ESCROW_TRANSITIONS` with `Load`, `SaveTask`,
`SaveRecord`, `FindDispute`, `StampDispute`, the awaits of every method of
`EscrowService`. `TasksCoherent` is about the task and about its audit records: a
dispute reads resolved only if the release or refund that resolved it is on record.

### `RoyaltySweep`

`ListRoyalties` and `ListRefund` begin the sweep of the two Lepton payout jobs; a
reference is the set of the legs it was made of. `Get`, `ReserveClaim`, `Recheck`,
`PutReceipt`, `ReleaseClaim` are the awaits of `withIdempotency`. A transfer has four
outcomes: made and answered (`SendPays`, the receipt says settled, submitted or, for a
state the client does not know, failed); answered without being made (`SendPaysNothing`:
a request the client refuses, a transfer that reverted, a submitted one that is never
mined); not made, with an exception (`SendThrows`); made, with an exception (`SendLost`).
Nobody who finds a final receipt asks which of the three it is, so the model has one
*final*; a submitted transfer that is mined later counts as made at once. `Mark` is the
loop over `markSettled`. Two histories count the transfers: `sent` those made under
a reference, `paid` those a leg was in. `durable` says whether the receipts live in Postgres or in
the memory that `SweepCrash` loses.

### The MC modules

`MCSettlement`, `MCWebhookDelivery`, `MCDeliveryRuns` and `MCOnchainBilling` give
constants their values: which operations are in use, which sessions a transfer pays
(`PaysAny`), which actions can be rolled back (all but the last, as an e-mail
cannot), and the symmetry sets. `MCLedgers` and `MCWorkerJobs` put components that
share nothing but the clock, the worker or the scheduler side by side: an initial `focus` says which
of them a behaviour moves, so that one run explores each of them wholly and their
product not at all. `MCLedgers` also says where a focus starts: the operator's begins
on a vault its owner has set up, just before midnight. Symmetry is used in runs
without a liveness property only, over identifiers that no definition distinguishes.

## Runs

| Run | Properties | What it shows |
|---|---|---|
| `settle_once` | `TypeOK`, `TxSettlesOnePayment`, `TxInv`, `KeepsPromise` | two checkout processes, two sessions at one price, one transfer, a route fill and a refund: the transfer settles one payment over the whole history |
| `settle_all` | `NothingBeforeMoney`, `CompletedIsPaid` | every operation at once, with stale copies and a crash: no access, event or completed session without money |
| `settle_live` | `RedeemedOnce`, `ClaimIsFinished`, `StatusFollowsFlow` | a claimed payment on a network the worker verifies leaves the pending state though the buyer leaves, verifications fail and a process crashes; a promo is counted at most once; only the save of a stale copy takes a status off the drawn flow |
| `settle_replay` | `TxSettlesOnePayment` is violated | a confirm with another hash than recorded saves its stale copy over a payment another actor confirmed meanwhile; the hash that settled it is free and settles another |
| `settle_lost` | `ConfirmedIsGranted` is violated | death between completed session and entitlement |
| `webhooks` | `TypeOK`, `DeliveredIsAcked`, `AckedOnce`, `GivesUp`, `DisabledForFailures`, `EventIsQueued`, `JobResolves` | the delivery log tells the truth, deliveries repeat only after a crash, caps hold, an event has its jobs unless its emit was cut off, jobs are not forgotten |
| `worker_jobs` | `JobsTypeOK`, `RecordIsTrue`, `SucceededIsDelivered`, `StandsOnce`, `SentOnce`, `LegPaidOnce`, `SettledIsAnswered`, `RunSettles`, `LegsSettle` | delivery runs: record and reality agree up to one leftover per fault and the rollbacks nobody heard of, every run ends. Payout sweeps: one transfer per reference and per leg, one more per fault; nothing is marked settled without a final answer; no leg stays pending while receipts are in memory |
| `ledgers` | `LedgersTypeOK`, `VaultSolvent`, `OperatorWithinCap`, `BillPaidOnce`, `PaidIsPaid`, `StreamConserved`, `ActiveTimeBilled`, `DealPaysOnce`, `TasksCoherent` | the vault under owner and operator; the service with two calls under way on it, through lost answers and kills; streams, deals and tasks under every order of calls |
| `delivery_stuck` | `Recovers` is violated | rolled-back actions are never executed again |
| `renewals` | `TypeOK`, `PulledOnce`, `PaidIsPulled` | worker and API charge two periods through a fault: one pull per period, two more per fault; what reads paid was pulled |
| `charges` | `DueIsSettled`, `CanceledStays`, `KeepsPromise` | the buyer may revoke the allowance: a due period ends paid, suspended or canceled; a cancel is undone only by a row read before it; `OnchainBilling` implements `PeriodCharge` |
| `unentitled` | `PaidIsEntitled` is violated | the worker collects the first period and nobody creates the entitlement |

### Bounds

Every bound is a constant that a guard or a set names.

* One or two sessions and hashes: the conflicts of `Settlement` are between two
  claims of one hash or two writers of one row, so two payments exhibit them.
  `settle_replay` takes three payments and two hashes because the counterexample
  needs a hash that settled a payment to become free again. In `settle_once` all buyers
  are guests at first, so that its sessions are alike. `Covered` is every hash
  of the instance; that the worker may fail a verification does not depend on it.
* `MaxFaults`, `MaxCrashes` 1: a crash forgets all local state, so the state after
  two crashes is reached from tables that one crash already shows; more faults
  only loosen the bounds the properties state as functions of them.
* `MaxGrants` 1 and `MaxRedemptions` 1 stop the API's confirm and the checkout's
  confirm from repeating after the count they would raise; a *violation* is still
  one step away, since the guard admits the step from the bound to beyond it.
* `TickTries` 2, `MaxAttempts` 2, `DisableAfter` 3: smaller than the code's 3,
  24 and 100, with the relations that matter kept: a schedule that follows an
  exception steps over the cap, and the streak needs more than one schedule.
* `N` 3 with the last action not undoable: failure after two successes, one of
  the rollbacks may fail, and order of rollback is visible. `MaxTries` 2, and
  `MaxFailures` 4 is enough for a whole failed run, a failed rollback and a failing
  retry.

* `Renewals`: two periods, so that the allowance has a past to be compared with;
  four covered and four pulls, so that one period could be pulled once more than the
  three times that the single fault excuses. Nobody revokes there: a revoked
  allowance excuses a period, and the one fault another, so that of two periods
  nothing would be left to violate. `Charges`: one period, two
  attempts, so that a campaign both waits and ends; one cancel; the buyer may revoke;
  no fault, since a
  pull with an unknown outcome already leaves a charge to be resumed.

* `Ledgers`: the caps allow either one payment a day or two that are all
  escalated; two instants make a day, so a day turns; an escalation is too old one
  instant after it was made. Two calls of the service on one bill of 1: the races are
  between two, and a third call would wait for a claim. The operator begins with 2 USDC
  in, 1 of it where it pays bills. Two proposals of its one event (`MaxProposals`), and
  one thing out of the ordinary in a behaviour (`OneOddity`): a second payout of the
  bill, something executed beside it, a fault, or an overlap (`MaxOverlaps`); `FewRows`
  leaves fewer rows the more was proposed. A bill may then be paid twice and a third
  payment would be seen. Several bills, several events and events about the same bill
  are the theorem's, which holds for any number. On the vault alone amounts are 1 and 2
  and there is one escalation at a time. Two streams (money could flow between them
  only through the pool), rate 2 against a reserve of 3, so that the cap bites in the
  middle of an instant; two openings of an id. Two escrows and a bond share one balance;
  three people, one of them arbiter and perhaps also a party. Two requests on one task.
* `WorkerJobs`: two sweepers and two legs, so that a reference of both legs competes
  with one of either; one fault. Royalties and refunds take turns, they share no
  reference.

`Webhooks`, `WorkerJobs`, `Ledgers`, `DeliveryStuck`, `Renewals`, `Charges` and
`Unentitled` switch the deadlock check off: once every job, run or subscription is
over there is nothing to do. `Settlement`
never stops, a buyer may always ask again.

## Fairness

Each fairness condition is a sentence about the runtime, and none is about a
person.

* **An await returns.** A started handler or job goes on: weak fairness on
  `FlightStep(f)`, `ReqStep(r)`, `EmitStep(a)` and `WorkerStep`. A call that fails
  also returns, through a disjunct of the same action; a call that hangs for ever
  is not modelled (the clients have timeouts).
* **The scheduler ticks.** `scheduler.ts:77-121` starts every job on an interval,
  skips a tick while the last one runs, and survives an exception. So `StartTick`
  is part of the fair `WorkerStep` and never overlaps itself.
  In `OnchainBilling` it is `Call` of the worker's runs; the API's are not fair.
  In `RoyaltySweep` a sweep that has something to list begins again.
* **A network does not fail the worker for ever**: a verification by the worker may
  fail whatever the network shows (an RPC that is down, an exception), so
  `WorkerVerify` has both outcomes at every tick. Strong fairness on the outcome that
  goes on (`WorkerConfirms(p)`), for the hashes in `Covered` only: on a network the
  worker has no verifier for the answer is "unsupported" at every tick
  (`payment-verification.ts:61,92,116,146,175`), and `ClaimIsFinished` claims nothing
  there.
* **A node does not fail every transfer**: strong fairness on the answer
  (`SendPays`, `SendPaysNothing`) of a sweep that keeps coming to `send`; without it
  every attempt may throw for ever, and the leg is rightly still pending.
* **Time passes**: weak fairness on `Elapse`, `RetryIsDue` and `LeaseEnds`.
* **A broadcast transaction is mined** or reverts: weak fairness on `Mine`.
* **Faults are finite** (`MaxFaults`, `MaxFailures`): "if failures stop, then".
* No fairness for merchants, networks and buyers. One specification,
  `BuyerSpec`, adds a buyer who keeps the page open, whose poll confirms again and
  again; it is used only where it makes a violation stronger (`settle_lost`: even
  the polling buyer is not granted).

## Proofs

The proofs hold for every number of sessions, hashes, payments, processes and
requests, and for every bound; they use the named assumptions of `Settlement`:
`OpsAssumption`, `PaysAssumption`, `CoveredAssumption`, `SessionKindsAssumption`,
`NamesAssumption`, `BoundsAssumption`.

`SettlementProofs`

* `TypeCorrect`: `Spec => []TypeOK`.
* `MoneyInvariant`: `Spec => []MoneyInv`, and from it `MoneyFirst`
  (`NothingBeforeMoney`) and `CompletionIsPaid` (`CompletedIsPaid`).
* `StatusFlow`: `Spec => StatusFollowsFlow`. A step that saves a payment saves what the
  flow allows from the row its actor holds: the saving steps check that themselves, but
  for the API's fail and refund, which checked it when they read the row (`ChecksHold`).
  Either the held row is what is stored, and the step is one of the flow, or the actor
  holds a stale copy, which is what the property names.

`NothingBeforeMoney` is not inductive: a step such as `Grant` acts on what an actor
remembers, so the invariant has to say what every stage of every handler may
remember. `MoneyInv` adds: a held row and its stored row agree on the session, the
one field no writer changes (`RowAgrees`); past a verification the transfer is
final, and stays final since no network step leaves that state
(`VerifiedIsFinal`); a fulfilling stage holds a payment in `settledBy`, which only
grows (`FulfilsSettled`); a copy of a completed session is of a session that was
paid (`CompletedCopyIsPaid`), because such a copy may be written back at any
time; the same for the copies in the worker's queue (`QueueAgrees`). Statuses
do not appear: copies may disagree on those, and the invariant survives it. That
is the reason money-first holds in spite of the stale saves.

`SettlementHashProofs`

* `HashesStayPut`: with `"confirm" \notin Ops`, `Spec => []TxInv`, and from it
  `OneTransferOnePayment`: with `"confirm" \notin Ops`,
  `Spec => []TxSettlesOnePayment`.

The unique index only speaks of the present, the property of the whole history.
`TxInv` closes the gap: copies agree with their rows on the hash (`HashAgrees`),
so no row ever loses the hash that settled it (`SettledKeepsHash`), so the index
guards that hash for ever. The confirm route breaks exactly this: it holds a copy
of a row and a hash of its own, and its save changes the row's hash; that is what `settle_replay` shows; hence the assumption.

* `RedemptionsCountOnce`: `Spec => []RedeemedOnce` where all processes are one and
  `Ops` has neither `confirm`, `collect` nor `fields`. With one process the in-flight
  map lets one flight be in a session (`Counts`: a stage between the read of an open
  session and the count belongs to the flight named after the session), so what that
  flight has read is still so; a session that is no longer open is never opened again,
  since the writers that would are those the assumption leaves out; and an open session
  was not counted. Without any one of the three assumptions a promo is counted twice
  with no crash at all.
* `PromiseKept`: with `"confirm" \notin Ops`, `Spec => KeepsPromise`: `Settlement`
  implements `PaidAccess`. A step of `Settlement` saves a row as confirmed, or serves
  the payment its actor fulfils, or leaves both alone (`Advances`). The first is a step
  of the promise since `TxSettlesOnePayment` holds after it, so the hash had settled
  nothing before; the second since `MoneyInv` says that what an actor fulfils is
  settled.

`OnchainBillingProofs`

* `BillingTypeCorrect`: `Spec => []TypeOK`, for any number of calls, periods and
  attempts, from `RunsAssumption`, `SizesAssumption` and `BoundsAssumption`. Types
  alone are not inductive: a patch copies `then` into the status, so the invariant
  says that a call which patches holds a status the row may have (`Sound`), and
  that a recorded pull is one that was broadcast.
* `CancelKept`: `Spec => CanceledStays`. Three writers save the row. `Merged` keeps a
  cancel it has read, so what remains are rows read before it, which the property
  names; the run has one call at most that does so, the theorem any number.
* `PeriodsPulledOnce`: `Spec => []PulledOnce`, for any number of calls over any number
  of periods. `PullInv` counts tokens: a period has one for each pull that did not
  revert, one for each call that may yet broadcast a pull (`Poised`), one for each call
  that lost its lease and may record its pull over another's (`Overruns`), and one while
  the charge is free to be claimed for a new pull (`Free`). Every step hands its token on
  (`Balance`), so there are at most `1 + 2 * faults`. Two per fault, since a lease that
  ends under its holder makes it both a call that may pull and a call that may overwrite,
  and the charge is free beside them. That a call hands its token on at all rests on who
  may know a recorded pull: its charge and one holder of the lease (`Kept`, `Alone`).
* `PaidPeriodsWerePulled`: `Spec => []PaidIsPulled`. `PaidInv` counts the periods that
  are shown as paid, or are about to be, or have a mined pull while the clock or a call
  is in them (`Counts`); these are never more than the mined pulls and the faults, but
  after a revocation. A period is shown as paid on a receipt, which is a mined pull of
  its own, or on an allowance that is lower than it should be. For the second the
  invariant says what the number of paid periods a call has read still means when it
  compares (`Seen`): all periods before some `lo` that count are among them, and the
  periods from `lo` on began while a call was under way, each a fault. So the allowance
  shows a mined pull that no counted period stands for. With a revoked allowance the
  comparison holds for the last covered period alone, whence the single period that
  the property grants.

* `BillingKeepsPromise`: `Spec => KeepsPromise`, the refinement of `PeriodCharge`, for
  any number of calls, periods and faults. What the promise says of a slip-free
  subscription needs an invariant of its own: `ExactInv`. Before anything fails, a call
  that works on a charge holds its lease (`CallExact`), a charge with a lease is not
  paid yet, and whatever is booked, served, or held in a copy of the row that may yet be
  saved is a period marked paid (`Marked`, `BooksExact`). So no stale copy books a
  period that was never marked, and no save takes a mark back. Once something has
  failed only the budgets are left, and those come from the two theorems before:
  a step that pulls or marks lands in a state where `PulledOnce` and `PaidIsPulled`
  hold, so there was room for the pull or the mark before it (`MinePromised`,
  `PromiseStep`).

`OperatorProofs`

* `VaultIsSafe`: `VaultSpec => [](VaultTypeOK /\ VaultSolvent)`, and `VaultKeepsCap`:
  `VaultSpec => []OperatorWithinCap`,
  for any accounts, payees, adapters, amounts and caps, from `VaultAmountsAssumption`,
  `VaultCapsAssumption`, `VaultTimesAssumption`, `VaultNamesAssumption` and
  `VaultBoundsAssumption`. `OperatorWithinCap` speaks of the largest cap of the day
  and the contract of the present one and of its counter, so the invariant adds
  `WithinToday`: the cap in force is at most that largest one, and what the operator
  paid is at most the counter.
* `ResolvedStays`: `VaultSpec => EscalationsFinal`, a resolved escalation never
  changes again.
* `OperatorImplementsVault`: `OperatorSpec => VaultSpec`. Every step of the service is
  one step of the vault or a stutter of it, so what is proved of the vault holds
  under the service, whatever its engine decides (`ServiceIsBound`).
* `OperatorPays`: `OperatorSpec => [](OperatorTypeOK /\ PaidIsPaid)`, for any number of
  bills, events, proposals, calls, lost answers and kills. The invariant says what each
  call under way may believe (`Sound`): one that carries the outcome *paid*, or is about
  to save an approved row, has a payment of its bill behind it; one whose event has
  executed something has a payment of the event's bill behind it, or its bill in `aside`.
* `BillsPaidOnce`: `OperatorSpec => []BillPaidOnce`, for any number of bills, events,
  proposals, calls, rows and escalations. `BillPaidOnce` is not inductive: it does not say
  who may still pay. `TokenInv` does. A bill has a token for each payment made, one for
  each call that may yet pay it (`Holders`), one for each
  escalation of the vault that the owner may yet approve (`LiveOf`), and one for each
  row that may be paid for want of an escalation (`OpenRows`); these are never more than
  the payouts decided on, the faults and the overlaps (`Budget`, `Counted`). A call that
  has made an escalation and not yet stored it
  holds one token for both (`Private`), and so does the approval of an old row that has
  opened a new one (`Opener`). A step hands its token on: a payment spends it,
  a release of a row's claim gives it back, an escalation moves it from the
  call to the vault. A payout that is proposed makes one, and so do a fault (a lost
  answer, a call that fails or dies) and an owner who resolves a row that an approval of
  his has just opened. That the tokens of two bills are not mixed up is `NamesInv`: a
  row, its escalation and the calls on them name one bill, and no two rows have one
  escalation. The cardinalities are those of `FiniteSetTheorems`. That an event is
  decided once is `ClaimsInv`: a call in charge of an event has its claim and is alone
  with it, and it frees the claim only where nothing has been decided.

`LedgerProofs`

* `StreamsConserve` (the type invariant and `StreamConserved`) and
  `StreamsBillActiveTime` (`ActiveTimeBilled`). The invariant relates the contract's `accrued` and `lastTick` to the history
  (`Metered`), in the two forms that the accrual of an active and of a paused stream
  take, since the cap by the reserve makes it non-linear.
* `DealsPayOnce` and `TasksStayCoherent`: the type invariants with `DealPaysOnce` and
  `TasksCoherent`. The latter is inductive only with what is said of the requests under
  way: the documents they hold are coherent, and one that resolves a dispute has its
  release or refund on record (`OnRecord`).
* `LedgersAreSound`: `LedgersSpec` keeps `LedgersTypeOK` and all eight safety
  properties of the run `ledgers`, for every value of the constants that has the people
  the start names (`CastAssumption`). The components were proved from their own first
  states; here the operator starts on a vault its owner has set up, and the others rest
  while one moves. So the invariant goes by the focus (`LedgersInv`): the one that moves
  has its inductive invariant, the others are as they began. That the operator's
  invariants hold at the set-up vault is what `ServiceInitInv`, `TokensAtFirst` and
  `ClaimsAtFirst` say of any sound vault without escalations.

`RoyaltySweepProofs`

* `RoyaltiesPayOnce`: `SweepSpec => []SentOnce`, and `SettledWasAnswered`:
  `SweepSpec => []SettledIsAnswered`, for any number of legs and sweepers.
  A reference has one holder between its claim and its release (`OneHolder`), and
  the count of its transfers is at most the faults, plus one only if it has a final
  receipt or a holder about to put one (`Owned`). That is inductive, `SentOnce` is not.
* `LegsPayOnce`: `SweepSpec => []LegPaidOnce`. A leg may be under many references, so
  the count per reference does not bound it. `LegInv` follows the leg instead: a royalty
  was paid no more often than the faults, plus one only if it is settled or its sweep is
  about to mark it (`Spent`). A sweep that has yet to send must then hold no settled leg
  (`Unsettled`), which another sweep could break at any time by marking one; that is why
  the property, and with it the invariant, speaks of sweeps that have not overlapped
  (`OneSweep`). A refund is alone under its reference, where `sent` counts it.

`DeliveryRunsProofs`

* `RecordsAreTrue` (the type invariant and `RecordIsTrue`), `NothingTwice`
  (`StandsOnce`) and `SuccessIsDelivery` (`SucceededIsDelivered`), for any number of
  runs, actions, tries, failures, lost answers and crashes. While a run is executed
  its row says nothing true, so the invariant says the same of the copy in the
  runner (`CopyIsTrue`); the runner executes only what is open and undoes only what
  has succeeded (`RunnerSound`, for which `First` and `Last` are shown to choose a
  member of their set); a rollback whose answer was lost is remembered with the run and
  the action it took back, and the invariant excuses no other; a copy waiting for its turn is still the row (`DueSound`),
  because nobody but the runner saves rows. Without that last part a run taken
  twice would be executed twice.
* `JobsImplementParts`: `JobsSpec => DeliverySpec /\ SweepSpec`. To each of the two jobs
  a behaviour of the worker that has both is one of its own. `JobsAreSound` is what
  follows: `JobsTypeOK` and every safety property of the run `worker_jobs`.

`WebhookDeliveryProofs`

* `WebhooksTyped`, `DeliveryIsTrue` (`DeliveredIsAcked`), `AcknowledgedOnce`
  (`AckedOnce`), `WorkerGivesUp` and `EventsAreQueued`: the type invariant and those it names, for
  any number of events, endpoints, apps, requests, faults and edits, from
  `TriesAssumption`, `BoundsAssumption`, `EditOpsAssumption` and `NamesAssumption`.
  A copy of a job in the tick is still its row (`Held`): nobody but the worker saves
  a job that exists, and time changes only one that waits, which is not due. So the
  attempts added to the copy are added to the row, and an answer is known at most
  once beyond the faults (`Known`). For `EventIsQueued` the invariant says which
  endpoints the emitting app still has to serve (`Emits`), and that without edits the
  endpoint a job was taken for is as it was read.
* `StreaksAreReal`: with `"rotate" \notin EditOps`, `Spec => []DisabledForFailures`.
  While the worker holds its copy of an endpoint, the row is that copy, one enabled
  anew or one disabled by hand, and the failures since the last success are at least
  the streak of the copy and those of the tick together (`StreakWk`). A rotation
  breaks it: it saves an active document with a streak that a success has ended.

Only model-checked: every liveness property (`ClaimIsFinished`, `JobResolves`,
`RunSettles`, `DueIsSettled`, `LegsSettle`), which the prover does not reach. Every
invariant, action property and refinement that a passing run checks is stated by a
theorem, some of them for the deployments named above (`"confirm" \notin Ops`, one
checkout process, `"rotate" \notin EditOps`).
`MoneyInv`, on which the theorems of `SettlementProofs` rest, was an invariant of
`settle_all` before it was proved and is not checked there any more.

## Disagreements with the code

Shown by a run (see `findings` in `PROJECT.json` for the quoted lines):

1. **A transfer can settle two payments** (`settle_replay`). A payment is recorded with
   hash A. `POST /payments/:id/confirm` with hash B reads it while it is pending
   (`payments.ts:142`) and verifies B. Before it saves, the worker (or the checkout)
   confirms the payment under A. The API then saves its pending copy as confirmed under
   B (`:163-169`): the row that A settled no longer holds A, A is free in the unique
   index, and another checkout confirms a second payment with it. Without the actor in
   between A has settled nothing and settles one payment.
2. **A paid buyer may never be granted.** `confirmOnce` saves the completed session
   before it fulfils, and a later call returns early (`settle_lost`). The worker has
   the same gap after it saved the payment as confirmed.
3. **A delivery run can be stuck**: its rolled-back actions are never executed again
   (`delivery_stuck`).
4. **A paid subscription can have no entitlement**, when the worker collects its
   first period (`unentitled`).

Seen while modelling, described here and not by a run of their own:

* An event can be stored without its deliveries: `enqueue` inserts the event and
  then the jobs, and an application that dies in between loses them for good, since
  the retry of the emit is a duplicate (`webhook-outbox.ts:75`; its header, lines 9-10,
  says one job per endpoint is queued). `EventIsQueued` allows it after a fault only.
* A payment can be granted twice: the worker scans for a grant, the checkout writes
  its own under the derived identifier, and the worker writes one under a random
  identifier. The API's confirm looks for no earlier grant at all.
* A refund can be undone: the worker saves as confirmed the pending copy of its tick
  over a payment that was confirmed and refunded meanwhile. `StatusFollowsFlow`
  allows exactly such saves.
* A collect-fields, cancel or expire that read the session before it was
  completed saves it back as it was, so a completed session reads open, canceled or
  expired again. The model has the step (`EditSave`); `CompletedIsPaid` is stated in
  the direction it cannot break.
* Two checkout processes that confirm one session both read it as not redeemed
  and count the promo twice. `RedeemedOnce` is therefore checked with one process
  and without the API's confirm.
* `POST /payments/observe` records a payment for the session `direct:<hash>`, which
  is no row of `checkout_sessions`: the foreign key refuses it after the transfer
  was verified. `route-watch` names a guest's customer row that does not exist
  until the buyer confirms. `KeysExist` models both.
* The webhook job saves the endpoint it read before its posts: a disable or a new
  secret saved in between is undone. Conversely rotate-secret saves back the old
  failure streak, so `DisabledForFailures` is checked without it.
* A rollback that took effect and then threw leaves its action *succeeded*
  (`runner.ts:221-233`), and so does a worker that dies between a rollback and the
  save: an action on record that no longer stands, which a retry never executes again.
  A later retry may then complete the run as succeeded. `RecordIsTrue` and
  `SucceededIsDelivered` excuse those actions (`TakenBack`) and no others.
* `POST /delivery-runs/:id/retry` marks actions in the table `delivery_runs`, while
  the worker reads `worker_delivery_queue`.
* A buyer who revokes the allowance before the last covered period gets that period
  for nothing: the 0 that is left is what a pull would have left, so it is taken
  for a pull that landed (`permit2-allowance.ts:213-217`); its header says a revoked
  allowance declines. `PaidIsPulled` grants one such period. Two subscriptions of one
  owner and token share the allowance, and the comparison then speaks of both.
* "A cancel that raced this charge wins" holds for a cancel saved before the patch
  reads the row. One saved between the read and the save is lost, and so is one
  that the grant, or a second cancel, overwrites. `CanceledStays` allows these and
  nothing else.
* An error in `markPaid`, after the pull succeeded, declines the charge that was just
  saved as succeeded. The next attempt finds the pull by the allowance, unless
  the allowance has changed.
* A crash between `paidThrough` and `onCollected` leaves access as it was, and later
  runs answer *not due*.
* The hooks of a declining run may come after those of a retry that collected: the
  core subscription reads past due, or the entitlement expired, while the period is
  paid.
* A pull whose recorded transaction reverted while its outcome was unknown is sent
  again without a dunning attempt.
* `access-sync` saves entitlements as expired and then revokes what they granted; a
  crash between leaves the grants, since a later tick does not find them due.

* Operator: `executeApproved` marks the fresh row approved even when the vault refused
  or lost its approval (`service.ts:252-259`). An owner who approves that fresh row
  while the first approval is still under way, and then tries again, pays the bill
  twice without any failure, though one resolution is promised per escalation
  (`service.ts:116-120,252-259`); `BillPaidOnce` counts these requests (`overlaps`).
  Nothing keeps the proposals of one event apart: two payouts of an open bill are both
  accepted (`tool-actions.ts:96-111`) and both made (`service.ts:245-250`), and so are
  those of two events about it, a `bill.due` posted to the API under an identifier of its
  own among them. And whatever executes on the event of a bill marks it paid: an
  allocation or a sweep too (`execution.ts:84-91`, `service.ts:305-312`), while a bill
  that was paid stays open if another proposal of its event failed. `BillPaidOnce`
  therefore bounds payments by the payouts decided on, and `PaidIsPaid` excepts the bills
  in `aside`. A vault that refuses the approval of the escalation that approval made
  itself, being paused, counts as a fault (`VaultCallFails`); any other refusal does not.
  A unique violation of the decision log is a raw Postgres error, which `record` does
  not retry. A kill or a failed call after `expireStale` saved its rows leaves the vault's
  reservation pending for good, and the bill reads rejected even if the vault paid it
  at the edge of its time. A deferred bill is never tried again, though the heuristic's
  text says so. From Postgres a log without a limit is cut at 1000 decisions, so the
  x402 daily limit may look at old ones.
* Payouts: a request the client refuses, a transfer that reverted and a state of the SDK
  the client does not know all yield a receipt *failed*
  (`packages/app-kit/src/client.ts:98-118`, `settlement.ts:99-116`), and a transfer not
  yet mined one *submitted* (`:118-125`). Both are final, the legs are marked settled all
  the same (`sweep.ts:72-75`), and nobody pays them again; hence `SettledIsAnswered` and
  not "settled is paid". Overlapping sweeps (the sidecars' `POST /admin/sweep` beside the
  worker) with different legs pay a leg twice without a fault; `LegPaidOnce` is
  about sweeps that do not overlap. With receipts in Postgres the claim of a sweeper
  that died stays pending for good; `LegsSettle` is about memory.
* Escrow tasks: terminal states (`escrow-status.ts:20`) are undone by a request that
  loaded the task before, and an audit record may be missing after a request that was cut
  off. The comment of `apps/api/src/routes/escrow.ts` speaks of disputes, which no route
  opens; the model has all transitions of the service.
* `SettleKitEscrow.sol` says of a disputed escrow that only the arbiter resolves it,
  but the buyer may still release it and the seller refund it.

## Not modelled

* Subscriptions billed by invoice, spend permission or Solana delegate, plan changes,
  and the escrow operations of `packages/onchain-billing`.
* Amounts, fees, exchange rates and rounding; confirmation depth is
  the difference between *seen* and *final*.
* Authentication, parsing, rendering, logging, metrics, and every user interface.
* Reorganizations: a transfer that was final stays final, as the code assumes once
  the depth is reached.
* Failures of a single statement that the handler does not survive are the same as
  a crash of that handler, which the model has for whole processes.
* What the operator's engine thinks, its forecast and policies, the yield and refunds it
  proposes (each like an allocation to the books), escalations that have no payout for
  their subject, amounts below a bill's, and its x402 spending;
  `RecursiveSplitDistributor.sol` and `SettleKitCctpHook.sol`; the in-process meter of
  `packages/streaming` and the job that reconciles settlements, which turns *submitted*
  into *settled* and changes no leg.
* Tokens that take a fee or call back; the contracts guard against the latter and are
  written for USDC.
* The packages of the plan's later steps, and those `PROJECT.json` lists as
  `not_modelled` with their reason. Sample applications are independent programs.
