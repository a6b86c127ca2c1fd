# LOAN: TLA+ models, model checks and proofs

The repository is a lending platform: an Express/TypeScript backend (`src/backend`) over PostgreSQL through
Prisma, and a Next.js frontend. This directory models the part where money moves and where it is released:
revolving credit lines, repayments with their allocation, refunds and reversals, the servicing of a loan
account, the disbursement with its maker-checker controls and the application status it depends on, collections,
and the background job queue. Paths below are relative to `src/backend/src/modules/` unless they start with
`src/`.

## 1. The system

One Node.js process (or several, behind a balancer) serves requests; each request is an `async`
function. Between two `await`s it runs alone; at each `await` any other request or job may run.
Rows (Loan, RepaymentScheduleItem, Payment, PaymentAllocation, LoanClosure, Settlement ...) are in
the database; several services keep their state in `Map`s and arrays of the process instead (credit
facilities, the journal, refund records, the webhook registry, write-off and collection-settlement
requests, the job queue). No handler takes a lock; most read rows, compute, and write the result back.

| Component | State | Operations | Interacts with |
|---|---|---|---|
| Credit facilities (`credit-limits/credit-limits.service.ts`) | Maps of facilities, drawdowns, ledger lines | create from an offer, drawdown, repayment restoration and its reversal, limit adjustment, suspend, freeze, resume, close | reads term loans from the database; called by payments, direct lending, partners |
| Waterfall (`payments/payment-allocation.service.ts`) | Loan, schedule and allocation rows | allocatePayment | called by confirmation and webhook; restores the credit line |
| Payments (`payments/payment.service.ts`) | Payment rows; refund and reversal records in memory | initiate, confirm, refund, reverse, payout | gateway, waterfall, ledger, credit line |
| Webhooks (`payments/payment-webhook.service.ts`) | processed-event registry in memory | ingest (captured, failed, refund, payout, dispute) | waterfall, ledger, Payment rows |
| General ledger (`finance/gl.service.ts`) | journal in memory | createJournalEntry and one function per kind of entry | called by the services above |
| Loan servicing (`loans/loan-servicing.service.ts`) | Loan, schedule, LoanClosure | DPD evaluation, gated closure, adjustments | the same rows as payments |
| Restructuring (`restructuring/restructuring.service.ts`) | Loan, schedule, Settlement, LoanClosure | restructure, settle, close with NOC | the same rows |
| Jobs (`finance/accrual.service.ts`, `jobs/delinquency.service.ts`) | Loan, schedule | EOD accrual, midnight delinquency | the same rows |
| Background worker (`jobs/worker.service.ts`) | jobs, idempotency index, slots and timers in memory | enqueue, process next, retry with backoff, dead letters | the nightly jobs, reports, exports |
| Maker-checker tasks (`finance/financial-control.service.ts`) | tasks and replies in memory | propose, approve, reject, execute under a key | the release of money |
| Disbursement (`finance/finance.service.ts`, `disbursements/`, `core-lending/loan-conversion.service.ts`, `direct-lending/`, `borrower/`) | LoanApplication, Loan, journal | gated release, conversion, direct lending, mandate, sandbox payout | tasks, payout gateway, application status |
| Writers of the application's status (`application/`, `workflows/`, `underwriting/`, `offers/`, `contracts/`, `approval-authority/`, `orchestration/`, `operations/`) | LoanApplication.status and .stage; offers and approval tasks in memory | transition, decide, offer, sign, approve, orchestrate, clear | the gate of the disbursement |
| Collections (`collections/`) | CollectionCase, PromiseToPay and Loan rows; settlement and write-off requests in memory | synchronise, assign, escalate, resolve, close, promise, sweep, settle, write off | midnight job, payments, journal |
| Submissions, disputes, integrations, core-lending approvals | rows and Maps of their own | see the plan | |
| Scoring, documents, KYC, communications, analytics, configuration, frontend | | not modelled | |

`PROJECT.json` lists every component with its files and status, and under `hazards` what is hard to
test in each, with the line.

**What is hard.** (a) Check, await, act: a status or an amount is checked before an `await` and
relied on after it (drawdown, confirmation, refunds, settlement). (b) Read, compute, write back:
balances are written from a snapshot, so overlapping handlers undo each other (allocation, reversal,
adjustments, accrual). (c) Several writes without a transaction, errors swallowed or raised halfway
(allocation, reversal journal, webhook). (d) Controls and jobs that look at no status (resume,
midnight job, NOC, write-off, payout). (e) Redelivered webhooks, repeated confirmations, payouts whose
answer is lost. (f) Locks that are statuses somebody else may rewrite (a task's EXECUTING, an
application's DISBURSED). (g) Restarts, which forget the Maps and keep the rows.

**What makes each component correct.**
- *Facility*: the three balances and the excess tell one story; the ledger's last line shows them;
  lines chain; utilization is drawn - restored + reversed; a drawdown respects the exposure cap; a
  blocked facility is not drawn on.
- *Payments*: an allocation adds up to the payment; a payment is allocated and journaled once;
  refunds stay within it; its status is backed by the journal; a reversal is compensated; a closed
  loan owes nothing and stays closed.
- *Servicing*: one debt is settled once; a closed loan stays closed; an instalment that was paid
  stays in the schedule; no change of a balance is lost.
- *Worker*: slots match the jobs being processed; nothing waits beside an idle worker; a key is completed
  once; the order is kept; every accepted job ends.
- *Disbursement*: what runs was signed by another than its maker, and runs once; the borrower is paid once;
  no disbursement entry without money; DISBURSED stays.
- *Collections*: a waiver is journaled once and on two signatures; closed loans and cases stay closed; what
  became of a promise stays.

Where the code does not keep one of these, the model keeps the strongest form that does hold (naming
the interleaving that breaks the rest), and a `violation` run shows the break where the repository
itself states the stronger form.

## 2. Modules

| Module | What it is |
|---|---|
| `CreditFacility` | the facilities, their ledger and the drawdowns in flight |
| `CreditFacilityProofs` | types, coherent balances, ledger accounting and chaining, who may draw on a blocked facility, the exposure cap |
| `Iteration` | induction and recursion over `0..N`, for proofs about loops |
| `PaymentWaterfall` | pure functions: a repayment over the instalments, the loan's new balances, a reversal's rollback of the schedule |
| `PaymentWaterfallProofs` | what the allocation and the rollback compute, for every schedule and amount |
| `Payments` (extends `PaymentWaterfall`) | the payments of one loan: handlers, rows, journal, refunds, webhook registry |
| `PaymentsProofs` | types, refunds, statuses backed by the journal, allocations that add up, closed loans, duplicates, and the waterfall's promises on whatever rows requests leave |
| `LoanServicing` | one loan and its schedule under DPD evaluation, closure, adjustments, restructuring, settlement, NOC, accrual, midnight job, repayments |
| `LoanServicingProofs` | types, one settlement per debt, PAID rows stay, CLOSED against outdated readings, no update lost by serial handling |
| `JobLifecycle` | abstract: what a job pool promises (edges of a job's life, the limit, every job ends) |
| `WorkerQueue` | the in-memory queue; `KeepsPromise` is `JobLifecycle` under a refinement mapping |
| `WorkerQueueProofs` | slots, idle workers, keys, order, and the refinement's steps |
| `Operations` | the requests a Node process has in flight, shared by the next four |
| `FinancialControl` (extends `Operations`) | maker-checker tasks of one application |
| `ApplicationStatus` (extends `Operations`) | the writers of the application's status and stage |
| `Disbursement` (extends both) | the ways money leaves and a loan is made, composed with the two above |
| `DisbursementProofs` | types, signatures, single execution, the maker's wait, one payout, books behind the money, the two action properties |
| `Collections` (extends `Operations`) | cases, promises, settlement and write-off requests of one loan |
| `CollectionsProofs` | types, waivers journaled once and on two signatures, who may change what is closed or decided |
| `MC*` | instances for TLC |

**CreditFacility.** A facility is a slot with the offer it came from, status, `lapsed` (`expiresAt` is
past) and `approved`, `utilized`, `available`, `excess`. `ledger[i]` keeps the last transaction line
(balances before and after) and totals of what was drawn, restored and charged back. A drawdown has
three steps, cut where the code awaits: `RequestDrawdown` (checks up to line 621), `ReadTermLoans`
(the database's answer), `CommitDrawdown` or `RefuseDrawdown` (exposure check and all writes). Every
other operation is synchronous in the code and one action here. The sum over the customer's lines
(`Total`) is a recursive function of the slots. Term loans change freely
(`TermLoanMoves`): they belong to the rest of the system. One assumption: each database answer starts
a turn of the event loop of its own, so that the code after an `await` runs to its next awaited call
without another answer in between.

**PaymentWaterfall.** `Share` is what one instalment takes (only fees allow for what was paid
before, lines 72-148), `Settled` the row's new amounts, `Allocate` the whole of
`allocatePayment` on a given reading, `Reduced` the loan's new balances. `RolledBack` is the loop of
`reversePayment`. The loops are recursive functions of the position in the schedule, which the proofs
work through by induction. Amounts are whole units: the code's `Decimal`s add and subtract exactly.

**Payments.** `handler[h]` is a request in flight (`pc` is the await it is at), `plan[h]` what it
computed from the rows it read. `ReadLoan` takes the snapshot; `WriteInstalment`, `WriteLoan`,
`StoreRows` write it, one awaited call each; then `PostJournal` and `MarkSuccess`. Webhooks of
payments nobody initiated (`Direct`) store the payment as SUCCESS first. A database error inside
`allocatePayment` is swallowed (`Lost`); one elsewhere ends the request (`Abort`). Refund records and the
journal are reached without an await, so check and record of a refund are one step. The transaction of a
reversal is two steps: it reads the paid rows (`ReadPaidRows`), and its updates, which row locks make appear
together, write what was computed from them over the rows as they are at its commit
(`ReverseTransaction`). `disturbed` marks
the payments that were handled twice at once, after a failure, or after a refund or reversal.

**LoanServicing.** Every operation is a `Start...` action that takes the reading and its guards, and one or more
write actions, which use the reading wherever the code does. A transaction here is one action; guards
inside it (the conditional update of `executeSettlement`, the unique `loanId` of LoanClosure, the unique
`(loanId, emiNumber)`) look at the rows as they are then. An instalment is reduced to its schedule (`id`),
status, whether it owes anything and whether it is past due; a repayment covers a prefix of the open
rows and takes any of `Amounts` off the balances, since a restructured schedule may split them anyhow. `paidOff`,
`reopened`, `owing`, `overlap` are history: they are read by properties only.

**WorkerQueue.** `job[j]` is a Job, numbered by creation (which is the order of `createdAt` and of the Map);
`activeWorkers`, `idempotencyMap` and `timers` are the fields of `WorkerService`. JavaScript runs alone
between two awaits, so a step is an enqueue with the `processNext` it calls, the settling of one handler
with its `catch` and `finally` (which calls `processNext` again), or a timer. `ProcessNext` on a queue is one
definition used by all of them: the first job in order is awaited, and the jobs without a handler before it
throw and are retried within the same step until they are dead. `Restart` empties the Maps.

**Operations.** Requests are numbered slots; a slot holds the record a handler keeps across its awaits, or
`NoOp`. `MaxOps` bounds the requests of a behaviour, so a number also dates its request, which the
properties about outdated readings use. `LoseAll` is the crash of the process.

**FinancialControl.** `tasks` is the Map of one application in insertion order, `replies` the idempotency
store. Decisions and the start of an execution are synchronous and one action; the domain logic is awaited
(`TaskExecuted`, `TaskFailed`). No route of the repository calls `executeFinancialTask`; it is modelled as
callable. The clock is left out: a check of `expiresAt` may find any task expired.

**ApplicationStatus.** Each writer is a reading with its decision, and then an update that names no expected
status (`LandWrite`); what it decided on is kept in `by` and `seen`. `Transitions`, `Lifecycle`,
`StatusOfStage` and `StageOfStatus` are the code's tables. Stages no table knows are one value.

**Disbursement.** `disburse` has four phases: read, gated, sent, paid, one for each await that matters. The
look at the tasks and the call of the gateway are one turn (`SendPayout`); the gateway answers, declines, or
its answer is lost with the money out (`PayoutUnanswered`: it is called once, its retries are zero). The loan
with its status is one transaction (`BookLoan`), followed in one turn by the journal, whose refusal is
swallowed, and the mark on the task. Conversion, direct lending and the mandate path create the same unique loan.
`initiatePayout` of the payments module is the `payout` kind. `past` is history.

**Collections.** A case is its status and whether it is 90 days past due. Writers by reading, writers that
look at nothing (`blind`) and the transactions are told apart; `sync`, `job`, `cure`, `sweep`, `evaluate` keep
what they read and write it by id, one awaited call each. A request is journaled and marked in one turn
(`Journal`), as `createJournalEntry` reaches no database; the loan and the case follow. Proposals are
taken at their reading: only the case's days past due are looked at, and a request recorded after the await is one whose decision comes later still.
`LoanPaidOff` stands for the payments of `LoanServicing`. `since` and `contested` are history.

## 3. Runs

| Run | Bounds | Shows |
|---|---|---|
| `facility` (pass) | 1 facility, 2 drawdowns in flight, amounts 1..2, `MaxDrawn`, `MaxReversed` | types, coherence, ledger chaining, conservation, and that only a drawdown validated before can raise the utilization of a blocked facility |
| `facility_cap` (pass) | 2 facilities of one customer, 2 drawdowns | the exposure cap holds across facilities: the credit lines are summed after the await |
| `facility_overdraw` (violation) | as `facility` | `src/docs/architecture/credit-limit-engine.md:20,26` (available is never negative) does not hold: check before the await, no floor after it |
| `payments` (pass) | 2 payments (one part, one more than the loan owes), 2 handlers, 3 requests, 1 lost call, 2 instalments | what holds of allocations, refunds, journal, duplicates and closing under any overlap; on every set of rows that arises, the next allocation serves the oldest instalment and the buckets in order, and a reversal takes all of its amount back from the latest |
| `duplicate_payment` (violation) | same | `payment.service.ts:404`: a payment is journaled twice |
| `excess_reversal` (violation) | same | `gl.service.ts:428`: the reversal of an overpayment has no journal entry |
| `partial_payments` (violation) | steeper instalments, partial amounts | `payment-allocation-waterfall.md:33`: a loan closes with an instalment unpaid |
| `loan_servicing` (pass) | 2 handlers, 3 operations, 2 instalments (numbers up to 3), tenures 1..2, amounts 0..1, interest up to 2 | one settlement, PAID rows kept, closed unless outdated, serial handling loses nothing |
| `paid_history` (violation) | same | `restructuring.service.ts:72`: a paid instalment is deleted after an outdated DPD write |
| `worker` (pass) | 3 jobs, 2 priorities, 1 key, limit 2, 1 retry, 1 call back, 1 restart | slots, no idle worker, keys, order, and the refinement of `JobLifecycle` with its liveness |
| `disbursement` (pass) | 3 requests of any kind, 2 tasks, 2 users, 1 key; 2 targets of `transition`, 3 stages, 4 outcomes | signatures, single execution, the maker's wait, one payout undisturbed, entries never ahead of money, DISBURSED kept by guarded writers |
| `collections` (pass) | 3 requests, 2 cases, 2 promises, 1 settlement or write-off, 2 users, arrears of 1, 61 or 90 days | waivers journaled once on two signatures; closed loans and cases and decided promises against outdated readings |

*Why the bounds suffice.* Each hazard needs two actors: one that has read and one that writes in
between; a third operation then builds on the result (restructuring after the outdated write, a second
settlement after a reopening). Two handlers and three operations give every such pattern. Two
instalments give a first, a last and a partial one; a third number lets restructured schedules collide
with a PAID row or grow past it. Amounts cover less than, exactly, and more than what is owed. Three jobs
on two workers leave one waiting, of either priority, beside a retry and a timer; one key is enough as keys do
not interact. In `disbursement` and `collections` three requests are two that overlap and one
before, between or after them, which may be a restart; decisions of tasks and requests by a checker come on
top. Two tasks make the first of an application differ from the one approved. Two cases let one be reopened
beside a new one; days 1, 61 and 90 are one value of each branch (OPEN, ESCALATED, NPA). `MaxStarts`,
`MaxFaults`, `MaxDrawn`, `MaxReversed`, `MaxEmi`, `MaxInterest`, `MaxJobs`, `MaxRequeues`, `MaxRestarts`,
`MaxOps`, `MaxTasks`, `MaxCases`, `MaxPromises`, `MaxRequests` appear in guards only and stop the
counters; deadlock is not checked where the system may rest (and the bounds end every behaviour).

*Fairness.* Only `WorkerQueue` assumes any: weak fairness of the settling of each job's handler. The
registered handlers are local async functions whose awaited calls are to the database and are caught, so each promise is
fulfilled or rejected; a restart may come instead. Neither clients nor backoff timers are assumed to
act: every job ends without them. Everything else is safety only: a request may always stop halfway, as a process
may.

## 4. Proofs

All theorems hold for every value of the constants allowed by the `ASSUME`s.

- CreditFacilityProofs: `TypeCorrect`, `BalancesAlwaysCoherent`, `LedgerAccounts`. Coherence is inductive
  once types are known; the only step that does not recompute all balances is `CommitDrawdown`, which
  sets `available` to the headroom and raises the utilization, so it can only make a recorded excess too small:
  that is why coherence bounds the excess from above, not by equality. `LedgerAccounts` proves agreement and
  conservation together; the floors of `Rebalanced` matter, as what is restored is counted by the difference.
- `LinesFollowOn`, `OnlyInFlightEscapes`, `CapHolds` (CreditFacilityProofs), the three action properties. Every
  action changes one slot, and `MoveChains` says what such a change owes each property; the ledger agrees with
  the balances before it, so a line that starts from the balances starts where the last one ended. The cap
  needs `TotalRaised`: the sum over the slots grows by what the one slot grows, an induction along the slots.
  The drawdown checks that same sum in the turn in which it writes, so nothing waits between them.
- PaymentWaterfallProofs: `AllocateAddsUp`, `OldestIsServedFirst`, `BucketsServedByPriority`,
  `LatestAreTakenBack`. Each is a loop invariant over the positions of the schedule: after n instalments,
  shares and rest add up to the amount, an instalment is short of its claim only if nothing is left, and what is
  taken back is all of the amount or all that was paid on the rows passed. They hold for every
  schedule, also for the ones that overlapping requests leave behind.
- PaymentsProofs: `RefundsAreSafe`, `StatusFollowsJournal`. The invariant ties each request in flight
  to the records of its payment: a full refund on its way to REFUNDED is on record in full
  already, a confirmation about to mark SUCCESS is in the journal, an admitted refund belongs to a journaled
  payment. It is needed because statuses are written after the check they rely on.
- `TypeCorrect`, `AllocationsBalance`, `ClosedLoansAreClear`, `ReopeningsExplained` (PaymentsProofs) rest on one
  invariant (`PInv`): whatever a request computed and has yet to write is sound, as the lemmas of the waterfall
  say, whatever the rows have become since; a loan it is about to write as CLOSED is clear. The next allocation's order
  and the next rollback (`NextServesInOrder`, `ReversalsTakeBack`) then need only the types.
- `OffRecordIfDisturbed` (PaymentsProofs). `Orderly`: an undisturbed payment has
  one request in flight at most; while that request is still to write a record, the record is not there;
  and a payment that is neither in flight nor done has none. A step keeps it if it is by the payment's
  only request, or marks the payment disturbed (`OrderKeeps`). On top of it `RefundShown`: an undisturbed payment
  refunded in full is REFUNDED, or its one request is the refund about to mark it (`NotYetInFull`: any other
  request in flight is about a payment with something left), so no later status can take REFUNDED away.
- LoanServicingProofs: `TypeCorrect`, `OneSettlement`, `PaidRowsStay`, `ClosedIsFinal`, `SerialIsExact`.
  `OneSettlement`: settlements <= reopened + (1 if SETTLED or CLOSED); each write of the loan that is no
  settlement keeps it, and the claim needs that nothing is done yet. `PaidRowsStay`: rows are well typed, and every
  write to the schedule keeps the id of a row that is PAID: single-row writes change status only, closures skip
  PAID rows, a restructuring is refused when one of its numbers is taken. `ClosedIsFinal` needs that a handler
  under way has read a status its guard admits (`ReadAsGuarded`): guards hold of what was read, not of what is
  overwritten. `SerialIsExact`: without an overlap there is one handler, its reading of the balances is still true, and
  nothing was lost so far (`SerialInv`); each half needs the other.
- WorkerQueueProofs: `TypeCorrect`, `SlotsAreCounted`, `NoWorkerIdles`, `KeysAreCompletedOnce`, `InOrder`,
  `StepsKeepPromise`. Everything rests on what one pass of `processNext` does (`Pass`): a nonempty finite queue has
  a first job (a least number among those of the highest priority), so a pass with a free slot awaits exactly one
  job, or empties the queue of jobs it can only throw. `PutInQueue` and `SlotGivenBack` say that before each pass
  the counter is the number of jobs processed and at most one slot is free beside a nonempty queue; that is
  the invariant. `HandedOver` shows every action but `Restart` as one such move and a pass; order and
  refinement follow from it, job by job. That every job ends (the liveness half of `KeepsPromise`) stays with TLC.
- DisbursementProofs: `TypeCorrect`, `SignedByAnother`, `RunsOnce`, `NoPayoutOfMaker`, `KeptDisbursed`,
  `RevivedByFailure`. The invariant: slots not handed out are empty; an execution in flight belongs to a task that
  is signed, neither pending nor APPROVED, and not yet done; there is one for a task. It is needed because any
  checker may rewrite the status that locks the task: what saves it is that no path leads from there to
  PENDING_CHECKER or APPROVED but the failure of that very execution. The maker's wait is inductive itself: money is sent
  and the task looked at in one turn, and a task never becomes pending again.
- `PaidOnce`, `BooksFollowMoney` (DisbursementProofs). While nothing is disturbed one request at most is making the loan,
  and once money is out that request is still between its payout and its last write, or the application is
  DISBURSED with its loan (`AfterPayment`); the lending of an offer cannot start beside it. `BooksFollowMoney` counts: journal
  entries and the requests whose money is out but not yet posted (`Posting`) are together no more than the
  payouts, direct lending's included; a post moves one from the second to the first, a crash only takes away.
- CollectionsProofs: `TypeCorrect`, `UncontestedJournaledOnce`, `WaiversSignedByAnother`, `LoansStayClosed`,
  `GuardedCasesStayClosed`, `PromiseOutcomesStay`. Two halves that meet only in the steps. Of the requests: whatever
  is being carried out is signed by another than its maker, two executions of one request make it contested, and an
  uncontested one is still as its handler read it; the last is what makes the single journal entry inductive. Of the rows:
  whoever is to write a closed loan, a closed case or a decided promise by a reading has a number at most the one
  remembered in `since` (`LoanDated`, `CasesDated`, `PromisesDated`). A step keeps that half when each request in flight
  goes on with what it read or has read what is still so (`ReadsOn`), one lemma for all actions; the three action
  properties then need only the steps that write the row (`LoanWriters`, `CaseRowWriters`, `PromiseWriters`).

*Only model-checked.* That every accepted job ends (the liveness half of `KeepsPromise`, with its fairness and
ENABLED), and the five runs whose property the code breaks. Every other property of a passing run is a
theorem. Induction is done without the library's induction theorems, whose operator parameters the
provers cannot instantiate: `UpTo` (Iteration) derives it for a set of numbers from the least element of its
complement, and a loop's invariant is such a set.

## 5. What the code does that the documents do not say

Besides the five `findings`: `evaluateLoanDpd` sets a SETTLED loan ACTIVE (`loan-servicing.service.ts:364`
excludes only CLOSED and WRITTEN_OFF); a write-off adjustment of a CLOSED loan makes it WRITTEN_OFF; the
midnight job reopens a loan closed by NOC, whose rows stay DUE; `closeLoanAndIssueNoc` with type SETTLEMENT
clears a balance without settlement or entry; `initiatePayout` sets a loan ACTIVE whatever it was
(`payment.service.ts:864`); `confirmPayment` restores the credit line a second time (`payment.service.ts:497`);
a reversal takes the whole amount off the schedule (`payment.service.ts:702`), with what was excess or was never
allocated (only REVERSED is refused, 667), so that rows other payments paid become OVERDUE, against "schedule
items and loan balances restored" in `src/docs/architecture/payment-lifecycle.md:31`; a failed webhook is never
retried (`payment-webhook.service.ts:173`); a closed facility can be resumed; the accrual job may write interest
to a loan closed after its reading, against "Balance === 0" for CLOSED loans in
`src/docs/productization/workspace-navigation-architecture.md:182`; no code charges the fees and penalties the
waterfall collects first.

*Worker.* A retry does not wait for its backoff: the job is requeued (`worker.service.ts:192`) and the `finally` (202-205)
takes it up at once, while the log says "Retrying in ...ms" (186) and
`src/docs/PRODUCTION_READINESS_CHECKLIST.md:50` promises exponential backoff. A restart forgets accepted jobs, which
`src/docs/production/disaster-recovery.md:22` ("degrade safely ... in-memory worker queues") does not mention.

*Disbursement.* The guard against a second payout (`finance.service.ts:770`,
`src/docs/PRODUCTION_READINESS_CHECKLIST.md:38`) is the status DISBURSED read at the start. Two overlapping releases, a
payout whose answer was lost or PENDING, or a writer that took the status back, each let a second payout go;
`PaidOnceUndisturbed` says these are the only ways. A rejected or expired task stops no release and is then
marked EXECUTED, and a failed execution puts one back to APPROVED (652), against
`src/docs/productization/financial-control-architecture.md:121` (expired tasks "cannot be executed"). Other users than
the maker and the supervisors pass a pending task. `setupBorrowerMandateAndDisburse` looks at no status; direct lending
ignores the payout's status. Stage CLOSED sets the status UNDER_REVIEW; a stage `STAGE_LIFECYCLE` does not list makes
`transitionStage` throw; the orchestration does not hold DISBURSED for terminal; the reply of an idempotency
key is given for any task.

*Collections.* A settled loan keeps its balances and schedule, so the midnight job, which looks at no loan status, makes it
OVERDUE and its case OPEN again. A written-off loan stays OVERDUE and WRITTEN_OFF is no active status: the next
synchronisation opens a new case, on which the same debt can be written off again. `finalizeSettlementOnPayment`
looks for no payment and no route calls it (`src/docs/architecture/recovery.md:17-21`), nor is the validity of a settlement
checked. A case is cured while an overdue instalment is PARTIALLY_PAID (only OVERDUE and DUE are counted, against
"if all overdue schedules are cleared", `collection.service.ts:852`). `closeCollectionCase` takes SETTLEMENT_REVIEW for settled. The
rejection of a write-off that crosses its approval is overwritten. A RESOLVED case reopened beside a new one
gives a loan two active cases.

## 6. Not modelled, and why

Refused requests without effect, tenants and roles, audit and notification records, rounding of
interest, dates beyond "past due", ids from `Date.now()`. Clocks: what depends on one (lapse of a facility, expiry of a
task, dates of promises) may happen at any time. Restarts are actions of `WorkerQueue`, `Disbursement` and
`Collections`; for facilities and payments what a restart forgets is stated as a hazard only. Several server
processes, each with its own Maps, would break every in-memory check; the models are of one process.

In modelled parts: drawdown fees and EMI quotes; failed, refund and payout webhooks (the payout webhook of
`finance.service.ts` changes a reference only); `syncTasksFromDatabase`; the decisions of direct lending before its payout;
the writers of the application's status that act before its sanction (credit, BRE, customer, queues); levels and amounts of
the approval authority; strategies, analytics, contact activities, follow-ups and assignment records of collections.

Not modelled at all: payment submissions and disputes (next in the plan), the accounting books, reconciliation and the
integration hub's retries (candidates after them), and the components of the last row of the table: configuration,
scoring, rendering, provider I/O, access control, read-only reports and the frontend have no protocol to check.

## 7. Plan

1. Done: `CreditFacility`, `PaymentWaterfall`, `Payments`, `LoanServicing`, `WorkerQueue` with its refinement and
   liveness, `FinancialControl`, `ApplicationStatus`, `Disbursement`, `Collections`, and the proofs of section 4.
2. Done: every property of a passing run but liveness is a theorem.
3. Submissions and disputes: verify and reject racing each other over `processPayment`; a restart action in `Payments`; an abstract account
   (paid = allocated + excess, refunded <= paid) that `Payments` implements when undisturbed.
4. Accounting books (period close against journal approval), reconciliation, idempotency keys of the integration hub.
