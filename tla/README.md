# Blynta: TLA+ models, model checking and proofs

Blynta turns long videos into short clips. Users pay with credits; the backend
(`src/backend`, NestJS on MongoDB, Redis/BullMQ and an S3 store) admits paid
work, runs it in worker processes, and settles its price. This directory
models the parts of that backend where money and durable work meet concurrency:
the credit accounting, paid AI calls, a clips job from its authorization to its
settlement, renders in AWS Batch, the artifact cache, and the previews and
proposals of the editor.

Contents

1. The system
2. Modules, and how they correspond to the code
3. Runs, bounds and fairness
4. Proofs
5. Disagreements between the code and its documents
6. What is not modelled, and the plan


## 1. The system

Paths are relative to `src/backend/src/`.

| Part | State it keeps | Operations | Interacts through |
|---|---|---|---|
| **Credit accounting** `billing/credits.service.ts` | `User` wallet (balance, reserved, debt, used), `CreditEntry` statement, `CreditOperation` authorizations | open, reserve, reopen, settle, adjust, refund, grant, adopt, reverse, restore | called by every paid feature and by the Paddle webhook; Mongo transactions; unique keys |
| **Paid AI execution** `executeAi`, `studio/studio.service.ts` | execution token, generation and result of an operation | propose, claim, generate, publish, settle, replay | concurrent HTTP requests and the recovery cron |
| **Clips job, pipeline** `jobs/jobs.processor.ts`, `createJob` | `Job` document up to its manifest | admission, download, transcription, highlights, manifest | queue, pipeline cache, reconciliation |
| **Clips job, render stage** `jobs/jobs.service.ts`, `jobs/render.processor.ts` | clips of the `Job`, execution tokens and leases, render queue, object store | dispatch, render, complete, fail, finalize, retry, cancel, delete, finalize credits | render workers, dispatcher, requests and crons on several hosts |
| **Completion publication and reconciliation** `jobs/jobs-completion.service.ts`, `jobs/jobs-reconciliation.service.ts` | `completionPublished`, notifications | publish, repair | crons over the `Job` documents |
| **AWS Batch rendering** `batch-render/` | `BatchExecution` record | submit, poll, cancel, deadline | render worker, cron, AWS |
| **Pipeline cache** `media/services/pipeline-cache.service.ts` | Redis leases, stored artifacts | acquire, renew, publish | several jobs with one source |
| **AI editor, renders** `ai-editor/edit-plans.service.ts`, `edit-admission.service.ts`, `edit-render.processor.ts` | edit versions, admission slots, leases | create, claim, render, retry, cancel, repair | queue, admission counters, credits |
| **AI editor, proposals** `ai-editor/agent/proposals.service.ts` | proposals and plans | generate, apply, reject | paid AI execution, two documents per application |
| **Checkout and webhooks** `billing/billing.service.ts`, `billing.controller.ts` | checkout leases, subscription state, processed events | checkout, webhook, change of plan | Paddle; grants and adjustments of the accounting |
| **Sessions** `auth/sso.service.ts` | sessions, root sessions, codes | login, exchange, refresh, revoke | Redis and Mongo |
| **YouTube publishing** `youtube/` | publications, OAuth tokens | publish, upload, retry | queue, Google |
| Notifications, mail, activities, sharing, AI registry, administration | keyed rows, configuration | insert, read | – |
| Web applications and packages `src/apps`, `src/packages` | views | – | HTTP |

### Hard behaviour, and what makes each part correct

* **Accounting.** Webhooks arrive twice, late and in any order; partial refunds
  and chargebacks can exceed what is left, which leaves a debt that every later
  inflow must recover; one operation may be settled and retried for ever.
  *Correct:* no credit appears or vanishes; the statement explains the wallet; a
  hold always equals what is left of its operation's budget; charges never
  shrink; no key, payment or refund counts twice.
* **Paid AI.** Two requests with one operation id, the cron that believes an
  execution dead, and a crash between claiming, answering, publishing and settling.
  *Correct:* only a durable result is charged, every durable result is, one
  execution at a time, no hold stays for ever.
* **Render stage.** Every guard is a separate Mongo update, the queue is another
  system, workers die or are blocked, and six callers settle by readings that may
  be old. *Correct:* a durable clip is never taken back; a job that ended says of its clips
  what they say; a cancellation is final, ends, and leaves nothing running; credits are
  released only when the work has ended; delivered output is charged.
* **Pipeline, editor, Batch, cache.** Leases that expire under a living owner,
  status writes fenced by generation, submissions whose answer is lost.
  *Correct:* one owner acts on a fenced record, slots and holds return, nothing is
  rendered or applied twice.
* **Checkout, sessions, publishing.** Check-then-act across two stores, late
  events. *Correct:* one open checkout, a revoked root admits nobody, one upload.

`PROJECT.json` lists the individual hazards at their lines, each with the
properties that watch it, or with the reason why none does.


## 2. Modules, and how they correspond to the code

### Purse and CreditLedger

`Purse` is the abstract promise to an account: a signed number of credits, the
credits held for running work, and the credits spent. Work is admitted only on
credits the account has; settling moves credits out of the hold; grants,
reversals and adjustments never touch a hold; nothing appears or disappears while
work is held or settled.

`CreditLedger` models `CreditsService`, one action per public operation. Each runs
in one `withTransaction` that writes the account, so one action is one transaction;
an error aborts it, so an error's condition is a negated guard; a repeated call with
a known key changes nothing and is a stutter.

| Variable | Code |
|---|---|
| `wallet[u].account` | the credit fields of `User` |
| `wallet[u].entries` | the user's `CreditEntry` rows, in order |
| `operation` | `CreditOperation` documents |
| `payment`, `adjustment` | what `payment:` and `paddle-adjustment:` rows record |
| `cycleGranted`, `reversed`, `refunded` | the sums that the code obtains by aggregation over rows |

`Opening` and `RecoverDebt` are called by the operations that call them in the code
(`opening`, `recoverDebt`), not steps of their own. The share of a payment that an
adjustment reverses is a floating-point product rounded up; the model takes any
share of the payment from one credit to all of it, which covers every rounding.
`totalCreditsUsed` counts from the account's opening on: a legacy account may bring a
number along from the old `deductCredit`, but the ledger only ever increments the
field, and no guard reads it.

`CreditLedgerAudit` adds the properties that sum rows, operations or payments
(`SumFunction` of the community modules), and `MCCreditLedger` the symmetry for model
checking. The proofs are in `CreditLedgerProofs` and `CreditLedgerAuditProofs`; those
of the other components in the module that is named after it, or after the `MC` module
that composes it (`ServicesProofs`, `PipelineProofs`, `PaymentsProofs`).

### PaidOperation and AiExecution

`PaidOperation` is the promise of one piece of paid work: authorized once, holding
what is left of its budget while it runs, its charge growing up to the budget.

`AiExecution` models `executeAi` with the `propose` around it and the AI part of
`CreditsRecoveryService.recover`. A request is a process whose `pc` is the next
database call; `fence` is the generation and token that the code keeps in
variables; `snapshot` is the operation that the cron listed. Two things are cut:
the account may refuse a reservation, seen as a request that ends (`End`, which is also its
crash and its failed updates); and the random token is the pair of caller and
generation, which tells executions apart as the random one does.

### ClipJob

One job from its manifest to its settlement. Each database, queue or store call is
an action, and everything a caller keeps between two calls is a variable:

| Variable | Code |
|---|---|
| `job` | the `Job` document: status, fences, clips, tokens in `activeExecutionTokens` |
| `op` | the job's `CreditOperation` |
| `queue`, `restarted` | BullMQ's entry of each clip, who locks it, and whether it stalled before (`maxStalledCount`) |
| `stored` | objects in the store |
| `worker` | a render worker: its place in `runMediaExecution`/`processRender`, its clip, the `retryCount` it read |
| `dispatch` | each call of `dispatchMediaJobs`/`dispatchRenders`: the plan it made from what it read, and the clip it is at |
| `review` | the outcome `finalizeRenderState` computed; any write of the document voids it, as the code compares `updatedAt` |
| `doubts` | the failures that failed handlers and reconciliations inferred, each with its `retryCount` |
| `settlement` | what a call of `finalizeCredits` computed and is about to settle |
| `fenced` | `finalizeCancellation` has removed the entries and is about to confirm |
| `deletion` | `deleteClip` or `deleteJob` under way: its step, and the status it read |

Abstractions:

* BullMQ is external, modelled by what the code relies on: an entry per clip id,
  an atomic hand-out, a lock, a stalled check, attempts.
* The settlement transaction is one step. Under snapshot isolation a retry that does
  not write the operation could commit beside it, since `settle` only reads the
  job; this is listed as a hazard, and the model is therefore optimistic there.
* A clip costs one credit, the source `SourcePrice`.
* As many dispatches run at once as there are `Dispatchers` (a request's beside the
  reconciliation's, on any host), and as many settlements as `Settlers`. One deletion
  at a time.
* What a dispatch looks up of an entry (`getState`) and does to it (`retry`, `add`) is
  one step, as the queue refuses a retry of an entry that is not failed. Its last writes
  (fences, token) are one step.
* Tokens of dead processes merge into one, `"lost"`. A worker's lease expires only when
  its owner is dead or has lost its lock. The lease of a dispatch is never renewed
  (`jobs.service.ts:556`), so it may expire under any of them (`Expired`).
* A deletion goes step by step (queue, entries, objects, document) and may fail after
  each, leaving what it has done.
* `finalizeCredits` reads the job and then the operation; the model reads both at once.
  What settles is the charge computed from the job, and the transaction reads the
  operation again.
* The job starts with its manifest written and the pipeline's own token returned.
* Retries are bounded by `MaxRetries`.
* Progress, time estimates, measurements, messages, publication and notifications
  are left out; that publication may throw after a clip is durable is kept.

* The composition with the admission is by contract: `ClipPipeline` ends where the
  manifest is written, which is `ClipJob`'s `Init`.

### ClipPipeline

The same job before its manifest. `createJob` is three steps (reserve, save,
dispatch), and the request may die between any two. What brings the job on then is
the durable intent `pipelineRetryRequested`, the recovery cron, and the
reconciliation.

| Variable | Code |
|---|---|
| `op` | the job's `CreditOperation`; `aged` once it is ten minutes old |
| `clips` | the `Job` document, or `None` before it is saved |
| `entry` | the entry `pipeline-<id>` of the queue |
| `worker` | a worker's place in `processClipVideoJob` and its error handler, with the status it read |
| `caller` | a request or a cron: its place in `createJob`, `dispatchMediaJobs`/`enqueuePipeline`, `reconcileMediaJobs` or `publish`, with what it read |
| `notified` | outcomes told to the user; their keys make a repetition nothing |

* `"pending"` stands for all statuses before the manifest. The stages between two
  status writes are one place, `work`, that may fail, take for ever, or be cut short.
* The three attempts and the one stall of an entry are one bound, `MaxRedeliveries`;
  an entry may also fail before it is reached.
* A dispatch reads the job once, and later acts by that reading (`DispatchRead`); so does
  `retryJob`, whose claim writes the place its first reading gave (`RetryRead`).
* A cron appears only in the runs of it that get through: a failing call of it ends the
  run, and the next starts anew.
* Rendering is one action, `RenderingEnds`, which stands for `ClipJob`.
* `op.aged` is forgotten once the job is saved, as only an operation without a job is
  settled by its age.
* Left out: cancellation and deletion before the manifest, workers that outlive their
  lock, the legacy queue, and `measuredSourceSeconds`.

### BatchRender

`BatchRenderService`: `execute` called for one identity by any number of deliveries of
the queue entry, the record they share, and `reconcile`. `SubmitJob` has no client
token, so what keeps it from happening twice is the claim from `PREPARING` to
`SUBMITTING` alone, and its answer may be lost (`Submit` may go to `doubt` after the
job exists). `overdue` is the deadline, `unwanted` that the owner was cancelled,
deleted or reset. A crash may happen anywhere. Progress files and the checks of the
result are seen only as a poll that returns or fails.

### PipelineCache

`getOrCreate` for one key. The lease in Redis is `lease`; a creator that is blocked
for longer than it lasts goes on (`LoseLease` while it is anywhere), so several
creators may be past their last look at it. `artifact` is the stored document with
an id, `usable` until it expires; the index on `expiresAt` removes it later.

### EditRender

A preview of the editor: `render`, `retry` and `cancel` of `EditPlansService`, the
admission row, the worker of `EditRenderProcessor` and its reconciliation.

| Variable | Code |
|---|---|
| `version` | `EditVersion`: status, generation, execution token and lease, output key |
| `slots` | `EditAdmission.active` |
| `queue` | the entry of every generation |
| `stored` | attempt outputs in the object store |
| `caller`, `worker`, `reconciler` | where each is, and what it has read |

* A lease is compared at one clock, in the step that carries the filter (`Fenced`). The
  code puts its own time into the filter, so a call that reaches the database later than
  the lease it was sent under, or from a host whose clock is behind, is not modelled.
* A worker in `Stallable` may lose its lease alone, as when the database is away, or
  together with the queue's lock; any other renews for as long as it lives.
* The age of the admission row, which reconciliation asks to be a minute, is not a
  number: the repair is only owed while nobody acquires (`Asking`).
* A random execution token is one that occurs nowhere else; `MaxTokens` bounds them.
* The plan's display status is left out; no guard reads it.
* An output that is uploaded after reconciliation pulled its key from the version is
  stored and referred to by nothing; nothing in the code removes it, and no property
  here says that it is.
* Pending versions may exceed `Limit` by a retry whose slot was freed between two
  readings of reconciliation. `AI_EDITOR.md` promises the limit on admission, which the
  acquisition keeps; the property is therefore about slots that return.

### EditProposal

The agent's proposals for one plan: generated, cancelled, rejected, and applied in three
writes to two documents (claim, `EditPlansService.update` with
`lastAppliedProposalId`, outcome), where a request may die between any two and may be
repeated. `edits` is history: how often each proposal's edit entered the plan.

`lastAppliedProposalId` names one proposal. Once a later one is applied, a proposal
whose outcome was never written can be rejected although it is in the plan;
`AI_AGENT.md` and `AI_STUDIO.md` call this the "existing single-receipt limitation", so
`ProposalOutcomeIsTrue` speaks of the last one. `Faulty` names requests whose
update may fail without a revision conflict, for example because the database is away;
the passing instance has none. With one, an approval whose update failed puts the
proposal back to `pending`, a rejection passes both of its checks, and a second approval
that had read `applying` before goes on to update the plan: rejected, and in the plan.
This is listed as a hazard (`proposals.service.ts:536`).

### Checkout

The state is the customer's document (lease, whether it has run out, the pending
checkout of each kind, the status of the subscription), Paddle's transactions, and the
events that are marked as processed. A request is a process with one step per call of
`checkout`: it takes the lease, looks its pending transaction up, cancels it for
another plan, asks once more for a subscription, creates a transaction, and saves it
as pending; only what was saved is handed out. A lease runs out under a living request,
any request dies, Paddle's answer to a creation is lost. Webhooks handle an event
first and mark it later, so a crash in between repeats it; events of several subscriptions
are handled in any order. Two checks that only refuse more are cut (the user's own `plan`, the price).

`OneOpenCheckout` says what the lease is for: never two transactions of a kind
to pay, and until a subscription was first cancelled, none to pay beside one paid.
It holds although the save compares the token of the lease and not its time, because a
successor replaces the token. After a cancellation the second half is not kept:
while the completion of a resubscription is not handled yet, its transaction is completed
and the status still `canceled`, which reads as another resubscription
(`billing.service.ts:461`); and a late event of an old subscription overwrites the
status of the new one. Packs are compared by their key, so the pending checkout of one
pack does not keep out another: the property speaks of a kind that is `Exclusive`, the
plans always, the packs if there is one.

### MCServices, MCPipeline, MCPayments

Components that share no state are checked in one instance: the variable `part`
says which of them a behaviour exercises. `MCServices` puts `BatchRender` and
`EditProposal` beside `AiExecution`, `MCPipeline` puts `PipelineCache` beside
`ClipPipeline`, and `MCPayments` puts `Checkout` beside `CreditLedger`. The component at rest is in its initial state,
where none of its fair actions is enabled.


## 3. Runs, bounds and fairness

| Run | Instance | Shows |
|---|---|---|
| `payments` | 1 account, 1 operation, 2 payments of one cycle, 2 adjustments; 2 requests, 2 plans, 1 pack, 2 transactions | `CreditsConserved`, `DebtExplained`, `OwesOnlyWhenEmpty`, `ReversalsWithinGrant`, `CycleWithinLargestAllocation`, `HoldsMoveWithOperations`, and that every step is one of the purse; `OneOpenCheckout` |
| `operations` | 2 operations with budgets of 1 or 2, 1 pack, 2 refunds, 1 retry each; a new and a legacy account | `StatementBalanced`, `HoldIsRemainder`, `OperationsBackWallet`, `RefundsWithinCharges`, `PaymentsCountOnce`, `ChargesAreFinal` |
| `services` | 2 requests, 3 retries, any number of crashes; 2 deliveries of a Batch render; 2 editor proposals, 2 requests, 3 revisions | safety of charging, refinement of `PaidOperation`, `OperationsEnd`; `OneSubmission`, `RemoteWorkEnds`; `ProposalOutcomeIsTrue` |
| `ai_replay` | the requests of `services` | a violation, section 5 |
| `pipeline` | 1 job, a mortal worker and request, a cron, a retry, a redelivery; 2 jobs with one artifact | `WorkIsAuthorized`, `PublishedWasTold`, `AdmissionEnds`; `ArtifactsStay` |
| `clip_job` | 2 clips, a worker, 2 concurrent dispatches, a retry of the job | `OutcomeIsTrue`, `DurableStays` |
| `clip_deletion` | 1 clip, 2 workers of which one stalls, a dispatch, a settlement, cancellation, both deletions | `StoppedIsQuiet`, `SettledWhenQuiet` |
| `clip_cancellation` | 1 clip in Batch, a worker that crashes or stalls, a dispatch, a retry of the clip, a cancellation | `CancellationIsFinal`, `CancellationEnds` |
| `clip_uncharged` | 1 clip, 1 worker | a violation, section 5 |
| `edit_render` | 1 version, 2 workers of which one stalls, a retry, cancellations | `PublishedIsStored`, `CompletedIsFinal` |
| `edit_liveness` | 1 version, 1 slot, a worker that crashes anywhere, 2 attempts of an entry, a retry that a leaked slot refuses | `PreviewsEnd`, `SlotsReturn` |
| `edit_cancel` | 1 version, 1 worker | a violation, section 5 |

Why these bounds are enough for the questions asked:

* A debt needs a reversal above the balance and a later inflow to recover it, hence two
  payments and two adjustments around one hold; two operations are what it takes for
  one to release the other's hold; two refunds are what it takes to exceed a charge.
* `CycleWithinLargestAllocation` needs two payments with different allocations, in
  either order; the instance has allocations 2 and 3.
* For checkouts, two requests are a zombie and its successor; two plans make one cancel
  the other's transaction. Two transactions let a second one be seen.
* For AI, two requests cover the races of a claim, and three generations cover a
  stale reading of the generation before last.
* Two clips are the smallest instance in which one ends while another is retried or fails
  late, and two dispatches the smallest in which one acts by a plan that the other has
  overtaken; a worker may take the entries one after the other. For deletions, one
  worker that stalls and one that succeeds it. A crash, a stall and a redelivery need one
  worker only, as the crashed one starts again. With two dispatches and a worker that
  stalls as well, `clip_job` leaves the range of a run; `StoppedIsQuiet` and
  `SettledWhenQuiet` are proved for every number of each.
* For a submission to AWS, two deliveries are what it takes to submit twice, and the one
  that dies is replaced by the other; two job ids let a second submission be seen.
* For a proposal, two approvals race each other, an approval races a rejection, and
  three revisions let a proposal be applied, the plan move on, and the other go stale.
* For an editor preview, a failed attempt is requeued once (`edit_liveness`), so that an
  entry is executed twice, and a failed preview is retried while its slot may have leaked;
  in `edit_render`, one retry makes a second generation, against which every late
  write of the first is tested; the stalling worker is the zombie, the other its
  successor.
* For the pipeline, what races is a worker, a request (first `createJob`, then
  `retryJob`) and a cron. One redelivery covers a failed attempt and a stall. Two
  requests at once were checked separately without liveness and change nothing, as the
  job's id is the operation's `relatedId`.
* For the cache, two creators suffice: one that lost its lease and its successor.
* Retries are the only unbounded counters (`MaxGeneration`, `MaxRetries`, and
  `MaxRedeliveries`, `MaxRevision`, `MaxArtifacts`, `MaxTokens`, `MaxTransactions` likewise). Instances
  come to rest when the bounded requests are used up, so deadlock is not an error in
  those configurations.

Fairness

* `AiExecution`: `Age`, `List` and `Recover` only. The clock goes on and the cron runs
  every minute; requests owe nothing, so they may die anywhere.
* `ClipJob`: a worker or dispatcher that lives goes on; BullMQ looks for stalled
  entries; the crons of `CreditsRecoveryService` and `JobsReconciliationService`
  finalize cancellations, recover leases and finalize credits. No request, no new
  dispatch and no hand-out of an entry is fair, and nothing forces a render to end:
  a worker may loop in `work` until its poll sees the cancellation.

* `BatchRender`: the reconciliation comes back every 30 seconds, and of its calls to AWS
  one gets through if it tries for ever (strong fairness of `SweepTerminate` only). No
  delivery is fair, and AWS need never end a job.
* `EditRender`: a worker that lives goes on, the queue hands out entries and finds
  stalled ones, leases run out, reconciliation comes back every 30 seconds and goes on;
  a request proceeds or dies. Nothing the owner does is fair.
* `ClipPipeline`: a caller goes on with what it has begun or dies; a worker goes on, however
  it ends; the queue finds stalled entries; ten minutes pass; of the runs of a cron, one
  gets through (strong fairness of `Reconcile` and `PublishRead`, which others may
  interrupt); the settlement and the recovery of leases by the recovery cron. No
  request is made, no job retried and no render ended by fairness.

Some properties carry exceptions, and the exceptions are the code's:

* `CancellationEnds` excepts a token that was lost after its operation was settled
  (`NeedsOperator`). `recoverExecutionLeases` runs only over operations that are still
  reserved, so such a token waits for `scripts/recover-cancellation.cjs`, which is
  modelled (`AcknowledgeShutdown`) but owed by nobody.
* `StoppedIsQuiet` and `SettledWhenQuiet` speak of workers that hold the lock of
  their entry (`Running`). `recoverExecutionLeases` pulls the token of a lease that was
  not renewed for two minutes, whether or not its worker has stopped, so a blocked
  worker may go on unregistered. With two workers of which one may stall,
  `OutcomeIsTrue` and `DurableStays` do not hold: the zombie writes beside its
  successor. Their run therefore has no stalling worker.
* `OutcomeIsTrue` speaks of the step in which a job fails: then a clip is missing. It
  does not say that none is delivered later, which the code does not keep. Two
  dispatches can do it: one that saw an entry as failed, and is slow, retries it after
  another had retried it and it had failed again; by then the job is `FAILED`, as
  `finalizeRenderState` does not look at the tokens, and the worker delivers the clip.
  `retryJob` can do it too: it counts nothing, so a failure inferred before the retry
  fails the retried clip again, and the entry then delivers it (hazard
  `jobs.service.ts:1389`). For a completed job it does say more: every clip it lists
  stays delivered as long as it is completed.
* `SlotsReturn` excepts an owner who keeps asking (`Asking`). Every `acquire` bumps
  `updatedAt` of the admission row, refused ones too, and so do the readmissions of
  workers (`edit-admission.service.ts:20-24`); `reconcile` skips rows younger than a
  minute (57). An owner who is refused because of a leaked slot and tries again every
  half minute is never repaired. The run has such an owner; without the exception TLC
  finds this behaviour. Nor does the model count rows: `reconcile` looks at a hundred per
  pass, in no stated order.
* `AdmissionEnds` excepts a job that a stale `retryJob` has put back before its manifest
  (`Misplaced`, section 5).
* `RemoteWorkEnds` excepts a delivery that read the record before it had a job id and
  is about to mark it as cancelled (`Blind`): its unconditional write closes the
  record over the id another delivery has just recorded, and nobody looks for the
  remote job again before AWS's own attempt limit. A submission whose answer was lost
  has no id and is left to an operator, as the code's message says.
* `RemoteWorkEnds` and `AdmissionEnds` assume that one pass of a reconciliation gets
  through to the record (`SF` of `SweepTerminate` and `Reconcile`). Both loops stop at the
  first record that throws (`jobs.service.ts:1073-1143` catches nothing per job), so one
  that always throws starves those behind it.
* `ProposalOutcomeIsTrue` speaks of rejected proposals only while they are the last one
  the plan took, and of requests whose update fails only by a conflict (section 2).
* `AdmissionEnds` counts a job as arrived once it renders, from where `ClipJob` goes on.

The action `Stalled` and the lease recovery of `ClipJob` are exercised in `clip_deletion` and
`clip_cancellation`, the adoption of legacy payments
in `operations`; the passing runs together take every action.


## 4. Proofs

Every invariant and every action property of the passing runs is a theorem, for all
values of the constants that meet the named assumptions; so is the refinement of
`Purse` and of `PaidOperation`. The assumptions are those of the modules:
finiteness of what is counted or summed (`FiniteAssumption`, `ClipsAssumption`: a
database holds finitely many documents), bounds that are natural numbers,
and marks (`None`, `"lost"`) that are no identifier. TLC evaluates each of them.

### What is proved

`CreditLedgerProofs` and `CreditLedgerAuditProofs`, about the accounting:

| Theorem | States |
|---|---|
| `TypeCorrect` | the type invariant; in particular no balance, hold, debt or usage becomes negative |
| `StatementsBalance` | every statement continues row by row and ends at the cached balances |
| `DebtComesFirst` | an account that owes has nothing available |
| `HoldsAreRemainders` | a running operation holds its budget less its charge |
| `HoldsAreOperations` | held credits move only together with an operation of the account |
| `ChargesStand` | no step lowers a charge or moves it to another account |
| `PurseImplemented` | `CreditLedger` implements `Purse` |
| `CreditsAreConserved` | available, held and used credits less the debt are the inflow of the rows less what is reversed |
| `DebtsAreExplained` | the debt is what reversals could not take, less what was recovered since |
| `OperationsBackWallets` | held and used credits are the sums over the account's operations and charge rows |
| `RefundsStayWithinCharges` | the refund rows never exceed the charge rows |
| `CyclesStayWithinLargestAllocation` | the invoices of a cycle bring together at most the largest allocation |
| `PaymentsCountedOnce` | no key occurs twice, no pre-ledger payment grants again |
| `ReversalsStayWithinGrants` | what is reversed of a payment is at most what it granted |

The other components:

| Module | Theorem | States |
|---|---|---|
| `AiExecutionProofs` | `TypeCorrect`, `ChargesAreForResults`, `ExecutionsAreExclusive` | the invariants of `AiExecution` |
| | `ExecutionsArePaidOperations` | `executeAi` and the cron implement `PaidOperation` |
| `ServicesProofs` | `PartsTypeCorrect`, `RendersAreSubmittedOnce` | types of the three parts; one submission to AWS Batch |
| | `OutcomesAreTrue` | `ProposalOutcomeIsTrue`, if `Faulty = {}` |
| | `EditsEnterOnce` | without that hypothesis: no edit enters the plan twice, and one shown as applied is in it |
| `PipelineProofs` | `PartsTypeCorrect`, `WorkIsPaidFor`, `OutcomesWereTold`, `ArtifactsAreImmutable` | the properties of `ClipPipeline` and `PipelineCache` |
| `ClipJobProofs` | `TypeCorrect`, `StoppedJobsAreQuiet`, `CancellationsAreFinal`, `HoldsReleasedWhenQuiet` | cancellation, deletion and settlement, whoever crashes or stalls |
| | `DurableClipsStay` | `DurableStays`, if `Stallable = {}` |
| | `OutcomesAreTrue` | `OutcomeIsTrue`, if `Stallable = {}`, with any number of dispatches and retries of both kinds |
| | `ChargesArePrices` | what is charged is the price of the outputs it is charged for |
| | `JobsArePaidOperations` | the job's operation takes only steps of `PaidOperation`, within the price of all clips |
| `EditRenderProofs` | `TypeCorrect`, `PublishedOutputsAreStored`, `CompletedVersionsAreFinal` | the properties of `EditRender`, with any number of zombies |
| `PaymentsProofs` | `CustomersPayOnce` | `OneOpenCheckout` |

The hypotheses are exceptions of the code, not of the proofs; each fails for a reason
section 2 or 3 tells:

* `Faulty = {}`: with an update that fails by itself, a rejected edit may be in the plan.
* `Stallable = {}`: a worker that outlives its lock writes beside its successor.

A manifest may be empty: `prepareRenderManifest` filters the highlights
(`jobs.service.ts:621-637`), and a job without clips ends as failed ("No highlights
found"). `OutcomeIsTrue` allows a failure if no clip remains, so this needs no hypothesis.

### Why it holds

**The wallet** (`CreditLedgerProofs`). The inductive invariant is

    IInv == TypeOK /\ (every wallet is Accountable) /\ HoldIsRemainder /\ OwnersKnown

*Accountable* puts together that an open wallet's statement ends at its balances,
that debt excludes available credits, and that a wallet that was never opened is
empty. None of the three is inductive alone: recovery of a debt posts a row from the
balances it finds, and opening posts the first row of an empty statement. *OwnersKnown*
says that an operation, payment or adjustment with an owner has an open account; without
it, settling might write to a wallet nobody opened. That an account's hold covers the
hold of an operation being settled is checked by the code (`Entry` is guarded by
`Covers`), which keeps this layer free of sums.

The building blocks that change one wallet are proved sound first (`PostSound`,
`RecoverDebtSound`, `EntrySound`, ...): each keeps the wallet accountable and moves net,
held and spent credits by a stated amount. Then every operation is shown to be a
`Transaction` of one account with given amounts (`ReserveStep`, `SettleStep`, ...).
Invariance and refinement both follow from that one fact per operation
(`TransactionKeeps`, `StepIsSound`).

**The sums** (`CreditLedgerAuditProofs`). `SumFunction` adds up in an order `CHOOSE`
picks. Induction over the set is out of the provers' reach, so each lemma about all
sums is proved by a smallest counterexample: among the subsets for which it fails one
contains no other (`MinimalSet`, from the well-foundedness of strict inclusion), and
taking an element out of it contradicts that. This gives that the order does not
matter (`TotalWithout`), and from it what the ledger needs: a sum with one more or one
changed element, monotony, and zero (`SumAdded`, `SumChanged`, `SumMonotone`,
`SumZero`).

On statements a sum is `Weighed(w, weight)`. What a building block writes
is described once, as the row it posts and the recoveries of debt that may precede or
follow it (`Writes`, `Records`), and each operation by the kinds
of rows it leaves (`Touches`, `Inscribes`, `StepKinds`): a property that weighs one kind
of row need only look at the operations that write it. On top of `IInv` the
invariants are

* `EveryoneExplained`: debt and used credits are weighed sums of the rows;
* `Backed`: held and used credits are sums over the account's operations;
* `LedgerKeys`: no two rows have one key, on whatever statements, and every key is known
  to the document it is about. It is needed by all that follow: a key that is fresh
  weighs nothing yet;
* `ReversalsStand`: `reversed` is the sum of the adjustments that stand, which is what
  the code's aggregation returns;
* `Conserved`: the balance equation, with the payments reversed at this point;
* `RefundsMatch`: an account's refund rows add up to what is `refunded` of its charge
  rows, each of which is refunded at most as far as it goes. `RefundsWithinCharges`
  itself is not inductive, as a refund checks one charge only;
* `CyclesCapped`: together the payments of a cycle brought at most `cycleGranted`, and at
  most what one of them allocates.

**Paid AI** (`AiExecutionProofs`). A token is set once in a generation, so a
request that runs in the current generation owns the operation (`FencesHold`); a result
is never erased, so the cron's old listing errs in one direction only
(`SnapshotHolds`); a result that is not charged belongs to a request about to
settle (`PublisherSettles`), so nobody fails the operation under it.

**Batch, proposals** (`ServicesProofs`). The claim gives one delivery the right to
submit, and nobody gets it back (`RightToSubmit`, `SubmittedOnce`). The
plan's revision leaves the base of a proposal for good when the edit enters the plan, and
a proposal goes back to `pending` only when its base is gone (`EditInv`).

**Pipeline, cache** (`PipelineProofs`). A hold is released only under a job that has
ended and that nobody executes; a worker returns its token after its last write, so the
status it wrote back was read under a hold that still stands (`WritesAuthorized`); what a
caller is about to tell, mark or reopen is what it read (`CallersRead`). What
a creator found wanting stays unusable, and what is stored later has another id
(`CacheInv`).

**Render stage** (`ClipJobProofs`). `JobInv`: an execution under a lock of the queue has
its token in the document (`TokensHeld`), and a cancelled job is fenced, without tokens
and with every clip ended, and one claimed for deletion is without tokens (`JobFenced`);
so no token means nobody runs, which is what
the gate of `settle`, the claim of a deletion and the confirmation of a cancellation look
at. The steps of a deletion that follow find the fence in place (`DeletionFences`). With
living locks only, a lock is one execution (`LockInv`), so a clip that is worked on is not
durable. The outcome under review is that of the document as it is, because every write
voids it (`ReviewTrue`), and a completed job keeps the clips it lists
(`CompletedHasClips`); late failures and slow dispatches need no invariant of their own,
since only a review ends a job. `ChargesPriced` relates the charge, and
the charge of every settlement under way, to its outputs; since outputs are only added
to those charged for, the charge neither shrinks nor exceeds the price of all clips. This
justifies that `Settled` does not repeat the check of the authorization.

**Previews** (`EditRenderProofs`). `ShapeInv` says which version and generation each
process is at. `OutputInv`: a token belongs to one execution for ever, and an output
that somebody may remove is one that nobody can publish any more.

**Checkouts** (`PaymentsProofs`). `CheckoutInv`: everything that can still be paid or
comes to something is the pending transaction of its kind, or was never handed out. The
holder of the lease replaces the entry after it has seen that nothing stands behind it;
a request that outlived its lease cannot save, and what it read as pending stays so as
long as it stands. Packs are keyed one by one, so for them the theorem speaks of
instances with one pack (`Exclusive`).

### What is only model-checked

* Liveness: `OperationsEnd`, `RemoteWorkEnds`, `CancellationEnds`, `AdmissionEnds`,
  `PreviewsEnd`, `SlotsReturn`. Reasoning from fairness needs ENABLED, which this prover
  does not handle.
* The three violations of section 5, which are counterexamples.


## 5. Disagreements between the code and its documents

The first three are runs that end in a counterexample.

* **A finished AI operation may be generated again** (`ai_replay`,
  `ReplayedNotRegenerated`). `src/backend/docs/unified-billing.md` says results are
  "replayed without another generation". `executeAi` decides by what it read
  (`credits.service.ts:924-932`): a request that read the operation as released, while
  another reopens, generates and settles it, reopens it again with its result and
  generates a second time. Nothing is charged twice, as the charge is cumulative.
* **Delivered output may stay uncharged** (`clip_uncharged`, `DeliveredIsCharged`).
  `finalizeCredits` computes its charge from a job it read before the settlement
  transaction, and the gate inside asks only whether the job is terminal and idle now.
  If the failed job is retried in between, delivers the clip and ends, the old
  settlement passes and the operation is settled without the clip; settled operations
  return at once from then on. `src/docs/credit-management.md` says the settlement
  charges the delivered output. `retryJob` leaves an operation that is still
  reserved as it is, so its generation does not tell the two settlements apart.
* **A cancelled preview may come back** (`edit_cancel`, `CancelledIsFinal`).
  `src/backend/AI_EDITOR.md` says cancelled versions cannot restart. A failed execution
  reads the durable version, computes "queued" or "failed" from it and writes it under
  a filter of token and lease (`edit-render.processor.ts:479`). `cancel` changes neither,
  so a cancellation in between is overwritten: the version is queued again, or is failed
  and can be retried.
* **A lease is recovered although its owner may run** (no run). `job.schema.ts:176` says
  of execution tokens "Never expire these automatically: a lost queue lock is not proof
  that FFmpeg stopped". `recoverExecutionLeases` (`jobs.service.ts:943-975`) pulls the
  token of any lease that was not renewed for two minutes, once no entry is active. A blocked worker then goes on unregistered. The model has this step
  (`RecoverExecutionLease`); the properties about quiet jobs speak of lock holders for
  this reason.
* **A retried job may be lost** (no run). `retryJob` decides by its first reading whether
  the manifest exists (`jobs.service.ts:1374`), and its claim asks only whether the job
  has failed (1389). If reconciliation fails a job whose worker goes on, the user retries
  it, and the worker writes the manifest between the two, the job is `PENDING` with a
  manifest: `enqueuePipeline` leaves a job with a manifest alone, reconciliation one that
  is not cutting clips, and the hold stays. `AdmissionEnds` excepts exactly this state
  (`Misplaced`); without the exception TLC finds it.


## 6. What is not modelled, and the plan

Not modelled, with the reason: capacity and time estimates (no durable state);
usage telemetry (never changes customer accounting); notifications, mail and activities
(keyed inserts); the migration script (the same opening, once per account); sharing,
registry and administration but for suspension and adjustments (configuration and reading);
media tools and providers (subprocesses and services); web applications.

Left out as components, with the reason:

* *Sessions.* The one race, a session created from a root that is being revoked, is
  harmless because every use looks for the root again.
* *YouTube publishing.* `publishClip` checks and then inserts, with nothing between
  that could be claimed, so two uploads of one clip are possible by construction.
* *Studio projects and exports.* Documents written by one user, and a queue with the
  same policy as the clips' queue; only the paid proposals are modelled.
* Inside modelled components: changes of plan in Paddle's portal and renewals beyond
  their grant, cancellation and deletion of a clips job before its
  manifest, zombie workers of the pipeline, materialised sources of the cache, creation
  and deletion of edit plans, final exports.

What follows, in this order:

1. The contract between `ClipPipeline` and `ClipJob`: a state of the first that renders
   is an initial state of the second, and `Rendering` ends as `ClipJob` ends, stated as a
   refinement of one abstract job by both.
2. An abstract lock with fencing that `AiExecution`, `BatchRender` and `EditRender`
   implement, so that their exclusion theorems become one.
3. An abstract preview for `EditRender` and an abstract proposal for `EditProposal`,
   with the step simulations.
