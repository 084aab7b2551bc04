# Formal model of Trae-core

TLA+ specifications, TLC model checks and TLAPS proofs for the Trae-core gateway: a Rust
library over one SQLite database (`src-core`, called *Core* below) and an HTTP service
(`starlink-dimension-router`, the *router*) that calls it and an external bridge which
performs the paid calls.

* [The system](#the-system): components, state, operations, interactions
* [The hard parts](#the-hard-parts)
* [What is modelled](#what-is-modelled): modules and their correspondence to the code
* [What the runs check](#what-the-runs-check)
* [What is proved](#what-is-proved)
* [What is not modelled](#what-is-not-modelled)
* [The plan](#the-plan)

## The system

A client sends a chat or a video request with an API key. Core records the request; the
router asks the *bridge* to authorise each paid step (a text model call that plans a video,
called the *assist* step; the video itself; or one chat completion). Core holds the
authorised credits on the key's budget account and, where the owner has a cap, on the user's
account; the router marks the step dispatched and lets the bridge send it. Execution (the
answer, the task, the end of the request's slot) and money (the receipt that says what was
really charged) advance separately: a request may end long before its credits are settled.

| Component | State | Operations | Correct when |
|---|---|---|---|
| **Budget V2** `budget_billing.rs` | `budget_operations`, `budget_steps`, `budget_authorization_revisions`, `budget_receipt_evidence`, `budget_settlements`, `budget_preparations`, `api_key_billing_blocks`, receipt cursor | begin operation, add step, refresh authorization, mark dispatched, bind task, mark execution, finish, apply receipt, mark conflict, release unattempted step, prepare/abort/recover an assist preparation | a paid call is promised once, sent once, charged once or returned unsent; books balance; contradiction freezes; execution ends together |
| **Quota** `quota.rs` | `quota_accounts`, `quota_ledger`, `quota_reservations`, budget snapshots and the pool of the upstream account | grant and allocate from the pool, reserve and adjust, v1 receipts, advance snapshots, quarantine of inconsistent event groups | no credit created or lost; only inconsistent groups are quarantined; allocation never beyond the pool |
| **Requests** `requests.rs`, `models.rs` | `requests`, relations, idempotency keys | preflight, begin, transition, leases, assist link and its recovery, start-up recovery | one request per idempotent call; every abandoned request is closed, no live one is |
| **Store** `store.rs` | keys, users, assets, upstream accounts | create, update, rotate, revoke, delete keys; record assets | a deleted key returns what is available once, only when nothing is open |
| **Recovery lanes** `budget_reconciler.rs`, `budget_flow.rs`, `budget_chat.rs`, `budget_observer.rs` | in-memory tasks, receipt cursor | prepare-admit-mark-send, event lane, recovery lane, observer | nothing is sent without a promise; no receipt is skipped; what ended is closed |
| **Budget continuations** (both `budget_continuation.rs`) | `budget_continuations` | save, claim, back off, finish | a chain interrupted after its assist step resumes once |
| **Leases and jobs** `jobs.rs`, `requests.rs`, `upstream.rs`, `upstream_failure.rs` | `jobs`, `job_attempts`, `upstream_leases`, the queue's cursor, account health and cool-down | enqueue, preflight, claim, heartbeat, cancel, settle, reconcile, sweep of expired leases | no account overbooked; the rows of a call agree; an outcome is final; a job is started once; users take turns |
| **Controlled billing v1** `controlled_billing.rs` | `controlled_billing_operations`, `controlled_billing_steps`, `billing_receipts`, blocks | begin, mark a step, bind a task, record a receipt, finish | one operation holds all a key has; it charges what its sent steps cost; a contradiction or an excess freezes the key |
| **Quoted billing v1** `quota.rs`, `user_routes.rs`, `video_billing.rs` | quotes, receipts, settlements, the video gate and its one-shot diagnostic | quote and reserve, release, apply a receipt, claim a diagnostic | request and hold end together; what was sent stays covered; a charge beyond its quote freezes the key |
| **Video works** `video_work.rs`, `work_*.rs` | works, versions, sources | open, plan, publish a version, retry, continue | one current version, published from a finished request |
| **Reference uploads** `reference_upload.rs` | tickets | create, claim, expire | a ticket is used once, before it expires |
| **Schema** `schema.rs`, `migration.rs` | - | create and migrate tables | one-shot SQL |
| **Routes, administration, amounts** | - | HTTP handlers, sessions, reports, credit parsing | - |

How they interact. The router keeps no state of its own that survives a restart: every
decision is read from and written to Core. Core runs each operation in an `IMMEDIATE` SQLite
transaction behind one mutex, so operations are atomic and totally ordered; between two of them
anything can happen: other request tasks, the recovery lanes and the administrator call the
same operations, each on the strength of rows it read earlier. The bridge is called over HTTP
between transactions; its receipts come back as answers, through a polled event page, and again
after any restart. Three ways of billing share the store: Budget V2; quoted requests, for which the bridge names a maximum
that is held; and controlled requests, whose price is unknown and for which all the key has left is held. In the last
two the handler of a request, the reconciler and clients that poll or repeat settle the same request side by side.

## The hard parts

`PROJECT.json` lists them line by line under `hazards`. In short:

* **Money and execution are two state machines on one row.** `financial_state` and
  `execution_state` advance in different orders: a receipt may come before the task it is for,
  after the request ended, twice, or contradict an earlier one. The same is true of the
  reports that advance the execution.
* **Each step is in five tables**: step, reservation, ledger (one row per account and event),
  evidence and settlement. The reconciler re-derives the whole group and quarantines the
  accounts if it disagrees (`validate_v2_quota_event_group`). Every operation must leave a
  group it accepts.
* **Send or return, never both.** Release (on evidence that a call was never sent), refresh,
  dispatch and the end of the execution race for a step that was authorised and not sent.
* **Preparation, abort and recovery race** for an assist request that was inserted and not
  yet admitted.
* **The slot count spans tables**: requests that wait, requests with a reservation and no
  operation, and operations under way. At the limit an off-by-one either overbooks a key or
  blocks it for ever.
* **Overrun.** A receipt may charge more than the hold and even more than the account has; later
  reservations and refreshes must keep the books with a negative balance.
* **Leases.** One call outside Budget V2 has five rows, and workers, the owner, two kinds of heartbeat, a settlement and
  the sweep of expired leases each write some of them; what was in doubt may be reconciled later, or never.
* **Several threads settle one v1 request.** Handler, reconciler, the job of a video and repeating clients each read the
  request's state, ask the bridge, walk the state forward and apply the receipt in transactions of their own, and
  give up in different ways when another was faster.
* **A lost answer** makes a video whose task has no name; it has a job of its own, which may keep other recovery away.
* **Credits change hands** between the rows of the user-level ledger, the pool made of them, and the keys, while holds that
  were made under one arrangement are settled under the next, and the check of event groups walks over them in batches.
* **Crashes** between the bridge's authorization, Core's admission, the dispatch mark and the
  send; between a receipt's transaction and the cursor's.

## What is modelled

| Module | Contents |
|---|---|
| `BudgetHold` | Abstract specification: what the store promises about the money of one paid call. |
| `BudgetBilling` | All operations of Budget V2 on Core's tables, one action per transaction. |
| `BudgetBillingProofs` | Theorems about `BudgetBilling`, for all values of its constants: types, rows, preparations, the refinement of `BudgetHold`. |
| `BudgetLedgerProofs` | Theorems about the books of `BudgetBilling`: event groups, balances, conflicts, slots. |
| `Sums`, `SumTheorems` | Sums of a table over a finite set, and their laws. |
| `BudgetRecovery` | Composes `BudgetBilling` with the router around it: the owner of a request, the bridge, the recovery lanes, crashes. |
| `BudgetRecoveryProofs` | Theorems about `BudgetRecovery`: it implements `BudgetBilling`, and what it adds. |
| `KeyQuota` | Quota accounts: user-level ledger, pool, keys, holds, and the batched check of event groups. |
| `ControlledBilling` | Requests without an upstream price: Core's operations, the handlers, the reconciler, jobs, crashes. |
| `QuotedBilling` | Requests with an upstream quote, with the video gate and repeating clients. |
| `JobLeases` | Leases on upstream accounts and the queue of video jobs: calls outside Budget V2. |
| `JobLeasesProofs`, `KeyQuotaProofs`, `ControlledBillingProofs`, `QuotedBillingProofs` | Theorems about the four modules. |
| `MCJobLeases` | The instance of `JobLeases` TLC checks. |
| `MCKeyQuota`, `MCControlled`, `MCQuoted` | The instances of the three modules above TLC checks. |
| `MCBudgetPipeline`, `MCBudgetContention` | The instances of `BudgetBilling` TLC checks. |
| `MCBudgetRecovery`, `MCBudgetChat` | The instances of `BudgetRecovery` TLC checks. |

### BudgetBilling and the code

State. A variable is one column, a function from the request that owns the row, with
`"absent"` for a row not yet inserted. A request has at most one step, one reservation and one
settlement, so these rows share the request's identity; the parent of an assist request is given
by `ParentOf`. `evidence` holds the rows of `budget_receipt_evidence`; a receipt's hash
is modelled by the receipt itself (equal hashes are equal receipts), and `OpaqueHashes` are hashes of
conflicts the bridge declares with no receipt attached. `ledger[a][r]` is the sequence of
ledger rows of request `r` on account `a`, of kind `reserve`, `adjust`, `release` or `commit`. Balances are not
state: as in the code, they are sums over the ledger and the open reservations
(`Available`, `Held`, `Settled`, of `Deltas` and `Commits`).

Actions. `PROJECT.json` maps each definition to its lines.

| Action | Code |
|---|---|
| `BeginRequest`, `BeginAssist` | `begin_request`, `begin_budget_assist_request` |
| `AbortPreparation`, `RecoverPreparations` | `abort_budget_preparation_with_result`, `recover_abandoned_budget_preparations_before` |
| `FinishUnadmitted`, `RecoverPreDispatch` | `finish_unadmitted_request`, `recover_abandoned_pre_dispatch_requests` |
| `BeginOperation`, `AddStep` | `begin_budget_operation`, `add_budget_step` |
| `Refresh` | `refresh_budget_authorization` |
| `Dispatch` | `mark_budget_step_dispatched`, with the event-group check it starts with |
| `Release` | `release_unattempted_budget_step` |
| `BindTask`, `MarkExecution`, `Finish` | `bind_budget_video_task`, `mark_budget_step_execution`, `finish_budget_execution_with_result` |
| `SettlingReceipt`, `PendingReceipt`, `LatePendingReceipt`, `ConflictingReceipt` | the branches of `apply_budget_receipt` |
| `MarkConflict` | `mark_budget_receipt_conflict` |
| `RevokeKey` | `revoke_api_key` |
| `Tick` | time passing, as far as `created_at_ms` and `expires_at_ms` can tell |

A call that returns an error rolls back, and one that finds its work done changes nothing: neither
is a step. The model lets every caller call every operation at any time with any arguments
the database would accept; the order the router happens to use is not assumed, so what holds here
holds whatever the router's tasks and lanes do.

`EventGroupValid` is the integrity check of `quota.rs`. It appears twice: as a
guard of `Dispatch`, as in the code, and in the invariant `LedgerAccepted`, that no reachable group is rejected.

Abstracted:

* identity, fingerprint and authorization-hash comparisons: the callers present matching ones, a
  mismatch is an error and so no step;
* readiness and quarantine of accounts (`enabled`, `migration_state`, integrity): all accounts are
  ready, as `LedgerAccepted` shows the reconciler would leave them but for `TaskAfterNoCharge`;
* audit rows, timestamps other than those compared, media clean-up, messages;
* micro-credits are small naturals. Core uses checked 64-bit arithmetic, so overflow is an error
  and therefore no step.

`BudgetHold` is the promise: credits are promised once, may be re-sized while unsent, are sent
at most once, and the promise ends by a return (only unsent) or by one charge (only sent). It is
implemented under the mapping `promise` at the end of `BudgetBilling`, with
`amount <- reserved` and `charge <- actual`; `HoldKept` is `Hold!Spec`.

### BudgetRecovery and the code

`BudgetBilling` lets anybody call anything at any time; `BudgetRecovery` says who calls what, in which
order and on the strength of which rows read before. Every change of a table is still an action of
`BudgetBilling`, so each of its safety properties holds here too.

| Variable | In the code |
|---|---|
| `owner[p]` | the one task that holds the request's `Observer`: where it is in `seedance_work` or `chat`, and in `prepare_step`; `fresh` if it inserted the request. Lost in a crash. |
| `bridge[r]`, `bill[r]`, `events` | the bridge, outside the repository: what it did about a budget, what it last said of its money, its receipt events in order |
| `cursor` | the durable receipt cursor in `schema_meta` |
| `calls[w]` | the store calls that a worker or the event lane will make with what it has read: its stale snapshot. Lost in a crash. |
| `crashes` | how often the process died |

| Action | Code |
|---|---|
| `Accept`, `StartAssist` | `seedance_chat` and `chat` up to the first row; the helper request of `seedance_work` |
| `Prepare`, `Admit`, `AdmitRefused`, `Mark`, `MarkRefused`, `Send` | the five calls of `prepare_step` and their error paths; `Prepare` and `Send` include a lost call and a lost answer |
| `TakeResult`, `StopWaiting` | `wait_result` and what `seedance_work` does with a helper's decision |
| `Abort`, `Close`, `Drop` | `abort_preparation_failure`, `finish_definite_failure`, `finish_unadmitted_failure` and `AdmissionOwner::drop` |
| `Retry`, `Resume` | the client's repeated request; the continuation worker |
| `Look`, `ReadBill`, `Perform` | one turn of the recovery lane on one step: `reconcile_page`, `sync_execution`, `sync_receipt`, with every store call a step of its own |
| `TakeEvent`, `Perform(Feed)`, `Advance` | one event of `sync_event_page`: read, apply, advance the cursor in another transaction |
| `Withdraw`, `Observe`, `Bill`, `Contradict` | the bridge (external) |
| `Crash` | the process dies and `open_with_key_vault` runs, with the start-up sweep |

Abstracted or assumed:

* the bridge: what it was asked to send it reports as running or unknown until it ends, and bills at most once; a
  prepared budget may be canceled or expire, after which it is never sent; a video names its task at the
  latest when it ended, and is billed after it ended. Each of these is what `budget_flow.rs` and `budget_reconciler.rs` rely on;
* a worker per request instead of a bounded pool of four per page: more interleavings, and owners' and clients'
  own reads (`wait_result`, status queries) are turns of a worker too;
* pages and the 100-row limit: every pending step is visited, as the wrapped page cursor makes sure;
* whether an account is ready is left to `AdmitRefused` and `MarkRefused`, which may happen at any time;
* `work_execution::execute` (keys with work contexts), the direct videos route, the back-off of continuations and
  replaced authorizations (which no router code calls) are not in this module.

### JobLeases and the code

Calls that do not run on Budget V2 hold their user's credits in one reservation and a slot of an upstream account in a
lease. `JobLeases` stands beside the budget modules: the sweep of leases skips the requests of Budget V2, and the rest
shares no row with them. A variable is a column, indexed by the request that all rows of a call belong to:
`request`, `reservation`, `job` and `attempt` are states, `lease` the lease's state, account, expiry (`until`) and end of its
reconciliation window, `claim` the two `queue_claim_*` columns, `created` the time of the job, `cursor` the queue's cursor.

| Action | Code |
|---|---|
| `Enqueue`, `Preflight` | `enqueue_video_job`; `preflight_reserve_with_lease`, `preflight_video_job` |
| `ClaimNext`, `ClaimById` | `claim_next_video_job`, `claim_video_job_by_id` |
| `MarkRunning` | `mark_video_job_running` |
| `HeartbeatJob`, `HeartbeatLease` | `heartbeat_video_job`, `heartbeat_upstream_lease` |
| `RequestVideoCancel`, `RequestUpstreamCancel` | `request_video_cancel`, `request_upstream_cancel` |
| `Settle`, `Reconcile` | `settle_upstream_lease`, `reconcile_unknown_upstream_lease`, for each of five outcomes (`EndOf`) |
| `Recover` | `recover_expired_upstream_leases` |
| `AccountsChange`, `SetUserStatus`, `Tick` | health reports and observations of accounts, the administrator, the clock |

A transition inside one transaction is not visible: a request that goes through `dispatched`, `completing` and `succeeded`
to `settled` in one call appears as `settled`. A failed call is no step; in particular `claim_next_video_job` tries the
head of the queue and nothing else.

Abstracted or assumed:

* accounts are usable or not, at any time (`ready`); which of several is chosen follows units that are not modelled, so any
  may be; constraints of a call are the set `Fits`; `max_concurrency` does not change (an administrator who lowers it
  below what is in use breaks `SlotsBounded` until the calls end, by design);
* the amounts of credits: whether the balance suffices is a precondition of `Enqueue` and `Preflight`, and the ledger is
  `BudgetBilling`'s subject;
* upstream references, error codes and results, with the two operations that only write them
  (`record_video_job_acceptance`, `set_video_job_result_refs`); revocation of keys;
* lifetimes: each grant, heartbeat of a job and heartbeat of a lease asks for one of its own, as in the code, which demands
  only that it is positive (`GrantTtls`, `JobTtls`, `LeaseTtls`); a heartbeat may therefore shorten a lease. The two
  reconciliation windows are constants;
* the clock of all callers is one; the bound `MaxTime` ends it.

### KeyQuota and the code

Every operation of `quota.rs` that changes the accounts of one resource is one transaction and one action. The ledger only
grows and what a row says is its delta, so the model keeps sums: `balance` of each account, `loose` of the user's rows that
name no account (the user-level ledger that is older than accounts), and in `hold` what each hold's own rows posted.

| Action | Code |
|---|---|
| `GrantUser`, `PoolGrant`, `PoolRead` | `grant`/`grant_as_admin`, `quota_pool_grant_as_admin`, `quota_pool_balance_as_admin` and `quota_pool_allocatable_as_admin` (the read makes the pool) |
| `AllocateFromPool`, `AllocateFromUpstream`, `GrantKey`, `Migrate` | the four operations that give a key credits |
| `DisableKey`, `EnableKey`, `DeleteKey` | `revoke_api_key`, `update_api_key_as_admin`, `delete_api_key_as_admin` |
| `ReserveUser`, `ReserveKey` | `reserve_in_transaction`, `reserve_dual_in_transaction` |
| `Release`, `Commit`, `Doubt`, `ReceiptSettles` | `settle_impl` with its three settlements, `apply_credit_receipt` |
| `SweepBatch`, `Crash` | one batch of `reconcile_quota_event_groups`, and the loss of its cursor |

`given` and `outside` are history: what administrators gave, and whose keys got credits the pool never counted. A key that was
disabled and is enabled again comes back with credits the pool may have given away since; its user is put in `outside`,
so `PoolBacksKeys` says nothing of that. A pool
adopts the loose rows and their holds when it is made; a migration adopts the rows only. A refund to an
adopted v1 hold still goes to the loose rows, which is why `QuotaBooks` takes both together. `stamps` are the
account versions of a hold's rows; a group with a stamp that is not the account's version is malformed to the pass (`Beyond`),
so an ordinary grant in between is enough to quarantine an account. A hold may sort anywhere in `queue`, as the time
in its row is read before the store is locked.

Of these operations the router exposes allocation from the upstream total and the reads; its routes for the other grants
answer 410, and only tests call the pass. The model has them all, as the library offers them.

### ControlledBilling and the code

For a request without an upstream price Core holds everything the key has left and settles with the sum of its steps'
receipts. Core's operations are conjuncts (`BeginOperation`, `MarkStep`, `BindTask`, `Record`, `Finish`), used by the actions
of the threads that call them.

| Thread | Variable | Code |
|---|---|---|
| handler of a request | `at[r]` | `run_controlled_chat_completion`, `run_controlled_seedance_chat`, `run_controlled_native_video` and the helper in `run_controlled_seedance_assist` |
| reconciler | `work["reconciler"]` | `reconcile_legacy_pending_billing_requests_once`: `LanePick` and what follows, `SettleOrphan`; `reconcile_video_job_once`: `JobPick`, `LostJobPoll` |
| polling clients | `work[c]` | `settle_video_job` for the task the client names |
| bridge (external) | `wire`, `outcome`, `published` | what became of a send, the video, and the receipts |

What a thread read before a call of the bridge stays in `at` or `work` and may be stale when it is used. `job` and `lostJob`
are the file of jobs: under the task's name, or under the request's when its name was lost. `old` is what the cutoff of
`recoverable_undispatched_operations_before` tells apart: operations of an earlier process. `Restart` ends every thread and
runs the two start-up sweeps; requests younger than five minutes may be left by the second.

### QuotedBilling and the code

The same handlers with a quote: the bridge names the most a request can cost, `Reserve` holds it, the receipt settles it. A
settlement is a walk of four steps, for whichever thread: `Settle` (only where the answer is at hand), `Ask`, `Prepare` and
`Apply`, that is, `settle_chat_response`, `reconcile_billing_request_once`, `prepare_for_final_receipt` and `apply_credit_receipt`. A call
says which request it is about and where its thread goes if it settled or not (`Call`); `seen` is the state that was
read in a transaction before the one that writes (`Raced`).

| Action | Code |
|---|---|
| `EnterGate`, `Claim`, `ArmDiagnostic` | `admit_video_request`, `claim_video_diagnostic`, `set_video_billing_control` |
| `Begin`, `QuoteOwn`, `Refuse`, `Abandon`, `ReleaseOwn` | up to the send: `begin_request`, `reserve_credit_quote`, the error paths |
| `CreateHelper` .. `HelperAnswers` | `run_seedance_assist` |
| `DispatchOwn`, `SendOwn`, `ChatAnswers`, `VideoAnswers`, `VideoRefused`, `InsertJob` | the send and what may come of it |
| `LanePick`, `JobPick`, `LostJobPick`, `CloseJob` | the reconciler and polling clients |
| `Repeat` | `existing_request_error`: a client that repeats its request |

Abstracted or assumed in both modules:

* receipts are final or failed without a charge, the only ones the bridge client lets through; a step's first receipt
  may be contradicted by another (`MaxContradictions`);
* a send arrives, is refused before anything began, or is lost; the two error codes the router takes for a refusal before
  a task was made (`confirmed_video_pre_dispatch_error_code`) are taken to mean that;
* which of the two kinds of billing a request has is decided once, when it asks for a quote (`quote_unavailable`); each
  module has the requests of its kind;
* amounts, grants and the second account of the owner are `KeyQuota`'s subject: `ControlledBilling` has them as far as what
  is held depends on them, `QuotedBilling` has the keys' accounts;
* a polling client of `QuotedBilling` repeats once, as further clients would do what one that repeats again does; the gate starts active, and
  is armed only while a video has not passed it, as nothing reads it afterwards.

## What the runs check

All runs are breadth-first and exhaustive under their bounds. Deadlock is not checked: the
system does come to rest when each request has ended and each receipt was delivered.

| Run | Instance | Properties |
|---|---|---|
| `pipeline` | one video with its assist request, two tasks, contradicting, pending, no-charge and opaque receipts, one authorization per step, two clock values | `TypeOK`, `Conservation`, `LedgerAccepted`, `EndsTogether`, `PreparationSettledOnce`, `ConflictFreezes`, `HoldKept` |
| `contention` | two chats of one key with one slot, five credits on the key and three on its owner, holds of 1 or 2 replaced once, a receipt of 3 (beyond any hold) | `PromisesCovered`, `ConcurrencyBound`, `HeadOfLineAdmitted` |
| `recovery` | one video chain with its helper, a worker for each step, the feed, one crash anywhere | `RecoveryTypeOK`, `SentWasPromised`, `ReturnedWasWithdrawn`, `ClosedMeansQuiet`, `CursorNeverSkipsBills`, `BillsLand`, `SlotFreed` |
| `chat_recovery` | one chat that its client repeats, one worker, the feed, two crashes, two clock values, a contradiction | `FeedCatchesUp` |
| `job_leases` | a video job of one user and a streamed call of another, one account with one slot, two workers; the video's user may be disabled and the account fail at any time; each grant and heartbeat for 1 or 2, windows of 2 and 1, three ticks | `SlotsBounded`, `RowsAgree`, `CreditsFollowOutcome`, `OnlyLeaseHeartbeatUncovers`, `OutcomeIsFinal`, `StartedOnce` |
| `controlled` | a Seedance request and a text of one key with three credits whose owner has a capped account, two slots, a grant of two, a polling client, one contradiction, one restart | `TypeOK`, `Books`, `ClosedCoversSent`, `OneOpenPerKey`, `LiveChainOpen`, `FrozenKeysStartNothing` |
| `controlled_settles` | the same two requests without client and grant, and videos that failed after they were begun | `CostsSettle` |
| `quoted` | a Seedance request and a text of one key with four credits and one slot, quotes of 2, 1 and 1, a text that may cost 2, a repeating client, one contradiction | `TypeOK`, `QuotedBooks`, `ArrivedIsCovered`, `ClosedTogether` |
| `quoted_settles` | the same requests without client and contradiction, one diagnostic armed at some point, one restart | `QuotedSettles` |
| `key_quota` | one user with two keys, a hold of the user-level ledger and one on a key, one credit given at most, a migration, receipts of 0 and 2, batches of one | `TypeOK`, `QuotaBooks`, `PoolBacksKeys`, `SweepComplete` |
| `helper_never_sent` | the instance of `recovery` | `EndedStepsFreeSlot`, violated (see below) |
| `lost_video` | a controlled Seedance request, one restart | `LostVideoSettles`, violated (see below) |

What they show:

* `Conservation`: on each account, available + held + charged = granted, in every
  state, with adjustments, releases and overruns.
* `PromisesCovered`: open holds and the parts of charges within their holds fit in the grant; a negative
  balance can only come from an actual amount beyond its hold.
* `LedgerAccepted`: no order of calls leaves an event group the reconciler would quarantine,
  but for a task named after a zero charge (`EveryGroupAccepted` below).
* `ConcurrencyBound`, `HeadOfLineAdmitted`: a key never has more operations than slots, and requests
  that wait for a free slot, even of the same millisecond, never all keep one another out.
* `EndsTogether`: a closed operation has its parent in the same state and only ended steps; an assist
  request stands where its step does.
* `PreparationSettledOnce`: of admission, abort and sweep exactly one takes a preparation.
* `ConflictFreezes` (an action property): after contradicting evidence a step's credits do not move,
  and nothing of its key is reserved or sent.
* `HoldKept`: refinement of `BudgetHold`.
* `SentWasPromised`, `ReturnedWasWithdrawn`: the two ends of the chain agree across crashes and lost calls: what the
  bridge sent is marked and its credits never go back unbilled; credits go back only for what it withdrew for good.
* `ClosedMeansQuiet`: an operation ends only when the bridge has nothing under way for it, and as the bridge says.
* `CursorNeverSkipsBills`: the durable cursor never passes money the store does not know.
* `BillsLand`, `SlotFreed`, `FeedCatchesUp` (liveness): a bill lands, a decided operation ends, and the feed
  passes every event, whatever became of the owner and wherever the process died.
* `SlotsBounded`: with slots taken in three ways and given back in one, no account carries more calls than it has slots,
  counting those in doubt.
* `RowsAgree`, `CreditsFollowOutcome`: the five rows of a call tell one story, and the credits go where its outcome says.
* `OnlyLeaseHeartbeatUncovers` (an action property): what sets a worker's claim leaves it covered by the job's lease, and
  nothing uncovers it but the owner's own heartbeat of that lease with less time. The code allows such a heartbeat
  (`heartbeat_upstream_lease` overwrites the expiry), and the sweep may then take the job from a worker whose claim runs.
* `OutcomeIsFinal`, `StartedOnce` (action properties): whatever comes late leaves an ended call alone; a job leaves the
  queue once, to one worker, with its credits held.
* `Books`, `QuotedBooks`, `QuotaBooks`: the ledger says of each operation, request and account what the rows about it say,
  however many threads settled, released, replayed or moved it.
* `ClosedCoversSent`: a settled controlled operation charged every step that reached the bridge, and none is on its way.
* `OneOpenPerKey`, `LiveChainOpen`: a grant does not let a second operation in beside one that holds everything, and no
  lane settles an operation whose handler is still between its helper and its video.
* `FrozenKeysStartNothing` (an action property): a key with contradicting receipts or a cost beyond its hold begins nothing.
* `ArrivedIsCovered`: no thread gives back the credits of a request that arrived, whatever state the others left it in.
* `ClosedTogether`: a quoted request is settled exactly when its hold is closed, although both are walked by several threads.
* `CostsSettle`, `QuotedSettles` (liveness): what reached the bridge is settled by the reconciler alone.
* `PoolBacksKeys`: what active keys got from a pool, the pool has, but for receipts beyond their holds.
* `SweepComplete` (an action property): a finished pass has quarantined what was beyond repair when it began.

Bounds, and why they are enough:

* `pipeline`: the relations of the code never span more than one parent with one assist request,
  except through the key (blocks, slots) and the accounts (balances), which `contention` exercises
  with two requests. Two tasks are enough for a right and a wrong one. `MaxRevision = 1` disables
  `Refresh` there, because `contention` covers it; the grant of 4 lets both holds of 2 in, and the video's
  receipt of 3 is beyond its hold.
* `contention`: one slot and two requests are the smallest limit case; `MaxTick = 1` gives equal
  and different creation times, and both orders of the ids; the user's 3 credits cannot cover two
  holds of 2, so both the key's and the user's balance decide.
* `recovery`: chains meet only in the accounts and the key's slots, which the instances of `BudgetBilling` cover; one
  chain has every owner, lane and bridge interleaving. `MaxTick = 0` leaves out the start-up sweep and expiry, which
  `chat_recovery` has with `MaxTick = 1`. One crash loses every in-memory state once, at any point; the second one
  of `chat_recovery` also hits the recovery from the first.
* `job_leases`: calls meet only in an account's slots and in the sweep, which takes all expired leases together; one slot
  and two calls are the smallest contention, and the two kinds of call are there. Three ticks let a lease
  expire after a heartbeat and its window pass. Lifetimes of 1 and 2 let each kind of heartbeat be shorter or longer than
  the other and than the grant.
* `controlled`, `quoted`: requests meet in their key only (its credits, its open operation, its slots, its block); a Seedance request
  has every kind of step and thread a video has, and a text beside it is the other request. One contradiction and one
  restart happen at any point. With contradiction and restart together the second instance has 4.3 million states and
  takes four minutes; it was checked once that way, and each is in one of the two runs.
* `controlled_settles`, `quoted_settles` leave out the client and the grant, which no liveness may depend on.
  The windows of the queries never bind: `RecoveryLimit = 3` is one that requests which never settle cannot fill (the
  mutant narrows it), and the limit of 100 on the steps `recoverable_controlled_steps` returns is not modelled. So
  `CostsSettle` and `QuotedSettles` speak of fewer open steps and requests than the queries return; with as many that
  never settle the rest is never asked about, which no property catches.
* `key_quota`: `MaxGiven` bounds what is given to the user, `MaxVersions` the versions of all accounts. Two holds let one be adopted
  while another is on the pool, and give a pass two batches. A third hold takes the run beyond five minutes.
* `MaxTick` and `MaxTime` bound the clock, `MaxRevision` the authorizations of one step; `Lifetimes = {1}`
  makes an authorization made at 0 expire at 1.

**Findings.** (`helper_never_sent`) A helper step that was admitted and never sent is released on the bridge's no-send receipt. The
receipt lane ends a parent only with the parent's own step, and the execution lane, which ends a parent with its
helper, only looks at dispatched steps. If the owner is gone (a crash, a time-out) the operation stays active with
every step ended, and keeps its slot; the documents say the recovery index finds exactly this state. `SlotFreed`
excludes it (a helper never sent is not `Decided`).

(`lost_video`) A controlled Seedance request that reached the bridge and whose answer was lost gets a job without a task
name. While it is held, the recovery lane passes over every step of a request with a job, the video's own step among them; and the job's
walk asks with the call for quoted requests, which fails without a quote. Nothing else looks at the operation, which keeps all its
key had, though the acceptance design says that operations that were submitted, or may have been, resume querying.

Three more definitions state what the code does not give and have no run of their own. Each is seen violated by naming it
in a configuration in place of the properties there:

* `EveryGroupAccepted` of `BudgetBilling` (an invariant, with `MCBudgetPipeline.cfg`): `bind_budget_video_task` accepts a task for a step that was
  charged zero by a `failed_no_charge` receipt while it runs, and the integrity check then rejects the group as
  `v2_video_settlement_task_mismatch`. In the other order the receipt path recognises the contradiction. `LedgerAccepted` excludes
  exactly these states (`TaskAfterNoCharge`).
* `PreparationsSettle` of `BudgetRecovery` (a temporal property, with `MCBudgetRecovery.cfg`): if the process dies between the insertion of the
  helper request and its admission, the preparation stays open; `recover_abandoned_budget_preparations_before`, which
  would settle it, has no caller in the router.
* `ClaimCovered` of `JobLeases` (an invariant, with `MCJobLeases.cfg`): a running claim is always covered by its lease. A job renewed
  for 2 and its lease for 1 afterwards violate it. Where no caller gives a lease less than grants and heartbeats of jobs
  give (`LeaseTtls = {2, 3}` there), it holds: 131,728 states, and `ClaimAlwaysCovered` below.

Every property has a mutant in `PROJECT.json`: an operator, defined just before the definition
it replaces and commented "A slip in ...", that breaks the property as a plausible bug would.

**Fairness.** `Spec` of `BudgetBilling` has none: Core is a library and starts nothing by itself, so only safety can be
said of it alone. `RecoverySpec` assumes weak fairness of each worker's turn on its step and of the feed: their loops tick
every two seconds, each lane awaits its own worker, a failed turn is tried again at the next tick, and both are started
again with the process. Nothing is assumed of owners, of the bridge or of clients; the crashes are bounded. `FairSpec` of `ControlledBilling` and
of `QuotedBilling` assumes of the reconciler that it comes round to every open request and job again and again (it ticks every
15 seconds and starts again with the process) and finishes a turn it began; and of the bridge that it ends what it took and is
reached again and again (strong fairness of the turns it answers: an unreachable bridge fails a turn, and the next one tries
again). Nothing is assumed of handlers and clients, which may stop anywhere. `KeyQuota` has no fairness: nothing in it must happen. `Spec` of `JobLeases` has none: nothing in
the repository but its tests calls the sweep, and no worker's loop is in it, so nothing must happen.

## What is proved

Every invariant and every action property that a passing run checks is proved for all values of the constants of its
module: any number of requests, keys, users, accounts, workers, clients and crashes, any amounts, limits and receipts.
A run shows the property, and its inductive invariant was checked with TLC, before it was proved. The assumptions are
those named in the modules: who is whom (`IdentityAssumption`, `QuotaIdentities` and the like: finite, distinct sets,
related as functions), which numbers are natural (`AmountAssumption` and the like: what the code checks before it
opens the transaction, and that `NULL` is no number), the shape of receipts (`ReceiptAssumption`: what
`apply_budget_receipt` demands first, and that `NULL` is no receipt and no hash). TLC evaluates all of them on each
run.

### Budget V2: `BudgetBillingProofs`, `BudgetLedgerProofs`

| Theorem | Statement |
|---|---|
| `TypeCorrect` | `Spec => []TypeOK` |
| `PreparationCorrect` | `Spec => []PreparationSettledOnce` |
| `EndsCorrect` | `Spec => []EndsTogether` |
| `HoldCorrect` | `Spec => HoldKept`, that is, `BudgetBilling` implements `BudgetHold` |
| `LedgerCorrect` | `Spec => []LedgerAccepted` (every group but those of `TaskAfterNoCharge`, which the check does refuse) |
| `ConflictsFreeze` | `Spec => ConflictFreezes` |
| `Conserved` | `Spec => []Conservation` |
| `PromisesBacked` | `Spec => []PromisesCovered` |
| `SlotsBounded` | `Spec => []ConcurrencyBound` |
| `FirstIsAdmitted` | `Spec => []HeadOfLineAdmitted` |

`TypeOK` is inductive. Neither `PreparationSettledOnce` nor `EndsTogether` nor the refinement is inductive from it:
they need `RowsTogether`, that a step and its reservation are inserted together and that nothing is sent before (a
step without a reservation could be dispatched and never charged). `RowsTogether` is inductive relative to `TypeOK`;
the other three are inductive relative to both.

`LedgerAccepted` is not inductive: it says nothing of a request before its reservation, nor of an excused group (a
task after a zero charge). `Groups` says for each request, excused or not, what its rows are: nothing before the
reservation, afterwards its amounts (`Amounts`), the pairs of states, the ledger rows of each revision and of the end
(`RowsKept`), what the settlement stands for (`SettledBy`), and which evidence there is (`EvidenceKept`,
`ConflictKept`). A step changes one group and appends at most one row (`Posted`), so the proof is one case for each
kind of step and none for the other requests (`SameRows`).

`Conservation` and `PromisesCovered` are sums over requests of sums over rows. `Balanced` takes the inner sum away:
the rows of a request on an account sum up to minus what it holds there or was charged. From it `Conservation` is a
sum of terms that cancel one by one. `Backed` is the promise: what every request claims of an account, its hold or its
charge within the hold, fits in the grant. It is inductive because a reservation or a raise is compared with
`Available`, which is the grant minus holds and charges, and no charge is negative: what is claimed is no more than
what was taken (`ClaimedType`).

`ConcurrencyBound` is inductive; its step is a fact on cardinalities, that the set of active operations grows only in
`BeginOperation`, by one, and under the limit. `HeadOfLineAdmitted` needs `Admitted` (a request past its receipt has
its operation, so only received requests wait) and that among finitely many waiting requests one arrived first
(`FirstArrival`): nothing that counts is before it.

### Sums: `SumTheorems`

A sum over a finite set is a fold, that is, a recursive definition over its subsets in the order `CHOOSE` takes them.
The library's induction theorems take an operator as a parameter and cannot be used; `SubsetInduction` is proved from
the minimum of a well-founded relation instead, with the induction hypothesis as a *set of subsets*. `SumOver` takes
its terms as a function, not an operator, for the same reason: so the laws can be cited. `SumRec` gives the recursion,
`RecAnyOrder` that the order does not matter, the rest what the books need: adding, changing, comparing and splitting.

### The router: `BudgetRecoveryProofs`

With `RecoveryAssumption` (workers, feed and bridge are what the constants say, and a no-send receipt is one every
step can be given):

| Theorem | Statement |
|---|---|
| `RouterImplementsStore` | `RecoverySpec => Spec`: all theorems above hold of the router |
| `RecoveryTypeCorrect` | `RecoverySpec => []RecoveryTypeOK` |
| `ReturnedCorrect` | `RecoverySpec => []ReturnedWasWithdrawn` |
| `SentCorrect` | `RecoverySpec => []SentWasPromised` |
| `CursorCorrect` | `RecoverySpec => []CursorNeverSkipsBills` |
| `ClosedCorrect` | `RecoverySpec => []ClosedMeansQuiet` |

The invariant behind them, `Shape`, is about what is not in the store: where the owners are, and what the lanes are
about to ask on the strength of an old read. Its core is `CallsFor(r)`: a lane holds a release or a zero bill for `r`
only if the bridge has withdrawn `r`, ends a step only if the bridge has said its last word, and ends a parent well
only if that was the word. What ended stays as it ended (`EndedStays`), so the call stays true however late it is
made, and after whatever was read before it.

* `SentCorrect` needs in addition `MarkedFirst`: a task about to send has marked its step. A mark is never taken back,
  so a crash between mark and send loses a call, and never makes one nobody answers for.
* `CursorCorrect` needs `FeedPlanned`: while the feed has calls to make, either its event is in the store already and
  only the advance is left, or the very call that brings it is still there. Evidence is never deleted, so what was
  passed stays passed. A bill of an event about a step that does not exist would be skipped; `EventsSent` (only what
  was sent is billed) and `MarkedFirst` exclude it.
* `ClosedCorrect` needs `EndedAsTold` (a step ends only as the bridge told), `Chosen` (a task works on a video, and a
  chain has a video step, only after its helper decided for one) and `ClosedRight` (what closed an operation well is
  what the property says). Without `Chosen` the owner that takes a helper's text could close a chain whose video is on
  its way; a helper is one to a video (`IdentityAssumption`) and decides once.

### Leases and jobs: `JobLeasesProofs`

| Theorem | Statement |
|---|---|
| `LeaseTypes` | `Spec => []TypeOK` |
| `RowsAlwaysAgree` | `Spec => []RowsAgree` |
| `CreditsAlwaysFollow` | `Spec => []CreditsFollowOutcome` |
| `ClaimsUncoveredByOwner` | `Spec => OnlyLeaseHeartbeatUncovers` |
| `ClaimAlwaysCovered` | `ASSUME LeaseHeartbeatsLast PROVE Spec => []ClaimCovered` |
| `SlotsAlwaysBounded` | `Spec => []SlotsBounded` |
| `OutcomesAreFinal` | `Spec => OutcomeIsFinal` |
| `JobsStartOnce` | `Spec => StartedOnce` |

The properties are not inductive, as they say nothing of, say, a request that is `cancel_requested` under a job that
is still queued. The inductive invariant `Inv` lists the stages a call goes through with its rows in each (`Stage`)
and who may own it (`Owned`). How the times of a call relate (`Times`) is no part of it, as it depends on the callers:
`Times` is inductive relative to `Inv` under `LeaseHeartbeatsLast`, that every heartbeat of a lease gives at least what
any grant or heartbeat of a job gives. The code does not demand that, so what holds without it is proved separately: each
action either sets claim and lease together, or touches neither expiry, or ends the claim (`KeepsCover`). Almost every step changes one call, so `OneCall` leaves
one proof per action: what it makes of that call. `SlotsBounded` rests on two lemmas: a step that keeps the leases
takes no slot (`KeptSlots`), a new lease takes a free one (`GrantedSlot`).

### Quota accounts: `KeyQuotaProofs`

| Theorem | Statement |
|---|---|
| `Types` | `Spec => []TypeOK` |
| `Books` | `Spec => []QuotaBooks` |
| `PoolBacking` | `Spec => []PoolBacksKeys` |
| `PassComplete` | `Spec => SweepComplete` |

The invariant `Inv` has three parts. `Shape`: accounts appear empty and with a version, a group has rows on accounts
that exist, at versions they have had, the line has every hold once. `Money`: the books are even on each account by
itself (`Even`: what a user or key has is what was given, moved and taken), keys are overdrawn by receipts only
(`Solvent`), and `Backing`, which is what makes `PoolBacksKeys` provable: what the active keys have *free* is covered
by what the pool has free and by what receipts took from it in excess for keys that are not active any more. Holds
drop out, as they are on both accounts alike; the property, which has holds and every excess on its two sides, follows
by splitting its sums by key (`SumFibres`). `Sweeping`: of the groups that were beyond repair when the pass began,
those behind it have marked accounts; it needs that what is beyond repair stays so (`Kept`) and that new holds do not
reorder the line (`Orderly`).

### Controlled and quoted billing: `ControlledBillingProofs`, `QuotedBillingProofs`

| Theorem | Statement |
|---|---|
| `Types`, `Ledger`, `Charged` (controlled) | `Spec => []TypeOK`, `[]Books`, `[]ClosedCoversSent` |
| `OneOpen`, `ChainOpen` | `Spec => []OneOpenPerKey`, `[]LiveChainOpen` |
| `FrozenStays` | `Spec => FrozenKeysStartNothing` |
| `Types`, `Ledger` (quoted) | `Spec => []TypeOK`, `[]QuotedBooks` |
| `Together`, `Covered` | `Spec => []ClosedTogether`, `[]ArrivedIsCovered` |

Here the threads are the difficulty: each stands somewhere in a handler with what it read before, and others settle
meanwhile. Both invariants relate a handler's place to the rows it relies on (`Places`, `HandlerPlace`, `HelperPlace`:
before the send nothing is sent, a helper is marked before its parent, and so on), and both proofs first bring the
actions to the few things that can happen to the rows (`StoreStep`, `MoneyStep`), then prove the store's part for
those and the threads' part action by action; what one thread does to the rows of a request that another handles is a
lemma (`Untouched`, `Undisturbed`). What a settlement charges is a sum over its steps with a receipt, which is the sum
over all of them once nothing is pending (`NothingPending`).

### What stays with TLC

Liveness under fairness (`BillsLand`, `SlotFreed`, `FeedCatchesUp`, `CostsSettle`, `QuotedSettles`), and with it
`ENABLED`: the prover cannot establish it. The two violated claims are counterexamples and have nothing to prove.

## What is not modelled

| Part | Why |
|---|---|
| Work contexts (`work_execution`), back-off of continuations, delivery to clients | planned, the last is I/O |
| Snapshots of upstream credits | only the total a fresh one shows matters to an allocation (`UpstreamTotals`) |
| The turns of the queue | in `JobLeases` (`NextUser`), without a property: its order is by the oldest job, and the name of the test in `tests/jobs.rs:160`, which says round robin, is not what the query does |
| Account health and cool-down, changes of an account's slots | in `JobLeases` accounts become usable and unusable at any time; the cool-down never ends by time alone |
| Video works, reference uploads | one-transaction state machines with few interleavings; next in the plan |
| Implicit idempotency keys | a derivation of data; repeated requests are modelled where they are told apart |
| Sessions, vault, key registry | state that no modelled component reads |
| HTTP routes, SSE, planner prompts, media | input/output and wording over the modelled operations |
| Schema migrations, imported legacy evidence | one-shot SQL; the columns' CHECK constraints are the types of the model |
| Configuration, errors, wiring | no state |
| Usage trends, cost reports | read-only reporting |

## The plan

1. **Budget V2 of Core** (done): `BudgetHold`, `BudgetBilling`, two instances, theorems for all safety properties.
2. **`BudgetRecovery`** (done): router, bridge, lanes and crashes, with its refinement of `BudgetBilling` and theorems for all
   safety properties.
3. **`KeyQuota`** (done): the accounts, the pool, the pass, with theorems for all properties.
4. **`JobLeases`** (done): leases, queue, claims, cancellation, settlement, the sweep, with theorems for all properties.
   Left here: account health (`UpstreamHealth`).
5. **`ControlledBilling`**, **`QuotedBilling`** (done): v1 billing with its threads, with theorems for all safety properties. Left
   here: the promise of one paid call (`BudgetHold`) under a mapping from their rows, with the proof that they implement it.
6. **`VideoWork`**, **`BudgetContinuation`**, **`ReferenceUpload`**: versions and publication, back-off and its bound, tickets.
7. Credit parsing as an operator checked against a reference definition.

Each module gets its own instance and run, stays free of recursive operators where theorems are planned,
and states its constants' assumptions by name.
