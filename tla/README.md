# FlowHub in TLA+

FlowHub keeps the product catalogue of a shop in step with its sales Channels
(WooCommerce, SnappShop, TapsiShop, Technolife, ...). Operators edit prices and
stock in a Workspace, review the changes, dry-run them and apply them to the
Channels; in the other direction FlowHub reads products and orders from the
Channels. It is a Python service (FastAPI, SQLAlchemy on PostgreSQL at READ
COMMITTED) with several request workers and several background runners over one
database.

These modules model the parts of it where several actors, crashes and slow
providers meet. Paths below are relative to `src/app/flowhub/`.

## 1. Inventory

For each component: what it keeps, what it does, who it meets, what is hard, and
what makes it correct. `PROJECT.json` says for each which modules model it and what
is left out.

**Apply execution** (`unified_workspace/services.py`, `write_pipeline/service.py`,
`unified_workspace/connectors.py`) - *partly modelled: from the durable job on*
State: `uw_apply_jobs` (status, fencing token, lease), `uw_apply_job_items`,
`uw_locks` (a `WorkspaceLock` per Listing), immutable `ProviderWriteAttempt` rows
with append-only events, the `ChannelCache` row of each Listing.
Operations: `apply_selected`, `reconcile_apply`, `recover_stale_applies` and the
replay of a request, `execute_workspace`.
Hard: a request holds no transaction while it awaits the limiter, a live read or
the provider; the provider may act on a request long after the client gave up; the
process may die between any two commits; recovery declares a session dead by its
heartbeat while it may still be alive.
Correct when: no write goes out twice, a write in flight is covered by its
Listing's lock, an unknown outcome keeps the lock, a finished job is settled, the
local cache shows what the provider has once the lock is gone, what is settled
stays settled.

**Drafts, Reviews, Dry Runs, manifests** (`unified_workspace/services.py`) -
*partly modelled*
State: Draft Revisions with an optimistic version, Review, selection version and
checksum, Dry Run evidence, manifest. Hard: the Draft row is never locked; the chain
of checksums is re-checked at several places under different locks, Dry Runs hold the
Review row across provider reads, a selection takes locks in the other order. Correct
when no edit is lost, and an Apply executes what the last Dry Run and the confirmed
selection contained.

**Order synchronization** (`orders/service.py`, `orders/runner.py`,
`channels/snappshop.py`) and **webhook ingestion** (`webhooks/service.py`) - *partly
modelled*
State: `channel_orders`, `channel_order_events`, `channel_inventory_effects`,
`channel_order_sync_checkpoints` (cursor and lease per channel), `webhook_receipts`
with the identities of their item requests.
Operations: `sync_snappshop_events`, `reconcile_recent_orders`,
`process_tapsishop_webhook_receipts`, lease acquire/heartbeat/release, the runner's
loop and its operation timeout; accept, process and replay of receipts.
Hard: a lease can expire while its holder awaits the provider, two runners then
process one page; cancellation strikes at any await; the cursor is the only memory
of what was read; a provider repeats item requests in other batches.
Correct when: the cursor never passes an unrecorded event, an event is durable
only together with its order and effects, only the lease holder commits, every
event arrives, every request is proposed once.

**Entity work queue** (`read_engine/entity_work.py`, `entity_work_runner.py`) -
*modelled*
State: `dl_channel_entity_work` rows (status, lease, attempts, superseded_at) and
the receipts linked to them. Operations: enqueue, claim with SKIP LOCKED, complete,
recover, flip receipts. Hard: completion is not fenced, superseding is checked on a
row read earlier, recovery and flipping are separate commits. Correct when no receipt
is left behind a terminal row and no event is closed with an observation older than
itself.

**Refresh jobs** (`data_layer/job_lifecycle.py`, `refresh_service.py`,
`read_engine/service.py`) - *partly modelled*
State: `dl_refresh_jobs` with leases. Correct when one refresh owns a channel, each
settles its own job, and none runs forever.

**Listing guard and cache refresh** (`unified_workspace/listing_guard.py`,
`services.py` refresh_channel_cache, `data_layer/product_service.py`,
`read_engine/service.py`) - *partly modelled*
State: `dl_product_cache`, `ChannelCache`. Competes with Apply for Listings.
Hard: rows read before the Listing is locked and written afterwards; pages that
arrive late; rows left out and then swept. Correct when the newest observation wins,
a product that exists is not marked as gone and a gone one is, and a refresh never
replaces a verified value by an older one.

**Source acquisition** (`source_acquisition/`) and **Source workspace**
(`source_workspace/`) - *partly modelled*
State: runs with a state machine, lease, cancellation; immutable observations; Source
rows with versions, Mapping and Sheet revisions, datasets, Workspaces. Correct when a
run has one outcome, an observation is a change, each revision was made from the one
before, a Workspace is made of what is current, and a retired Source is quiet.

**Pricing authority and pricing matrix** (`pricing_authority/`, `pricing_matrix/`) -
*partly modelled*: heads advanced by compare-and-swap with a chain of events each, and
a Workspace bound to both. Correct when no chain forks and what a check approves was
in force as a whole.

**Exchange rates** (`exchange_rates/`) - *partly modelled*: daily request budget,
refresh lock. Correct when requests never exceed the safe limit.

**Legacy Write Pipeline batch**, **rate limiter**, **product pricing evaluation and
formulas**, **channel connectors**, **authentication**, **runtime configuration, flags,
setup**, **connections, health, diagnostics, control plane**, **integration platform,
plugins, sources, backup, logging**, **previews and dashboard**, **A2** (`src/app/a2`,
the earlier generation of the pipeline), **API, frontend, CLI, installer,
migrations**: section 7.

How they meet: a Source feeds a Workspace, which builds a Review from snapshots and
the channel cache; a Dry Run reads the Channels live, the manifest binds both, Apply
turns it into a job and calls the Write Pipeline, which calls limiter, pricing
authority and connector. Cache refresh, mapping decisions and Apply compete for
Listings through the locks. Webhooks feed receipts, receipts feed entity work and
order sync; order sync proposes inventory effects. The order runner's ticks recover
refresh jobs.

## 2. What is modelled

| module | stands for |
| --- | --- |
| `Apply` | sessions serving `apply_selected` and `reconcile_apply`, recovery, locks, leases, attempts, the provider |
| `WriteOwnership` | what Apply promises: one write per Listing and job, by the owner only, hand-over only at rest |
| `ApplyProofs`, `ApplyOwnershipProofs` | theorems about `Apply`; that it implements `WriteOwnership` |
| `OrderLease` | the channel lease of order synchronization |
| `OrderSync` | runners polling and reconciling one SnappShop channel |
| `OrderLedger` | what OrderSync promises of the durable tables: those of one reader of the stream |
| `OrderSyncProofs` | theorems about `OrderSync`; that it implements `OrderLedger` |
| `OrderReceipts` | TapsiShop webhooks from the HTTP request to order and effects, over `OrderLease` |
| `WebhookReceipts` | receipt states, attempts, backoff, dead letters, replay |
| `EntityWork` | targeted reads of a product and their runners, over `WebhookReceipts` |
| `RefreshJobs` | jobs of product refreshes and their leases |
| `ProductCache` | scans, sweeps, targeted reads, the copy into ChannelCache, Apply as their rival |
| `WorkspaceDraft` | saving and restoring Draft Revisions |
| `WorkspaceReview` | selection, Dry Runs, manifests, the checks of an Apply around its claim |
| `AcquisitionRuns` | reads of a Source: Runs and Observations |
| `SourceLifecycle` | a Source, its revisions, settings, reads, Workspaces, archiving |
| `PricingDecision` | heads and logs of policy and authority, bindings |
| `ExchangeRates` | request budget and refresh lock |
| `SourceProofs` | theorems about `AcquisitionRuns` and `SourceLifecycle` |
| `RequestProofs` | theorems about `WorkspaceReview` and `OrderReceipts` |
| `RefreshProofs` | theorems about `RefreshJobs` |
| `ServicesProofs` | theorems about `PricingDecision`, `ExchangeRates`, `ProductCache`, `WorkspaceDraft` and all services of `MCServices` together |
| `EntityWorkProofs` | theorems about `EntityWork` and `WebhookReceipts` |

### Apply

An action is what a session does between two commits or awaits. The points of
`pc` are in the order of the code:

| point | the session is about to |
| --- | --- |
| `locking` | insert the `WorkspaceLock` rows (`_acquire_listing_locks`) |
| `claim` | get the Review row, re-check, set RUNNING under a fresh lease |
| `verify` | have finished the final live read and enter `execute_workspace` |
| `persist` | commit the attempts (DISPATCH_INTENT_RECORDED) |
| `limit` | take the next Channel through the limiter |
| `dispatch` | commit DISPATCHED, after pricing authority decided |
| `send`, `io` | call the connector, receive its answer |
| `record` | commit the outcome events of the Channel |
| `settle`, `finish`, `status` | check the lease, commit items and cache, commit the status |
| `r_claim` | claim the reconciliation of what `StartReconcile` has read |
| `r_verify` ... `r_finish` | the same for a reconciliation |

Shared variables are database columns (`jobStatus`, `fence`, `held`, `item`,
`lock`, `events`, `latest`, `cache`), the provider (`remote`, `wire`), and `sent`,
which counts sends and is read by properties only. Everything else belongs to a
session and disappears with it (`Leave`).

A write on `wire` can `Land` or be `Drop`ped at any later time, also after the
session that sent it died. `Crash` ends a session at any point with its
transaction rolled back. `Abort` is the `except` branch of `apply_selected`;
`Fenced` is the abort after a failed lease check.

*Takeover.* Recovery requires a heartbeat older than five minutes. That much time
only passes while each session at work on the job is dead or held up, and `Stall` says
where a session can be held up. `CheckedPoints` are those from which a session looks at
the lease again before it commits. At `UncheckedPoints` it does not: the claim
waits for the Review row, the DISPATCHED commit follows a plain read of the lease,
and so on. The run takes `Stall = CheckedPoints`; section 4 says
what TLC finds with one unchecked point more. The guarantees of `Apply`
hold under this condition, and it is a real one: nothing in the code enforces it.

*Reconciliation.* It looks at no heartbeat. `StartReconcile` reads the status of the job
and its uncertain items without a lock, `ClaimReconcile` claims the lease and marks
those items as `recovering`, whatever became of them in between, and `FinishReconcile`
writes the status of the job only where it differs from the one loaded with the check of
the lease. So two reconciliations of a job can be at work at once, or one beside a
session that is about to commit. `raced` is a history variable: the jobs that were claimed
when what the claimant had read no longer held, or while another session was at an
unchecked point. For those jobs the guarantees about items, status and caches do not
hold in the code (section 4), and the properties that state them say so. That writes go
out once, and under the lock of their job, holds for every job.

*Reported values.* A connector reports of a verified write the accepted price.
`RecordItems` copies what was reported to the ChannelCache, so that a verified write of
stock or status to WooCommerce leaves the cache as it was. `Reported` has the Listings
for which the cache gets all that was written; recovery, which takes the intended values,
serves every Listing. `Adrift` has the Listings whose Current may be behind: those that are
not reported, and those of a `raced` job. `WriteOwnership` keeps them apart, too
(`adrift`, `Drift`): it promises of them one owner and one write, not what is shown.

*Abstractions.* The unique `logical_operation_key` makes one job of an operation, so
that a job stands for its operation and a replayed request is a `Recover`. The fields of
a Listing move together. Lease, heartbeat and lock expiry are replaced by `Stall` and by
nondeterministic refusal (`LocksRefused`). PROVIDER_ACCEPTED, which is only ever written
together with an outcome, is left out. Recovery is one step. Channels are visited in any
order. Different jobs have different targets, so that `remote` and `cache` name the job
whose values they show. Edits made in a shop by others are not modelled. Authorization
before the job exists, drafts and audit rows are left out.

### OrderSync

A run holds an open transaction (`newEvents`, `newEffects`, `newStored`) which
`Commit` makes durable and `Rollback` drops. It awaits the provider at `fetch`,
`detail` (the order of an event it has just flushed) and `r_fetch`. `Heartbeat` and
`CommitPage` carry the lease predicate of `_update_active_lease`. An event that
another session has flushed makes a flush wait (`EventFree`, `OrderFree`); an insert
that loses is a `Fail`. `TimeOut` is `asyncio.wait_for` in the runner: the
cancellation passes the `except Exception` branch and reaches the `finally`, which
commits. `FetchPage` may deliver the last page without a cursor, after which the
stream starts over, as `_cursor_meta` allows.

A reconciled order has a status and no event. The status stands for an event type, so that
the listing of a cancelled order stages the effects of a cancellation under
`reconcile:<order>` (`listEffects`), whether or not its event has or will have staged them
too (section 4).

*Abstractions.* Events are numbered; a number is also the event's time. All modelled
events are purchases or cancellations (`Cancellation`), each with effects. The order
detail has only `created_at`, so that an event decides by its own time and a reconciled
order by a time before every event. SnappShop documents CONFIRMED and CANCELED as the
statuses of a listed order (`docs/reference/channel-api/snappshop-api-doc.md`), of which
only the second maps to an effect. `_hydrate_reconciliation_order` awaits a detail of each
listed order of Technolife only (`orders/service.py:470-488`), and is left out for
SnappShop. Reconciliation is one page. Taking the lease and reading the
checkpoint are one step.

`OrderLedger` is what a reader of the tables may rely on when no run is cancelled. It
has the durable columns of `OrderSync` and nothing else, no runner, no lease, no
transaction: `Take` records the next events of the stream with their effects and brings
the orders they are about up to date, all in one step, and moves the cursor behind them
or back to the start; `List` is reconciliation, with the orders it found cancelled. The
refinement mapping is the identity: what is abstracted is how the steps come about.

### OrderReceipts, WebhookReceipts, EntityWork

`OrderReceipts` is the TapsiShop path. `AcceptTapsishop` is the HTTP handler as one
step: payloads are batches of item requests, and the unique identities of those
requests decide whether a payload is new, known as a whole (answered with success) or
known in part (refused with 409). A run of a worker takes the lease of `OrderLease`,
lists the oldest receipts (`StartRun`), flushes the event of each and awaits the
provider (`VisitReceipt`), builds the order (`UpsertFromReceipt`) and commits under
the lease (`CommitReceipt`). `FailRun`, `TimeOutRun`, `CrashRun` and a stall past the
lease are the four ways it goes wrong; only `TimeOutRun` leaves the event row behind.
All payloads are about one order.

`WebhookReceipts` is the receipt row used by both kinds of processors; `EntityWork`
extends it with the work rows and the runner. `pc` follows `run_once`: recover, flip
what recovery has failed, link receipts to rows, claim, load, read the provider, store,
write the status, flip. `loaded` is what the runner's session remembers of its row,
which may be old: `complete_entity_work` decides by it. All receipts are about one
product, so that one row is active at a time, as the partial unique index demands; a
row number is used again once nobody refers to its row. `covered` is a history
variable: the receipts whose product was observed after they were accepted.

### RefreshJobs

Three kinds of runs create jobs: *full*, the WooCommerce cache refresh, which
supersedes a pending job; *resume*, the incremental manual read, which takes up a
resumable one; and *replace*, the marketplace synchronization. `StartCheck` and the
commit after it hold the rows of all open jobs (`runLocks`); `RecoverExpired` is the
runner's tick. Which products a page stores is `ProductCache`.

### ProductCache

Time is counted in scans, and `fetched` of a row is the number of scans that had
started when it was fetched. A page is requested and stored in two steps, so that it
can be late; the sweep takes the rows not fetched since the scan began. `displayed` is
the ChannelCache, `rows` what `refresh_channel_cache` has read of `dl_product_cache`
before it locks a Listing, `verified` what an Apply has read back. An Apply takes,
writes and gives back a Listing at any time.

### WorkspaceDraft and WorkspaceReview

`WorkspaceDraft`: an editor's request reads the Draft row without a lock, compares the
version, merges, inserts a revision, which waits for an uncommitted duplicate and
fails on a committed one, and commits. A revision is a number, the number it was built
on, a set of changes and a checksum.

`WorkspaceReview`: row locks are explicit (`reviewLock`, and `rowLocks` of Dry Run
rows), a request stops where the code's statement would wait, and `AbortDeadlock` is
PostgreSQL ending one of two that wait for each other. A ReviewSelection row is named by
its item, of which there is one at a time (`uq_uw_review_selection_item`); the row a commit
puts in the place of another is none of those a waiting DELETE has found (`Replaced`). The Review is `ready`
or `stale`, what it was made of is `fresh` or not, and `sourceCurrent` says whether the
Source is still the one it was made from; `ChangeEvidence`, `MoveSource` and
`InvalidateSourceReviews` happen at any time. An Apply re-checks freshness and selection
before its claim (`AuthorizeApply`), commits the claim (`ClaimApply`), which gives its row
locks away, and checks selection, Dry Run, Source and pricing bindings again
(`HoldDryRun`); the provider is read once more and the manifest made again
(`DispatchApply`). Both times the session reads the Review row, waits for its lock, and
goes on with the values it had read (`ReadForClaim`, `RereadReview`): the selection version
it compares is the one before the wait, while rows and Dry Run are those under the lock.
After the claim nothing but bindings and manifest is looked at of what makes a Review fresh,
and its status not at all, so that an Apply can dispatch from a Review that is stale
(section 4). The job from then on is `Apply`.

### AcquisitionRuns and SourceLifecycle

`AcquisitionRuns`: a request creates a Run or finds the one of its idempotency key;
the executor starts it under a lease nobody renews, captures, decides whether the file
has changed (a read without a lock) and commits. A file is a version number.

`SourceLifecycle`: almost every operation takes the Source row and compares the version
the user has seen (`shown`). What is read before that lock (`doing`) and what is stored
in a transaction of its own is a step of its own. The Source is a FlowHub Sheet or an
external workbook, chosen initially; one product key of it resolves to a Listing whose
Product others may change.

### PricingDecision and ExchangeRates

`PricingDecision`: two logs with a head each that moves by compare-and-swap, unit
revisions, and one Workspace whose binding is checked in three reads. `wasCurrent` is a
history variable: the binding held when the check under way began.

`ExchangeRates`: an operation reads the row, takes the lock, resets the counters of
another day, reserves by compare-and-swap (up to five times; the model lets any try be
the last), sends, and records. `spent` counts requests by the day that pays for them.
The lock lapses after five minutes whatever its holder does. `OutlivesMidnight` says
whether an operation that has lost its lock, or has not reserved yet, may still run
when the day changes; it is FALSE in the run (section 4).

### Compositions

`MCOrderRunner` puts `OrderSync` and `RefreshJobs` under one runner, `MCRequests` a
provider's webhooks beside users' requests, and `MCServices` seven services side by
side. The parts of each share no variables and do not wait for each other: which one is
at work is chosen initially and the others rest. That explores each of them completely
and their product not at all, which loses nothing since no step of one reads a variable
of another. Where components do interact, they are one module: receipts and work rows
(`EntityWork` over `WebhookReceipts`), receipts, lease and orders (`OrderReceipts` over
`OrderLease`), scans, copies and an Apply (`ProductCache`).

## 3. Runs

All passing runs are complete explorations.

| run | states | shows |
| --- | --- | --- |
| `apply` | 361,827 | two overlapping jobs with crashes, recovery and reconciliations, two of a job at a time: types, five state properties, `SettledItemIsFinal`, every request ends, the refinement `ImplementsOwnership` |
| `order_runner` | 456,087 | orders without the operation timeout: the refinement `ImplementsLedger`, `OnlyTheHolderCommits`, every event arrives; refresh jobs: one marketplace owner, each settles its own job, a running job ends |
| `entity_work` | 1,440,871 | two runners: a processed receipt is taken back by a replay only |
| `entity_work_one` | 273,266 | one runner: a processed receipt's product was observed after it; every receipt is settled |
| `requests` | 383,154 | webhooks: proposed once, acknowledged is processed; Workspace: one current Dry Run, dispatched as confirmed, every request ends |
| `services` | 1,028,227 | see below |

`services` asks of each of its seven services: acquisition - `RunEndsAsDecided`,
`ObservationsAreChanges`; Source - `RevisionsAreAChain`, `WorkspaceIsCurrent`,
`RetiredIsQuiet`; pricing - `LogsAreLinear`, `ApprovedWasCurrent`; cache -
`NewestIsKept`, `StoredIsKept`, `GoneIsMarked`; Draft - `NoEditIsLost`; rates -
`BudgetIsKept`; orders, with the operation timeout - `NothingSkipped`.

Six runs expect a violation (section 4).

**Bounds.** *apply*: two jobs that share one Listing are the smallest instance in which
locks matter; the first job has two Channels, so that one Channel can fail after the
other has written. Two sessions are one to be overtaken and one to overtake; recovery
needs no session. `MaxFence` is 2 for the job with two Channels, a first claim and a takeover,
and 3 for the other, whose first claim can be followed by two reconciliations. Of the two
Listings one is `Reported`. *Orders*: three events in pages of two give a full page, a
short page, two events of one order and one of another. `MaxFaults` is 2 in `services`,
so that a fault hits the recovery from a fault, and 1 in `order_runner`, whose liveness
needs an end of the faults. *Refresh jobs*: three marketplace runs, or two WooCommerce
runs and one fault. *entity_work*: two receipts, one of them without product id, two
runners, three row numbers, one fault; with one runner two rows and two faults. Two
attempts per row and per receipt (`MaxRuns`, `MaxTries`) are one that is retried and
one that is final; one replay. *requests*: a batch, a part of it, a batch that overlaps
it and an older payload; three deliveries, two faults; two users, two items, two
selections, two Dry Runs. *services*: two of every actor. Two Runs, two crashes or lost
leases and one change of the file; three Source versions, two Sheet revisions or
datasets, one remapping; two policy and four authority events (away from the matrix and
back), two units; one product with three versions, two scans and one targeted read, one
Apply (products meet only in the order of pages); two Draft Revisions of two Cells and
one change of the ChannelCache; a budget of two requests on two days.

**Symmetry** is used in `services` (actors of each service, and Cells), `entity_work`
and the `product_cache` runs, none of which has a liveness property. **Deadlock**
checking is off in the passing runs: the bounds stop the runs, and several of the systems may rest (nobody
asks for anything).

**Fairness.** *Apply*: weak fairness of each session's own steps: transactions end,
limiter and HTTP clients have timeouts. Nothing makes the operator call recovery or
reconciliation and nothing makes a request reach a provider, so no fairness is
assumed of them. *Orders*: weak fairness of each run's steps and of the expiry of
a dead run's lease; strong fairness of starting a poll, because a run lasts
seconds, the intervals are minutes and the runner tries the poll before the
reconciliation in every cycle (`orders/runner.py` `_run_channel`), so that a poll
that finds the lease free again and again takes it. *Receipts*: weak fairness of a run
to start, to go on, and of a dead run's lease to end. *Entity work*: weak fairness of
the runner's loop, of leases and of backoffs to elapse. *Refresh jobs*: weak fairness of
a run's steps and of leases; strong fairness of recovery, which waits for row locks that
PostgreSQL grants in turn. *Workspace*: strong fairness of a request's next statement,
for the same reason. *Acquisition*: weak fairness of executors, of leases, and of somebody
asking for the Source again.
Liveness of the form "whenever this holds, it ends" is stated as `[]<>` of its end,
which is equivalent where what ends may begin again, and cheaper to check.

## 4. Known divergences

Where the code contradicts a statement of the repository, a run shows it
(`PROJECT.json`, `findings`, quotes both):

| run | property | what the code does |
| --- | --- | --- |
| `order_sync_timeout` | `RecordedIsApplied` | a cancelled run commits an event row without its order and effects; the next run takes it for a duplicate |
| `product_cache_left` | `SeenIsKept` | a product the scan has read, but left out because an Apply owned it, is swept as gone |
| `product_cache_copied` | `VerifiedIsKept` | a refresh copies a row read before an Apply over what the Apply verified |
| `acquisition_lost` | `LostRunEnds` | a Run whose executor died keeps its Source until an application process starts |
| `receipts_proposed` | `ProcessedIsProposed` | a purchase is marked processed without a proposed quantity |
| `draft_refused` | `ConflictIsObsolete` | a save that comes back to the changes of an older revision is refused as obsolete, with expected version equal to actual |

Others are seen by changing one line of a configuration or property:

- **Apply, a claim after recovery; recovery before the DISPATCHED commit.** With `Stall
  <- StallClaim` or `Stall <- StallDispatch` in `MCApply.cfg`, `UncertainAttemptHoldsLock`
  fails: a job that recovery terminated while its session waited for the Review row is
  set RUNNING and dispatches without locks; and recovery can come between the lease
  check and the commit.
- **Apply, status of a finished job.** `FinishedStatusIsFinal` in `MCApply.cfg` fails: a
  session that lost its lease rewrites the status of the recovered job, because its fence
  comparison reads one object twice.
- **Apply, leftover locks.** `FinishedJobHoldsNoLock` fails: a reconciliation that ends
  PARTIALLY_APPLIED keeps the job's locks.
- **Apply, reconciliation refused.** `ReconciliationIsPossible` fails: an error after a
  dispatch leaves a job to be reconciled whose items are all `pending`, which
  reconciliation refuses.
- **Apply, two reconciliations of a job.** With `Job` for `Job \ raced` (or `\ raced'`),
  `UncertainAttemptHoldsLock`, `FinishedIsSettled` and `SettledItemIsFinal` fail, and so
  does `UnlockedCacheIsCurrent` with `Reported` for `Listing \ Adrift`: two requests read
  the job while it is RECONCILIATION_REQUIRED (`unified_workspace/services.py:3074-3090`),
  the first settles it and releases its locks, and the second claims it all the same
  (`:3109-3112`), sets the settled items to `recovering`, appends another outcome to their
  attempts, and may read a Listing back that another Apply has written since.
- **Apply, values that are not reported.** `UnlockedCacheIsCurrent` fails for a Listing that
  is not `Reported` (with `UNION {Scope[j] : j \in raced}` for `Adrift`):
  `_record_listing_success` (`unified_workspace/services.py:4673-4682`) copies only
  `accepted_price`, while `unified_workspace/connectors.py:229-253` and `:278-300` verify
  stock and status too. The item is applied and unlocked, and ChannelCache shows the stock or
  status of before until the next refresh.
- **Reconciled cancellations.** `CancelledOnce` in `MCOrderSync_timeout.cfg` with
  `TimeLimit = FALSE` fails: docs/evidence/architecture/ORDER_SYNCHRONIZATION.md:19 says
  "Replayed events do not create duplicate proposed quantity effects", and a cancelled order
  that is listed before its event was read is given back under `reconcile:<order>`
  (`orders/service.py:1097-1110`) and under its event again.
- **Dispatch from a stale Review.** `DispatchedWhileFresh` in `MCRequests.cfg` fails: the
  comment at `unified_workspace/services.py:2841-2844` says that taking the locks again
  "closes the commit-to-dispatch race without treating stale in-memory evidence as
  authority", and the status of the Review is not looked at again.
- **Dispatch under another selection version.** `DispatchedUnderItsVersion` in
  `MCRequests.cfg` fails: "Selection replacement or a newer Dry Run must either commit first
  (making this Apply stale) or wait" (`unified_workspace/services.py:2782-2785`), while the
  version that is compared was loaded before the wait. A selection of the same items that
  began before the Dry Run ended, and so invalidates none, commits during it unnoticed.
- **Refresh jobs of WooCommerce.** Without `work = "marketplace" =>`, `OneMarketplaceOwner`
  and `MarketplaceSettlesOwnJob` fail: the full refresh (`commerce/service.py:1942`) and
  the incremental read (`read_engine/service.py:316`) supersede, or take up, a pending
  job that another run is about to start.
- **A targeted read that is late.** Without `read' = read =>` in `NewestIsKept` it fails:
  the upsert of one product (`data_layer/product_service.py:63`) does not compare
  `provider_observed_at`.
- **Two entity work runners.** `ProcessedIsObserved` in `MCEntityWork.cfg` fails:
  completion does not compare `worker_id`, and superseding is read without a lock.
- **A confirmed selection that has not changed.** With `{i, j}` among the selections of
  `MCRequests`, `RefusedIfChanged` fails: the selection is narrowed to the manifest's
  operations before its checksum is compared (`unified_workspace/services.py:2798-2807`),
  so that a selection with an item that is already current at the provider is refused
  with "The confirmed selection changed after lock acquisition."
- **Settings of an archived Source.** `RetiredIsDisabled` in `SourceLifecycle` fails: the
  docstring at `source_workspace/service.py:3675` says the connector is retired in the
  same transaction, and settings that were open are saved, enabled, afterwards.
- **Operations that outlive midnight.** With `OutlivesMidnight = TRUE`, `BudgetIsKept`
  fails: `_reset_if_needed` (`exchange_rates/budget.py:60-66`) resets whenever the stored
  day differs from the operation's, and an operation of yesterday therefore throws away
  what today has reserved. It takes an operation that runs on over midnight
  after it has lost its lock, or before it has reserved.

Read in the code while modelling, and not shown by a property: `_invalidate_source_reviews`
(`source_workspace/service.py:4032-4041`) writes STALE over a job that was claimed since it
was read. An exchange-rate refresh with an old key can block the provider after the key was
changed, and a key rotated in the environment never clears the block. Usage of yesterday
saved after midnight can exhaust today's budget. The Draft is not checked again after an
Apply's claim. Nothing archives a Workspace, though `source_workspace/service.py:484-491`
tells the user to. A stale Sheet row, or a restore that loses a race, ends in a 500 where
others answer 409. A binding that is out of date is never replaced
(`pricing_matrix/service.py:540-555`). The pricing authority can move between the check
before a dispatch and the dispatch.

## 5. Proofs

The proofs hold for any sets of jobs, Listings, Channels, sessions, runners, orders,
payloads, products, administrators, editors and so on, and for any value of the bounds,
not only for the instances of section 3. Each rests on the assumptions its module
declares about its constants (`ApplyAssumption`, `OrderLeaseAssumption`, ...): every job
has at least one Listing, every Listing one Channel, every payload at least one item
request, the marker for "nobody" is nobody, bounds are naturals. TLC evaluates them in
every run. Whatever else a theorem assumes is in its row. That `UncertainAttemptHoldsLock`,
`FinishedIsSettled` and `SettledItemIsFinal` except jobs that were `raced`, and
`UnlockedCacheIsCurrent` and `WriteOwnership` what is `Adrift`, is part of their definitions.

| theorem | statement |
| --- | --- |
| `ApplyProofs!TypeCorrect` | `Spec => []TypeOK` |
| `ApplyProofs!SentOnce` | `Spec => []SentAtMostOnce` |
| `ApplyProofs!WritesAreLocked` | `Stall \subseteq CheckedPoints` gives `Spec => []LockCoversWrite` |
| `ApplyProofs!UnknownOutcomesAreLocked` | the same gives `Spec => []UncertainAttemptHoldsLock` |
| `ApplyProofs!FinishedJobsAreSettled` | the same gives `Spec => []FinishedIsSettled` |
| `ApplyProofs!SettledItemsStay` | the same gives `Spec => SettledItemIsFinal` |
| `ApplyOwnershipProofs!UnlockedCachesAreCurrent` | the same gives `Spec => []UnlockedCacheIsCurrent` |
| `ApplyOwnershipProofs!ApplyImplementsOwnership` | the same gives `Spec => ImplementsOwnership` |
| `OrderSyncProofs!TypeCorrect` | `Spec => []TypeOK` |
| `OrderSyncProofs!CursorBehindEvents` | `Spec => []NothingSkipped` |
| `OrderSyncProofs!EventsCommitWithOrders` | `~TimeLimit` gives `Spec => []RecordedIsApplied` |
| `OrderSyncProofs!HolderCommits` | `~TimeLimit` gives `Spec => OnlyTheHolderCommits` |
| `OrderSyncProofs!SyncImplementsLedger` | `~TimeLimit` gives `Spec => ImplementsLedger` |
| `OrderSyncProofs!TablesAreOfAPrefix` | `~TimeLimit` gives `Spec => []Ledger!TablesOfPrefix` |
| `RequestProofs!OnlyOneDryRunIsCurrent` | `ReviewSpec => []OneCurrentDryRun` |
| `RequestProofs!AppliesAreAsConfirmed` | `ReviewSpec => DispatchedAsConfirmed` |
| `RequestProofs!RequestsAreProposedOnce` | finitely many payloads give `ReceiptsSpec => []ProposedOnce` |
| `RequestProofs!RequestsTypeIsOK` | the same gives `RequestsSpec => []RequestsTypeOK` |
| `EntityWorkProofs!EntityTypeIsOK` | `Spec => []TypeOK` |
| `EntityWorkProofs!ProcessedReceiptsStay` | `Spec => ProcessedIsFinal` |
| `EntityWorkProofs!OneRunnerObserves` | one runner gives `Spec => []ProcessedIsObserved` |
| `RefreshProofs!JobsTypeIsOK` | `JobsSpec => []JobsTypeOK` |
| `RefreshProofs!OneOwnerPerChannel` | runs that replace the pending job, with crashes, and no lease that runs out while its run is at work, give `[]OneOwner` |
| `RefreshProofs!MarketplaceHasOneOwner` | `WorkSpec => []OneMarketplaceOwner` |
| `RefreshProofs!RunsSettleTheirOwnJob` | no full refresh gives `JobsSpec => [][SettlesOwn]_jobsVars` |
| `RefreshProofs!MarketplaceRunsSettleTheirOwnJob` | `WorkSpec => MarketplaceSettlesOwnJob` |
| `SourceProofs!ObservationsAreTheChanges` | `AcquisitionSpec => []ObservationsAreChanges` |
| `SourceProofs!RunsEndAsDecided` | `AcquisitionSpec => RunEndsAsDecided` |
| `SourceProofs!RetiredSourcesAreQuiet` | `LifecycleSpec => []RetiredIsQuiet` |
| `SourceProofs!RevisionsFormAChain` | `LifecycleSpec => []RevisionsAreAChain` |
| `SourceProofs!WorkspacesAreCurrent` | `LifecycleSpec => WorkspaceIsCurrent` |
| `ServicesProofs!PricingTypes` | `PricingSpec => []PricingTypeOK` |
| `ServicesProofs!LogsStayLinear` | `PricingSpec => []LogsAreLinear` |
| `ServicesProofs!ApprovalIsLinearizable` | `PricingSpec => ApprovedWasCurrent` |
| `ServicesProofs!RatesKeepBudget` | `~OutlivesMidnight` gives `RatesSpec => []BudgetIsKept` |
| `ServicesProofs!CacheTypeIsOK` | `CacheSpec => []CacheTypeOK` |
| `ServicesProofs!SettledProductsAreGone` | `CacheSpec => []GoneIsMarked` |
| `ServicesProofs!NewestObservationIsKept` | `CacheSpec => NewestIsKept` |
| `ServicesProofs!StoredProductsAreKept` | `CacheSpec => StoredIsKept` |
| `ServicesProofs!NoEditGetsLost` | `DraftSpec => []NoEditIsLost` |
| `ServicesProofs!ServicesTypesAreOK` | `ServicesSpec => []ServicesTypeOK` |

The assumptions that are not about bounds say where the code keeps its promise, and
section 4 names what happens elsewhere. `Stall \subseteq CheckedPoints`: recovery takes
a job over only from sessions that look at its lease again before they write.
`~TimeLimit`: no run is cancelled by the operation timeout. `~OutlivesMidnight`: no
operation of the rate provider runs on over midnight after it lost its lock or before it
reserved. One runner: `docker-compose.yml` has one `order-sync-runner` service, whose
process holds the only `ChannelEntityWorkRunner` (`orders/runner.py:531-553`); nothing
in the code keeps a second process from starting, and with two the claim fails (section
4). No lease that runs out while its run is at work: heartbeats of a run that is alive
come more often than leases end. No full refresh, and runs that replace: the kinds of
runs the marketplaces have (`channels/marketplace_product_sync.py`); the WooCommerce
kinds break both claims. Each is satisfiable: the runs of section 3 that check the
property satisfy it.

*Apply, types.* `TypeOK` is not inductive: `Finish` stores `ItemAfter` of a result,
which is an item status only if the Listing has a result. `LoopOK` says where each
Listing is in the loop over the Channels (it has a result, or is in the batch, or its
Channel is still to come); `TypeInv` is `TypeOK` with `LoopOK` of every session.

*Apply, one send.* `SentInv` adds three facts. `OneExecutor`: at most one session
executes a job, because the job row is created once and only its creator goes on to
execute it; recovery and reconciliation never do. `NotSentYet`: a session has not sent
the Listings it has yet to visit. From these, `SentAtMostOnce` is preserved by `Send`,
the only action that raises `sent`. No lease or lock is used, and no assumption about
`Stall`: the claim holds even where the lock invariants fail.

*Apply, locks.* None of the four lock properties is inductive; `LockInv` is, for any
`Stall` within the points that are followed by a check of the lease. Besides `SentInv`
it has a part for each job: events and newest event agree (`EvidenceOK`), the items are
settled together and agree with the evidence (`ItemsOK`), whatever is uncertain is
locked and its job is not over (`UncertainLocked`), and a request on its way is
uncertain (`WireOK`). And a part for each session: every claim of a job has its own
token, and whoever is at a point without a lease check still owns the job (`TokenOK`);
before the attempts nothing has been sent (`EarlyOK`); the owner of a running job holds
the locks of all its Listings (`OwnerOK`); its results, or those it read back, agree
with the evidence (`ResultsOK`, `ReadBackOK`). The heart of the step is recovery while
the first session is alive: the token moves on, so the parts for that session hold
vacuously from then on (`FencedFrame`), and all it can still do is answer its own
request, which the evidence allows for. `JobFrame`, `SessionFrame` and `ReconcilerFrame`
say which steps leave the parts of others alone. A job that was `raced` keeps less
(`RacedOK`): whoever executes it, if anybody still does, has lost its lease and can send
no more than what it has committed as DISPATCHED; and a write that can still take effect
has its lock and an uncertain item, so that no reconciliation finds everything applied.
`LockCoversWrite` needs that, and `RacedKeeps` and `RacedStep` show that it stays. The
assumption is needed: where a job is taken over at a point without a later check, the
properties fail (section 4).

*Apply, caches and ownership.* `CacheInv` puts four parts on top of `LockInv`: what the
provider has of a job is in the job's evidence (`RemoteOK`); a verified write whose item
is not settled yet is still what the provider has, under its job's lock (`VerifiedOK`);
the local Current lags only behind a write whose item is not settled (`CacheOK`); and
what a session was told of a Listing is what the provider has (`ToldOK`). A fifth
(`ScopeOK`) says that jobs lock and reach Listings of their scope only, so that a
`raced` job, of which the first four say nothing, concerns no Listing but those
`Adrift`. `UnlockedCacheIsCurrent` follows, since a job that is over has settled its
items. With `CacheInv` every step of `Apply` is a step of `WriteOwnership` or a stutter:
claims of locks map to `Take` (the locks are free, so nothing flies and the caches are
current), requests to `Send`, effects and rejections to `Land` and `Drop`, settling,
reconciling, recovering and releasing to `Settle`, a claim on what no longer holds to
`Drift`; all else maps to stutters. What a `raced` job does is shown separately
(`RacedOwnership`): its writes are owned as all others are, and what it shows is adrift.

*OrderSync, cursor.* `CursorInv` adds that everything up to the cursor a run started
from is recorded, and that every event up to its next cursor is recorded, flushed by
the run itself, or still to come in its page. It holds
with cancelled runs, which is why a cancelled run can leave a half-applied event but
never skip one.

*OrderSync, atomicity.* An event is durable only with its order and effects: the
invariant (`ApplyInv`) says it of the durable tables, of what each open transaction
adds to them, and that no two open transactions hold the same event or order. The only
step that commits in the middle of an event is the `finally` of a cancelled run, hence
the assumption `~TimeLimit`, and hence the violation in `order_sync_timeout`.
`HolderCommits` follows from the lease predicate of every committing step.

*OrderSync, the ledger.* A commit is a `Take` only if the page still starts at the
cursor and the transaction holds all of it. `ReaderInv` says so while a run polls: as
long as it holds the lease, nobody has moved the cursor it reads from; what it has left
of its page, what it has flushed and what was recorded before are together the `n`
events behind `from` (`Batch`); and a staged order row is that of an event it has
flushed, or of an issued order that no event has stored if the run is a reconciliation.
A run that has lost its lease keeps only the part that does not need it, and commits
nothing. With `ApplyInv` a `CommitPage` is then a `Take`, a `CommitReconcile` a `List`,
`Publish` is `Issue`, and every other step leaves the tables alone (`LedgerStep`).
`TablesOfPrefix` is an invariant of the ledger by itself: `Take` records exactly the
part of its events that is behind the prefix, and the last of them about an order is the
last of the whole prefix. The effects that listings have proposed are kept apart from
those of events: all that is said of them is that their orders have been cancelled, and
not that the event did not propose them too (section 4). It says more than
`RecordedIsApplied`: that no event is missing between two recorded ones, and that an
order row is never behind, nor ahead of, the events that are recorded.

*PricingDecision.* `LogInv` is the types, `LogsAreLinear` and `ReadIsHead`: what a request
has read of a head is the head itself as long as the version it read is the head's
version. Versions only grow, so a swap that succeeds was made from the head, and the
predecessor its event names is the end of the log. `ApprovalIsLinearizable` needs a second
invariant, `BindingInv`: units and versions only grow, so that what was out of date when
the check began (`~wasCurrent`) is still out of date when the last read finds it, and the
authority of the bound version, while it is the head's, is the one that was bound.

*ExchangeRates.* The budget is an inequality between two counts: what a day has been
charged plus the operations that have reserved and not sent yet (`Promised`) is at most
the stored count while the stored day is today (`CountOK`). A compare-and-swap raises the
count before the operation joins the pending ones. `TodayOK` says that whoever is at work
today has found today's counters, and `LateOK` that only the holder of the lock comes out
of yesterday, with its reservation made and nobody else past the lock.

*AcquisitionRuns.* Only the newest Run can be active (`RunsOK`) and a Run has one
executor once it was started (`ExecutionOK`), so that what an executor decided on the
latest Observation without a lock is still right when it completes under the lock, if it
still owns the Run (`DecisionOK`). `RunEndsAsDecided` follows from `RunsKept`, the frame
every step but a request satisfies.

*SourceLifecycle.* Mappings and bindings each cost a version of the Source
(`CountersOK`), so that a request that expects the current version has seen the current
Mapping (`ShownOK`); what was read under the Source row is unchanged at the commit
(`CommitOK`), which makes `WorkspaceIsCurrent` a consequence and the chains inductive.

*WorkspaceDraft and WorkspaceReview.* A row about to be committed was made from the
revision its editor has seen, and one commit at a time can be open (`EditsOK`), the unique
constraint refusing the rest. For Reviews, whoever is at a step of `Holding` holds the
Review row (`RequestsOK`), so that what an Apply verified after its last lock (`VerifyOK`)
is untouched when it dispatches; and a Dry Run that passes has superseded the others under
that row (`OneCurrent`).

*OrderReceipts.* Receipts share no item request (`Disjoint`), as the unique identities
enforce; a run that waits for the provider has staged the event alone (`OpenOK`), so that
a cancelled run proposes nothing; and proposals belong to requests of their own, processed
receipt (`ProposalsOK`). Two proposals for a request are then of the same receipt.
The lease is not needed for it. That receipts are finitely many is needed for the type.

*EntityWork.* The types carry that a runner between claim and completion has a row.
`ProcessedIsFinal` needs no more: processing skips what is processed. With one runner,
links of the row at hand do not change between its read and its completion, and were
delivered before the read (`HandsOK`), so that the read covers them (`CoverOK`). With two
runners `CoverOK` breaks, and so does the property (section 4).

*RefreshJobs.* Jobs are created in order (`InOrder`), so that there is a newest pending
one. For runs that replace the pending job, `Apart` says that two runs never work on one
job or decide at once, and that nobody has found the channel free while another reads
pages: the decision holds the row lock of the pending job from the check to the commit.

*ProductCache.* `SeenOK`: a product that a scan has stored was fetched since the scan
started, which is what its sweep spares; `GoneOK`: a product that was gone at the start
and has stayed away, also from answers on their way, has a row that was fetched before,
or none, until the sweep marks it.

*The services together.* `ServicesTypeOK` is proved with the invariants of the parts, since
types of some parts rest on them (a revision is numbered by the version, a Workspace is
made of Mapping revisions that exist); a step of the composition is, for each part, one of
its own or none.

Not within reach of the prover, and left to TLC: the liveness properties and the fairness
they use (`ReceiptsSettle`, `AcknowledgedIsProcessed`, `RequestEnds` and the like). Every
invariant and every action property of a passing run is a theorem.
The inductive invariants of `OrderReceipts` and `EntityWork`, among others, were checked by
TLC on the instances of section 3 before they were proved.

## 6. What is left

1. An abstract specification of the receipts' pipeline (accepted, observed or proposed
   once, settled) that both `OrderReceipts` and `EntityWork` refine.
2. What two entity work runners still guarantee: at most one active row per product, and
   what a late completion can do at worst.
3. The ChannelCache refresh over the locks of `Apply` itself, in place of the Apply that
   `ProductCache` contains; the Source's invalidation of Reviews together with the status
   of the job.
4. The rate limiter with a discrete clock.

## 7. Not modelled

Most of the repository's lines are data: API contracts, parsing, presentation, status
aggregation, diagnostics, and requests that change one row in one transaction. They have
neither a protocol nor an order of steps to check, so the share of lines the modules stand
for stays well below a third. In particular:

- *Legacy Write Pipeline batch*: one request, items one after the other, a status computed
  from results. What is concurrent or durable in the pipeline is `execute_workspace`, in
  `Apply`.
- *Rate limiter*: real-valued slots under one lock of one process; `Apply` sees admission
  that succeeds, waits or fails.
- *Evaluation of prices and formulas, snapshot building, comparison reports*: decimal
  arithmetic and data transformation over one request's data.
- *Channel connectors*: HTTP and protocol translation; late, lost and rejected writes,
  read-back and pages are the environment of `Apply`, `OrderSync` and `ProductCache`.
- *Authentication, users, runtime configuration, flags, setup, integration platform,
  plugins, backup, logging*: single-row requests, registries, archives.
- *Connections, health, diagnostics, control plane, previews, dashboard*: read-only
  aggregation; the circuit breaker counts inside one process.
- *A2*: an earlier generation kept beside the current one.
- *HTTP API, frontend, CLI, installer, migrations*: no protocol of their own.

Inside the modelled components, fields that no property tells apart move together, and
what authenticates or normalizes a request is left out; the comments of the modules and
`PROJECT.json` name these abstractions.

## 8. Reading the project

`X.tla` is a component, `MCX.tla` its instance for TLC, `MCX_*.cfg` one
configuration per question, `XProofs.tla` theorems about it or about the components
section 2 names. Definitions that begin with
"An error:" in their comment are not part of the model: they are the plausible bugs
that each property is known to catch (`mutants` in `PROJECT.json`).
