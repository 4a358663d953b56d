# Verification of build.one.api: what happens between the books and QuickBooks and Box

build.one.api is a FastAPI service over SQL Server.  Most of its tables are plain
create/read/update/delete over stored procedures.  The part that is hard to get right is the
traffic with systems that are not its own: a completed bill must exist, once, in QuickBooks Online
(QBO); what QBO's users change must come back; the coding of a purchase must be written over nobody's
work; and documents and draw requests must reach Box folders and a workbook that people edit at
the same time.  This project models those paths in TLA+, checks them with TLC on small instances
and proves their safety properties with TLAPS for every instance.

Contents: [the system](#the-system), [modules](#modules-and-the-code), [runs](#runs),
[bounds](#bounds), [fairness](#fairness), [proofs](#proofs), [findings](#findings),
[what is not modelled](#what-is-not-modelled), [plan](#plan).

## The system

### Components

Paths are relative to the repository root.  "Modelled" refers to this project.

| Component | State | Operations | What makes it correct | Modelled |
|---|---|---|---|---|
| Bill completion route and `complete_bill` (`entities/bill/api/router.py`, `entities/bill/business/service.py`) | `dbo.Bill.IsDraft`, the result cache | flip the draft, finalize lines, fan out, enqueue the push | a bill that is flipped is always owed its push by someone | `BillCompletion` |
| Completion jobs and watchdog (`entities/completion_job`) | `dbo.CompletionJob`: status, attempts, `ClaimedAt` | create or coalesce, claim stuck, mark success, mark failure | one run per bill at a time; a job that is over stays over; a dead run is re-driven | `BillCompletion` (bill path) |
| QBO outbox (`integrations/intuit/qbo/outbox`) | `[qbo].[Outbox]`: status, attempts, `NextRetryAt`, `ReadyAfter`, `StartedAt`, `RowVersion`, `RequestId` | enqueue with coalescing, claim, complete, fail, dead-letter, reclaim, replay | no edit lost; done means pushed; every row ends | `QboOutbox` |
| Drain worker (`outbox/business/worker.py`) | local variables of one tick | gate, lock, reclaim, claim, dispatch, mark | a live claim is never taken over | `QboOutbox` (kind `sync_bill_to_qbo`) |
| Application lock, retry, idempotency (`qbo/base`) | the applock and its session | acquire, release, resend | one tick drains; a resend carries the same key | `QboOutbox` |
| Bill push connector (`qbo/bill/connector`) | staging table `qbo.Bill`, `dbo.Bill.QboId` | read, POST, stage, stamp, attach | the link is stored last and never overwritten by a push | `QboOutbox` (push direction) |
| Dead-letter replay (`scripts/retry_qbo_outbox_dead_letters.py`) | none | reset a row to pending | a replay does not push a linked bill again | `QboOutbox` |
| API budget breaker (`qbo/base/budget.py`) | monthly counter | count, compare, refuse, fail open | the ceiling holds for every call that was counted | `QboRequest` |
| Token refresh (`qbo/auth`) | access and refresh token of a realm | refresh under a lock, by hand without it; authorise, revoke | one refresh per token, no stale token written, no false "re-authorise" | `QboRequest` |
| Bill identity, pull fast path (`qbo/base/identity_*.py`) | `dbo.Bill.QboId` | find, create, stamp | one bill per QBO identity | `QboPull` (bills; not the theft of an identity, not the drift report) |
| Coding suggestion: confirm and recode (`entities/coding_suggestion`, `worker.py`) | suggestion: status, revision, approval, record of what was written | confirm, submit, repoint, flag, recode | the last approval is what QBO ends with; nobody's edit is overwritten; the record is true | `PurchaseRecode` |
| Box outbox (`integrations/box`) and its fan-out (`shared/completion/box_fanout.py`) | `[box].[Outbox]`, file registry, freshness cache, the workbook in Box | enqueue with coalescing, drain, upload, edit the workbook, reclaim | done means filed; a line is in the sheet once; people's files and edits survive | `BoxOutbox` |
| MS and intelligence outboxes | a table each | as above | a claim is completed by the worker that holds it | planned |
| Workflow engine (`core/workflow`, `core/workflow_event`) | workflow rows and events | start, advance, finish | a workflow resumes where it stopped | planned |
| Review, lifecycle, terminal lock (`entities/review`, `shared/lifecycle`) | review chain, parent status | submit, approve, decline, complete | a completed parent is not edited | planned |
| QBO pulls, watermarks, delete reconciliation (`qbo/base/watermark.py`, `scripts/sync_qbo_bill.py`) | watermark and hold marker per entity, staging tables | fetch, stage, reconcile, project, hold or move on | every change is taken in or accounted for; deleted bills stay deleted | `QboPull` (bills) |
| SharePoint fan-out, email, contract labor and time, completion of invoices, expenses and credits, Ramp, agents, auth and RBAC, the remaining CRUD entities, scripts | see `PROJECT.json` | | | no |

### Interactions

```
request ──► POST /complete/bill ──► CompletionJob row ──► background task ─┐
                                          ▲                               ├─► complete_bill
watchdog (every 2 min) ── claims stuck ───┘───────────────────────────────┘      │ flip IsDraft
                                                                                 │ enqueue()
                                                                                 ▼
scheduler ticks ──► drain_once ──► applock ──► reclaim, claim ◄──── [qbo].[Outbox]
                                                   │
                     handler: read bill ─► POST (same RequestId) ─► stage ─► stamp QboId ─► attach
                                                   │
                          mark done / failed / dead_letter, fenced by RowVersion
```

```
operator / expense ──► confirm() ──► suggestion ──► [qbo].[Outbox] ──► recode handler ──► purchase in QBO
                         └── applock per suggestion ──┘                      ▲ accountants

scheduler ──► pull run: watermark ─► query ─► staging ─► reconcile ─► dbo.Bill ─► watermark
                                        ▲ QBO's users            ▲ pushes stamp

every call to QBO ──► token row (refresh under an applock) ──► monthly budget ──► send, 401, once more

completion ──► [box].[Outbox] ──► drain ──► Box folders (registry of our files)
                                    └─────► workbook (applock, Box lock, etag, freshness cache) ◄── people
```

Every arrow into a table is a stored procedure call in a connection and a transaction of its own.
Nothing spans two of them: not the flip and the enqueue, not the two reads and the insert of
`enqueue()`, not the POST and the stamp.  Processes may die, and be restarted, between any two.
What holds the system together is the applock `qbo_outbox_drain`, SQL Server's `ROWVERSION` as a
fence on the marks, the `RequestId` of a row as QBO's idempotency key, the filtered unique index on
processing jobs, the revision number of a suggestion, QBO's SyncToken and Box's etag, and the reclaims.

### Hard behaviours

`PROJECT.json` lists each hazard at its line.  In short:

* **Interleaving and atomicity**: two enqueues of one bill; an enqueue while the bill's row is being
  pushed; a reclaim while a worker lives; two requests to complete one bill; a run that outlives its
  claim; an approval during the drain of the one before; two calls that find one token expired; a pull
  between the POST and the stamp of a push.
* **Staleness**: a producer extends the debounce of a row that has been claimed since; a worker marks
  a row that was taken over; a repoint is computed from an old record; the workbook was saved
  after the download; a hold marker that should be gone.
* **Crashes**: after the POST and before the stamp; after the flip and before the enqueue; between the
  creation of a pulled bill and its identity; after Intuit issued a token and before it is stored.
* **Partial failure**: a mark that raises after a push that worked; an enqueue that is swallowed; a
  registry that cannot be written after an upload; a deletion that stops half way.
* **Unreliable delivery**: the answer of a POST, of a refresh, of an upload is lost.
* **Numbers**: two clocks and an overlap; a ceiling that is counted before it is compared.
* **Liveness**: a row that kills its worker every time; blocked writes; a record that fails for ever
  must not hold the watermark for ever; a token refused although it is fresh by date.

## Modules and the code

| Module | What it is |
|---|---|
| `DurableQueue` | abstract: what an outbox promises to whoever enqueues (submit, take, deliver, finish, return, revive) |
| `QboOutbox` | the outbox table, producers, drain ticks, the bill push, QBO, the lock, the operator |
| `MCQboOutbox` | symmetry for TLC |
| `QboOutboxProofs` | type correctness, `DoneIsLinked`, `LiveClaim`, `LinkedBillIsFinal`, `EditNotLost` |
| `QboOutboxRefinement` | `QboOutbox` implements `DurableQueue` |
| `BillCompletion` | the completion job, the runs of `complete_bill`, the watchdog |
| `MCBillCompletion` | symmetry for TLC |
| `BillCompletionProofs` | type correctness, `NoOverlap`, `FinishedJobIsFinal`, `FinalizedIsOwned` |
| `PurchaseRecode` | one coding suggestion: approvals, the recode drain, the purchase in QBO |
| `PurchaseRecodeProofs` | type correctness, `EnqueuedIsServed`, `RecordIsTrue`, `ApprovalIsWritten`, `HumanWorkSurvives` |
| `QboRequest` | one request to QBO: token, refresh, budget, send, 401, retries |
| `QboRequestProofs` | type correctness, `RefreshTokenKept`, `PermanentIsTrue`, `OneRefreshPerToken`, `CapHolds` |
| `QboPull` | the pull of bills, its watermark and its hold, against QBO's users and the push |
| `QboPullProofs` | type correctness, `ForcedIsEarned`, `NothingSlips`, `Buried` |
| `BoxOutbox` | the Box outbox: document uploads and edits of the shared workbook |
| `BoxOutboxProofs` | type correctness, `PersonsFileKept`, `LineOnce`, `CacheIsEarned`, `PersonsEditKept`, `DoneIsFiled` |
| `BoxOutboxRefinement` | the uploads of `BoxOutbox` implement `DurableQueue` |
| `MCPurchaseRecode`, `MCQboRequest`, `MCQboPull`, `MCBoxOutbox` | instances for TLC |

### QboOutbox

*State.*  `outbox` and `lastRow` are the table and its identity counter; `link`, `staged` and `qbo` are
`dbo.Bill.QboId`, the staging table and the bills QBO holds, each with the key it was created under;
`lock` is the applock's owner.  `pc`, `target`, `copy`, `gate` and `sends` are the local variables of
the actors.  `dirty` is a history variable: the bills committed since a handler last read them.

*Abstractions.*  A row's id stands for its `RequestId` (both are minted by the INSERT and never
change), and for the QBO id of the bill that was created under it.  Timestamps are reduced to whether
they have passed: `due` (`NextRetryAt`), `settled` (`ReadyAfter`), `stale` (`StartedAt` beyond the reclaim
threshold), each set by an action of the environment at any time after the code moved the timestamp.
`ROWVERSION` is reduced to `fresh`, the actors whose remembered version of a row is still the
current one: every UPDATE of a row removes all other actors that remember it.

| Actions | Code |
|---|---|
| `Commit`, `FindPending`, `ExtendDebounce`, `CheckDeadLetter`, `CreateRow` | the commit of the bill, then `QboOutboxService.enqueue` call by call |
| `ReadGate`, `AcquireLock`, `LockRefused`, `Reclaim`, `ReclaimFails`, `Claim`, `NothingToClaim`, `ReleaseLock` | `drain_once` and its procedures |
| `LoadBill`, `LoadFails`, `PostAccepted`, `PostAnswerLost`, `PostUnprocessed`, `PostRejected`, `WritesRefused`, `StageBill`, `StampBill`, `StoreFails`, `SyncAttachments` | the handler: `sync_to_qbo_bill` and `QboHttpClient` |
| `MarkDone`, `MarkParked`, `MarkRetryOrDead`, `MarkDead`, `MarkFails` | the four marks of the worker, each a no-op when the row version has moved on |
| `Replay` | the replay script |
| `ProducerCrash`, `WorkerCrash`, `LockSessionDrops`, `RetryDelayElapses`, `DebounceElapses`, `ClaimGrowsStale`, `BlockWrites`, `UnblockWrites` | faults, time and the write switch |

Three details that matter.  The payload is read when the handler runs, not when the row is
written, which is why coalescing into a *queued* row loses nothing and coalescing into a claimed one
would.  The write switch is read once per call and the budget before every send, so a resend may go
out while writes are blocked (`MaySend`).  A 401 is answered by one token refresh and a resend; in the
model that is a `PostUnprocessed`.

### BillCompletion

*State.*  `draft` (`IsDraft = 1`), `queued` (the outbox has a row for the bill), `job` and `lastJob` (the
table), and per run `pc`, `bill`, `mine` (the job it will mark) and `force` (started by the watchdog).
`orphans` is a history variable: the jobs whose last permitted run died before it could mark them.

| Actions | Code |
|---|---|
| `AskCompletion`, `CreateJob` | the route up to the response: the draft check, `CreateCompletionJob` with its unique index |
| `ClaimStuck` | `ClaimNextStuckCompletionJob` and the dispatch of the reclaim |
| `SkipCompleted`, `StartCompletion`, `EarlyReturn`, `RefuseCompletion`, `Finalize`, `EnqueuePush`, `EnqueueSwallowed`, `RecordResult`, `Raises` | `_run_complete_bill` and `complete_bill` |
| `MarkSuccess`, `MarkFailure` | the two marks, for a job that is still processing |
| `Stop`, `GrowStale` | the process dies; `reclaim_after_seconds` pass |

A job whose attempts are spent is claimed no more; if its last run dies, it stays processing, nothing fails it,
and the unique index keeps its bill from getting another.  `FinalizedIsOwned` counts such a job as an owner of
its bill only under the name of `orphans`, the one exception it makes.

`queued` is where the two models meet: `EnqueuePush` is the enqueue of `QboOutbox`, whose further life is
that module's subject.

### PurchaseRecode

*State.*  `purchase` is the purchase in QBO, its SyncToken, and who set each line last; a line carries an item,
the placeholder account, or neither (`Elsewhere`: another account, or it is deleted).  `replies` are the
answers QBO remembers by request id; `staging` and `local` its two local images: of a line the staging tables
have the label of an account and an item, and since an update that brings no label keeps the old one, a line that
got an item still looks uncategorised to the drain, while `ResolveExternally` asks for the item, too.  `sug` is
the `dbo.CodingSuggestion` row (status, `ConfirmationSeq`, source, approved code or targets, and the record of
what was written with the token of that write); `rows` the outbox rows of the recode; `lock` the applock of
the suggestion; `confirm` and `drain` the local variables of the two kinds of process.  `asked` is a history
variable: the revision for which the drain last looked up what to write, and the local coding it found.

| Actions | Code |
|---|---|
| `ConfirmByHand`; `CheckSubmit`, `ConfirmSubmit`; `Probe`, `ComputeRepoint` | the three ways to approve: the endpoint, the submission of an expense, the repoint on its completion |
| `RecordConfirmation`, `RecordWithOldToken` (the SyncToken could not be read, so the old one stays), `FindRow`, `InsertRow`, `MarkEnqueued` | `_confirm_under_lock` and `enqueue` |
| `ClaimRow`, `DrainLocks`, `DrainParks`, `DrainFindsLocked`, `ReadSuggestion`, `GetPurchase`, `PostUpdate`, `MarkSuggestion`, `DrainUnlocks`, `SettleRow`, `ReclaimRow` | `_handle_recode_purchase_line` and the worker around it |
| `FlagSuggestion`, `ResolveExternally`, `PullPurchase`, `CodeLocally`, `HumanEdit` | the procedures that take no lock, the pull, and people |
| `ConfirmCrash`, `DrainCrash`, `LockDrops`, `DrainReadFails`, `PostAnswerLost`, `PostFails`, `PostRefused`, `MarkSuggestionFails`, `BlockWrites`, `UnblockWrites` | faults and the kill switch |

The drain is one process: that a claimed row has one live worker is `LiveClaim` of `QboOutbox`.  A first
write is fenced on the token of the staging tables, a repoint on the token of our last write; that
difference decides whether a new record replaces the old one or extends it (`Record`).

### QboRequest

*State.*  `row` is `qbo.Auth`; `intuit` what Intuit accepts; `lock` the applock of the refresh; `call` the
local variables of each call; `meter` and `traffic` what was counted and what QBO served this month.
`serial` and `lost` are history variables: whether refreshes have met neither each other nor an authorisation,
and whether a last word of Intuit got lost.  A token's number is the order in which it was issued.

The OAuth callback takes no lock and looks at no call, so `Authorize` may happen at any moment, and its store
comes later.  If a refresh is under way then, the later of the two writes wins, and a call that has read the dead
token ends with "re-authorise" although a good one is stored: the code does not prevent it, `serial` is FALSE
from then on, and an authorisation that meets nothing sets it back.

| Actions | Code |
|---|---|
| `Resolve`, `AcquireLock`, `LockTimesOut`, `Reread`, `ReadRefreshToken`, `AskIntuit`, `InvalidGrant`, `StoreTokens`, `ReadBack` | `ensure_valid_token_classified` and the refresh |
| `Count`, `CountFails`, `Send` | `record_call_or_raise`, `_send_once`, the second send after a 401 |
| `RefreshByHand`, `Revoke`, `DeleteRow`, `Authorize`, `StoreAuthorization` | the routes of the integration page |
| `RefreshFails`, `StoreFails`, `SendFails`, `Crash`, `LockDrops`, `TokenAges`, `TokenRefused`, `MonthTurns` | faults and time |

### QboPull

*State.*  `doc` is QBO (revision, LastUpdatedTime, deleted); `wm` the `dbo.Sync` row; `staging`, `header` and
`linked` are `qbo.Bill`, `dbo.Bill` and its identity; `push` where the outbox is with a local bill; `run` the
local variables of the run.  The rest is history: `reported` and `silent`, the bills whose revision in QBO a run
let go, with a report (skipped, or forced past and written down as an issue) or with a line in the log only (its
lines never came, or the issue could not be written); `buried` and `partial`, what the reconciliation
deleted, and those of them whose staging row it could not delete; `streak`, since when runs have held without a
break.

A bill with an amount is projected only when its staged lines are there; `Defer` lets it go whether it is still
staged or not, for lines may be late or missing.  A bill in `Zero` has no amount and is projected either way.

| Actions | Code |
|---|---|
| `Open`, `Fetch`, `Stage`, `EndStage`, `Reconcile`, `EndReconcile` | `sync_qbo_bill`, `sync_from_qbo`, `_reconcile_deleted_bills` |
| `Pick`, `Defer`, `Hit`, `Miss`, `Stamp` | `sync_qbo_to_local` and `run_identity_fastpath_dbo_only` |
| `StartHold`, `Hold`, `Write` | `WatermarkRun.commit` |
| `PushPost`, `PushStore`, `PushStamp`, `PushFails` | the push of `QboOutbox`, reduced to what a pull can see of it |
| `Tick`, `EditInQbo`, `DeleteInQbo`, `Crash` | the clock, QBO's users, faults |

Time is a small number on the host's clock; QBO stamps its changes `Lag` behind it.

### BoxOutbox

*State.*  `rows` is `[box].[Outbox]`; `asked` an upload request between its search and its update; `files` what
each folder holds under each name and what the registry says of it; `sheet` the workbook: how often
each line is in it, its draw tags, how many edits of people it contains, its Box lock; `cache` the
freshness cache; `link` and `paper` the invoice lines and their tags in SharePoint; `drain` and `hold` the
two applocks; `work` what each worker is doing, with `current` for an etag that still holds.

| Actions | Code |
|---|---|
| `AskUpload`, `CoalesceUpload`, `AskInsert`, `AskStamp`, `AskClear`, `Relink` | `BoxOutboxService`, `box_fanout.py`, `InvoiceDrawDeltaService` |
| `Claim`, `Settle`, `Reclaim` | `drain_once`, `_process_inner` with its marks, `reclaim_stale_claims` |
| `Guard`, `Post`, `Conflict`, `Version`, `Register` | `push_blob_to_box` (its fetch of the blob may fail, too) and its recovery from a taken name |
| `Plan`, `Hold`, `Meta`, `Take`, `Edit`, `Put`, `Note`, `Unlock`, `Record` | `BoxExcelUpdateService` step by step |
| `Outage`, `Crash`, `LoseLocks`, `PersonFiles`, `PersonOpens`, `PersonSaves`, `LockEnds` | faults and people |

*What it promises.*  `ImplementsDurableQueue` maps an upload row to a ticket, the document it asks for to the
item, and the documents some folder holds under their name, registered, to `delivered`.  A workbook edit
promises less and is no ticket: its row is done when lines it names are missing from the sheet.

## Runs

State counts are those of TLC with the configuration as it stands.

| Run | Checks | States | Shows |
|---|---|---|---|
| `outbox_core` | `TypeOK`, `LiveClaim`, `EditNotLost`, `DoneIsLinked`, `LinkedBillIsFinal`, `ImplementsDurableQueue` | 299,513 | two bills, two producers, two ticks that die anywhere, resends, an operator's replay: no step takes a row from a live worker, an edit is always covered by a row whose handler has yet to read the bill, done means linked, a link is final, the outbox is a durable queue |
| `outbox_lock_drop` | `DoneIsLinked`, `ImplementsDurableQueue` | 443,318 | the lock's session closes under a live worker, producers crash, QBO refuses duplicate numbers: the row-version fence alone keeps the promises of the queue |
| `outbox_settles` | `RowSettles` | 149,266 | coalescing edits, ticks that crash or are refused the lock, blocked writes, an older row ahead of a younger one: every row is done or dead-lettered in the end |
| `completion_lease` | `TypeOK`, `NoOverlap`, `FinalizedIsOwned` | 301,206 | two bills, two requests, two watchdog ticks: no two runs of one bill, and no completed bill without a row, a job that is driven or a failed one, but for the jobs whose last permitted run died |
| `completion_driven` | `FinishedJobIsFinal`, `JobIsDrivenUntilSpent` | 80,609 | runs outlive their claim and enqueues fail: a job that is over never changes, whatever a late run marks, and a processing job is driven until it is over or its attempts are spent |
| `recode` | `TypeOK`, `RecordIsTrue`, `ApprovalIsWritten`, `EnqueuedIsServed`, `HumanWorkSurvives`, `ApprovalSettles` | 955,812 | two lines, every way to approve, two revisions, one fault or intervention anywhere: what is reported as written is what was approved last, be it by hand, with a submission or by a repoint, the record is true while QBO's token is ours, an accountant's line is never overwritten, an enqueued approval is served and gets its verdict |
| `qbo_request` | `TypeOK`, `RefreshTokenKept`, `CapHolds`, `PermanentIsTrue`, `OneRefreshPerToken`, `ServiceResumes` | 753,384 | two callers and an operator who may authorise at any moment, two troubles anywhere: while refreshes and authorisations do not meet, no refresh overwrites a later one, each token is refreshed once, "re-authorise" is said only when it is so; the ceiling holds, and calls succeed again once the refresh token is good |
| `pull` | `TypeOK`, `NothingSlips`, `Buried`, `ForcedIsEarned`, `BooksCatchUp` | 1,531,879 | a bill entered in QBO and one that is being pushed, an edit or a deletion, failing records, missing lines, a crash: a change behind the watermark is in the books, reported, or let go in one of two ways that leave a log only; a deleted bill comes back only from a staging row that could not be deleted, or without an amount; failures are forced past only after an unbroken hold, the books catch up |
| `box_outbox` | `TypeOK`, `LineOnce`, `CacheIsEarned`, `DoneIsFiled`, `PersonsEditKept`, `PersonsFileKept`, `ImplementsDurableQueue` | 989,614 | two workers that may lose their locks, an attachment asked for in two folders, a line that moves on and off an invoice, people in the folder and in the workbook: a line is there once, done means filed, nothing a person saved is undone, and the uploads are a durable queue |

Three more runs each expect a violation: `recode_replayed_key`, `pull_skip`, `box_documents`; see
[findings](#findings).

Some properties are stated for an assumption the code does not guarantee, named in the property or in a
constant: `LiveClaim` and `LinkedBillIsFinal` for a lock whose session outlives its worker
(`LockSessionMayDrop = FALSE`; `outbox_lock_drop` is the other side), `FinalizedIsOwned` for enqueues that
succeed and runs that end before their claim expires (`completion_driven` is the other side), the safety
properties of the tokens for as long as refreshes and authorisations do not meet (`serial`), `NothingSlips` for
clocks that differ by less than the overlap (`Lag < Overlap`), `RecordIsTrue` for a QBO that answers from memory only
the request it has seen (`RequestIdAlone = FALSE`; `recode_replayed_key` is the other side), `EditNotLost` for
producers that do not die between the save of a bill and its enqueue (`ProducerMayCrash = FALSE`, which is what
the completion job is there to repair), `DoneIsFiled` and the refinement of `BoxOutbox` for attachments with
names of their own (`NameOf` injective; `box_documents` is the other side).  `DoneIsLinked`, the refinement of
`QboOutbox` and the other properties of `BoxOutbox` need no such assumption.

Some name an exception, because the code has it.  `FinalizedIsOwned`: a job whose last permitted run died
(`orphans`; `dbo.completion_job.sql:125`).  `NothingSlips` and `BooksCatchUp`: a bill whose lines never came
(`sync_qbo_bill.py:341`) and a forced record whose issue could not be written (`watermark.py:388`), both in `silent`.
`Buried`: a bill whose staging row could not be deleted, which the same run makes again from the record it has
(`partial`; `qbo/bill/business/service.py:198`), and one without an amount (`Zero`).  What is checked and proved is that
there is no further one.

`QboOutbox` is checked for deadlock: a tick can always run.  The others are not
(`CHECK_DEADLOCK FALSE`): they rest when everything asked for is done, or when a bound is used up.

## Bounds

| Constant | Stands for | Values | Why enough |
|---|---|---|---|
| `MaxAttempts` | `worker.MAX_ATTEMPTS` = 5; `max_attempts` = 5 of jobs | 2; 2 or 3 | the first attempt, a retry and the ceiling are three different cases; further retries repeat the middle one |
| `MaxSend` | sends of one POST by `RetryPolicy.for_writes` | 1 or 2 | a resend that is answered and one that is not |
| `MaxEdit` | rows ever inserted | 1 or 2 | the second edit coalesces, or meets a claimed row, or a dead letter |
| `MaxBlock` | times writes become blocked | 0 or 1 | blocked before the gate, between gate and POST, between sends; fairness unblocks |
| `MaxReplay` | operator replays | 0 or 1 | a replay before and after another row pushed the bill |
| `MaxJob` | completion jobs ever inserted | 1, 2 or 3 | a job that ends and its successor, for two bills |
| `Bill`, `Producer`, `Worker`, `Request`, `Tick` | | 1 or 2 | claims, locks and fences are pairwise; two bills separate what is per row from what is per bill |
| `MaxRow`, `MaxRev` (recode) | outbox rows, recorded approvals | 3, 2 | a revision and the one that replaces it, before, during and after the drain of the first |
| `MaxTrouble` | faults, crashes, interventions by others, all together | 1 or 2 | one fault anywhere in every behaviour; the token needs two, e.g. an expiry and a lost answer |
| `MaxAttempts`, `Block` (request) | `RetryPolicy.max_attempts`; the block threshold | 2, 3 | first and last attempt; a ceiling that two callers can reach together |
| `MaxTime`, `Overlap`, `Lag`, `HoldBound` (pull) | the clock, `QBO_SYNC_WATERMARK_OVERLAP_SECONDS`, the skew, `QBO_WATERMARK_HOLD_BOUND_SECONDS` | 2, 2, 1, 1 | runs before, at and after the end of a hold; a change stamped before and after the watermark |
| `Zero` (pull) | bills with a total of zero | the bill entered in QBO | one bill of each kind; in TLC only the other one, the pushed one, can be deferred, in the proofs every bill with an amount |
| `MaxRow`, `MaxMove`, `MaxTouch`, `MaxTrouble` (Box) | rows, moves of a line, acts of people, faults | 2, 2, 1, 1; together at most 3 of the last three (`FewUpsets`, a constraint of the run) | two rows that compete for a file, a sheet or a line, and one lost lock, crash or answer; what the constraint leaves out is only all four upsets in one behaviour, and the theorems do not depend on it |

`MaxEdit` bounds the commits, hence the rows, so `CreateRow` is never blocked by the bound.  `MaxBlock`,
`MaxReplay` and `MaxJob` appear as guards of `BlockWrites`, `Replay` and `Insert`.  The other bounds
are conjuncts of the actions they name.  The proofs hold for every value of the constants of their modules.

## Fairness

*Outbox.*  The scheduler starts a tick every few seconds, for ever, so each tick action is weakly fair.
Acquiring the lock, reclaiming and claiming are strongly fair: another tick, or a crash, disables them
again and again, and what is assumed is that neither goes on for ever at exactly that place.  The handler is
only weakly fair: a row may kill its worker every time, and `RowSettles` says it is dead-lettered even then,
because the reclaim counts the attempt.  Producers are fair only in finishing the extension of a
debounce.  `outbox_settles` runs one worker, whose ticks `LockRefused` may turn away;
two workers under fairness exceed what TLC explores in minutes, so their contention is checked for safety only.  Time passes (the three `Elapses`/`GrowsStale` actions) and writes that are blocked are
unblocked, by an operator or by the next month's budget.  No fairness is assumed of success: every POST
may fail every time.

*Completion.*  The watchdog runs every two minutes, a run makes progress unless it stops, time passes.
`Stop` may strike every run.

*Recode.*  Requests and ticks go on; a drain that waits for the suggestion's lock gets it sooner or later
(strong fairness: confirmations are short and finitely many); blocked writes are unblocked.  `ApprovalSettles`
survives every fault because a row that is retried too often becomes a dead letter, which is a verdict
for a person.

*Requests.*  Threads are scheduled and months pass.  `ServiceResumes` is conditional: if from some moment the
row's refresh token is one Intuit accepts, calls succeed again and again.

*Pull.*  The scheduler keeps starting runs, a run goes on unless it crashes, time passes.  Of the push nothing is
asked: a bill whose push stays half done is one that a run reports.  Records fail only before `MaxTime`: `BooksCatchUp`
is about what happens once failures end, and says nothing of a record that fails for ever.

*Box* is checked for safety only; its queue ends as `QboOutbox`'s does.

## Proofs

`tlapm` checks every theorem, with no axiom beyond the named assumptions on the constants of each module
(`ConstantsAssumption`, `CompletionAssumption`, `BoxAssumption`), which TLC evaluates in every run of it.  They
say that sets of different things are disjoint and that bounds are numbers; the one with content is `Lag < Overlap`
of `QboPull`, which is what the overlap is for.  Every invariant and action property of a passing run is a
theorem.

| Module | Theorem | Says | Assumes |
|---|---|---|---|
| `QboOutboxProofs` | `TypeCorrect` | `Spec => []TypeOK` | |
| | `DoneRowsAreLinked` | `Spec => []DoneIsLinked` | |
| | `ClaimsAreLive` | `Spec => []LiveClaim` | `~ LockSessionMayDrop` |
| | `LinkedBillsAreFinal` | `Spec => LinkedBillIsFinal` | `~ LockSessionMayDrop` |
| | `EditsAreNotLost` | `Spec => []EditNotLost` | `~ ProducerMayCrash` |
| `QboOutboxRefinement` | `OutboxIsDurable` | `Spec => ImplementsDurableQueue` | |
| `BillCompletionProofs` | `CompletionTypeCorrect` | `Spec => []TypeOK` | |
| | `FinishedJobsAreFinal` | `Spec => FinishedJobIsFinal` | |
| | `RunsDoNotOverlap` | `Spec => []NoOverlap` | `~ RunMayOutliveClaim` |
| | `FinalizedBillsAreOwned` | `Spec => []FinalizedIsOwned` | `~ RunMayOutliveClaim`, `~ EnqueueMayFail` |
| `PurchaseRecodeProofs` | `RecodeTypeCorrect` | `Spec => []TypeOK` | |
| | `EnqueuedApprovalsAreServed` | `Spec => []EnqueuedIsServed` | |
| | `WrittenRecordIsTrue` | `Spec => []RecordIsTrue` | `~ RequestIdAlone` |
| | `WrittenMeansApproved` | `Spec => []ApprovalIsWritten` | `~ RequestIdAlone` |
| | `PeoplesWorkSurvives` | `Spec => HumanWorkSurvives` | `~ RequestIdAlone` |
| `QboRequestProofs` | `RequestTypeCorrect` | `Spec => []TypeOK` | |
| | `RefreshTokenIsKept` | `Spec => []RefreshTokenKept` | |
| | `PermanentMeansWorthless` | `Spec => PermanentIsTrue` | |
| | `OneCallRefreshes` | `Spec => OneRefreshPerToken` | |
| | `CapIsHeld` | `Spec => []CapHolds` | |
| `QboPullProofs` | `PullTypeCorrect` | `Spec => []TypeOK` | |
| | `ForcingIsEarned` | `Spec => ForcedIsEarned` | |
| | `NothingSlipsBehind` | `Spec => []NothingSlips` | |
| | `BuriedStaysBuried` | `Spec => []Buried` | |
| `BoxOutboxProofs` | `BoxTypeCorrect` | `Spec => []TypeOK` | |
| | `PersonsFilesSurvive` | `Spec => PersonsFileKept` | |
| | `LinesAreOnce` | `Spec => []LineOnce` | |
| | `CacheEntriesAreEarned` | `Spec => []CacheIsEarned` | |
| | `PersonsEditsSurvive` | `Spec => PersonsEditKept` | |
| | `DoneUploadsAreFiled` | `Spec => []DoneIsFiled` | `NamesOwn` |
| `BoxOutboxRefinement` | `UploadsAreDurable` | `Spec => ImplementsDurableQueue` | `NamesOwn` |

Each hypothesis holds in the run that checks the property and fails in another run, where the property does
not hold or is not claimed.

*Outbox.*  `IInv` has three layers.  `Shape` is the type invariant with two facts about the table: rows
exist exactly up to `lastRow`, and every actor remembers a row that exists.  `FreshKnows` says what a
row version that is still current tells its holder: a producer's row is queued, a worker's is in_progress.
It is inductive because every UPDATE of a status refreshes the version.  `BooksInv` follows a push: after
the POST the bill is in QBO under the row's key, after the staging the key is staged, after the stamp the
bill is linked.  `DoneIsLinked` is not inductive alone: `MarkDone` needs the last of these, and the stamp of
another row may replace the link, but only by one that is itself staged and in QBO.  `LockedInv` adds what
the lock gives while its session lives: the one tick past the lock owns it (`LockHeld`), its claim is fresh
(`LiveClaim`), and a bill that is about to be posted has no link (`PostsUnlinked`); `LinkedBillIsFinal`
follows, since only a POST or a stamp could violate it.  `EditInv` says that every bill edited since a handler
read it is `Covered`, by a row whose handler will still read it, or `OnTheWay`, its producer being before the
end of `enqueue`.  A producer is at the extension of a debounce only after it found a row; if that row
has been claimed since, its handler may have read already, but then it read after the commit, and the bill is
not dirty any more.

*Refinement.*  A row is a ticket, a bill is an item, a bill is delivered once it is linked.  A stamp is a
`Deliver`, also by a worker that has lost its row; a mark is a step only if its claim is live; the reclaim
returns a set of tickets, to the queue or to the operator, at once.  For Box, only uploads are tickets; a
document is delivered once a folder holds it, registered, under its name.  What is needed beyond the invariants
of `BoxOutboxProofs` is `TicketInv`: a row, a request under way for it and the worker on it agree on the
document, so that a retarget, which rewrites the row's payload, keeps the item of the ticket.  Workers that lost
the drain lock do not matter, because `Owns` fences the mark.

*Completion.*  `Lease` says that a running run holds its job, unexpired, and alone; with the unique index
(`OneActive`) that excludes two runs of one bill.  `Ownership` says that a bill is a draft, or `Served`
(queued, or shown by a failed job), or about to be enqueued, or has a job in flight, and that a run that is
about to report success leaves its bill served; `SpentAreKnown`, that a job without attempts left is in the hands of
a run or its last run has died.  The hard case is the run that skips a bill another run has
completed: under the lease it can only find it served.  Without the lease it cannot, which is the orphan that `FinalizedIsOwned` excludes by
assumption.

*Recode.*  `RowInv` is why coalescing is safe: the row of a tick is in progress, no call works for a revision
that was not recorded, and a revision that is reported as enqueued, or about to be, has a row that waits, a dead
letter, or a row whose tick will judge that revision.  `RecordInv` ties three clocks together, the revision of the suggestion, its
record with the token of that write, and QBO's SyncToken.  `TokenOrder` orders the tokens; `FenceOrder` says that
an approval carries the token its plan was made from; `SeenIsSug`, `SpecsOK`, `PostOK` and `MarkOK` follow
the tick, from what it read of the suggestion over what it will write and what QBO holds after the update to what the mark
will leave; what a first write was to put on each line is remembered in `asked`, for the coding of the lines may change
while the tick is under way; `SugOK` is the two properties themselves.  An update goes through only if the purchase
still has the token it was fetched with, or QBO answers the very same update again: here `~ RequestIdAlone` is
needed, for otherwise the answer may belong to an earlier body.

*Requests.*  `TokenInv` says what a call under the lock knows: it alone is there (`Serialised`), what it has read of
the row is still so (`ReadIsCurrent`), and the refresh token it was handed is Intuit's last (`ReplyIsCurrent`); tokens
are numbered as issued, and one that was refused is not accepted again (`TokensIssued`).  `AuthorisesAlone` says what
`serial` means for an authorisation: while its pair waits to be stored, nobody else is about to use or store a refresh
token.  `CapInv` counts the calls
between their meter and their send: served calls and those reserved together stay below `Block`, which is an
induction over a finite set of callers, of any size.

*Pull.*  `ClockInv`: QBO's stamps are `Lag` behind the clock, the watermark at least `Overlap` behind, the run still knows the
row it will write, and the hold marker is not older than the streak of holds.  `SlipInv` follows the revisions that
the watermark of this run will leave behind (`Due`): each has been fetched as the last one of its bill
(`DueIsFetched`, where `Lag < Overlap` is needed: a change made during the run is stamped after its mark), and is in
the books, noted as reported or let go, failed, or still in work (`DueIsServed`).  `BuriedInv` says that a bill which
still waits for its push cannot be buried, and that a buried one which has an amount and went with its staging row is
nowhere a run or a push could make it again from.

*Box.*  `Typed` says for each stage of a worker what its local variables hold, and that a row that is open has
attempts left.  `FolderInv`: a registered file has content of ours, and a worker about to write a version or to register found such
a file.  `BookInv` is about the workbook and the bytes a worker is about to put: if its etag still holds, they
contain every edit people saved and every line that is there, each line once; if it does not, Box refuses them.
`FiledInv`: what a worker has written, or found done, is filed, and a worker that owns its row works on
the job the row asks for.  The last part fails for a row that is retargeted while it is claimed, which is why
`Claim` makes a request under way stale.

*Only model-checked.*  The liveness properties `RowSettles`, `JobIsDrivenUntilSpent`, `ApprovalSettles`, `ServiceResumes`
and `BooksCatchUp`: they need fairness and ENABLED, which are beyond what TLAPS proves here.  The three violations
are TLC's by nature.

## Findings

Each is a run that expects a violation of a property that states what the repository says.

| Run | Property | The code does, the repository says |
|---|---|---|
| `recode_replayed_key` | `RecordIsTrue` | a repoint coalesces into a queued row and keeps its `RequestId`.  If that row had posted the first write and died before the mark, and QBO answers a known request id from memory, the repointed lines are recorded as written and QBO still has the old ones; `worker.py:1273`: "written" asserts QBO is as our record says.  With a QBO that compares the request, the `recode` run holds |
| `pull_skip` | `SkipsArePermanent` | a bill edited in QBO between the POST and the stamp of its push is taken for a permanent duplicate and skipped; the watermark moves past the edit; `sync_outcome.py:199`: skipped gaps "will not self-resolve on retry" |
| `box_documents` | `DocumentKept` | all attachments of a bill with several lines get one name, and the suffix that tells documents apart is the entity's; the second one filed in a folder is uploaded as a new version of the first one's file; `box/outbox/business/service.py:161` describes exactly this as losing a document, for invoices |

Seen while modelling, without a run of their own:

* *Bill push.*  Two concurrent enqueues insert two rows (`service.py:111`); `LinkedBillIsFinal` is why that is
  harmless once the first has linked the bill.  If the first row posted and died before the stamp, the second
  posts under its own `RequestId`: a second bill, in a company that allows duplicate numbers.  The flip
  of a bill and its enqueue are two transactions, which the completion job repairs.
* *Completion.*  An enqueue that fails is swallowed into a partial success that closes the job
  (`bill/business/service.py:1612`); a late task may close a job on the strength of another run's flip
  (`router.py:661`); a process that dies on the last attempt leaves its job processing (`dbo.completion_job.sql:125`).
  `FinalizedIsOwned` and `JobIsDrivenUntilSpent` are stated around these three.
* *Tokens.*  The refresh route takes no lock (`auth/api/router.py:108`), nor does the OAuth callback
  (`auth/external/client.py:64`): a refresh under way may overwrite the pair just authorised, and a call that holds the
  dead token dead-letters its row with "re-authorise" while the good one is stored.
* *Pull.*  A bill whose lines are missing is let go without a report and the watermark passes it
  (`sync_qbo_bill.py:341`).  A bill deleted in QBO comes back, in the run that deletes it, if its staging row cannot be
  deleted or its total is zero (`qbo/bill/business/service.py:189`).
* *Box.*  A stale etag (412) is not retryable and dead-letters at once (`box/base/errors.py:165`), although
  `excel/business/service.py:396` calls it retryable; so does a database error of the registry.  An attachment on lines of two
  projects that is enqueued twice is coalesced, and only the last folder gets it.  A clear whose keys were
  frozen at enqueue blanks the tag of a line that was put back meanwhile.  The freshness cache of an
  invoice is not invalidated when another invoice takes a line over and gives it back.

## What is not modelled

Inside the modelled components: the other kinds of the QBO outbox (invoice, expense, credit), whose
handlers differ; backoff arithmetic and tier timeouts (a delay is over or not); the line mapping and the
attachments one by one; the branch of `SetBillQboIdentity` that takes an identity from a bill renumbered
locally; the fan-outs of `complete_bill` other than the QBO push and Box.  Of the recode: batches, the holding
code, the ranking of suggestions.  Of requests: several realms, tokens that cannot be decrypted, the warning
bands.  Of the pull: paging, historical batches, runs without the sync lock, entities other than bills, the
amounts and lines of a bill beyond whether there are any, the best-effort clear of a hold marker when there is no
watermark to move (`watermark.py:214`; taken as done).  Of Box: the breakers of `drain_all`, batch payloads, retries inside one
HTTP call, people who delete or overwrite our documents, the layout checks, the escalation after a dead letter.
A bill that is edited for ever keeps its row in the debounce for ever; the bound on edits hides
that, and `RowSettles` does not claim otherwise.

The properties of `PurchaseRecode` hold for one drain process, which `QboOutbox` justifies while the drain
lock's session lives.

Whole components: the table above and `PROJECT.json` give the reason for each.  Pure I/O, statistics over
data and model-driven code stay outside for good; the rest is in the plan.  Most of the repository's lines
are CRUD services, backtest scripts, mappings of fields and templates, which have no protocol to check.

## Plan

Built: `DurableQueue`, `QboOutbox`, `BillCompletion`, `PurchaseRecode`, `QboRequest`, `QboPull`, `BoxOutbox`, each
with its proofs.  To prove next:

1. The recode rows of `PurchaseRecode` implement `DurableQueue` (an approval is the item, a verdict the delivery).
2. What `DurableQueue` gives to whoever relies on it: a ticket keeps its item, a finished one stays so and its
   item is delivered; with the two refinements, for both outboxes at once.
3. `BillCompletion` and `QboOutbox` composed: a completed bill is owed its push until it is linked.

To model next:

1. **Completion and outbox together**: `BillCompletion` composed with `QboOutbox` through `queued`, to state
   that a bill that is completed is pushed or visible to an operator in the end.
2. **MS outbox** with its sessions and its mail, with `DurableQueue` as its abstract specification too.
3. **Invoice push** (SyncToken mismatch, refresh, once more); an identity taken from a renumbered bill.
4. **Review state machine, lifecycle and terminal lock**: what may still change under a completed parent.
5. **Workflow orchestrator**, **contract labor**, **email claims**.

Runs stay at two actors of each kind and two keys.
