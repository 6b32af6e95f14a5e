# ZZI in TLA+

ZZI is a Laravel application between Zabbix, which reports problems of hosts, and Znuny,
a ticket system. It creates Znuny tickets on a schedule, creates tickets for Zabbix
problems by hand, follows those tickets until they are closed, and keeps caches of both
systems. It is written in PHP; the JavaScript in the repository is the published, minified asset of
its user-interface library (`src/public/js`), one empty file and a build configuration. This directory holds TLA+ models of the parts where its state is at risk, the
TLC configurations that check them, and proofs checked by TLAPS.

    tlc -workers 2 -config MCOverlap.cfg MCTicketPipeline.tla        # model-check a run
    tlc -workers 2 -config MCLifecycle.cfg MCManualTicketLifecycle.tla
    tlc -workers 2 -config MCMaterialize.cfg MCRunMaterializer.tla
    tlc -workers 2 -config MCProblemTickets.cfg MCProblemTickets.tla
    tlapm TicketPipeline_proofs.tla                                   # check proofs

`PROJECT.json` lists the runs, what each definition models (file and lines), mutations of
the code's definitions that each property catches, the hazards and the findings.
Paths below are relative to `src/app/` unless they begin with `src/`.

## 1. Inventory

### Scheduled tickets (modelled: the core)

| Part | State | Operations | Code |
|---|---|---|---|
| Tables | `scheduled_znuny_task_runs` (status, retry chain, resolution, ticket), `znuny_ticket_creation_attempts` (status, ticket) | | `Models/ScheduledZnunyTaskRun.php`, migrations |
| Runner and queue | cache lock `scheduled_znuny_task_runner` | lock, materialise due occurrences, read switches, take a batch | `Services/ScheduledZnunyTaskRunner.php`, `ScheduledZnunyTaskQueueService.php` |
| Processor | failure counter in the cache | claim a run, create, final write per outcome, disable the scheduler | `Services/ScheduledZnunyTaskRunProcessor.php` |
| Ticket creation | attempt rows, the marker in the ticket's title | validate, duplicate guard, attempt, POST, classify, record, reconcile | `Services/ScheduledZnunyTicketCreationService.php`, `Services/Znuny/ZnunyTicketCreation*.php`, `ScheduledZnunyTicketCreation*.php`, `ScheduledZnunyTicketMarker*.php` |
| Occurrences | `scheduled_znuny_tasks` (`next_run_at`, `last_run_at`, `enabled`), the unique key (task, `scheduled_for`) | initialise, normalise, catch up, save; enable, disable, edit the expression, save the form; delete old runs | `ScheduledZnunyTaskQueueService.php`, `ScheduledZnunyTaskRetentionService.php`, `src/app/Filament/Resources/ScheduledZnunyTasks/` |
| Switches | `scheduled_tasks_enabled`, `..._paused_until` | pause, resume, disable, enable | `Services/SchedulerSafetyService.php` |
| Operators | what a page showed earlier | queue a run, retry, link, close | `Services/Znuny/ScheduledZnunyTaskRun{Retry,Close}Service.php`, `...ManualLinkService.php`, review page |

Hard: the lock lives a fixed time and may expire under its owner, so two processes work on
the same rows; a create request may be carried out after the caller gave up; a process may
die, or the database fail, between any two writes; operators act on what they saw earlier;
`next_run_at` is written by passes and pages alike and locked by nobody.
Right means: each due occurrence gets exactly one run, no run is processed twice, no run's marker is on two tickets, the books name
only tickets of that run, one occurrence is paid for once, an uncertain end stops the
scheduler, what is settled stays settled, what is queued is processed.

### Tickets created by hand for Zabbix problems (modelled)

| Part | State | Operations | Code |
|---|---|---|---|
| Problem cache | Redis: index of problems, one key per problem, last poll, each with a lifetime | poll, failed poll, expiry | `Services/Zabbix/ZabbixProblemCache.php`, `Console/Commands/PollZabbixProblems.php` |
| Lifecycle | one row of `zabbix_tickets` per ticket | evaluate: active, resolved, candidate, flapping, reopen candidate, closed, stale | `Services/Znuny/ZnunyManualTicketLifecycleService.php` |
| Sync | state columns and snapshot hash | copy Znuny's state into the row | `Services/Znuny/ZnunyLinkedTicketSyncService.php` |
| Close, reopen | the same row, the ticket in Znuny | auto-close, close, reopen | `ZnunyLinkedTicket{Close,Reopen}Service.php`, `ZnunyManualTicket*.php` |
| Creation and linking | unique link per event, lock per event, attempt rows, audit log of links | look for a duplicate, check the customer user and the payload, attempt, POST, record, link or replace a closed ticket, sync | `ZnunyTicketCreationService.php`, `ZabbixTicketLinkService.php`, `ZnunyTicketCreationReliabilityService.php` |

Hard: five jobs and several people write the same row, none locks it, and Eloquent saves
only the columns that changed since loading. Cache keys expire at different times. A
problem may leave and re-enter the cache many times for one real return. Right means: a
ticket is closed only after its problem has been away for the delay; a reopening is offered
exactly within its window; one return counts once; an expired cache is not "resolved". The lock of
a create request lives ten seconds over up to four HTTP calls, and while the row moves to a new ticket, jobs that
loaded it under the old one still write to it. Right means: no ticket without an attempt that tells
of it, no live ticket loses its link, what operators were told stays true, the row ends up with
Znuny's snapshot of the ticket it is linked to.

### Prewarmed snapshots of Znuny's data (queues and agents modelled)

| Part | State | Operations | Code |
|---|---|---|---|
| Snapshot manager | per dataset: a lock, metadata with the active generation, one payload per generation, each with a lifetime | refresh, coherent read | `Services/Znuny/Cache/PrewarmSnapshotManager.php` |
| Warm commands | | fetch queues; read queues, fetch agents, read queues again | `Console/Commands/ZnunyWarm{Queues,Agents}Command.php` |
| Runner | a lock of its own, the child process | start a warm command, kill it after its time limit | `Services/Znuny/Cache/PrewarmRunnerService.php` |
| Agent pages | | agents together with the queues they fit | `Services/Znuny/Cache/ZnunyAgentCacheReadService.php` |

Hard: writers and readers share only single cache operations; any of them may fail, a refresh may be
killed between two of them, and it lasts minutes while the other dataset moves on. Right means: what
the metadata names can be read, a failure never brings back what is gone, agents are never combined
with queues they were not built from.

### Cache of recently closed tickets (its sync modelled)

| Part | State | Operations | Code |
|---|---|---|---|
| Cache | Redis: a payload per ticket, indexes by day and customer user, metadata of the syncs | upsert, validate the metadata, purge | `Services/Znuny/ClosedTicketCacheService.php`, `Console/Commands/SyncClosedTicketCacheCommand.php` |
| Sync | a lock of 30 minutes | small sync by order of change, back to some minutes before the last one; full sync by order of creation, back to the end of the window | `Services/Znuny/ClosedTicketSyncService.php` |

Hard: pages are asked for by offset while tickets enter, leave and move within the list; what a sync has
missed is noted nowhere, the next one only knows when the last one was completed; metadata is written
back as it was read, perhaps after the lock has expired or the cache was purged. Right means: a sync meets
every ticket that stays as it was, and one sync follows another without a gap.

### Parts not modelled

| Part | Why |
|---|---|
| Attempt-level manual retry (`ScheduledZnunyTicketCreationAttemptManualRetryService.php`) | nothing but its tests calls it; the run-level retry replaced it |
| The rest of the scheduled-task pages | forms; what they change of `next_run_at` and `enabled` is in `RunMaterializer` |
| Ticket Workspace: cache of active tickets with its indexes and reverse index, refresh of one ticket, identity markers | every ticket is written by many jobs, in single Redis commands over a dozen keys: a model of its own, see section 6. The pipeline models that a lookup in this cache may miss tickets |
| Standalone tickets (`Services/Znuny/ZnunyStandaloneTicketCreationService.php`) | validation and one create request: no row, lock or link that a model could relate to anything. A lost answer is shown as a failure; nothing but the audit log remembers it |
| Zabbix filters, severities, attention, pages | filtering and presentation of one list |
| Znuny client and what it asks for lookups, agents, queues, customer users | one request each. What `createTicket` and the ticket search make of a reply is in `SchedulerWorker` |
| Articles, inline images, HTML | rewriting of text, caching of attachments |
| Owner suggestion | a statistic rebuilt from scratch |
| Settings, audit log, alerts, mail | stored values, best-effort messages; no modelled state depends on them |
| Users, policies, assets, translations, fixtures | access control, presentation, data |

`PROJECT.json` has the same list with the files of each part.

## 2. Modules

    ScheduledRuns ----+--> SchedulerWorker --+
    (tables, Znuny)   +--> OperatorReview ---+--> TicketPipeline --> MCTicketPipeline
                                                     |      \
                                   ChainLedger <-----+       +--> TicketPipeline_proofs
                                   (refined)                        --> RetryChains_proofs
                                                                        --> Settlement_proofs
    ProblemCache --> ManualTicketLifecycle --> MCManualTicketLifecycle
                                         \--> ManualTicketLifecycle_proofs
    RunMaterializer --> MCRunMaterializer
                   \--> RunMaterializer_proofs
    PrewarmSnapshots --> MCPrewarmSnapshots
                    \--> PrewarmSnapshots_proofs
    ProblemTickets --> MCProblemTickets
                  \--> ProblemTickets_proofs
    ClosedTicketSync --> MCClosedTicketSync
                    \--> ClosedTicketSync_proofs

**ScheduledRuns** has one function per column the pipeline's decisions read. A run's row is
"absent" until it is inserted; ids are given in the order of `scheduled_for`, the order in
which batches take them. Only a run's newest attempt is kept: every service reads that one.
`request` and `marker` are Znuny's side: what became of the create request of a run, and
which run's `[SHE:run]` marker a ticket's title bears. `ZnunyCreates` and `ZnunyRefuses`
answer a request at any time after it was sent. `Lookups(r)` is what a marker search may
return: any subset of the tickets with that marker, because the workspace cache may be old
and the direct search unavailable.

**SchedulerWorker** is one process of the every-minute command; its program points are the
places between which the code calls the database or Znuny.

| Action | Code |
|---|---|
| `Acquire`, `LockExpires`, `Materialize`, `TakeBatch`, `SwitchedOff`, `EndBatch` | `ScheduledZnunyTaskRunner::run`, `materializePendingRuns`, `processNextBatch` |
| `Claim`, `SkipClaimed` | the conditional update in `processRun` |
| `PreflightRefuses`, `DuplicateGuard`, `CreateAttempt`, `SendCreate` | `createTicketFromTask` |
| `ReplyCreated`, `ReplyMissing`, `ReplyUnclear` | `ZnunyClient::createTicket`, the classifier |
| `RecordCreated`, `RecordMissing`, `RecordUnclear` | the reliability service |
| `Reconcile`, `SettleReconciled` | `reconcile`, before and in its transaction |
| `FinishSuccess`, `FinishNotSent`, `FinishFailed`, `FinishUncertain` | the final write of each outcome |
| `DbFails`, `StartFails`, `SuccessUnsaved`, `ReconcileFails`, `BatchAborted` | database errors and the catch-all |
| `Crash` | the process dies |

**OperatorReview** splits retry and link into the look (`CheckRetry`, `CheckLink`), whose
decision stays in `checked`, and the transaction (`Retry`, `Link`), which may come at any
later moment and more than once. `Close` and `QueueRun` are single transactions.

**TicketPipeline** composes them and states the properties. **ChainLedger** is the abstract
specification: an occurrence is open, under review, paid for with a ticket of its own, or
closed, and paid or closed is final. `TicketPipeline!KeepsLedger` maps a chain of runs to
one occurrence, standing where the chain's leaf stands.

**RunMaterializer** is one scheduled task with its schedule (the times its expression stands for
and the offset of its time zone from UTC), its `next_run_at` and its rows by
`scheduled_for`. A pass remembers the schedule it has loaded and computes from that one, whatever the
row says by then. It is a process in `materializePendingRuns`: `Load`, then `Initialise`, or
`Normalise` or `Prepared`, one `CatchUp` per turn of the loop, `Save`; `GiveUp` is a crash or
exception anywhere between. Like Eloquent, `SaveNext` writes `next_run_at` only when the model's
value is not the one it has loaded or written itself. `Enable`, `Disable`, `EditCron`, `ClearCron`
and `SaveForm` are the pages that write `next_run_at`; the cell saves a new expression with it, the form
a new time zone too, and since the form computes it when it opens, `SaveForm` takes any earlier moment. `QueueRun` and `RetryRun` insert rows at times of their own,
`Process` is what the worker does to a row and to `last_run_at`, `CleanUp` is retention, a command
run by hand. `history` records what the properties speak about and nothing else reads. In the
pipeline all this is the one action `Materialize`: some absent run becomes pending.

**PrewarmSnapshots** is `PrewarmSnapshotManager` with two datasets, since agents depend on queues.
Every cache call is a step: a read is `ReadMeta`, `ReadPayload`, `ReadAgain`, twice at most; a refresh is
`Acquire`, `Begin` (reads the metadata), `MarkRefreshing` (puts it), the fetcher (`ReadQueues`, `Fetch`,
`RecheckQueues` of the agents' command), `StorePayload`, `Activate`, `Cleanup`, or after a failure
`DropTemp`, `PutFailure`, and `Release`. `PutRefused`, `BeginFails`, `FetchFails` are the failures, a
delete may always be refused, `Kill` comes anywhere. A page is `ZnunyAgentCacheReadService::getSnapshot`:
`StartReading`, `AgentsRead`, `QueuesRead`. A generation is the number of a written payload; `active` is
`active_generation`. Payloads expire at any time; a lock only when nobody alive holds it, because
`PrewarmRunnerService` kills the command after `process_timeout_seconds` and the lock lives
`lock_expiry_grace_seconds` longer.

**ProblemCache** models the keys in Redis by the time each was last written. Time is counted
in ticks longer than one poll or evaluation. Whether a poll lists the problem is open: polls
ask for recent problems too, and filters, disabled hosts or the limit may hide it.

**ManualTicketLifecycle** models one row. A job in progress is the set of columns it is
going to write (`Dirty`), which is what Eloquent's `save()` does: an evaluation loads
(`EvaluateLoad`) and saves (`EvaluateSave`) in two steps, a sync loads the row before it
fetches the ticket, a close updates the row and then evaluates it. `AutoClose`,
`OperatorCloses` and `AskToReopen` take loading and request as one step; what the answer
leads to comes later. `CloseUnnoticed` and `ReopenUnnoticed` are requests whose answer is
lost. Agents change the ticket in Znuny at any time.

**ProblemTickets** models one Zabbix event: its row of `zabbix_tickets`, whose link may move, and
tickets named after the attempt whose create call made them. A request is `Lock`, `Duplicate` or `Look`
(`findByEventId`), `Refuse` or `Prepare` (customer user, payload, the attempt row), `Send`
(`recordApiStart` and the POST), then what the answer leads to: `RecordCreated`, `RecordRefused`,
`RecordUnclear`, `Link` (create or replace, in one transaction) or `Orphan`, `StartOwnSync`,
`FinishOwnSync`; `Finish` is the finally block that gives the lock back to its owner only.
`ZnunyCreates` and `ZnunyRefuses` answer a call at any time after it was sent, also when nobody waits
any more. A job is a sync, close or reopening in two steps: it has loaded the row (`LoadSync`,
`LoadClose`, `LoadReopen`) and asks Znuny (`Fetch`, `AskToClose`, `AskToReopen`, `AskFails`), and later
it saves (`Save`) the columns that differ from what it loaded, by primary key, so possibly into a row that has
moved on. `LockExpires`, `Crash`, `DbFails` and incomplete replies are the faults, agents change
tickets in Znuny at any time (`AgentChanges`).

**ClosedTicketSync** numbers tickets in the order of creation; `changed` orders the list of a small
sync. A sync is `BeginAuto`, `BeginFull` or `BeginManual` (lock, metadata and boundary at one moment), then a `Turn` per
page: search, upsert of what is in the window, and either the next offset or completion; `Exhausted` is an empty
page, `Fail` an error or a page of nothing but seen tickets, `Leave` what all ends have in common, the
metadata and the lock. `Crash` leaves the lock behind, `LockExpires` takes it from whoever holds it,
`Purge` asks for none. Any process may begin any kind of sync: the schedules exclude only themselves, and
the commands can be run by hand. `TouchClosed` and `ReopenTicket` are agents at work, `Tick` is a second.
A minute has `Minute` seconds: `Lookback` is a number of whole minutes, as `(int)` makes it, while everything
else is in seconds. `history` keeps what the properties speak about: whether the syncs since the last full one
were undisturbed, and the seconds in which a completed sync ran and to which no later one has gone back.

Definitions marked *faulty* are the code with a likely slip. No specification uses them;
each shows that some property is able to fail.

## 3. What the runs show

### Scheduled tickets (`MCTicketPipeline`)

| Run | Instance | Properties |
|---|---|---|
| `overlap` | 2 processes, 2 runs, 2 tickets, all faults | `TypeOK`, `ExclusiveClaim`, `OneTicketPerMarker`, `BooksNameOwnTicket`, `PipelineInv` |
| `chains` | 1 process, 3 runs, 2 tickets | `RetryLine`, `OneRecordedTicketPerChain`, `SettlementsAgree`, `SettledForGood`, `ChainInv` |
| `accounting` | 2 processes, 2 runs, crashes, an administrator who disables and enables | `FailedMeansNoTicket`, `OpenLeafHasAWayOut`, `UncertainStopsScheduler`, `KeepsLedger` |
| `liveness` | 2 processes, 2 runs, batches of one, an administrator who pauses and resumes | `PendingIsClaimed`, `ClaimedIsFinished` |

`accounting` excludes database errors and incomplete replies, under which
`FailedMeansNoTicket` and `UncertainStopsScheduler` are false (see below). With
database errors `OpenLeafHasAWayOut` is false too: a run the catch-all recorded as failed
while its attempt was still `sending` can neither be retried nor closed from the page. And
a process that dies after its claim leaves its run `running` for good: nothing in the code
takes it up again, which is why `ClaimedIsFinished` excludes crashes.

### Occurrences (`MCRunMaterializer`)

| Run | Instance | Properties |
|---|---|---|
| `materialize` | 2 passes, 3 schedules, every page, retention, 4 ticks | `OccurrenceOnce`, `NoOccurrenceSkipped`, `TypeOK` |

`NoOccurrenceSkipped` says what it means to lose nothing: every occurrence of the task's expression between
the latest moment somebody scheduled from and `next_run_at` has a scheduled run of its own, which retention leaves alone
until the occurrence is too old to be caught up with. It excepts what the code does skip, two
observations below: an occurrence whose second a pass found taken by a manual run (`taken`), and, after a pass whose
expression was edited under it has saved its own next time (`overtaken`), what lies before that time. TLC finds a
violation as soon as one of the exceptions is dropped.

### Prewarmed snapshots (`MCPrewarmSnapshots`)

| Run | Instance | Properties |
|---|---|---|
| `snapshots` | 2 processes refreshing either dataset, 1 page, 3 generations, failures and kills anywhere | `ActiveIsKept`, `GenerationsAdvance`, `PairWasCurrent`, `OneRefreshIsNoMiss`, `TypeOK` |

`OneRefreshIsNoMiss` is what the second attempt of a read is for: a reader comes away without a snapshot
only if there was none when it began, a payload has expired, or two refreshes were activated meanwhile.
That they are far enough apart is the schedule's doing (at least three minutes).

### Tickets for Zabbix problems (`MCManualTicketLifecycle`)

| Run | Instance | Properties |
|---|---|---|
| `lifecycle` | 2 overlapping evaluations, 3 events, 5 ticks, no prolonged delay | `DelayHasPassed`, `FlapsAreNewEvents`, `NoPhantomResolution`, `LifecycleTypeOK` |
| `reopening` | 1 evaluator, close, reopen, agents, sync, lost answers, 3 ticks | `CandidateHasWaited`, `OfferWithinWindow` |

The evaluate command has a schedule mutex (`src/routes/console.php:21`), but two pages
(`CurrentZabbixProblems.php:151`, `ListZabbixTickets.php:39`) run the same evaluation without it, and so
does the close service: `lifecycle` has two evaluators. Where evaluations overlap, `DelayHasPassed` needs a delay
that does not depend on the flap count, and an evaluation may leave a candidate whose `active` column another one has
just set; hence `CandidateHasWaited`, which adds that the problem is not known to be active, and the prolonged
delay are checked with one evaluator, in `reopening`. Why is the second of the observations below.

| Run | Instance | Properties |
|---|---|---|
| `problem_tickets` | 2 requests, 2 create calls, 1 job, tickets that close or reopen twice, all faults | `HoldersHoldTheLock`, `TicketsAreOnRecord`, `LinkIsRecorded`, `ReportsAreTrue`, `LiveLinkSurvives`, `SnapshotCatchesUp`, `TypeOK` (`MCProblemTickets`) |

`LiveLinkSurvives` speaks of what the row calls closed; the row itself may be wrong (see below).
`SnapshotCatchesUp` is liveness: once nobody changes links or tickets any more, the scheduled sync brings
the row to Znuny's snapshot, whatever stale jobs wrote. It speaks of the hash, not of the state
column, which may stay wrong under a right hash (see below).

### Recently closed tickets (`MCClosedTicketSync`)

| Run | Instance | Properties |
|---|---|---|
| `closed_tickets` | 2 processes, each kind of sync, 4 tickets, pages of two, 5 seconds in minutes of two, 2 changes, all faults | `NothingSlipsThrough`, `SyncLoadsWhatStayed`, `TypeOK` |

Both are stated with the exceptions the code makes necessary: a ticket that leaves the list under a sync, a
purge under a sync, and, for `NothingSlipsThrough`, a ticket that changed while a sync ran, until a later one
has gone back to that second (`exposed`). What it asserts of all others does not depend on how long a
sync takes: that a small sync goes back to the completion before it at least, although its lookback is cut to whole
minutes. `NothingSlipsThrough` starts anew with each full sync, which the nightly schedule brings.

### Findings

Runs that must fail, each with the text of the repository it contradicts in `PROJECT.json`:

| Run | What TLC finds |
|---|---|
| `database_fault` | a database error after the request was sent ends as "failed" and leaves the scheduler on |
| `reclose` | a reopened ticket keeps its old time of resolution and is a close candidate without a delay |

Observations without a run of their own:

* A pass takes a `next_run_at` that equals the local time of the task's last run for one saved in the wrong
  time zone and goes back to the successor of the last run (`Services/ScheduledZnunyTaskQueueService.php:43`). A right
  `next_run_at` can equal it too: a task disabled and enabled again is then set back to what it
  missed, against the comment at `Filament/Resources/ScheduledZnunyTasks/Tables/ScheduledZnunyTasksTable.php:99`.
* Evaluations that overlap save column by column. With the prolonged delay of a flapping ticket the result
  can be a close candidate that nobody computed: one evaluation moves `manual_close_eligible_at` of a
  resolved row because the flap count has just reached the threshold, another one sees the problem
  return and clears the row; saved last, the first leaves `close_candidate` with a time that has
  come, although the problem was seen active this very minute. TLC finds it with `MCLifecycle.cfg` under
  `Ttl = 0`, `MaxTime = 6`, `FlapDelay = 1`: not even `CloseDelay` has passed. With a fixed delay no evaluation
  writes `manual_close_eligible_at` of a row that has one, other than to clear it, and `DelayHasPassed` holds.
* `closeTicket` (`Services/Znuny/ZnunyLinkedTicketCloseService.php:91`) updates the model it loaded
  before its call to Znuny, by primary key. If a sync has recorded the closing meanwhile and an operator has linked
  the problem to a new ticket, the row then says closed of the new ticket, and the next
  request replaces the link of a ticket that was never closed, against
  `Services/Znuny/ZabbixTicketLinkService.php:127` ("an existing terminal ticket link").
* No caller passes `reconcile` to `ZnunyLinkedTicketSyncService::sync`, so a wrong state column
  under a matching hash is never repaired.
* A sync of closed tickets records when it was completed, not when it began: what is closed in Znuny
  after its first page, and longer before its end than the margin of the next one, is left to the next full
  sync. The margin is what twice the interval exceeds the time since by; when the next one comes later than
  that it is what `(int)` leaves of a minute (`Services/Znuny/ClosedTicketSyncService.php:141`), anything from a second to
  a minute. A ticket that is reopened between two pages moves the others forward and makes the next page skip one.
* `znuny:sync-closed-ticket-cache --purge` takes no lock; a sync in progress afterwards writes back that the cache
  is complete. The same happens to the window: narrowed, a small sync on demand, widened again, and
  what the small sync left out counts as loaded.
* "We can safely treat it as exhausted" (`Services/Znuny/ClosedTicketSyncService.php:319`) is reachable
  only for pages of tickets without a date of creation; any other page beyond the window has
  ended the sync before.
* A 200 reply without ticket identifiers is booked as a confirmed failure (`Services/Znuny/ZnunyClient.php:1542`)
  although the ticket may exist; with the fault "partial" `FailedMeansNoTicket` of `accounting` is false.
* If the put that activates a generation takes effect and its answer is lost, the catch block of
  `PrewarmSnapshotManager::refresh` deletes the payload that is now active and then puts the old key back;
  killed in between, it leaves readers nothing until the next refresh. A warm command run by hand has no
  time limit: when its lock has expired, a late failure puts back a generation that a later refresh has
  deleted. `PrewarmSnapshots` assumes neither happens.
* `ZnunyCachedLookupService.php:121` and `ZnunyAgentService.php:100` take the ids of a queue's agents from
  one snapshot and the agents from the next; `PairWasCurrent` is about a single snapshot.
* A sync that loaded a row before a close was recorded saves Znuny's newer hash, but not its
  unchanged, hence not dirty, state columns; the close then writes its own state over it, and later
  syncs find the hash equal and leave the wrong state
  (`tests/Feature/SyncLinkedZnunyTicketsCommandTest.php:177` knows of such drift; the reconcile mode
  that repairs it is not used by the schedule).
* `manual_lifecycle_closed_at` is set when it is null and never cleared: a ticket reopened and
  closed again by an agent is measured against its first closing and may not be offered for
  reopening within the window.
* Freshness allows `max(ttl, 2 * interval)` minutes since the last successful poll, the index of
  problems lives `ttl` minutes. With `ttl < 2 * interval` one failed poll leaves a fresh-looking
  cache without problems, and every linked problem looks resolved. `NoPhantomResolution` holds in
  `lifecycle` because there `ttl` is the larger one.
* A leaf at exactly the maximal depth of a chain can still be retried, after which every service
  refuses the chain.
* A retry or hand-queued row that occupies the second of a later occurrence is what `firstOrCreate`
  finds for it, so that occurrence gets no run of its own, against the comment at
  `Services/ScheduledZnunyTaskRunner.php:28` ("to ensure we don't skip executions").
* A pass that loaded a task before its expression was edited computes from the old one, and `save()` puts
  the next time of the old expression over the one the page has saved
  (`Services/ScheduledZnunyTaskQueueService.php:83`). What the new expression has before that time is
  skipped, against the same comment: edited from daily to hourly under a pass with something due, a task waits for the
  next day. The window is the length of a pass.
* Retention deletes runs by age whatever their status, also pending ones, which by then are too old to be queued again
  (`src/lang/en/settings.php:442`: "pending scheduled work are not deleted"). And it is one
  statement: an old run whose retry is not old yet makes it fail as a whole, because the links of
  chains restrict deletion (migration `2026_07_27_183640`, lines 21 and 22).
* Saving the edit form, even to rename a task, schedules from the moment the form was opened: what
  is due at the moment of saving and not yet queued is dropped if the form was opened after it.

## 4. Bounds and fairness

* `MaxRuns`: two runs let processes compete and one be retried; three let a retry be retried,
  so that a chain has a middle. `Tickets`: two, one more than a right run may have.
* `Workers`: two, the fewest that overlap; the properties of claims compare pairs.
* `Threshold` 1 or 2: the next failure does, or does not yet, disable the scheduler. The
  failure counter is capped there, since the code only asks whether it was reached.
* `MaxDepth` is the code's value, 100, and out of reach of the instances.
* `MaxTime` 3 to 5, `CloseDelay` 1, `ReopenWindow` 0 or 1: every delay can pass
  and be exceeded. `FlapDelay` is 1 in `reopening` and 0 in `lifecycle`, for the reason given in section 3. `MaxEvents` 3: two returns. `MaxVersion`: changes of the ticket in Znuny,
  1 for none (the problem and the cache alone), 3 for a close, a reopening and one more, 4
  where a second closing by an agent matters.
* `PollInterval` 0 stands for polls more frequent than half a tick. A larger one only matters
  for `MaxStale`; polls may happen at any moment in any case, as `--force` makes them.
* The first of the three `Schedules` in `materialize` is such that two occurrences can be due at once and one lies
  beyond the catch-up limit; the second lacks most of its times, so that one edited under a pass leads back and
  forth between dense and sparse; the third belongs to another time zone, which only the form can choose; `MissedAge` and `Retention` are one tick, the least that lets an
  occurrence be old enough to skip and a row old enough to delete. Passes end within a tick
  (minutes against the hours or days between occurrences), as the proof also assumes. `Pages`
  and `LastEdit` say which pages are used and until when. `MaxManual` bounds rows made by hand.
* `MaxGen` 3 in `snapshots`: queues, agents built from them, and a newer generation of either, which
  makes the agents unusable. Two processes are the fewest that compete for a lock.
* The `offset` of a schedule is the distance between a task's local time and UTC. It only matters as a value a
  right `next_run_at` may equal.
* `problem_tickets`: two requests compete for the lock, two create calls are the original and its
  replacement, `MaxVersion` 3 lets a ticket be closed and reopened, one job beside the syncs of the requests
  themselves is enough to be overtaken by a relinking.
* `closed_tickets`: pages of two of four tickets are the smallest in which a sync turns a page while
  something moves from one page to the other; two changes are a closing and a move. `Minute` 2 is the least that has a fraction
  for `(int)` to cut off; with `Interval` 1 the lookback is two minutes at least, and `MaxTime` 5 lets a sync
  come so late that these do not reach back to the last completion. `LongestSync` 1 lets a sync last until the next
  second or end in its own; `LastEvent` 1 ends changes and faults early enough for a late sync to meet what is left of
  them; `LockLife` 1 lets the lock expire under a sync that lasts. The bound of 1000 pages per sync is out of reach.
  None of these bounds is in the proofs but as an arbitrary number. The code reads the clock twice for a boundary,
  a few assignments apart; here it is one reading. The second of margin that is lost if the clock advances in between
  is not used: the proof needs a boundary that does not come after the completion.
* `overlap` and `chains` have no switches, which only keep processes from starting a batch; `accounting`
  and `liveness` have one each, so that each finishes within minutes.
* The ids and processes are interchangeable where a configuration says `SYMMETRY`; the
  liveness run has none. Deadlock checking is off where the bounded supply of runs, ticks or
  events ends a behaviour.

In the pipeline, fairness is used by `liveness` only: `WF` of each process (the schedule starts the command
every minute, every HTTP call has a timeout) and of the lock's expiry (Redis forgets a key
when its lifetime is over). Znuny, operators and administrators get none: nothing in the code
makes them act. `PendingIsClaimed` says that no run stays queued for ever while the scheduler is
neither disabled nor paused.

`problem_tickets` has `WF` of what a job does once it has begun (HTTP calls have timeouts) and `SF` of the
scheduled sync's load and of its successful answer: the command runs every few minutes, requests
and other jobs make it impossible only now and then, and Znuny answers again sooner or later.

## 5. Proofs

Everything in this section holds for all values of the constants that satisfy the assumptions of the
module, which say that the constants are numbers, sets and Booleans of the right kind and that null
values are no ticket and no process. What a theorem assumes beyond that is part of its statement and
named here:

| Hypothesis | Theorems | Why it is there |
|---|---|---|
| `OnlyCrashes`: processes may die, but the database and Znuny's replies do not fail half-way | `AttemptsAreAccounted`, `FailuresHaveNoTicket`, `UnaccountedRequestsStopTheScheduler`, `EveryOpenLeafHasAWayOut` | otherwise false, see `database_fault` and the observations in section 3 |
| `MaxRuns <= MaxDepth + 1` | `EveryOpenLeafHasAWayOut` | a chain at its maximal depth, 100, is refused by every service |
| `DelayIsFixed`: flapping does not prolong the delay | `DelaysPass` | otherwise false, see section 3 |
| `OneEvaluation`: at most one evaluator | `CandidatesHaveWaited` | otherwise false, see section 3 |
| `Ttl >= 2 * PollInterval` | `ResolutionsAreReal` | otherwise false; the defaults are 3 minutes and 1 (`src/app/Support/Settings/DefaultSettings.php:55`) |

*`TicketPipeline_proofs`*: `PipelineInv` is inductive. The properties alone are not: that no
marker is on two tickets needs to know that a request is sent only by the process that holds
the claim and at most once (`RequestFollowsClaim`); that the books name a run's own ticket
needs to know that a process about to write a ticket's id got that id from a reply or lookup
for this very run, and that an operator's remembered decision did too (`TicketsInHand`); that
settlements agree needs to know who may resolve what (`ResolvedByOperators`). From it:
`TypeCorrect`, `ClaimsAreExclusive`, `NoTwinTickets`, `BooksAreRight`, `NoEmptySuccess`,
`SettlementsNeverDiffer`. One lemma per conjunct (`ClaimStep`, `MarkerStep`, ...) goes through
the actions.

*`RetryChains_proofs`*: `ChainInv`, given `PipelineInv`, is inductive: chains are lines
(`RetryLine`) and hang together (`ChainShape`: no links to rows that do not exist, one leaf per
chain), and rows are inserted in the order of their ids, so that no run is deeper in its chain than there are rows before it (`RowsInOrder`). Only `Materialize`, `QueueRun` and the operators touch links; a lemma each for an
inserted run, a retry and a settlement. From it: `RetriesFormALine`, and `OccurrenceBookedOnce`,
because a run with a ticket has no successor and a chain has one leaf. `PipelineKeepsLedger` is the
refinement: an inserted row opens an occurrence, a retry opens the one under review
again, and each final write of a worker or operator is the ledger's step for the
chain's leaf; everything else stutters. With the ledger's own invariant it gives `LedgerIsBalanced`: paid
occurrences have a ticket each, no two the same.

*`Settlement_proofs`*: `SettledForGood`, an action property: a worker writes only the run it
has claimed, which is running, and operators resolve only open runs. The rest is about what is known of a
request. `Accounted`, inductive with `PipelineInv` under `OnlyCrashes`, follows a run from claim to final
write: while the attempt is `preparing` nothing was sent, one that is `confirmed_failed` was refused by Znuny,
a failed run has no attempt or such a one, an uncertain run has an attempt that says so, and what a process is about to
write agrees with the attempt it has left behind. From
it: `FailuresHaveNoTicket`, `UnaccountedRequestsStopTheScheduler` and, with `ChainInv`, which bounds the depth of a
chain by the rows before it, `EveryOpenLeafHasAWayOut`.

*`RunMaterializer_proofs`*: for any cron expressions (any set of sets of times) edited at will, any numbers of passes and
any use of pages, under `MaterializerAssumption`, which demands `MissedAge <= Retention` (the
defaults are 30 and 180 days). `OccurrenceOnce` alone is not inductive: `OnceInv` adds
that a time with an inserted run either still has that row or lies further back than retention,
because a row is created no earlier than its occurrence and deleted by its age; `Inserts` refuses
the one for the row and the other for its age. `NoOccurrenceSkipped` needs `SkipInv`, by which a time is
*reached* in a schedule when each of its occurrences before that time has a scheduled run, was found taken, is too old or
falls under one of the exceptions. Reached are `next_run_at` and the time of every scheduled row, in the task's
schedule, and every value a pass has in memory, in the schedule that pass has loaded. The rows are what makes normalisation
safe, which starts again from the last processed one; the two schedules meet in `SaveReached`: when they differ, either
nothing is written or what is written is noted as `overtaken`. A new schedule counts from now, so that nothing has to
be known of its past. `NextOccurrence` says that nothing lies between a time and its successor, and `ReachedStays` that
later steps undo none of it, retention included, since what it deletes is too old.
From it: `MaterializerTypeCorrect`, `EachOccurrenceOnce`, `NothingSkipped`.

*`PrewarmSnapshots_proofs`*: for any numbers of processes, pages and generations, under
`SnapshotsAssumption` (processes and pages are different). `KeepInv`: a busy refresh owns its dataset's
lock (`Owned`), so from reading the metadata to activating or giving up what it began with is what is
active (`StillOriginal`), its own key is newer than that and stored (`TempIsNewer`), and what it cleans
up is older than what is active (`OldIsRetired`); payloads belong to one dataset, so a delete cannot hit
the other one. From it `ActiveGenerationKept`, `GenerationsGoForward` and `Types`. `PairInv` then follows
agents from the moment they are read: they were active together with their queues, or those have been
replaced (`Met`), and since generations only advance, a read of the queues that begins later cannot
return the replaced ones (`PageOf`). From it `AgentsComeWithTheirQueues`. `MissInv` counts what a read can lose to:
while it looks for the payload, the generation it has read of is active, or there has been one activation for each
of its attempts, or a payload has expired (`Chance`). A payload that is active is stored by `KeepInv`, so a miss
turns the first case into another. From it `OneRefreshHidesNothing`.

*`ProblemTickets_proofs`*: for any numbers of requests, jobs, create calls and changes, under
`ProblemAssumption` (requests and jobs are different, nobody is no request). `HoldersHoldTheLock` is inductive by itself with
the types; the others need `TicketInv`: every request owns its attempt (`RequestsOwnAttempts`), attempts
are given out in order, so that the one in hand is ahead of every linked one (`AttemptsAreAhead`),
an attempt is settled before its ticket is linked (`SettledFirst`), and a link is known to the audit log
(`LinkedIsKnown`). One lemma per conjunct goes through the actions. From it `TypeCorrect`, `LockIsHeld`,
`NothingOffTheRecord`, `LinksAreRecorded`, `ReportsStayTrue` and the action property
`LinksMoveForward`.

*`ManualTicketLifecycle_proofs`*: for any number of evaluators, events, ticks and changes in Znuny. The row is
written by jobs that loaded it some time ago, so each invariant speaks of the row and of what every save in
progress would make of it. `TypeInv` names the columns a job at each point can hold; from it `LifecycleTypes`, and
`ResolutionsAreReal`, which is arithmetic on the lifetimes. `OfferInv` says that a save that makes an offer, or dates
one made meanwhile, comes while the window is open: an evaluation ends within its tick
(`NoEvaluationOverTime`), and `closedAt` is set once and for good. From it `OffersAreInTime`. `DelayInv` follows the
two times of a resolution: a save clears both, sets both to what they are now, or writes neither; so
whatever is merged they stay `Paired`. From it `DelaysPass`. `WaitInv` is the stronger statement for one evaluator:
what it is about to leave is what it has seen. From it `CandidatesHaveWaited`. `FlapInv` says
that every event known to cache, row or save is one the trigger has had, that later events have larger
ids, and that a flap count is at most the number of events up to the last one counted; a save writes count and
last counted event together or neither, which is why overlapping evaluations do not count twice. From it
`FlapsAreReturns`.

*`ClosedTicketSync_proofs`*: for any finite set of tickets, page size, number of processes, times and faults. A
search returns the tickets whose `Rank`, the number of tickets before them, lies between the offset and its
end; the lemmas say that ranks follow the order, are distinct and are all taken, so that a full page is full of tickets
below the next offset, and the tickets beyond the boundary form the end of the list. `RankKept`: while no
ticket leaves the list, the rank of one nobody touches can only grow. Hence `PagesInv`: what was left
alone since a sync began and now has a rank below its offset is cached (`Met`); with the whole list
behind it, a sync has met all that stayed. `GapInv` chains the syncs: everything before the completion
that the metadata name, or that a sync in progress may yet write back, is cached or exposed (`Covered`); `ClockInv` has
the arithmetic, a small sync's boundary does not come after the completion before it (`LookbackReaches`, which rests on
`MinuteAdded`: a whole number of minutes and one more is longer than the time it was cut from). `GapComplete` is
the step that counts: a ticket neither met nor exposed by a sync was left alone since before its start,
hence changed before its boundary, where the completion before it answers for it. From them: `SyncTypes`,
`NoTicketSlipsThrough` and the action property `SyncsLoadWhatStayed`.

Model-checked only: the liveness properties `PendingIsClaimed`, `ClaimedIsFinished` and `SnapshotCatchesUp`,
because TLAPS 1.4.5 has no support for ENABLED, and the two runs that show a violation.

## 6. Plan

1. The workspace cache of active tickets: its index and reverse index, refresh of one ticket, the
   cleaner and identity markers; it gives `Lookups` a model of its own. Reading the code for it
   showed: writers that overlap, or the cleaner, may leave a live payload without its index entry, and since
   an unchanged ticket only has its lifetimes extended, it stays invisible until it changes; a
   refresh that got its answer before a sync cached the ticket as closed may drop it again.
2. Proofs: what the liveness properties rest on and needs no ENABLED, such as that every step of a process
   brings it nearer the end of its batch.

## 7. What the models leave out

* Texts, titles, validation rules, and all of a time zone but its offset; an occurrence is due whenever it is inserted.
* The `last_*` columns of tasks, which no decision of the pipeline reads.
* More than one ticket of Zabbix problems: rows are evaluated one by one and share only the
  cache. Rows without host and trigger, merged tickets and `manual_flapping_detected_at` (shown,
  never read) are left out, and so is `znuny:repair-flapping-tickets`, a one-off repair by
  hand: an evaluation that overlaps it may save a candidate computed from the dropped delay
  while another one saves that the problem is active.
* Of problem tickets: what the forms suggest and validate, notifications, the articles of a created ticket.
* Of closed tickets: lifetimes of payloads (six windows) and the advance of the window itself, during
  which tickets only leave it; payload contents and customer-user indexes; a change of the window
  setting; clocks of Znuny and of the application that differ.
* Of the prewarmed datasets, customer users and lookups; the lifetime of metadata (a week, renewed by
  every attempt); the lock and the result lines of `PrewarmRunnerService`; failing reads of a page, which
  show nothing.
* A poll writes its keys one after the other; here it is one step. All are written within
  milliseconds, and lifetimes are minutes.
* Runtime limits: a batch may end after any run it has processed, which includes every limit.
