# Formal models of the Tencent Sheets ↔ MySQL synchronisation

TLA+ models of this repository: the sync engine that copies a Tencent sheet into
a database table and back, the guards (lock, limiter, retries, dead-letter queue)
of its enhanced version, and the components around them: the Tencent client,
connection pools, configurations with their cache and jobs, saved connections
and their key, mapping, validation, batches, counters and audit log, reports.
TLC checks them on small instances; TLAPS proves every safety property that a
passing run checks for every value of the constants. Paths below are under `src/`.

## 1. Inventory

The server is one FastAPI process with **one asyncio event loop**. All database
drivers are synchronous: a coroutine gives up the loop only where it awaits the
Tencent API (and, in the enhanced engine, a lock, a semaphore or a back-off
sleep). Between two awaits nothing else runs, but a crash, the users of the
sheet and other writers of the table may come between any two database calls,
and each call commits on its own.

| Component | Source (`app/…`) | State | Operations |
|---|---|---|---|
| Sync engine | `services/sync_engine.py` | configuration cache (31–34); per engine object `_config`, `_sheet_id`, … ; in the databases: target table, `change_tracking`, `sync_logs` | `trigger_sync`, `sync_to_mysql`, `sync_from_mysql`, `_sync_batch_to_mysql`, `handle_webhook`, `_sync_changed_range`, `_ensure_table_exists` |
| Enhanced engine | `services/sync_engine_enhanced.py` | `DistributedLock` (one `asyncio.Lock` per configuration), `ConcurrencyLimiter` (semaphore, `_active_count`) | `sync_to_mysql` (under lock, limiter, retry), `sync_from_mysql` (limiter only) |
| Retry and dead letters | `services/retry_handler.py`, `routers/monitoring_router.py` | attempt counter, dead-letter list of `max_size` | `async_wrapper`, `record_error`, `add`, `retry_item`, `clear` |
| Scheduler | `scheduler/sync_scheduler.py` | APScheduler jobs, `_jobs` | `init`, `add_job`, `_run_sync`, remove/pause/resume |
| Webhook receiver | `webhooks/tencent_webhook.py` | none | parse, background task → `handle_webhook` or a full run |
| Metadata store, MySQL service | `services/database_service.py`, `services/mysql_service.py` | connection pool; tables above | log create/complete, change-record upsert, configuration rows |
| Tencent client | `services/tencent_api.py` | access token and its expiry | `get_values`, `put_values`, token refresh, resend |
| Mapping | `services/mapping.py`, `routers/tencent_helper.py` | none | column letters, column map, rows to table rows and back; proposals |
| Configuration CRUD | `routers/config_router.py`, `services/database_service.py` | configuration rows | create, read, update, delete |
| Saved connections, encryption | the three `*_config_service.py` with their routers, `utils/encryption.py` | rows of the three tables, the process's key | create, update, soft delete, test, validate |
| PostgreSQL service | `services/postgresql_service.py` | connection pool | `execute`, `execute_many`, `close`, `create_data_table` |
| Metrics, audit log | `services/metrics_collector.py`, `services/audit_logger.py`, `routers/enhanced_router.py` | lists of points and events, each cut at its limit | record, reset, clear, statistics |
| Validators, batches | `services/config_validator.py`, `services/batch_optimizer.py` | errors and warnings so far | `validate_config`, `validate_row`, `split_into_batches`, `optimize_batch_insert` |
| Monitoring routes | `routers/monitoring_router.py` | none | health score, dead letters |
| Others | read-only routers, application shell, front end, scripts | see `PROJECT.json` | |

**Interactions.** A router, the scheduler or the webhook's background task
creates a `SyncEngine` and awaits one of its methods. Nothing in the standard
engine keeps two runs of one configuration apart. A run reads the sheet (or the
table) in one call and writes the other side; `change_tracking` carries, from run
to run, the hash of what was last written per primary key. The enhanced engine
goes through the retry decorator, then the lock, then the limiter, and otherwise
makes the same calls.

**What is hard.** Two runs that overlap at an await; a run that acts on a sheet
or table read earlier; row, hash and log written by separate statements; a
failing call in the middle of a batch; a process that dies between statements; a PUT that
is sent twice or has landed although it failed; a lock request that times out at
the moment of its wake-up; permits and locks on every way out of a run.
`PROJECT.json` lists each hazard at its line.

**What makes each part correct.**

* *Engine towards the table*: a stored hash describes the row; a run that reports
  no error has brought over all it read; a row deleted in the table is not
  resurrected; every run ends.
* *Engine towards the sheet*: a two-way run does not take out of the sheet what it
  has just brought over; runs that export the table again and again bring all of it to the sheet.
* *Lock*: one run per configuration in the section, and no waiter is forgotten.
  *Limiter*: its counters account for the runs in progress, on every way out.
  *Retry*: every call ends; a log says what the result says; what fails for good is
  in the bounded dead-letter queue.
* *Scheduler and configurations*: a run never uses a version that was replaced
  longer ago than the cache's time; the job of an active configuration has the
  interval that is stored.
* *Client*: what it reports is true of the sheet, faults and not other calls use
  up its attempts, and every call ends.
* *Pools*: no connection is lost on any way out; a result says what was committed;
  the id of a log is never another log's.
* *Saved connections*: secrets can be read by later lives of the process; deleted rows
  stay deleted; a result is not replaced by one of older credentials.
* *Mapping*: column letters and indices are inverse; a value read from a column goes back to
  that column; a proposed mapping is one the engine accepts.
* *Validators and batches*: what is accepted can be used and has a table, on both
  databases; sending batches makes the table that sending rows makes.
* *Counters, audit log, reports*: a rate is above 100 percent by at most the one
  synchronisation at the hour's edge; cuts leave the log without a gap; percentiles are ordered; the status fits the checks.

## 2. Modules

| Module | Models |
|---|---|
| `SyncEngine` | the engine for one configuration: its tasks, stores, environment |
| `MCSyncEngine` | TLC instance (symmetry) |
| `SyncEngine_proofs` | theorems about it |
| `Admission` | abstract specification: who may be in a guarded section whose lock may lapse |
| `GuardedSync` | lock, limiter, retry decorator, dead-letter queue, around runs of the enhanced engine |
| `MCGuardedSync` | TLC instance |
| `GuardedSync_proofs` | theorems about it, and that it implements `Admission` |
| `RemoteCall` | abstract specification: what a caller of the Tencent client may count on |
| `TencentClient` | requests of several coroutines that share one token |
| `TencentClient_proofs` | that it implements `RemoteCall`, what uses up attempts, its types |
| `ConnectionPool`, `ConnectionPool_proofs` | the pools of both database services, and the statements of threads through them |
| `Configurations`, `Configurations_proofs` | configuration rows, the engines' cache, the scheduler's jobs |
| `ConnectionConfigs`, `ConnectionConfigs_proofs` | saved connections, and the key of their secrets |
| `Selection` | the elements of a list that are in a set, in their order |
| `Columns` | column letters and definitions, shared by the next two |
| `Mapping` | rows to table rows and back, proposed mappings |
| `MCMapping` | values of the constants of `Mapping` for TLC |
| `Validation` | what the validator reports, and what becomes of the table |
| `Batches` | rows through validator, batches and upsert statements |
| `Tables_proofs` | theorems about `Columns`, `Mapping`, `Validation`, `Batches` |
| `Telemetry` | counters and audit log, with their cuts |
| `Reports` | percentiles and the health score |
| `MCServices` | TLC instance of the modules from `TencentClient` on (extends `MCMapping`) |
| `Services_proofs` | theorems about `Telemetry`, `Reports` and the composition in `MCServices` |

Modules meet as the components do: `SyncEngine` takes of the client what
`RemoteCall` promises (a call may take effect although it fails, and more than
once), and of the pool's `create_sync_log` a run that knows or does not know its
log. The configuration it runs with is one that `Configurations` lets a run
start with; its zip of rows and columns is `Mapping`'s.

### SyncEngine

State: `sheet` (row positions from A2 on, a row is a primary key and the value of
its other columns, or `Blank`), `hasTable` and `table` (target table), `tracked`
(the value whose hash `change_tracking` stores per key), `log` (`sync_logs`
status), `loop` (the task that holds the event loop), `pc` and `run` (where each
coroutine is, and its locals). `touched` and `torn` are history variables:
keys that another writer changed since the engine last wrote them, and keys
whose row was written but whose hash was not.

| Code | Actions |
|---|---|
| `trigger_sync`, `sync_to_mysql`, `sync_from_mysql`, `_run_sync` | `BeginRun(t, k)`, `PhaseEnds` (second direction of a two-way run) |
| `handle_webhook`, `_sync_changed_range` | `BeginRange`, then `ServeGet`, `ResumeGet` (fallback to a full run, or end) |
| `create_sync_log` / `complete_sync_log`, `update_last_sync_time` | `CreateLog` / `Complete`, `Fail` |
| `_ensure_table_exists` | `EnsureTable` |
| `get_values`, `put_values` | `ServeGet`, `ServePut`, `FailPut`; `ResumeGet`, `ResumePut` when the loop comes back to the task |
| `_sync_batch_to_mysql`, one row | `SkipRow`, `WriteRow`, `RecordHash`, `RowFails`; `EndBatch` |
| `SELECT *` of the second direction | `SelectRows` |
| sheet users, other writers of the table, the process | `EditSheet`, `EditTable`, `Crash` |

A task that suspends gives `loop` to `Nobody`; the steps in `LoopPcs` need
`loop = t`. So atomicity between awaits is what the code gives and no more: the
environment and a crash may act between any two steps.

Decisions a reader should know:

* SHA-256 is taken as injective, so a stored hash is the value it was made of.
* A database statement that fails leaves its table as it was. A commit that fails although it
  has landed (`mysql_service.py:132`) is modelled in `ConnectionPool`, not here. The INSERT of a log
  may have committed when the `LAST_INSERT_ID()` after it fails.
* `SELECT LAST_INSERT_ID()` goes through the pool and may run on another session.
  The run then does not know its log (`known = FALSE`) and completes none. That it
  may get the id of some *other* log is not modelled.
* A PUT whose answer is lost is sent again by the client, so it may land twice,
  also after edits, and may have landed although the call failed. A PUT that lands
  after its call has already failed is not modelled.
* `_sync_batch_to_mysql` (310) asks the mapping engine for `get_primary_key_columns()`,
  a method it does not have; only the mocked mappings of the tests have it. `KeyLookups`
  is the set of outcomes that are modelled: `FALSE` is the code with its own mapping engine
  (`KeysUnknown`: a run that reads a row raises), `TRUE` is the contract that the engine and its
  tests rely on. `sync_keys` is checked with the first outcome only. All other runs leave it open
  at each read, `{TRUE, FALSE}`, which includes every behaviour of the code as it is, and the theorems
  hold for any `KeyLookups`; no property says that a run of the sheet's rows succeeds.
* `_sync_changed_range` names the sheet by `_sheet_id` before the configuration is
  loaded, so its read is refused always. Its success branch is unreachable and not
  modelled.
* The kind `scheduled` is `_run_sync` as it is written, although
  `SyncScheduler.init` (35) calls a method that does not exist and returns before
  the scheduler is started.
* The client awaits `response.json()` (`tencent_api.py` 184, 250). The tests mock
  the response with an awaitable. In httpx, `json()` is a plain method, and
  awaiting its result raises a `TypeError`: then every read fails, and every PUT
  lands and fails. Those outcomes are among the modelled ones (`ServeGet`'s and
  `FailPut`'s failures, up to `MaxFaults`); the model is of the contract that code
  and tests rely on, where calls can also succeed.
* An answer that is not JSON is treated by the client as an empty sheet; not modelled.

### GuardedSync

State: `pc` and `call` per coroutine; per configuration the `asyncio.Lock`
(`held`, its queue `waiters`, `woken`: the head of the queue has been told);
`permits` and `active` of the limiter; `log`, `result`; `dead`. `stolen` is a
history variable: how many requests released a lock that others held.

| Code | Actions |
|---|---|
| call of an engine method | `Begin` |
| `_ensure_config` | `ConfigFails`, or part of `Start` |
| `DistributedLock.acquire` 43–65 | `Start`, `TakeLock`, `TimeOut` (`wait_for` and the `finally` clause), `LeaveLock` |
| `ConcurrencyLimiter.acquire` 68–88 | `Enter`, `Answer` (`LeaveLimiter`) |
| body of `sync_to_mysql` 299–386, `sync_from_mysql` 450–525 | `Enter` up to the API, `Answer` after it; `Settle` for the except clauses |
| `async_wrapper`, `record_error`, `should_retry`, `DeadLetterQueue.add` | `Escape`, `Again`, `Enqueued` |
| `POST /dead-letter-queue/{index}/retry` | `TakeDead` |

`asyncio.Lock` and the semaphore are external; the model states how they serve
their waiters: the lock is taken at once only if it is free and nobody waits,
`release` wakes the head of the queue, and a cancelled waiter passes the wake-up
on. What a run does to the rows is left to `SyncEngine`. In the repository the enhanced
engine is reached through `enhanced_router`, whose trigger, to-mysql and from-mysql
routes are shadowed by those of `sync_router` (same prefix, mounted first). Its
`trigger_sync` is called with a `direction` it does not take, `record_sync` does not
exist in the metrics collector, and `TencentApiConfigService` is not imported; the model
is of the engine's methods.

### TencentClient

State: `mode` (how the client refreshes its token: JWT from the environment, app
id and secret, or a missing secret), `accessToken`, `req[c]` (where a call is, its `retry_count`,
the token it sent, the answer), and of the service `issued` and `valid` tokens. History: how often
a call took effect, sends that may still arrive, faults.

| Code (`services/tencent_api.py`) | Actions |
|---|---|
| `get_values`, `put_values`, … | `StartCall` |
| `_request` up to its await, and each recursive call | `SendAgain` |
| `_request` after it: result, 401, timeout and transport error | `TakeAnswer` (`BeginRefresh`, `AfterLoss`), `Wake` after the sleep |
| `_refresh_access_token` | `BeginRefresh`, `TakeToken` |
| `test_connection` | `TestConnection` |
| the API, the token service, the network | `ServeCall`, `ServeRefresh`, `LoseCall`, `StrayArrives`, `ExpireToken` |

Decisions: a request whose client has timed out may still arrive, after the call has been sent again or
has ended. A new token may or may not revoke the others. `await response.json()` may
raise (see above). In JWT mode a refresh gives the same token back, so a refused one is sent until the
attempts are used up. `DocumentNotFoundError` is never raised (every path contains
`/sheets/`); the error classes are one outcome.

### ConnectionPool

State: `pool`, `closed` pools, `idle` connections, `thread[t]`; of the servers `open`
(uncommitted work per connection), `lastId` (`LAST_INSERT_ID()` per session), `committed`.

| Code (`mysql_service.py`, `postgresql_service.py`) | Actions |
|---|---|
| `_get_pool` | `CheckPool`, `CreatePool`, `ReturnPool`: three steps, between which other threads run |
| `get_connection` / `getconn` | `TakeConnection` |
| `cursor.execute(many)`, `commit`, `rollback` | `RunStatement`, `CommitWork`, `UndoWork` |
| `finally`: `conn.close()` / `putconn` | `ReleaseConnection` (`GiveBack`, `SessionAfter`) |
| `create_sync_log` (`database_service.py` 287–306) | a call of kind `log`: two statements, each with its own connection |
| `close` | `ClosePool` |

The connection routers' dependencies are plain functions, which FastAPI runs in worker
threads, hence threads. Since `pool_reset_session` resets a connection that comes back,
`LAST_INSERT_ID()` of the second statement is 0: a run's log is never a foreign one,
but its own id is not known either, and no log is completed. `SyncEngine` leaves both
outcomes open. A pool per engine with a `mysql_config_id` that nobody closes is not
modelled (no statement depends on it).

### Configurations

State: `row[c]` (version, active, interval), `cached`, `engine[e]` (what an engine at work holds),
`pending` and `listed` jobs, `clock`. History: `retired` (when a version was replaced),
`missed` (updates whose job was not adjusted).

| Code | Actions |
|---|---|
| SQL and scripts (`create_config` calls a method that no service has) | `InsertRow` |
| `update_config`, `update_sync_config`, `add_sync_job` | `UpdateConfig`, `AddJob` |
| `delete_config`, `remove_sync_job` | `DeleteConfig`, `RemoveJob` (looks under a key that is never there) |
| `_ensure_config`, `_apply_config` | `EnsureConfig` in `RunByRequest`, `RunByWebhook`; `EndEngine` |
| process start, `SyncScheduler.init` | `Restart` (loads no job) |

The scheduler never starts, so each update of a configuration appends one more
pending job; APScheduler, when it starts, lets the last of the same id replace the others.

### ConnectionConfigs

State: `kind` (which of the three tables), `entry[i]` (name, active, revision of the
credentials, key of the secret, status and the revision it is about), `probe`, `life`, `keyed`.

| Code | Actions |
|---|---|
| `create_config`, `update_config`, `delete_config` | `CreateEntry`, `UpdateEntry`, `DeleteEntry` |
| `test_connection` | `TestEntry` |
| `validate_sheet_access_async` | `BeginValidate`, `EndValidate`: it waits for the API between reading and writing |
| `_get_encryption_key`, `encrypt_password`, `decrypt_password` | `EncryptionKey`, `Encrypted`, `Readable`; `StartLife` |

Where the tables differ (the PostgreSQL UPDATE does not ask for `is_active`, its form
wants a password) the guards differ.

### Mapping, Validation, Batches

`Mapping` follows one row of a sheet: a mapping is stored or proposed (`StoreMapping`,
`ProposeMapping`), a run reads the row (`ReadRow`: `zip` and `sheet_row_to_db_row`) and one writes it
back (`WriteRow`: `db_row_to_sheet_row`, `list(row.values())`). A value is the number of the column it was
read from. The letters of a mapping do not count when a row is read, since the zip pairs columns and cells
by position, and are forgotten when it is written. On the way back the columns `created_at` and
`updated_at` are passed over whatever their direction (`mapping.py` 289–290; `Stamps`, `Returns`), so that the
columns after them move to the left; so do those after a column of direction `to_mysql`. `RoundTripInPlace`
is therefore about mappings that have such columns last. The letters themselves are the subject of the
run `mapping_letters`; `ProposalUsable` says of proposals what is independent of its two
findings: an accepted mapping, no column used twice, letters as far apart as the headers.
`GET /auto-map` in fact proposes nothing, as the rows of `SHOW COLUMNS` have no `COLUMN_NAME`.

`Validation` compares four lists of types and three rules for names: `ValidateConfig` is
`ConfigValidator`, `EnsureTable(b)` is `create_data_table` on database `b`. A type is its name and what
follows it: nothing, a size, an attribute that only MySQL knows (`DECIMAL(10,2) UNSIGNED`,
`VARCHAR(64) CHARACTER SET utf8mb4`), or one of the signs that both services refuse. PostgreSQL's service keeps what
follows three of the names, which its server then does not take; `PortableTable` says that this, and a
column name that PostgreSQL keeps for itself (`xmin` stands for those), are the only ways in which a table of MySQL's
is not made there. A type may also be missing, where the service takes TEXT, or
empty or null, where it raises. The validator's message promises `VARCHAR(255)` for both
(`config_validator.py:338`); `AcceptedIsMade` names the refusal. `Batches` sends
rows through `DataValidator.validate_row`, `split_into_batches` and
`optimize_batch_insert`. A statement takes its columns from its first row, so
`BatchedIsRowByRow` is about batches whose first row has them all; a batch whose columns are
all keys ends in an empty UPDATE list and is no statement. `ConfigValidator`,
`DataValidator` and `BatchOptimizer` are called by tests only. `AcceptedIsMade` also names the long
column names, because no validator looks at the length of one, while `create_data_table` refuses
more than 63 characters; the validator warns of such a table name only, and refuses one of more than
64.

What these modules compute over lists (letters, the column map, a selection, proposals, upserts) is
written with functions that recur over a bounded set of numbers, one step of the code's loop each
(`Placed`, `Extended`, `Upsert`), so that the same definitions are evaluated by TLC and proved about.

### Telemetry, Reports

`Telemetry`: three counters, each a list of points cut on its own, filled by scheduled
jobs only (`RunScheduled`); the audit log, filled by jobs and by the routes of
`enhanced_router` (`BeginRequested`, `EndRequested`), cut at its limit and cleared by time. A job stamps
the total, then the outcome, then the event, each with a reading of the clock of its own (`RecordSync`,
`RunScheduled`); no other coroutine runs between them, and the clock is taken not to go back.
`Reports`: the places of percentiles in a histogram, and the health score with its status.

## 3. Runs

| Run | Checks | Instance |
|---|---|---|
| `sync_overlap` | `TrackingAgrees`, `CleanBatchLanded`, `DeletionsStay` | 2 tasks, full and webhook runs, 2 keys, 2 values, 2 sheet rows; 1 fault, 2 edits of the sheet, 1 of the table, 1 crash |
| `sync_twoway` | `TypeOK`, `PutKeepsSyncedRows` | 1 task, from, two-way and scheduled runs; 1 fault, 3 edits, 1 of the table, 1 crash |
| `sync_live` | `EveryRunEnds`, `EventuallyExported` | 2 tasks under `FairSpec`, runs in both directions; 1 key, 2 values, 2 sheet rows; 1 fault, 1 edit, 1 of the table; no symmetry |
| `sync_edit_lost` | `NoEditLost` is violated | 1 task, two-way |
| `sync_webhook` | `WebhookReads` is violated | 1 task, webhook |
| `guard_overlap` | `GuardTypeOK`, `OverlapBounded`, `LimitHolds`, `QueueServed`, `LogMatchesResult`, `AdmitsAsSpecified` | 3 coroutines, 1 configuration, limit 2, 2 attempts, queue of 1, 2 timeouts of a held lock |
| `guard_live` | `EveryCallEnds` | 3 coroutines, limit 1, no timeout of a held lock |
| `guard_mutex` | `MutualExclusion` is violated | 1 timeout |
| `guard_dead` | `PermanentFailuresQueued` is violated | no timeout |
| `sync_keys` | `RowsAreSynchronised` is violated | 1 task, the repository's own mapping engine |
| `mapping_letters` | `LettersNameColumns` is violated | headers from column B on |
| `services` | one type invariant and the 22 properties of the modules below | see below |

`services` checks nine components in one run: `part` says which of them is at work, the others
lie in an initial state. They share no variables, so their product would say nothing more.

| Component | Properties | Instance |
|---|---|---|
| `TencentClient` | `ReportsWhatHappened` (it implements `RemoteCall`), `ExhaustedByFaults`, `EveryRequestEnds` | 2 calls, 2 retries, 2 faults, the three modes |
| `ConnectionPool` | `NoConnectionLost`, `ResultIsTrue`, `NoForeignLogId` | 2 threads, pools of 1 connection, 2 jobs, 2 pools, 2 faults |
| `Configurations` | `StalenessBounded`, `JobHasStoredInterval` | 1 configuration, 1 engine, 2 intervals, cache time 2, 4 ticks, 3 versions, 1 restart |
| `ConnectionConfigs` | `SecretsReadable`, `DeletedStayDeleted`, `StatusNotOfOlder` | 2 entries, 2 names, 1 validation, 2 revisions, 2 lives |
| `Mapping` | `RoundTripInPlace`, `ProposalUsable` | 3 fields, one of them a time stamp, 2 definitions, rows of 2 cells, headers from columns A, Y, Z and ZZ on |
| `Validation` | `AcceptedIsUsable`, `AcceptedIsMade`, `PortableTable` | a common configuration and those that differ from it in what one part of the validator looks at |
| `Batches` | `BatchedIsRowByRow`, `ValidRowsHaveKeys` | a key and a data column, 3 kinds of types, 3 rows, batches of 1 and 2 |
| `Telemetry` | `RatesBounded`, `EventsAreNewest` | limits 2 and 3, a window of 1, 3 ticks, 4 runs |
| `Reports` | `PercentilesOrdered`, `HealthFitsChecks` | counts on both sides of each threshold |

**Bounds.** `MaxFaults`, `MaxEdits`, `MaxDbEdits`, `MaxCrashes` bound failing
calls, edits of the sheet, changes by other writers, and crashes; `MaxTimeouts`
bounds requests that time out while the lock is held; `LastRow` is the number of
sheet rows; `MaxAttempts` and `MaxDead` are parameters of the code (3 and 1000
there). The properties relate one key's row, hash and the batch that read it:
two keys give a batch that mixes skipped, written and failed rows, two
values give a change and the change back, two rows give a key that stands twice
in the sheet; two tasks give an overlap; the edits give old content under a new
run. `sync_live` has one key, since `EventuallyExported` asks for each row of the table by itself; the
other writer's change and the user's edit give the versions of its row that two
overlapping exports put in turn, and the second sheet row is one that a put leaves alone.
One fault or crash can fall at each step. For the lock three coroutines are needed: one
that holds it, one that times out, one that is let in; `MaxDead = 1` fills the
queue. Of `services`: two calls share a token, and two faults are
an expired token and a lost answer, or a lost request and a lost refresh; two threads on a pool of
one connection meet an exhausted pool, and can each make a pool; three versions are
active, inactive and active again, with a cache entry that outlives one of them; two definitions
collide, leave a gap or have the time stamp before another column; offsets 24, 25 and 701 end at Z, AA and AAA; three
rows in batches of two leave a short one. The limits of the counters are reached
with four runs. `MaxUpsets`, `MaxJobs`, `MaxPools`, `MaxPoolFaults`, `MaxClock`, `MaxVersion`,
`MaxRestarts`, `MaxRevision`, `MaxLives`, `MaxTime`, `MaxSyncs` and the sizes of rows and mappings are
bounds of the model; `RetryTimes`, `Ttl`, `MaxPoints`, `MaxEvents` and `Window` are parameters of the code, made small.
Symmetry is used in safety runs of the engine and the guards only. Every run checks for deadlock, but for
`services` and `mapping_letters`, whose calls are made once and whose components may be done: in
the other models an idle task can always start again.

**Passing runs.** Overlapping runs of the standard engine keep `change_tracking`
truthful (up to the excused keys, which are precisely those of a foreign change or
of a row whose hash got lost), because the batch never gives up the loop. A batch
without errors has landed, rows skipped by their hash included, until the
table is read back. A row that was synchronised and then deleted by another writer
is not brought back by any step. A clean two-way run puts back every row it brought
over. In the enhanced engine the limiter loses no permit on any way out, the lock loses no
waiter, also when one that has been woken gives up, its overlap is bounded by
the timeouts, and a log agrees with the result. Around them: no call
of the client reports an effect it did not have, or uses up its attempts without faults;
pools keep their connections on every way out; a stale configuration is used no longer than the
cache's time, however often it is hit; secrets survive restarts exactly as long as the
environment has a key; a row goes through the mapping and back without
changing its columns, if what stays out of the sheet stands last; a rate of the last hour is above
100 percent only when the hour begins between the two stamps of a synchronisation.

TLC also shaped `EventuallyExported`. Its premise is that from some time on only exports start. Without
it TLC finds a cycle: an import and an export that overlap, again and again, each bring over the version of a
row that the other side has just given up, and swap the two for ever. Repeated imports alone, in the
other direction, promise nothing: with the repository's own mapping engine they fail on the
first row (`sync_keys`).

**Violations found.** Each checks a sentence of the repository against the code;
the counterexamples are short.

1. `sync_edit_lost` – `PRODUCT_REQUIREMENTS.md:103` says no data is lost.
   `trigger_sync` (229) runs the second direction whatever the first one returned,
   and `put_values` overwrites from A2: an edit made after the first direction's read is replaced
   in the sheet and never was in the table.
2. `sync_webhook` – `SPEC.md:269` says the changed range is read. The range is
   formatted (463) before `_sheet_id` is loaded.
3. `guard_mutex` – `sync_engine_enhanced.py:44` says the lock prevents concurrent
   syncs. A request that times out releases the lock of the running sync (63).
4. `guard_dead` – `retry_handler.py:62` says the queue takes what failed for good.
   `record_error` raises a `NameError` (257) for errors of high severity first.
5. `sync_keys` – `SPEC.md:392` says rows of the sheet arrive in the database.
   `_sync_batch_to_mysql` (310) calls a method that the mapping engine does not have: a
   run that reads a row ends in its except clause without any fault.
6. `mapping_letters` – two disagreements that meet in one value. A proposed letter is that of the
   column after the header (`tencent_helper.py:56` passes `index + 1` to a function that counts from 0),
   where `test_tencent_helper_router.py:31` expects A of the first header. And the letter does not say where a
   value is read: `_sync_batch_to_mysql` (306) zips by position, where `SPEC.md:414` wants `sheet_col`
   to be the column of the header. For a header in B the proposal says C, and the value read is A's.

**Fairness.** `SyncEngine`: a task that holds the loop goes on (`WF` of `Step`); a
request is answered, since the HTTP client has timeouts (`WF` of `Answer`); a task
whose answer is there gets the loop although others take it in between, since
asyncio's ready queue is first in, first out (`SF` of `Resume`). Nothing is
assumed about the start of runs, edits or crashes: `EventuallyExported` has the repeated
start of exports as its premise. `GuardedSync`: the loop runs what is ready
(`WF` of `Start`, `ConfigFails`, `TakeLock`), requests are answered (`WF` of
`Answer`), and the semaphore serves its waiters in order (`SF` of `Enter`); no
timeout is assumed to happen, so `EveryCallEnds` does not rest on one.
`TencentClient`: the loop runs what is ready (`WF` of `ClientStep`), and the service
answers or httpx's timeout does (`WF` of `Service`, whose place `LoseCall` may take);
nothing is assumed of faults, expired tokens or late requests.
The other components of `services` have no liveness property and no fairness.

## 4. Proofs

Assumptions are those on the constants, each stated where they are declared:
`EngineAssumption`, `BlankAssumption`, `GuardAssumption`, `ClientAssumption`, `PoolAssumption`,
`ConfigAssumption`, `SavedAssumption`, `ColumnsAssumption`, `MappingAssumption`,
`ValidationAssumption`, `BatchesAssumption`, `TelemetryAssumption`, `ReportsAssumption`. They ask for
finite or non-empty sets, distinct special values, natural bounds, and that the configurations a
model is given are configurations. No bound on the numbers of keys, values, tasks, rows, columns,
batches, faults, edits or timeouts enters a proof.

**`SyncEngine_proofs`**

| Theorem | Property |
|---|---|
| `TypeCorrect` | `TypeOK` |
| `TrackingCorrect` | `TrackingAgrees` |
| `CleanBatch` | `CleanBatchLanded` |
| `Deletions` | `DeletionsStay` |
| `PutKeepsCorrect` | `PutKeepsSyncedRows` |

`TrackingAgrees` is not inductive: between `WriteRow` and `RecordHash` row and hash
differ, and one must know that no other task touches the key meanwhile. `IInv`
adds `LoopHeld` (a task between two awaits holds the loop, so at most one is in a
batch), `AtRow` and `AtRowWritten` (a task about to store a hash is at a row of its
snapshot, which is what the table holds unless the row is gone), and `GoneIsTouched` (a key
with a hash and no row was taken out by another writer). `BInv`
adds what a batch has done so far: `BatchTracked` (each row already processed without error, and not
followed by another row with its key, is the tracked one) and `FreshAt` (a batch starts at row 1
without an error); with `TrackingAgrees` this
gives `CleanBatchLanded` at the end of the batch. Each invariant is kept by one lemma per
action. `Deletions` goes through the actions under `IInv`: only a key without a hash is inserted.
`PutKeepsCorrect` takes `CleanBatchLanded` from `BInv` (what a clean first direction brought over is in
the table) and adds that whatever order the select returns, it lists each row of
the table (`OrdersAll`: a listing of a finite set without repetition misses none).

**`GuardedSync_proofs`**

| Theorem | Property |
|---|---|
| `TypeCorrect` | `GuardTypeOK` |
| `OverlapCorrect` | `OverlapBounded` |
| `AdmissionCorrect` | `AdmitsAsSpecified` (refinement of `Admission`) |
| `LimitCorrect` | `LimitHolds` |
| `LogCorrect` | `LogMatchesResult` |
| `QueueCorrect` | `QueueServed` |

Every step is one of four moves of a configuration's section and lock: nothing
changes, one run is admitted and takes a lock that was free, one leaves and the
lock is free afterwards, or the lock lapses. For these `OverlapInv` is inductive:
the runs in the section of `c` number at most `stolen[c]`, plus one if `c`'s lock is held.
`OverlapBounded` alone is not inductive: nothing would say that a free lock means there is room. The
same moves map to `Enter`, `Exit`, `Lapse` or a stutter of `Admission`. That an
admitted run finds the lock free rests on `LockInv`: a woken head of
the queue implies a free lock. `LogCorrect` strengthens the property by "a call that is
under way has no result yet". `QueueInv`, the property in three parts per lock, is inductive with
the types; its lemmas say what is left of a queue without repetitions when its head
(`TailElements`) or a request that gave up (`RestElements`) is taken out. The helper invariants were checked by TLC
on the bounds of `guard_overlap` before they were proved.

**`TencentClient_proofs`**

| Theorem | Property |
|---|---|
| `ClientRefines` | `ReportsWhatHappened` (refinement of `RemoteCall`) |
| `AttemptsCorrect` | `ExhaustedByFaults` |
| `ClientTypeCorrect` | `ClientTypeOK`, a part of `ServicesTypeOK` |

The refinement rests on `CallsInv`: a call's effects and the sends that may still arrive are no
more than its sends (`SendsCounted`; one fewer while it waits), and a call goes round
again only with tries left and succeeds only with an effect (`RoundsCounted`). Each step then changes
one call as `RemoteCall` allows. `AttemptsInv` bounds the tries of each call by
twice the faults plus one, for each place a call can be at, and by one less where the
token it has is no longer accepted.
The factor is real: after a timeout a call may go out with a token that another call
has stored although it was revoked long before, and so pay twice for one fault; one
fault per try is not enough from three calls and four retries on. `ClientTypeOK` has one bound that is no
assignment's: tokens are numbered, and there are never more of them than tries. `TokensInv` counts the
tries as a set: each pair of a call and a try it has made is in `Spent`, each refresh of a token adds one
pair to it, and its cardinality bounds the number of tokens issued, the request under way included.

**`ConnectionPool_proofs`**

| Theorem | Property |
|---|---|
| `PoolTypeCorrect` | `PoolTypeOK` |
| `PoolConserved` | `NoConnectionLost` |
| `ResultCorrect` | `ResultIsTrue` |
| `LogIdCorrect` | `NoForeignLogId` |

One invariant, `PoolInv`, carries all four: a thread has one connection from taking it to
giving it back (`HandsInv`), pools that are spoken of have been made (`BoundsInv`), a call belongs
to one thread (`JobsInv`), uncommitted work and log ids on a connection are those of the thread that has it
(`ServerInv`), and a thread between commit and result has its work committed (`WorkInv`).

**`Configurations_proofs`**: `StalenessCorrect` (`StalenessBounded`), `JobsCorrect`
(`JobHasStoredInterval`). `StalenessBounded` is not inductive alone; `CacheInv` adds that a
version is in the cache since no later than it was replaced, and `RowInv` that only an active
version has been replaced.

**`ConnectionConfigs_proofs`**: `TypeCorrect` (`SavedTypeOK`), `SecretsCorrect`
(`SecretsReadable`), `TestsCorrect` (`StatusNotOfOlder`), `DeletionCorrect` (`DeletedStayDeleted`).
`KeyInv`: with a key in every life so far each secret is stored plain or under that key;
`TestedInv`: the revision a status is about is no later than the entry's.

**`Tables_proofs`**

| Theorem | Property |
|---|---|
| `LetterNumber` | `ColumnNumber(ColumnLetter(i)) = i + 1` for every column |
| `RoundTripsInPlace` | `RoundTripInPlace` |
| `ProposalsUsable` | `ProposalUsable` |
| `AcceptedAreUsable` | `AcceptedIsUsable` |
| `TablesPortable` | `PortableTable` |
| `AcceptedAreMade` | `AcceptedIsMade` |
| `AcceptedRowsHaveKeys` | `ValidRowsHaveKeys` |
| `BatchesAreRowByRow` | `BatchedIsRowByRow` |

These are about what loops compute. The library's induction rules take an operator as a parameter,
which the installed provers cannot instantiate, so `BoundedInduction` and `StrongInduction` are stated
for a *set* of numbers: one that has 0 and with each number the next one has them all. They follow from
`LeastElement`, and that from the library's theorem that the order of the natural numbers is
well-founded. `RecursiveExists` derives from them that a function that recurs over
`0 .. n` exists and satisfies its equation. On these rest the lemmas on each loop: what a selection
keeps of prefixes, suffixes and whole lists (`ThosePrefix`, `ThoseSuffix`, `ThoseAll`), that a column map of an accepted
mapping is the mapping (`ColumnMapWhole`), that each header adds at most one column, of an unused
name and behind the others (`SuggestedProgress`, `ProposedProgress`), so that no two definitions
of a proposal share a column or a letter (`ProposalAccepted`).

The invariants: `MappingInv` says what each stage's variables were made of (a field of a row of
some width, the cells of that field, a proposal of headers from left to right), since the properties speak of
one stage and rest on what the stages before it did. `ValidationInv`: the
verdict is `Findings(form)` and each table is what the two checks make of it; `TypeTranslated` goes through what
a type that MySQL has becomes for PostgreSQL. `BatchInv`: the
table sent so far is the one of the rows up to the end of the last batch, as far as each batch was
whole. Its step is `UpsertTwo`: sending one list and then another is sending both joined, if the
columns are the same ones. A batch without a column that is no key is no statement (it ends in an empty
UPDATE list), hence the premise of `BatchedIsRowByRow`.

**`Services_proofs`**

| Theorem | Property |
|---|---|
| `RatesAreBounded` | `RatesBounded` |
| `LogIsNewest` | `EventsAreNewest` |
| `PercentilesInOrder` | `PercentilesOrdered` |
| `HealthFits` | `HealthFitsChecks` |
| `PartsImplemented` | the composition's specification implies that of each of the nine components |
| `ServicesTypeCorrect` | `ServicesTypeOK` |

`RatesBounded` is not inductive: it is about the last hour, and the hour moves, so that points leave it
without a step of the counters. `TelemetryInv` states the bounds (`Balanced`) for *every* threshold: of the
points at or after `x`, there are no more synchronisations than outcomes, and no more outcomes of
one kind than synchronisations, or one more and then no other (`NoMoreThan`), whichever of the three
lists has been cut at its limit. A synchronisation keeps it for a threshold
after both its stamps, where nothing is counted (`PointsLater`, `NoneCounted`), for one before both, and for one between
them, where the outcome is the only point there is. It also bounds the numbers of the
log, `logged + running <= 2 * syncs`: each synchronisation has two events, the second one still to
come while it runs. `PartsImplemented` is where one component at work and eight at rest are each
component's own steps or stutters; through it each component's theorems hold of the run `services`,
and `ServicesTypeCorrect` joins the nine type invariants.

**Model-checked only.** Liveness under fairness and `ENABLED` are out of the prover's reach:
`EveryRunEnds`, `EventuallyExported`, `EveryCallEnds` and `EveryRequestEnds` are checked on their runs'
instances. In the refinement theorems the safety part is proved; `Admission` and `RemoteCall` state no
fairness.

## 5. Not modelled

* *Texts*: the row key and the hash as texts (keys and hashes are identities),
  transforms of values, JSON of DATE and DECIMAL values on their way back to the sheet, error
  classification by wording. Nothing of the control depends on them but
  the failures that are modelled as such.
* *Export formats* of metrics and audit log, gauges and the counters nobody fills.
  Known from reading: the CSV export raises for events without an error message, and
  the histogram statistics filter durations as if they were times, so those of
  synchronisations are always empty; `log_connection_tested` compares a boolean with a text.
* *Payloads*: the webhook's parsing and challenge, bodies of answers, lists. Error rows are numbered
  off by one for webhooks and where rows are blank.
* *Read-only routers, front end, scripts, application shell*: no state of the synchronisation.
* *Enhanced engine*: the second direction of its `trigger_sync`, and its `handle_webhook`,
  are those of the standard engine around the same guards.
* *Rows beyond the read*: engines always read A2:ZZ and write from A2; `read_sheet_data`
  of the workbench counts from the header row and feeds a preview only.

What would come next: the parsing of a webhook's payload.
