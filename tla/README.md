# A TLA+ model of the DNO service

The repository is a "Do Not Originate" service: carriers look up whether a
phone number must not appear as a caller id, organizations maintain their own
numbers, and feeds (ITG trace-backs, NPAC porting events, the TSS text
registry) add numbers of their own. It runs as four processes (gateway,
query-service, portal-service, worker-service) over one database, PostgreSQL
behind a pooler or, locally, SQLite.

The code has few locks and no transactions around its handlers. What makes it
correct, or not, is how single SQL statements, per-process caches, background
goroutines and restarts interleave. That is what the modules here describe.

## 1. Inventory

| Part | State | Operations | Talks to |
|---|---|---|---|
| DNO list operations (`internal/service/dno.go`, `features.go`) | tables `dno_numbers`, `number_registry`, `audit_log` | `AddNumber`, `RemoveNumber`, `IngestITGNumber`, `ProcessNPACPortingEvent`, `SyncTSSRegistry` | called by portal handlers and by the bulk worker; invalidates caches, fires webhooks |
| DNO lookup (`dno.go`) | `dnoCache` of its process | `QueryNumber`, `BulkQuery` | reads `dno_numbers`, appends to the query log |
| TTL cache (`internal/cache`) | one map under a mutex | `Get`, `Set`, `Delete`, `DeletePrefix`, eviction ticker | used for lookups and for analytics |
| Query log writer (`internal/querylog`) | a buffer under a mutex | `Log`, ticker flush, size flush, `Stop` | table `query_log`; stopped by `boot.Serve` |
| Bulk worker (`internal/jobs`) | table `bulk_jobs`, one loop per process | poll, run, retry, hourly clean-up | `AddNumber` per record; the portal enqueues |
| Database start-up (`internal/db`) | advisory lock, schema, partitions | `withAdvisoryLock`, migrations, `EnsureQueryLogPartitions`, seed | every service at its start |
| Shutdown (`internal/boot`) | the process | `Serve` | writer, HTTP server |
| Webhooks, analyzer, compliance, ROI (`features.go`) | `webhook_subscriptions` | subscription CRUD, fire and forget | external receivers |
| Listing, analytics, audit pages, exports (`dno.go`) | `analyticsCache` | reads | replica, if there is one |
| Authentication, API keys (`auth.go`, `apikey.go`) | `users`, `organizations.api_key` | login, refresh, generate, revoke | middleware, client |
| Gateway (`cmd/gateway`) | none | proxy, one retry | the three services |
| HTTP handlers, config, metrics, models | none | decoding, routing | - |
| Client (`client/`) | tokens in local storage | pages, token refresh | gateway |

What is hard, part by part, and what has to hold:

* **List operations.** A call is two or three statements, and any other call may
  run between them or an error end it there. Correct means: a number
  that a feed has listed leaves the list only after that feed's authority has
  passed to another, system rows are never handed to an organization, an organization
  loses a number only by its own removal or after a disconnect, the audit trail
  accuses nobody wrongly, and the TSS sync covers what it is there to cover.
* **Lookups.** Read, then store; update, then invalidate; several processes with
  a cache each. Correct means that staleness is bounded and explained.
* **Cache.** Capacity and expiry must not be visible as a wrong answer.
* **Query log.** Concurrent flushes, failures and the shutdown. Nothing twice,
  nothing unnoticed, nothing waiting for ever.
* **Bulk worker.** Crashes, ignored errors, retries, manual resets, two workers.
  A completed job must be whole and final, and every job must end.
* **Migration lock.** One at a time, nobody locked out.
* **Requests through the gateway.** A retry while the first attempt may still be
  running, a service that dies, events that are goroutines. Correct means that
  every client gets an answer, that the answer agrees with the tables, and that
  subscribers hear of real changes only, once each.
* **Reads.** An answer put together from several statements, partly from a cache
  or a lagging replica, while rows change. Correct means that it agrees with itself and,
  element by element, with the list of some moment.
* **Sessions.** Self-contained tokens on the server's side, a shared token store
  and one refresh per tab on the client's. Correct means that rights end, and
  that one refresh runs at a time.

`PROJECT.json` lists each hazard at its line with the properties that watch it,
or the reason why there is none yet.

## 2. Modules

| Module | Models | Used by |
|---|---|---|
| `DNOTable` | the two tables and every SQL statement on them as an operator | `DNORegistry` |
| `DNORegistry` | the five list operations, statement by statement | `MCDNORegistry`, `DNORegistry_proofs` |
| `TTLCache` | contents of one cache and its operations | `LocalCache`, `DNOLookup` |
| `LossyMap` | *abstract*: what a user of the cache may rely on | `LocalCache` |
| `LocalCache` | one cache in use; implements `LossyMap` | `MCLocalCache`, `DNOCache_proofs` |
| `DNOLookup` | lookups over the caches of several processes against changes | `MCDNOLookup`, `DNOCache_proofs` |
| `QueryLogWriter` | writer goroutines, transaction, `Serve`'s shutdown | `MCQueryLogWriter`, `QueryLogWriter_proofs` |
| `BulkWorker` | jobs, workers, crashes, manual reset | `MCBulkWorker`, `BulkWorker_proofs` |
| `MigrationLock` | instances that start, sessions, lock | `MCMigrationLock`, `MigrationLock_proofs` |
| `Gateway` | routes and the two attempts of the retrying proxy | `ChangeRequests` |
| `WebhookDelivery` | subscriptions, events and their goroutines | `ChangeRequests` |
| `ChangeRequests` | *composition* of `Gateway`, the handlers over `DNOTable`, API keys and `WebhookDelivery` | `MCChangeRequests`, `ChangeRequests_proofs` |
| `PhoneNumber` | `normalizePhone` and the pattern of a valid number | `BulkQuery`, `TrafficAnalyzer` |
| `BulkQuery` | the two passes of a bulk answer as operators, and what each entry alone would get | `ReadRequests` |
| `TrafficAnalyzer` | the analyzer's lookups and report as operators | `ReadRequests` |
| `NumberPages` | page size, page count and the pages of a sorted list | `ReadRequests` |
| `AnalyticsSummary` | what the summary and the compliance report read, in their order | `ReadRequests` |
| `ReadRequests` | the requests that read, statement by statement, beside changes | `MCReadRequests`, `ReadRequests_proofs` |
| `Sessions`, `Sessions_proofs` | tokens, middleware, and the client's interceptors in two tabs | `MCSessions` |

An operator called `X_Something` with the comment "Mutant of X" is a plausible bug in
`X`. `PROJECT.json` pairs each property with one that breaks it; the
specifications themselves never use them.

### DNOTable, DNORegistry

`dno` maps each UNIQUE(phone_number, channel) key to a row or `NoRow`. A row
keeps the columns that some WHERE clause or upsert distinguishes: dataset,
status, organization. Reasons, timestamps, number types of DNO rows and ITG
metadata are left out. `audit` is a set of (action, organization, number);
repeated entries are one.

A call in flight is a program counter with its arguments. `AddNumber` is
`AddUpsert`, `AddSelect`, `AddAudit`; `RemoveNumber` is `RemoveUpdate`,
`RemoveAudit`; a porting event is `NPACPort`, `NPACClear`. `IngestITGNumber`, a
disconnecting event and the sync are one statement each. Error paths: the id
SELECT may fail (the call ends with the row in place and no audit entry), the
driver may not know how many rows a removal took (`RemoveGivesUp`: the row is off
the list, the caller gets an error, no audit entry), the audit INSERT and the clearing UPDATE may fail unnoticed. A statement that fails
with no effect and ends its call changes nothing, hence is no action. The portal
handler does not call `ValidateOwnership` before an addition, so neither does
the model. `Dialect` is the database: on PostgreSQL the TSS sync is always refused,
because it compares a BOOLEAN with 0, so `SyncTSS` is an action of SQLite only.

`listedBy` is a history: which feed (ITG, sync, NPAC disconnect) listed a key last.
The upserts of the feeds overwrite the `dataset` column, so a row's label says only who
came last; what must stay true of a number that was traced, or of one that an
organization added, cannot be said in terms of that label.

### TTLCache, LossyMap, LocalCache

Every cache operation holds the mutex, hence is one step. A Go range loop meets
entries in any order, so `Set` at capacity may drop *any* set of `EvictionCount`
entries; the count is one below a capacity of four, because the loop tests it
after deleting. `LossyMap` has no capacity, no eviction and no leftovers. The
refinement maps the entries `Get` would answer from (`View`); the clock is kept.

### DNOLookup

Several processes with a cache each; the query service looks up, portal and
worker change. A row is only active or not; a lookup's answer is the disjunction
over the covering rows, as in the SELECT. The gaps are: a lookup after its miss,
after its SELECT, and between the `Set`s of a bulk query; a change after its
update and before its invalidation. An addition or a removal may
end with an error before it invalidates (`AddFails`, `RemoveFails`). System changes invalidate nothing. A hit is a read of `cache` and
needs no action.

Two history variables serve the properties alone: `seen` remembers when the
table last gave each answer, `tainted` marks entries that no invalidation will
reach any more.

### QueryLogWriter

An entry is one call of `Log`. A flusher (the loop, one goroutine per
buffer-filling `Log`, `Stop`) goes through "start", `Take` (swap the buffer
under the mutex), `Begin`, `Commit` or `Fail`. `Serve` is a phase: the signal
starts `Stop`, whose flush must end before the server is drained, after which
the process exits with what is uncommitted. Handlers log until the exit.
`Accepts = FALSE` is the PostgreSQL deployment, where the INSERT's `?`
placeholders are refused; the runs use `TRUE` (SQLite).

### BulkWorker

A job row with its status, its shared column `result_summary` (records, errors
object, message or NULL) and its counters. A worker is one goroutine:
`SelectPending`, `MarkProcessing`, one `AddRecord` per record, `Progress`,
`Finish` or `Reject`, and `RetryFailed` between jobs. Every UPDATE may be lost
(`MayLose`), since its error is ignored. `Crash` is a kill or a stop, which does
not wait. `ManualReset` is the statement the README's runbook tells the operator
to run. The hourly tick is not modelled.

### MigrationLock

An instance that starts asks for the lock, waits, migrates and unlocks. A lock
belongs to a session and is re-entrant in it. Connected directly, an instance
has a session of its own: nothing else uses its pool yet, so all statements
run on the one idle connection. Through a transaction pooler each statement goes
to any free session, and an idle session is closed in the end. Migrations that fail
are unlocked like others, and then the process exits (`Unlock` ends "down", counted with the crashes). Both deployments
are in the model; `pooled` is chosen at the start.

### Gateway, WebhookDelivery, ChangeRequests

A request is at most two attempts; each attempt that reaches a service is an
*execution* of its handler, `<<request, attempt>>`. `ConnectionBreaks` ends an attempt at
any time while its handler goes on, which is what makes the second attempt
interesting. `net/http` closes a request's body when an attempt fails, so only
requests without one can be sent again (`CanSend`; `client/src/api.ts` shows which those
are: a bulk lookup, an addition and an ingest have a body; a lookup, a removal
and the key calls put their parameters in the URL). `RoundTrip`'s answer to a hopeless second attempt is an
error and becomes a 502.

The handlers run the statements of `DNOTable` for additions, removals and ingests,
up to the answer, with the errors that come after the change (`AddSelectFails`,
`RemoveCountFails`): the client is refused what has been done. `AnswersAreTrue` claims nothing of a refusal.
`RefuseX` is any check before the first statement, including the middleware's, or
that statement's own error. `GenerateKey` and `RevokeKey` write `organizations.api_key`
of one organization; a key is named by the execution that made it. `FireWebhooks` starts a
goroutine per event; it reads the subscriptions and starts one per subscriber,
which makes one attempt. `Crash` kills a service with everything that runs in
it; `Restart` starts it again. The services' caches and the audit trail are the
subject of other modules and are left out here.

Histories: `committed`, the executions whose statement took effect, and `gone`, the
subscriptions that were deleted before it did.

### ReadRequests and the modules it extends

One request that reads is in progress at a time, because such requests do not
disturb each other; what disturbs is a change, which may come before each
statement. A behaviour is about one `topic`. A phone number is a short sequence of characters,
because normalisation is what a bulk query depends on: `Normalize` strips
separators, "+1" and then "1", in the code's order, and `Valid` asks for `Digits` digits
(ten in the code). `AnsweredAlone` is the reference a bulk answer is
compared with. Stored numbers may be any that
`Valid` lets in, also ones that begin with the digit 1, which `Normalize` strips.
Additions and removals of this process drop its cached summary (`Finish`), unless they
fail after the change (`GiveUp`). `ChangeElsewhere` stands for every change that drops none here: porting
events, ITG ingestion and the TSS sync of any process, this one included, and additions and
removals of others; `Replicate` brings the replica up to date at any time. A read of
the compliance report or a batch of the analyzer may fail or be cut off unnoticed, as in the code.

### Sessions

One user with one row, several requests in the tabs of one browser, and of other clients
(`Others`: a script, an API tool) that have none of the interceptors. A token is
a record of its type, its issue time and, if it is an access token, the role the row had then; the organization
is left out, because nothing changes it. `AuthMiddleware` takes any token that has not expired, as
`ValidateToken` does, which reads no `type`. The program's own pages send
access tokens only (`Start`); another client keeps a copy of either token and sends it at any time
(`StartOther`). A refresh token has no role: it passes the middleware and stops at `AdminOnly`. A call goes to
the middleware, may be answered 401, and then refreshes or is rejected (`OnUnauthorized`), as
`isRefreshing` says. `Leave` is `window.location.href = '/login'`: a page that is left takes its tab's calls with
it. `LimitByIP` is a budget per tick. `EditByHand` is a
change of role or active flag by SQL, for which the code has no handler.
Time advances only while no handler or message would take longer than `Lag`.

## 3. Runs

All configurations are small on purpose. The bounds, and why they are enough:

| Run | Question | Bounds |
|---|---|---|
| `dno_calls` | What can no interleaving of the list operations do? | 1 number, 2 organizations, 2 overlapping calls, all three channels, one kind of porting event (the two statuses clear the same rows, and nothing here reads the new owner), two initial registries: the number is toll-free without text, or unknown. Statements on different numbers touch different rows, so one number is where calls meet; two organizations are needed for "not mine"; two calls for every gap to hold another call. |
| `dno_tss_blocked` | Is the sync ever refused? *(violated)* | 2 numbers, 1 organization, 1 call |
| `cache_map` | Does a cache at capacity implement `LossyMap`? | 3 keys under 2 prefixes, capacity 2, life 2, clock to 5: every key can be evicted, expire and be set again |
| `lookup` | How stale can a cached answer be, and why? | 1 number with 2 keys, 2 processes, 1 lookup (of one or both keys), 1 change at a time in either process, system changes, life 1, lag 1, 3 ticks from the start, so an entry is filled, expires and is filled again |
| `qlog` | Where can an entry be, and does it always leave the buffer? | 3 entries, one of them refused by the table, buffer of 2: size, ticker and final flush all overlap |
| `qlog_exit` | Is everything stored at an orderly exit? *(violated)* | 3 good entries, no failing database |
| `bulk_single` | Is a completed job whole and final? | 1 worker, 2 jobs of 2 records, a progress update after each, 2 crashes, 3 selections of each job, lost updates, manual resets, foreign rows |
| `bulk_settle` | Does every job end? | 2 workers, 2 jobs of the same second, no crashes |
| `lock` | One migrates at a time, nobody is locked out? | 3 instances, 3 sessions, 2 crashes, both deployments |
| `changes` | Is every request answered, truthfully, and do subscribers hear of real changes once? | 2 requests, each a pair of a plan: change beside ingest, key or lookup beside bulk lookup; 1 number, 2 organizations, 1 subscription of either, 1 crash. Two requests are enough for an orphaned first attempt, its second and a change by another; a third would only add more of the latter. |
| `reads` | Is what a read answers right, although it is put together from several statements and caches? | 2 numbers of one digit, one of which is "1", the digit that is stripped, 2 changes, 1 logged query, pages of 1 and 2, thirteen lists with repeated, differently spelled and invalid numbers, batches of 1 |
| `sessions` | When do rights end, and is there ever a second refresh? | 2 reads in one tab, a login in another, a read or administrator's request of a script that keeps a copy of either token; access tokens of 1 tick, refresh tokens of 2, 4 ticks, 1 change of the user, 1 login or refresh per tick: a token expires and is renewed, a refresh token is sent as Bearer when its role is gone, and expires |

Bounds that are guards of the modules: `MaxTime` (clock), `MaxLag` (a lookup's
time between read and last `Set`; the code does nothing slow there), `MaxCrashes`
and `MaxStarts`. Symmetry is used for organizations and calls in `dno_calls`
and for the two alike requests in `sessions`, where no liveness is checked. Deadlock checking is off where the system
stops: after an exit, when all jobs are done, when every instance is up.

### What the runs show

`dno_calls`: a number that the ITG traced or the sync listed stays listed until an NPAC
disconnect lists its voice row anew (`TracedStaysListed`); a text row is never touched by NPAC events and
stays for good. A row with an organization's id leaves the list only by that organization's
removal, if no feed ever listed it, or by a porting event, if a disconnect was the last to list it
(`OwnNumbersLeave`). In both cases the second way is real: a disconnect rewrites `dataset` of whatever
voice row it meets to `auto` (`features.go:478`), and the next porting event deactivates all `auto`
rows of the number (`features.go:490`), so a traced number, and a number an organization keeps listed, go
off the list without a removal. No other route exists, which is what the two properties say.
A system row never becomes removable by an organization (`SystemRowsAreNotReclaimed`), an audit entry is always about a
row that exists and, for a removal, that its organization holds (`AuditSound`),
and a sync that is not refused covers every non-text toll-free number
(`SyncCoversAll`), although it skips numbers: a `tss_registry` row is always
active, so skipping is safe.

`lookup`: an answer is at most `TTL + MaxLag` old (`BoundedStaleness`) and a
stale one always has one of four causes (`StaleHasACause`): another process
made the change, a system operation did, a lookup stored after the invalidation
what it had read before the change, or an addition or removal failed half way.

`changes`: an "ok" is backed by a statement that took effect, a removal's "not found"
after a broken attempt is true, an addition is never applied twice
(`AnswersAreTrue`), every request is answered even if no service comes back
(`EveryRequestIsAnswered`), and a notice is about a committed change, sent once per execution and never to
a subscription that had been deleted before it (`NoticesAreDue`).

`reads`: each entry of a bulk query gets what it would have got alone, whatever
the cache holds (`BulkAnswersEach`). Walking through pages shows every row that stood
still, on condition that no row came in after the last count and none left the
filter (`WalkSeesUntouched`): without either the code does skip rows. A summary's groups
agree with its total when the list stood still, and its hits never
exceed what its hours hold (`SummaryAddsUp`); a stale cached summary has a cause
(`StaleSummaryHasACause`). An analysis counts each call once and blames only numbers that were
listed (`AnalysisIsJustified`), and a report that says "compliant" has earned it even when its reads
fail (`CompliantIsEarned`), because what is not read counts as zero.

`sessions`: a request is served only if the user was active within the life of the
token it was sent with, and in a role, or by the administrators' handlers, only if the row gave that
role within an access token's life, plus two handlers' time each (`RightsAreRecent`). So a role ends
soon, because refreshing reads the row again and a refresh token has none; being served at all
ends with the refresh token, seven days later, because the middleware accepts it (section "Met while
modelling"). With an access token's life as the bound for both, TLC finds the property violated. A tab has at most one refresh under way and never stops refreshing (`RefreshIsOwned`).

`qlog`, `bulk_*`, `lock`: see the comments above each property.

### Where code and documentation disagree

Two runs are expected to be violated. Each quotes what the repository says of
itself:

1. `SyncNeverBlocked` (`dno_tss_blocked`): one text row of another dataset makes the TSS sync
   fail as a whole, now and later (`features.go:442`).
2. `NothingLostByShutdown` (`qlog_exit`): the "final flush" comes before the server is drained
   (`serve.go:35`).

Three more have a property in their module and no run of their own. TLC finds
each violated within seconds after the change of the configuration named here:

3. `InvalidatedOnChange` of `DNOLookup`: README:363's "invalidated on add/remove" holds only inside the
   process that makes the change, which serves no lookups (`dno.go:292`). In
   `MCDNOLookup.cfg`: `ChangeProcs <- PortalOnly`, `SystemChanges = FALSE`, and this invariant.
4. `StuckJobsAreRetried` of `BulkWorker`: README:679's runbook says the worker retries jobs stuck in
   "processing", but the retry looks at failed jobs only (`worker.go:196`). In `MCBulkWorker_settle.cfg`:
   `Jobs <- OneJob`, `CreatedAt <- InOrder`, `Workers <- OneWorker`, `MaxCrashes = 1`, and this property.
5. `OneMigrates` of `MigrationLock`: README:615's advisory lock does not exclude behind a
   transaction pooler (`db.go:129`, `docker-compose.yml:36`). In `MCMigrationLock.cfg`: `Pooling <- OnlyPooled` and
   this invariant.

Met while modelling, visible in the modules, without a run of their own:

* An NPAC disconnect relabels a traced or an organization's own voice row `auto`, and a porting event
  then takes it off the list (`features.go:478`, `490`; `OwnNumbersLeave`).
* The TSS sync is refused by PostgreSQL: `text_enabled = 0` compares a BOOLEAN column with an
  integer (`features.go:441`, `db.go:392`; `Dialect`).
* A refresh token sent as Bearer is served for its seven days by everything behind `AuthMiddleware` that asks
  for no role, also after the user was deactivated: `ValidateToken` does not look at the `type` claim
  (`middleware.go:35`, `auth.go:150`; `StartOther`).
* A removal whose row count cannot be read answers an error with the row off the list (`dno.go:330`;
  `RemoveGivesUp`, `RemoveFails`, `RemoveCountFails`).
* `AddNumber` on an existing row keeps its dataset and organization while it
  answers "subscriber" (`dno.go:271`; `UpsertSubscriber`).
* The query log's INSERT is refused by PostgreSQL (`writer.go:93`; `Accepts`). The same
  holds for every statement of the bulk worker and for `GetBulkJobStatus`, whose `?` and `datetime('now')`
  are SQLite's; `BulkWorker` is the SQLite deployment.
* On PostgreSQL no webhook is ever notified: `WHERE active = 1` compares a BOOLEAN column
  with an integer (`features.go:158`, `db.go:383`), while the client's page says "Add a webhook to receive
  real-time DNO change notifications" (`WebhooksPage.tsx:130`; `Dialect`).
* An event goes to the subscribers of every organization, not of the one concerned
  (`features.go:158`; `Subscribed`).
* The key that an answer shows once need not be the stored one: after a broken
  connection the first attempt's handler may write its key after the second's
  (`apikey.go:35`; `KeyChangedBesides` in `AnswersAreTrue`).
* A spoofed number's count grows by its frequency at each occurrence, so `n` calls are
  reported as `n` squared (`features.go:294`). `TrafficAnalyzer` says so; the property is about the
  totals, which are right.
* A bulk answer is not in the order of its request (`dno.go:221`; `BulkAnswersEach` compares up to order).
* Logging out while a refresh is under way brings the tokens back (`api.ts:39`; `Logout`, `OnRenewed`), a
  password reset revokes no token (`auth.go:128`), refresh tokens are not rotated out,
  and `CreateUser` on PostgreSQL inserts the user and then answers an error,
  because the driver has no `LastInsertId` (`auth.go:193`).
* A lookup of channel `both` is refused by the CHECK of `query_log` (`db.go:233`;
  `Rejected`).
* `retryFailed` never gives up on a rejected job, whose `error_count` stays zero
  (`worker.go:196`; `RetryFailed`).
* With two workers a completed job may go back to processing (`worker.go:99`), and
  a manual reset after that completes it with no record processed (`worker.go:147`).
  `MCBulkWorker.cfg` with `Workers <- TwoWorkers` shows both: `CompletedIsFinal` and
  `CompletedIsWhole` are claims about one worker, as `docker-compose.yml` runs it, and the
  repository's README:591, "All services ... can be horizontally scaled", does not hold for
  the worker. `JobsSettle` is checked with two.

## 4. Fairness

* `QueryLogWriter`: weak fairness of the ticker, of each flusher's steps, and of
  `Serve`'s last two steps. A Go ticker ticks, the scheduler runs every ready
  goroutine, `BeginTx` has a ten-second context so a flush ends in a commit or a
  failure, and `Shutdown` waits five seconds at most. No fairness for `Log` and
  the signal.
* `BulkWorker`: weak fairness of each worker's next statement, of its retry ticker
  and of its restart (compose restarts it). Not of enqueueing, the operator or a
  crash.
* `MigrationLock`: weak fairness of each instance's steps; strong fairness of
  `Grant`, because PostgreSQL queues lock waiters in order; weak fairness of the
  pooler's idle timeout.
* `ChangeRequests`: weak fairness of dispatching a request, of giving up a hopeless attempt,
  of passing an answer on, and of each handler's next statement: Go's scheduler runs
  them, and every handler has a time-out or a context. None for restarts, for
  connections that break, for clients or for notices.
* The other modules make no liveness claim.

## 5. Proofs

`*_proofs` modules hold TLAPS proofs of the invariants and action properties
above, for all values of the constants. Each has a lemma `Invariance`:
`Spec => []IInv`, from one step per action, and its theorems follow.

* **DNORegistry_proofs**: `IInv` is `TypeOK`, `GoodTable(dno)` (both conditions on
  rows, as a predicate of the table so that statements can be shown to preserve
  it), `AuditSound`, `PendingAudits` and `LabelsAreLastFeeds`. `PendingAudits` is the strengthening
  `AuditSound` needs: a call that is about to write its entry holds a
  row that justifies it. It stays true because no statement deletes a row or
  changes a row's organization (lemma `KeepsRows`). Assumes `NullsAreNotValues` and
  `InputsAreValid`. `LabelsAreLastFeeds` ties the `dataset` column to the calls made so far: it
  holds because each feed's upsert writes its own label and an organization's never rewrites one (lemmas
  `UpsertSubscriberGood`, `UpsertSystemGood`). `TracedStaysListed` and `OwnNumbersLeave`, which speak of what the feeds
  said and not of labels, follow from it and the WHERE clauses. The number of phones, organizations and calls is arbitrary.
* **DNOCache_proofs**, over `LocalCache` and `DNOLookup`, which share lemmas about
  `TTLCache`'s operators. For one cache by itself, `CacheIInv` is `CacheTypeOK` and "at most MaxSize
  stored", by cardinality of the evicted set, for any set of keys. The refinement
  `CacheImplementsLossyMap` proves that initial states map to initial states and
  each step to a `LossyMap` step or a stutter; the eviction ticker is the stutter.
  For the caches of all processes against the table, `TimeInv` says that `seen` is never in the future, what a
  lookup holds was seen at its read or later, and an entry expires at most
  `TTL + MaxLag` after its answer was seen. `CauseInv` says that a lookup whose
  answer differs from the table has its number in `raced`, and that an entry whose
  value differs, servable or not, is tainted or has a change of its own process
  under way. Without the part about lookups a `Set` could store an unmarked stale
  answer, so `StaleHasACause` alone is not inductive.
* **QueryLogWriter_proofs**: `Quiet` (a batch is held only in "begin" or "tx", an
  entry not yet logged has no goroutine, and `Stop`'s place fits `Serve`'s),
  `OnePlace` (the property, entry by entry) and `Stopped` (before `Stop`'s swap
  early entries may be in the buffer, after it they may not).
* **MigrationLock_proofs**: `Counted` (nobody holds the lock iff the depth is zero,
  and who waits does so on a session) and, for direct connections, `DirectLock`: the session of an instance in the
  migrations is the holder, at depth one, and a held lock has such an instance.
* **Sessions_proofs**: `RefreshIsOwned` is inductive with `TypeOK`: a refresh
  begins only where the tab's flag is down, and ends or leaves the page with it.
  `RightsAreRecent` is not: it needs `RowHeld` (an active row has its role now, no right was held in the
  future), `Backed` (the user was active, for an access token with its role, at most `Lag` before a token was
  issued, because reading the row and signing are two steps; so of every stored or kept token, however old)
  and `Sound` for each call: what it is about to sign was
  read while the role was held, and what the middleware admitted had not expired.
  The bound is then the sum: `Lag` before the issue, the token's own life to the
  admission, `Lag` to the answer. Assumes `SessionParameters`.
* **BulkWorker_proofs**: for any number of jobs, workers and records, crashes and manual
  resets included. `Sound` (types, and what a worker at each place of `processPending`
  holds), `TriedInv` (a worker's place in the file has been reached; a job with an errors
  object or completed had every record tried) and `OwedInv`, which `OncePerRun` needs: the
  attempts at record `i` made so far, plus the workers on the job that have yet to come
  to `i`, are no more than the times the job was selected. An attempt moves one from
  the second to the first, a crash only lowers the second. What a completed job's
  columns say, and that nothing touches it again, needs `SoleInv`: the job of a worker
  under way is not completed. Those theorems, `CompletedJobsAreWhole` and
  `CompletedJobsStay`, assume `OneWorker`, as `docker-compose.yml` deploys it; with two
  they are false (section 3).
* **ChangeRequests_proofs**: for any requests, plans, subscriptions, attempts and crashes. `Begun`
  (only a dispatched attempt executes, and a request with a body is dispatched once),
  `Committed` (a handler's place tells whether it has committed; subscriptions it
  saw deleted stay deleted), `NoticeInv` (a notice waiting or received belongs to an execution that
  committed, and to a subscription that asked for it), `RemovedInv` (what a removal
  matched can be matched again, or the ITG took it) and `KeyInv` (the key of a finished
  `generateKey` is stored, or another write came between). `NoticesAreDue` and
  `AnswersAreTrue` follow; neither is inductive by itself, since both speak of what a
  handler did some statements, or another attempt, ago.

* **ReadRequests_proofs**: for any numbers, lists, limits, page sizes and changes. `DatabaseInv`: time
  stamps only rise, the trail is only appended to, the replica is an earlier
  database. `Posed`: a request is at a statement of its topic, and what it reads now is among its `moments`;
  every topic rests on that, since its properties say what was so at some moment. On top of it, one conjunct per topic:
  - `WalkInv`: a steady row was on a page, or at least as many rows come before it
    as the pages so far hold. A change can only put more rows before it, because
    stamps only rise and no row leaves (`NoFewerAbove`); a page that begins at its place or before either
    has it or ends before it (`OnThePage`, by cardinality, whatever the order among equal stamps); and the last page the client is told of leaves
    no rows over (`PagesHoldAll`), as long as the last COUNT still holds. `WalkSeesUntouched` speaks of the end
    of a walk only and is far from inductive.
  - `SummaryInv`: each entry of a summary under way was read from one of the moments, so with a single moment, an
    up-to-date replica and no invalidation the stored one is the list's; the hours are read after the
    queries and hits and the log only grows.
  - `ComplianceInv`: what the report holds besides zeros was so at a moment, read or not (`Grounded`).
  - `AnalysisInv`: the same for what an analysis found, and for the numbers of the batches it is done with; the
    report it answers with is one whose counts add up.
  - `BulkInv`: a bulk request holds what its first pass left of its list and of what the cache said, and
    answers with what the second pass makes of that and the numbers the SELECT returned.

  What is left is what the passes compute, for lists of any length. They are recursive functions of the
  position, and the proof goes along it, by an induction of the module's own: the library's
  `WFMin` gives every set of numbers a least one (`LeastNumber`), so a set with zero and all
  successors is `Nat` (`Induction`); hence the function exists (`PathExists`), without which its equation could
  not be used, and what each step keeps holds all the way (`AllTheWay`). Along the passes:
  - `Unseparated` and `Normalize` give symbols (`UnseparatedTyped`, `NormalizeTyped`), and
    `MeansNormalized` says that a raw number means `n` by the reference's spellings exactly when `Normalize` makes it `n`.
  - `Entering` says of the first pass after `i` entries that its results and the waiting numbers' answers are,
    counted over any set of answers, the outcomes of the first `i` entries; `Giving`
    the same of the second pass. Counting over every set gives length, permutation, hits and
    the log at once (`AssemblyAnswers`): the one statement that survives the change of order.
  - `ReportAddsUp`: after `i` calls hits and misses add up to `i`, and the datasets to the hits.
  - `ViewAddsUp`: the groups of the active rows partition them (`DatasetsAddUp`, `ChannelsAddUp`, by
    cardinality), so entries of one unchanged list agree.

  Assumes `InstanceParameters` (finitely many numbers, lists of sequences of symbols, initial tables and stamps of
  the right type), `NumberFormat` (a number has a digit at least, "1" is a digit and "+" is not) and `PageSizes`.

Every inductive invariant was first checked by TLC, as an invariant of the run of its module.

Named assumptions on constants are as weak as the code justifies: null values are
not rows, inputs are valid channels, `TTL` is a natural number, `MaxSize` is
positive, `OwnSession` is injective. TLC evaluates them on every run.

Only model-checked:

* The liveness properties `EveryEntrySettles`, `JobsSettle`, `EveryoneStarts` and
  `EveryRequestIsAnswered`: temporal reasoning under fairness is outside what the prover does.

Every other property of a passing run is a theorem.

## 6. Not modelled, and the plan

* `ValidateOwnership`: a read that nothing else consults. (A disconnecting event does not
  write the registry, so ownership goes on calling the number assigned: `features.go:473`, `NPACDisconnect`.)
* `EnsureQueryLogPartitions` and the clean-up: idempotent single statements around calendar arithmetic.
  (`AddDate(0, i, 0)` from the 29th to the 31st skips a month: `db.go:462`.)
* Seed data: a local start-up tool that runs alone.
* The streaming CSV export (one SELECT), the ROI formula, list reads of users, organizations, webhooks and
  jobs: no state, no interleaving.
* Configuration, metrics, health checks, CORS, time-outs of routes, static files, generated API documentation,
  and the pages of the client apart from the token refresh and paging.
* Several users at once in `Sessions`, several organizations' keys in `ChangeRequests`: they touch different rows.

Planned: relations between the modules that are argued here in words. `DNOLookup` reduces a row to whether it
is active, and leaves statements of `DNORegistry` out that change nothing else; `ChangeRequests` runs the same
statements of `DNOTable` as `DNORegistry`, up to the answer. Both are refinements that could be stated and proved.
