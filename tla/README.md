# ttv-ccu-bench: a TLA+ model of the API and its storage

`ttv-ccu-bench` is a NestJS API (`src/api`) for a moving-job marketplace:
customers create jobs, workers accept them, payment gateways notify payments.
It runs as a Node.js cluster, one process per CPU, over one PostgreSQL server
and five Redis instances (`src/docker-compose.yml`); the rest of the repository
seeds the tables (`src/seed`), loads the API (`src/k6`) and drives the two
(`src/scripts`).

This directory models what the services do to the state they share, statement
by statement, with the failures the deployment admits: queries that fail, lost
answers, processes that die, a database server that restarts and loses
unflushed commits, Redis keys that expire or are evicted, Redis instances that
restart empty, subscriptions that break. Line numbers below
refer to the files of `src/`.

## 1. Inventory

| Component | State | Operations | Interacts through |
|---|---|---|---|
| PostgreSQL (`seed/01_schema.sql`, `docker-compose.yml:5-40`) | `jobs`, `ledger_entries`, `payment_ipn_log`, `audit_log`, `users`, `workers`, `sos_incidents`, `otp_codes`; the WAL | SQL statements; restart; WAL flush (`synchronous_commit=off`, line 28) | every service |
| Pool (`database.module.ts`) | at most 10 clients per process, the checked out ones | `connect` (5 s timeout), `query`, `release` | every service of one process |
| Payments (`payments.service.ts`) | none of its own | `handleWebhook` | Postgres |
| Jobs (`jobs.service.ts`) | `job:accept:<id>` in redis-cache; `queue:matching` in redis-queue | `calculatePrice`, `createJob`, `acceptJob` | Postgres, redis-cache, redis-queue, redis-geo |
| Auth (`auth.service.ts`) | `otp_rate:<phone>`, `otp:<id>` in redis-cache; `session:<user>` in redis-session | `requestOtp`, `verifyOtp` | Postgres, both Redis |
| JWT middleware (`jwt-auth.middleware.ts`) | a cached secret | `use`, before every route that is not public | redis-session |
| SOS (`sos.service.ts`) | `queue:sos:p0` in redis-queue | `trigger` | Postgres, redis-queue, pub/sub |
| Gateway (`events.gateway.ts`) | sockets, rooms, the subscription | `afterInit`, `handleConnection`, `handleDisconnect`, `handleGpsUpdate` | pub/sub, redis-geo |
| Workers (`workers.service.ts`) | `workers:geo:active`, `worker:gps:ttl:<id>` in redis-geo; an in-process cache of searches | `updateGps`, `getNearby` | redis-geo, also written by the gateway and read by `createJob` |
| Cluster (`cluster.ts`, `main.ts`) | the processes | fork, death, fork again | all of the above die together |
| Redis clients (`redis.module.ts`) | an offline queue per instance | at most 3 retries per command; a command whose answer is lost is sent again | |
| Seed (`03_seed_jobs.js`, `*.sql`) | the initial rows and positions | batches of inserts, run before every load test, and again after a failure | Postgres, redis-geo |

What is hard about each, and what makes it correct:

* **Payments.** Gateways deliver at least once, and concurrently. Recording,
  booking and marking paid must be one step; one `(gateway, transaction_id)`
  must move money once; what a gateway is told must stay true; no path may leak
  a client of the pool of ten.
* **Accepting.** Two workers race for a job through a Redis key that may expire,
  be evicted, or be deleted by a loser, and an `UPDATE` that does not know of
  the key. The audit row is a statement of its own. A job must have one winner
  and keep it, and the audit log must name it.
* **Creating.** A pool client is held over two Redis calls; a failing `LPUSH`
  becomes the error of a request whose job is committed. What is queued must
  exist, what is acknowledged must stay.
* **All three on one row**, which each updates without knowing of the others:
  jobs must only move forward and no circle of waits may close.
* **Auth.** A counter that must expire but is given its expiry by a
  second command; an OTP that must be used once, read and deleted by two
  commands; a session that outlives or dies before its tokens.
* **Middleware.** It looks for the session key of the user, not of the login, at
  one moment: who holds a valid token must be let in, and nobody else as a user.
* **SOS and gateway.** An incident must reach an admin: insert, push, publish and
  update are four steps, pub/sub reaches only who is subscribed, every process
  rebroadcasts through a cluster-wide adapter, and the adapter is set while
  sockets already connect.
* **Nearby.** A cache filled after an await, evicted only when large, keyed by a
  cell but filled by a search around a point; a GEO set that nothing ever removes
  from.
* **Seed.** Batches in separate transactions, and a second run over what a failed
  one has left; a price formula that exists twice.

`PROJECT.json` lists every hazard at its line, with the property that covers it
or the reason why none does.

## 2. Modules

| Module | Models | Kind |
|---|---|---|
| `Postgres` | tables, transactions, unique-index and row-lock waits, asynchronous commit, restart, pools | shared state and statements |
| `Payments` | `handleWebhook` | one action per awaited call |
| `Settlement` | what the webhook promises | abstract specification of `Payments` |
| `PaymentsProofs` | | proofs about `Payments` |
| `AcceptJob` | `acceptJob` | one action per awaited call |
| `CreateRequests` | the requests of `createJob` and the ids they draw | constants and their assumption |
| `CreateJob` | `createJob` | one action per awaited call |
| `Marketplace` | the three handlers together | composition with `INSTANCE` |
| `MarketplaceProofs` | | the composition's inductive invariant and the proofs about it |
| `Auth` | `requestOtp`, `verifyOtp` | one action per awaited call |
| `Access` | `JwtAuthMiddleware.use` over the sessions of `Auth` | extends `Auth` |
| `Alerts` | `SosService.trigger`, `EventsGateway`, the start and death of processes | one action per awaited call or callback |
| `Nearby` | `updateGps`, `gps:update`, `getNearby` and its cache | one action per command or await, with a clock |
| `Price` | `calculatePrice`, the copy of its formula in the seed script | pure operators |
| `Seed` | `03_seed_jobs.js` | one action per awaited statement |
| `AcceptProofs`, `CreateProofs`, `AuthProofs`, `AlertsProofs`, `NearbyProofs`, `SeedProofs` | | proofs about the modules they extend |
| `MC*` | small instances | constants for TLC |

### Postgres

`db` is what a statement sees committed; `disk` is what a restart recovers;
`txn[c]` is the write set of the open transaction of request `c`; `held` is the
set of requests that have a pool client. A request (`Clients`) has at most one
client at a time, and lives in the process `Home[c]`.

* A row that request `c` inserts carries `c` as its id (the `BIGSERIAL`): the
  tables stay sets and a row that is inserted twice is still seen.
* `KeyInFlight`, `RowLocked`: an `INSERT` of a key and an `UPDATE` of a row that
  another open transaction has inserted or updated wait. These are PostgreSQL's
  rules at `READ COMMITTED`, not code of the repository.
* `Apply` publishes a write set. With `synchronous_commit=off`
  (`syncCommit = FALSE`) the disk gets it later, in `WalFlush`; commits reach
  the disk in their order. `PgRestart` puts `disk` in the place of `db` and
  drops the write sets.
* `CheckOut` waits for a client; the timeout is an action of the services.

Between the API and the server there is nothing: the API connects to `postgres`
directly (`docker-compose.yml:186`), the pgbouncer container is not on its path.

Left out: columns nothing reads (`payload` is the notification itself,
timestamps, coordinates, price), the tables that `Auth`, `Alerts` and `Seed`
keep themselves, the server's `max_connections`, and the ledger rows that `03_seed_jobs.js` inserts
for its COMPLETED jobs: `db.ledger` holds what the services insert, and no
service reads the table.

### Payments

`pc[r]` is the statement delivery `r` issues next, `dto[r]` its body.
`Connect` (lines 11-13), `InsertIpn` (15-28: `ON CONFLICT DO NOTHING`, with the
branch on `rows.length`), `InsertLedger` (32-38, with the foreign key on
`job_id`), `UpdateJob` (40-43), `Commit` and `AnswerProcessed` (46-53),
`AnswerDuplicate` (26-27 and `finally`), `QueryFails` (any `await` rejects),
`Abort` (`catch` and `finally`), `ConnectFails` (line 11 is outside the `try`).
The commit and the arrival of its acknowledgement are two actions: in between
the server may restart, the answer may be lost, the process may die.

### AcceptJob

`stage[a]` and `bid[a]` are a request's control point and arguments,
`acceptKey[j]` the Redis key. The actor is a `users.id` (`user.sub`), but
`jobs.worker_id` references `workers`, hence `NotAWorker`. `KeyLost` is the
expiry after 300 s, the eviction (`allkeys-lru`) and the restart of
redis-cache, at any time. `SetNxUnanswered` is a `SET` that took effect and is
sent again by ioredis; `EndUnanswered` a last call whose answer is lost.

### CreateJob

`at[c]` is a request's control point, `queue` the list `queue:matching`. The
client is held from `Connect` over `Push` and `Search` to `Abort` or the end.
`PushUnanswered` queues a job that will be queued again, `PushRejected` is a
full redis-queue (`noeviction`, nothing pops), `QueueLost` its restart.
`NewJob[c]` is the id that the insert draws.

### Marketplace

Instances of the three services over the same `db`, `disk`, `txn` and `held`.
Each service has been written as local actions (`Local`), and what the death of
a process (`Die`) and of the server (`LoseServer`) do to its requests;
`Marketplace` lets all services suffer one death together.
`MarketplaceAssumption` states what the services assume of their constants, and
that a client is one HTTP request, for one endpoint: the three sets of requests
are disjoint.

### Auth

`rate[p]` and `expiring` are the counter `otp_rate:<p>` and whether it has an
expiry, `otp[a]` and `session` the keys of the same names, `rows` and `users` the
tables. `asked[a]` and `login[v]` hold the control points. `Incr` (with the
branch of lines 19-22), `Expire`, `InsertCode` and `SetOtp` are the awaits of
`requestOtp`; `Get` (with the refusals of lines 41-44), `Del`, `Consume`,
`Upsert` and `SetSession` those of `verifyOtp`. A call that rejects and a
process that dies leave the same state, so they are one action (`AskFails`,
`LoginFails`). A client presents the `request_id` of an answer it was given, and
any code. The queries go through `pool.query`, which holds a client for one
statement: the pool and the durability of the two tables are left out.
`IncrUnanswered` repeats an `INCR` while the counter is below `MaxRate`, which
bounds nothing but repetitions. A user is its phone.

### Access

`call[c]` is a request at the middleware: `Public` (lines 39-45), `NoToken` and
what `jwt.verify` refuses, `BenchmarkToken` (54-58), `Verify` and then the one
`GET` of `session:<sub>` (68-73). A token is the login that it was signed for; it
names the user, so the session that it needs may be that of another login.
`TokenExpires` may happen at any time; `lost` remembers whose session went
while a token was valid, which is an eviction or a restart of redis-session.
That a session does not end before the tokens of its user is why both have the
same 24 hours and the token is signed first: the model takes it for granted.

### Alerts

`step[t]` is the control point of trigger `t`, `incident[t]` its row; `Insert`
(16-25), `Push` (27-37), `Publish` (39-40) and `Update` (42-52) are the awaits of
`sos.service.ts`, each of which may fail before or after its effect (`CallFails`)
or be sent again (`Resend`). `boot[p]` is how far process `p` is: `Start` is
`bootstrap`, after which the process listens; `WaitEnds` and `SetAdapter` are the
two `waitReady` of `afterInit`, which end with the connection or after ten
seconds; `Subscribe` is the answer to the subscriptions. A socket joins
`admin:all` in the adapter of the moment (`HandleConnection`), which is replaced
once: `socket[s].adapter` says whether it is in the room of the present one.
`Publish` puts an alert into the `inbox` of every subscribed process; `Relay`
emits it to the local room and hands it to the adapter (`outbox`), `Forward` is
the adapter's own publication (`SendPacket`), `EmitPacket` its delivery elsewhere.
The adapter publishes on the client that publishes the alerts (lines 30 and 41 of the
gateway), so ioredis repeats a packet whose answer is lost: `ForwardUnanswered`
delivers it and leaves it in the `outbox`, where it waits to be sent again, or for
the process to die of it. Nobody recognises the repetition: `resent` counts them, and
`CopiesBounded` allows one more copy for each. `Unlink` loses what is on its
way to a process; `Link` is ioredis reconnecting and subscribing again. `Reject`: ioredis gives up on commands that wait for a
connection after three retries, nobody handles the rejection of those of the
adapter, and Node 20 ends the process, which `cluster.ts` forks again (`Die`).

### Nearby

`geo`, `alive` and `cache` are the GEO set, the 45 s keys and `nearbyCache`.
`GeoAdd` and `SetAlive` are the two commands of the pipeline of `updateGps`,
which may break between them (`PipelineBreaks`: `exec()` resolves all the same,
and the worker is told `ok`); `HandleGpsUpdate` is the gateway's. `Ask` looks into
the cache (25-31), `Search` is redis-geo executing the search, `Store` the answer
arriving (45-55): the entry counts its age from there. The clock `now` counts
parts of `CACHE_TTL_MS`; `SearchMax` bounds a search, which ioredis ends after
its retries. A place has a cell and a set of places in reach of it: what a
cell's first customer finds is what all of the cell are told. The comment on
`workers.service.ts:21` speaks of two seconds and four decimals, the code of five
and three; the model takes the code.

### Price and Seed

`Order` is the range of the DTOs, `Total` and `Breakdown` the formula of
`jobs.service.ts`, `SeedPrice` that of the script. In `Seed`, `at` is the stage of
the script, `todo` what it has still to insert, `txn` the open batch of jobs.
`InsertUsers` (50-78), `InsertProfiles` (94-125), `GeoAdd` (136-150), `InsertJobs`
(172-217), `InsertLedger` (219-239) and `CommitBatch` (241-252) are its
statements; `Fail` is any rejection, `Start` another run over what is there.
`ON CONFLICT DO NOTHING` protects users by their phone, but not profiles: a user
gets one from every run. The order in which rows are taken is left open.

## 3. Runs

| Run | Question | Instance |
|---|---|---|
| `payments` | Do the tables stay consistent, is nobody charged twice, does no client leak, does every delivery end, is the handler a `Settlement`? With synchronous commits: are answers durable and payments permanent? | 3 deliveries, 2 processes, all three transactions open at once; PENDING/SUCCESS of one key, a second key, a job without a row |
| `payments_pending` | finding: a SUCCESS after a PENDING is taken for a duplicate | one key |
| `accept` | Does a job have one winner, named by the audit log? Does no client leak, does every accept end? | 3 requests for one job, a worker and a user who is none, a pool of 1 |
| `create_error` | finding: an error is answered for a job that has been created | 3 requests, a pool of 1, a queue for 2 |
| `market_one_job` | Do accepting and paying for one job at once leave it with its worker, its payment and its audit row? Does the invariant of the proofs hold? | 2 accepts by 2 workers, 2 payments, 1 job, synchronous commits |
| `market_all` | Does creating, accepting and paying with shared pools keep the pools accounted for and end? Does a queued job exist, does a created one stay? | 1 create, 1 accept and a payment delivered twice, of the new job, pools of 1, a queue for 1 |
| `auth` | Does a used OTP stay gone, do table and Redis agree on what was verified, is a session earned by a code sent to its user, is a valid token honoured? | 2 asks, 2 verifications, 1 request with a token, 2 phones, 2 codes, a limit of 1 |
| `auth_once` | finding: one OTP opens two sessions | 1 ask, 2 verifications |
| `auth_refusal` | finding: a phone is refused for good | 5 asks of one phone, the limit of 3 |
| `alerts` | Is what is shown stored and queued, does the adapter multiply an alert by the processes at most, but for the packets that are repeated, does who is in the room hear, does every process relay again? | 1 trigger, 2 processes, 1 socket at either, 2 sendings of a command, 1 repeated packet, 2 deaths besides those that the alerts cause |
| `nearby` | Is a worker who stands still found where he stands, and is the cache bounded? | 1 worker, 3 places in 2 cells, 2 overlapping searches, 1 report, a TTL of 2 ticks, a search of 1, 4 ticks, room for 1 entry |
| `seed` | Is the seeded ledger balanced at the API's prices, and does "Seed Complete" mean it? | 3 accounts in batches of 2, 2 batches of 2 jobs, 2 runs |

Every run over `Postgres` but `market_one_job` starts with `synchronous_commit` on or off.

Why the bounds are enough to be interesting: in `payments` three transactions
are open at once, so that one can hold its key, wait for a row that a second has
updated, and be waited for by a third; a body names a job that does not exist,
so the foreign key fails; three accepts are needed for the loser of one race to
delete the key under the winner of another; a queue of 1 is full after a push
that is repeated; pools of 1 make requests of one process wait for each other. Crashes are not counted: processes and the server may die in any state,
any number of times. In `auth` the two verifications can present one OTP or two,
of one phone or two, with equal codes or not. The state spaces are finite
because every request runs once. In `alerts` two processes are needed for relays
to be forwarded, and two sendings for copies to be told from repetitions; one repeated
packet shows three copies of one PUBLISH, so that the bound without `resent` fails. One
socket is enough: sockets do not act on each other, and it may connect to either
process, before or after the adapter is set. In `nearby` two places share a cell
but not their reach, and four ticks let an entry be stored, age, and be found
too old by a later search; `Count` is met only by larger sets of workers, which
do not fit in the run, and which the theorem covers. In `seed` two of three
accounts fill a batch, so that one fails with part of the accounts inserted, and
a second run meets what the first left.

Deadlock is not checked where the system may stop: the runs over `Auth`, `Alerts`
and `Seed` end when their requests or runs have, and that of `Nearby` with its
clock.

Each property of a passing run has a mutant in `PROJECT.json`: a change of a
definition, such as a dropped index wait or a missing release, that the run
refutes. `*Spinning`, `*Leaking`, `EntriesSwapped` and the other operators
marked "Mutant of" in the modules are these changes; nothing else uses them.

### synchronous_commit

The deployment sets `synchronous_commit=off`, and `scripts/rollback.sh:29`
itself lists this among what it restores. The variable `syncCommit` is either
from the start. With it off, a restart of the server may take back acknowledged
commits. `SettlementAtomic`, `NoDuplicateCharge` and `ImplementsSettlement` hold
all the same: a transaction is lost or kept as a whole and in order, which is
the action `Forget` of `Settlement`. `AnswerIsDurable`, `PaymentsArePermanent`,
`AcceptedByOne`, `AuditMatchesJob`, `QueuedJobExists`, `CreatedIsDurable` and
`JobsMoveForward` are conditional on `syncCommit`; the mutant `ApplyLazily` shows
what breaks without it.

### Fairness

`FairSpec` assumes weak fairness of each request's own handler: a query that was
sent is answered or fails, an `await` goes on, and a wait for a pool client
ends after `connectionTimeoutMillis` (`database.module.ts:16`). Nothing makes a
gateway send, a query fail, a key expire, a process die or a server restart.
Waits on locks are not given fairness of their own: the handlers of the others
must end them. Client waits have a timeout, so the liveness properties are
about what has none: a transaction that waits for another's lock.

`RelayRecovers` assumes no more than that the start of a process goes on (`WF` of
`GoesOn`): its two waits have a timeout of ten seconds, and a subscription is
answered while the connection is there. That the connection comes back is its
premise, not an assumption: it says what follows if it does. It is about the
outages, in which a process may die of its own subscriptions over and over.

`Auth` assumes weak fairness of the handlers and of `RateExpires`: a key with an
expiry goes when its time is over. Eviction is not fair: nothing makes a cache
that is not full forget a key.

## 4. Findings

* `payments_pending`: `payments.service.ts:24` says a conflict "is a duplicate —
  return cached result". The key does not include the status, so a SUCCESS that
  follows a PENDING or FAILED notification of the same transaction is dropped,
  answered `idempotent: true`, and never settled.
* `create_error`: `jobs.service.ts:49` calls the push "non-blocking,
  fire-and-forget". It is awaited inside the `try`: when it fails the client is
  told of an error although the job is committed.
* `auth_once`: `auth.service.ts:46` says "Consume the OTP", but reading and
  deleting it are two commands (lines 40, 47) and the answer of the second is
  ignored: two verifications at once both get a token.
* `auth_refusal`: `auth.service.ts:18` says "3 OTPs per phone per minute", but
  only the request whose `INCR` answers 1 sets the expiry, in a second command.
  When it fails in between, or its `INCR` is sent twice, the counter stays and
  the phone is refused until the key is evicted.

Not given a run: the webhook does not look at the job's state, so that two
transactions of one job are both booked; the duplicate query that
`k6/b7_payment_concurrent.js:117-121` prints reports such jobs. "Job already
accepted" (`jobs.service.ts:86`) is also said of a job that is free, because the
key outlives an accept that failed, and to a request whose own `SET` was sent
twice: a refusal that ends with the key, and that no property forbids. And
`updateGps` tells a worker `ok` whose position was not stored.

## 5. Proofs

Theorems hold for every value of the constants that the named assumptions allow:
any number of requests, processes, jobs, sockets, workers, any pool size, and
both values of `syncCommit`.

| Module | Theorem | States |
|---|---|---|
| `PaymentsProofs` | `TypeCorrect` | `Spec => []TypeOK` |
| | `Invariance` | `Spec => []IInv` |
| | `SettlementIsAtomic` | `Spec => []SettlementAtomic` |
| | `ChargedOnce` | `Spec => []NoDuplicateCharge` |
| | `NoClientLeaks` | `Spec => []ClientsAccounted` |
| | `AnswersAreDurable` | `Spec => []AnswerIsDurable` |
| | `PaymentsStay` | `Spec => PaymentsArePermanent` |
| | `Refinement` | `Spec => ImplementsSettlement` |
| `AcceptProofs` | `TypeCorrect` | `Spec => []TypeOK` |
| | `OneWinner` | `Spec => []AcceptedByOne` |
| | `AuditNamesWinner` | `Spec => []AuditMatchesJob` |
| | `NoClientLeaks` | `Spec => []ClientsAccounted` |
| `CreateProofs` | `TypeCorrect` | `Spec => []TypeOK` |
| | `QueuedExists` | `Spec => []QueuedJobExists` |
| | `CreatedStays` | `Spec => []CreatedIsDurable` |
| | `NoClientLeaks` | `Spec => []ClientsAccounted` |
| `MarketplaceProofs` | `TypeCorrect` | `Spec => []TypeOK` |
| | `NoClientLeaks` | `Spec => []ClientsAccounted` |
| | `Invariance` | `Spec => []IInv` |
| | `SettlementIsAtomic` | `Spec => []SettlementAtomic` |
| | `ChargedOnce` | `Spec => []P!NoDuplicateCharge` |
| | `OneWinner` | `Spec => []AcceptedByOne` |
| | `AuditNamesWinner` | `Spec => []AuditMatchesJob` |
| | `QueuedExists` | `Spec => []QueuedJobExists` |
| | `CreatedStays` | `Spec => []CreatedIsDurable` |
| | `OnlyForward` | `Spec => JobsMoveForward` |
| | `AnswersAreDurable` | `Spec => []P!AnswerIsDurable` |
| | `PaymentsStay` | `Spec => P!PaymentsArePermanent` |
| | `Refinement` | `Spec => P!ImplementsSettlement` |
| `AuthProofs` | `AccessTypeCorrect` | `AccessSpec => []AccessTypeOK` |
| | `DeletedOtpIsGone` | `AccessSpec => []OtpGone` |
| | `TableAgrees` | `AccessSpec => []ConsumedRows` |
| | `SessionsEarned` | `AccessSpec => []SessionsAreEarned` |
| | `ValidTokensAreHonoured` | `AccessSpec => []TokensAreHonoured` |
| `AlertsProofs` | `TypeCorrect` | `Spec => []TypeOK` |
| | `AlertsBacked` | `Spec => []AlertsAreBacked` |
| | `CopiesStayBounded` | `Spec => []CopiesBounded` |
| | `AudienceAlwaysHears` | `Spec => []AudienceHears` |
| `NearbyProofs` | `TypeCorrect` | `Spec => []TypeOK` |
| | `StandingAreFound` | `Spec => []StandingWorkersAreFound` |
| | `CacheIsBounded` | `Spec => []CacheBounded` |
| `SeedProofs` | `SeedPriceIsPrice`, `PriceIsQuoted` | the two price formulas agree on all that the DTOs allow, a created job has the quoted price, which fits in 32 bits |
| | `TypeCorrect` | `Spec => []TypeOK` |
| | `LedgerIsBalanced` | `Spec => []LedgerMatchesJobs` |
| | `CompleteIsUsable` | `Spec => []CompleteMeansUsable` |

### Payments

The theorems rest on `PoolAssumption`, `SeedAssumption` (no seeded job is PAID, which is
what `03_seed_jobs.js:170` writes) and `PaymentsAssumption`.

`SettlementAtomic` alone is not inductive: nothing in it says what a transaction
holds when it commits. `IInv` adds that. `WriteSets` says that the write set of
a request is exactly what its control point implies (`Wrote`); `NewKeys` that
the keys being recorded are not committed and not shared, which the waits of
`KeyInFlight` maintain; `Keyed` that a committed IPN row is the body of its
request and its key is unique; `JobFound` that the row `UpdateJob` reads has not
gone away. `CommitInv` is the heart of the argument: a complete write set with a
new key, merged into settled tables, gives settled tables (`MergeSettled`). All
of it is stated of `db` and of `disk`, so that a restart (`PgCrashInv`) and a
flush (`FlushInv`) only exchange the two. The steps that write no table are
treated together by `QuietStep`, and a statement that extends one write set by
`StatementStep`.

`ClientsAccounted` is inductive over the types alone; the finiteness of `Clients`
turns its bound into arithmetic (`CheckOutFits`, `FewerHeld`). `DurableInv` says
what a synchronous commit adds: the disk is the tables, and every answer has its
row. `Answering` is what the answers of `Settlement` need in both settings: a
committed row belongs to a request past its `COMMIT`, a request about to answer
has a row to answer for, and the disk only lags behind. With them `StepMaps` maps
`Receive` to `Send`, `Commit` to `Record`, the last steps to the answers, a
restart to `Forget`, or to a stutter when commits are synchronous, and every other
step to a stutter; `BooksSettled` is why the mapped books are those that
`Settlement` computes.

TLC checks `IInv` too (`payments`), so that what the theorems assume of a
state is seen to be met by states in which the interesting cases happen.

### Accepting and creating

`AcceptedByOne` says nothing of a request between its UPDATE and its answer, nor
of one that failed there, whose audit row may stand. `WinInv` adds, for
synchronous commits: the disk is the tables; whoever is past the UPDATE has the
job, alone (`Winners`); what is in the audit log is of a taken job, once, and
nobody who has still to write one has a job that is named there (`Audited`).
`TakeJobWins` is the step that matters: the UPDATE finds the job CREATED, so
nobody has it and no row names it. The Redis key does not occur in the argument:
it saves queries, and the condition of the UPDATE decides.

`CreateInv` says that who is about to commit has inserted, and, for synchronous
commits, that what is past its COMMIT or queued is stored. A commit only adds
rows (`CommitStores`), a push queues what is past its COMMIT (`PushType` for
sequences). In both modules `ClientsStep` is inductive over the types.

These theorems are of the services alone. For `CreateJob` the runs check the
properties only in the composition (`market_all`), of which they are proved next.

### Marketplace

Nothing follows for the composition from the proofs about its parts: each of them
assumes that no other service writes the tables between two of its steps, which is
what the composition denies. So it has an inductive invariant of its own. The
services are instances there, with copies of the operators of `Postgres`; the first
lemmas say what a step of a service does in terms of `Postgres` itself
(`PayEffect`, `TakeEffect`, `CreateEffect` and so on).

`IInv` takes the parts of the invariant of `Payments` (write sets, new keys, keyed and
settled tables) and adds what only the composition needs. `PaidOver`: the row that
a payment is about to commit is the committed one, marked PAID, and no two payments
are about to commit one job. Were it not so, a payment would write back a row that it
read before an accept, and take the job from its worker. It holds because an
UPDATE waits for the row lock, and it is what the mutant `NoRowLock` breaks. `Fresh`: a
job that is about to be created has no row anywhere, so nobody can have paid for it or
taken it, and the commit of its creation overwrites nothing. `IInv` holds for both
values of `syncCommit`, and `SettlementIsAtomic` and `ChargedOnce` follow from it.

`SyncInv` is what synchronous commits add: the disk is the tables, whoever is past the
UPDATE of `acceptJob` has the job (`Winners`), the audit log is of such requests
(`Audited`), what is past the COMMIT of `createJob` or queued has a row (`Stored`).
Its proof turns on one fact, `Forward`: whichever service takes a step, no job
disappears, is CREATED again, changes its worker once taken, or is un-paid. Then the
steps of the others cannot break `Winners`, `Audited` and `Stored` (`AcceptsKept`,
`StoredKept`), and `TakeWins`, `AuditNames` and `CreateSync` treat the steps that make
them true. `OnlyForward` is `Forward` as a theorem.

The refinement of `Settlement` needs little more. In settled tables the mapped books
are a function of the recorded notifications (`Books`), and the other services record none
(`OthersQuiet`); so their steps are stutters, although they write the rows from which
the mapping reads what is paid. `Telling` is what the answers need, as in `Payments`.

The theorems rest on `PoolAssumption`, `SeedAssumption`, `CreateAssumption` and
`MarketplaceAssumption`. TLC checks `IInv` in `market_one_job`, where two payments and
two accepts meet on one row; no job is created in that run, so that `Fresh` is shown
by the proof alone.

### Authentication

`AuthInv` ties each key to the request that stored it: an OTP in Redis is what
its ask has drawn and inserted (`AskInv`), a verification past its `GET` has read
the OTP of the ask that it names (`LoginInv`). An ask whose OTP can be presented
is over, and stores nothing again: this is why a deleted OTP does not come back.
`AccessInv` adds that a token is of a login that ended, and that its session is
there or is counted as lost.

### Alerts

`AlertInv` says of every trigger how far it has come is what it has done
(`Handled`), that whatever is on its way, in the inboxes, in the adapters or on
a screen, has been published (`Sent`), and that whoever is due to hear is in the
room of the present adapter and has a copy or one on its way to his process
(`Due`). Steps that do not touch a part are dispatched by `HandledQuiet`,
`SentQuiet` and `DueQuiet`.

`CopiesBounded` counts copies over all processes, and a sum over them would be a
recursion. The proof counts a set instead: `Pending(p, t)` is, for each process, what
may still come to the sockets of `p` by it, its own receipts and packets or what another
has not yet relayed or sent; `Units` makes of it one pair per copy, and `Load` is the
number of the pairs. `Bounded` says that what a socket has been shown and the load of its
process are together at most the number of publications times that of the processes,
and the number of repeated packets (`Limit`). A `Publish` adds at most one pair per
process (`UnitPerProcess`); a `Relay` spends one of its own process's when it shows the
alert, and leaves the others theirs, which only moves from inbox to outbox (`RelayBound`); `Forward` moves a pair or drops it (`UnitMoved`);
`ForwardUnanswered` adds one to each receiver's and one to the limit (`OneUnitMore`), and
everything else only loses some (`FewerUnits`).

### Nearby and Seed

What a search returns is right about every worker at its moment
(`ResultsAgree`); `RightSince(data, x, t)` says that it is right about everybody
who has not moved since `t`, and stays so while the others move. The invariant
dates every result under way, cached or answered: a search since it was asked, an
entry since `SearchMax` before it was stored, an answer since `Lag` before it was
given. `CacheBounded` follows from what `Evict` leaves.

The invariant of `Seed` relates the open batch to its entries, and says that the
stages before the present one are complete, with what earlier runs have left:
users inserted, a profile for each, each profile loaded or lost with redis-geo.

### Only model-checked

Liveness (`EveryDeliveryEnds`, `EveryAcceptEnds`, `EveryRequestEnds`,
`RelayRecovers`), which is out of the prover's reach. Every other property of the
passing runs is a theorem. `P!NoDuplicateCharge`, `P!AnswerIsDurable`,
`P!PaymentsArePermanent` and `P!ImplementsSettlement` are proved of the composition, and
checked by a run only of `Payments` alone.

## 6. What is left

* The size of the cluster: `max_connections` against processes times pool size
  (`cluster.ts:8`), the one hazard that no property covers: the number of CPUs is
  the host's, and a refused `connect()` is what `ConnectFails` and `CallFails`
  already are to the services.
* `GEOSEARCH` in `createJob` counts the members of `Nearby`'s set, but its result
  decides nothing; the two are not composed.

## 7. Not modelled

Health checks, metrics, request ids and logging: read-only probes and counters
that no other part depends on. `emitJobState` and `pushJobToWorker` of the gateway,
which nothing calls, and its event `worker:location`, whose room nobody joins.
The k6 scripts and the shell scripts are the environment: what they send are
inputs of the models, and the checks of the ledger that `b7_payment_concurrent.js`
prints are properties of `Payments`. `01_schema.sql`, `02_seed_workers.sql` and
`fix_schema.sql` are taken as done, but that the customers may be missing. TLS,
helmet, body limits, DTO validation beyond the values it lets through; Grafana
and Prometheus. Coordinates are places with a cell and a reach; distances are not
computed. Except in `Nearby` time is not modelled by a clock: what expires may
expire at any moment, which includes every actual timing.

The external behaviour the models rely on: PostgreSQL's row locks and unique
index waits at `READ COMMITTED` and its WAL order; pg-pool's limit, timeout, and
the release of the client by `pool.query`; ioredis's three retries and resending
of unanswered commands, its resubscription after a reconnection, and its
rejection of what waits longer; the atomicity of single Redis commands;
`@socket.io/redis-adapter`, which publishes what it emits, skips its own packets
and does not handle the rejection of its subscriptions; Node 20, which ends a
process on an unhandled rejection.
