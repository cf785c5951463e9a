# TLA+ models of gofi-sdk-go

Specifications kept beside gofi-sdk-go, the Go SDK for services. They model the
parts of the SDK where goroutines, replicas and remote systems meet; TLC checks
them on small instances and TLAPS proves what should hold on every instance.
`PROJECT.json` lists the components, the runs, the mutants that show each
property can fail, the source lines behind each definition, the hazards, the
findings and the theorems.

## The system

| part | what it does | where state is shared |
|---|---|---|
| `gofi` | builds a service from components by stage, runs it, shuts it down | runners and closers, signals, a shutdown deadline |
| `base/cronjob` | interval and fixed schedules, one run per slot across replicas | Redis leases, a renewal goroutine, `Stop` |
| `base/session`, `base/secrets`, `base/environment` | sessions in Redis under a lock; configuration with secrets fetched once | lock ttl, double creation; the resolver's cache |
| `base/bucket`, `base/mail` | object stores on files, memory, S3 and OCI; an SMTP mailer | clients of one bucket; a connection reused for many mails |
| `msq/core` | producers, the consume pipeline (decode, handle, retry, dead-letter, ack), consumer supervision | handler timeouts, redelivery counts, reconnects |
| `msq/worker` | worker pool, slots, pause gate, lease renewal | goroutines against one poller |
| `msq/provider/*` | Kafka, RabbitMQ, SQS, OCI Queue, Redis (lists, streams), NATS JetStream | visibility leases, acks, channels that die |
| `netx` | HTTP client with retries, HTTP and gRPC servers, TLS, request signing | retries of what was already done, drain, rate limits |
| `iam` | login, tokens, sessions, refresh rotation, throttling, OIDC, JWKS | concurrent refreshes, revocation cutoffs, key caches |
| `obs` | logging, metrics, tracing | set up once |
| `sqln` | connections, transactions, queries, cache, migrations, full-text search | transactions in contexts, single-flight cache fills |

How they meet: `gofi` starts everything else and decides in which order it
stops. A message goes from a broker (`msq/provider`) through the shared poll
loop and lease renewal (`msq/worker`) into the pipeline and the application's
handler (`msq/core`), under a supervisor that recreates consumers. A scheduled
job takes its lease in Redis and runs the application's function. Handlers and
jobs use `sqln`, the caches and `iam`, which are shared by all requests.

## Modules

An action is one atomic piece of the code: a critical section, one Redis
script, one statement, or what a goroutine does between two points where others
can see it. Payloads, names and errors are abstracted to what decides control: a
handler succeeds, fails, rejects or panics; a command is executed or not, and its
answer arrives or is lost. Context deadlines are events that may come at any
time of the wait they bound, with a history flag where a property has to know.
Definitions named in a comment as a variant are the mutants of `PROJECT.json`.

### Machines with runs of their own

| module | models | state | actions |
|---|---|---|---|
| `LockService` | what the `Locker` interface promises (abstract) | holder, greatest token granted | `Grant`, `Free` |
| `RedisLocker` | the three Lua scripts of `base/cronjob/lock.go` | lease, slot claims, fence counter, Redis's time | the scripts, used by `CronJob` |
| `CronJob` | `base/cronjob/scheduler.go` and `keepAlive`, on several replicas | the schedule and the renewal goroutine of each replica, commands under way | one per step between two Redis commands, ticks, `Stop`, crash |
| `Pipeline` | `msq/core/pipeline.go`: decode, attempts, retries, dead letter, result | one job per delivery in a consumer's hands | one per step of `Handle` |
| `LeasedConsumer` | the consumers of SQS, OCI Queue, Redis streams and NATS over `msq/worker`; composes `Pipeline` with the broker | the broker's queue and counts, poll loop, gate, slots, renewals | receive, hand over, settle, expire, pause, shut down, crash |
| `ConsumerManager` | `msq/core/manager.go` | entries, starters, one supervisor per entry, closers, health | `Register`, the steps of `Start`, `supervise`, `CloseContext` |
| `NetServer` | the serve and shutdown protocol that `netx/httpx` and `netx/grpcx` share | phase, closed flag, context, request in flight | serve, fail, drain, stop, time out |
| `Service` | `gofi/builder.go`, `runtime.go`, `service.go` and the `Start` of every component; composes `NetServer` with the consumers' drain | build phase, open resources and closers, `ListenAndServe`, each `Shutdown` | one per step between two waits |
| `SessionStore` | one user's sessions in `iam/provider/redis` and `iam/provider/memory` | sessions, index, cut-off, time | the store commands, used by `Sessions` |
| `Sessions` | login, refresh, validation and logout of `iam/core`, over `SessionStore` and the ticket stores | tickets, what each call is doing | one per store command of a call |

`MCService` gives the constants of `Service` values for TLC; the others need
nothing but their `.cfg`. The eight `*Proofs` modules hold the theorems.

### The messaging suite (`MCMessaging`)

| module | models |
|---|---|
| `RabbitConn` | `rabbitmq/conn.go`: dial, attach, watch, `Close`; a connection dropped at any time |
| `RabbitConsumer` | `Consume`, `reopen`, `Pause`, `Resume`, the delivery counts of classic and quorum queues, over `RabbitConn` |
| `RabbitProducer` | sends on one shared channel in confirm mode, with the tracker that matches returns to publishes, over `RabbitConn` |
| `KafkaConsumer` | pods of one group on a partition that rebalances move: claims, marks, commits, redelivery in place, pause, crash |
| `Sending` | the instrumented producer over Kafka (with `Acks` all, or leader and none), SQS, OCI, Redis and NATS: batches in chunks, partial failures, an application that sends the rest again, and the envelope each provider writes and reads |
| `BrokerService` | `msq/core/service.go` and the registry: managers created while `CloseContext` is called by several goroutines |

### The platform suite (`MCPlatform`)

| module | models |
|---|---|
| `HttpClient` | `Execute`: rate limit, retries, `Retry-After`, bodies that can or cannot be sent again, redirects, the destination check of the safe client |
| `HttpServer` | the middleware chain in the order of `NewServer`, on servers with and without its options: CORS and preflights, client address, rate limit, method and body checks, slots, cross-origin and token checks, panics, and the write deadline a route gets for its handler's budget |
| `Readiness` | the readiness rounds of both servers: shared, cached, timed out, with checks added meanwhile |
| `CertReload` | the certificate reloader against files that are rewritten in any order and may be unreadable |
| `GrpcCall` | a call along a chain of services: interceptors, error conversion both ways, tokens, request ids, retries |
| `Mail` | `Send` and `SendBulk` over an SMTP server that refuses, drops, or answers too late |
| `Idp` | login through OIDC and verification by JWKS over two caches with shared fetches, while the provider rotates keys |
| `LoginThrottle` | `Authenticate` and both throttlers |
| `Bootstrap` | how `Build` loads variables, files, `.env` and secrets, what the guard of prod and stage refuses, and what the components then open: two readings of the same variables |
| `Tokens` | token keys and tickets over a fleet in the middle of a key rotation, and the HTTP and gRPC guards |

### The storage suite (`MCStorage`)

| module | models |
|---|---|
| `Transaction` | `Execute` with nested calls, two pools, panics, conflicts repeated, commits whose answer is lost |
| `QueryCache` | reads through Redis by the goroutines of one process, with the collapse of misses, transactions, a lagging replica, invalidation; other replicas of the service have flights of their own and are not modelled |
| `SqlConnect` | `NewConnection` with replica, migrations and index policy, on instances of two versions over one catalog |
| `SqlBuild` | filters with the text their values become, predicates, text and parameters for four dialects, limits and pages; evaluated over a small table against a reference meaning |
| `TextSearch` | the search parser, synonyms, the expression for PostgreSQL and MySQL evaluated over documents, and the lexicon's corrections |
| `Bucket` | put, delete, delete by prefix, create and delete of a bucket on files, memory, S3 and OCI by two clients, with a crash |
| `SessionLock` | `base/session`: sessions created once under a lock that expires, with commands whose answer is lost |
| `WorkerPool` | `base/cronjob/worker_pool.go` with Go's `RWMutex` |

A suite has one variable, `part`, that chooses the machine a behaviour is of; the
others keep their initial state. The machines of a suite share no state in the
program either, so this checks each of them alone, in one run.

## Runs

| run | instance | shows |
|---|---|---|
| `cron_replicas` | 2 replicas, both modes, skew 1, delay 1, a crash | a fixed slot runs once; the Redis lease implements `LockService`: one holder, growing tokens |
| `cron_keepalive` | 1 replica, a lease of 6 units over two periods | a run outlives its lease by at most one command; `Stop` ends the schedule |
| `cron_overlap` | 2 replicas | **violated**: a run and another replica's next run overlap when renewals fail |
| `msq_delivery` | 2 consumers, 1 message, retries, limit 2, lapses, a panic, a crash | no message is lost, or handled by two jobs while leases hold |
| `msq_drain` | 1 consumer, 2 messages, 2 slots, pauses, a crash | slots are conserved and `Pause` stops polling (`Backpressure`); unhandled messages come back and `Consume` drains (`Settles`) |
| `msq_manager` | 3 entries, 2 starters, 2 closers | nil from `CloseContext` means drained, `Healthy` tells the truth, `CloseContext` returns and no consumer leaks (`CloseEnds`) |
| `msq_brokers` | the messaging suite: a connection drop, 2 senders, 2 pods, 2 records, batches of 3, 2 closers | delivery counts do not exceed deliveries; a send that returns nil was acknowledged, and is stored and readable on a broker that keeps what it acknowledges; a partition is handled in order; nil from `CloseContext` means drained; `Consume` ends |
| `gofi_service` | 3 programs: a server over five kinds of resources, two servers, none; up to 2 `Shutdown`s | closers run in reverse, nothing is used after it was closed unless a timeout was used up or a listener failed, a failed `Build` closes what it registered, readiness covers every check (`OrderlyLifecycle`); `ListenAndServe` and `Shutdown` return, but for a `Shutdown` without a deadline that waits for a handler (`ServiceEnds`) |
| `iam_sessions` | 2 calls at a time, 4 in all, 3 sessions, both stores, a failing command | a refresh token is rotated once, a ticket used once, reuse is noticed while the token would have lived (`UsedOnce`); no logged-out session is accepted again, unless cut-offs were written out of order |
| `iam_cutoff` | 3 calls at a time, Redis | **violated**: a `RevokeAllForUser` that read the clock earlier and writes later moves the cut-off back, and a session is accepted after `LogoutAll` |
| `platform` | the platform suite: 2 connections, probes, visitors or logins, 3 hops, 2 releases serving | requests are repeated only when safe, but for a 429 to a redirect (`RetriedSafely`); a handler runs only behind every layer its server has (`HandlerGuarded`) and answers with the policy of its route (`PolicyOfRoute`); ready means passed; the certificate served is current; codes survive a chain, and kinds where the processes agree on them (`ErrorsTravel`); every mail is accounted for; a shared fetch fails nobody else; guesses are bounded; a guarded build opens no unverified connection; tokens survive a rotation |
| `storage` | the storage suite: 2 callers, scopes, instances, clients or users | `Execute` is atomic; rows served are committed, of the caller's tenant and as new as asked for; a ready connection has its index whole; a query reads the rows asked for; a search finds what was typed; acknowledged objects stay and deleted prefixes go; a session lock excludes; a closed pool has run every accepted job |

Bounds. Two replicas or consumers are what it takes for one to act on what the
other lost; a third only repeats that. One message suffices for the safety of
delivery because jobs of different messages share only slots, and `msq_drain`
has two messages for the slots. Times are in units of a Redis command; the
clock of `cron_replicas` covers the first interval, an expired lease and the
next slot, that of `cron_keepalive` two renewals of a second run. Counters
(`MaxCrashes`, `MaxLapses`, `MaxPauses`, `MaxPanics`, `MaxFailures`, `MaxDrops`,
`MaxFaults`, `MaxErrors`) bound how often the environment interferes; the delivery
count saturates at `MaxCount`, above the limit. In `gofi_service` each program is
the smallest with its feature: a shared resource and a drain, two servers stopped
in turn, no server. In `iam_sessions` four calls are a login, two refreshes or a
refresh and a logout, and a validation; all instances share one clock, and no
call takes longer than `CallTime`, which is below the minute that a consumed
ticket is kept past its expiry (a slower call could use a ticket of the memory
store again). In the suites, two of each actor, and as many calls as it takes to
undo what another did: a batch longer than a chunk, a rebalance back, a second
rotation of a certificate, a retry after a retry, a bucket created again. The
inputs of `Bootstrap`, `SqlBuild`, `TextSearch`, `Mail` and `HttpServer` are lists in
the MC modules, one family per feature of the code. `Width` bounds the unsigned
page and limit of `SqlBuild`, so that the last page a counter can name is read;
their product is not bounded, because the code widens both before it multiplies.
Symmetry is used only in runs without liveness properties. Deadlock is not
checked: every one of these systems may stop for good (`PoolDrained` says itself
when the worker pool may).

Fairness. Goroutines that can go on do (weak fairness per goroutine), because
the Go scheduler runs them. Calls, signals, failures and the return of handlers
are not fair, with these exceptions: the attempt of a message that reached a
worker ends (`HandlerTimeout` and the ack timeouts bound it), `Consume` returns
after its context ended, the broker expires a lease that nobody renews, and a
ready message is received if again and again a consumer asks (strong fairness:
brokers do not starve a message for ever). In `Service` handlers may run for
ever; what ends the waits are the timeouts of the code itself. The stoppers in
`patient` call `Shutdown` with a context that never ends. The close of the broker
then waits for the message handlers without a limit, and so does
`grpc.Server.Stop` for the handlers of a gRPC server (`WaitsForHandlers`):
`ShutdownEnds` says that a `Shutdown` returns unless one of these two waits for a
handler that never returns. In `RabbitConsumer` the steps of `Consume`, of its
jobs and of the goroutine that dials again are fair; drops are bounded.

## Theorems

TLAPS proves these for all values of the constants that satisfy the named
assumptions of the modules (`ASSUME ...Assumption`). Most only say that bounds
are natural numbers and sets finite or not empty, or give the type of a table.
These say more: `CronAssumption` defines the slots by the clock; `SlackAssumption`
(`Sessions`) says that no call takes longer than a consumed ticket is kept past its
expiry; `QueryCacheAssumption` that no caller is `Nobody`; `TransactionAssumption` that
an `execute` of a caller's program names where its function ends;
`HttpServerAssumption` that no two routes have the same method and pattern (of two
that a program adds, chi keeps the last, and `Routes` are those kept) and that their
CORS policies passed `Validate`; `GrpcCallAssumption` that the method named private
is not public and that registered errors have a kind; `ServiceAssumption` that a
program adds a component once and that `ListenAndServe` is not one of the goroutines
that call `Shutdown`; `RequestsAssumption` (`Tokens`) that only an HTTP route has guards besides
the interceptors of a gRPC server.

Each theorem `Spec => []Property` rests on an inductive invariant `Inv` that holds
initially, that every action keeps (one lemma per action, over lemmas that say
what the others keep when one actor moves), and that implies the property.

* `CronJobProofs`: `TypeCorrect`; `FencingHolds` (tokens held are distinct and
  at most the fence); `LeaseKept` (a live lease is given up only by its holder);
  `LockerImplemented`, the refinement of `LockService`; `FixedSlotsRunOnce`. The
  invariant `Fencing` adds to `HolderIsNewest` that the lease's token never exceeds the
  counter, which a step needs to see that the next token is new. `Punctual` says
  that a fixed timer fires when its slot begins on the replica's own clock and that
  the slot is claimed within two commands, so that a claim outlives the last
  replica that could ask for it. `OverrunIsBounded`: assuming that six
  commands fit into the ttl, the invariant `Cadence` keeps for each replica how far
  the next tick, the last renewal and the expiry Redis granted are apart.
* `LeasedConsumerProofs`: `TypeCorrect`, `NoMessageLost`, `DeadLetterOnlyExhausted`,
  `OneJobPerMessage`, `SlotsAddUp`. `NothingLost` is inductive only with `JobsOK`, which
  says of each phase of a job what has been decided about its message; `Exclusive`
  says that while no renewed lease has lapsed the message of a job is leased, and
  to that job only, so that a receive cannot hand it to a second one. `AllSlotted`
  says that a poller holds slots only while it receives, and none while the gate is
  closed but for the receive it had passed the gate for.
* `MessagingProofs`, on the push brokers, the manager and the broker service.
  `CountsStayBelow`: neither a handler's count nor the tracker is ahead of the broker
  (`RabbitInv`). `PartitionOrdered`: `KafkaInv` adds to `PartitionInOrder` that a session,
  in whatever step of `process` it is, has everything below its record behind it and
  has marked only such records, which makes a commit harmless even when it comes
  after the partition has moved. `ServiceDrains`: a nil that a manager has answered
  is kept as a promise (`Answers`); drained managers stay drained, and the copy of
  the list is no longer than the list, which only grows. `TypeCorrect`,
  `OneConsumerPerEntry`, `NilMeansDrained`: `Claims` says the intervals of entries that
  goroutines in `Start` still have to start are disjoint and not yet supervised;
  `Accounted` then counts the open consumers of an entry as the one its owner holds;
  `ShutdownOK` says that once the drain has begun the manager is closed, so that
  nothing is added to the wait group any more. `HealthySpeaksTrue`: `Outages` says
  that `downSince` is the first failure since the last long run.
* `SessionsProofs`: `UsedOnceHolds`, `LogoutIsFinal`. One invariant, `SInv`: a spent
  session never becomes active again (`SessOK`), no two calls rotate the same one
  (`Rotations`), a used ticket is remembered past its time (`TicketOK`), and a call that
  began after a logout gets no further than the cut-off (`RecOK`, `CutoffOK`).
  `FetchesShareFairly`, about `Idp`: what a call saw in a cache is there still or the
  provider has dropped it (`VisitOK`), since a fetch replaces keys only by ones that
  include all the provider still has (`KeysOK`).
* `PlatformProofs`. `HandlersAreGuarded`: `ReqOK` says of a request, by where it is in the chain of
  handlers, that every layer before has let it through and none behind has touched
  it; `SlotsOK` and `LimiterOK` make the counters of the pools and the limiter the
  cardinalities of the requests inside and of those let through.
  `TokensAreHonoured`, for any releases with the fields of a configuration
  (`ReleasesAssumption`) and any requests whose guards are those of their kind
  (`RequestsAssumption`): a provider that `New` accepts can sign and accepts its own
  tokens (`Signs`, `OwnToken`), and so does the one rotated from it (`RotatedToken`).
  `TokensInv` says that every token was made that way by a release `New` accepts
  (`Minted`), and of a request under way that the guards it has left behind are those
  not in `left`, each with what it saw (`UnderWay`, `Past`); sessions, access and time
  only move one way, so what a guard saw was so when the request arrived.
* `ClientProofs`. `RetriesAreSafe`: while another attempt may follow, a
  request that is not safe to repeat has taken effect no more often than a redirect
  made a GET of it (`ExecuteOK`), and every address a redirect leads to passed the
  checks (`UrlOK`). `ErrorsReachTheCaller`, by
  an invariant over the chain of calls: a service is called only while the handlers
  before it run (`Chained`), and each answer after the last handler ran carries that
  handler's kind and code (`CarryOK`), which mapping it to a status and back keeps
  (`HandlerAnswers`, `AnswersPassed`).
  `CertificateStaysCurrent`: `StampsTell` says that what was read under
  a stamp that is still the file's is still the file's content, for the pair served
  and for the look under way; the proof uses that the stamp is taken before the
  read, and that every write changes it. `ReadyIsPassed`: one probe runs the round, and
  a result that may be served covers every check but the late ones (`ProbeOK`).
* `ServiceProofs`: `LifecycleIsOrderly`, for any programs and number of goroutines in
  `Shutdown`. In `ServiceInv`, `TakenInReverse` says that whoever took the closers has
  closed those behind the ones it still has, `ClosesAll` that a `closeResources`
  which no other overlaps has everything open ahead of it, `ListenStops` and
  `ShutdownsClose` when each may close at all, and `ServersServe` and `HandlersDrained`
  what of the servers and consumers may still run then.
* `StorageProofs`. `SessionsExclusive`: a call in the lock has the token in Redis until
  its lock expires (`HolderOK`), and a session is saved only where none lives
  (`OneSession`). `QueriesServed`: the version a transaction writes is above the
  committed ones (`Versions`), a flight has one leader (`FlightsLed`), and a call with a
  key holds committed rows of its scope (`QueryOK`). `ExecuteIsAtomic`: a step moves the innermost call or pushes a
  new one (`StepOf`), so the frames below keep `FrameOK`: each is bound to an open
  transaction of its pool, and the other transactions of its call are rolled back
  (`OpenOK`). A pool has one open transaction (`OneEach`), hence the innermost binding
  is the only one, and a statement cannot miss it.

Only model-checked. Liveness (`StopEnds`, `Settles`, `CloseEnds`, `ServiceEnds`,
`ConsumeEnds`) and `ENABLED` (`PoolDrained`) are out of the prover's reach.
`RowsAsked` and `SearchMeans` are about recursive functions over data (`SqlBuild`,
`TextSearch`), which would need induction. `GuardedBuild`, `PolicyOfRoute`,
`ConnectionWhole` and `MailAccounted` depend on the finite tables of settings, routes,
catalogs and mails that their modules are given; `PolicyOfRoute` is false for some
tables (the preflight of a shadowed route, below). `GuessesBounded` needs the length of
a filtered sequence, again an induction. So does `SendsKept`, whose module folds and
flattens sequences. `ObjectsKept` and `PrefixGone` are invariants that only TLC checks so
far: `Bucket` is built on the prefixes and ranges of SequencesExt, which the proofs
elsewhere do without. The theorems
without a property in `PROJECT.json` (types, fencing, `LeaseNotStolen`,
`DeadLetterExhausted`, `OneConsumer`) are not repeated in a run.

## Where code and documentation disagree

`PROJECT.json` quotes the lines. Two are shown by runs (`cron_overlap`,
`iam_cutoff`); the others were met while modelling, and the property named there
says how it leaves the case out.

* Messaging: a panic in `OnEvent` leaves a lease renewal running; a nack on the
  last delivery is not always settled; RabbitMQ's `Consume` does not end when its
  context does so while a channel is being opened; a return is charged to the
  wrong publish of the same id; messages with the nil id are taken for duplicates.
* Service and configuration: no closer for the Redis client of iam; a `Build`
  retried on the same builder skips the load error; `.env` is read although a file
  says prod; the query cache's connection is not guarded; the default timezone.
* `netx`: a 429 to the GET that a redirect made of a POST repeats the POST; the text
  of a token source's error reaches the caller; preflights of a route shadowed by another's pattern; 429 and 503 with the
  global CORS policy; a check added during a readiness round; `kindOf` is not the
  inverse of `CodeOf`; gRPC checks that panic or do not return.
* `sqln`: a filter with the value TRUE reads the FALSE rows on MySQL; a proximity to
  an unindexed word is a phrase on MySQL; the backoff overflows after 39 retries; pools left open by two paths of
  failed migrations; a cache entry stored during `Del` stays; `IS TRUE` without a
  value; lists for `LIKE`; an index half created is never completed; corrections of
  excluded words; stopwords that leave an exclusion alone.
* `base/bucket` and `iam`: `DeleteBucket` in memory takes a bucket created meanwhile;
  temporary files that only the file system sees; JWKS refetches while the issuer
  fails; overlapping `RevokeAllForUser`.

Some properties hold for what a program configures, as the code documents it.
`HandlerGuarded` speaks of the limiter, the cross-origin check and the authentication
only on servers that have them: `RateLimiter` may be nil,
`DisableCrossOriginProtection` turns the check off, and "Auth: only applied to
private routes when an auth middleware is registered", so a private route added
before it has none (`netx/httpx/server_test.go:237-251`). `SendsKept` promises storage
on the brokers that keep what they acknowledge (`Durable`): Redis Pub/Sub is at most
once, and Kafka with `Acks` leader or none "can lose acknowledged records on a leader
failover". `ErrorsTravel` promises the kind of an error unless a process registered
its code under another one, and the token check in services with `Auth`. A query with
`Limit` or `Offset` is refused by SQL Server and Oracle, and one with `Offset` alone by
MySQL; `RowsAsked` then has nothing to say. A single date as the value of a comparison
also becomes text; what a database makes of Go's format of it is not modelled.

Three more limits are the code's choice and no property denies them: a refresh
that fails between revoking and issuing leaves the user without a session
(`iam/core/auth.go:231`); `Save` shortens the life of the user's index
(`iam/provider/redis/session.go:120`), so `ListByUser` may omit an active session;
and a query that read before a write may store its rows after the invalidation
(`sqln/manager_cache.go:55`).

## Not modelled

* Of the modelled parts: durations other than cron's and iam's, the order within
  FIFO groups of SQS while they are consumed, jobs without a `Locker`, the default concurrency of a dispatcher, a second
  `ListenAndServe`, the observers `closeResources` notifies, clocks that differ
  between instances of `iam`, several users in one session store, the subscriber of
  Redis Pub/Sub (it settles nothing), the retention of what a broker stored
  (`StreamMaxLen`, `MaxAge`), streams of gRPC beyond their interceptors.
* Pure conversions and single calls to an external service: signatures of requests
  (`netx/awssign`, `sqln/rdsauth`, the OCI and AWS signers), mapping of rows to
  structures, INSERT and UPDATE text, mail bytes and templates, response helpers,
  binding of parameters, validation tags, redaction, error records, the vault and
  cloud clients, cryptography.
* `obs` and `base/debug`: set up once; nothing depends on their state. The examples
  and test kits are clients of the SDK.
