# A verification project for go_base_skeleton

TLA+ models of the concurrent and failure-prone parts of this Go service
skeleton, TLC runs that check them on small instances, and TLAPS proofs of the
properties that matter most. Paths below are relative to the repository
(`src/`); `consumer.go:215` is short for `src/internal/event/consumer.go`, and
so on.

Reproduce a run with `tlc -config <Cfg>.cfg <MCModule>` and a proof with
`tlapm <Module>.tla`. `PROJECT.json` lists the components, runs, mutants, the
map from definitions to source lines, findings, hazards and theorems.

## 1. The system and its parts

Three kinds of process are built from one `App` (`internal/app`): the API and
admin HTTP servers and the CLI, whose `consume` commands are long-running event
consumers. They share MySQL, a business Redis (cache, lock) and an event Redis
(streams).

| Component | State it keeps | Operations | Talks to | What is hard |
|---|---|---|---|---|
| **Event consumer** `event/consumer.go` | handler table; where it is in its two read loops; batch in hand; handler deadline. In Redis: stream, group cursor, pending list (PEL) | `Run`, `ensureGroup`, `processPendingMessages`, `processNewMessages`, `processMessages` | Redis Streams; handlers; ctx of the command | crash or lost reply between handler and XACK; signals inside a batch; several processes in one group; order across errors |
| **Command lifecycle** `command/root.go`, `command/consume/*` | ctx, the signal channel, a force-exit timer | `SetupSignalHandler`; commands return errors to `os.Exit` | consumer | two timers and two signals race the drain |
| **Event publisher** `event/publisher.go` | XADD client, audit logger | `Publish`, `Ping`, `Close` | event Redis, daily writer | XADD executed but reply lost; audit line without event and the reverse |
| **Alerting** `pkg/alert` | `Deduplicator.last` under a RWMutex | `Send`, `Try`, `deliver`, `SendAll`, `Commit` | HTTP client (sinks) | Try and Commit are a whole delivery apart; clocks read outside the lock; clean-up of other keys |
| **Cache** `pkg/cache` | one singleflight group per process; entries in Redis | `Get`, `Set`, `Delete`, `Remember` | business Redis, loaders | Set races Delete; flights race each other; shared failures |
| **Distributed lock** `pkg/lock` | a token in Redis with a ttl | `TryWithLock`, `releaseLease` | business Redis | lease runs out while fn runs; ctx ends; crash; lost replies |
| **Rate limit** `middleware/ratelimit.go` | `sync.Map` of token buckets by IP | the middleware | `x/time/rate` | first requests race; clocks read before the limiter's mutex; Reserve/Cancel of concurrent denied requests |
| **HTTP client** `pkg/httpclient` | resty client, retry condition | `Get`, `Post`, `PostForm` | other services | retry of a request the server has executed |
| **App lifecycle** `internal/app`, `cmd/*` | opened resources; serve's goroutine and its socket | `New` with roll-back, `RunAPI`/`RunAdmin`/`serve`, `BuildRunE`, `Close` | everything | partial construction; shutdown against its deadline; what still runs when `Close` comes |
| **Logging** `pkg/logger` | open file of the day under a mutex | `Write`, rotation, `Close` | files | day change among many writers |
| **Middleware chain** `middleware/*`, `router/*` | gin context | trace, recovery, access log, CORS, rate limit, JWT, timeout | handlers, logger | panics unwinding past other middleware; a stop without abort |
| Handlers, service, repository, error codes, responses, config, utilities, debug commands | none that outlives a call | pass-through, tables, formatting | MySQL, Redis | (little) |

Interactions that matter: the consumer and the publisher meet only in the
stream; the supervisor restarts consumers, which makes the PEL their memory;
the alert notifier runs its deliveries in goroutines nobody waits for; `Cache`
and `Locker` share one Redis client and take the caller's ctx into every
command; the rate limiter is shared by all requests of a process.

What makes each part correct:

- *Consumer*: every message published after the group exists is handled
  successfully before it is settled (at least once), in stream order per topic
  and consumer name, and in time; a graceful stop leaves nothing pending.
- *Alerting*: an alert is dropped only for a recent success of the same key,
  and within the window of a success further alerts are dropped.
- *Cache*: one load per process at a time; an outdated value only for a known
  reason, and never beyond its ttl; no caller hangs.
- *Lock*: two fn run at once only past a lease; no process deletes another's
  key; a key is never stuck.
- *Rate limit*: one bucket per IP, and no more admitted than it allows but for
  what calls with old clocks are credited twice.
- *HTTP client*: what the server accepted is repeated only after a timeout;
  nil means a good answer; every call returns.
- *Publisher*: an audit line or a reported success means that the event is in
  the stream.
- *Lifecycle*: a failed `New` leaves nothing behind but its own failed client;
  `Close` comes after the last user, or not at all; a server that is told to
  stop stops; a process that returns from main has let go of everything.
- *Logging*: a writer holds the file of one day.
- *Middleware*: one answer and one access line for every request.

The hazards of the code, with their lines and the properties that cover them,
are the `hazards` of `PROJECT.json`.

## 2. What is modelled

| Module | Models | Role |
|---|---|---|
| `RedisStream` | streams, group, PEL as the code uses them (external) | extended by the consumer |
| `EventConsumer` | `consumer.go`, `SetupSignalHandler` as seen by it, supervisor | state machine, fairness, properties |
| `AtLeastOnce` | the subscriber's promise: publish, handle, settle | abstract specification, instantiated as `Promise` |
| `AlertNotifier` | `notifier.go`, `dedup.go`, `fanout.go` | state machine, properties |
| `CacheRemember` | `cache/redis.go`, with a writer of the source | state machine, properties |
| `RedisLocker` | `lock/redis.go`, over redislock (external) | state machine, properties |
| `Lease` | what a caller of `TryWithLock` may rely on | abstract specification, instantiated as `Promise` |
| `RateLimit` | `ratelimit.go`, over `x/time/rate` (external) | state machine, properties |
| `HttpClient` | `httpclient/client.go`, `TruncateUTF8`, over resty (external) | state machine, fairness, properties |
| `DailyWriter` | `logger/writer.go`; a line of the logger | component, extended |
| `EventPublisher` | `publisher.go`, as `debug publish_event` calls it | component, extends `DailyWriter` |
| `HttpPipeline` | `middleware/*`, `router/*`, the handlers, over gin (external) | component, extends `DailyWriter` |
| `AppProcess` | `internal/app`, `cmd/*`, `BuildRunE` | composes the three components in one process |
| `MC...` | constants and symmetry for TLC | |
| `...Proofs` | theorems | |

Operators marked "Variant" in a comment are faults that somebody could plausibly
introduce (a dropped guard, a swapped order). No specification uses them; the
`mutants` of `PROJECT.json` put each in the place of the definition it varies
to show that the properties notice.

### EventConsumer

`pc[p]` is the place in the code: `down`, `ensure` (the loop at
consumer.go:52-58), `check` (the `ctx.Done()` test that heads both loops),
`wait` (inside XREADGROUP), `handle` and `ack` (consumer.go:215, 220).
`mode[p]` distinguishes the two loops. Each external call is a step with an
outcome: executed and answered, failed before execution, or executed with the
reply lost. go-redis may send a command again by itself; such a repetition is
covered by the outcomes above together with the fact that XGROUP CREATE and
XACK are idempotent. A publication is an XADD.

`SetupSignalHandler` appears as `Signal` (first signal: cancel), `ForceExit`
(second signal or its own timer: `os.Exit(1)`), and `DeadlineExpires` (the
`WithTimeout` of processMessages). A supervisor is `Start`, which the comments
at consumer.go:16 and :214 take for granted. `handled` and `lost` are history:
no guard reads them. Payloads, trace ids and logging are left out; a handler
succeeds, fails, or may ignore an expired deadline, as `ExampleHandler` does.

### AlertNotifier

One process is one `Send` with its delivery. `Send` reads the clock and
`Throttle`/`StartDelivery` looks the key up, because the clock is read before
the lock (dedup.go:70-73); `Stamp` and `Commit` are apart for the same reason
(dedup.go:88-89). Sinks return one by one, each with success or failure. Keys
stand for what `BuildDedupKey` computes. The disabled paths (`Enabled` false,
deduplication off) are early returns without state and left out. `full` and
`newest` are history: the map as it would be without the clean-up, and the
newest stamp ever committed.

### CacheRemember

One key; values are versions of the source. `Process[c]` places a caller in a
process, since a singleflight group is per process. The repository has no user
of the cache yet, so the writer (change the source, then call `Delete`) is an
assumption about its use. `LoadFails`, `GetFails`, `SetFails` and `DeleteFails`
stand for errors of Redis, the loader or an ended ctx; the last two may have
been executed. A flight that lands releases its followers in the same step;
they only decode the shared result after that. The ttl is positive, which
`JitterTTL` guarantees (ttl.go:20-31).

### RedisLocker

The key holds the token of a process or nothing. Time is what is left of the
key's ttl and of each lease, so it needs no bound. go-redis sends nothing under
an ended ctx (`ObtainRefused`, `ReleaseRefused`). A panic in fn skips the
release, which is not deferred (redis.go:45-46); to the lock it is the same as
a crash. `Lease` forgets the key: it grants a lease when none runs, and lets it
end by time or by its owner. `KeepsLease` says that the key, with its token, its
ttl and the answers that get lost, comes to the same.

### RateLimit

One IP. Tokens are counted in units of 1/`Per` and a tick adds one unit. A call
on the limiter is two steps, because the library reads `time.Now()` before it
takes its mutex: `ReadClock`, and then `Admit`, `Deny`, `Reserve` or `Cancel`
with `clock[c]`, whatever calls and ticks came between. A call whose clock is
older than the bucket's `last` finds no new tokens and moves `last` back to its
own clock (`Tokens`, `Put`), so that the time between is credited again to the
next one; `rewound` (history) adds up how far that has happened. `Reserve` and
`Cancel` are apart, as at ratelimit.go:76-78, and `Cancel` returns what
`CancelAt` of the library does: the token less what was reserved after it.

### HttpClient

One call. `request[a]` is the request of attempt `a` on its way, apart from the
call: `begun` when net/http has found ctx alive, then `sent` (`Write`), then
`executed` with a status or `gone`, whatever the client or ctx does meanwhile.
So a request may still leave after ctx has ended. An attempt is resty's: that
net/http may by itself repeat an idempotent request on a reused connection is
not modelled. `pc` is where the call is: about to send, waiting, backing off.
resty asks the retry condition after each attempt; `GivesUp` is what it makes
of the answer, of ctx and of `RetryCount`. An error is one of five classes, the
ones `defaultRetryConditionFunc` tells apart. `RetryCount` 0 means "not given"
to `WithDefaults`, so a caller cannot switch retries off. `Unbuilt` is a request
resty cannot build: the condition is asked with a nil response and panics at
client.go:171. A body is the sequence of the widths of its runes.

### One process: DailyWriter, HttpPipeline, EventPublisher, AppProcess

`AppProcess` extends the other three, which share the writers of `DailyWriter`
(one for the logger, `app`, and one for the audit files, `audit`).

- `DailyWriter`: `today` is the clock; `files[w]` the days whose files are
  open. Each operation runs under the mutex of its writer and is one step.
  lumberjack opens a file with the first line, also after `Close`. `Log` is a
  line of the logger: written, refused by the disk, or below the level.
- `HttpPipeline`: a chain per server and route, entered by `Pass` (the code
  before `c.Next()`) and left by `Leave`. `Preflight`, `TooMany` and
  `Unauthorized` answer and abort, handlers answer, `Panic` unwinds to
  `Recover`. `answers[r]` and `lines[r]` are all that was written for `r`.
  `Chains` follows the code, not its comments: `RegisterAPI` puts `Timeout` on
  the whole engine (router/api.go:16), and `RequestContext` is in both chains,
  although api.go:23 and admin.go:13 name neither. A timeout only ends the ctx
  of a handler, which may return when it likes. The token bucket is `RateLimit`'s.
- `EventPublisher`: XADD succeeds, is repeated by go-redis, or fails with or
  without effect; then the audit line is written or lost. Its user is
  `debug publish_event`: no handler publishes today, `Health` only pings.
- `AppProcess`: `stage` is main's place. `Build` and the five failures are the
  steps of `New`; `Serve` starts the goroutine of api.go:61, which logs
  (`StartLine`) and listens with nobody waiting for it; `Signal` kills the
  process before `Notify` and in commands, and is dropped when one is pending.
  `ShutdownTimeout` ends in `log.Fatalf` (cmd/api/main.go:18), which skips the
  deferred `Close`. `Close` goes through its list one at a time. The consume
  commands are `EventConsumer`'s.

Behaviour of the code that the models show and that is no error of its own
documentation: a listen error is swallowed when the select takes the signal; a
client whose first ping fails is not closed (redis.go:20); the line of
`StartLine` may open the log file again after `Close`; a request that panicked
has no access line; `publish_event` exits with 0 although `Publish` failed; an
audit line may be in the file of a later day than the event's `time`.

## 3. Runs

| Run | Instance | Shows |
|---|---|---|
| `consumer_safety` | 2 processes with own names, 1 topic, 3 messages, batches of 2, 3 upsets, lossy reads | type, at-least-once, no handling after settlement, accounting of the new-message loop, graceful exit, order, refinement of `AtLeastOnce` |
| `consumer_live` | 2 processes with one name, 2 topics of 1 message, 1 upset | owed messages are handled and settled in the end, also when a rolling restart makes two processes share a name; a signalled process stops by itself |
| `consumer_drain` (violation) | 1 process | finding 1 |
| `consumer_nogroup` (violation) | 1 process | finding 2 |
| `alerts` | 2 alerts, 2 keys, 2 sinks, window 2, 5 ticks | clean-up, silencing only after success, cooldown |
| `cache` | 3 callers in 2 processes, 2 changes, 2 failures | one flight, explained staleness, freshness in the end, every call returns |
| `lock` | 3 processes, ttl 3, 3 upsets | mutual exclusion within leases, no theft, refinement of `Lease`, keys are freed |
| `lock_left_behind` (violation) | 2 processes, no upset | finding 4 |
| `ratelimit` | 3 requests at once, bucket of 2, 2 ticks per token, 3 ticks | one bucket, the admission bound |
| `ratelimit_denied` (violation) | 2 requests at once, bucket of 1 | finding 3 |
| `httpclient` | retry counts 0 and 2, bodies of up to 3 runes, limit of 4 bytes | repetition only after a timeout or a 5xx, nil is earned, whole runes, every call returns |
| `app_process` | each kind of process, 2 requests, 1 publication, 2 days, 1 upset | roll-back, clean exit, nothing closed in use, one answer, access lines, audit log, a server stops |

**Bounds.** `MaxLen` (publications per topic): 3 with batches of 2 gives a full
batch, a partial one and a message that arrives in between; the order
properties need two messages in a batch and one outside. `MaxUpsets` counts
failed or lost calls, handler errors, signals and kills: 3 allow a failure, a
failure during the recovery from it, and one of another process. One is the
bound of `consumer_live`: with two topics a second one lets each process fail
the XGROUP CREATE of the same topic, which nobody then serves while the
processes run. That is finding 2, which `consumer_nogroup` shows, and the
promise cannot hold beyond it. `MaxTime`:
more than twice the window (alerts) and enough for a token and a half to refill
(rate limit), so that clocks up to three ticks old meet buckets that refill, are
capped or are below zero. `MaxVersion`: two changes, so that a flight can be overtaken by
either or both. `MaxDay`: one midnight, anywhere in the life of a process. Two
requests are enough for one to end while the other runs; the components of a
request share only the log file. `MaxAttempts`: 3, so that an attempt can be
overlapped by the request of the one before. `MaxDebt` bounds how far a bucket
falls below zero; the code has no such bound, because of finding 3. Bounds are guards of the environment's
actions (`Publish`, `Upset`, `Tick`, `Update`,
`Midnight`) or, for `MaxDebt`, of `Reserve`;
the proofs hold for every value of them.

**Fairness** is used in `consumer_live`, `consumer_nogroup`, `cache`, `lock`,
`httpclient` and `app_process`.

- *Consumer*: WF of `Start` (a supervisor restarts what stops: consumer.go:16,
  :214), of a process's `Progress` (reads block for a bounded time, handlers
  return), and of an XACK failing once its ctx has expired. Nothing forces a
  signal, a failure or a publication, and replies of `>` reads are not lost in
  this run: an entry of a lost reply waits until the next start, which nothing
  forces either.
- *Cache*: WF of `Expire` (Redis drops what has a ttl) and of each caller's
  next step (Redis and loaders answer, with a result or an error).
- *Lock*: WF of `Tick`, that is, time passes.
- *HTTP client*: WF of sending, of the timeout of an attempt (`SetTimeout`,
  client.go:117) and of the back-off timer. Nothing makes a server answer or a
  ctx end.
- *Process*: WF of main's steps after a signal: the select, `Shutdown`, its
  return (its context expires after 10 s, api.go:78), `Close` and the return
  from main. Nothing makes a handler return or a signal come. `ServerStops`
  starts from a signal that `Notify` has caught.

Deadlock is not checked in `httpclient` and `app_process`: the call returns and
the process ends.

## 4. Proofs

All theorems are of the specification and for every value of the constants
that the named assumptions allow (natural-number bounds, a positive batch size,
window or ttl, a "nobody" that is not one of the processes).

- **`EventConsumerProofs`**: `TypeCorrect`; `AtLeastOnceDelivery`;
  `ConsumerKeepsPromise` (the refinement). `SettledWasHandled` is not inductive:
  that an XACK is preceded by a success is known only through the place of the
  process. `SafetyInv` adds it as `AckHandled` (in `ack`, the next message of
  the batch is handled), and what it needs in turn: batches and PELs hold
  delivered messages only, and the stream order is without duplicates, so that
  "next" is one message. For the refinement each action is mapped to `Publish`,
  `Handle`, `Settle` or a stutter. None of this assumes a name per process.
  The last part is about one process among any others (`OthersLeaveAlone`,
  `MineCases`): `SignalledReadsNoMore`, the safety half of `StopsAfterSignal`,
  and two theorems that delimit findings 1 and 2. `DeadlineIsOnlyMissedInBatch`
  assumes that signals fall between batches and concludes `DrainHasDeadline`;
  `GroupsOnlyMissAfterFailure` assumes that XGROUP CREATE fails at most where
  the group exists and concludes that a process that reads has its groups.
- **`EventConsumerOwnNameProofs`**, under `OwnName`: `NothingHandledAfterAck`,
  `NewLoopAccounting`, `GracefulExit`, `InOrder`. `OwnNameInv` adds that PELs
  are disjoint and describes each process's slot: its batch is in its PEL; in
  the new-message loop the PEL is the batch and the lost replies.
- **`AlertNotifierProofs`**: `TypeCorrect`, `CleanupIsInvisible`,
  `SilenceIsEarned`, `CooldownIsKept`. `DedupInv` ties every stamp to an
  accepted alert and to the newest stamp, and a delivery about to commit to an
  accepted one. `OrderlyCommitsKeepCooldown` delimits the first of the two races
  that `CooldownHolds` names: under `CommitsOneByOne` (no two Commits of a key
  between clock and lock at once) stamps come in order (`StampsInOrder`) and
  every delivery starts a whole window after the last success. The second race
  needs no hypothesis there: what Try then misses is over when it looks.
- **`CacheRememberProofs`**: `TypeCorrect`, `FlightsAreShared`, `StaleEntriesAreExplained`.
  `FlightLands` is the lemma of the only step that moves several callers.
  `FreshnessIsStable` is the safety half of `EventuallyFresh`: once the writer
  is done and entry and flights agree with the source, only a change of the
  source ends the agreement. `CallsAreBounded` is that of `RememberReturns`: a
  call is at most four steps of its `Runner` (itself, or the leader it waits for)
  from its return. It needs `LedAtHome`, that a flight is led from its process.
  `OnlyOldFlightsUndoDelete` delimits the known race of `Set` and `Delete`: if
  every Delete is executed and finds no flight between the load of an older
  version and its Set, nothing outdated is cached once the writer is done.
- **`RedisLockerProofs`**: `TypeCorrect`, `MutualExclusion`, `KeyIsKept`. Mutual exclusion
  speaks of pairs of processes; the invariant `LeaseHoldsKey` speaks of the key:
  while a lease runs the key is its owner's and expires with it. From it, and
  from `NoLeaseOutside` (no lease before its SET), `LockerKeepsLease` maps each
  step to a step of `Lease`, an `Obtained` to a `Grant`; `LeaseIsExclusive` says
  what the abstraction is worth. `KeyRunsDown` is the safety half of
  `KeyIsFreedAgain`, and `OnlyCtxLeavesKeyBehind` delimits finding 4: it assumes
  that no ctx ends.
- **`RateLimitProofs`**: `TypeCorrect`, `FirstLimiterWins`; `RateInv` is
  the two with the type of the buckets.
  `SequentialDenialsCostNothing` is about behaviours in which no two denied
  requests are between `Reserve` and `Cancel` at once (`DeniedOneByOne`; any
  number of other requests may run beside them), which delimits finding 3. It
  concludes `DeniedCostsNothing`, and for calls with any clocks
  `OldClocksBound`: the admission bound plus twice what `last` was moved back,
  once for the tokens that refill again and once for a `Cancel` whose
  reservation an older call has overtaken. Its invariant `Account` counts
  tokens: what the bucket has, the reservation that will come back and what was
  admitted are paid for by the burst and the `Credit`, that is `last` and what
  it was moved back; `Reserved` says how far the event may have fallen below
  the reservation.
  `BucketIsNeverOverdrawn` is `AdmittedBound`, for any number of denied requests
  outstanding, until a call is older than the last one that changed the bucket
  (section 5). There tokens cannot be counted: a `Cancel` returns `Per + act -
  event`, and `event` may have fallen below `act` by other cancels, so one
  `Cancel` can return more than its request took, because others returned less,
  and what the outstanding ones will return depends on the order in which they
  come. The proof gives ticks a worth instead: 1 in the past, and twice as much
  for every token of distance into the future (`Worth`), since a reservation at
  a distance from the last event doubles it when it is cancelled. A reservation
  at `x` may claim `Worth[x] - Worth[x - Per]` (`Claim`). `Ledger(w)` is about
  the bucket at an instant `w`: besides the bound, it is not empty later than
  its last event unless it is full (`Ordered`), and all outstanding claims
  together are at most the worth of what denied requests have taken out and not
  given back, measured from any instant not before the last event or not before
  `w` (`Solvent`: `Owes` adds the claims, `Spent` is what was taken out). Since
  the claims are not negative, what was taken out is not either, which is the
  bound, and `DenialsGainNothing`. The invariant, `Books`, has the ledger in
  order at `last`; for a call it is carried on to the call's clock
  (`LedgerAdvance`, which is where the clock must not be older), and there
  `ReserveIsBacked` and `CancelIsBacked` are the steps that keep it.
- **`HttpClientProofs`**: `TypeCorrect`, `NoRepeatedSubmission`,
  `SuccessIsEarned`. `HttpInv` orders the attempts: those
  after the current one are untouched, those before it ended in a way that the
  retry condition accepts, and there is a result only at the end.
  `LongestPrefix` is about `TruncateUTF8`, whose loop is a recursive function,
  to the prover some function that satisfies its equation: the proof exhibits
  one, and finds where any of them stops by the least rune that no longer fits
  (`LeastNatural`, `Truncated`, `TruncateIsLongest`). `CallIsBounded` gives
  the measure behind `CallReturns`: at most three steps for each attempt.
- **`AppProcessProofs`**: `TypeCorrect`, `FailedNewRollsBack`, `NothingIsLeft`,
  `CloseComesLast`, `AnsweredOnce`, `AccessLogIsComplete`, `StreamComesFirst`,
  for any number of requests and days. `AppInv` is a conjunction of six parts:
  `WriterInv` (a writer holds the file of its last line), `RequestInv` (a
  request on its way in has no answer), `PipelineInv` (where a request is in
  its chain and whether it has passed `AccessLog` on the way out),
  `PublishInv`, `LifeInv` (what is open at each stage; active requests exist only while
  serving or after a hard end) and `FilesInv` (an open file has an open owner,
  the late line of serve's goroutine apart). Each part has its own step lemma
  under `AppInv`, with one step per action. `SignalShortensTheWay` is the safety
  half of `ServerStops`: `ToGo`, bounded by the number of handles and four, only
  goes down after a signal, and is 0 exactly when the process has ended.

The theorems that delimit a finding or a known race have a hypothesis about the
order of events, which stands in their statement, or in that of the property
(`CooldownHolds`, `AdmittedBound`), and nowhere else; the findings and the races
are behaviours outside of it. The "safety halves" show that
nothing undoes the progress a liveness property speaks of; that the progress is
made needs fairness.

Only model-checked: liveness (`KeepsPromiseFairly`, `StopsAfterSignal`,
`EventuallyFresh`, `RememberReturns`, `KeyIsFreedAgain`, `CallReturns`,
`ServerStops`), which the prover does not reach; each has its safety half above
(that of `KeepsPromiseFairly` is the refinement, `ConsumerKeepsPromise`).
Every invariant and every action property of a passing run is also a theorem.

## 5. Findings

Each is a run that TLC finds violated; the property states what a comment or
test says.

1. *The drain may have no deadline.* consumer.go:46 and :190 give the batch
   in hand `ShutdownTimeout` after ctx is done. The deadline is set only if ctx
   is already done when the batch starts (consumer.go:192); a signal during the
   batch leaves the handler unlimited, and only `os.Exit` of the signal handler
   ends it. `consumer_drain`.
2. *A group that could not be created is never created.* consumer.go:40 says
   Run creates missing groups; a failure is logged (consumer.go:56, :234) and
   then every read answers NOGROUP, which both loops treat as transient.
   `consumer_nogroup`.
3. *Denied requests cost tokens.* ratelimit.go:75 says they do not. When two
   denied requests both reserve before either cancels, the earlier one restores
   nothing. `ratelimit_denied`.
4. *The lock is not released when ctx has ended.* lock/redis.go:14 promises a
   best effort while the lease is valid; the release uses the caller's ctx, so
   nothing is sent. `lock_left_behind`.

Two races of the alert deduplication are known and named in `CooldownHolds`
rather than counted as findings: a Commit that read its clock earlier may write
over a newer one (dedup.go:88), which ends the window early by the time between
the two, and a Try that sleeps a whole window between its clock and its look-up
may find its entry cleaned up.

A race of the rate limiter is named in `AdmittedBound` in the same way. The
library reads its clock before the mutex, and a call that is overtaken there
moves the bucket's `last` back (ratelimit.go:70-78). With a burst of 2 and a
token per P: one request is admitted at 0 and a second reads its clock; at P a
third is admitted; the second takes the mutex, is admitted and sets `last` to
0; a fourth finds the time up to P credited again. Four have passed by P, where
bucket and time pay for three. No comment of the repository promises the exact
bound, so this is not counted as a finding; `OldClocksBound` says what it can
cost while denials do not overlap.

Also known: a caller of the cache that missed before a flight ended and reaches
`Do` after it loads again (redis.go:79), against the comment of
cache/redis_test.go:146; `OneFlight` says what is kept, that no two loads run
at once.

## 6. Not modelled, and open

- *Handlers, service, repository*: an answer is one of a few classes. The query,
  its errors and their mapping to codes are stateless.
- *Error codes, responses, configuration*: tables, formatting and values.
  `Load` is a step of `New` that succeeds or fails; what it reads are the
  CONSTANTS of the modules.
- *Utilities*: `TruncateUTF8` and `EnsurePointer` are part of `HttpClient`; the
  rest wraps the standard library. `JitterTTL` is represented by what
  `CacheRemember` needs of it, that a ttl is positive.
- *Debug commands*: demonstrations; `publish_event` is the one modelled.
- *Sinks*: they accept or fail; the formatting of an alert is left out, and the
  notifier's use of `HttpClient` is one such outcome.
- The memory growth of the rate limiter's map is stated by its own comment
  (ratelimit.go:26), and no property would add to it. A handler that fails for
  ever stops its topic (consumer.go:215): the code has no dead letters whose
  progress could be stated.
- `ShutdownTimeout` 0 means 15 seconds to the consumer and an immediate exit to
  `SetupSignalHandler`; the consumer model covers both by letting `os.Exit` come
  at any time after the first signal.
- Open: `EventPublisher` before `EventConsumer` in one specification (today each
  publication of the consumer's model is one entry, and a repeated XADD is two
  publications); the bound on admissions over every window of time instead of
  the life of the limiter. No small instance without old clocks refutes the
  latter, but `Ledger` does not carry over to a bucket that has been full and is
  refilled.
