# Specification of ByteFreezer Control

ByteFreezer Control is the control plane of the ByteFreezer ecosystem: one Go
process with an HTTP API that reports on four other services (receiver, proxy,
soc, packer), checks them in the background, limits the rate of its clients
and authenticates them. These modules specify its concurrent core, model-check
it on small instances with TLC and prove its main properties with TLAPS for
every value of the constants.

## Inventory

| Part | Source | State | Operations | Hard behaviour |
|---|---|---|---|---|
| Rate limiter | `middleware/ratelimit.go` | bucket map, a mutex, a ticker | `allowRequest`/`consume` per request; `cleanupBuckets` every 10 minutes | lookups against deletions; whole tokens from fractional time; eviction hands out a fresh burst; starvation |
| Ecosystem monitor | `services/ecosystem_monitor.go` | statuses map, HTTP client | `CheckAllServices`, `CheckService`, `GetServiceStatuses` | overlapping checks stored out of order; verdicts stored late; services that stall or never answer; timeouts |
| Housekeeping | `main.go` 156-185 | a ticker | one `CheckAllServices` per tick | rounds longer than the interval; dropped ticks |
| API handlers | `api/handlers.go` | none of their own | 13 endpoints, most of them calls of the services | several of them at once; answers put together from a map others write |
| Control statistics | `services/services.go` | counters, a mutex | increments, `GetStats` | two increments are two critical sections |
| Authentication | `middleware/auth.go`, `handlers.go` 440-480 | none; signed tokens | `AuthMiddleware`, `GenerateToken`, `Login` | tokens outlive the configuration they were issued under |
| Server lifecycle | `main.go` 80-154, `api/api.go` 101-137 | `api.HttpServer`, signal channel | `Serve`, `Stop`, `main` | signal against start-up; an unguarded pointer; requests in flight |
| Database service | `services/database.go` | a handle that is never opened | placeholders | closing while in use |
| OpenTelemetry provider | `otel.go` | two providers, a cleanup each | set-up; flushed by a deferred function of `main` | a collector that does not answer; a stop that skips the flush |
| Configuration | `config/config.go` | read once | `LoadConfig` | nothing is validated; an interval of zero |

They interact like this. A request passes the rate limiter, then the
authentication middleware, then its handler; the handler counts itself in the
statistics and calls the monitor, which asks the four services over HTTP.
Housekeeping calls the same monitor. `main` starts housekeeping and the API
server as goroutines, waits for a signal, and stops the server and the
database; telemetry is flushed as it returns.

What makes each part correct: the limiter admits no more than a burst and what
the rate earns, refuses only with cause and forgets idle keys; the monitor's
statuses are recent, and true of the time they are stamped with; a stop drains
the API before it closes what handlers use, gets the telemetry out and ends in
the time systemd allows; the counters agree with one another in every snapshot
and with what the limiter charged; a token is accepted exactly as long as it is
valid.

## Modules

| Module | Models |
|---|---|
| `LimiterConfig` | the limiter's clients, configuration and unit of time, with their assumption |
| `Window` | a ghost: an observation window over one client's admissions |
| `TokenBudget` | what the limiter promises, without buckets, locks or sweeps |
| `RateLimiter` | `ratelimit.go`; shown to implement `TokenBudget` |
| `StatusBoard` | what the monitor promises, without callers, checks or timers |
| `EcosystemMonitor` | `ecosystem_monitor.go` with the handlers and the loop that call it; shown to implement `StatusBoard` |
| `Lifecycle` | `main.go`, `otel.go`, and the server of `api.go`, from the flags to the end of the process |
| `ControlService` | `auth.go`, the routes of `api.go`, what `handlers.go` counts and issues, the counters of `services.go` |
| `RequestPath` | `RateLimiter` and `ControlService` composed in the order of `NewRouter`, with restarts |
| `MC*` | the small instances of the five, and their sets of model values |
| `*Proofs` | the theorems about them |

Operators whose names begin with `Bad` are wrong variants of the definition
that follows them, each a slip one could make in the code. They are not part of
any specification; replacing a definition by its variant shows that a property
would notice.

### RateLimiter

`buckets` is the map, a function whose domain is the set of keys present; a
bucket is its tokens and `idle`, the ticks since `lastRefill`. Time is relative
throughout, so that no clock has to be bounded. `mutex` is `rl.mutex`, held by
a request from `Lookup` (the first half of `allowRequest`) to `Admit` or
`Refuse` (`consume` and the return); `Respond` is the rest of the middleware.
The sweep runs in one step because it holds `rl.mutex` all along, reads the
time once, and `bucket.mutex` is only ever taken under `rl.mutex`. `Tick` can
come between any two steps, also inside the critical section. The arithmetic of
`consume` is modelled exactly: `TokensToAdd` is the integer part of elapsed
minutes times the rate, in ticks of 1/`Minute` minutes.

`MaxLag` bounds how late a due sweep may run, and is less than a period, so no
tick of the cleanup ticker is lost: Go drops ticks only when the receiver lags
a whole period, ten minutes, behind. `SinceCap` and `MaxWindow` bound ghosts.

`getClientIP` is abstracted to the key it returns. Without a forwarding header
that is the remote address with its port, so a client without a proxy is one
connection, and what the modules say of a client holds of it. Floating-point rounding of
`elapsed.Minutes() * rate` is not modelled; nor is overflow of a product that
would need centuries of idle time.

### EcosystemMonitor

A *task* is a goroutine that calls the monitor: an HTTP handler or
housekeeping. `task[k]` says which call it is in and for how long, and
`check[k][s]` where its `checkSingleService` of `s` stands: waiting for the
health endpoint, for the configuration endpoint, about to store, done.
`CheckAllServices` begins all its checks together (`Begin`), each stores
through `Publish` on its own, and `Collect` is the return of `wg.Wait`. A call
of `CheckService` has one check and stores only if it did not fail (`Stores`).
`GetServiceStatuses` takes a copy under the read lock, so what a handler
answers is the map at the step after `Collect`; the properties are stated there.

A service is, from the monitor's side, one of six modes (`HealthyModes` and the
others), taken from the branches of `checkSingleService`: it answers well, with
a body that does not parse, with a body that never ends, with another status,
with an error, or not at all. It may change mode at any time. A fast answer may
come after any part of the client's timeout; a slow one ends by it exactly. The
write deadline of the server is the same 30 seconds in the code, and
`WriteTimeout` equals `ClientTimeout` in every instance. A body that stalls or does
not parse counts as healthy, in the code and so in `Good`: the properties say that
verdicts are recent and earned by this measure, not that it is a good one.
`age` of a status is the time since its `LastCheck`, which is set before the
first request (line 112).

`Settled` states when time may pass: only when everybody waits for the network
or a timer. Without it no bound on a status' age could hold, with it the bounds
are about what the code waits for, not about the scheduler.

`sinceOther` is a ghost: the ticks since a service last was of the other kind
(`Good` or not), so `Since(s, h)` is how long ago `s` last was as a verdict `h`
says. `VerdictWasSeen` compares it with the age of the stored verdict.

`StatusBoard` has only what readers of `GetServiceStatuses` can rely on: a
status arrives at once (`Post`), at most `MaxDelay` old and true of some moment
of that delay, and is replaced before it is `MaxAge` old. It allows a newer
status to give way to an older one, because the monitor does that.
`EcosystemMonitor` maps to it with `MaxDelay` two client timeouts and `MaxAge`
one gap between rounds and four client timeouts; its calls and checks are
stutters until one stores.

### Lifecycle

`main` walks through its flags and `config.LoadConfig`, `InitOtelProvider`,
`NewServices`, the start of its two goroutines, and after a signal through
`Server.Stop` and `API.Stop` to the deferred flush; `serve` through `API.Serve`,
`keeper` through `startHousekeeping` up to its ticker. `conf` is what the file
turns on, any subset of `Options`, since nothing validates it; what cannot be
set up (`Connect` always fails, an exporter may) is logged and the start goes on.

`server` is whether `api.HttpServer` is set, which `Assign` and `Clear` write
and `Look` and `Call` read with no lock between them. `net/http` is external:
`Shutdown` closes the listener at once, then waits for the requests in flight
(`Drained`) or for its context (`Expired`). So is the OpenTelemetry SDK: a
provider's shutdown ends when the collector answers or with its context, and
`Flush` takes the tracer before the meter. A signal before `signal.Notify`, or
one that is not on its list (`Reload`, the unit file's SIGHUP), ends the process
at once; so does the panic of `NewTicker` on an interval that is not positive.

`stopAge` is a ghost, the time since the signal was received. It advances only
in the two waits of a stop, the grace period and the flush; all other steps take
no time, so `EndsInTime` is about what the code waits for.

### ControlService

A request's way behind the rate limiter: `Passes` is `AuthMiddleware`, which
`NewRouter` installs for every route or for none; `Reject` is its 401 or 403,
`Enter` the call of the handler, `CountRequest`, `CountCheck` and `CountQuery`
the increments, each under `Stats.mutex` and so a step of its own, `Login` and
`Respond` the end. Routes are told apart by what their handlers count and
whether `isAdminEndpoint` covers them; the monitor's part of a handler is in
`EcosystemMonitor`, between `CountCheck` and `Respond`.

`tokens` are the tokens users hold: name, the secret they were signed with, the
admin claim, and the ticks `left` to their expiry. They are not the process'
state and survive `Restart`, which brings any of the configurations and fresh
counters. Only tokens that `Login` issued occur: a signature verifies exactly if
the secrets are equal. Password verification is a TODO in the code, so `Login`
depends on the name alone. `sinceAdmin` is a ghost; it
runs on while the process is down under the list it had last. `Expiry` is one
constant, so a change of the expiry between two starts is not modelled.
`GetStats` copies the counters under both mutexes, so every state's counters are
a snapshot it may return.

`MaxCount` bounds what clients send: once so many requests have been counted
since the last start, `Enter` takes no more until a restart. No handler is held
up by it: those that have begun still count and answer, so the counter may pass
it by as many as are in flight.

`AdminCallsAuthorized` is about the step that calls an administrator's handler
while authentication is on: it needs a token of the process' own secret, of a
user who was on the list less than the expiry ago. `RemovalTakesEffect` is about
the tokens alone; together with `Passes` they say who gets in, across restarts
that turn authentication off and on and change the list and the secret.

### RequestPath

`RequestPath` EXTENDS `RateLimiter` and instantiates `ControlService` over the
same handler goroutines; `request[r]` is where goroutine r stands at the
limiter, `handling[r]` behind it. `Authenticate` needs an admitted request, and
`Answer` ends both: the middlewares are nested calls. Requests that
authentication turns away have been charged too, since the limiter comes first.
Both clocks advance together (`PathTick`), and `Restart` loses buckets, requests
and statistics but not the users' tokens.

`counted[c]` is a ghost: how many of `stats.api` came from client c, observed
in the first `MaxUptime` ticks of a process and frozen afterwards. `CountedWithinRate` compares it
with what the limiter can have handed out since the start: a burst, the rate,
and, since it is stated without `RefillBeforeEviction`, one more burst for every
`EvictAge + 1` ticks. It would fail if a 429 did not end a request, if a request
could be counted twice or after an eviction anew, or if statistics and buckets
did not start together. `Observe` opens the limiter's observation window at any
moment, so that `EvictionWindowBound` says the same of every stretch of time
within the life of one process. Both middlewares are optional in the code: rate limiting
is on here (without it nothing is to be shown), authentication as `Configs` says.

## Runs

| Run | Instance | Shows |
|---|---|---|
| `limiter_budget` | 2 clients, 3 goroutines, minute 3, rate 2, burst 2, eviction after 3, sweep every 2, lag 1, windows of 5 | type, `HeldBucketIsLive`, `NoStaleBucket`, `WindowBound`, `ImplementsBudget` |
| `request_path` | 1 client, 2 requests, minute 3, rate 1, burst 1, eviction after 1, sweep every 2, lag 1, windows of 2; 2 routes, authentication on or off, expiry 1; `MaxCount` 4, `MaxUptime` 4 | `PathTypeOK`, `CountedWithinRate`, `EvictionWindowBound`, `RefusalJustified`, `ServedAgain`, when a bucket may be evicted before it earns a token |
| `monitor_race` | 1 service in all modes, 2 handlers, client timeout 1, interval 3 | type, `CollectedIsRecent`, `VerdictWasSeen`, `StatusAgeBound`, `AccurateInTime`, `ImplementsBoard` |
| `monitor_summary` | 2 services up or silent, 1 handler | `CollectedIsRecent`, `HealthyAnswerJustified`, `CallBound` with two services that stall together |
| `monitor_fair` | 1 service in all modes, 1 handler, client timeout 2, interval 3 | `StatusAgeBound` with rounds longer than the interval, `EventuallyAccurate`, `CallsReturn` |
| `lifecycle_stop` | 3 requests, grace 2, flush timeout 2, stop timeout 7, every configuration | type, `CutOnlyAfterGrace`, `PartsOutliveRequests`, `EndsInTime`, `StopGoesOn`, `SignalEnds`, `SignalFlushes` |
| `control_path` | 2 requests, 2 users, 2 secrets, 3 configurations, 4 routes, expiry 2 | type, `CountersAgree`, `RemovalTakesEffect`, `AdminCallsAuthorized` |

Why the bounds are enough. In `limiter_budget` 2/3 of a token per tick makes
every refill leave a fraction; 2 tokens take exactly the 3 ticks of the
eviction age, the tightest configuration that `RefillBeforeEviction` allows;
two goroutines share the observed client and a third competes for the mutex.
Five ticks of window are more than one eviction and two refills.
In `monitor_race` three tasks give an older check, a newer one it overwrites, and
the one that reads; the bound of `CollectedIsRecent` is reached, and
`StatusAgeBound` fails there with one tick less. `SinceCap` 8 exceeds every bound
it is compared with. `monitor_fair` has a timeout of two ticks, so that changes
fall inside a wait, and a round of four ticks against an interval of three. In
`lifecycle_stop` every interleaving of one start and stop is covered; requests
come and go, and a stop that uses up the grace period and both flushes takes six
ticks, one less than its timeout.
In `request_path` a token takes three ticks, and a bucket is evicted when it is
two ticks old or more, at a sweep that comes at its second tick or, delayed, at
the third: both ways back to a token occur within `MaxUptime`. `CountedWithinRate`
allows one request at first, two after two ticks and three after three; two are
counted at two ticks, after an eviction, and a refill that left `lastRefill`
alone would count a fourth at three. `MaxCount` is 4 and the counter passes it by
one, so neither bound cuts that off. A window of two ticks can see evictions of
buckets that have earned less than the burst they get: `WindowBound` fails there.
In `control_path` the three configurations turn authentication on and off,
remove and bring back an administrator and change the secret; the four routes
have one of each way of counting, with and without the admin check; `SinceCap`
exceeds the expiry, so the bound of `RemovalTakesEffect` and
`AdminCallsAuthorized` is met and not cut off.
`monitor_race` and `control_path` use the symmetry of their handlers, which no
property tells apart; no liveness property is checked under symmetry.

### Fairness

The scheduler runs goroutines that can run, `sync.Mutex` does not starve a
waiter (hence strong fairness of the limiter's sweep), and time passes. In the
monitor time is strongly fair: without that, endless calls in zero time would
be a behaviour, since a fast service answers at once. Nobody is obliged to send
a request, a service may behave in any way for ever, and a handler may hang;
`ServedAgain` has the client's retries as its premise, and `EventuallyAccurate`
the service's lasting mode. In a stop main, Serve and housekeeping go on and the
contexts expire; that a handler returns or the collector answers is not assumed.

### Where the repository says something else

Five runs check a statement of the repository that the code does not keep.

| Run | Statement | What the code does |
|---|---|---|
| `monitor_timeout` | `ecosystem_monitor_test.go` 530: with `TimeoutSeconds: 1`, "Should timeout and return error"; `README.md` 522 | the client's 30 seconds apply to all services (line 27); `TimeoutSeconds` is never read |
| `monitor_writetimeout` | `README.md` 510: "Continue operating even if some services are unavailable" | the health check of a silent service takes the client's whole 30 s (`ecosystem_monitor.go` 27) and asks for no configuration afterwards (123-126); the write deadline, 30 s as well (`api.go` 109), has passed when the answer that is to report the service unhealthy is ready |
| `lifecycle_nilserver` | `main.go` 101-109: a signal is waited for and the service is "stopped" | `Stop` may clear `api.HttpServer` between Serve's assignment and its next read, which then dereferences nil |
| `lifecycle_bindfail` | `main.go` 99: "service is running", and the unit's `Restart=always` | a listener that fails is logged and the process lives on without it |
| `control_public` | `api.go` 65 and 68: health check and login are "(public)" | the authentication middleware covers every route, so both need a token when it is on; that includes the login that would issue the first one |

Noted without a run of their own: `GetEcosystemHealth` says it triggers a fresh
check, but an older check of another caller may overwrite it before the
snapshot (`CollectedIsRecent` bounds by how much); a failing `CheckService` is
not stored, so `GetServiceStatuses` may lag behind it until the next round
(`StatusAgeBound`); a stop is logged as graceful also when it cut requests off
(`CutOnlyAfterGrace` says when); the unit's reload signal ends the process;
the Kubernetes probes ask `/api/v2/health`, which is not a route.

## Proofs

All theorems hold for every value of the constants that the named assumptions
allow; tlapm checks them to the last leaf.

* `RateLimiterProofs`. `LimiterInv` is type correctness together with "a request
  between lookup and charge holds the mutex and has its bucket"; neither part is
  inductive alone, since `Admit` needs the bucket to exist to keep the type and
  the sweep needs the mutex to keep the bucket. From it: `LimiterTypeOK`,
  `LimiterHeldBucketIsLive`. `LimiterNoStaleBucket` adds a relation between a
  bucket's idle time and the ticker: a bucket past the eviction age has not
  lived through a whole period. `LimiterRefusalJustified` (for a positive burst)
  adds that the observed client's bucket is at least as idle as its last
  admission is old, unless it has a token. `LimiterNoLastingRefusal` puts the
  two relations together: a bucket that refuses is at least as idle as the last
  admission is old, and no idler than the eviction age, a sweep period and its
  lag. It holds at every rate, zero included, and says something where a bucket
  never lives long enough to earn a token; no run has such a rate, and in the
  runs' instances `RefusalJustified` is the stronger statement, so no run lists it.
* `LimiterEvictionWindowBound` needs no relation of rate and eviction age. What
  a window has seen admitted and what the bucket is still worth (`Claimed`) are
  covered by a full credit, the rate, and a burst for every `EvictAge + 1` ticks
  of the window and of the idle time before it, less the idle time that has not
  ended in a refill or an eviction (`EvictionInv`). The point is that idle time
  pays for a fresh burst only once: an eviction spends more than `EvictAge` of it
  for at most a burst.
* The refinement, `LimiterImplementsBudget`, maps each bucket to its worth: its
  tokens and what its idle time has earned, up to one unit less than
  `BurstSize + 1` tokens. It assumes `RefillBeforeEviction`
  (`BurstSize * Minute <= RequestsPerMinute * EvictAge`), which the shipped
  configuration (100 per minute, burst 20, 30 minutes) satisfies 150 times over;
  without it eviction does hand out more than the rate earns.
  `TokenBudgetProofs` proves the promise of the budget itself, by the invariant
  that what is admitted in a window and what is left are paid for by a full
  credit and the window's earnings; `LimiterWindowBound` carries it over.
* `EcosystemMonitorProofs`. The invariant ties each check's wait to the age of
  its call, so that a result about to be stored is at most two client timeouts
  old, and its verdict to the ghost that saw the service so. From it:
  `MonitorTypeOK`, `MonitorCollectedIsRecent`, `MonitorVerdictWasSeen`, and, for
  finitely many services, `MonitorHealthyAnswerJustified`.
* `MonitorBoardProofs`. `MonitorStatusAgeBound` needs the ticker: between
  rounds a status is no older than two client timeouts and the time since the
  ticker fired (a whole gap, if its tick waits), and during a round no older than
  the gap, two timeouts and the round's age until the round replaces it; no call
  outlasts two timeouts. `MonitorAccurateInTime`
  joins the two halves: a status younger than the bound, with a verdict that was
  true since, shows what a service has been for longer than the bound.
`MonitorCallBound` is the last of these by itself.
  Both bounds together are what a stored status
  needs to be a `Post` and a tick a `Tick`: `MonitorImplementsBoard`.
* `LifecycleProofs`. `CutOnlyAfterGrace` and `PartsOutliveRequests` are facts
  about the last steps that depend on earlier ones: the invariant records that a
  stop that found its server has shut it, that nothing is accepted afterwards,
  that only waiting or giving up leads on, and that providers are touched only
  after the API. `LifecycleEndsInTime` adds up what the stop has spent: it
  assumes `Grace + 2 * FlushTimeout < StopTimeout` (2 + 2 * 5 against 30 in the
  code and the unit file). `LifecycleStopGoesOn` is the safety half of
  `SignalEnds`: `StopLeft`, the steps and ticks that a stop can still take, never
  rises and falls with every step of main and every tick, so a stop that is not
  stuck ends; that it is not stuck is ENABLED and fairness, and TLC's. Also
  `LifecycleTypeOK`.
* `RequestPathProofs`. `PathCountedWithinRate` is the end of a balance per
  client: what is counted, what is charged and not yet counted or given up
  (`Owing`), and what the bucket is worth are together paid for by a burst, the
  rate, and the idle time that a refill or an eviction has ended (`Paid`). An
  admission moves a token from the bucket to `Owing`, a count moves it on, an
  eviction turns more than `EvictAge` ticks of idle time into at most one burst.
  It holds for finitely many handlers and every configuration of the limiter.
  `PathTypes` is the type of the whole; `PathRefusalJustified` and
  `PathLimiterProperties` carry the limiter's theorems (live buckets, no stale
  bucket, the eviction window bound) over to handlers behind it and to restarts,
  where the buckets are lost and a window is closed.
  `PathImplementsControl`: every step of the path is a step of `ControlService`
  or a stutter of it, so that `PathControlProperties` takes its theorems over for
  the service with the limiter in front, the action property included.
* `ControlServiceProofs`. `RemovalTakesEffect` is the end of a sum that no step
  raises: the ticks since a token's user was an administrator and the ticks the
  token has left make at most the expiry. `ControlCountersAgree` counts the
  handlers that owe a second increment: checks, queries and those make at most
  the requests (for finitely many handlers). `ControlAdminCallsAuthorized`
  follows from the sum at the step where a handler begins: a token that passes is
  unexpired, so its user was listed less than the expiry ago.

The assumptions on constants are those of the modules (`LimiterAssumption` and
so on), which only say that rates, ages and bounds are numbers of the kind the
configuration has; `PathAssumption` is those of `ControlService` under the
names of `RequestPath`. What a theorem assumes beyond them is in its statement.

Only model-checked: the liveness properties `ServedAgain`, `EventuallyAccurate`,
`CallsReturn`, `SignalEnds` and `SignalFlushes`, since the prover handles neither
fairness nor ENABLED. Every invariant and every action property of the runs is
proved.

## Not modelled

Routing, validation and JSON; URLs, versions and fetched configurations; the
bodies of the tenant and restart handlers and of the database operations, which
are placeholders that return fixed results; `LastActivity`, and
`IncrementConfigUpdates`, which nothing calls; log levels and
`InitializeComponents`, which only logs; what telemetry records; the connection
a non-200 configuration answer leaves open; playbooks.

## Plan

1. The order of `EcosystemMonitor` and `ControlService` in one handler: how far
   the health check counter may run ahead of checks that were made.
2. More than one client in `request_path`.
