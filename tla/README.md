# kubio: TLA+ models and proofs

kubio is a reverse proxy in one Go package.  It reads `kubio.json`, serves
HTTP or HTTPS with it, and reloads it while it runs.  This directory holds TLA+
modules that model the parts of it that decide something under concurrency,
failure or arithmetic limits, the TLC configurations that check them, and
theorems about them that the TLA+ proof system checks.

## The system

| Part | Code | State it keeps | Operations | How it interacts |
|---|---|---|---|---|
| Runtime generation and hot reload | `main.go` | `reloadableRouter.current`, an atomic pointer to router, certificate and bucket; `last`, the stat stamp the watcher acted on | `main`, `watchConfig`, `StoreGeneration`, `ServeHTTP`, `GetCertificate` | one watcher writes the pointer, every request reads it twice, the TLS handshake reads it |
| Rate limiter | `rate_limit.go` | the bucket inside the generation; the process-wide `rateLimiter` handle | `admitGeneration`, `reserveBucket` | requests replace the generation by compare-and-swap and race with the watcher for the pointer |
| Named backend: selection and health | `proxy.go` 54-254, 563-775 | the schedule cursor, per target a failure count and an ejection deadline under a mutex | `nextScheduledTargetIndex`, `nextHealthyTargetIndex`, `retryTargetIndex`, `observe`, `observeProbe`, the probe loop | requests and the probe goroutine share each target's state; `router.close` retires it |
| Retries | `proxy.go` 258-296, 781-1114 | the attempt number, the retry budget's window, the informational flag, the replayable body, the deadline context | `RoundTrip`, `roundTripWithStatusRetry`, `retryBudget.reserve`, `waitRetryBackoff`, `prepareRetryBody` | all requests of a backend share its budget and its health |
| Response bodies | `proxy.go` 298-466, 1312-1348 | `deadlineBody` and `directBody`: open or finalized, timer, context callback | `Read`, `Close`, `expire`, `finalize` | the reverse proxy, the timer goroutine and the context callback race for one body |
| Sites and routes | `router.go` | immutable once built; an index over routes when a site has more than eight | `selectSite`, `selectRoute`, `matches`, `betterRoute`, strip and rewrite | called by `serveHTTPRoutes` |
| Forwarding headers and client IP | `proxy.go` 1399-1541, `router.go` 502-543 | none | `setForwardedHeaders`, `effectiveClientIP` | called per request |
| Request ID | `request_id.go` | `requestIDWriter`: committed, hijacked, upgrade header prepared | `requestIDFor`, `WriteHeader`, `Write`, `FlushError`, `Hijack`, `enforce` | wraps the response writer, is wrapped by the access log's |
| Access log | `access_log.go` | `accessResponseWriter`: status, bytes | `serveLogged`, `write` | outermost writer of a request |
| Transports and TLS | `proxy.go` 1161-1259, `tls.go` | per generation a cache of transports | `directTransportCache.get`, `loadUpstreamTLS`, `loadTLSCertificate` | built with the router, closed with it |
| Configuration | `config.go` | none | `loadConfig` and its validators | run by main and by the watcher |

What is hard here, and what the properties are for:

* **One pointer, two writers.**  A request's compare-and-swap and the watcher's
  swap write the same pointer.  A request that won against a reload would bring
  the old router and certificate back; a request that lost must decide again,
  against the new limit, with a new clock sample.
* **Two loads per request.**  `ServeHTTP` takes its router from one load and is
  charged to the generation of another.
* **stat, load and build are separate.**  The file may change between any two of
  them, in `main` too; nothing may be lost for good and nothing half-built may be
  published.
* **Saturating arithmetic.**  Elapsed nanoseconds times a rate of up to 10^6
  exceed an int64 after a few hours of idleness.
* **Target health is read by one step and used by the next.**  Claims of the
  schedule cursor, eligibility checks, observations of requests and of probes,
  expiry and the retirement of the generation interleave per target.
* **The attempt sequence of a retry** has many early exits (deadline, client
  gone, informational response, budget denied) and must close a discarded
  response, and only a discarded one, exactly once.
* **Two validators.**  `decodeConfig` and the constructors judge the same options;
  a value the first lets through and the second refuses never gets published.
* **A build reads files one by one** while they may be replaced, shares transports
  between targets with equal settings, and may be refused half-way.
* **Two ways to one answer.**  A site and a route are found by maps and an index or
  by asking each; the client is found for `match.ip` and for the upstream by
  different code; the path exists decoded and raw.
* **Three writers around one response.**  Their calls come in any order, from a
  proxy that keeps header maps across a hijack and may panic; the ID must be sent
  once and the record must tell what was sent.
* **Three goroutines and one body.**  The reverse proxy, the timer and the context
  callback finalize a direct body; two of them are running before it is complete.

## Modules

| Module | Models | Uses |
|---|---|---|
| `TokenBucket` | the arithmetic of `rate_limit.go`: `reserveBucket`, its refill and its saturating operations, as operators | |
| `Runtime` | the generation pointer with everyone who touches it: `main`, `watchConfig`, `StoreGeneration`, `ServeHTTP`, `admitGeneration` | extends `TokenBucket`, instantiates `Admission` |
| `Admission` | what the limiter promises: one atomic decision per request, exact arithmetic | |
| `MCRuntime` | instances for TLC | extends `Runtime` |
| `TargetHealth` | the record of one target and what `available` and `observeFailureLocked` do to it, as operators | |
| `HealthPromise` | what health promises of each target, with ejections that end by themselves | |
| `Backend` | a named backend: cursor, health records, budget, and the attempt sequence of each request | extends `TargetHealth`, instantiates `HealthPromise` |
| `MCBackend` | instances for TLC; their schedule and delays are those of `Schedules` | extends `Backend`, instantiates `Schedules` |
| `Generation` | composes `Backend` with its probe goroutine and with `router.close` | extends `Backend` |
| `MCGeneration` | instance for TLC | extends `Generation` |
| `DirectBody` | the response body of a direct target: constructor, reader, closer, timer and context callback | instantiates `BodyPromise` |
| `BodyPromise` | what the body promises: one reason, one closing, everyone told that reason | |
| `MCDirectBody` | instance for TLC | extends `DirectBody` |
| `Schedules` | `buildTargetSchedule` and `buildBackoffDelays`, as operators | |
| `BackendConfig` | `newBackend`: what it accepts and what `Backend` is run with | extends `Schedules` |
| `ConfigDecode` | `config.go`: which texts load, and the configuration made of them | extends `BackendConfig` |
| `RouterBuild` | `newRouter`, `newSite`, the direct transport cache, `loadUpstreamTLS`: the build of one generation, step by step | extends `ConfigDecode` |
| `ClientAddress` | `effectiveClientIP`, `setForwardedHeaders` | |
| `Routing` | `selectSite`, `selectRoute`, conditions, strip and rewrite | extends `ClientAddress` |
| `ResponseWriter` | `requestIDWriter` inside `accessResponseWriter` around net/http's writer | |
| `Serving` | composes the build with one request on its way through the router | extends `RouterBuild`, `Routing`, `ResponseWriter` |
| `MCServing` | texts, requests and answers for TLC | extends `Serving` |
| `TokenBucketProofs`, `RuntimeProofs`, `AdmissionRefinement`, `BackendProofs`, `GenerationProofs`, `DirectBodyProofs`, `RouterBuildProofs`, `ServingProofs` | theorems | extend the modules they are about; `GenerationProofs` builds on `BackendProofs`, `ServingProofs` on `RouterBuildProofs` |

### Runtime

`current` is `reloadableRouter.current`; its field `ptr` stands for the identity
of the `runtimeGeneration` it points to, so a compare-and-swap compares `ptr`.
A request walks `new -> identify -> admit -> reserve -> swap -> serve | reject ->
done`: `Begin` is the first load, `Identify` the request ID (which may fail, with
500), `Admit` the second load, `Reserve` the clock sample and `reserveBucket`,
`CompareAndSwap` the swap, `Retry` the load after a failed one.  `wpc` is where
`main` (`mainStat`, `mainLoad`, `mainBuild`) and then the watcher (`poll`, `load`,
`build`, `prepare`, `swap`, `close`) stands; these run one after the other and
share the counter.  Each is one read of the file or one operation on the
pointer.  What a text of the file does when it is loaded and built is a record
of flags (`loads`, `builds`, `tls`, `listen`, ...), because the rest of its
content matters to nobody here.

Where the model stands for more than one thing in the code:

* A router's `gen` is the identity of the router and of its `limitConfig`.
  `reserveBucket` compares limits by pointer, so two equal limits of different
  generations differ.
* The process has one `rateLimiter`: `newReloadableRouter` binds it and
  `StoreGeneration` hands it from router to router.  It is no variable.
* `reserveBucket` grants a token without looking when the bucket belongs to
  another limit.  `BucketFollowsLimit` shows, and theorem `BucketBelongs` proves,
  that this branch is never taken on a published bucket.
* Certificate files are read while a generation is built.  They are assumed not
  to change by themselves: the watcher looks at `kubio.json` only.
* `statConfig` compares modification time and size.  An edit that keeps both is
  not seen by the program; in the model each edit leaves a new stamp.

### Backend

The constants of `Backend` are the configuration of one backend, and each run
is one `kubio.json`.  `call[r]` is the state of request `r`: where it stands, the
locals of the selection, `backendRetryState`, its attempt context, its timers,
and one entry per attempt for the response body.  A request claims a slot
(`Claim`), looks at the candidate under its mutex (`Examine`), has its body
buffered if it is to be replayed (`Prepare`), and is in `flight` until the
transport returns; `Observe` is the health observation, `Decide` the code's
decision on the outcome, then `Reserve`, `Discard`, `StartBackoff`, `Wake` and,
for the next target, `Scan`.  `Modify` and `FinishBody` are what the reverse
proxy does with the response.  Steps that touch only the request's own locals
are part of the step before them.

The transport is external.  `Answer`, `Break`, `Abort` and `Informational` are
what it does; an attempt may fail at any time, and after its context has ended
it may still answer.  `Stray` is a detail of `net/http`: after a response-header
timeout `RoundTrip` returns while the connection's reader may be about to report
a 1xx of that attempt.

`observeAttempt` and `available` read the clock, the context and the record under
the target's mutex, so each is one step.  So is `retryBudget.reserve`.

### Generation

`probe` is the goroutine of `runProbeLoop`, `closing` how far `router.close` has
come.  `observeProbe` locks the target's record and then looks twice: at the
retired mark and the loop's context (`ProbeLook`), and, if neither silences it, at
the probe's own context, by which it applies its result (`ProbeApply`).  A request
that asks for that record in between waits (`Blocked`); `router.close` holds no
mutex and may mark, or mark and cancel.  The timeout of the probe may also end in
between.  `late` counts the records that probes have written since the mark.  A
generation has one backend here; the code cancels the probes of all backends
before it joins any.

### DirectBody

`body` is `directBody`; its fields `timer` and `stop` say whether the handles are
set, and its `body` and `ctx` are `nil` exactly when it is closed.  Three
goroutines share it: the reverse proxy's, which constructs it (`ArmTimer`,
`StoreTimer`, `Register`, `StoreStop`: two statements of `newDirectBody`, each of
which starts something and then stores its handle), asks it twice (`Check`), reads
it (`ReadBegin`, `ReadReturns`, `Verify`, `Confirm`, `Fail`) and closes it
(`Finish`, `Reject`); the timer's; and that of the context callback.  Each may
`Finalize` it: the first one takes the handles under the mutex and undoes them
afterwards, in order (`StopTimer`, `StopContext`, `CloseBody`); what it still has
to undo is its `duty`.  The second `Close` that the reverse proxy adds after an
error of `modifyProxyResponse` finds the body closed and is left out.

The stores of the handles are not protected by the mutex, so they race with
`finalize`.  Each is one pointer; the interleavings of the four statements with
`Finalize` are the outcomes the build can produce.

### ConfigDecode, BackendConfig, Schedules

A text of `kubio.json` is a record with the fields of `rawConfig`; an absent field
is `Unset`, and one that is null or of another type is `Malformed`.  `Loads...` is
the condition under which the `UnmarshalJSON` of a block, or the part of
`decodeConfig` about it, returns no error, and `Decode...` what it makes of the
block: an absent `tries` becomes 1, an absent timeout a nil pointer or a zero, and
so on.  The two steps are kept apart because `newBackend` and `newSite` judge the
decoded configuration again, with conditions of their own (`AcceptsBackend`,
`AcceptsUpstream`, `AcceptsRespond`); `LoadedBuilds` is about the difference.
Durations are bounded by `MaxDuration`, beyond which `Twice` wraps as an int64 does.
Rules about characters are one Boolean field `valid` of a text, a site or a route.
Where a single choice has no effect on anything modelled (`backoff.jitter`, the
path of a probe) its spelling is left out.

### RouterBuild

`phase` is how far `newRouter` has come.  Backends are built in any order, because
a Go map is ranged over, and then, for each site, its own proxy and one per route
(`Steps`).  Every read of a certificate file is a step (`ReadFile`, in the order of
`loadUpstreamTLS`), and `ReplaceFile` may change any file between two of them.  A
`tls` block has an identity, `block`, which stands for its pointer: a route that
inherits the site's block shares what was read for it (`loaded` is
`loadedByConfig`); others read for themselves, and `transports` finds an equal key
or adds a transport.  Two of the code's maps are one here: `loadedByMaterial` gives
equal identities one pointer, so the key holds the identity itself.  `open` is
what has been opened and not been closed by one of the two error paths.

### Routing and ClientAddress

Pure operators.  `SelectByScan` and `SelectByIndex` are the two halves of
`selectRoute`; both fold `BetterRoute` over the candidates, the routes by their
numbers and the prefixes of a path by their lengths, in the order the code visits
them (`FoldInOrder`).  A host is a sequence of labels with a mark for how it was written,
which only `match.header` on `Host` can see.  A path is a sequence of bytes, a raw
path the same with a mark on every byte that is written as %XX, which is what
`stripEscapedPathPrefix` walks over.  `ParseURL`, `EscapedPath` and `JoinTarget`
are `net/url`'s and `httputil`'s, as the code uses them.  An address is IPv4 or
mapped; a prefix of fewer than 96 bits in mapped form stays as it is, as in
`normalizeIPPrefix`.

### ResponseWriter and Serving

The state of the three nested writers is one record, and each call an operator on
it; what the client has been sent is `blocks`, the header blocks in order.  A
header has two names, the request ID's and another, and the names that are listed
in `Trailer` or carry its prefix.

`Serving` runs `RouterBuild` to its end and then one request:
`idle -> admitted | rejected -> selected -> trip -> copy | upgrade -> body ->
return -> finished`.  `Enter` is `reloadableRouter.ServeHTTP` up to the limiter's
answer, which is nondeterministic here (`Runtime` is about it).  From `trip` on the steps are
those of net/http's `ReverseProxy`: which of kubio's hooks and writers it calls, in
which order, is external, what they do is not.  `Return` is the deferred record,
the ID on a header that was never written, and the server's own end.  The
upstream may send informational responses, an error of any kind, any status, even
one that is none, an upgrade, or trailers announced or not; a body may break, a
flush may fail or not be supported, a hijack may fail.  A backend's attempts are one step here; `Backend` is about them.

## Runs

| Run | Instance | Distinct states | What it shows |
|---|---|---|---|
| `runtime_admission` | 3 requests, 1 edit, clock to 2; limits that are slow, that saturate, and none | 10^6 | the compare-and-swap loop is one atomic limiter (`ImplementsAdmission`), never admits more than burst plus rate in any window, never brings an old generation back |
| `runtime_reload` | 1 request, 3 edits, clock to 1; texts that are good, without a limit, malformed, unbuildable, that move the listener or drop TLS | 2 * 10^5 | the right text ends up published whatever the order of edits and steps; certificate and router stay paired; replaced routers are closed; every request is decided |
| `backend_health` | 2 requests with 2 tries, schedule 0,1,0, `fail` 1, `cool` 2, clock to 4 | 9 * 10^5 | lazily expired records implement `HealthPromise`; a retry goes to an ejected target only when all are |
| `backend_budget` | 3 requests with 2 tries, budget of 1 per 2 ticks, no deadline | 2.4 * 10^6 | the budget's quota in every interleaving, no attempt after a 1xx of one before, whether that was answered or failed; final errors classified |
| `backend_deadline` | 1 request, 3 targets and tries, replayed body, health, budget, jittered backoff 1,2, deadline 3, late 1xx | 4 * 10^5 | every early exit closes what it must and nothing else, the deadline ends the sequence once the first attempt is on its way |
| `generation_probe` | 1 request, 2 targets, `fail` 2, probes every tick, clock to 3 | 3.5 * 10^5 | records that requests and probes share implement `HealthPromise`; probes are spaced, write at most one record after retirement, never block the closing |
| `body_race` | one body, 2 chunks | 3 * 10^3 | every interleaving of the three goroutines implements `BodyPromise`; reads end; finalized bodies are closed and leave no timer behind |
| `serving` | see below | 6 * 10^5 | from a text of the file to the record of a request: schedules, delays and transports are those configured, what loads also builds, a refused build leaves nothing, the site, route, path, forwarding headers and ID are right, and the record tells what the client was sent |
| `backend_fallback` | 4 requests, 2 targets, `fail` 1 | violation | see findings |
| `backend_classification` | as `backend_deadline` | violation | see findings |
| `backend_stray` | as `backend_deadline` | violation | see findings |
| `body_release` | one body, 1 chunk | violation | see findings |

Bounds.  `MaxEdits`, `MaxClock` and the sets of requests and texts bound the
runs; `CursorValues` is where the cursor wraps.  Three requests are the least in
which a swap can fail twice for different reasons (another request, then the
watcher), and in which a budget window with a quota of one is asked by two
requests that were denied nothing before.  `NanotokensPerToken = 2` lets a balance
be fractional, and `MaxInt64 = 7` lets both saturating operations saturate.  A
clock of two ticks separates a sample, a stale sample and a fresh one.  With
`Cool = 2` an ejection can be prolonged while it lasts and can run out within the
run.  Beyond `MaxClock` time goes on only for timers that have been set, so no
wait is cut off.

The run `serving` starts from families of texts (`MCServing`), each of which varies one
part and holds the others still, and the requests that go with it:

* backends: every weight of 0 to 4 for up to three targets (limits 3 and 7),
  every `base` and `cap` up to `MaxDuration = 10` with up to five tries, so that
  doubling meets and passes the longest duration; and every limit of `retry`,
  `health` and `timeout` from both sides;
* transports: a site and a route with six forms of `tls` block and three of
  `timeout` each, `http` and `https`, two replacements of a file (`MaxEdits`: the
  least that let two reads for one block differ from those for another in either
  direction); and sites that are refused after others, with a backend that reads a
  file and one that is probed;
* hosts: one site or two with any two of five patterns, six hosts;
* routes: up to three, of five patterns (with `RouteIndexThreshold = 1` those
  of two and more are indexed), and pairs with eight conditions; nine paths that
  end, begin or double a slash, and requests for every condition;
* paths: every raw path of up to four bytes of `/`, `a` and a reserved one, each
  plain or encoded, through ten stripping and rewriting routes;
* clients: five peers and up to three forwarded addresses of both forms, trusted,
  untrusted and malformed, under four sets of trusted proxies;
* responses: ID, log, limit, policies and configured headers that meddle with the
  ID, on and off; two informational responses, three errors, four statuses and every
  set of announced and late trailers; one body write with every flush;
* refused: texts that are refused for one combination or one field.

A second site, route, hop or informational response is where order first matters,
and none of the operators looks further than one element back.  There is one
request: requests share nothing once they have passed the limiter but their
backend, which is `Backend`'s matter.  The run checks invariants only and assumes no fairness.

Runs without deadlock checking end where the system may stop: all requests are
done, the file is not edited any more, the clock has reached its bound.

Fairness.  The Go scheduler runs every goroutine that can run: `main`, the
watcher (its ticker never stops), each request, the probe goroutine,
`router.close` once it is called.  Time passes and timers fire.  The transport
returns when its context has ended.  Nothing is assumed of upstreams, probed
targets, clients or of whoever edits the file: they may do nothing for ever.
So a request of `Runtime` need never end once it is decided (`serve`, `reject`),
and one of `Backend` need never come out of reading the client's body or of
copying the response (`Waits`): `RequestsAreDecided` ends at the decision, and
`DeadlineEndsSequence` begins when the deadline's timer has been set.
A read that blocks ends when its wrapped body is closed; a client need not take
what is written to it.
`RequestsAreDecided` needs no strong fairness: a request's swap fails only because
another one succeeded, and there are finitely many requests and edits.

## Findings

* `backend_classification`: `RoundTrip` (`proxy.go` 838-843) calls `cancel()` and
  then reads `ctx.Err()`, which is therefore never nil.  With `retry.deadline`
  configured every error of the attempts is replaced by `context.Canceled`, and
  an attempt that times out by itself gives 502 instead of the 504 of
  `docs/specs/v0.6.txt`.  Without a deadline `FinalTimeoutIs504` holds
  (`backend_budget`).
* `backend_fallback`: `nextHealthyTargetIndex` counts its own claims, but the
  cursor is shared.  When other requests claim slots in between, one request can
  claim the same ejected target's slots only, and falls back to it although the
  other target was never ejected.  `docs/specs/v0.16.txt` speaks of one complete
  schedule cycle.  Without concurrent claims the property holds
  (`generation_probe`).
* `backend_stray`: the informational flag belongs to the request, not to the
  attempt.  A 1xx that the transport reports after its attempt has timed out
  makes the next attempt's transport error a response observation, against
  `docs/specs/v0.16.txt`, section 3.
* `body_release`: `newDirectBody` (`proxy.go` 326-333) stores `timer` and `stopCtx`
  without the mutex after both may be running.  If the timer, or the callback of a
  context that has already ended, finalizes the body first, `finalize` finds no
  handle to take, and the finalized body keeps the one stored afterwards and with
  it the context; a callback that is registered after the timer has ended the body
  stays registered.  `docs/specs/v0.18.txt`, section 3, has the references
  released.  It is also a data race.  The timer itself never outlives the body
  (`NoLateExpiry`).

In three more places the code and its documents differ.  The models have them as
the code does; no run is about them, and the properties of the passing runs claim
only what holds beside them.

* The request ID goes upstream twice.  `setRequestID` (`request_id.go` 126) stores it
  under the map key `X-Request-ID`, which is not the canonical spelling, and the
  proxy's `Header.Set` (181) stores it under `X-Request-Id`, which leaves the other
  key alone: two lines with one value (`SentIDs`), against `docs/specs/v0.21.txt`
  39-43, "sets exactly one canonical value".  In the instance of `serving`,
  `IsSet(sent) /\ HasID(writer) => sent.ids = <<writer.id>>` is violated; `OneID`
  says only that no other value goes there.
* A retry after a late 1xx.  The 1xx of `backend_stray` may also come while the
  request reserves, closes or backs off.  `roundTripWithStatusRetry` has looked at
  the flag by then (`proxy.go` 876 and 896) and clears it for the next attempt
  (859), which it makes, although `docs/specs/v0.6.txt` 164-165 allows a retry only
  if no 1xx has been received for the failed attempt.  So `NoRetryAfterInformational`
  is violated in the instance of `backend_stray`; it holds when the transport
  reports a 1xx only of an attempt in flight (`backend_budget`).
* Retirement may turn a good answer into a failure.  `observeProbe` looks at the
  mark and the loop's context (`proxy.go` 134), then at the probe's own context
  (137), which the loop's cancellation ends, too.  When `router.close` marks and
  cancels in between, a healthy answer in time is recorded as a failure
  (`ProbeApply`); by `docs/specs/v0.17.txt` 104-106 and 131-132 retirement suppresses an
  observation or does not concern it.  Only requests that the retired generation
  still serves see the record.

## Proofs

All theorems hold for every value of the constants that satisfies the named
assumptions, which TLC evaluates in every run:

* `NanotokensAssumption`, `MaxInt64Assumption`, `ContentsAssumption`,
  `BoundsAssumption`: any number of requests, texts, edits and ticks, any rate and
  burst whose capacity fits an int64, which is what `loadConfig` lets through;
* `BackendAssumption`, `HealthAssumption`, `ProbeAssumption`: any number of
  targets, no more tries than targets, any schedule of the targets, and limits,
  delays and durations as `newBackend` lets them through;
* `ChunksAssumption`: a body of any length;
* `ConfigAssumption`, `TextsAssumption`, `TrafficAssumption`, `AnswersAssumption`:
  a text that loads has sites and routes in sequences, with host patterns that have
  been taken apart and finitely many conditions, and only a pattern with a wildcard
  may be without a path; its backends and blocks have the fields the decoder gives
  them, its weights are sequences of numbers, every path its tls blocks name is a
  file, and blocks at different places have different names; the decoder's bounds
  are numbers, and a missing target is none of the targets.  A request has a host, addresses, none of which is kubio's
  own, and a URL whose raw path, if there is one, means its path; an answer has a
  number for a status.  They say what a JSON document and an HTTP message are;
* `BadAssumption`: a file that cannot be parsed is told from one that can;
* `ReservedAssumption`: net/url writes a slash as it is.

* `TokenBucketProofs`.  `RefillExact`: for a well-formed bucket and a sample that
  is not earlier than its last one, the saturating refill is exactly the minimum
  of the capacity and of balance plus elapsed times rate.  `ReserveExact`: a
  token is granted exactly when that balance holds one.
* `RuntimeProofs`.  `AdmissionWindow` is not inductive.  `IInv` adds what makes it
  so: published, loaded and prepared generations are coherent (bucket and limit
  belong together, `PublishedCoherent`, `LoadedCoherent`); what a request is about
  to swap in was computed from what it loaded, at a sample no earlier than the
  bucket's (`AttemptCoherent`), and a loaded generation with the current `ptr` is
  the current one; and tokens are conserved (`Conservation`): what is left in the
  bucket plus what was granted since any admission is at most the capacity plus
  what has been restored since.  `Invariance` proves that `IInv` is an invariant;
  `TypeCorrect`, `NoOverAdmission`, `BucketBelongs`, `Monotonic` and
  `DecisionsCurrent` follow.  A second invariant, `WatcherInv`, is about `main` and
  the watcher: what they are about to publish has a certificate exactly if the
  process started with TLS, a request's attempt never parts the published router
  from its certificate, and the routers that are closed are those that were
  replaced, all but the one the watcher is about to close (`ClosedInv`).
  `CertificateAndRouter` and `EveryReplacedIsClosed` follow.
* `AdmissionRefinement`.  `Implements`: every step of `Runtime` is a step of
  `Admission` or leaves its variables alone.  A compare-and-swap that succeeds is
  the decision, at the clock sample that was taken before it; everything else a
  request does is invisible.

* `BackendProofs`.  `IInv` has four parts.  `SharedInv` types the cursor and the
  records.  `CallsInv` says of every request where it may stand in its attempt
  sequence: what the attempt counter, the reservation and the flags are there
  (`AttemptInv`), that a scan that has found a target ejected has seen every slot
  before it (`SelectInv`), which bodies are open (`BodyInv`), who has sent a 1xx
  (`InformedInv`) and what has ended its context (`ContextInv`).  `BudgetInv` ties
  the counter of the budget to the reservations of its window, `AccountInv` every
  retry to a reservation of its own.  From it follow `RetriesFallBackLast`,
  `BodiesAreClosedOnce`, `BudgetIsKept` and `MatchesAreRetried` without further
  conditions.  `InformationalEndsRetries` and `InformationalIsKept` hold as long as
  no transport reports a 1xx of an attempt that is over (`~StrayInformational`) and
  `TimeoutsAre504` where no deadline is configured.  That they do not hold without
  is shown by `backend_stray` of `InformationalIsKept` and by
  `backend_classification` of `TimeoutsAre504`; of `InformationalEndsRetries` see the
  end of the findings.
  `FirstFallsBackUndisturbed` assumes that every target has a slot
  (`SlotsCoverTargets`), which `SchedulesAreFair` shows of what
  `buildTargetSchedule` makes; the schedule may have any length.  It is about the
  behaviours in which no request claims a slot between two claims of another
  (`Undisturbed`), without which it does not hold (`backend_fallback`), and in which
  the cursor does not start over between two claims of one selection
  (`Unwrapped`): that happens once in 2^64 claims, where the schedule jumps unless
  its length is a power of two.  `ClaimInv` makes it inductive: the claims of a
  selection have gone from slot to slot, and the cursor stands at the next one.
  For a request that is alone both conditions are proved (`AloneInv`), since its
  first attempt starts with the cursor at 0.
  `HealthIsKept` is
  the refinement of `HealthPromise`: the promised end of an ejection is the stored
  one where it has not passed (`Ends`), and the streak counts from there
  (`Streaks`), so that every step of a request is a step of the promise and time
  passing ends ejections there that are still on record here.
* `GenerationProofs`.  The steps of the probe goroutine and of `router.close` keep
  `IInv` of `Backend` (they write the same records, and nothing else of it), so what
  it implies holds while a generation is probed and closed (`RequestsUndisturbed`,
  `SharedHealthIsKept`).  They claim no slot, so a request that is alone falls back
  as it should (`FirstFallsBackAlone`, the setting of `generation_probe`, for a
  schedule that names every target and is no longer than the cursor's values).
  `ProbeInv` says where the goroutine may stand against the retired mark,
  `CycleInv` how its clock runs, and `SilenceInv` that nothing has been written
  since the mark while a result is still to be applied; `RetirementIsSilent` and
  `CyclesKeepApart` follow.
* `DirectBodyProofs`.  `IInv` says who may stand where (`HandleInv`: until the
  callback is registered, only the timer can have finalized the body, so a timer
  whose handle is not stored has fired), that at most one goroutine has something
  to undo and the wrapped body is among it and open (`DutyInv`), and that an error
  on its way to the copy loop or to the `ErrorHandler` is the body's cause
  (`ErrorInv`).  `ClosesOnce`, `TimerEnds` and `Implements` follow, for responses
  of any length.
* `RouterBuildProofs`, about `Spec` of `Serving`, whose requests leave the router
  alone (`ServingKeepsRouter`).  `OpenIsKnown` adds to `RefusedLeavesNothing` that
  until the end whatever is open is in the map of backends or in the cache, and
  the cache is empty before the sites: the error path of `newBackends` need not
  close it.  `BuildLeavesNothing` follows.  `OwnInv` makes `TransportIsOwn`
  inductive: the key of a transport tells what it was made of (`KeyTells`), what
  was read of a tls block is of the step at hand and not left over
  (`ReadingIsAtHand`), and what was loaded for a block is never loaded again.
  `TransportsStayOwn` follows, for any texts, contents and number of replacements.
  What a backend is built with is what `buildTargetSchedule` and
  `buildBackoffDelays` make of its options (`BuiltInvariance`), which leaves the
  arithmetic.  `BackoffsFollowCap`: a delay is doubled only while it is below the
  cap, which is at most the longest duration, and once it has reached the cap it
  stays.  `SchedulesAreFair`: before every slot the scores add up to nothing, each is
  its target's weight times the slots so far less what it has paid for the slots
  it got, and the highest pays; so none falls below minus the total, no part of
  the cycle gives a target more than its share rounded up, and after the whole
  cycle each has got its weight.  `RefusedForReason` goes through every refusal of
  the build: an option is either one the decoder has refused already, or one of
  the reasons `LoadedBuilds` names.  For the files it needs `FilesInv`: as long as
  none is replaced, whatever has been read or loaded is what the files began with,
  and a block has as many contents as it has paths.

* `ServingProofs`.  `ServingInv` says that what serves is a decoded configuration
  (`LoadedInv`), that `site` and `route` are what the lookups return for this
  request (`SelectedInv`), and where in its passage the request is (`PassageInv`);
  `SentInv` and `EndInv` tie what went upstream and the record to it.  Its core is
  `WriterInv` of the three writers: after a final block none follows and the flag
  of the server's writer says so (`BlocksInv`); every block has the ID and nothing
  announced or prefixed is named like it (`IDsInv`); the access writer has the
  first terminal status (`StatusInv`); the ID writer has committed, or has seen
  nothing that commits (`CommitInv`).  Every operator of `ResponseWriter` is shown
  to keep it for every header the handler may have made, then every step of
  `Serving`.  `ResponsesHaveOneID` and `RecordsTellResponses` follow;
  upstream, the first speaks of the values of the ID's header and not of their
  number (see findings).
  `NextHopsAgree` compares the last untrusted address of two lists, one of which
  is one longer.  `SitesAreMostSpecific` is by the three kinds of patterns a host
  can match.  `SelectionsAgree` shows that `BetterRoute` orders the routes of a
  site (`RoutesOrdered`; every condition counts finitely much), that considering
  one route after the other keeps the best of those seen (`BestOfIsBest`), that
  the prefixes that are looked up are those a matching wildcard can name
  (`PrefixesFound`), their buckets disjoint, and that an exact route beats every
  wildcard; so both lookups find the one best route, whatever the threshold.
  `PathsReachUpstream` rests on decoding and encoding byte by byte: what they make of
  a path that is cut or put together (`DropDecodes`, `JoinEscapes`), that a written
  path decodes to the path it stands for (`WrittenPath`), and from these what
  `SetURL`, a strip and a rewrite send (`JoinWritten`, `StrippedArrives`,
  `RewriteWritten`); `URLInv` is that nothing has touched the URL before.

A fold is a recursive function on the subsets of a finite set.  That it exists and
that what each step keeps holds of the whole (`RecursionExists`,
`RecursionStays`) is shown by the least number of members for which it might fail
(`LeastMember`, from the library's `WFMin`): the induction theorems themselves take
an operator, which the provers cannot instantiate.

Only model-checked:

* the liveness properties (`ConfigurationConverges`, `RequestsAreDecided`,
  `DeadlineEndsSequence`, `CloseEnds`, `ReadsEnd`, `EndedBodiesClose`), which are out
  of the prover's reach.  Every invariant and action property of the passing runs
  is stated by a theorem, three of them under the conditions named above
  (`NoRetryAfterInformational`, `FinalTimeoutIs504`, `FirstFallsBackLast`).

## Not modelled

* The text of `kubio.json`: the walk over JSON tokens against the schema
  (duplicate and unknown keys are `json = FALSE`), header names and values,
  environment references in values, the request-target of a probe, host and path
  patterns.  These are rules about single strings without state; `valid` says
  that such a string is well written.  The code refuses some of them when it
  decodes (`respond.headers`, `match.ip`) and most when it builds; the model has
  only the latter.
* PEM parsing and TLS handshakes.  A file holds a number or `Bad`; a certificate
  and a key with one number are a pair.
* `rateLimiter.reserve` and the limiter of `router.ServeHTTP`, which only tests
  reach.
* Sockets, the framing of HTTP, the JSON line of a record with its times.
* Header names other than the ID's and one other, and the values of the
  configured request headers.

`PathReachesUpstream` speaks of the wire form of a path, and two corners of it are
as the code has them.  A route that strips a prefix which is followed by an
escaped slash leaves a rest that does not begin with a plain one, so `SetURL` puts
one in front: `/api%2Fb` goes upstream as `/%2Fb`.  A rewrite to `/*` replaces the
URL after `SetURL` and puts none in front.

## Plan

1. Done: `TokenBucket`, `Runtime`, `Admission` and their proofs; `Backend`,
   `HealthPromise`, `Generation`; `DirectBody`, `BodyPromise` and their proofs;
   `Schedules` to `Serving`; the proofs about the build of a router.
2. Done: the theorems about `Backend`, `Generation`, the watcher of `Runtime`, and
   the request in `Serving`.
3. Done: the theorems about `Schedules`, about the two judgements of a
   configuration, and about the fallback of a first attempt.
