# rextension-health in TLA+

TLA+ models of the Rex health extension: dependency state store, circuit
breaker, HTTP client wrapper, check registry and ticker, check cache, snapshot
cache, dependency gate, and the extension that puts them together under the
framework's calls, up to what `/ready` and `/status` answer. TLC checks the models on small instances; TLAPS
proves, for every value of the constants, the properties listed under
[What is proved](#what-is-proved). `PROJECT.json` says which source lines each
definition stands for, which runs exist, and which change to a definition breaks
which property.

## The system

| Component | Source | State it keeps | Operations | Who calls it |
|---|---|---|---|---|
| Dependency state store | `dep_state_store_default.go`, `dep_state.go` | an entry per dependency: status, failure count, circuit state | `Register`, `ReportSuccess`, `ReportFailure`, `SetStatus`, `SetCircuitState`, `Remove`, `Get`, `GetAll` | breaker, wrapper, reporter, ticker, check cache, initial pass |
| Circuit breaker | `circuit_breaker.go` | state, three counters, time of the last failure | `State`, `Allow`, `Success`, `Failure`, `Reset` | wrapper, reporter, application |
| HTTP client wrapper, reporter | `client_wrapper.go` | attempts left of each call | `Do`, `ReportSuccess`, `ReportFailure` | application goroutines |
| Check registry and ticker | `registry_default.go` | checks by name, resolver, `running`, `stopChan`, ticker goroutines | `Register`, `Unregister`, `SetResolver`, `Start`, `Stop`, `Execute*` | extension, application, snapshot cache |
| Check execution | `health_check.go` | one goroutine and one channel per execution | `Execute` | registry, check cache |
| Check cache | `check_cache.go` | a result and its expiry per passive check | `GetOrExecute`, `Invalidate`, `Clear` | gate |
| Snapshot cache | `snapshot_cache.go` | two snapshots, two refresh times, the TTL | `Get`, `GetReadiness`, `Invalidate`, `SetTTL` | `/ready`, `/status`, gate |
| Dependency gate | `middleware_default.go`, `middleware.go` | per request: the states it saw and the degraded ones | the gate's loop over the requirements | every request of a route with dependencies |
| Route requirements | `route_dep_map.go`, `health_dep_route.go` | requirement lists | constructors | application, gate |
| Endpoints | `route_ready.go`, `route_status.go`, `route_live.go` | none | handlers | HTTP, the readiness probe |
| Lifecycle | `extension.go` | the components above | `OnInitialize`, `OnStart`, `OnStop` | framework |

What flows between them:

- Three independent writers share a store entry: reports (wrapper, reporter,
  ticker, check cache), `SetStatus` after them (ticker, check cache), and the
  breaker's `syncState`. None knows of the others.
- A wrapper asks the breaker, sends, reports to the store, then to the breaker.
- `/ready`, `/status` and the gate share the snapshot cache, and whichever of
  their requests misses runs the checks for all.
- `OnStart` runs every check once and stores the results before anything is
  served; from then on the ticker runs the active checks, and a passive one runs
  for a gated request (reported) or for a snapshot (not reported).
- A snapshot counts both what the checks answer it and every entry of the store.
- For passive and on-demand checks the gate bypasses the snapshot and goes
  through the check cache.

What is hard about it: answers of a breaker's probes that arrive in a later
state of the circuit; an entry with several writers and no common lock; a ticker
goroutine that outlives its `Stop`; a cache that is built by one request and
read by all; results that are obtained, cached and reported in steps; decisions
on cached data while the world goes on; and a status order in which UNKNOWN
comes after DOWN. `PROJECT.json` lists each such place under `hazards`, with the
properties that watch it.

## Modules

```
HealthTypes ── DepStateStore ── DepReports ────── StoreProofs
     │               ├───────── CheckCache ────── StoreProofs
     │               ├───────── ClientWrapper
     │               └───────── HealthExtension ─ HealthExtensionProofs
     │                             └ instance of Registry (and of RegistryProofs)
     ├── Breaker ── BreakerProofs
     │      ├────── ClientWrapper ─────────────── ClientWrapperProofs (and BreakerProofs)
     │      └────── CircuitBreaker ────────────── CircuitBreakerProofs (and BreakerProofs)
     │                 └ implements AbstractBreaker
     ├── SnapshotCache ────────────────────────── SnapshotCacheProofs
     │      └ implements AbstractSnapshots
     └── DependencyGate ───────────────────────── DependencyGateProofs
Registry ──────────────────────────────────────── RegistryProofs
```

`StoreProofs` reads `DepReports` and `CheckCache` together, which is why the
definitions of the first that both would have carry its name (`ReportsInit`).
`MC*` modules only give constants their values.

| Module | Models | State and actions |
|---|---|---|
| `HealthTypes` | the two enumerations | the ordinals themselves, since the code compares them |
| `DepStateStore` | the operations on one entry | functions from entry to entry: each method holds the store's lock from start to end |
| `DepReports` | the store under reports only | one action per report, registration and removal of an id; history: the failures in a row |
| `Breaker` | the methods of the breaker | functions from the fields to new fields and the status `syncState` writes, since each method runs under `cb.mu` |
| `CircuitBreaker` | breaker, its entry and its callers | `CallAllow`, `CallSucceeds`, `CallFails`, the unsolicited reports, `ResetBreaker`, `PollState`, `Tick`, and the two store calls of `syncState` (`SyncStatus`, `SyncCircuitState`), a step each: readers of the store do not take `cb.mu`, so `due`, what is still to be written, holds off the next method and no reader; `call` says how each call in flight was admitted, which the breaker does not remember |
| `AbstractBreaker` | what the interface `CircuitBreaker` promises | circuit, time left, store entry and calls, without counters: who may be let through, what may open, half-open and close the circuit, and that the store is told of each change, status first, before the next |
| `ClientWrapper` | wrapped clients and reporters over breaker and store | `pc` walks a goroutine through `Do`; `holder` is who holds `cb.mu` across the two store writes of `syncState`, while others use the store; the transport may panic in any attempt |
| `Registry` | registry and ticker goroutines | `pc[g]` walks goroutine `g` through `runTicker`; `stopChan` is read anew each round, and in any interleaving with `Start` and `Stop`, because the code reads it without the lock |
| `CheckCache` | `GetOrExecute` for one check, and `Execute` | `pc[c]`: execute, answered, put, report, set, one step each because no lock spans two of them; the check's function answers, panics, returns nil or hangs, and its goroutine may outlive the call (`abandoned`) |
| `SnapshotCache` | both snapshots behind the RWMutex | `pc[c]`: lookup, miss, build; `writer` holds the lock while each check runs in a step of its own, under its own timeout and the context of the caller that builds |
| `AbstractSnapshots` | what the interface `SnapshotCache` promises | each of `Get`, `GetReadiness`, `Invalidate` and `SetTTL` is one step between its call and its return |
| `HealthExtension` | lifecycle, ticker, store, snapshots, endpoints | `phase` follows `OnInitialize`, `OnStart` and `OnStop`; the ticker is an instance of `Registry`, its reports are the two store calls, one step each; `snaps` is what is left of the two snapshots, `Ready` and `StatusPage` what the endpoints answer |
| `DependencyGate` | the gate's loop | `pos[r]` walks request `r` through the route's requirements; world, clocks and other users of the caches move in between, and clients go away: `CutCheck` and `OtherCut` leave the DOWN of a check that was cut short in the check cache and the store |

Time is a `Tick` that ages what the code compares with a duration, each clock
saturating at the largest duration it is compared with; counters saturate at
the threshold they are compared with. A result, a message or a payload is only
the status the code reads of it.

Definitions named as a *Variant* are plausible bugs in the definition that
follows them; substituting one for it breaks the property `PROJECT.json` names
beside it, so no property holds whatever the code does. No specification uses
them.

## Runs

One run per component checks its safety and liveness together; four more end in
a violation. Passing:

| Run | Bounds | Shows |
|---|---|---|
| `breaker` | 3 callers, thresholds 3 and 2, quota 2, timeout 2 | `FreshCounters`, `SlotAccounting`: each half-open slot is a live probe or a counted success; `ProbesWithinQuota`; `NoWedge`: a half-open circuit without probes admits; `OpenIsPatient`: no leaving OPEN before the timeout except by `Reset`; `Recovers`: after the last failure the circuit closes for good; `KeepsPromise`: it implements `AbstractBreaker`, with its two store calls in two steps |
| `dep_reports` | 3 ids, thresholds 3 (DOWN) and 0 (DEGRADED), 5 failures | `StatusFollowsFailures` |
| `client` | 2 clients, 1 reporter, 1 retry, thresholds 3 (breaker) and 2 (store) | `WritesInOrder`, `DownHasCause`: the breaker's writes keep their order, and a DOWN or OPEN entry has one of two causes; `OnlyPanicsWedge`: `NoWedge` again, with the way `Do` reports, and with its one exception; `DoReturns`, `BothRecover`, `OutageShows` |
| `registry` | 3 checks, two of one name, one passive; 2 starts | `TickerAlive`, `ChannelsRetired`, `ResolverEverywhere`; `Quiesces`, `KeepsChecking` |
| `checks` | 2 callers; a check that answers UP or DEGRADED, times out, panics, returns nil or hangs; TTL 0 and 1; store threshold 2 | `CacheAndStoreAgree`, `CountsMatchStatus` after calls that did not overlap; `Converges`; `CallsEnd`: neither a call nor a goroutine of a check that returns is left behind |
| `snapshot` | 2 callers, both kinds, no readiness checks, a constructor's TTL of 0 that becomes the default of 2, TTLs 0 and 2, 1 invalidation, a check that is UP or hangs until its timeout, callers that go away | `ActsAtOnce`: it implements `AbstractSnapshots`, so that callers that miss together build once, nothing older than the TTL is served, and every call is answered; `InvalidateHolds`; `SnapshotsCatchUp`: once checks and callers have settled, every call is answered with what the checks answer, so neither a hung check's DOWN nor a cancelled caller's lasts |
| `gate` | a request beside other users of the caches, 3 routes, one with two requirements of the same dependency, a polled and a passive dependency that are UP, DOWN or UNKNOWN, TTLs 0 and 1, UNKNOWN counted as DEGRADED, clients that go away | `NoServeInOutage`, `NoRefusalInHealth`, `HandlerIsTold` |
| `extension` | a passive check declared in the configuration that is DEGRADED, an active one registered late that is UP, DEGRADED or DOWN; both may be unregistered and their entries removed; TTL 1, both thresholds 1 | `DeclaredAreKnown`: no request meets a declared check without a state; `StoreLeftAlone`: after `OnStop` or `Unregister` the ticker writes no more in the end; `AnswersShow`, `RecoveryShows`: outages and recoveries of polled checks reach the entries, `/ready` and `/status` |

Why these bounds are enough to be of interest: three breaker callers are a
late probe, a live one and one that asks; a threshold of 3 separates closed from
elevated from open; two clients and a reporter let one hold `cb.mu` between its
two store writes while two others report; two snapshot callers are the one that
builds and the one that waits; TTLs of 0 and 1 are "never fresh" and "fresh, then
expired"; two dependencies, one polled and one passive, are both ways the gate
gets a state; a TTL of 2 is long enough for SetTTL to make a
snapshot stale and fresh again; counting UNKNOWN as DEGRADED accepts it under one minimum and
refuses it under the other, which neither its ordinal nor ignoring the policy
does. What a request of the gate shares with others is the two caches only, so
the others appear as what they may do to them at any moment, however many they
are. In `extension` the check that is polled and the one that is not differ in
everything the code asks of a check: mode, readiness, declared or registered
later. Proofs cover other sizes where there are some.

Runs that end in a violation, each a disagreement between what the repository
says and what its code does (`findings` in `PROJECT.json` quotes both):

| Run | The code |
|---|---|
| `breaker_default_wedge` | with the default configuration, one success in half-open uses up the only slot and the circuit then refuses for ever (`WedgeIsPermanent`) |
| `registry_stop` | a goroutine stopped during a pass lives on after a `Start` |
| `snapshot_cancel` | one cancelled request makes everybody's checks DOWN for a TTL |
| `ready_stuck` | a passive dependency that was DOWN at boot keeps `/ready` at 503 after it has recovered: only a gated request would refresh its entry, and readiness keeps those away (`PassiveStaysDown`) |

Other divergences between text and code. The modules follow the code, and no run
states them as properties:

- `circuit_breaker.go:19` "maximum concurrent calls": a probe of an earlier
  half-open period runs beside the quota of the next (`CircuitBreaker` tells them
  apart as "late").
- `circuit_breaker.go:126` clears the failure count of a closed circuit and
  leaves its entry DEGRADED.
- `client_wrapper.go:117` and `dep_state_store_default.go:94`: a client's report
  to the store sets the entry's circuit to CLOSED while the breaker is half-open
  and, with the default thresholds, stays half-open; `circuit_breaker.go:68` has
  the breaker "sync" with the store. `DownHasCause`, `BothRecover` and
  `OutageShows` say what can still be relied on.
- `registry_default.go:236`, `check_cache.go:97`: DEGRADED is reported as a
  failure, so a check that keeps answering it makes its entry DOWN between the
  two store calls of each report and its circuit OPEN for good, where
  `dep_state.go:21` says "operational but with issues". A snapshot built at that
  moment answers 503 for a TTL.
- `snapshot_cache.go:143`: a readiness snapshot counts every entry of the store,
  so `WithReadiness(false)` takes a check out of the list of checks but, once it
  has an entry, not out of the status; so does an entry that an `Unregister`
  leaves behind until `Remove`.
- `check_cache.go:79` runs a passive check under the context of the request that
  needs it, so the client that goes away meanwhile leaves the DOWN of a healthy
  dependency ("check timed out", `health_check.go:192`) in the check cache and in
  the store. For a `CacheTTL` the gate refuses the requests of everybody else,
  where `README.md:194` has "All UP: Request proceeds normally", and for as long
  as no request checks again the entry stays DOWN. It is `snapshot_cancel` once
  more, in the other cache; the gate's properties say how far it reaches.
- `registry_default.go:247` has `SetResolver` "Must be called before registering
  checks, or existing checks won't have the resolver". Lines 252-257 give it to the
  existing ones, and `ResolverEverywhere` holds in either order.
- `README.md:113` has UNKNOWN as "Not Ready", and `/ready` answers 200.
- `middleware_default.go:285` of `DepContextMiddleware` lists only DEGRADED
  dependencies as degraded, the gate lists those below the minimum.
- `client_wrapper.go:91`: with `WithRetries(-1)` nothing is sent and a success is
  reported; `client_wrapper.go:137`: `Post` drops the body it is given.
- `client_wrapper.go:92`: retries go on against a circuit that has opened, where
  `dep_state.go:172` says it "blocks all requests".
- `dep_state_store_default.go:26`: `WindowDuration` is stored and never read.
- `check_cache.go:84`: overlapping executions can leave one result in the cache
  and another in the store until the TTL is over, which is why
  `CacheAndStoreAgree` speaks of calls that did not overlap.
- `route_ready.go:27` answers 503 for DOWN only, and UNKNOWN outranks DOWN in the
  overall status: one UNKNOWN check hides one that is DOWN.
- `README.md:196` "Some DEGRADED: Request proceeds; degraded deps available in
  context": a hard requirement with its default minimum refuses a DEGRADED
  dependency, and a soft one does not list it.

The modules have no deadlock: some step of the world is always possible, and
deadlock is checked in every run.

### How the gate's properties are stated

A gate with caches cannot be right about the present. `settled[r]` holds the
dependencies that, when request `r` arrived, had been what they are for longer
than the gate's caches remember, and have not changed since. For those the
decision must be right: below the minimum and hard, `r` is not served; all good,
it is not refused; a served handler sees their status, and finds one listed as
degraded exactly if it is below a soft requirement. For the others either answer
is legitimate.

A dependency is what its entry says if it is polled, and what its check would
answer if it were left to, within its timeout, if it is passive. The check of a
passive one runs under the context of the request that needs it, though, and
Execute says DOWN when that client goes away. This is no change of the
dependency, and it takes nothing out of `settled`: the properties bound it. `cut`
is the time since the check of a dependency was last cut short with its result
cached, `spoilt[r]` the dependencies where that was less than a `CacheTTL` before
`r` arrived, or since. A dependency is *doubtful* for `r` if it is passive and
either `r`'s own client has gone or it is in `spoilt[r]`. Of a doubtful one that is
good the gate may say DOWN, refuse or list it as degraded, and nothing else; it
may never serve beside one that is bad. A request for which it is not doubtful
sees none of it, and that is any request that arrives once the `CacheTTL` is
over.

A route may name a dependency twice, which `DepRequirement` lists allow, so what a
handler is told is said of the dependency and not of each requirement: one that is
below the first minimum and not below the second is listed. `Acceptable`, which
says what is good enough, is written from the requirement alone and not from the
gate's comparison.

### How the two refinements are stated

`CircuitBreaker` and `SnapshotCache` each instantiate an abstract module with
their own state mapped to its variables, and the run checks the abstract
`FairSpec`, safety and liveness, as a property.

`AbstractBreaker` sees the circuit, the time left of the timeout, the entry and
the calls; thresholds and counters are gone. A step of the breaker maps to the
step of the same name, or to a stutter; the two store calls of `syncState` map to
`TellStatus` and `TellCircuit`. Every other change of the circuit requires `Told`,
that the store shows what the circuit is: this is what `cb.mu` is for, and what
goes wrong if the store is told after the unlock (`NeverLocked`). A reader of the
store, which does not take `cb.mu`, sees the last state of the circuit, or the new
status beside it (DOWN with CLOSED), and nothing older. Its fairness says that the store is told
again and again, and that a caller is not refused for ever while there is room for
its call, which is where a quota that is never given back would show.

`AbstractSnapshots` sees the epoch in which each held snapshot was built and what
each caller waits for. `Lookup` or `DoubleCheck` that returns is `Hit`,
`FinishBuild` is `Build`; the other steps of a call are stutters. A build that
another caller had already done, one that survives an `Invalidate`, and a hit on
something stale have no step to map to.

### Fairness

- Goroutines run: weak fairness of each goroutine's own steps.
- `sync.Mutex` and `sync.RWMutex` do not starve a waiter: strong fairness of
  the steps that need one (`TellBreaker`, `Do`, the callers of the breaker, the
  steps of a snapshot call). Whoever holds `cb.mu` goes on (weak fairness of the
  two store calls in `breaker`).
- Requests, checks and calls return, because each has a timeout; time passes
  (weak fairness of `Tick`).
  In `checks` a function that does not hang returns, and a caller's wait ends by
  its deadline; a goroutine that was given up on returns when its function does.
- In `extension`, `OnStart` and the ticker's goroutine run, the interval elapses
  and `select` takes a ready branch again and again. Gated requests keep coming
  while `/ready` answers 200, which is what the readiness probe of
  `README.md:408` makes of it.
- Clients keep calling in `breaker` and `client`, requests for the check in
  `checks`: recovery in this code is driven by traffic, there is no
  timer that closes a circuit or refreshes a passive check.

Nothing is assumed of what a dependency answers; properties that need it
("failures stop") say so in their premise. `BothRecover` and `OutageShows` also
say that no panic has cost a half-open period its slot, and `AnswersShow` that
no UNKNOWN hides a DOWN.

## What is proved

All proofs are in `*Proofs` modules, for every value of the constants that the
named assumptions allow. Each is an inductive invariant (`IInv`), a lemma per
action that it is kept, and the properties that follow from it; TLC has checked
each `IInv` on the component's run.

- **Breaker** (`CircuitBreakerProofs`), any finite set of callers, any
  thresholds (a failure threshold of 0 acts as 1): `TypeCorrect`; `Accounting` (`SlotAccounting`); `QuotaHolds`
  (`ProbesWithinQuota`); `NeverWedged` (`NoWedge`), the last under
  `QuotaCoversThreshold`, that `HalfOpenMaxCalls` is at least
  `SuccessThreshold`. This is exactly what the default configuration lacks.
  `CountersRestart` (`FreshCounters`) and `Patience` (`OpenIsPatient`).
  `WedgeIsPermanent`: where the quota does not cover the threshold, a half-open
  circuit that has given out its slots to calls that are over refuses everybody,
  and stays as it is until somebody calls `Reset` or reports without asking;
  `breaker_default_wedge` reaches such a state.
  The inductive invariant is the accounting: in half-open, slots taken =
  probes in flight + successes counted, and successes are below their
  threshold. The quota is then a bound on slots, and a circuit without probes
  has fewer slots taken than the quota. Without the accounting, `NoWedge` says
  nothing of where a slot went and is not inductive. `Patience` needs only the
  types from it: the lemma `OpenEnds` goes through the steps that an open
  circuit can take.
- **Breaker implements its interface** (`ImplementsInterface`, the safety half of
  `KeepsPromise`). `AllowMaps`, `SuccessMaps` and `FailureMaps` take the methods
  to the abstract steps, `StepSimulation` the rest. The simulation needs one
  fact of its own, `EntryFollows`: the entry with what `syncState` still has to write
  fits the circuit, so once nothing is due the entry does, and the next
  method starts from a store that has been told. A method that changes no state
  leaves it told. What the methods do to the fields is in `BreakerProofs` (`AllowEffect`,
  `SuccessEffect`, `FailureEffect`, `ResetEffect`, `CheckStateEffect`), which the
  wrapper's proofs use too.
- **Wrapper, reporter, breaker and store** (`ClientWrapperProofs`), any finite
  set of clients, any reporters, retries and thresholds: `TypeCorrect`;
  `StoreWritesInOrder` (`WritesInOrder`); `DownIsExplained` (`DownHasCause`);
  and, under `QuotaCoversThreshold`, `WedgeTakesPanic` (`OnlyPanicsWedge`).
  `LockInv` says who holds `cb.mu` and that what it has left to write is the
  breaker's state; `CauseInv` says what the two store calls of `syncState` leave
  true between them, which `DownHasCause` excepts; `SlotInv` is the accounting
  of slots once more, now against the calls that will still report
  (`WillCall`) and the slots lost to panics. `DoIsBounded` and `LockIsReturned`
  are the safety under `DoReturns`: a `Do` or a report is never more than
  `MaxRetries` + 7 changes of its `pc` and `left` from its return (`Ahead`), every
  step of the system brings it nearer or leaves it where it is, and `cb.mu` is
  held between steps only by a goroutine in `syncState`, whose steps wait for
  nothing.
- **Registry** (`RegistryProofs`), any names, checks and number of starts:
  `TypeCorrect`; `AlwaysTicking` (`TickerAlive`); `OldChannelsClosed`
  (`ChannelsRetired`); `ResolverReaches` (`ResolverEverywhere`). The invariant
  says which channels are closed and which goroutine belongs to the open one:
  the code's goroutines share one field, and only the order of `close` and
  assignment keeps them apart.
- **Store** (`StoreProofs`), any ids, any integers as thresholds, 0 and either order
  included: `VerdictHolds`
  (`StatusFollowsFailures`). The entry after n failures is written down as
  `EntryAfter(n)`; the lemma `OneMoreFailure` ties the entry's own count to the
  failures there were, which the property alone does not.
- **Check cache** (`StoreProofs`), any callers, TTL and thresholds:
  `TypeCorrect`; `CacheAgreesWithStore` (`CacheAndStoreAgree`);
  `CountsAreOfTheStatus` (`CountsMatchStatus`). The properties speak of the
  moment when all calls have returned, so the invariant follows the one call
  that overlaps no other: nothing valid is cached until it caches its result
  (`CachedInv`), and what it has reported is about the status it will set
  (`ReportInv`).
- **Snapshot cache** (`SnapshotCacheProofs`), any callers, checks and TTLs:
  `TypeCorrect`; `InvalidationHolds` (`InvalidateHolds`), an action property. `LockInv` and `EpochInv` say what the
  write lock protects: from the second look to the end of the build the
  snapshot stays stale and no `Invalidate` happens.
- **Snapshot cache implements its interface** (`ImplementsInterface`, the safety
  half of `ActsAtOnce`): `LookMaps` and `FinishBuildMaps` take the steps that
  answer a call to `Hit` and `Build`, `MidCallMaps` the others to stutters.
- **Gate** (`DependencyGateProofs`), any dependencies, routes, requests, statuses
  and TTLs: `TypeCorrect`; `OutageRefuses` (`NoServeInOutage`); `HealthServes`
  (`NoRefusalInHealth`); `TruthIsTold` (`HandlerIsTold`). The invariant carries
  the truth through the caches: the age of a dependency and the time left of a
  cache add up to more than its TTL only if the cache was filled after the last
  change (`SnapInv`, `CacheInv`), and what a request took from them stays true of
  what it is settled on (`Taken`, `Told`, `Noted`). A cached DOWN that is not the
  truth is the one exception: then the time since the check was cut short and the
  time left of it add up to no more than the `CacheTTL`, so a request that can
  meet it has the dependency in `spoilt` (`SpoiltInv`, `Aware`). The lemma `Decided` is the
  body of the loop, `BelowMeansNotAcceptable` that its comparison is the
  requirement's. With arbitrary routes `HandlerIsTold` had to be said of a
  dependency instead of a requirement (see above).
- **Extension** (`HealthExtensionProofs`), any declared and late checks, modes,
  answers, TTL and thresholds: `TypeCorrect`; `DeclaredKnown`
  (`DeclaredAreKnown`). That property says nothing of the time before the first
  request, where it is made true, so the invariant follows a declared check
  through the phases: by the time the initial pass has run it has a result on its
  way or an entry (`KnownInv`), nothing else writes or begins a pass until then
  (`BootInv`), and a result half reported belongs to a pass (`HalfInv`).
- **The extension uses its registry as a registry** (`IsRegistry`): every step of
  the extension is a step of `Registry` or leaves it alone, so what
  `RegistryProofs` proves holds of the extension's ticker; `TickerStaysAlive`
  is `TickerAlive` transferred that way, and the invariant above uses the types.
  `StopReachesTicker`: after `OnStop`, a ticker that waits in `select` waits on a
  channel that is closed. With a single `Start` the stale read of `registry_stop`
  cannot strand it.
- **What ends and what does not.** `EntryIsLeftAlone` is the safety under
  `StoreLeftAlone`: once a check is unregistered and the pass that had it is over,
  or the ticker is gone, its entry changes only by `Remove` and by gated requests.
  `PassiveStaysDown`: while no check answers UNKNOWN, a passive dependency whose
  entry is DOWN, with no better readiness snapshot left, keeps `/ready` at 503
  whatever it and the others answer, until its entry is removed. The proof is the
  circle itself: the readiness snapshot counts the entry, 503 keeps gated
  requests away, and nothing else runs the check and reports it (`NeverPolled`).
  `ready_stuck` reaches such a state.

Assumptions on constants are named in the module that declares them; TLC
evaluates each on every run. Beyond types they say that the clients of the
wrapper and the callers of the breaker are finitely many, which any execution
has; that the set of TTLs `SetTTL` is called with has a largest, which bounds
the clock; and that the values that stand for nobody, no check or nothing are
none of the others. Two theorems have a hypothesis of their own, named in their
statement: `QuotaCoversThreshold` (`NeverWedged`, `WedgeTakesPanic`), and
`NoneUnknown` (`PassiveStaysDown`), which checks that answer UP, DEGRADED or DOWN
satisfy; an UNKNOWN one would hide the DOWN entry.

Only model-checked is liveness: `Recovers`, `DoReturns`, `BothRecover`,
`OutageShows`, `Quiesces`, `KeepsChecking`, `SnapshotsCatchUp`, `Converges`, `CallsEnd`,
`StoreLeftAlone`, `AnswersShow`, `RecoveryShows`, and the fairness of the
abstract specifications in `KeepsPromise` and `ActsAtOnce`. TLAPS does not reason
about fairness; for `DoReturns` and `StoreLeftAlone` it proves what fairness is
applied to.

## Not modelled

- Latencies, averages, timestamps, messages, metadata and logging: no decision
  reads them. JSON and the problem document: formatting.
- The contents of requests and responses in the wrapper, and a negative retry
  count.
- `DependencyCheck`, which reads an entry as its answer. Registered under the id
  of that same entry it would report the entry to itself.
- A check function that returns nil while the ticker or a snapshot runs it (the
  program ends), and one that uses the snapshot cache itself (it waits for
  itself).
- `DepContextMiddleware` and `RouteResolverMiddleware`, which the extension does
  not attach, and the options of the configuration: constructors.
- `RouteDepMap`: a locked map that nothing fills (`extension.go:131` says it is
  "still populated below", and it is not) and nothing reads.
- The framework: routers, middleware order, and what it does when a hook
  returns an error.
- In `HealthExtension`, an entry is removed only when its check is not
  registered, each check is registered once, the registry is started once, and
  the check cache is left out: every gated request runs the passive check.
- In `DependencyGate`, as in `HealthExtension`, a build of the snapshot and an
  execution of a check are one step; their interleavings are in `SnapshotCache` and `CheckCache`, where
  each is checked to return what a single step may return but for the
  violations above. The gate's configuration is the one the extension builds
  (registry, check cache and snapshot cache present).
- Go's memory model below the level of the unlocked reads named above.

## Plan

The order is by how much of the system depends on the part: the breaker and the
store first, then what reports to them, then what decides on them, then what
holds them together. That is done, with the abstract specifications of the
breaker and of the snapshot cache.
Every safety property the passing runs check is proved, and so are the three
implementations (breaker, snapshot cache, the extension's ticker) up to fairness.

Left to model: `DependencyCheck` composed with the ticker, and a gate that runs
over `AbstractSnapshots` instead of its own one-step snapshot.
