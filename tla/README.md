# A verification project for coding-plan-usage-backend

TLA+ models of the Go backend (`src/internal`, `src/cmd`) and of the dashboard's
realtime client (`src/frontend/src/api`), the TLC runs that check them on small
instances, and TLAPS proofs for every value of the constants. Paths below are
relative to `src/`.

## 1. The system

The backend polls quota providers (Kimi, MiniMax, Z.ai, Zhipu, a CPA pool), keeps
the last snapshot of each in memory, and publishes all of them to dashboards.

    poller per provider --Update--> store --OnUpdate--> publishCurrentUsage --> SSE broker --> StreamHandler --> EventSource
          ^                                                  ^           \--> WS hub ----> writePump -----> WebSocket
          |                                                  |                                                  |
       Refresh <------- readPump {"type":"refresh"}     broadcaster (1 s tick)                    RealtimeDataFetcher

| Component | State | Operations | What is hard | What makes it correct |
|---|---|---|---|---|
| Sync manager (`runtime/syncmanager`) | per provider: goroutine, backoff, `refreshCh` (capacity 1); `stopCh`, WaitGroup | Start, Stop, Refresh, poll | Stop against Start and WaitGroup reuse; coalescing; int64 doubling; random select | no refresh lost, the backoff schedule, Stop waits for every poller |
| Store (`infrastructure/store`) | snapshot and version per platform | Update, Get, Platforms | callback outside the lock | readers never see a snapshot older than when they began |
| Usage handler, publication, broadcaster (`transport/http/api`, `app`, `runtime/broadcaster`) | a batch under construction per publisher | Responses, publishCurrentUsage, tick | several publishers interleave, batches reordered or dropped | batches are fresh, dashboards end up with the last data |
| SSE broker, stream handler (`transport/sse`) | set of subscriber channels, `done` | Run, Subscribe, Unsubscribe, Publish, Stop, StreamHandler | channels closed in three places; non-blocking sends; stop while handlers subscribe | no panic, no gap, every stream ends |
| WebSocket hub (`transport/ws`) | set of clients, two pumps per client | Run, Broadcast, Stop, WSHandler, readPump, writePump | as above, with batching in writePump and two goroutines that close one connection | no panic, no gap, both pumps end |
| Composition, shutdown (`app`, `cmd/api`) | list of components, two servers with their clients, context | Build, Run, Stop, Shutdown | order, shares of a timeout, partial failure, slow clients, a signal at any moment | every component is asked, nil means nothing is left, only the slow time out, the process ends |
| Status rules (`domain`) | none (pure) | DeriveStatus, Freshness, NormalizeToPercent, omitStaleQuotas | time, rounding, int64 overflow | no expired tier is served |
| Provider adapters (`infrastructure/providers`) | none; CPA: a Fetch of many requests | Fetch | windows to tiers, forms of answers, partial failure, cancellation in the middle | what is shown is what the provider stated |
| Metrics (`infrastructure/metrics`) | gauges | UpdateFromSnapshot | set outside the lock, never deleted | gauges agree with what is served |
| Config (`config`) | none | Load, Validate, environment overrides | what is validated, what is skipped | the process starts exactly as configured |
| HTTP client | none | Get with a 30 s timeout | - | - |
| RealtimeDataFetcher (`frontend/src/api`) | round, winner, three timers, two connections, the current fetch, the view | start, stop, refresh and ten callbacks | callbacks of old rounds, overlapping fetches, transports racing | one source of updates, never silent, nothing left after stop, catches up |
| React components | none | rendering | - | - |

## 2. Modules

| Module | Models | Runs |
|---|---|---|
| `SyncManager` | `syncmanager.go`, cancellation by `cmd/api/main.go` | `sync`, `sync_stop_race` |
| `SyncManagerProofs` | theorems about it, `Workers` included | TLAPS |
| `Workers` | abstract: what polling goroutines promise whoever stops them | refined by `SyncManager` and `Lifecycle` |
| `Feed` | abstract: what a fan-out promises its readers | refined by `SSEBroker` and `WSHub` |
| `SSEBroker` | `sse/broker.go`, `sse/handler.go` | `sse`, `stream_stop` |
| `SSEBrokerProofs` | theorems about it, `Feed` included | TLAPS |
| `WSHub` | `ws/hub.go`, `ws/handler.go` | `ws`, `stream_stop` |
| `WSHubProofs` | theorems about it, `Feed` included | TLAPS |
| `UsageFeed` | `Store.Update`, `Responses`, `publishCurrentUsage`, broadcaster, gauges | `usage` |
| `UsageFeedProofs` | theorems about it | TLAPS |
| `RealtimeFetcher` | `use-realtime-refresh.ts`, `client.ts`; frames as `writePump` makes them | `dashboard`, `dashboard_frames`, `dashboard_retry` |
| `RealtimeFetcherProofs` | theorems about it | TLAPS |
| `Adapters` | the four adapters' mappings, `domain/normalize.go`; operators only | used by `Quotas` |
| `Quotas` | `Fetch` of every adapter, `Store.Update` with `omitStaleQuotas`, gauges, `Freshness`, `DeriveStatus`, the tile of `normalize.ts` | `quotas`, `status_degraded` |
| `QuotasProofs` | theorems about both | TLAPS |
| `Config` | `config.go`, main's choice of adapters, `Build`'s timeout; operators only | used by `Lifecycle` |
| `Lifecycle` | `main.go`, `Composition.Run` and `Stop`, `lifecycle.go`, with the pollers and clients that shutdown waits for | `lifecycle` |
| `LifecycleProofs` | theorems about it, `Workers` included | TLAPS |
| `NatRecursion` | induction over the naturals, and that recursive functions exist: what the proofs about powers and sums need | TLAPS |

The `MC*` modules give the constants their values. `MCStreamStop` also composes
the broker and the hub, which share only the order in which they are stopped. A `Bug:` comment marks an
operator that is not the code: it is the mutated form of the definition after it,
used to see that a property notices.

### How state and steps correspond to the code

* **SyncManager.** `pc[p]` is where `poll` blocks: in Fetch, in the backoff select
  or in the interval select. `token[p]` is the buffered element of `refreshCh`.
  The WaitGroup is its counter plus, per waiter, whether it is parked, released by
  the Done that reached zero, or returned; a released waiter that finds the counter
  nonzero is Go's "WaitGroup is reused" panic, modelled as the end of the process.
  `Twice` is `backoff*2` in two's complement with `DurationMax` for the largest int64.
  `owed`, `fails` and `launched` are histories. Jitter only moves the moment a timer
  fires, and a timer may fire at any moment.
* **SSEBroker, WSHub.** `loop` is where `Run` is: the unbuffered register,
  unregister and broadcast channels are served only in its select, so a send and its
  receive are one action. The broadcast loop over the map is one `Send` per
  subscriber in any order (`todo`), interleaved with the readers; a full channel is
  closed and its entry deleted. `Use` records a send on, or close of, a closed
  channel (`panicked`). A Publish or Broadcast that does not find `Run` in its select
  takes the default case and changes nothing. In WSHub, `writer` and `reader` are the
  two pumps, `drain` the `n := len(c.send)` of the batching loop, `open` the
  connection either pump may close, `peer` whether the other side still answers.
* **UsageFeed.** One goroutine per publisher: `Update` stores and counts the version
  under the lock, then `List` and one `Read` per platform, each under its own lock,
  build the batch; `Offered` hands it to the broker, then the hub, each of which
  accepts it or drops it; a poller then sets the gauges from the snapshot it was given.
* **RealtimeFetcher.** One action per browser callback. A connection is named by its
  round; "closed" means that the callbacks were detached or that the last event was
  seen. The server's state is a version, a fetch's answer the version at the moment
  the server answered. A fetch is superseded exactly when it is no longer
  `fetchController`, because every assignment to that field aborts the previous one.
  The refresh button exists only while the hook is mounted, hence the guard `started`.
* **Adapters, Quotas.** A provider states quotas (`Truth`: used, total, reset for the
  tiers of one of its `Plans`); `Says` gives forms in which its API may express them, with
  windows of no tier, other models, missing or unparsable fields and error codes among
  them. A plan may have no quota at all, and one of MiniMax no week: its weekly fields are
  then 0 (`API_Documentation.md:130`), the remaining percentage being 0 or absent. The
  adapter files that week with a reset at the epoch, and `Store.Update` omits it if
  `max_stale_duration` is positive. Not among the forms: a Kimi plan with one of its two
  quotas only, several general models, and more windows or limits than the few in `Says`.
  `pc` is where `Fetch` is: one request for three adapters; for CPA the listing, then a
  query and a stagger per account, each of which may fail or find the context cancelled.
  Which account is queried makes no difference to Fetch, so `queue` is their number.
  Times are minutes and the clock may jump before any step. Every total is 100 and left
  out; `Wrap` is int64 arithmetic for a `MaxInt` that is a constant. `stored` holds, as
  a history, what the snapshot was made from. `Tile` is what the dashboard shows of it at
  any later moment. `Filed` says under which tier a stated quota is to be found, Kimi's
  guess included.
* **Config, Lifecycle.** A file and an environment are chosen at the start; an
  environment is the values of the variables that are set and parse and the set of
  those that do not. `server[s]` is the goroutine around `ListenAndServe`, `serverErr`
  the channel's length. `queue`, `current`, `due` are `Shutdown`'s loop; a Shutdown
  returns by `Succeed` or, when its context has expired, by `Expire`, and is left to
  chance when both are possible, like the selects of the adapters in `lifecycle.go`.
  The sync manager, broker and hub are reduced to what their Stop waits for. `conn[r]` is
  a client of one of the servers: "open" is a request, of any path, that is not sent to its
  end or whose answer is not taken; a stream is "live" while its handler is in the select,
  "stalled" while it is blocked in Fprintf or Flush because the client does not read, and
  "late" if it subscribed on a stopped broker. A server's Shutdown waits for all of them,
  without a read or write timeout (`app.go:158`); WebSocket connections are hijacked and
  not waited for. `slow` is the history of the clients on which a server's Shutdown spent
  time. That a registered stream ends once the broker is stopped and its client reads, and
  a poller once it is told, is what `StreamEnds` and `StopEnds` of their own modules say.
  The pollers of both
  modules implement `Workers` (`WorkersSpec`): a call of Stop is "answered" when
  `stopper[s]` has returned there, and when the coordinator has seen it succeed here; a
  Stop whose share ran out is called and never answered. Time passes (`Tick`)
  only where nothing prompt is left to happen: no handler that waits in its select with its
  channel closed, no poller that has been told to stop. What the properties allow to time
  out is a provider or a client, never a goroutine that had no chance to run.

## 3. What the runs check

| Run | Bounds | Shows |
|---|---|---|
| `sync` | 2 providers, 1 stopper, Durations -16..15, failures counted to 4 | `RefreshHonoured`, `BackoffSchedule`, `BackoffBounded`, `StopWaits`, refinement of `Workers`; `RefreshServed`, `StopEnds` under fairness |
| `sse` | 2 requests, capacity 1, 3 messages | `NoPanic`, `NoSkip`, refinement of `Feed`; `StreamEnds` |
| `ws` | 1 client, capacity 2, 4 messages | `NoPanic`, `NoSkip`, refinement of `Feed`; `ClientEnds` |
| `usage` | 2 platforms, one updated twice, and the broadcaster | `BatchIsFresh`, `GaugesAgree`, `Settles` |
| `dashboard` | 2 fetches in flight, 2 rounds, 2 versions, 1 frame in transit | `OneSource`, `NeverSilent`, `StopReleases`, `FetchesInOrder`; `CatchesUp` |
| `quotas` | 4 adapters with 1 to 3 plans, 5 quotas a provider may state, 3 moments, 2 snapshots, pools of 2 accounts with 6 usages | `ShownIsReported`, `StaleNeverServed`, `PoolSound`; `FetchEnds` |
| `lifecycle` | 4 files, 2 environments, 2 providers, a client of the API server and one of the metrics server, 30 s shortened to 5 ticks and 1 s to one | `RunsAsConfigured`, `EveryoneAsked`, `NilMeansQuiet`, `OnlySlowTimesOut`, refinement of `Workers`; `Terminates` under fairness |

Why the bounds are enough:
* `sync`: one provider has no `backoff_initial`, so it starts at one second (3 units),
  doubles (6), reaches its `backoff_max` (10) and then overflows (10*2 wraps to -12). The
  other has no `backoff_max`, which is the default. Pollers interact only through the
  WaitGroup, where two suffice for a counter that is neither 0 nor full. Any number of
  providers and stoppers is covered by the proofs.
* `sse`, `ws`: a channel of one message fills while its reader writes; capacity 2
  lets `writePump` find more than one message to join; a message more than the
  capacity forces the drop. In `sse` two readers suffice for one to be cut while the
  other is sent to. `ws` has one client with two pumps, which is where the hub differs
  from the broker; the proofs cover any number of clients.
* `usage`: three publishers, so a batch can be overtaken by one of another poller and
  one of the broadcaster; the second update of a platform makes an overtaken batch
  differ from the newest by an update of a stored snapshot, not only a first one.
* `dashboard`: a round and the one that replaces it, by a loss or by stop and start;
  two fetches are enough for one to be superseded while it is answered. The proofs cover
  any number of rounds, versions and fetches.
* `quotas`: the stated quotas have fractions that round, exceed their total and, times
  100, nearly reach `MaxInt` (9998 of 9999); their resets lie in the last hour, within 5
  hours, within a week, beyond it, and nowhere. The moments are an hour and then
  almost four days apart, so that the first reset expires at the second and another at the last. A
  second snapshot replaces a first one whose tiers it may omit, which is when a gauge
  outlives its tier. The proofs cover counts of any size.
* `lifecycle`: a file without a token, one whose alias is no type, one with an unknown
  type, one unreadable, each with and without an environment that supplies the token, a
  longer `max_stale_duration` and garbage. The client of the API server may linger in any
  of the four ways, the one of the metrics server uses up a share before it; shares are 1
  tick, the minimum, or 2. Clients do not interact; the proofs cover any number of them.

All runs set `CHECK_DEADLOCK FALSE`: the process may end (a panic, all goroutines
returned) and the bounds on messages, rounds and versions end a model.

### Disagreements between the code and what is said of it

Each is the counterexample of a run that checks the statement as it is written, or a
weaker one.
* `sync_stop_race`: "Stop ... waits for them to finish" (`syncmanager.go:79`) does not
  hold of a Stop that overlaps Start; `StopWaits` is what does hold.
* `stream_stop`: "closes all subscriber channels" (`README.md:278`): `Subscribe` on a
  stopped broker hands out a channel nobody closes, and the API server, shut down
  last, still admits such requests. "disconnects all clients" (`:279`): the register send
  of `WSHandler` has no done case. `MCStreamStop` puts the broker and the hub side by
  side, and its property `StopEndsAKind` asks that one of the two promises be kept
  (`ClosesAllChannels` or `StopDisconnectsAll`), so that its counterexample breaks both.
* `dashboard_frames`: `writePump` joins messages with a newline, the dashboard parses
  the frame as one JSON value and drops it, although the server "broadcasts ... to all
  connected clients on each update" (`README.md:224`). The next single message heals it.
* `dashboard_retry`: "client should reconnect on disconnect" (`README.md:217`) and the
  label "POLLING (retrying)" (`App.tsx:19`): when both transports fail before they
  open, no further attempt is made.

* `status_degraded`: "Any supported tier's `reset_at` is older than `max_stale_duration`"
  makes an account "degraded" (`README.md:251`, also `:200`). With `max_stale_duration` > 0
  it never is: the store omits such tiers at the sync, and `Freshness` compares their reset
  with that same sync. A provider that does not answer for days stays "healthy".

Others are part of what a passing run states, or need no run:
* `NormalizeToPercent` "clamps the result to the range [0, 100]" (`normalize.go:6`), but
  `used * 100` wraps for counts above `MaxInt`/100 and only the upper end is clamped, so a
  negative percentage is stored. `TypeOK` and `ShownIsReported` say what holds (`Fits`,
  `AllFit`).
* A Kimi summary has no window, and its tier is guessed from the time to its reset
  (`kimi/adapter.go:197`): a week in its last 5 hours is filed as 5H and then replaced
  by the 5H window of the same answer, and the tile of the week shows an unlimited
  zero; one that resets after more than 8 days is shown as the month. `ShownIsReported`
  says so (`FiledAs`); no text of the repository says what should happen.
* A week that a MiniMax model does not have is unavailable with a positive
  `max_stale_duration`; without one it is shown with a reset in 1970, and as used up if
  the API gives 0 for its remaining percentage.
* A context cancelled during the last query of a CPA pool counts as an account that did
  not answer, and the average of the others is stored. `PoolSound` permits it.
* The dashboard's `CatchesUp` promises recovery only: a fetch sent before a transport won
  may for a while show an older view than a frame did (`use-realtime-refresh.ts:342`).
* `lifecycle.go:273-279` lists the order context, sync manager, broker, hub, API,
  metrics; the code's is sync manager, hub, broker, metrics, API. The hub and the
  broker do not depend on each other, so `OnlySlowTimesOut` holds of both. Nor is the
  context cancelled: nothing sets `Composition.cancelMain`, so after a server error a
  Fetch in flight may outlast the sync manager's share.
* A server that cannot listen is logged (`app.go:331-333`) and, if the shutdown
  succeeds, the process ends with exit code 0.
* Without a `backoff_max`, which is what a configuration that does not mention it has, the
  cap of `syncmanager.go:169` is zero: a failing provider is retried without any backoff,
  whatever `backoff_initial` says. `BackoffBounded` states it so.
* `UCPQA_CORS_ENABLED` set to what is no boolean means false; every other variable that
  does not parse is ignored.
* `Validate` accepts a provider without a type whatever its alias, and main then skips
  it with a warning if the alias is none; `RunsAsConfigured` states it so.

### Fairness, and why the code justifies it

* A goroutine that can step does (weak fairness): Go's scheduler is preemptive.
* Fetch returns because all provider clients have a 30 s timeout; WebSocket writes end
  because of the 10 s deadline, reads of a silent peer within 60 s.
* A select picks among its ready cases at random, and senders that wait on a channel
  are queued in order, so a case that is ready again and again is not passed over for
  ever (strong fairness of the stop, done, register and unregister cases).
* `usage`: `Run` returns to its select after each case, so of the endless ticks some
  are accepted. This is an assumption about an unstopped transport.
* `dashboard`: again and again an answer arrives before the next poll supersedes it
  and a frame of one message is sent. The first is an assumption about the network: a
  server that always needs more than the 5 s interval is never heard, because each poll
  aborts the one before.
* `quotas`: a request ends by the 30 s timeout of its client, the stagger by its timer.
* `lifecycle`: goroutines run, the clock goes on. A poller whose timer and stop channel
  are both ready again and again takes the latter at some time (strong fairness). The
  closed channel of a stream holds finitely many messages, so its handler stalls finitely
  often: if the client reads again and again, the stream ends (strong fairness of
  `StreamEnds`). No client is ever assumed to read, to send or to leave.
* Nothing forces a client to connect or leave, a provider to succeed, or anybody to
  call Stop, Start or Refresh.

## 4. What is proved

For every value of the constants (any number of providers, stoppers, requests, clients,
platforms and rounds, any capacity, timeout and integer range), from the named
assumptions only:

* `SyncManagerProofs`: `TypeCorrect`, `RefreshNeverLost`, `RetryIsPaced`,
  `RetryIsScheduled`, `StopIsComplete`, `ImplementsWorkers`. `TypeOK` is not inductive:
  that the counter stays non-negative needs that it equals the number of running pollers,
  and `StopWaits` needs to know which waiters can be parked or released in which state of
  the counter. The invariant adds both, and one lemma about the cardinality of the running
  set carries the counting; that a Stop answers only when nobody is at work, in the
  refinement of `Workers`, is that same lemma. `RetryIsPaced` rests on lemmas about the
  wrapped doubling, which hold for any `DurationMax`. `RetryIsScheduled` compares it with
  the powers of two in unbounded arithmetic: a doubling that wraps would have exceeded the
  cap, and one that does not is the next power. That `Power` is a function at all comes
  from `NatRecursion`.
* `SSEBrokerProofs`: `TypeCorrect`, `NeverPanics`, `NeverSkips`, `ImplementsFeed`. The
  strengthening says that a channel in the map is open, that only a handler past its
  registration has one, and that the subscribers still to be visited are in the map;
  from it each action of the broker is shown to be a step or a stutter of `Feed`.
* `UsageFeedProofs`: `TypeCorrect`, `BatchesAreFresh`, `GaugesFollow`. Freshness holds at
  publication only; the invariant that carries it speaks of the platforms a
  publisher has already read, and of those it has still to read or did not list
  because nothing was stored.
* `WSHubProofs`: `TypeCorrect`, `NeverPanics`, `NeverSkips`, `ImplementsFeed`. The
  broker's argument, and two facts of the pumps: outside its batching loop `writePump`
  counts no message, inside it none that does not still wait.
* `RealtimeFetcherProofs`: `TypeCorrect`, `HasOneSource`, `IsNeverSilent`,
  `StopReleasesAll`, `AppliesInOrder`. The invariant adds that every reference is to a
  connection of the present round, that the EventSource's delay and a due restart exclude
  a winner, and that no answer is from the future nor the current one older than what
  was shown.
* `LifecycleProofs`: `TypeCorrect`, `EveryoneIsAsked`, `NilIsQuiet`, `OnlySlowFail`,
  `StartsAsConfigured`, `ImplementsWorkers`. The
  invariant ties the queue, the set of those asked and the current component to a
  number k, of which k shares of the timeout are an upper bound of the time used, so
  that every component has its whole share left; and says for whom time may
  pass: if a server in Shutdown has used up any time, one of its clients is in `slow`
  (`TimeIsForTheSlow`). They rest on `TimeoutAssumption`, `ShareAssumption` (five times the minimum
  share is at most the minimum timeout: 5 s and 30 s) and `StaleAssumption` (a duration
  is an integer). `StartsAsConfigured` has an invariant of its own: the configuration is
  the effective one and the pollers are its adapters. It rests on `FilesAssumption` (a
  provider's configuration is a struct with a type and a token). `ImplementsWorkers`, next
  to the theorem of the same name about `SyncManager`, is why `Lifecycle` may keep so
  little of the sync manager: neither claims of Stop or of a poller more than `Workers`
  does. It needs that the sync manager is asked first and only once (the number k), and
  that nothing is polled before the configuration is loaded.
* `QuotasProofs`: `TypeCorrect`, `ShowsWhatWasReported`, `PoolIsSound`,
  `NeverServesStale`, `GaugeAgrees`, and `PercentIsFloor` about `NormalizeToPercent`: its
  result is the whole part of the percentage, capped, wherever the product fits
  (`NormalizedIsCapped` is what is left where it wraps). One lemma
  per adapter (`KimiReports`, `MiniMaxReports`, `MonitorReports`) says that whichever form
  of `Says` the answer takes, either it is refused or its snapshot has what `Filed` says, if
  the counts fit, and percentages of at most 100 in any case; `RemainingIsRoom` and `PooledIs` say what the CPA adapter computes of an account
  and of the pool. The invariant (`Made`) ties every snapshot, in hand or stored, to what
  was stated when it was made, and the gauges to the stored one. It rests on
  `MaxIntAssumption` (an int64 holds a month of minutes), `ReportsAssumption` (counts, resets and positive totals within an
  int64), and on `AuthFilesAssumption` and `UsagesAssumption` (an answer has the fields of
  the structs it is decoded into).
* `NatRecursion`: `SetInduction`, `HasGreatest` (a bounded set of naturals has a largest
  element) and `Recursion` (a step and a first value define exactly one function on the
  naturals). They are stated with sets and functions instead of operators, which is what
  lets them be cited; `Power` and `SumOf` are defined by recursion and get their equations
  from them.

Model-checked only: all liveness (`RefreshServed`, `StopEnds`, `StreamEnds`, `ClientEnds`,
`Settles`, `CatchesUp`, `FetchEnds`, `Terminates`), which with its fairness and ENABLED is
out of the prover's reach. Every invariant, action property and refinement that a passing
run checks is also a theorem.

## 5. Not modelled, and the plan

Not modelled: JSON, HTTP and WebSocket framing except the joined frame; TLS, routes and
CORS headers; the syntax of the configuration; Prometheus text and HTTP counters; React
rendering beyond a tile's content; GET /api/v1/usage as such (it reads like the other
readers); `Store.Delete`, `GetAll` and `Len`, `NewApp` and `SyncManagerShutdownable`,
which nothing calls outside the tests; real time where it only orders timers (the 5 s
poll against a slow server); Go's panic for a WaitGroup.Add concurrent with a Wait, of which
only the reuse panic is modelled; the json.Marshal error of `app.go:70-73`, which these types
do not have; a failure of NextWriter, which is the same step as a failed write.

What would add most next:
1. A contract for the broker like `Workers`, with `SSEBroker` and the streams of
   `Lifecycle` as its implementations: a stream that is registered ends once the broker is
   stopped, one that comes later does not.
2. The composition of `UsageFeed` with `RealtimeFetcher`, for which `Settles` and
   `CatchesUp` are the two halves: that no dashboard is taken back to an older update
   except where the transports reorder.
3. The safety that the liveness properties rest on, as lemmas: that a parked waiter, a
   registered reader or a running pump always has a goroutine whose next step releases it.
