# TLA+ verification of DIO

DIO is a gateway in front of self-hosted LLM inference engines. A client sends
an OpenAI- or Ollama-style request; the gateway predicts what it would cost on
each backend, admits it on the cheapest one or sheds it with a 503, proxies it,
and learns from the observed latency. The repository holds two implementations:
`dio-serve/` (Python, the current product, with its experiment scripts) and
`DIO/` (a Go control plane with Python workers, the older one). This project
models both, the Python gateway in most detail.

## 1. Inventory

| Component | State | Operations | What is hard | What makes it correct |
|---|---|---|---|---|
| Scheduler (`dio-serve/src/dio/scheduler.py`) | per backend `pending`, `inflight_log`, `healthy`, `_fail_streak`; `AdmissionStats` | `pick`, `release`, `feedback`, `note_failure`, `set_healthy`, `register`, `reset_stats`, each under one lock | callers interleave; an id is registered again while requests are in flight | a slot is returned exactly once; the load agrees with the requests, and the log has an entry for each of them; evictions are earned; counters add up |
| Request handlers (`gateway.py`: `_proxy_json`, `_relay_stream`, `_proxy_ollama_stream`) | one coroutine per request, suspended at an await | forward, retry, relay, report | every await can raise, be cancelled or never be resumed | every path reports to the scheduler once; every request ends and its slot comes back, unless the client neither reads nor leaves |
| Health loop (`_health_loop`, `BackendPool.probe_health`) | the backend it probes | probe, `set_healthy` | the answer is stale when it is applied | rotation converges to what the engines really do |
| Admin endpoints (`/debug/...`) | none of their own | register, reset, set VRAM | run between any two steps of the handlers | do not corrupt the accounting of requests in flight; take no route away |
| Cost ranking (`_score`, `pick`) | predictors, `free_vram_mb`, `engine_snap` | score, rank | bonuses against penalties, boundaries of the hard blocks | no bonus hides a penalty; the distortion by affinity is bounded |
| Prefix affinity (`prefix_cache`) | ordered dictionary, three counters | touch, evict | behaviour at the size limit | exactly the most recent prefixes; honest hit rate |
| SLO gate (`_should_reject_slo`, `_percentile`) | `recent_e2e`, counters | decide | interpolated percentiles, feedback of the gate on its own input | sheds only when justified; counters add up |
| Learner (`DualTimescaleNLMS`) | two slopes, intercept, window, clip streak | `update`, `estimate` | clipping, streaks, outliers | approaches a sample without passing it; one outlier is held, a sustained change believed |
| Model routing and guard (`_model_aliases`, `_resolve_model_backends`, `_validate_openai_body`, middleware) | `model_map`, the pool | resolve, list, refuse | fuzzy names, three budget keys, hot registration between awaits | the model that was asked for answers, within the caps |
| Translation (`_proxy_ollama_stream.gen`, `_ollama_*`, TGI helpers) | buffer, tool-call slots, usage | reassemble, convert | chunks cut anywhere, optional usage, six ways out | the cuts do not show; streamed and unstreamed answers agree |
| Configuration and CLI (`config_file.py`, `cli.py`) | `dio.yaml` | `init`, `check-config`, `config`, `serve` | four readers of one file, engines that come and go | what is found is served; the commands agree on a file, tables included |
| MCP server (`mcp.py`) | the message in hand | read, call tools, reply | notifications, batches, a gateway that restarts | replies stay in step; no line is lost |
| Go manager (`DIO/cmd/manager`, `internal/scheduler`, `internal/registry`) | workers, predictors, registry file, counters | gRPC registration, inference, feedback, autoscaling | heartbeats register workers again; calls given up after the pick; crashes | the queue count is wrong by a bounded amount |
| Workers (`vllm-integration/`, `workers/python_worker`) | engine, registration | launch, register, heartbeat, predict | the manager restarts and forgets them; a heartbeat is refused or hangs | a live proxy is found again |
| Experiment scripts (`dio-serve/scripts`) | child processes, ports, rows, `summary.json` | start, wait, load, tear down, save | late boots, reused ports, interrupts, kills, each between any two steps | a cell is measured on its own gateway; nothing is left running; results are kept; paired rows are comparable |
| Mock engine (`mock_vllm_server.py`) | two gauges, prefix counters | admit, start, release | threads trade slots | the gauges are true |

The handlers call the scheduler synchronously between two awaits; the health
loop, the metrics loop and the admin endpoints share its state. All of them run
on one asyncio event loop, so a step of the gateway is what a coroutine does
from one await to the next. The MCP server, the scripts and the workers are
processes of their own that talk to it (or to the Go manager) over HTTP and
gRPC. Section 6 lists what is not modelled.

## 2. Modules

| Module | Models | Role |
|---|---|---|
| `Scheduler` | `scheduler.py`: state of class `Scheduler` and its methods as action formulas | component |
| `Gateway` | `gateway.py`: handlers, health loop, admin endpoints; extends `Scheduler` | composition |
| `SlotLedger` | what the gateway promises about slots | abstract specification |
| `Ranking` | `_score`, ranking loop, affinity LRU, telemetry | component |
| `OrderStatistics` | an entry of a sorted list, without the sort | operators |
| `Admission` | `_percentile`, `_should_reject_slo`, window of latencies; extends `OrderStatistics` | component |
| `Learner` | `DualTimescaleNLMS.update` and `estimate`; extends `OrderStatistics` | component |
| `ModelTable` | `_model_aliases`, `_resolve_model_backends` | operators |
| `FrontDoor` | middleware, endpoints, bodies, fallback, listing, hot registration; extends `ModelTable` | component |
| `StreamTranslator` | `_proxy_ollama_stream`: SSE to ndjson | component |
| `Deploy` | `config_file.py` and the commands of `cli.py`; extends `ModelTable` | component |
| `McpServer` | `mcp.py` next to the commands; extends `Deploy` | composition |
| `Manager` | Go manager, scheduler, registry file, autoscaler | component |
| `WorkerProxy` | launcher, vLLM proxy, Python worker; extends `Manager` | composition |
| `Suite` | seven experiment drivers and their child processes | component |
| `MockEngine` | the threads of the mock vLLM server | component |
| `MCGateway`, `MCServing`, `MCAdmission`, `MCOperation`, `MCHarness` | small instances for TLC | model checking |
| `GatewayProofs`, `LedgerProofs`, `StatsProofs` | TLAPS proofs about `Gateway` | theorems |
| `SchedulerProofs`, `LatencyProofs` | TLAPS proofs about `Ranking` and the counters of `Admission`; about the percentiles of `Admission` and `Learner` | theorems |
| `FrontDoorProofs`, `ClusterProofs`, `HarnessProofs` | TLAPS proofs about `FrontDoor`, `Deploy` and `McpServer`; about `WorkerProxy`; about `Suite` and `MockEngine` | theorems |

An operator whose comment begins with "Mutant:" is a plausible mistake in the
definition that follows it, never used by the specification; `PROJECT.json` says
which property notices it.

### Scheduler and Gateway

The methods of `Scheduler` each take `self._lock`, so each is one formula over
the variables it assigns; `Gateway` conjoins those that a coroutine calls
between two awaits. `phase[r]` is the await at which the handler of request `r`
is suspended:

```
new -> forwarding (-> fallback) -> done                     _proxy_json
new -> opening (-> reopening) -> refused -> done | leaked   a refused stream
                              -> opened -> streaming <-> yielding
                                          streaming (-> aborting) -> closing -> done | leaked
                                          yielding | aborting     -> closing   client gone
new -> rejected                                             AdmissionError
```

`fallback` is the completions retry after a 404, `reopening` the Ollama retry
without `stream_options`. A `leaked` request is over without having returned
its slot: `aread()` or `aclose()` raised before the scheduler call, or the
response was dropped before `gen()` ran its first step, so that `finally` never
runs. `verdict[r]` is what the handler knows about the exchange. A client that
disconnects is seen in two ways: as `CancelledError` at the await for the next
chunk (`ClientCancels`), or as `GeneratorExit` at the `yield` (`ClientHangsUp`).
While a request is `yielding` or `aborting` the client decides when it goes on
(`AtYield`): a client that neither reads nor closes holds its slot for ever, and
no timeout of the gateway covers that.

Both streaming handlers have the same control, so one set of actions models
them; `PROJECT.json` maps some actions to one and some to the other. Requests
turned away before `pick` (validation, caps, unknown model) stay `new`: they
touch no state. `allowed` in `Admit` and `Reject` is what model routing leaves
of the pool. `pick` may return any healthy backend, which covers all
strategies; latencies are only "under" or "over" the SLO. `generation[b]` counts
the predictor objects an id has had and `admitGen[r]` remembers the one a
request was admitted under, `peak[b]` is the most requests the log has had to hold
at once; all three are history, the code has none of them. The health
loop takes a probe answer in one step and applies it in a later one, so that
everything may happen in between.

Cancellation of a JSON handler is left out: the server does not cancel it when
the client goes away, only when the process stops.

### SlotLedger

A request takes a slot of one registered backend at most once, returns it at
most once, and load moves with it; registering an id forgets its load. The
refinement mapping (`Ledger` in `Gateway`) reads `load` off `pending`, `held` off
the phases and `finished` off the requests that are done.

### Ranking

Costs are integers in units of 1/8 ms (`BatchSize` = 8), which is exact for the
terms used. The defaults of `DIOConfig` are constants of the module. What the
learner does with a sample is open: feedback of a success may set any line out of
`Lines` and any average. `served` is the history against which the affinity
cache is checked. A failed scrape has no action because it changes nothing.

### Admission

A request comes with the list of scores of the healthy backends (`Blocked` for
a hard-blocked one), so the gate is checked for every field and not only for
those one cost model produces. Percentiles are kept in hundredths, which makes
linear interpolation exact. `Warmup` is 8 in the code and a constant here.
`sorted(xs)[k]` is the least entry that k + 1 entries do not exceed
(`OrderStatistics`): the code only ever reads single entries of a sorted copy.

### Learner

Latencies and the intercept are integers in microseconds, slopes in microseconds
per token, quotients cut off towards zero; the properties allow for that rounding
(`Slack`). A behaviour draws samples from one of `Workloads`, so that long runs of
one size and short mixed ones are both affordable. `last`, the latest update, and
`held`, the number of samples clipped in a row, are history.

### ModelTable and FrontDoor

A name is a sequence of tokens plus whether it is spelt in another case, so that
"last segment" and "prefix" are real operations on it. The operator's map and the
backends' own models are declarations, `[names, ids]` each; the table `Aliases` makes
of them is a record: `order`, the names in dictionary order, because the first match
wins, and `ids`, what each name maps to. `FrontDoor` follows one request
through the middleware, the checks, resolution, the translated payload, the
fallback and the reply, each step from one await to the next, while backends are
registered in between. Budgets keep their three keys. Which usable backend is
picked, and what the engine answers, is open.

### StreamTranslator

The engine's script is a sequence of events; its bytes are pieces of events
(head, the two bytes of a wide character, tail, newline) and a chunk is any number
of them up to `MaxChunk`. `gen()`'s locals are a record. The expected lines are
computed from the script without chunks or buffer, and compared at the end. The
mock backend, streamed and not, gives the reference for token parity.

### Deploy and McpServer

A `dio.yaml` is what the parser makes of it: a form, backend entries, settings.
`LoadProblem` says which exception loading it raises, in the order of the checks, and
each command has its own except clauses. What `serve` and `config` do with the loaded
values is part of the command: an id or a tier that is no text (`odd`) raises in a
table or in the join of the routing table, a strategy that is no text in the
gateway (`ServeProblem`, `ShowProblem`). `init` probes one port per step while engines
change. `McpServer` adds the stdio loop: a line is read, its items are handled in turn, a tool makes
its HTTP calls one by one, and the gateway of `Deploy` may stop between two of
them. `lines` is history: what the client wrote, by which `RepliesMatchRequests` says
which frame answers which line and which reply which item.

### Manager and WorkerProxy

The Go scheduler's decision is one step (it holds the mutex); then the worker is
dialled (`Dials`) or the request is given up without a feedback (`DialFails`, the two
returns of `main.go:111-119`); the call and its feedback are the third step. A
worker's predictor is the one number it would return, which a sample may or may not move. Go visits maps in random order,
so `RoundRobin` and `Session` may pick anyone. `Crash` loses everything but the
registry file, whose disk may fill up and be freed again (`DiskChanges`): a
registration or heartbeat that cannot be saved changes nothing. A heartbeat's RPC has
no deadline, so it may hang, and may hang for good. `forgotten` and `abandoned` are
history: how many calls a registration found in flight, and how many requests were
given up since.

### Suite and MockEngine

A script is a descriptor translated from that script: engines it starts, blocks of
cells with their ports, what it does when a gateway does not start or after its
load, when it saves, what its workloads are drawn from. One set of actions runs any
descriptor. Processes boot on their own, possibly after the script gave up on them,
and bind their port only if it is free. A save is two steps, because `write_text`
empties the file before it fills it, and a kill may fall between them (`Torn`). A
`KeyboardInterrupt` may fall between any two steps, inside a start after `Popen` and
before the `append` (`InterruptInStart`), and inside a teardown after the `pop` and
before the kill (`InterruptInTeardown`). From the clean-up on no `try` is left, so a
second interrupt there is what `HardKill` is. `MockEngine` has one step per method call
under the lock.

## 3. Runs

Passing runs:

| Run | Instance | Shows |
|---|---|---|
| `gateway` | `MCGateway`, three instances in one | `TypeOK`, `NoPhantomLoad`, `PendingIsExact`, `ShortOnlyPastCap`, `StatsAddUp`, `EvictionIsEarned`, `ImplementsLedger` |
| `gateway_live` | `MCGateway`, 1 backend, 2 requests, 2 registrations, fairness | `EveryRequestEnds`, `SlotsComeBack`, `HealthConverges` |
| `serving` | `MCServing`: costs, affinity, gate, learner | `BonusBuysNoPenalty`, `StickinessIsBounded`, `LruIsExact`, `HitsAreReuses`, `DecisionsAddUp`, `ShedIsJustified`, `StrictHoldsTheTail`, `NeverOvershoots`, `SustainedIsBelieved`, `OutlierIsHeld` |
| | requests at the front door, listings, streams | `ServedByItsModel`, `BudgetWithinCap`, `ListedIsRoutable`, `HotAddKeepsRoutes`, `ChunkingIsInvisible`, `StreamAgreesWithJson` |
| `operation` | `MCOperation`: commands, MCP tools, fairness | `InitServesWhatItFound`, `CommandsAgree`, `RepliesMatchRequests`, `EveryLineIsServed` |
| | two calls on the Go control plane, or one and a proxy that fails, fairness | `QueueErrorIsBounded`, `ProxiesReturn` |
| `harness` | `MCHarness`: 7 scripts, mock engine | `FreshGateway`, `RightConfiguration`, `EnginesOutliveCells`, `NothingOutlivesMain`, `FinishedBlocksAreKept`, `PairsAreSeeds`, `GaugesAreExact`, `ScriptsEnd` |

An MC module with a variable `focus` holds several instances: `focus` is chosen in
the initial state and never changes, and a behaviour takes only the steps of its
instance. This keeps modules that do not share state from multiplying each other.

Bounds.
- `gateway`: *crowd* has three requests on one engine registered once, *two* has two
  requests on two backends, *reload* two requests on a backend registered twice,
  with a reset. Two requests on one backend give any order of admission and return;
  the third makes the breaker, with a threshold of 2 (3 in the code), trip while a request is still
  in flight. `InflightCap` is 2, one less than the requests of *crowd*: the deque is
  full of leftovers and of entries in use, and overflows. Handlers and backends are
  interchangeable, hence the symmetry; the liveness run uses none. There, either two
  requests meet an engine that stays as it is, or one meets an engine that comes and
  goes at any time.
- `serving`, scheduler: prompt sizes lie below, between and above the two token limits (500
  and 1000), and the fast backend predicts 50 ms, less than the 200 ms bonus. Three
  prefixes in a cache of two with four picks reach an eviction after a refresh. Five
  backends are the fewest for which the 75th percentile leaves one candidate out.
  Ten learner updates are enough for six doublings of the tolerance and a sample
  after them.
- `serving`, front door: four deployments (bare URLs, one model each with a TGI backend and
  keys, a map that names an absent backend, one backend with two models), eleven
  names that meet each matching rule and each near miss, budgets below and above
  the cap under each key, two hot registrations. Streams: fragments of two
  interleaved tool calls, a wide character, junk, events after `[DONE]`, repeated
  usage; chunks of up to six pieces cut every event in every way.
- `operation`, commands and tools: two commands of the operator, two of the four probed ports, a good file
  and one for each error, those that only a table raises included; two lines of an MCP
  client out of eight kinds, one a batch with every kind of item.
- `operation`, control plane: a vLLM proxy and a Python worker, a latency beyond the
  SLO. *queue* has a long small request and a short large one under the strategies
  `NLMS` and `LeastLoaded` and one crash, next to an engine that stays ready once it is;
  *proxies* has one call under `RoundRobin` and `LatencyBased`, two crashes and a proxy
  and an engine that stop, fail or hang at any time: what brings a proxy back does not
  depend on the calls, which only have to return.
- `harness`: one and two seeds, a rerun after a kill with one; four requests in
  the mock engine with a concurrency of two. Two seeds are the fewest for which a
  missing row shifts the pairs.
- The violation runs use the instance of the passing run they belong to, those of
  `MCGateway` without a reset and with a deque that never overflows; `retry_latch` one
  backend.

Deadlock is not checked where the system really stops: a script or a stream that
has ended, an operator or a learner whose bound of commands or samples is reached.

Fairness. `Gateway`: every await of a handler on its engine ends (httpx bounds it by
`request_timeout_s`), and the health loop never stops (its probes time out after 3 s and
its errors are caught). A yield is not fair: its end is the client's business. So
`EveryRequestEnds` and `SlotsComeBack` say of a stream what holds if its client reads or
goes away again and again. An engine stops at its token limit, so a stream that keeps
being read ends or breaks: strong fairness, since its chunks and yields alternate.
`SlotsComeBack` also assumes that no handler lost its slot to an exception past the
scheduler call, which run `refused_leak` shows can happen. `McpServer`: the loop goes on
and each HTTP call has a timeout of at most 60 s. `WorkerProxy`: only that the heartbeat
thread of a running proxy, when it is not stuck in an RPC, goes on. None of the
docker-compose files has a restart policy and the RPC has no deadline, so neither
`Restart` nor the end of a hang is fair: `ProxiesReturn` is about what follows once the
manager stays up with a disk it can write and the proxy does not hang. `Suite`: `main()`
is one thread whose waits all have timeouts. No fairness is assumed of clients, admission, engines,
processes that boot, operators or administrators.

Runs that end in a violation, each of a sentence the repository says about
itself:

| Run | The code says | What happens |
|---|---|---|
| `hang_up` | a caller that hung up leaves no sample | `GeneratorExit` at the yield is counted as a failure |
| `stale_streak` | a single 5xx must not evict | a new registration inherits the streak of its id |
| `refused_leak` | a refused stream closes its slot promptly | `aread()`/`aclose()` raising leaks it |
| `retry_latch` | an honest `Retry-After` | with nothing in flight a shedding gate stays shut for good |
| `wrong_model` | never a 200 from the wrong model | of a backend with several models only the first is ever asked |
| `trust_region` | a contended sample moves the estimate by 5% of itself at most (`scheduler.py:282`) | only the slope steps are capped, the intercept step comes on top |
| `listed_unrouted` | every listed id is routed (`gateway.py:571`, `test_gap_fixes.py:270`) | names only an engine reports are listed and not routed |

### Smaller disagreements met on the way

No run is about these; the models show them, and no passing property calls them right.

Scheduler and gateway:
- `feedback` says that the depth log is "Popped on failure too, so a dead request cannot
  desynchronise the log" (`scheduler.py:1018`), but `release` pops nothing: the entry of
  a request that never reached its engine, or whose client left, stays, and every later
  sample of that backend is read with an earlier depth, a contended one as uncontended
  or the reverse. `ShortOnlyPastCap` only bounds the entries that are missing.
- `failed_total` is commented "Engine-side failures (5xx / aborted streams)."
  (`scheduler.py:77`), but `_proxy_json` and a refused stream count every status >= 400
  (`gateway.py:1195`). `StatsAddUp` leaves open what is counted besides failures of
  engines.
- Even when the log has one entry per request in flight, `feedback` pops the oldest one,
  which is another request's when requests end out of order.
- A backend with exactly 0 MB free is not hard-blocked (`HardBlocked`). The
  `rejected_vram` branch of `pick` is dead code (`NoFeasible`). In the default mode
  `rejected_slo` does not mean "min score > SLO" as `docs/API.md` says (`Rejects`).
- `num_predict` of an Ollama client is not held to `max_tokens_cap`
  (`BudgetWithinCap` is about the OpenAI surfaces); `max_new_tokens` is not in the
  routing feature; `max_completion_tokens` is ignored for TGI; a stream to a TGI
  backend sends an OpenAI body to `/generate`.
- Hot-adding the first backend with a model ends the mode in which any name is served.
- Tool calls are re-emitted, partly filled, with every fragment, while the docstring at
  `gateway.py:84` speaks of a finished object per call; an in-band error event of the
  engine, or an early close, ends in `done_reason: stop`; a last line without newline
  is dropped; a character cut by a chunk boundary is garbled.

Configuration, CLI, MCP:
- Apart from host and port, flags are ignored when a file is read (`cli.py:168`).
  `-c` with `-b` leaves names that are answered with 503 for ever. A `ValueError` or
  `TypeError` of a bad value is a traceback in every command. `init` writes names
  unquoted, so a model called `2024` makes a file no command can load.
- `check-config` promises "2 when the file parses but is not a usable DIO configuration"
  (`cli.py:556`), but an id, a tier or a strategy that is no text loads and passes, and
  then raises in `serve` (`cli.py:217`, `225`) and `config` (`494`, `507`).
  `CommandsAgree` is about files that are text throughout (`AllText`).
- `dio_predict_latency` does not report an offline gateway as an error;
  `dio_cluster_status` says "online" to a 401; `initialized` with an id is never
  answered.

Go control plane:
- A heartbeat sets `PendingTasks` to 0 and replaces the predictors; an engine failure
  comes back as a successful `Predict`; the OpenAI handler never answers 503; free
  VRAM 0 is registered as the default; a failed `grpc.NewClient` leaves
  `PendingTasks` up until the next heartbeat (`abandoned`); the registry file is
  written and never read; a Python worker registers once, in GB where the manager
  takes MB (`model_server.py:111`), and is lost with the next restart of the manager.

Scripts:
- The mock engine deadlocks when a request is counted as waiting before the ones
  counted as running have called `start_service` (`mock_vllm_server.py:63`).
- `run_gpu_abc_suite.py` uses ports of its first block again in the second, and
  `run_mock_hetero_concurrency.py` one port for all, so that a rerun after a kill can
  measure a leftover (`RightConfiguration` leaves these two out), as can
  `run_gpu_cluster_validation.py` with more than ten seeds; `mock_hetero` leaks its
  mock engines when interrupted before its `try`. An interrupt between a `Popen` and its
  `append`, or a `pop` and its kill, leaves that process running
  (`NothingOutlivesMain`).
- `run_regime_d_hetero.py:632` says of the same comparison "Same workload per seed across
  strategies -> paired comparison.", but the workshop suite draws the workload of a
  strategy from `1000 * (si + 1) + seed` (`run_workshop_final_suite.py:375`) and drops
  rows without a p99 from one of two lists before it pairs them by index, so nlms with
  1000 + i is compared with round_robin with 3000 + i. `PairsAreSeeds` leaves it out.
- `abc`, `post_d` and `mock_hetero` write nothing when they are interrupted; `cluster`, `hetero` and
  `regime_d` write nothing on an early return.

## 4. Proofs

Every theorem holds for all values of the constants its module allows: any sets
of backends, requests, workers, bodies, files or seeds, any caps and limits, and
every value of the bounds. Every safety property of the passing runs is proved but two,
whose argument is an induction over sequences. Where an argument is an induction by
nature (the best of a ranking, the largest entry of a window, the first occurrence in a list), it is led as one
about a least counterexample, which exists because `<` on the naturals is well-founded.

### Gateway

| Theorem | States | Argument |
|---|---|---|
| `TypeCorrect` | `Spec => []TypeOK` | one lemma per scheduler method; `HandlerShape` reduces the handler actions to four shapes (suspend, release, complete, fail) |
| `GatewayImplementsLedger` | `Spec => ImplementsLedger` | suspending steps are stutters, ending steps are `Return`, `Admit` is `Acquire`, `AddBackend` is `Forget` |
| `LoadNeverPhantom`, `LoadExact` | `NoPhantomLoad`, `PendingIsExact` | inductive together (`LoadInv`) with "an id that was never registered is idle", without which a first registration could find a holder |
| `LogShortOnlyPastCap` | `ShortOnlyPastCap` | inductive with "`pending` never exceeds `peak`": an append either adds an entry or finds the deque full, and then the log has `InflightCap` entries, of which the excess of `peak` is the rest |
| `EvictionEarned` | `EvictionIsEarned` | `StreakInv`: until an id is registered again, `_fail_streak` is at most the number of strikes; `GenInv`: a request never carries a registration number ahead of its backend's |
| `StatsCorrect` | `StatsAddUp` | `TallyInv`: each counter is the cardinality of a set of requests, `failed_total` of all that failed, which implies the weaker `StatsAddUp` (`TallyAddsUp`); every step adds one request to the sets whose counters it moves and leaves the others alone |

`TypeOK` is itself inductive because it relates phase, worker and verdict.

### Ranking, Admission, Learner

| Theorem | States | Argument |
|---|---|---|
| `BonusesAreSavings` | `RankSpec => []BonusBuysNoPenalty` | follows from the types of what `_score` reads (`RankTypeOK`, inductive): every term is a natural number, the bonus is at most the service time, so the outer clamp at zero never cuts (`ScoreIsCost`) |
| `DetoursAreBounded` | `RankSpec => []StickinessIsBounded` | the ranking loop returns a feasible backend of least score (`BestIsBest`, from the well-foundedness of `<`), and a score lies within the two bonuses below the cost |
| `TableAddsUp` | `GateSpec => []DecisionsAddUp` | with counters in `Nat` the property is inductive once the halving is replaced by its witness, the number of requests both verdicts reject (`Balanced`) |
| `CacheIsLru` | `RankSpec => []LruIsExact` | `AffinityInv` says where each entry comes from (`Follows`): the cache is the tail of the latest use of every key, in order of use. A touch removes the entry of the key and appends one (`FollowsTouched`), and the latest uses change the same way (`LatestAppended`); the eviction drops the oldest of them. `FollowsIsExact` turns that into the positions the property speaks of |
| `HitsAreHonest` | `RankSpec => []HitsAreReuses` | the other half of `AffinityInv` (`Honest`): a hit finds the key in the cache, and by `Follows` the entry names the backend of its latest use, so the pick is a reuse; while nothing was evicted the cache has every key, so every reuse is a hit |
| `StrictContract` | `GateSpec => []StrictHoldsTheTail` | `PercentileCounts`: at most the ranks above the percentile hold entries larger than the interpolated value; from what an order statistic is (`SortedEntry`, `SortedInOrder`) and that interpolation stays between two of them (`Interpolated`) |
| `ShedsAreJustified` | `GateSpec => []ShedIsJustified` | the same lemma for the scores: a best score that is not below the 75th percentile of the field is shared by three quarters of it |
| `EstimateNeverOvershoots` | `LearnerSpec => []NeverOvershoots` | `LearnInv` with the types (slopes and intercept within their limits). The error, the clipped error and every step have one sign (`CutSigns`, `StepSigns`); the two slope steps and the intercept step together are less than the error (`SteppedMoves`), clamping only shortens them (`Clamped`), and the blend 8:2 of the slopes loses less than a microsecond per token (`Distributed`) |
| `ChangeIsBelieved` | `LearnerSpec => []SustainedIsBelieved` | `held` never exceeds `clip_streak`, so after six clipped samples the tolerance is 64 times as wide (`Widened`) and takes what lies within a hundred times the scale |
| `OutliersAreHeld` | `LearnerSpec => []OutlierIsHeld` | with no streak the tolerance is not widened; the cap of the trust region times the size is at most a twentieth of the prediction (`CapAtSize`), and the intercept moves by a two-hundredth of an error of at most twice the scale (`UpdateMoves`) |

### FrontDoor, Deploy, McpServer

| Theorem | States | Argument |
|---|---|---|
| `ServedAsAsked` | `Spec => []ServedByItsModel` | `DoorInv`: the map and the pool are lists, no id twice in the pool. What the table holds follows from its definition (`AliasesAre`), and from that who a name can resolve to (`ResolvedBy`). `RouteInv`: whatever was sent for a request went to a backend that is right for the name (`Right`) or has been replaced since; a registration of another id leaves it right |
| `ListedNamesRoute` | `Spec => []ListedIsRoutable` | `ListInv`: while no id was registered again, the names gathered are names of the table as it is now or reported by a backend of the pool as it is now; the table only grows (`TableGrows`) |
| `RegistrationKeepsRoutes` | `Spec => HotAddKeepsRoutes` | an action property, from `DoorInv`. A new backend puts at most its own model behind all other names, so the first of the old matches stays the first (`FirstStays`), unless there was none, and then the new name is the match and is usable (`HitsStayUsable`). Exact, same and prefix matches in turn (`RoutesStay`) |
| `BudgetsAreCapped` | `Spec => []BudgetWithinCap` | `BudgetInv`: a request that is out carries a body that passed `_validate_openai_body` and one or two payloads whose keys are within the cap; TGI translation and fallback preserve that for whatever backend has the id by then |
| `VerdictsAgree` | `DeploySpec => []CommandsAgree` | `VerdictInv`: a verdict on record is the one of the file as it is now, because everything that writes the file clears the verdicts; of a file that loads and is all text no row and no join raises, whatever the flags |
| `FoundIsWhatServes` | `DeploySpec => []InitServesWhatItFound` | `InitInv`: what a scan found are entries that load, each with a list of models; a file written by init holds exactly those, and a gateway started from it alone has the pool and the map they make (`FoundIsServed`) |
| `RepliesInStep` | `McpSpec => []RepliesMatchRequests` | `McpInv`: `stdin` is what is left of `lines` (`EndOf`) and what is left of the message in hand the end of its items; the frames on stdout answer exactly the lines before that message (`FramedBy`) and the replies held exactly the items before the ones left, but for the one whose tool runs (`RepliedBy`), whose id the call keeps. Every step adds to both sides or to neither (`ReplyAdded`, `ReplySkipped`, `FrameAdded`, `FrameSkipped`), which rests on counting the places owed up to a given one (`Ranks`) |

### WorkerProxy, Suite, MockEngine

| Theorem | States | Argument |
|---|---|---|
| `QueueErrorBounded` | `Spec => []QueueErrorIsBounded` | `QueueInv`: the bound together with "a call is out only to a worker the scheduler knows" (`CallsGoToKnown`), since a crash takes the calls with the workers; a registration adds to `forgotten` exactly what it drops from the count, and a request given up moves from the calls that are out to `abandoned` |
| `ScriptsCleanUp` | `SuiteSpec => []NothingOutlivesMain` | `OwnInv`: while the clean-up can still reach it, everything of this run that lives is on the list of handles, but for the one gateway `mock_hetero` waits for; an interrupt inside a start or a teardown takes at most one process off it. Rests on lemmas about `append`, `pop` and `remove` and on what all seven descriptors have in common (`DescriptorFacts`) |
| `EnginesStayUp` | `SuiteSpec => []EnginesOutliveCells` | with `OwnInv`, `PlaceInv` (main() is within its descriptor) and `HeldInv`: gateways keep to their ports, so what answered for an engine or the proxy is no gateway; while a cell runs the last handle is its gateway, which is all a `pop` can stop. Rests on the shape of all the blocks (`BlockFacts`) |
| `RightGateway` | `SuiteSpec => []RightConfiguration`, if there are at most ten seeds | `LineInv`: whatever lives, of this run or a killed one, is on the port of an engine, of the proxy, or of a cell and then has its configuration. `PortsTell`: two cells of one port have one configuration, from the ranges of ports each configuration of each script has (`ClusterCells`, `ClusterSlots` and so on) |
| `EveryCellIsFresh` | `SuiteSpec => []FreshGateway`, if there are at most fifty seeds | `FreshInv`, with `LineInv`: in a first run the only gateway alive is the one of the current cell, but for those `hetero` gave up on and left, which have ports of earlier cells; and the last handle is that gateway, so that a `pop` stops it. Needs that the ports of `hetero` differ from cell to cell (`HeteroPorts`) and that in `mock_hetero`, where a gateway serves several cells, the next cell has the same one exactly when its seed is not the first (`MockSeeds`) |
| `PairsMatch` | `SuiteSpec => []PairsAreSeeds` | `RowsInv`: a block that is compared lays down one row per cell it is done with, in the order of its cells, whether the cell failed or not. Where the row of a configuration and a seed stands is then arithmetic in the cell's number (`LaidIndex`), the same for the two lists a comparison pairs (`PairingFacts`); in every block that is compared, but those of workshop, the workload is drawn from the seed alone |
| `ResultsAreKept` | `SuiteSpec => []FinishedBlocksAreKept` | `KeptInv`: the blocks before the current one are in the summary dict, and the current one too while it is saved; an end that writes before the clean-up has written when it cleans up. Only the first block may be missing from a file that is saved block by block and is not torn |
| `MockGaugesExact` | `MockSpec => []GaugesAreExact` | inductive with the types; `running` never exceeds the limit because a waiting request takes a slot only when one is free |

The bounds on the seeds are hypotheses of `RightGateway` and `EveryCellIsFresh` and not assumptions of
the module: with more seeds the statements are false. From eleven on, the port
arithmetic of `run_gpu_cluster_validation.py` gives the eleventh `nlms` gateway of G2
and the first `round_robin` gateway one port, so that after a kill one can be taken for the
other; from fifty-one on, a gateway `run_real_hetero_multiseed.py` left running can
answer for another cell of the same run. All the defaults are at most ten.

### Assumptions

Named, in the module that declares the constants, and evaluated by TLC in the runs:
`SchedulerAssumption` and `GatewayAssumption` (finite sets of requests, positive
threshold and deque length, `NoBackend` no backend); `RankingAssumption` (token
counts, learned lines and averages are natural numbers, gauges percentages; free
memory may be any integer, since `/debug/chaos/vram` takes what it is given);
`AdmissionAssumption` (the four modes, percentiles within 0 and 100, natural latencies
and scores, a window that holds the warm-up, which is positive); `LearnerAssumption` (initial values within the
limits, the three modes, a window of at least one sample, sizes that are positive);
`FrontDoorAssumption` (a budget that is present is an integer: the check for other
types is part of `body.shaped`); `DeploymentsAssumption` (pools and maps are what a configuration file gives: lists, each
id once in a pool, an id for every name; no backend has the value that stands for
None); `DeployAssumption` (`Unset` is no exit status); `FilesAssumption` (a file written
by hand is not one of init; an engine's listing is a list); `ScriptAssumption` (the
items of a line are a list);
`ManagerAssumption` and `WorkersAssumption` (finite sets of calls, natural
latencies and sizes); `PortsAssumption` (numbers of seeds and ports are natural, and the
ports given to a script's gateways are none of its engines' or its proxy's, as with
the defaults of the flags);
`MockAssumption` (finitely many calls, a positive limit).

### Only model-checked

- Liveness: `EveryRequestEnds`, `SlotsComeBack`, `HealthConverges`, `EveryLineIsServed`,
  `ProxiesReturn`, `ScriptsEnd`. Fairness is out of the prover's reach.
- What folds of sequences compute, which needs induction over the sequence:
  `ChunkingIsInvisible` and `StreamAgreesWithJson` (the buffer of `StreamTranslator` is a
  fold over chunks and its reference one over events).

Every other property of the passing runs is a theorem. Some models were put into a form
that can be reasoned about for it: what the code builds by appending in a loop is
written down as the function from positions that results (the alias table, the pool of
a file, the rows of a suite). One property was wrong: `HotAddKeepsRoutes` used to
recognise a registration of a new id by `replaced` not changing, which is also what
happens when an id is registered for the third time; it now compares the ids of the pool.

## 5. Plan

Done: all modules of section 2, their runs, and the proofs of section 4. Next, if the
prover learns to instantiate the induction theorems of its library: what the buffer of
`StreamTranslator` holds after any chunks, on which its two properties rest.

## 6. Not modelled

- Text: request bodies, Prometheus text, YAML and JSON syntax, tables and logs. Where a
  conversion matters it is modelled by what it does to the fields a property reads.
- Floating-point rounding; `SimpleRLS`, a recursion over a floating-point matrix; the
  tokenizer, a library call.
- The choice rules of the baseline strategies (`rr_index`, the ewma cold start):
  `Gateway` lets `pick` return any healthy backend instead.
- The metrics loop's parser. A failed scrape changes nothing and has no action; how old
  a snapshot may be the code does not say, so no property is about it.
- `unregister` and `note_success`, which the gateway never calls; the Go health monitor,
  which is never started; `/debug/reset_stats` and the decision logs of the manager.
- Of the scripts: the mode with external engines, statistics over the rows, reports. The
  other benchmarks, analyses, dashboards and generated protobuf code have no state that
  outlives a call.
