# A verification of EmbedderCrux in TLA+

EmbedderCrux is a pool of GPU embedding servers behind one router. This directory
models the parts of it where order, time and failure matter, checks them with TLC on
small instances, and proves with TLAPS, for every value of the constants, every safety property of them: the
circuit breaker of the health checker, the proxy with its retry, the coalescer, the distribution of bundles,
the dynamic batcher of the Jina server, the counters and token embeddings of the gateway, the age of what `/info`
tells and the order of discovery polls. `PROJECT.json` lists the runs, the source lines behind every
definition, mutants that show that each property can fail, the hazards, the findings
and the theorems.

    tlc -config PoolHealth.cfg PoolHealth        a run (module and cfg in PROJECT.json)
    tlapm PoolHealthProofs.tla                   a module of proofs (`*Proofs`, `SequenceFacts`)

## 1. The system

| Component | Where | State | Operations |
|---|---|---|---|
| Discovery | `src/discovery.mjs` | the target list | `start`, `stop`, `#poll` (POOL_TARGETS and `tailscale status`), event `change` |
| Health checker and circuit breaker | `src/health-checker.mjs` | one record per target: `healthy`, `consecutiveFailures`, `trafficFailures`, `ejectedUntil`, latency | `#pollAll`, `#checkOne`, `#recordFailure`, `recordTrafficOutcome`, `getHealthyNodes` |
| Routing | `src/pool-router.mjs` | in-flight counters | `selectNode`, `handleProxy` (one retry, pinning) |
| Batch coalescer | `src/pool-router.mjs` | `batchQueue`, `batchFlushTimer`, `activeFlushes` | `coalesceOrNull`, `scheduleBatchFlush`, `maybeFlush`, `flushBatch` |
| Bundle distribution | `src/pool-router.mjs` | local to a request | `handleEmbedBundle`, `embedShardWithFailover` |
| Pool HTTP server | `src/pool-router.mjs` | `infoCache`, `infoCacheAt`, its connections | `main`, `GET /info`, status pages, signals |
| Pool metrics | `src/pool-metrics.mjs` | counters, bounded sample stores | `record*`, `render` |
| Gateway | `src/server.mjs` | `counterStore` | proxy to TEI, probes, `/metrics`, `/embed/sequence` |
| Jina server | `jina-server/server.py` | queue, event, futures, GPU lock | `/embed`, worker thread, `/embed/multi_vector` |
| NER server | `ner-server/server.py` | the model | `/extract` |
| Launchers, health script, containers | `scripts/`, `healthcheck.sh`, compose files | containers | start, GPU to CPU fallback |

How they interact. Discovery hands its list to the health checker, which reads it at each
poll. The health checker calls the backends' `/healthz`; the router asks it for
`getHealthyNodes()` before it picks nodes and tells it of the outcome of calls by
`recordTrafficOutcome`. The three request paths (proxy, coalescer, bundle) share the health
checker and the in-flight counters, and nothing else. A backend is a gateway before TEI, or a
Jina server.

All of the pool runs on one event loop: code between two awaits is atomic, and anything may
happen at an await. The Jina server is threaded: request threads and one worker share a queue
under a lock, an event, a lock for the GPU and one future per request.

### What is hard, and what makes each part correct

- **Breaker.** Calls outlive ejections, records and target lists. Correct: a backend is ejected
  for a full streak of failures and nothing else; late failures never prolong a cooldown;
  ejection ends by itself; one lost ping takes nobody out.
- **Coalescer.** A request may enter the queue when all flush slots are busy and no timer runs.
  An answer is cut by offsets without a look at its length.
  Correct: nothing is lost, duplicated or left waiting; every caller gets the vectors of
  its own texts; nobody is rejected while a candidate is left; the breaker hears of every failure.
- **Routing.** The pool changes between a call and its retry. Correct: counters are exact on every
  exit path; no client fails while another node was available all along.
- **Bundles.** Shards finish in any order, some after the bundle has failed. Correct: shards
  partition the inputs, the answer has no hole, one answer per bundle, exact counters.
- **Start, discovery, shutdown.** Polls answer late, fail or hang; connections outlive the signal, and signals may come
  again. Correct: the router starts whatever tailscale does; an older answer never replaces a newer one; the list
  converges; a router that is told to stop ends.
- **`/info`.** Misses overlap while backends change. Correct: what is told was served within the time to live.
- **Gateway.** A sequence is many calls, each of which may fail or come back short. Correct: token embeddings
  stay aligned with their offsets; each request is counted once, as it was answered.
- **Jina batching.** The event, the queue and the timeouts of clients race. Correct: an event is
  neither missed nor left over; results go to their owners, cut to their dimension; a failure stays in
  its group; every future is set, once.

`PROJECT.json` `hazards` has the list, each at its line and with the properties that watch it.

## 2. The modules

| Module | Models | Builds on |
|---|---|---|
| `CircuitBreaker` | abstract: what a breaker promises, without counters or clocks | |
| `HealthChecker` | target list, health checks, breaker records, time | |
| `PoolHealth` | the health checker under arbitrary traffic, with histories | `HealthChecker`, `CircuitBreaker` (refined) |
| `PoolHealthProofs` | theorems of `PoolHealth` | `PoolHealth` |
| `PoolRouter` | node choice, in-flight counters, how a call may end | `HealthChecker` |
| `ProxyRoute` | `handleProxy` | `PoolRouter` |
| `ProxyRouteProofs` | theorems of `ProxyRoute` | `ProxyRoute` |
| `Coalescer` | queue, timer, flushes, failover | `PoolRouter` |
| `CoalescerProofs` | theorems of `Coalescer` | `Coalescer`, `SequenceFacts` |
| `CoalescerHistory` | the same with a history of what each backend did | `Coalescer` |
| `Shards` | the split of a bundle, as a function | |
| `SplitLoop` | the loop that computes it | `Shards` |
| `Bundle` | `/embed/bundle` | `PoolRouter`, `Shards` |
| `BundleProofs` | theorems of `Bundle` and `SplitLoop` | `Bundle`, `SplitLoop`, `SequenceFacts` |
| `DynamicBatcher` | the Jina server | |
| `DynamicBatcherProofs` | theorems of `DynamicBatcher` | `DynamicBatcher`, `SequenceFacts` |
| `SequenceFacts` | what folds over sequences compute, and other facts the proofs share | |
| `Lifecycle` | start, discovery polls, connections, signals, exits | |
| `InfoCache` | `/info` and its cache over several backends | |
| `PoolServerProofs` | theorems of `Lifecycle` and `InfoCache` | `Lifecycle`, `InfoCache` |
| `Gateway` | `server.mjs` | |
| `GatewayProofs` | theorems of `Gateway` | `Gateway` |
| `MC*` | values of constants a `.cfg` cannot write | |

### Correspondence with the code

**HealthChecker.** `nodes[n]` is the record of `#nodes`, `registered` its keys. `DiscoveryPoll`
replaces the list by the static targets and any set of peers; a poll that fails is a stutter.
`PollAll` is `#pollAll`: it prunes, registers and starts a check per target in one turn. `CheckOk` and
`CheckFail` are the end of `#checkOne`, at any time and in any order, with up to `MaxOverlap`
checks of one record under way (the interval may be shorter than two timeouts). `Outcome` is
`recordTrafficOutcome`. Time is `Tick`: `ejectedUntil`, an absolute time, is kept as the ticks left,
and the comparisons with `Date.now()` become comparisons with 0. Both counters are only
compared with `>=` and saturate at their thresholds. A check of a pruned record writes to an object
nobody reads and is dropped. Latency estimates are not kept: wherever the code orders by
them, the models allow every order.

**ProxyRoute.** `Arrive` is `handleProxy` up to its first call, `FirstEnds` the answer and, if it is not
usable, the choice of another node in the same turn, `RetryEnds` the second and last call. Pinned requests have
`ArrivePinned` and `PinnedEnds`. "Usable" is a status below 500, as in the code; the outcome "failed" is a 5xx,
which a retry passes on, "thrown" a connection error or timeout. When several registered nodes have the
pinned url, any of them may be found. The latency score of `selectNode` and its round robin are
not modelled: any candidate (any fast one for a heavy request, if there is one) may win.

**Coalescer.** `Submit` is `coalesceOrNull` with the flush it may start, `TimerFires` the callback of
the timer, `CallEnds` a hop of `flushBatch` with what it does until its next await, `Finally` the
`finally` of `maybeFlush`. The last is a microtask that runs right after the flush settled; as a step of its
own it may be delayed here, which adds behaviours and hides none. `StartFlushes` is the loop of `maybeFlush`:
the flushes it starts list their candidates in the same turn, so they see one state of the pool.
"garbled" is a 200 whose body does not parse, which the code records as a success and then as a failure.
"miscounted" is a 200 with another number of vectors than there were texts: `Arrays` has those with one missing or one
too many, anywhere. `Serve` cuts what came by offsets, as the code does, so that everything after that place shifts to other callers.
A reply keeps, as history, how many texts the caller sent and whether the array had one vector for each text of the batch.

**Bundle, Shards, SplitLoop.** `Arrive` splits and sends all shards in one turn. `CallEnds` is one hop of
`embedShardWithFailover`. The bundle is answered by the last shard to succeed or the first to fail
(`Promise.all`), and shards that are still out go on: `Sending` outlives the phase. A wrong number of
vectors ("miscounted") fails a shard after its candidates were given up; a right one is copied from where the shard starts
(`ShardInputs` are the inputs it was sent, whose vectors come back in their order). `SplitLoop` is the loop with its cursor, one iteration
per step, proved to compute `Split`, which `Bundle` uses. Weights are exact fractions here; where
floating point would round a tie the other way is not modelled.

**DynamicBatcher.** One action per region between two points where threads can interleave: `Submit` under
`_lock`, `Wake` the return of `wait` (set, or timed out), `Take` under `_lock`, `Encode`, `EncodeEnds` and
`EncodeFails` around the forward pass under `_gpu_lock`, `Demux` per future. `EncodeFails` and `DemuxFails` lead to the
`except` of the group, where `Fail` gives the exception to one future per step and passes over those that are done. `TimeOut` is `fut.result` giving
up; the request stays queued and is served for nobody. With `JINA_DYN_BATCH` off the request thread
takes the lock itself (`DirectStart`, `DirectEnd`). `task` stands for task, prompt and token limit.
Normalisation, sub-batches and the counters of `/health` are left out.

**Lifecycle.** `phase` is where `main` stands: in `discovery.start()`, in the 2.5 s of settling, listening, after
a signal, or gone. A poll is known by its age; `Read` is tailscaled answering with the peers of that moment,
`Apply` the rest of `#poll` with the change event and its listener, `PollFails` every way `tailscaleStatus` rejects;
`Tick` never lets a poll outlive the timeout of `execFile`. A poll that is applied while `discovering` also lets `main`
go on. The interval is larger than the timeout, as it is unless `POOL_DISCOVERY_INTERVAL_MS` is set below 10 s.
A connection is idle or busy; `server.close` closes the idle ones and waits for the others, which may send further requests
while they are kept alive. A signal may come at any time and again: the second one's grace timer is later than the first one's, which
still runs. The process exits with 0 at a signal before `listen` or when the drain is over, with 1 at the end of the grace
(`ForcedExit`), when `listen` throws or emits an error (`ListenFails`), and when the handler of a request rejects, which
nothing handles (`Crash`): a URL that does not parse is enough for that, so any request may.

**InfoCache.** Instants are ages: `infoAge` is `now - infoCacheAt`, capped at `TTL`, where nothing depends on it any more.
`Miss` is the handler up to its await, `Answer` the backend reporting its model, `Arrive` the rest of the handler, which
stamps the cache with the age of the request. `gone` is a history: how long ago a model was last served.

**Gateway.** A request is where its handler awaits: `Get`, `Embed` and `Sequence` run up to the first call,
`CallEnds` is what the handler does with the answer until its next await or its end. `counterStore` is the bag of its labels. The
vector of a token is its number. TEI may give fewer vectors than inputs, which the code does not look at.

## 3. The runs

| Run | Shows | Instance |
|---|---|---|
| `pool_health` | the breaker refines `CircuitBreaker`, with its liveness; rotation is left for cause only and regained | a static and a discovered target, thresholds and cooldown 2, 2 overlapping checks, 2 calls under way per node |
| `coalescer` | nothing lost, duplicated or rejected early; settled once, and every request is; counters exact | 3 requests, target 2, 2 flushes, 2 nodes of which one is remote, 2 hops, threshold 1; calls are answered or thrown |
| `coalescer_batches` | own vectors when there is one per text, never a vector to two callers; a full run of failed calls ejects, whatever came before | 3 requests of 1 or 2 texts, target 3, 2 flushes, one discovered node that may be dropped and listed again, threshold 2; calls end in any of the six ways |
| `proxy_route` | in-flight exact, no needless failure | 2 clients, pinned or not, heavy or not, one static and one discovered node, of which one is fast; calls are answered, fail or are thrown |
| `split_loop` | the loop computes `Split`: a partition, in proportion | up to 7 inputs, 4 nodes, latencies up to 4 |
| `bundle` | no hole, one answer, justified failures, exact counters | 3 nodes, 3 inputs, 2 hops, two latencies |
| `dynamic_batcher` | event, queue and groups consistent; own results; one pass of `/embed` at a time; every future set | 3 requests of 1 or 2 inputs, dimensions below, at and above a step, full batch 3, batching on and off, one multi_vector request |
| `gateway` | token embeddings aligned with offsets, and in order when TEI's arrays are short; counters match the answers | 2 requests of any route, up to 6 tokens, cap 5, batches of 2, sequence mode on or off, with or without a second TEI |
| `info_cache` | what is told is fresh; an older answer in the cache does not last | 2 backends, 2 models, 2 clients, time to live 2, timeout 1 |
| `lifecycle` | the router starts; polls in order; list and gauge converge; told to stop, it ends | 2 peers, a static target, 2 clients, interval 3, timeout 2, settle time 1, grace 2 |
| `coalescer_refused`, `proxy_route_sequence` | the findings of section 5 | as above; `coalescer_refused` over two nodes, with threshold 2 and calls that are answered or refused |

**Why the bounds are enough.** Thresholds of 2 tell a streak from a single failure and from a streak with a
success in it; a cooldown of 2 tells "not prolonged" from "over". Two outstanding calls are what it takes to fail
during an ejection that another one caused. Three requests are the fewest for which the queue is
non-empty while two slots are taken (the timer starts the first two), and a target of three texts lets
a batch hold requests of different sizes in any order, so that a vector missing or added before the last request shifts
its slice. Three calls of one node let a success, a refusal or a garbled body precede the two failures that must eject,
with two calls under way at once. Two nodes are what one retry or failover needs, and three make two
hops fewer than the candidates. In the batcher three requests make one group of two beside another, or three in
one, and a batch that fills while another is encoded. Seven inputs over four nodes reach every case of the split:
shares of zero, a last node that pays for the rounding of the others, a loop that ends early.

Six tokens in batches of two with a cap of five reach a single batch, full batches, a last one that is not full, and the
refusal above the cap; two requests are what it takes to interleave counters. A time to live longer than the timeout
lets an old answer be cached, expire, and be replaced by a still older one. An interval of 3 and a timeout of 2 are the
smallest with a poll that answers in the tick it was asked, one that answers later, and a pause before the next; a grace of 2
lets a second signal come between the first one and the exit.

**Deadlock** is checked everywhere but in `split_loop`, where the loop ends, `gateway`, where a bounded number of
requests does, and `lifecycle`, where the process exits.

**Symmetry** is not used: nodes differ in their parts (static, fast, remote), and several runs have liveness properties.

### Fairness

- `HealthFairness`: `setInterval` keeps calling `#pollAll`, a check settles within its timeout, and time
  passes. Nothing is asked of traffic: a node that is never called again must still come back.
- `Coalescer!Fairness`: the flush timer fires, `proxyTo` settles at the latest after `POOL_REQUEST_TIMEOUT_MS`,
  and microtasks run. It is stated for all flushes together, which is less than the code guarantees (no call is passed over for
  ever) and enough for any bounded number of requests.
- `InfoCache`: time passes and calls end within their timeout. No client has to ask again: a stale cache expires by itself.
- `Lifecycle`: time passes, polls end (by the timeout of `execFile` at the latest), timers fire, `listen` calls back. Nothing
  is asked of tailscaled, peers, clients or signals; `DiscoveryConverges` assumes that polls succeed again and again.
- `DynamicBatcher`: the worker thread is scheduled and forward passes end (well or with an exception). Only
  the queued path has a liveness property: `threading.Lock` promises no fairness to a thread that takes the lock
  itself.

`Readmitted` assumes that the target stays listed and that its checks stop failing from some time on.

## 4. What is proved

For every set of ids, peers, models and clients, every number of requests, inputs, slots and nodes, and every threshold,
cooldown, bound and time:

| Module | Theorem | Says |
|---|---|---|
| `PoolHealthProofs` | `TypeCorrect` | `TypeOK` |
| | `EjectionIsEarned` | `EjectedOnlyAfterStreak`: ejected only while the last `TrafficEjectThreshold` outcomes are failures |
| | `FullStreakEjects` | `StreakEjects`: a failed call that completes or prolongs a full streak leaves the node ejected, a half-open one too |
| | `CooldownOnlyShrinks` | `CooldownNeverExtended`: no step prolongs a cooldown |
| | `LeavingRotationIsEarned` | `OutOfRotationIsEarned`: a node leaves rotation for a full streak of failed checks, ejected for one of failed calls, or because it is no target any more |
| | `ImplementsCircuitBreaker` | `ImplementsBreakerSteps`: every step is one of `CircuitBreaker`, under the mapping `Mode` |
| `ProxyRouteProofs` | `CountersAreExact` | `InflightExact`: each in-flight counter is the number of requests waiting for the node |
| | `FailureIsTheLastResort` | `NoNeedlessFailure`: a client is told of a failure after two nodes failed, or when no other one stayed in rotation |
| `CoalescerProofs` | `QueueIsWoken` | `NoLostWakeup`: while the queue is not empty the timer is armed or all flush slots are taken |
| | `NoneLost` | `NoRequestLost`: a request that is not settled is in the queue or in one batch, once |
| | `SettledForGood` | `SettledOnce`: no step settles a request again |
| | `CountersNeverLeak` | `CountersExact`: `activeFlushes` and the in-flight counters count the flushes under way |
| | `FailoverBeforeRejection` | `RejectedOnlyAfterFailover`: callers are rejected when as many different nodes failed as there were, up to the limit |
| | `EveryoneGetsTheirOwn` | `OwnVectors`: callers get the vectors of their own texts when there is one per text, and no vector of another caller's when there is not |
| | `FailuresEject` | `FailingBackendEjected`: the batch that completes a run of failed ones (5xx or no answer) as long as the threshold leaves the backend ejected, whatever it answered before |
| | `HistoryOnlyWatches` | the history of `CoalescerHistory` changes nothing: what holds of `Spec` holds of `HistorySpec` |
| `BundleProofs` | `LoopComputesSplit` | `LoopIsSplit`: the loop of `handleEmbedBundle` computes `Split` |
| | `LoopPartitions` | `ShardsPartitionInputs`: the shards are in order, none empty, every input in one |
| | `LoopSharesFairly` | `SharesProportional`: a node is given its share by latency, give or take half an input for each node up to it |
| | `SplitPartitions` | the same of `Split`, for any nodes and latencies |
| | `ShardsAreCounted` | `InflightExact`: each in-flight counter is the number of shards at the node |
| | `VectorsInPlace` | `ReassembledInOrder`: a bundle is answered with every vector at its place |
| | `FailsForAReason` | `FailureJustified`: a bundle fails for a shard that used up its failover, or got the wrong number of vectors |
| | `AnswersOnce` | `AnsweredOnce`: an answered bundle keeps its answer |
| `DynamicBatcherProofs` | `EventIsExact` | `EventMeansFullBatch`: the event is set exactly while the queue holds a full batch |
| | `InOnePlace` | `OnePlace`: an unanswered request is in the queue or in one group, once |
| | `EveryoneGetsTheirOwn` | `OwnResults`: a result is made of the request's own texts, in order, at its own dimension |
| | `OnePassAtATime` | `EmbedSerialised`: the forward passes of `/embed` never overlap |
| | `FuturesSetOnce` | `SetOnce`: a future that is set stays as it is |
| | `FailureIsOneGroup` | `FailureStaysInGroup`: when a request fails, those of other keys in its batch are still to be served |
| `PoolServerProofs` | `InfoIsFresh` | `InfoFresh`: a model told from the cache was served less than the time to live ago |
| | `PollsAppliedInOrder` | `PollsInOrder`: no poll under way is older than the one applied last |
| `GatewayProofs` | `SequencesAreAligned` | `TokensAligned`: the embeddings of an answered sequence are those of its tokens, in order, and all unless TEI left some out |
| | `CountersAreAnswers` | `CountersMatchAnswers`: each label is counted as often as a request was answered so |
| `SequenceFacts` | `FoldInduction` | induction over sequences: what is true of `<<>>` and stays true when an element is appended is true of every fold |

**Assumptions**: thresholds, cooldown and `MaxOverlap` are positive naturals (`ThresholdAssumption`), the
static targets are ids (`StaticAssumption`), `MaxOwed` is a natural (`MaxOwedAssumption`). The other modules assume their sizes and times to be naturals, positive
where the code needs it (`CoalescerAssumption`, `BatcherAssumption`, `InfoAssumption`, `SplitAssumption`, `GatewayAssumption`), finite
sets of clients, requests, bundles and ids where they are counted (`ProxyAssumption`, `CoalescerAssumption`, `BundleAssumption`,
`GatewayAssumption`), a step of `MATRYOSHKA_DIMS` that is not below any dimension
that may be asked for (`BatcherAssumption`), and a discovery interval longer than the
timeout of `tailscale` (`LifecycleAssumption`). TLC evaluates them too.

**The argument for the breaker.** The properties speak of histories (`traffic`, `probes`), the code keeps counters. The
inductive invariant `IInv` ties them: besides the types, `CountersTrackHistory` says that each counter is the
length of the run of failures at the end of its history, which lemma `WindowPush` shows to survive the push of an
outcome and `FullWindow` turns into "at the threshold, the whole history is failures"; `EjectedAtThreshold`
says that an ejected node has its counter at the threshold, because a success resets both and the end of a cooldown
resets neither; `NoRecordNoPast` says that a target without a record has no history either, which is what
pruning must establish. None of the properties is inductive without these. The refinement maps a record to
"unknown", "open", "half_open" (not ejected, counter still at the threshold) or "closed": a health check maps to
a stutter, `Poll` to `Membership`, a tick to `Expire` of the nodes whose cooldown ends, and a report to
`Success` or `Failure`.

**Folds.** The models compute with folds over sequences: the texts of a batch, the groups of the batcher, the sums and the
shards of a split. What a fold computes for every sequence needs induction, and the provers cannot instantiate
an induction theorem that takes an operator. `SequenceFacts` has the operator, its base and the claim as CONSTANTS of the module
instead, so that a proof instantiates the module (`Joined`, `Sliced`, `Added`, ...) with its own. Its theorem `FoldInduction` rests on
`LeastNumber`, which is induction over the naturals as a fact about nonempty sets, and on `FoldAppend`, proved
from the definition of `FoldLeft`. The claims are written per module: `TextsInPlace`, `IsTotal`, `SlicesOf`, and so on.

**Proxy.** `CountersAreExact`: a step of a client takes it to a node, from one node to another or away, and moves the counters alike
(`Counted`, from the cardinalities of `OneMoves`); the invariant `CountInv` adds that a waiting request has a node it
called, and that targets are ids. The floor at 0 of `Dec` is never met, for a counter that is taken down counts the
client itself. `FailureIsTheLastResort` needs `Deserved`: a request waits for its first node having tried no other, and in the retry
for one that is not the first, so that a failure is told after two nodes or when `selectNode` found none outside the first one, that is, when
the nodes that stayed healthy all along are the first one or none.

**Coalescer.** `QueueIsWoken`: `NoLostWakeup` is inductive with `activeFlushes <= Parallel`, without which
the number of free slots may be negative. The core is lemma `FlushLeaves`: `maybeFlush` cuts as many batches
as there are free slots or as the queue holds, so that what it leaves waits for a slot; this is
arithmetic on the rounded-up quotient of queue length and target. `NoneLost` needs `PlaceInv`: no id is twice in the queue, in one batch,
in two batches, or in the queue and a batch. Its core is that the batches cut from the queue are disjoint slices that, with what
is left, cover it. `CountersNeverLeak` counts the flushes per node: a step adds new ones, moves one to its next candidate, or takes one off.
`FailoverBeforeRejection` keeps `OnItsWay` for each flush under way: its candidates are distinct, and those that are left
and those that failed add up to what it is owed; it rests on `MovedToFront`, by which the preferred node is no
candidate twice. `EveryoneGetsTheirOwn` is arithmetic on offsets: the place of a text in the combined body is the
offset of its request plus its index, which is what `AllTextsInPlace` proves by `FoldInduction`, so that an array with one vector per
text gives each caller its own. For a miscounted one, `ArraysAreOfTexts` says that no text has its vector in two places of the array, and
`SlicesDisjoint` that two callers' slices have no place in common; vectors of two batches are of different texts,
since no request is in two batches (`PlaceInv`). `FailuresEject` needs `HeardInv`: a run
of failures (5xx or no answer) at the end of what the backend did is no longer than `trafficFailures`, which `OneMoreHeard` shows to survive the
window; a full streak so finds the counter at the threshold. A garbled body ends such a run, since its success resets the
counter, and so does a refusal, though it counts as a failure: a longer counter does no harm to the bound.

**Bundles.** `SplitPartitions`: the ends of the shards never decrease and the last is the number of inputs, because sums of
rounded shares only grow and the last node takes the rest; leaving out empty slices leaves a chain in which each
shard starts where the one before it ends. `LoopComputesSplit`: after an iteration the shards of the loop are the fold over the nodes
so far, and its cursor the end of the last; a loop that ends early has nothing left, so that the other nodes get empty
slices. `LoopSharesFairly` brings the shares to a common denominator: a weight times its own latency plus one is the
same product for every node (`ProductOfOthers`), a rounded quotient is off by at most a half (`RoundOf`), and the
errors of the first `i` nodes add up (`ErrorsAdd`). A node takes what the nodes up to it want, less what those before it want, both
cut off at the number of inputs, which brings them no further from what is due (`ShareIsNear`); the shards give it just
that, nothing lost or given twice with the empty slices (`SlicesGiven`). `VectorsInPlace`: what is in the answer is in its place from the start, and a shard that was served has filled its
own; when all are served, the partition leaves no hole. `FailsForAReason` keeps, as in the coalescer, that the failed nodes of a shard and its
candidates add up. `ShardsAreCounted` counts pairs of bundle and shard, where the number of shards is bounded by the number of nodes.

**Batcher.** `EventIsExact` needs only that the sum of a longer queue is the sum plus what was added. `InOnePlace` needs `PlaceInv`, where
no request is twice in queue and groups and the groups are what `Grouped` made of a queue: a claim about a fold of folds, proved once by
`FoldInduction`: grouping keeps every request, once, with those of its key, in order. `FuturesSetOnce` and `FailureIsOneGroup` follow from it: the next one
to settle in the first group is pending, has the key of the group, and whoever has another key is in a group of its own behind it. `EveryoneGetsTheirOwn` is the arithmetic of offsets
again, with `Snap`: a dimension is cut down only where the group was computed at a larger one.

**Server.** `InfoIsFresh`: what must be kept is that the
model in an answer under way was served since the request came (`AsksInv`), and the model in the cache since
the cache was stamped (`CacheInv`); an older answer may replace a newer one, but the stamp is as old as the answer.
`PollsAppliedInOrder`: an interval longer than the timeout leaves at most one poll under way (`OnePoll`), so that it
began after the last one was applied.

**Gateway.** Both theorems rest on one invariant of a single request's record (`Good`), which its calls carry from one await to the
next. `Aligned`: the embeddings are increasing and none lies beyond the index, and while no array was short they are exactly the
tokens up to the index, or up to the last token; `NextReceived` shows that the next batch, cut off anywhere, keeps that.
`Finished`: what waits for TEI is not complete, and a sequence answered 200 is. For the counters, `Caused` says what a
record has added, `Adds` that the step of a request adds just what its record says more, and `StillCounted` that then every label
stays equal to the number of requests that caused it. No request counts twice, because the labels it adds are not among those it had caused.

**Only model-checked**: all liveness (`ImplementsBreaker`, `Readmitted`, `EverySubmissionSettles`, `EveryFutureSet`,
`TellsServedModels`, `StartsAnyway`, `ShutdownEnds`, `DiscoveryConverges`): temporal reasoning under fairness, and ENABLED, are out of
the provers' reach. What is safety in `ImplementsBreaker` is proved by `ImplementsCircuitBreaker`.

## 5. Findings

Each is a run that TLC ends with a counterexample; `PROJECT.json` quotes the lines.

1. `coalescer_refused`: `flushBatch` records every status but 200 as a failure of the backend, and the comment above it
   says that failures are 5xx and thrown errors, as does `health-checker.mjs:101`. A batch with one text that is too long, or
   with more texts than TEI takes in a call (`MAX_CLIENT_BATCH_SIZE`), is refused by every node, counts against each of
   them, and a few such batches eject a healthy pool. Shards of bundles do the same (`pool-router.mjs:594`).
2. `proxy_route_sequence`: the 501 of disabled sequence mode, which the README calls a normal answer, counts against
   the breaker and ejects backends that serve `/embed`.

Other places where comments and code differ, or where the code does what its reader may not expect, met while
modelling and not the subject of a run:

- Breaker: the outcomes of pinned calls and of `/info` are not fed back (`pool-router.mjs:442`, `:795`, against
  `health-checker.mjs:96`); a batch whose body does not parse is recorded as a success and then as a failure, so that
  such a backend is never ejected unless one failure is enough (`pool-router.mjs:174`, `:191`); a target that misses one discovery poll loses its ejection
  with its record (`health-checker.mjs:140`); a batch may fail over to a node ejected after it listed its
  candidates (`pool-router.mjs:137`).
- Coalescer: small requests that meet an empty queue are queued too (`pool-router.mjs:212`, against line 41); a flush takes
  `Target` *requests* while the comment sizes the backend's permits by *texts* (`:128`, against lines 102-103); the number of
  vectors is not compared with the number of texts, so that callers are answered 200 with the vectors of others, or with too few
  (`:176`, against `README.md:155`; `/embed/bundle` compares, at `:678`); batches and shards forward `inputs` alone and drop
  the callers' `truncate` (`:152`, `:580`), and the query string with its `model` is dropped on every path of the pool.
- Bundles: rounding can give the slowest node the larger shard (`pool-router.mjs:658`); inputs that are not strings
  are dropped, so that there are fewer vectors than inputs (`:637`).
- Pool server: `/info` answers from its cache before it looks for a healthy node (`:785`, against the 503 of lines 780-782), and
  neither the gateway nor the Jina server has an `/info`; requests that come 2.5 s after the start may find the first
  checks, of 2 s each twice, still under way (`:845`); the grace of 5 s is shorter than the timeout of 30 s of a call (`:867`); an error in a handler or in `listen` ends the process
  at once, with the exit status 1 of a forced shutdown;
  discovery polls overlap when the interval is set below 10 s.
- Metrics: the in-flight gauge is always 0 (`:767`); the time of the last successful poll moves only when the list
  changes (`pool-metrics.mjs:50`); the counter of proxied requests also counts the tags `retry` and `fast-pref`; the
  duration summary repeats a series for each status.
- Gateway: `/metrics` is answered 200 and counted with TEI's status (`server.mjs:312`); the number of vectors of a
  batch is not checked (`:238`); the second 400 of `handleSequence` cannot happen (`:216`); each call of a sequence has the
  whole timeout for itself, so that the router may give up first.
- Jina server: `embed_multi_vector` takes no GPU lock (`server.py:388`).

## 6. Not modelled, and the plan

In order of importance:

1. The router as a whole: proxy, coalescer and bundle on one health checker and one set of counters. Until then
   each runs beside the health checker alone; what other paths would do to a record is covered by the
   arbitrary traffic of `PoolHealth`. Likewise `Lifecycle` replaces the target list and `HealthChecker` takes any list.
2. `SelectNode`: the score by latency and load, the latency band and the round robin in it, as functions.
3. Two ids for one backend, a static one and a discovered one: what a retry is worth then.
4. The NER server's start-up and the counters of the Jina server's `/health`.

Left out for good: parsing and forwarding of bodies and headers, logging, rendering of status pages, the NER
server (stateless), container and deployment files. The tests were read as documentation.
