# A TLA+ model of distributed-layer-inference

This directory models the repository's running system: a language model cut
into partitions of consecutive layers, one inference stage per partition, a
gateway that drives the stages token by token, and an operations UI that calls
the gateway and keeps the runs. There are two data planes, a native one (C++)
and an older Python one; both are modelled. All definitions are translated from
the source, and `PROJECT.json` names the lines of each (`map`), the runs, a
mutant for every checked property, the hazards of the code and the findings.

Run a check with `tlc -config X.cfg M` (for instance
`tlc -config ModelRollout.cfg MCModelRollout`), a proof with `tlapm M.tla` for a
module whose name ends in `Proofs`.

Contents: [inventory](#1-inventory) · [modules](#2-modules-and-how-they-follow-the-code) ·
[runs](#3-runs-what-each-asks-and-shows) · [bounds](#4-bounds) · [fairness](#5-fairness) ·
[proofs](#6-proofs) · [findings](#7-where-the-code-departs-from-its-documents) ·
[not modelled](#8-not-modelled) · [plan](#9-plan)

## 1. Inventory

| component | state | operations | interacts by |
|---|---|---|---|
| Native stage, forward broker (`dli_stage_cpp/src/server.cpp` 102-229) | a deque bounded by `max_queue_size_`, `stop_requested_`, one worker thread, one promise per job | `submit`, `run`, `stop`, construction | mutex + condition variable; futures to the connection threads |
| Native stage, sessions (`llama_partial_runtime.cpp`) | `sessions_`: request id → `seq_len`, `valid`, per-layer K/V rows | `forward` for source, intermediate, terminal partitions; create, reset, prune | called by the broker's worker only |
| Native stage, CPU executor (`llama_cpu_executor.cpp`) | K/V vectors inside a session, sampler state | run a layer, attend, sample | called by `forward` |
| Native HTTP client (`http_client.cpp`) | one keep-alive socket | `post_binary` = one attempt and one retry; the socket is closed when the first attempt fails, not when the second does | gateway → stage, stage → next stage |
| Native gateway (`dli_gateway_cpp/src/server.cpp`, `generation_loop.cpp`) | `generation_mutex`, the generation in progress | prefill, decode steps, hop through the partition graph | HTTP to stages, HTTP from clients |
| Stage map, configuration of gateway and stages (`config.cpp` of both, `stage_map.yaml`) | the partition graph, read at start | two line parsers, validation, the walk along next URLs | a config map in the cluster |
| Native tools (`dli_tools_cpp`) | a work directory of manifests, shards and artifacts; the artifact repository of the hub | `prepare`: download, split, manifests, shards, validation, collection, clone, push, activation payload | processes, git, files |
| DLI2 frames, metadata, metrics (`dli_common_cpp`) | none | encode, decode, merge | pure functions |
| Python stage (`inference_stage/app.py`, `kv_cache_stage.py`) | `StageKVCacheManager` (LRU of KV caches), `StageForwardCache` (LRU of answers) | `/forward`, `/forward-binary` | thread pool or event loop; two locks and one lock per entry |
| Python gateway (`inference_gateway/app.py`, `persistent_backpressure.py`, `generation_loop.py`) | `_inflight`, `_waiting` of the guard | `/generate`, `/chat` | thread pool, condition variable |
| Ops UI server, history (`ops-ui/server.js` 766-986, 2685-2778) | `historyEntries`, `metrics-history.ndjson`, `historyWriteChain` | GET, POST, DELETE `/api/history`, lazy load, compaction | promises of one event loop |
| Ops UI server, invoke (`ops-ui/server.js` 1800-2367) | `IN_FLIGHT_INVOKES`, a `kubectl port-forward` child | call a pod, fall back to port-forward | fetch, child process |
| Ops UI server, model preparation and activation (`ops-ui/server.js` 1316-1565) | the preparation jobs, the cluster's config map and deployments | start a job, patch the config map, restart deployments one by one | kubectl |
| Deployment (`k8s/native/deployments.yaml`) | one volume per deployment with a cached file; one replica, rolling update | init container, container start, restart | the kubelet |
| Ops UI pages, Python feature modules, splitter, baseline | see [not modelled](#8-not-modelled) | | |

**What is hard here.**

* *Concurrency.* Connection threads, one worker and the destructor share the
  broker. Notifications are sent after the mutex is released. The Python stage's
  flow takes three locks one after the other, and what it checked under one may
  be false under the next. The UI's server yields at every `await`.
* *Retries.* A call that times out is sent again while its first copy is still
  being executed; the stage cannot tell a copy from a new step. After the second
  attempt the client keeps its connection, and whoever calls on it next reads the
  answer that is late. The UI does the same with a whole generation.
* *Loss.* A stage that restarts has no sessions and says nothing about it; the
  session limit evicts sessions that are in use.
* *Partial failure.* `seq_len` moves before the layers run. One hop may fail
  after others have advanced. A layer may throw after others have appended. One
  failed write poisons a promise chain, and a failed load of the history leaves an
  empty array that counts as loaded.
* *Leavings.* Work directories and volumes are never emptied; what an earlier
  run or an earlier model left there is used by the next one.
* *Rollout.* A config map and several deployments change one after the other, and
  nothing keeps two activations apart.
* *Order of construction.* The broker's thread starts before the flag it reads
  is initialised.

**What makes each component correct.** Broker: every admitted job is answered
once, in order, nobody waits for ever, the backlog is bounded. Sessions: a
generation finds what it fed, however others interleave. Pipeline: the tokens
are those of a single-stage run; retries are bounded; every generation ends.
Guard: one guarded generation, no missed wakeup, refusals only when busy.
Python stage: an answer is computed over exactly the steps before it. Memory of
a stage: the transposed copy of V equals V, a seeded stream reproduces.
Preparation: what is pushed is whole, of one build, and loses nobody else's push.
Rollout: a completed activation reaches every pod, and pods under one stage map
hold the whole model. History: array and file agree, ids are unique, only chosen
records go. Invoke: the key follows the open call, and every call is answered.

## 2. Modules and how they follow the code

```
ForwardService  <== implemented by ==  ForwardBroker          <-- ForwardBrokerProofs
      (its line is the queue of a stage in NativePipeline)
StageRuntime                                                  <-- StageRuntimeProofs
      \-->  StageSessions  -->  StageMemory                   <-- StageSessionsProofs
      \-->  NativePipeline                                    <-- NativePipelineProofs
      (both build on the lemmas of StageRuntimeProofs)
StageMap                                                      <-- StageMapProofs
      \-->  TensorPlan  -->  ModelPreparation                <-- ModelProofs
                       \-->  ModelRollout                    <-- ModelProofs
      (both build on the lemmas of StageMapProofs)
SingleFlight    <== implemented by ==  GatewayBackpressure    <-- PythonProofs
LruMap        -->  PythonStage                                <-- PythonProofs
OpsHistory    and  OpsInvoke (with the gateway's mutex)       <-- OpsServerProofs
```

Four of the instances need values that a configuration cannot write
(`MCModelPreparation`, `MCModelRollout`, `MCPythonStage`, and `MCOpsHistory` for
its symmetry); the others are checked directly. An operator that stands in front of the one it varies
(`ReseedAlways` in front of `Reseed`) is a plausible error in the code at that
place; `PROJECT.json` says which property finds it out.

**ForwardService** (abstract) says what the broker promises: a bounded line
served one at a time in order, each admitted forward answered once, an
overloaded or stopping stage answering at once.

**ForwardBroker** is `class ForwardBroker`. A critical section of `mutex_` is
one action; `notify_one`/`notify_all` are actions of their own since the code
calls them after unlocking. `handler[c]` is a connection thread in
`submit()`/`get()`, `worker` the thread in `run()` (`"checking"` = about to
evaluate the wait predicate with the mutex, `"parked"` = in `wait`), `stopper`
the destructor in `stop()`. A job is named by its connection thread, which is
blocked until the job is answered. Members are initialised in declaration
order and `worker_` (line 227) comes before `stop_requested_` (line 228), so
`Init` lets the flag hold any value of `Garbage` until `FinishConstruction`:
the read of an uninitialised value is a choice over what the storage can hold.

**StageRuntime** holds operators on the map `sessions_`. `SessionFor` is
`session_for_request` with `prune_sessions_except`, `Advance` is
`update_kv_cache_for_request`, `Forward` a whole forward with its three outcomes
(done, thrown before the rows were complete, thrown after). Numbers are
abstracted to what can be wrong with them: an input vector carries the position
of the reference run it equals, or `Stray`; a K/V row is `"ref"`, `"off"` or
`"gap"` (zeros of a `resize` that no layer wrote). **StageSessions** runs these
operators over the life of one stage: interleaved generations, forwards that
throw, requests that the bookkeeping calls invalid and serves all the same,
restarts. **StageMemory** superposes on every one of its actions what the
executor keeps beside the rows: `cache.v_t`, the transposed copy of V with its
capacity (`Attend`, `Regrown` are the lines of `attention()`), and the random
stream of the terminal stage (`Reseed`, `Drawn`), which starts anew whenever a
session is at position 0.

**NativePipeline** composes gateway, calls and stages. `gw` is the local state
of `run_stub_generation` and `forward_through_partition_graph`, with the
minimum and maximum of tokens and the stop markers; `call[c]` is a
caller in `post_binary` (0 is the gateway, *s* the worker of stage *s*);
`inbox` the connection threads that have read a request; `queue`/`worker`/
`sessions` the stage. `from` of a job says who reads its answer: the caller that
waits for it, `Nobody`, when its connection has been closed, or `Late`, when the
call is over and the connection is still open. `post_binary` closes only after
its *first* attempt (`Closes`, `Closed`); the second is outside its `try`, so
that a worker, whose client lives as long as its process, keeps a connection on
which an answer is outstanding (`Abandons`, `GivenUp`; the gateway's client is
destroyed with the generation that fails). A late answer is read by a call that
waits when it comes (`Overtaken`), and that call's own becomes late in turn
(`NowLate`); or it lies in the connection (`unread`) until the next call is sent
and reads it (`SendAndReadLate`). The connection may have the requests of
another generation by then; what is read counts as `disturbed`. A connection
thread reads its next request after it has answered the one before
(`Unanswered`). `Dies` closes what the dead worker had open. Each generation chooses its
topology, as the request field `native_stage_chaining_enabled` does: the gateway
calls each stage in turn, or a worker calls the next stage while it holds its
own job. `RestartInReply` is a stage that dies while it sends: the client takes
what has come for the whole body, sends nothing again, and `decode_frame`
throws. The queue of a stage is the line of `ForwardService`, which
`ForwardBroker` implements.

**StageMap** is `stage_map.yaml`: how `split_layers` and `generate_stage_map`
write it, and the two line parsers that read it, each line by line with its
cursor and its flags, the gateway's and the stage's; `validate_partition_graph`
and the walk of the gateway through the graph. A file is a sequence of lines
[indent, key, value]; a parser is a function over the numbers of lines read so
far, so that it can be reasoned about. **TensorPlan** is what the tools do with it: the required
names and prefixes of a partition, which tensors of a model they match, the
manifest, the shard, the validator's comparison and the one the stage's runtime
makes when it loads a shard.

**ModelPreparation** is `dli-native-model-controller prepare` with the three
tools it runs and the upload: several runs at once, in work directories of
their own (a job of the UI) or one after the other in a directory that others
have left behind. A run may die at each step, the tools also between two files.
`Leaves` is such a step, and `Written` what it makes of the files that are there. `NotWritten` is the shard writer ignoring what
`gguf_write_to_file` returns; `Pushed` is git refusing a push that is no
fast-forward. With `--no-upload` a run goes from the collection straight to the
payload, which it prints all the same; a payload carries whether its run uploads.
The source repository may publish other tensors under the same revision meanwhile.

**ModelRollout** is `activateNativeModel`: the patch of the config map, then
the restarts of the deployments one by one, each a kubectl call that may fail
before or after it took effect; and what the deployments make of it: a rolling
update, init containers that keep a file that is there, containers that read the
map when they start, check their shard, end and start again. An init container
whose repository has no file for its stage fails and is tried again (the guard of `InitStage`).
So does the gateway's under the map of any activation (the guard of
`InitGateway`): the name of its file contains the directory of the slug, and
nobody makes that directory on the volume.
The module names its specification `RolloutSpec`, so that it can stand beside
`ModelPreparation` in one module of proofs.

**SingleFlight** (abstract) and **GatewayBackpressure**: the guard's `acquire`
and `release` with the condition variable, and `/generate` and `/chat` around
them. Barging (a newcomer takes the free guard before a woken waiter), the loop
around `wait()`, capacities that differ between requests, requests without the
flag, and what `/chat` does between `acquire` and `try` are all there.

**LruMap** is an `OrderedDict` used as an LRU map (a removal is said by the
place of the key, so that it can be reasoned about), **PythonStage** the forward
flow with both caches. Between two steps of a thread no lock is held.
`/forward` interleaves (several threads), `/forward-binary` is `async` code
without awaits in its flow, so it runs alone (one thread). A forward may throw
before a layer has appended or after some have (`Throw`): the answer is 500,
nothing is remembered, and the cache object keeps what was appended (`Torn`).
`spoilt` is a history variable for the properties: whether a decode step of a
session was torn, its entry was evicted between check and use, two copies of a
step ran at once, or an answer was forgotten. The executor's
package `stage_runtimes.python_legacy` is not in the repository: what it does
to a cache object is taken from how `app.py` uses it.

**OpsHistory**: one step is what Node does between two awaits. `chain` is
`historyWriteChain`, `job` where its head is, `writeFile` is a truncation and a
write. The load may fail (`LoadFails`: the array is empty and `historyLoaded`
stays true), so may an append (`AppendFails`) and a rewriting, before or after it
has truncated the file (`RewriteFails`: the array has changed already, and the
chain is rejected from then on). The server may stop before any step, with
requests in progress (`Restart`); a request whose record is in the file by then
but which got no answer is `"halfway"`. `mishaps` and `astray` are history
variables: what has gone wrong so far, and whether array and file have been
separated in this run of the server. A client posts one record, deletes any ids it was shown, clears all, or
reads; what a deletion leaves (`Kept`) is said by the rank of what stays
(`Nth`) rather than by a filter, so that it can be reasoned about. **OpsInvoke**: `handleInvoke` for one lock key, its first attempt, its
second through a `kubectl port-forward` child, and `stopChildProcess`; with it
the gateway's connection threads at `generation_mutex`.

## 3. Runs: what each asks and shows

| run | instance | what it shows |
|---|---|---|
| `broker` | 4 threads, a queue of 2, both values of the uninitialised flag | no job is lost or answered twice, the backlog is bounded, no wakeup is lost, the broker implements `ForwardService`. If the flag held false, `stop` drains the queue and every admitted forward is answered; whatever it held, a forward hangs only when the worker has left `run()`, and `stop` returns |
| `sessions` | 3 generations, room for 2, with the memory of the stage | a generation that was not evicted, lost or left half done finds exactly its positions; eviction only makes room; no unwritten rows are read; the transposed copy of V equals V through growth, throws and repeated positions; the *n*-th token is drawn with the *n*-th number of its stream |
| `pipeline` | 2 stages, 2 generations of either topology, with and without a minimum of tokens, 2 faults (lost calls, timeouts, throws, restarts, cut answers) | stages advance in lockstep, and tokens and their number are the reference's unless a timeout, restart or eviction hit that very generation or one of its calls read a late answer; a caller waits for one answer at most, and a connection owes at most one that is late, none between the attempts of a call; stage *s* of a chain executes a decode step at most 2^*s* times; every generation ends, so the gateway's mutex is given back |
| `preparation` | 2 runs of 8 option sets (one with `--no-upload`) over 2 source models, a republished source, one shard file not written | what is pushed has exactly the shards of its map with the layers and tensors the map says, from one build of the model unless a shard file could not be written; no push loses another's; what the payload of an uploading run activates has been pushed, and every printed payload routes through every layer, for both parsers |
| `rollout` | 2 activations of 4 payloads on 2 stages, a crash, a cut download | a completed activation reaches every pod, whatever other activations do; when all pods serve under one stage map they hold the whole model |
| `guard` | 3 threads, capacities 0, 1, 2, chats that leak the guard | the counters tell the truth, a free guard wakes its waiters, it implements `SingleFlight`, and every request ends once no new ones arrive unless the guard has leaked |
| `pystage` | the binary route with two requests, a KV cache of one and every step sent up to twice; the JSON route with two threads and a KV cache of one; one request whose copies run beside each other with answers that are forgotten; throws in all of them | the answers of an undisturbed session are computed over exactly the steps before them, whatever happens to the others; a repeated step never appends to its live cache a second time |
| `history` | 4 requests, 2 old records, a limit of 2, two failing file operations (load, append, rewriting), two restarts at any moment, no request during a load | ids are unique until a load fails; file = array at rest unless a load or a rewriting of this run failed; only chosen or outdated records go until a load fails or a rewriting is cut |
| `invoke` | 2 calls, timeouts, kubectl exits and signals | the key follows the open call, no child is orphaned, every accepted call is answered unless its kubectl died of a signal, the gateway works off abandoned generations |

Three more runs, `pipeline_reference`, `rollout_serves` and `history_early`, are
[findings](#7-where-the-code-departs-from-its-documents): TLC violates their property.

Runs without a deadlock check are those of systems that may stop: all requests
served, all activations ended, no fault left to happen. `broker` and `guard`
check for deadlock.

## 4. Bounds

Every bound is a constant that appears in a guard.

* *Broker.* Four threads against a queue of two leave room for one job executed,
  two queued and one refused; a fifth thread adds only another refusal. The
  proofs remove this bound.
* *Sessions.* Two sessions and three generations: the session of a third must
  push one out, and which one depends on the order of the keys. `MaxLen = 3` is
  a prefill of two and a decode step, or one of one and two; `MaxFaults = 2`
  lets an odd request follow one that threw. With `MinCapacity = 1` (16 in the
  code) the copy of V grows at the second and at the third position. The proofs
  remove these bounds.
* *Pipeline.* Two stages are the first, which is fed by the gateway, and the
  terminal one; in a chain the first is caller and callee. Two new tokens are
  one prefill and one decode step, and the stop marker at the first token is
  obeyed or put off by the minimum. Two generations let calls of the first
  outlive it, in the other topology too; room for one session makes each evict
  the other's. With two faults the bound of `RetryAmplification` is attained at
  stage 1; stage 2 gets to three of its four executions, the fourth needs a
  third fault. `pipeline_reference` has three tokens and one fault, so that a
  step follows one that went wrong.
* *Preparation.* Two runs: one that leaves something and one that finds it, or
  two that race to push. The options cover more and fewer stages than the run
  before, another slug, a directory of its own and each refusal. Three runs with
  `MaxBadWrites = 0` pass as well (half a million states).
* *Rollout.* Two activations: one that completes and one that interferes. The
  payloads differ from the deployed one in their layers per stage, in their
  model only, and in their number of stages; three have shards where the init
  container looks for them, one of them for the first stage only.
* *Guard.* Three threads: one inside and two that wait, or one that waits and
  one that barges or is refused (a thread that left may come back).
* *Python stage.* Two copies are a step and its repetition. The serial setting
  has one KV entry for two requests, so that a prefill evicts the other's
  session; answers of both requests and both steps fit. The threaded ones have
  one entry and two threads: in one an eviction may come at any moment of the
  other's flow, for three steps; in the other a step and its copy, or a late copy
  and the next step, are executed side by side, and the cache of answers forgets.
* *History.* A limit of two and two old records: every post overflows it. Four
  requests are two that change the array and file, one that fails beside them and
  one after a restart. Two faults and two restarts: a failed load or rewriting
  and another failure in the run after it. The requests are symmetric
  (1.7 million states with the symmetry).
* *Invoke.* Two calls: the second is dropped, or comes after the first while what
  the first left at the gateway is still there.

## 5. Fairness

* *Broker.* The scheduler runs a thread that can run (`Park`/`Exit`/`Take`,
  `Notify`, `Collect`, `NotifyStop`, `Join`), and a job ends because every
  socket carries `SO_RCVTIMEO`/`SO_SNDTIMEO` and the layers are loops. Clients
  need not send, the variable need not wake spuriously, nobody need stop.
* *Pipeline.* One weak fairness condition, of `Progress`: while a thread can run, one
  of them does. The operating system gives every thread more than that, and it
  is enough. Faults are not fair: nothing obliges a
  call to fail. `Timeout` counts against `MaxFaults`, so a run in which an
  answer simply never comes does not exist; the code's timeouts make that so.
* *Guard.* Strong fairness is not needed; `EveryRequestEnds` has the premise that from some
  time on no more requests arrive, because newcomers may barge for ever.
* *Invoke.* Callbacks and timers run, `kubectl` obeys SIGTERM, and a generation
  ends, which is `GenerationEndsAtLast` of the pipeline. Nothing makes the
  browser call or `kubectl` die.
* *Preparation, rollout, Python stage, history*: safety only. A rollout need not
  come to an end in the code: a stage whose shard does not fit the active map
  fails to start for ever.

## 6. Proofs

The proofs hold for every value of the constants that the named assumptions
allow, without the bounds of section 4.

`ForwardBrokerProofs` proves of `ForwardBroker`, for every set of threads,
queue size, set of results and every value the uninitialised flag may hold:

| theorem | states |
|---|---|
| `TypeCorrect` | `Spec => []TypeOK` |
| `JobsConserved` | `Spec => []JobConservation` |
| `BacklogBounded` | `Spec => []BoundedBacklog` (for finite `Conns`) |
| `WakeupsNotLost` | `Spec => []NoLostWakeup` |
| `BrokerImplementsService` | `Spec => Service!Spec` |

The assumptions are those of the module (`BrokerAssumption`: a positive queue
size, numeric results, a `None` that is neither a thread nor a code).
None of the invariants is inductive alone. `JobConservation` needs the types
(who `current` is, that the queue holds threads) and the fact that a thread in
`"notifying"` may already have been answered: its job is taken between the
unlock and the `notify_one`. `NoLostWakeup` needs that the only action that
parks the worker does so with an empty queue and a flag it read as false, and
that a flag that was garbage is overwritten only while nothing can be queued.
`BacklogBounded` counts: unanswered threads are the threads of the queue and
of the worker, and there are `MaxQueueSize + 1` of them at most, by mapping the
positions of the line onto the threads. The refinement maps the step of every
action to a step of the service or a stutter: `Enqueue` is `Admit` (the
queue test is `Len(line) <= MaxQueueSize` in terms of the line), `FinishJob` is
`Serve`, `Take` is a stutter because the line is `<<current>> \o queue`.

The first part of `PythonProofs` proves of `GatewayBackpressure`, for every finite
set of threads and every set of queue capacities that has a largest one
(`GuardAssumption`):

| theorem | states |
|---|---|
| `TypeCorrect` | `Spec => []TypeOK` |
| `GuardIsExclusive` | `Spec => []OneGuardedGeneration` |
| `WakeupsNotLost` | `Spec => []FreeGuardWakes` |
| `GuardImplementsSingleFlight` | `Spec => Promise!Spec` |

The inductive invariant is `TypeOK /\ OneGuardedGeneration /\
InAcquireIsGuarded`. The types are not inductive alone: that `_waiting - 1` is
not negative needs that `_waiting` counts the waiters, of whom the leaving
thread is one, and that it stays below the largest capacity needs that whoever
waits carries a capacity from the set, which is `InAcquireIsGuarded`. The
lemmas on `Waiters` say which actions change that set, so that each action's
step is about one cardinality at most. `AcquireFree` maps to `Enter`,
`AcquireWaits` to `Queue`, `AcquireAfterWait` to `Turn`, a guarded
`GenerationDone` to `Leave`, everything else to a stutter.

The rest of `PythonProofs` proves of `PythonStage`, for every set of request ids
and of threads (`PythonStageAssumption`):

| theorem | states |
|---|---|
| `StageTypesCorrect` | `StageSpec => []StageTypeOK`, the bounds of both caches included |
| `AnswersAlwaysReference` | `StageSpec => []OkAnswersAreReference` |
| `LiveCacheAlwaysAppendsOnce` | `StageSpec => []LiveCacheAppendsOnce` |

They hold for every setting: any number of threads, copies, KV entries and
remembered answers, with the cache of answers on or off. The last two are about
undisturbed sessions. What disturbs a session (`Undisturbed`) is that a decode
step of its own threw after a layer had appended, that its entry was evicted
between the 409 check and `get_or_create`, that two copies of one step ran at
once, or, where steps are sent again, that there is no cache of answers or it has
forgotten an answer of that session. Each of the four does break the
two properties in the code (section 7); the theorems say that nothing else does,
and that no session suffers from what happens to another.

The induction is over `StageInv`. An answer is right if the live cache object is,
and that is right if no step was executed on it twice or on an object made anew
in between. `CacheRight` says what a live object holds: the steps that its client
has answers to, and the one the client is at if it has been executed already
(`Ran`: the answer is remembered, or on its way back). `FlowRight` carries what a
flow has read across the places where no lock is held. That the step a flow
executes is the one its client is at, and not executed yet, comes from `Once`
where steps are sent once (one copy at most is under way), and elsewhere from
`Remembered` (the answers to all executed steps are there, so that a late copy
never gets past `AskAnswers`). These parts (`Sound`) are claimed of undisturbed
sessions only; `Owned`, that no cache object is that of two requests, is claimed
of all, since a disturbed session must not reach another's object. `Elsewhere`
is the frame of a step of another request, and `Others` applies it to the steps of
a flow: each action's proof is then about its own session. The lemmas on ordered
maps before it (`WithoutShape`, `WithShape`, `TouchShape`, `NewestShape`,
`PutShape`) say which entries each operation leaves. `StageTypesCorrect` has an
invariant of its own, `WellFormed`.

`StageSessionsProofs` proves of `StageSessions`, for every set of request ids,
every session limit, every length of prompts and generations and any number of
faults (`RuntimeAssumption`, `SessionsAssumption`):

| theorem | states |
|---|---|
| `TypeCorrect` | `Spec => []TypeOK`, the session limit included |
| `NoHolesAlways` | `Spec => []NoHoles` |
| `CacheFollows` | `Spec => []CacheFollowsClient` |
| `EvictionMakesRoom` | `Spec => EvictsOnlyForRoom` |

Its lemmas about the operators of `StageRuntime` are in `StageRuntimeProofs`,
where the proofs about `NativePipeline` find them too. Two of them carry the
eviction. `RetainedFits`: the smallest session that stays
has fewer than `MaxSessions - 1` larger ones, so no more than that stay beside
the requester's. `RetainedFull`: of the sessions that go, one with the fewest
larger ones has only staying ones above it, and there are at least
`MaxSessions - 1` of them. `ForwardShape` reduces a forward to its effect on the
one session of its request and a restriction of the map; `WriteRowsShape` says
what the layers' writes leave as it was and what they complete;
`PrefillFaithful`, `DecodeFaithful` and `OddFaithful` follow one session through
the three kinds of forward. The invariant adds to the checked ones that the map
is finite and its sessions are records.

The second half of the module carries the theorems over to a stage with its
memory (`MemoryIsSuperposed`: `MemorySpec => Spec`), so that the four hold of
what the run `sessions` checks, and proves

| theorem | states |
|---|---|
| `SeedIsReproduced` | `MemorySpec => []SeedReproduces` |
| `TransposeAlwaysAgrees` | `MemorySpec => []TransposeAgrees` |

for every set of request ids, session limit, smallest capacity of the copy
(`MemoryAssumption`) and number of faults. The invariant adds that a memory exists for exactly the sessions there are and that draws are
counted by naturals; the step of a decode needs `CacheFollowsClient`, since only
a session that is there and is not at position 0 keeps its stream. For the
transposed copy the invariant (`CopyInv`) adds that the buffer holds zeros past
the rows of the session: a later `resize` skips positions, and nothing else
would say what the buffer has there. Within a forward, `CopySoFar` is the loop
invariant over the positions written so far; that the loop's function exists and
that the invariant holds to its end is shown by the smallest number for which
it would not (`SmallestNat`), which stands in for induction.

`NativePipelineProofs` proves of `NativePipeline`, for every number of stages,
choice of topologies, queue size, session limit, prompt and generation length
and number of faults (`PipelineAssumption`, `RuntimeAssumption`):

| theorem | states |
|---|---|
| `PipelineTypeOK` | `Spec => []TypeOK`, the queue bound and who listens to what included |
| `PipelineKvLockstep` | `Spec => []KvLockstep` |
| `UndisturbedAlwaysReference` | `Spec => []UndisturbedIsReference` |

The argument is an induction in layers, each over the ones before.

*Lines* (`LinesAlways`) says how calls and requests fit together. A caller
listens to one request of a stage at most (`HeardOnce`), and that request is the one the caller has posted
and waits for (`AllExpected`). A caller that gave up and called again leaves its first
request behind in the inbox, the queue or the worker of the stage, and the step
that forgets a listener has to be shown to forget the right one.

*Owed* says what a connection may still owe: one late answer at most, a request
that is not answered yet or an answer that lies unread, only to a worker, and
never between the two attempts of a call, since the first one that fails closes
it. The request of the call that waits behind a late one is still in the inbox
(`Unanswered`). So whoever reads an answer (`Reader`) waits for one, and the
answer is its own or a late one; the second disturbs the generation that reads it.

*Whole* (`WholeAlways`) is about a generation that no timeout, restart,
eviction or late answer has disturbed. Neither `KvLockstep` nor `UndisturbedIsReference` is
inductive: what matters is not only where the sessions are but what is still on
its way. `AllCurrent` says that every request with the id of an undisturbed
generation has a listener in an unbroken line up to the gateway, `NoneLost` that the
request of a waiting call exists; together they give `Exclusive`: one stage at a
time is at work for the generation. `Generating` then names the stage `k` the
step has reached: the sessions up to `k` hold one step more than those behind it,
the frame is what `k` stages make of the tokens so far, and either the request
at `k + 1` is on its way or the generation is `Doomed` to end in an error.
`Untouched` gives the start of the next generation: no stage knows its id, whatever
answers the connections between the stages still owe. What a step writes into the
results (`Ledger`) is nothing, an error, or the next token, of which the first
two need no more than *Lines*.
The lemmas of `StageRuntimeProofs` are what turns a forward into a step of `k`.

`StageMapProofs` is about the stage map, and begins with `split_layers`:

| theorem | states |
|---|---|
| `RangesAreConsecutive` | the cursor runs from 0 to the number of layers, by the size of each stage |
| `RangesAreDisjoint` | no layer goes to two stages, and no stage goes without |
| `EveryLayerIsAssigned` | each layer goes to a stage |
| `GeneratedLayersAscend` | the layers of the stages end to end are 0 to the last, in order |
| `GatewayReadsWhatIsWritten` | what the gateway's parser makes of a map, for every slug, every number of layers and every sequence of layer lists |
| `StageReadsWhatIsWritten` | what the stage's parser makes of it, for every id of the list |

The first four hold for every number of layers and of stages that `split_layers` accepts. Its
cursor is brought into closed form with quotient and remainder; the cursor is
monotonic, so that two ranges are disjoint; and a layer is found by dividing it by
the size of the stages that are one layer larger, or of the others.

The last two are about two line parsers with flags, run over a file of any
length. `Reads(who, start, file, end)` says that a parser, the gateway's
or the one of the stage `who`, comes from `start` to `end` over the lines of
`file`. Readings compose (`ReadsOn`): a reading of one piece and one of the next
make a reading of both. The pieces are the header, the start of an item, its list of
layers, its end, and all of the other items, which a stage's parser passes over
(`ItemIsRead`, `GatewayReadsItem`, `OwnItem`, `OtherItem`). What holds after `n` items or `n` layers is
carried to all of them by the smallest number for which it would not
(`SmallestNat`); the same argument gives the function that a parser is
(`ReadsOnce`) and the steps of `FlattenSeq` (`FlattenStepwise`), since the
definition of a recursive function says nothing until such a function is shown
to exist. `ReadOfWritten` and `WalkIsInOrder` sum it up for the two modules
below: what the gateway accepts of a map that is written so, and that its walk is
1 to the number of stages.

The first half of `ModelProofs` proves of `ModelPreparation`, for every set of
runs, options, source models, builds and unwritten files
(`PreparationAssumption`: a run is not the shared directory, an option names a
published model, `own` and `upload` are flags, and the numbers given on the command line or
read from a model are integers, of any sign):

| theorem | states |
|---|---|
| `PushesKeepOtherSlugs` | `Spec => []PushKeepsOtherSlugs` |
| `PrintedPayloadsArePublished` | `Spec => []PayloadsWerePublished` |
| `PublishedAlwaysWhole` | `Spec => []PublishedIsWhole` |
| `PublishedAlwaysOneBuild` | `Spec => []PublishedIsOneBuild` |
| `PayloadsAlwaysRoute` | `Spec => []PayloadsRouteEveryLayer` |

The second is about the payloads of runs that upload: with `--no-upload` the same
payload is printed and nothing is in the repository.

The first two come from `PrepInv`, which follows a run through its steps: what it has collected
stays in its directory until it has pushed it, because no two runs that are
under way share a directory (`OwnDirectories`, which a new run's guard keeps);
its base is a commit, and after the push its map is in one. The repository only
grows (`StepKeeps` is the frame of every step). A commit differs from the
previous one in one slug because a push is refused unless its base is the last
commit, and because there is no commit when nothing differs.

The other three come from `Sound`, an invariant about files. Nothing is ever
removed from a shared work directory, and so the question is what leavings
cannot do. `WorkSound` says what any directory may hold, whichever runs have
been at it: shards and artifacts only of partitions that have a manifest. `RunSound` is what
the run at work has achieved there, step by step: the manifests of its map made from its
model (`Listed`), then the shards stamped with its build, then that the
validator has passed (`Validated`). The heart is `ValidIsGood`: the validator
compares each manifest that lies there with the map and refuses a partition
that the map does not have, and that alone keeps a manifest of a run with more stages
from being published. `WholeWhenValid` counts out the tensors of the model over
the parts of a split (`PartHas`, `ModelCovers`). `OneBuild` has the premise that no
shard file could not be written, since the validator compares names and not data. TLC
has checked `Sound` on all the states of the run `preparation`.

The second half proves of `ModelRollout`, for every number of stages, every set
of activations and any number of crashes and cut downloads:

| theorem | states |
|---|---|
| `PodsFollow` | `RolloutSpec => []PodsFollowConfig` |
| `ReadyPipelineAlwaysWhole` | `RolloutSpec => []ReadyPipelineIsWhole` |

The payloads may be any for which `CatalogAssumption` holds: a map is
written as the controller and the UI write theirs, for stages that have the layers in order;
and what lies at the root of a repository was made from a model that has the tensors
of those layers, as `has_missing_tensors` sees to.

`PodsFollowConfig` is about completed activations; the invariant `FollowSoFar`
says it step by step: of the activation that patched last, the deployments it is
done with follow the config map. A failing kubectl call that has taken effect
keeps it, since it only ever asks for another pod.

`ReadyPipelineIsWhole` is about pods that serve under one map, whichever way they
came to that. `ShardsFit` says that a volume is empty or holds what was made for
that stage from some payload, not the active one, possibly cut; and that a
serving pod's shard has passed the comparison of `Loadable` with the item of its
map. That comparison, and what the manifest promises of a shard with
those layers, give each stage its tensors (`FitHas`); `CatalogRoute` and
`CatalogItems` lead the walk through the stages. In the property a map has no more stages than are
deployed: nothing compares the two, and the walk of a longer one ends at a
service that does not exist.

`OpsServerProofs` proves of `OpsInvoke`, for every set of calls, with or without
a timeout and with or without signals (`InvokeAssumption`):

| theorem | states |
|---|---|
| `KeyFollows` | `Spec => []KeyFollowsCall` |
| `NoOrphans` | `Spec => []NoOrphanedChild` |

Both rest on where a call may be while its kubectl is alive
(`AliveInForward`): no way out of `handleInvoke` leads past `stopChildProcess`
after the child was spawned.

Of `OpsHistory` it proves, for every set of requests, every limit, number of old
records, of failing loads, appends and rewritings and of restarts at any moment
(`HistoryAssumption`), under the condition that no request arrives while the first
one loads the file:

| theorem, for `~EarlyRequests` | states |
|---|---|
| `HistoryTypesCorrect` | `HistorySpec => []HistoryTypeOK` |
| `HistoryIdsAreUnique` | `HistorySpec => []IdsAreUnique` |
| `FileAlwaysIsHistory` | `HistorySpec => []FileIsHistory` |
| `OnlyChosenRecordsEverGo` | `HistorySpec => []OnlyChosenRecordsGo` |

The condition cannot be dropped: the run `history_early` shows the last one
violated without it. The properties say themselves which mishaps they exclude, and
`HistoryInv`, the one induction behind them, is layered in the same way. Types,
`Lined` (who is in the chain), `Starting`, `FileFollows` and `Apart` hold whatever
fails: `Apart` says that array and file differ only after a failed load or because
the chain is rejected for good, so that nothing is written on top of the
difference before the next start reads the file again. `Ordered`, `HeadThere` and
`Ticked` hold until a load fails, after which ids begin at 1 again; `NoneMissing`
until a load fails or a rewriting is cut off after its truncation. A rewriting that
fails before it, and a restart anywhere else, cost no record. `Ordered` says that ids ascend through the file and on through the posts
that are still in the chain, whose ids were given before their turn came, and
that all of them are below `nextSeq`; a load can give the next id only because
the file is then all there is (`Starting`). `FileFollows` says what the file and
the payload are at each place of a write: one record ahead after an append,
empty after the truncation. `Ticked` is what makes deletion by id safe: an id
that a waiting deletion carries names no record but one a client chose, though
ids are given again after a restart. `NoneMissing` counts for
`OnlyChosenRecordsGo`: a record that `splice` pushed out has `MaxEntries` younger
ones among those promised or about to be, and the one of them that is in the
file but not yet acknowledged is the head's. The lemmas on `Kept` and `Nth` say
that what stays keeps its order and that ranks and places match; `TrimmedOne`
says what a `splice` leaves.

Only model-checked is liveness under fairness, which is outside the prover's reach:
`EveryForwardAnswered`, `AnsweredOrStranded`, `StopCompletes`,
`GenerationEndsAtLast`, `EveryRequestEnds`, `CallsAreAnswered` and
`GatewayGetsIdle`; and the three properties of section 7, which do not hold.
Each other property of a run is a theorem, those of `OpsHistory` under the
condition stated there.

## 7. Where the code departs from its documents

Each of these has a run that TLC finds violated, and an entry under `findings`:

| run | what the code does |
|---|---|
| `pipeline_reference` | a decode step that is sent again after a timeout is appended twice, and the generation is reported ok with other tokens than the reference run |
| `rollout_serves` | the init containers name a stage's shard without the model's slug and keep a file that is there: after another model with the same split has been activated, the restarted stages serve the tensors of the model before |
| `history_early` | a DELETE during the first load rewrites the file from an empty array |

Others were met while modelling. They are in the models as what the code does,
and the properties say so in their premises:

* *Guard.* `/chat` with an empty message list raises between `acquire` and `try`
  and keeps the guard for ever; later requests are refused or wait although none
  is being served (`Leaked` in `EveryRequestEnds`).
* *Pipeline.* An answer that is cut ends the generation, though one that is lost
  altogether is sent again (`RestartInReply`, `ConnectionLost`). When both
  attempts of a worker's call time out in a chain, the worker answers 400 and its
  connection to the next stage stays open (`http_client.cpp` 484): the next call,
  also of another generation, reads the late answer as its own, since nobody
  compares request ids, and its own answer is late in turn (`Overtaken`,
  `SendAndReadLate`). The pipeline's properties exclude generations to which this
  has happened; without that exclusion TLC finds `UndisturbedIsReference` violated.
* *Preparation.* When a shard file cannot be written, the writer reports it as
  written; the validator, which looks at metadata and names, accepts a file that
  an earlier run left, or one whose data is cut. `PublishedIsOneBuild` has the
  premise that this has not happened. A number of layers that is given as an
  option and is smaller than the model's is accepted, and the last layers are in
  no shard. `--no-upload` prints an activation payload although nothing was pushed;
  who activates it asks for files that the repository may not have.
* *Rollout.* The gateway's tokenizer is loaded from the path of the model as
  deployed, whatever is active. Under any activation its init container asks for a
  file in the directory of the slug, which nobody makes, and fails; a gateway pod
  gets past it only if it was initialised under the map as deployed (`InitGateway`,
  `GatewayStarts`).
  While activations are under way pods may serve under different maps, and no
  stage notices: `ReadyPipelineIsWhole` is about pods under the same one.
* *Python stage.* A repeated decode step is found in the cache of answers and
  answered with 500: a hit reports `before = after` (`ReportHit`), which
  `StepValid` refuses. The repository's own clients do not repeat a step; the
  docstring of the cache (`kv_cache_stage.py` 30-36) promises it to those that do.
  Two copies of a step that run at once both miss that cache and both append,
  against the same docstring. A decode step that throws after a layer has appended
  leaves a torn step in the live cache, and a later one goes on behind it. With
  fewer KV entries than requests, a decode step that passed the 409 check runs on
  an empty cache when another flow evicts its entry in between. `Undisturbed`
  excludes these; each of its parts is needed.
* *History.* After one failed append the promise chain stays rejected
  (`poisoned`), and no later record is persisted until the server restarts. A
  failed rewriting does the same and leaves the array without the records that
  the file still has, or the file empty. After a failed load (a directory that
  cannot be made, a file that cannot be read) the server goes on with an empty
  array: ids begin at 1 again beside those in the file, and the next deletion
  rewrites the file from what little it knows.
* *Invoke.* A call that times out at the pod is sent again through port-forward
  while the gateway still works on the first. A call whose `kubectl` dies of a
  signal is never answered (the exception in `CallsAreAnswered`). The gateway
  does not drop on busy, as `docs/ARCHITECTURE.md` says it does; it waits for
  `generation_mutex` (`Block`).

## 8. Not modelled

* *Arithmetic*: ggml graphs, RoPE, quantisation, the distribution the sampler
  draws from, tokenization. The models keep which positions are written and
  read, and which random number is drawn.
* *Parsing*: HTTP, JSON, command lines and the encoding of DLI2 frames. Of the
  DLI2 decoder the pipeline has that it refuses a frame shorter than its header
  says; the two parsers of the stage map are modelled line by line.
* *Broker after stop*: detached connection threads refer to the stack frame of
  `HttpServer::run`, which returns on stop. The models end with the process.
* *Torn lines of the history file*: an append is all or nothing, and `writeFile`
  leaves the old file, an empty one or the new one. The loader's handling of
  lines it cannot parse is left out with them.
* *The socket layer of the pipeline*: two answers that arrive in one `recv`, a
  second attempt that fails in the middle of a write (a failed second send has
  reached nobody), and a keep-alive connection that the other side has closed
  (`SendFails`) without saying why. A worker whose peer is gone and which dies of
  SIGPIPE is a `Restart`.
* *The length of a generation*: nothing in the code bounds it by the context
  window; `MaxNew` and `MaxLen` stand where memory would end.
* *Job status and cluster views* of the UI, its pages and static files: read-only.
* *Python feature modules* (route probing, precision, catalogue): measurements
  and conversions without shared state. *Splitter, baseline, benchmark*: scripts.
* *Chain metrics*: no decision depends on them.
* *The kubelet and the hub* are environment: one replica, rolling update, restart
  of containers, and a git repository that refuses what is no fast-forward.

## 9. Plan

Done first, because everything else rests on it: the broker and the sessions
with their proofs, the pipeline; then the guard with its proofs, the Python
data plane and the two stateful parts of the UI server; then the memory of a
stage, the stage map with its parsers, preparation and rollout with their
proofs, the proofs about invoking, those about the pipeline, those about the
history and those about the Python stage; then the two parsers of the stage map
and, on top of them, what is published and what a rollout serves. What is left,
in order:

1. A refinement of the pipeline: a single-stage run as the abstract
   specification of a generation, which an undisturbed one implements
   (`UndisturbedAlwaysReference` and `PipelineKvLockstep` are most of it).
2. The page's automated suites with cancelling and polling; the Python gateway's
   choice of routes.
