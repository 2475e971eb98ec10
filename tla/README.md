# Verification of the GPU inference platform

TLA+ models of the platform's request path, of its scheduler process, of what it
records and keeps, and of what its HTTP clients are told, checked with TLC on small
instances, and TLAPS proofs that the checked safety properties hold for every value
of the constants. Paths below are relative to the
repository; `cp/`, `sched/`, `gw/`, `adapter/` and `obs/` abbreviate
`services/control-plane/src/control_plane/`, `services/scheduler/src/scheduler/`,
`services/api-gateway/src/api_gateway/`,
`services/inference-adapter/src/inference_adapter/` and
`packages/observability/src/gpu_inference_observability/`.

## The system

A chat completion request enters at the gateway, is registered, admitted and
queued by the control plane, selected by a scheduling cycle, placed in a batch by
the batching engine, submitted with its batch to a backend through the adapter,
and completed (or streamed) back to the client. In the embedded stack
(`gw/runtime/stack.py`) all of this is one process: one asyncio event loop, plus
worker threads in which scheduling cycles run (`asyncio.to_thread`).

| Component | State it keeps | Operations | Talks to |
|---|---|---|---|
| Lifecycle manager, registry (`cp/lifecycle`, `cp/registry/memory.py`) | one entry per request: state, failure, queue position | register, transition, run_admission, mark_failed, complete_request | queue; called by the orchestrator and the stream engine |
| Waiting queue (`cp/queue`) | bounded FIFO list with arrival times | enqueue, dequeue, remove, list_items, expire_timeouts | writes TIMED_OUT, QUEUED, REJECTED into registry entries |
| Scheduling cycle, tick loop (`sched/loop`) | cycle lock, process mode, last cycle | run_cycle, start, stop | reads the queue, asks the policy, calls the engine |
| Scheduler policies (`sched/policies`) | fairness history only | evaluate | pure on candidates |
| Batching engine (`sched/batch`) | batches, member sets, request-to-batch map, index of the open batch per model, assignments | place_selected, complete/fail/cancel_request | called by cycles (worker threads) and coroutines, under its own lock |
| Dispatch (`sched/dispatch`) | set of submitted batch ids | submit_pending_batches, with retry over routed backends | engine, routing, adapter |
| Orchestrator, integrated client (`gw/runtime`) | one coroutine per request | execute_full_path, execute_streaming_path | all of the above |
| Stream engine (`gw/streaming`) | cancelled streams, session per stream | stream_sse, cancel_stream | orchestrator, adapter, lifecycle |
| Adapter, backends (`adapter/`) | backend registry and health, request status and completions per backend | submit_batch, cancel_request, stream_request, health_check | vLLM over HTTP, or a mock |
| Routing, model registry (`cp/routing`, `cp/registry/model_registry.py`) | registered models | route | snapshots of adapter backends |
| Gateway validation, pipeline, routers (`gw/pipeline.py`, `gw/routers`, `gw/validation`) | settings, nothing per request | authenticate, validate, accept, map errors to statuses | control plane client, stream engine |
| Scheduler application (`sched/application.py`) | running flag, process mode, cycle counters | startup, shutdown, run_cycle_once, snapshot | tick loop, cycles |
| Trace store, capture, comparison (`obs/runtime`) | event lists per request, execution records | record, capture, reconstruct, compare, replay | fed by event emitters of all components, from two kinds of threads |
| Durable history (`obs/persistence`) | record cache, one SQLite connection and its file | put, persist, save replay and comparison, delete, recover | called by the gateway after each request and by the replay engine |
| Metrics, tracing, GPU probes (`obs/registry`, `obs/otel`, `obs/gpu`) | counters and spans | record | no influence on control flow |

What is hard in this code:

* **Interleaving.** Every `await` that suspends lets other requests' coroutines run;
  cycles run in threads at any time. State is read before such a point and used
  after it (dispatch results, submitted batches, request states).
* **Two owners of one fact.** The queue item, the registry entry, the batch member
  and the coroutine each say something about the same request; nothing removes a
  placed request from the queue.
* **Timeouts.** Expiry happens as a side effect of any queue access, from any thread,
  and marks requests in only one of its callers.
* **Failure paths.** Injected failures, refused dispatches, failing cycles, failing
  and cancelled streams each clean up a different part of the state.
* **Partial writes.** A capture is seven saves and a commit on a connection that all
  writers share; a statement raises or the process ends between any two of them.
* **Two clocks in one trace.** A cycle's thread takes an event's time before it
  appends the event, while the event loop appends events of the same request.
* **Late errors.** A stream has already sent its end, and a request is already
  COMPLETED, when the capture that follows raises.
* **Limits.** Batch size, active requests, queue size and registry size interact.

## Modules

| Module | Models |
|---|---|
| `BatchEngine` | the batching engine: `sched/batch/engine.py`, `admission.py`, `active_set.py`, `models.py`, `transitions.py` |
| `SlotPool` | abstract specification of what the engine promises: numbered slots granted and returned |
| `BatchEngineProofs` | the engine's inductive invariant, the theorems about it, and the proof that it implements `SlotPool` |
| `RequestStates` | request states (`common_schemas/states.py`) and the transition table (`cp/lifecycle/transitions.py`) |
| `ControlPlane` | registry, waiting queue, lifecycle manager |
| `ControlPlaneProofs` | order of the queue, failure records, no resurrection |
| `RequestPath` | orchestrator, integrated client, stream engine, scheduling cycle, tick loop and dispatch, composed with `ControlPlane` and `BatchEngine` (both instantiated, their variables shared) |
| `RequestPathProofs` | completion, slots, settled requests, and that the engine is used as specified |
| `Routing` | the routing engine and its four policies as operators (`cp/routing`, `cp/registry/model_registry.py`), registry health states (`adapter/registry`, `adapter/backend/state.py`) |
| `Dispatch` | the retry over routed backends (`sched/dispatch/submitter.py`), the adapter's startup, shutdown and submission, mock and vLLM backends, the answer to the request; extends `Routing` |
| `DispatchProofs` | order and exhaustion of the retry, what acceptance means, executions per offer |
| `SchedulerPolicies` | the four policies as operators on candidates (`sched/policies`) |
| `Scheduler` | the scheduler process: application, tick loop, cycles in threads, queue reader; extends `SchedulerPolicies` |
| `SchedulerProofs` | mutual exclusion of cycles, truth of the process mode, policies honoured, fair shares |
| `Persistence` | record store, SQLite repository, serialization, recovery, and the writes of the replay engine |
| `DurableHistory` | abstract specification of what the store promises: whole snapshots, told outcomes, a transaction that may be lost |
| `PersistenceProofs` | atomicity and durability of captures and replay outcomes, no phantom rows, what the store serves, and the proof that it implements `DurableHistory` |
| `Telemetry` | trace events, timelines, capture, reconstruction, comparison, request counters |
| `TelemetryProofs` | causality of timelines, what a trace tells, ends counted once, what the comparison of two records means |
| `Gateway` | one HTTP request: validation, answers, and the body the stream engine sends |
| `GatewayProofs` | validation, answers, bodies, token accounting, percentiles |
| `MCBatchEngine`, `MCControlPlane`, `MCRequestPath`, `MCDispatch`, `MCScheduler`, `MCPersistence`, `MCTelemetry`, `MCGateway` | small instances |

Operators named `...Inclusive`, `...ByCount` and so on, with the comment "Faulty
variant", are deliberate mistakes; `PROJECT.json` pairs each with the property that
must fail when it takes the place of the real definition. No action uses them.

### BatchEngine

One action per public operation, since each holds the engine's lock:
`PlaceSelected(r)`, `CompleteRequest(r)`, `FailRequest(r)`, `CancelRequest(r)`; `Tick`
advances the clock. `batchState`, `batchModel` and `windowEnd` are a batch's context;
`memberStatus` and `slotIndex` the member records in `_sets`; `requestToBatch`,
`activeBatchByModel` and `assignments` the dictionaries of the same names. Batch ids
are numbered in order of creation, which is the iteration order of `_batches`.
`Verdict` makes the checks of `_place_selected_locked` in the code's order; its
answers are the code's decision reasons. A new batch passes CREATED and a full one
READY inside one locked call, so neither state is visible between calls. The three
failure points of the injector are disjuncts enabled by `Injections`. In the model a
retirement pops the index entry of `batchModel[b]` without comparing batch ids, as
the code does.

### ControlPlane

`state`, `failure` and `position` are fields of `RegisteredRequest`; `queue` is
`WaitingQueue.items`. `Submit` is `process_through_queued` up to the admission checks
(timeouts, registration, VALIDATED); `Enqueue` is the ADMITTED transition with the
locked part of `QueueOperations.enqueue`, and `MarkQueued` the QUEUED write after the
lock is released. In between, `enqueuing` keeps the event loop busy, but `ListItems`
(a cycle's thread) may run. Every operation that enters the queue expires items
first; only `ProcessTimeouts` and `Submit` mark them. `RejectAtAdmission` and
`FailAtAdmission` are the answers of admission checks, which the embedded stack has
none of but the extension points allow. The first leaves the reason of a full queue, the
default of `AdmissionFailure`. `MarkFailed` reaches FAILED from any state,
because `mark_failed` falls back to a direct registry write.

Registry `remove` and `remove_if_terminal`, queue `clear`, and the scheduler handoff
have no caller in the platform and are left out.

### RequestPath

`pc[r]` is the place of request r's coroutine. Work between two suspending awaits is
one action, except that cycle threads are interleaved with it at the points where
they can see a difference. `LoopFree` says that no other coroutine holds the event
loop. A cycle takes the lock (`CycleList` or `CycleCrash`), places the selected requests
one at a time (`CyclePlace`; the engine's lock is released in between) and releases it
(`CycleEnd`). The tick loop's cycles place requests but do not dispatch. `Dispatch`,
`AdapterAccepts` and `AdapterRefuses` are `submit_pending_batches`: `Proceed` goes on to
the next batch that is dispatchable now and suspends in the adapter, or runs
`_finalize_request`. The submission is modelled as suspending, which it is with a
backend that does I/O (`adapter/backends/vllm.py`); the mock answers at once, and its
behaviours are among those modelled. The retry over routed backends ends in one
answer, accepted or refused. `StreamEnd`, `StreamCancel` and `StreamError` are the ways a stream ends.
`executed` is a history variable: the requests that were in an accepted batch.

### Routing and Dispatch

`Dispatch` takes apart what `RequestPath` treats as one answer of the adapter. A
coroutine lists the pending batches (`SubmitPendingBatches`, `NextBatch`), and for each
goes round the loop of `_submit_batch`: route, hand the batch to the adapter, and on a
refusal (`Refused`) or an exception (`Raised`) exclude the backend and go on. `Route` is a
pure operator of `Routing` over the registry states and the excluded set. The mock answers
without suspending; a vLLM backend suspends in its health check (`checking`) and in one
HTTP request per member (`executing`). The server is the environment and may answer each
request differently, so a member can fail after others were executed. `assignments` is read
before the loop and not again; `BatchGone` is the check of `build_dispatch_batch` on the
live batch, which an emptied filling batch (`Filling`) passes. What the cycles left behind
and how the stack was built is chosen in `Init` (`setup`, one of `Setups`) and fixed from
then on: which requests share a batch and for which model, which of them stream, which
batches are filling, which mocks reject, and whether there is a routing engine. `LoopFree` holds the other
coroutines back while one is between two suspension points. The registry's states come
from the startup checks, which nothing repeats, until `Shutdown` stops all backends under
the running coroutines. A backend's own list of models (`Backend`) and the list it was
registered with (`Registered`) are different settings, and either may be empty. Request
lifecycle states, timeouts and cycles are `RequestPath`'s and left out here. `tried` and
`executions` are history variables.

### Scheduler and SchedulerPolicies

A worker thread's call of `run_cycle` is a sequence of steps (`thread[t]`): it waits for
the lock, lists the queue, converts one item after the other into a candidate
(`Convert`, each reading the clock for itself), evaluates the policy, completes or fails,
and runs the finally clause, which reads the process mode (`Finally`) and writes it
(`FinallyAccepts`) in two steps before the lock is released. `LoopTick` is a tick of the
loop, `RunOnce` a manual cycle; manual cycles run whether or not the application was
started, as in the code. `ShutdownBegins` and `ShutdownEnds` are the two halves of
`shutdown` around the await of `loop.stop`, which cancels the task and leaves the thread
running. The queue (`Enqueue`, `Leave`) is the environment; placements are `RequestPath`'s.
The policies order candidates: `Before` is the comparison of a policy's sort keys, and
`Ordered` puts each candidate at the place that the number of those before it gives, which is
what the code's stable sort returns. The fairness history `counts` is updated by a selection and
never taken back. Latency scores, floats in the code, are compared exactly.

### Persistence

`db` is what the SQLite file holds, `conn` what the one connection sees (committed and
pending rows), `cache` the in-memory store in front. A table keeps per request the number
of the capture its rows come from, so that a row of an older or of a lost capture can be
told from a current one. No call awaits, so one runs at a time, but statement by statement
(`pc`): `put` caches, then `SaveRequest` to `SaveSummary` and `CommitRecord`. `PersistFails` is
an exception at any of them, with the rollback; `PersistReplayFails` and `CompareFails` have
none, as in the code. `DeleteRequest` deletes and does not commit. `Stop` ends the process
between any two statements: the pending rows and the cache are gone. `Startup` migrates the
schema and loads every record into the cache, or ends in `failed_start`. Serialization is
modelled by what it does to the values: payloads come back with strings, which the submit
builder coerces, and typed parts are refused by strict schemas. `stored`, `raised`,
`committed` and `told` are history variables.

`DurableHistory` says what the gateway and the replay engine may rely on, without tables,
statements, cache or recovery: a history with one whole snapshot per request and one
outcome per replay, and a transaction open on it. The mapping (`History`, at the end of
`Persistence`) reads a request's rows in seven tables as one snapshot, or as `Torn`, which is none of
them. A capture maps to `Begin` when it is cached, its statements to nothing, and its commit to
`Acknowledge` or its rollback to `RollBack`; a replay's row maps to `Conclude`, its commit to
`Report`, a failure under it to `Fail`; the commit of a comparison is a `Commit` that takes along what is
pending, a deletion `Withdraw`, and the end of the process and a startup `Lose`.

### Telemetry

`trace[r]` is the list of events of request r in the order of appending, each with its
time; a time is its rank among the times of the request, which is all that sorting and
durations depend on. `Timeline` sorts the events as the code does, those of one time
staying in the order of appending (`NotAfter`). A step of the event loop stamps and appends its events at once; the
cycle's thread stamps (`CycleStamps`) and appends (`CycleAppends`) in two steps. The rest of
the program is reduced to the order of its steps for one request; other requests appear
as foreign cycles, foreign dispatches and the timeouts they trigger, at most `MaxNoise` of
them. At the end a record is captured from the trace, and a replay's record is compared
with its original's. The capture's filters keep the events of some kind in their order
(`EventsAt`, each at the rank of its place). `script` is a history of what happened in a run, `disturbed` the requests that
others touched before their capture, `settled` the ends written that the emitter counts.

### Gateway

One request of any shape (`Inputs`) under any settings is checked in the pipeline's order
(`Checks`), and `Refusal` is the status of the first check that fails. What the control plane
and the scheduler make of a valid request is a choice among what their models allow
(`PathOutcomes`, `QueuedOutcomes`); with or without an execution plane the path may also raise
(`PathRaises`), which is answered 500. A stream opens its body (`OpenBody`), starts the request,
takes chunks from the backend's generator (`Deliver`), counts tokens and times after the
client has taken the chunk (`Account`), and ends, fails, or is cancelled; `PersistResult` and
`PersistFailure` are the captures at the end, either of which may raise. At every yield the
client may be gone for good (`Abandon`). Percentiles are computed as in the code, on the
sorted latencies (`Ordered`, each value at the place of its rank) and with rounding half to
even.

## Runs

| Run | Instance | Shows |
|---|---|---|
| `batch_engine` | 4 requests, 2 models, batches of 2, limit 3, clock 0..2, all injections | the engine's dictionaries stay consistent and terminal batches stay frozen |
| `batch_engine_slots` | 4 requests, 2 models, limit 2, 3 batches, clock 0..1 | the platform limit is respected and the engine implements `SlotPool` |
| `control_plane` | 4 requests, registry of 3, queue of 2, timeout 1, clock 0..3 | queue order, size and positions, failure records, no resurrection |
| `request_path` | 3 requests of which one streams, registry of 2, one candidate per cycle, one tick cycle, failing cycles | completion, slots, settled requests, and every path returns |
| `dispatch` | 2 requests, 3 backends, 7 setups: one batch or two, every policy, an unknown model, a mixed batch, a rejecting mock, no routing engine | order and exhaustion of the retry, accepted means executed, at most one execution per offer, submissions end |
| `persistence` | 1 request and 1 replay, 2 captures each, 1 fault, 1 end of the process | captures are atomic, the store serves what was stored, replay outcomes are on record, and the store implements `DurableHistory` |
| `telemetry` | 1 request and 1 replay, 2 attempts, 1 step of another request | timelines are causal, traces and records tell the outcome, comparison is exact |
| `gateway` | every input shape and setting, up to 4 chunks, clock 0..3, default limit 3 above the model's 2 | answers, bodies, records and token accounting agree |
| `scheduler` | 2 threads, 3 requests of two classes with weights 2 and 1, scan of 3, 1 candidate, 4 loads | policies, fair shares and the process mode |
| `completed_is_final`, `recovered_after_restart`, `draining_is_final` | as small as the disagreement needs | the findings below |

What the properties say:

* `GlobalCapacityRespected`: the platform limit is not exceeded; members left active in
  failed batches still count. That `max_batch_size` is not exceeded either
  (`BatchCapacityRespected`) is proved.
* `SlotsExclusive`: a slot index is free and in range although retirements leave gaps.
* `ActiveIndexExact`: the index of open batches names the one open batch of each model.
  The unconditional `pop` in `_complete_batch_locked` and `_fail_batch_locked` is safe
  only because of this.
* `MembershipAgrees`: maps, member sets and assignments agree; one batch per request.
* `BatchesWellFormed`: no batch rests in a transient state. That the last retirement
  completes an active batch (`ActiveBatchesBusy`) is proved.
* `TerminalBatchesFrozen`: late or repeated retirements revive nothing.
* `QueueWellFormed`, `FifoOrderKept`: the queue's bound, order and numbering
  survive expiry, removal and concurrent reads.
* `FailureRecordAgrees`: state and failure reason stay in step although four places
  write them, some behind the transition table's back. Both kinds of rejection have one
  reason, so it does not tell a refusal by an admission check from a full queue.
* `WaitingWasAdmitted`: a refused request is never found in the queue.
* `NoResurrection`: what may overwrite a terminal state is FAILED or TIMED_OUT only, and
  COMPLETED is only reached from execution.
* `CompletedWasExecuted`, `RunningHoldsSlot`: a request is reported as executed only on
  the strength of its own coroutine's submission, holds its slot meanwhile, and has given
  it back when it is COMPLETED.
* `DoneIsSettled`: what a finished coroutine leaves behind.
* `PathsReturn`: no coroutine waits for ever.
* `OfferedInOrder`: stated with a second definition of what the policies promise (`Usable`,
  `Preferred`): the backends offered a batch are usable, distinct and in order without a gap,
  and one that was unavailable at startup is never used, with routing or without.
* `RefusedMeansExhausted`: neither way out of the retry gives up while a usable backend is left.
  Both are stated for a running adapter with a routing engine, since shutdown takes all
  backends away and without routing the default backend is taken as it is.
* `AcceptedWasExecuted`: the backend a result names holds the completion, whoever else submits.
* `ExecutedPerOffer`: overlapping submissions and retries execute a member at most once per
  offer of its batch.
* `SubmissionsEnd`: the retry terminates.
* `AllOrNothing`: in the file, seven tables read as if each capture had been written at once.
* `NoPhantomRows`: no commit makes rows durable that belong to a capture that was rolled back
  or lost, and every replay row belongs to a capture that reached the file.
* `StoredIsServed`: a capture whose `put` returned is what the store serves until it is deleted,
  unless a later capture raised and shadows it. That it stays in the file as long
  (`StoredIsDurable`) is proved.
* `ImplementsDurableHistory`: whatever fails or ends between which statements, the queries show a
  history in which snapshots change as a whole, what is acknowledged stays until it is
  withdrawn, an outcome is written after the snapshot of its replay was acknowledged and told when it
  is in the history, and only uncommitted changes are ever lost.
* `ReplayOutcomeDurable`: what a replay reported is what is on record, although a row whose
  commit failed stays pending and goes with a later commit.
* `TimelineCausal`: no timeline shows an effect before its cause, and the stage times of a
  trace are those of a prefix of the stages and increase.
* `TraceTellsOutcome`: the trace alone tells how a request ended, except after a refusal of
  its batch that came later, and except cancellation, which no event tells.
* `CountedOnce`: two events for one end are one end to the counters.
* `QuietReplayMatches`, `MatchMeansSameRun`: the comparison of an execution with its replay
  finds no difference exactly when the same things happened; foreign steps excepted.
* `ValidationExact`: only valid requests reach the control plane, the others are answered
  at once as errors, and only they are told that they were bad: neither the default of
  `max_tokens` nor an admission check that refuses is held against the client.
* `AnswerTellsOutcome`: status and record agree on the embedded stack, also when the capture
  raises after completion. Behind any client 429 is told of what is and stays REJECTED; it
  does not say that the queue was full.
* `BodyEndsWithDone`, `ClientAndRecordAgree`: a finished body ends with `[DONE]`, and what it
  said agrees with what is on record, although errors may follow a completion.
* `TokensAccounted`, `PercentilesRight`: counters are those of the chunks the client took;
  the reported percentiles are the latencies nearest to their rank, halves going to the
  even one, whatever order the latencies came in.
* `PolicyHonoured`: of two requests in a scan none is preferred against the policy, judged by
  the queue and not by the candidates; latency aware up to the time the scan took.
* `FairShare`: a class is ahead of a waiting one by at most the selections of one cycle per
  unit of weight, failing cycles included.
* `ModeTellsLastCycle`: between cycles of a running scheduler the mode is UNAVAILABLE exactly
  when the latest cycle failed.

The type invariant of each module is a conjunct of one of its checked invariants
(`QueueWellFormed`, `RunningHoldsSlot`, `OfferedInOrder`, `TimelineCausal`, `TokensAccounted`,
`PolicyHonoured`), and proved with it; those of `BatchEngine` and `Persistence` are proved
by theorems of their own (`TypeCorrect`).

**Bounds.** `MaxBatches`, `MaxTime` and `MaxTicks` cap counters; the other constants are
configuration. Batches of two with three requests for one model reach a full batch,
a gap left by a retirement and its reuse, and a second batch after the first ended; a
second model shares the global limit. Clock values up to one past a window or timeout
distinguish "at", "before" and "after" the deadline. A registry smaller than the number
of requests makes it overflow. Four batches (three in `batch_engine_slots`) let one batch
end and be replaced while the other model keeps its own; a placement that would open
another one is cut off.
`Dispatch` has no counters to cap: the retry ends by itself. Three backends give a
fallback chain and a tier with two members. In the setups with two batches a coroutine
meets a batch that ended under it, in those with one batch executions fail half way and
both coroutines submit the same batch.

`MaxVersions`, `MaxFaults` and `MaxStops` cap `Persistence`: two captures of one request make rows of an
older capture visible, one fault is enough for every path that keeps or drops pending
rows, and after one end of the process a recovered store captures, compares and deletes. A second
end would follow a recovery, which leaves nothing pending and no call running; the proofs are
about any number of ends. `MaxAttempts` of 2 gives a
refusal followed by an acceptance, `MaxNoise` of 1 a foreign cycle or dispatch anywhere in a
run; with more, the runs they touch are the ones the comparison does not speak about.
`MaxChunks` of 4 gives up to three latencies, so that the median is an inner one and their
order matters, or lies half way between two, where the rounding shows; the model's output limit lies below the default, so that
capping shows. `Loads` splits the scheduler's behaviours by what they exercise: the
process alone with two starts and three cycles, policies over a queue that requests join and leave, a scan of three
requests with the clock running, and a running process with one request in its queue;
one instance with all of it at once is too large.

Requests of one model are interchangeable, so symmetry is used in
the runs of `BatchEngine` and `ControlPlane`, and not where liveness is checked.
Worker threads of `Scheduler` are interchangeable as well. Deadlock is not checked
where a bounded behaviour ends: in `RequestPath`, `Dispatch`, `Telemetry` and `Gateway` when every request
is answered and the clock has reached its bound, in `Scheduler` when the load is used up, and in
`Persistence` when the last end of the process or a failed start was reached.

**Fairness** (`RequestPath`, used by `PathsReturn`; `Dispatch`, used by `SubmissionsEnd`, has
the first kind only). Weak fairness of each started
coroutine (`Continue(r)`), because asyncio runs ready callbacks and because backend
calls and stream reads end by an answer, an error or the HTTP client's timeout; weak
fairness of `CyclePlace` and `CycleEnd`, because a started thread runs on. Clients need not
submit and nothing forces the tick loop. The cycle lock itself is not fair; with
unboundedly many competing cycles weak fairness would not be enough. The model has
finitely many: each coroutine runs one cycle, and the tick loop, which sleeps
`tick_interval_ms` between cycles, is bounded by `MaxTicks`.

## Findings

1. **COMPLETED becomes TIMED_OUT** (`completed_is_final`). Nobody takes placed requests out
   of the queue, and `process_timeouts` writes TIMED_OUT over any state, although the
   contracts forbid leaving COMPLETED.
2. **Recovery fails on the records it is for** (`recovered_after_restart`). Completions and stream
   metrics were written as JSON, and are validated on the way back by strict schemas that
   refuse strings for UUIDs and datetimes. `recover()` loads all records at startup, so one
   such record ends it.
3. **DRAINING is not final** (`draining_is_final`). `loop.stop` cancels the task but not the
   cycle's thread, whose finally clause writes ACCEPTING; the contract requires a restart.

Met while modelling, and faithfully modelled, but not the subject of a run:

* When the admission window of a filling batch has closed, `_find_admittable_batch` still
  returns it and nothing advances it: the model is refused until a member fails.
* A cycle's read of the queue drops expired items without marking their requests, which
  stay QUEUED for good.
* A request that an admission check refuses is recorded as `queue_full`, the default reason
  of `AdmissionFailure`, and answered 429 with a hint when to retry, although the queue may be
  empty; the branch of `_raise_admission_error` for 400 is never reached. The embedded stack
  installs no checks; `runtime-validation/replay_validation.py` installs one that refuses. No
  document says which reason such a request should have.
* Cancelled and failed streams and refused dispatches keep their batch slot.
* A retry executes members again that an earlier backend had executed, and two coroutines
  may submit the same batch, since the submitted set is extended after the await.
* One streaming member makes the vLLM backend acknowledge a batch without executing the
  others, which are then COMPLETED without output.
* No caller removes registry entries: after `max_entries` requests submission fails for good.
* A body that is not UTF-8 or not an object answers 500 on the chat endpoint, before
  authentication. The legacy completions endpoint never returns text. The prompt limit
  compares characters.
* When the capture of a finished stream raises, an error and a second `[DONE]` follow the
  first, COMPLETED is overwritten by FAILED, and the stream counters count it twice. A
  backend stream that ends early counts as a completion. An abandoned body leaves its
  request in STREAMING.
* The gauge of active requests is not decremented for requests rejected at admission or
  cancelled.
* Manual scheduling cycles run before startup and after shutdown.

## Proofs

Every invariant and every action property of the passing runs is a theorem, for every value of
the constants that satisfies the named assumptions. The assumptions say what the code itself
guarantees of its configuration and inputs (a limit is positive because `validate` refuses
another one; a marker such as `Idle` or `NoThread` is not a request or a thread) and that
the bounds of the instances are naturals; TLC evaluates them in every run. Where they say
that something is finite, it is the set of requests of the batching engine.

In each component one invariant, named `Inv` or `IndInv`, is inductive and implies the
properties. Where a property needs a history that the others do not (`CycleInv`, `TimesInv`,
`OffersInv`, `OriginInv`), a second invariant is proved on top of the first, so that each proof
speaks of the variables it is about.

### Batching engine (`BatchEngineProofs`)

Assumptions: `ConfigAssumption` (the limits are positive, what `BatchAdmissionConfig.validate`
enforces), `InputAssumption` (finitely many requests, each with a known model),
`BoundAssumption`.

| Theorem | States |
|---|---|
| `TypeCorrect` | `TypeOK` and `BatchesWellFormed` |
| `CapacityRespected` | both limits |
| `SlotsAreExclusive` | `SlotsExclusive` |
| `IndexIsExact` | `ActiveIndexExact` |
| `MembershipIsConsistent` | `MembershipAgrees` and `ActiveBatchesBusy` |
| `TerminalBatchesStayFrozen` | the action property `TerminalBatchesFrozen` |
| `EngineImplementsSlotPool` | every behaviour of the engine is one of `SlotPool`, under the mapping at the end of `BatchEngine` |

No single property is inductive. Capacity needs to know that the batch a search
returns has room and is the batch whose members are counted, so it needs the index;
that the index stays exact when a batch ends needs that no second batch of the model
is open; that no second one is opened needs that a full batch is never still filling
(`BatchesWellFormed`); that an admitted request is a new member needs `MembershipAgrees`. The
invariant `IndInv` is the conjunction. The proof does not take the actions one by one
but the three things an action can be: `StepCases` shows that every step admits a
request (`Admits`), retires one, or leaves the dictionaries alone, and
`AdmissionKeepsInv`, `RetirementKeepsInv` and `FrameKeepsInv` treat those. The refinement
reuses `StepCases`: an admission is `Acquire`, a retirement of an active member `Release`,
and everything else a stutter. `NextSlotIndexIsFree` replaces the code's loop: the least
unused index exists, is unused and is at most the number of used ones.

### Request path (`RequestPathProofs`)

Assumptions: `CallersAssumption` (the markers `Idle` and `Ticker` are no requests),
`SettingsAssumption` (the limits the settings accept, finitely many requests, each with a known
model, bounds as naturals), and what the two instantiated modules assume.

| Theorem | States |
|---|---|
| `CompletedMeansExecuted` | `CompletedWasExecuted` |
| `RunningRequestsHoldSlots` | `RunningHoldsSlot` |
| `FinishedPathsAreSettled` | `DoneIsSettled` |
| `EngineIsUsedAsSpecified` | `Spec => BE!Spec`: every behaviour of the composed stack, seen through the engine's variables, is one of `BatchEngine` |

The last one carries the engine's theorems into the stack: whatever coroutines, cycles
and expiry do, they use the engine as `BatchEngine` says. The invariant is the two components'
`TypeOK`, the types of the paths, `Membership` (the engine's dictionaries and the paths
agree on who has been placed) and, for each request, `Follows(r)`: its state fits the place
of its coroutine (`StateFits`), it holds its slot exactly where it has to (`SlotKept`), a batch
accepted by a backend was sent while the request was in it (`SentTogether`), and a path that
ended is settled (`Finished`). Almost every step is about one request; `StepOfOne` and
`OthersKeep` show once that the others keep their part. A cycle is the exception: it places
requests whose coroutines did not ask for it, and `CyclePlaceKeepsInv` treats it with what
admission does to the engine (`AdmissionActs`, `PlacementActs`).

### Control plane (`ControlPlaneProofs`)

Assumptions: `RequestsAssumption`, `QueueConfigAssumption` (sizes and timeouts as the
configuration classes accept them).

| Theorem | States |
|---|---|
| `QueueStaysWellFormed` | `QueueWellFormed` |
| `FailureRecordsAgree` | `FailureRecordAgrees` |
| `OnlyAdmittedWait` | `WaitingWasAdmitted` |
| `FifoOrderIsKept` | the action property `FifoOrderKept` |
| `NoRequestResurrects` | the action property `NoResurrection` |

The queue is rebuilt by filtering it (`remaining = [...]`) and renumbering it. The model filters
by ranks (`ItemsAt`: the items at a set of places, each at the rank of its place), which
says what the comprehension returns without recursion, and `ItemsAtIsSubsequence` proves
that it is a subsequence, from `RankIsMonotone` and `RankIsOnto`. Every operation of the queue
then either drops items (`DropsItems`) or appends one whose arrival is not before any other's
(`EnqueueKeepsQueue`), and `QueueInv` follows. The action property about order is the
same split (`StepDropsOrEnqueues`). `TableLeavesOnlyWork` is the fact about the transition
table that `NoResurrection` needs: no entry leaves a terminal state.

### Scheduler (`SchedulerProofs`)

Assumptions: `NoThreadIsNone` for the first two theorems, which hold for any threads, policies
and loads; for the others also `LimitsPositive`, `ObjectivesPositive`, `WeightsPositive`,
`LoadsBounded` and `RequestsAssumption`.

| Theorem | States |
|---|---|
| `CyclesAreExclusive` | at most one thread is inside a cycle |
| `ModeIsTruthful` | `ModeTellsLastCycle` |
| `PoliciesAreHonoured` | `PolicyHonoured` |
| `SharesAreFair` | `FairShare` |

The second rests on the first: the mode is read and written in two steps, and only
because the thread between them holds the lock can no other cycle fail in between. The
invariant adds to `LockHeld` that `stopping` implies `running` (`StopsRunning`), and says what
the mode may be at each place of a cycle (`ModeInCycle`), startup and shutdown running freely
beside it.

That the policies are honoured is not a matter of the sort alone, because every candidate reads
the clock for itself while it is converted, and expiry runs beside it. `BeforeIsOrder` shows
that each policy's comparison is a strict total order on candidates, the ratios of the
weighted policies included (`RatiosChain` chains the products that stand for the
divisions). `OrderedIsSorted` and `SelectedGoFirst` then say that a prefix of the sorted candidates
excludes nobody who comes before one of them, and `BeforeIsHonoured` turns the order of
candidates into the order judged by the queue. `CycleInv` keeps what these facts need
through a cycle: the queue is in order of arrival (`QueueInv`), candidate p was made of item p
and the clock was read in that order (`ScanInv`, `ReadAt`), the decision is the one of the
scan (`DecisionInv`). For the shares it also counts: `served` is what the fairness policy selected
(`ServedInv`) and never more than the cycles begun allow (`LoadInv`, `CurrentInv`).

### Dispatch and routing (`DispatchProofs`)

Assumptions: `RoutingAssumption`, `BackendsAssumption` (the default backend is one of them),
`RequestsAssumption` (requests are naturals), `SetupsAssumption`.

| Theorem | States |
|---|---|
| `OffersFollowThePolicy` | `OfferedInOrder` |
| `RefusalsExhaustTheBackends` | `RefusedMeansExhausted` |
| `AcceptedMeansExecuted` | `AcceptedWasExecuted` |
| `ExecutionsArePaidFor` | `ExecutedPerOffer` |

For each request, `Sound(r)` says what its submission has established: nothing before it
started (`Fresh`), the batch it is about (`Subject`), that the excluded backends are those
already offered (`Excludes`), the backends named by its targets and results
(`Targets`, `Results`), where its execution is (`Executing`, `Executed`), that the offers are in the
policy's order (`Ordered`) and, once it is refused, without a gap to the end (`Exhausted`).
`RouteIsPreferred` shows that a route is the most preferred usable backend not excluded, and
`AppendInOrder` that offering it extends the order. `BackendsInv` keeps health and setup
together. Completions only grow, which is why the steps of others cannot undo `Executed`
(`OthersStaySound`).

The fourth theorem counts. An offer is `Open` while the submission that made it may still
execute the request under it, and the offers of a streamed request's own submission are kept for
its stream; the others are `Used`. Each execution closes an offer, so the executions of a
request never exceed the used offers (`PaidFor`), and whoever hands a batch to a backend has
made an offer (`Backed`). Finite sets are counted with the library's cardinality theorems.

### Gateway and streams (`GatewayProofs`)

Assumptions: `LimitsAssumption`, `BoundsAssumption`.

| Theorem | States |
|---|---|
| `ValidationIsExact` | `ValidationExact` |
| `AnswerAlwaysTellsOutcome` | `AnswerTellsOutcome` |
| `EveryBodyEndsWithDone` | `BodyEndsWithDone` |
| `ClientAgreesWithRecord` | `ClientAndRecordAgree` |
| `TokensAlwaysAccounted` | `TokensAccounted` |
| `PercentilesAreRight` | `PercentilesRight` |

`Inv` is `Typed` and three parts: `HandlingInv` (the answer, the record and the place of the handler
agree, and no timeout reaches a request that was told of its rejection), `BodyInv` (what the body already holds, the session's state and the place of the stream
engine agree) and `TokenInv` (the counters count the chunks the client took). A body grows by
few lines at a time, and `SilentStep`, `SpeakingStep` and `FailureStep` treat the kinds of growth.
For the percentiles, `TimesInv` adds that the timestamps were taken in order, the one of a
chunk that is still with the client included, so that latencies are naturals
(`LatenciesTyped`). `OrderedIsSorted` shows that sorting by ranks gives a sorted permutation,
`SortedHasPlace`, counting with `SoMany`, that the value at a place has as many values on either
side as the place says, and `IndexIsNearest` that the index computed is that of the nearest
place, for every number of samples.

### Telemetry (`TelemetryProofs`)

Assumptions: `RequestsAssumption`, `BoundsAssumption`.

| Theorem | States |
|---|---|
| `TellingInvariant` | the invariant itself, `TypeOK` among its parts |
| `TimelinesAreCausal` | `TimelineCausal` |
| `TracesTellOutcomes` | `TraceTellsOutcome` |
| `EndsAreCountedOnce` | `CountedOnce` |
| `QuietRunsAreTold` | the second invariant: an undisturbed run is told by its script |
| `QuietReplaysMatch` | `QuietReplayMatches` |
| `MatchesMeanSameRun` | `MatchMeansSameRun` |

`TraceInv` says of each trace that its times are in the past (`TimesPast`), that every effect comes
after its cause (`CausesTold`) and every failure record after the events it is about
(`FailuresFollow`), that the stages of a request were told one after another (`StagesInTurn`),
that a state told is the latest (`StatesAreLatest`), and that an end is stated as one
(`EndsAreStated`). For each request the invariant relates the trace to its place
(`PathTold`, `StagesTold`, `EndsAreForeign`, `EndIsTold`) and the gauge to what has been settled; `CycleInv`
says that a time a cycle thread has taken but not yet appended lies behind the admission
of its request. Every step appends a list of events, and `Says` describes a list by what these
parts need of it; one lemma per list (`StartSays`, `QueueSays`,
`PlacementSays`, `CompletionSays`, ...) keeps the proof of the steps independent of the
events' contents. The timeline is the trace permuted by ranks (`TimelineIsSorted`), and
`EndIsInferred` shows that the reconstruction finds the last end in it.

The other theorems are about comparison, and rest on a second invariant, `QuietInv`, which says
what the trace of a request is as long as nobody else has touched the request. Each step of its
script tells a list of events (`Heard`), these lists follow one another in the trace, and
`Tells` names the places where they meet. What has been told since the last step of the
script is determined by the place of the path (`Rest`), by how far the cycle's thread has come
with it (`CycleTold`) and, at the end, by how the run ended (`Outcome`). A step either notes
something and tells its list (`Heard`) or tells something that becomes part of `Rest`; when
the script grows, what was the rest is the first part of what the new step tells. The path's place,
state, attempts and verdict are those its script implies (`StandsAs`, `QuietState`,
`QuietEngine`), and the script is one the path can take (`WellTold`). A cycle's thread may append what
it has stamped earlier, but for an undisturbed request no event of the loop comes in between
(`QuietCycle`), so the trace is in the order of its times (`InTime`) and the timeline is the trace
itself. Three things would break this, and each makes the request disturbed: a foreign cycle that
picks it up, another coroutine's dispatch of its batch, and its expiry.

A captured record therefore fits its script (`Fits`). In one direction, two traces of one script
agree in all their events but the opening one, of the gateway or the replay engine, and differ in
times; no compared field keeps either, and the filtered lists are equal (`SameScriptSameRecord`).
In the other, the filtered events of the execution are the whole trace after its opening event
(`SignatureTells`), so equal records mean traces that agree in kind from the second event on. They
are compared from the left: if the scripts differed, there would be a least step at which they do;
up to it both tell the same number of events, and the next event, or the end of the trace, or
the recorded outcome, separates any two steps that may follow there (`SameTypesSameSteps`,
`SameRecordSameScript`). The least differing step takes the place of an induction over the
script. The first step is left out of the statement (`Tail`) because whether a request led its
batch is not heard in a run whose batch was never dispatched.

### Durable history (`PersistenceProofs`)

Assumptions: `IdsAssumption` (a replay's id is not an original's), `BoundsAssumption`.

| Theorem | States |
|---|---|
| `TypeCorrect` | `TypeOK`, and that the running call is about the newest and cached capture |
| `CapturesAreAtomic` | `AllOrNothing` |
| `StoredStaysDurable` | `StoredIsDurable` |
| `ReplayOutcomesAreDurable` | `ReplayOutcomeDurable` |
| `NoPhantomRowsEver` | `NoPhantomRows` |
| `StoredIsAlwaysServed` | `StoredIsServed` |
| `StoreImplementsDurableHistory` | every behaviour of the store is one of `DurableHistory`, under the mapping `History` |

Atomicity of the file needs to know what is pending. While a capture is being written, all
other requests' pending rows are complete (`PendingComplete`), the rows of the running one
are those its statements have written so far (`Written`, one clause per statement), and no row is
newer than the latest capture (`NotNewer`), which makes the written rows distinguishable
from older ones. A rollback then falls back to the file, a commit completes the capture,
and any other call's commit moves complete rows only. Durability follows the same way from what
was stored being pending as well (`StoredIsPending`), and the replay's outcome from what was
told being pending (`ToldIsPending`). `StatementKeepsInv`, `RollbackKeepsInv`, `QuietReturnKeepsInv` and
`CommitKeepsInv` treat the kinds of steps. Phantom rows need the origin of every row: `OriginInv`
says that the file holds rows of committed captures only and the open transaction besides
those of the one that is running (`RowsFrom`, `Running`), and that replay rows belong to
captured replays (`ReplaysCaptured`). What the store serves needs that the cached capture is the
newest (`CacheIsNewest`).

The refinement rests on the same invariant: by `AllOrNothing` and `PendingComplete` no request is
seen torn, neither in the file nor in the transaction, before or after a step, so that the
mapping reduces to the version of each request's record (`InvSeen`, `QuietSeen`). Then one lemma per
kind of step names the step of the history it is: `CommitAcknowledges` needs that all seven saves
have been made at the commit (`Written`) and that they are of the newest capture (`TypeOK`),
`CommitReports` that the row holds the outcome which is told (`ReplayCall`), and `RowConcludes` that the
capture of the replay was stored before its row is written, which is a small invariant of its own
(`ConcludesStored`).

### What is only model-checked

- `SubmissionsEnd` and `PathsReturn`, which are liveness under fairness and so out of the prover's
  reach with `ENABLED`.
- The three properties of the runs that expect a violation, which do not hold.

## Not modelled

* A second startup of the adapter after a shutdown (the stack is built anew), backend
  removal and re-registration, registry removal, queue clear, scheduler handoff (no caller).
* The trace store's eviction at its limit, and the limits and orders of list queries.
* Cancellation of a full-path coroutine by the web framework; for streams it is
  `Gateway`'s `Abandon`.
* Log lines, spans, metric export and GPU probes: they keep no state that the request path
  reads, and what they do is I/O.
* SSE and error texts, headers, and data-only schemas.
* Benchmark and validation drivers, which use the system and are not part of it; the
  metrics collector and the operator console hold no code.

## Plan

In order:

1. An abstract lifecycle that `RequestPath` refines, as it refines `BatchEngine` already.
2. Eviction of the trace store, and records captured from evicted traces.
