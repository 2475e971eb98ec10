----------------------------- MODULE Telemetry -----------------------------
(***************************************************************************)
(* What the platform tells about a request: the events its components      *)
(* append to the request's trace, the metrics counted with them, the       *)
(* execution record captured at the end, and the comparison of a record    *)
(* with that of a replay.                                                  *)
(*                                                                         *)
(* Events come from two threads.  The event loop (control plane, adapter,  *)
(* replay engine) emits the events of one step back to back; the thread of *)
(* a scheduling cycle takes the time first and appends later.  Both may be *)
(* about the same request.  A timestamp is its rank among the timestamps   *)
(* of the request.  The rest of the program is reduced to the order of its *)
(* steps for one request; other requests appear as foreign cycles,         *)
(* foreign dispatches and the timeouts they trigger.                       *)
(***************************************************************************)
EXTENDS RequestStates, Naturals, Sequences, FiniteSets, SequencesExt

CONSTANTS
  Originals,    \* requests that enter through the gateway
  Replays,      \* replays, each of some original, always on the full path
  SourceOf,     \* the original of a replay
  MaxAttempts,  \* bound: backends a batch is offered to
  MaxNoise      \* bound: steps of other requests that touch these; the runs
                \* they touch are not replayed

Requests == Originals \cup Replays

ASSUME RequestsAssumption ==
  /\ Originals \cap Replays = {}
  /\ SourceOf \in [Replays -> Originals]
ASSUME BoundsAssumption == MaxAttempts \in Nat \ {0} /\ MaxNoise \in Nat

VARIABLES
  streams,    \* the requests with stream = true
  state,      \* state of the registry entry, "none" before it exists
  reason,     \* failure_reason of the entry
  pc,         \* where the request's coroutine stands
  queue,      \* requests in the waiting queue
  batched,    \* requests the batching engine has placed
  submitted,  \* requests whose batch a backend accepted
  cycle,      \* the running scheduling cycle, as far as one request goes
  own,        \* verdict of the request's own cycle
  attempts,   \* backends its own dispatch has offered the batch to
  foreign,    \* requests whose batch another coroutine has handed over
  trace,      \* RequestTrace.events
  stamps,     \* timestamps taken for events of the request
  counted,    \* times the request left the active_requests gauge
  record,     \* the captured RequestExecutionRecord
  noise,
  settled,    \* history: terminal states written that the emitter counts
  script,     \* history: what happened in the request's run
  disturbed   \* history: requests touched by others before their capture

pathVars == <<streams, state, reason, pc, queue, batched, submitted, own, attempts, foreign>>
tellVars == <<trace, stamps, counted, record>>
historyVars == <<settled, script, disturbed>>
vars == <<pathVars, cycle, tellVars, noise, historyVars>>

-----------------------------------------------------------------------------
(***************************************************************************)
(* Events.  to: lifecycle_state; from: from_state is given; failure: the   *)
(* event record_failure appends, with the time of the event before it.     *)
(***************************************************************************)
Event(comp, type, to) ==
  [comp |-> comp, type |-> type, to |-> to, from |-> FALSE, failure |-> FALSE]

\* _emit_state_event, and _emit_for_transition with its from_state.
StateEvent(type, to) == Event("control_plane", type, to)
TransitionEvent(type, to) == [StateEvent(type, to) EXCEPT !.from = TRUE]

QueueEvent(type) == Event("control_plane", type, "none")
SchedulerEvent(type) == Event("scheduler", type, "none")
AdapterEvent(type) == Event("adapter", type, "none")
GatewayEvent == Event("gateway", "gateway_request_received", "received")
ReplayEvent(type) == Event("replay", type, "none")

\* Faulty variant: the failure event does not carry the failure's state.
FailureOfStateless(e, to) == [e EXCEPT !.failure = TRUE]

\* record_failure, for the event recorded just before.
FailureOf(e, to) == [e EXCEPT !.to = to, !.failure = TRUE]

\* Timestamps: every event takes a new one, a failure that of its event.
Stamped(evs, last) ==
  [i \in 1..Len(evs) |->
     [e |-> evs[i], at |-> last + Cardinality({j \in 1..i : ~evs[j].failure})]]

Fresh(evs) == Cardinality({i \in 1..Len(evs) : ~evs[i].failure})

\* RuntimeMetricsRecorder._finish_request is called for these events.
\* Faulty variant: for every completion and rejection, also the second event.
FinishesAlways(e) ==
  /\ ~e.failure
  /\ e.type \in {"request_completed", "request_rejected", "request_failed",
                 "queue_timeout", "queue_full"}

Finishes(e) ==
  /\ ~e.failure
  /\ \/ e.type \in {"request_completed", "request_rejected"} /\ e.from
     \/ e.type \in {"request_failed", "queue_timeout", "queue_full"}

-----------------------------------------------------------------------------
(***************************************************************************)
(* The trace, read back.                                                   *)
(***************************************************************************)

\* Faulty variant: of two events with the same time the later one goes first.
NotAfterReversed(t, j, i) ==
  \/ t[j].at < t[i].at
  \/ t[j].at = t[i].at /\ i <= j

\* sorted() is stable: events of one time stay in the order they were appended.
NotAfter(t, j, i) ==
  \/ t[j].at < t[i].at
  \/ t[j].at = t[i].at /\ j <= i

\* get_request_timeline.
Timeline(t) ==
  LET rank == [i \in 1..Len(t) |-> Cardinality({j \in 1..Len(t) : NotAfter(t, j, i)})]
  IN [k \in 1..Len(t) |-> t[CHOOSE i \in 1..Len(t) : rank[i] = k]]

\* LifecycleTimestamps: the first event appended with a state counts.
SeenAt(t, s) ==
  LET at == {i \in 1..Len(t) : t[i].e.to = s}
  IN IF at = {} THEN 0 ELSE t[CHOOSE i \in at : \A j \in at : i <= j].at

Stages == <<"received", "validated", "admitted", "queued", "scheduled",
            "batched", "submitted", "completed">>

LIFECYCLE_EVENT_TYPES ==
  {"request_received", "request_validated", "request_admitted", "request_queued",
   "request_scheduled", "request_batched", "request_submitted", "request_completed",
   "request_failed", "request_rejected"}
SCHEDULER_EVENT_TYPES == {"request_selected", "request_skipped"}
BATCH_EVENT_TYPES ==
  {"batch_admission", "request_added_to_batch", "request_removed_from_batch"}
BACKEND_EVENT_TYPES ==
  {"batch_submitted", "batch_accepted", "batch_rejected", "backend_selected"}

\* Faulty variant: the gateway's events count as execution.
EXECUTION_COMPONENTS_AND_GATEWAY == {"gateway", "control_plane", "scheduler", "adapter", "backend"}

EXECUTION_COMPONENTS == {"control_plane", "scheduler", "adapter", "backend"}

\* The events of t at the places in kept, in their order.
EventsAt(t, kept) ==
  LET Nth(k) == CHOOSE i \in kept : Cardinality({j \in kept : j <= i}) = k
  IN [k \in 1..Cardinality(kept) |-> t[Nth(k)]]

FilterEvents(t, types) == EventsAt(t, {i \in 1..Len(t) : t[i].e.type \in types})
TypesOf(t) == [i \in 1..Len(t) |-> t[i].e.type]

ExtractLifecycleTransitions(t) ==
  LET l == FilterEvents(t, LIFECYCLE_EVENT_TYPES) IN [i \in 1..Len(l) |-> l[i].e.to]

ExecutionEventSignature(t) ==
  LET x == EventsAt(t, {i \in 1..Len(t) : t[i].e.comp \in EXECUTION_COMPONENTS})
  IN [i \in 1..Len(x) |-> <<x[i].e.comp, x[i].e.type>>]

\* capture_execution_record, of trace t and the entry's outcome.
CaptureExecutionRecord(t, s, why, backend) ==
  LET line == Timeline(t)
  IN [state |-> s, failure_reason |-> why, backend_id |-> backend,
      lifecycle_transitions |-> ExtractLifecycleTransitions(line),
      scheduler_events |-> TypesOf(FilterEvents(line, SCHEDULER_EVENT_TYPES)),
      batch_events |-> TypesOf(FilterEvents(line, BATCH_EVENT_TYPES)),
      backend_events |-> TypesOf(FilterEvents(line, BACKEND_EVENT_TYPES)),
      execution |-> ExecutionEventSignature(line)]

NoRecord == [state |-> "none"]

\* Faulty variant: only the outcome is compared.
CompareExecutionsOutcomeOnly(a, b) == {f \in {"state", "failure_reason"} : a[f] # b[f]}

\* compare_executions: the fields that differ.
CompareExecutions(a, b) == {f \in DOMAIN a : a[f] # b[f]}

\* _infer_terminal_outcome: the state of the last event with an end state.
InferTerminalOutcome(line) ==
  LET ends == {i \in 1..Len(line) :
                 line[i].e.to \in {"completed", "failed", "rejected", "timed_out"}}
  IN IF ends = {} THEN "none" ELSE line[CHOOSE i \in ends : \A j \in ends : j <= i].e.to

\* reconstruct_request: the record if there is one, else what the trace tells.
ReconstructRequest(r) ==
  IF record[r] # NoRecord THEN record[r].state ELSE InferTerminalOutcome(Timeline(trace[r]))

-----------------------------------------------------------------------------
(***************************************************************************)
(* Steps of the event loop.  Told gives trace, timestamps and counts after *)
(* the events evs about r; a step that ends the request also captures it.  *)
(***************************************************************************)
Told(r, evs) ==
  /\ trace' = [trace EXCEPT ![r] = @ \o Stamped(evs, stamps[r])]
  /\ stamps' = [stamps EXCEPT ![r] = @ + Fresh(evs)]
  /\ counted' = [counted EXCEPT ![r] = @ + Cardinality({i \in 1..Len(evs) : Finishes(evs[i])})]

\* The entry's backend_id is set with SUBMITTED: the backend that accepted.
BackendId(r, t) == IF SeenAt(t, "submitted") = 0 THEN 0 ELSE attempts[r]

\* capture_from_entry, after the events evs and the outcome s, why.
Captured(r, evs, s, why) ==
  LET t == trace[r] \o Stamped(evs, stamps[r])
  IN record' = [record EXCEPT ![r] = CaptureExecutionRecord(t, s, why, BackendId(r, t))]

Becomes(r, s, why) ==
  /\ state' = [state EXCEPT ![r] = s]
  /\ reason' = [reason EXCEPT ![r] = why]

Goto(r, label) == pc' = [pc EXCEPT ![r] = label]

\* What happened, for the comparison of two runs.
Noted(r, what) == script' = [script EXCEPT ![r] = Append(@, what)]

Settles(r) == settled' = [settled EXCEPT ![r] = @ + 1]

\* A state was reached that is not the end of the request.
Steps(r, evs, s, label) ==
  /\ Told(r, evs)
  /\ Becomes(r, s, reason[r])
  /\ Goto(r, label)
  /\ UNCHANGED record

Continues(r, evs, s, label) == Steps(r, evs, s, label) /\ UNCHANGED settled

\* replay() tells its outcome after the capture.
Report(r, type) == IF r \in Replays THEN <<ReplayEvent(type)>> ELSE <<>>

\* The request ends in state s and is captured.
Ends(r, evs, s, why) ==
  /\ Told(r, evs \o Report(r, IF s = "completed" THEN "replay_completed" ELSE "replay_failed"))
  /\ Becomes(r, s, why)
  /\ Captured(r, evs, s, why)
  /\ Goto(r, "done")

\* mark_failed: the transition is told before the reason is set; where the
\* table forbids it, the state event carries no reason at all.
FailedEvents(r) ==
  LET e == TransitionEvent("request_failed", "failed")
  IN IF ~IsAllowedTransition(state[r], "failed")
     THEN <<StateEvent("request_failed", "failed")>>
     ELSE IF reason[r] = "none" THEN <<e>> ELSE <<e, FailureOf(e, "failed")>>

\* The control plane's part of the loop's step is not interrupted by others.
LoopFree == \A r \in Requests : pc[r] \notin {"visible", "enqueued"}

Free == UNCHANGED <<streams, queue, batched, submitted, own, attempts, foreign, cycle, noise, disturbed>>

-----------------------------------------------------------------------------
(***************************************************************************)
(* Submission: accept_request of the gateway, or replay() on a fresh       *)
(* stack; then admission and the queue.                                    *)
(***************************************************************************)

\* lead: the request is the first of its batch, whose id routing events carry.
Start(r) ==
  /\ pc[r] = "new" /\ LoopFree
  /\ r \in Replays => record[SourceOf[r]] # NoRecord /\ noise = 0
  /\ \E lead \in IF r \in Replays THEN {TRUE} ELSE BOOLEAN :
       Noted(r, IF lead THEN <<"lead">> ELSE <<"follow">>)
  /\ Continues(r, <<IF r \in Replays THEN ReplayEvent("replay_started") ELSE GatewayEvent,
                    StateEvent("request_received", "received"),
                    TransitionEvent("request_validated", "validated")>>, "validated", "admission")
  /\ Free

\* A refused stream is answered without a capture.
RefusedAtOnce(r, evs, s, why) ==
  IF r \in streams
  THEN Told(r, evs) /\ Becomes(r, s, why) /\ Goto(r, "done") /\ UNCHANGED record
  ELSE Ends(r, evs, s, why)

\* run_admission refuses, with the default reason of AdmissionFailure: no
\* from_state, so the metrics do not count it.
AdmissionRejects(r) ==
  /\ pc[r] = "admission" /\ LoopFree
  /\ RefusedAtOnce(r, <<StateEvent("request_rejected", "rejected")>>, "rejected", "queue_full")
  /\ Noted(r, <<"rejected">>)
  /\ UNCHANGED settled
  /\ Free

AdmissionRaises(r) ==
  /\ pc[r] = "admission" /\ LoopFree
  /\ RefusedAtOnce(r, FailedEvents(r), "failed", "internal")
  /\ Noted(r, <<"admission_error">>)
  /\ Settles(r)
  /\ Free

QueueFull(r) ==
  /\ pc[r] = "admission" /\ LoopFree
  /\ LET full == QueueEvent("queue_full")
     IN RefusedAtOnce(r, <<TransitionEvent("request_admitted", "admitted"), full,
                           FailureOf(full, "rejected")>>, "rejected", "queue_full")
  /\ Noted(r, <<"queue_full">>)
  /\ Settles(r)
  /\ Free

\* The item is in the queue, and visible to cycles, before the entry is QUEUED.
Admitted(r) ==
  /\ pc[r] = "admission" /\ LoopFree
  /\ Continues(r, <<TransitionEvent("request_admitted", "admitted")>>, "admitted", "visible")
  /\ queue' = queue \cup {r}
  /\ UNCHANGED <<streams, batched, submitted, own, attempts, foreign, cycle, noise, script, disturbed>>

Enqueued(r) ==
  /\ pc[r] = "visible"
  /\ Continues(r, <<QueueEvent("request_enqueued")>>, "queued", "enqueued")
  /\ UNCHANGED script
  /\ Free

Queued(r) ==
  /\ pc[r] = "enqueued"
  /\ Continues(r, <<StateEvent("request_queued", "queued")>>, "queued", "waiting")
  /\ UNCHANGED script
  /\ Free

-----------------------------------------------------------------------------
(***************************************************************************)
(* Scheduling cycles, in threads of their own and one at a time.  Only     *)
(* what a cycle decides and tells about one request is kept.               *)
(***************************************************************************)
NoEvent == [e |-> Event("none", "none", "none"), at |-> 0]

NoCycle == [of |-> "none", mine |-> FALSE, verdict |-> "absent", lost |-> FALSE,
            todo |-> <<>>, stamped |-> NoEvent]

\* What a cycle can decide; the engine refuses silently what it has placed.
Verdicts(r) ==
  IF r \notin queue THEN {"absent"}
  ELSE {"absent", "skipped"} \cup
       (IF r \in batched THEN {"already_batched"} ELSE {"placed", "refused"})

\* The events of the placement come first, the decision's last.
EventsOf(verdict) ==
  CASE verdict = "absent" -> <<>>
    [] verdict = "skipped" -> <<"request_skipped">>
    [] verdict = "already_batched" -> <<"request_selected">>
    [] verdict = "refused" -> <<"batch_admission", "request_selected">>
    [] verdict = "placed" -> <<"request_added_to_batch", "request_selected">>

CycleStarts(r, mine) ==
  /\ cycle = NoCycle
  /\ \E v \in Verdicts(r) :
       cycle' = [NoCycle EXCEPT !.of = r, !.mine = mine, !.verdict = v, !.todo = EventsOf(v)]

\* A stream that was touched while it waited does not begin its cycle.
OwnCycle(r) ==
  /\ pc[r] = "waiting" /\ LoopFree
  /\ r \in streams => state[r] = "queued"
  /\ CycleStarts(r, TRUE)
  /\ Goto(r, "cycling")
  /\ UNCHANGED <<streams, state, reason, queue, batched, submitted, own, attempts, foreign,
                 tellVars, noise, historyVars>>

Disturbs(r) ==
  /\ noise < MaxNoise
  /\ \A q \in Replays : pc[q] = "new"
  /\ noise' = noise + 1
  /\ disturbed' = IF record[r] = NoRecord THEN disturbed \cup {r} ELSE disturbed

\* The tick loop's cycle, or that of another request.
ForeignCycle(r) ==
  /\ r \in queue
  /\ CycleStarts(r, FALSE)
  /\ Disturbs(r)
  /\ UNCHANGED <<pathVars, tellVars, settled, script>>

CycleStamps ==
  /\ cycle.todo # <<>> /\ cycle.stamped = NoEvent
  /\ cycle' = [cycle EXCEPT !.stamped = [e |-> SchedulerEvent(Head(cycle.todo)),
                                         at |-> stamps[cycle.of] + 1]]
  /\ stamps' = [stamps EXCEPT ![cycle.of] = @ + 1]
  /\ UNCHANGED <<pathVars, trace, counted, record, noise, historyVars>>

\* The engine's lock is held until the placement is told.
CycleAppends ==
  /\ cycle.stamped # NoEvent
  /\ cycle' = [cycle EXCEPT !.todo = Tail(@), !.stamped = NoEvent]
  /\ trace' = [trace EXCEPT ![cycle.of] = Append(@, cycle.stamped)]
  /\ batched' = IF cycle.stamped.e.type = "request_added_to_batch"
                THEN batched \cup {cycle.of} ELSE batched
  /\ UNCHANGED <<streams, state, reason, pc, queue, submitted, own, attempts, foreign,
                 stamps, counted, record, noise, historyVars>>

\* A later placement of the same cycle raises: its result is empty.
CycleRaises ==
  /\ cycle.stamped = NoEvent
  /\ cycle.todo = <<"request_selected">>
  /\ cycle.verdict \in {"placed", "refused"}
  /\ cycle' = [cycle EXCEPT !.lost = TRUE, !.todo = <<>>]
  /\ UNCHANGED <<pathVars, tellVars, noise, historyVars>>

CycleEnds ==
  /\ cycle # NoCycle /\ cycle.todo = <<>>
  /\ cycle' = NoCycle
  /\ IF cycle.mine
     THEN /\ own' = [own EXCEPT ![cycle.of] = IF cycle.lost THEN "absent" ELSE cycle.verdict]
          /\ Goto(cycle.of, "dispatching")
          /\ Noted(cycle.of, IF cycle.lost THEN <<"lost", cycle.verdict>> ELSE <<cycle.verdict>>)
     ELSE UNCHANGED <<own, pc, script>>
  /\ UNCHANGED <<streams, state, reason, queue, batched, submitted, attempts, foreign, tellVars,
                 noise, settled, disturbed>>

-----------------------------------------------------------------------------
(***************************************************************************)
(* Dispatch: submit_pending_batches after the request's own cycle.         *)
(***************************************************************************)
Lead(r) == script[r][1] = <<"lead">>

\* Routing tells the batch's first request only.
RoutingEvent(r, type) == IF Lead(r) THEN <<SchedulerEvent(type)>> ELSE <<>>

\* The batch is not yet submitted; a member that completed is not handed over.
Pending(r) == r \in batched \ submitted /\ pc[r] # "done"

DispatchStep(r, evs, label, what) ==
  /\ LoopFree
  /\ Told(r, evs)
  /\ Goto(r, label)
  /\ Noted(r, what)
  /\ UNCHANGED <<streams, state, reason, queue, batched, own, foreign, cycle, record, noise,
                 settled, disturbed>>

HandOver(r) ==
  /\ pc[r] = "dispatching" /\ Pending(r)
  /\ attempts[r] < MaxAttempts
  /\ attempts' = [attempts EXCEPT ![r] = @ + 1]
  /\ DispatchStep(r, RoutingEvent(r, "backend_selected") \o <<AdapterEvent("batch_submitted")>>,
                  "submitting", <<"handed">>)
  /\ UNCHANGED submitted

RouteFails(r) ==
  /\ pc[r] = "dispatching" /\ Pending(r)
  /\ DispatchStep(r, RoutingEvent(r, "routing_failed"), "refused", <<"no_route">>)
  /\ UNCHANGED <<submitted, attempts>>

NothingToDispatch(r) ==
  /\ pc[r] = "dispatching" /\ ~Pending(r)
  /\ DispatchStep(r, <<>>, "refused", <<"not_dispatched">>)
  /\ UNCHANGED <<submitted, attempts>>

AdapterAccepts(r) ==
  /\ pc[r] = "submitting"
  /\ submitted' = submitted \cup {r}
  /\ DispatchStep(r, <<AdapterEvent("batch_accepted")>>, "accepted", <<"accepted">>)
  /\ UNCHANGED attempts

\* Also a failure of every request in the batch; the next backend is tried.
AdapterRejects(r) ==
  /\ pc[r] = "submitting"
  /\ LET e == AdapterEvent("batch_rejected")
     IN DispatchStep(r, <<e, FailureOf(e, "failed")>>, "dispatching", <<"declined">>)
  /\ UNCHANGED <<submitted, attempts>>

\* After an exception routing is asked twice: whether and where to retry.
AdapterRaises(r) ==
  /\ pc[r] = "submitting"
  /\ IF attempts[r] < MaxAttempts
     THEN DispatchStep(r, RoutingEvent(r, "backend_selected"), "dispatching", <<"raised">>)
     ELSE DispatchStep(r, RoutingEvent(r, "routing_failed"), "refused", <<"raised">>)
  /\ UNCHANGED <<submitted, attempts>>

\* Another request's coroutine hands over the batch of r, and its answer,
\* which may come after the end of r.
ForeignHandOver(r) ==
  /\ LoopFree /\ Pending(r) /\ r \notin foreign
  /\ Told(r, RoutingEvent(r, "backend_selected") \o <<AdapterEvent("batch_submitted")>>)
  /\ foreign' = foreign \cup {r}
  /\ Disturbs(r)
  /\ UNCHANGED <<streams, state, reason, pc, queue, batched, submitted, own, attempts, cycle,
                 record, settled, script>>

ForeignAnswer(r) ==
  /\ LoopFree /\ r \in foreign
  /\ foreign' = foreign \ {r}
  /\ \/ /\ Told(r, <<AdapterEvent("batch_accepted")>>)
        /\ submitted' = submitted \cup {r}
     \/ /\ LET e == AdapterEvent("batch_rejected") IN Told(r, <<e, FailureOf(e, "failed")>>)
        /\ UNCHANGED submitted
  /\ UNCHANGED <<streams, state, reason, pc, queue, batched, own, attempts, cycle, record,
                 noise, historyVars>>

-----------------------------------------------------------------------------
(***************************************************************************)
(* Finalisation of the full path and of the streaming path.                *)
(***************************************************************************)

\* mark_failed, then the capture.
Fails(r, why) == Ends(r, FailedEvents(r), "failed", why) /\ Settles(r)

\* Without a placement; a request that was skipped is captured as it is.
EndsUnplaced(r) ==
  /\ pc[r] \in {"accepted", "refused"} /\ LoopFree
  /\ \/ own[r] \in {"refused", "already_batched"} /\ Fails(r, "adapter")
     \/ own[r] = "absent" /\ Fails(r, "internal")
     \/ own[r] = "skipped" /\ r \in streams /\ Fails(r, "internal")
     \/ own[r] = "skipped" /\ r \notin streams /\ Ends(r, <<>>, state[r], reason[r])
        /\ UNCHANGED settled
  /\ UNCHANGED script
  /\ Free

\* A stream's error: mark_failed unless the request failed or was cancelled.
StreamFails(r) ==
  IF state[r] \in {"failed", "cancelled"}
  THEN Ends(r, <<>>, state[r], reason[r]) /\ UNCHANGED settled
  ELSE Fails(r, "adapter")

\* transition raises: a full path ends without a capture, a stream with one.
TransitionRefused(r) ==
  IF r \in streams THEN StreamFails(r)
  ELSE /\ Told(r, Report(r, "replay_failed"))
       /\ Goto(r, "done")
       /\ UNCHANGED <<state, reason, record, settled>>

Placed(r, events, s) ==
  Continues(r, <<TransitionEvent("request_scheduled", "scheduled"),
             TransitionEvent("request_batched", "batched")>> \o events, s, "executing")

EndsPlaced(r) ==
  /\ pc[r] \in {"accepted", "refused"} /\ own[r] = "placed" /\ LoopFree
  /\ IF ~IsAllowedTransition(state[r], "scheduled")
     THEN TransitionRefused(r)
     ELSE IF pc[r] = "accepted"
     THEN Placed(r, <<TransitionEvent("request_submitted", "submitted")>>,
                 IF r \in streams THEN "streaming" ELSE "submitted")
     ELSE /\ Ends(r, <<TransitionEvent("request_scheduled", "scheduled"),
                       TransitionEvent("request_batched", "batched"),
                       TransitionEvent("request_failed", "failed")>>, "failed", "adapter")
          /\ Settles(r)
  /\ UNCHANGED script
  /\ Free

Completion ==
  <<TransitionEvent("request_completed", "completed"),
    StateEvent("request_completed", "completed")>>

Completable(r) == state[r] \in {"submitted", "streaming"}

Removed == SchedulerEvent("request_removed_from_batch")

\* The slot is released in any case; then complete_request, or its refusal.
Completes(r) ==
  /\ pc[r] = "executing" /\ LoopFree /\ Completable(r)
  /\ IF r \in streams
     THEN Steps(r, <<Removed>> \o Completion, "completed", "closing")
     ELSE Ends(r, <<Removed>> \o Completion, "completed", reason[r])
  /\ Settles(r)
  /\ UNCHANGED script
  /\ Free

CompletionRefused(r) ==
  /\ pc[r] = "executing" /\ LoopFree /\ ~Completable(r)
  /\ IF r \notin streams
     THEN /\ Told(r, <<Removed>> \o Report(r, "replay_failed"))
          /\ Goto(r, "done")
          /\ UNCHANGED <<state, reason, record, settled>>
     ELSE IF state[r] \in {"failed", "cancelled"}
     THEN Ends(r, <<Removed>>, state[r], reason[r]) /\ UNCHANGED settled
     ELSE Ends(r, <<Removed>> \o FailedEvents(r), "failed", "adapter") /\ Settles(r)
  /\ UNCHANGED script
  /\ Free

\* A stream that was touched before its body was read.
StreamNotQueued(r) ==
  /\ r \in streams /\ pc[r] = "waiting" /\ state[r] # "queued" /\ LoopFree
  /\ StreamFails(r)
  /\ UNCHANGED script
  /\ Free

\* An error of the backend's stream, or of the capture after the last chunk.
StreamError(r) ==
  /\ r \in streams /\ pc[r] \in {"executing", "closing"} /\ LoopFree
  /\ StreamFails(r)
  /\ Noted(r, <<"stream_error">>)
  /\ Free

\* The client went away: no event tells it, and the metrics do not count it.
StreamCancel(r) ==
  /\ r \in streams /\ pc[r] = "executing" /\ LoopFree
  /\ Ends(r, <<>>, IF Completable(r) THEN "cancelled" ELSE state[r], reason[r])
  /\ Noted(r, <<"cancelled">>)
  /\ UNCHANGED settled
  /\ Free

CloseStream(r) ==
  /\ pc[r] = "closing" /\ LoopFree
  /\ Ends(r, <<>>, state[r], reason[r])
  /\ UNCHANGED <<settled, script>>
  /\ Free

\* The generator of the response body is dropped at a yield.
StreamAbandoned(r) ==
  /\ r \in streams /\ pc[r] \in {"executing", "closing"} /\ LoopFree
  /\ Goto(r, "done")
  /\ UNCHANGED <<state, reason, tellVars, settled, script>>
  /\ Free

\* process_timeouts, when another request is submitted.
Timeout(r) ==
  /\ LoopFree /\ r \in queue
  /\ queue' = queue \ {r}
  /\ Becomes(r, "timed_out", "queue_timeout")
  /\ LET e == QueueEvent("queue_timeout") IN Told(r, <<e, FailureOf(e, "timed_out")>>)
  /\ Settles(r)
  /\ Disturbs(r)
  /\ UNCHANGED <<streams, pc, batched, submitted, own, attempts, foreign, cycle, record, script>>

-----------------------------------------------------------------------------
Init ==
  /\ streams \in SUBSET Originals
  /\ state = [r \in Requests |-> "none"]
  /\ reason = [r \in Requests |-> "none"]
  /\ pc = [r \in Requests |-> "new"]
  /\ queue = {} /\ batched = {} /\ submitted = {} /\ foreign = {}
  /\ cycle = NoCycle
  /\ own = [r \in Requests |-> "absent"]
  /\ attempts = [r \in Requests |-> 0]
  /\ trace = [r \in Requests |-> <<>>]
  /\ stamps = [r \in Requests |-> 0]
  /\ counted = [r \in Requests |-> 0]
  /\ record = [r \in Requests |-> NoRecord]
  /\ noise = 0
  /\ settled = [r \in Requests |-> 0]
  /\ script = [r \in Requests |-> <<>>]
  /\ disturbed = {}

Next ==
  \/ \E r \in Requests :
       \/ Start(r) \/ AdmissionRejects(r) \/ AdmissionRaises(r) \/ QueueFull(r)
       \/ Admitted(r) \/ Enqueued(r) \/ Queued(r)
       \/ OwnCycle(r) \/ ForeignCycle(r)
       \/ HandOver(r) \/ RouteFails(r) \/ NothingToDispatch(r)
       \/ AdapterAccepts(r) \/ AdapterRejects(r) \/ AdapterRaises(r)
       \/ ForeignHandOver(r) \/ ForeignAnswer(r)
       \/ EndsUnplaced(r) \/ EndsPlaced(r) \/ Completes(r) \/ CompletionRefused(r)
       \/ StreamNotQueued(r) \/ StreamError(r) \/ StreamCancel(r) \/ CloseStream(r)
       \/ StreamAbandoned(r) \/ Timeout(r)
  \/ CycleStamps \/ CycleAppends \/ CycleRaises \/ CycleEnds

Spec == Init /\ [][Next]_vars

-----------------------------------------------------------------------------
(***************************************************************************)
(* Properties.                                                             *)
(***************************************************************************)

\* Type correctness.
TypeOK ==
  /\ streams \subseteq Originals
  /\ \A r \in Requests :
       /\ state[r] \in RequestState \cup {"none"}
       /\ pc[r] \in {"new", "admission", "visible", "enqueued", "waiting", "cycling",
                     "dispatching", "submitting", "accepted", "refused", "executing",
                     "closing", "done"}
       /\ attempts[r] \in 0..MaxAttempts
       /\ \A i \in DOMAIN trace[r] : trace[r][i].at \in 1..stamps[r]
  /\ queue \cup batched \cup submitted \cup foreign \cup disturbed \subseteq Requests
  /\ cycle.of \in Requests \cup {"none"}

Types(events) == {ev.e.type : ev \in events}

\* What another component, or the queue, must have told before such an event.
Causes(type) ==
  CASE type \in {"request_enqueued", "batch_admission", "request_added_to_batch",
                 "request_selected", "request_skipped"} -> {"request_admitted"}
    [] type \in {"request_queued", "queue_timeout"} -> {"request_enqueued"}
    [] type \in {"batch_submitted", "request_removed_from_batch", "request_scheduled"}
         -> {"request_added_to_batch"}
    [] type \in {"batch_accepted", "batch_rejected"} -> {"batch_submitted"}
    [] type = "request_submitted" -> {"batch_accepted"}
    [] OTHER -> {}

\* get_request_timeline never shows an effect before its cause, although the
\* cycle thread takes the time of an event before it appends it and the event
\* loop appends in between; a failure follows the event it belongs to.  The
\* times a trace keeps for the stages of a request are those of a prefix of the
\* stages, and they increase: durations between them are not negative.
TimelineCausal ==
  /\ TypeOK
  /\ \A r \in Requests :
       LET line == Timeline(trace[r])
       IN \A i \in DOMAIN line :
            LET before == {line[j] : j \in 1..(i - 1)}
            IN /\ Causes(line[i].e.type) \subseteq Types(before)
               /\ line[i].e.failure =>
                    \E ev \in before : ev.at = line[i].at /\ ev.e.type = line[i].e.type
  /\ \A r \in Requests : \A j \in 2..Len(Stages) :
       SeenAt(trace[r], Stages[j]) # 0 =>
         SeenAt(trace[r], Stages[j - 1]) \in 1..SeenAt(trace[r], Stages[j])

\* Events that tell an end.
EndTypes ==
  {"request_completed", "request_failed", "request_rejected", "queue_timeout",
   "queue_full", "batch_rejected"}

\* A request that ended without a record can still be reconstructed: the last
\* end its trace tells is the one the registry holds, unless a backend refused
\* the batch after that end.  Cancellation is never told.
TraceTellsOutcome ==
  \A r \in Requests :
    /\ pc[r] = "done" /\ record[r] = NoRecord
    /\ state[r] \in TerminalStates \ {"cancelled"}
    => LET line == Timeline(trace[r])
       IN \/ ReconstructRequest(r) = state[r]
          \/ /\ r \in disturbed
             /\ \E i \in DOMAIN line :
                  /\ line[i].e.type = "batch_rejected"
                  /\ \A j \in DOMAIN line : line[j].e.type \in EndTypes => j <= i

\* The request leaves the gauge of active requests once for every end the
\* control plane records with a transition or from the queue, although
\* complete_request emits two events.
CountedOnce == \A r \in Requests : counted[r] = settled[r]

\* What a stream does differently: a stream that is skipped fails.
Comparable(r) == r \in streams => <<"skipped">> \notin Range(script[r])

Captures(o, p) ==
  /\ record[o] # NoRecord /\ record[p] # NoRecord
  /\ {o, p} \cap disturbed = {}

\* A replay in which the same things happened gives a record that
\* compare_executions finds equal, streamed or not, whatever the cycle thread
\* interleaved.
QuietReplayMatches ==
  \A p \in Replays :
    Captures(SourceOf[p], p) /\ script[p] = script[SourceOf[p]] /\ Comparable(SourceOf[p])
      => CompareExecutions(record[SourceOf[p]], record[p]) = {}

\* And where compare_executions finds no difference, the same things happened.
MatchMeansSameRun ==
  \A p \in Replays :
    /\ Captures(SourceOf[p], p)
    /\ CompareExecutions(record[SourceOf[p]], record[p]) = {}
    => Tail(script[p]) = Tail(script[SourceOf[p]])

=============================================================================
