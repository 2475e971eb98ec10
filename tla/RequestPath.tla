---------------------------- MODULE RequestPath ----------------------------
(***************************************************************************)
(* The life of requests through the embedded stack: the gateway's          *)
(* orchestrator and stream engine, the scheduling cycle, the scheduler's   *)
(* tick loop and the dispatch of batches, composed with the control plane  *)
(* and the batching engine.                                                *)
(*                                                                         *)
(* Each request is a coroutine of the one event loop; it can be overtaken  *)
(* by others only where the code awaits something that suspends: the       *)
(* scheduling cycle in its worker thread, the submission to the adapter    *)
(* and the next stream chunk.  The embedded stack installs no admission    *)
(* checks and looks completions up in memory, so these awaits keep the     *)
(* event loop; only cycle threads run next to them.  Cycles of different   *)
(* requests and of the tick loop exclude each other by a lock.             *)
(***************************************************************************)
EXTENDS Integers, Sequences, FiniteSets, FiniteSetsExt

CONSTANTS
  Requests, Streaming,                    \* all requests; those that stream
  Models, ModelOf,
  MaxEntries, MaxQueueSize, QueueTimeout, \* control plane configuration
  MaxBatchSize, MaxActiveRequests, WindowLength,
  ScanLimit, MaxCandidates,               \* queue_scan_limit, max_candidate_requests
  MinDispatchMembers,                     \* min_dispatch_members, 1 when unset
  Injections,                             \* failure points that may trigger
  MaxBatches, MaxTime, MaxTicks,          \* bounds of the model
  Ticker                                  \* the scheduler's tick loop

VARIABLES
  now, state, failure, position, queue, enqueuing,         \* ControlPlane
  created, batchState, batchModel, windowEnd, memberStatus,
  slotIndex, requestToBatch, activeBatchByModel,
  assignments, outcome,                                    \* BatchEngine
  pc,           \* where each request's coroutine is
  cycling,      \* who holds the cycle lock
  toPlace,      \* selected requests the running cycle has yet to place
  decision,     \* what each caller's cycle decided about the caller itself
  ticks,        \* cycles the tick loop has started
  inFlight,     \* batch and members each coroutine has with the adapter
  todo,         \* batches of list_batches each coroutine has yet to look at
  accepted,     \* batches in each coroutine's own accepted dispatch results
  submitted,    \* _submitted_batch_ids
  executed      \* history: requests that were part of an accepted batch

cpVars == <<state, failure, position, queue, enqueuing>>
beVars == <<created, batchState, batchModel, windowEnd, memberStatus, slotIndex,
            requestToBatch, activeBatchByModel, assignments, outcome>>
cycleVars == <<cycling, toPlace, decision, ticks>>
dispatchVars == <<inFlight, todo, accepted, submitted, executed>>
vars == <<now, cpVars, beVars, pc, cycleVars, dispatchVars>>

CP == INSTANCE ControlPlane
BE == INSTANCE BatchEngine

Idle == "idle"

\* Ids are uuids, and the tick loop is not one of the requests.
ASSUME CallersAssumption == Idle \notin Requests \cup {Ticker} /\ Ticker \notin Requests

\* The limits of SchedulerSettings, and what the two components assume of the
\* constants they share with this module.
ASSUME SettingsAssumption ==
  /\ ScanLimit \in Nat \ {0} /\ MaxCandidates \in Nat \ {0}
  /\ WindowLength \in Nat \ {0}
  /\ MaxBatches \in Nat /\ MaxTime \in Nat
  /\ IsFiniteSet(Requests)
  /\ ModelOf \in [Requests -> Models]

NoFlight == [batch |-> 0, members |-> {}]

-----------------------------------------------------------------------------
(***************************************************************************)
(* Submission: accept_request and process_through_queued.                  *)
(***************************************************************************)

Goto(r, label) == pc' = [pc EXCEPT ![r] = label]

\* No coroutine is in the middle of a piece of work that keeps the event loop.
LoopFree == CP!LoopFree /\ \A q \in Requests : pc[q] \notin {"admission", "executing"}

OnlyControlPlane == UNCHANGED <<beVars, cycleVars, dispatchVars>>

Submit(r) ==
  /\ pc[r] = "new"
  /\ LoopFree
  /\ \/ CP!Submit(r) /\ Goto(r, "admission")
     \/ CP!SubmitAtCapacity(r) /\ Goto(r, "done")
  /\ OnlyControlPlane

Admission(r) ==
  /\ pc[r] = "admission"
  /\ \/ CP!Enqueue(r) /\ Goto(r, "enqueued")
     \/ CP!RejectQueueFull(r) /\ Goto(r, "done")
  /\ OnlyControlPlane

\* A streaming request is answered here and continues when the response body
\* starts; the others go straight on to a scheduling cycle.
Queued(r) ==
  /\ pc[r] = "enqueued"
  /\ CP!MarkQueued(r)
  /\ Goto(r, IF r \in Streaming THEN "accepted" ELSE "cycle")
  /\ OnlyControlPlane

\* Faulty variant: an error in a running stream is not recorded.
StreamFailedBeforeStart(r) ==
  IF state[r] \in {"failed", "cancelled", "streaming"}
  THEN CP!Record(r, state[r], failure[r])
  ELSE CP!Record(r, "failed", "internal_error")

\* What _persist_stream_failure makes of r's state after an error.
StreamFailed(r) ==
  IF state[r] \in {"failed", "cancelled"}
  THEN CP!Record(r, state[r], failure[r])
  ELSE CP!Record(r, "failed", "internal_error")

\* execute_streaming_path: the request may have timed out in the meantime.
StartStream(r) ==
  /\ pc[r] = "accepted"
  /\ LoopFree
  /\ \/ /\ state[r] = "queued"
        /\ Goto(r, "cycle")
        /\ UNCHANGED <<now, cpVars>>
     \/ /\ state[r] # "queued"
        /\ StreamFailed(r)
        /\ Goto(r, "done")
  /\ OnlyControlPlane

-----------------------------------------------------------------------------
(***************************************************************************)
(* The scheduling cycle, in a worker thread under the cycle lock.          *)
(***************************************************************************)

Prefix(s, n) == SubSeq(s, 1, IF Len(s) < n THEN Len(s) ELSE n)

\* list_queue_items drops expired items and the FIFO policy selects from the
\* head; the rest of the scanned items are skipped.
Scanned == Prefix(CP!Remaining, ScanLimit)
Selected == [i \in DOMAIN Prefix(Scanned, MaxCandidates) |-> Scanned[i].id]
Skipped == {Scanned[i].id : i \in (Len(Selected) + 1) .. Len(Scanned)}

\* A cycle of a request or of the tick loop gets the lock.
CycleStart(c) ==
  /\ cycling = Idle
  /\ \/ c \in Requests /\ pc[c] = "cycle" /\ Goto(c, "in_cycle") /\ UNCHANGED ticks
     \/ c = Ticker /\ ticks < MaxTicks /\ ticks' = ticks + 1 /\ UNCHANGED pc
  /\ cycling' = c

CycleList(c) ==
  /\ CycleStart(c)
  /\ CP!ListItems
  /\ toPlace' = Selected
  /\ decision' = IF c \in Skipped THEN [decision EXCEPT ![c] = "skipped"] ELSE decision
  /\ UNCHANGED <<beVars, dispatchVars>>

\* The cycle fails before it reads the queue and returns an empty result.
CycleCrash(c) ==
  /\ "scheduler_crash" \in Injections
  /\ CycleStart(c)
  /\ UNCHANGED <<now, cpVars, beVars, toPlace, decision, dispatchVars>>

\* What a placement outcome means to the caller when it is about the caller.
OwnDecision(c, q, reason) ==
  IF c # q THEN decision[c]
  ELSE IF reason \in BE!AcceptReasons THEN "placed" ELSE "rejected"

\* place_selected for the next selected request.  An exception ends the cycle
\* with an empty result: what it had placed or skipped is not reported.
CyclePlace ==
  /\ cycling # Idle
  /\ toPlace # <<>>
  /\ BE!PlaceSelected(Head(toPlace))
  /\ \/ /\ outcome' # "batch_creation_failure"
        /\ toPlace' = Tail(toPlace)
        /\ decision' = [decision EXCEPT ![cycling] =
                          OwnDecision(cycling, Head(toPlace), outcome')]
     \/ /\ outcome' = "batch_creation_failure"
        /\ toPlace' = <<>>
        /\ decision' = [decision EXCEPT ![cycling] = "none"]
  /\ UNCHANGED <<cpVars, pc, cycling, ticks, dispatchVars>>

\* Faulty variant: the lock is not released after a cycle that failed.
CycleEndKeepsLock ==
  /\ cycling # Idle
  /\ toPlace = <<>>
  /\ cycling' = IF decision[cycling] = "none" THEN cycling ELSE Idle
  /\ IF cycling = Ticker
     THEN decision' = [decision EXCEPT ![Ticker] = "none"] /\ UNCHANGED pc
     ELSE Goto(cycling, "cycled") /\ UNCHANGED decision
  /\ UNCHANGED <<now, cpVars, beVars, toPlace, ticks, dispatchVars>>

CycleEnd ==
  /\ cycling # Idle
  /\ toPlace = <<>>
  /\ cycling' = Idle
  /\ IF cycling = Ticker
     THEN decision' = [decision EXCEPT ![Ticker] = "none"] /\ UNCHANGED pc
     ELSE Goto(cycling, "cycled") /\ UNCHANGED decision
  /\ UNCHANGED <<now, cpVars, beVars, toPlace, ticks, dispatchVars>>

-----------------------------------------------------------------------------
(***************************************************************************)
(* Dispatch and finalisation, on the event loop.                           *)
(***************************************************************************)

Dispatchable(b, sent) ==
  /\ b \notin sent
  /\ batchState[b] \in {"active", "ready", "filling"}
  /\ BE!ActiveCount(b) >= MinDispatchMembers
  /\ BE!ActiveMembers(b) # {}

\* get_batch_assignments: the active members that have an assignment.
BatchAssignments(b) == BE!ActiveMembers(b) \cap assignments

\* _find_dispatch: r's batch is among the batches ok its own dispatch accepted.
\* Faulty variant first: any accepted batch counts, whoever submitted it.
DispatchAcceptedByAnyone(r, ok) == requestToBatch[r] \in ok \cup submitted
DispatchAccepted(r, ok) == requestToBatch[r] \in ok

\* _finalize_request, or its counterpart in execute_streaming_path, when r's
\* own dispatch results accepted the batches in ok.
Finalize(r, ok) ==
  \/ /\ decision[r] \in {"rejected", "none"} \/ (decision[r] = "skipped" /\ r \in Streaming)
     /\ CP!Record(r, "failed", "internal_error")
     /\ Goto(r, "done")
  \/ /\ decision[r] = "skipped" /\ r \notin Streaming
     /\ Goto(r, "done")
     /\ UNCHANGED <<now, cpVars>>
  \/ /\ decision[r] = "placed"
     /\ ~CP!IsAllowedTransition(state[r], "scheduled")
     /\ IF r \in Streaming THEN StreamFailed(r) ELSE UNCHANGED <<now, cpVars>>
     /\ Goto(r, "done")
  \/ /\ decision[r] = "placed"
     /\ CP!IsAllowedTransition(state[r], "scheduled")
     /\ ~DispatchAccepted(r, ok)
     /\ CP!Record(r, "failed", "internal_error")
     /\ Goto(r, "done")
  \/ /\ decision[r] = "placed"
     /\ CP!IsAllowedTransition(state[r], "scheduled")
     /\ DispatchAccepted(r, ok)
     /\ IF r \in Streaming
        THEN CP!Record(r, "streaming", failure[r]) /\ Goto(r, "streaming")
        ELSE CP!Record(r, "submitted", failure[r]) /\ Goto(r, "executing")

\* submit_pending_batches from the next batch on: hand the next dispatchable
\* batch to the adapter and suspend, or finish and finalise r.
Proceed(r, rest, ok, sent) ==
  LET next == {b \in rest : Dispatchable(b, sent)} IN
  /\ accepted' = [accepted EXCEPT ![r] = ok]
  /\ submitted' = sent
  /\ \/ /\ next # {}
        /\ inFlight' = [inFlight EXCEPT ![r] =
                          [batch |-> Min(next), members |-> BatchAssignments(Min(next))]]
        /\ todo' = [todo EXCEPT ![r] = {b \in rest : b > Min(next)}]
        /\ Goto(r, "submitting")
        /\ UNCHANGED <<now, cpVars>>
     \/ /\ next = {}
        /\ inFlight' = [inFlight EXCEPT ![r] = NoFlight]
        /\ todo' = [todo EXCEPT ![r] = {}]
        /\ Finalize(r, ok)

Dispatch(r) ==
  /\ pc[r] = "cycled"
  /\ LoopFree
  /\ Proceed(r, 1 .. created, {}, submitted)
  /\ UNCHANGED <<beVars, cycleVars, executed>>

\* The adapter accepted the batch; the batch is remembered as submitted only
\* now, after the await.
AdapterAccepts(r) ==
  /\ pc[r] = "submitting"
  /\ LoopFree
  /\ LET b == inFlight[r].batch IN
     /\ executed' = executed \cup inFlight[r].members
     /\ Proceed(r, todo[r], accepted[r] \cup {b}, submitted \cup {b})
  /\ UNCHANGED <<beVars, cycleVars>>

\* Faulty variant: a refusal is taken for an acceptance.
AdapterRefusesUnchecked(r) ==
  /\ pc[r] = "submitting"
  /\ LoopFree
  /\ Proceed(r, todo[r], accepted[r] \cup {inFlight[r].batch}, submitted)
  /\ UNCHANGED <<beVars, cycleVars, executed>>

\* The adapter rejected the batch or raised, and routing has no backend left.
AdapterRefuses(r) ==
  /\ pc[r] = "submitting"
  /\ LoopFree
  /\ Proceed(r, todo[r], accepted[r], submitted)
  /\ UNCHANGED <<beVars, cycleVars, executed>>

\* The adapter has the completion: the batch slot is given back first, then
\* the request completes.
Complete(r) ==
  /\ pc[r] = "executing"
  /\ BE!CompleteRequest(r)
  /\ CP!CompleteRequest(r)
  /\ Goto(r, "done")
  /\ UNCHANGED <<cycleVars, dispatchVars>>

StreamEnd(r) ==
  /\ pc[r] = "streaming"
  /\ LoopFree
  /\ BE!CompleteRequest(r)
  /\ IF state[r] \in {"submitted", "streaming"}
     THEN CP!Record(r, "completed", failure[r])
     ELSE StreamFailed(r)
  /\ Goto(r, "done")
  /\ UNCHANGED <<cycleVars, dispatchVars>>

\* _handle_cancel after cancel_stream or a disconnect seen at a chunk.
StreamCancel(r) ==
  /\ pc[r] = "streaming"
  /\ LoopFree
  /\ IF state[r] \in {"streaming", "submitted"}
     THEN CP!Record(r, "cancelled", failure[r])
     ELSE UNCHANGED <<now, cpVars>>
  /\ Goto(r, "done")
  /\ OnlyControlPlane

\* The backend's stream raised.
StreamError(r) ==
  /\ pc[r] = "streaming"
  /\ LoopFree
  /\ StreamFailed(r)
  /\ Goto(r, "done")
  /\ OnlyControlPlane

Tick ==
  /\ now < MaxTime
  /\ now' = now + 1
  /\ UNCHANGED <<cpVars, beVars, pc, cycleVars, dispatchVars>>

-----------------------------------------------------------------------------
Init ==
  /\ CP!Init
  /\ BE!Init
  /\ pc = [r \in Requests |-> "new"]
  /\ cycling = Idle
  /\ toPlace = <<>>
  /\ decision = [c \in Requests \cup {Ticker} |-> "none"]
  /\ ticks = 0
  /\ inFlight = [r \in Requests |-> NoFlight]
  /\ todo = [r \in Requests |-> {}]
  /\ accepted = [r \in Requests |-> {}]
  /\ submitted = {}
  /\ executed = {}

\* What r's coroutine does once it has started.
Continue(r) ==
  \/ Admission(r)
  \/ Queued(r)
  \/ StartStream(r)
  \/ CycleList(r)
  \/ CycleCrash(r)
  \/ Dispatch(r)
  \/ AdapterAccepts(r)
  \/ AdapterRefuses(r)
  \/ Complete(r)
  \/ StreamEnd(r)
  \/ StreamCancel(r)
  \/ StreamError(r)

Next ==
  \/ \E r \in Requests : Submit(r) \/ Continue(r)
  \/ CycleList(Ticker)
  \/ CycleCrash(Ticker)
  \/ CyclePlace
  \/ CycleEnd
  \/ Tick

\* The event loop keeps running ready coroutines, a started cycle thread runs
\* to its end, and the adapter answers every submission (its calls have
\* timeouts).  Clients need not submit, and nothing forces the tick loop.
Fairness ==
  /\ \A r \in Requests : WF_vars(Continue(r))
  /\ WF_vars(CyclePlace)
  /\ WF_vars(CycleEnd)

Spec == Init /\ [][Next]_vars /\ Fairness

-----------------------------------------------------------------------------
(***************************************************************************)
(* Properties.                                                             *)
(***************************************************************************)

\* The type of the composed state.
TypeOK ==
  /\ CP!TypeOK
  /\ BE!TypeOK
  /\ pc \in [Requests -> {"new", "admission", "enqueued", "accepted", "cycle",
                          "in_cycle", "cycled", "submitting", "executing",
                          "streaming", "done"}]
  /\ cycling \in Requests \cup {Ticker, Idle}
  /\ toPlace \in Seq(Requests)
  /\ decision \in [Requests \cup {Ticker} -> {"none", "skipped", "placed", "rejected"}]
  /\ inFlight \in [Requests -> [batch : Nat, members : SUBSET Requests]]
  /\ submitted \subseteq BE!BatchId
  /\ executed \subseteq Requests

\* A request is reported COMPLETED only if a backend accepted a batch that
\* contained it.  Membership can grow after a batch was sent, and other
\* coroutines submit batches too, so this needs _finalize_request to look at
\* its own dispatch results only.
CompletedWasExecuted ==
  \A r \in Requests : state[r] = "completed" => r \in executed

\* A request whose coroutine is executing or streaming holds exactly one slot,
\* in the batch that was accepted for it, even while other coroutines fail,
\* cancel or complete members of the same batch; and a completed request holds
\* none, because complete_request gives the slot back first.
RunningHoldsSlot ==
  /\ TypeOK
  /\ \A r \in Requests :
       /\ pc[r] \in {"executing", "streaming"} =>
            /\ requestToBatch[r] \in accepted[r]
            /\ memberStatus[requestToBatch[r]][r] = "active"
       /\ state[r] = "completed" => \A b \in BE!BatchId : memberStatus[b][r] # "active"

\* Once a coroutine is done its request is terminal, or it was skipped by its
\* own cycle and is still where the queue left it, or it raised before it was
\* registered.  A request is not left half way, in SCHEDULED, BATCHED,
\* SUBMITTED or STREAMING.
DoneIsSettled ==
  \A r \in Requests :
    pc[r] = "done" => \/ state[r] \in CP!TerminalStates
                      \/ state[r] = "unregistered"
                      \/ state[r] = "queued" /\ decision[r] = "skipped"

\* A request that entered the platform is answered: no coroutine waits for
\* ever for the cycle lock, for a dispatch or for another coroutine.  A path is
\* taken once, so it returns if in the end no request is on its way.
PathsReturn == <>[](\A r \in Requests : pc[r] \in {"new", "done"})

\* docs/contracts/state-models.md lists every transition out of COMPLETED as a
\* contract violation: a result that was delivered stays delivered.
CompletedIsFinal ==
  [][\A r \in Requests :
       state[r] = "completed" => state'[r] = "completed"]_vars
=============================================================================
