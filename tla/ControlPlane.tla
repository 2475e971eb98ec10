---------------------------- MODULE ControlPlane ----------------------------
(***************************************************************************)
(* The control plane: the request registry, the bounded waiting queue with *)
(* its timeout, and the lifecycle manager that moves requests from         *)
(* submission into the queue and records what later components report      *)
(* (services/control-plane/src/control_plane).                             *)
(*                                                                         *)
(* Two threads meet here.  The event loop runs every lifecycle operation;  *)
(* between two awaits it is not interrupted by another coroutine.  A       *)
(* scheduling cycle lists the queue from a worker thread, so it may run    *)
(* between the locked enqueue and the write of the QUEUED state.           *)
(***************************************************************************)
EXTENDS Integers, Sequences, FiniteSets, RequestStates

CONSTANTS
  Requests,        \* request ids; the gateway draws a fresh one per request
  MaxEntries,      \* InMemoryRequestRegistry.max_entries
  MaxQueueSize,    \* QueueCapacityConfig.max_queue_size
  QueueTimeout,    \* QueueCapacityConfig.queue_timeout_ms
  MaxTime          \* bound: last clock value

Idle == "idle"

\* A request id is a uuid.
ASSUME RequestsAssumption == Idle \notin Requests

\* QueueCapacityConfig.validate, and a registry that can hold an entry.
ASSUME QueueConfigAssumption ==
  /\ MaxQueueSize \in Nat \ {0}
  /\ QueueTimeout \in Nat \ {0}
  /\ MaxEntries \in Nat
  /\ MaxTime \in Nat

VARIABLES
  now,             \* wall clock
  state,           \* RegisteredRequest.state, "unregistered" before register
  failure,         \* RegisteredRequest.failure_reason
  position,        \* RegisteredRequest.queue_position, 0 for None
  queue,           \* WaitingQueue.items: id and queue_entered_at
  enqueuing        \* request whose enqueue holds the event loop, or Idle

vars == <<now, state, failure, position, queue, enqueuing>>

\* internal_error stands for whatever reason mark_failed is given.
FailureReasons == {"none", "queue_timeout", "queue_full", "internal_error"}

-----------------------------------------------------------------------------
(***************************************************************************)
(* The waiting queue.                                                      *)
(***************************************************************************)

Waiting == {queue[i].id : i \in DOMAIN queue}
Registered == {r \in Requests : state[r] # "unregistered"}

Expired(item) == now - item.entered > QueueTimeout

\* The items of q at the indices in kept, in their order: the list
\* comprehensions that drop items.  The k-th item of the result is at the index
\* with k kept indices up to itself.
ItemsAt(q, kept) ==
  LET Nth(k) == CHOOSE i \in kept : Cardinality({j \in kept : j <= i}) = k
  IN  [k \in 1 .. Cardinality(kept) |-> q[Nth(k)]]

\* What _expire_timeouts_locked keeps and what it takes out.
Remaining == ItemsAt(queue, {i \in DOMAIN queue : ~Expired(queue[i])})
ExpiredIds == {queue[i].id : i \in {j \in DOMAIN queue : Expired(queue[j])}}

\* evaluate_enqueue_capacity accepts, once expired items are dropped.
QueueHasRoom == Len(Remaining) < MaxQueueSize

\* The queue once r is appended.  Faulty variant first: r goes to the head.
EnqueuedAtHead(r) == <<[id |-> r, entered |-> now]>> \o Remaining
Enqueued(r) == Append(Remaining, [id |-> r, entered |-> now])

\* Faulty variant: only the entry that joins the queue is numbered.
ReindexedOnJoin(q) ==
  [r \in Requests |->
     IF r \notin Waiting /\ \E i \in DOMAIN q : q[i].id = r
     THEN CHOOSE i \in DOMAIN q : q[i].id = r
     ELSE position[r]]

\* _reindex_positions: the waiting entries are numbered from 1; entries that
\* left the queue keep their last position.
Reindexed(q) ==
  [r \in Requests |->
     IF \E i \in DOMAIN q : q[i].id = r
     THEN CHOOSE i \in DOMAIN q : q[i].id = r
     ELSE position[r]]

SetQueue(q) ==
  /\ queue' = q
  /\ position' = Reindexed(q)

-----------------------------------------------------------------------------
(***************************************************************************)
(* Operations of the event loop.                                           *)
(***************************************************************************)

LoopFree == enqueuing = Idle

\* QueueService.process_timeouts applied to states s and failures f: every
\* expired item is marked, whatever its state.
TimedOutStates(s) == [r \in Requests |-> IF r \in ExpiredIds THEN "timed_out" ELSE s[r]]

\* Faulty variant: an earlier reason is kept.
TimedOutFailuresIfUnset(f) ==
  [r \in Requests |-> IF r \in ExpiredIds /\ f[r] = "none" THEN "queue_timeout" ELSE f[r]]

TimedOutFailures(f) == [r \in Requests |-> IF r \in ExpiredIds THEN "queue_timeout" ELSE f[r]]

ProcessTimeouts ==
  /\ LoopFree
  /\ SetQueue(Remaining)
  /\ state' = TimedOutStates(state)
  /\ failure' = TimedOutFailures(failure)
  /\ UNCHANGED <<now, enqueuing>>

\* process_through_queued up to the await of the admission checks: timeouts
\* are processed, the request is registered and becomes VALIDATED.
Submit(r) ==
  /\ LoopFree
  /\ r \notin Registered
  /\ Cardinality(Registered) < MaxEntries
  /\ SetQueue(Remaining)
  /\ state' = [TimedOutStates(state) EXCEPT ![r] = "validated"]
  /\ failure' = TimedOutFailures(failure)
  /\ UNCHANGED <<now, enqueuing>>

\* The registry is full: register raises, mark_failed finds no entry and the
\* error reaches the caller.  The timeouts were processed all the same.
SubmitAtCapacity(r) ==
  /\ LoopFree
  /\ r \notin Registered
  /\ Cardinality(Registered) >= MaxEntries
  /\ SetQueue(Remaining)
  /\ state' = TimedOutStates(state)
  /\ failure' = TimedOutFailures(failure)
  /\ UNCHANGED <<now, enqueuing>>

\* Record state s and failure f for r and touch nothing else.
Record(r, s, f) ==
  /\ state' = [state EXCEPT ![r] = s]
  /\ failure' = [failure EXCEPT ![r] = f]
  /\ UNCHANGED <<now, position, queue, enqueuing>>

\* An admission check answered REJECT or DEFER.  AdmissionFailure is not told a
\* reason, and its default is that of a full queue.
RejectAtAdmission(r) ==
  /\ LoopFree
  /\ state[r] = "validated"
  /\ Record(r, "rejected", "queue_full")

\* An admission check raised: process_through_queued marks the request FAILED,
\* which the table does not allow from VALIDATED, so the state is written
\* directly.
FailAtAdmission(r) ==
  /\ LoopFree
  /\ state[r] = "validated"
  /\ Record(r, "failed", "internal_error")

\* Faulty variant: the request is put in the queue before it is ADMITTED.
EnqueueUnadmitted(r) ==
  /\ LoopFree
  /\ state[r] = "validated"
  /\ QueueHasRoom
  /\ SetQueue(Enqueued(r))
  /\ enqueuing' = r
  /\ UNCHANGED <<now, state, failure>>

\* Admission accepted and the locked part of enqueue: expired items are dropped
\* (their entries are not touched), then the request is appended ...
Enqueue(r) ==
  /\ LoopFree
  /\ state[r] = "validated"
  /\ QueueHasRoom
  /\ state' = [state EXCEPT ![r] = "admitted"]
  /\ SetQueue(Enqueued(r))
  /\ enqueuing' = r
  /\ UNCHANGED <<now, failure>>

\* ... and the QUEUED state is written after the lock is released.
MarkQueued(r) ==
  /\ enqueuing = r
  /\ state' = [state EXCEPT ![r] = "queued"]
  /\ enqueuing' = Idle
  /\ UNCHANGED <<now, failure, position, queue>>

\* Admission accepted but the queue is full: REJECTED with QUEUE_FULL.
RejectQueueFull(r) ==
  /\ LoopFree
  /\ state[r] = "validated"
  /\ ~QueueHasRoom
  /\ state' = [state EXCEPT ![r] = "rejected"]
  /\ failure' = [failure EXCEPT ![r] = "queue_full"]
  /\ SetQueue(Remaining)
  /\ UNCHANGED <<now, enqueuing>>

\* LifecycleManager.transition for the targets its callers use; a transition
\* the table does not allow raises and leaves the state alone.
CallerTargets == {"scheduled", "batched", "submitted", "streaming", "cancelled"}

Transition(r, to) ==
  /\ LoopFree
  /\ IsAllowedTransition(state[r], to)
  /\ Record(r, to, failure[r])

\* Faulty variant: the completion replaces whatever was recorded before.
CompleteRequestUnchecked(r) ==
  /\ LoopFree
  /\ r \in Registered
  /\ Record(r, "completed", "none")

CompleteRequest(r) ==
  /\ LoopFree
  /\ state[r] \in {"submitted", "streaming"}
  /\ IsAllowedTransition(state[r], "completed")
  /\ Record(r, "completed", failure[r])

\* mark_failed reaches FAILED from any state: through the table when it allows
\* it, and by writing the registry directly when it does not.
MarkFailed(r) ==
  /\ LoopFree
  /\ r \in Registered
  /\ Record(r, "failed", "internal_error")

\* dequeue_next and remove take an item out and leave the entry's state alone.
DequeueNext ==
  /\ LoopFree
  /\ SetQueue(IF Remaining = <<>> THEN <<>> ELSE Tail(Remaining))
  /\ UNCHANGED <<now, state, failure, enqueuing>>

Remove(r) ==
  /\ LoopFree
  /\ r \in Waiting
  /\ SetQueue(ItemsAt(queue, {i \in DOMAIN queue : queue[i].id # r}))
  /\ UNCHANGED <<now, state, failure, enqueuing>>

-----------------------------------------------------------------------------
(***************************************************************************)
(* Operations of other threads.                                            *)
(***************************************************************************)

\* QueueOperations.list_items, called by the scheduler's queue reader from the
\* cycle's thread and by every queue inspection; peek does the same.
ListItems ==
  /\ SetQueue(Remaining)
  /\ UNCHANGED <<now, state, failure, enqueuing>>

Tick ==
  /\ now < MaxTime
  /\ now' = now + 1
  /\ UNCHANGED <<state, failure, position, queue, enqueuing>>

-----------------------------------------------------------------------------
Init ==
  /\ now = 0
  /\ state = [r \in Requests |-> "unregistered"]
  /\ failure = [r \in Requests |-> "none"]
  /\ position = [r \in Requests |-> 0]
  /\ queue = <<>>
  /\ enqueuing = Idle

Next ==
  \/ \E r \in Requests :
       \/ Submit(r)
       \/ SubmitAtCapacity(r)
       \/ RejectAtAdmission(r)
       \/ FailAtAdmission(r)
       \/ Enqueue(r)
       \/ MarkQueued(r)
       \/ RejectQueueFull(r)
       \/ \E to \in CallerTargets : Transition(r, to)
       \/ CompleteRequest(r)
       \/ MarkFailed(r)
       \/ Remove(r)
  \/ ProcessTimeouts
  \/ DequeueNext
  \/ ListItems
  \/ Tick

Spec == Init /\ [][Next]_vars

-----------------------------------------------------------------------------
(***************************************************************************)
(* Properties.                                                             *)
(***************************************************************************)

\* The type of the registry entries and of the queue.
TypeOK ==
  /\ now \in 0 .. MaxTime
  /\ state \in [Requests -> RequestState \cup {"unregistered"}]
  /\ failure \in [Requests -> FailureReasons]
  /\ position \in [Requests -> Nat]
  /\ queue \in Seq([id : Requests, entered : 0 .. MaxTime])
  /\ enqueuing \in Requests \cup {Idle}

\* The queue never holds more than max_queue_size items, never the same
\* request twice, and stays in order of arrival, although items expire, are
\* removed and are appended from different callers.  The queue_position of a
\* waiting entry is its place in the queue: every path that removes items
\* renumbers the ones left.
QueueWellFormed ==
  /\ TypeOK
  /\ Len(queue) <= MaxQueueSize
  /\ \A i, j \in DOMAIN queue :
       i < j => /\ queue[i].id # queue[j].id
                /\ queue[i].entered <= queue[j].entered
  /\ \A i \in DOMAIN queue : position[queue[i].id] = i

\* A failure reason is recorded exactly for the requests that were rejected,
\* failed or timed out, and it is that of the last write: the direct registry
\* writes of process_timeouts, mark_failed, run_admission and enqueue keep state
\* and reason in step.  It does not tell what a rejection was for: a request
\* that an admission check refused has the reason of a full queue.
FailureRecordAgrees ==
  \A r \in Requests :
    /\ state[r] = "timed_out" <=> failure[r] = "queue_timeout"
    /\ state[r] = "rejected" <=> failure[r] = "queue_full"
    /\ state[r] = "failed" <=> failure[r] = "internal_error"

\* Nobody waits in the queue without having passed admission, and a request
\* that was refused at admission or for a full queue never gets in.
WaitingWasAdmitted ==
  \A r \in Waiting :
    /\ state[r] \notin {"unregistered", "received", "validated", "rejected"}
    /\ state[r] = "admitted" => enqueuing = r

\* A request that reached a terminal state never goes back to work, and its
\* success is never forged: the only states written over a terminal one are
\* FAILED and TIMED_OUT, and COMPLETED is only reached from execution.
NoResurrection ==
  [][\A r \in Requests :
       /\ state[r] \in TerminalStates =>
            state'[r] \in {state[r], "failed", "timed_out"}
       /\ state'[r] = "completed" =>
            state[r] \in {"submitted", "streaming", "completed"}]_vars

\* Items keep their relative order: a step drops items or appends one at the
\* end, and never moves a request ahead of another.
FifoOrderKept ==
  [][\A i, j \in DOMAIN queue' :
       (i < j /\ queue'[j].id \in Waiting) =>
         \E k, l \in DOMAIN queue :
           k < l /\ queue[k] = queue'[i] /\ queue[l] = queue'[j]]_vars
=============================================================================
