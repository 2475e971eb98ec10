------------------------------ MODULE Dispatch ------------------------------
(***************************************************************************)
(* The submission of a batch: BatchDispatchService's retry over routed     *)
(* backends, the adapter's application and backend registry, and the mock  *)
(* and vLLM backends.                                                      *)
(*                                                                         *)
(* Every request is a coroutine that, after its scheduling cycle, submits  *)
(* the pending batches, its own among them, and is answered from the       *)
(* result for its own.  RequestPath treats such a submission as one        *)
(* answer, accepted or refused; here it is taken apart.  The vLLM server   *)
(* is the environment: it may answer each HTTP request differently.  A     *)
(* coroutine suspends only in its HTTP requests (pc "checking",            *)
(* "executing", "streaming"); "listing" and "routing" keep the event loop. *)
(***************************************************************************)
EXTENDS Routing, Sequences, FiniteSets

CONSTANTS
  Requests,          \* numbers, in the order in which they joined their batches
  Backend,           \* backend -> [kind, serves, default, maxBatch]: its own configuration
  ServerModels,      \* what a vLLM server may report as loaded
  DefaultBackend,
  Setups             \* the situations to start from, see setup

\* The factory of the adapter always registers its default backend.
ASSUME BackendsAssumption == DefaultBackend \in Backends
ASSUME RequestsAssumption == Requests \subseteq Nat
ASSUME SetupsAssumption ==
  \A s \in Setups : s.batchOf \in [Requests -> Nat] /\ s.routing \in BOOLEAN

VARIABLES
  setup,        \* what the cycles left behind and how the stack is built; fixed
  phase,        \* the adapter: "starting", "running", "stopped"
  backendState, \* the backend registry's states
  status,       \* backend -> request -> _request_status
  completions,  \* backend -> requests in _completions
  submitted,    \* _submitted_batch_ids
  active,       \* requests that are active members of their batch
  pc,
  todo,         \* batches of list_batches each coroutine has yet to look at
  current,      \* the batch it is submitting
  assignments,  \* the requests it submits, fixed before the retry
  pending,      \* those a vLLM backend has yet to execute
  target, excluded,
  result,       \* each coroutine's dispatch results: batch -> [outcome, backend]
  answer,       \* outcome of each request
  output,       \* requests that were answered with a completion
  tried,        \* history: backends each coroutine offered each batch to, in order
  executions    \* history: how often a backend generated text for a request

adapterVars == <<phase, backendState, status, completions>>
batchVars == <<setup, todo, current, assignments>>
loopVars == <<batchVars, pending, target, excluded, result, tried>>
answerVars == <<active, answer, output>>
vars == <<adapterVars, submitted, pc, loopVars, answerVars, executions>>

Streaming == setup.streaming        \* requests with stream = true
BatchOf == setup.batchOf            \* request -> batch; batches are numbers
ModelOf == setup.modelOf            \* batch -> model
Filling == setup.filling            \* filling batches do not end when emptied
RoutingConfigured == setup.routing  \* is there a routing engine
Rejecting == setup.rejecting        \* mock backends constructed with reject = true

Batches == {BatchOf[r] : r \in Requests}
Statuses == {"unknown", "acknowledged", "completed", "failed", "cancelled"}
Model(r) == ModelOf[current[r]]
NoBatch == 0
NoResult == [outcome |-> "none", backend |-> NoBackend]
Goto(r, label) == pc' = [pc EXCEPT ![r] = label]

\* No coroutine is between two suspension points.
LoopFree == \A q \in Requests : pc[q] \notin {"listing", "routing"}

First(S) == CHOOSE x \in S : \A y \in S : x <= y

-----------------------------------------------------------------------------
(***************************************************************************)
(* Health of backends and the adapter's life.                              *)
(***************************************************************************)

\* The models a vLLM backend expects to be loaded; default is the set of its
\* default_model, if it has one.
Configured(b) == IF Backend[b].serves # {} THEN Backend[b].serves ELSE Backend[b].default

\* VLLMBackend.health_check when the server reports these models.
ReachableHealth(b, loaded) ==
  IF Configured(b) # {} /\ loaded # {} /\ Configured(b) \cap loaded = {}
  THEN "degraded"
  ELSE "healthy"

\* The registry state refresh_backend_health gives b.  A mock that rejects is
\* "unhealthy" by its own account, which is not "unavailable".
HealthOutcomes(b) ==
  IF Backend[b].kind = "mock"
  THEN {IF b \in Rejecting THEN "degraded" ELSE "healthy"}
  ELSE {"unhealthy"} \cup {ReachableHealth(b, loaded) : loaded \in SUBSET ServerModels}

Unchecked == {b \in Backends : backendState[b] = "starting"}

\* startup refreshes the backends one after the other.
RefreshBackendHealth ==
  /\ phase = "starting"
  /\ \E s \in HealthOutcomes(First(Unchecked)) :
       /\ CanTransition("starting", s)
       /\ backendState' = [backendState EXCEPT ![First(Unchecked)] = s]
  /\ phase' = IF Cardinality(Unchecked) = 1 THEN "running" ELSE phase
  /\ UNCHANGED <<status, completions, submitted, pc, loopVars, answerVars, executions>>

\* shutdown does not wait for coroutines that are with a backend.
Shutdown ==
  /\ phase = "running"
  /\ LoopFree
  /\ phase' = "stopped"
  /\ \A b \in Backends : CanTransition(backendState[b], "stopped")
  /\ backendState' = [b \in Backends |-> "stopped"]
  /\ UNCHANGED <<status, completions, submitted, pc, loopVars, answerVars, executions>>

-----------------------------------------------------------------------------
(***************************************************************************)
(* The retry loop of _submit_batch.                                        *)
(***************************************************************************)

BatchMembers(k) == {q \in active : BatchOf[q] = k}
BatchEnded(k) == BatchMembers(k) = {} /\ k \notin Filling

\* submit_pending_batches; its list of batches is read once.
SubmitPendingBatches(r) ==
  /\ pc[r] = "cycled"
  /\ phase # "starting"
  /\ LoopFree
  /\ todo' = [todo EXCEPT ![r] = Batches]
  /\ Goto(r, "listing")
  /\ UNCHANGED <<setup, adapterVars, submitted, current, assignments, pending, target,
                 excluded, result, tried, answerVars, executions>>

Pending(r) == {k \in todo[r] : k \notin submitted /\ BatchMembers(k) # {}}

NextBatch(r) ==
  /\ pc[r] = "listing"
  /\ Pending(r) # {}
  /\ LET k == First(Pending(r)) IN
     /\ current' = [current EXCEPT ![r] = k]
     /\ todo' = [todo EXCEPT ![r] = {j \in @ : j > k}]
     /\ assignments' = [assignments EXCEPT ![r] = BatchMembers(k)]
  /\ excluded' = [excluded EXCEPT ![r] = {}]
  /\ Goto(r, "routing")
  /\ UNCHANGED <<setup, adapterVars, submitted, pending, target, result, tried,
                 answerVars, executions>>

\* _submit_batch returns.
Finish(r, outcome, b) ==
  /\ result' = [result EXCEPT ![r][current[r]] = [outcome |-> outcome, backend |-> b]]
  /\ Goto(r, "listing")

RouteFor(r, without) ==
  IF RoutingConfigured THEN Route(Model(r), backendState, without) ELSE DefaultBackend

\* Faulty variant: a refusal ends the submission.
RefusedAtOnce(r, b) == Finish(r, "refused", b) /\ UNCHANGED excluded

\* submit_batch answered accepted=False: exclude the backend and go round.
Refused(r, b) ==
  IF RoutingConfigured
  THEN /\ excluded' = [excluded EXCEPT ![r] = @ \cup {b}]
       /\ Goto(r, "routing")
       /\ UNCHANGED result
  ELSE Finish(r, "refused", b) /\ UNCHANGED excluded

\* submit_batch raised: go round only when routing still finds a backend.
Raised(r, b) ==
  IF RoutingConfigured
  THEN /\ excluded' = [excluded EXCEPT ![r] = @ \cup {b}]
       /\ IF Route(Model(r), backendState, excluded[r] \cup {b}) # NoBackend
          THEN Goto(r, "routing") /\ UNCHANGED result
          ELSE Finish(r, "refused", b)
  ELSE Finish(r, "refused", b) /\ UNCHANGED excluded

Accepted(r, b) ==
  /\ submitted' = submitted \cup {current[r]}
  /\ Finish(r, "accepted", b)

\* Faulty variant: without a route the loop goes round.
NoRouteSpins(r) ==
  /\ pc[r] = "routing"
  /\ RouteFor(r, excluded[r]) = NoBackend
  /\ UNCHANGED vars

NoRoute(r) ==
  /\ pc[r] = "routing"
  /\ RouteFor(r, excluded[r]) = NoBackend
  /\ Finish(r, "refused", DefaultBackend)
  /\ UNCHANGED <<adapterVars, submitted, batchVars, pending, target, excluded, tried,
                 answerVars, executions>>

\* build_dispatch_batch finds that the batch ended during an earlier attempt.
BatchGone(r) ==
  /\ pc[r] = "routing"
  /\ RouteFor(r, excluded[r]) # NoBackend
  /\ BatchEnded(current[r])
  /\ Goto(r, "listing")
  /\ UNCHANGED <<adapterVars, submitted, loopVars, answerVars, executions>>

\* InferenceAdapterApplication.submit_batch takes the batch for backend b.
Hand(r, b) ==
  /\ pc[r] = "routing"
  /\ b = RouteFor(r, excluded[r])
  /\ b # NoBackend
  /\ ~BatchEnded(current[r])
  /\ target' = [target EXCEPT ![r] = b]
  /\ tried' = [tried EXCEPT ![r][current[r]] = Append(@, b)]

Unavailable(b) == backendState[b] \in {"unhealthy", "stopped"}

\* The backend refuses without suspending.
TurnsDown(b, m, size) ==
  \/ size > Backend[b].maxBatch
  \/ Backend[b].kind = "mock" /\ (b \in Rejecting \/ m \notin Backend[b].serves)
  \/ Backend[b].kind = "vllm" /\ Backend[b].serves # {} /\ m \notin Backend[b].serves

Acknowledge(r, b) ==
  status' = [status EXCEPT ![b] =
               [q \in Requests |-> IF q \in assignments[r] THEN "acknowledged" ELSE @[q]]]

SubmitUnavailable(r) ==
  /\ \E b \in Backends : Hand(r, b) /\ Unavailable(b) /\ Raised(r, b)
  /\ UNCHANGED <<adapterVars, submitted, batchVars, pending, answerVars, executions>>

SubmitTurnedDown(r) ==
  /\ \E b \in Backends :
       /\ Hand(r, b)
       /\ ~Unavailable(b)
       /\ TurnsDown(b, Model(r), Cardinality(assignments[r]))
       /\ Refused(r, b)
  /\ UNCHANGED <<adapterVars, submitted, batchVars, pending, answerVars, executions>>

SubmitToMock(r) ==
  /\ \E b \in Backends :
       /\ Hand(r, b)
       /\ ~Unavailable(b)
       /\ Backend[b].kind = "mock"
       /\ ~TurnsDown(b, Model(r), Cardinality(assignments[r]))
       /\ Acknowledge(r, b)
       /\ Accepted(r, b)
  /\ UNCHANGED <<phase, backendState, completions, batchVars, pending, excluded,
                 answerVars, executions>>

SubmitToVLLM(r) ==
  /\ \E b \in Backends :
       /\ Hand(r, b)
       /\ ~Unavailable(b)
       /\ Backend[b].kind = "vllm"
       /\ ~TurnsDown(b, Model(r), Cardinality(assignments[r]))
  /\ Goto(r, "checking")
  /\ UNCHANGED <<adapterVars, submitted, batchVars, pending, excluded, result,
                 answerVars, executions>>

-----------------------------------------------------------------------------
(***************************************************************************)
(* VLLMBackend.submit_batch from its health check on.                      *)
(***************************************************************************)

InFlight(r, label) == pc[r] = label /\ LoopFree

\* The server cannot be reached, or answers nonsense.
HealthCheckRaises(r) ==
  /\ InFlight(r, "checking")
  /\ Raised(r, target[r])
  /\ UNCHANGED <<adapterVars, submitted, batchVars, pending, target, tried,
                 answerVars, executions>>

ModelNotLoaded(r, loaded) ==
  /\ InFlight(r, "checking")
  /\ ReachableHealth(target[r], loaded) = "degraded"
  /\ Model(r) \notin loaded
  /\ Refused(r, target[r])
  /\ UNCHANGED <<adapterVars, submitted, batchVars, pending, target, tried,
                 answerVars, executions>>

Serves(r, loaded) ==
  ~(ReachableHealth(target[r], loaded) = "degraded" /\ Model(r) \notin loaded)

\* One streaming member defers the whole batch.
Defers(r) == assignments[r] \cap Streaming # {}

DeferToStreams(r, loaded) ==
  /\ InFlight(r, "checking")
  /\ Serves(r, loaded)
  /\ Defers(r)
  /\ Acknowledge(r, target[r])
  /\ Accepted(r, target[r])
  /\ UNCHANGED <<phase, backendState, completions, batchVars, pending, target,
                 excluded, tried, answerVars, executions>>

BeginExecution(r, loaded) ==
  /\ InFlight(r, "checking")
  /\ Serves(r, loaded)
  /\ ~Defers(r)
  /\ pending' = [pending EXCEPT ![r] = assignments[r]]
  /\ Goto(r, "executing")
  /\ UNCHANGED <<adapterVars, submitted, batchVars, target, excluded, result, tried,
                 answerVars, executions>>

\* Faulty variant: the batch counts as accepted after its first member.
LastMemberAnyway(r) == TRUE
LastMember(r) == pending[r] = {First(pending[r])}

\* Faulty variant: the same backend is asked again for a member it answered.
ExecuteMemberAgain(r) ==
  /\ InFlight(r, "executing")
  /\ executions[First(pending[r])] < 3
  /\ executions' = [executions EXCEPT ![First(pending[r])] = @ + 1]
  /\ UNCHANGED <<adapterVars, submitted, pc, batchVars, pending, target, excluded, result,
                 tried, answerVars>>

\* /v1/chat/completions answers for the next member.
ExecuteMember(r) ==
  /\ InFlight(r, "executing")
  /\ LET q == First(pending[r]) IN
     /\ status' = [status EXCEPT ![target[r]][q] = "completed"]
     /\ completions' = [completions EXCEPT ![target[r]] = @ \cup {q}]
     /\ executions' = [executions EXCEPT ![q] = @ + 1]
     /\ pending' = [pending EXCEPT ![r] = @ \ {q}]
  /\ IF LastMember(r)
     THEN Accepted(r, target[r])
     ELSE UNCHANGED <<submitted, pc, result>>
  /\ UNCHANGED <<phase, backendState, batchVars, target, excluded, tried,
                 answerVars>>

\* A status in 400..499 fails the member and with it the batch.
ExecuteMemberFails(r) ==
  /\ InFlight(r, "executing")
  /\ status' = [status EXCEPT ![target[r]][First(pending[r])] = "failed"]
  /\ pending' = [pending EXCEPT ![r] = {}]
  /\ Refused(r, target[r])
  /\ UNCHANGED <<phase, backendState, completions, submitted, batchVars,
                 target, tried,
                 answerVars, executions>>

\* A timeout, a lost connection or a server error.
ExecuteMemberRaises(r) ==
  /\ InFlight(r, "executing")
  /\ pending' = [pending EXCEPT ![r] = {}]
  /\ Raised(r, target[r])
  /\ UNCHANGED <<adapterVars, submitted, batchVars, target, tried,
                 answerVars, executions>>

-----------------------------------------------------------------------------
(***************************************************************************)
(* The answer to the request, _finalize_request and execute_streaming_path *)
(* from the dispatch result on.                                            *)
(***************************************************************************)

Own(r) == result[r][BatchOf[r]]

Answering(r) == pc[r] = "listing" /\ Pending(r) = {}

Answer(r, with) == answer' = [answer EXCEPT ![r] = with] /\ Goto(r, "done")

\* The batch was refused, or r has no result for it: others submitted it.
AnswerFailed(r) ==
  /\ Answering(r)
  /\ Own(r).outcome # "accepted"
  /\ Answer(r, "failed")
  /\ UNCHANGED <<adapterVars, submitted, loopVars, active, output, executions>>

\* get_request_completion, then complete_request with what it returned.
AnswerCompleted(r) ==
  /\ Answering(r)
  /\ Own(r).outcome = "accepted"
  /\ r \notin Streaming
  /\ output' = IF r \in completions[Own(r).backend] THEN output \cup {r} ELSE output
  /\ active' = active \ {r}
  /\ Answer(r, "completed")
  /\ UNCHANGED <<adapterVars, submitted, loopVars, executions>>

BeginStream(r) ==
  /\ Answering(r)
  /\ Own(r).outcome = "accepted"
  /\ r \in Streaming
  /\ Goto(r, "streaming")
  /\ UNCHANGED <<adapterVars, submitted, loopVars, answerVars, executions>>

StreamEnds(r) ==
  /\ InFlight(r, "streaming")
  /\ status' = [status EXCEPT ![Own(r).backend][r] = "completed"]
  /\ executions' = [executions EXCEPT ![r] = @ + 1]
  /\ active' = active \ {r}
  /\ Answer(r, "completed")
  /\ UNCHANGED <<phase, backendState, completions, submitted, loopVars, output>>

StreamFails(r) ==
  /\ InFlight(r, "streaming")
  /\ Answer(r, "failed")
  /\ UNCHANGED <<adapterVars, submitted, loopVars, active, output, executions>>

\* cancel_request of the backend, which knows the request since it accepted it.
StreamCancelled(r) ==
  /\ InFlight(r, "streaming")
  /\ status' = [status EXCEPT ![Own(r).backend][r] = "cancelled"]
  /\ Answer(r, "cancelled")
  /\ UNCHANGED <<phase, backendState, completions, submitted, loopVars, active, output,
                 executions>>

-----------------------------------------------------------------------------
Init ==
  /\ setup \in Setups
  /\ phase = "starting"
  /\ backendState = [b \in Backends |-> "starting"]
  /\ status = [b \in Backends |-> [r \in Requests |-> "unknown"]]
  /\ completions = [b \in Backends |-> {}]
  /\ submitted = {}
  /\ active = Requests
  /\ pc = [r \in Requests |-> "cycled"]
  /\ todo = [r \in Requests |-> {}]
  /\ current = [r \in Requests |-> NoBatch]
  /\ assignments = [r \in Requests |-> {}]
  /\ pending = [r \in Requests |-> {}]
  /\ target = [r \in Requests |-> NoBackend]
  /\ excluded = [r \in Requests |-> {}]
  /\ result = [r \in Requests |-> [k \in Batches |-> NoResult]]
  /\ answer = [r \in Requests |-> "none"]
  /\ output = {}
  /\ tried = [r \in Requests |-> [k \in Batches |-> <<>>]]
  /\ executions = [r \in Requests |-> 0]

HealthChecked(r) ==
  \/ HealthCheckRaises(r)
  \/ \E loaded \in SUBSET ServerModels :
       ModelNotLoaded(r, loaded) \/ DeferToStreams(r, loaded) \/ BeginExecution(r, loaded)

Continue(r) ==
  \/ NextBatch(r)
  \/ NoRoute(r)
  \/ BatchGone(r)
  \/ SubmitUnavailable(r)
  \/ SubmitTurnedDown(r)
  \/ SubmitToMock(r)
  \/ SubmitToVLLM(r)
  \/ HealthChecked(r)
  \/ ExecuteMember(r)
  \/ ExecuteMemberFails(r)
  \/ ExecuteMemberRaises(r)
  \/ AnswerFailed(r)
  \/ AnswerCompleted(r)
  \/ BeginStream(r)
  \/ StreamEnds(r)
  \/ StreamFails(r)
  \/ StreamCancelled(r)

Next ==
  \/ RefreshBackendHealth
  \/ Shutdown
  \/ \E r \in Requests : SubmitPendingBatches(r) \/ Continue(r)

\* The event loop runs ready coroutines, and every HTTP request of the adapter
\* ends by an answer or by its timeout.  Nothing forces a shutdown.
Fairness == \A r \in Requests : WF_vars(Continue(r))

Spec == Init /\ [][Next]_vars /\ Fairness

-----------------------------------------------------------------------------
(***************************************************************************)
(* Properties.                                                             *)
(***************************************************************************)

TypeOK ==
  /\ setup \in Setups
  /\ phase \in {"starting", "running", "stopped"}
  /\ backendState \in [Backends -> BackendStates]
  /\ status \in [Backends -> [Requests -> Statuses]]
  /\ completions \in [Backends -> SUBSET Requests]
  /\ submitted \subseteq Batches
  /\ active \subseteq Requests
  /\ pc \in [Requests -> {"cycled", "listing", "routing", "checking", "executing",
                          "streaming", "done"}]
  /\ todo \in [Requests -> SUBSET Batches]
  /\ current \in [Requests -> Batches \cup {NoBatch}]
  /\ assignments \in [Requests -> SUBSET Requests]
  /\ pending \in [Requests -> SUBSET Requests]
  /\ target \in [Requests -> Backends \cup {NoBackend}]
  /\ excluded \in [Requests -> SUBSET Backends]
  /\ result \in [Requests -> [Batches -> [outcome : {"none", "accepted", "refused"},
                                           backend : Backends \cup {NoBackend}]]]
  /\ answer \in [Requests -> {"none", "completed", "failed", "cancelled"}]
  /\ output \subseteq Requests
  /\ tried \in [Requests -> [Batches -> Seq(Backends)]]
  /\ executions \in [Requests -> Nat]

\* What the routing policies promise, said without their code: the backends a
\* model may use at all, and which of two is preferred.
Usable(m) ==
  {b \in Backends :
     /\ m \in Known
     /\ backendState[b] \in {"starting", "healthy", "degraded"}
     /\ Registered[b].models = {} \/ m \in Registered[b].models
     /\ \/ Record[m].policy \in {"explicit", "fallback"} /\ b = Record[m].backend
        \/ Record[m].policy = "fallback" /\ b = Record[m].fallback
        \/ Record[m].policy = "latency_tier" /\ Registered[b].latency = Record[m].latency
        \/ Record[m].policy = "quality_tier" /\ Registered[b].quality = Record[m].quality}

Preferred(m, b, c) ==
  /\ b # c
  /\ IF Record[m].policy = "fallback" THEN b = Record[m].backend ELSE b < c

\* While the adapter runs, the backends a submission has been offered to, in
\* whatever order attempts were refused or raised, are distinct usable backends
\* in order of preference without a gap: no backend is offered a batch twice,
\* and none is passed over (_submit_batch with route).  Without a routing engine
\* the default backend is taken as it is, but even then a backend found
\* unavailable at startup is never handed a request (submit_batch).
OfferedInOrder ==
  /\ TypeOK
  /\ RoutingConfigured /\ phase = "running" =>
       \A r \in Requests, k \in Batches :
         LET offered == tried[r][k] IN
         \A i \in DOMAIN offered :
           /\ offered[i] \in Usable(ModelOf[k])
           /\ \A j \in 1 .. i - 1 : offered[j] # offered[i]
           /\ \A b \in Usable(ModelOf[k]) :
                Preferred(ModelOf[k], b, offered[i]) => \E j \in 1 .. i - 1 : offered[j] = b
  /\ \A b \in Backends, r \in Requests : backendState[b] = "unhealthy" =>
       /\ status[b][r] = "unknown"
       /\ target[r] = b => pc[r] \notin {"checking", "executing", "streaming"}

\* A submission is given up only when every usable backend was offered the
\* batch, whether the last of them refused or raised (_submit_batch, both of
\* its failing returns).
RefusedMeansExhausted ==
  RoutingConfigured /\ phase = "running" =>
    \A r \in Requests, k \in Batches : result[r][k].outcome = "refused" =>
      \A b \in Usable(ModelOf[k]) : \E i \in DOMAIN tried[r][k] : tried[r][k][i] = b

\* When r's own dispatch result says that a vLLM backend accepted r's batch, and
\* the batch has no streaming members, that backend holds r's completion: also
\* when others submit the batch at the same time and attempts failed half way
\* (VLLMBackend.submit_batch, the lookup in _finalize_request).
AcceptedWasExecuted ==
  \A r \in Requests :
    /\ Own(r).outcome = "accepted"
    /\ Backend[Own(r).backend].kind = "vllm"
    /\ \A q \in Streaming : BatchOf[q] # BatchOf[r]
    => r \in completions[Own(r).backend]

\* Every submission that was begun ends in an answer to its request: the retry
\* terminates although backends may keep refusing and raising.
SubmissionsEnd == \A r \in Requests : (pc[r] = "routing") ~> (pc[r] = "done")

\* However submissions of two coroutines overlap, fail half way and are retried,
\* a request is executed at most once for each time its batch was offered to a
\* backend (the loop over the assignments in VLLMBackend.submit_batch).  Once
\* altogether is not guaranteed: a retry executes members again.
ExecutedPerOffer ==
  \A r \in Requests :
    executions[r] <=
      Cardinality(UNION {{q} \X DOMAIN tried[q][BatchOf[r]] : q \in Requests})
=============================================================================
