---------------------------- MODULE BatchEngine ----------------------------
(***************************************************************************)
(* The continuous batching engine of the scheduler                         *)
(* (services/scheduler/src/scheduler/batch/engine.py).  The engine places  *)
(* requests selected by a scheduling cycle into batches, one open batch    *)
(* per model, and retires them when they complete, fail or are cancelled.  *)
(* Every public operation holds the engine's lock, so each is one action.  *)
(***************************************************************************)
EXTENDS Integers, FiniteSets

CONSTANTS
  Requests,           \* request ids that may be handed to the engine
  Models,             \* model names
  ModelOf,            \* the model each request asks for
  MaxBatchSize,       \* BatchAdmissionConfig.max_batch_size
  MaxActiveRequests,  \* BatchAdmissionConfig.max_active_requests
  WindowLength,       \* BatchAdmissionConfig.batch_admission_window_ms
  MaxBatches,         \* bound: batches that can be created in one run
  MaxTime,            \* bound: last clock value
  Injections          \* failure points the injector may trigger

\* What BatchAdmissionConfig.validate enforces.
ASSUME ConfigAssumption ==
  /\ MaxBatchSize \in Nat \ {0}
  /\ MaxActiveRequests \in Nat \ {0}
  /\ WindowLength \in Nat \ {0}

Nobody == "nobody"

\* Requests arrive as finite sets; each names one known model.
ASSUME InputAssumption ==
  /\ IsFiniteSet(Requests)
  /\ Nobody \notin Requests
  /\ ModelOf \in [Requests -> Models]

\* The bounds of the model.
ASSUME BoundAssumption ==
  /\ MaxBatches \in Nat
  /\ MaxTime \in Nat

BatchId == 1 .. MaxBatches
NoBatch == 0

BatchState == {"created", "filling", "ready", "active",
               "completed", "failed", "cancelled"}
BATCH_TERMINAL_STATES == {"completed", "failed", "cancelled"}
MemberStatus == {"active", "completed", "cancelled", "failed"}

AcceptReasons == {"new_batch", "batch_has_capacity"}
RejectReasons == {"request_already_batched", "batch_full_no_slots",
                  "max_active_requests_reached", "batch_terminal",
                  "batch_full", "admission_window_closed"}
InjectedReasons == {"injected_batch_admission_failure",
                    "invalid_batch_assignment", "batch_creation_failure"}
RetireReasons == {"request_not_in_batch", "retired"}
Reasons == AcceptReasons \cup RejectReasons \cup InjectedReasons
             \cup RetireReasons \cup {"none"}

VARIABLES
  now,                  \* wall clock
  created,              \* number of batches created; ids are 1..created
  batchState,           \* context.state ("none" before creation)
  batchModel,           \* context.model
  windowEnd,            \* context.admission_window_end
  memberStatus,         \* _sets: status of each member of each batch
  slotIndex,            \* slot_index of each member of each batch
  requestToBatch,       \* _request_to_batch
  activeBatchByModel,   \* _active_batch_by_model
  assignments,          \* keys of _assignments
  outcome               \* decision_reason of the last call's result

vars == <<now, created, batchState, batchModel, windowEnd, memberStatus,
          slotIndex, requestToBatch, activeBatchByModel, assignments, outcome>>

-----------------------------------------------------------------------------
(***************************************************************************)
(* Reading the engine's state.                                             *)
(***************************************************************************)

ActiveMembers(b) == {r \in Requests : memberStatus[b][r] = "active"}
ActiveCount(b) == Cardinality(ActiveMembers(b))

ActivePairs == {p \in BatchId \X Requests : memberStatus[p[1]][p[2]] = "active"}
GlobalActiveCount == Cardinality(ActivePairs)

Open(b) == batchState[b] \notin BATCH_TERMINAL_STATES \cup {"none"}

HasRoom(b) == ActiveCount(b) < MaxBatchSize

\* Faulty variant: the slot after the last one taken, as if retired members
\* never left gaps.
NextSlotIndexByCount(used) == Cardinality(used)

\* The lowest slot index no active member of the batch uses.
NextSlotIndex(used) ==
  CHOOSE i \in 0 .. Cardinality(used) :
    i \notin used /\ \A j \in 0 .. i - 1 : j \in used

UsedSlots(b) == {slotIndex[b][r] : r \in ActiveMembers(b)}

\* The model's current batch if it is open and has room, else the first
\* filling batch of the model with room and an open window.
FillingBatches(m) ==
  {b \in 1 .. created : /\ batchModel[b] = m
                        /\ batchState[b] = "filling"
                        /\ HasRoom(b)
                        /\ now <= windowEnd[b]}

\* Faulty variant: a filling batch whose window closed is passed over without
\* being closed.
FindAdmittableBatchInWindow(m) ==
  LET b == activeBatchByModel[m] IN
  IF /\ b # NoBatch /\ Open(b) /\ HasRoom(b)
     /\ batchState[b] = "filling" => now <= windowEnd[b]
  THEN b ELSE NoBatch

FindAdmittableBatch(m) ==
  LET b == activeBatchByModel[m] IN
  IF b # NoBatch /\ Open(b) /\ HasRoom(b) THEN b
  ELSE IF FillingBatches(m) # {}
       THEN CHOOSE c \in FillingBatches(m) : \A d \in FillingBatches(m) : c <= d
       ELSE NoBatch

ActiveFullBatch(m) ==
  LET b == activeBatchByModel[m] IN
  b # NoBatch /\ batchState[b] = "active" /\ ~HasRoom(b)

\* Faulty variant: the global limit may be exceeded by one.
GlobalLimitExceeded == GlobalActiveCount > MaxActiveRequests

GlobalLimitReached == GlobalActiveCount >= MaxActiveRequests

EvaluateBatchAdmission(b) ==
  IF GlobalLimitReached THEN "max_active_requests_reached"
  ELSE IF b = NoBatch THEN "new_batch"
  ELSE IF batchState[b] \in BATCH_TERMINAL_STATES THEN "batch_terminal"
  ELSE IF ~HasRoom(b)
       THEN IF batchState[b] = "active" THEN "batch_full_no_slots" ELSE "batch_full"
  ELSE IF batchState[b] = "filling" /\ now > windowEnd[b]
       THEN "admission_window_closed"
  ELSE "batch_has_capacity"

\* Faulty variant: a request that is already batched is placed again.
VerdictNoDuplicateCheck(r) ==
  EvaluateBatchAdmission(FindAdmittableBatch(ModelOf[r]))

\* The answer to a placement, checks in the order the engine makes them.
Verdict(r) ==
  LET b == FindAdmittableBatch(ModelOf[r]) IN
  IF requestToBatch[r] # NoBatch THEN "request_already_batched"
  ELSE IF b = NoBatch /\ ActiveFullBatch(ModelOf[r]) THEN "batch_full_no_slots"
  ELSE EvaluateBatchAdmission(b)

\* Faulty variant: the batch is activated only by the member after the last.
StateAfterAdmissionLate(s, n, w) ==
  IF s = "ready" \/ (s = "filling" /\ (n > MaxBatchSize \/ now >= w))
  THEN "active" ELSE s

\* What _advance_batch_after_admission makes of a state when the batch has
\* n active members and its window closes at w.
StateAfterAdmission(s, n, w) ==
  IF s = "ready" \/ (s = "filling" /\ (n >= MaxBatchSize \/ now >= w))
  THEN "active" ELSE s

-----------------------------------------------------------------------------
(***************************************************************************)
(* Operations.                                                             *)
(***************************************************************************)

Refuse(reason) ==
  /\ outcome' = reason
  /\ UNCHANGED <<now, created, batchState, batchModel, windowEnd, memberStatus,
                 slotIndex, requestToBatch, activeBatchByModel, assignments>>

\* r becomes an active member of b, whose state before the admission is s and
\* whose window ends at w.  Opening and activating a batch both make it the
\* model's current batch.
AddMember(r, b, s, w) ==
  /\ memberStatus' = [memberStatus EXCEPT ![b] = [@ EXCEPT ![r] = "active"]]
  /\ slotIndex' = [slotIndex EXCEPT ![b] =
                     [@ EXCEPT ![r] = NextSlotIndex(UsedSlots(b))]]
  /\ requestToBatch' = [requestToBatch EXCEPT ![r] = b]
  /\ LET next == StateAfterAdmission(s, ActiveCount(b) + 1, w) IN
     /\ batchState' = [batchState EXCEPT ![b] = next]
     /\ activeBatchByModel' =
          IF b > created \/ next # s
          THEN [activeBatchByModel EXCEPT ![ModelOf[r]] = b]
          ELSE activeBatchByModel
  /\ assignments' = assignments \cup {r}
  /\ UNCHANGED now

AdmitToNewBatch(r) ==
  LET b == created + 1
      w == now + WindowLength
  IN  /\ created < MaxBatches
      /\ created' = b
      /\ batchModel' = [batchModel EXCEPT ![b] = ModelOf[r]]
      /\ windowEnd' = [windowEnd EXCEPT ![b] = w]
      /\ AddMember(r, b, "filling", w)

AdmitToOpenBatch(r) ==
  LET b == FindAdmittableBatch(ModelOf[r])
  IN  /\ AddMember(r, b, batchState[b], windowEnd[b])
      /\ UNCHANGED <<created, batchModel, windowEnd>>

\* The member stays placed even when the assignment is reported as invalid.
AdmittedAnswer(r) ==
  \/ outcome' = Verdict(r)
  \/ /\ "scheduler_invalid_batch_assignment" \in Injections
     /\ outcome' = "invalid_batch_assignment"

PlaceSelected(r) ==
  \/ /\ "batch_admission_failure" \in Injections
     /\ Refuse("injected_batch_admission_failure")
  \/ /\ Verdict(r) \in RejectReasons
     /\ Refuse(Verdict(r))
  \/ /\ Verdict(r) = "new_batch"
     /\ "batch_creation_failure" \in Injections
     /\ Refuse("batch_creation_failure")
  \/ /\ Verdict(r) = "new_batch"
     /\ AdmitToNewBatch(r)
     /\ AdmittedAnswer(r)
  \/ /\ Verdict(r) = "batch_has_capacity"
     /\ AdmitToOpenBatch(r)
     /\ AdmittedAnswer(r)

\* Faulty variant: a late failure overwrites the state of a batch that is
\* already terminal.
StateAfterRetireReopens(b, status, left) ==
  IF status = "failed" THEN "failed"
  ELSE IF left = {} /\ batchState[b] = "active" THEN "completed"
  ELSE batchState[b]

\* The state of batch b after a member is retired with the given status and
\* the active members are those in left.
StateAfterRetire(b, status, left) ==
  IF status = "failed" /\ Open(b) THEN "failed"
  ELSE IF status # "failed" /\ left = {} /\ batchState[b] = "active"
       THEN "completed"
  ELSE batchState[b]

RetireRequest(r, status) ==
  LET b == requestToBatch[r] IN
  \/ /\ b = NoBatch
     /\ Refuse("request_not_in_batch")
  \/ /\ b # NoBatch
     /\ LET next == StateAfterRetire(b, status, ActiveMembers(b) \ {r}) IN
        /\ memberStatus' = [memberStatus EXCEPT ![b] = [@ EXCEPT ![r] = status]]
        /\ batchState' = [batchState EXCEPT ![b] = next]
        /\ activeBatchByModel' =
             IF next # batchState[b]
             THEN [activeBatchByModel EXCEPT ![batchModel[b]] = NoBatch]
             ELSE activeBatchByModel
     /\ outcome' = "retired"
     /\ UNCHANGED <<now, created, batchModel, windowEnd, slotIndex,
                    requestToBatch, assignments>>

CompleteRequest(r) == RetireRequest(r, "completed")
FailRequest(r) == RetireRequest(r, "failed")
CancelRequest(r) == RetireRequest(r, "cancelled")

Tick ==
  /\ now < MaxTime
  /\ now' = now + 1
  /\ UNCHANGED <<created, batchState, batchModel, windowEnd, memberStatus,
                 slotIndex, requestToBatch, activeBatchByModel, assignments,
                 outcome>>

-----------------------------------------------------------------------------
Init ==
  /\ now = 0
  /\ created = 0
  /\ batchState = [b \in BatchId |-> "none"]
  /\ batchModel = [b \in BatchId |-> "none"]
  /\ windowEnd = [b \in BatchId |-> 0]
  /\ memberStatus = [b \in BatchId |-> [r \in Requests |-> "none"]]
  /\ slotIndex = [b \in BatchId |-> [r \in Requests |-> 0]]
  /\ requestToBatch = [r \in Requests |-> NoBatch]
  /\ activeBatchByModel = [m \in Models |-> NoBatch]
  /\ assignments = {}
  /\ outcome = "none"

Next ==
  \/ \E r \in Requests :
       \/ PlaceSelected(r)
       \/ CompleteRequest(r)
       \/ FailRequest(r)
       \/ CancelRequest(r)
  \/ Tick

Spec == Init /\ [][Next]_vars

-----------------------------------------------------------------------------
(***************************************************************************)
(* Properties.                                                             *)
(***************************************************************************)

\* The type of the engine's dictionaries.
TypeOK ==
  /\ now \in 0 .. MaxTime
  /\ created \in 0 .. MaxBatches
  /\ batchState \in [BatchId -> BatchState \cup {"none"}]
  /\ batchModel \in [BatchId -> Models \cup {"none"}]
  /\ windowEnd \in [BatchId -> Nat]
  /\ memberStatus \in [BatchId -> [Requests -> MemberStatus \cup {"none"}]]
  /\ slotIndex \in [BatchId -> [Requests -> Nat]]
  /\ requestToBatch \in [Requests -> BatchId \cup {NoBatch}]
  /\ activeBatchByModel \in [Models -> BatchId \cup {NoBatch}]
  /\ assignments \in SUBSET Requests
  /\ outcome \in Reasons

\* Between two calls no batch rests in CREATED or READY, and a filling batch
\* has room: the placement that fills it also activates it.
BatchesWellFormed ==
  \A b \in BatchId :
    /\ batchState[b] = "none" <=> b > created
    /\ batchState[b] # "none" =>
         /\ batchState[b] \in {"filling", "active", "completed", "failed"}
         /\ batchModel[b] \in Models
    /\ batchState[b] = "filling" => ActiveCount(b) < MaxBatchSize

\* place_selected never overfills: no batch holds more active members than
\* max_batch_size, whatever sequence of placements and retirements led here.
BatchCapacityRespected == \A b \in BatchId : ActiveCount(b) <= MaxBatchSize

\* The active members of all batches together, members left behind in failed
\* batches included, never exceed max_active_requests.
GlobalCapacityRespected == GlobalActiveCount <= MaxActiveRequests

\* Two active members of one batch never share a slot, and a slot reused after
\* a retirement is always one of the max_batch_size slots of the batch.
SlotsExclusive ==
  \A b \in BatchId : \A r \in ActiveMembers(b) :
    /\ slotIndex[b][r] < MaxBatchSize
    /\ \A q \in ActiveMembers(b) : slotIndex[b][r] = slotIndex[b][q] => r = q

\* _active_batch_by_model is exact: it names, for each model, the one batch of
\* that model that is not terminal.  In particular a model never has two open
\* batches and the unconditional pop of a closing batch drops its own entry.
ActiveIndexExact ==
  /\ \A b \in BatchId : Open(b) => activeBatchByModel[batchModel[b]] = b
  /\ \A m \in Models :
       activeBatchByModel[m] # NoBatch =>
         /\ Open(activeBatchByModel[m])
         /\ batchModel[activeBatchByModel[m]] = m

\* _request_to_batch, the member sets and _assignments agree: a request is a
\* member of at most one batch, of its own model, and has an assignment there.
MembershipAgrees ==
  \A r \in Requests :
    /\ \A b \in BatchId :
         memberStatus[b][r] # "none" <=> requestToBatch[r] = b
    /\ requestToBatch[r] # NoBatch <=> r \in assignments
    /\ requestToBatch[r] # NoBatch =>
         /\ requestToBatch[r] <= created
         /\ batchModel[requestToBatch[r]] = ModelOf[r]

\* An active batch always has work and a completed one never does: the last
\* retirement and the completion of the batch are one step.
ActiveBatchesBusy ==
  \A b \in BatchId :
    /\ batchState[b] = "active" => ActiveMembers(b) # {}
    /\ batchState[b] = "completed" => ActiveMembers(b) = {}

\* A terminal batch is never revived: it keeps its state and admits nobody,
\* even when its members are retired a second time with another status.
TerminalBatchesFrozen ==
  [][\A b \in BatchId :
       batchState[b] \in BATCH_TERMINAL_STATES =>
         /\ batchState'[b] = batchState[b]
         /\ \A r \in Requests :
              memberStatus[b][r] # "active" => memberStatus'[b][r] # "active"]_vars

-----------------------------------------------------------------------------
(***************************************************************************)
(* The engine implements a pool of MaxBatchSize slots per batch.           *)
(***************************************************************************)

AllSlots == BatchId \X (0 .. MaxBatchSize - 1)

SlotHolders(s) == {r \in ActiveMembers(s[1]) : slotIndex[s[1]][r] = s[2]}

Occupant(S) == IF S = {} THEN Nobody ELSE CHOOSE r \in S : TRUE
HolderOf(s) == Occupant(SlotHolders(s))

Pool == INSTANCE SlotPool WITH
  Slots <- AllSlots,
  MaxHeld <- MaxActiveRequests,
  Free <- Nobody,
  holder <- [s \in AllSlots |-> HolderOf(s)],
  served <- {r \in Requests : requestToBatch[r] # NoBatch}

\* Seen from outside, placements and retirements are grants and returns of
\* slots: one free slot per placement, at most once per request, and never
\* more than max_active_requests slots at a time.
ImplementsSlotPool == Pool!Spec
=============================================================================
