------------------------- MODULE RequestPathProofs -------------------------
(***************************************************************************)
(* Theorems about the composed request path, for any set of requests,      *)
(* models, limits, injected failures and any bounds.                       *)
(***************************************************************************)
EXTENDS RequestPath, FiniteSetTheorems, FunctionTheorems, SequenceTheorems, TLAPS

-----------------------------------------------------------------------------
(***************************************************************************)
(* Sets of numbers.                                                        *)
(***************************************************************************)

\* A non-empty set of naturals has a least element.
LEMMA LeastNatural ==
  ASSUME NEW S \in SUBSET Nat, S # {}
  PROVE  \E x \in S : \A y \in S : x <= y
<1>1. PICK x \in S : \A y \in S : ~(<<y, x>> \in OpToRel(<, Nat))
  BY WFMin, NatLessThanWellFounded
<1>2. ASSUME NEW y \in S PROVE x <= y
  <2>1. <<y, x>> \in OpToRel(<, Nat) <=> y < x
    BY DEF OpToRel
  <2>2. ~(y < x)
    BY <1>1, <2>1, Zenon
  <2>3. x \in Nat /\ y \in Nat
    OBVIOUS
  <2> QED BY <2>2, <2>3
<1> QED BY <1>2

\* Counting the members of a finite set of numbers up to one of them is strictly
\* monotone, so no two members have the same rank.
LEMMA RankIsMonotone ==
  ASSUME NEW kept \in SUBSET Nat, IsFiniteSet(kept),
         NEW a \in kept, NEW b \in kept, a < b
  PROVE  /\ Cardinality({j \in kept : j <= a}) \in 1 .. Cardinality(kept)
         /\ Cardinality({j \in kept : j <= b}) \in 1 .. Cardinality(kept)
         /\ Cardinality({j \in kept : j <= a}) < Cardinality({j \in kept : j <= b})
<1> DEFINE A == {j \in kept : j <= a}
           B == {j \in kept : j <= b}
<1>0. a \in Nat /\ b \in Nat /\ \A j \in kept : j \in Nat
  OBVIOUS
<1>1. A \in SUBSET B /\ B \in SUBSET kept /\ A \in SUBSET kept
  <2>1. \A j \in A : j \in B
    BY <1>0
  <2> QED BY <2>1
<1>2. a \in A /\ b \in B /\ b \notin A
  OBVIOUS
<1> HIDE DEF A, B
<1>3. IsFiniteSet(A) /\ IsFiniteSet(B)
  BY <1>1, FS_Subset
<1>4. Cardinality(A) <= Cardinality(B) /\ (Cardinality(B) = Cardinality(A) => A = B)
  BY <1>1, <1>3, FS_Subset
<1>5. Cardinality(B) <= Cardinality(kept) /\ Cardinality(A) <= Cardinality(kept)
  BY <1>1, FS_Subset
<1>6. Cardinality(A) # 0
  BY <1>2, <1>3, FS_EmptySet
<1>7. Cardinality(A) \in Nat /\ Cardinality(B) \in Nat /\ Cardinality(kept) \in Nat
  BY <1>3, FS_CardinalityType
<1>8. Cardinality(A) # Cardinality(B)
  BY <1>2, <1>4
<1>9. /\ Cardinality(A) \in 1 .. Cardinality(kept)
      /\ Cardinality(B) \in 1 .. Cardinality(kept)
      /\ Cardinality(A) < Cardinality(B)
  BY <1>4, <1>5, <1>6, <1>7, <1>8
<1> QED BY <1>9 DEF A, B

\* The rank of any kept index is one of 1 .. |kept|.
LEMMA RankInRange ==
  ASSUME NEW kept \in SUBSET Nat, IsFiniteSet(kept), NEW a \in kept
  PROVE  Cardinality({j \in kept : j <= a}) \in 1 .. Cardinality(kept)
<1> DEFINE A == {j \in kept : j <= a}
<1>1. A \in SUBSET kept /\ a \in A
  OBVIOUS
<1> HIDE DEF A
<1>2. IsFiniteSet(A) /\ Cardinality(A) <= Cardinality(kept)
  BY <1>1, FS_Subset
<1>3. Cardinality(A) # 0
  BY <1>1, <1>2, FS_EmptySet
<1>4. Cardinality(A) \in Nat /\ Cardinality(kept) \in Nat
  BY <1>2, FS_CardinalityType
<1>5. Cardinality(A) \in 1 .. Cardinality(kept)
  BY <1>2, <1>3, <1>4
<1> QED BY <1>5 DEF A

\* Every count up to |kept| is the rank of some kept index.
LEMMA RankIsOnto ==
  ASSUME NEW kept \in SUBSET Nat, IsFiniteSet(kept), NEW k \in 1 .. Cardinality(kept)
  PROVE  \E i \in kept : Cardinality({j \in kept : j <= i}) = k
<1> DEFINE n == Cardinality(kept)
           rank == [i \in kept |-> Cardinality({j \in kept : j <= i})]
<1>1. n \in Nat
  BY FS_CardinalityType
<1>2. rank \in [kept -> 1 .. n]
  BY RankInRange
<1>3. \A a, b \in kept : rank[a] = rank[b] => a = b
  <2> SUFFICES ASSUME NEW a \in kept, NEW b \in kept, a # b
               PROVE  rank[a] # rank[b]
    BY Zenon
  <2>1. a \in Nat /\ b \in Nat
    OBVIOUS
  <2>2. CASE a < b
    BY <2>2, <1>1, RankIsMonotone
  <2>3. CASE b < a
    BY <2>3, <1>1, RankIsMonotone
  <2> QED BY <2>1, <2>2, <2>3
<1> HIDE DEF rank
<1>4. rank \in Injection(kept, 1 .. n)
  BY <1>2, <1>3, Fun_IsInj
<1>5. IsFiniteSet(1 .. n) /\ Cardinality(1 .. n) = n
  BY <1>1, FS_Interval
<1>6. rank \in Surjection(kept, 1 .. n)
  BY <1>4, <1>5, FS_Injection
<1>7. \E i \in kept : rank[i] = k
  BY <1>6 DEF Surjection
<1> QED BY <1>7 DEF rank

\* Counting is the same for both components.
LEMMA SameCardinality ==
  ASSUME NEW S
  PROVE  /\ CP!Cardinality(S) = Cardinality(S)
         /\ BE!Cardinality(S) = Cardinality(S)
BY Zenon DEF CP!Cardinality, BE!Cardinality, Cardinality

-----------------------------------------------------------------------------
(***************************************************************************)
(* What the operations of the control plane do to its variables.           *)
(***************************************************************************)

Items == [id : Requests, entered : 0 .. MaxTime]

\* What expiry leaves of the queue is a queue.
LEMMA RemainingIsQueue ==
  ASSUME CP!TypeOK
  PROVE  CP!Remaining \in Seq(Items)
<1> DEFINE kept == {i \in DOMAIN queue : ~CP!Expired(queue[i])}
           n == CP!Cardinality(kept)
           Nth(k) == CHOOSE i \in kept : CP!Cardinality({j \in kept : j <= i}) = k
           t == [k \in 1 .. n |-> queue[Nth(k)]]
<1>1. queue \in Seq(Items)
  BY DEF CP!TypeOK, Items
<1>2. Len(queue) \in Nat /\ DOMAIN queue = 1 .. Len(queue) /\ \A i \in DOMAIN queue : queue[i] \in Items
  BY <1>1, LenProperties
<1>3. kept \in SUBSET (1 .. Len(queue))
  BY <1>2
<1> HIDE DEF kept
<1>4. IsFiniteSet(kept) /\ kept \in SUBSET Nat /\ n \in Nat
  <2>1. IsFiniteSet(1 .. Len(queue))
    BY <1>2, FS_Interval
  <2>2. IsFiniteSet(kept)
    BY <1>3, <2>1, FS_Subset
  <2> QED BY <1>2, <1>3, <2>2, SameCardinality, FS_CardinalityType
<1>5. ASSUME NEW k \in 1 .. n PROVE Nth(k) \in kept
  <2>1. \E i \in kept : Cardinality({j \in kept : j <= i}) = k
    BY <1>4, SameCardinality, RankIsOnto
  <2>2. \E i \in kept : CP!Cardinality({j \in kept : j <= i}) = k
    BY <2>1, SameCardinality
  <2> QED BY <2>2
<1> HIDE DEF Nth, n
<1>6. t \in [1 .. n -> Items]
  BY <1>2, <1>3, <1>5
<1>7. t \in Seq(Items)
  BY <1>4, <1>6, SeqDef
<1>8. CP!Remaining = t
  BY DEF CP!Remaining, CP!ItemsAt, kept, Nth, n
<1> QED BY <1>7, <1>8

\* Replacing the queue renumbers the registry entries.
LEMMA SetQueueKeepsTypes ==
  ASSUME CP!TypeOK, NEW t \in Seq(Items), CP!SetQueue(t)
  PROVE  /\ queue' \in Seq(Items)
         /\ position' \in [Requests -> Nat]
<1>1. DOMAIN t \subseteq Nat
  BY LenProperties
<1>2. CP!Reindexed(t) \in [Requests -> Nat]
  <2>1. ASSUME NEW r \in Requests
        PROVE  (IF \E i \in DOMAIN t : t[i].id = r
                THEN CHOOSE i \in DOMAIN t : t[i].id = r ELSE position[r]) \in Nat
    BY <1>1 DEF CP!TypeOK
  <2> QED BY <2>1 DEF CP!Reindexed
<1> QED BY <1>2 DEF CP!SetQueue

\* An operation of the control plane on behalf of r: the types hold and every
\* other request keeps its state or times out.
ActsFor(r) ==
  /\ CP!TypeOK'
  /\ \A q \in Requests \ {r} : state'[q] \in {state[q], "timed_out"}

\* Every operation but the writes of a single entry: what is marked as timed
\* out, and what is written for r.
LEMMA QueueOperationActs ==
  ASSUME CP!TypeOK, NEW r \in Requests,
         \/ CP!Submit(r)
         \/ CP!SubmitAtCapacity(r)
         \/ CP!Enqueue(r)
         \/ CP!RejectQueueFull(r)
  PROVE  ActsFor(r)
<1> DEFINE item == [id |-> r, entered |-> now]
<1>1. /\ now \in 0 .. MaxTime
      /\ state \in [Requests -> CP!RequestState \cup {"unregistered"}]
      /\ failure \in [Requests -> CP!FailureReasons]
      /\ enqueuing \in Requests \cup {CP!Idle}
  BY DEF CP!TypeOK
<1>2. CP!Remaining \in Seq(Items) /\ Append(CP!Remaining, item) \in Seq(Items)
  BY <1>1, RemainingIsQueue, AppendProperties DEF Items
<1>3. /\ queue' \in Seq(Items)
      /\ position' \in [Requests -> Nat]
  BY <1>2, SetQueueKeepsTypes
  DEF CP!Submit, CP!SubmitAtCapacity, CP!Enqueue, CP!RejectQueueFull, CP!Enqueued
<1>4. /\ CP!TimedOutStates(state) \in [Requests -> CP!RequestState \cup {"unregistered"}]
      /\ \A q \in Requests : CP!TimedOutStates(state)[q] \in {state[q], "timed_out"}
      /\ CP!TimedOutFailures(failure) \in [Requests -> CP!FailureReasons]
  BY <1>1
  DEF CP!TimedOutStates, CP!TimedOutFailures, CP!RequestState, CP!TerminalStates, CP!FailureReasons
<1> HIDE DEF item
<1>5. /\ now' = now
      /\ state' \in [Requests -> CP!RequestState \cup {"unregistered"}]
      /\ failure' \in [Requests -> CP!FailureReasons]
      /\ enqueuing' \in Requests \cup {CP!Idle}
      /\ \A q \in Requests \ {r} : state'[q] \in {state[q], "timed_out"}
  <2> USE <1>1, <1>4 DEF CP!RequestState, CP!TerminalStates, CP!FailureReasons
  <2>1. CASE CP!Submit(r)
    BY <2>1 DEF CP!Submit
  <2>2. CASE CP!SubmitAtCapacity(r)
    BY <2>2 DEF CP!SubmitAtCapacity
  <2>3. CASE CP!Enqueue(r)
    BY <2>3 DEF CP!Enqueue
  <2>4. CASE CP!RejectQueueFull(r)
    BY <2>4 DEF CP!RejectQueueFull
  <2> QED BY <2>1, <2>2, <2>3, <2>4
<1> QED BY <1>1, <1>3, <1>5 DEF ActsFor, CP!TypeOK, Items

\* A cycle's look at the queue drops items and marks nobody.
LEMMA ListingActs ==
  ASSUME CP!TypeOK, NEW r, CP!ListItems
  PROVE  ActsFor(r) /\ state' = state /\ now' = now
<1>1. queue' \in Seq(Items) /\ position' \in [Requests -> Nat]
  BY RemainingIsQueue, SetQueueKeepsTypes DEF CP!ListItems
<1> QED BY <1>1 DEF ActsFor, CP!ListItems, CP!TypeOK, Items

\* Writing r's entry leaves everything else of the control plane alone.
LEMMA RecordActs ==
  ASSUME CP!TypeOK, NEW r \in Requests,
         NEW s \in CP!RequestState, NEW f \in CP!FailureReasons, CP!Record(r, s, f)
  PROVE  ActsFor(r) /\ state'[r] = s
BY DEF CP!TypeOK, CP!Record, ActsFor

\* The write of QUEUED after the enqueue.
LEMMA MarkQueuedActs ==
  ASSUME CP!TypeOK, NEW r \in Requests, CP!MarkQueued(r)
  PROVE  ActsFor(r) /\ state'[r] = "queued"
BY DEF CP!TypeOK, CP!MarkQueued, ActsFor, CP!RequestState

-----------------------------------------------------------------------------
(***************************************************************************)
(* What the operations of the batching engine do to its variables.         *)
(***************************************************************************)

\* q is admitted to a batch, for the first time.
Placed(q) ==
  \E b \in BE!BatchId :
    /\ requestToBatch[q] = 0
    /\ requestToBatch' = [requestToBatch EXCEPT ![q] = b]
    /\ memberStatus' = [memberStatus EXCEPT ![b] = [@ EXCEPT ![q] = "active"]]
    /\ assignments' = assignments \cup {q}

SameMembers == UNCHANGED <<memberStatus, requestToBatch, assignments>>

\* The slot a new member gets exists.
LEMMA SlotIsNumber ==
  ASSUME BE!TypeOK, NEW b \in BE!BatchId
  PROVE  BE!NextSlotIndex(BE!UsedSlots(b)) \in Nat
<1> DEFINE used == BE!UsedSlots(b)
           n == Cardinality(used)
           free == {i \in 0 .. n : i \notin used}
<1>1. IsFiniteSet(used)
  <2> DEFINE f == [r \in BE!ActiveMembers(b) |-> slotIndex[b][r]]
  <2>1. IsFiniteSet(BE!ActiveMembers(b))
    BY SettingsAssumption, FS_Subset DEF BE!ActiveMembers
  <2>2. f \in Surjection(BE!ActiveMembers(b), used)
    BY Fun_IsSurj DEF BE!UsedSlots
  <2> QED BY <2>1, <2>2, FS_Surjection
<1> HIDE DEF used
<1>2. n \in Nat
  BY <1>1, FS_CardinalityType
<1>3. free # {}
  <2> SUFFICES ASSUME free = {} PROVE FALSE
    OBVIOUS
  <2>1. (0 .. n) \in SUBSET used
    OBVIOUS
  <2>2. Cardinality(0 .. n) <= n
    BY <1>1, <2>1, FS_Subset
  <2>3. Cardinality(0 .. n) = n + 1
    BY <1>2, FS_Interval
  <2> QED BY <1>2, <2>2, <2>3
<1>4. PICK i \in free : \A j \in free : i <= j
  <2>1. free \in SUBSET Nat
    BY <1>2
  <2> HIDE DEF free
  <2> QED BY <1>3, <2>1, LeastNatural
<1>5. i \in 0 .. n /\ i \notin used /\ \A j \in 0 .. i - 1 : j \in used
  BY <1>2, <1>4
<1>6. BE!NextSlotIndex(used) \in 0 .. n
  BY <1>5, SameCardinality DEF BE!NextSlotIndex
<1> QED BY <1>2, <1>6 DEF used

\* A search for a batch finds one that was created, or none.
LEMMA SearchFindsBatch ==
  ASSUME BE!TypeOK, NEW m \in Models, BE!FindAdmittableBatch(m) # 0
  PROVE  /\ BE!FindAdmittableBatch(m) \in BE!BatchId
         /\ batchState[BE!FindAdmittableBatch(m)] \in BE!BatchState
<1> DEFINE F == BE!FillingBatches(m)
           b == activeBatchByModel[m]
<1>1. /\ b \in BE!BatchId \cup {0}
      /\ \A c \in BE!BatchId : batchState[c] \in BE!BatchState \cup {"none"}
  BY DEF BE!TypeOK, BE!NoBatch
<1>2. F \in SUBSET BE!BatchId /\ F \in SUBSET Nat /\ \A c \in F : batchState[c] = "filling"
  BY SettingsAssumption DEF BE!TypeOK, BE!FillingBatches, BE!BatchId
<1>3. ASSUME F # {} PROVE \E c \in F : \A d \in F : c <= d
  BY <1>2, <1>3, LeastNatural
<1> HIDE DEF F
<1>4. ASSUME F # {} PROVE (CHOOSE c \in F : \A d \in F : c <= d) \in F
  BY <1>3, <1>4
<1>5. BE!Open(b) => batchState[b] # "none"
  BY DEF BE!Open
<1> QED BY <1>1, <1>2, <1>4, <1>5 DEF BE!FindAdmittableBatch, F, BE!NoBatch, BE!BatchState

\* What AddMember does, once the other dictionaries are known to be typed.
LEMMA AdmissionActs ==
  ASSUME BE!TypeOK, NEW q \in Requests, NEW b \in BE!BatchId,
         NEW s \in BE!BatchState, NEW w, BE!AddMember(q, b, s, w),
         requestToBatch[q] = 0, outcome' \in BE!Reasons,
         created' \in 0 .. MaxBatches,
         batchModel' \in [BE!BatchId -> Models \cup {"none"}],
         windowEnd' \in [BE!BatchId -> Nat]
  PROVE  BE!TypeOK' /\ Placed(q)
<1>1. /\ now \in 0 .. MaxTime
      /\ batchState \in [BE!BatchId -> BE!BatchState \cup {"none"}]
      /\ memberStatus \in [BE!BatchId -> [Requests -> BE!MemberStatus \cup {"none"}]]
      /\ slotIndex \in [BE!BatchId -> [Requests -> Nat]]
      /\ requestToBatch \in [Requests -> BE!BatchId \cup {BE!NoBatch}]
      /\ activeBatchByModel \in [Models -> BE!BatchId \cup {BE!NoBatch}]
      /\ assignments \in SUBSET Requests
  BY DEF BE!TypeOK
<1> DEFINE next == BE!StateAfterAdmission(s, BE!ActiveCount(b) + 1, w)
           slot == BE!NextSlotIndex(BE!UsedSlots(b))
           row == [memberStatus[b] EXCEPT ![q] = "active"]
           slots == [slotIndex[b] EXCEPT ![q] = slot]
<1>2. next \in BE!BatchState
  BY DEF BE!StateAfterAdmission, BE!BatchState
<1>3. slot \in Nat
  BY SlotIsNumber
<1>4. /\ row \in [Requests -> BE!MemberStatus \cup {"none"}]
      /\ slots \in [Requests -> Nat]
  BY <1>1, <1>3 DEF BE!MemberStatus
<1>5. /\ memberStatus' = [memberStatus EXCEPT ![b] = row]
      /\ slotIndex' = [slotIndex EXCEPT ![b] = slots]
      /\ requestToBatch' = [requestToBatch EXCEPT ![q] = b]
      /\ batchState' = [batchState EXCEPT ![b] = next]
      /\ \/ activeBatchByModel' = [activeBatchByModel EXCEPT ![ModelOf[q]] = b]
         \/ activeBatchByModel' = activeBatchByModel
      /\ assignments' = assignments \cup {q}
      /\ now' = now
  BY DEF BE!AddMember
<1> HIDE DEF next, slot, row, slots
<1>6. BE!TypeOK'
  BY <1>1, <1>2, <1>4, <1>5 DEF BE!TypeOK
<1>7. Placed(q)
  BY <1>5 DEF Placed, row
<1> QED BY <1>6, <1>7

\* place_selected refuses and touches no member, or makes q a member of a batch
\* it was not in; an accepting answer means the latter.
LEMMA PlacementActs ==
  ASSUME BE!TypeOK, NEW q \in Requests, BE!PlaceSelected(q)
  PROVE  /\ BE!TypeOK'
         /\ SameMembers \/ Placed(q)
         /\ outcome' \in BE!AcceptReasons => Placed(q)
<1> DEFINE Acts == /\ BE!TypeOK'
                   /\ SameMembers \/ Placed(q)
                   /\ outcome' \in BE!AcceptReasons => Placed(q)
           m == ModelOf[q]
<1> USE DEF BE!NoBatch
<1>1. m \in Models
  BY SettingsAssumption
<1>2. ASSUME NEW reason \in BE!Reasons \ BE!AcceptReasons, BE!Refuse(reason) PROVE Acts
  BY <1>2 DEF BE!Refuse, BE!TypeOK, SameMembers
<1>3. /\ BE!RejectReasons \cup BE!InjectedReasons \subseteq BE!Reasons \ BE!AcceptReasons
      /\ BE!AcceptReasons \subseteq BE!Reasons
  BY DEF BE!RejectReasons, BE!InjectedReasons, BE!Reasons, BE!AcceptReasons
<1>4. CASE /\ "batch_admission_failure" \in Injections
           /\ BE!Refuse("injected_batch_admission_failure")
  BY <1>2, <1>3, <1>4 DEF BE!InjectedReasons
<1>5. CASE BE!Verdict(q) \in BE!RejectReasons /\ BE!Refuse(BE!Verdict(q))
  BY <1>2, <1>3, <1>5
<1>6. CASE BE!Verdict(q) = "new_batch" /\ BE!Refuse("batch_creation_failure")
  BY <1>2, <1>3, <1>6 DEF BE!InjectedReasons
<1>7. ASSUME BE!Verdict(q) \in BE!AcceptReasons, BE!AdmittedAnswer(q)
      PROVE  outcome' \in BE!Reasons /\ requestToBatch[q] = 0
  <2>1. outcome' \in BE!Reasons
    BY <1>3, <1>7 DEF BE!AdmittedAnswer, BE!InjectedReasons
  <2>2. requestToBatch[q] = 0
    BY <1>7 DEF BE!Verdict, BE!AcceptReasons
  <2> QED BY <2>1, <2>2
<1>8. CASE BE!Verdict(q) = "new_batch" /\ BE!AdmitToNewBatch(q) /\ BE!AdmittedAnswer(q)
  <2> DEFINE b == created + 1
             w == now + WindowLength
  <2>1. outcome' \in BE!Reasons /\ requestToBatch[q] = 0
    BY <1>7, <1>8 DEF BE!AcceptReasons
  <2>2. /\ created < MaxBatches /\ created' = b
        /\ batchModel' = [batchModel EXCEPT ![b] = m]
        /\ windowEnd' = [windowEnd EXCEPT ![b] = w]
        /\ BE!AddMember(q, b, "filling", w)
    BY <1>8 DEF BE!AdmitToNewBatch
  <2>3. b \in BE!BatchId /\ w \in Nat /\ "filling" \in BE!BatchState /\ created' \in 0 .. MaxBatches
    BY <2>2, SettingsAssumption DEF BE!TypeOK, BE!BatchId, BE!BatchState
  <2> HIDE DEF b, w
  <2>4. /\ batchModel' \in [BE!BatchId -> Models \cup {"none"}]
        /\ windowEnd' \in [BE!BatchId -> Nat]
    BY <1>1, <2>2, <2>3 DEF BE!TypeOK
  <2> QED BY <2>1, <2>2, <2>3, <2>4, AdmissionActs
<1>9. CASE BE!Verdict(q) = "batch_has_capacity" /\ BE!AdmitToOpenBatch(q) /\ BE!AdmittedAnswer(q)
  <2> DEFINE b == BE!FindAdmittableBatch(m)
  <2>1. outcome' \in BE!Reasons /\ requestToBatch[q] = 0
    BY <1>7, <1>9 DEF BE!AcceptReasons
  <2>2. b # 0
    BY <1>9 DEF BE!Verdict, BE!EvaluateBatchAdmission, BE!RejectReasons
  <2>3. b \in BE!BatchId /\ batchState[b] \in BE!BatchState
    BY <1>1, <2>2, SearchFindsBatch
  <2>4. /\ BE!AddMember(q, b, batchState[b], windowEnd[b])
        /\ created' = created /\ batchModel' = batchModel /\ windowEnd' = windowEnd
    BY <1>9 DEF BE!AdmitToOpenBatch
  <2> HIDE DEF b
  <2> QED BY <2>1, <2>3, <2>4, AdmissionActs DEF BE!TypeOK
<1> QED BY <1>4, <1>5, <1>6, <1>8, <1>9 DEF BE!PlaceSelected

\* complete_request retires r in the batch it was placed in.
LEMMA RetirementActs ==
  ASSUME BE!TypeOK, NEW r \in Requests, requestToBatch[r] # 0, BE!CompleteRequest(r)
  PROVE  /\ BE!TypeOK'
         /\ UNCHANGED <<requestToBatch, assignments>>
         /\ memberStatus' = [memberStatus EXCEPT ![requestToBatch[r]] =
                               [@ EXCEPT ![r] = "completed"]]
<1> DEFINE b == requestToBatch[r]
           next == BE!StateAfterRetire(b, "completed", BE!ActiveMembers(b) \ {r})
           row == [memberStatus[b] EXCEPT ![r] = "completed"]
<1> USE DEF BE!NoBatch
<1>1. /\ now \in 0 .. MaxTime
      /\ batchState \in [BE!BatchId -> BE!BatchState \cup {"none"}]
      /\ memberStatus \in [BE!BatchId -> [Requests -> BE!MemberStatus \cup {"none"}]]
      /\ activeBatchByModel \in [Models -> BE!BatchId \cup {0}]
      /\ b \in BE!BatchId
  BY DEF BE!TypeOK
<1>2. /\ memberStatus' = [memberStatus EXCEPT ![b] = row]
      /\ batchState' = [batchState EXCEPT ![b] = next]
      /\ \/ activeBatchByModel' = [activeBatchByModel EXCEPT ![batchModel[b]] = 0]
         \/ activeBatchByModel' = activeBatchByModel
      /\ outcome' = "retired"
      /\ UNCHANGED <<now, created, batchModel, windowEnd, slotIndex, requestToBatch, assignments>>
  BY DEF BE!CompleteRequest, BE!RetireRequest
<1>3. next \in BE!BatchState \cup {"none"}
  BY <1>1 DEF BE!StateAfterRetire, BE!BatchState
<1>4. row \in [Requests -> BE!MemberStatus \cup {"none"}]
  BY <1>1 DEF BE!MemberStatus
<1>5. "retired" \in BE!Reasons
  BY DEF BE!Reasons, BE!RetireReasons
<1> HIDE DEF next, row
<1>6. BE!TypeOK'
  <2> HIDE DEF b
  <2> QED BY <1>1, <1>2, <1>3, <1>4, <1>5 DEF BE!TypeOK
<1> QED BY <1>2, <1>6 DEF row

-----------------------------------------------------------------------------
(***************************************************************************)
(* The inductive invariant.  It follows one coroutine: which states its    *)
(* request can be in, that the slot it was given is its own until it gives *)
(* it back, and that its dispatch results speak of batches it was in when  *)
(* they were submitted.                                                    *)
(***************************************************************************)

Labels == {"new", "admission", "enqueued", "accepted", "cycle", "in_cycle",
           "cycled", "submitting", "executing", "streaming", "done"}

\* The places before the first dispatch of the coroutine.
Early == {"new", "admission", "enqueued", "accepted", "cycle", "in_cycle"}

\* The types of the variables of the composition itself.
PathTypes ==
  /\ pc \in [Requests -> Labels]
  /\ cycling \in Requests \cup {Ticker, Idle}
  /\ toPlace \in Seq(Requests)
  /\ decision \in [Requests \cup {Ticker} -> {"none", "skipped", "placed", "rejected"}]
  /\ inFlight \in [Requests -> [batch : Nat, members : SUBSET Requests]]
  /\ todo \in [Requests -> SUBSET BE!BatchId]
  /\ accepted \in [Requests -> SUBSET BE!BatchId]
  /\ submitted \subseteq BE!BatchId
  /\ executed \subseteq Requests

\* The engine's dictionaries agree on who was placed where.
Membership ==
  \A r \in Requests :
    /\ \A b \in BE!BatchId : memberStatus[b][r] # "none" <=> requestToBatch[r] = b
    /\ requestToBatch[r] # 0 => r \in assignments

\* What a finished coroutine leaves behind.
Settled(r) ==
  \/ state[r] \in CP!TerminalStates
  \/ state[r] = "unregistered"
  \/ state[r] = "queued" /\ decision[r] = "skipped"

\* Between two steps of a coroutine only a timeout changes its request.
StateFits(r) ==
  /\ pc[r] \in {"accepted", "cycle", "in_cycle", "cycled", "submitting"} =>
       state[r] \in {"queued", "timed_out"}
  /\ pc[r] = "streaming" => state[r] \in {"streaming", "timed_out"}
  /\ pc[r] = "done" => Settled(r)

\* A slot, once given, stays the request's until its coroutine is done.
SlotKept(r) ==
  /\ cycling = r => pc[r] = "in_cycle"
  /\ decision[r] = "placed" => requestToBatch[r] # 0
  /\ pc[r] # "done" /\ requestToBatch[r] # 0 =>
       memberStatus[requestToBatch[r]][r] = "active"

\* The batch a coroutine has with the adapter, if it is its own, was sent with
\* the coroutine's request in it.
SentTogether(r) ==
  /\ pc[r] \in Early => accepted[r] = {}
  /\ pc[r] = "submitting" =>
       /\ inFlight[r].batch \in BE!BatchId
       /\ decision[r] = "placed" /\ requestToBatch[r] = inFlight[r].batch =>
            r \in inFlight[r].members
  /\ decision[r] = "placed" /\ requestToBatch[r] \in accepted[r] => r \in executed
  /\ pc[r] \in {"executing", "streaming"} =>
       decision[r] = "placed" /\ requestToBatch[r] \in accepted[r]

\* A completed request was executed and has given its slot back.
Finished(r) ==
  state[r] = "completed" =>
    /\ r \in executed
    /\ requestToBatch[r] # 0
    /\ memberStatus[requestToBatch[r]][r] # "active"

Follows(r) == StateFits(r) /\ SlotKept(r) /\ SentTogether(r) /\ Finished(r)

Inv ==
  /\ CP!TypeOK
  /\ BE!TypeOK
  /\ PathTypes
  /\ Membership
  /\ \A r \in Requests : Follows(r)

\* The invariant contains the properties.
LEMMA InvSuffices ==
  Inv => TypeOK /\ CompletedWasExecuted /\ RunningHoldsSlot /\ DoneIsSettled
<1> SUFFICES ASSUME Inv PROVE TypeOK /\ CompletedWasExecuted /\ RunningHoldsSlot /\ DoneIsSettled
  OBVIOUS
<1> USE DEF Inv
<1>1. TypeOK
  BY DEF TypeOK, PathTypes, Labels
<1>2. CompletedWasExecuted
  BY DEF CompletedWasExecuted, Follows, Finished
<1>3. DoneIsSettled
  BY DEF DoneIsSettled, Follows, StateFits, Settled
<1>4. ASSUME NEW r \in Requests, pc[r] \in {"executing", "streaming"}
      PROVE  /\ requestToBatch[r] \in accepted[r]
             /\ memberStatus[requestToBatch[r]][r] = "active"
  BY <1>4 DEF Follows, SlotKept, SentTogether
<1>5. ASSUME NEW r \in Requests, state[r] = "completed", NEW b \in BE!BatchId
      PROVE  memberStatus[b][r] # "active"
  BY <1>5 DEF Follows, Finished, Membership
<1> QED BY <1>1, <1>2, <1>3, <1>4, <1>5 DEF RunningHoldsSlot

\* What a step of others may do to r and what r's coroutine knows.
SameFor(r) ==
  /\ pc'[r] = pc[r] /\ decision'[r] = decision[r]
  /\ accepted'[r] = accepted[r] /\ inFlight'[r] = inFlight[r]
  /\ requestToBatch'[r] = requestToBatch[r]
  /\ \A b \in BE!BatchId : memberStatus'[b][r] = memberStatus[b][r]
  /\ executed \subseteq executed'
  /\ cycling' = r => cycling = r
  /\ state'[r] \in {state[r], "timed_out"}

\* Steps of others do not disturb a coroutine.
LEMMA OthersKeep ==
  ASSUME Inv, NEW r \in Requests, SameFor(r)
  PROVE  Follows(r)'
<1>1. Follows(r) /\ requestToBatch[r] \in BE!BatchId \cup {0}
  BY DEF Inv, BE!TypeOK, BE!NoBatch
<1>2. requestToBatch[r] # 0 =>
        memberStatus'[requestToBatch'[r]][r] = memberStatus[requestToBatch[r]][r]
  BY <1>1 DEF SameFor
<1>3. StateFits(r)'
  BY <1>1 DEF SameFor, Follows, StateFits, Settled, CP!TerminalStates
<1>4. SlotKept(r)'
  BY <1>1, <1>2 DEF SameFor, Follows, SlotKept
<1>5. SentTogether(r)'
  BY <1>1 DEF SameFor, Follows, SentTogether
<1>6. Finished(r)'
  BY <1>1, <1>2 DEF SameFor, Follows, Finished
<1> QED BY <1>3, <1>4, <1>5, <1>6 DEF Follows

\* A step that touches one coroutine keeps the invariant when that coroutine
\* keeps its part.
LEMMA StepOfOne ==
  ASSUME Inv, NEW r, ActsFor(r), BE!TypeOK', PathTypes', Membership',
         r \in Requests => Follows(r)',
         \A q \in Requests \ {r} : SameFor(q)
  PROVE  Inv'
BY OthersKeep DEF Inv, ActsFor

\* Without a change of the engine's dictionaries its part of the invariant stays.
LEMMA EngineUnchanged ==
  ASSUME Inv, UNCHANGED beVars, now' = now
  PROVE  BE!TypeOK' /\ Membership'
BY DEF Inv, beVars, BE!TypeOK, Membership

\* A step of r's coroutine before its dispatch, or its last one.
LEMMA QuietStepKeepsInv ==
  ASSUME Inv, NEW r \in Requests, NEW l, ActsFor(r), now' = now, Goto(r, l),
         UNCHANGED <<beVars, cycleVars, dispatchVars>>,
         pc[r] \notin {"in_cycle", "done"},
         \/ l = "done"
         \/ pc[r] \in Early /\ l \in {"admission", "enqueued", "accepted", "cycle"},
         l \in {"accepted", "cycle"} => state'[r] \in {"queued", "timed_out"},
         l = "done" => state'[r] \in CP!TerminalStates \cup {"unregistered"},
         state'[r] = "completed" => state[r] = "completed"
  PROVE  Inv'
<1>1. BE!TypeOK' /\ Membership'
  BY EngineUnchanged
<1>2. pc \in [Requests -> Labels] /\ pc' = [pc EXCEPT ![r] = l] /\ l \in Labels
  BY DEF Inv, PathTypes, Goto, Labels, Early
<1>3. PathTypes'
  BY <1>2 DEF Inv, PathTypes, cycleVars, dispatchVars
<1>4. \A q \in Requests \ {r} : SameFor(q)
  BY <1>2 DEF SameFor, ActsFor, beVars, cycleVars, dispatchVars
<1>5. Follows(r)'
  <2>1. Follows(r) /\ pc'[r] = l
    BY <1>2 DEF Inv
  <2>2. StateFits(r)'
    BY <2>1 DEF StateFits, Settled, Early
  <2>3. SlotKept(r)'
    BY <2>1 DEF Follows, SlotKept, beVars, cycleVars
  <2>4. SentTogether(r)'
    BY <2>1 DEF Follows, SentTogether, beVars, cycleVars, dispatchVars, Early
  <2>5. Finished(r)'
    BY <2>1 DEF Follows, Finished, beVars, dispatchVars
  <2> QED BY <2>2, <2>3, <2>4, <2>5 DEF Follows
<1> QED BY <1>1, <1>3, <1>4, <1>5, StepOfOne

\* An error of a stream is recorded, unless the request failed or was cancelled.
LEMMA StreamFailedActs ==
  ASSUME CP!TypeOK, NEW r \in Requests, StreamFailed(r)
  PROVE  ActsFor(r) /\ now' = now /\ state'[r] \in {"failed", "cancelled"}
<1>1. "internal_error" \in CP!FailureReasons /\ "failed" \in CP!RequestState
  BY DEF CP!FailureReasons, CP!RequestState, CP!TerminalStates
<1>2. CASE state[r] \in {"failed", "cancelled"}
  BY <1>2, RecordActs DEF StreamFailed, CP!TypeOK, CP!RequestState, CP!TerminalStates, CP!Record
<1>3. CASE state[r] \notin {"failed", "cancelled"}
  BY <1>1, <1>3, RecordActs DEF StreamFailed, CP!Record
<1> QED BY <1>2, <1>3

LEMMA UnchangedActs ==
  ASSUME CP!TypeOK, NEW r, UNCHANGED <<now, cpVars>>
  PROVE  ActsFor(r) /\ now' = now /\ state' = state
BY DEF CP!TypeOK, cpVars, ActsFor

\* _finalize_request ends the coroutine with its request settled, or lets it run
\* on its own accepted batch.
LEMMA FinalizeActs ==
  ASSUME Inv, NEW r \in Requests, NEW ok, Finalize(r, ok),
         pc[r] \in {"cycled", "submitting"}
  PROVE  /\ ActsFor(r) /\ now' = now
         /\ state'[r] # "completed"
         /\ \/ /\ Goto(r, "done")
               /\ \/ state'[r] \in CP!TerminalStates
                  \/ state'[r] = "queued" /\ decision[r] = "skipped"
            \/ /\ \/ Goto(r, "executing")
                  \/ Goto(r, "streaming") /\ state'[r] = "streaming"
               /\ decision[r] = "placed"
               /\ requestToBatch[r] \in ok
<1> DEFINE Ends == /\ Goto(r, "done")
                   /\ \/ state'[r] \in CP!TerminalStates
                      \/ state'[r] = "queued" /\ decision[r] = "skipped"
           Acts == ActsFor(r) /\ now' = now /\ state'[r] # "completed"
<1>1. CP!TypeOK /\ state[r] \in {"queued", "timed_out"} /\ failure[r] \in CP!FailureReasons
  BY DEF Inv, Follows, StateFits, CP!TypeOK
<1>2. {"failed", "cancelled", "timed_out"} \subseteq CP!TerminalStates
  BY DEF CP!TerminalStates
<1>3. ASSUME CP!Record(r, "failed", "internal_error"), Goto(r, "done") PROVE Acts /\ Ends
  BY <1>1, <1>2, <1>3, RecordActs
  DEF CP!FailureReasons, CP!RequestState, CP!TerminalStates, CP!Record
<1>4. CASE /\ decision[r] = "skipped" /\ r \notin Streaming
           /\ Goto(r, "done")
           /\ UNCHANGED <<now, cpVars>>
  BY <1>1, <1>2, <1>4, UnchangedActs
<1>5. CASE /\ ~CP!IsAllowedTransition(state[r], "scheduled")
           /\ IF r \in Streaming THEN StreamFailed(r) ELSE UNCHANGED <<now, cpVars>>
           /\ Goto(r, "done")
  <2>1. state[r] = "timed_out"
    BY <1>1, <1>5 DEF CP!IsAllowedTransition, CP!AllowedTargets
  <2>2. CASE r \in Streaming
    BY <1>1, <1>2, <1>5, <2>2, StreamFailedActs
  <2>3. CASE r \notin Streaming
    BY <1>1, <1>2, <1>5, <2>1, <2>3, UnchangedActs
  <2> QED BY <2>2, <2>3
<1>6. CASE /\ decision[r] = "placed"
           /\ DispatchAccepted(r, ok)
           /\ IF r \in Streaming
              THEN CP!Record(r, "streaming", failure[r]) /\ Goto(r, "streaming")
              ELSE CP!Record(r, "submitted", failure[r]) /\ Goto(r, "executing")
  <2>1. "streaming" \in CP!RequestState /\ "submitted" \in CP!RequestState
    BY DEF CP!RequestState
  <2>2. CASE r \in Streaming
    BY <1>1, <1>6, <2>1, <2>2, RecordActs DEF DispatchAccepted, CP!Record
  <2>3. CASE r \notin Streaming
    BY <1>1, <1>6, <2>1, <2>3, RecordActs DEF DispatchAccepted, CP!Record
  <2> QED BY <2>2, <2>3
<1> QED BY <1>3, <1>4, <1>5, <1>6 DEF Finalize

\* submit_pending_batches from any batch on, with the results ok collected so far:
\* if r's own batch is among them, r was executed.
LEMMA ProceedKeepsInv ==
  ASSUME Inv, NEW r \in Requests, NEW rest \in SUBSET BE!BatchId,
         NEW ok \in SUBSET BE!BatchId, NEW sent \in SUBSET BE!BatchId,
         pc[r] \in {"cycled", "submitting"},
         Proceed(r, rest, ok, sent),
         UNCHANGED <<beVars, cycleVars>>,
         executed \subseteq executed', executed' \subseteq Requests,
         decision[r] = "placed" /\ requestToBatch[r] \in ok => r \in executed'
  PROVE  Inv'
<1> DEFINE next == {b \in rest : Dispatchable(b, sent)}
           flight == [batch |-> Min(next), members |-> BatchAssignments(Min(next))]
<1>1. /\ pc \in [Requests -> Labels]
      /\ inFlight \in [Requests -> [batch : Nat, members : SUBSET Requests]]
      /\ todo \in [Requests -> SUBSET BE!BatchId]
      /\ accepted \in [Requests -> SUBSET BE!BatchId]
      /\ Follows(r)
      /\ CP!TypeOK
  BY DEF Inv, PathTypes
<1>2. accepted' = [accepted EXCEPT ![r] = ok] /\ submitted' = sent
  BY DEF Proceed
<1>3. /\ cycling' = cycling /\ toPlace' = toPlace /\ decision' = decision
      /\ memberStatus' = memberStatus /\ requestToBatch' = requestToBatch
  BY DEF cycleVars, beVars
<1>4. BE!BatchId \in SUBSET Nat
  BY SettingsAssumption DEF BE!BatchId
<1>5. /\ cycling # r
      /\ decision[r] = "placed" => requestToBatch[r] # 0
      /\ requestToBatch[r] # 0 => memberStatus[requestToBatch[r]][r] = "active"
      /\ state[r] \in {"queued", "timed_out"}
  BY <1>1 DEF Follows, SlotKept, StateFits
<1>6. ASSUME NEW l \in Labels, NEW p, NEW t \in SUBSET BE!BatchId, Goto(r, l),
             inFlight' = [inFlight EXCEPT ![r] = p], todo' = [todo EXCEPT ![r] = t],
             p \in [batch : Nat, members : SUBSET Requests],
             ActsFor(r), now' = now, Follows(r)'
      PROVE  Inv'
  <2>1. BE!TypeOK' /\ Membership'
    BY <1>6, EngineUnchanged
  <2>2. PathTypes'
    BY <1>1, <1>2, <1>3, <1>6 DEF Inv, PathTypes, Goto
  <2>3. \A q \in Requests \ {r} : SameFor(q)
    BY <1>1, <1>2, <1>3, <1>6 DEF SameFor, ActsFor, Goto
  <2> QED BY <1>6, <2>1, <2>2, <2>3, StepOfOne
<1>7. SlotKept(r)' /\ (decision'[r] = "placed" /\ requestToBatch'[r] \in accepted'[r] => r \in executed')
  BY <1>1, <1>2, <1>3, <1>5 DEF SlotKept
<1>8. CASE /\ next # {}
           /\ inFlight' = [inFlight EXCEPT ![r] = flight]
           /\ todo' = [todo EXCEPT ![r] = {b \in rest : b > Min(next)}]
           /\ Goto(r, "submitting")
           /\ UNCHANGED <<now, cpVars>>
  <2>1. Min(next) \in next
    <3>1. \E b \in next : \A c \in next : b <= c
      <4>1. next \in SUBSET Nat
        BY <1>4
      <4> HIDE DEF next
      <4> QED BY <1>8, <4>1, LeastNatural
    <3> QED BY <3>1 DEF Min
  <2>2. Min(next) \in BE!BatchId
    BY <2>1
  <2>3. flight \in [batch : Nat, members : SUBSET Requests]
    BY <1>4, <2>2 DEF BatchAssignments, BE!ActiveMembers
  <2>4. ASSUME decision[r] = "placed", requestToBatch[r] = Min(next)
        PROVE  r \in flight.members
    <3>1. memberStatus[Min(next)][r] = "active" /\ r \in assignments
      BY <1>5, <2>4 DEF Inv, Membership
    <3> QED BY <3>1 DEF BatchAssignments, BE!ActiveMembers
  <2>5. pc'[r] = "submitting" /\ inFlight'[r] = flight /\ state' = state
    BY <1>1, <1>8 DEF Goto, cpVars
  <2>6. flight.batch = Min(next)
    OBVIOUS
  <2> HIDE DEF flight, next
  <2>7. Follows(r)'
    <3>1. StateFits(r)' /\ Finished(r)'
      BY <1>5, <2>5 DEF StateFits, Finished
    <3>2. SentTogether(r)'
      BY <1>3, <1>7, <2>2, <2>4, <2>5, <2>6 DEF SentTogether, Early
    <3> QED BY <1>7, <3>1, <3>2 DEF Follows
  <2>8. ActsFor(r) /\ now' = now
    BY <1>1, <1>8, UnchangedActs
  <2>9. {b \in rest : b > Min(next)} \in SUBSET BE!BatchId /\ "submitting" \in Labels
    BY DEF Labels
  <2> QED BY <1>6, <1>8, <2>3, <2>7, <2>8, <2>9
<1>9. CASE /\ inFlight' = [inFlight EXCEPT ![r] = NoFlight]
           /\ todo' = [todo EXCEPT ![r] = {}]
           /\ Finalize(r, ok)
  <2>1. /\ ActsFor(r) /\ now' = now
        /\ state'[r] # "completed"
        /\ \/ /\ Goto(r, "done")
              /\ \/ state'[r] \in CP!TerminalStates
                 \/ state'[r] = "queued" /\ decision[r] = "skipped"
           \/ /\ \/ Goto(r, "executing")
                 \/ Goto(r, "streaming") /\ state'[r] = "streaming"
              /\ decision[r] = "placed"
              /\ requestToBatch[r] \in ok
    BY <1>9, FinalizeActs
  <2>2. PICK l \in {"done", "executing", "streaming"} :
          /\ Goto(r, l)
          /\ l = "done" => \/ state'[r] \in CP!TerminalStates
                           \/ state'[r] = "queued" /\ decision[r] = "skipped"
          /\ l # "done" => decision[r] = "placed" /\ requestToBatch[r] \in ok
          /\ l = "streaming" => state'[r] = "streaming"
    BY <2>1
  <2>3. pc'[r] = l /\ accepted'[r] = ok
    BY <1>1, <1>2, <2>2 DEF Goto
  <2>4. Follows(r)'
    <3>1. StateFits(r)' /\ Finished(r)'
      BY <1>3, <2>1, <2>2, <2>3 DEF StateFits, Finished, Settled
    <3>2. SentTogether(r)'
      BY <1>3, <1>7, <2>2, <2>3 DEF SentTogether, Early
    <3> QED BY <1>7, <3>1, <3>2 DEF Follows
  <2>5. NoFlight \in [batch : Nat, members : SUBSET Requests]
    BY DEF NoFlight
  <2>6. {} \in SUBSET BE!BatchId /\ l \in Labels
    BY DEF Labels
  <2>7. Goto(r, l) /\ ActsFor(r) /\ now' = now
    BY <2>1, <2>2
  <2> QED BY <1>6, <1>9, <2>4, <2>5, <2>6, <2>7
<1> QED BY <1>8, <1>9 DEF Proceed

-----------------------------------------------------------------------------
(***************************************************************************)
(* The steps.                                                              *)
(***************************************************************************)

\* Submission, admission and the start of a stream.
LEMMA SubmissionKeepsInv ==
  ASSUME Inv, NEW r \in Requests,
         Submit(r) \/ Admission(r) \/ Queued(r) \/ StartStream(r)
  PROVE  Inv'
<1> USE DEF OnlyControlPlane, Early
<1>1. CP!TypeOK /\ Follows(r)
  BY DEF Inv
<1>2. {"failed", "cancelled", "timed_out", "rejected"} \subseteq CP!TerminalStates
      /\ "completed" \in CP!TerminalStates
      /\ state \in [Requests -> CP!RequestState \cup {"unregistered"}]
  BY <1>1 DEF CP!TerminalStates, CP!TypeOK
<1>3. CASE Submit(r) /\ CP!Submit(r) /\ Goto(r, "admission")
  <2>1. ActsFor(r) /\ now' = now /\ state'[r] = "validated"
    BY <1>1, <1>2, <1>3, QueueOperationActs DEF CP!Submit, CP!TimedOutStates
  <2> QED BY <1>3, <2>1, QuietStepKeepsInv DEF Submit
<1>4. CASE Submit(r) /\ CP!SubmitAtCapacity(r) /\ Goto(r, "done")
  <2>1. ActsFor(r) /\ now' = now
    BY <1>1, <1>4, QueueOperationActs DEF CP!SubmitAtCapacity
  <2>2. state[r] = "unregistered" /\ state' = CP!TimedOutStates(state)
    BY <1>4 DEF CP!SubmitAtCapacity, CP!Registered
  <2>3. state'[r] \in {"unregistered", "timed_out"}
    BY <2>2 DEF CP!TimedOutStates
  <2> QED BY <1>2, <1>4, <2>1, <2>3, QuietStepKeepsInv DEF Submit
<1>5. CASE Admission(r) /\ CP!Enqueue(r) /\ Goto(r, "enqueued")
  <2>1. ActsFor(r) /\ now' = now /\ state'[r] = "admitted"
    BY <1>1, <1>2, <1>5, QueueOperationActs DEF CP!Enqueue
  <2> QED BY <1>5, <2>1, QuietStepKeepsInv DEF Admission
<1>6. CASE Admission(r) /\ CP!RejectQueueFull(r) /\ Goto(r, "done")
  <2>1. ActsFor(r) /\ now' = now /\ state'[r] = "rejected"
    BY <1>1, <1>2, <1>6, QueueOperationActs DEF CP!RejectQueueFull
  <2> QED BY <1>2, <1>6, <2>1, QuietStepKeepsInv DEF Admission
<1>7. CASE Queued(r)
  <2>1. ActsFor(r) /\ now' = now /\ state'[r] = "queued"
    BY <1>1, <1>7, MarkQueuedActs DEF Queued, CP!MarkQueued
  <2>2. CASE r \in Streaming
    BY <1>7, <2>1, <2>2, QuietStepKeepsInv DEF Queued
  <2>3. CASE r \notin Streaming
    BY <1>7, <2>1, <2>3, QuietStepKeepsInv DEF Queued
  <2> QED BY <2>2, <2>3
<1>8. CASE StartStream(r) /\ state[r] = "queued" /\ Goto(r, "cycle") /\ UNCHANGED <<now, cpVars>>
  <2>1. ActsFor(r) /\ now' = now /\ state' = state
    BY <1>1, <1>8, UnchangedActs
  <2> QED BY <1>8, <2>1, QuietStepKeepsInv DEF StartStream
<1>9. CASE StartStream(r) /\ StreamFailed(r) /\ Goto(r, "done")
  <2>1. ActsFor(r) /\ now' = now /\ state'[r] \in {"failed", "cancelled"}
    BY <1>1, <1>9, StreamFailedActs
  <2> QED BY <1>2, <1>9, <2>1, QuietStepKeepsInv DEF StartStream
<1> QED BY <1>3, <1>4, <1>5, <1>6, <1>7, <1>8, <1>9 DEF Submit, Admission, StartStream

\* The ways a stream ends early.
LEMMA StreamEndsEarlyKeepsInv ==
  ASSUME Inv, NEW r \in Requests, StreamCancel(r) \/ StreamError(r)
  PROVE  Inv'
<1> USE DEF OnlyControlPlane
<1>1. CP!TypeOK /\ Follows(r)
  BY DEF Inv
<1>2. {"failed", "cancelled", "timed_out"} \subseteq CP!TerminalStates
  BY DEF CP!TerminalStates
<1>3. CASE StreamError(r)
  <2>1. ActsFor(r) /\ now' = now /\ state'[r] \in {"failed", "cancelled"}
    BY <1>1, <1>3, StreamFailedActs DEF StreamError
  <2> QED BY <1>2, <1>3, <2>1, QuietStepKeepsInv DEF StreamError
<1>4. CASE StreamCancel(r)
  <2>1. state[r] \in {"streaming", "timed_out"} /\ failure[r] \in CP!FailureReasons
    BY <1>1, <1>4 DEF StreamCancel, Follows, StateFits, CP!TypeOK
  <2>2. CASE state[r] = "streaming"
    <3>1. CP!Record(r, "cancelled", failure[r])
      BY <1>4, <2>2 DEF StreamCancel
    <3>2. ActsFor(r) /\ now' = now /\ state'[r] = "cancelled"
      BY <1>1, <2>1, <3>1, RecordActs DEF CP!Record, CP!RequestState, CP!TerminalStates
    <3> QED BY <1>2, <1>4, <3>2, QuietStepKeepsInv DEF StreamCancel
  <2>3. CASE state[r] = "timed_out"
    <3>1. ActsFor(r) /\ now' = now /\ state'[r] = "timed_out"
      BY <1>1, <1>4, <2>3, UnchangedActs DEF StreamCancel
    <3> QED BY <1>2, <1>4, <3>1, QuietStepKeepsInv DEF StreamCancel
  <2> QED BY <2>1, <2>2, <2>3
<1> QED BY <1>3, <1>4

\* Submitting batches, and what the adapter answers.
LEMMA DispatchKeepsInv ==
  ASSUME Inv, NEW r \in Requests, Dispatch(r) \/ AdapterAccepts(r) \/ AdapterRefuses(r)
  PROVE  Inv'
<1>1. /\ Follows(r)
      /\ executed \subseteq Requests /\ submitted \in SUBSET BE!BatchId
      /\ inFlight[r].members \in SUBSET Requests
      /\ todo[r] \in SUBSET BE!BatchId /\ accepted[r] \in SUBSET BE!BatchId
  BY DEF Inv, PathTypes
<1>2. CASE Dispatch(r)
  <2>1. 1 .. created \in SUBSET BE!BatchId
    BY SettingsAssumption DEF Inv, BE!TypeOK, BE!BatchId
  <2>2. {} \in SUBSET BE!BatchId
    OBVIOUS
  <2> QED BY <1>1, <1>2, <2>1, <2>2, ProceedKeepsInv DEF Dispatch, cycleVars
<1>3. CASE AdapterAccepts(r)
  <2> DEFINE b == inFlight[r].batch
  <2>1. b \in BE!BatchId
    BY <1>1, <1>3 DEF AdapterAccepts, Follows, SentTogether
  <2>2. ASSUME decision[r] = "placed", requestToBatch[r] \in accepted[r] \cup {b}
        PROVE  r \in executed \cup inFlight[r].members
    BY <1>1, <1>3, <2>2 DEF AdapterAccepts, Follows, SentTogether
  <2>3. /\ executed' = executed \cup inFlight[r].members
        /\ Proceed(r, todo[r], accepted[r] \cup {b}, submitted \cup {b})
        /\ pc[r] = "submitting" /\ UNCHANGED <<beVars, cycleVars>>
    BY <1>3 DEF AdapterAccepts
  <2> HIDE DEF b
  <2>4. accepted[r] \cup {b} \in SUBSET BE!BatchId /\ submitted \cup {b} \in SUBSET BE!BatchId
    BY <1>1, <2>1
  <2> QED BY <1>1, <2>2, <2>3, <2>4, ProceedKeepsInv
<1>4. CASE AdapterRefuses(r)
  <2>1. decision[r] = "placed" /\ requestToBatch[r] \in accepted[r] => r \in executed
    BY <1>1 DEF Follows, SentTogether
  <2>2. /\ Proceed(r, todo[r], accepted[r], submitted)
        /\ pc[r] = "submitting" /\ executed' = executed
        /\ UNCHANGED <<beVars, cycleVars>>
    BY <1>4 DEF AdapterRefuses
  <2> QED BY <1>1, <2>1, <2>2, ProceedKeepsInv
<1> QED BY <1>2, <1>3, <1>4

\* The slot is given back and the coroutine ends.
LEMMA RetirementKeepsInv ==
  ASSUME Inv, NEW r \in Requests, pc[r] \in {"executing", "streaming"},
         BE!CompleteRequest(r), ActsFor(r), Goto(r, "done"),
         UNCHANGED <<cycleVars, dispatchVars>>,
         state'[r] \in {"completed", "failed", "cancelled"}
  PROVE  Inv'
<1> DEFINE b == requestToBatch[r]
<1>1. /\ Follows(r)
      /\ pc \in [Requests -> Labels]
      /\ memberStatus \in [BE!BatchId -> [Requests -> BE!MemberStatus \cup {"none"}]]
      /\ requestToBatch \in [Requests -> BE!BatchId \cup {0}]
  BY DEF Inv, PathTypes, BE!TypeOK, BE!NoBatch
<1>2. r \in executed /\ b # 0 /\ b \in BE!BatchId /\ memberStatus[b][r] = "active"
  BY <1>1 DEF Follows, SentTogether, SlotKept
<1>3. /\ BE!TypeOK'
      /\ UNCHANGED <<requestToBatch, assignments>>
      /\ memberStatus' = [memberStatus EXCEPT ![b] = [@ EXCEPT ![r] = "completed"]]
  BY <1>2, RetirementActs DEF Inv
<1> DEFINE row == [memberStatus[b] EXCEPT ![r] = "completed"]
<1>4. /\ row[r] = "completed"
      /\ \A q \in Requests \ {r} : row[q] = memberStatus[b][q]
  BY <1>1, <1>2
<1>5. memberStatus' = [memberStatus EXCEPT ![b] = row]
  BY <1>3
<1> HIDE DEF row, b
<1>6. /\ memberStatus'[b][r] = "completed"
      /\ \A c \in BE!BatchId : \A q \in Requests :
           ~(c = b /\ q = r) => memberStatus'[c][q] = memberStatus[c][q]
  BY <1>1, <1>2, <1>4, <1>5
<1>7. Membership'
  <2>1. ASSUME NEW q \in Requests, NEW c \in BE!BatchId
        PROVE  memberStatus'[c][q] # "none" <=> requestToBatch[q] = c
    <3>1. CASE c = b /\ q = r
      BY <1>6, <3>1 DEF b
    <3>2. CASE ~(c = b /\ q = r)
      BY <1>6, <3>2 DEF Inv, Membership
    <3> QED BY <3>1, <3>2
  <2> QED BY <1>3, <2>1 DEF Inv, Membership
<1>8. pc' = [pc EXCEPT ![r] = "done"] /\ PathTypes'
  BY <1>1 DEF Inv, PathTypes, Goto, cycleVars, dispatchVars, Labels
<1>9. \A q \in Requests \ {r} : SameFor(q)
  BY <1>1, <1>3, <1>6, <1>8 DEF SameFor, ActsFor, cycleVars, dispatchVars
<1>10. Follows(r)'
  <2>1. /\ pc'[r] = "done" /\ requestToBatch'[r] = b /\ decision' = decision
        /\ accepted' = accepted /\ executed' = executed /\ cycling' = cycling
    BY <1>1, <1>3, <1>8 DEF cycleVars, dispatchVars, b
  <2>2. StateFits(r)'
    BY <2>1 DEF StateFits, Settled, CP!TerminalStates
  <2>3. SlotKept(r)'
    BY <1>1, <1>2, <2>1 DEF Follows, SlotKept
  <2>4. SentTogether(r)' /\ Finished(r)'
    BY <1>2, <1>6, <2>1 DEF SentTogether, Finished, Early
  <2> QED BY <2>2, <2>3, <2>4 DEF Follows
<1> QED BY <1>3, <1>7, <1>8, <1>9, <1>10, StepOfOne

\* A completion, and the end of a stream that may meanwhile have failed.
LEMMA CompletionKeepsInv ==
  ASSUME Inv, NEW r \in Requests, Complete(r) \/ StreamEnd(r)
  PROVE  Inv'
<1>1. CP!TypeOK /\ failure[r] \in CP!FailureReasons /\ "completed" \in CP!RequestState
  BY DEF Inv, CP!TypeOK, CP!RequestState, CP!TerminalStates
<1>2. CASE Complete(r)
  <2>1. CP!Record(r, "completed", failure[r])
    BY <1>2 DEF Complete, CP!CompleteRequest
  <2> QED BY <1>1, <1>2, <2>1, RecordActs, RetirementKeepsInv DEF Complete
<1>3. CASE StreamEnd(r) /\ CP!Record(r, "completed", failure[r])
  BY <1>1, <1>3, RecordActs, RetirementKeepsInv DEF StreamEnd
<1>4. CASE StreamEnd(r) /\ StreamFailed(r)
  BY <1>1, <1>4, StreamFailedActs, RetirementKeepsInv DEF StreamEnd
<1> QED BY <1>2, <1>3, <1>4 DEF StreamEnd

\* A cycle selects requests out of the queue.
LEMMA SelectedAreRequests ==
  ASSUME CP!TypeOK
  PROVE  Selected \in Seq(Requests)
<1>1. ASSUME NEW s \in Seq(Items), NEW n \in Nat PROVE Prefix(s, n) \in Seq(Items)
  BY <1>1, SubSeqProperties DEF Prefix
<1>2. Scanned \in Seq(Items)
  BY <1>1, RemainingIsQueue, SettingsAssumption DEF Scanned
<1> DEFINE p == Prefix(Scanned, MaxCandidates)
<1>3. p \in Seq(Items) /\ DOMAIN p \subseteq DOMAIN Scanned
  <2>1. Len(Scanned) \in Nat /\ DOMAIN Scanned = 1 .. Len(Scanned)
    BY <1>2, LenProperties
  <2>2. p \in Seq(Items)
    BY <1>1, <1>2, SettingsAssumption
  <2>3. Len(p) \in Nat /\ DOMAIN p = 1 .. Len(p)
    BY <2>2, LenProperties
  <2>4. Len(p) <= Len(Scanned)
    BY <1>2, <2>1, SettingsAssumption, SubSeqProperties DEF Prefix
  <2> QED BY <2>1, <2>2, <2>3, <2>4
<1>4. \A i \in DOMAIN p : Scanned[i].id \in Requests
  <2>1. \A i \in DOMAIN Scanned : Scanned[i] \in Items
    BY <1>2, LenProperties
  <2> QED BY <1>3, <2>1 DEF Items
<1>5. DOMAIN p = 1 .. Len(p) /\ Len(p) \in Nat
  BY <1>3, LenProperties
<1> HIDE DEF p
<1>6. [i \in DOMAIN p |-> Scanned[i].id] \in [1 .. Len(p) -> Requests]
  BY <1>4, <1>5
<1>7. [i \in DOMAIN p |-> Scanned[i].id] \in Seq(Requests)
  BY <1>5, <1>6, SeqDef
<1> QED BY <1>7 DEF Selected, p

\* A cycle of a request or of the tick loop begins, or fails at once.
LEMMA CycleStartKeepsInv ==
  ASSUME Inv, NEW c \in Requests \cup {Ticker}, CycleList(c) \/ CycleCrash(c)
  PROVE  Inv'
<1>1. /\ CP!TypeOK
      /\ pc \in [Requests -> Labels]
      /\ toPlace \in Seq(Requests)
      /\ decision \in [Requests \cup {Ticker} -> {"none", "skipped", "placed", "rejected"}]
      /\ \A q \in Requests : Follows(q)
  BY DEF Inv, PathTypes
<1>2. CycleStart(c) /\ UNCHANGED <<beVars, dispatchVars>>
  BY DEF CycleList, CycleCrash
<1>3. /\ ActsFor(c) /\ state' = state /\ now' = now
      /\ toPlace' \in Seq(Requests)
      /\ \/ decision' = [decision EXCEPT ![c] = "skipped"]
         \/ decision' = decision
  <2>1. CASE CycleList(c)
    BY <1>1, <2>1, ListingActs, SelectedAreRequests DEF CycleList
  <2>2. CASE CycleCrash(c)
    BY <1>1, <2>2, UnchangedActs DEF CycleCrash
  <2> QED BY <2>1, <2>2
<1>4. /\ cycling = Idle /\ cycling' = c
      /\ \/ c \in Requests /\ pc[c] = "cycle" /\ pc' = [pc EXCEPT ![c] = "in_cycle"]
         \/ c \notin Requests /\ pc' = pc
  BY <1>2, CallersAssumption DEF CycleStart, Goto
<1>5. BE!TypeOK' /\ Membership'
  BY <1>2, <1>3, EngineUnchanged
<1>6. decision' \in [Requests \cup {Ticker} -> {"none", "skipped", "placed", "rejected"}]
  BY <1>1, <1>3
<1>7. pc' \in [Requests -> Labels]
  BY <1>1, <1>4 DEF Labels
<1>8. PathTypes'
  BY <1>2, <1>3, <1>4, <1>6, <1>7 DEF Inv, PathTypes, dispatchVars
<1>9. \A q \in Requests \ {c} : SameFor(q)
  BY <1>1, <1>2, <1>3, <1>4 DEF SameFor, beVars, dispatchVars
<1>10. ASSUME c \in Requests PROVE Follows(c)'
  <2>1. /\ pc[c] = "cycle" /\ pc'[c] = "in_cycle" /\ decision'[c] \in {decision[c], "skipped"}
    BY <1>1, <1>3, <1>4, <1>10, CallersAssumption
  <2>2. Follows(c)
    BY <1>1, <1>10
  <2>3. StateFits(c)' /\ SlotKept(c)'
    BY <1>2, <1>3, <2>1, <2>2 DEF Follows, StateFits, SlotKept, beVars
  <2>4. SentTogether(c)' /\ Finished(c)'
    BY <1>2, <1>3, <2>1, <2>2 DEF Follows, SentTogether, Finished, beVars, dispatchVars, Early
  <2> QED BY <2>3, <2>4 DEF Follows
<1> QED BY <1>3, <1>5, <1>8, <1>9, <1>10, StepOfOne

\* A cycle ends and its caller goes on.
LEMMA CycleEndKeepsInv ==
  ASSUME Inv, NEW c \in Requests \cup {Ticker}, cycling = c, CycleEnd
  PROVE  Inv'
<1>1. /\ CP!TypeOK
      /\ pc \in [Requests -> Labels]
      /\ decision \in [Requests \cup {Ticker} -> {"none", "skipped", "placed", "rejected"}]
      /\ \A q \in Requests : Follows(q)
  BY DEF Inv, PathTypes
<1>2. /\ cycling' = Idle /\ toPlace' = toPlace
      /\ UNCHANGED <<now, cpVars, beVars, dispatchVars>>
      /\ \/ c \notin Requests /\ decision' = [decision EXCEPT ![c] = "none"] /\ pc' = pc
         \/ c \in Requests /\ pc' = [pc EXCEPT ![c] = "cycled"] /\ decision' = decision
  BY <1>1, CallersAssumption DEF CycleEnd, Goto
<1>3. ActsFor(c) /\ now' = now /\ state' = state
  BY <1>1, <1>2, UnchangedActs
<1>4. BE!TypeOK' /\ Membership'
  BY <1>2, <1>3, EngineUnchanged
<1>5. PathTypes'
  BY <1>1, <1>2 DEF Inv, PathTypes, dispatchVars, Labels
<1>6. \A q \in Requests \ {c} : SameFor(q)
  BY <1>1, <1>2, <1>3, CallersAssumption DEF SameFor, beVars, dispatchVars
<1>7. ASSUME c \in Requests PROVE Follows(c)'
  <2>1. pc[c] = "in_cycle" /\ pc'[c] = "cycled" /\ decision' = decision /\ cycling' # c
    BY <1>1, <1>2, <1>7, CallersAssumption DEF Follows, SlotKept
  <2>2. Follows(c)
    BY <1>1, <1>7
  <2>3. StateFits(c)' /\ SlotKept(c)'
    BY <1>2, <1>3, <2>1, <2>2 DEF Follows, StateFits, SlotKept, beVars
  <2>4. SentTogether(c)' /\ Finished(c)'
    BY <1>2, <1>3, <2>1, <2>2 DEF Follows, SentTogether, Finished, beVars, dispatchVars, Early
  <2> QED BY <2>3, <2>4 DEF Follows
<1> QED BY <1>3, <1>4, <1>5, <1>6, <1>7, StepOfOne

\* A first placement touches only the request placed.
LEMMA PlacedKeepsOthers ==
  ASSUME Inv, NEW q \in Requests, Placed(q)
  PROVE  /\ Membership'
         /\ requestToBatch'[q] # 0
         /\ memberStatus'[requestToBatch'[q]][q] = "active"
         /\ \A r \in Requests \ {q} :
              /\ requestToBatch'[r] = requestToBatch[r]
              /\ \A b \in BE!BatchId : memberStatus'[b][r] = memberStatus[b][r]
<1>1. /\ memberStatus \in [BE!BatchId -> [Requests -> BE!MemberStatus \cup {"none"}]]
      /\ requestToBatch \in [Requests -> BE!BatchId \cup {0}]
      /\ 0 \notin BE!BatchId
  BY SettingsAssumption DEF Inv, BE!TypeOK, BE!NoBatch, BE!BatchId
<1>2. PICK b \in BE!BatchId :
        /\ requestToBatch[q] = 0
        /\ requestToBatch' = [requestToBatch EXCEPT ![q] = b]
        /\ memberStatus' = [memberStatus EXCEPT ![b] = [@ EXCEPT ![q] = "active"]]
        /\ assignments' = assignments \cup {q}
  BY DEF Placed
<1> DEFINE row == [memberStatus[b] EXCEPT ![q] = "active"]
<1>3. row[q] = "active" /\ \A r \in Requests \ {q} : row[r] = memberStatus[b][r]
  BY <1>1
<1>4. memberStatus' = [memberStatus EXCEPT ![b] = row]
  BY <1>2
<1> HIDE DEF row
<1>5. /\ memberStatus'[b][q] = "active"
      /\ \A c \in BE!BatchId : \A r \in Requests :
           ~(c = b /\ r = q) => memberStatus'[c][r] = memberStatus[c][r]
  BY <1>1, <1>3, <1>4
<1>6. requestToBatch'[q] = b /\ \A r \in Requests \ {q} : requestToBatch'[r] = requestToBatch[r]
  BY <1>1, <1>2
<1>7. ASSUME NEW r \in Requests, NEW c \in BE!BatchId
      PROVE  memberStatus'[c][r] # "none" <=> requestToBatch'[r] = c
  <2>1. memberStatus[c][r] # "none" <=> requestToBatch[r] = c
    BY DEF Inv, Membership
  <2>2. CASE r # q
    BY <1>5, <1>6, <2>1, <2>2
  <2>3. CASE r = q /\ c = b
    BY <1>5, <1>6, <2>3
  <2>4. CASE r = q /\ c # b
    BY <1>1, <1>2, <1>5, <1>6, <2>1, <2>4
  <2> QED BY <2>2, <2>3, <2>4
<1>8. Membership'
  BY <1>2, <1>6, <1>7 DEF Inv, Membership
<1> QED BY <1>1, <1>5, <1>6, <1>8

\* A running cycle places the next selected request, which may be its caller's.
LEMMA CyclePlaceKeepsInv ==
  ASSUME Inv, NEW c \in Requests \cup {Ticker}, cycling = c,
         NEW q \in Requests, Head(toPlace) = q, CyclePlace
  PROVE  Inv'
<1>1. /\ CP!TypeOK
      /\ toPlace \in Seq(Requests)
      /\ decision \in [Requests \cup {Ticker} -> {"none", "skipped", "placed", "rejected"}]
      /\ \A r \in Requests : Follows(r)
  BY DEF Inv, PathTypes
<1>2. /\ BE!TypeOK'
      /\ SameMembers \/ Placed(q)
      /\ outcome' \in BE!AcceptReasons => Placed(q)
  BY PlacementActs DEF Inv, CyclePlace
<1>3. /\ UNCHANGED <<cpVars, pc, cycling, ticks, dispatchVars>>
      /\ toPlace' \in Seq(Requests)
  <2>1. <<>> \in Seq(Requests)
    BY EmptySeq
  <2>2. toPlace # <<>> => Tail(toPlace) \in Seq(Requests)
    BY <1>1, HeadTailProperties
  <2>3. toPlace # <<>> /\ toPlace' \in {<<>>, Tail(toPlace)}
    BY DEF CyclePlace
  <2>4. UNCHANGED <<cpVars, pc, cycling, ticks, dispatchVars>>
    BY DEF CyclePlace
  <2> QED BY <2>1, <2>2, <2>3, <2>4
<1>4. PICK d \in {"none", "skipped", "placed", "rejected"} :
        /\ decision' = [decision EXCEPT ![c] = d]
        /\ d = "placed" => decision[c] = "placed" \/ (c = q /\ Placed(q))
  <2>1. CASE decision' = [decision EXCEPT ![c] = OwnDecision(c, q, outcome')]
    <3>1. OwnDecision(c, q, outcome') \in {"none", "skipped", "placed", "rejected"}
      BY <1>1 DEF OwnDecision
    <3>2. OwnDecision(c, q, outcome') = "placed" => decision[c] = "placed" \/ (c = q /\ Placed(q))
      BY <1>2 DEF OwnDecision
    <3> QED BY <2>1, <3>1, <3>2
  <2>2. CASE decision' = [decision EXCEPT ![c] = "none"]
    BY <2>2
  <2> QED BY <2>1, <2>2 DEF CyclePlace
<1>5. ActsFor(c) /\ state' = state
  BY <1>1, <1>3 DEF ActsFor, CyclePlace, CP!TypeOK, cpVars, BE!PlaceSelected, BE!Refuse,
                    BE!AdmitToNewBatch, BE!AdmitToOpenBatch, BE!AddMember
<1>6. /\ Membership'
      /\ requestToBatch'[q] # requestToBatch[q] =>
           /\ requestToBatch[q] = 0
           /\ requestToBatch'[q] # 0
           /\ memberStatus'[requestToBatch'[q]][q] = "active"
      /\ \A b \in BE!BatchId :
           requestToBatch'[q] = requestToBatch[q] => memberStatus'[b][q] = memberStatus[b][q]
      /\ \A r \in Requests \ {q} :
           /\ requestToBatch'[r] = requestToBatch[r]
           /\ \A b \in BE!BatchId : memberStatus'[b][r] = memberStatus[b][r]
  <2>1. CASE SameMembers
    BY <2>1 DEF SameMembers, Inv, Membership
  <2>2. CASE Placed(q)
    BY <2>2, PlacedKeepsOthers DEF Placed
  <2> QED BY <1>2, <2>1, <2>2
<1>7. PathTypes'
  BY <1>1, <1>3, <1>4 DEF Inv, PathTypes, dispatchVars
<1>8. /\ \A r \in Requests \ {c} : decision'[r] = decision[r]
      /\ decision'[c] = d
      /\ pc' = pc /\ cycling' = cycling /\ accepted' = accepted /\ inFlight' = inFlight
      /\ executed' = executed
  BY <1>1, <1>3, <1>4 DEF dispatchVars
<1>9. ASSUME NEW r \in Requests \ {c}, requestToBatch'[r] = requestToBatch[r] PROVE Follows(r)'
  BY <1>5, <1>6, <1>8, <1>9, OthersKeep DEF SameFor
<1>10. ASSUME NEW r \in Requests, r # c, requestToBatch'[r] # requestToBatch[r] PROVE Follows(r)'
  <2>1. /\ r = q /\ requestToBatch[r] = 0 /\ requestToBatch'[r] # 0
        /\ memberStatus'[requestToBatch'[r]][r] = "active"
        /\ decision[r] # "placed" /\ decision'[r] = decision[r] /\ state[r] # "completed"
        /\ Follows(r)
    BY <1>1, <1>6, <1>8, <1>10 DEF Follows, SlotKept, Finished
  <2> QED BY <1>5, <1>8, <2>1 DEF Follows, StateFits, Settled, SlotKept, SentTogether, Finished
<1>11. ASSUME c \in Requests PROVE Follows(c)'
  <2>1. Follows(c) /\ pc[c] = "in_cycle" /\ state[c] \in {"queued", "timed_out"} /\ accepted[c] = {}
    BY <1>1, <1>11 DEF Follows, SlotKept, StateFits, SentTogether, Early
  <2>2. StateFits(c)' /\ SentTogether(c)' /\ Finished(c)'
    BY <1>5, <1>8, <2>1 DEF StateFits, SentTogether, Finished
  <2>3. requestToBatch[c] \in BE!BatchId \cup {0}
    BY <1>11 DEF Inv, BE!TypeOK, BE!NoBatch
  <2>4. /\ d = "placed" => requestToBatch'[c] # 0
        /\ requestToBatch'[c] # 0 => memberStatus'[requestToBatch'[c]][c] = "active"
    <3>1. CASE requestToBatch'[c] = requestToBatch[c]
      <4>1. d = "placed" => requestToBatch'[c] # 0
        BY <1>4, <1>11, <2>1, <3>1, PlacedKeepsOthers DEF Follows, SlotKept
      <4>2. \A b \in BE!BatchId : memberStatus'[b][c] = memberStatus[b][c]
        BY <1>6, <1>11, <3>1
      <4> QED BY <2>1, <2>3, <3>1, <4>1, <4>2 DEF Follows, SlotKept
    <3>2. CASE requestToBatch'[c] # requestToBatch[c]
      BY <1>6, <1>11, <3>2
    <3> QED BY <3>1, <3>2
  <2>5. SlotKept(c)'
    BY <1>8, <2>1, <2>4 DEF SlotKept
  <2> QED BY <2>2, <2>5 DEF Follows
<1>12. \A r \in Requests : Follows(r)'
  BY <1>9, <1>10, <1>11
<1> QED BY <1>2, <1>5, <1>6, <1>7, <1>12 DEF Inv, ActsFor

\* The clock, and steps that change nothing.
LEMMA IdleStepKeepsInv ==
  ASSUME Inv, Tick \/ UNCHANGED vars
  PROVE  Inv'
<1>1. now' \in 0 .. MaxTime
  BY SettingsAssumption DEF Inv, CP!TypeOK, Tick, vars
<1>2. UNCHANGED <<cpVars, beVars, pc, cycleVars, dispatchVars>>
  BY DEF Tick, vars
<1>3. CP!TypeOK'
  BY <1>1, <1>2 DEF Inv, CP!TypeOK, cpVars
<1>4. BE!TypeOK' /\ Membership'
  BY <1>1, <1>2 DEF Inv, BE!TypeOK, Membership, beVars
<1>5. PathTypes'
  BY <1>2 DEF Inv, PathTypes, cycleVars, dispatchVars
<1>6. ASSUME NEW r \in Requests PROVE Follows(r)'
  BY <1>2, OthersKeep DEF SameFor, cpVars, beVars, cycleVars, dispatchVars
<1> QED BY <1>3, <1>4, <1>5, <1>6 DEF Inv

LEMMA InitInv == Init => Inv
<1> SUFFICES ASSUME Init PROVE Inv
  OBVIOUS
<1> USE DEF Init
<1>1. CP!TypeOK
  BY SettingsAssumption, EmptySeq DEF CP!Init, CP!TypeOK, CP!FailureReasons
<1>2. BE!TypeOK
  BY SettingsAssumption
  DEF BE!Init, BE!TypeOK, BE!BatchState, BE!MemberStatus, BE!Reasons, BE!NoBatch
<1>3. PathTypes
  <2>1. <<>> \in Seq(Requests)
    BY EmptySeq
  <2>2. NoFlight \in [batch : Nat, members : SUBSET Requests]
    BY DEF NoFlight
  <2> QED BY <2>1, <2>2 DEF PathTypes, Labels
<1>4. 0 \notin BE!BatchId
  BY DEF BE!BatchId
<1>5. Membership
  BY <1>4 DEF Membership, BE!Init, BE!NoBatch
<1>6. ASSUME NEW r \in Requests PROVE Follows(r)
  BY CallersAssumption
  DEF Follows, StateFits, SlotKept, SentTogether, Finished, CP!Init, BE!Init, BE!NoBatch
<1> QED BY <1>1, <1>2, <1>3, <1>5, <1>6 DEF Inv

LEMMA NextInv == Inv /\ [Next]_vars => Inv'
<1> SUFFICES ASSUME Inv, [Next]_vars PROVE Inv'
  OBVIOUS
<1>1. ASSUME NEW r \in Requests, Continue(r) PROVE Inv'
  BY <1>1, SubmissionKeepsInv, CycleStartKeepsInv, DispatchKeepsInv, CompletionKeepsInv,
     StreamEndsEarlyKeepsInv DEF Continue
<1>2. ASSUME NEW r \in Requests, Submit(r) PROVE Inv'
  BY <1>2, SubmissionKeepsInv
<1>3. CASE CycleList(Ticker) \/ CycleCrash(Ticker)
  BY <1>3, CycleStartKeepsInv
<1>4. CASE CyclePlace
  <2>1. cycling \in Requests \cup {Ticker} /\ Head(toPlace) \in Requests
    <3>1. cycling \in Requests \cup {Ticker, Idle} /\ toPlace \in Seq(Requests)
      BY DEF Inv, PathTypes
    <3>2. cycling # Idle /\ toPlace # <<>>
      BY <1>4 DEF CyclePlace
    <3> QED BY <3>1, <3>2, HeadTailProperties
  <2> QED BY <1>4, <2>1, CyclePlaceKeepsInv
<1>5. CASE CycleEnd
  <2>1. cycling \in Requests \cup {Ticker}
    BY <1>5 DEF Inv, PathTypes, CycleEnd
  <2> QED BY <1>5, <2>1, CycleEndKeepsInv
<1>6. CASE Tick \/ UNCHANGED vars
  BY <1>6, IdleStepKeepsInv
<1> QED BY <1>1, <1>2, <1>3, <1>4, <1>5, <1>6 DEF Next

LEMMA InvInvariant == Spec => []Inv
BY InitInv, NextInv, PTL DEF Spec

-----------------------------------------------------------------------------
(***************************************************************************)
(* The theorems.                                                           *)
(***************************************************************************)

\* A request is reported COMPLETED only if a backend accepted a batch that held
\* it when it was sent, although batches grow after they were sent and every
\* coroutine submits the batches of all.
THEOREM CompletedMeansExecuted == Spec => []CompletedWasExecuted
<1> QED BY InvInvariant, InvSuffices, PTL

\* Between the acceptance of its batch and its end a request holds its slot,
\* whatever cycles, timeouts and other coroutines do; a completed one has given
\* it back.
THEOREM RunningRequestsHoldSlots == Spec => []RunningHoldsSlot
<1> QED BY InvInvariant, InvSuffices, PTL

\* No way out of the orchestrator or the stream engine leaves a request half
\* way.
THEOREM FinishedPathsAreSettled == Spec => []DoneIsSettled
<1> QED BY InvInvariant, InvSuffices, PTL

\* Cycles and coroutines together drive the batching engine as its own module
\* says: whatever is proved of the engine holds inside the stack.
THEOREM EngineIsUsedAsSpecified == Spec => BE!Spec
<1>1. Init => BE!Init
  BY DEF Init
<1>2. ASSUME Inv, [Next]_vars PROVE [BE!Next]_BE!vars
  <2>1. CASE CyclePlace
    <3>1. Head(toPlace) \in Requests
      BY <1>2, <2>1, HeadTailProperties DEF Inv, PathTypes, CyclePlace
    <3> QED BY <2>1, <3>1 DEF CyclePlace, BE!Next
  <2>2. ASSUME NEW r \in Requests, Complete(r) \/ StreamEnd(r) PROVE BE!Next
    BY <2>2 DEF Complete, StreamEnd, BE!Next
  <2>3. CASE Tick
    BY <2>3 DEF Tick, BE!Next, BE!Tick, beVars
  <2>4. CASE CycleEnd \/ CycleList(Ticker) \/ CycleCrash(Ticker) \/ UNCHANGED vars
    BY <2>4 DEF CycleEnd, CycleList, CycleCrash, CP!ListItems, vars, beVars, BE!vars
  <2>5. ASSUME NEW r \in Requests, CycleList(r) \/ CycleCrash(r) PROVE UNCHANGED BE!vars
    BY <2>5 DEF CycleList, CycleCrash, CP!ListItems, beVars, BE!vars
  <2>6. ASSUME NEW r \in Requests,
               Submit(r) \/ Admission(r) \/ Queued(r) \/ StartStream(r)
                 \/ StreamCancel(r) \/ StreamError(r)
        PROVE  UNCHANGED BE!vars
    <3>1. UNCHANGED beVars
      BY <2>6 DEF Submit, Admission, Queued, StartStream, StreamCancel, StreamError,
                  OnlyControlPlane
    <3>2. now' = now
      BY <2>6 DEF Submit, Admission, Queued, StartStream, StreamCancel, StreamError,
                  StreamFailed, CP!Submit, CP!SubmitAtCapacity, CP!Enqueue,
                  CP!RejectQueueFull, CP!MarkQueued, CP!Record
    <3> QED BY <3>1, <3>2 DEF beVars, BE!vars
  <2>7. ASSUME NEW r \in Requests, Dispatch(r) \/ AdapterAccepts(r) \/ AdapterRefuses(r)
        PROVE  UNCHANGED BE!vars
    <3>1. UNCHANGED beVars
      BY <2>7 DEF Dispatch, AdapterAccepts, AdapterRefuses
    <3>2. PICK rest, ok, sent : Proceed(r, rest, ok, sent)
      BY <2>7 DEF Dispatch, AdapterAccepts, AdapterRefuses
    <3>3. now' = now
      BY <3>2 DEF Proceed, Finalize, StreamFailed, CP!Record
    <3> QED BY <3>1, <3>3 DEF beVars, BE!vars
  <2> QED BY <1>2, <2>1, <2>2, <2>3, <2>4, <2>5, <2>6, <2>7 DEF Next, Continue
<1> QED BY <1>1, <1>2, InvInvariant, PTL DEF Spec, BE!Spec

=============================================================================
