------------------------- MODULE BatchEngineProofs -------------------------
(***************************************************************************)
(* Theorems about the batching engine, for any number of requests, models, *)
(* batches and any limits.                                                 *)
(***************************************************************************)
EXTENDS BatchEngine, FiniteSetTheorems, FunctionTheorems, TLAPS

-----------------------------------------------------------------------------
(***************************************************************************)
(* Slot allocation.                                                        *)
(***************************************************************************)

\* A non-empty set of naturals has a least element.
LEMMA LeastNatural ==
  ASSUME NEW S \in SUBSET Nat, S # {}
  PROVE  \E x \in S : \A y \in S : x <= y
<1>1. PICK x \in S : \A y \in S : ~(<<y, x>> \in OpToRel(<, Nat))
  BY WFMin, NatLessThanWellFounded
<1>2. ASSUME NEW y \in S PROVE x <= y
  <2>1. <<y, x>> \in OpToRel(<, Nat) <=> y < x
    BY DEF OpToRel
  <2>2. ~(y < x)
    BY <1>1, <2>1, Zenon
  <2>3. x \in Nat /\ y \in Nat
    OBVIOUS
  <2> QED BY <2>2, <2>3
<1> QED BY <1>2

\* The loop of _next_slot_index ends at an index that is free, and no later
\* than after as many steps as there are used indices.
LEMMA NextSlotIndexIsFree ==
  ASSUME NEW used, IsFiniteSet(used)
  PROVE  /\ NextSlotIndex(used) \in 0 .. Cardinality(used)
         /\ NextSlotIndex(used) \in Nat
         /\ NextSlotIndex(used) \notin used
<1> DEFINE n == Cardinality(used)
           free == {i \in 0 .. n : i \notin used}
<1>1. n \in Nat
  BY FS_CardinalityType
<1>2. free # {}
  <2> SUFFICES ASSUME free = {} PROVE FALSE
    OBVIOUS
  <2>1. (0 .. n) \in SUBSET used
    OBVIOUS
  <2>2. Cardinality(0 .. n) <= n
    BY <2>1, FS_Subset
  <2>3. Cardinality(0 .. n) = n + 1
    BY <1>1, FS_Interval
  <2> QED BY <1>1, <2>2, <2>3
<1>3. PICK i \in free : \A j \in free : i <= j
  <2>1. free \in SUBSET Nat
    BY <1>1
  <2> HIDE DEF free
  <2> QED BY <1>2, <2>1, LeastNatural
<1>4. i \in 0 .. n /\ i \notin used /\ \A j \in 0 .. i - 1 : j \in used
  BY <1>1, <1>3
<1>5. /\ NextSlotIndex(used) \in 0 .. Cardinality(used)
      /\ NextSlotIndex(used) \notin used
  BY <1>4 DEF NextSlotIndex
<1> QED BY <1>1, <1>5

\* The sets the engine counts are finite.
LEMMA Finiteness ==
  ASSUME TypeOK, NEW b \in BatchId
  PROVE  /\ IsFiniteSet(ActiveMembers(b))
         /\ ActiveCount(b) \in Nat
         /\ IsFiniteSet(UsedSlots(b))
         /\ Cardinality(UsedSlots(b)) <= ActiveCount(b)
         /\ IsFiniteSet(ActivePairs)
         /\ GlobalActiveCount \in Nat
<1>1. IsFiniteSet(ActiveMembers(b)) /\ ActiveCount(b) \in Nat
  <2>1. ActiveMembers(b) \in SUBSET Requests
    BY DEF ActiveMembers
  <2> QED BY <2>1, InputAssumption, FS_Subset, FS_CardinalityType DEF ActiveCount
<1>2. IsFiniteSet(UsedSlots(b)) /\ Cardinality(UsedSlots(b)) <= ActiveCount(b)
  <2> DEFINE f == [r \in ActiveMembers(b) |-> slotIndex[b][r]]
  <2>1. f \in [ActiveMembers(b) -> UsedSlots(b)]
    BY DEF UsedSlots
  <2>2. \A s \in UsedSlots(b) : \E r \in ActiveMembers(b) : f[r] = s
    BY DEF UsedSlots
  <2>3. f \in Surjection(ActiveMembers(b), UsedSlots(b))
    BY <2>1, <2>2, Fun_IsSurj
  <2> QED BY <1>1, <2>3, FS_Surjection DEF ActiveCount
<1>3. IsFiniteSet(ActivePairs) /\ GlobalActiveCount \in Nat
  <2>1. IsFiniteSet(BatchId)
    BY BoundAssumption, FS_Interval DEF BatchId
  <2>2. IsFiniteSet(BatchId \X Requests)
    BY <2>1, InputAssumption, FS_Product
  <2>3. ActivePairs \in SUBSET (BatchId \X Requests)
    BY DEF ActivePairs
  <2> QED BY <2>2, <2>3, FS_Subset, FS_CardinalityType DEF GlobalActiveCount
<1> QED BY <1>1, <1>2, <1>3

-----------------------------------------------------------------------------
(***************************************************************************)
(* The inductive invariant.  ActiveIndexExact is what makes the others     *)
(* inductive: a placement goes to the model's one open batch or, when none *)
(* is open, to a new one.                                                  *)
(***************************************************************************)

IndInv ==
  /\ TypeOK
  /\ BatchesWellFormed
  /\ MembershipAgrees
  /\ ActiveIndexExact
  /\ ActiveBatchesBusy
  /\ BatchCapacityRespected
  /\ GlobalCapacityRespected
  /\ SlotsExclusive

\* What both kinds of admission have in common: r becomes a member of b, which
\* is new or the open batch of r's model and has room.
Admits(r, b) ==
  /\ b \in BatchId
  /\ requestToBatch[r] = NoBatch
  /\ ActiveCount(b) < MaxBatchSize
  /\ GlobalActiveCount < MaxActiveRequests
  /\ batchState[b] \in {"none", "filling", "active"}
  /\ batchState[b] # "none" => batchModel[b] = ModelOf[r]
  /\ activeBatchByModel[ModelOf[r]] \in {NoBatch, b}
  /\ created' \in 0 .. MaxBatches
  /\ \A c \in BatchId : c > created' <=> c > created /\ c # b
  /\ created <= created'
  /\ batchModel' = [batchModel EXCEPT ![b] = ModelOf[r]]
  /\ windowEnd' \in [BatchId -> Nat]
  /\ memberStatus' = [memberStatus EXCEPT ![b] = [@ EXCEPT ![r] = "active"]]
  /\ slotIndex' = [slotIndex EXCEPT ![b] =
                     [@ EXCEPT ![r] = NextSlotIndex(UsedSlots(b))]]
  /\ requestToBatch' = [requestToBatch EXCEPT ![r] = b]
  /\ \E s \in {"filling", "active"} :
       /\ batchState' = [batchState EXCEPT ![b] = s]
       /\ s = "filling" => ActiveCount(b) + 1 < MaxBatchSize
  /\ activeBatchByModel' = [activeBatchByModel EXCEPT ![ModelOf[r]] = b]
  /\ assignments' = assignments \cup {r}
  /\ now' = now

\* The batch a search returns is the model's open batch and has room.
LEMMA AdmittableBatch ==
  ASSUME IndInv, NEW m \in Models, FindAdmittableBatch(m) # NoBatch
  PROVE  LET b == FindAdmittableBatch(m) IN
         /\ b \in BatchId
         /\ Open(b)
         /\ HasRoom(b)
         /\ batchModel[b] = m
         /\ activeBatchByModel[m] = b
<1> DEFINE b == activeBatchByModel[m]
           c == FindAdmittableBatch(m)
<1>1. CASE b # NoBatch /\ Open(b) /\ HasRoom(b)
  BY <1>1 DEF FindAdmittableBatch, IndInv, TypeOK, ActiveIndexExact
<1>2. CASE ~(b # NoBatch /\ Open(b) /\ HasRoom(b))
  <2>1. FillingBatches(m) # {}
    BY <1>2 DEF FindAdmittableBatch
  <2>2. FillingBatches(m) \in SUBSET Nat
    BY DEF FillingBatches, IndInv, TypeOK
  <2>3. c \in FillingBatches(m)
    BY <1>2, <2>1, <2>2, LeastNatural DEF FindAdmittableBatch
  <2>4. c \in BatchId /\ batchModel[c] = m /\ batchState[c] = "filling" /\ HasRoom(c)
    BY <2>3, BoundAssumption DEF FillingBatches, IndInv, TypeOK, BatchId
  <2>5. Open(c)
    BY <2>4 DEF Open, BATCH_TERMINAL_STATES
  <2> QED BY <2>4, <2>5 DEF IndInv, ActiveIndexExact
<1> QED BY <1>1, <1>2

\* When a placement opens a new batch, the model has no open batch.
LEMMA NewBatchMeansNoneOpen ==
  ASSUME IndInv, NEW r \in Requests, Verdict(r) = "new_batch"
  PROVE  /\ requestToBatch[r] = NoBatch
         /\ GlobalActiveCount < MaxActiveRequests
         /\ activeBatchByModel[ModelOf[r]] = NoBatch
<1> DEFINE m == ModelOf[r]
           b == activeBatchByModel[m]
<1>1. m \in Models
  BY InputAssumption
<1>2. /\ requestToBatch[r] = NoBatch
      /\ ~GlobalLimitReached
      /\ FindAdmittableBatch(m) = NoBatch
      /\ ~ActiveFullBatch(m)
  BY DEF Verdict, EvaluateBatchAdmission
<1>3. GlobalActiveCount < MaxActiveRequests
  <2>1. CASE BatchId = {}
    <3>1. ActivePairs = {}
      BY <2>1 DEF ActivePairs
    <3> QED BY <3>1, FS_EmptySet, ConfigAssumption DEF GlobalActiveCount
  <2>2. CASE BatchId # {}
    BY <1>2, <2>2, Finiteness, ConfigAssumption DEF GlobalLimitReached, IndInv
  <2> QED BY <2>1, <2>2
<1>4. ASSUME b # NoBatch PROVE FALSE
  <2>1. b \in BatchId /\ Open(b)
    BY <1>1, <1>4 DEF IndInv, TypeOK, ActiveIndexExact
  <2>2. ~HasRoom(b)
    BY <1>2, <1>4, <2>1 DEF FindAdmittableBatch, NoBatch, BatchId
  <2>3. batchState[b] # "active"
    BY <1>2, <1>4, <2>2 DEF ActiveFullBatch
  <2>4. batchState[b] = "filling"
    BY <2>1, <2>3 DEF IndInv, BatchesWellFormed, Open, BATCH_TERMINAL_STATES
  <2> QED BY <2>1, <2>2, <2>4 DEF IndInv, BatchesWellFormed, HasRoom
<1> QED BY <1>2, <1>3, <1>4

\* Opening a new batch for r is an admission in the sense of Admits.
LEMMA NewBatchAdmits ==
  ASSUME IndInv, NEW r \in Requests, Verdict(r) = "new_batch", AdmitToNewBatch(r)
  PROVE  Admits(r, created + 1)
<1> DEFINE b == created + 1
<1> USE DEF NoBatch
<1>1. /\ created \in Nat
      /\ b \in BatchId
      /\ created' = b
      /\ b > created
  BY BoundAssumption DEF AdmitToNewBatch, IndInv, TypeOK, BatchId
<1>2. /\ requestToBatch[r] = NoBatch
      /\ GlobalActiveCount < MaxActiveRequests
      /\ activeBatchByModel[ModelOf[r]] = NoBatch
  BY NewBatchMeansNoneOpen
<1>3. batchState[b] = "none"
  BY <1>1 DEF IndInv, BatchesWellFormed
<1>4. ActiveMembers(b) = {}
  <2> SUFFICES ASSUME NEW q \in Requests, memberStatus[b][q] = "active" PROVE FALSE
    BY DEF ActiveMembers
  <2>1. requestToBatch[q] = b
    BY <1>1 DEF IndInv, MembershipAgrees
  <2> QED BY <1>1, <2>1 DEF IndInv, MembershipAgrees
<1>5. ActiveCount(b) = 0
  BY <1>4, FS_EmptySet DEF ActiveCount
<1>6. /\ batchModel' = [batchModel EXCEPT ![b] = ModelOf[r]]
      /\ windowEnd' = [windowEnd EXCEPT ![b] = now + WindowLength]
      /\ AddMember(r, b, "filling", now + WindowLength)
  BY DEF AdmitToNewBatch
<1>7. windowEnd' \in [BatchId -> Nat]
  BY <1>1, <1>6, ConfigAssumption, BoundAssumption DEF IndInv, TypeOK
<1> DEFINE s == StateAfterAdmission("filling", ActiveCount(b) + 1, now + WindowLength)
<1>8. s \in {"filling", "active"} /\ (s = "filling" => ActiveCount(b) + 1 < MaxBatchSize)
  BY <1>5, ConfigAssumption DEF StateAfterAdmission
<1>9. batchState' = [batchState EXCEPT ![b] = s]
  BY <1>6 DEF AddMember
<1>10. activeBatchByModel' = [activeBatchByModel EXCEPT ![ModelOf[r]] = b]
  BY <1>1, <1>6 DEF AddMember
<1>11. /\ memberStatus' = [memberStatus EXCEPT ![b] = [@ EXCEPT ![r] = "active"]]
       /\ slotIndex' = [slotIndex EXCEPT ![b] =
                          [@ EXCEPT ![r] = NextSlotIndex(UsedSlots(b))]]
       /\ requestToBatch' = [requestToBatch EXCEPT ![r] = b]
       /\ assignments' = assignments \cup {r}
       /\ now' = now
  BY <1>6 DEF AddMember
<1>12. /\ created' \in 0 .. MaxBatches
       /\ \A c \in BatchId : c > created' <=> c > created /\ c # b
       /\ created <= created'
  BY <1>1, BoundAssumption DEF BatchId
<1>13. ActiveCount(b) < MaxBatchSize
  BY <1>5, ConfigAssumption
<1> HIDE DEF s
<1> QED
  BY <1>1, <1>2, <1>3, <1>6, <1>7, <1>8, <1>9, <1>10, <1>11, <1>12, <1>13 DEF Admits

\* Joining the open batch of r's model is one too.
LEMMA OpenBatchAdmits ==
  ASSUME IndInv, NEW r \in Requests, Verdict(r) = "batch_has_capacity",
         AdmitToOpenBatch(r)
  PROVE  Admits(r, FindAdmittableBatch(ModelOf[r]))
<1> DEFINE m == ModelOf[r]
           b == FindAdmittableBatch(m)
<1>1. m \in Models
  BY InputAssumption
<1>2. requestToBatch[r] = NoBatch /\ b # NoBatch /\ ~GlobalLimitReached
  BY DEF Verdict, EvaluateBatchAdmission
<1>3. /\ b \in BatchId
      /\ Open(b)
      /\ HasRoom(b)
      /\ batchModel[b] = m
      /\ activeBatchByModel[m] = b
  BY <1>1, <1>2, AdmittableBatch
<1>4. ActiveCount(b) < MaxBatchSize /\ ActiveCount(b) \in Nat
  BY <1>3, Finiteness DEF HasRoom, IndInv
<1>5. GlobalActiveCount < MaxActiveRequests
  BY <1>2, <1>3, Finiteness, ConfigAssumption DEF GlobalLimitReached, IndInv
<1>6. batchState[b] \in {"filling", "active"} /\ b <= created
  BY <1>3, BoundAssumption
  DEF IndInv, TypeOK, BatchesWellFormed, Open, BATCH_TERMINAL_STATES, BatchId
<1>7. AddMember(r, b, batchState[b], windowEnd[b]) /\ UNCHANGED <<created, batchModel, windowEnd>>
  BY DEF AdmitToOpenBatch
<1> DEFINE s == StateAfterAdmission(batchState[b], ActiveCount(b) + 1, windowEnd[b])
<1>8. s \in {"filling", "active"} /\ (s = "filling" => ActiveCount(b) + 1 < MaxBatchSize)
  BY <1>4, <1>6, ConfigAssumption DEF StateAfterAdmission
<1>9. batchState' = [batchState EXCEPT ![b] = s]
  BY <1>7 DEF AddMember
<1>10. activeBatchByModel' = [activeBatchByModel EXCEPT ![m] = b]
  <2>1. activeBatchByModel = [activeBatchByModel EXCEPT ![m] = b]
    BY <1>1, <1>3 DEF IndInv, TypeOK
  <2> QED BY <1>7, <2>1 DEF AddMember
<1>11. /\ memberStatus' = [memberStatus EXCEPT ![b] = [@ EXCEPT ![r] = "active"]]
       /\ slotIndex' = [slotIndex EXCEPT ![b] =
                          [@ EXCEPT ![r] = NextSlotIndex(UsedSlots(b))]]
       /\ requestToBatch' = [requestToBatch EXCEPT ![r] = b]
       /\ assignments' = assignments \cup {r}
       /\ now' = now
  BY <1>7 DEF AddMember
<1>12. /\ created' \in 0 .. MaxBatches
       /\ \A c \in BatchId : c > created' <=> c > created /\ c # b
       /\ created <= created'
  BY <1>3, <1>6, <1>7, BoundAssumption DEF IndInv, TypeOK, BatchId
<1>13. batchModel' = [batchModel EXCEPT ![b] = m] /\ windowEnd' \in [BatchId -> Nat]
  BY <1>3, <1>7 DEF IndInv, TypeOK
<1> HIDE DEF s, b
<1>14. QED
  BY <1>2, <1>3, <1>4, <1>5, <1>6, <1>8, <1>9, <1>10, <1>11, <1>12, <1>13
  DEF Admits, b

-----------------------------------------------------------------------------
(***************************************************************************)
(* Every step keeps the invariant.                                         *)
(***************************************************************************)

\* An admission keeps the invariant: the new member gets a slot nobody uses,
\* and its batch becomes, or stays, the only open one of the model.
LEMMA AdmissionKeepsInv ==
  ASSUME IndInv, NEW r \in Requests, NEW b, Admits(r, b), outcome' \in Reasons
  PROVE  IndInv'
<1> DEFINE m == ModelOf[r]
           slot == NextSlotIndex(UsedSlots(b))
<1> USE DEF NoBatch
<1>1. m \in Models /\ b \in BatchId /\ b \in Nat /\ b # 0
  BY InputAssumption, BoundAssumption DEF Admits, BatchId
<1>2. PICK s \in {"filling", "active"} :
        /\ batchState' = [batchState EXCEPT ![b] = s]
        /\ s = "filling" => ActiveCount(b) + 1 < MaxBatchSize
  BY DEF Admits
<1>3. /\ slot \in Nat
      /\ slot < MaxBatchSize
      /\ slot \notin UsedSlots(b)
      /\ ActiveCount(b) \in Nat
      /\ IsFiniteSet(ActiveMembers(b))
  <2>1. /\ IsFiniteSet(UsedSlots(b)) /\ IsFiniteSet(ActiveMembers(b))
        /\ Cardinality(UsedSlots(b)) <= ActiveCount(b)
        /\ ActiveCount(b) \in Nat
    BY <1>1, Finiteness DEF IndInv
  <2>2. Cardinality(UsedSlots(b)) \in Nat
    BY <2>1, FS_CardinalityType
  <2>3. ActiveCount(b) < MaxBatchSize
    BY DEF Admits
  <2> QED BY <2>1, <2>2, <2>3, NextSlotIndexIsFree, ConfigAssumption
<1>4. TypeOK'
  <2>1. now' \in 0 .. MaxTime /\ created' \in 0 .. MaxBatches /\ outcome' \in Reasons
    BY DEF Admits, IndInv, TypeOK
  <2>2. batchState' \in [BatchId -> BatchState \cup {"none"}]
    BY <1>1, <1>2 DEF IndInv, TypeOK, BatchState
  <2>3. batchModel' \in [BatchId -> Models \cup {"none"}]
    BY <1>1 DEF Admits, IndInv, TypeOK
  <2>4. windowEnd' \in [BatchId -> Nat]
    BY DEF Admits
  <2>5. memberStatus' \in [BatchId -> [Requests -> MemberStatus \cup {"none"}]]
    BY <1>1 DEF Admits, IndInv, TypeOK, MemberStatus
  <2>6. slotIndex' \in [BatchId -> [Requests -> Nat]]
    BY <1>1, <1>3 DEF Admits, IndInv, TypeOK
  <2>7. requestToBatch' \in [Requests -> BatchId \cup {NoBatch}]
    BY <1>1 DEF Admits, IndInv, TypeOK
  <2>8. activeBatchByModel' \in [Models -> BatchId \cup {NoBatch}]
    BY <1>1 DEF Admits, IndInv, TypeOK
  <2>9. assignments' \in SUBSET Requests
    BY DEF Admits, IndInv, TypeOK
  <2> QED BY <2>1, <2>2, <2>3, <2>4, <2>5, <2>6, <2>7, <2>8, <2>9 DEF TypeOK
<1>5. memberStatus[b][r] # "active"
  BY <1>1 DEF Admits, IndInv, MembershipAgrees
<1>6. ActiveMembers(b)' = ActiveMembers(b) \cup {r}
  BY <1>1 DEF ActiveMembers, Admits, IndInv, TypeOK
<1>7. ActiveCount(b)' = ActiveCount(b) + 1
  BY <1>3, <1>5, <1>6, FS_AddElement DEF ActiveCount, ActiveMembers
<1>8. \A c \in BatchId : c # b => /\ ActiveMembers(c)' = ActiveMembers(c)
                                 /\ ActiveCount(c)' = ActiveCount(c)
  BY <1>1 DEF ActiveMembers, ActiveCount, Admits, IndInv, TypeOK
<1>9. BatchesWellFormed'
  <2> SUFFICES ASSUME NEW c \in BatchId
               PROVE  /\ batchState'[c] = "none" <=> c > created'
                      /\ batchState'[c] # "none" =>
                           /\ batchState'[c] \in {"filling", "active", "completed", "failed"}
                           /\ batchModel'[c] \in Models
                      /\ batchState'[c] = "filling" => ActiveCount(c)' < MaxBatchSize
    BY DEF BatchesWellFormed
  <2>1. CASE c = b
    <3>1. batchState'[c] = s /\ batchModel'[c] = m
      BY <1>1, <1>2, <2>1 DEF Admits, IndInv, TypeOK
    <3>2. ~(c > created')
      BY <2>1 DEF Admits
    <3> QED BY <1>1, <1>2, <1>7, <2>1, <3>1, <3>2
  <2>2. CASE c # b
    <3>1. batchState'[c] = batchState[c] /\ batchModel'[c] = batchModel[c]
      BY <1>2, <2>2 DEF Admits, IndInv, TypeOK
    <3>2. c > created' <=> c > created
      BY <2>2 DEF Admits
    <3> QED BY <1>8, <2>2, <3>1, <3>2 DEF IndInv, BatchesWellFormed
  <2> QED BY <2>1, <2>2
<1>10. MembershipAgrees'
  <2> SUFFICES ASSUME NEW q \in Requests
               PROVE  /\ \A c \in BatchId :
                           memberStatus'[c][q] # "none" <=> requestToBatch'[q] = c
                      /\ requestToBatch'[q] # NoBatch <=> q \in assignments'
                      /\ requestToBatch'[q] # NoBatch =>
                           /\ requestToBatch'[q] <= created'
                           /\ batchModel'[requestToBatch'[q]] = ModelOf[q]
    BY DEF MembershipAgrees
  <2>1. CASE q = r
    <3>1. requestToBatch'[q] = b /\ q \in assignments' /\ memberStatus'[b][q] = "active"
      BY <1>1, <2>1 DEF Admits, IndInv, TypeOK
    <3>2. \A c \in BatchId : c # b => memberStatus'[c][q] = "none"
      BY <1>1, <2>1 DEF Admits, IndInv, TypeOK, MembershipAgrees, BatchId
    <3>3. b <= created' /\ batchModel'[b] = ModelOf[q]
      <4>1. ~(b > created')
        BY DEF Admits
      <4>2. created' \in Int
        BY <1>4 DEF TypeOK
      <4> QED BY <1>1, <2>1, <4>1, <4>2 DEF Admits, IndInv, TypeOK
    <3> QED BY <1>1, <3>1, <3>2, <3>3
  <2>2. CASE q # r
    <3>1. /\ requestToBatch'[q] = requestToBatch[q]
          /\ q \in assignments' <=> q \in assignments
          /\ \A c \in BatchId : memberStatus'[c][q] = memberStatus[c][q]
      BY <1>1, <2>2 DEF Admits, IndInv, TypeOK
    <3>2. ASSUME requestToBatch[q] # NoBatch
          PROVE  /\ requestToBatch[q] <= created'
                 /\ batchModel'[requestToBatch[q]] = ModelOf[q]
      <4> DEFINE c == requestToBatch[q]
      <4>1. c \in BatchId /\ c \in Int /\ c <= created /\ batchModel[c] = ModelOf[q]
        BY <3>2, BoundAssumption DEF IndInv, TypeOK, MembershipAgrees, BatchId
      <4>2. c <= created'
        BY <1>4, <4>1 DEF Admits, IndInv, TypeOK
      <4>3. batchState[c] # "none"
        BY <4>1 DEF IndInv, TypeOK, BatchesWellFormed
      <4>4. c = b => ModelOf[r] = ModelOf[q]
        BY <4>1, <4>3 DEF Admits
      <4> QED BY <1>1, <4>1, <4>2, <4>4 DEF Admits, IndInv, TypeOK
    <3> QED BY <3>1, <3>2 DEF IndInv, MembershipAgrees
  <2> QED BY <2>1, <2>2
<1>11. ActiveIndexExact'
  <2>1. ASSUME NEW c \in BatchId, Open(c)'
        PROVE  activeBatchByModel'[batchModel'[c]] = c
    <3>1. CASE c = b
      BY <1>1, <3>1 DEF Admits, IndInv, TypeOK
    <3>2. CASE c # b
      <4>1. Open(c) /\ batchModel'[c] = batchModel[c]
        BY <1>2, <2>1, <3>2 DEF Open, Admits, IndInv, TypeOK
      <4>2. activeBatchByModel[batchModel[c]] = c
        BY <4>1 DEF IndInv, ActiveIndexExact
      <4>3. batchModel[c] \in Models
        BY <4>1 DEF IndInv, BatchesWellFormed, Open
      <4>4. batchModel[c] # m
        BY <3>2, <4>2, <1>1, BoundAssumption DEF Admits, BatchId
      <4> QED BY <4>1, <4>2, <4>3, <4>4 DEF Admits, IndInv, TypeOK
    <3> QED BY <3>1, <3>2
  <2>2. ASSUME NEW n \in Models, activeBatchByModel'[n] # NoBatch
        PROVE  /\ Open(activeBatchByModel[n])'
               /\ batchModel'[activeBatchByModel'[n]] = n
    <3>1. CASE n = m
      <4>1. activeBatchByModel'[n] = b
        BY <1>1, <3>1 DEF Admits, IndInv, TypeOK
      <4>2. batchState'[b] = s /\ batchModel'[b] = m
        BY <1>1, <1>2 DEF Admits, IndInv, TypeOK
      <4> QED BY <3>1, <4>1, <4>2 DEF Open, BATCH_TERMINAL_STATES
    <3>2. CASE n # m
      <4> DEFINE c == activeBatchByModel[n]
      <4>1. activeBatchByModel'[n] = c
        BY <1>1, <3>2 DEF Admits, IndInv, TypeOK
      <4>2. c \in BatchId /\ Open(c) /\ batchModel[c] = n
        BY <2>2, <4>1 DEF IndInv, TypeOK, ActiveIndexExact
      <4>3. c # b
        BY <3>2, <4>2 DEF Admits, Open
      <4> QED BY <1>2, <4>1, <4>2, <4>3 DEF Open, Admits, IndInv, TypeOK
    <3> QED BY <3>1, <3>2
  <2> QED BY <2>1, <2>2 DEF ActiveIndexExact
<1>12. ActiveBatchesBusy'
  <2> SUFFICES ASSUME NEW c \in BatchId
               PROVE  /\ batchState'[c] = "active" => ActiveMembers(c)' # {}
                      /\ batchState'[c] = "completed" => ActiveMembers(c)' = {}
    BY DEF ActiveBatchesBusy
  <2>1. CASE c = b
    BY <1>1, <1>2, <1>6, <2>1 DEF IndInv, TypeOK
  <2>2. CASE c # b
    BY <1>2, <1>8, <2>2 DEF IndInv, TypeOK, ActiveBatchesBusy
  <2> QED BY <2>1, <2>2
<1>13. BatchCapacityRespected'
  <2>1. ActiveCount(b)' <= MaxBatchSize
    BY <1>3, <1>7, ConfigAssumption DEF Admits
  <2> QED BY <1>8, <2>1 DEF IndInv, BatchCapacityRespected
<1>14. GlobalCapacityRespected'
  <2>1. ActivePairs' = ActivePairs \cup {<<b, r>>}
    BY <1>1 DEF ActivePairs, Admits, IndInv, TypeOK
  <2>2. <<b, r>> \notin ActivePairs
    BY <1>5 DEF ActivePairs
  <2>3. GlobalActiveCount' = GlobalActiveCount + 1 /\ GlobalActiveCount \in Nat
    BY <1>1, <2>1, <2>2, Finiteness, FS_AddElement DEF GlobalActiveCount, IndInv
  <2> QED BY <2>3, ConfigAssumption DEF Admits, GlobalCapacityRespected
<1>15. SlotsExclusive'
  <2> SUFFICES ASSUME NEW c \in BatchId, NEW q \in ActiveMembers(c)'
               PROVE  /\ slotIndex'[c][q] < MaxBatchSize
                      /\ \A p \in ActiveMembers(c)' :
                           slotIndex'[c][q] = slotIndex'[c][p] => q = p
    BY DEF SlotsExclusive
  <2>1. CASE c # b
    <3>1. slotIndex'[c] = slotIndex[c]
      BY <2>1 DEF Admits, IndInv, TypeOK
    <3> QED BY <1>8, <2>1, <3>1 DEF IndInv, SlotsExclusive
  <2>2. CASE c = b
    <3>1. slotIndex'[b][r] = slot
      BY <1>1 DEF Admits, IndInv, TypeOK
    <3>2. \A p \in Requests : p # r => slotIndex'[b][p] = slotIndex[b][p]
      BY <1>1 DEF Admits, IndInv, TypeOK
    <3>3. \A p \in ActiveMembers(b) : p \in Requests /\ p # r /\ slotIndex[b][p] # slot
      BY <1>3, <1>5 DEF ActiveMembers, UsedSlots
    <3>4. \A p \in ActiveMembers(b) :
            /\ slotIndex[b][p] < MaxBatchSize
            /\ \A o \in ActiveMembers(b) : slotIndex[b][p] = slotIndex[b][o] => p = o
      BY <1>1 DEF IndInv, SlotsExclusive
    <3> QED BY <1>3, <1>6, <2>2, <3>1, <3>2, <3>3, <3>4
  <2> QED BY <2>1, <2>2
<1> QED
  BY <1>4, <1>9, <1>10, <1>11, <1>12, <1>13, <1>14, <1>15 DEF IndInv

\* A retirement keeps the invariant: it only takes members out, and a batch
\* that ends with it gives up the model's entry, which was its own.
LEMMA RetirementKeepsInv ==
  ASSUME IndInv, NEW r \in Requests, NEW status \in {"completed", "failed", "cancelled"},
         requestToBatch[r] # NoBatch, RetireRequest(r, status)
  PROVE  IndInv'
<1> DEFINE b == requestToBatch[r]
           next == StateAfterRetire(b, status, ActiveMembers(b) \ {r})
<1> USE DEF NoBatch
<1>1. /\ b \in BatchId
      /\ b <= created
      /\ batchModel[b] = ModelOf[r]
      /\ ModelOf[r] \in Models
      /\ memberStatus[b][r] # "none"
      /\ batchState[b] # "none"
      /\ b # 0
  BY InputAssumption, BoundAssumption
  DEF IndInv, TypeOK, MembershipAgrees, BatchesWellFormed, BatchId
<1>2. /\ memberStatus' = [memberStatus EXCEPT ![b] = [@ EXCEPT ![r] = status]]
      /\ batchState' = [batchState EXCEPT ![b] = next]
      /\ activeBatchByModel' =
           IF next # batchState[b]
           THEN [activeBatchByModel EXCEPT ![batchModel[b]] = NoBatch]
           ELSE activeBatchByModel
      /\ outcome' = "retired"
      /\ UNCHANGED <<now, created, batchModel, windowEnd, slotIndex,
                     requestToBatch, assignments>>
  BY DEF RetireRequest, Refuse
<1>3. \/ next = batchState[b]
      \/ Open(b) /\ next \in {"completed", "failed"}
  BY DEF StateAfterRetire, Open, BATCH_TERMINAL_STATES
<1>4. next = "filling" => batchState[b] = "filling"
  BY <1>3
<1>5. next \in {"filling", "active", "completed", "failed"}
  BY <1>1, <1>3 DEF IndInv, BatchesWellFormed
<1>6. \A c \in BatchId : c = b => ActiveMembers(c)' = ActiveMembers(c) \ {r}
  BY <1>1, <1>2 DEF ActiveMembers, IndInv, TypeOK
<1>7. \A c \in BatchId : c # b => ActiveMembers(c)' = ActiveMembers(c)
  BY <1>2 DEF ActiveMembers, IndInv, TypeOK
<1>8. \A c \in BatchId : ActiveCount(c)' <= ActiveCount(c) /\ ActiveCount(c)' \in Nat
  <2> SUFFICES ASSUME NEW c \in BatchId
               PROVE  ActiveCount(c)' <= ActiveCount(c) /\ ActiveCount(c)' \in Nat
    OBVIOUS
  <2>1. IsFiniteSet(ActiveMembers(c))
    BY Finiteness DEF IndInv
  <2>2. ActiveMembers(c)' \in SUBSET ActiveMembers(c)
    BY <1>6, <1>7
  <2>3. IsFiniteSet(ActiveMembers(c)')
        /\ Cardinality(ActiveMembers(c)') <= Cardinality(ActiveMembers(c))
    BY <2>1, <2>2, FS_Subset
  <2> QED BY <2>3, FS_CardinalityType DEF ActiveCount
<1>9. TypeOK'
  <2>1. batchState' \in [BatchId -> BatchState \cup {"none"}]
    BY <1>2, <1>5 DEF IndInv, TypeOK, BatchState
  <2>2. memberStatus' \in [BatchId -> [Requests -> MemberStatus \cup {"none"}]]
    BY <1>1, <1>2 DEF IndInv, TypeOK, MemberStatus
  <2>3. activeBatchByModel' \in [Models -> BatchId \cup {NoBatch}]
    BY <1>2 DEF IndInv, TypeOK
  <2>4. outcome' \in Reasons
    BY <1>2 DEF Reasons, RetireReasons
  <2> QED BY <1>2, <2>1, <2>2, <2>3, <2>4 DEF IndInv, TypeOK
<1>10. BatchesWellFormed'
  <2> SUFFICES ASSUME NEW c \in BatchId
               PROVE  /\ batchState'[c] = "none" <=> c > created'
                      /\ batchState'[c] # "none" =>
                           /\ batchState'[c] \in {"filling", "active", "completed", "failed"}
                           /\ batchModel'[c] \in Models
                      /\ batchState'[c] = "filling" => ActiveCount(c)' < MaxBatchSize
    BY DEF BatchesWellFormed
  <2>1. ActiveCount(c)' <= ActiveCount(c) /\ ActiveCount(c)' \in Nat /\ ActiveCount(c) \in Nat
    BY <1>8, Finiteness DEF IndInv
  <2>2. batchState'[c] = "filling" => batchState[c] = "filling"
    BY <1>2, <1>4 DEF IndInv, TypeOK
  <2>3. batchState'[c] = "filling" => ActiveCount(c)' < MaxBatchSize
    BY <2>1, <2>2, ConfigAssumption DEF IndInv, BatchesWellFormed
  <2>4. CASE c = b
    <3>1. batchState'[c] = next
      BY <1>1, <1>2, <2>4 DEF IndInv, TypeOK
    <3>2. ~(c > created')
      BY <1>1, <1>2, <2>4 DEF IndInv, TypeOK, BatchesWellFormed
    <3> QED BY <1>1, <1>2, <1>5, <2>3, <2>4, <3>1, <3>2
  <2>5. CASE c # b
    <3>1. batchState'[c] = batchState[c] /\ batchModel'[c] = batchModel[c] /\ created' = created
      BY <1>2, <2>5 DEF IndInv, TypeOK
    <3> QED BY <2>3, <3>1 DEF IndInv, BatchesWellFormed
  <2> QED BY <2>4, <2>5
<1>11. MembershipAgrees'
  <2>1. \A c \in BatchId : \A q \in Requests :
          memberStatus'[c][q] # "none" <=> memberStatus[c][q] # "none"
    BY <1>1, <1>2 DEF IndInv, TypeOK
  <2> QED BY <1>2, <2>1 DEF IndInv, MembershipAgrees
<1>12. ActiveIndexExact'
  <2>1. CASE next = batchState[b]
    <3>1. batchState' = batchState /\ activeBatchByModel' = activeBatchByModel
      BY <1>2, <2>1 DEF IndInv, TypeOK
    <3> QED BY <1>2, <3>1 DEF IndInv, ActiveIndexExact, Open
  <2>2. CASE next # batchState[b]
    <3>1. /\ Open(b)
          /\ next \in {"completed", "failed"}
          /\ activeBatchByModel[ModelOf[r]] = b
          /\ activeBatchByModel' = [activeBatchByModel EXCEPT ![ModelOf[r]] = NoBatch]
      BY <1>1, <1>2, <1>3, <2>2 DEF IndInv, ActiveIndexExact
    <3>2. ASSUME NEW c \in BatchId, Open(c)'
          PROVE  activeBatchByModel'[batchModel'[c]] = c
      <4>1. c # b
        BY <1>1, <1>2, <3>1, <3>2 DEF Open, BATCH_TERMINAL_STATES, IndInv, TypeOK
      <4>2. Open(c)
        BY <1>2, <3>2, <4>1 DEF Open, IndInv, TypeOK
      <4>3. activeBatchByModel[batchModel[c]] = c /\ batchModel[c] \in Models
        BY <4>2 DEF IndInv, ActiveIndexExact, BatchesWellFormed, Open
      <4>4. batchModel[c] # ModelOf[r]
        BY <3>1, <4>1, <4>3
      <4> QED BY <1>2, <3>1, <4>3, <4>4 DEF IndInv, TypeOK
    <3>3. ASSUME NEW n \in Models, activeBatchByModel'[n] # NoBatch
          PROVE  /\ Open(activeBatchByModel[n])'
                 /\ batchModel'[activeBatchByModel'[n]] = n
      <4> DEFINE c == activeBatchByModel[n]
      <4>1. n # ModelOf[r] /\ activeBatchByModel'[n] = c
        BY <1>1, <3>1, <3>3 DEF IndInv, TypeOK
      <4>2. c \in BatchId /\ Open(c) /\ batchModel[c] = n
        BY <3>3, <4>1 DEF IndInv, TypeOK, ActiveIndexExact
      <4>3. c # b
        BY <1>1, <4>1, <4>2
      <4> QED BY <1>2, <4>1, <4>2, <4>3 DEF Open, IndInv, TypeOK
    <3> QED BY <3>2, <3>3 DEF ActiveIndexExact
  <2> QED BY <2>1, <2>2
<1>13. ActiveBatchesBusy'
  <2> SUFFICES ASSUME NEW c \in BatchId
               PROVE  /\ batchState'[c] = "active" => ActiveMembers(c)' # {}
                      /\ batchState'[c] = "completed" => ActiveMembers(c)' = {}
    BY DEF ActiveBatchesBusy
  <2>1. CASE c = b
    <3>1. batchState'[c] = next
      BY <1>1, <1>2, <2>1 DEF IndInv, TypeOK
    <3>2. next = "active" => ActiveMembers(b) \ {r} # {}
      BY DEF StateAfterRetire, Open, BATCH_TERMINAL_STATES
    <3>3. next = "completed" =>
            \/ ActiveMembers(b) \ {r} = {}
            \/ batchState[b] = "completed"
      BY DEF StateAfterRetire
    <3>4. batchState[b] = "completed" => ActiveMembers(b) = {}
      BY <1>1 DEF IndInv, ActiveBatchesBusy
    <3> QED BY <1>6, <2>1, <3>1, <3>2, <3>3, <3>4
  <2>2. CASE c # b
    BY <1>2, <1>7, <2>2 DEF IndInv, TypeOK, ActiveBatchesBusy
  <2> QED BY <2>1, <2>2
<1>14. BatchCapacityRespected'
  <2> SUFFICES ASSUME NEW c \in BatchId PROVE ActiveCount(c)' <= MaxBatchSize
    BY DEF BatchCapacityRespected
  <2>1. ActiveCount(c) \in Nat /\ ActiveCount(c) <= MaxBatchSize
    BY Finiteness DEF IndInv, BatchCapacityRespected
  <2> QED BY <1>8, <2>1, ConfigAssumption
<1>15. GlobalCapacityRespected'
  <2>1. IsFiniteSet(ActivePairs) /\ GlobalActiveCount \in Nat
    BY <1>1, Finiteness DEF IndInv
  <2>2. ActivePairs' \in SUBSET ActivePairs
    BY <1>1, <1>2 DEF ActivePairs, IndInv, TypeOK
  <2>3. IsFiniteSet(ActivePairs') /\ Cardinality(ActivePairs') <= Cardinality(ActivePairs)
    BY <2>1, <2>2, FS_Subset
  <2>4. Cardinality(ActivePairs') \in Nat
    BY <2>3, FS_CardinalityType
  <2> QED
    BY <2>1, <2>3, <2>4, ConfigAssumption
    DEF IndInv, GlobalCapacityRespected, GlobalActiveCount
<1>16. SlotsExclusive'
  <2>1. \A c \in BatchId : ActiveMembers(c)' \subseteq ActiveMembers(c)
    BY <1>6, <1>7
  <2> QED BY <1>2, <2>1 DEF IndInv, SlotsExclusive
<1> QED
  BY <1>9, <1>10, <1>11, <1>12, <1>13, <1>14, <1>15, <1>16 DEF IndInv

\* A step that leaves the engine's dictionaries alone keeps the invariant.
LEMMA FrameKeepsInv ==
  ASSUME IndInv, now' \in 0 .. MaxTime, outcome' \in Reasons,
         UNCHANGED <<created, batchState, batchModel, windowEnd, memberStatus,
                     slotIndex, requestToBatch, activeBatchByModel, assignments>>
  PROVE  IndInv'
<1>1. TypeOK'
  BY DEF IndInv, TypeOK
<1>2. /\ \A b : ActiveMembers(b)' = ActiveMembers(b)
      /\ \A b : ActiveCount(b)' = ActiveCount(b)
      /\ \A b : Open(b)' <=> Open(b)
      /\ GlobalActiveCount' = GlobalActiveCount
  BY DEF ActiveMembers, ActiveCount, Open, ActivePairs, GlobalActiveCount
<1>3. BatchesWellFormed' /\ BatchCapacityRespected' /\ GlobalCapacityRespected'
  BY <1>2 DEF IndInv, BatchesWellFormed, BatchCapacityRespected, GlobalCapacityRespected
<1>4. MembershipAgrees' /\ ActiveBatchesBusy' /\ SlotsExclusive'
  BY <1>2 DEF IndInv, MembershipAgrees, ActiveBatchesBusy, SlotsExclusive
<1>5. ActiveIndexExact'
  BY <1>2 DEF IndInv, ActiveIndexExact, Open
<1> QED BY <1>1, <1>3, <1>4, <1>5 DEF IndInv

-----------------------------------------------------------------------------
(***************************************************************************)
(* The theorems.                                                           *)
(***************************************************************************)

\* An engine without batches satisfies the invariant.
LEMMA InitEstablishesInv == Init => IndInv
<1> SUFFICES ASSUME Init PROVE IndInv
  OBVIOUS
<1> USE DEF Init, NoBatch
<1>1. TypeOK
  BY BoundAssumption
  DEF TypeOK, BatchState, MemberStatus, Reasons
<1>2. \A b \in BatchId : ActiveMembers(b) = {} /\ ActiveCount(b) = 0
  BY FS_EmptySet DEF ActiveMembers, ActiveCount
<1>3. ActivePairs = {}
  BY DEF ActivePairs
<1>4. GlobalCapacityRespected
  BY <1>3, FS_EmptySet, ConfigAssumption DEF GlobalCapacityRespected, GlobalActiveCount
<1>5. BatchCapacityRespected
  BY <1>2, ConfigAssumption DEF BatchCapacityRespected
<1>6. BatchesWellFormed
  BY BoundAssumption DEF BatchesWellFormed, BatchId
<1>7. MembershipAgrees
  BY BoundAssumption DEF MembershipAgrees, BatchId
<1>8. ActiveIndexExact
  BY DEF ActiveIndexExact, Open
<1>9. ActiveBatchesBusy /\ SlotsExclusive
  BY <1>2 DEF ActiveBatchesBusy, SlotsExclusive
<1> QED BY <1>1, <1>4, <1>5, <1>6, <1>7, <1>8, <1>9 DEF IndInv

\* What a step of the engine can be.
LEMMA StepCases ==
  ASSUME IndInv, [Next]_vars
  PROVE  \/ /\ now' \in 0 .. MaxTime
            /\ outcome' \in Reasons
            /\ UNCHANGED <<created, batchState, batchModel, windowEnd, memberStatus,
                           slotIndex, requestToBatch, activeBatchByModel, assignments>>
         \/ \E r \in Requests : \E b \in BatchId : Admits(r, b) /\ outcome' \in Reasons
         \/ \E r \in Requests : \E status \in {"completed", "failed", "cancelled"} :
              requestToBatch[r] # NoBatch /\ RetireRequest(r, status)
<1> DEFINE Frame == /\ now' \in 0 .. MaxTime
                    /\ outcome' \in Reasons
                    /\ UNCHANGED <<created, batchState, batchModel, windowEnd, memberStatus,
                                   slotIndex, requestToBatch, activeBatchByModel, assignments>>
<1> USE DEF Reasons, AcceptReasons, RejectReasons, InjectedReasons, RetireReasons
<1>1. ASSUME NEW reason \in Reasons, Refuse(reason) PROVE Frame
  BY <1>1 DEF Refuse, IndInv, TypeOK
<1>2. ASSUME NEW r \in Requests, PlaceSelected(r)
      PROVE  Frame \/ \E b \in BatchId : Admits(r, b) /\ outcome' \in Reasons
  <2>1. CASE Refuse("injected_batch_admission_failure")
    BY <1>1, <2>1
  <2>2. CASE Verdict(r) \in RejectReasons /\ Refuse(Verdict(r))
    BY <1>1, <2>2
  <2>3. CASE Refuse("batch_creation_failure")
    BY <1>1, <2>3
  <2>4. CASE Verdict(r) = "new_batch" /\ AdmitToNewBatch(r) /\ AdmittedAnswer(r)
    <3>1. Admits(r, created + 1)
      BY <2>4, NewBatchAdmits
    <3>2. outcome' \in Reasons
      BY <2>4 DEF AdmittedAnswer
    <3> QED BY <3>1, <3>2 DEF Admits
  <2>5. CASE Verdict(r) = "batch_has_capacity" /\ AdmitToOpenBatch(r) /\ AdmittedAnswer(r)
    <3>1. Admits(r, FindAdmittableBatch(ModelOf[r]))
      BY <2>5, OpenBatchAdmits
    <3>2. outcome' \in Reasons
      BY <2>5 DEF AdmittedAnswer
    <3> QED BY <3>1, <3>2 DEF Admits
  <2> QED BY <1>2, <2>1, <2>2, <2>3, <2>4, <2>5 DEF PlaceSelected
<1>3. ASSUME NEW r \in Requests, NEW status \in {"completed", "failed", "cancelled"},
             RetireRequest(r, status)
      PROVE  Frame \/ (requestToBatch[r] # NoBatch /\ RetireRequest(r, status))
  <2>1. CASE requestToBatch[r] = NoBatch
    BY <1>1, <1>3, <2>1 DEF RetireRequest
  <2> QED BY <1>3, <2>1
<1>4. CASE Tick
  BY <1>4, BoundAssumption DEF Tick, IndInv, TypeOK
<1>5. CASE UNCHANGED vars
  BY <1>5 DEF vars, IndInv, TypeOK
<1>6. CASE \E r \in Requests : \/ PlaceSelected(r)
                              \/ CompleteRequest(r)
                              \/ FailRequest(r)
                              \/ CancelRequest(r)
  <2>1. PICK r \in Requests : \/ PlaceSelected(r)
                             \/ RetireRequest(r, "completed")
                             \/ RetireRequest(r, "failed")
                             \/ RetireRequest(r, "cancelled")
    BY <1>6 DEF CompleteRequest, FailRequest, CancelRequest
  <2>2. CASE PlaceSelected(r)
    BY <1>2, <2>2
  <2>3. CASE RetireRequest(r, "completed")
    BY <1>3, <2>3
  <2>4. CASE RetireRequest(r, "failed")
    BY <1>3, <2>4
  <2>5. CASE RetireRequest(r, "cancelled")
    BY <1>3, <2>5
  <2> QED BY <2>1, <2>2, <2>3, <2>4, <2>5
<1> QED BY <1>4, <1>5, <1>6 DEF Next

\* Every operation of the engine keeps the invariant.
LEMMA StepKeepsInv == IndInv /\ [Next]_vars => IndInv'
<1> SUFFICES ASSUME IndInv, [Next]_vars PROVE IndInv'
  OBVIOUS
<1>1. CASE /\ now' \in 0 .. MaxTime
           /\ outcome' \in Reasons
           /\ UNCHANGED <<created, batchState, batchModel, windowEnd, memberStatus,
                          slotIndex, requestToBatch, activeBatchByModel, assignments>>
  BY <1>1, FrameKeepsInv
<1>2. CASE \E r \in Requests : \E b \in BatchId : Admits(r, b) /\ outcome' \in Reasons
  BY <1>2, AdmissionKeepsInv
<1>3. CASE \E r \in Requests : \E status \in {"completed", "failed", "cancelled"} :
             requestToBatch[r] # NoBatch /\ RetireRequest(r, status)
  BY <1>3, RetirementKeepsInv
<1> QED BY <1>1, <1>2, <1>3, StepCases

\* The engine's dictionaries keep their types, and no batch rests in CREATED or
\* READY or is full while it is still filling, after any sequence of calls.
THEOREM TypeCorrect == Spec => [](TypeOK /\ BatchesWellFormed)
<1>1. IndInv => TypeOK /\ BatchesWellFormed
  BY DEF IndInv
<1> QED BY <1>1, InitEstablishesInv, StepKeepsInv, PTL DEF Spec

\* place_selected respects max_batch_size and max_active_requests, whatever the
\* limits, the clock, the injected failures and the order of calls.
THEOREM CapacityRespected ==
  Spec => [](BatchCapacityRespected /\ GlobalCapacityRespected)
<1>1. IndInv => BatchCapacityRespected /\ GlobalCapacityRespected
  BY DEF IndInv
<1> QED BY <1>1, InitEstablishesInv, StepKeepsInv, PTL DEF Spec

\* _next_slot_index never gives an active member's slot away and stays below
\* max_batch_size, although retirements leave gaps that later members fill.
THEOREM SlotsAreExclusive == Spec => []SlotsExclusive
<1>1. IndInv => SlotsExclusive
  BY DEF IndInv
<1> QED BY <1>1, InitEstablishesInv, StepKeepsInv, PTL DEF Spec

\* _active_batch_by_model names the one open batch of each model, so the pop
\* without a comparison in _complete_batch_locked and _fail_batch_locked is safe.
THEOREM IndexIsExact == Spec => []ActiveIndexExact
<1>1. IndInv => ActiveIndexExact
  BY DEF IndInv
<1> QED BY <1>1, InitEstablishesInv, StepKeepsInv, PTL DEF Spec

\* _request_to_batch, the member sets and _assignments agree, and active batches
\* have work, after any sequence of placements and retirements.
THEOREM MembershipIsConsistent == Spec => [](MembershipAgrees /\ ActiveBatchesBusy)
<1>1. IndInv => MembershipAgrees /\ ActiveBatchesBusy
  BY DEF IndInv
<1> QED BY <1>1, InitEstablishesInv, StepKeepsInv, PTL DEF Spec

\* No call revives a terminal batch or adds an active member to it.
THEOREM TerminalBatchesStayFrozen == Spec => TerminalBatchesFrozen
<1> DEFINE Frozen ==
      \A b \in BatchId :
        batchState[b] \in BATCH_TERMINAL_STATES =>
          /\ batchState'[b] = batchState[b]
          /\ \A r \in Requests :
               memberStatus[b][r] # "active" => memberStatus'[b][r] # "active"
<1>1. IndInv /\ [Next]_vars => Frozen
  <2> SUFFICES ASSUME IndInv, [Next]_vars,
                      NEW b \in BatchId, batchState[b] \in BATCH_TERMINAL_STATES
               PROVE  /\ batchState'[b] = batchState[b]
                      /\ \A q \in Requests :
                           memberStatus[b][q] # "active" => memberStatus'[b][q] # "active"
    OBVIOUS
  <2>1. CASE UNCHANGED <<batchState, memberStatus>>
    BY <2>1
  <2>2. ASSUME NEW r \in Requests, NEW c \in BatchId, Admits(r, c)
        PROVE  batchState'[b] = batchState[b] /\ memberStatus'[b] = memberStatus[b]
    <3>1. c # b
      BY <2>2 DEF Admits, BATCH_TERMINAL_STATES
    <3> QED BY <2>2, <3>1 DEF Admits, IndInv, TypeOK
  <2>3. ASSUME NEW r \in Requests, NEW status \in {"completed", "failed", "cancelled"},
               requestToBatch[r] # NoBatch, RetireRequest(r, status)
        PROVE  /\ batchState'[b] = batchState[b]
               /\ \A q \in Requests :
                    memberStatus[b][q] # "active" => memberStatus'[b][q] # "active"
    <3> DEFINE c == requestToBatch[r]
               next == StateAfterRetire(c, status, ActiveMembers(c) \ {r})
    <3>1. /\ batchState' = [batchState EXCEPT ![c] = next]
          /\ memberStatus' = [memberStatus EXCEPT ![c] = [@ EXCEPT ![r] = status]]
      BY <2>3 DEF RetireRequest
    <3>2. c = b => next = batchState[b]
      BY DEF StateAfterRetire, Open, BATCH_TERMINAL_STATES
    <3>3. c \in BatchId
      BY <2>3 DEF IndInv, TypeOK
    <3> HIDE DEF next
    <3> QED BY <3>1, <3>2, <3>3 DEF IndInv, TypeOK
  <2> QED BY <2>1, <2>2, <2>3, StepCases
<1>2. Spec => [][Frozen]_vars
  BY <1>1, InitEstablishesInv, StepKeepsInv, PTL DEF Spec
<1> QED BY <1>2 DEF TerminalBatchesFrozen

-----------------------------------------------------------------------------
(***************************************************************************)
(* The batching engine implements the slot pool: every behaviour of the    *)
(* engine, seen through the holders of its slots, is one of SlotPool.      *)
(***************************************************************************)


\* The engine's state as the pool sees it.
Holders == [s \in AllSlots |-> HolderOf(s)]
Served == {r \in Requests : requestToBatch[r] # NoBatch}

\* A slot is held by the one active member that has its index, if any.
LEMMA HolderIsMember ==
  ASSUME IndInv, NEW b \in BatchId, NEW i \in 0 .. MaxBatchSize - 1
  PROVE  /\ <<b, i>> \in AllSlots
         /\ \A r \in ActiveMembers(b) : slotIndex[b][r] = i => HolderOf(<<b, i>>) = r
         /\ (\A r \in ActiveMembers(b) : slotIndex[b][r] # i) => HolderOf(<<b, i>>) = Nobody
<1>1. <<b, i>> \in AllSlots
  BY DEF AllSlots
<1>2. SlotHolders(<<b, i>>) = {r \in ActiveMembers(b) : slotIndex[b][r] = i}
  BY DEF SlotHolders
<1>3. ASSUME NEW r \in ActiveMembers(b), slotIndex[b][r] = i
      PROVE  HolderOf(<<b, i>>) = r
  <2>1. SlotHolders(<<b, i>>) = {r}
    BY <1>2, <1>3 DEF IndInv, SlotsExclusive
  <2> QED BY <2>1 DEF HolderOf, Occupant
<1>4. ASSUME \A r \in ActiveMembers(b) : slotIndex[b][r] # i
      PROVE  HolderOf(<<b, i>>) = Nobody
  BY <1>2, <1>4 DEF HolderOf, Occupant
<1> QED BY <1>1, <1>3, <1>4

\* No more slots are held than there are active members.
LEMMA HeldIsBounded ==
  ASSUME IndInv, NEW b \in BatchId
  PROVE  LET Held == {s \in AllSlots : Holders[s] # Nobody} IN
         Cardinality(Held) \in Nat /\ Cardinality(Held) <= GlobalActiveCount
<1> DEFINE Held == {s \in AllSlots : Holders[s] # Nobody}
           f == [p \in ActivePairs |-> <<p[1], slotIndex[p[1]][p[2]]>>]
<1>1. ASSUME NEW p \in ActivePairs PROVE f[p] \in Held
  <2>1. PICK c \in BatchId, r \in Requests : p = <<c, r>> /\ memberStatus[c][r] = "active"
    BY DEF ActivePairs
  <2>2. r \in ActiveMembers(c)
    BY <2>1 DEF ActiveMembers
  <2>3. slotIndex[c][r] \in 0 .. MaxBatchSize - 1
    BY <2>2, ConfigAssumption DEF IndInv, TypeOK, SlotsExclusive
  <2>4. <<c, slotIndex[c][r]>> \in AllSlots /\ HolderOf(<<c, slotIndex[c][r]>>) = r
    BY <2>2, <2>3, HolderIsMember
  <2>5. f[p] = <<c, slotIndex[c][r]>>
    BY <2>1
  <2> QED BY <2>4, <2>5, InputAssumption DEF Holders
<1>2. ASSUME NEW s \in Held PROVE \E p \in ActivePairs : f[p] = s
  <2>1. PICK c \in BatchId, i \in 0 .. MaxBatchSize - 1 : s = <<c, i>>
    BY DEF AllSlots
  <2>2. PICK r \in ActiveMembers(c) : slotIndex[c][r] = i
    BY <2>1, HolderIsMember DEF Holders
  <2>3. <<c, r>> \in ActivePairs /\ f[<<c, r>>] = s
    BY <2>1, <2>2 DEF ActivePairs, ActiveMembers
  <2> QED BY <2>3
<1>3. f \in Surjection(ActivePairs, Held)
  <2>1. f \in [ActivePairs -> Held]
    BY <1>1
  <2> HIDE DEF f, Held
  <2> QED BY <1>2, <2>1, Fun_IsSurj
<1>4. IsFiniteSet(ActivePairs)
  BY Finiteness DEF IndInv
<1>5. IsFiniteSet(Held) /\ Cardinality(Held) <= Cardinality(ActivePairs)
  <2> HIDE DEF f, Held
  <2> QED BY <1>3, <1>4, FS_Surjection
<1> QED BY <1>5, FS_CardinalityType DEF GlobalActiveCount

\* The slots' holders only depend on the members and their slots.
LEMMA HolderFrame ==
  ASSUME NEW b \in BatchId, NEW i, ActiveMembers(b)' = ActiveMembers(b),
         \A r \in ActiveMembers(b) : slotIndex'[b][r] = slotIndex[b][r]
  PROVE  HolderOf(<<b, i>>)' = HolderOf(<<b, i>>)
<1>1. SlotHolders(<<b, i>>)' = SlotHolders(<<b, i>>)
  BY DEF SlotHolders
<1> QED BY <1>1 DEF HolderOf

\* In the step of an admission exactly the slot given to r changes hands.
LEMMA AdmissionAcquires ==
  ASSUME IndInv, IndInv', NEW r \in Requests, NEW b \in BatchId, Admits(r, b)
  PROVE  \E s \in AllSlots :
           /\ r \notin Served
           /\ Holders[s] = Nobody
           /\ Cardinality({t \in AllSlots : Holders[t] # Nobody}) < MaxActiveRequests
           /\ Holders' = [Holders EXCEPT ![s] = r]
           /\ Served' = Served \cup {r}
<1>1. PICK i \in Nat : i = NextSlotIndex(UsedSlots(b)) /\ i \notin UsedSlots(b)
  BY Finiteness, NextSlotIndexIsFree DEF IndInv
<1>2. /\ ActiveMembers(b)' = ActiveMembers(b) \cup {r}
      /\ \A c \in BatchId : c # b => ActiveMembers(c)' = ActiveMembers(c)
  BY DEF ActiveMembers, Admits, IndInv, TypeOK
<1>3. /\ slotIndex'[b][r] = i
      /\ \A q \in Requests : q # r => slotIndex'[b][q] = slotIndex[b][q]
      /\ \A c \in BatchId : c # b => slotIndex'[c] = slotIndex[c]
  BY <1>1 DEF Admits, IndInv, TypeOK
<1>4. r \notin ActiveMembers(b)
  BY DEF ActiveMembers, Admits, IndInv, MembershipAgrees, NoBatch, BatchId
<1>5. i \in 0 .. MaxBatchSize - 1
  <2>1. r \in ActiveMembers(b)'
    BY <1>2
  <2>2. slotIndex'[b][r] < MaxBatchSize
    BY <2>1 DEF IndInv, SlotsExclusive
  <2> QED BY <1>1, <1>3, <2>2, ConfigAssumption
<1>6. ActiveMembers(b) \subseteq Requests
  BY DEF ActiveMembers
<1>7. \A q \in ActiveMembers(b) : slotIndex[b][q] # i
  BY <1>1 DEF UsedSlots
<1>8. <<b, i>> \in AllSlots /\ Holders[<<b, i>>] = Nobody
  BY <1>5, <1>7, HolderIsMember DEF Holders
<1>9. HolderOf(<<b, i>>)' = r
  <2>1. SlotHolders(<<b, i>>)' = {r}
    BY <1>2, <1>3, <1>4, <1>6, <1>7 DEF SlotHolders
  <2> QED BY <2>1 DEF HolderOf, Occupant
<1>10. ASSUME NEW s \in AllSlots, s # <<b, i>> PROVE HolderOf(s)' = HolderOf(s)
  <2>1. PICK c \in BatchId, j \in 0 .. MaxBatchSize - 1 : s = <<c, j>>
    BY DEF AllSlots
  <2>2. CASE c # b
    BY <1>2, <1>3, <2>1, <2>2, HolderFrame
  <2>3. CASE c = b
    <3>1. SlotHolders(<<b, j>>)' = SlotHolders(<<b, j>>)
      BY <1>2, <1>3, <1>4, <1>6, <1>10, <2>1, <2>3 DEF SlotHolders
    <3> QED BY <2>1, <2>3, <3>1 DEF HolderOf
  <2> QED BY <2>2, <2>3
<1>11. Holders' = [Holders EXCEPT ![<<b, i>>] = r]
  <2>1. AllSlots' = AllSlots
    BY DEF AllSlots, BatchId
  <2>2. Holders' = [s \in AllSlots |-> HolderOf(s)']
    BY <2>1 DEF Holders
  <2> QED BY <1>8, <1>9, <1>10, <2>2 DEF Holders
<1>12. Cardinality({t \in AllSlots : Holders[t] # Nobody}) < MaxActiveRequests
  BY HeldIsBounded, Finiteness, ConfigAssumption DEF Admits, IndInv
<1>13. r \notin Served /\ Served' = Served \cup {r}
  BY DEF Served, Admits, IndInv, TypeOK, NoBatch, BatchId
<1> QED BY <1>8, <1>11, <1>12, <1>13

\* A retirement gives back the member's slot, or, when the member was retired
\* before, changes nothing the pool can see.
LEMMA RetirementReleases ==
  ASSUME IndInv, NEW r \in Requests, NEW status \in {"completed", "failed", "cancelled"},
         requestToBatch[r] # NoBatch, RetireRequest(r, status)
  PROVE  /\ Served' = Served
         /\ \/ Holders' = Holders
            \/ \E s \in AllSlots : /\ Holders[s] # Nobody
                                   /\ Holders' = [Holders EXCEPT ![s] = Nobody]
<1>1. PICK b \in BatchId : b = requestToBatch[r]
  BY DEF IndInv, TypeOK
<1>2. /\ memberStatus' = [memberStatus EXCEPT ![b] = [@ EXCEPT ![r] = status]]
      /\ UNCHANGED <<slotIndex, requestToBatch>>
  BY <1>1 DEF RetireRequest
<1>3. Served' = Served
  BY <1>2 DEF Served
<1>4. /\ ActiveMembers(b)' = ActiveMembers(b) \ {r}
      /\ \A c \in BatchId : c # b => ActiveMembers(c)' = ActiveMembers(c)
  BY <1>2 DEF ActiveMembers, IndInv, TypeOK
<1>5. Holders' = [s \in AllSlots |-> HolderOf(s)']
  BY DEF Holders, AllSlots, BatchId
<1>6. CASE r \notin ActiveMembers(b)
  <2>1. ASSUME NEW s \in AllSlots PROVE HolderOf(s)' = HolderOf(s)
    <3>1. PICK c \in BatchId, j \in 0 .. MaxBatchSize - 1 : s = <<c, j>>
      BY DEF AllSlots
    <3>2. ActiveMembers(c)' = ActiveMembers(c)
      BY <1>4, <1>6
    <3> QED BY <1>2, <3>1, <3>2, HolderFrame
  <2>2. Holders' = Holders
    BY <1>5, <2>1 DEF Holders
  <2> QED BY <1>3, <2>2
<1>7. CASE r \in ActiveMembers(b)
  <2>1. PICK i \in 0 .. MaxBatchSize - 1 : i = slotIndex[b][r]
    BY <1>7, ConfigAssumption DEF IndInv, TypeOK, SlotsExclusive
  <2>2. <<b, i>> \in AllSlots /\ Holders[<<b, i>>] = r
    BY <1>7, <2>1, HolderIsMember DEF Holders
  <2>3. \A q \in ActiveMembers(b) : slotIndex[b][q] = i => q = r
    BY <1>7, <2>1 DEF IndInv, SlotsExclusive
  <2>4. HolderOf(<<b, i>>)' = Nobody
    <3>1. SlotHolders(<<b, i>>)' = {}
      BY <1>2, <1>4, <2>3 DEF SlotHolders
    <3> QED BY <3>1 DEF HolderOf, Occupant
  <2>5. ASSUME NEW s \in AllSlots, s # <<b, i>> PROVE HolderOf(s)' = HolderOf(s)
    <3>1. PICK c \in BatchId, j \in 0 .. MaxBatchSize - 1 : s = <<c, j>>
      BY DEF AllSlots
    <3>2. CASE c # b
      BY <1>2, <1>4, <3>1, <3>2, HolderFrame
    <3>3. CASE c = b
      <4>1. SlotHolders(<<b, j>>)' = SlotHolders(<<b, j>>)
        BY <1>2, <1>4, <2>1, <2>5, <3>1, <3>3 DEF SlotHolders
      <4> QED BY <3>1, <3>3, <4>1 DEF HolderOf
    <3> QED BY <3>2, <3>3
  <2>6. Holders' = [Holders EXCEPT ![<<b, i>>] = Nobody]
    BY <1>5, <2>2, <2>4, <2>5 DEF Holders
  <2> QED BY <1>3, <2>2, <2>6, InputAssumption
<1> QED BY <1>6, <1>7

\* Placements and retirements are acquisitions and releases of slots: the
\* engine implements a pool of max_batch_size slots per batch of which at most
\* max_active_requests are held, for every value of the limits.
THEOREM EngineImplementsSlotPool == Spec => ImplementsSlotPool
<1>1. Init => Pool!Init
  <2> SUFFICES ASSUME Init PROVE Holders = [s \in AllSlots |-> Nobody] /\ Served = {}
    BY DEF Pool!Init, Holders, Served
  <2>1. ASSUME NEW s \in AllSlots PROVE HolderOf(s) = Nobody
    <3>1. SlotHolders(s) = {}
      BY DEF AllSlots, SlotHolders, ActiveMembers, Init
    <3> QED BY <3>1 DEF HolderOf, Occupant
  <2> QED BY <2>1 DEF Holders, Served, Init
<1>2. ASSUME IndInv, IndInv', [Next]_vars
      PROVE  [Pool!Next]_<<Holders, Served>>
  <2>1. CASE UNCHANGED <<memberStatus, slotIndex, requestToBatch>>
    <3>1. Served' = Served
      BY <2>1 DEF Served
    <3>2. ASSUME NEW s \in AllSlots PROVE HolderOf(s)' = HolderOf(s)
      BY <2>1, HolderFrame DEF AllSlots, ActiveMembers
    <3>3. Holders' = [s \in AllSlots |-> HolderOf(s)']
      BY DEF Holders, AllSlots, BatchId
    <3>4. Holders' = Holders
      BY <3>2, <3>3 DEF Holders
    <3> QED BY <3>1, <3>4
  <2>2. ASSUME NEW r \in Requests, NEW b \in BatchId, Admits(r, b)
        PROVE  Pool!Next
    <3>1. \A S : Pool!Cardinality(S) = Cardinality(S)
      BY DEF Pool!Cardinality, Cardinality
    <3> QED
      BY <1>2, <2>2, <3>1, AdmissionAcquires
      DEF Pool!Next, Pool!Acquire, Pool!Held, Holders, Served
  <2>3. ASSUME NEW r \in Requests, NEW status \in {"completed", "failed", "cancelled"},
               requestToBatch[r] # NoBatch, RetireRequest(r, status)
        PROVE  [Pool!Next]_<<Holders, Served>>
    BY <1>2, <2>3, RetirementReleases
    DEF Pool!Next, Pool!Release, Holders, Served
  <2> QED BY <1>2, <2>1, <2>2, <2>3, StepCases
<1>3. QED
  BY <1>1, <1>2, InitEstablishesInv, StepKeepsInv, PTL
  DEF Spec, ImplementsSlotPool, Pool!Spec, Holders, Served
=============================================================================
