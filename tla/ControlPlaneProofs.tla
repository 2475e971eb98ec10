------------------------- MODULE ControlPlaneProofs -------------------------
(***************************************************************************)
(* Theorems about the control plane, for any set of requests, any queue    *)
(* limits and any registry size.                                           *)
(***************************************************************************)
EXTENDS ControlPlane, FiniteSetTheorems, FunctionTheorems, SequenceTheorems, TLAPS

-----------------------------------------------------------------------------
(***************************************************************************)
(* Dropping items from a sequence.                                         *)
(***************************************************************************)

\* Counting the members of a finite set of numbers up to one of them is strictly
\* monotone and reaches every count: the comprehension of the waiting queue
\* visits the items it keeps in order and each one once.
LEMMA RankIsMonotone ==
  ASSUME NEW kept \in SUBSET Nat, IsFiniteSet(kept),
         NEW a \in kept, NEW b \in kept, a < b
  PROVE  /\ Cardinality({j \in kept : j <= a}) \in 1 .. Cardinality(kept)
         /\ Cardinality({j \in kept : j <= b}) \in 1 .. Cardinality(kept)
         /\ Cardinality({j \in kept : j <= a}) < Cardinality({j \in kept : j <= b})
<1> DEFINE A == {j \in kept : j <= a}
           B == {j \in kept : j <= b}
<1>0. a \in Nat /\ b \in Nat /\ \A j \in kept : j \in Nat
  OBVIOUS
<1>1. A \in SUBSET B /\ B \in SUBSET kept /\ A \in SUBSET kept
  <2>1. \A j \in A : j \in B
    BY <1>0
  <2> QED BY <2>1
<1>2. a \in A /\ b \in B /\ b \notin A
  OBVIOUS
<1> HIDE DEF A, B
<1>3. IsFiniteSet(A) /\ IsFiniteSet(B)
  BY <1>1, FS_Subset
<1>4. Cardinality(A) <= Cardinality(B) /\ (Cardinality(B) = Cardinality(A) => A = B)
  BY <1>1, <1>3, FS_Subset
<1>5. Cardinality(B) <= Cardinality(kept) /\ Cardinality(A) <= Cardinality(kept)
  BY <1>1, FS_Subset
<1>6. Cardinality(A) # 0
  BY <1>2, <1>3, FS_EmptySet
<1>7. Cardinality(A) \in Nat /\ Cardinality(B) \in Nat /\ Cardinality(kept) \in Nat
  BY <1>3, FS_CardinalityType
<1>8. Cardinality(A) # Cardinality(B)
  BY <1>2, <1>4
<1>9. /\ Cardinality(A) \in 1 .. Cardinality(kept)
      /\ Cardinality(B) \in 1 .. Cardinality(kept)
      /\ Cardinality(A) < Cardinality(B)
  BY <1>4, <1>5, <1>6, <1>7, <1>8
<1> QED BY <1>9 DEF A, B

\* The rank of any kept index is one of 1 .. |kept|.
LEMMA RankInRange ==
  ASSUME NEW kept \in SUBSET Nat, IsFiniteSet(kept), NEW a \in kept
  PROVE  Cardinality({j \in kept : j <= a}) \in 1 .. Cardinality(kept)
<1> DEFINE A == {j \in kept : j <= a}
<1>1. A \in SUBSET kept /\ a \in A
  OBVIOUS
<1> HIDE DEF A
<1>2. IsFiniteSet(A) /\ Cardinality(A) <= Cardinality(kept)
  BY <1>1, FS_Subset
<1>3. Cardinality(A) # 0
  BY <1>1, <1>2, FS_EmptySet
<1>4. Cardinality(A) \in Nat /\ Cardinality(kept) \in Nat
  BY <1>2, FS_CardinalityType
<1>5. Cardinality(A) \in 1 .. Cardinality(kept)
  BY <1>2, <1>3, <1>4
<1> QED BY <1>5 DEF A

\* Every count up to |kept| is the rank of some kept index.
LEMMA RankIsOnto ==
  ASSUME NEW kept \in SUBSET Nat, IsFiniteSet(kept), NEW k \in 1 .. Cardinality(kept)
  PROVE  \E i \in kept : Cardinality({j \in kept : j <= i}) = k
<1> DEFINE n == Cardinality(kept)
           rank == [i \in kept |-> Cardinality({j \in kept : j <= i})]
<1>1. n \in Nat
  BY FS_CardinalityType
<1>2. rank \in [kept -> 1 .. n]
  BY RankInRange
<1>3. \A a, b \in kept : rank[a] = rank[b] => a = b
  <2> SUFFICES ASSUME NEW a \in kept, NEW b \in kept, a # b
               PROVE  rank[a] # rank[b]
    BY Zenon
  <2>1. a \in Nat /\ b \in Nat
    OBVIOUS
  <2>2. CASE a < b
    BY <2>2, <1>1, RankIsMonotone
  <2>3. CASE b < a
    BY <2>3, <1>1, RankIsMonotone
  <2> QED BY <2>1, <2>2, <2>3
<1> HIDE DEF rank
<1>4. rank \in Injection(kept, 1 .. n)
  BY <1>2, <1>3, Fun_IsInj
<1>5. IsFiniteSet(1 .. n) /\ Cardinality(1 .. n) = n
  BY <1>1, FS_Interval
<1>6. rank \in Surjection(kept, 1 .. n)
  BY <1>4, <1>5, FS_Injection
<1>7. \E i \in kept : rank[i] = k
  BY <1>6 DEF Surjection
<1> QED BY <1>7 DEF rank

\* A filtered queue is a sub-sequence: there is a strictly increasing map from
\* its places to the kept places of the queue, and it reaches each of them.
LEMMA ItemsAtIsSubsequence ==
  ASSUME NEW T, NEW q \in Seq(T), NEW kept \in SUBSET DOMAIN q
  PROVE  /\ ItemsAt(q, kept) \in Seq(T)
         /\ Len(ItemsAt(q, kept)) <= Len(q)
         /\ \E f \in [DOMAIN ItemsAt(q, kept) -> kept] :
              /\ \A k \in DOMAIN ItemsAt(q, kept) : ItemsAt(q, kept)[k] = q[f[k]]
              /\ \A k, l \in DOMAIN ItemsAt(q, kept) : k < l => f[k] < f[l]
              /\ \A i \in kept : \E k \in DOMAIN ItemsAt(q, kept) : f[k] = i
<1> DEFINE n == Cardinality(kept)
           Rank(i) == Cardinality({j \in kept : j <= i})
           Nth(k) == CHOOSE i \in kept : Rank(i) = k
           f == [k \in 1 .. n |-> Nth(k)]
           t == [k \in 1 .. n |-> q[Nth(k)]]
<1>1. Len(q) \in Nat /\ DOMAIN q = 1 .. Len(q) /\ \A i \in DOMAIN q : q[i] \in T
  BY LenProperties
<1>2. IsFiniteSet(1 .. Len(q)) /\ Cardinality(1 .. Len(q)) = Len(q)
  <2>1. /\ IsFiniteSet(1 .. Len(q))
        /\ Cardinality(1 .. Len(q)) = IF 1 > Len(q) THEN 0 ELSE Len(q) - 1 + 1
    BY <1>1, 1 \in Int, Len(q) \in Int, FS_Interval, Zenon
  <2> QED BY <1>1, <2>1
<1>3. IsFiniteSet(kept) /\ n <= Len(q)
  BY <1>1, <1>2, FS_Subset
<1>4. kept \in SUBSET Nat /\ n \in Nat
  BY <1>1, <1>3, FS_CardinalityType
<1>5. ASSUME NEW k \in 1 .. n PROVE Nth(k) \in kept /\ Rank(Nth(k)) = k
  BY <1>3, <1>4, RankIsOnto
<1>6. \A i \in kept : Rank(i) \in 1 .. n
  BY <1>3, <1>4, RankInRange
<1>7. \A a, b \in kept : a < b => Rank(a) < Rank(b)
  BY <1>3, <1>4, RankIsMonotone
<1>8. ItemsAt(q, kept) = t
  BY DEF ItemsAt
<1> HIDE DEF Rank, Nth
<1>9. t \in [1 .. n -> T]
  BY <1>1, <1>5
<1>10. t \in Seq(T) /\ Len(t) = n /\ DOMAIN t = 1 .. n
  <2>1. t \in Seq(T)
    BY <1>4, <1>9, SeqDef
  <2>2. DOMAIN t = 1 .. n
    OBVIOUS
  <2> HIDE DEF t
  <2>3. Len(t) \in Nat /\ DOMAIN t = 1 .. Len(t)
    BY <2>1, LenProperties
  <2> QED BY <1>4, <2>1, <2>2, <2>3
<1>11. f \in [1 .. n -> kept] /\ \A k \in 1 .. n : t[k] = q[f[k]]
  BY <1>5
<1>12. ASSUME NEW k \in 1 .. n, NEW l \in 1 .. n, k < l PROVE f[k] < f[l]
  <2>1. Nth(k) \in kept /\ Nth(l) \in kept /\ Rank(Nth(k)) = k /\ Rank(Nth(l)) = l
    BY <1>5
  <2>2. ~(Nth(l) < Nth(k))
    BY <2>1, <1>7, <1>12, <1>4
  <2>3. Nth(l) # Nth(k)
    BY <2>1, <1>12, <1>4
  <2> QED BY <2>1, <2>2, <2>3, <1>4
<1>13. ASSUME NEW i \in kept PROVE \E k \in 1 .. n : f[k] = i
  <2> DEFINE k == Rank(i)
  <2>1. k \in 1 .. n
    BY <1>6
  <2>2. Nth(k) \in kept /\ Rank(Nth(k)) = k
    BY <2>1, <1>5
  <2>3. ~(Nth(k) < i) /\ ~(i < Nth(k))
    BY <2>1, <2>2, <1>7, <1>4
  <2>4. Nth(k) = i
    BY <2>2, <2>3, <1>4
  <2> QED BY <2>1, <2>4
<1> HIDE DEF f, t, n
<1>14. t \in Seq(T) /\ Len(t) <= Len(q)
  BY <1>3, <1>10
<1>15. /\ f \in [DOMAIN t -> kept]
       /\ \A k \in DOMAIN t : t[k] = q[f[k]]
       /\ \A k, l \in DOMAIN t : k < l => f[k] < f[l]
       /\ \A i \in kept : \E k \in DOMAIN t : f[k] = i
  <2>1. DOMAIN t = 1 .. n
    BY <1>10
  <2> QED BY <2>1, <1>11, <1>12, <1>13, Zenon
<1> QED BY <1>8, <1>14, <1>15, Zenon

-----------------------------------------------------------------------------
(***************************************************************************)
(* The inductive invariant.                                                *)
(***************************************************************************)

Items == [id : Requests, entered : 0 .. MaxTime]

\* The items of a queue are distinct requests in order of arrival.
InOrder(q) ==
  \A i, j \in DOMAIN q :
    i < j => /\ q[i].id # q[j].id
             /\ q[i].entered <= q[j].entered

\* t is q with items dropped: f maps the places of t to places of q.
DropsItems(t, q) ==
  \E f \in [DOMAIN t -> DOMAIN q] :
    /\ \A k \in DOMAIN t : t[k] = q[f[k]]
    /\ \A k, l \in DOMAIN t : k < l => f[k] < f[l]

\* What holds of the queue alone; arrival times lie in the past, so that an
\* item appended now is the latest.
QueueInv ==
  /\ Len(queue) <= MaxQueueSize
  /\ InOrder(queue)
  /\ \A i \in DOMAIN queue : position[queue[i].id] = i
  /\ \A i \in DOMAIN queue : queue[i].entered <= now

\* The request whose enqueue holds the event loop is the one that is ADMITTED.
EnqueuingIsAdmitted ==
  \A r \in Requests : state[r] = "admitted" <=> enqueuing = r

Inv ==
  /\ TypeOK
  /\ QueueInv
  /\ FailureRecordAgrees
  /\ WaitingWasAdmitted
  /\ EnqueuingIsAdmitted

\* The transition table leads out of no terminal state and only to states of
\* a registered request.
LEMMA TableLeavesOnlyWork ==
  ASSUME NEW s \in RequestState \cup {"unregistered"}, NEW to,
         IsAllowedTransition(s, to)
  PROVE  /\ s \notin TerminalStates
         /\ s # "unregistered"
         /\ to \in RequestState
<1>1. s \notin TerminalStates /\ s # "unregistered"
  BY DEF IsAllowedTransition, AllowedTargets, TerminalStates
<1>2. to \in RequestState
  BY <1>1 DEF IsAllowedTransition, AllowedTargets, RequestState, TerminalStates
<1> QED BY <1>1, <1>2

\* Dropping items keeps a queue within its bound and in order, and brings
\* nobody in.
LEMMA DroppedKeepsOrder ==
  ASSUME NEW q \in Seq(Items), NEW t \in Seq(Items), DropsItems(t, q), InOrder(q)
  PROVE  /\ InOrder(t)
         /\ \A k \in DOMAIN t : \E i \in DOMAIN q : t[k] = q[i]
<1>1. PICK f \in [DOMAIN t -> DOMAIN q] :
        /\ \A k \in DOMAIN t : t[k] = q[f[k]]
        /\ \A k, l \in DOMAIN t : k < l => f[k] < f[l]
  BY DEF DropsItems
<1>2. InOrder(t)
  BY <1>1 DEF InOrder
<1> QED BY <1>1, <1>2

\* What is left of the queue when some items are dropped.
LEMMA KeptDrops ==
  ASSUME TypeOK, NEW kept \in SUBSET DOMAIN queue
  PROVE  /\ ItemsAt(queue, kept) \in Seq(Items)
         /\ Len(ItemsAt(queue, kept)) \in Nat
         /\ Len(ItemsAt(queue, kept)) <= Len(queue)
         /\ DropsItems(ItemsAt(queue, kept), queue)
<1> DEFINE t == ItemsAt(queue, kept)
<1>1. queue \in Seq(Items)
  BY DEF TypeOK, Items
<1>2. /\ t \in Seq(Items)
      /\ Len(t) <= Len(queue)
      /\ \E f \in [DOMAIN t -> kept] :
           /\ \A k \in DOMAIN t : t[k] = queue[f[k]]
           /\ \A k, l \in DOMAIN t : k < l => f[k] < f[l]
  BY <1>1, ItemsAtIsSubsequence
<1> HIDE DEF t
<1>3. DropsItems(t, queue)
  BY <1>2 DEF DropsItems
<1>4. Len(t) \in Nat
  BY <1>2, LenProperties
<1> QED BY <1>2, <1>3, <1>4 DEF t

\* What an expiry leaves of the queue.
LEMMA RemainingDrops ==
  ASSUME TypeOK
  PROVE  /\ Remaining \in Seq(Items)
         /\ Len(Remaining) \in Nat
         /\ Len(Remaining) <= Len(queue)
         /\ DropsItems(Remaining, queue)
BY KeptDrops DEF Remaining

\* What dequeue_next leaves of the queue.
LEMMA DequeuedDrops ==
  ASSUME TypeOK, NEW t, t = IF Remaining = <<>> THEN <<>> ELSE Tail(Remaining)
  PROVE  /\ t \in Seq(Items)
         /\ Len(t) <= Len(queue)
         /\ DropsItems(t, queue)
<1>1. queue \in Seq(Items) /\ Len(queue) \in Nat
  BY LenProperties DEF TypeOK, Items
<1>2. /\ Remaining \in Seq(Items) /\ Len(Remaining) \in Nat
      /\ Len(Remaining) <= Len(queue) /\ DropsItems(Remaining, queue)
  BY RemainingDrops
<1>3. CASE Remaining = <<>>
  BY <1>2, <1>3
<1>4. CASE Remaining # <<>>
  <2>1. /\ t \in Seq(Items)
        /\ Len(t) = Len(Remaining) - 1
        /\ \A i \in 1 .. Len(t) : t[i] = Remaining[i + 1]
    BY <1>2, <1>4, HeadTailProperties
  <2>2. DOMAIN t = 1 .. Len(Remaining) - 1 /\ DOMAIN Remaining = 1 .. Len(Remaining)
    BY <1>2, <2>1, LenProperties
  <2>3. PICK f \in [DOMAIN Remaining -> DOMAIN queue] :
          /\ \A k \in DOMAIN Remaining : Remaining[k] = queue[f[k]]
          /\ \A k, l \in DOMAIN Remaining : k < l => f[k] < f[l]
    BY <1>2 DEF DropsItems
  <2> DEFINE g == [k \in DOMAIN t |-> f[k + 1]]
  <2>4. \A k \in DOMAIN t : k \in Int /\ k + 1 \in DOMAIN Remaining
    BY <1>2, <2>2
  <2>5. g \in [DOMAIN t -> DOMAIN queue]
    BY <2>3, <2>4
  <2>6. \A k \in DOMAIN t : t[k] = queue[g[k]]
    BY <2>1, <2>2, <2>3, <2>4, <1>2
  <2>7. \A k, l \in DOMAIN t : k < l => g[k] < g[l]
    BY <2>3, <2>4
  <2> HIDE DEF g
  <2>8. DropsItems(t, queue)
    BY <2>5, <2>6, <2>7 DEF DropsItems
  <2> QED BY <1>1, <1>2, <2>1, <2>8
<1> QED BY <1>3, <1>4

\* _reindex_positions numbers the waiting entries by their place.
LEMMA ReindexedIsPlace ==
  ASSUME TypeOK, NEW q \in Seq(Items), InOrder(q)
  PROVE  /\ Reindexed(q) \in [Requests -> Nat]
         /\ \A i \in DOMAIN q : Reindexed(q)[q[i].id] = i
<1>1. Len(q) \in Nat /\ DOMAIN q = 1 .. Len(q) /\ \A i \in DOMAIN q : q[i] \in Items
  BY LenProperties
<1>2. \A i \in DOMAIN q : q[i].id \in Requests
  BY <1>1 DEF Items
<1>3. Reindexed(q) \in [Requests -> Nat]
  BY <1>1 DEF Reindexed, TypeOK
<1>4. ASSUME NEW i \in DOMAIN q PROVE Reindexed(q)[q[i].id] = i
  <2> DEFINE j == CHOOSE k \in DOMAIN q : q[k].id = q[i].id
  <2>1. Reindexed(q)[q[i].id] = j
    BY <1>2 DEF Reindexed
  <2>2. j \in DOMAIN q /\ q[j].id = q[i].id
    OBVIOUS
  <2> HIDE DEF j
  <2>3. ~(i < j) /\ ~(j < i)
    BY <2>2 DEF InOrder
  <2>4. i \in Nat /\ j \in Nat
    BY <1>1, <2>2
  <2> QED BY <2>1, <2>3, <2>4
<1> QED BY <1>3, <1>4

\* A step that only drops items keeps what holds of the queue and lets nobody
\* into it.
LEMMA DroppingKeepsQueue ==
  ASSUME TypeOK, QueueInv, now' = now,
         NEW t \in Seq(Items), Len(t) <= Len(queue), DropsItems(t, queue),
         SetQueue(t)
  PROVE  /\ queue' \in Seq(Items)
         /\ position' \in [Requests -> Nat]
         /\ QueueInv'
         /\ Waiting' \subseteq Waiting
<1>1. queue \in Seq(Items) /\ Len(queue) \in Nat /\ Len(t) \in Nat
  BY LenProperties DEF TypeOK, Items
<1>2. InOrder(t) /\ \A k \in DOMAIN t : \E i \in DOMAIN queue : t[k] = queue[i]
  BY <1>1, DroppedKeepsOrder DEF QueueInv
<1>3. queue' = t /\ position' = Reindexed(t)
  BY DEF SetQueue
<1>4. /\ Reindexed(t) \in [Requests -> Nat]
      /\ \A i \in DOMAIN t : Reindexed(t)[t[i].id] = i
  BY <1>2, ReindexedIsPlace
<1>5. Waiting' \subseteq Waiting
  BY <1>2, <1>3 DEF Waiting
<1>6. \A k \in DOMAIN t : t[k].entered <= now
  BY <1>2 DEF QueueInv
<1>7. Len(t) <= MaxQueueSize
  BY <1>1, QueueConfigAssumption DEF QueueInv
<1>8. InOrder(queue)' <=> InOrder(t)
  BY <1>3 DEF InOrder
<1>9. QueueInv'
  BY <1>2, <1>3, <1>4, <1>6, <1>7, <1>8 DEF QueueInv
<1> QED BY <1>3, <1>4, <1>5, <1>9

\* Appending a request that does not wait yet keeps what holds of the queue:
\* there is room once the expired items are gone, and no item is later.
LEMMA EnqueueKeepsQueue ==
  ASSUME TypeOK, QueueInv, WaitingWasAdmitted, NEW r \in Requests, Enqueue(r)
  PROVE  /\ queue' \in Seq(Items)
         /\ position' \in [Requests -> Nat]
         /\ QueueInv'
         /\ Waiting' \subseteq Waiting \cup {r}
         /\ r \notin Waiting
<1> DEFINE item == [id |-> r, entered |-> now]
           t == Append(Remaining, item)
<1>1. queue \in Seq(Items) /\ Len(queue) \in Nat /\ item \in Items
  BY LenProperties DEF TypeOK, Items
<1>2. /\ Remaining \in Seq(Items) /\ Len(Remaining) \in Nat
      /\ DropsItems(Remaining, queue)
  BY RemainingDrops
<1>3. /\ InOrder(Remaining)
      /\ \A k \in DOMAIN Remaining : \E i \in DOMAIN queue : Remaining[k] = queue[i]
  BY <1>1, <1>2, DroppedKeepsOrder DEF QueueInv
<1>4. DOMAIN Remaining = 1 .. Len(Remaining)
  BY <1>2, LenProperties
<1>5. r \notin Waiting
  BY DEF Enqueue, WaitingWasAdmitted
<1>6. \A k \in DOMAIN Remaining : /\ Remaining[k].id # r
                                  /\ Remaining[k].entered <= now
  BY <1>3, <1>5 DEF Waiting, QueueInv
<1>7. /\ t \in Seq(Items)
      /\ Len(t) = Len(Remaining) + 1
      /\ \A i \in 1 .. Len(Remaining) : t[i] = Remaining[i]
      /\ t[Len(Remaining) + 1] = item
      /\ DOMAIN t = 1 .. Len(Remaining) + 1
  <2> HIDE DEF item
  <2>1. /\ t \in Seq(Items)
        /\ Len(t) = Len(Remaining) + 1
        /\ \A i \in 1 .. Len(Remaining) : t[i] = Remaining[i]
        /\ t[Len(Remaining) + 1] = item
    BY <1>1, <1>2, AppendProperties
  <2> QED BY <2>1, LenProperties
<1>8. queue' = t /\ position' = Reindexed(t) /\ now' = now
  BY DEF Enqueue, SetQueue, Enqueued
<1> HIDE DEF t
<1>9. Len(t) <= MaxQueueSize
  BY <1>2, <1>7, QueueConfigAssumption DEF Enqueue, QueueHasRoom
<1>10. InOrder(t)
  <2> SUFFICES ASSUME NEW i \in DOMAIN t, NEW j \in DOMAIN t, i < j
               PROVE  t[i].id # t[j].id /\ t[i].entered <= t[j].entered
    BY DEF InOrder
  <2>1. i \in DOMAIN Remaining /\ t[i] = Remaining[i]
    BY <1>2, <1>4, <1>7
  <2>2. CASE j \in DOMAIN Remaining
    <3>1. t[j] = Remaining[j]
      BY <2>2, <1>4, <1>7
    <3> QED BY <1>3, <2>1, <2>2, <3>1 DEF InOrder
  <2>3. CASE j \notin DOMAIN Remaining
    <3>1. j = Len(Remaining) + 1
      BY <2>3, <1>2, <1>4, <1>7
    <3>2. t[j].id = r /\ t[j].entered = now
      BY <3>1, <1>7
    <3> QED BY <1>6, <2>1, <3>2
  <2> QED BY <2>2, <2>3
<1>11. \A k \in DOMAIN t : /\ t[k].entered <= now
                            /\ t[k].id \in Waiting \cup {r}
  <2> SUFFICES ASSUME NEW k \in DOMAIN t
               PROVE  t[k].entered <= now /\ t[k].id \in Waiting \cup {r}
    OBVIOUS
  <2>1. CASE k \in DOMAIN Remaining
    <3>1. t[k] = Remaining[k]
      BY <2>1, <1>4, <1>7
    <3> QED BY <2>1, <3>1, <1>3, <1>6 DEF Waiting
  <2>2. CASE k \notin DOMAIN Remaining
    <3>1. k = Len(Remaining) + 1
      BY <2>2, <1>2, <1>4, <1>7
    <3>2. t[k].id = r /\ t[k].entered = now /\ now \in Int
      BY <3>1, <1>7 DEF TypeOK
    <3> QED BY <3>2
  <2> QED BY <2>1, <2>2
<1>12. /\ Reindexed(t) \in [Requests -> Nat]
       /\ \A i \in DOMAIN t : Reindexed(t)[t[i].id] = i
  BY <1>7, <1>10, ReindexedIsPlace
<1>13. InOrder(queue)'
  BY <1>8, <1>10 DEF InOrder
<1>14. QueueInv'
  BY <1>8, <1>9, <1>11, <1>12, <1>13 DEF QueueInv
<1>15. Waiting' \subseteq Waiting \cup {r}
  BY <1>8, <1>11 DEF Waiting
<1> QED BY <1>5, <1>7, <1>8, <1>12, <1>14, <1>15

\* process_timeouts writes TIMED_OUT and its reason together.
LEMMA TimeoutsKeepRecords ==
  ASSUME TypeOK, FailureRecordAgrees
  PROVE  /\ TimedOutStates(state) \in [Requests -> RequestState \cup {"unregistered"}]
         /\ TimedOutFailures(failure) \in [Requests -> FailureReasons]
         /\ \A r \in Requests :
              IF r \in ExpiredIds
              THEN /\ TimedOutStates(state)[r] = "timed_out"
                   /\ TimedOutFailures(failure)[r] = "queue_timeout"
              ELSE /\ TimedOutStates(state)[r] = state[r]
                   /\ TimedOutFailures(failure)[r] = failure[r]
BY DEF TypeOK, TimedOutStates, TimedOutFailures, RequestState, TerminalStates, FailureReasons

\* State s and failure reason f tell the same story about a request.
RecordMatches(s, f) ==
  /\ s = "timed_out" <=> f = "queue_timeout"
  /\ s = "rejected" <=> f = "queue_full"
  /\ s = "failed" <=> f = "internal_error"

\* Writing one registry entry keeps the invariant when the pair written agrees
\* and a waiting request is not thrown back before its admission.
LEMMA RecordKeepsInv ==
  ASSUME Inv, LoopFree, NEW r \in Requests,
         NEW s \in RequestState, NEW f \in FailureReasons,
         RecordMatches(s, f), s # "admitted",
         r \in Waiting => s \notin {"received", "validated", "rejected"},
         Record(r, s, f)
  PROVE  Inv'
<1> USE DEF Record
<1>1. TypeOK /\ QueueInv /\ FailureRecordAgrees /\ WaitingWasAdmitted /\ EnqueuingIsAdmitted
  BY DEF Inv
<1>2. TypeOK'
  BY <1>1 DEF TypeOK
<1>3. QueueInv'
  BY <1>1 DEF QueueInv, InOrder
<1>4. FailureRecordAgrees'
  BY <1>1 DEF FailureRecordAgrees, RecordMatches, TypeOK
<1>5. WaitingWasAdmitted'
  <2>1. Waiting' = Waiting /\ enqueuing' = enqueuing
    BY DEF Waiting
  <2>2. "unregistered" \notin RequestState
    BY DEF RequestState, TerminalStates
  <2> QED BY <1>1, <2>1, <2>2 DEF WaitingWasAdmitted, TypeOK
<1>6. EnqueuingIsAdmitted'
  BY <1>1, RequestsAssumption DEF EnqueuingIsAdmitted, TypeOK, LoopFree
<1> QED BY <1>2, <1>3, <1>4, <1>5, <1>6 DEF Inv

\* A step that drops items and marks the expired ones keeps the invariant; r is
\* a request that registers in the same step, if there is one.
LEMMA TimeoutStepKeepsInv ==
  ASSUME Inv, LoopFree, SetQueue(Remaining), UNCHANGED <<now, enqueuing>>,
         failure' = TimedOutFailures(failure),
         \/ state' = TimedOutStates(state)
         \/ \E r \in Requests \ Registered :
              state' = [TimedOutStates(state) EXCEPT ![r] = "validated"]
  PROVE  Inv'
<1>1. TypeOK /\ QueueInv /\ FailureRecordAgrees /\ WaitingWasAdmitted /\ EnqueuingIsAdmitted
  BY DEF Inv
<1>2. /\ Remaining \in Seq(Items) /\ Len(Remaining) <= Len(queue)
      /\ DropsItems(Remaining, queue)
  BY <1>1, RemainingDrops
<1>3. /\ queue' \in Seq(Items)
      /\ position' \in [Requests -> Nat]
      /\ QueueInv'
      /\ Waiting' \subseteq Waiting
  <2>1. now' = now
    OBVIOUS
  <2> QED BY <1>1, <1>2, <2>1, DroppingKeepsQueue
<1>4. ExpiredIds \subseteq Waiting /\ Waiting \subseteq Requests
  <2>1. queue \in Seq(Items)
    BY <1>1 DEF TypeOK, Items
  <2>2. \A i \in DOMAIN queue : queue[i] \in Items
    BY <2>1, LenProperties
  <2>3. \A i \in DOMAIN queue : queue[i].id \in Requests
    BY <2>2 DEF Items
  <2> QED BY <2>3 DEF ExpiredIds, Waiting
<1>5. /\ TimedOutStates(state) \in [Requests -> RequestState \cup {"unregistered"}]
      /\ failure' \in [Requests -> FailureReasons]
      /\ \A r \in Requests :
           IF r \in ExpiredIds
           THEN /\ TimedOutStates(state)[r] = "timed_out"
                /\ failure'[r] = "queue_timeout"
           ELSE /\ TimedOutStates(state)[r] = state[r]
                /\ failure'[r] = failure[r]
  BY <1>1, TimeoutsKeepRecords
<1>6. \A r \in Waiting : r \in Registered
  BY <1>1, <1>4 DEF WaitingWasAdmitted, Registered
<1>7. /\ state' \in [Requests -> RequestState \cup {"unregistered"}]
      /\ \A r \in Requests :
           \/ r \in ExpiredIds /\ state'[r] = "timed_out" /\ failure'[r] = "queue_timeout"
           \/ state'[r] = state[r] /\ failure'[r] = failure[r]
           \/ /\ state[r] = "unregistered" /\ state'[r] = "validated"
              /\ failure'[r] = failure[r] /\ r \notin Waiting
  <2>1. CASE state' = TimedOutStates(state)
    BY <1>5, <2>1
  <2>2. ASSUME NEW r \in Requests \ Registered,
               state' = [TimedOutStates(state) EXCEPT ![r] = "validated"]
        PROVE  <1>7
    <3>1. r \notin Waiting /\ r \notin ExpiredIds /\ state[r] = "unregistered"
      BY <1>4, <1>6 DEF Registered
    <3>2. "validated" \in RequestState
      BY DEF RequestState
    <3> QED BY <1>5, <2>2, <3>1, <3>2
  <2> QED BY <2>1, <2>2
<1>8. TypeOK'
  BY <1>1, <1>3, <1>5, <1>7 DEF TypeOK, Items
<1>9. FailureRecordAgrees'
  BY <1>1, <1>5, <1>7 DEF FailureRecordAgrees
<1>10. WaitingWasAdmitted'
  BY <1>1, <1>3, <1>4, <1>7 DEF WaitingWasAdmitted
<1>11. EnqueuingIsAdmitted'
  BY <1>1, <1>7, RequestsAssumption DEF EnqueuingIsAdmitted, LoopFree
<1> QED BY <1>3, <1>8, <1>9, <1>10, <1>11 DEF Inv

\* A step that drops items and touches no entry keeps the invariant: no waiting
\* request loses its admission because others leave.
LEMMA DropStepKeepsInv ==
  ASSUME Inv, NEW t \in Seq(Items), Len(t) <= Len(queue), DropsItems(t, queue),
         SetQueue(t), UNCHANGED <<now, state, failure, enqueuing>>
  PROVE  Inv'
<1>1. TypeOK /\ QueueInv /\ FailureRecordAgrees /\ WaitingWasAdmitted /\ EnqueuingIsAdmitted
  BY DEF Inv
<1>2. /\ queue' \in Seq(Items)
      /\ position' \in [Requests -> Nat]
      /\ QueueInv'
      /\ Waiting' \subseteq Waiting
  <2>1. now' = now
    OBVIOUS
  <2> QED BY <1>1, <2>1, DroppingKeepsQueue
<1>3. TypeOK'
  BY <1>1, <1>2 DEF TypeOK, Items
<1>4. FailureRecordAgrees' /\ EnqueuingIsAdmitted'
  BY <1>1 DEF FailureRecordAgrees, EnqueuingIsAdmitted
<1>5. WaitingWasAdmitted'
  BY <1>1, <1>2 DEF WaitingWasAdmitted
<1> QED BY <1>2, <1>3, <1>4, <1>5 DEF Inv

-----------------------------------------------------------------------------
(***************************************************************************)
(* The theorems.                                                           *)
(***************************************************************************)

LEMMA InitInv == Init => Inv
<1> SUFFICES ASSUME Init PROVE Inv
  OBVIOUS
<1> USE DEF Init
<1>1. DOMAIN queue = {} /\ Len(queue) = 0
  OBVIOUS
<1>2. TypeOK
  BY QueueConfigAssumption DEF TypeOK, FailureReasons
<1>3. QueueInv
  BY <1>1, QueueConfigAssumption DEF QueueInv, InOrder
<1>4. FailureRecordAgrees /\ WaitingWasAdmitted
  BY <1>1 DEF FailureRecordAgrees, WaitingWasAdmitted, Waiting
<1>5. EnqueuingIsAdmitted
  BY RequestsAssumption DEF EnqueuingIsAdmitted
<1> QED BY <1>2, <1>3, <1>4, <1>5 DEF Inv

\* A step that only rewrites an entry: the pair it records agrees, and a
\* request that waits is not sent back before its admission.
LEMMA EntryStepKeepsInv ==
  ASSUME Inv, NEW r \in Requests,
         \/ RejectAtAdmission(r)
         \/ FailAtAdmission(r)
         \/ \E to \in CallerTargets : Transition(r, to)
         \/ CompleteRequest(r)
         \/ MarkFailed(r)
  PROVE  Inv'
<1>1. TypeOK /\ FailureRecordAgrees /\ WaitingWasAdmitted
  BY DEF Inv
<1>2. state[r] \in RequestState \cup {"unregistered"} /\ failure[r] \in FailureReasons
  BY <1>1 DEF TypeOK
<1>3. state[r] = "validated" => r \notin Waiting
  BY <1>1 DEF WaitingWasAdmitted
<1>4. /\ {"rejected", "failed", "completed"} \subseteq RequestState
      /\ CallerTargets \subseteq RequestState
      /\ {"queue_full", "internal_error"} \subseteq FailureReasons
      /\ "admitted" \notin CallerTargets
  BY DEF RequestState, TerminalStates, CallerTargets, FailureReasons
<1>5. CASE RejectAtAdmission(r)
  <2>1. RecordMatches("rejected", "queue_full")
    BY DEF RecordMatches
  <2> QED BY <1>3, <1>4, <1>5, <2>1, RecordKeepsInv DEF RejectAtAdmission
<1>6. RecordMatches("failed", "internal_error")
  BY DEF RecordMatches
<1>7. CASE FailAtAdmission(r)
  BY <1>4, <1>6, <1>7, RecordKeepsInv DEF FailAtAdmission
<1>8. CASE MarkFailed(r)
  BY <1>4, <1>6, <1>8, RecordKeepsInv DEF MarkFailed
<1>9. ASSUME NEW to \in RequestState, IsAllowedTransition(state[r], to),
             to \notin {"timed_out", "rejected", "failed"}
      PROVE  RecordMatches(to, failure[r])
  <2>1. state[r] \notin TerminalStates
    BY <1>2, <1>9, TableLeavesOnlyWork
  <2>2. RecordMatches(state[r], failure[r])
    BY <1>1 DEF FailureRecordAgrees, RecordMatches
  <2> QED BY <1>9, <2>1, <2>2 DEF RecordMatches, TerminalStates
<1>10. CASE \E to \in CallerTargets : Transition(r, to)
  <2>1. PICK to \in CallerTargets : Transition(r, to)
    BY <1>10
  <2>2. /\ to \in RequestState /\ to # "admitted"
        /\ to \notin {"timed_out", "rejected", "failed", "received", "validated"}
    BY <1>4 DEF CallerTargets
  <2>3. LoopFree /\ IsAllowedTransition(state[r], to) /\ Record(r, to, failure[r])
    BY <2>1 DEF Transition
  <2>4. RecordMatches(to, failure[r])
    BY <1>9, <2>2, <2>3
  <2> QED BY <1>2, <2>2, <2>3, <2>4, RecordKeepsInv
<1>11. CASE CompleteRequest(r)
  <2>1. LoopFree /\ IsAllowedTransition(state[r], "completed") /\ Record(r, "completed", failure[r])
    BY <1>11 DEF CompleteRequest
  <2>2. RecordMatches("completed", failure[r])
    BY <1>4, <1>9, <2>1
  <2> QED BY <1>2, <1>4, <2>1, <2>2, RecordKeepsInv
<1> QED BY <1>5, <1>7, <1>8, <1>10, <1>11

\* The locked part of enqueue.
LEMMA EnqueueKeepsInv ==
  ASSUME Inv, NEW r \in Requests, Enqueue(r)
  PROVE  Inv'
<1>1. TypeOK /\ QueueInv /\ FailureRecordAgrees /\ WaitingWasAdmitted /\ EnqueuingIsAdmitted
  BY DEF Inv
<1>2. /\ queue' \in Seq(Items)
      /\ position' \in [Requests -> Nat]
      /\ QueueInv'
      /\ Waiting' \subseteq Waiting \cup {r}
      /\ r \notin Waiting
  BY <1>1, EnqueueKeepsQueue
<1>3. /\ LoopFree /\ state[r] = "validated"
      /\ state' = [state EXCEPT ![r] = "admitted"]
      /\ enqueuing' = r /\ now' = now /\ failure' = failure
  BY DEF Enqueue
<1>4. TypeOK'
  <2>1. "admitted" \in RequestState
    BY DEF RequestState
  <2> QED BY <1>1, <1>2, <1>3, <2>1 DEF TypeOK, Items
<1>5. FailureRecordAgrees'
  BY <1>1, <1>3 DEF FailureRecordAgrees, TypeOK
<1>6. EnqueuingIsAdmitted'
  BY <1>1, <1>3, RequestsAssumption DEF EnqueuingIsAdmitted, LoopFree, TypeOK
<1>7. WaitingWasAdmitted'
  <2> SUFFICES ASSUME NEW x \in Waiting'
               PROVE  /\ state'[x] \notin {"unregistered", "received", "validated", "rejected"}
                      /\ state'[x] = "admitted" => enqueuing' = x
    BY DEF WaitingWasAdmitted
  <2>1. CASE x = r
    BY <1>1, <1>3, <2>1 DEF TypeOK
  <2>2. CASE x # r
    <3>1. x \in Waiting /\ state'[x] = state[x]
      BY <1>1, <1>2, <1>3, <2>2 DEF TypeOK
    <3>2. x \in Requests
      <4>1. queue \in Seq(Items)
        BY <1>1 DEF TypeOK, Items
      <4>2. \A i \in DOMAIN queue : queue[i] \in Items
        BY <4>1, LenProperties
      <4> QED BY <3>1, <4>2 DEF Waiting, Items
    <3>3. state[x] # "admitted"
      BY <1>1, <1>3, <3>2, RequestsAssumption DEF EnqueuingIsAdmitted, LoopFree
    <3> QED BY <1>1, <3>1, <3>3 DEF WaitingWasAdmitted
  <2> QED BY <2>1, <2>2
<1> QED BY <1>2, <1>4, <1>5, <1>6, <1>7 DEF Inv

\* The write of QUEUED once the lock is released.
LEMMA MarkQueuedKeepsInv ==
  ASSUME Inv, NEW r \in Requests, MarkQueued(r)
  PROVE  Inv'
<1> USE DEF MarkQueued
<1>1. TypeOK /\ QueueInv /\ FailureRecordAgrees /\ WaitingWasAdmitted /\ EnqueuingIsAdmitted
  BY DEF Inv
<1>2. state[r] = "admitted" /\ \A x \in Requests : x # r => state[x] # "admitted"
  BY <1>1 DEF EnqueuingIsAdmitted
<1>3. TypeOK'
  BY <1>1 DEF TypeOK, RequestState
<1>4. QueueInv'
  BY <1>1 DEF QueueInv, InOrder
<1>5. FailureRecordAgrees'
  BY <1>1, <1>2 DEF FailureRecordAgrees, TypeOK
<1>6. EnqueuingIsAdmitted'
  BY <1>1, <1>2, RequestsAssumption DEF EnqueuingIsAdmitted, TypeOK
<1>7. WaitingWasAdmitted'
  <2>1. Waiting' = Waiting
    BY DEF Waiting
  <2> QED BY <1>1, <1>2, <2>1 DEF WaitingWasAdmitted, TypeOK
<1> QED BY <1>3, <1>4, <1>5, <1>6, <1>7 DEF Inv

\* The rejection for a full queue drops the expired items on its way.
LEMMA RejectQueueFullKeepsInv ==
  ASSUME Inv, NEW r \in Requests, RejectQueueFull(r)
  PROVE  Inv'
<1>1. TypeOK /\ QueueInv /\ FailureRecordAgrees /\ WaitingWasAdmitted /\ EnqueuingIsAdmitted
  BY DEF Inv
<1>2. /\ LoopFree /\ state[r] = "validated"
      /\ state' = [state EXCEPT ![r] = "rejected"]
      /\ failure' = [failure EXCEPT ![r] = "queue_full"]
      /\ SetQueue(Remaining)
      /\ now' = now /\ enqueuing' = enqueuing
  BY DEF RejectQueueFull
<1>3. /\ queue' \in Seq(Items)
      /\ position' \in [Requests -> Nat]
      /\ QueueInv'
      /\ Waiting' \subseteq Waiting
  <2>1. /\ Remaining \in Seq(Items) /\ Len(Remaining) <= Len(queue)
        /\ DropsItems(Remaining, queue)
    BY <1>1, RemainingDrops
  <2> QED BY <1>1, <1>2, <2>1, DroppingKeepsQueue
<1>4. r \notin Waiting
  BY <1>1, <1>2 DEF WaitingWasAdmitted
<1>5. TypeOK'
  <2>1. "rejected" \in RequestState /\ "queue_full" \in FailureReasons
    BY DEF RequestState, TerminalStates, FailureReasons
  <2> QED BY <1>1, <1>2, <1>3, <2>1 DEF TypeOK, Items
<1>6. FailureRecordAgrees'
  BY <1>1, <1>2 DEF FailureRecordAgrees, TypeOK
<1>7. EnqueuingIsAdmitted'
  BY <1>1, <1>2, RequestsAssumption DEF EnqueuingIsAdmitted, LoopFree, TypeOK
<1>8. WaitingWasAdmitted'
  BY <1>1, <1>2, <1>3, <1>4 DEF WaitingWasAdmitted, TypeOK
<1> QED BY <1>3, <1>5, <1>6, <1>7, <1>8 DEF Inv

LEMMA NextInv == Inv /\ [Next]_vars => Inv'
<1> SUFFICES ASSUME Inv, [Next]_vars PROVE Inv'
  OBVIOUS
<1>1. TypeOK
  BY DEF Inv
<1>2. /\ Remaining \in Seq(Items) /\ Len(Remaining) <= Len(queue)
      /\ DropsItems(Remaining, queue)
  BY <1>1, RemainingDrops
<1>3. ASSUME NEW r \in Requests, Submit(r) PROVE Inv'
  <2>1. /\ LoopFree /\ r \in Requests \ Registered /\ SetQueue(Remaining)
        /\ UNCHANGED <<now, enqueuing>>
        /\ failure' = TimedOutFailures(failure)
        /\ state' = [TimedOutStates(state) EXCEPT ![r] = "validated"]
    BY <1>3 DEF Submit
  <2> QED BY <2>1, TimeoutStepKeepsInv
<1>4. ASSUME NEW r \in Requests, SubmitAtCapacity(r) PROVE Inv'
  BY <1>4, TimeoutStepKeepsInv DEF SubmitAtCapacity
<1>5. CASE ProcessTimeouts
  BY <1>5, TimeoutStepKeepsInv DEF ProcessTimeouts
<1>6. ASSUME NEW r \in Requests,
             \/ RejectAtAdmission(r)
             \/ FailAtAdmission(r)
             \/ \E to \in CallerTargets : Transition(r, to)
             \/ CompleteRequest(r)
             \/ MarkFailed(r)
      PROVE  Inv'
  BY <1>6, EntryStepKeepsInv
<1>7. ASSUME NEW r \in Requests, Enqueue(r) PROVE Inv'
  BY <1>7, EnqueueKeepsInv
<1>8. ASSUME NEW r \in Requests, MarkQueued(r) PROVE Inv'
  BY <1>8, MarkQueuedKeepsInv
<1>9. ASSUME NEW r \in Requests, RejectQueueFull(r) PROVE Inv'
  BY <1>9, RejectQueueFullKeepsInv
<1>10. ASSUME NEW r \in Requests, Remove(r) PROVE Inv'
  <2> DEFINE kept == {i \in DOMAIN queue : queue[i].id # r}
  <2>1. kept \in SUBSET DOMAIN queue
    OBVIOUS
  <2>2. SetQueue(ItemsAt(queue, kept)) /\ UNCHANGED <<now, state, failure, enqueuing>>
    BY <1>10 DEF Remove
  <2> HIDE DEF kept
  <2> QED BY <1>1, <2>1, <2>2, KeptDrops, DropStepKeepsInv
<1>11. CASE DequeueNext
  <2> DEFINE t == IF Remaining = <<>> THEN <<>> ELSE Tail(Remaining)
  <2>1. t \in Seq(Items) /\ Len(t) <= Len(queue) /\ DropsItems(t, queue)
    BY <1>1, DequeuedDrops
  <2>2. SetQueue(t) /\ UNCHANGED <<now, state, failure, enqueuing>>
    BY <1>11 DEF DequeueNext
  <2> HIDE DEF t
  <2> QED BY <2>1, <2>2, DropStepKeepsInv
<1>12. CASE ListItems
  BY <1>2, <1>12, DropStepKeepsInv DEF ListItems
<1>13. CASE Tick
  <2> USE <1>13 DEF Tick
  <2>1. TypeOK'
    BY <1>1, QueueConfigAssumption DEF TypeOK
  <2>2. QueueInv'
    <3>1. queue \in Seq(Items) /\ now \in Int
      BY <1>1 DEF TypeOK, Items
    <3>2. \A i \in DOMAIN queue : queue[i] \in Items
      BY <3>1, LenProperties
    <3>3. \A i \in DOMAIN queue : queue[i].entered \in Int
      BY <3>2 DEF Items
    <3>4. \A i \in DOMAIN queue : queue[i].entered <= now
      BY DEF Inv, QueueInv
    <3>5. \A i \in DOMAIN queue : queue[i].entered <= now + 1
      BY <3>1, <3>3, <3>4
    <3> QED BY <3>5 DEF Inv, QueueInv, InOrder
  <2>3. FailureRecordAgrees' /\ WaitingWasAdmitted' /\ EnqueuingIsAdmitted'
    BY DEF Inv, FailureRecordAgrees, WaitingWasAdmitted, Waiting, EnqueuingIsAdmitted
  <2> QED BY <2>1, <2>2, <2>3 DEF Inv
<1>14. CASE UNCHANGED vars
  BY <1>14 DEF vars, Inv, TypeOK, QueueInv, InOrder, FailureRecordAgrees,
               WaitingWasAdmitted, Waiting, EnqueuingIsAdmitted
<1> QED BY <1>3, <1>4, <1>5, <1>6, <1>7, <1>8, <1>9, <1>10, <1>11, <1>12,
           <1>13, <1>14, Zenon DEF Next

LEMMA InvInvariant == Spec => []Inv
BY InitInv, NextInv, PTL DEF Spec

\* The waiting queue stays within max_queue_size, holds no request twice, is in
\* order of arrival, and its entries' positions are their places, whoever
\* appends, expires, removes or lists items.
THEOREM QueueStaysWellFormed == Spec => []QueueWellFormed
<1>1. Inv => QueueWellFormed
  BY DEF Inv, QueueWellFormed, QueueInv, InOrder
<1> QED BY <1>1, InvInvariant, PTL

\* State and failure reason agree although four operations write the registry
\* without asking the transition table; both kinds of rejection have one reason.
THEOREM FailureRecordsAgree == Spec => []FailureRecordAgrees
<1>1. Inv => FailureRecordAgrees
  BY DEF Inv
<1> QED BY <1>1, InvInvariant, PTL

\* Whoever waits passed admission, also between the locked enqueue and the
\* write of QUEUED.
THEOREM OnlyAdmittedWait == Spec => []WaitingWasAdmitted
<1>1. Inv => WaitingWasAdmitted
  BY DEF Inv
<1> QED BY <1>1, InvInvariant, PTL

\* What any step does to the queue: it drops items, or it is the enqueue.
LEMMA StepDropsOrEnqueues ==
  ASSUME Inv, [Next]_vars
  PROVE  DropsItems(queue', queue) \/ \E r \in Requests : Enqueue(r)
<1>1. TypeOK
  BY DEF Inv
<1>2. DropsItems(Remaining, queue)
  BY <1>1, RemainingDrops
<1>3. CASE UNCHANGED queue
  <2> DEFINE f == [i \in DOMAIN queue |-> i]
  <2>1. f \in [DOMAIN queue' -> DOMAIN queue]
    BY <1>3
  <2>2. \A k \in DOMAIN queue' : queue'[k] = queue[f[k]]
    BY <1>3
  <2>3. \A k, l \in DOMAIN queue' : k < l => f[k] < f[l]
    BY <1>3
  <2> HIDE DEF f
  <2> QED BY <2>1, <2>2, <2>3 DEF DropsItems
<1>4. CASE SetQueue(Remaining)
  BY <1>2, <1>4 DEF SetQueue, DropsItems
<1>5. ASSUME NEW r \in Requests, Remove(r) PROVE DropsItems(queue', queue)
  <2> DEFINE kept == {i \in DOMAIN queue : queue[i].id # r}
  <2>1. kept \in SUBSET DOMAIN queue
    OBVIOUS
  <2>2. queue' = ItemsAt(queue, kept)
    BY <1>5 DEF Remove, SetQueue
  <2> HIDE DEF kept
  <2>3. DropsItems(ItemsAt(queue, kept), queue)
    BY <1>1, <2>1, KeptDrops
  <2> QED BY <2>2, <2>3 DEF DropsItems
<1>6. CASE DequeueNext
  <2> DEFINE t == IF Remaining = <<>> THEN <<>> ELSE Tail(Remaining)
  <2>1. DropsItems(t, queue)
    BY <1>1, DequeuedDrops
  <2>2. queue' = t
    BY <1>6 DEF DequeueNext, SetQueue
  <2> HIDE DEF t
  <2> QED BY <2>1, <2>2 DEF DropsItems
<1>7. \/ SetQueue(Remaining)
      \/ UNCHANGED queue
      \/ DequeueNext
      \/ \E r \in Requests : Remove(r) \/ Enqueue(r)
  BY DEF Next, vars, Submit, SubmitAtCapacity, RejectAtAdmission, FailAtAdmission,
         MarkQueued, RejectQueueFull, Transition, CompleteRequest, MarkFailed,
         ProcessTimeouts, ListItems, Tick, Record
<1> QED BY <1>3, <1>4, <1>5, <1>6, <1>7

\* First in, first out: no step puts a waiting request ahead of another or
\* duplicates one.
THEOREM FifoOrderIsKept == Spec => FifoOrderKept
<1> DEFINE Kept(i, j) == \E k, l \in DOMAIN queue :
                           k < l /\ queue[k] = queue'[i] /\ queue[l] = queue'[j]
<1>1. ASSUME Inv, Inv', [Next]_vars,
             NEW i \in DOMAIN queue', NEW j \in DOMAIN queue', i < j,
             queue'[j].id \in Waiting
      PROVE  Kept(i, j)
  <2>1. CASE DropsItems(queue', queue)
    <3>1. PICK f \in [DOMAIN queue' -> DOMAIN queue] :
            /\ \A k \in DOMAIN queue' : queue'[k] = queue[f[k]]
            /\ \A k, l \in DOMAIN queue' : k < l => f[k] < f[l]
      BY <2>1 DEF DropsItems
    <3>2. /\ f[i] \in DOMAIN queue /\ f[j] \in DOMAIN queue /\ f[i] < f[j]
          /\ queue[f[i]] = queue'[i] /\ queue[f[j]] = queue'[j]
      BY <1>1, <3>1
    <3> QED BY <3>2
  <2>2. ASSUME NEW r \in Requests, Enqueue(r) PROVE Kept(i, j)
    <3> DEFINE item == [id |-> r, entered |-> now]
    <3>1. TypeOK
      BY <1>1 DEF Inv
    <3>2. /\ Remaining \in Seq(Items) /\ Len(Remaining) \in Nat
          /\ DropsItems(Remaining, queue)
      BY <3>1, RemainingDrops
    <3>3. item \in Items
      BY <3>1 DEF TypeOK, Items
    <3>4. queue' = Append(Remaining, item)
      BY <2>2 DEF Enqueue, SetQueue, Enqueued
    <3>5. item.id = r /\ state[r] = "validated"
      BY <2>2 DEF Enqueue
    <3> HIDE DEF item
    <3>6. /\ queue' \in Seq(Items)
          /\ Len(queue') = Len(Remaining) + 1
          /\ \A k \in 1 .. Len(Remaining) : queue'[k] = Remaining[k]
          /\ queue'[Len(Remaining) + 1] = item
      BY <3>2, <3>3, <3>4, AppendProperties
    <3>7. DOMAIN queue' = 1 .. Len(Remaining) + 1 /\ DOMAIN Remaining = 1 .. Len(Remaining)
      BY <3>2, <3>6, LenProperties
    <3>8. r \notin Waiting
      BY <1>1, <3>5 DEF Inv, WaitingWasAdmitted
    <3>9. j # Len(Remaining) + 1
      BY <1>1, <3>5, <3>6, <3>8
    <3>10. i \in DOMAIN Remaining /\ j \in DOMAIN Remaining
      BY <1>1, <3>2, <3>7, <3>9
    <3>11. queue'[i] = Remaining[i] /\ queue'[j] = Remaining[j]
      BY <3>6, <3>7, <3>10
    <3>12. PICK f \in [DOMAIN Remaining -> DOMAIN queue] :
             /\ \A k \in DOMAIN Remaining : Remaining[k] = queue[f[k]]
             /\ \A k, l \in DOMAIN Remaining : k < l => f[k] < f[l]
      BY <3>2 DEF DropsItems
    <3>13. /\ f[i] \in DOMAIN queue /\ f[j] \in DOMAIN queue /\ f[i] < f[j]
           /\ queue[f[i]] = queue'[i] /\ queue[f[j]] = queue'[j]
      BY <1>1, <3>10, <3>11, <3>12
    <3> QED BY <3>13
  <2> QED BY <1>1, <2>1, <2>2, StepDropsOrEnqueues
<1>2. Inv /\ Inv' /\ [Next]_vars =>
        [\A i, j \in DOMAIN queue' :
           (i < j /\ queue'[j].id \in Waiting) => Kept(i, j)]_vars
  BY <1>1, Zenon
<1> QED BY <1>2, InvInvariant, PTL DEF Spec, FifoOrderKept

\* A settled request never goes back to work, and nothing but an execution is
\* recorded as a success.
THEOREM NoRequestResurrects == Spec => NoResurrection
<1> DEFINE Keeps(r) ==
             /\ state[r] \in TerminalStates =>
                  state'[r] \in {state[r], "failed", "timed_out"}
             /\ state'[r] = "completed" =>
                  state[r] \in {"submitted", "streaming", "completed"}
<1>1. ASSUME Inv, [Next]_vars, NEW r \in Requests PROVE Keeps(r)
  <2>1. TypeOK /\ EnqueuingIsAdmitted
    BY <1>1 DEF Inv
  <2>2. state \in [Requests -> RequestState \cup {"unregistered"}]
    BY <2>1 DEF TypeOK
  <2>3. CASE state' = state \/ state' = TimedOutStates(state)
    BY <2>2, <2>3 DEF TimedOutStates
  <2>4. ASSUME NEW q \in Requests, Submit(q) PROVE Keeps(r)
    <3>1. state[q] = "unregistered"
      BY <2>4 DEF Submit, Registered
    <3>2. state' = [TimedOutStates(state) EXCEPT ![q] = "validated"]
      BY <2>4 DEF Submit
    <3> QED BY <2>2, <3>1, <3>2 DEF TimedOutStates, TerminalStates
  <2>5. ASSUME NEW q \in Requests, NEW s, state' = [state EXCEPT ![q] = s],
               state[q] \notin TerminalStates \/ s = "failed",
               s = "completed" => state[q] \in {"submitted", "streaming"}
        PROVE  Keeps(r)
    BY <2>2, <2>5
  <2>6. ASSUME NEW q \in Requests, state[q] = "validated",
               NEW s, s # "completed", state' = [state EXCEPT ![q] = s]
        PROVE  Keeps(r)
    BY <2>2, <2>6 DEF TerminalStates
  <2>7. ASSUME NEW q \in Requests, RejectAtAdmission(q) \/ FailAtAdmission(q)
                                    \/ Enqueue(q) \/ RejectQueueFull(q)
        PROVE  Keeps(r)
    BY <2>6, <2>7 DEF RejectAtAdmission, FailAtAdmission, Enqueue, RejectQueueFull, Record
  <2>8. ASSUME NEW q \in Requests, MarkQueued(q) PROVE Keeps(r)
    BY <2>1, <2>5, <2>8 DEF MarkQueued, EnqueuingIsAdmitted, TerminalStates
  <2>9. ASSUME NEW q \in Requests, NEW to \in CallerTargets, Transition(q, to)
        PROVE  Keeps(r)
    <3>1. state[q] \notin TerminalStates
      BY <2>2, <2>9, TableLeavesOnlyWork DEF Transition
    <3> QED BY <2>5, <2>9, <3>1 DEF Transition, Record, CallerTargets
  <2>10. ASSUME NEW q \in Requests, CompleteRequest(q) PROVE Keeps(r)
    BY <2>5, <2>10 DEF CompleteRequest, Record, TerminalStates
  <2>11. ASSUME NEW q \in Requests, MarkFailed(q) PROVE Keeps(r)
    BY <2>5, <2>11 DEF MarkFailed, Record
  <2>12. CASE UNCHANGED vars
    BY <2>3, <2>12 DEF vars
  <2> QED BY <1>1, <2>3, <2>4, <2>7, <2>8, <2>9, <2>10, <2>11, <2>12, Zenon
          DEF Next, SubmitAtCapacity, ProcessTimeouts, DequeueNext, ListItems, Tick, Remove
<1>2. Inv /\ [Next]_vars => [\A r \in Requests : Keeps(r)]_vars
  BY <1>1, Zenon
<1> QED BY <1>2, InvInvariant, PTL DEF Spec, NoResurrection
=============================================================================
