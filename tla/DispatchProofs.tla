--------------------------- MODULE DispatchProofs ---------------------------
(***************************************************************************)
(* Proofs about the submission of batches, for any backends, models,       *)
(* requests and batches: a submission goes through the usable backends in  *)
(* order of preference, gives up only when all of them were offered the    *)
(* batch, and what a vLLM backend accepted has been executed by it.        *)
(***************************************************************************)
EXTENDS Dispatch, FiniteSetTheorems, SequenceTheorems, WellFoundedInduction, TLAPS

\* A request whose coroutine is inside _submit_batch.
Submitting == {"routing", "checking", "executing"}

\* The backends that r offered its current batch to.
Tried(r) == {tried[r][current[r]][i] : i \in DOMAIN tried[r][current[r]]}

\* What OfferedInOrder says about the offers of a batch for m, when usable are
\* the backends m may use.
InOrder(m, usable, offered) ==
  \A i \in DOMAIN offered :
    /\ offered[i] \in usable
    /\ \A j \in 1 .. i - 1 : offered[j] # offered[i]
    /\ \A b \in usable :
         Preferred(m, b, offered[i]) => \E j \in 1 .. i - 1 : offered[j] = b

Complete(usable, offered) == \A b \in usable : \E i \in DOMAIN offered : offered[i] = b

UsableFor(k) == Usable(ModelOf[k])

\* Nothing has happened yet to the batches r has not come to.
Fresh(r) ==
  /\ pc[r] = "cycled" => target[r] = NoBackend
  /\ \A k \in Batches : pc[r] = "cycled" \/ k \in todo[r] =>
       tried[r][k] = <<>> /\ result[r][k] = NoResult

\* The assignments are members of the current batch, r among its own batch's.
Subject(r) ==
  /\ pc[r] # "done" => r \in active
  /\ pc[r] \in Submitting =>
       /\ current[r] \in Batches \ todo[r] /\ result[r][current[r]] = NoResult
       /\ assignments[r] # {}
       /\ \A q \in assignments[r] : BatchOf[q] = current[r]
       /\ BatchOf[r] = current[r] => r \in assignments[r]

\* The retry excludes exactly the backends the batch was offered to.
Excludes(r) ==
  RoutingConfigured =>
    /\ pc[r] = "routing" => Tried(r) = excluded[r]
    /\ pc[r] \in {"checking", "executing"} => Tried(r) = excluded[r] \cup {target[r]}

\* Only without a routing engine is a backend taken that was found unavailable,
\* and then nothing is accepted.
Targets(r) ==
  /\ pc[r] \in {"checking", "executing"} =>
       target[r] \in Backends /\ backendState[target[r]] # "unhealthy"
  /\ target[r] \in Backends /\ backendState[target[r]] = "unhealthy" => ~RoutingConfigured
  /\ ~RoutingConfigured => target[r] \in {NoBackend, DefaultBackend}

Results(r) ==
  /\ \A k \in Batches : result[r][k].outcome = "accepted" =>
       /\ result[r][k].backend \in Backends
       /\ backendState[result[r][k].backend] # "unhealthy"
       /\ ~RoutingConfigured => result[r][k].backend = DefaultBackend
  /\ pc[r] = "streaming" => Own(r).outcome = "accepted"

\* The members no longer pending were completed by the target.
Executing(r) ==
  pc[r] = "executing" =>
    /\ pending[r] # {} /\ pending[r] \subseteq assignments[r]
    /\ assignments[r] \ pending[r] \subseteq completions[target[r]]

\* What AcceptedWasExecuted, OfferedInOrder and RefusedMeansExhausted say of r.
Executed(r) ==
  /\ Own(r).outcome = "accepted"
  /\ Backend[Own(r).backend].kind = "vllm"
  /\ \A q \in Streaming : BatchOf[q] # BatchOf[r]
  => r \in completions[Own(r).backend]

Ordered(r) ==
  RoutingConfigured /\ phase = "running" =>
    \A k \in Batches : InOrder(ModelOf[k], UsableFor(k), tried[r][k])

Exhausted(r) ==
  RoutingConfigured /\ phase = "running" =>
    \A k \in Batches : result[r][k].outcome = "refused" => Complete(UsableFor(k), tried[r][k])

Sound(r) ==
  /\ Fresh(r) /\ Subject(r) /\ Excludes(r) /\ Targets(r) /\ Results(r)
  /\ Executing(r) /\ Executed(r) /\ Ordered(r) /\ Exhausted(r)

\* An unavailable backend knows of no request; during startup nobody submits.
BackendsInv ==
  /\ \A b \in Backends, r \in Requests :
       backendState[b] = "unhealthy" \/ phase = "starting" => status[b][r] = "unknown"
  /\ phase = "starting" => \A r \in Requests : pc[r] = "cycled"

Inv == TypeOK /\ BackendsInv /\ \A r \in Requests : Sound(r)

-----------------------------------------------------------------------------
(* Routing. *)

LEMMA LeastNatural ==
  ASSUME NEW S \in SUBSET Nat, S # {}
  PROVE  \E x \in S : \A y \in S : x <= y
<1>1. PICK x \in S : \A y \in S : ~(<<y, x>> \in OpToRel(<, Nat))
  BY WFMin, NatLessThanWellFounded
<1>2. ASSUME NEW y \in S PROVE x <= y
  <2>1. <<y, x>> \in OpToRel(<, Nat) <=> y < x
    BY DEF OpToRel
  <2>2. ~(y < x)
    BY <1>1, <2>1, Zenon
  <2>3. x \in Nat /\ y \in Nat
    OBVIOUS
  <2> QED BY <2>2, <2>3
<1> QED BY <1>2

\* First picks from any non-empty set of numbers.
LEMMA FirstIsLeast ==
  ASSUME NEW S \in SUBSET Nat, S # {}
  PROVE  First(S) \in S /\ \A y \in S : First(S) <= y
  BY LeastNatural DEF First

LEMMA FirstOfIsLeast ==
  ASSUME NEW S \in SUBSET Backends
  PROVE  /\ S = {} => FirstOf(S) = NoBackend
         /\ S # {} => FirstOf(S) \in S /\ \A y \in S : FirstOf(S) <= y
<1>1. S \in SUBSET Nat
  BY RoutingAssumption
<1> QED BY <1>1, LeastNatural DEF FirstOf

\* The backends that a model may use and that are not excluded are the
\* candidates its policy admits.
LEMMA UsableCandidates ==
  ASSUME NEW m \in Known, NEW excl, backendState \in [Backends -> BackendStates]
  PROVE  \A b \in Backends :
           b \in Usable(m) \ excl <=>
             /\ b \in Candidates(m, backendState, excl)
             /\ \/ Record[m].policy \in {"explicit", "fallback"} /\ b = Record[m].backend
                \/ Record[m].policy = "fallback" /\ b = Record[m].fallback
                \/ Record[m].policy = "latency_tier" /\ Registered[b].latency = Record[m].latency
                \/ Record[m].policy = "quality_tier" /\ Registered[b].quality = Record[m].quality
  BY DEF Usable, Candidates, Healthy, Supports

\* Route finds a usable backend that is not excluded and that none is
\* preferred to, and fails only when there is no usable backend left.
LEMMA RouteIsPreferred ==
  ASSUME NEW m, NEW excl, backendState \in [Backends -> BackendStates]
  PROVE  LET b == Route(m, backendState, excl)
         IN  /\ b = NoBackend => Usable(m) \subseteq excl
             /\ b # NoBackend => /\ b \in Usable(m) \ excl
                                 /\ \A c \in Usable(m) : Preferred(m, c, b) => c \in excl
<1> DEFINE b == Route(m, backendState, excl)
           cand == Candidates(m, backendState, excl)
<1>0. Backends \subseteq Nat /\ NoBackend \notin Backends /\ cand \subseteq Backends
      /\ Usable(m) \subseteq Backends
  BY RoutingAssumption DEF Candidates, Usable
<1> DEFINE admits(c) ==
             \/ Record[m].policy \in {"explicit", "fallback"} /\ c = Record[m].backend
             \/ Record[m].policy = "fallback" /\ c = Record[m].fallback
             \/ Record[m].policy = "latency_tier" /\ Registered[c].latency = Record[m].latency
             \/ Record[m].policy = "quality_tier" /\ Registered[c].quality = Record[m].quality
<1>1. CASE m \notin Known
  BY <1>1 DEF Route, Usable
<1>a. ASSUME m \in Known
      PROVE  \A c \in Backends : c \in Usable(m) \ excl <=> c \in cand /\ admits(c)
  BY <1>a, UsableCandidates
<1>2. CASE m \in Known /\ Record[m].policy = "explicit"
  <2>1. b = OnlyIf(Record[m].backend, cand)
    BY <1>2 DEF Route, Explicit
  <2>2. \A c \in Backends : c \in Usable(m) \ excl <=> c \in cand /\ c = Record[m].backend
    BY <1>2, <1>a
  <2>3. \A c \in Usable(m) : c = Record[m].backend
    BY <1>2 DEF Usable
  <2> HIDE DEF b, cand
  <2>4. b = NoBackend => Usable(m) \subseteq excl
    BY <1>0, <2>1, <2>2 DEF OnlyIf
  <2>5. b # NoBackend => b \in Usable(m) \ excl
    BY <1>0, <2>1, <2>2 DEF OnlyIf
  <2>6. b # NoBackend => \A c \in Usable(m) : Preferred(m, c, b) => c \in excl
    BY <2>3, <2>5 DEF Preferred
  <2> QED BY <2>4, <2>5, <2>6 DEF b
<1>3. CASE m \in Known /\ Record[m].policy = "latency_tier"
  <2> DEFINE tier == {c \in cand : Registered[c].latency = Record[m].latency}
  <2>1. b = FirstOf(tier)
    BY <1>3 DEF Route, LatencyTier
  <2>2. \A c \in Backends : c \in Usable(m) \ excl <=> c \in tier
    <3>1. \A c \in Backends : c \in Usable(m) \ excl <=>
            c \in Candidates(m, backendState, excl) /\ Registered[c].latency = Record[m].latency
      BY <1>3, <1>a
    <3> HIDE DEF b
    <3> QED BY <3>1
  <2>3. tier \subseteq Backends
    BY <1>0
  <2> HIDE DEF b, tier
  <2>4. \A c \in Usable(m) : Preferred(m, c, b) => c # b /\ c < b
    BY <1>3, Zenon DEF Preferred
  <2>5. /\ tier = {} => b = NoBackend
        /\ tier # {} => b \in tier /\ \A y \in tier : b <= y
    BY <2>1, <2>3, FirstOfIsLeast
  <2>6. b = NoBackend => Usable(m) \subseteq excl
    BY <1>0, <2>2, <2>3, <2>5
  <2>7. b # NoBackend => b \in Usable(m) \ excl
    BY <2>2, <2>3, <2>5
  <2>8. \A c \in Nat : b \in Nat /\ b <= c => ~(c < b)
    OBVIOUS
  <2>9. b # NoBackend => \A c \in Usable(m) : Preferred(m, c, b) => c \in excl
    BY <1>0, <2>2, <2>3, <2>4, <2>5, <2>7, <2>8
  <2> QED BY <2>6, <2>7, <2>9 DEF b
<1>4. CASE m \in Known /\ Record[m].policy = "quality_tier"
  <2> DEFINE tier == {c \in cand : Registered[c].quality = Record[m].quality}
  <2>1. b = FirstOf(tier)
    BY <1>4 DEF Route, QualityTier
  <2>2. \A c \in Backends : c \in Usable(m) \ excl <=> c \in tier
    <3>1. \A c \in Backends : c \in Usable(m) \ excl <=>
            c \in Candidates(m, backendState, excl) /\ Registered[c].quality = Record[m].quality
      BY <1>4, <1>a
    <3> HIDE DEF b
    <3> QED BY <3>1
  <2>3. tier \subseteq Backends
    BY <1>0
  <2> HIDE DEF b, tier
  <2>4. \A c \in Usable(m) : Preferred(m, c, b) => c # b /\ c < b
    BY <1>4, Zenon DEF Preferred
  <2>5. /\ tier = {} => b = NoBackend
        /\ tier # {} => b \in tier /\ \A y \in tier : b <= y
    BY <2>1, <2>3, FirstOfIsLeast
  <2>6. b = NoBackend => Usable(m) \subseteq excl
    BY <1>0, <2>2, <2>3, <2>5
  <2>7. b # NoBackend => b \in Usable(m) \ excl
    BY <2>2, <2>3, <2>5
  <2>8. \A c \in Nat : b \in Nat /\ b <= c => ~(c < b)
    OBVIOUS
  <2>9. b # NoBackend => \A c \in Usable(m) : Preferred(m, c, b) => c \in excl
    BY <1>0, <2>2, <2>3, <2>4, <2>5, <2>7, <2>8
  <2> QED BY <2>6, <2>7, <2>9 DEF b
<1>5. CASE m \in Known /\ Record[m].policy = "fallback"
  <2>1. b = IF OnlyIf(Record[m].backend, cand) # NoBackend
            THEN OnlyIf(Record[m].backend, cand)
            ELSE OnlyIf(Record[m].fallback, cand)
    BY <1>5 DEF Route, Fallback, Explicit
  <2>2. \A c \in Backends :
          c \in Usable(m) \ excl <=>
            c \in cand /\ (c = Record[m].backend \/ c = Record[m].fallback)
    BY <1>5, <1>a
  <2> HIDE DEF b, cand
  <2>3. \A c \in Usable(m) : Preferred(m, c, b) => c # b /\ c = Record[m].backend
    BY <1>5 DEF Preferred
  <2>4. b = NoBackend => Usable(m) \subseteq excl
    BY <1>0, <2>1, <2>2 DEF OnlyIf
  <2>5. b # NoBackend => b \in Usable(m) \ excl
    BY <1>0, <2>1, <2>2 DEF OnlyIf
  <2>6. b # NoBackend => \A c \in Usable(m) : Preferred(m, c, b) => c \in excl
    BY <1>0, <2>1, <2>2, <2>3 DEF OnlyIf
  <2> QED BY <2>4, <2>5, <2>6 DEF b
<1> QED BY <1>1, <1>2, <1>3, <1>4, <1>5, RoutingAssumption DEF Policies

-----------------------------------------------------------------------------
(* What a step of one coroutine cannot change. *)

Fixed == setup' = setup /\ phase' = phase /\ backendState' = backendState

\* A step of r: all other coroutines keep their variables, completions stay.
StepOf(r) ==
  /\ Fixed
  /\ \A q \in Requests \ {r} :
       /\ pc'[q] = pc[q] /\ todo'[q] = todo[q] /\ current'[q] = current[q]
       /\ assignments'[q] = assignments[q] /\ pending'[q] = pending[q]
       /\ target'[q] = target[q] /\ excluded'[q] = excluded[q]
       /\ result'[q] = result[q] /\ tried'[q] = tried[q]
       /\ q \in active => q \in active'
  /\ \A b \in Backends : completions[b] \subseteq completions'[b]

LEMMA SamePromises ==
  ASSUME Fixed
  PROVE  /\ Batches' = Batches /\ BatchOf' = BatchOf /\ ModelOf' = ModelOf
         /\ Streaming' = Streaming /\ (RoutingConfigured' <=> RoutingConfigured)
         /\ Filling' = Filling /\ Rejecting' = Rejecting
         /\ \A k : UsableFor(k)' = UsableFor(k)
  BY DEF Fixed, Batches, BatchOf, ModelOf, Streaming, Filling, Rejecting, RoutingConfigured,
     UsableFor, Usable

LEMMA OthersStaySound ==
  ASSUME NEW r \in Requests, NEW q \in Requests, q # r, StepOf(r), Sound(q)
  PROVE  Sound(q)'
<1>1. Fixed
  BY DEF StepOf
<1>2. /\ pc'[q] = pc[q] /\ todo'[q] = todo[q] /\ current'[q] = current[q]
      /\ assignments'[q] = assignments[q] /\ pending'[q] = pending[q]
      /\ target'[q] = target[q] /\ excluded'[q] = excluded[q]
      /\ result'[q] = result[q] /\ tried'[q] = tried[q]
      /\ q \in active => q \in active'
  BY DEF StepOf
<1>3. /\ Batches' = Batches /\ BatchOf' = BatchOf /\ ModelOf' = ModelOf
      /\ Streaming' = Streaming /\ (RoutingConfigured' <=> RoutingConfigured)
      /\ \A k : UsableFor(k)' = UsableFor(k)
  BY <1>1, SamePromises
<1>4. Fresh(q)' /\ Subject(q)'
  BY <1>2, <1>3 DEF Sound, Fresh, Subject
<1>5. Tried(q)' = Tried(q) /\ Own(q)' = Own(q)
  BY <1>2, <1>3 DEF Tried, Own
<1>6. Excludes(q)'
  BY <1>2, <1>3, <1>5 DEF Sound, Excludes
<1>7. Targets(q)' /\ Results(q)'
  BY <1>1, <1>2, <1>3, <1>5 DEF Sound, Targets, Results, Fixed
<1>8. Executing(q)'
  BY <1>2 DEF Sound, Executing, Targets, StepOf
<1>9. Executed(q)'
  <2>1. Own(q).outcome = "accepted" => Own(q).backend \in Backends
    BY DEF Sound, Results, Own, Batches
  <2> QED BY <1>3, <1>5, <2>1 DEF Sound, Executed, StepOf
<1>10. Ordered(q)' /\ Exhausted(q)'
  BY <1>1, <1>2, <1>3 DEF Sound, Ordered, Exhausted, Fixed
<1> QED BY <1>4, <1>6, <1>7, <1>8, <1>9, <1>10 DEF Sound

\* The invariant after a step of r.
LEMMA StepKeepsInv ==
  ASSUME NEW r \in Requests, Inv, StepOf(r), TypeOK', Sound(r)',
         phase # "starting",
         \A b \in Backends : backendState[b] = "unhealthy" => status'[b] = status[b]
  PROVE  Inv'
<1>1. \A q \in Requests : Sound(q)'
  BY OthersStaySound DEF Inv
<1>2. BackendsInv'
  BY DEF Inv, BackendsInv, StepOf, Fixed
<1> QED BY <1>1, <1>2 DEF Inv

-----------------------------------------------------------------------------
(* Offers, and how an offer ends. *)

\* r is in _submit_batch, and what it has offered the batch to is in order.
Offering(r) ==
  /\ Fixed /\ UNCHANGED <<todo, current, assignments, active>>
  /\ pc[r] \in Submitting
  /\ \A k \in Batches \ {current[r]} : tried'[r][k] = tried[r][k]
  /\ RoutingConfigured /\ phase = "running" =>
       InOrder(ModelOf[current[r]], UsableFor(current[r]), tried'[r][current[r]])
  /\ target'[r] \in Backends /\ backendState[target'[r]] = "unhealthy" => ~RoutingConfigured
  /\ ~RoutingConfigured => target'[r] \in {NoBackend, DefaultBackend}

\* The offers with the one to b, the last so far.
Attempt(r, b) ==
  /\ Offering(r)
  /\ b \in Backends /\ target'[r] = b
  /\ RoutingConfigured =>
       {tried'[r][current[r]][i] : i \in DOMAIN tried'[r][current[r]]} = excluded[r] \cup {b}

LEMMA AppendInOrder ==
  ASSUME NEW m, NEW usable, NEW s \in Seq(Backends), NEW b \in Backends,
         InOrder(m, usable, s), b \in usable, \A i \in DOMAIN s : s[i] # b,
         \A c \in usable : Preferred(m, c, b) => \E i \in DOMAIN s : s[i] = c
  PROVE  InOrder(m, usable, Append(s, b))
<1> DEFINE t == Append(s, b)
<1>1. /\ DOMAIN s = 1 .. Len(s) /\ DOMAIN t = 1 .. Len(s) + 1 /\ Len(s) \in Nat
      /\ t[Len(s) + 1] = b /\ \A i \in 1 .. Len(s) : t[i] = s[i]
  OBVIOUS
<1> HIDE DEF t
<1> SUFFICES ASSUME NEW i \in DOMAIN t
             PROVE  /\ t[i] \in usable
                    /\ \A j \in 1 .. i - 1 : t[j] # t[i]
                    /\ \A c \in usable : Preferred(m, c, t[i]) => \E j \in 1 .. i - 1 : t[j] = c
  BY DEF InOrder, t
<1>2. CASE i \in 1 .. Len(s)
  <2>1. t[i] = s[i] /\ i \in DOMAIN s /\ \A j \in 1 .. i - 1 : t[j] = s[j]
    BY <1>1, <1>2
  <2> QED BY <2>1 DEF InOrder
<1>3. CASE i = Len(s) + 1
  <2>1. t[i] = b /\ 1 .. i - 1 = DOMAIN s /\ \A j \in DOMAIN s : t[j] = s[j]
    BY <1>1, <1>3
  <2> QED BY <2>1
<1> QED BY <1>1, <1>2, <1>3

LEMMA HandIsAttempt ==
  ASSUME NEW r \in Requests, NEW b, Inv, Hand(r, b), Fixed,
         UNCHANGED <<todo, current, assignments, active>>
  PROVE  Attempt(r, b)
<1> DEFINE k == current[r]
           s == tried[r][k]
<1>1. /\ k \in Batches /\ tried \in [Requests -> [Batches -> Seq(Backends)]]
      /\ s \in Seq(Backends) /\ target \in [Requests -> Backends \cup {NoBackend}]
      /\ backendState \in [Backends -> BackendStates]
      /\ pc[r] = "routing" /\ Sound(r)
  BY DEF Inv, TypeOK, Sound, Subject, Submitting, Hand
<1>2. /\ target'[r] = b
      /\ \A j \in Batches \ {k} : tried'[r][j] = tried[r][j]
      /\ tried'[r][k] = Append(s, b)
  BY <1>1 DEF Hand
<1>3. ASSUME RoutingConfigured
      PROVE  /\ b \in UsableFor(k) \ excluded[r] /\ b \in Backends
             /\ backendState[b] # "unhealthy"
             /\ \A c \in UsableFor(k) : Preferred(ModelOf[k], c, b) => c \in excluded[r]
  <2>1. b = Route(ModelOf[k], backendState, excluded[r]) /\ b # NoBackend
    BY <1>3 DEF Hand, RouteFor, Model
  <2>2. /\ b \in UsableFor(k) \ excluded[r]
        /\ \A c \in UsableFor(k) : Preferred(ModelOf[k], c, b) => c \in excluded[r]
    <3> DEFINE m == ModelOf[k]
               e == excluded[r]
    <3> HIDE DEF m, e
    <3>1. /\ Route(m, backendState, e) # NoBackend =>
                Route(m, backendState, e) \in Usable(m) \ e
          /\ Route(m, backendState, e) # NoBackend =>
                \A c \in Usable(m) : Preferred(m, c, Route(m, backendState, e)) => c \in e
      BY <1>1, RouteIsPreferred, Zenon
    <3> QED BY <2>1, <3>1 DEF UsableFor, m, e
  <2>3. b \in Backends /\ backendState[b] # "unhealthy"
    BY <2>2 DEF UsableFor, Usable
  <2> QED BY <2>2, <2>3
<1>4. ~RoutingConfigured => b = DefaultBackend
  BY DEF Hand, RouteFor
<1>5. b \in Backends
  BY <1>3, <1>4, BackendsAssumption
<1>6. RoutingConfigured => {s[i] : i \in DOMAIN s} = excluded[r]
  BY <1>1 DEF Sound, Excludes, Tried
<1> HIDE DEF s
<1>7. /\ DOMAIN s = 1 .. Len(s) /\ DOMAIN Append(s, b) = 1 .. Len(s) + 1 /\ Len(s) \in Nat
      /\ Append(s, b)[Len(s) + 1] = b /\ \A i \in 1 .. Len(s) : Append(s, b)[i] = s[i]
  BY <1>1, <1>5
<1>8. {Append(s, b)[i] : i \in DOMAIN Append(s, b)} = {s[i] : i \in DOMAIN s} \cup {b}
  <2>1. \A i \in 1 .. Len(s) + 1 : i \in 1 .. Len(s) \/ i = Len(s) + 1
    BY <1>7
  <2>2. 1 .. Len(s) \subseteq 1 .. Len(s) + 1 /\ Len(s) + 1 \in 1 .. Len(s) + 1
    BY <1>7
  <2> QED BY <1>7, <2>1, <2>2
<1>9. ASSUME RoutingConfigured, phase = "running"
      PROVE  InOrder(ModelOf[k], UsableFor(k), Append(s, b))
  <2>1. InOrder(ModelOf[k], UsableFor(k), s)
    BY <1>1, <1>9 DEF Sound, Ordered, s
  <2>2. \A i \in DOMAIN s : s[i] # b
    BY <1>3, <1>6, <1>9
  <2>3. \A c \in UsableFor(k) : Preferred(ModelOf[k], c, b) => \E i \in DOMAIN s : s[i] = c
    BY <1>3, <1>6, <1>9
  <2> QED BY <1>1, <1>3, <1>5, <1>9, <2>1, <2>2, <2>3, AppendInOrder
<1>10. Offering(r)
  BY <1>1, <1>2, <1>3, <1>4, <1>9 DEF Offering, Submitting
<1> QED BY <1>2, <1>5, <1>6, <1>8, <1>10 DEF Attempt

LEMMA InFlightIsAttempt ==
  ASSUME NEW r \in Requests, Inv, pc[r] \in {"checking", "executing"}, Fixed,
         UNCHANGED <<todo, current, assignments, active, target, tried>>
  PROVE  Attempt(r, target[r])
<1>1. Sound(r) /\ current[r] \in Batches
  BY DEF Inv, Sound, Subject, Submitting
<1>2. Offering(r)
  BY <1>1 DEF Offering, Submitting, Sound, Targets, Ordered
<1> QED BY <1>1, <1>2 DEF Attempt, Sound, Targets, Excludes, Tried

CompletionsGrow == \A b \in Backends : completions[b] \subseteq completions'[b]

\* What the backend x that accepted the batch of r must have done.
Performed(r, x) ==
  /\ x \in Backends /\ backendState[x] # "unhealthy"
  /\ ~RoutingConfigured => x = DefaultBackend
  /\ Backend[x].kind = "vllm" /\ (\A q \in Streaming : BatchOf[q] # current[r]) =>
       assignments[r] \subseteq completions'[x]

\* _submit_batch returns a result.
LEMMA FinishIsSound ==
  ASSUME NEW r \in Requests, NEW o \in {"accepted", "refused"}, NEW x, Inv, Offering(r),
         CompletionsGrow, Finish(r, o, x),
         o = "accepted" => Performed(r, x),
         o = "refused" /\ RoutingConfigured /\ phase = "running" =>
           Complete(UsableFor(current[r]), tried'[r][current[r]])
  PROVE  Sound(r)'
<1> DEFINE k == current[r]
<1>1. /\ Sound(r) /\ k \in Batches /\ k \notin todo[r]
      /\ pc \in [Requests -> {"cycled", "listing", "routing", "checking", "executing",
                              "streaming", "done"}]
      /\ result[r] \in [Batches -> [outcome : {"none", "accepted", "refused"},
                                    backend : Backends \cup {NoBackend}]]
      /\ r \in DOMAIN result
      /\ BatchOf[r] \in Batches
  BY DEF Inv, TypeOK, Sound, Subject, Offering, Submitting, Batches
<1>2. /\ pc'[r] = "listing"
      /\ result'[r][k] = [outcome |-> o, backend |-> x]
      /\ \A j \in Batches \ {k} : result'[r][j] = result[r][j]
  BY <1>1 DEF Finish, Goto
<1>3. Fixed /\ UNCHANGED <<todo, current, assignments, active>>
  BY DEF Offering
<1>4. /\ Batches' = Batches /\ BatchOf' = BatchOf /\ ModelOf' = ModelOf
      /\ Streaming' = Streaming /\ (RoutingConfigured' <=> RoutingConfigured)
      /\ \A j : UsableFor(j)' = UsableFor(j)
  BY <1>3, SamePromises
<1> HIDE DEF k
<1>5. Fresh(r)'
  BY <1>1, <1>2, <1>3, <1>4 DEF Sound, Fresh, Offering, Submitting, k
<1>6. Subject(r)'
  BY <1>1, <1>2, <1>3 DEF Sound, Subject, Submitting, Offering
<1>7. Excludes(r)' /\ Executing(r)'
  BY <1>2 DEF Excludes, Executing
<1>8. Targets(r)'
  BY <1>2, <1>3, <1>4 DEF Targets, Offering, Fixed
<1>9. Results(r)'
  <2> SUFFICES ASSUME NEW j \in Batches, result'[r][j].outcome = "accepted"
               PROVE  /\ result'[r][j].backend \in Backends
                      /\ backendState[result'[r][j].backend] # "unhealthy"
                      /\ ~RoutingConfigured => result'[r][j].backend = DefaultBackend
    BY <1>2, <1>3, <1>4 DEF Results, Fixed
  <2>1. CASE j = k
    BY <1>2, <2>1 DEF Performed
  <2>2. CASE j # k
    BY <1>1, <1>2, <2>2 DEF Sound, Results
  <2> QED BY <2>1, <2>2
<1>10. Executed(r)'
  <2> SUFFICES ASSUME result'[r][BatchOf[r]].outcome = "accepted",
                      Backend[result'[r][BatchOf[r]].backend].kind = "vllm",
                      \A q \in Streaming : BatchOf[q] # BatchOf[r]
               PROVE  r \in completions'[result'[r][BatchOf[r]].backend]
    BY <1>4 DEF Executed, Own
  <2>1. CASE BatchOf[r] = k
    <3>1. r \in assignments[r]
      BY <1>1, <2>1 DEF Sound, Subject, Offering, k
    <3> QED BY <1>2, <2>1, <3>1 DEF Performed, k
  <2>2. CASE BatchOf[r] # k
    <3>1. result'[r][BatchOf[r]] = result[r][BatchOf[r]]
      BY <1>1, <1>2, <2>2
    <3>2. result[r][BatchOf[r]].backend \in Backends
      BY <1>1, <3>1 DEF Sound, Results
    <3> QED BY <1>1, <3>1, <3>2 DEF Sound, Executed, Own, CompletionsGrow
  <2> QED BY <2>1, <2>2
<1>11. Ordered(r)'
  BY <1>1, <1>3, <1>4 DEF Sound, Ordered, Offering, Fixed, k
<1>12. Exhausted(r)'
  <2> SUFFICES ASSUME RoutingConfigured, phase = "running",
                      NEW j \in Batches, result'[r][j].outcome = "refused"
               PROVE  Complete(UsableFor(j), tried'[r][j])
    BY <1>3, <1>4 DEF Exhausted, Fixed
  <2>1. CASE j = k
    BY <1>2, <2>1 DEF k
  <2>2. CASE j # k
    BY <1>1, <1>2, <2>2 DEF Sound, Exhausted, Offering, k
  <2> QED BY <2>1, <2>2
<1> QED BY <1>5, <1>6, <1>7, <1>8, <1>9, <1>10, <1>11, <1>12 DEF Sound

\* The submission goes on: no result yet, and the coroutine is still in
\* _submit_batch.
LEMMA GoesOnSound ==
  ASSUME NEW r \in Requests, Inv, Offering(r), CompletionsGrow, pc'[r] \in Submitting,
         result' = result, Excludes(r)', Executing(r)',
         pc'[r] \in {"checking", "executing"} =>
           target'[r] \in Backends /\ backendState[target'[r]] # "unhealthy"
  PROVE  Sound(r)'
<1> DEFINE k == current[r]
<1>1. /\ Sound(r) /\ k \in Batches /\ k \notin todo[r] /\ BatchOf[r] \in Batches
      /\ result[r][k] = NoResult
  BY DEF Inv, TypeOK, Sound, Subject, Offering, Submitting, Batches
<1>2. Fixed /\ UNCHANGED <<todo, current, assignments, active>> /\ pc[r] \in Submitting
  BY DEF Offering
<1>3. /\ Batches' = Batches /\ BatchOf' = BatchOf /\ ModelOf' = ModelOf
      /\ Streaming' = Streaming /\ (RoutingConfigured' <=> RoutingConfigured)
      /\ \A j : UsableFor(j)' = UsableFor(j)
  BY <1>2, SamePromises
<1>4. Fresh(r)' /\ Subject(r)'
  BY <1>1, <1>2, <1>3 DEF Sound, Fresh, Subject, Offering, Submitting
<1>5. Targets(r)'
  BY <1>2, <1>3 DEF Targets, Offering, Fixed
<1>6. Results(r)'
  BY <1>1, <1>2, <1>3 DEF Sound, Results, Fixed, Submitting
<1>7. Executed(r)'
  <2>1. Own(r)' = Own(r) /\ (Own(r).outcome = "accepted" => Own(r).backend \in Backends)
    BY <1>1, <1>3 DEF Own, Sound, Results
  <2> QED BY <1>1, <1>3, <2>1 DEF Sound, Executed, CompletionsGrow
<1>8. Ordered(r)'
  BY <1>1, <1>2, <1>3 DEF Sound, Ordered, Offering, Fixed
<1>9. Exhausted(r)'
  <2> SUFFICES ASSUME RoutingConfigured, phase = "running",
                      NEW j \in Batches, result[r][j].outcome = "refused"
               PROVE  Complete(UsableFor(j), tried'[r][j])
    BY <1>2, <1>3 DEF Exhausted, Fixed
  <2>1. j # k
    BY <1>1 DEF NoResult
  <2> QED BY <1>1, <2>1 DEF Sound, Exhausted, Offering
<1> QED BY <1>4, <1>5, <1>6, <1>7, <1>8, <1>9 DEF Sound

LEMMA RetryIsSound ==
  ASSUME NEW r \in Requests, NEW b, Inv, Attempt(r, b), CompletionsGrow,
         excluded' = [excluded EXCEPT ![r] = @ \cup {b}], Goto(r, "routing"), result' = result
  PROVE  Sound(r)'
<1>1. pc'[r] = "routing" /\ excluded'[r] = excluded[r] \cup {b} /\ Offering(r)
  BY DEF Goto, Inv, TypeOK, Attempt
<1>2. Excludes(r)'
  <2>1. current' = current /\ (RoutingConfigured' <=> RoutingConfigured)
    BY <1>1, SamePromises DEF Offering
  <2> QED BY <1>1, <2>1 DEF Excludes, Tried, Attempt
<1>3. Executing(r)'
  BY <1>1 DEF Executing
<1> QED BY <1>1, <1>2, <1>3, GoesOnSound DEF Submitting

\* When an offer did not lead to acceptance and nothing is left to offer to.
LEMMA RefusedIsSound ==
  ASSUME NEW r \in Requests, NEW b, Inv, Attempt(r, b), CompletionsGrow, Refused(r, b)
  PROVE  Sound(r)'
<1>1. CASE RoutingConfigured
  BY <1>1, RetryIsSound DEF Refused
<1>2. CASE ~RoutingConfigured
  BY <1>2, FinishIsSound DEF Refused, Attempt
<1> QED BY <1>1, <1>2

LEMMA RaisedIsSound ==
  ASSUME NEW r \in Requests, NEW b, Inv, Attempt(r, b), CompletionsGrow, Raised(r, b)
  PROVE  Sound(r)'
<1>1. CASE ~RoutingConfigured
  BY <1>1, FinishIsSound DEF Raised, Attempt
<1>2. CASE RoutingConfigured
  <2> DEFINE next == Route(Model(r), backendState, excluded[r] \cup {b})
  <2>1. CASE next # NoBackend
    BY <1>2, <2>1, RetryIsSound DEF Raised
  <2>2. CASE next = NoBackend
    <3>1. Finish(r, "refused", b) /\ Offering(r)
      BY <1>2, <2>2 DEF Raised, Attempt
    <3>2. UsableFor(current[r]) \subseteq excluded[r] \cup {b}
      <4>1. backendState \in [Backends -> BackendStates]
        BY DEF Inv, TypeOK
      <4> QED BY <2>2, <4>1, RouteIsPreferred DEF UsableFor, Model
    <3>3. Complete(UsableFor(current[r]), tried'[r][current[r]])
      BY <1>2, <3>2 DEF Complete, Attempt
    <3> QED BY <3>1, <3>3, FinishIsSound
  <2> QED BY <2>1, <2>2
<1> QED BY <1>1, <1>2

LEMMA AcceptedIsSound ==
  ASSUME NEW r \in Requests, NEW b, Inv, Attempt(r, b), CompletionsGrow, Accepted(r, b),
         Performed(r, b)
  PROVE  Sound(r)'
  BY FinishIsSound DEF Accepted, Attempt

-----------------------------------------------------------------------------
(* What the ends of an offer change, and for whom. *)

Labels == {"cycled", "listing", "routing", "checking", "executing", "streaming", "done"}

ResultType ==
  [outcome : {"none", "accepted", "refused"}, backend : Backends \cup {NoBackend}]

\* The variables the loop of _submit_batch assigns itself.
LoopTyped ==
  /\ pc \in [Requests -> Labels]
  /\ excluded \in [Requests -> SUBSET Backends]
  /\ result \in [Requests -> [Batches -> ResultType]]
  /\ tried \in [Requests -> [Batches -> Seq(Backends)]]
  /\ target \in [Requests -> Backends \cup {NoBackend}]

LEMMA TypeOKIsLoopTyped == TypeOK => LoopTyped
  BY DEF TypeOK, LoopTyped, Labels, ResultType

LoopStepOf(r) ==
  \A q \in Requests \ {r} :
    pc'[q] = pc[q] /\ excluded'[q] = excluded[q] /\ result'[q] = result[q]

LEMMA FinishMoves ==
  ASSUME NEW r \in Requests, NEW o \in {"accepted", "refused"},
         NEW x \in Backends \cup {NoBackend}, TypeOK, Finish(r, o, x), setup' = setup
  PROVE  /\ pc' \in [Requests -> Labels]
         /\ result' \in [Requests -> [Batches -> ResultType]]
         /\ \A q \in Requests \ {r} : pc'[q] = pc[q] /\ result'[q] = result[q]
<1>1. pc \in [Requests -> Labels] /\ result \in [Requests -> [Batches -> ResultType]]
  BY TypeOKIsLoopTyped DEF LoopTyped
<1>2. [outcome |-> o, backend |-> x] \in ResultType
  BY DEF ResultType
<1>3. [result[r] EXCEPT ![current[r]] = [outcome |-> o, backend |-> x]] \in [Batches -> ResultType]
  BY <1>1, <1>2
<1>4. result' = [result EXCEPT ![r] = [result[r] EXCEPT ![current[r]] = [outcome |-> o, backend |-> x]]]
  BY <1>1 DEF Finish
<1>5. pc' = [pc EXCEPT ![r] = "listing"]
  BY DEF Finish, Goto
<1> HIDE DEF ResultType
<1> QED BY <1>1, <1>3, <1>4, <1>5 DEF Labels

LEMMA EndsOfOfferMove ==
  ASSUME NEW r \in Requests, NEW b \in Backends, TypeOK, setup' = setup,
         \/ Refused(r, b) \/ Raised(r, b)
         \/ Accepted(r, b) /\ UNCHANGED excluded
         \/ Goto(r, "checking") /\ UNCHANGED <<excluded, result>>
  PROVE  /\ pc' \in [Requests -> Labels]
         /\ result' \in [Requests -> [Batches -> ResultType]]
         /\ excluded' \in [Requests -> SUBSET Backends]
         /\ LoopStepOf(r)
<1>1. /\ pc \in [Requests -> Labels] /\ excluded \in [Requests -> SUBSET Backends]
      /\ result \in [Requests -> [Batches -> ResultType]]
  BY TypeOKIsLoopTyped DEF LoopTyped
<1>2. ASSUME excluded' = [excluded EXCEPT ![r] = @ \cup {b}]
      PROVE  /\ excluded' \in [Requests -> SUBSET Backends]
             /\ \A q \in Requests \ {r} : excluded'[q] = excluded[q]
  BY <1>1, <1>2
<1>3. ASSUME NEW l \in Labels, Goto(r, l)
      PROVE  /\ pc' \in [Requests -> Labels]
             /\ \A q \in Requests \ {r} : pc'[q] = pc[q]
  BY <1>1, <1>3 DEF Goto
<1>4. \/ \E o \in {"accepted", "refused"} : Finish(r, o, b)
      \/ \E l \in {"routing", "checking"} : Goto(r, l) /\ UNCHANGED result
  BY DEF Refused, Raised, Accepted
<1>5. \/ excluded' = [excluded EXCEPT ![r] = @ \cup {b}]
      \/ excluded' = excluded
  BY DEF Refused, Raised
<1>6. /\ excluded' \in [Requests -> SUBSET Backends]
      /\ \A q \in Requests \ {r} : excluded'[q] = excluded[q]
  BY <1>1, <1>2, <1>5
<1>b. Batches' = Batches
  BY DEF Batches, BatchOf
<1>7. /\ pc' \in [Requests -> Labels]
      /\ result' \in [Requests -> [Batches -> ResultType]]
      /\ \A q \in Requests \ {r} : pc'[q] = pc[q] /\ result'[q] = result[q]
  <2>1. CASE \E o \in {"accepted", "refused"} : Finish(r, o, b)
    BY <2>1, FinishMoves
  <2>2. CASE \E l \in {"routing", "checking"} : Goto(r, l) /\ UNCHANGED result
    BY <1>1, <1>3, <2>2 DEF Labels
  <2> QED BY <1>4, <2>1, <2>2
<1> QED BY <1>6, <1>7 DEF LoopStepOf

LEMMA HandMoves ==
  ASSUME NEW r \in Requests, NEW b \in Backends, TypeOK, Hand(r, b)
  PROVE  /\ target' \in [Requests -> Backends \cup {NoBackend}]
         /\ tried' \in [Requests -> [Batches -> Seq(Backends)]]
         /\ \A q \in Requests \ {r} : target'[q] = target[q] /\ tried'[q] = tried[q]
<1>1. /\ tried \in [Requests -> [Batches -> Seq(Backends)]]
      /\ target \in [Requests -> Backends \cup {NoBackend}]
  BY TypeOKIsLoopTyped DEF LoopTyped
<1>2. tried' = [tried EXCEPT ![r] = [tried[r] EXCEPT ![current[r]] = Append(@, b)]]
  BY <1>1 DEF Hand
<1>3. [tried[r] EXCEPT ![current[r]] = Append(@, b)] \in [Batches -> Seq(Backends)]
  <2>1. \A k \in Batches : Append(tried[r][k], b) \in Seq(Backends)
    BY <1>1
  <2>2. tried[r] \in [Batches -> Seq(Backends)]
    BY <1>1
  <2> DEFINE Offers == Seq(Backends)
             added(k) == Append(tried[r][k], b)
  <2>3. /\ \A k \in Batches : added(k) \in Offers
        /\ tried[r] \in [Batches -> Offers]
    BY <2>1, <2>2
  <2> HIDE DEF Offers, added
  <2>4. [tried[r] EXCEPT ![current[r]] = added(current[r])] \in [Batches -> Offers]
    BY <2>3
  <2> QED BY <2>4 DEF Offers, added
<1> DEFINE row == [tried[r] EXCEPT ![current[r]] = Append(@, b)]
           Offers == [Batches -> Seq(Backends)]
<1>4. tried \in [Requests -> Offers] /\ tried' = [tried EXCEPT ![r] = row] /\ row \in Offers
  BY <1>1, <1>2, <1>3
<1> HIDE DEF row, Offers
<1>5. tried' \in [Requests -> Offers] /\ \A q \in Requests \ {r} : tried'[q] = tried[q]
  BY <1>4
<1>6. target' = [target EXCEPT ![r] = b]
  BY DEF Hand
<1>7. /\ target' \in [Requests -> Backends \cup {NoBackend}]
      /\ \A q \in Requests \ {r} : target'[q] = target[q]
  BY <1>1, <1>6
<1> QED BY <1>5, <1>7 DEF Offers

\* The types after a step that assigns the loop's variables and, of the rest,
\* only what it completed or acknowledged.
LEMMA TypedAfter ==
  ASSUME TypeOK, setup' = setup, LoopTyped',
         phase' = phase, backendState' = backendState,
         status' \in [Backends -> [Requests -> Statuses]],
         completions' \in [Backends -> SUBSET Requests],
         submitted' \subseteq Batches, active' \subseteq Requests,
         todo' \in [Requests -> SUBSET Batches],
         current' \in [Requests -> Batches \cup {NoBatch}],
         assignments' \in [Requests -> SUBSET Requests],
         pending' \in [Requests -> SUBSET Requests],
         answer' \in [Requests -> {"none", "completed", "failed", "cancelled"}],
         output' \subseteq Requests, executions' \in [Requests -> Nat]
  PROVE  TypeOK'
<1>1. Batches' = Batches
  BY DEF Batches, BatchOf
<1> QED BY <1>1 DEF TypeOK, LoopTyped, Labels, ResultType

-----------------------------------------------------------------------------
(* The steps inside _submit_batch. *)

\* What a step with the backend b may do besides ending the offer.
LEMMA OfferStepKeepsInv ==
  ASSUME NEW r \in Requests, NEW b \in Backends, Inv, Attempt(r, b), Sound(r)',
         \/ Refused(r, b) \/ Raised(r, b)
         \/ Accepted(r, b) /\ UNCHANGED excluded
         \/ Goto(r, "checking") /\ UNCHANGED <<excluded, result>>,
         target' \in [Requests -> Backends \cup {NoBackend}],
         tried' \in [Requests -> [Batches -> Seq(Backends)]],
         pending' \in [Requests -> SUBSET Requests],
         \A q \in Requests \ {r} :
           target'[q] = target[q] /\ tried'[q] = tried[q] /\ pending'[q] = pending[q],
         CompletionsGrow, completions' \in [Backends -> SUBSET Requests],
         status' \in [Backends -> [Requests -> Statuses]],
         \A c \in Backends : backendState[c] = "unhealthy" => status'[c] = status[c],
         submitted' \subseteq Batches, executions' \in [Requests -> Nat],
         UNCHANGED <<answer, output>>
  PROVE  Inv'
<1>1. /\ Fixed /\ UNCHANGED <<todo, current, assignments, active>> /\ pc[r] \in Submitting
      /\ TypeOK /\ setup' = setup
  BY DEF Attempt, Offering, Inv, Fixed
<1>2. /\ pc' \in [Requests -> Labels]
      /\ result' \in [Requests -> [Batches -> ResultType]]
      /\ excluded' \in [Requests -> SUBSET Backends]
      /\ LoopStepOf(r)
  BY <1>1, EndsOfOfferMove
<1>3. StepOf(r)
  BY <1>1, <1>2 DEF StepOf, LoopStepOf, CompletionsGrow
<1>4. LoopTyped'
  <2>1. Batches' = Batches
    BY <1>1 DEF Batches, BatchOf
  <2> QED BY <1>2, <2>1 DEF LoopTyped, ResultType
<1>5. TypeOK'
  <2>1. /\ active' \subseteq Requests /\ todo' \in [Requests -> SUBSET Batches]
        /\ current' \in [Requests -> Batches \cup {NoBatch}]
        /\ assignments' \in [Requests -> SUBSET Requests]
        /\ answer' \in [Requests -> {"none", "completed", "failed", "cancelled"}]
        /\ output' \subseteq Requests
    BY <1>1 DEF TypeOK
  <2> QED BY <1>1, <1>4, <2>1, TypedAfter DEF Fixed
<1>6. phase # "starting"
  BY <1>1 DEF Inv, BackendsInv, Submitting
<1> QED BY <1>3, <1>5, <1>6, StepKeepsInv

LEMMA AcknowledgeMoves ==
  ASSUME NEW r \in Requests, NEW b \in Backends, TypeOK, Acknowledge(r, b),
         backendState[b] # "unhealthy"
  PROVE  /\ status' \in [Backends -> [Requests -> Statuses]]
         /\ \A c \in Backends : backendState[c] = "unhealthy" => status'[c] = status[c]
  BY DEF TypeOK, Acknowledge, Statuses

\* The subject of r's submission.
LEMMA SubjectFacts ==
  ASSUME NEW r \in Requests, Inv, pc[r] \in Submitting
  PROVE  /\ current[r] \in Batches /\ TypeOK /\ Sound(r)
         /\ assignments[r] # {} /\ assignments[r] \subseteq Requests
         /\ \A q \in assignments[r] : BatchOf[q] = current[r]
  BY DEF Inv, TypeOK, Sound, Subject

LEMMA HandsKeepInv ==
  ASSUME NEW r \in Requests, Inv,
         SubmitUnavailable(r) \/ SubmitTurnedDown(r) \/ SubmitToMock(r) \/ SubmitToVLLM(r)
  PROVE  Inv'
<1>1. PICK b \in Backends : /\ Hand(r, b)
                            /\ \/ Raised(r, b) /\ SubmitUnavailable(r)
                               \/ Refused(r, b) /\ SubmitTurnedDown(r)
                               \/ /\ SubmitToMock(r) /\ Acknowledge(r, b) /\ Accepted(r, b)
                                  /\ ~Unavailable(b) /\ Backend[b].kind = "mock"
                               \/ Goto(r, "checking") /\ SubmitToVLLM(r) /\ ~Unavailable(b)
  BY DEF SubmitUnavailable, SubmitTurnedDown, SubmitToMock, SubmitToVLLM
<1>2. /\ Fixed /\ UNCHANGED <<setup, todo, current, assignments, active>>
      /\ UNCHANGED <<completions, pending, answer, output, executions>>
  BY DEF SubmitUnavailable, SubmitTurnedDown, SubmitToMock, SubmitToVLLM, Fixed,
     adapterVars, batchVars, answerVars
<1>3. pc[r] = "routing" /\ TypeOK
  BY <1>1 DEF Hand, Inv
<1>4. Attempt(r, b)
  BY <1>1, <1>2, HandIsAttempt
<1>5. CompletionsGrow
  BY <1>2 DEF CompletionsGrow
<1>6. /\ target' \in [Requests -> Backends \cup {NoBackend}]
      /\ tried' \in [Requests -> [Batches -> Seq(Backends)]]
      /\ \A q \in Requests \ {r} : target'[q] = target[q] /\ tried'[q] = tried[q]
  BY <1>1, <1>3, HandMoves
<1>7. /\ completions' \in [Backends -> SUBSET Requests]
      /\ pending' \in [Requests -> SUBSET Requests] /\ executions' \in [Requests -> Nat]
      /\ status \in [Backends -> [Requests -> Statuses]] /\ submitted \subseteq Batches
  BY <1>2, <1>3 DEF TypeOK
<1>8. CASE SubmitUnavailable(r) /\ Raised(r, b)
  <2>1. UNCHANGED <<status, submitted>>
    BY <1>8 DEF SubmitUnavailable, adapterVars
  <2>2. Sound(r)'
    BY <1>4, <1>5, <1>8, RaisedIsSound
  <2> QED BY <1>2, <1>4, <1>5, <1>6, <1>7, <1>8, <2>1, <2>2, OfferStepKeepsInv
<1>9. CASE SubmitTurnedDown(r) /\ Refused(r, b)
  <2>1. UNCHANGED <<status, submitted>>
    BY <1>9 DEF SubmitTurnedDown, adapterVars
  <2>2. Sound(r)'
    BY <1>4, <1>5, <1>9, RefusedIsSound
  <2> QED BY <1>2, <1>4, <1>5, <1>6, <1>7, <1>9, <2>1, <2>2, OfferStepKeepsInv
<1>10. CASE /\ SubmitToMock(r) /\ Acknowledge(r, b) /\ Accepted(r, b)
            /\ ~Unavailable(b) /\ Backend[b].kind = "mock"
  <2>1. UNCHANGED excluded /\ backendState[b] # "unhealthy"
    BY <1>10 DEF SubmitToMock, Unavailable
  <2>2. Performed(r, b)
    BY <1>4, <1>10, <2>1, RoutingAssumption DEF Performed, Attempt, Offering
  <2>3. Sound(r)'
    BY <1>4, <1>5, <1>10, <2>2, AcceptedIsSound
  <2>4. submitted' \subseteq Batches
    BY <1>3, <1>7, <1>10, SubjectFacts DEF Accepted, Submitting
  <2>5. /\ status' \in [Backends -> [Requests -> Statuses]]
        /\ \A c \in Backends : backendState[c] = "unhealthy" => status'[c] = status[c]
    BY <1>3, <1>10, <2>1, AcknowledgeMoves
  <2> QED BY <1>2, <1>4, <1>5, <1>6, <1>7, <1>10, <2>1, <2>3, <2>4, <2>5, OfferStepKeepsInv
<1>11. CASE Goto(r, "checking") /\ SubmitToVLLM(r) /\ ~Unavailable(b)
  <2>1. UNCHANGED <<status, submitted, excluded, result>> /\ backendState[b] # "unhealthy"
    BY <1>11 DEF SubmitToVLLM, adapterVars, Unavailable
  <2>2. pc'[r] = "checking"
    BY <1>3, <1>11 DEF Goto, TypeOK
  <2>3. Excludes(r)' /\ Executing(r)'
    <3>1. current' = current /\ (RoutingConfigured' <=> RoutingConfigured)
      BY <1>2, SamePromises
    <3> QED BY <1>4, <2>1, <2>2, <3>1 DEF Excludes, Executing, Tried, Attempt
  <2>4. Sound(r)'
    BY <1>4, <1>5, <2>1, <2>2, <2>3, GoesOnSound DEF Attempt, Submitting
  <2> QED BY <1>2, <1>4, <1>5, <1>6, <1>7, <1>11, <2>1, <2>4, OfferStepKeepsInv
<1> QED BY <1>1, <1>8, <1>9, <1>10, <1>11

\* A backend that was asked over the network and has not answered yet.
LEMMA InFlightFacts ==
  ASSUME NEW r \in Requests, Inv, pc[r] \in {"checking", "executing"}
  PROVE  /\ TypeOK /\ Sound(r) /\ pc[r] \in Submitting
         /\ target[r] \in Backends /\ backendState[target[r]] # "unhealthy"
         /\ ~RoutingConfigured => target[r] = DefaultBackend
         /\ current[r] \in Batches
         /\ assignments[r] # {} /\ assignments[r] \subseteq Requests
         /\ \A q \in assignments[r] : BatchOf[q] = current[r]
<1>1. pc[r] \in Submitting
  BY DEF Submitting
<1>2. /\ TypeOK /\ Sound(r) /\ target[r] \in Backends
      /\ backendState[target[r]] # "unhealthy"
      /\ ~RoutingConfigured => target[r] \in {NoBackend, DefaultBackend}
  BY DEF Inv, Sound, Targets
<1> QED BY <1>1, <1>2, SubjectFacts, RoutingAssumption

\* Steps in flight that leave the offers as they are.
LEMMA InFlightStepKeepsInv ==
  ASSUME NEW r \in Requests, Inv, pc[r] \in {"checking", "executing"},
         UNCHANGED <<phase, backendState, batchVars, target, tried, answerVars>>,
         \/ Refused(r, target[r]) \/ Raised(r, target[r])
         \/ /\ Accepted(r, target[r]) /\ UNCHANGED excluded
            /\ Performed(r, target[r]),
         pending' \in [Requests -> SUBSET Requests],
         \A q \in Requests \ {r} : pending'[q] = pending[q],
         CompletionsGrow, completions' \in [Backends -> SUBSET Requests],
         status' \in [Backends -> [Requests -> Statuses]],
         \A c \in Backends : backendState[c] = "unhealthy" => status'[c] = status[c],
         submitted' \subseteq Batches, executions' \in [Requests -> Nat]
  PROVE  Inv'
<1>1. Fixed /\ UNCHANGED <<todo, current, assignments, active, answer, output>>
  BY DEF Fixed, batchVars, answerVars
<1>2. Attempt(r, target[r])
  BY <1>1, InFlightIsAttempt
<1>3. Sound(r)'
  BY <1>2, RefusedIsSound, RaisedIsSound, AcceptedIsSound
<1>4. /\ target[r] \in Backends
      /\ target' \in [Requests -> Backends \cup {NoBackend}]
      /\ tried' \in [Requests -> [Batches -> Seq(Backends)]]
  BY InFlightFacts, TypeOKIsLoopTyped DEF LoopTyped
<1> QED BY <1>1, <1>2, <1>3, <1>4, OfferStepKeepsInv

LEMMA HealthChecksKeepInv ==
  ASSUME NEW r \in Requests, Inv,
         \/ HealthCheckRaises(r)
         \/ \E loaded \in SUBSET ServerModels : ModelNotLoaded(r, loaded) \/ DeferToStreams(r, loaded)
  PROVE  Inv'
<1>1. pc[r] = "checking"
  BY DEF HealthCheckRaises, ModelNotLoaded, DeferToStreams, InFlight
<1>2. /\ UNCHANGED <<phase, backendState, batchVars, target, tried, answerVars>>
      /\ UNCHANGED <<completions, pending, executions>>
  BY DEF HealthCheckRaises, ModelNotLoaded, DeferToStreams, adapterVars
<1>3. /\ TypeOK /\ target[r] \in Backends /\ backendState[target[r]] # "unhealthy"
      /\ ~RoutingConfigured => target[r] = DefaultBackend
      /\ current[r] \in Batches
      /\ \A q \in assignments[r] : BatchOf[q] = current[r]
  BY <1>1, InFlightFacts
<1>4. /\ CompletionsGrow /\ completions' \in [Backends -> SUBSET Requests]
      /\ pending' \in [Requests -> SUBSET Requests] /\ executions' \in [Requests -> Nat]
      /\ status \in [Backends -> [Requests -> Statuses]] /\ submitted \subseteq Batches
  BY <1>2, <1>3 DEF TypeOK, CompletionsGrow
<1>5. ASSUME Refused(r, target[r]) \/ Raised(r, target[r]), UNCHANGED <<status, submitted>>
      PROVE  Inv'
  BY <1>1, <1>2, <1>4, <1>5, InFlightStepKeepsInv
<1>6. CASE HealthCheckRaises(r)
  BY <1>5, <1>6 DEF HealthCheckRaises, adapterVars
<1>7. CASE \E loaded \in SUBSET ServerModels : ModelNotLoaded(r, loaded)
  BY <1>5, <1>7 DEF ModelNotLoaded, adapterVars
<1>8. CASE \E loaded \in SUBSET ServerModels : DeferToStreams(r, loaded)
  <2>1. /\ Acknowledge(r, target[r]) /\ Accepted(r, target[r]) /\ Defers(r)
        /\ UNCHANGED excluded
    BY <1>8 DEF DeferToStreams
  <2>2. Performed(r, target[r])
    BY <1>3, <2>1 DEF Performed, Defers
  <2>3. submitted' \subseteq Batches
    BY <1>3, <1>4, <2>1 DEF Accepted
  <2>4. /\ status' \in [Backends -> [Requests -> Statuses]]
        /\ \A c \in Backends : backendState[c] = "unhealthy" => status'[c] = status[c]
    BY <1>3, <2>1, AcknowledgeMoves
  <2> QED BY <1>1, <1>2, <1>4, <2>1, <2>2, <2>3, <2>4, InFlightStepKeepsInv
<1> QED BY <1>6, <1>7, <1>8

\* Execution begins with all assignments pending.
LEMMA BeginExecutionKeepsInv ==
  ASSUME NEW r \in Requests, NEW loaded \in SUBSET ServerModels, Inv, BeginExecution(r, loaded)
  PROVE  Inv'
<1>1. /\ pc[r] = "checking"
      /\ pending' = [pending EXCEPT ![r] = assignments[r]]
      /\ pc' = [pc EXCEPT ![r] = "executing"]
      /\ UNCHANGED <<adapterVars, submitted, batchVars, target, excluded, result, tried,
                     answerVars, executions>>
  BY DEF BeginExecution, InFlight, Goto
<1>2. /\ Fixed /\ UNCHANGED <<todo, current, assignments, active, completions, status>>
      /\ CompletionsGrow
  BY <1>1 DEF Fixed, adapterVars, batchVars, answerVars, CompletionsGrow
<1>3. /\ TypeOK /\ Sound(r) /\ pc[r] \in Submitting
      /\ target[r] \in Backends /\ backendState[target[r]] # "unhealthy"
      /\ assignments[r] # {} /\ assignments[r] \subseteq Requests
  BY <1>1, InFlightFacts
<1>4. Attempt(r, target[r])
  BY <1>1, <1>2, InFlightIsAttempt
<1>5. /\ pc'[r] = "executing" /\ pending'[r] = assignments[r]
      /\ pc' \in [Requests -> Labels] /\ pending' \in [Requests -> SUBSET Requests]
      /\ \A q \in Requests \ {r} : pc'[q] = pc[q] /\ pending'[q] = pending[q]
  BY <1>1, <1>3 DEF TypeOK, Labels
<1>6. Excludes(r)' /\ Executing(r)'
  <2>1. current' = current /\ (RoutingConfigured' <=> RoutingConfigured)
    BY <1>2, SamePromises
  <2>2. Excludes(r)'
    BY <1>1, <1>3, <1>5, <2>1 DEF Excludes, Tried, Sound
  <2>3. Executing(r)'
    BY <1>2, <1>3, <1>5 DEF Executing
  <2> QED BY <2>2, <2>3
<1>7. Sound(r)'
  BY <1>1, <1>2, <1>3, <1>4, <1>5, <1>6, GoesOnSound DEF Attempt, Submitting
<1>8. StepOf(r)
  BY <1>1, <1>2, <1>5 DEF StepOf, CompletionsGrow
<1>9. TypeOK'
  <2>1. LoopTyped'
    <3>1. Batches' = Batches
      BY <1>2 DEF Fixed, Batches, BatchOf
    <3> QED BY <1>1, <1>3, <1>5, <3>1, TypeOKIsLoopTyped DEF LoopTyped, ResultType
  <2> QED BY <1>1, <1>2, <1>3, <1>5, <2>1, TypedAfter
          DEF TypeOK, Fixed, adapterVars, answerVars
<1>10. phase # "starting"
  BY <1>1 DEF Inv, BackendsInv
<1> QED BY <1>2, <1>7, <1>8, <1>9, <1>10, StepKeepsInv

\* What is known while the members of a batch are executed one by one.
LEMMA MemberFacts ==
  ASSUME NEW r \in Requests, Inv, pc[r] = "executing"
  PROVE  /\ First(pending[r]) \in pending[r]
         /\ First(pending[r]) \in assignments[r] /\ First(pending[r]) \in Requests
         /\ pending[r] \subseteq assignments[r]
         /\ assignments[r] \ pending[r] \subseteq completions[target[r]]
<1>1. /\ pending[r] # {} /\ pending[r] \subseteq assignments[r]
      /\ assignments[r] \ pending[r] \subseteq completions[target[r]]
      /\ pending[r] \in SUBSET Requests
  BY DEF Inv, TypeOK, Sound, Executing
<1> QED BY <1>1, FirstIsLeast, RequestsAssumption

LEMMA ExecuteMemberKeepsInv ==
  ASSUME NEW r \in Requests, Inv, ExecuteMember(r)
  PROVE  Inv'
<1> DEFINE q == First(pending[r])
           b == target[r]
<1>1. /\ pc[r] = "executing"
      /\ status' = [status EXCEPT ![b] = [status[b] EXCEPT ![q] = "completed"]]
      /\ completions' = [completions EXCEPT ![b] = @ \cup {q}]
      /\ executions' = [executions EXCEPT ![q] = @ + 1]
      /\ pending' = [pending EXCEPT ![r] = @ \ {q}]
      /\ IF LastMember(r) THEN Accepted(r, b) ELSE UNCHANGED <<submitted, pc, result>>
      /\ UNCHANGED <<phase, backendState, batchVars, target, excluded, tried, answerVars>>
  BY DEF ExecuteMember, InFlight, Inv, TypeOK
<1>2. /\ TypeOK /\ Sound(r) /\ pc[r] \in Submitting /\ current[r] \in Batches
      /\ b \in Backends /\ backendState[b] # "unhealthy"
      /\ ~RoutingConfigured => b = DefaultBackend
  BY <1>1, InFlightFacts
<1>3. /\ q \in pending[r] /\ q \in Requests /\ pending[r] \subseteq assignments[r]
      /\ assignments[r] \ pending[r] \subseteq completions[b]
  BY <1>1, MemberFacts
<1> HIDE DEF q, b
<1>4. /\ completions' \in [Backends -> SUBSET Requests] /\ CompletionsGrow
      /\ completions'[b] = completions[b] \cup {q}
  BY <1>1, <1>2, <1>3 DEF TypeOK, CompletionsGrow
<1>5. /\ status' \in [Backends -> [Requests -> Statuses]]
      /\ \A c \in Backends : backendState[c] = "unhealthy" => status'[c] = status[c]
  <2>1. [status[b] EXCEPT ![q] = "completed"] \in [Requests -> Statuses]
    BY <1>2, <1>3 DEF TypeOK, Statuses
  <2> QED BY <1>1, <1>2, <2>1 DEF TypeOK
<1>6. executions' \in [Requests -> Nat]
  <2>1. executions \in [Requests -> Nat] /\ executions[q] + 1 \in Nat
    BY <1>2, <1>3 DEF TypeOK
  <2> QED BY <1>1, <2>1
<1>7. /\ pending' \in [Requests -> SUBSET Requests]
      /\ pending'[r] = pending[r] \ {q}
      /\ \A p \in Requests \ {r} : pending'[p] = pending[p]
  BY <1>1, <1>2 DEF TypeOK
<1>8. CASE LastMember(r)
  <2>1. assignments[r] \subseteq completions'[b]
    BY <1>3, <1>4, <1>8 DEF LastMember, q
  <2>2. Performed(r, b)
    BY <1>2, <2>1 DEF Performed
  <2>3. submitted' \subseteq Batches /\ Accepted(r, b)
    BY <1>1, <1>2, <1>8 DEF Accepted, TypeOK
  <2> QED BY <1>1, <1>4, <1>5, <1>6, <1>7, <2>2, <2>3, InFlightStepKeepsInv DEF b
<1>9. CASE ~LastMember(r)
  <2>1. UNCHANGED <<submitted, pc, result>>
    BY <1>1, <1>9
  <2>2. Fixed /\ UNCHANGED <<todo, current, assignments, active, answer, output>>
    BY <1>1 DEF Fixed, batchVars, answerVars
  <2>3. Offering(r)
    BY <1>1, <2>2, InFlightIsAttempt DEF Attempt
  <2>4. pending'[r] # {}
    BY <1>3, <1>7, <1>9 DEF LastMember, q
  <2>5. Executing(r)'
    BY <1>1, <1>3, <1>4, <1>7, <2>1, <2>2, <2>4 DEF Executing, b
  <2>6. Excludes(r)'
    <3>1. RoutingConfigured' <=> RoutingConfigured
      BY <2>2, SamePromises
    <3> QED BY <1>1, <1>2, <2>1, <2>2, <3>1 DEF Sound, Excludes, Tried
  <2>7. Sound(r)'
    BY <1>1, <1>2, <1>4, <2>1, <2>3, <2>5, <2>6, GoesOnSound DEF b
  <2>8. StepOf(r)
    BY <1>1, <1>4, <1>7, <2>1, <2>2 DEF StepOf, CompletionsGrow
  <2>9. LoopTyped'
    <3>1. Batches' = Batches
      BY <2>2 DEF Fixed, Batches, BatchOf
    <3> QED BY <1>1, <1>2, <2>1, <3>1, TypeOKIsLoopTyped DEF LoopTyped, ResultType
  <2>10. TypeOK'
    BY <1>2, <1>4, <1>5, <1>6, <1>7, <2>1, <2>2, <2>9, TypedAfter DEF TypeOK, Fixed
  <2>11. phase # "starting"
    BY <1>1 DEF Inv, BackendsInv
  <2> QED BY <1>5, <2>7, <2>8, <2>10, <2>11, StepKeepsInv
<1> QED BY <1>8, <1>9

\* A member that fails, or an HTTP request that raises, drops the others.
LEMMA ExecutionFailuresKeepInv ==
  ASSUME NEW r \in Requests, Inv, ExecuteMemberFails(r) \/ ExecuteMemberRaises(r)
  PROVE  Inv'
<1> DEFINE q == First(pending[r])
           b == target[r]
<1>1. /\ pc[r] = "executing"
      /\ pending' = [pending EXCEPT ![r] = {}]
      /\ Refused(r, b) \/ Raised(r, b)
      /\ UNCHANGED <<phase, backendState, completions, submitted, batchVars, target, tried,
                     answerVars, executions>>
  BY DEF ExecuteMemberFails, ExecuteMemberRaises, InFlight, adapterVars
<1>2. TypeOK /\ b \in Backends /\ backendState[b] # "unhealthy" /\ q \in Requests
  BY <1>1, InFlightFacts, MemberFacts
<1>3. status' \in {status, [status EXCEPT ![b] = [status[b] EXCEPT ![q] = "failed"]]}
  BY <1>2 DEF ExecuteMemberFails, ExecuteMemberRaises, adapterVars, TypeOK
<1> HIDE DEF q, b
<1>4. /\ status' \in [Backends -> [Requests -> Statuses]]
      /\ \A c \in Backends : backendState[c] = "unhealthy" => status'[c] = status[c]
  <2>1. [status[b] EXCEPT ![q] = "failed"] \in [Requests -> Statuses]
    BY <1>2 DEF TypeOK, Statuses
  <2>2. status \in [Backends -> [Requests -> Statuses]]
    BY <1>2 DEF TypeOK
  <2>3. CASE status' = [status EXCEPT ![b] = [status[b] EXCEPT ![q] = "failed"]]
    BY <1>2, <2>1, <2>2, <2>3
  <2> QED BY <1>3, <2>2, <2>3
<1>5. /\ pending' \in [Requests -> SUBSET Requests]
      /\ \A p \in Requests \ {r} : pending'[p] = pending[p]
      /\ completions' \in [Backends -> SUBSET Requests] /\ CompletionsGrow
      /\ submitted' \subseteq Batches /\ executions' \in [Requests -> Nat]
  BY <1>1, <1>2 DEF TypeOK, CompletionsGrow
<1> QED BY <1>1, <1>4, <1>5, InFlightStepKeepsInv DEF b

-----------------------------------------------------------------------------
(* The loop over the batches, and the answer. *)

\* The coroutine is, or comes, out of _submit_batch and keeps its results.
LEMMA QuietStepKeepsInv ==
  ASSUME NEW r \in Requests, NEW label \in {"listing", "streaming", "done"},
         Inv, pc[r] \notin {"cycled", "done"}, Goto(r, label),
         UNCHANGED <<phase, backendState, completions, submitted, loopVars>>,
         label # "done" => active' = active,
         label = "streaming" => Own(r).outcome = "accepted",
         active' \in {active, active \ {r}},
         status' \in [Backends -> [Requests -> Statuses]],
         \A c \in Backends : backendState[c] = "unhealthy" => status'[c] = status[c],
         answer' \in [Requests -> {"none", "completed", "failed", "cancelled"}],
         output' \subseteq Requests, executions' \in [Requests -> Nat]
  PROVE  Inv'
<1>1. /\ Fixed /\ CompletionsGrow
      /\ UNCHANGED <<todo, current, assignments, pending, target, excluded, result, tried>>
  BY DEF Fixed, loopVars, batchVars, CompletionsGrow
<1>2. /\ Batches' = Batches /\ BatchOf' = BatchOf /\ ModelOf' = ModelOf
      /\ Streaming' = Streaming /\ (RoutingConfigured' <=> RoutingConfigured)
      /\ \A j : UsableFor(j)' = UsableFor(j)
  BY <1>1, SamePromises
<1>3. /\ TypeOK /\ Sound(r) /\ BatchOf[r] \in Batches
      /\ pc'[r] = label /\ pc' \in [Requests -> Labels]
      /\ \A q \in Requests \ {r} : pc'[q] = pc[q]
  BY DEF Inv, TypeOK, Goto, Labels, Batches
<1>4. StepOf(r)
  BY <1>1, <1>3 DEF StepOf, CompletionsGrow
<1>5. Fresh(r)' /\ Subject(r)' /\ Excludes(r)' /\ Executing(r)'
  <2>1. Fresh(r)'
    BY <1>1, <1>2, <1>3 DEF Sound, Fresh
  <2>2. Subject(r)'
    BY <1>3 DEF Sound, Subject, Submitting
  <2>3. Excludes(r)' /\ Executing(r)'
    BY <1>3 DEF Excludes, Executing
  <2> QED BY <2>1, <2>2, <2>3
<1>6. Targets(r)' /\ Results(r)'
  BY <1>1, <1>2, <1>3 DEF Sound, Targets, Results, Own, Fixed
<1>7. Executed(r)'
  <2>1. Own(r)' = Own(r) /\ (Own(r).outcome = "accepted" => Own(r).backend \in Backends)
    BY <1>1, <1>2, <1>3 DEF Own, Sound, Results
  <2> QED BY <1>2, <1>3, <1>1, <2>1 DEF Sound, Executed, CompletionsGrow
<1>8. Ordered(r)' /\ Exhausted(r)'
  BY <1>1, <1>2, <1>3 DEF Sound, Ordered, Exhausted, Fixed
<1>9. Sound(r)'
  BY <1>5, <1>6, <1>7, <1>8 DEF Sound
<1>10. LoopTyped'
  BY <1>1, <1>2, <1>3, TypeOKIsLoopTyped DEF LoopTyped, ResultType
<1>11. TypeOK'
  BY <1>1, <1>3, <1>10, TypedAfter DEF TypeOK, Fixed
<1>12. phase # "starting"
  BY DEF Inv, BackendsInv
<1> QED BY <1>4, <1>9, <1>11, <1>12, StepKeepsInv

\* The backend that accepted r's batch is not one found unavailable.
LEMMA OwnFacts ==
  ASSUME NEW r \in Requests, Inv, Own(r).outcome = "accepted"
  PROVE  Own(r).backend \in Backends /\ backendState[Own(r).backend] # "unhealthy"
  BY DEF Inv, Sound, Results, Own, Batches

LEMMA AnswersKeepInv ==
  ASSUME NEW r \in Requests, Inv,
         \/ BatchGone(r) \/ AnswerFailed(r) \/ AnswerCompleted(r) \/ BeginStream(r)
         \/ StreamEnds(r) \/ StreamFails(r) \/ StreamCancelled(r)
  PROVE  Inv'
<1> DEFINE b == Own(r).backend
           Answers == {"none", "completed", "failed", "cancelled"}
<1>1. /\ TypeOK /\ status \in [Backends -> [Requests -> Statuses]]
      /\ answer \in [Requests -> Answers] /\ output \subseteq Requests
      /\ executions \in [Requests -> Nat]
  BY DEF Inv, TypeOK
<1>2. ASSUME NEW a \in {"completed", "failed", "cancelled"}, answer' = [answer EXCEPT ![r] = a]
      PROVE  answer' \in [Requests -> Answers]
  BY <1>1, <1>2
<1>3. ASSUME NEW a \in {"completed", "cancelled"}, b \in Backends, backendState[b] # "unhealthy",
             status' = [status EXCEPT ![b] = [status[b] EXCEPT ![r] = a]]
      PROVE  /\ status' \in [Backends -> [Requests -> Statuses]]
             /\ \A c \in Backends : backendState[c] = "unhealthy" => status'[c] = status[c]
  <2>1. [status[b] EXCEPT ![r] = a] \in [Requests -> Statuses]
    BY <1>1, <1>3 DEF Statuses
  <2> QED BY <1>1, <1>3, <2>1
<1>4. CASE BatchGone(r) \/ BeginStream(r)
  <2>1. /\ pc[r] \notin {"cycled", "done"}
        /\ UNCHANGED <<phase, backendState, status, completions, submitted, loopVars,
                       active, answer, output, executions>>
    BY <1>4 DEF BatchGone, BeginStream, Answering, adapterVars, answerVars
  <2>2. \/ Goto(r, "listing")
        \/ Goto(r, "streaming") /\ Own(r).outcome = "accepted"
    BY <1>4 DEF BatchGone, BeginStream
  <2> QED BY <1>1, <2>1, <2>2, QuietStepKeepsInv
<1>5. CASE AnswerFailed(r) \/ StreamFails(r)
  <2>1. /\ pc[r] \notin {"cycled", "done"} /\ Goto(r, "done")
        /\ answer' = [answer EXCEPT ![r] = "failed"]
        /\ UNCHANGED <<phase, backendState, status, completions, submitted, loopVars,
                       active, output, executions>>
    BY <1>5 DEF AnswerFailed, StreamFails, Answering, InFlight, Answer, adapterVars
  <2> QED BY <1>1, <1>2, <2>1, QuietStepKeepsInv
<1>6. CASE AnswerCompleted(r)
  <2>1. /\ pc[r] \notin {"cycled", "done"} /\ Goto(r, "done")
        /\ answer' = [answer EXCEPT ![r] = "completed"]
        /\ active' = active \ {r} /\ output' \subseteq output \cup {r}
        /\ UNCHANGED <<phase, backendState, status, completions, submitted, loopVars, executions>>
    BY <1>6 DEF AnswerCompleted, Answering, Answer, adapterVars
  <2> QED BY <1>1, <1>2, <2>1, QuietStepKeepsInv
<1>7. CASE StreamEnds(r)
  <2>1. Own(r).outcome = "accepted"
    BY <1>7 DEF StreamEnds, InFlight, Inv, Sound, Results
  <2>2. /\ pc[r] \notin {"cycled", "done"} /\ Goto(r, "done")
        /\ answer' = [answer EXCEPT ![r] = "completed"]
        /\ status' = [status EXCEPT ![b] = [status[b] EXCEPT ![r] = "completed"]]
        /\ executions' = [executions EXCEPT ![r] = @ + 1]
        /\ active' = active \ {r}
        /\ UNCHANGED <<phase, backendState, completions, submitted, loopVars, output>>
    BY <1>1, <1>7 DEF StreamEnds, InFlight, Answer
  <2>3. executions' \in [Requests -> Nat]
    <3>1. executions[r] + 1 \in Nat
      BY <1>1
    <3> QED BY <1>1, <2>2, <3>1
  <2>4. b \in Backends /\ backendState[b] # "unhealthy"
    BY <2>1, OwnFacts
  <2> HIDE DEF b
  <2> QED BY <1>1, <1>2, <1>3, <2>2, <2>3, <2>4, QuietStepKeepsInv
<1>8. CASE StreamCancelled(r)
  <2>1. Own(r).outcome = "accepted"
    BY <1>8 DEF StreamCancelled, InFlight, Inv, Sound, Results
  <2>2. /\ pc[r] \notin {"cycled", "done"} /\ Goto(r, "done")
        /\ answer' = [answer EXCEPT ![r] = "cancelled"]
        /\ status' = [status EXCEPT ![b] = [status[b] EXCEPT ![r] = "cancelled"]]
        /\ UNCHANGED <<phase, backendState, completions, submitted, loopVars, active, output,
                       executions>>
    BY <1>1, <1>8 DEF StreamCancelled, InFlight, Answer
  <2>3. b \in Backends /\ backendState[b] # "unhealthy"
    BY <2>1, OwnFacts
  <2> HIDE DEF b
  <2> QED BY <1>1, <1>2, <1>3, <2>2, <2>3, QuietStepKeepsInv
<1> QED BY <1>4, <1>5, <1>6, <1>7, <1>8

\* Without a backend to offer the batch to, all usable ones have been tried.
LEMMA NoRouteKeepsInv ==
  ASSUME NEW r \in Requests, Inv, NoRoute(r)
  PROVE  Inv'
<1>1. /\ pc[r] = "routing" /\ RouteFor(r, excluded[r]) = NoBackend
      /\ Finish(r, "refused", DefaultBackend)
      /\ UNCHANGED <<adapterVars, submitted, batchVars, pending, target, excluded, tried,
                     answerVars, executions>>
  BY DEF NoRoute
<1>2. /\ Fixed /\ UNCHANGED <<todo, current, assignments, active, completions, status>>
      /\ CompletionsGrow /\ TypeOK /\ Sound(r) /\ setup' = setup
  BY <1>1 DEF Fixed, adapterVars, batchVars, answerVars, CompletionsGrow, Inv
<1>3. Offering(r)
  BY <1>1, <1>2, SubjectFacts DEF Offering, Submitting, Sound, Targets, Ordered
<1>4. ASSUME RoutingConfigured
      PROVE  Complete(UsableFor(current[r]), tried'[r][current[r]])
  <2>1. Route(ModelOf[current[r]], backendState, excluded[r]) = NoBackend
    BY <1>1, <1>4 DEF RouteFor, Model
  <2>2. UsableFor(current[r]) \subseteq excluded[r]
    BY <1>2, <2>1, RouteIsPreferred DEF UsableFor, TypeOK
  <2>3. excluded[r] = {tried[r][current[r]][i] : i \in DOMAIN tried[r][current[r]]}
    BY <1>1, <1>2, <1>4 DEF Sound, Excludes, Tried
  <2> QED BY <1>1, <2>2, <2>3 DEF Complete
<1>5. Sound(r)'
  BY <1>1, <1>2, <1>3, <1>4, FinishIsSound
<1>6. /\ pc' \in [Requests -> Labels]
      /\ result' \in [Requests -> [Batches -> ResultType]]
      /\ \A q \in Requests \ {r} : pc'[q] = pc[q] /\ result'[q] = result[q]
  BY <1>1, <1>2, FinishMoves, BackendsAssumption
<1>7. StepOf(r)
  BY <1>1, <1>2, <1>6 DEF StepOf, CompletionsGrow
<1>8. LoopTyped'
  <2>1. Batches' = Batches
    BY <1>2 DEF Batches, BatchOf
  <2> QED BY <1>1, <1>2, <1>6, <2>1, TypeOKIsLoopTyped DEF LoopTyped, ResultType
<1>9. TypeOK'
  BY <1>1, <1>2, <1>8, TypedAfter DEF TypeOK, Fixed, adapterVars, answerVars
<1>10. phase # "starting"
  BY <1>1 DEF Inv, BackendsInv
<1> QED BY <1>2, <1>5, <1>7, <1>9, <1>10, StepKeepsInv

LEMMA BatchesAreNumbers ==
  ASSUME TypeOK
  PROVE  Batches \subseteq Nat /\ \A r \in Requests : BatchOf[r] \in Batches
  BY SetupsAssumption DEF TypeOK, Batches, BatchOf

\* Nothing has been offered when a coroutine begins to look at the batches.
LEMMA SubmitPendingBatchesKeepsInv ==
  ASSUME NEW r \in Requests, Inv, SubmitPendingBatches(r)
  PROVE  Inv'
<1>1. /\ pc[r] = "cycled" /\ phase # "starting"
      /\ todo' = [todo EXCEPT ![r] = Batches]
      /\ pc' = [pc EXCEPT ![r] = "listing"]
      /\ UNCHANGED <<setup, adapterVars, submitted, current, assignments, pending, target,
                     excluded, result, tried, answerVars, executions>>
  BY DEF SubmitPendingBatches, Goto
<1>2. /\ Fixed /\ UNCHANGED <<active, completions, status>> /\ CompletionsGrow
      /\ TypeOK /\ Sound(r) /\ BatchOf[r] \in Batches
  BY <1>1, BatchesAreNumbers DEF Fixed, adapterVars, answerVars, CompletionsGrow, Inv
<1>3. /\ Batches' = Batches /\ BatchOf' = BatchOf /\ ModelOf' = ModelOf
      /\ Streaming' = Streaming /\ (RoutingConfigured' <=> RoutingConfigured)
      /\ \A j : UsableFor(j)' = UsableFor(j)
  BY <1>2, SamePromises
<1>4. /\ pc'[r] = "listing" /\ pc' \in [Requests -> Labels]
      /\ todo' \in [Requests -> SUBSET Batches]
      /\ \A q \in Requests \ {r} : pc'[q] = pc[q] /\ todo'[q] = todo[q]
  BY <1>1, <1>2 DEF TypeOK, Labels
<1>5. \A k \in Batches : tried[r][k] = <<>> /\ result[r][k] = NoResult
  BY <1>1, <1>2 DEF Sound, Fresh
<1>6. Fresh(r)' /\ Subject(r)' /\ Excludes(r)' /\ Executing(r)'
  <2>1. Fresh(r)'
    BY <1>1, <1>3, <1>4, <1>5 DEF Fresh, NoResult
  <2>2. Subject(r)'
    BY <1>1, <1>2, <1>4 DEF Sound, Subject, Submitting
  <2>3. Excludes(r)' /\ Executing(r)'
    BY <1>4 DEF Excludes, Executing
  <2> QED BY <2>1, <2>2, <2>3
<1>7. Targets(r)'
  BY <1>1, <1>2, <1>3, <1>4 DEF Sound, Targets, Fixed
<1>8. Results(r)' /\ Executed(r)' /\ Exhausted(r)'
  BY <1>1, <1>2, <1>3, <1>4, <1>5 DEF Results, Executed, Exhausted, Own, NoResult
<1>9. Ordered(r)'
  BY <1>1, <1>2, <1>3 DEF Sound, Ordered, Fixed
<1>10. Sound(r)'
  BY <1>6, <1>7, <1>8, <1>9 DEF Sound
<1>11. StepOf(r)
  BY <1>1, <1>2, <1>4 DEF StepOf, CompletionsGrow
<1>12. LoopTyped'
  BY <1>1, <1>2, <1>3, <1>4, TypeOKIsLoopTyped DEF LoopTyped, ResultType
<1>13. TypeOK'
  BY <1>1, <1>2, <1>4, <1>12, TypedAfter DEF TypeOK, Fixed, answerVars
<1> QED BY <1>1, <1>2, <1>10, <1>11, <1>13, StepKeepsInv

\* The next batch is one with members, and r itself, as it is not answered
\* yet, is among the members of its own.
LEMMA NextBatchKeepsInv ==
  ASSUME NEW r \in Requests, Inv, NextBatch(r)
  PROVE  Inv'
<1> DEFINE k == First(Pending(r))
           rest == {j \in todo[r] : j > k}
<1>1. /\ pc[r] = "listing" /\ Pending(r) # {}
      /\ current' = [current EXCEPT ![r] = k]
      /\ todo' = [todo EXCEPT ![r] = rest]
      /\ assignments' = [assignments EXCEPT ![r] = BatchMembers(k)]
      /\ excluded' = [excluded EXCEPT ![r] = {}]
      /\ pc' = [pc EXCEPT ![r] = "routing"]
      /\ UNCHANGED <<setup, adapterVars, submitted, pending, target, result, tried,
                     answerVars, executions>>
  BY DEF NextBatch, Goto
<1>2. /\ Fixed /\ UNCHANGED <<active, completions, status>> /\ CompletionsGrow
      /\ TypeOK /\ Sound(r) /\ BatchOf[r] \in Batches /\ Batches \subseteq Nat
      /\ todo[r] \subseteq Batches
  BY <1>1, BatchesAreNumbers DEF Fixed, adapterVars, answerVars, CompletionsGrow, Inv, TypeOK
<1>3. k \in Pending(r) /\ Pending(r) \subseteq todo[r]
  <2>1. Pending(r) \subseteq todo[r]
    BY DEF Pending
  <2> QED BY <1>1, <1>2, <2>1, FirstIsLeast
<1>4. /\ k \in Batches /\ k \in todo[r] /\ k \notin rest /\ rest \subseteq todo[r]
      /\ rest \subseteq Batches
      /\ BatchMembers(k) # {} /\ BatchMembers(k) \subseteq Requests
      /\ \A q \in BatchMembers(k) : BatchOf[q] = k
      /\ BatchOf[r] = k => r \in BatchMembers(k)
  <2>1. k \in Nat /\ ~(k > k)
    <3>1. k \in Nat
      BY <1>2, <1>3
    <3> HIDE DEF k
    <3> QED BY <3>1
  <2>2. active \subseteq Requests /\ r \in active
    BY <1>1, <1>2 DEF TypeOK, Sound, Subject
  <2> QED BY <1>2, <1>3, <2>1, <2>2 DEF Pending, BatchMembers
<1> HIDE DEF k, rest
<1>5. /\ Batches' = Batches /\ BatchOf' = BatchOf /\ ModelOf' = ModelOf
      /\ Streaming' = Streaming /\ (RoutingConfigured' <=> RoutingConfigured)
      /\ \A j : UsableFor(j)' = UsableFor(j)
  BY <1>2, SamePromises
<1>6. /\ pc'[r] = "routing" /\ current'[r] = k /\ todo'[r] = rest
      /\ assignments'[r] = BatchMembers(k) /\ excluded'[r] = {}
  BY <1>1, <1>2 DEF TypeOK
<1>7. /\ pc' \in [Requests -> Labels]
      /\ current' \in [Requests -> Batches \cup {NoBatch}]
      /\ todo' \in [Requests -> SUBSET Batches]
      /\ assignments' \in [Requests -> SUBSET Requests]
      /\ excluded' \in [Requests -> SUBSET Backends]
  BY <1>1, <1>2, <1>4 DEF TypeOK, Labels
<1>8. tried[r][k] = <<>> /\ result[r][k] = NoResult
  BY <1>2, <1>4 DEF Sound, Fresh
<1>9. Fresh(r)' /\ Subject(r)'
  <2>1. Fresh(r)'
    BY <1>1, <1>2, <1>4, <1>5, <1>6 DEF Sound, Fresh
  <2>2. Subject(r)'
    BY <1>1, <1>2, <1>4, <1>5, <1>6, <1>8 DEF Sound, Subject, Submitting, NoResult
  <2> QED BY <2>1, <2>2
<1>10. Excludes(r)' /\ Executing(r)'
  <2>1. {tried[r][k][i] : i \in DOMAIN tried[r][k]} = {}
    BY <1>8
  <2>2. Tried(r)' = {tried[r][k][i] : i \in DOMAIN tried[r][k]}
    BY <1>1, <1>6 DEF Tried
  <2> QED BY <1>6, <2>1, <2>2 DEF Excludes, Executing
<1>11. Targets(r)' /\ Results(r)'
  BY <1>1, <1>2, <1>5, <1>6 DEF Sound, Targets, Results, Own, Fixed
<1>12. Executed(r)'
  BY <1>1, <1>2, <1>5 DEF Sound, Executed, Own
<1>13. Ordered(r)' /\ Exhausted(r)'
  BY <1>1, <1>2, <1>5 DEF Sound, Ordered, Exhausted, Fixed
<1>14. Sound(r)'
  BY <1>9, <1>10, <1>11, <1>12, <1>13 DEF Sound
<1>15. StepOf(r)
  BY <1>1, <1>2 DEF StepOf, CompletionsGrow, TypeOK
<1>16. LoopTyped'
  BY <1>1, <1>2, <1>5, <1>7, TypeOKIsLoopTyped DEF LoopTyped, ResultType
<1>17. TypeOK'
  BY <1>1, <1>2, <1>7, <1>16, TypedAfter DEF TypeOK, Fixed, answerVars
<1>18. phase # "starting"
  BY <1>1 DEF Inv, BackendsInv
<1> QED BY <1>2, <1>14, <1>15, <1>17, <1>18, StepKeepsInv

-----------------------------------------------------------------------------
(* The adapter starts and stops. *)

LEMMA HealthOutcomesTyped ==
  ASSUME NEW b
  PROVE  HealthOutcomes(b) \subseteq {"healthy", "degraded", "unhealthy"}
  BY DEF HealthOutcomes, ReachableHealth

\* During startup nobody has begun, so whatever is found of a backend is in time.
LEMMA RefreshKeepsInv == Inv /\ RefreshBackendHealth => Inv'
<1> SUFFICES ASSUME Inv, RefreshBackendHealth PROVE Inv'
  OBVIOUS
<1>1. PICK s \in HealthOutcomes(First(Unchecked)) :
        backendState' = [backendState EXCEPT ![First(Unchecked)] = s]
  BY DEF RefreshBackendHealth
<1>2. /\ phase = "starting" /\ phase' \in {"starting", "running"}
      /\ UNCHANGED <<status, completions, submitted, pc, loopVars, answerVars, executions>>
  BY DEF RefreshBackendHealth
<1>3. /\ \A b \in Backends, r \in Requests : status[b][r] = "unknown"
      /\ \A r \in Requests : pc[r] = "cycled"
      /\ TypeOK
  BY <1>2 DEF Inv, BackendsInv
<1>4. backendState' \in [Backends -> BackendStates]
  BY <1>1, <1>3, HealthOutcomesTyped DEF TypeOK, BackendStates
<1>5. /\ setup' = setup /\ Batches' = Batches /\ BatchOf' = BatchOf
      /\ RoutingConfigured' = RoutingConfigured /\ ModelOf' = ModelOf /\ Streaming' = Streaming
  BY <1>2 DEF loopVars, batchVars, Batches, BatchOf, RoutingConfigured, ModelOf, Streaming
<1>6. TypeOK'
  BY <1>2, <1>3, <1>4, <1>5 DEF TypeOK, loopVars, batchVars, answerVars
<1>7. BackendsInv'
  BY <1>2, <1>3 DEF BackendsInv
<1>8. ASSUME NEW r \in Requests PROVE Sound(r)'
  <2>1. /\ Sound(r) /\ pc[r] = "cycled" /\ target[r] = NoBackend
        /\ \A k \in Batches : tried[r][k] = <<>> /\ result[r][k] = NoResult
        /\ BatchOf[r] \in Batches
    BY <1>3, BatchesAreNumbers DEF Inv, Sound, Fresh
  <2>2. UNCHANGED <<setup, pc, todo, current, assignments, pending, target, excluded,
                    result, tried, active, completions>>
    BY <1>2 DEF loopVars, batchVars, answerVars
  <2>3. Fresh(r)' /\ Subject(r)' /\ Excludes(r)' /\ Executing(r)'
    BY <1>5, <2>1, <2>2 DEF Sound, Fresh, Subject, Excludes, Executing, Submitting
  <2>4. Targets(r)' /\ Results(r)'
    <3>1. NoBackend \notin Backends
      BY RoutingAssumption
    <3>2. Targets(r)'
      BY <2>1, <2>2, <3>1 DEF Targets
    <3>3. Results(r)'
      BY <1>5, <2>1, <2>2 DEF Results, NoResult
    <3> QED BY <3>2, <3>3
  <2>5. Executed(r)' /\ Exhausted(r)'
    BY <1>5, <2>1, <2>2 DEF Executed, Exhausted, Own, NoResult
  <2>6. Ordered(r)'
    <3>1. \A m, usable : InOrder(m, usable, <<>>)
      BY DEF InOrder
    <3> QED BY <1>5, <2>1, <2>2, <3>1 DEF Ordered
  <2> QED BY <2>3, <2>4, <2>5, <2>6 DEF Sound
<1> QED BY <1>6, <1>7, <1>8 DEF Inv

\* After the shutdown nothing is promised of the offers, and what was accepted
\* stays executed.
LEMMA ShutdownKeepsInv == Inv /\ Shutdown => Inv'
<1> SUFFICES ASSUME Inv, Shutdown PROVE Inv'
  OBVIOUS
<1>1. /\ phase = "running" /\ phase' = "stopped"
      /\ backendState' = [b \in Backends |-> "stopped"]
      /\ UNCHANGED <<status, completions, submitted, pc, loopVars, answerVars, executions>>
  BY DEF Shutdown
<1>2. TypeOK
  BY DEF Inv
<1>3. /\ setup' = setup /\ Batches' = Batches /\ BatchOf' = BatchOf
      /\ RoutingConfigured' = RoutingConfigured /\ ModelOf' = ModelOf /\ Streaming' = Streaming
  BY <1>1 DEF loopVars, batchVars, Batches, BatchOf, RoutingConfigured, ModelOf, Streaming
<1>4. TypeOK'
  <2>1. backendState' \in [Backends -> BackendStates]
    BY <1>1 DEF BackendStates
  <2> QED BY <1>1, <1>2, <1>3, <2>1 DEF TypeOK, loopVars, batchVars, answerVars
<1>5. BackendsInv'
  BY <1>1 DEF BackendsInv
<1>6. ASSUME NEW r \in Requests PROVE Sound(r)'
  <2>1. Sound(r)
    BY DEF Inv
  <2>2. UNCHANGED <<setup, pc, todo, current, assignments, pending, target, excluded,
                    result, tried, active, completions>>
    BY <1>1 DEF loopVars, batchVars, answerVars
  <2>3. Fresh(r)' /\ Subject(r)'
    BY <1>3, <2>1, <2>2 DEF Sound, Fresh, Subject
  <2>4. Excludes(r)' /\ Executing(r)'
    BY <1>3, <2>1, <2>2 DEF Sound, Excludes, Executing, Tried
  <2>5. Targets(r)' /\ Results(r)'
    BY <1>1, <1>3, <2>1, <2>2 DEF Sound, Targets, Results, Own
  <2>6. Executed(r)'
    BY <1>3, <2>1, <2>2 DEF Sound, Executed, Own
  <2>7. Ordered(r)' /\ Exhausted(r)'
    BY <1>1 DEF Ordered, Exhausted
  <2> QED BY <2>3, <2>4, <2>5, <2>6, <2>7 DEF Sound
<1> QED BY <1>4, <1>5, <1>6 DEF Inv

LEMMA StutterKeepsInv == Inv /\ UNCHANGED vars => Inv'
<1> SUFFICES ASSUME Inv, UNCHANGED vars PROVE Inv'
  OBVIOUS
<1>1. /\ Fixed /\ completions' = completions /\ status' = status
      /\ UNCHANGED <<submitted, pc, todo, current, assignments, pending, target, excluded, result,
                     tried, active, answer, output, executions>>
  BY DEF vars, adapterVars, loopVars, batchVars, answerVars, Fixed
<1>2. TypeOK'
  <2>1. TypeOK /\ Batches' = Batches
    BY <1>1 DEF Inv, Fixed, Batches, BatchOf
  <2>2. LoopTyped'
    BY <1>1, <2>1, TypeOKIsLoopTyped DEF LoopTyped, ResultType
  <2> QED BY <1>1, <2>1, <2>2, TypedAfter DEF TypeOK, Fixed
<1>3. \A q \in Requests : Sound(q)'
  <2> SUFFICES ASSUME NEW q \in Requests PROVE Sound(q)'
    OBVIOUS
  <2>1. /\ Sound(q) /\ Batches' = Batches /\ BatchOf' = BatchOf /\ ModelOf' = ModelOf
        /\ Streaming' = Streaming /\ (RoutingConfigured' <=> RoutingConfigured)
        /\ \A k : UsableFor(k)' = UsableFor(k)
    BY <1>1, SamePromises DEF Inv
  <2>2. Fresh(q)' /\ Subject(q)'
    BY <1>1, <2>1 DEF Sound, Fresh, Subject
  <2>3. Excludes(q)' /\ Executing(q)'
    BY <1>1, <2>1 DEF Sound, Excludes, Executing, Tried
  <2>4. Targets(q)' /\ Results(q)'
    BY <1>1, <2>1 DEF Sound, Targets, Results, Own, Fixed
  <2>5. Executed(q)'
    BY <1>1, <2>1 DEF Sound, Executed, Own
  <2>6. Ordered(q)' /\ Exhausted(q)'
    BY <1>1, <2>1 DEF Sound, Ordered, Exhausted, Fixed
  <2> QED BY <2>2, <2>3, <2>4, <2>5, <2>6 DEF Sound
<1>4. BackendsInv'
  BY <1>1 DEF Inv, BackendsInv, Fixed
<1> QED BY <1>2, <1>3, <1>4 DEF Inv

LEMMA InitInv == Init => Inv
<1> SUFFICES ASSUME Init PROVE Inv
  OBVIOUS
<1>1. /\ setup \in Setups /\ Batches \subseteq Nat
      /\ \A r \in Requests : BatchOf[r] \in Batches
  BY SetupsAssumption DEF Init, Batches, BatchOf
<1>2. TypeOK
  <2>1. NoResult \in ResultType
    BY DEF NoResult, ResultType
  <2>2. result \in [Requests -> [Batches -> ResultType]]
    BY <2>1 DEF Init
  <2>3. tried \in [Requests -> [Batches -> Seq(Backends)]]
    BY DEF Init
  <2>4. /\ setup \in Setups /\ phase \in {"starting", "running", "stopped"}
        /\ backendState \in [Backends -> BackendStates]
        /\ status \in [Backends -> [Requests -> Statuses]]
        /\ completions \in [Backends -> SUBSET Requests]
        /\ submitted \subseteq Batches /\ active \subseteq Requests
        /\ pc \in [Requests -> {"cycled", "listing", "routing", "checking", "executing",
                                "streaming", "done"}]
        /\ todo \in [Requests -> SUBSET Batches]
        /\ current \in [Requests -> Batches \cup {NoBatch}]
        /\ assignments \in [Requests -> SUBSET Requests]
        /\ pending \in [Requests -> SUBSET Requests]
        /\ target \in [Requests -> Backends \cup {NoBackend}]
        /\ excluded \in [Requests -> SUBSET Backends]
        /\ answer \in [Requests -> {"none", "completed", "failed", "cancelled"}]
        /\ output \subseteq Requests /\ executions \in [Requests -> Nat]
    BY DEF Init, BackendStates, Statuses
  <2> QED BY <2>2, <2>3, <2>4 DEF TypeOK, ResultType
<1>3. BackendsInv
  BY DEF Init, BackendsInv
<1>4. ASSUME NEW r \in Requests PROVE Sound(r)
  <2>1. /\ pc[r] = "cycled" /\ target[r] = NoBackend /\ r \in active
        /\ \A k \in Batches : tried[r][k] = <<>> /\ result[r][k] = NoResult
        /\ BatchOf[r] \in Batches
    BY <1>1 DEF Init
  <2>2. Fresh(r) /\ Subject(r) /\ Excludes(r) /\ Executing(r)
    BY <2>1 DEF Fresh, Subject, Excludes, Executing, Submitting
  <2>3. Targets(r) /\ Results(r)
    <3>1. NoBackend \notin Backends
      BY RoutingAssumption
    <3>2. Targets(r)
      BY <2>1, <3>1 DEF Targets
    <3>3. Results(r)
      BY <2>1 DEF Results, NoResult
    <3> QED BY <3>2, <3>3
  <2>4. Executed(r) /\ Exhausted(r) /\ Ordered(r)
    BY <2>1 DEF Executed, Exhausted, Ordered, Own, NoResult, Init
  <2> QED BY <2>2, <2>3, <2>4 DEF Sound
<1> QED BY <1>2, <1>3, <1>4 DEF Inv

LEMMA NextKeepsInv == Inv /\ [Next]_vars => Inv'
<1> SUFFICES ASSUME Inv, [Next]_vars PROVE Inv'
  OBVIOUS
<1>1. ASSUME NEW r \in Requests, Continue(r) PROVE Inv'
  <2>1. CASE NextBatch(r) \/ NoRoute(r)
    BY <2>1, NextBatchKeepsInv, NoRouteKeepsInv
  <2>2. CASE SubmitUnavailable(r) \/ SubmitTurnedDown(r) \/ SubmitToMock(r) \/ SubmitToVLLM(r)
    BY <2>2, HandsKeepInv
  <2>3. CASE HealthChecked(r)
    BY <2>3, HealthChecksKeepInv, BeginExecutionKeepsInv DEF HealthChecked
  <2>4. CASE ExecuteMember(r) \/ ExecuteMemberFails(r) \/ ExecuteMemberRaises(r)
    BY <2>4, ExecuteMemberKeepsInv, ExecutionFailuresKeepInv
  <2>5. CASE \/ BatchGone(r) \/ AnswerFailed(r) \/ AnswerCompleted(r) \/ BeginStream(r)
             \/ StreamEnds(r) \/ StreamFails(r) \/ StreamCancelled(r)
    BY <2>5, AnswersKeepInv
  <2> QED BY <1>1, <2>1, <2>2, <2>3, <2>4, <2>5 DEF Continue
<1>2. CASE \E r \in Requests : SubmitPendingBatches(r)
  BY <1>2, SubmitPendingBatchesKeepsInv
<1>3. CASE RefreshBackendHealth \/ Shutdown
  BY <1>3, RefreshKeepsInv, ShutdownKeepsInv
<1>4. CASE UNCHANGED vars
  BY <1>4, StutterKeepsInv
<1> QED BY <1>1, <1>2, <1>3, <1>4 DEF Next

-----------------------------------------------------------------------------
(* Offers and executions.  An offer is the coroutine that made it and its     *)
(* number; it is used when it cannot bring the request an execution any more. *)

InFlightLabels == {"checking", "executing"}

\* The offers of q's batch, those that may still execute q, and the used ones.
\* A request that streams is executed by its own stream only, so its own
\* offers are kept for that.
AllOffers(q) ==
  {o \in Requests \X Nat : o[2] \in 1..Len(tried[o[1]][BatchOf[q]])}

Open(p, q) ==
  /\ pc[p] \in InFlightLabels
  /\ current[p] = BatchOf[q]
  /\ pc[p] = "executing" => q \in pending[p]

Used(q) ==
  {o \in AllOffers(q) :
     /\ Open(o[1], q) => o[2] # Len(tried[o[1]][BatchOf[q]])
     /\ o[1] = q /\ q \in Streaming => pc[q] = "done"}

\* An offer stands behind all that a coroutine does with a backend.
Backed(r) ==
  /\ pc[r] \in InFlightLabels => tried[r][current[r]] # <<>>
  /\ pc[r] = "executing" => assignments[r] \cap Streaming = {}
  /\ pc[r] = "streaming" => r \in Streaming
  /\ \A k \in Batches : result[r][k].outcome = "accepted" => tried[r][k] # <<>>

PaidFor(q) == IsFiniteSet(AllOffers(q)) /\ executions[q] <= Cardinality(Used(q))

OffersInv == \A r \in Requests : Backed(r) /\ PaidFor(r)

\* A step of r: the other coroutines keep their variables.
Alone(r) ==
  /\ setup' = setup
  /\ \A q \in Requests \ {r} :
       /\ pc'[q] = pc[q] /\ current'[q] = current[q] /\ pending'[q] = pending[q]
       /\ assignments'[q] = assignments[q] /\ result'[q] = result[q]

\* It offers nothing, and no offer becomes open again.
NoOffer(r) ==
  /\ tried' = tried
  /\ pc[r] # "done"
  /\ pc'[r] \in InFlightLabels =>
       /\ pc[r] \in InFlightLabels /\ current'[r] = current[r]
       /\ assignments'[r] = assignments[r]
       /\ pc[r] = "executing" => pc'[r] = "executing" /\ pending'[r] \subseteq pending[r]

\* It offers the current batch to b.
NewOffer(r, b) ==
  /\ pc[r] = "routing" /\ pc'[r] \notin {"executing", "streaming", "done"}
  /\ current' = current
  /\ tried' = [tried EXCEPT ![r] = [tried[r] EXCEPT ![current[r]] = Append(@, b)]]

\* The offers to the others stay, and r's batch has one more.
LEMMA TriedGrows ==
  ASSUME TypeOK, NEW r \in Requests, NEW b \in Backends, current[r] \in Batches, NewOffer(r, b),
         NEW k \in Batches, NEW p \in Requests
  PROVE  /\ tried[p][k] \in Seq(Backends) /\ Len(tried[p][k]) \in Nat
         /\ p # r \/ k # current[r] => tried'[p][k] = tried[p][k]
         /\ Len(tried'[r][current[r]]) = Len(tried[r][current[r]]) + 1
         /\ Len(tried[r][current[r]]) \in Nat
         /\ tried'[r][current[r]] # <<>>
<1> DEFINE row == tried[r]
           old == row[current[r]]
           new == Append(old, b)
<1>1. tried \in [Requests -> [Batches -> Seq(Backends)]]
  BY TypeOKIsLoopTyped DEF LoopTyped
<1>2. row \in [Batches -> Seq(Backends)] /\ old \in Seq(Backends)
  BY <1>1
<1>3. Len(new) = Len(old) + 1 /\ Len(old) \in Nat /\ new # <<>>
  BY <1>2, AppendProperties, LenProperties
<1>4. tried' = [tried EXCEPT ![r] = [row EXCEPT ![current[r]] = new]]
  BY DEF NewOffer
<1>5. tried[p][k] \in Seq(Backends) /\ Len(tried[p][k]) \in Nat
  BY <1>1, LenProperties
<1> HIDE DEF new
<1>6. tried'[r] = [row EXCEPT ![current[r]] = new] /\ (p # r => tried'[p] = tried[p])
  BY <1>1, <1>4
<1> HIDE DEF row
<1>7. tried'[r][current[r]] = new /\ (k # current[r] => tried'[r][k] = row[k])
  BY <1>2, <1>6
<1> QED BY <1>3, <1>5, <1>6, <1>7 DEF row

LEMMA OffersGrow ==
  ASSUME TypeOK, NEW r \in Requests, Alone(r), pc'[r] = "executing" => pc[r] # "routing",
         current[r] \in Batches \/ NoOffer(r),
         NoOffer(r) \/ \E b \in Backends : NewOffer(r, b),
         NEW q \in Requests, IsFiniteSet(AllOffers(q))
  PROVE  IsFiniteSet(AllOffers(q)') /\ Used(q) \subseteq Used(q)'
<1> DEFINE k == BatchOf[q]
<1>1. BatchOf' = BatchOf /\ Streaming' = Streaming
  BY DEF Alone, BatchOf, Streaming
<1>2. k \in Batches
  BY DEF Batches
<1>3. CASE NoOffer(r)
  <2>1. AllOffers(q)' = AllOffers(q)
    BY <1>1, <1>3 DEF NoOffer, AllOffers
  <2>2. ASSUME NEW p \in Requests, Open(p, q)' PROVE Open(p, q)
    BY <1>1, <1>3, <2>2 DEF NoOffer, Alone, Open, InFlightLabels
  <2>3. pc[q] = "done" => pc'[q] = "done"
    BY <1>3 DEF NoOffer, Alone
  <2>4. ASSUME NEW o \in Used(q) PROVE o \in Used(q)'
    <3>1. o \in AllOffers(q) /\ o[1] \in Requests
      BY DEF Used, AllOffers
    <3>2. Open(o[1], q)' => o[2] # Len(tried'[o[1]][BatchOf'[q]])
      BY <1>1, <1>3, <2>2, <3>1 DEF Used, NoOffer
    <3>3. o[1] = q /\ q \in Streaming' => pc'[q] = "done"
      BY <1>1, <2>3 DEF Used
    <3> QED BY <2>1, <3>1, <3>2, <3>3 DEF Used
  <2> QED BY <2>1, <2>4
<1>4. ASSUME NEW b \in Backends, NewOffer(r, b), current[r] \in Batches
      PROVE  IsFiniteSet(AllOffers(q)') /\ Used(q) \subseteq Used(q)'
  <2>1. \A p \in Requests :
          /\ Len(tried[p][k]) \in Nat
          /\ p # r \/ k # current[r] => tried'[p][k] = tried[p][k]
          /\ p = r /\ k = current[r] => Len(tried'[p][k]) = Len(tried[p][k]) + 1
    BY <1>2, <1>4, TriedGrows
  <2> DEFINE x == <<r, Len(tried[r][k]) + 1>>
  <2>2. AllOffers(q) = {o \in Requests \X Nat : o[2] \in 1..Len(tried[o[1]][k])}
    BY DEF AllOffers
  <2>3. AllOffers(q)' = {o \in Requests \X Nat : o[2] \in 1..Len(tried'[o[1]][k])}
    BY <1>1 DEF AllOffers
  <2>4. ASSUME NEW o \in AllOffers(q)' PROVE o \in AllOffers(q) \cup {x}
    <3>1. o \in Requests \X Nat /\ o[2] \in 1..Len(tried'[o[1]][k])
      BY <2>3
    <3>2. PICK p \in Requests, i \in Nat : o = <<p, i>>
      BY <3>1
    <3>3. i \in 1..Len(tried'[p][k])
      BY <3>1, <3>2
    <3>4. CASE p = r /\ k = current[r]
      <4>1. i \in 1..Len(tried[p][k]) \/ i = Len(tried[p][k]) + 1
        BY <2>1, <3>3, <3>4
      <4> QED BY <2>2, <3>2, <3>4, <4>1
    <3>5. CASE p # r \/ k # current[r]
      BY <2>1, <2>2, <3>2, <3>3, <3>5
    <3> QED BY <3>4, <3>5
  <2>5. IsFiniteSet(AllOffers(q)')
    <3>1. IsFiniteSet(AllOffers(q) \cup {x})
      BY FS_AddElement
    <3> QED BY <2>4, <3>1, FS_Subset
  <2>6. ASSUME NEW o \in Used(q) PROVE o \in Used(q)'
    <3>1. PICK p \in Requests, i \in Nat : o = <<p, i>>
      BY DEF Used, AllOffers
    <3>2. /\ i \in 1..Len(tried[p][k])
          /\ Open(p, q) => i # Len(tried[p][k])
          /\ p = q /\ q \in Streaming => pc[q] = "done"
      BY <3>1 DEF Used, AllOffers
    <3>3. i \in 1..Len(tried'[p][k])
      BY <2>1, <3>2
    <3>4. o \in AllOffers(q)'
      BY <2>3, <3>1, <3>3
    <3>5. p = q /\ q \in Streaming' => pc'[q] = "done"
      BY <1>1, <1>4, <3>2 DEF NewOffer, Alone
    <3>6. Open(p, q)' => i # Len(tried'[p][k])
      <4>1. CASE p # r
        <5>1. Open(p, q)' => Open(p, q)
          BY <1>1, <4>1 DEF Open, Alone
        <5> QED BY <2>1, <3>2, <4>1, <5>1
      <4>2. CASE p = r /\ k = current[r]
        BY <2>1, <3>2, <4>2
      <4>3. CASE p = r /\ k # current[r]
        BY <1>1, <1>4, <4>3 DEF Open, NewOffer
      <4> QED BY <4>1, <4>2, <4>3
    <3>7. o[1] = p /\ o[2] = i
      BY <3>1
    <3> QED BY <1>1, <3>4, <3>5, <3>6, <3>7 DEF Used
  <2> QED BY <2>5, <2>6
<1> QED BY <1>3, <1>4

\* One offer more is used for one execution more.
LEMMA StillPaidFor ==
  ASSUME NEW A, IsFiniteSet(A), NEW T \in SUBSET A, NEW S \in SUBSET T,
         NEW n \in Nat, n <= Cardinality(S),
         NEW m, m = n \/ (m = n + 1 /\ T # S)
  PROVE  m <= Cardinality(T)
<1>1. IsFiniteSet(T) /\ IsFiniteSet(S)
  BY FS_Subset
<1>2. Cardinality(S) <= Cardinality(T) /\ (Cardinality(S) = Cardinality(T) => S = T)
  BY <1>1, FS_Subset
<1>3. Cardinality(S) \in Nat /\ Cardinality(T) \in Nat
  BY <1>1, FS_CardinalityType
<1> QED BY <1>2, <1>3

LEMMA StepKeepsOffers ==
  ASSUME Inv, OffersInv, NEW r \in Requests, Alone(r),
         NoOffer(r) \/ (\E b \in Backends : NewOffer(r, b)),
         Backed(r)',
         \A q \in Requests : \/ executions'[q] = executions[q]
                             \/ executions'[q] = executions[q] + 1 /\ Used(q)' # Used(q)
  PROVE  OffersInv'
<1>1. TypeOK /\ \A q \in Requests : executions[q] \in Nat
  BY DEF Inv, TypeOK
<1>2. BatchOf' = BatchOf /\ Streaming' = Streaming /\ Batches' = Batches
  BY DEF Alone, BatchOf, Streaming, Batches
<1>3. pc[r] = "routing" => current[r] \in Batches
  BY DEF Inv, Sound, Subject, Submitting
<1>4. current[r] \in Batches \/ NoOffer(r)
  BY <1>3 DEF NewOffer
<1>5. pc'[r] = "executing" => pc[r] # "routing"
  BY DEF NoOffer, NewOffer, InFlightLabels
<1>6. ASSUME NEW q \in Requests PROVE PaidFor(q)'
  <2>1. PaidFor(q)
    BY DEF OffersInv
  <2>2. IsFiniteSet(AllOffers(q)') /\ Used(q) \subseteq Used(q)'
    BY <1>1, <1>4, <1>5, <2>1, OffersGrow DEF PaidFor
  <2>3. Used(q)' \subseteq AllOffers(q)'
    BY DEF Used
  <2>4. executions'[q] <= Cardinality(Used(q)')
    BY <1>1, <2>1, <2>2, <2>3, StillPaidFor DEF PaidFor
  <2> QED BY <2>2, <2>4 DEF PaidFor
<1>7. ASSUME NEW q \in Requests, q # r PROVE Backed(q)'
  <2>1. Backed(q)
    BY DEF OffersInv
  <2>2. tried'[q] = tried[q]
    BY <1>1, <1>7, TypeOKIsLoopTyped DEF NoOffer, NewOffer, LoopTyped
  <2> QED BY <1>2, <1>7, <2>1, <2>2 DEF Backed, Alone
<1> QED BY <1>6, <1>7 DEF OffersInv

\* The ways an offer ends, and what of the results they touch.
LEMMA EndOfOffer ==
  ASSUME NEW r \in Requests, NEW b \in Backends, TypeOK, setup' = setup,
         \/ Refused(r, b) \/ Raised(r, b)
         \/ Accepted(r, b) /\ UNCHANGED excluded
         \/ Goto(r, "checking") /\ UNCHANGED <<excluded, result>>
  PROVE  /\ \A q \in Requests \ {r} : pc'[q] = pc[q] /\ result'[q] = result[q]
         /\ pc'[r] \in {"listing", "routing", "checking"}
         /\ pc'[r] = "checking" => ~(Refused(r, b) \/ Raised(r, b) \/ Accepted(r, b))
         /\ \A k \in Batches : k # current[r] => result'[r][k] = result[r][k]
<1>1. LoopStepOf(r)
  BY EndsOfOfferMove
<1>2. /\ pc \in [Requests -> Labels]
      /\ result \in [Requests -> [Batches -> ResultType]]
  BY TypeOKIsLoopTyped DEF LoopTyped
<1>3. ASSUME NEW l \in Labels, Goto(r, l) PROVE pc'[r] = l
  BY <1>2, <1>3 DEF Goto
<1>4. ASSUME NEW o, Finish(r, o, b)
      PROVE  /\ pc'[r] = "listing"
             /\ \A k \in Batches : k # current[r] => result'[r][k] = result[r][k]
  <2>1. result' = [result EXCEPT ![r] = [result[r] EXCEPT ![current[r]] = [outcome |-> o, backend |-> b]]]
    BY <1>2, <1>4 DEF Finish
  <2>2. Goto(r, "listing")
    BY <1>4 DEF Finish
  <2>3. result'[r] = [result[r] EXCEPT ![current[r]] = [outcome |-> o, backend |-> b]]
    BY <1>2, <2>1
  <2> QED BY <1>2, <1>3, <2>2, <2>3 DEF Labels
<1>5. Refused(r, b) \/ Raised(r, b) \/ Accepted(r, b) =>
        \/ \E o : Finish(r, o, b)
        \/ Goto(r, "routing") /\ UNCHANGED result
  BY DEF Refused, Raised, Accepted
<1>6. CASE Refused(r, b) \/ Raised(r, b) \/ Accepted(r, b)
  <2>1. CASE \E o : Finish(r, o, b)
    BY <1>1, <1>4, <2>1 DEF LoopStepOf
  <2>2. CASE Goto(r, "routing") /\ UNCHANGED result
    <3>1. pc'[r] = "routing"
      BY <1>3, <2>2 DEF Labels
    <3> QED BY <1>1, <2>2, <3>1 DEF LoopStepOf
  <2> QED BY <1>5, <1>6, <2>1, <2>2
<1>7. CASE Goto(r, "checking") /\ UNCHANGED <<excluded, result>>
  <2>1. pc'[r] = "checking"
    BY <1>3, <1>7 DEF Labels
  <2>2. ~(Refused(r, b) \/ Raised(r, b) \/ Accepted(r, b))
    <3>1. \A o : ~Finish(r, o, b)
      BY <1>4, <2>1
    <3>2. ~Goto(r, "routing")
      BY <1>3, <2>1 DEF Labels
    <3> QED BY <1>5, <3>1, <3>2
  <2> QED BY <1>1, <1>7, <2>1, <2>2 DEF LoopStepOf
<1> QED BY <1>6, <1>7

\* A backend that got the batch was offered it.
LEMMA HandsKeepOffers ==
  ASSUME Inv, OffersInv, NEW r \in Requests,
         SubmitUnavailable(r) \/ SubmitTurnedDown(r) \/ SubmitToMock(r) \/ SubmitToVLLM(r)
  PROVE  OffersInv'
<1>1. PICK b \in Backends : /\ Hand(r, b)
                            /\ \/ Raised(r, b) \/ Refused(r, b)
                               \/ Accepted(r, b) /\ UNCHANGED excluded
                               \/ Goto(r, "checking") /\ UNCHANGED <<excluded, result>>
  BY DEF SubmitUnavailable, SubmitTurnedDown, SubmitToMock, SubmitToVLLM
<1>2. UNCHANGED <<setup, current, assignments, pending, executions>>
  BY DEF SubmitUnavailable, SubmitTurnedDown, SubmitToMock, SubmitToVLLM, batchVars
<1>3. pc[r] = "routing" /\ TypeOK /\ current[r] \in Batches
  BY <1>1 DEF Hand, Inv, Sound, Subject, Submitting
<1>4. /\ \A q \in Requests \ {r} : pc'[q] = pc[q] /\ result'[q] = result[q]
      /\ pc'[r] \in {"listing", "routing", "checking"}
      /\ \A k \in Batches : k # current[r] => result'[r][k] = result[r][k]
  BY <1>1, <1>2, <1>3, EndOfOffer
<1>5. Alone(r)
  BY <1>2, <1>4 DEF Alone
<1>6. tried' = [tried EXCEPT ![r] = [tried[r] EXCEPT ![current[r]] = Append(@, b)]]
  <2>1. tried \in [Requests -> [Batches -> Seq(Backends)]]
    BY <1>3, TypeOKIsLoopTyped DEF LoopTyped
  <2> QED BY <1>1, <2>1 DEF Hand
<1>7. NewOffer(r, b)
  BY <1>2, <1>3, <1>4, <1>6 DEF NewOffer
<1>8. /\ tried'[r][current[r]] # <<>>
      /\ \A k \in Batches : k # current[r] => tried'[r][k] = tried[r][k]
  BY <1>3, <1>7, TriedGrows
<1>9. Backed(r)'
  <2>1. Batches' = Batches
    BY <1>2 DEF Batches, BatchOf
  <2>2. Backed(r)
    BY DEF OffersInv
  <2>3. pc'[r] \in InFlightLabels => tried'[r][current'[r]] # <<>>
    BY <1>2, <1>8
  <2>4. pc'[r] \notin {"executing", "streaming"}
    BY <1>4
  <2>5. \A k \in Batches : result'[r][k].outcome = "accepted" => tried'[r][k] # <<>>
    BY <1>4, <1>8, <2>2 DEF Backed
  <2> QED BY <2>1, <2>3, <2>4, <2>5 DEF Backed
<1> QED BY <1>2, <1>5, <1>7, <1>9, StepKeepsOffers

\* A step that ends an offer in flight, or goes on with it.
LEMMA InFlightKeepsOffers ==
  ASSUME Inv, OffersInv, NEW r \in Requests, pc[r] \in InFlightLabels,
         UNCHANGED <<setup, current, assignments, tried, executions>>,
         \A q \in Requests \ {r} : pending'[q] = pending[q],
         \/ Refused(r, target[r]) \/ Raised(r, target[r])
         \/ Accepted(r, target[r]) /\ UNCHANGED excluded
  PROVE  OffersInv'
<1>1. TypeOK /\ target[r] \in Backends /\ current[r] \in Batches
  BY InFlightFacts DEF InFlightLabels
<1>2. /\ \A q \in Requests \ {r} : pc'[q] = pc[q] /\ result'[q] = result[q]
      /\ pc'[r] \in {"listing", "routing"}
      /\ \A k \in Batches : k # current[r] => result'[r][k] = result[r][k]
  BY <1>1, EndOfOffer
<1>3. Alone(r) /\ NoOffer(r)
  BY <1>2 DEF Alone, NoOffer, InFlightLabels
<1>4. Backed(r)'
  <2>1. Batches' = Batches
    BY DEF Batches, BatchOf
  <2>2. Backed(r)
    BY DEF OffersInv
  <2>3. \A k \in Batches : result'[r][k].outcome = "accepted" => tried'[r][k] # <<>>
    BY <1>2, <2>2 DEF Backed
  <2> QED BY <1>2, <2>1, <2>3 DEF Backed, InFlightLabels
<1> QED BY <1>3, <1>4, StepKeepsOffers

LEMMA HealthChecksKeepOffers ==
  ASSUME Inv, OffersInv, NEW r \in Requests, HealthChecked(r)
  PROVE  OffersInv'
<1>1. CASE HealthCheckRaises(r)
  BY <1>1, InFlightKeepsOffers DEF HealthCheckRaises, InFlight, InFlightLabels, batchVars
<1>2. ASSUME NEW loaded, ModelNotLoaded(r, loaded) PROVE OffersInv'
  BY <1>2, InFlightKeepsOffers DEF ModelNotLoaded, InFlight, InFlightLabels, batchVars
<1>3. ASSUME NEW loaded, DeferToStreams(r, loaded) PROVE OffersInv'
  BY <1>3, InFlightKeepsOffers DEF DeferToStreams, InFlight, InFlightLabels, batchVars
<1>4. ASSUME NEW loaded, BeginExecution(r, loaded) PROVE OffersInv'
  <2>1. /\ pc[r] = "checking" /\ Goto(r, "executing") /\ ~Defers(r)
        /\ pending' = [pending EXCEPT ![r] = assignments[r]]
        /\ UNCHANGED <<setup, current, assignments, result, tried, executions>>
    BY <1>4 DEF BeginExecution, InFlight, batchVars
  <2>2. TypeOK
    BY DEF Inv
  <2>3. pc'[r] = "executing" /\ \A q \in Requests \ {r} : pc'[q] = pc[q] /\ pending'[q] = pending[q]
    BY <2>1, <2>2 DEF Goto, TypeOK
  <2>4. Alone(r) /\ NoOffer(r)
    BY <2>1, <2>3 DEF Alone, NoOffer, InFlightLabels
  <2>5. Backed(r)'
    <3>1. Batches' = Batches /\ Streaming' = Streaming
      BY <2>1 DEF Batches, BatchOf, Streaming
    <3>2. Backed(r)
      BY DEF OffersInv
    <3> QED BY <2>1, <2>3, <3>1, <3>2 DEF Backed, InFlightLabels, Defers
  <2> QED BY <2>1, <2>4, <2>5, StepKeepsOffers
<1> QED BY <1>1, <1>2, <1>3, <1>4 DEF HealthChecked

\* The open offer of a member is used by its execution.
LEMMA ExecutionIsPaidFor ==
  ASSUME Inv, OffersInv, NEW r \in Requests, ExecuteMember(r)
  PROVE  OffersInv'
<1> DEFINE k == current[r]
           n == Len(tried[r][k])
           x == <<r, n>>
<1>q. PICK q \in Requests : q = First(pending[r])
  BY MemberFacts DEF ExecuteMember, InFlight
<1>1. /\ pc[r] = "executing"
      /\ executions' = [executions EXCEPT ![q] = @ + 1]
      /\ pending' = [pending EXCEPT ![r] = @ \ {q}]
      /\ IF LastMember(r) THEN Accepted(r, target[r]) ELSE UNCHANGED <<submitted, pc, result>>
      /\ UNCHANGED <<setup, current, assignments, excluded, tried>>
  BY <1>q DEF ExecuteMember, InFlight, Inv, TypeOK, batchVars
<1>2. /\ TypeOK /\ k \in Batches /\ target[r] \in Backends
      /\ \A p \in assignments[r] : BatchOf[p] = k
  BY <1>1, InFlightFacts
<1>3. q \in pending[r] /\ q \in assignments[r] /\ q \in Requests
  BY <1>q, <1>1, MemberFacts
<1>4. n \in Nat \ {0}
  <2>1. tried[r][k] # <<>>
    BY <1>1 DEF OffersInv, Backed, InFlightLabels
  <2>2. tried[r][k] \in Seq(Backends)
    BY <1>2, TypeOKIsLoopTyped DEF LoopTyped
  <2> QED BY <2>1, <2>2, EmptySeq, LenProperties
<1>5. BatchOf[q] = k /\ q \notin Streaming
  BY <1>1, <1>2, <1>3 DEF OffersInv, Backed
<1>6. /\ \A p \in Requests : p # q => executions'[p] = executions[p]
      /\ executions'[q] = executions[q] + 1
  BY <1>1, <1>2, <1>3 DEF TypeOK
<1>7. pending'[r] = pending[r] \ {q} /\ \A p \in Requests \ {r} : pending'[p] = pending[p]
  BY <1>1, <1>2 DEF TypeOK
<1>8. /\ \A p \in Requests \ {r} : pc'[p] = pc[p] /\ result'[p] = result[p]
      /\ pc'[r] \in {"listing", "routing", "executing"}
      /\ \A j \in Batches : j # k => result'[r][j] = result[r][j]
      /\ pc'[r] = "executing" => result' = result
  <2>1. CASE LastMember(r)
    <3>1. Accepted(r, target[r]) /\ UNCHANGED excluded
      BY <1>1, <2>1
    <3> QED BY <1>1, <1>2, <3>1, EndOfOffer
  <2>2. CASE ~LastMember(r)
    BY <1>1, <2>2
  <2> QED BY <2>1, <2>2
<1>9. Alone(r) /\ NoOffer(r)
  BY <1>1, <1>7, <1>8 DEF Alone, NoOffer, InFlightLabels
<1>10. BatchOf' = BatchOf /\ Streaming' = Streaming /\ Batches' = Batches
  BY <1>1 DEF BatchOf, Streaming, Batches
<1>11. Backed(r)'
  <2>1. Backed(r)
    BY DEF OffersInv
  <2>2. tried[r][k] # <<>>
    BY <1>1, <2>1 DEF Backed, InFlightLabels
  <2>3. pc'[r] = "executing" => assignments'[r] \cap Streaming' = {}
    BY <1>1, <1>10, <2>1 DEF Backed
  <2>4. \A j \in Batches : result'[r][j].outcome = "accepted" => tried'[r][j] # <<>>
    BY <1>1, <1>8, <2>1, <2>2 DEF Backed
  <2> QED BY <1>1, <1>8, <1>10, <2>2, <2>3, <2>4 DEF Backed
<1>12. x \in Used(q)' /\ x \notin Used(q)
  <2>1. Open(r, q) /\ ~Open(r, q)'
    BY <1>1, <1>3, <1>5, <1>7, <1>8 DEF Open, InFlightLabels
  <2>2. x \in AllOffers(q)'
    BY <1>1, <1>4, <1>5, <1>10 DEF AllOffers
  <2>3. x[1] = r /\ x[2] = n
    OBVIOUS
  <2>4. x \in Used(q)'
    BY <1>5, <1>10, <2>1, <2>2, <2>3 DEF Used
  <2>5. x \notin Used(q)
    BY <1>5, <2>1, <2>3 DEF Used
  <2> QED BY <2>4, <2>5
<1>13. \A p \in Requests : \/ executions'[p] = executions[p]
                           \/ executions'[p] = executions[p] + 1 /\ Used(p)' # Used(p)
  BY <1>6, <1>12
<1> QED BY <1>9, <1>11, <1>13, StepKeepsOffers

LEMMA ExecutionFailuresKeepOffers ==
  ASSUME Inv, OffersInv, NEW r \in Requests, ExecuteMemberFails(r) \/ ExecuteMemberRaises(r)
  PROVE  OffersInv'
<1>1. /\ pc[r] = "executing"
      /\ pending' = [pending EXCEPT ![r] = {}]
      /\ Refused(r, target[r]) \/ Raised(r, target[r])
      /\ UNCHANGED <<setup, current, assignments, tried, executions>>
  BY DEF ExecuteMemberFails, ExecuteMemberRaises, InFlight, batchVars
<1>2. \A q \in Requests \ {r} : pending'[q] = pending[q]
  BY <1>1 DEF Inv, TypeOK
<1> QED BY <1>1, <1>2, InFlightKeepsOffers DEF InFlightLabels

\* Steps between the offers.
LEMMA QuietKeepsOffers ==
  ASSUME Inv, OffersInv, NEW r \in Requests, pc[r] \in {"cycled", "listing", "streaming"},
         UNCHANGED <<setup, pending, result, tried, executions>>,
         \A q \in Requests \ {r} : current'[q] = current[q] /\ assignments'[q] = assignments[q],
         NEW l \in Labels \ InFlightLabels, Goto(r, l), l = "streaming" => r \in Streaming
  PROVE  OffersInv'
<1>1. pc'[r] = l /\ \A q \in Requests \ {r} : pc'[q] = pc[q]
  BY DEF Goto, Inv, TypeOK
<1>2. Alone(r) /\ NoOffer(r)
  BY <1>1 DEF Alone, NoOffer
<1>3. Backed(r)'
  <2>1. Batches' = Batches /\ Streaming' = Streaming
    BY DEF Batches, BatchOf, Streaming
  <2> QED BY <1>1, <2>1 DEF OffersInv, Backed, InFlightLabels
<1> QED BY <1>2, <1>3, StepKeepsOffers

LEMMA AnswersKeepOffers ==
  ASSUME Inv, OffersInv, NEW r \in Requests,
         \/ SubmitPendingBatches(r) \/ NextBatch(r)
         \/ AnswerFailed(r) \/ AnswerCompleted(r) \/ BeginStream(r)
         \/ StreamFails(r) \/ StreamCancelled(r)
  PROVE  OffersInv'
<1> USE DEF Labels, InFlightLabels
<1>1. CASE SubmitPendingBatches(r)
  BY <1>1, QuietKeepsOffers DEF SubmitPendingBatches
<1>2. CASE NextBatch(r)
  <2>1. /\ pc[r] = "listing" /\ Goto(r, "routing")
        /\ UNCHANGED <<setup, pending, result, tried, executions>>
    BY <1>2 DEF NextBatch
  <2>2. \A q \in Requests \ {r} : current'[q] = current[q] /\ assignments'[q] = assignments[q]
    BY <1>2 DEF NextBatch, Inv, TypeOK
  <2> QED BY <2>1, <2>2, QuietKeepsOffers
<1>3. CASE AnswerFailed(r) \/ AnswerCompleted(r)
  BY <1>3, QuietKeepsOffers DEF AnswerFailed, AnswerCompleted, Answering, Answer, loopVars, batchVars
<1>4. CASE BeginStream(r)
  BY <1>4, QuietKeepsOffers DEF BeginStream, Answering, loopVars, batchVars
<1>5. CASE StreamFails(r) \/ StreamCancelled(r)
  BY <1>5, QuietKeepsOffers DEF StreamFails, StreamCancelled, InFlight, Answer, loopVars, batchVars
<1> QED BY <1>1, <1>2, <1>3, <1>4, <1>5

\* Without an offer the batch is refused or gone.
LEMMA NoRouteKeepsOffers ==
  ASSUME Inv, OffersInv, NEW r \in Requests, NoRoute(r) \/ BatchGone(r)
  PROVE  OffersInv'
<1>1. TypeOK /\ pc[r] = "routing" /\ current[r] \in Batches
  BY DEF Inv, Sound, Subject, Submitting, NoRoute, BatchGone
<1>2. UNCHANGED <<setup, current, assignments, pending, tried, executions>>
  BY DEF NoRoute, BatchGone, loopVars, batchVars
<1>3. \/ Finish(r, "refused", DefaultBackend)
      \/ Goto(r, "listing") /\ UNCHANGED result
  BY DEF NoRoute, BatchGone, loopVars
<1>4. /\ pc \in [Requests -> Labels]
      /\ result \in [Requests -> [Batches -> ResultType]]
  BY <1>1, TypeOKIsLoopTyped DEF LoopTyped
<1>5. pc'[r] = "listing" /\ \A q \in Requests \ {r} : pc'[q] = pc[q]
  BY <1>3, <1>4 DEF Finish, Goto
<1>6. /\ \A q \in Requests \ {r} : result'[q] = result[q]
      /\ \A k \in Batches : result'[r][k].outcome = "accepted" => result'[r][k] = result[r][k]
  <2>1. CASE Finish(r, "refused", DefaultBackend)
    <3> DEFINE e == [outcome |-> "refused", backend |-> DefaultBackend]
    <3>1. result' = [result EXCEPT ![r] = [result[r] EXCEPT ![current[r]] = e]]
      BY <1>4, <2>1 DEF Finish
    <3>2. e.outcome # "accepted"
      OBVIOUS
    <3> HIDE DEF e
    <3>3. /\ result'[r] = [result[r] EXCEPT ![current[r]] = e]
          /\ \A q \in Requests \ {r} : result'[q] = result[q]
      BY <1>4, <3>1
    <3>4. result[r] \in [Batches -> ResultType]
      BY <1>4
    <3> QED BY <1>1, <3>2, <3>3, <3>4
  <2>2. CASE UNCHANGED result
    BY <2>2
  <2> QED BY <1>3, <2>1, <2>2
<1>7. Alone(r) /\ NoOffer(r)
  BY <1>1, <1>2, <1>5, <1>6 DEF Alone, NoOffer, InFlightLabels
<1>8. Backed(r)'
  <2>1. Batches' = Batches
    BY <1>2 DEF Batches, BatchOf
  <2> QED BY <1>2, <1>5, <1>6, <2>1 DEF OffersInv, Backed, InFlightLabels
<1> QED BY <1>2, <1>7, <1>8, StepKeepsOffers

\* A stream that ends uses an offer of its own request, which it kept.
LEMMA StreamIsPaidFor ==
  ASSUME Inv, OffersInv, NEW r \in Requests, StreamEnds(r)
  PROVE  OffersInv'
<1> DEFINE k == BatchOf[r]
           x == <<r, 1>>
<1>1. /\ pc[r] = "streaming" /\ Goto(r, "done")
      /\ executions' = [executions EXCEPT ![r] = @ + 1]
      /\ UNCHANGED <<setup, current, assignments, pending, result, tried>>
  BY DEF StreamEnds, InFlight, Answer, loopVars, batchVars
<1>2. TypeOK /\ k \in Batches
  BY DEF Inv, Batches
<1>3. pc'[r] = "done" /\ \A q \in Requests \ {r} : pc'[q] = pc[q]
  BY <1>1, <1>2 DEF Goto, TypeOK
<1>4. r \in Streaming /\ tried[r][k] # <<>>
  <2>1. Own(r).outcome = "accepted"
    BY <1>1 DEF Inv, Sound, Results
  <2> QED BY <1>1, <1>2, <2>1 DEF OffersInv, Backed, Own
<1>5. Len(tried[r][k]) \in Nat \ {0}
  <2>1. tried[r][k] \in Seq(Backends)
    BY <1>2, TypeOKIsLoopTyped DEF LoopTyped
  <2> QED BY <1>4, <2>1, EmptySeq, LenProperties
<1>6. /\ \A p \in Requests : p # r => executions'[p] = executions[p]
      /\ executions'[r] = executions[r] + 1
  BY <1>1, <1>2 DEF TypeOK
<1>7. BatchOf' = BatchOf /\ Streaming' = Streaming /\ Batches' = Batches
  BY <1>1 DEF BatchOf, Streaming, Batches
<1>8. x \in Used(r)' /\ x \notin Used(r)
  <2>1. x[1] = r /\ x[2] = 1
    OBVIOUS
  <2>2. x \in AllOffers(r)'
    BY <1>1, <1>5, <1>7 DEF AllOffers
  <2>3. x \in Used(r)'
    BY <1>3, <1>7, <2>1, <2>2 DEF Used, Open, InFlightLabels
  <2>4. x \notin Used(r)
    BY <1>1, <1>4, <2>1 DEF Used
  <2> QED BY <2>3, <2>4
<1>9. Alone(r) /\ NoOffer(r)
  BY <1>1, <1>3 DEF Alone, NoOffer, InFlightLabels
<1>10. Backed(r)'
  BY <1>1, <1>3, <1>7 DEF OffersInv, Backed, InFlightLabels
<1>11. \A p \in Requests : \/ executions'[p] = executions[p]
                           \/ executions'[p] = executions[p] + 1 /\ Used(p)' # Used(p)
  BY <1>6, <1>8
<1> QED BY <1>9, <1>10, <1>11, StepKeepsOffers

\* Steps of the adapter, and none.
LEMMA OthersKeepOffers ==
  ASSUME OffersInv, RefreshBackendHealth \/ Shutdown \/ UNCHANGED vars
  PROVE  OffersInv'
<1>1. UNCHANGED <<setup, pc, current, assignments, pending, result, tried, executions>>
  BY DEF RefreshBackendHealth, Shutdown, vars, loopVars, batchVars
<1>2. BatchOf' = BatchOf /\ Streaming' = Streaming /\ Batches' = Batches
  BY <1>1 DEF BatchOf, Streaming, Batches
<1>3. ASSUME NEW q \in Requests PROVE AllOffers(q)' = AllOffers(q) /\ Used(q)' = Used(q)
  <2>1. AllOffers(q)' = AllOffers(q)
    BY <1>1, <1>2 DEF AllOffers
  <2>2. \A p : Open(p, q)' <=> Open(p, q)
    BY <1>1, <1>2 DEF Open
  <2> QED BY <1>1, <1>2, <2>1, <2>2 DEF Used
<1>4. ASSUME NEW q \in Requests PROVE Backed(q)'
  BY <1>1, <1>2 DEF OffersInv, Backed
<1> QED BY <1>1, <1>3, <1>4 DEF OffersInv, PaidFor

LEMMA InitOffers == Init => OffersInv
<1> SUFFICES ASSUME Init PROVE OffersInv
  OBVIOUS
<1>1. ASSUME NEW q \in Requests PROVE PaidFor(q)
  <2>1. BatchOf[q] \in Batches /\ \A p \in Requests : tried[p][BatchOf[q]] = <<>>
    BY DEF Init, Batches
  <2>2. AllOffers(q) = {}
    BY <2>1 DEF AllOffers
  <2>3. Used(q) = {}
    BY <2>2 DEF Used
  <2>4. Cardinality(Used(q)) = 0 /\ IsFiniteSet(AllOffers(q))
    BY <2>2, <2>3, FS_EmptySet
  <2> QED BY <2>4 DEF Init, PaidFor
<1>2. ASSUME NEW q \in Requests PROVE Backed(q)
  BY DEF Init, Backed, InFlightLabels, NoResult
<1> QED BY <1>1, <1>2 DEF OffersInv

LEMMA NextKeepsOffers == Inv /\ OffersInv /\ [Next]_vars => OffersInv'
<1> SUFFICES ASSUME Inv, OffersInv, [Next]_vars PROVE OffersInv'
  OBVIOUS
<1>1. ASSUME NEW r \in Requests, Continue(r) PROVE OffersInv'
  <2>1. CASE NoRoute(r) \/ BatchGone(r)
    BY <2>1, NoRouteKeepsOffers
  <2>2. CASE SubmitUnavailable(r) \/ SubmitTurnedDown(r) \/ SubmitToMock(r) \/ SubmitToVLLM(r)
    BY <2>2, HandsKeepOffers
  <2>3. CASE HealthChecked(r)
    BY <2>3, HealthChecksKeepOffers
  <2>4. CASE ExecuteMember(r)
    BY <2>4, ExecutionIsPaidFor
  <2>5. CASE ExecuteMemberFails(r) \/ ExecuteMemberRaises(r)
    BY <2>5, ExecutionFailuresKeepOffers
  <2>6. CASE \/ NextBatch(r) \/ AnswerFailed(r) \/ AnswerCompleted(r) \/ BeginStream(r)
             \/ StreamFails(r) \/ StreamCancelled(r)
    BY <2>6, AnswersKeepOffers
  <2>7. CASE StreamEnds(r)
    BY <2>7, StreamIsPaidFor
  <2> QED BY <1>1, <2>1, <2>2, <2>3, <2>4, <2>5, <2>6, <2>7 DEF Continue
<1>2. CASE \E r \in Requests : SubmitPendingBatches(r)
  BY <1>2, AnswersKeepOffers
<1>3. CASE RefreshBackendHealth \/ Shutdown \/ UNCHANGED vars
  BY <1>3, OthersKeepOffers
<1> QED BY <1>1, <1>2, <1>3 DEF Next

-----------------------------------------------------------------------------

\* The retry loop of _submit_batch walks through the backends a model may use in
\* the order of the routing policy, none twice and none left out, whatever is
\* refused or raised on the way; and a backend that startup found unavailable
\* is never handed a request, even without a routing engine.
THEOREM OffersFollowThePolicy == Spec => []OfferedInOrder
<1>1. Inv => OfferedInOrder
  <2> SUFFICES ASSUME Inv PROVE OfferedInOrder
    OBVIOUS
  <2>1. TypeOK
    BY DEF Inv
  <2>2. ASSUME RoutingConfigured /\ phase = "running", NEW r \in Requests, NEW k \in Batches
        PROVE  InOrder(ModelOf[k], Usable(ModelOf[k]), tried[r][k])
    BY <2>2 DEF Inv, Sound, Ordered, UsableFor
  <2>3. ASSUME NEW b \in Backends, NEW r \in Requests, backendState[b] = "unhealthy"
        PROVE  /\ status[b][r] = "unknown"
               /\ target[r] = b => pc[r] \notin {"checking", "executing", "streaming"}
    <3>1. status[b][r] = "unknown"
      BY <2>3 DEF Inv, BackendsInv
    <3>2. ASSUME target[r] = b, pc[r] = "streaming" PROVE FALSE
      <4>1. ~RoutingConfigured /\ target[r] = DefaultBackend
        BY <2>3, <3>2, RoutingAssumption DEF Inv, Sound, Targets
      <4>2. Own(r).outcome = "accepted" /\ BatchOf[r] \in Batches
        BY <3>2 DEF Inv, Sound, Results, Batches
      <4>3. Own(r).backend = DefaultBackend /\ backendState[Own(r).backend] # "unhealthy"
        BY <4>1, <4>2 DEF Inv, Sound, Results, Own
      <4> QED BY <2>3, <3>2, <4>1, <4>3
    <3>3. target[r] = b => pc[r] \notin {"checking", "executing"}
      BY <2>3 DEF Inv, Sound, Targets
    <3> QED BY <3>1, <3>2, <3>3
  <2> QED BY <2>1, <2>2, <2>3 DEF OfferedInOrder, InOrder
<1> QED BY <1>1, InitInv, NextKeepsInv, PTL DEF Spec

\* A submission that ends with a refusal, by any of _submit_batch's failing
\* returns, has offered the batch to every backend the model may use.
THEOREM RefusalsExhaustTheBackends == Spec => []RefusedMeansExhausted
<1>1. Inv => RefusedMeansExhausted
  BY DEF Inv, Sound, Exhausted, RefusedMeansExhausted, Complete, UsableFor
<1> QED BY <1>1, InitInv, NextKeepsInv, PTL DEF Spec

\* What a vLLM backend accepted and nobody streams it has executed, although
\* coroutines submit the same batch at once and attempts fail half way.
THEOREM AcceptedMeansExecuted == Spec => []AcceptedWasExecuted
<1>1. Inv => AcceptedWasExecuted
  BY DEF Inv, Sound, Executed, AcceptedWasExecuted
<1> QED BY <1>1, InitInv, NextKeepsInv, PTL DEF Spec

\* Whatever submissions overlap, fail half way and are retried, and whatever
\* streams besides, a request is executed at most once for each time a backend
\* was offered its batch.
THEOREM ExecutionsArePaidFor == Spec => []ExecutedPerOffer
<1>1. ASSUME Inv, OffersInv, NEW r \in Requests
      PROVE  executions[r] <=
               Cardinality(UNION {{q} \X DOMAIN tried[q][BatchOf[r]] : q \in Requests})
  <2> DEFINE offers == UNION {{q} \X DOMAIN tried[q][BatchOf[r]] : q \in Requests}
  <2>1. \A q \in Requests : /\ Len(tried[q][BatchOf[r]]) \in Nat
                            /\ DOMAIN tried[q][BatchOf[r]] = 1..Len(tried[q][BatchOf[r]])
    <3>1. TypeOK /\ BatchOf[r] \in Batches
      BY <1>1 DEF Inv, Batches
    <3>2. \A q \in Requests : tried[q][BatchOf[r]] \in Seq(Backends)
      BY <3>1, TypeOKIsLoopTyped DEF LoopTyped
    <3> QED BY <3>2, LenProperties
  <2>2. AllOffers(r) = offers
    <3>1. ASSUME NEW o \in AllOffers(r) PROVE o \in offers
      <4>1. PICK q \in Requests, i \in Nat : o = <<q, i>>
        BY DEF AllOffers
      <4>2. i \in DOMAIN tried[q][BatchOf[r]]
        BY <2>1, <4>1 DEF AllOffers
      <4> QED BY <4>1, <4>2
    <3>2. ASSUME NEW o \in offers PROVE o \in AllOffers(r)
      <4>1. PICK q \in Requests : o \in {q} \X DOMAIN tried[q][BatchOf[r]]
        OBVIOUS
      <4>2. PICK i \in 1..Len(tried[q][BatchOf[r]]) : o = <<q, i>>
        BY <2>1, <4>1
      <4> QED BY <2>1, <4>2 DEF AllOffers
    <3> QED BY <3>1, <3>2
  <2> HIDE DEF offers
  <2>3. IsFiniteSet(AllOffers(r)) /\ executions[r] <= Cardinality(Used(r)) /\ executions[r] \in Nat
    BY <1>1 DEF OffersInv, PaidFor, Inv, TypeOK
  <2>4. Used(r) \in SUBSET AllOffers(r)
    BY DEF Used
  <2>5. /\ Cardinality(Used(r)) <= Cardinality(AllOffers(r))
        /\ Cardinality(Used(r)) \in Nat /\ Cardinality(AllOffers(r)) \in Nat
    BY <2>3, <2>4, FS_Subset, FS_CardinalityType
  <2>6. executions[r] <= Cardinality(offers)
    BY <2>2, <2>3, <2>5
  <2> QED BY <2>6 DEF offers
<1>2. Inv /\ OffersInv => ExecutedPerOffer
  BY <1>1 DEF ExecutedPerOffer
<1>3. Init => Inv /\ OffersInv
  BY InitInv, InitOffers
<1>4. Inv /\ OffersInv /\ [Next]_vars => (Inv /\ OffersInv)'
  BY NextKeepsInv, NextKeepsOffers
<1> QED BY <1>2, <1>3, <1>4, PTL DEF Spec
=============================================================================
