------------------------------ MODULE Routing ------------------------------
(***************************************************************************)
(* Selection of a backend for a model: the control plane's routing engine, *)
(* its policies, and the registry facts they use.  Selection has no state  *)
(* of its own; it looks at the registry's backend states and at the        *)
(* backends the caller excludes.  Backend ids are numbers so that "the     *)
(* first in the order of ids" has a meaning.                               *)
(***************************************************************************)
EXTENDS Naturals, FiniteSets

CONSTANTS
  Backends,   \* backend ids
  Registered, \* backend -> [models, latency, quality] in the backend registry
  Known,      \* model ids of the model registry
  Record      \* known model -> [policy, backend, fallback, latency, quality]

NoBackend == 0

Policies == {"explicit", "latency_tier", "quality_tier", "fallback"}

ASSUME RoutingAssumption ==
  /\ Backends \subseteq Nat \ {NoBackend}
  /\ IsFiniteSet(Backends)
  /\ \A m \in Known : Record[m].policy \in Policies

BackendStates == {"starting", "healthy", "degraded", "unhealthy", "stopped"}

\* can_transition
CanTransition(from, to) ==
  \/ from = to
  \/ from = "starting" /\ to \in {"healthy", "degraded", "unhealthy", "stopped"}
  \/ from = "healthy" /\ to \in {"degraded", "unhealthy", "stopped"}
  \/ from = "degraded" /\ to \in {"healthy", "unhealthy", "stopped"}
  \/ from = "unhealthy" /\ to \in {"starting", "stopped"}

\* What list_routable_snapshots calls healthy.
Healthy(s) == s \in {"healthy", "degraded", "starting"}

Supports(b, m) == m \in Registered[b].models \/ Registered[b].models = {}

\* _filter_candidates and _healthy_supporting.
Candidates(m, states, excluded) ==
  {b \in Backends \ excluded : Healthy(states[b]) /\ Supports(b, m)}

OnlyIf(b, candidates) == IF b \in candidates THEN b ELSE NoBackend

\* sorted(eligible)[0]
\* Faulty variant: the last of the sorted backends.
LastOf(eligible) ==
  IF eligible = {} THEN NoBackend ELSE CHOOSE b \in eligible : \A c \in eligible : c <= b
FirstOf(eligible) ==
  IF eligible = {} THEN NoBackend ELSE CHOOSE b \in eligible : \A c \in eligible : b <= c

Explicit(m, candidates) == OnlyIf(Record[m].backend, candidates)

\* FallbackPolicy around ExplicitModelPolicy; no fallback is NoBackend.
Fallback(m, candidates) ==
  IF Explicit(m, candidates) # NoBackend
  THEN Explicit(m, candidates)
  ELSE OnlyIf(Record[m].fallback, candidates)

LatencyTier(m, candidates) ==
  FirstOf({b \in candidates : Registered[b].latency = Record[m].latency})

QualityTier(m, candidates) ==
  FirstOf({b \in candidates : Registered[b].quality = Record[m].quality})

\* RoutingEngine.route with policy_for_model: a backend, or NoBackend when
\* routing fails.
Route(m, states, excluded) ==
  IF m \notin Known THEN NoBackend
  ELSE LET candidates == Candidates(m, states, excluded) IN
       CASE Record[m].policy = "explicit" -> Explicit(m, candidates)
         [] Record[m].policy = "latency_tier" -> LatencyTier(m, candidates)
         [] Record[m].policy = "quality_tier" -> QualityTier(m, candidates)
         [] Record[m].policy = "fallback" -> Fallback(m, candidates)
============================================================================
