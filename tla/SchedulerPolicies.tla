------------------------- MODULE SchedulerPolicies -------------------------
(***************************************************************************)
(* The four scheduler policies (sched/policies): how the candidates of one *)
(* cycle are ordered and which of them are selected.  A candidate is what  *)
(* queue_item_to_candidate makes of a queue item: its place in the scan,   *)
(* how long it has waited and how old it is by the clock as read for this  *)
(* candidate, its estimated size and its priority class.                   *)
(***************************************************************************)
EXTENDS Integers, Sequences, FiniteSets

CONSTANTS
  QueueObjective,    \* latency_queue_objective_ms
  AgeObjective,      \* latency_request_age_objective_ms
  Weight             \* fairness weight of every priority class

ASSUME ObjectivesPositive == QueueObjective \in Nat \ {0} /\ AgeObjective \in Nat \ {0}
ASSUME WeightsPositive == \A c \in DOMAIN Weight : Weight[c] \in Nat \ {0}

\* The policies registered by _register_defaults.
Policies == {"fifo", "shortest_job_first", "latency_aware", "fairness"}

Candidate(i, position, now) ==
  [id |-> i.id, position |-> position, class |-> i.class, job |-> i.job,
   wait |-> now - i.enqueued, age |-> now - i.arrived]

\* LatencyAwarePolicy._score, over the common denominator of the two objectives.
Score(c) == c.wait * AgeObjective + c.age * QueueObjective

\* FairnessPolicy._fairness_ratio: selections of a class per unit of weight.
LowerRatio(counts, a, b) == counts[a.class] * Weight[b.class] < counts[b.class] * Weight[a.class]
EqualRatio(counts, a, b) == counts[a.class] * Weight[b.class] = counts[b.class] * Weight[a.class]

\* The sort keys.  Positions are distinct, so the enqueue time that ends each
\* key in the code never decides.
FifoBefore(a, b) == a.position < b.position

\* Faulty variant: the sort is reversed.
SjfBeforeReversed(a, b) == a.job > b.job \/ (a.job = b.job /\ FifoBefore(a, b))

SjfBefore(a, b) == a.job < b.job \/ (a.job = b.job /\ FifoBefore(a, b))

LatencyBefore(a, b) == Score(a) > Score(b) \/ (Score(a) = Score(b) /\ FifoBefore(a, b))

FairBefore(counts, a, b) ==
  \/ LowerRatio(counts, a, b)
  \/ EqualRatio(counts, a, b) /\ a.wait > b.wait
  \/ EqualRatio(counts, a, b) /\ a.wait = b.wait /\ FifoBefore(a, b)

\* SchedulerPolicyRegistry.create: the key of the policy in use.
Before(policy, counts, a, b) ==
  \/ policy = "fifo" /\ FifoBefore(a, b)
  \/ policy = "shortest_job_first" /\ SjfBefore(a, b)
  \/ policy = "latency_aware" /\ LatencyBefore(a, b)
  \/ policy = "fairness" /\ FairBefore(counts, a, b)

\* sorted(candidates, key=...): a candidate's place is one behind those before it.
Ordered(policy, counts, candidates) ==
  LET place == [i \in DOMAIN candidates |->
                  1 + Cardinality({j \in DOMAIN candidates :
                                     Before(policy, counts, candidates[j], candidates[i])})]
  IN  [k \in DOMAIN candidates |->
         candidates[CHOOSE i \in DOMAIN candidates : place[i] = k]]

\* build_decisions: the first max_candidate_requests are selected, the rest skipped.
SelectedOf(ordered, max) == SubSeq(ordered, 1, IF Len(ordered) < max THEN Len(ordered) ELSE max)
SkippedOf(ordered, max) == SubSeq(ordered, max + 1, Len(ordered))

Count(selected, c) == Cardinality({i \in DOMAIN selected : selected[i].class = c})

\* Faulty variant: the history is that of the latest cycle only.
RecordSelectionsAfresh(policy, counts, selected) ==
  IF policy # "fairness" THEN counts
  ELSE [c \in DOMAIN counts |-> Count(selected, c)]

\* FairnessPolicy._record_selections; the other policies keep no history.
RecordSelections(policy, counts, selected) ==
  IF policy # "fairness" THEN counts
  ELSE [c \in DOMAIN counts |-> counts[c] + Count(selected, c)]

=============================================================================
