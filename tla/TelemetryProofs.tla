--------------------------- MODULE TelemetryProofs ---------------------------
(***************************************************************************)
(* Theorems about what the platform tells about a request, for any         *)
(* requests and replays, any number of attempts and of foreign steps:      *)
(* timelines are causal, the trace tells the outcome, every end is counted *)
(* once, and the comparison of an execution with its replay finds no       *)
(* difference exactly when the same things happened in both.               *)
(***************************************************************************)
EXTENDS Telemetry, FiniteSetTheorems, FunctionTheorems, SequenceTheorems,
        WellFoundedInduction, TLAPS

-----------------------------------------------------------------------------
(***************************************************************************)
(* Events and traces.                                                      *)
(***************************************************************************)
Components == {"control_plane", "scheduler", "adapter", "gateway", "replay", "none"}

EventTypes ==
  LIFECYCLE_EVENT_TYPES \cup SCHEDULER_EVENT_TYPES \cup BATCH_EVENT_TYPES
    \cup BACKEND_EVENT_TYPES \cup EndTypes
    \cup {"gateway_request_received", "request_enqueued", "routing_failed",
          "replay_started", "replay_completed", "replay_failed", "none"}

Events ==
  [comp : Components, type : EventTypes, to : RequestState \cup {"none"},
   from : BOOLEAN, failure : BOOLEAN]
StampedEvents == [e : Events, at : Nat]

\* The lifecycle states that end a request, as the reconstruction reads them.
EndStates == {"completed", "failed", "rejected", "timed_out"}

TypesIn(t) == {t[i].e.type : i \in 1..Len(t)}
StatesIn(t) == {t[i].e.to : i \in 1..Len(t)}

\* What is said of a trace t whose request has used the timestamps 1..s.
TimesPast(t, s) == \A i \in 1..Len(t) : t[i].at \in 1..s

CausesTold(t) ==
  \A i \in 1..Len(t) : \A c \in Causes(t[i].e.type) :
    \E j \in 1..Len(t) : t[j].e.type = c /\ t[j].at < t[i].at

FailuresFollow(t) ==
  \A i \in 1..Len(t) :
    t[i].e.failure =>
      i > 1 /\ t[i - 1].at = t[i].at /\ t[i - 1].e.type = t[i].e.type

StagesInTurn(t) ==
  \A i \in 1..Len(t), j \in 2..Len(Stages) :
    t[i].e.to = Stages[j] => \E k \in 1..(i - 1) : t[k].e.to = Stages[j - 1]

\* Only the event loop tells states, and what it appends is the latest.
StatesAreLatest(t) ==
  \A i \in 1..Len(t), k \in 1..Len(t) :
    k < i /\ t[i].e.to # "none" => t[k].at <= t[i].at

\* An event of an end is the end's, or the end's follows.
EndsAreStated(t) ==
  \A i \in 1..Len(t) :
    /\ t[i].e.type \in EndTypes =>
         \E j \in 1..Len(t) : i <= j /\ t[j].e.to \in EndStates
    /\ t[i].e.to \in EndStates => t[i].e.type \in EndTypes

TraceInv(t, s) ==
  /\ TimesPast(t, s)
  /\ CausesTold(t)
  /\ FailuresFollow(t)
  /\ StagesInTurn(t)
  /\ StatesAreLatest(t)
  /\ EndsAreStated(t)

\* The last end that t tells is x, or a refusal by a backend.
IsLastEnd(t, i) ==
  /\ t[i].e.to \in EndStates
  /\ \A j \in 1..Len(t) : t[j].e.to \in EndStates => j <= i

EndTold(t, x) == \E i \in 1..Len(t) : IsLastEnd(t, i) /\ t[i].e.to = x
RefusalTold(t) == \E i \in 1..Len(t) : IsLastEnd(t, i) /\ t[i].e.type = "batch_rejected"

-----------------------------------------------------------------------------
(***************************************************************************)
(* The inductive invariant.                                                *)
(***************************************************************************)
PathLabels ==
  {"new", "admission", "visible", "enqueued", "waiting", "cycling", "dispatching",
   "submitting", "accepted", "refused", "executing", "closing", "done"}

Verdict == {"absent", "skipped", "already_batched", "refused", "placed"}

Cycles ==
  [of : Requests \cup {"none"}, mine : BOOLEAN, verdict : Verdict, lost : BOOLEAN,
   todo : {<<>>, <<"request_skipped">>, <<"request_selected">>,
           <<"batch_admission", "request_selected">>,
           <<"request_added_to_batch", "request_selected">>},
   stamped : StampedEvents]

TypedPath ==
  /\ streams \subseteq Originals
  /\ state \in [Requests -> RequestState \cup {"none"}]
  /\ pc \in [Requests -> PathLabels]
  /\ own \in [Requests -> Verdict]
  /\ attempts \in [Requests -> 0..MaxAttempts]
  /\ DOMAIN record = Requests
  /\ queue \subseteq Requests
  /\ batched \subseteq Requests
  /\ submitted \subseteq Requests
  /\ foreign \subseteq Requests
  /\ disturbed \subseteq Requests
  /\ cycle \in Cycles

TypedTelling ==
  /\ trace \in [Requests -> Seq(StampedEvents)]
  /\ stamps \in [Requests -> Nat]
  /\ counted \in [Requests -> Nat]
  /\ settled \in [Requests -> Nat]

\* What was told about r by the time it stands where it stands.
PathTold(r) ==
  /\ pc[r] = "visible" \/ r \in queue => "request_admitted" \in TypesIn(trace[r])
  /\ pc[r] = "enqueued" \/ (r \in queue /\ pc[r] # "visible") =>
       "request_enqueued" \in TypesIn(trace[r])
  /\ r \in batched => "request_added_to_batch" \in TypesIn(trace[r])
  /\ pc[r] = "submitting" \/ r \in foreign => "batch_submitted" \in TypesIn(trace[r])
  /\ pc[r] = "accepted" => "batch_accepted" \in TypesIn(trace[r])
  /\ pc[r] = "executing" => own[r] = "placed"
  /\ own[r] = "placed" => r \in batched

StagesTold(r) ==
  /\ pc[r] = "admission" => "validated" \in StatesIn(trace[r])
  /\ pc[r] \in {"visible", "enqueued"} => "admitted" \in StatesIn(trace[r])
  /\ pc[r] \in {"waiting", "cycling", "dispatching", "submitting", "accepted", "refused"} =>
       "queued" \in StatesIn(trace[r])
  /\ pc[r] = "executing" => "submitted" \in StatesIn(trace[r])

\* Who ends a request that is under way has disturbed it.
EndsAreForeign(r) ==
  /\ pc[r] \notin {"closing", "done"} /\ state[r] \in TerminalStates => r \in disturbed
  /\ r \in foreign => r \in disturbed \/ record[r] # NoRecord
  /\ pc[r] # "done" => record[r] = NoRecord

EndIsTold(r) ==
  state[r] \in TerminalStates \ {"cancelled"} =>
    \/ EndTold(trace[r], state[r])
    \/ RefusalTold(trace[r]) /\ (r \in disturbed \/ record[r] # NoRecord)

RequestInv(r) ==
  /\ TraceInv(trace[r], stamps[r])
  /\ PathTold(r)
  /\ StagesTold(r)
  /\ EndsAreForeign(r)
  /\ EndIsTold(r)
  /\ counted[r] = settled[r]

\* The running cycle: a time it has taken lies behind the admission of its
\* request, and a placement it has told is in the engine.
CycleInv ==
  /\ cycle.todo # <<>> =>
       cycle.of \in Requests /\ "request_admitted" \in TypesIn(trace[cycle.of])
  /\ cycle.stamped # NoEvent =>
       /\ cycle.todo # <<>>
       /\ cycle.stamped.e = SchedulerEvent(Head(cycle.todo))
       /\ cycle.stamped.at \in 1..stamps[cycle.of]
       /\ \E j \in 1..Len(trace[cycle.of]) :
            /\ trace[cycle.of][j].e.type = "request_admitted"
            /\ trace[cycle.of][j].at < cycle.stamped.at
  /\ cycle.verdict = "placed" /\ cycle.todo # EventsOf("placed") => cycle.of \in batched
  /\ cycle.mine => cycle.of \in Requests /\ pc[cycle.of] = "cycling"

Inv ==
  /\ TypedPath
  /\ TypedTelling
  /\ CycleInv
  /\ \A r \in Requests : RequestInv(r)

-----------------------------------------------------------------------------
(***************************************************************************)
(* Sorting a trace.                                                        *)
(***************************************************************************)

LEMMA TraceTyped ==
  ASSUME NEW t \in Seq(StampedEvents)
  PROVE  /\ Len(t) \in Nat
         /\ DOMAIN t = 1..Len(t)
         /\ \A i \in 1..Len(t) :
              /\ t[i] \in StampedEvents /\ t[i].at \in Nat
              /\ t[i].e \in Events /\ t[i].e.failure \in BOOLEAN
<1>1. /\ Len(t) \in Nat /\ DOMAIN t = 1..Len(t)
      /\ \A i \in 1..Len(t) : t[i] \in StampedEvents
  BY LenProperties
<1>2. \A x \in StampedEvents : x.at \in Nat /\ x.e \in Events
  BY DEF StampedEvents
<1>3. \A x \in Events : x.failure \in BOOLEAN
  BY DEF Events
<1> QED BY <1>1, <1>2, <1>3

\* An index before another one in the order of the timeline has the smaller
\* rank, and every rank is a place in the timeline.
LEMMA RankGrows ==
  ASSUME NEW t \in Seq(StampedEvents), NEW a \in 1..Len(t), NEW b \in 1..Len(t),
         NotAfter(t, a, b), a # b
  PROVE  Cardinality({j \in 1..Len(t) : NotAfter(t, j, a)})
           < Cardinality({j \in 1..Len(t) : NotAfter(t, j, b)})
<1> DEFINE A == {j \in 1..Len(t) : NotAfter(t, j, a)}
           B == {j \in 1..Len(t) : NotAfter(t, j, b)}
<1>1. Len(t) \in Nat /\ \A j \in 1..Len(t) : t[j].at \in Nat
  BY TraceTyped
<1>2. A \in SUBSET B /\ b \in B /\ b \notin A
  BY <1>1 DEF NotAfter
<1>3. IsFiniteSet(B)
  <2>1. IsFiniteSet(1..Len(t))
    BY <1>1, FS_Interval
  <2> QED BY <2>1, FS_Subset
<1> HIDE DEF A, B
<1>4. IsFiniteSet(A) /\ Cardinality(A) <= Cardinality(B)
      /\ (Cardinality(B) = Cardinality(A) => A = B)
  BY <1>2, <1>3, FS_Subset
<1>5. Cardinality(A) \in Nat /\ Cardinality(B) \in Nat
  BY <1>3, <1>4, FS_CardinalityType
<1>6. Cardinality(A) < Cardinality(B)
  BY <1>2, <1>4, <1>5
<1> QED BY <1>6 DEF A, B

LEMMA RankInRange ==
  ASSUME NEW t \in Seq(StampedEvents), NEW a \in 1..Len(t)
  PROVE  Cardinality({j \in 1..Len(t) : NotAfter(t, j, a)}) \in 1..Len(t)
<1> DEFINE A == {j \in 1..Len(t) : NotAfter(t, j, a)}
<1>1. Len(t) \in Nat /\ \A j \in 1..Len(t) : t[j].at \in Nat
  BY TraceTyped
<1>2. A \in SUBSET (1..Len(t)) /\ a \in A
  BY <1>1 DEF NotAfter
<1>3. IsFiniteSet(1..Len(t)) /\ Cardinality(1..Len(t)) = Len(t)
  <2>1. /\ IsFiniteSet(1..Len(t))
        /\ Cardinality(1..Len(t)) = IF 1 > Len(t) THEN 0 ELSE Len(t) - 1 + 1
    BY <1>1, 1 \in Int, Len(t) \in Int, FS_Interval, Zenon
  <2> QED BY <1>1, <2>1
<1> HIDE DEF A
<1>4. IsFiniteSet(A) /\ Cardinality(A) <= Len(t)
  BY <1>2, <1>3, FS_Subset
<1>5. Cardinality(A) # 0 /\ Cardinality(A) \in Nat
  BY <1>2, <1>4, FS_EmptySet, FS_CardinalityType
<1>6. Cardinality(A) \in 1..Len(t)
  BY <1>1, <1>4, <1>5
<1> QED BY <1>6 DEF A

\* The timeline is the trace in another order: p says which event of the trace
\* is at a place of the timeline.
Sorts(p, t) ==
  /\ p \in [1..Len(t) -> 1..Len(t)]
  /\ \A k \in 1..Len(t) : Timeline(t)[k] = t[p[k]]
  /\ \A i \in 1..Len(t) : \E k \in 1..Len(t) : p[k] = i
  /\ \A k, l \in 1..Len(t) : NotAfter(t, p[k], p[l]) => k <= l

LEMMA TimelineIsSorted ==
  ASSUME NEW t \in Seq(StampedEvents)
  PROVE  /\ DOMAIN Timeline(t) = 1..Len(t)
         /\ \E p : Sorts(p, t)
<1> DEFINE n == Len(t)
           Rank(i) == Cardinality({j \in 1..n : NotAfter(t, j, i)})
           rank == [i \in 1..n |-> Rank(i)]
           p == [k \in 1..n |-> CHOOSE i \in 1..n : rank[i] = k]
           line == [k \in 1..n |-> t[CHOOSE i \in 1..n : rank[i] = k]]
<1>1. n \in Nat /\ \A j \in 1..n : t[j].at \in Nat
  BY TraceTyped
<1>2. Timeline(t) = line
  BY DEF Timeline
<1>3. \A i \in 1..n : Rank(i) \in 1..n
  BY RankInRange
<1>4. \A a, b \in 1..n : a # b /\ NotAfter(t, a, b) => Rank(a) < Rank(b)
  BY RankGrows
<1> HIDE DEF Rank, n
<1>5. rank \in [1..n -> 1..n]
  BY <1>3
<1>6. \A a, b \in 1..n : NotAfter(t, a, b) \/ NotAfter(t, b, a)
  BY <1>1 DEF NotAfter
<1>7. \A a, b \in 1..n : rank[a] = rank[b] => a = b
  BY <1>3, <1>4, <1>6
<1>8. rank \in Injection(1..n, 1..n)
  BY <1>5, <1>7, Fun_IsInj
<1>9. IsFiniteSet(1..n)
  BY <1>1, FS_Interval
<1>10. rank \in Surjection(1..n, 1..n)
  BY <1>8, <1>9, FS_Injection
<1>11. \A k \in 1..n : \E i \in 1..n : rank[i] = k
  BY <1>10 DEF Surjection
<1>12. \A k \in 1..n : p[k] \in 1..n /\ rank[p[k]] = k
  BY <1>11
<1>13. \A k \in 1..n : line[k] = t[p[k]]
  OBVIOUS
<1>14. p \in [1..n -> 1..n]
  BY <1>12
<1> HIDE DEF p
<1>15. \A i \in 1..n : \E k \in 1..n : p[k] = i
  <2> SUFFICES ASSUME NEW i \in 1..n PROVE p[rank[i]] = i
    BY <1>5
  <2> QED BY <1>5, <1>7, <1>12, <1>14
<1>16. ASSUME NEW k \in 1..n, NEW l \in 1..n, NotAfter(t, p[k], p[l]) PROVE k <= l
  <2>1. p[k] = p[l] => k = l
    BY <1>12
  <2>2. p[k] # p[l] => rank[p[k]] < rank[p[l]]
    BY <1>4, <1>14, <1>16
  <2> QED BY <1>1, <1>12, <2>1, <2>2
<1>17. Sorts(p, t)
  BY <1>2, <1>13, <1>14, <1>15, <1>16 DEF Sorts, n
<1>18. DOMAIN line = 1..n
  OBVIOUS
<1> QED BY <1>2, <1>17, <1>18 DEF n

-----------------------------------------------------------------------------
(***************************************************************************)
(* Appending to a trace.                                                   *)
(***************************************************************************)
Appended(t, evs, s) == t \o Stamped(evs, s)

\* The time of the i-th of the events evs.
TimeOf(evs, s, i) == s + Cardinality({j \in 1..i : ~evs[j].failure})

LEMMA EventsTyped ==
  ASSUME NEW evs \in Seq(Events)
  PROVE  /\ Len(evs) \in Nat
         /\ DOMAIN evs = 1..Len(evs)
         /\ \A i \in 1..Len(evs) : evs[i] \in Events /\ evs[i].failure \in BOOLEAN
<1>1. /\ Len(evs) \in Nat /\ DOMAIN evs = 1..Len(evs)
      /\ \A i \in 1..Len(evs) : evs[i] \in Events
  BY LenProperties
<1>2. \A x \in Events : x.failure \in BOOLEAN
  BY DEF Events
<1> QED BY <1>1, <1>2

\* Times do not go back, and only a failure shares the time of the event before.
LEMMA TimesGrow ==
  ASSUME NEW evs \in Seq(Events), NEW s \in Nat
  PROVE  /\ Fresh(evs) \in Nat
         /\ \A i \in 1..Len(evs) :
              /\ TimeOf(evs, s, i) \in s..(s + Fresh(evs))
              /\ ~evs[1].failure => TimeOf(evs, s, i) > s
              /\ i > 1 /\ evs[i].failure => TimeOf(evs, s, i) = TimeOf(evs, s, i - 1)
         /\ \A k, i \in 1..Len(evs) : k <= i => TimeOf(evs, s, k) <= TimeOf(evs, s, i)
<1> DEFINE F(i) == {j \in 1..i : ~evs[j].failure}
           n == Len(evs)
<1>0. n \in Nat
  BY EventsTyped
<1>1. ASSUME NEW i \in 0..n PROVE IsFiniteSet(F(i)) /\ Cardinality(F(i)) \in Nat
  <2>1. IsFiniteSet(1..i)
    BY <1>0, FS_Interval
  <2>2. F(i) \in SUBSET (1..i)
    OBVIOUS
  <2> QED BY <2>1, <2>2, FS_Subset, FS_CardinalityType
<1>2. ASSUME NEW i \in 0..n, NEW k \in 0..i
      PROVE  Cardinality(F(k)) <= Cardinality(F(i))
  <2>1. F(k) \in SUBSET F(i)
    BY <1>0
  <2> QED BY <1>1, <2>1, FS_Subset
<1>3. ASSUME NEW i \in 1..n, ~evs[1].failure PROVE Cardinality(F(i)) # 0
  <2>1. 1 \in F(i)
    BY <1>0, <1>3
  <2>2. F(i) # {}
    BY <2>1
  <2> HIDE DEF F
  <2>3. IsFiniteSet(F(i))
    BY <1>0, <1>1
  <2> QED BY <2>2, <2>3, FS_EmptySet
<1>4. ASSUME NEW i \in 2..n, evs[i].failure PROVE F(i) = F(i - 1)
  BY <1>0, <1>4
<1>5. Fresh(evs) = Cardinality(F(n))
  BY DEF Fresh
<1>6. \A i \in 1..n : TimeOf(evs, s, i) = s + Cardinality(F(i))
  BY DEF TimeOf
<1> HIDE DEF F, n
<1>7. Fresh(evs) \in Nat
  BY <1>0, <1>1, <1>5
<1>8. ASSUME NEW i \in 1..n
      PROVE  /\ TimeOf(evs, s, i) \in s..(s + Fresh(evs))
             /\ ~evs[1].failure => TimeOf(evs, s, i) > s
             /\ i > 1 /\ evs[i].failure => TimeOf(evs, s, i) = TimeOf(evs, s, i - 1)
  <2>1. Cardinality(F(i)) <= Cardinality(F(n)) /\ Cardinality(F(i)) \in Nat
    BY <1>0, <1>1, <1>2
  <2>2. i > 1 => i - 1 \in 1..n /\ i \in 2..n
    BY <1>0
  <2>3. TimeOf(evs, s, i) \in s..(s + Fresh(evs))
    BY <1>5, <1>6, <2>1, <1>7
  <2>4. ~evs[1].failure => TimeOf(evs, s, i) > s
    BY <1>3, <1>6, <2>1
  <2>5. i > 1 /\ evs[i].failure => TimeOf(evs, s, i) = TimeOf(evs, s, i - 1)
    BY <1>4, <1>6, <2>2
  <2> QED BY <2>3, <2>4, <2>5
<1>9. ASSUME NEW k \in 1..n, NEW i \in 1..n, k <= i
      PROVE  TimeOf(evs, s, k) <= TimeOf(evs, s, i)
  <2>1. Cardinality(F(k)) <= Cardinality(F(i))
    BY <1>0, <1>2, <1>9
  <2>2. Cardinality(F(k)) \in Nat /\ Cardinality(F(i)) \in Nat
    BY <1>0, <1>1
  <2> QED BY <1>6, <2>1, <2>2
<1> QED BY <1>7, <1>8, <1>9 DEF n

LEMMA AppendedTrace ==
  ASSUME NEW t \in Seq(StampedEvents), NEW evs \in Seq(Events), NEW s \in Nat
  PROVE  /\ Appended(t, evs, s) \in Seq(StampedEvents)
         /\ Len(Appended(t, evs, s)) = Len(t) + Len(evs)
         /\ \A i \in 1..Len(t) : Appended(t, evs, s)[i] = t[i]
         /\ \A i \in 1..Len(evs) :
              /\ Appended(t, evs, s)[Len(t) + i].e = evs[i]
              /\ Appended(t, evs, s)[Len(t) + i].at = TimeOf(evs, s, i)
<1> DEFINE u == Stamped(evs, s)
           n == Len(evs)
<1>1. n \in Nat /\ \A i \in 1..n : evs[i] \in Events
  BY EventsTyped
<1>2. u = [i \in 1..n |-> [e |-> evs[i], at |-> TimeOf(evs, s, i)]]
  BY DEF Stamped, TimeOf
<1>3. \A i \in 1..n : TimeOf(evs, s, i) \in Nat
  <2>1. /\ Fresh(evs) \in Nat
        /\ \A i \in 1..n : TimeOf(evs, s, i) \in s..(s + Fresh(evs))
    BY TimesGrow
  <2> QED BY <2>1
<1>4. u \in [1..n -> StampedEvents]
  BY <1>1, <1>2, <1>3 DEF StampedEvents
<1>5. DOMAIN u = 1..n /\ \A i \in 1..n : u[i].e = evs[i] /\ u[i].at = TimeOf(evs, s, i)
  BY <1>2
<1> HIDE DEF u, n
<1>6. u \in Seq(StampedEvents)
  BY <1>1, <1>4, SeqDef
<1>7. Len(u) = n
  BY <1>1, <1>5, <1>6, LenProperties
<1>8. /\ t \o u \in Seq(StampedEvents)
      /\ Len(t \o u) = Len(t) + Len(u)
      /\ \A i \in 1..Len(t) + Len(u) :
           (t \o u)[i] = IF i <= Len(t) THEN t[i] ELSE u[i - Len(t)]
  BY <1>6, ConcatProperties
<1>9. Len(t) \in Nat
  BY TraceTyped
<1>10. \A i \in 1..Len(t) : (t \o u)[i] = t[i]
  BY <1>1, <1>7, <1>8, <1>9
<1>11. ASSUME NEW i \in 1..n PROVE (t \o u)[Len(t) + i] = u[i]
  <2>1. Len(t) + i \in 1..Len(t) + Len(u) /\ ~(Len(t) + i <= Len(t))
        /\ Len(t) + i - Len(t) = i
    BY <1>1, <1>7, <1>9
  <2> QED BY <1>8, <2>1
<1> QED BY <1>5, <1>7, <1>8, <1>10, <1>11 DEF Appended, u, n

\* Events that may be told when the types T and the states S have been.
Tellable(T, S, evs) ==
  /\ evs \in Seq(Events)
  /\ \A i \in 1..Len(evs) :
       /\ Causes(evs[i].type) \subseteq T
       /\ evs[i].failure => i > 1 /\ evs[i - 1].type = evs[i].type
       /\ \A j \in 2..Len(Stages) :
            evs[i].to = Stages[j] =>
              \/ Stages[j - 1] \in S
              \/ \E k \in 1..Len(evs) : k < i /\ evs[k].to = Stages[j - 1]
       /\ evs[i].type \in EndTypes =>
            \E j \in 1..Len(evs) : i <= j /\ evs[j].to \in EndStates
       /\ evs[i].to \in EndStates => evs[i].type \in EndTypes

\* Where an event of an appended trace comes from.
LEMMA AppendedOrigin ==
  ASSUME NEW t \in Seq(StampedEvents), NEW evs \in Seq(Events), NEW s \in Nat,
         NEW i \in 1..Len(Appended(t, evs, s))
  PROVE  \/ i \in 1..Len(t)
         \/ i > Len(t) /\ \E m \in 1..Len(evs) : i = Len(t) + m
<1>1. Len(t) \in Nat /\ Len(evs) \in Nat
  BY TraceTyped, EventsTyped
<1>2. Len(Appended(t, evs, s)) = Len(t) + Len(evs)
  BY AppendedTrace
<1>3. CASE i <= Len(t)
  BY <1>1, <1>2, <1>3
<1>4. CASE ~(i <= Len(t))
  <2>1. i - Len(t) \in 1..Len(evs) /\ i = Len(t) + (i - Len(t)) /\ i > Len(t)
    BY <1>1, <1>2, <1>4
  <2> QED BY <2>1
<1> QED BY <1>3, <1>4

LEMMA TellingGrows ==
  ASSUME NEW t \in Seq(StampedEvents), NEW evs \in Seq(Events), NEW s \in Nat
  PROVE  /\ TypesIn(t) \subseteq TypesIn(Appended(t, evs, s))
         /\ StatesIn(t) \subseteq StatesIn(Appended(t, evs, s))
         /\ \A i \in 1..Len(evs) :
              /\ evs[i].type \in TypesIn(Appended(t, evs, s))
              /\ evs[i].to \in StatesIn(Appended(t, evs, s))
<1> DEFINE u == Appended(t, evs, s)
<1>1. Len(t) \in Nat /\ Len(evs) \in Nat
  BY TraceTyped, EventsTyped
<1>2. /\ Len(u) = Len(t) + Len(evs)
      /\ \A i \in 1..Len(t) : u[i] = t[i]
      /\ \A i \in 1..Len(evs) : u[Len(t) + i].e = evs[i]
  BY AppendedTrace
<1> HIDE DEF u
<1>3. \A i \in 1..Len(t) : i \in 1..Len(u)
  BY <1>1, <1>2
<1>4. \A i \in 1..Len(evs) : Len(t) + i \in 1..Len(u)
  BY <1>1, <1>2
<1>5. TypesIn(t) \subseteq TypesIn(u) /\ StatesIn(t) \subseteq StatesIn(u)
  BY <1>2, <1>3 DEF TypesIn, StatesIn
<1>6. \A i \in 1..Len(evs) : evs[i].type \in TypesIn(u) /\ evs[i].to \in StatesIn(u)
  BY <1>2, <1>4 DEF TypesIn, StatesIn
<1> QED BY <1>5, <1>6 DEF u

\* A trace to which such events are appended stays causal, its failures follow
\* their events, its stages come in turn, and its ends are stated.
LEMMA TellingKeepsTrace ==
  ASSUME NEW t \in Seq(StampedEvents), NEW s \in Nat, NEW evs,
         TraceInv(t, s), Tellable(TypesIn(t), StatesIn(t), evs)
  PROVE  TraceInv(Appended(t, evs, s), s + Fresh(evs))
<1> DEFINE u == Appended(t, evs, s)
           n == Len(t)
           m == Len(evs)
           f == Fresh(evs)
           time(i) == TimeOf(evs, s, i)
<1>0. evs \in Seq(Events)
  BY DEF Tellable
<1>1. n \in Nat /\ m \in Nat /\ f \in Nat
  BY <1>0, TraceTyped, EventsTyped, TimesGrow
<1>2. /\ Len(u) = n + m
      /\ \A i \in 1..n : u[i] = t[i]
      /\ \A i \in 1..m : u[n + i].e = evs[i] /\ u[n + i].at = time(i)
  BY <1>0, AppendedTrace
<1>3. \A i \in 1..Len(u) : i \in 1..n \/ (i > n /\ \E k \in 1..m : i = n + k)
  BY <1>0, AppendedOrigin
<1>4. \A i \in 1..n : t[i].at \in 1..s
  BY DEF TraceInv, TimesPast
<1>5. ASSUME m > 0 PROVE ~evs[1].failure
  <2>1. 1 \in 1..m /\ ~(1 > 1)
    BY <1>1, <1>5
  <2> QED BY <2>1 DEF Tellable
<1>6. ASSUME NEW i \in 1..m
      PROVE  /\ time(i) \in (s + 1)..(s + f)
             /\ evs[i].failure => i > 1 /\ time(i) = time(i - 1)
  <2>1. /\ time(i) \in s..(s + f)
        /\ ~evs[1].failure => time(i) > s
        /\ i > 1 /\ evs[i].failure => time(i) = time(i - 1)
    BY <1>0, TimesGrow
  <2>2. ~evs[1].failure
    BY <1>1, <1>5
  <2>3. evs[i].failure => i > 1
    BY DEF Tellable
  <2> HIDE DEF time, f
  <2> QED BY <1>1, <2>1, <2>2, <2>3
<1>7. \A k, i \in 1..m : k <= i => time(k) <= time(i)
  BY <1>0, TimesGrow
<1> HIDE DEF u, time, f
<1>8. TimesPast(u, s + f)
  <2> SUFFICES ASSUME NEW i \in 1..Len(u) PROVE u[i].at \in 1..(s + f)
    BY DEF TimesPast
  <2>1. CASE i \in 1..n
    <3>1. t[i].at \in 1..(s + f)
      BY <1>1, <1>4, <2>1
    <3> QED BY <1>2, <2>1, <3>1
  <2>2. ASSUME NEW k \in 1..m, i = n + k PROVE u[i].at \in 1..(s + f)
    <3>1. time(k) \in 1..(s + f)
      BY <1>1, <1>6
    <3> QED BY <1>2, <2>2, <3>1
  <2> QED BY <1>3, <2>1, <2>2
<1>9. CausesTold(u)
  <2>0. \A j \in 1..n : j \in 1..Len(u)
    BY <1>1, <1>2
  <2> SUFFICES ASSUME NEW i \in 1..Len(u), NEW c \in Causes(u[i].e.type)
               PROVE  \E j \in 1..n : u[j].e.type = c /\ u[j].at < u[i].at
    BY <2>0 DEF CausesTold
  <2>1. CASE i \in 1..n
    <3>1. u[i] = t[i]
      BY <1>2, <2>1
    <3>2. c \in Causes(t[i].e.type)
      BY <3>1
    <3>3. PICK j \in 1..n : t[j].e.type = c /\ t[j].at < t[i].at
      BY <2>1, <3>2 DEF TraceInv, CausesTold
    <3> QED BY <1>2, <3>1, <3>3
  <2>2. ASSUME NEW k \in 1..m, i = n + k
        PROVE  \E j \in 1..n : u[j].e.type = c /\ u[j].at < u[i].at
    <3>1. c \in TypesIn(t)
      BY <1>2, <2>2 DEF Tellable
    <3>2. PICK j \in 1..n : t[j].e.type = c
      BY <3>1 DEF TypesIn
    <3>3. t[j].at < time(k)
      BY <1>1, <1>4, <1>6
    <3> QED BY <1>2, <2>2, <3>2, <3>3
  <2> QED BY <1>3, <2>1, <2>2
<1>10. FailuresFollow(u)
  <2> SUFFICES ASSUME NEW i \in 1..Len(u), u[i].e.failure
               PROVE  i > 1 /\ u[i - 1].at = u[i].at /\ u[i - 1].e.type = u[i].e.type
    BY DEF FailuresFollow
  <2>1. CASE i \in 1..n
    <3>1. i > 1 /\ t[i - 1].at = t[i].at /\ t[i - 1].e.type = t[i].e.type
      BY <1>2, <2>1 DEF TraceInv, FailuresFollow
    <3>2. i - 1 \in 1..n
      BY <1>1, <2>1, <3>1
    <3> QED BY <1>2, <2>1, <3>1, <3>2
  <2>2. ASSUME NEW k \in 1..m, i = n + k
        PROVE  i > 1 /\ u[i - 1].at = u[i].at /\ u[i - 1].e.type = u[i].e.type
    <3>1. evs[k].failure
      BY <1>2, <2>2
    <3>2. k > 1 /\ evs[k - 1].type = evs[k].type /\ time(k) = time(k - 1)
      BY <1>6, <3>1 DEF Tellable
    <3>3. k - 1 \in 1..m /\ i - 1 = n + (k - 1) /\ i > 1
      BY <1>1, <2>2, <3>2
    <3>4. u[i].e = evs[k] /\ u[i].at = time(k)
      BY <1>2, <2>2
    <3>5. u[i - 1].e = evs[k - 1] /\ u[i - 1].at = time(k - 1)
      BY <1>2, <3>3
    <3> QED BY <3>2, <3>3, <3>4, <3>5
  <2> QED BY <1>3, <2>1, <2>2
<1>11. StagesInTurn(u)
  <2> SUFFICES ASSUME NEW i \in 1..Len(u), NEW j \in 2..Len(Stages), u[i].e.to = Stages[j]
               PROVE  \E k \in 1..(i - 1) : u[k].e.to = Stages[j - 1]
    BY DEF StagesInTurn
  <2>1. CASE i \in 1..n
    <3>1. PICK k \in 1..(i - 1) : t[k].e.to = Stages[j - 1]
      BY <1>2, <2>1 DEF TraceInv, StagesInTurn
    <3>2. k \in 1..n
      BY <1>1, <2>1
    <3> QED BY <1>2, <3>1, <3>2
  <2>2. ASSUME NEW l \in 1..m, i = n + l
        PROVE  \E k \in 1..(i - 1) : u[k].e.to = Stages[j - 1]
    <3>1. \/ Stages[j - 1] \in StatesIn(t)
          \/ \E k \in 1..m : k < l /\ evs[k].to = Stages[j - 1]
      BY <1>2, <2>2 DEF Tellable
    <3>2. CASE Stages[j - 1] \in StatesIn(t)
      <4>1. PICK k \in 1..n : t[k].e.to = Stages[j - 1]
        BY <3>2 DEF StatesIn
      <4>2. k \in 1..(i - 1)
        BY <1>1, <2>2
      <4> QED BY <1>2, <4>1, <4>2
    <3>3. CASE \E k \in 1..m : k < l /\ evs[k].to = Stages[j - 1]
      <4>1. PICK k \in 1..m : k < l /\ evs[k].to = Stages[j - 1]
        BY <3>3
      <4>2. n + k \in 1..(i - 1)
        BY <1>1, <2>2, <4>1
      <4> QED BY <1>2, <4>1, <4>2
    <3> QED BY <3>1, <3>2, <3>3
  <2> QED BY <1>3, <2>1, <2>2
<1>12. StatesAreLatest(u)
  <2> SUFFICES ASSUME NEW i \in 1..Len(u), NEW k \in 1..Len(u), k < i, u[i].e.to # "none"
               PROVE  u[k].at <= u[i].at
    BY DEF StatesAreLatest
  <2>1. CASE i \in 1..n
    <3>1. k \in 1..n
      BY <1>1, <1>2, <2>1
    <3> QED BY <1>2, <2>1, <3>1 DEF TraceInv, StatesAreLatest
  <2>2. ASSUME NEW l \in 1..m, i = n + l PROVE u[k].at <= u[i].at
    <3>1. CASE k \in 1..n
      <4>1. t[k].at <= time(l)
        BY <1>1, <1>4, <1>6, <3>1
      <4> QED BY <1>2, <2>2, <3>1, <4>1
    <3>2. ASSUME NEW h \in 1..m, k = n + h PROVE u[k].at <= u[i].at
      <4>1. h <= l
        BY <1>1, <2>2, <3>2
      <4> QED BY <1>2, <1>7, <2>2, <3>2, <4>1
    <3> QED BY <1>3, <3>1, <3>2
  <2> QED BY <1>3, <2>1, <2>2
<1>13. EndsAreStated(u)
  <2> SUFFICES ASSUME NEW i \in 1..Len(u)
               PROVE  /\ u[i].e.type \in EndTypes =>
                           \E j \in 1..Len(u) : i <= j /\ u[j].e.to \in EndStates
                      /\ u[i].e.to \in EndStates => u[i].e.type \in EndTypes
    BY DEF EndsAreStated
  <2>1. CASE i \in 1..n
    <3>1. \A j \in 1..n : j \in 1..Len(u)
      BY <1>1, <1>2
    <3> QED BY <1>2, <2>1, <3>1 DEF TraceInv, EndsAreStated
  <2>2. ASSUME NEW l \in 1..m, i = n + l
        PROVE  /\ u[i].e.type \in EndTypes =>
                    \E j \in 1..Len(u) : i <= j /\ u[j].e.to \in EndStates
               /\ u[i].e.to \in EndStates => u[i].e.type \in EndTypes
    <3>1. /\ evs[l].type \in EndTypes =>
               \E j \in 1..m : l <= j /\ evs[j].to \in EndStates
          /\ evs[l].to \in EndStates => evs[l].type \in EndTypes
      BY DEF Tellable
    <3>2. \A j \in 1..m : l <= j => n + j \in 1..Len(u) /\ i <= n + j
      BY <1>1, <1>2, <2>2
    <3> QED BY <1>2, <2>2, <3>1, <3>2
  <2> QED BY <1>3, <2>1, <2>2
<1> QED BY <1>8, <1>9, <1>10, <1>11, <1>12, <1>13 DEF TraceInv, u, f

-----------------------------------------------------------------------------
(***************************************************************************)
(* What a list of events says: how many ends it counts, and which end it   *)
(* tells last, "none" when it tells of no end.                             *)
(***************************************************************************)
Finished(evs) == Cardinality({i \in 1..Len(evs) : Finishes(evs[i])})

LastEndOf(evs, i) ==
  /\ evs[i].to \in EndStates
  /\ \A j \in 1..Len(evs) : evs[j].to \in EndStates => j <= i

EndsWith(evs, x) ==
  IF x = "none" THEN \A i \in 1..Len(evs) : evs[i].to \notin EndStates
                ELSE \E i \in 1..Len(evs) : LastEndOf(evs, i) /\ evs[i].to = x

Says(T, S, evs, n, x) ==
  /\ Tellable(T, S, evs)
  /\ Finished(evs) = n
  /\ EndsWith(evs, x)

\* The last end told is the last end of the trace.
LEMMA LastEndIsAppended ==
  ASSUME NEW t \in Seq(StampedEvents), NEW evs \in Seq(Events), NEW s \in Nat,
         NEW i \in 1..Len(evs), LastEndOf(evs, i)
  PROVE  /\ Len(t) + i \in 1..Len(Appended(t, evs, s))
         /\ Appended(t, evs, s)[Len(t) + i].e = evs[i]
         /\ IsLastEnd(Appended(t, evs, s), Len(t) + i)
<1> DEFINE u == Appended(t, evs, s)
<1>1. Len(t) \in Nat /\ Len(evs) \in Nat
  BY TraceTyped, EventsTyped
<1>2. /\ Len(u) = Len(t) + Len(evs)
      /\ \A j \in 1..Len(evs) : u[Len(t) + j].e = evs[j]
  BY AppendedTrace
<1>3. ASSUME NEW k \in 1..Len(u)
      PROVE  \/ k \in 1..Len(t)
             \/ k > Len(t) /\ \E m \in 1..Len(evs) : k = Len(t) + m
  BY AppendedOrigin
<1> HIDE DEF u
<1>4. ASSUME NEW k \in 1..Len(u), u[k].e.to \in EndStates PROVE k <= Len(t) + i
  <2>1. CASE k \in 1..Len(t)
    BY <1>1, <2>1
  <2>2. ASSUME NEW m \in 1..Len(evs), k = Len(t) + m PROVE k <= Len(t) + i
    <3>1. m <= i
      BY <1>2, <1>4, <2>2 DEF LastEndOf
    <3> QED BY <1>1, <2>2, <3>1
  <2> QED BY <1>3, <2>1, <2>2
<1>5. Len(t) + i \in 1..Len(u)
  BY <1>1, <1>2
<1>6. IsLastEnd(u, Len(t) + i)
  BY <1>2, <1>4 DEF IsLastEnd, LastEndOf
<1> QED BY <1>2, <1>5, <1>6 DEF u

\* Events that tell of no end leave the last end of the trace what it was.
LEMMA LastEndStays ==
  ASSUME NEW t \in Seq(StampedEvents), NEW evs \in Seq(Events), NEW s \in Nat,
         EndsWith(evs, "none"), NEW i \in 1..Len(t), IsLastEnd(t, i)
  PROVE  /\ i \in 1..Len(Appended(t, evs, s))
         /\ Appended(t, evs, s)[i] = t[i]
         /\ IsLastEnd(Appended(t, evs, s), i)
<1> DEFINE u == Appended(t, evs, s)
<1>1. Len(t) \in Nat /\ Len(evs) \in Nat
  BY TraceTyped, EventsTyped
<1>2. /\ Len(u) = Len(t) + Len(evs)
      /\ \A j \in 1..Len(t) : u[j] = t[j]
      /\ \A j \in 1..Len(evs) : u[Len(t) + j].e = evs[j]
  BY AppendedTrace
<1>3. ASSUME NEW k \in 1..Len(u)
      PROVE  \/ k \in 1..Len(t)
             \/ k > Len(t) /\ \E m \in 1..Len(evs) : k = Len(t) + m
  BY AppendedOrigin
<1> HIDE DEF u
<1>4. ASSUME NEW k \in 1..Len(u), u[k].e.to \in EndStates PROVE k <= i
  <2>1. CASE k \in 1..Len(t)
    BY <1>2, <1>4, <2>1 DEF IsLastEnd
  <2>2. ASSUME NEW m \in 1..Len(evs), k = Len(t) + m PROVE FALSE
    <3>1. evs[m].to \in EndStates
      BY <1>2, <1>4, <2>2
    <3> QED BY <3>1 DEF EndsWith
  <2> QED BY <1>3, <2>1, <2>2
<1>5. i \in 1..Len(u)
  BY <1>1, <1>2
<1>6. IsLastEnd(u, i)
  BY <1>2, <1>4 DEF IsLastEnd
<1> QED BY <1>2, <1>5, <1>6 DEF u

LEMMA EndsAppend ==
  ASSUME NEW t \in Seq(StampedEvents), NEW evs \in Seq(Events), NEW s \in Nat
  PROVE  /\ \A x : EndsWith(evs, x) /\ x # "none" => EndTold(Appended(t, evs, s), x)
         /\ \A x : EndsWith(evs, "none") /\ EndTold(t, x) => EndTold(Appended(t, evs, s), x)
         /\ EndsWith(evs, "none") /\ RefusalTold(t) => RefusalTold(Appended(t, evs, s))
         /\ (\E i \in 1..Len(evs) : LastEndOf(evs, i) /\ evs[i].type = "batch_rejected")
              => RefusalTold(Appended(t, evs, s))
<1>1. ASSUME NEW x, EndsWith(evs, x), x # "none"
      PROVE  EndTold(Appended(t, evs, s), x)
  <2>1. PICK i \in 1..Len(evs) : LastEndOf(evs, i) /\ evs[i].to = x
    BY <1>1 DEF EndsWith
  <2> QED BY <2>1, LastEndIsAppended DEF EndTold
<1>2. ASSUME NEW x, EndsWith(evs, "none"), EndTold(t, x)
      PROVE  EndTold(Appended(t, evs, s), x)
  <2>1. PICK i \in 1..Len(t) : IsLastEnd(t, i) /\ t[i].e.to = x
    BY <1>2 DEF EndTold
  <2> QED BY <1>2, <2>1, LastEndStays DEF EndTold
<1>3. ASSUME EndsWith(evs, "none"), RefusalTold(t)
      PROVE  RefusalTold(Appended(t, evs, s))
  <2>1. PICK i \in 1..Len(t) : IsLastEnd(t, i) /\ t[i].e.type = "batch_rejected"
    BY <1>3 DEF RefusalTold
  <2> QED BY <1>3, <2>1, LastEndStays DEF RefusalTold
<1>4. ASSUME NEW i \in 1..Len(evs), LastEndOf(evs, i), evs[i].type = "batch_rejected"
      PROVE  RefusalTold(Appended(t, evs, s))
  <2>1. /\ Len(t) + i \in 1..Len(Appended(t, evs, s))
        /\ Appended(t, evs, s)[Len(t) + i].e = evs[i]
        /\ IsLastEnd(Appended(t, evs, s), Len(t) + i)
    BY <1>4, LastEndIsAppended
  <2> QED BY <1>4, <2>1 DEF RefusalTold
<1> QED BY <1>1, <1>2, <1>3, <1>4

StatesOf(evs) == {evs[i].to : i \in 1..Len(evs)}

\* The stage before x, if x is one, is in S.
InTurn(S, x) == \A j \in 2..Len(Stages) : x = Stages[j] => Stages[j - 1] \in S

LEMMA StageOrder ==
  ASSUME NEW S, NEW x
  PROVE  /\ x \notin {"validated", "admitted", "queued", "scheduled", "batched",
                      "submitted", "completed"} => InTurn(S, x)
         /\ x = "validated" /\ "received" \in S => InTurn(S, x)
         /\ x = "admitted" /\ "validated" \in S => InTurn(S, x)
         /\ x = "queued" /\ "admitted" \in S => InTurn(S, x)
         /\ x = "scheduled" /\ "queued" \in S => InTurn(S, x)
         /\ x = "batched" /\ "scheduled" \in S => InTurn(S, x)
         /\ x = "submitted" /\ "batched" \in S => InTurn(S, x)
         /\ x = "completed" /\ "submitted" \in S => InTurn(S, x)
<1>1. Len(Stages) = 8
  BY DEF Stages
<1>2. /\ Stages[1] = "received" /\ Stages[2] = "validated" /\ Stages[3] = "admitted"
      /\ Stages[4] = "queued" /\ Stages[5] = "scheduled" /\ Stages[6] = "batched"
      /\ Stages[7] = "submitted" /\ Stages[8] = "completed"
  BY DEF Stages
<1>3. InTurn(S, x) <=>
        /\ x = "validated" => "received" \in S
        /\ x = "admitted" => "validated" \in S
        /\ x = "queued" => "admitted" \in S
        /\ x = "scheduled" => "queued" \in S
        /\ x = "batched" => "scheduled" \in S
        /\ x = "submitted" => "batched" \in S
        /\ x = "completed" => "submitted" \in S
  <2>1. \A j \in 2..8 : \/ j = 2 /\ j - 1 = 1
                        \/ j = 3 /\ j - 1 = 2
                        \/ j = 4 /\ j - 1 = 3
                        \/ j = 5 /\ j - 1 = 4
                        \/ j = 6 /\ j - 1 = 5
                        \/ j = 7 /\ j - 1 = 6
                        \/ j = 8 /\ j - 1 = 7
    OBVIOUS
  <2>2. 2..Len(Stages) = {2, 3, 4, 5, 6, 7, 8}
    BY <1>1
  <2>3. InTurn(S, x) <=>
          \A j \in {2, 3, 4, 5, 6, 7, 8} : x = Stages[j] => Stages[j - 1] \in S
    BY <2>2 DEF InTurn
  <2> QED BY <1>2, <2>3
<1> QED BY <1>3

\* Nothing, one event, and an event with its failure.
LEMMA SaysNothing ==
  ASSUME NEW T, NEW S
  PROVE  Says(T, S, <<>>, 0, "none")
<1>1. Len(<<>>) = 0 /\ <<>> \in Seq(Events)
  OBVIOUS
<1>2. {i \in 1..Len(<<>>) : Finishes(<<>>[i])} = {}
  BY <1>1
<1>3. Finished(<<>>) = 0
  BY <1>2, FS_EmptySet DEF Finished
<1> QED BY <1>1, <1>3 DEF Says, Tellable, EndsWith

LEMMA SaysOne ==
  ASSUME NEW T, NEW S, NEW e \in Events, ~e.failure, Causes(e.type) \subseteq T,
         InTurn(S, e.to), e.type \in EndTypes <=> e.to \in EndStates
  PROVE  Says(T, S, <<e>>, IF Finishes(e) THEN 1 ELSE 0,
              IF e.to \in EndStates THEN e.to ELSE "none")
<1> DEFINE evs == <<e>>
<1>1. Len(evs) = 1 /\ evs \in Seq(Events) /\ evs[1] = e /\ 1..Len(evs) = {1}
  OBVIOUS
<1> HIDE DEF evs
<1>2. Finished(evs) = IF Finishes(e) THEN 1 ELSE 0
  <2>1. CASE Finishes(e)
    <3>1. {i \in 1..Len(evs) : Finishes(evs[i])} = {1}
      BY <1>1, <2>1
    <3> QED BY <2>1, <3>1, FS_Singleton DEF Finished
  <2>2. CASE ~Finishes(e)
    <3>1. {i \in 1..Len(evs) : Finishes(evs[i])} = {}
      BY <1>1, <2>2
    <3> QED BY <2>2, <3>1, FS_EmptySet DEF Finished
  <2> QED BY <2>1, <2>2
<1>3. Tellable(T, S, evs)
  BY <1>1 DEF Tellable, InTurn
<1>4. EndsWith(evs, IF e.to \in EndStates THEN e.to ELSE "none")
  BY <1>1 DEF EndsWith, LastEndOf, EndStates
<1> QED BY <1>2, <1>3, <1>4 DEF Says, evs

LEMMA SaysPair ==
  ASSUME NEW T, NEW S, NEW e \in Events, ~e.failure, Causes(e.type) \subseteq T,
         e.to \in {"none", "failed"}, e.type \in EndTypes,
         NEW x \in {"failed", "rejected", "timed_out"}
  PROVE  /\ Says(T, S, <<e, FailureOf(e, x)>>, IF Finishes(e) THEN 1 ELSE 0, x)
         /\ LastEndOf(<<e, FailureOf(e, x)>>, 2)
<1> DEFINE f == FailureOf(e, x)
           evs == <<e, f>>
<1>1. /\ f \in Events /\ f.failure /\ f.type = e.type /\ f.to = x
  <2>1. f = [e EXCEPT !.to = x, !.failure = TRUE]
    BY DEF FailureOf
  <2>2. /\ e = [comp |-> e.comp, type |-> e.type, to |-> e.to,
                from |-> e.from, failure |-> e.failure]
        /\ e.comp \in Components /\ e.type \in EventTypes /\ e.from \in BOOLEAN
    BY DEF Events
  <2>3. f = [comp |-> e.comp, type |-> e.type, to |-> x, from |-> e.from, failure |-> TRUE]
    BY <2>1, <2>2
  <2>4. x \in RequestState
    BY DEF RequestState, TerminalStates
  <2> HIDE DEF f
  <2> QED BY <2>2, <2>3, <2>4 DEF Events
<1> HIDE DEF f
<1>2. /\ Len(evs) = 2 /\ evs \in Seq(Events) /\ evs[1] = e /\ evs[2] = f
      /\ 1..Len(evs) = {1, 2}
  BY <1>1
<1> HIDE DEF evs
<1>3. ~Finishes(f)
  BY <1>1 DEF Finishes
<1>4. Finished(evs) = IF Finishes(e) THEN 1 ELSE 0
  <2>1. CASE Finishes(e)
    <3>1. {i \in 1..Len(evs) : Finishes(evs[i])} = {1}
      BY <1>2, <1>3, <2>1
    <3> QED BY <2>1, <3>1, FS_Singleton DEF Finished
  <2>2. CASE ~Finishes(e)
    <3>1. {i \in 1..Len(evs) : Finishes(evs[i])} = {}
      BY <1>2, <1>3, <2>2
    <3> QED BY <2>2, <3>1, FS_EmptySet DEF Finished
  <2> QED BY <2>1, <2>2
<1>5. InTurn(S, e.to) /\ InTurn(S, x)
  BY StageOrder
<1>6. Tellable(T, S, evs)
  <2>1. 2 - 1 = 1 /\ 2 > 1 /\ 1 <= 2 /\ 2 <= 2
    OBVIOUS
  <2> QED BY <1>1, <1>2, <1>5, <2>1 DEF Tellable, InTurn, EndStates
<1>7. LastEndOf(evs, 2)
  BY <1>1, <1>2 DEF LastEndOf, EndStates
<1>8. EndsWith(evs, x)
  BY <1>1, <1>2, <1>7 DEF EndsWith
<1> QED BY <1>4, <1>6, <1>7, <1>8 DEF Says, evs, f

\* One list of events after another.
LEMMA SaysBoth ==
  ASSUME NEW T, NEW S, NEW a, NEW b, NEW n \in Nat, NEW m \in Nat,
         NEW x, NEW y,
         Says(T, S, a, n, x), Says(T, S \cup StatesOf(a), b, m, y)
  PROVE  Says(T, S, a \o b, n + m, IF y = "none" THEN x ELSE y)
<1> DEFINE c == a \o b
           z == IF y = "none" THEN x ELSE y
<1>0. a \in Seq(Events) /\ b \in Seq(Events)
  BY DEF Says, Tellable
<1>1. Len(a) \in Nat /\ Len(b) \in Nat
  BY <1>0, EventsTyped
<1>2. /\ c \in Seq(Events)
      /\ Len(c) = Len(a) + Len(b)
      /\ \A i \in 1..Len(a) + Len(b) : c[i] = IF i <= Len(a) THEN a[i] ELSE b[i - Len(a)]
  BY <1>0, ConcatProperties
<1>3. \A i \in 1..Len(a) : i \in 1..Len(c) /\ c[i] = a[i]
  BY <1>1, <1>2
<1>4. ASSUME NEW i \in 1..Len(b) PROVE Len(a) + i \in 1..Len(c) /\ c[Len(a) + i] = b[i]
  <2>1. /\ Len(a) + i \in 1..Len(a) + Len(b) /\ ~(Len(a) + i <= Len(a))
        /\ Len(a) + i - Len(a) = i
    BY <1>1
  <2> QED BY <1>2, <2>1
<1>5. ASSUME NEW i \in 1..Len(c)
      PROVE  i \in 1..Len(a) \/ (i > Len(a) /\ \E k \in 1..Len(b) : i = Len(a) + k)
  <2>1. CASE i <= Len(a)
    BY <1>1, <1>2, <2>1
  <2>2. CASE ~(i <= Len(a))
    <3>1. i - Len(a) \in 1..Len(b) /\ i = Len(a) + (i - Len(a)) /\ i > Len(a)
      BY <1>1, <1>2, <2>2
    <3> QED BY <3>1
  <2> QED BY <2>1, <2>2
<1> HIDE DEF c
<1>6. Finished(c) = n + m
  <2> DEFINE A == {i \in 1..Len(a) : Finishes(a[i])}
             B == {i \in 1..Len(b) : Finishes(b[i])}
             B2 == {i \in 1..Len(c) : i > Len(a) /\ Finishes(c[i])}
             C == {i \in 1..Len(c) : Finishes(c[i])}
             g == [i \in B |-> Len(a) + i]
  <2>1. IsFiniteSet(A) /\ IsFiniteSet(B) /\ IsFiniteSet(B2)
    <3>1. IsFiniteSet(1..Len(a)) /\ IsFiniteSet(1..Len(b)) /\ IsFiniteSet(1..Len(c))
      BY <1>1, <1>2, FS_Interval
    <3> QED BY <3>1, FS_Subset
  <2>2. C = A \cup B2 /\ A \cap B2 = {}
    BY <1>1, <1>3, <1>5
  <2>3. g \in Bijection(B, B2)
    <3>1. g \in [B -> B2]
      BY <1>1, <1>4
    <3>2. \A i, j \in B : g[i] = g[j] => i = j
      BY <1>1
    <3>3. \A k \in B2 : \E i \in B : g[i] = k
      <4> SUFFICES ASSUME NEW k \in B2 PROVE \E i \in B : Len(a) + i = k
        OBVIOUS
      <4>1. k \in 1..Len(c) /\ k > Len(a)
        OBVIOUS
      <4>2. PICK i \in 1..Len(b) : k = Len(a) + i
        BY <1>1, <1>5, <4>1
      <4>3. Finishes(b[i])
        BY <1>4, <4>2
      <4> QED BY <4>2, <4>3
    <3> QED BY <3>1, <3>2, <3>3, Fun_IsBij
  <2> HIDE DEF A, B, B2, C, g
  <2>4. Cardinality(B2) = Cardinality(B)
    BY <2>1, <2>3, FS_Bijection DEF ExistsBijection
  <2>5. Cardinality(C) = Cardinality(A) + Cardinality(B2) - Cardinality({})
    BY <2>1, <2>2, FS_Union
  <2>6. Cardinality(A) = n /\ Cardinality(B) = m
    BY DEF A, B, Says, Finished
  <2>7. Cardinality(C) = n + m
    BY <2>4, <2>5, <2>6, FS_EmptySet
  <2> QED BY <2>7 DEF C, Finished
<1>7. Tellable(T, S, c)
  <2> SUFFICES ASSUME NEW i \in 1..Len(c)
               PROVE  /\ Causes(c[i].type) \subseteq T
                      /\ c[i].failure => i > 1 /\ c[i - 1].type = c[i].type
                      /\ \A j \in 2..Len(Stages) :
                           c[i].to = Stages[j] =>
                             \/ Stages[j - 1] \in S
                             \/ \E k \in 1..Len(c) : k < i /\ c[k].to = Stages[j - 1]
                      /\ c[i].type \in EndTypes =>
                           \E j \in 1..Len(c) : i <= j /\ c[j].to \in EndStates
                      /\ c[i].to \in EndStates => c[i].type \in EndTypes
    BY <1>2 DEF Tellable
  <2>1. CASE i \in 1..Len(a)
    <3>1. /\ Causes(a[i].type) \subseteq T
          /\ a[i].failure => i > 1 /\ a[i - 1].type = a[i].type
          /\ \A j \in 2..Len(Stages) :
               a[i].to = Stages[j] =>
                 \/ Stages[j - 1] \in S
                 \/ \E k \in 1..Len(a) : k < i /\ a[k].to = Stages[j - 1]
          /\ a[i].type \in EndTypes =>
               \E j \in 1..Len(a) : i <= j /\ a[j].to \in EndStates
          /\ a[i].to \in EndStates => a[i].type \in EndTypes
      BY <2>1 DEF Says, Tellable
    <3>2. i > 1 => i - 1 \in 1..Len(a)
      BY <1>1, <2>1
    <3> QED BY <1>3, <2>1, <3>1, <3>2
  <2>2. ASSUME NEW h \in 1..Len(b), i = Len(a) + h
        PROVE  /\ Causes(c[i].type) \subseteq T
               /\ c[i].failure => i > 1 /\ c[i - 1].type = c[i].type
               /\ \A j \in 2..Len(Stages) :
                    c[i].to = Stages[j] =>
                      \/ Stages[j - 1] \in S
                      \/ \E k \in 1..Len(c) : k < i /\ c[k].to = Stages[j - 1]
               /\ c[i].type \in EndTypes =>
                    \E j \in 1..Len(c) : i <= j /\ c[j].to \in EndStates
               /\ c[i].to \in EndStates => c[i].type \in EndTypes
    <3>0. c[i] = b[h]
      BY <1>4, <2>2
    <3>1. /\ Causes(b[h].type) \subseteq T
          /\ b[h].failure => h > 1 /\ b[h - 1].type = b[h].type
          /\ b[h].type \in EndTypes =>
               \E j \in 1..Len(b) : h <= j /\ b[j].to \in EndStates
          /\ b[h].to \in EndStates => b[h].type \in EndTypes
      BY DEF Says, Tellable
    <3>2. b[h].failure => i > 1 /\ c[i - 1].type = b[h].type
      <4> SUFFICES ASSUME b[h].failure PROVE i > 1 /\ c[i - 1].type = b[h].type
        BY Zenon
      <4>1. h - 1 \in 1..Len(b) /\ i - 1 = Len(a) + (h - 1) /\ i > 1
        BY <1>1, <2>2, <3>1
      <4>2. c[i - 1] = b[h - 1]
        BY <1>4, <4>1
      <4> QED BY <3>1, <4>1, <4>2
    <3>3. ASSUME NEW j \in 2..Len(Stages), b[h].to = Stages[j]
          PROVE  \/ Stages[j - 1] \in S
                 \/ \E k \in 1..Len(c) : k < i /\ c[k].to = Stages[j - 1]
      <4>1. \/ Stages[j - 1] \in S
            \/ \E k \in 1..Len(a) : a[k].to = Stages[j - 1]
            \/ \E k \in 1..Len(b) : k < h /\ b[k].to = Stages[j - 1]
        BY <3>3 DEF Says, Tellable, StatesOf
      <4>2. \A k \in 1..Len(a) : k < i
        BY <1>1, <2>2
      <4>3. \A k \in 1..Len(b) : k < h => Len(a) + k < i
        BY <1>1, <2>2
      <4> QED BY <1>3, <1>4, <4>1, <4>2, <4>3
    <3>4. b[h].type \in EndTypes => \E j \in 1..Len(c) : i <= j /\ c[j].to \in EndStates
      <4>1. \A j \in 1..Len(b) : h <= j => i <= Len(a) + j
        BY <1>1, <2>2
      <4> QED BY <1>4, <3>1, <4>1
    <3> QED BY <3>0, <3>1, <3>2, <3>3, <3>4
  <2> QED BY <1>5, <2>1, <2>2
<1>8. EndsWith(c, z)
  <2>1. CASE y # "none"
    <3>1. PICK i \in 1..Len(b) : LastEndOf(b, i) /\ b[i].to = y
      BY <2>1 DEF Says, EndsWith
    <3>2. ASSUME NEW k \in 1..Len(c), c[k].to \in EndStates PROVE k <= Len(a) + i
      <4>1. CASE k \in 1..Len(a)
        BY <1>1, <4>1
      <4>2. ASSUME NEW h \in 1..Len(b), k = Len(a) + h PROVE k <= Len(a) + i
        <5>1. h <= i
          BY <1>4, <3>1, <3>2, <4>2 DEF LastEndOf
        <5> QED BY <1>1, <4>2, <5>1
      <4> QED BY <1>5, <4>1, <4>2
    <3>3. LastEndOf(c, Len(a) + i) /\ c[Len(a) + i].to = y /\ Len(a) + i \in 1..Len(c)
      BY <1>4, <3>1, <3>2 DEF LastEndOf
    <3> QED BY <2>1, <3>3 DEF EndsWith
  <2>2. CASE y = "none" /\ x # "none"
    <3>1. PICK i \in 1..Len(a) : LastEndOf(a, i) /\ a[i].to = x
      BY <2>2 DEF Says, EndsWith
    <3>2. ASSUME NEW k \in 1..Len(c), c[k].to \in EndStates PROVE k <= i
      <4>1. CASE k \in 1..Len(a)
        BY <1>3, <3>1, <3>2, <4>1 DEF LastEndOf
      <4>2. ASSUME NEW h \in 1..Len(b), k = Len(a) + h PROVE FALSE
        BY <1>4, <2>2, <3>2, <4>2 DEF Says, EndsWith
      <4> QED BY <1>5, <4>1, <4>2
    <3>3. LastEndOf(c, i) /\ c[i].to = x /\ i \in 1..Len(c)
      BY <1>3, <3>1, <3>2 DEF LastEndOf
    <3> QED BY <2>2, <3>3 DEF EndsWith
  <2>3. CASE y = "none" /\ x = "none"
    <3>1. \A i \in 1..Len(a) : a[i].to \notin EndStates
      BY <2>3 DEF Says, EndsWith
    <3>2. \A i \in 1..Len(b) : b[i].to \notin EndStates
      BY <2>3 DEF Says, EndsWith
    <3>3. \A i \in 1..Len(c) : c[i].to \notin EndStates
      BY <1>3, <1>4, <1>5, <3>1, <3>2
    <3> QED BY <2>3, <3>3 DEF EndsWith
  <2> QED BY <2>1, <2>2, <2>3
<1> QED BY <1>6, <1>7, <1>8 DEF Says, c

-----------------------------------------------------------------------------
(***************************************************************************)
(* What the platform's lists of events say.                                *)
(***************************************************************************)

\* An event of no end that may be told at any time.
LEMMA SaysPlain ==
  ASSUME NEW T, NEW S, NEW e \in Events, ~e.failure, Causes(e.type) = {},
         e.to = "none", e.type \notin EndTypes, ~Finishes(e)
  PROVE  Says(T, S, <<e>>, 0, "none")
<1>1. InTurn(S, e.to)
  BY StageOrder
<1>2. "none" \notin EndStates
  BY DEF EndStates
<1> QED BY <1>1, <1>2, SaysOne

\* record_failure's caller: the failure of the control plane, of the queue and
\* of a backend.
LEMMA FailedEventsSay ==
  ASSUME NEW T, NEW S, NEW r
  PROVE  Says(T, S, FailedEvents(r), 1, "failed")
<1> DEFINE e == TransitionEvent("request_failed", "failed")
           d == StateEvent("request_failed", "failed")
<1>1. /\ e \in Events /\ ~e.failure /\ e.type = "request_failed" /\ e.to = "failed"
      /\ d \in Events /\ ~d.failure /\ d.type = "request_failed" /\ d.to = "failed"
  <2>1. "request_failed" \in EventTypes /\ "control_plane" \in Components
        /\ "failed" \in RequestState
    BY DEF EventTypes, EndTypes, Components, RequestState, TerminalStates
  <2> QED BY <2>1 DEF TransitionEvent, StateEvent, Event, Events
<1>2. Finishes(e) /\ Finishes(d)
  BY <1>1 DEF Finishes
<1>3. "request_failed" \in EndTypes /\ "failed" \in EndStates
  BY DEF EndTypes, EndStates
<1>4. Causes("request_failed") = {}
  BY DEF Causes
<1>5. InTurn(S, "failed")
  BY StageOrder
<1> HIDE DEF e, d
<1>6. Says(T, S, <<e>>, 1, "failed") /\ Says(T, S, <<d>>, 1, "failed")
  BY <1>1, <1>2, <1>3, <1>4, <1>5, SaysOne
<1>7. Says(T, S, <<e, FailureOf(e, "failed")>>, 1, "failed")
  BY <1>1, <1>2, <1>3, <1>4, SaysPair
<1> QED BY <1>6, <1>7 DEF FailedEvents, e, d

LEMMA ReportSays ==
  ASSUME NEW T, NEW S, NEW r, NEW type \in {"replay_completed", "replay_failed"}
  PROVE  Says(T, S, Report(r, type), 0, "none")
<1> DEFINE e == ReplayEvent(type)
<1>1. e \in Events /\ ~e.failure /\ e.type = type /\ e.to = "none"
  <2>1. type \in EventTypes /\ "replay" \in Components
    BY DEF EventTypes, Components
  <2> QED BY <2>1 DEF ReplayEvent, Event, Events
<1>2. Causes(type) = {} /\ type \notin EndTypes
  BY DEF Causes, EndTypes
<1>3. ~Finishes(e)
  BY <1>1 DEF Finishes
<1> HIDE DEF e
<1>4. Says(T, S, <<e>>, 0, "none")
  BY <1>1, <1>2, <1>3, SaysPlain
<1> QED BY <1>4, SaysNothing DEF Report, e

LEMMA RoutingEventSays ==
  ASSUME NEW T, NEW S, NEW r, NEW type \in {"backend_selected", "routing_failed"}
  PROVE  Says(T, S, RoutingEvent(r, type), 0, "none")
<1> DEFINE e == SchedulerEvent(type)
<1>1. e \in Events /\ ~e.failure /\ e.type = type /\ e.to = "none"
  <2>1. type \in EventTypes /\ "scheduler" \in Components
    BY DEF EventTypes, BACKEND_EVENT_TYPES, Components
  <2> QED BY <2>1 DEF SchedulerEvent, Event, Events
<1>2. Causes(type) = {} /\ type \notin EndTypes
  BY DEF Causes, EndTypes
<1>3. ~Finishes(e)
  BY <1>1 DEF Finishes
<1> HIDE DEF e
<1>4. Says(T, S, <<e>>, 0, "none")
  BY <1>1, <1>2, <1>3, SaysPlain
<1> QED BY <1>4, SaysNothing DEF RoutingEvent, e

\* The events of the adapter, which the handing over must precede.
LEMMA AdapterSays ==
  ASSUME NEW T, NEW S
  PROVE  /\ "request_added_to_batch" \in T =>
              Says(T, S, <<AdapterEvent("batch_submitted")>>, 0, "none")
         /\ "batch_submitted" \in T =>
              Says(T, S, <<AdapterEvent("batch_accepted")>>, 0, "none")
         /\ "batch_submitted" \in T =>
              LET e == AdapterEvent("batch_rejected")
                  evs == <<e, FailureOf(e, "failed")>>
              IN /\ Says(T, S, evs, 0, "failed")
                 /\ LastEndOf(evs, 2) /\ evs[2].type = "batch_rejected"
                 /\ 2 \in 1..Len(evs)
<1> DEFINE s == AdapterEvent("batch_submitted")
           a == AdapterEvent("batch_accepted")
           e == AdapterEvent("batch_rejected")
<1>1. /\ s \in Events /\ ~s.failure /\ s.type = "batch_submitted" /\ s.to = "none"
      /\ a \in Events /\ ~a.failure /\ a.type = "batch_accepted" /\ a.to = "none"
      /\ e \in Events /\ ~e.failure /\ e.type = "batch_rejected" /\ e.to = "none"
  <2>1. {"batch_submitted", "batch_accepted", "batch_rejected"} \subseteq EventTypes
        /\ "adapter" \in Components
    BY DEF EventTypes, BACKEND_EVENT_TYPES, Components
  <2> QED BY <2>1 DEF AdapterEvent, Event, Events
<1>2. /\ Causes("batch_submitted") = {"request_added_to_batch"}
      /\ Causes("batch_accepted") = {"batch_submitted"}
      /\ Causes("batch_rejected") = {"batch_submitted"}
  BY DEF Causes
<1>3. /\ "batch_submitted" \notin EndTypes /\ "batch_accepted" \notin EndTypes
      /\ "batch_rejected" \in EndTypes /\ "none" \notin EndStates
  BY DEF EndTypes, EndStates
<1>4. ~Finishes(s) /\ ~Finishes(a) /\ ~Finishes(e)
  BY <1>1 DEF Finishes
<1>5. InTurn(S, "none")
  BY StageOrder
<1>6. (FailureOf(e, "failed")).type = "batch_rejected"
  BY <1>1 DEF FailureOf, Events
<1> HIDE DEF s, a, e
<1>7. "request_added_to_batch" \in T => Says(T, S, <<s>>, 0, "none")
  BY <1>1, <1>2, <1>3, <1>4, <1>5, SaysOne
<1>8. "batch_submitted" \in T => Says(T, S, <<a>>, 0, "none")
  BY <1>1, <1>2, <1>3, <1>4, <1>5, SaysOne
<1>9. "batch_submitted" \in T =>
        /\ Says(T, S, <<e, FailureOf(e, "failed")>>, 0, "failed")
        /\ LastEndOf(<<e, FailureOf(e, "failed")>>, 2)
  BY <1>1, <1>2, <1>3, <1>4, SaysPair
<1>10. /\ <<e, FailureOf(e, "failed")>>[2] = FailureOf(e, "failed")
       /\ 2 \in 1..Len(<<e, FailureOf(e, "failed")>>)
  OBVIOUS
<1> QED BY <1>6, <1>7, <1>8, <1>9, <1>10 DEF s, a, e

LEMMA EventFields ==
  ASSUME NEW type \in EventTypes, NEW to \in RequestState \cup {"none"}
  PROVE  /\ StateEvent(type, to) \in Events /\ ~StateEvent(type, to).failure
         /\ StateEvent(type, to).type = type /\ StateEvent(type, to).to = to
         /\ ~StateEvent(type, to).from
         /\ TransitionEvent(type, to) \in Events /\ ~TransitionEvent(type, to).failure
         /\ TransitionEvent(type, to).type = type /\ TransitionEvent(type, to).to = to
         /\ TransitionEvent(type, to).from
<1>1. "control_plane" \in Components
  BY DEF Components
<1>2. /\ StateEvent(type, to) \in Events /\ ~StateEvent(type, to).failure
      /\ StateEvent(type, to).type = type /\ StateEvent(type, to).to = to
      /\ ~StateEvent(type, to).from
  BY <1>1 DEF StateEvent, Event, Events
<1>3. /\ TransitionEvent(type, to) \in Events /\ ~TransitionEvent(type, to).failure
      /\ TransitionEvent(type, to).type = type /\ TransitionEvent(type, to).to = to
      /\ TransitionEvent(type, to).from
  BY <1>1 DEF TransitionEvent, StateEvent, Event, Events
<1> QED BY <1>2, <1>3

LEMMA LifecycleTypes ==
  /\ {"request_received", "request_validated", "request_admitted", "request_queued",
      "request_scheduled", "request_batched", "request_submitted", "request_completed",
      "request_failed", "request_rejected", "request_enqueued", "queue_full",
      "queue_timeout", "gateway_request_received", "replay_started",
      "request_removed_from_batch", "none"} \subseteq EventTypes
  /\ {"received", "validated", "admitted", "queued", "scheduled", "batched", "submitted",
      "completed", "failed", "rejected", "timed_out"} \subseteq RequestState
<1>1. {"request_received", "request_validated", "request_admitted", "request_queued",
       "request_scheduled", "request_batched", "request_submitted", "request_completed",
       "request_failed", "request_rejected"} \subseteq EventTypes
  BY DEF EventTypes, LIFECYCLE_EVENT_TYPES
<1>2. {"request_enqueued", "queue_full", "queue_timeout", "gateway_request_received",
       "replay_started", "request_removed_from_batch", "none"} \subseteq EventTypes
  BY DEF EventTypes, EndTypes, BATCH_EVENT_TYPES
<1>3. {"received", "validated", "admitted", "queued", "scheduled", "batched", "submitted",
       "completed", "failed", "rejected", "timed_out"} \subseteq RequestState
  BY DEF RequestState, TerminalStates
<1> QED BY <1>1, <1>2, <1>3

\* One event about a state that is no end.
LEMMA StageSays ==
  ASSUME NEW T, NEW S, NEW type \in EventTypes, NEW to \in RequestState,
         Causes(type) \subseteq T, InTurn(S, to), to \notin EndStates, type \notin EndTypes
  PROVE  /\ Says(T, S, <<StateEvent(type, to)>>, 0, "none")
         /\ Says(T, S, <<TransitionEvent(type, to)>>, 0, "none")
<1> DEFINE d == StateEvent(type, to)
           e == TransitionEvent(type, to)
<1>1. /\ d \in Events /\ ~d.failure /\ d.type = type /\ d.to = to
      /\ e \in Events /\ ~e.failure /\ e.type = type /\ e.to = to
  BY EventFields
<1>2. ~Finishes(d) /\ ~Finishes(e)
  BY <1>1 DEF Finishes, EndTypes
<1> HIDE DEF d, e
<1> QED BY <1>1, <1>2, SaysOne DEF d, e

\* Two and three events are one after another.
LEMMA OneAfterAnother ==
  /\ \A a, b : <<a, b>> = <<a>> \o <<b>> /\ StatesOf(<<a>>) = {a.to}
  /\ \A a, b, c : <<a, b, c>> = <<a>> \o <<b, c>>
  /\ \A a, b : StatesOf(<<a, b>>) = {a.to, b.to}
<1>1. ASSUME NEW a, NEW b PROVE <<a, b>> = <<a>> \o <<b>>
  <2> DEFINE c == <<a>> \o <<b>>
  <2>1. <<a>> \in Seq({a, b}) /\ <<b>> \in Seq({a, b}) /\ <<a, b>> \in Seq({a, b})
    OBVIOUS
  <2>2. Len(<<a>>) = 1 /\ Len(<<b>>) = 1 /\ <<a>>[1] = a /\ <<b>>[1] = b
    OBVIOUS
  <2>3. /\ c \in Seq({a, b}) /\ Len(c) = 1 + 1
        /\ \A i \in 1..1 + 1 : c[i] = IF i <= 1 THEN <<a>>[i] ELSE <<b>>[i - 1]
    BY <2>1, <2>2, ConcatProperties
  <2> HIDE DEF c
  <2>4. Len(c) = 2 /\ c[1] = a /\ c[2] = b
    BY <2>2, <2>3
  <2>5. Len(<<a, b>>) = 2 /\ <<a, b>>[1] = a /\ <<a, b>>[2] = b
    OBVIOUS
  <2>6. \A i \in 1..Len(c) : c[i] = <<a, b>>[i]
    <3>1. \A i \in 1..2 : i = 1 \/ i = 2
      OBVIOUS
    <3> QED BY <2>4, <2>5, <3>1
  <2>7. c = <<a, b>>
    BY <2>1, <2>3, <2>4, <2>5, <2>6, SeqEqual
  <2> QED BY <2>7 DEF c
<1>2. \A a, b, c : <<a, b, c>> = <<a>> \o <<b, c>>
  OBVIOUS
<1>3. ASSUME NEW a PROVE StatesOf(<<a>>) = {a.to}
  <2>1. 1..Len(<<a>>) = {1} /\ <<a>>[1] = a
    OBVIOUS
  <2> QED BY <2>1 DEF StatesOf
<1>4. ASSUME NEW a, NEW b PROVE StatesOf(<<a, b>>) = {a.to, b.to}
  <2>1. 1..Len(<<a, b>>) = {1, 2} /\ <<a, b>>[1] = a /\ <<a, b>>[2] = b
    OBVIOUS
  <2> QED BY <2>1 DEF StatesOf
<1> QED BY <1>1, <1>2, <1>3, <1>4

\* Arrival at the gateway or from the replay engine.
LEMMA StartSays ==
  ASSUME NEW T, NEW S, NEW g \in {GatewayEvent, ReplayEvent("replay_started")}
  PROVE  Says(T, S, <<g, StateEvent("request_received", "received"),
                      TransitionEvent("request_validated", "validated")>>, 0, "none")
<1> DEFINE d == StateEvent("request_received", "received")
           e == TransitionEvent("request_validated", "validated")
<1>1. /\ Causes("request_received") = {} /\ Causes("request_validated") = {}
      /\ Causes("gateway_request_received") = {} /\ Causes("replay_started") = {}
  BY DEF Causes
<1>2. /\ {"request_received", "request_validated", "gateway_request_received",
          "replay_started"} \cap EndTypes = {}
      /\ {"received", "validated", "none"} \cap EndStates = {}
  BY DEF EndTypes, EndStates
<1>3. Says(T, S, <<g>>, 0, "none")
  <2>1. /\ g \in Events /\ ~g.failure
        /\ g.type \in {"gateway_request_received", "replay_started"}
        /\ g.to \in {"received", "none"}
    <3>1. CASE g = GatewayEvent
      BY <3>1, LifecycleTypes DEF GatewayEvent, Event, Events, Components
    <3>2. CASE g = ReplayEvent("replay_started")
      BY <3>2, LifecycleTypes DEF ReplayEvent, Event, Events, Components
    <3> QED BY <3>1, <3>2
  <2>2. ~Finishes(g)
    BY <2>1 DEF Finishes
  <2>3. InTurn(S, g.to)
    BY <2>1, StageOrder
  <2>4. Causes(g.type) = {} /\ g.type \notin EndTypes /\ g.to \notin EndStates
    BY <1>1, <1>2, <2>1
  <2> QED BY <2>1, <2>2, <2>3, <2>4, SaysOne
<1>4. \A S2 : Says(T, S2, <<d>>, 0, "none")
  <2>1. \A S2 : InTurn(S2, "received")
    BY StageOrder
  <2> QED BY <1>1, <1>2, <2>1, StageSays, LifecycleTypes
<1>5. \A S2 : "received" \in S2 => Says(T, S2, <<e>>, 0, "none")
  <2>1. \A S2 : "received" \in S2 => InTurn(S2, "validated")
    BY StageOrder
  <2> QED BY <1>1, <1>2, <2>1, StageSays, LifecycleTypes
<1>6. d.to = "received"
  BY EventFields, LifecycleTypes
<1> HIDE DEF d, e
<1>7. \A S2 : Says(T, S2, <<d, e>>, 0, "none")
  <2> TAKE S2
  <2>1. Says(T, S2 \cup StatesOf(<<d>>), <<e>>, 0, "none")
    BY <1>5, <1>6, OneAfterAnother
  <2>2. Says(T, S2, <<d>> \o <<e>>, 0, "none")
    BY <1>4, <2>1, SaysBoth, 0 + 0 = 0
  <2> QED BY <2>2, OneAfterAnother
<1>8. Says(T, S, <<g>> \o <<d, e>>, 0, "none")
  BY <1>3, <1>7, SaysBoth, 0 + 0 = 0
<1> QED BY <1>8, OneAfterAnother DEF d, e

\* Two lists of events in a row, when the first brings the states S along.
LEMMA SaysInTurn ==
  ASSUME NEW T, NEW S, NEW a, NEW b, NEW n \in Nat, NEW x,
         Says(T, S, <<a>>, 0, "none"), Says(T, S \cup {a.to}, b, n, x)
  PROVE  Says(T, S, <<a>> \o b, n, x)
<1>1. Says(T, S \cup StatesOf(<<a>>), b, n, x)
  BY OneAfterAnother
<1>2. 0 + n = n /\ (IF x = "none" THEN "none" ELSE x) = x
  OBVIOUS
<1> QED BY <1>1, <1>2, SaysBoth

\* An end told by the control plane.
LEMMA EndSays ==
  ASSUME NEW T, NEW S, NEW type \in EndTypes, NEW to \in {"failed", "rejected", "completed"},
         Causes(type) = {}, to = "completed" => "submitted" \in S
  PROVE  /\ Says(T, S, <<TransitionEvent(type, to)>>,
                 IF Finishes(TransitionEvent(type, to)) THEN 1 ELSE 0, to)
         /\ Says(T, S, <<StateEvent(type, to)>>,
                 IF Finishes(StateEvent(type, to)) THEN 1 ELSE 0, to)
<1>1. type \in EventTypes /\ to \in RequestState
  BY DEF EventTypes, RequestState, TerminalStates
<1>2. to \in EndStates
  BY DEF EndStates
<1>3. InTurn(S, to)
  BY StageOrder
<1> QED BY <1>1, <1>2, <1>3, EventFields, SaysOne

\* run_admission's refusal, which the metrics do not count, and complete_request,
\* whose two events they count once.
LEMMA RejectionSays ==
  ASSUME NEW T, NEW S
  PROVE  Says(T, S, <<StateEvent("request_rejected", "rejected")>>, 0, "rejected")
<1>1. ~Finishes(StateEvent("request_rejected", "rejected"))
  BY EventFields, LifecycleTypes DEF Finishes
<1>2. Causes("request_rejected") = {} /\ "request_rejected" \in EndTypes
  BY DEF Causes, EndTypes
<1> QED BY <1>1, <1>2, EndSays

LEMMA CompletionSays ==
  ASSUME NEW T, NEW S, "submitted" \in S
  PROVE  Says(T, S, Completion, 1, "completed")
<1> DEFINE e == TransitionEvent("request_completed", "completed")
           d == StateEvent("request_completed", "completed")
<1>1. Finishes(e) /\ ~Finishes(d)
  <2>1. /\ e.type = "request_completed" /\ e.from /\ ~e.failure
        /\ d.type = "request_completed" /\ ~d.from
    BY EventFields, LifecycleTypes
  <2> HIDE DEF e, d
  <2> QED BY <2>1 DEF Finishes
<1>2. Causes("request_completed") = {} /\ "request_completed" \in EndTypes
  BY DEF Causes, EndTypes
<1>3. \A S2 : "submitted" \in S2 =>
        Says(T, S2, <<e>>, 1, "completed") /\ Says(T, S2, <<d>>, 0, "completed")
  BY <1>1, <1>2, EndSays
<1> HIDE DEF d, e
<1>4. Says(T, S \cup StatesOf(<<e>>), <<d>>, 0, "completed")
  BY <1>3
<1>5. Says(T, S, <<e>> \o <<d>>, 1, "completed")
  <2>1. 1 + 0 = 1 /\ (IF "completed" = "none" THEN "completed" ELSE "completed") = "completed"
    OBVIOUS
  <2>2. Says(T, S, <<e>>, 1, "completed")
    BY <1>3
  <2>3. Says(T, S, <<e>> \o <<d>>, 1 + 0,
             IF "completed" = "none" THEN "completed" ELSE "completed")
    BY <1>4, <2>2, SaysBoth
  <2> QED BY <2>1, <2>3
<1> QED BY <1>5, OneAfterAnother DEF Completion, d, e

\* The queue.
LEMMA QueueSays ==
  ASSUME NEW T, NEW S
  PROVE  /\ "request_admitted" \in T =>
              Says(T, S, <<QueueEvent("request_enqueued")>>, 0, "none")
         /\ "request_enqueued" \in T =>
              LET e == QueueEvent("queue_timeout")
              IN Says(T, S, <<e, FailureOf(e, "timed_out")>>, 1, "timed_out")
         /\ "validated" \in S =>
              LET full == QueueEvent("queue_full")
              IN Says(T, S, <<TransitionEvent("request_admitted", "admitted"), full,
                              FailureOf(full, "rejected")>>, 1, "rejected")
<1> DEFINE n == QueueEvent("request_enqueued")
           e == QueueEvent("queue_timeout")
           full == QueueEvent("queue_full")
           a == TransitionEvent("request_admitted", "admitted")
<1>1. /\ n \in Events /\ ~n.failure /\ n.type = "request_enqueued" /\ n.to = "none"
      /\ e \in Events /\ ~e.failure /\ e.type = "queue_timeout" /\ e.to = "none"
      /\ full \in Events /\ ~full.failure /\ full.type = "queue_full" /\ full.to = "none"
  BY LifecycleTypes DEF QueueEvent, Event, Events, Components
<1>2. /\ Causes("request_enqueued") = {"request_admitted"}
      /\ Causes("queue_timeout") = {"request_enqueued"}
      /\ Causes("queue_full") = {}
      /\ Causes("request_admitted") = {}
  BY DEF Causes
<1>3. /\ "request_enqueued" \notin EndTypes /\ "request_admitted" \notin EndTypes
      /\ "queue_timeout" \in EndTypes /\ "queue_full" \in EndTypes
      /\ "none" \notin EndStates /\ "admitted" \notin EndStates
  BY DEF EndTypes, EndStates
<1>4. ~Finishes(n) /\ Finishes(e) /\ Finishes(full)
  BY <1>1 DEF Finishes
<1>5. InTurn(S, "none") /\ ("validated" \in S => InTurn(S, "admitted"))
  BY StageOrder
<1>6. "validated" \in S => Says(T, S, <<a>>, 0, "none")
  BY <1>2, <1>3, <1>5, StageSays, LifecycleTypes
<1> HIDE DEF n, e, full, a
<1>7. "request_admitted" \in T => Says(T, S, <<n>>, 0, "none")
  BY <1>1, <1>2, <1>3, <1>4, <1>5, SaysOne
<1>8. "request_enqueued" \in T => Says(T, S, <<e, FailureOf(e, "timed_out")>>, 1, "timed_out")
  BY <1>1, <1>2, <1>3, <1>4, SaysPair
<1>9. \A S2 : Says(T, S2, <<full, FailureOf(full, "rejected")>>, 1, "rejected")
  BY <1>1, <1>2, <1>3, <1>4, SaysPair
<1>10. "validated" \in S => Says(T, S, <<a, full, FailureOf(full, "rejected")>>, 1, "rejected")
  <2> SUFFICES ASSUME "validated" \in S
               PROVE  Says(T, S, <<a, full, FailureOf(full, "rejected")>>, 1, "rejected")
    BY Zenon
  <2>1. Says(T, S, <<a>> \o <<full, FailureOf(full, "rejected")>>, 1, "rejected")
    BY <1>6, <1>9, SaysInTurn
  <2> QED BY <2>1, OneAfterAnother
<1> QED BY <1>7, <1>8, <1>10 DEF n, e, full, a

\* Admission, queueing, placement and retirement.
LEMMA ProgressSays ==
  ASSUME NEW T, NEW S
  PROVE  /\ "validated" \in S =>
              Says(T, S, <<TransitionEvent("request_admitted", "admitted")>>, 0, "none")
         /\ "request_enqueued" \in T /\ "admitted" \in S =>
              Says(T, S, <<StateEvent("request_queued", "queued")>>, 0, "none")
         /\ "request_added_to_batch" \in T => Says(T, S, <<Removed>>, 0, "none")
<1>1. /\ Causes("request_admitted") = {}
      /\ Causes("request_queued") = {"request_enqueued"}
      /\ Causes("request_removed_from_batch") = {"request_added_to_batch"}
  BY DEF Causes
<1>2. /\ {"request_admitted", "request_queued", "request_removed_from_batch"} \cap EndTypes = {}
      /\ {"admitted", "queued", "none"} \cap EndStates = {}
  BY DEF EndTypes, EndStates
<1>3. /\ InTurn(S, "none")
      /\ "validated" \in S => InTurn(S, "admitted")
      /\ "admitted" \in S => InTurn(S, "queued")
  BY StageOrder
<1>4. "request_added_to_batch" \in T => Says(T, S, <<Removed>>, 0, "none")
  <2>1. /\ Removed \in Events /\ ~Removed.failure /\ Removed.to = "none"
        /\ Removed.type = "request_removed_from_batch"
    BY LifecycleTypes DEF Removed, SchedulerEvent, Event, Events, Components
  <2>2. ~Finishes(Removed)
    BY <2>1 DEF Finishes
  <2> QED BY <1>1, <1>2, <1>3, <2>1, <2>2, SaysOne
<1> QED BY <1>1, <1>2, <1>3, <1>4, StageSays, LifecycleTypes

\* _finalize_request of a placed request, submitted or refused.
LEMMA PlacementSays ==
  ASSUME NEW T, NEW S, "request_added_to_batch" \in T, "queued" \in S
  PROVE  /\ "batch_accepted" \in T =>
              Says(T, S, <<TransitionEvent("request_scheduled", "scheduled"),
                           TransitionEvent("request_batched", "batched")>>
                           \o <<TransitionEvent("request_submitted", "submitted")>>, 0, "none")
         /\ Says(T, S, <<TransitionEvent("request_scheduled", "scheduled"),
                         TransitionEvent("request_batched", "batched"),
                         TransitionEvent("request_failed", "failed")>>, 1, "failed")
<1> DEFINE s == TransitionEvent("request_scheduled", "scheduled")
           b == TransitionEvent("request_batched", "batched")
           u == TransitionEvent("request_submitted", "submitted")
           f == TransitionEvent("request_failed", "failed")
<1>1. /\ Causes("request_scheduled") = {"request_added_to_batch"}
      /\ Causes("request_batched") = {}
      /\ Causes("request_submitted") = {"batch_accepted"}
      /\ Causes("request_failed") = {}
  BY DEF Causes
<1>2. /\ {"request_scheduled", "request_batched", "request_submitted"} \cap EndTypes = {}
      /\ {"scheduled", "batched", "submitted"} \cap EndStates = {}
      /\ "request_failed" \in EndTypes
  BY DEF EndTypes, EndStates
<1>3. s.to = "scheduled" /\ b.to = "batched"
  BY EventFields, LifecycleTypes
<1>4. Says(T, S, <<s>>, 0, "none")
  <2>1. InTurn(S, "scheduled")
    BY StageOrder
  <2> QED BY <1>1, <1>2, <2>1, StageSays, LifecycleTypes
<1>5. Says(T, S \cup {"scheduled"}, <<b>>, 0, "none")
  <2>1. InTurn(S \cup {"scheduled"}, "batched")
    BY StageOrder
  <2> QED BY <1>1, <1>2, <2>1, StageSays, LifecycleTypes
<1>6. \A S2 : "batched" \in S2 /\ "batch_accepted" \in T => Says(T, S2, <<u>>, 0, "none")
  <2>1. \A S2 : "batched" \in S2 => InTurn(S2, "submitted")
    BY StageOrder
  <2> QED BY <1>1, <1>2, <2>1, StageSays, LifecycleTypes
<1>7. \A S2 : Says(T, S2, <<f>>, 1, "failed")
  <2>1. Finishes(f)
    BY EventFields, LifecycleTypes DEF Finishes
  <2> QED BY <1>1, <1>2, <2>1, EndSays
<1> HIDE DEF s, b, u, f
<1>8. ASSUME "batch_accepted" \in T PROVE Says(T, S, <<s, b>> \o <<u>>, 0, "none")
  <2>1. Says(T, S, <<s>> \o <<b>>, 0, "none")
    BY <1>3, <1>4, <1>5, SaysInTurn
  <2>2. Says(T, S, <<s, b>>, 0, "none")
    BY <2>1, OneAfterAnother
  <2>3. Says(T, S \cup StatesOf(<<s, b>>), <<u>>, 0, "none")
    BY <1>3, <1>6, <1>8, OneAfterAnother
  <2> QED BY <2>2, <2>3, SaysBoth, 0 + 0 = 0
<1>9. Says(T, S, <<s, b, f>>, 1, "failed")
  <2>1. Says(T, S \cup {"scheduled"}, <<b>> \o <<f>>, 1, "failed")
    BY <1>5, <1>7, SaysInTurn
  <2>2. Says(T, S \cup {"scheduled"}, <<b, f>>, 1, "failed")
    BY <2>1, OneAfterAnother
  <2>3. Says(T, S, <<s>> \o <<b, f>>, 1, "failed")
    BY <1>3, <1>4, <2>2, SaysInTurn
  <2> QED BY <2>3, OneAfterAnother
<1> QED BY <1>8, <1>9 DEF s, b, u, f

-----------------------------------------------------------------------------
(***************************************************************************)
(* Steps.  First what a step about r leaves alone, and what a step that    *)
(* tells something changes.                                                *)
(***************************************************************************)

\* Of the requests only r is moved.
OnlyOf(r) ==
  \A q \in Requests \ {r} :
    /\ state'[q] = state[q] /\ pc'[q] = pc[q] /\ own'[q] = own[q] /\ record'[q] = record[q]
    /\ (q \in queue') <=> (q \in queue)
    /\ (q \in batched') <=> (q \in batched)
    /\ (q \in foreign') <=> (q \in foreign)
    /\ q \in disturbed => q \in disturbed'

TellsOnlyOf(r) ==
  \A q \in Requests \ {r} :
    /\ trace'[q] = trace[q] /\ stamps'[q] = stamps[q]
    /\ counted'[q] = counted[q] /\ settled'[q] = settled[q]

LEMMA OthersKeep ==
  ASSUME NEW r, OnlyOf(r), TellsOnlyOf(r), NEW q \in Requests \ {r}, RequestInv(q)
  PROVE  RequestInv(q)'
<1> USE DEF OnlyOf, TellsOnlyOf
<1>1. TraceInv(trace[q], stamps[q])' /\ counted'[q] = settled'[q]
  BY DEF RequestInv
<1>2. PathTold(q)'
  BY DEF RequestInv, PathTold
<1>3. StagesTold(q)'
  BY DEF RequestInv, StagesTold
<1>4. EndsAreForeign(q)'
  BY DEF RequestInv, EndsAreForeign
<1>5. EndIsTold(q)'
  BY DEF RequestInv, EndIsTold
<1> QED BY <1>1, <1>2, <1>3, <1>4, <1>5 DEF RequestInv

\* What telling evs about r does to the trace, the timestamps and the counts.
LEMMA TellingEffect ==
  ASSUME Inv, NEW r \in Requests, NEW evs, NEW n \in Nat, NEW x,
         Says(TypesIn(trace[r]), StatesIn(trace[r]), evs, n, x),
         Told(r, evs), settled' = [settled EXCEPT ![r] = @ + n]
  PROVE  /\ TypedTelling'
         /\ TellsOnlyOf(r)
         /\ TraceInv(trace[r], stamps[r])'
         /\ counted'[r] = settled'[r]
         /\ stamps'[r] >= stamps[r]
         /\ Len(trace[r]) <= Len(trace'[r])
         /\ \A i \in 1..Len(trace[r]) : trace'[r][i] = trace[r][i]
         /\ TypesIn(trace[r]) \subseteq TypesIn(trace'[r])
         /\ StatesIn(trace[r]) \subseteq StatesIn(trace'[r])
         /\ \A i \in 1..Len(evs) :
              /\ evs[i].type \in TypesIn(trace'[r])
              /\ evs[i].to \in StatesIn(trace'[r])
         /\ x # "none" => EndTold(trace'[r], x)
         /\ x = "none" => /\ \A y : EndTold(trace[r], y) => EndTold(trace'[r], y)
                          /\ RefusalTold(trace[r]) => RefusalTold(trace'[r])
         /\ (\E i \in 1..Len(evs) : LastEndOf(evs, i) /\ evs[i].type = "batch_rejected")
              => RefusalTold(trace'[r])
<1> DEFINE t == trace[r]
           s == stamps[r]
           u == Appended(t, evs, s)
<1>0. /\ evs \in Seq(Events) /\ Tellable(TypesIn(t), StatesIn(t), evs)
      /\ Finished(evs) = n /\ EndsWith(evs, x)
  BY DEF Says, Tellable
<1>1. /\ t \in Seq(StampedEvents) /\ s \in Nat /\ counted[r] \in Nat /\ settled[r] \in Nat
      /\ TraceInv(t, s) /\ counted[r] = settled[r]
  BY DEF Inv, TypedTelling, RequestInv
<1>2. /\ trace' = [trace EXCEPT ![r] = u]
      /\ stamps' = [stamps EXCEPT ![r] = s + Fresh(evs)]
      /\ counted' = [counted EXCEPT ![r] = counted[r] + n]
  BY <1>0 DEF Told, Appended, Finished
<1>3. u \in Seq(StampedEvents) /\ Len(u) = Len(t) + Len(evs)
      /\ \A i \in 1..Len(t) : u[i] = t[i]
  BY <1>0, <1>1, AppendedTrace
<1>4. Fresh(evs) \in Nat /\ Len(evs) \in Nat /\ Len(t) \in Nat
  BY <1>0, <1>1, TimesGrow, EventsTyped, TraceTyped
<1>5. TraceInv(u, s + Fresh(evs))
  BY <1>0, <1>1, TellingKeepsTrace
<1>6. /\ TypesIn(t) \subseteq TypesIn(u)
      /\ StatesIn(t) \subseteq StatesIn(u)
      /\ \A i \in 1..Len(evs) : evs[i].type \in TypesIn(u) /\ evs[i].to \in StatesIn(u)
  BY <1>0, <1>1, TellingGrows
<1>7. /\ \A y : EndsWith(evs, y) /\ y # "none" => EndTold(u, y)
      /\ \A y : EndsWith(evs, "none") /\ EndTold(t, y) => EndTold(u, y)
      /\ EndsWith(evs, "none") /\ RefusalTold(t) => RefusalTold(u)
      /\ (\E i \in 1..Len(evs) : LastEndOf(evs, i) /\ evs[i].type = "batch_rejected")
           => RefusalTold(u)
  BY <1>0, <1>1, EndsAppend
<1>8. trace'[r] = u /\ stamps'[r] = s + Fresh(evs) /\ counted'[r] = settled'[r]
  BY <1>1, <1>2 DEF Inv, TypedTelling
<1> HIDE DEF u
<1>9. TypedTelling'
  <2>1. trace' \in [Requests -> Seq(StampedEvents)]
    BY <1>2, <1>3 DEF Inv, TypedTelling
  <2>2. stamps' \in [Requests -> Nat] /\ counted' \in [Requests -> Nat]
        /\ settled' \in [Requests -> Nat]
    BY <1>1, <1>2, <1>4 DEF Inv, TypedTelling
  <2> QED BY <2>1, <2>2 DEF TypedTelling
<1>10. TellsOnlyOf(r)
  BY <1>2 DEF Inv, TypedTelling, TellsOnlyOf
<1>11. s + Fresh(evs) >= s /\ Len(t) <= Len(t) + Len(evs)
  BY <1>1, <1>4
<1> QED BY <1>0, <1>3, <1>5, <1>6, <1>7, <1>8, <1>9, <1>10, <1>11

\* The running cycle does not mind that traces grow.
LEMMA CycleDoesNotMind ==
  ASSUME CycleInv, cycle' = cycle, batched \subseteq batched',
         \A q \in Requests : pc[q] = "cycling" => pc'[q] = "cycling",
         TypedPath, TypedTelling, TypedTelling',
         \A q \in Requests : /\ Len(trace[q]) <= Len(trace'[q])
                             /\ \A i \in 1..Len(trace[q]) : trace'[q][i] = trace[q][i]
                             /\ stamps'[q] >= stamps[q]
  PROVE  CycleInv'
<1>1. \A q \in Requests : TypesIn(trace[q]) \subseteq TypesIn(trace'[q])
  <2> SUFFICES ASSUME NEW q \in Requests, NEW i \in 1..Len(trace[q])
               PROVE  trace[q][i].e.type \in TypesIn(trace'[q])
    BY DEF TypesIn
  <2>1. Len(trace[q]) \in Nat /\ Len(trace'[q]) \in Nat
    BY TraceTyped DEF TypedTelling
  <2>2. i \in 1..Len(trace'[q]) /\ trace'[q][i] = trace[q][i]
    BY <2>1
  <2> QED BY <2>2 DEF TypesIn
<1>2. ASSUME cycle.stamped # NoEvent
      PROVE  /\ cycle.stamped.at \in 1..stamps'[cycle.of]
             /\ \E j \in 1..Len(trace'[cycle.of]) :
                  /\ trace'[cycle.of][j].e.type = "request_admitted"
                  /\ trace'[cycle.of][j].at < cycle.stamped.at
  <2> DEFINE q == cycle.of
  <2>1. /\ q \in Requests /\ cycle.stamped.at \in 1..stamps[q]
    BY <1>2 DEF CycleInv
  <2>2. PICK j \in 1..Len(trace[q]) : /\ trace[q][j].e.type = "request_admitted"
                                      /\ trace[q][j].at < cycle.stamped.at
    BY <1>2 DEF CycleInv
  <2> HIDE DEF q
  <2>3. /\ Len(trace[q]) \in Nat /\ Len(trace'[q]) \in Nat
        /\ stamps[q] \in Nat /\ stamps'[q] \in Nat
    BY <2>1, TraceTyped DEF TypedTelling
  <2>4. j \in 1..Len(trace'[q]) /\ trace'[q][j] = trace[q][j]
    BY <2>1, <2>3
  <2>5. cycle.stamped.at \in 1..stamps'[q]
    BY <2>1, <2>3
  <2> QED BY <2>2, <2>4, <2>5 DEF q
<1> QED BY <1>1, <1>2 DEF CycleInv

\* A step that tells evs about r.
LEMMA TellingStep ==
  ASSUME Inv, NEW r \in Requests, NEW evs, NEW n \in Nat, NEW x,
         Says(TypesIn(trace[r]), StatesIn(trace[r]), evs, n, x),
         Told(r, evs), settled' = [settled EXCEPT ![r] = @ + n],
         TypedPath', OnlyOf(r), UNCHANGED <<cycle, batched>>,
         pc[r] = "cycling" => pc'[r] = "cycling",
         PathTold(r)', StagesTold(r)', EndsAreForeign(r)', EndIsTold(r)'
  PROVE  Inv'
<1>1. /\ TypedTelling' /\ TellsOnlyOf(r)
      /\ TraceInv(trace[r], stamps[r])' /\ counted'[r] = settled'[r]
      /\ stamps'[r] >= stamps[r]
      /\ Len(trace[r]) <= Len(trace'[r])
      /\ \A i \in 1..Len(trace[r]) : trace'[r][i] = trace[r][i]
  BY TellingEffect
<1>2. RequestInv(r)'
  BY <1>1 DEF RequestInv
<1>3. \A q \in Requests : RequestInv(q)'
  BY <1>1, <1>2, OthersKeep DEF Inv
<1>4. CycleInv'
  <2>1. \A q \in Requests : pc[q] = "cycling" => pc'[q] = "cycling"
    BY DEF OnlyOf
  <2>2. ASSUME NEW q \in Requests
        PROVE  /\ Len(trace[q]) <= Len(trace'[q])
               /\ \A i \in 1..Len(trace[q]) : trace'[q][i] = trace[q][i]
               /\ stamps'[q] >= stamps[q]
    <3>1. CASE q = r
      BY <1>1, <3>1
    <3>2. CASE q # r
      <4>1. trace'[q] = trace[q] /\ stamps'[q] = stamps[q]
        BY <1>1, <3>2 DEF TellsOnlyOf
      <4>2. Len(trace[q]) \in Nat /\ stamps[q] \in Nat
        BY TraceTyped DEF Inv, TypedTelling
      <4> QED BY <4>1, <4>2
    <3> QED BY <3>1, <3>2
  <2> QED BY <1>1, <2>1, <2>2, CycleDoesNotMind DEF Inv
<1> QED BY <1>1, <1>3, <1>4 DEF Inv

\* A captured record is a record.
LEMMA CaptureIsARecord ==
  ASSUME NEW t, NEW s, NEW why, NEW backend
  PROVE  CaptureExecutionRecord(t, s, why, backend) # NoRecord
<1> DEFINE c == CaptureExecutionRecord(t, s, why, backend)
<1>1. "failure_reason" \in DOMAIN c
  BY DEF CaptureExecutionRecord
<1>2. DOMAIN NoRecord = {"state"}
  BY DEF NoRecord
<1>3. "failure_reason" # "state"
  OBVIOUS
<1> HIDE DEF c
<1>4. c # NoRecord
  BY <1>1, <1>2, <1>3
<1> QED BY <1>4 DEF c

\* A step that ends the request, captured or not, in state s: the events tell
\* that end, or of no end and the state stays, or it is one nobody tells.
LEMMA EndingStep ==
  ASSUME Inv, NEW r \in Requests, NEW evs, NEW n \in Nat, NEW x, NEW s,
         Says(TypesIn(trace[r]), StatesIn(trace[r]), evs, n, x),
         Told(r, evs), settled' = [settled EXCEPT ![r] = @ + n],
         state' = [state EXCEPT ![r] = s], s \in RequestState \cup {"none"},
         Goto(r, "done"), pc[r] \notin {"visible", "enqueued", "cycling"},
         \/ record' = record
         \/ \E rec : rec # NoRecord /\ record' = [record EXCEPT ![r] = rec],
         Free,
         \/ x # "none" /\ x = s
         \/ x = "none" /\ (s = state[r] \/ s \notin TerminalStates \ {"cancelled"})
  PROVE  Inv'
<1>1. /\ TypesIn(trace[r]) \subseteq TypesIn(trace'[r])
      /\ x # "none" => EndTold(trace'[r], x)
      /\ x = "none" => /\ \A y : EndTold(trace[r], y) => EndTold(trace'[r], y)
                       /\ RefusalTold(trace[r]) => RefusalTold(trace'[r])
  BY TellingEffect
<1>2. TypedPath /\ RequestInv(r)
  BY DEF Inv
<1>3. /\ state'[r] = s /\ pc'[r] = "done" /\ own' = own /\ queue' = queue /\ batched' = batched
      /\ foreign' = foreign /\ disturbed' = disturbed /\ cycle' = cycle
  BY <1>2 DEF TypedPath, Goto, Free
<1>4. /\ DOMAIN record' = Requests
      /\ \A q \in Requests \ {r} : record'[q] = record[q]
      /\ record'[r] = record[r] \/ record'[r] # NoRecord
  BY <1>2 DEF TypedPath
<1>5. TypedPath'
  BY <1>2, <1>4 DEF TypedPath, Goto, Free, PathLabels
<1>6. OnlyOf(r)
  BY <1>2, <1>3, <1>4 DEF TypedPath, Goto, OnlyOf
<1>7. PathTold(r)'
  <2>1. r \in queue => pc[r] # "visible"
    OBVIOUS
  <2> QED BY <1>1, <1>2, <1>3, <2>1 DEF RequestInv, PathTold
<1>8. StagesTold(r)'
  BY <1>3 DEF StagesTold
<1>9. EndsAreForeign(r)'
  BY <1>2, <1>3, <1>4 DEF RequestInv, EndsAreForeign
<1>10. EndIsTold(r)'
  BY <1>1, <1>2, <1>3, <1>4 DEF RequestInv, EndIsTold
<1> QED BY <1>3, <1>5, <1>6, <1>7, <1>8, <1>9, <1>10, TellingStep

\* Nothing is settled by a step that leaves the count.
LEMMA NothingSettled ==
  ASSUME Inv, NEW r \in Requests
  PROVE  UNCHANGED settled <=> settled' = [settled EXCEPT ![r] = @ + 0]
<1>1. settled[r] + 0 = settled[r] /\ settled \in [Requests -> Nat]
  BY DEF Inv, TypedTelling
<1> QED BY <1>1

\* Ends: the outcome is told, reported by a replay, and captured.
LEMMA EndsKeeps ==
  ASSUME Inv, NEW r \in Requests, NEW evs, NEW n \in Nat, NEW x, NEW s, NEW why,
         Says(TypesIn(trace[r]), StatesIn(trace[r]), evs, n, x),
         Ends(r, evs, s, why), settled' = [settled EXCEPT ![r] = @ + n],
         s \in RequestState \cup {"none"},
         pc[r] \notin {"visible", "enqueued", "cycling"},
         Free,
         \/ x # "none" /\ x = s
         \/ x = "none" /\ (s = state[r] \/ s \notin TerminalStates \ {"cancelled"})
  PROVE  Inv'
<1> DEFINE T == TypesIn(trace[r])
           S == StatesIn(trace[r])
           type == IF s = "completed" THEN "replay_completed" ELSE "replay_failed"
           all == evs \o Report(r, type)
<1>1. Says(T, S \cup StatesOf(evs), Report(r, type), 0, "none")
  BY ReportSays
<1>2. Says(T, S, all, n, x)
  <2>1. n + 0 = n /\ (IF "none" = "none" THEN x ELSE "none") = x
    OBVIOUS
  <2> HIDE DEF T, S, type
  <2>2. Says(T, S, evs, n, x)
    BY DEF T, S
  <2>3. Says(T, S, evs \o Report(r, type), n + 0, IF "none" = "none" THEN x ELSE "none")
    BY <1>1, <2>2, SaysBoth
  <2> QED BY <2>1, <2>3
<1>3. Told(r, all) /\ state' = [state EXCEPT ![r] = s] /\ Goto(r, "done")
  BY DEF Ends, Becomes
<1>4. \E rec : rec # NoRecord /\ record' = [record EXCEPT ![r] = rec]
  <2>1. PICK t, backend : record' = [record EXCEPT ![r] = CaptureExecutionRecord(t, s, why, backend)]
    BY DEF Ends, Captured
  <2> QED BY <2>1, CaptureIsARecord
<1> HIDE DEF all
<1> QED BY <1>2, <1>3, <1>4, EndingStep DEF T, S

\* A stream that is refused at once is answered without a capture.
LEMMA RefusedAtOnceKeeps ==
  ASSUME Inv, NEW r \in Requests, NEW evs, NEW n \in Nat, NEW s \in EndStates, NEW why,
         Says(TypesIn(trace[r]), StatesIn(trace[r]), evs, n, s),
         RefusedAtOnce(r, evs, s, why), settled' = [settled EXCEPT ![r] = @ + n],
         pc[r] = "admission", Free
  PROVE  Inv'
<1>1. s \in RequestState /\ s # "none"
  BY DEF EndStates, RequestState, TerminalStates
<1>2. CASE r \in streams
  <2>1. Told(r, evs) /\ state' = [state EXCEPT ![r] = s] /\ Goto(r, "done") /\ record' = record
    BY <1>2 DEF RefusedAtOnce, Becomes
  <2> QED BY <1>1, <2>1, EndingStep
<1>3. CASE r \notin streams
  <2>1. Ends(r, evs, s, why)
    BY <1>3 DEF RefusedAtOnce
  <2> QED BY <1>1, <2>1, EndsKeeps
<1> QED BY <1>2, <1>3

LEMMA RefusalsKeep ==
  ASSUME Inv, NEW r \in Requests
  PROVE  /\ AdmissionRejects(r) => Inv'
         /\ AdmissionRaises(r) => Inv'
         /\ QueueFull(r) => Inv'
<1>1. "rejected" \in EndStates /\ "failed" \in EndStates
  BY DEF EndStates
<1>2. ASSUME AdmissionRejects(r) PROVE Inv'
  <2>1. settled' = [settled EXCEPT ![r] = @ + 0] /\ pc[r] = "admission" /\ Free
    BY <1>2, NothingSettled DEF AdmissionRejects
  <2>2. RefusedAtOnce(r, <<StateEvent("request_rejected", "rejected")>>, "rejected", "queue_full")
    BY <1>2 DEF AdmissionRejects
  <2> QED BY <1>1, <2>1, <2>2, RejectionSays, RefusedAtOnceKeeps
<1>3. ASSUME AdmissionRaises(r) PROVE Inv'
  <2>1. settled' = [settled EXCEPT ![r] = @ + 1] /\ pc[r] = "admission" /\ Free
    BY <1>3 DEF AdmissionRaises, Settles
  <2>2. RefusedAtOnce(r, FailedEvents(r), "failed", "internal")
    BY <1>3 DEF AdmissionRaises
  <2> QED BY <1>1, <2>1, <2>2, FailedEventsSay, RefusedAtOnceKeeps
<1>4. ASSUME QueueFull(r) PROVE Inv'
  <2> DEFINE full == QueueEvent("queue_full")
             evs == <<TransitionEvent("request_admitted", "admitted"), full,
                      FailureOf(full, "rejected")>>
  <2>1. settled' = [settled EXCEPT ![r] = @ + 1] /\ pc[r] = "admission" /\ Free
    BY <1>4 DEF QueueFull, Settles
  <2>2. RefusedAtOnce(r, evs, "rejected", "queue_full")
    BY <1>4 DEF QueueFull
  <2>3. "validated" \in StatesIn(trace[r])
    BY <2>1 DEF Inv, RequestInv, StagesTold
  <2>4. Says(TypesIn(trace[r]), StatesIn(trace[r]), evs, 1, "rejected")
    BY <2>3, QueueSays
  <2> HIDE DEF evs
  <2> QED BY <1>1, <2>1, <2>2, <2>4, RefusedAtOnceKeeps
<1> QED BY <1>2, <1>3, <1>4

\* The request fails with what mark_failed tells, or is captured as it stands.
LEMMA FailsKeeps ==
  ASSUME Inv, NEW r \in Requests, NEW why, Fails(r, why), Free,
         pc[r] \notin {"visible", "enqueued", "cycling"}
  PROVE  Inv'
<1>1. Ends(r, FailedEvents(r), "failed", why) /\ settled' = [settled EXCEPT ![r] = @ + 1]
  BY DEF Fails, Settles
<1>2. "failed" \in RequestState
  BY LifecycleTypes
<1> QED BY <1>1, <1>2, FailedEventsSay, EndsKeeps

LEMMA CaptureKeeps ==
  ASSUME Inv, NEW r \in Requests, NEW s, NEW why, Ends(r, <<>>, s, why), UNCHANGED settled, Free,
         pc[r] \notin {"visible", "enqueued", "cycling"}, s = state[r] \/ s = "cancelled"
  PROVE  Inv'
<1>1. settled' = [settled EXCEPT ![r] = @ + 0]
  BY NothingSettled
<1>2. s \in RequestState \cup {"none"}
  BY DEF Inv, TypedPath, RequestState, TerminalStates
<1> QED BY <1>1, <1>2, SaysNothing, EndsKeeps

LEMMA StreamFailsKeeps ==
  ASSUME Inv, NEW r \in Requests, StreamFails(r), Free,
         pc[r] \notin {"visible", "enqueued", "cycling"}
  PROVE  Inv'
<1>1. CASE state[r] \in {"failed", "cancelled"}
  BY <1>1, CaptureKeeps DEF StreamFails
<1>2. CASE state[r] \notin {"failed", "cancelled"}
  BY <1>2, FailsKeeps DEF StreamFails
<1> QED BY <1>1, <1>2

\* A full path that ends without a capture: the state is what it was.
LEMMA LeavingKeeps ==
  ASSUME Inv, NEW r \in Requests, NEW evs,
         Says(TypesIn(trace[r]), StatesIn(trace[r]), evs, 0, "none"),
         Told(r, evs), Goto(r, "done"), UNCHANGED <<state, record, settled>>, Free,
         pc[r] \notin {"visible", "enqueued", "cycling"}
  PROVE  Inv'
<1>1. settled' = [settled EXCEPT ![r] = @ + 0]
  BY NothingSettled
<1>2. state' = [state EXCEPT ![r] = state[r]] /\ state[r] \in RequestState \cup {"none"}
  BY DEF Inv, TypedPath
<1> QED BY <1>1, <1>2, EndingStep

LEMMA StreamEndsKeep ==
  ASSUME Inv, NEW r \in Requests
  PROVE  /\ StreamNotQueued(r) => Inv'
         /\ StreamError(r) => Inv'
         /\ StreamCancel(r) => Inv'
         /\ CloseStream(r) => Inv'
<1>1. ASSUME StreamNotQueued(r) PROVE Inv'
  BY <1>1, StreamFailsKeeps DEF StreamNotQueued
<1>2. ASSUME StreamError(r) PROVE Inv'
  BY <1>2, StreamFailsKeeps DEF StreamError
<1>3. ASSUME StreamCancel(r) PROVE Inv'
  BY <1>3, CaptureKeeps DEF StreamCancel
<1>4. ASSUME CloseStream(r) PROVE Inv'
  BY <1>4, CaptureKeeps DEF CloseStream
<1> QED BY <1>1, <1>2, <1>3, <1>4

LEMMA EndsUnplacedKeeps ==
  ASSUME Inv, NEW r \in Requests, EndsUnplaced(r)
  PROVE  Inv'
<1>1. Free /\ pc[r] \notin {"visible", "enqueued", "cycling"}
  BY DEF EndsUnplaced
<1>2. ASSUME NEW why, Fails(r, why) PROVE Inv'
  BY <1>1, <1>2, FailsKeeps
<1>3. ASSUME Ends(r, <<>>, state[r], reason[r]), UNCHANGED settled PROVE Inv'
  BY <1>1, <1>3, CaptureKeeps
<1>4. \/ \E why : Fails(r, why)
      \/ Ends(r, <<>>, state[r], reason[r]) /\ UNCHANGED settled
  BY DEF EndsUnplaced
<1> QED BY <1>2, <1>3, <1>4

-----------------------------------------------------------------------------
(***************************************************************************)
(* Steps of the path that do not end it.                                   *)
(***************************************************************************)

\* A step to a state that is not the end, or to the end of a stream whose body
\* is still open.
LEMMA ContinuingStep ==
  ASSUME Inv, NEW r \in Requests, NEW evs, NEW n \in Nat, NEW x, NEW s, NEW label,
         Says(TypesIn(trace[r]), StatesIn(trace[r]), evs, n, x),
         Steps(r, evs, s, label), settled' = [settled EXCEPT ![r] = @ + n],
         s \in RequestState, label \in PathLabels \ {"done", "cycling", "accepted", "submitting"},
         pc[r] \notin {"cycling", "done"},
         UNCHANGED <<streams, batched, submitted, own, attempts, foreign, cycle, disturbed>>,
         queue' \in {queue, queue \cup {r}},
         \/ x = "none" /\ s \notin TerminalStates
         \/ x # "none" /\ x = s /\ label = "closing",
         pc[r] \in {"visible", "enqueued"} => label # "closing",
         label = "visible" \/ r \in queue' => "request_admitted" \in TypesIn(trace'[r]),
         label = "enqueued" \/ (r \in queue' /\ label # "visible") =>
           "request_enqueued" \in TypesIn(trace'[r]),
         label = "executing" => own[r] = "placed",
         StagesTold(r)'
  PROVE  Inv'
<1>1. /\ TypesIn(trace[r]) \subseteq TypesIn(trace'[r])
      /\ x # "none" => EndTold(trace'[r], x)
  <2>1. Told(r, evs)
    BY DEF Steps
  <2> QED BY <2>1, TellingEffect
<1>2. TypedPath /\ RequestInv(r)
  BY DEF Inv
<1>3. /\ state' = [state EXCEPT ![r] = s] /\ pc' = [pc EXCEPT ![r] = label]
      /\ record' = record /\ Told(r, evs)
  BY DEF Steps, Becomes, Goto
<1>4. state'[r] = s /\ pc'[r] = label
  BY <1>2, <1>3 DEF TypedPath
<1>5. TypedPath'
  BY <1>2, <1>3 DEF TypedPath
<1>6. OnlyOf(r)
  BY <1>2, <1>3 DEF TypedPath, OnlyOf
<1>7. PathTold(r)'
  BY <1>1, <1>2, <1>4 DEF RequestInv, PathTold
<1>8. EndsAreForeign(r)'
  BY <1>2, <1>3, <1>4 DEF RequestInv, EndsAreForeign
<1>9. EndIsTold(r)'
  BY <1>1, <1>4 DEF EndIsTold
<1> QED BY <1>3, <1>5, <1>6, <1>7, <1>8, <1>9, TellingStep

\* What Steps does to what has been told.
LEMMA StepsEffect ==
  ASSUME Inv, NEW r \in Requests, NEW evs, NEW n \in Nat, NEW x, NEW s, NEW label,
         Says(TypesIn(trace[r]), StatesIn(trace[r]), evs, n, x),
         Steps(r, evs, s, label), settled' = [settled EXCEPT ![r] = @ + n]
  PROVE  /\ TypesIn(trace[r]) \subseteq TypesIn(trace'[r])
         /\ StatesIn(trace[r]) \subseteq StatesIn(trace'[r])
         /\ \A i \in 1..Len(evs) :
              evs[i].type \in TypesIn(trace'[r]) /\ evs[i].to \in StatesIn(trace'[r])
         /\ pc'[r] = label
<1>1. Told(r, evs)
  BY DEF Steps
<1>2. pc'[r] = label
  BY DEF Steps, Goto, Inv, TypedPath
<1> QED BY <1>1, <1>2, TellingEffect

LEMMA StartKeeps ==
  ASSUME Inv, NEW r \in Requests, Start(r)
  PROVE  Inv'
<1> DEFINE g == IF r \in Replays THEN ReplayEvent("replay_started") ELSE GatewayEvent
           evs == <<g, StateEvent("request_received", "received"),
                    TransitionEvent("request_validated", "validated")>>
<1>1. Says(TypesIn(trace[r]), StatesIn(trace[r]), evs, 0, "none")
  BY StartSays
<1>2. /\ pc[r] = "new" /\ Free /\ Steps(r, evs, "validated", "admission")
      /\ settled' = [settled EXCEPT ![r] = @ + 0]
  BY NothingSettled DEF Start, Continues
<1>3. Len(evs) = 3 /\ evs[3].to = "validated"
  BY EventFields, LifecycleTypes
<1> HIDE DEF evs
<1>4. /\ TypesIn(trace[r]) \subseteq TypesIn(trace'[r])
      /\ "validated" \in StatesIn(trace'[r])
      /\ pc'[r] = "admission"
  <2>1. 3 \in 1..Len(evs)
    BY <1>3
  <2>2. /\ TypesIn(trace[r]) \subseteq TypesIn(trace'[r])
        /\ \A i \in 1..Len(evs) :
             evs[i].type \in TypesIn(trace'[r]) /\ evs[i].to \in StatesIn(trace'[r])
        /\ pc'[r] = "admission"
    BY <1>1, <1>2, StepsEffect, 0 \in Nat
  <2> QED BY <1>1, <1>2, <1>3, <2>1, <2>2
<1>5. StagesTold(r)'
  BY <1>4 DEF StagesTold
<1>6. /\ r \in queue => "request_admitted" \in TypesIn(trace'[r])
      /\ r \in queue => "request_enqueued" \in TypesIn(trace'[r])
  BY <1>2, <1>4 DEF Inv, RequestInv, PathTold
<1>7. "validated" \in RequestState /\ "validated" \notin TerminalStates
      /\ "admission" \in PathLabels \ {"done", "cycling", "accepted", "submitting"}
  BY DEF RequestState, TerminalStates, PathLabels
<1> QED BY <1>1, <1>2, <1>5, <1>6, <1>7, ContinuingStep DEF Free

LEMMA AdmittedKeeps ==
  ASSUME Inv, NEW r \in Requests, Admitted(r)
  PROVE  Inv'
<1> DEFINE e == TransitionEvent("request_admitted", "admitted")
           evs == <<e>>
<1>1. /\ pc[r] = "admission" /\ Steps(r, evs, "admitted", "visible")
      /\ settled' = [settled EXCEPT ![r] = @ + 0]
      /\ UNCHANGED <<streams, batched, submitted, own, attempts, foreign, cycle, disturbed>>
      /\ queue' = queue \cup {r}
  BY NothingSettled DEF Admitted, Continues
<1>2. "validated" \in StatesIn(trace[r])
  BY <1>1 DEF Inv, RequestInv, StagesTold
<1>3. Says(TypesIn(trace[r]), StatesIn(trace[r]), evs, 0, "none")
  BY <1>2, ProgressSays
<1>4. Len(evs) = 1 /\ evs[1].to = "admitted" /\ evs[1].type = "request_admitted"
  BY EventFields, LifecycleTypes
<1> HIDE DEF evs
<1>5. "request_admitted" \in TypesIn(trace'[r]) /\ "admitted" \in StatesIn(trace'[r])
      /\ pc'[r] = "visible"
  <2>1. 1 \in 1..Len(evs)
    BY <1>4
  <2>2. /\ TypesIn(trace[r]) \subseteq TypesIn(trace'[r])
        /\ \A i \in 1..Len(evs) :
             evs[i].type \in TypesIn(trace'[r]) /\ evs[i].to \in StatesIn(trace'[r])
        /\ pc'[r] = "visible"
    BY <1>1, <1>3, StepsEffect, 0 \in Nat
  <2> QED BY <1>1, <1>3, <1>4, <2>1, <2>2
<1>6. StagesTold(r)'
  BY <1>5 DEF StagesTold
<1>7. "admitted" \in RequestState /\ "admitted" \notin TerminalStates
      /\ "visible" \in PathLabels \ {"done", "cycling", "accepted", "submitting"}
  BY DEF RequestState, TerminalStates, PathLabels
<1> QED BY <1>1, <1>3, <1>5, <1>6, <1>7, ContinuingStep

LEMMA EnqueuedKeeps ==
  ASSUME Inv, NEW r \in Requests, Enqueued(r)
  PROVE  Inv'
<1> DEFINE e == QueueEvent("request_enqueued")
           evs == <<e>>
<1>1. /\ pc[r] = "visible" /\ Free /\ Steps(r, evs, "queued", "enqueued")
      /\ settled' = [settled EXCEPT ![r] = @ + 0]
  BY NothingSettled DEF Enqueued, Continues
<1>2. "request_admitted" \in TypesIn(trace[r]) /\ "admitted" \in StatesIn(trace[r])
  BY <1>1 DEF Inv, RequestInv, PathTold, StagesTold
<1>3. Says(TypesIn(trace[r]), StatesIn(trace[r]), evs, 0, "none")
  BY <1>2, QueueSays
<1>4. Len(evs) = 1 /\ evs[1].type = "request_enqueued"
  BY DEF QueueEvent, Event
<1> HIDE DEF evs
<1>5. /\ "request_enqueued" \in TypesIn(trace'[r]) /\ "request_admitted" \in TypesIn(trace'[r])
      /\ "admitted" \in StatesIn(trace'[r]) /\ pc'[r] = "enqueued"
  <2>1. 1 \in 1..Len(evs)
    BY <1>4
  <2>2. /\ TypesIn(trace[r]) \subseteq TypesIn(trace'[r])
        /\ StatesIn(trace[r]) \subseteq StatesIn(trace'[r])
        /\ \A i \in 1..Len(evs) :
             evs[i].type \in TypesIn(trace'[r]) /\ evs[i].to \in StatesIn(trace'[r])
        /\ pc'[r] = "enqueued"
    BY <1>1, <1>3, StepsEffect, 0 \in Nat
  <2> QED BY <1>1, <1>2, <1>3, <1>4, <2>1, <2>2
<1>6. StagesTold(r)'
  BY <1>5 DEF StagesTold
<1>7. "queued" \in RequestState /\ "queued" \notin TerminalStates
      /\ "enqueued" \in PathLabels \ {"done", "cycling", "accepted", "submitting"}
  BY DEF RequestState, TerminalStates, PathLabels
<1> QED BY <1>1, <1>3, <1>5, <1>6, <1>7, ContinuingStep DEF Free

LEMMA QueuedKeeps ==
  ASSUME Inv, NEW r \in Requests, Queued(r)
  PROVE  Inv'
<1> DEFINE e == StateEvent("request_queued", "queued")
           evs == <<e>>
<1>1. /\ pc[r] = "enqueued" /\ Free /\ Steps(r, evs, "queued", "waiting")
      /\ settled' = [settled EXCEPT ![r] = @ + 0]
  BY NothingSettled DEF Queued, Continues
<1>2. /\ "request_enqueued" \in TypesIn(trace[r]) /\ "admitted" \in StatesIn(trace[r])
      /\ r \in queue => "request_admitted" \in TypesIn(trace[r])
  BY <1>1 DEF Inv, RequestInv, PathTold, StagesTold
<1>3. Says(TypesIn(trace[r]), StatesIn(trace[r]), evs, 0, "none")
  BY <1>2, ProgressSays
<1>4. Len(evs) = 1 /\ evs[1].to = "queued"
  BY EventFields, LifecycleTypes
<1> HIDE DEF evs
<1>5. /\ "request_enqueued" \in TypesIn(trace'[r])
      /\ r \in queue => "request_admitted" \in TypesIn(trace'[r])
      /\ "queued" \in StatesIn(trace'[r]) /\ pc'[r] = "waiting"
  <2>1. 1 \in 1..Len(evs)
    BY <1>4
  <2>2. /\ TypesIn(trace[r]) \subseteq TypesIn(trace'[r])
        /\ \A i \in 1..Len(evs) :
             evs[i].type \in TypesIn(trace'[r]) /\ evs[i].to \in StatesIn(trace'[r])
        /\ pc'[r] = "waiting"
    BY <1>1, <1>3, StepsEffect, 0 \in Nat
  <2> QED BY <1>1, <1>2, <1>3, <1>4, <2>1, <2>2
<1>6. StagesTold(r)'
  BY <1>5 DEF StagesTold
<1>7. "queued" \in RequestState /\ "queued" \notin TerminalStates
      /\ "waiting" \in PathLabels \ {"done", "cycling", "accepted", "submitting"}
  BY DEF RequestState, TerminalStates, PathLabels
<1> QED BY <1>1, <1>3, <1>5, <1>6, <1>7, ContinuingStep DEF Free

LEMMA EndsPlacedKeeps ==
  ASSUME Inv, NEW r \in Requests, EndsPlaced(r)
  PROVE  Inv'
<1> DEFINE T == TypesIn(trace[r])
           S == StatesIn(trace[r])
           failing == <<TransitionEvent("request_scheduled", "scheduled"),
                        TransitionEvent("request_batched", "batched"),
                        TransitionEvent("request_failed", "failed")>>
           placing == <<TransitionEvent("request_scheduled", "scheduled"),
                        TransitionEvent("request_batched", "batched")>>
                        \o <<TransitionEvent("request_submitted", "submitted")>>
<1>1. /\ pc[r] \in {"accepted", "refused"} /\ own[r] = "placed" /\ Free
      /\ pc[r] \notin {"visible", "enqueued", "cycling", "done"}
  BY DEF EndsPlaced
<1>2. /\ "request_added_to_batch" \in T /\ "queued" \in S
      /\ pc[r] = "accepted" => "batch_accepted" \in T
  BY <1>1 DEF Inv, RequestInv, PathTold, StagesTold
<1>3. CASE TransitionRefused(r)
  <2>1. CASE r \in streams
    BY <1>1, <1>3, <2>1, StreamFailsKeeps DEF TransitionRefused
  <2>2. CASE r \notin streams
    <3>1. /\ Told(r, Report(r, "replay_failed")) /\ Goto(r, "done")
          /\ UNCHANGED <<state, record, settled>>
      BY <1>3, <2>2 DEF TransitionRefused
    <3>2. Says(T, S, Report(r, "replay_failed"), 0, "none")
      BY ReportSays
    <3> QED BY <1>1, <3>1, <3>2, LeavingKeeps
  <2> QED BY <2>1, <2>2
<1>4. ASSUME Ends(r, failing, "failed", "adapter"), Settles(r) PROVE Inv'
  <2>1. Says(T, S, failing, 1, "failed")
    BY <1>2, PlacementSays
  <2>2. settled' = [settled EXCEPT ![r] = @ + 1] /\ "failed" \in RequestState
    BY <1>4, LifecycleTypes DEF Settles
  <2> HIDE DEF failing
  <2> QED BY <1>1, <1>4, <2>1, <2>2, EndsKeeps
<1>5. ASSUME NEW s \in {"streaming", "submitted"}, pc[r] = "accepted",
             Continues(r, placing, s, "executing")
      PROVE  Inv'
  <2>1. Says(T, S, placing, 0, "none")
    BY <1>2, <1>5, PlacementSays
  <2>2. Len(placing) = 3 /\ placing[3].to = "submitted"
    BY EventFields, LifecycleTypes
  <2> HIDE DEF placing
  <2>3. Steps(r, placing, s, "executing") /\ settled' = [settled EXCEPT ![r] = @ + 0]
    BY <1>5, NothingSettled DEF Continues
  <2>4. /\ T \subseteq TypesIn(trace'[r])
        /\ \A i \in 1..Len(placing) : placing[i].to \in StatesIn(trace'[r])
        /\ pc'[r] = "executing"
    BY <2>1, <2>3, StepsEffect, 0 \in Nat
  <2>5. 3 \in 1..Len(placing)
    BY <2>2
  <2>6. StagesTold(r)'
    BY <2>2, <2>4, <2>5 DEF StagesTold
  <2>7. s \in RequestState /\ s \notin TerminalStates
        /\ "executing" \in PathLabels \ {"done", "cycling", "accepted", "submitting"}
    BY DEF RequestState, TerminalStates, PathLabels
  <2>8. r \in queue => /\ "request_admitted" \in TypesIn(trace'[r])
                       /\ "request_enqueued" \in TypesIn(trace'[r])
    BY <1>1, <2>4 DEF Inv, RequestInv, PathTold
  <2> QED BY <1>1, <2>1, <2>3, <2>6, <2>7, <2>8, ContinuingStep DEF Free
<1>6. \/ TransitionRefused(r)
      \/ Ends(r, failing, "failed", "adapter") /\ Settles(r)
      \/ pc[r] = "accepted" /\ \E s \in {"streaming", "submitted"} : Continues(r, placing, s, "executing")
  BY DEF EndsPlaced, Placed
<1> QED BY <1>3, <1>4, <1>5, <1>6

LEMMA CompletesKeeps ==
  ASSUME Inv, NEW r \in Requests, Completes(r)
  PROVE  Inv'
<1> DEFINE T == TypesIn(trace[r])
           S == StatesIn(trace[r])
           evs == <<Removed>> \o Completion
<1>1. pc[r] = "executing" /\ Free /\ settled' = [settled EXCEPT ![r] = @ + 1]
  BY DEF Completes, Settles
<1>2. /\ "request_added_to_batch" \in T /\ "submitted" \in S
      /\ r \in queue => "request_admitted" \in T /\ "request_enqueued" \in T
  BY <1>1 DEF Inv, RequestInv, PathTold, StagesTold
<1>3. Says(T, S, evs, 1, "completed")
  <2>1. Says(T, S, <<Removed>>, 0, "none")
    BY <1>2, ProgressSays
  <2>2. Says(T, S \cup {Removed.to}, Completion, 1, "completed")
    BY <1>2, CompletionSays
  <2> QED BY <2>1, <2>2, SaysInTurn
<1>4. "completed" \in RequestState /\ "completed" # "none"
      /\ "closing" \in PathLabels \ {"done", "cycling", "accepted", "submitting"}
  BY LifecycleTypes DEF PathLabels
<1>5. CASE r \in streams
  <2>1. Steps(r, evs, "completed", "closing")
    BY <1>5 DEF Completes
  <2> HIDE DEF evs
  <2>2. T \subseteq TypesIn(trace'[r]) /\ pc'[r] = "closing"
    BY <1>1, <1>3, <2>1, StepsEffect, 1 \in Nat
  <2>3. StagesTold(r)'
    BY <2>2 DEF StagesTold
  <2> QED BY <1>1, <1>2, <1>3, <1>4, <2>1, <2>2, <2>3, ContinuingStep DEF Free
<1>6. CASE r \notin streams
  <2>1. Ends(r, evs, "completed", reason[r])
    BY <1>6 DEF Completes
  <2> HIDE DEF evs
  <2> QED BY <1>1, <1>3, <1>4, <2>1, EndsKeeps
<1> QED BY <1>5, <1>6

LEMMA CompletionRefusedKeeps ==
  ASSUME Inv, NEW r \in Requests, CompletionRefused(r)
  PROVE  Inv'
<1> DEFINE T == TypesIn(trace[r])
           S == StatesIn(trace[r])
<1>1. pc[r] = "executing" /\ Free
  BY DEF CompletionRefused
<1>2. Says(T, S, <<Removed>>, 0, "none")
  <2>1. "request_added_to_batch" \in T
    BY <1>1 DEF Inv, RequestInv, PathTold
  <2> QED BY <2>1, ProgressSays
<1>3. CASE r \notin streams
  <2>1. /\ Told(r, <<Removed>> \o Report(r, "replay_failed")) /\ Goto(r, "done")
        /\ UNCHANGED <<state, record, settled>>
    BY <1>3 DEF CompletionRefused
  <2>2. Says(T, S \cup {Removed.to}, Report(r, "replay_failed"), 0, "none")
    BY ReportSays
  <2>3. Says(T, S, <<Removed>> \o Report(r, "replay_failed"), 0, "none")
    BY <1>2, <2>2, SaysInTurn
  <2> QED BY <1>1, <2>1, <2>3, LeavingKeeps
<1>4. ASSUME Ends(r, <<Removed>>, state[r], reason[r]), UNCHANGED settled PROVE Inv'
  <2>1. settled' = [settled EXCEPT ![r] = @ + 0]
    BY <1>4, NothingSettled
  <2>2. state[r] \in RequestState \cup {"none"}
    BY DEF Inv, TypedPath
  <2> QED BY <1>1, <1>2, <1>4, <2>1, <2>2, EndsKeeps
<1>5. ASSUME Ends(r, <<Removed>> \o FailedEvents(r), "failed", "adapter"), Settles(r) PROVE Inv'
  <2>1. Says(T, S \cup {Removed.to}, FailedEvents(r), 1, "failed")
    BY FailedEventsSay
  <2>2. Says(T, S, <<Removed>> \o FailedEvents(r), 1, "failed")
    BY <1>2, <2>1, SaysInTurn
  <2>3. settled' = [settled EXCEPT ![r] = @ + 1] /\ "failed" \in RequestState
    BY <1>5, LifecycleTypes DEF Settles
  <2> QED BY <1>1, <1>5, <2>2, <2>3, EndsKeeps
<1> QED BY <1>3, <1>4, <1>5 DEF CompletionRefused

-----------------------------------------------------------------------------
(***************************************************************************)
(* Dispatch.                                                               *)
(***************************************************************************)
EndsByRefusal(evs) ==
  \E i \in 1..Len(evs) : LastEndOf(evs, i) /\ evs[i].type = "batch_rejected"

LEMMA DispatchKeeps ==
  ASSUME Inv, NEW r \in Requests, NEW evs, NEW x, NEW label, NEW what,
         Says(TypesIn(trace[r]), StatesIn(trace[r]), evs, 0, x),
         DispatchStep(r, evs, label, what),
         submitted' \in {submitted, submitted \cup {r}}, attempts' \in [Requests -> 0..MaxAttempts],
         pc[r] \in {"dispatching", "submitting"},
         label \in {"dispatching", "submitting", "accepted", "refused"},
         x = "none" \/ EndsByRefusal(evs),
         label = "submitting" => \E i \in 1..Len(evs) : evs[i].type = "batch_submitted",
         label = "accepted" => \E i \in 1..Len(evs) : evs[i].type = "batch_accepted"
  PROVE  Inv'
<1>0. Told(r, evs) /\ settled' = [settled EXCEPT ![r] = @ + 0]
  BY NothingSettled DEF DispatchStep
<1>1. /\ TypesIn(trace[r]) \subseteq TypesIn(trace'[r])
      /\ StatesIn(trace[r]) \subseteq StatesIn(trace'[r])
      /\ \A i \in 1..Len(evs) : evs[i].type \in TypesIn(trace'[r])
      /\ x = "none" => /\ \A y : EndTold(trace[r], y) => EndTold(trace'[r], y)
                       /\ RefusalTold(trace[r]) => RefusalTold(trace'[r])
      /\ EndsByRefusal(evs) => RefusalTold(trace'[r])
  BY <1>0, TellingEffect, 0 \in Nat DEF EndsByRefusal
<1>2. TypedPath /\ RequestInv(r)
  BY DEF Inv
<1>3. /\ pc' = [pc EXCEPT ![r] = label]
      /\ UNCHANGED <<streams, state, queue, batched, own, foreign, cycle, record, disturbed>>
  BY DEF DispatchStep, Goto
<1>4. pc'[r] = label
  BY <1>2, <1>3 DEF TypedPath
<1>5. TypedPath'
  <2>1. submitted' \subseteq Requests
    BY <1>2 DEF TypedPath
  <2> QED BY <1>2, <1>3, <2>1 DEF TypedPath, PathLabels
<1>6. OnlyOf(r)
  BY <1>2, <1>3 DEF TypedPath, OnlyOf
<1>7. PathTold(r)'
  BY <1>1, <1>2, <1>3, <1>4 DEF RequestInv, PathTold
<1>8. StagesTold(r)'
  BY <1>1, <1>2, <1>4 DEF RequestInv, StagesTold
<1>9. EndsAreForeign(r)'
  BY <1>2, <1>3, <1>4 DEF RequestInv, EndsAreForeign
<1>10. EndIsTold(r)'
  <2>1. SUFFICES ASSUME state[r] \in TerminalStates \ {"cancelled"}
                 PROVE  \/ EndTold(trace'[r], state[r])
                        \/ RefusalTold(trace'[r]) /\ r \in disturbed
    BY <1>3 DEF EndIsTold
  <2>2. r \in disturbed
    BY <1>2, <2>1 DEF RequestInv, EndsAreForeign
  <2> QED BY <1>1, <1>2, <2>1, <2>2 DEF RequestInv, EndIsTold
<1> QED BY <1>0, <1>3, <1>5, <1>6, <1>7, <1>8, <1>9, <1>10, TellingStep, 0 \in Nat

\* Routing's event of the first request of the batch, and the adapter's.
LEMMA HandOverSays ==
  ASSUME NEW T, NEW S, NEW r, "request_added_to_batch" \in T
  PROVE  LET evs == RoutingEvent(r, "backend_selected") \o <<AdapterEvent("batch_submitted")>>
         IN /\ Says(T, S, evs, 0, "none")
            /\ \E i \in 1..Len(evs) : evs[i].type = "batch_submitted"
<1> DEFINE a == RoutingEvent(r, "backend_selected")
           b == <<AdapterEvent("batch_submitted")>>
<1>1. Says(T, S, a, 0, "none") /\ Says(T, S \cup StatesOf(a), b, 0, "none")
  BY RoutingEventSays, AdapterSays
<1>2. Len(b) = 1 /\ b[1].type = "batch_submitted"
  BY DEF AdapterEvent, Event
<1> HIDE DEF a, b
<1>3. Says(T, S, a \o b, 0, "none")
  BY <1>1, SaysBoth, 0 + 0 = 0
<1>4. a \in Seq(Events) /\ b \in Seq(Events)
  BY <1>1 DEF Says, Tellable
<1>5. /\ Len(a) \in Nat /\ Len(a \o b) = Len(a) + Len(b)
      /\ \A i \in 1..Len(a) + Len(b) :
           (a \o b)[i] = IF i <= Len(a) THEN a[i] ELSE b[i - Len(a)]
  BY <1>4, ConcatProperties, LenProperties
<1>6. /\ Len(a) + 1 \in 1..Len(a \o b) /\ ~(Len(a) + 1 <= Len(a)) /\ Len(a) + 1 - Len(a) = 1
  BY <1>2, <1>5
<1>7. (a \o b)[Len(a) + 1].type = "batch_submitted"
  BY <1>2, <1>5, <1>6
<1>8. \E i \in 1..Len(a \o b) : (a \o b)[i].type = "batch_submitted"
  BY <1>6, <1>7
<1> QED BY <1>3, <1>8 DEF a, b

LEMMA DispatchStepsKeep ==
  ASSUME Inv, NEW r \in Requests
  PROVE  /\ HandOver(r) => Inv'
         /\ RouteFails(r) => Inv'
         /\ NothingToDispatch(r) => Inv'
         /\ AdapterAccepts(r) => Inv'
         /\ AdapterRejects(r) => Inv'
         /\ AdapterRaises(r) => Inv'
<1> DEFINE T == TypesIn(trace[r])
           S == StatesIn(trace[r])
<1>1. /\ attempts \in [Requests -> 0..MaxAttempts] /\ submitted \in {submitted, submitted \cup {r}}
      /\ r \in batched => "request_added_to_batch" \in T
      /\ pc[r] = "submitting" => "batch_submitted" \in T
  BY DEF Inv, TypedPath, RequestInv, PathTold
<1>2. ASSUME HandOver(r) PROVE Inv'
  <2> DEFINE evs == RoutingEvent(r, "backend_selected") \o <<AdapterEvent("batch_submitted")>>
  <2>1. /\ pc[r] = "dispatching" /\ "request_added_to_batch" \in T
        /\ DispatchStep(r, evs, "submitting", <<"handed">>) /\ submitted' = submitted
    BY <1>1, <1>2 DEF HandOver, Pending
  <2>2. Says(T, S, evs, 0, "none") /\ \E i \in 1..Len(evs) : evs[i].type = "batch_submitted"
    BY <2>1, HandOverSays
  <2>3. attempts' \in [Requests -> 0..MaxAttempts]
    <3>1. attempts[r] < MaxAttempts /\ attempts' = [attempts EXCEPT ![r] = attempts[r] + 1]
      BY <1>2 DEF HandOver
    <3>2. attempts[r] \in 0..MaxAttempts /\ MaxAttempts \in Nat
      BY <1>1, BoundsAssumption
    <3>3. attempts[r] + 1 \in 0..MaxAttempts
      BY <3>1, <3>2
    <3> QED BY <1>1, <3>1, <3>3
  <2> HIDE DEF evs
  <2> QED BY <1>1, <2>1, <2>2, <2>3, DispatchKeeps
<1>3. ASSUME RouteFails(r) PROVE Inv'
  <2>1. Says(T, S, RoutingEvent(r, "routing_failed"), 0, "none")
    BY RoutingEventSays
  <2> QED BY <1>1, <1>3, <2>1, DispatchKeeps DEF RouteFails
<1>4. ASSUME NothingToDispatch(r) PROVE Inv'
  BY <1>1, <1>4, SaysNothing, DispatchKeeps DEF NothingToDispatch
<1>5. ASSUME AdapterAccepts(r) PROVE Inv'
  <2> DEFINE evs == <<AdapterEvent("batch_accepted")>>
  <2>1. /\ pc[r] = "submitting" /\ DispatchStep(r, evs, "accepted", <<"accepted">>)
        /\ submitted' = submitted \cup {r} /\ attempts' = attempts
    BY <1>5 DEF AdapterAccepts
  <2>2. Says(T, S, evs, 0, "none")
    BY <1>1, <2>1, AdapterSays
  <2>3. \E i \in 1..Len(evs) : evs[i].type = "batch_accepted"
    <3>1. Len(evs) = 1 /\ evs[1].type = "batch_accepted" /\ 1 \in 1..1
      BY DEF AdapterEvent, Event
    <3> QED BY <3>1
  <2> HIDE DEF evs
  <2> QED BY <1>1, <2>1, <2>2, <2>3, DispatchKeeps
<1>6. ASSUME AdapterRejects(r) PROVE Inv'
  <2> DEFINE e == AdapterEvent("batch_rejected")
             evs == <<e, FailureOf(e, "failed")>>
  <2>1. /\ pc[r] = "submitting" /\ DispatchStep(r, evs, "dispatching", <<"declined">>)
        /\ submitted' = submitted /\ attempts' = attempts
    BY <1>6 DEF AdapterRejects
  <2>2. /\ Says(T, S, evs, 0, "failed")
        /\ LastEndOf(evs, 2) /\ evs[2].type = "batch_rejected" /\ 2 \in 1..Len(evs)
    BY <1>1, <2>1, AdapterSays
  <2> HIDE DEF evs
  <2>3. EndsByRefusal(evs)
    BY <2>2 DEF EndsByRefusal
  <2> QED BY <1>1, <2>1, <2>2, <2>3, DispatchKeeps
<1>7. ASSUME AdapterRaises(r) PROVE Inv'
  <2>1. /\ Says(T, S, RoutingEvent(r, "routing_failed"), 0, "none")
        /\ Says(T, S, RoutingEvent(r, "backend_selected"), 0, "none")
    BY RoutingEventSays
  <2>2. /\ pc[r] = "submitting" /\ submitted' = submitted /\ attempts' = attempts
        /\ \/ DispatchStep(r, RoutingEvent(r, "backend_selected"), "dispatching", <<"raised">>)
           \/ DispatchStep(r, RoutingEvent(r, "routing_failed"), "refused", <<"raised">>)
    BY <1>7 DEF AdapterRaises
  <2> QED BY <1>1, <2>1, <2>2, DispatchKeeps
<1> QED BY <1>2, <1>3, <1>4, <1>5, <1>6, <1>7

-----------------------------------------------------------------------------
(***************************************************************************)
(* Steps of other requests that touch r.                                   *)
(***************************************************************************)
LEMMA ForeignTellingKeeps ==
  ASSUME Inv, NEW r \in Requests, NEW evs, NEW x,
         Says(TypesIn(trace[r]), StatesIn(trace[r]), evs, 0, x), Told(r, evs),
         UNCHANGED <<streams, state, pc, queue, batched, own, attempts, cycle, record, settled>>,
         foreign' \in {foreign \cup {r}, foreign \ {r}},
         submitted' \in {submitted, submitted \cup {r}},
         disturbed' \in {disturbed, disturbed \cup {r}},
         r \in foreign' => \/ r \in disturbed'
                           \/ record[r] # NoRecord,
         r \in foreign' => \E i \in 1..Len(evs) : evs[i].type = "batch_submitted",
         \/ x = "none"
         \/ EndsByRefusal(evs) /\ (r \in disturbed \/ record[r] # NoRecord)
  PROVE  Inv'
<1>0. settled' = [settled EXCEPT ![r] = @ + 0]
  BY NothingSettled
<1>1. /\ TypesIn(trace[r]) \subseteq TypesIn(trace'[r])
      /\ StatesIn(trace[r]) \subseteq StatesIn(trace'[r])
      /\ \A i \in 1..Len(evs) : evs[i].type \in TypesIn(trace'[r])
      /\ x = "none" => /\ \A y : EndTold(trace[r], y) => EndTold(trace'[r], y)
                       /\ RefusalTold(trace[r]) => RefusalTold(trace'[r])
      /\ EndsByRefusal(evs) => RefusalTold(trace'[r])
  <2>1. Inv /\ Told(r, evs) /\ Says(TypesIn(trace[r]), StatesIn(trace[r]), evs, 0, x)
    OBVIOUS
  <2>2. /\ TypesIn(trace[r]) \subseteq TypesIn(trace'[r])
        /\ StatesIn(trace[r]) \subseteq StatesIn(trace'[r])
        /\ \A i \in 1..Len(evs) :
             evs[i].type \in TypesIn(trace'[r]) /\ evs[i].to \in StatesIn(trace'[r])
        /\ x = "none" => /\ \A y : EndTold(trace[r], y) => EndTold(trace'[r], y)
                         /\ RefusalTold(trace[r]) => RefusalTold(trace'[r])
        /\ (\E i \in 1..Len(evs) : LastEndOf(evs, i) /\ evs[i].type = "batch_rejected")
             => RefusalTold(trace'[r])
    BY ONLY <1>0, <2>1, r \in Requests, TellingEffect, 0 \in Nat
  <2> QED BY <2>2 DEF EndsByRefusal
<1>2. TypedPath /\ RequestInv(r)
  BY DEF Inv
<1>3. TypedPath'
  <2>1. foreign' \subseteq Requests /\ submitted' \subseteq Requests /\ disturbed' \subseteq Requests
    BY <1>2 DEF TypedPath
  <2> QED BY <1>2, <2>1 DEF TypedPath
<1>4. OnlyOf(r)
  BY DEF OnlyOf
<1>5. PathTold(r)'
  BY <1>1, <1>2 DEF RequestInv, PathTold
<1>6. StagesTold(r)'
  BY <1>1, <1>2 DEF RequestInv, StagesTold
<1>7. EndsAreForeign(r)'
  BY <1>2 DEF RequestInv, EndsAreForeign
<1>8. EndIsTold(r)'
  BY <1>1, <1>2 DEF RequestInv, EndIsTold
<1> QED BY <1>0, <1>3, <1>4, <1>5, <1>6, <1>7, <1>8, TellingStep, 0 \in Nat

LEMMA ForeignStepsKeep ==
  ASSUME Inv, NEW r \in Requests
  PROVE  /\ ForeignHandOver(r) => Inv'
         /\ ForeignAnswer(r) => Inv'
<1> DEFINE T == TypesIn(trace[r])
           S == StatesIn(trace[r])
<1>1. /\ r \in batched => "request_added_to_batch" \in T
      /\ r \in foreign => /\ "batch_submitted" \in T
                          /\ r \in disturbed \/ record[r] # NoRecord
  BY DEF Inv, RequestInv, PathTold, EndsAreForeign
<1>2. ASSUME ForeignHandOver(r) PROVE Inv'
  <2> DEFINE evs == RoutingEvent(r, "backend_selected") \o <<AdapterEvent("batch_submitted")>>
  <2>1. /\ r \in batched /\ Told(r, evs) /\ foreign' = foreign \cup {r}
        /\ disturbed' = IF record[r] = NoRecord THEN disturbed \cup {r} ELSE disturbed
        /\ UNCHANGED <<streams, state, pc, queue, batched, submitted, own, attempts, cycle,
                       record, settled>>
    BY <1>2 DEF ForeignHandOver, Pending, Disturbs
  <2>2. Says(T, S, evs, 0, "none") /\ \E i \in 1..Len(evs) : evs[i].type = "batch_submitted"
    BY <1>1, <2>1, HandOverSays
  <2> HIDE DEF evs
  <2> QED BY <2>1, <2>2, ForeignTellingKeeps
<1>3. ASSUME ForeignAnswer(r) PROVE Inv'
  <2> DEFINE a == <<AdapterEvent("batch_accepted")>>
             e == AdapterEvent("batch_rejected")
             b == <<e, FailureOf(e, "failed")>>
  <2>1. /\ r \in foreign /\ foreign' = foreign \ {r} /\ r \notin foreign'
        /\ submitted' \in {submitted, submitted \cup {r}}
        /\ Told(r, a) \/ Told(r, b)
        /\ UNCHANGED <<streams, state, pc, queue, batched, own, attempts, cycle, record,
                       settled, disturbed>>
    BY <1>3 DEF ForeignAnswer, historyVars
  <2>2. Says(T, S, a, 0, "none")
    BY <1>1, <2>1, AdapterSays
  <2>3. Says(T, S, b, 0, "failed") /\ EndsByRefusal(b)
    <3>1. "batch_submitted" \in T
      BY <1>1, <2>1
    <3>2. /\ Says(T, S, b, 0, "failed")
          /\ LastEndOf(b, 2) /\ b[2].type = "batch_rejected" /\ 2 \in 1..Len(b)
      BY <3>1, AdapterSays
    <3> HIDE DEF b
    <3> QED BY <3>2 DEF EndsByRefusal
  <2> HIDE DEF a, b
  <2>4. CASE Told(r, a)
    BY <2>1, <2>2, <2>4, ForeignTellingKeeps
  <2>5. CASE Told(r, b)
    BY <1>1, <2>1, <2>3, <2>5, ForeignTellingKeeps
  <2> QED BY <2>1, <2>4, <2>5
<1> QED BY <1>2, <1>3

LEMMA TimeoutKeeps ==
  ASSUME Inv, NEW r \in Requests, Timeout(r)
  PROVE  Inv'
<1> DEFINE e == QueueEvent("queue_timeout")
           evs == <<e, FailureOf(e, "timed_out")>>
<1>1. /\ r \in queue /\ pc[r] \notin {"visible", "enqueued"} /\ Told(r, evs)
      /\ queue' = queue \ {r} /\ state' = [state EXCEPT ![r] = "timed_out"]
      /\ settled' = [settled EXCEPT ![r] = @ + 1]
      /\ disturbed' = IF record[r] = NoRecord THEN disturbed \cup {r} ELSE disturbed
      /\ UNCHANGED <<streams, pc, batched, submitted, own, attempts, foreign, cycle, record>>
  BY DEF Timeout, LoopFree, Becomes, Settles, Disturbs
<1>2. TypedPath /\ RequestInv(r)
  BY DEF Inv
<1>3. "request_enqueued" \in TypesIn(trace[r])
  BY <1>1, <1>2 DEF RequestInv, PathTold
<1>4. Says(TypesIn(trace[r]), StatesIn(trace[r]), evs, 1, "timed_out")
  BY <1>3, QueueSays
<1> HIDE DEF evs
<1>5. /\ TypesIn(trace[r]) \subseteq TypesIn(trace'[r])
      /\ StatesIn(trace[r]) \subseteq StatesIn(trace'[r])
      /\ EndTold(trace'[r], "timed_out")
  BY <1>1, <1>4, TellingEffect, 1 \in Nat
<1>6. state'[r] = "timed_out" /\ "timed_out" \in RequestState
  BY <1>1, <1>2, LifecycleTypes DEF TypedPath
<1>7. TypedPath'
  <2>1. /\ state' \in [Requests -> RequestState \cup {"none"}]
        /\ queue' \subseteq Requests /\ disturbed' \subseteq Requests
    BY <1>1, <1>2, <1>6 DEF TypedPath
  <2> QED BY <1>1, <1>2, <2>1 DEF TypedPath
<1>8. OnlyOf(r)
  BY <1>1, <1>2 DEF TypedPath, OnlyOf
<1>9. PathTold(r)'
  BY <1>1, <1>2, <1>5 DEF RequestInv, PathTold
<1>10. StagesTold(r)'
  BY <1>1, <1>2, <1>5 DEF RequestInv, StagesTold
<1>11. EndsAreForeign(r)'
  BY <1>1, <1>2 DEF RequestInv, EndsAreForeign
<1>12. EndIsTold(r)'
  BY <1>5, <1>6 DEF EndIsTold
<1> QED BY <1>1, <1>4, <1>7, <1>8, <1>9, <1>10, <1>11, <1>12, TellingStep, 1 \in Nat

-----------------------------------------------------------------------------
(***************************************************************************)
(* The scheduling cycle.                                                   *)
(***************************************************************************)

\* A step that tells nothing.
LEMMA SilentStep ==
  ASSUME Inv, NEW r \in Requests, UNCHANGED <<trace, stamps, counted, settled>>,
         TypedPath', OnlyOf(r), CycleInv',
         PathTold(r)', StagesTold(r)', EndsAreForeign(r)', EndIsTold(r)'
  PROVE  Inv'
<1>1. TypedTelling' /\ TellsOnlyOf(r)
  BY DEF Inv, TypedTelling, TellsOnlyOf
<1>2. TraceInv(trace[r], stamps[r])' /\ counted'[r] = settled'[r]
  BY DEF Inv, RequestInv
<1>3. RequestInv(r)'
  BY <1>2 DEF RequestInv
<1>4. \A q \in Requests : RequestInv(q)'
  BY <1>1, <1>3, OthersKeep DEF Inv
<1> QED BY <1>1, <1>4 DEF Inv

LEMMA CyclesTyped ==
  /\ NoEvent \in StampedEvents /\ NoEvent.at = 0 /\ NoCycle \in Cycles
  /\ \A r \in Requests, v \in Verdict, b \in BOOLEAN :
       [NoCycle EXCEPT !.of = r, !.mine = b, !.verdict = v, !.todo = EventsOf(v)] \in Cycles
  /\ \A v \in Verdict : EventsOf(v) = <<>> => v = "absent"
<1>1. NoEvent \in StampedEvents /\ NoEvent.at = 0
  <2>1. "none" \in Components /\ "none" \in EventTypes
    BY LifecycleTypes DEF Components
  <2> QED BY <2>1 DEF NoEvent, Event, StampedEvents, Events
<1>2. "absent" \in Verdict
  BY DEF Verdict
<1> HIDE DEF NoEvent
<1>3. NoCycle \in Cycles
  BY <1>1, <1>2 DEF NoCycle, Cycles
<1>4. \A v \in Verdict :
        /\ EventsOf(v) \in {<<>>, <<"request_skipped">>, <<"request_selected">>,
                            <<"batch_admission", "request_selected">>,
                            <<"request_added_to_batch", "request_selected">>}
        /\ EventsOf(v) = <<>> => v = "absent"
  BY DEF Verdict, EventsOf
<1>5. ASSUME NEW r \in Requests, NEW v \in Verdict, NEW b \in BOOLEAN
      PROVE  [NoCycle EXCEPT !.of = r, !.mine = b, !.verdict = v, !.todo = EventsOf(v)] \in Cycles
  BY <1>3, <1>4 DEF Cycles
<1> QED BY <1>1, <1>3, <1>4, <1>5

LEMMA CycleStartsWell ==
  ASSUME Inv, NEW r \in Requests, NEW mine \in BOOLEAN, CycleStarts(r, mine)
  PROVE  /\ cycle' \in Cycles /\ cycle'.of = r /\ cycle'.mine = mine
         /\ cycle'.stamped = NoEvent /\ cycle'.todo = EventsOf(cycle'.verdict)
         /\ cycle'.todo # <<>> => "request_admitted" \in TypesIn(trace[r])
<1>1. PICK v \in Verdicts(r) :
        cycle' = [NoCycle EXCEPT !.of = r, !.mine = mine, !.verdict = v, !.todo = EventsOf(v)]
  BY DEF CycleStarts
<1>2. v \in Verdict /\ (v # "absent" => r \in queue)
  BY DEF Verdicts, Verdict
<1>3. cycle' \in Cycles /\ (EventsOf(v) # <<>> => v # "absent")
  BY <1>1, <1>2, CyclesTyped DEF EventsOf
<1>4. /\ cycle'.of = r /\ cycle'.mine = mine /\ cycle'.verdict = v
      /\ cycle'.todo = EventsOf(v) /\ cycle'.stamped = NoEvent
  BY <1>1 DEF NoCycle
<1>5. r \in queue => "request_admitted" \in TypesIn(trace[r])
  BY DEF Inv, RequestInv, PathTold
<1> QED BY <1>2, <1>3, <1>4, <1>5

LEMMA OwnCycleKeeps ==
  ASSUME Inv, NEW r \in Requests, OwnCycle(r)
  PROVE  Inv'
<1>1. /\ pc[r] = "waiting" /\ pc' = [pc EXCEPT ![r] = "cycling"]
      /\ CycleStarts(r, TRUE)
      /\ UNCHANGED <<streams, state, queue, batched, submitted, own, attempts, foreign, record,
                     disturbed, trace, stamps, counted, settled>>
  BY DEF OwnCycle, Goto, tellVars, historyVars
<1>2. /\ cycle' \in Cycles /\ cycle'.of = r /\ cycle'.mine = TRUE
      /\ cycle'.stamped = NoEvent /\ cycle'.todo = EventsOf(cycle'.verdict)
      /\ cycle'.todo # <<>> => "request_admitted" \in TypesIn(trace[r])
  BY <1>1, CycleStartsWell
<1>3. TypedPath /\ RequestInv(r) /\ pc'[r] = "cycling"
  BY <1>1 DEF Inv, TypedPath
<1>4. TypedPath'
  BY <1>1, <1>2, <1>3 DEF TypedPath, PathLabels
<1>5. OnlyOf(r)
  BY <1>1, <1>3 DEF TypedPath, OnlyOf
<1>6. CycleInv'
  BY <1>1, <1>2, <1>3 DEF CycleInv
<1>7. PathTold(r)' /\ StagesTold(r)' /\ EndsAreForeign(r)' /\ EndIsTold(r)'
  BY <1>1, <1>3 DEF RequestInv, PathTold, StagesTold, EndsAreForeign, EndIsTold
<1> QED BY <1>1, <1>4, <1>5, <1>6, <1>7, SilentStep

LEMMA ForeignCycleKeeps ==
  ASSUME Inv, NEW r \in Requests, ForeignCycle(r)
  PROVE  Inv'
<1>1. /\ CycleStarts(r, FALSE)
      /\ disturbed' \in {disturbed, disturbed \cup {r}}
      /\ UNCHANGED <<streams, state, pc, queue, batched, submitted, own, attempts, foreign, record,
                     trace, stamps, counted, settled>>
  BY DEF ForeignCycle, Disturbs, pathVars, tellVars
<1>2. /\ cycle' \in Cycles /\ cycle'.of = r /\ cycle'.mine = FALSE
      /\ cycle'.stamped = NoEvent /\ cycle'.todo = EventsOf(cycle'.verdict)
      /\ cycle'.todo # <<>> => "request_admitted" \in TypesIn(trace[r])
  BY <1>1, CycleStartsWell
<1>3. TypedPath /\ RequestInv(r)
  BY DEF Inv
<1>4. TypedPath'
  BY <1>1, <1>2, <1>3 DEF TypedPath
<1>5. OnlyOf(r)
  BY <1>1 DEF OnlyOf
<1>6. CycleInv'
  BY <1>1, <1>2 DEF CycleInv
<1>7. PathTold(r)' /\ StagesTold(r)' /\ EndsAreForeign(r)' /\ EndIsTold(r)'
  BY <1>1, <1>3 DEF RequestInv, PathTold, StagesTold, EndsAreForeign, EndIsTold
<1> QED BY <1>1, <1>4, <1>5, <1>6, <1>7, SilentStep

LEMMA StreamAbandonedKeeps ==
  ASSUME Inv, NEW r \in Requests, StreamAbandoned(r)
  PROVE  Inv'
<1>1. /\ pc[r] \in {"executing", "closing"} /\ pc' = [pc EXCEPT ![r] = "done"]
      /\ UNCHANGED <<streams, state, queue, batched, submitted, own, attempts, foreign, record,
                     cycle, disturbed, trace, stamps, counted, settled>>
  BY DEF StreamAbandoned, Goto, Free, tellVars
<1>2. TypedPath /\ TypedTelling /\ CycleInv /\ RequestInv(r) /\ pc'[r] = "done"
  BY <1>1 DEF Inv, TypedPath
<1>3. TypedPath'
  BY <1>1, <1>2 DEF TypedPath, PathLabels
<1>4. OnlyOf(r)
  BY <1>1, <1>2 DEF TypedPath, OnlyOf
<1>5. CycleInv'
  <2>1. \A q \in Requests : pc[q] = "cycling" => pc'[q] = "cycling"
    BY <1>1, <1>2 DEF TypedPath
  <2> QED BY <1>1, <1>2, <2>1 DEF CycleInv
<1>6. PathTold(r)' /\ StagesTold(r)' /\ EndsAreForeign(r)' /\ EndIsTold(r)'
  BY <1>1, <1>2 DEF RequestInv, PathTold, StagesTold, EndsAreForeign, EndIsTold
<1> QED BY <1>1, <1>3, <1>4, <1>5, <1>6, SilentStep

LEMMA CycleRaisesKeeps ==
  ASSUME Inv, CycleRaises
  PROVE  Inv'
<1>1. /\ cycle.todo = <<"request_selected">> /\ cycle.stamped = NoEvent
      /\ cycle' = [cycle EXCEPT !.lost = TRUE, !.todo = <<>>]
      /\ UNCHANGED <<pathVars, tellVars, historyVars>>
  BY DEF CycleRaises
<1>2. cycle \in Cycles /\ CycleInv
  BY DEF Inv, TypedPath
<1>3. cycle' \in Cycles /\ cycle'.todo = <<>> /\ cycle'.stamped = NoEvent
      /\ cycle'.of = cycle.of /\ cycle'.mine = cycle.mine /\ cycle'.verdict = cycle.verdict
  BY <1>1, <1>2 DEF Cycles
<1>4. <<"request_selected">> # EventsOf("placed")
  <2>1. EventsOf("placed")[1] = "request_added_to_batch"
    BY DEF EventsOf
  <2> QED BY <2>1
<1>5. TypedPath'
  BY <1>1, <1>3 DEF Inv, TypedPath, pathVars, tellVars, historyVars
<1>6. CycleInv'
  BY <1>1, <1>2, <1>3, <1>4 DEF CycleInv, pathVars, tellVars
<1>7. TypedTelling' /\ \A q \in Requests : RequestInv(q)'
  BY <1>1 DEF Inv, TypedTelling, RequestInv, PathTold, StagesTold, EndsAreForeign, EndIsTold,
              pathVars, tellVars, historyVars
<1> QED BY <1>5, <1>6, <1>7 DEF Inv

LEMMA CycleEndsKeeps ==
  ASSUME Inv, CycleEnds
  PROVE  Inv'
<1>1. /\ cycle.todo = <<>> /\ cycle' = NoCycle
      /\ UNCHANGED <<streams, state, queue, batched, submitted, attempts, foreign, record,
                     disturbed, trace, stamps, counted, settled>>
  BY DEF CycleEnds, tellVars
<1>2. TypedPath /\ CycleInv /\ cycle \in Cycles
  BY DEF Inv, TypedPath
<1>3. CycleInv' /\ cycle' \in Cycles
  <2>1. /\ cycle'.todo = <<>> /\ cycle'.stamped = NoEvent
        /\ cycle'.verdict = "absent" /\ cycle'.mine = FALSE
    BY <1>1 DEF NoCycle
  <2>2. cycle' \in Cycles
    BY <1>1, CyclesTyped
  <2> QED BY <2>1, <2>2 DEF CycleInv
<1>4. CASE ~cycle.mine
  <2>1. UNCHANGED <<own, pc>>
    BY <1>4 DEF CycleEnds
  <2>2. TypedPath'
    BY <1>1, <1>2, <1>3, <2>1 DEF TypedPath
  <2>3. TypedTelling' /\ \A q \in Requests : RequestInv(q)'
    BY <1>1, <2>1 DEF Inv, TypedTelling, RequestInv, PathTold, StagesTold, EndsAreForeign,
                      EndIsTold
  <2> QED BY <1>3, <2>2, <2>3 DEF Inv
<1>5. CASE cycle.mine
  <2>0. PICK r \in Requests, v \in Verdict :
          r = cycle.of /\ v = IF cycle.lost THEN "absent" ELSE cycle.verdict
    BY <1>2, <1>5 DEF CycleInv, Cycles, Verdict
  <2>1. pc[r] = "cycling"
    BY <1>2, <1>5, <2>0 DEF CycleInv
  <2>2. v = "placed" => r \in batched
    <3>1. <<>> # EventsOf("placed")
      BY DEF EventsOf
    <3> QED BY <1>1, <1>2, <2>0, <3>1 DEF CycleInv
  <2>3. own' = [own EXCEPT ![r] = v] /\ pc' = [pc EXCEPT ![r] = "dispatching"]
    BY <1>5, <2>0 DEF CycleEnds, Goto
  <2>4. own'[r] = v /\ pc'[r] = "dispatching" /\ RequestInv(r)
    BY <1>2, <2>1, <2>3 DEF TypedPath, Inv
  <2>5. TypedPath'
    BY <1>1, <1>2, <1>3, <2>1, <2>3 DEF TypedPath, PathLabels
  <2>6. OnlyOf(r)
    BY <1>1, <1>2, <2>3 DEF TypedPath, OnlyOf
  <2>7. PathTold(r)' /\ StagesTold(r)' /\ EndsAreForeign(r)' /\ EndIsTold(r)'
    BY <1>1, <2>1, <2>2, <2>4 DEF RequestInv, PathTold, StagesTold, EndsAreForeign, EndIsTold
  <2> QED BY <1>1, <1>3, <2>1, <2>5, <2>6, <2>7, SilentStep
<1> QED BY <1>4, <1>5

\* The cycle's thread takes the time of an event.
LEMMA CycleStampsKeeps ==
  ASSUME Inv, CycleStamps
  PROVE  Inv'
<1> DEFINE r == cycle.of
           e == SchedulerEvent(Head(cycle.todo))
<1>1. /\ cycle.todo # <<>>
      /\ cycle' = [cycle EXCEPT !.stamped = [e |-> e, at |-> stamps[r] + 1]]
      /\ stamps' = [stamps EXCEPT ![r] = @ + 1]
      /\ UNCHANGED <<pathVars, trace, counted, record, historyVars>>
  BY DEF CycleStamps
<1>2. TypedPath /\ TypedTelling /\ CycleInv /\ cycle \in Cycles
  BY DEF Inv, TypedPath
<1>3. r \in Requests /\ "request_admitted" \in TypesIn(trace[r])
  BY <1>1, <1>2 DEF CycleInv
<1>4. e \in Events
  <2>1. cycle.todo \in {<<"request_skipped">>, <<"request_selected">>,
                        <<"batch_admission", "request_selected">>,
                        <<"request_added_to_batch", "request_selected">>}
    BY <1>1, <1>2 DEF Cycles
  <2>2. Head(cycle.todo) \in {"request_skipped", "request_selected", "batch_admission",
                              "request_added_to_batch"}
    BY <2>1
  <2>3. {"request_skipped", "request_selected", "batch_admission",
         "request_added_to_batch"} \subseteq EventTypes
    BY DEF EventTypes, SCHEDULER_EVENT_TYPES, BATCH_EVENT_TYPES
  <2>4. "scheduler" \in Components
    BY DEF Components
  <2> QED BY <2>2, <2>3, <2>4 DEF SchedulerEvent, Event, Events
<1> HIDE DEF r, e
<1>5. stamps[r] \in Nat /\ trace[r] \in Seq(StampedEvents)
  BY <1>2, <1>3 DEF TypedTelling
<1>6. [e |-> e, at |-> stamps[r] + 1] \in StampedEvents
  BY <1>4, <1>5 DEF StampedEvents
<1>7. /\ cycle' \in Cycles /\ cycle'.of = r /\ cycle'.todo = cycle.todo
      /\ cycle'.verdict = cycle.verdict /\ cycle'.mine = cycle.mine
      /\ cycle'.stamped.e = e /\ cycle'.stamped.at = stamps[r] + 1
  BY <1>1, <1>2, <1>6 DEF Cycles, r
<1>8. stamps'[r] = stamps[r] + 1 /\ \A q \in Requests \ {r} : stamps'[q] = stamps[q]
  BY <1>1, <1>2, <1>3 DEF TypedTelling
<1>9. \A q \in Requests : TimesPast(trace[q], stamps[q]) => TimesPast(trace[q], stamps'[q])
  <2> SUFFICES ASSUME NEW q \in Requests, NEW i \in 1..Len(trace[q]),
                      trace[q][i].at \in 1..stamps[q]
               PROVE  trace[q][i].at \in 1..stamps'[q]
    BY DEF TimesPast
  <2>1. CASE q = r
    BY <1>5, <1>8, <2>1
  <2>2. CASE q # r
    BY <1>8, <2>2
  <2> QED BY <2>1, <2>2
<1>10. TypedPath'
  BY <1>1, <1>2, <1>7 DEF TypedPath, pathVars, historyVars
<1>11. TypedTelling'
  <2>1. stamps' \in [Requests -> Nat]
    <3>1. stamps[r] + 1 \in Nat
      BY <1>5
    <3> QED BY <1>1, <1>2, <3>1 DEF TypedTelling
  <2> QED BY <1>1, <1>2, <2>1 DEF TypedTelling, historyVars
<1>12. ASSUME NEW q \in Requests PROVE RequestInv(q)'
  <2>1. RequestInv(q)
    BY DEF Inv
  <2>2. TraceInv(trace[q], stamps[q])'
    BY <1>1, <1>9, <2>1 DEF RequestInv, TraceInv
  <2> QED BY <1>1, <2>1, <2>2 DEF RequestInv, PathTold, StagesTold, EndsAreForeign, EndIsTold,
                                  pathVars, historyVars
<1>13. CycleInv'
  <2>1. \E j \in 1..Len(trace[r]) :
          /\ trace[r][j].e.type = "request_admitted" /\ trace[r][j].at < stamps[r] + 1
    <3>1. PICK j \in 1..Len(trace[r]) : trace[r][j].e.type = "request_admitted"
      BY <1>3 DEF TypesIn
    <3>2. trace[r][j].at \in 1..stamps[r]
      BY <1>3 DEF Inv, RequestInv, TraceInv, TimesPast
    <3> QED BY <1>5, <3>1, <3>2
  <2>2. stamps[r] + 1 \in 1..stamps'[r]
    BY <1>5, <1>8
  <2>3. trace' = trace /\ batched' = batched /\ pc' = pc
    BY <1>1 DEF pathVars
  <2>4. cycle'.stamped # NoEvent =>
          /\ cycle'.todo # <<>>
          /\ cycle'.stamped.e = SchedulerEvent(Head(cycle'.todo))
          /\ cycle'.stamped.at \in 1..stamps'[cycle'.of]
          /\ \E j \in 1..Len(trace'[cycle'.of]) :
               /\ trace'[cycle'.of][j].e.type = "request_admitted"
               /\ trace'[cycle'.of][j].at < cycle'.stamped.at
    BY <1>1, <1>7, <2>1, <2>2, <2>3 DEF e
  <2> QED BY <1>2, <1>3, <1>7, <2>3, <2>4 DEF CycleInv, r
<1> QED BY <1>10, <1>11, <1>12, <1>13 DEF Inv

\* What an event of the scheduler may be appended to.
LEMMA SchedulerAppends ==
  ASSUME NEW t \in Seq(StampedEvents), NEW s \in Nat, TraceInv(t, s),
         NEW ev \in StampedEvents, ev.at \in 1..s, ~ev.e.failure, ev.e.to = "none",
         ev.e.type \in {"request_skipped", "request_selected", "batch_admission",
                        "request_added_to_batch"},
         \E j \in 1..Len(t) : t[j].e.type = "request_admitted" /\ t[j].at < ev.at
  PROVE  LET u == Append(t, ev)
         IN /\ TraceInv(u, s)
            /\ u \in Seq(StampedEvents) /\ Len(u) = Len(t) + 1
            /\ \A i \in 1..Len(t) : u[i] = t[i]
            /\ u[Len(t) + 1] = ev
            /\ \A i \in 1..Len(t) : IsLastEnd(t, i) => IsLastEnd(u, i)
<1> DEFINE u == Append(t, ev)
           n == Len(t)
<1>1. n \in Nat /\ \A i \in 1..n : t[i].at \in Nat
  BY TraceTyped
<1>2. /\ u \in Seq(StampedEvents) /\ Len(u) = n + 1
      /\ \A i \in 1..n : u[i] = t[i]
      /\ u[n + 1] = ev
  BY AppendProperties
<1> HIDE DEF u, n
<1>3. \A i \in 1..Len(u) : i \in 1..n \/ i = n + 1
  BY <1>1, <1>2
<1>4. 1..n \subseteq 1..Len(u) /\ n + 1 \in 1..Len(u)
  BY <1>1, <1>2
<1>5. /\ Causes(ev.e.type) = {"request_admitted"}
      /\ ev.e.type \notin EndTypes /\ ev.e.to \notin EndStates
  BY DEF Causes, EndTypes, EndStates
<1>6. TimesPast(u, s)
  BY <1>2, <1>3 DEF TraceInv, TimesPast, n
<1>7. CausesTold(u)
  <2> SUFFICES ASSUME NEW i \in 1..Len(u), NEW c \in Causes(u[i].e.type)
               PROVE  \E j \in 1..Len(u) : u[j].e.type = c /\ u[j].at < u[i].at
    BY DEF CausesTold
  <2>1. CASE i \in 1..n
    <3>1. PICK j \in 1..n : t[j].e.type = c /\ t[j].at < t[i].at
      BY <1>2, <2>1 DEF TraceInv, CausesTold, n
    <3> QED BY <1>2, <1>4, <2>1, <3>1
  <2>2. CASE i = n + 1
    <3>1. PICK j \in 1..n : t[j].e.type = "request_admitted" /\ t[j].at < ev.at
      BY DEF n
    <3> QED BY <1>2, <1>4, <1>5, <2>2, <3>1
  <2> QED BY <1>3, <2>1, <2>2
<1>8. FailuresFollow(u)
  <2> SUFFICES ASSUME NEW i \in 1..Len(u), u[i].e.failure
               PROVE  i > 1 /\ u[i - 1].at = u[i].at /\ u[i - 1].e.type = u[i].e.type
    BY DEF FailuresFollow
  <2>1. i \in 1..n
    BY <1>2, <1>3
  <2>2. i > 1 /\ t[i - 1].at = t[i].at /\ t[i - 1].e.type = t[i].e.type
    BY <1>2, <2>1 DEF TraceInv, FailuresFollow, n
  <2>3. i - 1 \in 1..n
    BY <1>1, <2>1, <2>2
  <2> QED BY <1>2, <2>1, <2>2, <2>3
<1>9. StagesInTurn(u)
  <2> SUFFICES ASSUME NEW i \in 1..Len(u), NEW j \in 2..Len(Stages), u[i].e.to = Stages[j]
               PROVE  \E k \in 1..(i - 1) : u[k].e.to = Stages[j - 1]
    BY DEF StagesInTurn
  <2>1. i \in 1..n
    <3>1. InTurn({}, ev.e.to)
      BY StageOrder
    <3>2. ev.e.to # Stages[j]
      BY <3>1 DEF InTurn
    <3> QED BY <1>2, <1>3, <3>2
  <2>2. PICK k \in 1..(i - 1) : t[k].e.to = Stages[j - 1]
    BY <1>2, <2>1 DEF TraceInv, StagesInTurn, n
  <2>3. k \in 1..n
    BY <1>1, <2>1, <2>2
  <2> QED BY <1>2, <2>2, <2>3
<1>10. StatesAreLatest(u)
  <2> SUFFICES ASSUME NEW i \in 1..Len(u), NEW k \in 1..Len(u), k < i, u[i].e.to # "none"
               PROVE  u[k].at <= u[i].at
    BY DEF StatesAreLatest
  <2>1. i \in 1..n
    BY <1>2, <1>3
  <2>2. k \in 1..n
    BY <1>1, <1>3, <2>1
  <2> QED BY <1>2, <2>1, <2>2 DEF TraceInv, StatesAreLatest, n
<1>11. EndsAreStated(u)
  <2> SUFFICES ASSUME NEW i \in 1..Len(u)
               PROVE  /\ u[i].e.type \in EndTypes =>
                           \E j \in 1..Len(u) : i <= j /\ u[j].e.to \in EndStates
                      /\ u[i].e.to \in EndStates => u[i].e.type \in EndTypes
    BY DEF EndsAreStated
  <2>1. CASE i = n + 1
    BY <1>2, <1>5, <2>1
  <2>2. CASE i \in 1..n
    <3>1. /\ t[i].e.type \in EndTypes => \E j \in 1..n : i <= j /\ t[j].e.to \in EndStates
          /\ t[i].e.to \in EndStates => t[i].e.type \in EndTypes
      BY <2>2 DEF TraceInv, EndsAreStated, n
    <3> QED BY <1>2, <1>4, <2>2, <3>1
  <2> QED BY <1>3, <2>1, <2>2
<1>12. ASSUME NEW i \in 1..n, IsLastEnd(t, i) PROVE IsLastEnd(u, i)
  <2>1. ASSUME NEW j \in 1..Len(u), u[j].e.to \in EndStates PROVE j <= i
    <3>1. j \in 1..n
      BY <1>2, <1>3, <1>5, <2>1
    <3> QED BY <1>2, <1>12, <2>1, <3>1 DEF IsLastEnd, n
  <2> QED BY <1>2, <1>12, <2>1 DEF IsLastEnd
<1>13. TraceInv(u, s)
  BY <1>6, <1>7, <1>8, <1>9, <1>10, <1>11 DEF TraceInv
<1> QED BY <1>2, <1>12, <1>13 DEF u, n

\* The cycle's thread appends the event whose time it has taken.
LEMMA CycleAppendsKeeps ==
  ASSUME Inv, CycleAppends
  PROVE  Inv'
<1>1. /\ cycle.stamped # NoEvent
      /\ cycle' = [cycle EXCEPT !.todo = Tail(@), !.stamped = NoEvent]
      /\ trace' = [trace EXCEPT ![cycle.of] = Append(@, cycle.stamped)]
      /\ batched' = IF cycle.stamped.e.type = "request_added_to_batch"
                    THEN batched \cup {cycle.of} ELSE batched
      /\ UNCHANGED <<streams, state, pc, queue, submitted, own, attempts, foreign,
                     stamps, counted, record, settled, disturbed>>
  BY DEF CycleAppends, historyVars
<1>2. TypedPath /\ TypedTelling /\ CycleInv /\ cycle \in Cycles
  BY DEF Inv, TypedPath
<1>3. /\ cycle.of \in Requests /\ cycle.todo # <<>>
      /\ cycle.stamped.e = SchedulerEvent(Head(cycle.todo))
      /\ cycle.stamped.at \in 1..stamps[cycle.of]
      /\ "request_admitted" \in TypesIn(trace[cycle.of])
      /\ \E j \in 1..Len(trace[cycle.of]) : /\ trace[cycle.of][j].e.type = "request_admitted"
                                            /\ trace[cycle.of][j].at < cycle.stamped.at
  BY <1>1, <1>2 DEF CycleInv
<1>4. PICK r \in Requests, ev \in StampedEvents : r = cycle.of /\ ev = cycle.stamped
  BY <1>2, <1>3 DEF Cycles
<1>5. PICK t : t = trace[r]
  OBVIOUS
<1>6. t \in Seq(StampedEvents) /\ stamps[r] \in Nat /\ TraceInv(t, stamps[r]) /\ RequestInv(r)
  BY <1>2, <1>5 DEF TypedTelling, Inv, RequestInv
<1>7. /\ cycle.todo \in {<<"request_skipped">>, <<"request_selected">>,
                         <<"batch_admission", "request_selected">>,
                         <<"request_added_to_batch", "request_selected">>}
      /\ Head(cycle.todo) \in {"request_skipped", "request_selected", "batch_admission",
                               "request_added_to_batch"}
  <2>1. cycle.todo \in {<<"request_skipped">>, <<"request_selected">>,
                        <<"batch_admission", "request_selected">>,
                        <<"request_added_to_batch", "request_selected">>}
    BY <1>2, <1>3 DEF Cycles
  <2> QED BY <2>1
<1>8. ev.e.type = Head(cycle.todo) /\ ev.e.to = "none" /\ ~ev.e.failure
  BY <1>3, <1>4 DEF SchedulerEvent, Event
<1>9. PICK u : /\ u = Append(t, ev)
               /\ TraceInv(u, stamps[r])
               /\ u \in Seq(StampedEvents) /\ Len(u) = Len(t) + 1
               /\ \A i \in 1..Len(t) : u[i] = t[i]
               /\ u[Len(t) + 1] = ev
               /\ \A i \in 1..Len(t) : IsLastEnd(t, i) => IsLastEnd(u, i)
  <2>1. /\ ev.at \in 1..stamps[r]
        /\ \E j \in 1..Len(t) : t[j].e.type = "request_admitted" /\ t[j].at < ev.at
        /\ ev.e.type \in {"request_skipped", "request_selected", "batch_admission",
                          "request_added_to_batch"}
    BY <1>3, <1>4, <1>5, <1>7, <1>8
  <2> DEFINE u == Append(t, ev)
  <2>2. /\ TraceInv(u, stamps[r])
        /\ u \in Seq(StampedEvents) /\ Len(u) = Len(t) + 1
        /\ \A i \in 1..Len(t) : u[i] = t[i]
        /\ u[Len(t) + 1] = ev
        /\ \A i \in 1..Len(t) : IsLastEnd(t, i) => IsLastEnd(u, i)
    BY ONLY <1>6, <1>8, <2>1, SchedulerAppends
  <2> QED BY <2>2
<1>10. trace'[r] = u /\ \A q \in Requests \ {r} : trace'[q] = trace[q]
  BY <1>1, <1>2, <1>4, <1>5, <1>9 DEF TypedTelling
<1>11. Len(t) \in Nat /\ (\A i \in 1..Len(t) : i \in 1..Len(u)) /\ Len(t) + 1 \in 1..Len(u)
  BY <1>6, <1>9, TraceTyped
<1>12. /\ TypesIn(t) \subseteq TypesIn(u) /\ StatesIn(t) \subseteq StatesIn(u)
       /\ ev.e.type \in TypesIn(u)
       /\ \A y : EndTold(t, y) => EndTold(u, y)
       /\ RefusalTold(t) => RefusalTold(u)
  BY <1>9, <1>11 DEF TypesIn, StatesIn, EndTold, RefusalTold
<1>13. batched' = IF ev.e.type = "request_added_to_batch" THEN batched \cup {r} ELSE batched
  BY <1>1, <1>4
<1>14. /\ cycle' \in Cycles /\ cycle'.of = r /\ cycle'.stamped = NoEvent
       /\ cycle'.todo = Tail(cycle.todo)
       /\ cycle'.verdict = cycle.verdict /\ cycle'.mine = cycle.mine
  <2>1. Tail(cycle.todo) \in {<<>>, <<"request_selected">>}
    <3>1. /\ Tail(<<"request_skipped">>) = <<>> /\ Tail(<<"request_selected">>) = <<>>
          /\ Tail(<<"batch_admission", "request_selected">>) = <<"request_selected">>
          /\ Tail(<<"request_added_to_batch", "request_selected">>) = <<"request_selected">>
      OBVIOUS
    <3> QED BY <1>7, <3>1
  <2> QED BY <1>1, <1>2, <1>4, <2>1, CyclesTyped DEF Cycles
<1>15. TypedPath'
  <2>1. batched' \subseteq Requests
    BY <1>2, <1>13 DEF TypedPath
  <2> QED BY <1>1, <1>2, <1>14, <2>1 DEF TypedPath
<1>16. TypedTelling'
  <2>1. trace' \in [Requests -> Seq(StampedEvents)]
    BY <1>1, <1>2, <1>4, <1>5, <1>9 DEF TypedTelling
  <2> QED BY <1>1, <1>2, <2>1 DEF TypedTelling
<1>17. CycleInv'
  <2>1. cycle'.verdict = "placed" /\ cycle'.todo # EventsOf("placed") => r \in batched'
    <3>1. CASE Head(cycle.todo) = "request_added_to_batch"
      BY <1>8, <1>13, <3>1
    <3>2. CASE Head(cycle.todo) # "request_added_to_batch"
      <4>1. cycle.todo # EventsOf("placed")
        <5>1. Head(EventsOf("placed")) = "request_added_to_batch"
          BY DEF EventsOf
        <5> QED BY <3>2, <5>1
      <4> QED BY <1>2, <1>4, <1>13, <1>14, <4>1 DEF CycleInv
    <3> QED BY <3>1, <3>2
  <2>2. "request_admitted" \in TypesIn(trace'[r])
    BY <1>3, <1>4, <1>5, <1>10, <1>12
  <2>3. cycle'.mine => pc'[r] = "cycling"
    BY <1>1, <1>2, <1>4, <1>14 DEF CycleInv
  <2> QED BY <1>14, <2>1, <2>2, <2>3 DEF CycleInv
<1>18. OnlyOf(r) /\ TellsOnlyOf(r)
  BY <1>1, <1>10, <1>13 DEF OnlyOf, TellsOnlyOf
<1>19. RequestInv(r)'
  <2>1. TraceInv(trace[r], stamps[r])' /\ counted'[r] = settled'[r]
    BY <1>1, <1>6, <1>9, <1>10 DEF RequestInv
  <2>2. PathTold(r)'
    BY <1>1, <1>5, <1>6, <1>10, <1>12, <1>13 DEF RequestInv, PathTold
  <2>3. StagesTold(r)'
    BY <1>1, <1>5, <1>6, <1>10, <1>12 DEF RequestInv, StagesTold
  <2>4. EndsAreForeign(r)'
    BY <1>1, <1>6 DEF RequestInv, EndsAreForeign
  <2>5. EndIsTold(r)'
    BY <1>1, <1>5, <1>6, <1>10, <1>12 DEF RequestInv, EndIsTold
  <2> QED BY <2>1, <2>2, <2>3, <2>4, <2>5 DEF RequestInv
<1>20. \A q \in Requests : RequestInv(q)'
  BY <1>18, <1>19, OthersKeep DEF Inv
<1> QED BY <1>15, <1>16, <1>17, <1>20 DEF Inv

-----------------------------------------------------------------------------
(***************************************************************************)
(* The invariant holds.                                                    *)
(***************************************************************************)
LEMMA InitEstablishes == Init => Inv
<1> SUFFICES ASSUME Init PROVE Inv
  OBVIOUS
<1>1. cycle.todo = <<>> /\ cycle.stamped = NoEvent /\ cycle.verdict = "absent"
      /\ cycle.mine = FALSE
  BY DEF Init, NoCycle
<1>2. TypedPath
  <2>1. \A r \in Requests : /\ state[r] = "none" /\ pc[r] = "new" /\ own[r] = "absent"
                            /\ attempts[r] = 0
    BY DEF Init
  <2>2. 0 \in 0..MaxAttempts /\ "absent" \in Verdict /\ "new" \in PathLabels
    BY BoundsAssumption DEF Verdict, PathLabels
  <2> QED BY <2>2, CyclesTyped DEF Init, TypedPath
<1>3. TypedTelling
  BY DEF Init, TypedTelling
<1>4. CycleInv
  BY <1>1 DEF CycleInv
<1>5. ASSUME NEW r \in Requests PROVE RequestInv(r)
  <2>1. /\ trace[r] = <<>> /\ stamps[r] = 0 /\ state[r] = "none" /\ pc[r] = "new"
        /\ own[r] = "absent" /\ record[r] = NoRecord /\ counted[r] = settled[r]
        /\ r \notin queue /\ r \notin batched /\ r \notin foreign
    BY <1>2 DEF Init
  <2>2. Len(trace[r]) = 0
    BY <2>1
  <2>3. TraceInv(trace[r], stamps[r])
    BY <2>2 DEF TraceInv, TimesPast, CausesTold, FailuresFollow, StagesInTurn,
                StatesAreLatest, EndsAreStated
  <2> QED BY <2>1, <2>3 DEF RequestInv, PathTold, StagesTold, EndsAreForeign, EndIsTold,
                            TerminalStates
<1> QED BY <1>2, <1>3, <1>4, <1>5 DEF Inv

LEMMA StutteringKeeps ==
  ASSUME Inv, UNCHANGED vars
  PROVE  Inv'
<1> USE DEF vars, pathVars, tellVars, historyVars
<1>1. TypedPath' /\ TypedTelling'
  BY DEF Inv, TypedPath, TypedTelling
<1>2. CycleInv'
  BY DEF Inv, CycleInv
<1>3. \A q \in Requests : RequestInv(q)'
  BY DEF Inv, RequestInv, PathTold, StagesTold, EndsAreForeign, EndIsTold
<1> QED BY <1>1, <1>2, <1>3 DEF Inv

LEMMA NextKeeps ==
  ASSUME Inv, [Next]_vars
  PROVE  Inv'
<1>1. ASSUME NEW r \in Requests,
             \/ Start(r) \/ AdmissionRejects(r) \/ AdmissionRaises(r) \/ QueueFull(r)
             \/ Admitted(r) \/ Enqueued(r) \/ Queued(r)
             \/ OwnCycle(r) \/ ForeignCycle(r)
      PROVE  Inv'
  BY <1>1, StartKeeps, RefusalsKeep, AdmittedKeeps, EnqueuedKeeps, QueuedKeeps,
     OwnCycleKeeps, ForeignCycleKeeps
<1>2. ASSUME NEW r \in Requests,
             \/ HandOver(r) \/ RouteFails(r) \/ NothingToDispatch(r)
             \/ AdapterAccepts(r) \/ AdapterRejects(r) \/ AdapterRaises(r)
             \/ ForeignHandOver(r) \/ ForeignAnswer(r)
      PROVE  Inv'
  BY <1>2, DispatchStepsKeep, ForeignStepsKeep
<1>3. ASSUME NEW r \in Requests,
             \/ EndsUnplaced(r) \/ EndsPlaced(r) \/ Completes(r) \/ CompletionRefused(r)
             \/ StreamNotQueued(r) \/ StreamError(r) \/ StreamCancel(r) \/ CloseStream(r)
             \/ StreamAbandoned(r) \/ Timeout(r)
      PROVE  Inv'
  BY <1>3, EndsUnplacedKeeps, EndsPlacedKeeps, CompletesKeeps, CompletionRefusedKeeps,
     StreamEndsKeep, StreamAbandonedKeeps, TimeoutKeeps
<1>4. ASSUME CycleStamps \/ CycleAppends \/ CycleRaises \/ CycleEnds PROVE Inv'
  BY <1>4, CycleStampsKeeps, CycleAppendsKeeps, CycleRaisesKeeps, CycleEndsKeeps
<1> QED BY <1>1, <1>2, <1>3, <1>4, StutteringKeeps DEF Next

\* The inductive invariant holds in every state.
THEOREM TellingInvariant == Spec => []Inv
<1>1. Init => Inv
  BY InitEstablishes
<1>2. Inv /\ [Next]_vars => Inv'
  BY NextKeeps
<1> QED BY <1>1, <1>2, PTL DEF Spec

-----------------------------------------------------------------------------
(***************************************************************************)
(* What the invariant says of the timeline and of the stages.              *)
(***************************************************************************)
LEMMA TypeFollows == Inv => TypeOK
<1> SUFFICES ASSUME Inv PROVE TypeOK
  OBVIOUS
<1>1. ASSUME NEW r \in Requests PROVE \A i \in DOMAIN trace[r] : trace[r][i].at \in 1..stamps[r]
  <2>1. DOMAIN trace[r] = 1..Len(trace[r])
    BY TraceTyped DEF Inv, TypedTelling
  <2> QED BY <2>1 DEF Inv, RequestInv, TraceInv, TimesPast
<1>2. /\ streams \subseteq Originals
      /\ queue \cup batched \cup submitted \cup foreign \cup disturbed \subseteq Requests
      /\ cycle.of \in Requests \cup {"none"}
  BY DEF Inv, TypedPath, Cycles
<1>3. \A r \in Requests : /\ state[r] \in RequestState \cup {"none"}
                          /\ pc[r] \in PathLabels
                          /\ attempts[r] \in 0..MaxAttempts
  BY DEF Inv, TypedPath
<1> QED BY <1>1, <1>2, <1>3 DEF TypeOK, PathLabels

\* The timeline shows causes first, and a failure after its event.
LEMMA TimelineInOrder ==
  ASSUME NEW t \in Seq(StampedEvents), NEW s \in Nat, TraceInv(t, s),
         NEW i \in DOMAIN Timeline(t)
  PROVE  LET line == Timeline(t)
             before == {line[j] : j \in 1..(i - 1)}
         IN /\ Causes(line[i].e.type) \subseteq Types(before)
            /\ line[i].e.failure =>
                 \E ev \in before : ev.at = line[i].at /\ ev.e.type = line[i].e.type
<1> DEFINE line == Timeline(t)
           n == Len(t)
           before == {line[j] : j \in 1..(i - 1)}
<1>1. n \in Nat /\ \A j \in 1..n : t[j].at \in Nat
  BY TraceTyped
<1>2. PICK p : Sorts(p, t)
  BY TimelineIsSorted
<1>3. i \in 1..n
  BY TimelineIsSorted
<1>4. /\ p \in [1..n -> 1..n]
      /\ \A k \in 1..n : line[k] = t[p[k]]
      /\ \A j \in 1..n : \E k \in 1..n : p[k] = j
      /\ \A k, l \in 1..n : NotAfter(t, p[k], p[l]) => k <= l
  BY <1>2 DEF Sorts
<1> HIDE DEF line, n
<1>5. ASSUME NEW j \in 1..n, NotAfter(t, j, p[i]), j # p[i]
      PROVE  t[j] \in before
  <2>1. PICK k \in 1..n : p[k] = j
    BY <1>4
  <2>2. k <= i /\ k # i
    BY <1>3, <1>4, <1>5, <2>1
  <2>3. k \in 1..(i - 1)
    BY <1>1, <1>3, <2>2
  <2>4. line[k] = t[j]
    BY <1>4, <2>1
  <2> QED BY <2>3, <2>4
<1> HIDE DEF before
<1>6. p[i] \in 1..n /\ line[i] = t[p[i]]
  BY <1>3, <1>4
<1>7. ASSUME NEW c \in Causes(line[i].e.type) PROVE c \in Types(before)
  <2>1. PICK j \in 1..n : t[j].e.type = c /\ t[j].at < t[p[i]].at
    BY <1>6, <1>7 DEF TraceInv, CausesTold, n
  <2>2. NotAfter(t, j, p[i]) /\ j # p[i]
    BY <1>1, <1>6, <2>1 DEF NotAfter
  <2> QED BY <1>5, <2>1, <2>2 DEF Types
<1>8. ASSUME line[i].e.failure
      PROVE  \E ev \in before : ev.at = line[i].at /\ ev.e.type = line[i].e.type
  <2>1. /\ p[i] > 1 /\ t[p[i] - 1].at = t[p[i]].at /\ t[p[i] - 1].e.type = t[p[i]].e.type
    BY <1>6, <1>8 DEF TraceInv, FailuresFollow, n
  <2>2. /\ p[i] - 1 \in 1..n /\ NotAfter(t, p[i] - 1, p[i]) /\ p[i] - 1 # p[i]
    BY <1>1, <1>6, <2>1 DEF NotAfter
  <2> QED BY <1>5, <1>6, <2>1, <2>2
<1> QED BY <1>7, <1>8 DEF line, before

LEMMA Smallest ==
  ASSUME NEW S \in SUBSET Nat, S # {}
  PROVE  \E x \in S : \A y \in S : x <= y
<1>1. PICK x \in S : \A y \in S : ~(<<y, x>> \in OpToRel(<, Nat))
  BY WFMin, NatLessThanWellFounded
<1>2. ASSUME NEW y \in S PROVE x <= y
  <2>1. <<y, x>> \in OpToRel(<, Nat) <=> y < x
    BY DEF OpToRel
  <2>2. ~(y < x)
    BY <1>1, <2>1, Zenon
  <2>3. x \in Nat /\ y \in Nat
    OBVIOUS
  <2> QED BY <2>2, <2>3
<1> QED BY <1>2

\* Where a stage was seen, the stage before it was seen no later.
LEMMA StagesSeenInOrder ==
  ASSUME NEW t \in Seq(StampedEvents), NEW s \in Nat, TraceInv(t, s),
         NEW j \in 2..Len(Stages), SeenAt(t, Stages[j]) # 0
  PROVE  SeenAt(t, Stages[j - 1]) \in 1..SeenAt(t, Stages[j])
<1> DEFINE n == Len(t)
           A(x) == {i \in 1..n : t[i].e.to = x}
           F(x) == CHOOSE i \in A(x) : \A l \in A(x) : i <= l
<1>1. n \in Nat /\ \A i \in 1..n : t[i].at \in Nat
  BY TraceTyped
<1>2. \A x : SeenAt(t, x) = IF A(x) = {} THEN 0 ELSE t[F(x)].at
  BY DEF SeenAt
<1>3. ASSUME NEW x, A(x) # {} PROVE F(x) \in A(x) /\ \A l \in A(x) : F(x) <= l
  <2>1. A(x) \in SUBSET Nat
    BY <1>1
  <2> HIDE DEF A
  <2>2. \E i \in A(x) : \A l \in A(x) : i <= l
    BY <1>3, <2>1, Smallest
  <2> QED BY <2>2
<1> HIDE DEF F
<1>4. \A x, i : i \in A(x) <=> i \in 1..n /\ t[i].e.to = x
  OBVIOUS
<1> HIDE DEF A
<1>5. A(Stages[j]) # {}
  BY <1>2
<1>6. PICK i : i = F(Stages[j])
  OBVIOUS
<1>7. i \in 1..n /\ t[i].e.to = Stages[j] /\ SeenAt(t, Stages[j]) = t[i].at
  BY <1>2, <1>3, <1>4, <1>5, <1>6
<1>8. PICK k \in 1..(i - 1) : t[k].e.to = Stages[j - 1]
  BY <1>7 DEF TraceInv, StagesInTurn, n
<1>9. k \in 1..n /\ k < i
  BY <1>1, <1>7, <1>8
<1>10. k \in A(Stages[j - 1]) /\ A(Stages[j - 1]) # {}
  BY <1>4, <1>8, <1>9
<1>11. PICK m : m = F(Stages[j - 1])
  OBVIOUS
<1>12. m \in 1..n /\ m <= k /\ SeenAt(t, Stages[j - 1]) = t[m].at
  BY <1>2, <1>3, <1>4, <1>10, <1>11
<1>13. m < i
  BY <1>1, <1>7, <1>9, <1>12
<1>14. t[i].e.to # "none"
  <2>1. InTurn({}, "none")
    BY StageOrder
  <2> QED BY <1>7, <2>1 DEF InTurn
<1>15. t[m].at <= t[i].at
  BY <1>7, <1>12, <1>13, <1>14 DEF TraceInv, StatesAreLatest, n
<1>16. t[m].at \in 1..s
  BY <1>12 DEF TraceInv, TimesPast, n
<1> QED BY <1>1, <1>7, <1>12, <1>15, <1>16

\* The last end of the trace is the last end of the timeline: an event appended
\* before it does not come after it.
LEMMA LastEndInTimeline ==
  ASSUME NEW t \in Seq(StampedEvents), NEW s \in Nat, TraceInv(t, s),
         NEW p, Sorts(p, t), NEW i \in 1..Len(t), IsLastEnd(t, i)
  PROVE  \E k \in 1..Len(t) :
           p[k] = i /\ \A l \in 1..Len(t) : p[l] <= i => l <= k
<1> DEFINE n == Len(t)
<1>1. n \in Nat /\ \A j \in 1..n : t[j].at \in Nat
  BY TraceTyped
<1>2. /\ p \in [1..n -> 1..n]
      /\ \A j \in 1..n : \E k \in 1..n : p[k] = j
      /\ \A k, l \in 1..n : NotAfter(t, p[k], p[l]) => k <= l
  BY DEF Sorts
<1> HIDE DEF n
<1>3. PICK k \in 1..n : p[k] = i
  BY <1>2 DEF n
<1>4. ASSUME NEW l \in 1..n, p[l] <= i PROVE l <= k
  <2>1. p[l] \in 1..n /\ i \in 1..n
    BY <1>2 DEF n
  <2>2. t[p[l]].at <= t[i].at
    <3>1. t[i].e.to # "none"
      BY DEF IsLastEnd, EndStates
    <3>2. CASE p[l] = i
      BY <1>1, <2>1, <3>2
    <3>3. CASE p[l] # i
      <4>1. p[l] < i
        BY <1>1, <1>4, <2>1, <3>3
      <4> QED BY <2>1, <3>1, <4>1 DEF TraceInv, StatesAreLatest, n
    <3> QED BY <3>2, <3>3
  <2>3. NotAfter(t, p[l], p[k])
    BY <1>1, <1>3, <1>4, <2>1, <2>2 DEF NotAfter
  <2> QED BY <1>2, <2>3
<1> QED BY <1>3, <1>4 DEF n

LEMMA EndIsInferred ==
  ASSUME NEW t \in Seq(StampedEvents), NEW s \in Nat, TraceInv(t, s),
         NEW x, EndTold(t, x)
  PROVE  InferTerminalOutcome(Timeline(t)) = x
<1> DEFINE line == Timeline(t)
           n == Len(t)
           ends == {k \in 1..Len(line) :
                      line[k].e.to \in {"completed", "failed", "rejected", "timed_out"}}
<1>1. PICK i \in 1..n : IsLastEnd(t, i) /\ t[i].e.to = x
  BY DEF EndTold
<1>2. PICK p : Sorts(p, t)
  BY TimelineIsSorted
<1>3. PICK k \in 1..n : p[k] = i /\ \A l \in 1..n : p[l] <= i => l <= k
  BY <1>1, <1>2, LastEndInTimeline
<1>4. n \in Nat /\ Len(line) = n
  <2>1. n \in Nat
    BY TraceTyped
  <2>2. line = [m \in 1..n |-> line[m]]
    BY DEF Timeline
  <2> QED BY <2>1, <2>2
<1>5. p \in [1..n -> 1..n] /\ \A m \in 1..n : line[m] = t[p[m]]
  BY <1>2 DEF Sorts
<1> HIDE DEF line, n
<1>6. \A l : l \in ends <=> l \in 1..n /\ t[p[l]].e.to \in EndStates
  BY <1>4, <1>5 DEF EndStates
<1> HIDE DEF ends
<1>7. k \in ends /\ \A l \in ends : l <= k
  <2>1. k \in ends
    BY <1>1, <1>3, <1>6 DEF IsLastEnd
  <2>2. ASSUME NEW l \in ends PROVE l <= k
    <3>1. l \in 1..n /\ p[l] \in 1..n /\ t[p[l]].e.to \in EndStates
      BY <1>5, <1>6, <2>2
    <3>2. p[l] <= i
      BY <1>1, <3>1 DEF IsLastEnd, n
    <3> QED BY <1>3, <3>1, <3>2
  <2> QED BY <2>1, <2>2
<1>8. (CHOOSE l \in ends : \A m \in ends : m <= l) = k
  <2> DEFINE c == CHOOSE l \in ends : \A m \in ends : m <= l
  <2>1. c \in ends /\ \A m \in ends : m <= c
    BY <1>7
  <2> HIDE DEF c
  <2>2. c \in 1..n /\ k \in 1..n /\ c <= k /\ k <= c
    BY <1>6, <1>7, <2>1
  <2>3. c = k
    BY <1>4, <2>2
  <2> QED BY <2>3 DEF c
<1>9. InferTerminalOutcome(line) = IF ends = {} THEN "none"
                                   ELSE line[CHOOSE l \in ends : \A m \in ends : m <= l].e.to
  BY DEF InferTerminalOutcome, ends
<1>10. InferTerminalOutcome(line) = line[k].e.to
  BY <1>7, <1>8, <1>9
<1> QED BY <1>1, <1>3, <1>5, <1>10 DEF line

LEMMA RefusalIsLast ==
  ASSUME NEW t \in Seq(StampedEvents), NEW s \in Nat, TraceInv(t, s), RefusalTold(t)
  PROVE  LET line == Timeline(t)
         IN \E k \in DOMAIN line :
              /\ line[k].e.type = "batch_rejected"
              /\ \A l \in DOMAIN line : line[l].e.type \in EndTypes => l <= k
<1> DEFINE line == Timeline(t)
           n == Len(t)
<1>1. PICK i \in 1..n : IsLastEnd(t, i) /\ t[i].e.type = "batch_rejected"
  BY DEF RefusalTold
<1>2. PICK p : Sorts(p, t)
  BY TimelineIsSorted
<1>3. PICK k \in 1..n : p[k] = i /\ \A l \in 1..n : p[l] <= i => l <= k
  BY <1>1, <1>2, LastEndInTimeline
<1>4. n \in Nat /\ DOMAIN line = 1..n
  BY TraceTyped, TimelineIsSorted
<1>5. p \in [1..n -> 1..n] /\ \A m \in 1..n : line[m] = t[p[m]]
  BY <1>2 DEF Sorts
<1> HIDE DEF line, n
<1>6. line[k].e.type = "batch_rejected"
  BY <1>1, <1>3, <1>5
<1>7. ASSUME NEW l \in 1..n, line[l].e.type \in EndTypes PROVE l <= k
  <2>1. PICK j \in 1..n : p[l] <= j /\ t[j].e.to \in EndStates
    BY <1>5, <1>7 DEF TraceInv, EndsAreStated, n
  <2>2. j <= i
    BY <1>1, <2>1 DEF IsLastEnd, n
  <2>3. p[l] \in 1..n
    BY <1>5
  <2>4. p[l] <= i
    BY <1>4, <2>1, <2>2, <2>3
  <2> QED BY <1>3, <2>4
<1> QED BY <1>4, <1>6, <1>7 DEF line

-----------------------------------------------------------------------------
(***************************************************************************)
(* Theorems.                                                               *)
(***************************************************************************)

\* get_request_timeline shows every event after the events that caused it and a
\* failure after the event it belongs to, although the thread of a scheduling
\* cycle takes the time of its events before it appends them; the lifecycle
\* times of a request increase from stage to stage.
THEOREM TimelinesAreCausal == Spec => []TimelineCausal
<1>1. Inv => TimelineCausal
  <2> SUFFICES ASSUME Inv PROVE TimelineCausal
    OBVIOUS
  <2>1. \A r \in Requests : /\ trace[r] \in Seq(StampedEvents) /\ stamps[r] \in Nat
                            /\ TraceInv(trace[r], stamps[r])
    BY DEF Inv, TypedTelling, RequestInv
  <2>2. ASSUME NEW r \in Requests, NEW i \in DOMAIN Timeline(trace[r])
        PROVE  LET line == Timeline(trace[r])
                   before == {line[j] : j \in 1..(i - 1)}
               IN /\ Causes(line[i].e.type) \subseteq Types(before)
                  /\ line[i].e.failure =>
                       \E ev \in before : ev.at = line[i].at /\ ev.e.type = line[i].e.type
    BY <2>1, TimelineInOrder
  <2>3. ASSUME NEW r \in Requests, NEW j \in 2..Len(Stages), SeenAt(trace[r], Stages[j]) # 0
        PROVE  SeenAt(trace[r], Stages[j - 1]) \in 1..SeenAt(trace[r], Stages[j])
    BY <2>1, <2>3, StagesSeenInOrder
  <2> QED BY <2>2, <2>3, TypeFollows DEF TimelineCausal
<1> QED BY <1>1, TellingInvariant, PTL

\* reconstruct_request of a request that ended without a record gives the state
\* the registry holds, unless a backend refused its batch after that end, when
\* that refusal is the last end the timeline shows.
THEOREM TracesTellOutcomes == Spec => []TraceTellsOutcome
<1>1. Inv => TraceTellsOutcome
  <2> SUFFICES ASSUME Inv, NEW r \in Requests, pc[r] = "done", record[r] = NoRecord,
                      state[r] \in TerminalStates \ {"cancelled"}
               PROVE  LET line == Timeline(trace[r])
                      IN \/ ReconstructRequest(r) = state[r]
                         \/ /\ r \in disturbed
                            /\ \E i \in DOMAIN line :
                                 /\ line[i].e.type = "batch_rejected"
                                 /\ \A j \in DOMAIN line : line[j].e.type \in EndTypes => j <= i
    BY DEF TraceTellsOutcome
  <2>1. /\ trace[r] \in Seq(StampedEvents) /\ stamps[r] \in Nat
        /\ TraceInv(trace[r], stamps[r]) /\ EndIsTold(r)
    BY DEF Inv, TypedTelling, RequestInv
  <2>2. CASE EndTold(trace[r], state[r])
    <3>1. InferTerminalOutcome(Timeline(trace[r])) = state[r]
      BY <2>1, <2>2, EndIsInferred
    <3> QED BY <3>1 DEF ReconstructRequest
  <2>3. CASE RefusalTold(trace[r]) /\ r \in disturbed
    BY <2>1, <2>3, RefusalIsLast
  <2> QED BY <2>1, <2>2, <2>3 DEF EndIsTold
<1> QED BY <1>1, TellingInvariant, PTL

\* RuntimeMetricsRecorder takes a request off the gauge of active requests once
\* for every end the control plane writes with a transition or from the queue.
THEOREM EndsAreCountedOnce == Spec => []CountedOnce
<1>1. Inv => CountedOnce
  BY DEF Inv, RequestInv, CountedOnce
<1> QED BY <1>1, TellingInvariant, PTL

-----------------------------------------------------------------------------
(***************************************************************************)
(* Comparing runs.  The run of a request nobody disturbed is told by its   *)
(* script: each of its steps tells a list of events, the lists follow one  *)
(* another in the trace, and what is told without a step of the script is  *)
(* determined by where the request stands or how it ended.                 *)
(***************************************************************************)
Admission == TransitionEvent("request_admitted", "admitted")
Enqueuing == QueueEvent("request_enqueued")
Queuing == StateEvent("request_queued", "queued")

\* What is told from the admission until a cycle has told the events ws.
Opening(ws) ==
  CASE Len(ws) = 0 -> <<Admission, Enqueuing, Queuing>>
    [] Len(ws) = 1 -> <<Admission, Enqueuing, Queuing, SchedulerEvent(ws[1])>>
    [] Len(ws) = 2 -> <<Admission, Enqueuing, Queuing, SchedulerEvent(ws[1]),
                        SchedulerEvent(ws[2])>>

\* The events of a cycle that the script names x.
Judged(x) ==
  CASE x = <<"absent">> -> <<>>
    [] x = <<"skipped">> -> <<"request_skipped">>
    [] x = <<"refused">> -> <<"batch_admission", "request_selected">>
    [] x = <<"placed">> -> <<"request_added_to_batch", "request_selected">>
    [] x = <<"lost", "refused">> -> <<"batch_admission">>
    [] x = <<"lost", "placed">> -> <<"request_added_to_batch">>

Judgements == {<<"absent">>, <<"skipped">>, <<"refused">>, <<"placed">>,
               <<"lost", "refused">>, <<"lost", "placed">>}
Refusals == {<<"rejected">>, <<"admission_error">>, <<"queue_full">>}
Words == Judgements \cup Refusals \cup
  {<<"lead">>, <<"follow">>, <<"handed">>, <<"no_route">>, <<"not_dispatched">>,
   <<"accepted">>, <<"declined">>, <<"raised">>, <<"stream_error">>, <<"cancelled">>}

\* Times the batch was handed to a backend in the first n steps.
Hands(s, n) == Cardinality({j \in 1..n : s[j] = <<"handed">>})

Leads(s) == s[1] = <<"lead">>
Routed(s, type) == IF Leads(s) THEN <<SchedulerEvent(type)>> ELSE <<>>

\* What the i-th step of the script s tells; the event that opens the run, by
\* the gateway or the replay engine, stands before these.
Heard(s, i) ==
  CASE s[i] \in {<<"lead">>, <<"follow">>} ->
         <<StateEvent("request_received", "received"),
           TransitionEvent("request_validated", "validated")>>
    [] s[i] = <<"rejected">> -> <<StateEvent("request_rejected", "rejected")>>
    [] s[i] = <<"admission_error">> -> <<StateEvent("request_failed", "failed")>>
    [] s[i] = <<"queue_full">> ->
         <<Admission, QueueEvent("queue_full"), FailureOf(QueueEvent("queue_full"), "rejected")>>
    [] s[i] \in Judgements -> Opening(Judged(s[i]))
    [] s[i] = <<"handed">> ->
         IF Leads(s) THEN <<SchedulerEvent("backend_selected"), AdapterEvent("batch_submitted")>>
         ELSE <<AdapterEvent("batch_submitted")>>
    [] s[i] = <<"no_route">> -> Routed(s, "routing_failed")
    [] s[i] = <<"accepted">> -> <<AdapterEvent("batch_accepted")>>
    [] s[i] = <<"declined">> ->
         <<AdapterEvent("batch_rejected"), FailureOf(AdapterEvent("batch_rejected"), "failed")>>
    [] s[i] = <<"raised">> ->
         Routed(s, IF Hands(s, i) < MaxAttempts THEN "backend_selected" ELSE "routing_failed")
    [] OTHER -> <<>>

\* The trace t of the script s and of rest: m[i] is where step i ends.
Tells(t, s, m, rest) ==
  /\ m \in [0..Len(s) -> Nat] /\ m[0] = 1
  /\ Len(t) = m[Len(s)] + Len(rest)
  /\ \A i \in 1..Len(s) :
       /\ m[i] = m[i - 1] + Len(Heard(s, i))
       /\ \A k \in 1..Len(Heard(s, i)) : t[m[i - 1] + k].e = Heard(s, i)[k]
  /\ \A k \in 1..Len(rest) : t[m[Len(s)] + k].e = rest[k]
  /\ t[1].e \in {GatewayEvent, ReplayEvent("replay_started")}

InTime(t) == \A i, j \in 1..Len(t) : i <= j => t[i].at <= t[j].at

\* The path can go on to a backend after i steps.
Opens(s, i) ==
  \/ s[i] \in Judgements \cup {<<"declined">>}
  \/ s[i] = <<"raised">> /\ Hands(s, i) < MaxAttempts

Dispatchable(s) == s[2] \in {<<"placed">>, <<"lost", "placed">>}

\* What may follow the i-th step of a path that was queued.
After(s, i) ==
  IF Opens(s, i) THEN IF Dispatchable(s) THEN {<<"handed">>, <<"no_route">>}
                      ELSE {<<"not_dispatched">>}
  ELSE IF s[i] = <<"handed">> THEN {<<"accepted">>, <<"declined">>, <<"raised">>}
  ELSE IF s[i] = <<"accepted">> THEN {<<"stream_error">>, <<"cancelled">>}
  ELSE {}

WellTold(s) ==
  /\ s \in Seq(Words) /\ Len(s) # 0
  /\ s[1] \in {<<"lead">>, <<"follow">>}
  /\ Len(s) > 1 => s[2] \in Judgements \cup Refusals
  /\ \A i \in 3..Len(s) : s[i] \in After(s, i - 1)

\* The verdict the request's own cycle leaves.
OwnVerdict(s) ==
  CASE s[2] \in {<<"lost", "refused">>, <<"lost", "placed">>, <<"absent">>} -> "absent"
    [] s[2] = <<"skipped">> -> "skipped"
    [] s[2] = <<"refused">> -> "refused"
    [] s[2] = <<"placed">> -> "placed"

Placing ==
  <<TransitionEvent("request_scheduled", "scheduled"),
    TransitionEvent("request_batched", "batched"),
    TransitionEvent("request_submitted", "submitted")>>
Refusing ==
  <<TransitionEvent("request_scheduled", "scheduled"),
    TransitionEvent("request_batched", "batched"),
    TransitionEvent("request_failed", "failed")>>
Completing ==
  <<TransitionEvent("request_scheduled", "scheduled"),
    TransitionEvent("request_batched", "batched"),
    TransitionEvent("request_submitted", "submitted"), Removed,
    TransitionEvent("request_completed", "completed"),
    StateEvent("request_completed", "completed")>>
Failing == TransitionEvent("request_failed", "failed")

\* A stream that fails before, and after its completion was told.
StreamFailing == <<Placing[1], Placing[2], Placing[3], Failing>>
LateFailing ==
  <<Completing[1], Completing[2], Completing[3], Completing[4], Completing[5], Completing[6],
    StateEvent("request_failed", "failed")>>

\* The cycle's part in what is told while it runs.
CycleTold ==
  IF cycle.todo = EventsOf(cycle.verdict) THEN <<>>
  ELSE IF cycle.verdict \in {"placed", "refused"} /\ (cycle.todo # <<>> \/ cycle.lost)
  THEN <<Head(EventsOf(cycle.verdict))>>
  ELSE EventsOf(cycle.verdict)

\* What was told of a request under way since the last step of its script.
Rest(r) ==
  CASE pc[r] = "visible" -> <<Admission>>
    [] pc[r] = "enqueued" -> <<Admission, Enqueuing>>
    [] pc[r] = "waiting" -> <<Admission, Enqueuing, Queuing>>
    [] pc[r] = "cycling" -> Opening(CycleTold)
    [] pc[r] = "executing" -> Placing
    [] pc[r] = "closing" -> Completing
    [] OTHER -> <<>>

\* The path of a request that nobody disturbed.
Early == {"admission", "visible", "enqueued", "waiting", "cycling"}

StandsAs(s, label, n) ==
  /\ label \in Early <=> Len(s) = 1
  /\ label \notin Early => s[2] \in Judgements
  /\ label = "dispatching" => Opens(s, n)
  /\ label = "submitting" => s[n] = <<"handed">>
  /\ label = "accepted" => s[n] = <<"accepted">>
  /\ label = "refused" =>
       \/ s[n] \in {<<"no_route">>, <<"not_dispatched">>}
       \/ s[n] = <<"raised">> /\ ~(Hands(s, n) < MaxAttempts)
  /\ label \in {"executing", "closing"} =>
       n > 2 /\ s[2] = <<"placed">> /\ s[n] = <<"accepted">>

QuietState(r) ==
  /\ reason[r] = "none"
  /\ state[r] =
       CASE pc[r] = "admission" -> "validated"
         [] pc[r] = "visible" -> "admitted"
         [] pc[r] = "executing" -> IF r \in streams THEN "streaming" ELSE "submitted"
         [] pc[r] = "closing" -> "completed"
         [] OTHER -> "queued"
  /\ pc[r] = "closing" => r \in streams
  /\ pc[r] \notin Early => own[r] = OwnVerdict(script[r])

QuietEngine(r) ==
  /\ pc[r] \in Early \ {"cycling"} => r \notin batched
  /\ pc[r] = "cycling" =>
       r \in batched <=> CycleTold # <<>> /\ cycle.verdict = "placed"
  /\ pc[r] \notin Early => (r \in batched <=> Dispatchable(script[r]))
  /\ pc[r] \in Early \cup {"dispatching", "submitting"} => r \notin submitted
  /\ attempts[r] = Hands(script[r], Len(script[r]))

\* A cycle has picked r up.
Running(r) == cycle # NoCycle /\ cycle.of = r

QuietCycle(r) ==
  /\ pc[r] = "cycling" => Running(r)
  /\ Running(r) =>
       /\ cycle.mine
       /\ cycle.verdict \in {"absent", "skipped", "refused", "placed"}
       /\ cycle.todo \in {EventsOf(cycle.verdict), <<>>} \cup
            IF cycle.verdict \in {"refused", "placed"} THEN {<<"request_selected">>} ELSE {}
       /\ cycle.lost => cycle.todo = <<>> /\ cycle.verdict \in {"refused", "placed"}
       /\ cycle.stamped # NoEvent =>
            \A i \in 1..Len(trace[r]) : trace[r][i].at <= cycle.stamped.at

QuietNew(r) ==
  /\ trace[r] = <<>> /\ script[r] = <<>>
  /\ reason[r] = "none" /\ attempts[r] = 0
  /\ r \notin batched /\ r \notin submitted /\ ~Running(r)

QuietRun(r) ==
  /\ WellTold(script[r])
  /\ StandsAs(script[r], pc[r], Len(script[r]))
  /\ QuietState(r)
  /\ QuietEngine(r)
  /\ QuietCycle(r)
  /\ InTime(trace[r])
  /\ \E m : Tells(trace[r], script[r], m, Rest(r))

\* How the run of the script s ended: for a stream or not, with what told since
\* the last step, and in which state.
Outcome(s, stream, rest, st, why) ==
  LET n == Len(s) IN
  /\ n > 1
  /\ CASE s[n] = <<"rejected">> -> rest = <<>> /\ st = "rejected" /\ why = "queue_full"
       [] s[n] = <<"admission_error">> -> rest = <<>> /\ st = "failed" /\ why = "internal"
       [] s[n] = <<"queue_full">> -> rest = <<>> /\ st = "rejected" /\ why = "queue_full"
       [] s[n] = <<"stream_error">> ->
            /\ stream /\ s[2] = <<"placed">> /\ st = "failed" /\ why = "adapter"
            /\ rest \in {StreamFailing, LateFailing}
       [] s[n] = <<"cancelled">> ->
            /\ stream /\ s[2] = <<"placed">> /\ st = "cancelled" /\ why = "none"
            /\ rest = Placing
       [] OTHER ->
            /\ n > 2 /\ s[2] \in Judgements /\ After(s, n) \subseteq {<<"stream_error">>, <<"cancelled">>}
            /\ CASE OwnVerdict(s) = "refused" ->
                      rest = <<Failing>> /\ st = "failed" /\ why = "adapter"
                 [] OwnVerdict(s) = "absent" ->
                      rest = <<Failing>> /\ st = "failed" /\ why = "internal"
                 [] OwnVerdict(s) = "skipped" ->
                      IF stream THEN rest = <<Failing>> /\ st = "failed" /\ why = "internal"
                      ELSE rest = <<>> /\ st = "queued" /\ why = "none"
                 [] OwnVerdict(s) = "placed" ->
                      IF s[n] = <<"accepted">>
                      THEN rest = Completing /\ st = "completed" /\ why = "none"
                      ELSE rest = Refusing /\ st = "failed" /\ why = "adapter"

\* rec is the record of an undisturbed run of the script s.
Fits(s, stream, rec) ==
  /\ WellTold(s)
  /\ \E t \in Seq(StampedEvents) : \E m, rest :
       /\ InTime(t)
       /\ \A i \in 1..Len(t) : t[i].at # 0
       /\ Tells(t, s, m, rest)
       /\ Outcome(s, stream, rest, rec.state, rec.failure_reason)
       /\ rec = CaptureExecutionRecord(t, rec.state, rec.failure_reason,
                   IF SeenAt(t, "submitted") = 0 THEN 0 ELSE Hands(s, Len(s)))

\* What holds of a request that nobody has disturbed.
Quiet(r) ==
  r \notin disturbed =>
    /\ pc[r] = "new" => QuietNew(r)
    /\ pc[r] \notin {"new", "done"} => QuietRun(r)
    /\ pc[r] # "new" /\ r \in Replays => Leads(script[r])
    /\ record[r] # NoRecord => Fits(script[r], r \in streams, record[r])

Tracked == DOMAIN script = Requests /\ DOMAIN reason = Requests

QuietInv == Tracked /\ \A r \in Requests : Quiet(r)

-----------------------------------------------------------------------------
(***************************************************************************)
(* The events at some places of a list, and a timeline in order.           *)
(***************************************************************************)
LEMMA PlaceGrows ==
  ASSUME NEW kept \in SUBSET Nat, IsFiniteSet(kept),
         NEW a \in kept, NEW b \in kept, a < b
  PROVE  Cardinality({j \in kept : j <= a}) # Cardinality({j \in kept : j <= b})
<1> DEFINE A == {j \in kept : j <= a}
           B == {j \in kept : j <= b}
<1>1. A \in SUBSET B /\ B \in SUBSET kept /\ b \in B /\ b \notin A
  <2>1. a \in Nat /\ b \in Nat /\ \A j \in kept : j \in Nat
    OBVIOUS
  <2>2. \A j \in A : j \in B
    BY <2>1
  <2>3. b \in B /\ b \notin A
    BY <2>1
  <2> QED BY <2>2, <2>3
<1> HIDE DEF A, B
<1>2. IsFiniteSet(B)
  BY <1>1, FS_Subset
<1>3. Cardinality(B) = Cardinality(A) => A = B
  BY <1>1, <1>2, FS_Subset
<1>4. Cardinality(A) # Cardinality(B)
  BY <1>1, <1>3
<1> QED BY <1>4 DEF A, B

\* Every number up to |kept| is the number of kept places up to one of them.
LEMMA PlaceExists ==
  ASSUME NEW kept \in SUBSET Nat, IsFiniteSet(kept), NEW k \in 1..Cardinality(kept)
  PROVE  \E i \in kept : Cardinality({j \in kept : j <= i}) = k
<1> DEFINE n == Cardinality(kept)
           rank == [i \in kept |-> Cardinality({j \in kept : j <= i})]
<1>1. n \in Nat
  BY FS_CardinalityType
<1>2. rank \in [kept -> 1..n]
  <2> SUFFICES ASSUME NEW a \in kept PROVE Cardinality({j \in kept : j <= a}) \in 1..n
    OBVIOUS
  <2> DEFINE A == {j \in kept : j <= a}
  <2>1. A \in SUBSET kept /\ a \in A
    OBVIOUS
  <2> HIDE DEF A
  <2>2. IsFiniteSet(A) /\ Cardinality(A) <= n
    BY <2>1, FS_Subset
  <2>3. Cardinality(A) # 0 /\ Cardinality(A) \in Nat
    BY <2>1, <2>2, FS_EmptySet, FS_CardinalityType
  <2>4. Cardinality(A) \in 1..n
    BY <1>1, <2>2, <2>3
  <2> QED BY <2>4 DEF A
<1>3. \A a, b \in kept : rank[a] = rank[b] => a = b
  <2> SUFFICES ASSUME NEW a \in kept, NEW b \in kept, a # b
               PROVE  rank[a] # rank[b]
    BY Zenon
  <2>1. a \in Nat /\ b \in Nat
    OBVIOUS
  <2>2. CASE a < b
    BY <2>2, PlaceGrows
  <2>3. CASE b < a
    BY <2>3, PlaceGrows
  <2> QED BY <2>1, <2>2, <2>3
<1> HIDE DEF rank
<1>4. rank \in Injection(kept, 1..n)
  BY <1>2, <1>3, Fun_IsInj
<1>5. IsFiniteSet(1..n) /\ Cardinality(1..n) = n
  BY <1>1, FS_Interval
<1>6. rank \in Surjection(kept, 1..n)
  BY <1>4, <1>5, FS_Injection
<1>7. \E i \in kept : rank[i] = k
  BY <1>6 DEF Surjection
<1> QED BY <1>7 DEF rank

\* Lists that agree at the kept places give the same selection.
LEMMA SelectionsAgree ==
  ASSUME NEW t, NEW u, NEW kept \in SUBSET Nat, IsFiniteSet(kept),
         \A i \in kept : t[i].e = u[i].e
  PROVE  /\ Cardinality(kept) \in Nat
         /\ Len(EventsAt(t, kept)) = Cardinality(kept)
         /\ Len(EventsAt(u, kept)) = Cardinality(kept)
         /\ \A k \in 1..Cardinality(kept) : EventsAt(t, kept)[k].e = EventsAt(u, kept)[k].e
<1> DEFINE n == Cardinality(kept)
           Nth(k) == CHOOSE i \in kept : Cardinality({j \in kept : j <= i}) = k
<1>1. n \in Nat
  BY FS_CardinalityType
<1>2. ASSUME NEW k \in 1..n PROVE Nth(k) \in kept
  BY PlaceExists
<1>3. EventsAt(t, kept) = [k \in 1..n |-> t[Nth(k)]] /\ EventsAt(u, kept) = [k \in 1..n |-> u[Nth(k)]]
  BY DEF EventsAt
<1> HIDE DEF n, Nth
<1>4. \A k \in 1..n : EventsAt(t, kept)[k].e = EventsAt(u, kept)[k].e
  BY <1>2, <1>3
<1>5. Len(EventsAt(t, kept)) = n /\ Len(EventsAt(u, kept)) = n
  BY <1>1, <1>3
<1> QED BY <1>1, <1>4, <1>5 DEF n

\* Of the places but the first, the k-th is k + 1.
LEMMA PlaceOfRest ==
  ASSUME NEW n \in Nat, n # 0
  PROVE  /\ IsFiniteSet(2..n) /\ Cardinality(2..n) = n - 1
         /\ \A t : /\ Len(EventsAt(t, 2..n)) = n - 1
                   /\ \A k \in 1..(n - 1) : EventsAt(t, 2..n)[k] = t[k + 1]
<1> DEFINE K == 2..n
           R(i) == Cardinality({j \in K : j <= i})
           Nth(k) == CHOOSE i \in K : R(i) = k
<1>1. IsFiniteSet(K) /\ Cardinality(K) = n - 1
  <2>1. IsFiniteSet(K) /\ Cardinality(K) = IF 2 > n THEN 0 ELSE n - 2 + 1
    BY 2 \in Int, n \in Int, FS_Interval, Zenon
  <2> QED BY <2>1
<1>2. ASSUME NEW i \in K PROVE R(i) = i - 1
  <2>1. {j \in K : j <= i} = 2..i
    OBVIOUS
  <2>2. Cardinality(2..i) = IF 2 > i THEN 0 ELSE i - 2 + 1
    BY 2 \in Int, i \in Int, FS_Interval, Zenon
  <2>3. R(i) = Cardinality(2..i)
    BY <2>1, Zenon
  <2> HIDE DEF R
  <2> QED BY <2>2, <2>3
<1> HIDE DEF R
<1>3. ASSUME NEW k \in 1..(n - 1) PROVE Nth(k) = k + 1
  <2>1. k + 1 \in K /\ R(k + 1) = k
    BY <1>2
  <2>2. \A i \in K : R(i) = k => i = k + 1
    BY <1>2
  <2> QED BY <2>1, <2>2
<1>4. ASSUME NEW t
      PROVE  /\ Len(EventsAt(t, K)) = n - 1
             /\ \A k \in 1..(n - 1) : EventsAt(t, K)[k] = t[k + 1]
  <2>1. EventsAt(t, K) = [k \in 1..(n - 1) |-> t[Nth(k)]]
    BY <1>1 DEF EventsAt, R
  <2> HIDE DEF Nth
  <2>2. \A k \in 1..(n - 1) : EventsAt(t, K)[k] = t[k + 1]
    BY <1>3, <2>1
  <2>3. Len(EventsAt(t, K)) = n - 1
    BY <2>1
  <2> QED BY <2>2, <2>3
<1> QED BY <1>1, <1>4 DEF K

\* A trace whose times do not go back is its own timeline.
LEMMA TimelineOfOrdered ==
  ASSUME NEW t \in Seq(StampedEvents), InTime(t)
  PROVE  Timeline(t) = t
<1> DEFINE n == Len(t)
           rank == [i \in 1..n |-> Cardinality({j \in 1..n : NotAfter(t, j, i)})]
           Place(k) == CHOOSE i \in 1..n : rank[i] = k
<1>1. n \in Nat /\ DOMAIN t = 1..n /\ \A i \in 1..n : t[i].at \in Nat
  BY TraceTyped
<1>2. ASSUME NEW i \in 1..n PROVE rank[i] = i
  <2>1. \A j \in 1..n : NotAfter(t, j, i) <=> j <= i
    BY <1>1 DEF NotAfter, InTime
  <2>2. {j \in 1..n : NotAfter(t, j, i)} = 1..i
    BY <1>1, <2>1
  <2>3. Cardinality(1..i) = i
    <3>1. Cardinality(1..i) = IF 1 > i THEN 0 ELSE i - 1 + 1
      BY 1 \in Int, i \in Int, FS_Interval, Zenon
    <3> QED BY <3>1
  <2> QED BY <2>2, <2>3
<1> HIDE DEF rank
<1>3. ASSUME NEW k \in 1..n PROVE Place(k) = k
  BY <1>2
<1>4. Timeline(t) = [k \in 1..n |-> t[Place(k)]]
  BY DEF Timeline, rank
<1> HIDE DEF Place
<1>5. Timeline(t) = [k \in 1..n |-> t[k]]
  BY <1>3, <1>4
<1>6. t = [k \in DOMAIN t |-> t[k]]
  OBVIOUS
<1> QED BY <1>1, <1>5, <1>6

\* Two traces tell the same but for the event that opens them.
SameTold(t, u) ==
  /\ Len(t) = Len(u) /\ Len(t) # 0
  /\ \A i \in 2..Len(t) : t[i].e = u[i].e
  /\ t[1].e \in {GatewayEvent, ReplayEvent("replay_started")}
  /\ u[1].e \in {GatewayEvent, ReplayEvent("replay_started")}

LEMMA OpeningEvents ==
  ASSUME NEW e \in {GatewayEvent, ReplayEvent("replay_started")}
  PROVE  /\ e.type \notin LIFECYCLE_EVENT_TYPES \cup SCHEDULER_EVENT_TYPES
                            \cup BATCH_EVENT_TYPES \cup BACKEND_EVENT_TYPES
         /\ e.comp \notin EXECUTION_COMPONENTS
         /\ e.to # "submitted"
         /\ e.type \notin {"backend_selected", "routing_failed"}
BY DEF GatewayEvent, ReplayEvent, Event, LIFECYCLE_EVENT_TYPES, SCHEDULER_EVENT_TYPES,
       BATCH_EVENT_TYPES, BACKEND_EVENT_TYPES, EXECUTION_COMPONENTS

LEMMA FiltersAgree ==
  ASSUME NEW t \in Seq(StampedEvents), NEW u \in Seq(StampedEvents), SameTold(t, u),
         NEW T, t[1].e.type \notin T, u[1].e.type \notin T
  PROVE  /\ TypesOf(FilterEvents(t, T)) = TypesOf(FilterEvents(u, T))
         /\ [i \in 1..Len(FilterEvents(t, T)) |-> FilterEvents(t, T)[i].e.to]
              = [i \in 1..Len(FilterEvents(u, T)) |-> FilterEvents(u, T)[i].e.to]
<1>1. Len(t) \in Nat /\ \A i \in 1..Len(t) : i = 1 \/ i \in 2..Len(t)
  BY TraceTyped
<1>2. PICK kept : kept = {i \in 1..Len(t) : t[i].e.type \in T}
  OBVIOUS
<1>3. kept = {i \in 1..Len(u) : u[i].e.type \in T} /\ \A i \in kept : t[i].e = u[i].e
  BY <1>1, <1>2 DEF SameTold
<1>4. kept \in SUBSET (1..Len(t)) /\ IsFiniteSet(1..Len(t))
  BY <1>1, <1>2, FS_Interval
<1>5. IsFiniteSet(kept) /\ kept \in SUBSET Nat
  <2>1. kept \in SUBSET Nat
    BY <1>1, <1>2
  <2> QED BY <2>1, <1>4, FS_Subset
<1>6. PICK a, b : a = EventsAt(t, kept) /\ b = EventsAt(u, kept)
  OBVIOUS
<1>7. Len(a) = Len(b) /\ \A k \in 1..Len(a) : a[k].e = b[k].e
  <2>1. \A i \in kept : t[i].e = u[i].e
    BY <1>3
  <2>2. /\ Cardinality(kept) \in Nat
        /\ Len(EventsAt(t, kept)) = Cardinality(kept) /\ Len(EventsAt(u, kept)) = Cardinality(kept)
        /\ \A k \in 1..Cardinality(kept) : EventsAt(t, kept)[k].e = EventsAt(u, kept)[k].e
    BY <1>5, <2>1, SelectionsAgree
  <2> QED BY <1>6, <2>2
<1>8. FilterEvents(t, T) = a /\ FilterEvents(u, T) = b
  BY <1>2, <1>3, <1>6 DEF FilterEvents
<1>9. /\ [i \in 1..Len(a) |-> a[i].e.type] = [i \in 1..Len(b) |-> b[i].e.type]
      /\ [i \in 1..Len(a) |-> a[i].e.to] = [i \in 1..Len(b) |-> b[i].e.to]
  BY <1>7
<1> QED BY <1>8, <1>9 DEF TypesOf

LEMMA SignaturesAgree ==
  ASSUME NEW t \in Seq(StampedEvents), NEW u \in Seq(StampedEvents), SameTold(t, u)
  PROVE  ExecutionEventSignature(t) = ExecutionEventSignature(u)
<1>1. Len(t) \in Nat /\ \A i \in 1..Len(t) : i = 1 \/ i \in 2..Len(t)
  BY TraceTyped
<1>2. PICK kept : kept = {i \in 1..Len(t) : t[i].e.comp \in EXECUTION_COMPONENTS}
  OBVIOUS
<1>3. t[1].e.comp \notin EXECUTION_COMPONENTS /\ u[1].e.comp \notin EXECUTION_COMPONENTS
  BY OpeningEvents DEF SameTold
<1>4. /\ kept = {i \in 1..Len(u) : u[i].e.comp \in EXECUTION_COMPONENTS}
      /\ \A i \in kept : t[i].e = u[i].e
  BY <1>1, <1>2, <1>3 DEF SameTold
<1>5. kept \in SUBSET (1..Len(t)) /\ IsFiniteSet(1..Len(t))
  BY <1>1, <1>2, FS_Interval
<1>6. IsFiniteSet(kept) /\ kept \in SUBSET Nat
  <2>1. kept \in SUBSET Nat
    BY <1>1, <1>2
  <2> QED BY <2>1, <1>5, FS_Subset
<1>7. PICK a, b : a = EventsAt(t, kept) /\ b = EventsAt(u, kept)
  OBVIOUS
<1>8. Len(a) = Len(b) /\ \A k \in 1..Len(a) : a[k].e = b[k].e
  <2>1. \A i \in kept : t[i].e = u[i].e
    BY <1>4
  <2>2. /\ Cardinality(kept) \in Nat
        /\ Len(EventsAt(t, kept)) = Cardinality(kept) /\ Len(EventsAt(u, kept)) = Cardinality(kept)
        /\ \A k \in 1..Cardinality(kept) : EventsAt(t, kept)[k].e = EventsAt(u, kept)[k].e
    BY <1>6, <2>1, SelectionsAgree
  <2> QED BY <1>7, <2>2
<1>9. /\ ExecutionEventSignature(t) = [i \in 1..Len(a) |-> <<a[i].e.comp, a[i].e.type>>]
      /\ ExecutionEventSignature(u) = [i \in 1..Len(b) |-> <<b[i].e.comp, b[i].e.type>>]
  BY <1>2, <1>4, <1>7 DEF ExecutionEventSignature
<1> QED BY <1>8, <1>9

\* Such traces give the same record.
LEMMA RecordsAgree ==
  ASSUME NEW t \in Seq(StampedEvents), NEW u \in Seq(StampedEvents), SameTold(t, u),
         InTime(t), InTime(u), NEW s, NEW why, NEW b
  PROVE  CaptureExecutionRecord(t, s, why, b) = CaptureExecutionRecord(u, s, why, b)
<1>1. Timeline(t) = t /\ Timeline(u) = u
  BY TimelineOfOrdered
<1>2. \A T \in {LIFECYCLE_EVENT_TYPES, SCHEDULER_EVENT_TYPES, BATCH_EVENT_TYPES, BACKEND_EVENT_TYPES} :
        t[1].e.type \notin T /\ u[1].e.type \notin T
  BY OpeningEvents DEF SameTold
<1>3. ExtractLifecycleTransitions(t) = ExtractLifecycleTransitions(u)
  BY <1>2, FiltersAgree DEF ExtractLifecycleTransitions
<1>4. \A T \in {SCHEDULER_EVENT_TYPES, BATCH_EVENT_TYPES, BACKEND_EVENT_TYPES} :
        TypesOf(FilterEvents(t, T)) = TypesOf(FilterEvents(u, T))
  BY <1>2, FiltersAgree
<1>5. ExecutionEventSignature(t) = ExecutionEventSignature(u)
  BY SignaturesAgree
<1> QED BY <1>1, <1>3, <1>4, <1>5 DEF CaptureExecutionRecord

\* The stage SUBMITTED was seen in both or in neither.
LEMMA SubmissionsAgree ==
  ASSUME NEW t \in Seq(StampedEvents), NEW u \in Seq(StampedEvents), SameTold(t, u),
         \A i \in 1..Len(t) : t[i].at # 0 /\ u[i].at # 0
  PROVE  SeenAt(t, "submitted") = 0 <=> SeenAt(u, "submitted") = 0
<1> DEFINE A == {i \in 1..Len(t) : t[i].e.to = "submitted"}
<1>1. Len(t) \in Nat
  BY TraceTyped
<1>2. \A i \in 1..Len(t) : i = 1 \/ i \in 2..Len(t)
  BY <1>1
<1>3. t[1].e.to # "submitted" /\ u[1].e.to # "submitted"
  BY OpeningEvents DEF SameTold
<1>4. A = {i \in 1..Len(u) : u[i].e.to = "submitted"}
  BY <1>2, <1>3 DEF SameTold
<1>5. A # {} => \E i \in A : \A j \in A : i <= j
  <2>1. A \in SUBSET Nat
    OBVIOUS
  <2> QED BY <2>1, Smallest
<1>6. A # {} => (CHOOSE i \in A : \A j \in A : i <= j) \in A
  BY <1>5
<1>7. \A i \in A : t[i].at # 0 /\ u[i].at # 0
  BY DEF SameTold
<1>8. /\ SeenAt(t, "submitted")
           = IF A = {} THEN 0 ELSE t[CHOOSE i \in A : \A j \in A : i <= j].at
      /\ SeenAt(u, "submitted")
           = IF A = {} THEN 0 ELSE u[CHOOSE i \in A : \A j \in A : i <= j].at
  <2> DEFINE B == {i \in 1..Len(u) : u[i].e.to = "submitted"}
  <2>1. SeenAt(t, "submitted")
           = IF A = {} THEN 0 ELSE t[CHOOSE i \in A : \A j \in A : i <= j].at
    BY DEF SeenAt
  <2>2. SeenAt(u, "submitted")
           = IF B = {} THEN 0 ELSE u[CHOOSE i \in B : \A j \in B : i <= j].at
    BY DEF SeenAt
  <2>3. A = B
    BY <1>4
  <2> HIDE DEF A, B
  <2> QED BY <2>1, <2>2, <2>3
<1> HIDE DEF A
<1> QED BY <1>6, <1>7, <1>8

-----------------------------------------------------------------------------
(***************************************************************************)
(* Scripts and the traces they tell.                                       *)
(***************************************************************************)
LEMMA HeardCounted ==
  ASSUME NEW s, NEW i
  PROVE  Len(Heard(s, i)) \in 0..5
<1>1. CASE s[i] \in Judgements
  <2>1. Heard(s, i) = Opening(Judged(s[i]))
    BY <1>1 DEF Heard, Judgements
  <2>2. Len(Opening(Judged(s[i]))) \in 0..5
    BY <1>1 DEF Judgements, Judged, Opening
  <2> QED BY <2>1, <2>2
<1>2. CASE s[i] \notin Judgements
  BY <1>2 DEF Heard, Routed
<1> QED BY <1>1, <1>2

\* Steps tell by what came before them.
LEMMA HeardAgrees ==
  ASSUME NEW s, NEW u, NEW n \in Nat, \A j \in 1..n : s[j] = u[j], NEW i \in 1..n
  PROVE  Heard(s, i) = Heard(u, i) /\ Hands(s, i) = Hands(u, i)
<1>1. s[i] = u[i] /\ s[1] = u[1] /\ \A j \in 1..i : s[j] = u[j]
  OBVIOUS
<1>2. {j \in 1..i : s[j] = <<"handed">>} = {j \in 1..i : u[j] = <<"handed">>}
  BY <1>1
<1>3. Hands(s, i) = Hands(u, i)
  BY <1>2 DEF Hands
<1>4. Leads(s) = Leads(u)
  BY <1>1 DEF Leads
<1>5. \A x : Routed(s, x) = Routed(u, x)
  BY <1>4 DEF Routed
<1> QED BY <1>1, <1>3, <1>4, <1>5 DEF Heard

LEMMA MarksAgree ==
  ASSUME NEW s, NEW u, Len(s) \in Nat, Len(u) \in Nat,
         NEW t1, NEW t2, NEW m1, NEW m2, NEW rest1, NEW rest2,
         Tells(t1, s, m1, rest1), Tells(t2, u, m2, rest2),
         NEW n \in 0..Len(s), n <= Len(u), \A j \in 1..n : s[j] = u[j]
  PROVE  \A i \in 0..n : m1[i] = m2[i]
<1> DEFINE D == {i \in 0..n : m1[i] # m2[i]}
<1>1. SUFFICES ASSUME D # {} PROVE FALSE
  OBVIOUS
<1>2. PICK i \in D : \A j \in D : i <= j
  <2>1. D \in SUBSET Nat
    OBVIOUS
  <2> QED BY <1>1, <2>1, Smallest
<1>3. i # 0
  BY DEF Tells
<1>4. i - 1 \in 0..n /\ i - 1 \notin D /\ i \in 1..n
  BY <1>2, <1>3
<1>5. m1[i - 1] = m2[i - 1]
  BY <1>4
<1>6. Heard(s, i) = Heard(u, i)
  <2>1. n \in Nat /\ i \in 1..n
    BY <1>4
  <2> HIDE DEF D
  <2> QED BY <2>1, HeardAgrees
<1>7. m1[i] = m1[i - 1] + Len(Heard(s, i)) /\ m2[i] = m2[i - 1] + Len(Heard(u, i))
  BY <1>4 DEF Tells
<1> QED BY <1>5, <1>6, <1>7

\* Every event but the first belongs to a step or to the rest.
LEMMA EventsHaveSteps ==
  ASSUME NEW s, Len(s) \in Nat, NEW t, NEW m, NEW rest, Len(rest) \in Nat,
         Tells(t, s, m, rest), NEW p \in 2..Len(t)
  PROVE  \/ \E i \in 1..Len(s) : \E k \in 1..Len(Heard(s, i)) : p = m[i - 1] + k
         \/ \E k \in 1..Len(rest) : p = m[Len(s)] + k
<1>0. /\ m \in [0..Len(s) -> Nat] /\ m[0] = 1 /\ Len(t) = m[Len(s)] + Len(rest)
      /\ \A i \in 1..Len(s) : m[i] = m[i - 1] + Len(Heard(s, i))
  BY DEF Tells
<1>1. m[Len(s)] \in Nat
  BY <1>0
<1>2. CASE p > m[Len(s)]
  <2>1. p - m[Len(s)] \in 1..Len(rest)
    BY <1>0, <1>1, <1>2
  <2>2. p = m[Len(s)] + (p - m[Len(s)])
    BY <1>1
  <2> QED BY <2>1, <2>2
<1>3. CASE ~(p > m[Len(s)])
  <2> DEFINE D == {i \in 0..Len(s) : p <= m[i]}
  <2>1. Len(s) \in D
    BY <1>1, <1>3
  <2>2. PICK i \in D : \A j \in D : i <= j
    <3>1. D \in SUBSET Nat
      OBVIOUS
    <3> QED BY <2>1, <3>1, Smallest
  <2>3. i # 0
    BY <1>0
  <2>4. i - 1 \in 0..Len(s) /\ i - 1 \notin D /\ i \in 1..Len(s)
    BY <2>2, <2>3
  <2>5. m[i - 1] \in Nat /\ m[i] \in Nat /\ m[i - 1] < p /\ p <= m[i]
    BY <1>0, <2>4
  <2>6. m[i] = m[i - 1] + Len(Heard(s, i)) /\ Len(Heard(s, i)) \in Nat
    BY <1>0, <2>4, HeardCounted
  <2>7. p - m[i - 1] \in 1..Len(Heard(s, i)) /\ p = m[i - 1] + (p - m[i - 1])
    BY <2>5, <2>6
  <2> QED BY <2>4, <2>7
<1> QED BY <1>2, <1>3

\* A script and a rest tell one trace, but for its times and its opening.
LEMMA SameScriptSameTold ==
  ASSUME NEW s, Len(s) \in Nat, NEW rest, Len(rest) \in Nat,
         NEW t, NEW u, NEW m1, NEW m2,
         Tells(t, s, m1, rest), Tells(u, s, m2, rest)
  PROVE  SameTold(t, u)
<1>1. \A i \in 0..Len(s) : m1[i] = m2[i]
  BY MarksAgree
<1>2. m1 = m2
  BY <1>1 DEF Tells
<1>3. Len(t) = Len(u) /\ Len(t) # 0 /\ m1[Len(s)] \in Nat
  <2>1. m1[Len(s)] # 0
    <3>1. CASE Len(s) = 0
      BY <3>1 DEF Tells
    <3>2. CASE Len(s) # 0
      <4> DEFINE D == {i \in 0..Len(s) : m1[i] = 0}
      <4>1. SUFFICES ASSUME D # {} PROVE FALSE
        OBVIOUS
      <4>2. PICK i \in D : \A j \in D : i <= j
        <5>1. D \in SUBSET Nat
          OBVIOUS
        <5> QED BY <4>1, <5>1, Smallest
      <4>3. i # 0
        BY DEF Tells
      <4>4. i - 1 \in 0..Len(s) /\ i - 1 \notin D /\ i \in 1..Len(s)
        BY <4>2, <4>3
      <4>5. m1[i - 1] \in Nat /\ m1[i - 1] # 0 /\ Len(Heard(s, i)) \in Nat
        <5>1. m1[i - 1] \in Nat
          BY <4>4 DEF Tells
        <5>2. m1[i - 1] # 0
          BY <4>4
        <5>3. Len(Heard(s, i)) \in 0..5
          BY HeardCounted
        <5> QED BY <5>1, <5>2, <5>3
      <4>6. m1[i] = m1[i - 1] + Len(Heard(s, i))
        BY <4>4 DEF Tells
      <4> QED BY <4>5, <4>6
    <3> QED BY <3>1, <3>2
  <2> QED BY <1>2, <2>1 DEF Tells
<1>4. ASSUME NEW p \in 2..Len(t) PROVE t[p].e = u[p].e
  <2>1. CASE \E i \in 1..Len(s) : \E k \in 1..Len(Heard(s, i)) : p = m1[i - 1] + k
    <3>1. PICK i \in 1..Len(s) : \E k \in 1..Len(Heard(s, i)) : p = m1[i - 1] + k
      BY <2>1
    <3>2. PICK k \in 1..Len(Heard(s, i)) : p = m1[i - 1] + k
      BY <3>1
    <3>3. t[m1[i - 1] + k].e = Heard(s, i)[k] /\ u[m2[i - 1] + k].e = Heard(s, i)[k]
      BY DEF Tells
    <3> QED BY <1>2, <3>2, <3>3
  <2>2. CASE \E k \in 1..Len(rest) : p = m1[Len(s)] + k
    BY <1>2, <2>2 DEF Tells
  <2> QED BY <2>1, <2>2, EventsHaveSteps
<1> QED BY <1>3, <1>4 DEF SameTold, Tells

-----------------------------------------------------------------------------
(***************************************************************************)
(* The same script gives the same record.                                  *)
(***************************************************************************)
LEMMA OutcomeDetermined ==
  ASSUME NEW s, NEW stream, NEW replayed, stream => s[2] # <<"skipped">>, ~replayed,
         NEW rest1, NEW st1, NEW why1, NEW rest2, NEW st2, NEW why2,
         Outcome(s, stream, rest1, st1, why1), Outcome(s, replayed, rest2, st2, why2)
  PROVE  rest1 = rest2 /\ st1 = st2 /\ why1 = why2
<1> DEFINE x == s[Len(s)]
<1>1. CASE x \in {<<"rejected">>, <<"admission_error">>, <<"queue_full">>,
                  <<"stream_error">>, <<"cancelled">>}
  <2>1. CASE x = <<"rejected">>
    BY <2>1 DEF Outcome
  <2>2. CASE x = <<"admission_error">>
    BY <2>2 DEF Outcome
  <2>3. CASE x = <<"queue_full">>
    BY <2>3 DEF Outcome
  <2>4. CASE x = <<"stream_error">>
    BY <2>4 DEF Outcome
  <2>5. CASE x = <<"cancelled">>
    BY <2>5 DEF Outcome
  <2> QED BY <1>1, <2>1, <2>2, <2>3, <2>4, <2>5
<1>2. CASE x \notin {<<"rejected">>, <<"admission_error">>, <<"queue_full">>,
                     <<"stream_error">>, <<"cancelled">>}
  <2>1. s[2] \in Judgements
    BY <1>2 DEF Outcome
  <2>2. /\ OwnVerdict(s) \in {"refused", "absent", "skipped", "placed"}
        /\ OwnVerdict(s) = "skipped" => ~stream
    BY <2>1 DEF OwnVerdict, Judgements
  <2> QED BY <1>2, <2>2 DEF Outcome
<1> QED BY <1>1, <1>2

Rests == {<<>>, <<Failing>>, Placing, Refusing, Completing, StreamFailing, LateFailing}

LEMMA RestOfOutcome ==
  ASSUME NEW s, NEW stream, NEW rest, NEW st, NEW why, Outcome(s, stream, rest, st, why)
  PROVE  rest \in Rests
<1> DEFINE x == s[Len(s)]
<1>1. CASE x \in {<<"rejected">>, <<"admission_error">>, <<"queue_full">>,
                  <<"stream_error">>, <<"cancelled">>}
  BY <1>1 DEF Outcome, Rests
<1>2. CASE x \notin {<<"rejected">>, <<"admission_error">>, <<"queue_full">>,
                     <<"stream_error">>, <<"cancelled">>}
  <2>1. s[2] \in Judgements
    BY <1>2 DEF Outcome
  <2>2. OwnVerdict(s) \in {"refused", "absent", "skipped", "placed"}
    BY <2>1 DEF OwnVerdict, Judgements
  <2> QED BY <1>2, <2>2 DEF Outcome, Rests
<1> QED BY <1>1, <1>2

LEMMA RestsTyped ==
  ASSUME NEW rest \in Rests
  PROVE  /\ Len(rest) \in 0..7
         /\ \A k \in 1..Len(rest) :
              /\ rest[k].comp \in EXECUTION_COMPONENTS
              /\ rest[k].type \notin {"backend_selected", "routing_failed"}
<1> USE DEF Failing, Placing, Refusing, Completing, StreamFailing, LateFailing, Removed,
            SchedulerEvent, TransitionEvent, StateEvent, Event, EXECUTION_COMPONENTS
<1>1. CASE rest = <<>>
  BY <1>1
<1>2. CASE rest = <<Failing>>
  BY <1>2
<1>3. CASE rest = Placing
  BY <1>3
<1>4. CASE rest = Refusing
  BY <1>4
<1>5. CASE rest = Completing
  BY <1>5
<1>6. CASE rest = StreamFailing
  BY <1>6
<1>7. CASE rest = LateFailing
  BY <1>7
<1> QED BY <1>1, <1>2, <1>3, <1>4, <1>5, <1>6, <1>7 DEF Rests

LEMMA SameScriptSameRecord ==
  ASSUME NEW s, NEW stream, NEW replayed, stream => s[2] # <<"skipped">>, ~replayed,
         NEW a, NEW b, Fits(s, stream, a), Fits(s, replayed, b)
  PROVE  a = b
<1>1. PICK t, m, rest :
        /\ t \in Seq(StampedEvents)
        /\ InTime(t)
        /\ \A i \in 1..Len(t) : t[i].at # 0
        /\ Tells(t, s, m, rest)
        /\ Outcome(s, stream, rest, a.state, a.failure_reason)
        /\ a = CaptureExecutionRecord(t, a.state, a.failure_reason,
                 IF SeenAt(t, "submitted") = 0 THEN 0 ELSE Hands(s, Len(s)))
  BY DEF Fits
<1>2. PICK u, n, rest2 :
        /\ u \in Seq(StampedEvents)
        /\ InTime(u)
        /\ \A i \in 1..Len(u) : u[i].at # 0
        /\ Tells(u, s, n, rest2)
        /\ Outcome(s, replayed, rest2, b.state, b.failure_reason)
        /\ b = CaptureExecutionRecord(u, b.state, b.failure_reason,
                 IF SeenAt(u, "submitted") = 0 THEN 0 ELSE Hands(s, Len(s)))
  BY DEF Fits
<1>3. rest = rest2 /\ a.state = b.state /\ a.failure_reason = b.failure_reason
  <2>1. /\ Outcome(s, stream, rest, a.state, a.failure_reason)
        /\ Outcome(s, replayed, rest2, b.state, b.failure_reason)
    BY <1>1, <1>2
  <2> QED BY <2>1, OutcomeDetermined, Zenon
<1>4. Len(s) \in Nat
  BY LenProperties DEF Fits, WellTold
<1>5. Len(rest) \in Nat
  <2>1. Len(rest) \in 0..7
    BY <1>1, RestOfOutcome, RestsTyped
  <2> QED BY <2>1
<1>6. SameTold(t, u)
  BY <1>1, <1>2, <1>3, <1>4, <1>5, SameScriptSameTold
<1>7. SeenAt(t, "submitted") = 0 <=> SeenAt(u, "submitted") = 0
  BY <1>1, <1>2, <1>6, SubmissionsAgree DEF SameTold
<1>8. \A c : CaptureExecutionRecord(t, a.state, a.failure_reason, c)
               = CaptureExecutionRecord(u, a.state, a.failure_reason, c)
  BY <1>1, <1>2, <1>6, RecordsAgree
<1> QED BY <1>1, <1>2, <1>3, <1>7, <1>8

-----------------------------------------------------------------------------
(***************************************************************************)
(* The same record means the same script.                                  *)
(***************************************************************************)
\* What each step tells.
LEMMA HeardOfJudgement ==
  ASSUME NEW s, NEW i
  PROVE  /\ s[i] = <<"absent">> => Heard(s, i) = <<Admission, Enqueuing, Queuing>>
         /\ s[i] = <<"skipped">> =>
              Heard(s, i) = <<Admission, Enqueuing, Queuing, SchedulerEvent("request_skipped")>>
         /\ s[i] = <<"lost", "refused">> =>
              Heard(s, i) = <<Admission, Enqueuing, Queuing, SchedulerEvent("batch_admission")>>
         /\ s[i] = <<"lost", "placed">> =>
              Heard(s, i) = <<Admission, Enqueuing, Queuing, SchedulerEvent("request_added_to_batch")>>
         /\ s[i] = <<"refused">> =>
              Heard(s, i) = <<Admission, Enqueuing, Queuing, SchedulerEvent("batch_admission"),
                              SchedulerEvent("request_selected")>>
         /\ s[i] = <<"placed">> =>
              Heard(s, i) = <<Admission, Enqueuing, Queuing, SchedulerEvent("request_added_to_batch"),
                              SchedulerEvent("request_selected")>>
<1>1. s[i] \in Judgements => Heard(s, i) = Opening(Judged(s[i]))
  BY DEF Heard, Judgements
<1>2. Opening(<<>>) = <<Admission, Enqueuing, Queuing>>
  BY DEF Opening
<1>3. ASSUME NEW a PROVE Opening(<<a>>) = <<Admission, Enqueuing, Queuing, SchedulerEvent(a)>>
  BY DEF Opening
<1>4. ASSUME NEW a, NEW b
      PROVE  Opening(<<a, b>>) = <<Admission, Enqueuing, Queuing, SchedulerEvent(a), SchedulerEvent(b)>>
  BY DEF Opening
<1>5. CASE s[i] = <<"absent">>
  <2>1. Judged(s[i]) = <<>>
    BY <1>5 DEF Judged
  <2> QED BY <1>5, <1>1, <1>2, <2>1 DEF Judgements
<1>6. CASE s[i] = <<"skipped">>
  <2>1. Judged(s[i]) = <<"request_skipped">>
    BY <1>6 DEF Judged
  <2> QED BY <1>6, <1>1, <1>3, <2>1 DEF Judgements
<1>7. CASE s[i] = <<"lost", "refused">>
  <2>1. Judged(s[i]) = <<"batch_admission">>
    BY <1>7 DEF Judged
  <2> QED BY <1>7, <1>1, <1>3, <2>1 DEF Judgements
<1>8. CASE s[i] = <<"lost", "placed">>
  <2>1. Judged(s[i]) = <<"request_added_to_batch">>
    BY <1>8 DEF Judged
  <2> QED BY <1>8, <1>1, <1>3, <2>1 DEF Judgements
<1>9. CASE s[i] = <<"refused">>
  <2>1. Judged(s[i]) = <<"batch_admission", "request_selected">>
    BY <1>9 DEF Judged
  <2> QED BY <1>9, <1>1, <1>4, <2>1 DEF Judgements
<1>10. CASE s[i] = <<"placed">>
  <2>1. Judged(s[i]) = <<"request_added_to_batch", "request_selected">>
    BY <1>10 DEF Judged
  <2> QED BY <1>10, <1>1, <1>4, <2>1 DEF Judgements
<1> QED BY <1>5, <1>6, <1>7, <1>8, <1>9, <1>10

LEMMA HeardOfStep ==
  ASSUME NEW s, NEW i
  PROVE  /\ s[i] \in {<<"lead">>, <<"follow">>} =>
              Heard(s, i) = <<StateEvent("request_received", "received"),
                              TransitionEvent("request_validated", "validated")>>
         /\ s[i] = <<"rejected">> => Heard(s, i) = <<StateEvent("request_rejected", "rejected")>>
         /\ s[i] = <<"admission_error">> => Heard(s, i) = <<StateEvent("request_failed", "failed")>>
         /\ s[i] = <<"queue_full">> =>
              Heard(s, i) = <<Admission, QueueEvent("queue_full"),
                              FailureOf(QueueEvent("queue_full"), "rejected")>>
         /\ s[i] = <<"accepted">> => Heard(s, i) = <<AdapterEvent("batch_accepted")>>
         /\ s[i] = <<"declined">> =>
              Heard(s, i) = <<AdapterEvent("batch_rejected"),
                              FailureOf(AdapterEvent("batch_rejected"), "failed")>>
         /\ s[i] \in {<<"not_dispatched">>, <<"stream_error">>, <<"cancelled">>} => Heard(s, i) = <<>>
         /\ s[i] = <<"handed">> =>
              Heard(s, i) = IF Leads(s)
                            THEN <<SchedulerEvent("backend_selected"), AdapterEvent("batch_submitted")>>
                            ELSE <<AdapterEvent("batch_submitted")>>
         /\ s[i] = <<"no_route">> =>
              Heard(s, i) = IF Leads(s) THEN <<SchedulerEvent("routing_failed")>> ELSE <<>>
         /\ s[i] = <<"raised">> =>
              Heard(s, i) = IF Leads(s)
                            THEN <<SchedulerEvent(IF Hands(s, i) < MaxAttempts THEN "backend_selected"
                                                  ELSE "routing_failed")>>
                            ELSE <<>>
<1>1. s[i] \in {<<"lead">>, <<"follow">>} =>
        Heard(s, i) = <<StateEvent("request_received", "received"),
                        TransitionEvent("request_validated", "validated")>>
  BY DEF Heard, Judgements
<1>2. s[i] = <<"rejected">> => Heard(s, i) = <<StateEvent("request_rejected", "rejected")>>
  BY DEF Heard, Judgements
<1>3. s[i] = <<"admission_error">> => Heard(s, i) = <<StateEvent("request_failed", "failed")>>
  BY DEF Heard, Judgements
<1>4. s[i] = <<"queue_full">> =>
        Heard(s, i) = <<Admission, QueueEvent("queue_full"),
                        FailureOf(QueueEvent("queue_full"), "rejected")>>
  BY DEF Heard, Judgements
<1>5. s[i] = <<"accepted">> => Heard(s, i) = <<AdapterEvent("batch_accepted")>>
  BY DEF Heard, Judgements
<1>6. s[i] = <<"declined">> =>
        Heard(s, i) = <<AdapterEvent("batch_rejected"),
                        FailureOf(AdapterEvent("batch_rejected"), "failed")>>
  BY DEF Heard, Judgements
<1>7. s[i] \in {<<"not_dispatched">>, <<"stream_error">>, <<"cancelled">>} => Heard(s, i) = <<>>
  BY DEF Heard, Judgements
<1>8. s[i] = <<"handed">> =>
        Heard(s, i) = IF Leads(s)
                      THEN <<SchedulerEvent("backend_selected"), AdapterEvent("batch_submitted")>>
                      ELSE <<AdapterEvent("batch_submitted")>>
  BY DEF Heard, Judgements
<1>9. s[i] = <<"no_route">> => Heard(s, i) = Routed(s, "routing_failed")
  BY DEF Heard, Judgements
<1>10. s[i] = <<"raised">> =>
         Heard(s, i) = Routed(s, IF Hands(s, i) < MaxAttempts THEN "backend_selected"
                                 ELSE "routing_failed")
  BY DEF Heard, Judgements
<1>11. \A x : Routed(s, x) = IF Leads(s) THEN <<SchedulerEvent(x)>> ELSE <<>>
  BY DEF Routed
<1> QED BY <1>1, <1>2, <1>3, <1>4, <1>5, <1>6, <1>7, <1>8, <1>9, <1>10, <1>11, Zenon

\* Only the execution components tell of a step, and routing only of a lead.
Plain(e) == e.comp \in EXECUTION_COMPONENTS /\ e.type \notin {"backend_selected", "routing_failed"}

LEMMA PlainEvents ==
  /\ Plain(Admission) /\ Plain(Enqueuing) /\ Plain(Queuing)
  /\ Plain(SchedulerEvent("request_skipped")) /\ Plain(SchedulerEvent("request_selected"))
  /\ Plain(SchedulerEvent("batch_admission")) /\ Plain(SchedulerEvent("request_added_to_batch"))
  /\ Plain(StateEvent("request_received", "received"))
  /\ Plain(TransitionEvent("request_validated", "validated"))
  /\ Plain(StateEvent("request_rejected", "rejected")) /\ Plain(StateEvent("request_failed", "failed"))
  /\ Plain(QueueEvent("queue_full")) /\ Plain(FailureOf(QueueEvent("queue_full"), "rejected"))
  /\ Plain(AdapterEvent("batch_accepted")) /\ Plain(AdapterEvent("batch_submitted"))
  /\ Plain(AdapterEvent("batch_rejected")) /\ Plain(FailureOf(AdapterEvent("batch_rejected"), "failed"))
  /\ \A x : SchedulerEvent(x).comp \in EXECUTION_COMPONENTS
BY DEF Plain, Admission, Enqueuing, Queuing, SchedulerEvent, AdapterEvent, QueueEvent, FailureOf,
       TransitionEvent, StateEvent, Event, EXECUTION_COMPONENTS

LEMMA HeardTyped ==
  ASSUME NEW s, NEW i, NEW k \in 1..Len(Heard(s, i))
  PROVE  /\ Heard(s, i)[k].comp \in EXECUTION_COMPONENTS
         /\ Heard(s, i)[k].type \in {"backend_selected", "routing_failed"} => Leads(s)
<1>1. ASSUME Plain(Heard(s, i)[k])
      PROVE  /\ Heard(s, i)[k].comp \in EXECUTION_COMPONENTS
             /\ Heard(s, i)[k].type \in {"backend_selected", "routing_failed"} => Leads(s)
  BY <1>1 DEF Plain
<1>2. CASE s[i] \in Judgements
  <2>1. Plain(Heard(s, i)[k])
    <3>1. CASE s[i] = <<"absent">>
      <4>1. Heard(s, i) = <<Admission, Enqueuing, Queuing>>
        BY <3>1, HeardOfJudgement
      <4> QED BY <4>1, PlainEvents
    <3>2. CASE s[i] = <<"skipped">>
      <4>1. Heard(s, i) = <<Admission, Enqueuing, Queuing, SchedulerEvent("request_skipped")>>
        BY <3>2, HeardOfJudgement
      <4> QED BY <4>1, PlainEvents
    <3>3. CASE s[i] = <<"lost", "refused">>
      <4>1. Heard(s, i) = <<Admission, Enqueuing, Queuing, SchedulerEvent("batch_admission")>>
        BY <3>3, HeardOfJudgement
      <4> QED BY <4>1, PlainEvents
    <3>4. CASE s[i] = <<"lost", "placed">>
      <4>1. Heard(s, i) = <<Admission, Enqueuing, Queuing, SchedulerEvent("request_added_to_batch")>>
        BY <3>4, HeardOfJudgement
      <4> QED BY <4>1, PlainEvents
    <3>5. CASE s[i] = <<"refused">>
      <4>1. Heard(s, i) = <<Admission, Enqueuing, Queuing, SchedulerEvent("batch_admission"),
                         SchedulerEvent("request_selected")>>
        BY <3>5, HeardOfJudgement
      <4> QED BY <4>1, PlainEvents
    <3>6. CASE s[i] = <<"placed">>
      <4>1. Heard(s, i) = <<Admission, Enqueuing, Queuing, SchedulerEvent("request_added_to_batch"),
                         SchedulerEvent("request_selected")>>
        BY <3>6, HeardOfJudgement
      <4> QED BY <4>1, PlainEvents
    <3> QED BY <1>2, <3>1, <3>2, <3>3, <3>4, <3>5, <3>6 DEF Judgements
  <2> QED BY <2>1, <1>1
<1>3. CASE s[i] \in {<<"lead">>, <<"follow">>}
  <2>1. Plain(Heard(s, i)[k])
    BY <1>3, HeardOfStep, PlainEvents
  <2> QED BY <2>1, <1>1
<1>4. CASE s[i] \in {<<"rejected">>, <<"admission_error">>, <<"queue_full">>}
  <2>1. CASE s[i] = <<"rejected">>
    <3>1. Plain(Heard(s, i)[k])
      BY <2>1, HeardOfStep, PlainEvents
    <3> QED BY <3>1, <1>1
  <2>2. CASE s[i] = <<"admission_error">>
    <3>1. Plain(Heard(s, i)[k])
      BY <2>2, HeardOfStep, PlainEvents
    <3> QED BY <3>1, <1>1
  <2>3. CASE s[i] = <<"queue_full">>
    <3>1. Plain(Heard(s, i)[k])
      BY <2>3, HeardOfStep, PlainEvents
    <3> QED BY <3>1, <1>1
  <2> QED BY <1>4, <2>1, <2>2, <2>3
<1>5. CASE s[i] \in {<<"accepted">>, <<"declined">>}
  <2>1. CASE s[i] = <<"accepted">>
    <3>1. Plain(Heard(s, i)[k])
      BY <2>1, HeardOfStep, PlainEvents
    <3> QED BY <3>1, <1>1
  <2>2. CASE s[i] = <<"declined">>
    <3>1. Plain(Heard(s, i)[k])
      BY <2>2, HeardOfStep, PlainEvents
    <3> QED BY <3>1, <1>1
  <2> QED BY <1>5, <2>1, <2>2
<1>6. CASE s[i] = <<"handed">>
  <2>1. CASE Leads(s)
    <3>1. Heard(s, i) = <<SchedulerEvent("backend_selected"), AdapterEvent("batch_submitted")>>
      BY <1>6, <2>1, HeardOfStep
    <3> QED BY <2>1, <3>1, PlainEvents DEF Plain
  <2>2. CASE ~Leads(s)
    <3>1. Heard(s, i) = <<AdapterEvent("batch_submitted")>>
      BY <1>6, <2>2, HeardOfStep
    <3>2. Plain(Heard(s, i)[k])
      BY <3>1, PlainEvents
    <3> QED BY <3>2, <1>1
  <2> QED BY <2>1, <2>2
<1>7. CASE s[i] \in {<<"no_route">>, <<"raised">>}
  <2>1. Leads(s) /\ \E x : Heard(s, i) = <<SchedulerEvent(x)>>
    <3>1. Leads(s)
      BY <1>7, HeardOfStep
    <3> QED BY <1>7, <3>1, HeardOfStep
  <2> QED BY <2>1, PlainEvents
<1>8. CASE s[i] \notin Judgements \cup {<<"lead">>, <<"follow">>}
             \cup {<<"rejected">>, <<"admission_error">>, <<"queue_full">>}
             \cup {<<"accepted">>, <<"declined">>} \cup {<<"handed">>}
             \cup {<<"no_route">>, <<"raised">>}
  BY <1>8 DEF Heard
<1> QED BY <1>2, <1>3, <1>4, <1>5, <1>6, <1>7, <1>8

\* What all events but the first are.
LEMMA ToldTyped ==
  ASSUME NEW s, Len(s) \in Nat, NEW rest \in Rests, NEW t, NEW m,
         Tells(t, s, m, rest), NEW p \in 2..Len(t)
  PROVE  /\ t[p].e.comp \in EXECUTION_COMPONENTS
         /\ t[p].e.type \in {"backend_selected", "routing_failed"} => Leads(s)
<1>1. Len(rest) \in Nat
  <2>1. Len(rest) \in 0..7
    BY RestsTyped
  <2> QED BY <2>1
<1>2. CASE \E i \in 1..Len(s) : \E k \in 1..Len(Heard(s, i)) : p = m[i - 1] + k
  <2>1. PICK i \in 1..Len(s) : \E k \in 1..Len(Heard(s, i)) : p = m[i - 1] + k
    BY <1>2
  <2>2. PICK k \in 1..Len(Heard(s, i)) : p = m[i - 1] + k
    BY <2>1
  <2>3. t[m[i - 1] + k].e = Heard(s, i)[k]
    BY DEF Tells
  <2> QED BY <2>2, <2>3, HeardTyped
<1>3. CASE \E k \in 1..Len(rest) : p = m[Len(s)] + k
  <2>1. PICK k \in 1..Len(rest) : p = m[Len(s)] + k
    BY <1>3
  <2>2. t[p].e = rest[k]
    BY <2>1 DEF Tells
  <2> QED BY <2>2, RestsTyped
<1> QED BY <1>1, <1>2, <1>3, EventsHaveSteps

LEMMA SignatureTells ==
  ASSUME NEW s, Len(s) \in Nat, NEW rest \in Rests,
         NEW t \in Seq(StampedEvents), NEW m, Tells(t, s, m, rest), Len(t) # 0
  PROVE  /\ Len(ExecutionEventSignature(t)) = Len(t) - 1
         /\ \A k \in 1..(Len(t) - 1) :
              ExecutionEventSignature(t)[k] = <<t[k + 1].e.comp, t[k + 1].e.type>>
<1>1. Len(t) \in Nat
  BY TraceTyped
<1>2. PICK n \in Nat : n = Len(t)
  BY <1>1
<1>3. t[1].e.comp \notin EXECUTION_COMPONENTS
  BY OpeningEvents DEF Tells
<1>4. \A i \in 1..n : i = 1 \/ i \in 2..n
  BY <1>2
<1>5. {i \in 1..n : t[i].e.comp \in EXECUTION_COMPONENTS} = 2..n
  BY <1>2, <1>3, <1>4, ToldTyped
<1>6. PICK x : x = EventsAt(t, 2..n)
  OBVIOUS
<1>7. Len(x) = n - 1 /\ \A k \in 1..(n - 1) : x[k] = t[k + 1]
  BY <1>2, <1>6, PlaceOfRest
<1>8. ExecutionEventSignature(t) = [i \in 1..Len(x) |-> <<x[i].e.comp, x[i].e.type>>]
  BY <1>2, <1>5, <1>6 DEF ExecutionEventSignature
<1> QED BY <1>2, <1>7, <1>8

\* Marks do not go back, and none is before the opening event.
LEMMA MarksGrow ==
  ASSUME NEW s, Len(s) \in Nat, NEW t, NEW m, NEW rest, Tells(t, s, m, rest),
         NEW i \in 0..Len(s)
  PROVE  /\ m[i] \in Nat
         /\ \A j \in i..Len(s) : m[i] <= m[j]
<1>0. /\ m \in [0..Len(s) -> Nat]
      /\ \A j \in 1..Len(s) : m[j] = m[j - 1] + Len(Heard(s, j))
  BY DEF Tells
<1>1. m[i] \in Nat
  BY <1>0
<1> DEFINE D == {j \in i..Len(s) : ~(m[i] <= m[j])}
<1>2. SUFFICES ASSUME D # {} PROVE FALSE
  BY <1>1
<1>3. PICK j \in D : \A l \in D : j <= l
  <2>1. D \in SUBSET Nat
    OBVIOUS
  <2> QED BY <1>2, <2>1, Smallest
<1>4. j # i
  BY <1>1
<1>5. j - 1 \in i..Len(s) /\ j - 1 \notin D /\ j \in 1..Len(s)
  BY <1>3, <1>4
<1>6. m[i] <= m[j - 1] /\ m[j - 1] \in Nat
  BY <1>0, <1>5
<1>7. Len(Heard(s, j)) \in 0..5
  BY HeardCounted
<1>8. m[j] = m[j - 1] + Len(Heard(s, j))
  BY <1>0, <1>5
<1> QED BY <1>1, <1>6, <1>7, <1>8

LEMMA MarksPositive ==
  ASSUME NEW s, Len(s) \in Nat, NEW t, NEW m, NEW rest, Tells(t, s, m, rest), NEW i \in 0..Len(s)
  PROVE  m[i] \in Nat \ {0}
<1>1. m[0] = 1
  BY DEF Tells
<1>2. 0 \in 0..Len(s) /\ i \in 0..Len(s)
  OBVIOUS
<1>3. m[i] \in Nat /\ m[0] <= m[i]
  BY <1>2, MarksGrow
<1> QED BY <1>1, <1>3

\* The type of the p-th event, if there is one.
TypeAt(t, p) == IF p <= Len(t) THEN t[p].e.type ELSE "none"

\* Two traces with the same execution signature.
SameTypes(t, u) == Len(t) = Len(u) /\ \A p \in 2..Len(t) : t[p].e.type = u[p].e.type

LEMMA TypesAgree ==
  ASSUME NEW t, NEW u, SameTypes(t, u), Len(t) \in Nat, NEW p \in Nat, p > 1
  PROVE  TypeAt(t, p) = TypeAt(u, p)
BY DEF SameTypes, TypeAt

LEMMA StepTypes ==
  ASSUME NEW s, Len(s) \in Nat, NEW t, NEW m, NEW rest, Len(rest) \in Nat, Tells(t, s, m, rest),
         NEW i \in 1..Len(s), NEW k \in 1..Len(Heard(s, i))
  PROVE  TypeAt(t, m[i - 1] + k) = Heard(s, i)[k].type
<1>1. m[i] = m[i - 1] + Len(Heard(s, i)) /\ t[m[i - 1] + k].e = Heard(s, i)[k]
  BY DEF Tells
<1>2. m[i] <= m[Len(s)] /\ m[Len(s)] \in Nat /\ m[i] \in Nat /\ m[i - 1] \in Nat
  <2>1. i \in 0..Len(s) /\ i - 1 \in 0..Len(s) /\ Len(s) \in i..Len(s) /\ Len(s) \in 0..Len(s)
    OBVIOUS
  <2> QED BY <2>1, MarksGrow
<1>3. Len(t) = m[Len(s)] + Len(rest)
  BY DEF Tells
<1>4. Len(Heard(s, i)) \in Nat
  <2>1. Len(Heard(s, i)) \in 0..5
    BY HeardCounted
  <2> QED BY <2>1
<1>5. m[i - 1] + k <= Len(t)
  BY <1>1, <1>2, <1>3, <1>4
<1> QED BY <1>1, <1>5 DEF TypeAt

\* Only the request's own cycle tells of its verdict.
Verdicting == {"request_selected", "request_skipped", "batch_admission", "request_added_to_batch"}

Later == {<<"handed">>, <<"no_route">>, <<"not_dispatched">>, <<"accepted">>, <<"declined">>,
          <<"raised">>, <<"stream_error">>, <<"cancelled">>}

LEMMA LaterSteps ==
  ASSUME NEW s, WellTold(s), NEW i \in 3..Len(s)
  PROVE  s[i] \in Later
BY DEF WellTold, After, Later

LEMMA LaterTypes ==
  ASSUME NEW s, NEW i, s[i] \in Later, NEW k \in 1..Len(Heard(s, i))
  PROVE  Heard(s, i)[k].type \notin Verdicting
<1> DEFINE Silent(e) == e.type \notin Verdicting
<1>1. /\ Silent(AdapterEvent("batch_accepted")) /\ Silent(AdapterEvent("batch_submitted"))
      /\ Silent(AdapterEvent("batch_rejected")) /\ Silent(FailureOf(AdapterEvent("batch_rejected"), "failed"))
      /\ Silent(SchedulerEvent("backend_selected")) /\ Silent(SchedulerEvent("routing_failed"))
  BY DEF Verdicting, SchedulerEvent, AdapterEvent, FailureOf, Event
<1>2. SUFFICES Silent(Heard(s, i)[k])
  OBVIOUS
<1> HIDE DEF Silent
<1>3. CASE s[i] = <<"accepted">>
  <2>1. Heard(s, i) = <<AdapterEvent("batch_accepted")>>
    BY <1>3, HeardOfStep
  <2> QED BY <1>1, <2>1
<1>4. CASE s[i] = <<"declined">>
  <2>1. Heard(s, i) = <<AdapterEvent("batch_rejected"), FailureOf(AdapterEvent("batch_rejected"), "failed")>>
    BY <1>4, HeardOfStep
  <2> QED BY <1>1, <2>1
<1>5. CASE s[i] = <<"handed">>
  <2>1. Heard(s, i) \in {<<SchedulerEvent("backend_selected"), AdapterEvent("batch_submitted")>>,
                         <<AdapterEvent("batch_submitted")>>}
    BY <1>5, HeardOfStep
  <2>2. CASE Heard(s, i) = <<SchedulerEvent("backend_selected"), AdapterEvent("batch_submitted")>>
    BY <1>1, <2>2
  <2>3. CASE Heard(s, i) = <<AdapterEvent("batch_submitted")>>
    BY <1>1, <2>3
  <2> QED BY <2>1, <2>2, <2>3
<1>6. CASE s[i] \in {<<"no_route">>, <<"raised">>}
  <2>1. Heard(s, i) \in {<<SchedulerEvent("backend_selected")>>, <<SchedulerEvent("routing_failed")>>, <<>>}
    BY <1>6, HeardOfStep
  <2>2. CASE Heard(s, i) = <<SchedulerEvent("backend_selected")>>
    BY <1>1, <2>2
  <2>3. CASE Heard(s, i) = <<SchedulerEvent("routing_failed")>>
    BY <1>1, <2>3
  <2> QED BY <2>1, <2>2, <2>3
<1>7. CASE s[i] \in {<<"not_dispatched">>, <<"stream_error">>, <<"cancelled">>}
  <2>1. Heard(s, i) = <<>>
    BY <1>7, HeardOfStep
  <2> QED BY <2>1
<1> QED BY <1>3, <1>4, <1>5, <1>6, <1>7 DEF Later

LEMMA RestsSilent ==
  ASSUME NEW rest \in Rests, NEW k \in 1..Len(rest)
  PROVE  rest[k].type \notin Verdicting
<1> USE DEF Failing, Placing, Refusing, Completing, StreamFailing, LateFailing, Removed,
            SchedulerEvent, TransitionEvent, StateEvent, Event, Verdicting
<1>1. CASE rest = <<>>
  BY <1>1
<1>2. CASE rest = <<Failing>>
  BY <1>2
<1>3. CASE rest = Placing
  BY <1>3
<1>4. CASE rest = Refusing
  BY <1>4
<1>5. CASE rest = Completing
  BY <1>5
<1>6. CASE rest = StreamFailing
  BY <1>6
<1>7. CASE rest = LateFailing
  BY <1>7
<1> QED BY <1>1, <1>2, <1>3, <1>4, <1>5, <1>6, <1>7 DEF Rests

LEMMA AfterTheVerdict ==
  ASSUME NEW s, WellTold(s), Len(s) > 1, NEW t, NEW m, NEW rest \in Rests, Tells(t, s, m, rest),
         Len(t) \in Nat, NEW p \in Nat, p > m[2]
  PROVE  TypeAt(t, p) \notin Verdicting
<1>0. Len(s) \in Nat
  BY LenProperties DEF WellTold
<1>1. Len(rest) \in Nat
  <2>1. Len(rest) \in 0..7
    BY RestsTyped
  <2> QED BY <2>1
<1>2. CASE p > Len(t)
  BY <1>2 DEF TypeAt, Verdicting
<1>3. CASE p <= Len(t)
  <2>1. TypeAt(t, p) = t[p].e.type
    BY <1>3 DEF TypeAt
  <2>2. p \in 2..Len(t)
    <3>1. m[2] \in Nat \ {0}
      BY <1>0, MarksPositive
    <3> QED BY <1>3, <3>1
  <2>3. CASE \E i \in 1..Len(s) : \E k \in 1..Len(Heard(s, i)) : p = m[i - 1] + k
    <3>1. PICK i \in 1..Len(s) : \E k \in 1..Len(Heard(s, i)) : p = m[i - 1] + k
      BY <2>3
    <3>2. PICK k \in 1..Len(Heard(s, i)) : p = m[i - 1] + k
      BY <3>1
    <3>3. t[p].e = Heard(s, i)[k] /\ m[i] = m[i - 1] + Len(Heard(s, i))
      BY <3>2 DEF Tells
    <3>4. i > 2
      <4>1. SUFFICES ASSUME i <= 2 PROVE FALSE
        BY <1>0
      <4>2. i \in 0..Len(s) /\ 2 \in i..Len(s) /\ i - 1 \in 0..Len(s) /\ 2 \in 0..Len(s)
        BY <1>0, <4>1
      <4>3. m[i] <= m[2] /\ m[i] \in Nat /\ m[2] \in Nat /\ m[i - 1] \in Nat
        BY <1>0, <4>2, MarksGrow
      <4>4. Len(Heard(s, i)) \in 0..5
        BY HeardCounted
      <4> QED BY <3>2, <3>3, <4>3, <4>4
    <3>5. s[i] \in Later
      BY <1>0, <3>4, LaterSteps
    <3> QED BY <2>1, <3>3, <3>5, LaterTypes
  <2>4. CASE \E k \in 1..Len(rest) : p = m[Len(s)] + k
    <3>1. PICK k \in 1..Len(rest) : p = m[Len(s)] + k
      BY <2>4
    <3>2. t[p].e = rest[k]
      BY <3>1 DEF Tells
    <3> QED BY <2>1, <3>2, RestsSilent
  <2> QED BY <1>0, <1>1, <2>2, <2>3, <2>4, EventsHaveSteps
<1>4. m[2] \in Nat
  BY <1>0, MarksPositive
<1> QED BY <1>2, <1>3

\* What is told of the second step, in the places it is told at.
Opened(s, t, type) == TypeAt(t, 4) = "request_admitted" /\ TypeAt(t, 5) = type

LEMMA SecondStep ==
  ASSUME NEW s, WellTold(s), Len(s) > 1, NEW t, NEW m, NEW rest \in Rests, Tells(t, s, m, rest),
         Len(t) \in Nat
  PROVE  /\ s[2] = <<"rejected">> => TypeAt(t, 4) = "request_rejected"
         /\ s[2] = <<"admission_error">> => TypeAt(t, 4) = "request_failed"
         /\ s[2] = <<"queue_full">> => Opened(s, t, "queue_full")
         /\ s[2] \in Judgements => Opened(s, t, "request_enqueued")
         /\ s[2] = <<"absent">> => TypeAt(t, 7) \notin Verdicting
         /\ s[2] = <<"skipped">> => TypeAt(t, 7) = "request_skipped"
         /\ s[2] \in {<<"refused">>, <<"lost", "refused">>} => TypeAt(t, 7) = "batch_admission"
         /\ s[2] \in {<<"placed">>, <<"lost", "placed">>} => TypeAt(t, 7) = "request_added_to_batch"
         /\ s[2] \in {<<"refused">>, <<"placed">>} => TypeAt(t, 8) = "request_selected"
         /\ s[2] \in {<<"lost", "refused">>, <<"lost", "placed">>} => TypeAt(t, 8) # "request_selected"
<1>0. Len(s) \in Nat /\ 1 \in 1..Len(s) /\ 2 \in 1..Len(s)
  BY LenProperties DEF WellTold
<1>1. Len(rest) \in Nat
  <2>1. Len(rest) \in 0..7
    BY RestsTyped
  <2> QED BY <2>1
<1>2. m[1] = 3 /\ m[2] = 3 + Len(Heard(s, 2))
  <2>1. m[0] = 1 /\ m[1] = m[0] + Len(Heard(s, 1)) /\ m[2] = m[1] + Len(Heard(s, 2))
    <3>1. /\ m[0] = 1 /\ m[1] = m[1 - 1] + Len(Heard(s, 1)) /\ m[2] = m[2 - 1] + Len(Heard(s, 2))
      BY <1>0 DEF Tells
    <3>2. 1 - 1 = 0 /\ 2 - 1 = 1
      OBVIOUS
    <3> QED BY <3>1, <3>2
  <2>2. Heard(s, 1) = <<StateEvent("request_received", "received"),
                        TransitionEvent("request_validated", "validated")>>
    BY HeardOfStep DEF WellTold
  <2>3. Len(Heard(s, 1)) = 2
    BY <2>2
  <2>4. 1 + 2 = 3
    OBVIOUS
  <2> QED BY <2>1, <2>3, <2>4, Zenon
<1>3. ASSUME NEW k \in 1..Len(Heard(s, 2)) PROVE TypeAt(t, 3 + k) = Heard(s, 2)[k].type
  <2>1. TypeAt(t, m[2 - 1] + k) = Heard(s, 2)[k].type
    BY <1>0, <1>1, StepTypes
  <2> QED BY <1>2, <2>1
<1>4. \A p \in Nat : p > 3 + Len(Heard(s, 2)) => TypeAt(t, p) \notin Verdicting
  BY <1>2, AfterTheVerdict
<1>5. s[2] = <<"rejected">> => TypeAt(t, 4) = "request_rejected"
  <2> SUFFICES ASSUME s[2] = <<"rejected">> PROVE TypeAt(t, 4) = "request_rejected"
    OBVIOUS
  <2>1. Heard(s, 2) = <<StateEvent("request_rejected", "rejected")>>
    BY HeardOfStep
  <2>2. 1 \in 1..Len(Heard(s, 2)) /\ Heard(s, 2)[1].type = "request_rejected"
    BY <2>1 DEF StateEvent, Event
  <2> QED BY <1>3, <2>2
<1>6. s[2] = <<"admission_error">> => TypeAt(t, 4) = "request_failed"
  <2> SUFFICES ASSUME s[2] = <<"admission_error">> PROVE TypeAt(t, 4) = "request_failed"
    OBVIOUS
  <2>1. Heard(s, 2) = <<StateEvent("request_failed", "failed")>>
    BY HeardOfStep
  <2>2. 1 \in 1..Len(Heard(s, 2)) /\ Heard(s, 2)[1].type = "request_failed"
    BY <2>1 DEF StateEvent, Event
  <2> QED BY <1>3, <2>2
<1>7. /\ Admission.type = "request_admitted" /\ Enqueuing.type = "request_enqueued"
      /\ \A x : SchedulerEvent(x).type = x
      /\ QueueEvent("queue_full").type = "queue_full"
  BY DEF Admission, Enqueuing, SchedulerEvent, QueueEvent, TransitionEvent, StateEvent, Event
<1>8. s[2] = <<"queue_full">> => Opened(s, t, "queue_full")
  <2> SUFFICES ASSUME s[2] = <<"queue_full">> PROVE Opened(s, t, "queue_full")
    OBVIOUS
  <2>1. Heard(s, 2) = <<Admission, QueueEvent("queue_full"),
                        FailureOf(QueueEvent("queue_full"), "rejected")>>
    BY HeardOfStep
  <2>2. /\ 1 \in 1..Len(Heard(s, 2)) /\ Heard(s, 2)[1] = Admission
        /\ 2 \in 1..Len(Heard(s, 2)) /\ Heard(s, 2)[2] = QueueEvent("queue_full")
    BY <2>1
  <2>3. TypeAt(t, 3 + 1) = "request_admitted" /\ TypeAt(t, 3 + 2) = "queue_full"
    BY <1>3, <1>7, <2>2
  <2> QED BY <2>3 DEF Opened
<1> DEFINE Cycled(c) ==
             /\ Len(c) \in {0, 1, 2} /\ Len(Heard(s, 2)) = 3 + Len(c)
             /\ Heard(s, 2)[1] = Admission /\ Heard(s, 2)[2] = Enqueuing
             /\ \A k \in 1..Len(c) : Heard(s, 2)[3 + k] = SchedulerEvent(c[k])
           Shown(c) ==
             /\ Opened(s, t, "request_enqueued")
             /\ \A k \in 1..Len(c) : TypeAt(t, 6 + k) = c[k]
             /\ \A k \in Nat : k > Len(c) => TypeAt(t, 6 + k) \notin Verdicting
<1>9. ASSUME NEW c, Cycled(c) PROVE Shown(c)
  <2>1. 1 \in 1..Len(Heard(s, 2)) /\ 2 \in 1..Len(Heard(s, 2))
    BY <1>9
  <2>2. TypeAt(t, 3 + 1) = "request_admitted" /\ TypeAt(t, 3 + 2) = "request_enqueued"
    BY <1>3, <1>7, <1>9, <2>1
  <2>3. ASSUME NEW k \in 1..Len(c) PROVE TypeAt(t, 6 + k) = c[k]
    <3>1. 3 + k \in 1..Len(Heard(s, 2))
      BY <1>9
    <3>2. TypeAt(t, 3 + (3 + k)) = Heard(s, 2)[3 + k].type
      BY <1>3, <3>1
    <3>3. 3 + (3 + k) = 6 + k
      BY <1>9
    <3> QED BY <1>7, <1>9, <3>2, <3>3
  <2>4. ASSUME NEW k \in Nat, k > Len(c) PROVE TypeAt(t, 6 + k) \notin Verdicting
    <3>1. 6 + k \in Nat /\ 6 + k > 3 + Len(Heard(s, 2))
      BY <1>9, <2>4
    <3> QED BY <1>4, <3>1
  <2> QED BY <2>2, <2>3, <2>4 DEF Opened
<1>10. ASSUME s[2] = <<"absent">>
       PROVE  /\ Opened(s, t, "request_enqueued")
              /\ TypeAt(t, 7) \notin Verdicting
  <2>1. PICK c : c = <<>>
    OBVIOUS
  <2>2. Heard(s, 2) = <<Admission, Enqueuing, Queuing>>
    BY <1>10, HeardOfJudgement
  <2>3. Cycled(c) /\ Len(c) = 0
    BY <2>1, <2>2
  <2>4. Shown(c)
    BY <2>3, <1>9
  <2>5. 6 + 1 = 7 /\ 6 + 2 = 8 /\ (Len(c) > 0 => 1 \in 1..Len(c)) /\ (Len(c) > 1 => 2 \in 1..Len(c))
    BY <2>3
  <2>6. TypeAt(t, 7) = TypeAt(t, 6 + 1) /\ TypeAt(t, 8) = TypeAt(t, 6 + 2)
    BY <2>5
  <2>7. TypeAt(t, 6 + 1) \notin Verdicting
    <3>1. 1 \in Nat /\ 1 > Len(c)
      BY <2>3
    <3> HIDE DEF Cycled
    <3> QED BY <2>4, <3>1
  <2> QED BY <2>1, <2>3, <2>4, <2>5, <2>6, <2>7
<1>11. ASSUME s[2] = <<"skipped">>
       PROVE  /\ Opened(s, t, "request_enqueued")
              /\ TypeAt(t, 7) = "request_skipped"
              /\ TypeAt(t, 8) \notin Verdicting
  <2>1. PICK c : c = <<"request_skipped">>
    OBVIOUS
  <2>2. Heard(s, 2) = <<Admission, Enqueuing, Queuing, SchedulerEvent("request_skipped")>>
    BY <1>11, HeardOfJudgement
  <2>3. Cycled(c) /\ Len(c) = 1
    BY <2>1, <2>2
  <2>4. Shown(c)
    BY <2>3, <1>9
  <2>5. 6 + 1 = 7 /\ 6 + 2 = 8 /\ (Len(c) > 0 => 1 \in 1..Len(c)) /\ (Len(c) > 1 => 2 \in 1..Len(c))
    BY <2>3
  <2>6. TypeAt(t, 7) = TypeAt(t, 6 + 1) /\ TypeAt(t, 8) = TypeAt(t, 6 + 2)
    BY <2>5
  <2>7. TypeAt(t, 6 + 2) \notin Verdicting
    <3>1. 2 \in Nat /\ 2 > Len(c)
      BY <2>3
    <3> HIDE DEF Cycled
    <3> QED BY <2>4, <3>1
  <2> QED BY <2>1, <2>3, <2>4, <2>5, <2>6, <2>7
<1>12. ASSUME s[2] = <<"lost", "refused">>
       PROVE  /\ Opened(s, t, "request_enqueued")
              /\ TypeAt(t, 7) = "batch_admission"
              /\ TypeAt(t, 8) \notin Verdicting
  <2>1. PICK c : c = <<"batch_admission">>
    OBVIOUS
  <2>2. Heard(s, 2) = <<Admission, Enqueuing, Queuing, SchedulerEvent("batch_admission")>>
    BY <1>12, HeardOfJudgement
  <2>3. Cycled(c) /\ Len(c) = 1
    BY <2>1, <2>2
  <2>4. Shown(c)
    BY <2>3, <1>9
  <2>5. 6 + 1 = 7 /\ 6 + 2 = 8 /\ (Len(c) > 0 => 1 \in 1..Len(c)) /\ (Len(c) > 1 => 2 \in 1..Len(c))
    BY <2>3
  <2>6. TypeAt(t, 7) = TypeAt(t, 6 + 1) /\ TypeAt(t, 8) = TypeAt(t, 6 + 2)
    BY <2>5
  <2> QED BY <2>1, <2>3, <2>4, <2>5, <2>6
<1>13. ASSUME s[2] = <<"lost", "placed">>
       PROVE  /\ Opened(s, t, "request_enqueued")
              /\ TypeAt(t, 7) = "request_added_to_batch"
              /\ TypeAt(t, 8) \notin Verdicting
  <2>1. PICK c : c = <<"request_added_to_batch">>
    OBVIOUS
  <2>2. Heard(s, 2) = <<Admission, Enqueuing, Queuing, SchedulerEvent("request_added_to_batch")>>
    BY <1>13, HeardOfJudgement
  <2>3. Cycled(c) /\ Len(c) = 1
    BY <2>1, <2>2
  <2>4. Shown(c)
    BY <2>3, <1>9
  <2>5. 6 + 1 = 7 /\ 6 + 2 = 8 /\ (Len(c) > 0 => 1 \in 1..Len(c)) /\ (Len(c) > 1 => 2 \in 1..Len(c))
    BY <2>3
  <2>6. TypeAt(t, 7) = TypeAt(t, 6 + 1) /\ TypeAt(t, 8) = TypeAt(t, 6 + 2)
    BY <2>5
  <2> QED BY <2>1, <2>3, <2>4, <2>5, <2>6
<1>14. ASSUME s[2] = <<"refused">>
       PROVE  /\ Opened(s, t, "request_enqueued")
              /\ TypeAt(t, 7) = "batch_admission"
              /\ TypeAt(t, 8) = "request_selected"
  <2>1. PICK c : c = <<"batch_admission", "request_selected">>
    OBVIOUS
  <2>2. Heard(s, 2) = <<Admission, Enqueuing, Queuing,
                        SchedulerEvent("batch_admission"), SchedulerEvent("request_selected")>>
    BY <1>14, HeardOfJudgement
  <2>3. Cycled(c) /\ Len(c) = 2
    BY <2>1, <2>2
  <2>4. Shown(c)
    BY <2>3, <1>9
  <2>5. 6 + 1 = 7 /\ 6 + 2 = 8 /\ (Len(c) > 0 => 1 \in 1..Len(c)) /\ (Len(c) > 1 => 2 \in 1..Len(c))
    BY <2>3
  <2>6. TypeAt(t, 7) = TypeAt(t, 6 + 1) /\ TypeAt(t, 8) = TypeAt(t, 6 + 2)
    BY <2>5
  <2> QED BY <2>1, <2>3, <2>4, <2>5, <2>6
<1>15. ASSUME s[2] = <<"placed">>
       PROVE  /\ Opened(s, t, "request_enqueued")
              /\ TypeAt(t, 7) = "request_added_to_batch"
              /\ TypeAt(t, 8) = "request_selected"
  <2>1. PICK c : c = <<"request_added_to_batch", "request_selected">>
    OBVIOUS
  <2>2. Heard(s, 2) = <<Admission, Enqueuing, Queuing,
                        SchedulerEvent("request_added_to_batch"), SchedulerEvent("request_selected")>>
    BY <1>15, HeardOfJudgement
  <2>3. Cycled(c) /\ Len(c) = 2
    BY <2>1, <2>2
  <2>4. Shown(c)
    BY <2>3, <1>9
  <2>5. 6 + 1 = 7 /\ 6 + 2 = 8 /\ (Len(c) > 0 => 1 \in 1..Len(c)) /\ (Len(c) > 1 => 2 \in 1..Len(c))
    BY <2>3
  <2>6. TypeAt(t, 7) = TypeAt(t, 6 + 1) /\ TypeAt(t, 8) = TypeAt(t, 6 + 2)
    BY <2>5
  <2> QED BY <2>1, <2>3, <2>4, <2>5, <2>6
<1>16. s[2] \in Judgements => Opened(s, t, "request_enqueued")
  BY <1>10, <1>11, <1>12, <1>13, <1>14, <1>15 DEF Judgements
<1>17. "request_selected" \in Verdicting
  BY DEF Verdicting
<1> QED BY <1>5, <1>6, <1>8, <1>10, <1>11, <1>12, <1>13, <1>14, <1>15, <1>16, <1>17

\* The second step, read from the types of the events at 4, 5, 7 and 8.
SecondWord(a, b, c, d) ==
  IF a = "request_rejected" THEN <<"rejected">>
  ELSE IF a = "request_failed" THEN <<"admission_error">>
  ELSE IF b = "queue_full" THEN <<"queue_full">>
  ELSE IF c = "request_skipped" THEN <<"skipped">>
  ELSE IF c = "batch_admission"
  THEN IF d = "request_selected" THEN <<"refused">> ELSE <<"lost", "refused">>
  ELSE IF c = "request_added_to_batch"
  THEN IF d = "request_selected" THEN <<"placed">> ELSE <<"lost", "placed">>
  ELSE <<"absent">>

LEMMA SecondStepRead ==
  ASSUME NEW s, WellTold(s), Len(s) > 1, NEW t, NEW m, NEW rest \in Rests,
         Tells(t, s, m, rest), Len(t) \in Nat
  PROVE  s[2] = SecondWord(TypeAt(t, 4), TypeAt(t, 5), TypeAt(t, 7), TypeAt(t, 8))
<1>1. PICK a, b, c, d : a = TypeAt(t, 4) /\ b = TypeAt(t, 5) /\ c = TypeAt(t, 7) /\ d = TypeAt(t, 8)
  OBVIOUS
<1>2. PICK x : x = s[2]
  OBVIOUS
<1>3. x \in Judgements \cup Refusals
  BY <1>2 DEF WellTold
<1>4. SUFFICES x = SecondWord(a, b, c, d)
  BY <1>1, <1>2
<1>5. /\ x = <<"rejected">> => a = "request_rejected"
      /\ x = <<"admission_error">> => a = "request_failed"
      /\ x = <<"queue_full">> => a = "request_admitted" /\ b = "queue_full"
      /\ x \in Judgements => a = "request_admitted" /\ b = "request_enqueued"
      /\ x = <<"absent">> => c \notin Verdicting
      /\ x = <<"skipped">> => c = "request_skipped"
      /\ x \in {<<"refused">>, <<"lost", "refused">>} => c = "batch_admission"
      /\ x \in {<<"placed">>, <<"lost", "placed">>} => c = "request_added_to_batch"
      /\ x \in {<<"refused">>, <<"placed">>} => d = "request_selected"
      /\ x \in {<<"lost", "refused">>, <<"lost", "placed">>} => d # "request_selected"
  BY <1>1, <1>2, SecondStep DEF Opened
<1>6. CASE x = <<"absent">>
  BY <1>5, <1>6 DEF SecondWord, Verdicting, Judgements
<1>7. CASE x = <<"skipped">>
  BY <1>5, <1>7 DEF SecondWord, Verdicting, Judgements
<1>8. CASE x = <<"refused">>
  BY <1>5, <1>8 DEF SecondWord, Verdicting, Judgements
<1>9. CASE x = <<"placed">>
  BY <1>5, <1>9 DEF SecondWord, Verdicting, Judgements
<1>10. CASE x = <<"lost", "refused">>
  BY <1>5, <1>10 DEF SecondWord, Verdicting, Judgements
<1>11. CASE x = <<"lost", "placed">>
  BY <1>5, <1>11 DEF SecondWord, Verdicting, Judgements
<1>12. CASE x = <<"rejected">>
  BY <1>5, <1>12 DEF SecondWord, Verdicting, Judgements
<1>13. CASE x = <<"admission_error">>
  BY <1>5, <1>13 DEF SecondWord, Verdicting, Judgements
<1>14. CASE x = <<"queue_full">>
  BY <1>5, <1>14 DEF SecondWord, Verdicting, Judgements
<1> QED BY <1>3, <1>6, <1>7, <1>8, <1>9, <1>10, <1>11, <1>12, <1>13, <1>14 DEF Judgements, Refusals

LEMMA SecondStepsAgree ==
  ASSUME NEW s, WellTold(s), Len(s) > 1, NEW t1, NEW m1, NEW rest1 \in Rests,
         Tells(t1, s, m1, rest1), Len(t1) \in Nat,
         NEW u, WellTold(u), Len(u) > 1, NEW t2, NEW m2, NEW rest2 \in Rests,
         Tells(t2, u, m2, rest2), Len(t2) \in Nat, SameTypes(t1, t2)
  PROVE  s[2] = u[2]
<1>1. /\ TypeAt(t1, 4) = TypeAt(t2, 4) /\ TypeAt(t1, 5) = TypeAt(t2, 5)
      /\ TypeAt(t1, 7) = TypeAt(t2, 7) /\ TypeAt(t1, 8) = TypeAt(t2, 8)
  BY TypesAgree
<1>2. s[2] = SecondWord(TypeAt(t1, 4), TypeAt(t1, 5), TypeAt(t1, 7), TypeAt(t1, 8))
  BY SecondStepRead
<1>3. u[2] = SecondWord(TypeAt(t2, 4), TypeAt(t2, 5), TypeAt(t2, 7), TypeAt(t2, 8))
  BY SecondStepRead
<1> QED BY <1>1, <1>2, <1>3

\* What a lead tells next shows which step follows.
NextType(x) ==
  CASE x = <<"handed">> -> {"backend_selected"}
    [] x = <<"no_route">> -> {"routing_failed"}
    [] x = <<"accepted">> -> {"batch_accepted"}
    [] x = <<"declined">> -> {"batch_rejected"}
    [] x = <<"raised">> -> {"backend_selected", "routing_failed"}

LEMMA NextStep ==
  ASSUME NEW s, Leads(s), Len(s) \in Nat, NEW t, NEW m, NEW rest, Len(rest) \in Nat,
         Tells(t, s, m, rest), NEW i \in 1..Len(s),
         s[i] \in {<<"handed">>, <<"no_route">>, <<"accepted">>, <<"declined">>, <<"raised">>}
  PROVE  TypeAt(t, m[i - 1] + 1) \in NextType(s[i])
<1>1. SUFFICES 1 \in 1..Len(Heard(s, i)) /\ Heard(s, i)[1].type \in NextType(s[i])
  <2>1. 1 \in 1..Len(Heard(s, i)) => TypeAt(t, m[i - 1] + 1) = Heard(s, i)[1].type
    BY StepTypes
  <2> QED BY <2>1
<1>2. /\ \A x : SchedulerEvent(x).type = x
      /\ AdapterEvent("batch_accepted").type = "batch_accepted"
      /\ AdapterEvent("batch_rejected").type = "batch_rejected"
  BY DEF SchedulerEvent, AdapterEvent, Event
<1>3. CASE s[i] = <<"handed">>
  <2>1. Heard(s, i) = <<SchedulerEvent("backend_selected"), AdapterEvent("batch_submitted")>>
    BY <1>3, HeardOfStep
  <2> QED BY <1>2, <1>3, <2>1 DEF NextType
<1>4. CASE s[i] = <<"no_route">>
  <2>1. Heard(s, i) = <<SchedulerEvent("routing_failed")>>
    BY <1>4, HeardOfStep
  <2> QED BY <1>2, <1>4, <2>1 DEF NextType
<1>5. CASE s[i] = <<"accepted">>
  <2>1. Heard(s, i) = <<AdapterEvent("batch_accepted")>>
    BY <1>5, HeardOfStep
  <2> QED BY <1>2, <1>5, <2>1 DEF NextType
<1>6. CASE s[i] = <<"declined">>
  <2>1. Heard(s, i) = <<AdapterEvent("batch_rejected"), FailureOf(AdapterEvent("batch_rejected"), "failed")>>
    BY <1>6, HeardOfStep
  <2> QED BY <1>2, <1>6, <2>1 DEF NextType
<1>7. CASE s[i] = <<"raised">>
  <2>1. PICK x \in {"backend_selected", "routing_failed"} : Heard(s, i) = <<SchedulerEvent(x)>>
    BY <1>7, HeardOfStep
  <2> QED BY <1>2, <1>7, <2>1 DEF NextType
<1> QED BY <1>3, <1>4, <1>5, <1>6, <1>7

\* Where a script has come to an end.
LEMMA Stopped ==
  ASSUME NEW s, WellTold(s), NEW i \in 2..Len(s), After(s, i) = {}
  PROVE  Len(s) = i
<1>1. Len(s) \in Nat
  BY LenProperties DEF WellTold
<1>2. SUFFICES ASSUME i + 1 \in 3..Len(s) PROVE FALSE
  BY <1>1
<1>3. s[i + 1] \in After(s, (i + 1) - 1)
  BY <1>2 DEF WellTold
<1>4. (i + 1) - 1 = i
  OBVIOUS
<1> QED BY <1>3, <1>4

LEMMA Continued ==
  ASSUME NEW s, WellTold(s), NEW stream, NEW rest, NEW st, NEW why,
         Outcome(s, stream, rest, st, why),
         NEW i \in 2..Len(s), Opens(s, i) \/ s[i] = <<"handed">>
  PROVE  i + 1 \in 3..Len(s)
<1>1. Len(s) \in Nat
  BY LenProperties DEF WellTold
<1>2. SUFFICES ASSUME Len(s) = i PROVE FALSE
  BY <1>1
<1>3. s[i] \notin {<<"rejected">>, <<"admission_error">>, <<"queue_full">>,
                   <<"stream_error">>, <<"cancelled">>}
  BY DEF Opens, Judgements
<1>4. After(s, i) \subseteq {<<"stream_error">>, <<"cancelled">>}
  BY <1>2, <1>3 DEF Outcome
<1>5. <<"handed">> \in After(s, i) \/ <<"not_dispatched">> \in After(s, i) \/ <<"accepted">> \in After(s, i)
  BY DEF After
<1> QED BY <1>4, <1>5

\* A run on the full path that leads its batch, and one with the same types of
\* events, went through the same steps.
LEMMA SameTypesSameSteps ==
  ASSUME NEW s, WellTold(s), NEW stream, NEW t1, Len(t1) \in Nat, NEW m1, NEW rest1,
         Tells(t1, s, m1, rest1), NEW st1, NEW why1, Outcome(s, stream, rest1, st1, why1),
         NEW u, WellTold(u), NEW replayed, NEW t2, Len(t2) \in Nat, NEW m2, NEW rest2,
         Tells(t2, u, m2, rest2), NEW st2, NEW why2, Outcome(u, replayed, rest2, st2, why2),
         ~replayed, Leads(u), SameTypes(t1, t2)
  PROVE  Len(s) = Len(u) /\ \A j \in 2..Len(s) : s[j] = u[j]
<1>0. /\ Len(s) \in Nat /\ Len(s) > 1 /\ Len(u) \in Nat /\ Len(u) > 1
      /\ rest1 \in Rests /\ rest2 \in Rests
      /\ Len(rest1) \in Nat /\ Len(rest2) \in Nat
  <2>1. Len(s) \in Nat /\ Len(u) \in Nat
    BY LenProperties DEF WellTold
  <2>2. Len(s) > 1 /\ Len(u) > 1
    BY DEF Outcome
  <2>3. rest1 \in Rests /\ rest2 \in Rests
    BY RestOfOutcome
  <2>4. Len(rest1) \in 0..7 /\ Len(rest2) \in 0..7
    BY <2>3, RestsTyped
  <2> QED BY <2>1, <2>2, <2>3, <2>4
<1>1. s[2] = u[2]
  BY <1>0, SecondStepsAgree
<1> DEFINE Both(k) == k \in 3..Len(s) /\ k \in 3..Len(u) /\ s[k] = u[k]
           Differ == {k \in Nat : (k \in 3..Len(s) \/ k \in 3..Len(u)) /\ ~Both(k)}
<1>2. SUFFICES ASSUME Differ # {} PROVE FALSE
  <2>1. ASSUME Differ = {} PROVE \A k \in Nat : k \in 3..Len(s) \/ k \in 3..Len(u) => Both(k)
    BY <2>1
  <2>2. ASSUME Differ = {} PROVE Len(s) = Len(u)
    <3>0. \A n \in Nat : n > 1 => n \in 3..n \/ n = 2
      OBVIOUS
    <3>1. Len(s) \in 3..Len(s) \/ Len(s) = 2
      BY <1>0, <3>0
    <3>2. Len(u) \in 3..Len(u) \/ Len(u) = 2
      BY <1>0, <3>0
    <3> QED BY <1>0, <2>1, <2>2, <3>1, <3>2
  <2>3. ASSUME Differ = {}, NEW j \in 2..Len(s) PROVE s[j] = u[j]
    <3>1. j = 2 \/ j \in 3..Len(s)
      BY <1>0
    <3> QED BY <1>1, <2>1, <2>3, <3>1
  <2> QED BY <2>2, <2>3
<1>3. PICK k \in Differ : \A j \in Differ : k <= j
  <2>1. Differ \in SUBSET Nat
    OBVIOUS
  <2> QED BY <1>2, <2>1, Smallest
<1>4. PICK i : i = k - 1
  OBVIOUS
<1>5. /\ i \in 2..Len(s) /\ i \in 2..Len(u) /\ k = i + 1
      /\ \A j \in 1..i : j = 1 \/ s[j] = u[j]
  <2>1. k \in Nat /\ k > 2 /\ (k <= Len(s) \/ k <= Len(u))
    BY <1>3
  <2>2. ASSUME NEW j \in 3..i PROVE Both(j)
    <3>1. j \in Nat /\ j \notin Differ
      BY <1>3, <1>4, <2>1
    <3>2. j \in 3..Len(s) \/ j \in 3..Len(u)
      BY <1>0, <1>4, <2>1
    <3> QED BY <3>1, <3>2
  <2>3. i = 2 \/ i \in 3..i
    BY <1>4, <2>1
  <2>4. i \in 2..Len(s) /\ i \in 2..Len(u)
    BY <1>0, <2>2, <2>3
  <2>5. \A j \in 1..i : j = 1 \/ j = 2 \/ j \in 3..i
    BY <2>4
  <2> QED BY <1>1, <1>4, <2>1, <2>2, <2>4, <2>5
<1>6. k \in 3..Len(s) \/ k \in 3..Len(u)
  BY <1>3
<1>7. ~(k \in 3..Len(s) /\ k \in 3..Len(u) /\ s[k] = u[k])
  BY <1>3
<1> HIDE DEF Differ, Both
<1>8. Dispatchable(s) /\ Dispatchable(u)
  <2>1. SUFFICES ASSUME ~Dispatchable(s), ~Dispatchable(u) PROVE FALSE
    BY <1>1 DEF Dispatchable
  <2>2. s[2] \in Judgements \cup Refusals
    BY <1>0 DEF WellTold
  <2>3. CASE s[2] \in Refusals
    <3>1. After(s, 2) = {} /\ After(u, 2) = {}
      BY <1>1, <2>3 DEF After, Opens, Refusals, Judgements
    <3>2. 2 \in 2..Len(s) /\ 2 \in 2..Len(u)
      BY <1>0
    <3>3. Len(s) = 2 /\ Len(u) = 2
      BY <3>1, <3>2, Stopped
    <3> QED BY <1>6, <3>3
  <2>4. CASE s[2] \in Judgements
    <3>1. Opens(s, 2) /\ Opens(u, 2)
      BY <1>1, <2>4 DEF Opens
    <3>2. 2 \in 2..Len(s) /\ 2 \in 2..Len(u)
      BY <1>0
    <3>3. 2 + 1 \in 3..Len(s) /\ 2 + 1 \in 3..Len(u)
      BY <3>1, <3>2, Continued
    <3>4. 2 + 1 = 3 /\ 3 - 1 = 2
      OBVIOUS
    <3>5. s[3] \in After(s, 2) /\ u[3] \in After(u, 2)
      <4>1. 3 \in 3..Len(s) /\ 3 \in 3..Len(u)
        BY <3>3, <3>4
      <4>2. s[3] \in After(s, 3 - 1) /\ u[3] \in After(u, 3 - 1)
        BY <4>1 DEF WellTold
      <4> QED BY <3>4, <4>2
    <3>6. s[3] = <<"not_dispatched">> /\ u[3] = <<"not_dispatched">>
      BY <2>1, <3>1, <3>5 DEF After
    <3>7. After(s, 3) = {} /\ After(u, 3) = {}
      BY <3>6 DEF After, Opens, Judgements
    <3>8. 3 \in 2..Len(s) /\ 3 \in 2..Len(u)
      BY <1>0, <3>3, <3>4
    <3>9. Len(s) = 3 /\ Len(u) = 3
      BY <3>7, <3>8, Stopped
    <3> QED BY <1>6, <1>7, <3>6, <3>9
  <2> QED BY <2>2, <2>3, <2>4
<1>9. Leads(s)
  <2>1. 2 + 1 \in 3..Len(u) /\ 2 \in 2..Len(u) /\ Opens(u, 2)
    <3>1. 2 \in 2..Len(u) /\ Opens(u, 2)
      BY <1>0, <1>8 DEF Dispatchable, Opens, Judgements
    <3> QED BY <3>1, Continued
  <2>2. 3 \in 3..Len(u) /\ 3 \in 1..Len(u) /\ 3 - 1 = 2
    BY <2>1
  <2>3. u[3] \in After(u, 3 - 1)
    BY <2>2 DEF WellTold
  <2>4. u[3] \in {<<"handed">>, <<"no_route">>}
    BY <1>8, <2>1, <2>2, <2>3 DEF After
  <2>5. TypeAt(t2, m2[3 - 1] + 1) \in NextType(u[3])
    BY <1>0, <2>2, <2>4, NextStep
  <2>6. TypeAt(t2, m2[2] + 1) \in {"backend_selected", "routing_failed"}
    BY <2>2, <2>4, <2>5 DEF NextType
  <2>7. m2[2] \in Nat \ {0}
    BY <1>0, MarksPositive
  <2>8. PICK p \in Nat : p = m2[2] + 1 /\ p > 1
    BY <2>7
  <2>9. TypeAt(t1, p) \in {"backend_selected", "routing_failed"}
    BY <2>6, <2>8, TypesAgree
  <2>10. p \in 2..Len(t1) /\ t1[p].e.type \in {"backend_selected", "routing_failed"}
    BY <2>8, <2>9 DEF TypeAt
  <2> QED BY <1>0, <2>10, ToldTyped
<1>10. \A j \in 1..i : s[j] = u[j]
  BY <1>0, <1>5, <1>9 DEF Leads
<1>11. i \in Nat /\ i \in 1..i /\ i \in 0..Len(s) /\ i <= Len(u) /\ k \in Nat /\ k - 1 = i
  BY <1>0, <1>5
<1>12. m1[i] = m2[i]
  BY <1>0, <1>10, <1>11, MarksAgree
<1>13. Hands(s, i) = Hands(u, i)
  BY <1>10, <1>11, HeardAgrees
<1>14. (Opens(s, i) <=> Opens(u, i)) /\ s[i] = u[i] /\ After(s, i) = After(u, i)
  <2>1. s[i] = u[i]
    BY <1>10, <1>11
  <2>2. Opens(s, i) <=> Opens(u, i)
    BY <1>13, <2>1 DEF Opens
  <2> QED BY <1>8, <2>1, <2>2 DEF After
<1>15. CASE Opens(s, i) \/ s[i] = <<"handed">>
  <2>1. i + 1 \in 3..Len(s) /\ i + 1 \in 3..Len(u)
    BY <1>5, <1>14, <1>15, Continued
  <2>2. k \in 3..Len(s) /\ k \in 3..Len(u) /\ k \in 1..Len(s) /\ k \in 1..Len(u)
    BY <1>0, <1>5, <2>1
  <2>3. s[k] \in After(s, k - 1) /\ u[k] \in After(u, k - 1)
    BY <2>2 DEF WellTold
  <2>4. s[k] \in After(s, i) /\ u[k] \in After(s, i)
    BY <1>11, <1>14, <2>3
  <2>5. \/ s[k] \in {<<"handed">>, <<"no_route">>} /\ u[k] \in {<<"handed">>, <<"no_route">>}
        \/ /\ s[k] \in {<<"accepted">>, <<"declined">>, <<"raised">>}
           /\ u[k] \in {<<"accepted">>, <<"declined">>, <<"raised">>}
    BY <1>8, <1>15, <2>4 DEF After
  <2>6. TypeAt(t1, m1[k - 1] + 1) \in NextType(s[k])
    BY <1>0, <1>9, <2>2, <2>5, NextStep
  <2>7. TypeAt(t2, m2[k - 1] + 1) \in NextType(u[k])
    BY <1>0, <2>2, <2>5, NextStep
  <2>8. PICK p \in Nat : p = m1[i] + 1 /\ p > 1
    <3>1. m1[i] \in Nat \ {0}
      BY <1>0, <1>11, MarksPositive
    <3> QED BY <3>1
  <2>9. TypeAt(t1, p) = TypeAt(t2, p)
    BY <2>8, TypesAgree
  <2>10. TypeAt(t1, p) \in NextType(s[k]) /\ TypeAt(t1, p) \in NextType(u[k])
    BY <1>11, <1>12, <2>6, <2>7, <2>8, <2>9
  <2>11. s[k] = u[k]
    BY <2>5, <2>10 DEF NextType
  <2> QED BY <1>7, <2>2, <2>11
<1>16. CASE s[i] = <<"accepted">>
  <2>1. ~Opens(s, i) /\ After(s, i) = {<<"stream_error">>, <<"cancelled">>}
    BY <1>16 DEF After, Opens, Judgements
  <2>2. Len(u) = i
    <3>1. SUFFICES ASSUME k \in 3..Len(u) PROVE FALSE
      BY <1>0, <1>5
    <3>2. u[k] \in {<<"stream_error">>, <<"cancelled">>}
      <4>1. u[k] \in After(u, k - 1)
        BY <3>1 DEF WellTold
      <4> QED BY <1>11, <1>14, <2>1, <4>1
    <3>3. After(u, k) = {}
      BY <3>2 DEF After, Opens, Judgements
    <3>4. Len(u) = k
      <4>1. k \in 2..Len(u)
        BY <3>1
      <4> QED BY <3>3, <4>1, Stopped
    <3>5. CASE u[k] = <<"stream_error">>
      BY <3>4, <3>5 DEF Outcome
    <3>6. CASE u[k] = <<"cancelled">>
      BY <3>4, <3>6 DEF Outcome
    <3> QED BY <3>2, <3>5, <3>6
  <2>3. k \in 3..Len(s)
    BY <1>0, <1>6, <2>2, <1>5
  <2>4. s[k] \in {<<"stream_error">>, <<"cancelled">>}
    <3>1. s[k] \in After(s, k - 1)
      BY <2>3 DEF WellTold
    <3> QED BY <1>11, <2>1, <3>1
  <2>5. Len(s) = k
    <3>1. After(s, k) = {}
      BY <2>4 DEF After, Opens, Judgements
    <3>2. k \in 2..Len(s)
      BY <2>3
    <3> QED BY <3>1, <3>2, Stopped
  <2>6. s[2] = <<"placed">> /\ rest1 \in {StreamFailing, LateFailing, Placing}
    <3>1. CASE s[k] = <<"stream_error">>
      BY <2>5, <3>1 DEF Outcome
    <3>2. CASE s[k] = <<"cancelled">>
      BY <2>5, <3>2 DEF Outcome
    <3> QED BY <2>4, <3>1, <3>2
  <2>7. rest2 = Completing
    <3>1. u[i] = <<"accepted">> /\ OwnVerdict(u) = "placed"
      BY <1>1, <1>14, <1>16, <2>6 DEF OwnVerdict
    <3> QED BY <2>2, <3>1 DEF Outcome
  <2>8. Len(rest2) = 6 /\ Len(rest1) \in {3, 4, 7}
    <3>1. Len(StreamFailing) = 4 /\ Len(LateFailing) = 7 /\ Len(Placing) = 3 /\ Len(Completing) = 6
      BY DEF StreamFailing, LateFailing, Placing, Completing
    <3> QED BY <2>6, <2>7, <3>1
  <2>9. m1[k] = m1[i]
    <3>1. k \in 1..Len(s)
      BY <2>3
    <3>2. m1[k] = m1[k - 1] + Len(Heard(s, k))
      BY <3>1 DEF Tells
    <3>3. Heard(s, k) = <<>>
      BY <2>4, HeardOfStep
    <3>4. m1[i] \in Nat
      BY <1>0, <1>11, MarksPositive
    <3> QED BY <1>11, <3>2, <3>3, <3>4
  <2>10. Len(t1) = m1[k] + Len(rest1) /\ Len(t2) = m2[i] + Len(rest2)
    BY <2>2, <2>5 DEF Tells
  <2>11. Len(t1) = Len(t2) /\ m1[i] \in Nat
    BY <1>0, <1>11, MarksPositive DEF SameTypes
  <2>12. PICK a, b : a = Len(rest1) /\ b = m1[i]
    OBVIOUS
  <2>13. Len(t1) = b + a /\ Len(t2) = b + 6 /\ b \in Nat /\ a \in {3, 4, 7}
    BY <1>12, <2>8, <2>9, <2>10, <2>11, <2>12
  <2>14. \A x \in Nat, y \in {3, 4, 7} : x + y # x + 6
    OBVIOUS
  <2>15. b + a = b + 6
    BY <2>11, <2>13, Zenon
  <2> QED BY <2>13, <2>14, <2>15, Zenon
<1>17. CASE ~Opens(s, i) /\ s[i] # <<"handed">> /\ s[i] # <<"accepted">>
  <2>1. After(s, i) = {} /\ After(u, i) = {}
    BY <1>14, <1>17 DEF After
  <2>2. Len(s) = i /\ Len(u) = i
    BY <1>5, <2>1, Stopped
  <2> QED BY <1>5, <1>6, <2>2
<1> QED BY <1>15, <1>16, <1>17

LEMMA SameRecordSameScript ==
  ASSUME NEW s, NEW stream, NEW a, Fits(s, stream, a),
         NEW u, NEW replayed, NEW b, Fits(u, replayed, b), ~replayed, Leads(u),
         CompareExecutions(a, b) = {}
  PROVE  Tail(s) = Tail(u)
<1>1. PICK t1, m1, rest1 :
        /\ t1 \in Seq(StampedEvents)
        /\ InTime(t1)
        /\ Tells(t1, s, m1, rest1)
        /\ Outcome(s, stream, rest1, a.state, a.failure_reason)
        /\ a = CaptureExecutionRecord(t1, a.state, a.failure_reason,
                 IF SeenAt(t1, "submitted") = 0 THEN 0 ELSE Hands(s, Len(s)))
  BY DEF Fits
<1>2. PICK t2, m2, rest2 :
        /\ t2 \in Seq(StampedEvents)
        /\ InTime(t2)
        /\ Tells(t2, u, m2, rest2)
        /\ Outcome(u, replayed, rest2, b.state, b.failure_reason)
        /\ b = CaptureExecutionRecord(t2, b.state, b.failure_reason,
                 IF SeenAt(t2, "submitted") = 0 THEN 0 ELSE Hands(u, Len(u)))
  BY DEF Fits
<1>3. WellTold(s) /\ WellTold(u) /\ s \in Seq(Words) /\ u \in Seq(Words)
  BY DEF Fits, WellTold
<1>4. Len(s) \in Nat /\ Len(u) \in Nat /\ Len(t1) \in Nat /\ Len(t2) \in Nat
  BY <1>3, LenProperties
<1>5. rest1 \in Rests /\ rest2 \in Rests
  BY <1>1, <1>2, RestOfOutcome
<1>6. a.execution = b.execution
  <2>1. "execution" \in DOMAIN a
    <3>1. \A st, why, c : "execution" \in DOMAIN CaptureExecutionRecord(t1, st, why, c)
      BY DEF CaptureExecutionRecord
    <3> QED BY <1>1, <3>1
  <2> QED BY <2>1 DEF CompareExecutions
<1>7. a.execution = ExecutionEventSignature(t1) /\ b.execution = ExecutionEventSignature(t2)
  <2>1. \A t, st, why, c :
          CaptureExecutionRecord(t, st, why, c).execution = ExecutionEventSignature(Timeline(t))
    BY DEF CaptureExecutionRecord
  <2>2. Timeline(t1) = t1 /\ Timeline(t2) = t2
    BY <1>1, <1>2, TimelineOfOrdered
  <2> QED BY <1>1, <1>2, <2>1, <2>2
<1>8. Len(t1) # 0 /\ Len(t2) # 0
  <2>1. m1[Len(s)] \in Nat \ {0} /\ m2[Len(u)] \in Nat \ {0}
    BY <1>1, <1>2, <1>4, MarksPositive
  <2>2. Len(rest1) \in 0..7 /\ Len(rest2) \in 0..7
    BY <1>5, RestsTyped
  <2>3. Len(t1) = m1[Len(s)] + Len(rest1) /\ Len(t2) = m2[Len(u)] + Len(rest2)
    BY <1>1, <1>2 DEF Tells
  <2> QED BY <2>1, <2>2, <2>3
<1>9. PICK x : x = ExecutionEventSignature(t1) /\ x = ExecutionEventSignature(t2)
  BY <1>6, <1>7
<1>10. /\ Len(x) = Len(t1) - 1
       /\ \A k \in 1..(Len(t1) - 1) : x[k] = <<t1[k + 1].e.comp, t1[k + 1].e.type>>
  BY <1>1, <1>4, <1>5, <1>8, <1>9, SignatureTells
<1>11. /\ Len(x) = Len(t2) - 1
       /\ \A k \in 1..(Len(t2) - 1) : x[k] = <<t2[k + 1].e.comp, t2[k + 1].e.type>>
  BY <1>2, <1>4, <1>5, <1>8, <1>9, SignatureTells
<1>12. SameTypes(t1, t2)
  <2>1. Len(t1) = Len(t2)
    BY <1>4, <1>10, <1>11
  <2>2. ASSUME NEW p \in 2..Len(t1) PROVE t1[p].e.type = t2[p].e.type
    <3>1. PICK k \in 1..(Len(t1) - 1) : k + 1 = p
      <4>1. p - 1 \in 1..(Len(t1) - 1) /\ (p - 1) + 1 = p
        BY <1>4
      <4> QED BY <4>1
    <3>2. <<t1[p].e.comp, t1[p].e.type>> = <<t2[p].e.comp, t2[p].e.type>>
      BY <1>10, <1>11, <2>1, <3>1
    <3> QED BY <3>2
  <2> QED BY <2>1, <2>2 DEF SameTypes
<1>13. Len(s) = Len(u) /\ \A j \in 2..Len(s) : s[j] = u[j]
  <2>1. /\ Outcome(s, stream, rest1, a.state, a.failure_reason)
        /\ Outcome(u, replayed, rest2, b.state, b.failure_reason)
        /\ Tells(t1, s, m1, rest1) /\ Tells(t2, u, m2, rest2)
    BY <1>1, <1>2
  <2> QED BY <1>3, <1>4, <1>12, <2>1, SameTypesSameSteps
<1>14. Len(s) # 0 /\ Len(u) # 0
  BY <1>3 DEF WellTold
<1>15. s # <<>> /\ u # <<>>
  BY <1>14
<1>16. /\ Tail(s) \in Seq(Words) /\ Len(Tail(s)) = Len(s) - 1
       /\ \A j \in 1..Len(Tail(s)) : Tail(s)[j] = s[j + 1]
       /\ Tail(u) \in Seq(Words) /\ Len(Tail(u)) = Len(u) - 1
       /\ \A j \in 1..Len(Tail(u)) : Tail(u)[j] = u[j + 1]
  BY <1>3, <1>15, HeadTailProperties
<1>17. \A j \in 1..Len(Tail(s)) : Tail(s)[j] = Tail(u)[j]
  BY <1>4, <1>13, <1>16
<1> QED BY <1>13, <1>16, <1>17, SeqEqual

-----------------------------------------------------------------------------
(***************************************************************************)
(* A script and its trace, one step longer.                                *)
(***************************************************************************)
Joins(c, a, b) ==
  /\ Len(c) = Len(a) + Len(b)
  /\ \A k \in 1..Len(a) : c[k] = a[k]
  /\ \A k \in 1..Len(b) : c[Len(a) + k] = b[k]

\* What is appended to a trace is told after the rest.
LEMMA ToldMore ==
  ASSUME NEW t, NEW u, Len(t) \in Nat, NEW s, NEW m, NEW rest, Tells(t, s, m, rest),
         Len(s) \in Nat, Len(rest) \in Nat, NEW evs, Len(evs) \in Nat,
         Len(u) = Len(t) + Len(evs), \A i \in 1..Len(t) : u[i] = t[i],
         \A i \in 1..Len(evs) : u[Len(t) + i].e = evs[i],
         NEW more, Joins(more, rest, evs)
  PROVE  Tells(u, s, m, more)
<1>1. /\ Len(u) = Len(t) + Len(evs) /\ Len(t) \in Nat /\ Len(evs) \in Nat
      /\ \A i \in 1..Len(t) : u[i] = t[i]
      /\ \A i \in 1..Len(evs) : u[Len(t) + i].e = evs[i]
  OBVIOUS
<1>2. /\ m \in [0..Len(s) -> Nat] /\ m[0] = 1
      /\ Len(t) = m[Len(s)] + Len(rest)
      /\ \A i \in 1..Len(s) :
           /\ m[i] = m[i - 1] + Len(Heard(s, i))
           /\ \A k \in 1..Len(Heard(s, i)) : t[m[i - 1] + k].e = Heard(s, i)[k]
      /\ \A k \in 1..Len(rest) : t[m[Len(s)] + k].e = rest[k]
      /\ t[1].e \in {GatewayEvent, ReplayEvent("replay_started")}
  BY DEF Tells
<1>3. \A i \in 0..Len(s) : m[i] \in Nat \ {0} /\ m[i] <= m[Len(s)]
  <2> SUFFICES ASSUME NEW i \in 0..Len(s) PROVE m[i] \in Nat \ {0} /\ m[i] <= m[Len(s)]
    OBVIOUS
  <2>1. Len(s) \in i..Len(s)
    OBVIOUS
  <2> QED BY <2>1, MarksPositive, MarksGrow
<1>4. m[Len(s)] \in Nat \ {0}
  BY <1>3
<1>5. ASSUME NEW i \in 1..Len(s), NEW k \in 1..Len(Heard(s, i))
      PROVE  u[m[i - 1] + k].e = Heard(s, i)[k]
  <2>1. m[i] = m[i - 1] + Len(Heard(s, i)) /\ m[i] <= m[Len(s)] /\ m[i - 1] \in Nat /\ m[i] \in Nat
    <3>1. i \in 0..Len(s) /\ i - 1 \in 0..Len(s)
      OBVIOUS
    <3> QED BY <1>2, <1>3, <3>1
  <2>2. Len(Heard(s, i)) \in 0..5
    BY HeardCounted
  <2>3. m[i - 1] + k \in 1..Len(t)
    <3>1. m[i - 1] + k <= m[i] /\ m[i - 1] + k \in Nat /\ m[i - 1] + k # 0
      BY <2>1, <2>2
    <3>2. m[Len(s)] <= Len(t)
      BY <1>2, <1>4
    <3>3. PICK p : p = m[i - 1] + k
      OBVIOUS
    <3>4. p \in Nat /\ p # 0 /\ p <= m[i] /\ m[i] <= m[Len(s)] /\ m[Len(s)] <= Len(t)
      BY <2>1, <3>1, <3>2, <3>3
    <3>5. p \in 1..Len(t)
      BY <1>1, <1>4, <2>1, <3>4
    <3> QED BY <3>3, <3>5, Zenon
  <2> QED BY <1>1, <1>2, <2>3
<1>6. ASSUME NEW k \in 1..Len(more) PROVE u[m[Len(s)] + k].e = more[k]
  <2>1. Len(more) = Len(rest) + Len(evs)
    BY DEF Joins
  <2>2. CASE k \in 1..Len(rest)
    <3>1. more[k] = rest[k]
      BY <2>2 DEF Joins
    <3>2. m[Len(s)] + k \in 1..Len(t)
      BY <1>1, <1>2, <1>4, <2>2
    <3> QED BY <1>1, <1>2, <2>2, <3>1, <3>2
  <2>3. CASE k \notin 1..Len(rest)
    <3>1. PICK j \in 1..Len(evs) : k = Len(rest) + j
      <4>1. k - Len(rest) \in 1..Len(evs) /\ k = Len(rest) + (k - Len(rest))
        BY <1>1, <2>1, <2>3
      <4> QED BY <4>1
    <3>2. more[k] = evs[j]
      BY <3>1 DEF Joins
    <3>3. m[Len(s)] + k = Len(t) + j
      BY <1>1, <1>2, <1>4, <3>1
    <3> QED BY <1>1, <3>2, <3>3
  <2> QED BY <2>2, <2>3
<1>7. Len(u) = m[Len(s)] + Len(more)
  <2>1. Len(more) = Len(rest) + Len(evs)
    BY DEF Joins
  <2> QED BY <1>1, <1>2, <1>4, <2>1
<1>8. u[1] = t[1]
  <2>1. 1 \in 1..Len(t)
    BY <1>1, <1>2, <1>4
  <2> QED BY <1>1, <2>1
<1> QED BY <1>2, <1>5, <1>6, <1>7, <1>8 DEF Tells

LEMMA ToldOn ==
  ASSUME NEW t \in Seq(StampedEvents), NEW s, NEW m, NEW rest, Tells(t, s, m, rest),
         Len(s) \in Nat, Len(rest) \in Nat, NEW evs \in Seq(Events), NEW n \in Nat,
         NEW more, Joins(more, rest, evs)
  PROVE  Tells(Appended(t, evs, n), s, m, more)
<1>1. PICK u : u = Appended(t, evs, n)
  OBVIOUS
<1>2. /\ Len(u) = Len(t) + Len(evs) /\ Len(t) \in Nat /\ Len(evs) \in Nat
      /\ \A i \in 1..Len(t) : u[i] = t[i]
      /\ \A i \in 1..Len(evs) : u[Len(t) + i].e = evs[i]
  BY <1>1, AppendedTrace, TraceTyped, EventsTyped
<1>3. Tells(u, s, m, more)
  BY <1>2, ToldMore
<1> QED BY <1>1, <1>3

\* A script one step longer.
LEMMA Longer ==
  ASSUME NEW s \in Seq(Words), NEW w \in Words
  PROVE  /\ Append(s, w) \in Seq(Words) /\ Len(Append(s, w)) = Len(s) + 1
         /\ Append(s, w)[Len(s) + 1] = w
         /\ Len(s) \in Nat /\ \A i \in 1..Len(s) : Append(s, w)[i] = s[i]
         /\ \A i \in 1..Len(s) : /\ Heard(Append(s, w), i) = Heard(s, i)
                                 /\ Hands(Append(s, w), i) = Hands(s, i)
<1>1. /\ Append(s, w) \in Seq(Words) /\ Len(Append(s, w)) = Len(s) + 1
      /\ Append(s, w)[Len(s) + 1] = w /\ Len(s) \in Nat
      /\ \A i \in 1..Len(s) : Append(s, w)[i] = s[i]
  BY AppendProperties, LenProperties
<1>2. ASSUME NEW i \in 1..Len(s)
      PROVE  Heard(Append(s, w), i) = Heard(s, i) /\ Hands(Append(s, w), i) = Hands(s, i)
  BY <1>1, HeardAgrees
<1> QED BY <1>1, <1>2

\* A new step ends the first events of the rest.
LEMMA StepTold ==
  ASSUME NEW t, NEW s \in Seq(Words), NEW w \in Words, NEW m, NEW rest, Tells(t, s, m, rest),
         Len(rest) \in Nat, NEW left, Len(left) \in Nat,
         Joins(rest, Heard(Append(s, w), Len(s) + 1), left)
  PROVE  \E n : Tells(t, Append(s, w), n, left)
<1> DEFINE l == Len(s)
           u == Append(s, w)
           x == m[l] + Len(Heard(u, l + 1))
           n == [i \in 0..(l + 1) |-> IF i = l + 1 THEN x ELSE m[i]]
<1>1. /\ l \in Nat /\ Len(u) = l + 1 /\ Len(Heard(u, l + 1)) \in Nat
      /\ \A i \in 1..l : Heard(u, i) = Heard(s, i)
  <2>1. Len(Heard(u, l + 1)) \in 0..5
    BY HeardCounted
  <2> QED BY <2>1, Longer
<1>2. /\ m \in [0..l -> Nat] /\ m[0] = 1
      /\ Len(t) = m[l] + Len(rest)
      /\ \A i \in 1..l :
           /\ m[i] = m[i - 1] + Len(Heard(s, i))
           /\ \A k \in 1..Len(Heard(s, i)) : t[m[i - 1] + k].e = Heard(s, i)[k]
      /\ \A k \in 1..Len(rest) : t[m[l] + k].e = rest[k]
      /\ t[1].e \in {GatewayEvent, ReplayEvent("replay_started")}
  BY DEF Tells
<1>3. m[l] \in Nat /\ x \in Nat
  BY <1>1, <1>2
<1>4. PICK h : h = Heard(u, l + 1)
  OBVIOUS
<1>5. /\ Len(rest) = Len(h) + Len(left) /\ Len(h) \in Nat /\ x = m[l] + Len(h)
      /\ \A k \in 1..Len(h) : rest[k] = h[k]
      /\ \A k \in 1..Len(left) : rest[Len(h) + k] = left[k]
  BY <1>1, <1>4 DEF Joins
<1> HIDE DEF x, u
<1>6. n \in [0..(l + 1) -> Nat] /\ n[0] = 1 /\ n[l + 1] = x /\ n[l] = m[l]
  BY <1>1, <1>2, <1>3
<1>7. \A i \in 1..l : n[i] = m[i] /\ n[i - 1] = m[i - 1]
  BY <1>1, <1>2
<1> HIDE DEF n
<1>8. ASSUME NEW i \in 1..(l + 1)
      PROVE  /\ n[i] = n[i - 1] + Len(Heard(u, i))
             /\ \A k \in 1..Len(Heard(u, i)) : t[n[i - 1] + k].e = Heard(u, i)[k]
  <2>1. CASE i \in 1..l
    <3>1. n[i] = m[i] /\ n[i - 1] = m[i - 1] /\ Heard(u, i) = Heard(s, i)
      BY <1>1, <1>7, <2>1
    <3>2. /\ m[i] = m[i - 1] + Len(Heard(s, i))
          /\ \A k \in 1..Len(Heard(s, i)) : t[m[i - 1] + k].e = Heard(s, i)[k]
      BY <1>2, <2>1
    <3> QED BY <3>1, <3>2
  <2>2. CASE i = l + 1
    <3>1. (l + 1) - 1 = l
      BY <1>1
    <3>2. n[i - 1] = m[l] /\ n[i] = x /\ Heard(u, i) = h
      BY <1>4, <1>6, <2>2, <3>1
    <3>3. \A k \in 1..Len(h) : t[m[l] + k].e = h[k]
      BY <1>2, <1>5
    <3> QED BY <1>5, <3>2, <3>3
  <2> QED BY <1>1, <2>1, <2>2
<1>9. Len(t) = x + Len(left)
  BY <1>2, <1>3, <1>5
<1>10. ASSUME NEW k \in 1..Len(left) PROVE t[x + k].e = left[k]
  <2>1. Len(h) + k \in 1..Len(rest) /\ x + k = m[l] + (Len(h) + k)
    BY <1>3, <1>5
  <2> QED BY <1>2, <1>5, <2>1
<1>11. Tells(t, u, n, left)
  BY <1>1, <1>2, <1>6, <1>8, <1>9, <1>10 DEF Tells
<1> QED BY <1>11 DEF u

LEMMA HandsOfLonger ==
  ASSUME NEW s \in Seq(Words), NEW w \in Words
  PROVE  /\ Hands(s, Len(s)) \in Nat
         /\ Hands(Append(s, w), Len(s) + 1)
              = IF w = <<"handed">> THEN Hands(s, Len(s)) + 1 ELSE Hands(s, Len(s))
<1> DEFINE l == Len(s)
           u == Append(s, w)
           A == {j \in 1..l : s[j] = <<"handed">>}
           B == {j \in 1..(l + 1) : u[j] = <<"handed">>}
<1>1. l \in Nat /\ u[l + 1] = w /\ \A i \in 1..l : u[i] = s[i]
  BY Longer
<1>2. IsFiniteSet(A) /\ Cardinality(A) \in Nat /\ l + 1 \notin A
  <2>1. IsFiniteSet(1..l) /\ A \in SUBSET (1..l)
    BY <1>1, FS_Interval
  <2>2. IsFiniteSet(A)
    BY <2>1, FS_Subset
  <2>3. l + 1 \notin A
    BY <1>1
  <2> QED BY <2>2, <2>3, FS_CardinalityType
<1> HIDE DEF u
<1>3. B = IF w = <<"handed">> THEN A \cup {l + 1} ELSE A
  <2>1. \A j : j \in 1..(l + 1) <=> j \in 1..l \/ j = l + 1
    BY <1>1
  <2>2. \A j : j \in B <=> j \in A \/ (j = l + 1 /\ w = <<"handed">>)
    BY <1>1, <2>1
  <2> HIDE DEF A, B
  <2> QED BY <2>2
<1> HIDE DEF A, B
<1>4. Cardinality(A \cup {l + 1}) = Cardinality(A) + 1
  BY <1>2, FS_AddElement
<1>5. Hands(s, l) = Cardinality(A) /\ Hands(u, l + 1) = Cardinality(B)
  BY DEF Hands, A, B
<1> QED BY <1>2, <1>3, <1>4, <1>5 DEF u

LEMMA AfterAgrees ==
  ASSUME NEW s, NEW u, NEW n \in Nat, \A j \in 1..n : s[j] = u[j], NEW i \in 2..n
  PROVE  /\ After(s, i) = After(u, i)
         /\ Opens(s, i) <=> Opens(u, i)
<1>1. s[i] = u[i] /\ s[2] = u[2]
  <2>1. i \in 1..n /\ 2 \in 1..n
    OBVIOUS
  <2> QED BY <2>1
<1>2. Hands(s, i) = Hands(u, i)
  <2>1. i \in 1..n
    OBVIOUS
  <2> QED BY <2>1, HeardAgrees
<1> QED BY <1>1, <1>2 DEF After, Opens, Dispatchable

LEMMA WellToldOn ==
  ASSUME NEW s, WellTold(s), NEW w \in Words,
         \/ Len(s) = 1 /\ w \in Judgements \cup Refusals
         \/ Len(s) > 1 /\ w \in After(s, Len(s))
  PROVE  WellTold(Append(s, w))
<1> DEFINE u == Append(s, w)
           l == Len(s)
<1>0. s \in Seq(Words)
  BY DEF WellTold
<1>1. /\ u \in Seq(Words) /\ Len(u) = l + 1 /\ u[l + 1] = w /\ l \in Nat
      /\ \A i \in 1..l : u[i] = s[i]
  BY <1>0, Longer
<1> HIDE DEF u
<1>2. l # 0 /\ u[1] \in {<<"lead">>, <<"follow">>}
  BY <1>1 DEF WellTold
<1>3. u[2] \in Judgements \cup Refusals
  BY <1>1, <1>2 DEF WellTold
<1>4. ASSUME NEW i \in 3..(l + 1) PROVE u[i] \in After(u, i - 1)
  <2>1. i - 1 \in 2..l
    BY <1>1
  <2>2. After(u, i - 1) = After(s, i - 1)
    BY <1>1, <2>1, AfterAgrees
  <2>3. CASE i \in 3..l
    BY <1>1, <2>2, <2>3 DEF WellTold
  <2>4. CASE i = l + 1
    <3>1. l > 1 /\ i - 1 = l
      BY <1>1, <2>4
    <3>2. w \in After(s, l)
      <4>1. ~(l = 1)
        BY <1>1, <3>1
      <4> QED BY <4>1
    <3> QED BY <1>1, <2>2, <2>4, <3>1, <3>2
  <2> QED BY <1>1, <2>3, <2>4
<1>5. WellTold(u)
  BY <1>1, <1>2, <1>3, <1>4 DEF WellTold
<1> QED BY <1>5 DEF u

-----------------------------------------------------------------------------
(***************************************************************************)
(* The trace and the record of a run that goes on or ends.                 *)
(***************************************************************************)
LEMMA InTimeOn ==
  ASSUME NEW t \in Seq(StampedEvents), NEW s \in Nat, TimesPast(t, s), InTime(t),
         NEW evs \in Seq(Events), Len(evs) = 0 \/ ~evs[1].failure
  PROVE  /\ InTime(Appended(t, evs, s))
         /\ \A i \in 1..Len(Appended(t, evs, s)) : Appended(t, evs, s)[i].at # 0
<1> DEFINE u == Appended(t, evs, s)
<1>1. /\ Len(u) = Len(t) + Len(evs) /\ Len(t) \in Nat /\ Len(evs) \in Nat
      /\ \A i \in 1..Len(t) : u[i] = t[i]
      /\ \A i \in 1..Len(evs) : u[Len(t) + i].at = TimeOf(evs, s, i)
  BY AppendedTrace, TraceTyped, EventsTyped
<1>2. /\ \A i \in 1..Len(t) : t[i].at \in 1..s
      /\ \A i, j \in 1..Len(t) : i <= j => t[i].at <= t[j].at
  BY DEF TimesPast, InTime
<1>3. /\ Fresh(evs) \in Nat
      /\ \A i \in 1..Len(evs) :
           /\ TimeOf(evs, s, i) \in s..(s + Fresh(evs))
           /\ TimeOf(evs, s, i) > s
      /\ \A k, i \in 1..Len(evs) : k <= i => TimeOf(evs, s, k) <= TimeOf(evs, s, i)
  BY <1>1, TimesGrow
<1> HIDE DEF u
<1>4. ASSUME NEW i \in 1..Len(u) PROVE i \in 1..Len(t) \/ \E k \in 1..Len(evs) : i = Len(t) + k
  <2>1. CASE i \notin 1..Len(t)
    <3>1. i - Len(t) \in 1..Len(evs) /\ i = Len(t) + (i - Len(t))
      BY <1>1, <2>1
    <3> QED BY <3>1
  <2> QED BY <2>1
<1>5. ASSUME NEW i \in 1..Len(u) PROVE u[i].at \in Nat /\ u[i].at # 0
  <2>1. CASE i \in 1..Len(t)
    BY <1>1, <1>2, <2>1
  <2>2. CASE \E k \in 1..Len(evs) : i = Len(t) + k
    BY <1>1, <1>3, <2>2
  <2> QED BY <1>4, <2>1, <2>2
<1>6. ASSUME NEW i \in 1..Len(u), NEW j \in 1..Len(u), i <= j PROVE u[i].at <= u[j].at
  <2>1. CASE i \in 1..Len(t) /\ j \in 1..Len(t)
    BY <1>1, <1>2, <1>6, <2>1
  <2>2. CASE i \in 1..Len(t) /\ \E k \in 1..Len(evs) : j = Len(t) + k
    <3>1. PICK k \in 1..Len(evs) : j = Len(t) + k
      BY <2>2
    <3>2. u[i].at \in 1..s
      BY <1>1, <1>2, <2>2
    <3>3. u[j].at > s /\ u[j].at \in Nat
      BY <1>1, <1>3, <1>5, <3>1
    <3> QED BY <3>2, <3>3
  <2>3. CASE (\E k \in 1..Len(evs) : i = Len(t) + k) /\ (\E k \in 1..Len(evs) : j = Len(t) + k)
    <3>1. PICK k \in 1..Len(evs), l \in 1..Len(evs) : i = Len(t) + k /\ j = Len(t) + l
      BY <2>3
    <3>2. k <= l
      BY <1>1, <1>6, <3>1
    <3> QED BY <1>1, <1>3, <3>1, <3>2
  <2>4. CASE (\E k \in 1..Len(evs) : i = Len(t) + k) /\ j \in 1..Len(t)
    BY <1>1, <1>6, <2>4
  <2> QED BY <1>4, <2>1, <2>2, <2>3, <2>4
<1> QED BY <1>5, <1>6 DEF InTime, u

LEMMA TraceOn ==
  ASSUME Inv, NEW r \in Requests, QuietRun(r),
         NEW evs \in Seq(Events), Len(evs) = 0 \/ ~evs[1].failure,
         NEW more, Len(Rest(r)) \in Nat, Joins(more, Rest(r), evs)
  PROVE  LET t == Appended(trace[r], evs, stamps[r])
         IN /\ t \in Seq(StampedEvents) /\ InTime(t) /\ \A i \in 1..Len(t) : t[i].at # 0
            /\ \E m : Tells(t, script[r], m, more)
            /\ Told(r, evs) => trace'[r] = t
<1> DEFINE t == Appended(trace[r], evs, stamps[r])
<1>1. /\ trace \in [Requests -> Seq(StampedEvents)] /\ stamps[r] \in Nat
      /\ trace[r] \in Seq(StampedEvents) /\ TimesPast(trace[r], stamps[r])
  BY DEF Inv, TypedTelling, RequestInv, TraceInv
<1>2. t \in Seq(StampedEvents)
  BY <1>1, AppendedTrace
<1>3. InTime(t) /\ \A i \in 1..Len(t) : t[i].at # 0
  BY <1>1, InTimeOn DEF QuietRun
<1>4. \E m : Tells(t, script[r], m, more)
  <2>1. PICK m : Tells(trace[r], script[r], m, Rest(r))
    BY DEF QuietRun
  <2>2. Len(script[r]) \in Nat
    BY LenProperties DEF QuietRun, WellTold
  <2>3. Tells(t, script[r], m, more)
    BY <1>1, <2>1, <2>2, ToldOn
  <2> QED BY <2>3
<1>5. Told(r, evs) => trace'[r] = t
  BY <1>1 DEF Told, Appended
<1> QED BY <1>2, <1>3, <1>4, <1>5

\* The record of a run that ends with the events evs, with the script s.
LEMMA RecordOn ==
  ASSUME Inv, NEW r \in Requests, QuietRun(r), NEW s, WellTold(s),
         NEW evs \in Seq(Events), Len(evs) = 0 \/ ~evs[1].failure,
         NEW more, Len(Rest(r)) \in Nat, Joins(more, Rest(r), evs), Len(more) \in Nat,
         NEW rest, Len(rest) \in Nat,
         \/ s = script[r] /\ rest = more
         \/ \E w \in Words \ {<<"handed">>} :
              s = Append(script[r], w) /\ Joins(more, Heard(s, Len(script[r]) + 1), rest),
         NEW st, NEW why, Outcome(s, r \in streams, rest, st, why), Captured(r, evs, st, why)
  PROVE  Fits(s, r \in streams, record'[r])
<1> DEFINE t == Appended(trace[r], evs, stamps[r])
<1>1. /\ t \in Seq(StampedEvents) /\ InTime(t) /\ \A i \in 1..Len(t) : t[i].at # 0
      /\ \E m : Tells(t, script[r], m, more)
  BY TraceOn
<1>2. script[r] \in Seq(Words) /\ attempts[r] = Hands(script[r], Len(script[r]))
  BY DEF QuietRun, QuietEngine, WellTold
<1>3. record'[r] = CaptureExecutionRecord(t, st, why,
                     IF SeenAt(t, "submitted") = 0 THEN 0 ELSE attempts[r])
  <2>1. DOMAIN record = Requests
    BY DEF Inv, TypedPath
  <2> QED BY <2>1 DEF Captured, BackendId, Appended
<1> HIDE DEF t
<1>4. (\E m : Tells(t, s, m, rest)) /\ attempts[r] = Hands(s, Len(s))
  <2>1. CASE s = script[r] /\ rest = more
    BY <1>1, <1>2, <2>1
  <2>2. CASE \E w \in Words \ {<<"handed">>} :
               s = Append(script[r], w) /\ Joins(more, Heard(s, Len(script[r]) + 1), rest)
    <3>1. PICK w \in Words \ {<<"handed">>} :
               s = Append(script[r], w) /\ Joins(more, Heard(s, Len(script[r]) + 1), rest)
      BY <2>2
    <3>2. PICK m : Tells(t, script[r], m, more)
      BY <1>1
    <3>3. \E n : Tells(t, s, n, rest)
      BY <1>2, <3>1, <3>2, StepTold
    <3>4. Hands(s, Len(s)) = Hands(script[r], Len(script[r]))
      <4>1. Len(s) = Len(script[r]) + 1
        BY <1>2, <3>1, Longer
      <4>2. Hands(Append(script[r], w), Len(script[r]) + 1) = Hands(script[r], Len(script[r]))
        BY <1>2, <3>1, HandsOfLonger
      <4> QED BY <3>1, <4>1, <4>2
    <3> QED BY <1>2, <3>3, <3>4
  <2> QED BY <2>1, <2>2
<1>5. /\ record'[r].state = st /\ record'[r].failure_reason = why
      /\ record'[r] = CaptureExecutionRecord(t, record'[r].state, record'[r].failure_reason,
                        IF SeenAt(t, "submitted") = 0 THEN 0 ELSE Hands(s, Len(s)))
  <2>1. \A c : /\ CaptureExecutionRecord(t, st, why, c).state = st
               /\ CaptureExecutionRecord(t, st, why, c).failure_reason = why
    BY DEF CaptureExecutionRecord
  <2>2. record'[r].state = st /\ record'[r].failure_reason = why
    BY <1>3, <2>1
  <2> QED BY <1>3, <1>4, <2>2
<1>6. Outcome(s, r \in streams, rest, record'[r].state, record'[r].failure_reason)
  BY <1>5
<1> QED BY <1>1, <1>4, <1>5, <1>6 DEF Fits

-----------------------------------------------------------------------------
(***************************************************************************)
(* What others do, and what comes after the end.                           *)
(***************************************************************************)
LEMMA QuietUnmoved ==
  ASSUME NEW r \in Requests, Quiet(r), streams' = streams,
         trace'[r] = trace[r], script'[r] = script[r], pc'[r] = pc[r], state'[r] = state[r],
         reason'[r] = reason[r], own'[r] = own[r], attempts'[r] = attempts[r],
         record'[r] = record[r], r \in disturbed => r \in disturbed',
         (r \in batched') <=> (r \in batched), (r \in submitted') <=> (r \in submitted),
         cycle' = cycle \/ (~Running(r) /\ ~Running(r)')
  PROVE  Quiet(r)'
<1> SUFFICES ASSUME r \notin disturbed'
             PROVE  /\ pc'[r] = "new" => QuietNew(r)'
                    /\ pc'[r] \notin {"new", "done"} => QuietRun(r)'
                    /\ pc'[r] # "new" /\ r \in Replays => Leads(script'[r])
                    /\ record'[r] # NoRecord => Fits(script'[r], r \in streams', record'[r])
  BY DEF Quiet
<1>1. /\ pc[r] = "new" => QuietNew(r)
      /\ pc[r] \notin {"new", "done"} => QuietRun(r)
      /\ pc[r] # "new" /\ r \in Replays => Leads(script[r])
      /\ record[r] # NoRecord => Fits(script[r], r \in streams, record[r])
  BY DEF Quiet
<1>2. cycle' = cycle => CycleTold' = CycleTold
  BY DEF CycleTold
<1>3. cycle' = cycle => (Running(r)' <=> Running(r))
  BY DEF Running
<1>4. pc[r] = "new" => QuietNew(r)'
  BY <1>1, <1>3 DEF QuietNew
<1>5. ASSUME pc[r] \notin {"new", "done"} PROVE QuietRun(r)'
  <2>1. /\ WellTold(script[r]) /\ StandsAs(script[r], pc[r], Len(script[r]))
        /\ QuietState(r) /\ QuietEngine(r) /\ QuietCycle(r) /\ InTime(trace[r])
        /\ \E m : Tells(trace[r], script[r], m, Rest(r))
    BY <1>1, <1>5 DEF QuietRun
  <2>2. pc[r] = "cycling" => cycle' = cycle
    BY <2>1 DEF QuietCycle
  <2>3. Rest(r)' = Rest(r)
    BY <1>2, <2>2 DEF Rest
  <2>4. QuietState(r)'
    BY <2>1 DEF QuietState
  <2>5. QuietEngine(r)'
    BY <1>2, <2>1, <2>2 DEF QuietEngine
  <2>6. QuietCycle(r)'
    <3>1. CASE cycle' = cycle
      BY <1>3, <2>1, <3>1 DEF QuietCycle
    <3>2. CASE ~Running(r) /\ ~Running(r)'
      BY <2>1, <3>2 DEF QuietCycle
    <3> QED BY <3>1, <3>2
  <2> QED BY <2>1, <2>3, <2>4, <2>5, <2>6 DEF QuietRun
<1> QED BY <1>1, <1>4, <1>5

\* After the end only the trace goes on.
LEMMA QuietAfterTheEnd ==
  ASSUME NEW r \in Requests, Quiet(r), pc[r] = "done", pc'[r] = "done", streams' = streams,
         script'[r] = script[r], record'[r] = record[r], r \in disturbed => r \in disturbed'
  PROVE  Quiet(r)'
BY DEF Quiet

\* A step that goes on.
LEMMA QuietGoesOn ==
  ASSUME NEW r \in Requests, Quiet(r), r \notin disturbed, pc[r] # "new", pc'[r] \notin {"new", "done"},
         record'[r] = NoRecord, Leads(script'[r]) <=> Leads(script[r]), QuietRun(r)'
  PROVE  Quiet(r)'
BY DEF Quiet

LEMMA QuietEnds ==
  ASSUME NEW r \in Requests, Quiet(r), r \notin disturbed, pc[r] # "new", pc'[r] = "done",
         Leads(script'[r]) <=> Leads(script[r]), streams' = streams,
         record'[r] = NoRecord \/ Fits(script'[r], r \in streams, record'[r])
  PROVE  Quiet(r)'
BY DEF Quiet

LEMMA JoinsNothing ==
  ASSUME NEW a, Len(a) \in Nat
  PROVE  Joins(a, <<>>, a) /\ Joins(a, a, <<>>)
BY DEF Joins

\* The events of the event loop about one request.
Loop(e) == e \in Events /\ ~e.failure

LEMMA LoopEvents ==
  /\ Loop(GatewayEvent) /\ Loop(ReplayEvent("replay_started"))
  /\ Loop(StateEvent("request_received", "received"))
  /\ Loop(TransitionEvent("request_validated", "validated"))
  /\ Loop(StateEvent("request_rejected", "rejected")) /\ Loop(StateEvent("request_failed", "failed"))
  /\ Loop(Admission) /\ Loop(Enqueuing) /\ Loop(Queuing)
  /\ Loop(QueueEvent("queue_full")) /\ FailureOf(QueueEvent("queue_full"), "rejected") \in Events
  /\ Loop(SchedulerEvent("backend_selected")) /\ Loop(SchedulerEvent("routing_failed"))
  /\ Loop(AdapterEvent("batch_submitted")) /\ Loop(AdapterEvent("batch_accepted"))
  /\ Loop(AdapterEvent("batch_rejected"))
  /\ FailureOf(AdapterEvent("batch_rejected"), "failed") \in Events
  /\ Loop(TransitionEvent("request_scheduled", "scheduled"))
  /\ Loop(TransitionEvent("request_batched", "batched"))
  /\ Loop(TransitionEvent("request_submitted", "submitted")) /\ Loop(Failing) /\ Loop(Removed)
  /\ Loop(TransitionEvent("request_completed", "completed"))
  /\ Loop(StateEvent("request_completed", "completed"))
<1> USE DEF Loop, Admission, Enqueuing, Queuing, Failing, Removed, GatewayEvent, ReplayEvent, SchedulerEvent,
            AdapterEvent, QueueEvent, FailureOf, TransitionEvent, StateEvent, Event, Events
<1>1. /\ {"control_plane", "scheduler", "adapter", "gateway", "replay"} \subseteq Components
      /\ {"received", "validated", "admitted", "queued", "scheduled", "batched", "submitted",
          "completed", "failed", "rejected", "none"} \subseteq RequestState \cup {"none"}
  BY DEF Components, RequestState, TerminalStates
<1>2. {"request_received", "request_validated", "request_admitted", "request_queued",
       "request_scheduled", "request_batched", "request_submitted", "request_completed",
       "request_failed", "request_rejected"} \subseteq EventTypes
  BY DEF EventTypes, LIFECYCLE_EVENT_TYPES
<1>3. {"request_enqueued", "queue_full", "gateway_request_received", "routing_failed", "replay_started",
       "backend_selected", "batch_submitted", "batch_accepted", "batch_rejected",
       "request_removed_from_batch"} \subseteq EventTypes
  BY DEF EventTypes, BACKEND_EVENT_TYPES, BATCH_EVENT_TYPES, EndTypes
<1>4. /\ Loop(GatewayEvent) /\ Loop(ReplayEvent("replay_started"))
      /\ Loop(StateEvent("request_received", "received"))
      /\ Loop(TransitionEvent("request_validated", "validated"))
      /\ Loop(StateEvent("request_rejected", "rejected")) /\ Loop(StateEvent("request_failed", "failed"))
  BY <1>1, <1>2, <1>3
<1>5. /\ Loop(Admission) /\ Loop(Enqueuing) /\ Loop(Queuing)
      /\ Loop(QueueEvent("queue_full")) /\ FailureOf(QueueEvent("queue_full"), "rejected") \in Events
  BY <1>1, <1>2, <1>3
<1>6. /\ Loop(SchedulerEvent("backend_selected")) /\ Loop(SchedulerEvent("routing_failed"))
      /\ Loop(AdapterEvent("batch_submitted")) /\ Loop(AdapterEvent("batch_accepted"))
      /\ Loop(AdapterEvent("batch_rejected"))
      /\ FailureOf(AdapterEvent("batch_rejected"), "failed") \in Events
  BY <1>1, <1>2, <1>3
<1>7. /\ Loop(TransitionEvent("request_scheduled", "scheduled"))
      /\ Loop(TransitionEvent("request_batched", "batched"))
      /\ Loop(TransitionEvent("request_submitted", "submitted")) /\ Loop(Failing) /\ Loop(Removed)
  BY <1>1, <1>2, <1>3
<1>8. /\ Loop(TransitionEvent("request_completed", "completed"))
      /\ Loop(StateEvent("request_completed", "completed"))
  BY <1>1, <1>2, <1>3
<1> QED BY <1>4, <1>5, <1>6, <1>7, <1>8

LEMMA LoopSequences ==
  ASSUME NEW e, Loop(e), NEW f \in Events
  PROVE  /\ <<>> \in Seq(Events) /\ Len(<<>>) = 0
         /\ <<e>> \in Seq(Events) /\ ~<<e>>[1].failure
         /\ <<e, f>> \in Seq(Events) /\ ~<<e, f>>[1].failure
<1>1. e \in Events /\ ~e.failure
  BY DEF Loop
<1>2. <<e>> \in Seq(Events) /\ <<e, f>> \in Seq(Events) /\ <<>> \in Seq(Events) /\ Len(<<>>) = 0
  BY <1>1
<1>3. <<e>>[1] = e /\ <<e, f>>[1] = e
  OBVIOUS
<1> QED BY <1>1, <1>2, <1>3

\* The run of r while it is under way.
LEMMA UnderWay ==
  ASSUME Inv, NEW r \in Requests, Quiet(r), r \notin disturbed, pc[r] \notin {"new", "done"}
  PROVE  /\ QuietRun(r) /\ record[r] = NoRecord
         /\ script[r] \in Seq(Words) /\ Len(script[r]) \in Nat \ {0}
<1>1. QuietRun(r)
  BY DEF Quiet
<1>2. record[r] = NoRecord
  BY DEF Inv, RequestInv, EndsAreForeign
<1>3. script[r] \in Seq(Words) /\ Len(script[r]) # 0
  BY <1>1 DEF QuietRun, WellTold
<1> QED BY <1>1, <1>2, <1>3, LenProperties

LEMMA LeadStays ==
  ASSUME NEW s \in Seq(Words), Len(s) # 0, NEW w \in Words
  PROVE  Leads(Append(s, w)) <=> Leads(s)
<1>1. 1 \in 1..Len(s)
  BY LenProperties
<1> QED BY <1>1, Longer DEF Leads

\* The request ends and is captured, after one more step of its script or none.
LEMMA EndsQuietly ==
  ASSUME Inv, NEW r \in Requests, Quiet(r), r \notin disturbed, pc[r] \notin {"new", "done"},
         WellTold(script'[r]), NEW evs \in Seq(Events), Len(evs) = 0 \/ ~evs[1].failure,
         NEW more, Len(Rest(r)) \in Nat, Joins(more, Rest(r), evs), Len(more) \in Nat,
         NEW rest, Len(rest) \in Nat,
         \/ script'[r] = script[r] /\ rest = more
         \/ \E w \in Words \ {<<"handed">>} :
              /\ script'[r] = Append(script[r], w)
              /\ Joins(more, Heard(script'[r], Len(script[r]) + 1), rest),
         NEW st, NEW why, Outcome(script'[r], r \in streams, rest, st, why),
         Captured(r, evs, st, why) \/ record' = record, Goto(r, "done"), streams' = streams
  PROVE  Quiet(r)'
<1>1. QuietRun(r) /\ record[r] = NoRecord /\ script[r] \in Seq(Words) /\ Len(script[r]) # 0
  BY UnderWay
<1>2. Captured(r, evs, st, why) => Fits(script'[r], r \in streams, record'[r])
  <2>1. PICK s : s = script'[r]
    OBVIOUS
  <2> QED BY <1>1, <2>1, RecordOn
<1>3. Leads(script'[r]) <=> Leads(script[r])
  BY <1>1, LeadStays
<1>4. pc'[r] = "done"
  BY DEF Goto, Inv, TypedPath
<1> QED BY <1>1, <1>2, <1>3, <1>4, QuietEnds

-----------------------------------------------------------------------------
(***************************************************************************)
(* Submission and admission.                                               *)
(***************************************************************************)
LEMMA AtAdmission ==
  ASSUME Inv, NEW r \in Requests, Quiet(r), r \notin disturbed, pc[r] = "admission"
  PROVE  /\ QuietRun(r) /\ Len(script[r]) = 1 /\ Rest(r) = <<>> /\ script[r] \in Seq(Words)
         /\ state[r] = "validated" /\ reason[r] = "none"
<1>1. QuietRun(r) /\ script[r] \in Seq(Words)
  BY UnderWay
<1>2. Len(script[r]) = 1
  BY <1>1 DEF QuietRun, StandsAs, Early
<1> QED BY <1>1, <1>2 DEF QuietRun, QuietState, Rest

LEMMA SecondNoted ==
  ASSUME NEW s \in Seq(Words), Len(s) = 1, NEW w \in Words
  PROVE  Len(Append(s, w)) = 2 /\ Append(s, w)[2] = w
<1>1. Len(Append(s, w)) = Len(s) + 1 /\ Append(s, w)[Len(s) + 1] = w
  BY Longer
<1>2. 1 + 1 = 2
  OBVIOUS
<1> QED BY <1>1, <1>2

LEMMA RefusedQuietly ==
  ASSUME Inv, Tracked, NEW r \in Requests, Quiet(r), r \notin disturbed,
         pc[r] = "admission", NEW w \in Refusals, Noted(r, w),
         NEW evs \in Seq(Events), ~evs[1].failure, evs = Heard(Append(script[r], w), 2),
         NEW st, NEW why, RefusedAtOnce(r, evs, st, why), streams' = streams,
         <<w, st, why>> \in {<<<<"rejected">>, "rejected", "queue_full">>,
                             <<<<"admission_error">>, "failed", "internal">>,
                             <<<<"queue_full">>, "rejected", "queue_full">>}
  PROVE  Quiet(r)'
<1>1. QuietRun(r) /\ Len(script[r]) = 1 /\ Rest(r) = <<>> /\ script[r] \in Seq(Words)
  BY AtAdmission
<1>2. PICK s : s = Append(script[r], w)
  OBVIOUS
<1>3. script'[r] = s
  BY <1>2 DEF Noted, Tracked
<1>4. w \in Words /\ w \in Words \ {<<"handed">>} /\ w \in Judgements \cup Refusals
  BY DEF Words, Refusals
<1>5. Len(s) = 2 /\ s[2] = w
  BY <1>1, <1>2, <1>4, SecondNoted
<1>6. WellTold(s)
  BY <1>1, <1>2, <1>4, WellToldOn DEF QuietRun
<1>7. Len(evs) \in Nat /\ Len(<<>>) \in Nat
  BY LenProperties
<1>8. Joins(evs, Rest(r), evs) /\ Joins(evs, Heard(s, Len(script[r]) + 1), <<>>)
  <2>1. 1 + 1 = 2
    OBVIOUS
  <2> QED BY <1>1, <1>2, <1>7, <2>1, JoinsNothing
<1>9. Outcome(s, r \in streams, <<>>, st, why)
  <2>1. s[Len(s)] = w /\ Len(s) > 1
    BY <1>5
  <2>2. CASE w = <<"rejected">> /\ st = "rejected" /\ why = "queue_full"
    BY <2>1, <2>2 DEF Outcome
  <2>3. CASE w = <<"admission_error">> /\ st = "failed" /\ why = "internal"
    BY <2>1, <2>3 DEF Outcome
  <2>4. CASE w = <<"queue_full">> /\ st = "rejected" /\ why = "queue_full"
    BY <2>1, <2>4 DEF Outcome
  <2> QED BY <2>2, <2>3, <2>4
<1>10. Goto(r, "done") /\ (Captured(r, evs, st, why) \/ record' = record)
  BY DEF RefusedAtOnce, Ends
<1>11. Len(Rest(r)) \in Nat
  BY <1>1, <1>7
<1> QED BY <1>1, <1>2, <1>3, <1>4, <1>6, <1>7, <1>8, <1>9, <1>10, <1>11, EndsQuietly

LEMMA RefusalsStayQuiet ==
  ASSUME Inv, Tracked, NEW r \in Requests, Quiet(r), r \notin disturbed
  PROVE  /\ AdmissionRejects(r) => Quiet(r)'
         /\ AdmissionRaises(r) => Quiet(r)'
         /\ QueueFull(r) => Quiet(r)'
<1>1. ASSUME AdmissionRejects(r) PROVE Quiet(r)'
  <2> DEFINE evs == <<StateEvent("request_rejected", "rejected")>>
  <2>1. /\ pc[r] = "admission" /\ RefusedAtOnce(r, evs, "rejected", "queue_full")
        /\ Noted(r, <<"rejected">>) /\ streams' = streams
    BY <1>1 DEF AdmissionRejects, Free
  <2>2. evs \in Seq(Events) /\ ~evs[1].failure
    BY LoopEvents DEF Loop
  <2>3. <<"rejected">> \in Refusals /\ <<"rejected">> \in Words
    BY DEF Refusals, Words
  <2>4. Append(script[r], <<"rejected">>)[2] = <<"rejected">>
    BY <2>1, <2>3, AtAdmission, SecondNoted
  <2>5. evs = Heard(Append(script[r], <<"rejected">>), 2)
    BY <2>4, HeardOfStep
  <2> HIDE DEF evs
  <2> QED BY <2>1, <2>2, <2>3, <2>5, RefusedQuietly
<1>2. ASSUME AdmissionRaises(r) PROVE Quiet(r)'
  <2> DEFINE evs == FailedEvents(r)
  <2>1. /\ pc[r] = "admission" /\ RefusedAtOnce(r, evs, "failed", "internal")
        /\ Noted(r, <<"admission_error">>) /\ streams' = streams
    BY <1>2 DEF AdmissionRaises, Free
  <2>2. evs = <<StateEvent("request_failed", "failed")>>
    <3>1. state[r] = "validated"
      BY <2>1, AtAdmission
    <3> QED BY <3>1 DEF FailedEvents, IsAllowedTransition, AllowedTargets
  <2>3. evs \in Seq(Events) /\ ~evs[1].failure
    BY <2>2, LoopEvents DEF Loop
  <2>4. <<"admission_error">> \in Refusals /\ <<"admission_error">> \in Words
    BY DEF Refusals, Words
  <2>5. Append(script[r], <<"admission_error">>)[2] = <<"admission_error">>
    BY <2>1, <2>4, AtAdmission, SecondNoted
  <2>6. evs = Heard(Append(script[r], <<"admission_error">>), 2)
    BY <2>2, <2>5, HeardOfStep
  <2> HIDE DEF evs
  <2> QED BY <2>1, <2>3, <2>4, <2>6, RefusedQuietly
<1>3. ASSUME QueueFull(r) PROVE Quiet(r)'
  <2> DEFINE evs == <<Admission, QueueEvent("queue_full"), FailureOf(QueueEvent("queue_full"), "rejected")>>
  <2>1. /\ pc[r] = "admission" /\ RefusedAtOnce(r, evs, "rejected", "queue_full")
        /\ Noted(r, <<"queue_full">>) /\ streams' = streams
    BY <1>3 DEF QueueFull, Free, Admission
  <2>2. evs \in Seq(Events) /\ ~evs[1].failure
    BY LoopEvents DEF Loop
  <2>3. <<"queue_full">> \in Refusals /\ <<"queue_full">> \in Words
    BY DEF Refusals, Words
  <2>4. Append(script[r], <<"queue_full">>)[2] = <<"queue_full">>
    BY <2>1, <2>3, AtAdmission, SecondNoted
  <2>5. evs = Heard(Append(script[r], <<"queue_full">>), 2)
    BY <2>4, HeardOfStep
  <2> HIDE DEF evs
  <2> QED BY <2>1, <2>2, <2>3, <2>5, RefusedQuietly
<1> QED BY <1>1, <1>2, <1>3

-----------------------------------------------------------------------------
(***************************************************************************)
(* Steps of the event loop that go on.                                     *)
(***************************************************************************)
LEMMA NotRunning ==
  ASSUME Inv, NEW r \in Requests, QuietCycle(r), pc[r] # "cycling"
  PROVE  ~Running(r)
BY DEF Inv, CycleInv, QuietCycle, Running

LEMMA GoesOnQuietly ==
  ASSUME Inv, NEW r \in Requests, Quiet(r), r \notin disturbed, pc[r] \notin {"new", "cycling", "done"},
         pc'[r] \notin {"new", "cycling", "done"}, streams' = streams, record' = record, cycle' = cycle,
         NEW evs \in Seq(Events), Len(evs) = 0 \/ ~evs[1].failure, Told(r, evs),
         NEW more, Len(Rest(r)) \in Nat, Joins(more, Rest(r), evs), Len(more) \in Nat, Len(Rest(r)') \in Nat,
         \/ script'[r] = script[r] /\ Rest(r)' = more
         \/ \E w \in Words :
              /\ script'[r] = Append(script[r], w)
              /\ Joins(more, Heard(script'[r], Len(script[r]) + 1), Rest(r)'),
         WellTold(script'[r]), StandsAs(script'[r], pc'[r], Len(script'[r])),
         QuietState(r)', QuietEngine(r)'
  PROVE  Quiet(r)'
<1>1. QuietRun(r) /\ record[r] = NoRecord /\ script[r] \in Seq(Words) /\ Len(script[r]) # 0
  BY UnderWay
<1>2. PICK t : t = Appended(trace[r], evs, stamps[r])
  OBVIOUS
<1>3. InTime(t) /\ trace'[r] = t /\ \E m : Tells(t, script[r], m, more)
  BY <1>1, <1>2, TraceOn
<1>4. \E m : Tells(t, script'[r], m, Rest(r)')
  <2>1. CASE script'[r] = script[r] /\ Rest(r)' = more
    BY <1>3, <2>1
  <2>2. CASE \E w \in Words :
               /\ script'[r] = Append(script[r], w)
               /\ Joins(more, Heard(script'[r], Len(script[r]) + 1), Rest(r)')
    <3>1. PICK w \in Words :
               /\ script'[r] = Append(script[r], w)
               /\ Joins(more, Heard(script'[r], Len(script[r]) + 1), Rest(r)')
      BY <2>2
    <3>2. PICK m : Tells(t, script[r], m, more)
      BY <1>3
    <3>3. PICK left : left = Rest(r)'
      OBVIOUS
    <3>4. \E n : Tells(t, Append(script[r], w), n, left)
      BY <1>1, <3>1, <3>2, <3>3, StepTold
    <3> QED BY <3>1, <3>3, <3>4
  <2> QED BY <2>1, <2>2
<1>5. QuietCycle(r)'
  <2>1. ~Running(r)
    BY <1>1, NotRunning DEF QuietRun
  <2> QED BY <2>1 DEF Running, QuietCycle
<1>6. QuietRun(r)'
  BY <1>3, <1>4, <1>5 DEF QuietRun
<1>7. Leads(script'[r]) <=> Leads(script[r])
  BY <1>1, LeadStays
<1> QED BY <1>1, <1>6, <1>7, QuietGoesOn

LEMMA JoinsShort ==
  ASSUME NEW a, NEW b, NEW c
  PROVE  /\ Joins(<<a>>, <<>>, <<a>>) /\ Joins(<<a, b>>, <<>>, <<a, b>>)
         /\ Joins(<<a, b>>, <<a>>, <<b>>)
         /\ Joins(<<a, b, c>>, <<a, b>>, <<c>>)
<1>1. Joins(<<a>>, <<>>, <<a>>) /\ Joins(<<a, b>>, <<>>, <<a, b>>)
  <2>1. Len(<<a>>) \in Nat /\ Len(<<a, b>>) \in Nat
    OBVIOUS
  <2> QED BY <2>1, JoinsNothing
<1>2. Joins(<<a, b>>, <<a>>, <<b>>)
  <2>1. /\ Len(<<a, b>>) = 2 /\ Len(<<a>>) = 1 /\ Len(<<b>>) = 1
        /\ <<a, b>>[1] = <<a>>[1] /\ <<a, b>>[2] = <<b>>[1]
    OBVIOUS
  <2>2. PICK p, q, x : p = <<a, b>> /\ q = <<a>> /\ x = <<b>>
    OBVIOUS
  <2>3. Len(p) = 2 /\ Len(q) = 1 /\ Len(x) = 1 /\ p[1] = q[1] /\ p[2] = x[1]
    BY <2>1, <2>2
  <2>4. \A k \in 1..1 : k = 1 /\ 1 + k = 2
    OBVIOUS
  <2>5. Joins(p, q, x)
    BY <2>3, <2>4 DEF Joins
  <2> QED BY <2>2, <2>5
<1>3. Joins(<<a, b, c>>, <<a, b>>, <<c>>)
  BY DEF Joins
<1> QED BY <1>1, <1>2, <1>3

LEMMA StartsQuietly ==
  ASSUME Inv, Tracked, NEW r \in Requests, Quiet(r), r \notin disturbed, Start(r)
  PROVE  Quiet(r)'
<1> DEFINE first == IF r \in Replays THEN ReplayEvent("replay_started") ELSE GatewayEvent
           a == StateEvent("request_received", "received")
           b == TransitionEvent("request_validated", "validated")
           evs == <<first, a, b>>
<1>1. /\ pc[r] = "new" /\ QuietNew(r) /\ pc'[r] = "admission" /\ state'[r] = "validated"
      /\ reason'[r] = "none" /\ record' = record /\ cycle' = cycle /\ streams' = streams
      /\ batched' = batched /\ submitted' = submitted /\ attempts' = attempts /\ Told(r, evs)
  <2>1. pc[r] = "new" /\ QuietNew(r)
    BY DEF Start, Quiet
  <2>2. Continues(r, evs, "validated", "admission") /\ Free
    BY DEF Start
  <2>3. pc'[r] = "admission" /\ state'[r] = "validated" /\ reason'[r] = reason[r]
    BY <2>2 DEF Continues, Steps, Goto, Becomes, Inv, TypedPath, Tracked
  <2> QED BY <2>1, <2>2, <2>3 DEF Continues, Steps, Free, QuietNew
<1>2. PICK w \in {<<"lead">>, <<"follow">>} :
        script'[r] = <<w>> /\ (r \in Replays => w = <<"lead">>)
  <2>1. script[r] = <<>>
    BY <1>1 DEF QuietNew
  <2>2. PICK lead \in IF r \in Replays THEN {TRUE} ELSE BOOLEAN :
          Noted(r, IF lead THEN <<"lead">> ELSE <<"follow">>)
    BY DEF Start
  <2>3. \A w : Append(<<>>, w) = <<w>>
    OBVIOUS
  <2>4. script'[r] = <<IF lead THEN <<"lead">> ELSE <<"follow">> >>
    BY <2>1, <2>2, <2>3 DEF Noted, Tracked
  <2> QED BY <2>2, <2>4
<1>3. PICK s : s = script'[r]
  OBVIOUS
<1>4. Len(s) = 1 /\ s[1] = w /\ s \in Seq(Words) /\ s = <<w>>
  BY <1>2, <1>3 DEF Words
<1>5. WellTold(s)
  BY <1>4 DEF WellTold
<1>6. Heard(s, 1) = <<a, b>>
  BY <1>4, HeardOfStep
<1>7. /\ evs \in Seq(Events) /\ Len(evs) = 3 /\ ~evs[1].failure
      /\ evs[1] = first /\ evs[2] = a /\ evs[3] = b
  BY LoopEvents DEF Loop
<1> HIDE DEF evs
<1>8. PICK t, n : n = stamps[r] /\ t = Appended(<<>>, evs, n)
  OBVIOUS
<1>9. /\ trace'[r] = t /\ InTime(t) /\ Len(t) = 3
      /\ t[1].e = first /\ t[2].e = a /\ t[3].e = b
  <2>1. trace[r] = <<>> /\ trace \in [Requests -> Seq(StampedEvents)] /\ n \in Nat
    BY <1>1, <1>8 DEF QuietNew, Inv, TypedTelling
  <2>2. <<>> \in Seq(StampedEvents) /\ TimesPast(<<>>, n) /\ InTime(<<>>)
    BY DEF TimesPast, InTime
  <2>3. InTime(t)
    BY <1>7, <1>8, <2>1, <2>2, InTimeOn
  <2>4. PICK none : none = <<>> /\ Len(none) = 0 /\ none \in Seq(StampedEvents)
    BY <2>2
  <2>5. /\ Len(t) = Len(none) + Len(evs)
        /\ \A i \in 1..Len(evs) : t[Len(none) + i].e = evs[i]
    <3>1. t = Appended(none, evs, n)
      BY <1>8, <2>4
    <3>2. evs \in Seq(Events) /\ n \in Nat /\ none \in Seq(StampedEvents)
      BY <1>7, <2>1, <2>4
    <3>3. /\ Len(Appended(none, evs, n)) = Len(none) + Len(evs)
          /\ \A i \in 1..Len(evs) : Appended(none, evs, n)[Len(none) + i].e = evs[i]
      BY <3>2, AppendedTrace
    <3> QED BY <3>1, <3>3
  <2>6. Len(t) = 3 /\ \A i \in 1..3 : t[i].e = evs[i]
    BY <1>7, <2>4, <2>5
  <2>7. t[1].e = first /\ t[2].e = a /\ t[3].e = b
    BY <1>7, <2>6
  <2>8. trace'[r] = t
    BY <1>1, <1>8, <2>1 DEF Told, Appended
  <2> QED BY <2>3, <2>6, <2>7, <2>8
<1>10. \E m : Tells(t, s, m, <<>>)
  <2> DEFINE m == [i \in 0..1 |-> IF i = 0 THEN 1 ELSE 3]
  <2>1. m \in [0..1 -> Nat] /\ m[0] = 1 /\ m[1] = 3
    OBVIOUS
  <2> HIDE DEF m
  <2>2. ASSUME NEW i \in 1..1
        PROVE  /\ m[i] = m[i - 1] + Len(Heard(s, i))
               /\ \A k \in 1..Len(Heard(s, i)) : t[m[i - 1] + k].e = Heard(s, i)[k]
    <3>1. i = 1 /\ i - 1 = 0 /\ Heard(s, i) = <<a, b>>
      BY <1>6
    <3>2. PICK x, y : x = a /\ y = b
      OBVIOUS
    <3>3. \A k \in 1..2 : t[1 + k].e = <<x, y>>[k]
      BY <1>9, <3>2
    <3>4. PICK h : h = Heard(s, i)
      OBVIOUS
    <3>5. h = <<x, y>> /\ Len(h) = 2
      BY <3>1, <3>2, <3>4
    <3>6. m[i] = m[i - 1] + Len(h)
      BY <2>1, <3>1, <3>5
    <3>7. \A k \in 1..Len(h) : t[m[i - 1] + k].e = h[k]
      BY <2>1, <3>1, <3>3, <3>5
    <3> QED BY <3>4, <3>6, <3>7
  <2>3. first \in {GatewayEvent, ReplayEvent("replay_started")}
    OBVIOUS
  <2>4. Len(t) = m[Len(s)] + Len(<<>>)
    BY <1>4, <1>9, <2>1
  <2> QED BY <1>4, <1>9, <2>1, <2>2, <2>3, <2>4 DEF Tells
<1>11. Rest(r)' = <<>>
  BY <1>1 DEF Rest
<1>12. StandsAs(s, "admission", Len(s))
  BY <1>4 DEF StandsAs, Early
<1>13. QuietState(r)'
  BY <1>1 DEF QuietState, Early
<1>14. QuietEngine(r)'
  <2>1. Hands(s, 1) = 0
    <3>1. {j \in 1..1 : s[j] = <<"handed">>} = {}
      BY <1>2, <1>4
    <3> QED BY <3>1, FS_EmptySet DEF Hands
  <2> QED BY <1>1, <1>3, <1>4, <2>1 DEF QuietEngine, QuietNew, Early
<1>15. QuietCycle(r)'
  BY <1>1 DEF QuietCycle, QuietNew, Running
<1>16. QuietRun(r)'
  BY <1>1, <1>3, <1>5, <1>9, <1>10, <1>11, <1>12, <1>13, <1>14, <1>15 DEF QuietRun
<1>17. r \in Replays => Leads(script'[r])
  BY <1>2, <1>3, <1>4 DEF Leads
<1>18. record'[r] = NoRecord
  BY <1>1 DEF Inv, RequestInv, EndsAreForeign
<1> QED BY <1>1, <1>16, <1>17, <1>18 DEF Quiet

LEMMA QueuesQuietly ==
  ASSUME Inv, Tracked, NEW r \in Requests, Quiet(r), r \notin disturbed
  PROVE  /\ Admitted(r) => Quiet(r)'
         /\ Enqueued(r) => Quiet(r)'
         /\ Queued(r) => Quiet(r)'
<1>1. ASSUME Admitted(r) PROVE Quiet(r)'
  <2>1. /\ pc[r] = "admission" /\ pc'[r] = "visible" /\ Told(r, <<Admission>>)
        /\ state'[r] = "admitted" /\ reason'[r] = reason[r]
        /\ UNCHANGED <<streams, record, cycle, script, batched, submitted, attempts>>
    BY <1>1 DEF Admitted, Continues, Steps, Goto, Becomes, Inv, TypedPath, Tracked, Admission
  <2>2. QuietRun(r) /\ Len(script[r]) = 1
    BY <2>1, UnderWay, AtAdmission
  <2>3. Rest(r) = <<>> /\ Rest(r)' = <<Admission>>
    BY <2>1 DEF Rest
  <2>4. <<Admission>> \in Seq(Events) /\ ~<<Admission>>[1].failure
    BY LoopEvents DEF Loop
  <2>5. StandsAs(script[r], "visible", Len(script[r]))
    BY <2>2 DEF StandsAs, Early
  <2>6. QuietState(r)' /\ QuietEngine(r)'
    BY <2>1, <2>2 DEF QuietRun, QuietState, QuietEngine, Early
  <2>7. Joins(<<Admission>>, <<>>, <<Admission>>)
    BY JoinsShort
  <2>8. Len(<<>>) \in Nat /\ Len(<<Admission>>) \in Nat
    OBVIOUS
  <2> QED BY <2>1, <2>2, <2>3, <2>4, <2>5, <2>6, <2>7, <2>8, GoesOnQuietly DEF QuietRun
<1>2. ASSUME Enqueued(r) PROVE Quiet(r)'
  <2>1. /\ pc[r] = "visible" /\ pc'[r] = "enqueued" /\ Told(r, <<Enqueuing>>)
        /\ state'[r] = "queued" /\ reason'[r] = reason[r]
        /\ UNCHANGED <<streams, record, cycle, script, batched, submitted, attempts>>
    BY <1>2 DEF Enqueued, Continues, Steps, Goto, Becomes, Free, Inv, TypedPath, Tracked, Enqueuing
  <2>2. QuietRun(r)
    BY <2>1, UnderWay
  <2>3. Rest(r) = <<Admission>> /\ Rest(r)' = <<Admission, Enqueuing>>
    BY <2>1 DEF Rest
  <2>4. <<Enqueuing>> \in Seq(Events) /\ ~<<Enqueuing>>[1].failure
    BY LoopEvents DEF Loop
  <2>5. StandsAs(script[r], "enqueued", Len(script[r]))
    BY <2>1, <2>2 DEF QuietRun, StandsAs, Early
  <2>6. QuietState(r)' /\ QuietEngine(r)'
    BY <2>1, <2>2 DEF QuietRun, QuietState, QuietEngine, Early
  <2>7. Joins(<<Admission, Enqueuing>>, <<Admission>>, <<Enqueuing>>)
    BY JoinsShort
  <2>8. Len(<<Admission>>) \in Nat /\ Len(<<Admission, Enqueuing>>) \in Nat
    OBVIOUS
  <2> QED BY <2>1, <2>2, <2>3, <2>4, <2>5, <2>6, <2>7, <2>8, GoesOnQuietly DEF QuietRun
<1>3. ASSUME Queued(r) PROVE Quiet(r)'
  <2>1. /\ pc[r] = "enqueued" /\ pc'[r] = "waiting" /\ Told(r, <<Queuing>>)
        /\ state'[r] = "queued" /\ reason'[r] = reason[r]
        /\ UNCHANGED <<streams, record, cycle, script, batched, submitted, attempts>>
    BY <1>3 DEF Queued, Continues, Steps, Goto, Becomes, Free, Inv, TypedPath, Tracked, Queuing
  <2>2. QuietRun(r)
    BY <2>1, UnderWay
  <2>3. Rest(r) = <<Admission, Enqueuing>> /\ Rest(r)' = <<Admission, Enqueuing, Queuing>>
    BY <2>1 DEF Rest
  <2>4. <<Queuing>> \in Seq(Events) /\ ~<<Queuing>>[1].failure
    BY LoopEvents DEF Loop
  <2>5. StandsAs(script[r], "waiting", Len(script[r]))
    BY <2>1, <2>2 DEF QuietRun, StandsAs, Early
  <2>6. QuietState(r)' /\ QuietEngine(r)'
    BY <2>1, <2>2 DEF QuietRun, QuietState, QuietEngine, Early
  <2>7. Joins(<<Admission, Enqueuing, Queuing>>, <<Admission, Enqueuing>>, <<Queuing>>)
    BY JoinsShort
  <2>8. Len(<<Admission, Enqueuing>>) \in Nat /\ Len(<<Admission, Enqueuing, Queuing>>) \in Nat
    OBVIOUS
  <2> QED BY <2>1, <2>2, <2>3, <2>4, <2>5, <2>6, <2>7, <2>8, GoesOnQuietly DEF QuietRun
<1> QED BY <1>1, <1>2, <1>3

LEMMA CyclesQuietly ==
  ASSUME Inv, NEW r \in Requests, Quiet(r), r \notin disturbed, OwnCycle(r)
  PROVE  Quiet(r)'
<1>1. /\ pc[r] = "waiting" /\ pc'[r] = "cycling" /\ UNCHANGED <<streams, state, reason, trace, script,
           batched, submitted, own, attempts, record>>
  BY DEF OwnCycle, Goto, Inv, TypedPath, tellVars, historyVars
<1>2. PICK v \in Verdicts(r) :
        cycle' = [NoCycle EXCEPT !.of = r, !.mine = TRUE, !.verdict = v, !.todo = EventsOf(v)]
  BY DEF OwnCycle, CycleStarts
<1>3. QuietRun(r) /\ record[r] = NoRecord
  BY <1>1, UnderWay
<1>4. r \notin batched
  BY <1>1, <1>3 DEF QuietRun, QuietEngine, Early
<1>5. v \in {"absent", "skipped", "refused", "placed"}
  BY <1>2, <1>4 DEF Verdicts
<1>6. cycle'.of = r /\ cycle'.mine /\ cycle'.verdict = v /\ cycle'.todo = EventsOf(v)
      /\ ~cycle'.lost /\ cycle'.stamped = NoEvent
  BY <1>2 DEF NoCycle
<1>7. cycle' # NoCycle
  <2>1. NoCycle.mine = FALSE
    BY DEF NoCycle
  <2> QED BY <1>6, <2>1
<1>8. CycleTold' = <<>>
  BY <1>6 DEF CycleTold
<1>9. Rest(r)' = Rest(r)
  <2>1. Opening(<<>>) = <<Admission, Enqueuing, Queuing>>
    BY DEF Opening
  <2> QED BY <1>1, <1>8, <2>1 DEF Rest
<1>10. QuietState(r)'
  BY <1>1, <1>3 DEF QuietRun, QuietState, Early
<1>11. QuietEngine(r)'
  BY <1>1, <1>3, <1>4, <1>8 DEF QuietRun, QuietEngine, Early
<1>12. QuietCycle(r)'
  BY <1>5, <1>6, <1>7 DEF QuietCycle, Running
<1>13. StandsAs(script[r], "cycling", Len(script[r]))
  BY <1>1, <1>3 DEF QuietRun, StandsAs, Early
<1>14. QuietRun(r)'
  BY <1>1, <1>3, <1>9, <1>10, <1>11, <1>12, <1>13 DEF QuietRun
<1> QED BY <1>1, <1>3, <1>14, QuietGoesOn

-----------------------------------------------------------------------------
(***************************************************************************)
(* Dispatch.                                                               *)
(***************************************************************************)
\* Past its cycle a request has a verdict, and its next step leaves it alone.
LEMMA PastTheCycle ==
  ASSUME Inv, NEW r \in Requests, Quiet(r), r \notin disturbed,
         pc[r] \notin Early \cup {"new", "done"}
  PROVE  /\ QuietRun(r) /\ script[r] \in Seq(Words) /\ Len(script[r]) \in Nat /\ Len(script[r]) > 1
         /\ script[r][2] \in Judgements /\ own[r] = OwnVerdict(script[r])
         /\ (r \in batched <=> Dispatchable(script[r]))
         /\ attempts[r] = Hands(script[r], Len(script[r]))
         /\ \A w \in Words :
              /\ Append(script[r], w)[2] = script[r][2]
              /\ OwnVerdict(Append(script[r], w)) = OwnVerdict(script[r])
              /\ Dispatchable(Append(script[r], w)) <=> Dispatchable(script[r])
<1>1. QuietRun(r) /\ script[r] \in Seq(Words) /\ Len(script[r]) \in Nat \ {0}
  BY UnderWay
<1>2. Len(script[r]) # 1 /\ script[r][2] \in Judgements
  BY <1>1 DEF QuietRun, StandsAs
<1>3. Len(script[r]) > 1
  <2>1. PICK n : n = Len(script[r])
    OBVIOUS
  <2>2. n \in Nat /\ n # 0 /\ n # 1
    BY <1>1, <1>2, <2>1
  <2>3. n > 1
    BY <2>2
  <2> QED BY <2>1, <2>3
<1>4. /\ own[r] = OwnVerdict(script[r]) /\ (r \in batched <=> Dispatchable(script[r]))
      /\ attempts[r] = Hands(script[r], Len(script[r]))
  BY <1>1 DEF QuietRun, QuietState, QuietEngine
<1>5. ASSUME NEW w \in Words PROVE Append(script[r], w)[2] = script[r][2]
  <2>1. 2 \in 1..Len(script[r])
    BY <1>1, <1>3
  <2> QED BY <1>1, <2>1, Longer
<1> QED BY <1>1, <1>2, <1>3, <1>4, <1>5 DEF OwnVerdict, Dispatchable

LEMMA NotesQuietly ==
  ASSUME Inv, Tracked, NEW r \in Requests, Quiet(r), r \notin disturbed,
         pc[r] \in {"dispatching", "submitting"},
         NEW w \in After(script[r], Len(script[r])), NEW label,
         \/ label = "submitting" /\ w = <<"handed">>
         \/ label = "refused" /\ w \in {<<"no_route">>, <<"not_dispatched">>}
         \/ label = "accepted" /\ w = <<"accepted">>
         \/ label = "dispatching" /\ w = <<"declined">>
         \/ w = <<"raised">> /\ label = IF attempts[r] < MaxAttempts THEN "dispatching" ELSE "refused",
         NEW evs \in Seq(Events), Len(evs) = 0 \/ ~evs[1].failure,
         evs = Heard(Append(script[r], w), Len(script[r]) + 1),
         DispatchStep(r, evs, label, w),
         submitted' = submitted \/ w = <<"accepted">>,
         attempts' = IF w = <<"handed">> THEN [attempts EXCEPT ![r] = @ + 1] ELSE attempts
  PROVE  Quiet(r)'
<1> DEFINE s == script[r]
           n == Len(script[r])
           u == Append(script[r], w)
<1>1. /\ QuietRun(r) /\ s \in Seq(Words) /\ n \in Nat /\ n > 1
      /\ s[2] \in Judgements /\ own[r] = OwnVerdict(s) /\ (r \in batched <=> Dispatchable(s))
      /\ attempts[r] = Hands(s, n)
  BY PastTheCycle DEF Early
<1>2. w \in Words
  BY DEF Words
<1>3. u[2] = s[2] /\ OwnVerdict(u) = OwnVerdict(s) /\ (Dispatchable(u) <=> Dispatchable(s))
  BY <1>2, PastTheCycle DEF Early
<1>4. Len(u) = n + 1 /\ u[n + 1] = w
  BY <1>1, <1>2, Longer
<1>5. Hands(u, n + 1) = IF w = <<"handed">> THEN Hands(s, n) + 1 ELSE Hands(s, n)
  BY <1>1, <1>2, HandsOfLonger
<1>6. WellTold(u)
  BY <1>1, <1>2, WellToldOn DEF QuietRun
<1>7. /\ Told(r, evs) /\ pc'[r] = label /\ script'[r] = u
      /\ UNCHANGED <<streams, state, reason, batched, own, cycle, record>>
  BY DEF DispatchStep, Goto, Noted, Inv, TypedPath, Tracked
<1>8. label \in {"dispatching", "submitting", "accepted", "refused"}
  OBVIOUS
<1>9. Rest(r) = <<>> /\ Rest(r)' = <<>>
  BY <1>7, <1>8 DEF Rest
<1> HIDE DEF u
<1>10. StandsAs(u, label, Len(u))
  <2>1. Len(u) # 1 /\ label \notin Early /\ u[2] \in Judgements
    BY <1>1, <1>3, <1>4, <1>8 DEF Early
  <2>2. label = "dispatching" => Opens(u, n + 1)
    BY <1>1, <1>4, <1>5 DEF Opens
  <2>3. label = "submitting" => u[n + 1] = <<"handed">>
    BY <1>4
  <2>4. label = "accepted" => u[n + 1] = <<"accepted">>
    BY <1>4
  <2>5. label = "refused" => \/ u[n + 1] \in {<<"no_route">>, <<"not_dispatched">>}
                             \/ u[n + 1] = <<"raised">> /\ ~(Hands(u, n + 1) < MaxAttempts)
    BY <1>1, <1>4, <1>5
  <2> QED BY <1>4, <1>8, <2>1, <2>2, <2>3, <2>4, <2>5 DEF StandsAs
<1>11. QuietState(r)'
  BY <1>1, <1>3, <1>7, <1>8 DEF QuietRun, QuietState, Early
<1>12. QuietEngine(r)'
  <2>1. r \notin submitted
    BY <1>1 DEF QuietRun, QuietEngine
  <2>2. attempts'[r] = Hands(u, n + 1)
    <3>1. attempts \in [Requests -> 0..MaxAttempts]
      BY DEF Inv, TypedPath
    <3> QED BY <1>1, <1>5, <3>1
  <2>3. pc'[r] \in Early \cup {"dispatching", "submitting"} => r \notin submitted'
    BY <1>7, <1>8, <2>1 DEF Early
  <2>4. pc'[r] \notin Early
    BY <1>7, <1>8 DEF Early
  <2> QED BY <1>1, <1>3, <1>4, <1>7, <2>2, <2>3, <2>4 DEF QuietEngine, Early
<1>13. Len(evs) \in Nat /\ Len(<<>>) \in Nat
  BY LenProperties
<1>14. Joins(evs, <<>>, evs) /\ Joins(evs, Heard(u, n + 1), <<>>)
  BY <1>13, JoinsNothing DEF u
<1>15. pc[r] \notin {"new", "cycling", "done"} /\ pc'[r] \notin {"new", "cycling", "done"}
  BY <1>7, <1>8
<1> QED BY <1>2, <1>6, <1>7, <1>9, <1>10, <1>11, <1>12, <1>13, <1>14, <1>15, GoesOnQuietly DEF u

LEMMA DispatchesQuietly ==
  ASSUME Inv, Tracked, NEW r \in Requests, Quiet(r), r \notin disturbed
  PROVE  /\ HandOver(r) => Quiet(r)'
         /\ RouteFails(r) => Quiet(r)'
         /\ NothingToDispatch(r) => Quiet(r)'
<1> DEFINE s == script[r]
           n == Len(script[r])
           u(w) == Append(script[r], w)
<1>1. ASSUME pc[r] = "dispatching"
      PROVE  /\ Pending(r) => {<<"handed">>, <<"no_route">>} \subseteq After(s, n)
             /\ ~Pending(r) => <<"not_dispatched">> \in After(s, n)
             /\ \A w \in Words : u(w)[n + 1] = w /\ (Leads(u(w)) <=> Leads(s))
  <2>1. QuietRun(r) /\ s \in Seq(Words) /\ n \in Nat /\ n > 1 /\ (r \in batched <=> Dispatchable(s))
    BY <1>1, PastTheCycle DEF Early
  <2>2. Opens(s, n) /\ r \notin submitted
    BY <1>1, <2>1 DEF QuietRun, StandsAs, QuietEngine
  <2>3. Pending(r) <=> Dispatchable(s)
    BY <1>1, <2>1, <2>2 DEF Pending
  <2>4. \A w \in Words : u(w)[n + 1] = w /\ (Leads(u(w)) <=> Leads(s))
    BY <2>1, Longer, LeadStays
  <2> QED BY <2>2, <2>3, <2>4 DEF After
<1>2. {<<"handed">>, <<"no_route">>, <<"not_dispatched">>} \subseteq Words
  BY DEF Words
<1>3. Lead(r) <=> Leads(s)
  BY DEF Lead, Leads
<1> HIDE DEF s, n, u
<1>5. ASSUME HandOver(r) PROVE Quiet(r)'
  <2> DEFINE evs == RoutingEvent(r, "backend_selected") \o <<AdapterEvent("batch_submitted")>>
             w == <<"handed">>
  <2>1. /\ pc[r] = "dispatching" /\ Pending(r) /\ submitted' = submitted
        /\ attempts' = [attempts EXCEPT ![r] = @ + 1]
        /\ DispatchStep(r, evs, "submitting", w)
    BY <1>5 DEF HandOver
  <2>2. evs = IF Leads(s) THEN <<SchedulerEvent("backend_selected"), AdapterEvent("batch_submitted")>>
              ELSE <<AdapterEvent("batch_submitted")>>
    <3>1. \A a, b : <<a>> \o <<b>> = <<a, b>> /\ <<>> \o <<b>> = <<b>>
      <4>1. ASSUME NEW b PROVE <<>> \o <<b>> = <<b>>
        <5>1. <<b>> \in Seq({b})
          OBVIOUS
        <5> QED BY <5>1, ConcatEmptySeq
      <4> QED BY <4>1, OneAfterAnother, Zenon
    <3>2. RoutingEvent(r, "backend_selected") = IF Leads(s) THEN <<SchedulerEvent("backend_selected")>> ELSE <<>>
      BY <1>3 DEF RoutingEvent
    <3>3. CASE Leads(s)
      BY <3>1, <3>2, <3>3, Zenon
    <3>4. CASE ~Leads(s)
      BY <3>1, <3>2, <3>4, Zenon
    <3> QED BY <3>3, <3>4
  <2>3. w \in After(s, n) /\ u(w)[n + 1] = w /\ (Leads(u(w)) <=> Leads(s))
    BY <1>1, <1>2, <2>1
  <2>4. evs = Heard(u(w), n + 1)
    BY <2>2, <2>3, HeardOfStep
  <2> HIDE DEF evs
  <2>5. evs \in Seq(Events) /\ ~evs[1].failure
    <3>1. PICK e, f : e = SchedulerEvent("backend_selected") /\ f = AdapterEvent("batch_submitted")
      OBVIOUS
    <3>2. Loop(e) /\ Loop(f)
      BY <3>1, LoopEvents
    <3>3. evs = <<e, f>> \/ evs = <<f>>
      BY <2>2, <3>1
    <3>4. CASE evs = <<e, f>>
      <4>1. f \in Events
        BY <3>2 DEF Loop
      <4> QED BY <3>2, <3>4, <4>1, LoopSequences
    <3>5. CASE evs = <<f>>
      <4>1. f \in Events
        BY <3>2 DEF Loop
      <4> QED BY <3>2, <3>5, <4>1, LoopSequences
    <3> QED BY <3>3, <3>4, <3>5
  <2> QED BY <2>1, <2>3, <2>4, <2>5, NotesQuietly DEF s, n, u
<1>6. ASSUME RouteFails(r) PROVE Quiet(r)'
  <2> DEFINE evs == RoutingEvent(r, "routing_failed")
             w == <<"no_route">>
  <2>1. /\ pc[r] = "dispatching" /\ Pending(r) /\ submitted' = submitted /\ attempts' = attempts
        /\ DispatchStep(r, evs, "refused", w)
    BY <1>6 DEF RouteFails
  <2>2. evs = IF Leads(s) THEN <<SchedulerEvent("routing_failed")>> ELSE <<>>
    BY <1>3 DEF RoutingEvent
  <2>3. w \in After(s, n) /\ u(w)[n + 1] = w /\ (Leads(u(w)) <=> Leads(s))
    BY <1>1, <1>2, <2>1
  <2>4. evs = Heard(u(w), n + 1)
    BY <2>2, <2>3, HeardOfStep
  <2> HIDE DEF evs
  <2>5. evs \in Seq(Events) /\ (Len(evs) = 0 \/ ~evs[1].failure)
    <3>1. PICK e : e = SchedulerEvent("routing_failed")
      OBVIOUS
    <3>2. Loop(e)
      BY <3>1, LoopEvents
    <3>3. evs = <<e>> \/ evs = <<>>
      BY <2>2, <3>1
    <3>4. e \in Events
      BY <3>2 DEF Loop
    <3> QED BY <3>2, <3>3, <3>4, LoopSequences
  <2> QED BY <2>1, <2>3, <2>4, <2>5, NotesQuietly DEF s, n, u
<1>7. ASSUME NothingToDispatch(r) PROVE Quiet(r)'
  <2> DEFINE w == <<"not_dispatched">>
  <2>1. /\ pc[r] = "dispatching" /\ ~Pending(r) /\ submitted' = submitted /\ attempts' = attempts
        /\ DispatchStep(r, <<>>, "refused", w)
    BY <1>7 DEF NothingToDispatch
  <2>2. w \in After(s, n) /\ u(w)[n + 1] = w
    BY <1>1, <1>2, <2>1
  <2>3. <<>> = Heard(u(w), n + 1)
    BY <2>2, HeardOfStep
  <2>4. <<>> \in Seq(Events) /\ Len(<<>>) = 0
    OBVIOUS
  <2> QED BY <2>1, <2>2, <2>3, <2>4, NotesQuietly DEF s, n, u
<1> QED BY <1>5, <1>6, <1>7

LEMMA AnswersQuietly ==
  ASSUME Inv, Tracked, NEW r \in Requests, Quiet(r), r \notin disturbed
  PROVE  /\ AdapterAccepts(r) => Quiet(r)'
         /\ AdapterRejects(r) => Quiet(r)'
         /\ AdapterRaises(r) => Quiet(r)'
<1> DEFINE s == script[r]
           n == Len(script[r])
           u(w) == Append(script[r], w)
<1>1. ASSUME pc[r] = "submitting"
      PROVE  /\ {<<"accepted">>, <<"declined">>, <<"raised">>} \subseteq After(s, n)
             /\ attempts[r] = Hands(s, n)
             /\ \A w \in Words : u(w)[n + 1] = w /\ (Leads(u(w)) <=> Leads(s))
             /\ \A w \in Words \ {<<"handed">>} : Hands(u(w), n + 1) = Hands(s, n)
  <2>1. QuietRun(r) /\ s \in Seq(Words) /\ n \in Nat /\ n > 1 /\ attempts[r] = Hands(s, n)
    BY <1>1, PastTheCycle DEF Early
  <2>2. s[n] = <<"handed">>
    BY <1>1, <2>1 DEF QuietRun, StandsAs
  <2>3. ~Opens(s, n)
    BY <2>2 DEF Opens, Judgements
  <2>4. \A w \in Words : u(w)[n + 1] = w /\ (Leads(u(w)) <=> Leads(s))
    BY <2>1, Longer, LeadStays
  <2>5. \A w \in Words \ {<<"handed">>} : Hands(u(w), n + 1) = Hands(s, n)
    BY <2>1, HandsOfLonger
  <2> QED BY <2>1, <2>2, <2>3, <2>4, <2>5 DEF After
<1>2. {<<"accepted">>, <<"declined">>, <<"raised">>} \subseteq Words \ {<<"handed">>}
  BY DEF Words
<1>3. Lead(r) <=> Leads(s)
  BY DEF Lead, Leads
<1> HIDE DEF s, n, u
<1>5. ASSUME AdapterAccepts(r) PROVE Quiet(r)'
  <2> DEFINE evs == <<AdapterEvent("batch_accepted")>>
             w == <<"accepted">>
  <2>1. pc[r] = "submitting" /\ attempts' = attempts /\ DispatchStep(r, evs, "accepted", w)
    BY <1>5 DEF AdapterAccepts
  <2>2. w \in After(s, n) /\ u(w)[n + 1] = w
    BY <1>1, <1>2, <2>1
  <2>3. evs = Heard(u(w), n + 1)
    BY <2>2, HeardOfStep
  <2>4. evs \in Seq(Events) /\ ~evs[1].failure
    BY LoopEvents DEF Loop
  <2> HIDE DEF evs
  <2> QED BY <2>1, <2>2, <2>3, <2>4, NotesQuietly DEF s, n, u
<1>6. ASSUME AdapterRejects(r) PROVE Quiet(r)'
  <2> DEFINE evs == <<AdapterEvent("batch_rejected"), FailureOf(AdapterEvent("batch_rejected"), "failed")>>
             w == <<"declined">>
  <2>1. /\ pc[r] = "submitting" /\ attempts' = attempts /\ submitted' = submitted
        /\ DispatchStep(r, evs, "dispatching", w)
    BY <1>6 DEF AdapterRejects
  <2>2. w \in After(s, n) /\ u(w)[n + 1] = w
    BY <1>1, <1>2, <2>1
  <2>3. evs = Heard(u(w), n + 1)
    BY <2>2, HeardOfStep
  <2>4. evs \in Seq(Events) /\ ~evs[1].failure
    BY LoopEvents DEF Loop
  <2> HIDE DEF evs
  <2> QED BY <2>1, <2>2, <2>3, <2>4, NotesQuietly DEF s, n, u
<1>7. ASSUME AdapterRaises(r) PROVE Quiet(r)'
  <2> DEFINE more == attempts[r] < MaxAttempts
             evs == RoutingEvent(r, IF more THEN "backend_selected" ELSE "routing_failed")
             w == <<"raised">>
  <2>1. /\ pc[r] = "submitting" /\ attempts' = attempts /\ submitted' = submitted
        /\ DispatchStep(r, evs, IF more THEN "dispatching" ELSE "refused", w)
    <3>1. CASE more
      BY <1>7, <3>1 DEF AdapterRaises
    <3>2. CASE ~more
      BY <1>7, <3>2 DEF AdapterRaises
    <3> QED BY <3>1, <3>2
  <2>2. /\ w \in After(s, n) /\ u(w)[n + 1] = w /\ (Leads(u(w)) <=> Leads(s))
        /\ (Hands(u(w), n + 1) < MaxAttempts <=> more)
    BY <1>1, <1>2, <2>1
  <2>3. evs = IF Leads(s) THEN <<SchedulerEvent(IF more THEN "backend_selected" ELSE "routing_failed")>>
              ELSE <<>>
    BY <1>3 DEF RoutingEvent
  <2>4. evs = Heard(u(w), n + 1)
    BY <2>2, <2>3, HeardOfStep
  <2> HIDE DEF evs
  <2>5. evs \in Seq(Events) /\ (Len(evs) = 0 \/ ~evs[1].failure)
    <3>1. PICK e : e = SchedulerEvent(IF more THEN "backend_selected" ELSE "routing_failed")
      OBVIOUS
    <3>2. Loop(e)
      BY <3>1, LoopEvents
    <3>3. evs = <<e>> \/ evs = <<>>
      BY <2>3, <3>1
    <3>4. e \in Events
      BY <3>2 DEF Loop
    <3> QED BY <3>2, <3>3, <3>4, LoopSequences
  <2> QED BY <2>1, <2>2, <2>4, <2>5, NotesQuietly DEF s, n, u
<1> QED BY <1>5, <1>6, <1>7

-----------------------------------------------------------------------------
(***************************************************************************)
(* The end of the path.                                                    *)
(***************************************************************************)
Ending == {<<"accepted">>, <<"no_route">>, <<"not_dispatched">>, <<"raised">>}

\* A path that was dispatched, or is being streamed.
LEMMA NearTheEnd ==
  ASSUME Inv, NEW r \in Requests, Quiet(r), r \notin disturbed,
         pc[r] \in {"accepted", "refused", "executing", "closing"}
  PROVE  LET s == script[r]
             n == Len(script[r])
         IN /\ QuietRun(r) /\ s \in Seq(Words) /\ n \in Nat /\ n > 2 /\ WellTold(s)
            /\ s[2] \in Judgements /\ own[r] = OwnVerdict(s) /\ reason[r] = "none"
            /\ s[n] \in Ending /\ After(s, n) \subseteq {<<"stream_error">>, <<"cancelled">>}
            /\ pc[r] # "refused" => s[n] = <<"accepted">>
            /\ pc[r] = "refused" => s[n] # <<"accepted">>
            /\ pc[r] \in {"executing", "closing"} => s[2] = <<"placed">>
            /\ pc[r] \in {"accepted", "refused"} => state[r] = "queued" /\ Rest(r) = <<>>
            /\ pc[r] = "executing" =>
                 /\ state[r] = IF r \in streams THEN "streaming" ELSE "submitted"
                 /\ Rest(r) = Placing
            /\ pc[r] = "closing" => r \in streams /\ state[r] = "completed" /\ Rest(r) = Completing
<1> DEFINE s == script[r]
           n == Len(script[r])
<1>1. /\ QuietRun(r) /\ s \in Seq(Words) /\ n \in Nat /\ n > 1 /\ s[2] \in Judgements
      /\ own[r] = OwnVerdict(s)
  BY PastTheCycle DEF Early
<1>2. WellTold(s) /\ StandsAs(s, pc[r], n) /\ QuietState(r)
  BY <1>1 DEF QuietRun
<1> HIDE DEF s, n
<1>3. /\ pc[r] \in {"accepted", "executing", "closing"} => s[n] = <<"accepted">>
      /\ pc[r] = "refused" => \/ s[n] \in {<<"no_route">>, <<"not_dispatched">>}
                              \/ s[n] = <<"raised">> /\ ~(Hands(s, n) < MaxAttempts)
      /\ pc[r] \in {"executing", "closing"} => s[2] = <<"placed">>
  BY <1>2 DEF StandsAs
<1>4. s[n] \in Ending /\ (s[n] = <<"raised">> => ~(Hands(s, n) < MaxAttempts))
      /\ (pc[r] = "refused" => s[n] # <<"accepted">>)
  BY <1>3 DEF Ending
<1>5. ~Opens(s, n) /\ s[n] # <<"handed">> /\ s[n] \notin Judgements
  BY <1>4 DEF Ending, Opens, Judgements
<1>6. After(s, n) \subseteq {<<"stream_error">>, <<"cancelled">>}
  BY <1>5 DEF After
<1>7. n # 2
  BY <1>1, <1>5
<1>8. n > 2
  BY <1>1, <1>7
<1>9. reason[r] = "none" /\ (pc[r] = "closing" => r \in streams)
      /\ (pc[r] \in {"accepted", "refused"} => state[r] = "queued")
      /\ (pc[r] = "executing" => state[r] = IF r \in streams THEN "streaming" ELSE "submitted")
      /\ (pc[r] = "closing" => state[r] = "completed")
  BY <1>2 DEF QuietState
<1>10. /\ pc[r] \in {"accepted", "refused"} => Rest(r) = <<>>
       /\ pc[r] = "executing" => Rest(r) = Placing
       /\ pc[r] = "closing" => Rest(r) = Completing
  BY DEF Rest
<1> QED BY <1>1, <1>2, <1>3, <1>4, <1>6, <1>8, <1>9, <1>10 DEF s, n

LEMMA OutcomeOfEnding ==
  ASSUME NEW s, NEW stream, Len(s) \in Nat, Len(s) > 2, s[2] \in Judgements, s[Len(s)] \in Ending,
         After(s, Len(s)) \subseteq {<<"stream_error">>, <<"cancelled">>},
         NEW rest, NEW st, NEW why,
         \/ OwnVerdict(s) = "refused" /\ rest = <<Failing>> /\ st = "failed" /\ why = "adapter"
         \/ OwnVerdict(s) = "absent" /\ rest = <<Failing>> /\ st = "failed" /\ why = "internal"
         \/ OwnVerdict(s) = "skipped" /\ stream /\ rest = <<Failing>> /\ st = "failed" /\ why = "internal"
         \/ OwnVerdict(s) = "skipped" /\ ~stream /\ rest = <<>> /\ st = "queued" /\ why = "none"
         \/ /\ OwnVerdict(s) = "placed" /\ s[Len(s)] = <<"accepted">>
            /\ rest = Completing /\ st = "completed" /\ why = "none"
         \/ /\ OwnVerdict(s) = "placed" /\ s[Len(s)] # <<"accepted">>
            /\ rest = Refusing /\ st = "failed" /\ why = "adapter"
  PROVE  Outcome(s, stream, rest, st, why)
<1>1. /\ s[Len(s)] \notin {<<"rejected">>, <<"admission_error">>, <<"queue_full">>,
                           <<"stream_error">>, <<"cancelled">>}
  BY DEF Ending
<1>2. Len(s) > 1
  OBVIOUS
<1> HIDE DEF Placing
<1> QED BY <1>1, <1>2 DEF Outcome

LEMMA UnplacedEndsQuietly ==
  ASSUME Inv, Tracked, NEW r \in Requests, Quiet(r), r \notin disturbed, EndsUnplaced(r)
  PROVE  Quiet(r)'
<1> DEFINE s == script[r]
<1>1. pc[r] \in {"accepted", "refused"} /\ script' = script /\ streams' = streams
  BY DEF EndsUnplaced, Free
<1>2. /\ QuietRun(r) /\ s \in Seq(Words) /\ Len(s) \in Nat /\ Len(s) > 2 /\ WellTold(s)
      /\ s[2] \in Judgements /\ own[r] = OwnVerdict(s) /\ reason[r] = "none"
      /\ s[Len(s)] \in Ending /\ After(s, Len(s)) \subseteq {<<"stream_error">>, <<"cancelled">>}
      /\ state[r] = "queued" /\ Rest(r) = <<>>
  BY <1>1, NearTheEnd
<1>3. FailedEvents(r) = <<Failing>>
  BY <1>2 DEF FailedEvents, IsAllowedTransition, AllowedTargets, Failing
<1>4. own[r] # "already_batched"
  BY <1>2 DEF OwnVerdict, Judgements
<1>5. ASSUME NEW evs \in {<<>>, <<Failing>>}, NEW st, NEW why, Ends(r, evs, st, why),
             Outcome(s, r \in streams, evs, st, why)
      PROVE  Quiet(r)'
  <2>1. evs \in Seq(Events) /\ (Len(evs) = 0 \/ ~evs[1].failure) /\ Len(evs) \in Nat
    <3>1. Loop(Failing) /\ Failing \in Events
      BY LoopEvents DEF Loop
    <3> QED BY <3>1, LoopSequences, LenProperties
  <2>2. Captured(r, evs, st, why) /\ Goto(r, "done")
    BY <1>5 DEF Ends
  <2>3. Joins(evs, Rest(r), evs) /\ Len(Rest(r)) \in Nat
    BY <1>2, <2>1, JoinsNothing
  <2> QED BY <1>1, <1>2, <1>5, <2>1, <2>2, <2>3, EndsQuietly
<1>6. CASE own[r] = "refused" /\ Fails(r, "adapter")
  <2>1. Outcome(s, r \in streams, <<Failing>>, "failed", "adapter")
    BY <1>2, <1>6, OutcomeOfEnding
  <2> QED BY <1>3, <1>5, <1>6, <2>1 DEF Fails
<1>7. CASE own[r] = "absent" /\ Fails(r, "internal")
  <2>1. Outcome(s, r \in streams, <<Failing>>, "failed", "internal")
    BY <1>2, <1>7, OutcomeOfEnding
  <2> QED BY <1>3, <1>5, <1>7, <2>1 DEF Fails
<1>8. CASE own[r] = "skipped" /\ r \in streams /\ Fails(r, "internal")
  <2>1. Outcome(s, r \in streams, <<Failing>>, "failed", "internal")
    BY <1>2, <1>8, OutcomeOfEnding
  <2> QED BY <1>3, <1>5, <1>8, <2>1 DEF Fails
<1>9. CASE own[r] = "skipped" /\ r \notin streams /\ Ends(r, <<>>, state[r], reason[r])
  <2>1. Outcome(s, r \in streams, <<>>, "queued", "none")
    BY <1>2, <1>9, OutcomeOfEnding
  <2> QED BY <1>2, <1>5, <1>9, <2>1
<1> QED BY <1>4, <1>6, <1>7, <1>8, <1>9 DEF EndsUnplaced

LEMMA JoinsPlacing ==
  /\ Len(Placing) = 3 /\ Len(Completing) = 6 /\ Len(Refusing) = 3
  /\ \A a : Joins(<<Placing[1], Placing[2], Placing[3], a>>, Placing, <<a>>)
  /\ Joins(Completing, Placing, <<Removed>> \o Completion)
  /\ Joins(LateFailing, Completing, <<StateEvent("request_failed", "failed")>>)
  /\ <<Removed>> \o Completion =
       <<Removed, TransitionEvent("request_completed", "completed"),
         StateEvent("request_completed", "completed")>>
<1>1. ASSUME NEW p, NEW q, NEW x, NEW a
      PROVE  Joins(<<p, q, x, a>>, <<p, q, x>>, <<a>>)
  <2>1. PICK u, v, w : u = <<p, q, x, a>> /\ v = <<p, q, x>> /\ w = <<a>>
    OBVIOUS
  <2>2. Len(u) = 4 /\ Len(v) = 3 /\ Len(w) = 1 /\ u[1] = v[1] /\ u[2] = v[2] /\ u[3] = v[3] /\ u[4] = w[1]
    BY <2>1
  <2>3. (\A k \in 1..1 : k = 1) /\ 3 + 1 = 4 /\ \A k \in 1..3 : k \in {1, 2, 3}
    OBVIOUS
  <2>4. Joins(u, v, w)
    BY <2>2, <2>3 DEF Joins
  <2> QED BY <2>1, <2>4
<1>2. ASSUME NEW p, NEW q, NEW x, NEW a, NEW b, NEW c
      PROVE  Joins(<<p, q, x, a, b, c>>, <<p, q, x>>, <<a, b, c>>)
  <2>1. PICK u, v, w : u = <<p, q, x, a, b, c>> /\ v = <<p, q, x>> /\ w = <<a, b, c>>
    OBVIOUS
  <2>2. /\ Len(u) = 6 /\ Len(v) = 3 /\ Len(w) = 3 /\ u[1] = v[1] /\ u[2] = v[2] /\ u[3] = v[3]
        /\ u[4] = w[1] /\ u[5] = w[2] /\ u[6] = w[3]
    BY <2>1
  <2>3. 3 + 1 = 4 /\ 3 + 2 = 5 /\ 3 + 3 = 6 /\ \A k \in 1..3 : k \in {1, 2, 3}
    OBVIOUS
  <2>4. Joins(u, v, w)
    BY <2>2, <2>3 DEF Joins
  <2> QED BY <2>1, <2>4
<1>3. ASSUME NEW p, NEW q, NEW x, NEW a, NEW b, NEW c, NEW d
      PROVE  Joins(<<p, q, x, a, b, c, d>>, <<p, q, x, a, b, c>>, <<d>>)
  <2>1. PICK u, v, w : u = <<p, q, x, a, b, c, d>> /\ v = <<p, q, x, a, b, c>> /\ w = <<d>>
    OBVIOUS
  <2>2. /\ Len(u) = 7 /\ Len(v) = 6 /\ Len(w) = 1 /\ u[1] = v[1] /\ u[2] = v[2] /\ u[3] = v[3]
        /\ u[4] = v[4] /\ u[5] = v[5] /\ u[6] = v[6] /\ u[7] = w[1]
    BY <2>1
  <2>3. (\A k \in 1..1 : k = 1) /\ 6 + 1 = 7 /\ \A k \in 1..6 : k \in {1, 2, 3, 4, 5, 6}
    OBVIOUS
  <2>4. Joins(u, v, w)
    BY <2>2, <2>3 DEF Joins
  <2> QED BY <2>1, <2>4
<1>4. PICK p, q, x, a, b, c :
        /\ p = TransitionEvent("request_scheduled", "scheduled")
        /\ q = TransitionEvent("request_batched", "batched")
        /\ x = TransitionEvent("request_submitted", "submitted")
        /\ a = Removed /\ b = TransitionEvent("request_completed", "completed")
        /\ c = StateEvent("request_completed", "completed")
  OBVIOUS
<1>5. Placing = <<p, q, x>> /\ Completing = <<p, q, x, a, b, c>> /\ Completion = <<b, c>>
  BY <1>4 DEF Placing, Completing, Completion
<1>6. Placing[1] = p /\ Placing[2] = q /\ Placing[3] = x /\ Len(Placing) = 3 /\ Len(Completing) = 6
  BY <1>5
<1>7. <<Removed>> \o Completion = <<a, b, c>>
  BY <1>4, <1>5, OneAfterAnother, Zenon
<1>8. \A d : Joins(<<Placing[1], Placing[2], Placing[3], d>>, Placing, <<d>>)
  BY <1>1, <1>5, <1>6
<1>9. Joins(Completing, Placing, <<Removed>> \o Completion)
  BY <1>2, <1>5, <1>7
<1>10. LateFailing = <<p, q, x, a, b, c, StateEvent("request_failed", "failed")>>
  <2>1. /\ Completing[1] = p /\ Completing[2] = q /\ Completing[3] = x
        /\ Completing[4] = a /\ Completing[5] = b /\ Completing[6] = c
    BY <1>5
  <2> QED BY <2>1 DEF LateFailing
<1>11. Joins(LateFailing, Completing, <<StateEvent("request_failed", "failed")>>)
  BY <1>3, <1>5, <1>10
<1>12. Len(Refusing) = 3
  BY DEF Refusing
<1> QED BY <1>4, <1>6, <1>7, <1>8, <1>9, <1>11, <1>12

LEMMA PlacedEndsQuietly ==
  ASSUME Inv, Tracked, NEW r \in Requests, Quiet(r), r \notin disturbed, EndsPlaced(r)
  PROVE  Quiet(r)'
<1> DEFINE s == script[r]
<1>1. /\ pc[r] \in {"accepted", "refused"} /\ own[r] = "placed"
      /\ script' = script /\ streams' = streams
      /\ UNCHANGED <<batched, submitted, own, attempts, cycle>>
  BY DEF EndsPlaced, Free
<1>2. /\ QuietRun(r) /\ s \in Seq(Words) /\ Len(s) \in Nat /\ Len(s) > 2 /\ WellTold(s)
      /\ s[2] \in Judgements /\ own[r] = OwnVerdict(s) /\ reason[r] = "none"
      /\ s[Len(s)] \in Ending /\ After(s, Len(s)) \subseteq {<<"stream_error">>, <<"cancelled">>}
      /\ state[r] = "queued" /\ Rest(r) = <<>>
      /\ (pc[r] = "accepted" <=> s[Len(s)] = <<"accepted">>)
  BY <1>1, NearTheEnd
<1>3. IsAllowedTransition(state[r], "scheduled")
  BY <1>2 DEF IsAllowedTransition, AllowedTargets
<1>4. s[2] = <<"placed">>
  BY <1>1, <1>2 DEF OwnVerdict, Judgements
<1>5. \A a \in Rests : Len(a) \in Nat
  BY RestsTyped
<1>6. Len(Placing) \in Nat /\ Len(Refusing) \in Nat
  BY <1>5 DEF Rests
<1>7. Placing \in Seq(Events) /\ ~Placing[1].failure /\ Refusing \in Seq(Events) /\ ~Refusing[1].failure
  <2>1. PICK p, q, x, y : /\ p = TransitionEvent("request_scheduled", "scheduled")
                          /\ q = TransitionEvent("request_batched", "batched")
                          /\ x = TransitionEvent("request_submitted", "submitted") /\ y = Failing
    OBVIOUS
  <2>2. p \in Events /\ q \in Events /\ x \in Events /\ y \in Events /\ ~p.failure
    BY <2>1, LoopEvents DEF Loop
  <2>3. Placing = <<p, q, x>> /\ Refusing = <<p, q, y>>
    BY <2>1 DEF Placing, Refusing, Failing
  <2>4. <<p, q, x>> \in Seq(Events) /\ <<p, q, y>> \in Seq(Events)
    BY <2>2
  <2>5. <<p, q, x>>[1] = p /\ <<p, q, y>>[1] = p
    OBVIOUS
  <2> QED BY <2>2, <2>3, <2>4, <2>5
<1>8. CASE pc[r] = "accepted"
  <2>1. Placed(r, <<TransitionEvent("request_submitted", "submitted")>>,
                  IF r \in streams THEN "streaming" ELSE "submitted")
    BY <1>3, <1>8 DEF EndsPlaced
  <2>2. ASSUME NEW a, NEW b, NEW c PROVE <<a, b>> \o <<c>> = <<a, b, c>>
    <3>1. <<a>> \in Seq({a, b, c}) /\ <<b>> \in Seq({a, b, c}) /\ <<c>> \in Seq({a, b, c})
      OBVIOUS
    <3>2. (<<a>> \o <<b>>) \o <<c>> = <<a>> \o (<<b>> \o <<c>>)
      BY <3>1, ConcatAssociative
    <3>3. <<a, b>> = <<a>> \o <<b>> /\ <<b, c>> = <<b>> \o <<c>>
      BY OneAfterAnother, Zenon
    <3>4. <<a, b, c>> = <<a>> \o <<b, c>>
      BY OneAfterAnother, Zenon
    <3> QED BY <3>2, <3>3, <3>4, Zenon
  <2>3. /\ Told(r, Placing) /\ pc'[r] = "executing" /\ record' = record
        /\ state'[r] = (IF r \in streams THEN "streaming" ELSE "submitted") /\ reason'[r] = "none"
    <3>1. Continues(r, Placing, IF r \in streams THEN "streaming" ELSE "submitted", "executing")
      BY <2>1, <2>2 DEF Placed, Placing
    <3>2. reason'[r] = reason[r]
      BY <3>1 DEF Continues, Steps, Becomes, Tracked
    <3>3. pc'[r] = "executing"
      BY <3>1 DEF Continues, Steps, Goto, Inv, TypedPath
    <3>4. state'[r] = IF r \in streams THEN "streaming" ELSE "submitted"
      BY <3>1 DEF Continues, Steps, Becomes, Inv, TypedPath
    <3> QED BY <1>2, <3>1, <3>2, <3>3, <3>4 DEF Continues, Steps
  <2>4. Rest(r)' = Placing
    BY <2>3 DEF Rest
  <2>5. StandsAs(s, "executing", Len(s))
    <3>1. Len(s) # 1
      BY <1>2
    <3> QED BY <1>2, <1>4, <1>8, <3>1 DEF StandsAs, Early
  <2>6. QuietState(r)'
    BY <1>1, <1>2, <2>3 DEF QuietState, Early
  <2>7. QuietEngine(r)'
    BY <1>1, <1>2, <2>3 DEF QuietRun, QuietEngine, Early
  <2>8. Joins(Placing, Rest(r), Placing)
    BY <1>2, <1>6, JoinsNothing
  <2>9. Len(Rest(r)) \in Nat /\ Len(Rest(r)') \in Nat
    BY <1>2, <1>6, <2>4
  <2> HIDE DEF s
  <2>10. pc[r] \notin {"new", "cycling", "done"} /\ pc'[r] \notin {"new", "cycling", "done"}
    BY <1>1, <2>3
  <2>11. WellTold(script'[r]) /\ StandsAs(script'[r], pc'[r], Len(script'[r])) /\ script'[r] = script[r]
    BY <1>1, <1>2, <2>3, <2>5 DEF s
  <2> QED BY <1>1, <1>6, <1>7, <2>3, <2>4, <2>6, <2>7, <2>8, <2>9, <2>10, <2>11, GoesOnQuietly
<1>9. CASE pc[r] = "refused"
  <2>1. Ends(r, Refusing, "failed", "adapter")
    BY <1>3, <1>9 DEF EndsPlaced, Refusing
  <2>2. Captured(r, Refusing, "failed", "adapter") /\ Goto(r, "done")
    BY <2>1 DEF Ends
  <2>3. Outcome(s, r \in streams, Refusing, "failed", "adapter")
    BY <1>1, <1>2, <1>9, OutcomeOfEnding
  <2>4. Joins(Refusing, Rest(r), Refusing) /\ Len(Rest(r)) \in Nat
    BY <1>2, <1>6, JoinsNothing
  <2> QED BY <1>1, <1>2, <1>6, <1>7, <2>2, <2>3, <2>4, EndsQuietly
<1> QED BY <1>1, <1>8, <1>9

LEMMA CompletesQuietly ==
  ASSUME Inv, Tracked, NEW r \in Requests, Quiet(r), r \notin disturbed
  PROVE  /\ Completes(r) => Quiet(r)'
         /\ ~CompletionRefused(r)
         /\ ~StreamNotQueued(r)
<1> DEFINE s == script[r]
           evs == <<Removed>> \o Completion
<1>1. ASSUME Completes(r) PROVE Quiet(r)'
  <2>1. /\ pc[r] = "executing" /\ script' = script /\ streams' = streams
        /\ UNCHANGED <<batched, submitted, own, attempts, cycle>>
    BY <1>1 DEF Completes, Free
  <2>2. /\ QuietRun(r) /\ s \in Seq(Words) /\ Len(s) \in Nat /\ Len(s) > 2 /\ WellTold(s)
        /\ s[2] = <<"placed">> /\ s[2] \in Judgements /\ own[r] = OwnVerdict(s) /\ reason[r] = "none"
        /\ s[Len(s)] \in Ending /\ After(s, Len(s)) \subseteq {<<"stream_error">>, <<"cancelled">>}
        /\ Rest(r) = Placing /\ s[Len(s)] = <<"accepted">>
    BY <2>1, NearTheEnd
  <2>3. evs \in Seq(Events) /\ ~evs[1].failure
    <3>1. PICK p, q, x : /\ p = Removed /\ q = TransitionEvent("request_completed", "completed")
                         /\ x = StateEvent("request_completed", "completed")
      OBVIOUS
    <3>2. p \in Events /\ q \in Events /\ x \in Events /\ ~p.failure
      BY <3>1, LoopEvents DEF Loop
    <3>3. evs = <<p, q, x>>
      BY <3>1, JoinsPlacing
    <3>4. <<p, q, x>> \in Seq(Events) /\ <<p, q, x>>[1] = p
      BY <3>2
    <3> QED BY <3>2, <3>3, <3>4
  <2>4. Joins(Completing, Rest(r), evs) /\ Len(Rest(r)) \in Nat /\ Len(Completing) \in Nat
    BY <2>2, JoinsPlacing
  <2>5. OwnVerdict(s) = "placed"
    BY <2>2 DEF OwnVerdict
  <2> HIDE DEF evs
  <2>6. CASE r \in streams
    <3>1. Steps(r, evs, "completed", "closing")
      BY <1>1, <2>6 DEF Completes, evs
    <3>2. /\ Told(r, evs) /\ pc'[r] = "closing" /\ record' = record
          /\ state'[r] = "completed" /\ reason'[r] = "none"
      <4>1. reason'[r] = reason[r]
        BY <3>1 DEF Steps, Becomes, Tracked
      <4>2. pc'[r] = "closing" /\ state'[r] = "completed"
        BY <3>1 DEF Steps, Goto, Becomes, Inv, TypedPath
      <4> QED BY <2>2, <3>1, <4>1, <4>2 DEF Steps
    <3>3. Rest(r)' = Completing
      BY <3>2 DEF Rest
    <3>4. StandsAs(s, "closing", Len(s))
      <4>1. Len(s) # 1
        BY <2>2
      <4> QED BY <2>2, <4>1 DEF StandsAs, Early
    <3>5. QuietState(r)'
      BY <2>1, <2>2, <2>6, <3>2 DEF QuietState, Early
    <3>6. QuietEngine(r)'
      BY <2>1, <2>2, <3>2 DEF QuietRun, QuietEngine, Early
    <3>7. Len(Rest(r)') \in Nat
      BY <2>4, <3>3
    <3>8. pc[r] \notin {"new", "cycling", "done"} /\ pc'[r] \notin {"new", "cycling", "done"}
      BY <2>1, <3>2
    <3>9. WellTold(script'[r]) /\ StandsAs(script'[r], pc'[r], Len(script'[r])) /\ script'[r] = script[r]
      BY <2>1, <2>2, <3>2, <3>4
    <3> QED BY <2>1, <2>3, <2>4, <3>2, <3>3, <3>5, <3>6, <3>7, <3>8, <3>9, GoesOnQuietly
  <2>7. CASE r \notin streams
    <3>1. Ends(r, evs, "completed", reason[r])
      BY <1>1, <2>7 DEF Completes, evs
    <3>2. Captured(r, evs, "completed", "none") /\ Goto(r, "done")
      BY <2>2, <3>1 DEF Ends
    <3>3. Outcome(s, r \in streams, Completing, "completed", "none")
      BY <2>2, <2>5, OutcomeOfEnding
    <3> QED BY <2>1, <2>2, <2>3, <2>4, <3>2, <3>3, EndsQuietly
  <2> QED BY <2>6, <2>7
<1>2. ~CompletionRefused(r)
  <2>1. SUFFICES ASSUME pc[r] = "executing" PROVE Completable(r)
    BY DEF CompletionRefused
  <2>2. state[r] = IF r \in streams THEN "streaming" ELSE "submitted"
    BY <2>1, NearTheEnd
  <2> QED BY <2>2 DEF Completable
<1>3. ~StreamNotQueued(r)
  <2>1. SUFFICES ASSUME pc[r] = "waiting" PROVE state[r] = "queued"
    BY DEF StreamNotQueued
  <2>2. QuietState(r)
    BY <2>1, UnderWay DEF QuietRun
  <2> QED BY <2>1, <2>2 DEF QuietState
<1> QED BY <1>1, <1>2, <1>3

LEMMA StreamsEndQuietly ==
  ASSUME Inv, Tracked, NEW r \in Requests, Quiet(r), r \notin disturbed
  PROVE  /\ StreamError(r) => Quiet(r)'
         /\ StreamCancel(r) => Quiet(r)'
         /\ CloseStream(r) => Quiet(r)'
         /\ StreamAbandoned(r) => Quiet(r)'
<1> DEFINE s == script[r]
           n == Len(script[r])
<1>1. ASSUME pc[r] \in {"executing", "closing"}
      PROVE  /\ QuietRun(r) /\ s \in Seq(Words) /\ n \in Nat /\ n > 2 /\ WellTold(s)
             /\ s[2] = <<"placed">> /\ s[2] \in Judgements /\ reason[r] = "none"
             /\ s[n] = <<"accepted">> /\ s[n] \in Ending
             /\ After(s, n) = {<<"stream_error">>, <<"cancelled">>}
             /\ OwnVerdict(s) = "placed"
             /\ pc[r] = "executing" =>
                  /\ state[r] = IF r \in streams THEN "streaming" ELSE "submitted"
                  /\ Rest(r) = Placing
             /\ pc[r] = "closing" => state[r] = "completed" /\ Rest(r) = Completing
             /\ Len(Rest(r)) \in Nat
  <2>1. /\ QuietRun(r) /\ s \in Seq(Words) /\ n \in Nat /\ n > 2 /\ WellTold(s)
        /\ s[2] = <<"placed">> /\ s[2] \in Judgements /\ reason[r] = "none"
        /\ s[n] = <<"accepted">> /\ s[n] \in Ending
        /\ pc[r] = "executing" =>
             /\ state[r] = IF r \in streams THEN "streaming" ELSE "submitted"
             /\ Rest(r) = Placing
        /\ pc[r] = "closing" => state[r] = "completed" /\ Rest(r) = Completing
    BY <1>1, NearTheEnd
  <2>2. After(s, n) = {<<"stream_error">>, <<"cancelled">>}
    <3>1. ~Opens(s, n)
      BY <2>1 DEF Opens, Judgements
    <3> QED BY <2>1, <3>1 DEF After
  <2>3. OwnVerdict(s) = "placed"
    BY <2>1 DEF OwnVerdict
  <2>4. Len(Rest(r)) \in Nat
    BY <1>1, <2>1, JoinsPlacing
  <2> QED BY <2>1, <2>2, <2>3, <2>4
<1>2. ASSUME StreamError(r) PROVE Quiet(r)'
  <2> DEFINE w == <<"stream_error">>
             u == Append(s, w)
  <2>1. /\ r \in streams /\ pc[r] \in {"executing", "closing"} /\ StreamFails(r)
        /\ Noted(r, w) /\ streams' = streams
    BY <1>2 DEF StreamError, Free
  <2>2. w \in Words /\ w \in Words \ {<<"handed">>}
    BY DEF Words
  <2>3. script'[r] = u
    BY <2>1 DEF Noted, Tracked
  <2>4. /\ Len(u) = n + 1 /\ u[n + 1] = w /\ u[2] = s[2] /\ WellTold(u)
    <3>1. 2 \in 1..n
      BY <1>1, <2>1
    <3>2. Len(u) = n + 1 /\ u[n + 1] = w /\ u[2] = s[2]
      BY <1>1, <2>1, <2>2, <3>1, Longer
    <3>3. n > 1 /\ w \in After(s, n)
      BY <1>1, <2>1
    <3>4. WellTold(u)
      BY <1>1, <2>1, <2>2, <3>3, WellToldOn
    <3> QED BY <3>2, <3>4
  <2>5. Heard(u, n + 1) = <<>>
    BY <2>4, HeardOfStep
  <2>6. state[r] \notin {"failed", "cancelled"}
    BY <1>1, <2>1
  <2>7. Fails(r, "adapter")
    BY <2>1, <2>6 DEF StreamFails
  <2> HIDE DEF u
  <2>8. PICK e \in Events, more \in {StreamFailing, LateFailing} :
          /\ ~e.failure /\ FailedEvents(r) = <<e>> /\ Joins(more, Rest(r), <<e>>)
    <3>1. CASE pc[r] = "executing"
      <4>1. FailedEvents(r) = <<Failing>>
        BY <1>1, <2>1, <3>1 DEF FailedEvents, IsAllowedTransition, AllowedTargets, Failing
      <4>2. Failing \in Events /\ ~Failing.failure
        BY LoopEvents DEF Loop
      <4>3. Joins(StreamFailing, Placing, <<Failing>>)
        BY JoinsPlacing DEF StreamFailing
      <4> QED BY <1>1, <2>1, <3>1, <4>1, <4>2, <4>3
    <3>2. CASE pc[r] = "closing"
      <4>1. FailedEvents(r) = <<StateEvent("request_failed", "failed")>>
        BY <1>1, <2>1, <3>2 DEF FailedEvents, IsAllowedTransition, AllowedTargets
      <4>2. StateEvent("request_failed", "failed") \in Events /\ ~StateEvent("request_failed", "failed").failure
        BY LoopEvents DEF Loop
      <4>3. Joins(LateFailing, Completing, <<StateEvent("request_failed", "failed")>>)
        BY JoinsPlacing
      <4> QED BY <1>1, <2>1, <3>2, <4>1, <4>2, <4>3
    <3> QED BY <2>1, <3>1, <3>2
  <2>9. Captured(r, <<e>>, "failed", "adapter") /\ Goto(r, "done")
    BY <2>7, <2>8 DEF Fails, Ends
  <2>10. <<e>> \in Seq(Events) /\ ~<<e>>[1].failure
    BY <2>8, LoopSequences DEF Loop
  <2>11. Len(more) \in Nat
    BY <2>8, RestsTyped DEF Rests
  <2>12. Joins(more, Heard(u, n + 1), more)
    BY <2>5, <2>11, JoinsNothing
  <2>13. Outcome(u, r \in streams, more, "failed", "adapter")
    <3>1. n + 1 > 1
      BY <1>1, <2>1
    <3> QED BY <1>1, <2>1, <2>4, <2>8, <3>1 DEF Outcome
  <2>14. QuietRun(r) /\ Len(Rest(r)) \in Nat /\ pc[r] \notin {"new", "done"}
    BY <1>1, <2>1
  <2> QED BY <2>1, <2>2, <2>3, <2>4, <2>8, <2>9, <2>10, <2>11, <2>12, <2>13, <2>14, EndsQuietly DEF u
<1>3. ASSUME StreamCancel(r) PROVE Quiet(r)'
  <2> DEFINE w == <<"cancelled">>
             u == Append(s, w)
  <2>1. /\ r \in streams /\ pc[r] = "executing" /\ Noted(r, w) /\ streams' = streams
        /\ Ends(r, <<>>, IF Completable(r) THEN "cancelled" ELSE state[r], reason[r])
    BY <1>3 DEF StreamCancel, Free
  <2>2. w \in Words /\ w \in Words \ {<<"handed">>}
    BY DEF Words
  <2>3. script'[r] = u
    BY <2>1 DEF Noted, Tracked
  <2>4. /\ Len(u) = n + 1 /\ u[n + 1] = w /\ u[2] = s[2] /\ WellTold(u)
    <3>1. 2 \in 1..n
      BY <1>1, <2>1
    <3>2. Len(u) = n + 1 /\ u[n + 1] = w /\ u[2] = s[2]
      BY <1>1, <2>1, <2>2, <3>1, Longer
    <3>3. n > 1 /\ w \in After(s, n)
      BY <1>1, <2>1
    <3>4. WellTold(u)
      BY <1>1, <2>1, <2>2, <3>3, WellToldOn
    <3> QED BY <3>2, <3>4
  <2>5. Heard(u, n + 1) = <<>>
    BY <2>4, HeardOfStep
  <2>6. Completable(r) /\ reason[r] = "none"
    BY <1>1, <2>1 DEF Completable
  <2>7. Captured(r, <<>>, "cancelled", "none") /\ Goto(r, "done")
    BY <2>1, <2>6 DEF Ends
  <2> HIDE DEF u
  <2>8. Rest(r) = Placing /\ Len(Placing) \in Nat /\ QuietRun(r)
    BY <1>1, <2>1
  <2>9. Joins(Placing, Rest(r), <<>>) /\ Joins(Placing, Heard(u, n + 1), Placing)
    BY <2>5, <2>8, JoinsNothing
  <2>10. <<>> \in Seq(Events) /\ Len(<<>>) = 0
    OBVIOUS
  <2>11. Outcome(u, r \in streams, Placing, "cancelled", "none")
    <3>1. n + 1 > 1
      BY <1>1, <2>1
    <3> QED BY <1>1, <2>1, <2>4, <3>1 DEF Outcome
  <2> QED BY <2>1, <2>2, <2>3, <2>4, <2>7, <2>8, <2>9, <2>10, <2>11, EndsQuietly DEF u
<1>4. ASSUME CloseStream(r) PROVE Quiet(r)'
  <2>1. /\ pc[r] = "closing" /\ script' = script /\ streams' = streams
        /\ Ends(r, <<>>, state[r], reason[r])
    BY <1>4 DEF CloseStream, Free
  <2>2. Captured(r, <<>>, "completed", "none") /\ Goto(r, "done")
    BY <1>1, <2>1 DEF Ends
  <2>3. Rest(r) = Completing /\ Len(Completing) \in Nat /\ QuietRun(r)
    BY <1>1, <2>1
  <2>4. Joins(Completing, Rest(r), <<>>)
    BY <2>3, JoinsNothing
  <2>5. Outcome(s, r \in streams, Completing, "completed", "none")
    BY <1>1, <2>1, OutcomeOfEnding
  <2>6. <<>> \in Seq(Events) /\ Len(<<>>) = 0
    OBVIOUS
  <2>7. WellTold(script'[r])
    BY <1>1, <2>1
  <2> QED BY <2>1, <2>2, <2>3, <2>4, <2>5, <2>6, <2>7, EndsQuietly
<1>5. ASSUME StreamAbandoned(r) PROVE Quiet(r)'
  <2>1. /\ pc[r] \in {"executing", "closing"} /\ pc'[r] = "done"
        /\ UNCHANGED <<streams, script, record>>
    BY <1>5 DEF StreamAbandoned, Goto, Free, tellVars, Inv, TypedPath
  <2>2. record[r] = NoRecord
    BY <2>1, UnderWay
  <2> QED BY <2>1, <2>2, QuietEnds
<1> QED BY <1>2, <1>3, <1>4, <1>5

-----------------------------------------------------------------------------
(***************************************************************************)
(* The thread of the scheduling cycle.                                     *)
(***************************************************************************)
LEMMA CycleOf ==
  ASSUME Inv, NEW r \in Requests, Quiet(r), r \notin disturbed, Running(r), pc[r] # "done"
  PROVE  /\ pc[r] = "cycling" /\ QuietRun(r) /\ record[r] = NoRecord
         /\ cycle.of = r /\ cycle # NoCycle /\ cycle.mine
         /\ cycle.verdict \in {"absent", "skipped", "refused", "placed"}
         /\ cycle.todo \in {EventsOf(cycle.verdict), <<>>} \cup
              IF cycle.verdict \in {"refused", "placed"} THEN {<<"request_selected">>} ELSE {}
         /\ cycle.lost => cycle.todo = <<>> /\ cycle.verdict \in {"refused", "placed"}
         /\ cycle.stamped # NoEvent =>
              \A i \in 1..Len(trace[r]) : trace[r][i].at <= cycle.stamped.at
         /\ script[r] \in Seq(Words) /\ Len(script[r]) = 1 /\ Rest(r) = Opening(CycleTold)
         /\ r \in batched <=> CycleTold # <<>> /\ cycle.verdict = "placed"
         /\ state[r] = "queued" /\ reason[r] = "none" /\ r \notin submitted
         /\ attempts[r] = Hands(script[r], Len(script[r]))
<1>1. pc[r] # "new"
  BY DEF Quiet, QuietNew
<1>2. QuietRun(r) /\ record[r] = NoRecord /\ script[r] \in Seq(Words)
  BY <1>1, UnderWay
<1>3. QuietCycle(r) /\ QuietState(r) /\ QuietEngine(r) /\ StandsAs(script[r], pc[r], Len(script[r]))
  BY <1>2 DEF QuietRun
<1>4. pc[r] = "cycling"
  BY <1>3 DEF QuietCycle, Running, Inv, CycleInv
<1>5. Len(script[r]) = 1
  BY <1>3, <1>4 DEF StandsAs, Early
<1>6. Rest(r) = Opening(CycleTold)
  BY <1>4 DEF Rest
<1>7. state[r] = "queued" /\ reason[r] = "none"
  BY <1>3, <1>4 DEF QuietState
<1>8. /\ r \in batched <=> CycleTold # <<>> /\ cycle.verdict = "placed"
      /\ r \notin submitted /\ attempts[r] = Hands(script[r], Len(script[r]))
  BY <1>3, <1>4 DEF QuietEngine, Early
<1>9. cycle.of = r /\ cycle # NoCycle
  BY DEF Running
<1> QED BY <1>2, <1>3, <1>4, <1>5, <1>6, <1>7, <1>8, <1>9 DEF QuietCycle

\* The run of r after a step of its cycle that is not its last.
LEMMA CyclingStaysQuiet ==
  ASSUME NEW r \in Requests, Quiet(r), r \notin disturbed, QuietRun(r),
         pc[r] = "cycling", Len(script[r]) = 1, r \notin submitted,
         UNCHANGED <<streams, state, reason, pc, submitted, own, attempts, record, script>>,
         record[r] = NoRecord, InTime(trace'[r]),
         \E m : Tells(trace'[r], script[r], m, Opening(CycleTold')),
         Running(r)', cycle'.mine,
         cycle'.verdict \in {"absent", "skipped", "refused", "placed"},
         cycle'.todo \in {EventsOf(cycle'.verdict), <<>>} \cup
              IF cycle'.verdict \in {"refused", "placed"} THEN {<<"request_selected">>} ELSE {},
         cycle'.lost => cycle'.todo = <<>> /\ cycle'.verdict \in {"refused", "placed"},
         cycle'.stamped # NoEvent =>
              \A i \in 1..Len(trace'[r]) : trace'[r][i].at <= cycle'.stamped.at,
         r \in batched' <=> CycleTold' # <<>> /\ cycle'.verdict = "placed"
  PROVE  Quiet(r)'
<1>1. Rest(r)' = Opening(CycleTold')
  BY DEF Rest
<1>2. QuietState(r)'
  BY DEF QuietRun, QuietState, Early
<1>3. QuietEngine(r)'
  BY DEF QuietRun, QuietEngine, Early
<1>4. QuietCycle(r)'
  BY DEF QuietCycle
<1>5. QuietRun(r)'
  BY <1>1, <1>2, <1>3, <1>4 DEF QuietRun
<1> QED BY <1>5, QuietGoesOn

LEMMA StampsQuietly ==
  ASSUME Inv, NEW r \in Requests, Quiet(r), CycleStamps
  PROVE  Quiet(r)'
<1>1. /\ cycle' = [cycle EXCEPT !.stamped = [e |-> SchedulerEvent(Head(cycle.todo)),
                                             at |-> stamps[cycle.of] + 1]]
      /\ UNCHANGED <<streams, state, reason, pc, batched, submitted, own, attempts, trace, record,
                     script, disturbed>>
  BY DEF CycleStamps, pathVars, historyVars
<1>2. cycle \in Cycles
  BY DEF Inv, TypedPath
<1>3. /\ cycle'.of = cycle.of /\ cycle'.mine = cycle.mine /\ cycle'.verdict = cycle.verdict
      /\ cycle'.todo = cycle.todo /\ cycle'.lost = cycle.lost
      /\ cycle'.stamped.at = stamps[cycle.of] + 1
  BY <1>1, <1>2 DEF Cycles
<1>4. cycle # NoCycle /\ cycle' # NoCycle
  BY <1>3 DEF CycleStamps, NoCycle
<1>5. CycleTold' = CycleTold
  BY <1>3 DEF CycleTold
<1>6. CASE r \in disturbed
  BY <1>1, <1>6 DEF Quiet
<1>7. CASE cycle.of # r
  <2>1. ~Running(r) /\ ~Running(r)'
    BY <1>3, <1>7 DEF Running
  <2> QED BY <1>1, <2>1, QuietUnmoved
<1>8. CASE cycle.of = r /\ r \notin disturbed /\ pc[r] = "done"
  BY <1>1, <1>8, QuietAfterTheEnd
<1>9. CASE cycle.of = r /\ r \notin disturbed /\ pc[r] # "done"
  <2>1. Running(r) /\ Running(r)'
    BY <1>3, <1>4, <1>9 DEF Running
  <2>2. /\ pc[r] = "cycling" /\ QuietRun(r) /\ record[r] = NoRecord /\ cycle.mine
        /\ cycle.verdict \in {"absent", "skipped", "refused", "placed"}
        /\ cycle.todo \in {EventsOf(cycle.verdict), <<>>} \cup
              IF cycle.verdict \in {"refused", "placed"} THEN {<<"request_selected">>} ELSE {}
        /\ cycle.lost => cycle.todo = <<>> /\ cycle.verdict \in {"refused", "placed"}
        /\ Len(script[r]) = 1 /\ Rest(r) = Opening(CycleTold) /\ r \notin submitted
        /\ r \in batched <=> CycleTold # <<>> /\ cycle.verdict = "placed"
    BY <1>9, <2>1, CycleOf
  <2>3. InTime(trace'[r]) /\ \E m : Tells(trace'[r], script[r], m, Opening(CycleTold'))
    BY <1>1, <1>5, <2>2 DEF QuietRun
  <2>4. \A i \in 1..Len(trace'[r]) : trace'[r][i].at <= cycle'.stamped.at
    <3>1. TimesPast(trace[r], stamps[r]) /\ stamps[r] \in Nat
      BY DEF Inv, RequestInv, TraceInv, TypedTelling
    <3>2. \A i \in 1..Len(trace[r]) : trace[r][i].at \in 1..stamps[r]
      BY <3>1 DEF TimesPast
    <3>3. \A a \in 1..stamps[r] : a <= stamps[r] + 1
      BY <3>1
    <3> QED BY <1>1, <1>3, <1>9, <3>2, <3>3
  <2> QED BY <1>1, <1>3, <1>5, <1>9, <2>1, <2>2, <2>3, <2>4, CyclingStaysQuiet
<1> QED BY <1>6, <1>7, <1>8, <1>9

LEMMA RaisesQuietly ==
  ASSUME Inv, NEW r \in Requests, Quiet(r), CycleRaises
  PROVE  Quiet(r)'
<1>1. /\ cycle' = [cycle EXCEPT !.lost = TRUE, !.todo = <<>>]
      /\ UNCHANGED <<streams, state, reason, pc, batched, submitted, own, attempts, trace, record,
                     script, disturbed>>
  BY DEF CycleRaises, pathVars, tellVars, historyVars
<1>2. cycle \in Cycles
  BY DEF Inv, TypedPath
<1>3. /\ cycle'.of = cycle.of /\ cycle'.mine = cycle.mine /\ cycle'.verdict = cycle.verdict
      /\ cycle'.todo = <<>> /\ cycle'.lost /\ cycle'.stamped = NoEvent
      /\ cycle.todo = <<"request_selected">> /\ cycle.verdict \in {"placed", "refused"}
  BY <1>1, <1>2 DEF Cycles, CycleRaises
<1>4. cycle # NoCycle /\ cycle' # NoCycle
  BY <1>3 DEF NoCycle
<1>5. CycleTold' = CycleTold
  <2>1. EventsOf(cycle.verdict) # <<>> /\ EventsOf(cycle.verdict) # <<"request_selected">>
    BY <1>3 DEF EventsOf
  <2> QED BY <1>3, <2>1 DEF CycleTold
<1>6. CASE r \in disturbed
  BY <1>1, <1>6 DEF Quiet
<1>7. CASE cycle.of # r
  <2>1. ~Running(r) /\ ~Running(r)'
    BY <1>3, <1>7 DEF Running
  <2> QED BY <1>1, <2>1, QuietUnmoved
<1>8. CASE cycle.of = r /\ r \notin disturbed /\ pc[r] = "done"
  BY <1>1, <1>8, QuietAfterTheEnd
<1>9. CASE cycle.of = r /\ r \notin disturbed /\ pc[r] # "done"
  <2>1. Running(r) /\ Running(r)'
    BY <1>3, <1>4, <1>9 DEF Running
  <2>2. /\ pc[r] = "cycling" /\ QuietRun(r) /\ record[r] = NoRecord /\ cycle.mine
        /\ Len(script[r]) = 1 /\ Rest(r) = Opening(CycleTold) /\ r \notin submitted
        /\ r \in batched <=> CycleTold # <<>> /\ cycle.verdict = "placed"
    BY <1>9, <2>1, CycleOf
  <2>3. InTime(trace'[r]) /\ \E m : Tells(trace'[r], script[r], m, Opening(CycleTold'))
    BY <1>1, <1>5, <2>2 DEF QuietRun
  <2>4. /\ cycle'.verdict \in {"absent", "skipped", "refused", "placed"}
        /\ cycle'.todo \in {EventsOf(cycle'.verdict), <<>>} \cup
              IF cycle'.verdict \in {"refused", "placed"} THEN {<<"request_selected">>} ELSE {}
    BY <1>3
  <2> QED BY <1>1, <1>3, <1>5, <1>9, <2>1, <2>2, <2>3, <2>4, CyclingStaysQuiet
<1> QED BY <1>6, <1>7, <1>8, <1>9

\* What the cycle has told grows by the event it appends.
LEMMA CycleTellsOn ==
  ASSUME cycle.verdict \in {"absent", "skipped", "refused", "placed"},
         cycle.todo \in {EventsOf(cycle.verdict), <<>>} \cup
              IF cycle.verdict \in {"refused", "placed"} THEN {<<"request_selected">>} ELSE {},
         cycle.todo # <<>>, ~cycle.lost,
         cycle'.verdict = cycle.verdict, cycle'.todo = Tail(cycle.todo), cycle'.lost = cycle.lost
  PROVE  /\ Joins(Opening(CycleTold'), Opening(CycleTold), <<SchedulerEvent(Head(cycle.todo))>>)
         /\ Len(Opening(CycleTold)) \in Nat /\ CycleTold' # <<>>
         /\ Head(cycle.todo) = "request_added_to_batch" => cycle.verdict = "placed"
         /\ cycle.verdict = "placed" =>
              (Head(cycle.todo) = "request_added_to_batch" \/ CycleTold # <<>>)
         /\ cycle'.todo \in {EventsOf(cycle.verdict), <<>>} \cup
              IF cycle.verdict \in {"refused", "placed"} THEN {<<"request_selected">>} ELSE {}
<1>1. Opening(<<>>) = <<Admission, Enqueuing, Queuing>>
  BY DEF Opening
<1>2. ASSUME NEW a PROVE Opening(<<a>>) = <<Admission, Enqueuing, Queuing, SchedulerEvent(a)>>
  BY DEF Opening
<1>3. ASSUME NEW a, NEW b
      PROVE  Opening(<<a, b>>) = <<Admission, Enqueuing, Queuing, SchedulerEvent(a), SchedulerEvent(b)>>
  BY DEF Opening
<1>4. ASSUME NEW x, NEW y, NEW z, NEW a
      PROVE  Joins(<<x, y, z, a>>, <<x, y, z>>, <<a>>) /\ Len(<<x, y, z>>) = 3
  <2>1. PICK u, v, w : u = <<x, y, z, a>> /\ v = <<x, y, z>> /\ w = <<a>>
    OBVIOUS
  <2>2. Len(u) = 4 /\ Len(v) = 3 /\ Len(w) = 1 /\ u[1] = v[1] /\ u[2] = v[2] /\ u[3] = v[3] /\ u[4] = w[1]
    BY <2>1
  <2>3. (\A k \in 1..1 : k = 1) /\ 3 + 1 = 4 /\ \A k \in 1..3 : k \in {1, 2, 3}
    OBVIOUS
  <2>4. Joins(u, v, w)
    BY <2>2, <2>3 DEF Joins
  <2> QED BY <2>1, <2>2, <2>4
<1>5. ASSUME NEW x, NEW y, NEW z, NEW a, NEW b
      PROVE  Joins(<<x, y, z, a, b>>, <<x, y, z, a>>, <<b>>) /\ Len(<<x, y, z, a>>) = 4
  <2>1. PICK u, v, w : u = <<x, y, z, a, b>> /\ v = <<x, y, z, a>> /\ w = <<b>>
    OBVIOUS
  <2>2. /\ Len(u) = 5 /\ Len(v) = 4 /\ Len(w) = 1 /\ u[1] = v[1] /\ u[2] = v[2] /\ u[3] = v[3]
        /\ u[4] = v[4] /\ u[5] = w[1]
    BY <2>1
  <2>3. (\A k \in 1..1 : k = 1) /\ 4 + 1 = 5 /\ \A k \in 1..4 : k \in {1, 2, 3, 4}
    OBVIOUS
  <2>4. Joins(u, v, w)
    BY <2>2, <2>3 DEF Joins
  <2> QED BY <2>1, <2>2, <2>4
<1>6. \A a, b : /\ Head(<<a>>) = a /\ Tail(<<a>>) = <<>> /\ Head(<<a, b>>) = a /\ Tail(<<a, b>>) = <<b>>
                /\ <<a>> # <<>> /\ <<a, b>> # <<>> /\ <<a, b>> # <<b>>
  OBVIOUS
<1>7. CASE cycle.verdict = "absent"
  BY <1>7 DEF EventsOf
<1>8. CASE cycle.verdict = "skipped"
  <2>1. EventsOf(cycle.verdict) = <<"request_skipped">>
    BY <1>8 DEF EventsOf
  <2>2. cycle.todo = <<"request_skipped">> /\ cycle'.todo = <<>> /\ Head(cycle.todo) = "request_skipped"
    BY <1>6, <1>8, <2>1
  <2>3. CycleTold = <<>>
    BY <2>1, <2>2 DEF CycleTold
  <2>4. EventsOf(cycle'.verdict) = <<"request_skipped">> /\ cycle'.todo # EventsOf(cycle'.verdict)
    BY <1>6, <2>1, <2>2
  <2>5. CycleTold' = <<"request_skipped">>
    BY <1>8, <2>2, <2>4 DEF CycleTold
  <2>6. Joins(Opening(CycleTold'), Opening(CycleTold), <<SchedulerEvent(Head(cycle.todo))>>)
        /\ Len(Opening(CycleTold)) \in Nat
    BY <1>1, <1>2, <1>4, <2>2, <2>3, <2>5
  <2> QED BY <1>6, <1>8, <2>2, <2>5, <2>6
<1>9. CASE cycle.verdict \in {"refused", "placed"}
  <2>1. PICK a : a = IF cycle.verdict = "placed" THEN "request_added_to_batch" ELSE "batch_admission"
    OBVIOUS
  <2>2. EventsOf(cycle.verdict) = <<a, "request_selected">> /\ Head(EventsOf(cycle.verdict)) = a
    BY <1>6, <1>9, <2>1 DEF EventsOf
  <2>3. EventsOf(cycle'.verdict) = <<a, "request_selected">> /\ Head(EventsOf(cycle'.verdict)) = a
    BY <2>2
  <2>4. CASE cycle.todo = EventsOf(cycle.verdict)
    <3>1. cycle'.todo = <<"request_selected">> /\ Head(cycle.todo) = a
      BY <1>6, <2>2, <2>4
    <3>2. CycleTold = <<>>
      BY <2>4 DEF CycleTold
    <3>3. cycle'.todo # EventsOf(cycle'.verdict) /\ cycle'.todo # <<>>
      BY <1>6, <2>3, <3>1
    <3>4. CycleTold' = <<a>>
      BY <1>9, <2>3, <3>3 DEF CycleTold
    <3>5. Joins(Opening(CycleTold'), Opening(CycleTold), <<SchedulerEvent(Head(cycle.todo))>>)
          /\ Len(Opening(CycleTold)) \in Nat
      BY <1>1, <1>2, <1>4, <3>1, <3>2, <3>4
    <3> QED BY <1>6, <1>9, <2>1, <3>1, <3>4, <3>5
  <2>5. CASE cycle.todo = <<"request_selected">>
    <3>1. cycle'.todo = <<>> /\ Head(cycle.todo) = "request_selected"
      BY <1>6, <2>5
    <3>2. cycle.todo # EventsOf(cycle.verdict) /\ cycle'.todo # EventsOf(cycle'.verdict)
      BY <1>6, <2>2, <2>3, <2>5, <3>1
    <3>3. CycleTold = <<a>>
      BY <1>9, <2>2, <3>2 DEF CycleTold
    <3>4. CycleTold' = <<a, "request_selected">>
      BY <1>9, <2>3, <3>1, <3>2 DEF CycleTold
    <3>5. Joins(Opening(CycleTold'), Opening(CycleTold), <<SchedulerEvent(Head(cycle.todo))>>)
          /\ Len(Opening(CycleTold)) \in Nat
      BY <1>2, <1>3, <1>5, <3>1, <3>3, <3>4
    <3> QED BY <1>6, <1>9, <3>1, <3>3, <3>4, <3>5
  <2> QED BY <1>9, <2>4, <2>5
<1> QED BY <1>7, <1>8, <1>9

LEMMA AppendsQuietly ==
  ASSUME Inv, NEW r \in Requests, Quiet(r), CycleAppends
  PROVE  Quiet(r)'
<1> DEFINE ev == cycle.stamped
<1>1. /\ cycle' = [cycle EXCEPT !.todo = Tail(@), !.stamped = NoEvent]
      /\ trace' = [trace EXCEPT ![cycle.of] = Append(@, cycle.stamped)]
      /\ batched' = IF ev.e.type = "request_added_to_batch" THEN batched \cup {cycle.of} ELSE batched
      /\ UNCHANGED <<streams, state, reason, pc, submitted, own, attempts, record, script, disturbed>>
  BY DEF CycleAppends, historyVars
<1>2. cycle \in Cycles /\ trace \in [Requests -> Seq(StampedEvents)]
  BY DEF Inv, TypedPath, TypedTelling
<1>3. /\ cycle'.of = cycle.of /\ cycle'.mine = cycle.mine /\ cycle'.verdict = cycle.verdict
      /\ cycle'.todo = Tail(cycle.todo) /\ cycle'.lost = cycle.lost /\ cycle'.stamped = NoEvent
  BY <1>1, <1>2 DEF Cycles
<1>4. /\ cycle.todo # <<>> /\ cycle.of \in Requests /\ ev # NoEvent
      /\ ev.e = SchedulerEvent(Head(cycle.todo)) /\ ev.at \in Nat /\ ev \in StampedEvents
  BY <1>2 DEF Inv, CycleInv, CycleAppends, Cycles, StampedEvents
<1>5. CASE r \in disturbed
  BY <1>1, <1>5 DEF Quiet
<1>6. CASE cycle.of # r
  <2>1. ~Running(r) /\ ~Running(r)'
    BY <1>3, <1>6 DEF Running
  <2>2. trace'[r] = trace[r] /\ (r \in batched' <=> r \in batched)
    BY <1>1, <1>2, <1>6
  <2> QED BY <1>1, <2>1, <2>2, QuietUnmoved
<1>7. CASE cycle.of = r /\ r \notin disturbed /\ pc[r] = "done"
  BY <1>1, <1>7, QuietAfterTheEnd
<1>8. CASE cycle.of = r /\ r \notin disturbed /\ pc[r] # "done"
  <2>1. cycle # NoCycle
    BY <1>4 DEF NoCycle
  <2>2. Running(r)
    BY <1>8, <2>1 DEF Running
  <2>3. /\ pc[r] = "cycling" /\ QuietRun(r) /\ record[r] = NoRecord /\ cycle.mine
        /\ cycle.verdict \in {"absent", "skipped", "refused", "placed"}
        /\ cycle.todo \in {EventsOf(cycle.verdict), <<>>} \cup
              IF cycle.verdict \in {"refused", "placed"} THEN {<<"request_selected">>} ELSE {}
        /\ ~cycle.lost
        /\ \A i \in 1..Len(trace[r]) : trace[r][i].at <= ev.at
        /\ script[r] \in Seq(Words) /\ Len(script[r]) = 1 /\ Rest(r) = Opening(CycleTold)
        /\ r \notin submitted
        /\ r \in batched <=> CycleTold # <<>> /\ cycle.verdict = "placed"
    BY <1>4, <1>8, <2>2, CycleOf
  <2>4. /\ Joins(Opening(CycleTold'), Opening(CycleTold), <<ev.e>>)
        /\ Len(Opening(CycleTold)) \in Nat /\ CycleTold' # <<>>
        /\ Head(cycle.todo) = "request_added_to_batch" => cycle.verdict = "placed"
        /\ cycle.verdict = "placed" =>
             (Head(cycle.todo) = "request_added_to_batch" \/ CycleTold # <<>>)
        /\ cycle'.todo \in {EventsOf(cycle.verdict), <<>>} \cup
             IF cycle.verdict \in {"refused", "placed"} THEN {<<"request_selected">>} ELSE {}
    BY <1>3, <1>4, <2>3, CycleTellsOn
  <2>5. PICK t : t = trace[r]
    OBVIOUS
  <2>6. PICK u : u = Append(t, ev)
    OBVIOUS
  <2>7. /\ trace'[r] = u /\ Len(t) \in Nat /\ Len(u) = Len(t) + 1 /\ u[Len(t) + 1] = ev
        /\ \A i \in 1..Len(t) : u[i] = t[i]
    <3>1. t \in Seq(StampedEvents)
      BY <1>2, <2>5
    <3>2. trace'[r] = u
      BY <1>1, <1>2, <1>8, <2>5, <2>6
    <3> QED BY <1>4, <2>6, <3>1, <3>2, AppendProperties, LenProperties
  <2>8. InTime(u)
    <3>1. /\ \A i, j \in 1..Len(t) : i <= j => t[i].at <= t[j].at
          /\ \A i \in 1..Len(t) : t[i].at <= ev.at
      BY <2>3, <2>5 DEF QuietRun, InTime
    <3>2. SUFFICES ASSUME NEW i \in 1..Len(u), NEW j \in 1..Len(u), i <= j PROVE u[i].at <= u[j].at
      BY DEF InTime
    <3>3. CASE j \in 1..Len(t)
      <4>1. i \in 1..Len(t)
        BY <2>7, <3>2, <3>3
      <4> QED BY <2>7, <3>1, <3>2, <3>3, <4>1
    <3>4. CASE j \notin 1..Len(t)
      <4>1. j = Len(t) + 1
        BY <2>7, <3>4
      <4>2. CASE i \in 1..Len(t)
        BY <2>7, <3>1, <4>1, <4>2
      <4>3. CASE i \notin 1..Len(t)
        <5>1. i = Len(t) + 1
          BY <2>7, <4>3
        <5>2. ev.at <= ev.at
          BY <1>4
        <5> QED BY <2>7, <4>1, <5>1, <5>2
      <4> QED BY <4>2, <4>3
    <3> QED BY <3>3, <3>4
  <2>9. \E m : Tells(u, script[r], m, Opening(CycleTold'))
    <3>1. PICK m : Tells(t, script[r], m, Opening(CycleTold))
      BY <2>3, <2>5 DEF QuietRun
    <3>2. PICK evs, more, old, s : /\ evs = <<ev.e>> /\ more = Opening(CycleTold')
                                   /\ old = Opening(CycleTold) /\ s = script[r]
      OBVIOUS
    <3>3. Len(evs) = 1 /\ evs[1] = ev.e
      BY <3>2
    <3>4. \A i \in 1..Len(evs) : u[Len(t) + i].e = evs[i]
      BY <2>7, <3>3
    <3>5. Joins(more, old, evs) /\ Len(old) \in Nat
      BY <2>4, <3>2
    <3>6. Len(s) \in Nat /\ Len(evs) \in Nat /\ Tells(t, s, m, old)
      BY <2>3, <3>1, <3>2, <3>3
    <3>7. /\ Len(t) \in Nat /\ Len(u) = Len(t) + Len(evs) /\ \A i \in 1..Len(t) : u[i] = t[i]
      BY <2>7, <3>3
    <3>8. Tells(u, s, m, more)
      BY <3>4, <3>5, <3>6, <3>7, ToldMore
    <3> QED BY <3>2, <3>8
  <2>10. r \in batched' <=> CycleTold' # <<>> /\ cycle'.verdict = "placed"
    <3>1. ev.e.type = Head(cycle.todo)
      BY <1>4 DEF SchedulerEvent, Event
    <3> QED BY <1>1, <1>3, <1>8, <2>3, <2>4, <3>1
  <2>11. Running(r)'
    <3>1. cycle' # NoCycle
      <4>1. NoCycle.mine = FALSE
        BY DEF NoCycle
      <4>2. SUFFICES ASSUME cycle' = NoCycle PROVE FALSE
        OBVIOUS
      <4>3. cycle'.mine = FALSE
        BY <4>1, <4>2
      <4> QED BY <1>3, <2>3, <4>3
    <3> QED BY <1>3, <1>8, <3>1 DEF Running
  <2> QED BY <1>1, <1>3, <1>8, <2>3, <2>4, <2>7, <2>8, <2>9, <2>10, <2>11, CyclingStaysQuiet
<1> QED BY <1>5, <1>6, <1>7, <1>8

\* The word a cycle leaves in the script.
LEMMA WordOfCycle ==
  ASSUME cycle.verdict \in {"absent", "skipped", "refused", "placed"}, cycle.todo = <<>>,
         cycle.lost => cycle.verdict \in {"refused", "placed"},
         NEW w, w = IF cycle.lost THEN <<"lost", cycle.verdict>> ELSE <<cycle.verdict>>
  PROVE  /\ w \in Judgements /\ CycleTold = Judged(w)
         /\ CycleTold # <<>> /\ cycle.verdict = "placed" <=> w \in {<<"placed">>, <<"lost", "placed">>}
<1>1. \A a, b : <<a>> # <<>> /\ <<a, b>> # <<>> /\ Head(<<a, b>>) = a
  OBVIOUS
<1>2. CASE cycle.verdict = "absent"
  <2>1. w = <<"absent">> /\ CycleTold = <<>>
    BY <1>2 DEF CycleTold, EventsOf
  <2> QED BY <1>2, <2>1 DEF Judgements, Judged
<1>3. CASE cycle.verdict = "skipped"
  <2>1. EventsOf(cycle.verdict) = <<"request_skipped">>
    BY <1>3 DEF EventsOf
  <2>2. w = <<"skipped">> /\ CycleTold = <<"request_skipped">>
    BY <1>1, <1>3, <2>1 DEF CycleTold
  <2> QED BY <1>3, <2>2 DEF Judgements, Judged
<1>4. CASE cycle.verdict = "refused"
  <2>1. EventsOf(cycle.verdict) = <<"batch_admission", "request_selected">>
    BY <1>4 DEF EventsOf
  <2>2. /\ cycle.lost => w = <<"lost", "refused">> /\ CycleTold = <<"batch_admission">>
        /\ ~cycle.lost => w = <<"refused">> /\ CycleTold = <<"batch_admission", "request_selected">>
    BY <1>1, <1>4, <2>1 DEF CycleTold
  <2> QED BY <1>4, <2>2 DEF Judgements, Judged
<1>5. CASE cycle.verdict = "placed"
  <2>1. EventsOf(cycle.verdict) = <<"request_added_to_batch", "request_selected">>
    BY <1>5 DEF EventsOf
  <2>2. /\ cycle.lost => w = <<"lost", "placed">> /\ CycleTold = <<"request_added_to_batch">>
        /\ ~cycle.lost => w = <<"placed">> /\ CycleTold = <<"request_added_to_batch", "request_selected">>
    BY <1>1, <1>5, <2>1 DEF CycleTold
  <2> QED BY <1>1, <1>5, <2>2 DEF Judgements, Judged
<1> QED BY <1>2, <1>3, <1>4, <1>5

LEMMA CycleEndsQuietly ==
  ASSUME Inv, Tracked, NEW r \in Requests, Quiet(r), CycleEnds
  PROVE  Quiet(r)'
<1> DEFINE w == IF cycle.lost THEN <<"lost", cycle.verdict>> ELSE <<cycle.verdict>>
           s == script[r]
           u == Append(s, w)
<1>1. /\ cycle' = NoCycle /\ cycle.todo = <<>>
      /\ UNCHANGED <<streams, state, reason, batched, submitted, attempts, trace, record, disturbed>>
  BY DEF CycleEnds, tellVars
<1>2. /\ own \in [Requests -> Verdict] /\ pc \in [Requests -> PathLabels]
  BY DEF Inv, TypedPath
<1>3. ~Running(r)'
  BY <1>1 DEF Running
<1>4. CASE r \in disturbed
  BY <1>1, <1>4 DEF Quiet
<1>5. CASE cycle.of # r
  <2>1. ~Running(r)
    BY <1>5 DEF Running
  <2>2. own'[r] = own[r] /\ pc'[r] = pc[r] /\ script'[r] = script[r]
    BY <1>2, <1>5 DEF CycleEnds, Goto, Noted, Tracked
  <2> QED BY <1>1, <1>3, <2>1, <2>2, QuietUnmoved
<1>6. CASE cycle.of = r /\ r \notin disturbed /\ pc[r] = "done"
  <2>1. ~cycle.mine
    BY <1>6 DEF Inv, CycleInv
  <2>2. pc' = pc /\ script' = script
    BY <2>1 DEF CycleEnds
  <2> QED BY <1>1, <1>6, <2>2, QuietAfterTheEnd
<1>7. CASE cycle.of = r /\ r \notin disturbed /\ pc[r] # "done"
  <2>1. Running(r)
    BY <1>7 DEF Running, CycleEnds
  <2>2. /\ pc[r] = "cycling" /\ QuietRun(r) /\ record[r] = NoRecord /\ cycle.mine
        /\ cycle.verdict \in {"absent", "skipped", "refused", "placed"}
        /\ cycle.lost => cycle.verdict \in {"refused", "placed"}
        /\ s \in Seq(Words) /\ Len(s) = 1 /\ Rest(r) = Opening(CycleTold)
        /\ r \in batched <=> CycleTold # <<>> /\ cycle.verdict = "placed"
        /\ state[r] = "queued" /\ reason[r] = "none" /\ r \notin submitted
        /\ attempts[r] = Hands(s, Len(s))
    BY <1>7, <2>1, CycleOf
  <2>3. /\ own'[r] = (IF cycle.lost THEN "absent" ELSE cycle.verdict)
        /\ pc'[r] = "dispatching" /\ script'[r] = u
    BY <1>2, <1>7, <2>2 DEF CycleEnds, Goto, Noted, Tracked
  <2>4. /\ w \in Judgements /\ CycleTold = Judged(w)
        /\ CycleTold # <<>> /\ cycle.verdict = "placed" <=> w \in {<<"placed">>, <<"lost", "placed">>}
    <3>1. PICK x : x = w
      OBVIOUS
    <3> QED BY <1>1, <2>2, <3>1, WordOfCycle
  <2>5. (IF cycle.lost THEN "absent" ELSE cycle.verdict) =
          CASE w \in {<<"lost", "refused">>, <<"lost", "placed">>, <<"absent">>} -> "absent"
            [] w = <<"skipped">> -> "skipped"
            [] w = <<"refused">> -> "refused"
            [] w = <<"placed">> -> "placed"
    BY <2>2
  <2>6. w # <<"handed">>
    BY <2>4 DEF Judgements
  <2> HIDE DEF w
  <2>7. w \in Words /\ Len(u) = 2 /\ u[2] = w
    BY <2>2, <2>4, SecondNoted DEF Words
  <2>8. WellTold(u)
    BY <2>2, <2>4, <2>7, WellToldOn DEF QuietRun
  <2>9. Hands(u, 2) = Hands(s, 1)
    <3>1. 1 + 1 = 2
      OBVIOUS
    <3>2. Hands(u, Len(s) + 1) = Hands(s, Len(s))
      BY <2>2, <2>6, <2>7, HandsOfLonger
    <3> QED BY <2>2, <3>1, <3>2
  <2>10. \E m : Tells(trace[r], u, m, <<>>)
    <3>1. PICK m : Tells(trace[r], s, m, Rest(r))
      BY <2>2 DEF QuietRun
    <3>2. Heard(u, Len(s) + 1) = Rest(r)
      <4>1. Len(s) + 1 = 2
        BY <2>2
      <4>2. Heard(u, 2) = Opening(Judged(w))
        BY <2>4, <2>7 DEF Heard, Judgements
      <4> QED BY <2>2, <2>4, <4>1, <4>2
    <3>3. Len(Rest(r)) \in Nat
      <4>1. Len(Heard(u, Len(s) + 1)) \in 0..5
        BY HeardCounted
      <4> QED BY <3>2, <4>1
    <3>4. Joins(Rest(r), Heard(u, Len(s) + 1), <<>>) /\ Len(<<>>) \in Nat
      BY <3>2, <3>3, JoinsNothing
    <3>5. PICK rest, t : rest = Rest(r) /\ t = trace[r]
      OBVIOUS
    <3>6. \E n : Tells(t, u, n, <<>>)
      BY <2>2, <2>7, <3>1, <3>3, <3>4, <3>5, StepTold
    <3> QED BY <3>5, <3>6
  <2> HIDE DEF u
  <2>11. Rest(r)' = <<>>
    BY <2>3 DEF Rest
  <2>12. StandsAs(u, "dispatching", Len(u))
    BY <2>4, <2>7 DEF StandsAs, Early, Opens
  <2>13. QuietState(r)'
    <3>1. own'[r] = OwnVerdict(u)
      BY <2>3, <2>5, <2>7 DEF OwnVerdict
    <3> QED BY <1>1, <2>2, <2>3, <3>1 DEF QuietState, Early
  <2>14. QuietEngine(r)'
    <3>1. r \in batched' <=> Dispatchable(u)
      BY <1>1, <2>2, <2>4, <2>7 DEF Dispatchable
    <3> QED BY <1>1, <2>2, <2>3, <2>7, <2>9, <3>1 DEF QuietEngine, Early
  <2>15. QuietCycle(r)'
    BY <1>3, <2>3 DEF QuietCycle
  <2>16. QuietRun(r)'
    BY <1>1, <2>2, <2>3, <2>8, <2>10, <2>11, <2>12, <2>13, <2>14, <2>15 DEF QuietRun
  <2>17. Leads(script'[r]) <=> Leads(script[r])
    BY <2>2, <2>3, <2>7, LeadStays DEF u
  <2> QED BY <1>1, <1>7, <2>2, <2>3, <2>16, <2>17, QuietGoesOn
<1> QED BY <1>4, <1>5, <1>6, <1>7

-----------------------------------------------------------------------------
(***************************************************************************)
(* Steps about another request, and the whole.                             *)
(***************************************************************************)
\* What a step of the event loop about another request leaves alone.
Moves(q) ==
  /\ trace'[q] = trace[q] /\ pc'[q] = pc[q] /\ state'[q] = state[q]
  /\ reason'[q] = reason[q] /\ record'[q] = record[q]

Apart(q) ==
  /\ Moves(q) /\ streams' = streams /\ script'[q] = script[q]
  /\ own'[q] = own[q] /\ attempts'[q] = attempts[q] /\ (q \in disturbed => q \in disturbed')
  /\ (q \in batched' <=> q \in batched) /\ (q \in submitted' <=> q \in submitted)
  /\ cycle' = cycle \/ (~Running(q) /\ ~Running(q)')

LEMMA ApartStaysQuiet ==
  ASSUME NEW q \in Requests, Quiet(q), Apart(q)
  PROVE  Quiet(q)'
BY QuietUnmoved DEF Apart, Moves

LEMMA MovesApart ==
  ASSUME Inv, Tracked, NEW r, NEW q \in Requests, q # r
  PROVE  /\ \A evs : Told(r, evs) => trace'[q] = trace[q]
         /\ \A s, why : Becomes(r, s, why) =>
              state'[q] = state[q] /\ reason'[q] = reason[q]
         /\ \A label : Goto(r, label) => pc'[q] = pc[q]
         /\ \A what : Noted(r, what) => script'[q] = script[q]
         /\ \A evs, s, why : Captured(r, evs, s, why) => record'[q] = record[q]
<1>1. /\ DOMAIN trace = Requests /\ DOMAIN state = Requests /\ DOMAIN pc = Requests
      /\ DOMAIN record = Requests /\ DOMAIN script = Requests /\ DOMAIN reason = Requests
  BY DEF Inv, TypedPath, TypedTelling, Tracked
<1>2. \A evs : Told(r, evs) => trace'[q] = trace[q]
  BY <1>1 DEF Told
<1>3. \A s, why : Becomes(r, s, why) =>
        state'[q] = state[q] /\ reason'[q] = reason[q]
  BY <1>1 DEF Becomes
<1>4. \A label : Goto(r, label) => pc'[q] = pc[q]
  BY <1>1 DEF Goto
<1>5. \A what : Noted(r, what) => script'[q] = script[q]
  BY <1>1 DEF Noted
<1>6. \A evs, s, why : Captured(r, evs, s, why) => record'[q] = record[q]
  BY <1>1 DEF Captured
<1> QED BY <1>2, <1>3, <1>4, <1>5, <1>6

LEMMA EndsMoveApart ==
  ASSUME Inv, Tracked, NEW r, NEW q \in Requests, q # r
  PROVE  /\ \A evs, s, why : Ends(r, evs, s, why) => Moves(q)
         /\ \A evs, s, label : Steps(r, evs, s, label) => Moves(q)
         /\ \A evs, s, why : RefusedAtOnce(r, evs, s, why) => Moves(q)
         /\ \A why : Fails(r, why) => Moves(q)
         /\ StreamFails(r) => Moves(q)
         /\ TransitionRefused(r) => Moves(q)
         /\ \A evs, label, what : DispatchStep(r, evs, label, what) => Moves(q)
<1>1. \A evs, s, why : Ends(r, evs, s, why) => Moves(q)
  BY MovesApart DEF Ends, Moves
<1>2. \A evs, s, label : Steps(r, evs, s, label) => Moves(q)
  BY MovesApart DEF Steps, Moves
<1>3. \A evs, s, why : RefusedAtOnce(r, evs, s, why) => Moves(q)
  BY <1>1, MovesApart DEF RefusedAtOnce, Moves
<1>4. \A why : Fails(r, why) => Moves(q)
  BY <1>1 DEF Fails
<1>5. StreamFails(r) => Moves(q)
  BY <1>1, <1>4 DEF StreamFails
<1>6. TransitionRefused(r) => Moves(q)
  BY <1>5, MovesApart DEF TransitionRefused, Moves, Tracked
<1>7. \A evs, label, what : DispatchStep(r, evs, label, what) => Moves(q)
  BY MovesApart DEF DispatchStep, Moves, Tracked
<1> QED BY <1>1, <1>2, <1>3, <1>4, <1>5, <1>6, <1>7

\* A step of the loop that is noted, or not, and leaves the rest alone.
LEMMA FreeStepsApart ==
  ASSUME Inv, Tracked, NEW r, NEW q \in Requests, q # r, Moves(q), Free,
         script' = script \/ \E what : Noted(r, what)
  PROVE  Apart(q)
<1>1. script'[q] = script[q]
  BY MovesApart DEF Tracked
<1> QED BY <1>1 DEF Apart, Free

LEMMA SubmissionsApart ==
  ASSUME Inv, Tracked, NEW r \in Requests, NEW q \in Requests, q # r,
         \/ Start(r) \/ AdmissionRejects(r) \/ AdmissionRaises(r) \/ QueueFull(r)
         \/ Admitted(r) \/ Enqueued(r) \/ Queued(r) \/ OwnCycle(r) \/ ForeignCycle(r)
  PROVE  Apart(q)
<1>1. ASSUME Start(r) \/ AdmissionRejects(r) \/ AdmissionRaises(r) \/ QueueFull(r) PROVE Apart(q)
  <2>1. Moves(q)
    BY <1>1, EndsMoveApart DEF Start, AdmissionRejects, AdmissionRaises, QueueFull, Continues
  <2>2. Free /\ \E what : Noted(r, what)
    BY <1>1 DEF Start, AdmissionRejects, AdmissionRaises, QueueFull
  <2> QED BY <2>1, <2>2, FreeStepsApart
<1>2. ASSUME Enqueued(r) \/ Queued(r) PROVE Apart(q)
  <2>1. Moves(q)
    BY <1>2, EndsMoveApart DEF Enqueued, Queued, Continues
  <2>2. Free /\ script' = script
    BY <1>2 DEF Enqueued, Queued
  <2> QED BY <2>1, <2>2, FreeStepsApart
<1>3. ASSUME Admitted(r) PROVE Apart(q)
  <2>1. Moves(q)
    BY <1>3, EndsMoveApart DEF Admitted, Continues
  <2>2. UNCHANGED <<streams, batched, submitted, own, attempts, cycle, script, disturbed>>
    BY <1>3 DEF Admitted
  <2> QED BY <2>1, <2>2 DEF Apart, Tracked
<1>4. ASSUME OwnCycle(r) \/ ForeignCycle(r) PROVE Apart(q)
  <2>1. Moves(q)
    <3>1. pc'[q] = pc[q]
      BY <1>4, MovesApart DEF OwnCycle, ForeignCycle, pathVars
    <3>2. UNCHANGED <<trace, state, reason, record>>
      BY <1>4 DEF OwnCycle, ForeignCycle, pathVars, tellVars
    <3> QED BY <3>1, <3>2 DEF Moves, Tracked
  <2>2. UNCHANGED <<streams, batched, submitted, own, attempts, script>>
    BY <1>4 DEF OwnCycle, ForeignCycle, pathVars, historyVars
  <2>3. disturbed \subseteq disturbed'
    BY <1>4 DEF OwnCycle, ForeignCycle, Disturbs, historyVars
  <2>4. cycle = NoCycle /\ cycle'.of = r
    BY <1>4 DEF OwnCycle, ForeignCycle, CycleStarts, NoCycle
  <2>5. ~Running(q) /\ ~Running(q)'
    BY <2>4 DEF Running
  <2> QED BY <2>1, <2>2, <2>3, <2>5 DEF Apart, Tracked
<1> QED BY <1>1, <1>2, <1>3, <1>4

LEMMA DispatchApart ==
  ASSUME Inv, Tracked, NEW r \in Requests, NEW q \in Requests, q # r,
         \/ HandOver(r) \/ RouteFails(r) \/ NothingToDispatch(r)
         \/ AdapterAccepts(r) \/ AdapterRejects(r) \/ AdapterRaises(r)
         \/ ForeignHandOver(r) \/ ForeignAnswer(r) \/ Timeout(r)
  PROVE  Apart(q)
<1>0. DOMAIN attempts = Requests
  BY DEF Inv, TypedPath
<1>1. ASSUME \/ HandOver(r) \/ RouteFails(r) \/ NothingToDispatch(r)
             \/ AdapterAccepts(r) \/ AdapterRejects(r) \/ AdapterRaises(r)
      PROVE  Apart(q)
  <2>1. PICK evs, label, what : DispatchStep(r, evs, label, what)
    <3>1. CASE HandOver(r)
      BY <3>1 DEF HandOver
    <3>2. CASE RouteFails(r)
      BY <3>2 DEF RouteFails
    <3>3. CASE NothingToDispatch(r)
      BY <3>3 DEF NothingToDispatch
    <3>4. CASE AdapterAccepts(r)
      BY <3>4 DEF AdapterAccepts
    <3>5. CASE AdapterRejects(r)
      BY <3>5 DEF AdapterRejects
    <3>6. CASE AdapterRaises(r)
      BY <3>6 DEF AdapterRaises
    <3> QED BY <1>1, <3>1, <3>2, <3>3, <3>4, <3>5, <3>6
  <2>2. attempts'[q] = attempts[q] /\ (q \in submitted' <=> q \in submitted)
    BY <1>0, <1>1 DEF HandOver, RouteFails, NothingToDispatch, AdapterAccepts, AdapterRejects, AdapterRaises
  <2>3. Moves(q) /\ script'[q] = script[q]
    BY <2>1, EndsMoveApart, MovesApart DEF DispatchStep
  <2>4. UNCHANGED <<streams, batched, own, cycle, disturbed>>
    BY <2>1 DEF DispatchStep
  <2> QED BY <2>2, <2>3, <2>4 DEF Apart
<1>2. ASSUME ForeignHandOver(r) \/ ForeignAnswer(r) \/ Timeout(r) PROVE Apart(q)
  <2>1. trace'[q] = trace[q]
    BY <1>2, MovesApart DEF ForeignHandOver, ForeignAnswer, Timeout
  <2>2. state'[q] = state[q] /\ reason'[q] = reason[q]
    BY <1>2, MovesApart DEF ForeignHandOver, ForeignAnswer, Timeout, Tracked
  <2>3. UNCHANGED <<streams, pc, record, script, batched, own, attempts, cycle>>
    BY <1>2 DEF ForeignHandOver, ForeignAnswer, Timeout, historyVars
  <2>4. disturbed \subseteq disturbed' /\ (q \in submitted' <=> q \in submitted)
    BY <1>2 DEF ForeignHandOver, ForeignAnswer, Timeout, Disturbs, historyVars
  <2> QED BY <2>1, <2>2, <2>3, <2>4 DEF Apart, Moves, Tracked
<1> QED BY <1>1, <1>2

LEMMA EndingsApart ==
  ASSUME Inv, Tracked, NEW r \in Requests, NEW q \in Requests, q # r,
         \/ EndsUnplaced(r) \/ EndsPlaced(r) \/ Completes(r) \/ CompletionRefused(r)
         \/ StreamNotQueued(r) \/ StreamError(r) \/ StreamCancel(r) \/ CloseStream(r)
         \/ StreamAbandoned(r)
  PROVE  Apart(q)
<1>1. Free /\ (script' = script \/ \E what : Noted(r, what))
  BY DEF EndsUnplaced, EndsPlaced, Completes, CompletionRefused, StreamNotQueued, StreamError,
         StreamCancel, CloseStream, StreamAbandoned
<1>2. EndsUnplaced(r) => Moves(q)
  BY EndsMoveApart DEF EndsUnplaced
<1>3. EndsPlaced(r) => Moves(q)
  BY EndsMoveApart DEF EndsPlaced, Placed, Continues
<1>4. Completes(r) => Moves(q)
  BY EndsMoveApart DEF Completes
<1>5. CompletionRefused(r) => Moves(q)
  BY EndsMoveApart, MovesApart DEF CompletionRefused, Moves, Tracked
<1>6. StreamNotQueued(r) \/ StreamError(r) \/ StreamCancel(r) \/ CloseStream(r) => Moves(q)
  BY EndsMoveApart DEF StreamNotQueued, StreamError, StreamCancel, CloseStream
<1>7. StreamAbandoned(r) => Moves(q)
  BY MovesApart DEF StreamAbandoned, tellVars, Moves, Tracked
<1>8. Moves(q)
  BY <1>2, <1>3, <1>4, <1>5, <1>6, <1>7
<1> QED BY <1>1, <1>8, FreeStepsApart

LEMMA TrackedStays ==
  ASSUME Tracked, [Next]_vars
  PROVE  Tracked'
<1> DEFINE Reasoned == DOMAIN reason' = Requests
           Scripted == DOMAIN script' = Requests
<1>1. /\ \A r, s, why : Becomes(r, s, why) => Reasoned
      /\ reason' = reason => Reasoned
      /\ \A r, what : Noted(r, what) => Scripted
      /\ script' = script => Scripted
  BY DEF Tracked, Becomes, Noted
<1> HIDE DEF Reasoned, Scripted
<1>2. /\ \A r, evs, s, why : Ends(r, evs, s, why) => Reasoned
      /\ \A r, evs, s, label : Steps(r, evs, s, label) => Reasoned
      /\ \A r, evs, label, what : DispatchStep(r, evs, label, what) => Reasoned /\ Scripted
  BY <1>1 DEF Ends, Steps, DispatchStep
<1>3. /\ \A r, evs, s, why : RefusedAtOnce(r, evs, s, why) => Reasoned
      /\ \A r, why : Fails(r, why) => Reasoned
      /\ \A r : StreamFails(r) => Reasoned
      /\ \A r : TransitionRefused(r) => Reasoned
  <2>1. \A r, evs, s, why : RefusedAtOnce(r, evs, s, why) => Reasoned
    BY <1>1, <1>2 DEF RefusedAtOnce
  <2>2. \A r, why : Fails(r, why) => Reasoned
    BY <1>2 DEF Fails
  <2>3. \A r : StreamFails(r) => Reasoned
    BY <1>2, <2>2 DEF StreamFails
  <2>4. \A r : TransitionRefused(r) => Reasoned
    BY <1>1, <2>3 DEF TransitionRefused
  <2> QED BY <2>1, <2>2, <2>3, <2>4
<1>4. ASSUME NEW r, \/ Start(r) \/ AdmissionRejects(r) \/ AdmissionRaises(r) \/ QueueFull(r)
                    \/ Admitted(r) \/ Enqueued(r) \/ Queued(r) \/ OwnCycle(r) \/ ForeignCycle(r)
      PROVE  Reasoned /\ Scripted
  <2>1. Reasoned
    BY <1>1, <1>2, <1>3, <1>4 DEF Start, AdmissionRejects, AdmissionRaises, QueueFull, Admitted,
       Enqueued, Queued, OwnCycle, ForeignCycle, Continues, pathVars
  <2>2. Scripted
    BY <1>1, <1>4 DEF Start, AdmissionRejects, AdmissionRaises, QueueFull, Admitted,
       Enqueued, Queued, OwnCycle, ForeignCycle, historyVars
  <2> QED BY <2>1, <2>2
<1>5. ASSUME NEW r, \/ HandOver(r) \/ RouteFails(r) \/ NothingToDispatch(r)
                    \/ AdapterAccepts(r) \/ AdapterRejects(r) \/ AdapterRaises(r)
      PROVE  Reasoned /\ Scripted
  BY <1>2, <1>5 DEF HandOver, RouteFails, NothingToDispatch, AdapterAccepts, AdapterRejects, AdapterRaises
<1>6. ASSUME NEW r, ForeignHandOver(r) \/ ForeignAnswer(r) \/ Timeout(r)
      PROVE  Reasoned /\ Scripted
  BY <1>1, <1>6 DEF ForeignHandOver, ForeignAnswer, Timeout, historyVars
<1>7. ASSUME NEW r, \/ EndsUnplaced(r) \/ EndsPlaced(r) \/ Completes(r) \/ CompletionRefused(r)
                    \/ StreamNotQueued(r) \/ StreamError(r) \/ StreamCancel(r) \/ CloseStream(r)
                    \/ StreamAbandoned(r)
      PROVE  Reasoned /\ Scripted
  <2>1. Reasoned
    BY <1>1, <1>2, <1>3, <1>7 DEF EndsUnplaced, EndsPlaced, Completes, CompletionRefused,
       StreamNotQueued, StreamError, StreamCancel, CloseStream, StreamAbandoned, Placed, Continues
  <2>2. Scripted
    BY <1>1, <1>7 DEF EndsUnplaced, EndsPlaced, Completes, CompletionRefused,
       StreamNotQueued, StreamError, StreamCancel, CloseStream, StreamAbandoned
  <2> QED BY <2>1, <2>2
<1>8. ASSUME CycleStamps \/ CycleAppends \/ CycleRaises \/ CycleEnds
      PROVE  Reasoned /\ Scripted
  BY <1>1, <1>8 DEF CycleStamps, CycleAppends, CycleRaises, CycleEnds, pathVars, historyVars
<1>9. ASSUME UNCHANGED vars PROVE Reasoned /\ Scripted
  BY <1>1, <1>9 DEF vars, pathVars, historyVars
<1>10. Reasoned /\ Scripted
  BY <1>4, <1>5, <1>6, <1>7, <1>8, <1>9 DEF Next
<1> QED BY <1>10 DEF Tracked, Reasoned, Scripted

\* Who touches a request has disturbed it, or it has been captured.
LEMMA TouchedStaysQuiet ==
  ASSUME Inv, NEW r \in Requests, Quiet(r),
         ForeignCycle(r) \/ ForeignHandOver(r) \/ ForeignAnswer(r) \/ Timeout(r)
  PROVE  Quiet(r)'
<1>1. UNCHANGED <<streams, pc, record, script>> /\ disturbed \subseteq disturbed'
  BY DEF ForeignCycle, ForeignHandOver, ForeignAnswer, Timeout, Disturbs, pathVars, tellVars, historyVars
<1>2. record[r] # NoRecord \/ r \in disturbed'
  <2>1. CASE ForeignAnswer(r)
    BY <1>1, <2>1 DEF ForeignAnswer, Inv, RequestInv, EndsAreForeign
  <2>2. CASE ForeignCycle(r) \/ ForeignHandOver(r) \/ Timeout(r)
    BY <2>2 DEF ForeignCycle, ForeignHandOver, Timeout, Disturbs
  <2> QED BY <2>1, <2>2
<1>3. CASE r \in disturbed'
  BY <1>3 DEF Quiet
<1>4. CASE record[r] # NoRecord
  <2>1. pc[r] = "done"
    BY <1>4 DEF Inv, RequestInv, EndsAreForeign
  <2> QED BY <1>1, <2>1, QuietAfterTheEnd
<1> QED BY <1>2, <1>3, <1>4

\* What was disturbed stays so.
LEMMA DisturbedForGood ==
  ASSUME [Next]_vars
  PROVE  disturbed \subseteq disturbed'
<1>1. /\ \A r, evs, label, what : DispatchStep(r, evs, label, what) => disturbed' = disturbed
      /\ Free => disturbed' = disturbed
      /\ \A r : Disturbs(r) => disturbed \subseteq disturbed'
  BY DEF DispatchStep, Free, Disturbs
<1>2. ASSUME NEW r, \/ Start(r) \/ AdmissionRejects(r) \/ AdmissionRaises(r) \/ QueueFull(r)
                    \/ Admitted(r) \/ Enqueued(r) \/ Queued(r) \/ OwnCycle(r) \/ ForeignCycle(r)
      PROVE  disturbed \subseteq disturbed'
  BY <1>1, <1>2 DEF Start, AdmissionRejects, AdmissionRaises, QueueFull, Admitted,
     Enqueued, Queued, OwnCycle, ForeignCycle, historyVars
<1>3. ASSUME NEW r, \/ HandOver(r) \/ RouteFails(r) \/ NothingToDispatch(r)
                    \/ AdapterAccepts(r) \/ AdapterRejects(r) \/ AdapterRaises(r)
      PROVE  disturbed \subseteq disturbed'
  BY <1>1, <1>3 DEF HandOver, RouteFails, NothingToDispatch, AdapterAccepts, AdapterRejects, AdapterRaises
<1>4. ASSUME NEW r, ForeignHandOver(r) \/ ForeignAnswer(r) \/ Timeout(r)
      PROVE  disturbed \subseteq disturbed'
  BY <1>1, <1>4 DEF ForeignHandOver, ForeignAnswer, Timeout, historyVars
<1>5. ASSUME NEW r, \/ EndsUnplaced(r) \/ EndsPlaced(r) \/ Completes(r) \/ CompletionRefused(r)
                    \/ StreamNotQueued(r) \/ StreamError(r) \/ StreamCancel(r) \/ CloseStream(r)
                    \/ StreamAbandoned(r)
      PROVE  disturbed \subseteq disturbed'
  BY <1>1, <1>5 DEF EndsUnplaced, EndsPlaced, Completes, CompletionRefused,
     StreamNotQueued, StreamError, StreamCancel, CloseStream, StreamAbandoned
<1>6. ASSUME CycleStamps \/ CycleAppends \/ CycleRaises \/ CycleEnds PROVE disturbed \subseteq disturbed'
  BY <1>6 DEF CycleStamps, CycleAppends, CycleRaises, CycleEnds, historyVars
<1>7. ASSUME UNCHANGED vars PROVE disturbed \subseteq disturbed'
  BY <1>7 DEF vars, historyVars
<1> QED BY <1>2, <1>3, <1>4, <1>5, <1>6, <1>7 DEF Next

LEMMA InitIsQuiet == Init => QuietInv
<1> SUFFICES ASSUME Init PROVE QuietInv
  OBVIOUS
<1>1. Tracked
  BY DEF Init, Tracked
<1>2. ASSUME NEW r \in Requests PROVE Quiet(r)
  <2>1. /\ pc[r] = "new" /\ trace[r] = <<>> /\ script[r] = <<>> /\ reason[r] = "none"
        /\ attempts[r] = 0 /\ batched = {} /\ submitted = {} /\ cycle = NoCycle /\ record[r] = NoRecord
    BY DEF Init
  <2>2. QuietNew(r)
    BY <2>1 DEF QuietNew, Running
  <2> QED BY <2>1, <2>2 DEF Quiet
<1> QED BY <1>1, <1>2 DEF QuietInv

\* A step of one request, for that request and for the others.
LEMMA OwnStepsStayQuiet ==
  ASSUME Inv, Tracked, NEW r \in Requests, Quiet(r), disturbed \subseteq disturbed',
         \/ Start(r) \/ AdmissionRejects(r) \/ AdmissionRaises(r) \/ QueueFull(r)
         \/ Admitted(r) \/ Enqueued(r) \/ Queued(r) \/ OwnCycle(r) \/ ForeignCycle(r)
         \/ HandOver(r) \/ RouteFails(r) \/ NothingToDispatch(r)
         \/ AdapterAccepts(r) \/ AdapterRejects(r) \/ AdapterRaises(r)
         \/ ForeignHandOver(r) \/ ForeignAnswer(r)
         \/ EndsUnplaced(r) \/ EndsPlaced(r) \/ Completes(r) \/ CompletionRefused(r)
         \/ StreamNotQueued(r) \/ StreamError(r) \/ StreamCancel(r) \/ CloseStream(r)
         \/ StreamAbandoned(r) \/ Timeout(r)
  PROVE  Quiet(r)'
<1>1. CASE r \in disturbed
  BY <1>1 DEF Quiet
<1>2. CASE r \notin disturbed
  BY <1>2, StartsQuietly, RefusalsStayQuiet, QueuesQuietly, CyclesQuietly, DispatchesQuietly,
     AnswersQuietly, UnplacedEndsQuietly, PlacedEndsQuietly, CompletesQuietly, StreamsEndQuietly,
     TouchedStaysQuiet
<1> QED BY <1>1, <1>2

LEMMA NextStaysQuiet ==
  ASSUME Inv, QuietInv, [Next]_vars
  PROVE  QuietInv'
<1>1. Tracked /\ \A q \in Requests : Quiet(q)
  BY DEF QuietInv
<1>2. Tracked' /\ disturbed \subseteq disturbed'
  BY <1>1, TrackedStays, DisturbedForGood
<1>3. ASSUME NEW q \in Requests PROVE Quiet(q)'
  <2>1. ASSUME NEW r \in Requests,
               \/ Start(r) \/ AdmissionRejects(r) \/ AdmissionRaises(r) \/ QueueFull(r)
               \/ Admitted(r) \/ Enqueued(r) \/ Queued(r) \/ OwnCycle(r) \/ ForeignCycle(r)
        PROVE  Quiet(q)'
    BY <1>1, <1>2, <2>1, OwnStepsStayQuiet, SubmissionsApart, ApartStaysQuiet
  <2>2. ASSUME NEW r \in Requests,
               \/ HandOver(r) \/ RouteFails(r) \/ NothingToDispatch(r)
               \/ AdapterAccepts(r) \/ AdapterRejects(r) \/ AdapterRaises(r)
               \/ ForeignHandOver(r) \/ ForeignAnswer(r) \/ Timeout(r)
        PROVE  Quiet(q)'
    BY <1>1, <1>2, <2>2, OwnStepsStayQuiet, DispatchApart, ApartStaysQuiet
  <2>3. ASSUME NEW r \in Requests,
               \/ EndsUnplaced(r) \/ EndsPlaced(r) \/ Completes(r) \/ CompletionRefused(r)
               \/ StreamNotQueued(r) \/ StreamError(r) \/ StreamCancel(r) \/ CloseStream(r)
               \/ StreamAbandoned(r)
        PROVE  Quiet(q)'
    BY <1>1, <1>2, <2>3, OwnStepsStayQuiet, EndingsApart, ApartStaysQuiet
  <2>4. ASSUME CycleStamps \/ CycleAppends \/ CycleRaises \/ CycleEnds PROVE Quiet(q)'
    BY <1>1, <2>4, StampsQuietly, AppendsQuietly, RaisesQuietly, CycleEndsQuietly
  <2>5. ASSUME UNCHANGED vars PROVE Quiet(q)'
    <3>1. UNCHANGED <<streams, trace, script, pc, state, reason, own, attempts, record, disturbed,
                      batched, submitted, cycle>>
      BY <2>5 DEF vars, pathVars, tellVars, historyVars
    <3> QED BY <1>1, <3>1, QuietUnmoved
  <2> QED BY <2>1, <2>2, <2>3, <2>4, <2>5 DEF Next
<1> QED BY <1>2, <1>3 DEF QuietInv

\* The run of a request that nobody disturbed is told by its script, in every
\* state: by the event loop and the cycle's thread together.
THEOREM QuietRunsAreTold == Spec => []QuietInv
<1>1. Init => Inv /\ QuietInv
  BY InitEstablishes, InitIsQuiet
<1>2. (Inv /\ QuietInv) /\ [Next]_vars => (Inv /\ QuietInv)'
  BY NextKeeps, NextStaysQuiet
<1>3. Inv /\ QuietInv => QuietInv
  OBVIOUS
<1> QED BY <1>1, <1>2, <1>3, PTL DEF Spec

\* The records of an undisturbed request and of its undisturbed replay.
LEMMA CapturedTwice ==
  ASSUME Inv, QuietInv, NEW p \in Replays, Captures(SourceOf[p], p)
  PROVE  /\ Fits(script[SourceOf[p]], SourceOf[p] \in streams, record[SourceOf[p]])
         /\ Fits(script[p], p \in streams, record[p])
         /\ p \notin streams /\ Leads(script[p])
<1>1. p \in Requests /\ SourceOf[p] \in Requests
  BY RequestsAssumption DEF Requests
<1>2. Quiet(p) /\ Quiet(SourceOf[p]) /\ p \notin disturbed /\ SourceOf[p] \notin disturbed
  BY <1>1 DEF QuietInv, Captures
<1>3. pc[p] # "new"
  BY <1>1 DEF Captures, Inv, RequestInv, EndsAreForeign
<1>4. p \notin streams
  BY RequestsAssumption DEF Inv, TypedPath
<1> QED BY <1>2, <1>3, <1>4 DEF Quiet, Captures

\* compare_executions finds the record that capture_execution_record made of a
\* replay equal to that of its original whenever the same things happened to
\* both, wherever the cycle's thread put its events in the two traces.
THEOREM QuietReplaysMatch == Spec => []QuietReplayMatches
<1>1. Inv /\ QuietInv => QuietReplayMatches
  <2> SUFFICES ASSUME Inv, QuietInv, NEW p \in Replays, Captures(SourceOf[p], p),
                      script[p] = script[SourceOf[p]], Comparable(SourceOf[p])
               PROVE  CompareExecutions(record[SourceOf[p]], record[p]) = {}
    BY DEF QuietReplayMatches
  <2>1. PICK s, a, b, stream, replayed :
          /\ s = script[SourceOf[p]] /\ a = record[SourceOf[p]] /\ b = record[p]
          /\ stream = (SourceOf[p] \in streams) /\ replayed = (p \in streams)
    OBVIOUS
  <2>2. Fits(s, stream, a) /\ Fits(s, replayed, b) /\ ~replayed
    BY <2>1, CapturedTwice
  <2>3. stream => s[2] # <<"skipped">>
    <3>1. s \in Seq(Words) /\ Len(s) \in Nat /\ Len(s) > 1
      BY <2>2, LenProperties DEF Fits, WellTold, Outcome
    <3>2. 2 \in DOMAIN s
      BY <3>1
    <3>3. s[2] \in Range(s)
      BY <3>2 DEF Range
    <3> QED BY <2>1, <3>3 DEF Comparable
  <2>4. a = b
    BY <2>2, <2>3, SameScriptSameRecord
  <2> QED BY <2>1, <2>4 DEF CompareExecutions
<1> QED BY <1>1, TellingInvariant, QuietRunsAreTold, PTL

\* Where compare_executions finds no difference the same things happened: the
\* verdict of the cycle, the backends the batch was offered to and what each
\* answered, and the end, can be read from the captured record.
THEOREM MatchesMeanSameRun == Spec => []MatchMeansSameRun
<1>1. Inv /\ QuietInv => MatchMeansSameRun
  <2> SUFFICES ASSUME Inv, QuietInv, NEW p \in Replays, Captures(SourceOf[p], p),
                      CompareExecutions(record[SourceOf[p]], record[p]) = {}
               PROVE  Tail(script[p]) = Tail(script[SourceOf[p]])
    BY DEF MatchMeansSameRun
  <2>1. PICK s, u, a, b, stream, replayed :
          /\ s = script[SourceOf[p]] /\ u = script[p] /\ a = record[SourceOf[p]] /\ b = record[p]
          /\ stream = (SourceOf[p] \in streams) /\ replayed = (p \in streams)
    OBVIOUS
  <2>2. Fits(s, stream, a) /\ Fits(u, replayed, b) /\ ~replayed /\ Leads(u)
    BY <2>1, CapturedTwice
  <2>3. CompareExecutions(a, b) = {}
    BY <2>1
  <2>4. Tail(s) = Tail(u)
    BY <2>2, <2>3, SameRecordSameScript
  <2> QED BY <2>1, <2>4
<1> QED BY <1>1, TellingInvariant, QuietRunsAreTold, PTL

=============================================================================
