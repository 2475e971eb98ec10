------------------------- MODULE PersistenceProofs -------------------------
(***************************************************************************)
(* Proofs about the durable runtime history, for any requests and replays, *)
(* any number of captures, failing statements and ends of the process: a   *)
(* capture's rows reach the file together, what was stored stays, a        *)
(* reported replay outcome is the one on record, and the store implements  *)
(* the abstract DurableHistory.                                            *)
(***************************************************************************)
EXTENDS Persistence, TLAPS

\* Whether a call is about job at all.
HasJob == pc \in CallLabels \ {"compare_commit"}

\* Two sets of tables say the same about a request.
SameRows(d, e, r) ==
  /\ d.requests[r] = e.requests[r]
  /\ d.lifecycle_transitions[r] = e.lifecycle_transitions[r]
  /\ d.scheduler_decisions[r] = e.scheduler_decisions[r]
  /\ d.batch_decisions[r] = e.batch_decisions[r]
  /\ d.trace_summaries[r] = e.trace_summaries[r]
  /\ d.execution_records[r] = e.execution_records[r]
  /\ \A v \in Version : <<r, v>> \in d.failures <=> <<r, v>> \in e.failures

\* No row is newer than the newest capture.
NotNewer(d) ==
  \A r \in Ids : /\ d.scheduler_decisions[r] <= captured[r]
                 /\ d.batch_decisions[r] <= captured[r]
                 /\ \A v \in Version : <<r, v>> \in d.failures => v <= captured[r]

\* What persist_execution_record has written when it is about to execute pc.
Written ==
  LET id == job.id
      ver == job.rec.ver
  IN  pc \in PersistLabels =>
        /\ pc # "requests" => conn.requests[id] = ver
        /\ pc \notin {"requests", "lifecycle"} => conn.lifecycle_transitions[id] = ver
        /\ pc \in {"batch", "failures", "record", "summary", "commit"} =>
             ("scheduler" \in job.rec.decisions => conn.scheduler_decisions[id] = ver)
        /\ pc \in {"failures", "record", "summary", "commit"} =>
             ("batch" \in job.rec.decisions => conn.batch_decisions[id] = ver)
        /\ pc \in {"record", "summary", "commit"} =>
             (job.rec.failures => <<id, ver>> \in conn.failures)
        /\ pc \in {"summary", "commit"} =>
             conn.execution_records[id] = ExecutionRecordToDict(job.rec)
        /\ pc = "commit" => conn.trace_summaries[id] = ver

\* The pending rows of every request the running call does not write are
\* complete, so that its commit cannot make half a capture durable.
PendingComplete == \A r \in Ids : Persisting(r) \/ SnapshotComplete(conn, r)

\* What was stored is also what the connection sees.
StoredIsPending ==
  \A r \in Ids : Persisting(r) \/ (stored[r] # 0 => conn.execution_records[r].ver = stored[r])

\* A call with an outcome is a replay, and its row has it from SaveReplay on.
ReplayCall ==
  /\ HasJob /\ job.outcome # "none" => job.id \in Replays
  /\ pc \in {"replay_row", "replay_commit"} => job.outcome # "none"
  /\ pc = "replay_commit" => conn.replay_executions[job.id] = job.outcome

\* A reported outcome is in the connection's row until the replay id is used
\* again and its new row awaits the commit.
ToldIsPending ==
  \A r \in Replays :
    \/ pc = "replay_commit" /\ job.id = r
    \/ told[r] \in Outcomes \ {"error"} => conn.replay_executions[r] = told[r]

Inv ==
  /\ TypeOK
  /\ AllOrNothing /\ PendingComplete /\ Written /\ NotNewer(db) /\ NotNewer(conn)
  /\ StoredIsDurable /\ StoredIsPending
  /\ ReplayOutcomeDurable /\ ToldIsPending /\ ReplayCall

-----------------------------------------------------------------------------
(* Facts about the tables. *)

\* The other direction of QueryFailuresByRequest: its rows are pairs with r first.
LEMMA FailureRows ==
  ASSUME NEW d \in Tables, NEW r \in Ids
  PROVE  \A f \in QueryFailuresByRequest(d, r) :
           /\ f = <<r, f[2]>> /\ f[2] \in Version /\ <<r, f[2]>> \in d.failures
  BY DEF QueryFailuresByRequest, Tables

LEMMA SameRowsComplete ==
  ASSUME NEW d \in Tables, NEW e \in Tables, NEW r \in Ids,
         SameRows(d, e, r), SnapshotComplete(d, r)
  PROVE  SnapshotComplete(e, r)
<1>1. \A f \in QueryFailuresByRequest(e, r) : f[2] <= e.execution_records[r].ver
  <2> SUFFICES ASSUME NEW f \in QueryFailuresByRequest(e, r)
               PROVE  f[2] <= e.execution_records[r].ver
    OBVIOUS
  <2>1. f = <<r, f[2]>> /\ f[2] \in Version /\ <<r, f[2]>> \in e.failures
    BY FailureRows
  <2>2. <<r, f[2]>> \in d.failures
    BY <2>1 DEF SameRows
  <2>3. <<r, f[2]>> \in QueryFailuresByRequest(d, r)
    BY <2>2 DEF QueryFailuresByRequest
  <2> QED BY <2>3 DEF SnapshotComplete, SameRows
<1>2. e.execution_records[r].failures => <<r, e.execution_records[r].ver>> \in e.failures
  <2>1. ASSUME e.execution_records[r].failures
        PROVE  <<r, e.execution_records[r].ver>> \in e.failures
    <3>1. <<r, d.execution_records[r].ver>> \in d.failures
      BY <2>1 DEF SnapshotComplete, SameRows
    <3>2. d.execution_records[r].ver \in Version
      BY <3>1 DEF Tables
    <3> QED BY <3>1, <3>2 DEF SameRows
  <2> QED BY <2>1
<1> QED
  BY <1>1, <1>2 DEF SnapshotComplete, SameRows, GetRequest, GetTransitions, GetSummary,
     GetSchedulerDecisions, GetBatchDecisions

\* The tables after the last statement of a capture.
LEMMA WrittenIsComplete ==
  ASSUME TypeOK, Written, NotNewer(conn), pc = "commit"
  PROVE  SnapshotComplete(conn, job.id)
<1> DEFINE id == job.id
           row == conn.execution_records[id]
<1>1. /\ id \in Ids /\ job.rec \in Records /\ job.rec.ver = captured[id] /\ conn \in Tables
  BY DEF TypeOK, CallLabels, PersistLabels
<1>2. row = ExecutionRecordToDict(job.rec)
  BY DEF Written, PersistLabels
<1>3. row.ver = job.rec.ver /\ row.decisions = job.rec.decisions /\ row.failures = job.rec.failures
  BY <1>1, <1>2 DEF ExecutionRecordToDict, Records
<1>4. /\ conn.requests[id] = row.ver /\ conn.lifecycle_transitions[id] = row.ver
      /\ conn.trace_summaries[id] = row.ver
      /\ "scheduler" \in row.decisions => conn.scheduler_decisions[id] = row.ver
      /\ "batch" \in row.decisions => conn.batch_decisions[id] = row.ver
      /\ row.failures => <<id, row.ver>> \in conn.failures
  BY <1>3 DEF Written, PersistLabels
<1>5. conn.scheduler_decisions[id] <= row.ver /\ conn.batch_decisions[id] <= row.ver
  BY <1>1, <1>3 DEF NotNewer
<1>6. \A f \in QueryFailuresByRequest(conn, id) : f[2] <= row.ver
  BY <1>1, <1>3, FailureRows DEF NotNewer
<1> QED
  BY <1>4, <1>5, <1>6 DEF SnapshotComplete, GetRequest, GetTransitions, GetSummary,
     GetSchedulerDecisions, GetBatchDecisions

LEMMA EmptyIsTables == EmptyTables \in Tables
  BY BoundsAssumption DEF EmptyTables, Tables, Rows, NoRows, SCHEMA_VERSION

LEMMA InitInv == Init => Inv
<1> SUFFICES ASSUME Init PROVE Inv
  OBVIOUS
<1> USE BoundsAssumption
<1>1. TypeOK
  BY EmptyIsTables DEF Init, TypeOK, Rows, NoRows, CallLabels, PersistLabels, Traces, NoTrace,
     DecisionKinds
<1>2. \A r \in Ids : SnapshotComplete(EmptyTables, r)
  BY DEF SnapshotComplete, GetRequest, GetTransitions, GetSummary, GetSchedulerDecisions,
     GetBatchDecisions, QueryFailuresByRequest, EmptyTables, NoRows, NoRecord
<1>3. AllOrNothing /\ PendingComplete /\ Written
  BY <1>2 DEF Init, AllOrNothing, PendingComplete, Written, PersistLabels
<1>4. NotNewer(db) /\ NotNewer(conn)
  BY DEF Init, NotNewer, EmptyTables, NoRows
<1>5. StoredIsDurable /\ StoredIsPending
  BY DEF Init, StoredIsDurable, StoredIsPending, NoRows
<1>6. ReplayOutcomeDurable /\ ToldIsPending /\ ReplayCall
  BY DEF Init, ReplayOutcomeDurable, ToldIsPending, ReplayCall, HasJob, Outcomes, CallLabels, PersistLabels
<1> QED BY <1>1, <1>3, <1>4, <1>5, <1>6 DEF Inv

-----------------------------------------------------------------------------
(* One statement of persist_execution_record. *)

\* A statement that writes rows of the captured request only, and leaves the
\* tables as Written says, keeps the invariant.
LEMMA StatementKeepsInv ==
  ASSUME Inv, pc \in PersistLabels, pc' \in PersistLabels, conn' \in Tables,
         \A r \in Ids : r # job.id => SameRows(conn, conn', r),
         conn'.replay_executions = conn.replay_executions,
         NotNewer(conn)', Written',
         UNCHANGED <<db, cache, job, captured, traced, boundVars, historyVars>>
  PROVE  Inv'
<1>1. TypeOK'
  BY DEF Inv, TypeOK, CallLabels, PersistLabels, boundVars, historyVars
<1>2. AllOrNothing' /\ NotNewer(db)' /\ StoredIsDurable' /\ ReplayOutcomeDurable'
  BY DEF Inv, AllOrNothing, NotNewer, StoredIsDurable, ReplayOutcomeDurable, historyVars
<1>3. PendingComplete'
  <2> SUFFICES ASSUME NEW r \in Ids, r # job.id
               PROVE  SnapshotComplete(conn', r)
    BY DEF PendingComplete, Persisting
  <2>1. SnapshotComplete(conn, r)
    BY DEF Inv, PendingComplete, Persisting
  <2> QED BY <2>1, SameRowsComplete DEF Inv, TypeOK
<1>4. StoredIsPending'
  <2> SUFFICES ASSUME NEW r \in Ids, r # job.id, stored[r] # 0
               PROVE  conn'.execution_records[r].ver = stored[r]
    BY DEF StoredIsPending, Persisting, historyVars
  <2> QED BY DEF Inv, StoredIsPending, Persisting, SameRows
<1>5. ToldIsPending' /\ ReplayCall'
  BY DEF Inv, ToldIsPending, ReplayCall, HasJob, CallLabels, PersistLabels, historyVars
<1> QED BY <1>1, <1>2, <1>3, <1>4, <1>5 DEF Inv

\* What every statement of a capture starts from.
LEMMA JobFacts ==
  ASSUME Inv, pc \in PersistLabels
  PROVE  /\ job.id \in Ids /\ job.rec \in Records /\ job.rec.ver \in Version
         /\ job.rec.ver = captured[job.id] /\ conn \in Tables
         /\ job.outcome \in Outcomes \cup {"none"}
         /\ Version \subseteq 0..MaxVersions
  BY BoundsAssumption DEF Inv, TypeOK, CallLabels, PersistLabels, Records, Version

LEMMA SaveRequestKeepsInv == Inv /\ SaveRequest => Inv'
<1> SUFFICES ASSUME Inv, SaveRequest PROVE Inv'
  OBVIOUS
<1>1. /\ pc = "requests" /\ pc' = "lifecycle"
      /\ conn' = [conn EXCEPT !.requests[job.id] = job.rec.ver]
      /\ UNCHANGED <<db, cache, job, captured, traced, boundVars, historyVars>>
  BY DEF SaveRequest, Executed, Goto
<1>2. pc \in PersistLabels /\ pc' \in PersistLabels
  BY <1>1 DEF PersistLabels
<1>3. /\ conn' \in Tables
      /\ conn'.requests[job.id] = job.rec.ver
      /\ conn'.replay_executions = conn.replay_executions
      /\ \A r \in Ids : r # job.id => SameRows(conn, conn', r)
  BY <1>1, <1>2, JobFacts DEF Tables, Rows, SameRows
<1>4. NotNewer(conn)'
  BY <1>1, <1>2, JobFacts DEF Inv, NotNewer, Tables
<1>5. Written'
  BY <1>1, <1>3 DEF Written
<1> QED BY <1>1, <1>2, <1>3, <1>4, <1>5, StatementKeepsInv

LEMMA SaveTransitionsKeepsInv == Inv /\ SaveTransitions => Inv'
<1> SUFFICES ASSUME Inv, SaveTransitions PROVE Inv'
  OBVIOUS
<1>1. /\ pc = "lifecycle" /\ pc' = "scheduler"
      /\ conn' = [conn EXCEPT !.lifecycle_transitions[job.id] = job.rec.ver]
      /\ UNCHANGED <<db, cache, job, captured, traced, boundVars, historyVars>>
  BY DEF SaveTransitions, Executed, Goto
<1>2. pc \in PersistLabels /\ pc' \in PersistLabels
  BY <1>1 DEF PersistLabels
<1>3. /\ conn' \in Tables
      /\ conn'.lifecycle_transitions[job.id] = job.rec.ver
      /\ conn'.requests = conn.requests
      /\ conn'.replay_executions = conn.replay_executions
      /\ \A r \in Ids : r # job.id => SameRows(conn, conn', r)
  BY <1>1, <1>2, JobFacts DEF Tables, Rows, SameRows
<1>4. NotNewer(conn)'
  BY <1>1, <1>2, JobFacts DEF Inv, NotNewer, Tables
<1>5. Written'
  BY <1>1, <1>2, <1>3 DEF Inv, Written
<1> QED BY <1>1, <1>2, <1>3, <1>4, <1>5, StatementKeepsInv

LEMMA SaveSchedulerDecisionsKeepsInv == Inv /\ SaveSchedulerDecisions => Inv'
<1> SUFFICES ASSUME Inv, SaveSchedulerDecisions PROVE Inv'
  OBVIOUS
<1>1. /\ pc = "scheduler" /\ pc' = "batch"
      /\ conn' = IF "scheduler" \in job.rec.decisions
                 THEN [conn EXCEPT !.scheduler_decisions[job.id] = job.rec.ver] ELSE conn
      /\ UNCHANGED <<db, cache, job, captured, traced, boundVars, historyVars>>
  BY DEF SaveSchedulerDecisions, Executed, Goto
<1>2. pc \in PersistLabels /\ pc' \in PersistLabels
  BY <1>1 DEF PersistLabels
<1>3. /\ conn' \in Tables
      /\ "scheduler" \in job.rec.decisions => conn'.scheduler_decisions[job.id] = job.rec.ver
      /\ \A r \in Ids : conn'.scheduler_decisions[r] \in {conn.scheduler_decisions[r], captured[r]}
      /\ conn'.batch_decisions = conn.batch_decisions /\ conn'.failures = conn.failures
      /\ conn'.requests = conn.requests
      /\ conn'.lifecycle_transitions = conn.lifecycle_transitions
      /\ conn'.replay_executions = conn.replay_executions
      /\ \A r \in Ids : r # job.id => SameRows(conn, conn', r)
  BY <1>1, <1>2, JobFacts DEF Tables, Rows, SameRows
<1>4. NotNewer(conn)'
  BY <1>1, <1>3, BoundsAssumption DEF Inv, TypeOK, Rows, NotNewer
<1>5. Written'
  BY <1>1, <1>2, <1>3 DEF Inv, Written
<1> QED BY <1>1, <1>2, <1>3, <1>4, <1>5, StatementKeepsInv

LEMMA SaveBatchDecisionsKeepsInv == Inv /\ SaveBatchDecisions => Inv'
<1> SUFFICES ASSUME Inv, SaveBatchDecisions PROVE Inv'
  OBVIOUS
<1>1. /\ pc = "batch" /\ pc' = "failures"
      /\ conn' = IF "batch" \in job.rec.decisions
                 THEN [conn EXCEPT !.batch_decisions[job.id] = job.rec.ver] ELSE conn
      /\ UNCHANGED <<db, cache, job, captured, traced, boundVars, historyVars>>
  BY DEF SaveBatchDecisions, Executed, Goto
<1>2. pc \in PersistLabels /\ pc' \in PersistLabels
  BY <1>1 DEF PersistLabels
<1>3. /\ conn' \in Tables
      /\ "batch" \in job.rec.decisions => conn'.batch_decisions[job.id] = job.rec.ver
      /\ \A r \in Ids : conn'.batch_decisions[r] \in {conn.batch_decisions[r], captured[r]}
      /\ conn'.scheduler_decisions = conn.scheduler_decisions /\ conn'.failures = conn.failures
      /\ conn'.requests = conn.requests
      /\ conn'.lifecycle_transitions = conn.lifecycle_transitions
      /\ conn'.replay_executions = conn.replay_executions
      /\ \A r \in Ids : r # job.id => SameRows(conn, conn', r)
  BY <1>1, <1>2, JobFacts DEF Tables, Rows, SameRows
<1>4. NotNewer(conn)'
  BY <1>1, <1>3, BoundsAssumption DEF Inv, TypeOK, Rows, NotNewer
<1>5. Written'
  BY <1>1, <1>2, <1>3 DEF Inv, Written
<1> QED BY <1>1, <1>2, <1>3, <1>4, <1>5, StatementKeepsInv

LEMMA SaveFailuresKeepsInv == Inv /\ SaveFailures => Inv'
<1> SUFFICES ASSUME Inv, SaveFailures PROVE Inv'
  OBVIOUS
<1>1. /\ pc = "failures" /\ pc' = "record"
      /\ conn' = IF job.rec.failures
                 THEN [conn EXCEPT !.failures = @ \cup {<<job.id, job.rec.ver>>}] ELSE conn
      /\ UNCHANGED <<db, cache, job, captured, traced, boundVars, historyVars>>
  BY DEF SaveFailures, Executed, Goto
<1>2. pc \in PersistLabels /\ pc' \in PersistLabels
  BY <1>1 DEF PersistLabels
<1>3. /\ conn' \in Tables
      /\ job.rec.failures => <<job.id, job.rec.ver>> \in conn'.failures
      /\ conn'.failures \subseteq conn.failures \cup {<<job.id, job.rec.ver>>}
      /\ conn.failures \subseteq conn'.failures
      /\ conn'.requests = conn.requests
      /\ conn'.lifecycle_transitions = conn.lifecycle_transitions
      /\ conn'.scheduler_decisions = conn.scheduler_decisions
      /\ conn'.batch_decisions = conn.batch_decisions
      /\ conn'.trace_summaries = conn.trace_summaries
      /\ conn'.execution_records = conn.execution_records
      /\ conn'.replay_executions = conn.replay_executions
  BY <1>1, <1>2, JobFacts DEF Tables
<1>4. \A r \in Ids : r # job.id => SameRows(conn, conn', r)
  BY <1>3 DEF SameRows
<1>5. NotNewer(conn)'
  <2> SUFFICES ASSUME NEW r \in Ids, NEW v \in Version, <<r, v>> \in conn'.failures
               PROVE  v <= captured[r]
    BY <1>1, <1>3 DEF Inv, NotNewer
  <2>1. CASE <<r, v>> \in conn.failures
    BY <2>1 DEF Inv, NotNewer
  <2>2. CASE <<r, v>> = <<job.id, job.rec.ver>>
    BY <2>2, <1>2, JobFacts, BoundsAssumption DEF Version
  <2> QED BY <1>3, <2>1, <2>2
<1>6. Written'
  BY <1>1, <1>2, <1>3 DEF Inv, Written
<1> QED BY <1>1, <1>2, <1>3, <1>4, <1>5, <1>6, StatementKeepsInv

LEMMA SaveRecordKeepsInv == Inv /\ SaveRecord => Inv'
<1> SUFFICES ASSUME Inv, SaveRecord PROVE Inv'
  OBVIOUS
<1>1. /\ pc = "record" /\ pc' = "summary"
      /\ conn' = [conn EXCEPT !.execution_records[job.id] = ExecutionRecordToDict(job.rec)]
      /\ UNCHANGED <<db, cache, job, captured, traced, boundVars, historyVars>>
  BY DEF SaveRecord, Executed, Goto
<1>2. pc \in PersistLabels /\ pc' \in PersistLabels
  BY <1>1 DEF PersistLabels
<1>3. ExecutionRecordToDict(job.rec) \in Records
  BY <1>2, JobFacts DEF ExecutionRecordToDict, Records
<1>4. /\ conn' \in Tables
      /\ conn'.execution_records[job.id] = ExecutionRecordToDict(job.rec)
      /\ conn'.requests = conn.requests
      /\ conn'.lifecycle_transitions = conn.lifecycle_transitions
      /\ conn'.scheduler_decisions = conn.scheduler_decisions
      /\ conn'.batch_decisions = conn.batch_decisions
      /\ conn'.failures = conn.failures
      /\ conn'.replay_executions = conn.replay_executions
      /\ \A r \in Ids : r # job.id => SameRows(conn, conn', r)
  BY <1>1, <1>2, <1>3, JobFacts DEF Tables, SameRows
<1>5. NotNewer(conn)'
  BY <1>1, <1>4 DEF Inv, NotNewer
<1>6. Written'
  BY <1>1, <1>2, <1>4 DEF Inv, Written
<1> QED BY <1>1, <1>2, <1>4, <1>5, <1>6, StatementKeepsInv

LEMMA SaveSummaryKeepsInv == Inv /\ SaveSummary => Inv'
<1> SUFFICES ASSUME Inv, SaveSummary PROVE Inv'
  OBVIOUS
<1>1. /\ pc = "summary" /\ pc' = "commit"
      /\ conn' = [conn EXCEPT !.trace_summaries[job.id] = job.rec.ver]
      /\ UNCHANGED <<db, cache, job, captured, traced, boundVars, historyVars>>
  BY DEF SaveSummary, Executed, Goto
<1>2. pc \in PersistLabels /\ pc' \in PersistLabels
  BY <1>1 DEF PersistLabels
<1>3. /\ conn' \in Tables
      /\ conn'.trace_summaries[job.id] = job.rec.ver
      /\ conn'.requests = conn.requests
      /\ conn'.lifecycle_transitions = conn.lifecycle_transitions
      /\ conn'.scheduler_decisions = conn.scheduler_decisions
      /\ conn'.batch_decisions = conn.batch_decisions
      /\ conn'.failures = conn.failures
      /\ conn'.execution_records = conn.execution_records
      /\ conn'.replay_executions = conn.replay_executions
      /\ \A r \in Ids : r # job.id => SameRows(conn, conn', r)
  BY <1>1, <1>2, JobFacts DEF Tables, Rows, SameRows
<1>4. NotNewer(conn)'
  BY <1>1, <1>3 DEF Inv, NotNewer
<1>5. Written'
  BY <1>1, <1>2, <1>3 DEF Inv, Written
<1> QED BY <1>1, <1>2, <1>3, <1>4, <1>5, StatementKeepsInv

-----------------------------------------------------------------------------
(* Captures begin. *)

LEMMA CaptureKeepsInv ==
  ASSUME NEW r \in Ids, NEW what \in Traces, NEW typed \in BOOLEAN,
         NEW payload \in {"native", "json"}, NEW outcome \in Outcomes \cup {"none"},
         outcome # "none" => r \in Replays,
         Inv, Idle, CaptureExecution(r, what, typed, payload, outcome)
  PROVE  Inv'
<1> DEFINE seen == [decisions |-> traced[r].decisions \cup what.decisions,
                    failures |-> traced[r].failures \/ what.failures]
           rec == [ver |-> captured[r] + 1, decisions |-> seen.decisions,
                   failures |-> seen.failures, typed |-> typed, payload |-> payload]
<1>1. /\ captured[r] < MaxVersions
      /\ traced' = [traced EXCEPT ![r] = seen]
      /\ cache' = [cache EXCEPT ![r] = rec]
      /\ pc = "idle" /\ pc' = "requests"
      /\ job' = [id |-> r, rec |-> rec, outcome |-> outcome]
      /\ captured' = [captured EXCEPT ![r] = rec.ver]
      /\ UNCHANGED <<db, conn, boundVars, historyVars>>
  BY DEF CaptureExecution, Put, CachePut, Goto, Idle
<1>2. seen \in Traces
  <2>1. traced[r] \in Traces
    BY DEF Inv, TypeOK
  <2> QED BY <2>1 DEF Traces, DecisionKinds
<1>3. rec \in Records /\ rec.ver = captured[r] + 1 /\ captured[r] \in Nat
  BY <1>1, <1>2, BoundsAssumption DEF Inv, TypeOK, Rows, Records, Version, Traces, DecisionKinds
<1> HIDE DEF seen, rec
<1>4. /\ \A u \in Ids : captured'[u] = IF u = r THEN captured[u] + 1 ELSE captured[u]
      /\ captured' \in Rows
  BY <1>1, <1>3, BoundsAssumption DEF Inv, TypeOK, Rows
<1>5. TypeOK'
  <2>1. /\ job'.id = r /\ job'.rec = rec /\ job'.outcome = outcome
        /\ job' \in [id : Ids, rec : Records, outcome : Outcomes \cup {"none"}]
    BY <1>1, <1>3
  <2>2. cache' \in [Ids -> Records \cup {NoRecord}] /\ cache'[r] = rec
    BY <1>1, <1>3 DEF Inv, TypeOK
  <2>3. traced' \in [Ids -> Traces]
    BY <1>1, <1>2 DEF Inv, TypeOK
  <2>4. rec.ver = captured'[r]
    BY <1>3, <1>4
  <2> QED BY <1>1, <1>4, <2>1, <2>2, <2>3, <2>4
          DEF Inv, TypeOK, CallLabels, PersistLabels, boundVars, historyVars
<1>6. AllOrNothing' /\ StoredIsDurable' /\ ReplayOutcomeDurable'
  BY <1>1 DEF Inv, AllOrNothing, StoredIsDurable, ReplayOutcomeDurable, historyVars
<1>7. PendingComplete' /\ StoredIsPending'
  BY <1>1 DEF Inv, PendingComplete, StoredIsPending, Persisting, PersistLabels, historyVars
<1>8. Written'
  BY <1>1 DEF Written
<1>9. NotNewer(db)' /\ NotNewer(conn)'
  <2>1. ASSUME NEW d \in Tables, NotNewer(d)
        PROVE  \A u \in Ids : /\ d.scheduler_decisions[u] <= captured'[u]
                               /\ d.batch_decisions[u] <= captured'[u]
                               /\ \A v \in Version : <<u, v>> \in d.failures => v <= captured'[u]
    <3> SUFFICES ASSUME NEW u \in Ids
                 PROVE /\ d.scheduler_decisions[u] <= captured'[u]
                       /\ d.batch_decisions[u] <= captured'[u]
                       /\ \A v \in Version : <<u, v>> \in d.failures => v <= captured'[u]
      OBVIOUS
    <3>1. /\ captured[u] \in Nat /\ captured'[u] \in Nat /\ captured[u] <= captured'[u]
          /\ d.scheduler_decisions[u] \in Nat /\ d.batch_decisions[u] \in Nat
          /\ Version \subseteq Nat
      BY <1>4, BoundsAssumption DEF Inv, TypeOK, Rows, Tables, Version
    <3>2. \A x, a, b \in Nat : x <= a /\ a <= b => x <= b
      OBVIOUS
    <3> HIDE <1>4
    <3> QED BY <2>1, <3>1, <3>2 DEF NotNewer
  <2> QED BY <1>1, <2>1 DEF Inv, TypeOK, NotNewer
<1>10. ToldIsPending' /\ ReplayCall'
  <2>1. ReplayCall'
    BY <1>1 DEF ReplayCall, HasJob
  <2>2. ToldIsPending'
    BY <1>1 DEF Inv, ToldIsPending, historyVars
  <2> QED BY <2>1, <2>2
<1> QED BY <1>5, <1>6, <1>7, <1>8, <1>9, <1>10 DEF Inv

LEMMA CapturesKeepInv ==
  Inv /\ (\/ \E r \in Originals : Capture(r)
          \/ \E r \in Replays, s \in Ids : CaptureReplay(r, s)) => Inv'
<1>1. ASSUME NEW r \in Originals, Inv, Capture(r) PROVE Inv'
  <2>1. r \in Ids /\ Idle
    BY <1>1 DEF Ids, Capture
  <2>2. CASE \E what \in Traces, t \in BOOLEAN : CaptureExecution(r, what, t, "native", "none")
    BY <1>1, <2>1, <2>2, CaptureKeepsInv
  <2>3. CASE CaptureExecution(r, [decisions |-> {}, failures |-> TRUE], TRUE, "native", "none")
    <3>1. [decisions |-> {}, failures |-> TRUE] \in Traces
      BY DEF Traces
    <3> QED BY <1>1, <2>1, <2>3, <3>1, CaptureKeepsInv
  <2> QED BY <1>1, <2>2, <2>3 DEF Capture
<1>2. ASSUME NEW r \in Replays, NEW s \in Ids, Inv, CaptureReplay(r, s) PROVE Inv'
  <2>1. PICK what \in Traces, state \in ReplayStates :
          CaptureExecution(r, what, FALSE, NormalizePayload(StoreGet(s)).payload,
                           ReplayOutcome(state))
    BY <1>2 DEF CaptureReplay
  <2>2. NormalizePayload(StoreGet(s)).payload \in {"native", "json"}
    <3>1. StoreGet(s) \in Records \cup {NoRecord}
      BY <1>2 DEF Inv, TypeOK, StoreGet, Tables
    <3>2. StoreGet(s) \in Records
      BY <1>2, <3>1 DEF CaptureReplay
    <3> QED BY <3>2 DEF NormalizePayload, Records
  <2>3. ReplayOutcome(state) \in Outcomes
    BY DEF ReplayOutcome, Outcomes
  <2> QED BY <1>2, <2>1, <2>2, <2>3, CaptureKeepsInv DEF Ids, CaptureReplay
<1> QED BY <1>1, <1>2

-----------------------------------------------------------------------------
(* Calls end. *)

\* Anything that ends a call with the connection back at the file: a rollback,
\* the end of the process.
LEMMA RollbackKeepsInv ==
  ASSUME Inv, TypeOK', conn' = db, db' = db, captured' = captured, stored' = stored,
         pc' \in {"idle", "down"},
         \A r \in Replays : told'[r] \in Outcomes \ {"error"} => told'[r] = told[r]
  PROVE  Inv'
<1>1. AllOrNothing' /\ PendingComplete'
  BY DEF Inv, AllOrNothing, PendingComplete
<1>2. NotNewer(db)' /\ NotNewer(conn)'
  BY DEF Inv, NotNewer
<1>3. StoredIsDurable' /\ StoredIsPending'
  BY DEF Inv, StoredIsDurable, StoredIsPending
<1>4. ReplayOutcomeDurable' /\ ToldIsPending'
  BY DEF Inv, ReplayOutcomeDurable, ToldIsPending
<1>5. Written' /\ ReplayCall'
  BY DEF Written, ReplayCall, HasJob, CallLabels, PersistLabels
<1> QED BY <1>1, <1>2, <1>3, <1>4, <1>5 DEF Inv

LEMMA PersistFailsKeepsInv == Inv /\ PersistFails => Inv'
<1> SUFFICES ASSUME Inv, PersistFails PROVE Inv'
  OBVIOUS
<1>1. \A r \in Replays : told'[r] \in {told[r], "error"}
  BY DEF PersistFails, ToldError
<1>2. told' \in [Replays -> Outcomes \cup {"none"}]
  BY <1>1 DEF Inv, TypeOK, Outcomes, PersistFails, ToldError
<1>3. job.id \in Ids
  BY JobFacts DEF PersistFails
<1>4. TypeOK'
  BY <1>2, <1>3, BoundsAssumption DEF Inv, TypeOK, PersistFails, Return, Goto, CallLabels, PersistLabels
<1> QED BY <1>1, <1>4, RollbackKeepsInv DEF PersistFails, Return, Goto

LEMMA StopKeepsInv == Inv /\ Stop => Inv'
<1> SUFFICES ASSUME Inv, Stop PROVE Inv'
  OBVIOUS
<1>1. TypeOK'
  <2>1. NoTrace \in Traces
    BY DEF NoTrace, Traces, DecisionKinds
  <2> QED BY <2>1, BoundsAssumption DEF Inv, TypeOK, Stop, Goto, CallLabels, PersistLabels
<1> QED BY <1>1, RollbackKeepsInv DEF Stop, Goto

\* Anything that ends a call and leaves file and connection as they are.
LEMMA QuietReturnKeepsInv ==
  ASSUME Inv, TypeOK', pc \notin PersistLabels, pc' = "idle",
         UNCHANGED <<db, conn, captured, stored>>,
         \A r \in Replays : told'[r] \in Outcomes \ {"error"} =>
            told'[r] = told[r] /\ ~(pc = "replay_commit" /\ job.id = r)
  PROVE  Inv'
<1>1. AllOrNothing' /\ PendingComplete'
  BY DEF Inv, AllOrNothing, PendingComplete, Persisting
<1>2. NotNewer(db)' /\ NotNewer(conn)'
  BY DEF Inv, NotNewer
<1>3. StoredIsDurable' /\ StoredIsPending'
  BY DEF Inv, StoredIsDurable, StoredIsPending, Persisting
<1>4. ReplayOutcomeDurable' /\ ToldIsPending'
  BY DEF Inv, ReplayOutcomeDurable, ToldIsPending
<1>5. Written' /\ ReplayCall'
  BY DEF Written, ReplayCall, HasJob, CallLabels, PersistLabels
<1> QED BY <1>1, <1>2, <1>3, <1>4, <1>5 DEF Inv

LEMMA FailuresReturnQuietly ==
  Inv /\ (\/ \E r \in Replays, s \in Ids : ReplayRaises(r, s)
          \/ PersistReplayFails \/ CompareFails) => Inv'
<1>1. ASSUME NEW r \in Replays, NEW s \in Ids, Inv, ReplayRaises(r, s) PROVE Inv'
  <2>1. /\ pc = "idle" /\ pc' = "idle" /\ UNCHANGED <<db, conn, captured, stored>>
        /\ \A t \in Replays : told'[t] \in {told[t], "error"}
    BY <1>1 DEF ReplayRaises, ToldError, Idle, callVars
  <2>2. told' \in [Replays -> Outcomes \cup {"none"}]
    BY <1>1 DEF ReplayRaises, ToldError, Inv, TypeOK, Outcomes
  <2>3. TypeOK'
    BY <1>1, <2>1, <2>2
       DEF ReplayRaises, Inv, TypeOK, CallLabels, PersistLabels, callVars, boundVars
  <2> QED BY <1>1, <2>1, <2>3, QuietReturnKeepsInv DEF PersistLabels
<1>2. ASSUME Inv, PersistReplayFails PROVE Inv'
  <2>1. /\ pc \in {"replay_row", "replay_commit"} /\ pc' = "idle"
        /\ UNCHANGED <<db, conn, captured, stored>>
        /\ \A t \in Replays : told'[t] = IF t = job.id THEN "error" ELSE told[t]
    BY <1>2 DEF PersistReplayFails, ToldError, Return, Goto
  <2>2. told' \in [Replays -> Outcomes \cup {"none"}]
    BY <1>2 DEF PersistReplayFails, ToldError, Inv, TypeOK, Outcomes
  <2>3. TypeOK'
    BY <1>2, <2>1, <2>2, BoundsAssumption
       DEF PersistReplayFails, Inv, TypeOK, CallLabels, PersistLabels, Return
  <2> QED BY <1>2, <2>1, <2>3, QuietReturnKeepsInv DEF PersistLabels
<1>3. ASSUME Inv, CompareFails PROVE Inv'
  <2>1. /\ pc = "compare_commit" /\ pc' = "idle"
        /\ UNCHANGED <<db, conn, captured, stored, told>>
    BY <1>3 DEF CompareFails, Return, Goto, historyVars
  <2>2. TypeOK'
    BY <1>3, <2>1, BoundsAssumption
       DEF CompareFails, Inv, TypeOK, CallLabels, PersistLabels, historyVars
  <2> QED BY <1>3, <2>1, <2>2, QuietReturnKeepsInv DEF PersistLabels
<1> QED BY <1>1, <1>2, <1>3

-----------------------------------------------------------------------------
(* Commits. *)

LEMMA CommitRecordKeepsInv == Inv /\ CommitRecord => Inv'
<1> SUFFICES ASSUME Inv, CommitRecord PROVE Inv'
  OBVIOUS
<1>1. /\ pc = "commit" /\ db' = conn /\ conn' = conn
      /\ stored' = [stored EXCEPT ![job.id] = job.rec.ver]
      /\ \/ job.outcome = "none" /\ pc' = "idle" /\ job' = NoJob
         \/ job.outcome # "none" /\ pc' = "replay_row" /\ job' = job
      /\ UNCHANGED <<cache, captured, traced, boundVars, told>>
  BY DEF CommitRecord, Return, Goto
<1>2. /\ job.id \in Ids /\ job.rec \in Records /\ job.rec.ver \in Version
      /\ conn \in Tables /\ Version \subseteq 0..MaxVersions
  BY <1>1, JobFacts DEF PersistLabels
<1>3. \A r \in Ids : SnapshotComplete(conn, r)
  <2>1. SnapshotComplete(conn, job.id)
    BY <1>1, WrittenIsComplete DEF Inv
  <2> QED BY <2>1 DEF Inv, PendingComplete, Persisting
<1>4. conn.execution_records[job.id].ver = job.rec.ver
  BY <1>1, <1>2 DEF Inv, Written, PersistLabels, ExecutionRecordToDict, Records
<1>5. \A r \in Ids : stored'[r] # 0 => conn.execution_records[r].ver = stored'[r]
  <2>1. \A r \in Ids : stored'[r] = IF r = job.id THEN job.rec.ver ELSE stored[r]
    BY <1>1 DEF Inv, TypeOK, Rows
  <2>2. \A r \in Ids : r # job.id /\ stored[r] # 0 => conn.execution_records[r].ver = stored[r]
    BY DEF Inv, StoredIsPending, Persisting
  <2> QED BY <1>4, <2>1, <2>2
<1>6. TypeOK'
  <2>1. stored' \in Rows
    BY <1>1, <1>2 DEF Inv, TypeOK, Rows
  <2>2. committed' \subseteq Ids \X Version /\ raised' \subseteq Ids
    BY <1>2 DEF CommitRecord, Inv, TypeOK
  <2> QED BY <1>1, <1>2, <2>1, <2>2 DEF Inv, TypeOK, CallLabels, PersistLabels, boundVars
<1>7. AllOrNothing' /\ PendingComplete'
  BY <1>1, <1>3 DEF AllOrNothing, PendingComplete
<1>8. NotNewer(db)' /\ NotNewer(conn)'
  BY <1>1 DEF Inv, NotNewer
<1>9. StoredIsDurable' /\ StoredIsPending'
  BY <1>1, <1>5 DEF StoredIsDurable, StoredIsPending
<1>10. ReplayOutcomeDurable' /\ ToldIsPending'
  BY <1>1 DEF Inv, ReplayOutcomeDurable, ToldIsPending
<1>11. Written' /\ ReplayCall'
  BY <1>1 DEF Inv, Written, ReplayCall, HasJob, CallLabels, PersistLabels
<1> QED BY <1>6, <1>7, <1>8, <1>9, <1>10, <1>11 DEF Inv

\* Outside a capture the pending rows of all requests are complete, and so a
\* commit of anything may make them durable.
LEMMA CommitKeepsInv ==
  ASSUME Inv, TypeOK', pc \notin PersistLabels, db' = conn, conn' = conn, pc' = "idle",
         UNCHANGED <<captured, stored>>,
         \A r \in Replays :
           told'[r] \in Outcomes \ {"error"} => conn.replay_executions[r] = told'[r]
  PROVE  Inv'
<1>1. AllOrNothing' /\ PendingComplete'
  BY DEF Inv, AllOrNothing, PendingComplete, Persisting
<1>2. NotNewer(db)' /\ NotNewer(conn)'
  BY DEF Inv, NotNewer
<1>3. StoredIsDurable' /\ StoredIsPending'
  BY DEF Inv, StoredIsDurable, StoredIsPending, Persisting
<1>4. ReplayOutcomeDurable' /\ ToldIsPending'
  BY DEF ReplayOutcomeDurable, ToldIsPending
<1>5. Written' /\ ReplayCall'
  BY DEF Written, ReplayCall, HasJob, CallLabels, PersistLabels
<1> QED BY <1>1, <1>2, <1>3, <1>4, <1>5 DEF Inv

LEMMA CommitsKeepInv == Inv /\ (CommitReplay \/ CommitComparison) => Inv'
<1>1. ASSUME Inv, CommitReplay PROVE Inv'
  <2>1. /\ pc = "replay_commit" /\ pc' = "idle" /\ db' = conn /\ conn' = conn
        /\ told' = [told EXCEPT ![job.id] = job.outcome]
        /\ UNCHANGED <<cache, captured, traced, boundVars, stored, raised, committed>>
    BY <1>1 DEF CommitReplay, Return, Goto
  <2>2. /\ job.id \in Replays /\ job.outcome \in Outcomes \cup {"none"}
        /\ conn.replay_executions[job.id] = job.outcome
    BY <1>1, <2>1 DEF Inv, TypeOK, ReplayCall, HasJob, CallLabels, PersistLabels
  <2>3. \A r \in Replays : told'[r] = IF r = job.id THEN job.outcome ELSE told[r]
    BY <1>1, <2>1 DEF Inv, TypeOK
  <2>4. \A r \in Replays :
          told'[r] \in Outcomes \ {"error"} => conn.replay_executions[r] = told'[r]
    BY <1>1, <2>2, <2>3 DEF Inv, ToldIsPending
  <2>5. TypeOK'
    <3>1. told' \in [Replays -> Outcomes \cup {"none"}]
      BY <1>1, <2>1, <2>2 DEF Inv, TypeOK
    <3> QED BY <1>1, <2>1, <3>1 DEF Inv, TypeOK, CallLabels, PersistLabels, boundVars
  <2> QED BY <1>1, <2>1, <2>4, <2>5, CommitKeepsInv DEF PersistLabels
<1>2. ASSUME Inv, CommitComparison PROVE Inv'
  <2>1. /\ pc = "compare_commit" /\ pc' = "idle" /\ db' = conn /\ conn' = conn
        /\ UNCHANGED <<cache, captured, traced, boundVars, historyVars>>
    BY <1>2 DEF CommitComparison, Return, Goto
  <2>2. \A r \in Replays :
          told'[r] \in Outcomes \ {"error"} => conn.replay_executions[r] = told'[r]
    BY <1>2, <2>1 DEF Inv, ToldIsPending, historyVars
  <2>3. TypeOK'
    BY <1>2, <2>1 DEF Inv, TypeOK, CallLabels, PersistLabels, boundVars, historyVars
  <2> QED BY <1>2, <2>1, <2>2, <2>3, CommitKeepsInv DEF PersistLabels, historyVars
<1> QED BY <1>1, <1>2

-----------------------------------------------------------------------------
(* Statements outside a capture. *)

LEMMA SaveReplayKeepsInv == Inv /\ SaveReplay => Inv'
<1> SUFFICES ASSUME Inv, SaveReplay PROVE Inv'
  OBVIOUS
<1>1. /\ pc = "replay_row" /\ pc' = "replay_commit"
      /\ conn' = [conn EXCEPT !.replay_executions[job.id] = job.outcome]
      /\ UNCHANGED <<db, cache, job, captured, traced, boundVars, historyVars>>
  BY DEF SaveReplay, Executed, Goto
<1>2. /\ job.id \in Replays /\ job.outcome \in Outcomes \cup {"none"} /\ conn \in Tables
      /\ job.outcome # "none"
  BY <1>1 DEF Inv, TypeOK, ReplayCall, HasJob, CallLabels, PersistLabels
<1>3. /\ conn' \in Tables
      /\ conn'.replay_executions[job.id] = job.outcome
      /\ \A r \in Replays : r # job.id => conn'.replay_executions[r] = conn.replay_executions[r]
      /\ conn'.scheduler_decisions = conn.scheduler_decisions
      /\ conn'.batch_decisions = conn.batch_decisions /\ conn'.failures = conn.failures
      /\ conn'.execution_records = conn.execution_records
      /\ \A r \in Ids : SameRows(conn, conn', r)
  BY <1>1, <1>2 DEF Tables, SameRows
<1>4. TypeOK'
  BY <1>1, <1>3 DEF Inv, TypeOK, CallLabels, PersistLabels, boundVars, historyVars
<1>5. AllOrNothing' /\ NotNewer(db)' /\ StoredIsDurable' /\ ReplayOutcomeDurable'
  BY <1>1 DEF Inv, AllOrNothing, NotNewer, StoredIsDurable, ReplayOutcomeDurable, historyVars
<1>6. PendingComplete'
  BY <1>1, <1>2, <1>3, SameRowsComplete DEF Inv, PendingComplete, Persisting, PersistLabels
<1>7. NotNewer(conn)' /\ StoredIsPending'
  BY <1>1, <1>3 DEF Inv, NotNewer, StoredIsPending, Persisting, PersistLabels, historyVars
<1>8. Written' /\ ReplayCall' /\ ToldIsPending'
  BY <1>1, <1>2, <1>3 DEF Inv, Written, ReplayCall, ToldIsPending, HasJob, PersistLabels, historyVars
<1> QED BY <1>4, <1>5, <1>6, <1>7, <1>8 DEF Inv

LEMMA SaveComparisonKeepsInv ==
  ASSUME NEW o \in Originals, NEW r \in Replays, Inv, SaveComparison(o, r)
  PROVE  Inv'
<1>1. /\ pc = "idle" /\ pc' = "compare_commit"
      /\ conn' = [conn EXCEPT !.replay_comparisons = @ \cup {<<o, r>>}]
      /\ UNCHANGED <<db, cache, job, captured, traced, boundVars, historyVars>>
  BY DEF SaveComparison, Executed, Goto, Idle
<1>2. conn \in Tables /\ o \in Ids /\ r \in Ids
  BY DEF Inv, TypeOK, Ids
<1>3. /\ conn' \in Tables
      /\ conn'.replay_executions = conn.replay_executions
      /\ conn'.scheduler_decisions = conn.scheduler_decisions
      /\ conn'.batch_decisions = conn.batch_decisions /\ conn'.failures = conn.failures
      /\ conn'.execution_records = conn.execution_records
      /\ \A u \in Ids : SameRows(conn, conn', u)
  BY <1>1, <1>2 DEF Tables, SameRows
<1>4. TypeOK'
  BY <1>1, <1>3 DEF Inv, TypeOK, CallLabels, PersistLabels, boundVars, historyVars
<1>5. AllOrNothing' /\ NotNewer(db)' /\ StoredIsDurable' /\ ReplayOutcomeDurable'
  BY <1>1 DEF Inv, AllOrNothing, NotNewer, StoredIsDurable, ReplayOutcomeDurable, historyVars
<1>6. PendingComplete'
  BY <1>1, <1>2, <1>3, SameRowsComplete DEF Inv, PendingComplete, Persisting, PersistLabels
<1>7. NotNewer(conn)' /\ StoredIsPending'
  BY <1>1, <1>3 DEF Inv, NotNewer, StoredIsPending, Persisting, PersistLabels, historyVars
<1>8. Written' /\ ReplayCall' /\ ToldIsPending'
  BY <1>1, <1>3 DEF Inv, Written, ReplayCall, ToldIsPending, HasJob, PersistLabels, historyVars
<1> QED BY <1>4, <1>5, <1>6, <1>7, <1>8 DEF Inv

\* Deleting a request takes all of its rows from the connection, none from the
\* file, and forgets what was promised about it.
LEMMA DeleteRequestKeepsInv ==
  ASSUME NEW r \in Ids, Inv, DeleteRequest(r)
  PROVE  Inv'
<1>1. /\ pc = "idle" /\ pc' = pc /\ job' = job
      /\ stored' = [stored EXCEPT ![r] = 0]
      /\ UNCHANGED <<db, cache, captured, traced, boundVars, raised, committed, told>>
  BY DEF DeleteRequest, Idle, callVars
<1>2. conn \in Tables /\ stored \in Rows /\ captured \in Rows
  BY DEF Inv, TypeOK
<1>3. conn' = [conn EXCEPT !.lifecycle_transitions = [@ EXCEPT ![r] = 0],
                          !.scheduler_decisions = [@ EXCEPT ![r] = 0],
                          !.batch_decisions = [@ EXCEPT ![r] = 0],
                          !.failures = {f \in @ : f[1] # r},
                          !.trace_summaries = [@ EXCEPT ![r] = 0],
                          !.execution_records = [@ EXCEPT ![r] = NoRecord],
                          !.requests = [@ EXCEPT ![r] = 0]]
  BY <1>2 DEF DeleteRequest, Tables
<1>4. /\ conn'.lifecycle_transitions = [conn.lifecycle_transitions EXCEPT ![r] = 0]
      /\ conn'.scheduler_decisions = [conn.scheduler_decisions EXCEPT ![r] = 0]
      /\ conn'.batch_decisions = [conn.batch_decisions EXCEPT ![r] = 0]
      /\ conn'.failures = {f \in conn.failures : f[1] # r}
      /\ conn'.trace_summaries = [conn.trace_summaries EXCEPT ![r] = 0]
      /\ conn'.execution_records = [conn.execution_records EXCEPT ![r] = NoRecord]
      /\ conn'.requests = [conn.requests EXCEPT ![r] = 0]
      /\ conn'.replay_executions = conn.replay_executions
      /\ conn'.replay_comparisons = conn.replay_comparisons
      /\ conn'.schema_migrations = conn.schema_migrations
  BY <1>2, <1>3 DEF Tables
<1>5. conn' \in Tables
  <2>1. 0 \in 0..MaxVersions
    BY BoundsAssumption
  <2>2. /\ conn'.requests \in Rows /\ conn'.lifecycle_transitions \in Rows
        /\ conn'.scheduler_decisions \in Rows /\ conn'.batch_decisions \in Rows
        /\ conn'.trace_summaries \in Rows
    BY <1>2, <1>4, <2>1 DEF Tables, Rows
  <2>3. conn'.execution_records \in [Ids -> Records \cup {NoRecord}]
    BY <1>2, <1>4 DEF Tables
  <2>4. conn'.failures \in SUBSET (Ids \X Version)
    BY <1>2, <1>4 DEF Tables
  <2>5. /\ conn'.schema_migrations \in {0, SCHEMA_VERSION}
        /\ conn'.replay_executions \in [Replays -> Outcomes \cup {"none"}]
        /\ conn'.replay_comparisons \in SUBSET (Ids \X Ids)
    BY <1>2, <1>4 DEF Tables
  <2>6. conn' = [schema_migrations |-> conn'.schema_migrations,
                 requests |-> conn'.requests,
                 lifecycle_transitions |-> conn'.lifecycle_transitions,
                 scheduler_decisions |-> conn'.scheduler_decisions,
                 batch_decisions |-> conn'.batch_decisions,
                 trace_summaries |-> conn'.trace_summaries,
                 execution_records |-> conn'.execution_records,
                 failures |-> conn'.failures,
                 replay_executions |-> conn'.replay_executions,
                 replay_comparisons |-> conn'.replay_comparisons]
    BY <1>2, <1>3 DEF Tables
  <2> QED BY <2>2, <2>3, <2>4, <2>5, <2>6 DEF Tables
<1>6. \A u \in Ids : u # r => SameRows(conn, conn', u)
  BY <1>2, <1>4 DEF Tables, Rows, SameRows
<1>7. SnapshotComplete(conn', r)
  <2>1. /\ conn'.requests[r] = 0 /\ conn'.lifecycle_transitions[r] = 0
        /\ conn'.scheduler_decisions[r] = 0 /\ conn'.batch_decisions[r] = 0
        /\ conn'.trace_summaries[r] = 0 /\ conn'.execution_records[r] = NoRecord
    BY <1>2, <1>4 DEF Tables, Rows
  <2>2. QueryFailuresByRequest(conn', r) = {}
    BY <1>4 DEF QueryFailuresByRequest
  <2>3. NoRecord.ver = 0 /\ NoRecord.decisions = {} /\ NoRecord.failures = FALSE
    BY DEF NoRecord
  <2> QED BY <2>1, <2>2, <2>3 DEF SnapshotComplete, GetRequest, GetTransitions, GetSummary,
          GetSchedulerDecisions, GetBatchDecisions
<1>8. TypeOK'
  <2>1. stored' \in Rows
    BY <1>1, <1>2, BoundsAssumption DEF Rows
  <2> QED BY <1>1, <1>5, <2>1 DEF Inv, TypeOK, CallLabels, PersistLabels, boundVars
<1>9. AllOrNothing' /\ NotNewer(db)' /\ ReplayOutcomeDurable'
  BY <1>1 DEF Inv, AllOrNothing, NotNewer, ReplayOutcomeDurable
<1>10. PendingComplete'
  BY <1>1, <1>2, <1>5, <1>6, <1>7, SameRowsComplete DEF Inv, PendingComplete, Persisting, PersistLabels
<1>11. NotNewer(conn)'
  <2>1. \A u \in Ids : captured[u] \in Nat
    BY <1>2 DEF Rows
  <2>2. /\ \A u \in Ids : /\ conn'.scheduler_decisions[u] \in {0, conn.scheduler_decisions[u]}
                          /\ conn'.batch_decisions[u] \in {0, conn.batch_decisions[u]}
        /\ conn'.failures \subseteq conn.failures
    BY <1>2, <1>4 DEF Tables, Rows
  <2> QED BY <1>1, <2>1, <2>2 DEF Inv, NotNewer
<1>12. StoredIsDurable' /\ StoredIsPending'
  <2>1. \A u \in Ids : stored'[u] = IF u = r THEN 0 ELSE stored[u]
    BY <1>1, <1>2 DEF Rows
  <2> QED BY <1>1, <1>6, <2>1
          DEF Inv, StoredIsDurable, StoredIsPending, Persisting, PersistLabels, SameRows
<1>13. Written' /\ ReplayCall' /\ ToldIsPending'
  BY <1>1, <1>4 DEF Inv, Written, ReplayCall, ToldIsPending, HasJob, CallLabels, PersistLabels
<1> QED BY <1>8, <1>9, <1>10, <1>11, <1>12, <1>13 DEF Inv

\* Startup migrates the file and fills the cache.
LEMMA StartupKeepsInv == Inv /\ Startup => Inv'
<1> SUFFICES ASSUME Inv, Startup PROVE Inv'
  OBVIOUS
<1>1. /\ pc = "down" /\ pc' \in {"idle", "failed_start"}
      /\ db' = Migrated(db) /\ conn' = Migrated(db)
      /\ UNCHANGED <<job, captured, traced, boundVars, historyVars>>
  BY DEF Startup, Goto
<1>2. db \in Tables
  BY DEF Inv, TypeOK
<1>3. /\ Migrated(db) \in Tables
      /\ Migrated(db).replay_executions = db.replay_executions
      /\ Migrated(db).scheduler_decisions = db.scheduler_decisions
      /\ Migrated(db).batch_decisions = db.batch_decisions
      /\ Migrated(db).failures = db.failures
      /\ Migrated(db).execution_records = db.execution_records
      /\ \A r \in Ids : SameRows(db, Migrated(db), r)
  BY <1>2 DEF Migrated, Tables, SameRows, SCHEMA_VERSION
<1>4. TypeOK'
  <2>1. cache' \in [Ids -> Records \cup {NoRecord}]
    BY <1>2 DEF Startup, Inv, TypeOK, ExecutionRecordFromDict, Tables, ListRecordIds
  <2> QED BY <1>1, <1>3, <2>1 DEF Inv, TypeOK, CallLabels, PersistLabels, boundVars, historyVars
<1>5. \A r \in Ids : SnapshotComplete(Migrated(db), r)
  BY <1>2, <1>3, SameRowsComplete DEF Inv, AllOrNothing
<1>6. AllOrNothing' /\ PendingComplete'
  BY <1>1, <1>5 DEF AllOrNothing, PendingComplete
<1>7. NotNewer(db)' /\ NotNewer(conn)'
  BY <1>1, <1>3 DEF Inv, NotNewer
<1>8. StoredIsDurable' /\ StoredIsPending'
  BY <1>1, <1>3 DEF Inv, StoredIsDurable, StoredIsPending, historyVars
<1>9. ReplayOutcomeDurable' /\ ToldIsPending'
  BY <1>1, <1>3 DEF Inv, ReplayOutcomeDurable, ToldIsPending, historyVars
<1>10. Written' /\ ReplayCall'
  BY <1>1 DEF Written, ReplayCall, HasJob, CallLabels, PersistLabels
<1> QED BY <1>4, <1>6, <1>7, <1>8, <1>9, <1>10 DEF Inv

LEMMA StutterKeepsInv == Inv /\ UNCHANGED vars => Inv'
  BY DEF vars, callVars, boundVars, historyVars, Inv, TypeOK, AllOrNothing, PendingComplete,
     Persisting, Written, NotNewer, StoredIsDurable, StoredIsPending, ReplayOutcomeDurable,
     ToldIsPending, ReplayCall, HasJob

LEMMA NextKeepsInv == Inv /\ [Next]_vars => Inv'
<1> SUFFICES ASSUME Inv, [Next]_vars PROVE Inv'
  OBVIOUS
<1>1. CASE \E r \in Originals : Capture(r)
  BY <1>1, CapturesKeepInv
<1>2. CASE \E r \in Replays, s \in Ids : CaptureReplay(r, s) \/ ReplayRaises(r, s)
  BY <1>2, CapturesKeepInv, FailuresReturnQuietly
<1>3. CASE SaveRequest \/ SaveTransitions \/ SaveSchedulerDecisions \/ SaveBatchDecisions
           \/ SaveFailures \/ SaveRecord \/ SaveSummary
  BY <1>3, SaveRequestKeepsInv, SaveTransitionsKeepsInv, SaveSchedulerDecisionsKeepsInv,
     SaveBatchDecisionsKeepsInv, SaveFailuresKeepsInv, SaveRecordKeepsInv, SaveSummaryKeepsInv
<1>4. CASE CommitRecord \/ PersistFails
  BY <1>4, CommitRecordKeepsInv, PersistFailsKeepsInv
<1>5. CASE SaveReplay \/ CommitReplay \/ PersistReplayFails
  BY <1>5, SaveReplayKeepsInv, CommitsKeepInv, FailuresReturnQuietly
<1>6. CASE \E o \in Originals, r \in Replays : SaveComparison(o, r)
  BY <1>6, SaveComparisonKeepsInv
<1>7. CASE CommitComparison \/ CompareFails
  BY <1>7, CommitsKeepInv, FailuresReturnQuietly
<1>8. CASE \E r \in Ids : DeleteRequest(r)
  BY <1>8, DeleteRequestKeepsInv
<1>9. CASE Stop \/ Startup
  BY <1>9, StopKeepsInv, StartupKeepsInv
<1>10. CASE UNCHANGED vars
  BY <1>10, StutterKeepsInv
<1> QED BY <1>1, <1>2, <1>3, <1>4, <1>5, <1>6, <1>7, <1>8, <1>9, <1>10 DEF Next

-----------------------------------------------------------------------------
(* Every row of the file was committed by its own capture. *)

\* The capture whose rows the running call is writing.
Running == IF pc \in PersistLabels THEN {<<job.id, job.rec.ver>>} ELSE {}

\* The rows of d come from captures of S.
RowsFrom(d, S) ==
  /\ d.failures \subseteq S
  /\ \A r \in Ids :
       /\ d.execution_records[r] # NoRecord => <<r, d.execution_records[r].ver>> \in S
       /\ d.scheduler_decisions[r] # 0 => <<r, d.scheduler_decisions[r]>> \in S
       /\ d.batch_decisions[r] # 0 => <<r, d.batch_decisions[r]>> \in S

\* A replay with a row in d was captured before.
ReplaysCaptured(d) ==
  \A r \in Replays : d.replay_executions[r] # "none" => \E v \in Version : <<r, v>> \in committed

\* Pending rows belong to committed captures or to the running one; the call
\* that goes on to write a replay's row has committed the capture.
OriginInv ==
  /\ RowsFrom(db, committed) /\ RowsFrom(conn, committed \cup Running)
  /\ ReplaysCaptured(db) /\ ReplaysCaptured(conn)
  /\ pc \in {"replay_row", "replay_commit"} => <<job.id, job.rec.ver>> \in committed

LEMMA OriginInit == Init => OriginInv
  BY DEF Init, OriginInv, RowsFrom, ReplaysCaptured, Running, PersistLabels,
     EmptyTables, NoRows

\* A statement of a capture adds rows of the running capture only.
LEMMA StatementKeepsOrigin ==
  ASSUME OriginInv, pc \in PersistLabels, pc' \in PersistLabels,
         UNCHANGED <<db, job, committed>>,
         conn'.failures \subseteq conn.failures \cup {<<job.id, job.rec.ver>>},
         conn'.replay_executions = conn.replay_executions,
         \A r \in Ids :
           /\ \/ conn'.execution_records[r] = conn.execution_records[r]
              \/ r = job.id /\ conn'.execution_records[r].ver = job.rec.ver
           /\ \/ conn'.scheduler_decisions[r] = conn.scheduler_decisions[r]
              \/ r = job.id /\ conn'.scheduler_decisions[r] = job.rec.ver
           /\ \/ conn'.batch_decisions[r] = conn.batch_decisions[r]
              \/ r = job.id /\ conn'.batch_decisions[r] = job.rec.ver
  PROVE  OriginInv'
<1>1. Running = {<<job.id, job.rec.ver>>} /\ Running' = Running
  BY DEF Running
<1>2. RowsFrom(conn', committed \cup Running)
  BY <1>1 DEF OriginInv, RowsFrom
<1> QED BY <1>1, <1>2 DEF OriginInv, RowsFrom, ReplaysCaptured, PersistLabels

LEMMA StatementsKeepOrigin ==
  ASSUME Inv, OriginInv,
         \/ SaveRequest \/ SaveTransitions \/ SaveSchedulerDecisions \/ SaveBatchDecisions
         \/ SaveFailures \/ SaveRecord \/ SaveSummary
  PROVE  OriginInv'
<1>1. /\ pc \in PersistLabels /\ pc' \in PersistLabels
      /\ UNCHANGED <<db, job, committed>>
  BY DEF SaveRequest, SaveTransitions, SaveSchedulerDecisions, SaveBatchDecisions,
     SaveFailures, SaveRecord, SaveSummary, Executed, Goto, PersistLabels, historyVars
<1>2. /\ job.id \in Ids /\ job.rec \in Records /\ conn \in Tables
  BY <1>1, JobFacts
<1> HIDE <1>1
<1>3. CASE SaveRequest \/ SaveTransitions \/ SaveSummary
  <2>1. /\ conn'.failures = conn.failures
        /\ conn'.replay_executions = conn.replay_executions
        /\ conn'.execution_records = conn.execution_records
        /\ conn'.scheduler_decisions = conn.scheduler_decisions
        /\ conn'.batch_decisions = conn.batch_decisions
    BY <1>2, <1>3 DEF SaveRequest, SaveTransitions, SaveSummary, Executed, Tables
  <2> QED BY <1>1, <2>1, StatementKeepsOrigin
<1>4. CASE SaveSchedulerDecisions
  <2>1. /\ conn'.failures = conn.failures
        /\ conn'.replay_executions = conn.replay_executions
        /\ conn'.execution_records = conn.execution_records
        /\ conn'.batch_decisions = conn.batch_decisions
        /\ \A r \in Ids :
             \/ conn'.scheduler_decisions[r] = conn.scheduler_decisions[r]
             \/ r = job.id /\ conn'.scheduler_decisions[r] = job.rec.ver
    BY <1>2, <1>4 DEF SaveSchedulerDecisions, Executed, Tables, Rows
  <2> QED BY <1>1, <2>1, StatementKeepsOrigin
<1>5. CASE SaveBatchDecisions
  <2>1. /\ conn'.failures = conn.failures
        /\ conn'.replay_executions = conn.replay_executions
        /\ conn'.execution_records = conn.execution_records
        /\ conn'.scheduler_decisions = conn.scheduler_decisions
        /\ \A r \in Ids :
             \/ conn'.batch_decisions[r] = conn.batch_decisions[r]
             \/ r = job.id /\ conn'.batch_decisions[r] = job.rec.ver
    BY <1>2, <1>5 DEF SaveBatchDecisions, Executed, Tables, Rows
  <2> QED BY <1>1, <2>1, StatementKeepsOrigin
<1>6. CASE SaveFailures
  <2>1. /\ conn'.failures \subseteq conn.failures \cup {<<job.id, job.rec.ver>>}
        /\ conn'.replay_executions = conn.replay_executions
        /\ conn'.execution_records = conn.execution_records
        /\ conn'.scheduler_decisions = conn.scheduler_decisions
        /\ conn'.batch_decisions = conn.batch_decisions
    BY <1>2, <1>6 DEF SaveFailures, Executed, Tables
  <2> QED BY <1>1, <2>1, StatementKeepsOrigin
<1>7. CASE SaveRecord
  <2>1. ExecutionRecordToDict(job.rec).ver = job.rec.ver
    BY <1>2 DEF ExecutionRecordToDict, Records
  <2>2. /\ conn'.failures = conn.failures
        /\ conn'.replay_executions = conn.replay_executions
        /\ conn'.scheduler_decisions = conn.scheduler_decisions
        /\ conn'.batch_decisions = conn.batch_decisions
        /\ \A r \in Ids :
             \/ conn'.execution_records[r] = conn.execution_records[r]
             \/ r = job.id /\ conn'.execution_records[r] = ExecutionRecordToDict(job.rec)
    BY <1>2, <1>7 DEF SaveRecord, Executed, Tables
  <2> QED BY <1>1, <2>1, <2>2, StatementKeepsOrigin
<1> QED BY <1>3, <1>4, <1>5, <1>6, <1>7

\* A capture begins: nothing is written yet.
LEMMA CaptureKeepsOrigin ==
  ASSUME OriginInv, Idle, pc' = "requests", UNCHANGED <<db, conn, committed>>
  PROVE  OriginInv'
<1>1. RowsFrom(conn, committed) /\ committed \subseteq committed \cup Running'
  BY DEF OriginInv, Running, Idle, PersistLabels
<1>2. RowsFrom(conn, committed \cup Running')
  BY <1>1 DEF RowsFrom
<1> QED BY <1>2 DEF OriginInv, RowsFrom, ReplaysCaptured

\* A step outside captures that only removes rows of captures, or none.
LEMMA OtherStepKeepsOrigin ==
  ASSUME OriginInv, pc \notin PersistLabels, pc' \in {"idle", "compare_commit", "down", "failed_start"},
         db' \in {db, conn}, committed' = committed,
         conn'.failures \subseteq conn.failures,
         conn'.replay_executions = conn.replay_executions,
         \A r \in Ids :
           /\ conn'.execution_records[r] \in {conn.execution_records[r], NoRecord}
           /\ conn'.scheduler_decisions[r] \in {conn.scheduler_decisions[r], 0}
           /\ conn'.batch_decisions[r] \in {conn.batch_decisions[r], 0}
  PROVE  OriginInv'
<1>1. Running = {} /\ Running' = {}
  BY DEF Running, PersistLabels
<1>2. RowsFrom(conn', committed)
  BY <1>1 DEF OriginInv, RowsFrom
<1>3. RowsFrom(db', committed) /\ ReplaysCaptured(db')
  BY <1>1 DEF OriginInv
<1> QED BY <1>1, <1>2, <1>3 DEF OriginInv, RowsFrom, ReplaysCaptured

LEMMA NextKeepsOrigin ==
  ASSUME Inv, OriginInv, [Next]_vars
  PROVE  OriginInv'
<1>0. conn \in Tables /\ db \in Tables
  BY DEF Inv, TypeOK
<1>1. CASE \/ \E r \in Originals : Capture(r)
           \/ \E r \in Replays, s \in Ids : CaptureReplay(r, s)
  <2>1. PICK r, what, typed, payload, outcome :
          r \in Ids /\ Idle /\ CaptureExecution(r, what, typed, payload, outcome)
    BY <1>1 DEF Capture, CaptureReplay, Ids
  <2>2. Idle /\ pc' = "requests" /\ UNCHANGED <<db, conn, committed>>
    BY <2>1 DEF CaptureExecution, Put, Goto, historyVars
  <2> QED BY <2>2, CaptureKeepsOrigin
<1>2. CASE \/ SaveRequest \/ SaveTransitions \/ SaveSchedulerDecisions \/ SaveBatchDecisions
           \/ SaveFailures \/ SaveRecord \/ SaveSummary
  BY <1>2, StatementsKeepOrigin
<1>3. CASE CommitRecord
  <2>1. /\ pc = "commit" /\ pc' \in {"idle", "replay_row"} /\ db' = conn /\ conn' = conn
        /\ pc' = "replay_row" => job' = job
        /\ committed' = committed \cup {<<job.id, job.rec.ver>>}
    BY <1>3 DEF CommitRecord, Return, Goto
  <2>2. committed \cup Running = committed' /\ committed' \cup Running' = committed'
    BY <2>1 DEF Running, PersistLabels
  <2> QED BY <2>1, <2>2 DEF OriginInv, RowsFrom, ReplaysCaptured
<1>4. CASE PersistFails \/ Stop
  <2>1. /\ pc' \in {"idle", "down"} /\ db' = db /\ conn' = db /\ committed' = committed
    BY <1>4 DEF PersistFails, Stop, Return, Goto
  <2>2. Running' = {}
    BY <2>1 DEF Running, PersistLabels
  <2> QED BY <2>1, <2>2 DEF OriginInv, RowsFrom, ReplaysCaptured
<1>5. CASE SaveReplay
  <2>1. /\ pc = "replay_row" /\ pc' = "replay_commit"
        /\ conn' = [conn EXCEPT !.replay_executions[job.id] = job.outcome]
        /\ UNCHANGED <<db, job, committed>>
    BY <1>5 DEF SaveReplay, Executed, Goto, historyVars
  <2>2. job.id \in Ids /\ job.rec.ver \in Version /\ <<job.id, job.rec.ver>> \in committed
    BY <2>1 DEF OriginInv, Inv, TypeOK, CallLabels, PersistLabels, Records
  <2>3. /\ conn'.failures = conn.failures
        /\ conn'.execution_records = conn.execution_records
        /\ conn'.scheduler_decisions = conn.scheduler_decisions
        /\ conn'.batch_decisions = conn.batch_decisions
        /\ \A r \in Replays :
             r # job.id => conn'.replay_executions[r] = conn.replay_executions[r]
    BY <1>0, <2>1 DEF Tables
  <2>4. ReplaysCaptured(conn)'
    BY <2>1, <2>2, <2>3 DEF OriginInv, ReplaysCaptured
  <2>5. Running = {} /\ Running' = {}
    BY <2>1 DEF Running, PersistLabels
  <2> QED BY <2>1, <2>2, <2>3, <2>4, <2>5 DEF OriginInv, RowsFrom, ReplaysCaptured
<1>6. CASE \/ CommitReplay \/ PersistReplayFails \/ CommitComparison \/ CompareFails
           \/ \E r \in Replays, s \in Ids : ReplayRaises(r, s)
  <2>1. /\ pc \notin PersistLabels /\ pc' = "idle"
        /\ db' \in {db, conn} /\ conn' = conn /\ committed' = committed
    BY <1>6 DEF CommitReplay, PersistReplayFails, CommitComparison, CompareFails,
       ReplayRaises, Return, Goto, Idle, PersistLabels, callVars, historyVars
  <2> QED BY <2>1, OtherStepKeepsOrigin
<1>7. CASE \E o \in Originals, r \in Replays : SaveComparison(o, r)
  <2>1. PICK o \in Originals, r \in Replays : SaveComparison(o, r)
    BY <1>7
  <2>2. /\ pc \notin PersistLabels /\ pc' = "compare_commit"
        /\ db' = db /\ committed' = committed
        /\ conn' = [conn EXCEPT !.replay_comparisons = @ \cup {<<o, r>>}]
    BY <2>1 DEF SaveComparison, Executed, Goto, Idle, PersistLabels, historyVars
  <2>3. /\ conn'.failures = conn.failures
        /\ conn'.execution_records = conn.execution_records
        /\ conn'.scheduler_decisions = conn.scheduler_decisions
        /\ conn'.batch_decisions = conn.batch_decisions
        /\ conn'.replay_executions = conn.replay_executions
    BY <1>0, <2>2 DEF Tables
  <2> QED BY <2>2, <2>3, OtherStepKeepsOrigin
<1>8. CASE \E r \in Ids : DeleteRequest(r)
  <2>1. PICK r \in Ids : DeleteRequest(r)
    BY <1>8
  <2>2. /\ pc \notin PersistLabels /\ pc' = "idle" /\ db' = db /\ committed' = committed
    BY <2>1 DEF DeleteRequest, Idle, PersistLabels, callVars
  <2>3. conn' = [conn EXCEPT !.lifecycle_transitions = [@ EXCEPT ![r] = 0],
                            !.scheduler_decisions = [@ EXCEPT ![r] = 0],
                            !.batch_decisions = [@ EXCEPT ![r] = 0],
                            !.failures = {f \in @ : f[1] # r},
                            !.trace_summaries = [@ EXCEPT ![r] = 0],
                            !.execution_records = [@ EXCEPT ![r] = NoRecord],
                            !.requests = [@ EXCEPT ![r] = 0]]
    BY <1>0, <2>1 DEF DeleteRequest, Tables
  <2>4. /\ conn'.failures = {f \in conn.failures : f[1] # r}
        /\ conn'.execution_records = [conn.execution_records EXCEPT ![r] = NoRecord]
        /\ conn'.scheduler_decisions = [conn.scheduler_decisions EXCEPT ![r] = 0]
        /\ conn'.batch_decisions = [conn.batch_decisions EXCEPT ![r] = 0]
        /\ conn'.replay_executions = conn.replay_executions
    BY <1>0, <2>3 DEF Tables
  <2>5. \A u \in Ids :
          /\ conn'.execution_records[u] \in {conn.execution_records[u], NoRecord}
          /\ conn'.scheduler_decisions[u] \in {conn.scheduler_decisions[u], 0}
          /\ conn'.batch_decisions[u] \in {conn.batch_decisions[u], 0}
    BY <1>0, <2>4 DEF Tables, Rows
  <2> QED BY <2>2, <2>4, <2>5, OtherStepKeepsOrigin
<1>9. CASE Startup
  <2>1. /\ pc' \in {"idle", "failed_start"} /\ committed' = committed
        /\ db' = Migrated(db) /\ conn' = Migrated(db)
    BY <1>9 DEF Startup, Goto, historyVars
  <2>2. /\ Migrated(db).failures = db.failures
        /\ Migrated(db).execution_records = db.execution_records
        /\ Migrated(db).scheduler_decisions = db.scheduler_decisions
        /\ Migrated(db).batch_decisions = db.batch_decisions
        /\ Migrated(db).replay_executions = db.replay_executions
    BY <1>0 DEF Migrated, Tables
  <2>3. Running' = {}
    BY <2>1 DEF Running, PersistLabels
  <2> QED BY <2>1, <2>2, <2>3 DEF OriginInv, RowsFrom, ReplaysCaptured
<1>10. CASE UNCHANGED vars
  BY <1>10 DEF vars, callVars, historyVars, OriginInv, RowsFrom, ReplaysCaptured, Running
<1> QED BY <1>1, <1>2, <1>3, <1>4, <1>5, <1>6, <1>7, <1>8, <1>9, <1>10 DEF Next

-----------------------------------------------------------------------------
(* The cache serves what was stored. *)

\* A cached record of a request with a stored capture is that capture, unless
\* a newer one is being written or has raised.
CacheIsNewest ==
  \A r \in Ids :
    stored[r] # 0 /\ r \notin raised /\ ~Persisting(r) /\ cache[r] # NoRecord
      => cache[r].ver = stored[r]

LEMMA NextKeepsCacheNewest ==
  ASSUME Inv, CacheIsNewest, [Next]_vars
  PROVE  CacheIsNewest'
<1>0. /\ stored \in Rows /\ cache \in [Ids -> Records \cup {NoRecord}]
      /\ db \in Tables
  BY DEF Inv, TypeOK
<1>1. CASE \/ \E r \in Originals : Capture(r)
           \/ \E r \in Replays, s \in Ids : CaptureReplay(r, s)
  <2>1. PICK r, what, typed, payload, outcome :
          r \in Ids /\ Idle /\ CaptureExecution(r, what, typed, payload, outcome)
    BY <1>1 DEF Capture, CaptureReplay, Ids
  <2>2. /\ pc \notin PersistLabels /\ pc' \in PersistLabels /\ job'.id = r
        /\ stored' = stored /\ raised' = raised
        /\ \A u \in Ids : u # r => cache'[u] = cache[u]
    BY <1>0, <2>1 DEF CaptureExecution, Put, CachePut, Goto, Idle, PersistLabels, historyVars
  <2> QED BY <2>2 DEF CacheIsNewest, Persisting
<1>2. CASE \/ SaveRequest \/ SaveTransitions \/ SaveSchedulerDecisions \/ SaveBatchDecisions
           \/ SaveFailures \/ SaveRecord \/ SaveSummary
  <2>1. /\ pc \in PersistLabels /\ pc' \in PersistLabels
        /\ UNCHANGED <<cache, job, stored, raised>>
    BY <1>2 DEF SaveRequest, SaveTransitions, SaveSchedulerDecisions, SaveBatchDecisions,
       SaveFailures, SaveRecord, SaveSummary, Executed, Goto, PersistLabels, historyVars
  <2> QED BY <2>1 DEF CacheIsNewest, Persisting
<1>3. CASE CommitRecord
  <2>1. /\ pc = "commit" /\ pc \in PersistLabels /\ cache' = cache
        /\ stored' = [stored EXCEPT ![job.id] = job.rec.ver]
        /\ raised' = raised \ {job.id}
    BY <1>3 DEF CommitRecord, PersistLabels
  <2>2. cache[job.id].ver = job.rec.ver /\ job.id \in Ids
    BY <2>1 DEF Inv, TypeOK, CallLabels, PersistLabels
  <2>3. \A r \in Ids : stored'[r] = IF r = job.id THEN job.rec.ver ELSE stored[r]
    BY <1>0, <2>1 DEF Rows
  <2> QED BY <2>1, <2>2, <2>3 DEF CacheIsNewest, Persisting
<1>4. CASE PersistFails
  <2>1. /\ raised' = raised \cup {job.id} /\ stored' = stored /\ cache' = cache
    BY <1>4 DEF PersistFails
  <2> QED BY <2>1 DEF CacheIsNewest, Persisting
<1>5. CASE \/ SaveReplay \/ CommitReplay \/ PersistReplayFails \/ CommitComparison \/ CompareFails
           \/ \E r \in Replays, s \in Ids : ReplayRaises(r, s)
           \/ \E o \in Originals, r \in Replays : SaveComparison(o, r)
  <2>1. pc \notin PersistLabels /\ UNCHANGED <<cache, stored, raised>>
    BY <1>5 DEF SaveReplay, CommitReplay, PersistReplayFails, CommitComparison, CompareFails,
       ReplayRaises, SaveComparison, Executed, Idle, PersistLabels, historyVars
  <2> QED BY <2>1 DEF CacheIsNewest, Persisting
<1>6. CASE \E r \in Ids : DeleteRequest(r)
  <2>1. /\ pc \notin PersistLabels /\ UNCHANGED <<cache, raised>>
        /\ \A u \in Ids : stored'[u] \in {0, stored[u]}
    BY <1>0, <1>6 DEF DeleteRequest, Idle, PersistLabels, Rows
  <2> QED BY <2>1 DEF CacheIsNewest, Persisting
<1>7. CASE Stop
  BY <1>7 DEF Stop, CacheIsNewest
<1>8. CASE Startup
  <2>1. /\ pc \notin PersistLabels /\ UNCHANGED <<stored, raised>>
        /\ \A r \in Ids : cache'[r] \in {cache[r], db.execution_records[r]}
    BY <1>8 DEF Startup, PersistLabels, ExecutionRecordFromDict, historyVars
  <2> QED BY <2>1 DEF CacheIsNewest, Persisting, Inv, StoredIsDurable
<1>9. CASE UNCHANGED vars
  BY <1>9 DEF vars, callVars, historyVars, CacheIsNewest, Persisting
<1> QED BY <1>1, <1>2, <1>3, <1>4, <1>5, <1>6, <1>7, <1>8, <1>9 DEF Next

-----------------------------------------------------------------------------
(* The abstract history. *)

Both(s, o) == [snapshots |-> s, outcomes |-> o]

LEMMA EitherChanges ==
  ASSUME NEW s, NEW o, NEW x
  PROVE  /\ Both(s, o).snapshots = s /\ Both(s, o).outcomes = o
         /\ [Both(s, o) EXCEPT !.snapshots = x] = Both(x, o)
         /\ [Both(s, o) EXCEPT !.outcomes = x] = Both(s, x)
  BY DEF Both

\* What the tables d come to when every request's rows are complete.
Versions(d) == [r \in Ids |-> d.execution_records[r].ver]
Whole(d) == Both(Versions(d), d.replay_executions)

\* What the connection sees, the running capture as good as written.
Snapshots == [r \in Ids |-> IF Persisting(r) THEN job.rec.ver ELSE conn.execution_records[r].ver]

\* The abstraction without the torn case, before and after a step.
Seen ==
  /\ HistoryIn(db) = Whole(db)
  /\ PendingHistory = Both(Snapshots, conn.replay_executions)

LEMMA InvSeen == (Inv => Seen) /\ (Inv' => Seen')
<1>1. Inv => Seen
  BY DEF Inv, AllOrNothing, PendingComplete, Seen, HistoryIn, PendingHistory, SnapshotIn, Whole,
     Versions, Snapshots, Both
<1>2. Inv' => Seen'
  BY DEF Inv, AllOrNothing, PendingComplete, Seen, HistoryIn, PendingHistory, SnapshotIn, Whole,
     Versions, Snapshots, Both
<1> QED BY <1>1, <1>2

\* Between captures the transaction is what the connection sees.
LEMMA QuietSeen ==
  /\ Inv /\ pc \notin PersistLabels => Writing = {} /\ PendingHistory = Whole(conn)
  /\ Inv' /\ pc' \notin PersistLabels => Writing' = {} /\ PendingHistory' = Whole(conn')
<1>1. Inv /\ pc \notin PersistLabels => Writing = {} /\ PendingHistory = Whole(conn)
  BY InvSeen DEF Seen, Snapshots, Persisting, Writing, Whole, Versions
<1>2. Inv' /\ pc' \notin PersistLabels => Writing' = {} /\ PendingHistory' = Whole(conn')
  BY InvSeen DEF Seen, Snapshots, Persisting, Writing, Whole, Versions
<1> QED BY <1>1, <1>2

\* A replay's row is written on the strength of its stored capture.
ConcludesStored == pc = "replay_row" => stored[job.id] # 0

LEMMA ConcludesStoredInit == Init => ConcludesStored
  BY DEF Init, ConcludesStored

LEMMA NextConcludesStored ==
  ASSUME Inv, ConcludesStored, [Next]_vars
  PROVE  ConcludesStored'
<1>1. CASE CommitRecord
  <2>1. /\ pc = "commit" /\ stored' = [stored EXCEPT ![job.id] = job.rec.ver]
        /\ pc' = "replay_row" => job' = job
    BY <1>1 DEF CommitRecord, Return, Goto
  <2>2. job.id \in Ids /\ job.rec.ver \in Version /\ stored \in Rows
    BY <2>1, JobFacts DEF PersistLabels, Inv, TypeOK
  <2>3. stored'[job.id] # 0
    <3>1. job.rec.ver # 0 /\ stored'[job.id] = job.rec.ver
      BY <2>1, <2>2, BoundsAssumption DEF Rows, Version
    <3> QED BY <3>1
  <2> QED BY <2>1, <2>3 DEF ConcludesStored
<1>2. CASE \/ \E r \in Originals : Capture(r)
           \/ \E r \in Replays, s \in Ids : CaptureReplay(r, s)
  <2>1. PICK r, what, typed, payload, outcome :
          r \in Ids /\ Idle /\ CaptureExecution(r, what, typed, payload, outcome)
    BY <1>2 DEF Capture, CaptureReplay, Ids
  <2>2. pc' = "requests"
    BY <2>1 DEF CaptureExecution, Put, Goto
  <2> QED BY <2>2 DEF ConcludesStored
<1>3. CASE \/ SaveRequest \/ SaveTransitions \/ SaveSchedulerDecisions \/ SaveBatchDecisions
           \/ SaveFailures \/ SaveRecord \/ SaveSummary \/ SaveReplay
           \/ \E o \in Originals, r \in Replays : SaveComparison(o, r)
  <2>1. pc' # "replay_row"
    BY <1>3 DEF SaveRequest, SaveTransitions, SaveSchedulerDecisions, SaveBatchDecisions,
       SaveFailures, SaveRecord, SaveSummary, SaveReplay, SaveComparison, Executed, Goto
  <2> QED BY <2>1 DEF ConcludesStored
<1>4. CASE \/ PersistFails \/ CommitReplay \/ PersistReplayFails \/ CommitComparison
           \/ CompareFails \/ Stop \/ Startup
           \/ \E r \in Ids : DeleteRequest(r)
           \/ \E r \in Replays, s \in Ids : ReplayRaises(r, s)
  <2>1. pc' \in {"idle", "down", "failed_start"}
    BY <1>4 DEF PersistFails, CommitReplay, PersistReplayFails, CommitComparison, CompareFails,
       Stop, Startup, DeleteRequest, ReplayRaises, Return, Goto, Idle, callVars
  <2> QED BY <2>1 DEF ConcludesStored
<1>5. CASE UNCHANGED vars
  BY <1>5 DEF vars, callVars, historyVars, ConcludesStored
<1> QED BY <1>1, <1>2, <1>3, <1>4, <1>5 DEF Next

(* What each step of the store is in the abstract history. *)

\* A step in which nothing of the history changes.
LEMMA SilentStep ==
  ASSUME HistoryIn(db)' = HistoryIn(db), PendingHistory' = PendingHistory,
         Writing' = Writing, Concluding' = Concluding, UNCHANGED <<captured, stored, told>>
  PROVE  UNCHANGED History!vars
  BY DEF History!vars

\* A capture begins its snapshot when it is cached, before its first statement.
LEMMA CaptureBegins ==
  ASSUME NEW r \in Ids, Inv, Inv', Idle, UNCHANGED <<db, conn, stored, told>>,
         captured[r] < MaxVersions, captured' = [captured EXCEPT ![r] = captured[r] + 1],
         pc' = "requests", job'.id = r, job'.rec.ver = captured[r] + 1
  PROVE  History!Begin(r)
<1>1. /\ Writing = {} /\ Concluding = {} /\ Writing' = {r} /\ Concluding' = {}
  BY DEF Writing, Concluding, Idle, PersistLabels
<1>2. captured[r] + 1 \in Version
  BY BoundsAssumption DEF Inv, TypeOK, Rows, Version
<1>3. PendingHistory = Both(Versions(conn), conn.replay_executions)
  BY QuietSeen DEF Idle, PersistLabels, Whole
<1>4. \A u \in Ids : Persisting(u)' <=> u = r
  BY DEF Persisting, PersistLabels
<1>5. Snapshots' = [Versions(conn) EXCEPT ![r] = captured[r] + 1]
  BY <1>4 DEF Snapshots, Versions
<1>6. PendingHistory' = Both(Snapshots', conn.replay_executions)
  BY InvSeen DEF Seen
<1>7. PendingHistory' =
        [PendingHistory EXCEPT !.snapshots = [@ EXCEPT ![r] = captured[r] + 1]]
  <2>1. PICK s, o, x : s = Versions(conn) /\ o = conn.replay_executions /\ x = Snapshots'
    OBVIOUS
  <2>2. /\ PendingHistory = Both(s, o) /\ PendingHistory' = Both(x, o)
        /\ PendingHistory.snapshots = s
    BY <1>3, <1>6, <2>1, EitherChanges
  <2>3. [PendingHistory EXCEPT !.snapshots = x] = Both(x, o)
    BY <2>2, EitherChanges
  <2>4. x = [PendingHistory.snapshots EXCEPT ![r] = captured[r] + 1]
    BY <1>5, <2>1, <2>2
  <2> QED BY <2>2, <2>3, <2>4
<1> QED BY <1>1, <1>2, <1>7 DEF History!Begin, History!Quiescent

\* The seven statements are part of the snapshot that was begun.
LEMMA StatementIsSilent ==
  ASSUME Inv, Inv', pc \in PersistLabels, pc' \in PersistLabels,
         UNCHANGED <<db, job, captured, stored, told>>,
         conn'.replay_executions = conn.replay_executions,
         \A u \in Ids : u # job.id => conn'.execution_records[u] = conn.execution_records[u]
  PROVE  UNCHANGED History!vars
<1>1. Writing' = Writing /\ Concluding' = Concluding
  BY DEF Writing, Concluding, PersistLabels
<1>2. Snapshots' = Snapshots
  BY DEF Snapshots, Persisting
<1>3. PendingHistory' = PendingHistory
  BY <1>2, InvSeen DEF Seen
<1> QED BY <1>1, <1>3, SilentStep

LEMMA StatementsAreSilent ==
  ASSUME Inv, Inv',
         \/ SaveRequest \/ SaveTransitions \/ SaveSchedulerDecisions \/ SaveBatchDecisions
         \/ SaveFailures \/ SaveRecord \/ SaveSummary
  PROVE  UNCHANGED History!vars
<1>1. /\ pc \in PersistLabels /\ pc' \in PersistLabels
      /\ UNCHANGED <<db, job, captured, stored, told>>
  BY DEF SaveRequest, SaveTransitions, SaveSchedulerDecisions, SaveBatchDecisions,
     SaveFailures, SaveRecord, SaveSummary, Executed, Goto, PersistLabels, historyVars
<1>2. conn \in Tables
  BY DEF Inv, TypeOK
<1>3. CASE SaveRecord
  <2>1. /\ conn'.replay_executions = conn.replay_executions
        /\ \A u \in Ids : u # job.id => conn'.execution_records[u] = conn.execution_records[u]
    BY <1>2, <1>3 DEF SaveRecord, Executed, Tables
  <2> QED BY <1>1, <2>1, StatementIsSilent
<1>4. CASE SaveRequest \/ SaveTransitions \/ SaveFailures \/ SaveSummary
  <2>1. /\ conn'.replay_executions = conn.replay_executions
        /\ conn'.execution_records = conn.execution_records
    BY <1>2, <1>4 DEF SaveRequest, SaveTransitions, SaveFailures, SaveSummary, Executed, Tables
  <2> QED BY <1>1, <2>1, StatementIsSilent
<1>5. CASE SaveSchedulerDecisions \/ SaveBatchDecisions
  <2>1. /\ conn'.replay_executions = conn.replay_executions
        /\ conn'.execution_records = conn.execution_records
    BY <1>2, <1>5 DEF SaveSchedulerDecisions, SaveBatchDecisions, Executed, Tables
  <2> QED BY <1>1, <2>1, StatementIsSilent
<1> QED BY <1>3, <1>4, <1>5

\* The commit of a capture makes what the connection sees the history.
LEMMA CommitAcknowledges ==
  ASSUME Inv, Inv', CommitRecord
  PROVE  History!Acknowledge(job.id)
<1>1. /\ pc = "commit" /\ pc \in PersistLabels /\ pc' \in {"idle", "replay_row"}
      /\ db' = conn /\ stored' = [stored EXCEPT ![job.id] = job.rec.ver]
      /\ UNCHANGED <<conn, captured, told>>
  BY DEF CommitRecord, Return, Goto, PersistLabels
<1>2. job.rec.ver = captured[job.id]
  BY <1>1, JobFacts
<1>3. conn.execution_records[job.id].ver = job.rec.ver
  <2>1. conn.execution_records[job.id] = ExecutionRecordToDict(job.rec) /\ job.rec \in Records
    BY <1>1, JobFacts DEF Inv, Written
  <2> QED BY <2>1 DEF ExecutionRecordToDict, Records
<1>4. Snapshots = Versions(conn)
  BY <1>1, <1>3 DEF Snapshots, Versions, Persisting
<1>5. pc' \notin PersistLabels
  BY <1>1 DEF PersistLabels
<1>6. PendingHistory = Whole(conn) /\ PendingHistory' = Whole(conn') /\ HistoryIn(db)' = Whole(db')
  BY <1>4, <1>5, InvSeen, QuietSeen DEF Seen, Whole
<1>7. HistoryIn(db)' = PendingHistory /\ PendingHistory' = PendingHistory
  BY <1>1, <1>6
<1>8. Writing = {job.id} /\ Writing' = {} /\ Concluding = {} /\ Concluding' = {}
  BY <1>1, <1>5 DEF Writing, Concluding
<1> QED BY <1>1, <1>2, <1>7, <1>8 DEF History!Acknowledge

\* A rollback, the end of the process and a startup leave what is in the file.
LEMMA BackToTheFile ==
  ASSUME Inv, Inv', pc' \notin PersistLabels \cup {"replay_commit"},
         conn' = db', db' \in {db, Migrated(db)}
  PROVE  /\ HistoryIn(db)' = HistoryIn(db) /\ PendingHistory' = HistoryIn(db)
         /\ Writing' = {} /\ Concluding' = {}
<1>1. Versions(db') = Versions(db) /\ db'.replay_executions = db.replay_executions
  BY DEF Migrated, Versions, Inv, TypeOK, Tables
<1>2. Whole(db') = Whole(db)
  BY <1>1 DEF Whole
<1>3. HistoryIn(db)' = HistoryIn(db)
  BY <1>2, InvSeen DEF Seen
<1>4. PendingHistory' = Whole(db') /\ Writing' = {}
  BY QuietSeen
<1> QED BY <1>2, <1>3, <1>4, InvSeen DEF Seen, Concluding

LEMMA FaultRollsBack ==
  ASSUME Inv, Inv', PersistFails
  PROVE  History!RollBack(job.id)
<1>1. /\ pc \in PersistLabels /\ pc' = "idle" /\ db' = db /\ conn' = db
      /\ UNCHANGED <<captured, stored>> /\ ToldError(job.id)
  BY DEF PersistFails, Return, Goto
<1>2. /\ HistoryIn(db)' = HistoryIn(db) /\ PendingHistory' = HistoryIn(db)
      /\ Writing' = {} /\ Concluding' = {}
  BY <1>1, BackToTheFile DEF PersistLabels
<1>3. Writing = {job.id} /\ Concluding = {}
  BY <1>1 DEF Writing, Concluding, PersistLabels
<1> QED BY <1>1, <1>2, <1>3 DEF History!RollBack, History!TellsError, ToldError

LEMMA EndLoses ==
  ASSUME Inv, Inv', Stop \/ Startup
  PROVE  History!Lose
<1>1. /\ pc' \in {"down", "idle", "failed_start"} /\ conn' = db' /\ db' \in {db, Migrated(db)}
      /\ UNCHANGED <<captured, stored, told>>
  BY DEF Stop, Startup, Goto, historyVars
<1>2. /\ HistoryIn(db)' = HistoryIn(db) /\ PendingHistory' = HistoryIn(db)
      /\ Writing' = {} /\ Concluding' = {}
  BY <1>1, BackToTheFile DEF PersistLabels
<1> QED BY <1>1, <1>2 DEF History!Lose

\* A step of a call that leaves every table of captures and replays alone.
LEMMA TablesUntouched ==
  ASSUME Inv, Inv', pc \notin PersistLabels, pc' \notin PersistLabels,
         conn'.execution_records = conn.execution_records,
         conn'.replay_executions = conn.replay_executions
  PROVE  /\ PendingHistory' = PendingHistory /\ PendingHistory = Whole(conn)
         /\ Whole(conn') = Whole(conn) /\ Writing = {} /\ Writing' = {}
  BY QuietSeen DEF Whole, Versions

\* The row of a replay, written on the strength of its stored capture.
LEMMA RowConcludes ==
  ASSUME Inv, Inv', ConcludesStored, SaveReplay
  PROVE  \E p \in Replays, o \in Outcomes : History!Conclude(p, o)
<1>1. /\ pc = "replay_row" /\ pc' = "replay_commit" /\ db' = db /\ job' = job
      /\ UNCHANGED <<captured, stored, told>>
      /\ conn' = [conn EXCEPT !.replay_executions[job.id] = job.outcome]
  BY DEF SaveReplay, Executed, Goto, historyVars
<1>2. job.id \in Replays /\ job.outcome \in Outcomes /\ conn \in Tables
  BY <1>1 DEF Inv, TypeOK, ReplayCall, HasJob, CallLabels
<1>3. PICK p \in Replays, o \in Outcomes : p = job.id /\ o = job.outcome
  BY <1>2
<1>4. /\ conn'.execution_records = conn.execution_records
      /\ conn'.replay_executions = [conn.replay_executions EXCEPT ![p] = o]
  BY <1>1, <1>2, <1>3 DEF Tables
<1>5. Writing = {} /\ Writing' = {} /\ Concluding = {} /\ Concluding' = {p}
  BY <1>1, <1>3 DEF Writing, Concluding, PersistLabels
<1>6. PendingHistory = Whole(conn) /\ PendingHistory' = Whole(conn')
  BY <1>1, QuietSeen DEF PersistLabels
<1>7. PendingHistory' = [PendingHistory EXCEPT !.outcomes = [@ EXCEPT ![p] = o]]
  <2>1. PICK s, t, u :
          s = Versions(conn) /\ t = conn.replay_executions /\ u = conn'.replay_executions
    OBVIOUS
  <2>2. Versions(conn') = s
    BY <1>4, <2>1 DEF Versions
  <2>3. /\ PendingHistory = Both(s, t) /\ PendingHistory' = Both(s, u)
        /\ PendingHistory.outcomes = t
    BY <1>6, <2>1, <2>2, EitherChanges DEF Whole
  <2>4. [PendingHistory EXCEPT !.outcomes = u] = Both(s, u)
    BY <2>3, EitherChanges
  <2>5. u = [PendingHistory.outcomes EXCEPT ![p] = o]
    BY <1>4, <2>1, <2>3
  <2> QED BY <2>3, <2>4, <2>5
<1>8. stored[p] # 0
  BY <1>1, <1>3 DEF ConcludesStored
<1>9. History!Conclude(p, o)
  BY <1>1, <1>5, <1>7, <1>8 DEF History!Conclude, History!Quiescent
<1> QED BY <1>9

LEMMA CommitReports ==
  ASSUME Inv, Inv', CommitReplay
  PROVE  job.id \in Replays /\ History!Report(job.id)
<1>1. /\ pc = "replay_commit" /\ pc' = "idle" /\ db' = conn /\ conn' = conn
      /\ told' = [told EXCEPT ![job.id] = job.outcome]
      /\ UNCHANGED <<captured, stored>>
  BY DEF CommitReplay, Return, Goto
<1>2. job.id \in Replays /\ conn.replay_executions[job.id] = job.outcome
  BY <1>1 DEF Inv, ReplayCall, HasJob, CallLabels
<1>3. /\ PendingHistory' = PendingHistory /\ PendingHistory = Whole(conn)
      /\ Writing = {} /\ Writing' = {}
  BY <1>1, TablesUntouched DEF PersistLabels
<1>4. HistoryIn(db)' = PendingHistory
  BY <1>1, <1>3, InvSeen DEF Seen
<1>5. Concluding = {job.id} /\ Concluding' = {}
  BY <1>1 DEF Concluding
<1>6. PendingHistory.outcomes = conn.replay_executions
  BY <1>3, EitherChanges DEF Whole
<1>7. told' = [told EXCEPT ![job.id] = PendingHistory.outcomes[job.id]]
  BY <1>1, <1>2, <1>6
<1> QED BY <1>1, <1>2, <1>3, <1>4, <1>5, <1>7 DEF History!Report

LEMMA FaultFails ==
  ASSUME Inv, Inv', NEW r \in Replays,
         \/ PersistReplayFails /\ job.id = r
         \/ \E s \in Ids : ReplayRaises(r, s)
  PROVE  History!Fail(r)
<1>1. /\ pc \in {"idle", "replay_row", "replay_commit"} /\ pc' = "idle" /\ db' = db /\ conn' = conn
      /\ ToldError(r) /\ UNCHANGED <<captured, stored>>
      /\ pc = "replay_commit" => job.id = r
  BY DEF PersistReplayFails, ReplayRaises, Return, Goto, Idle, callVars
<1>2. PendingHistory' = PendingHistory /\ Writing = {} /\ Writing' = {}
  BY <1>1, TablesUntouched DEF PersistLabels
<1>3. Concluding \subseteq {r} /\ Concluding' = {}
  BY <1>1 DEF Concluding
<1> QED BY <1>1, <1>2, <1>3 DEF History!Fail, History!TellsError, ToldError

\* A comparison is none of the history's business, but its commit takes along
\* what is pending.
LEMMA ComparisonIsSilent ==
  ASSUME Inv, Inv',
         CompareFails \/ \E o \in Originals, r \in Replays : SaveComparison(o, r)
  PROVE  UNCHANGED History!vars
<1>1. /\ pc \in {"idle", "compare_commit"} /\ pc' \in {"idle", "compare_commit"} /\ db' = db
      /\ UNCHANGED <<captured, stored, told>>
      /\ \/ conn' = conn
         \/ \E x : conn' = [conn EXCEPT !.replay_comparisons = x]
  BY DEF CompareFails, SaveComparison, Executed, Return, Goto, Idle, historyVars
<1>2. /\ conn'.execution_records = conn.execution_records
      /\ conn'.replay_executions = conn.replay_executions
  BY <1>1 DEF Inv, TypeOK, Tables
<1>3. PendingHistory' = PendingHistory /\ Writing = {} /\ Writing' = {}
  BY <1>1, <1>2, TablesUntouched DEF PersistLabels
<1>4. Concluding = {} /\ Concluding' = {}
  BY <1>1 DEF Concluding
<1> QED BY <1>1, <1>3, <1>4, SilentStep

LEMMA ComparisonCommits ==
  ASSUME Inv, Inv', CommitComparison
  PROVE  History!Commit
<1>1. /\ pc = "compare_commit" /\ pc' = "idle" /\ db' = conn /\ conn' = conn
      /\ UNCHANGED <<captured, stored, told>>
  BY DEF CommitComparison, Return, Goto, historyVars
<1>2. /\ PendingHistory' = PendingHistory /\ PendingHistory = Whole(conn)
      /\ Writing = {} /\ Writing' = {}
  BY <1>1, TablesUntouched DEF PersistLabels
<1>3. HistoryIn(db)' = PendingHistory
  BY <1>1, <1>2, InvSeen DEF Seen
<1>4. Concluding = {} /\ Concluding' = {}
  BY <1>1 DEF Concluding
<1> QED BY <1>1, <1>2, <1>3, <1>4 DEF History!Commit, History!Quiescent

LEMMA DeletionWithdraws ==
  ASSUME Inv, Inv', NEW r \in Ids, DeleteRequest(r)
  PROVE  History!Withdraw(r)
<1>0. conn \in Tables
  BY DEF Inv, TypeOK
<1>1. /\ pc = "idle" /\ pc' = "idle" /\ db' = db
      /\ stored' = [stored EXCEPT ![r] = 0] /\ UNCHANGED <<captured, told>>
  BY DEF DeleteRequest, Idle, callVars
<1>2. conn' = [conn EXCEPT !.lifecycle_transitions = [@ EXCEPT ![r] = 0],
                          !.scheduler_decisions = [@ EXCEPT ![r] = 0],
                          !.batch_decisions = [@ EXCEPT ![r] = 0],
                          !.failures = {f \in @ : f[1] # r},
                          !.trace_summaries = [@ EXCEPT ![r] = 0],
                          !.execution_records = [@ EXCEPT ![r] = NoRecord],
                          !.requests = [@ EXCEPT ![r] = 0]]
  BY <1>0 DEF DeleteRequest, Tables
<1>3. /\ conn'.execution_records = [conn.execution_records EXCEPT ![r] = NoRecord]
      /\ conn'.replay_executions = conn.replay_executions
  BY <1>0, <1>2 DEF Tables
<1>4. Versions(conn') = [Versions(conn) EXCEPT ![r] = 0]
  <2>1. NoRecord.ver = 0
    BY DEF NoRecord
  <2> QED BY <1>0, <1>3, <2>1 DEF Versions, Tables
<1>5. Writing = {} /\ Writing' = {} /\ Concluding = {} /\ Concluding' = {}
  BY <1>1 DEF Writing, Concluding, PersistLabels
<1>6. PendingHistory = Whole(conn) /\ PendingHistory' = Whole(conn')
  BY <1>1, QuietSeen DEF PersistLabels
<1>7. PendingHistory' = [PendingHistory EXCEPT !.snapshots = [@ EXCEPT ![r] = 0]]
  <2>1. PICK s, o, x :
          s = Versions(conn) /\ o = conn.replay_executions /\ x = Versions(conn')
    OBVIOUS
  <2>2. /\ PendingHistory = Both(s, o) /\ PendingHistory' = Both(x, o)
        /\ PendingHistory.snapshots = s
    BY <1>3, <1>6, <2>1, EitherChanges DEF Whole
  <2>3. [PendingHistory EXCEPT !.snapshots = x] = Both(x, o)
    BY <2>2, EitherChanges
  <2>4. x = [PendingHistory.snapshots EXCEPT ![r] = 0]
    BY <1>4, <2>1, <2>2
  <2> QED BY <2>2, <2>3, <2>4
<1> QED BY <1>1, <1>5, <1>7 DEF History!Withdraw, History!Quiescent

LEMMA InitIsEmptyHistory == Init => History!Init
<1> SUFFICES ASSUME Init PROVE History!Init
  OBVIOUS
<1>1. Inv /\ pc = "down" /\ conn = db /\ db = EmptyTables
  BY InitInv DEF Init
<1>2. Writing = {} /\ Concluding = {} /\ PendingHistory = Whole(db) /\ HistoryIn(db) = Whole(db)
  BY <1>1, QuietSeen, InvSeen DEF PersistLabels, Concluding, Seen
<1>3. Versions(EmptyTables) = History!NoSnapshots
  BY DEF Versions, EmptyTables, NoRecord, History!NoSnapshots
<1>4. EmptyTables.replay_executions = History!NoOutcomes
  BY DEF EmptyTables, History!NoOutcomes
<1>5. Whole(db) = [snapshots |-> History!NoSnapshots, outcomes |-> History!NoOutcomes]
  BY <1>1, <1>3, <1>4 DEF Whole, Both
<1> QED BY <1>2, <1>5 DEF History!Init, Init, NoRows, History!NoSnapshots, History!NoOutcomes

\* Every step of the store is a step of the history, or none.
LEMMA StepsOfHistory ==
  ASSUME Inv, Inv', ConcludesStored, [Next]_vars
  PROVE  [History!Next]_(History!vars)
<1>1. CASE \/ \E r \in Originals : Capture(r)
           \/ \E r \in Replays, s \in Ids : CaptureReplay(r, s)
  <2>1. PICK r, what, typed, payload, outcome :
          r \in Ids /\ Idle /\ CaptureExecution(r, what, typed, payload, outcome)
    BY <1>1 DEF Capture, CaptureReplay, Ids
  <2>2. /\ UNCHANGED <<db, conn, stored, told>> /\ captured[r] < MaxVersions
        /\ captured' = [captured EXCEPT ![r] = captured[r] + 1]
        /\ pc' = "requests" /\ job'.id = r /\ job'.rec.ver = captured[r] + 1
    BY <2>1 DEF CaptureExecution, Put, Goto, historyVars
  <2>3. History!Begin(r)
    BY <2>1, <2>2, CaptureBegins
  <2> QED BY <2>1, <2>3 DEF History!Next
<1>2. CASE \/ SaveRequest \/ SaveTransitions \/ SaveSchedulerDecisions \/ SaveBatchDecisions
           \/ SaveFailures \/ SaveRecord \/ SaveSummary
  BY <1>2, StatementsAreSilent
<1>3. CASE CommitRecord
  <2>1. job.id \in Ids
    BY <1>3, JobFacts DEF CommitRecord, PersistLabels
  <2> QED BY <1>3, <2>1, CommitAcknowledges DEF History!Next
<1>4. CASE PersistFails
  <2>1. job.id \in Ids
    BY <1>4, JobFacts DEF PersistFails
  <2> QED BY <1>4, <2>1, FaultRollsBack DEF History!Next
<1>5. CASE SaveReplay
  BY <1>5, RowConcludes DEF History!Next
<1>6. CASE CommitReplay
  BY <1>6, CommitReports DEF History!Next
<1>7. CASE PersistReplayFails
  <2>1. job.id \in Replays
    BY <1>7 DEF PersistReplayFails, Inv, ReplayCall, HasJob, CallLabels
  <2>2. History!Fail(job.id)
    BY <1>7, <2>1, FaultFails
  <2> QED BY <2>1, <2>2 DEF History!Next
<1>8. CASE \E r \in Replays, s \in Ids : ReplayRaises(r, s)
  <2>1. PICK r \in Replays : \E s \in Ids : ReplayRaises(r, s)
    BY <1>8
  <2>2. History!Fail(r)
    BY <2>1, FaultFails
  <2> QED BY <2>2 DEF History!Next
<1>9. CASE CompareFails \/ \E o \in Originals, r \in Replays : SaveComparison(o, r)
  BY <1>9, ComparisonIsSilent
<1>10. CASE CommitComparison
  BY <1>10, ComparisonCommits DEF History!Next
<1>11. CASE \E r \in Ids : DeleteRequest(r)
  BY <1>11, DeletionWithdraws DEF History!Next
<1>12. CASE Stop \/ Startup
  BY <1>12, EndLoses DEF History!Next
<1>13. CASE UNCHANGED vars
  BY <1>13 DEF vars, callVars, historyVars, History!vars, HistoryIn, PendingHistory, SnapshotIn,
     Persisting, Writing, Concluding
<1> QED BY <1>1, <1>2, <1>3, <1>4, <1>5, <1>6, <1>7, <1>8, <1>9, <1>10, <1>11, <1>12, <1>13
    DEF Next

-----------------------------------------------------------------------------

\* The types, and that the running capture is the newest of its request and the
\* cached one (DurableExecutionRecordStore.put caches before it persists).
THEOREM TypeCorrect == Spec => []TypeOK
<1>1. Inv => TypeOK
  BY DEF Inv
<1> QED BY <1>1, InitInv, NextKeepsInv, PTL DEF Spec

\* persist_execution_record writes seven tables, any statement of it may raise and
\* the process may end between any two: in the file a capture is there as a
\* whole or not at all, also when replay rows and deletions share the connection.
THEOREM CapturesAreAtomic == Spec => []AllOrNothing
<1>1. Inv => AllOrNothing
  BY DEF Inv
<1> QED BY <1>1, InitInv, NextKeepsInv, PTL DEF Spec

\* A capture whose put returned stays in the file until the request is deleted,
\* whatever fails or ends later.
THEOREM StoredStaysDurable == Spec => []StoredIsDurable
<1>1. Inv => StoredIsDurable
  BY DEF Inv
<1> QED BY <1>1, InitInv, NextKeepsInv, PTL DEF Spec

\* The outcome that replay() returned is the outcome on record, although
\* persist_replay_result does not roll back and replay ids may be used again.
THEOREM ReplayOutcomesAreDurable == Spec => []ReplayOutcomeDurable
<1>1. Inv => ReplayOutcomeDurable
  BY DEF Inv
<1> QED BY <1>1, InitInv, NextKeepsInv, PTL DEF Spec

\* Whatever is committed later, by another capture, a replay row or a
\* comparison, no row of a capture that was rolled back or lost reaches the
\* file, and a replay row only ever refers to a committed capture
\* (persist_execution_record rolls back, persist_replay_result does not).
THEOREM NoPhantomRowsEver == Spec => []NoPhantomRows
<1>1. OriginInv => NoPhantomRows
  BY DEF OriginInv, RowsFrom, ReplaysCaptured, NoPhantomRows, ListRecordIds,
     GetSchedulerDecisions, GetBatchDecisions, GetReplay
<1> QED BY <1>1, InitInv, NextKeepsInv, OriginInit, NextKeepsOrigin, PTL DEF Spec

\* DurableExecutionRecordStore.get answers from the cache first: the cache never
\* hides the capture that was stored last, except behind one whose put raised.
THEOREM StoredIsAlwaysServed == Spec => []StoredIsServed
<1>1. Init => CacheIsNewest
  BY DEF Init, CacheIsNewest
<1>2. Inv /\ CacheIsNewest => StoredIsServed
  BY DEF Inv, CacheIsNewest, StoredIsServed, StoredIsPending, StoreGet, Idle, Persisting,
     PersistLabels
<1> QED BY <1>1, <1>2, InitInv, NextKeepsInv, NextKeepsCacheNewest, PTL DEF Spec

\* The store keeps its promise to the gateway and the replay engine: seen through
\* its queries, its statements, commits, rollbacks, faults, restarts and
\* deletions are steps of a history of whole snapshots and told outcomes
\* (DurableExecutionRecordStore and SqliteRuntimeRepository, as one).
THEOREM StoreImplementsDurableHistory == Spec => ImplementsDurableHistory
<1>1. Init /\ [][Next]_vars => [](Inv /\ ConcludesStored)
  BY InitInv, NextKeepsInv, ConcludesStoredInit, NextConcludesStored, PTL
<1>2. Inv /\ Inv' /\ ConcludesStored /\ [Next]_vars => [History!Next]_(History!vars)
  BY StepsOfHistory
<1> QED BY <1>1, <1>2, InitIsEmptyHistory, PTL DEF Spec, ImplementsDurableHistory, History!Spec

=============================================================================
