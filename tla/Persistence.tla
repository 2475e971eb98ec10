---------------------------- MODULE Persistence ----------------------------
(***************************************************************************)
(* The durable runtime history: DurableExecutionRecordStore, an in-memory  *)
(* cache in front of SqliteRuntimeRepository, and what the replay engine   *)
(* writes through them.                                                    *)
(*                                                                         *)
(* All writers are coroutines of the gateway's event loop and none of the  *)
(* calls below awaits, so one call runs at a time.  What can go wrong is   *)
(* a statement or a commit that raises, and the end of the process between *)
(* any two statements.  A table keeps, per request, the number of the      *)
(* capture its rows come from (0: no rows); the n-th capture of a request  *)
(* is its n-th RequestExecutionRecord.                                     *)
(***************************************************************************)
EXTENDS Naturals, FiniteSets

CONSTANTS
  Originals,     \* ids of requests that entered through the gateway
  Replays,       \* replay ids, each also the request id of its replay
  ReplayStates,  \* states in which the execution of a replay may return
  MaxVersions,   \* bound: captures of one request
  MaxFaults,     \* bound: statements and commits that raise
  MaxStops       \* bound: ends of the process

ASSUME IdsAssumption == Originals \cap Replays = {}
ASSUME BoundsAssumption ==
  MaxVersions \in Nat /\ MaxFaults \in Nat /\ MaxStops \in Nat

VARIABLES
  db,          \* the SQLite file: what is committed
  conn,        \* what the one connection sees: committed and pending rows
  cache,       \* ExecutionRecordStore._records
  pc,          \* what the running call does next
  job,         \* the record and the replay the running call is about
  captured,    \* captures made of each request
  traced,      \* what this process's trace of each request has recorded
  faults, stops,
  stored,      \* history: the version whose put last returned, per request
  raised,      \* history: requests whose last put raised
  committed,   \* history: request and version of every commit of a capture
  told         \* history: the outcome replay() returned, per replay id

callVars == <<pc, job>>
boundVars == <<faults, stops>>
historyVars == <<stored, raised, committed, told>>
vars == <<db, conn, cache, callVars, captured, traced, boundVars, historyVars>>

Ids == Originals \cup Replays
Version == 1..MaxVersions

\* The decision tables save_decisions leaves alone when a record has no events.
DecisionKinds == {"scheduler", "batch"}

\* ReplayOutcome, and replay_outcome_from_state: any other state is an error.
Outcomes == {"completed", "failed", "rejected", "timed_out", "error"}
ReplayOutcome(state) == IF state \in Outcomes THEN state ELSE "error"

\* RequestExecutionRecord.  typed: a completion or stream metrics are attached,
\* whose schemas are strict; payload: Python values or what JSON made of them.
Records ==
  [ver : Version, decisions : SUBSET DecisionKinds, failures : BOOLEAN,
   typed : BOOLEAN, payload : {"native", "json"}]

\* What a trace tells a record: which decisions were recorded (a request joins
\* a batch only after it was selected), and whether failures were.
Traces == {t \in [decisions : SUBSET DecisionKinds, failures : BOOLEAN] :
             "batch" \in t.decisions => "scheduler" \in t.decisions}
NoTrace == [decisions |-> {}, failures |-> FALSE]

NoRecord == [ver |-> 0, decisions |-> {}, failures |-> FALSE,
             typed |-> FALSE, payload |-> "native"]

NoJob == [id |-> "none", rec |-> NoRecord, outcome |-> "none"]

NoRows == [r \in Ids |-> 0]

EmptyTables ==
  [schema_migrations |-> 0,
   requests |-> NoRows, lifecycle_transitions |-> NoRows,
   scheduler_decisions |-> NoRows, batch_decisions |-> NoRows,
   trace_summaries |-> NoRows,
   execution_records |-> [r \in Ids |-> NoRecord],
   failures |-> {},
   replay_executions |-> [r \in Replays |-> "none"],
   replay_comparisons |-> {}]

SCHEMA_VERSION == 1

-----------------------------------------------------------------------------
(***************************************************************************)
(* Serialization.  The encoder turns UUIDs and datetimes into strings.     *)
(* On the way back the payload keeps the strings (the submit builder       *)
(* coerces them when the record is replayed); a completion or stream       *)
(* metrics are validated by strict schemas, which refuse strings for UUIDs *)
(* and datetimes, so loading such a record raises.                         *)
(***************************************************************************)

ExecutionRecordToDict(rec) == [rec EXCEPT !.payload = "json"]

ExecutionRecordLoads(row) == ~row.typed

ExecutionRecordFromDict(row) == row

\* The submit builder of a replay, and the snapshot a capture then takes.
NormalizePayload(rec) == [rec EXCEPT !.payload = "native"]

-----------------------------------------------------------------------------
(***************************************************************************)
(* What the repositories read, from committed rows or over the connection. *)
(***************************************************************************)

GetRequest(d, r) == d.requests[r]
GetTransitions(d, r) == d.lifecycle_transitions[r]
GetSchedulerDecisions(d, r) == d.scheduler_decisions[r]
GetBatchDecisions(d, r) == d.batch_decisions[r]
GetSummary(d, r) == d.trace_summaries[r]
GetReplay(d, r) == d.replay_executions[r]
QueryFailuresByRequest(d, r) == {f \in d.failures : f[1] = r}

ListRecordIds(d) == {r \in Ids : d.execution_records[r] # NoRecord}

\* DurableExecutionRecordStore.get.
StoreGet(r) == IF cache[r] # NoRecord THEN cache[r] ELSE conn.execution_records[r]

-----------------------------------------------------------------------------
Up == pc \notin {"down", "failed_start"}
Idle == pc = "idle"

Goto(label) == pc' = label

\* The end of a call: back to the event loop.
Return == Goto("idle") /\ job' = NoJob

(***************************************************************************)
(* Captures.  put caches first and persists then; while persisting, one    *)
(* statement after another goes to the connection and the commit is last.  *)
(***************************************************************************)

\* What replay() answers when anything under it raised.
ToldError(r) == told' = [t \in Replays |-> IF t = r THEN "error" ELSE told[t]]

\* Faulty variant: a record that is already cached is kept.
CachePutIfAbsent(rec, r) ==
  cache' = [cache EXCEPT ![r] = IF @ = NoRecord THEN rec ELSE @]

CachePut(rec, r) == cache' = [cache EXCEPT ![r] = rec]

Put(r, rec, outcome) ==
  /\ CachePut(rec, r)
  /\ Goto("requests")
  /\ job' = [id |-> r, rec |-> rec, outcome |-> outcome]
  /\ captured' = [captured EXCEPT ![r] = rec.ver]
  /\ UNCHANGED <<db, conn, boundVars, historyVars>>

\* capture_execution_record: the events and failures of the process's trace so
\* far, in which the execution has recorded those of what.
CaptureExecution(r, what, typed, payload, outcome) ==
  LET seen == [decisions |-> traced[r].decisions \cup what.decisions,
               failures |-> traced[r].failures \/ what.failures]
  IN /\ captured[r] < MaxVersions
     /\ traced' = [traced EXCEPT ![r] = seen]
     /\ Put(r, [ver |-> captured[r] + 1, decisions |-> seen.decisions,
                failures |-> seen.failures, typed |-> typed, payload |-> payload], outcome)

\* capture_from_entry at the end of a request; and again, after the capture of
\* a stream raised, with the failure this caused.
Capture(r) ==
  /\ Idle
  /\ \/ /\ captured[r] = 0
        /\ \E what \in Traces, t \in BOOLEAN : CaptureExecution(r, what, t, "native", "none")
     \/ /\ r \in raised /\ cache[r].typed
        /\ CaptureExecution(r, [decisions |-> {}, failures |-> TRUE], TRUE, "native", "none")

\* ReplayEngine.replay after the execution: the capture of the replay, which
\* passes on neither completion nor stream metrics.  A caller may choose the
\* replay id, also one it used before.
CaptureReplay(r, s) ==
  /\ Idle
  /\ StoreGet(s) # NoRecord
  /\ \E what \in Traces, state \in ReplayStates :
       /\ what.failures <=> state = "failed"
       /\ CaptureExecution(r, what, FALSE, NormalizePayload(StoreGet(s)).payload,
                           ReplayOutcome(state))

\* The execution of the replay raised.
ReplayRaises(r, s) ==
  /\ Idle
  /\ StoreGet(s) # NoRecord
  /\ ToldError(r)
  /\ UNCHANGED <<db, conn, cache, callVars, captured, traced, boundVars,
                 stored, raised, committed>>

\* One statement of the running call has been executed on the connection.
Executed(tables, label) ==
  /\ conn' = tables
  /\ Goto(label)
  /\ UNCHANGED <<db, cache, job, captured, traced, boundVars, historyVars>>

SaveRequest ==
  /\ pc = "requests"
  /\ Executed([conn EXCEPT !.requests[job.id] = job.rec.ver], "lifecycle")

\* Faulty variant: each repository commits what it saved.
SaveTransitionsCommits ==
  /\ pc = "lifecycle"
  /\ conn' = [conn EXCEPT !.lifecycle_transitions[job.id] = job.rec.ver]
  /\ db' = conn'
  /\ Goto("scheduler")
  /\ UNCHANGED <<cache, job, captured, traced, boundVars, historyVars>>

SaveTransitions ==
  /\ pc = "lifecycle"
  /\ Executed([conn EXCEPT !.lifecycle_transitions[job.id] = job.rec.ver], "scheduler")

SaveSchedulerDecisions ==
  /\ pc = "scheduler"
  /\ Executed(IF "scheduler" \in job.rec.decisions
              THEN [conn EXCEPT !.scheduler_decisions[job.id] = job.rec.ver]
              ELSE conn, "batch")

SaveBatchDecisions ==
  /\ pc = "batch"
  /\ Executed(IF "batch" \in job.rec.decisions
              THEN [conn EXCEPT !.batch_decisions[job.id] = job.rec.ver]
              ELSE conn, "failures")

\* Every failure row has a fresh id, so rows of earlier captures stay.
SaveFailures ==
  /\ pc = "failures"
  /\ Executed(IF job.rec.failures
              THEN [conn EXCEPT !.failures = @ \cup {<<job.id, job.rec.ver>>}]
              ELSE conn, "record")

SaveRecord ==
  /\ pc = "record"
  /\ Executed([conn EXCEPT !.execution_records[job.id] =
                              ExecutionRecordToDict(job.rec)], "summary")

SaveSummary ==
  /\ pc = "summary"
  /\ Executed([conn EXCEPT !.trace_summaries[job.id] = job.rec.ver], "commit")

\* Faulty variant: put returns without a commit.
CommitRecordForgotten ==
  /\ pc = "commit"
  /\ stored' = [stored EXCEPT ![job.id] = job.rec.ver]
  /\ raised' = raised \ {job.id}
  /\ committed' = committed \cup {<<job.id, job.rec.ver>>}
  /\ IF job.outcome = "none" THEN Return ELSE Goto("replay_row") /\ UNCHANGED job
  /\ UNCHANGED <<db, conn, cache, captured, traced, boundVars, told>>

\* The commit; a replay then goes on to its own row.
CommitRecord ==
  /\ pc = "commit"
  /\ db' = conn
  /\ stored' = [stored EXCEPT ![job.id] = job.rec.ver]
  /\ raised' = raised \ {job.id}
  /\ committed' = committed \cup {<<job.id, job.rec.ver>>}
  /\ IF job.outcome = "none" THEN Return ELSE Goto("replay_row") /\ UNCHANGED job
  /\ UNCHANGED <<conn, cache, captured, traced, boundVars, told>>

PersistLabels == {"requests", "lifecycle", "scheduler", "batch", "failures",
                  "record", "summary", "commit"}

\* Faulty variant: a replay goes on to its row although its capture failed.
PersistFailsIgnored ==
  /\ pc \in PersistLabels
  /\ faults < MaxFaults
  /\ faults' = faults + 1
  /\ conn' = db
  /\ raised' = raised \cup {job.id}
  /\ IF job.outcome = "none" THEN Return ELSE Goto("replay_row") /\ UNCHANGED job
  /\ UNCHANGED <<db, cache, captured, traced, stops, stored, committed, told>>

\* A statement or the commit of persist_execution_record raises: rollback.
PersistFails ==
  /\ pc \in PersistLabels
  /\ faults < MaxFaults
  /\ faults' = faults + 1
  /\ conn' = db
  /\ raised' = raised \cup {job.id}
  /\ ToldError(job.id)
  /\ Return
  /\ UNCHANGED <<db, cache, captured, traced, stops, stored, committed>>

-----------------------------------------------------------------------------
(***************************************************************************)
(* Replay rows and comparisons.  Neither is rolled back when the commit    *)
(* raises: the row stays pending and goes with the next commit.            *)
(***************************************************************************)

SaveReplay ==
  /\ pc = "replay_row"
  /\ Executed([conn EXCEPT !.replay_executions[job.id] = job.outcome], "replay_commit")

CommitReplay ==
  /\ pc = "replay_commit"
  /\ db' = conn
  /\ told' = [told EXCEPT ![job.id] = job.outcome]
  /\ Return
  /\ UNCHANGED <<conn, cache, captured, traced, boundVars, stored, raised, committed>>

\* Faulty variant: the outcome of the execution is returned all the same.
PersistReplayFailsSilently ==
  /\ pc \in {"replay_row", "replay_commit"}
  /\ faults < MaxFaults
  /\ faults' = faults + 1
  /\ told' = [told EXCEPT ![job.id] = job.outcome]
  /\ Return
  /\ UNCHANGED <<db, conn, cache, captured, traced, stops, stored, raised, committed>>

PersistReplayFails ==
  /\ pc \in {"replay_row", "replay_commit"}
  /\ faults < MaxFaults
  /\ faults' = faults + 1
  /\ ToldError(job.id)
  /\ Return
  /\ UNCHANGED <<db, conn, cache, captured, traced, stops, stored, raised, committed>>

\* ReplayEngine.compare of two records of the store.
SaveComparison(o, r) ==
  /\ Idle
  /\ StoreGet(o) # NoRecord /\ StoreGet(r) # NoRecord
  /\ <<o, r>> \notin conn.replay_comparisons
  /\ Executed([conn EXCEPT !.replay_comparisons = @ \cup {<<o, r>>}], "compare_commit")

CommitComparison ==
  /\ pc = "compare_commit"
  /\ db' = conn
  /\ Return
  /\ UNCHANGED <<conn, cache, captured, traced, boundVars, historyVars>>

CompareFails ==
  /\ pc = "compare_commit"
  /\ faults < MaxFaults
  /\ faults' = faults + 1
  /\ Return
  /\ UNCHANGED <<db, conn, cache, captured, traced, stops, historyVars>>

\* delete_request does not commit and leaves cache and replays alone.
DeleteRequest(r) ==
  /\ Idle
  /\ GetRequest(conn, r) # 0
  /\ conn' = [conn EXCEPT !.lifecycle_transitions[r] = 0,
                          !.scheduler_decisions[r] = 0,
                          !.batch_decisions[r] = 0,
                          !.failures = {f \in @ : f[1] # r},
                          !.trace_summaries[r] = 0,
                          !.execution_records[r] = NoRecord,
                          !.requests[r] = 0]
  /\ stored' = [stored EXCEPT ![r] = 0]
  /\ UNCHANGED <<db, cache, callVars, captured, traced, boundVars,
                 raised, committed, told>>

-----------------------------------------------------------------------------
(***************************************************************************)
(* The process ends: shutdown closes the connection, or it crashes.        *)
(* Either way only committed rows survive.                                 *)
(***************************************************************************)
Stop ==
  /\ Up
  /\ stops < MaxStops
  /\ stops' = stops + 1
  /\ conn' = db
  /\ cache' = [r \in Ids |-> NoRecord]
  /\ traced' = [r \in Ids |-> NoTrace]
  /\ raised' = {}
  /\ Goto("down") /\ job' = NoJob
  /\ UNCHANGED <<db, captured, faults, stored, committed, told>>

Migrated(d) == [d EXCEPT !.schema_migrations = SCHEMA_VERSION]

\* create_platform_stack with a db_path: connect, migrate and recover.  One
\* record that does not load ends the startup.
Startup ==
  /\ pc = "down"
  /\ db' = Migrated(db)
  /\ conn' = Migrated(db)
  /\ IF \A r \in ListRecordIds(db) : ExecutionRecordLoads(db.execution_records[r])
     THEN /\ cache' = [r \in Ids |-> IF r \in ListRecordIds(db)
                                     THEN ExecutionRecordFromDict(db.execution_records[r])
                                     ELSE cache[r]]
          /\ Goto("idle")
     ELSE Goto("failed_start") /\ UNCHANGED cache
  /\ UNCHANGED <<job, captured, traced, boundVars, historyVars>>

-----------------------------------------------------------------------------
Init ==
  /\ db = EmptyTables /\ conn = EmptyTables
  /\ cache = [r \in Ids |-> NoRecord]
  /\ pc = "down" /\ job = NoJob
  /\ captured = NoRows
  /\ traced = [r \in Ids |-> NoTrace]
  /\ faults = 0 /\ stops = 0
  /\ stored = NoRows
  /\ raised = {} /\ committed = {}
  /\ told = [r \in Replays |-> "none"]

Next ==
  \/ \E r \in Originals : Capture(r)
  \/ \E r \in Replays, s \in Ids : CaptureReplay(r, s) \/ ReplayRaises(r, s)
  \/ SaveRequest \/ SaveTransitions \/ SaveSchedulerDecisions \/ SaveBatchDecisions
  \/ SaveFailures \/ SaveRecord \/ SaveSummary \/ CommitRecord \/ PersistFails
  \/ SaveReplay \/ CommitReplay \/ PersistReplayFails
  \/ \E o \in Originals, r \in Replays : SaveComparison(o, r)
  \/ CommitComparison \/ CompareFails
  \/ \E r \in Ids : DeleteRequest(r)
  \/ Stop \/ Startup

Spec == Init /\ [][Next]_vars

-----------------------------------------------------------------------------
(***************************************************************************)
(* Properties.                                                             *)
(***************************************************************************)

Rows == [Ids -> 0..MaxVersions]

Tables ==
  [schema_migrations : {0, SCHEMA_VERSION},
   requests : Rows, lifecycle_transitions : Rows,
   scheduler_decisions : Rows, batch_decisions : Rows, trace_summaries : Rows,
   execution_records : [Ids -> Records \cup {NoRecord}],
   failures : SUBSET (Ids \X Version),
   replay_executions : [Replays -> Outcomes \cup {"none"}],
   replay_comparisons : SUBSET (Ids \X Ids)]

CallLabels == PersistLabels \cup {"replay_row", "replay_commit", "compare_commit"}

\* The types; and the running call's subject is the newest capture of its
\* request, which is also the cached one.
TypeOK ==
  /\ db \in Tables /\ conn \in Tables
  /\ cache \in [Ids -> Records \cup {NoRecord}]
  /\ pc \in CallLabels \cup {"idle", "down", "failed_start"}
  /\ pc \in CallLabels \ {"compare_commit"} =>
       /\ job \in [id : Ids, rec : Records, outcome : Outcomes \cup {"none"}]
       /\ job.rec.ver = captured[job.id]
       /\ cache[job.id] = job.rec
  /\ captured \in Rows /\ stored \in Rows
  /\ traced \in [Ids -> Traces] /\ raised \subseteq Ids
  /\ committed \subseteq Ids \X Version
  /\ told \in [Replays -> Outcomes \cup {"none"}]
  /\ faults \in 0..MaxFaults /\ stops \in 0..MaxStops

\* What the queries say about one request belongs together.
SnapshotComplete(d, r) ==
  LET rec == d.execution_records[r]
  IN /\ GetRequest(d, r) = rec.ver
     /\ GetTransitions(d, r) = rec.ver
     /\ GetSummary(d, r) = rec.ver
     /\ "scheduler" \in rec.decisions => GetSchedulerDecisions(d, r) = rec.ver
     /\ "batch" \in rec.decisions => GetBatchDecisions(d, r) = rec.ver
     /\ GetSchedulerDecisions(d, r) <= rec.ver /\ GetBatchDecisions(d, r) <= rec.ver
     /\ rec.failures => <<r, rec.ver>> \in d.failures
     /\ \A f \in QueryFailuresByRequest(d, r) : f[2] <= rec.ver

\* Seven tables written one after the other read, in the file, as if each
\* capture had been written at once: a fault or the end of the process between
\* two saves leaves all of a capture's rows or none.
AllOrNothing == \A r \in Ids : SnapshotComplete(db, r)

\* No row of a capture that was rolled back or lost is ever made durable by a
\* later commit of something else, and a replay on record was captured first:
\* no replay row, pending or durable, refers to an execution that never
\* reached the file.
NoPhantomRows ==
  /\ \A r \in ListRecordIds(db) : <<r, db.execution_records[r].ver>> \in committed
  /\ db.failures \subseteq committed
  /\ \A r \in Ids : \A v \in {GetSchedulerDecisions(db, r), GetBatchDecisions(db, r)} :
       v # 0 => <<r, v>> \in committed
  /\ \A r \in Replays : GetReplay(conn, r) # "none" => \E v \in Version : <<r, v>> \in committed

\* A capture whose put returned is durable until it is deleted, across faults
\* of later calls and restarts.
StoredIsDurable ==
  \A r \in Ids : stored[r] # 0 => db.execution_records[r].ver = stored[r]

\* Between calls the store serves the newest capture that was stored, also
\* after a restart; only a capture that raised may shadow it.
StoredIsServed ==
  Idle => \A r \in Ids : stored[r] # 0 /\ r \notin raised => StoreGet(r).ver = stored[r]

\* A replay that was reported with an outcome has exactly this outcome on
\* record; failing to write it is reported as an error.
ReplayOutcomeDurable ==
  \A r \in Replays : told[r] \in Outcomes \ {"error"} => db.replay_executions[r] = told[r]

-----------------------------------------------------------------------------
(***************************************************************************)
(* The abstract history.  A request's rows in seven tables are one of its  *)
(* snapshots, or torn; a capture counts as written from the moment it is   *)
(* begun, statement by statement though it is made.                        *)
(***************************************************************************)
Torn == MaxVersions + 1

SnapshotIn(d, r) == IF SnapshotComplete(d, r) THEN d.execution_records[r].ver ELSE Torn

Persisting(r) == pc \in PersistLabels /\ job.id = r

HistoryIn(d) ==
  [snapshots |-> [r \in Ids |-> SnapshotIn(d, r)], outcomes |-> d.replay_executions]

PendingHistory ==
  [snapshots |-> [r \in Ids |-> IF Persisting(r) THEN job.rec.ver ELSE SnapshotIn(conn, r)],
   outcomes |-> conn.replay_executions]

Writing == IF pc \in PersistLabels THEN {job.id} ELSE {}
Concluding == IF pc = "replay_commit" THEN {job.id} ELSE {}

History == INSTANCE DurableHistory WITH
  Versions <- Version,
  history <- HistoryIn(db),
  open <- PendingHistory,
  made <- captured,
  writing <- Writing,
  concluding <- Concluding,
  acknowledged <- stored

\* Seen through its queries the store is a history of whole snapshots and
\* outcomes: seven saves and a commit are one write, a capture whose put
\* returned is in it until it is deleted, an outcome is written after its
\* replay's capture and told when it is there, and faults or the end of the
\* process lose the open transaction as a whole.
ImplementsDurableHistory == History!Spec

\* docs/architecture/runtime-persistence.md: after a restart recover() reloads
\* execution records into memory.
RecoverySucceeds == pc # "failed_start"
=============================================================================
