----------------------------- MODULE Scheduler -----------------------------
(***************************************************************************)
(* The scheduler process (sched/application.py, loop/runner.py,            *)
(* loop/cycle.py, queue/reader.py): startup, shutdown, the tick loop,      *)
(* cycles in worker threads under one lock, and what they leave in the     *)
(* state that the snapshot shows.  The queue is the control plane's; here  *)
(* it is the environment, as is the batching engine a cycle places         *)
(* requests in.  The clock runs while a cycle reads the queue.             *)
(***************************************************************************)
EXTENDS SchedulerPolicies, SequencesExt

CONSTANTS
  Requests,          \* queued requests
  Class,             \* priority class of a request (after the request's own override)
  Job,               \* estimated input tokens plus max_tokens
  Threads,           \* worker threads of asyncio.to_thread
  NoThread,
  ScanLimit,         \* queue_scan_limit
  MaxCandidates,     \* max_candidate_requests
  \* bounds of the instance
  Loads              \* what a behaviour exercises: the requests that may be
                     \* queued, how many leave the queue, the cycles begun, the
                     \* times the application is started, the clock

ASSUME LimitsPositive == ScanLimit \in Nat \ {0} /\ MaxCandidates \in Nat \ {0}
ASSUME NoThreadIsNone == NoThread \notin Threads

ASSUME LoadsBounded ==
  \A l \in Loads : /\ l.requests \subseteq Requests
                    /\ {l.leaves, l.cycles, l.starts, l.time} \subseteq Nat

Classes == DOMAIN Weight

ASSUME RequestsAssumption == Class \in [Requests -> Classes] /\ Job \in [Requests -> Nat]

VARIABLES
  queue,      \* control plane queue items, in FIFO order
  now,
  policy,     \* the policy the application was built with
  counts,     \* FairnessPolicy._selection_counts
  mode,       \* state.process_mode
  current,    \* whether state.current_cycle is set
  completed,  \* state.total_cycles
  running,    \* application._running
  stopping,   \* a shutdown is inside loop.stop
  task,       \* the loop's task: "none", "sleeping", or the thread it awaits
  thread,     \* per worker thread: what its call of run_cycle is doing
  lock,       \* the thread that holds the runner's lock
  cycle,      \* locals of the cycle that holds it
  last,       \* history: how the latest cycle since startup ended
  served,     \* history: selections per class
  starts, begun, left,
  load        \* one of Loads

queueVars == <<queue, now, left, load>>
processVars == <<running, stopping, task, starts>>
vars == <<queueVars, processVars, policy, counts, mode, current, completed,
          thread, lock, cycle, last, served, begun>>

Items == [id : Requests, class : Classes, job : Nat, enqueued : Nat, arrived : Nat]

NoCycle == [start |-> 0, items |-> <<>>, candidates |-> <<>>, selected |-> <<>>, skipped |-> <<>>]

\* SchedulerState as create_application makes it, before startup.
Init ==
  /\ queue = <<>> /\ now = 0
  /\ policy \in Policies
  /\ counts = [c \in Classes |-> 0]
  /\ mode = "starting" /\ current = FALSE /\ completed = 0
  /\ running = FALSE /\ stopping = FALSE /\ task = "none"
  /\ thread = [t \in Threads |-> "free"]
  /\ lock = NoThread /\ cycle = NoCycle
  /\ last = "none" /\ served = [c \in Classes |-> 0]
  /\ starts = 0 /\ begun = 0 /\ left = 0 /\ load \in Loads

-----------------------------------------------------------------------------
(* The control plane: requests join at the tail and leave from anywhere. *)

Queued == {queue[i].id : i \in DOMAIN queue}

Enqueue(r) ==
  /\ r \in load.requests \ Queued
  /\ \E arrived \in 0..now :
       queue' = Append(queue, [id |-> r, class |-> Class[r], job |-> Job[r],
                               enqueued |-> now, arrived |-> arrived])
  /\ UNCHANGED <<now, left, load, processVars, policy, counts, mode, current, completed,
                 thread, lock, cycle, last, served, begun>>

Leave(r) ==
  /\ left < load.leaves
  /\ \E i \in DOMAIN queue : queue[i].id = r /\ queue' = RemoveAt(queue, i)
  /\ left' = left + 1
  /\ UNCHANGED <<now, load, processVars, policy, counts, mode, current, completed,
                 thread, lock, cycle, last, served, begun>>

Tick ==
  /\ now < load.time
  /\ now' = now + 1
  /\ UNCHANGED <<queue, left, load, processVars, policy, counts, mode, current, completed,
                 thread, lock, cycle, last, served, begun>>

-----------------------------------------------------------------------------
(* The application, on the event loop. *)

\* SchedulerApplication.startup and SchedulerLoop.start; a no-op when running.
Startup ==
  /\ ~running /\ starts < load.starts
  /\ mode' = "accepting" /\ running' = TRUE /\ task' = "sleeping"
  /\ starts' = starts + 1 /\ last' = "none"
  /\ UNCHANGED <<queueVars, stopping, policy, counts, current, completed,
                 thread, lock, cycle, served, begun>>

\* SchedulerApplication.shutdown up to the await of the cancelled task.
\* Cancelling the task abandons its thread, which runs its cycle to the end.
ShutdownBegins ==
  /\ running /\ ~stopping
  /\ stopping' = TRUE /\ task' = "none"
  /\ UNCHANGED <<queueVars, running, starts, policy, counts, mode, current,
                 completed, thread, lock, cycle, last, served, begun>>

ShutdownEnds ==
  /\ stopping
  /\ stopping' = FALSE /\ running' = FALSE /\ mode' = "draining"
  /\ UNCHANGED <<queueVars, task, starts, policy, counts, current, completed,
                 thread, lock, cycle, last, served, begun>>

\* asyncio.to_thread(run_cycle): an idle worker takes the call and waits for the lock.
Submit(t) ==
  /\ thread[t] = "free" /\ begun < load.cycles
  /\ thread' = [thread EXCEPT ![t] = "blocked"]
  /\ begun' = begun + 1

\* SchedulerLoop._run: the tick interval has passed.
LoopTick(t) ==
  /\ task = "sleeping" /\ Submit(t)
  /\ task' = t
  /\ UNCHANGED <<queueVars, running, stopping, starts, policy, counts, mode,
                 current, completed, lock, cycle, last, served>>

\* run_scheduling_cycle, loop.run_once: a manual cycle, running or not.
RunOnce(t) ==
  /\ Submit(t)
  /\ UNCHANGED <<queueVars, processVars, policy, counts, mode, current, completed,
                 lock, cycle, last, served>>

-----------------------------------------------------------------------------
(* A cycle, in its worker thread: SchedulingCycleRunner.run_cycle. *)

Goto(t, place) == thread' = [thread EXCEPT ![t] = place]

BeginCycle(t) ==
  /\ thread[t] = "blocked" /\ lock = NoThread
  /\ lock' = t /\ current' = TRUE /\ mode' = "accepting"
  /\ Goto(t, "listing")
  /\ UNCHANGED <<queueVars, processVars, policy, counts, completed, cycle, last, served, begun>>

ListQueueItems(t) ==
  /\ thread[t] = "listing"
  /\ cycle' = [NoCycle EXCEPT !.start = now,
                              !.items = SubSeq(queue, 1, IF Len(queue) < ScanLimit
                                                         THEN Len(queue) ELSE ScanLimit)]
  /\ Goto(t, "converting")
  /\ UNCHANGED <<queueVars, processVars, policy, counts, mode, current, completed,
                 lock, last, served, begun>>

\* queue_item_to_candidate reads the clock for every item.
Convert(t) ==
  LET position == Len(cycle.candidates) + 1
  IN  /\ thread[t] = "converting" /\ position <= Len(cycle.items)
      /\ cycle' = [cycle EXCEPT !.candidates =
                     Append(@, Candidate(cycle.items[position], position, now))]
      /\ UNCHANGED <<queueVars, processVars, policy, counts, mode, current, completed,
                     thread, lock, last, served, begun>>

Evaluate(t) ==
  LET ordered == Ordered(policy, counts, cycle.candidates)
      selected == SelectedOf(ordered, MaxCandidates)
  IN  /\ thread[t] = "converting" /\ Len(cycle.candidates) = Len(cycle.items)
      /\ cycle' = [cycle EXCEPT !.selected = selected,
                                !.skipped = SkippedOf(ordered, MaxCandidates)]
      /\ counts' = RecordSelections(policy, counts, selected)
      /\ served' = [c \in Classes |-> served[c] + Count(selected, c)]
      /\ Goto(t, "placing")
      /\ UNCHANGED <<queueVars, processVars, policy, mode, current, completed,
                     lock, last, begun>>

\* The placements are the batching engine's affair; then the cycle is recorded.
Complete(t) ==
  /\ thread[t] = "placing"
  /\ completed' = completed + 1 /\ last' = "completed"
  /\ Goto(t, "finally")
  /\ UNCHANGED <<queueVars, processVars, policy, counts, mode, current, lock,
                 cycle, served, begun>>

\* Injected failures before the queue is read, a reader that raises, an exception
\* of the engine at one of the placements: the except clause.
Fail(t) ==
  /\ thread[t] \in {"listing", "placing"}
  /\ mode' = "unavailable" /\ last' = "failed"
  /\ Goto(t, "finally")
  /\ UNCHANGED <<queueVars, processVars, policy, counts, current, completed, lock,
                 cycle, served, begun>>

\* Faulty variant: the mode is written whatever it is.
AfterFinallyAlways == "accepting"

\* The finally clause reads the mode ...
AfterFinally == IF mode = "unavailable" THEN "leaving" ELSE "accepting"

Finally(t) ==
  /\ thread[t] = "finally"
  /\ current' = FALSE
  /\ Goto(t, AfterFinally)
  /\ UNCHANGED <<queueVars, processVars, policy, counts, mode, completed, lock,
                 cycle, last, served, begun>>

\* ... and writes it in a second step, with the event loop free to run in between.
FinallyAccepts(t) ==
  /\ thread[t] = "accepting"
  /\ mode' = "accepting"
  /\ Goto(t, "leaving")
  /\ UNCHANGED <<queueVars, processVars, policy, counts, current, completed, lock,
                 cycle, last, served, begun>>

\* The lock is released and the result returned; the loop goes back to sleep if
\* it still waits for this thread.
EndCycle(t) ==
  /\ thread[t] = "leaving"
  /\ lock' = NoThread /\ cycle' = NoCycle
  /\ Goto(t, "free")
  /\ task' = IF task = t THEN "sleeping" ELSE task
  /\ UNCHANGED <<queueVars, running, stopping, starts, policy, counts, mode,
                 current, completed, last, served, begun>>

-----------------------------------------------------------------------------

CycleStep(t) ==
  \/ ListQueueItems(t) \/ Convert(t) \/ Evaluate(t) \/ Complete(t) \/ Fail(t)
  \/ Finally(t) \/ FinallyAccepts(t) \/ EndCycle(t)

Next ==
  \/ \E r \in Requests : Enqueue(r) \/ Leave(r)
  \/ Tick
  \/ Startup \/ ShutdownBegins \/ ShutdownEnds
  \/ \E t \in Threads : LoopTick(t) \/ RunOnce(t) \/ BeginCycle(t) \/ CycleStep(t)

Spec == Init /\ [][Next]_vars

-----------------------------------------------------------------------------
(* Properties *)

\* Every variable has its type, exactly the thread that holds the lock is inside
\* a cycle, and state.current_cycle is set from its beginning to its finally.
TypeOK ==
  /\ queue \in Seq(Items) /\ Cardinality(Queued) = Len(queue)
  /\ now \in 0..load.time /\ policy \in Policies
  /\ counts \in [Classes -> Nat] /\ served \in [Classes -> Nat]
  /\ mode \in {"starting", "accepting", "draining", "unavailable"}
  /\ current \in BOOLEAN
  /\ current <=> lock # NoThread /\ thread[lock] \notin {"accepting", "leaving"}
  /\ completed \in 0..load.cycles /\ last \in {"none", "completed", "failed"}
  /\ running \in BOOLEAN /\ stopping \in BOOLEAN /\ (stopping => running)
  /\ task \in Threads \cup {"none", "sleeping"}
  /\ lock \in Threads \cup {NoThread}
  /\ \A t \in Threads :
       /\ thread[t] \in {"free", "blocked", "listing", "converting", "placing",
                         "finally", "accepting", "leaving"}
       /\ lock = t <=> thread[t] \notin {"free", "blocked"}

\* How pressing a request is, all measured at one common time.
Pressure(i) == (load.time - i.enqueued) * AgeObjective + (load.time - i.arrived) * QueueObjective

\* Of two requests in one scan the policy never selects the wrong one, judged by
\* the queue itself and not by the candidates: fifo by who was queued first,
\* shortest job first by size, latency aware by waiting time and age.  Every
\* candidate reads the clock for itself, so a later one may appear to have
\* waited longer, but by no more than the scan took; an earlier one never does.
PolicyHonoured ==
  /\ TypeOK
  /\ \A a \in DOMAIN cycle.selected, b \in DOMAIN cycle.skipped :
       LET s == cycle.selected[a].position
           k == cycle.skipped[b].position
           is == cycle.items[s]
           ik == cycle.items[k]
       IN  CASE policy = "fifo" -> s < k /\ is.enqueued <= ik.enqueued
             [] policy = "shortest_job_first" -> is.job < ik.job \/ (is.job = ik.job /\ s < k)
             [] policy = "latency_aware" ->
                  Pressure(is) + (IF s < k THEN 0
                                  ELSE (now - cycle.start) * (AgeObjective + QueueObjective))
                    >= Pressure(ik)
             [] policy = "fairness" -> is.class = ik.class /\ s > k
                                         => cycle.candidates[s].wait > cycle.candidates[k].wait

\* Under the fairness policy no class gets ahead of one that is waiting: when a
\* cycle selects a request of class a and skips one of class b, the selections
\* of a so far, per unit of weight, exceed those of b by at most the selections
\* of one cycle.  Cycles that fail after the selection count as well.
FairShare ==
  policy = "fairness" =>
    \A i \in DOMAIN cycle.selected, j \in DOMAIN cycle.skipped :
      LET a == cycle.selected[i].class
          b == cycle.skipped[j].class
      IN  served[a] * Weight[b] <= served[b] * Weight[a] + MaxCandidates * Weight[b]

\* While the scheduler runs and no cycle is under way, the process mode in the
\* snapshot is UNAVAILABLE exactly when the latest cycle since startup failed,
\* whatever shutdowns, restarts and surviving cycle threads came before.
ModeTellsLastCycle ==
  running /\ lock = NoThread => (mode = "unavailable") = (last = "failed")

\* docs/contracts/state-models.md lists draining -> accepting among the invalid
\* transitions without operator action.  A restart is one, and a cycle that is
\* begun by hand is taken for one; the end of an old cycle is none.
DrainingIsFinal ==
  [][mode = "draining" /\ mode' = "accepting"
       => starts' = starts + 1 \/ (~current /\ current')]_vars

=============================================================================
