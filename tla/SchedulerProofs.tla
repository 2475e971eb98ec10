-------------------------- MODULE SchedulerProofs --------------------------
(***************************************************************************)
(* Proofs about the scheduler process, for any number of worker threads,   *)
(* requests, cycles and restarts: cycles exclude each other, and the       *)
(* process mode in the snapshot tells how the latest cycle ended.          *)
(***************************************************************************)
EXTENDS Scheduler, FiniteSetTheorems, FunctionTheorems, SequenceTheorems, TLAPS

Outside == {"free", "blocked"}
Working == {"listing", "converting", "placing"}
Ending  == {"finally", "leaving"}
Places  == Outside \cup Working \cup Ending \cup {"accepting"}

\* Exactly the thread that holds the runner's lock is inside run_cycle.
LockHeld ==
  /\ thread \in [Threads -> Places]
  /\ lock \in Threads \cup {NoThread}
  /\ \A t \in Threads : (lock = t) <=> (thread[t] \notin Outside)

\* Shutdown is entered from a running application only.
StopsRunning == stopping \in BOOLEAN /\ running \in BOOLEAN /\ (stopping => running)

Truthful == (mode = "unavailable") <=> (last = "failed")

\* What the mode is while a cycle is under way.  Before the cycle has an outcome
\* it is not UNAVAILABLE.  From the outcome on it tells the outcome, except
\* between the two halves of the finally clause, where a shutdown and a restart
\* may have written it in between; there it is enough that the cycle to be
\* reported did not fail, because ACCEPTING is what is written next.
ModeInCycle ==
  /\ \A t \in Threads : thread[t] \in Working => mode # "unavailable"
  /\ running =>
       /\ \A t \in Threads : /\ thread[t] \in Ending => Truthful
                             /\ thread[t] = "accepting" => last # "failed"
       /\ lock = NoThread => Truthful

Inv == LockHeld /\ StopsRunning /\ ModeInCycle

LEMMA InitInv == Init => Inv
  BY NoThreadIsNone DEF Init, Inv, LockHeld, StopsRunning, ModeInCycle, Truthful,
     Outside, Working, Ending, Places

\* Steps that touch none of the variables of the invariant.
LEMMA FrameKeepsInv ==
  Inv /\ UNCHANGED <<thread, lock, mode, last, running, stopping>> => Inv'
  BY DEF Inv, LockHeld, StopsRunning, ModeInCycle, Truthful

\* The event loop: startup and the two halves of shutdown write the mode at any
\* point of a cycle.
LEMMA ApplicationKeepsInv ==
  Inv /\ (Startup \/ ShutdownBegins \/ ShutdownEnds) => Inv'
<1>1. Inv /\ Startup => Inv'
  BY DEF Startup, Inv, LockHeld, StopsRunning, ModeInCycle, Truthful
<1>2. Inv /\ ShutdownBegins => Inv'
  BY DEF ShutdownBegins, Inv, LockHeld, StopsRunning, ModeInCycle, Truthful
<1>3. Inv /\ ShutdownEnds => Inv'
  BY DEF ShutdownEnds, Inv, LockHeld, StopsRunning, ModeInCycle, Truthful
<1> QED BY <1>1, <1>2, <1>3

\* A call is handed to a free worker, which waits outside the lock.
LEMMA SubmitKeepsInv ==
  ASSUME NEW t \in Threads, Inv, LoopTick(t) \/ RunOnce(t)
  PROVE  Inv'
<1>1. /\ thread[t] = "free" /\ thread' = [thread EXCEPT ![t] = "blocked"]
      /\ UNCHANGED <<lock, mode, last, running, stopping>>
  BY DEF LoopTick, RunOnce, Submit, processVars
<1>2. \A u \in Threads : thread'[u] = IF u = t THEN "blocked" ELSE thread[u]
  BY <1>1 DEF Inv, LockHeld
<1>3. LockHeld'
  BY <1>1, <1>2 DEF Inv, LockHeld, Places, Outside
<1>4. StopsRunning'
  BY <1>1 DEF Inv, StopsRunning
<1>5. ModeInCycle'
  BY <1>1, <1>2 DEF Inv, ModeInCycle, Truthful, Working, Ending
<1> QED BY <1>3, <1>4, <1>5 DEF Inv

\* The holder of the lock moves from one place inside the cycle to another.
LEMMA MoveKeepsLock ==
  ASSUME NEW t \in Threads, NEW place \in Places \ Outside, LockHeld,
         thread[t] \notin Outside, Goto(t, place), UNCHANGED lock
  PROVE  /\ LockHeld'
         /\ lock = t
         /\ \A u \in Threads : IF u = t THEN thread'[u] = place
                               ELSE thread'[u] = thread[u] /\ thread[u] \in Outside
  BY DEF LockHeld, Goto, Outside

\* Every step of a thread inside run_cycle.
LEMMA CycleKeepsInv ==
  ASSUME NEW t \in Threads, Inv, BeginCycle(t) \/ CycleStep(t)
  PROVE  Inv'
<1> USE DEF Inv
<1>0. LockHeld /\ StopsRunning /\ ModeInCycle /\ NoThread \notin Threads
  BY NoThreadIsNone
<1>1. CASE BeginCycle(t)
  <2>1. /\ thread[t] = "blocked" /\ lock = NoThread /\ lock' = t /\ mode' = "accepting"
        /\ thread' = [thread EXCEPT ![t] = "listing"]
        /\ UNCHANGED <<last, running, stopping>>
    BY <1>1 DEF BeginCycle, Goto, processVars
  <2>2. \A u \in Threads : IF u = t THEN thread'[u] = "listing"
                           ELSE thread'[u] = thread[u] /\ thread[u] \in Outside
    BY <1>0, <2>1 DEF LockHeld
  <2>3. LockHeld'
    BY <1>0, <2>1, <2>2 DEF LockHeld, Places, Working, Outside
  <2>4. ModeInCycle'
    BY <1>0, <2>1, <2>2 DEF ModeInCycle, Truthful, Working, Ending, Outside
  <2> QED BY <1>0, <2>1, <2>3, <2>4 DEF StopsRunning
<1>2. CASE ListQueueItems(t)
  <2>1. /\ thread[t] = "listing" /\ Goto(t, "converting")
        /\ UNCHANGED <<lock, mode, last, running, stopping>>
    BY <1>2 DEF ListQueueItems, processVars
  <2>2. /\ LockHeld' /\ lock = t
        /\ \A u \in Threads : IF u = t THEN thread'[u] = "converting"
                              ELSE thread'[u] = thread[u] /\ thread[u] \in Outside
    BY <1>0, <2>1, MoveKeepsLock DEF Places, Outside, Working
  <2>3. ModeInCycle'
    BY <1>0, <2>1, <2>2 DEF ModeInCycle, Truthful, Working, Ending, Outside
  <2> QED BY <1>0, <2>1, <2>2, <2>3 DEF StopsRunning
<1>3. CASE Convert(t)
  BY <1>3, FrameKeepsInv DEF Convert, processVars
<1>4. CASE Evaluate(t)
  <2>1. /\ thread[t] = "converting" /\ Goto(t, "placing")
        /\ UNCHANGED <<lock, mode, last, running, stopping>>
    BY <1>4 DEF Evaluate, processVars
  <2>2. /\ LockHeld' /\ lock = t
        /\ \A u \in Threads : IF u = t THEN thread'[u] = "placing"
                              ELSE thread'[u] = thread[u] /\ thread[u] \in Outside
    BY <1>0, <2>1, MoveKeepsLock DEF Places, Outside, Working
  <2>3. ModeInCycle'
    BY <1>0, <2>1, <2>2 DEF ModeInCycle, Truthful, Working, Ending, Outside
  <2> QED BY <1>0, <2>1, <2>2, <2>3 DEF StopsRunning
<1>5. CASE Complete(t)
  <2>1. /\ thread[t] = "placing" /\ Goto(t, "finally") /\ last' = "completed"
        /\ UNCHANGED <<lock, mode, running, stopping>>
    BY <1>5 DEF Complete, processVars
  <2>2. /\ LockHeld' /\ lock = t
        /\ \A u \in Threads : IF u = t THEN thread'[u] = "finally"
                              ELSE thread'[u] = thread[u] /\ thread[u] \in Outside
    BY <1>0, <2>1, MoveKeepsLock DEF Places, Outside, Ending
  <2>3. ModeInCycle'
    BY <1>0, <2>1, <2>2 DEF ModeInCycle, Truthful, Working, Ending, Outside
  <2> QED BY <1>0, <2>1, <2>2, <2>3 DEF StopsRunning
<1>6. CASE Fail(t)
  <2>1. /\ thread[t] \in Working /\ Goto(t, "finally")
        /\ last' = "failed" /\ mode' = "unavailable"
        /\ UNCHANGED <<lock, running, stopping>>
    BY <1>6 DEF Fail, processVars, Working
  <2>2. /\ LockHeld' /\ lock = t
        /\ \A u \in Threads : IF u = t THEN thread'[u] = "finally"
                              ELSE thread'[u] = thread[u] /\ thread[u] \in Outside
    BY <1>0, <2>1, MoveKeepsLock DEF Places, Outside, Ending, Working
  <2>3. ModeInCycle'
    BY <1>0, <2>1, <2>2 DEF ModeInCycle, Truthful, Working, Ending, Outside
  <2> QED BY <1>0, <2>1, <2>2, <2>3 DEF StopsRunning
<1>7. CASE Finally(t)
  <2>1. /\ thread[t] = "finally" /\ Goto(t, AfterFinally)
        /\ UNCHANGED <<lock, mode, last, running, stopping>>
        /\ AfterFinally = IF mode = "unavailable" THEN "leaving" ELSE "accepting"
    BY <1>7 DEF Finally, AfterFinally, processVars
  <2>2. /\ LockHeld' /\ lock = t
        /\ \A u \in Threads : IF u = t THEN thread'[u] = AfterFinally
                              ELSE thread'[u] = thread[u] /\ thread[u] \in Outside
    BY <1>0, <2>1, MoveKeepsLock DEF Places, Outside, Ending
  <2>3. ModeInCycle'
    BY <1>0, <2>1, <2>2 DEF ModeInCycle, Truthful, Working, Ending, Outside
  <2> QED BY <1>0, <2>1, <2>2, <2>3 DEF StopsRunning
<1>8. CASE FinallyAccepts(t)
  <2>1. /\ thread[t] = "accepting" /\ Goto(t, "leaving") /\ mode' = "accepting"
        /\ UNCHANGED <<lock, last, running, stopping>>
    BY <1>8 DEF FinallyAccepts, processVars
  <2>2. /\ LockHeld' /\ lock = t
        /\ \A u \in Threads : IF u = t THEN thread'[u] = "leaving"
                              ELSE thread'[u] = thread[u] /\ thread[u] \in Outside
    BY <1>0, <2>1, MoveKeepsLock DEF Places, Outside, Ending
  <2>3. ModeInCycle'
    BY <1>0, <2>1, <2>2 DEF ModeInCycle, Truthful, Working, Ending, Outside
  <2> QED BY <1>0, <2>1, <2>2, <2>3 DEF StopsRunning
<1>9. CASE EndCycle(t)
  <2>1. /\ thread[t] = "leaving" /\ lock' = NoThread
        /\ thread' = [thread EXCEPT ![t] = "free"]
        /\ UNCHANGED <<mode, last, running, stopping>>
    BY <1>9 DEF EndCycle, Goto
  <2>2. \A u \in Threads : IF u = t THEN thread'[u] = "free"
                           ELSE thread'[u] = thread[u] /\ thread[u] \in Outside
    BY <1>0, <2>1 DEF LockHeld, Outside
  <2>3. LockHeld'
    BY <1>0, <2>1, <2>2 DEF LockHeld, Places, Outside
  <2>4. ModeInCycle'
    BY <1>0, <2>1, <2>2 DEF ModeInCycle, Truthful, Working, Ending, Outside
  <2> QED BY <1>0, <2>1, <2>3, <2>4 DEF StopsRunning
<1> QED BY <1>1, <1>2, <1>3, <1>4, <1>5, <1>6, <1>7, <1>8, <1>9 DEF CycleStep

LEMMA NextKeepsInv == Inv /\ [Next]_vars => Inv'
<1> SUFFICES ASSUME Inv, [Next]_vars PROVE Inv'
  OBVIOUS
<1>1. CASE \E r \in Requests : Enqueue(r) \/ Leave(r)
  BY <1>1, FrameKeepsInv DEF Enqueue, Leave, processVars
<1>2. CASE Tick
  BY <1>2, FrameKeepsInv DEF Tick, processVars
<1>3. CASE Startup \/ ShutdownBegins \/ ShutdownEnds
  BY <1>3, ApplicationKeepsInv
<1>4. CASE \E t \in Threads : LoopTick(t) \/ RunOnce(t) \/ BeginCycle(t) \/ CycleStep(t)
  BY <1>4, SubmitKeepsInv, CycleKeepsInv
<1>5. CASE UNCHANGED vars
  BY <1>5, FrameKeepsInv DEF vars, processVars
<1> QED BY <1>1, <1>2, <1>3, <1>4, <1>5 DEF Next

\* At most one thread is inside run_cycle, and it holds the lock (loop/cycle.py,
\* _run_cycle_locked), whatever cycles are begun by hand, by the tick loop or
\* survive a shutdown.
CyclesExclude ==
  \A t, u \in Threads : thread[t] \notin Outside /\ thread[u] \notin Outside => t = u

THEOREM CyclesAreExclusive == Spec => []CyclesExclude
<1>1. Inv => CyclesExclude
  BY DEF Inv, LockHeld, CyclesExclude
<1> QED BY <1>1, InitInv, NextKeepsInv, PTL DEF Spec

\* While the scheduler runs and no cycle is under way, the process mode is
\* UNAVAILABLE exactly when the latest cycle since startup failed, although
\* _run_cycle_locked reads and writes it in two steps with startup and shutdown
\* free to run in between.
THEOREM ModeIsTruthful == Spec => []ModeTellsLastCycle
<1>1. Inv => ModeTellsLastCycle
  BY DEF Inv, ModeInCycle, Truthful, ModeTellsLastCycle
<1> QED BY <1>1, InitInv, NextKeepsInv, PTL DEF Spec

-----------------------------------------------------------------------------
(***************************************************************************)
(* The order of a policy.                                                  *)
(***************************************************************************)
Candidates ==
  [id : Requests, position : Nat, class : Classes, job : Nat, wait : Int, age : Int]

\* The candidates of a scan are numbered in its order.
Numbered(c) == \A i \in DOMAIN c : c[i].position = i

\* When the items of a scan were queued, and when a candidate was made of one.
InOrder(q) == \A i, j \in DOMAIN q : i < j => q[i].enqueued <= q[j].enqueued
ReadAt(p) == cycle.candidates[p].wait + cycle.items[p].enqueued

\* The order among two numbers of selections x and y per unit of weight u and v.
LEMMA RatiosChain ==
  \A x, y, z \in Nat, u, v, w \in Nat \ {0} :
    x * v <= y * u /\ y * w <= z * v =>
      /\ x * w <= z * u
      /\ x * v < y * u \/ y * w < z * v => x * w < z * u
<1> TAKE x, y, z \in Nat, u, v, w \in Nat \ {0}
<1> HAVE x * v <= y * u /\ y * w <= z * v
<1> DEFINE xv == x * v
           yu == y * u
           yw == y * w
           zv == z * v
           xw == x * w
           zu == z * u
<1>1. /\ xv \in Int /\ yu \in Int /\ yw \in Int /\ zv \in Int /\ xw \in Int /\ zu \in Int
      /\ xv * w = xw * v /\ yu * w = yw * u /\ zv * u = zu * v
  OBVIOUS
<1> HIDE DEF xv, yu, yw, zv, xw, zu
<1>2. \A i, j \in Int, k \in Nat \ {0} :
        /\ i <= j => i * k <= j * k
        /\ i < j => i * k < j * k
  OBVIOUS
<1>3. xv <= yu /\ yw <= zv
  BY DEF xv, yu, yw, zv
<1>4. xv * w <= yu * w /\ yw * u <= zv * u
  BY <1>1, <1>2, <1>3
<1>5. xw * v <= zu * v
  <2> HIDE <1>3
  <2>1. /\ xw * v \in Int /\ zu * v \in Int /\ yw * u \in Int
    BY <1>1
  <2> QED BY <1>1, <1>4, <2>1
<1>6. xw <= zu
  BY <1>1, <1>2, <1>5
<1>7. ASSUME xv < yu \/ yw < zv PROVE xw < zu
  <2>1. xv * w < yu * w \/ yw * u < zv * u
    BY <1>1, <1>2, <1>7
  <2>2. xw * v < zu * v
    <3>1. /\ xw * v \in Int /\ zu * v \in Int /\ yw * u \in Int
      BY <1>1
    <3> QED BY <1>1, <1>4, <2>1, <3>1
  <2>3. xw # zu
    BY <1>1, <2>2
  <2> QED BY <1>1, <1>6, <2>3
<1> QED BY <1>6, <1>7 DEF xv, yu, yw, zv, xw, zu

LEMMA CandidateTyped ==
  ASSUME NEW c \in Seq(Candidates), NEW i \in DOMAIN c
  PROVE  /\ c[i].position \in Nat /\ c[i].class \in Classes /\ c[i].job \in Nat
         /\ c[i].wait \in Int /\ c[i].age \in Int /\ Score(c[i]) \in Int
         /\ Weight[c[i].class] \in Nat \ {0}
<1>1. c[i] \in Candidates
  BY LenProperties
<1>2. /\ c[i].position \in Nat /\ c[i].class \in Classes /\ c[i].job \in Nat
      /\ c[i].wait \in Int /\ c[i].age \in Int
  BY <1>1 DEF Candidates
<1>3. Score(c[i]) \in Int
  BY <1>2, ObjectivesPositive DEF Score
<1> QED BY <1>2, <1>3, WeightsPositive DEF Classes

\* Every policy puts its candidates into a strict total order.
LEMMA BeforeIsOrder ==
  ASSUME NEW p \in Policies, NEW h \in [Classes -> Nat],
         NEW c \in Seq(Candidates), Numbered(c)
  PROVE  /\ \A i \in DOMAIN c : ~Before(p, h, c[i], c[i])
         /\ \A i, j \in DOMAIN c :
              i # j => Before(p, h, c[i], c[j]) \/ Before(p, h, c[j], c[i])
         /\ \A i, j, k \in DOMAIN c :
              Before(p, h, c[i], c[j]) /\ Before(p, h, c[j], c[k]) => Before(p, h, c[i], c[k])
<1>0. \A i \in DOMAIN c :
        /\ c[i].position = i /\ i \in Nat
        /\ c[i].class \in Classes /\ c[i].job \in Nat /\ c[i].wait \in Int
        /\ Score(c[i]) \in Int
  BY CandidateTyped DEF Numbered
<1>1. CASE p = "fifo"
  BY <1>0, <1>1 DEF Before, FifoBefore
<1>2. CASE p = "shortest_job_first"
  BY <1>0, <1>2 DEF Before, SjfBefore, FifoBefore
<1>3. CASE p = "latency_aware"
  BY <1>0, <1>3 DEF Before, LatencyBefore, FifoBefore
<1>4. CASE p = "fairness"
  <2> DEFINE Ratio(i, j) == h[c[i].class] * Weight[c[j].class]
  <2>1. \A i, j \in DOMAIN c : Ratio(i, j) \in Int
    <3>1. \A i \in DOMAIN c : h[c[i].class] \in Int /\ Weight[c[i].class] \in Int
      BY CandidateTyped
    <3> QED BY <3>1
  <2>2. \A i, j, k \in DOMAIN c :
          Ratio(i, j) <= Ratio(j, i) /\ Ratio(j, k) <= Ratio(k, j) =>
            /\ Ratio(i, k) <= Ratio(k, i)
            /\ Ratio(i, j) < Ratio(j, i) \/ Ratio(j, k) < Ratio(k, j)
                 => Ratio(i, k) < Ratio(k, i)
    <3> SUFFICES ASSUME NEW i \in DOMAIN c, NEW j \in DOMAIN c, NEW k \in DOMAIN c,
                        Ratio(i, j) <= Ratio(j, i), Ratio(j, k) <= Ratio(k, j)
                 PROVE  /\ Ratio(i, k) <= Ratio(k, i)
                        /\ Ratio(i, j) < Ratio(j, i) \/ Ratio(j, k) < Ratio(k, j)
                             => Ratio(i, k) < Ratio(k, i)
      OBVIOUS
    <3>1. /\ h[c[i].class] \in Nat /\ h[c[j].class] \in Nat /\ h[c[k].class] \in Nat
          /\ Weight[c[i].class] \in Nat \ {0} /\ Weight[c[j].class] \in Nat \ {0}
          /\ Weight[c[k].class] \in Nat \ {0}
      BY CandidateTyped
    <3>2. PICK x, y, z \in Nat, u, v, w \in Nat \ {0} :
            /\ x = h[c[i].class] /\ y = h[c[j].class] /\ z = h[c[k].class]
            /\ u = Weight[c[i].class] /\ v = Weight[c[j].class] /\ w = Weight[c[k].class]
      BY <3>1
    <3>3. /\ Ratio(i, j) = x * v /\ Ratio(j, i) = y * u /\ Ratio(j, k) = y * w
          /\ Ratio(k, j) = z * v /\ Ratio(i, k) = x * w /\ Ratio(k, i) = z * u
      BY <3>2
    <3> HIDE DEF Ratio
    <3>4. x * v <= y * u /\ y * w <= z * v
             => /\ x * w <= z * u
                /\ x * v < y * u \/ y * w < z * v => x * w < z * u
      BY RatiosChain, Zenon
    <3> QED BY <3>3, <3>4
  <2>3. \A i, j \in DOMAIN c :
          Before(p, h, c[i], c[j]) <=>
            \/ Ratio(i, j) < Ratio(j, i)
            \/ Ratio(i, j) = Ratio(j, i) /\ c[i].wait > c[j].wait
            \/ Ratio(i, j) = Ratio(j, i) /\ c[i].wait = c[j].wait /\ i < j
    BY <1>0, <1>4 DEF Before, FairBefore, LowerRatio, EqualRatio, FifoBefore
  <2> HIDE DEF Ratio
  <2>4. \A i \in DOMAIN c : ~Before(p, h, c[i], c[i])
    BY <1>0, <2>1, <2>3
  <2>5. \A i, j \in DOMAIN c :
          i # j => Before(p, h, c[i], c[j]) \/ Before(p, h, c[j], c[i])
    <3> SUFFICES ASSUME NEW i \in DOMAIN c, NEW j \in DOMAIN c, i # j
                 PROVE  Before(p, h, c[i], c[j]) \/ Before(p, h, c[j], c[i])
      OBVIOUS
    <3>1. /\ i \in Nat /\ j \in Nat /\ c[i].wait \in Int /\ c[j].wait \in Int
          /\ Ratio(i, j) \in Int /\ Ratio(j, i) \in Int
      BY <1>0, <2>1
    <3> QED BY <2>3, <3>1
  <2>6. \A i, j, k \in DOMAIN c :
          Before(p, h, c[i], c[j]) /\ Before(p, h, c[j], c[k]) => Before(p, h, c[i], c[k])
    <3> SUFFICES ASSUME NEW i \in DOMAIN c, NEW j \in DOMAIN c, NEW k \in DOMAIN c,
                        Before(p, h, c[i], c[j]), Before(p, h, c[j], c[k])
                 PROVE  Before(p, h, c[i], c[k])
      OBVIOUS
    <3>1. /\ i \in Nat /\ j \in Nat /\ k \in Nat
          /\ c[i].wait \in Int /\ c[j].wait \in Int /\ c[k].wait \in Int
          /\ Ratio(i, j) \in Int /\ Ratio(j, i) \in Int /\ Ratio(j, k) \in Int
          /\ Ratio(k, j) \in Int /\ Ratio(i, k) \in Int /\ Ratio(k, i) \in Int
      BY <1>0, <2>1
    <3>2. \/ Ratio(i, j) < Ratio(j, i)
          \/ Ratio(i, j) = Ratio(j, i) /\ c[i].wait > c[j].wait
          \/ Ratio(i, j) = Ratio(j, i) /\ c[i].wait = c[j].wait /\ i < j
      BY <2>3
    <3>3. \/ Ratio(j, k) < Ratio(k, j)
          \/ Ratio(j, k) = Ratio(k, j) /\ c[j].wait > c[k].wait
          \/ Ratio(j, k) = Ratio(k, j) /\ c[j].wait = c[k].wait /\ j < k
      BY <2>3
    <3>4. /\ Ratio(i, j) <= Ratio(j, i) /\ Ratio(j, k) <= Ratio(k, j)
          /\ Ratio(i, k) <= Ratio(k, i)
          /\ Ratio(i, j) < Ratio(j, i) \/ Ratio(j, k) < Ratio(k, j)
               => Ratio(i, k) < Ratio(k, i)
      BY <2>2, <3>1, <3>2, <3>3
    <3>5. \/ Ratio(i, k) < Ratio(k, i)
          \/ Ratio(i, k) = Ratio(k, i) /\ c[i].wait > c[k].wait
          \/ Ratio(i, k) = Ratio(k, i) /\ c[i].wait = c[k].wait /\ i < k
      BY <3>1, <3>2, <3>3, <3>4
    <3> QED BY <2>3, <3>5
  <2> QED BY <2>4, <2>5, <2>6
<1> QED BY <1>1, <1>2, <1>3, <1>4 DEF Policies

\* Those that go before candidate i.
Ahead(p, h, c, i) == {j \in DOMAIN c : Before(p, h, c[j], c[i])}

LEMMA PlaceInRange ==
  ASSUME NEW p \in Policies, NEW h \in [Classes -> Nat],
         NEW c \in Seq(Candidates), Numbered(c), NEW i \in DOMAIN c
  PROVE  1 + Cardinality(Ahead(p, h, c, i)) \in 1 .. Len(c)
<1>1. Len(c) \in Nat /\ DOMAIN c = 1 .. Len(c)
  BY LenProperties
<1>2. IsFiniteSet(DOMAIN c) /\ Cardinality(DOMAIN c) = Len(c)
  <2>1. /\ IsFiniteSet(1 .. Len(c))
        /\ Cardinality(1 .. Len(c)) = IF 1 > Len(c) THEN 0 ELSE Len(c) - 1 + 1
    BY <1>1, 1 \in Int, Len(c) \in Int, FS_Interval, Zenon
  <2> QED BY <1>1, <2>1
<1>3. Ahead(p, h, c, i) \in SUBSET (DOMAIN c) /\ i \notin Ahead(p, h, c, i)
  BY BeforeIsOrder DEF Ahead
<1>4. /\ IsFiniteSet(Ahead(p, h, c, i))
      /\ Cardinality(Ahead(p, h, c, i)) <= Len(c)
      /\ Cardinality(Ahead(p, h, c, i)) = Len(c) => Ahead(p, h, c, i) = DOMAIN c
  BY <1>2, <1>3, FS_Subset
<1>5. Cardinality(Ahead(p, h, c, i)) \in Nat
  BY <1>4, FS_CardinalityType
<1> QED BY <1>1, <1>3, <1>4, <1>5

LEMMA PlaceGrows ==
  ASSUME NEW p \in Policies, NEW h \in [Classes -> Nat],
         NEW c \in Seq(Candidates), Numbered(c), NEW i \in DOMAIN c, NEW j \in DOMAIN c,
         Before(p, h, c[i], c[j])
  PROVE  Cardinality(Ahead(p, h, c, i)) < Cardinality(Ahead(p, h, c, j))
<1>1. Len(c) \in Nat /\ DOMAIN c = 1 .. Len(c)
  BY LenProperties
<1>2. /\ Ahead(p, h, c, i) \in SUBSET Ahead(p, h, c, j)
      /\ i \in Ahead(p, h, c, j) /\ i \notin Ahead(p, h, c, i)
  BY BeforeIsOrder DEF Ahead
<1>3. IsFiniteSet(Ahead(p, h, c, j))
  <2>1. IsFiniteSet(DOMAIN c) /\ Ahead(p, h, c, j) \in SUBSET (DOMAIN c)
    BY <1>1, FS_Interval DEF Ahead
  <2> QED BY <2>1, FS_Subset
<1>4. /\ IsFiniteSet(Ahead(p, h, c, i))
      /\ Cardinality(Ahead(p, h, c, i)) <= Cardinality(Ahead(p, h, c, j))
      /\ Cardinality(Ahead(p, h, c, j)) = Cardinality(Ahead(p, h, c, i))
           => Ahead(p, h, c, i) = Ahead(p, h, c, j)
  BY <1>2, <1>3, FS_Subset
<1>5. Cardinality(Ahead(p, h, c, i)) \in Nat /\ Cardinality(Ahead(p, h, c, j)) \in Nat
  BY <1>3, <1>4, FS_CardinalityType
<1> QED BY <1>2, <1>4, <1>5

\* The order is the candidates rearranged, whoever goes before another one first.
LEMMA OrderedIsSorted ==
  ASSUME NEW p \in Policies, NEW h \in [Classes -> Nat],
         NEW c \in Seq(Candidates), Numbered(c)
  PROVE  /\ Ordered(p, h, c) \in Seq(Candidates)
         /\ Len(Ordered(p, h, c)) = Len(c)
         /\ \A k \in 1 .. Len(c) : \E i \in DOMAIN c : Ordered(p, h, c)[k] = c[i]
         /\ \A k, l \in 1 .. Len(c) :
              k < l => Before(p, h, Ordered(p, h, c)[k], Ordered(p, h, c)[l])
<1> DEFINE n == Len(c)
           D == DOMAIN c
           place == [i \in D |-> 1 + Cardinality(Ahead(p, h, c, i))]
           at == [k \in D |-> CHOOSE i \in D : place[i] = k]
           line == [k \in D |-> c[CHOOSE i \in D : place[i] = k]]
<1>1. n \in Nat /\ D = 1 .. n /\ \A i \in D : c[i] \in Candidates
  BY LenProperties
<1>2. Ordered(p, h, c) = line
  BY DEF Ordered, Ahead
<1>3. place \in [D -> 1 .. n]
  BY PlaceInRange
<1>4. \A i, j \in D : Before(p, h, c[i], c[j]) => place[i] < place[j]
  <2> SUFFICES ASSUME NEW i \in D, NEW j \in D, Before(p, h, c[i], c[j])
               PROVE  place[i] < place[j]
    OBVIOUS
  <2>1. Cardinality(Ahead(p, h, c, i)) < Cardinality(Ahead(p, h, c, j))
    BY PlaceGrows
  <2>2. /\ 1 + Cardinality(Ahead(p, h, c, i)) \in 1 .. Len(c)
        /\ 1 + Cardinality(Ahead(p, h, c, j)) \in 1 .. Len(c)
    BY PlaceInRange
  <2>3. /\ IsFiniteSet(Ahead(p, h, c, i)) /\ IsFiniteSet(Ahead(p, h, c, j))
    <3>1. IsFiniteSet(D)
      BY <1>1, FS_Interval
    <3>2. Ahead(p, h, c, i) \in SUBSET D /\ Ahead(p, h, c, j) \in SUBSET D
      BY DEF Ahead
    <3> HIDE DEF D
    <3> QED BY <3>1, <3>2, FS_Subset
  <2>4. /\ Cardinality(Ahead(p, h, c, i)) \in Nat
        /\ Cardinality(Ahead(p, h, c, j)) \in Nat
    BY <2>3, FS_CardinalityType
  <2> QED BY <2>1, <2>4
<1>5. \A i, j \in D : i # j => Before(p, h, c[i], c[j]) \/ Before(p, h, c[j], c[i])
  BY BeforeIsOrder
<1> HIDE DEF place, n, D
<1>6. \A i, j \in D : place[i] = place[j] => i = j
  BY <1>1, <1>3, <1>4, <1>5
<1>7. place \in Injection(D, D)
  BY <1>1, <1>3, <1>6, Fun_IsInj
<1>8. IsFiniteSet(D)
  BY <1>1, FS_Interval
<1>9. place \in Surjection(D, D)
  BY <1>7, <1>8, FS_Injection
<1>10. \A k \in D : \E i \in D : place[i] = k
  BY <1>9 DEF Surjection
<1>11. \A k \in D : at[k] \in D /\ place[at[k]] = k /\ line[k] = c[at[k]]
  BY <1>10
<1>12. DOMAIN line = D
  OBVIOUS
<1> HIDE DEF at, line
<1>13. line \in Seq(Candidates) /\ Len(line) = n
  <2>1. \A k \in 1 .. n : line[k] \in Candidates
    BY <1>1, <1>11
  <2>2. line = [k \in 1 .. n |-> line[k]]
    BY <1>1, <1>12 DEF line
  <2>3. line \in [1 .. n -> Candidates]
    BY <2>1, <2>2
  <2> QED BY <1>1, <2>3
<1>14. ASSUME NEW k \in 1 .. n, NEW l \in 1 .. n, k < l
       PROVE  Before(p, h, line[k], line[l])
  <2>1. at[k] \in D /\ at[l] \in D /\ place[at[k]] = k /\ place[at[l]] = l
    BY <1>1, <1>11
  <2>2. at[k] # at[l] /\ ~(place[at[l]] < place[at[k]])
    BY <1>1, <1>14, <2>1
  <2>3. Before(p, h, c[at[k]], c[at[l]])
    BY <1>4, <1>5, <2>1, <2>2
  <2> QED BY <1>1, <1>11, <2>3
<1>15. \A k \in 1 .. n : \E i \in D : line[k] = c[i]
  BY <1>1, <1>11
<1> QED BY <1>2, <1>13, <1>14, <1>15 DEF n, D

\* The decisions of a cycle: at most the permitted number is selected, and every
\* selected candidate goes before every skipped one.
LEMMA SelectedGoFirst ==
  ASSUME NEW p \in Policies, NEW h \in [Classes -> Nat],
         NEW c \in Seq(Candidates), Numbered(c),
         NEW sel, sel = SelectedOf(Ordered(p, h, c), MaxCandidates),
         NEW skip, skip = SkippedOf(Ordered(p, h, c), MaxCandidates)
  PROVE  /\ sel \in Seq(Candidates) /\ Len(sel) <= MaxCandidates
         /\ skip \in Seq(Candidates)
         /\ \A a \in DOMAIN sel : \E i \in DOMAIN c : sel[a] = c[i]
         /\ \A b \in DOMAIN skip : \E i \in DOMAIN c : skip[b] = c[i]
         /\ \A a \in DOMAIN sel, b \in DOMAIN skip : Before(p, h, sel[a], skip[b])
<1> DEFINE o == Ordered(p, h, c)
           n == Len(c)
           m == IF n < MaxCandidates THEN n ELSE MaxCandidates
<1>1. /\ o \in Seq(Candidates) /\ Len(o) = n
      /\ \A k \in 1 .. n : \E i \in DOMAIN c : o[k] = c[i]
      /\ \A k, l \in 1 .. n : k < l => Before(p, h, o[k], o[l])
  BY OrderedIsSorted
<1>2. n \in Nat /\ MaxCandidates \in Nat \ {0}
  BY LenProperties, LimitsPositive
<1>3. sel = SubSeq(o, 1, m) /\ skip = SubSeq(o, MaxCandidates + 1, n)
  BY <1>1 DEF SelectedOf, SkippedOf
<1> HIDE DEF o, n
<1>4. \A k \in 1 .. n : o[k] \in Candidates
  BY <1>1
<1>5. /\ sel \in Seq(Candidates) /\ Len(sel) = m /\ m <= MaxCandidates
      /\ \A a \in 1 .. m : sel[a] = o[a] /\ a \in 1 .. n
  BY <1>1, <1>2, <1>3
<1>6. /\ skip \in Seq(Candidates)
      /\ \A b \in DOMAIN skip :
           /\ b \in Nat \ {0}
           /\ MaxCandidates + b \in 1 .. n
           /\ skip[b] = o[MaxCandidates + b]
  <2>1. CASE n <= MaxCandidates
    BY <1>1, <1>2, <1>3, <2>1
  <2>2. CASE n > MaxCandidates
    <3>1. /\ skip \in Seq(Candidates) /\ Len(skip) = n - MaxCandidates
          /\ \A b \in 1 .. (n - MaxCandidates) : skip[b] = o[MaxCandidates + 1 + b - 1]
      BY <1>1, <1>2, <1>3, <2>2, SubSeqProperties
    <3>2. DOMAIN skip = 1 .. (n - MaxCandidates)
      BY <3>1
    <3> QED BY <1>2, <2>2, <3>1, <3>2
  <2> QED BY <1>2, <2>1, <2>2
<1>7. DOMAIN sel = 1 .. m
  BY <1>5
<1>8. \A a \in DOMAIN sel, b \in DOMAIN skip : Before(p, h, sel[a], skip[b])
  <2> SUFFICES ASSUME NEW a \in 1 .. m, NEW b \in DOMAIN skip
               PROVE  Before(p, h, sel[a], skip[b])
    BY <1>7
  <2>1. a < MaxCandidates + b
    BY <1>2, <1>5, <1>6
  <2> QED BY <1>1, <1>5, <1>6, <2>1
<1>9. /\ \A a \in DOMAIN sel : \E i \in DOMAIN c : sel[a] = c[i]
      /\ \A b \in DOMAIN skip : \E i \in DOMAIN c : skip[b] = c[i]
  BY <1>1, <1>5, <1>6, <1>7
<1> QED BY <1>5, <1>6, <1>8, <1>9

-----------------------------------------------------------------------------
(***************************************************************************)
(* What holds of the running cycle, whoever runs it.                       *)
(***************************************************************************)
QueueInv ==
  /\ queue \in Seq(Items)
  /\ InOrder(queue)
  /\ \A i \in DOMAIN queue : queue[i].enqueued <= now
  /\ \A i, j \in DOMAIN queue : queue[i].id = queue[j].id => i = j

\* A candidate is made of the item at its place, the clock being read in order.
ScanInv ==
  /\ cycle.start \in 0 .. now
  /\ cycle.items \in Seq(Items) /\ InOrder(cycle.items)
  /\ cycle.candidates \in Seq(Candidates) /\ Numbered(cycle.candidates)
  /\ Len(cycle.candidates) <= Len(cycle.items)
  /\ \A p \in DOMAIN cycle.candidates :
       /\ cycle.candidates[p].class = cycle.items[p].class
       /\ cycle.candidates[p].job = cycle.items[p].job
       /\ cycle.candidates[p].age = ReadAt(p) - cycle.items[p].arrived
       /\ ReadAt(p) \in cycle.start .. now
  /\ \A p, q \in DOMAIN cycle.candidates : p < q => ReadAt(p) <= ReadAt(q)

\* What PolicyHonoured says of two candidates.
Honoured(s, k) ==
  LET is == cycle.items[s]
      ik == cycle.items[k]
  IN  CASE policy = "fifo" -> s < k /\ is.enqueued <= ik.enqueued
        [] policy = "shortest_job_first" -> is.job < ik.job \/ (is.job = ik.job /\ s < k)
        [] policy = "latency_aware" ->
             Pressure(is) + (IF s < k THEN 0
                             ELSE (now - cycle.start) * (AgeObjective + QueueObjective))
               >= Pressure(ik)
        [] policy = "fairness" -> is.class = ik.class /\ s > k
                                    => cycle.candidates[s].wait > cycle.candidates[k].wait

DecisionInv ==
  /\ \A a \in DOMAIN cycle.selected :
       \E p \in DOMAIN cycle.candidates : cycle.selected[a] = cycle.candidates[p]
  /\ \A b \in DOMAIN cycle.skipped :
       \E p \in DOMAIN cycle.candidates : cycle.skipped[b] = cycle.candidates[p]
  /\ \A a \in DOMAIN cycle.selected, b \in DOMAIN cycle.skipped :
       Honoured(cycle.selected[a].position, cycle.skipped[b].position)

\* The history of the fairness policy is what was selected.
ServedInv ==
  /\ counts \in [Classes -> Nat] /\ served \in [Classes -> Nat]
  /\ policy = "fairness" => served = counts
  /\ FairShare

\* A cycle that is yet to be reported was begun.
Unreported == {t \in Threads : thread[t] \in {"blocked"} \cup Working}

LoadInv ==
  /\ load \in Loads /\ now \in 0 .. load.time /\ policy \in Policies
  /\ begun \in 0 .. load.cycles /\ completed \in Nat
  /\ IsFiniteSet(Unreported) /\ completed + Cardinality(Unreported) <= begun

CurrentInv ==
  /\ mode \in {"starting", "accepting", "draining", "unavailable"}
  /\ last \in {"none", "completed", "failed"}
  /\ task \in Threads \cup {"none", "sleeping"}
  /\ current \in BOOLEAN
  /\ current <=> lock # NoThread /\ thread[lock] \notin {"accepting", "leaving"}

CycleInv == QueueInv /\ ScanInv /\ DecisionInv /\ ServedInv /\ LoadInv /\ CurrentInv

-----------------------------------------------------------------------------
(***************************************************************************)
(* What the order of the candidates says of their requests.                *)
(***************************************************************************)

\* The weighted time since two moments, and the moments' own part in it.
LEMMA Weighted ==
  ASSUME NEW t \in Int, NEW e \in Int, NEW r \in Int, NEW a \in Int, NEW q \in Int
  PROVE  (t - e) * a + (t - r) * q = t * (a + q) - (e * a + r * q)
  OBVIOUS

LEMMA LoadTyped ==
  ASSUME LoadInv
  PROVE  load.time \in Nat /\ load.cycles \in Nat /\ now \in Nat
<1>1. load \in Loads
  BY DEF LoadInv
<1>2. {load.leaves, load.cycles, load.starts, load.time} \subseteq Nat
  BY <1>1, LoadsBounded
<1> QED BY <1>2 DEF LoadInv

LEMMA ItemTyped ==
  ASSUME ScanInv, NEW i \in DOMAIN cycle.items
  PROVE  /\ cycle.items[i].enqueued \in Nat /\ cycle.items[i].arrived \in Nat
         /\ cycle.items[i].job \in Nat /\ cycle.items[i].class \in Classes
<1>1. cycle.items[i] \in Items
  BY LenProperties DEF ScanInv
<1> QED BY <1>1 DEF Items

LEMMA BeforeIsHonoured ==
  ASSUME ScanInv, LoadInv, counts \in [Classes -> Nat],
         NEW s \in DOMAIN cycle.candidates, NEW k \in DOMAIN cycle.candidates,
         Before(policy, counts, cycle.candidates[s], cycle.candidates[k])
  PROVE  Honoured(s, k)
<1> DEFINE cs == cycle.candidates[s]
           ck == cycle.candidates[k]
           is == cycle.items[s]
           ik == cycle.items[k]
<1>1. s \in DOMAIN cycle.items /\ k \in DOMAIN cycle.items /\ s \in Nat /\ k \in Nat
  BY LenProperties DEF ScanInv
<1>2. /\ is.enqueued \in Nat /\ is.arrived \in Nat /\ is.job \in Nat
      /\ ik.enqueued \in Nat /\ ik.arrived \in Nat /\ ik.job \in Nat
  BY <1>1, ItemTyped
<1>3. /\ cs.position = s /\ ck.position = k
      /\ cs.job = is.job /\ ck.job = ik.job /\ cs.class = is.class /\ ck.class = ik.class
  BY DEF ScanInv, Numbered
<1>4. /\ cs.class \in Classes /\ ck.class \in Classes /\ cs.wait \in Int /\ ck.wait \in Int
  BY CandidateTyped DEF ScanInv
<1>5. CASE policy = "fifo"
  <2>1. s < k
    BY <1>3, <1>5 DEF Before, FifoBefore
  <2>2. is.enqueued <= ik.enqueued
    BY <1>1, <2>1 DEF ScanInv, InOrder
  <2> QED BY <1>5, <2>1, <2>2 DEF Honoured
<1>6. CASE policy = "shortest_job_first"
  BY <1>3, <1>6 DEF Before, SjfBefore, FifoBefore, Honoured
<1>7. CASE policy = "fairness"
  <2>1. ASSUME is.class = ik.class, s > k PROVE cs.wait > ck.wait
    <3>1. counts[cs.class] * Weight[cs.class] \in Int
      BY <1>4, WeightsPositive DEF Classes
    <3>2. FairBefore(counts, cs, ck)
      BY <1>7 DEF Before
    <3> QED BY <1>1, <1>3, <1>4, <2>1, <3>1, <3>2
              DEF FairBefore, LowerRatio, EqualRatio, FifoBefore
  <2> QED BY <1>7, <2>1 DEF Honoured
<1>8. CASE policy = "latency_aware"
  <2> DEFINE ts == ReadAt(s)
             tk == ReadAt(k)
             K == AgeObjective + QueueObjective
             bs == is.enqueued * AgeObjective + is.arrived * QueueObjective
             bk == ik.enqueued * AgeObjective + ik.arrived * QueueObjective
  <2>1. AgeObjective \in Nat /\ QueueObjective \in Nat /\ K \in Nat
    BY ObjectivesPositive
  <2>2. load.time \in Nat /\ now \in Nat
    BY LoadTyped
  <2>3. cycle.start \in Nat /\ ts \in cycle.start .. now /\ tk \in cycle.start .. now
    BY <2>2 DEF ScanInv
  <2>4. /\ cs.wait = ts - is.enqueued /\ ck.wait = tk - ik.enqueued
        /\ cs.age = ts - is.arrived /\ ck.age = tk - ik.arrived
    <3>1. cs.wait = ts - is.enqueued /\ ck.wait = tk - ik.enqueued
      BY <1>2, <1>4 DEF ReadAt
    <3>2. cs.age = ts - is.arrived /\ ck.age = tk - ik.arrived
      BY DEF ScanInv
    <3> QED BY <3>1, <3>2
  <2>5. bs \in Int /\ bk \in Int
    BY <1>2, <2>1
  <2> HIDE DEF ts, tk
  <2>6. ts \in Int /\ tk \in Int /\ now - cycle.start \in Nat /\ ts - tk <= now - cycle.start
    BY <2>2, <2>3
  <2>7. Score(cs) = ts * K - bs /\ Score(ck) = tk * K - bk
    <3>1. Score(cs) = (ts - is.enqueued) * AgeObjective + (ts - is.arrived) * QueueObjective
      BY <2>4 DEF Score
    <3>2. Score(ck) = (tk - ik.enqueued) * AgeObjective + (tk - ik.arrived) * QueueObjective
      BY <2>4 DEF Score
    <3> QED BY <1>2, <2>1, <2>6, <3>1, <3>2, Weighted
  <2>8. Pressure(is) = load.time * K - bs /\ Pressure(ik) = load.time * K - bk
    BY <1>2, <2>1, <2>2, Weighted DEF Pressure
  <2>9. Score(cs) >= Score(ck)
    <3>1. ts * K - bs \in Int /\ tk * K - bk \in Int
      BY <2>1, <2>5, <2>6
    <3>2. LatencyBefore(cs, ck)
      BY <1>8 DEF Before
    <3> QED BY <2>7, <3>1, <3>2 DEF LatencyBefore
  <2> HIDE DEF K, bs, bk
  <2>10. /\ ts * K \in Int /\ tk * K \in Int /\ load.time * K \in Int
         /\ (now - cycle.start) * K \in Int
         /\ ts * K - tk * K = (ts - tk) * K
    BY <2>1, <2>2, <2>6
  <2>11. bs - bk <= (ts - tk) * K
    BY <2>5, <2>7, <2>9, <2>10
  <2>12. \A x, y \in Int : x <= y => x * K <= y * K
    BY <2>1
  <2>13. CASE s < k
    <3>1. ts <= tk
      BY <2>13 DEF ScanInv, ts, tk
    <3>2. ts * K <= tk * K
      BY <2>6, <2>12, <3>1
    <3>3. Pressure(is) >= Pressure(ik)
      BY <2>5, <2>8, <2>10, <2>11, <3>2
    <3>4. Pressure(is) + 0 >= Pressure(ik)
      BY <2>5, <2>8, <2>10, <3>3
    <3> QED BY <1>8, <2>13, <3>4 DEF Honoured
  <2>14. CASE ~(s < k)
    <3>1. (ts - tk) * K <= (now - cycle.start) * K
      <4>1. ts - tk \in Int /\ now - cycle.start \in Int
        BY <2>6
      <4> QED BY <2>6, <2>12, <4>1
    <3>2. Pressure(is) + (now - cycle.start) * K >= Pressure(ik)
      BY <2>5, <2>8, <2>10, <2>11, <3>1
    <3> QED BY <1>8, <2>14, <3>2 DEF Honoured, K
  <2> QED BY <2>13, <2>14
<1>9. policy \in Policies
  BY DEF LoadInv
<1> QED BY <1>5, <1>6, <1>7, <1>8, <1>9 DEF Policies

\* At most the selections of the cycle are added to a class.
LEMMA CountBounded ==
  ASSUME NEW sel \in Seq(Candidates), Len(sel) <= MaxCandidates, NEW c
  PROVE  Count(sel, c) \in 0 .. MaxCandidates
<1> DEFINE S == {i \in DOMAIN sel : sel[i].class = c}
<1>1. Len(sel) \in Nat /\ DOMAIN sel = 1 .. Len(sel) /\ MaxCandidates \in Nat
  BY LenProperties, LimitsPositive
<1>2. /\ IsFiniteSet(1 .. Len(sel))
      /\ Cardinality(1 .. Len(sel)) = IF 1 > Len(sel) THEN 0 ELSE Len(sel) - 1 + 1
  BY <1>1, 1 \in Int, Len(sel) \in Int, FS_Interval, Zenon
<1>3. S \in SUBSET (1 .. Len(sel))
  BY <1>1
<1>4. IsFiniteSet(S) /\ Cardinality(S) <= Cardinality(1 .. Len(sel))
  BY <1>2, <1>3, FS_Subset
<1>5. Cardinality(S) \in Nat
  BY <1>4, FS_CardinalityType
<1>6. Cardinality(S) <= MaxCandidates
  BY <1>1, <1>2, <1>4, <1>5
<1> QED BY <1>1, <1>5, <1>6 DEF Count

\* Whoever is selected before another was not ahead of it.
LEMMA SelectionIsFair ==
  ASSUME NEW h \in [Classes -> Nat], NEW a \in Classes, NEW b \in Classes,
         h[a] * Weight[b] <= h[b] * Weight[a],
         NEW x \in 0 .. MaxCandidates, NEW y \in Nat
  PROVE  (h[a] + x) * Weight[b] <= (h[b] + y) * Weight[a] + MaxCandidates * Weight[b]
<1>1. PICK ha, hb \in Nat, wa, wb \in Nat \ {0}, m \in Nat :
        ha = h[a] /\ hb = h[b] /\ wa = Weight[a] /\ wb = Weight[b] /\ m = MaxCandidates
  BY WeightsPositive, LimitsPositive DEF Classes
<1>2. x \in Nat /\ x <= m
  BY <1>1
<1>3. ha * wb <= hb * wa
  BY <1>1
<1>4. x * wb <= m * wb
  BY <1>2
<1>5. y * wa \in Nat /\ ha * wb \in Nat /\ hb * wa \in Nat /\ x * wb \in Nat /\ m * wb \in Nat
  BY <1>2
<1>6. (ha + x) * wb = ha * wb + x * wb /\ (hb + y) * wa = hb * wa + y * wa
  BY <1>2
<1>7. (ha + x) * wb <= (hb + y) * wa + m * wb
  BY <1>3, <1>4, <1>5, <1>6
<1> QED BY <1>1, <1>7

-----------------------------------------------------------------------------
(***************************************************************************)
(* Steps that leave the scan and its decisions alone.                      *)
(***************************************************************************)

\* The clock may run on: what PolicyHonoured allows for the time of the scan grows.
LEMMA ClockKeepsScan ==
  ASSUME ScanInv, DecisionInv, LoadInv, now' \in Nat, now <= now',
         UNCHANGED <<cycle, policy, load>>
  PROVE  ScanInv' /\ DecisionInv'
<1>1. now \in Nat /\ cycle.start \in Nat
  BY LoadTyped DEF ScanInv
<1>2. \A p \in DOMAIN cycle.candidates : ReadAt(p)' = ReadAt(p)
  BY DEF ReadAt
<1>3. ScanInv'
  BY <1>1, <1>2 DEF ScanInv
<1>4. ASSUME NEW s \in DOMAIN cycle.candidates, NEW k \in DOMAIN cycle.candidates,
             Honoured(s, k)
      PROVE  Honoured(s, k)'
  <2>1. /\ AgeObjective + QueueObjective \in Nat
        /\ load.time \in Nat
    BY ObjectivesPositive, LoadTyped
  <2>2. \A p \in DOMAIN cycle.items :
          /\ Pressure(cycle.items[p]) \in Int
          /\ Pressure(cycle.items[p])' = Pressure(cycle.items[p])
    BY <2>1, ItemTyped, ObjectivesPositive DEF Pressure
  <2>3. s \in DOMAIN cycle.items /\ k \in DOMAIN cycle.items
    BY LenProperties DEF ScanInv
  <2>4. (now - cycle.start) * (AgeObjective + QueueObjective)
          <= (now' - cycle.start) * (AgeObjective + QueueObjective)
    BY <1>1, <2>1
  <2>5. /\ (now - cycle.start) * (AgeObjective + QueueObjective) \in Int
        /\ (now' - cycle.start) * (AgeObjective + QueueObjective) \in Int
    BY <1>1, <2>1
  <2> DEFINE d == (now - cycle.start) * (AgeObjective + QueueObjective)
             e == (now' - cycle.start) * (AgeObjective + QueueObjective)
             x == Pressure(cycle.items[s])
             y == Pressure(cycle.items[k])
  <2>6. x + (IF s < k THEN 0 ELSE d) >= y => x + (IF s < k THEN 0 ELSE e) >= y
    <3>1. x \in Int /\ y \in Int /\ d \in Int /\ e \in Int /\ d <= e
      BY <2>2, <2>3, <2>4, <2>5
    <3> HIDE DEF x, y, d, e
    <3> QED BY <3>1
  <2>7. CASE policy = "latency_aware"
    <3>1. x' = x /\ y' = y
      BY <2>2, <2>3
    <3>2. x + (IF s < k THEN 0 ELSE d) >= y
      BY <1>4, <2>7 DEF Honoured
    <3> QED BY <2>6, <2>7, <3>1, <3>2 DEF Honoured
  <2>8. CASE policy # "latency_aware"
    BY <1>4, <2>8 DEF Honoured, LoadInv, Policies
  <2> QED BY <2>7, <2>8
<1>5. /\ \A a \in DOMAIN cycle.selected : cycle.selected[a].position \in DOMAIN cycle.candidates
      /\ \A b \in DOMAIN cycle.skipped : cycle.skipped[b].position \in DOMAIN cycle.candidates
  BY DEF DecisionInv, ScanInv, Numbered
<1>6. DecisionInv'
  BY <1>4, <1>5 DEF DecisionInv
<1> QED BY <1>3, <1>6

\* A fresh scan has decided nothing.
LEMMA NothingDecided ==
  ASSUME cycle'.selected = <<>>, cycle'.skipped = <<>>
  PROVE  DecisionInv' /\ FairShare'
  BY DEF DecisionInv, FairShare

LEMMA SameServed ==
  ASSUME ServedInv, UNCHANGED <<counts, served, policy>>,
         UNCHANGED cycle
           \/ (cycle'.selected = cycle.selected /\ cycle'.skipped = cycle.skipped)
           \/ (cycle'.selected = <<>> /\ cycle'.skipped = <<>>)
  PROVE  ServedInv'
<1>1. CASE UNCHANGED cycle \/ (cycle'.selected = cycle.selected /\ cycle'.skipped = cycle.skipped)
  BY <1>1 DEF ServedInv, FairShare
<1>2. CASE cycle'.selected = <<>> /\ cycle'.skipped = <<>>
  BY <1>2, NothingDecided DEF ServedInv
<1> QED BY <1>1, <1>2

LEMMA SameQueue ==
  ASSUME QueueInv, UNCHANGED <<queue, now>>
  PROVE  QueueInv'
  BY DEF QueueInv, InOrder

\* A thread goes from one place to another.
LEMMA MoveKeepsLoad ==
  ASSUME LoadInv, thread \in [Threads -> Places], NEW t \in Threads,
         NEW from \in Places, NEW to \in Places,
         thread[t] = from, thread' = [thread EXCEPT ![t] = to],
         UNCHANGED <<load, now, policy>>,
         LET open == {"blocked"} \cup Working
         IN  \/ (from \in open <=> to \in open) /\ begun' = begun /\ completed' = completed
             \/ from \in open /\ to \notin open /\ begun' = begun
                  /\ completed' \in {completed, completed + 1}
             \/ from \notin open /\ to \in open /\ begun < load.cycles
                  /\ begun' = begun + 1 /\ completed' = completed
  PROVE  LoadInv'
<1> DEFINE open == {"blocked"} \cup Working
<1>0. /\ IsFiniteSet(Unreported) /\ Cardinality(Unreported) \in Nat
      /\ completed \in Nat /\ begun \in Nat /\ load.cycles \in Nat
      /\ begun <= load.cycles /\ completed + Cardinality(Unreported) <= begun
  BY LoadTyped, FS_CardinalityType DEF LoadInv
<1>1. t \in Unreported <=> from \in open
  BY DEF Unreported
<1>2. Unreported' = (Unreported \ {t}) \cup (IF to \in open THEN {t} ELSE {})
  BY DEF Unreported
<1>3. CASE (from \in open <=> to \in open) /\ begun' = begun /\ completed' = completed
  <2>1. Unreported' = Unreported
    BY <1>1, <1>2, <1>3
  <2> QED BY <1>3, <2>1 DEF LoadInv
<1>4. CASE /\ from \in open /\ to \notin open /\ begun' = begun
           /\ completed' \in {completed, completed + 1}
  <2>1. Unreported' = Unreported \ {t} /\ t \in Unreported
    BY <1>1, <1>2, <1>4
  <2>2. IsFiniteSet(Unreported') /\ Cardinality(Unreported') = Cardinality(Unreported) - 1
    BY <1>0, <2>1, FS_RemoveElement
  <2>3. completed' \in Nat /\ completed' + Cardinality(Unreported') <= begun'
    BY <1>0, <1>4, <2>2
  <2> QED BY <1>4, <2>2, <2>3 DEF LoadInv
<1>5. CASE /\ from \notin open /\ to \in open /\ begun < load.cycles
           /\ begun' = begun + 1 /\ completed' = completed
  <2>1. Unreported' = Unreported \cup {t} /\ t \notin Unreported
    BY <1>1, <1>2, <1>5
  <2>2. IsFiniteSet(Unreported') /\ Cardinality(Unreported') = Cardinality(Unreported) + 1
    BY <1>0, <2>1, FS_AddElement
  <2>3. completed' + Cardinality(Unreported') <= begun' /\ begun' \in 0 .. load.cycles
    BY <1>0, <1>5, <2>2
  <2> QED BY <1>5, <2>2, <2>3 DEF LoadInv
<1> QED BY <1>3, <1>4, <1>5

LEMMA SameLoad ==
  ASSUME LoadInv, UNCHANGED <<load, now, policy, begun, completed, thread>>
  PROVE  LoadInv'
  BY DEF LoadInv, Unreported

LEMMA SameCurrent ==
  ASSUME CurrentInv, UNCHANGED <<mode, last, task, current, lock, thread>>
  PROVE  CurrentInv'
  BY DEF CurrentInv

-----------------------------------------------------------------------------
(***************************************************************************)
(* The steps.                                                              *)
(***************************************************************************)
LEMMA EnqueueKeepsQueue ==
  ASSUME QueueInv, LoadInv, NEW r \in Requests, Enqueue(r)
  PROVE  QueueInv'
<1>1. now \in Nat /\ UNCHANGED now
  BY LoadTyped DEF Enqueue
<1>2. PICK x \in Items :
        x.id = r /\ x.enqueued = now /\ queue' = Append(queue, x)
  <2>1. PICK arrived \in 0 .. now :
          queue' = Append(queue, [id |-> r, class |-> Class[r], job |-> Job[r],
                                  enqueued |-> now, arrived |-> arrived])
    BY DEF Enqueue
  <2>2. [id |-> r, class |-> Class[r], job |-> Job[r], enqueued |-> now, arrived |-> arrived]
          \in Items
    BY <1>1, <2>1, RequestsAssumption DEF Items
  <2> QED BY <2>1, <2>2
<1>3. \A i \in DOMAIN queue : queue[i].id # r
  BY DEF Enqueue, Queued
<1>4. Len(queue) \in Nat /\ DOMAIN queue = 1 .. Len(queue)
  BY LenProperties DEF QueueInv
<1>5. /\ queue' \in Seq(Items) /\ DOMAIN queue' = 1 .. Len(queue) + 1
      /\ \A i \in 1 .. Len(queue) : queue'[i] = queue[i]
      /\ queue'[Len(queue) + 1] = x
  BY <1>2, <1>4 DEF QueueInv
<1>6. \A i \in 1 .. Len(queue) : queue[i].enqueued <= now
  BY <1>4 DEF QueueInv
<1>7. \A i \in DOMAIN queue' : queue'[i].enqueued <= now
  BY <1>1, <1>2, <1>4, <1>5, <1>6
<1>8. InOrder(queue')
  BY <1>2, <1>4, <1>5, <1>6 DEF QueueInv, InOrder
<1>9. \A i, j \in DOMAIN queue' : queue'[i].id = queue'[j].id => i = j
  BY <1>2, <1>3, <1>4, <1>5 DEF QueueInv
<1> QED BY <1>1, <1>5, <1>7, <1>8, <1>9 DEF QueueInv, InOrder

LEMMA LeaveKeepsQueue ==
  ASSUME QueueInv, NEW r \in Requests, Leave(r)
  PROVE  QueueInv'
<1>1. UNCHANGED now
  BY DEF Leave
<1>2. PICK i \in DOMAIN queue : queue' = RemoveAt(queue, i)
  BY DEF Leave
<1>3. /\ Len(queue) \in Nat /\ DOMAIN queue = 1 .. Len(queue) /\ i \in 1 .. Len(queue)
      /\ \A k \in 1 .. Len(queue) : queue[k] \in Items
  BY LenProperties DEF QueueInv
<1> DEFINE f == SubSeq(queue, 1, i - 1)
           g == SubSeq(queue, i + 1, Len(queue))
           was == [k \in 1 .. Len(queue) - 1 |-> IF k < i THEN k ELSE k + 1]
<1>4. /\ f \in Seq(Items) /\ Len(f) = i - 1
      /\ \A k \in 1 .. i - 1 : f[k] = queue[k]
  <2>1. \A k \in 1 .. i - 1 : queue[k] \in Items
    BY <1>3
  <2>2. /\ f \in Seq(Items) /\ Len(f) = IF 1 <= i - 1 THEN i - 1 - 1 + 1 ELSE 0
        /\ \A k \in 1 .. i - 1 - 1 + 1 : f[k] = queue[1 + k - 1]
    BY <1>3, <2>1, SubSeqProperties
  <2> QED BY <1>3, <2>2
<1>5. /\ g \in Seq(Items) /\ Len(g) = Len(queue) - i
      /\ \A k \in 1 .. Len(queue) - i : g[k] = queue[i + k]
  <2>1. \A k \in i + 1 .. Len(queue) : queue[k] \in Items
    BY <1>3
  <2>2. /\ g \in Seq(Items)
        /\ Len(g) = IF i + 1 <= Len(queue) THEN Len(queue) - (i + 1) + 1 ELSE 0
        /\ \A k \in 1 .. Len(queue) - (i + 1) + 1 : g[k] = queue[i + 1 + k - 1]
    BY <1>3, <2>1, SubSeqProperties
  <2> QED BY <1>3, <2>2
<1>6. queue' = f \o g
  BY <1>2 DEF RemoveAt
<1> HIDE DEF f, g
<1>7. /\ queue' \in Seq(Items) /\ Len(queue') = Len(queue) - 1
      /\ \A k \in 1 .. Len(queue) - 1 :
           queue'[k] = IF k <= i - 1 THEN f[k] ELSE g[k - (i - 1)]
  <2>1. /\ f \o g \in Seq(Items) /\ Len(f \o g) = Len(f) + Len(g)
        /\ \A k \in 1 .. Len(f) + Len(g) :
             (f \o g)[k] = IF k <= Len(f) THEN f[k] ELSE g[k - Len(f)]
    BY <1>4, <1>5, ConcatProperties
  <2>2. Len(f) + Len(g) = Len(queue) - 1
    BY <1>3, <1>4, <1>5
  <2> QED BY <1>4, <1>6, <2>1, <2>2
<1>8. \A k \in 1 .. Len(queue) - 1 :
        was[k] \in 1 .. Len(queue) /\ queue'[k] = queue[was[k]]
  <2> SUFFICES ASSUME NEW k \in 1 .. Len(queue) - 1
               PROVE  was[k] \in 1 .. Len(queue) /\ queue'[k] = queue[was[k]]
    OBVIOUS
  <2>1. CASE k < i
    BY <1>3, <1>4, <1>7, <2>1
  <2>2. CASE k >= i
    <3>1. k - (i - 1) \in 1 .. Len(queue) - i /\ i + (k - (i - 1)) = k + 1
      BY <1>3, <2>2
    <3>2. queue'[k] = g[k - (i - 1)]
      BY <1>3, <1>7, <2>2
    <3> QED BY <1>3, <1>5, <2>2, <3>1, <3>2
  <2> QED BY <1>3, <2>1, <2>2
<1>9. \A k, l \in 1 .. Len(queue) - 1 : k < l <=> was[k] < was[l]
  BY <1>3
<1> HIDE DEF was
<1>10. DOMAIN queue' = 1 .. Len(queue) - 1
  BY <1>3, <1>7
<1>11. InOrder(queue')
  BY <1>3, <1>8, <1>9, <1>10 DEF QueueInv, InOrder
<1>12. \A k \in DOMAIN queue' : queue'[k].enqueued <= now
  BY <1>3, <1>8, <1>10 DEF QueueInv
<1>13. \A k, l \in DOMAIN queue' : queue'[k].id = queue'[l].id => k = l
  <2> SUFFICES ASSUME NEW k \in 1 .. Len(queue) - 1, NEW l \in 1 .. Len(queue) - 1,
                      queue'[k].id = queue'[l].id
               PROVE  k = l
    BY <1>10
  <2>1. was[k] = was[l]
    BY <1>3, <1>8 DEF QueueInv
  <2>2. ~(was[k] < was[l]) /\ ~(was[l] < was[k])
    BY <1>3, <1>8, <2>1
  <2> QED BY <1>3, <1>9, <2>2
<1> QED BY <1>1, <1>7, <1>11, <1>12, <1>13 DEF QueueInv, InOrder

\* The environment, the application and the hand-over to a thread touch no scan.
LEMMA OutsideKeepsCycleInv ==
  ASSUME CycleInv, Inv,
         \/ \E r \in Requests : Enqueue(r) \/ Leave(r)
         \/ Tick
         \/ Startup \/ ShutdownBegins \/ ShutdownEnds
         \/ \E t \in Threads : LoopTick(t) \/ RunOnce(t) \/ BeginCycle(t)
  PROVE  CycleInv'
<1>0. now \in Nat /\ load.time \in Nat /\ load.cycles \in Nat /\ LockHeld
  BY LoadTyped DEF CycleInv, Inv
<1>1. CASE \E r \in Requests : Enqueue(r) \/ Leave(r)
  <2>1. /\ UNCHANGED <<now, load, cycle, policy, counts, served, begun, completed, thread>>
        /\ UNCHANGED <<mode, last, task, current, lock>>
    BY <1>1 DEF Enqueue, Leave, processVars
  <2>2. ScanInv' /\ DecisionInv'
    BY <1>0, <2>1, ClockKeepsScan DEF CycleInv
  <2>3. QueueInv'
    BY <1>1, EnqueueKeepsQueue, LeaveKeepsQueue DEF CycleInv
  <2> QED BY <2>1, <2>2, <2>3, SameServed, SameLoad, SameCurrent DEF CycleInv
<1>2. CASE Tick
  <2>1. /\ UNCHANGED <<queue, load, cycle, policy, counts, served, begun, completed, thread>>
        /\ UNCHANGED <<mode, last, task, current, lock>>
        /\ now' = now + 1 /\ now < load.time
    BY <1>2 DEF Tick, processVars
  <2>2. ScanInv' /\ DecisionInv'
    BY <1>0, <2>1, ClockKeepsScan DEF CycleInv
  <2>3. QueueInv'
    <3>1. \A i \in DOMAIN queue : queue[i].enqueued \in Nat
      <4>1. \A i \in DOMAIN queue : queue[i] \in Items
        BY LenProperties DEF CycleInv, QueueInv
      <4> QED BY <4>1 DEF Items
    <3> QED BY <1>0, <2>1, <3>1 DEF CycleInv, QueueInv, InOrder
  <2>4. LoadInv'
    BY <1>0, <2>1 DEF CycleInv, LoadInv, Unreported
  <2> QED BY <2>1, <2>2, <2>3, <2>4, SameServed, SameCurrent DEF CycleInv
<1>3. CASE Startup \/ ShutdownBegins \/ ShutdownEnds
  <2>1. /\ UNCHANGED <<queue, now, load, cycle, policy, counts, served, begun, completed, thread>>
        /\ UNCHANGED <<current, lock>>
        /\ mode' \in {mode, "accepting", "draining"} /\ last' \in {last, "none"}
        /\ task' \in {task, "sleeping", "none"}
    BY <1>3 DEF Startup, ShutdownBegins, ShutdownEnds, queueVars
  <2>2. ScanInv' /\ DecisionInv'
    BY <1>0, <2>1, ClockKeepsScan DEF CycleInv
  <2>3. CurrentInv'
    BY <2>1 DEF CycleInv, CurrentInv
  <2> QED BY <2>1, <2>2, <2>3, SameQueue, SameServed, SameLoad DEF CycleInv
<1>4. ASSUME NEW t \in Threads, LoopTick(t) \/ RunOnce(t)
      PROVE  CycleInv'
  <2>1. /\ UNCHANGED <<queue, now, load, cycle, policy, counts, served, completed>>
        /\ UNCHANGED <<mode, last, current, lock>>
        /\ thread[t] = "free" /\ thread' = [thread EXCEPT ![t] = "blocked"]
        /\ begun < load.cycles /\ begun' = begun + 1
        /\ task' \in {task, t}
    BY <1>4 DEF LoopTick, RunOnce, Submit, queueVars, processVars
  <2>2. ScanInv' /\ DecisionInv'
    BY <1>0, <2>1, ClockKeepsScan DEF CycleInv
  <2>3. LoadInv'
    BY <1>0, <2>1, MoveKeepsLoad DEF CycleInv, LockHeld, Places, Outside, Working, Ending
  <2>4. CurrentInv'
    <3>1. lock # t
      BY <1>0, <2>1 DEF LockHeld, Outside
    <3>2. lock # NoThread => thread'[lock] = thread[lock]
      BY <1>0, <2>1, <3>1 DEF LockHeld
    <3> QED BY <2>1, <3>2 DEF CycleInv, CurrentInv
  <2> QED BY <2>1, <2>2, <2>3, <2>4, SameQueue, SameServed DEF CycleInv
<1>5. ASSUME NEW t \in Threads, BeginCycle(t)
      PROVE  CycleInv'
  <2>1. /\ UNCHANGED <<queue, now, load, cycle, policy, counts, served, begun, completed>>
        /\ UNCHANGED <<last, task>>
        /\ thread[t] = "blocked" /\ thread' = [thread EXCEPT ![t] = "listing"]
        /\ lock' = t /\ current' = TRUE /\ mode' = "accepting"
    BY <1>5 DEF BeginCycle, Goto, queueVars, processVars
  <2>2. ScanInv' /\ DecisionInv'
    BY <1>0, <2>1, ClockKeepsScan DEF CycleInv
  <2>3. LoadInv'
    BY <1>0, <2>1, MoveKeepsLoad DEF CycleInv, LockHeld, Places, Outside, Working, Ending
  <2>4. CurrentInv'
    <3>1. thread'[lock'] = "listing" /\ lock' # NoThread
      BY <1>0, <2>1, NoThreadIsNone DEF LockHeld
    <3> QED BY <2>1, <3>1 DEF CycleInv, CurrentInv
  <2> QED BY <2>1, <2>2, <2>3, <2>4, SameQueue, SameServed DEF CycleInv
<1> QED BY <1>1, <1>2, <1>3, <1>4, <1>5

\* list_queue_items: what is scanned is the front of the queue.
LEMMA ListingStartsScan ==
  ASSUME CycleInv, NEW t \in Threads, ListQueueItems(t)
  PROVE  ScanInv' /\ DecisionInv' /\ ServedInv'
<1> DEFINE m == IF Len(queue) < ScanLimit THEN Len(queue) ELSE ScanLimit
<1>1. /\ cycle'.start = now /\ cycle'.items = SubSeq(queue, 1, m)
      /\ cycle'.candidates = <<>> /\ cycle'.selected = <<>> /\ cycle'.skipped = <<>>
      /\ UNCHANGED <<now, counts, served, policy>>
  BY DEF ListQueueItems, NoCycle, queueVars
<1>2. now \in Nat /\ ScanLimit \in Nat \ {0}
  BY LoadTyped, LimitsPositive DEF CycleInv
<1>3. /\ Len(queue) \in Nat /\ DOMAIN queue = 1 .. Len(queue) /\ queue \in Seq(Items)
  BY LenProperties DEF CycleInv, QueueInv
<1>4. /\ cycle'.items \in Seq(Items) /\ DOMAIN cycle'.items = 1 .. m /\ m \in Nat /\ m <= Len(queue)
      /\ \A i \in 1 .. m : cycle'.items[i] = queue[i]
  <2>1. m \in Nat /\ m <= Len(queue)
    BY <1>2, <1>3
  <2> HIDE DEF m
  <2>2. \A i \in 1 .. m : queue[i] \in Items
    BY <1>3, <2>1
  <2>3. /\ SubSeq(queue, 1, m) \in Seq(Items)
        /\ Len(SubSeq(queue, 1, m)) = IF 1 <= m THEN m - 1 + 1 ELSE 0
        /\ \A i \in 1 .. m - 1 + 1 : SubSeq(queue, 1, m)[i] = queue[1 + i - 1]
    BY <2>1, <2>2, SubSeqProperties
  <2>4. Len(SubSeq(queue, 1, m)) = m
    BY <2>1, <2>3
  <2>5. DOMAIN SubSeq(queue, 1, m) = 1 .. m
    BY <2>3, <2>4
  <2> QED BY <1>1, <2>1, <2>3, <2>5
<1> HIDE DEF m
<1>5. InOrder(cycle'.items)
  BY <1>3, <1>4 DEF CycleInv, QueueInv, InOrder
<1>6. ScanInv'
  <2>1. /\ cycle'.candidates \in Seq(Candidates) /\ DOMAIN cycle'.candidates = {}
        /\ Len(cycle'.candidates) = 0 /\ Len(cycle'.items) \in Nat
    BY <1>1, <1>4, LenProperties
  <2>2. cycle'.start \in 0 .. now'
    BY <1>1, <1>2
  <2> QED BY <1>4, <1>5, <2>1, <2>2 DEF ScanInv, InOrder, Numbered
<1> QED BY <1>1, <1>6, NothingDecided, SameServed DEF CycleInv

\* queue_item_to_candidate: the next candidate, by the clock as it is now.
LEMMA ConvertingKeepsScan ==
  ASSUME CycleInv, NEW t \in Threads, Convert(t)
  PROVE  ScanInv' /\ DecisionInv' /\ ServedInv'
<1>0. PICK n \in Nat : n = Len(cycle.candidates)
  BY LenProperties DEF CycleInv, ScanInv
<1> DEFINE c == cycle.candidates
           item == cycle.items[n + 1]
           new == Candidate(item, n + 1, now)
<1>1. /\ cycle'.candidates = Append(c, new) /\ n + 1 <= Len(cycle.items)
      /\ cycle'.start = cycle.start /\ cycle'.items = cycle.items
      /\ cycle'.selected = cycle.selected /\ cycle'.skipped = cycle.skipped
      /\ UNCHANGED <<now, load, counts, served, policy>>
  <2>1. cycle' = [cycle EXCEPT !.candidates = Append(c, new)] /\ n + 1 <= Len(cycle.items)
    BY <1>0 DEF Convert
  <2>2. UNCHANGED <<now, load, counts, served, policy>>
    BY DEF Convert, queueVars
  <2> QED BY <2>1, <2>2
<1>2. /\ now \in Nat /\ cycle.start \in 0 .. now
      /\ c \in Seq(Candidates) /\ n = Len(c) /\ DOMAIN c = 1 .. n
      /\ Len(cycle.items) \in Nat /\ DOMAIN cycle.items = 1 .. Len(cycle.items)
      /\ ScanInv /\ DecisionInv
  BY <1>0, LoadTyped, LenProperties DEF CycleInv, ScanInv
<1>3. /\ item.enqueued \in Nat /\ item.arrived \in Nat /\ item.job \in Nat
      /\ item.class \in Classes /\ item.id \in Requests
  <2>1. n + 1 \in DOMAIN cycle.items
    BY <1>1, <1>2
  <2>2. item \in Items
    BY <1>2, <2>1 DEF ScanInv
  <2> QED BY <2>2 DEF Items
<1>4. /\ new \in Candidates /\ new.position = n + 1
      /\ new.class = item.class /\ new.job = item.job
      /\ new.wait = now - item.enqueued /\ new.age = now - item.arrived
  <2> HIDE DEF item
  <2>1. n + 1 \in Nat /\ now - item.enqueued \in Int /\ now - item.arrived \in Int
    BY <1>2, <1>3
  <2> QED BY <1>3, <2>1 DEF Candidate, Candidates
<1> HIDE DEF new, item
<1>5. /\ cycle'.candidates \in Seq(Candidates) /\ Len(cycle'.candidates) = n + 1
      /\ DOMAIN cycle'.candidates = 1 .. n + 1
      /\ \A p \in 1 .. n : cycle'.candidates[p] = c[p]
      /\ cycle'.candidates[n + 1] = new
  <2>1. /\ Append(c, new) \in Seq(Candidates) /\ Len(Append(c, new)) = Len(c) + 1
        /\ \A p \in 1 .. Len(c) : Append(c, new)[p] = c[p]
        /\ Append(c, new)[Len(c) + 1] = new
    BY <1>2, <1>4, AppendProperties
  <2>2. DOMAIN Append(c, new) = 1 .. n + 1
    BY <1>2, <2>1
  <2> QED BY <1>1, <2>1, <2>2
<1>6. /\ \A p \in 1 .. n : ReadAt(p)' = ReadAt(p)
      /\ ReadAt(n + 1)' = now
  <2>1. \A p \in 1 .. n : ReadAt(p)' = ReadAt(p)
    BY <1>1, <1>5 DEF ReadAt
  <2>2. ReadAt(n + 1)' = new.wait + item.enqueued
    <3>1. \A p : ReadAt(p)' = cycle'.candidates[p].wait + cycle'.items[p].enqueued
      BY DEF ReadAt
    <3>2. cycle'.candidates[n + 1].wait + cycle'.items[n + 1].enqueued
            = new.wait + item.enqueued
      BY <1>1, <1>5 DEF item
    <3> QED BY <3>1, <3>2
  <2> QED BY <1>2, <1>3, <1>4, <2>1, <2>2
<1> DEFINE k == n + 1
<1>7. /\ k \in Nat /\ 1 .. k = (1 .. n) \cup {k}
      /\ \A p \in 1 .. n : p \in Nat /\ p < k
  BY <1>2
<1> HIDE DEF k
<1>8. ScanInv'
  <2>1. cycle'.start \in 0 .. now' /\ cycle'.items \in Seq(Items) /\ InOrder(cycle'.items)
    BY <1>1, <1>2 DEF ScanInv
  <2>2. Len(cycle'.candidates) <= Len(cycle'.items)
    BY <1>1, <1>5
  <2>3. Numbered(cycle'.candidates)
    BY <1>2, <1>4, <1>5, <1>7 DEF ScanInv, Numbered, k
  <2>4. \A p \in 1 .. n :
          /\ cycle'.candidates[p].class = cycle'.items[p].class
          /\ cycle'.candidates[p].job = cycle'.items[p].job
          /\ cycle'.candidates[p].age = ReadAt(p)' - cycle'.items[p].arrived
          /\ ReadAt(p)' \in cycle'.start .. now'
    BY <1>1, <1>2, <1>5, <1>6 DEF ScanInv
  <2>5. /\ cycle'.candidates[k].class = cycle'.items[k].class
        /\ cycle'.candidates[k].job = cycle'.items[k].job
        /\ cycle'.candidates[k].age = ReadAt(k)' - cycle'.items[k].arrived
        /\ ReadAt(k)' \in cycle'.start .. now'
    <3>1. ReadAt(k)' = now /\ cycle'.items[k] = item /\ cycle'.candidates[k] = new
      BY <1>1, <1>5, <1>6 DEF item, k
    <3> QED BY <1>1, <1>2, <1>4, <3>1
  <2>6. \A p, q \in 1 .. k : p < q => ReadAt(p)' <= ReadAt(q)'
    <3>1. \A p \in 1 .. n : ReadAt(p) <= now
      BY <1>2 DEF ScanInv
    <3>2. ReadAt(k)' = now
      BY <1>6 DEF k
    <3>3. \A p, q \in 1 .. n : p < q => ReadAt(p)' <= ReadAt(q)'
      <4>1. \A p, q \in 1 .. n : p < q => ReadAt(p) <= ReadAt(q)
        BY <1>2 DEF ScanInv
      <4> QED BY <1>6, <4>1
    <3>4. \A q \in 1 .. n : ~(k < q)
      BY <1>7
    <3>5. ~(k < k)
      BY <1>7
    <3> QED BY <1>6, <1>7, <3>1, <3>2, <3>3, <3>4, <3>5
  <2>7. DOMAIN cycle'.candidates = 1 .. k
    BY <1>5 DEF k
  <2>8. \A p \in 1 .. k :
          /\ cycle'.candidates[p].class = cycle'.items[p].class
          /\ cycle'.candidates[p].job = cycle'.items[p].job
          /\ cycle'.candidates[p].age = ReadAt(p)' - cycle'.items[p].arrived
          /\ ReadAt(p)' \in cycle'.start .. now'
    BY <1>7, <2>4, <2>5
  <2> QED BY <1>5, <2>1, <2>2, <2>3, <2>6, <2>7, <2>8 DEF ScanInv
<1>9. DecisionInv'
  <2>1. \A s \in 1 .. n, u \in 1 .. n : Honoured(s, u)' <=> Honoured(s, u)
    BY <1>1, <1>5 DEF Honoured, Pressure
  <2>2. /\ \A a \in DOMAIN cycle.selected : cycle.selected[a].position \in 1 .. n
        /\ \A b \in DOMAIN cycle.skipped : cycle.skipped[b].position \in 1 .. n
    BY <1>2 DEF DecisionInv, ScanInv, Numbered
  <2>3. /\ \A a \in DOMAIN cycle.selected :
             \E p \in 1 .. n : cycle.selected[a] = cycle'.candidates[p]
        /\ \A b \in DOMAIN cycle.skipped :
             \E p \in 1 .. n : cycle.skipped[b] = cycle'.candidates[p]
    BY <1>2, <1>5 DEF DecisionInv
  <2> QED BY <1>1, <1>2, <1>5, <1>7, <2>1, <2>2, <2>3 DEF DecisionInv, k
<1> QED BY <1>1, <1>8, <1>9, SameServed DEF CycleInv

\* evaluate: the decisions of the policy, and the history of the fairness policy.
LEMMA EvaluatingDecides ==
  ASSUME CycleInv, NEW t \in Threads, Evaluate(t)
  PROVE  ScanInv' /\ DecisionInv' /\ ServedInv'
<1> DEFINE c == cycle.candidates
           sel == SelectedOf(Ordered(policy, counts, c), MaxCandidates)
           skip == SkippedOf(Ordered(policy, counts, c), MaxCandidates)
<1>1. /\ cycle'.selected = sel /\ cycle'.skipped = skip
      /\ cycle'.start = cycle.start /\ cycle'.items = cycle.items /\ cycle'.candidates = c
      /\ counts' = RecordSelections(policy, counts, sel)
      /\ served' = [x \in Classes |-> served[x] + Count(sel, x)]
      /\ UNCHANGED <<now, load, policy>>
  <2>1. cycle' = [cycle EXCEPT !.selected = sel, !.skipped = skip]
    BY DEF Evaluate
  <2>2. /\ counts' = RecordSelections(policy, counts, sel)
        /\ served' = [x \in Classes |-> served[x] + Count(sel, x)]
        /\ UNCHANGED <<now, load, policy>>
    BY DEF Evaluate, queueVars
  <2> QED BY <2>1, <2>2
<1>2. /\ ScanInv /\ LoadInv /\ policy \in Policies
      /\ counts \in [Classes -> Nat] /\ served \in [Classes -> Nat]
      /\ policy = "fairness" => served = counts
      /\ c \in Seq(Candidates) /\ Numbered(c)
  BY DEF CycleInv, ScanInv, ServedInv, LoadInv
<1>3. /\ sel \in Seq(Candidates) /\ Len(sel) <= MaxCandidates
      /\ skip \in Seq(Candidates)
      /\ \A a \in DOMAIN sel : \E i \in DOMAIN c : sel[a] = c[i]
      /\ \A b \in DOMAIN skip : \E i \in DOMAIN c : skip[b] = c[i]
      /\ \A a \in DOMAIN sel, b \in DOMAIN skip : Before(policy, counts, sel[a], skip[b])
  BY <1>2, SelectedGoFirst
<1> HIDE DEF sel, skip
<1>4. ScanInv'
  <2>1. \A p : ReadAt(p)' = ReadAt(p)
    BY <1>1 DEF ReadAt
  <2> QED BY <1>1, <1>2, <2>1 DEF ScanInv
<1>5. DecisionInv'
  <2>1. ASSUME NEW a \in DOMAIN sel, NEW b \in DOMAIN skip
        PROVE  Honoured(sel[a].position, skip[b].position)
    <3>1. PICK i \in DOMAIN c : sel[a] = c[i]
      BY <1>3
    <3>2. PICK j \in DOMAIN c : skip[b] = c[j]
      BY <1>3
    <3>3. Honoured(i, j)
      BY <1>2, <1>3, <3>1, <3>2, BeforeIsHonoured
    <3>4. sel[a].position = i /\ skip[b].position = j
      BY <1>2, <3>1, <3>2 DEF Numbered
    <3> QED BY <3>3, <3>4
  <2>2. \A s, k : Honoured(s, k)' <=> Honoured(s, k)
    BY <1>1 DEF Honoured, Pressure
  <2>3. (\A a \in DOMAIN cycle.selected, b \in DOMAIN cycle.skipped :
           Honoured(cycle.selected[a].position, cycle.skipped[b].position))'
    BY <1>1, <2>1, <2>2
  <2>4. /\ \A a \in DOMAIN cycle'.selected :
             \E p \in DOMAIN cycle'.candidates : cycle'.selected[a] = cycle'.candidates[p]
        /\ \A b \in DOMAIN cycle'.skipped :
             \E p \in DOMAIN cycle'.candidates : cycle'.skipped[b] = cycle'.candidates[p]
    BY <1>1, <1>3
  <2> QED BY <2>3, <2>4 DEF DecisionInv
<1>6. \A x : Count(sel, x) \in 0 .. MaxCandidates
  BY <1>3, CountBounded
<1>7. MaxCandidates \in Nat
  BY LimitsPositive
<1>8. /\ counts' \in [Classes -> Nat] /\ served' \in [Classes -> Nat]
      /\ policy = "fairness" => served' = counts'
  <2>1. served' \in [Classes -> Nat]
    BY <1>1, <1>2, <1>6, <1>7
  <2>2. CASE policy = "fairness"
    <3>1. counts' = [x \in Classes |-> counts[x] + Count(sel, x)]
      BY <1>1, <1>2, <2>2 DEF RecordSelections
    <3>2. served = counts
      BY <1>2, <2>2
    <3> QED BY <1>1, <2>1, <3>1, <3>2
  <2>3. CASE policy # "fairness"
    BY <1>1, <1>2, <2>1, <2>3 DEF RecordSelections
  <2> QED BY <2>2, <2>3
<1>9. FairShare'
  <2> SUFFICES ASSUME policy = "fairness", NEW i \in DOMAIN sel, NEW j \in DOMAIN skip
               PROVE  served'[sel[i].class] * Weight[skip[j].class]
                        <= served'[skip[j].class] * Weight[sel[i].class]
                             + MaxCandidates * Weight[skip[j].class]
    BY <1>1 DEF FairShare
  <2>1. sel[i].class \in Classes /\ skip[j].class \in Classes
    BY <1>3, CandidateTyped
  <2>2. PICK a, b \in Classes : a = sel[i].class /\ b = skip[j].class
    BY <2>1
  <2>3. served[a] * Weight[b] <= served[b] * Weight[a]
    <3>1. FairBefore(counts, sel[i], skip[j])
      BY <1>3 DEF Before
    <3>2. served = counts
      BY <1>2
    <3>3. served[a] * Weight[b] \in Int /\ served[b] * Weight[a] \in Int
      BY <1>2, WeightsPositive DEF Classes
    <3> QED BY <2>2, <3>1, <3>2, <3>3 DEF FairBefore, LowerRatio, EqualRatio
  <2>4. Count(sel, a) \in 0 .. MaxCandidates /\ Count(sel, b) \in Nat
    BY <1>6, <1>7
  <2>5. (served[a] + Count(sel, a)) * Weight[b]
          <= (served[b] + Count(sel, b)) * Weight[a] + MaxCandidates * Weight[b]
    BY <1>2, <2>3, <2>4, SelectionIsFair
  <2>6. served'[a] = served[a] + Count(sel, a) /\ served'[b] = served[b] + Count(sel, b)
    BY <1>1
  <2> QED BY <2>2, <2>5, <2>6
<1>10. ServedInv'
  BY <1>1, <1>8, <1>9 DEF ServedInv
<1> QED BY <1>4, <1>5, <1>10

\* Every step of a thread inside run_cycle.
LEMMA CycleStepKeepsCycleInv ==
  ASSUME CycleInv, Inv, NEW t \in Threads, CycleStep(t)
  PROVE  CycleInv'
<1>0. /\ now \in Nat /\ LockHeld /\ NoThread \notin Threads
      /\ QueueInv /\ ScanInv /\ DecisionInv /\ ServedInv /\ LoadInv /\ CurrentInv
  BY LoadTyped, NoThreadIsNone DEF CycleInv, Inv
<1> USE DEF Places, Outside, Working, Ending
<1>1. CASE ListQueueItems(t)
  <2>1. /\ UNCHANGED <<queue, now, load, policy, begun, completed>>
        /\ UNCHANGED <<mode, last, task, current, lock>>
        /\ thread[t] = "listing" /\ thread' = [thread EXCEPT ![t] = "converting"]
    BY <1>1 DEF ListQueueItems, Goto, queueVars, processVars
  <2>2. LoadInv'
    BY <1>0, <2>1, MoveKeepsLoad DEF LockHeld
  <2>3. CurrentInv'
    BY <1>0, <2>1 DEF LockHeld, CurrentInv
  <2> QED BY <1>0, <1>1, <2>1, <2>2, <2>3, ListingStartsScan, SameQueue DEF CycleInv
<1>2. CASE Convert(t)
  <2>1. /\ UNCHANGED <<queue, now, load, policy, begun, completed, thread>>
        /\ UNCHANGED <<mode, last, task, current, lock>>
    BY <1>2 DEF Convert, queueVars, processVars
  <2> QED BY <1>0, <1>2, <2>1, ConvertingKeepsScan, SameQueue, SameLoad, SameCurrent
          DEF CycleInv
<1>3. CASE Evaluate(t)
  <2>1. /\ UNCHANGED <<queue, now, load, policy, begun, completed>>
        /\ UNCHANGED <<mode, last, task, current, lock>>
        /\ thread[t] = "converting" /\ thread' = [thread EXCEPT ![t] = "placing"]
    BY <1>3 DEF Evaluate, Goto, queueVars, processVars
  <2>2. LoadInv'
    BY <1>0, <2>1, MoveKeepsLoad DEF LockHeld
  <2>3. CurrentInv'
    BY <1>0, <2>1 DEF LockHeld, CurrentInv
  <2> QED BY <1>0, <1>3, <2>1, <2>2, <2>3, EvaluatingDecides, SameQueue DEF CycleInv
<1>4. CASE Complete(t) \/ Fail(t)
  <2>1. /\ UNCHANGED <<queue, now, load, cycle, policy, counts, served, begun>>
        /\ UNCHANGED <<task, current, lock>>
        /\ thread[t] \in {"listing", "placing"} /\ thread' = [thread EXCEPT ![t] = "finally"]
        /\ completed' \in {completed, completed + 1}
        /\ mode' \in {mode, "unavailable"} /\ last' \in {"completed", "failed"}
    BY <1>4 DEF Complete, Fail, Goto, queueVars, processVars
  <2>2. ScanInv' /\ DecisionInv'
    BY <1>0, <2>1, ClockKeepsScan
  <2>3. LoadInv'
    BY <1>0, <2>1, MoveKeepsLoad DEF LockHeld
  <2>4. CurrentInv'
    BY <1>0, <2>1 DEF LockHeld, CurrentInv
  <2> QED BY <1>0, <2>1, <2>2, <2>3, <2>4, SameQueue, SameServed DEF CycleInv
<1>5. CASE Finally(t)
  <2>1. /\ UNCHANGED <<queue, now, load, cycle, policy, counts, served, begun, completed>>
        /\ UNCHANGED <<mode, last, task, lock>> /\ current' = FALSE
        /\ thread[t] = "finally" /\ thread' = [thread EXCEPT ![t] = AfterFinally]
        /\ AfterFinally \in {"leaving", "accepting"}
    BY <1>5 DEF Finally, AfterFinally, Goto, queueVars, processVars
  <2>2. ScanInv' /\ DecisionInv'
    BY <1>0, <2>1, ClockKeepsScan
  <2>3. LoadInv'
    BY <1>0, <2>1, MoveKeepsLoad DEF LockHeld
  <2>4. CurrentInv'
    BY <1>0, <2>1 DEF LockHeld, CurrentInv
  <2> QED BY <1>0, <2>1, <2>2, <2>3, <2>4, SameQueue, SameServed DEF CycleInv
<1>6. CASE FinallyAccepts(t)
  <2>1. /\ UNCHANGED <<queue, now, load, cycle, policy, counts, served, begun, completed>>
        /\ UNCHANGED <<last, task, lock, current>> /\ mode' = "accepting"
        /\ thread[t] = "accepting" /\ thread' = [thread EXCEPT ![t] = "leaving"]
    BY <1>6 DEF FinallyAccepts, Goto, queueVars, processVars
  <2>2. ScanInv' /\ DecisionInv'
    BY <1>0, <2>1, ClockKeepsScan
  <2>3. LoadInv'
    BY <1>0, <2>1, MoveKeepsLoad DEF LockHeld
  <2>4. CurrentInv'
    BY <1>0, <2>1 DEF LockHeld, CurrentInv
  <2> QED BY <1>0, <2>1, <2>2, <2>3, <2>4, SameQueue, SameServed DEF CycleInv
<1>7. CASE EndCycle(t)
  <2>1. /\ UNCHANGED <<queue, now, load, policy, counts, served, begun, completed>>
        /\ UNCHANGED <<mode, last, current>> /\ task' \in {task, "sleeping"}
        /\ lock' = NoThread /\ cycle' = NoCycle
        /\ thread[t] = "leaving" /\ thread' = [thread EXCEPT ![t] = "free"]
    BY <1>7 DEF EndCycle, Goto, queueVars, processVars
  <2>2. /\ cycle'.start = 0 /\ cycle'.items = <<>> /\ cycle'.candidates = <<>>
        /\ cycle'.selected = <<>> /\ cycle'.skipped = <<>>
    BY <2>1 DEF NoCycle
  <2>3. ScanInv'
    BY <1>0, <2>1, <2>2 DEF ScanInv, InOrder, Numbered
  <2>4. LoadInv'
    BY <1>0, <2>1, MoveKeepsLoad DEF LockHeld
  <2>5. CurrentInv'
    BY <1>0, <2>1 DEF LockHeld, CurrentInv
  <2> QED BY <1>0, <2>1, <2>2, <2>3, <2>4, <2>5, NothingDecided, SameQueue, SameServed
          DEF CycleInv
<1> QED BY <1>1, <1>2, <1>3, <1>4, <1>5, <1>6, <1>7 DEF CycleStep

LEMMA InitCycleInv == Init => CycleInv
<1> SUFFICES ASSUME Init PROVE CycleInv
  OBVIOUS
<1>1. /\ queue = <<>> /\ now = 0 /\ load \in Loads /\ policy \in Policies
      /\ cycle.start = 0 /\ cycle.items = <<>> /\ cycle.candidates = <<>>
      /\ cycle.selected = <<>> /\ cycle.skipped = <<>>
      /\ counts = [c \in Classes |-> 0] /\ served = [c \in Classes |-> 0]
      /\ begun = 0 /\ completed = 0 /\ thread = [t \in Threads |-> "free"]
      /\ mode = "starting" /\ last = "none" /\ task = "none" /\ current = FALSE
      /\ lock = NoThread
  BY DEF Init, NoCycle
<1>2. load.time \in Nat /\ load.cycles \in Nat
  <2>1. {load.leaves, load.cycles, load.starts, load.time} \subseteq Nat
    BY <1>1, LoadsBounded
  <2> QED BY <2>1
<1>3. QueueInv /\ ScanInv
  BY <1>1 DEF QueueInv, ScanInv, InOrder, Numbered
<1>4. DecisionInv /\ ServedInv
  BY <1>1 DEF DecisionInv, ServedInv, FairShare
<1>5. LoadInv
  <2>1. Unreported = {}
    BY <1>1 DEF Unreported, Working
  <2>2. IsFiniteSet(Unreported) /\ Cardinality(Unreported) = 0
    BY <2>1, FS_EmptySet
  <2> QED BY <1>1, <1>2, <2>2 DEF LoadInv
<1>6. CurrentInv
  BY <1>1 DEF CurrentInv
<1> QED BY <1>3, <1>4, <1>5, <1>6 DEF CycleInv

LEMMA NextKeepsCycleInv == CycleInv /\ Inv /\ [Next]_vars => CycleInv'
<1> SUFFICES ASSUME CycleInv, Inv, [Next]_vars PROVE CycleInv'
  OBVIOUS
<1>1. CASE Next
  <2>1. CASE \E t \in Threads : CycleStep(t)
    BY <2>1, CycleStepKeepsCycleInv
  <2> QED BY <1>1, <2>1, OutsideKeepsCycleInv DEF Next
<1>2. CASE UNCHANGED vars
  <2>1. /\ UNCHANGED <<queue, now, load, cycle, policy, counts, served, begun, completed, thread>>
        /\ UNCHANGED <<mode, last, task, current, lock>>
    BY <1>2 DEF vars, queueVars, processVars
  <2>2. ScanInv' /\ DecisionInv'
    BY <2>1, ClockKeepsScan, LoadTyped DEF CycleInv
  <2> QED BY <2>1, <2>2, SameQueue, SameServed, SameLoad, SameCurrent DEF CycleInv
<1> QED BY <1>1, <1>2

\* The identities of queued requests are as many as the items.
LEMMA QueuedCounted ==
  ASSUME QueueInv
  PROVE  Cardinality(Queued) = Len(queue)
<1> DEFINE f == [i \in 1 .. Len(queue) |-> queue[i].id]
<1>1. Len(queue) \in Nat /\ DOMAIN queue = 1 .. Len(queue)
  BY LenProperties DEF QueueInv
<1>2. f \in [1 .. Len(queue) -> Queued]
  BY <1>1 DEF Queued
<1>3. \A i, j \in 1 .. Len(queue) : f[i] = f[j] => i = j
  BY <1>1 DEF QueueInv
<1>4. \A x \in Queued : \E i \in 1 .. Len(queue) : f[i] = x
  BY <1>1 DEF Queued
<1> HIDE DEF f
<1>5. f \in Bijection(1 .. Len(queue), Queued)
  BY <1>2, <1>3, <1>4, Fun_IsBij
<1>6. /\ IsFiniteSet(1 .. Len(queue))
      /\ Cardinality(1 .. Len(queue)) = IF 1 > Len(queue) THEN 0 ELSE Len(queue) - 1 + 1
  BY <1>1, 1 \in Int, Len(queue) \in Int, FS_Interval, Zenon
<1>7. ExistsBijection(1 .. Len(queue), Queued)
  BY <1>5 DEF ExistsBijection
<1>8. Cardinality(Queued) = Cardinality(1 .. Len(queue))
  BY <1>6, <1>7, FS_Bijection
<1> QED BY <1>1, <1>6, <1>8

\* No policy selects a request over one it would prefer (policies/*.py, evaluate,
\* with queue_item_to_candidate), whatever is queued, by whichever thread and at
\* whatever times the clock is read.
THEOREM PoliciesAreHonoured == Spec => []PolicyHonoured
<1>1. Inv /\ CycleInv => TypeOK
  <2> SUFFICES ASSUME Inv, CycleInv PROVE TypeOK
    OBVIOUS
  <2>1. queue \in Seq(Items) /\ Cardinality(Queued) = Len(queue)
    BY QueuedCounted DEF CycleInv, QueueInv
  <2>2. /\ now \in 0 .. load.time /\ policy \in Policies
        /\ counts \in [Classes -> Nat] /\ served \in [Classes -> Nat]
        /\ running \in BOOLEAN /\ stopping \in BOOLEAN /\ (stopping => running)
    BY DEF CycleInv, Inv, LoadInv, ServedInv, StopsRunning
  <2>3. completed \in 0 .. load.cycles
    <3>1. load.cycles \in Nat /\ Cardinality(Unreported) \in Nat
      BY LoadTyped, FS_CardinalityType DEF CycleInv, LoadInv
    <3> QED BY <3>1 DEF CycleInv, LoadInv
  <2>4. CurrentInv /\ LockHeld
    BY DEF CycleInv, Inv
  <2> QED BY <2>1, <2>2, <2>3, <2>4
          DEF TypeOK, CurrentInv, LockHeld, Places, Outside, Working, Ending
<1>2. CycleInv /\ TypeOK => PolicyHonoured
  BY DEF CycleInv, DecisionInv, Honoured, PolicyHonoured
<1> QED BY <1>1, <1>2, InitInv, NextKeepsInv, InitCycleInv, NextKeepsCycleInv, PTL DEF Spec

\* FairnessPolicy keeps the classes' shares: no class gets ahead of a waiting one
\* by more than one cycle selects per unit of weight, for any weights and limits.
THEOREM SharesAreFair == Spec => []FairShare
<1>1. CycleInv => FairShare
  BY DEF CycleInv, ServedInv
<1> QED BY <1>1, InitInv, NextKeepsInv, InitCycleInv, NextKeepsCycleInv, PTL DEF Spec

=============================================================================
