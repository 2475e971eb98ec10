--------------------------- MODULE DurableHistory ---------------------------
(***************************************************************************)
(* What the durable runtime history promises the gateway and the replay    *)
(* engine, without tables, statements, caches or recovery: a history that  *)
(* holds one whole snapshot per request and one outcome per replay, and a  *)
(* transaction open on it, in which one write at a time is made.  What was *)
(* acknowledged is in the history until it is withdrawn.  A transaction    *)
(* may be lost at any time, and then as a whole.                           *)
(***************************************************************************)
EXTENDS Naturals

CONSTANTS
  Ids,        \* requests, replays among them
  Replays,    \* ids of replays
  Versions,   \* numbers of a request's snapshots
  Outcomes    \* of a replay, "error" among them

VARIABLES
  history,      \* what survives
  open,         \* what the open transaction sees
  made,         \* snapshots made of each request
  writing,      \* the request whose snapshot is being written, if any
  concluding,   \* the replay whose outcome is being written, if any
  acknowledged, \* the snapshot last acknowledged, per request (0: none)
  told          \* the outcome told, per replay

vars == <<writing, concluding, made, acknowledged, told, history, open>>

NoSnapshots == [r \in Ids |-> 0]
NoOutcomes == [p \in Replays |-> "none"]

Init ==
  /\ history = [snapshots |-> NoSnapshots, outcomes |-> NoOutcomes]
  /\ open = history
  /\ made = NoSnapshots
  /\ writing = {} /\ concluding = {}
  /\ acknowledged = NoSnapshots
  /\ told = NoOutcomes

Quiescent == writing = {} /\ concluding = {}

TellsError(r) == told' = [p \in Replays |-> IF p = r THEN "error" ELSE told[p]]

\* A new snapshot of r is begun; nobody else writes until it is done.
Begin(r) ==
  /\ Quiescent
  /\ made[r] + 1 \in Versions
  /\ writing' = {r}
  /\ made' = [made EXCEPT ![r] = @ + 1]
  /\ UNCHANGED <<concluding, acknowledged, told, history>>
  /\ open' = [open EXCEPT !.snapshots = [@ EXCEPT ![r] = made[r] + 1]]

\* The snapshot is in the history, and its writer is told so.
Acknowledge(r) ==
  /\ r \in writing
  /\ writing' = {}
  /\ acknowledged' = [acknowledged EXCEPT ![r] = made[r]]
  /\ UNCHANGED <<made, concluding, told, open>>
  /\ history' = open

\* The snapshot fails, and with it the transaction.
RollBack(r) ==
  /\ r \in writing
  /\ writing' = {}
  /\ TellsError(r)
  /\ UNCHANGED <<made, concluding, acknowledged, history>>
  /\ open' = history

\* The outcome of a replay is written after its snapshot was acknowledged.
Conclude(p, outcome) ==
  /\ Quiescent
  /\ acknowledged[p] # 0
  /\ concluding' = {p}
  /\ UNCHANGED <<made, writing, acknowledged, told, history>>
  /\ open' = [open EXCEPT !.outcomes = [@ EXCEPT ![p] = outcome]]

Report(p) ==
  /\ p \in concluding
  /\ concluding' = {}
  /\ told' = [told EXCEPT ![p] = open.outcomes[p]]
  /\ UNCHANGED <<made, writing, acknowledged, open>>
  /\ history' = open

\* A replay fails before or while its outcome is written.
Fail(p) ==
  /\ writing = {} /\ concluding \subseteq {p}
  /\ concluding' = {}
  /\ TellsError(p)
  /\ UNCHANGED <<made, writing, acknowledged, history, open>>

\* Something else is committed, and takes along what is pending.
Commit ==
  /\ Quiescent
  /\ UNCHANGED <<made, writing, concluding, acknowledged, told, open>>
  /\ history' = open

\* The snapshot of r is given up: from now on it may vanish.
Withdraw(r) ==
  /\ Quiescent
  /\ acknowledged' = [acknowledged EXCEPT ![r] = 0]
  /\ UNCHANGED <<made, writing, concluding, told, history>>
  /\ open' = [open EXCEPT !.snapshots = [@ EXCEPT ![r] = 0]]

\* The process ends, and whatever was not committed is lost.
Lose ==
  /\ writing' = {} /\ concluding' = {}
  /\ UNCHANGED <<made, acknowledged, told, history>>
  /\ open' = history

Next ==
  \/ \E r \in Ids : Begin(r) \/ Acknowledge(r) \/ RollBack(r) \/ Withdraw(r)
  \/ \E p \in Replays : Report(p) \/ Fail(p) \/ \E o \in Outcomes : Conclude(p, o)
  \/ Commit \/ Lose

Spec == Init /\ [][Next]_vars
=============================================================================
