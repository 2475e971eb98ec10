------------------------------ MODULE SlotPool ------------------------------
(***************************************************************************)
(* What the batching engine promises its callers, without batches' states, *)
(* admission windows or failures: a pool of numbered slots.  A free slot   *)
(* is granted to a request that never held one, while fewer than MaxHeld   *)
(* slots are held; a slot is given back once its request is retired.       *)
(***************************************************************************)
EXTENDS Integers, FiniteSets

CONSTANTS
  Requests,   \* who may hold a slot
  Slots,      \* the slots
  MaxHeld,    \* slots held at the same time
  Free        \* marks a slot nobody holds

VARIABLES
  holder,     \* who holds each slot
  served      \* requests that hold or held a slot

Held == {s \in Slots : holder[s] # Free}

Init ==
  /\ holder = [s \in Slots |-> Free]
  /\ served = {}

Acquire(r, s) ==
  /\ r \notin served
  /\ holder[s] = Free
  /\ Cardinality(Held) < MaxHeld
  /\ holder' = [holder EXCEPT ![s] = r]
  /\ served' = served \cup {r}

Release(s) ==
  /\ holder[s] # Free
  /\ holder' = [holder EXCEPT ![s] = Free]
  /\ UNCHANGED served

Next == \E s \in Slots : Release(s) \/ \E r \in Requests : Acquire(r, s)

Spec == Init /\ [][Next]_<<holder, served>>
=============================================================================
