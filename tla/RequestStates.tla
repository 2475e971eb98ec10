--------------------------- MODULE RequestStates ---------------------------
(***************************************************************************)
(* The request state machine of the control plane: the states of           *)
(* packages/common-schemas and the transition table of                     *)
(* control_plane/lifecycle/transitions.py.                                 *)
(***************************************************************************)

TerminalStates == {"completed", "failed", "timed_out", "rejected", "cancelled"}

RequestState == TerminalStates \cup
  {"received", "validated", "admitted", "queued", "scheduled", "batched",
   "submitted", "prefilling", "decoding", "streaming"}

AllowedTargets(s) ==
  CASE s = "received"   -> {"validated", "cancelled", "failed"}
    [] s = "validated"  -> {"admitted", "rejected", "cancelled"}
    [] s = "admitted"   -> {"queued", "scheduled", "rejected", "cancelled", "failed"}
    [] s = "queued"     -> {"scheduled", "rejected", "timed_out", "cancelled", "failed"}
    [] s = "scheduled"  -> {"batched", "prefilling", "failed", "timed_out", "cancelled"}
    [] s = "batched"    -> {"submitted", "rejected", "failed", "cancelled"}
    [] s = "submitted"  -> {"streaming", "decoding", "completed", "failed", "cancelled"}
    [] s = "prefilling" -> {"decoding", "failed", "timed_out", "cancelled"}
    [] s = "decoding"   -> {"streaming", "completed", "failed", "timed_out", "cancelled"}
    [] s = "streaming"  -> {"completed", "cancelled", "failed"}
    [] OTHER            -> {}

IsAllowedTransition(from, to) == to \in AllowedTargets(from)
=============================================================================
