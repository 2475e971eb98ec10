--------------------------- MODULE MCRequestPath ---------------------------
(* Small instances of RequestPath, with one model. *)
EXTENDS RequestPath

CONSTANT model

MCModelOf == [r \in Requests |-> model]
=============================================================================
