--------------------------- MODULE MCPersistence ---------------------------
(* A small instance of Persistence. *)
EXTENDS Persistence
=============================================================================
