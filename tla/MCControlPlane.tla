--------------------------- MODULE MCControlPlane ---------------------------
(* Small instances of ControlPlane with interchangeable requests. *)
EXTENDS ControlPlane, TLC

Symmetry == Permutations(Requests)
=============================================================================
