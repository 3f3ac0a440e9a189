---------------------------- MODULE MCDOEEngine ----------------------------
(* Input voltages at an edge of the tolerance and just outside the other. *)
EXTENDS DOEEngine

MCInputs == {112, 117}
=============================================================================
