--------------------------- MODULE MCControlPlane ---------------------------
(* Constant values for the run of ControlPlane. *)
EXTENDS ControlPlane

CONSTANTS i1, i2, c1, c2
=============================================================================
