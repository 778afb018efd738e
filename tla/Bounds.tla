------------------------------- MODULE Bounds -------------------------------
(***************************************************************************)
(* The two clamps the governor's components are configured with            *)
(* (`x.max(floor)` and `x.min(ceiling)` in the Rust sources).              *)
(***************************************************************************)
EXTENDS Integers

AtLeast(x, floor) == IF x < floor THEN floor ELSE x

AtMost(x, ceiling) == IF x > ceiling THEN ceiling ELSE x
=============================================================================
