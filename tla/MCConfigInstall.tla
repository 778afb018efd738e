--------------------------- MODULE MCConfigInstall --------------------------
(* The runs of ConfigInstall: the processes differ in nothing but their names. *)
EXTENDS ConfigInstall, TLC

CONSTANTS p1, p2, p3, plain, signedA, signedB

ProcessSymmetry == Permutations(Processes)
=============================================================================
