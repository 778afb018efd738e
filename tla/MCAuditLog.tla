----------------------------- MODULE MCAuditLog -----------------------------
(* The runs of AuditLog: the processes differ in nothing but their names. *)
EXTENDS AuditLog

CONSTANTS p1, p2

ProcessSymmetry == Permutations({p1, p2})
=============================================================================
