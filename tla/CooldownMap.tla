---------------------------- MODULE CooldownMap -----------------------------
(***************************************************************************)
(* CooldownMap of src/security/core_governor.rs: the instant before which  *)
(* a key may not act again.  A key without an entry is at instant 0, which *)
(* no `now` is before.                                                     *)
(***************************************************************************)
EXTENDS Integers

NoCooldowns(Keys) == [k \in Keys |-> 0]

IsCooling(nextAllowed, k, t) == t < nextAllowed[k]

MarkCooldown(nextAllowed, k, t, ttl) == [nextAllowed EXCEPT ![k] = t + ttl]
=============================================================================
