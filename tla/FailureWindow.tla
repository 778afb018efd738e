--------------------------- MODULE FailureWindow ----------------------------
(***************************************************************************)
(* The deque of failure instants that circuit_breaker.rs (`trim`) and      *)
(* core_governor.rs (`trim_sandbox_failures`) both pop from the front of:  *)
(* popping stops at the first instant that is still inside the window.     *)
(***************************************************************************)
EXTENDS Integers, Sequences, FiniteSets

ExpiredPrefix(failures, window, t) ==
    {i \in 1 .. Len(failures) : \A j \in 1 .. i : t - failures[j] > window}

Trim(failures, window, t) ==
    SubSeq(failures, Cardinality(ExpiredPrefix(failures, window, t)) + 1, Len(failures))
=============================================================================
