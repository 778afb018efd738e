------------------------- MODULE HttpCircuitBreaker -------------------------
(***************************************************************************)
(* src/security/circuit_breaker.rs: counts the 401/403/429 answers of the  *)
(* last BreakerWindow ticks and, when there are BreakerThreshold of them,  *)
(* closes the outbound path for BreakerOpenFor ticks.                      *)
(***************************************************************************)
EXTENDS Bounds, FailureWindow

CONSTANTS BreakerWindow,    \* breaker_window_ms
          BreakerThreshold, \* breaker_threshold, as configured
          BreakerOpenFor    \* breaker_open_ms

ASSUME HttpCircuitBreakerAssumption ==
    /\ BreakerWindow \in Nat
    /\ BreakerThreshold \in Nat
    /\ BreakerOpenFor \in Nat

\* 500 stands for every status the breaker does not count.
HttpStatuses == {401, 403, 429, 500}
CountedStatuses == {401, 403, 429}

Breakers == [failures : Seq(Nat), openUntil : Nat]

\* HttpCircuitBreaker::new: open_until is None, which no instant is before.
ClosedBreaker == [failures |-> <<>>, openUntil |-> 0]

IsOpen(breaker, t) == t < breaker.openUntil

\* Mutation: opening the breaker clears the failures.
RecordStatusAndClear(breaker, status, t) ==
    LET failures == Trim(Append(breaker.failures, t), BreakerWindow, t) IN
    IF status \notin CountedStatuses THEN breaker
    ELSE IF Len(failures) >= AtLeast(BreakerThreshold, 1)
    THEN [failures |-> <<>>, openUntil |-> t + BreakerOpenFor]
    ELSE [failures |-> failures, openUntil |-> breaker.openUntil]

\* record_status: the failures stay in the deque when the breaker opens.
RecordStatus(breaker, status, t) ==
    LET failures == Trim(Append(breaker.failures, t), BreakerWindow, t) IN
    IF status \notin CountedStatuses
    THEN breaker
    ELSE [failures |-> failures,
          openUntil |-> IF Len(failures) >= AtLeast(BreakerThreshold, 1)
                        THEN t + BreakerOpenFor ELSE breaker.openUntil]
=============================================================================
