---------------------------- MODULE TokenBucket -----------------------------
(***************************************************************************)
(* src/security/rate_limiter.rs: the global outbound token bucket.  The    *)
(* f64 token count is counted in units of 1/TokenUnit token and time in    *)
(* ticks, so that a refill of a fraction of a token is an integer.         *)
(***************************************************************************)
EXTENDS Bounds

CONSTANTS Burst,         \* global_rate_burst, as configured
          RefillPerTick, \* units per tick; global_rate_per_sec is clamped to >= 0.1
          TokenUnit      \* units that make one token

ASSUME TokenBucketAssumption ==
    /\ Burst \in Nat
    /\ RefillPerTick \in Nat \ {0}
    /\ TokenUnit \in Nat \ {0}

Capacity == TokenUnit * AtLeast(Burst, 1)

Buckets == [tokens : 0 .. Capacity, lastRefill : Nat]

\* TokenBucket::new
FullBucket(t) == [tokens |-> Capacity, lastRefill |-> t]

\* Mutation: the refill is not capped.
RefillUncapped(bucket, t) ==
    IF t <= bucket.lastRefill
    THEN bucket
    ELSE [tokens |-> bucket.tokens + (t - bucket.lastRefill) * RefillPerTick, lastRefill |-> t]

\* TokenBucket::refill
Refill(bucket, t) ==
    IF t <= bucket.lastRefill
    THEN bucket
    ELSE [tokens |-> AtMost(bucket.tokens + (t - bucket.lastRefill) * RefillPerTick, Capacity),
          lastRefill |-> t]

\* TokenBucket::try_take: the refill happens whether or not the take succeeds.
CanTake(bucket, amount, t) == Refill(bucket, t).tokens >= TokenUnit * AtLeast(amount, 1)

\* Mutation: a take that succeeds forgets to subtract.
AfterFreeTake(bucket, amount, t) == Refill(bucket, t)

AfterTake(bucket, amount, t) ==
    IF CanTake(bucket, amount, t)
    THEN [Refill(bucket, t) EXCEPT !.tokens = @ - TokenUnit * AtLeast(amount, 1)]
    ELSE Refill(bucket, t)
=============================================================================
