------------------------- MODULE TrustedCoreProofs --------------------------
(***************************************************************************)
(* Invariants of the governor for every value of its constants: its types, *)
(* the outbound rate, the cooldowns, and one action per message; that it   *)
(* implements OutboundPolicy when the cache can hold every message id;     *)
(* that two trimmed deques of failures tell as much as the whole history,  *)
(* that every change of mode has its reason, and that nothing goes out     *)
(* that a breaker, a kill switch or a mode forbids.                        *)
(***************************************************************************)
EXTENDS TrustedCore, TLAPS, FiniteSetTheorems, SequenceTheorems

----------------------------------------------------------------------------
(* What the governor's components return. *)

\* ModeState::transition enters a mode at the present instant or leaves the state alone.
LEMMA TransitionType ==
    ASSUME NEW state \in ModeStates, NEW t \in Nat, state.changedAt <= t,
           NEW target \in [mode : RuntimeModes, trigger : ModeTriggers]
    PROVE  /\ Transition(state, target, t) \in ModeStates
           /\ Transition(state, target, t).changedAt <= t
BY DEF Transition, ModeStates

\* trim leaves a deque of instants.
LEMMA TrimType ==
    ASSUME NEW failures \in Seq(Nat), NEW window \in Nat, NEW t \in Nat
    PROVE  Trim(failures, window, t) \in Seq(Nat)
<1> DEFINE E == ExpiredPrefix(failures, window, t)
<1>1. Len(failures) \in Nat
  OBVIOUS
<1>2. IsFiniteSet(1 .. Len(failures)) /\ E \in SUBSET (1 .. Len(failures))
  BY <1>1, FS_Interval DEF ExpiredPrefix
<1>3. IsFiniteSet(E) /\ Cardinality(E) <= Cardinality(1 .. Len(failures))
  BY <1>2, FS_Subset
<1>4. Cardinality(E) \in Nat
  BY <1>3, FS_CardinalityType
<1>5. \A i \in Cardinality(E) + 1 .. Len(failures) : failures[i] \in Nat
  BY <1>4
<1>6. SubSeq(failures, Cardinality(E) + 1, Len(failures)) \in Seq(Nat)
  BY <1>1, <1>4, <1>5
<1> QED
  BY <1>6 DEF Trim

\* TokenBucket::new clamps the capacity to at least one token.
LEMMA CapacityPositive == Capacity \in Nat /\ TokenUnit <= Capacity
<1>1. AtLeast(Burst, 1) \in Nat \ {0}
  BY TokenBucketAssumption DEF AtLeast
<1>2. \A a, b \in Nat \ {0} : a * b \in Nat /\ a <= a * b
  OBVIOUS
<1> QED
  BY <1>1, <1>2, TokenBucketAssumption DEF Capacity

\* refill brings the bucket up to the present and adds at most what the time allows.
LEMMA RefillBound ==
    ASSUME NEW b \in Buckets, NEW t \in Nat, b.lastRefill <= t
    PROVE  /\ Refill(b, t) \in Buckets
           /\ Refill(b, t).lastRefill = t
           /\ Refill(b, t).tokens <= b.tokens + RefillPerTick * (t - b.lastRefill)
<1>1. b.tokens \in 0 .. Capacity /\ b.lastRefill \in Nat /\ Capacity \in Nat
  BY CapacityPositive DEF Buckets
<1>2. CASE t <= b.lastRefill
  <2>1. t = b.lastRefill /\ RefillPerTick * (t - b.lastRefill) = 0
    BY <1>1, <1>2, TokenBucketAssumption
  <2> QED
    BY <1>1, <1>2, <2>1 DEF Refill, Buckets
<1>3. CASE ~(t <= b.lastRefill)
  <2> DEFINE gain == (t - b.lastRefill) * RefillPerTick
  <2>1. \A x, y \in Nat : x * y \in Nat /\ x * y = y * x
    OBVIOUS
  <2>2. gain \in Nat /\ gain = RefillPerTick * (t - b.lastRefill)
    BY <1>1, <1>3, <2>1, TokenBucketAssumption
  <2>3. Refill(b, t) = [tokens |-> AtMost(b.tokens + gain, Capacity), lastRefill |-> t]
    BY <1>3 DEF Refill
  <2>4. /\ AtMost(b.tokens + gain, Capacity) \in 0 .. Capacity
        /\ AtMost(b.tokens + gain, Capacity) <= b.tokens + gain
    BY <1>1, <2>2 DEF AtMost
  <2> QED
    BY <2>2, <2>3, <2>4 DEF Buckets
<1> QED
  BY <1>2, <1>3

\* try_take(1): a successful take leaves exactly one token less than the refilled bucket
\* held, a failed one the refilled bucket.
LEMMA TakeOne ==
    ASSUME NEW b \in Buckets, NEW t \in Nat, b.lastRefill <= t
    PROVE  /\ AfterTake(b, 1, t) \in Buckets
           /\ AfterTake(b, 1, t).lastRefill = t
           /\ CanTake(b, 1, t) =>
                AfterTake(b, 1, t).tokens = Refill(b, t).tokens - TokenUnit
           /\ ~CanTake(b, 1, t) => AfterTake(b, 1, t) = Refill(b, t)
<1>1. Refill(b, t) \in Buckets /\ Refill(b, t).lastRefill = t
  BY RefillBound
<1>2. Refill(b, t).tokens \in 0 .. Capacity /\ Capacity \in Nat
  BY <1>1, CapacityPositive DEF Buckets
<1>3. TokenUnit * AtLeast(1, 1) = TokenUnit /\ TokenUnit \in Nat
  BY TokenBucketAssumption DEF AtLeast
<1>4. CASE CanTake(b, 1, t)
  <2>1. AfterTake(b, 1, t) = [Refill(b, t) EXCEPT !.tokens = @ - TokenUnit]
    BY <1>3, <1>4 DEF AfterTake
  <2>2. Refill(b, t).tokens - TokenUnit \in 0 .. Capacity
    BY <1>2, <1>3, <1>4 DEF CanTake
  <2> QED
    BY <1>1, <1>4, <2>1, <2>2 DEF Buckets
<1>5. CASE ~CanTake(b, 1, t)
  BY <1>1, <1>5 DEF AfterTake
<1> QED
  BY <1>4, <1>5

\* is_duplicate_and_mark leaves a cache of instants, none later than the present.
LEMMA MarkedType ==
    ASSUME NEW cache \in Caches, NEW m \in MsgIds, NEW t \in Nat,
           \A x \in MsgIds : cache[x] <= t,
           NEW after \in Marked(cache, m, t)
    PROVE  after \in Caches /\ \A x \in MsgIds : after[x] <= t
<1> DEFINE marked == [EvictOld(cache, t) EXCEPT ![m] = t]
<1>1. EvictOld(cache, t) \in Caches /\ \A x \in MsgIds : EvictOld(cache, t)[x] <= t
  BY DEF EvictOld, Caches, Absent
<1>2. marked \in Caches /\ \A x \in MsgIds : marked[x] <= t
  BY <1>1 DEF Caches
<1>3. CASE Cardinality(Cached(marked)) <= EffectiveCap
  BY <1>2, <1>3 DEF Marked, Compacted
<1>4. CASE ~(Cardinality(Cached(marked)) <= EffectiveCap)
  <2>1. PICK keep \in SUBSET Cached(marked) :
            after = [x \in MsgIds |-> IF x \in keep THEN marked[x] ELSE Absent]
    BY <1>4 DEF Marked, Compacted
  <2> QED
    BY <1>2, <2>1 DEF Caches, Absent
<1> QED
  BY <1>3, <1>4

\* No cache holds more entries than there are ids.
LEMMA CachedSize ==
    ASSUME Cardinality(MsgIds) <= EffectiveCap, NEW cache
    PROVE  Cardinality(Cached(cache)) <= EffectiveCap
<1>1. Cached(cache) \in SUBSET MsgIds
  BY DEF Cached
<1>2. /\ Cardinality(Cached(cache)) <= Cardinality(MsgIds)
      /\ Cardinality(Cached(cache)) \in Nat /\ Cardinality(MsgIds) \in Nat
  BY <1>1, FS_Subset, FS_CardinalityType, DuplicateGuardAssumption
<1>3. EffectiveCap \in Nat
  BY DuplicateGuardAssumption DEF EffectiveCap, AtLeast
<1> QED
  BY <1>2, <1>3

\* When the entry fits, nothing is compacted away: the call only evicts what has expired
\* and marks the message.
LEMMA MarkedWithoutCompaction ==
    ASSUME NEW cache \in Caches, NEW m \in MsgIds, NEW t \in Nat,
           Cardinality(Cached([EvictOld(cache, t) EXCEPT ![m] = t])) <= EffectiveCap,
           NEW after \in Marked(cache, m, t)
    PROVE  after = [EvictOld(cache, t) EXCEPT ![m] = t]
BY DEF Marked, Compacted

\* record_status leaves a well-formed breaker.
LEMMA RecordStatusType ==
    ASSUME NEW b \in Breakers, NEW status, NEW t \in Nat
    PROVE  RecordStatus(b, status, t) \in Breakers
<1>1. Append(b.failures, t) \in Seq(Nat)
  BY DEF Breakers
<1>2. Trim(Append(b.failures, t), BreakerWindow, t) \in Seq(Nat)
  BY <1>1, TrimType, HttpCircuitBreakerAssumption
<1>3. t + BreakerOpenFor \in Nat
  BY HttpCircuitBreakerAssumption
<1> QED
  BY <1>2, <1>3 DEF RecordStatus, Breakers

\* compile_response yields one of the four actions, and no message in any mode but Normal.
LEMMA CompiledAction ==
    ASSUME NEW proposal, NEW m \in RuntimeModes, NEW suspicion, NEW total
    PROVE  /\ CompileResponse(proposal, m, suspicion, total) \in BotActions
           /\ CompileResponse(proposal, m, suspicion, total) # "Noop"
                => m \in {"Normal", "ReactOnly"}
           /\ CompileResponse(proposal, m, suspicion, total) \in Sends => m = "Normal"
<1> USE DEF BotActions, Outbound, Sends
<1> DEFINE softened == IF suspicion = "Soft" THEN Soften(ProposalToAction(proposal, total))
                       ELSE ProposalToAction(proposal, total)
           gated == ModeGate(m, softened)
<1>1. ProposalToAction(proposal, total) \in BotActions
  BY DEF ProposalToAction
<1>2. softened \in BotActions
  BY <1>1 DEF Soften
<1>3. /\ gated \in BotActions
      /\ gated # "Noop" => m \in {"Normal", "ReactOnly"}
      /\ gated \in Sends => m = "Normal"
  BY <1>2 DEF ModeGate, Soften, RuntimeModes
<1>4. /\ PolicyGate(gated) \in BotActions
      /\ PolicyGate(gated) # "Noop" => gated # "Noop"
      /\ PolicyGate(gated) \in Sends => gated \in Sends
  BY <1>3, ResponseCompilerAssumption DEF PolicyGate, Soften
<1>5. ValidOrNoop(PolicyGate(gated)) \in {PolicyGate(gated), "Noop"}
  BY DEF ValidOrNoop
<1> QED
  BY <1>3, <1>4, <1>5 DEF CompileResponse

----------------------------------------------------------------------------
(* Types. *)

OutboundRecord == [at : Nat, msg : MsgIds, action : Outbound]

\* The part of the context of a message that the cooldowns look at is in their domains.
LEMMA ContextType ==
    ASSUME NEW m \in MsgIds
    PROVE  /\ Context[m].user \in Users /\ Context[m].channel \in Channels
           /\ Context[m].guild \in Guilds \cup {NoGuild}
BY TrustedCoreAssumption

\* recompute_mode always has a mode and a trigger to go to.
LEMMA TargetType ==
    ASSUME TypeOK
    PROVE  TargetMode \in [mode : RuntimeModes, trigger : ModeTriggers]
BY TrustedCoreAssumption DEF TypeOK, TargetMode, RuntimeModes, ModeTriggers

\* What every decide_message does first.
LEMMA RecomputeType ==
    ASSUME TypeOK, RecomputeMode
    PROVE  mode' \in ModeStates /\ mode'.changedAt <= now
BY TargetType, TransitionType DEF TypeOK, RecomputeMode

\* What trim_sandbox_failures keeps are instants.
LEMMA LiveFailuresType == TypeOK => LiveFailures \in Seq(Nat)
BY TrimType, TrustedCoreAssumption DEF TypeOK, LiveFailures

\* A compiled action that is not Noop is one the bot can perform.
LEMMA CompiledOutbound ==
    ASSUME TypeOK, NEW proposal, NEW suspicion, NEW total,
           CompileResponse(proposal, CurrentMode, suspicion, total) # "Noop"
    PROVE  CompileResponse(proposal, CurrentMode, suspicion, total) \in Outbound
<1>1. CurrentMode \in RuntimeModes
  BY TargetType DEF CurrentMode
<1> QED
  BY <1>1, CompiledAction DEF BotActions

\* finalize keeps the bucket, the cooldowns, the verdict and the history in their types.
LEMMA FinalizeType ==
    ASSUME TypeOK, NEW m \in MsgIds, NEW proposal, NEW action,
           action # "Noop" => action \in Outbound,
           Finalize(m, proposal, action)
    PROVE  /\ bucket' \in Buckets /\ bucket'.lastRefill <= now
           /\ userCooldown' \in [Users -> Nat] /\ channelCooldown' \in [Channels -> Nat]
           /\ guildCooldown' \in [Guilds -> Nat] /\ globalCooldown' \in [{0} -> Nat]
           /\ verdict' \in Outbound \cup {"Noop"} \cup SuppressReasons
           /\ outbound' \in Seq(OutboundRecord)
<1> USE DEF SuppressReasons
<1>t. /\ bucket \in Buckets /\ bucket.lastRefill <= now /\ now \in Nat
      /\ outbound \in Seq(OutboundRecord)
  BY TrustedCoreAssumption DEF TypeOK, OutboundRecord
<1>b. AfterTake(bucket, 1, now) \in Buckets /\ AfterTake(bucket, 1, now).lastRefill <= now
  BY <1>t, TakeOne
<1>g. MarkGuild(Context[m].guild) => guildCooldown' \in [Guilds -> Nat]
  BY <1>t, ContextType, TrustedCoreAssumption DEF MarkGuild, MarkCooldown, TypeOK
<1>1. CASE SuppressNoop(proposal, action)
  BY <1>1, <1>t DEF SuppressNoop, NoopReason, TypeOK, cooldowns
<1>2. CASE SuppressCircuitOpen(action)
  BY <1>2, <1>t DEF SuppressCircuitOpen, TypeOK, cooldowns
<1>3. CASE SuppressRateLimit(action)
  BY <1>3, <1>t, <1>b DEF SuppressRateLimit, TypeOK, cooldowns
<1>4. CASE SuppressAllActions(action)
  BY <1>4, <1>t, <1>b DEF SuppressAllActions, PassBucket, TypeOK, cooldowns
<1>5. CASE SuppressCooldown(m, action)
  <2>1. guildCooldown' \in [Guilds -> Nat]
    BY <1>5, <1>g DEF SuppressCooldown, TypeOK
  <2> QED
    BY <1>5, <2>1, <1>t, <1>b DEF SuppressCooldown, PassBucket, TypeOK
<1>6. CASE Act(m, action)
  <2>1. /\ userCooldown' \in [Users -> Nat] /\ channelCooldown' \in [Channels -> Nat]
        /\ globalCooldown' \in [{0} -> Nat]
    BY <1>6, <1>t, ContextType, TrustedCoreAssumption DEF Act, MarkCooldown, TypeOK
  <2>2. action \in Outbound
    BY <1>6 DEF Act, PassBucket
  <2>3. [at |-> now, msg |-> m, action |-> action] \in OutboundRecord
    BY <1>t, <2>2 DEF OutboundRecord
  <2>4. outbound' \in Seq(OutboundRecord)
    BY <1>6, <1>t, <2>3 DEF Act
  <2> QED
    BY <1>6, <2>1, <2>2, <2>4, <1>g, <1>b DEF Act, PassBucket
<1> QED
  BY <1>1, <1>2, <1>3, <1>4, <1>5, <1>6 DEF Finalize

\* Each of the three ways through decide_message keeps the types.
LEMMA DecideType ==
    ASSUME TypeOK, NEW m \in MsgIds, DecideMessage(m)
    PROVE  TypeOK'
<1>t. now \in Nat /\ seen \in Caches /\ \A x \in MsgIds : seen[x] <= now
  BY TrustedCoreAssumption DEF TypeOK
<1>1. CASE RefuseMessage(m)
  <2>1. Admission(m) \in SuppressReasons
    BY <1>1 DEF RefuseMessage, Admission, SuppressReasons
  <2> QED
    BY <1>1, <2>1, RecomputeType, LiveFailuresType
       DEF RefuseMessage, TypeOK, settings, cooldowns
<1>2. CASE DropDuplicate(m)
  <2>1. seen' \in Caches /\ \A x \in MsgIds : seen'[x] <= now
    BY <1>2, <1>t, MarkedType DEF DropDuplicate
  <2> QED
    BY <1>2, <2>1, RecomputeType, LiveFailuresType
       DEF DropDuplicate, TypeOK, settings, cooldowns, SuppressReasons
<1>3. ASSUME NEW suspicion \in SuspicionLevels, NEW reply \in Replies, NEW total \in Totals,
             EvaluateMessage(m, suspicion, reply, total)
      PROVE  TypeOK'
  <2> DEFINE proposal == Proposal(suspicion, reply)
             action == CompileResponse(proposal, CurrentMode, suspicion, total)
  <2>1. seen' \in Caches /\ \A x \in MsgIds : seen'[x] <= now
    BY <1>3, <1>t, MarkedType DEF EvaluateMessage
  <2>2. sandboxFailures' \in Seq(Nat) /\ analyzerErrors' \in Seq(Nat)
    <3>1. CASE AnalyzerFails(suspicion, reply)
      <4>1. Append(LiveFailures, now) \in Seq(Nat)
        BY <1>t, LiveFailuresType
      <4>2. RecordAnalyzerError
        BY <1>3, <3>1 DEF EvaluateMessage
      <4>3. Trim(Append(LiveFailures, now), SandboxWindow, now) \in Seq(Nat)
        BY <1>t, <4>1, TrimType, TrustedCoreAssumption
      <4>4. analyzerErrors \in Seq(Nat)
        BY DEF TypeOK
      <4> QED
        BY <1>t, <4>2, <4>3, <4>4 DEF RecordAnalyzerError
    <3>2. CASE ~AnalyzerFails(suspicion, reply)
      BY <1>3, <3>2, LiveFailuresType DEF EvaluateMessage, TypeOK
    <3> QED
      BY <3>1, <3>2
  <2>3. action # "Noop" => action \in Outbound
    BY CompiledOutbound
  <2>4. Finalize(m, proposal, action)
    BY <1>3 DEF EvaluateMessage
  <2>5. /\ bucket' \in Buckets /\ bucket'.lastRefill <= now
        /\ userCooldown' \in [Users -> Nat] /\ channelCooldown' \in [Channels -> Nat]
        /\ guildCooldown' \in [Guilds -> Nat] /\ globalCooldown' \in [{0} -> Nat]
        /\ verdict' \in Outbound \cup {"Noop"} \cup SuppressReasons
        /\ outbound' \in Seq(OutboundRecord)
    BY <2>3, <2>4, FinalizeType
  <2>6. RecomputeMode
    BY <1>3 DEF EvaluateMessage
  <2> QED
    BY <1>3, <2>1, <2>2, <2>5, <2>6, RecomputeType
       DEF EvaluateMessage, TypeOK, settings, OutboundRecord
<1> QED
  BY <1>1, <1>2, <1>3 DEF DecideMessage

\* Each of the governor's methods, and the passing of time, keeps the types.
LEMMA TypeStep ==
    ASSUME TypeOK, [Next]_coreVars
    PROVE  TypeOK'
<1> USE DEF settings, cooldowns
<1>1. ASSUME NEW m \in MsgIds, DecideMessage(m) PROVE TypeOK'
  BY <1>1, DecideType
<1>2. ASSUME NEW status \in HttpStatuses, RecordHttpStatus(status) PROVE TypeOK'
  <2>1. now \in Nat /\ breaker \in Breakers
    BY TrustedCoreAssumption DEF TypeOK
  <2>2. RecordStatus(breaker, status, now) \in Breakers
    BY <2>1, RecordStatusType
  <2>3. httpFailures' \in Seq(Nat)
    BY <1>2, <2>1 DEF RecordHttpStatus, TypeOK
  <2> QED
    BY <1>2, <2>2, <2>3 DEF RecordHttpStatus, TypeOK
<1>3. ASSUME NEW override \in Overrides, SetModeOverride(override) PROVE TypeOK'
  BY <1>3 DEF SetModeOverride, UnchangedBySetters, TypeOK
<1>4. ASSUME NEW enabled \in KillSettings, SetEmergencyKillSwitch(enabled) PROVE TypeOK'
  BY <1>4 DEF SetEmergencyKillSwitch, UnchangedBySetters, TypeOK
<1>5. ASSUME NEW lists \in AccessLists, SetAccessLists(lists) PROVE TypeOK'
  BY <1>5 DEF SetAccessLists, UnchangedBySetters, TypeOK
<1>6. ASSUME NEW remaining \in BudgetValues, UpdateSessionBudget(remaining) PROVE TypeOK'
  BY <1>6 DEF UpdateSessionBudget, UnchangedBySetters, TypeOK
<1>7. CASE Tick
  <2>1. now \in Nat /\ now' = now + 1 /\ now' \in 0 .. MaxTime
    BY <1>7, TrustedCoreAssumption DEF Tick, TypeOK
  <2>2. mode.changedAt \in Nat /\ bucket.lastRefill \in Nat /\ seen \in [MsgIds -> Int]
    BY DEF TypeOK, ModeStates, Buckets, Caches, Absent
  <2>3. mode.changedAt <= now' /\ bucket.lastRefill <= now' /\ \A m \in MsgIds : seen[m] <= now'
    BY <2>1, <2>2 DEF TypeOK
  <2> QED
    BY <1>7, <2>1, <2>3 DEF Tick, TypeOK
<1>8. CASE UNCHANGED coreVars
  BY <1>8 DEF coreVars, TypeOK
<1> QED
  BY <1>1, <1>2, <1>3, <1>4, <1>5, <1>6, <1>7, <1>8 DEF Next

\* The state TrustedCore::new builds.
LEMMA InitType ==
    ASSUME Init
    PROVE  TypeOK
<1>1. FullBucket(0) \in Buckets
  BY CapacityPositive DEF FullBucket, Buckets
<1>2. <<>> \in Seq(Nat) /\ <<>> \in Seq([at : Nat, msg : MsgIds, action : Outbound])
  OBVIOUS
<1>3. InitialMode(0) \in ModeStates /\ ClosedBreaker \in Breakers
  BY DEF InitialMode, ModeStates, RuntimeModes, ModeTriggers, ClosedBreaker, Breakers
<1>4. EmptyCache \in Caches /\ \A m \in MsgIds : EmptyCache[m] <= 0
  BY DEF EmptyCache, Caches, Absent
<1>5. FullBucket(0).lastRefill <= 0 /\ InitialMode(0).changedAt <= 0
  BY DEF FullBucket, InitialMode
<1> QED
  BY <1>1, <1>2, <1>3, <1>4, <1>5, TrustedCoreAssumption
     DEF Init, TypeOK, NoCooldowns

\* The types hold in every state the governor can reach, for every value of the constants.
THEOREM TypeCorrect == Spec => []TypeOK
<1>1. Init => TypeOK
  BY InitType
<1>2. TypeOK /\ [Next]_coreVars => TypeOK'
  BY TypeStep
<1> QED
  BY <1>1, <1>2, PTL DEF Spec

----------------------------------------------------------------------------
(* Every step either leaves the outbound path alone or is an evaluated message that      *)
(* reached the token bucket. *)

SeenStep == seen' = seen \/ \E m \in MsgIds : seen' \in Marked(seen, m, now)

IdleStep ==
    /\ UNCHANGED <<bucket, userCooldown, channelCooldown, guildCooldown, globalCooldown, outbound>>
    /\ now' >= now
    /\ SeenStep

OutboundStep(m, action) ==
    /\ now' = now
    /\ ~IsDuplicate(seen, m, now)
    /\ seen' \in Marked(seen, m, now)
    /\ \/ SuppressRateLimit(action)
       \/ SuppressAllActions(action)
       \/ SuppressCooldown(m, action)
       \/ Act(m, action)

\* Of all the governor's methods, only decide_message touches the bucket, the cooldowns or
\* what is acted upon, and only for a message it has just marked as handled.
LEMMA StepKinds ==
    ASSUME TypeOK, [Next]_coreVars
    PROVE  IdleStep \/ \E m \in MsgIds, action \in Outbound : OutboundStep(m, action)
<1> USE DEF settings, cooldowns, SeenStep
<1>t. now \in Nat
  BY TrustedCoreAssumption DEF TypeOK
<1>1. ASSUME NEW m \in MsgIds, RefuseMessage(m) PROVE IdleStep
  BY <1>1, <1>t DEF RefuseMessage, IdleStep
<1>2. ASSUME NEW m \in MsgIds, DropDuplicate(m) PROVE IdleStep
  BY <1>2, <1>t DEF DropDuplicate, IdleStep
<1>3. ASSUME NEW m \in MsgIds, NEW suspicion \in SuspicionLevels, NEW reply \in Replies,
             NEW total \in Totals, EvaluateMessage(m, suspicion, reply, total)
      PROVE  IdleStep \/ \E action \in Outbound : OutboundStep(m, action)
  <2> DEFINE proposal == Proposal(suspicion, reply)
             action == CompileResponse(proposal, CurrentMode, suspicion, total)
  <2>1. /\ now' = now /\ ~IsDuplicate(seen, m, now) /\ seen' \in Marked(seen, m, now)
        /\ Finalize(m, proposal, action)
    BY <1>3 DEF EvaluateMessage
  <2>2. CASE SuppressNoop(proposal, action)
    BY <1>t, <2>1, <2>2 DEF SuppressNoop, IdleStep
  <2>3. CASE SuppressCircuitOpen(action)
    BY <1>t, <2>1, <2>3 DEF SuppressCircuitOpen, IdleStep
  <2>4. CASE ~SuppressNoop(proposal, action) /\ ~SuppressCircuitOpen(action)
    <3>1. /\ action # "Noop"
          /\ \/ SuppressRateLimit(action)
             \/ SuppressAllActions(action)
             \/ SuppressCooldown(m, action)
             \/ Act(m, action)
      BY <2>1, <2>4 DEF Finalize, SuppressRateLimit, SuppressAllActions, SuppressCooldown,
                        Act, PassBucket
    <3>2. action \in Outbound
      BY <3>1, CompiledOutbound
    <3>3. OutboundStep(m, action)
      BY <2>1, <3>1 DEF OutboundStep
    <3> QED
      BY <3>2, <3>3
  <2> QED
    BY <2>2, <2>3, <2>4
<1>4. ASSUME NEW status \in HttpStatuses, RecordHttpStatus(status) PROVE IdleStep
  BY <1>4, <1>t DEF RecordHttpStatus, IdleStep
<1>5. ASSUME UnchangedBySetters PROVE IdleStep
  BY <1>5, <1>t DEF UnchangedBySetters, IdleStep
<1>6. CASE Tick
  BY <1>6, <1>t DEF Tick, IdleStep
<1>7. CASE UNCHANGED coreVars
  BY <1>7, <1>t DEF coreVars, IdleStep
<1> QED
  BY <1>1, <1>2, <1>3, <1>4, <1>5, <1>6, <1>7
     DEF Next, DecideMessage, SetModeOverride, SetEmergencyKillSwitch, SetAccessLists,
         UpdateSessionBudget

\* What Act appends.
LEMMA ActAppends ==
    ASSUME TypeOK, TypeOK', NEW m \in MsgIds, NEW action \in Outbound, Act(m, action)
    PROVE  /\ Len(outbound) \in Nat /\ Len(outbound') = Len(outbound) + 1
           /\ \A i \in 1 .. Len(outbound) : outbound'[i] = outbound[i]
           /\ outbound'[Len(outbound) + 1] = [at |-> now, msg |-> m, action |-> action]
BY DEF TypeOK, Act

\* The types of the history entries the invariants below compare.
LEMMA OutboundEntry ==
    ASSUME TypeOK, NEW i \in 1 .. Len(outbound)
    PROVE  /\ i \in Nat /\ Len(outbound) \in Nat
           /\ outbound[i].at \in Nat /\ outbound[i].msg \in MsgIds
<1>1. outbound \in Seq(OutboundRecord)
  BY DEF TypeOK, OutboundRecord
<1>2. Len(outbound) \in Nat /\ outbound[i] \in OutboundRecord
  BY <1>1
<1> QED
  BY <1>2 DEF OutboundRecord

----------------------------------------------------------------------------
(* The outbound rate.  The bucket accounts for the past: what it holds, together with the *)
(* tokens spent since any earlier action, is covered by a full burst and the refill since. *)

RateInv ==
    /\ \A i \in 1 .. Len(outbound) :
          /\ outbound[i].at <= bucket.lastRefill
          /\ bucket.tokens + TokenUnit * (Len(outbound) - i + 1)
                <= Capacity + RefillPerTick * (bucket.lastRefill - outbound[i].at)
    /\ RateBound

\* What the account below adds up are natural numbers.
LEMMA BucketType ==
    ASSUME TypeOK
    PROVE  /\ bucket \in Buckets /\ now \in Nat /\ bucket.lastRefill <= now
           /\ bucket.lastRefill \in Nat /\ bucket.tokens \in Nat
           /\ Capacity \in Nat /\ TokenUnit \in Nat /\ RefillPerTick \in Nat
BY CapacityPositive, TokenBucketAssumption, TrustedCoreAssumption DEF TypeOK, Buckets

\* A refill keeps the account.
LEMMA RefillAccount ==
    ASSUME TypeOK, RateInv, NEW i \in 1 .. Len(outbound)
    PROVE  /\ outbound[i].at <= now
           /\ Refill(bucket, now).tokens + TokenUnit * (Len(outbound) - i + 1)
                <= Capacity + RefillPerTick * (now - outbound[i].at)
<1> DEFINE spent == TokenUnit * (Len(outbound) - i + 1)
           before == RefillPerTick * (bucket.lastRefill - outbound[i].at)
           during == RefillPerTick * (now - bucket.lastRefill)
           all == RefillPerTick * (now - outbound[i].at)
<1>1. /\ i \in Nat /\ Len(outbound) \in Nat /\ outbound[i].at \in Nat
      /\ Refill(bucket, now).tokens \in Nat
  BY OutboundEntry, BucketType, RefillBound DEF Buckets
<1>2. outbound[i].at <= bucket.lastRefill /\ bucket.tokens + spent <= Capacity + before
  BY DEF RateInv
<1>3. Refill(bucket, now).tokens <= bucket.tokens + during
  BY BucketType, RefillBound
<1>4. before + during = all
  <2>1. \A r, a, b, c \in Int : r * (b - a) + r * (c - b) = r * (c - a)
    OBVIOUS
  <2> QED
    BY <1>1, <2>1, BucketType
<1>5. spent \in Int /\ before \in Int /\ during \in Int /\ all \in Int
  <2>1. \A x, y \in Int : x * y \in Int
    OBVIOUS
  <2>2. /\ Len(outbound) - i + 1 \in Int /\ bucket.lastRefill - outbound[i].at \in Int
        /\ now - bucket.lastRefill \in Int /\ now - outbound[i].at \in Int
        /\ TokenUnit \in Int /\ RefillPerTick \in Int
    BY <1>1, BucketType
  <2> QED
    BY <2>1, <2>2
<1> HIDE DEF spent, before, during, all
<1>6. Refill(bucket, now).tokens + spent <= Capacity + all
  <2>1. \A r, b, c, s, e, d, a \in Int :
            b + s <= c + e /\ r <= b + d /\ e + d = a => r + s <= c + a
    OBVIOUS
  <2>2. Refill(bucket, now).tokens \in Int /\ bucket.tokens \in Int /\ Capacity \in Int
    BY <1>1, BucketType
  <2> QED
    BY <2>1, <2>2, <1>2, <1>3, <1>4, <1>5
<1>7. outbound[i].at <= now
  BY <1>1, <1>2, BucketType
<1> QED
  BY <1>6, <1>7 DEF spent, all

\* A refill, and a token paid for nothing, keep the invariant.
LEMMA RateNoAct ==
    ASSUME TypeOK, RateInv, UNCHANGED outbound, bucket' = AfterTake(bucket, 1, now)
    PROVE  RateInv'
<1>1. /\ bucket'.lastRefill = now /\ bucket' \in Buckets
      /\ bucket'.tokens <= Refill(bucket, now).tokens
      /\ bucket'.tokens \in Nat /\ Refill(bucket, now).tokens \in Nat
  BY BucketType, TakeOne, RefillBound DEF Buckets
<1>2. ASSUME NEW i \in 1 .. Len(outbound)
      PROVE  /\ outbound[i].at <= bucket'.lastRefill
             /\ bucket'.tokens + TokenUnit * (Len(outbound) - i + 1)
                  <= Capacity + RefillPerTick * (bucket'.lastRefill - outbound[i].at)
  <2> DEFINE spent == TokenUnit * (Len(outbound) - i + 1)
             all == RefillPerTick * (now - outbound[i].at)
  <2>1. /\ outbound[i].at <= now
        /\ Refill(bucket, now).tokens + spent <= Capacity + all
    BY RefillAccount
  <2>2. spent \in Int /\ all \in Int
    <3>1. outbound[i].at \in Nat /\ Len(outbound) \in Nat /\ i \in Nat
      BY OutboundEntry
    <3>2. now \in Nat /\ TokenUnit \in Nat /\ RefillPerTick \in Nat
      BY BucketType
    <3>3. Len(outbound) - i + 1 \in Int /\ now - outbound[i].at \in Int
      BY <3>1, <3>2
    <3>4. \A a, b \in Int : a * b \in Int
      OBVIOUS
    <3> QED
      BY <3>2, <3>3, <3>4
  <2> HIDE DEF spent, all
  <2>3. bucket'.tokens + spent <= Capacity + all
    BY <1>1, <2>1, <2>2, BucketType
  <2> QED
    BY <1>1, <2>1, <2>3 DEF spent, all
<1> QED
  BY <1>2 DEF RateInv, RateBound

\* An action pays one token, which the account of every earlier action was good for.
LEMMA RateAct ==
    ASSUME TypeOK, TypeOK', RateInv, NEW m \in MsgIds, NEW action \in Outbound, Act(m, action)
    PROVE  RateInv'
<1> DEFINE n == Len(outbound)
<1>1. /\ bucket'.lastRefill = now /\ bucket'.tokens \in Nat
      /\ bucket'.tokens = Refill(bucket, now).tokens - TokenUnit
      /\ Refill(bucket, now).tokens \in Nat /\ Refill(bucket, now).tokens <= Capacity
  <2>1. CanTake(bucket, 1, now) /\ bucket' = AfterTake(bucket, 1, now)
    BY DEF Act, PassBucket
  <2> QED
    BY <2>1, BucketType, TakeOne, RefillBound DEF Buckets
<1>2. /\ n \in Nat /\ Len(outbound') = n + 1
      /\ \A i \in 1 .. n : outbound'[i] = outbound[i]
      /\ outbound'[n + 1].at = now
  <2>1. outbound'[n + 1] = [at |-> now, msg |-> m, action |-> action]
    BY ActAppends
  <2> QED
    BY <2>1, ActAppends
<1>3. ASSUME NEW i \in 1 .. n
      PROVE  /\ outbound'[i].at <= bucket'.lastRefill
             /\ bucket'.tokens + TokenUnit * (Len(outbound') - i + 1)
                  <= Capacity + RefillPerTick * (bucket'.lastRefill - outbound'[i].at)
  <2> DEFINE spent == TokenUnit * (n - i + 1)
             all == RefillPerTick * (now - outbound[i].at)
  <2>1. outbound[i].at <= now /\ Refill(bucket, now).tokens + spent <= Capacity + all
    BY RefillAccount
  <2>2. spent \in Int /\ all \in Int
    BY OutboundEntry, BucketType
  <2>3. TokenUnit * (Len(outbound') - i + 1) = spent + TokenUnit
    <3>1. \A u, k \in Int : u * (k + 1) = u * k + u
      OBVIOUS
    <3>2. Len(outbound') - i + 1 = (n - i + 1) + 1
      BY <1>2, OutboundEntry
    <3> QED
      BY <1>2, <3>1, <3>2, OutboundEntry, BucketType
  <2> HIDE DEF spent
  <2>4. bucket'.tokens + (spent + TokenUnit) <= Capacity + all
    <3> HIDE DEF all
    <3> QED
      BY <1>1, <2>1, <2>2, BucketType
  <2> QED
    BY <1>1, <1>2, <2>1, <2>3, <2>4
<1>4. /\ outbound'[n + 1].at <= bucket'.lastRefill
      /\ bucket'.tokens + TokenUnit * (Len(outbound') - (n + 1) + 1)
           <= Capacity + RefillPerTick * (bucket'.lastRefill - outbound'[n + 1].at)
  BY <1>1, <1>2, BucketType
<1>5. RateBound'
  <2> SUFFICES ASSUME NEW i \in 1 .. n + 1, NEW j \in 1 .. n + 1, i <= j
               PROVE  TokenUnit * (j - i + 1)
                        <= Capacity + RefillPerTick * (outbound'[j].at - outbound'[i].at)
    BY <1>2 DEF RateBound
  <2>1. CASE j \in 1 .. n
    <3>1. i \in 1 .. n
      BY <1>2, <2>1
    <3> QED
      BY <1>2, <2>1, <3>1 DEF RateInv, RateBound
  <2>2. CASE j = n + 1
    <3> DEFINE spent == TokenUnit * (n + 1 - i + 1)
               all == RefillPerTick * (now - outbound'[i].at)
    <3>1. bucket'.tokens + spent <= Capacity + all
      BY <1>1, <1>2, <1>3, <1>4
    <3>2. outbound'[i].at \in Nat
      <4>1. CASE i \in 1 .. n
        BY <1>2, <4>1, OutboundEntry
      <4>2. CASE i = n + 1
        BY <1>2, <4>2, BucketType
      <4> QED
        BY <1>2, <4>1, <4>2
    <3>3. spent \in Int /\ all \in Int
      BY <1>2, <3>2, BucketType
    <3> HIDE DEF spent, all
    <3>4. bucket'.tokens \in Nat /\ Capacity \in Nat
      BY <1>1, BucketType
    <3>5. spent <= Capacity + all
      BY <3>1, <3>3, <3>4
    <3> QED
      BY <1>2, <2>2, <3>5 DEF spent, all
  <2> QED
    BY <1>2, <2>1, <2>2
<1> QED
  BY <1>2, <1>3, <1>4, <1>5 DEF RateInv

\* Whatever it is sent, the governor never acts more often than a full burst and the refill
\* since allow.
THEOREM RateBoundHolds == Spec => []RateBound
<1>1. Init => RateInv
  BY DEF Init, RateInv, RateBound
<1>2. TypeOK /\ TypeOK' /\ RateInv /\ [Next]_coreVars => RateInv'
  <2> SUFFICES ASSUME TypeOK, TypeOK', RateInv, [Next]_coreVars PROVE RateInv'
    OBVIOUS
  <2>1. CASE IdleStep
    BY <2>1 DEF IdleStep, RateInv, RateBound
  <2>2. ASSUME NEW m \in MsgIds, NEW action \in Outbound, OutboundStep(m, action)
        PROVE  RateInv'
    <3>1. CASE UNCHANGED outbound
      BY <2>2, <3>1, RateNoAct
         DEF OutboundStep, SuppressRateLimit, SuppressAllActions, SuppressCooldown, PassBucket, Act
    <3>2. CASE Act(m, action)
      BY <3>2, RateAct
    <3> QED
      BY <2>2, <3>1, <3>2
         DEF OutboundStep, SuppressRateLimit, SuppressAllActions, SuppressCooldown
  <2> QED
    BY <2>1, <2>2, StepKinds
<1>3. RateInv => RateBound
  BY DEF RateInv
<1> QED
  BY <1>1, <1>2, <1>3, TypeCorrect, PTL DEF Spec

----------------------------------------------------------------------------
(* The cooldowns.  Each cooldown an earlier action marked is still at least as far away   *)
(* as that action put it: later marks, by other messages too, only move it further.       *)

Cooled(record) ==
    LET ctx == Context[record.msg] IN
    /\ record.at <= now
    /\ userCooldown[ctx.user] >= record.at + UserTtl
    /\ channelCooldown[ctx.channel] >= record.at + ChannelTtl
    /\ ctx.guild # NoGuild => guildCooldown[ctx.guild] >= record.at + GuildTtl
    /\ globalCooldown[0] >= record.at + GlobalTtl

CooldownInv ==
    /\ \A i \in 1 .. Len(outbound) : Cooled(outbound[i])
    /\ CooldownSpacing

\* The four *_cooldown_ms are natural numbers, and a direct message has no guild.
LEMMA TtlType == /\ UserTtl \in Nat /\ ChannelTtl \in Nat /\ GuildTtl \in Nat
                 /\ GlobalTtl \in Nat /\ NoGuild \notin Guilds
BY TrustedCoreAssumption

\* Marking a key now does not bring any key's cooldown forward past an earlier mark.
LEMMA MarkKeeps ==
    ASSUME NEW Keys, NEW map \in [Keys -> Nat], NEW k \in Keys, NEW x \in Keys,
           NEW t \in Nat, NEW at \in Nat, NEW ttl \in Nat, at <= t, map[x] >= at + ttl
    PROVE  MarkCooldown(map, k, t, ttl)[x] >= at + ttl
BY DEF MarkCooldown

\* An earlier action stays accounted for, whatever becomes of the message being evaluated.
LEMMA CooledStays ==
    ASSUME TypeOK, NEW i \in 1 .. Len(outbound), Cooled(outbound[i]),
           NEW m \in MsgIds, NEW action \in Outbound, OutboundStep(m, action)
    PROVE  Cooled(outbound[i])'
<1> DEFINE r == outbound[i]
           mine == Context[m]
           old == Context[r.msg]
<1>1. /\ r.at \in Nat /\ r.msg \in MsgIds /\ now \in Nat /\ now' = now
      /\ outbound'[i] = r
  <2>1. r.at \in Nat /\ r.msg \in MsgIds /\ now \in Nat /\ now' = now
    BY OutboundEntry, BucketType DEF OutboundStep
  <2>2. outbound' = outbound \/ outbound' = Append(outbound, [at |-> now, msg |-> m, action |-> action])
    BY DEF OutboundStep, SuppressRateLimit, SuppressAllActions, SuppressCooldown, Act, cooldowns
  <2>3. outbound \in Seq(OutboundRecord)
    BY DEF TypeOK, OutboundRecord
  <2>4. [at |-> now, msg |-> m, action |-> action] \in OutboundRecord
    BY <2>1 DEF OutboundRecord
  <2> QED
    BY <2>1, <2>2, <2>3, <2>4
<1>2. /\ mine.user \in Users /\ mine.channel \in Channels /\ mine.guild \in Guilds \cup {NoGuild}
      /\ old.user \in Users /\ old.channel \in Channels /\ old.guild \in Guilds \cup {NoGuild}
  BY <1>1, ContextType
<1>3. /\ userCooldown \in [Users -> Nat] /\ channelCooldown \in [Channels -> Nat]
      /\ guildCooldown \in [Guilds -> Nat] /\ globalCooldown \in [{0} -> Nat]
  BY DEF TypeOK
<1>4. /\ r.at <= now /\ userCooldown[old.user] >= r.at + UserTtl
      /\ channelCooldown[old.channel] >= r.at + ChannelTtl
      /\ old.guild # NoGuild => guildCooldown[old.guild] >= r.at + GuildTtl
      /\ globalCooldown[0] >= r.at + GlobalTtl
  BY DEF Cooled
<1>5. /\ \/ UNCHANGED userCooldown
         \/ userCooldown' = MarkCooldown(userCooldown, mine.user, now, UserTtl)
      /\ \/ UNCHANGED channelCooldown
         \/ channelCooldown' = MarkCooldown(channelCooldown, mine.channel, now, ChannelTtl)
      /\ UNCHANGED guildCooldown \/ MarkGuild(mine.guild)
      /\ \/ UNCHANGED globalCooldown
         \/ globalCooldown' = MarkCooldown(globalCooldown, 0, now, GlobalTtl)
  BY DEF OutboundStep, SuppressRateLimit, SuppressAllActions, SuppressCooldown, Act, cooldowns
<1>6. userCooldown'[old.user] >= r.at + UserTtl
  BY <1>1, <1>2, <1>3, <1>4, <1>5, MarkKeeps, TtlType
<1>7. channelCooldown'[old.channel] >= r.at + ChannelTtl
  BY <1>1, <1>2, <1>3, <1>4, <1>5, MarkKeeps, TtlType
<1>8. ASSUME old.guild # NoGuild PROVE guildCooldown'[old.guild] >= r.at + GuildTtl
  <2>1. CASE guildCooldown' = guildCooldown
    BY <1>4, <1>8, <2>1
  <2>2. CASE /\ mine.guild # NoGuild
             /\ guildCooldown' = MarkCooldown(guildCooldown, mine.guild, now, GuildTtl)
    BY <1>1, <1>2, <1>3, <1>4, <1>8, <2>2, MarkKeeps, TtlType
  <2> QED
    BY <1>5, <2>1, <2>2 DEF MarkGuild
<1>9. globalCooldown'[0] >= r.at + GlobalTtl
  <2>1. 0 \in {0}
    OBVIOUS
  <2> QED
    BY <1>1, <1>3, <1>4, <1>5, <2>1, MarkKeeps, TtlType
<1> QED
  BY <1>1, <1>4, <1>6, <1>7, <1>8, <1>9 DEF Cooled

\* The new action is accounted for, and none of its cooldowns was running.
LEMMA CooldownAct ==
    ASSUME TypeOK, TypeOK', CooldownInv, NEW m \in MsgIds, NEW action \in Outbound, Act(m, action),
           OutboundStep(m, action)
    PROVE  CooldownInv'
<1> DEFINE n == Len(outbound)
           mine == Context[m]
<1>1. /\ n \in Nat /\ Len(outbound') = n + 1 /\ now \in Nat /\ now' = now
      /\ \A i \in 1 .. n : outbound'[i] = outbound[i]
      /\ outbound'[n + 1] = [at |-> now, msg |-> m, action |-> action]
  BY ActAppends, BucketType DEF OutboundStep
<1>2. /\ mine.user \in Users /\ mine.channel \in Channels /\ mine.guild \in Guilds \cup {NoGuild}
      /\ userCooldown \in [Users -> Nat] /\ channelCooldown \in [Channels -> Nat]
      /\ guildCooldown \in [Guilds -> Nat] /\ globalCooldown \in [{0} -> Nat]
  BY ContextType DEF TypeOK
<1>3. \A i \in 1 .. n : Cooled(outbound[i])'
  BY CooledStays DEF CooldownInv
<1>4. ASSUME NEW k, k = n + 1 PROVE Cooled(outbound[k])'
  <2>1. /\ outbound'[k].msg = m /\ outbound'[k].at = now
    BY <1>1, <1>4
  <2>2. /\ userCooldown'[mine.user] = now + UserTtl
        /\ channelCooldown'[mine.channel] = now + ChannelTtl
        /\ mine.guild # NoGuild => guildCooldown'[mine.guild] = now + GuildTtl
        /\ globalCooldown'[0] = now + GlobalTtl
    BY <1>2 DEF Act, MarkGuild, MarkCooldown
  <2> QED
    BY <1>1, <2>1, <2>2, TtlType DEF Cooled
<1>5. ASSUME NEW i \in 1 .. n
      PROVE  LET gap == now - outbound[i].at
                 first == Context[outbound[i].msg]
             IN  /\ first.user = mine.user => gap >= UserTtl
                 /\ first.channel = mine.channel => gap >= ChannelTtl
                 /\ SameGuild(outbound[i].msg, m) => gap >= GuildTtl
                 /\ gap >= GlobalTtl
  <2>1. Cooled(outbound[i]) /\ outbound[i].at \in Nat /\ outbound[i].msg \in MsgIds
    BY OutboundEntry DEF CooldownInv
  <2>2. /\ ~(now < userCooldown[mine.user]) /\ ~(now < channelCooldown[mine.channel])
        /\ mine.guild # NoGuild => ~(now < guildCooldown[mine.guild])
        /\ ~(now < globalCooldown[0])
    BY DEF Act, PassLocalCooldowns, GuildCooling, IsCooling
  <2>3. /\ userCooldown[mine.user] \in Nat /\ channelCooldown[mine.channel] \in Nat
        /\ mine.guild # NoGuild => guildCooldown[mine.guild] \in Nat
        /\ globalCooldown[0] \in Nat
    BY <1>2
  <2> DEFINE theirs == Context[outbound[i].msg]
             t == outbound[i].at
  <2>4. /\ userCooldown[theirs.user] >= t + UserTtl
        /\ channelCooldown[theirs.channel] >= t + ChannelTtl
        /\ theirs.guild # NoGuild => guildCooldown[theirs.guild] >= t + GuildTtl
        /\ globalCooldown[0] >= t + GlobalTtl
    BY <2>1 DEF Cooled
  <2>5. t \in Nat
    BY <2>1
  <2> HIDE DEF theirs, t
  <2>6. theirs.user = mine.user => now - t >= UserTtl
    BY <1>1, <2>2, <2>3, <2>4, <2>5, TtlType
  <2>7. theirs.channel = mine.channel => now - t >= ChannelTtl
    BY <1>1, <2>2, <2>3, <2>4, <2>5, TtlType
  <2>8. theirs.guild = mine.guild /\ theirs.guild # NoGuild => now - t >= GuildTtl
    BY <1>1, <2>2, <2>3, <2>4, <2>5, TtlType
  <2>9. now - t >= GlobalTtl
    BY <1>1, <2>2, <2>3, <2>4, <2>5, TtlType
  <2> QED
    BY <2>6, <2>7, <2>8, <2>9 DEF theirs, t, SameGuild
<1>6. CooldownSpacing'
  <2> SUFFICES ASSUME NEW i \in 1 .. n + 1, NEW j \in 1 .. n + 1, i < j
               PROVE  LET gap == outbound'[j].at - outbound'[i].at
                          first == Context[outbound'[i].msg]
                          second == Context[outbound'[j].msg]
                      IN  /\ first.user = second.user => gap >= UserTtl
                          /\ first.channel = second.channel => gap >= ChannelTtl
                          /\ SameGuild(outbound'[i].msg, outbound'[j].msg) => gap >= GuildTtl
                          /\ gap >= GlobalTtl
    BY <1>1 DEF CooldownSpacing, SameGuild
  <2>1. i \in 1 .. n
    BY <1>1
  <2>2. CASE j \in 1 .. n
    BY <1>1, <2>1, <2>2 DEF CooldownInv, CooldownSpacing
  <2>3. CASE j = n + 1
    BY <1>1, <1>5, <2>1, <2>3
  <2> QED
    BY <1>1, <2>2, <2>3
<1>7. \A i \in 1 .. n + 1 : Cooled(outbound[i])'
  BY <1>1, <1>3, <1>4
<1> QED
  BY <1>1, <1>6, <1>7 DEF CooldownInv

\* Two actions are never closer than the cooldowns of what they share, whatever happened
\* in between.
THEOREM CooldownSpacingHolds == Spec => []CooldownSpacing
<1>1. Init => CooldownInv
  BY DEF Init, CooldownInv, CooldownSpacing
<1>2. TypeOK /\ TypeOK' /\ CooldownInv /\ [Next]_coreVars => CooldownInv'
  <2> SUFFICES ASSUME TypeOK, TypeOK', CooldownInv, [Next]_coreVars PROVE CooldownInv'
    OBVIOUS
  <2>1. CASE IdleStep
    <3>1. now \in Nat /\ now' \in Nat /\ now' >= now
      BY <2>1, BucketType, TrustedCoreAssumption DEF IdleStep, TypeOK
    <3>2. \A i \in 1 .. Len(outbound) : outbound[i].at \in Nat
      BY OutboundEntry
    <3> QED
      BY <2>1, <3>1, <3>2 DEF IdleStep, CooldownInv, Cooled, CooldownSpacing, SameGuild
  <2>2. ASSUME NEW m \in MsgIds, NEW action \in Outbound, OutboundStep(m, action)
        PROVE  CooldownInv'
    <3>1. CASE UNCHANGED outbound
      BY <2>2, <3>1, CooledStays DEF CooldownInv, CooldownSpacing, SameGuild
    <3>2. CASE Act(m, action)
      BY <2>2, <3>2, CooldownAct
    <3> QED
      BY <2>2, <3>1, <3>2
         DEF OutboundStep, SuppressRateLimit, SuppressAllActions, SuppressCooldown
  <2> QED
    BY <2>1, <2>2, StepKinds
<1>3. CooldownInv => CooldownSpacing
  BY DEF CooldownInv
<1> QED
  BY <1>1, <1>2, <1>3, TypeCorrect, PTL DEF Spec

----------------------------------------------------------------------------
(* One action per message.  While the cache has room, a message acted upon within the ttl *)
(* is cached, marked when it was acted upon or later.                                     *)

\* Marking one more message now leaves no more than the cache may hold.
RoomInCache ==
    \A m \in MsgIds : Cardinality(Cached([EvictOld(seen, now) EXCEPT ![m] = now])) <= EffectiveCap

Remembered(record) ==
    /\ record.at <= now
    /\ now - record.at <= DuplicateTtl => seen[record.msg] >= record.at

AnsweredInv ==
    /\ \A i \in 1 .. Len(outbound) : Remembered(outbound[i])
    /\ AnsweredOnce

\* Marking a message evicts no other one that is still inside the ttl, and brings none back
\* in time.
LEMMA MarkedRemembers ==
    ASSUME NEW cache \in Caches, NEW m \in MsgIds, NEW x \in MsgIds, NEW t \in Nat,
           NEW at \in Nat, at <= t, t - at <= DuplicateTtl, cache[x] >= at,
           Cardinality(Cached([EvictOld(cache, t) EXCEPT ![m] = t])) <= EffectiveCap,
           NEW after \in Marked(cache, m, t)
    PROVE  after[x] >= at
<1>1. after = [EvictOld(cache, t) EXCEPT ![m] = t]
  BY MarkedWithoutCompaction
<1>2. EvictOld(cache, t)[x] = cache[x]
  BY DuplicateGuardAssumption DEF EvictOld, Caches, Absent
<1> QED
  BY <1>1, <1>2 DEF EvictOld

\* Whatever a step does to the duplicate guard, it forgets no action inside the ttl.
LEMMA SeenRemembers ==
    ASSUME TypeOK, TypeOK', RoomInCache, SeenStep, now' >= now,
           UNCHANGED outbound, NEW i \in 1 .. Len(outbound), Remembered(outbound[i])
    PROVE  Remembered(outbound[i])'
<1> DEFINE r == outbound[i]
<1>1. /\ r.at \in Nat /\ r.msg \in MsgIds /\ outbound'[i] = r
      /\ now \in Nat /\ now' \in Nat /\ seen \in Caches /\ DuplicateTtl \in Nat
  <2>1. now' \in Nat
    BY TrustedCoreAssumption DEF TypeOK
  <2> QED
    BY <2>1, OutboundEntry, BucketType, DuplicateGuardAssumption DEF TypeOK
<1>2. r.at <= now'
  BY <1>1 DEF Remembered
<1>3. ASSUME now' - r.at <= DuplicateTtl PROVE seen'[r.msg] >= r.at
  <2>1. r.at <= now /\ now - r.at <= DuplicateTtl /\ seen[r.msg] >= r.at
    BY <1>1, <1>3 DEF Remembered
  <2>2. CASE seen' = seen
    BY <2>1, <2>2
  <2>3. ASSUME NEW m \in MsgIds, seen' \in Marked(seen, m, now) PROVE seen'[r.msg] >= r.at
    BY <1>1, <2>1, <2>3, MarkedRemembers DEF RoomInCache
  <2> QED
    BY <2>2, <2>3 DEF SeenStep
<1> QED
  BY <1>1, <1>2, <1>3 DEF Remembered

\* The new action is remembered, and an earlier one on the same message was not.
LEMMA AnsweredAct ==
    ASSUME TypeOK, TypeOK', RoomInCache, AnsweredInv,
           NEW m \in MsgIds, NEW action \in Outbound, OutboundStep(m, action), Act(m, action)
    PROVE  AnsweredInv'
<1> DEFINE n == Len(outbound)
<1>1. /\ n \in Nat /\ Len(outbound') = n + 1 /\ now \in Nat /\ now' = now
      /\ \A i \in 1 .. n : outbound'[i] = outbound[i]
      /\ outbound'[n + 1] = [at |-> now, msg |-> m, action |-> action]
      /\ seen \in Caches /\ seen' \in Marked(seen, m, now) /\ ~IsDuplicate(seen, m, now)
  BY ActAppends, BucketType DEF OutboundStep, TypeOK
<1>2. ASSUME NEW i \in 1 .. n
      PROVE  /\ outbound[i].at \in Nat /\ outbound[i].msg \in MsgIds /\ outbound[i].at <= now
             /\ now - outbound[i].at <= DuplicateTtl => seen[outbound[i].msg] >= outbound[i].at
  BY OutboundEntry DEF AnsweredInv, Remembered
<1>3. ASSUME NEW i \in 1 .. n PROVE Remembered(outbound[i])'
  <2>1. /\ outbound'[i] = outbound[i] /\ outbound[i].at \in Nat /\ outbound[i].msg \in MsgIds
        /\ outbound[i].at <= now
    BY <1>1, <1>2
  <2>2. ASSUME now - outbound[i].at <= DuplicateTtl
        PROVE  seen'[outbound[i].msg] >= outbound[i].at
    BY <1>1, <1>2, <2>1, <2>2, MarkedRemembers DEF RoomInCache
  <2> QED
    BY <1>1, <2>1, <2>2 DEF Remembered
<1>4. ASSUME NEW k, k = n + 1 PROVE Remembered(outbound[k])'
  <2>1. seen'[m] = now
    <3>1. seen' = [EvictOld(seen, now) EXCEPT ![m] = now]
      BY <1>1, MarkedWithoutCompaction DEF RoomInCache
    <3> QED
      BY <3>1 DEF EvictOld
  <2>2. outbound'[k].msg = m /\ outbound'[k].at = now
    BY <1>1, <1>4
  <2> QED
    BY <1>1, <2>1, <2>2 DEF Remembered
<1>5. ASSUME NEW i \in 1 .. n, outbound[i].msg = m PROVE now - outbound[i].at > DuplicateTtl
  <2> SUFFICES ASSUME now - outbound[i].at <= DuplicateTtl PROVE FALSE
    BY <1>1, <1>2, DuplicateGuardAssumption
  <2>1. seen[m] >= outbound[i].at /\ outbound[i].at \in Nat /\ outbound[i].at <= now
    BY <1>2, <1>5
  <2>2. EvictOld(seen, now)[m] = seen[m] /\ seen[m] # Absent
    BY <1>1, <2>1, DuplicateGuardAssumption DEF EvictOld, Caches, Absent
  <2> QED
    BY <1>1, <2>2 DEF IsDuplicate
<1>6. AnsweredOnce'
  <2> SUFFICES ASSUME NEW i \in 1 .. n + 1, NEW j \in 1 .. n + 1, i < j,
                      outbound'[i].msg = outbound'[j].msg
               PROVE  outbound'[j].at - outbound'[i].at > DuplicateTtl
    BY <1>1 DEF AnsweredOnce
  <2>1. i \in 1 .. n
    BY <1>1
  <2>2. CASE j \in 1 .. n
    BY <1>1, <2>1, <2>2 DEF AnsweredInv, AnsweredOnce
  <2>3. CASE j = n + 1
    BY <1>1, <1>5, <2>1, <2>3
  <2> QED
    BY <1>1, <2>2, <2>3
<1>7. \A i \in 1 .. n + 1 : Remembered(outbound[i])'
  BY <1>1, <1>3, <1>4
<1> QED
  BY <1>1, <1>6, <1>7 DEF AnsweredInv

\* As long as the live entries and the message being marked fit in the cache, the governor
\* acts on no message a second time within the ttl, however often and in whatever order the
\* gateway delivers it.
THEOREM AnsweredOnceWhileRoom == Spec /\ []RoomInCache => []AnsweredOnce
<1>1. Init => AnsweredInv
  BY DEF Init, AnsweredInv, AnsweredOnce
<1>2. TypeOK /\ TypeOK' /\ RoomInCache /\ AnsweredInv /\ [Next]_coreVars => AnsweredInv'
  <2> SUFFICES ASSUME TypeOK, TypeOK', RoomInCache, AnsweredInv, [Next]_coreVars
               PROVE  AnsweredInv'
    OBVIOUS
  <2>1. CASE UNCHANGED outbound
    <3>1. SeenStep /\ now' >= now
      BY StepKinds, BucketType DEF IdleStep, OutboundStep, SeenStep
    <3> QED
      BY <2>1, <3>1, SeenRemembers DEF AnsweredInv, AnsweredOnce
  <2>2. ASSUME NEW m \in MsgIds, NEW action \in Outbound, OutboundStep(m, action), Act(m, action)
        PROVE  AnsweredInv'
    BY <2>2, AnsweredAct
  <2> QED
    BY <2>1, <2>2, StepKinds
       DEF IdleStep, OutboundStep, SuppressRateLimit, SuppressAllActions, SuppressCooldown
<1>3. AnsweredInv => AnsweredOnce
  BY DEF AnsweredInv
<1> QED
  BY <1>1, <1>2, <1>3, TypeCorrect, PTL DEF Spec

LEMMA RoomForAll ==
    ASSUME Cardinality(MsgIds) <= EffectiveCap
    PROVE  RoomInCache
<1> SUFFICES ASSUME NEW m \in MsgIds
             PROVE  Cardinality(Cached([EvictOld(seen, now) EXCEPT ![m] = now])) <= EffectiveCap
  BY DEF RoomInCache
<1> QED
  BY CachedSize

\* A cache as large as the number of ids ever delivered always has room: no message is acted upon
\* twice within the ttl, however often duplicate_guard is asked about it.
THEOREM AnsweredOnceHolds ==
    ASSUME Cardinality(MsgIds) <= EffectiveCap
    PROVE  Spec => []AnsweredOnce
BY RoomForAll, AnsweredOnceWhileRoom, PTL

----------------------------------------------------------------------------
(* The abstract specification: the three invariants above, after a step that acts, are what *)
(* OutboundPolicy asks of that step.                                                        *)

\* To the policy a step is either a rest or an action taken with no kill switch set and
\* the breaker closed, which changes neither.
PolicyRest == UNCHANGED outbound /\ now' \in {now, now + 1}

PolicyAct(m, action) ==
    /\ Act(m, action)
    /\ ~killSwitch
    /\ UNCHANGED <<now, killSwitch, breaker>>

\* Of the ways through decide_message only the last one acts, and not under FullDisable.
LEMMA PolicyKinds ==
    ASSUME TypeOK, [Next]_coreVars
    PROVE  PolicyRest \/ \E m \in MsgIds, action \in Outbound : PolicyAct(m, action)
<1> USE DEF settings, cooldowns
<1>1. ASSUME NEW m \in MsgIds, RefuseMessage(m) \/ DropDuplicate(m) PROVE PolicyRest
  BY <1>1 DEF RefuseMessage, DropDuplicate, PolicyRest
<1>2. ASSUME NEW m \in MsgIds, NEW suspicion \in SuspicionLevels, NEW reply \in Replies,
             NEW total \in Totals, EvaluateMessage(m, suspicion, reply, total)
      PROVE  PolicyRest \/ \E action \in Outbound : PolicyAct(m, action)
  <2> DEFINE proposal == Proposal(suspicion, reply)
             action == CompileResponse(proposal, CurrentMode, suspicion, total)
  <2>1. /\ UNCHANGED <<now, killSwitch, breaker>>
        /\ Admission(m) = "Admitted"
        /\ Finalize(m, proposal, action)
    BY <1>2 DEF EvaluateMessage
  <2>2. CASE UNCHANGED outbound
    BY <2>1, <2>2 DEF PolicyRest
  <2>3. CASE Act(m, action)
    <3>1. action # "Noop"
      BY <2>3 DEF Act, PassBucket
    <3>2. action \in Outbound
      BY <3>1, CompiledOutbound
    <3>3. ~killSwitch
      BY <2>1 DEF Admission, CurrentMode, TargetMode
    <3> QED
      BY <2>1, <2>3, <3>2, <3>3 DEF PolicyAct
  <2> QED
    BY <2>1, <2>2, <2>3
       DEF Finalize, SuppressNoop, SuppressCircuitOpen, SuppressRateLimit, SuppressAllActions,
           SuppressCooldown
<1>3. ASSUME NEW status \in HttpStatuses, RecordHttpStatus(status) PROVE PolicyRest
  BY <1>3 DEF RecordHttpStatus, PolicyRest
<1>4. ASSUME UnchangedBySetters PROVE PolicyRest
  BY <1>4 DEF UnchangedBySetters, PolicyRest
<1>5. CASE Tick
  BY <1>5 DEF Tick, PolicyRest
<1>6. CASE UNCHANGED coreVars
  BY <1>6 DEF coreVars, PolicyRest
<1> QED
  BY <1>1, <1>2, <1>3, <1>4, <1>5, <1>6
     DEF Next, DecideMessage, SetModeOverride, SetEmergencyKillSwitch, SetAccessLists,
         UpdateSessionBudget

\* What the three invariants say of the action just taken and any earlier one is what the
\* policy asks before it.
LEMMA ActIsPermitted ==
    ASSUME TypeOK, TypeOK', RateBound', CooldownSpacing', AnsweredOnce',
           NEW m \in MsgIds, NEW action \in Outbound, PolicyAct(m, action)
    PROVE  Policy!Do(m, action)
<1> DEFINE n == Len(outbound)
           last == [at |-> now, msg |-> m, action |-> action]
<1>1. /\ n \in Nat /\ Len(outbound') = n + 1 /\ now \in Nat
      /\ \A i \in 1 .. n : outbound'[i] = outbound[i]
      /\ outbound'[n + 1] = last
      /\ outbound' = Append(outbound, last)
  BY ActAppends, BucketType DEF PolicyAct, Act
<1>2. ASSUME NEW i \in 1 .. n PROVE Policy!WithinRate(i)
  <2>1. i \in 1 .. Len(outbound') /\ n + 1 \in 1 .. Len(outbound') /\ i <= n + 1
    BY <1>1
  <2>2. TokenUnit * (n + 1 - i + 1)
            <= Capacity + RefillPerTick * (outbound'[n + 1].at - outbound'[i].at)
    BY <1>1, <2>1 DEF RateBound
  <2>3. n + 1 - i + 1 = n - i + 2
    BY <1>1
  <2> QED
    BY <1>1, <2>2, <2>3 DEF Policy!WithinRate
<1>3. ASSUME NEW i \in 1 .. n PROVE Policy!FarFrom(i, m)
  <2>1. i \in 1 .. Len(outbound') /\ n + 1 \in 1 .. Len(outbound') /\ i < n + 1
    BY <1>1
  <2>2. /\ outbound'[i] = outbound[i] /\ outbound'[n + 1].at = now /\ outbound'[n + 1].msg = m
    BY <1>1
  <2>3. LET gap == now - outbound[i].at
            first == Context[outbound[i].msg]
            second == Context[m]
        IN  /\ first.user = second.user => gap >= UserTtl
            /\ first.channel = second.channel => gap >= ChannelTtl
            /\ first.guild = second.guild /\ first.guild # NoGuild => gap >= GuildTtl
            /\ gap >= GlobalTtl
    BY <2>1, <2>2 DEF CooldownSpacing, SameGuild
  <2>4. outbound[i].msg = m => now - outbound[i].at > DuplicateTtl
    BY <2>1, <2>2 DEF AnsweredOnce
  <2> QED
    BY <2>3, <2>4 DEF Policy!FarFrom
<1>4. ~(killSwitch \/ IsOpen(breaker, now))
  BY DEF PolicyAct, Act, PassBucket
<1>5. Policy!Permitted(m)
  BY <1>2, <1>3, <1>4 DEF Policy!Permitted
<1>6. UNCHANGED <<now, killSwitch \/ IsOpen(breaker, now)>>
  BY DEF PolicyAct
<1> QED
  BY <1>1, <1>5, <1>6 DEF Policy!Do

\* Whatever the messages, settings, answers and statuses, everything the governor lets out
\* is an action the abstract policy permits at that moment.
THEOREM PolicyImplemented ==
    ASSUME Cardinality(MsgIds) <= EffectiveCap
    PROVE  Spec => ImplementsPolicy
<1>1. Init => Policy!PolicyInit
  BY DEF Init, Policy!PolicyInit
<1>2. TypeOK /\ TypeOK' /\ RateBound' /\ CooldownSpacing' /\ AnsweredOnce' /\ [Next]_coreVars
      => [Policy!PolicyNext]_(Policy!policyVars)
  <2> SUFFICES ASSUME TypeOK, TypeOK', RateBound', CooldownSpacing', AnsweredOnce',
                      [Next]_coreVars
               PROVE  Policy!PolicyNext
    OBVIOUS
  <2>1. CASE PolicyRest
    <3>1. Policy!Rest
      BY <2>1 DEF PolicyRest, Policy!Rest
    <3> QED
      BY <3>1 DEF Policy!PolicyNext
  <2>2. ASSUME NEW m \in MsgIds, NEW action \in Outbound, PolicyAct(m, action)
        PROVE  Policy!PolicyNext
    <3>1. Policy!Do(m, action)
      BY <2>2, ActIsPermitted
    <3> QED
      BY <3>1 DEF Policy!PolicyNext
  <2> QED
    BY <2>1, <2>2, PolicyKinds
<1>3. Spec => []AnsweredOnce
  BY AnsweredOnceHolds
<1> QED
  BY <1>1, <1>2, <1>3, TypeCorrect, RateBoundHolds, CooldownSpacingHolds, PTL
     DEF Spec, ImplementsPolicy, Policy!PolicySpec

----------------------------------------------------------------------------
(* What the governor decides from failures: two trimmed deques tell as much as the whole history. *)

\* Instants in the order in which they were recorded, none later than t.
InOrder(instants, t) ==
    /\ \A i, j \in 1 .. Len(instants) : i <= j => instants[i] <= instants[j]
    /\ \A i \in 1 .. Len(instants) : instants[i] <= t

\* The deque `kept` lacks the oldest instants of `all`, and those only that the window has
\* left behind.
Remembers(kept, all, window, t) ==
    \E lost \in 0 .. Len(all) :
        /\ Len(kept) = Len(all) - lost
        /\ \A i \in 1 .. Len(kept) : kept[i] = all[lost + i]
        /\ \A j \in 1 .. lost : t - all[j] > window

Recent(all, window, t) == {j \in 1 .. Len(all) : t - all[j] <= window}

\* A set of positions that holds every position before one of its own is an initial segment.
LEMMA InitialSegment ==
    ASSUME NEW n \in Nat, NEW E \in SUBSET (1 .. n),
           \A i \in E : \A j \in 1 .. i : j \in E
    PROVE  Cardinality(E) \in 0 .. n /\ E = 1 .. Cardinality(E)
<1> DEFINE size == Cardinality(E)
<1>1. /\ IsFiniteSet(1 .. n) /\ Cardinality(1 .. n) = n
  BY FS_Interval
<1>2. IsFiniteSet(E) /\ size <= n
  <2>1. IsFiniteSet(E) /\ Cardinality(E) <= Cardinality(1 .. n)
    BY <1>1, FS_Subset
  <2> QED
    BY <1>1, <2>1
<1>3. size \in Nat
  BY <1>2, FS_CardinalityType
<1>4. ASSUME NEW i \in E PROVE i \in 1 .. size
  <2>1. 1 .. i \in SUBSET E /\ i \in Nat /\ 1 <= i
    OBVIOUS
  <2>2. Cardinality(1 .. i) <= size
    BY <1>2, <2>1, FS_Subset
  <2>3. Cardinality(1 .. i) = i
    BY <2>1, FS_Interval
  <2> QED
    BY <1>3, <2>1, <2>2, <2>3
<1>5. /\ IsFiniteSet(1 .. size) /\ Cardinality(1 .. size) = size
  BY <1>3, FS_Interval
<1>6. E = 1 .. size
  BY <1>4, <1>5, FS_Subset
<1> QED
  BY <1>2, <1>3, <1>6

\* trim: what the window has left behind is a prefix of the deque, and exactly that goes.
LEMMA TrimPrefix ==
    ASSUME NEW s \in Seq(Nat), NEW window \in Nat, NEW t \in Nat
    PROVE  \E e \in 0 .. Len(s) :
               /\ \A j \in 1 .. e : t - s[j] > window
               /\ e < Len(s) => t - s[e + 1] <= window
               /\ Trim(s, window, t) = SubSeq(s, e + 1, Len(s))
<1> DEFINE E == ExpiredPrefix(s, window, t)
           e == Cardinality(E)
<1>1. Len(s) \in Nat /\ E \in SUBSET (1 .. Len(s))
  BY DEF ExpiredPrefix
<1>2. \A i \in E : \A j \in 1 .. i : j \in E
  BY <1>1 DEF ExpiredPrefix
<1>3. e \in 0 .. Len(s) /\ E = 1 .. e
  BY <1>1, <1>2, InitialSegment
<1> HIDE DEF E, e
<1>4. \A j \in 1 .. e : t - s[j] > window
  <2> SUFFICES ASSUME NEW j \in 1 .. e PROVE t - s[j] > window
    OBVIOUS
  <2>1. j \in E
    BY <1>3
  <2> QED
    BY <1>1, <2>1 DEF E, ExpiredPrefix
<1>5. ASSUME e < Len(s) PROVE t - s[e + 1] <= window
  <2>1. e + 1 \in 1 .. Len(s) /\ e + 1 \notin E
    BY <1>1, <1>3, <1>5
  <2>2. PICK j \in 1 .. e + 1 : ~(t - s[j] > window)
    BY <2>1 DEF E, ExpiredPrefix
  <2>3. j = e + 1
    BY <1>3, <1>4, <2>2
  <2> QED
    BY <2>1, <2>2, <2>3
<1> QED
  BY <1>3, <1>4, <1>5 DEF E, e, Trim

\* The end of a sequence, from a position on.
LEMMA LastPart ==
    ASSUME NEW s \in Seq(Nat), NEW e \in 0 .. Len(s)
    PROVE  /\ Len(SubSeq(s, e + 1, Len(s))) = Len(s) - e
           /\ \A i \in 1 .. Len(s) - e : SubSeq(s, e + 1, Len(s))[i] = s[e + i]
<1>1. Len(s) \in Nat /\ e \in Nat /\ e <= Len(s)
  OBVIOUS
<1>2. Len(SubSeq(s, e + 1, Len(s))) = Len(s) - e
  BY <1>1
<1>3. ASSUME NEW i \in 1 .. Len(s) - e PROVE SubSeq(s, e + 1, Len(s))[i] = s[e + i]
  <2>1. SubSeq(s, e + 1, Len(s))[i] = s[(e + 1) + i - 1]
    BY <1>1, <1>3
  <2>2. (e + 1) + i - 1 = e + i
    BY <1>1
  <2> QED
    BY <2>1, <2>2
<1> QED
  BY <1>2, <1>3

\* A trimmed deque still has everything the window has not left behind, and nothing else:
\* its length is the number of recent instants in the whole history.
LEMMA TrimRemembers ==
    ASSUME NEW all \in Seq(Nat), NEW kept \in Seq(Nat), NEW window \in Nat, NEW t \in Nat,
           InOrder(all, t), Remembers(kept, all, window, t)
    PROVE  /\ Remembers(Trim(kept, window, t), all, window, t)
           /\ Len(Trim(kept, window, t)) = Cardinality(Recent(all, window, t))
<1> DEFINE n == Len(all)
           after == Trim(kept, window, t)
<1>1. PICK lost \in 0 .. n : /\ Len(kept) = n - lost
                             /\ \A i \in 1 .. Len(kept) : kept[i] = all[lost + i]
                             /\ \A j \in 1 .. lost : t - all[j] > window
  BY DEF Remembers
<1>2. PICK e \in 0 .. Len(kept) : /\ \A j \in 1 .. e : t - kept[j] > window
                                  /\ e < Len(kept) => t - kept[e + 1] <= window
                                  /\ after = SubSeq(kept, e + 1, Len(kept))
  BY TrimPrefix
<1> HIDE DEF after
<1>3. /\ n \in Nat /\ lost + e \in 0 .. n
      /\ Len(after) = n - (lost + e)
      /\ \A i \in 1 .. Len(after) : after[i] = kept[e + i]
  <2>1. /\ n \in Nat /\ Len(kept) \in Nat /\ e \in Nat /\ e <= Len(kept) /\ lost \in Nat
        /\ lost + e \in 0 .. n
    BY <1>1
  <2>2. /\ Len(after) = Len(kept) - e
        /\ \A i \in 1 .. Len(kept) - e : after[i] = kept[e + i]
    BY <1>2, <2>1, LastPart
  <2> QED
    BY <1>1, <2>1, <2>2
<1>4. \A i \in 1 .. Len(after) : after[i] = all[(lost + e) + i]
  <2> SUFFICES ASSUME NEW i \in 1 .. Len(after) PROVE after[i] = all[(lost + e) + i]
    OBVIOUS
  <2>1. e + i \in 1 .. Len(kept) /\ lost + (e + i) = (lost + e) + i
    BY <1>1, <1>3
  <2> QED
    BY <1>1, <1>3, <2>1
<1>5. \A j \in 1 .. lost + e : t - all[j] > window
  <2> SUFFICES ASSUME NEW j \in 1 .. lost + e PROVE t - all[j] > window
    OBVIOUS
  <2>1. CASE j <= lost
    BY <1>1, <2>1
  <2>2. CASE j > lost
    <3>1. j - lost \in 1 .. e /\ j - lost \in 1 .. Len(kept) /\ lost + (j - lost) = j
      BY <1>1, <1>2, <2>2
    <3> QED
      BY <1>1, <1>2, <3>1
  <2> QED
    BY <2>1, <2>2
<1>6. Remembers(after, all, window, t)
  BY <1>3, <1>4, <1>5 DEF Remembers
<1>7. \A j \in lost + e + 1 .. n : t - all[j] <= window
  <2> SUFFICES ASSUME NEW j \in lost + e + 1 .. n PROVE t - all[j] <= window
    OBVIOUS
  <2>1. e + 1 \in 1 .. Len(kept) /\ lost + (e + 1) \in 1 .. n /\ lost + (e + 1) <= j
    BY <1>1, <1>2, <1>3
  <2>2. t - all[lost + (e + 1)] <= window
    <3>1. e \in Nat /\ Len(kept) \in Nat
      OBVIOUS
    <3>2. t - kept[e + 1] <= window
      BY <1>2, <2>1, <3>1
    <3>3. kept[e + 1] = all[lost + (e + 1)]
      BY <1>1, <2>1
    <3> QED
      BY <3>2, <3>3
  <2>3. all[lost + (e + 1)] <= all[j] /\ j \in 1 .. n
    BY <1>3, <2>1 DEF InOrder
  <2>4. all[lost + (e + 1)] \in Nat /\ all[j] \in Nat
    BY <2>1, <2>3
  <2>5. \A x, y \in Nat : x <= y /\ t - x <= window => t - y <= window
    OBVIOUS
  <2> QED
    BY <2>2, <2>3, <2>4, <2>5
<1>8. Recent(all, window, t) = lost + e + 1 .. n
  <2>1. \A j \in 1 .. n : all[j] \in Nat
    OBVIOUS
  <2>2. ASSUME NEW j \in Recent(all, window, t) PROVE j \in lost + e + 1 .. n
    <3>1. j \in 1 .. n /\ t - all[j] <= window /\ all[j] \in Nat
      BY <2>1, <2>2 DEF Recent
    <3>2. ~(j \in 1 .. lost + e)
      BY <1>5, <3>1
    <3> QED
      BY <1>3, <3>1, <3>2
  <2>3. ASSUME NEW j \in lost + e + 1 .. n PROVE j \in Recent(all, window, t)
    BY <1>3, <1>7, <2>3 DEF Recent
  <2> QED
    BY <2>2, <2>3
<1>9. Cardinality(Recent(all, window, t)) = n - (lost + e)
  <2> DEFINE a == lost + e + 1
  <2>1. a \in Int /\ n \in Int /\ a <= n + 1
    BY <1>3
  <2>2. Cardinality(a .. n) = IF a > n THEN 0 ELSE n - a + 1
    BY <2>1, FS_Interval
  <2>3. Cardinality(a .. n) = n - (lost + e)
    BY <1>3, <2>1, <2>2
  <2> QED
    BY <1>8, <2>3
<1> QED
  BY <1>3, <1>6, <1>9 DEF after

\* Time passes: what was left behind stays behind.
LEMMA RemembersLater ==
    ASSUME NEW all \in Seq(Nat), NEW kept, NEW window \in Nat, NEW t \in Nat, NEW u \in Nat,
           t <= u, Remembers(kept, all, window, t)
    PROVE  Remembers(kept, all, window, u)
<1>1. PICK lost \in 0 .. Len(all) : /\ Len(kept) = Len(all) - lost
                                    /\ \A i \in 1 .. Len(kept) : kept[i] = all[lost + i]
                                    /\ \A j \in 1 .. lost : t - all[j] > window
  BY DEF Remembers
<1>2. ASSUME NEW j \in 1 .. lost PROVE u - all[j] > window
  <2>1. all[j] \in Nat /\ t - all[j] > window
    BY <1>1
  <2> QED
    BY <2>1
<1> QED
  BY <1>1, <1>2 DEF Remembers

\* One more instant goes into both.
LEMMA RemembersAppend ==
    ASSUME NEW all \in Seq(Nat), NEW kept \in Seq(Nat), NEW window \in Nat, NEW t \in Nat,
           Remembers(kept, all, window, t)
    PROVE  Remembers(Append(kept, t), Append(all, t), window, t)
<1>1. PICK lost \in 0 .. Len(all) : /\ Len(kept) = Len(all) - lost
                                    /\ \A i \in 1 .. Len(kept) : kept[i] = all[lost + i]
                                    /\ \A j \in 1 .. lost : t - all[j] > window
  BY DEF Remembers
<1> DEFINE n == Len(all)
           k == Len(kept)
<1>2. /\ n \in Nat /\ k \in Nat /\ lost \in Nat /\ lost + k = n
      /\ Len(Append(kept, t)) = k + 1 /\ Len(Append(all, t)) = n + 1
  BY <1>1
<1>3. /\ \A i \in 1 .. k : Append(kept, t)[i] = kept[i]
      /\ \A i \in 1 .. n : Append(all, t)[i] = all[i]
      /\ Append(kept, t)[k + 1] = t /\ Append(all, t)[n + 1] = t
  OBVIOUS
<1> HIDE DEF n, k
<1>4. ASSUME NEW i \in 1 .. k + 1 PROVE Append(kept, t)[i] = Append(all, t)[lost + i]
  <2>1. CASE i \in 1 .. k
    <3>1. lost + i \in 1 .. n
      BY <1>2, <2>1
    <3> QED
      BY <1>1, <1>3, <2>1, <3>1 DEF k
  <2>2. CASE i = k + 1
    <3>1. lost + i = n + 1
      BY <1>2, <2>2
    <3> QED
      BY <1>3, <2>2, <3>1
  <2>3. i \in 1 .. k \/ i = k + 1
    BY <1>2
  <2> QED
    BY <2>1, <2>2, <2>3
<1>5. \A j \in 1 .. lost : t - Append(all, t)[j] > window
  <2>1. \A j \in 1 .. lost : j \in 1 .. n
    BY <1>2
  <2> QED
    BY <1>1, <1>3, <2>1
<1>6. /\ lost \in 0 .. Len(Append(all, t))
      /\ Len(Append(kept, t)) = Len(Append(all, t)) - lost
  BY <1>2
<1> QED
  BY <1>2, <1>4, <1>5, <1>6 DEF Remembers

\* A history stays in order when the present instant is appended to it.
LEMMA InOrderAppend ==
    ASSUME NEW all \in Seq(Nat), NEW t \in Nat, InOrder(all, t)
    PROVE  InOrder(Append(all, t), t)
BY DEF InOrder

LEMMA InOrderLater ==
    ASSUME NEW all \in Seq(Nat), NEW t \in Nat, NEW u \in Nat, t <= u, InOrder(all, t)
    PROVE  InOrder(all, u)
<1>1. \A j \in 1 .. Len(all) : all[j] \in Nat
  OBVIOUS
<1> QED
  BY <1>1 DEF InOrder

----------------------------------------------------------------------------
(* The circuit breaker: the statuses it keeps and the instant until which it is open say  *)
(* as much as every counted status ever recorded.                                         *)

\* The status recorded i-th completed a threshold within its window.
TripAt(failures, i) ==
    Cardinality({j \in 1 .. i : failures[i] - failures[j] <= BreakerWindow})
        >= AtLeast(BreakerThreshold, 1)

\* open_until is the end of the last opening, which no opening outlasts.
BreakerInv ==
    /\ InOrder(httpFailures, now)
    /\ Remembers(breaker.failures, httpFailures, BreakerWindow, now)
    /\ \A i \in 1 .. Len(httpFailures) :
          TripAt(httpFailures, i) => httpFailures[i] + BreakerOpenFor <= breaker.openUntil
    /\ \/ breaker.openUntil = 0
       \/ \E i \in 1 .. Len(httpFailures) :
             /\ TripAt(httpFailures, i)
             /\ breaker.openUntil = httpFailures[i] + BreakerOpenFor

\* The same for the sandbox failures.
SpikeInv ==
    /\ InOrder(analyzerErrors, now)
    /\ Remembers(sandboxFailures, analyzerErrors, SandboxWindow, now)

\* The breaker, read from its invariant.
LEMMA BreakerTold ==
    ASSUME TypeOK, BreakerInv
    PROVE  BreakerMatchesHistory
<1>t. /\ now \in Nat /\ breaker.openUntil \in Nat /\ BreakerOpenFor \in Nat
      /\ \A i \in 1 .. Len(httpFailures) : httpFailures[i] \in Nat
  BY TrustedCoreAssumption, HttpCircuitBreakerAssumption DEF TypeOK, Breakers
<1>1. ASSUME IsOpen(breaker, now) PROVE Tripped(httpFailures, now)
  <2>1. now < breaker.openUntil
    BY <1>1 DEF IsOpen
  <2>2. PICK i \in 1 .. Len(httpFailures) :
             /\ TripAt(httpFailures, i)
             /\ breaker.openUntil = httpFailures[i] + BreakerOpenFor
    BY <1>t, <2>1 DEF BreakerInv
  <2> QED
    BY <2>1, <2>2 DEF TripAt, Tripped
<1>2. ASSUME Tripped(httpFailures, now) PROVE IsOpen(breaker, now)
  <2>1. PICK i \in 1 .. Len(httpFailures) :
             /\ now < httpFailures[i] + BreakerOpenFor
             /\ TripAt(httpFailures, i)
    BY <1>2 DEF TripAt, Tripped
  <2>2. httpFailures[i] + BreakerOpenFor <= breaker.openUntil
    BY <2>1 DEF BreakerInv
  <2>3. httpFailures[i] \in Nat
    BY <1>t
  <2> QED
    BY <1>t, <2>1, <2>2, <2>3 DEF IsOpen
<1> QED
  BY <1>1, <1>2 DEF BreakerMatchesHistory

\* A status recorded later does not change which of the earlier ones completed a threshold.
LEMMA TripAtKept ==
    ASSUME NEW all \in Seq(Nat), NEW t \in Nat, NEW i \in 1 .. Len(all)
    PROVE  TripAt(Append(all, t), i) <=> TripAt(all, i)
<1>1. \A j \in 1 .. i : Append(all, t)[j] = all[j]
  OBVIOUS
<1>2. {j \in 1 .. i : Append(all, t)[i] - Append(all, t)[j] <= BreakerWindow}
        = {j \in 1 .. i : all[i] - all[j] <= BreakerWindow}
  BY <1>1
<1> QED
  BY <1>2 DEF TripAt

\* record_status: the length of the trimmed deque says whether this status completes a
\* threshold.
LEMMA RecordCounted ==
    ASSUME TypeOK, BreakerInv, NEW status \in CountedStatuses, RecordHttpStatus(status)
    PROVE  BreakerInv'
<1> DEFINE n == Len(httpFailures)
           all == Append(httpFailures, now)
           kept == Append(breaker.failures, now)
           failures == Trim(kept, BreakerWindow, now)
           trips == Len(failures) >= AtLeast(BreakerThreshold, 1)
<1>t. /\ now \in Nat /\ httpFailures \in Seq(Nat) /\ breaker.failures \in Seq(Nat)
      /\ breaker.openUntil \in Nat /\ BreakerOpenFor \in Nat /\ BreakerWindow \in Nat
  BY TrustedCoreAssumption, HttpCircuitBreakerAssumption DEF TypeOK, Breakers
<1>1. /\ n \in Nat /\ all \in Seq(Nat) /\ kept \in Seq(Nat) /\ Len(all) = n + 1
      /\ all[n + 1] = now /\ \A i \in 1 .. n : all[i] = httpFailures[i] /\ all[i] \in Nat
  BY <1>t
<1>2. /\ httpFailures' = all /\ now' = now /\ breaker'.failures = failures
      /\ breaker'.openUntil = IF trips THEN now + BreakerOpenFor ELSE breaker.openUntil
  BY DEF RecordHttpStatus, RecordStatus
<1>3. InOrder(all, now) /\ Remembers(kept, all, BreakerWindow, now)
  BY <1>t, InOrderAppend, RemembersAppend DEF BreakerInv
<1> HIDE DEF all, kept
<1>4. /\ Remembers(failures, all, BreakerWindow, now)
      /\ Len(failures) = Cardinality(Recent(all, BreakerWindow, now))
  BY <1>t, <1>1, <1>3, TrimRemembers
<1> HIDE DEF failures
<1>5. TripAt(all, n + 1) <=> trips
  BY <1>1, <1>4 DEF TripAt, Recent
<1>6. \A i \in 1 .. n : TripAt(all, i) <=> TripAt(httpFailures, i)
  BY <1>t, TripAtKept DEF all
<1> HIDE DEF n, trips
<1>7. \A i \in 1 .. n : all[i] \in Nat /\ all[i] <= now
  BY <1>1, <1>3 DEF InOrder
<1>8. ASSUME NEW i \in 1 .. n + 1, TripAt(all, i)
      PROVE  all[i] + BreakerOpenFor <= breaker'.openUntil
  <2>1. CASE i = n + 1
    BY <1>t, <1>1, <1>2, <1>5, <1>8, <2>1
  <2>2. CASE i \in 1 .. n
    <3>1. all[i] + BreakerOpenFor <= breaker.openUntil
      BY <1>1, <1>6, <1>8, <2>2 DEF BreakerInv, n
    <3>2. all[i] \in Nat /\ all[i] <= now
      BY <1>7, <2>2
    <3> QED
      BY <1>t, <1>2, <3>1, <3>2
  <2>3. i = n + 1 \/ i \in 1 .. n
    BY <1>1
  <2> QED
    BY <2>1, <2>2, <2>3
<1>9. \/ breaker'.openUntil = 0
      \/ \E i \in 1 .. n + 1 :
            TripAt(all, i) /\ breaker'.openUntil = all[i] + BreakerOpenFor
  <2>1. CASE trips
    <3>1. n + 1 \in 1 .. n + 1
      BY <1>1
    <3> QED
      BY <1>1, <1>2, <1>5, <2>1, <3>1
  <2>2. CASE ~trips /\ breaker.openUntil = 0
    BY <1>2, <2>2
  <2>3. ASSUME ~trips, NEW i \in 1 .. n, TripAt(httpFailures, i),
               breaker.openUntil = httpFailures[i] + BreakerOpenFor
        PROVE  \E k \in 1 .. n + 1 : TripAt(all, k) /\ breaker'.openUntil = all[k] + BreakerOpenFor
    <3>1. i \in 1 .. n + 1
      BY <1>1
    <3>2. TripAt(all, i) /\ all[i] = httpFailures[i]
      BY <1>1, <1>6, <2>3
    <3> QED
      BY <1>2, <2>3, <3>1, <3>2
  <2> QED
    BY <2>1, <2>2, <2>3 DEF BreakerInv, n
<1>10. Len(httpFailures') = n + 1
  BY <1>1, <1>2
<1> QED
  BY <1>2, <1>3, <1>4, <1>8, <1>9, <1>10 DEF BreakerInv, TripAt

\* Whatever else happens leaves the statuses alone.
LEMMA BreakerKept ==
    ASSUME TypeOK, TypeOK', BreakerInv, now <= now', UNCHANGED <<breaker, httpFailures>>
    PROVE  BreakerInv'
<1>1. /\ now \in Nat /\ now' \in Nat /\ httpFailures \in Seq(Nat) /\ BreakerWindow \in Nat
  BY TrustedCoreAssumption, HttpCircuitBreakerAssumption DEF TypeOK
<1>2. InOrder(httpFailures, now')
  BY <1>1, InOrderLater DEF BreakerInv
<1>3. Remembers(breaker.failures, httpFailures, BreakerWindow, now')
  BY <1>1, RemembersLater DEF BreakerInv
<1> QED
  BY <1>2, <1>3 DEF BreakerInv, TripAt

----------------------------------------------------------------------------
(* Who touches what, of the governor's methods. *)

BreakerStep ==
    \/ \E status \in CountedStatuses : RecordHttpStatus(status)
    \/ UNCHANGED <<breaker, httpFailures>> /\ now <= now'

SpikeStep ==
    \/ RecordAnalyzerError /\ now' = now
    \/ /\ UNCHANGED analyzerErrors /\ now <= now'
       /\ sandboxFailures' = sandboxFailures \/ sandboxFailures' = LiveFailures

ModeStep == UNCHANGED mode \/ RecomputeMode

ActStep ==
    \/ UNCHANGED outbound
    \/ \E m \in MsgIds, suspicion \in SuspicionLevels, reply \in Replies, total \in Totals :
          Act(m, CompileResponse(Proposal(suspicion, reply), CurrentMode, suspicion, total))

\* Statuses reach the breaker through record_http_status only, analyzer errors the deque
\* through decide_message only, and only decide_message changes the mode or acts.
LEMMA FailureSteps ==
    ASSUME TypeOK, [Next]_coreVars
    PROVE  BreakerStep /\ SpikeStep /\ ModeStep /\ ActStep
<1> USE DEF settings, cooldowns, BreakerStep, SpikeStep, ModeStep, ActStep
<1>t. now \in Nat /\ now <= now
  BY TrustedCoreAssumption DEF TypeOK
<1>1. ASSUME NEW m \in MsgIds, RefuseMessage(m)
      PROVE  BreakerStep /\ SpikeStep /\ ModeStep /\ ActStep
  BY <1>1, <1>t DEF RefuseMessage
<1>2. ASSUME NEW m \in MsgIds, DropDuplicate(m)
      PROVE  BreakerStep /\ SpikeStep /\ ModeStep /\ ActStep
  BY <1>2, <1>t DEF DropDuplicate
<1>3. ASSUME NEW m \in MsgIds, NEW suspicion \in SuspicionLevels, NEW reply \in Replies,
             NEW total \in Totals, EvaluateMessage(m, suspicion, reply, total)
      PROVE  BreakerStep /\ SpikeStep /\ ModeStep /\ ActStep
  <2> DEFINE proposal == Proposal(suspicion, reply)
             action == CompileResponse(proposal, CurrentMode, suspicion, total)
  <2>1. BreakerStep /\ SpikeStep /\ ModeStep
    BY <1>3, <1>t DEF EvaluateMessage
  <2>2. Finalize(m, proposal, action)
    BY <1>3 DEF EvaluateMessage
  <2>3. UNCHANGED outbound \/ Act(m, action)
    BY <2>2 DEF Finalize, SuppressNoop, SuppressCircuitOpen, SuppressRateLimit,
                SuppressAllActions, SuppressCooldown
  <2> QED
    BY <2>1, <2>3
<1>4. ASSUME NEW status \in HttpStatuses, RecordHttpStatus(status)
      PROVE  BreakerStep /\ SpikeStep /\ ModeStep /\ ActStep
  BY <1>4, <1>t DEF RecordHttpStatus, RecordStatus
<1>5. ASSUME UnchangedBySetters PROVE BreakerStep /\ SpikeStep /\ ModeStep /\ ActStep
  BY <1>5, <1>t DEF UnchangedBySetters
<1>6. CASE Tick
  BY <1>6, <1>t DEF Tick
<1>7. CASE UNCHANGED coreVars
  BY <1>7, <1>t DEF coreVars
<1> QED
  BY <1>1, <1>2, <1>3, <1>4, <1>5, <1>6, <1>7
     DEF Next, DecideMessage, SetModeOverride, SetEmergencyKillSwitch, SetAccessLists,
         UpdateSessionBudget

\* No statuses and no analyzer errors: nothing is remembered and nothing is forgotten.
LEMMA NothingRemembered ==
    ASSUME NEW window, NEW t
    PROVE  InOrder(<<>>, t) /\ Remembers(<<>>, <<>>, window, t)
<1>1. Len(<<>>) = 0 /\ 0 \in 0 .. 0 /\ \A i \in 1 .. 0 : FALSE
  OBVIOUS
<1> QED
  BY <1>1 DEF InOrder, Remembers

LEMMA BreakerInvHolds == Spec => []BreakerInv
<1>1. Init => BreakerInv
  BY NothingRemembered DEF Init, ClosedBreaker, BreakerInv
<1>2. TypeOK /\ TypeOK' /\ BreakerInv /\ [Next]_coreVars => BreakerInv'
  BY FailureSteps, RecordCounted, BreakerKept DEF BreakerStep
<1> QED
  BY <1>1, <1>2, TypeCorrect, PTL DEF Spec

\* HttpCircuitBreaker::is_open answers as if the breaker had kept every counted status it
\* was ever told: the deque it trims and the one deadline it keeps lose nothing.
THEOREM BreakerMatches == Spec => []BreakerMatchesHistory
<1>1. TypeOK /\ BreakerInv => BreakerMatchesHistory
  BY BreakerTold
<1> QED
  BY <1>1, BreakerInvHolds, TypeCorrect, PTL

\* An analyzer error goes into the deque and the history alike.
LEMMA SpikeStepKeeps ==
    ASSUME TypeOK, TypeOK', SpikeInv, SpikeStep
    PROVE  SpikeInv'
<1>t. /\ now \in Nat /\ now' \in Nat /\ analyzerErrors \in Seq(Nat) /\ SandboxWindow \in Nat
      /\ sandboxFailures \in Seq(Nat) /\ LiveFailures \in Seq(Nat)
  BY TrustedCoreAssumption, LiveFailuresType DEF TypeOK
<1>1. InOrder(analyzerErrors, now) /\ Remembers(LiveFailures, analyzerErrors, SandboxWindow, now)
  BY <1>t, TrimRemembers DEF SpikeInv, LiveFailures
<1>2. CASE RecordAnalyzerError /\ now' = now
  <2> DEFINE all == Append(analyzerErrors, now)
             kept == Append(LiveFailures, now)
  <2>1. all \in Seq(Nat) /\ kept \in Seq(Nat)
    BY <1>t
  <2>2. InOrder(all, now) /\ Remembers(kept, all, SandboxWindow, now)
    BY <1>t, <1>1, InOrderAppend, RemembersAppend
  <2>3. analyzerErrors' = all /\ sandboxFailures' = Trim(kept, SandboxWindow, now)
    BY <1>2 DEF RecordAnalyzerError
  <2> HIDE DEF all, kept
  <2>4. Remembers(Trim(kept, SandboxWindow, now), all, SandboxWindow, now)
    BY <1>t, <2>1, <2>2, TrimRemembers
  <2> QED
    BY <1>2, <2>2, <2>3, <2>4 DEF SpikeInv
<1>3. ASSUME UNCHANGED analyzerErrors, now <= now',
             sandboxFailures' = sandboxFailures \/ sandboxFailures' = LiveFailures
      PROVE  SpikeInv'
  <2>1. Remembers(sandboxFailures', analyzerErrors, SandboxWindow, now)
    BY <1>1, <1>3 DEF SpikeInv
  <2>2. Remembers(sandboxFailures', analyzerErrors, SandboxWindow, now')
    BY <1>t, <1>3, <2>1, RemembersLater
  <2>3. InOrder(analyzerErrors, now')
    BY <1>t, <1>1, <1>3, InOrderLater
  <2> QED
    BY <1>3, <2>2, <2>3 DEF SpikeInv
<1> QED
  BY <1>2, <1>3 DEF SpikeStep

LEMMA SpikeInvHolds == Spec => []SpikeInv
<1>1. Init => SpikeInv
  BY NothingRemembered DEF Init, SpikeInv
<1>2. TypeOK /\ TypeOK' /\ SpikeInv /\ [Next]_coreVars => SpikeInv'
  BY FailureSteps, SpikeStepKeeps
<1> QED
  BY <1>1, <1>2, TypeCorrect, PTL DEF Spec

\* What recompute_mode counts in the trimmed deque is what the history holds.
LEMMA SpikeTold ==
    ASSUME TypeOK, SpikeInv
    PROVE  Len(LiveFailures) >= SandboxThreshold <=> Spiking(analyzerErrors, now)
<1>t. /\ now \in Nat /\ analyzerErrors \in Seq(Nat) /\ SandboxWindow \in Nat
      /\ sandboxFailures \in Seq(Nat)
  BY TrustedCoreAssumption DEF TypeOK
<1>1. Len(LiveFailures) = Cardinality(Recent(analyzerErrors, SandboxWindow, now))
  BY <1>t, TrimRemembers DEF SpikeInv, LiveFailures
<1> QED
  BY <1>1 DEF Recent, Spiking

----------------------------------------------------------------------------
(* The mode and the outbound path, as action properties. *)

\* What recompute_mode may do to the mode.
LEMMA RecomputeJustified ==
    ASSUME TypeOK, BreakerMatchesHistory, SpikeInv, RecomputeMode, mode' # mode
    PROVE  CASE mode'.trigger = "EmergencyKillSwitch" -> killSwitch
             [] mode'.trigger = "OperatorOverride" -> ~killSwitch /\ modeOverride = mode'.mode
             [] mode'.trigger = "SessionBudgetLow" -> BudgetLow
             [] mode'.trigger = "CircuitBreakerOpen" -> Tripped(httpFailures, now)
             [] mode'.trigger = "SandboxFailureSpike" -> Spiking(analyzerErrors, now)
             [] OTHER -> /\ ~Tripped(httpFailures, now) /\ ~Spiking(analyzerErrors, now)
                         /\ ~BudgetLow /\ ~killSwitch
<1>1. mode'.trigger = TargetMode.trigger /\ mode'.mode = TargetMode.mode
  BY DEF RecomputeMode, Transition
<1>2. IsOpen(breaker, now) <=> Tripped(httpFailures, now)
  BY DEF BreakerMatchesHistory
<1>3. Len(LiveFailures) >= SandboxThreshold <=> Spiking(analyzerErrors, now)
  BY SpikeTold
<1> QED
  BY <1>1, <1>2, <1>3 DEF TargetMode

\* recompute_mode enters a mode only for the most urgent condition that holds at that
\* moment, told from the whole history of failures, and recovers only when none holds.
THEOREM TransitionsAreJustified == Spec => TransitionsJustified
<1>1. /\ TypeOK /\ BreakerMatchesHistory /\ SpikeInv /\ [Next]_coreVars
      => [mode' # mode =>
            CASE mode'.trigger = "EmergencyKillSwitch" -> killSwitch
              [] mode'.trigger = "OperatorOverride" -> ~killSwitch /\ modeOverride = mode'.mode
              [] mode'.trigger = "SessionBudgetLow" -> BudgetLow
              [] mode'.trigger = "CircuitBreakerOpen" -> Tripped(httpFailures, now)
              [] mode'.trigger = "SandboxFailureSpike" -> Spiking(analyzerErrors, now)
              [] OTHER -> /\ ~Tripped(httpFailures, now) /\ ~Spiking(analyzerErrors, now)
                          /\ ~BudgetLow /\ ~killSwitch]_coreVars
  BY FailureSteps, RecomputeJustified DEF ModeStep
<1> QED
  BY <1>1, TypeCorrect, BreakerMatches, SpikeInvHolds, PTL DEF Spec, TransitionsJustified

\* The mode in which compile_response lets an action through.
LEMMA ActProtected ==
    ASSUME TypeOK, TypeOK', BreakerMatchesHistory, SpikeInv, NEW m \in MsgIds,
           NEW proposal, NEW suspicion, NEW total,
           Act(m, CompileResponse(proposal, CurrentMode, suspicion, total))
    PROVE  LET last == outbound'[Len(outbound')] IN
           /\ ~Tripped(httpFailures, now)
           /\ ~killSwitch
           /\ modeOverride \in {NoOverride, "Normal", "ReactOnly"}
           /\ modeOverride = NoOverride /\ ~BudgetLow => ~Spiking(analyzerErrors, now)
           /\ last.action \in Sends =>
                 \/ modeOverride = "Normal"
                 \/ modeOverride = NoOverride /\ ~BudgetLow
<1> DEFINE action == CompileResponse(proposal, CurrentMode, suspicion, total)
<1>1. action # "Noop" /\ ~IsOpen(breaker, now)
  BY DEF Act, PassBucket
<1>2. CurrentMode \in RuntimeModes
  BY TargetType DEF CurrentMode
<1>3. /\ CurrentMode \in {"Normal", "ReactOnly"}
      /\ action \in Sends => CurrentMode = "Normal"
  BY <1>1, <1>2, CompiledAction
<1>4. action \in Outbound
  BY <1>1, CompiledOutbound
<1>0. Act(m, action)
  OBVIOUS
<1> HIDE DEF action
<1>5. outbound'[Len(outbound')].action = action
  <2>1. /\ Len(outbound') = Len(outbound) + 1
        /\ outbound'[Len(outbound) + 1] = [at |-> now, msg |-> m, action |-> action]
    BY <1>0, <1>4, ActAppends
  <2> QED
    BY <2>1
<1>6. ~Tripped(httpFailures, now)
  BY <1>1 DEF BreakerMatchesHistory
<1>7. Len(LiveFailures) >= SandboxThreshold <=> Spiking(analyzerErrors, now)
  BY SpikeTold
<1>8. ~killSwitch /\ modeOverride \in {NoOverride, "Normal", "ReactOnly"}
  BY <1>3 DEF CurrentMode, TargetMode
<1>9. modeOverride = NoOverride /\ ~BudgetLow => ~Spiking(analyzerErrors, now)
  BY <1>1, <1>3, <1>7, <1>8 DEF CurrentMode, TargetMode
<1>10. CurrentMode = "Normal" => modeOverride = "Normal" \/ (modeOverride = NoOverride /\ ~BudgetLow)
  BY <1>8 DEF CurrentMode, TargetMode
<1> QED
  BY <1>3, <1>5, <1>6, <1>8, <1>9, <1>10

\* Whatever a message and the analyzer ask for, decide_message acts only while the breaker
\* is closed and no kill switch, silent override or unanswered failure spike stands.
THEOREM OutboundProtected == Spec => OutboundIsProtected
<1>1. /\ TypeOK /\ TypeOK' /\ BreakerMatchesHistory /\ SpikeInv /\ [Next]_coreVars
      => [outbound' # outbound =>
            LET last == outbound'[Len(outbound')] IN
            /\ ~Tripped(httpFailures, now)
            /\ ~killSwitch
            /\ modeOverride \in {NoOverride, "Normal", "ReactOnly"}
            /\ modeOverride = NoOverride /\ ~BudgetLow => ~Spiking(analyzerErrors, now)
            /\ last.action \in Sends =>
                  \/ modeOverride = "Normal"
                  \/ modeOverride = NoOverride /\ ~BudgetLow]_coreVars
  BY FailureSteps, ActProtected DEF ActStep
<1> QED
  BY <1>1, TypeCorrect, BreakerMatches, SpikeInvHolds, PTL DEF Spec, OutboundIsProtected
=============================================================================
