---------------------------- MODULE TrustedCore -----------------------------
(***************************************************************************)
(* src/security/core_governor.rs: the governor that every Discord message  *)
(* passes before the bot reacts or sends.  It is a struct behind one mutex,*)
(* so each of its methods is one action.  decide_message is split by what  *)
(* it returns, `verdict`: the action to perform, "Noop" for nothing        *)
(* without a reason, or the SuppressReason.                                *)
(*                                                                         *)
(* `outbound`, `httpFailures` and `analyzerErrors` are history: no guard   *)
(* but a bound reads them, the properties do.                              *)
(***************************************************************************)
EXTENDS RuntimeMode, TokenBucket, DuplicateGuard, HttpCircuitBreaker,
        CooldownMap, ResponseCompiler

CONSTANTS
    Users, Channels, Guilds,   \* the ids messages carry
    NoGuild,                   \* the guild of a direct message (None)
    Context,                   \* MessageContext of each message id
    UserTtl, ChannelTtl, GuildTtl, GlobalTtl,  \* the four *_cooldown_ms
    SandboxWindow, SandboxThreshold,           \* sandbox_failure_window_ms, _threshold
    LowWatermark, BudgetValues,    \* session_budget_low_watermark, possible `remaining`s
    MaxActions,                    \* max_actions_per_message
    AccessLists,                   \* the allow and deny lists that may be configured
    Overrides, KillSettings,       \* the values of mode_override and emergency_kill_switch
    SendCounts, Totals,            \* repeat counts proposed, counts detected
    MaxTime, MaxFailures           \* bounds: instants, failures of both sorts together

NoOverride == "NoOverride"

ASSUME TrustedCoreAssumption ==
    /\ NoGuild \notin Guilds
    /\ Context \in [MsgIds -> [user : Users, channel : Channels,
                               guild : Guilds \cup {NoGuild}, bot : BOOLEAN]]
    /\ UserTtl \in Nat /\ ChannelTtl \in Nat /\ GuildTtl \in Nat /\ GlobalTtl \in Nat
    /\ SandboxWindow \in Nat /\ SandboxThreshold \in Nat
    /\ LowWatermark \in Nat /\ BudgetValues \subseteq Nat
    /\ MaxActions \in Nat
    /\ AccessLists \subseteq [allowGuilds : SUBSET Guilds, denyGuilds : SUBSET Guilds,
                              allowChannels : SUBSET Channels, denyChannels : SUBSET Channels]
    /\ Overrides \subseteq RuntimeModes \cup {NoOverride}
    /\ KillSettings \subseteq BOOLEAN
    /\ SendCounts \subseteq Nat /\ Totals \subseteq Nat
    /\ MaxTime \in Nat /\ MaxFailures \in Nat

VARIABLES
    now,              \* Instant::now()
    killSwitch, modeOverride, access, \* the part of RuntimeProtectionConfig with setters
    budget,           \* session_budget.remaining
    mode,             \* ModeState
    seen,             \* duplicate_guard
    breaker,          \* breaker
    bucket,           \* outbound_bucket
    userCooldown, channelCooldown, guildCooldown, globalCooldown,
    sandboxFailures,  \* instants of analyzer errors
    lastDetection,    \* the message whose report last_detection() returns, or NoMessage
    verdict,          \* what the last decide_message returned
    outbound,         \* history: the decisions to act
    httpFailures,     \* history: the instants of counted statuses
    analyzerErrors    \* history: the instants of analyzer errors

settings == <<killSwitch, modeOverride, access, budget>>
cooldowns == <<userCooldown, channelCooldown, guildCooldown, globalCooldown>>
coreVars == <<now, settings, mode, seen, breaker, bucket, cooldowns, sandboxFailures,
              lastDetection, verdict, outbound, httpFailures, analyzerErrors>>

NoMessage == "NoMessage"

SuppressReasons == {"Duplicate", "Cooldown", "RateLimit", "ModeRestricted", "CircuitOpen",
                    "GuildDenied", "ChannelDenied", "Suspicious", "InvalidAction",
                    "SelfTrigger"}

AnalyzerErrors == [kind : {"Timeout", "Trap"}, count : {0}]

----------------------------------------------------------------------------
(* The runtime mode. *)

\* Mutation: the watermark itself is enough.
BudgetLowStrict == budget < AtLeast(LowWatermark, 1)

BudgetLow == budget <= AtLeast(LowWatermark, 1)

\* Mutation: the mode is decided on failures that are not trimmed first.
UntrimmedFailures == sandboxFailures

LiveFailures == Trim(sandboxFailures, SandboxWindow, now)

\* The priorities of recompute_mode.
TargetMode ==
    IF killSwitch
    THEN [mode |-> "FullDisable", trigger |-> "EmergencyKillSwitch"]
    ELSE IF modeOverride # NoOverride
    THEN [mode |-> modeOverride, trigger |-> "OperatorOverride"]
    ELSE IF BudgetLow
    THEN [mode |-> "ReactOnly", trigger |-> "SessionBudgetLow"]
    ELSE IF IsOpen(breaker, now)
    THEN [mode |-> "ObserveOnly", trigger |-> "CircuitBreakerOpen"]
    ELSE IF Len(LiveFailures) >= SandboxThreshold
    THEN [mode |-> "AuditOnly", trigger |-> "SandboxFailureSpike"]
    ELSE [mode |-> "Normal", trigger |-> "Recovery"]

\* recompute_mode runs first in every decide_message and nowhere else.
RecomputeMode == mode' = Transition(mode, TargetMode, now)

CurrentMode == TargetMode.mode

----------------------------------------------------------------------------
(* What decide_message asks before it looks at the content. *)

AllowGuild(g) ==
    \/ g = NoGuild
    \/ /\ g \notin access.denyGuilds
       /\ access.allowGuilds = {} \/ g \in access.allowGuilds

AllowChannel(c) ==
    /\ c \notin access.denyChannels
    /\ access.allowChannels = {} \/ c \in access.allowChannels

Admission(m) ==
    IF CurrentMode = "FullDisable" THEN "ModeRestricted"
    ELSE IF Context[m].bot THEN "SelfTrigger"
    ELSE IF ~AllowGuild(Context[m].guild) THEN "GuildDenied"
    ELSE IF ~AllowChannel(Context[m].channel) THEN "ChannelDenied"
    ELSE "Admitted"

\* The message is dropped before the duplicate guard sees it.
RefuseMessage(m) ==
    /\ Admission(m) # "Admitted"
    /\ RecomputeMode
    /\ sandboxFailures' = LiveFailures
    /\ verdict' = Admission(m)
    /\ UNCHANGED <<now, settings, seen, breaker, bucket, cooldowns, lastDetection,
                   outbound, httpFailures, analyzerErrors>>

DropDuplicate(m) ==
    /\ Admission(m) = "Admitted"
    /\ IsDuplicate(seen, m, now)
    /\ RecomputeMode
    /\ sandboxFailures' = LiveFailures
    /\ seen' \in Marked(seen, m, now)
    /\ verdict' = "Duplicate"
    /\ UNCHANGED <<now, settings, breaker, bucket, cooldowns, lastDetection,
                   outbound, httpFailures, analyzerErrors>>

----------------------------------------------------------------------------
(* finalize: what becomes of the compiled action. *)

NoopReason(proposal) ==
    IF CurrentMode # "Normal" /\ IsOutboundProposal(proposal) THEN "ModeRestricted"
    ELSE IF proposal.kind = "SuspiciousInput" THEN "Suspicious"
    ELSE IF IsOutboundProposal(proposal) THEN "InvalidAction"
    ELSE "Noop"

SuppressNoop(proposal, action) ==
    /\ action = "Noop"
    /\ verdict' = NoopReason(proposal)
    /\ UNCHANGED <<bucket, cooldowns, outbound>>

SuppressCircuitOpen(action) ==
    /\ action # "Noop"
    /\ IsOpen(breaker, now)
    /\ verdict' = "CircuitOpen"
    /\ UNCHANGED <<bucket, cooldowns, outbound>>

\* Mutation: the breaker is left to the mode alone.
PassBucketOnly(action) ==
    /\ action # "Noop"
    /\ CanTake(bucket, 1, now)
    /\ bucket' = AfterTake(bucket, 1, now)

\* Every later outcome has passed the breaker and paid for a token.
PassBucket(action) ==
    /\ action # "Noop"
    /\ ~IsOpen(breaker, now)
    /\ CanTake(bucket, 1, now)
    /\ bucket' = AfterTake(bucket, 1, now)

SuppressRateLimit(action) ==
    /\ action # "Noop"
    /\ ~IsOpen(breaker, now)
    /\ ~CanTake(bucket, 1, now)
    /\ bucket' = AfterTake(bucket, 1, now)
    /\ verdict' = "RateLimit"
    /\ UNCHANGED <<cooldowns, outbound>>

SuppressAllActions(action) ==
    /\ PassBucket(action)
    /\ MaxActions = 0
    /\ verdict' = "InvalidAction"
    /\ UNCHANGED <<cooldowns, outbound>>

\* cooldown_allows: the guild is checked and marked before the global cooldown is checked.
GuildCooling(g, t) == g # NoGuild /\ IsCooling(guildCooldown, g, t)

\* Mutation: a guild that has a deadline keeps it.
MarkGuildOnce(g) ==
    guildCooldown' = IF g = NoGuild \/ guildCooldown[g] # 0 THEN guildCooldown
                     ELSE MarkCooldown(guildCooldown, g, now, GuildTtl)

MarkGuild(g) ==
    guildCooldown' = IF g = NoGuild THEN guildCooldown
                     ELSE MarkCooldown(guildCooldown, g, now, GuildTtl)

\* Mutation: the user's cooldown is not asked for.
PassPlaceCooldowns(ctx) ==
    ~IsCooling(channelCooldown, ctx.channel, now) /\ ~GuildCooling(ctx.guild, now)

PassLocalCooldowns(ctx) ==
    /\ ~IsCooling(userCooldown, ctx.user, now)
    /\ ~IsCooling(channelCooldown, ctx.channel, now)
    /\ ~GuildCooling(ctx.guild, now)

SuppressCooldown(m, action) ==
    LET ctx == Context[m] IN
    /\ PassBucket(action)
    /\ MaxActions # 0
    /\ \/ /\ ~PassLocalCooldowns(ctx)
          /\ UNCHANGED guildCooldown
       \/ /\ PassLocalCooldowns(ctx)
          /\ IsCooling(globalCooldown, 0, now)
          /\ MarkGuild(ctx.guild)
    /\ verdict' = "Cooldown"
    /\ UNCHANGED <<userCooldown, channelCooldown, globalCooldown, outbound>>

\* The caps enforced after the cooldowns find nothing left to cut: the compiled action
\* has passed the same ones.
Act(m, action) ==
    LET ctx == Context[m] IN
    /\ PassBucket(action)
    /\ MaxActions # 0
    /\ PassLocalCooldowns(ctx)
    /\ ~IsCooling(globalCooldown, 0, now)
    /\ userCooldown' = MarkCooldown(userCooldown, ctx.user, now, UserTtl)
    /\ channelCooldown' = MarkCooldown(channelCooldown, ctx.channel, now, ChannelTtl)
    /\ MarkGuild(ctx.guild)
    /\ globalCooldown' = MarkCooldown(globalCooldown, 0, now, GlobalTtl)
    /\ verdict' = action
    /\ outbound' = Append(outbound, [at |-> now, msg |-> m, action |-> action])

Finalize(m, proposal, action) ==
    \/ SuppressNoop(proposal, action)
    \/ SuppressCircuitOpen(action)
    \/ SuppressRateLimit(action)
    \/ SuppressAllActions(action)
    \/ SuppressCooldown(m, action)
    \/ Act(m, action)

----------------------------------------------------------------------------
(* decide_message *)

AnalyzerFails(suspicion, reply) == suspicion # "Hard" /\ reply \in AnalyzerErrors

\* Hard suspicion answers in the analyzer's place; an analyzer error proposes Defer.
Proposal(suspicion, reply) ==
    IF suspicion = "Hard" THEN [kind |-> "SuspiciousInput", count |-> 0]
    ELSE IF AnalyzerFails(suspicion, reply) THEN [kind |-> "Defer", count |-> 0]
    ELSE reply

FailuresLeft == Len(httpFailures) + Len(analyzerErrors) < MaxFailures

RecordAnalyzerError ==
    /\ FailuresLeft
    /\ sandboxFailures' = Trim(Append(LiveFailures, now), SandboxWindow, now)
    /\ analyzerErrors' = Append(analyzerErrors, now)

\* A message that is neither refused nor a duplicate. The content enters as its suspicion
\* level, what the analyzer replies to it, and the detector's total count.
EvaluateMessage(m, suspicion, reply, total) ==
    LET proposal == Proposal(suspicion, reply)
        action == CompileResponse(proposal, CurrentMode, suspicion, total)
    IN
    /\ Admission(m) = "Admitted"
    /\ ~IsDuplicate(seen, m, now)
    /\ RecomputeMode
    /\ seen' \in Marked(seen, m, now)
    /\ lastDetection' = m
    /\ IF AnalyzerFails(suspicion, reply)
       THEN RecordAnalyzerError
       ELSE sandboxFailures' = LiveFailures /\ UNCHANGED analyzerErrors
    /\ Finalize(m, proposal, action)
    /\ UNCHANGED <<now, settings, breaker, httpFailures>>

Replies == Proposals(SendCounts) \cup AnalyzerErrors

DecideMessage(m) ==
    \/ RefuseMessage(m)
    \/ DropDuplicate(m)
    \/ \E suspicion \in SuspicionLevels, reply \in Replies, total \in Totals :
            EvaluateMessage(m, suspicion, reply, total)

----------------------------------------------------------------------------
(* The other methods, and time. *)

RecordHttpStatus(status) ==
    /\ status \in CountedStatuses => FailuresLeft
    /\ breaker' = RecordStatus(breaker, status, now)
    /\ httpFailures' = IF status \in CountedStatuses
                       THEN Append(httpFailures, now) ELSE httpFailures
    /\ UNCHANGED <<now, settings, mode, seen, bucket, cooldowns, sandboxFailures,
                   lastDetection, verdict, outbound, analyzerErrors>>

UnchangedBySetters == UNCHANGED <<now, mode, seen, breaker, bucket, cooldowns, sandboxFailures,
                                  lastDetection, verdict, outbound, httpFailures,
                                  analyzerErrors>>

SetModeOverride(override) ==
    /\ modeOverride' = override
    /\ UNCHANGED <<killSwitch, access, budget>> /\ UnchangedBySetters

SetEmergencyKillSwitch(enabled) ==
    /\ killSwitch' = enabled
    /\ UNCHANGED <<modeOverride, access, budget>> /\ UnchangedBySetters

SetAccessLists(lists) ==
    /\ access' = lists
    /\ UNCHANGED <<killSwitch, modeOverride, budget>> /\ UnchangedBySetters

UpdateSessionBudget(remaining) ==
    /\ budget' = remaining
    /\ UNCHANGED <<killSwitch, modeOverride, access>> /\ UnchangedBySetters

Tick ==
    /\ now < MaxTime
    /\ now' = now + 1
    /\ UNCHANGED <<settings, mode, seen, breaker, bucket, cooldowns, sandboxFailures,
                   lastDetection, verdict, outbound, httpFailures, analyzerErrors>>

Init ==
    /\ now = 0
    /\ killSwitch \in KillSettings /\ modeOverride \in Overrides
    /\ access \in AccessLists /\ budget \in BudgetValues
    /\ mode = InitialMode(0)
    /\ seen = EmptyCache
    /\ breaker = ClosedBreaker
    /\ bucket = FullBucket(0)
    /\ userCooldown = NoCooldowns(Users) /\ channelCooldown = NoCooldowns(Channels)
    /\ guildCooldown = NoCooldowns(Guilds) /\ globalCooldown = NoCooldowns({0})
    /\ sandboxFailures = <<>>
    /\ lastDetection = NoMessage
    /\ verdict = "Noop"
    /\ outbound = <<>> /\ httpFailures = <<>> /\ analyzerErrors = <<>>

Next ==
    \/ \E m \in MsgIds : DecideMessage(m)
    \/ \E status \in HttpStatuses : RecordHttpStatus(status)
    \/ \E override \in Overrides : SetModeOverride(override)
    \/ \E enabled \in KillSettings : SetEmergencyKillSwitch(enabled)
    \/ \E lists \in AccessLists : SetAccessLists(lists)
    \/ \E remaining \in BudgetValues : UpdateSessionBudget(remaining)
    \/ Tick

Spec == Init /\ [][Next]_coreVars

----------------------------------------------------------------------------
(* Properties. *)

\* The core's state stays in its types: in particular the bucket never holds more than
\* its capacity, and no component has recorded an instant later than now.
TypeOK ==
    /\ now \in 0 .. MaxTime
    /\ killSwitch \in KillSettings /\ modeOverride \in Overrides
    /\ access \in AccessLists /\ budget \in BudgetValues
    /\ mode \in ModeStates /\ mode.changedAt <= now
    /\ seen \in Caches /\ \A m \in MsgIds : seen[m] <= now
    /\ breaker \in Breakers
    /\ bucket \in Buckets /\ bucket.lastRefill <= now
    /\ userCooldown \in [Users -> Nat] /\ channelCooldown \in [Channels -> Nat]
    /\ guildCooldown \in [Guilds -> Nat] /\ globalCooldown \in [{0} -> Nat]
    /\ sandboxFailures \in Seq(Nat)
    /\ lastDetection \in MsgIds \cup {NoMessage}
    /\ verdict \in Outbound \cup {"Noop"} \cup SuppressReasons
    /\ outbound \in Seq([at : Nat, msg : MsgIds, action : Outbound])
    /\ httpFailures \in Seq(Nat) /\ analyzerErrors \in Seq(Nat)

\* finalize takes a token for every action it lets through: whatever the messages, any
\* stretch of outbound decisions is at most a full burst plus what its duration refilled.
RateBound ==
    \A i, j \in 1 .. Len(outbound) :
        i <= j => TokenUnit * (j - i + 1)
                    <= Capacity + RefillPerTick * (outbound[j].at - outbound[i].at)

SameGuild(m, n) == Context[m].guild = Context[n].guild /\ Context[m].guild # NoGuild

\* cooldown_allows: two outbound decisions that share a user, a channel or a guild, and
\* any two at all, are at least that scope's cooldown apart.
CooldownSpacing ==
    \A i, j \in 1 .. Len(outbound) :
        i < j =>
            LET gap == outbound[j].at - outbound[i].at
                first == Context[outbound[i].msg]
                second == Context[outbound[j].msg]
            IN  /\ first.user = second.user => gap >= UserTtl
                /\ first.channel = second.channel => gap >= ChannelTtl
                /\ SameGuild(outbound[i].msg, outbound[j].msg) => gap >= GuildTtl
                /\ gap >= GlobalTtl

\* is_duplicate_and_mark: the governor does not act twice on one message id within the
\* ttl, however often the gateway delivers it. (It holds while the cache is large enough.)
AnsweredOnce ==
    \A i, j \in 1 .. Len(outbound) :
        i < j /\ outbound[i].msg = outbound[j].msg =>
            outbound[j].at - outbound[i].at > DuplicateTtl

\* What the breaker should be, told from every counted status ever recorded: open for
\* BreakerOpenFor after each one that completed a threshold within its window.
Tripped(failures, t) ==
    \E i \in 1 .. Len(failures) :
        /\ t < failures[i] + BreakerOpenFor
        /\ Cardinality({j \in 1 .. i : failures[i] - failures[j] <= BreakerWindow})
              >= AtLeast(BreakerThreshold, 1)

\* record_status and trim: a trimmed deque and one deadline tell as much as the history.
BreakerMatchesHistory == IsOpen(breaker, now) <=> Tripped(httpFailures, now)

\* A sandbox failure spike, told from every analyzer error ever recorded.
Spiking(errors, t) ==
    Cardinality({i \in 1 .. Len(errors) : t - errors[i] <= SandboxWindow}) >= SandboxThreshold

\* recompute_mode: a mode is entered only for a trigger that holds at that moment, and the
\* governor recovers to Normal only when none does.
TransitionsJustified ==
    [][mode' # mode =>
        CASE mode'.trigger = "EmergencyKillSwitch" -> killSwitch
          [] mode'.trigger = "OperatorOverride" -> ~killSwitch /\ modeOverride = mode'.mode
          [] mode'.trigger = "SessionBudgetLow" -> BudgetLow
          [] mode'.trigger = "CircuitBreakerOpen" -> Tripped(httpFailures, now)
          [] mode'.trigger = "SandboxFailureSpike" -> Spiking(analyzerErrors, now)
          [] OTHER -> /\ ~Tripped(httpFailures, now) /\ ~Spiking(analyzerErrors, now)
                      /\ ~BudgetLow /\ ~killSwitch]_coreVars

\* decide_message as a whole: the bot acts only when the breaker is closed (even if an
\* override or a low budget hides it from the mode), no kill switch or silent override is
\* set and, unless a more urgent condition decides the mode, there is no failure spike;
\* and it sends a message only when neither a low budget nor an override asks for less.
OutboundIsProtected ==
    [][outbound' # outbound =>
        LET last == outbound'[Len(outbound')] IN
        /\ ~Tripped(httpFailures, now)
        /\ ~killSwitch
        /\ modeOverride \in {NoOverride, "Normal", "ReactOnly"}
        /\ modeOverride = NoOverride /\ ~BudgetLow => ~Spiking(analyzerErrors, now)
        /\ last.action \in Sends =>
              \/ modeOverride = "Normal"
              \/ modeOverride = NoOverride /\ ~BudgetLow]_coreVars

----------------------------------------------------------------------------
(* The abstract specification. *)

Policy == INSTANCE OutboundPolicy
    WITH clock <- now, sent <- outbound, Actions <- Outbound,
         silenced <- killSwitch \/ IsOpen(breaker, now)

\* Bucket, cooldown maps, duplicate guard, breaker and mode together permit no action that
\* the list of earlier actions, the kill switch and the breaker do not: the governor
\* implements OutboundPolicy. (Again while the cache is large enough.)
ImplementsPolicy == Policy!PolicySpec
=============================================================================
