# A TLA+ verification of oo-bot

oo-bot is a Discord bot in Rust. It reads every message, counts "oo" sequences and words read
"おお", and answers with a reaction or a stamp. Around that small decision stands a governor that
must never let the bot act too often, twice, or at a time when the API or the analyzer is in
trouble; an audit log chained by hashes; a signed configuration file; a control socket; and a
terminal UI for the operator. This directory models those parts in TLA+, checks them with TLC on
small instances, and proves with TLAPS, for all values of their parameters, every safety property
that the passing runs check (a few of them under a stated condition). Liveness is left to TLC.

Paths below are relative to the repository (`src/...`). Line numbers are in `PROJECT.json`.

## 1. The system

| Component | State | Operations | Talks to |
|---|---|---|---|
| Governor `security/core_governor.rs` and its parts (`mode`, `duplicate_guard`, `rate_limiter`, `circuit_breaker`, `session_budget`) | mode, seen message ids, token bucket, four cooldown maps, breaker deque and deadline, analyzer failures, last detection | `decide_message`, `record_http_status`, setters | calls detector, analyzer, response compiler; called by the handler under a mutex |
| Response compiler `security/response_compiler.rs` | none | proposal -> action through mode, policy and caps | governor |
| Message analysis: `domain/detector.rs`, `domain/oo_counter.rs`, `sandbox/host.rs` (a WAT guest), `sandbox/abi.rs`, `security/suspicious_input.rs`, `app/analyze_message.rs` | locals of the guest, fuel | count, classify, propose, decode | governor, replay harness |
| Event handler `infra/discord_handler.rs` | one task per delivered message | decide, audit, call Discord, report the status, audit again | governor and audit store, each behind a mutex; serenity's HTTP client |
| Audit log `audit/mod.rs` | SQLite tables `audit_events`, `audit_manifest` | `record_event`, `tail`, `export`, `verify` | handler, `main.rs`, TUI, other processes |
| Configuration file `config.rs`, `main.rs` | a YAML file and its detached HMAC | install, load, create when missing | TUI, `config` command, start of the bot |
| Control plane `control.rs`, `main.rs` | a Unix socket path, a channel of stop requests, four tasks | bind, serve, `control stop`, SIGTERM, shutdown | serenity's client, operator processes |
| Operator TUI `operator_tui.rs` | screen, page, selection, draft, edit buffer, audit rows, armed stop | one handler per key | configuration file, audit log, control socket |
| Replay `app/replay.rs`, `bin/replay.rs` | none of its own | runs fixtures through `analyze_message` and the governor | governor, analysis |
| LSM and hardening `security/lsm.rs`, `security/hardening.rs`, diagnostics `security/diagnostics.rs`, `xtask/` | none | read-only inspection and reports | operating system |

What is hard here, and what makes each part correct:

* **Governor.** Five limits with different clocks and memories decide about each message; a
  message that passes one and fails the next has already changed the first. Correct: every window
  of time holds at most burst + rate actions; two actions of one user, channel, guild and of the bot
  are a cooldown apart; a redelivered message is not answered twice; nothing goes out while the
  breaker is open, a kill switch or a silent override is set or the analyzer keeps failing; and a
  mode is entered only for its own reason.
* **Event handler.** Serenity runs the tasks concurrently; the governor's and the store's locks are
  taken one after the other, and released before each await. Correct: no failure the API reports is
  lost, nothing more than the requests already under way goes out after the breaker opens, an
  `ActionSent` row is written only for an action that was done, and every task ends.
* **The process around it.** A process may end anywhere, and a new one remembers nothing the
  governor knew; a request is posted any time after it was decided upon. Correct: what Discord sees
  is still bounded, a message is answered again only after a restart, and no request is made whose
  decision is not in the audit log.
* **Message analysis.** Characters are counted by the detector and bytes by the guest, and the two
  counts meet in the response compiler. Correct: they agree, and short messages cannot time out.
* **Audit log.** Several processes append to one chain, reading and inserting in two statements,
  and a crash can fall between any two. Correct: chains fork only where writers overlap, manifests
  never disagree with the rows, verification in pieces finds what verification at once finds, and
  capped queries return the newest rows.
* **Configuration.** Two files and two renames, with processes that save and load at the same time,
  and a power loss anywhere. Correct: a start fails only if an install was in the way, an install
  repairs whatever was left before, what it returned for is durable, and the defaults replace no
  configuration that was there first.
* **Control plane.** Connections, a bounded channel, a signal and the client's own end race for one
  shutdown, over a socket path that outlives crashes. Correct: the path names the serving process,
  a stop that was accepted stops, and the shutdown itself does not wait for ever.
* **TUI.** A modal program with one global two-press action. Correct: no single key stops the bot,
  the configuration shown is the one on disk unless another process wrote it since, and what is
  saved is what the preview showed.

## 2. Modules

```
Bounds  RuntimeMode  TokenBucket  DuplicateGuard  CooldownMap      pure parts, one per source type
FailureWindow  HttpCircuitBreaker  ResponseCompiler
        \        |        /                   \
         TrustedCore ---- OutboundPolicy       MessageAnalysis
         /        \          (abstract)
  EventHandler   TrustedCoreProofs
        |    \          |
   BotProcess  EventHandlerProofs             MessageAnalysisProofs
         \         |
          BotProcessProofs
AuditLog   ConfigInstall   ControlPlane   OperatorTui             components with their own state
AuditLogProofs, ConfigInstallProofs, ControlPlaneProofs, OperatorTuiProofs
MC<module>                                                        constants for TLC
```

| Module | Models | Correspondence |
|---|---|---|
| `RuntimeMode` | `ModeState` | `Transition` is the method; the instant of the last change, which nothing reads, is left out |
| `TokenBucket` | `TokenBucket` | tokens are counted in `TokenUnit`s, so that the refill of one tick is an integer |
| `DuplicateGuard` | `DuplicateGuard` | the map is a function from ids to the instant of the last mark; eviction, hit, mark and compaction in the order of the code |
| `CooldownMap` | `CooldownMap` | key -> the instant until which it cools; entries are never removed |
| `FailureWindow`, `HttpCircuitBreaker` | the trimmed deque and `HttpCircuitBreaker` | `RecordStatus` trims, pushes, and sets the deadline; `IsOpen` is the read |
| `ResponseCompiler` | `compile_response` | an action is its kind; the rendered template is the constants `TemplateRenders` and `Sendable` |
| `TrustedCore` | `TrustedCore` | `DecideMessage` is one action: lists, duplicates, mode, analyzer, compile, breaker, bucket, cooldowns, in the order of `decide_message` and `finalize`, with what a refused message leaves behind. The analyzer's answer is any proposal or error |
| `EventHandler` | `Handler::message` | each critical section and each await is an action, so tasks interleave between them |
| `BotProcess` | `run_bot` around the handler | `Restart` ends a process in whatever way and boots the next: a fresh governor, the budget read once, the audit store opened, `process_start` written. `Post` is the request leaving, with the time since its decision. `CloseAudit` is the row at the end of `run_bot`, which waits for no message task |
| `OutboundPolicy` | what the governor promises, in no particular source | a list of past actions and a flag for "silenced": an action is `Permitted` if rate, cooldowns and ids, told from that list alone, allow it |
| `MessageAnalysis` | detector, guest, wire, `analyze_message` | one action per pass of the guest's loop over real UTF-8 bytes |
| `AuditLog` | `AuditStore` | the SELECT, the INSERT and the manifest of `record_event` are three actions; a hash is the sequence of rows it covers, so it is free of collisions. `RecentlyBroken` is the part of the self check (`security/diagnostics.rs`) that verifies the newest rows |
| `ConfigInstall` | `write_startup_config_to_path`, `load_...`, `ensure_...`, the external file system | one action per look, rename, fsync and read; `disk` is what processes see and `durable` what survives |
| `ControlPlane` | `control.rs` and the tasks of `run_bot` | one record per process with the state of its tasks; connections are clients |
| `OperatorTui` | key handlers of `operator_tui.rs` | one action per group of keys, and one each for the bot and `config init --force`, which write beside it; drawing is left out |

Definitions keep the names of the source where there is one. A definition whose comment begins
with "Mutation:" is not part of the model: it is the model of a plausible bug, kept next to the
definition it would replace, and `PROJECT.json` says which property notices the replacement. Every
property of every passing run has one.

`SuppressAllActions` needs `max_actions_per_message = 0`, which no run here sets: the other
constants would then never act. The proofs cover it.

## 3. Runs

Each run takes about a minute and a half at most with two workers. States are distinct states.

| Run | Question | Bounds, and why they are enough |
|---|---|---|
| `core_outbound` | Do rate, cooldowns and duplicate suppression hold for every sequence of messages, time steps and analyzer answers? | three messages: two of a channel, two of a user, one in a direct message; instants 0 to 4: past each ttl, long enough for three actions, of which the third needs a refill that comes too late at instant 3 and in time at 4; one failure, which opens the breaker; a policy that reacts only, as no limit depends on what is posted; a cache larger than the messages |
| | Does the governor implement `OutboundPolicy`? | the same |
| `core_modes` | Is each mode entered for its reason, is the breaker what its whole history says, and is nothing sent that must not be? | messages of a bot, of a denied guild and of a channel not allowed, and a plain one; thresholds of two; kill switch, override and budget change at any time |
| `handler` | What do two concurrent tasks do to each other through the governor, the store and the API? | two deliveries, of one message or of two; every answer of the API; breaker threshold one, so that one answer matters to the other task |
| `handler_detection` (violated) | Does a decision row hold the detection of its own message? | as above |
| `process` | What do restarts and waiting requests do to the limits, the audit log and the budget? | three deliveries of two messages, two processes, two instants and a ttl that spans both; a low and a sufficient budget; a burst of one, so that each limit is reached within a process and exceeded only across two. Audit inserts fail or not; no failure is counted (a task that has one to report stays there), as `handler` is about those |
| `analysis` | Does the guest's byte loop count what the detector and `count_oo_sequences` count, and does the governed path decide what `analyze_message` decides? | every message of up to four characters of six classes (one and three bytes long, and kana that share bytes with おお), and some of five and six; the limits lowered until each is reached |
| `analysis_patterns` (violated) | Do the configured patterns decide? | every message of up to two characters |
| `audit` | Does the log keep its promises with two writers, failures and restarts? | four rows, a manifest every second, caps below the number of rows |
| `audit_fork` (violated) | Does verification pass on a log nobody touched? | three rows |
| `config` | Do saves, first starts and loads of three processes and power losses leave a file that loads, and the right one? | an unsigned and two signed configurations, two faults; processes are symmetric |
| `control` | Does a stop stop, and does the path name the server? | two processes in three starts, one connection, one fault, a channel of one |
| `tui` | Can any sequence of keys stop the bot by accident, save something else than shown, or show something else than is on disk? | three fields of two settings on the real pages, any order of keys, a bot writing one row, the file overwritten at any time |

**What bounds stand for.** `MaxTime`, `MaxFailures`, `MaxRows`, `MaxStarts` and `MaxFaults` only keep
the state space finite: they guard the clock, the history variables, the log and the faults of the
environment, no step of the program. Time is a natural number that a `Tick` increases; the code's
monotonic clock never goes back, and a ttl of n ticks is long or short only in relation to the others.

**View and symmetry.** The `core_*` runs use a VIEW without the last verdict and the last detection,
which no guard reads. `process` leaves out the mode as well, which every decision computes afresh,
the details of rows and of answers that were dealt with: see the comment of `BotView`. Symmetry is
over processes or deliveries only, and only in runs without liveness.

**Fairness.** `EventHandler`: weak fairness of each task's next step (`tokio` polls a ready task, and
serenity's HTTP client has a timeout, so an answer or an error comes back), none on deliveries or the
clock. `ControlPlane`: weak fairness of the tasks that `tokio::select!` and the shutdown sequence
poll and of the client's return once its shards were told to shut down; none on operators, signals,
starts or faults. Nothing else is assumed to happen.

**Where a run stops.** `handler`, `process`, `analysis`, `control` and `tui` reach states with nothing left to do
(all deliveries done, the message decided, all processes ended, the program quit) and so do not
check for deadlock; the others do.

### What the violated runs show

* `handler_detection`: `record_decision_audit` takes the governor's lock again and reads
  `last_detection`, so the row of one message can carry the detection of another that was decided in
  between, or of an earlier one if its own was refused before detection. `docs/operations/observability.md`
  offers these columns for analysis.
* `analysis_patterns`: `detector.literal_sequence_patterns` decides only how many stamps are sent at most.
  What is *found* in the text is decided by the guest, which always counts `oo`, `おお` and `オオ`.
  An operator who removes these patterns still gets reactions to them, and one who adds another gets
  none, while `config/oo-bot.yaml` says that the patterns are detected as written.
* `audit_fork`: `record_event` reads the last hash and inserts in two statements without a
  transaction; two processes (a second `run` records its start before it finds the socket taken)
  fork the chain, and `verify` reports a broken row that nobody touched.

### Observed while modelling, without a run

* The TUI's mode filter compares `normal`, `react_only` with the mode column of the rows, which the
  handler writes as `Normal`, `ReactOnly` (Rust's Debug form): it finds nothing, whatever is in the log.
* A restart refills the bucket and empties the duplicate guard: a supervisor that restarts a crashing
  bot lets it act a burst per start (`PostedRate`) and answer redelivered messages again
  (`RepeatsNeedRestarts`).
* `process_shutdown` need not be the last row of its process: `run_bot` writes it without waiting for
  the tasks of messages, which may still write theirs, or be dropped between a request and its
  `ActionSent` row.
* A guild's cooldown is marked before the global one is looked at, so a message that the global
  cooldown suppresses still extends the guild's.
* The duplicate cache remembers as many ids as it has room for: with more messages within the ttl
  than that, a redelivery is answered again. `AnsweredOnce` holds exactly as long as there is room
  (see the theorems).
* A low session budget takes precedence over an open breaker and over a failure spike in the *mode*;
  the breaker is looked at again in `finalize`, the spike is not, so with a low budget the bot still
  reacts during a spike. `OutboundIsProtected` states what is left.
* Fuel: a pass of the guest's loop over a byte that starts nothing executes about 160 instructions,
  so the default of 50,000 covers some 300 bytes. Longer messages time out and count towards a
  failure spike although the soft limit is 2,000 characters. The replay harness runs with 800,000.
* `analyze_message` limits the number of stamps to those that fit in `max_send_chars`, the governed
  path cuts the text at that length instead, perhaps inside a stamp. The two agree when
  `max_count_cap` stamps fit, as they do by default and in the run `analysis`, and when the cap does
  not exceed the 255 stamps of the wire. They also differ under an `action_policy` other than
  `react_or_send`, which `analyze_message` does not apply to a single hit or the special phrase.
* A power loss between the two renames of an install leaves a configuration whose signature is the
  old one: the bot does not start until the configuration is installed again (`InstallHeals`).

## 4. Proofs

Each theorem holds for every value of the constants that the named assumptions of the modules
allow: naturals, `TokenUnit > 0`, `MinDuplicateCap > 0`, sets of statuses, users and processes of
any size, finite or not unless the assumption says so. The assumptions are evaluated by TLC in the
runs. Where a theorem has a condition of its own, the tables say so, and section 3 or the end of this
section says what happens without it.

### The governor: `TrustedCoreProofs`

| Theorem | Statement |
|---|---|
| `TypeCorrect` | `Spec => []TypeOK` |
| `RateBoundHolds` | `Spec => []RateBound`: actions i to j take at most `Burst` plus the refill of the time between them |
| `CooldownSpacingHolds` | `Spec => []CooldownSpacing` for users, channels, guilds and all |
| `AnsweredOnceWhileRoom` | `Spec /\ []RoomInCache => []AnsweredOnce`: no second answer while no live entry had to be dropped |
| `AnsweredOnceHolds` | `Spec => []AnsweredOnce` if there are no more ids than `EffectiveCap` |
| `PolicyImplemented` | `Spec => ImplementsPolicy`, if there are no more ids than `EffectiveCap` |
| `BreakerMatches` | `Spec => []BreakerMatchesHistory` |
| `TransitionsAreJustified` | `Spec => TransitionsJustified` |
| `OutboundProtected` | `Spec => OutboundIsProtected` |

None of these properties is inductive: they speak of the past, and the next step depends on what the
governor remembers of it. Each strengthening says that the memory is enough.

* `RateInv`: for every action i, the tokens now in the bucket plus those taken since i are at most the
  capacity plus the refill from i's instant to the last refill. A refill adds to both sides or caps
  the left one; an action moves one `TokenUnit` on the left from "in the bucket" to "taken".
* `CooldownInv`: for every action, each of its four map entries is at least its instant plus the ttl.
  Marks only ever move an entry later, since time does not go back; a new action finds the entry
  expired, which is the gap.
* `AnsweredInv`: every action younger than the ttl has its id in the cache with an instant no earlier
  than its own. Eviction removes only entries older than the ttl, and compaction the oldest beyond
  the capacity, which `RoomInCache`, or the size of `MsgIds`, rules out.
* `BreakerInv` and `SpikeInv`: the deque the code trims is a tail of the whole history, and what it
  lacks lies further back than the window (`Remembers`). So counting in either gives the same
  (`Recent`). For the breaker also: each answer that made the count reach the threshold has its end no
  later than the deadline, and the deadline, unless it was never set, is the end of one of them. These
  say that the deadline is the latest of the ends without asking for a maximum.

The proofs split a step with `StepKinds` (a step either adds one action after taking a token and
marking all cooldowns, or adds none), `BreakerStep`, `SpikeStep` and `ModeStep`, so that each
invariant is looked at for those kinds and not for each way through `DecideMessage`.
`TransitionsAreJustified` and `OutboundProtected` follow from them by the order in which
`RecomputeMode` and `finalize` ask their questions.

The refinement takes the clock and the history of actions as they are, and "silenced" from the kill
switch and the breaker's deadline. A step that adds an action is `Permitted` because each of its
parts is the last instance of an invariant proved before, taken after the step (`RateBound'`,
`CooldownSpacing'`, `AnsweredOnce'`); any other step is one of `Rest`, or a stutter.

### The event handler: `EventHandlerProofs`

| Theorem | Statement |
|---|---|
| `TasksKeepCoreSpec` | `HandlerSpec => Spec`: the tasks make no step of the governor that `TrustedCore` does not have, so the theorems above hold of the handler |
| `HandlerTypesCorrect` | `HandlerSpec => []HandlerTypeOK` |
| `FailuresAreReported` | `HandlerSpec => []NoFailureLost` |
| `SentRowsTrue` | `HandlerSpec => []SentRowsAreTrue` |
| `OpenBreakerOnlyDrains` | `HandlerSpec => OpenBreakerDrains` |

`HandlerInv` says what each step of a task knows (a task that reports has a status, one that records
a success got it), and `OneTask` that a step touches one task. `NoFailureLost` counts: the breaker's
history is as long as the set of tasks that failed and have reported; only `ReportStatus` changes
either. `RowsInv` says, for every row, how far its task must have come since, which is why no row is
written twice, and that a task past its decision has attempted the row of it.

### Processes and restarts: `BotProcessProofs`

| Theorem | Statement |
|---|---|
| `BotTypesCorrect` | `BotSpec => []BotTypeOK` |
| `DecisionsWritten` | `BotSpec => []DecisionsPrecedeRequests` |
| `LowBudgetStays` | `BotSpec => [](modeOverride # "Normal" => LowBudgetLasts)`: the code looks at an override before it looks at the budget |
| `RepeatsTakeRestarts` | `BotSpec /\ []RoomInCache => []RepeatsNeedRestarts` |
| `RepeatsAlwaysTakeRestarts` | `BotSpec => []RepeatsNeedRestarts` if there are no more ids than `EffectiveCap` |
| `RequestsArePaid` | `BotSpec => []PostedRate` |

`PostedRate` is the hardest. It bounds a stretch of requests, which leave in another order than that
of their decisions, by the processes involved and the oldest decision. What is inductive is an account
(`Accounts`): for every set S of processes and every instant t, the tokens of what S decided since t
and those in the bucket, if the running process is in S, are at most a capacity for each of S and the
refill since t. A restart puts a full bucket on the left and one more process on the right. A
stretch of requests is an instance, with S its processes and t its oldest decision (`OldestInTail`
says that there is one). `RepeatInv` carries `AnsweredInv` over to tasks: while a task of the running
process is younger than the ttl, the guard remembers its id (`Kept`), so two such tasks of one id
were not decided within a ttl (`LiveApart`); a restart empties the guard and with it the set of live
tasks. `WrittenInv` and `BudgetInv` say the property of the tasks that have not posted yet.
`CountInv` holds what the governor let out against what was posted or waits.

### Message analysis: `MessageAnalysisProofs`

| Theorem | Statement |
|---|---|
| `AnalysisTypesCorrect` | `AnalysisSpec => []AnalysisTypeOK` |
| `GuestCountsWhole` | `AnalysisSpec => []CountsWholeSequences`, for messages of every length |
| `OnlyLongTimeouts` | `AnalysisSpec => []TimeoutsAreLong` |
| `DecidesAlike` | `AnalysisSpec => []DecidesLikePlainAnalysis`, if `SampleSettings` |

The module's operators are recursive functions on positions, and what they compute is proved by
induction in the form the provers can use: `SetInduction` derives it, for a *set* of numbers,
from the well-foundedness of `<`. A function defined by `CHOOSE` is first shown to exist
(`CountedExists`, `JoinedExists`, `MatchesExist`), from the end of the text backwards.

* *Bytes.* `FlattenIs`, `CharBytes` and `NextBytes` give the bytes at a character's start, and the
  lemmas from `KanaTwice` to `InsideHere` translate each of the guest's comparisons of bytes into one of
  characters; inside of a character none of them succeeds, because UTF-8 continues with other bytes.
* *Counting.* `Standing(content, n, i, count)`: the guest stands at or inside of character n + 1, has
  counted `count` sequences in the n characters behind it, and none begins where it stands if it is
  past the start. The count is kept as `Tallied`: for each longer prefix, what `count_oo_sequences`
  finds in it is the count plus what it finds from n on. `GuestInv` is that, the types,
  `i + fuel >= FuelLimit` (a pass costs one and moves on by one byte or more), and what an answer was
  made of.
* *The two decisions.* `PatternsFindPairs`: the detector, which goes through the text once for each
  of the three sample patterns and lower-cases it for the last, finds as many as
  `count_oo_sequences`, which takes each pair as it comes. For a pair of one kind is no beginning of
  a pair of another, so where one count advances by two characters the others lose nothing
  (`PairAdds`). `SampleSettings` names the settings that this and the caps need; the run `analysis`
  has them.

### The audit log: `AuditLogProofs`

| Theorem | Statement |
|---|---|
| `AuditTypesCorrect` | `AuditSpec => []AuditTypeOK` |
| `ForksTakeTwo` | `AuditSpec => []ForksNeedTwoWriters` |
| `ManifestsAgree` | `AuditSpec => []ManifestsHold` |
| `OneWriterVerifies` | if there is one writer only, `AuditSpec => []VerifyPasses`, which `audit_fork` violates with two |
| `ReadsTakeNewest` | `AuditSpec => []ReadsAreNewest` |
| `RangesAgree` | `AuditSpec => []VerifyRangesAgree` |

`AuditInv` holds for each writer between two statements: the hash it read is that of some row (or the
genesis), and every row after that one is another's (`ReadAt`); the row whose manifest it owes is its
own newest, ends an interval, and has none yet (`Pending`). A fork is then two rows of which the
second was drafted before the first came in, hence by another process. `ReadsTakeNewest` follows the
loop of `query_events` (`QueryCapped`): after n rows it holds what matches of the newest n (`NewestRows`), by
`SetInduction`. `RangesAgree` needs it, since the self check finds where to begin through `tail`.

### The configuration file: `ConfigInstallProofs`

| Theorem | Statement |
|---|---|
| `ConfigTypesHold` | `ConfigSpec => []ConfigTypeOK` |
| `UnsyncedOnlyDuringInstallHolds` | `ConfigSpec => []UnsyncedOnlyDuringInstall`; inductive with the types alone, as one fsync covers what every install has renamed |
| `DefaultsReplaceNothingHolds` | `ConfigSpec => DefaultsReplaceNothing` |
| `InstallHealsHolds` | `ConfigSpec => InstallHeals` |
| `StartLoadsHolds` | `ConfigSpec => []StartLoads` |

The last three rest on one observation: a step of one process marks every other one that is busy as
disturbed. So whatever an undisturbed process has seen or put in place is still there:
`NothingReplaceable` (the configuration it did not find), `HeldInPlace` (its own renames) and
`StartInvariant` (the pair it read, which loads as long as no disturbed install has returned).

### The control plane: `ControlPlaneProofs`

| Theorem | Statement |
|---|---|
| `ControlTypesCorrect` | `ControlSpec => []ControlTypeOK` |
| `ServersAreReachable` | `ControlSpec => []ServerIsReachable` |

`ReachInv`, while no two processes were starting at once: at most one is between its look at
the path and its bind, nobody serves when one is about to remove what it took for a dead socket, and
the path names whoever serves. The last part makes the removal safe: a probe of the path that no
one answers means that no one serves at all. `ProcShape` says in which order the tasks of a shutdown
end, so that a process which is done has no listener left.

### The operator's TUI: `OperatorTuiProofs`

| Theorem | Statement |
|---|---|
| `TuiTypesCorrect` | `TuiSpec => []TuiTypeOK`, for all layouts of the pages |
| `ShownIsOnDisk` | `TuiSpec => []ShowsWhatIsOnDisk` |
| `SavesArePreviewed` | `TuiSpec => SavesWhatWasPreviewed` |
| `StopsTakeTwoPresses` | `TuiSpec => StopTakesTwoPresses` |

`TuiInv` adds what the key handlers rely on across keys: the selection is a field of the page shown, a
text is typed for the field selected or for the search but never for both, and a stop is armed only
if the last key was `x` outside of either. The last one is what a forgotten reset would break.

### What is only model-checked, and why

* Liveness: `DeliveriesSettle`, `StopTakesEffect` and `ShutdownCompletes`. Fairness is stated with
  `ENABLED`, about which the provers cannot reason.
* The conditions above. `RoomInCache` and the bound on ids are true of a bot that sees fewer messages
  within the ttl than its cache holds; with more, the code answers twice (section 3). With an
  override to `Normal` a low budget does not last, as the code orders the two. With other settings
  than `SampleSettings` the two decisions differ, which `analysis_patterns` shows for the patterns
  and section 3 says for the rest.
* What the violated runs show: a counterexample needs no proof.

## 5. Plan

Done: the modules, runs and theorems above. Next, in this order:

1. *Extend.* A stop of `ControlPlane` in the middle of `BotProcess`, so that an acknowledged stop and
   the requests still under way meet; the store's read-only openings and its busy timeout.
2. *Prove.* What is new of that; that `AnsweredOnce` fails only with the instant of a compaction that
   dropped a live entry, in the place of the condition on every state.

## 6. Not modelled

* Lindera's tokens, Unicode normalisation and readings (`reading_normalizer.rs`): what the dictionary
  matches is an input, a number of token hits.
* wasmtime itself: memory isolation and the exact price of an instruction; fuel is counted in passes.
* Template rendering and the exact text of a message; drawing, translations, logging and metrics.
* SQLite's own atomicity (a statement happens or does not), its triggers against UPDATE and DELETE
  (the model has no such action), and real SHA-256 and HMAC (hashes and signatures are ideal).
* LSM and hardening inspection, the rest of the diagnostics, the CLI's parsing and `xtask`: they read
  the system and print, or run once at start, and keep no state a property could be about. The tools
  that the diagnostics can run, with a timeout and two reader threads, are run by tests only.
* The replay harness: one case after another, it sets a governor up through the setters, which the
  run `core_modes` calls in every order, and compares what the two paths of `MessageAnalysis` decide.
* A stop that is taken before any shard runs: whether serenity remembers an early `shutdown_all` is
  not in the source, so `StopTakesEffect` is about a process whose shards run.
* The growth of the cooldown maps, which never lose an entry: no bound is stated anywhere.
* Serenity's gateway: sharding, resumption and rate-limit queues. It delivers messages at any time,
  possibly again, and answers requests with any status.
