----------------------------- MODULE BotProcess -----------------------------
(***************************************************************************)
(* run_bot of src/main.rs over the event handler: bot processes that start,*)
(* end in whatever way, and are started again.  The audit log and what     *)
(* Discord was sent stay; the governor, its session budget included, is    *)
(* made anew by every start, and the tasks of the old process are gone.    *)
(*                                                                         *)
(* The time a bot is down is part of the time its last process does        *)
(* nothing any more: an end and the next start are one step here.          *)
(***************************************************************************)
EXTENDS EventHandler

CONSTANT MaxStarts   \* bound: processes started

ASSUME BotProcessAssumption == MaxStarts \in Nat

VARIABLES
    starts,     \* the processes, each with its budget and audit_store as of the start
    closed,     \* whether the running process has written process_shutdown
    decidedAt,  \* history: the instant of each task's decision
    posted      \* history: the requests made of Discord

processVars == <<starts, closed, decidedAt, posted>>
botVars == <<allVars, processVars>>

Run == Len(starts)   \* the process that runs

ProcessRow(event) == [event |-> event, delivery |-> "none", msg |-> NoMessage,
                      detection |-> NoMessage]

----------------------------------------------------------------------------
(* run_bot, up to client.start() *)

\* TrustedCore::new_with_detector; nothing of it comes from the process before.
FreshCore ==
    /\ mode' = InitialMode(now)
    /\ seen' = EmptyCache
    /\ breaker' = ClosedBreaker
    /\ bucket' = FullBucket(now)
    /\ userCooldown' = NoCooldowns(Users) /\ channelCooldown' = NoCooldowns(Channels)
    /\ guildCooldown' = NoCooldowns(Guilds) /\ globalCooldown' = NoCooldowns({0})
    /\ sandboxFailures' = <<>> /\ lastDetection' = NoMessage /\ verdict' = "Noop"
    /\ outbound' = <<>> /\ httpFailures' = <<>> /\ analyzerErrors' = <<>>
    /\ UNCHANGED <<now, killSwitch, modeOverride, access>>

\* load_session_budget, then update_session_budget for the only time. With a store, the
\* process_start row is written, or a warning says that it was not.
Boot(remaining, open) ==
    /\ FreshCore
    /\ budget' = remaining
    /\ auditOpen' = open
    /\ starts' = Append(starts, [at |-> now, budget |-> remaining, audit |-> open])
    /\ closed' = FALSE
    /\ IF open THEN InsertRow(ProcessRow("ProcessStart")) ELSE UNCHANGED <<rows, warned>>

\* Mutation: the tasks of the process before go on.
RestartAndResume ==
    /\ Run < MaxStarts
    /\ \E remaining \in BudgetValues, open \in AuditOpens : Boot(remaining, open)
    /\ UNCHANGED <<tasks, decidedAt, posted>>

\* The process is killed, or it returns from main, which drops the runtime and with it every
\* task, whatever it was waiting for.
Restart ==
    /\ Run < MaxStarts
    /\ \E remaining \in BudgetValues, open \in AuditOpens : Boot(remaining, open)
    /\ tasks' = [d \in Deliveries |->
                   IF tasks[d].step = "Idle" THEN IdleTask ELSE [tasks[d] EXCEPT !.step = "Gone"]]
    /\ UNCHANGED <<decidedAt, posted>>

----------------------------------------------------------------------------
(* client.start() returned: the rest of run_bot, which waits for no task of a message. *)

CloseAudit ==
    /\ ~closed /\ auditOpen
    /\ InsertRow(ProcessRow("ProcessShutdown"))
    /\ closed' = TRUE
    /\ UNCHANGED <<coreVars, tasks, auditOpen, starts, decidedAt, posted>>

----------------------------------------------------------------------------
(* The event handler's steps. *)

BotDecides(d) ==
    /\ Decide(d)
    /\ decidedAt' = [decidedAt EXCEPT ![d] = now]
    /\ UNCHANGED <<starts, closed, posted>>

\* The request is made some time after the decision: other tasks, the audit store and the
\* runtime come first.
Post(d) ==
    /\ Apply(d)
    /\ posted' = Append(posted, [delivery |-> d, at |-> now, run |-> Run])
    /\ UNCHANGED <<starts, closed, decidedAt>>

BotContinues(d) ==
    /\ \/ ReadDetection(d) \/ RecordDecision(d) \/ ReceiveAnswer(d)
       \/ ReportStatus(d) \/ RecordSent(d)
    /\ UNCHANGED processVars

BotTick == HandlerTick /\ UNCHANGED processVars

\* The first process, which could write its row.
BotInit ==
    /\ Init
    /\ tasks = [d \in Deliveries |-> IdleTask]
    /\ auditOpen \in AuditOpens
    /\ rows = IF auditOpen THEN <<ProcessRow("ProcessStart")>> ELSE <<>>
    /\ warned = {}
    /\ starts = <<[at |-> 0, budget |-> budget, audit |-> auditOpen]>>
    /\ closed = FALSE
    /\ decidedAt = [d \in Deliveries |-> 0]
    /\ posted = <<>>

BotNext ==
    \/ Restart \/ CloseAudit \/ BotTick
    \/ \E d \in Deliveries : BotDecides(d) \/ Post(d) \/ BotContinues(d)

BotSpec == BotInit /\ [][BotNext]_botVars

----------------------------------------------------------------------------
(* Properties. *)

Decided(k) == decidedAt[posted[k].delivery]
Posted(k) == tasks[posted[k].delivery]

\* Types; what a process has under way it decided itself, with the governor it was started
\* with: every action that governor let through is posted or still to be posted by it.
BotTypeOK ==
    /\ starts \in Seq([at : Nat, budget : BudgetValues, audit : AuditOpens])
    /\ Run \in 1 .. AtLeast(MaxStarts, 1) /\ closed \in BOOLEAN
    /\ budget = starts[Run].budget /\ auditOpen = starts[Run].audit
    /\ posted \in Seq([delivery : Deliveries, at : Nat, run : 1 .. Run])
    /\ \A d \in Deliveries : tasks[d].step \in Steps \cup {"Gone"}
    /\ Len(outbound) = Cardinality(Backlog)
                         + Cardinality({k \in 1 .. Len(posted) : posted[k].run = Run})

\* Tokens are taken at the decision and requests made later, in any order, and a start fills
\* the bucket: what Discord sees in any stretch is still bounded by a burst for each process
\* in it and the refill since the oldest decision in it, however long requests waited.
PostedRate ==
    \A i, j \in 1 .. Len(posted) :
        i <= j => \E oldest \in i .. j :
            TokenUnit * (j - i + 1)
                <= Capacity * Cardinality({posted[k].run : k \in i .. j})
                     + RefillPerTick * (posted[j].at - Decided(oldest))

\* A start forgets every message it has seen, so one may be answered again at once; but that
\* takes a restart: no process answers a message twice within the ttl.
RepeatsNeedRestarts ==
    \A i, j \in 1 .. Len(posted) :
        i # j /\ Posted(i).msg = Posted(j).msg /\ Decided(j) - Decided(i) \in 0 .. DuplicateTtl
            => posted[i].run # posted[j].run

\* Wherever a process is killed: no request of it was made whose decision is not in the
\* audit log, but for the rows whose insert failed with a warning
\* and for processes without a store.
DecisionsPrecedeRequests ==
    \A k \in 1 .. Len(posted) :
        starts[posted[k].run].audit => Attempted(posted[k].delivery, "ResponseCompiled")

\* The budget is read once: a process that starts with a low one sends no message, however
\* long it runs.
LowBudgetLasts ==
    \A k \in 1 .. Len(posted) :
        Posted(k).action \in Sends => starts[posted[k].run].budget > AtLeast(LowWatermark, 1)
=============================================================================
