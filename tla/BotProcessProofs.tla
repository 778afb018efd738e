-------------------------- MODULE BotProcessProofs --------------------------
(***************************************************************************)
(* Bot processes one after another, for every set of deliveries, number of *)
(* starts and value of the governor's constants: what a restart forgets    *)
(* and what it does not.                                                   *)
(***************************************************************************)
EXTENDS BotProcess, EventHandlerProofs

----------------------------------------------------------------------------
(* The shape of the tasks, the posts and the rows. *)

BotTask == [step : Steps \cup {"Gone"}, msg : MsgIds \cup {NoMessage}, action : BotActions,
            detection : MsgIds \cup {NoMessage}, answer : Answers \cup {NoAnswer}]

BotRow == [event : {"ActionSuppressed", "ResponseCompiled", "ActionSent", "ProcessStart",
                    "ProcessShutdown"},
           delivery : Deliveries \cup {"none"}, msg : MsgIds \cup {NoMessage},
           detection : MsgIds \cup {NoMessage}]

Started == [at : Nat, budget : BudgetValues, audit : AuditOpens]

BotTaskShape(d) ==
    /\ tasks[d].step = "Idle" => tasks[d].action = "Noop"
    /\ tasks[d].step \in {"Apply", "Waiting", "ReportStatus", "RecordSent"}
          => tasks[d].action # "Noop"
    /\ tasks[d].action # "Noop" => tasks[d].msg \in MsgIds
    /\ tasks[d].step = "ReportStatus" => tasks[d].answer \in HttpStatuses
    /\ decidedAt[d] <= now

\* A request that was made is of a task that is past making it; if an earlier process made
\* it, and only then, the task is gone.
PostShape(k) ==
    /\ Posted(k).action # "Noop" /\ Posted(k).step # "Idle"
    /\ posted[k].delivery \notin Backlog
    /\ Posted(k).step = "Gone" <=> posted[k].run # Run
    /\ Decided(k) <= posted[k].at /\ posted[k].at <= now

BotShape ==
    /\ TypeOK
    /\ starts \in Seq(Started) /\ Run \in 1 .. AtLeast(MaxStarts, 1) /\ closed \in BOOLEAN
    /\ budget = starts[Run].budget /\ auditOpen = starts[Run].audit
    /\ rows \in Seq(BotRow)
    /\ tasks \in [Deliveries -> BotTask] /\ decidedAt \in [Deliveries -> Nat]
    /\ \A d \in Deliveries : BotTaskShape(d)
    /\ posted \in Seq([delivery : Deliveries, at : Nat, run : 1 .. Run])
    /\ \A k \in 1 .. Len(posted) : PostShape(k)
    /\ \A j, k \in 1 .. Len(posted) : posted[j].delivery = posted[k].delivery => j = k

----------------------------------------------------------------------------
(* The steps: most of them only move a task along. *)

\* No task is decided, posted or dropped, and what is attempted stays so.
Quiet ==
    /\ [Next]_coreVars
    /\ UNCHANGED <<settings, seen, bucket, outbound, auditOpen, starts, decidedAt, posted>>
    /\ now <= now' /\ closed' \in BOOLEAN
    /\ rows' \in Seq(BotRow)
    /\ \A d, event : Attempted(d, event) => Attempted(d, event)'
    /\ tasks' \in [Deliveries -> BotTask]
    /\ \A d \in Deliveries :
          /\ tasks'[d].msg = tasks[d].msg /\ tasks'[d].action = tasks[d].action
          /\ tasks'[d].step = "Idle" <=> tasks[d].step = "Idle"
          /\ tasks'[d].step = "Gone" <=> tasks[d].step = "Gone"
          /\ d \in Backlog' <=> d \in Backlog
          /\ BotTaskShape(d)'
          /\ tasks'[d].step = "Apply"
                => tasks[d].step = "Apply" \/ Attempted(d, "ResponseCompiled")'

OneBotTask(d, task) ==
    /\ task \in BotTask /\ tasks'[d] = task
    /\ tasks' \in [Deliveries -> BotTask]
    /\ \A e \in Deliveries : e # d => tasks'[e] = tasks[e]

LEMMA SetBotTask ==
    ASSUME BotShape, NEW d \in Deliveries, NEW task \in BotTask,
           tasks' = [tasks EXCEPT ![d] = task]
    PROVE  OneBotTask(d, task)
BY DEF BotShape, OneBotTask

LEMMA BotTaskType ==
    ASSUME BotShape, NEW d \in Deliveries
    PROVE  /\ tasks[d] \in BotTask /\ tasks \in [Deliveries -> BotTask] /\ BotTaskShape(d)
           /\ now \in Nat /\ decidedAt[d] \in Nat
BY BucketType DEF BotShape

\* record_event appends a row or warns; both are attempts.
LEMMA BotInsert ==
    ASSUME BotShape, NEW row \in BotRow, InsertRow(row)
    PROVE  /\ rows' \in Seq(BotRow)
           /\ Attempted(row.delivery, row.event)'
           /\ \A d, event : Attempted(d, event) => Attempted(d, event)'
<1>1. rows \in Seq(BotRow) /\ Len(rows) \in Nat
  BY DEF BotShape
<1>2. CASE rows' = Append(rows, row) /\ warned \subseteq warned'
  <2>1. /\ Len(rows') = Len(rows) + 1 /\ rows'[Len(rows) + 1] = row
        /\ \A k \in 1 .. Len(rows) : rows'[k] = rows[k]
        /\ rows' \in Seq(BotRow)
    BY <1>1, <1>2
  <2>2. Len(rows) + 1 \in 1 .. Len(rows') /\ \A k \in 1 .. Len(rows) : k \in 1 .. Len(rows')
    BY <1>1, <2>1
  <2>3. Attempted(row.delivery, row.event)'
    BY <2>1, <2>2 DEF Attempted
  <2>4. ASSUME NEW d, NEW event, Attempted(d, event) PROVE Attempted(d, event)'
    <3>1. CASE \E k \in 1 .. Len(rows) : rows[k].delivery = d /\ rows[k].event = event
      BY <2>1, <2>2, <3>1 DEF Attempted
    <3>2. CASE \E other \in warned : other.delivery = d /\ other.event = event
      BY <1>2, <3>2 DEF Attempted
    <3> QED
      BY <2>4, <3>1, <3>2 DEF Attempted
  <2> QED
    BY <2>1, <2>3, <2>4
<1>3. CASE rows' = rows /\ warned' = warned \cup {row}
  BY <1>1, <1>3 DEF Attempted
<1> QED
  BY <1>2, <1>3 DEF InsertRow

\* One task that goes on, without the governor or with what record_http_status changes.
LEMMA QuietTask ==
    ASSUME BotShape, NEW d \in Deliveries, NEW task, OneBotTask(d, task), [Next]_coreVars,
           UNCHANGED <<now, settings, seen, bucket, outbound, auditOpen, processVars>>,
           rows' \in Seq(BotRow),
           \A e, event : Attempted(e, event) => Attempted(e, event)',
           task.msg = tasks[d].msg, task.action = tasks[d].action,
           tasks[d].step \notin {"Idle", "Gone"}, task.step \notin {"Idle", "Gone"},
           task.action # "Noop" =>
              (task.step \in {"ReadDetection", "RecordDecision", "Apply"}
                 <=> tasks[d].step \in {"ReadDetection", "RecordDecision", "Apply"}),
           task.step \in {"Apply", "Waiting", "ReportStatus", "RecordSent"}
              => task.action # "Noop",
           task.step = "ReportStatus" => task.answer \in HttpStatuses,
           task.step = "Apply" => Attempted(d, "ResponseCompiled")'
    PROVE  Quiet
<1>1. ASSUME NEW e \in Deliveries
      PROVE  /\ tasks'[e].msg = tasks[e].msg /\ tasks'[e].action = tasks[e].action
             /\ tasks'[e].step = "Idle" <=> tasks[e].step = "Idle"
             /\ tasks'[e].step = "Gone" <=> tasks[e].step = "Gone"
             /\ e \in Backlog' <=> e \in Backlog
             /\ BotTaskShape(e)'
             /\ tasks'[e].step = "Apply"
                   => tasks[e].step = "Apply" \/ Attempted(e, "ResponseCompiled")'
  <2>1. CASE e = d
    <3>1. tasks'[e] = task /\ BotTaskShape(e)
      BY <2>1, BotTaskType DEF OneBotTask
    <3>2. e \in Backlog' <=> e \in Backlog
      BY <2>1, <3>1 DEF Backlog
    <3>3. BotTaskShape(e)'
      BY <2>1, <3>1 DEF BotTaskShape, processVars
    <3> QED
      BY <2>1, <3>1, <3>2, <3>3
  <2>2. CASE e # d
    <3>1. tasks'[e] = tasks[e] /\ BotTaskShape(e)
      BY <2>2, BotTaskType DEF OneBotTask
    <3> QED
      BY <3>1 DEF Backlog, BotTaskShape, processVars
  <2> QED
    BY <2>1, <2>2
<1>2. now <= now' /\ closed' \in BOOLEAN /\ tasks' \in [Deliveries -> BotTask]
  BY BucketType DEF BotShape, processVars, OneBotTask
<1> QED
  BY <1>1, <1>2 DEF Quiet, processVars

\* What serves for several steps of a task: nothing is written.
LEMMA NothingWritten ==
    ASSUME BotShape, UNCHANGED <<rows, warned>>
    PROVE  /\ rows' \in Seq(BotRow)
           /\ \A e, event : Attempted(e, event) => Attempted(e, event)'
BY DEF BotShape, Attempted

LEMMA ReadDetectionQuiet ==
    ASSUME BotShape, NEW d \in Deliveries, ReadDetection(d), UNCHANGED processVars
    PROVE  Quiet
<1> DEFINE task == [tasks[d] EXCEPT !.detection = lastDetection, !.step = "RecordDecision"]
<1>1. tasks[d] \in BotTask /\ BotTaskShape(d)
  BY BotTaskType
<1>2. /\ task \in BotTask /\ task.step = "RecordDecision"
      /\ task.msg = tasks[d].msg /\ task.action = tasks[d].action
  BY <1>1 DEF BotTask, Steps, BotShape, TypeOK
<1>3. /\ tasks[d].step = "ReadDetection" /\ UNCHANGED <<coreVars, auditOpen, rows, warned>>
      /\ tasks' = [tasks EXCEPT ![d] = task]
  BY DEF ReadDetection
<1> HIDE DEF task
<1>4. OneBotTask(d, task)
  BY <1>2, <1>3, SetBotTask
<1>5. /\ [Next]_coreVars
      /\ UNCHANGED <<now, settings, seen, bucket, outbound, auditOpen, processVars>>
  BY <1>3 DEF coreVars
<1> QED
  BY <1>2, <1>3, <1>4, <1>5, NothingWritten, QuietTask

LEMMA RecordDecisionQuiet ==
    ASSUME BotShape, NEW d \in Deliveries, RecordDecision(d), UNCHANGED processVars
    PROVE  Quiet
<1> DEFINE step == IF tasks[d].action = "Noop" THEN "Done" ELSE "Apply"
           task == [tasks[d] EXCEPT !.step = step]
<1>1. tasks[d] \in BotTask /\ BotTaskShape(d)
  BY BotTaskType
<1>2. /\ task \in BotTask /\ task.step = step
      /\ task.msg = tasks[d].msg /\ task.action = tasks[d].action
  BY <1>1 DEF BotTask, Steps
<1>3. /\ tasks[d].step = "RecordDecision" /\ UNCHANGED <<coreVars, auditOpen>>
      /\ tasks' = [tasks EXCEPT ![d] = task] /\ InsertRow(DecisionRow(d))
  BY DEF RecordDecision, GoTo
<1>4. PICK row \in BotRow :
         /\ row = DecisionRow(d) /\ row.delivery = d
         /\ step = "Apply" => row.event = "ResponseCompiled"
  <2>1. /\ DecisionRow(d) \in BotRow /\ DecisionRow(d).delivery = d
        /\ step = "Apply" => DecisionRow(d).event = "ResponseCompiled"
    BY <1>1 DEF DecisionRow, BotRow, BotTask
  <2> QED
    BY <2>1
<1>5. step \in {"Done", "Apply"} /\ (step = "Apply" <=> tasks[d].action # "Noop")
  OBVIOUS
<1> HIDE DEF task, step
<1>6. OneBotTask(d, task)
  BY <1>2, <1>3, SetBotTask
<1>7. /\ rows' \in Seq(BotRow)
      /\ \A e, event : Attempted(e, event) => Attempted(e, event)'
      /\ Attempted(row.delivery, row.event)'
  BY <1>3, <1>4, BotInsert
<1>8. step = "Apply" => Attempted(d, "ResponseCompiled")'
  BY <1>4, <1>7
<1>9. /\ [Next]_coreVars
      /\ UNCHANGED <<now, settings, seen, bucket, outbound, auditOpen, processVars>>
  BY <1>3 DEF coreVars
<1> QED
  BY <1>2, <1>3, <1>5, <1>6, <1>7, <1>8, <1>9, QuietTask

LEMMA ReceiveAnswerQuiet ==
    ASSUME BotShape, NEW d \in Deliveries, ReceiveAnswer(d), UNCHANGED processVars
    PROVE  Quiet
<1>1. PICK answer \in Answers :
         tasks' = [tasks EXCEPT ![d].answer = answer, ![d].step = AfterAnswer(answer)]
  BY DEF ReceiveAnswer
<1> DEFINE step == AfterAnswer(answer)
           task == [tasks[d] EXCEPT !.answer = answer, !.step = step]
<1>2. /\ step \in {"RecordSent", "Done", "ReportStatus"}
      /\ step = "ReportStatus" => answer \in HttpStatuses
  <2>1. CASE answer = Success
    BY <2>1 DEF AfterAnswer
  <2>2. CASE answer = NoStatus
    BY <2>2 DEF AfterAnswer, Success, NoStatus
  <2>3. CASE answer \notin {Success, NoStatus}
    <3>1. answer \in HttpStatuses
      BY <2>3 DEF Answers
    <3>2. step = "ReportStatus"
      BY <2>3 DEF AfterAnswer
    <3> QED
      BY <3>1, <3>2
  <2> QED
    BY <2>1, <2>2, <2>3
<1>3. tasks[d] \in BotTask /\ BotTaskShape(d)
  BY BotTaskType
<1>4. /\ task \in BotTask /\ task.step = step /\ task.answer = answer
      /\ task.msg = tasks[d].msg /\ task.action = tasks[d].action
  BY <1>2, <1>3 DEF BotTask, Steps
<1>5. /\ tasks[d].step = "Waiting" /\ UNCHANGED <<coreVars, auditOpen, rows, warned>>
  BY DEF ReceiveAnswer
<1>6. tasks' = [tasks EXCEPT ![d] = task]
  BY <1>1
<1>7. tasks[d].action # "Noop"
  BY <1>3, <1>5 DEF BotTaskShape
<1> HIDE DEF task, step
<1>8. OneBotTask(d, task)
  BY <1>4, <1>6, SetBotTask
<1>9. /\ [Next]_coreVars
      /\ UNCHANGED <<now, settings, seen, bucket, outbound, auditOpen, processVars>>
  BY <1>5 DEF coreVars
<1>10. /\ rows' \in Seq(BotRow)
       /\ \A e, event : Attempted(e, event) => Attempted(e, event)'
  BY <1>5, NothingWritten
<1> QED
  BY <1>2, <1>4, <1>5, <1>7, <1>8, <1>9, <1>10, QuietTask

\* record_http_status is told a status that an answer can carry.
LEMMA ReportStatusQuiet ==
    ASSUME BotShape, NEW d \in Deliveries, ReportStatus(d), UNCHANGED processVars
    PROVE  Quiet
<1> DEFINE task == [tasks[d] EXCEPT !.step = "Done"]
<1>1. tasks[d] \in BotTask /\ BotTaskShape(d)
  BY BotTaskType
<1>2. /\ task \in BotTask /\ task.step = "Done"
      /\ task.msg = tasks[d].msg /\ task.action = tasks[d].action
  BY <1>1 DEF BotTask, Steps
<1>3. /\ tasks[d].step = "ReportStatus" /\ RecordHttpStatus(tasks[d].answer)
      /\ UNCHANGED <<auditOpen, rows, warned>> /\ tasks' = [tasks EXCEPT ![d] = task]
  BY DEF ReportStatus, GoTo
<1> HIDE DEF task
<1>4. OneBotTask(d, task)
  BY <1>2, <1>3, SetBotTask
<1>5. Next
  BY <1>1, <1>3 DEF Next, BotTaskShape
<1>6. UNCHANGED <<now, settings, seen, bucket, outbound, auditOpen, processVars>>
  BY <1>3 DEF RecordHttpStatus
<1> QED
  BY <1>2, <1>3, <1>4, <1>5, <1>6, NothingWritten, QuietTask

LEMMA RecordSentQuiet ==
    ASSUME BotShape, NEW d \in Deliveries, RecordSent(d), UNCHANGED processVars
    PROVE  Quiet
<1> DEFINE task == [tasks[d] EXCEPT !.step = "Done"]
           row == SentRow(d)
<1>1. tasks[d] \in BotTask /\ BotTaskShape(d)
  BY BotTaskType
<1>2. /\ task \in BotTask /\ task.step = "Done"
      /\ task.msg = tasks[d].msg /\ task.action = tasks[d].action
  BY <1>1 DEF BotTask, Steps
<1>3. /\ tasks[d].step = "RecordSent" /\ UNCHANGED <<coreVars, auditOpen>>
      /\ tasks' = [tasks EXCEPT ![d] = task] /\ InsertRow(row)
  BY DEF RecordSent, GoTo
<1>4. row \in BotRow
  BY <1>1 DEF SentRow, BotRow, BotTask
<1> HIDE DEF task, row
<1>5. OneBotTask(d, task)
  BY <1>2, <1>3, SetBotTask
<1>6. /\ rows' \in Seq(BotRow)
      /\ \A e, event : Attempted(e, event) => Attempted(e, event)'
  BY <1>3, <1>4, BotInsert
<1>7. /\ [Next]_coreVars
      /\ UNCHANGED <<now, settings, seen, bucket, outbound, auditOpen, processVars>>
  BY <1>3 DEF coreVars
<1> QED
  BY <1>2, <1>3, <1>5, <1>6, <1>7, QuietTask

\* The steps that leave every task where it is.
LEMMA TasksStay ==
    ASSUME BotShape, [Next]_coreVars, UNCHANGED tasks,
           UNCHANGED <<settings, seen, bucket, outbound, auditOpen, starts, decidedAt, posted>>,
           now <= now', now' \in Nat, closed' \in BOOLEAN, rows' \in Seq(BotRow),
           \A e, event : Attempted(e, event) => Attempted(e, event)'
    PROVE  Quiet
<1>1. ASSUME NEW d \in Deliveries PROVE BotTaskShape(d)'
  <2>1. BotTaskShape(d) /\ decidedAt[d] \in Nat /\ now \in Nat
    BY BotTaskType
  <2>2. decidedAt[d] <= now'
    BY <2>1 DEF BotTaskShape
  <2> QED
    BY <2>1, <2>2 DEF BotTaskShape
<1>2. tasks' \in [Deliveries -> BotTask]
  BY DEF BotShape
<1> QED
  BY <1>1, <1>2 DEF Quiet, Backlog

\* Every step ends and starts a process, decides on a message, makes a request, or is one
\* that changes nothing of what the properties are about.
LEMMA BotStepKinds ==
    ASSUME BotShape, [BotNext]_botVars
    PROVE  \/ Quiet \/ Restart
           \/ \E d \in Deliveries : BotDecides(d) \/ Post(d)
<1>1. ASSUME NEW d \in Deliveries, BotContinues(d) PROVE Quiet
  BY <1>1, ReadDetectionQuiet, RecordDecisionQuiet, ReceiveAnswerQuiet, ReportStatusQuiet,
     RecordSentQuiet DEF BotContinues
<1>2. CASE CloseAudit
  <2> DEFINE row == ProcessRow("ProcessShutdown")
  <2>1. row \in BotRow
    BY DEF ProcessRow, BotRow
  <2>2. InsertRow(row) /\ UNCHANGED <<coreVars, tasks, auditOpen, starts, decidedAt, posted>>
        /\ closed' = TRUE
    BY <1>2 DEF CloseAudit
  <2> HIDE DEF row
  <2>3. /\ rows' \in Seq(BotRow)
        /\ \A e, event : Attempted(e, event) => Attempted(e, event)'
    BY <2>1, <2>2, BotInsert
  <2>4. now <= now' /\ now' \in Nat /\ UNCHANGED <<settings, seen, bucket, outbound>>
        /\ [Next]_coreVars
    BY <2>2, BucketType DEF coreVars, BotShape
  <2> QED
    BY <2>2, <2>3, <2>4, TasksStay
<1>3. CASE BotTick
  <2>1. Tick /\ UNCHANGED <<tasks, auditOpen, rows, warned, processVars>>
    BY <1>3 DEF BotTick, HandlerTick, handlerVars
  <2>2. /\ now' = now + 1 /\ Next /\ now \in Nat
        /\ UNCHANGED <<settings, seen, bucket, outbound>>
    BY <2>1, BucketType DEF Tick, Next, BotShape
  <2>3. now <= now' /\ now' \in Nat /\ closed' \in BOOLEAN
    BY <2>1, <2>2 DEF processVars, BotShape
  <2> QED
    BY <2>1, <2>2, <2>3, NothingWritten, TasksStay DEF processVars
<1>4. CASE UNCHANGED botVars
  <2>1. UNCHANGED <<coreVars, tasks, auditOpen, rows, warned, processVars>>
    BY <1>4 DEF botVars, allVars, handlerVars
  <2>2. now <= now' /\ now' \in Nat /\ closed' \in BOOLEAN
        /\ UNCHANGED <<settings, seen, bucket, outbound>> /\ [Next]_coreVars
    BY <2>1, BucketType DEF coreVars, processVars, BotShape
  <2> QED
    BY <2>1, <2>2, NothingWritten, TasksStay DEF processVars
<1> QED
  BY <1>1, <1>2, <1>3, <1>4 DEF BotNext

----------------------------------------------------------------------------
(* The steps that matter: a decision, a request, a restart. *)

\* What a decision leaves: an action is paid for, marked and remembered; nothing else is.
Acts(m) ==
    /\ verdict' \in Outbound
    /\ ~IsDuplicate(seen, m, now) /\ seen' \in Marked(seen, m, now)
    /\ CanTake(bucket, 1, now) /\ bucket' = AfterTake(bucket, 1, now)
    /\ outbound' = Append(outbound, [at |-> now, msg |-> m, action |-> verdict'])
    /\ verdict' \in Sends => modeOverride = "Normal" \/ ~BudgetLow

ActsNot ==
    /\ verdict' \notin Outbound
    /\ SeenStep
    /\ bucket' = bucket \/ bucket' = AfterTake(bucket, 1, now)
    /\ UNCHANGED outbound

LEMMA DecideOutcome ==
    ASSUME TypeOK, NEW m \in MsgIds, DecideMessage(m)
    PROVE  UNCHANGED <<now, settings>> /\ (Acts(m) \/ ActsNot)
<1>1. CASE RefuseMessage(m)
  BY <1>1 DEF RefuseMessage, Admission, ActsNot, SeenStep, Outbound, Sends
<1>2. CASE DropDuplicate(m)
  BY <1>2 DEF DropDuplicate, ActsNot, SeenStep, Outbound, Sends
<1>3. ASSUME NEW suspicion \in SuspicionLevels, NEW reply \in Replies, NEW total \in Totals,
             EvaluateMessage(m, suspicion, reply, total)
      PROVE  UNCHANGED <<now, settings>> /\ (Acts(m) \/ ActsNot)
  <2> DEFINE proposal == Proposal(suspicion, reply)
             action == CompileResponse(proposal, CurrentMode, suspicion, total)
  <2>1. /\ Finalize(m, proposal, action) /\ UNCHANGED <<now, settings>>
        /\ ~IsDuplicate(seen, m, now) /\ seen' \in Marked(seen, m, now)
    BY <1>3 DEF EvaluateMessage
  <2>2. action # "Noop" => action \in Outbound
    BY CompiledOutbound
  <2>3. action \in Sends => CurrentMode = "Normal"
    BY TargetType, CompiledAction DEF CurrentMode
  <2> HIDE DEF action, proposal
  <2>4. CASE SuppressNoop(proposal, action) \/ SuppressCircuitOpen(action)
    <3>1. verdict' \notin Outbound
      BY <2>4 DEF SuppressNoop, SuppressCircuitOpen, NoopReason, Outbound, Sends
    <3>2. UNCHANGED <<bucket, outbound>>
      BY <2>4 DEF SuppressNoop, SuppressCircuitOpen
    <3> QED
      BY <2>1, <3>1, <3>2 DEF ActsNot, SeenStep
  <2>5. CASE SuppressRateLimit(action) \/ SuppressAllActions(action) \/ SuppressCooldown(m, action)
    <3>1. verdict' \in {"RateLimit", "InvalidAction", "Cooldown"}
      BY <2>5 DEF SuppressRateLimit, SuppressAllActions, SuppressCooldown
    <3>2. bucket' = AfterTake(bucket, 1, now) /\ UNCHANGED outbound
      BY <2>5 DEF SuppressRateLimit, SuppressAllActions, SuppressCooldown, PassBucket
    <3> QED
      BY <2>1, <3>1, <3>2 DEF ActsNot, SeenStep, Outbound, Sends
  <2>6. CASE Act(m, action)
    <3>1. /\ action # "Noop" /\ CanTake(bucket, 1, now) /\ bucket' = AfterTake(bucket, 1, now)
          /\ verdict' = action
          /\ outbound' = Append(outbound, [at |-> now, msg |-> m, action |-> action])
      BY <2>6 DEF Act, PassBucket
    <3>2. CurrentMode = "Normal" => modeOverride = "Normal" \/ ~BudgetLow
      BY DEF CurrentMode, TargetMode, NoOverride
    <3> QED
      BY <2>1, <2>2, <2>3, <3>1, <3>2 DEF Acts
  <2> QED
    BY <2>1, <2>4, <2>5, <2>6 DEF Finalize
<1> QED
  BY <1>1, <1>2, <1>3 DEF DecideMessage

\* What the task of a decided message holds.
TaskDecided(d, m, task) ==
    /\ task.msg = m
    /\ task.action = IF verdict' \in Outbound THEN verdict' ELSE "Noop"
    /\ task.step \in {"ReadDetection", "Apply", "Done"}
    /\ task.step = "Apply" => verdict' \in Outbound /\ ~auditOpen
    /\ task.step = "Done" => verdict' \notin Outbound

LEMMA DecideMovesBot ==
    ASSUME BotShape, NEW d \in Deliveries, BotDecides(d)
    PROVE  /\ tasks[d].step = "Idle" /\ UNCHANGED <<auditOpen, rows, warned, starts, closed, posted>>
           /\ decidedAt' = [decidedAt EXCEPT ![d] = now] /\ [Next]_coreVars
           /\ \E m \in MsgIds, task \in BotTask :
                 DecideMessage(m) /\ OneBotTask(d, task) /\ TaskDecided(d, m, task)
<1>1. PICK m \in MsgIds :
        /\ tasks[d].step = "Idle" /\ DecideMessage(m)
        /\ tasks' = [tasks EXCEPT ![d] = DecidedTask(d, m)]
        /\ UNCHANGED <<auditOpen, rows, warned>>
  BY DEF BotDecides, Decide, DecidedTask, IdleTask
<1>2. DecidedTask(d, m) \in BotTask
  BY DEF DecidedTask, BotTask, Steps, BotActions
<1>3. OneBotTask(d, DecidedTask(d, m))
  BY <1>1, <1>2, SetBotTask
<1>4. TaskDecided(d, m, DecidedTask(d, m))
  BY DEF TaskDecided, DecidedTask
<1>5. Next
  BY <1>1 DEF Next
<1>6. \E task \in BotTask : OneBotTask(d, task) /\ TaskDecided(d, m, task)
  BY <1>2, <1>3, <1>4
<1> QED
  BY <1>1, <1>5, <1>6 DEF BotDecides

LEMMA PostMoves ==
    ASSUME BotShape, NEW d \in Deliveries, Post(d)
    PROVE  /\ tasks[d].step = "Apply" /\ tasks[d].action # "Noop" /\ d \in Backlog
           /\ OneBotTask(d, [tasks[d] EXCEPT !.step = "Waiting"])
           /\ [tasks[d] EXCEPT !.step = "Waiting"].step = "Waiting"
           /\ [tasks[d] EXCEPT !.step = "Waiting"].action = tasks[d].action
           /\ [tasks[d] EXCEPT !.step = "Waiting"].msg = tasks[d].msg
           /\ UNCHANGED <<coreVars, auditOpen, rows, warned, starts, closed, decidedAt>>
           /\ Len(posted) \in Nat /\ Len(posted') = Len(posted) + 1
           /\ posted' \in Seq([delivery : Deliveries, at : Nat, run : 1 .. Run])
           /\ \A k \in 1 .. Len(posted) : posted'[k] = posted[k]
           /\ posted'[Len(posted) + 1] = [delivery |-> d, at |-> now, run |-> Run]
<1> DEFINE task == [tasks[d] EXCEPT !.step = "Waiting"]
           post == [delivery |-> d, at |-> now, run |-> Run]
<1>1. tasks[d] \in BotTask /\ BotTaskShape(d) /\ now \in Nat
  BY BotTaskType
<1>2. /\ task \in BotTask /\ task.step = "Waiting" /\ task.action = tasks[d].action
      /\ task.msg = tasks[d].msg
  BY <1>1 DEF BotTask, Steps
<1>3. /\ tasks[d].step = "Apply" /\ tasks' = [tasks EXCEPT ![d] = task]
      /\ UNCHANGED <<coreVars, auditOpen, rows, warned, starts, closed, decidedAt>>
      /\ posted' = Append(posted, post)
  BY DEF Post, Apply, GoTo
<1>4. tasks[d].action # "Noop" /\ d \in Backlog
  BY <1>1, <1>3 DEF BotTaskShape, Backlog
<1> HIDE DEF task
<1>5. OneBotTask(d, task)
  BY <1>2, <1>3, SetBotTask
<1>6. post \in [delivery : Deliveries, at : Nat, run : 1 .. Run] /\ Run \in 1 .. Run
  <2>1. Run \in Nat /\ Run >= 1
    BY DEF BotShape, Run
  <2> QED
    BY <1>1, <2>1
<1> HIDE DEF post
<1>7. posted \in Seq([delivery : Deliveries, at : Nat, run : 1 .. Run])
  BY DEF BotShape
<1>8. /\ Len(posted) \in Nat /\ Len(posted') = Len(posted) + 1
      /\ posted' \in Seq([delivery : Deliveries, at : Nat, run : 1 .. Run])
      /\ \A k \in 1 .. Len(posted) : posted'[k] = posted[k]
      /\ posted'[Len(posted) + 1] = post
  BY <1>3, <1>6, <1>7
<1> QED
  BY <1>2, <1>3, <1>4, <1>5, <1>8 DEF task, post

\* TrustedCore::new leaves a governor of the same types as the one before.
LEMMA FreshType ==
    ASSUME TypeOK, FreshCore, budget' \in BudgetValues
    PROVE  TypeOK'
<1>1. now \in Nat /\ now' = now /\ UNCHANGED <<killSwitch, modeOverride, access>>
  BY BucketType DEF FreshCore
<1>2. mode' \in ModeStates /\ mode'.changedAt <= now
  BY <1>1 DEF FreshCore, InitialMode, ModeStates, RuntimeModes, ModeTriggers
<1>3. seen' \in Caches /\ \A m \in MsgIds : seen'[m] <= now
  BY <1>1 DEF FreshCore, EmptyCache, Caches, Absent
<1>4. breaker' \in Breakers
  BY DEF FreshCore, ClosedBreaker, Breakers
<1>5. bucket' \in Buckets /\ bucket'.lastRefill <= now
  BY <1>1, CapacityPositive DEF FreshCore, FullBucket, Buckets
<1>6. /\ userCooldown' \in [Users -> Nat] /\ channelCooldown' \in [Channels -> Nat]
      /\ guildCooldown' \in [Guilds -> Nat] /\ globalCooldown' \in [{0} -> Nat]
  BY DEF FreshCore, NoCooldowns
<1>7. /\ sandboxFailures' \in Seq(Nat) /\ lastDetection' \in MsgIds \cup {NoMessage}
      /\ verdict' \in Outbound \cup {"Noop"} \cup SuppressReasons
      /\ outbound' \in Seq([at : Nat, msg : MsgIds, action : Outbound])
      /\ httpFailures' \in Seq(Nat) /\ analyzerErrors' \in Seq(Nat)
  BY DEF FreshCore
<1> QED
  BY <1>1, <1>2, <1>3, <1>4, <1>5, <1>6, <1>7 DEF TypeOK

\* A restart: the tasks are gone, the governor is new, what was posted and logged stays.
LEMMA RestartMoves ==
    ASSUME BotShape, Restart
    PROVE  /\ TypeOK' /\ FreshCore /\ UNCHANGED <<decidedAt, posted>>
           /\ Run \in Nat /\ Run >= 1 /\ Run' = Run + 1 /\ Run' \in 1 .. AtLeast(MaxStarts, 1)
           /\ starts' \in Seq(Started) /\ closed' \in BOOLEAN
           /\ \A r \in 1 .. Run : starts'[r] = starts[r]
           /\ budget' = starts'[Run'].budget /\ auditOpen' = starts'[Run'].audit
           /\ rows' \in Seq(BotRow)
           /\ \A d, event : Attempted(d, event) => Attempted(d, event)'
           /\ tasks' \in [Deliveries -> BotTask] /\ Backlog' = {}
           /\ \A d \in Deliveries :
                 /\ tasks[d].step = "Idle" => tasks'[d] = IdleTask
                 /\ tasks[d].step # "Idle" =>
                       /\ tasks'[d].step = "Gone" /\ tasks'[d].action = tasks[d].action
                       /\ tasks'[d].msg = tasks[d].msg
<1>1. PICK remaining \in BudgetValues, open \in AuditOpens : Boot(remaining, open)
  BY DEF Restart
<1> DEFINE start == [at |-> now, budget |-> remaining, audit |-> open]
<1>2. start \in Started /\ start.budget = remaining /\ start.audit = open
  BY BucketType DEF Started, BotShape
<1>3. starts \in Seq(Started) /\ Run \in Nat /\ Run >= 1 /\ Run < MaxStarts
  BY DEF BotShape, Restart, Run
<1>4. starts' = Append(starts, start) /\ budget' = remaining /\ auditOpen' = open
      /\ closed' = FALSE /\ FreshCore
  BY <1>1 DEF Boot
<1> HIDE DEF start
<1>5. /\ starts' \in Seq(Started) /\ Run' = Run + 1 /\ starts'[Run + 1] = start
      /\ \A r \in 1 .. Run : starts'[r] = starts[r]
  BY <1>2, <1>3, <1>4 DEF Run
<1>6. Run' \in 1 .. AtLeast(MaxStarts, 1)
  BY <1>3, <1>5, BotProcessAssumption DEF AtLeast
<1>7. TypeOK'
  BY <1>4, FreshType DEF BotShape
<1>8. /\ rows' \in Seq(BotRow)
      /\ \A d, event : Attempted(d, event) => Attempted(d, event)'
  <2> DEFINE row == ProcessRow("ProcessStart")
  <2>1. row \in BotRow
    BY DEF ProcessRow, BotRow
  <2> HIDE DEF row
  <2>2. CASE InsertRow(row)
    BY <2>1, <2>2, BotInsert
  <2>3. CASE UNCHANGED <<rows, warned>>
    BY <2>3, NothingWritten
  <2> QED
    BY <1>1, <2>2, <2>3 DEF Boot, row
<1>9. ASSUME NEW d \in Deliveries
      PROVE  /\ tasks'[d] \in BotTask /\ d \notin Backlog'
             /\ tasks[d].step = "Idle" => tasks'[d] = IdleTask
             /\ tasks[d].step # "Idle" =>
                   /\ tasks'[d].step = "Gone" /\ tasks'[d].action = tasks[d].action
                   /\ tasks'[d].msg = tasks[d].msg
  <2>1. tasks[d] \in BotTask
    BY BotTaskType
  <2>2. tasks'[d] = IF tasks[d].step = "Idle" THEN IdleTask
                    ELSE [tasks[d] EXCEPT !.step = "Gone"]
    BY DEF Restart
  <2>3. CASE tasks[d].step = "Idle"
    BY <2>2, <2>3 DEF IdleTask, BotTask, Steps, BotActions, Backlog
  <2>4. CASE tasks[d].step # "Idle"
    <3>1. tasks'[d] = [tasks[d] EXCEPT !.step = "Gone"]
      BY <2>2, <2>4
    <3> QED
      BY <2>1, <2>4, <3>1 DEF BotTask, Backlog
  <2> QED
    BY <2>3, <2>4
<1>10. tasks' \in [Deliveries -> BotTask]
  <2>1. tasks' = [d \in Deliveries |-> tasks'[d]]
    BY DEF Restart
  <2> QED
    BY <1>9, <2>1
<1>11. Backlog' = {}
  BY <1>9 DEF Backlog
<1>12. UNCHANGED <<decidedAt, posted>>
  BY DEF Restart
<1> QED
  BY <1>2, <1>3, <1>4, <1>5, <1>6, <1>7, <1>8, <1>9, <1>10, <1>11, <1>12

----------------------------------------------------------------------------
(* The shape is kept. *)

LEMMA SeqOfOthers ==
    ASSUME NEW S, NEW T, NEW s \in Seq(S), \A k \in 1 .. Len(s) : s[k] \in T
    PROVE  s \in Seq(T)
OBVIOUS

\* What the shape says of a request that was made.
LEMMA PostType ==
    ASSUME BotShape, NEW k \in 1 .. Len(posted)
    PROVE  /\ posted[k].delivery \in Deliveries /\ posted[k].at \in Nat
           /\ posted[k].run \in 1 .. Run /\ Run \in Nat /\ Run >= 1 /\ Len(posted) \in Nat
           /\ PostShape(k) /\ Decided(k) \in Nat /\ now \in Nat
<1>1. posted \in Seq([delivery : Deliveries, at : Nat, run : 1 .. Run])
  BY DEF BotShape
<1>2. posted[k] \in [delivery : Deliveries, at : Nat, run : 1 .. Run]
  BY <1>1, ElementOfSeq
<1>3. /\ Len(posted) \in Nat /\ Run \in Nat /\ Run >= 1 /\ now \in Nat
  <2>1. starts \in Seq(Started) /\ Run >= 1 /\ TypeOK
    BY DEF BotShape
  <2>2. Len(posted) \in Nat
    BY <1>1
  <2> QED
    BY <2>1, <2>2, BucketType DEF Run
<1>4. PostShape(k) /\ decidedAt \in [Deliveries -> Nat]
  BY DEF BotShape
<1> QED
  BY <1>2, <1>3, <1>4 DEF Decided

LEMMA QuietShape ==
    ASSUME BotShape, Quiet
    PROVE  BotShape'
<1>1. TypeOK'
  BY TypeStep DEF BotShape, Quiet
<1>2. ASSUME NEW k \in 1 .. Len(posted) PROVE PostShape(k)'
  <2>1. now \in Nat /\ now' \in Nat /\ now <= now'
    BY <1>1, TrustedCoreAssumption DEF TypeOK, BotShape, Quiet
  <2>2. /\ posted' = posted /\ decidedAt' = decidedAt /\ Run' = Run
        /\ posted[k].delivery \in Deliveries /\ PostShape(k) /\ posted[k].at \in Nat
    BY PostType DEF Quiet, Run
  <2>3. /\ Posted(k)'.action = Posted(k).action
        /\ Posted(k)'.step = "Idle" <=> Posted(k).step = "Idle"
        /\ Posted(k)'.step = "Gone" <=> Posted(k).step = "Gone"
        /\ posted[k].delivery \in Backlog' <=> posted[k].delivery \in Backlog
    BY <2>2 DEF Posted, Quiet
  <2>4. Decided(k)' = Decided(k) /\ posted[k].at <= now'
    BY <2>1, <2>2 DEF Decided, PostShape
  <2> QED
    BY <2>2, <2>3, <2>4 DEF PostShape
<1>3. UNCHANGED <<starts, posted, decidedAt, auditOpen, budget>> /\ Run' = Run
  BY DEF Quiet, settings, Run
<1> QED
  BY <1>1, <1>2, <1>3 DEF BotShape, Quiet

LEMMA RestartShape ==
    ASSUME BotShape, Restart
    PROVE  BotShape'
<1>1. now' = now
  BY RestartMoves DEF FreshCore
<1>2. ASSUME NEW d \in Deliveries PROVE BotTaskShape(d)'
  <2>1. CASE tasks[d].step = "Idle"
    BY <1>1, <2>1, RestartMoves, BotTaskType DEF BotTaskShape, IdleTask
  <2>2. CASE tasks[d].step # "Idle"
    BY <1>1, <2>2, RestartMoves, BotTaskType DEF BotTaskShape
  <2> QED
    BY <2>1, <2>2
<1>3. ASSUME NEW k \in 1 .. Len(posted) PROVE PostShape(k)'
  <2>1. /\ posted' = posted /\ decidedAt' = decidedAt /\ posted[k].run # Run'
        /\ posted[k].delivery \in Deliveries /\ PostShape(k)
    BY PostType, RestartMoves
  <2>2. Posted(k)'.step = "Gone" /\ Posted(k)'.action # "Noop"
    BY <2>1, RestartMoves DEF PostShape, Posted
  <2> QED
    BY <1>1, <2>1, <2>2, RestartMoves DEF PostShape, Decided, Posted
<1>4. posted' \in Seq([delivery : Deliveries, at : Nat, run : 1 .. Run'])
  <2>1. ASSUME NEW k \in 1 .. Len(posted)
        PROVE  posted[k] \in [delivery : Deliveries, at : Nat, run : 1 .. Run']
    <3>1. posted \in Seq([delivery : Deliveries, at : Nat, run : 1 .. Run])
      BY DEF BotShape
    <3>2. posted[k] \in [delivery : Deliveries, at : Nat, run : 1 .. Run]
      BY <3>1, ElementOfSeq
    <3>3. Run \in Nat /\ Run' = Run + 1
      BY RestartMoves
    <3> QED
      BY <3>2, <3>3
  <2>2. posted \in Seq([delivery : Deliveries, at : Nat, run : 1 .. Run])
    BY DEF BotShape
  <2>3. posted \in Seq([delivery : Deliveries, at : Nat, run : 1 .. Run'])
    BY <2>1, <2>2, SeqOfOthers
  <2> QED
    BY <2>3, RestartMoves
<1> QED
  BY <1>2, <1>3, <1>4, RestartMoves DEF BotShape

\* A decision is of a task that had none, so it is of no request that was made.
LEMMA DecideShape ==
    ASSUME BotShape, NEW d \in Deliveries, BotDecides(d)
    PROVE  BotShape'
<1>1. /\ tasks[d].step = "Idle" /\ UNCHANGED <<auditOpen, rows, warned, starts, closed, posted>>
      /\ decidedAt' = [decidedAt EXCEPT ![d] = now] /\ [Next]_coreVars
  BY DecideMovesBot
<1>2. PICK m \in MsgIds, task \in BotTask :
         DecideMessage(m) /\ OneBotTask(d, task) /\ TaskDecided(d, m, task)
  BY DecideMovesBot
<1>3. TypeOK' /\ UNCHANGED <<now, settings>>
  BY <1>1, <1>2, TypeStep, DecideOutcome DEF BotShape
<1>4. now \in Nat /\ decidedAt \in [Deliveries -> Nat] /\ tasks' \in [Deliveries -> BotTask]
  BY <1>2, BucketType DEF BotShape, OneBotTask
<1>5. ASSUME NEW e \in Deliveries PROVE BotTaskShape(e)'
  <2>1. CASE e = d
    <3>1. tasks'[e] = task /\ decidedAt'[e] = now /\ now' = now
      BY <1>1, <1>2, <1>3, <1>4, <2>1 DEF OneBotTask
    <3>2. "Noop" \notin Outbound
      BY DEF Outbound, Sends
    <3> QED
      BY <1>2, <1>4, <3>1, <3>2 DEF BotTaskShape, TaskDecided
  <2>2. CASE e # d
    <3>1. tasks'[e] = tasks[e] /\ decidedAt'[e] = decidedAt[e] /\ now' = now /\ BotTaskShape(e)
      BY <1>1, <1>2, <1>3, <1>4, <2>2, BotTaskType DEF OneBotTask
    <3> QED
      BY <3>1 DEF BotTaskShape
  <2> QED
    BY <2>1, <2>2
<1>6. ASSUME NEW k \in 1 .. Len(posted) PROVE PostShape(k)'
  <2>1. posted[k].delivery \in Deliveries /\ posted[k].delivery # d /\ PostShape(k)
    BY <1>1, PostType DEF PostShape, Posted
  <2>2. /\ tasks'[posted[k].delivery] = tasks[posted[k].delivery] /\ posted' = posted
        /\ decidedAt'[posted[k].delivery] = decidedAt[posted[k].delivery]
        /\ now' = now /\ Run' = Run
    BY <1>1, <1>2, <1>3, <1>4, <2>1 DEF OneBotTask, Run
  <2> QED
    BY <2>1, <2>2 DEF PostShape, Posted, Decided, Backlog
<1>7. budget' = budget /\ Run' = Run
  BY <1>1, <1>3 DEF settings, Run
<1> QED
  BY <1>1, <1>3, <1>4, <1>5, <1>6, <1>7 DEF BotShape

\* A request is made by the process that runs, and once only.
LEMMA PostKeepsShape ==
    ASSUME BotShape, NEW d \in Deliveries, Post(d)
    PROVE  BotShape'
<1> DEFINE task == [tasks[d] EXCEPT !.step = "Waiting"]
<1>0. PICK n : n = Len(posted)
  OBVIOUS
<1>1. /\ tasks[d].step = "Apply" /\ tasks[d].action # "Noop" /\ d \in Backlog
      /\ OneBotTask(d, task) /\ task.step = "Waiting" /\ task.action = tasks[d].action
      /\ task.msg = tasks[d].msg
      /\ UNCHANGED <<coreVars, auditOpen, rows, warned, starts, closed, decidedAt>>
      /\ n \in Nat /\ Len(posted') = n + 1
      /\ posted' \in Seq([delivery : Deliveries, at : Nat, run : 1 .. Run])
      /\ \A k \in 1 .. n : posted'[k] = posted[k]
      /\ posted'[n + 1] = [delivery |-> d, at |-> now, run |-> Run]
  BY <1>0, PostMoves
<1> HIDE DEF task
<1>2. [Next]_coreVars /\ now' = now /\ budget' = budget /\ Run' = Run
  BY <1>1 DEF coreVars, settings, Run
<1>3. TypeOK'
  BY <1>2, TypeStep DEF BotShape
<1>4. tasks'[d] = task /\ \A e \in Deliveries : e # d => tasks'[e] = tasks[e]
  BY <1>1 DEF OneBotTask
<1>5. ASSUME NEW e \in Deliveries PROVE BotTaskShape(e)'
  <2>1. BotTaskShape(e) /\ decidedAt'[e] = decidedAt[e]
    BY <1>1, BotTaskType
  <2>2. CASE e = d
    BY <1>1, <1>2, <1>4, <2>1, <2>2 DEF BotTaskShape
  <2>3. CASE e # d
    BY <1>2, <1>4, <2>1, <2>3 DEF BotTaskShape
  <2> QED
    BY <2>2, <2>3
<1>6. ASSUME NEW k \in 1 .. n PROVE PostShape(k)' /\ posted[k].delivery # d
  <2>1. posted[k].delivery \in Deliveries /\ posted[k].delivery # d /\ PostShape(k)
    BY <1>0, <1>1, PostType DEF PostShape
  <2>2. /\ tasks'[posted[k].delivery] = tasks[posted[k].delivery] /\ posted'[k] = posted[k]
        /\ decidedAt' = decidedAt
    BY <1>1, <1>4, <2>1
  <2> QED
    BY <1>2, <2>1, <2>2 DEF PostShape, Posted, Decided, Backlog
<1>7. PostShape(n + 1)'
  <2>1. posted'[n + 1].delivery = d /\ posted'[n + 1].at = now /\ posted'[n + 1].run = Run
    BY <1>1
  <2>2. now \in Nat /\ decidedAt'[d] <= now
    BY <1>1, BotTaskType DEF BotTaskShape
  <2>3. d \notin Backlog'
    BY <1>1, <1>4 DEF Backlog
  <2> QED
    BY <1>1, <1>2, <1>4, <2>1, <2>2, <2>3 DEF PostShape, Posted, Decided
<1>8. \A k \in 1 .. Len(posted') : PostShape(k)'
  <2>1. \A k \in 1 .. Len(posted') : k \in 1 .. n \/ k = n + 1
    BY <1>1
  <2> QED
    BY <1>6, <1>7, <2>1
<1>9. \A j, k \in 1 .. Len(posted') : posted'[j].delivery = posted'[k].delivery => j = k
  <2>1. \A k \in 1 .. Len(posted') : k \in 1 .. n \/ k = n + 1
    BY <1>1
  <2>2. posted'[n + 1].delivery = d
    BY <1>1
  <2>3. \A j, k \in 1 .. n : posted[j].delivery = posted[k].delivery => j = k
    BY <1>0 DEF BotShape
  <2>4. ASSUME NEW j \in 1 .. n PROVE posted'[j].delivery = posted[j].delivery /\ posted[j].delivery # d
    BY <1>1, <1>6
  <2>5. ASSUME NEW j \in 1 .. Len(posted'), NEW k \in 1 .. Len(posted'),
               posted'[j].delivery = posted'[k].delivery
        PROVE  j = k
    <3>1. CASE j \in 1 .. n /\ k \in 1 .. n
      BY <2>3, <2>4, <2>5, <3>1
    <3>2. CASE j = n + 1 \/ k = n + 1
      BY <2>1, <2>2, <2>4, <2>5, <3>2
    <3> QED
      BY <2>1, <3>1, <3>2
  <2> QED
    BY <2>5
<1>10. tasks' \in [Deliveries -> BotTask]
  BY <1>1 DEF OneBotTask
<1> QED
  BY <1>1, <1>2, <1>3, <1>5, <1>8, <1>9, <1>10 DEF BotShape

LEMMA BotShapeInit == BotInit => BotShape
<1> SUFFICES ASSUME BotInit PROVE BotShape
  OBVIOUS
<1> DEFINE start == [at |-> 0, budget |-> budget, audit |-> auditOpen]
<1>1. TypeOK
  BY InitType DEF BotInit
<1>2. start \in Started /\ starts = <<start>>
  BY <1>1 DEF BotInit, Started, TypeOK
<1>3. start.budget = budget /\ start.audit = auditOpen
  OBVIOUS
<1> HIDE DEF start
<1>4. starts \in Seq(Started) /\ Run = 1 /\ starts[1] = start
  BY <1>2 DEF Run
<1>5. 1 \in 1 .. AtLeast(MaxStarts, 1)
  BY BotProcessAssumption DEF AtLeast
<1>6. rows \in Seq(BotRow)
  <2>1. ProcessRow("ProcessStart") \in BotRow
    BY DEF ProcessRow, BotRow
  <2> QED
    BY <2>1 DEF BotInit
<1>7. IdleTask \in BotTask
  BY DEF IdleTask, BotTask, Steps, BotActions
<1>8. tasks \in [Deliveries -> BotTask] /\ \A d \in Deliveries : tasks[d] = IdleTask
  BY <1>7 DEF BotInit
<1>9. decidedAt \in [Deliveries -> Nat] /\ \A d \in Deliveries : decidedAt[d] = 0
  BY DEF BotInit
<1>10. \A d \in Deliveries : BotTaskShape(d)
  BY <1>1, <1>8, <1>9, BucketType DEF BotTaskShape, IdleTask
<1>11. /\ posted \in Seq([delivery : Deliveries, at : Nat, run : 1 .. Run])
       /\ Len(posted) = 0 /\ closed \in BOOLEAN
  <2>1. posted = <<>> /\ closed = FALSE
    BY DEF BotInit
  <2>2. PICK S : S = [delivery : Deliveries, at : Nat, run : 1 .. Run]
    OBVIOUS
  <2>3. posted \in Seq(S) /\ Len(posted) = 0
    BY <2>1
  <2> QED
    BY <2>1, <2>2, <2>3
<1>12. /\ \A k \in 1 .. Len(posted) : PostShape(k)
       /\ \A j, k \in 1 .. Len(posted) : posted[j].delivery = posted[k].delivery => j = k
  BY <1>11
<1>13. Run \in 1 .. AtLeast(MaxStarts, 1) /\ budget = starts[Run].budget
       /\ auditOpen = starts[Run].audit
  BY <1>3, <1>4, <1>5
<1> QED
  BY <1>1, <1>4, <1>6, <1>8, <1>9, <1>10, <1>11, <1>12, <1>13 DEF BotShape

LEMMA BotShapeStep ==
    ASSUME BotShape, [BotNext]_botVars
    PROVE  BotShape'
BY BotStepKinds, QuietShape, RestartShape, DecideShape, PostKeepsShape

LEMMA BotShapeHolds == BotSpec => []BotShape
BY BotShapeInit, BotShapeStep, PTL DEF BotSpec

----------------------------------------------------------------------------
(* Decisions before requests. *)

\* A task that is about to make its request has written its decision, where there is a store
\* to write it to: the invariant needs it of the tasks, not of the requests only.
WrittenInv ==
    /\ \A d \in Deliveries :
          tasks[d].step = "Apply" /\ auditOpen => Attempted(d, "ResponseCompiled")
    /\ DecisionsPrecedeRequests

LEMMA WrittenQuiet ==
    ASSUME BotShape, WrittenInv, Quiet
    PROVE  WrittenInv'
<1>1. /\ UNCHANGED <<auditOpen, starts, posted>>
      /\ \A d, event : Attempted(d, event) => Attempted(d, event)'
  BY DEF Quiet
<1>2. ASSUME NEW d \in Deliveries, tasks'[d].step = "Apply", auditOpen'
      PROVE  Attempted(d, "ResponseCompiled")'
  BY <1>1, <1>2 DEF WrittenInv, Quiet
<1>3. DecisionsPrecedeRequests'
  BY <1>1 DEF WrittenInv, DecisionsPrecedeRequests
<1> QED
  BY <1>2, <1>3 DEF WrittenInv

\* Every task that was about to act is gone; which processes had a store stays as it was.
LEMMA WrittenRestart ==
    ASSUME BotShape, WrittenInv, Restart
    PROVE  WrittenInv'
<1>1. ASSUME NEW d \in Deliveries PROVE tasks'[d].step # "Apply"
  BY RestartMoves DEF IdleTask
<1>2. ASSUME NEW k \in 1 .. Len(posted'), starts'[posted'[k].run].audit
      PROVE  Attempted(posted[k].delivery, "ResponseCompiled")'
  <2>1. posted' = posted /\ \A r \in 1 .. Run : starts'[r] = starts[r]
    BY RestartMoves
  <2>2. posted[k].run \in 1 .. Run
    BY <1>2, <2>1, PostType
  <2>3. Attempted(posted[k].delivery, "ResponseCompiled")
    BY <1>2, <2>1, <2>2 DEF WrittenInv, DecisionsPrecedeRequests
  <2> QED
    BY <2>1, <2>3, RestartMoves
<1> QED
  BY <1>1, <1>2 DEF WrittenInv, DecisionsPrecedeRequests

\* A decision goes straight to its request only without a store.
LEMMA WrittenDecide ==
    ASSUME BotShape, WrittenInv, NEW d \in Deliveries, BotDecides(d)
    PROVE  WrittenInv'
<1>1. UNCHANGED <<auditOpen, rows, warned, starts, posted>>
  BY DecideMovesBot
<1>2. PICK m \in MsgIds, task \in BotTask : OneBotTask(d, task) /\ TaskDecided(d, m, task)
  BY DecideMovesBot
<1>3. ASSUME NEW e, NEW event PROVE Attempted(e, event)' = Attempted(e, event)
  BY <1>1 DEF Attempted
<1>4. ASSUME NEW e \in Deliveries, tasks'[e].step = "Apply", auditOpen'
      PROVE  Attempted(e, "ResponseCompiled")'
  <2>1. e # d
    BY <1>1, <1>2, <1>4 DEF OneBotTask, TaskDecided
  <2> QED
    BY <1>1, <1>2, <1>3, <1>4, <2>1 DEF OneBotTask, WrittenInv
<1>5. DecisionsPrecedeRequests'
  BY <1>1, <1>3 DEF WrittenInv, DecisionsPrecedeRequests
<1> QED
  BY <1>4, <1>5 DEF WrittenInv

LEMMA WrittenPost ==
    ASSUME BotShape, WrittenInv, NEW d \in Deliveries, Post(d)
    PROVE  WrittenInv'
<1>0. PICK n : n = Len(posted)
  OBVIOUS
<1> DEFINE task == [tasks[d] EXCEPT !.step = "Waiting"]
<1>1. /\ tasks[d].step = "Apply" /\ OneBotTask(d, task) /\ task.step = "Waiting"
      /\ UNCHANGED <<auditOpen, rows, warned, starts>>
      /\ n \in Nat /\ Len(posted') = n + 1
      /\ \A k \in 1 .. n : posted'[k] = posted[k]
      /\ posted'[n + 1] = [delivery |-> d, at |-> now, run |-> Run]
  BY <1>0, PostMoves
<1> HIDE DEF task
<1>2. ASSUME NEW e, NEW event PROVE Attempted(e, event)' = Attempted(e, event)
  BY <1>1 DEF Attempted
<1>3. ASSUME NEW e \in Deliveries, tasks'[e].step = "Apply", auditOpen'
      PROVE  Attempted(e, "ResponseCompiled")'
  BY <1>1, <1>2, <1>3 DEF OneBotTask, WrittenInv
<1>4. ASSUME NEW k \in 1 .. Len(posted'), starts'[posted'[k].run].audit
      PROVE  Attempted(posted[k].delivery, "ResponseCompiled")'
  <2>1. CASE k \in 1 .. n
    BY <1>0, <1>1, <1>2, <1>4, <2>1 DEF WrittenInv, DecisionsPrecedeRequests
  <2>2. CASE k = n + 1
    <3>1. posted'[k].delivery = d /\ posted'[k].run = Run
      BY <1>1, <2>2
    <3>2. auditOpen
      BY <1>1, <1>4, <3>1 DEF BotShape
    <3> QED
      BY <1>1, <1>2, <3>1, <3>2 DEF WrittenInv
  <2> QED
    BY <1>1, <2>1, <2>2
<1> QED
  BY <1>3, <1>4 DEF WrittenInv, DecisionsPrecedeRequests

\* Wherever and however often the process ends: no request was made whose decision was not
\* written to the audit store of that process, or warned about.
THEOREM DecisionsWritten == BotSpec => []DecisionsPrecedeRequests
<1>1. BotInit => WrittenInv
  BY DEF BotInit, WrittenInv, DecisionsPrecedeRequests, IdleTask
<1>2. BotShape /\ WrittenInv /\ [BotNext]_botVars => WrittenInv'
  BY BotStepKinds, WrittenQuiet, WrittenRestart, WrittenDecide, WrittenPost
<1>3. WrittenInv => DecisionsPrecedeRequests
  BY DEF WrittenInv
<1> QED
  BY <1>1, <1>2, <1>3, BotShapeHolds, PTL DEF BotSpec

----------------------------------------------------------------------------
(* The budget of a process. *)

\* The budget is read once, so what is true when a message is decided on is true when it is
\* sent.  An operator who sets the mode to Normal asks for messages whatever the budget.
BudgetInv ==
    modeOverride # "Normal" =>
        /\ \A d \in Backlog : tasks[d].action \in Sends => ~BudgetLow
        /\ LowBudgetLasts

LEMMA PostedKeeps ==
    ASSUME BotShape, NEW k \in 1 .. Len(posted), Quiet \/ Restart
    PROVE  /\ Posted(k)'.action = Posted(k).action /\ Posted(k)'.msg = Posted(k).msg
           /\ Decided(k)' = Decided(k) /\ posted' = posted /\ posted[k].run \in 1 .. Run
           /\ starts'[posted[k].run] = starts[posted[k].run]
<1>1. /\ posted[k].delivery \in Deliveries /\ PostShape(k) /\ posted[k].run \in 1 .. Run
  BY PostType
<1>2. CASE Quiet
  BY <1>1, <1>2 DEF Quiet, Posted, Decided
<1>3. CASE Restart
  <2>1. /\ UNCHANGED <<decidedAt, posted>> /\ starts'[posted[k].run] = starts[posted[k].run]
        /\ tasks[posted[k].delivery].step # "Idle"
    BY <1>1, <1>3, RestartMoves DEF PostShape, Posted
  <2>2. /\ tasks'[posted[k].delivery].action = tasks[posted[k].delivery].action
        /\ tasks'[posted[k].delivery].msg = tasks[posted[k].delivery].msg
    BY <1>1, <1>3, <2>1, RestartMoves
  <2> QED
    BY <1>1, <2>1, <2>2 DEF Posted, Decided
<1> QED
  BY <1>2, <1>3

LEMMA LowBudgetKept ==
    ASSUME BotShape, LowBudgetLasts, Quiet \/ Restart
    PROVE  LowBudgetLasts'
<1>1. posted' = posted
  BY RestartMoves DEF Quiet
<1>2. ASSUME NEW k \in 1 .. Len(posted'), Posted(k)'.action \in Sends
      PROVE  starts'[posted'[k].run].budget > AtLeast(LowWatermark, 1)
  BY <1>1, <1>2, PostedKeeps DEF LowBudgetLasts
<1> QED
  BY <1>2 DEF LowBudgetLasts

LEMMA BudgetStep ==
    ASSUME BotShape, BudgetInv, [BotNext]_botVars
    PROVE  BudgetInv'
<1>1. CASE Quiet
  <2>1. /\ UNCHANGED <<modeOverride, budget>>
        /\ \A d \in Deliveries : tasks'[d].action = tasks[d].action
        /\ Backlog' \subseteq Backlog /\ Backlog \subseteq Deliveries
    BY <1>1 DEF Quiet, settings, Backlog
  <2>2. ~BudgetLow' <=> ~BudgetLow
    BY <2>1 DEF BudgetLow
  <2> QED
    BY <1>1, <2>1, <2>2, LowBudgetKept DEF BudgetInv
<1>2. CASE Restart
  <2>1. modeOverride' = modeOverride /\ Backlog' = {}
    BY <1>2, RestartMoves DEF FreshCore
  <2> QED
    BY <1>2, <2>1, LowBudgetKept DEF BudgetInv
<1>3. ASSUME NEW d \in Deliveries, BotDecides(d) PROVE BudgetInv'
  <2>1. PICK m \in MsgIds, task \in BotTask :
           DecideMessage(m) /\ OneBotTask(d, task) /\ TaskDecided(d, m, task)
    BY <1>3, DecideMovesBot
  <2>2. /\ UNCHANGED <<modeOverride, budget, posted, starts>> /\ tasks[d].step = "Idle"
        /\ Acts(m) \/ ActsNot
    BY <1>3, <2>1, DecideMovesBot, DecideOutcome DEF settings, BotShape
  <2>3. BudgetLow' <=> BudgetLow
    BY <2>2 DEF BudgetLow
  <2>4. ASSUME NEW e \in Backlog', modeOverride # "Normal", tasks'[e].action \in Sends
        PROVE  ~BudgetLow
    <3>1. CASE e = d
      <4>1. verdict' \in Sends
        BY <2>1, <2>4, <3>1 DEF TaskDecided, OneBotTask, Sends
      <4> QED
        BY <2>2, <2>4, <4>1 DEF Acts, ActsNot, Outbound
    <3>2. CASE e # d
      <4>1. e \in Deliveries /\ tasks'[e] = tasks[e] /\ e \in Backlog
        BY <2>1, <2>4, <3>2 DEF Backlog, OneBotTask
      <4> QED
        BY <2>4, <4>1 DEF BudgetInv
    <3> QED
      BY <3>1, <3>2
  <2>5. ASSUME NEW k \in 1 .. Len(posted) PROVE Posted(k)'.action = Posted(k).action
    <3>1. posted[k].delivery \in Deliveries /\ posted[k].delivery # d
      BY <2>2, PostType DEF PostShape, Posted
    <3> QED
      BY <2>1, <2>2, <3>1 DEF Posted, OneBotTask
  <2>6. LowBudgetLasts => LowBudgetLasts'
    BY <2>2, <2>5 DEF LowBudgetLasts
  <2> QED
    BY <2>2, <2>3, <2>4, <2>6 DEF BudgetInv
<1>4. ASSUME NEW d \in Deliveries, Post(d) PROVE BudgetInv'
  <2>0. PICK n : n = Len(posted)
    OBVIOUS
  <2> DEFINE task == [tasks[d] EXCEPT !.step = "Waiting"]
  <2>1. /\ d \in Backlog /\ OneBotTask(d, task)
        /\ task.step = "Waiting" /\ task.action = tasks[d].action
        /\ UNCHANGED <<coreVars, starts>>
        /\ n \in Nat /\ Len(posted') = n + 1
        /\ \A k \in 1 .. n : posted'[k] = posted[k]
        /\ posted'[n + 1] = [delivery |-> d, at |-> now, run |-> Run]
    BY <1>4, <2>0, PostMoves
  <2> HIDE DEF task
  <2>2. UNCHANGED <<modeOverride, budget>> /\ (BudgetLow' <=> BudgetLow)
    BY <2>1 DEF coreVars, settings, BudgetLow
  <2>3. ASSUME NEW e \in Backlog' PROVE e \in Backlog /\ tasks'[e] = tasks[e]
    BY <2>1, <2>3 DEF Backlog, OneBotTask
  <2>4. ASSUME NEW k \in 1 .. Len(posted'), modeOverride # "Normal", Posted(k)'.action \in Sends
        PROVE  starts'[posted'[k].run].budget > AtLeast(LowWatermark, 1)
    <3>1. CASE k \in 1 .. n
      <4>1. posted[k].delivery \in Deliveries /\ posted[k].delivery # d
        BY <2>0, <2>1, <3>1, PostType DEF PostShape
      <4>2. Posted(k)'.action = Posted(k).action
        BY <2>1, <3>1, <4>1 DEF Posted, OneBotTask
      <4> QED
        BY <2>0, <2>1, <2>4, <3>1, <4>2 DEF BudgetInv, LowBudgetLasts
    <3>2. CASE k = n + 1
      <4>1. posted'[k].delivery = d /\ posted'[k].run = Run
        BY <2>1, <3>2
      <4>2. Posted(k)'.action = tasks[d].action
        BY <2>1, <4>1 DEF Posted, OneBotTask
      <4>3. ~BudgetLow
        BY <2>1, <2>4, <4>2 DEF BudgetInv
      <4>4. budget = starts[Run].budget /\ budget \in Nat
        BY TrustedCoreAssumption DEF BotShape, TypeOK
      <4>5. AtLeast(LowWatermark, 1) \in Nat
        BY TrustedCoreAssumption DEF AtLeast
      <4> QED
        BY <2>1, <4>1, <4>3, <4>4, <4>5 DEF BudgetLow
    <3> QED
      BY <2>1, <3>1, <3>2
  <2>5. modeOverride # "Normal" => LowBudgetLasts'
    BY <2>4 DEF LowBudgetLasts
  <2> QED
    BY <2>2, <2>3, <2>5 DEF BudgetInv
<1> QED
  BY <1>1, <1>2, <1>3, <1>4, BotStepKinds

\* A process that starts with a low budget sends no message however long it runs, unless an
\* operator holds the mode at Normal: an override is looked at before the budget.
THEOREM LowBudgetStays == BotSpec => [](modeOverride # "Normal" => LowBudgetLasts)
<1>1. BotInit => BudgetInv
  BY DEF BotInit, BudgetInv, Backlog, IdleTask, LowBudgetLasts
<1>2. BudgetInv => (modeOverride # "Normal" => LowBudgetLasts)
  BY DEF BudgetInv
<1> QED
  BY <1>1, <1>2, BudgetStep, BotShapeHolds, PTL DEF BotSpec

----------------------------------------------------------------------------
(* Repeats take restarts. *)

\* The tasks of the process that runs which have, or had, an action to take.
Live == {d \in Deliveries : tasks[d].action # "Noop" /\ tasks[d].step \notin {"Idle", "Gone"}}

\* The guard remembers what this process acted on within the ttl.
Kept(d) == now - decidedAt[d] <= DuplicateTtl => seen[tasks[d].msg] >= decidedAt[d]

LiveApart ==
    \A d, e \in Live :
        d # e /\ tasks[d].msg = tasks[e].msg => decidedAt[e] - decidedAt[d] \notin 0 .. DuplicateTtl

RepeatInv ==
    /\ \A d \in Live : Kept(d)
    /\ LiveApart
    /\ RepeatsNeedRestarts

LEMMA LiveType ==
    ASSUME BotShape, NEW d \in Live
    PROVE  /\ d \in Deliveries /\ tasks[d].msg \in MsgIds /\ decidedAt[d] \in Nat
           /\ decidedAt[d] <= now /\ now \in Nat /\ seen \in Caches /\ DuplicateTtl \in Nat
           /\ \A m \in MsgIds : seen[m] <= now
<1>1. d \in Deliveries /\ tasks[d].action # "Noop"
  BY DEF Live
<1>2. BotTaskShape(d) /\ decidedAt[d] \in Nat /\ now \in Nat
  BY <1>1, BotTaskType
<1> QED
  BY <1>1, <1>2, DuplicateGuardAssumption DEF BotTaskShape, BotShape, TypeOK

LEMMA RepeatsKept ==
    ASSUME BotShape, RepeatsNeedRestarts, Quiet \/ Restart
    PROVE  RepeatsNeedRestarts'
<1>1. posted' = posted
  BY RestartMoves DEF Quiet
<1>2. ASSUME NEW i \in 1 .. Len(posted), NEW j \in 1 .. Len(posted), i # j,
             Posted(i)'.msg = Posted(j)'.msg, Decided(j)' - Decided(i)' \in 0 .. DuplicateTtl
      PROVE  posted[i].run # posted[j].run
  <2>1. /\ Posted(i)'.msg = Posted(i).msg /\ Decided(i)' = Decided(i)
        /\ Posted(j)'.msg = Posted(j).msg /\ Decided(j)' = Decided(j)
    BY PostedKeeps
  <2> QED
    BY <1>2, <2>1 DEF RepeatsNeedRestarts
<1> QED
  BY <1>1, <1>2 DEF RepeatsNeedRestarts

LEMMA RepeatQuiet ==
    ASSUME BotShape, RepeatInv, Quiet
    PROVE  RepeatInv'
<1>1. /\ UNCHANGED <<seen, decidedAt>> /\ now <= now'
      /\ \A d \in Deliveries : tasks'[d].msg = tasks[d].msg
  BY DEF Quiet
<1>2. ASSUME NEW d \in Live' PROVE d \in Live
  BY DEF Live, Quiet
<1>3. ASSUME NEW d \in Live' PROVE Kept(d)'
  <2>1. d \in Live /\ Kept(d) /\ d \in Deliveries /\ decidedAt[d] \in Nat /\ now \in Nat
    BY <1>2, LiveType DEF RepeatInv
  <2>2. now' \in Nat
    <3>1. BotShape'
      BY QuietShape
    <3> QED
      BY <3>1, TrustedCoreAssumption DEF BotShape, TypeOK
  <2>3. ASSUME now' - decidedAt[d] <= DuplicateTtl PROVE now - decidedAt[d] <= DuplicateTtl
    BY <1>1, <2>1, <2>2, <2>3, DuplicateGuardAssumption
  <2>4. /\ tasks'[d].msg = tasks[d].msg /\ decidedAt' = decidedAt /\ seen' = seen
        /\ now - decidedAt[d] <= DuplicateTtl => seen[tasks[d].msg] >= decidedAt[d]
    BY <1>1, <2>1 DEF Kept
  <2> QED
    BY <2>3, <2>4 DEF Kept
<1>4. LiveApart'
  <2>1. \A d \in Live' : d \in Live /\ d \in Deliveries
    BY <1>2 DEF Live
  <2> QED
    BY <1>1, <2>1 DEF LiveApart, RepeatInv
<1> QED
  BY <1>3, <1>4, RepeatsKept DEF RepeatInv

LEMMA RepeatRestart ==
    ASSUME BotShape, RepeatInv, Restart
    PROVE  RepeatInv'
<1>1. Live' = {}
  <2>1. ASSUME NEW d \in Deliveries PROVE tasks'[d].step \in {"Idle", "Gone"}
    BY RestartMoves DEF IdleTask
  <2> QED
    BY <2>1 DEF Live
<1> QED
  BY <1>1, RepeatsKept DEF RepeatInv, LiveApart

\* What is decided on now was not acted on within the ttl by this process: the guard would
\* have said so.
LEMMA RepeatDecide ==
    ASSUME BotShape, RoomInCache, RepeatInv, NEW d \in Deliveries, BotDecides(d)
    PROVE  RepeatInv'
<1>1. PICK m \in MsgIds, task \in BotTask :
         DecideMessage(m) /\ OneBotTask(d, task) /\ TaskDecided(d, m, task)
  BY DecideMovesBot
<1>2. /\ now' = now /\ posted' = posted /\ tasks[d].step = "Idle"
      /\ decidedAt' = [decidedAt EXCEPT ![d] = now]
      /\ Acts(m) \/ ActsNot
  BY <1>1, DecideMovesBot, DecideOutcome DEF BotShape
<1>3. /\ now \in Nat /\ seen \in Caches /\ DuplicateTtl \in Nat
      /\ decidedAt \in [Deliveries -> Nat] /\ d \notin Live
  BY <1>2, BucketType, DuplicateGuardAssumption DEF BotShape, TypeOK, Live
<1>4. tasks'[d] = task /\ decidedAt'[d] = now
  BY <1>1, <1>2, <1>3 DEF OneBotTask
<1>5. ASSUME NEW e \in Deliveries, e # d
      PROVE  /\ tasks'[e] = tasks[e] /\ decidedAt'[e] = decidedAt[e]
             /\ e \in Live' <=> e \in Live
  BY <1>1, <1>2, <1>3, <1>5 DEF OneBotTask, Live
<1>6. d \in Live' => Acts(m) /\ task.msg = m
  BY <1>1, <1>2, <1>4 DEF Live, TaskDecided, ActsNot
<1>7. ASSUME NEW e \in Live, NEW x \in MsgIds, seen' \in Marked(seen, x, now),
             now - decidedAt[e] <= DuplicateTtl
      PROVE  seen'[tasks[e].msg] >= decidedAt[e]
  <2>1. /\ tasks[e].msg \in MsgIds /\ decidedAt[e] \in Nat /\ decidedAt[e] <= now
        /\ seen[tasks[e].msg] >= decidedAt[e]
    BY <1>7, LiveType DEF RepeatInv, Kept
  <2> QED
    BY <1>3, <1>7, <2>1, MarkedRemembers DEF RoomInCache
<1>8. ASSUME NEW e \in Live' PROVE Kept(e)'
  <2>1. CASE e = d
    <3>1. seen' = [EvictOld(seen, now) EXCEPT ![m] = now]
      BY <1>3, <1>6, <1>8, <2>1, MarkedWithoutCompaction DEF RoomInCache, Acts
    <3>2. seen'[m] = now
      BY <3>1 DEF EvictOld
    <3> QED
      BY <1>3, <1>4, <1>6, <1>8, <2>1, <3>2 DEF Kept
  <2>2. CASE e # d
    <3>1. e \in Live /\ tasks'[e] = tasks[e] /\ decidedAt'[e] = decidedAt[e]
      BY <1>5, <1>8, <2>2 DEF Live
    <3>2. SeenStep
      BY <1>2 DEF Acts, ActsNot, SeenStep
    <3>3. now - decidedAt[e] <= DuplicateTtl => seen'[tasks[e].msg] >= decidedAt[e]
      BY <1>7, <3>1, <3>2 DEF SeenStep, RepeatInv, Kept
    <3> QED
      BY <1>2, <3>1, <3>3 DEF Kept
  <2> QED
    BY <2>1, <2>2
<1>9. ASSUME NEW e \in Live, Acts(m), tasks[e].msg = m
      PROVE  now - decidedAt[e] > DuplicateTtl
  <2>1. /\ decidedAt[e] \in Nat /\ decidedAt[e] <= now /\ seen[m] <= now
        /\ now - decidedAt[e] <= DuplicateTtl => seen[m] >= decidedAt[e]
    BY <1>9, LiveType DEF RepeatInv, Kept
  <2>2. EvictOld(seen, now)[m] = Absent
    BY <1>9 DEF Acts, IsDuplicate
  <2>3. seen[m] = Absent \/ now - seen[m] > DuplicateTtl
    BY <2>2 DEF EvictOld
  <2>4. seen[m] \in Nat \cup {Absent}
    BY <1>3 DEF Caches
  <2> QED
    BY <1>3, <2>1, <2>3, <2>4 DEF Absent
<1>10. ASSUME NEW e \in Live', NEW f \in Live', e # f, tasks'[e].msg = tasks'[f].msg
       PROVE  decidedAt'[f] - decidedAt'[e] \notin 0 .. DuplicateTtl
  <2>1. CASE e # d /\ f # d
    <3>1. e \in Live /\ f \in Live /\ e \in Deliveries /\ f \in Deliveries
      BY <1>5, <1>10, <2>1 DEF Live
    <3> QED
      BY <1>5, <1>10, <2>1, <3>1 DEF RepeatInv, LiveApart
  <2>2. CASE e = d
    <3>1. f \in Live /\ f \in Deliveries
      BY <1>5, <1>10, <2>2 DEF Live
    <3>2. tasks[f].msg = m /\ decidedAt'[f] = decidedAt[f] /\ decidedAt'[e] = now /\ Acts(m)
      BY <1>4, <1>5, <1>6, <1>10, <2>2, <3>1
    <3>3. now - decidedAt[f] > DuplicateTtl /\ decidedAt[f] \in Nat
      BY <1>9, <3>1, <3>2, LiveType
    <3> QED
      BY <1>3, <3>2, <3>3
  <2>3. CASE f = d
    <3>1. e \in Live /\ e \in Deliveries
      BY <1>5, <1>10, <2>3 DEF Live
    <3>2. tasks[e].msg = m /\ decidedAt'[e] = decidedAt[e] /\ decidedAt'[f] = now /\ Acts(m)
      BY <1>4, <1>5, <1>6, <1>10, <2>3, <3>1
    <3>3. now - decidedAt[e] > DuplicateTtl /\ decidedAt[e] \in Nat
      BY <1>9, <3>1, <3>2, LiveType
    <3> QED
      BY <1>3, <3>2, <3>3
  <2> QED
    BY <2>1, <2>2, <2>3
<1>11. RepeatsNeedRestarts'
  <2>1. ASSUME NEW k \in 1 .. Len(posted)
        PROVE  Posted(k)' = Posted(k) /\ Decided(k)' = Decided(k)
    <3>1. posted[k].delivery \in Deliveries /\ posted[k].delivery # d
      BY <1>2, PostType DEF PostShape, Posted
    <3> QED
      BY <1>2, <1>5, <3>1 DEF Posted, Decided
  <2> QED
    BY <1>2, <2>1 DEF RepeatInv, RepeatsNeedRestarts
<1> QED
  BY <1>8, <1>10, <1>11 DEF RepeatInv, LiveApart

\* A request is of a live task, and so is every request of the process that runs.
LEMMA RepeatPost ==
    ASSUME BotShape, RepeatInv, NEW d \in Deliveries, Post(d)
    PROVE  RepeatInv'
<1>0. PICK n : n = Len(posted)
  OBVIOUS
<1> DEFINE task == [tasks[d] EXCEPT !.step = "Waiting"]
<1>1. /\ tasks[d].step = "Apply" /\ tasks[d].action # "Noop" /\ d \in Backlog
      /\ OneBotTask(d, task) /\ task.step = "Waiting" /\ task.action = tasks[d].action
      /\ task.msg = tasks[d].msg
      /\ UNCHANGED <<coreVars, starts, decidedAt>>
      /\ n \in Nat /\ Len(posted') = n + 1
      /\ \A k \in 1 .. n : posted'[k] = posted[k]
      /\ posted'[n + 1] = [delivery |-> d, at |-> now, run |-> Run]
  BY <1>0, PostMoves
<1> HIDE DEF task
<1>2. ASSUME NEW e \in Deliveries
      PROVE  /\ tasks'[e].msg = tasks[e].msg /\ tasks'[e].action = tasks[e].action
             /\ e \in Live' <=> e \in Live
  BY <1>1 DEF OneBotTask, Live
<1>3. UNCHANGED <<now, seen, decidedAt>> /\ Live' = Live /\ Live \subseteq Deliveries
  BY <1>1, <1>2 DEF coreVars, Live
<1>4. \A e \in Live : Kept(e)'
  BY <1>2, <1>3 DEF RepeatInv, Kept
<1>5. LiveApart'
  BY <1>2, <1>3 DEF RepeatInv, LiveApart
<1>6. ASSUME NEW k \in 1 .. n
      PROVE  /\ posted[k].delivery \in Deliveries /\ posted[k].delivery # d /\ posted[k].run \in 1 .. Run
             /\ posted[k].run = Run => posted[k].delivery \in Live
             /\ posted'[k] = posted[k] /\ Posted(k)'.msg = Posted(k).msg
             /\ Decided(k)' = Decided(k)
  <2>1. /\ posted[k].delivery \in Deliveries /\ posted[k].delivery # d /\ PostShape(k)
        /\ posted[k].run \in 1 .. Run
    BY <1>0, <1>1, PostType DEF PostShape
  <2> QED
    BY <1>1, <1>2, <2>1 DEF PostShape, Posted, Decided, Live
<1>7. d \in Live /\ posted'[n + 1].delivery = d /\ posted'[n + 1].run = Run
  BY <1>1 DEF Live
<1>8. Posted(n + 1)'.msg = tasks[d].msg /\ Decided(n + 1)' = decidedAt[d]
  BY <1>1, <1>2, <1>7 DEF Posted, Decided
<1>9. ASSUME NEW i \in 1 .. Len(posted'), NEW j \in 1 .. Len(posted'), i # j,
             Posted(i)'.msg = Posted(j)'.msg, Decided(j)' - Decided(i)' \in 0 .. DuplicateTtl
      PROVE  posted'[i].run # posted'[j].run
  <2>1. CASE i \in 1 .. n /\ j \in 1 .. n
    <3>1. /\ Posted(i).msg = Posted(j).msg /\ Decided(j) - Decided(i) \in 0 .. DuplicateTtl
          /\ i \in 1 .. Len(posted) /\ j \in 1 .. Len(posted)
      BY <1>0, <1>6, <1>9, <2>1
    <3>2. posted[i].run # posted[j].run
      BY <1>9, <3>1 DEF RepeatInv, RepeatsNeedRestarts
    <3> QED
      BY <1>6, <2>1, <3>2
  <2>2. CASE i = n + 1
    <3>1. j \in 1 .. n
      BY <1>1, <1>9, <2>2
    <3>2. SUFFICES ASSUME posted[j].run = Run PROVE FALSE
      BY <1>6, <1>7, <2>2, <3>1
    <3>3. posted[j].delivery \in Live /\ posted[j].delivery # d
      BY <1>6, <3>1, <3>2
    <3>4. /\ tasks[posted[j].delivery].msg = tasks[d].msg
          /\ decidedAt[posted[j].delivery] - decidedAt[d] \in 0 .. DuplicateTtl
      BY <1>6, <1>8, <1>9, <2>2, <3>1 DEF Posted, Decided
    <3> QED
      BY <1>7, <3>3, <3>4 DEF RepeatInv, LiveApart
  <2>3. CASE j = n + 1
    <3>1. i \in 1 .. n
      BY <1>1, <1>9, <2>3
    <3>2. SUFFICES ASSUME posted[i].run = Run PROVE FALSE
      BY <1>6, <1>7, <2>3, <3>1
    <3>3. posted[i].delivery \in Live /\ posted[i].delivery # d
      BY <1>6, <3>1, <3>2
    <3>4. /\ tasks[posted[i].delivery].msg = tasks[d].msg
          /\ decidedAt[d] - decidedAt[posted[i].delivery] \in 0 .. DuplicateTtl
      BY <1>6, <1>8, <1>9, <2>3, <3>1 DEF Posted, Decided
    <3> QED
      BY <1>7, <3>3, <3>4 DEF RepeatInv, LiveApart
  <2> QED
    BY <1>1, <1>9, <2>1, <2>2, <2>3
<1>10. RepeatsNeedRestarts'
  BY <1>9 DEF RepeatsNeedRestarts
<1> QED
  BY <1>3, <1>4, <1>5, <1>10 DEF RepeatInv

\* While the cache has room, a message is answered again within the ttl only by a process
\* started since, however often and to however many tasks the gateway delivers it.
THEOREM RepeatsTakeRestarts == BotSpec /\ []RoomInCache => []RepeatsNeedRestarts
<1>1. BotInit => RepeatInv
  BY DEF BotInit, RepeatInv, Live, LiveApart, IdleTask, RepeatsNeedRestarts
<1>2. BotShape /\ RoomInCache /\ RepeatInv /\ [BotNext]_botVars => RepeatInv'
  BY BotStepKinds, RepeatQuiet, RepeatRestart, RepeatDecide, RepeatPost
<1>3. RepeatInv => RepeatsNeedRestarts
  BY DEF RepeatInv
<1> QED
  BY <1>1, <1>2, <1>3, BotShapeHolds, PTL DEF BotSpec

\* And a cache as large as the number of ids ever delivered always has room: then only a restart,
\* which empties the duplicate guard, lets a message be answered again within the ttl.
THEOREM RepeatsAlwaysTakeRestarts ==
    ASSUME Cardinality(MsgIds) <= EffectiveCap
    PROVE  BotSpec => []RepeatsNeedRestarts
BY RoomForAll, RepeatsTakeRestarts, PTL

----------------------------------------------------------------------------
(* Every action let through is posted or under way. *)

PostsNow == {k \in 1 .. Len(posted) : posted[k].run = Run}

CountInv == Len(outbound) = Cardinality(Backlog) + Cardinality(PostsNow)

LEMMA CountTypes ==
    ASSUME BotShape
    PROVE  /\ IsFiniteSet(Backlog) /\ IsFiniteSet(PostsNow)
           /\ Cardinality(Backlog) \in Nat /\ Cardinality(PostsNow) \in Nat
           /\ outbound \in Seq([at : Nat, msg : MsgIds, action : Outbound])
           /\ Len(outbound) \in Nat
<1>1. Backlog \in SUBSET Deliveries /\ PostsNow \in SUBSET (1 .. Len(posted))
  BY DEF Backlog, PostsNow
<1>2. posted \in Seq([delivery : Deliveries, at : Nat, run : 1 .. Run]) /\ TypeOK
  BY DEF BotShape
<1>3. PICK S : posted \in Seq(S)
  BY <1>2
<1>4. IsFiniteSet(1 .. Len(posted))
  BY <1>3, FS_Interval
<1>5. IsFiniteSet(Backlog) /\ IsFiniteSet(PostsNow)
  BY <1>1, <1>4, FS_Subset, EventHandlerAssumption
<1>6. outbound \in Seq([at : Nat, msg : MsgIds, action : Outbound])
  BY <1>2 DEF TypeOK
<1>7. Len(outbound) \in Nat
  BY <1>6
<1> QED
  BY <1>5, <1>6, <1>7, FS_CardinalityType

LEMMA CountQuiet ==
    ASSUME BotShape, CountInv, Quiet
    PROVE  CountInv'
<1>1. UNCHANGED <<outbound, posted, starts>>
  BY DEF Quiet
<1>2. Backlog' = Backlog
  <2>1. Backlog \subseteq Deliveries /\ Backlog' \subseteq Deliveries
    BY DEF Backlog
  <2> QED
    BY <2>1 DEF Quiet
<1>3. PostsNow' = PostsNow
  BY <1>1 DEF PostsNow, Run
<1> QED
  BY <1>1, <1>2, <1>3 DEF CountInv

\* The new governor has let nothing through, and its process has nothing under way.
LEMMA CountRestart ==
    ASSUME BotShape, CountInv, Restart
    PROVE  CountInv'
<1>1. outbound' = <<>> /\ Backlog' = {} /\ posted' = posted /\ Run' = Run + 1
  BY RestartMoves DEF FreshCore
<1>2. ASSUME NEW k \in 1 .. Len(posted) PROVE posted[k].run # Run'
  BY <1>1, PostType
<1>3. PostsNow' = {}
  BY <1>1, <1>2 DEF PostsNow
<1> QED
  BY <1>1, <1>3, FS_EmptySet DEF CountInv

LEMMA CountDecide ==
    ASSUME BotShape, CountInv, NEW d \in Deliveries, BotDecides(d)
    PROVE  CountInv'
<1>1. PICK m \in MsgIds, task \in BotTask :
         DecideMessage(m) /\ OneBotTask(d, task) /\ TaskDecided(d, m, task)
  BY DecideMovesBot
<1>2. /\ UNCHANGED <<posted, starts>> /\ tasks[d].step = "Idle"
      /\ Acts(m) \/ ActsNot
  BY <1>1, DecideMovesBot, DecideOutcome DEF BotShape
<1>3. PostsNow' = PostsNow
  BY <1>2 DEF PostsNow, Run
<1>4. ASSUME NEW e \in Deliveries, e # d PROVE e \in Backlog' <=> e \in Backlog
  BY <1>1, <1>4 DEF OneBotTask, Backlog
<1>5. Backlog \subseteq Deliveries /\ Backlog' \subseteq Deliveries /\ d \notin Backlog
  BY <1>2 DEF Backlog
<1>6. tasks'[d] = task
  BY <1>1 DEF OneBotTask
<1>7. CASE Acts(m)
  <2>1. d \in Backlog'
    BY <1>1, <1>6, <1>7 DEF Acts, TaskDecided, Backlog, Outbound, Sends
  <2>2. Backlog' = Backlog \cup {d}
    BY <1>4, <1>5, <2>1
  <2>3. Cardinality(Backlog') = Cardinality(Backlog) + 1
    BY <1>5, <2>2, CountTypes, FS_AddElement
  <2>4. Len(outbound') = Len(outbound) + 1
    BY <1>7, CountTypes DEF Acts
  <2> QED
    BY <1>3, <2>3, <2>4, CountTypes DEF CountInv
<1>8. CASE ActsNot
  <2>1. d \notin Backlog'
    BY <1>1, <1>6, <1>8 DEF ActsNot, TaskDecided, Backlog
  <2>2. Backlog' = Backlog /\ outbound' = outbound
    BY <1>4, <1>5, <1>8, <2>1 DEF ActsNot
  <2> QED
    BY <1>3, <2>2 DEF CountInv
<1> QED
  BY <1>2, <1>7, <1>8

LEMMA CountPost ==
    ASSUME BotShape, CountInv, NEW d \in Deliveries, Post(d)
    PROVE  CountInv'
<1>0. PICK n : n = Len(posted)
  OBVIOUS
<1> DEFINE task == [tasks[d] EXCEPT !.step = "Waiting"]
<1>1. /\ d \in Backlog /\ OneBotTask(d, task) /\ task.step = "Waiting"
      /\ UNCHANGED <<coreVars, starts>>
      /\ n \in Nat /\ Len(posted') = n + 1
      /\ \A k \in 1 .. n : posted'[k] = posted[k]
      /\ posted'[n + 1] = [delivery |-> d, at |-> now, run |-> Run]
  BY <1>0, PostMoves
<1> HIDE DEF task
<1>2. UNCHANGED outbound /\ Run' = Run
  BY <1>1 DEF coreVars, Run
<1>3. Backlog' = Backlog \ {d}
  BY <1>1 DEF OneBotTask, Backlog
<1>4. Cardinality(Backlog') = Cardinality(Backlog) - 1
  BY <1>1, <1>3, CountTypes, FS_RemoveElement
<1>5. PostsNow' = PostsNow \cup {n + 1}
  <2>1. \A k : k \in 1 .. n + 1 <=> k \in 1 .. n \/ k = n + 1
    BY <1>1
  <2>2. posted'[n + 1].run = Run
    BY <1>1
  <2> QED
    BY <1>0, <1>1, <1>2, <2>1, <2>2 DEF PostsNow
<1>6. n + 1 \notin PostsNow
  BY <1>0, <1>1 DEF PostsNow
<1>7. Cardinality(PostsNow') = Cardinality(PostsNow) + 1
  BY <1>5, <1>6, CountTypes, FS_AddElement
<1> QED
  BY <1>2, <1>4, <1>7, CountTypes DEF CountInv

\* The types, and what a process has under way it decided itself: the governor it was started
\* with let through as many actions as it has posted or still has to post.
THEOREM BotTypesCorrect == BotSpec => []BotTypeOK
<1>1. BotInit => CountInv
  <2> SUFFICES ASSUME BotInit PROVE CountInv
    OBVIOUS
  <2>1. Backlog = {} /\ PostsNow = {} /\ Len(outbound) = 0
    BY DEF BotInit, Init, Backlog, IdleTask, PostsNow
  <2> QED
    BY <2>1, FS_EmptySet DEF CountInv
<1>2. BotShape /\ CountInv /\ [BotNext]_botVars => CountInv'
  BY BotStepKinds, CountQuiet, CountRestart, CountDecide, CountPost
<1>3. BotShape /\ CountInv => BotTypeOK
  <2> SUFFICES ASSUME BotShape, CountInv PROVE BotTypeOK
    OBVIOUS
  <2>1. \A d \in Deliveries : tasks[d].step \in Steps \cup {"Gone"}
    BY BotTaskType DEF BotTask
  <2>2. Len(outbound) = Cardinality(Backlog)
                          + Cardinality({k \in 1 .. Len(posted) : posted[k].run = Run})
    BY DEF CountInv, PostsNow
  <2> QED
    BY <2>1, <2>2 DEF BotShape, BotTypeOK, Started
<1> QED
  BY <1>1, <1>2, <1>3, BotShapeHolds, PTL DEF BotSpec

----------------------------------------------------------------------------
(* What Discord sees in any stretch.  The account is kept for every set S of processes and  *)
(* every instant: what they decided on since then is paid for by their buckets as they were *)
(* when full and by the refill since, of which no two of them have a part in common.         *)

\* The actions of the processes in S decided since t, posted or on their way.
ActedBy(S, t) ==
    {d \in Deliveries :
        /\ decidedAt[d] >= t
        /\ \/ d \in Backlog /\ Run \in S
           \/ \E k \in 1 .. Len(posted) : posted[k].delivery = d /\ posted[k].run \in S}

TokensOf(S) == IF Run \in S THEN bucket.tokens ELSE 0

Account(S, t) ==
    TokenUnit * Cardinality(ActedBy(S, t)) + TokensOf(S)
        <= Capacity * Cardinality(S) + RefillPerTick * (bucket.lastRefill - t)

\* Every decision to act refilled the bucket, and so did the start of a process after those
\* of the processes before.
RefilledSince == \A d \in ActedBy(1 .. Run, 0) : decidedAt[d] <= bucket.lastRefill

\* Some request in every tail is of the oldest decision in it.
OldestInTail ==
    \A i \in 1 .. Len(posted) : \E oldest \in i .. Len(posted) :
        \A k \in i .. Len(posted) : Decided(oldest) <= Decided(k)

Accounts ==
    /\ RefilledSince
    /\ \A S \in SUBSET (1 .. Run), t \in 0 .. bucket.lastRefill : Account(S, t)

LEMMA Products ==
    ASSUME NEW a \in Nat, NEW x \in Nat, NEW y \in Nat
    PROVE  a * x \in Nat /\ a * (x + y) = a * x + a * y /\ a * 1 = a /\ a * 0 = 0
OBVIOUS

LEMMA ProductsGrow ==
    ASSUME NEW a \in Nat, NEW x \in Nat, NEW y \in Nat, x <= y
    PROVE  a * x <= a * y
<1>1. PICK z \in Nat : y = x + z
  <2>1. y - x \in Nat /\ y = x + (y - x)
    OBVIOUS
  <2> QED
    BY <2>1
<1>2. a * y = a * x + a * z /\ a * x \in Nat /\ a * z \in Nat
  BY <1>1, Products
<1> QED
  BY <1>2

LEMMA RunSets ==
    ASSUME BotShape, NEW S \in SUBSET (1 .. Run)
    PROVE  /\ Run \in Nat /\ Run >= 1
           /\ IsFiniteSet(S) /\ Cardinality(S) \in Nat /\ (S # {} => Cardinality(S) >= 1)
<1>1. starts \in Seq(Started) /\ Run >= 1
  BY DEF BotShape
<1>2. Run \in Nat
  BY <1>1 DEF Run
<1>3. IsFiniteSet(1 .. Run)
  BY <1>2, FS_Interval
<1>4. IsFiniteSet(S) /\ Cardinality(S) \in Nat
  BY <1>3, FS_Subset, FS_CardinalityType
<1> QED
  BY <1>1, <1>2, <1>4, FS_EmptySet

LEMMA ActedSets ==
    ASSUME BotShape, NEW S, NEW t
    PROVE  IsFiniteSet(ActedBy(S, t)) /\ Cardinality(ActedBy(S, t)) \in Nat
<1>1. ActedBy(S, t) \in SUBSET Deliveries
  BY DEF ActedBy
<1> QED
  BY <1>1, FS_Subset, FS_CardinalityType, EventHandlerAssumption

LEMMA BotBucket ==
    ASSUME BotShape
    PROVE  /\ bucket \in Buckets /\ now \in Nat /\ bucket.lastRefill \in Nat
           /\ bucket.lastRefill <= now /\ bucket.tokens \in 0 .. Capacity
           /\ Capacity \in Nat /\ TokenUnit \in Nat /\ RefillPerTick \in Nat
BY BucketType DEF BotShape, Buckets

\* After the last refill nothing was decided on, so the buckets alone pay.
LEMMA NothingSinceRefill ==
    ASSUME BotShape, RefilledSince, NEW S \in SUBSET (1 .. Run), NEW t \in Nat,
           t > bucket.lastRefill
    PROVE  ActedBy(S, t) = {}
<1> SUFFICES ASSUME NEW d \in ActedBy(S, t) PROVE FALSE
  OBVIOUS
<1>1. d \in Deliveries /\ decidedAt[d] >= t /\ decidedAt[d] \in Nat
  BY DEF ActedBy, BotShape
<1>2. Run \in 1 .. Run
  BY RunSets
<1>3. d \in ActedBy(1 .. Run, 0)
  <2>1. \A r \in S : r \in 1 .. Run
    OBVIOUS
  <2>2. \/ d \in Backlog
        \/ \E k \in 1 .. Len(posted) : posted[k].delivery = d /\ posted[k].run \in 1 .. Run
    BY <2>1 DEF ActedBy
  <2>3. decidedAt[d] >= 0
    BY <1>1
  <2> QED
    BY <1>1, <1>2, <2>2, <2>3 DEF ActedBy
<1>4. decidedAt[d] <= bucket.lastRefill
  BY <1>3 DEF RefilledSince
<1> QED
  BY <1>1, <1>4, BotBucket

\* The account of the present instant, with the running process's bucket as a refill leaves it.
LEMMA AccountNow ==
    ASSUME BotShape, Accounts, NEW S \in SUBSET (1 .. Run), NEW t \in 0 .. now
    PROVE  /\ TokenUnit * Cardinality(ActedBy(S, t))
                 <= Capacity * Cardinality(S) + RefillPerTick * (now - t)
           /\ Run \in S => TokenUnit * Cardinality(ActedBy(S, t)) + Refill(bucket, now).tokens
                              <= Capacity * Cardinality(S) + RefillPerTick * (now - t)
<1>1. PICK spent : spent = TokenUnit * Cardinality(ActedBy(S, t))
  OBVIOUS
<1>2. PICK full : full = Capacity * Cardinality(S)
  OBVIOUS
<1>3. PICK all : all = RefillPerTick * (now - t)
  OBVIOUS
<1>4. PICK since : since = RefillPerTick * (now - bucket.lastRefill)
  OBVIOUS
<1>5. PICK tokens : tokens = Refill(bucket, now).tokens
  OBVIOUS
<1>6. /\ spent \in Nat /\ full \in Nat /\ all \in Nat /\ since \in Nat
      /\ S # {} => Capacity <= full
  <2>1. /\ Cardinality(ActedBy(S, t)) \in Nat /\ Cardinality(S) \in Nat
        /\ S # {} => Cardinality(S) >= 1
    BY ActedSets, RunSets
  <2>2. now - t \in Nat /\ now - bucket.lastRefill \in Nat
    BY BotBucket
  <2>3. spent \in Nat /\ full \in Nat /\ all \in Nat /\ since \in Nat
    BY <1>1, <1>2, <1>3, <1>4, <2>1, <2>2, BotBucket, Products
  <2>4. ASSUME S # {} PROVE Capacity * 1 <= Capacity * Cardinality(S)
    BY <2>1, <2>4, BotBucket, ProductsGrow
  <2>5. Capacity * 1 = Capacity
    BY BotBucket, Products
  <2> QED
    BY <1>2, <2>3, <2>4, <2>5
<1>7. /\ tokens \in 0 .. Capacity /\ tokens <= bucket.tokens + since
      /\ bucket.tokens \in Nat
  BY <1>4, <1>5, RefillBound, BotBucket DEF Buckets
<1>8. CASE t <= bucket.lastRefill
  <2>1. PICK before : before = RefillPerTick * (bucket.lastRefill - t)
    OBVIOUS
  <2>2. bucket.lastRefill - t \in Nat /\ now - bucket.lastRefill \in Nat
        /\ now - t = (bucket.lastRefill - t) + (now - bucket.lastRefill)
    BY <1>8, BotBucket
  <2>3. before \in Nat /\ all = before + since
    BY <1>3, <1>4, <2>1, <2>2, BotBucket, Products
  <2>4. Account(S, t)
    BY <1>8, BotBucket DEF Accounts
  <2>5. spent + TokensOf(S) <= full + before
    BY <1>1, <1>2, <2>1, <2>4 DEF Account
  <2>6. spent <= full + before /\ (Run \in S => spent + bucket.tokens <= full + before)
    BY <1>6, <1>7, <2>3, <2>5 DEF TokensOf
  <2>7. spent <= full + all /\ (Run \in S => spent + tokens <= full + all)
    BY <1>6, <1>7, <2>3, <2>6
  <2> QED
    BY <1>1, <1>2, <1>3, <1>5, <2>7
<1>9. CASE ~(t <= bucket.lastRefill)
  <2>1. ActedBy(S, t) = {}
    BY <1>9, NothingSinceRefill, BotBucket DEF Accounts
  <2>2. spent = 0
    BY <1>1, <2>1, FS_EmptySet, BotBucket, Products
  <2>3. spent <= full + all /\ (Run \in S => spent + tokens <= full + all)
    BY <1>6, <1>7, <2>2, BotBucket
  <2> QED
    BY <1>1, <1>2, <1>3, <1>5, <2>3
<1> QED
  BY <1>8, <1>9

LEMMA AccountsQuiet ==
    ASSUME BotShape, Accounts, Quiet
    PROVE  Accounts'
<1>1. UNCHANGED <<bucket, starts, posted, decidedAt>> /\ Run' = Run
  BY DEF Quiet, Run
<1>2. Backlog' = Backlog
  <2>1. Backlog \subseteq Deliveries /\ Backlog' \subseteq Deliveries
    BY DEF Backlog
  <2> QED
    BY <2>1 DEF Quiet
<1>3. ASSUME NEW S, NEW t PROVE ActedBy(S, t)' = ActedBy(S, t)
  BY <1>1, <1>2 DEF ActedBy
<1>4. ASSUME NEW S, NEW t PROVE Account(S, t)' <=> Account(S, t)
  BY <1>1, <1>3 DEF Account, TokensOf
<1>5. RefilledSince'
  BY <1>1, <1>3 DEF Accounts, RefilledSince
<1> QED
  BY <1>1, <1>4, <1>5 DEF Accounts

\* A start drops what the bucket held and fills a new one: one burst more, for one process more.
LEMMA AccountsRestart ==
    ASSUME BotShape, Accounts, Restart
    PROVE  Accounts'
<1>1. /\ Backlog' = {} /\ UNCHANGED <<posted, decidedAt>> /\ Run' = Run + 1 /\ Run \in Nat
      /\ bucket' = FullBucket(now)
  BY RestartMoves DEF FreshCore
<1>2. bucket'.lastRefill = now /\ bucket'.tokens = Capacity /\ now \in Nat
  BY <1>1, BotBucket DEF FullBucket
<1>3. ASSUME NEW S, NEW t
      PROVE  ActedBy(S, t)' \subseteq ActedBy(S \ {Run'}, t)
  <2>1. ASSUME NEW d \in ActedBy(S, t)' PROVE d \in ActedBy(S \ {Run'}, t)
    <3>1. PICK k \in 1 .. Len(posted) : posted[k].delivery = d /\ posted[k].run \in S
      BY <1>1, <2>1 DEF ActedBy
    <3>2. posted[k].run # Run'
      BY <1>1, PostType
    <3>3. d \in Deliveries /\ decidedAt[d] >= t
      BY <1>1, <2>1 DEF ActedBy
    <3> QED
      BY <3>1, <3>2, <3>3 DEF ActedBy
  <2> QED
    BY <2>1
<1>4. RefilledSince'
  <2> SUFFICES ASSUME NEW d \in ActedBy(1 .. Run, 0)' PROVE decidedAt[d] <= now
    <3>1. \A d \in ActedBy(1 .. Run, 0)' : decidedAt[d] <= now
      OBVIOUS
    <3> QED
      BY <1>1, <1>2, <3>1 DEF RefilledSince
  <2>1. d \in ActedBy((1 .. Run') \ {Run'}, 0)
    <3>1. PICK T : T = 1 .. Run'
      OBVIOUS
    <3>2. d \in ActedBy(T, 0)'
      BY <3>1 DEF ActedBy
    <3> QED
      BY <1>3, <3>1, <3>2
  <2>2. (1 .. Run') \ {Run'} = 1 .. Run
    BY <1>1
  <2>3. decidedAt[d] <= bucket.lastRefill /\ d \in Deliveries
    BY <2>1, <2>2 DEF Accounts, RefilledSince, ActedBy
  <2>4. decidedAt[d] \in Nat
    BY <2>3, BotTaskType
  <2> QED
    BY <2>3, <2>4, BotBucket
<1>5. ASSUME NEW S \in SUBSET (1 .. Run'), NEW t \in 0 .. now PROVE Account(S, t)'
  <2>1. PICK old : old = S \ {Run'}
    OBVIOUS
  <2>2. old \in SUBSET (1 .. Run) /\ IsFiniteSet(old) /\ Cardinality(old) \in Nat
    <3>1. \A r \in old : r \in 1 .. Run
      BY <1>1, <2>1
    <3> QED
      BY <3>1, RunSets
  <2>3. TokenUnit * Cardinality(ActedBy(old, t))
           <= Capacity * Cardinality(old) + RefillPerTick * (now - t)
    BY <2>2, AccountNow
  <2>4. /\ Cardinality(ActedBy(S, t)') \in Nat /\ Cardinality(ActedBy(old, t)) \in Nat
        /\ Cardinality(ActedBy(S, t)') <= Cardinality(ActedBy(old, t))
    <3>1. ActedBy(S, t)' \in SUBSET ActedBy(old, t)
      BY <1>3, <2>1
    <3> QED
      BY <3>1, ActedSets, FS_Subset, FS_CardinalityType
  <2>5. PICK spent : spent = TokenUnit * Cardinality(ActedBy(S, t)')
    OBVIOUS
  <2>6. PICK full : full = Capacity * Cardinality(old)
    OBVIOUS
  <2>7. PICK all : all = RefillPerTick * (now - t)
    OBVIOUS
  <2>8. TokenUnit * Cardinality(ActedBy(S, t)') <= TokenUnit * Cardinality(ActedBy(old, t))
    BY <2>4, BotBucket, ProductsGrow
  <2>9. spent \in Nat /\ full \in Nat /\ all \in Nat /\ TokenUnit * Cardinality(ActedBy(old, t)) \in Nat
    <3>1. now - t \in Nat
      BY BotBucket
    <3> QED
      BY <2>2, <2>4, <2>5, <2>6, <2>7, <3>1, BotBucket, Products
  <2>10. spent <= full + all
    BY <2>3, <2>5, <2>6, <2>7, <2>8, <2>9
  <2>11. spent + TokensOf(S)' <= Capacity * Cardinality(S) + all
    <3>1. CASE Run' \in S
      <4>1. S = old \cup {Run'} /\ Run' \notin old
        BY <2>1, <3>1
      <4>2. Cardinality(S) = Cardinality(old) + 1
        BY <2>2, <4>1, FS_AddElement
      <4>3. Capacity * Cardinality(S) = full + Capacity
        BY <2>2, <2>6, <4>2, BotBucket, Products
      <4>4. TokensOf(S)' = Capacity
        BY <1>2, <3>1 DEF TokensOf
      <4> QED
        BY <2>9, <2>10, <4>3, <4>4, BotBucket
    <3>2. CASE Run' \notin S
      <4>1. S = old
        BY <2>1, <3>2
      <4>2. TokensOf(S)' = 0
        BY <3>2 DEF TokensOf
      <4> QED
        BY <2>6, <2>9, <2>10, <4>1, <4>2
    <3> QED
      BY <3>1, <3>2
  <2> QED
    BY <1>2, <2>5, <2>7, <2>11 DEF Account
<1> QED
  BY <1>2, <1>4, <1>5 DEF Accounts

\* A decision to act takes one token of the bucket as the refill left it, and is one more.
LEMMA AccountsDecide ==
    ASSUME BotShape, Accounts, NEW d \in Deliveries, BotDecides(d)
    PROVE  Accounts'
<1>1. PICK m \in MsgIds, task \in BotTask :
         DecideMessage(m) /\ OneBotTask(d, task) /\ TaskDecided(d, m, task)
  BY DecideMovesBot
<1>2. /\ UNCHANGED <<posted, starts>> /\ Run' = Run /\ tasks[d].step = "Idle" /\ now' = now
      /\ decidedAt' = [decidedAt EXCEPT ![d] = now]
      /\ Acts(m) \/ ActsNot
  BY <1>1, DecideMovesBot, DecideOutcome DEF BotShape, Run
<1>3. d \notin Backlog /\ \A k \in 1 .. Len(posted) : posted[k].delivery # d
  BY <1>2, PostType DEF Backlog, PostShape, Posted
<1>4. tasks'[d] = task /\ decidedAt'[d] = now /\ decidedAt \in [Deliveries -> Nat]
  BY <1>1, <1>2 DEF OneBotTask, BotShape
<1>5. ASSUME NEW e \in Deliveries, e # d
      PROVE  decidedAt'[e] = decidedAt[e] /\ (e \in Backlog' <=> e \in Backlog)
  BY <1>1, <1>2, <1>4, <1>5 DEF OneBotTask, Backlog
<1>6. d \in Backlog' <=> Acts(m)
  <2>1. CASE Acts(m)
    BY <1>1, <1>4, <2>1 DEF Acts, TaskDecided, Backlog, Outbound, Sends
  <2>2. CASE ActsNot
    BY <1>1, <1>4, <2>2 DEF Acts, ActsNot, TaskDecided, Backlog
  <2> QED
    BY <1>2, <2>1, <2>2
<1>7. ASSUME NEW S, NEW t \in 0 .. now
      PROVE  /\ d \notin ActedBy(S, t)
             /\ ActedBy(S, t)' = IF Acts(m) /\ Run \in S THEN ActedBy(S, t) \cup {d}
                                 ELSE ActedBy(S, t)
  <2>1. d \notin ActedBy(S, t)
    BY <1>3 DEF ActedBy
  <2>2. ASSUME NEW e \in Deliveries, e # d PROVE e \in ActedBy(S, t)' <=> e \in ActedBy(S, t)
    BY <1>2, <1>5, <2>2 DEF ActedBy
  <2>3. d \in ActedBy(S, t)' <=> Acts(m) /\ Run \in S
    <3>1. decidedAt'[d] >= t
      BY <1>4, BotBucket
    <3> QED
      BY <1>2, <1>3, <1>6, <3>1 DEF ActedBy
  <2>4. ActedBy(S, t) \subseteq Deliveries /\ ActedBy(S, t)' \subseteq Deliveries
    BY DEF ActedBy
  <2> QED
    BY <2>1, <2>2, <2>3, <2>4
<1>8. CASE bucket' = bucket /\ ActsNot
  <2>1. ~Acts(m)
    BY <1>8 DEF Acts, ActsNot
  <2>2. ASSUME NEW S \in SUBSET (1 .. Run), NEW t \in 0 .. bucket.lastRefill
        PROVE  Account(S, t)'
    <3>1. ActedBy(S, t)' = ActedBy(S, t)
      BY <1>7, <2>1, BotBucket
    <3>2. Account(S, t)
      BY DEF Accounts
    <3> QED
      BY <1>2, <1>8, <3>1, <3>2 DEF Account, TokensOf
  <2>3. RefilledSince'
    <3>1. ActedBy(1 .. Run, 0)' = ActedBy(1 .. Run, 0)
      <4>1. PICK T : T = 1 .. Run
        OBVIOUS
      <4>2. ActedBy(T, 0)' = ActedBy(T, 0)
        BY <1>7, <2>1, BotBucket
      <4> QED
        BY <1>2, <4>1, <4>2 DEF ActedBy
    <3>2. ASSUME NEW e \in ActedBy(1 .. Run, 0)
          PROVE  decidedAt'[e] = decidedAt[e] /\ decidedAt[e] <= bucket.lastRefill
      <4>1. e \in Deliveries /\ e # d
        BY <1>3, <3>2 DEF ActedBy
      <4> QED
        BY <1>5, <3>2, <4>1 DEF Accounts, RefilledSince
    <3> QED
      BY <1>8, <3>1, <3>2 DEF RefilledSince
  <2> QED
    BY <1>2, <1>8, <2>2, <2>3 DEF Accounts
<1>9. CASE bucket' = AfterTake(bucket, 1, now)
  <2>1. /\ bucket'.lastRefill = now /\ bucket'.tokens \in Nat /\ Refill(bucket, now).tokens \in Nat
        /\ bucket'.tokens <= Refill(bucket, now).tokens
        /\ Acts(m) => bucket'.tokens + TokenUnit = Refill(bucket, now).tokens
    <3>1. /\ AfterTake(bucket, 1, now) \in Buckets /\ Refill(bucket, now) \in Buckets
          /\ AfterTake(bucket, 1, now).lastRefill = now
          /\ CanTake(bucket, 1, now) =>
               AfterTake(bucket, 1, now).tokens = Refill(bucket, now).tokens - TokenUnit
          /\ ~CanTake(bucket, 1, now) => AfterTake(bucket, 1, now) = Refill(bucket, now)
      BY TakeOne, RefillBound, BotBucket
    <3>2. bucket'.tokens \in Nat /\ Refill(bucket, now).tokens \in Nat
      BY <1>9, <3>1, BotBucket DEF Buckets
    <3>3. Acts(m) => CanTake(bucket, 1, now)
      BY DEF Acts
    <3> QED
      BY <1>9, <3>1, <3>2, <3>3, BotBucket
  <2>2. ASSUME NEW S \in SUBSET (1 .. Run), NEW t \in 0 .. now
        PROVE  Account(S, t)'
    <3>1. PICK spent : spent = TokenUnit * Cardinality(ActedBy(S, t))
      OBVIOUS
    <3>2. PICK full : full = Capacity * Cardinality(S)
      OBVIOUS
    <3>3. PICK all : all = RefillPerTick * (now - t)
      OBVIOUS
    <3>4. spent \in Nat /\ full \in Nat /\ all \in Nat
      <4>1. now - t \in Nat
        BY BotBucket
      <4> QED
        BY <3>1, <3>2, <3>3, <4>1, ActedSets, RunSets, BotBucket, Products
    <3>5. /\ spent <= full + all
          /\ Run \in S => spent + Refill(bucket, now).tokens <= full + all
      BY <3>1, <3>2, <3>3, AccountNow
    <3>6. TokenUnit * Cardinality(ActedBy(S, t)')
             = IF Acts(m) /\ Run \in S THEN spent + TokenUnit ELSE spent
      <4>1. CASE Acts(m) /\ Run \in S
        <5>1. Cardinality(ActedBy(S, t)') = Cardinality(ActedBy(S, t)) + 1
          BY <1>7, <4>1, ActedSets, FS_AddElement
        <5> QED
          BY <3>1, <4>1, <5>1, ActedSets, BotBucket, Products
      <4>2. CASE ~(Acts(m) /\ Run \in S)
        BY <1>7, <3>1, <4>2
      <4> QED
        BY <4>1, <4>2
    <3>7. TokenUnit * Cardinality(ActedBy(S, t)') + TokensOf(S)' <= full + all
      <4>1. CASE Run \in S
        <5>1. TokensOf(S)' = bucket'.tokens
          BY <1>2, <4>1 DEF TokensOf
        <5> QED
          BY <2>1, <3>4, <3>5, <3>6, <4>1, <5>1, BotBucket
      <4>2. CASE Run \notin S
        <5>1. TokensOf(S)' = 0
          BY <1>2, <4>2 DEF TokensOf
        <5> QED
          BY <3>4, <3>5, <3>6, <4>2, <5>1
      <4> QED
        BY <4>1, <4>2
    <3> QED
      BY <2>1, <3>2, <3>3, <3>7 DEF Account
  <2>3. RefilledSince'
    <3>1. ASSUME NEW e \in Deliveries PROVE decidedAt'[e] <= now
      <4>1. decidedAt[e] <= now /\ now \in Nat
        BY BotTaskType DEF BotTaskShape
      <4> QED
        BY <1>4, <1>5, <4>1
    <3>2. ActedBy(1 .. Run, 0)' \subseteq Deliveries
      BY DEF ActedBy
    <3> QED
      BY <2>1, <3>1, <3>2 DEF RefilledSince
  <2> QED
    BY <1>2, <2>1, <2>2, <2>3 DEF Accounts
<1> QED
  BY <1>2, <1>8, <1>9 DEF Acts, ActsNot

\* A request that is made was on its way.
LEMMA AccountsPost ==
    ASSUME BotShape, Accounts, NEW d \in Deliveries, Post(d)
    PROVE  Accounts'
<1>0. PICK n : n = Len(posted)
  OBVIOUS
<1> DEFINE task == [tasks[d] EXCEPT !.step = "Waiting"]
<1>1. /\ d \in Backlog /\ OneBotTask(d, task) /\ task.step = "Waiting"
      /\ UNCHANGED <<coreVars, starts, decidedAt>>
      /\ n \in Nat /\ Len(posted') = n + 1
      /\ \A k \in 1 .. n : posted'[k] = posted[k]
      /\ posted'[n + 1] = [delivery |-> d, at |-> now, run |-> Run]
  BY <1>0, PostMoves
<1> HIDE DEF task
<1>2. /\ UNCHANGED bucket /\ Run' = Run /\ Backlog' = Backlog \ {d}
      /\ \A k \in 1 .. n : posted[k].delivery # d
  <2>1. UNCHANGED bucket /\ Run' = Run /\ Backlog' = Backlog \ {d}
    BY <1>1 DEF coreVars, Run, OneBotTask, Backlog
  <2> QED
    BY <1>0, <1>1, <2>1, PostType DEF PostShape
<1>3. ASSUME NEW S, NEW t PROVE ActedBy(S, t)' = ActedBy(S, t)
  <2>1. \A k : k \in 1 .. Len(posted') <=> k \in 1 .. n \/ k = n + 1
    BY <1>1
  <2>2. posted'[n + 1].delivery = d /\ posted'[n + 1].run = Run
    BY <1>1
  <2>3. ASSUME NEW e \in Deliveries
        PROVE  (\E k \in 1 .. Len(posted') : posted'[k].delivery = e /\ posted'[k].run \in S)
                 <=> \/ \E k \in 1 .. n : posted[k].delivery = e /\ posted[k].run \in S
                     \/ e = d /\ Run \in S
    BY <1>1, <2>1, <2>2
  <2>4. ASSUME NEW e \in Deliveries PROVE e \in ActedBy(S, t)' <=> e \in ActedBy(S, t)
    <3>1. e \in Backlog <=> e \in Backlog' \/ e = d
      BY <1>1, <1>2
    <3> QED
      BY <1>0, <1>1, <1>2, <2>3, <3>1 DEF ActedBy
  <2>5. ActedBy(S, t) \subseteq Deliveries /\ ActedBy(S, t)' \subseteq Deliveries
    BY DEF ActedBy
  <2> QED
    BY <2>4, <2>5
<1>4. ASSUME NEW S, NEW t PROVE Account(S, t)' <=> Account(S, t)
  BY <1>2, <1>3 DEF Account, TokensOf
<1>5. RefilledSince'
  <2>1. PICK T : T = 1 .. Run
    OBVIOUS
  <2>2. ActedBy(T, 0)' = ActedBy(1 .. Run, 0)
    BY <1>3, <2>1
  <2>3. ActedBy(1 .. Run, 0)' = ActedBy(1 .. Run, 0)
    BY <1>2, <2>1, <2>2 DEF ActedBy
  <2> QED
    BY <1>1, <1>2, <2>3 DEF Accounts, RefilledSince
<1> QED
  BY <1>2, <1>4, <1>5 DEF Accounts

\* What was seen of earlier requests is not changed by later ones.
LEMMA RateKept ==
    ASSUME BotShape, OldestInTail, PostedRate, posted' = posted,
           \A k \in 1 .. Len(posted) : Decided(k)' = Decided(k)
    PROVE  OldestInTail' /\ PostedRate'
<1>0. PICK n : n = Len(posted)
  OBVIOUS
<1>1. n \in Nat
  <2>1. posted \in Seq([delivery : Deliveries, at : Nat, run : 1 .. Run])
    BY DEF BotShape
  <2> QED
    BY <1>0, <2>1
<1>2. \A i, j \in 1 .. n : \A k \in i .. j : k \in 1 .. n
  BY <1>1
<1>3. OldestInTail'
  <2>1. ASSUME NEW i \in 1 .. n
        PROVE  \E oldest \in i .. n : \A k \in i .. n : Decided(oldest)' <= Decided(k)'
    <3>1. PICK oldest \in i .. n : \A k \in i .. n : Decided(oldest) <= Decided(k)
      BY <1>0 DEF OldestInTail
    <3>2. \A k \in i .. n : k \in 1 .. n
      BY <1>1
    <3> QED
      BY <1>0, <3>1, <3>2
  <2> QED
    BY <1>0, <2>1 DEF OldestInTail
<1>4. PostedRate'
  <2>1. ASSUME NEW i \in 1 .. n, NEW j \in 1 .. n, i <= j
        PROVE  \E oldest \in i .. j :
                  TokenUnit * (j - i + 1)
                      <= Capacity * Cardinality({posted'[k].run : k \in i .. j})
                           + RefillPerTick * (posted'[j].at - Decided(oldest)')
    <3>1. PICK oldest \in i .. j :
             TokenUnit * (j - i + 1)
                 <= Capacity * Cardinality({posted[k].run : k \in i .. j})
                      + RefillPerTick * (posted[j].at - Decided(oldest))
      BY <1>0, <2>1 DEF PostedRate
    <3>2. Decided(oldest)' = Decided(oldest)
      BY <1>0, <1>2
    <3> QED
      BY <3>1, <3>2
  <2>2. Len(posted') = n
    BY <1>0
  <2> QED
    BY <2>1, <2>2, Zenon DEF PostedRate
<1> QED
  BY <1>3, <1>4

\* The requests from i on are of different tasks, all of them decided since the oldest.
LEMMA TailActed ==
    ASSUME BotShape, NEW i \in 1 .. Len(posted), NEW oldest \in i .. Len(posted),
           \A k \in i .. Len(posted) : Decided(oldest) <= Decided(k),
           NEW S, S = {posted[k].run : k \in i .. Len(posted)}
    PROVE  /\ S \in SUBSET (1 .. Run)
           /\ Decided(oldest) \in Nat
           /\ posted[oldest].delivery \in ActedBy(1 .. Run, 0)
           /\ Len(posted) - i + 1 \in Nat
           /\ Len(posted) - i + 1 <= Cardinality(ActedBy(S, Decided(oldest)))
<1>0. PICK n : n = Len(posted)
  OBVIOUS
<1>1. n \in Nat /\ i \in 1 .. n /\ oldest \in 1 .. n
  BY <1>0, PostType
<1>2. ASSUME NEW k \in i .. n
      PROVE  /\ k \in 1 .. n /\ posted[k].delivery \in Deliveries /\ posted[k].run \in 1 .. Run
             /\ posted[k].run \in S /\ posted[k].delivery \in ActedBy(S, Decided(oldest))
  <2>1. k \in 1 .. n
    BY <1>1
  <2>2. posted[k].delivery \in Deliveries /\ posted[k].run \in 1 .. Run
    BY <1>0, <2>1, PostType
  <2>3. posted[k].run \in S
    BY <1>0
  <2>4. Decided(oldest) <= decidedAt[posted[k].delivery]
    BY <1>0 DEF Decided
  <2>5. Decided(oldest) \in Nat /\ decidedAt[posted[k].delivery] \in Nat
    BY <1>0, <1>1, <2>2, BotTaskType, PostType
  <2>6. decidedAt[posted[k].delivery] >= Decided(oldest)
    BY <2>4, <2>5
  <2> QED
    BY <1>0, <2>1, <2>2, <2>3, <2>6 DEF ActedBy
<1>3. S \in SUBSET (1 .. Run)
  BY <1>0, <1>2
<1>4. Decided(oldest) \in Nat
  BY <1>0, <1>1, PostType
<1>5. posted[oldest].delivery \in ActedBy(1 .. Run, 0)
  <2>1. /\ posted[oldest].delivery \in Deliveries /\ posted[oldest].run \in 1 .. Run
        /\ decidedAt[posted[oldest].delivery] >= 0
    BY <1>0, <1>1, PostType DEF Decided
  <2> QED
    BY <1>0, <1>1, <2>1 DEF ActedBy
<1>6. Cardinality(i .. n) <= Cardinality(ActedBy(S, Decided(oldest)))
  <2>1. PICK A : A = ActedBy(S, Decided(oldest))
    OBVIOUS
  <2> DEFINE f == [k \in i .. n |-> posted[k].delivery]
  <2>2. f \in [i .. n -> A]
    BY <1>2, <2>1
  <2>3. \A j, k \in i .. n : posted[j].delivery = posted[k].delivery => j = k
    BY <1>0, <1>2 DEF BotShape
  <2>4. f \in Injection(i .. n, A)
    BY <2>2, <2>3 DEF Injection, IsInjective
  <2> HIDE DEF f
  <2>5. IsFiniteSet(A)
    BY <2>1, ActedSets
  <2> QED
    BY <2>1, <2>4, <2>5, FS_Injection
<1>7. Cardinality(i .. n) = n - i + 1 /\ n - i + 1 \in Nat
  BY <1>1, FS_Interval
<1> QED
  BY <1>0, <1>3, <1>4, <1>5, <1>6, <1>7

\* What every request until now says of the one that is made now: its own instant is the
\* present one, so the account is due.
LEMMA TailPaid ==
    ASSUME BotShape, Accounts, NEW i \in 1 .. Len(posted), NEW oldest \in i .. Len(posted),
           \A k \in i .. Len(posted) : Decided(oldest) <= Decided(k)
    PROVE  TokenUnit * (Len(posted) - i + 1)
               <= Capacity * Cardinality({posted[k].run : k \in i .. Len(posted)})
                    + RefillPerTick * (now - Decided(oldest))
<1>1. PICK S : S = {posted[k].run : k \in i .. Len(posted)}
  OBVIOUS
<1>2. PICK t : t = Decided(oldest)
  OBVIOUS
<1>3. PICK count : count = Len(posted) - i + 1
  OBVIOUS
<1>4. /\ S \in SUBSET (1 .. Run) /\ t \in Nat /\ count \in Nat
      /\ posted[oldest].delivery \in ActedBy(1 .. Run, 0)
      /\ count <= Cardinality(ActedBy(S, t))
  BY <1>1, <1>2, <1>3, TailActed
<1>5. t \in 0 .. now
  <2>1. t <= bucket.lastRefill
    BY <1>2, <1>4 DEF Accounts, RefilledSince, Decided
  <2> QED
    BY <1>4, <2>1, BotBucket
<1>6. TokenUnit * count <= TokenUnit * Cardinality(ActedBy(S, t))
  BY <1>4, ActedSets, BotBucket, ProductsGrow
<1>7. TokenUnit * Cardinality(ActedBy(S, t)) <= Capacity * Cardinality(S) + RefillPerTick * (now - t)
  BY <1>4, <1>5, AccountNow
<1>8. /\ TokenUnit * count \in Nat /\ TokenUnit * Cardinality(ActedBy(S, t)) \in Nat
      /\ Capacity * Cardinality(S) + RefillPerTick * (now - t) \in Nat
  <2>1. Cardinality(ActedBy(S, t)) \in Nat /\ Cardinality(S) \in Nat
    BY <1>4, ActedSets, RunSets
  <2>2. now - t \in Nat
    BY <1>5, BotBucket
  <2>3. Capacity * Cardinality(S) \in Nat /\ RefillPerTick * (now - t) \in Nat
    BY <2>1, <2>2, BotBucket, Products
  <2>4. TokenUnit * count \in Nat /\ TokenUnit * Cardinality(ActedBy(S, t)) \in Nat
    BY <1>4, <2>1, BotBucket, Products
  <2> QED
    BY <2>3, <2>4
<1>9. TokenUnit * count <= Capacity * Cardinality(S) + RefillPerTick * (now - t)
  BY <1>6, <1>7, <1>8
<1> QED
  BY <1>1, <1>2, <1>3, <1>9

TailsPaid ==
    \A i \in 1 .. Len(posted) : \A oldest \in i .. Len(posted) :
        (\A k \in i .. Len(posted) : Decided(oldest) <= Decided(k))
            => TokenUnit * (Len(posted) - i + 1)
                  <= Capacity * Cardinality({posted[k].run : k \in i .. Len(posted)})
                       + RefillPerTick * (now - Decided(oldest))

LEMMA TailsArePaid == BotShape /\ Accounts => TailsPaid
BY TailPaid DEF TailsPaid

LEMMA RatePost ==
    ASSUME BotShape, TailsPaid', OldestInTail, PostedRate, NEW d \in Deliveries, Post(d)
    PROVE  OldestInTail' /\ PostedRate'
<1>0. PICK n : n = Len(posted)
  OBVIOUS
<1>1. /\ UNCHANGED <<coreVars, decidedAt>>
      /\ n \in Nat /\ Len(posted') = n + 1
      /\ \A k \in 1 .. n : posted'[k] = posted[k]
      /\ posted'[n + 1] = [delivery |-> d, at |-> now, run |-> Run]
  BY <1>0, PostMoves
<1>2. /\ posted'[n + 1].at = now' /\ now' = now
      /\ \A k \in 1 .. n : Decided(k)' = Decided(k) /\ Decided(k) \in Nat
      /\ Decided(n + 1)' \in Nat
  <2>1. posted'[n + 1].at = now' /\ now' = now /\ Decided(n + 1)' = decidedAt[d]
    BY <1>1 DEF coreVars, Decided
  <2>2. \A k \in 1 .. n : Decided(k)' = Decided(k) /\ Decided(k) \in Nat
    BY <1>0, <1>1, PostType DEF Decided
  <2> QED
    BY <2>1, <2>2, BotTaskType
<1>3. \A i \in 1 .. n + 1 : \A k \in i .. n + 1 : k \in i .. n \/ k = n + 1
  BY <1>1
<1>4. ASSUME NEW i \in 1 .. n + 1
      PROVE  \E oldest \in i .. n + 1 : \A k \in i .. n + 1 : Decided(oldest)' <= Decided(k)'
  <2>1. CASE i = n + 1
    <3>1. n + 1 \in i .. n + 1 /\ \A k \in i .. n + 1 : k = n + 1
      BY <1>1, <2>1
    <3>2. \A k \in i .. n + 1 : Decided(n + 1)' <= Decided(k)'
      BY <1>2, <3>1
    <3> QED
      BY <3>1, <3>2
  <2>2. CASE i \in 1 .. n
    <3>1. PICK oldest \in i .. n : \A k \in i .. n : Decided(oldest) <= Decided(k)
      BY <1>0, <2>2 DEF OldestInTail
    <3>2. \A k \in i .. n : k \in 1 .. n /\ k \in i .. n + 1
      BY <1>1, <2>2
    <3>3. oldest \in i .. n + 1 /\ n + 1 \in i .. n + 1
      BY <1>1, <2>2, <3>2
    <3>4. CASE Decided(oldest)' <= Decided(n + 1)'
      <4>1. \A k \in i .. n + 1 : Decided(oldest)' <= Decided(k)'
        BY <1>2, <1>3, <3>1, <3>2, <3>4
      <4> QED
        BY <3>3, <4>1
    <3>5. CASE ~(Decided(oldest)' <= Decided(n + 1)')
      <4>1. \A k \in i .. n + 1 : Decided(n + 1)' <= Decided(k)'
        BY <1>2, <1>3, <3>1, <3>2, <3>5
      <4> QED
        BY <3>3, <4>1
    <3> QED
      BY <3>4, <3>5
  <2> QED
    BY <1>1, <2>1, <2>2
<1>5. OldestInTail'
  BY <1>1, <1>4 DEF OldestInTail
<1>6. ASSUME NEW i \in 1 .. n + 1, NEW j \in 1 .. n + 1, i <= j
      PROVE  \E oldest \in i .. j :
                TokenUnit * (j - i + 1)
                    <= Capacity * Cardinality({posted'[k].run : k \in i .. j})
                         + RefillPerTick * (posted'[j].at - Decided(oldest)')
  <2>1. CASE j \in 1 .. n
    <3>1. i \in 1 .. n /\ \A k \in i .. j : k \in 1 .. n
      BY <1>1, <1>6, <2>1
    <3>2. PICK oldest \in i .. j :
             TokenUnit * (j - i + 1)
                 <= Capacity * Cardinality({posted[k].run : k \in i .. j})
                      + RefillPerTick * (posted[j].at - Decided(oldest))
      BY <1>0, <1>6, <2>1, <3>1 DEF PostedRate
    <3>3. {posted'[k].run : k \in i .. j} = {posted[k].run : k \in i .. j}
      BY <1>1, <3>1
    <3>4. Decided(oldest)' = Decided(oldest) /\ posted'[j].at = posted[j].at
      BY <1>1, <1>2, <2>1, <3>1
    <3> QED
      BY <3>2, <3>3, <3>4
  <2>2. CASE j = n + 1
    <3>1. PICK oldest \in i .. j : \A k \in i .. j : Decided(oldest)' <= Decided(k)'
      BY <1>4, <2>2
    <3>2. Len(posted') = j /\ i \in 1 .. j /\ posted'[j].at = now'
      BY <1>1, <1>2, <2>2
    <3>3. TokenUnit * (j - i + 1)
             <= Capacity * Cardinality({posted'[k].run : k \in i .. j})
                  + RefillPerTick * (now' - Decided(oldest)')
      BY <3>1, <3>2 DEF TailsPaid
    <3> QED
      BY <3>2, <3>3
  <2>3. j \in 1 .. n \/ j = n + 1
    BY <1>1
  <2> QED
    BY <2>1, <2>2, <2>3, Zenon
<1>7. PostedRate'
  BY <1>1, <1>6, Zenon DEF PostedRate
<1> QED
  BY <1>5, <1>7

\* Tokens are taken at the decision and requests are made later, in any order, and every start
\* fills a bucket: still any stretch of requests is paid for by one burst for each process
\* that made some of them and the refill since the oldest decision.
THEOREM RequestsArePaid == BotSpec => []PostedRate
<1>1. BotInit => Accounts /\ OldestInTail /\ PostedRate
  <2> SUFFICES ASSUME BotInit PROVE Accounts /\ OldestInTail /\ PostedRate
    OBVIOUS
  <2>1. BotShape
    BY BotShapeInit
  <2>2. Len(posted) = 0 /\ Backlog = {}
    BY DEF BotInit, Backlog, IdleTask
  <2>3. ASSUME NEW S, NEW t PROVE ActedBy(S, t) = {}
    BY <2>2 DEF ActedBy
  <2>4. RefilledSince /\ OldestInTail /\ PostedRate
    BY <2>2, <2>3 DEF RefilledSince, OldestInTail, PostedRate
  <2>5. ASSUME NEW S \in SUBSET (1 .. Run), NEW t \in 0 .. bucket.lastRefill PROVE Account(S, t)
    <3>1. Cardinality(ActedBy(S, t)) = 0
      BY <2>3, FS_EmptySet
    <3>2. TokenUnit * 0 = 0 /\ Capacity * Cardinality(S) \in Nat
      BY <2>1, RunSets, BotBucket, Products
    <3>3. Capacity * Cardinality(S) >= TokensOf(S)
      <4>1. CASE Run \in S
        <5>1. Cardinality(S) >= 1 /\ Cardinality(S) \in Nat
          BY <2>1, <4>1, RunSets
        <5>2. Capacity * 1 <= Capacity * Cardinality(S) /\ Capacity * 1 = Capacity
          BY <2>1, <5>1, BotBucket, Products, ProductsGrow
        <5>3. TokensOf(S) <= Capacity /\ TokensOf(S) \in Nat
          BY <2>1, <4>1, BotBucket DEF TokensOf
        <5> QED
          BY <2>1, <3>2, <5>2, <5>3, BotBucket
      <4>2. CASE Run \notin S
        BY <3>2, <4>2 DEF TokensOf
      <4> QED
        BY <4>1, <4>2
    <3>4. RefillPerTick * (bucket.lastRefill - t) \in Nat
      <4>1. bucket.lastRefill - t \in Nat
        BY <2>1, BotBucket
      <4> QED
        BY <2>1, <4>1, BotBucket, Products
    <3>5. TokensOf(S) \in Nat
      BY <2>1, BotBucket DEF TokensOf
    <3> QED
      BY <3>1, <3>2, <3>3, <3>4, <3>5 DEF Account
  <2> QED
    BY <2>4, <2>5 DEF Accounts
<1>2. BotShape /\ Accounts /\ [BotNext]_botVars => Accounts'
  BY BotStepKinds, AccountsQuiet, AccountsRestart, AccountsDecide, AccountsPost
<1>3. BotShape /\ OldestInTail /\ PostedRate /\ TailsPaid' /\ [BotNext]_botVars
         => OldestInTail' /\ PostedRate'
  <2> SUFFICES ASSUME BotShape, OldestInTail, PostedRate, TailsPaid', [BotNext]_botVars
               PROVE  OldestInTail' /\ PostedRate'
    OBVIOUS
  <2>1. CASE Quiet \/ Restart
    <3>1. posted' = posted
      BY <2>1, RestartMoves DEF Quiet
    <3>2. \A k \in 1 .. Len(posted) : Decided(k)' = Decided(k)
      BY <2>1, PostedKeeps
    <3> QED
      BY <3>1, <3>2, RateKept
  <2>2. ASSUME NEW d \in Deliveries, BotDecides(d) PROVE OldestInTail' /\ PostedRate'
    <3>1. /\ posted' = posted /\ tasks[d].step = "Idle"
          /\ decidedAt' = [decidedAt EXCEPT ![d] = now]
      BY <2>2, DecideMovesBot
    <3>2. ASSUME NEW k \in 1 .. Len(posted) PROVE Decided(k)' = Decided(k)
      <4>1. posted[k].delivery \in Deliveries /\ posted[k].delivery # d
        BY <3>1, PostType DEF PostShape, Posted
      <4> QED
        BY <3>1, <4>1 DEF Decided, BotShape
    <3> QED
      BY <3>1, <3>2, RateKept
  <2>3. ASSUME NEW d \in Deliveries, Post(d) PROVE OldestInTail' /\ PostedRate'
    BY <2>3, RatePost
  <2> QED
    BY <2>1, <2>2, <2>3, BotStepKinds
<1> QED
  BY <1>1, <1>2, <1>3, TailsArePaid, BotShapeHolds, PTL DEF BotSpec
=============================================================================
