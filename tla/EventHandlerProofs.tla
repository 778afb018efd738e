------------------------- MODULE EventHandlerProofs -------------------------
(***************************************************************************)
(* The tasks of the event handler, for every set of deliveries and every   *)
(* value of the governor's constants: whatever order they take the locks   *)
(* in, they use the governor as its own specification allows, no answer is *)
(* lost between two of them, and the rows they write are true.             *)
(***************************************************************************)
EXTENDS EventHandler, TrustedCoreProofs

----------------------------------------------------------------------------
(* What each step of a task knows, and that the tasks use the governor well. *)

TaskShape(d) ==
    /\ tasks[d].step \in {"ReadDetection", "RecordDecision", "Apply", "Waiting",
                          "ReportStatus", "RecordSent"} => tasks[d].msg \in MsgIds
    /\ tasks[d].step = "Idle" => tasks[d].action = "Noop"
    /\ tasks[d].step \in {"Idle", "ReadDetection", "RecordDecision", "Apply", "Waiting"}
          => tasks[d].answer = NoAnswer
    /\ tasks[d].step = "ReportStatus" => tasks[d].answer \in HttpStatuses
    /\ tasks[d].step = "RecordSent" => tasks[d].answer = Success /\ auditOpen
    /\ tasks[d].step \in {"ReadDetection", "RecordDecision"} => auditOpen

\* TypeOK is part of it: the tasks copy what the governor returns.
HandlerInv ==
    /\ TypeOK /\ HandlerTypeOK
    /\ \A d \in Deliveries : TaskShape(d)

Task == [step : Steps, msg : MsgIds \cup {NoMessage}, action : BotActions,
         detection : MsgIds \cup {NoMessage}, answer : Answers \cup {NoAnswer}]

\* A step of one task leaves the others alone.
OneTask(d, task) ==
    /\ tasks'[d] = task
    /\ tasks' \in [Deliveries -> Task]
    /\ \A e \in Deliveries : e # d => tasks'[e] = tasks[e]

LEMMA SetTask ==
    ASSUME HandlerInv, NEW d \in Deliveries, NEW task \in Task,
           tasks' = [tasks EXCEPT ![d] = task]
    PROVE  OneTask(d, task)
<1>1. tasks \in [Deliveries -> Task]
  BY DEF HandlerInv, HandlerTypeOK, Task
<1> QED
  BY <1>1 DEF OneTask

\* The types of a task's fields.
LEMMA TaskType ==
    ASSUME HandlerInv, NEW d \in Deliveries
    PROVE  /\ tasks[d] \in Task /\ TaskShape(d) /\ tasks \in [Deliveries -> Task]
           /\ tasks[d].step \in {"Apply", "Waiting", "ReportStatus", "RecordSent"}
                 => tasks[d].action # "Noop"
BY DEF HandlerInv, HandlerTypeOK, Task

\* What the governor returns is what happens next to the delivery.
DecidedTask(d, m) ==
    [step |-> IF auditOpen THEN "ReadDetection"
              ELSE IF verdict' \in Outbound THEN "Apply" ELSE "Done",
     msg |-> m, action |-> IF verdict' \in Outbound THEN verdict' ELSE "Noop",
     detection |-> NoMessage, answer |-> NoAnswer]

LEMMA DecideMoves ==
    ASSUME HandlerInv, NEW d \in Deliveries, Decide(d)
    PROVE  /\ tasks[d].step = "Idle" /\ UNCHANGED <<auditOpen, rows, warned>>
           /\ \E m \in MsgIds : DecideMessage(m) /\ OneTask(d, DecidedTask(d, m))
<1>1. PICK m \in MsgIds :
        /\ tasks[d].step = "Idle" /\ DecideMessage(m)
        /\ tasks' = [tasks EXCEPT ![d] = DecidedTask(d, m)]
        /\ UNCHANGED <<auditOpen, rows, warned>>
  BY DEF Decide, DecidedTask, IdleTask
<1>2. DecidedTask(d, m) \in Task
  BY DEF DecidedTask, Task, Steps, BotActions
<1> QED
  BY <1>1, <1>2, SetTask

\* The other steps, each with the task it leaves.
LEMMA ReadDetectionMoves ==
    ASSUME HandlerInv, NEW d \in Deliveries, ReadDetection(d)
    PROVE  /\ tasks[d].step = "ReadDetection" /\ UNCHANGED <<coreVars, auditOpen, rows, warned>>
           /\ OneTask(d, [tasks[d] EXCEPT !.detection = lastDetection, !.step = "RecordDecision"])
<1>1. [tasks[d] EXCEPT !.detection = lastDetection, !.step = "RecordDecision"] \in Task
  BY TaskType DEF Task, Steps, HandlerInv, TypeOK
<1>2. tasks' = [tasks EXCEPT ![d] = [tasks[d] EXCEPT !.detection = lastDetection,
                                                     !.step = "RecordDecision"]]
  BY TaskType DEF ReadDetection
<1> QED
  BY <1>1, <1>2, SetTask DEF ReadDetection

LEMMA GoToMoves ==
    ASSUME HandlerInv, NEW d \in Deliveries, NEW step \in Steps, GoTo(d, step)
    PROVE  OneTask(d, [tasks[d] EXCEPT !.step = step])
<1>1. [tasks[d] EXCEPT !.step = step] \in Task
  BY TaskType DEF Task
<1>2. tasks' = [tasks EXCEPT ![d] = [tasks[d] EXCEPT !.step = step]]
  BY TaskType DEF GoTo
<1> QED
  BY <1>1, <1>2, SetTask

LEMMA AnswerMoves ==
    ASSUME HandlerInv, NEW d \in Deliveries, ReceiveAnswer(d)
    PROVE  /\ tasks[d].step = "Waiting" /\ UNCHANGED <<coreVars, auditOpen, rows, warned>>
           /\ \E answer \in Answers :
                 OneTask(d, [tasks[d] EXCEPT !.answer = answer, !.step = AfterAnswer(answer)])
<1>1. PICK answer \in Answers :
         tasks' = [tasks EXCEPT ![d].answer = answer, ![d].step = AfterAnswer(answer)]
  BY DEF ReceiveAnswer
<1>2. AfterAnswer(answer) \in Steps
  BY DEF AfterAnswer, Steps
<1>3. [tasks[d] EXCEPT !.answer = answer, !.step = AfterAnswer(answer)] \in Task
  BY <1>2, TaskType DEF Task
<1>4. tasks' = [tasks EXCEPT ![d] = [tasks[d] EXCEPT !.answer = answer,
                                                     !.step = AfterAnswer(answer)]]
  BY <1>1, TaskType
<1> QED
  BY <1>3, <1>4, SetTask DEF ReceiveAnswer

\* The row a task inserts, or fails to insert.
LEMMA InsertType ==
    ASSUME HandlerInv, auditOpen, auditOpen' = auditOpen, NEW row \in Rows, InsertRow(row)
    PROVE  rows' \in Seq(Rows) /\ warned' \subseteq Rows /\ (~auditOpen' => rows' = <<>> /\ warned' = {})
BY DEF InsertRow, HandlerInv, HandlerTypeOK

LEMMA DecisionRowType ==
    ASSUME HandlerInv, NEW d \in Deliveries, tasks[d].step = "RecordDecision"
    PROVE  DecisionRow(d) \in Rows /\ auditOpen
BY TaskType DEF DecisionRow, Rows, TaskShape, Task

LEMMA SentRowType ==
    ASSUME HandlerInv, NEW d \in Deliveries, tasks[d].step = "RecordSent"
    PROVE  SentRow(d) \in Rows /\ auditOpen
BY TaskType DEF SentRow, Rows, TaskShape

\* A task calls the governor's methods with arguments the governor expects: the status it
\* reports is one that an answer can carry.
LEMMA TaskUsesCore ==
    ASSUME HandlerInv, [HandlerNext]_allVars
    PROVE  [Next]_coreVars
<1>1. CASE HandlerTick
  BY <1>1 DEF HandlerTick, Next
<1>2. ASSUME NEW d \in Deliveries, Decide(d) PROVE Next
  BY <1>2 DEF Decide, Next
<1>3. ASSUME NEW d \in Deliveries, ReportStatus(d) PROVE Next
  <2>1. RecordHttpStatus(tasks[d].answer) /\ tasks[d].answer \in HttpStatuses
    BY <1>3, TaskType DEF ReportStatus, TaskShape
  <2> QED
    BY <2>1 DEF Next
<1>4. ASSUME NEW d \in Deliveries,
             \/ ReadDetection(d) \/ RecordDecision(d) \/ Apply(d) \/ ReceiveAnswer(d)
             \/ RecordSent(d)
      PROVE  UNCHANGED coreVars
  BY <1>4 DEF ReadDetection, RecordDecision, Apply, ReceiveAnswer, RecordSent
<1>5. CASE UNCHANGED allVars
  BY <1>5 DEF allVars
<1> QED
  BY <1>1, <1>2, <1>3, <1>4, <1>5 DEF HandlerNext, Continue

\* The step that one task takes, as what it changes.
Changes(d, task) ==
    /\ OneTask(d, task) /\ TypeOK' /\ auditOpen' = auditOpen
    /\ rows' \in Seq(Rows) /\ warned' \subseteq Rows
    /\ ~auditOpen => rows' = <<>> /\ warned' = {}

\* Any step of a task keeps the invariant if it leaves that task in shape.
LEMMA OneInShape ==
    ASSUME HandlerInv, NEW d \in Deliveries, NEW task \in Task, Changes(d, task),
           task.step \in {"Apply", "Waiting", "ReportStatus", "RecordSent"}
              => task.action # "Noop",
           TaskShape(d)'
    PROVE  HandlerInv'
<1>1. ASSUME NEW e \in Deliveries
      PROVE  /\ TaskShape(e)'
             /\ tasks'[e].step \in {"Apply", "Waiting", "ReportStatus", "RecordSent"}
                   => tasks'[e].action # "Noop"
  <2>1. CASE e = d
    BY <2>1 DEF Changes, OneTask
  <2>2. CASE e # d
    <3>1. tasks'[e] = tasks[e] /\ auditOpen' = auditOpen
      BY <2>2 DEF Changes, OneTask
    <3> QED
      BY <3>1, TaskType DEF TaskShape
  <2> QED
    BY <2>1, <2>2
<1> QED
  BY <1>1 DEF Changes, OneTask, HandlerInv, HandlerTypeOK, Task

LEMMA HandlerInvStep ==
    ASSUME HandlerInv, [HandlerNext]_allVars
    PROVE  HandlerInv'
<1>t. TypeOK'
  BY TaskUsesCore, TypeStep DEF HandlerInv
<1>r. rows \in Seq(Rows) /\ warned \subseteq Rows /\ (~auditOpen => rows = <<>> /\ warned = {})
  BY DEF HandlerInv, HandlerTypeOK
<1>1. CASE HandlerTick \/ UNCHANGED allVars
  <2>1. UNCHANGED handlerVars
    BY <1>1 DEF HandlerTick, allVars
  <2> QED
    BY <1>t, <2>1 DEF HandlerInv, HandlerTypeOK, TaskShape, handlerVars
<1>2. ASSUME NEW d \in Deliveries, Decide(d) PROVE HandlerInv'
  <2>1. PICK m \in MsgIds : OneTask(d, DecidedTask(d, m))
    BY <1>2, DecideMoves
  <2>2. UNCHANGED <<auditOpen, rows, warned>>
    BY <1>2, DecideMoves
  <2> DEFINE task == DecidedTask(d, m)
  <2>3. tasks'[d] = task /\ task \in Task /\ Changes(d, task)
    BY <1>t, <1>r, <2>1, <2>2 DEF OneTask, Changes
  <2>4. /\ task.step \in {"Apply", "Waiting", "ReportStatus", "RecordSent"} => task.action # "Noop"
        /\ TaskShape(d)'
    BY <2>2, <2>3 DEF DecidedTask, TaskShape, Outbound, Sends
  <2> QED
    BY <2>3, <2>4, OneInShape
<1>3. ASSUME NEW d \in Deliveries, ReadDetection(d) PROVE HandlerInv'
  <2> DEFINE task == [tasks[d] EXCEPT !.detection = lastDetection, !.step = "RecordDecision"]
  <2>1. /\ tasks[d].step = "ReadDetection" /\ UNCHANGED <<auditOpen, rows, warned>>
        /\ OneTask(d, task)
    BY <1>3, ReadDetectionMoves
  <2>2. tasks'[d] = task /\ task \in Task /\ Changes(d, task)
    BY <1>t, <1>r, <2>1 DEF OneTask, Changes
  <2>3. /\ task.step = "RecordDecision" /\ task.msg = tasks[d].msg
        /\ task.answer = tasks[d].answer
    BY TaskType DEF Task
  <2> HIDE DEF task
  <2>4. TaskShape(d)'
    BY <2>1, <2>2, <2>3, TaskType DEF TaskShape
  <2> QED
    BY <2>2, <2>3, <2>4, OneInShape
<1>4. ASSUME NEW d \in Deliveries, NEW step \in Steps, GoTo(d, step), Changes(d, tasks'[d]),
             step \in {"Apply", "Waiting", "RecordSent"} => tasks[d].action # "Noop",
             step \in {"Apply", "Waiting"} => tasks[d].answer = NoAnswer,
             step \in {"Apply", "Waiting"} => tasks[d].msg \in MsgIds,
             step \in {"Apply", "Waiting", "Done"}
      PROVE  HandlerInv'
  <2> DEFINE task == [tasks[d] EXCEPT !.step = step]
  <2>1. OneTask(d, task)
    BY <1>4, GoToMoves
  <2>2. tasks'[d] = task /\ task \in Task /\ Changes(d, task)
    BY <1>4, <2>1 DEF OneTask
  <2>3. /\ task.step = step /\ task.msg = tasks[d].msg /\ task.action = tasks[d].action
        /\ task.answer = tasks[d].answer
    BY TaskType DEF Task
  <2> HIDE DEF task
  <2>4. TaskShape(d)'
    BY <1>4, <2>2, <2>3 DEF TaskShape
  <2> QED
    BY <1>4, <2>2, <2>3, <2>4, OneInShape
<1>5. ASSUME NEW d \in Deliveries, RecordDecision(d) PROVE HandlerInv'
  <2>1. /\ tasks[d].step = "RecordDecision" /\ auditOpen' = auditOpen
        /\ InsertRow(DecisionRow(d)) /\ GoTo(d, IF tasks[d].action = "Noop" THEN "Done" ELSE "Apply")
    BY <1>5 DEF RecordDecision
  <2>2. PICK step \in {"Apply", "Done"} :
           GoTo(d, step) /\ (step = "Apply" => tasks[d].action # "Noop")
    BY <2>1
  <2>3. step \in Steps
    BY DEF Steps
  <2>4. OneTask(d, tasks'[d])
    BY <2>2, <2>3, GoToMoves DEF OneTask
  <2>5. Changes(d, tasks'[d])
    BY <1>t, <2>1, <2>4, DecisionRowType, InsertType DEF Changes
  <2> QED
    BY <1>4, <2>1, <2>2, <2>3, <2>5, TaskType DEF TaskShape
<1>6. ASSUME NEW d \in Deliveries, Apply(d) PROVE HandlerInv'
  <2>1. "Waiting" \in Steps /\ GoTo(d, "Waiting") /\ tasks[d].step = "Apply"
    BY <1>6 DEF Apply, Steps
  <2>2. Changes(d, tasks'[d])
    BY <1>t, <1>r, <1>6, <2>1, GoToMoves DEF Apply, Changes, OneTask
  <2> QED
    BY <1>4, <2>1, <2>2, TaskType DEF TaskShape
<1>7. ASSUME NEW d \in Deliveries, ReceiveAnswer(d) PROVE HandlerInv'
  <2>1. tasks[d].step = "Waiting" /\ UNCHANGED <<auditOpen, rows, warned>>
    BY <1>7, AnswerMoves
  <2>2. PICK answer \in Answers :
           OneTask(d, [tasks[d] EXCEPT !.answer = answer, !.step = AfterAnswer(answer)])
    BY <1>7, AnswerMoves
  <2> DEFINE task == [tasks[d] EXCEPT !.answer = answer, !.step = AfterAnswer(answer)]
  <2>3. tasks'[d] = task /\ task \in Task /\ Changes(d, task)
    BY <1>t, <1>r, <2>1, <2>2 DEF OneTask, Changes
  <2>4. /\ task.step = AfterAnswer(answer) /\ task.msg = tasks[d].msg
        /\ task.action = tasks[d].action /\ task.answer = answer
    BY TaskType DEF Task
  <2> HIDE DEF task
  <2>5. /\ AfterAnswer(answer) \in {"RecordSent", "Done", "ReportStatus"}
        /\ AfterAnswer(answer) = "RecordSent" => answer = Success /\ auditOpen
        /\ AfterAnswer(answer) = "ReportStatus" => answer \in HttpStatuses
    BY DEF AfterAnswer, Answers
  <2>6. TaskShape(d)'
    BY <2>1, <2>3, <2>4, <2>5, TaskType DEF TaskShape
  <2> QED
    BY <2>1, <2>3, <2>4, <2>6, OneInShape, TaskType
<1>8. ASSUME NEW d \in Deliveries, ReportStatus(d) \/ RecordSent(d) PROVE HandlerInv'
  <2>1. "Done" \in Steps /\ GoTo(d, "Done") /\ auditOpen' = auditOpen
    BY <1>8 DEF ReportStatus, RecordSent, Steps
  <2>2. rows' \in Seq(Rows) /\ warned' \subseteq Rows /\ (~auditOpen => rows' = <<>> /\ warned' = {})
    BY <1>r, <1>8, SentRowType, InsertType DEF ReportStatus, RecordSent
  <2>3. Changes(d, tasks'[d])
    BY <1>t, <2>1, <2>2, GoToMoves DEF Changes, OneTask
  <2> QED
    BY <1>4, <2>1, <2>3
<1> QED
  BY <1>1, <1>2, <1>3, <1>5, <1>6, <1>7, <1>8 DEF HandlerNext, Continue

LEMMA HandlerInvInit == HandlerInit => HandlerInv
<1> SUFFICES ASSUME HandlerInit PROVE HandlerInv
  OBVIOUS
<1>1. TypeOK
  BY InitType DEF HandlerInit
<1>2. IdleTask \in Task
  BY DEF IdleTask, Task, Steps, BotActions
<1>3. tasks \in [Deliveries -> Task] /\ \A d \in Deliveries : tasks[d] = IdleTask
  BY <1>2 DEF HandlerInit
<1>4. rows \in Seq(Rows) /\ warned \subseteq Rows /\ rows = <<>> /\ warned = {}
  BY DEF HandlerInit
<1>5. \A d \in Deliveries : TaskShape(d) /\ tasks[d].step = "Idle"
  BY <1>3 DEF IdleTask, TaskShape
<1> QED
  BY <1>1, <1>3, <1>4, <1>5 DEF HandlerInv, HandlerTypeOK, Task

LEMMA HandlerInvHolds == HandlerSpec => []HandlerInv
<1>1. HandlerInv /\ [HandlerNext]_allVars => HandlerInv'
  BY HandlerInvStep
<1> QED
  BY <1>1, HandlerInvInit, PTL DEF HandlerSpec

\* The rows, the tasks and what they carry keep their types; and whatever the tasks do, only
\* one with an action to perform gets to perform it.
THEOREM HandlerTypesCorrect == HandlerSpec => []HandlerTypeOK
<1>1. HandlerInv => HandlerTypeOK
  BY DEF HandlerInv
<1> QED
  BY <1>1, HandlerInvHolds, PTL

\* However the tasks' critical sections interleave, the governor sees one of its own
\* behaviours: every theorem about it holds in the running bot.
THEOREM TasksKeepCoreSpec == HandlerSpec => Spec
<1>1. HandlerInit => Init
  BY DEF HandlerInit
<1>2. HandlerInv /\ [HandlerNext]_allVars => [Next]_coreVars
  BY TaskUsesCore
<1> QED
  BY <1>1, <1>2, HandlerInvHolds, PTL DEF HandlerSpec, Spec

----------------------------------------------------------------------------
(* The failures on their way to the breaker. *)

FailedTasks == {d \in Deliveries : Failed(d)}
Reporting == {d \in Deliveries : Failed(d) /\ tasks[d].step = "ReportStatus"}

LEMMA FailedFinite ==
    /\ IsFiniteSet(FailedTasks) /\ IsFiniteSet(Reporting)
    /\ Cardinality(FailedTasks) \in Nat /\ Cardinality(Reporting) \in Nat
<1>1. FailedTasks \in SUBSET Deliveries /\ Reporting \in SUBSET Deliveries
  BY DEF FailedTasks, Reporting
<1>2. IsFiniteSet(Deliveries)
  BY EventHandlerAssumption
<1>3. IsFiniteSet(FailedTasks) /\ IsFiniteSet(Reporting)
  BY <1>1, <1>2, FS_Subset
<1> QED
  BY <1>3, FS_CardinalityType

LEMMA FailedFiniteNext == IsFiniteSet(FailedTasks') /\ IsFiniteSet(Reporting')
<1>1. FailedTasks' \in SUBSET Deliveries /\ Reporting' \in SUBSET Deliveries
  BY DEF FailedTasks, Reporting
<1> QED
  BY <1>1, EventHandlerAssumption, FS_Subset

\* decide_message tells the breaker nothing.
LEMMA DecideKeepsHttp ==
    ASSUME NEW m \in MsgIds, DecideMessage(m)
    PROVE  UNCHANGED httpFailures
BY DEF DecideMessage, RefuseMessage, DropDuplicate, EvaluateMessage

\* A task that neither gets an answer nor reports one changes neither set.
LEMMA FailuresKept ==
    ASSUME HandlerInv, NoFailureLost, NEW d \in Deliveries, NEW task \in Task,
           OneTask(d, task), UNCHANGED httpFailures,
           ~Failed(d) \/ tasks[d].step # "ReportStatus", task.answer = tasks[d].answer,
           ~Failed(d) \/ task.step # "ReportStatus"
    PROVE  NoFailureLost'
<1>1. FailedTasks' = FailedTasks /\ Reporting' = Reporting
  <2>1. ASSUME NEW e \in Deliveries
        PROVE  (Failed(e)' <=> Failed(e)) /\ (e \in Reporting' <=> e \in Reporting)
    <3>1. CASE e = d
      BY <3>1 DEF OneTask, Failed, Reporting
    <3>2. CASE e # d
      BY <3>2 DEF OneTask, Failed, Reporting
    <3> QED
      BY <3>1, <3>2
  <2> QED
    BY <2>1 DEF FailedTasks, Reporting
<1> QED
  BY <1>1 DEF NoFailureLost, FailedTasks, Reporting

LEMMA FailuresStep ==
    ASSUME HandlerInv, HandlerInv', NoFailureLost, [HandlerNext]_allVars
    PROVE  NoFailureLost'
<1>t. httpFailures \in Seq(Nat) /\ Len(httpFailures) \in Nat
  BY DEF HandlerInv, TypeOK
<1>n. Len(httpFailures) + Cardinality(Reporting) = Cardinality(FailedTasks)
  BY DEF NoFailureLost, Reporting, FailedTasks
<1>1. CASE HandlerTick \/ UNCHANGED allVars
  <2>1. UNCHANGED <<tasks, httpFailures>>
    BY <1>1 DEF HandlerTick, Tick, handlerVars, allVars, coreVars
  <2> QED
    BY <2>1 DEF NoFailureLost, Failed
<1>2. ASSUME NEW d \in Deliveries, Decide(d) PROVE NoFailureLost'
  <2>1. PICK m \in MsgIds : DecideMessage(m) /\ OneTask(d, DecidedTask(d, m))
    BY <1>2, DecideMoves
  <2>2. DecidedTask(d, m) \in Task /\ DecidedTask(d, m).answer = NoAnswer
    BY <2>1 DEF OneTask, DecidedTask
  <2>3. tasks[d].answer = NoAnswer /\ ~Failed(d)
    BY <1>2, TaskType, DecideMoves DEF TaskShape, Failed, CountedStatuses, NoAnswer
  <2> QED
    BY <2>1, <2>2, <2>3, DecideKeepsHttp, FailuresKept
<1>3. ASSUME NEW d \in Deliveries, ReadDetection(d) PROVE NoFailureLost'
  <2> DEFINE task == [tasks[d] EXCEPT !.detection = lastDetection, !.step = "RecordDecision"]
  <2>1. tasks[d].step = "ReadDetection" /\ UNCHANGED httpFailures /\ OneTask(d, task)
    BY <1>3, ReadDetectionMoves DEF coreVars
  <2>2. task \in Task /\ task.step = "RecordDecision" /\ task.answer = tasks[d].answer
    BY <2>1, TaskType DEF OneTask, Task
  <2> QED
    BY <2>1, <2>2, FailuresKept
<1>4. ASSUME NEW d \in Deliveries, RecordDecision(d) \/ Apply(d) \/ RecordSent(d)
      PROVE  NoFailureLost'
  <2>1. PICK step \in {"Done", "Apply", "Waiting"} : GoTo(d, step)
    BY <1>4 DEF RecordDecision, Apply, RecordSent
  <2>2. tasks[d].step # "ReportStatus" /\ UNCHANGED httpFailures
    BY <1>4 DEF RecordDecision, Apply, RecordSent, coreVars
  <2> DEFINE task == [tasks[d] EXCEPT !.step = step]
  <2>3. step \in Steps /\ step # "ReportStatus"
    BY DEF Steps
  <2>4. OneTask(d, task)
    BY <2>1, <2>3, GoToMoves
  <2>5. task \in Task /\ task.step = step /\ task.answer = tasks[d].answer
    BY <2>3, TaskType DEF Task
  <2> QED
    BY <2>2, <2>3, <2>4, <2>5, FailuresKept
<1>5. ASSUME NEW d \in Deliveries, ReceiveAnswer(d) PROVE NoFailureLost'
  <2>1. tasks[d].step = "Waiting" /\ UNCHANGED httpFailures
    BY <1>5, AnswerMoves DEF coreVars
  <2>2. PICK answer \in Answers :
           OneTask(d, [tasks[d] EXCEPT !.answer = answer, !.step = AfterAnswer(answer)])
    BY <1>5, AnswerMoves
  <2>3. ~Failed(d) /\ d \notin Reporting /\ d \notin FailedTasks
    BY <2>1, TaskType DEF TaskShape, Failed, Reporting, FailedTasks, NoAnswer, CountedStatuses
  <2>4. tasks'[d].answer = answer /\ tasks'[d].step = AfterAnswer(answer)
    BY <2>2, TaskType DEF OneTask, Task
  <2>5. \A e \in Deliveries : e # d => tasks'[e] = tasks[e]
    BY <2>2 DEF OneTask
  <2>6. CASE answer \in CountedStatuses
    <3>1. AfterAnswer(answer) = "ReportStatus"
      BY <2>6 DEF AfterAnswer, CountedStatuses, Success, NoStatus
    <3>2. FailedTasks' = FailedTasks \cup {d} /\ Reporting' = Reporting \cup {d}
      BY <2>4, <2>5, <2>6, <3>1 DEF FailedTasks, Reporting, Failed
    <3>3. /\ Cardinality(FailedTasks') = Cardinality(FailedTasks) + 1
          /\ Cardinality(Reporting') = Cardinality(Reporting) + 1
      BY <2>3, <3>2, FailedFinite, FS_AddElement
    <3>4. Len(httpFailures') + Cardinality(Reporting') = Cardinality(FailedTasks')
      BY <1>t, <1>n, <2>1, <3>3, FailedFinite
    <3> QED
      BY <3>4 DEF NoFailureLost, Reporting, FailedTasks
  <2>7. CASE answer \notin CountedStatuses
    <3>1. FailedTasks' = FailedTasks /\ Reporting' = Reporting
      BY <2>3, <2>4, <2>5, <2>7 DEF FailedTasks, Reporting, Failed
    <3>2. Len(httpFailures') + Cardinality(Reporting') = Cardinality(FailedTasks')
      BY <1>n, <2>1, <3>1
    <3> QED
      BY <3>2 DEF NoFailureLost, Reporting, FailedTasks
  <2> QED
    BY <2>6, <2>7
<1>6. ASSUME NEW d \in Deliveries, ReportStatus(d) PROVE NoFailureLost'
  <2>1. /\ tasks[d].step = "ReportStatus" /\ RecordHttpStatus(tasks[d].answer)
        /\ GoTo(d, "Done") /\ "Done" \in Steps
    BY <1>6 DEF ReportStatus, Steps
  <2> DEFINE task == [tasks[d] EXCEPT !.step = "Done"]
  <2>2. OneTask(d, task)
    BY <2>1, GoToMoves
  <2>3. task \in Task /\ task.step = "Done" /\ task.answer = tasks[d].answer
    BY <2>2, TaskType DEF OneTask, Task
  <2>4. tasks'[d] = task /\ \A e \in Deliveries : e # d => tasks'[e] = tasks[e]
    BY <2>2 DEF OneTask
  <2> HIDE DEF task
  <2>5. CASE Failed(d)
    <3>1. d \in Reporting
      BY <2>1, <2>5 DEF Reporting
    <3>2. FailedTasks' = FailedTasks /\ Reporting' = Reporting \ {d}
      BY <2>3, <2>4, <2>5 DEF FailedTasks, Reporting, Failed
    <3>3. Cardinality(Reporting') = Cardinality(Reporting) - 1
      BY <3>1, <3>2, FailedFinite, FS_RemoveElement
    <3>4. Len(httpFailures') = Len(httpFailures) + 1
      BY <1>t, <2>1, <2>5 DEF RecordHttpStatus, Failed
    <3>5. Len(httpFailures') + Cardinality(Reporting') = Cardinality(FailedTasks')
      BY <1>t, <1>n, <3>2, <3>3, <3>4, FailedFinite
    <3> QED
      BY <3>5 DEF NoFailureLost, Reporting, FailedTasks
  <2>6. CASE ~Failed(d)
    <3>1. UNCHANGED httpFailures
      BY <2>1, <2>6 DEF RecordHttpStatus, Failed
    <3> QED
      BY <2>2, <2>3, <2>6, <3>1, FailuresKept
  <2> QED
    BY <2>5, <2>6
<1> QED
  BY <1>1, <1>2, <1>3, <1>4, <1>5, <1>6 DEF HandlerNext, Continue

\* Whatever order the tasks take the lock in, a counted answer is with the breaker or with
\* the task about to report it: apply_action's answers are neither lost nor counted twice.
THEOREM FailuresAreReported == HandlerSpec => []NoFailureLost
<1>1. HandlerInit => NoFailureLost
  <2> SUFFICES ASSUME HandlerInit PROVE NoFailureLost
    OBVIOUS
  <2>1. httpFailures = <<>> /\ \A d \in Deliveries : ~Failed(d)
    BY DEF HandlerInit, Init, IdleTask, Failed, NoAnswer, CountedStatuses
  <2>2. FailedTasks = {} /\ Reporting = {}
    BY <2>1 DEF FailedTasks, Reporting
  <2>3. Cardinality({}) = 0 /\ Len(httpFailures) = 0
    BY <2>1, FS_EmptySet
  <2>4. Len(httpFailures) + Cardinality(Reporting) = Cardinality(FailedTasks)
    BY <2>2, <2>3
  <2> QED
    BY <2>4 DEF NoFailureLost, FailedTasks, Reporting
<1>2. HandlerInv /\ HandlerInv' /\ NoFailureLost /\ [HandlerNext]_allVars => NoFailureLost'
  BY FailuresStep
<1> QED
  BY <1>1, <1>2, HandlerInvHolds, PTL DEF HandlerSpec

----------------------------------------------------------------------------
(* The rows. *)

\* How far a task has come, read from the rows of its delivery and from those it failed to
\* insert.
RowsInv ==
    /\ \A k \in 1 .. Len(rows) :
          /\ rows[k].delivery \in Deliveries
          /\ tasks[rows[k].delivery].step \in
                IF rows[k].event = "ActionSent" THEN {"Done"}
                ELSE {"Apply", "Waiting", "ReportStatus", "RecordSent", "Done"}
    /\ \A d \in Deliveries :
          tasks[d].step \in {"Apply", "Waiting", "RecordSent"} /\ auditOpen
             => Attempted(d, "ResponseCompiled")
    /\ SentRowsAreTrue

\* Inserting, or failing to, is an attempt.
LEMMA InsertAttempted ==
    ASSUME HandlerInv, NEW row \in Rows, InsertRow(row)
    PROVE  /\ Attempted(row.delivery, row.event)'
           /\ \A d, event : Attempted(d, event) => Attempted(d, event)'
           /\ warned \subseteq warned'
           /\ \/ rows' = rows
              \/ /\ rows' = Append(rows, row) /\ Len(rows') = Len(rows) + 1
                 /\ rows'[Len(rows) + 1] = row
                 /\ \A k \in 1 .. Len(rows) : rows'[k] = rows[k]
           /\ Len(rows) \in Nat
<1>1. rows \in Seq(Rows) /\ Len(rows) \in Nat
  BY DEF HandlerInv, HandlerTypeOK
<1>2. CASE rows' = Append(rows, row) /\ warned \subseteq warned'
  <2>1. /\ Len(rows') = Len(rows) + 1 /\ rows'[Len(rows) + 1] = row
        /\ \A k \in 1 .. Len(rows) : rows'[k] = rows[k]
    BY <1>1, <1>2
  <2>2. Len(rows) + 1 \in 1 .. Len(rows') /\ \A k \in 1 .. Len(rows) : k \in 1 .. Len(rows')
    BY <1>1, <2>1
  <2>3. Attempted(row.delivery, row.event)'
    BY <2>1, <2>2 DEF Attempted
  <2>4. ASSUME NEW d, NEW event, Attempted(d, event) PROVE Attempted(d, event)'
    <3>1. CASE \E k \in 1 .. Len(rows) : rows[k].delivery = d /\ rows[k].event = event
      BY <2>1, <2>2, <3>1 DEF Attempted
    <3>2. CASE \E other \in warned : other.delivery = d /\ other.event = event
      BY <1>2, <3>2 DEF Attempted
    <3> QED
      BY <2>4, <3>1, <3>2 DEF Attempted
  <2> QED
    BY <1>1, <1>2, <2>1, <2>3, <2>4
<1>3. CASE rows' = rows /\ warned' = warned \cup {row}
  BY <1>1, <1>3 DEF Attempted
<1> QED
  BY <1>2, <1>3 DEF InsertRow

\* A step that writes no row and leaves the steps of finished tasks and the answers alone.
LEMMA RowsKept ==
    ASSUME HandlerInv, RowsInv, NEW d \in Deliveries, NEW task \in Task, OneTask(d, task),
           UNCHANGED <<auditOpen, rows, warned>>,
           tasks[d].step # "Done",
           tasks[d].step \in {"Apply", "Waiting", "ReportStatus", "RecordSent"}
              => task.step \in {"Apply", "Waiting", "ReportStatus", "RecordSent", "Done"},
           task.step \in {"Apply", "Waiting", "RecordSent"} /\ auditOpen
              => Attempted(d, "ResponseCompiled")
    PROVE  RowsInv'
<1>1. ASSUME NEW k \in 1 .. Len(rows)
      PROVE  /\ rows[k].delivery \in Deliveries
             /\ tasks'[rows[k].delivery].step \in
                   IF rows[k].event = "ActionSent" THEN {"Done"}
                   ELSE {"Apply", "Waiting", "ReportStatus", "RecordSent", "Done"}
             /\ rows[k].event = "ActionSent" => tasks'[rows[k].delivery] = tasks[rows[k].delivery]
  <2>1. CASE rows[k].delivery = d
    BY <2>1 DEF RowsInv, OneTask
  <2>2. CASE rows[k].delivery # d
    BY <2>2 DEF RowsInv, OneTask
  <2> QED
    BY <2>1, <2>2
<1>2. ASSUME NEW e \in Deliveries, tasks'[e].step \in {"Apply", "Waiting", "RecordSent"}, auditOpen
      PROVE  Attempted(e, "ResponseCompiled")
  BY <1>2 DEF RowsInv, OneTask
<1>3. SentRowsAreTrue'
  BY <1>1 DEF RowsInv, SentRowsAreTrue
<1> QED
  BY <1>1, <1>2, <1>3 DEF RowsInv, Attempted

\* The one row a task writes at a step of its own kind.
LEMMA RowWritten ==
    ASSUME HandlerInv, RowsInv, NEW d \in Deliveries, NEW task \in Task, OneTask(d, task),
           auditOpen' = auditOpen, NEW row \in Rows, InsertRow(row), row.delivery = d,
           \/ /\ tasks[d].step = "RecordDecision" /\ row.event # "ActionSent"
              /\ task.step \in {"Apply", "Done"}
              /\ task.step = "Apply" => row.event = "ResponseCompiled"
           \/ /\ tasks[d].step = "RecordSent" /\ row.event = "ActionSent"
              /\ task.step = "Done" /\ task.answer = Success
    PROVE  RowsInv'
<1> DEFINE n == Len(rows)
           Later == {"Apply", "Waiting", "ReportStatus", "RecordSent", "Done"}
<1>i. /\ Attempted(d, row.event)'
      /\ \A e, event : Attempted(e, event) => Attempted(e, event)'
      /\ warned \subseteq warned'
      /\ n \in Nat
  BY InsertAttempted
<1>r. \/ rows' = rows
      \/ /\ rows' = Append(rows, row) /\ Len(rows') = n + 1 /\ rows'[n + 1] = row
         /\ \A k \in 1 .. n : rows'[k] = rows[k]
  BY InsertAttempted
<1>t. tasks'[d] = task /\ \A e \in Deliveries : e # d => tasks'[e] = tasks[e]
  BY DEF OneTask
\* The rows of this delivery so far are of another event.
<1>o. \A k \in 1 .. n : rows[k].delivery = d => /\ tasks[d].step = "RecordSent"
                                                /\ rows[k].event # "ActionSent"
  BY DEF RowsInv
<1>1. ASSUME NEW k \in 1 .. n
      PROVE  /\ rows[k].delivery \in Deliveries
             /\ tasks'[rows[k].delivery].step \in
                   IF rows[k].event = "ActionSent" THEN {"Done"} ELSE Later
             /\ rows[k].event = "ActionSent" => tasks'[rows[k].delivery].answer = Success
  <2>1. CASE rows[k].delivery = d
    BY <1>o, <1>t, <2>1
  <2>2. CASE rows[k].delivery # d
    BY <1>t, <2>2 DEF RowsInv, SentRowsAreTrue
  <2> QED
    BY <2>1, <2>2
<1>2. /\ tasks'[d].step \in IF row.event = "ActionSent" THEN {"Done"} ELSE Later
      /\ row.event = "ActionSent" => tasks'[d].answer = Success
  BY <1>t
<1>3. ASSUME NEW k \in 1 .. Len(rows')
      PROVE  /\ rows'[k].delivery \in Deliveries
             /\ tasks'[rows'[k].delivery].step \in
                   IF rows'[k].event = "ActionSent" THEN {"Done"} ELSE Later
             /\ rows'[k].event = "ActionSent" => tasks'[rows'[k].delivery].answer = Success
  <2>1. CASE k \in 1 .. n /\ rows'[k] = rows[k]
    BY <1>1, <2>1
  <2>2. CASE rows'[k] = row
    BY <1>2, <2>2
  <2>3. (k \in 1 .. n /\ rows'[k] = rows[k]) \/ rows'[k] = row
    BY <1>i, <1>r
  <2> QED
    BY <2>1, <2>2, <2>3
<1>4. ASSUME NEW e \in Deliveries, tasks'[e].step \in {"Apply", "Waiting", "RecordSent"}, auditOpen
      PROVE  Attempted(e, "ResponseCompiled")'
  <2>1. CASE e = d
    BY <1>i, <1>t, <1>4, <2>1
  <2>2. CASE e # d
    <3>1. Attempted(e, "ResponseCompiled")
      BY <1>t, <1>4, <2>2 DEF RowsInv
    <3> QED
      BY <1>i, <3>1
  <2> QED
    BY <2>1, <2>2
\* What the sent row needs to stand behind: this task came through RecordDecision.
<1>5. row.event = "ActionSent" =>
        \/ \E i \in 1 .. n : rows[i].delivery = d /\ rows[i].event = "ResponseCompiled"
        \/ \E other \in warned : other.delivery = d /\ other.event = "ResponseCompiled"
  <2>1. row.event = "ActionSent" => tasks[d].step = "RecordSent" /\ auditOpen
    BY TaskType DEF TaskShape
  <2> QED
    BY <2>1 DEF RowsInv, Attempted
<1>6. ASSUME NEW k \in 1 .. Len(rows'), rows'[k].event = "ActionSent"
      PROVE  \/ \E i \in 1 .. k - 1 : /\ rows'[i].delivery = rows'[k].delivery
                                      /\ rows'[i].event = "ResponseCompiled"
             \/ \E other \in warned' : /\ other.delivery = rows'[k].delivery
                                       /\ other.event = "ResponseCompiled"
  <2>1. CASE k \in 1 .. n
    <3>1. /\ rows'[k] = rows[k] /\ k \in Nat
          /\ \A i \in 1 .. k - 1 : i \in 1 .. n /\ rows'[i] = rows[i]
      BY <1>i, <1>r, <2>1
    <3>2. \/ \E i \in 1 .. k - 1 : /\ rows[i].delivery = rows[k].delivery
                                   /\ rows[i].event = "ResponseCompiled"
          \/ \E other \in warned : /\ other.delivery = rows[k].delivery
                                   /\ other.event = "ResponseCompiled"
      BY <1>6, <2>1, <3>1 DEF RowsInv, SentRowsAreTrue
    <3> QED
      BY <1>i, <3>1, <3>2
  <2>2. CASE k \notin 1 .. n
    <3>1. /\ k - 1 = n /\ rows'[k] = row
          /\ \A i \in 1 .. n : rows'[i] = rows[i]
      BY <1>i, <1>r, <2>2
    <3>2. \/ \E i \in 1 .. n : rows[i].delivery = d /\ rows[i].event = "ResponseCompiled"
          \/ \E other \in warned : other.delivery = d /\ other.event = "ResponseCompiled"
      BY <1>5, <1>6, <3>1
    <3> QED
      BY <1>i, <3>1, <3>2
  <2> QED
    BY <2>1, <2>2
<1>7. ASSUME NEW i \in 1 .. Len(rows'), NEW k \in 1 .. Len(rows'),
             rows'[i].delivery = rows'[k].delivery, rows'[i].event = rows'[k].event
      PROVE  i = k
  <2>1. CASE i \in 1 .. n /\ k \in 1 .. n
    <3>1. rows'[i] = rows[i] /\ rows'[k] = rows[k]
      BY <1>r, <2>1
    <3> QED
      BY <1>7, <2>1, <3>1 DEF RowsInv, SentRowsAreTrue
  <2>2. ASSUME NEW x \in 1 .. n, NEW y \in 1 .. Len(rows'), y \notin 1 .. n,
               rows'[x].delivery = rows'[y].delivery, rows'[x].event = rows'[y].event
        PROVE  FALSE
    <3>1. rows'[x] = rows[x] /\ rows'[y] = row
      BY <1>i, <1>r, <2>2
    <3> QED
      BY <1>o, <2>2, <3>1
  <2>3. CASE i \notin 1 .. n /\ k \notin 1 .. n
    BY <1>i, <1>r, <2>3
  <2> QED
    BY <1>7, <2>1, <2>2, <2>3
<1>8. SentRowsAreTrue'
  BY <1>3, <1>6, <1>7 DEF SentRowsAreTrue
<1> QED
  BY <1>3, <1>4, <1>8 DEF RowsInv

LEMMA RowsStep ==
    ASSUME HandlerInv, HandlerInv', RowsInv, [HandlerNext]_allVars
    PROVE  RowsInv'
<1>1. CASE HandlerTick \/ UNCHANGED allVars
  <2>1. UNCHANGED <<tasks, auditOpen, rows, warned>>
    BY <1>1 DEF HandlerTick, handlerVars, allVars
  <2> QED
    BY <2>1 DEF RowsInv, SentRowsAreTrue, Attempted
<1>2. ASSUME NEW d \in Deliveries, Decide(d) PROVE RowsInv'
  <2>1. PICK m \in MsgIds : OneTask(d, DecidedTask(d, m))
    BY <1>2, DecideMoves
  <2> DEFINE task == DecidedTask(d, m)
  <2>2. tasks[d].step = "Idle" /\ UNCHANGED <<auditOpen, rows, warned>>
    BY <1>2, DecideMoves
  <2>3. task \in Task /\ (auditOpen => task.step = "ReadDetection")
    BY <2>1 DEF OneTask, DecidedTask
  <2> HIDE DEF task
  <2> QED
    BY <2>1, <2>2, <2>3, RowsKept DEF task
<1>3. ASSUME NEW d \in Deliveries, ReadDetection(d) PROVE RowsInv'
  <2> DEFINE task == [tasks[d] EXCEPT !.detection = lastDetection, !.step = "RecordDecision"]
  <2>1. /\ tasks[d].step = "ReadDetection" /\ UNCHANGED <<auditOpen, rows, warned>>
        /\ OneTask(d, task)
    BY <1>3, ReadDetectionMoves
  <2>2. task \in Task /\ task.step = "RecordDecision"
    BY <2>1, TaskType DEF OneTask, Task
  <2> HIDE DEF task
  <2> QED
    BY <2>1, <2>2, RowsKept
<1>4. ASSUME NEW d \in Deliveries, NEW step \in Steps
      PROVE  LET task == [tasks[d] EXCEPT !.step = step] IN
             /\ task \in Task /\ task.step = step /\ task.answer = tasks[d].answer
             /\ GoTo(d, step) => OneTask(d, task)
  BY TaskType, GoToMoves DEF Task
<1>5. ASSUME NEW d \in Deliveries, RecordDecision(d) PROVE RowsInv'
  <2> DEFINE step == IF tasks[d].action = "Noop" THEN "Done" ELSE "Apply"
             task == [tasks[d] EXCEPT !.step = step]
             row == DecisionRow(d)
  <2>1. /\ tasks[d].step = "RecordDecision" /\ GoTo(d, step) /\ InsertRow(row)
        /\ auditOpen' = auditOpen
    BY <1>5 DEF RecordDecision
  <2>2. step \in Steps /\ step \in {"Apply", "Done"}
    BY DEF Steps
  <2>3. task \in Task /\ task.step = step /\ OneTask(d, task)
    BY <1>4, <2>1, <2>2
  <2>4. /\ row \in Rows /\ row.delivery = d /\ row.event # "ActionSent"
        /\ step = "Apply" => row.event = "ResponseCompiled"
    BY <2>1, DecisionRowType DEF DecisionRow
  <2> HIDE DEF step, task, row
  <2> QED
    BY <2>1, <2>2, <2>3, <2>4, RowWritten
<1>6. ASSUME NEW d \in Deliveries, Apply(d) PROVE RowsInv'
  <2> DEFINE task == [tasks[d] EXCEPT !.step = "Waiting"]
  <2>1. /\ tasks[d].step = "Apply" /\ GoTo(d, "Waiting") /\ "Waiting" \in Steps
        /\ UNCHANGED <<auditOpen, rows, warned>>
    BY <1>6 DEF Apply, Steps
  <2>2. task \in Task /\ task.step = "Waiting" /\ OneTask(d, task)
    BY <1>4, <2>1
  <2>3. auditOpen => Attempted(d, "ResponseCompiled")
    BY <2>1 DEF RowsInv
  <2> HIDE DEF task
  <2> QED
    BY <2>1, <2>2, <2>3, RowsKept
<1>7. ASSUME NEW d \in Deliveries, ReceiveAnswer(d) PROVE RowsInv'
  <2>1. tasks[d].step = "Waiting" /\ UNCHANGED <<auditOpen, rows, warned>>
    BY <1>7, AnswerMoves
  <2>2. PICK answer \in Answers :
           OneTask(d, [tasks[d] EXCEPT !.answer = answer, !.step = AfterAnswer(answer)])
    BY <1>7, AnswerMoves
  <2> DEFINE task == [tasks[d] EXCEPT !.answer = answer, !.step = AfterAnswer(answer)]
  <2>3. task \in Task /\ task.step = AfterAnswer(answer)
    BY <2>2, TaskType DEF OneTask, Task
  <2>4. AfterAnswer(answer) \in {"RecordSent", "Done", "ReportStatus"}
    BY DEF AfterAnswer
  <2>5. auditOpen => Attempted(d, "ResponseCompiled")
    BY <2>1 DEF RowsInv
  <2>6. OneTask(d, task)
    BY <2>2
  <2> HIDE DEF task
  <2> QED
    BY <2>1, <2>3, <2>4, <2>5, <2>6, RowsKept
<1>8. ASSUME NEW d \in Deliveries, ReportStatus(d) PROVE RowsInv'
  <2> DEFINE task == [tasks[d] EXCEPT !.step = "Done"]
  <2>1. /\ tasks[d].step = "ReportStatus" /\ GoTo(d, "Done") /\ "Done" \in Steps
        /\ UNCHANGED <<auditOpen, rows, warned>>
    BY <1>8 DEF ReportStatus, Steps
  <2>2. task \in Task /\ task.step = "Done" /\ OneTask(d, task)
    BY <1>4, <2>1
  <2> HIDE DEF task
  <2> QED
    BY <2>1, <2>2, RowsKept
<1>9. ASSUME NEW d \in Deliveries, RecordSent(d) PROVE RowsInv'
  <2> DEFINE task == [tasks[d] EXCEPT !.step = "Done"]
             row == SentRow(d)
  <2>1. /\ tasks[d].step = "RecordSent" /\ GoTo(d, "Done") /\ "Done" \in Steps
        /\ InsertRow(row) /\ auditOpen' = auditOpen
    BY <1>9 DEF RecordSent, Steps
  <2>2. /\ task \in Task /\ task.step = "Done" /\ OneTask(d, task)
        /\ task.answer = Success
    BY <1>4, <2>1, TaskType DEF TaskShape
  <2>3. row \in Rows /\ row.delivery = d /\ row.event = "ActionSent"
    BY <2>1, SentRowType DEF SentRow
  <2> HIDE DEF task, row
  <2> QED
    BY <2>1, <2>2, <2>3, RowWritten
<1> QED
  BY <1>1, <1>2, <1>3, <1>5, <1>6, <1>7, <1>8, <1>9 DEF HandlerNext, Continue

\* What the audit store says was sent was sent, and its decision was written down first
\* unless that insert failed: record_event's failures are only logged, yet no row is false.
THEOREM SentRowsTrue == HandlerSpec => []SentRowsAreTrue
<1>1. HandlerInit => RowsInv
  <2> SUFFICES ASSUME HandlerInit PROVE RowsInv
    OBVIOUS
  <2>1. rows = <<>> /\ \A d \in Deliveries : tasks[d].step = "Idle"
    BY DEF HandlerInit, IdleTask
  <2>2. \A k \in 1 .. Len(rows) : FALSE
    BY <2>1
  <2> QED
    BY <2>1, <2>2 DEF RowsInv, SentRowsAreTrue
<1>2. HandlerInv /\ HandlerInv' /\ RowsInv /\ [HandlerNext]_allVars => RowsInv'
  BY RowsStep
<1>3. RowsInv => SentRowsAreTrue
  BY DEF RowsInv
<1> QED
  BY <1>1, <1>2, <1>3, HandlerInvHolds, PTL DEF HandlerSpec

----------------------------------------------------------------------------
(* The requests on their way out. *)

\* decide_message returns an action to perform only while the breaker is closed.
LEMMA OpenMeansNothing ==
    ASSUME TypeOK, IsOpen(breaker, now), NEW m \in MsgIds, DecideMessage(m)
    PROVE  verdict' \notin Outbound
<1> USE DEF Outbound, Sends
<1>1. CASE RefuseMessage(m)
  BY <1>1 DEF RefuseMessage, Admission
<1>2. CASE DropDuplicate(m)
  BY <1>2 DEF DropDuplicate
<1>3. ASSUME NEW suspicion \in SuspicionLevels, NEW reply \in Replies, NEW total \in Totals,
             EvaluateMessage(m, suspicion, reply, total)
      PROVE  verdict' \notin Outbound
  <2> DEFINE proposal == Proposal(suspicion, reply)
             action == CompileResponse(proposal, CurrentMode, suspicion, total)
  <2>1. Finalize(m, proposal, action)
    BY <1>3 DEF EvaluateMessage
  <2> HIDE DEF action
  <2>2. SuppressNoop(proposal, action) \/ SuppressCircuitOpen(action)
    BY <2>1 DEF Finalize, SuppressRateLimit, SuppressAllActions, SuppressCooldown, Act,
                PassBucket
  <2> QED
    BY <2>2 DEF SuppressNoop, SuppressCircuitOpen, NoopReason
<1> QED
  BY <1>1, <1>2, <1>3 DEF DecideMessage

\* A task's own step never brings it back into the backlog.
LEMMA BacklogShrinks ==
    ASSUME HandlerInv, NEW d \in Deliveries, NEW task \in Task, OneTask(d, task),
           d \in Backlog'
              => d \in Backlog
    PROVE  Backlog' \subseteq Backlog
<1> SUFFICES ASSUME NEW e \in Backlog' PROVE e \in Backlog
  OBVIOUS
<1>1. e \in Deliveries
  BY DEF Backlog
<1>2. CASE e # d
  <2>1. tasks'[e] = tasks[e]
    BY <1>1, <1>2 DEF OneTask
  <2> QED
    BY <2>1 DEF Backlog
<1> QED
  BY <1>2

LEMMA BacklogStep ==
    ASSUME HandlerInv, IsOpen(breaker, now), [HandlerNext]_allVars
    PROVE  Backlog' \subseteq Backlog
<1>1. CASE HandlerTick \/ UNCHANGED allVars
  BY <1>1 DEF HandlerTick, handlerVars, allVars, Backlog
<1>2. ASSUME NEW d \in Deliveries, Decide(d) PROVE Backlog' \subseteq Backlog
  <2>1. PICK m \in MsgIds : DecideMessage(m) /\ OneTask(d, DecidedTask(d, m))
    BY <1>2, DecideMoves
  <2>2. verdict' \notin Outbound
    BY <2>1, OpenMeansNothing DEF HandlerInv
  <2>3. DecidedTask(d, m) \in Task /\ DecidedTask(d, m).action = "Noop"
    BY <2>1, <2>2 DEF OneTask, DecidedTask
  <2>4. d \notin Backlog'
    BY <2>1, <2>3 DEF OneTask, Backlog
  <2> QED
    BY <2>1, <2>3, <2>4, BacklogShrinks
<1>3. ASSUME NEW d \in Deliveries, Continue(d) PROVE Backlog' \subseteq Backlog
  <2>1. PICK task \in Task : OneTask(d, task) /\ (d \in Backlog' => d \in Backlog)
    <3>1. CASE ReadDetection(d)
      <4> DEFINE task == [tasks[d] EXCEPT !.detection = lastDetection, !.step = "RecordDecision"]
      <4>1. OneTask(d, task) /\ tasks[d].step = "ReadDetection"
        BY <3>1, ReadDetectionMoves
      <4>2. task \in Task /\ task.action = tasks[d].action
        BY <4>1, TaskType DEF OneTask, Task
      <4> QED
        BY <4>1, <4>2 DEF OneTask, Backlog
    <3>2. CASE RecordDecision(d) \/ Apply(d) \/ ReportStatus(d) \/ RecordSent(d)
      <4>1. PICK step \in {"Done", "Apply", "Waiting"} :
               GoTo(d, step) /\ (step = "Apply" => tasks[d].step = "RecordDecision")
        BY <3>2 DEF RecordDecision, Apply, ReportStatus, RecordSent
      <4> DEFINE task == [tasks[d] EXCEPT !.step = step]
      <4>2. step \in Steps
        BY DEF Steps
      <4>3. OneTask(d, task)
        BY <4>1, <4>2, GoToMoves
      <4>4. task \in Task /\ task.action = tasks[d].action /\ task.step = step
        BY <4>2, TaskType DEF Task
      <4>5. d \in Backlog' => d \in Backlog
        <5>1. tasks'[d] = task
          BY <4>3 DEF OneTask
        <5> HIDE DEF task
        <5> QED
          BY <4>1, <4>4, <5>1 DEF Backlog
      <4> QED
        BY <4>3, <4>4, <4>5
    <3>3. CASE ReceiveAnswer(d)
      <4>1. PICK answer \in Answers :
               OneTask(d, [tasks[d] EXCEPT !.answer = answer, !.step = AfterAnswer(answer)])
        BY <3>3, AnswerMoves
      <4> DEFINE task == [tasks[d] EXCEPT !.answer = answer, !.step = AfterAnswer(answer)]
      <4>2. task \in Task /\ task.step \in {"RecordSent", "Done", "ReportStatus"}
        BY <4>1, TaskType DEF OneTask, Task, AfterAnswer
      <4> QED
        BY <4>1, <4>2 DEF OneTask, Backlog
    <3> QED
      BY <1>3, <3>1, <3>2, <3>3 DEF Continue
  <2> QED
    BY <2>1, BacklogShrinks
<1> QED
  BY <1>1, <1>2, <1>3 DEF HandlerNext

\* Requests go out outside the lock, after the breaker opened too, but only those already
\* decided upon: whatever the tasks do, nothing joins them while it is open.
THEOREM OpenBreakerOnlyDrains == HandlerSpec => OpenBreakerDrains
<1>1. HandlerInv /\ [HandlerNext]_allVars
        => [IsOpen(breaker, now) => Backlog' \subseteq Backlog]_allVars
  BY BacklogStep
<1> QED
  BY <1>1, HandlerInvHolds, PTL DEF HandlerSpec, OpenBreakerDrains
=============================================================================
