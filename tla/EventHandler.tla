---------------------------- MODULE EventHandler ----------------------------
(***************************************************************************)
(* src/infra/discord_handler.rs: serenity runs one task per delivered      *)
(* message event.  The tasks share the governor and the audit store, each  *)
(* behind a mutex that no task holds across an await or while it takes the *)
(* other: a critical section is one action here, and between two of them   *)
(* every other task may run.                                               *)
(*                                                                         *)
(* The running bot calls no setter of the governor: what they set is fixed *)
(* when it starts.                                                         *)
(***************************************************************************)
EXTENDS TrustedCore

CONSTANTS Deliveries,   \* the message events the gateway delivers, redeliveries included
          AuditOpens    \* whether AuditStore::open_rw may succeed, fail, or either

ASSUME EventHandlerAssumption == AuditOpens \subseteq BOOLEAN /\ IsFiniteSet(Deliveries)

VARIABLES tasks,      \* the task of each delivery
          auditOpen,  \* Handler.audit is Some
          rows,       \* the rows of audit_events this process inserted
          warned      \* history: the rows record_event gave an error for, which is only logged

handlerVars == <<tasks, auditOpen, rows, warned>>
allVars == <<coreVars, handlerVars>>

Success == 200
NoStatus == 0     \* an error without an HTTP status: status_from_serenity_error is None
NoAnswer == -1
Answers == {Success, NoStatus} \cup HttpStatuses

Steps == {"Idle", "ReadDetection", "RecordDecision", "Apply", "Waiting", "ReportStatus",
          "RecordSent", "Done"}

IdleTask == [step |-> "Idle", msg |-> NoMessage, action |-> "Noop",
             detection |-> NoMessage, answer |-> NoAnswer]

GoTo(d, step) == tasks' = [tasks EXCEPT ![d].step = step]

----------------------------------------------------------------------------
(* Handler::message *)

\* From the delivery to the end of the first critical section. A message event may be
\* delivered again, so two deliveries may carry one id.
Decide(d) ==
    \E m \in MsgIds :
        /\ tasks[d].step = "Idle"
        /\ DecideMessage(m)
        /\ tasks' = [tasks EXCEPT ![d] =
               [IdleTask EXCEPT !.msg = m,
                                !.action = IF verdict' \in Outbound THEN verdict' ELSE "Noop",
                                !.step = IF auditOpen THEN "ReadDetection"
                                         ELSE IF verdict' \in Outbound THEN "Apply" ELSE "Done"]]
        /\ UNCHANGED <<auditOpen, rows, warned>>

\* Mutation: the row is skipped when there is something to do.
ReadDetectionAndApply(d) ==
    /\ tasks[d].step = "ReadDetection"
    /\ tasks' = [tasks EXCEPT ![d].detection = lastDetection,
                              ![d].step = IF tasks[d].action = "Noop" THEN "Done" ELSE "Apply"]
    /\ UNCHANGED <<coreVars, auditOpen, rows, warned>>

\* record_decision_audit takes the governor's lock a second time.
ReadDetection(d) ==
    /\ tasks[d].step = "ReadDetection"
    /\ tasks' = [tasks EXCEPT ![d].detection = lastDetection, ![d].step = "RecordDecision"]
    /\ UNCHANGED <<coreVars, auditOpen, rows, warned>>

DecisionRow(d) ==
    [event |-> IF tasks[d].action = "Noop" THEN "ActionSuppressed" ELSE "ResponseCompiled",
     delivery |-> d, msg |-> tasks[d].msg, detection |-> tasks[d].detection]

SentRow(d) == [event |-> "ActionSent", delivery |-> d, msg |-> tasks[d].msg,
               detection |-> NoMessage]

\* record_event inserts the row; or fails; or inserts it and fails afterwards, when only the
\* manifest could not be written. It is not tried again.
InsertRow(row) ==
    \/ rows' = Append(rows, row) /\ UNCHANGED warned
    \/ warned' = warned \cup {row} /\ UNCHANGED rows
    \/ rows' = Append(rows, row) /\ warned' = warned \cup {row}

\* Mutation: the early return for a Noop is missing.
RecordDecisionAndApply(d) ==
    /\ tasks[d].step = "RecordDecision"
    /\ InsertRow(DecisionRow(d))
    /\ GoTo(d, "Apply")
    /\ UNCHANGED <<coreVars, auditOpen>>

RecordDecision(d) ==
    /\ tasks[d].step = "RecordDecision"
    /\ InsertRow(DecisionRow(d))
    /\ GoTo(d, IF tasks[d].action = "Noop" THEN "Done" ELSE "Apply")
    /\ UNCHANGED <<coreVars, auditOpen>>

\* apply_action: the request goes out, and some time later its answer comes in.
Apply(d) ==
    /\ tasks[d].step = "Apply"
    /\ GoTo(d, "Waiting")
    /\ UNCHANGED <<coreVars, auditOpen, rows, warned>>

\* Mutation: a 401 is not told to the breaker.
AfterAnswerBut401(answer) ==
    CASE answer = Success -> IF auditOpen THEN "RecordSent" ELSE "Done"
      [] answer \in {NoStatus, 401} -> "Done"
      [] OTHER -> "ReportStatus"

\* Mutation: only an error with a status counts as one.
AfterAnswerOptimistic(answer) ==
    IF answer \in HttpStatuses THEN "ReportStatus"
    ELSE IF auditOpen THEN "RecordSent" ELSE "Done"

AfterAnswer(answer) ==
    CASE answer = Success -> IF auditOpen THEN "RecordSent" ELSE "Done"
      [] answer = NoStatus -> "Done"
      [] OTHER -> "ReportStatus"

ReceiveAnswer(d) ==
    /\ tasks[d].step = "Waiting"
    /\ \E answer \in Answers :
           tasks' = [tasks EXCEPT ![d].answer = answer, ![d].step = AfterAnswer(answer)]
    /\ UNCHANGED <<coreVars, auditOpen, rows, warned>>

\* Mutation: a request that failed is made again.
ReportStatusAndRetry(d) ==
    /\ tasks[d].step = "ReportStatus"
    /\ RecordHttpStatus(tasks[d].answer)
    /\ GoTo(d, "Apply")
    /\ UNCHANGED <<auditOpen, rows, warned>>

ReportStatus(d) ==
    /\ tasks[d].step = "ReportStatus"
    /\ RecordHttpStatus(tasks[d].answer)
    /\ GoTo(d, "Done")
    /\ UNCHANGED <<auditOpen, rows, warned>>

RecordSent(d) ==
    /\ tasks[d].step = "RecordSent"
    /\ InsertRow(SentRow(d))
    /\ GoTo(d, "Done")
    /\ UNCHANGED <<coreVars, auditOpen>>

\* What a task does once it has a decision.
Continue(d) ==
    \/ ReadDetection(d)
    \/ RecordDecision(d)
    \/ Apply(d)
    \/ ReceiveAnswer(d)
    \/ ReportStatus(d)
    \/ RecordSent(d)

HandlerTick == Tick /\ UNCHANGED handlerVars

HandlerInit ==
    /\ Init
    /\ tasks = [d \in Deliveries |-> IdleTask]
    /\ auditOpen \in AuditOpens
    /\ rows = <<>> /\ warned = {}

HandlerNext == HandlerTick \/ \E d \in Deliveries : Decide(d) \/ Continue(d)

\* The runtime polls a task that can go on, and a request is answered or fails: serenity
\* gives every request to an HTTP client that reports a broken connection.
HandlerFairness == \A d \in Deliveries : WF_allVars(Continue(d))

HandlerSpec == HandlerInit /\ [][HandlerNext]_allVars /\ HandlerFairness

----------------------------------------------------------------------------
(* Properties. *)

Rows == [event : {"ActionSuppressed", "ResponseCompiled", "ActionSent"},
         delivery : Deliveries, msg : MsgIds, detection : MsgIds \cup {NoMessage}]

\* A task's fields and the rows it writes have their types; only a task with an action to
\* perform ever gets to perform it, and without a store there are no rows.
HandlerTypeOK ==
    /\ tasks \in [Deliveries -> [step : Steps, msg : MsgIds \cup {NoMessage},
                                 action : BotActions, detection : MsgIds \cup {NoMessage},
                                 answer : Answers \cup {NoAnswer}]]
    /\ \A d \in Deliveries :
           tasks[d].step \in {"Apply", "Waiting", "ReportStatus", "RecordSent"}
               => tasks[d].action # "Noop"
    /\ rows \in Seq(Rows) /\ warned \subseteq Rows
    /\ ~auditOpen => rows = <<>> /\ warned = {}

\* The tasks whose request is decided upon and not yet out.
Backlog == {d \in Deliveries : /\ tasks[d].action # "Noop"
                               /\ tasks[d].step \in {"ReadDetection", "RecordDecision", "Apply"}}

\* The request is sent outside the lock, so requests do go out after the breaker opened;
\* but only those decided upon before: no decision adds to them while it is open.
OpenBreakerDrains == [][IsOpen(breaker, now) => Backlog' \subseteq Backlog]_allVars

Failed(d) == tasks[d].answer \in CountedStatuses

\* Every counted status that a request was answered with is in the breaker's history or
\* still held by the one task that is about to put it there: none is lost or counted twice,
\* in whatever order the tasks get the lock.
NoFailureLost ==
    Len(httpFailures) + Cardinality({d \in Deliveries : Failed(d) /\ tasks[d].step = "ReportStatus"})
        = Cardinality({d \in Deliveries : Failed(d)})

\* An ActionSent row is written for a request that succeeded, after the ResponseCompiled
\* row of the same delivery unless that insert failed; and no row is written twice.
SentRowsAreTrue ==
    /\ \A k \in 1 .. Len(rows) : rows[k].event = "ActionSent" =>
           LET d == rows[k].delivery IN
           /\ tasks[d].answer = Success
           /\ \/ \E i \in 1 .. k - 1 : rows[i].delivery = d /\ rows[i].event = "ResponseCompiled"
              \/ \E row \in warned : row.delivery = d /\ row.event = "ResponseCompiled"
    /\ \A i, k \in 1 .. Len(rows) :
           rows[i].delivery = rows[k].delivery /\ rows[i].event = rows[k].event => i = k

Attempted(d, event) ==
    \/ \E k \in 1 .. Len(rows) : rows[k].delivery = d /\ rows[k].event = event
    \/ \E row \in warned : row.delivery = d /\ row.event = event

\* Nothing is left to do for a delivery: its decision was written down (or that was tried),
\* and if it was to act, the request was answered and the answer was written down or told
\* to the breaker.
Settled(d) ==
    /\ tasks[d].step = "Done"
    /\ auditOpen => \/ Attempted(d, "ActionSuppressed") /\ tasks[d].action = "Noop"
                    \/ Attempted(d, "ResponseCompiled") /\ tasks[d].action # "Noop"
    /\ tasks[d].action # "Noop" => tasks[d].answer # NoAnswer
    /\ auditOpen /\ tasks[d].answer = Success => Attempted(d, "ActionSent")
    /\ Failed(d) => httpFailures # <<>>

\* Whatever the other tasks do, and whatever fails, every delivery is settled in the end.
DeliveriesSettle == \A d \in Deliveries : tasks[d].step # "Idle" ~> Settled(d)

\* docs/operations/observability.md: a row of audit_events holds the details of the target
\* detection and of the response decision. The detection should then be that of the row's
\* own message, or none.
RowsShowOwnDetection ==
    \A k \in 1 .. Len(rows) : rows[k].detection \in {rows[k].msg, NoMessage}
=============================================================================
