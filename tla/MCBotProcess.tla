---------------------------- MODULE MCBotProcess ----------------------------
(* Constant values for the run of BotProcess. *)
EXTENDS BotProcess, TLC

CONSTANTS m1, m2, d1, d2, d3, u1, u2, c1, g1, dm

Origin(u, g) == [user |-> u, channel |-> c1, guild |-> g, bot |-> FALSE]

\* A message in a guild, and a direct message of somebody else.
MCContext == m1 :> Origin(u1, g1) @@ m2 :> Origin(u2, dm)

MCNoLists == {[allowGuilds |-> {}, denyGuilds |-> {}, allowChannels |-> {}, denyChannels |-> {}]}

MCNoOverride == {NoOverride}

\* The tasks are alike, and the specification states no fairness.
DeliverySymmetry == Permutations(Deliveries)

\* No guard reads what the last call returned, the governor's mode (it is computed afresh),
\* a detection, an answer that was dealt with, or the rows, and the properties ask of the rows
\* only whether they were attempted: states that differ in nothing else have futures that differ in nothing else.
AttemptedRows == {<<row.event, row.delivery>> : row \in warned \cup {rows[k] : k \in DOMAIN rows}}
TaskView == [d \in Deliveries |->
                <<tasks[d].step, tasks[d].msg, tasks[d].action,
                  IF tasks[d].step = "ReportStatus" THEN tasks[d].answer ELSE NoAnswer>>]
BotView == <<now, settings, seen, breaker, bucket, cooldowns, sandboxFailures, outbound,
             httpFailures, analyzerErrors, TaskView, AttemptedRows, auditOpen, processVars>>
=============================================================================
