-------------------------- MODULE ResponseCompiler --------------------------
(***************************************************************************)
(* src/security/response_compiler.rs: what the bot does with a proposal of *)
(* the sandboxed analyzer.  A BotAction is abstracted to its kind: nothing *)
(* ("Noop"), a reaction ("React"), or a message made of the stamp text     *)
(* ("SendPhrase") or of the rendered template ("SendTemplate").            *)
(***************************************************************************)
EXTENDS Bounds

CONSTANTS ActionPolicy,    \* bot.action_policy
          MaxCountCap,     \* bot.max_count_cap
          ReactionValid,   \* the reaction has an emoji id and a name
          TemplateRenders, \* render_template gives a text that is not blank
          Sendable         \* the messages not blank when cut to max_send_chars

Sends == {"SendPhrase", "SendTemplate"}
Outbound == {"React"} \cup Sends
BotActions == {"Noop"} \cup Outbound

SuspicionLevels == {"None", "Soft", "Hard"}

ASSUME ResponseCompilerAssumption ==
    /\ ActionPolicy \in {"ReactOrSend", "ReactOnly", "NoOutbound"}
    /\ MaxCountCap \in Nat
    /\ ReactionValid \in BOOLEAN
    /\ TemplateRenders \in BOOLEAN
    /\ Sendable \subseteq Sends

\* ActionProposal: `count` matters to SendStamped only.
Proposals(Counts) ==
    [kind : {"Noop", "Defer", "Reject", "SuspiciousInput", "SpecialPhrase", "ReactOnce"},
     count : {0}]
    \cup [kind : {"SendStamped"}, count : Counts]

IsOutboundProposal(proposal) ==
    proposal.kind \in {"SpecialPhrase", "ReactOnce", "SendStamped"}

\* proposal_to_action: a stamp is repeated at most as often as the detector counted.
Repeats(proposal, total) ==
    AtMost(proposal.count, AtLeast(AtMost(total, AtLeast(MaxCountCap, 1)), 1))

ProposalToAction(proposal, total) ==
    CASE proposal.kind = "SpecialPhrase" -> "SendPhrase"
      [] proposal.kind = "ReactOnce" -> "React"
      [] proposal.kind = "SendStamped" ->
            IF Repeats(proposal, total) <= 1 THEN "React"
            ELSE IF TemplateRenders THEN "SendTemplate" ELSE "Noop"
      [] OTHER -> "Noop"

\* A message that may not be sent becomes a reaction.
Soften(action) == IF action \in Sends THEN "React" ELSE action

\* apply_mode_gate
ModeGate(mode, action) ==
    CASE mode = "Normal" -> action
      [] mode = "ReactOnly" -> Soften(action)
      [] OTHER -> "Noop"

\* apply_action_policy
PolicyGate(action) ==
    CASE ActionPolicy = "ReactOrSend" -> action
      [] ActionPolicy = "ReactOnly" -> Soften(action)
      [] ActionPolicy = "NoOutbound" -> "Noop"

\* enforce_send_cap and is_invalid_action
ValidOrNoop(action) ==
    IF \/ action = "React" /\ ~ReactionValid
       \/ action \in Sends \ Sendable
    THEN "Noop" ELSE action

\* compile_response
CompileResponse(proposal, mode, suspicion, total) ==
    LET proposed == ProposalToAction(proposal, total)
        softened == IF suspicion = "Soft" THEN Soften(proposed) ELSE proposed
    IN  ValidOrNoop(PolicyGate(ModeGate(mode, softened)))
=============================================================================
