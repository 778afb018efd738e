---------------------------- MODULE RuntimeMode -----------------------------
(***************************************************************************)
(* src/security/mode.rs: the five runtime modes, the reasons a mode is     *)
(* entered for, and ModeState::transition.                                 *)
(***************************************************************************)
EXTENDS Integers

RuntimeModes == {"Normal", "ObserveOnly", "ReactOnly", "AuditOnly", "FullDisable"}

\* InvalidToken is declared by the enum and named by no statement of the program.
ModeTriggers == {"OperatorOverride", "EmergencyKillSwitch", "InvalidToken",
                 "CircuitBreakerOpen", "SandboxFailureSpike", "SessionBudgetLow",
                 "Recovery"}

ModeStates == [mode : RuntimeModes, trigger : ModeTriggers, changedAt : Nat]

\* ModeState::new
InitialMode(t) == [mode |-> "Normal", trigger |-> "Recovery", changedAt |-> t]

\* ModeState::transition: entering the mode one is already in keeps the old trigger.
Transition(state, target, t) ==
    IF state.mode = target.mode
    THEN state
    ELSE [mode |-> target.mode, trigger |-> target.trigger, changedAt |-> t]
=============================================================================
