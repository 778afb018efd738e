---------------------------- MODULE MCOperatorTui ---------------------------
(* Constant values for the runs of OperatorTui: a number, and the signature, which the   *)
(* audit and the integrity page edit both, through a toggle and through a text.           *)
EXTENDS OperatorTui, TLC

MCSettingOf == "MaxCountCap" :> "max_count_cap" @@ "SignatureEnabled" :> "signature"
               @@ "SignaturePath" :> "signature"

MCFieldsOf ==
    [name \in PageNames |->
        CASE name = "Bot" -> <<"MaxCountCap">>
          [] name \in {"Audit", "Integrity"} -> <<"SignatureEnabled", "SignaturePath">>
          [] OTHER -> <<>>]
=============================================================================
