\* Every sequence of keys on three fields of two settings, while the bot writes a row.
SPECIFICATION TuiSpec
CONSTANTS
    Settings = {"max_count_cap", "signature"}
    Fields = {"MaxCountCap", "SignatureEnabled", "SignaturePath"}
    SettingOf <- MCSettingOf  FieldsOf <- MCFieldsOf
    NumberFields = {"MaxCountCap"}  ToggleFields = {"SignatureEnabled"}
    RowModes = {"ReactOnly"}  AuditCap = 1  MaxRows = 1
INVARIANTS TuiTypeOK ShowsWhatIsOnDisk
PROPERTIES StopTakesTwoPresses SavesWhatWasPreviewed
CHECK_DEADLOCK FALSE
