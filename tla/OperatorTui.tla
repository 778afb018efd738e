----------------------------- MODULE OperatorTui ----------------------------
(***************************************************************************)
(* src/operator_tui.rs: the terminal program an operator edits the startup *)
(* configuration with, looks at the audit log, and stops the bot.  It is   *)
(* one loop that handles one key event at a time, so a key is an action.   *)
(*                                                                         *)
(* A configuration gives each setting its default value, another good one, *)
(* or one that validate_startup_config refuses. Text typed is abstracted   *)
(* to what becomes of it. Texts, styles, the sort order and the            *)
(* diagnostics shown are left out.                                         *)
(***************************************************************************)
EXTENDS RuntimeMode, Sequences, FiniteSets

CONSTANTS Settings, Fields,
          SettingOf,     \* the setting a field edits; several fields may edit one
          FieldsOf,      \* setup_fields_for_page
          NumberFields,  \* typed text may not parse
          ToggleFields,  \* cycled with the space key; typed text is ignored
          RowModes,      \* the modes of audit rows
          AuditCap,      \* rows loaded at most
          MaxRows        \* bound: rows in the audit log

Pages == <<"Detector", "Bot", "Audit", "Diagnostics", "Integrity", "Runtime", "Preview">>
PageNames == {Pages[i] : i \in 1 .. Len(Pages)}

Values == {"Default", "Good", "Bad"}
Texts == {"", "Good", "Bad", "Garbage"}   \* Garbage is no number
Configurations == [Settings -> Values]

Screens == {"Welcome", "Dashboard", "Setup", "Diagnostics", "Audit"}
NoField == "NoField"
NoFilter == "NoFilter"

\* The filter holds the form of a mode used in YAML; the rows, the Debug form.
FilterCycle == <<NoFilter, "normal", "observe_only", "react_only", "audit_only", "full_disable">>

ASSUME OperatorTuiAssumption ==
    /\ SettingOf \in [Fields -> Settings]
    /\ FieldsOf \in [PageNames -> Seq(Fields)]
    /\ FieldsOf["Runtime"] = <<>> /\ FieldsOf["Preview"] = <<>>
    /\ NumberFields \subseteq Fields /\ ToggleFields \subseteq Fields \ NumberFields
    /\ NoField \notin Fields
    /\ RowModes \subseteq RuntimeModes
    /\ AuditCap \in Nat /\ MaxRows \in Nat

VARIABLES
    disk,       \* the configuration file
    log,        \* the modes of the rows of the audit log
    startup, draft,               \* app.startup, app.setup.draft
    screen, landing, page, selected,
    editing,    \* the field of InputMode::SetupEdit, or NoField
    searching,  \* InputMode::AuditSearch
    buffer,     \* input_buffer
    rows, modeFilter,             \* app.audit
    stopArmed,
    outcome,    \* "Open", or what run_operator_tui returned
    othersWrote,\* history: the file was written by another process since this one read it
    stops,      \* history: the last step sent a stop
    lastKey     \* history: the last key was x, and not typed into a text

setupVars == <<draft, page, selected, editing, buffer>>
auditVars == <<rows, modeFilter, searching>>
configVars == <<disk, startup, othersWrote>>
historyVars == <<stops, lastKey>>
tuiVars == <<configVars, log, setupVars, screen, landing, auditVars, stopArmed, outcome,
             historyVars>>

----------------------------------------------------------------------------
(* Helpers. *)

NormalMode == editing = NoField /\ ~searching

Validates(config) == \A s \in Settings : config[s] # "Bad"

\* load_audit_state: the newest rows; none when the store cannot be read. It starts over
\* with no search and no filter.
NewestRows == {i \in 1 .. Len(log) : i > Len(log) - AuditCap}

LoadAudit ==
    /\ rows' \in {{}, {[id |-> i, mode |-> log[i]] : i \in NewestRows}}
    /\ modeFilter' = NoFilter

Position(seq, x) == CHOOSE i \in 1 .. Len(seq) : seq[i] = x

Following(seq, x) == seq[(Position(seq, x) % Len(seq)) + 1]
Preceding(seq, x) == seq[((Position(seq, x) + Len(seq) - 2) % Len(seq)) + 1]

\* selected_setup_field; `selected` counts from 0
SelectedField == IF selected < Len(FieldsOf[page]) THEN FieldsOf[page][selected + 1] ELSE NoField

RestoreDefault(field) == [draft EXCEPT ![SettingOf[field]] = "Default"]

\* A key that is handled while no text is typed. Any but x disarms the stop.
Key(code) ==
    /\ outcome = "Open"
    /\ stopArmed' = FALSE /\ stops' = FALSE /\ lastKey' = (code = "x")

GlobalKey(code) == NormalMode /\ screen # "Welcome" /\ Key(code) /\ UNCHANGED outcome
SetupKey(code) == GlobalKey(code) /\ screen = "Setup"
                  /\ UNCHANGED <<configVars, log, screen, landing, auditVars>>
AuditKey(code) == GlobalKey(code) /\ screen = "Audit"
                  /\ UNCHANGED <<configVars, log, screen, landing, draft, page, selected, editing>>

----------------------------------------------------------------------------
(* handle_welcome_keys and handle_global_keys *)

EnterLanding ==
    /\ NormalMode /\ screen = "Welcome" /\ Key("Enter")
    /\ screen' = landing
    /\ UNCHANGED <<configVars, log, landing, setupVars, auditVars, outcome>>

\* Choosing or toggling the language, and `R`, load everything shown again; a stop stays
\* armed through that, until the key is done with.
Reload ==
    /\ NormalMode /\ Key("R") /\ LoadAudit
    /\ UNCHANGED <<configVars, log, setupVars, screen, landing, searching, outcome>>

\* Mutation: the key that shows another screen returns before the stop is disarmed.
ShowScreenArmed(target) ==
    /\ GlobalKey(target) \/ (NormalMode /\ screen # "Welcome" /\ outcome = "Open"
                             /\ stops' = FALSE /\ lastKey' = FALSE /\ UNCHANGED <<stopArmed, outcome>>)
    /\ screen' = target
    /\ UNCHANGED <<configVars, log, landing, setupVars, auditVars>>

ShowScreen(target) ==
    /\ GlobalKey(target)
    /\ screen' = target
    /\ UNCHANGED <<configVars, log, landing, setupVars, auditVars>>

\* The first x arms the stop; the second sends it, and whether or not the bot takes it the
\* stop is no longer armed.
PressX ==
    /\ outcome = "Open" /\ NormalMode /\ screen # "Welcome"
    /\ stopArmed' = ~stopArmed /\ stops' = stopArmed /\ lastKey' = TRUE
    /\ UNCHANGED <<configVars, log, setupVars, screen, landing, auditVars, outcome>>

\* A key that means nothing here, or Esc while the stop is armed.
OtherKey ==
    /\ GlobalKey("other")
    /\ UNCHANGED <<configVars, log, setupVars, screen, landing, auditVars>>

\* `q`, and at any time `Q` and Ctrl-C: what was edited and not saved is gone.
Quit ==
    /\ Key("q") /\ outcome' = "Quit"
    /\ UNCHANGED <<configVars, log, setupVars, screen, landing, auditVars>>

----------------------------------------------------------------------------
(* handle_setup_normal_keys *)

\* Mutation: a page is entered with the selection of the one before.
TurnPageOnly ==
    /\ SetupKey("Left")
    /\ page' \in {Preceding(Pages, page), Following(Pages, page)}
    /\ UNCHANGED <<draft, selected, editing, buffer>>

TurnPage ==
    /\ SetupKey("Left")
    /\ page' \in {Preceding(Pages, page), Following(Pages, page)}
    /\ selected' = 0
    /\ UNCHANGED <<draft, editing, buffer>>

\* `p` leaves the selection as it is.
JumpToPreview ==
    /\ SetupKey("p") /\ page' = "Preview"
    /\ UNCHANGED <<draft, selected, editing, buffer>>

MoveSelection ==
    /\ SetupKey("Up")
    /\ \/ selected > 0 /\ selected' = selected - 1
       \/ selected + 1 < Len(FieldsOf[page]) /\ selected' = selected + 1
    /\ UNCHANGED <<draft, page, editing, buffer>>

ApplyDefault ==
    /\ SetupKey("d") /\ SelectedField # NoField
    /\ draft' = RestoreDefault(SelectedField)
    /\ UNCHANGED <<page, selected, editing, buffer>>

\* cycle_field_value, of a setting with two good values
Cycle ==
    /\ SetupKey("Space") /\ SelectedField \in ToggleFields
    /\ draft' = [draft EXCEPT ![SettingOf[SelectedField]] =
                    IF @ = "Default" THEN "Good" ELSE "Default"]
    /\ UNCHANGED <<page, selected, editing, buffer>>

\* `e` or Enter
BeginEdit ==
    /\ SetupKey("e") /\ SelectedField # NoField
    /\ editing' = SelectedField /\ buffer' = ""
    /\ UNCHANGED <<draft, page, selected>>

\* `s` validates, writes, and loads what it wrote. An error of any of them ends the program.
SaveFails ==
    /\ NormalMode /\ screen = "Setup" /\ page = "Preview" /\ Key("s")
    /\ outcome' = "Error"
    /\ disk' \in IF Validates(draft) THEN {disk, draft} ELSE {disk}
    /\ UNCHANGED <<startup, othersWrote, log, setupVars, screen, landing, auditVars>>

\* Mutation: what was written is not loaded again.
SaveOnly ==
    /\ GlobalKey("s") /\ screen = "Setup" /\ page = "Preview"
    /\ Validates(draft)
    /\ disk' = draft /\ othersWrote' = FALSE
    /\ LoadAudit
    /\ UNCHANGED <<startup, log, setupVars, screen, landing, searching>>

\* Mutation: the draft is written on every page, and as it is.
SaveAnywhere ==
    /\ GlobalKey("s") /\ screen = "Setup"
    /\ disk' = draft /\ startup' = disk' /\ othersWrote' = FALSE
    /\ LoadAudit
    /\ UNCHANGED <<log, setupVars, screen, landing, searching>>

Save ==
    /\ GlobalKey("s") /\ screen = "Setup" /\ page = "Preview"
    /\ Validates(draft)
    /\ disk' = draft /\ startup' = disk' /\ othersWrote' = FALSE
    /\ LoadAudit
    /\ UNCHANGED <<log, setupVars, screen, landing, searching>>

----------------------------------------------------------------------------
(* handle_setup_edit_keys and handle_audit_search_keys *)

TypingKey == outcome = "Open" /\ ~NormalMode /\ stops' = FALSE /\ lastKey' = FALSE
             /\ UNCHANGED <<configVars, log, screen, landing, stopArmed>>

TypeText ==
    /\ TypingKey
    /\ buffer' \in Texts
    /\ UNCHANGED <<draft, page, selected, editing, auditVars, outcome>>

CancelInput ==
    /\ TypingKey
    /\ editing' = NoField /\ searching' = FALSE
    /\ UNCHANGED <<draft, page, selected, buffer, rows, modeFilter, outcome>>

Parses(field, text) == field \in NumberFields => text # "Garbage"

\* apply_custom_field_input
Applied(field, text) ==
    IF text = "" THEN RestoreDefault(field)
    ELSE IF field \in ToggleFields THEN draft
    ELSE [draft EXCEPT ![SettingOf[field]] = IF text = "Garbage" THEN "Good" ELSE text]

ApplyInput ==
    /\ TypingKey /\ editing # NoField
    /\ Parses(editing, buffer)
    /\ draft' = Applied(editing, buffer)
    /\ editing' = NoField /\ buffer' = ""
    /\ UNCHANGED <<page, selected, auditVars, outcome>>

\* A number that does not parse ends the program too.
RefuseInput ==
    /\ TypingKey /\ editing # NoField
    /\ ~Parses(editing, buffer)
    /\ outcome' = "Error"
    /\ UNCHANGED <<setupVars, auditVars>>

ApplySearch ==
    /\ TypingKey /\ searching
    /\ searching' = FALSE
    /\ UNCHANGED <<setupVars, rows, modeFilter, outcome>>

----------------------------------------------------------------------------
(* handle_audit_normal_keys *)

BeginSearch ==
    /\ AuditKey("/")
    /\ searching' = TRUE /\ buffer' \in Texts
    /\ UNCHANGED <<rows, modeFilter>>

NextFilter ==
    /\ AuditKey("m")
    /\ modeFilter' = Following(FilterCycle, modeFilter)
    /\ UNCHANGED <<rows, searching, buffer>>

ReloadAudit == AuditKey("r") /\ LoadAudit /\ UNCHANGED <<searching, buffer>>

----------------------------------------------------------------------------

\* The bot, in its own process, goes on writing rows.
BotWrites ==
    /\ Len(log) < MaxRows
    /\ \E mode \in RowModes : log' = Append(log, mode)
    /\ stops' = FALSE
    /\ UNCHANGED <<configVars, setupVars, screen, landing, auditVars, stopArmed, outcome,
                   lastKey>>

\* `config init --force`, run beside the program, writes the defaults.
ForcedInit ==
    /\ outcome = "Open"
    /\ disk' = [s \in Settings |-> "Default"]
    /\ othersWrote' = TRUE /\ stops' = FALSE
    /\ UNCHANGED <<startup, log, setupVars, screen, landing, auditVars, stopArmed, outcome,
                   lastKey>>

TuiInit ==
    /\ disk \in {config \in Configurations : Validates(config)}
    /\ startup = disk /\ draft = disk /\ othersWrote = FALSE
    /\ log = <<>> /\ rows = {} /\ modeFilter = NoFilter
    /\ screen = "Welcome" /\ landing \in Screens \ {"Welcome"}
    /\ page \in {"Detector", "Preview"} /\ selected = 0
    /\ editing = NoField /\ searching = FALSE /\ buffer = ""
    /\ stopArmed = FALSE /\ outcome = "Open"
    /\ stops = FALSE /\ lastKey = FALSE

TuiNext ==
    \/ EnterLanding \/ Reload \/ PressX \/ OtherKey \/ Quit
    \/ \E target \in Screens \ {"Welcome"} : ShowScreen(target)
    \/ TurnPage \/ JumpToPreview \/ MoveSelection \/ ApplyDefault \/ Cycle
    \/ BeginEdit \/ Save \/ SaveFails
    \/ TypeText \/ CancelInput \/ ApplyInput \/ RefuseInput \/ ApplySearch
    \/ BeginSearch \/ NextFilter \/ ReloadAudit
    \/ BotWrites \/ ForcedInit

TuiSpec == TuiInit /\ [][TuiNext]_tuiVars

----------------------------------------------------------------------------
(* Properties. *)

\* The types of the program's state; the selection names a field of every page that has
\* any, although `p` changes the page without it; and text is typed for a field of the
\* page shown or for the search, never both.
TuiTypeOK ==
    /\ disk \in Configurations /\ startup \in Configurations /\ draft \in Configurations
    /\ log \in Seq(RowModes) /\ rows \subseteq [id : 1 .. MaxRows, mode : RowModes]
    /\ modeFilter \in {FilterCycle[i] : i \in 1 .. Len(FilterCycle)}
    /\ screen \in Screens /\ landing \in Screens /\ page \in PageNames
    /\ selected \in Nat
    /\ FieldsOf[page] # <<>> => SelectedField # NoField
    /\ editing \in {NoField, SelectedField} /\ searching \in BOOLEAN
    /\ ~(searching /\ editing # NoField)
    /\ buffer \in Texts
    /\ othersWrote \in BOOLEAN /\ stopArmed \in BOOLEAN /\ stops \in BOOLEAN /\ lastKey \in BOOLEAN
    /\ outcome \in {"Open", "Quit", "Error"}

\* docs/reference/tui-reference.md: the stop is sent by the second of two x, and any other
\* key in between cancels it - also one that changes the screen, starts an edit or is typed.
StopTakesTwoPresses == [][stops' => stopArmed /\ lastKey /\ screen' = screen]_tuiVars

\* While the program runs, the configuration it shows is the one in the file: an install or
\* a load that fails does not leave it running with another. Only another process's write
\* does, until the next save replaces that: the program never looks at the file again.
ShowsWhatIsOnDisk == outcome = "Open" /\ ~othersWrote => startup = disk

\* Whatever was edited in whatever order, what this program writes is the draft as a whole,
\* from the page that shows it, and only when it is valid. And what any process leaves in
\* the file is valid.
SavesWhatWasPreviewed ==
    [][disk' # disk => \/ disk' = draft /\ page = "Preview" /\ Validates(draft)
                       \/ othersWrote' /\ Validates(disk')]_tuiVars
=============================================================================
