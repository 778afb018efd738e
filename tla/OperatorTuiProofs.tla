------------------------- MODULE OperatorTuiProofs -------------------------
(***************************************************************************)
(* The operator's terminal program, for every set of settings and fields,  *)
(* every layout of its pages and every length of the audit log.            *)
(***************************************************************************)
EXTENDS OperatorTui, SequenceTheorems, TLAPS

\* The pages and the modes of the filter, as sets.
PageSet == {"Detector", "Bot", "Audit", "Diagnostics", "Integrity", "Runtime", "Preview"}
FilterSet == {NoFilter, "normal", "observe_only", "react_only", "audit_only", "full_disable"}

LEMMA PagesAre ==
    /\ Len(Pages) = 7 /\ PageNames = PageSet
    /\ \A i \in 1 .. 7 : Pages[i] \in PageNames
<1>1. Len(Pages) = 7
  BY DEF Pages
<1>2. \A i \in 1 .. 7 : i = 1 \/ i = 2 \/ i = 3 \/ i = 4 \/ i = 5 \/ i = 6 \/ i = 7
  OBVIOUS
<1>3. /\ Pages[1] = "Detector" /\ Pages[2] = "Bot" /\ Pages[3] = "Audit"
      /\ Pages[4] = "Diagnostics" /\ Pages[5] = "Integrity" /\ Pages[6] = "Runtime"
      /\ Pages[7] = "Preview"
  BY DEF Pages
<1>4. /\ 1 \in 1 .. 7 /\ 2 \in 1 .. 7 /\ 3 \in 1 .. 7 /\ 4 \in 1 .. 7 /\ 5 \in 1 .. 7
      /\ 6 \in 1 .. 7 /\ 7 \in 1 .. 7
  OBVIOUS
<1>5. PageNames = {Pages[i] : i \in 1 .. 7}
  BY <1>1 DEF PageNames
<1>6. PageNames \subseteq PageSet
  BY <1>2, <1>3, <1>5 DEF PageSet
<1>7. PageSet \subseteq PageNames
  BY <1>3, <1>4, <1>5 DEF PageSet
<1> QED
  BY <1>1, <1>5, <1>6, <1>7

LEMMA FiltersAre ==
    {FilterCycle[i] : i \in 1 .. Len(FilterCycle)} = FilterSet
<1>1. Len(FilterCycle) = 6
  BY DEF FilterCycle
<1>2. \A i \in 1 .. 6 : i = 1 \/ i = 2 \/ i = 3 \/ i = 4 \/ i = 5 \/ i = 6
  OBVIOUS
<1>3. /\ FilterCycle[1] = NoFilter /\ FilterCycle[2] = "normal"
      /\ FilterCycle[3] = "observe_only" /\ FilterCycle[4] = "react_only"
      /\ FilterCycle[5] = "audit_only" /\ FilterCycle[6] = "full_disable"
  BY DEF FilterCycle
<1>4. /\ 1 \in 1 .. 6 /\ 2 \in 1 .. 6 /\ 3 \in 1 .. 6 /\ 4 \in 1 .. 6 /\ 5 \in 1 .. 6 /\ 6 \in 1 .. 6
  OBVIOUS
<1> QED
  BY <1>1, <1>2, <1>3, <1>4 DEF FilterSet

\* The next or the one before of a list goes round.
LEMMA Neighbours ==
    ASSUME NEW S, NEW seq \in Seq(S), NEW i \in 1 .. Len(seq)
    PROVE  Following(seq, seq[i]) \in S /\ Preceding(seq, seq[i]) \in S
<1> DEFINE p == Position(seq, seq[i])
<1>1. p \in 1 .. Len(seq)
  BY DEF Position
<1>2. Len(seq) \in Nat /\ Len(seq) > 0
  OBVIOUS
<1> HIDE DEF p
<1>3. (p % Len(seq)) + 1 \in 1 .. Len(seq) /\ ((p + Len(seq) - 2) % Len(seq)) + 1 \in 1 .. Len(seq)
  <2>1. \A a \in Int, n \in Nat : n > 0 => a % n \in 0 .. n - 1
    OBVIOUS
  <2>2. p % Len(seq) \in 0 .. Len(seq) - 1 /\ (p + Len(seq) - 2) % Len(seq) \in 0 .. Len(seq) - 1
    BY <1>1, <1>2, <2>1
  <2> QED
    BY <1>2, <2>2
<1> QED
  BY <1>3, ElementOfSeq DEF Following, Preceding, p
----------------------------------------------------------------------------
(* Types. *)

\* What the selection is of, said of the page's list; a stop is armed only by a last x and
\* never while text is typed; and the log is not longer than its bound.
TuiInv ==
    /\ disk \in Configurations /\ startup \in Configurations /\ draft \in Configurations
    /\ log \in Seq(RowModes) /\ Len(log) <= MaxRows
    /\ rows \subseteq [id : 1 .. MaxRows, mode : RowModes]
    /\ modeFilter \in FilterSet
    /\ screen \in Screens /\ landing \in Screens /\ page \in PageSet
    /\ selected \in Nat
    /\ FieldsOf[page] # <<>> => selected < Len(FieldsOf[page])
    /\ editing \in {NoField, SelectedField} /\ searching \in BOOLEAN
    /\ ~(searching /\ editing # NoField)
    /\ buffer \in Texts
    /\ othersWrote \in BOOLEAN /\ stopArmed \in BOOLEAN /\ stops \in BOOLEAN /\ lastKey \in BOOLEAN
    /\ outcome \in {"Open", "Quit", "Error"}
    /\ stopArmed => lastKey /\ NormalMode

\* The fields of a page.
LEMMA PageFields ==
    ASSUME NEW p \in PageSet
    PROVE  /\ FieldsOf[p] \in Seq(Fields) /\ Len(FieldsOf[p]) \in Nat
           /\ FieldsOf[p] # <<>> <=> Len(FieldsOf[p]) > 0
           /\ \A i \in 1 .. Len(FieldsOf[p]) : FieldsOf[p][i] \in Fields
<1>1. FieldsOf[p] \in Seq(Fields)
  BY PagesAre, OperatorTuiAssumption
<1>2. \A i \in 1 .. Len(FieldsOf[p]) : FieldsOf[p][i] \in Fields
  BY <1>1, ElementOfSeq
<1>3. Len(FieldsOf[p]) \in Nat /\ (FieldsOf[p] # <<>> <=> Len(FieldsOf[p]) > 0)
  BY <1>1
<1> QED
  BY <1>1, <1>2, <1>3

LEMMA SelectedFieldType ==
    ASSUME TuiInv
    PROVE  /\ SelectedField \in Fields \cup {NoField}
           /\ FieldsOf[page] # <<>> => SelectedField # NoField
           /\ SelectedField # NoField => FieldsOf[page] # <<>>
<1>1. page \in PageSet /\ selected \in Nat
      /\ (FieldsOf[page] # <<>> => selected < Len(FieldsOf[page]))
  BY DEF TuiInv
<1>2. selected < Len(FieldsOf[page]) =>
         FieldsOf[page][selected + 1] \in Fields /\ Len(FieldsOf[page]) > 0
  <2> SUFFICES ASSUME selected < Len(FieldsOf[page])
               PROVE  FieldsOf[page][selected + 1] \in Fields /\ Len(FieldsOf[page]) > 0
    OBVIOUS
  <2>1. selected + 1 \in 1 .. Len(FieldsOf[page])
    BY <1>1, PageFields
  <2> QED
    BY <1>1, <2>1, PageFields
<1> QED
  BY <1>1, <1>2, PageFields, OperatorTuiAssumption DEF SelectedField

\* load_audit_state reads rows of the log.
LEMMA LoadAuditType ==
    ASSUME TuiInv, LoadAudit
    PROVE  rows' \subseteq [id : 1 .. MaxRows, mode : RowModes] /\ modeFilter' \in FilterSet
<1>1. /\ log \in Seq(RowModes) /\ Len(log) \in Nat /\ Len(log) <= MaxRows /\ MaxRows \in Nat
  BY OperatorTuiAssumption DEF TuiInv
<1>2. ASSUME NEW i \in NewestRows
      PROVE  [id |-> i, mode |-> log[i]] \in [id : 1 .. MaxRows, mode : RowModes]
  <2>1. i \in 1 .. Len(log)
    BY DEF NewestRows
  <2>2. i \in 1 .. MaxRows /\ log[i] \in RowModes
    BY <1>1, <2>1, ElementOfSeq
  <2> QED
    BY <2>2
<1> QED
  BY <1>2 DEF LoadAudit, FilterSet

\* The keys that change no configuration, and not what is selected or edited.
Looks ==
    /\ UNCHANGED <<disk, startup, othersWrote, draft, page, selected, editing, log, landing>>
    /\ rows' \subseteq [id : 1 .. MaxRows, mode : RowModes] /\ modeFilter' \in FilterSet
    /\ screen' \in Screens /\ searching' \in BOOLEAN /\ ~(searching' /\ editing # NoField)
    /\ buffer' \in Texts
    /\ stopArmed' \in BOOLEAN /\ stops' \in BOOLEAN /\ lastKey' \in BOOLEAN
    /\ outcome' \in {"Open", "Quit", "Error"}
    /\ stopArmed' => lastKey' /\ editing = NoField /\ ~searching'

LEMMA LooksKeep == TuiInv /\ Looks => TuiInv'
<1> SUFFICES ASSUME TuiInv, Looks PROVE TuiInv'
  OBVIOUS
<1>1. SelectedField' = SelectedField
  BY DEF Looks, SelectedField
<1> QED
  BY <1>1 DEF TuiInv, Looks, NormalMode

LEMMA KeyTypes ==
    ASSUME NEW code, Key(code)
    PROVE  /\ stopArmed' = FALSE /\ stops' = FALSE /\ lastKey' \in BOOLEAN
BY DEF Key

LEMMA LookingKeys ==
    ASSUME TuiInv,
           \/ EnterLanding \/ Reload \/ PressX \/ OtherKey \/ Quit
           \/ \E target \in Screens \ {"Welcome"} : ShowScreen(target)
           \/ BeginSearch \/ NextFilter \/ ReloadAudit \/ ApplySearch
    PROVE  Looks
<1> USE DEF configVars, setupVars, auditVars, NormalMode
<1>1. CASE EnterLanding
  BY <1>1, KeyTypes DEF EnterLanding, Looks, TuiInv
<1>2. CASE Reload
  <2>1. LoadAudit /\ Key("R") /\ UNCHANGED <<configVars, log, setupVars, screen, landing, searching, outcome>>
    BY <1>2 DEF Reload
  <2> QED
    BY <2>1, LoadAuditType, KeyTypes DEF Looks, TuiInv
<1>3. CASE PressX
  BY <1>3 DEF PressX, Looks, TuiInv
<1>4. CASE OtherKey
  BY <1>4, KeyTypes DEF OtherKey, GlobalKey, Looks, TuiInv
<1>5. CASE Quit
  BY <1>5, KeyTypes DEF Quit, Looks, TuiInv
<1>6. ASSUME NEW target \in Screens \ {"Welcome"}, ShowScreen(target) PROVE Looks
  BY <1>6, KeyTypes DEF ShowScreen, GlobalKey, Looks, TuiInv
<1>7. CASE BeginSearch
  BY <1>7, KeyTypes DEF BeginSearch, AuditKey, GlobalKey, Looks, TuiInv
<1>8. CASE NextFilter
  <2>1. modeFilter' \in FilterSet
    <3>1. PICK i \in 1 .. Len(FilterCycle) : modeFilter = FilterCycle[i]
      BY FiltersAre DEF TuiInv
    <3>2. FilterCycle \in Seq(FilterSet)
      BY DEF FilterCycle, FilterSet
    <3>3. Following(FilterCycle, FilterCycle[i]) \in FilterSet
      BY <3>2, Neighbours
    <3> QED
      BY <1>8, <3>1, <3>3 DEF NextFilter
  <2> QED
    BY <1>8, <2>1, KeyTypes DEF NextFilter, AuditKey, GlobalKey, Looks, TuiInv
<1>9. CASE ReloadAudit
  <2>1. LoadAudit /\ AuditKey("r") /\ UNCHANGED <<searching, buffer>>
    BY <1>9 DEF ReloadAudit
  <2> QED
    BY <2>1, LoadAuditType, KeyTypes DEF AuditKey, GlobalKey, Looks, TuiInv
<1>10. CASE ApplySearch
  BY <1>10 DEF ApplySearch, TypingKey, Looks, TuiInv
<1> QED
  BY <1>1, <1>2, <1>3, <1>4, <1>5, <1>6, <1>7, <1>8, <1>9, <1>10
\* Every setting keeps one of the three kinds of value.
LEMMA DraftTypes ==
    ASSUME TuiInv, NEW field \in Fields, NEW text \in Texts
    PROVE  /\ RestoreDefault(field) \in Configurations
           /\ Parses(field, text) => Applied(field, text) \in Configurations
           /\ [draft EXCEPT ![SettingOf[field]] = IF @ = "Default" THEN "Good" ELSE "Default"]
                 \in Configurations
<1>1. draft \in [Settings -> Values] /\ SettingOf[field] \in Settings
  BY OperatorTuiAssumption DEF TuiInv, Configurations
<1>2. RestoreDefault(field) \in Configurations
  BY <1>1 DEF RestoreDefault, Configurations, Values
<1>3. Applied(field, text) \in Configurations
  <2>1. CASE text = ""
    BY <1>2, <2>1 DEF Applied
  <2>2. CASE text # "" /\ field \in ToggleFields
    BY <1>1, <2>2 DEF Applied, Configurations
  <2>3. CASE text # "" /\ field \notin ToggleFields
    <3>1. (IF text = "Garbage" THEN "Good" ELSE text) \in Values
      BY <2>3 DEF Texts, Values
    <3>2. Applied(field, text) = [draft EXCEPT ![SettingOf[field]] = IF text = "Garbage" THEN "Good" ELSE text]
      BY <2>3 DEF Applied
    <3> QED
      BY <1>1, <3>1, <3>2 DEF Configurations
  <2> QED
    BY <2>1, <2>2, <2>3
<1>4. [draft EXCEPT ![SettingOf[field]] = IF @ = "Default" THEN "Good" ELSE "Default"] \in Configurations
  BY <1>1 DEF Configurations, Values
<1> QED
  BY <1>2, <1>3, <1>4

\* The keys of the setup screen that turn a page or move the selection.
LEMMA SelectionKeys ==
    ASSUME TuiInv, TurnPage \/ JumpToPreview \/ MoveSelection
    PROVE  TuiInv'
<1> USE DEF configVars, auditVars
<1>1. ASSUME NEW code, SetupKey(code)
      PROVE  /\ UNCHANGED <<configVars, log, screen, landing, auditVars, outcome>>
             /\ NormalMode /\ stopArmed' = FALSE /\ stops' = FALSE /\ lastKey' \in BOOLEAN
  BY <1>1 DEF SetupKey, GlobalKey, Key
<1>2. CASE TurnPage
  <2>1. page' \in PageSet
    <3>1. PICK i \in 1 .. 7 : page = Pages[i]
      BY PagesAre DEF TuiInv, PageNames
    <3>2. Pages \in Seq(PageSet) /\ Len(Pages) = 7
      BY DEF Pages, PageSet
    <3>3. Following(Pages, Pages[i]) \in PageSet /\ Preceding(Pages, Pages[i]) \in PageSet
      BY <3>2, Neighbours
    <3> QED
      BY <1>2, <3>1, <3>3 DEF TurnPage
  <2>2. FieldsOf[page'] # <<>> => 0 < Len(FieldsOf[page'])
    BY <2>1, PageFields
  <2>3. /\ SetupKey("Left") /\ selected' = 0 /\ UNCHANGED <<draft, editing, buffer>>
    BY <1>2 DEF TurnPage
  <2>4. editing' = NoField /\ searching' = searching /\ ~searching'
    BY <1>1, <2>3 DEF NormalMode
  <2> QED
    BY <1>1, <2>1, <2>2, <2>3, <2>4 DEF TuiInv
<1>3. CASE JumpToPreview
  <2>1. page' = "Preview" /\ FieldsOf["Preview"] = <<>>
    BY <1>3, OperatorTuiAssumption DEF JumpToPreview
  <2>2. SetupKey("p") /\ UNCHANGED <<draft, selected, editing, buffer>>
    BY <1>3 DEF JumpToPreview
  <2>3. editing' = NoField /\ searching' = searching /\ ~searching'
    BY <1>1, <2>2 DEF NormalMode
  <2> QED
    BY <1>1, <2>1, <2>2, <2>3 DEF TuiInv, PageSet
<1>4. CASE MoveSelection
  <2>1. SetupKey("Up") /\ UNCHANGED <<draft, page, editing, buffer>>
    BY <1>4 DEF MoveSelection
  <2>2. editing' = NoField /\ searching' = searching /\ ~searching'
    BY <1>1, <2>1 DEF NormalMode
  <2>3. selected' \in Nat /\ (FieldsOf[page] # <<>> => selected' < Len(FieldsOf[page]))
    <3>1. /\ selected \in Nat /\ Len(FieldsOf[page]) \in Nat
          /\ FieldsOf[page] # <<>> => selected < Len(FieldsOf[page])
      BY PageFields DEF TuiInv
    <3> QED
      BY <1>4, <3>1 DEF MoveSelection
  <2> QED
    BY <1>1, <2>1, <2>2, <2>3 DEF TuiInv
<1> QED
  BY <1>2, <1>3, <1>4

\* The keys that edit the draft.
LEMMA DraftKeys ==
    ASSUME TuiInv, ApplyDefault \/ Cycle \/ BeginEdit
    PROVE  TuiInv'
<1> USE DEF configVars, auditVars
<1>1. ASSUME NEW code, SetupKey(code)
      PROVE  /\ UNCHANGED <<configVars, log, screen, landing, auditVars, outcome>>
             /\ editing = NoField /\ ~searching
             /\ stopArmed' = FALSE /\ stops' = FALSE /\ lastKey' \in BOOLEAN
  BY <1>1 DEF SetupKey, GlobalKey, Key, NormalMode
<1>2. UNCHANGED <<page, selected>>
  BY DEF ApplyDefault, Cycle, BeginEdit
<1>3. SelectedField' = SelectedField
  BY <1>2 DEF SelectedField
<1>4. SelectedField \in Fields \cup {NoField}
  BY SelectedFieldType
<1>5. CASE ApplyDefault
  <2>1. /\ SetupKey("d") /\ SelectedField \in Fields /\ draft' = RestoreDefault(SelectedField)
        /\ UNCHANGED <<editing, buffer>>
    BY <1>4, <1>5 DEF ApplyDefault
  <2>2. "Good" \in Texts
    BY DEF Texts
  <2>3. draft' \in Configurations
    BY <2>1, <2>2, DraftTypes
  <2> QED
    BY <1>1, <1>2, <1>3, <2>1, <2>3 DEF TuiInv
<1>6. CASE Cycle
  <2>1. SetupKey("Space") /\ SelectedField \in Fields /\ UNCHANGED <<editing, buffer>>
    BY <1>4, <1>6, OperatorTuiAssumption DEF Cycle
  <2>2. "Good" \in Texts
    BY DEF Texts
  <2>3. draft' \in Configurations
    BY <1>6, <2>1, <2>2, DraftTypes DEF Cycle
  <2> QED
    BY <1>1, <1>2, <1>3, <2>1, <2>3 DEF TuiInv
<1>7. CASE BeginEdit
  <2>1. SetupKey("e") /\ editing' = SelectedField /\ buffer' = "" /\ draft' = draft
    BY <1>7 DEF BeginEdit
  <2>2. buffer' \in Texts
    BY <2>1 DEF Texts
  <2> QED
    BY <1>1, <1>2, <1>3, <2>1, <2>2 DEF TuiInv
<1> QED
  BY <1>5, <1>6, <1>7

LEMMA SavingKeys ==
    ASSUME TuiInv, Save \/ SaveFails
    PROVE  TuiInv'
<1> USE DEF setupVars
<1>1. UNCHANGED <<page, selected, draft, editing, buffer, log, screen, landing, searching>>
  BY DEF Save, SaveFails, auditVars
<1>2. SelectedField' = SelectedField
  BY <1>1 DEF SelectedField
<1>3. CASE Save
  <2>1. /\ GlobalKey("s") /\ LoadAudit /\ disk' = draft /\ startup' = disk' /\ othersWrote' = FALSE
    BY <1>3 DEF Save
  <2>2. stopArmed' = FALSE /\ stops' = FALSE /\ lastKey' \in BOOLEAN /\ outcome' = outcome
    BY <2>1 DEF GlobalKey, Key
  <2> QED
    BY <1>1, <1>2, <2>1, <2>2, LoadAuditType DEF TuiInv
<1>4. CASE SaveFails
  <2>1. /\ disk' \in {disk, draft} /\ UNCHANGED <<startup, othersWrote, rows, modeFilter>>
        /\ outcome' = "Error" /\ stopArmed' = FALSE /\ stops' = FALSE /\ lastKey' \in BOOLEAN
    BY <1>4 DEF SaveFails, Key, auditVars
  <2> QED
    BY <1>1, <1>2, <2>1 DEF TuiInv
<1> QED
  BY <1>3, <1>4

\* Typed text: the stop was disarmed by the key that began it.
LEMMA TypingKeys ==
    ASSUME TuiInv, TypeText \/ CancelInput \/ ApplyInput \/ RefuseInput
    PROVE  TuiInv'
<1> USE DEF configVars, setupVars, auditVars
<1>1. /\ UNCHANGED <<disk, startup, othersWrote, log, screen, landing, stopArmed>>
      /\ stops' = FALSE /\ lastKey' = FALSE /\ ~NormalMode
      /\ UNCHANGED <<page, selected, rows, modeFilter>>
  BY DEF TypeText, CancelInput, ApplyInput, RefuseInput, TypingKey
<1>2. stopArmed = FALSE
  BY <1>1 DEF TuiInv
<1>3. SelectedField' = SelectedField
  BY <1>1 DEF SelectedField
<1>4. CASE TypeText
  BY <1>1, <1>2, <1>3, <1>4 DEF TypeText, TuiInv
<1>5. CASE CancelInput
  BY <1>1, <1>2, <1>3, <1>5 DEF CancelInput, TuiInv
<1>6. CASE ApplyInput
  <2>1. editing \in Fields /\ buffer \in Texts
    BY <1>6, SelectedFieldType DEF ApplyInput, TuiInv
  <2>2. draft' \in Configurations
    BY <1>6, <2>1, DraftTypes DEF ApplyInput
  <2>3. "" \in Texts
    BY DEF Texts
  <2> QED
    BY <1>1, <1>2, <1>3, <1>6, <2>2, <2>3 DEF ApplyInput, TuiInv
<1>7. CASE RefuseInput
  BY <1>1, <1>2, <1>3, <1>7 DEF RefuseInput, TuiInv
<1> QED
  BY <1>4, <1>5, <1>6, <1>7

\* What goes on beside the program.
LEMMA OthersKeep ==
    ASSUME TuiInv, BotWrites \/ ForcedInit
    PROVE  TuiInv'
<1> USE DEF setupVars, auditVars
<1>1. /\ UNCHANGED <<page, selected, draft, editing, buffer, screen, landing, rows, modeFilter>>
      /\ UNCHANGED <<searching, stopArmed, outcome, lastKey, startup>> /\ stops' = FALSE
  BY DEF BotWrites, ForcedInit, configVars
<1>2. SelectedField' = SelectedField /\ (NormalMode' <=> NormalMode)
  BY <1>1 DEF SelectedField, NormalMode
<1>3. CASE BotWrites
  <2>1. PICK mode \in RowModes : log' = Append(log, mode)
    BY <1>3 DEF BotWrites
  <2>2. log \in Seq(RowModes) /\ Len(log) < MaxRows /\ MaxRows \in Nat /\ Len(log) \in Nat
    BY <1>3, OperatorTuiAssumption DEF BotWrites, TuiInv
  <2>3. log' \in Seq(RowModes) /\ Len(log') <= MaxRows
    BY <2>1, <2>2
  <2>4. UNCHANGED <<disk, othersWrote>>
    BY <1>3 DEF BotWrites, configVars
  <2> QED
    BY <1>1, <1>2, <2>3, <2>4 DEF TuiInv
<1>4. CASE ForcedInit
  <2>1. disk' \in Configurations /\ othersWrote' = TRUE /\ log' = log
    BY <1>4 DEF ForcedInit, Configurations, Values
  <2> QED
    BY <1>1, <1>2, <2>1 DEF TuiInv
<1> QED
  BY <1>3, <1>4

LEMMA TuiInvHolds == TuiSpec => []TuiInv
<1>1. TuiInit => TuiInv
  <2> SUFFICES ASSUME TuiInit PROVE TuiInv
    OBVIOUS
  <2>1. /\ page \in PageSet /\ selected = 0
        /\ FieldsOf[page] # <<>> => selected < Len(FieldsOf[page])
    BY PageFields DEF TuiInit, PageSet
  <2>2. log = <<>> /\ log \in Seq(RowModes) /\ Len(log) <= MaxRows
    <3>1. log = <<>> /\ MaxRows \in Nat
      BY OperatorTuiAssumption DEF TuiInit
    <3>2. <<>> \in Seq(RowModes) /\ Len(<<>>) = 0
      BY EmptySeq
    <3> QED
      BY <3>1, <3>2
  <2>3. disk \in Configurations /\ startup = disk /\ draft = disk
    BY DEF TuiInit
  <2>4. screen \in Screens /\ landing \in Screens /\ buffer \in Texts /\ modeFilter \in FilterSet
    BY DEF TuiInit, Screens, Texts, FilterSet
  <2>5. /\ rows = {} /\ editing = NoField /\ searching = FALSE /\ othersWrote = FALSE
        /\ stopArmed = FALSE /\ stops = FALSE /\ lastKey = FALSE /\ outcome = "Open"
    BY DEF TuiInit
  <2> QED
    BY <2>1, <2>2, <2>3, <2>4, <2>5 DEF TuiInv
<1>2. TuiInv /\ [TuiNext]_tuiVars => TuiInv'
  <2> SUFFICES ASSUME TuiInv, [TuiNext]_tuiVars PROVE TuiInv'
    OBVIOUS
  <2>1. CASE UNCHANGED tuiVars
    <3>1. Looks
      BY <2>1 DEF tuiVars, configVars, setupVars, auditVars, historyVars, Looks, TuiInv, NormalMode
    <3> QED
      BY <3>1, LooksKeep
  <2>2. CASE TuiNext
    BY <2>2, LookingKeys, LooksKeep, SelectionKeys, DraftKeys, SavingKeys, TypingKeys, OthersKeep
       DEF TuiNext
  <2> QED
    BY <2>1, <2>2
<1> QED
  BY <1>1, <1>2, PTL DEF TuiSpec

\* The program's state has its types, the selection names a field of every page with fields,
\* and text is typed for one thing at a time.
THEOREM TuiTypesCorrect == TuiSpec => []TuiTypeOK
<1>1. TuiInv => TuiTypeOK
  <2> SUFFICES ASSUME TuiInv PROVE TuiTypeOK
    OBVIOUS
  <2>1. FieldsOf[page] # <<>> => SelectedField # NoField
    BY SelectedFieldType
  <2> QED
    BY <2>1, PagesAre, FiltersAre DEF TuiInv, TuiTypeOK
<1> QED
  BY <1>1, TuiInvHolds, PTL

----------------------------------------------------------------------------
(* What the operator sees and what becomes of it. *)

\* Every step but a save, a write beside the program and the end of it leaves the file and
\* what is shown of it alone.
LEMMA FileKinds ==
    ASSUME [TuiNext]_tuiVars
    PROVE  \/ UNCHANGED configVars /\ (outcome' = "Open" => outcome = "Open")
           \/ Save \/ SaveFails \/ ForcedInit
<1>1. CASE UNCHANGED tuiVars
  BY <1>1 DEF tuiVars
<1>2. CASE TuiNext
  BY <1>2 DEF TuiNext, EnterLanding, Reload, PressX, OtherKey, Quit, ShowScreen, TurnPage, JumpToPreview,
     MoveSelection, ApplyDefault, Cycle, BeginEdit, TypeText, CancelInput, ApplyInput, RefuseInput,
     ApplySearch, BeginSearch, NextFilter, ReloadAudit, BotWrites, SetupKey, AuditKey, GlobalKey, Key,
     TypingKey
<1> QED
  BY <1>1, <1>2

\* Unless another process wrote the file, the configuration shown is the one in it, also
\* after saves that failed: those end the program.
THEOREM ShownIsOnDisk == TuiSpec => []ShowsWhatIsOnDisk
<1>1. TuiInit => ShowsWhatIsOnDisk
  BY DEF TuiInit, ShowsWhatIsOnDisk
<1>2. ShowsWhatIsOnDisk /\ [TuiNext]_tuiVars => ShowsWhatIsOnDisk'
  BY FileKinds DEF ShowsWhatIsOnDisk, configVars, Save, SaveFails, ForcedInit
<1> QED
  BY <1>1, <1>2, PTL DEF TuiSpec

\* The file only ever gets the draft, from the page that shows it and when it is valid, or
\* what another process writes.
THEOREM SavesArePreviewed == TuiSpec => SavesWhatWasPreviewed
<1> DEFINE Saved == disk' # disk => \/ disk' = draft /\ page = "Preview" /\ Validates(draft)
                                    \/ othersWrote' /\ Validates(disk')
<1>1. [TuiNext]_tuiVars => Saved
  <2> SUFFICES ASSUME [TuiNext]_tuiVars PROVE Saved
    OBVIOUS
  <2>1. CASE UNCHANGED configVars
    BY <2>1 DEF configVars
  <2>2. CASE Save \/ SaveFails
    BY <2>2 DEF Save, SaveFails
  <2>3. CASE ForcedInit
    BY <2>3 DEF ForcedInit, Validates
  <2> QED
    BY <2>1, <2>2, <2>3, FileKinds
<1>2. [TuiNext]_tuiVars => [Saved]_tuiVars
  BY <1>1
<1> QED
  BY <1>2, PTL DEF TuiSpec, SavesWhatWasPreviewed

\* A stop is sent by the second of two x on the same screen, whatever other keys, texts and
\* writes come between: only x arms it, and an armed stop means that x was the last key.
THEOREM StopsTakeTwoPresses == TuiSpec => StopTakesTwoPresses
<1> DEFINE Twice == stops' => stopArmed /\ lastKey /\ screen' = screen
<1>1. TuiInv /\ [TuiNext]_tuiVars => [Twice]_tuiVars
  <2> SUFFICES ASSUME TuiInv, TuiNext PROVE Twice
    OBVIOUS
  <2>1. CASE PressX
    BY <2>1 DEF PressX, TuiInv
  <2>2. CASE ~PressX
    <3>1. stops' = FALSE
      BY <2>2 DEF TuiNext, EnterLanding, Reload, OtherKey, Quit, ShowScreen, TurnPage, JumpToPreview,
         MoveSelection, ApplyDefault, Cycle, BeginEdit, Save, SaveFails, TypeText, CancelInput, ApplyInput,
         RefuseInput, ApplySearch, BeginSearch, NextFilter, ReloadAudit, BotWrites, ForcedInit,
         SetupKey, AuditKey, GlobalKey, Key, TypingKey
    <3> QED
      BY <3>1
  <2> QED
    BY <2>1, <2>2
<1> QED
  BY <1>1, TuiInvHolds, PTL DEF TuiSpec, StopTakesTwoPresses
=============================================================================
