-------------------------- MODULE PanelInputsProofs --------------------------
(***************************************************************************)
(* What is proved of the panel's inputs: the types and the guard, that no  *)
(* automatic run uses half-typed input, and that no run uses an own-ship   *)
(* field, a set and rate or a leeway box that is greyed out.               *)
(***************************************************************************)
EXTENDS PanelInputs, TLAPS

(***************************************************************************)
(* The inductive invariant.  A field that is half-typed has the focus and  *)
(* is marked modified, which is all a run can see of it; what is enabled   *)
(* is a matter of the boxes and the file alone; and a current result was   *)
(* read from the inputs as they are.                                       *)
(***************************************************************************)
HalfTypedIsSeen == half \subseteq modified \cap {focus}
EnabledFollows  == enabled = {"craft"} \cup NotLocked(checked) \cup ForDrift(grib)
CurrentIsRead   == result = "current" => used = Reads

PanelInv ==
  /\ TypeOK /\ HalfTypedIsSeen /\ ResultIgnoresHalfTyped
  /\ EnabledFollows /\ CurrentIsRead

\* Which fields the boxes leave enabled.
LEMMA LocksLeave ==
  ASSUME NEW boxes \in [Boxes -> BOOLEAN]
  PROVE  /\ NotLocked(boxes) \subseteq {"position", "time", "own_pos", "own_sog"}
         /\ "own_pos" \in NotLocked(boxes) <=> ~boxes["use_gps_pos"]
         /\ "own_sog" \in NotLocked(boxes) <=> ~boxes["use_gps_sog"]
  BY DEF NotLocked

\* What a run would read depends on the inputs only.
LEMMA ReadsFromInputs ==
  ASSUME UNCHANGED inputVars
  PROVE  Reads' = Reads /\ (EnabledFollows => EnabledFollows')
  BY DEF inputVars, Reads, HavePosition, Speed, Shown, ForDrift, EnabledFollows, NotLocked

\* What a run reads is of its type.
LEMMA ReadsType ==
  ASSUME TypeOK
  PROVE  Reads \in [controls : SUBSET Controls, sog : {"none", "some"}]
<1>1. Speed \in {"none", "some"}
  BY DEF TypeOK, Speed, Shown
<1> QED  BY <1>1 DEF Reads, HavePosition, ForDrift, Controls, Fields, Others

(***************************************************************************)
(* What a run leaves behind: the guard goes with the error dialog, and     *)
(* what it shows was read now, by an automatic run only when nobody was    *)
(* typing.                                                                 *)
(***************************************************************************)
LEMMA RunEffect ==
  ASSUME NEW automatic \in BOOLEAN, TypeOK, ~automatic => Operable,
         RunRecalculate(automatic)
  PROVE  /\ m_recalc_running' \in BOOLEAN /\ dialog' \in {"none", "error", "grib"}
         /\ dialog' = "error" <=> m_recalc_running'
         /\ \/ UNCHANGED <<result, used, modified>>
            \/ /\ result' = "current" /\ used' = Reads
               /\ modified' \in {modified, {}}
               /\ automatic => ~BeingEdited
<1>1. CASE m_recalc_running
  BY <1>1 DEF RunRecalculate, runVars, TypeOK
<1>2. CASE ~m_recalc_running /\ Reports(automatic)
  BY <1>2 DEF Reports, TypeOK, Operable
<1>3. CASE ~m_recalc_running /\ ~(automatic /\ BeingEdited) /\ (Throws \/ Calculates)
  BY <1>3 DEF Throws, Calculates, TypeOK
<1> QED  BY <1>1, <1>2, <1>3 DEF RunRecalculate, DoRecalculate, TypeOK

\* A handler that only moves the focus, or opens or closes a dialog.
LEMMA UntouchedInputs ==
  ASSUME PanelInv, UNCHANGED <<inputVars, modified, result, used>>,
         focus' \in Fields \cup {"elsewhere"}, half' \subseteq half \cap {focus'},
         m_auto_timer' \in BOOLEAN, due' \in BOOLEAN, failing' \in BOOLEAN,
         m_recalc_running' \in BOOLEAN, dialog' \in {"none", "error", "grib"},
         dialog' = "error" <=> m_recalc_running'
  PROVE  PanelInv'
<1>1. TypeOK'
  BY DEF PanelInv, TypeOK, inputVars, Shown
<1>2. HalfTypedIsSeen' /\ ResultIgnoresHalfTyped'
  BY DEF PanelInv, HalfTypedIsSeen, ResultIgnoresHalfTyped
<1>3. EnabledFollows' /\ CurrentIsRead'
  BY ReadsFromInputs DEF PanelInv, CurrentIsRead
<1> QED  BY <1>1, <1>2, <1>3 DEF PanelInv

\* A handler that changes an input: the result is no longer current.
LEMMA ChangedInputs ==
  ASSUME PanelInv, InputChanged, TypeOK', HalfTypedIsSeen', EnabledFollows'
  PROVE  PanelInv'
<1>1. result' # "current"
  BY DEF InputChanged
<1> QED  BY <1>1 DEF PanelInv, ResultIgnoresHalfTyped, CurrentIsRead

\* A run: half-typed input has gone, or the run was automatic and left it.
LEMMA RunKeeps ==
  ASSUME NEW automatic \in BOOLEAN, PanelInv, ~automatic => Operable,
         RunRecalculate(automatic), UNCHANGED inputVars, failing' = failing,
         focus' \in Fields \cup {"elsewhere"},
         IF automatic THEN UNCHANGED <<focus, half>> ELSE half' = {},
         m_auto_timer' \in BOOLEAN, due' \in BOOLEAN
  PROVE  PanelInv'
<1>1. TypeOK
  BY DEF PanelInv
<1>2. /\ m_recalc_running' \in BOOLEAN /\ dialog' \in {"none", "error", "grib"}
      /\ dialog' = "error" <=> m_recalc_running'
  BY <1>1, RunEffect
<1>3. CASE UNCHANGED <<result, used, modified>>
  <2>1. half' \subseteq half \cap {focus'}
    BY DEF PanelInv, HalfTypedIsSeen
  <2>2. failing' \in BOOLEAN
    BY <1>1 DEF TypeOK
  <2> QED  BY <1>2, <1>3, <2>1, <2>2, UntouchedInputs
<1>4. CASE /\ result' = "current" /\ used' = Reads
           /\ modified' \in {modified, {}}
           /\ automatic => ~BeingEdited
  <2>1. half' = {}
    BY <1>4 DEF PanelInv, HalfTypedIsSeen, BeingEdited
  <2>2. used' \in [controls : SUBSET Controls, sog : {"none", "some"}]
    BY <1>1, <1>4, ReadsType
  <2>3. TypeOK'
    BY <1>1, <1>2, <1>4, <2>1, <2>2 DEF TypeOK, inputVars, Shown
  <2>4. EnabledFollows' /\ CurrentIsRead'
    BY <1>4, ReadsFromInputs DEF PanelInv, CurrentIsRead
  <2> QED  BY <2>1, <2>3, <2>4 DEF PanelInv, HalfTypedIsSeen, ResultIgnoresHalfTyped
<1> QED  BY <1>1, <1>3, <1>4, RunEffect
-----------------------------------------------------------------------------
LEMMA PanelInit == Init => PanelInv
<1> SUFFICES ASSUME Init PROVE PanelInv
  OBVIOUS
<1>1. TypeOK
  <2>1. checked \in [Boxes -> BOOLEAN]
    <3>1. checked = [b \in Boxes |-> b \in {"use_gps_pos", "use_gps_sog"}]
      BY DEF Init
    <3>2. \A b \in Boxes : (b \in {"use_gps_pos", "use_gps_sog"}) \in BOOLEAN
      OBVIOUS
    <3> QED  BY <3>1, <3>2, Zenon
  <2>2. enabled \subseteq Controls /\ text \in [Fields -> {"empty", "bad", "valid"}]
    BY DEF Init
  <2>3. used \in [controls : SUBSET Controls, sog : {"none", "some"}]
    BY DEF Init, NothingUsed
  <2>4. m_gps_sog_ctrl = Shown(fix) /\ fix \in {"none", "nosog", "sog"}
    BY DEF Init
  <2> QED  BY <2>1, <2>2, <2>3, <2>4 DEF Init, TypeOK
<1>2. EnabledFollows
  BY DEF Init, EnabledFollows, NotLocked, ForDrift, Boxes, Controls, Fields, Others
<1> QED  BY <1>1, <1>2 DEF Init, PanelInv, HalfTypedIsSeen, ResultIgnoresHalfTyped, CurrentIsRead

LEMMA PanelStep == PanelInv /\ [Next]_vars => PanelInv'
<1> SUFFICES ASSUME PanelInv, [Next]_vars PROVE PanelInv'
  OBVIOUS
<1>T. TypeOK /\ HalfTypedIsSeen /\ EnabledFollows
  BY DEF PanelInv
<1>1. ASSUME NEW f \in Fields, NEW t \in {"empty", "bad", "valid"}, Type(f, t)
      PROVE  PanelInv'
  <2>1. TypeOK'
    BY <1>T, <1>1 DEF Type, TypeOK, InputChanged, NothingUsed, Shown, timerVars
  <2>2. HalfTypedIsSeen'
    BY <1>1 DEF Type, HalfTypedIsSeen
  <2>3. EnabledFollows'
    BY <1>T, <1>1 DEF Type, EnabledFollows, NotLocked, ForDrift
  <2> QED  BY <1>1, <2>1, <2>2, <2>3, ChangedInputs DEF Type
<1>2. ASSUME NEW f \in Fields \cup {"elsewhere"}, ClickField(f)
      PROVE  PanelInv'
  BY <1>T, <1>2, UntouchedInputs DEF ClickField, MoveFocus, TypeOK, timerVars, runVars
<1>3. ASSUME NEW c \in Others, NEW v \in {"none", "some"}, Enter(c, v)
      PROVE  PanelInv'
  <2>1. TypeOK'
    BY <1>T, <1>3 DEF Enter, TypeOK, MoveFocus, InputChanged, NothingUsed, Shown, timerVars
  <2>2. HalfTypedIsSeen'
    BY <1>T, <1>3 DEF Enter, MoveFocus, HalfTypedIsSeen
  <2>3. EnabledFollows'
    BY <1>T, <1>3 DEF Enter, EnabledFollows, NotLocked, ForDrift
  <2> QED  BY <1>3, <2>1, <2>2, <2>3, ChangedInputs DEF Enter
<1>4. ASSUME NEW b \in Boxes, OnLockToggled(b)
      PROVE  PanelInv'
  <2>1. checked' \in [Boxes -> BOOLEAN] /\ checked \in [Boxes -> BOOLEAN]
    BY <1>T, <1>4 DEF OnLockToggled, TypeOK
  <2>2. enabled' = {"craft"} \cup NotLocked(checked') \cup ForDrift(grib)
    <3>1. enabled' = (enabled \cap {"set_drift", "leeway", "craft"}) \cup NotLocked(checked')
      BY <1>4 DEF OnLockToggled
    <3>2. NotLocked(checked) \subseteq {"position", "time", "own_pos", "own_sog"}
      BY <2>1, LocksLeave
    <3>3. enabled = {"craft"} \cup NotLocked(checked) \cup ForDrift(grib)
      BY <1>T DEF EnabledFollows
    <3>4. ForDrift(grib) \subseteq {"set_drift", "leeway"}
      BY DEF ForDrift
    <3>5. enabled \cap {"set_drift", "leeway", "craft"} = {"craft"} \cup ForDrift(grib)
      BY <3>2, <3>3, <3>4
    <3> QED  BY <3>1, <3>5
  <2>3. EnabledFollows'
    BY <1>4, <2>2 DEF OnLockToggled, EnabledFollows, NotLocked, ForDrift
  <2>4. enabled' \subseteq Controls
    BY <2>1, <2>2, LocksLeave DEF ForDrift, Controls, Fields, Others
  <2>5. focus' \in Fields \cup {"elsewhere"}
    BY <1>T, <1>4 DEF OnLockToggled, TypeOK
  <2>6. PICK seeded \in SUBSET Fields :
           /\ modified' = modified \ seeded /\ half' = (half \cap {focus'}) \ seeded
           /\ text' = [f \in Fields |-> IF f \in seeded THEN "valid" ELSE text[f]]
    <3> DEFINE seedPos == ~[checked EXCEPT ![b] = ~@]["use_gps_pos"]
                          /\ text["own_pos"] = "empty" /\ fix # "none"
    <3>1. (IF seedPos THEN {"own_pos"} ELSE {}) \in SUBSET Fields
      BY DEF Fields
    <3> QED  BY <1>4, <3>1 DEF OnLockToggled
  <2>7. own_sog' \in {"none", "some"}
    BY <1>T, <1>4 DEF OnLockToggled, TypeOK
  <2>8. text' \in [Fields -> {"empty", "bad", "valid"}]
    BY <1>T, <2>6 DEF TypeOK
  <2>9. modified' \subseteq Fields /\ half' \subseteq Fields
    BY <1>T, <2>6 DEF TypeOK
  <2>10. InputChanged /\ UNCHANGED <<fix, m_gps_sog_ctrl, grib, m_auto_timer, due, failing,
                                     m_recalc_running, dialog>>
    BY <1>4 DEF OnLockToggled, timerVars
  <2>11. TypeOK'
    BY <1>T, <2>1, <2>4, <2>5, <2>7, <2>8, <2>9, <2>10
       DEF TypeOK, InputChanged, NothingUsed, Shown
  <2>12. HalfTypedIsSeen'
    BY <1>T, <2>6 DEF HalfTypedIsSeen
  <2> QED  BY <2>3, <2>10, <2>11, <2>12, ChangedInputs
<1>5. CASE OnBrowseGrib
  BY <1>T, <1>5, UntouchedInputs
     DEF OnBrowseGrib, MoveFocus, Operable, TypeOK, timerVars
<1>6. ASSUME NEW have_grib \in BOOLEAN, grib' = have_grib, UpdateGribLock(have_grib),
             checked' = checked
      PROVE  EnabledFollows' /\ enabled' \subseteq Controls
  <2>1. checked \in [Boxes -> BOOLEAN]
    BY <1>T DEF TypeOK
  <2>2. NotLocked(checked) \subseteq {"position", "time", "own_pos", "own_sog"}
    BY <2>1, LocksLeave
  <2>3. enabled \ {"set_drift", "leeway"} = {"craft"} \cup NotLocked(checked)
    BY <1>T, <2>2 DEF EnabledFollows, ForDrift
  <2>4. enabled' = {"craft"} \cup NotLocked(checked) \cup ForDrift(have_grib)
    BY <1>6, <2>3 DEF UpdateGribLock
  <2>5. EnabledFollows'
    BY <1>6, <2>4 DEF EnabledFollows, NotLocked, ForDrift
  <2> QED  BY <2>2, <2>4, <2>5 DEF ForDrift, Controls, Fields, Others
<1>7. CASE ChooseGrib
  <2>1. EnabledFollows' /\ enabled' \subseteq Controls
    BY <1>6, <1>7 DEF ChooseGrib
  <2>2. TypeOK'
    BY <1>T, <1>7, <2>1 DEF ChooseGrib, TypeOK, focusVars, timerVars, InputChanged,
                            NothingUsed, Shown
  <2>3. HalfTypedIsSeen'
    BY <1>T, <1>7 DEF ChooseGrib, HalfTypedIsSeen, focusVars
  <2> QED  BY <1>7, <2>1, <2>2, <2>3, ChangedInputs DEF ChooseGrib
<1>8. CASE CancelBrowse
  BY <1>T, <1>8, UntouchedInputs
     DEF CancelBrowse, TypeOK, HalfTypedIsSeen, focusVars, timerVars
<1>9. CASE OnClearGrib
  <2>1. EnabledFollows' /\ enabled' \subseteq Controls
    BY <1>6, <1>9 DEF OnClearGrib
  <2>2. TypeOK'
    BY <1>T, <1>9, <2>1 DEF OnClearGrib, TypeOK, MoveFocus, timerVars, InputChanged,
                            NothingUsed, Shown
  <2>3. HalfTypedIsSeen'
    BY <1>T, <1>9 DEF OnClearGrib, MoveFocus, HalfTypedIsSeen
  <2> QED  BY <1>9, <2>1, <2>2, <2>3, ChangedInputs DEF OnClearGrib
<1>10. ASSUME NEW speed \in {"nosog", "sog"}, SetPositionFix(speed)
       PROVE  PanelInv'
  <2>1. TypeOK'
    BY <1>T, <1>10 DEF SetPositionFix, TypeOK, focusVars, timerVars, InputChanged,
                       NothingUsed, Shown
  <2>2. HalfTypedIsSeen'
    BY <1>T, <1>10 DEF SetPositionFix, HalfTypedIsSeen, focusVars
  <2>3. EnabledFollows'
    BY <1>T, <1>10 DEF SetPositionFix, EnabledFollows, NotLocked, ForDrift
  <2> QED  BY <1>10, <2>1, <2>2, <2>3, ChangedInputs DEF SetPositionFix
<1>11. CASE Fault \/ Elapse
  <2>1. UNCHANGED <<inputVars, focusVars, runVars>>
    BY <1>11 DEF Fault, Elapse
  <2>2. m_auto_timer' \in BOOLEAN /\ due' \in BOOLEAN /\ failing' \in BOOLEAN
    <3>1. CASE Fault
      <4>1. failing' \in BOOLEAN
        BY <3>1, Zenon DEF Fault
      <4> QED  BY <1>T, <3>1, <4>1 DEF Fault, timerVars, TypeOK
    <3>2. CASE Elapse
      BY <1>T, <3>2 DEF Elapse, TypeOK
    <3> QED  BY <1>11, <3>1, <3>2
  <2> QED  BY <1>T, <2>1, <2>2, UntouchedInputs
              DEF TypeOK, HalfTypedIsSeen, focusVars, runVars
<1>12. CASE OnRecalculate
  <2>1. RunRecalculate(FALSE) /\ Operable /\ UNCHANGED inputVars /\ failing' = failing
    BY <1>12 DEF OnRecalculate
  <2>2. focus' \in Fields \cup {"elsewhere"} /\ half' = {}
    BY <1>T, <1>12 DEF OnRecalculate, TypeOK
  <2>3. m_auto_timer' \in BOOLEAN /\ due' \in BOOLEAN
    BY <1>T, <1>12 DEF OnRecalculate, TypeOK, timerVars
  <2> QED  BY <2>1, <2>2, <2>3, RunKeeps
<1>13. CASE OnAutoTimer
  <2>1. RunRecalculate(TRUE) /\ UNCHANGED <<inputVars, focus, half, failing>>
    BY <1>13 DEF OnAutoTimer
  <2>2. focus' \in Fields \cup {"elsewhere"}
    BY <1>T, <2>1 DEF TypeOK
  <2>3. m_auto_timer' \in BOOLEAN /\ due' \in BOOLEAN
    BY <1>T, <1>13 DEF OnAutoTimer, TypeOK
  <2> QED  BY <2>1, <2>2, <2>3, RunKeeps
<1>14. CASE OnAutoToggled
  <2>1. UNCHANGED <<inputVars, focus, half, failing>>
    BY <1>14 DEF OnAutoToggled
  <2>2. m_auto_timer' \in BOOLEAN /\ due' \in BOOLEAN
    BY <1>T, <1>14 DEF OnAutoToggled, TypeOK
  <2>3. focus' \in Fields \cup {"elsewhere"}
    BY <1>T, <2>1 DEF TypeOK
  <2>4. CASE m_auto_timer'
    <3>1. RunRecalculate(TRUE)
      BY <1>14, <2>4 DEF OnAutoToggled
    <3> QED  BY <2>1, <2>2, <2>3, <3>1, RunKeeps
  <2>5. CASE ~m_auto_timer'
    <3>1. UNCHANGED <<runVars, modified>>
      BY <1>14, <2>5 DEF OnAutoToggled
    <3> QED  BY <1>T, <2>1, <2>2, <2>3, <3>1, UntouchedInputs
                DEF TypeOK, HalfTypedIsSeen, runVars
  <2> QED  BY <2>4, <2>5
<1>15. CASE OnAutoIntervalChanged
  BY <1>T, <1>15, UntouchedInputs
     DEF OnAutoIntervalChanged, MoveFocus, TypeOK, runVars
<1>16. CASE CloseErrorDialog
  BY <1>T, <1>16, UntouchedInputs
     DEF CloseErrorDialog, TypeOK, HalfTypedIsSeen, focusVars, timerVars
<1>17. CASE UNCHANGED vars
  BY <1>T, <1>17, UntouchedInputs
     DEF vars, focusVars, timerVars, runVars, TypeOK, HalfTypedIsSeen
<1> QED  BY <1>1, <1>2, <1>3, <1>4, <1>5, <1>7, <1>8, <1>9, <1>10, <1>11, <1>12, <1>13,
            <1>14, <1>15, <1>16, <1>17 DEF Next
-----------------------------------------------------------------------------
THEOREM PanelInputsInv == Spec => []PanelInv
  BY PanelInit, PanelStep, PTL DEF Spec

(***************************************************************************)
(* The types, and that the guard against nested runs is held exactly while *)
(* the error dialog is open (intercept_panel.cpp:621).                     *)
(***************************************************************************)
THEOREM PanelInputsTypeCorrect == Spec => []TypeOK
<1>1. PanelInv => TypeOK
  BY DEF PanelInv
<1> QED  BY <1>1, PanelInputsInv, PTL

(***************************************************************************)
(* No automatic run uses a position that is half-typed                     *)
(* (intercept_panel.cpp:634-647).                                          *)
(***************************************************************************)
THEOREM HalfTypedNeverUsed == Spec => []ResultIgnoresHalfTyped
<1>1. PanelInv => ResultIgnoresHalfTyped
  BY DEF PanelInv
<1> QED  BY <1>1, PanelInputsInv, PTL

(***************************************************************************)
(* No run uses own-ship's fields, set and rate or the leeway box when they *)
(* are greyed out (intercept_panel.cpp:517); the fields of the report are  *)
(* greyed out only to be left as they are, and are used.                   *)
(***************************************************************************)
THEOREM GreyedOutNeverUsed == Spec => []GreyedOutIsNotUsed
<1>1. PanelInv => GreyedOutIsNotUsed
  <2> SUFFICES ASSUME PanelInv, result = "current" PROVE GreyedOutIsNotUsed
    BY DEF GreyedOutIsNotUsed
  <2>1. used = Reads /\ TypeOK /\ EnabledFollows
    BY DEF PanelInv, CurrentIsRead
  <2>2. /\ NotLocked(checked) \subseteq {"position", "time", "own_pos", "own_sog"}
        /\ "own_pos" \in NotLocked(checked) <=> ~checked["use_gps_pos"]
        /\ "own_sog" \in NotLocked(checked) <=> ~checked["use_gps_sog"]
    BY <2>1, LocksLeave DEF TypeOK
  <2>3. used.controls \cap {"own_pos", "own_sog"} \subseteq enabled
    BY <2>1, <2>2 DEF Reads, EnabledFollows, ForDrift
  <2>4. used.controls \cap {"set_drift", "leeway"} = enabled \cap {"set_drift", "leeway"}
    BY <2>1, <2>2 DEF Reads, EnabledFollows, ForDrift
  <2>5. "own_sog" \in enabled <=> ~checked["use_gps_sog"]
    BY <2>1, <2>2 DEF EnabledFollows, ForDrift
  <2>6. used.sog = "some" =>
          IF "own_sog" \in enabled THEN own_sog = "some" ELSE m_gps_sog_ctrl = "some"
    BY <2>1, <2>5 DEF Reads, Speed, TypeOK
  <2> QED  BY <2>3, <2>4, <2>6 DEF GreyedOutIsNotUsed
<1> QED  BY <1>1, PanelInputsInv, PTL
=============================================================================
