----------------------------- MODULE PanelInputs -----------------------------
(***************************************************************************)
(* The panel's input controls and how a run reads them                     *)
(* (src/src/intercept_panel.cpp: the lock boxes, the GRIB file, the        *)
(* auto-recalculation timer, DoRecalculate), with the live fix of          *)
(* src/src/intercept_pi.cpp.  InterceptPanel has what a run does with its  *)
(* case; here it is only whether a run calculates, and from what.          *)
(*                                                                         *)
(* A text is "empty", "bad" (not a position) or "valid".  A speed is       *)
(* "none" (0, or the NaN OpenCPN reports for an unknown one) or "some".    *)
(***************************************************************************)

Fields == {"position", "own_pos"}           \* m_position_ctrl, m_own_pos_ctrl
Boxes  == {"lock_position", "lock_time", "use_gps_pos", "use_gps_sog"}

\* The other controls a case is read from: date and time, own-ship's speed,
\* set and rate, the leeway box, the craft type.
Others   == {"time", "own_sog", "set_drift", "leeway", "craft"}
Controls == Fields \cup Others

VARIABLES
  fix,              \* the last position fix: "none" before the first, else
                    \* the speed it carries, "nosog" or "sog"
  m_gps_sog_ctrl,   \* the GPS speed on display, "none" or "some"
  checked,          \* the four lock checkboxes
  grib,             \* m_grib_path_ctrl holds a path
  enabled,          \* the controls that are not greyed out
  text,             \* what the two position fields hold
  own_sog,          \* the hand-entered speed
  focus,            \* the field with the keyboard focus, or "elsewhere"
  modified,         \* the fields whose IsModified() holds
  half,             \* history: the fields the operator is still typing in
  m_auto_timer,     \* auto-recalculation is on
  due,              \* the interval is over, the timer event is to come
  m_recalc_running, \* RunRecalculate's guard
  dialog,           \* the modal dialog that is open: "none", "error", "grib"
  failing,          \* calculations throw (out of memory, say)
  result,           \* what the outputs show: "none", or computed from
                    \* inputs that have changed since ("old") or not
                    \* ("current")
  used              \* history: the controls the current result was read
                    \* from, and own-ship's speed

inputVars == <<fix, m_gps_sog_ctrl, checked, grib, enabled, text, own_sog>>
focusVars == <<focus, modified, half>>
timerVars == <<m_auto_timer, due>>
runVars   == <<m_recalc_running, dialog, result, used>>
vars      == <<inputVars, focusVars, timerVars, failing, runVars>>

NothingUsed == [controls |-> {}, sog |-> "none"]

\* An input has changed: the result on display is no longer of these inputs.
InputChanged == /\ result' = (IF result = "none" THEN "none" ELSE "old")
                /\ used' = NothingUsed

Operable == dialog = "none"
-----------------------------------------------------------------------------
\* ShowLiveFix: a speed that is not finite counts as none.
Shown(f) == IF f = "sog" THEN "some" ELSE "none"

\* The controls that the boxes, and a GRIB file, leave enabled.
NotLocked(boxes) ==
  {c \in {"position", "time", "own_pos", "own_sog"} :
     CASE c = "position" -> ~boxes["lock_position"]
       [] c = "time"     -> ~boxes["lock_time"]
       [] c = "own_pos"  -> ~boxes["use_gps_pos"]
       [] c = "own_sog"  -> ~boxes["use_gps_sog"]}
ForDrift(have_grib) == IF have_grib THEN {"leeway"} ELSE {"set_drift"}

\* The panel is made at the first click on the toolbar button.
Init ==
  /\ fix \in {"none", "nosog", "sog"} /\ m_gps_sog_ctrl = Shown(fix)
  /\ checked = [b \in Boxes |-> b \in {"use_gps_pos", "use_gps_sog"}]
  /\ grib = FALSE /\ enabled = Controls \ {"own_pos", "own_sog", "leeway"}
  /\ text = [f \in Fields |-> "empty"] /\ own_sog = "none"
  /\ focus = "elsewhere" /\ modified = {} /\ half = {}
  /\ m_auto_timer = FALSE /\ due = FALSE
  /\ m_recalc_running = FALSE /\ dialog = "none"
  /\ failing = FALSE /\ result = "none" /\ used = NothingUsed

(***************************************************************************)
(* Typing.  Every key stroke in a field marks it modified; the text is     *)
(* half-typed until the operator leaves the field or presses Recalculate.  *)
(***************************************************************************)
\* The focus goes to field f, or elsewhere.
MoveFocus(f) == focus' = f /\ half' = half \cap {f}

Type(f, t) ==
  /\ Operable /\ f \in enabled
  /\ text' = [text EXCEPT ![f] = t]
  /\ focus' = f /\ half' = {f}
  /\ modified' = modified \cup {f}
  /\ InputChanged
  /\ UNCHANGED <<fix, m_gps_sog_ctrl, checked, grib, enabled, own_sog, timerVars,
                 failing, m_recalc_running, dialog>>

ClickField(f) ==
  /\ Operable /\ (f \in Fields => f \in enabled)
  /\ MoveFocus(f)
  /\ UNCHANGED <<inputVars, modified, timerVars, failing, runVars>>

\* A speed, a time, a set or rate, a craft type, the leeway box.
Enter(c, v) ==
  /\ Operable /\ c \in enabled \cap Others
  /\ own_sog' = IF c = "own_sog" THEN v ELSE own_sog
  /\ MoveFocus("elsewhere")
  /\ InputChanged
  /\ UNCHANGED <<fix, m_gps_sog_ctrl, checked, grib, enabled, text, modified,
                 timerVars, failing, m_recalc_running, dialog>>

(***************************************************************************)
(* OnLockToggled serves all four boxes: whichever is toggled, every        *)
(* hand-entered field that is empty (or 0) is seeded from the fix, which   *)
(* leaves it unmodified.  A checkbox takes the focus on some platforms     *)
(* only, but a field that is disabled always loses it.                     *)
(***************************************************************************)
OnLockToggled(b) ==
  LET now     == [checked EXCEPT ![b] = ~@]
      seedPos == ~now["use_gps_pos"] /\ text["own_pos"] = "empty" /\ fix # "none"
      seedSog == ~now["use_gps_sog"] /\ own_sog = "none" /\ fix = "sog"
      seeded  == IF seedPos THEN {"own_pos"} ELSE {}
  IN  /\ Operable
      /\ checked' = now
      /\ enabled' = (enabled \cap {"set_drift", "leeway", "craft"}) \cup NotLocked(now)
      /\ text' = [f \in Fields |-> IF f \in seeded THEN "valid" ELSE text[f]]
      /\ own_sog' = IF seedSog THEN "some" ELSE own_sog
      /\ \/ focus' = "elsewhere"
         \/ focus' = focus /\ focus \in enabled'
      /\ modified' = modified \ seeded
      /\ half' = (half \cap {focus'}) \ seeded
      /\ InputChanged
      /\ UNCHANGED <<fix, m_gps_sog_ctrl, grib, timerVars, failing, m_recalc_running, dialog>>

(***************************************************************************)
(* The GRIB file.  The file dialog is modal and runs an event loop of its  *)
(* own, in which the timer goes on calculating.                            *)
(***************************************************************************)
\* A slip: the fields stay as they were.
UpdateGribLockKeepingFields(have_grib) == UNCHANGED enabled

UpdateGribLock(have_grib) ==
  enabled' = (enabled \ {"set_drift", "leeway"}) \cup ForDrift(have_grib)

OnBrowseGrib ==
  /\ Operable /\ dialog' = "grib"
  /\ MoveFocus("elsewhere")
  /\ UNCHANGED <<inputVars, modified, timerVars, failing, m_recalc_running, result, used>>

ChooseGrib ==
  /\ dialog = "grib" /\ dialog' = "none"
  /\ grib' = TRUE /\ UpdateGribLock(TRUE)
  /\ InputChanged
  /\ UNCHANGED <<fix, m_gps_sog_ctrl, checked, text, own_sog, focusVars, timerVars,
                 failing, m_recalc_running>>

CancelBrowse ==
  /\ dialog = "grib" /\ dialog' = "none"
  /\ UNCHANGED <<inputVars, focusVars, timerVars, failing, m_recalc_running, result, used>>

OnClearGrib ==
  /\ Operable
  /\ grib' = FALSE /\ UpdateGribLock(FALSE)
  /\ MoveFocus("elsewhere")
  /\ InputChanged
  /\ UNCHANGED <<fix, m_gps_sog_ctrl, checked, text, own_sog, modified, timerVars,
                 failing, m_recalc_running, dialog>>

(***************************************************************************)
(* The world: SetPositionFix, the passing of time, and whatever makes a    *)
(* calculation throw.                                                      *)
(***************************************************************************)
SetPositionFix(speed) ==
  /\ fix' = speed /\ m_gps_sog_ctrl' = Shown(speed)
  /\ InputChanged
  /\ UNCHANGED <<checked, grib, enabled, text, own_sog, focusVars, timerVars, failing,
                 m_recalc_running, dialog>>

Fault ==
  /\ failing' = ~failing
  /\ UNCHANGED <<inputVars, focusVars, timerVars, runVars>>

\* The interval of the running timer is over.
Elapse ==
  /\ m_auto_timer /\ ~due /\ due' = TRUE
  /\ UNCHANGED <<inputVars, focusVars, m_auto_timer, failing, runVars>>
-----------------------------------------------------------------------------
(***************************************************************************)
(* A run (RunRecalculate and DoRecalculate).                               *)
(***************************************************************************)
BeingEditedReportOnly == focus = "position" /\ focus \in modified
BeingEdited == focus \in modified

Readable == /\ text["position"] = "valid"
            /\ ~checked["use_gps_pos"] => text["own_pos"] = "valid"

\* Own-ship's position and speed, each from its field or from the fix.
HavePosition == ~checked["use_gps_pos"] \/ fix # "none"
Speed == IF ~checked["use_gps_sog"] THEN own_sog ELSE Shown(fix)

\* What the case is read from (set and drift only without a GRIB file, the
\* leeway box only with one), and the speed SolveIntercept is called with.
Reads ==
  [controls |-> {"position", "time", "craft"}
                \cup ForDrift(grib)
                \cup (IF ~checked["use_gps_pos"] THEN {"own_pos"} ELSE {})
                \cup (IF HavePosition /\ ~checked["use_gps_sog"] THEN {"own_sog"} ELSE {}),
   sog |-> IF HavePosition THEN Speed ELSE "none"]

ReportsUnguarded(automatic) ==
  /\ (automatic /\ BeingEdited) \/ ~Readable
  /\ dialog' = IF automatic THEN dialog ELSE "error"
  /\ UNCHANGED <<m_recalc_running, result, used, modified>>

Reports(automatic) ==
  /\ (automatic /\ BeingEdited) \/ ~Readable
  /\ IF automatic THEN UNCHANGED <<m_recalc_running, dialog>>
                  ELSE m_recalc_running' = TRUE /\ dialog' = "error"
  /\ UNCHANGED <<result, used, modified>>

\* Before the outputs are shown, or after, while the chart is redrawn.
Throws ==
  /\ Readable /\ failing
  /\ \/ UNCHANGED <<result, used>>
     \/ result' = "current" /\ used' = Reads
  /\ UNCHANGED <<m_recalc_running, dialog, modified>>

Calculates ==
  /\ Readable /\ ~failing
  /\ result' = "current" /\ used' = Reads
  /\ modified' = {}
  /\ UNCHANGED <<m_recalc_running, dialog>>

DoRecalculate(automatic) ==
  \/ Reports(automatic)
  \/ /\ ~(automatic /\ BeingEdited)
     /\ Throws \/ Calculates

RunRecalculate(automatic) ==
  IF m_recalc_running THEN UNCHANGED <<runVars, modified>>
                      ELSE DoRecalculate(automatic)

\* Pressing the button is the operator's word that the entries are done.
OnRecalculate ==
  /\ Operable
  /\ half' = {} /\ focus' \in {focus, "elsewhere"}
  /\ RunRecalculate(FALSE)
  /\ UNCHANGED <<inputVars, timerVars, failing>>

OnAutoTimer ==
  /\ m_auto_timer /\ due /\ due' = FALSE
  /\ RunRecalculate(TRUE)
  /\ UNCHANGED <<inputVars, focus, half, m_auto_timer, failing>>

\* Starting or stopping the timer ends its interval.  The focus moves (or
\* not) before the handler looks at it.
OnAutoToggled ==
  /\ Operable
  /\ m_auto_timer' = ~m_auto_timer /\ due' = FALSE
  /\ UNCHANGED <<focus, half>>
  /\ IF m_auto_timer' THEN RunRecalculate(TRUE) ELSE UNCHANGED <<runVars, modified>>
  /\ UNCHANGED <<inputVars, failing>>

\* A running timer is started again, from the beginning of its interval.
OnAutoIntervalChanged ==
  /\ Operable
  /\ MoveFocus("elsewhere")
  /\ due' = FALSE
  /\ UNCHANGED <<inputVars, modified, m_auto_timer, failing, runVars>>

CloseErrorDialogLeavingGuard ==
  /\ dialog = "error" /\ dialog' = "none"
  /\ UNCHANGED <<inputVars, focusVars, timerVars, failing, m_recalc_running, result, used>>

\* The modal loop ends, DoRecalculate returns and the guard is cleared.
CloseErrorDialog ==
  /\ dialog = "error" /\ dialog' = "none" /\ m_recalc_running' = FALSE
  /\ UNCHANGED <<inputVars, focusVars, timerVars, failing, result, used>>
-----------------------------------------------------------------------------
Next ==
  \/ \E f \in Fields : \/ \E t \in {"empty", "bad", "valid"} : Type(f, t)
                       \/ ClickField(f)
  \/ ClickField("elsewhere")
  \/ \E c \in Others, v \in {"none", "some"} : Enter(c, v)
  \/ \E b \in Boxes : OnLockToggled(b)
  \/ OnBrowseGrib \/ ChooseGrib \/ CancelBrowse \/ OnClearGrib
  \/ \E speed \in {"nosog", "sog"} : SetPositionFix(speed)
  \/ Fault \/ Elapse
  \/ OnRecalculate \/ OnAutoTimer \/ OnAutoToggled \/ OnAutoIntervalChanged
  \/ CloseErrorDialog

Spec == Init /\ [][Next]_vars

\* While the timer runs, its interval ends and its event is handled; nothing
\* is assumed of the operator or of the GPS.
FairSpec == Spec /\ WF_vars(Elapse) /\ WF_vars(OnAutoTimer)
-----------------------------------------------------------------------------
(***************************************************************************)
(* The types, and that the guard against nested runs is held exactly as    *)
(* long as the error dialog is open (RunRecalculate,                       *)
(* intercept_panel.cpp:621).                                               *)
(***************************************************************************)
TypeOK ==
  /\ fix \in {"none", "nosog", "sog"} /\ m_gps_sog_ctrl = Shown(fix)
  /\ checked \in [Boxes -> BOOLEAN] /\ grib \in BOOLEAN
  /\ enabled \subseteq Controls
  /\ text \in [Fields -> {"empty", "bad", "valid"}]
  /\ own_sog \in {"none", "some"}
  /\ focus \in Fields \cup {"elsewhere"}
  /\ modified \subseteq Fields /\ half \subseteq Fields
  /\ m_auto_timer \in BOOLEAN /\ due \in BOOLEAN /\ failing \in BOOLEAN
  /\ m_recalc_running \in BOOLEAN
  /\ dialog \in {"none", "error", "grib"} /\ (dialog = "error" <=> m_recalc_running)
  /\ result \in {"none", "old", "current"}
  /\ used \in [controls : SUBSET Controls, sog : {"none", "some"}]

(***************************************************************************)
(* An automatic run never uses a position the operator is halfway through  *)
(* typing: while one is, the result on the panel is an older one, on every *)
(* order of key strokes, focus changes, seeding, manual runs and ticks     *)
(* (intercept_panel.cpp:634-647).                                          *)
(***************************************************************************)
ResultIgnoresHalfTyped == half # {} => result # "current"

(***************************************************************************)
(* "hand-entered set & drift would be ignored, so disable them to make     *)
(* that clear" (intercept_panel.cpp:517): a current result has used        *)
(* neither of own-ship's fields when it is greyed out, and of set and rate *)
(* and the leeway box exactly the one that is not; and a speed it used is  *)
(* on display, in the field or beside it.  Handlers, constructor and run   *)
(* each decide this for themselves.  The fields of the report are locked   *)
(* against changes, not out of use: nothing is said of them.               *)
(***************************************************************************)
GreyedOutIsNotUsed ==
  result = "current" =>
    /\ used.controls \cap {"own_pos", "own_sog"} \subseteq enabled
    /\ used.controls \cap {"set_drift", "leeway"} = enabled \cap {"set_drift", "leeway"}
    /\ used.sog = "some" =>
         IF "own_sog" \in enabled THEN own_sog = "some" ELSE m_gps_sog_ctrl = "some"

(***************************************************************************)
(* "Auto mode stays on and picks up again once the input is valid"         *)
(* (USER_GUIDE.md section 5): left alone with readable inputs, the panel   *)
(* comes back to a current result again and again, whatever dialogs,       *)
(* skipped ticks and exceptions went before.  Left alone includes the      *)
(* interval: every change of it puts the next run off.  An open file       *)
(* dialog does not matter.                                                 *)
(***************************************************************************)
Unattended == m_auto_timer /\ Readable /\ ~BeingEdited /\ dialog # "error" /\ ~failing

AutoPicksUpAgain ==
  <>[]Unattended /\ <>[][~OnAutoIntervalChanged]_vars => []<>(result = "current")
=============================================================================
