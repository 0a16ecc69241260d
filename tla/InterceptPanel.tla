--------------------------- MODULE InterceptPanel ---------------------------
(***************************************************************************)
(* The panel (src/src/intercept_panel.cpp) and the plugin that owns it     *)
(* (src/src/intercept_pi.cpp): its life cycle, the recalculation run that  *)
(* the button, the auto checkbox and the timer share, and what it keeps    *)
(* between runs.  Every handler runs on the UI thread and is one step,     *)
(* with one exception: the error dialog of a manual run has an event loop  *)
(* of its own, so timer ticks, position fixes and OpenCPN itself go on     *)
(* while the run that opened it is still on the stack.                     *)
(*                                                                         *)
(* What the input fields hold, and how a run reads them, is PanelInputs;   *)
(* here a run may find them readable or not.                               *)
(***************************************************************************)
EXTENDS ChartObjects, Naturals

CONSTANT MaxFailures   \* bound: runs in a row that fail half way

ASSUME MaxFailuresAssumption == MaxFailures \in Nat

VARIABLES
  m_panel,          \* the window: "none" (not created, or destroyed),
                    \* "hidden" or "shown"
  m_plugin,         \* the panel's link to the plugin is set
  tool,             \* toolbar button: "missing", "up" or "down"
  m_auto_recalc,    \* the auto checkbox
  m_auto_timer,     \* the timer runs
  m_recalc_running, \* a manual run waits for its error dialog
  m_show,           \* the three display checkboxes
  m_last_case,      \* the last case computed, or None
  m_last_own,       \* whether an own-ship went with it
  outputs,          \* the cases the output rows show values of
  m_out_last_calc,  \* "Last calculated": 0 when it is the time of the last
                    \* case, else how many runs have failed since that time
  m_out_note        \* "none", "kept" or "skipped" (in red)

panelVars == <<m_panel, m_plugin, tool, m_auto_recalc, m_auto_timer,
               m_recalc_running, m_show, m_last_case, m_last_own, outputs,
               m_out_last_calc, m_out_note>>
vars == <<chartVars, panelVars>>

memory  == <<m_last_case, m_last_own, outputs, m_out_last_calc>>
window  == <<m_panel, m_plugin, tool>>
automat == <<m_auto_recalc, m_auto_timer>>

\* The operator can use the panel: a modal dialog disables every window.
Operable == m_panel = "shown" /\ ~m_recalc_running
-----------------------------------------------------------------------------
\* The icon files of the button, of which an SVG is taken first.
GetPluginIcon(files) == IF "svg" \in files THEN "svg"
                        ELSE IF "png" \in files THEN "png" ELSE "not found"

\* Init() puts the button on the toolbar, if it finds an icon for it.
PluginInit ==
  /\ ChartInit
  /\ m_panel = "none" /\ m_plugin = FALSE
  /\ \E files \in SUBSET {"svg", "png"} :
       tool = IF GetPluginIcon(files) = "not found" THEN "missing" ELSE "up"

\* What the panel's constructor sets, at the first click on the button.
PanelInit ==
  /\ m_auto_recalc = FALSE /\ m_auto_timer = FALSE /\ m_recalc_running = FALSE
  /\ m_show = [target |-> TRUE, estimated |-> TRUE, lines |-> TRUE]
  /\ m_last_case = None /\ m_last_own = FALSE /\ outputs = {}
  /\ m_out_last_calc = 0 /\ m_out_note = "none"

Init == PluginInit /\ PanelInit

(***************************************************************************)
(* Drawing a case and saying in the note whether something was kept.       *)
(***************************************************************************)
ApplyToChartSilently(c, own, show) ==
  IF m_plugin THEN ApplyCase(c, own, show) /\ UNCHANGED m_out_note
              ELSE UNCHANGED <<chartVars, m_out_note>>

ApplyToChart(c, own, show) ==
  IF m_plugin THEN /\ ApplyCase(c, own, show)
                   /\ m_out_note' = IF kept' THEN "kept" ELSE "none"
              ELSE UNCHANGED <<chartVars, m_out_note>>

(***************************************************************************)
(* One run.  An input that cannot be read stops it: an automatic run says  *)
(* so in the note, a manual one opens the dialog.  Otherwise the case, the *)
(* own-ship, the output rows and the chart are updated, and the time last  *)
(* of all.                                                                 *)
(***************************************************************************)
ReportInputError(automatic) ==
  /\ IF automatic
     THEN m_out_note' = "skipped" /\ UNCHANGED m_recalc_running
     ELSE m_recalc_running' = TRUE /\ UNCHANGED m_out_note
  /\ UNCHANGED <<chartVars, memory>>

NoChange == UNCHANGED <<chartVars, memory, m_out_note, m_recalc_running>>

CalculatesForgettingOwn(c, own) ==
  /\ m_last_case' = c /\ outputs' = {c} /\ UNCHANGED m_last_own
  /\ ApplyToChart(c, own, m_show)
  /\ m_out_last_calc' = 0
  /\ UNCHANGED m_recalc_running

Calculates(c, own) ==
  /\ m_last_case' = c /\ m_last_own' = own /\ outputs' = {c}
  /\ ApplyToChart(c, own, m_show)
  /\ m_out_last_calc' = 0
  /\ UNCHANGED m_recalc_running

(***************************************************************************)
(* An exception, from the calculation or from any call after it, is only   *)
(* logged.  The case is stored before anything shows it, so what is left   *)
(* behind depends on how far the run got: some rows (which of the older    *)
(* ones are left is left open), some calls on the chart, all but the note, *)
(* all but the time.                                                       *)
(***************************************************************************)
ThrowsShowingOutputs(c) ==
  /\ \E older \in SUBSET outputs : outputs' \in {outputs, older \cup {c}}
  /\ UNCHANGED <<chartVars, m_out_note>>

ThrowsRedrawing(c, own) ==
  /\ m_plugin
  /\ outputs' = {c}
  /\ ApplyCaseThrows(c, own, m_show)
  /\ UNCHANGED m_out_note

ThrowsBeforeNote(c, own) ==
  /\ m_plugin
  /\ outputs' = {c}
  /\ ApplyCase(c, own, m_show)
  /\ UNCHANGED m_out_note

ThrowsBeforeTime(c, own) ==
  /\ outputs' = {c}
  /\ ApplyToChart(c, own, m_show)

\* A slip: the time is set as soon as the case is stored.
FailsTimeFirst(c, own) ==
  /\ m_last_case' = c /\ m_last_own' = own /\ m_out_last_calc' = 0
  /\ \/ ThrowsShowingOutputs(c)
     \/ ThrowsRedrawing(c, own) \/ ThrowsBeforeNote(c, own) \/ ThrowsBeforeTime(c, own)
  /\ UNCHANGED m_recalc_running

Fails(c, own) ==
  /\ m_last_case' = c /\ m_last_own' = own
  /\ m_out_last_calc < MaxFailures /\ m_out_last_calc' = m_out_last_calc + 1
  /\ \/ ThrowsShowingOutputs(c)
     \/ ThrowsRedrawing(c, own) \/ ThrowsBeforeNote(c, own) \/ ThrowsBeforeTime(c, own)
  /\ UNCHANGED m_recalc_running

DoRecalculate(automatic) ==
  \/ ReportInputError(automatic)
  \/ NoChange                       \* an exception before the case is stored
  \/ \E c \in Case, own \in BOOLEAN :
       (c.shape.solved => own) /\ (Calculates(c, own) \/ Fails(c, own))

\* A tick that arrives while a manual run waits for its dialog is dropped.
RunRecalculate(automatic) ==
  IF m_recalc_running THEN NoChange ELSE DoRecalculate(automatic)
-----------------------------------------------------------------------------
(***************************************************************************)
(* The operator, in the panel.                                             *)
(***************************************************************************)
OnRecalculate ==
  /\ Operable
  /\ RunRecalculate(FALSE)
  /\ UNCHANGED <<window, automat, m_show>>

\* DoRecalculate returns and RunRecalculate clears its guard.
CloseErrorDialog ==
  /\ m_recalc_running
  /\ m_recalc_running' = FALSE
  /\ UNCHANGED <<chartVars, window, automat, memory, m_show, m_out_note>>

OnAutoToggled ==
  /\ Operable
  /\ m_auto_recalc' = ~m_auto_recalc
  /\ m_auto_timer' = m_auto_recalc'
  /\ IF m_auto_recalc' THEN RunRecalculate(TRUE) ELSE NoChange
  /\ UNCHANGED <<window, m_show>>

OnDisplayToggledWithoutRedraw(box) ==
  /\ Operable
  /\ m_show' = [m_show EXCEPT ![box] = ~@]
  /\ UNCHANGED <<chartVars, m_out_note>>
  /\ UNCHANGED <<window, automat, memory, m_recalc_running>>

\* No try here: an exception would end OpenCPN (intercept_pi.cpp:279).
OnDisplayToggled(box) ==
  /\ Operable
  /\ m_show' = [m_show EXCEPT ![box] = ~@]
  /\ IF m_last_case # None THEN ApplyToChart(m_last_case, m_last_own, m_show')
                           ELSE UNCHANGED <<chartVars, m_out_note>>
  /\ UNCHANGED <<window, automat, memory, m_recalc_running>>

OnCloseLeavingButton ==
  /\ Operable
  /\ m_panel' = "hidden"
  /\ UNCHANGED tool
  /\ UNCHANGED <<chartVars, m_plugin, automat, memory, m_show, m_out_note, m_recalc_running>>

OnClose ==
  /\ Operable
  /\ m_panel' = "hidden"
  /\ tool' = IF m_plugin /\ tool = "down" THEN "up" ELSE tool
  /\ UNCHANGED <<chartVars, m_plugin, automat, memory, m_show, m_out_note, m_recalc_running>>

OnAutoTimer ==
  /\ m_auto_timer
  /\ RunRecalculate(TRUE)
  /\ UNCHANGED <<window, automat, m_show>>
-----------------------------------------------------------------------------
(***************************************************************************)
(* The plugin.                                                             *)
(***************************************************************************)
\* The constructor may throw: the click then does nothing.
OnToolbarToolCallback ==
  /\ loaded /\ ~m_recalc_running /\ tool # "missing"
  /\ \/ m_panel' = IF m_panel = "shown" THEN "hidden" ELSE "shown"
     \/ m_panel = "none" /\ UNCHANGED m_panel
  /\ m_plugin' = (m_panel' # "none")
  /\ tool' = IF m_panel' = "shown" THEN "down" ELSE "up"
  /\ UNCHANGED <<chartVars, automat, memory, m_show, m_out_note, m_recalc_running>>

DetachWithoutCuttingLink ==
  /\ m_auto_timer' = FALSE
  /\ UNCHANGED m_plugin

Detach ==
  /\ m_auto_timer' = FALSE
  /\ m_plugin' = FALSE

\* Destroy() only schedules the deletion: until PanelDestroyed the window is
\* still there and its handlers still run.
DeInit ==
  /\ ~m_recalc_running
  /\ RemoveFromChart
  /\ tool' = "missing"
  /\ Detach
  /\ UNCHANGED <<m_panel, m_auto_recalc, memory, m_show, m_out_note, m_recalc_running>>

PanelDestroyed ==
  /\ ~loaded /\ ~m_recalc_running
  /\ m_panel # "none" /\ m_panel' = "none"
  /\ m_auto_timer' = FALSE
  /\ UNCHANGED <<chartVars, m_plugin, tool, m_auto_recalc, memory, m_show,
                 m_out_note, m_recalc_running>>

Navigator == UseOpenCPN /\ UNCHANGED panelVars
-----------------------------------------------------------------------------
Next ==
  \/ OnRecalculate \/ CloseErrorDialog
  \/ OnAutoToggled \/ OnAutoTimer
  \/ \E box \in DOMAIN m_show : OnDisplayToggled(box)
  \/ OnClose \/ OnToolbarToolCallback
  \/ DeInit \/ PanelDestroyed
  \/ Navigator

Spec == Init /\ [][Next]_vars
-----------------------------------------------------------------------------
(***************************************************************************)
(* The types, and that the panel's link to the plugin is gone once the     *)
(* plugin is unloaded, however many of the panel's handlers are still to   *)
(* run (Detach, intercept_panel.cpp:570).                                  *)
(***************************************************************************)
TypeOK ==
  /\ ChartTypeOK
  /\ m_panel \in {"none", "hidden", "shown"}
  /\ m_plugin \in BOOLEAN /\ (m_plugin => loaded)
  /\ tool \in {"missing", "up", "down"}
  /\ m_auto_recalc \in BOOLEAN /\ m_auto_timer \in BOOLEAN
  /\ m_recalc_running \in BOOLEAN
  /\ m_show \in Show
  /\ m_last_case \in Case \cup {None} /\ m_last_own \in BOOLEAN
  /\ outputs \subseteq Case /\ m_out_last_calc \in 0..MaxFailures
  /\ m_out_note \in {"none", "kept", "skipped"}

(***************************************************************************)
(* "Time of the last successful calculation" (intercept_panel.h:144): when *)
(* it is that of the case the panel remembers, every output row is of that *)
(* case, and so is the chart, whatever was thrown before that: a run that  *)
(* succeeds puts right all that failing ones have left half done.  While   *)
(* it is older than the case, rows, case and chart may all differ.         *)
(***************************************************************************)
ChartShowsOutputs ==
  m_out_last_calc = 0 => /\ outputs = (IF m_last_case = None THEN {} ELSE {m_last_case})
                         /\ loaded => m_case = m_last_case

(***************************************************************************)
(* The chart is never silently out of date: as long as an object drawn     *)
(* from an older case stays, the note says it was kept, or that the last   *)
(* run was skipped, or the time on display is still that of an older run   *)
(* (USER_GUIDE.md, "the object stays where it is, and the panel says so"). *)
(***************************************************************************)
StaleIsAnnounced ==
  loaded /\ Stale # {} => m_out_note \in {"kept", "skipped"} \/ m_out_last_calc > 0

(***************************************************************************)
(* The display checkboxes act at once: unless a redraw said it kept        *)
(* something, only ticked kinds of objects are on the chart, also when it  *)
(* was drawn by runs that failed half way.  The Estimated mark is set      *)
(* apart: while it is navigated to it is moved in place, ticked or not     *)
(* (USER_GUIDE.md:252).                                                    *)
(***************************************************************************)
Ticked(o) == IF o = "Reported" THEN m_show.target
             ELSE IF o = "Estimated" THEN m_show.estimated ELSE m_show.lines

CheckboxesActAtOnce ==
  loaded /\ ~kept => \A o \in Objects \ {"Estimated"} :
                       ocpn.drawn[o] # None => Ticked(o)

(***************************************************************************)
(* The toolbar button is pressed exactly while the panel is open, however  *)
(* it is opened and closed (intercept_pi.cpp:208-209).                     *)
(***************************************************************************)
ToolMirrorsPanel ==
  loaded /\ tool # "missing" => (tool = "down" <=> m_panel = "shown")

(***************************************************************************)
(* The panel drives the chart only as ApplyCase may be used: never after   *)
(* DeInit, always from the case it remembers, with the boxes as they are   *)
(* and with the own-ship its intercept was solved for, also when it        *)
(* redraws an old case and when a run fails half way.  So it implements    *)
(* ChartSpec.                                                              *)
(***************************************************************************)
Draws ==
  LET c == m_last_case'  own == m_last_own'
  IN  /\ loaded /\ c \in Case /\ (c.shape.solved => own)
      /\ ApplyCase(c, own, m_show') \/ ApplyCaseThrows(c, own, m_show')

DrivesChart == ChartInit /\ [][Draws \/ RemoveFromChart \/ UseOpenCPN]_chartVars
=============================================================================
