---------------------------- MODULE ChartObjects ----------------------------
(***************************************************************************)
(* The plugin's side of the chart: ApplyCase, UpdateChartObjects,          *)
(* UpdateCourseRoute and DeInit of src/src/intercept_pi.cpp.  All of it    *)
(* runs on OpenCPN's UI thread, so a call is one step; inside it the API   *)
(* calls take effect one after the other, and the active route and         *)
(* waypoint are read once, before the first of them.  An exception may cut *)
(* a redraw short between any two of its calls (the caller's try is at     *)
(* intercept_panel.cpp:623-629).                                           *)
(*                                                                         *)
(* A case is abstracted to what decides which objects are drawn: whether   *)
(* the intercept solved and whether the datum drifted, next to the         *)
(* situation (inputs, fix and clock) it was computed in.                   *)
(***************************************************************************)
EXTENDS OpenCPNChart

CONSTANTS Situations,   \* what a case can be computed from
          Shapes        \* the [solved, drifted] combinations considered

ASSUME ShapesAssumption == Shapes \subseteq [solved : BOOLEAN, drifted : BOOLEAN]

Case == [at : Situations, shape : Shapes]

ASSUME NoneAssumption == None \notin Case

Show == [target : BOOLEAN, estimated : BOOLEAN, lines : BOOLEAN]

VARIABLES
  ocpn,     \* OpenCPN's chart and navigation
  m_case,   \* the case last applied, or None
  kept,     \* what ApplyCase last returned
  torn,     \* history: an exception cut the last redraw short
  loaded    \* between Init() and DeInit()

chartVars == <<ocpn, m_case, kept, torn, loaded>>
-----------------------------------------------------------------------------
\* Delete-before-add on a fixed GUID.
Replace(w, o, wanted, c) ==
  IF wanted THEN Draw(Delete(w, o), o, c) ELSE Delete(w, o)

\* Mutants of the definitions below carry the plausible slip in their name.
ReportedMarkAlwaysReplaced(w, c, show) == Replace(w, "Reported", show.target, c)

ReportedMark(w, c, show) ==
  IF w.point = "Reported" THEN w ELSE Replace(w, "Reported", show.target, c)

\* The followed mark is moved in place, ring and all, whatever the checkbox.
EstimatedMark(w, c, show) ==
  IF w.point = "Estimated" THEN Draw(w, "Estimated", c)
                           ELSE Replace(w, "Estimated", show.estimated, c)

DriftTrack(w, c, show) == Replace(w, "Track", show.lines /\ c.shape.drifted, c)

UpdateCourseRouteKeepingOldMark(w, c, own) ==
  LET bare == Delete(w, "Route")
      line == Draw(bare, "Route", c)
  IN  IF ~own THEN bare
      ELSE IF c.shape.solved THEN Draw(line, "Intercept", c) ELSE line

UpdateCourseRoute(w, c, own) ==
  LET bare == Delete(Delete(w, "Route"), "Intercept")
      line == Draw(bare, "Route", c)
  IN  IF ~own THEN bare
      ELSE IF c.shape.solved THEN Draw(line, "Intercept", c) ELSE line

\* The route and the Intercept mark are kept together.
HoldsCourseRouteOnly(w) == w.route = "Route"
HoldsCourse(w) == w.route = "Route" \/ w.point = "Intercept"

KeptCourseOnly(w) == HoldsCourse(w)
Kept(w) == w.point = "Reported" \/ HoldsCourse(w)

UpdateChartObjects(w, c, own, show) ==
  LET marks == EstimatedMark(ReportedMark(w, c, show), c, show)
      lines == DriftTrack(marks, c, show)
  IN  IF HoldsCourse(w) THEN lines
                        ELSE UpdateCourseRoute(lines, c, show.lines /\ own)

(***************************************************************************)
(* The charts a redraw passes through, call by call.                       *)
(***************************************************************************)
\* A delete-before-add is two calls.
Passes(w, o, wanted, c) == {w, Delete(w, o), Replace(w, o, wanted, c)}

MarkPasses(w, c, show) ==
  LET reported == ReportedMark(w, c, show)
  IN  (IF w.point = "Reported" THEN {w} ELSE Passes(w, "Reported", show.target, c))
      \cup (IF w.point = "Estimated" THEN {EstimatedMark(reported, c, show)}
            ELSE Passes(reported, "Estimated", show.estimated, c))

\* A slip: the diamond is deleted only when there is a new one to draw.
CoursePassesMarkLast(w, c, own) ==
  LET bare == Delete(w, "Route")
  IN  {w, bare, UpdateCourseRoute(w, c, own)} \cup (IF own THEN {Draw(bare, "Route", c)} ELSE {})

CoursePasses(w, c, own) ==
  LET noRoute == Delete(w, "Route")
      bare    == Delete(noRoute, "Intercept")
  IN  {w, noRoute, bare, UpdateCourseRoute(w, c, own)}
        \cup (IF own THEN {Draw(bare, "Route", c)} ELSE {})

RedrawPasses(w, c, own, show) ==
  LET marks == EstimatedMark(ReportedMark(w, c, show), c, show)
      lines == DriftTrack(marks, c, show)
  IN  MarkPasses(w, c, show)
      \cup Passes(marks, "Track", show.lines /\ c.shape.drifted, c)
      \cup (IF HoldsCourse(w) THEN {} ELSE CoursePasses(lines, c, show.lines /\ own))

-----------------------------------------------------------------------------
ChartInit ==
  /\ ocpn \in {SetNavigation(EmptyChart, n) : n \in {<<"none", "none">>,
                                                      <<"other", "other">>}}
  /\ m_case = None
  /\ kept = FALSE
  /\ torn = FALSE
  /\ loaded = TRUE

\* A redraw that activates the route it has just put back.
ApplyCaseReactivating(c, own, show) ==
  /\ m_case' = c /\ torn' = FALSE
  /\ ocpn' = [UpdateChartObjects(ocpn, c, own, show) EXCEPT !.route = "Route"]
  /\ kept' = Kept(ocpn)
  /\ UNCHANGED loaded

\* own is whether the own-ship position is known.
ApplyCase(c, own, show) ==
  /\ m_case' = c /\ torn' = FALSE
  /\ ocpn' = UpdateChartObjects(ocpn, c, own, show)
  /\ kept' = Kept(ocpn)
  /\ UNCHANGED loaded

\* An exception in between: m_case is set already, nothing is returned.
ApplyCaseThrows(c, own, show) ==
  /\ m_case' = c /\ torn' = TRUE
  /\ ocpn' \in RedrawPasses(ocpn, c, own, show)
  /\ UNCHANGED <<kept, loaded>>

RemoveObjectsButIntercept(w) ==
  LET marks == Delete(Delete(w, "Estimated"), "Reported")
  IN  Delete(Delete(marks, "Track"), "Route")

\* DeInit removes all five, whatever OpenCPN is doing with them.
RemoveObjects(w) ==
  LET marks == Delete(Delete(Delete(w, "Estimated"), "Reported"), "Intercept")
  IN  Delete(Delete(marks, "Track"), "Route")

RemoveFromChart ==
  /\ loaded
  /\ loaded' = FALSE
  /\ ocpn' = RemoveObjects(ocpn)
  /\ UNCHANGED <<m_case, kept, torn>>

\* The navigator, in OpenCPN.
UseOpenCPN ==
  /\ ocpn' \in Navigate(ocpn) \cup DeleteByHand(ocpn)
  /\ UNCHANGED <<m_case, kept, torn, loaded>>

\* How the caller may use ApplyCase: before DeInit, and with an intercept
\* only when there is an own-ship to solve it for.
Redraw ==
  /\ loaded
  /\ m_case' \in Case
  /\ \E own \in BOOLEAN, show \in Show :
       (m_case'.shape.solved => own) /\ ApplyCase(m_case', own, show)

RedrawCutShort ==
  /\ loaded
  /\ m_case' \in Case
  /\ \E own \in BOOLEAN, show \in Show :
       (m_case'.shape.solved => own) /\ ApplyCaseThrows(m_case', own, show)

ChartNext == Redraw \/ RedrawCutShort \/ RemoveFromChart \/ UseOpenCPN

ChartSpec == ChartInit /\ [][ChartNext]_chartVars
-----------------------------------------------------------------------------
(***************************************************************************)
(* The types: the chart shows cases or nothing, OpenCPN navigates with at  *)
(* most one route and one waypoint, and only with what is drawn or not     *)
(* ours (the state UpdateChartObjects and DeInit work on).                 *)
(***************************************************************************)
ChartTypeOK ==
  /\ ocpn \in ChartOf(Case)
  /\ m_case \in Case \cup {None}
  /\ kept \in BOOLEAN
  /\ torn \in BOOLEAN
  /\ loaded \in BOOLEAN

Stale == {o \in Objects : ocpn.drawn[o] \notin {None, m_case}}

(***************************************************************************)
(* A redraw never switches navigation off or over, although it deletes and *)
(* re-adds every object it may, and not even when an exception stops it    *)
(* between deleting and adding (intercept_pi.h:157-160, the Changelog's    *)
(* "no longer cancels navigation").                                        *)
(***************************************************************************)
NavigationSurvives ==
  [][Navigating(ocpn') # Navigating(ocpn) => ~Redraw /\ ~RedrawCutShort]_chartVars

(***************************************************************************)
(* A course route and an Intercept mark that are both on the chart belong  *)
(* to the same calculation, and that calculation met the target: whatever  *)
(* was kept, replaced or deleted by hand in between, and wherever a redraw *)
(* was cut short, the diamond is never beside another case's route         *)
(* (intercept_pi.h:160-161; the order of the calls in UpdateCourseRoute).  *)
(***************************************************************************)
RouteMeetsMark ==
  ocpn.drawn["Intercept"] # None =>
    /\ ocpn.drawn["Intercept"].shape.solved
    /\ ocpn.drawn["Route"] \in {None, ocpn.drawn["Intercept"]}

(***************************************************************************)
(* After a redraw that came to its end, only what was being followed can   *)
(* be out of date, the caller was told so, and it is one kept group: the   *)
(* reported mark, or the route with its Intercept mark (the return value   *)
(* of ApplyCase, intercept_pi.h:161-165).  Whatever redraws cut short      *)
(* before it have left behind, it has cleared away.                        *)
(***************************************************************************)
StaleOnlyIfKept ==
  loaded /\ ~torn /\ Stale # {} => /\ kept
                          /\ \/ Stale = {"Reported"}
                             \/ Stale \subseteq {"Route", "Intercept"}

(***************************************************************************)
(* Once unloaded nothing of the plugin stays on the chart, and OpenCPN     *)
(* steers to nothing of it (DeInit, intercept_pi.cpp:241-246).             *)
(***************************************************************************)
NothingLeftBehind ==
  ~loaded => \A o \in Objects : ocpn.drawn[o] = None /\ ~Follows(ocpn, o)

(***************************************************************************)
(* All of it at once: the calls, one after the other, amount to what       *)
(* ChartPromise says a redraw does in one go.                              *)
(***************************************************************************)
Promise == INSTANCE ChartPromise WITH
             drawn <- ocpn.drawn, nav <- Navigating(ocpn)
ImplementsPromise == Promise!Spec
=============================================================================
