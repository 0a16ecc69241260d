---------------------------- MODULE OpenCPNChart ----------------------------
(***************************************************************************)
(* OpenCPN as the plugin sees it (external code, modelled from the calls   *)
(* in src/src/intercept_pi.cpp): the five session-scoped objects the       *)
(* plugin owns, each on a fixed GUID, and what OpenCPN navigates with.     *)
(*                                                                         *)
(* A chart is a record                                                     *)
(*   drawn : what each object was last drawn from, or None                 *)
(*   route : GetActiveRouteGUID()    -- "none", the plugin's "Route", or   *)
(*           another route ("other": "Navigate to" a mark runs on one)     *)
(*   point : GetActiveWaypointGUID() -- "none", a mark, a waypoint of the  *)
(*           plugin's own route ("leg"), or any other waypoint ("other")   *)
(* so that the handlers of the plugin, which issue several calls one after *)
(* the other, are compositions of operators on charts.                     *)
(***************************************************************************)

CONSTANT None       \* no object on the chart; no case yet

Marks   == {"Reported", "Estimated", "Intercept"}
Objects == Marks \cup {"Track", "Route"}

\* The pairs <<active route, active waypoint>> OpenCPN can be in.
Navigation ==
  {<<"none", "none">>, <<"Route", "leg">>, <<"other", "other">>}
    \cup ({"other"} \X Marks)

Navigating(w) == <<w.route, w.point>>

\* OpenCPN navigates with object o: it is the active route or waypoint.
Follows(w, o) == w.route = o \/ w.point = o

(***************************************************************************)
(* DeleteSingleWaypoint, DeletePlugInRoute, DeletePlugInTrack: deleting    *)
(* what OpenCPN navigates with also switches navigation off.               *)
(***************************************************************************)
Delete(w, o) ==
  [drawn |-> [w.drawn EXCEPT ![o] = None],
   route |-> IF Follows(w, o) THEN "none" ELSE w.route,
   point |-> IF Follows(w, o) THEN "none" ELSE w.point]

(***************************************************************************)
(* AddSingleWaypoint(Ex), AddPlugInRoute, AddPlugInTrack put a deleted     *)
(* object back; UpdateSingleWaypointEx edits it in place.  None of them    *)
(* touches navigation.                                                     *)
(***************************************************************************)
Draw(w, o, c) ==
  [drawn |-> [w.drawn EXCEPT ![o] = c], route |-> w.route, point |-> w.point]

SetNavigation(w, nav) ==
  [drawn |-> w.drawn, route |-> nav[1], point |-> nav[2]]

EmptyChart == [drawn |-> [o \in Objects |-> None],
               route |-> "none", point |-> "none"]

ChartOf(Drawings) == {w \in [drawn : [Objects -> Drawings \cup {None}],
                             route : {"none", "Route", "other"},
                             point : {"none", "leg", "other"} \cup Marks] :
                        Navigating(w) \in Navigation}

-----------------------------------------------------------------------------
(***************************************************************************)
(* What the navigator does in OpenCPN itself.  Only an object on the chart *)
(* can be activated; deleting a route or mark by hand is like Delete.      *)
(***************************************************************************)
Navigate(w) ==
  {SetNavigation(w, nav) : nav \in
    {n \in Navigation : /\ n[1] = "Route" => w.drawn["Route"] # None
                        /\ n[2] \in Marks => w.drawn[n[2]] # None}}

DeleteByHand(w) == {Delete(w, o) : o \in {x \in Objects : w.drawn[x] # None}}
=============================================================================
