---------------------------- MODULE Recalculation ----------------------------
(***************************************************************************)
(* One recalculation from end to end: the text of the reported position,   *)
(* the case made of it (Case::FinalizeDatum and SolveIntercept in          *)
(* src/src/intercept_pi.cpp), and what the navigator then sees of it, the  *)
(* rows of the panel (ShowOutputs in src/src/intercept_panel.cpp) and the  *)
(* course on the chart (UpdateCourseRoute).                                *)
(*                                                                         *)
(* Own-ship, target and drift are on one meridian, north positive, where   *)
(* a great circle is a difference of latitudes.  A nautical mile is a      *)
(* minute of arc, 600 of PositionParse's units, and time is in whole       *)
(* hours.  The ageing is DatumAge's in one step.  The solver is what       *)
(* MovingIntercept shows it to be: it finds the earliest hour of meeting a *)
(* target no faster than it allows for, unless it first runs out of the    *)
(* evaluations it may spend.                                               *)
(***************************************************************************)
EXTENDS PositionParse, Format

CONSTANTS
  Characters,    \* what the operator may type, one after the other ...
  MaxTyped,      \* ... up to this many
  Halves,        \* longer texts: the halves of a position
  Typical,       \* halves that are in order, to go with them
  Shown,         \* coordinates on OpenCPN's chart, to be copied
  Offsets,       \* how far north of the report own-ship may be, in miles
  Speeds,        \* own-ship's speeds, in knots
  Rates,         \* entered rates of drift, in knots
  Streams,       \* what a GRIB file makes of the drift, in knots north
  Ages,          \* hours since the report, negative if it is yet to come
  MaxElapsed,    \* kMaxElapsedSeconds, in hours
  Cap            \* kCapHours

kMaxTargetSpeedKt == 20

ASSUME RecalculationAssumption ==
  /\ Characters \subseteq Elements /\ MaxTyped \in Nat
  /\ Halves \subseteq Seq(Elements) \ {<<>>} /\ Typical \subseteq Halves
  /\ Shown \subseteq [d : Numerals, m : Numerals, s : Numerals, negative : BOOLEAN]
  /\ Offsets \subseteq Int /\ Speeds \subseteq Nat
  /\ Rates \subseteq 0..kMaxTargetSpeedKt
  /\ Streams \subseteq -kMaxTargetSpeedKt..kMaxTargetSpeedKt
  /\ Ages \subseteq Int /\ MaxElapsed \in Nat /\ Cap \in Nat

\* Degrees, minutes and seconds as they are shown.
ASSUME ShownAssumption ==
  \A k \in Shown : /\ Value[k.d] >= 0
                   /\ Value[k.m] \in 0..599 /\ Value[k.s] \in 0..599

VARIABLES
  text,          \* m_position_ctrl
  copied,        \* history: the position on the chart the text was copied
                 \* from, or None
  c,             \* m_last_case, or None
  own,           \* m_last_own
  rows,          \* the output rows
  route          \* the course on the chart and its mark

vars == <<text, copied, c, own, rows, route>>

None   == [none |-> TRUE]
Mile   == 600
FiniteAt(p) == p.lat.finite /\ p.lon.finite
At(lat, lon) == [lat |-> lat, lon |-> lon]
North(p, d)  == At(Plus(p.lat, Number(d)), p.lon)
Magnitude(n) == IF n < 0 THEN -n ELSE n
-----------------------------------------------------------------------------
(***************************************************************************)
(* CourseToSteer: which way and how far; nothing at all for a place that   *)
(* is none.                                                                *)
(***************************************************************************)
CourseToSteer(from, to) ==
  IF FiniteAt(from) /\ FiniteAt(to)
  THEN [towards  |-> IF to.lat.v < from.lat.v THEN "180" ELSE "000",
        distance |-> Magnitude(to.lat.v - from.lat.v)]
  ELSE [towards |-> "000", distance |-> 0]
-----------------------------------------------------------------------------
(***************************************************************************)
(* The case.  A GRIB file outweighs an entered drift.                      *)
(***************************************************************************)
\* A slip: the drift field stays in force under a GRIB file.
AgeingDriftEntered(k) == IF k.has_manual_drift THEN k.manual_set * k.manual_drift_kt
                         ELSE IF k.grib # {} THEN CHOOSE s \in k.grib : TRUE ELSE 0

AgeingDrift(k) ==
  IF k.grib # {} THEN CHOOSE s \in k.grib : TRUE
  ELSE IF k.has_manual_drift THEN k.manual_set * k.manual_drift_kt ELSE 0

\* For how long the report has drifted h hours from now: not before it was
\* made, and not for longer than the cap.
DriftTime(k, h) ==
  IF k.age + h <= 0 THEN 0 ELSE IF k.age + h > MaxElapsed THEN MaxElapsed ELSE k.age + h

\* Where the target is then.
AgedDatum(k, h) == North(k.at, Mile * AgeingDrift(k) * DriftTime(k, h))

FinalizeDatum(k) == [k EXCEPT !.aged = AgedDatum(k, 0), !.elapsed = DriftTime(k, 0)]

\* Slips: the target is followed from where it was reported, or on past the
\* cap.
TargetAtFromReport(k, h) == North(k.at, Mile * AgeingDrift(k) * h)
TargetAtUncapped(k, h)   == North(k.aged, Mile * AgeingDrift(k) * h)

TargetAt(k, h) == AgedDatum(k, h)

\* The earliest hour at which own-ship can have run to the target.
Meetings(k, o) ==
  {h \in 0..Cap : CourseToSteer(o.at, TargetAt(k, h)).distance <= Mile * o.sog.v * h}

SolveInterceptAnySpeed(k, o, spent) ==
  IF Meetings(k, o) = {} THEN k
  ELSE LET h == Min(Meetings(k, o))
       IN  [k EXCEPT !.intercept_solved = TRUE, !.eta = h, !.intercept = TargetAt(k, h),
                     !.leg = CourseToSteer(o.at, TargetAt(k, h))]

\* spent is whether the evaluations run out before the meeting is found; one
\* where own-ship is already takes the first.
SolveIntercept(k, o, spent) ==
  IF ~Above(o.sog, 0) \/ Meetings(k, o) = {} \/ (spent /\ 0 \notin Meetings(k, o)) THEN k
  ELSE LET h == Min(Meetings(k, o))
       IN  [k EXCEPT !.intercept_solved = TRUE, !.eta = h, !.intercept = TargetAt(k, h),
                     !.leg = CourseToSteer(o.at, TargetAt(k, h))]
-----------------------------------------------------------------------------
(***************************************************************************)
(* ShowOutputs.                                                            *)
(***************************************************************************)
DriftRow(k) ==
  IF k.grib # {} THEN [from |-> "GRIB", rate |-> 0]
  ELSE IF k.has_manual_drift THEN [from |-> "entered", rate |-> k.manual_set * k.manual_drift_kt]
  ELSE [from |-> "none", rate |-> 0]

CourseRows(k, o) ==
  IF o = None THEN [why |-> "no_own_ship"]
  ELSE IF k.intercept_solved
  THEN [why |-> "meets", to |-> k.intercept, leg |-> k.leg, eta |-> FormatEtaHhMm(3600 * k.eta)]
  ELSE [why |-> IF Above(o.sog, 0) THEN "not_caught_up" ELSE "speed_not_set",
        to |-> k.aged, leg |-> CourseToSteer(o.at, k.aged)]

ShowOutputs(k, o) ==
  [datum   |-> k.aged,
   drift   |-> DriftRow(k),
   moved   |-> CourseToSteer(k.at, k.aged),
   elapsed |-> IF k.elapsed > 0 THEN FormatEtaHhMm(3600 * k.elapsed) ELSE None,
   course  |-> CourseRows(k, o)]

(***************************************************************************)
(* The course: a line from own-ship to the intercept, which then has a     *)
(* mark, or else to the estimate.  What is not finite becomes 0.           *)
(***************************************************************************)
Finite(p) == At(Number(p.lat.v), Number(p.lon.v))

\* A slip: the line goes to the estimate also when the intercept is known.
UpdateCourseRouteToEstimate(k, o) ==
  IF o = None THEN [drawn |-> FALSE]
  ELSE [drawn |-> TRUE, from |-> Finite(o.at), to |-> Finite(k.aged), mark |-> k.intercept_solved]

UpdateCourseRoute(k, o) ==
  IF o = None THEN [drawn |-> FALSE]
  ELSE [drawn |-> TRUE, from |-> Finite(o.at),
        to    |-> Finite(IF k.intercept_solved THEN k.intercept ELSE k.aged),
        mark  |-> k.intercept_solved]
-----------------------------------------------------------------------------
Init ==
  /\ text = <<>> /\ copied = None
  /\ c = None /\ own = None
  /\ rows = None /\ route = [drawn |-> FALSE]

\* The text, before it is used.
Writes(t, p) ==
  /\ c = None
  /\ text' = t /\ copied' = p
  /\ UNCHANGED <<c, own, rows, route>>

\* One character at a time.
Type(ch) ==
  /\ copied = None /\ Len(text) < MaxTyped
  /\ Separate(Append(text, ch))
  /\ Writes(Append(text, ch), None)

Join(lat, separator, lon) ==
  /\ Separate(lat \o separator \o lon)
  /\ Writes(lat \o separator \o lon, None)

Enter ==
  /\ text = <<>>
  /\ \E half \in Halves, other \in Typical, sep \in {<<>>, <<Blank>>, <<Comma, Blank>>} :
       Join(half, sep, other) \/ Join(other, sep, half)

\* A position as OpenCPN shows it, copied into the field, or seeded there.
OnEarth(k, is_latitude) == Magnitude(Place(k)) <= 3600 * MaxDegrees(is_latitude)

Copy ==
  /\ text = <<>>
  /\ \E format \in Formats, lat, lon \in Shown :
       /\ Shows(format, lat) /\ Shows(format, lon)
       /\ OnEarth(lat, TRUE) /\ OnEarth(lon, FALSE)
       /\ Writes(FormatPosition(format, lat, lon), [lat |-> lat, lon |-> lon])

(***************************************************************************)
(* A run that can read the position (DoRecalculate).  Own-ship may be      *)
(* known or not, from the GPS or typed; its speed may be 0, or the NaN     *)
(* OpenCPN has for an unknown one.  Its position has nothing to do with    *)
(* the report: either may be a "nan" beside a place that is one.           *)
(***************************************************************************)
Inputs(at, age, grib, set, rate) ==
  [at |-> at, age |-> age, grib |-> grib,
   has_manual_drift |-> rate > 0, manual_set |-> set, manual_drift_kt |-> rate,
   aged |-> at, elapsed |-> 0, intercept_solved |-> FALSE, intercept |-> at, eta |-> 0,
   leg |-> [towards |-> "000", distance |-> 0]]

\* On the report's meridian, or nowhere.
OwnPlaces(at) ==
  {North(Finite(at), Mile * d) : d \in Offsets}
  \cup {At(NaN, Finite(at).lon), At(Finite(at).lat, NaN)}

OwnShips(at) ==
  {None} \cup [at : OwnPlaces(at), sog : {NaN} \cup {Number(n) : n \in Speeds}]

Recalculate(k, o, spent) ==
  LET dated  == FinalizeDatum(k)
      solved == IF o = None THEN dated ELSE SolveIntercept(dated, o, spent)
  IN  /\ c' = solved /\ own' = o
      /\ rows' = ShowOutputs(solved, o)
      /\ route' = UpdateCourseRoute(solved, o)
      /\ UNCHANGED <<text, copied>>

Run ==
  LET p == ParsePos(text)
  IN  /\ c = None /\ p.ok
      /\ \E age \in Ages, grib \in {{}} \cup {{s} : s \in Streams},
            set \in {-1, 1}, rate \in Rates, o \in OwnShips(At(p.lat, p.lon)),
            spent \in BOOLEAN :
           Recalculate(Inputs(At(p.lat, p.lon), age, grib, set, rate), o, spent)

Next == (\E ch \in Characters : Type(ch)) \/ Enter \/ Copy \/ Run

Spec == Init /\ [][Next]_vars
-----------------------------------------------------------------------------
(***************************************************************************)
(* A text is accepted exactly when it is a latitude and a longitude in one *)
(* of the documented notations, and then means what is written: never a    *)
(* part of it, never minutes without their degrees' letter, never the two  *)
(* the wrong way round (position_parse.h:26-41).  A text with "nan" in it  *)
(* is set apart, see NoCourseToNowhere.                                    *)
(***************************************************************************)
ReadsWhatIsWritten ==
  c = None =>
  LET p       == ParsePos(text)
      written == Positions(Words(text))
  IN  /\ written # {} => p.ok /\ FiniteAt(p)
      /\ p.ok /\ FiniteAt(p) => [lat |-> p.lat.v, lon |-> p.lon.v] \in written

(***************************************************************************)
(* "ParseCoordinate() reads all three back, so a shown position can be     *)
(* copied into an input field" (intercept_panel.cpp:44-48).                *)
(***************************************************************************)
CopiedReadsBack ==
  copied # None =>
    LET p == ParsePos(text)
    IN  p.ok /\ p.lat = Number(Place(copied.lat)) /\ p.lon = Number(Place(copied.lon))

(***************************************************************************)
(* The rows and the chart tell the same course: it has an intercept mark   *)
(* exactly when there is an ETA, without an own-ship there is neither, and *)
(* between a report and an own-ship that are places the line goes where    *)
(* the rows say and as far as they say (intercept_panel.cpp:804-848 and    *)
(* intercept_pi.cpp:417-466, which decide it separately).  Only then: of a *)
(* "nan" the chart makes a 0, and draws a line the rows know nothing of    *)
(* (route_helper.cpp:24-29), see NoCourseToNowhere.                        *)
(***************************************************************************)
HasEta == "eta" \in DOMAIN rows.course

RowsTellTheChart ==
  c # None =>
    IF own = None THEN ~route.drawn /\ ~HasEta
    ELSE /\ route.drawn /\ (route.mark <=> HasEta)
         /\ FiniteAt(c.at) /\ FiniteAt(own.at) =>
              /\ route.from = own.at /\ route.to = rows.course.to
              /\ rows.course.leg = CourseToSteer(route.from, route.to)

(***************************************************************************)
(* "The plugin does not send you to where it is now, but to where you will *)
(* meet it" (USER_GUIDE.md section 6): the intercept is where the estimate *)
(* on the chart drifts to until the ETA, own-ship can run there by then,   *)
(* and an hour earlier could not.  A target whose report has come of the   *)
(* age at which the model stops (datum_age.cpp:122-129) drifts only up to  *)
(* there.  The estimate and the intercept come from two separate ageings   *)
(* of the report.                                                          *)
(***************************************************************************)
Reaches(o, p, h) == CourseToSteer(o.at, p).distance <= Mile * o.sog.v * h

MeetsDriftingTarget ==
  c # None /\ c.intercept_solved =>
    LET rate == Mile * AgeingDrift(c)
        left == MaxElapsed - c.age
        drifting(h) == IF left < 0 THEN 0 ELSE IF h > left THEN left ELSE h
        estimate(h) == North(c.aged, rate * drifting(h))
    IN  /\ Reaches(own, c.intercept, c.eta)
        /\ c.age >= 0 => /\ c.intercept = estimate(c.eta)
                         /\ c.eta > 0 => ~Reaches(own, estimate(c.eta - 1), c.eta - 1)

(***************************************************************************)
(* Without a speed there is no meeting and no ETA, and the row says so: a  *)
(* speed that is 0, or the NaN of an unknown one (intercept_pi.h,          *)
(* OwnShipState; intercept_panel.cpp:829).                                 *)
(***************************************************************************)
EtaNeedsSpeed ==
  c # None /\ own # None /\ ~Above(own.sog, 0) =>
    ~HasEta /\ ~route.mark /\ rows.course.why = "speed_not_set"

(***************************************************************************)
(* The drift row tells the drift that was applied: in the hours of the     *)
(* elapsed row it takes the report to the estimate, also when both a GRIB  *)
(* file and an entered drift are there, and when the report is from the    *)
(* future or too old (intercept_panel.cpp:783-798 says it has "the same    *)
(* priority as ComputeAgedDatum").                                         *)
(***************************************************************************)
DriftRowTellsDrift ==
  c # None /\ FiniteAt(c.at) =>
    LET rates == IF rows.drift.from = "GRIB" THEN c.grib ELSE {rows.drift.rate}
    IN  \E rate \in rates :
          /\ rows.datum = North(c.at, Mile * rate * c.elapsed)
          /\ rows.moved.distance = Mile * Magnitude(rate) * c.elapsed

(***************************************************************************)
(* What a comment says that the code does not do: a place that is none     *)
(* gives "no ETA -- so callers show '--' rather than a course to nowhere"  *)
(* (intercept.cpp:34-37).  The zero distance makes the solver meet it at   *)
(* once.                                                                   *)
(***************************************************************************)
NoCourseToNowhere ==
  c # None /\ own # None /\ ~(FiniteAt(c.at) /\ FiniteAt(own.at)) => ~HasEta /\ ~route.mark
=============================================================================
