------------------------ MODULE InterceptPanelProofs ------------------------
(***************************************************************************)
(* What is proved of the chart and of the panel that draws on it, for any  *)
(* sets of situations and shapes.                                          *)
(*                                                                         *)
(* The chart (ChartObjects): the plugin issues its API calls one after the *)
(* other; the lemmas say what each stage of a redraw does to the chart as  *)
(* a whole, so that the theorems never look at a single call.              *)
(*                                                                         *)
(* The panel (InterceptPanel): it uses the chart only as ChartObjects      *)
(* allows, so the theorems on the chart hold of the panel's chart, and     *)
(* with them the panel's own invariants.                                   *)
(***************************************************************************)
EXTENDS InterceptPanel, TLAPS

(***************************************************************************)
(* The two marks' stages change only the two marks and leave navigation    *)
(* alone.                                                                  *)
(***************************************************************************)
LEMMA MarkStages ==
  ASSUME NEW w \in ChartOf(Case), NEW c \in Case, NEW show \in Show
  PROVE  EstimatedMark(ReportedMark(w, c, show), c, show) =
           [drawn |-> [w.drawn EXCEPT
                !["Reported"] = IF w.point = "Reported" THEN w.drawn["Reported"]
                                ELSE IF show.target THEN c ELSE None,
                !["Estimated"] = IF w.point = "Estimated" \/ show.estimated
                                 THEN c ELSE None],
            route |-> w.route, point |-> w.point]
  BY DEF ReportedMark, EstimatedMark, Replace, Delete, Draw, Follows, ChartOf,
         Objects, Marks, Show, Navigation, Navigating

\* The track's stage changes the track only and leaves navigation alone.
LEMMA TrackStage ==
  ASSUME NEW w \in ChartOf(Case), NEW c \in Case, NEW show \in Show
  PROVE  DriftTrack(w, c, show) =
           [drawn |-> [w.drawn EXCEPT
                !["Track"] = IF show.lines /\ c.shape.drifted THEN c ELSE None],
            route |-> w.route, point |-> w.point]
  BY DEF DriftTrack, Replace, Delete, Draw, Follows, ChartOf, Objects, Marks,
         Show, Navigation, Navigating

\* While neither is followed, the course stage replaces the route and the
\* Intercept mark, and leaves navigation alone.
LEMMA CourseStage ==
  ASSUME NEW w \in ChartOf(Case), NEW c \in Case, NEW own \in BOOLEAN,
         ~HoldsCourse(w)
  PROVE  UpdateCourseRoute(w, c, own) =
           [drawn |-> [w.drawn EXCEPT
                !["Route"] = IF own THEN c ELSE None,
                !["Intercept"] = IF own /\ c.shape.solved THEN c ELSE None],
            route |-> w.route, point |-> w.point]
  BY DEF UpdateCourseRoute, HoldsCourse, Delete, Draw, Follows, ChartOf, Objects, Marks,
         Navigation, Navigating

-----------------------------------------------------------------------------
(***************************************************************************)
(* A whole redraw, object by object: what it leaves alone, what it draws   *)
(* and what it removes.  Navigation comes out as it went in.               *)
(***************************************************************************)
Redrawn(w, c, own, show, o) ==
  CASE o = "Reported"  -> IF w.point = "Reported" THEN w.drawn[o]
                          ELSE IF show.target THEN c ELSE None
    [] o = "Estimated" -> IF w.point = "Estimated" \/ show.estimated
                          THEN c ELSE None
    [] o = "Track"     -> IF show.lines /\ c.shape.drifted THEN c ELSE None
    [] o = "Route"     -> IF HoldsCourse(w) THEN w.drawn[o]
                          ELSE IF show.lines /\ own THEN c ELSE None
    [] o = "Intercept" -> IF HoldsCourse(w) THEN w.drawn[o]
                          ELSE IF show.lines /\ own /\ c.shape.solved
                          THEN c ELSE None

LEMMA RedrawEffect ==
  ASSUME NEW w \in ChartOf(Case), NEW c \in Case, NEW own \in BOOLEAN,
         NEW show \in Show
  PROVE  UpdateChartObjects(w, c, own, show) =
           [drawn |-> [o \in Objects |-> Redrawn(w, c, own, show, o)],
            route |-> w.route, point |-> w.point]
<1> DEFINE marks == EstimatedMark(ReportedMark(w, c, show), c, show)
           lines == DriftTrack(marks, c, show)
           course == show.lines /\ own
<1>1. /\ marks \in ChartOf(Case)
      /\ marks.route = w.route /\ marks.point = w.point
      /\ marks.drawn = [w.drawn EXCEPT
           !["Reported"] = IF w.point = "Reported" THEN w.drawn["Reported"]
                           ELSE IF show.target THEN c ELSE None,
           !["Estimated"] = IF w.point = "Estimated" \/ show.estimated
                            THEN c ELSE None]
  BY MarkStages DEF ChartOf, Objects, Marks, Show, Navigation, Navigating
<1>2. /\ lines \in ChartOf(Case)
      /\ lines.route = w.route /\ lines.point = w.point
      /\ lines.drawn = [marks.drawn EXCEPT
           !["Track"] = IF show.lines /\ c.shape.drifted THEN c ELSE None]
  <2> HIDE DEF marks
  <2>1. lines = [drawn |-> [marks.drawn EXCEPT
                   !["Track"] = IF show.lines /\ c.shape.drifted THEN c ELSE None],
                 route |-> marks.route, point |-> marks.point]
    BY <1>1, TrackStage
  <2>2. marks.drawn \in [Objects -> Case \cup {None}]
    BY <1>1 DEF ChartOf
  <2> HIDE DEF lines
  <2>3. lines.drawn \in [Objects -> Case \cup {None}]
    BY <2>1, <2>2 DEF Objects
  <2> QED
    BY <1>1, <2>1, <2>3 DEF ChartOf, Navigating
<1>3. HoldsCourse(lines) = HoldsCourse(w)
  BY <1>2 DEF HoldsCourse
<1> HIDE DEF marks, lines
<1>4. CASE HoldsCourse(w)
  <2>1. UpdateChartObjects(w, c, own, show) = lines
    BY <1>4 DEF UpdateChartObjects, marks, lines
  <2> QED
    BY <1>1, <1>2, <1>4, <2>1 DEF Redrawn, ChartOf, Objects, Marks
<1>5. CASE ~HoldsCourse(w)
  <2>1. UpdateChartObjects(w, c, own, show) = UpdateCourseRoute(lines, c, course)
    BY <1>5 DEF UpdateChartObjects, marks, lines
  <2>2. course \in BOOLEAN
    OBVIOUS
  <2>3. UpdateChartObjects(w, c, own, show) =
          [drawn |-> [lines.drawn EXCEPT
               !["Route"] = IF course THEN c ELSE None,
               !["Intercept"] = IF course /\ c.shape.solved THEN c ELSE None],
           route |-> lines.route, point |-> lines.point]
    <3> HIDE DEF course
    <3> QED  BY <1>2, <1>3, <1>5, <2>1, <2>2, CourseStage
  <2> QED
    BY <1>1, <1>2, <1>5, <2>3 DEF Redrawn, ChartOf, Objects, Marks
<1> QED  BY <1>4, <1>5

(***************************************************************************)
(* A redraw cut short: each object is as it was, or gone, or as the whole  *)
(* redraw would leave it; what is kept is kept, navigation is untouched,   *)
(* and an Intercept mark is still beside its old route or none, or already *)
(* beside its new one.                                                     *)
(***************************************************************************)
HalfWay(w, c, own, show, v) ==
  /\ v = [drawn |-> v.drawn, route |-> w.route, point |-> w.point]
  /\ v.drawn \in [Objects -> Case \cup {None}]
  /\ \A o \in Objects : v.drawn[o] \in {None, w.drawn[o], Redrawn(w, c, own, show, o)}
  /\ w.point = "Reported" => v.drawn["Reported"] = w.drawn["Reported"]
  /\ HoldsCourse(w) => /\ v.drawn["Route"] = w.drawn["Route"]
                       /\ v.drawn["Intercept"] = w.drawn["Intercept"]
  /\ v.drawn["Intercept"] # None =>
       \/ /\ v.drawn["Intercept"] = w.drawn["Intercept"]
          /\ v.drawn["Route"] \in {None, w.drawn["Route"]}
       \/ v.drawn["Intercept"] = c /\ v.drawn["Route"] = c /\ c.shape.solved

LEMMA MarksHalfWay ==
  ASSUME NEW w \in ChartOf(Case), NEW c \in Case, NEW own \in BOOLEAN, NEW show \in Show,
         NEW v \in MarkPasses(w, c, show)
  PROVE  HalfWay(w, c, own, show, v)
<1> DEFINE reported == ReportedMark(w, c, show)
<1>1. /\ w = [drawn |-> w.drawn, route |-> w.route, point |-> w.point]
      /\ w.drawn \in [Objects -> Case \cup {None}]
      /\ {"Reported", "Estimated"} \subseteq Objects
      /\ ~Follows(w, "Reported") \/ w.point = "Reported"
      /\ ~Follows(w, "Estimated") \/ w.point = "Estimated"
  BY DEF ChartOf, Objects, Marks, Follows
<1>2. /\ reported = [drawn |-> reported.drawn, route |-> w.route, point |-> w.point]
      /\ reported.drawn = [w.drawn EXCEPT !["Reported"] =
                             IF w.point = "Reported" THEN w.drawn["Reported"]
                             ELSE IF show.target THEN c ELSE None]
  BY <1>1 DEF ReportedMark, Replace, Delete, Draw, Follows, Show
<1>3. \A x \in {w, reported} : HalfWay(w, c, own, show, x)
  BY <1>1, <1>2 DEF HalfWay, Redrawn, Objects, Marks
<1>4. CASE w.point # "Reported" /\ v \in Passes(w, "Reported", show.target, c)
  <2>1. CASE v \in {w, reported}
    BY <1>3, <2>1
  <2>2. CASE v = Delete(w, "Reported")
    <3>1. /\ v = [drawn |-> v.drawn, route |-> w.route, point |-> w.point]
          /\ v.drawn = [w.drawn EXCEPT !["Reported"] = None]
      BY <1>1, <1>4, <2>2 DEF Delete
    <3> QED  BY <1>1, <1>4, <3>1 DEF HalfWay, Objects, Marks
  <2> QED  BY <1>4, <2>1, <2>2 DEF Passes, ReportedMark
<1>5. CASE v = EstimatedMark(reported, c, show)
  <2>1. /\ v = [drawn |-> v.drawn, route |-> w.route, point |-> w.point]
        /\ v.drawn = [reported.drawn EXCEPT !["Estimated"] =
                        IF w.point = "Estimated" \/ show.estimated THEN c ELSE None]
    BY <1>1, <1>2, <1>5 DEF EstimatedMark, Replace, Delete, Draw, Follows, Show
  <2> HIDE DEF reported
  <2> QED  BY <1>1, <1>2, <2>1 DEF HalfWay, Redrawn, Objects, Marks
<1>6. CASE w.point # "Estimated" /\ v = Delete(reported, "Estimated")
  <2>1. /\ v = [drawn |-> v.drawn, route |-> w.route, point |-> w.point]
        /\ v.drawn = [reported.drawn EXCEPT !["Estimated"] = None]
    BY <1>1, <1>2, <1>6 DEF Delete, Follows
  <2> HIDE DEF reported
  <2> QED  BY <1>1, <1>2, <2>1 DEF HalfWay, Redrawn, Objects, Marks
<1> QED  BY <1>2, <1>3, <1>4, <1>5, <1>6 DEF MarkPasses, Passes, EstimatedMark

\* The whole redraw up to a stage is half way too.
LEMMA StagesHalfWay ==
  ASSUME NEW w \in ChartOf(Case), NEW c \in Case, NEW own \in BOOLEAN, NEW show \in Show
  PROVE  LET marks == EstimatedMark(ReportedMark(w, c, show), c, show)
             lines == DriftTrack(marks, c, show)
         IN  /\ HalfWay(w, c, own, show, marks) /\ HalfWay(w, c, own, show, lines)
             /\ HalfWay(w, c, own, show, Delete(marks, "Track"))
             /\ lines \in ChartOf(Case)
             /\ \A o \in {"Route", "Intercept"} : lines.drawn[o] = w.drawn[o]
<1> DEFINE marks == EstimatedMark(ReportedMark(w, c, show), c, show)
           lines == DriftTrack(marks, c, show)
<1>1. /\ marks = [drawn |-> marks.drawn, route |-> w.route, point |-> w.point]
      /\ marks.drawn = [w.drawn EXCEPT
           !["Reported"] = IF w.point = "Reported" THEN w.drawn["Reported"]
                           ELSE IF show.target THEN c ELSE None,
           !["Estimated"] = IF w.point = "Estimated" \/ show.estimated
                            THEN c ELSE None]
      /\ marks \in ChartOf(Case)
  BY MarkStages DEF ChartOf, Objects, Marks, Show, Navigation, Navigating
<1> HIDE DEF marks
<1>2. marks.drawn \in [Objects -> Case \cup {None}]
  BY <1>1 DEF ChartOf
<1>3. HalfWay(w, c, own, show, marks)
  BY <1>1, <1>2 DEF HalfWay, Redrawn, Objects, Marks, ChartOf
<1>4. lines = [drawn |-> [marks.drawn EXCEPT
                 !["Track"] = IF show.lines /\ c.shape.drifted THEN c ELSE None],
               route |-> marks.route, point |-> marks.point]
  BY <1>1, TrackStage
<1> HIDE DEF lines
<1>5. /\ lines.route = w.route /\ lines.point = w.point
      /\ lines.drawn = [marks.drawn EXCEPT
           !["Track"] = IF show.lines /\ c.shape.drifted THEN c ELSE None]
      /\ lines = [drawn |-> lines.drawn, route |-> w.route, point |-> w.point]
  BY <1>1, <1>4
<1>6. lines.drawn \in [Objects -> Case \cup {None}]
  BY <1>2, <1>5 DEF Objects
<1>7. lines \in ChartOf(Case)
  BY <1>1, <1>4, <1>5, <1>6 DEF ChartOf, Navigating
<1>8. HalfWay(w, c, own, show, lines)
  BY <1>1, <1>2, <1>5, <1>6 DEF HalfWay, Redrawn, Objects, Marks, ChartOf
<1>9. LET v == Delete(marks, "Track")
      IN  /\ v = [drawn |-> v.drawn, route |-> w.route, point |-> w.point]
          /\ v.drawn = [marks.drawn EXCEPT !["Track"] = None]
  BY <1>1 DEF Delete, Follows, ChartOf, Objects, Marks
<1>10. HalfWay(w, c, own, show, Delete(marks, "Track"))
  BY <1>1, <1>2, <1>9 DEF HalfWay, Redrawn, Objects, Marks, ChartOf
<1>11. \A o \in {"Route", "Intercept"} : lines.drawn[o] = w.drawn[o]
  BY <1>1, <1>2, <1>5 DEF ChartOf, Objects, Marks
<1> QED  BY <1>3, <1>7, <1>8, <1>10, <1>11 DEF lines, marks

LEMMA CourseHalfWay ==
  ASSUME NEW w \in ChartOf(Case), NEW c \in Case, NEW own \in BOOLEAN, NEW show \in Show,
         NEW lines \in ChartOf(Case), HalfWay(w, c, own, show, lines),
         \A o \in {"Route", "Intercept"} : lines.drawn[o] = w.drawn[o],
         ~HoldsCourse(w),
         NEW v \in CoursePasses(lines, c, show.lines /\ own)
  PROVE  HalfWay(w, c, own, show, v)
<1> DEFINE course == show.lines /\ own
           bare == Delete(Delete(lines, "Route"), "Intercept")
<1>1. /\ lines = [drawn |-> lines.drawn, route |-> w.route, point |-> w.point]
      /\ lines.drawn \in [Objects -> Case \cup {None}]
      /\ ~Follows(lines, "Route") /\ ~Follows(lines, "Intercept")
      /\ ~HoldsCourse(lines)
      /\ course \in BOOLEAN
  BY DEF HalfWay, HoldsCourse, Follows, ChartOf, Navigation, Navigating, Show, Marks
<1>2. /\ Delete(lines, "Route").drawn = [lines.drawn EXCEPT !["Route"] = None]
      /\ bare.drawn = [lines.drawn EXCEPT !["Route"] = None, !["Intercept"] = None]
      /\ Draw(bare, "Route", c).drawn =
           [lines.drawn EXCEPT !["Route"] = c, !["Intercept"] = None]
      /\ UpdateCourseRoute(lines, c, course).drawn =
           [lines.drawn EXCEPT !["Route"] = IF course THEN c ELSE None,
                               !["Intercept"] = IF course /\ c.shape.solved THEN c ELSE None]
      /\ \A x \in {Delete(lines, "Route"), bare, Draw(bare, "Route", c),
                   UpdateCourseRoute(lines, c, course)} :
           x = [drawn |-> x.drawn, route |-> w.route, point |-> w.point]
  <2>1. Delete(lines, "Route") =
          [drawn |-> [lines.drawn EXCEPT !["Route"] = None], route |-> w.route,
           point |-> w.point]
    BY <1>1 DEF Delete
  <2>2. bare = [drawn |-> [lines.drawn EXCEPT !["Route"] = None, !["Intercept"] = None],
                route |-> w.route, point |-> w.point]
    BY <1>1, <2>1 DEF Delete, Follows
  <2>3. Draw(bare, "Route", c) =
          [drawn |-> [lines.drawn EXCEPT !["Route"] = c, !["Intercept"] = None],
           route |-> w.route, point |-> w.point]
    <3> HIDE DEF bare
    <3> QED  BY <1>1, <2>2 DEF Draw, Objects, Marks
  <2>4. UpdateCourseRoute(lines, c, course) =
          [drawn |-> [lines.drawn EXCEPT
               !["Route"] = IF course THEN c ELSE None,
               !["Intercept"] = IF course /\ c.shape.solved THEN c ELSE None],
           route |-> w.route, point |-> w.point]
    <3> HIDE DEF course
    <3> QED  BY <1>1, CourseStage
  <2> HIDE DEF bare, course
  <2> QED  BY <2>1, <2>2, <2>3, <2>4
<1>3. /\ course => \A o \in {"Route"} : Redrawn(w, c, own, show, o) = c
      /\ course /\ c.shape.solved => Redrawn(w, c, own, show, "Intercept") = c
  BY DEF Redrawn
<1>4. /\ v \in {lines, Delete(lines, "Route"), bare, UpdateCourseRoute(lines, c, course)}
           \/ (course /\ v = Draw(bare, "Route", c))
  BY DEF CoursePasses
<1> HIDE DEF bare, course
<1>5. \/ v = lines
      \/ /\ v = [drawn |-> v.drawn, route |-> w.route, point |-> w.point]
         /\ \E r, m \in {None, c, lines.drawn["Intercept"]} :
              /\ v.drawn = [lines.drawn EXCEPT !["Route"] = r, !["Intercept"] = m]
              /\ r # None => r = c /\ course
              /\ m # None => \/ m = w.drawn["Intercept"] /\ r = None
                             \/ m = c /\ r = c /\ course /\ c.shape.solved
  <2>1. CASE v = Delete(lines, "Route")
    BY <1>1, <1>2, <2>1 DEF Objects, Marks
  <2>2. CASE v = bare
    BY <1>1, <1>2, <2>2
  <2>3. CASE v = UpdateCourseRoute(lines, c, course)
    BY <1>1, <1>2, <2>3
  <2>4. CASE course /\ v = Draw(bare, "Route", c)
    BY <1>1, <1>2, <2>4
  <2> QED  BY <1>4, <2>1, <2>2, <2>3, <2>4
<1>6. CASE v # lines
  <2>1. PICK r, m \in {None, c, lines.drawn["Intercept"]} :
              /\ v.drawn = [lines.drawn EXCEPT !["Route"] = r, !["Intercept"] = m]
              /\ r # None => r = c /\ course
              /\ m # None => \/ m = w.drawn["Intercept"] /\ r = None
                             \/ m = c /\ r = c /\ course /\ c.shape.solved
    BY <1>5, <1>6
  <2>2. /\ v.drawn["Route"] = r /\ v.drawn["Intercept"] = m
        /\ \A o \in Objects \ {"Route", "Intercept"} : v.drawn[o] = lines.drawn[o]
        /\ v.drawn \in [Objects -> Case \cup {None}]
    BY <1>1, <2>1 DEF Objects, Marks
  <2>3. \A o \in Objects : v.drawn[o] \in {None, w.drawn[o], Redrawn(w, c, own, show, o)}
    BY <1>3, <2>1, <2>2 DEF HalfWay
  <2> QED  BY <1>5, <1>6, <2>1, <2>2, <2>3 DEF HalfWay, Objects, Marks
<1> QED  BY <1>6

LEMMA PassesEffect ==
  ASSUME NEW w \in ChartOf(Case), NEW c \in Case, NEW own \in BOOLEAN, NEW show \in Show,
         NEW v \in RedrawPasses(w, c, own, show)
  PROVE  HalfWay(w, c, own, show, v) /\ v \in ChartOf(Case)
<1> DEFINE marks == EstimatedMark(ReportedMark(w, c, show), c, show)
           lines == DriftTrack(marks, c, show)
<1>1. /\ HalfWay(w, c, own, show, marks) /\ HalfWay(w, c, own, show, lines)
      /\ HalfWay(w, c, own, show, Delete(marks, "Track"))
      /\ lines \in ChartOf(Case)
      /\ \A o \in {"Route", "Intercept"} : lines.drawn[o] = w.drawn[o]
  <2> HIDE DEF marks, lines
  <2> QED  BY StagesHalfWay DEF marks, lines
<1>2. \/ v \in MarkPasses(w, c, show)
      \/ v \in {marks, Delete(marks, "Track"), lines}
      \/ ~HoldsCourse(w) /\ v \in CoursePasses(lines, c, show.lines /\ own)
  BY DEF RedrawPasses, Passes, DriftTrack
<1> HIDE DEF marks, lines
<1>3. HalfWay(w, c, own, show, v)
  BY <1>1, <1>2, MarksHalfWay, CourseHalfWay
<1> QED  BY <1>3 DEF HalfWay, ChartOf, Navigating

(***************************************************************************)
(* Unloading empties the chart and stops navigation that used it.          *)
(***************************************************************************)
LEMMA RemoveEffect ==
  ASSUME NEW w \in ChartOf(Case)
  PROVE  /\ RemoveObjects(w).drawn = [o \in Objects |-> None]
         /\ \A o \in Objects : ~Follows(RemoveObjects(w), o)
         /\ Navigating(RemoveObjects(w)) =
              IF \E o \in Objects : Follows(w, o) THEN <<"none", "none">>
                                                 ELSE Navigating(w)
         /\ RemoveObjects(w) \in ChartOf(Case)
<1> DEFINE R == RemoveObjects(w)
           used == w.route = "Route" \/ w.point \in Marks
<1>1. used <=> \E o \in Objects : Follows(w, o)
  BY DEF Follows, Objects, Marks, ChartOf, Navigation, Navigating
<1>2. /\ R.drawn = [o \in Objects |-> None]
      /\ R.route = IF used THEN "none" ELSE w.route
      /\ R.point = IF used THEN "none" ELSE w.point
      /\ R = [drawn |-> R.drawn, route |-> R.route, point |-> R.point]
  <2> DEFINE marks == Delete(Delete(Delete(w, "Estimated"), "Reported"), "Intercept")
  <2>1. /\ marks.drawn = [w.drawn EXCEPT !["Estimated"] = None,
                            !["Reported"] = None, !["Intercept"] = None]
        /\ marks.route = IF w.point \in Marks THEN "none" ELSE w.route
        /\ marks.point = IF w.point \in Marks THEN "none" ELSE w.point
    BY DEF Delete, Follows, ChartOf, Objects, Marks, Navigation, Navigating
  <2>2. R = Delete(Delete(marks, "Track"), "Route")
    BY DEF RemoveObjects
  <2> HIDE DEF marks, R
  <2>3. R.drawn = [o \in Objects |-> None]
    BY <2>1, <2>2 DEF Delete, ChartOf, Objects, Marks
  <2>4. /\ R.route = IF used THEN "none" ELSE w.route
        /\ R.point = IF used THEN "none" ELSE w.point
    BY <2>1, <2>2 DEF Delete, Follows, Marks, ChartOf, Navigation, Navigating
  <2>5. R = [drawn |-> R.drawn, route |-> R.route, point |-> R.point]
    BY <2>2 DEF Delete
  <2> QED  BY <2>3, <2>4, <2>5
<1> HIDE DEF R
<1>3. Navigating(R) = IF used THEN <<"none", "none">> ELSE Navigating(w)
  BY <1>2 DEF Navigating
<1>4. R \in ChartOf(Case)
  BY <1>2, <1>3 DEF ChartOf, Navigation, Navigating
<1>5. \A o \in Objects : ~Follows(R, o)
  BY <1>2 DEF Follows, Objects, Marks, ChartOf, Navigation, Navigating
<1> QED  BY <1>1, <1>2, <1>3, <1>4, <1>5 DEF R

(***************************************************************************)
(* The navigator either steers to something drawn, or takes one object     *)
(* away and with it the navigation that used it.                           *)
(***************************************************************************)
LEMMA UseEffect ==
  ASSUME NEW w \in ChartOf(Case), NEW v \in Navigate(w) \cup DeleteByHand(w)
  PROVE  /\ v \in ChartOf(Case)
         /\ \/ /\ v.drawn = w.drawn
               /\ \A o \in Objects : Follows(v, o) => w.drawn[o] # None
            \/ \E o \in Objects :
                 /\ v.drawn = [w.drawn EXCEPT ![o] = None]
                 /\ v.route = IF Follows(w, o) THEN "none" ELSE w.route
                 /\ v.point = IF Follows(w, o) THEN "none" ELSE w.point
<1>1. CASE v \in Navigate(w)
  <2>1. PICK n \in Navigation : /\ n[1] = "Route" => w.drawn["Route"] # None
                                /\ n[2] \in Marks => w.drawn[n[2]] # None
                                /\ v = SetNavigation(w, n)
    BY <1>1 DEF Navigate
  <2>2. /\ v.drawn = w.drawn /\ v.route = n[1] /\ v.point = n[2]
        /\ v = [drawn |-> w.drawn, route |-> n[1], point |-> n[2]]
    BY <2>1 DEF SetNavigation
  <2>3. /\ n[1] \in {"none", "Route", "other"}
        /\ n[2] \in {"none", "leg", "other"} \cup Marks
        /\ n = <<n[1], n[2]>>
    BY <2>1 DEF Navigation
  <2>4. v \in ChartOf(Case)
    BY <2>1, <2>2, <2>3 DEF ChartOf, Navigating
  <2>5. \A o \in Objects : Follows(v, o) => w.drawn[o] # None
    BY <2>1, <2>2, <2>3 DEF Follows, Objects, Marks
  <2> QED  BY <2>2, <2>4, <2>5
<1>2. CASE v \in DeleteByHand(w)
  <2>1. PICK o \in Objects : v = Delete(w, o)
    BY <1>2 DEF DeleteByHand
  <2>2. v.drawn = [w.drawn EXCEPT ![o] = None]
    BY <2>1 DEF Delete
  <2>3. /\ v.route = IF Follows(w, o) THEN "none" ELSE w.route
        /\ v.point = IF Follows(w, o) THEN "none" ELSE w.point
    BY <2>1 DEF Delete
  <2>4. v.drawn \in [Objects -> Case \cup {None}]
    BY <2>2 DEF ChartOf
  <2>5. /\ v = [drawn |-> v.drawn, route |-> v.route, point |-> v.point]
        /\ v.route \in {"none", "Route", "other"}
        /\ v.point \in {"none", "leg", "other"} \cup Marks
    BY <2>1 DEF ChartOf, Delete
  <2>6. Navigating(v) \in Navigation
    BY <2>3 DEF ChartOf, Navigation, Navigating
  <2>7. v \in ChartOf(Case)
    BY <2>4, <2>5, <2>6 DEF ChartOf
  <2> QED  BY <2>2, <2>3, <2>7
<1> QED  BY <1>1, <1>2

-----------------------------------------------------------------------------
(***************************************************************************)
(* The chart, the navigation and what the plugin remembers of them always  *)
(* have their types, for every set of situations and shapes of a case.     *)
(***************************************************************************)
THEOREM ChartTypeCorrect == ChartSpec => []ChartTypeOK
<1>1. ChartInit => ChartTypeOK
  <2> SUFFICES ASSUME ChartInit PROVE ChartTypeOK
    OBVIOUS
  <2>1. PICK n \in {<<"none", "none">>, <<"other", "other">>} :
          ocpn = SetNavigation(EmptyChart, n)
    BY DEF ChartInit
  <2>2. /\ ocpn = [drawn |-> [o \in Objects |-> None], route |-> n[1], point |-> n[2]]
        /\ n \in Navigation /\ n = <<n[1], n[2]>>
        /\ n[1] \in {"none", "other"} /\ n[2] \in {"none", "other"}
    BY <2>1 DEF SetNavigation, EmptyChart, Navigation
  <2> QED  BY <2>2 DEF ChartInit, ChartTypeOK, ChartOf, Navigating
<1>2. ChartTypeOK /\ [ChartNext]_chartVars => ChartTypeOK'
  <2> SUFFICES ASSUME ChartTypeOK, [ChartNext]_chartVars PROVE ChartTypeOK'
    OBVIOUS
  <2>1. CASE Redraw
    <3>1. PICK c \in Case, own \in BOOLEAN, show \in Show : ApplyCase(c, own, show)
      BY <2>1 DEF Redraw
    <3>2. ocpn' = [drawn |-> [o \in Objects |-> Redrawn(ocpn, c, own, show, o)],
                   route |-> ocpn.route, point |-> ocpn.point]
      BY <3>1, RedrawEffect DEF ApplyCase, ChartTypeOK
    <3>3. \A o \in Objects : Redrawn(ocpn, c, own, show, o) \in Case \cup {None}
      BY DEF Redrawn, Objects, Marks, ChartTypeOK, ChartOf
    <3>4. ocpn' \in ChartOf(Case)
      BY <3>2, <3>3 DEF ChartTypeOK, ChartOf, Navigating
    <3> QED  BY <3>1, <3>4 DEF ApplyCase, Kept, HoldsCourse, ChartTypeOK
  <2>5. CASE RedrawCutShort
    BY <2>5, PassesEffect DEF RedrawCutShort, ApplyCaseThrows, ChartTypeOK
  <2>2. CASE RemoveFromChart
    BY <2>2, RemoveEffect DEF RemoveFromChart, ChartTypeOK
  <2>3. CASE UseOpenCPN
    BY <2>3, UseEffect DEF UseOpenCPN, ChartTypeOK
  <2>4. CASE UNCHANGED chartVars
    BY <2>4 DEF chartVars, ChartTypeOK
  <2> QED  BY <2>1, <2>2, <2>3, <2>4, <2>5 DEF ChartNext
<1> QED  BY <1>1, <1>2, PTL DEF ChartSpec

(***************************************************************************)
(* A redraw never changes what OpenCPN navigates with, however many API    *)
(* calls it takes and whatever is active when it starts.                   *)
(***************************************************************************)
THEOREM RedrawKeepsNavigation == ChartSpec => NavigationSurvives
<1>1. ChartTypeOK /\ [ChartNext]_chartVars =>
        [Navigating(ocpn') # Navigating(ocpn) => ~Redraw /\ ~RedrawCutShort]_chartVars
  <2>1. ASSUME ChartTypeOK, Redraw PROVE Navigating(ocpn') = Navigating(ocpn)
    <3>1. PICK c \in Case, own \in BOOLEAN, show \in Show : ApplyCase(c, own, show)
      BY <2>1 DEF Redraw
    <3> QED  BY <2>1, <3>1, RedrawEffect DEF ApplyCase, ChartTypeOK, Navigating
  <2>2. ASSUME ChartTypeOK, RedrawCutShort PROVE Navigating(ocpn') = Navigating(ocpn)
    <3>1. PICK c \in Case, own \in BOOLEAN, show \in Show : ApplyCaseThrows(c, own, show)
      BY <2>2 DEF RedrawCutShort
    <3> QED  BY <2>2, <3>1, PassesEffect DEF ApplyCaseThrows, HalfWay, ChartTypeOK, Navigating
  <2> QED  BY <2>1, <2>2
<1> QED  BY <1>1, ChartTypeCorrect, PTL DEF ChartSpec, NavigationSurvives

(***************************************************************************)
(* What is safe about the chart at any time: the Intercept mark and the    *)
(* route beside it are one calculation's, only an announced kept group is  *)
(* out of date, and nothing is left after unloading.                       *)
(***************************************************************************)
ChartSafe == RouteMeetsMark /\ StaleOnlyIfKept /\ NothingLeftBehind

THEOREM ChartIsSafe == ChartSpec => []ChartSafe
<1>1. ChartInit => ChartSafe
  BY DEF ChartInit, ChartSafe, RouteMeetsMark, StaleOnlyIfKept, NothingLeftBehind,
         Stale, EmptyChart, SetNavigation, Follows, Objects, Marks
<1>2. ChartTypeOK /\ ChartTypeOK' /\ ChartSafe /\ [ChartNext]_chartVars => ChartSafe'
  <2> SUFFICES ASSUME ChartTypeOK, ChartTypeOK', ChartSafe, [ChartNext]_chartVars
               PROVE  ChartSafe'
    OBVIOUS
  <2>1. CASE Redraw
    <3>1. PICK c \in Case, own \in BOOLEAN, show \in Show :
            loaded /\ ApplyCase(c, own, show)
      BY <2>1 DEF Redraw
    <3>2. /\ ocpn'.drawn = [o \in Objects |-> Redrawn(ocpn, c, own, show, o)]
          /\ loaded' /\ m_case' = c /\ kept' = Kept(ocpn)
      BY <3>1, RedrawEffect DEF ApplyCase, ChartTypeOK
    <3>3. RouteMeetsMark'
      BY <3>2 DEF RouteMeetsMark, Redrawn, Objects, Marks, ChartSafe
    <3>4. StaleOnlyIfKept'
      <4>1. \A o \in Objects : o \in Stale' =>
              \/ o = "Reported" /\ ocpn.point = "Reported"
              \/ o \in {"Route", "Intercept"} /\ HoldsCourse(ocpn)
        BY <3>2 DEF Stale, Redrawn, Objects, Marks
      <4>2. ~(ocpn.point = "Reported" /\ HoldsCourse(ocpn))
        BY DEF HoldsCourse, ChartTypeOK, ChartOf, Navigation, Navigating, Marks
      <4>3. Stale' \subseteq Objects
        BY DEF Stale
      <4> QED  BY <3>2, <4>1, <4>2, <4>3 DEF StaleOnlyIfKept, Kept
    <3> QED  BY <3>2, <3>3, <3>4 DEF ChartSafe, NothingLeftBehind
  <2>5. CASE RedrawCutShort
    <3>1. PICK c \in Case, own \in BOOLEAN, show \in Show :
            loaded /\ ApplyCaseThrows(c, own, show)
      BY <2>5 DEF RedrawCutShort
    <3>2. HalfWay(ocpn, c, own, show, ocpn') /\ torn' /\ loaded'
      BY <3>1, PassesEffect DEF ApplyCaseThrows, ChartTypeOK
    <3>3. RouteMeetsMark'
      BY <3>2 DEF HalfWay, RouteMeetsMark, ChartSafe
    <3> QED  BY <3>2, <3>3 DEF ChartSafe, StaleOnlyIfKept, NothingLeftBehind
  <2>2. CASE RemoveFromChart
    BY <2>2, RemoveEffect DEF RemoveFromChart, ChartTypeOK, ChartSafe,
       RouteMeetsMark, StaleOnlyIfKept, NothingLeftBehind, Objects, Marks
  <2>3. CASE UseOpenCPN
    <3>0. ocpn.drawn \in [Objects -> Case \cup {None}]
      BY DEF ChartTypeOK, ChartOf
    <3>1. /\ UNCHANGED <<m_case, kept, torn, loaded>>
          /\ \A o \in Objects : ocpn'.drawn[o] \in {None, ocpn.drawn[o]}
      <4>1. ocpn \in ChartOf(Case) /\ ocpn' \in Navigate(ocpn) \cup DeleteByHand(ocpn)
        BY <2>3 DEF UseOpenCPN, ChartTypeOK
      <4>2. \/ ocpn'.drawn = ocpn.drawn
            \/ \E o \in Objects : ocpn'.drawn = [ocpn.drawn EXCEPT ![o] = None]
        BY <4>1, UseEffect
      <4> QED  BY <2>3, <3>0, <4>2 DEF UseOpenCPN
    <3>2. RouteMeetsMark'
      BY <3>1 DEF RouteMeetsMark, ChartSafe, Objects, Marks
    <3>3. Stale' \subseteq Stale
      BY <3>1 DEF Stale
    <3>4. StaleOnlyIfKept'
      BY <3>1, <3>3 DEF StaleOnlyIfKept, ChartSafe
    <3>5. NothingLeftBehind'
      <4>1. ocpn \in ChartOf(Case) /\ ocpn' \in Navigate(ocpn) \cup DeleteByHand(ocpn)
        BY <2>3 DEF UseOpenCPN, ChartTypeOK
      <4>2. ~loaded => /\ \A o \in Objects : ocpn'.drawn[o] = None
                       /\ \A o \in Objects : ~Follows(ocpn', o)
        BY <3>1, <4>1, UseEffect DEF NothingLeftBehind, ChartSafe, Follows
      <4> QED  BY <3>1, <4>2 DEF NothingLeftBehind
    <3> QED  BY <3>2, <3>4, <3>5 DEF ChartSafe
  <2>4. CASE UNCHANGED chartVars
    BY <2>4 DEF chartVars, ChartSafe, RouteMeetsMark, StaleOnlyIfKept,
       NothingLeftBehind, Stale
  <2> QED  BY <2>1, <2>2, <2>3, <2>4, <2>5 DEF ChartNext
<1> QED  BY <1>1, <1>2, ChartTypeCorrect, PTL DEF ChartSpec

(***************************************************************************)
(* An Intercept mark beside a course is that course's own: the two are     *)
(* kept, replaced and removed together (intercept_pi.h:160-161).           *)
(***************************************************************************)
THEOREM MarkBelongsToRoute == ChartSpec => []RouteMeetsMark
<1>1. ChartSafe => RouteMeetsMark
  BY DEF ChartSafe
<1> QED  BY <1>1, ChartIsSafe, PTL

(***************************************************************************)
(* Nothing but one kept group is ever out of date, and then the caller was *)
(* told (the return value of ApplyCase, intercept_pi.h:161-165).           *)
(***************************************************************************)
THEOREM OnlyKeptIsStale == ChartSpec => []StaleOnlyIfKept
<1>1. ChartSafe => StaleOnlyIfKept
  BY DEF ChartSafe
<1> QED  BY <1>1, ChartIsSafe, PTL

(***************************************************************************)
(* After unloading OpenCPN shows nothing of the plugin's and steers to     *)
(* nothing of it (DeInit, intercept_pi.cpp:241-246).                       *)
(***************************************************************************)
THEOREM UnloadingIsClean == ChartSpec => []NothingLeftBehind
<1>1. ChartSafe => NothingLeftBehind
  BY DEF ChartSafe
<1> QED  BY <1>1, ChartIsSafe, PTL

(***************************************************************************)
(* The sequence of API calls in UpdateChartObjects implements the redraw   *)
(* its header promises, in one go, and DeInit implements Unload.           *)
(***************************************************************************)
THEOREM ImplementsChartPromise == ChartSpec => ImplementsPromise
<1>1. ChartInit => Promise!Init
  <2> SUFFICES ASSUME ChartInit PROVE Promise!Init
    OBVIOUS
  <2>1. PICK n \in {<<"none", "none">>, <<"other", "other">>} :
          ocpn = SetNavigation(EmptyChart, n)
    BY DEF ChartInit
  <2>2. /\ ocpn.drawn = [o \in Objects |-> None]
        /\ Navigating(ocpn) = n /\ n \in Navigation
        /\ n[1] \notin Objects /\ n[2] \notin Objects
    BY <2>1 DEF SetNavigation, EmptyChart, Navigating, Navigation, Objects, Marks
  <2> QED  BY <2>2 DEF ChartInit, Promise!Init, Promise!Followed
<1>2. ChartTypeOK /\ ChartTypeOK' /\ [ChartNext]_chartVars
        => [Promise!Next]_(Promise!vars)
  <2> SUFFICES ASSUME ChartTypeOK, ChartTypeOK', [ChartNext]_chartVars
               PROVE  Promise!Next \/ UNCHANGED Promise!vars
    OBVIOUS
  <2>a. /\ ocpn \in ChartOf(Case)
        /\ Navigating(ocpn) \in Navigation /\ Navigating(ocpn)' \in Navigation
        /\ \A o \in Objects : o \in Promise!Followed <=> Follows(ocpn, o)
    BY DEF ChartTypeOK, ChartOf, Promise!Followed, Follows, Navigating
  <2>1. CASE Redraw
    <3>1. PICK c \in Case, own \in BOOLEAN, show \in Show :
            loaded /\ ApplyCase(c, own, show)
      BY <2>1 DEF Redraw
    <3>2. ocpn' = [drawn |-> [o \in Objects |-> Redrawn(ocpn, c, own, show, o)],
                   route |-> ocpn.route, point |-> ocpn.point]
      BY <2>a, <3>1, RedrawEffect DEF ApplyCase
    <3>3. /\ "Reported" \in Promise!Protected <=> ocpn.point = "Reported"
          /\ "Route" \in Promise!Protected <=> HoldsCourse(ocpn)
          /\ "Intercept" \in Promise!Protected <=> HoldsCourse(ocpn)
          /\ "Estimated" \notin Promise!Protected
          /\ "Track" \notin Promise!Protected
          /\ Promise!Protected \subseteq Objects
      BY <2>a DEF Promise!Protected, Promise!CourseObjects, Promise!Followed,
         HoldsCourse, Objects, Marks, ChartOf, Navigation, Navigating
    <3>4. "Estimated" \in Promise!Followed <=> ocpn.point = "Estimated"
      BY <2>a DEF Follows, Objects, Marks, ChartOf
    <3>5. \A o \in Objects :
            Redrawn(ocpn, c, own, show, o) =
              IF o \in Promise!Protected THEN ocpn.drawn[o]
              ELSE IF Promise!Wanted(o, c, own, show) THEN c ELSE None
      BY <3>3, <3>4 DEF Redrawn, Promise!Wanted, Objects, Marks
    <3>6. Kept(ocpn) = (Promise!Protected # {})
      BY <3>3 DEF Kept, Objects, Marks, HoldsCourse
    <3>7. Promise!Redrawn(c, own, show)
      BY <3>1, <3>2, <3>5, <3>6 DEF ApplyCase, Promise!Redrawn, Navigating
    <3> QED  BY <3>1, <3>7 DEF ApplyCase, Promise!Next
  <2>5. CASE RedrawCutShort
    <3>1. PICK c \in Case, own \in BOOLEAN, show \in Show :
            loaded /\ ApplyCaseThrows(c, own, show)
      BY <2>5 DEF RedrawCutShort
    <3>2. HalfWay(ocpn, c, own, show, ocpn')
      BY <2>a, <3>1, PassesEffect DEF ApplyCaseThrows
    <3>3. /\ "Reported" \in Promise!Protected <=> ocpn.point = "Reported"
          /\ "Route" \in Promise!Protected <=> HoldsCourse(ocpn)
          /\ "Intercept" \in Promise!Protected <=> HoldsCourse(ocpn)
      BY <2>a DEF Promise!Protected, Promise!CourseObjects, Promise!Followed,
         HoldsCourse, Objects, Marks, ChartOf, Navigation, Navigating
    <3>4. \A o \in Objects : Redrawn(ocpn, c, own, show, o) \in {None, c, ocpn.drawn[o]}
      BY DEF Redrawn, Objects, Marks
    <3>5. \A o \in Objects : ocpn'.drawn[o] \in
            {ocpn.drawn[o]} \cup (IF o \in Promise!Protected THEN {} ELSE {None, c})
      <4>1. SUFFICES ASSUME NEW o \in Objects, o \in Promise!Protected
                     PROVE  ocpn'.drawn[o] = ocpn.drawn[o]
        BY <3>2, <3>4 DEF HalfWay
      <4>2. o \in {"Reported", "Route", "Intercept"}
        BY <4>1, <2>a DEF Promise!Protected, Promise!CourseObjects, Promise!Followed, Follows,
           Objects, Marks, ChartOf, Navigation, Navigating
      <4> QED  BY <3>2, <3>3, <4>1, <4>2 DEF HalfWay
    <3>6. Promise!HalfRedrawn(c)
      BY <3>1, <3>2, <3>5 DEF ApplyCaseThrows, HalfWay, Promise!HalfRedrawn, Navigating
    <3> QED  BY <3>1, <3>6 DEF ApplyCaseThrows, Promise!Next
  <2>2. CASE RemoveFromChart
    <3>1. (Promise!Followed = {}) <=> ~\E o \in Objects : Follows(ocpn, o)
      BY <2>a DEF Promise!Followed
    <3>2. Promise!Unload
      BY <2>2, <2>a, <3>1, RemoveEffect DEF RemoveFromChart, Promise!Unload
    <3> QED  BY <3>2 DEF Promise!Next
  <2>3. CASE UseOpenCPN
    <3>1. ocpn' \in Navigate(ocpn) \cup DeleteByHand(ocpn)
          /\ UNCHANGED <<m_case, kept, torn, loaded>>
      BY <2>3 DEF UseOpenCPN
    <3>2. CASE /\ ocpn'.drawn = ocpn.drawn
               /\ \A o \in Objects : Follows(ocpn', o) => ocpn.drawn[o] # None
      <4>1. Promise!Steer
        BY <2>a, <3>1, <3>2 DEF Promise!Steer, Promise!Followed, Follows, Navigating
      <4> QED  BY <4>1 DEF Promise!Next
    <3>3. ASSUME NEW o \in Objects,
                 ocpn'.drawn = [ocpn.drawn EXCEPT ![o] = None],
                 ocpn'.route = IF Follows(ocpn, o) THEN "none" ELSE ocpn.route,
                 ocpn'.point = IF Follows(ocpn, o) THEN "none" ELSE ocpn.point
          PROVE  Promise!Next
      <4>1. Promise!TakeAway(o)
        BY <2>a, <3>1, <3>3 DEF Promise!TakeAway, Navigating
      <4> QED  BY <4>1 DEF Promise!Next
    <3> QED  BY <2>a, <3>1, <3>2, <3>3, UseEffect
  <2>4. CASE UNCHANGED chartVars
    BY <2>4 DEF chartVars, Promise!vars, Navigating
  <2> QED  BY <2>1, <2>2, <2>3, <2>4, <2>5 DEF ChartNext
<1> QED  BY <1>1, <1>2, ChartTypeCorrect, PTL DEF ChartSpec, ImplementsPromise, Promise!Spec
-----------------------------------------------------------------------------
(* The panel. *)

(***************************************************************************)
(* The inductive invariant.  While the plugin is loaded, the panel is      *)
(* linked to it as soon as there is a panel, so that no run can succeed    *)
(* without drawing its case; a case with an intercept has an own-ship;     *)
(* and while the time on display is the last case's, nothing is half done  *)
(* and an object kept is never without its note.                           *)
(***************************************************************************)
MemoryInv ==
  /\ m_show \in Show
  /\ m_last_case \in Case \cup {None} /\ m_last_own \in BOOLEAN
  /\ m_last_case # None => (m_last_case.shape.solved => m_last_own)
  /\ outputs \subseteq Case /\ m_out_last_calc \in 0..MaxFailures
  /\ m_out_last_calc = 0 => outputs = (IF m_last_case = None THEN {} ELSE {m_last_case})

WindowInv ==
  /\ m_panel \in {"none", "hidden", "shown"} /\ tool \in {"missing", "up", "down"}
  /\ m_plugin \in BOOLEAN /\ loaded \in BOOLEAN
  /\ m_auto_recalc \in BOOLEAN /\ m_auto_timer \in BOOLEAN
  /\ m_plugin <=> (loaded /\ m_panel # "none")
  /\ m_auto_timer => m_panel # "none"
  /\ ToolMirrorsPanel

NoteInv ==
  /\ m_recalc_running \in BOOLEAN
  /\ m_out_note \in {"none", "kept", "skipped"}
  /\ loaded /\ m_out_last_calc = 0 /\ kept => m_out_note \in {"kept", "skipped"}

CaseInv ==
  loaded => /\ m_out_last_calc = 0 => m_case = m_last_case /\ ~torn
            /\ m_last_case = None => m_case = None /\ ~torn

PanelInv == MemoryInv /\ WindowInv /\ NoteInv /\ CaseInv

\* Drawing a case redraws the chart as it may be redrawn, or does nothing.
LEMMA ApplyEffect ==
  ASSUME WindowInv, NoteInv, NEW c \in Case, NEW own \in BOOLEAN, NEW show \in Show,
         ApplyToChart(c, own, show)
  PROVE  /\ m_plugin => /\ loaded /\ m_case' = c /\ torn' = FALSE
                        /\ ApplyCase(c, own, show)
                        /\ kept' => m_out_note' \in {"kept", "skipped"}
         /\ ~m_plugin => UNCHANGED chartVars /\ UNCHANGED m_out_note
         /\ loaded' = loaded
         /\ m_out_note' \in {"none", "kept", "skipped"}
<1>1. CASE m_plugin
  <2>1. ApplyCase(c, own, show) /\ m_out_note' = IF kept' THEN "kept" ELSE "none"
    BY <1>1 DEF ApplyToChart
  <2>2. loaded
    BY <1>1 DEF WindowInv
  <2>3. m_case' = c /\ torn' = FALSE /\ loaded' = loaded
    BY <2>1 DEF ApplyCase
  <2> QED  BY <1>1, <2>1, <2>2, <2>3
<1>2. CASE ~m_plugin
  BY <1>2 DEF ApplyToChart, NoteInv, chartVars
<1> QED  BY <1>1, <1>2

(***************************************************************************)
(* A run that stores a case draws it, all or in part, or fails before; a   *)
(* run that succeeds leaves everything of its case.                        *)
(***************************************************************************)
LEMMA CalculatesEffect ==
  ASSUME PanelInv, NEW c \in Case, NEW own \in BOOLEAN, c.shape.solved => own,
         Calculates(c, own), m_panel # "none", m_show' = m_show
  PROVE  /\ MemoryInv' /\ NoteInv' /\ CaseInv' /\ loaded' = loaded
         /\ UNCHANGED chartVars \/ Draws
<1>1. MemoryInv /\ WindowInv /\ NoteInv /\ CaseInv
  BY DEF PanelInv
<1>2. /\ m_last_case' = c /\ m_last_own' = own /\ outputs' = {c} /\ m_out_last_calc' = 0
      /\ ApplyToChart(c, own, m_show) /\ m_recalc_running' = m_recalc_running
  BY DEF Calculates
<1>3. MemoryInv'
  BY <1>1, <1>2, NoneAssumption, MaxFailuresAssumption DEF MemoryInv
<1>4. /\ m_plugin => /\ loaded /\ m_case' = c /\ torn' = FALSE
                     /\ ApplyCase(c, own, m_show)
                     /\ kept' => m_out_note' \in {"kept", "skipped"}
      /\ ~m_plugin => UNCHANGED chartVars /\ UNCHANGED m_out_note
      /\ loaded' = loaded
      /\ m_out_note' \in {"none", "kept", "skipped"}
  <2>1. m_show \in Show
    BY <1>1 DEF MemoryInv
  <2> QED  BY <1>1, <1>2, <2>1, ApplyEffect
<1>5. m_plugin <=> loaded
  BY <1>1 DEF WindowInv
<1>6. CaseInv' /\ NoteInv'
  BY <1>1, <1>2, <1>4, <1>5, NoneAssumption DEF CaseInv, NoteInv
<1>7. Draws \/ UNCHANGED chartVars
  BY <1>2, <1>4 DEF Draws
<1> QED  BY <1>3, <1>4, <1>6, <1>7

LEMMA FailsEffect ==
  ASSUME PanelInv, NEW c \in Case, NEW own \in BOOLEAN, c.shape.solved => own,
         Fails(c, own), m_panel # "none", m_show' = m_show
  PROVE  /\ MemoryInv' /\ NoteInv' /\ CaseInv' /\ loaded' = loaded
         /\ UNCHANGED chartVars \/ Draws
<1>1. MemoryInv /\ WindowInv /\ NoteInv /\ CaseInv
  BY DEF PanelInv
<1>2. /\ m_last_case' = c /\ m_last_own' = own /\ m_recalc_running' = m_recalc_running
      /\ m_out_last_calc' = m_out_last_calc + 1
      /\ m_out_last_calc' \in 0..MaxFailures /\ m_out_last_calc' # 0
  BY <1>1, MaxFailuresAssumption DEF Fails, MemoryInv
<1>3. m_plugin => loaded
  BY <1>1 DEF WindowInv
<1>4. CASE ThrowsShowingOutputs(c)
  <2>1. outputs' \subseteq Case /\ UNCHANGED <<chartVars, m_out_note>>
    BY <1>1, <1>4 DEF ThrowsShowingOutputs, MemoryInv
  <2> QED  BY <1>1, <1>2, <2>1, NoneAssumption
           DEF MemoryInv, NoteInv, CaseInv, chartVars
<1>5. CASE ThrowsRedrawing(c, own) \/ ThrowsBeforeNote(c, own)
  <2>1. /\ outputs' = {c} /\ m_out_note' = m_out_note /\ loaded' = loaded
        /\ loaded /\ (ApplyCase(c, own, m_show) \/ ApplyCaseThrows(c, own, m_show))
    BY <1>3, <1>5 DEF ThrowsRedrawing, ThrowsBeforeNote, ApplyCase, ApplyCaseThrows
  <2>2. Draws
    BY <1>2, <2>1 DEF Draws
  <2> QED  BY <1>1, <1>2, <2>1, <2>2, NoneAssumption DEF MemoryInv, NoteInv, CaseInv
<1>6. CASE ThrowsBeforeTime(c, own)
  <2>1. outputs' = {c} /\ ApplyToChart(c, own, m_show) /\ m_show \in Show
    BY <1>1, <1>6 DEF ThrowsBeforeTime, MemoryInv
  <2>2. /\ m_plugin => loaded /\ ApplyCase(c, own, m_show)
        /\ ~m_plugin => UNCHANGED chartVars
        /\ loaded' = loaded
        /\ m_out_note' \in {"none", "kept", "skipped"}
    BY <1>1, <2>1, ApplyEffect
  <2>3. Draws \/ UNCHANGED chartVars
    BY <1>2, <2>2 DEF Draws
  <2> QED  BY <1>1, <1>2, <2>1, <2>2, <2>3, NoneAssumption DEF MemoryInv, NoteInv, CaseInv
<1> QED  BY <1>4, <1>5, <1>6 DEF Fails

\* Otherwise a run leaves all but the note alone.
LEMMA RunEffect ==
  ASSUME NEW automatic \in BOOLEAN, PanelInv, RunRecalculate(automatic),
         m_panel # "none", m_show' = m_show
  PROVE  /\ MemoryInv' /\ NoteInv' /\ CaseInv' /\ loaded' = loaded
         /\ UNCHANGED chartVars \/ Draws
<1>1. MemoryInv /\ WindowInv /\ NoteInv /\ CaseInv
  BY DEF PanelInv
<1>2. CASE NoChange
  BY <1>1, <1>2 DEF NoChange, MemoryInv, NoteInv, CaseInv, memory, chartVars
<1>3. CASE ~m_recalc_running /\ ReportInputError(automatic)
  BY <1>1, <1>3 DEF ReportInputError, MemoryInv, NoteInv, CaseInv, memory, chartVars
<1>4. ASSUME NEW c \in Case, NEW own \in BOOLEAN, c.shape.solved => own,
             Calculates(c, own) \/ Fails(c, own)
      PROVE  /\ MemoryInv' /\ NoteInv' /\ CaseInv' /\ loaded' = loaded
             /\ UNCHANGED chartVars \/ Draws
  BY <1>4, CalculatesEffect, FailsEffect
<1> QED  BY <1>2, <1>3, <1>4 DEF RunRecalculate, DoRecalculate
\* A box toggled is still a box.
LEMMA ToggledShow ==
  ASSUME m_show \in Show, NEW box \in DOMAIN m_show
  PROVE  [m_show EXCEPT ![box] = ~@] \in Show
<1>1. box \in {"target", "estimated", "lines"}
  BY DEF Show
<1>2. (~m_show[box]) \in BOOLEAN
  BY Zenon
<1>3. ASSUME NEW b \in BOOLEAN PROVE [m_show EXCEPT ![box] = b] \in Show
  BY <1>1 DEF Show
<1> QED  BY <1>2, <1>3
-----------------------------------------------------------------------------
LEMMA PanelStarts == Init => PanelInv
<1> SUFFICES ASSUME Init PROVE PanelInv
  OBVIOUS
<1>1. m_case = None /\ kept = FALSE /\ torn = FALSE /\ loaded = TRUE
  BY DEF Init, PluginInit, ChartInit
<1>2. m_panel = "none" /\ m_plugin = FALSE /\ tool \in {"missing", "up"}
  BY DEF Init, PluginInit
<1>3. MemoryInv /\ NoteInv /\ CaseInv
  <2>1. 0 \in 0..MaxFailures
    BY MaxFailuresAssumption
  <2>2. MemoryInv
    BY <2>1 DEF Init, PanelInit, MemoryInv, Show
  <2> QED  BY <1>1, <2>2 DEF Init, PanelInit, NoteInv, CaseInv
<1>4. WindowInv
  BY <1>1, <1>2 DEF Init, PanelInit, WindowInv, ToolMirrorsPanel
<1> QED  BY <1>3, <1>4 DEF PanelInv

\* Nothing a handler keeps to itself matters to these parts.
LEMMA MemoryKept ==
  ASSUME PanelInv, UNCHANGED <<chartVars, memory, m_show>>
  PROVE  MemoryInv' /\ CaseInv'
  BY DEF PanelInv, MemoryInv, CaseInv, memory, chartVars

LEMMA WindowKept ==
  ASSUME PanelInv, UNCHANGED <<loaded, window>>, m_auto_recalc' \in BOOLEAN,
         m_auto_timer' \in BOOLEAN, m_auto_timer' => m_panel # "none"
  PROVE  WindowInv'
  BY DEF PanelInv, WindowInv, ToolMirrorsPanel, window

(***************************************************************************)
(* Every step keeps the invariant, and is one the chart allows, or none.   *)
(***************************************************************************)
LEMMA PanelStep ==
  ASSUME PanelInv, [Next]_vars
  PROVE  PanelInv' /\ [Draws \/ RemoveFromChart \/ UseOpenCPN]_chartVars
<1>I. MemoryInv /\ WindowInv /\ NoteInv /\ CaseInv
  BY DEF PanelInv
<1>1. CASE OnRecalculate
  <2>1. /\ RunRecalculate(FALSE) /\ m_panel # "none" /\ m_show' = m_show
        /\ UNCHANGED <<window, automat>>
    BY <1>1 DEF OnRecalculate, Operable
  <2>2. /\ MemoryInv' /\ NoteInv' /\ CaseInv' /\ loaded' = loaded
        /\ UNCHANGED chartVars \/ Draws
    BY <2>1, RunEffect
  <2>3. WindowInv'
    BY <1>I, <2>1, <2>2, WindowKept DEF automat, WindowInv
  <2> QED  BY <2>2, <2>3 DEF PanelInv
<1>2. CASE CloseErrorDialog
  <2>1. MemoryInv' /\ CaseInv'
    BY <1>2, MemoryKept DEF CloseErrorDialog
  <2>2. WindowInv'
    BY <1>I, <1>2, WindowKept DEF CloseErrorDialog, automat, chartVars, WindowInv
  <2>3. NoteInv'
    BY <1>I, <1>2 DEF CloseErrorDialog, NoteInv, chartVars, memory
  <2> QED  BY <1>2, <2>1, <2>2, <2>3 DEF PanelInv, CloseErrorDialog
<1>3. CASE OnAutoToggled
  <2>1. /\ m_panel # "none" /\ m_show' = m_show /\ UNCHANGED window
        /\ m_auto_recalc' = ~m_auto_recalc /\ m_auto_timer' = m_auto_recalc'
        /\ RunRecalculate(TRUE) \/ NoChange
    BY <1>3 DEF OnAutoToggled, Operable
  <2>2. /\ MemoryInv' /\ NoteInv' /\ CaseInv' /\ loaded' = loaded
        /\ UNCHANGED chartVars \/ Draws
    <3>1. CASE RunRecalculate(TRUE)
      BY <2>1, <3>1, RunEffect
    <3>2. CASE NoChange
      BY <1>I, <2>1, <3>2 DEF NoChange, MemoryInv, NoteInv, CaseInv, memory, chartVars
    <3> QED  BY <2>1, <3>1, <3>2
  <2>3. m_auto_recalc' \in BOOLEAN
    BY <2>1, Zenon
  <2>4. WindowInv'
    BY <2>1, <2>2, <2>3, WindowKept
  <2> QED  BY <2>2, <2>4 DEF PanelInv
<1>4. CASE OnAutoTimer
  <2>1. /\ RunRecalculate(TRUE) /\ m_auto_timer /\ m_show' = m_show
        /\ UNCHANGED <<window, automat>>
    BY <1>4 DEF OnAutoTimer
  <2>2. m_panel # "none"
    BY <1>I, <2>1 DEF WindowInv
  <2>3. /\ MemoryInv' /\ NoteInv' /\ CaseInv' /\ loaded' = loaded
        /\ UNCHANGED chartVars \/ Draws
    BY <2>1, <2>2, RunEffect
  <2>4. WindowInv'
    BY <1>I, <2>1, <2>2, <2>3, WindowKept DEF automat, WindowInv
  <2> QED  BY <2>3, <2>4 DEF PanelInv
<1>5. ASSUME NEW box \in DOMAIN m_show, OnDisplayToggled(box)
      PROVE  PanelInv' /\ [Draws \/ RemoveFromChart \/ UseOpenCPN]_chartVars
  <2>1. m_show' \in Show
    BY <1>I, <1>5, ToggledShow DEF OnDisplayToggled, MemoryInv
  <2>2. MemoryInv' /\ UNCHANGED <<window, automat, memory, m_recalc_running>>
    BY <1>I, <1>5, <2>1 DEF OnDisplayToggled, MemoryInv, memory
  <2>3. CASE m_last_case = None
    <3>1. UNCHANGED <<chartVars, m_out_note>>
      BY <1>5, <2>3 DEF OnDisplayToggled
    <3>2. NoteInv' /\ CaseInv'
      BY <1>I, <2>2, <3>1 DEF NoteInv, CaseInv, chartVars, memory
    <3>3. WindowInv'
      BY <1>I, <2>2, <3>1, WindowKept DEF automat, chartVars, WindowInv
    <3> QED  BY <2>2, <3>1, <3>2, <3>3 DEF PanelInv
  <2>4. CASE m_last_case # None
    <3>1. /\ m_last_case \in Case /\ m_last_own \in BOOLEAN
          /\ m_last_case.shape.solved => m_last_own
          /\ ApplyToChart(m_last_case, m_last_own, m_show')
      BY <1>I, <1>5, <2>4 DEF OnDisplayToggled, MemoryInv
    <3>2. /\ m_plugin => /\ loaded /\ m_case' = m_last_case /\ torn' = FALSE
                         /\ ApplyCase(m_last_case, m_last_own, m_show')
                         /\ kept' => m_out_note' \in {"kept", "skipped"}
          /\ ~m_plugin => UNCHANGED chartVars /\ UNCHANGED m_out_note
          /\ loaded' = loaded
          /\ m_out_note' \in {"none", "kept", "skipped"}
      BY <1>I, <2>1, <3>1, ApplyEffect
    <3>3. UNCHANGED <<m_last_case, m_last_own, m_out_last_calc, m_recalc_running>>
      BY <2>2 DEF memory
    <3>4. NoteInv' /\ CaseInv'
      <4>1. CASE m_plugin
        BY <1>I, <2>4, <3>2, <3>3, <4>1 DEF NoteInv, CaseInv
      <4>2. CASE ~m_plugin
        BY <1>I, <3>2, <3>3, <4>2 DEF NoteInv, CaseInv, chartVars
      <4> QED  BY <1>I, <4>1, <4>2 DEF WindowInv
    <3>5. WindowInv'
      BY <1>I, <2>2, <3>2, WindowKept DEF automat, WindowInv
    <3>6. Draws \/ UNCHANGED chartVars
      BY <3>1, <3>2, <3>3 DEF Draws
    <3> QED  BY <2>2, <3>4, <3>5, <3>6 DEF PanelInv
  <2> QED  BY <2>3, <2>4
<1>6. CASE OnClose
  <2>1. MemoryInv' /\ CaseInv'
    BY <1>6, MemoryKept DEF OnClose
  <2>2. NoteInv'
    BY <1>I, <1>6 DEF OnClose, NoteInv, chartVars, memory
  <2>3. WindowInv'
    BY <1>I, <1>6 DEF OnClose, Operable, WindowInv, ToolMirrorsPanel, automat, chartVars
  <2> QED  BY <1>6, <2>1, <2>2, <2>3 DEF PanelInv, OnClose
<1>7. CASE OnToolbarToolCallback
  <2>1. MemoryInv' /\ CaseInv'
    BY <1>7, MemoryKept DEF OnToolbarToolCallback
  <2>2. NoteInv'
    BY <1>I, <1>7 DEF OnToolbarToolCallback, NoteInv, chartVars, memory
  <2>3. /\ loaded /\ loaded' /\ m_panel' \in {"none", "hidden", "shown"}
        /\ m_panel # "none" => m_panel' # "none"
        /\ m_plugin' = (m_panel' # "none")
        /\ tool' = IF m_panel' = "shown" THEN "down" ELSE "up"
        /\ UNCHANGED automat
    BY <1>I, <1>7 DEF OnToolbarToolCallback, WindowInv, chartVars
  <2>4. (m_panel' # "none") \in BOOLEAN
    OBVIOUS
  <2>5. m_plugin' \in BOOLEAN /\ (m_plugin' <=> m_panel' # "none")
    BY <2>3, <2>4, Zenon
  <2>6. WindowInv'
    BY <1>I, <2>3, <2>5 DEF WindowInv, ToolMirrorsPanel, automat
  <2> QED  BY <1>7, <2>1, <2>2, <2>6 DEF PanelInv, OnToolbarToolCallback
<1>8. CASE DeInit
  <2>1. /\ RemoveFromChart /\ UNCHANGED <<m_panel, m_auto_recalc, memory, m_show, m_out_note,
                                          m_recalc_running>>
        /\ tool' = "missing" /\ m_auto_timer' = FALSE /\ m_plugin' = FALSE
    BY <1>8 DEF DeInit, Detach
  <2>2. loaded' = FALSE /\ kept' = kept
    BY <2>1 DEF RemoveFromChart
  <2>3. MemoryInv'
    BY <1>I, <2>1 DEF MemoryInv, memory
  <2>4. WindowInv' /\ NoteInv' /\ CaseInv'
    BY <1>I, <2>1, <2>2 DEF WindowInv, ToolMirrorsPanel, NoteInv, CaseInv
  <2> QED  BY <2>1, <2>3, <2>4 DEF PanelInv
<1>9. CASE PanelDestroyed
  <2>1. MemoryInv' /\ CaseInv'
    BY <1>9, MemoryKept DEF PanelDestroyed
  <2>2. NoteInv' /\ WindowInv'
    BY <1>I, <1>9 DEF PanelDestroyed, NoteInv, WindowInv, ToolMirrorsPanel, chartVars, memory
  <2> QED  BY <1>9, <2>1, <2>2 DEF PanelInv, PanelDestroyed
<1>10. CASE Navigator
  <2>1. UseOpenCPN /\ UNCHANGED panelVars /\ UNCHANGED <<m_case, kept, torn, loaded>>
    BY <1>10 DEF Navigator, UseOpenCPN
  <2>2. MemoryInv' /\ CaseInv' /\ NoteInv' /\ WindowInv'
    BY <1>I, <2>1 DEF panelVars, MemoryInv, CaseInv, NoteInv, WindowInv, ToolMirrorsPanel
  <2> QED  BY <2>1, <2>2 DEF PanelInv
<1>11. CASE UNCHANGED vars
  <2>1. UNCHANGED chartVars /\ UNCHANGED panelVars
    BY <1>11 DEF vars
  <2>2. MemoryInv' /\ CaseInv'
    BY <1>I, <2>1 DEF panelVars, chartVars, MemoryInv, CaseInv
  <2>3. NoteInv' /\ WindowInv'
    BY <1>I, <2>1 DEF panelVars, chartVars, NoteInv, WindowInv, ToolMirrorsPanel
  <2> QED  BY <2>1, <2>2, <2>3 DEF PanelInv
<1> QED  BY <1>1, <1>2, <1>3, <1>4, <1>5, <1>6, <1>7, <1>8, <1>9, <1>10, <1>11 DEF Next
-----------------------------------------------------------------------------
THEOREM PanelInvHolds == Spec => []PanelInv
<1>1. PanelInv /\ [Next]_vars => PanelInv'
  BY PanelStep
<1> QED  BY <1>1, PanelStarts, PTL DEF Spec

(***************************************************************************)
(* The panel draws on the chart only while loaded, and always the case it  *)
(* remembers, with that case's own-ship and the boxes as they are, whether *)
(* the run that does it succeeds or not (DoRecalculate and                 *)
(* OnDisplayToggled, intercept_panel.cpp:524, 710).                        *)
(***************************************************************************)
THEOREM PanelDrivesChart == Spec => DrivesChart
<1>1. Init => ChartInit
  BY DEF Init, PluginInit
<1>2. PanelInv /\ [Next]_vars => [Draws \/ RemoveFromChart \/ UseOpenCPN]_chartVars
  BY PanelStep
<1> QED  BY <1>1, <1>2, PanelInvHolds, PTL DEF Spec, DrivesChart

\* So the panel's every behaviour is one of the chart's specification.
THEOREM PanelUsesChart == Spec => ChartSpec
<1>1. Init => ChartInit
  BY DEF Init, PluginInit
<1>2. PanelInv /\ PanelInv' /\ [Next]_vars => [ChartNext]_chartVars
  <2>1. ASSUME PanelInv', Draws PROVE ChartNext
    <3>1. m_last_own' \in BOOLEAN /\ m_show' \in Show
      BY <2>1 DEF PanelInv, MemoryInv
    <3>2. m_case' = m_last_case'
      BY <2>1 DEF Draws, ApplyCase, ApplyCaseThrows
    <3> QED  BY <2>1, <3>1, <3>2 DEF Draws, Redraw, RedrawCutShort, ChartNext
  <2> QED  BY <2>1, PanelStep DEF ChartNext
<1> QED  BY <1>1, <1>2, PanelInvHolds, PTL DEF Spec, ChartSpec

(***************************************************************************)
(* Type correctness of panel and chart, and that the link to an unloaded   *)
(* plugin is cut (Detach, intercept_panel.cpp:570).                        *)
(***************************************************************************)
THEOREM PanelTypeCorrect == Spec => []TypeOK
<1>1. PanelInv /\ ChartTypeOK => TypeOK
  BY DEF PanelInv, MemoryInv, WindowInv, NoteInv, TypeOK
<1> QED  BY <1>1, PanelInvHolds, PanelUsesChart, ChartTypeCorrect, PTL

(***************************************************************************)
(* While the time on display is that of the remembered case, outputs and   *)
(* chart are that case's too, however many runs have failed before it and  *)
(* wherever (RunRecalculate and DoRecalculate, intercept_panel.cpp:618-    *)
(* 631, 713-721).                                                          *)
(***************************************************************************)
THEOREM ChartShowsWhatIsShown == Spec => []ChartShowsOutputs
<1>1. PanelInv => ChartShowsOutputs
  BY DEF PanelInv, MemoryInv, CaseInv, ChartShowsOutputs
<1> QED  BY <1>1, PanelInvHolds, PTL

(***************************************************************************)
(* As long as something drawn from an older case stays on the chart, the   *)
(* note says so, or the time on display is an older run's (ApplyToChart    *)
(* and DoRecalculate, intercept_panel.cpp:533-547, 716-721).               *)
(***************************************************************************)
THEOREM StaleIsSaid == Spec => []StaleIsAnnounced
<1>1. PanelInv /\ ChartSafe => StaleIsAnnounced
  BY DEF PanelInv, MemoryInv, NoteInv, CaseInv, ChartSafe, StaleOnlyIfKept, StaleIsAnnounced
<1> QED  BY <1>1, PanelInvHolds, PanelUsesChart, ChartIsSafe, PTL

(***************************************************************************)
(* The toolbar button is down exactly while the panel is open              *)
(* (intercept_pi.cpp:278-297, intercept_panel.cpp:575-581).                *)
(***************************************************************************)
THEOREM ToolFollowsPanel == Spec => []ToolMirrorsPanel
<1>1. PanelInv => ToolMirrorsPanel
  BY DEF PanelInv, WindowInv
<1> QED  BY <1>1, PanelInvHolds, PTL

\* A redraw that kept nothing has drawn only what is ticked.
LEMMA OnlyTickedDrawn ==
  ASSUME ChartTypeOK, NEW c \in Case, NEW own \in BOOLEAN, m_show' \in Show,
         ApplyCase(c, own, m_show')
  PROVE  CheckboxesActAtOnce'
<1> SUFFICES ASSUME ~kept', NEW o \in Objects \ {"Estimated"}, ocpn'.drawn[o] # None
             PROVE  Ticked(o)'
  BY DEF CheckboxesActAtOnce
<1>1. ocpn'.drawn = [x \in Objects |-> Redrawn(ocpn, c, own, m_show', x)]
  BY RedrawEffect DEF ApplyCase, ChartTypeOK
<1>2. ocpn.point # "Reported" /\ ~HoldsCourse(ocpn)
  BY DEF ApplyCase, Kept
<1>3. Redrawn(ocpn, c, own, m_show', o) # None
  BY <1>1
<1> QED  BY <1>2, <1>3 DEF Redrawn, Ticked, Objects, Marks

\* A redraw cut short adds nothing that is not ticked.
LEMMA OnlyTickedAdded ==
  ASSUME ChartTypeOK, CheckboxesActAtOnce, NEW c \in Case, NEW own \in BOOLEAN,
         m_show \in Show, m_show' = m_show, loaded, ApplyCaseThrows(c, own, m_show')
  PROVE  CheckboxesActAtOnce'
<1> SUFFICES ASSUME ~kept', NEW o \in Objects \ {"Estimated"}, ocpn'.drawn[o] # None
             PROVE  Ticked(o)'
  BY DEF CheckboxesActAtOnce
<1>1. HalfWay(ocpn, c, own, m_show, ocpn') /\ ~kept
  BY PassesEffect DEF ApplyCaseThrows, ChartTypeOK
<1>2. CASE ocpn.drawn[o] # None
  BY <1>1, <1>2 DEF CheckboxesActAtOnce, Ticked
<1>3. CASE ocpn.drawn[o] = None
  <2>1. Redrawn(ocpn, c, own, m_show, o) # None
    BY <1>1, <1>3 DEF HalfWay
  <2> QED  BY <1>3, <2>1 DEF Redrawn, Ticked, Objects, Marks
<1> QED  BY <1>2, <1>3

(***************************************************************************)
(* A display checkbox acts at once, on everything but what is kept and     *)
(* the Estimated mark (OnDisplayToggled, intercept_panel.cpp:524-531).     *)
(***************************************************************************)
THEOREM CheckboxesAct == Spec => []CheckboxesActAtOnce
<1>1. Init => CheckboxesActAtOnce
  <2>1. ChartInit => ocpn.drawn = [o \in Objects |-> None]
    BY DEF ChartInit, EmptyChart, SetNavigation
  <2> QED  BY <2>1 DEF Init, PluginInit, CheckboxesActAtOnce
<1>2. PanelInv /\ PanelInv' /\ ChartTypeOK /\ ChartSafe /\ CheckboxesActAtOnce /\ [Next]_vars
        => CheckboxesActAtOnce'
  <2> SUFFICES ASSUME PanelInv, PanelInv', ChartTypeOK, ChartSafe, CheckboxesActAtOnce,
                      [Next]_vars
               PROVE  CheckboxesActAtOnce'
    OBVIOUS
  <2>I. m_show \in Show /\ m_show' \in Show
    BY DEF PanelInv, MemoryInv
  <2>1. CASE UNCHANGED <<chartVars, m_show>>
    BY <2>1 DEF CheckboxesActAtOnce, Ticked, chartVars
  <2>2. CASE loaded' = FALSE
    BY <2>2 DEF CheckboxesActAtOnce
  <2>3. ASSUME NEW automatic \in BOOLEAN, RunRecalculate(automatic), m_panel # "none",
               m_show' = m_show
        PROVE  CheckboxesActAtOnce'
    <3>1. UNCHANGED chartVars \/ Draws
      BY <2>3, RunEffect
    <3>2. CASE Draws
      <4>1. /\ m_last_case' \in Case /\ m_last_own' \in BOOLEAN /\ loaded
            /\ \/ ApplyCase(m_last_case', m_last_own', m_show')
               \/ ApplyCaseThrows(m_last_case', m_last_own', m_show')
        BY <3>2 DEF Draws, PanelInv, MemoryInv
      <4> QED  BY <2>I, <2>3, <4>1, OnlyTickedDrawn, OnlyTickedAdded
    <3> QED  BY <2>1, <2>3, <3>1, <3>2
  <2>4. CASE OnRecalculate
    BY <2>3, <2>4 DEF OnRecalculate, Operable
  <2>5. CASE OnAutoTimer
    BY <2>3, <2>5 DEF OnAutoTimer, PanelInv, WindowInv
  <2>6. CASE OnAutoToggled
    <3>1. m_panel # "none" /\ m_show' = m_show /\ (RunRecalculate(TRUE) \/ NoChange)
      BY <2>6 DEF OnAutoToggled, Operable
    <3> QED  BY <2>1, <2>3, <3>1 DEF NoChange
  <2>7. ASSUME NEW box \in DOMAIN m_show, OnDisplayToggled(box)
        PROVE  CheckboxesActAtOnce'
    <3>1. loaded => m_plugin
      BY <2>7 DEF OnDisplayToggled, Operable, PanelInv, WindowInv
    <3>2. CASE m_last_case = None
      <4>1. UNCHANGED chartVars
        BY <2>7, <3>2 DEF OnDisplayToggled
      <4>2. loaded /\ ~kept => \A o \in Objects : ocpn.drawn[o] = None
        BY <3>2 DEF ChartSafe, StaleOnlyIfKept, Stale, PanelInv, CaseInv
      <4> QED  BY <4>1, <4>2 DEF CheckboxesActAtOnce, chartVars
    <3>3. CASE m_last_case # None /\ loaded
      <4>1. /\ m_last_case \in Case /\ m_last_own \in BOOLEAN
            /\ ApplyCase(m_last_case, m_last_own, m_show')
        BY <2>7, <3>1, <3>3 DEF OnDisplayToggled, PanelInv, MemoryInv, ApplyToChart
      <4> QED  BY <2>I, <4>1, OnlyTickedDrawn
    <3>4. CASE m_last_case # None /\ ~loaded
      <4>1. UNCHANGED chartVars
        BY <2>7, <3>4 DEF OnDisplayToggled, ApplyToChart, PanelInv, WindowInv
      <4> QED  BY <3>4, <4>1 DEF CheckboxesActAtOnce, chartVars
    <3> QED  BY <3>2, <3>3, <3>4
  <2>8. CASE CloseErrorDialog \/ OnClose \/ OnToolbarToolCallback \/ PanelDestroyed
    BY <2>1, <2>8 DEF CloseErrorDialog, OnClose, OnToolbarToolCallback, PanelDestroyed
  <2>9. CASE DeInit
    BY <2>2, <2>9 DEF DeInit, RemoveFromChart
  <2>10. CASE Navigator
    <3>1. ocpn \in ChartOf(Case) /\ ocpn' \in Navigate(ocpn) \cup DeleteByHand(ocpn)
          /\ UNCHANGED <<kept, loaded, m_show>>
      BY <2>10 DEF Navigator, UseOpenCPN, panelVars, ChartTypeOK
    <3>2. \A o \in Objects : ocpn'.drawn[o] # None => ocpn.drawn[o] # None
      BY <3>1, UseEffect DEF ChartOf
    <3> QED  BY <3>1, <3>2 DEF CheckboxesActAtOnce, Ticked
  <2>11. CASE UNCHANGED vars
    BY <2>1, <2>11 DEF vars, panelVars
  <2> QED  BY <2>4, <2>5, <2>6, <2>7, <2>8, <2>9, <2>10, <2>11 DEF Next
<1> QED  BY <1>1, <1>2, PanelInvHolds, PanelUsesChart, ChartTypeCorrect, ChartIsSafe, PTL
         DEF Spec
=============================================================================
