---------------------------- MODULE ChartPromise ----------------------------
(***************************************************************************)
(* What ApplyCase promises its caller (the header comments of              *)
(* src/src/intercept_pi.h), without saying in which calls: one redraw      *)
(* leaves what OpenCPN navigates with alone and makes everything else show *)
(* the new case, or nothing; the navigation itself is not the plugin's.    *)
(* An exception may leave a redraw half done, with objects still to be     *)
(* replaced; what must not be touched is not touched even then.            *)
(***************************************************************************)
CONSTANTS None, Case, Show, Objects, Navigation

VARIABLES
  drawn,   \* [Objects -> Case or None]
  nav,     \* <<active route, active waypoint>>
  m_case, kept, torn, loaded

vars == <<drawn, nav, m_case, kept, torn, loaded>>

CourseObjects == {"Route", "Intercept"}

Followed == {o \in Objects : nav[1] = o \/ nav[2] = o}

\* What a redraw must not touch: the course route and its mark go together,
\* and the Estimated mark is moved rather than kept.
Protected == (Followed \ ({"Estimated"} \cup CourseObjects))
               \cup (IF Followed \cap CourseObjects # {} THEN CourseObjects ELSE {})

Wanted(o, c, own, show) ==
  CASE o = "Reported"  -> show.target
    [] o = "Estimated" -> show.estimated \/ o \in Followed
    [] o = "Track"     -> show.lines /\ c.shape.drifted
    [] o = "Route"     -> show.lines /\ own
    [] o = "Intercept" -> show.lines /\ own /\ c.shape.solved

Init ==
  /\ drawn = [o \in Objects |-> None]
  /\ nav \in Navigation
  /\ Followed = {}
  /\ m_case = None /\ kept = FALSE /\ torn = FALSE /\ loaded = TRUE

Redrawn(c, own, show) ==
  /\ loaded /\ UNCHANGED <<nav, loaded>>
  /\ m_case' = c
  /\ kept' = (Protected # {}) /\ torn' = FALSE
  /\ drawn' = [o \in Objects |-> IF o \in Protected THEN drawn[o]
                                 ELSE IF Wanted(o, c, own, show) THEN c ELSE None]

HalfRedrawn(c) ==
  /\ loaded /\ UNCHANGED <<nav, kept, loaded>>
  /\ m_case' = c /\ torn' = TRUE
  /\ DOMAIN drawn' = Objects
  /\ \A o \in Objects : drawn'[o] \in {drawn[o]} \cup (IF o \in Protected THEN {} ELSE {None, c})

Unload ==
  /\ loaded /\ loaded' = FALSE
  /\ drawn' = [o \in Objects |-> None]
  /\ nav' = (IF Followed = {} THEN nav ELSE <<"none", "none">>)
  /\ UNCHANGED <<m_case, kept, torn>>

\* Activating anything drawn, or nothing.
Steer ==
  /\ UNCHANGED <<drawn, m_case, kept, torn, loaded>>
  /\ nav' \in Navigation
  /\ \A o \in Followed' : drawn[o] # None

TakeAway(o) ==
  /\ drawn' = [drawn EXCEPT ![o] = None]
  /\ nav' = (IF o \in Followed THEN <<"none", "none">> ELSE nav)
  /\ UNCHANGED <<m_case, kept, torn, loaded>>

Next ==
  \/ Steer
  \/ Unload
  \/ /\ m_case' \in Case
     /\ \/ HalfRedrawn(m_case')
        \/ \E own \in BOOLEAN, show \in Show : Redrawn(m_case', own, show)
  \/ \E o \in Objects : TakeAway(o)

Spec == Init /\ [][Next]_vars
=============================================================================
