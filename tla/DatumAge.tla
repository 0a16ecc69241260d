------------------------------ MODULE DatumAge ------------------------------
(***************************************************************************)
(* ComputeAgedDatum (src/src/datum_age.cpp): a reported position carried   *)
(* forward to now by the current and the wind's leeway, step by step, with *)
(* the environment looked up where and when each step begins.              *)
(*                                                                         *)
(* Positions and velocities are whole numbers on a line, signed where the  *)
(* code has directions; a velocity moves the datum by that much per unit   *)
(* of time.  A GRIB is two tables over regions and periods, with None      *)
(* where it has nothing.                                                   *)
(***************************************************************************)
EXTENDS Integers

CONSTANTS
  None,
  Gribs,             \* what a file may hold: [wind, current : Regions \X Periods -> ...]
  Region(_),         \* the region a position lies in
  Period(_),         \* the period an instant lies in
  Reports,           \* possible times of report
  Nows,              \* possible times to age to
  Drifts,            \* possible hand-entered drifts, None for none
  LeewayFactor,      \* LookupLeewayCoefficients(): leeway per unit of wind
  StepLength,        \* kStepSeconds
  MaxSteps,          \* kMaxSteps
  MaxElapsed         \* kMaxElapsedSeconds

ASSUME AgeAssumption ==
  /\ Reports \subseteq Nat /\ Nows \subseteq Nat /\ Drifts \subseteq Int
  /\ LeewayFactor \in Nat
  /\ StepLength \in Nat \ {0} /\ MaxSteps \in Nat \ {0}
  /\ MaxElapsed \in Nat \ {0}

\* 30 days of half-hour steps are 1440, fewer than kMaxSteps.
ASSUME StepsAssumption == MaxElapsed <= StepLength * MaxSteps

VARIABLES
  time_of_report, now,       \* the arguments
  grib, manual, include_leeway,
  pos, step_time, remaining, \* the integration
  elapsed, source, leeway_applied,
  wind_every_step, current_every_step,
  leeway,                    \* the summed leeway displacement
  steps,                     \* how many steps have been taken
  pc                         \* "start", "loop" or "done"

inputs == <<time_of_report, now, grib, manual, include_leeway>>
totals == <<elapsed, source, leeway_applied>>
flags  == <<wind_every_step, current_every_step>>
vars   == <<inputs, totals, flags, pos, step_time, remaining, leeway, steps, pc>>

Reported == 0      \* the reported position

Smaller(a, b) == IF a < b THEN a ELSE b
-----------------------------------------------------------------------------
(***************************************************************************)
(* The drift looked up at a place and an instant.  Wind is given by where  *)
(* it blows from; leeway goes the other way, and only the current counts   *)
(* when leeway is switched off.                                            *)
(***************************************************************************)
LookupWind(p, t)    == grib.wind[Region(p), Period(t)]
LookupCurrent(p, t) == grib.current[Region(p), Period(t)]

LeewayAt(p, t) ==
  IF grib # None /\ LookupWind(p, t) # None THEN -(LeewayFactor * LookupWind(p, t))
                                            ELSE 0

CurrentAt(p, t) == IF LookupCurrent(p, t) = None THEN 0 ELSE LookupCurrent(p, t)

Drift(p, t) ==
  IF grib # None
  THEN CurrentAt(p, t) + (IF leeway_applied THEN LeewayAt(p, t) ELSE 0)
  ELSE manual
-----------------------------------------------------------------------------
Init ==
  /\ time_of_report \in Reports /\ now \in Nows
  /\ grib \in Gribs \cup {None} /\ manual \in Drifts \cup {None}
  /\ include_leeway \in BOOLEAN
  /\ pos = Reported /\ step_time = time_of_report
  /\ remaining = 0 /\ elapsed = 0 /\ steps = 0
  /\ source = "none" /\ leeway_applied = FALSE
  /\ wind_every_step = FALSE /\ current_every_step = FALSE /\ leeway = 0
  /\ pc = "start"

\* Mutants of the definitions below carry the plausible slip in their name.
ElapsedUncapped == now - time_of_report
Elapsed == Smaller(now - time_of_report, MaxElapsed)

\* Not after the report, or nothing to drift with.
StartStill ==
  /\ pc = "start"
  /\ now <= time_of_report \/ (grib = None /\ manual = None)
  /\ elapsed' = IF now <= time_of_report THEN 0 ELSE Elapsed
  /\ pc' = "done"
  /\ UNCHANGED <<inputs, source, leeway_applied, flags, pos, step_time,
                 remaining, leeway, steps>>

Start ==
  /\ pc = "start"
  /\ now > time_of_report /\ (grib # None \/ manual # None)
  /\ elapsed' = Elapsed
  /\ remaining' = Elapsed
  /\ source' = IF grib # None THEN "grib" ELSE "manual"
  /\ leeway_applied' = (grib # None /\ include_leeway)
  /\ wind_every_step' = (grib # None)
  /\ current_every_step' = (grib # None)
  /\ pc' = "loop"
  /\ UNCHANGED <<inputs, pos, step_time, leeway, steps>>

\* For an older report the steps would grow rather than their number.
StepLengthFor(total) ==
  IF total \div StepLength > MaxSteps THEN (total + MaxSteps - 1) \div MaxSteps
                                      ELSE StepLength

ThisStepWhole == StepLengthFor(elapsed)
ThisStep == Smaller(StepLengthFor(elapsed), remaining)

\* The environment is the one at the step's beginning.
SampleTimeAhead == step_time + ThisStep
SampleTime == step_time

StillEveryLatest(flag, sample) == source = "grib" /\ sample # None
StillEvery(flag, sample) == flag /\ sample # None

\* Summed with leeway switched off as well: the uncertainty needs it.
LeewayStepIfApplied == IF leeway_applied THEN LeewayAt(pos, SampleTime) ELSE 0
LeewayStep == LeewayAt(pos, SampleTime)

Step ==
  /\ pc = "loop" /\ remaining > 0
  /\ wind_every_step' = StillEvery(wind_every_step, LookupWind(pos, SampleTime))
  /\ current_every_step' = StillEvery(current_every_step, LookupCurrent(pos, SampleTime))
  /\ leeway' = leeway + LeewayStep * ThisStep
  /\ pos' = pos + Drift(pos, SampleTime) * ThisStep
  /\ step_time' = step_time + ThisStep
  /\ remaining' = remaining - ThisStep
  /\ steps' = steps + 1
  /\ UNCHANGED <<inputs, totals, pc>>

Finish ==
  /\ pc = "loop" /\ remaining <= 0
  /\ pc' = "done"
  /\ UNCHANGED <<inputs, totals, flags, pos, step_time, remaining, leeway, steps>>

Next == StartStill \/ Start \/ Step \/ Finish

Spec == Init /\ [][Next]_vars
-----------------------------------------------------------------------------
(***************************************************************************)
(* The reference: where the target is at every instant after the report,   *)
(* whatever instant it is aged to.                                         *)
(***************************************************************************)
\* The instant at which the step that t lies in began.
StepBegin(t) == t - (t % StepLength)

\* Position and leeway at t, from those at the beginning of t's step.
Carried(along, t) ==
  IF t = 0 THEN [pos |-> Reported, leeway |-> 0]
  ELSE LET b == StepBegin(t - 1)
           p == along[b].pos
       IN  [pos    |-> p + Drift(p, time_of_report + b) * (t - b),
            leeway |-> along[b].leeway + LeewayAt(p, time_of_report + b) * (t - b)]

Path == LET along[t \in Nat] == Carried(along, t) IN along

StepsTaken == {b \in 0..(step_time - time_of_report) :
                 b % StepLength = 0 /\ b < step_time - time_of_report}
-----------------------------------------------------------------------------
(***************************************************************************)
(* The types, and that the report is never aged by more than 30 days nor   *)
(* in more than kMaxSteps steps (datum_age.cpp:119-155).                   *)
(***************************************************************************)
TypeOK ==
  /\ time_of_report \in Reports /\ now \in Nows
  /\ pos \in Int /\ leeway \in Int
  /\ elapsed \in 0..MaxElapsed /\ remaining \in 0..MaxElapsed
  /\ steps \in 0..MaxSteps
  /\ source \in {"none", "manual", "grib"}
  /\ pc \in {"start", "loop", "done"}

(***************************************************************************)
(* Every lookup is for an instant before now, the steps add up to the      *)
(* elapsed time that is reported, and the last one is cut short rather     *)
(* than run into the future.                                               *)
(***************************************************************************)
StepsAddUp ==
  /\ pc = "loop" => step_time + remaining = time_of_report + elapsed
  /\ pc = "loop" /\ remaining > 0 => step_time < now
  /\ pc = "done" /\ source # "none" =>
       remaining = 0 /\ step_time = time_of_report + elapsed

(***************************************************************************)
(* Ageing one report to different times gives points of one trajectory, as *)
(* the intercept solve takes for granted of target_at: an unfinished last  *)
(* step ends on the line the finished one would have taken.                *)
(***************************************************************************)
OnOneTrajectory ==
  pc # "start" /\ source # "none" => pos = Path[step_time - time_of_report].pos

(***************************************************************************)
(* The flags the uncertainty rests on tell of every step, not of the last  *)
(* one, and of a GRIB only (datum_age.h:76-81).                            *)
(***************************************************************************)
FlagsTellEveryStep ==
  pc = "done" =>
    /\ wind_every_step <=>
         source = "grib" /\ \A b \in StepsTaken :
           LookupWind(Path[b].pos, time_of_report + b) # None
    /\ current_every_step <=>
         source = "grib" /\ \A b \in StepsTaken :
           LookupCurrent(Path[b].pos, time_of_report + b) # None

(***************************************************************************)
(* leeway_nm is the leeway's own displacement along the trajectory that    *)
(* was taken, also where leeway was not applied (datum_age.h:86-91).       *)
(***************************************************************************)
LeewayAlongPath ==
  source = "grib" => leeway = Path[step_time - time_of_report].leeway
=============================================================================
