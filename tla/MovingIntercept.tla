--------------------------- MODULE MovingIntercept ---------------------------
(***************************************************************************)
(* SolveMovingIntercept (src/src/intercept_solve.cpp): when can own-ship,  *)
(* going straight at full speed, first be where a drifting target is?      *)
(*                                                                         *)
(* Time is in ticks from now, distances in units for which speeds are      *)
(* whole numbers of units a tick, and a step's length is rounded down to   *)
(* ticks.  The target is its distance from own-ship's starting point at    *)
(* every tick: only that enters the solve.  One action is one evaluation   *)
(* of the shortfall, hence of the drift model.                             *)
(***************************************************************************)
EXTENDS Integers

CONSTANTS
  Trajectories,      \* the target's possible distances, over time
  OwnSpeeds,         \* own-ship's possible speeds; 0 stands for unknown, too
  MaxTargetSpeed,    \* kMaxTargetSpeedKt
  Cap,               \* kCapHours
  MinStep,           \* kMinStepHours
  TimeTol,           \* kTimeTolHours
  MaxEvaluations     \* kMaxEvaluations

ASSUME SolverAssumption ==
  /\ OwnSpeeds \subseteq Nat
  /\ MaxTargetSpeed \in Nat \ {0} /\ Cap \in Nat
  /\ MinStep \in Nat \ {0} /\ TimeTol \in Nat \ {0}
  /\ MaxEvaluations \in Nat \ {0}

\* "No target this plugin models moves faster."
ASSUME SpeedAssumption ==
  /\ Trajectories \subseteq [0..Cap -> Nat]
  /\ \A r \in Trajectories : \A t, u \in 0..Cap :
       t <= u => r[u] >= r[t] - MaxTargetSpeed * (u - t)

VARIABLES
  range,        \* the trajectory being solved for
  own,          \* own-ship's speed
  lo, hi,       \* shortfall(lo) > 0; hi is the candidate for the meeting
  evaluations,
  pc            \* "start", "march", "bisect"; "met" or "none" at the end

vars == <<range, own, lo, hi, evaluations, pc>>

Shortfall(t) == range[t] - own * t
-----------------------------------------------------------------------------
Init ==
  /\ range \in Trajectories
  /\ own \in OwnSpeeds
  /\ lo = 0 /\ hi = 0 /\ evaluations = 0
  /\ pc = "start"

Start ==
  /\ pc = "start"
  /\ IF own = 0 THEN pc' = "none" /\ UNCHANGED evaluations
     ELSE /\ evaluations' = 1
          /\ pc' = IF Shortfall(0) > 0 THEN "march" ELSE "met"
  /\ UNCHANGED <<range, own, lo, hi>>

\* Mutants of the definitions below carry the plausible slip in their name.
StepAtOwnSpeed ==
  LET safe == Shortfall(lo) \div own
  IN  IF safe > MinStep THEN safe ELSE MinStep

\* The farthest the shortfall cannot yet have reached zero, or the minimum.
Step ==
  LET safe == Shortfall(lo) \div (own + MaxTargetSpeed)
  IN  IF safe > MinStep THEN safe ELSE MinStep

BudgetSpentLate == evaluations > MaxEvaluations
BudgetSpent == evaluations >= MaxEvaluations

BeyondCapEarly(t) == t >= Cap
BeyondCap(t) == t > Cap

GiveUp ==
  /\ pc = "march"
  /\ BeyondCap(lo + Step) \/ BudgetSpent
  /\ hi' = lo + Step
  /\ pc' = "none"
  /\ UNCHANGED <<range, own, lo, evaluations>>

March ==
  /\ pc = "march"
  /\ ~BeyondCap(lo + Step) /\ ~BudgetSpent
  /\ hi' = lo + Step
  /\ evaluations' = evaluations + 1
  /\ IF Shortfall(hi') <= 0 THEN pc' = "bisect" /\ UNCHANGED lo
                            ELSE lo' = hi' /\ UNCHANGED pc
  /\ UNCHANGED <<range, own>>

BisectKeepingZeroLow ==
  LET mid == (lo + hi) \div 2
  IN  /\ pc = "bisect"
      /\ hi - lo > TimeTol /\ ~BudgetSpent
      /\ evaluations' = evaluations + 1
      /\ IF Shortfall(mid) >= 0 THEN lo' = mid /\ UNCHANGED hi
                                ELSE hi' = mid /\ UNCHANGED lo
      /\ UNCHANGED <<range, own, pc>>

Bisect ==
  LET mid == (lo + hi) \div 2
  IN  /\ pc = "bisect"
      /\ hi - lo > TimeTol /\ ~BudgetSpent
      /\ evaluations' = evaluations + 1
      /\ IF Shortfall(mid) > 0 THEN lo' = mid /\ UNCHANGED hi
                               ELSE hi' = mid /\ UNCHANGED lo
      /\ UNCHANGED <<range, own, pc>>

\* Steer at hi.
Meet ==
  /\ pc = "bisect"
  /\ hi - lo <= TimeTol \/ BudgetSpent
  /\ pc' = "met"
  /\ UNCHANGED <<range, own, lo, hi, evaluations>>

Next == Start \/ March \/ GiveUp \/ Bisect \/ Meet

Spec == Init /\ [][Next]_vars
-----------------------------------------------------------------------------
(***************************************************************************)
(* The types, and that the target is aged no more than kMaxEvaluations     *)
(* times and the march stays within the cap (intercept_solve.cpp:56).      *)
(***************************************************************************)
TypeOK ==
  /\ range \in [0..Cap -> Nat] /\ own \in OwnSpeeds
  /\ lo \in 0..Cap /\ hi \in Nat
  /\ evaluations \in 0..MaxEvaluations
  /\ pc \in {"start", "march", "bisect", "met", "none"}

\* Own-ship could have been there from t on, for as long as a minimum step.
Reachable(t) == /\ t + MinStep - 1 <= Cap
                /\ \A u \in t..(t + MinStep - 1) : Shortfall(u) <= 0

(***************************************************************************)
(* "The EARLIEST meeting" (intercept_solve.h:33): no meeting that lasts    *)
(* kMinStepHours is over before the one that is found, although the solve  *)
(* looks at the target a few times only (the comment at kMinStepHours      *)
(* concedes the shorter ones).                                             *)
(***************************************************************************)
EarliestMeeting ==
  pc = "met" => \A t \in 0..Cap : Reachable(t) => t + MinStep - 1 >= hi

(***************************************************************************)
(* Giving up with evaluations to spare means that there is nothing to be   *)
(* found: own-ship has no speed, or no meeting within the cap lasts.       *)
(***************************************************************************)
GivesUpRightly ==
  pc = "none" => \/ own = 0 \/ BudgetSpent
                 \/ \A t \in 0..Cap : ~Reachable(t)

(***************************************************************************)
(* The course leads somewhere own-ship can be in time, and unless the      *)
(* budget ran out the time is exact to kTimeTolHours.                      *)
(***************************************************************************)
MeetingIsPinned ==
  pc = "met" => /\ hi <= Cap /\ Shortfall(hi) <= 0
                /\ hi = 0 \/ Shortfall(lo) > 0
                /\ hi - lo <= TimeTol \/ BudgetSpent
=============================================================================
