----------------------- MODULE MovingInterceptProofs -----------------------
(***************************************************************************)
(* What is proved of the solve for every trajectory within the speed       *)
(* limit and for every value of its constants.  The march leaves nothing   *)
(* that lasts behind it, either because the target could not have been     *)
(* reached yet or because the step was the minimum one; the bisection      *)
(* inherits that from the last step of the march.                          *)
(***************************************************************************)
EXTENDS MovingIntercept, TLAPS

\* What the whole division of a step's length leaves.
LEMMA QuotientBelow ==
  ASSUME NEW a \in Nat, NEW b \in Nat \ {0}
  PROVE  a \div b \in Nat /\ b * (a \div b) <= a
  OBVIOUS

\* Own-ship's and the target's speeds, multiplied by less than a step.
LEMMA ProductGrows ==
  ASSUME NEW a \in Nat, NEW j \in Nat, NEW k \in Nat, j < k
  PROVE  a * j + a <= a * k
<1>1. k = j + (k - j) /\ k - j \in Nat /\ k - j >= 1
  OBVIOUS
<1>2. a * k = a * j + a * (k - j)
  BY <1>1
<1>3. a * (k - j) >= a
  BY <1>1
<1> QED  BY <1>2, <1>3

(***************************************************************************)
(* A step longer than the minimum ends before the shortfall can be zero.   *)
(***************************************************************************)
LEMMA SafeStep ==
  ASSUME range \in Trajectories, own \in Nat \ {0}, lo \in 0..Cap,
         Shortfall(lo) > 0, Step > MinStep,
         NEW u \in lo..Cap, u < lo + Step
  PROVE  Shortfall(u) > 0
<1> DEFINE closing == own + MaxTargetSpeed
           s == Shortfall(lo)
           k == u - lo
<1>1. /\ closing \in Nat \ {0} /\ k \in Nat
      /\ range[lo] \in Nat /\ range[u] \in Nat
      /\ own \in Nat /\ MaxTargetSpeed \in Nat /\ lo \in Nat /\ u \in Nat
      /\ Cap \in Nat /\ u \in 0..Cap
  <2>1. /\ MaxTargetSpeed \in Nat /\ Cap \in Nat /\ own \in Nat \ {0}
    BY SolverAssumption
  <2>2. lo \in Nat /\ u \in 0..Cap /\ k \in Nat
    BY <2>1
  <2>3. range \in [0..Cap -> Nat]
    BY SpeedAssumption
  <2> QED  BY <2>1, <2>2, <2>3
<1>2. own * lo \in Nat /\ own * u \in Nat /\ own * k \in Nat /\ MaxTargetSpeed * k \in Nat
  <2> HIDE DEF k
  <2> QED  BY <1>1
<1>3. s \in Nat
  BY <1>1, <1>2 DEF Shortfall
<1>4. k < s \div closing
  <2>1. s \div closing \in Nat /\ MinStep \in Nat
    BY SolverAssumption, <1>1, <1>3, QuotientBelow
  <2>2. Step = s \div closing
    BY <2>1 DEF Step
  <2> HIDE DEF s, closing
  <2> QED  BY <1>1, <2>1, <2>2
<1>5. closing * k + closing <= s
  <2>1. closing * (s \div closing) <= s /\ s \div closing \in Nat
    BY <1>1, <1>3, QuotientBelow
  <2> HIDE DEF s, k
  <2>2. closing * k + closing <= closing * (s \div closing)
    BY <1>1, <1>4, <2>1, ProductGrows
  <2>3. closing * k \in Nat /\ closing * (s \div closing) \in Nat
    BY <1>1, <2>1
  <2> QED  BY <1>1, <1>3, <2>1, <2>2, <2>3
<1>6. closing * k = own * k + MaxTargetSpeed * k
  BY <1>1
<1>7. own * u = own * lo + own * k
  BY <1>1
<1>8. range[u] >= range[lo] - MaxTargetSpeed * k
  BY SpeedAssumption, <1>1
<1> QED
  BY <1>1, <1>2, <1>3, <1>5, <1>6, <1>7, <1>8 DEF Shortfall

-----------------------------------------------------------------------------
(***************************************************************************)
(* The inductive invariant.  Nothing that lasts has been passed, and the   *)
(* two ends of the bisection enclose a first zero: they are a minimum step *)
(* apart, or the shortfall is positive all the way.                        *)
(***************************************************************************)
Unmissed == \A t \in 0..Cap : Reachable(t) => t + MinStep - 1 > lo

Marching == own > 0 /\ Shortfall(lo) > 0 /\ evaluations > 0

Bracketed ==
  /\ lo < hi /\ hi <= Cap
  /\ Shortfall(lo) > 0 /\ Shortfall(hi) <= 0
  /\ hi - lo <= MinStep \/ \A u \in lo..(hi - 1) : Shortfall(u) > 0

SolverInv ==
  /\ TypeOK /\ range \in Trajectories
  /\ pc = "start" => lo = 0 /\ hi = 0 /\ evaluations = 0
  /\ pc = "march" => Marching /\ Unmissed
  /\ pc = "bisect" => Marching /\ Unmissed /\ Bracketed
  /\ pc = "met" => \/ lo = 0 /\ hi = 0 /\ Shortfall(0) <= 0
                   \/ Unmissed /\ Bracketed /\ (hi - lo <= TimeTol \/ BudgetSpent)
  /\ pc = "none" => GivesUpRightly

\* Every shortfall on the way is a number.
LEMMA ShortfallType ==
  ASSUME SolverInv, NEW t \in 0..Cap
  PROVE  Shortfall(t) \in Int
  BY SolverAssumption DEF SolverInv, TypeOK, Shortfall

\* A meeting that lasts and was not passed begins after lo.
LEMMA ReachableAhead ==
  ASSUME SolverInv, Unmissed, Shortfall(lo) > 0, NEW t \in 0..Cap, Reachable(t)
  PROVE  /\ lo < t /\ Shortfall(t) <= 0
         /\ Shortfall(t + MinStep - 1) <= 0 /\ t + MinStep - 1 \in 0..Cap
<1>1. /\ MinStep \in Nat \ {0} /\ Cap \in Nat /\ lo \in 0..Cap
      /\ t + MinStep - 1 <= Cap /\ t + MinStep - 1 > lo
      /\ \A u \in t..(t + MinStep - 1) : Shortfall(u) <= 0
  BY SolverAssumption DEF SolverInv, TypeOK, Reachable, Unmissed
<1>2. Shortfall(lo) \in Int
  BY <1>1, ShortfallType
<1>3. lo \notin t..(t + MinStep - 1)
  BY <1>1, <1>2
<1> QED  BY <1>1, <1>3

(***************************************************************************)
(* A step of the march passes nothing that lasts.                          *)
(***************************************************************************)
LEMMA StepPassesNothing ==
  ASSUME SolverInv, Marching, Unmissed, NEW t \in 0..Cap, Reachable(t)
  PROVE  t + MinStep - 1 >= lo + Step
<1>1. /\ lo < t /\ Shortfall(t) <= 0
  BY ReachableAhead DEF Marching
<1>2. /\ MinStep \in Nat \ {0} /\ Cap \in Nat /\ lo \in 0..Cap /\ own \in Nat \ {0}
      /\ range \in Trajectories
  BY SolverAssumption DEF SolverInv, TypeOK, Marching
<1>3. Step \in Nat /\ Step >= MinStep
  <2>1. Shortfall(lo) \in Nat /\ own + MaxTargetSpeed \in Nat \ {0}
    BY SolverAssumption, <1>2, ShortfallType DEF Marching
  <2>2. Shortfall(lo) \div (own + MaxTargetSpeed) \in Nat
    BY <2>1, QuotientBelow
  <2> QED  BY <1>2, <2>2 DEF Step
<1>4. CASE Step > MinStep
  <2> SUFFICES ASSUME t < lo + Step PROVE FALSE
    BY <1>2, <1>3
  <2>1. t \in lo..Cap
    BY <1>1, <1>2
  <2>2. Shortfall(t) > 0
    BY <1>2, <1>4, <2>1, SafeStep DEF Marching
  <2> QED  BY <1>1, <2>2, ShortfallType
<1>5. CASE Step = MinStep
  BY <1>1, <1>2, <1>5
<1> QED  BY <1>2, <1>3, <1>4, <1>5

(***************************************************************************)
(* Nothing that lasts lies between the ends of a bracket.                  *)
(***************************************************************************)
LEMMA BracketHoldsNothing ==
  ASSUME SolverInv, Unmissed, Bracketed, NEW t \in 0..Cap, Reachable(t)
  PROVE  t + MinStep - 1 >= hi
<1>1. lo < t /\ Shortfall(t) <= 0
  BY ReachableAhead DEF Bracketed
<1>2. MinStep \in Nat \ {0} /\ Cap \in Nat /\ lo \in 0..Cap /\ hi \in Nat
  BY SolverAssumption DEF SolverInv, TypeOK
<1>3. CASE hi - lo <= MinStep
  BY <1>1, <1>2, <1>3
<1>4. CASE \A u \in lo..(hi - 1) : Shortfall(u) > 0
  <2>1. t \notin lo..(hi - 1)
    BY <1>1, <1>4, ShortfallType
  <2> QED  BY <1>1, <1>2, <2>1
<1> QED  BY <1>3, <1>4 DEF Bracketed

-----------------------------------------------------------------------------
(***************************************************************************)
(* Every evaluation keeps the invariant, for every target within the speed *)
(* limit.                                                                  *)
(***************************************************************************)
THEOREM SolverInvariant == Spec => []SolverInv
<1>1. Init => SolverInv
  BY SolverAssumption, SpeedAssumption DEF Init, SolverInv, TypeOK
<1>2. SolverInv /\ [Next]_vars => SolverInv'
  <2> SUFFICES ASSUME SolverInv, [Next]_vars PROVE SolverInv'
    OBVIOUS
  <2>0. /\ MinStep \in Nat \ {0} /\ TimeTol \in Nat \ {0}
        /\ Cap \in Nat /\ MaxEvaluations \in Nat \ {0}
        /\ lo \in 0..Cap /\ hi \in Nat /\ evaluations \in 0..MaxEvaluations
        /\ own \in OwnSpeeds /\ own \in Nat
        /\ range \in [0..Cap -> Nat] /\ range \in Trajectories
    BY SolverAssumption, SpeedAssumption DEF SolverInv, TypeOK
  <2>1. CASE Start
    <3>1. /\ UNCHANGED <<range, own, lo, hi>> /\ lo = 0 /\ hi = 0
          /\ evaluations' \in 0..MaxEvaluations
      BY <2>0, <2>1 DEF Start, SolverInv
    <3>2. TypeOK' /\ range' \in Trajectories
      BY <2>0, <2>1, <3>1 DEF Start, TypeOK
    <3>3. CASE own = 0
      BY <2>1, <3>1, <3>2, <3>3 DEF Start, SolverInv, GivesUpRightly
    <3>4. CASE own # 0 /\ Shortfall(0) > 0
      <4>1. pc' = "march" /\ evaluations' = 1
        BY <2>1, <3>4 DEF Start
      <4>2. Marching'
        BY <2>0, <3>1, <3>4, <4>1 DEF Marching, Shortfall
      <4>3. \A t \in 0..Cap : Reachable(t) => t + MinStep - 1 > 0
        <5> SUFFICES ASSUME NEW t \in 0..Cap, Reachable(t), t + MinStep - 1 <= 0
                     PROVE  FALSE
          BY <2>0
        <5>1. t = 0 /\ 0 \in t..(t + MinStep - 1)
          BY <2>0
        <5>2. Shortfall(0) <= 0
          BY <5>1 DEF Reachable
        <5> QED  BY <2>0, <3>4, <5>2, ShortfallType
      <4>4. Unmissed'
        BY <3>1, <4>3 DEF Unmissed, Reachable, Shortfall
      <4> QED  BY <3>2, <4>1, <4>2, <4>4 DEF SolverInv
    <3>5. CASE own # 0 /\ ~(Shortfall(0) > 0)
      <4>1. pc' = "met"
        BY <2>1, <3>5 DEF Start
      <4>2. Shortfall(0) <= 0
        BY <2>0, <3>5, ShortfallType
      <4>3. (lo = 0 /\ hi = 0 /\ Shortfall(0) <= 0)'
        BY <3>1, <4>2 DEF Shortfall
      <4> QED  BY <3>2, <4>1, <4>3 DEF SolverInv
    <3> QED  BY <3>3, <3>4, <3>5
  <2>2. CASE March
    <3>1. /\ pc = "march" /\ Marching /\ Unmissed
          /\ hi' = lo + Step /\ evaluations' = evaluations + 1
          /\ evaluations < MaxEvaluations
          /\ UNCHANGED <<range, own>>
      BY <2>0, <2>2 DEF March, SolverInv, BudgetSpent
    <3>2. Step \in Nat /\ Step >= MinStep
      <4>1. Shortfall(lo) \in Nat /\ own + MaxTargetSpeed \in Nat \ {0}
        BY SolverAssumption, <2>0, <3>1, ShortfallType DEF Marching
      <4>2. Shortfall(lo) \div (own + MaxTargetSpeed) \in Nat
        BY <4>1, QuotientBelow
      <4> QED  BY <2>0, <4>2 DEF Step
    <3>3. hi' \in 0..Cap /\ lo < hi'
      BY <2>0, <2>2, <3>1, <3>2 DEF March, BeyondCap
    <3>4. Shortfall(hi') \in Int
      BY <3>3, ShortfallType
    <3>5. CASE Shortfall(hi') <= 0
      <4>1. pc' = "bisect" /\ UNCHANGED lo
        BY <2>2, <3>1, <3>5 DEF March
      <4>2. TypeOK'
        BY <2>0, <3>1, <3>3, <4>1 DEF TypeOK
      <4>3. Marching' /\ Unmissed'
        BY <2>0, <3>1, <4>1 DEF Marching, Unmissed, Reachable, Shortfall
      <4>4. Bracketed'
        <5>1. hi' - lo <= MinStep \/ \A u \in lo..(hi' - 1) : Shortfall(u) > 0
          <6> SUFFICES ASSUME Step > MinStep, NEW u \in lo..(hi' - 1)
                       PROVE  Shortfall(u) > 0
            BY <2>0, <3>1, <3>2
          <6>1. u \in lo..Cap /\ u < lo + Step
            BY <2>0, <3>1, <3>2, <3>3
          <6> QED  BY <2>0, <3>1, <6>1, SafeStep DEF Marching
        <5> QED  BY <2>0, <3>1, <3>3, <3>5, <4>1, <5>1 DEF Bracketed, Shortfall, Marching
      <4> QED  BY <2>0, <3>1, <4>1, <4>2, <4>3, <4>4 DEF SolverInv
    <3>6. CASE ~(Shortfall(hi') <= 0)
      <4>1. pc' = "march" /\ lo' = hi'
        BY <2>2, <3>1, <3>6 DEF March
      <4>2. TypeOK'
        BY <2>0, <3>1, <3>3, <4>1 DEF TypeOK
      <4>3. Marching'
        BY <2>0, <3>1, <3>4, <3>6, <4>1 DEF Marching, Shortfall
      <4>4. \A t \in 0..Cap : Reachable(t) => t + MinStep - 1 > hi'
        <5> SUFFICES ASSUME NEW t \in 0..Cap, Reachable(t)
                     PROVE  t + MinStep - 1 > hi'
          OBVIOUS
        <5>1. t + MinStep - 1 >= hi'
          BY <3>1, StepPassesNothing
        <5>2. Shortfall(t + MinStep - 1) <= 0
          BY <3>1, ReachableAhead DEF Marching
        <5> QED  BY <2>0, <3>3, <3>4, <3>6, <5>1, <5>2
      <4>5. Unmissed'
        BY <3>1, <4>1, <4>4 DEF Unmissed, Reachable, Shortfall
      <4> QED  BY <2>0, <3>1, <4>1, <4>2, <4>3, <4>5 DEF SolverInv
    <3> QED  BY <3>5, <3>6
  <2>3. CASE GiveUp
    <3>1. /\ pc = "march" /\ pc' = "none" /\ Marching /\ Unmissed
          /\ hi' = lo + Step
          /\ BeyondCap(lo + Step) \/ BudgetSpent
          /\ UNCHANGED <<range, own, lo, evaluations>>
      BY <2>3 DEF GiveUp, SolverInv
    <3>2. Step \in Nat
      <4>1. Shortfall(lo) \in Nat /\ own + MaxTargetSpeed \in Nat \ {0}
        BY SolverAssumption, <2>0, <3>1, ShortfallType DEF Marching
      <4>2. Shortfall(lo) \div (own + MaxTargetSpeed) \in Nat
        BY <4>1, QuotientBelow
      <4> QED  BY <2>0, <4>2 DEF Step
    <3>3. TypeOK'
      BY <2>0, <3>1, <3>2 DEF TypeOK
    <3>4. GivesUpRightly'
      <4> SUFFICES ASSUME ~BudgetSpent PROVE \A t \in 0..Cap : ~Reachable(t)
        BY <3>1 DEF GivesUpRightly, BudgetSpent, Reachable, Shortfall
      <4> SUFFICES ASSUME NEW t \in 0..Cap, Reachable(t) PROVE FALSE
        OBVIOUS
      <4>1. t + MinStep - 1 >= lo + Step
        BY <3>1, StepPassesNothing
      <4>2. t + MinStep - 1 <= Cap
        BY DEF Reachable
      <4> QED  BY <2>0, <3>1, <3>2, <4>1, <4>2 DEF BeyondCap
    <3> QED  BY <2>0, <3>1, <3>3, <3>4 DEF SolverInv
  <2>4. CASE Bisect
    <3> DEFINE mid == (lo + hi) \div 2
    <3>1. /\ pc = "bisect" /\ pc' = "bisect" /\ Marching /\ Unmissed /\ Bracketed
          /\ hi - lo > TimeTol /\ evaluations < MaxEvaluations
          /\ evaluations' = evaluations + 1
          /\ UNCHANGED <<range, own>>
      BY <2>0, <2>4 DEF Bisect, SolverInv, BudgetSpent
    <3>2. lo < mid /\ mid < hi /\ mid \in 0..Cap /\ hi <= Cap
      BY <2>0, <3>1 DEF Bracketed
    <3>3. Shortfall(mid) \in Int
      BY <3>2, ShortfallType
    <3>4. \/ Shortfall(mid) > 0 /\ lo' = mid /\ hi' = hi
          \/ Shortfall(mid) <= 0 /\ hi' = mid /\ lo' = lo
      BY <2>4, <3>3 DEF Bisect
    <3> HIDE DEF mid
    <3>5. TypeOK'
      BY <2>0, <3>1, <3>2, <3>4 DEF TypeOK
    <3>6. Bracketed' /\ Marching'
      <4>1. \A u \in Int : range'[u] - own' * u = Shortfall(u)
        BY <3>1 DEF Shortfall
      <4>2. /\ lo' < hi' /\ hi' <= Cap /\ hi' - lo' <= hi - lo
            /\ lo'..(hi' - 1) \subseteq lo..(hi - 1)
        BY <2>0, <3>2, <3>4
      <4>3. range'[lo'] - own' * lo' > 0 /\ range'[hi'] - own' * hi' <= 0
        BY <3>1, <3>4 DEF Bracketed, Shortfall
      <4>4. hi' - lo' <= MinStep \/ \A u \in lo'..(hi' - 1) : range'[u] - own' * u > 0
        <5>1. CASE hi - lo <= MinStep
          BY <2>0, <3>2, <3>4, <4>2, <5>1
        <5>2. CASE \A u \in lo..(hi - 1) : Shortfall(u) > 0
          BY <4>1, <4>2, <5>2
        <5> QED  BY <3>1, <5>1, <5>2 DEF Bracketed
      <4> QED  BY <2>0, <3>1, <4>2, <4>3, <4>4 DEF Bracketed, Marching, Shortfall
    <3>7. \A t \in 0..Cap : Reachable(t) => t + MinStep - 1 > lo'
      <4> SUFFICES ASSUME NEW t \in 0..Cap, Reachable(t)
                   PROVE  t + MinStep - 1 > lo'
        OBVIOUS
      <4>1. t + MinStep - 1 >= hi
        BY <3>1, BracketHoldsNothing
      <4> QED  BY <2>0, <3>2, <3>4, <4>1
    <3>8. Unmissed'
      BY <3>1, <3>7 DEF Unmissed, Reachable, Shortfall
    <3> QED  BY <2>0, <3>1, <3>5, <3>6, <3>8 DEF SolverInv
  <2>5. CASE Meet
    <3>1. /\ pc = "bisect" /\ pc' = "met" /\ Unmissed /\ Bracketed
          /\ hi - lo <= TimeTol \/ BudgetSpent
          /\ UNCHANGED <<range, own, lo, hi, evaluations>>
      BY <2>5 DEF Meet, SolverInv
    <3>2. TypeOK'
      BY <2>0, <3>1 DEF TypeOK
    <3>3. Unmissed' /\ Bracketed'
      BY <3>1 DEF Unmissed, Bracketed, Reachable, Shortfall
    <3>4. (hi - lo <= TimeTol \/ BudgetSpent)'
      BY <3>1 DEF BudgetSpent
    <3> QED  BY <2>0, <3>1, <3>2, <3>3, <3>4 DEF SolverInv
  <2>6. CASE UNCHANGED vars
    BY <2>6 DEF vars, SolverInv, TypeOK, Marching, Unmissed, Bracketed,
       GivesUpRightly, Reachable, Shortfall, BudgetSpent
  <2> QED  BY <2>1, <2>2, <2>3, <2>4, <2>5, <2>6 DEF Next
<1> QED  BY <1>1, <1>2, PTL DEF Spec

(***************************************************************************)
(* The meeting found is the earliest one that lasts (EarliestMeeting).     *)
(***************************************************************************)
THEOREM FindsEarliest == Spec => []EarliestMeeting
<1>1. SolverInv => EarliestMeeting
  <2> SUFFICES ASSUME SolverInv, pc = "met", NEW t \in 0..Cap, Reachable(t)
               PROVE  t + MinStep - 1 >= hi
    BY DEF EarliestMeeting
  <2>1. MinStep \in Nat \ {0} /\ Cap \in Nat
    BY SolverAssumption
  <2>2. CASE hi = 0
    BY <2>1, <2>2
  <2>3. CASE Unmissed /\ Bracketed
    BY <2>3, BracketHoldsNothing
  <2> QED  BY <2>2, <2>3 DEF SolverInv
<1> QED  BY <1>1, SolverInvariant, PTL

(***************************************************************************)
(* Without a result there is nothing to be found, unless the evaluations   *)
(* ran out (intercept_solve.cpp:54-56).                                    *)
(***************************************************************************)
THEOREM GivesUpOnlyRightly == Spec => []GivesUpRightly
<1>1. SolverInv => GivesUpRightly
  BY DEF SolverInv, GivesUpRightly
<1> QED  BY <1>1, SolverInvariant, PTL

(***************************************************************************)
(* The types; the target is never aged more often than kMaxEvaluations,    *)
(* in the march and the bisection together (intercept_solve.cpp:56).       *)
(***************************************************************************)
THEOREM SolverTypeCorrect == Spec => []TypeOK
<1>1. SolverInv => TypeOK
  BY DEF SolverInv
<1> QED  BY <1>1, SolverInvariant, PTL

(***************************************************************************)
(* Own-ship can be where it is sent in time, and the time is exact to the  *)
(* tolerance unless the evaluations ran out (MeetingIsPinned).             *)
(***************************************************************************)
THEOREM MeetsInTime == Spec => []MeetingIsPinned
<1>1. SolverInv => MeetingIsPinned
  BY SolverAssumption DEF SolverInv, TypeOK, MeetingIsPinned, Bracketed
<1> QED  BY <1>1, SolverInvariant, PTL
=============================================================================
