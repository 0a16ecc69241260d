--------------------------- MODULE DatumAgeProofs ---------------------------
(***************************************************************************)
(* What is proved of the ageing for every step length, step limit, age and *)
(* file: the steps add up, and there are never more than kMaxSteps, since  *)
(* whole steps are behind the datum as long as there is time left.  Then   *)
(* of the uncertainty, for any winds, any number of hours and any pattern  *)
(* of gaps: the promises that compare one ring with another.               *)
(***************************************************************************)
EXTENDS DatumAge, DatumUncertainty, WellFoundedInduction, TLAPS

\* Within the cap the steps never have to be stretched.
LEMMA QuotientWithin ==
  ASSUME NEW n \in Nat, NEW d \in Nat \ {0}, NEW m \in Nat, n <= d * m
  PROVE  n \div d <= m
<1> DEFINE q == n \div d
<1>1. q \in Nat /\ d * q <= n
  OBVIOUS
<1>2. SUFFICES ASSUME q > m PROVE FALSE
  BY <1>1
<1> HIDE DEF q
<1>3. q = m + 1 + (q - m - 1) /\ q - m - 1 \in Nat
  BY <1>1, <1>2
<1>4. d * q = d * m + d + d * (q - m - 1)
  BY <1>3
<1>5. d * (q - m - 1) >= 0
  BY <1>3
<1> QED  BY <1>1, <1>4, <1>5

\* Whole steps that leave some of the time leave some of the limit.
LEMMA StepsLeft ==
  ASSUME NEW s \in Nat, NEW d \in Nat \ {0}, NEW m \in Nat, s * d < d * m
  PROVE  s < m
<1> SUFFICES ASSUME s >= m PROVE FALSE
  OBVIOUS
<1>1. s = m + (s - m) /\ s - m \in Nat
  OBVIOUS
<1>2. s * d = d * m + d * (s - m)
  BY <1>1
<1>3. d * (s - m) >= 0
  BY <1>1
<1> QED  BY <1>2, <1>3
-----------------------------------------------------------------------------
Times ==
  /\ time_of_report \in Nat /\ now \in Nat
  /\ step_time \in Nat /\ remaining \in Nat /\ steps \in Nat
  /\ elapsed \in 0..MaxElapsed

WholeSteps == steps * StepLength = step_time - time_of_report

(***************************************************************************)
(* The inductive invariant: besides the sums, as long as there is time     *)
(* left every step taken was a whole one.                                  *)
(***************************************************************************)
AgeInv ==
  /\ Times
  /\ pc \in {"start", "loop", "done"}
  /\ steps <= MaxSteps
  /\ pc = "start" => /\ elapsed = 0 /\ remaining = 0 /\ steps = 0
                     /\ source = "none" /\ step_time = time_of_report
  /\ pc = "loop" => /\ elapsed <= now - time_of_report
                    /\ step_time + remaining = time_of_report + elapsed
                    /\ remaining > 0 => WholeSteps
  /\ pc = "done" /\ source # "none" =>
       remaining = 0 /\ step_time = time_of_report + elapsed

\* The code's own step length is the one that is taken.
LEMMA UnstretchedStep ==
  ASSUME AgeInv
  PROVE  ThisStep = Smaller(StepLength, remaining)
<1>1. /\ elapsed \in Nat /\ StepLength \in Nat \ {0} /\ MaxSteps \in Nat
      /\ elapsed <= StepLength * MaxSteps
  <2>1. /\ elapsed \in Nat /\ elapsed <= MaxElapsed /\ MaxElapsed \in Nat
        /\ StepLength \in Nat \ {0} /\ MaxSteps \in Nat
    BY AgeAssumption DEF AgeInv, Times
  <2> QED  BY <2>1, StepsAssumption
<1>2. elapsed \div StepLength <= MaxSteps
  BY <1>1, QuotientWithin
<1>3. elapsed \div StepLength \in Nat
  BY <1>1
<1>4. StepLengthFor(elapsed) = StepLength
  BY <1>1, <1>2, <1>3 DEF StepLengthFor
<1> QED  BY <1>4 DEF ThisStep

\* A turn of the loop.
LEMMA StepKeepsInv ==
  ASSUME AgeInv, Step
  PROVE  AgeInv'
<1> DEFINE d == ThisStep
<1>1. /\ time_of_report \in Nat /\ now \in Nat /\ step_time \in Nat
      /\ remaining \in Nat /\ remaining > 0 /\ steps \in Nat
      /\ elapsed \in 0..MaxElapsed /\ elapsed \in Nat /\ elapsed <= MaxElapsed
      /\ StepLength \in Nat \ {0} /\ MaxSteps \in Nat /\ MaxElapsed \in Nat
      /\ MaxElapsed <= StepLength * MaxSteps
      /\ pc = "loop" /\ elapsed <= now - time_of_report
      /\ step_time + remaining = time_of_report + elapsed
      /\ steps * StepLength = step_time - time_of_report
  BY AgeAssumption, StepsAssumption DEF AgeInv, Times, Step, WholeSteps
<1>2. d = IF StepLength < remaining THEN StepLength ELSE remaining
  BY UnstretchedStep DEF Smaller
<1>3. d \in Nat /\ d > 0 /\ d <= remaining /\ (d < remaining => d = StepLength)
  BY <1>1, <1>2
<1>4. /\ step_time' = step_time + d /\ remaining' = remaining - d
      /\ steps' = steps + 1 /\ pc' = pc /\ elapsed' = elapsed /\ source' = source
      /\ time_of_report' = time_of_report /\ now' = now
  BY DEF Step, inputs, totals
<1> HIDE DEF d
<1>5. steps < MaxSteps
  <2>1. steps * StepLength \in Nat /\ StepLength * MaxSteps \in Nat
    BY <1>1
  <2>2. steps * StepLength < StepLength * MaxSteps
    <3> DEFINE taken == steps * StepLength
               limit == StepLength * MaxSteps
    <3>1. /\ taken = step_time - time_of_report /\ MaxElapsed <= limit
          /\ taken \in Nat /\ limit \in Nat
      BY <1>1, <2>1
    <3> HIDE DEF taken, limit
    <3>2. taken < limit
      BY <1>1, <3>1
    <3> QED  BY <3>2 DEF taken, limit
  <2> QED  BY <1>1, <2>2, StepsLeft
<1>6. Times'
  BY <1>1, <1>3, <1>4 DEF Times
<1>7. step_time' + remaining' = time_of_report' + elapsed'
  BY <1>1, <1>3, <1>4
<1>8. ASSUME remaining' > 0 PROVE WholeSteps'
  <2>1. d = StepLength
    BY <1>1, <1>3, <1>4, <1>8
  <2>2. (steps + 1) * StepLength = steps * StepLength + StepLength
    BY <1>1
  <2> QED  BY <1>1, <1>4, <2>1, <2>2 DEF WholeSteps
<1> QED  BY <1>1, <1>4, <1>5, <1>6, <1>7, <1>8 DEF AgeInv

(***************************************************************************)
(* The invariant holds of every ageing.                                    *)
(***************************************************************************)
THEOREM AgeInvariant == Spec => []AgeInv
<1>1. Init => AgeInv
  BY AgeAssumption DEF Init, AgeInv, Times
<1>2. AgeInv /\ [Next]_vars => AgeInv'
  <2> SUFFICES ASSUME AgeInv, [Next]_vars PROVE AgeInv'
    OBVIOUS
  <2>1. CASE StartStill
    <3>1. /\ elapsed' \in 0..MaxElapsed
      BY <2>1, AgeAssumption DEF StartStill, Elapsed, Smaller, AgeInv, Times
    <3> QED  BY <2>1, <3>1 DEF StartStill, AgeInv, Times, inputs
  <2>2. CASE Start
    <3>1. /\ time_of_report \in Nat /\ now \in Nat /\ now > time_of_report
          /\ MaxElapsed \in Nat /\ steps = 0 /\ step_time = time_of_report
          /\ steps <= MaxSteps /\ StepLength \in Nat
      BY <2>2, AgeAssumption DEF Start, AgeInv, Times
    <3>2. Elapsed \in 0..MaxElapsed /\ Elapsed <= now - time_of_report
      BY <3>1 DEF Elapsed, Smaller
    <3>3. /\ elapsed' = Elapsed /\ remaining' = Elapsed /\ pc' = "loop"
          /\ UNCHANGED <<time_of_report, now, step_time, steps>>
      BY <2>2 DEF Start, inputs
    <3>4. WholeSteps'
      BY <3>1, <3>3 DEF WholeSteps
    <3> QED  BY <3>1, <3>2, <3>3, <3>4 DEF AgeInv, Times
  <2>3. CASE Step
    BY <2>3, StepKeepsInv
  <2>4. CASE Finish
    BY <2>4 DEF Finish, AgeInv, Times, inputs, totals
  <2>5. CASE UNCHANGED vars
    BY <2>5 DEF vars, AgeInv, Times, WholeSteps, inputs, totals
  <2> QED  BY <2>1, <2>2, <2>3, <2>4, <2>5 DEF Next
<1> QED  BY <1>1, <1>2, PTL DEF Spec

(***************************************************************************)
(* The lookups are for instants before now, the steps add up to the        *)
(* elapsed time, and the last one does not run over (ComputeAgedDatum,     *)
(* datum_age.cpp:169-225).                                                 *)
(***************************************************************************)
THEOREM AgeAddsUp == Spec => []StepsAddUp
<1>1. AgeInv => StepsAddUp
  BY DEF AgeInv, Times, StepsAddUp
<1> QED  BY <1>1, AgeInvariant, PTL

(***************************************************************************)
(* No ageing takes more than kMaxSteps steps or covers more than 30 days,  *)
(* whatever time of report was entered (datum_age.cpp:119-155).            *)
(***************************************************************************)
WithinLimits == steps \in 0..MaxSteps /\ elapsed \in 0..MaxElapsed

THEOREM AgeWithinLimits == Spec => []WithinLimits
<1>1. AgeInv => WithinLimits
  BY AgeAssumption DEF AgeInv, Times, WithinLimits
<1> QED  BY <1>1, AgeInvariant, PTL
-----------------------------------------------------------------------------
(***************************************************************************)
(* The reference trajectory: each of its points is the one that the points *)
(* before it say.  That there is such a function follows from its initial  *)
(* parts, which exist, and agree with each other.                          *)
(***************************************************************************)
Follows(f, n) == \A t \in 0..n : f[t] = Carried(f, t)

LEMMA LeastInstant ==
  ASSUME NEW T, T \subseteq Nat, T # {}
  PROVE  \E m \in T : \A k \in T : m <= k
<1>1. PICK m \in T : \A k \in T : ~(<<k, m>> \in OpToRel(<, Nat))
  BY NatLessThanWellFounded, WFMin
<1>2. ASSUME NEW k \in T PROVE m <= k
  <2>1. ~(k < m)
    BY <1>1 DEF OpToRel
  <2> QED  BY <2>1
<1> QED  BY <1>2

LEMMA StepBeginsBefore ==
  ASSUME NEW t \in Nat, t # 0
  PROVE  StepBegin(t - 1) \in Nat /\ StepBegin(t - 1) < t
<1>1. t - 1 \in Nat /\ StepLength \in Nat \ {0}
  BY AgeAssumption
<1>2. (t - 1) % StepLength \in Nat /\ (t - 1) % StepLength <= t - 1
  BY <1>1
<1> QED  BY <1>2 DEF StepBegin

LEMMA SamePast ==
  ASSUME NEW f, NEW g, NEW t,
         t # 0 => f[StepBegin(t - 1)] = g[StepBegin(t - 1)]
  PROVE  Carried(f, t) = Carried(g, t)
BY DEF Carried

LEMMA PartsAgree ==
  ASSUME NEW f, NEW g, NEW m \in Nat, NEW n \in Nat, Follows(f, m), Follows(g, n)
  PROVE  \A t \in Nat : t <= m /\ t <= n => f[t] = g[t]
<1> DEFINE Apart == {t \in Nat : t <= m /\ t <= n /\ f[t] # g[t]}
<1> SUFFICES ASSUME Apart # {} PROVE FALSE
  OBVIOUS
<1>1. PICK t \in Apart : \A k \in Apart : t <= k
  BY LeastInstant
<1>2. t # 0 => f[StepBegin(t - 1)] = g[StepBegin(t - 1)]
  <2> SUFFICES ASSUME t # 0 PROVE f[StepBegin(t - 1)] = g[StepBegin(t - 1)]
    OBVIOUS
  <2>1. StepBegin(t - 1) \in Nat /\ StepBegin(t - 1) < t
    BY StepBeginsBefore
  <2>2. StepBegin(t - 1) \notin Apart /\ StepBegin(t - 1) <= m /\ StepBegin(t - 1) <= n
    BY <1>1, <2>1
  <2> QED  BY <2>1, <2>2
<1>3. Carried(f, t) = Carried(g, t)
  BY <1>2, SamePast
<1>4. t \in 0..m /\ t \in 0..n
  OBVIOUS
<1> QED  BY <1>3, <1>4 DEF Follows

LEMMA PartsExist ==
  ASSUME NEW n \in Nat
  PROVE  \E f : Follows(f, n)
<1> DEFINE Lacking == {k \in Nat : ~\E f : Follows(f, k)}
<1> SUFFICES ASSUME Lacking # {} PROVE FALSE
  OBVIOUS
<1>1. PICK k \in Lacking : \A j \in Lacking : k <= j
  BY LeastInstant
<1>2. CASE k = 0
  <2> DEFINE f == [t \in 0..0 |-> Carried(<<>>, 0)]
  <2>1. f[0] = Carried(f, 0)
    BY SamePast
  <2>2. Follows(f, 0)
    BY <2>1 DEF Follows
  <2> QED  BY <1>1, <1>2, <2>2
<1>3. CASE k # 0
  <2>1. k - 1 \in Nat /\ k - 1 \notin Lacking
    BY <1>1, <1>3
  <2>2. PICK f : Follows(f, k - 1)
    BY <2>1
  <2> DEFINE g == [t \in 0..k |-> IF t = k THEN Carried(f, k) ELSE f[t]]
  <2>3. ASSUME NEW t \in 0..k PROVE g[t] = Carried(g, t)
    <3>1. g[t] = Carried(f, t)
      <4>1. CASE t = k
        BY <4>1
      <4>2. CASE t # k
        <5>1. t \in 0..(k - 1)
          BY <1>1, <4>2
        <5> QED  BY <2>2, <4>2, <5>1 DEF Follows
      <4> QED  BY <4>1, <4>2
    <3>2. t # 0 => f[StepBegin(t - 1)] = g[StepBegin(t - 1)]
      <4> SUFFICES ASSUME t # 0 PROVE f[StepBegin(t - 1)] = g[StepBegin(t - 1)]
        OBVIOUS
      <4>1. StepBegin(t - 1) \in Nat /\ StepBegin(t - 1) < t
        BY StepBeginsBefore
      <4>2. StepBegin(t - 1) \in 0..k /\ StepBegin(t - 1) # k
        BY <1>1, <4>1
      <4> QED  BY <4>2
    <3> HIDE DEF g
    <3> QED  BY <3>1, <3>2, SamePast
  <2> HIDE DEF g
  <2>4. Follows(g, k)
    BY <2>3 DEF Follows
  <2> QED  BY <1>1, <2>4
<1> QED  BY <1>2, <1>3

LEMMA PathFollows == \A t \in Nat : Path[t] = Carried(Path, t)
<1> DEFINE part(n) == CHOOSE f : Follows(f, n)
           whole == [t \in Nat |-> part(t)[t]]
<1>1. ASSUME NEW n \in Nat PROVE Follows(part(n), n)
  BY PartsExist
<1>2. ASSUME NEW t \in Nat PROVE whole[t] = Carried(whole, t)
  <2>1. whole[t] = part(t)[t] /\ part(t)[t] = Carried(part(t), t)
    BY <1>1 DEF Follows
  <2>2. t # 0 => part(t)[StepBegin(t - 1)] = whole[StepBegin(t - 1)]
    <3> SUFFICES ASSUME t # 0 PROVE part(t)[StepBegin(t - 1)] = whole[StepBegin(t - 1)]
      OBVIOUS
    <3> DEFINE b == StepBegin(t - 1)
    <3>1. b \in Nat /\ b <= t /\ b <= b
      BY StepBeginsBefore
    <3>2. whole[b] = part(b)[b]
      BY <3>1
    <3> HIDE DEF b, whole
    <3>3. Follows(part(t), t) /\ Follows(part(b), b)
      BY <1>1, <3>1
    <3> HIDE DEF part
    <3>4. part(t)[b] = part(b)[b]
      BY <3>1, <3>3, PartsAgree
    <3> QED  BY <3>2, <3>4 DEF b
  <2> HIDE DEF whole, part
  <2> QED  BY <2>1, <2>2, SamePast
<1> HIDE DEF part
<1>3. whole = [t \in Nat |-> Carried(whole, t)]
  BY <1>2
<1> HIDE DEF whole
<1>4. Path = [t \in Nat |-> Carried(Path, t)]
  BY <1>3 DEF Path
<1> QED  BY <1>4

\* As long as what it is made of stays, the trajectory stays.
LEMMA PathStays ==
  ASSUME UNCHANGED <<time_of_report, grib, manual, leeway_applied>>
  PROVE  \A t \in Nat : (Path')[t] = Path[t]
<1>1. (\A t \in Nat : Path[t] = Carried(Path, t))'
  BY PathFollows, PTL
<1> DEFINE Apart == {t \in Nat : (Path')[t] # Path[t]}
<1> SUFFICES ASSUME Apart # {} PROVE FALSE
  OBVIOUS
<1>2. PICK t \in Apart : \A k \in Apart : t <= k
  BY LeastInstant
<1>3. t # 0 => (Path')[StepBegin(t - 1)] = Path[StepBegin(t - 1)]
  BY <1>2, StepBeginsBefore
<1>4. Carried(Path, t)' = Carried(Path, t)
  BY <1>3 DEF Carried, Drift, CurrentAt, LeewayAt, LookupWind, LookupCurrent
<1> QED  BY <1>1, <1>4, PathFollows
-----------------------------------------------------------------------------
(***************************************************************************)
(* The ageing goes along the trajectory.                                   *)
(***************************************************************************)
LEMMA Remainder ==
  ASSUME NEW s \in Nat, NEW l \in Nat \ {0}, NEW r \in 0..(l - 1)
  PROVE  (s * l + r) % l = r
<1> DEFINE x == s * l + r
           q == x \div l
           m == x % l
<1>1. x \in Nat /\ q \in Nat /\ m \in 0..(l - 1) /\ x = l * q + m
  <2>1. s * l \in Nat
    OBVIOUS
  <2>2. x \in Nat
    BY <2>1
  <2> HIDE DEF x
  <2> QED  BY <2>2
<1>2. x = s * l + r
  OBVIOUS
<1> HIDE DEF x, q, m
<1>3. CASE q < s
  <2>1. s = q + 1 + (s - q - 1) /\ s - q - 1 \in Nat
    BY <1>1, <1>3
  <2>2. s * l = l * q + l + (s - q - 1) * l
    BY <1>1, <2>1
  <2>3. (s - q - 1) * l >= 0
    BY <2>1
  <2>4. l * q \in Int /\ s * l \in Int /\ (s - q - 1) * l \in Int
    BY <1>1, <2>1
  <2> QED  BY <1>1, <1>2, <2>2, <2>3, <2>4
<1>4. CASE q > s
  <2>1. q = s + 1 + (q - s - 1) /\ q - s - 1 \in Nat
    BY <1>1, <1>4
  <2>2. l * q = s * l + l + (q - s - 1) * l
    BY <1>1, <2>1
  <2>3. (q - s - 1) * l >= 0
    BY <2>1
  <2>4. l * q \in Int /\ s * l \in Int /\ (q - s - 1) * l \in Int
    BY <1>1, <2>1
  <2> QED  BY <1>1, <1>2, <2>2, <2>3, <2>4
<1>5. CASE q = s
  <2>1. l * q = s * l /\ s * l \in Int
    BY <1>1, <1>5
  <2>2. m = r
    BY <1>1, <1>2, <2>1
  <2> QED  BY <2>2 DEF m, x
<1> QED  BY <1>1, <1>3, <1>4, <1>5

WindAlongPath ==
  /\ source = "grib"
  /\ \A b \in StepsTaken : LookupWind(Path[b].pos, time_of_report + b) # None
CurrentAlongPath ==
  /\ source = "grib"
  /\ \A b \in StepsTaken : LookupCurrent(Path[b].pos, time_of_report + b) # None

AlongPath ==
  /\ pos = Path[step_time - time_of_report].pos
  /\ leeway = Path[step_time - time_of_report].leeway
  /\ wind_every_step \in BOOLEAN /\ (wind_every_step <=> WindAlongPath)
  /\ current_every_step \in BOOLEAN /\ (current_every_step <=> CurrentAlongPath)

PathInv ==
  /\ AgeInv
  /\ step_time - time_of_report \in Nat
  /\ pc = "start" => /\ pos = Reported /\ leeway = 0
                     /\ wind_every_step = FALSE /\ current_every_step = FALSE
  /\ pc # "start" => AlongPath

\* Before the first step.
LEMMA Departure ==
  /\ Path[0].pos = Reported /\ Path[0].leeway = 0
  /\ time_of_report \in Nat /\ step_time = time_of_report =>
       step_time - time_of_report = 0 /\ StepsTaken = {}
<1>1. Path[0] = [pos |-> Reported, leeway |-> 0]
  BY PathFollows DEF Carried
<1> QED  BY <1>1 DEF StepsTaken

\* What a step adds to the trajectory.
LEMMA OneStepOn ==
  ASSUME AgeInv, Step
  PROVE  LET t == step_time - time_of_report
         IN  /\ t \in Nat /\ ThisStep \in Nat /\ step_time = time_of_report + t
             /\ step_time' - time_of_report' = t + ThisStep
             /\ StepsTaken' = StepsTaken \cup {t}
             /\ StepsTaken \subseteq Nat
             /\ t + ThisStep \in Nat /\ t + ThisStep # 0
             /\ StepBegin((t + ThisStep) - 1) = t
<1> DEFINE t == step_time - time_of_report
           d == ThisStep
<1>1. /\ time_of_report \in Nat /\ step_time \in Nat /\ steps \in Nat
      /\ remaining \in Nat /\ remaining > 0 /\ StepLength \in Nat \ {0}
      /\ t = steps * StepLength
      /\ step_time' = step_time + d /\ time_of_report' = time_of_report
  BY AgeAssumption DEF AgeInv, Times, WholeSteps, Step, inputs
<1>2. d = IF StepLength < remaining THEN StepLength ELSE remaining
  BY UnstretchedStep DEF Smaller
<1>3. d \in Nat /\ d > 0 /\ d <= StepLength
  BY <1>1, <1>2
<1> HIDE DEF d
<1>4. t \in Nat /\ t \in Int /\ step_time = time_of_report + t
  <2>1. steps * StepLength \in Nat
    BY <1>1
  <2> QED  BY <1>1, <2>1
<1>5. ASSUME NEW r \in Nat, r < d PROVE (t + r) % StepLength = r
  <2>1. r \in 0..(StepLength - 1)
    BY <1>1, <1>3, <1>5
  <2> QED  BY <1>1, <2>1, Remainder
<1>6. step_time' - time_of_report' = t + d
  BY <1>1, <1>3
<1> HIDE DEF t
<1>7. StepBegin((t + d) - 1) = t
  <2>1. d - 1 \in Nat /\ d - 1 < d /\ (t + d) - 1 = t + (d - 1)
    BY <1>3, <1>4
  <2>2. (t + (d - 1)) % StepLength = d - 1
    BY <1>5, <2>1
  <2> QED  BY <1>3, <1>4, <2>1, <2>2 DEF StepBegin
<1>8. StepsTaken' = {b \in 0..(t + d) : b % StepLength = 0 /\ b < t + d}
  BY <1>6 DEF StepsTaken
<1>9. StepsTaken = {b \in 0..t : b % StepLength = 0 /\ b < t}
  BY DEF StepsTaken, t
<1>10. StepsTaken' = StepsTaken \cup {t}
  <2>1. ASSUME NEW b \in StepsTaken' PROVE b \in StepsTaken \cup {t}
    <3>1. b \in Nat /\ b < t + d /\ b % StepLength = 0
      BY <1>3, <1>4, <1>8
    <3>2. CASE b < t
      BY <1>4, <1>9, <3>1, <3>2
    <3>3. CASE b >= t
      <4>1. b - t \in Nat /\ b - t < d /\ t + (b - t) = b
        BY <1>3, <1>4, <3>1, <3>3
      <4>2. b - t = 0
        BY <1>5, <3>1, <4>1
      <4> QED  BY <4>1, <4>2, <1>4
    <3> QED  BY <1>4, <3>1, <3>2, <3>3
  <2>2. t \in StepsTaken'
    <3>1. (t + 0) % StepLength = 0
      BY <1>3, <1>5
    <3> QED  BY <1>3, <1>4, <1>8, <3>1
  <2>3. StepsTaken \subseteq StepsTaken'
    BY <1>3, <1>4, <1>8, <1>9
  <2> QED  BY <2>1, <2>2, <2>3
<1>11. StepsTaken \subseteq Nat
  BY <1>4, <1>9
<1>12. t + d \in Nat /\ t + d # 0
  BY <1>3, <1>4
<1> QED  BY <1>3, <1>4, <1>6, <1>7, <1>10, <1>11, <1>12 DEF t, d

\* A turn of the loop goes from one point of the trajectory to the next.
LEMMA StepKeepsPath ==
  ASSUME PathInv, Step
  PROVE  AlongPath'
<1> DEFINE t == step_time - time_of_report
           d == ThisStep
<1>1. /\ t \in Nat /\ d \in Nat /\ step_time = time_of_report + t
      /\ step_time' - time_of_report' = t + d
      /\ StepsTaken' = StepsTaken \cup {t} /\ StepsTaken \subseteq Nat
      /\ t + d \in Nat /\ t + d # 0 /\ StepBegin((t + d) - 1) = t
  BY OneStepOn DEF PathInv
<1>2. /\ pos' = pos + Drift(pos, step_time) * d
      /\ leeway' = leeway + LeewayAt(pos, step_time) * d
      /\ wind_every_step' = (wind_every_step /\ LookupWind(pos, step_time) # None)
      /\ current_every_step' = (current_every_step /\ LookupCurrent(pos, step_time) # None)
      /\ UNCHANGED <<time_of_report, grib, manual, leeway_applied, source>>
  BY DEF Step, SampleTime, LeewayStep, StillEvery, inputs, totals
<1>3. AlongPath
  BY DEF PathInv, Step
<1>4. \A n \in Nat : (Path')[n] = Path[n]
  BY <1>2, PathStays
<1> HIDE DEF d
<1>5. pos = Path[t].pos /\ leeway = Path[t].leeway
  BY <1>3 DEF AlongPath
<1> HIDE DEF t
<1>6. /\ (Path')[t + d].pos = pos'
      /\ (Path')[t + d].leeway = leeway'
  <2>1. Path[t + d] = Carried(Path, t + d)
    BY <1>1, PathFollows
  <2>2. (t + d) - t = d
    BY <1>1
  <2>3. /\ Carried(Path, t + d).pos
             = Path[t].pos + Drift(Path[t].pos, time_of_report + t) * ((t + d) - t)
        /\ Carried(Path, t + d).leeway
             = Path[t].leeway + LeewayAt(Path[t].pos, time_of_report + t) * ((t + d) - t)
    BY <1>1 DEF Carried
  <2> QED  BY <1>1, <1>2, <1>4, <1>5, <2>1, <2>2, <2>3
<1>7. ASSUME NEW b \in Nat
      PROVE  /\ LookupWind(Path[b].pos, time_of_report + b)'
                  = LookupWind(Path[b].pos, time_of_report + b)
             /\ LookupCurrent(Path[b].pos, time_of_report + b)'
                  = LookupCurrent(Path[b].pos, time_of_report + b)
  BY <1>2, <1>4 DEF LookupWind, LookupCurrent
<1>8. WindAlongPath' <=> WindAlongPath /\ LookupWind(pos, step_time) # None
  BY <1>1, <1>2, <1>5, <1>7 DEF WindAlongPath
<1>9. CurrentAlongPath' <=> CurrentAlongPath /\ LookupCurrent(pos, step_time) # None
  BY <1>1, <1>2, <1>5, <1>7 DEF CurrentAlongPath
<1>10. wind_every_step' \in BOOLEAN /\ (wind_every_step' <=> WindAlongPath')
  BY <1>2, <1>3, <1>8 DEF AlongPath
<1>11. current_every_step' \in BOOLEAN /\ (current_every_step' <=> CurrentAlongPath')
  BY <1>2, <1>3, <1>9 DEF AlongPath
<1> QED  BY <1>1, <1>6, <1>10, <1>11 DEF AlongPath

THEOREM PathInvariant == Spec => []PathInv
<1>1. Init => PathInv
  <2> SUFFICES ASSUME Init PROVE PathInv
    OBVIOUS
  <2>1. AgeInv
    BY AgeAssumption DEF Init, AgeInv, Times
  <2>2. step_time - time_of_report \in Nat
    BY AgeAssumption DEF Init
  <2> QED  BY <2>1, <2>2 DEF Init, PathInv
<1>2. PathInv /\ AgeInv' /\ [Next]_vars => PathInv'
  <2> SUFFICES ASSUME PathInv, AgeInv', [Next]_vars PROVE PathInv'
    OBVIOUS
  <2>1. (Path[0].pos = Reported /\ Path[0].leeway = 0)'
    BY Departure, PTL
  <2>2. (time_of_report \in Nat /\ step_time = time_of_report =>
           step_time - time_of_report = 0 /\ StepsTaken = {})'
    BY Departure, PTL
  <2>3. CASE StartStill
    <3>1. /\ time_of_report' \in Nat /\ step_time' = time_of_report' /\ source' = "none"
          /\ pos' = Reported /\ leeway' = 0 /\ pc' = "done"
          /\ wind_every_step' = FALSE /\ current_every_step' = FALSE
      BY <2>3 DEF StartStill, PathInv, AgeInv, Times, inputs, flags
    <3>2. ~WindAlongPath' /\ ~CurrentAlongPath'
      BY <3>1 DEF WindAlongPath, CurrentAlongPath
    <3>3. AlongPath'
      BY <2>1, <2>2, <3>1, <3>2 DEF AlongPath
    <3>4. step_time' - time_of_report' \in Nat
      <4>1. step_time' - time_of_report' = 0
        BY <2>2, <3>1
      <4> QED  BY <4>1
    <3>5. pc' # "start"
      BY <3>1
    <3> QED  BY <3>3, <3>4, <3>5 DEF PathInv
  <2>4. CASE Start
    <3>1. /\ time_of_report' \in Nat /\ step_time' = time_of_report'
          /\ source' = IF grib # None THEN "grib" ELSE "manual"
          /\ pos' = Reported /\ leeway' = 0 /\ pc' = "loop"
          /\ wind_every_step' = (grib # None) /\ current_every_step' = (grib # None)
      BY <2>4 DEF Start, PathInv, AgeInv, Times, inputs
    <3>2. WindAlongPath' = (grib # None) /\ CurrentAlongPath' = (grib # None)
      BY <2>2, <3>1 DEF WindAlongPath, CurrentAlongPath
    <3>3. AlongPath'
      BY <2>1, <2>2, <3>1, <3>2 DEF AlongPath
    <3>4. step_time' - time_of_report' \in Nat
      <4>1. step_time' - time_of_report' = 0
        BY <2>2, <3>1
      <4> QED  BY <4>1
    <3>5. pc' # "start"
      BY <3>1
    <3> QED  BY <3>3, <3>4, <3>5 DEF PathInv
  <2>5. CASE Step
    <3>1. step_time' - time_of_report' \in Nat
      BY <2>5, OneStepOn DEF PathInv
    <3> QED  BY <2>5, <3>1, StepKeepsPath DEF PathInv, Step
  <2>6. CASE Finish \/ UNCHANGED vars
    <3>1. /\ UNCHANGED <<time_of_report, grib, manual, leeway_applied, source, step_time>>
          /\ UNCHANGED <<pos, leeway, wind_every_step, current_every_step>>
          /\ pc = "start" <=> pc' = "start"
      BY <2>6 DEF Finish, vars, inputs, totals, flags
    <3>2. \A n \in Nat : (Path')[n] = Path[n]
      BY <3>1, PathStays
    <3>3. StepsTaken' = StepsTaken /\ step_time' - time_of_report' = step_time - time_of_report
      BY <3>1 DEF StepsTaken
    <3>4. StepsTaken \subseteq Nat
      BY DEF StepsTaken
    <3>5. ASSUME NEW b \in Nat
          PROVE  /\ LookupWind(Path[b].pos, time_of_report + b)'
                      = LookupWind(Path[b].pos, time_of_report + b)
                 /\ LookupCurrent(Path[b].pos, time_of_report + b)'
                      = LookupCurrent(Path[b].pos, time_of_report + b)
      BY <3>1, <3>2 DEF LookupWind, LookupCurrent
    <3>6. (WindAlongPath' <=> WindAlongPath) /\ (CurrentAlongPath' <=> CurrentAlongPath)
      BY <3>1, <3>3, <3>4, <3>5 DEF WindAlongPath, CurrentAlongPath
    <3>7. ASSUME AlongPath PROVE AlongPath'
      BY <3>1, <3>2, <3>3, <3>6, <3>7 DEF AlongPath, PathInv
    <3> QED  BY <3>1, <3>3, <3>7 DEF PathInv
  <2> QED  BY <2>3, <2>4, <2>5, <2>6 DEF Next
<1> QED  BY <1>1, <1>2, AgeInvariant, PTL DEF Spec

(***************************************************************************)
(* Ageing a report to any time gives a point of one and the same           *)
(* trajectory, for every file, drift and step length (ComputeAgedDatum,    *)
(* datum_age.cpp:169-225, which the solver calls for ever later times).    *)
(***************************************************************************)
THEOREM AgesAlongOnePath == Spec => []OnOneTrajectory
<1>1. PathInv => OnOneTrajectory
  BY DEF PathInv, AlongPath, OnOneTrajectory
<1> QED  BY <1>1, PathInvariant, PTL

(***************************************************************************)
(* The two flags tell of every step of the trajectory, whichever step      *)
(* found nothing (datum_age.cpp:178-190).                                  *)
(***************************************************************************)
THEOREM FlagsAreTrue == Spec => []FlagsTellEveryStep
<1>1. PathInv => FlagsTellEveryStep
  BY DEF PathInv, AlongPath, WindAlongPath, CurrentAlongPath, FlagsTellEveryStep
<1> QED  BY <1>1, PathInvariant, PTL

(***************************************************************************)
(* The leeway that is summed is that of the trajectory taken, whether or   *)
(* not it was applied to it (datum_age.cpp:187-190).                       *)
(***************************************************************************)
THEOREM LeewayIsSummed == Spec => []LeewayAlongPath
<1>1. PathInv => LeewayAlongPath
  BY DEF PathInv, AlongPath, LeewayAlongPath, AgeInv
<1> QED  BY <1>1, PathInvariant, PTL
-----------------------------------------------------------------------------
(***************************************************************************)
(* Type correctness.  A file's tables hold, wherever and whenever they are *)
(* asked, a number or nothing.                                             *)
(***************************************************************************)
TablesOfNumbers ==
  \A g \in Gribs, p \in Int, t \in Nat :
    /\ g.wind[Region(p), Period(t)] \in Int \cup {None}
    /\ g.current[Region(p), Period(t)] \in Int \cup {None}

Placed ==
  /\ time_of_report \in Reports /\ now \in Nows
  /\ grib \in Gribs \cup {None} /\ manual \in Drifts \cup {None}
  /\ pos \in Int /\ leeway \in Int
  /\ remaining <= MaxElapsed
  /\ source \in {"none", "manual", "grib"}
  /\ pc = "loop" => grib # None \/ manual # None

LEMMA DriftsAreNumbers ==
  ASSUME TablesOfNumbers, Placed, NEW t \in Nat, grib # None \/ manual # None
  PROVE  Drift(pos, t) \in Int /\ LeewayAt(pos, t) \in Int
<1>1. CASE grib = None
  BY <1>1, AgeAssumption DEF Drift, LeewayAt, Placed
<1>2. CASE grib # None
  <2>1. /\ grib.wind[Region(pos), Period(t)] \in Int \cup {None}
        /\ grib.current[Region(pos), Period(t)] \in Int \cup {None}
    BY <1>2 DEF Placed, TablesOfNumbers
  <2>2. LookupWind(pos, t) \in Int \cup {None} /\ LookupCurrent(pos, t) \in Int \cup {None}
    BY <2>1 DEF LookupWind, LookupCurrent
  <2>3. CurrentAt(pos, t) \in Int
    BY <2>2 DEF CurrentAt
  <2>4. LeewayAt(pos, t) \in Int
    BY <2>2, AgeAssumption DEF LeewayAt
  <2> QED  BY <1>2, <2>3, <2>4 DEF Drift
<1> QED  BY <1>1, <1>2

(***************************************************************************)
(* Whatever the file holds, the ageing ends in a position and within its   *)
(* limits.                                                                 *)
(***************************************************************************)
THEOREM AgeTypeCorrect == ASSUME TablesOfNumbers PROVE Spec => []TypeOK
<1>1. Init => Placed
  BY AgeAssumption DEF Init, Placed, Reported
<1>2. AgeInv /\ Placed /\ [Next]_vars => Placed'
  <2> SUFFICES ASSUME AgeInv, Placed, [Next]_vars PROVE Placed'
    OBVIOUS
  <2>1. CASE StartStill \/ Finish \/ UNCHANGED vars
    BY <2>1 DEF StartStill, Finish, vars, Placed, inputs, totals, flags
  <2>2. CASE Start
    <3>1. Elapsed <= MaxElapsed
      BY AgeAssumption DEF AgeInv, Times, Elapsed, Smaller
    <3> QED  BY <2>2, <3>1 DEF Start, Placed, inputs
  <2>3. CASE Step
    <3>1. ThisStep \in Nat
      BY <2>3, OneStepOn
    <3>2. Drift(pos, step_time) \in Int /\ LeewayAt(pos, step_time) \in Int
      BY <2>3, DriftsAreNumbers DEF Step, Placed, AgeInv, Times
    <3>3. pos' \in Int /\ leeway' \in Int
      BY <2>3, <3>1, <3>2 DEF Step, SampleTime, LeewayStep, Placed
    <3>4. remaining' = remaining - ThisStep /\ remaining \in Nat /\ MaxElapsed \in Nat
      BY <2>3, AgeAssumption DEF Step, AgeInv, Times
    <3>5. remaining' <= MaxElapsed
      BY <3>1, <3>4 DEF Placed
    <3> QED  BY <2>3, <3>3, <3>5 DEF Step, Placed, inputs, totals
  <2> QED  BY <2>1, <2>2, <2>3 DEF Next
<1>3. AgeInv /\ Placed => TypeOK
  <2> SUFFICES ASSUME AgeInv, Placed PROVE TypeOK
    OBVIOUS
  <2>1. remaining \in 0..MaxElapsed
    BY AgeAssumption DEF AgeInv, Times, Placed
  <2> QED  BY <2>1, AgeAssumption DEF AgeInv, Times, Placed, TypeOK
<1> QED  BY <1>1, <1>2, <1>3, AgeInvariant, PTL DEF Spec
-----------------------------------------------------------------------------
(***************************************************************************)
(* The uncertainty: how roots and products grow.                           *)
(***************************************************************************)
\* What grows factor by factor grows.
LEMMA ProductGrows ==
  ASSUME NEW a \in Nat, NEW b \in Nat, NEW c \in Nat, NEW d \in Nat, a <= b, c <= d
  PROVE  a * c <= b * d
<1>1. b = a + (b - a) /\ b - a \in Nat /\ d = c + (d - c) /\ d - c \in Nat
  OBVIOUS
<1>2. b * d = a * c + a * (d - c) + (b - a) * d
  BY <1>1
<1>3. a * (d - c) \in Nat /\ (b - a) * d \in Nat
  BY <1>1
<1>4. a * c \in Nat /\ b * d \in Nat
  OBVIOUS
<1> QED  BY <1>2, <1>3, <1>4

LEMMA SquareGrows ==
  ASSUME NEW a \in Nat, NEW b \in Nat, a <= b
  PROVE  Square(a) <= Square(b) /\ Square(a) \in Nat
<1>1. a * a <= b * b /\ a * a \in Nat
  BY ProductGrows
<1> QED  BY <1>1 DEF Square

(***************************************************************************)
(* The square root, rounded down, exists within a bound whose successor's  *)
(* square is beyond the number.                                            *)
(***************************************************************************)
LEMMA RootExists ==
  ASSUME NEW n \in Nat, NEW bound \in Nat, n < Square(bound + 1)
  PROVE  /\ Root(n, bound) \in Nat
         /\ Square(Root(n, bound)) <= n /\ n < Square(Root(n, bound) + 1)
<1> DEFINE Beyond == {k \in Nat : n < Square(k + 1)}
<1>1. PICK m \in Beyond : \A k \in Beyond : m <= k
  BY LeastInstant
<1>2. m \in 0..bound /\ n < Square(m + 1)
  BY <1>1
<1>3. Square(m) <= n
  <2>1. CASE m = 0
    BY <2>1 DEF Square
  <2>2. CASE m # 0
    <3>1. m - 1 \in Nat /\ m - 1 \notin Beyond
      BY <1>1, <2>2
    <3>2. Square((m - 1) + 1) = Square(m) /\ Square(m) \in Nat
      BY <1>2 DEF Square
    <3> QED  BY <3>1, <3>2
  <2> QED  BY <2>1, <2>2
<1>4. \E r \in 0..bound : Square(r) <= n /\ n < Square(r + 1)
  BY <1>2, <1>3
<1> QED  BY <1>4 DEF Root

LEMMA RootGrows ==
  ASSUME NEW n \in Nat, NEW c \in Nat, n < Square(c + 1),
         NEW m \in Nat, NEW d \in Nat, m < Square(d + 1), n <= m
  PROVE  Root(n, c) <= Root(m, d)
<1>1. /\ Root(n, c) \in Nat /\ Square(Root(n, c)) <= n
      /\ Root(m, d) \in Nat /\ m < Square(Root(m, d) + 1)
  BY RootExists
<1> SUFFICES ASSUME Root(m, d) + 1 <= Root(n, c) PROVE FALSE
  BY <1>1
<1>2. Square(Root(m, d) + 1) <= Square(Root(n, c))
  BY <1>1, SquareGrows
<1>3. Square(Root(m, d) + 1) \in Nat /\ Square(Root(n, c)) \in Nat
  BY <1>1, SquareGrows
<1> QED  BY <1>1, <1>2, <1>3
-----------------------------------------------------------------------------
(***************************************************************************)
(* What ageing with a file leaves; leeway may be on or off.                *)
(***************************************************************************)
Aged == [source : {"grib", "manual"}, wind_every_step : BOOLEAN,
         current_every_step : BOOLEAN, leeway_applied : BOOLEAN, leeway : Int]

\* Steps add up: a is an earlier state of b, or knows as much at least.
KnowsMore(a, b) ==
  /\ a.source = b.source /\ a.leeway_applied = b.leeway_applied
  /\ b.wind_every_step => a.wind_every_step
  /\ b.current_every_step => a.current_every_step

LEMMA DriftErrors ==
  ASSUME NEW a \in Aged
  PROVE  DriftVelocityError(a) \in Nat /\ DriftVelocityError(a) <= 5000
<1>1. /\ WindError(a) \in {0, 30} /\ CurrentError(a) \in {30, 50}
      /\ LeewayError(a) = IF WindError(a) = 30 THEN 30 ELSE 50
  BY DEF WindError, LeewayError, CurrentError, KnownError, UnknownError
<1>2. Square(0) = 0 /\ Square(30) = 900 /\ Square(50) = 2500
  BY DEF Square
<1> QED  BY <1>1, <1>2 DEF DriftVelocityError

LEMMA LessKnownDriftErrors ==
  ASSUME NEW a \in Aged, NEW b \in Aged, KnowsMore(a, b)
  PROVE  DriftVelocityError(a) <= DriftVelocityError(b)
BY DEF Aged, KnowsMore, DriftVelocityError, WindError, LeewayError, CurrentError,
   WindKnown, KnownError, UnknownError, Square

\* With leeway switched off the wind counts as unknown.
LEMMA LeewayOffDriftErrors ==
  ASSUME NEW a \in Aged
  PROVE  /\ WithoutLeeway(a) \in Aged
         /\ DriftVelocityError(a) <= DriftVelocityError(WithoutLeeway(a))
<1>1. /\ WithoutLeeway(a) \in Aged /\ ~WithoutLeeway(a).leeway_applied
      /\ WithoutLeeway(a).source = a.source
      /\ WithoutLeeway(a).current_every_step = a.current_every_step
  BY DEF Aged, WithoutLeeway
<1>2. CurrentError(WithoutLeeway(a)) = CurrentError(a)
  BY <1>1 DEF CurrentError
<1>3. WindError(WithoutLeeway(a)) = 0 /\ LeewayError(WithoutLeeway(a)) = UnknownError
  BY <1>1 DEF WindError, LeewayError, WindKnown
<1>4. Square(WindError(a)) + Square(LeewayError(a)) <= Square(0) + Square(UnknownError)
  BY DEF WindError, LeewayError, KnownError, UnknownError, Square
<1>5. Square(WindError(a)) \in Nat /\ Square(LeewayError(a)) \in Nat
      /\ Square(CurrentError(a)) \in Nat /\ Square(UnknownError) \in Nat /\ Square(0) \in Nat
  BY DEF WindError, LeewayError, CurrentError, KnownError, UnknownError, Square
<1> QED  BY <1>1, <1>2, <1>3, <1>4, <1>5 DEF DriftVelocityError

\* The radicand of ProbableError and its root's bound.
LEMMA ErrorHasRoot ==
  ASSUME NEW a \in Aged, NEW h \in Nat
  PROVE  LET n == Square(InitialError) + Square(h) * DriftVelocityError(a)
             bound == InitialError + 2 * UnknownError * h
         IN  n \in Nat /\ bound \in Nat /\ n < Square(bound + 1)
<1> DEFINE e == DriftVelocityError(a)
<1>1. e \in Nat /\ e <= 5000
  BY DriftErrors
<1> HIDE DEF e
<1>2. Square(h) \in Nat
  BY SquareGrows
<1>3. Square(h) * e \in Nat /\ Square(h) * e <= Square(h) * 5000
  BY <1>1, <1>2, ProductGrows
<1>4. Square(100 + 100 * h + 1) = 10201 + 20200 * h + 10000 * Square(h)
  BY DEF Square
<1>5. 100 + 100 * h \in Nat /\ 20200 * h \in Nat
  OBVIOUS
<1>6. InitialError + 2 * UnknownError * h = 100 + 100 * h /\ Square(InitialError) = 10000
  BY DEF InitialError, UnknownError, Square
<1>7. 10000 + Square(h) * e < 10201 + 20200 * h + 10000 * Square(h)
  BY <1>2, <1>3, <1>5
<1> QED  BY <1>2, <1>3, <1>4, <1>5, <1>6, <1>7 DEF e

LEMMA ErrorGrows ==
  ASSUME NEW a \in Aged, NEW b \in Aged, NEW h \in Nat, NEW k \in Nat,
         DriftVelocityError(a) <= DriftVelocityError(b), h <= k
  PROVE  /\ ProbableError(a, h) \in Nat /\ ProbableError(b, k) \in Nat
         /\ ProbableError(a, h) <= ProbableError(b, k)
<1>1. DriftVelocityError(a) \in Nat /\ DriftVelocityError(b) \in Nat
  BY DriftErrors
<1>2. Square(h) \in Nat /\ Square(k) \in Nat /\ Square(h) <= Square(k)
  BY SquareGrows
<1>3. Square(h) * DriftVelocityError(a) <= Square(k) * DriftVelocityError(b)
  BY <1>1, <1>2, ProductGrows
<1> DEFINE n == Square(InitialError) + Square(h) * DriftVelocityError(a)
           m == Square(InitialError) + Square(k) * DriftVelocityError(b)
           c == InitialError + 2 * UnknownError * h
           d == InitialError + 2 * UnknownError * k
<1>4. n \in Nat /\ c \in Nat /\ n < Square(c + 1)
  BY ErrorHasRoot
<1>5. m \in Nat /\ d \in Nat /\ m < Square(d + 1)
  BY ErrorHasRoot
<1>6. n <= m
  <2>1. Square(InitialError) \in Nat
    BY DEF InitialError, Square
  <2>2. Square(h) * DriftVelocityError(a) \in Nat /\ Square(k) * DriftVelocityError(b) \in Nat
    BY <1>1, <1>2
  <2> QED  BY <1>3, <2>1, <2>2
<1> HIDE DEF n, m, c, d
<1>7. Root(n, c) \in Nat /\ Root(m, d) \in Nat /\ Root(n, c) <= Root(m, d)
  BY <1>4, <1>5, <1>6, RootExists, RootGrows
<1> QED  BY <1>7 DEF ProbableError, n, m, c, d

\* A larger leeway diverges more.
LEMMA DivergenceGrows ==
  ASSUME NEW a \in Aged, NEW b \in Aged, NEW c \in Crafts,
         b.leeway_applied, Magnitude(a.leeway) <= Magnitude(b.leeway)
  PROVE  /\ Divergence(a, c) \in Nat /\ Divergence(b, c) \in Nat
         /\ Divergence(a, c) <= Divergence(b, c)
<1>1. Magnitude(a.leeway) \in Nat /\ Magnitude(b.leeway) \in Nat
  BY DEF Aged, Magnitude
<1>2. CASE c = "wooden"
  BY <1>1, <1>2 DEF Divergence, DivergencePercent
<1>3. CASE c # "wooden"
  BY <1>1, <1>3 DEF Divergence, DivergencePercent
<1> QED  BY <1>2, <1>3
-----------------------------------------------------------------------------
(***************************************************************************)
(* Rings against rings.                                                    *)
(***************************************************************************)
\* As the loop of the ageing leaves it: leeway is summed in any case.
Applied(a) == a \in Aged /\ a.source = "grib" /\ a.leeway_applied

\* With leeway the ring is the error and the divergence.
LEMMA RingApplied ==
  ASSUME NEW a, Applied(a), NEW h \in Nat, NEW c \in Crafts
  PROVE  Radius(a, h, c) = ProbableError(a, h) + Divergence(a, c)
BY DEF Applied, Radius, RingWithout

(***************************************************************************)
(* Without it the ring covers the one with leeway, which lies the leeway   *)
(* away, and its own error.                                                *)
(***************************************************************************)
LEMMA RingUnapplied ==
  ASSUME NEW a, Applied(a), NEW h \in Nat, NEW c \in Crafts
  PROVE  LET off == WithoutLeeway(a)
         IN  /\ Radius(off, h, c) >= Magnitude(a.leeway) + Radius(a, h, c)
             /\ Radius(off, h, c) >= ProbableError(off, h)
             /\ Radius(off, h, c) \in {Magnitude(a.leeway) + Radius(a, h, c),
                                      ProbableError(off, h)}
<1> DEFINE off == WithoutLeeway(a)
<1>1. /\ off \in Aged /\ off.source = "grib" /\ ~off.leeway_applied
      /\ off.leeway = a.leeway /\ [off EXCEPT !.leeway_applied = TRUE] = a
  BY DEF Applied, Aged, WithoutLeeway
<1>2. /\ ProbableError(a, h) \in Nat /\ ProbableError(off, h) \in Nat
      /\ ProbableError(a, h) <= ProbableError(off, h)
  BY <1>1, LeewayOffDriftErrors, ErrorGrows DEF Applied
<1>3. Divergence(a, c) \in Nat /\ Magnitude(a.leeway) \in Nat
  BY DivergenceGrows DEF Applied, Aged, Magnitude
<1>4. Covering(off, h, c) = Magnitude(a.leeway) + Radius(a, h, c)
  BY <1>1, RingApplied DEF Covering, RingWithout
<1>5. RingWithout(off, h, c) = ProbableError(off, h)
  BY <1>1, <1>2 DEF RingWithout, Divergence
<1>6. Radius(a, h, c) = ProbableError(a, h) + Divergence(a, c)
  BY RingApplied
<1>7. CASE a.leeway # 0
  BY <1>1, <1>2, <1>3, <1>4, <1>5, <1>6, <1>7 DEF Radius
<1>8. CASE a.leeway = 0
  <2>1. Magnitude(a.leeway) = 0 /\ Divergence(a, c) = 0
    BY <1>8 DEF Magnitude, Divergence, DivergencePercent
  <2>2. Radius(off, h, c) = ProbableError(off, h)
    BY <1>1, <1>5, <1>8 DEF Radius
  <2> QED  BY <1>2, <1>6, <2>1, <2>2
<1> QED  BY <1>7, <1>8

\* Less known, later and not nearer: no smaller, with leeway and without.
LEMMA RingGrows ==
  ASSUME NEW a, Applied(a), NEW b, Applied(b), NEW h \in Nat, NEW k \in Nat,
         NEW c \in Crafts, KnowsMore(a, b), h <= k,
         Magnitude(a.leeway) <= Magnitude(b.leeway)
  PROVE  /\ Radius(a, h, c) <= Radius(b, k, c)
         /\ Radius(WithoutLeeway(a), h, c) <= Radius(WithoutLeeway(b), k, c)
<1>1. a \in Aged /\ b \in Aged /\ b.leeway_applied
  BY DEF Applied
<1>2. /\ ProbableError(a, h) \in Nat /\ ProbableError(b, k) \in Nat
      /\ ProbableError(a, h) <= ProbableError(b, k)
  BY <1>1, LessKnownDriftErrors, ErrorGrows
<1>3. /\ Divergence(a, c) \in Nat /\ Divergence(b, c) \in Nat
      /\ Divergence(a, c) <= Divergence(b, c)
  BY <1>1, DivergenceGrows
<1>4. Radius(a, h, c) <= Radius(b, k, c) /\ Radius(a, h, c) \in Nat /\ Radius(b, k, c) \in Nat
  BY <1>2, <1>3, RingApplied
<1> DEFINE offa == WithoutLeeway(a)
           offb == WithoutLeeway(b)
<1>5. offa \in Aged /\ offb \in Aged /\ KnowsMore(offa, offb)
  BY <1>1 DEF KnowsMore, WithoutLeeway, Aged
<1>6. /\ ProbableError(offa, h) \in Nat /\ ProbableError(offb, k) \in Nat
      /\ ProbableError(offa, h) <= ProbableError(offb, k)
  BY <1>5, LessKnownDriftErrors, ErrorGrows
<1>7. Magnitude(a.leeway) \in Nat /\ Magnitude(b.leeway) \in Nat
  BY <1>1 DEF Aged, Magnitude
<1>8. /\ Radius(offa, h, c) \in {Magnitude(a.leeway) + Radius(a, h, c), ProbableError(offa, h)}
      /\ Radius(offb, k, c) \in {Magnitude(b.leeway) + Radius(b, k, c), ProbableError(offb, k)}
      /\ Radius(offb, k, c) >= Magnitude(b.leeway) + Radius(b, k, c)
      /\ Radius(offb, k, c) >= ProbableError(offb, k)
  BY RingUnapplied
<1> HIDE DEF offa, offb
<1>9. Radius(offa, h, c) <= Radius(offb, k, c)
  BY <1>4, <1>6, <1>7, <1>8
<1> QED  BY <1>4, <1>9 DEF offa, offb
-----------------------------------------------------------------------------
(***************************************************************************)
(* The inductive invariant: the flags tell of the gaps, and without a gap  *)
(* in the wind the two ageings have summed the same leeway.                *)
(***************************************************************************)
AgedInv ==
  /\ craft \in Crafts /\ hours \in Nat /\ gaps \subseteq {"wind", "current"}
  /\ Applied(full) /\ full.wind_every_step /\ full.current_every_step
  /\ Applied(holed)
  /\ holed.wind_every_step <=> "wind" \notin gaps
  /\ holed.current_every_step <=> "current" \notin gaps
  /\ "wind" \notin gaps => holed.leeway = full.leeway

\* An hour leaves an ageing that knows no more than before.
LEMMA StepEffect ==
  ASSUME NEW a, Applied(a), NEW wind \in Winds, NEW lacking \in SUBSET {"wind", "current"}
  PROVE  LET b == HourOn(a, wind, lacking)
         IN  /\ Applied(b) /\ KnowsMore(a, b)
             /\ b.wind_every_step <=> (a.wind_every_step /\ "wind" \notin lacking)
             /\ b.current_every_step <=> (a.current_every_step /\ "current" \notin lacking)
             /\ b.leeway = IF "wind" \in lacking THEN a.leeway
                           ELSE a.leeway - LeewaySpeed(craft, wind)
<1>1. LeewaySpeed(craft, wind) \in Int
  <2>1. wind * 40 \in Int /\ wind * 36 \in Int
    BY WindsAssumption
  <2>2. (wind * 40) \div 10 \in Int /\ (wind * 36) \div 10 \in Int
    BY <2>1
  <2>3. LeewaySpeed(craft, wind) \in {(wind * 40) \div 10, (wind * 36) \div 10}
    BY DEF LeewaySpeed
  <2> QED  BY <2>2, <2>3
<1> DEFINE l == IF "wind" \in lacking THEN a.leeway ELSE a.leeway - LeewaySpeed(craft, wind)
           w == a.wind_every_step /\ "wind" \notin lacking
           c == a.current_every_step /\ "current" \notin lacking
<1>2. a \in Aged /\ a.source = "grib" /\ a.leeway_applied
  BY DEF Applied
<1>3. HourOn(a, wind, lacking)
        = [a EXCEPT !.leeway = l, !.wind_every_step = w, !.current_every_step = c]
  BY DEF HourOn
<1>4. l \in Int /\ w \in BOOLEAN /\ c \in BOOLEAN
  BY <1>1, <1>2 DEF Aged
<1>5. (w => a.wind_every_step) /\ (c => a.current_every_step)
  OBVIOUS
<1> HIDE DEF l, w, c
<1>6. LET b == HourOn(a, wind, lacking)
      IN  /\ b \in Aged /\ b.source = a.source /\ b.leeway_applied = a.leeway_applied
          /\ b.wind_every_step = w /\ b.current_every_step = c /\ b.leeway = l
  BY <1>2, <1>3, <1>4 DEF Aged
<1> QED  BY <1>2, <1>5, <1>6 DEF Applied, KnowsMore, l, w, c

LEMMA HourEffect ==
  ASSUME AgedInv, NEW wind \in Winds, NEW lacking \in SUBSET {"wind", "current"},
         AgeAnHour(wind, lacking)
  PROVE  /\ AgedInv' /\ hours' = hours + 1 /\ craft' = craft
         /\ KnowsMore(full, full') /\ KnowsMore(holed, holed')
<1>1. /\ Applied(full') /\ KnowsMore(full, full')
      /\ full'.wind_every_step /\ full'.current_every_step
      /\ full'.leeway = full.leeway - LeewaySpeed(craft, wind)
  BY StepEffect DEF AgeAnHour, AgedInv
<1>2. /\ Applied(holed') /\ KnowsMore(holed, holed')
      /\ holed'.wind_every_step <=> "wind" \notin gaps'
      /\ holed'.current_every_step <=> "current" \notin gaps'
      /\ "wind" \notin lacking => holed'.leeway = holed.leeway - LeewaySpeed(craft, wind)
  BY StepEffect DEF AgeAnHour, AgedInv
<1>3. /\ craft' = craft /\ hours' = hours + 1 /\ hours' \in Nat
      /\ gaps' = gaps \cup lacking /\ gaps' \subseteq {"wind", "current"}
  BY DEF AgeAnHour, AgedInv
<1> QED  BY <1>1, <1>2, <1>3 DEF AgedInv

THEOREM AgedInvariant == RingSpec => []AgedInv
<1>1. RingInit => AgedInv
  BY DEF RingInit, AgedInv, FromGrib, Applied, Aged
<1>2. AgedInv /\ [RingNext]_rings => AgedInv'
  <2>1. ASSUME AgedInv, RingNext PROVE AgedInv'
    BY <2>1, HourEffect DEF RingNext
  <2>2. ASSUME AgedInv, UNCHANGED rings PROVE AgedInv'
    BY <2>2 DEF rings, AgedInv, Applied
  <2> QED  BY <2>1, <2>2
<1> QED  BY <1>1, <1>2, PTL DEF RingSpec

(***************************************************************************)
(* Switching leeway off never makes the result look more certain, for any  *)
(* wind history, with or without gaps in the data (datum_age.h:171-173).   *)
(***************************************************************************)
THEOREM LeewayOffAlwaysCovers == RingSpec => []LeewayOffCovers
<1>1. AgedInv => LeewayOffCovers
  BY RingUnapplied DEF AgedInv, LeewayOffCovers
<1> QED  BY <1>1, AgedInvariant, PTL

(***************************************************************************)
(* What is missing widens the error, and narrows the ring by no more than  *)
(* the divergence (datum_age.h:167).                                       *)
(***************************************************************************)
THEOREM GapsAlwaysWiden == RingSpec => []GapsWiden
<1>1. AgedInv => GapsWiden
  <2> SUFFICES ASSUME AgedInv PROVE GapsWiden
    OBVIOUS
  <2>1. /\ Applied(full) /\ Applied(holed) /\ full \in Aged /\ holed \in Aged
        /\ KnowsMore(full, holed) /\ craft \in Crafts /\ hours \in Nat
    BY DEF AgedInv, Applied, KnowsMore
  <2>2. DriftVelocityError(holed) >= DriftVelocityError(full)
    BY <2>1, LessKnownDriftErrors, DriftErrors
  <2>3. Square(0) = 0 /\ Square(30) = 900 /\ Square(50) = 2500
    BY DEF Square
  <2>4. /\ DriftVelocityError(full) = 2700 /\ DriftVelocityError(FromOperator) = 5000
        /\ gaps # {} => DriftVelocityError(holed) > 2700
        /\ DriftVelocityError(holed) <= 5000
    <3>1. DriftVelocityError(full) = 2700
      BY <2>3 DEF AgedInv, Applied, DriftVelocityError, WindError, CurrentError,
         LeewayError, WindKnown, KnownError
    <3>2. DriftVelocityError(FromOperator) = 5000
      BY <2>3 DEF FromOperator, DriftVelocityError, WindError, CurrentError,
         LeewayError, WindKnown, UnknownError
    <3>3. gaps # {} => ~holed.wind_every_step \/ ~holed.current_every_step
      BY DEF AgedInv
    <3>4. ~holed.wind_every_step => DriftVelocityError(holed) > 2700
      BY <2>3 DEF DriftVelocityError, WindError, CurrentError, LeewayError,
         WindKnown, KnownError, UnknownError
    <3>5. ~holed.current_every_step => DriftVelocityError(holed) > 2700
      BY <2>3 DEF DriftVelocityError, WindError, CurrentError, LeewayError,
         WindKnown, KnownError, UnknownError
    <3> QED  BY <2>1, <3>1, <3>2, <3>3, <3>4, <3>5, DriftErrors
  <2>5. gaps = {"current"} => Radius(holed, hours, craft) >= Radius(full, hours, craft)
    <3>1. ASSUME gaps = {"current"} PROVE Magnitude(full.leeway) <= Magnitude(holed.leeway)
      BY <2>1, <3>1 DEF AgedInv, Aged, Magnitude
    <3>2. ASSUME gaps = {"current"}
          PROVE  Radius(full, hours, craft) <= Radius(holed, hours, craft)
      BY <2>1, <3>1, <3>2, RingGrows
    <3> QED  BY <3>2
  <2>6. Radius(holed, hours, craft) >= Radius(full, hours, craft) - Divergence(full, craft)
    <3>1. /\ ProbableError(full, hours) \in Nat /\ ProbableError(holed, hours) \in Nat
          /\ ProbableError(full, hours) <= ProbableError(holed, hours)
      BY <2>1, LessKnownDriftErrors, ErrorGrows
    <3>2. Divergence(full, craft) \in Nat /\ Divergence(holed, craft) \in Nat
      <4>1. ASSUME NEW a \in {full, holed}
            PROVE  Divergence(a, craft) \in Nat
        <5>1. Magnitude(a.leeway) <= Magnitude(a.leeway)
          BY <2>1 DEF Aged, Magnitude
        <5> QED  BY <2>1, <5>1, DivergenceGrows DEF Applied
      <4> QED  BY <4>1
    <3> QED  BY <2>1, <3>1, <3>2, RingApplied
  <2> QED  BY <2>2, <2>4, <2>5, <2>6 DEF GapsWiden
<1> QED  BY <1>1, AgedInvariant, PTL

(***************************************************************************)
(* The ring never shrinks from one hour to the next, unless the wind takes *)
(* the target back (USER_GUIDE.md:195).                                    *)
(***************************************************************************)
THEOREM RingAlwaysGrowsOutward == RingSpec => RingGrowsOutward
<1>1. ASSUME AgedInv, RingNext
      PROVE  Outward(full, full', hours, hours') /\ Outward(holed, holed', hours, hours')
  <2> PICK wind \in Winds, lacking \in SUBSET {"wind", "current"} : AgeAnHour(wind, lacking)
    BY <1>1 DEF RingNext
  <2>1. /\ AgedInv' /\ hours' = hours + 1 /\ craft' = craft
        /\ KnowsMore(full, full') /\ KnowsMore(holed, holed')
    BY <1>1, HourEffect
  <2>2. /\ Applied(full) /\ Applied(full') /\ Applied(holed) /\ Applied(holed')
        /\ craft \in Crafts /\ hours \in Nat /\ hours' \in Nat /\ hours <= hours'
    BY <1>1, <2>1 DEF AgedInv
  <2>3. ASSUME NEW a, NEW b, Applied(a), Applied(b), KnowsMore(a, b)
        PROVE  Outward(a, b, hours, hours')
    <3>1. Magnitude(a.leeway) \in Nat /\ Magnitude(b.leeway) \in Nat
      BY <2>3 DEF Applied, Aged, Magnitude
    <3> SUFFICES ASSUME Magnitude(b.leeway) >= Magnitude(a.leeway)
                 PROVE  /\ Radius(b, hours', craft) >= Radius(a, hours, craft)
                        /\ Radius(WithoutLeeway(b), hours', craft)
                             >= Radius(WithoutLeeway(a), hours, craft)
      BY DEF Outward
    <3>2. /\ Radius(a, hours, craft) <= Radius(b, hours', craft)
          /\ Radius(WithoutLeeway(a), hours, craft) <= Radius(WithoutLeeway(b), hours', craft)
      BY <2>2, <2>3, <3>1, RingGrows
    <3> QED  BY <3>2
  <2> QED  BY <2>1, <2>2, <2>3
<1>2. ASSUME AgedInv, [RingNext]_rings
      PROVE  [Outward(full, full', hours, hours') /\ Outward(holed, holed', hours, hours')]_rings
  BY <1>1, <1>2
<1>3. AgedInv /\ [RingNext]_rings
        => [Outward(full, full', hours, hours') /\ Outward(holed, holed', hours, hours')]_rings
  BY <1>2
<1> QED  BY <1>3, AgedInvariant, PTL DEF RingSpec, RingGrowsOutward
=============================================================================
