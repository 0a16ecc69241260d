------------------------- MODULE RecalculationProofs -------------------------
(***************************************************************************)
(* What is proved of a recalculation, for every text, any own-ship on the  *)
(* report's meridian or with a "nan" for a position, any drift the solver  *)
(* allows for and any age of the report: the rows, the chart and the case  *)
(* are of one mind.                                                        *)
(***************************************************************************)
EXTENDS Recalculation, PositionParseProofs

Numbers == [finite : BOOLEAN, v : Int]
Spots   == [lat : Numbers, lon : Numbers]

(***************************************************************************)
(* Whatever is typed, a coordinate that is accepted is a number, or the    *)
(* NaN that counts as one.                                                 *)
(***************************************************************************)
LEMMA ArithmeticStays ==
  ASSUME NEW a \in Numbers, NEW b \in Numbers, NEW k \in Int
  PROVE  Plus(a, b) \in Numbers /\ Times(k, a) \in Numbers
<1>1. a.v + b.v \in Int /\ k * a.v \in Int
  BY DEF Numbers
<1> QED  BY <1>1 DEF Plus, Times, Number, NaN, Numbers

LEMMA NumeralsAreNumbers ==
  ASSUME NEW token, IsNumber(token)
  PROVE  ParseNumber(token) \in Numbers
<1>1. CASE Len(token) = 1 /\ token[1] \in Numerals
  <2>1. Value[token[1]] \in Int
    BY <1>1, ValueAssumption DEF Numerals
  <2> QED  BY <1>1, <2>1 DEF ParseNumber, Number, Numbers
<1>2. CASE token = <<"N", "A", "N">>
  BY <1>2 DEF ParseNumber, NaN, Numbers
<1> QED  BY <1>1, <1>2 DEF IsNumber

LEMMA TowardsStays ==
  ASSUME NEW letter, NEW a \in Numbers, NEW is_latitude
  PROVE  /\ Towards(letter, a) \in Numbers
         /\ InRange(a, is_latitude).ok => InRange(a, is_latitude).degrees = a
<1>1. Towards(letter, a) \in Numbers
  BY ArithmeticStays DEF Towards
<1>2. InRange(a, is_latitude).ok => InRange(a, is_latitude).degrees = a
  BY DEF InRange, Refused, Accepted
<1> QED  BY <1>1, <1>2

\* Either form is refused, or is its number if that is in range.
LEMMA FormsOfDegrees ==
  ASSUME NEW value, NEW values, NEW letter, NEW is_latitude
  PROVE  LET dd  == Towards(letter, Times(3600, value))
             dms == Towards(letter, Plus(Times(3600, values[1]),
                                         Plus(Times(60, values[2]), SecondsOf(values))))
         IN  /\ DecimalDegrees(value, letter, is_latitude)
                  \in {Refused("sign"), InRange(dd, is_latitude)}
             /\ DegreesMinutes(values, letter, is_latitude)
                  \in {Refused("hemisphere"), Refused("sign"), Refused("minutes"),
                       Refused("seconds"), Refused("degrees"), InRange(dms, is_latitude)}
BY DEF DecimalDegrees, DegreesMinutes

LEMMA AcceptedStays ==
  ASSUME NEW a \in Numbers, NEW is_latitude, NEW result, result.ok,
         result \in {Refused("hemisphere"), Refused("sign"), Refused("minutes"),
                    Refused("seconds"), Refused("degrees"), InRange(a, is_latitude)}
  PROVE  result.degrees \in Numbers
<1>1. /\ ~Refused("hemisphere").ok /\ ~Refused("sign").ok /\ ~Refused("minutes").ok
      /\ ~Refused("seconds").ok /\ ~Refused("degrees").ok
  BY DEF Refused
<1>2. result = InRange(a, is_latitude)
  BY <1>1
<1> QED  BY <1>2, TowardsStays

LEMMA CoordinatesAreNumbers ==
  ASSUME NEW s, NEW is_latitude, ParseCoordinate(s, is_latitude).ok
  PROVE  ParseCoordinate(s, is_latitude).degrees \in Numbers
<1> DEFINE tokens  == Tokens(s)
           letter  == ExtractHemisphere(tokens)
           numbers == WithoutHemisphere(tokens)
           values  == [i \in DOMAIN numbers |-> ParseNumber(numbers[i])]
           parsed  == ParseCoordinate(s, is_latitude)
<1>1. ~Refused("empty").ok /\ ~Refused("letter").ok /\ ~Refused("axis").ok
      /\ ~Refused("count").ok /\ ~Refused("number").ok
  BY DEF Refused
<1>2. /\ DOMAIN numbers \in {1..1, 1..2, 1..3}
      /\ \A i \in DOMAIN numbers : IsNumber(numbers[i])
      /\ parsed = IF 2 \notin DOMAIN numbers
                  THEN DecimalDegrees(values[1], letter, is_latitude)
                  ELSE DegreesMinutes(values, letter, is_latitude)
  <2> HIDE DEF tokens, letter, numbers, values
  <2>1. parsed = IF tokens = <<>> THEN Refused("empty")
      ELSE IF letter = "A" THEN Refused("letter")
      ELSE IF letter # "none" /\ (letter \in {"N", "S"}) # is_latitude THEN Refused("axis")
      ELSE IF DOMAIN numbers \notin {1..1, 1..2, 1..3} THEN Refused("count")
      ELSE IF \E i \in DOMAIN numbers : ~IsNumber(numbers[i]) THEN Refused("number")
      ELSE IF 2 \notin DOMAIN numbers THEN DecimalDegrees(values[1], letter, is_latitude)
      ELSE DegreesMinutes(values, letter, is_latitude)
    BY DEF ParseCoordinate, tokens, letter, numbers, values
  <2>2. parsed.ok
    OBVIOUS
  <2> HIDE DEF parsed
  <2> QED  BY <1>1, <2>1, <2>2
<1>3. /\ 1 \in DOMAIN values /\ DOMAIN values = DOMAIN numbers
      /\ \A i \in DOMAIN values : values[i] \in Numbers
  <2>1. \A i \in DOMAIN numbers : ParseNumber(numbers[i]) \in Numbers
    BY <1>2, NumeralsAreNumbers
  <2> QED  BY <1>2, <2>1
<1> HIDE DEF tokens, letter, numbers, values
<1> DEFINE dd  == Towards(letter, Times(3600, values[1]))
           dms == Towards(letter, Plus(Times(3600, values[1]),
                                       Plus(Times(60, values[2]), SecondsOf(values))))
<1>4. CASE 2 \notin DOMAIN numbers
  <2>1. dd \in Numbers
    BY <1>3, ArithmeticStays, TowardsStays
  <2>2. parsed \in {Refused("sign"), InRange(dd, is_latitude)}
    BY <1>2, <1>4, FormsOfDegrees
  <2> HIDE DEF dd
  <2> QED  BY <2>1, <2>2, AcceptedStays
<1>5. CASE 2 \in DOMAIN numbers
  <2>1. SecondsOf(values) \in Numbers
    BY <1>3 DEF SecondsOf, Number, Numbers
  <2>2. Plus(Times(3600, values[1]), Plus(Times(60, values[2]), SecondsOf(values))) \in Numbers
    BY <1>3, <1>5, <2>1, ArithmeticStays
  <2>3. dms \in Numbers
    BY <2>2, TowardsStays
  <2>4. parsed \in {Refused("hemisphere"), Refused("sign"), Refused("minutes"),
                    Refused("seconds"), Refused("degrees"), InRange(dms, is_latitude)}
    BY <1>2, <1>5, FormsOfDegrees
  <2> HIDE DEF dms
  <2> QED  BY <2>3, <2>4, AcceptedStays
<1> QED  BY <1>4, <1>5

LEMMA PositionsAreSpots ==
  ASSUME NEW s, ParsePos(s).ok
  PROVE  ParsePos(s).lat \in Numbers /\ ParsePos(s).lon \in Numbers
BY CoordinatesAreNumbers DEF ParsePos
-----------------------------------------------------------------------------
(***************************************************************************)
(* Along the meridian.                                                     *)
(***************************************************************************)
LEMMA NorthStays ==
  ASSUME NEW p \in Spots, NEW d \in Int
  PROVE  /\ North(p, d) \in Spots
         /\ FiniteAt(North(p, d)) <=> FiniteAt(p)
         /\ FiniteAt(p) => North(p, d).lat.v = p.lat.v + d
<1>1. Number(d) \in Numbers
  BY DEF Number, Numbers
<1>2. p.lat \in Numbers /\ p.lon \in Numbers
  BY DEF Spots
<1>3. Plus(p.lat, Number(d)) \in Numbers
  BY <1>1, <1>2, ArithmeticStays
<1>4. /\ Plus(p.lat, Number(d)).finite <=> p.lat.finite
      /\ p.lat.finite => Plus(p.lat, Number(d)).v = p.lat.v + d
  BY <1>2 DEF Plus, Number, NaN, Numbers
<1> QED  BY <1>2, <1>3, <1>4 DEF North, At, Spots, FiniteAt

LEMMA NorthTwice ==
  ASSUME NEW p \in Spots, NEW d \in Int, NEW e \in Int
  PROVE  North(North(p, d), e) = North(p, d + e)
<1>1. p.lat \in Numbers
  BY DEF Spots
<1>2. Plus(Plus(p.lat, Number(d)), Number(e)) = Plus(p.lat, Number(d + e))
  <2>1. CASE p.lat.finite
    <3>1. Plus(p.lat, Number(d)) = Number(p.lat.v + d)
      BY <2>1 DEF Plus, Number
    <3>2. Plus(Number(p.lat.v + d), Number(e)) = Number((p.lat.v + d) + e)
      BY DEF Plus, Number
    <3>3. Plus(p.lat, Number(d + e)) = Number(p.lat.v + (d + e))
      BY <2>1 DEF Plus, Number
    <3>4. (p.lat.v + d) + e = p.lat.v + (d + e)
      BY <1>1 DEF Numbers
    <3> QED  BY <3>1, <3>2, <3>3, <3>4
  <2>2. CASE ~p.lat.finite
    BY <2>2 DEF Plus, Number, NaN
  <2> QED  BY <2>1, <2>2
<1> QED  BY <1>2 DEF North, At

\* A place that is finite is drawn where it is.
LEMMA FiniteStays ==
  ASSUME NEW p \in Spots, FiniteAt(p)
  PROVE  Finite(p) = p
<1>1. /\ p.lat \in Numbers /\ p.lon \in Numbers /\ p.lat.finite /\ p.lon.finite
      /\ p = [lat |-> p.lat, lon |-> p.lon]
  BY DEF Spots, FiniteAt
<1>2. Number(p.lat.v) = p.lat /\ Number(p.lon.v) = p.lon
  BY <1>1 DEF Number, Numbers
<1> QED  BY <1>1, <1>2 DEF Finite, At

LEMMA MagnitudeOfProduct ==
  ASSUME NEW r \in Int, NEW h \in Nat
  PROVE  Magnitude(r * h) = Magnitude(r) * h
<1>1. CASE r < 0
  <2>1. (-r) * h = -(r * h) /\ (-r) * h \in Nat /\ r * h \in Int
    BY <1>1
  <2> QED  BY <1>1, <2>1 DEF Magnitude
<1>2. CASE r >= 0
  <2>1. r * h \in Nat
    BY <1>2
  <2> QED  BY <1>2, <2>1 DEF Magnitude
<1> QED  BY <1>1, <1>2

LEMMA LeastHour ==
  ASSUME NEW S, S \subseteq Nat, S # {}
  PROVE  Min(S) \in S /\ \A h \in S : Min(S) <= h
BY LeastOfSome DEF Min
-----------------------------------------------------------------------------
(***************************************************************************)
(* What holds of every case that has been calculated, and of what is made  *)
(* of it.                                                                  *)
(***************************************************************************)
Drifted(k) ==
  /\ k.at \in Spots /\ k.age \in Int /\ AgeingDrift(k) \in Int
  /\ k.grib # {} => k.grib = {AgeingDrift(k)}
  /\ k.grib = {} => DriftRow(k).rate = AgeingDrift(k) /\ DriftRow(k).from # "GRIB"
  /\ k.aged = AgedDatum(k, 0) /\ k.elapsed = DriftTime(k, 0)

Solved(k, o) ==
  /\ o # None /\ Above(o.sog, 0)
  /\ k.eta \in Meetings(k, o) /\ \A h \in Meetings(k, o) : k.eta <= h
  /\ k.intercept = TargetAt(k, k.eta)
  /\ k.leg = CourseToSteer(o.at, k.intercept)

CaseFacts(k, o) ==
  /\ Drifted(k)
  /\ o # None => o.at \in Spots
  /\ k.intercept_solved => Solved(k, o)

RunInv == c # None => /\ CaseFacts(c, own)
                      /\ rows = ShowOutputs(c, own)
                      /\ route = UpdateCourseRoute(c, own)

\* The drift depends on nothing that a run adds to the case.
LEMMA SameTrajectory ==
  ASSUME NEW k, NEW j, k.at = j.at, k.age = j.age, k.grib = j.grib,
         k.has_manual_drift = j.has_manual_drift, k.manual_set = j.manual_set,
         k.manual_drift_kt = j.manual_drift_kt
  PROVE  /\ AgeingDrift(k) = AgeingDrift(j) /\ DriftRow(k) = DriftRow(j)
         /\ \A h : DriftTime(k, h) = DriftTime(j, h) /\ AgedDatum(k, h) = AgedDatum(j, h)
         /\ \A o : Meetings(k, o) = Meetings(j, o)
<1>1. AgeingDrift(k) = AgeingDrift(j) /\ DriftRow(k) = DriftRow(j)
  BY DEF AgeingDrift, DriftRow
<1>2. \A h : DriftTime(k, h) = DriftTime(j, h) /\ AgedDatum(k, h) = AgedDatum(j, h)
  BY <1>1 DEF AgedDatum, DriftTime
<1>3. \A o : Meetings(k, o) = Meetings(j, o)
  BY <1>2 DEF Meetings, TargetAt
<1> QED  BY <1>1, <1>2, <1>3

\* The solver's answer is the first meeting.
LEMMA SolvesForFirst ==
  ASSUME NEW k, NEW o, NEW spent \in BOOLEAN, o # None, Drifted(k), ~k.intercept_solved,
         k \in [DOMAIN k -> {k[f] : f \in DOMAIN k}],
         {"at", "age", "grib", "has_manual_drift", "manual_set", "manual_drift_kt", "aged",
          "elapsed", "intercept_solved", "eta", "intercept", "leg"} \subseteq DOMAIN k
  PROVE  LET j == SolveIntercept(k, o, spent)
         IN  /\ j.at = k.at /\ Drifted(j)
             /\ j.intercept_solved => Solved(j, o)
<1> DEFINE h == Min(Meetings(k, o))
           j == SolveIntercept(k, o, spent)
<1> DEFINE gives_up == ~Above(o.sog, 0) \/ Meetings(k, o) = {}
                         \/ (spent /\ 0 \notin Meetings(k, o))
<1>1. CASE gives_up
  BY <1>1 DEF SolveIntercept
<1>2. CASE ~gives_up
  <2>1. Meetings(k, o) \subseteq Nat
    BY RecalculationAssumption DEF Meetings
  <2>2. h \in Meetings(k, o) /\ \A g \in Meetings(k, o) : h <= g
    BY <1>2, <2>1, LeastHour
  <2>3. j = [k EXCEPT !.intercept_solved = TRUE, !.eta = h, !.intercept = TargetAt(k, h),
                      !.leg = CourseToSteer(o.at, TargetAt(k, h))]
    BY <1>2 DEF SolveIntercept
  <2> HIDE DEF h, j
  <2>4. /\ j.at = k.at /\ j.age = k.age /\ j.grib = k.grib /\ j.elapsed = k.elapsed
        /\ j.has_manual_drift = k.has_manual_drift /\ j.manual_set = k.manual_set
        /\ j.manual_drift_kt = k.manual_drift_kt /\ j.aged = k.aged
        /\ j.eta = h /\ j.intercept = TargetAt(k, h)
        /\ j.leg = CourseToSteer(o.at, TargetAt(k, h))
    BY <2>3
  <2>5. /\ AgeingDrift(j) = AgeingDrift(k) /\ DriftRow(j) = DriftRow(k)
        /\ AgedDatum(j, 0) = AgedDatum(k, 0) /\ AgedDatum(j, h) = AgedDatum(k, h)
        /\ DriftTime(j, 0) = DriftTime(k, 0)
        /\ Meetings(j, o) = Meetings(k, o)
    BY <2>4, SameTrajectory
  <2>6. Drifted(j)
    BY <2>4, <2>5 DEF Drifted
  <2>7. Solved(j, o)
    BY <1>2, <2>2, <2>4, <2>5 DEF Solved, TargetAt
  <2> QED  BY <2>4, <2>6, <2>7 DEF j
<1> QED  BY <1>1, <1>2

LEMMA RunEffect ==
  ASSUME NEW at \in Spots, NEW age \in Ages, NEW grib \in {{}} \cup {{s} : s \in Streams},
         NEW set \in {-1, 1}, NEW rate \in Rates, NEW o \in OwnShips(at),
         NEW spent \in BOOLEAN, Recalculate(Inputs(at, age, grib, set, rate), o, spent)
  PROVE  RunInv'
<1> DEFINE k == Inputs(at, age, grib, set, rate)
           dated == FinalizeDatum(k)
           solved == IF o = None THEN dated ELSE SolveIntercept(dated, o, spent)
<1>1. /\ k.at = at /\ k.age = age /\ k.grib = grib
      /\ k.has_manual_drift = (rate > 0) /\ k.manual_set = set /\ k.manual_drift_kt = rate
      /\ ~k.intercept_solved
  BY DEF Inputs
<1>2. /\ dated = [k EXCEPT !.aged = AgedDatum(k, 0), !.elapsed = DriftTime(k, 0)]
      /\ DOMAIN k = {"at", "age", "grib", "has_manual_drift", "manual_set",
                     "manual_drift_kt", "aged", "elapsed", "intercept_solved", "intercept",
                     "eta", "leg"}
  BY DEF FinalizeDatum, Inputs
<1>3. /\ dated.at = at /\ dated.age = age /\ dated.grib = grib
      /\ dated.has_manual_drift = (rate > 0) /\ dated.manual_set = set
      /\ dated.manual_drift_kt = rate /\ ~dated.intercept_solved
      /\ dated.aged = AgedDatum(k, 0) /\ dated.elapsed = DriftTime(k, 0)
      /\ DOMAIN dated = DOMAIN k
  BY <1>1, <1>2
<1> HIDE DEF k
<1>4. AgedDatum(dated, 0) = AgedDatum(k, 0) /\ DriftTime(dated, 0) = DriftTime(k, 0)
  BY <1>1, <1>3, SameTrajectory
<1> HIDE DEF dated
<1>5. Drifted(dated)
  <2>1. age \in Int /\ rate \in Int /\ set * rate \in Int /\ (~(rate > 0) => rate = 0)
    BY RecalculationAssumption DEF kMaxTargetSpeedKt
  <2>2. CASE grib = {}
    <3>1. /\ AgeingDrift(dated) = IF rate > 0 THEN set * rate ELSE 0
          /\ DriftRow(dated).rate = IF rate > 0 THEN set * rate ELSE 0
          /\ DriftRow(dated).from # "GRIB"
      BY <1>3, <2>2 DEF AgeingDrift, DriftRow
    <3> QED  BY <1>3, <1>4, <2>1, <2>2, <3>1 DEF Drifted
  <2>3. ASSUME NEW s \in Streams, grib = {s} PROVE Drifted(dated)
    <3>1. AgeingDrift(dated) = s
      BY <1>3, <2>3 DEF AgeingDrift
    <3> QED  BY <1>3, <1>4, <2>1, <2>3, <3>1, RecalculationAssumption DEF Drifted, kMaxTargetSpeedKt
  <2> QED  BY <2>2, <2>3
<1>6. o # None => o.at \in Spots
  <2>1. Finite(at) \in Spots /\ NaN \in Numbers
    BY DEF Finite, At, Number, NaN, Spots, Numbers
  <2>2. ASSUME NEW d \in Offsets PROVE North(Finite(at), Mile * d) \in Spots
    <3>1. Mile * d \in Int
      BY RecalculationAssumption DEF Mile
    <3> QED  BY <2>1, <3>1, NorthStays
  <2>3. At(NaN, Finite(at).lon) \in Spots /\ At(Finite(at).lat, NaN) \in Spots
    BY <2>1 DEF At, Spots
  <2> QED  BY <2>2, <2>3 DEF OwnShips, OwnPlaces
<1>7. CaseFacts(solved, o)
  <2>1. CASE o = None
    BY <1>3, <1>5, <2>1 DEF CaseFacts
  <2>2. CASE o # None
    <3>1. LET j == SolveIntercept(dated, o, spent)
          IN  j.at = dated.at /\ Drifted(j) /\ (j.intercept_solved => Solved(j, o))
      <4>1. dated \in [DOMAIN dated -> {dated[f] : f \in DOMAIN dated}]
        BY <1>2
      <4>2. {"at", "age", "grib", "has_manual_drift", "manual_set", "manual_drift_kt", "aged",
             "elapsed", "intercept_solved", "eta", "intercept", "leg"} \subseteq DOMAIN dated
        BY <1>2, <1>3
      <4> QED  BY <1>3, <1>5, <2>2, <4>1, <4>2, SolvesForFirst
    <3> QED  BY <1>3, <1>6, <2>2, <3>1 DEF CaseFacts
  <2> QED  BY <2>1, <2>2
<1>8. /\ c' = solved /\ own' = o
      /\ rows' = ShowOutputs(solved, o) /\ route' = UpdateCourseRoute(solved, o)
  BY DEF Recalculate, solved, dated, k
<1> HIDE DEF solved
<1> QED  BY <1>7, <1>8 DEF RunInv
-----------------------------------------------------------------------------
(***************************************************************************)
(* Every case that has been calculated is one that the code can make, and  *)
(* rows and course are made of it and of the same own-ship.                *)
(***************************************************************************)
THEOREM RunInvariant == Spec => []RunInv
<1>1. Init => RunInv
  BY DEF Init, RunInv
<1>2. RunInv /\ [Next]_vars => RunInv'
  <2> SUFFICES ASSUME RunInv, [Next]_vars PROVE RunInv'
    OBVIOUS
  <2>1. ASSUME NEW t, NEW p, Writes(t, p) PROVE RunInv'
    BY <2>1 DEF Writes, RunInv
  <2>2. ASSUME NEW ch \in Characters, Type(ch) PROVE RunInv'
    BY <2>1, <2>2 DEF Type
  <2>3. CASE Enter
    BY <2>1, <2>3 DEF Enter, Join
  <2>4. CASE Copy
    BY <2>1, <2>4 DEF Copy
  <2>5. CASE Run
    <3> DEFINE p == ParsePos(text)
    <3>1. p.ok /\ \E age \in Ages, grib \in {{}} \cup {{s} : s \in Streams},
                     set \in {-1, 1}, rate \in Rates, o \in OwnShips(At(p.lat, p.lon)),
                     spent \in BOOLEAN :
                       Recalculate(Inputs(At(p.lat, p.lon), age, grib, set, rate), o, spent)
      BY <2>5 DEF Run
    <3>2. At(p.lat, p.lon) \in Spots
      BY <3>1, PositionsAreSpots DEF At, Spots
    <3> HIDE DEF p
    <3> QED  BY <3>1, <3>2, RunEffect
  <2>6. CASE UNCHANGED vars
    BY <2>6 DEF vars, RunInv
  <2> QED  BY <2>2, <2>3, <2>4, <2>5, <2>6 DEF Next
<1> QED  BY <1>1, <1>2, PTL DEF Spec
-----------------------------------------------------------------------------
(***************************************************************************)
(* Consequences of the invariant.                                          *)
(***************************************************************************)
LEMMA TargetsAreSpots ==
  ASSUME NEW k, Drifted(k), NEW h \in Int
  PROVE  /\ AgedDatum(k, h) \in Spots
         /\ FiniteAt(AgedDatum(k, h)) <=> FiniteAt(k.at)
<1>1. DriftTime(k, h) \in Int /\ AgeingDrift(k) \in Int /\ k.at \in Spots
  BY RecalculationAssumption DEF Drifted, DriftTime
<1>2. Mile * AgeingDrift(k) * DriftTime(k, h) \in Int
  BY <1>1 DEF Mile
<1> QED  BY <1>1, <1>2, NorthStays DEF AgedDatum

\* From the estimate on, the target drifts at its rate, up to the cap.
LEMMA DriftsOn ==
  ASSUME NEW k, Drifted(k), k.age >= 0, NEW h \in Nat
  PROVE  LET left == MaxElapsed - k.age
         IN  TargetAt(k, h) = North(k.aged, Mile * AgeingDrift(k) *
                                (IF left < 0 THEN 0 ELSE IF h > left THEN left ELSE h))
<1> DEFINE rate == Mile * AgeingDrift(k)
           left == MaxElapsed - k.age
           more == IF left < 0 THEN 0 ELSE IF h > left THEN left ELSE h
           sofar == DriftTime(k, 0)
<1>1. k.at \in Spots /\ k.age \in Nat /\ rate \in Int /\ MaxElapsed \in Nat
  BY RecalculationAssumption DEF Drifted, Mile
<1>2. sofar \in Nat /\ more \in Nat /\ DriftTime(k, h) = sofar + more
  BY <1>1 DEF DriftTime
<1>3. k.aged = North(k.at, rate * sofar) /\ TargetAt(k, h) = North(k.at, rate * (sofar + more))
  BY <1>2 DEF Drifted, TargetAt, AgedDatum
<1> HIDE DEF rate, sofar, more
<1>4. /\ rate * sofar \in Int /\ rate * more \in Int
      /\ rate * (sofar + more) = rate * sofar + rate * more
  BY <1>1, <1>2
<1>5. North(North(k.at, rate * sofar), rate * more) = North(k.at, rate * (sofar + more))
  BY <1>1, <1>4, NorthTwice
<1> QED  BY <1>3, <1>5 DEF rate, more

LEMMA RowsOfCase ==
  ASSUME RunInv, c # None, own # None
  PROVE  /\ rows.course = CourseRows(c, own)
         /\ HasEta <=> c.intercept_solved
         /\ route.drawn /\ (route.mark <=> c.intercept_solved)
<1>1. rows.course = CourseRows(c, own) /\ route = UpdateCourseRoute(c, own)
  BY DEF RunInv, ShowOutputs
<1>2. HasEta <=> c.intercept_solved
  BY <1>1 DEF HasEta, CourseRows
<1>3. route.drawn /\ route.mark = c.intercept_solved
  BY <1>1 DEF UpdateCourseRoute
<1> QED  BY <1>1, <1>2, <1>3

(***************************************************************************)
(* Without a speed, 0 or unknown, there is no ETA, and the row says why,   *)
(* whatever the target does.                                               *)
(***************************************************************************)
THEOREM NoSpeedNoEta == Spec => []EtaNeedsSpeed
<1>1. RunInv => EtaNeedsSpeed
  <2> SUFFICES ASSUME RunInv, c # None, own # None, ~Above(own.sog, 0)
               PROVE  ~HasEta /\ ~route.mark /\ rows.course.why = "speed_not_set"
    BY DEF EtaNeedsSpeed
  <2>1. ~c.intercept_solved
    BY DEF RunInv, CaseFacts, Solved
  <2> QED  BY <2>1, RowsOfCase DEF CourseRows
<1> QED  BY <1>1, RunInvariant, PTL

(***************************************************************************)
(* Rows and chart, which decide it separately, tell the same course, with  *)
(* or without own-ship, a speed, and an intercept, between a report and an *)
(* own-ship that are places; and always agree on whether there is one, and *)
(* whether it meets the target.                                            *)
(***************************************************************************)
THEOREM RowsAndChartAgree == Spec => []RowsTellTheChart
<1>1. RunInv => RowsTellTheChart
  <2> SUFFICES ASSUME RunInv, c # None PROVE RowsTellTheChart
    BY DEF RowsTellTheChart
  <2>1. CASE own = None
    <3>1. rows.course = [why |-> "no_own_ship"] /\ route = [drawn |-> FALSE]
      BY <2>1 DEF RunInv, ShowOutputs, CourseRows, UpdateCourseRoute
    <3> QED  BY <2>1, <3>1 DEF RowsTellTheChart, HasEta
  <2>2. CASE own # None
    <3> DEFINE end == IF c.intercept_solved THEN c.intercept ELSE c.aged
    <3>1. CaseFacts(c, own) /\ Drifted(c)
      BY DEF RunInv, CaseFacts
    <3>2. own.at \in Spots
      BY <2>2, <3>1 DEF CaseFacts
    <3>3. end \in Spots /\ (FiniteAt(end) <=> FiniteAt(c.at))
      <4>1. CASE c.intercept_solved
        <5>1. c.eta \in Int /\ c.intercept = AgedDatum(c, c.eta)
          BY <3>1, <4>1 DEF CaseFacts, Solved, Meetings, TargetAt
        <5> QED  BY <3>1, <4>1, <5>1, TargetsAreSpots
      <4>2. CASE ~c.intercept_solved
        <5>1. c.aged = AgedDatum(c, 0)
          BY <3>1 DEF Drifted
        <5> QED  BY <3>1, <4>2, <5>1, TargetsAreSpots
      <4> QED  BY <4>1, <4>2
    <3>4. rows.course.to = end /\ rows.course.leg = CourseToSteer(own.at, end)
      <4>1. CASE c.intercept_solved
        <5>1. c.leg = CourseToSteer(own.at, c.intercept)
          BY <3>1, <4>1 DEF CaseFacts, Solved
        <5> QED  BY <2>2, <4>1, <5>1, RowsOfCase DEF CourseRows
      <4>2. CASE ~c.intercept_solved
        BY <2>2, <4>2, RowsOfCase DEF CourseRows
      <4> QED  BY <4>1, <4>2
    <3>5. route.from = Finite(own.at) /\ route.to = Finite(end)
      BY <2>2 DEF RunInv, UpdateCourseRoute
    <3> HIDE DEF end
    <3>6. FiniteAt(c.at) /\ FiniteAt(own.at) => route.from = own.at /\ route.to = end
      BY <3>2, <3>3, <3>5, FiniteStays
    <3> QED  BY <2>2, <3>4, <3>6, RowsOfCase DEF RowsTellTheChart
  <2> QED  BY <2>1, <2>2
<1> QED  BY <1>1, RunInvariant, PTL

(***************************************************************************)
(* The intercept is where the estimate will have drifted by the ETA, or by *)
(* the age at which the model stops it, own-ship can be there by then, and *)
(* could not an hour earlier.                                              *)
(***************************************************************************)
THEOREM MeetsWhereItDrifts == Spec => []MeetsDriftingTarget
<1>1. RunInv => MeetsDriftingTarget
  <2> SUFFICES ASSUME RunInv, c # None, c.intercept_solved PROVE MeetsDriftingTarget
    BY DEF MeetsDriftingTarget
  <2>1. Drifted(c) /\ Solved(c, own)
    BY DEF RunInv, CaseFacts
  <2>2. /\ c.eta \in 0..Cap /\ c.intercept = TargetAt(c, c.eta)
        /\ Reaches(own, c.intercept, c.eta)
    BY <2>1 DEF Solved, Meetings, Reaches
  <2>3. c.eta \in Nat
    BY <2>2, RecalculationAssumption
  <2> DEFINE left == MaxElapsed - c.age
             drifting(h) == IF left < 0 THEN 0 ELSE IF h > left THEN left ELSE h
             estimate(h) == North(c.aged, Mile * AgeingDrift(c) * drifting(h))
  <2>4. ASSUME c.age >= 0, NEW h \in Nat PROVE TargetAt(c, h) = estimate(h)
    BY <2>1, <2>4, DriftsOn
  <2> HIDE DEF estimate
  <2>5. ASSUME c.age >= 0, c.eta > 0
        PROVE  ~Reaches(own, estimate(c.eta - 1), c.eta - 1)
    <3>1. c.eta - 1 \in Nat /\ c.eta - 1 \in 0..Cap /\ ~(c.eta <= c.eta - 1)
      BY <2>2, <2>3, <2>5, RecalculationAssumption
    <3>2. c.eta - 1 \notin Meetings(c, own)
      BY <2>1, <3>1 DEF Solved
    <3>3. ~Reaches(own, TargetAt(c, c.eta - 1), c.eta - 1)
      BY <3>1, <3>2 DEF Meetings, Reaches
    <3> QED  BY <2>4, <2>5, <3>1, <3>3
  <2> QED  BY <2>2, <2>3, <2>4, <2>5 DEF MeetsDriftingTarget, estimate
<1> QED  BY <1>1, RunInvariant, PTL

(***************************************************************************)
(* The drift row names the drift that took the report to the estimate in   *)
(* the hours of the elapsed row.                                           *)
(***************************************************************************)
THEOREM DriftRowIsTrue == Spec => []DriftRowTellsDrift
<1>1. RunInv => DriftRowTellsDrift
  <2> SUFFICES ASSUME RunInv, c # None, FiniteAt(c.at) PROVE DriftRowTellsDrift
    BY DEF DriftRowTellsDrift
  <2> DEFINE hours == c.elapsed
             drift == AgeingDrift(c)
             rates == IF rows.drift.from = "GRIB" THEN c.grib ELSE {rows.drift.rate}
  <2>1. Drifted(c) /\ rows = ShowOutputs(c, own)
    BY DEF RunInv, CaseFacts
  <2>2. /\ rows.datum = c.aged /\ rows.drift = DriftRow(c)
        /\ rows.moved = CourseToSteer(c.at, c.aged)
    BY <2>1 DEF ShowOutputs
  <2>3. hours \in Nat /\ drift \in Int /\ c.at \in Spots
    BY <2>1, RecalculationAssumption DEF Drifted, DriftTime
  <2>4. drift \in rates
    <3>1. CASE c.grib # {}
      BY <2>1, <2>2, <3>1 DEF Drifted, DriftRow
    <3>2. CASE c.grib = {}
      BY <2>1, <2>2, <3>2 DEF Drifted
    <3> QED  BY <3>1, <3>2
  <2>5. c.aged = North(c.at, Mile * drift * hours)
    BY <2>1 DEF Drifted, AgedDatum
  <2> HIDE DEF hours, drift
  <2>6. /\ Mile * drift * hours \in Int /\ Mile * drift * hours = drift * (Mile * hours)
        /\ Mile * hours \in Nat
        /\ Mile * Magnitude(drift) * hours = Magnitude(drift) * (Mile * hours)
    <3>1. Magnitude(drift) \in Int
      BY <2>3 DEF Magnitude
    <3> QED  BY <2>3, <3>1 DEF Mile
  <2>7. CourseToSteer(c.at, c.aged).distance = Magnitude(Mile * drift * hours)
    <3>1. FiniteAt(c.aged) /\ c.aged.lat.v = c.at.lat.v + Mile * drift * hours
      BY <2>3, <2>5, <2>6, NorthStays
    <3>2. c.at.lat.v \in Int
      BY <2>3 DEF Spots, Numbers
    <3>3. c.aged.lat.v - c.at.lat.v = Mile * drift * hours
      BY <2>6, <3>1, <3>2
    <3> QED  BY <3>1, <3>3 DEF CourseToSteer
  <2>8. Magnitude(Mile * drift * hours) = Mile * Magnitude(drift) * hours
    BY <2>3, <2>6, MagnitudeOfProduct
  <2>9. rows.datum = North(c.at, Mile * drift * hours)
        /\ rows.moved.distance = Mile * Magnitude(drift) * hours
    BY <2>2, <2>5, <2>7, <2>8
  <2> QED  BY <2>4, <2>9 DEF DriftRowTellsDrift, hours
<1> QED  BY <1>1, RunInvariant, PTL
-----------------------------------------------------------------------------
(***************************************************************************)
(* The text of the position: numerals are kept apart in it, and what was   *)
(* copied is as OpenCPN shows it.                                          *)
(***************************************************************************)
ShownSo(t, p) ==
  \E format \in Formats, lat \in Shown, lon \in Shown :
    /\ Shows(format, lat) /\ Shows(format, lon)
    /\ OnEarth(lat, TRUE) /\ OnEarth(lon, FALSE)
    /\ t = FormatPosition(format, lat, lon) /\ p = [lat |-> lat, lon |-> lon]

TextInv ==
  /\ text \in Seq(Elements) /\ Separate(text)
  /\ copied # None => ShownSo(text, copied)

\* Its three parts are coordinates that OpenCPN may show.
LEMMA ShownIsProper ==
  ASSUME NEW k \in Shown, NEW is_latitude \in BOOLEAN, OnEarth(k, is_latitude)
  PROVE  k \in ShownParts /\ Proper(k) /\ Bounded(Place(k), is_latitude)
<1>1. k \in ShownParts /\ Proper(k)
  BY RecalculationAssumption, ShownAssumption DEF ShownParts, Proper
<1>2. Place(k) \in Int
  <2>1. Value[k.d] \in Int /\ Value[k.m] \in Int /\ Value[k.s] \in Int
    BY <1>1, ValueAssumption DEF ShownParts
  <2> DEFINE n == 3600 * Value[k.d] + 60 * Value[k.m] + Value[k.s]
  <2>2. n \in Int
    BY <2>1
  <2> HIDE DEF n
  <2>3. Place(k) = (IF k.negative THEN -1 ELSE 1) * n
    BY DEF Place, n
  <2> QED  BY <2>2, <2>3
<1>3. Magnitude(Place(k)) <= 3600 * MaxDegrees(is_latitude) /\ MaxDegrees(is_latitude) \in Nat
  BY DEF OnEarth, MaxDegrees
<1> DEFINE n == Place(k)
           m == 3600 * MaxDegrees(is_latitude)
<1>4. n \in Int /\ m \in Int /\ (IF n < 0 THEN -n ELSE n) <= m
  BY <1>2, <1>3 DEF Magnitude
<1> HIDE DEF n, m
<1>5. -m <= n /\ n <= m
  BY <1>4
<1> QED  BY <1>1, <1>5 DEF Bounded, n, m

LEMMA ShownTexts ==
  ASSUME NEW t, NEW p, ShownSo(t, p)
  PROVE  /\ t \in Seq(Elements) /\ Separate(t)
         /\ \E la \in Latitudes, lo \in Longitudes :
              la.at = Place(p.lat) /\ lo.at = Place(p.lon) /\ Follows(la, lo, Words(t))
<1>1. PICK format \in Formats, lat \in Shown, lon \in Shown :
             /\ Shows(format, lat) /\ Shows(format, lon)
             /\ OnEarth(lat, TRUE) /\ OnEarth(lon, FALSE)
             /\ t = FormatPosition(format, lat, lon) /\ p = [lat |-> lat, lon |-> lon]
  BY DEF ShownSo
<1>2. /\ lat \in ShownParts /\ Proper(lat) /\ Bounded(Place(lat), TRUE)
      /\ lon \in ShownParts /\ Proper(lon) /\ Bounded(Place(lon), FALSE)
  BY <1>1, ShownIsProper
<1> DEFINE s == FormatPosition(format, lat, lon)
<1>3. /\ s \in Seq(Elements) /\ Separate(s)
      /\ \E la \in Latitudes, lo \in Longitudes :
           la.at = Place(lat) /\ lo.at = Place(lon) /\ Follows(la, lo, Words(s))
  BY <1>1, <1>2, ShownPosition
<1>4. t = s /\ p.lat = lat /\ p.lon = lon
  BY <1>1
<1> HIDE DEF s
<1> QED  BY <1>3, <1>4

(***************************************************************************)
(* Whatever is typed, pasted or copied is a text the parser is for, and a  *)
(* copied one is still as it was shown.                                    *)
(***************************************************************************)
THEOREM TextInvariant == Spec => []TextInv
<1>1. Init => TextInv
  <2>1. Separate(<<>>)
    BY DEF Separate
  <2> QED  BY <2>1 DEF Init, TextInv
<1>2. TextInv /\ [Next]_vars => TextInv'
  <2> SUFFICES ASSUME TextInv, [Next]_vars PROVE TextInv'
    OBVIOUS
  <2>1. ASSUME NEW ch \in Characters, Type(ch) PROVE TextInv'
    <3>1. ch \in Elements
      BY RecalculationAssumption
    <3>2. Append(text, ch) \in Seq(Elements)
      BY <3>1 DEF TextInv
    <3> QED  BY <2>1, <3>2 DEF Type, Writes, TextInv
  <2>2. CASE Enter
    <3>1. ASSUME NEW lat \in Halves, NEW lon \in Halves,
                 NEW sep \in {<<>>, <<Blank>>, <<Comma, Blank>>}, Join(lat, sep, lon)
          PROVE  TextInv'
      <4>1. lat \in Seq(Elements) /\ lon \in Seq(Elements)
        BY RecalculationAssumption
      <4>2. sep \in Seq(Elements)
        <5>1. Comma \in Elements /\ Blank \in Elements
          BY NumeralsApart
        <5>2. /\ <<>> \in Seq(Elements) /\ <<Blank>> \in Seq(Elements)
              /\ <<Comma, Blank>> \in Seq(Elements)
          BY <5>1
        <5> QED  BY <5>2
      <4>3. lat \o sep \in Seq(Elements)
        BY <4>1, <4>2
      <4>4. (lat \o sep) \o lon \in Seq(Elements)
        BY <4>1, <4>3
      <4> QED  BY <3>1, <4>4 DEF Join, Writes, TextInv
    <3>2. Typical \subseteq Halves
      BY RecalculationAssumption
    <3> QED  BY <2>2, <3>1, <3>2 DEF Enter
  <2>3. CASE Copy
    <3>1. PICK format \in Formats, lat \in Shown, lon \in Shown :
                 /\ Shows(format, lat) /\ Shows(format, lon)
                 /\ OnEarth(lat, TRUE) /\ OnEarth(lon, FALSE)
                 /\ Writes(FormatPosition(format, lat, lon), [lat |-> lat, lon |-> lon])
      BY <2>3 DEF Copy
    <3>2. text' = FormatPosition(format, lat, lon) /\ copied' = [lat |-> lat, lon |-> lon]
      BY <3>1 DEF Writes
    <3>3. ShownSo(text', copied')
      BY <3>1, <3>2 DEF ShownSo
    <3> QED  BY <3>3, ShownTexts DEF TextInv
  <2>4. CASE Run
    BY <2>4 DEF Run, Recalculate, TextInv
  <2>5. CASE UNCHANGED vars
    BY <2>5 DEF vars, TextInv
  <2> QED  BY <2>1, <2>2, <2>3, <2>4, <2>5 DEF Next
<1> QED  BY <1>1, <1>2, PTL DEF Spec

(***************************************************************************)
(* A text is accepted exactly when it is a position in one of the          *)
(* documented notations, and then as the place it says                     *)
(* (position_parse.h:26-41).                                               *)
(***************************************************************************)
THEOREM TextsAreRead == Spec => []ReadsWhatIsWritten
<1>1. TextInv => ReadsWhatIsWritten
  <2> SUFFICES ASSUME TextInv PROVE ReadsWhatIsWritten
    OBVIOUS
  <2> DEFINE p == ParsePos(text)
             written == Positions(Words(text))
  <2>1. text \in Seq(Elements) /\ Separate(text)
    BY DEF TextInv
  <2>2. ASSUME written # {} PROVE p.ok /\ FiniteAt(p)
    <3>1. PICK e \in written : TRUE
      BY <2>2
    <3>2. \E la \in Latitudes, lo \in Longitudes : Follows(la, lo, Words(text))
      BY PositionsAre
    <3>3. PICK la \in Latitudes, lo \in Longitudes : Follows(la, lo, Words(text))
      BY <3>2
    <3>4. p.ok /\ p.lat = Number(la.at) /\ p.lon = Number(lo.at)
      BY <2>1, <3>3, PositionComplete
    <3>5. Number(la.at).finite /\ Number(lo.at).finite
      BY DEF Number
    <3> HIDE DEF p
    <3> QED  BY <3>4, <3>5 DEF FiniteAt
  <2>3. ASSUME p.ok, FiniteAt(p)
        PROVE  [lat |-> p.lat.v, lon |-> p.lon.v] \in written
    BY <2>1, <2>3, PositionSound DEF FiniteAt
  <2> QED  BY <2>2, <2>3 DEF ReadsWhatIsWritten
<1> QED  BY <1>1, TextInvariant, PTL

(***************************************************************************)
(* A position that OpenCPN shows, in whichever of its formats, can be      *)
(* copied into the field and is read as that position                      *)
(* (intercept_panel.cpp:44-48).                                            *)
(***************************************************************************)
THEOREM CopiesAreRead == Spec => []CopiedReadsBack
<1>1. TextInv => CopiedReadsBack
  <2> SUFFICES ASSUME TextInv, copied # None
               PROVE  LET p == ParsePos(text)
                      IN  /\ p.ok /\ p.lat = Number(Place(copied.lat))
                          /\ p.lon = Number(Place(copied.lon))
    BY DEF CopiedReadsBack
  <2>1. ShownSo(text, copied)
    BY DEF TextInv
  <2>2. text \in Seq(Elements) /\ Separate(text)
    BY DEF TextInv
  <2>3. PICK la \in Latitudes, lo \in Longitudes :
               /\ la.at = Place(copied.lat) /\ lo.at = Place(copied.lon)
               /\ Follows(la, lo, Words(text))
    BY <2>1, ShownTexts
  <2> QED  BY <2>2, <2>3, PositionComplete
<1> QED  BY <1>1, TextInvariant, PTL
=============================================================================
