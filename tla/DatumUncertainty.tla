-------------------------- MODULE DatumUncertainty --------------------------
(***************************************************************************)
(* ComputeDatumUncertainty (src/src/datum_age.cpp): how far from the aged  *)
(* datum the target may be.  The promises about it compare one result with *)
(* another, so one report is aged hour by hour through the same weather    *)
(* with two GRIB files: one that has everything, and one with gaps.        *)
(*                                                                         *)
(* Distances are in hundredths of a nautical mile and speeds in hundredths *)
(* of a knot (winds in knots), roots and products rounded down.  The wind  *)
(* blows along one line; a negative wind is the opposite one.              *)
(***************************************************************************)
EXTENDS Integers, FiniteSets

CONSTANTS Winds, MaxHours

ASSUME WindsAssumption == Winds \subseteq Int /\ MaxHours \in Nat

InitialError    == 100   \* kAssumedInitialPositionErrorNm
KnownError      == 30    \* kKnownComponentErrorKt
UnknownError    == 50    \* kUnknownComponentErrorKt

Crafts == {"rubber", "wooden"}    \* an unknown craft counts as a rubber one

VARIABLES
  craft,
  hours,      \* since the report
  gaps,       \* what the second file has lacked so far
  full,       \* AgedDatum with the complete file
  holed       \* AgedDatum with the other one

rings == <<craft, hours, gaps, full, holed>>

Magnitude(x) == IF x < 0 THEN -x ELSE x
Square(x) == x * x
Root(n, bound) == CHOOSE r \in 0..bound : Square(r) <= n /\ n < Square(r + 1)
-----------------------------------------------------------------------------
\* LookupLeewayCoefficients: the leeway of a wind, and 2 sin(divergence / 2)
\* in hundredths.
LeewaySpeed(c, wind) == (wind * (IF c = "wooden" THEN 40 ELSE 36)) \div 10

DivergencePercent(c) == IF c = "wooden" THEN 85 ELSE 52

WindKnown(a) == a.source = "grib" /\ a.wind_every_step /\ a.leeway_applied

WindError(a)    == IF WindKnown(a) THEN KnownError ELSE 0
LeewayError(a)  == IF WindKnown(a) THEN KnownError ELSE UnknownError

CurrentError(a) ==
  IF a.source = "grib" /\ a.current_every_step THEN KnownError ELSE UnknownError

\* dve_kt, squared.
DriftVelocityError(a) ==
  Square(WindError(a)) + Square(CurrentError(a)) + Square(LeewayError(a))

\* e_nm.
ProbableError(a, h) ==
  Root(Square(InitialError) + Square(h) * DriftVelocityError(a),
       InitialError + 2 * UnknownError * h)

\* A slip: no divergence unless the wind was known all along.
DivergenceWhenKnown(a, c) ==
  IF WindKnown(a) THEN (DivergencePercent(c) * Magnitude(a.leeway)) \div 100
                  ELSE 0

Divergence(a, c) ==
  IF a.leeway_applied THEN (DivergencePercent(c) * Magnitude(a.leeway)) \div 100
                      ELSE 0

RingWithout(a, h, c) == ProbableError(a, h) + Divergence(a, c)

\* A slip: as if the two estimates lay in the same place.
CoveringWithoutOffset(a, h, c) ==
  RingWithout([a EXCEPT !.leeway_applied = TRUE], h, c)

\* The ring of the leeway estimate, which lies the leeway away.
Covering(a, h, c) ==
  Magnitude(a.leeway) + RingWithout([a EXCEPT !.leeway_applied = TRUE], h, c)

Radius(a, h, c) ==
  LET plain == RingWithout(a, h, c)
  IN  IF a.source = "grib" /\ ~a.leeway_applied /\ a.leeway # 0
         /\ Covering(a, h, c) > plain
      THEN Covering(a, h, c) ELSE plain
-----------------------------------------------------------------------------
FromGrib == [source |-> "grib", wind_every_step |-> TRUE,
             current_every_step |-> TRUE, leeway_applied |-> TRUE, leeway |-> 0]
FromOperator == [source |-> "manual", wind_every_step |-> FALSE,
                 current_every_step |-> FALSE, leeway_applied |-> FALSE,
                 leeway |-> 0]

WithoutLeeway(a) == [a EXCEPT !.leeway_applied = FALSE]

\* The loop's state, which is not yet a result at 0 hours.
RingInit ==
  /\ craft \in Crafts
  /\ hours = 0 /\ gaps = {}
  /\ full = FromGrib /\ holed = FromGrib

\* A slip: the flags tell of the latest step.
StepLatest(a, wind, lacking) ==
  [a EXCEPT !.leeway = IF "wind" \in lacking THEN @
                       ELSE @ - LeewaySpeed(craft, wind),
            !.wind_every_step = "wind" \notin lacking,
            !.current_every_step = "current" \notin lacking]

\* One hour further, as ComputeAgedDatum's loop goes.
HourOn(a, wind, lacking) ==
  [a EXCEPT !.leeway = IF "wind" \in lacking THEN @
                       ELSE @ - LeewaySpeed(craft, wind),
            !.wind_every_step = @ /\ "wind" \notin lacking,
            !.current_every_step = @ /\ "current" \notin lacking]

AgeAnHour(wind, lacking) ==
  /\ hours < MaxHours
  /\ hours' = hours + 1
  /\ full' = HourOn(full, wind, {})
  /\ holed' = HourOn(holed, wind, lacking)
  /\ gaps' = gaps \cup lacking
  /\ UNCHANGED craft

RingNext ==
  \E wind \in Winds, lacking \in SUBSET {"wind", "current"} : AgeAnHour(wind, lacking)

RingSpec == RingInit /\ [][RingNext]_rings
-----------------------------------------------------------------------------
(***************************************************************************)
(* "Missing data widens the circle instead of shrinking it"                *)
(* (datum_age.h:167) holds of the drift velocity error, whatever is        *)
(* missing and whenever, with leeway or without, an entered drift being    *)
(* the widest; and of the whole ring as long as only current is missing.   *)
(* Missing wind takes the divergence away with the leeway, and the ring    *)
(* may come out smaller, by no more than that.                             *)
(***************************************************************************)
GapsWiden ==
  /\ DriftVelocityError(holed) >= DriftVelocityError(full)
  /\ gaps # {} => DriftVelocityError(holed) > DriftVelocityError(full)
  /\ DriftVelocityError(FromOperator) >= DriftVelocityError(holed)
  /\ gaps = {"current"} => Radius(holed, hours, craft) >= Radius(full, hours, craft)
  /\ Radius(holed, hours, craft) >= Radius(full, hours, craft) - Divergence(full, craft)

(***************************************************************************)
(* Switching leeway off never makes the result look more certain: the ring *)
(* without leeway contains the ring with it, around a datum that lies the  *)
(* leeway's displacement away, also when some of the data is missing       *)
(* (datum_age.h:171-173).                                                  *)
(***************************************************************************)
LeewayOffCovers ==
  \A a \in {full, holed} :
    Radius(WithoutLeeway(a), hours, craft)
      >= Magnitude(a.leeway) + Radius(a, hours, craft)

\* Ring against ring, from one hour to the next, unless the wind turned.
Outward(a, b, h, k) ==
  Magnitude(b.leeway) >= Magnitude(a.leeway)
    => /\ Radius(b, k, craft) >= Radius(a, h, craft)
       /\ Radius(WithoutLeeway(b), k, craft) >= Radius(WithoutLeeway(a), h, craft)

(***************************************************************************)
(* As long as the wind takes the target no nearer to where it would be     *)
(* without leeway, the ring never shrinks as the report gets older, with   *)
(* leeway on or off, and whatever data goes missing on the way             *)
(* (USER_GUIDE.md:195).                                                    *)
(***************************************************************************)
RingGrowsOutward ==
  [][Outward(full, full', hours, hours') /\ Outward(holed, holed', hours, hours')]_rings
=============================================================================
