----------------------------- MODULE GribLookup -----------------------------
(***************************************************************************)
(* From packed fields to a wind or a current at a place and time           *)
(* (src/src/grib_reader.cpp: UnpackSimple, FindNearest, SampleAt,          *)
(* LookupWind, LookupCurrent), over any list of fields Load may have read. *)
(*                                                                         *)
(* Angles are integers, Circle of them to 360 degrees of longitude.  The   *)
(* points of a grid are counted from 0 in the order of the file, and the   *)
(* value the file has for a point is the point itself: what is looked up   *)
(* is which point of which field answers.                                  *)
(***************************************************************************)
EXTENDS Integers, Sequences, FiniteSets

CONSTANTS
  Records,      \* fields a file may hold, see RecordsAssumption
  Queries,      \* times asked for
  Latitudes,    \* latitudes asked for
  Places,       \* latitude and longitude of the winds and currents asked for
  Circle,       \* units in 360 degrees
  MaxMessages   \* fields in a file

Products == {"wind", "current"}     \* discipline and category
Components == {"u", "v"}            \* number

ASSUME CircleAssumption == Circle \in Nat \ {0} /\ Circle % 2 = 0
ASSUME QueriesAssumption ==
  Queries \subseteq Int /\ Latitudes \subseteq Int /\ Places \subseteq Int \X Int

Points(f) == 0..(f.ni * f.nj - 1)

\* `present` are the points the file gives a value for, `packed` how many of
\* those values its data section really has.  A level is in tenths of a metre.
ASSUME RecordsAssumption ==
  /\ Records \subseteq
       [product : Products \cup {"other"}, number : Components \cup {"other"}, valid_time : Int,
        level_type : {"height", "other"}, level : Int,
        lo1 : Int, di : Nat \ {0}, ni : Nat \ {0}, i_increasing : BOOLEAN,
        la1 : Int, dj : Nat \ {0}, nj : Nat \ {0}, j_increasing : BOOLEAN,
        present : SUBSET Nat, packed : Nat,
        bitmap : {"none", "given", "short"}, num_bits : Nat]
  /\ \A f \in Records :
       f.present \subseteq Points(f) /\ (f.bitmap = "none" => f.present = Points(f))

VARIABLE m_messages

Magnitude(x) == IF x < 0 THEN -x ELSE x
-----------------------------------------------------------------------------
(* UnpackSimple. *)

NaN == -1           \* no value
ReferenceValue == 0 \* of a field whose values are all the same

\* How many of a set of numbers come before one.
Before(set, n) == Cardinality({q \in set : q < n})

\* The values of the data section, in the order of the points they are for,
\* cut off where the section ends.
Values(f) ==
  LET written == Cardinality(f.present)
  IN  [k \in 1..(IF f.packed < written THEN f.packed ELSE written) |->
         CHOOSE p \in f.present : Before(f.present, p) = k - 1]

\* Section 6: a bitmap too short for the grid counts as none at all.
Excluded(f, p) == f.bitmap = "given" /\ p \notin f.present

\* A slip: the data has a value for the excluded points as well.
UnpackedBeforeAll(f, p) == p

\* bit_pos, in values: only points that are not excluded take one.
UnpackedBefore(f, p) == Before({q \in Points(f) : ~Excluded(f, q)}, p)

UnpackSimple(f) ==
  [p \in Points(f) |->
     CASE Excluded(f, p) -> NaN
       [] ~Excluded(f, p) /\ f.num_bits = 0 -> ReferenceValue
       [] OTHER -> IF UnpackedBefore(f, p) + 1 \in DOMAIN Values(f)
                   THEN Values(f)[UnpackedBefore(f, p) + 1] ELSE NaN]
-----------------------------------------------------------------------------
(* FindNearest. *)

Nothing == 0        \* no record; otherwise the place of the record in the list

\* A slip: of two records the earlier one is the nearer.
DiffSigned(i, time) == m_messages[i].valid_time - time

Diff(i, time) == Magnitude(m_messages[i].valid_time - time)

\* A slip: the last of several records that fit equally well.
BetterOrEqual(i, best, time) ==
  \/ best = Nothing
  \/ Diff(i, time) < Diff(best, time)
  \/ /\ Diff(i, time) = Diff(best, time)
     /\ m_messages[i].level <= m_messages[best].level

Better(i, best, time) ==
  \/ best = Nothing
  \/ Diff(i, time) < Diff(best, time)
  \/ /\ Diff(i, time) = Diff(best, time)
     /\ m_messages[i].level < m_messages[best].level

\* Wind is wanted 10 m above the ground, current at any level.
Wanted(f, product, number) ==
  /\ f.product = product /\ f.number = number
  /\ product = "wind" => f.level_type = "height" /\ Magnitude(f.level - 100) <= 5

\* `best` once the first n records have been looked at.
Best(product, number, time) ==
  LET best[n \in 0..Len(m_messages)] ==
        IF n = 0 THEN Nothing
        ELSE IF Wanted(m_messages[n], product, number) /\ Better(n, best[n - 1], time)
             THEN n ELSE best[n - 1]
  IN  best

FindNearest(product, number, time) == Best(product, number, time)[Len(m_messages)]
-----------------------------------------------------------------------------
(* SampleAt. *)

Half(x) == x \div 2

\* NormalizeDegrees, and the difference brought to within half a circle.
Wrapped(diff) == IF diff > Half(Circle) THEN diff - Circle
                 ELSE IF diff < -Half(Circle) THEN diff + Circle ELSE diff

LonDiff(f, lon) == Wrapped((lon % Circle) - (f.lo1 % Circle))

\* std::lround of x / d: halves away from zero.
Lround(x, d) == IF x >= 0 THEN (2 * x + d) \div (2 * d)
                          ELSE -((2 * (-x) + d) \div (2 * d))

Signed(x, increasing) == IF increasing THEN x ELSE -x

Column(f, lon) == Lround(Signed(LonDiff(f, lon), f.i_increasing), f.di)
Row(f, lat)    == Lround(Signed(lat - f.la1, f.j_increasing), f.dj)

SampleAt(f, lat, lon) ==
  LET col == Column(f, lon)
      row == Row(f, lat)
  IN  IF col \in 0..(f.ni - 1) /\ row \in 0..(f.nj - 1)
      THEN UnpackSimple(f)[row * f.ni + col] ELSE NaN
-----------------------------------------------------------------------------
(* LookupWind and LookupCurrent. *)

NotAvailable == [u |-> NaN, v |-> NaN]

\* A slip: one component alone answers.
LookupEither(product, lat, lon, time) ==
  [n \in Components |->
     LET i == FindNearest(product, n, time)
     IN  IF i = Nothing THEN NaN ELSE SampleAt(m_messages[i], lat, lon)]

\* The two components, which give speed and direction.
Lookup(product, lat, lon, time) ==
  LET u_msg == FindNearest(product, "u", time)
      v_msg == FindNearest(product, "v", time)
      u == SampleAt(m_messages[u_msg], lat, lon)
      v == SampleAt(m_messages[v_msg], lat, lon)
  IN  IF u_msg = Nothing \/ v_msg = Nothing THEN NotAvailable
      ELSE IF u = NaN \/ v = NaN THEN NotAvailable ELSE [u |-> u, v |-> v]
-----------------------------------------------------------------------------
Init == m_messages = <<>>

\* Load has read one more field.
PushBack(f) ==
  /\ Len(m_messages) < MaxMessages
  /\ m_messages' = Append(m_messages, f)

Next == \E f \in Records : PushBack(f)

Spec == Init /\ [][Next]_m_messages
-----------------------------------------------------------------------------
Candidates(product, number) ==
  {i \in DOMAIN m_messages : Wanted(m_messages[i], product, number)}

(***************************************************************************)
(* FindNearest answers with the record nearest in time, at the lowest of   *)
(* the levels that are as near, and with the first in the file of those    *)
(* (grib_reader.cpp:361); and it answers whenever there is a record.       *)
(***************************************************************************)
NearestFirst ==
  \A product \in Products, number \in Components, time \in Queries :
    LET best == FindNearest(product, number, time)
    IN  /\ best = Nothing <=> Candidates(product, number) = {}
        /\ \A i \in Candidates(product, number) :
             \/ Diff(best, time) < Diff(i, time)
             \/ /\ Diff(best, time) = Diff(i, time)
                /\ \/ m_messages[best].level < m_messages[i].level
                   \/ m_messages[best].level = m_messages[i].level /\ best <= i

Longitudes == 0..(Circle - 1)

\* Where point p of a field lies, and how far two longitudes are apart.
Meridian(f, p) == (f.lo1 + Signed((p % f.ni) * f.di, f.i_increasing)) % Circle
Parallel(f, p) == f.la1 + Signed((p \div f.ni) * f.dj, f.j_increasing)
Apart(x, y) == Magnitude(Wrapped((x % Circle) - (y % Circle)))

\* p is the nearest point or one of several; and nearer than half a cell.
NearBy(f, p, lat, lon) == /\ 2 * Apart(Meridian(f, p), lon) <= f.di
                          /\ 2 * Magnitude(Parallel(f, p) - lat) <= f.dj
Around(f, p, lat, lon) == /\ 2 * Apart(Meridian(f, p), lon) < f.di
                          /\ 2 * Magnitude(Parallel(f, p) - lat) < f.dj

\* The points the file has a value for, and the value.
Filed(f) == IF f.num_bits = 0 THEN f.present
            ELSE {p \in f.present : Before(f.present, p) < f.packed}
FiledValue(f, p) == IF f.num_bits = 0 THEN ReferenceValue ELSE p

\* Grids that reach less than half way round the earth.
Regional(f) == 2 * (f.ni * f.di) <= Circle

\* The field loaded last, as every field once was.
Loaded == IF m_messages = <<>> THEN {} ELSE {m_messages[Len(m_messages)]}

(***************************************************************************)
(* What a field answers is the value the file has for the nearest point:   *)
(* across the Greenwich and the date meridian, for every direction of      *)
(* scanning, whatever points the bitmap leaves out and wherever the data   *)
(* section ends (grib_reader.cpp:91, :371); and a field of less than half  *)
(* the globe answers near every point the file has a value for, nearer     *)
(* than half a cell.  A bitmap too short for its grid is the exception     *)
(* (grib_reader.cpp:279): the reader deals the values out to the first     *)
(* points.                                                                 *)
(***************************************************************************)
AnswersNearestPoint ==
  \A f \in {f \in Loaded : f.bitmap # "short"}, lat \in Latitudes, lon \in Longitudes :
    LET v == SampleAt(f, lat, lon)
    IN  /\ v # NaN => \E p \in Filed(f) : NearBy(f, p, lat, lon) /\ v = FiledValue(f, p)
        /\ Regional(f) /\ (\E p \in Filed(f) : Around(f, p, lat, lon)) => v # NaN

\* Two records of one forecast, on one grid.
SameForecast(f, g) == [f EXCEPT !.number = "u"] = [g EXCEPT !.number = "u"]

\* Every u has its v, and they come in the same order.
Partners(product, i, j) ==
  /\ Before(Candidates(product, "u"), i) = Before(Candidates(product, "v"), j)
  /\ SameForecast(m_messages[i], m_messages[j])

Paired(product) ==
  LET us == Candidates(product, "u")
      vs == Candidates(product, "v")
  IN  /\ \A i \in us : \E j \in vs : Partners(product, i, j)
      /\ \A j \in vs : \E i \in us : Partners(product, i, j)

(***************************************************************************)
(* u and v are looked up apart (grib_reader.cpp:395, :414).  When the file *)
(* has both of every forecast, in the same order, the answer is the vector *)
(* of one point of one forecast: it is never put together from two times,  *)
(* levels or grids.  And with one component alone there is no answer.      *)
(***************************************************************************)
VectorOfOneForecast ==
  \A product \in Products, time \in Queries :
    /\ \A place \in Places :
         LET answer == Lookup(product, place[1], place[2], time)
         IN  /\ answer.u = NaN <=> answer.v = NaN
             /\ Paired(product) => answer.u = answer.v
    /\ Paired(product) /\ Candidates(product, "u") # {} =>
         SameForecast(m_messages[FindNearest(product, "u", time)],
                      m_messages[FindNearest(product, "v", time)])
-----------------------------------------------------------------------------
(***************************************************************************)
(* "available is false ... when ... the requested position/time fell       *)
(* outside the grid it did decode" (grib_reader.h:23): otherwise, inside   *)
(* it, there is an answer.  The difference in longitude is brought to half *)
(* a circle either way, so that a grid all round the earth answers for one *)
(* of its halves only.                                                     *)
(***************************************************************************)
AnswersInside ==
  \A f \in Loaded, lat \in Latitudes, lon \in Longitudes :
    (\E p \in Filed(f) : Around(f, p, lat, lon)) => SampleAt(f, lat, lon) # NaN
=============================================================================
