----------------------------- MODULE GribReader -----------------------------
(***************************************************************************)
(* GribReader::Load (src/src/grib_reader.cpp): walks over the messages of  *)
(* a GRIB2 file and, inside a message, over its sections, keeping what it  *)
(* read in local variables until section 7 completes a field.  A message   *)
(* has one section 1 and then one or more field groups, each made of       *)
(* sections 4 to 7, with a new grid (section 3) before it or the last one  *)
(* again.  Section 6 may be left out: the reader then takes every point to *)
(* be there.                                                               *)
(*                                                                         *)
(* The file is written as it is read: every action reads one section that  *)
(* may come next, and `supported` remembers what the file said of the      *)
(* fields to be read, independently of what the reader made of it.         *)
(***************************************************************************)
EXTENDS Integers, Sequences

CONSTANTS
  References,     \* reference times a section 1 may give
  Forecasts,      \* forecast times a section 4 may give: <<count, unit>>
  Parameters,     \* discipline, category, number and level of a field
  Grids,          \* regular latitude/longitude grids
  MaxFields,      \* field groups in a file
  MaxMessages     \* messages in a file

SecondsADay == 86400

\* The reader takes any hour, minute and second, as many seconds into the
\* day or the days after it, and a forecast time may be negative.
ASSUME TimesAssumption ==
  /\ References \subseteq [year : Nat, month : Nat, day : Nat, second : Nat]
  /\ Forecasts \subseteq Int \X Nat
ASSUME SizeAssumption == MaxFields \in Nat /\ MaxMessages \in Nat

Unset == "unset"       \* grid_ok, have_pdt false
NoTime == [day |-> 0, second |-> -1]   \* an invalid wxDateTime
Other == "other"       \* a template, a packing the reader cannot use

ASSUME NamesAssumption == {Unset, Other} \cap (Parameters \cup Grids) = {}

Bitmaps == {"none", "given", "short", "predefined"}

VARIABLES
  at,                  \* what was read last; "end" once Load has returned
  messages,            \* messages started so far
  \* Load's local variables
  grid, valid_time, product, have_drt, bitmap_supported, bitmap,
  m_messages,
  \* what the file says
  said,                \* of the field group that is being read
  groups,              \* how many came before
  supported            \* history: those of them that are to be read

decoder == <<grid, valid_time, product, have_drt, bitmap_supported, bitmap>>
file == <<said, groups, supported>>
vars == <<at, messages, decoder, m_messages, file>>

\* Nothing is said yet.
Silence == [shifted |-> FALSE, reference |-> Unset, grid |-> Unset, product |-> Unset,
            forecast |-> <<0, 1>>, packing |-> Unset, bitmap |-> "none"]

Places == {"file", "section0", "section1", "section3", "section4", "section5",
           "section6", "section7", "end"}
InMessage == at \notin {"file", "end"}

(* Dates and times: a day counted from 1970-01-01 and a second of it.  *)

\* Days from the civil epoch, counted from the first of March in eras of 400
\* years.
DaysFromCivil(year, month, day) ==
  LET y   == IF month <= 2 THEN year - 1 ELSE year
      era == y \div 400
      yoe == y % 400
      mp  == IF month > 2 THEN month - 3 ELSE month + 9
      doy == (153 * mp + 2) \div 5 + day - 1
  IN  era * 146097 + (yoe * 365 + yoe \div 4 - yoe \div 100 + doy) - 719468

\* A day too many for its month counts on into the next one.
GoodDate(date) == date.month \in 1..12 /\ date.day \in 1..31

MakeUtcDateTime(date) ==
  [day    |-> DaysFromCivil(date.year, date.month, date.day) + date.second \div SecondsADay,
   second |-> date.second % SecondsADay]

\* Seconds to the indicators of code table 4.4 the reader knows.
TimeUnits == [indicator \in {0, 1, 2, 10, 11, 12, 13} |->
                CASE indicator = 0  -> 60
                  [] indicator = 1  -> 3600
                  [] indicator = 2  -> 86400
                  [] indicator = 10 -> 3 * 3600
                  [] indicator = 11 -> 6 * 3600
                  [] indicator = 12 -> 12 * 3600
                  [] indicator = 13 -> 1]

Later(time, forecast) ==
  LET seconds == time.second + forecast[1] * TimeUnits[forecast[2]]
  IN  [day |-> time.day + seconds \div SecondsADay, second |-> seconds % SecondsADay]
-----------------------------------------------------------------------------
Init ==
  /\ at = "file" /\ messages = 0
  /\ grid = Unset /\ valid_time = NoTime /\ product = Unset
  /\ have_drt = FALSE /\ bitmap_supported = TRUE /\ bitmap = "none"
  /\ m_messages = <<>>
  /\ said = Silence /\ groups = 0 /\ supported = <<>>
-----------------------------------------------------------------------------
(* The messages. *)

StartMessage ==
  /\ at = "file" /\ messages < MaxMessages
  /\ at' = "section0" /\ messages' = messages + 1
  /\ grid' = Unset /\ valid_time' = NoTime /\ product' = Unset
  /\ have_drt' = FALSE /\ bitmap_supported' = TRUE /\ bitmap' = "none"
  /\ said' = Silence
  /\ UNCHANGED <<m_messages, groups, supported>>

\* Section 8, or a section that does not fit in the message.
EndMessage ==
  /\ InMessage
  /\ at' = "file"
  /\ UNCHANGED <<messages, decoder, m_messages, file>>

\* The end of the file, or anything that is not a whole GRIB2 message.
Stop ==
  /\ at = "file"
  /\ at' = "end"
  /\ UNCHANGED <<messages, decoder, m_messages, file>>
-----------------------------------------------------------------------------
(* The sections of a message. *)

Section1(reference) ==
  /\ at = "section0" /\ at' = "section1"
  /\ valid_time' = IF GoodDate(reference) THEN MakeUtcDateTime(reference) ELSE valid_time
  /\ said' = [Silence EXCEPT !.reference = reference]
  /\ UNCHANGED <<messages, grid, product, have_drt, bitmap_supported, bitmap,
                 m_messages, groups, supported>>

Section3(g) ==
  /\ at \in {"section1", "section7"} /\ at' = "section3"
  /\ grid' = IF g = Other THEN Unset ELSE g
  /\ said' = [said EXCEPT !.grid = g]
  /\ UNCHANGED <<messages, valid_time, product, have_drt, bitmap_supported,
                 bitmap, m_messages, groups, supported>>

\* A slip: the forecast time is added to an invalid time.
TimedAlways(p, forecast) == p # Other /\ forecast[2] \in DOMAIN TimeUnits

\* A product the reader takes: it knows the template and the time unit, and
\* section 1 gave a time.
Timed(p, forecast) ==
  p # Other /\ forecast[2] \in DOMAIN TimeUnits /\ valid_time # NoTime

\* A slip: a product the reader skips moves the time on.
ForecastTimeAlways(p, forecast) ==
  IF valid_time # NoTime /\ forecast[2] \in DOMAIN TimeUnits
  THEN Later(valid_time, forecast) ELSE valid_time

ForecastTime(p, forecast) ==
  IF Timed(p, forecast) THEN Later(valid_time, forecast) ELSE valid_time

Section4(p, forecast) ==
  /\ at \in {"section3", "section7"} /\ at' = "section4"
  /\ groups < MaxFields
  /\ product' = IF Timed(p, forecast) THEN p ELSE Unset
  /\ valid_time' = ForecastTime(p, forecast)
  /\ said' = [said EXCEPT !.product = p, !.forecast = forecast]
  /\ UNCHANGED <<messages, grid, have_drt, bitmap_supported, bitmap,
                 m_messages, groups, supported>>

Section5(packing) ==
  /\ at = "section4" /\ at' = "section5"
  /\ have_drt' = (packing = "simple")
  /\ said' = [said EXCEPT !.packing = packing]
  /\ UNCHANGED <<messages, grid, valid_time, product, bitmap_supported, bitmap,
                 m_messages, groups, supported>>

\* A bitmap too short for the grid counts as none at all.
Section6(b) ==
  /\ at = "section5" /\ at' = "section6"
  /\ bitmap' = CASE b = "given" -> "given"
                 [] b = "short" -> IF grid = Unset THEN "given" ELSE "none"
                 [] b = "none"  -> "none"
                 [] OTHER       -> bitmap
  /\ bitmap_supported' = (bitmap_supported /\ b # "predefined")
  /\ said' = [said EXCEPT !.bitmap = b]
  /\ UNCHANGED <<messages, grid, valid_time, product, have_drt, m_messages, groups, supported>>

Complete == grid # Unset /\ product # Unset /\ have_drt /\ bitmap_supported

\* A slip: an unsupported bitmap spoils the fields after it.
ResetFieldKeepingBitmap ==
  /\ product' = Unset /\ have_drt' = FALSE
  /\ UNCHANGED <<bitmap_supported, bitmap>>

ResetField ==
  /\ product' = Unset /\ have_drt' = FALSE
  /\ bitmap_supported' = TRUE /\ bitmap' = "none"

\* The subset of GRIB2 the reader supports.
Supported(f) ==
  /\ GoodDate(f.reference) /\ f.grid # Other /\ f.product # Other
  /\ f.forecast[2] \in DOMAIN TimeUnits
  /\ f.packing = "simple" /\ f.bitmap # "predefined"

\* Once a product with a forecast time has been taken the message's time is
\* no longer its reference time.
Shifted(f) ==
  f.shifted \/ (f.product # Other /\ f.forecast[1] # 0 /\ f.forecast[2] \in DOMAIN TimeUnits)

Section7 ==
  /\ at \in {"section5", "section6"} /\ at' = "section7"
  /\ m_messages' = IF Complete
                   THEN Append(m_messages, [product |-> product, grid |-> grid,
                                 bitmap |-> bitmap, valid_time |-> valid_time])
                   ELSE m_messages
  /\ ResetField
  /\ groups' = groups + 1
  /\ supported' = IF Supported(said) THEN Append(supported, said) ELSE supported
  /\ said' = [Silence EXCEPT !.shifted = Shifted(said), !.reference = said.reference,
                             !.grid = said.grid]
  /\ UNCHANGED <<messages, grid, valid_time>>

Load ==
  \/ StartMessage \/ EndMessage \/ Stop
  \/ \E reference \in References : Section1(reference)
  \/ \E g \in Grids \cup {Other} : Section3(g)
  \/ \E p \in Parameters \cup {Other}, forecast \in Forecasts : Section4(p, forecast)
  \/ \E packing \in {"simple", "complex"} : Section5(packing)
  \/ \E b \in Bitmaps : Section6(b)
  \/ Section7

Spec == Init /\ [][Load]_vars
-----------------------------------------------------------------------------
(***************************************************************************)
(* The types, and that a product the reader has taken always has a time:   *)
(* no field without a valid time gets into the list.                       *)
(***************************************************************************)
TypeOK ==
  /\ at \in Places /\ messages \in 0..MaxMessages
  /\ grid \in Grids \cup {Unset}
  /\ valid_time.second \in 0..SecondsADay - 1 \/ valid_time = NoTime
  /\ product \in Parameters \cup {Unset}
  /\ have_drt \in BOOLEAN /\ bitmap_supported \in BOOLEAN
  /\ bitmap \in {"none", "given"}
  /\ groups \in 0..MaxFields /\ Len(m_messages) <= groups
  /\ product # Unset => GoodDate(said.reference)

(***************************************************************************)
(* Exactly the supported fields are read, each with its own grid, product  *)
(* and bitmap, whatever groups and broken messages surround it.            *)
(***************************************************************************)
SupportedAreRead ==
  /\ Len(m_messages) = Len(supported)
  /\ \A i \in DOMAIN m_messages :
       LET msg == m_messages[i]
           f   == supported[i]
       IN  /\ msg.product = f.product /\ msg.grid = f.grid
           /\ (msg.bitmap = "given") <=> (f.bitmap = "given")

RightTime(i) ==
  m_messages[i].valid_time
    = Later(MakeUtcDateTime(supported[i].reference), supported[i].forecast)

(***************************************************************************)
(* A field is valid at its reference time plus its forecast time           *)
(* (grib_reader.cpp:247) unless a product of the same message that had a   *)
(* forecast time was taken before it: messages, skipped products, broken   *)
(* dates and broken messages before it make no difference.                 *)
(***************************************************************************)
UnshiftedFieldsTimed ==
  \A i \in DOMAIN m_messages : ~supported[i].shifted => RightTime(i)

(***************************************************************************)
(* "A record using a different grid, packing, or product template is       *)
(* skipped rather than failing the whole file" (grib_reader.h:43): a file  *)
(* is read as the fields in it that are supported, with the time of each   *)
(* that nothing has shifted.                                               *)
(***************************************************************************)
ReadsSupportedFields == SupportedAreRead /\ UnshiftedFieldsTimed

(***************************************************************************)
(* "Grid (section 3) can be shared by more than one field, so it persists  *)
(* across groups; the rest resets after each section 7"                    *)
(* (grib_reader.cpp:164): every field, then, is valid at the reference     *)
(* time plus its own forecast time.  The code keeps adding to the time     *)
(* of the group before.                                                    *)
(***************************************************************************)
EveryFieldTimed == \A i \in DOMAIN m_messages : RightTime(i)
=============================================================================
