---------------------------- MODULE MCGribReader ----------------------------
(***************************************************************************)
(* GribReader for the two components of the wind on two grids, as analysis *)
(* or as a forecast across midnight, the end of the month and a leap day;  *)
(* with a date and a time unit that the reader does not take.              *)
(***************************************************************************)
EXTENDS GribReader

MCReferences == {[year |-> 2024, month |-> 2, day |-> 29, second |-> 18 * 3600],
                 [year |-> 2024, month |-> 13, day |-> 1, second |-> 0]}
MCForecasts  == {<<0, 1>>, <<3, 10>>, <<1, 3>>}
MCParameters == {"u", "v"}
MCGrids == {"coarse", "fine"}

(***************************************************************************)
(* DaysFromCivil counts the days: 1970-01-01 is day 0, and each day of the *)
(* calendar, with its leap years, has the number after that of the day     *)
(* before it.  TLC evaluates it for two hundred years.                     *)
(***************************************************************************)
Leap(year) == year % 4 = 0 /\ (year % 100 # 0 \/ year % 400 = 0)
Days(year, month) == CASE month \in {4, 6, 9, 11} -> 30
                       [] month = 2 -> IF Leap(year) THEN 29 ELSE 28
                       [] OTHER -> 31
DayAfter(year, month, day) ==
  CASE day < Days(year, month) -> <<year, month, day + 1>>
    [] day = Days(year, month) /\ month < 12 -> <<year, month + 1, 1>>
    [] OTHER -> <<year + 1, 1, 1>>

ASSUME DaysAreCounted ==
  /\ DaysFromCivil(1970, 1, 1) = 0
  /\ \A year \in 1899..2101, month \in 1..12 : \A day \in 1..Days(year, month) :
       LET next == DayAfter(year, month, day)
       IN  DaysFromCivil(next[1], next[2], next[3]) = DaysFromCivil(year, month, day) + 1

(***************************************************************************)
(* Hours past 24 count on into the next day, and a forecast time may go    *)
(* back over midnight.                                                     *)
(***************************************************************************)
ASSUME InstantsAreCounted ==
  /\ MakeUtcDateTime([year |-> 2024, month |-> 2, day |-> 28, second |-> 42 * 3600])
       = MakeUtcDateTime([year |-> 2024, month |-> 2, day |-> 29, second |-> 18 * 3600])
  /\ Later([day |-> 1, second |-> 0], <<-1, 1>>) = [day |-> 0, second |-> 23 * 3600]
=============================================================================
