------------------------------- MODULE Format -------------------------------
(***************************************************************************)
(* The numbers the panel shows (src/src/format.cpp), in integers: a        *)
(* bearing in hundredths of a degree, a duration in seconds.  What comes   *)
(* out is the number that is written, not its digits.                      *)
(***************************************************************************)
EXTENDS Integers

\* std::round and std::lround, of n / unit, for n >= 0.
Rounded(n, unit) == (n + unit \div 2) \div unit

\* In tenths.  A bearing just short of 360 degrees is rounded up to 360.0.
FormatBearingDeg(bearing) ==
  LET tenths == Rounded(bearing % 36000, 10)
  IN  IF tenths >= 3600 THEN tenths - 3600 ELSE tenths

\* Hours and minutes.
FormatEtaHhMm(seconds) ==
  LET total_minutes == Rounded(IF seconds < 0 THEN 0 ELSE seconds, 60)
  IN  [hh |-> total_minutes \div 60, mm |-> total_minutes % 60]
=============================================================================
