----------------------------- MODULE MCDatumAge -----------------------------
(***************************************************************************)
(* DatumAge with every GRIB over two regions (the datum may drift out of   *)
(* the one it starts in) and two periods, and times that are not a whole   *)
(* number of steps apart.                                                  *)
(***************************************************************************)
EXTENDS DatumAge

MCRegion(p) == IF p < 2 THEN "near" ELSE "far"
MCPeriod(t) == IF t < 4 THEN "early" ELSE "late"

Tables(values) == [{"near", "far"} \X {"early", "late"} -> values]

MCGribs == [wind : Tables({-1, 0, None}), current : Tables({0, 2, None})]
=============================================================================
