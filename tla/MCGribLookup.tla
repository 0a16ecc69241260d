---------------------------- MODULE MCGribLookup ----------------------------
(***************************************************************************)
(* GribLookup with a circle of 16 units of 22.5 degrees: winds and         *)
(* currents of two times and levels, on four fields of up to four columns  *)
(* and three rows.                                                         *)
(***************************************************************************)
EXTENDS GribLookup, TLC

Grid(lo1, di, ni, east, la1, dj, nj, north) ==
  [lo1 |-> lo1, di |-> di, ni |-> ni, i_increasing |-> east,
   la1 |-> la1, dj |-> dj, nj |-> nj, j_increasing |-> north]

All(g) == 0..(g.ni * g.nj - 1)
Field(g, bitmap, present, packed, num_bits) ==
  g @@ [bitmap |-> bitmap, present |-> present, packed |-> packed, num_bits |-> num_bits]

\* Across the Greenwich meridian, southward; the date meridian, westward and
\* northward, with points missing; and one cut short.
Greenwich == Grid(14, 2, 4, TRUE, 2, 1, 2, FALSE)
DateLine  == Grid(10, 3, 2, FALSE, 0, 2, 3, TRUE)
Whole     == Field(Greenwich, "none", All(Greenwich), 8, 8)
Masked    == Field(DateLine, "given", {1, 2, 4, 5}, 3, 8)
Calm      == Field(Greenwich, "given", {0, 3, 5}, 0, 0)
Misdealt  == Field(DateLine, "short", {1, 2, 4, 5}, 4, 8)

Of4(product, time, type, level, field) ==
  {[product |-> product, number |-> n, valid_time |-> time, level_type |-> type,
    level |-> level] @@ field : n \in {"u", "v"}}

MCRecords ==
  Of4("wind", 0, "height", 100, Whole) \cup Of4("wind", 6, "height", 100, Masked)
  \cup Of4("wind", 0, "height", 95, Calm)
  \cup {f \in Of4("wind", 0, "height", 20, Whole) : f.number = "u"}
  \cup {f \in Of4("wind", 0, "other", 100, Whole) : f.number = "v"}
  \cup Of4("current", 0, "other", 0, Masked) \cup Of4("current", 6, "other", 0, Whole)
  \cup {f \in Of4("current", 6, "other", 50, Misdealt) : f.number = "u"}
  \cup {f \in Of4("other", 0, "height", 20, Whole) : f.number = "u"}

\* Winds all round the earth from the Greenwich meridian, and regional ones.
RoundTheEarth == Grid(0, 2, 8, TRUE, 0, 1, 1, TRUE)
MCGlobal ==
  Of4("wind", 0, "height", 100, Field(RoundTheEarth, "none", 0..7, 8, 8))
  \cup Of4("wind", 6, "height", 100, Whole)

MCLatitudes == -1..5

\* In both grids, in one of them, near points without a value, outside.
MCPlaces == {<<1, 15>>, <<2, 0>>, <<2, 4>>, <<0, 10>>, <<0, 7>>, <<4, 8>>, <<5, 3>>}
=============================================================================
