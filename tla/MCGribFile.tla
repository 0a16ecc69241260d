----------------------------- MODULE MCGribFile -----------------------------
(***************************************************************************)
(* GribFile for the files of MCGribReader, on two grids of the same two    *)
(* points across the Greenwich meridian, one eastward and one westward.    *)
(* No point is missing: MCGribLookup has those.                            *)
(***************************************************************************)
EXTENDS MCGribReader, GribFile

MCMeaning ==
  [n \in {"u", "v"} |->
     [product |-> "wind", number |-> n, level_type |-> "height", level |-> 100]]
MCGeometry ==
  [g \in MCGrids |->
     [lo1 |-> IF g = "coarse" THEN 15 ELSE 1, di |-> 2, ni |-> 2, i_increasing |-> g = "coarse",
      la1 |-> 0, dj |-> 2, nj |-> 1, j_increasing |-> TRUE]]
MCContents == {[present |-> 0..1, packed |-> 2, num_bits |-> 8]}

\* Two hours after the analysis; and the forecast of 9 hours.
MCQueries ==
  LET analysis == DaysFromCivil(2024, 2, 29) * SecondsADay + 18 * 3600
  IN  {analysis + 2 * 3600, analysis + 9 * 3600}
\* On a point, between the two, and outside.
MCPositions == {<<0, 15>>, <<0, 0>>, <<0, 8>>}
=============================================================================
