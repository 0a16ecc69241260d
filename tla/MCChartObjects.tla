--------------------------- MODULE MCChartObjects ---------------------------
(***************************************************************************)
(* ChartObjects with two situations (a stale drawing and a current one),   *)
(* which no definition tells apart, and the two outcomes of a calculation  *)
(* that differ most in what they draw.                                     *)
(***************************************************************************)
EXTENDS ChartObjects, TLC

MCShapes == {[solved |-> TRUE, drifted |-> TRUE], [solved |-> FALSE, drifted |-> FALSE]}

SituationsAlike == Permutations(Situations)
=============================================================================
