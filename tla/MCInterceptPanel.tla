-------------------------- MODULE MCInterceptPanel --------------------------
(***************************************************************************)
(* InterceptPanel with the two outcomes of a calculation that differ most  *)
(* in what they draw: the older case and the newer one.                    *)
(***************************************************************************)
EXTENDS InterceptPanel

MCShapes == {[solved |-> TRUE, drifted |-> TRUE],
             [solved |-> FALSE, drifted |-> FALSE]}
=============================================================================
