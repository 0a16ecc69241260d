------------------------- MODULE MCMovingIntercept -------------------------
(***************************************************************************)
(* MovingIntercept for every target that starts up to MaxRange away and    *)
(* stands still, or comes nearer or goes away at full speed, from one tick *)
(* to the next.                                                            *)
(***************************************************************************)
EXTENDS MovingIntercept, SequencesExt

CONSTANT MaxRange

\* The distances from r on; the target passes through own-ship's position
\* rather than beyond it.
Approach(r, speed) == IF r + speed < 0 THEN 0 ELSE r + speed

Distances(r, speeds) ==
  FoldLeft(LAMBDA seen, v : Append(seen, Approach(Last(seen), v)), <<r>>, speeds)

MCTrajectories ==
  LET paths == {Distances(r, speeds) : r \in 0..MaxRange,
                  speeds \in [1..Cap -> {-MaxTargetSpeed, 0, MaxTargetSpeed}]}
  IN  {[t \in 0..Cap |-> p[t + 1]] : p \in paths}
=============================================================================
