------------------------------ MODULE MCQTree ------------------------------
(***************************************************************************)
(* Model of the builder alone: every series of 5 points on a 3 x 3 grid,  *)
(* open or closed, indexed with MinPoints = 1.  Four segments in one root *)
(* quad split it again at depth 1, and qMaxItems = 2, qMaxDepth = 2 make  *)
(* the depth cap reachable.  Grid lines 0, 3, 8 are uneven so segments    *)
(* nest strictly inside quads, and are multiples of 2^QMaxDepth so every  *)
(* midpoint computed above the cap is an integer.                         *)
(***************************************************************************)
EXTENDS QTree

MCQMaxItems == 2
MCQMaxDepth == 2
MCWordBits == 16

Scale == 2^MCQMaxDepth
Coords == {0, 3 * Scale, 8 * Scale}
GridPoints == Coords \X Coords

MCInputs == {<<ps, c>> : ps \in [1..5 -> GridPoints], c \in BOOLEAN}

MCOptions == {[Kind |-> QuadTree, MinPoints |-> 1]}
=============================================================================
