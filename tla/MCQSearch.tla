----------------------------- MODULE MCQSearch -----------------------------
(***************************************************************************)
(* Model: series of 4 points on a 3 x 3 grid starting at its origin, open *)
(* or closed, with or without an index; qMaxItems = 2 and qMaxDepth = 2   *)
(* so that 3 segments split a node, 4 in one quad split it again, and     *)
(* repeated points pile up at the depth cap.  The grid                    *)
(* lines 0, 3, 8 are uneven so that segments fall strictly inside quads   *)
(* at both levels, and are multiples of 2^QMaxDepth so every midpoint     *)
(* computed above the depth cap is an integer, as the float midpoints of  *)
(* the code are exact.                                                    *)
(***************************************************************************)
EXTENDS QSearch

MCQMaxItems == 2
MCQMaxDepth == 2

Scale == 2^MCQMaxDepth
Coords == {0, 3 * Scale, 8 * Scale}
GridPoints == Coords \X Coords

MCInputs == {<<<<<<0, 0>>>> \o ps, c>> : ps \in [1..3 -> GridPoints],
                                         c \in BOOLEAN}

MCOptions == {[Kind |-> QuadTree, MinPoints |-> 1],
              [Kind |-> None, MinPoints |-> 0]}

Box(x1, y1, x2, y2) == [min |-> <<x1, y1>>, max |-> <<x2, y2>>]

(* A corner point, a grid point inside the south-west quad, the west     *)
(* half of a full-grid series (its edge on the midline) and everything.   *)
MCQueries == {Box(0, 0, 0, 0), Box(3 * Scale, 3 * Scale, 3 * Scale, 3 * Scale),
              Box(0, 0, 4 * Scale, 8 * Scale), Box(0, 0, 8 * Scale, 8 * Scale)}

(* Stop at the second delivery (inside a quad after one at the root), or *)
(* never (more than the 4 segments).                                      *)
MCLimits == {2, 5}

MCWordBits == 16
=============================================================================
