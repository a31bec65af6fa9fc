----------------------------- MODULE MCNearest -----------------------------
(***************************************************************************)
(* Indexed series as in MCQSearch (4 points from the origin on the uneven *)
(* grid 0, 3, 8 scaled by 2^QMaxDepth; qMaxItems = 2, qMaxDepth = 2) and  *)
(* callers measuring squared Euclidean distance from a query point: to a  *)
(* rectangle (series_test.go's distPointToRect, squared), and to a        *)
(* segment either by its nearer endpoint or by its rectangle.  Both meet  *)
(* the contract DistToRect(r) <= DistToSegment(s) for s inside r; the     *)
(* endpoint one ties adjacent segments, the rectangle one ties segments   *)
(* with the quads that hold them.                                         *)
(***************************************************************************)
EXTENDS Nearest

MCQMaxItems == 2
MCQMaxDepth == 2
MCWordBits == 16

Scale == 2^MCQMaxDepth
Coords == {0, 3 * Scale, 8 * Scale}
GridPoints == Coords \X Coords

(* Series of 4 points from the origin, open or closed: up to 4 segments,  *)
(* enough for two splits and the depth cap.                               *)
(* Plus a closed two-point series: indexed, with no segment at all.       *)
MCInputs == {<<<<<<0, 0>>>> \o ps, c>> : ps \in [1..3 -> GridPoints],
                                         c \in BOOLEAN}
            \cup {<<<<<<0, 0>>, <<8 * Scale, 0>>>>, TRUE>>}

MCOptions == {[Kind |-> QuadTree, MinPoints |-> 1]}

(* The default options of a series too short to be indexed: no index.    *)
MCOptionsLinear == {[Kind |-> QuadTree, MinPoints |-> 64]}

(* A grid corner, the centre of the grid and a point off the grid lines. *)
QueryPoints == {<<0, 0>>, <<4 * Scale, 4 * Scale>>, <<7 * Scale, 1 * Scale>>}

MCCallers == [q : QueryPoints, metric : {"endpoint", "box"}]

Sq(v) == v * v

Gap(v, lo, hi) == IF v < lo THEN lo - v ELSE IF v > hi THEN v - hi ELSE 0

MCDistToRect(c, r) ==
  Sq(Gap(X(c.q), X(r.min), X(r.max))) + Sq(Gap(Y(c.q), Y(r.min), Y(r.max)))

PointDist(p, o) == Sq(X(p) - X(o)) + Sq(Y(p) - Y(o))

MCDistToSegment(c, seg) ==
  IF c.metric = "endpoint"
  THEN IF PointDist(c.q, seg.A) <= PointDist(c.q, seg.B)
       THEN PointDist(c.q, seg.A) ELSE PointDist(c.q, seg.B)
  ELSE MCDistToRect(c, SegRect(seg))
=============================================================================
