------------------------------ MODULE MCSeries ------------------------------
(***************************************************************************)
(* Series of 2 to 4 points from the origin on the uneven grid 0, 3, 8      *)
(* scaled by 2^QMaxDepth (so every midpoint the builder takes is exact),   *)
(* open or closed, made with an index from 3 points or with NoIndexing,    *)
(* and moved twice by whole grid cells.  DefaultIndexOptions.MinPoints is  *)
(* lowered from 64 to 4 so that Move's default build happens.             *)
(***************************************************************************)
EXTENDS Series

MCQMaxItems == 2
MCQMaxDepth == 2
MCWordBits == 16
MCDefaultMinPoints == 4
MCMaxMoves == 2

Scale == 2^MCQMaxDepth
Coords == {0, 3 * Scale, 8 * Scale}
GridPoints == Coords \X Coords

MCInputs == {<<<<<<0, 0>>>> \o ps, c>> : ps \in UNION {[1..k -> GridPoints] : k \in 1..3},
                                        c \in BOOLEAN}

MCOptions == {[Kind |-> QuadTree, MinPoints |-> 3], [Kind |-> None, MinPoints |-> 0]}

(* For the Move run: also an index of kind None, which makeSeries builds  *)
(* since it tests MinPoints only.                                         *)
MCOptionsMove == MCOptions \cup {[Kind |-> None, MinPoints |-> 3]}

MCDeltas == {<<8 * Scale, 0>>, <<0, -3 * Scale>>}

Box(x1, y1, x2, y2) == [min |-> <<x1, y1>>, max |-> <<x2, y2>>]
(* The origin, the grid line x = 3, the west half of the first grid and  *)
(* a cell met by series moved once by either delta.                       *)
MCQueries == {Box(0, 0, 0, 0), Box(3 * Scale, 0, 3 * Scale, 8 * Scale),
              Box(0, 0, 4 * Scale, 8 * Scale),
              Box(8 * Scale, -3 * Scale, 11 * Scale, 3 * Scale)}

(* Callers as in MCNearest: squared Euclidean distance from a grid corner *)
(* and from a point off the grid lines, to a rectangle, and to a segment  *)
(* by its nearer endpoint or by its rectangle.                            *)
MCCallers == [q : {<<0, 0>>, <<7 * Scale, 1 * Scale>>}, metric : {"endpoint", "box"}]

Sq(v) == v * v

Gap(v, lo, hi) == IF v < lo THEN lo - v ELSE IF v > hi THEN v - hi ELSE 0

MCDistToRect(c, r) ==
  Sq(Gap(X(c.q), X(r.min), X(r.max))) + Sq(Gap(Y(c.q), Y(r.min), Y(r.max)))

PointDist(p, o) == Sq(X(p) - X(o)) + Sq(Y(p) - Y(o))

MCDistToSegment(c, seg) ==
  IF c.metric = "endpoint"
  THEN IF PointDist(c.q, seg.A) <= PointDist(c.q, seg.B)
       THEN PointDist(c.q, seg.A) ELSE PointDist(c.q, seg.B)
  ELSE MCDistToRect(c, SegRect(seg))
=============================================================================
