----------------------------- MODULE SeriesBase -----------------------------
(***************************************************************************)
(* The read-only helpers of a series (series.go, segment.go): points,      *)
(* segments, their rectangles, the segment-count rule and the single-pass  *)
(* metadata sweep processPoints.  Coordinates are integers; a Point is     *)
(* <<x, y>> and a Rect is [min |-> Point, max |-> Point].  Indexes passed  *)
(* to these operators are the code's 0-based ones.                         *)
(***************************************************************************)
EXTENDS Integers, Sequences, SequencesExt

X(p) == p[1]
Y(p) == p[2]

ZeroRect == [min |-> <<0, 0>>, max |-> <<0, 0>>]

(* baseSeries.NumSegments: wrap segment for closed series, suppressed when *)
(* the last point repeats the first.                                       *)
NumSegments(points, closed) ==
  LET n == Len(points) IN
  IF closed
  THEN IF n < 3 THEN 0
       ELSE IF points[n] = points[1] THEN n - 1 ELSE n
  ELSE IF n < 2 THEN 0 ELSE n - 1

(* baseSeries.Empty *)
Empty(points, closed) ==
  (closed /\ Len(points) < 3) \/ Len(points) < 2

(* baseSeries.SegmentAt: the segment after the last point wraps to the    *)
(* first one.                                                              *)
SegmentAt(points, index) ==
  [A |-> points[index + 1],
   B |-> IF index = Len(points) - 1 THEN points[1] ELSE points[index + 2]]

(* Segment.Rect: the corners, swapped per axis when out of order.         *)
SegRect(seg) ==
  [min |-> <<IF X(seg.A) > X(seg.B) THEN X(seg.B) ELSE X(seg.A),
             IF Y(seg.A) > Y(seg.B) THEN Y(seg.B) ELSE Y(seg.A)>>,
   max |-> <<IF X(seg.A) > X(seg.B) THEN X(seg.A) ELSE X(seg.B),
             IF Y(seg.A) > Y(seg.B) THEN Y(seg.A) ELSE Y(seg.B)>>]

(* Rect.IntersectsRect and Rect.ContainsRect: closed intervals on both    *)
(* axes (rect.go is not part of the sources; taken from the spec, sec. 3). *)
IntersectsRect(r, o) ==
  \A k \in 1..2 : r.min[k] <= o.max[k] /\ o.min[k] <= r.max[k]

ContainsRect(r, o) ==
  \A k \in 1..2 : r.min[k] <= o.min[k] /\ o.max[k] <= r.max[k]

(***************************************************************************)
(* processPoints: one loop over the points inflating the rectangle,       *)
(* accumulating the winding sum cwc and tracking the sign of the z cross  *)
(* product of consecutive triples.  The triple and the winding pair wrap  *)
(* around at the end whether or not the series is closed.                 *)
(***************************************************************************)
Inflate(rect, p) ==
  [min |-> <<IF X(p) < X(rect.min) THEN X(p) ELSE X(rect.min),
             IF Y(p) < Y(rect.min) THEN Y(p) ELSE Y(rect.min)>>,
   max |-> <<IF X(p) < X(rect.min) THEN X(rect.max)
             ELSE IF X(p) > X(rect.max) THEN X(p) ELSE X(rect.max),
             IF Y(p) < Y(rect.min) THEN Y(rect.max)
             ELSE IF Y(p) > Y(rect.max) THEN Y(p) ELSE Y(rect.max)>>]

(* Mutant: the triple at the next-to-last point wraps to p[1].          *)
SweepStepWrapC(points, acc, i) ==
  LET n == Len(points)
      P(k) == points[k + 1]
      a == P(i)
      b == IF i = n - 1 THEN P(0) ELSE P(i + 1)
      c == IF i = n - 1 THEN P(1) ELSE IF i = n - 2 THEN P(1) ELSE P(i + 2)
      z == (X(b) - X(a)) * (Y(c) - Y(b)) - (Y(b) - Y(a)) * (X(c) - X(b))
      sgn == IF z < 0 THEN -1 ELSE IF z > 0 THEN 1 ELSE 0
  IN [rect    |-> IF i = 0 THEN [min |-> P(0), max |-> P(0)]
                  ELSE Inflate(acc.rect, P(i)),
      cwc     |-> acc.cwc + (X(b) - X(a)) * (Y(b) + Y(a)),
      dir     |-> IF ~acc.concave /\ acc.dir = 0 THEN sgn ELSE acc.dir,
      concave |-> acc.concave \/ (acc.dir # 0 /\ sgn = -acc.dir)]

SweepStep(points, acc, i) ==
  LET n == Len(points)
      P(k) == points[k + 1]
      a == P(i)
      b == IF i = n - 1 THEN P(0) ELSE P(i + 1)
      c == IF i = n - 1 THEN P(1) ELSE IF i = n - 2 THEN P(0) ELSE P(i + 2)
      z == (X(b) - X(a)) * (Y(c) - Y(b)) - (Y(b) - Y(a)) * (X(c) - X(b))
      sgn == IF z < 0 THEN -1 ELSE IF z > 0 THEN 1 ELSE 0
  IN [rect    |-> IF i = 0 THEN [min |-> P(0), max |-> P(0)]
                  ELSE Inflate(acc.rect, P(i)),
      cwc     |-> acc.cwc + (X(b) - X(a)) * (Y(b) + Y(a)),
      dir     |-> IF ~acc.concave /\ acc.dir = 0 THEN sgn ELSE acc.dir,
      concave |-> acc.concave \/ (acc.dir # 0 /\ sgn = -acc.dir)]

ProcessPoints(points, closed) ==
  IF (closed /\ Len(points) < 3) \/ Len(points) < 2
  THEN [convex |-> FALSE, rect |-> ZeroRect, clockwise |-> FALSE]
  ELSE LET r == FoldLeft(LAMBDA acc, i : SweepStep(points, acc, i),
                         [rect |-> ZeroRect, cwc |-> 0, dir |-> 0,
                          concave |-> FALSE],
                         [k \in 1..Len(points) |-> k - 1])
       IN [convex |-> ~r.concave, rect |-> r.rect, clockwise |-> r.cwc > 0]
=============================================================================
