---------------------------- MODULE SegmentGeom ----------------------------
(***************************************************************************)
(* The segment predicates of segment.go on integer coordinates: the       *)
(* collinearity cross product, IntersectsSegment (bounding boxes, shared  *)
(* endpoints, then the parametric test of ideone PnPJgb), ContainsSegment, *)
(* Distance and GetNearestToPoint.  A float quotient is kept exact: a     *)
(* parameter t = n / d is compared with 0 and 1 through its numerator and *)
(* denominator, a point is a pair of rationals <<num, den>>, and a        *)
(* distance is carried squared as a rational, so that no square root is   *)
(* taken.  On small integers the code's products are exact and its       *)
(* quotients only round t = d * (1 / d) down to 1 - 2^-53, which keeps    *)
(* every comparison with 0 and 1 of the code as here.                     *)
(***************************************************************************)
EXTENDS Integers, SeriesBase

CONSTANTS
  XCoords, YCoords,  \* the coordinates a point may take
  Deltas             \* the translations <<dx, dy>> given to Move

VARIABLES
  recv, arg,   \* the receiver and the argument segment
  pt,          \* the argument point
  answer       \* what the calls returned, or NoAnswer before they ran

vars == <<recv, arg, pt, answer>>

(* Point.Move, Point.Rect and the point predicates of point.go.  A Point  *)
(* contains and intersects exactly an equal point and the rectangle that  *)
(* is its own degenerate Rect.                                            *)
PointMove(p, d) == <<X(p) + d[1], Y(p) + d[2]>>

PointRect(p) == [min |-> p, max |-> p]

PointContainsPoint(p, other) == p = other

PointIntersectsPoint(p, other) == p = other

PointContainsRect(p, rect) == PointRect(p) = rect

(* Rect.ContainsPoint (rect.go is not among the sources): the closed     *)
(* rectangle holds the point.                                             *)
RectContainsPoint(rect, p) == ContainsRect(rect, PointRect(p))

PointIntersectsRect(p, rect) == RectContainsPoint(rect, p)

(* Segment.Move: both endpoints moved by the same delta. *)
SegMove(seg, d) == [A |-> PointMove(seg.A, d), B |-> PointMove(seg.B, d)]

(* Segment.GetCollinearity: the cross product (point - A) x (B - A).      *)
GetCollinearity(seg, p) ==
  (X(p) - X(seg.A)) * (Y(seg.B) - Y(seg.A)) - (Y(p) - Y(seg.A)) * (X(seg.B) - X(seg.A))

CollinearPoint(seg, p) == GetCollinearity(seg, p) = 0

(* seg.Raycast(p).On: p lies on the closed segment (raycast.go is not     *)
(* among the sources).                                                    *)
RaycastOn(seg, p) ==
  CollinearPoint(seg, p) /\ RectContainsPoint(SegRect(seg), p)

ContainsPoint(seg, p) == RaycastOn(seg, p)

(* Mutant: the endpoints are only tested for being on the segment's line. *)
ContainsSegmentCollinear(seg, other) ==
  CollinearPoint(seg, other.A) /\ CollinearPoint(seg, other.B)

ContainsSegment(seg, other) == RaycastOn(seg, other.A) /\ RaycastOn(seg, other.B)

(* The bounding-box early returns: the four branches per axis return     *)
(* false exactly when the two closed ranges [lo, hi] are disjoint.        *)
AxisDisjoint(a, b, c, d) ==
  LET lo1 == IF a > b THEN b ELSE a
      hi1 == IF a > b THEN a ELSE b
      lo2 == IF c > d THEN d ELSE c
      hi2 == IF c > d THEN c ELSE d
  IN lo1 > hi2 \/ hi1 < lo2

(* t == n * (1 / d) lies in [0, 1]. *)
InUnit(n, d) == IF d > 0 THEN 0 <= n /\ n <= d ELSE d <= n /\ n <= 0

(* Mutant: the parameter along `other` is only bounded below.            *)
IntersectsSegmentOpenU(seg, other) ==
  LET a == seg.A  b == seg.B  c == other.A  d == other.B
      cmpx == X(c) - X(a)  cmpy == Y(c) - Y(a)
      rx == X(b) - X(a)    ry == Y(b) - Y(a)
      sx == X(d) - X(c)    sy == Y(d) - Y(c)
      cmpxr == cmpx * ry - cmpy * rx
      cmpxs == cmpx * sy - cmpy * sx
      rxs == rx * sy - ry * sx
  IN CASE AxisDisjoint(Y(a), Y(b), Y(c), Y(d)) -> FALSE
       [] AxisDisjoint(X(a), X(b), X(c), X(d)) -> FALSE
       [] {a, b} \cap {c, d} # {} -> TRUE
       [] cmpxr = 0 ->
            \/ ((X(c) - X(a) <= 0) # (X(c) - X(b) <= 0))
            \/ ((Y(c) - Y(a) <= 0) # (Y(c) - Y(b) <= 0))
            \/ RaycastOn(seg, c) \/ RaycastOn(seg, d)
       [] rxs = 0 -> FALSE
       [] OTHER -> InUnit(cmpxs, rxs) /\ (IF rxs > 0 THEN 0 <= cmpxr ELSE cmpxr <= 0)

(* Segment.IntersectsSegment.  When other.A is collinear with seg and     *)
(* lies between seg's endpoints on some axis the answer is true;          *)
(* otherwise it is whether other.A or other.B lies on seg.  Parallel      *)
(* lines are rejected, and crossing lines meet iff both parameters t      *)
(* (along seg) and u (along other) lie in [0, 1].                         *)
IntersectsSegment(seg, other) ==
  LET a == seg.A  b == seg.B  c == other.A  d == other.B
      cmpx == X(c) - X(a)  cmpy == Y(c) - Y(a)
      rx == X(b) - X(a)    ry == Y(b) - Y(a)
      sx == X(d) - X(c)    sy == Y(d) - Y(c)
      cmpxr == cmpx * ry - cmpy * rx
      cmpxs == cmpx * sy - cmpy * sx
      rxs == rx * sy - ry * sx
  IN CASE AxisDisjoint(Y(a), Y(b), Y(c), Y(d)) -> FALSE
       [] AxisDisjoint(X(a), X(b), X(c), X(d)) -> FALSE
       [] {a, b} \cap {c, d} # {} -> TRUE
       [] cmpxr = 0 ->
            \/ ((X(c) - X(a) <= 0) # (X(c) - X(b) <= 0))
            \/ ((Y(c) - Y(a) <= 0) # (Y(c) - Y(b) <= 0))
            \/ RaycastOn(seg, c) \/ RaycastOn(seg, d)
       [] rxs = 0 -> FALSE
       [] OTHER -> InUnit(cmpxs, rxs) /\ InUnit(cmpxr, rxs)

(* |p - o|^2 *)
PointDist2(p, o) == (X(p) - X(o)) ^ 2 + (Y(p) - Y(o)) ^ 2

(* Mutant: the numerator without the constant term B.x A.y - B.y A.x.    *)
Distance2NoOffset(seg, p) ==
  LET size2 == PointDist2(seg.A, seg.B)
      dy == Y(seg.B) - Y(seg.A)
      dx == X(seg.B) - X(seg.A)
      num == dy * X(p) - dx * Y(p)
  IN IF size2 = 0 THEN [n |-> PointDist2(seg.A, p), d |-> 1]
     ELSE [n |-> num ^ 2, d |-> size2]

(* Segment.Distance, squared as a rational [n, d]: the distance from the  *)
(* point to the LINE through A and B, or to A when A = B.                 *)
Distance2(seg, p) ==
  LET size2 == PointDist2(seg.A, seg.B)
      dy == Y(seg.B) - Y(seg.A)
      dx == X(seg.B) - X(seg.A)
      num == dy * X(p) - dx * Y(p) + X(seg.B) * Y(seg.A) - Y(seg.B) * X(seg.A)
  IN IF size2 = 0 THEN [n |-> PointDist2(seg.A, p), d |-> 1]
     ELSE [n |-> num ^ 2, d |-> size2]

(* Mutant: rx without the (-1) factor.                                    *)
GetNearestToPointNoNeg(seg, C) ==
  LET a == Y(seg.A) - Y(seg.B)
      b == X(seg.B) - X(seg.A)
      c == X(seg.A) * Y(seg.B) - X(seg.B) * Y(seg.A)
      den == a * a + b * b
      ryn == a * a * Y(C) - a * b * X(C) - b * c
  IN CASE a = 0 -> [x |-> <<X(C), 1>>, y |-> <<Y(seg.A), 1>>]
       [] Distance2(seg, C).n = 0 -> [x |-> <<X(C), 1>>, y |-> <<Y(C), 1>>]
       [] OTHER -> [x |-> <<c * den + b * ryn, a * den>>, y |-> <<ryn, den>>]

(* Segment.GetNearestToPoint for the line a x + b y + c = 0 through the   *)
(* segment: coordinates as rationals <<num, den>>.                       *)
GetNearestToPoint(seg, C) ==
  LET a == Y(seg.A) - Y(seg.B)
      b == X(seg.B) - X(seg.A)
      c == X(seg.A) * Y(seg.B) - X(seg.B) * Y(seg.A)
      den == a * a + b * b
      ryn == a * a * Y(C) - a * b * X(C) - b * c
  IN CASE a = 0 -> [x |-> <<X(C), 1>>, y |-> <<Y(seg.A), 1>>]
       [] Distance2(seg, C).n = 0 -> [x |-> <<X(C), 1>>, y |-> <<Y(C), 1>>]
       [] OTHER -> [x |-> <<-(c * den + b * ryn), a * den>>, y |-> <<ryn, den>>]

Points == XCoords \X YCoords
Segments == [A : Points, B : Points]
NoAnswer == [done |-> FALSE]

(* What each call returns for a receiver segment s, an argument segment o *)
(* and an argument point p; the point predicates take o.A and o's Rect.  *)
Calls(s, o, p) ==
  [intersects |-> IntersectsSegment(s, o),
   contains |-> ContainsSegment(s, o),
   containsPoint |-> ContainsPoint(s, p),
   dist |-> Distance2(s, p),
   nearest |-> GetNearestToPoint(s, p),
   pointContainsPoint |-> PointContainsPoint(p, o.A),
   pointIntersectsPoint |-> PointIntersectsPoint(p, o.A),
   pointContainsRect |-> PointContainsRect(p, SegRect(o)),
   pointIntersectsRect |-> PointIntersectsRect(p, SegRect(o))]

Init ==
  /\ recv \in Segments /\ arg \in Segments /\ pt \in Points
  /\ answer = NoAnswer

(* The calls on the chosen arguments, and on the same arguments moved by  *)
(* each delta; each is a pure function that returns, so the behaviour     *)
(* stops after it.                                                        *)
Evaluate ==
  /\ answer = NoAnswer
  /\ answer' = [done |-> TRUE,
                call |-> Calls(recv, arg, pt),
                moved |-> [d \in Deltas |->
                             Calls(SegMove(recv, d), SegMove(arg, d), PointMove(pt, d))]]
  /\ UNCHANGED <<recv, arg, pt>>

Next == Evaluate

Spec == Init /\ [][Next]_vars

(***************************************************************************)
(* References.  Two closed segments meet iff each one's endpoints lie on  *)
(* strictly opposite sides of the other's line, or an endpoint of one is  *)
(* on the other (collinear with it and within its box).                   *)
(***************************************************************************)
Orient(p, q, r) ==
  LET v == (X(q) - X(p)) * (Y(r) - Y(p)) - (Y(q) - Y(p)) * (X(r) - X(p))
  IN IF v > 0 THEN 1 ELSE IF v < 0 THEN -1 ELSE 0

WithinBox(s, p) ==
  \A i \in 1..2 : Min({s.A[i], s.B[i]}) <= p[i] /\ p[i] <= Max({s.A[i], s.B[i]})

Meet(s, o) ==
  LET o1 == Orient(s.A, s.B, o.A)  o2 == Orient(s.A, s.B, o.B)
      o3 == Orient(o.A, o.B, s.A)  o4 == Orient(o.A, o.B, s.B)
  IN \/ o1 # o2 /\ o3 # o4
     \/ o1 = 0 /\ WithinBox(s, o.A)
     \/ o2 = 0 /\ WithinBox(s, o.B)
     \/ o3 = 0 /\ WithinBox(o, s.A)
     \/ o4 = 0 /\ WithinBox(o, s.B)

Degenerate(s) == s.A = s.B

(* IntersectsSegment never reports a meeting that is not there: the     *)
(* bounding-box early returns, the shared-endpoint shortcut, the        *)
(* collinear branch taken on other.A alone and the two parameter bounds *)
(* of the crossing test together only accept segments with a common     *)
(* point.                                                               *)
IntersectsSegmentSound ==
  answer.done /\ answer.call.intersects => Meet(recv, arg)

(* Every two segments of non-zero length that meet are reported: the    *)
(* collinear branch, entered when other.A is on seg's line, must also   *)
(* accept a seg lying inside other with both of other's endpoints     *)
(* beyond it.                                                           *)
IntersectsSegmentComplete ==
  answer.done /\ ~Degenerate(recv) /\ ~Degenerate(arg) /\ Meet(recv, arg)
    => answer.call.intersects

(* For a segment of non-zero length, GetNearestToPoint returns the foot  *)
(* of the perpendicular from the point to the segment's line: on the    *)
(* line, and the offset to the point orthogonal to B - A, through the    *)
(* horizontal-line shortcut (a = 0), the on-line shortcut                *)
(* (Distance = 0) and the general formula.                               *)
NearestIsFoot ==
  answer.done /\ ~Degenerate(recv) =>
    LET r == answer.call.nearest
        xn == r.x[1]  xd == r.x[2]  yn == r.y[1]  yd == r.y[2]
        dx == X(recv.B) - X(recv.A)
        dy == Y(recv.B) - Y(recv.A)
    IN /\ (xn - X(recv.A) * xd) * yd * dy = (yn - Y(recv.A) * yd) * xd * dx
       /\ (xn - X(pt) * xd) * yd * dx + (yn - Y(pt) * yd) * xd * dy = 0

(* Rationals <<num, den>> with a non-zero denominator. *)
RatEq(a, b) == a[1] * b[2] = b[1] * a[2]

(* Every call is unchanged by moving its arguments: Segment.Move and      *)
(* Point.Move commute with IntersectsSegment, ContainsSegment,            *)
(* ContainsPoint, Distance and the point predicates, and the point        *)
(* GetNearestToPoint returns moves with them.  The code computes with     *)
(* differences of coordinates except for the constant terms of Distance   *)
(* and GetNearestToPoint, which must cancel.                              *)
MoveCommutes ==
  answer.done =>
    \A d \in Deltas :
      LET c == answer.call  m == answer.moved[d] IN
      /\ \A f \in DOMAIN c \ {"dist", "nearest"} : m[f] = c[f]
      /\ RatEq(<<m.dist.n, m.dist.d>>, <<c.dist.n, c.dist.d>>)
      /\ RatEq(m.nearest.x, <<c.nearest.x[1] + d[1] * c.nearest.x[2], c.nearest.x[2]>>)
      /\ RatEq(m.nearest.y, <<c.nearest.y[1] + d[2] * c.nearest.y[2], c.nearest.y[2]>>)

(* The Geometry contract that containment implies intersection, for a   *)
(* segment containing a segment (two Raycasts against the bounding-box,  *)
(* shared-endpoint and collinear branches of IntersectsSegment) and for  *)
(* a point containing a point or a rectangle.                            *)
ContainsImpliesIntersects ==
  answer.done =>
    LET c == answer.call IN
    /\ c.contains => c.intersects
    /\ c.pointContainsPoint => c.pointIntersectsPoint
    /\ c.pointContainsRect => c.pointIntersectsRect
=============================================================================
