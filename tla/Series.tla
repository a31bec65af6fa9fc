------------------------------- MODULE Series -------------------------------
(***************************************************************************)
(* A series value (baseSeries in series.go) and the two operations that   *)
(* make one: makeSeries, which sweeps the points once and builds the      *)
(* index when the options ask for it, and Move, which translates the      *)
(* points into a new series made with the default options and then        *)
(* forces the source's index kind and rebuilds if the source had an       *)
(* index.  A series is immutable: `series` is the last one made and       *)
(* `source` the series the last Move was applied to.  buildIndex is the  *)
(* builder of QTree run to completion, through an instance of QTree on    *)
(* the series' own points.                                                 *)
(***************************************************************************)
EXTENDS Integers, Sequences, SequencesExt, SeriesBase

CONSTANTS
  QMaxItems, QMaxDepth, WordBits,
  Inputs,            \* set of <<points, closed>> handed to makeSeries
  Options,           \* set of [Kind, MinPoints] handed to makeSeries
  Deltas,            \* set of <<dx, dy>> handed to Move
  DefaultMinPoints,  \* DefaultIndexOptions.MinPoints (64 in the code)
  MaxMoves,          \* bound on successive Moves of one series
  Queries,           \* rectangles searched on a series and its moved copy
  Callers,           \* records [q, ...]: distance functionals from a point q
  DistToRect(_, _),
  DistToSegment(_, _),
  NaN                \* math.NaN()

None == 0
QuadTree == 1

(* DefaultIndexOptions, which makeSeries uses for a nil opts.             *)
DefaultIndexOptions == [Kind |-> QuadTree, MinPoints |-> DefaultMinPoints]

VARIABLES series, source, moves

vars == <<series, source, moves>>

Tree(pts, cl, rc) == INSTANCE QTree
  WITH points <- pts, closed <- cl, rect <- rc, indexKind <- None,
       index <- <<>>, nodes <- <<>>, next <- 0, building <- FALSE,
       Inputs <- {}, Options <- {}

(* baseSeries.Search of QSearch on a series value s.                      *)
Srch(s) == INSTANCE QSearch
  WITH points <- s.points, closed <- s.closed, rect <- s.rect,
       indexKind <- s.indexKind, index <- s.index, nodes <- <<>>, next <- 0,
       building <- FALSE, Inputs <- {}, Options <- {}, Queries <- {},
       Limits <- {}, query <- ZeroRect, limit <- 0, found <- <<>>

(* Search(R, iter) with a callback that never stops: the linear scan     *)
(* without an index, qCompressSearch over the bytes with one.             *)
Found(s, R) ==
  LET never == NumSegments(s.points, s.closed) + 1 IN
  IF s.index = <<>> THEN Srch(s)!LinearSearch(0, R, never, <<>>)
  ELSE Srch(s)!IndexSearch(R, never)

(* qCompressNearbySegment of Nearest on a series value s, in the loop    *)
(* state st = [caller, pq, addr, bounds, searching, result].               *)
Near(s, st) == INSTANCE Nearest
  WITH points <- s.points, closed <- s.closed, rect <- s.rect,
       indexKind <- s.indexKind, index <- s.index, nodes <- <<>>, next <- 0,
       building <- FALSE, Inputs <- {}, Options <- {},
       caller <- st.caller, pq <- st.pq, addr <- st.addr, bounds <- st.bounds,
       searching <- st.searching, result <- st.result

(* The outer loop run to its return, one Turn at a time: each turn that  *)
(* goes on decodes bytes of the index, so Len(index) turns are enough.    *)
RunNearest(s, st0) ==
  LET run[k \in 0..Len(s.index)] ==
        IF k = 0 THEN st0
        ELSE LET st == run[k - 1] IN
             IF st.searching THEN [caller |-> st.caller] @@ Near(s, st)!Turn ELSE st
  IN run[Len(s.index)].result

(* DistanceToSeries: the linear scan without an index; otherwise the      *)
(* search from the node after the 5-byte header, in the series' rect,    *)
(* with the pooled queue emptied.                                         *)
DistanceToSeries(s, c) ==
  LET st == [caller |-> c, pq |-> <<>>, addr |-> 5, bounds |-> s.rect,
             searching |-> TRUE, result |-> NaN]  \* result: set on return
  IN IF s.index = <<>> THEN Near(s, st)!LinearNearest(c)
     ELSE RunNearest(s, st)

(* The loop of buildIndex: segments 0..n-1 inserted into a fresh root.   *)
BuildTree(s) ==
  FoldLeft(LAMBDA ns, i : Tree(s.points, s.closed, s.rect)!Insert(ns, <<>>, s.rect,
                            Tree(s.points, s.closed, s.rect)!ItemRect(i), i, 0),
           <<>> :> Tree(s.points, s.closed, s.rect)!EmptyNode,
           [k \in 1..NumSegments(s.points, s.closed) |-> k - 1])

(* buildIndex: nothing if already built; otherwise the compressed tree    *)
(* behind the header, stamped with its length by setCompressed.          *)
BuildIndex(s) ==
  IF s.index # <<>> THEN s
  ELSE [s EXCEPT !.index = Tree(s.points, s.closed, s.rect)!SetCompressed(
          <<s.indexKind, 0, 0, 0, 0>>
          \o Tree(s.points, s.closed, s.rect)!Compress(BuildTree(s), <<>>))]

(* makeSeries: processPoints once; the index when MinPoints is non-zero   *)
(* and reached, with the options' Kind.                                   *)
MakeSeries(pts, cl, opts) ==
  LET m == ProcessPoints(pts, cl)
      s == [points |-> pts, closed |-> cl, convex |-> m.convex, rect |-> m.rect,
            clockwise |-> m.clockwise, indexKind |-> None, index |-> <<>>]
  IN IF opts.MinPoints # 0 /\ Len(pts) >= opts.MinPoints
     THEN BuildIndex([s EXCEPT !.indexKind = opts.Kind])
     ELSE s

(* baseSeries.Move *)
MoveSeries(s, d) ==
  LET pts == [i \in DOMAIN s.points |-> <<X(s.points[i]) + X(d),
                                          Y(s.points[i]) + Y(d)>>]
      nseries == [MakeSeries(pts, s.closed, DefaultIndexOptions)
                    EXCEPT !.indexKind = s.indexKind]
  IN IF s.index # <<>> THEN BuildIndex(nseries) ELSE nseries

Init ==
  \E in \in Inputs, opts \in Options :
    /\ series = MakeSeries(in[1], in[2], opts)
    /\ source = series
    /\ moves = 0

(* A caller moves the last series made (the initial states are the series *)
(* makeSeries can return).                                                 *)
Move(d) ==
  /\ moves < MaxMoves
  /\ series' = MoveSeries(series, d)
  /\ source' = series
  /\ moves' = moves + 1

Next == \E d \in Deltas : Move(d)

Spec == Init /\ [][Next]_vars

(***************************************************************************)
(* Properties.  The references below are the textbook definitions over   *)
(* the ring p[0], p[1], ..., p[n-1], p[0], ... (indices mod n).           *)
(***************************************************************************)
Ring(pts, i) == pts[(i % Len(pts)) + 1]

ZCross(a, b, c) == (X(b) - X(a)) * (Y(c) - Y(b)) - (Y(b) - Y(a)) * (X(c) - X(b))

(* z of the turn at p[i+1] between edges p[i]p[i+1] and p[i+1]p[i+2].    *)
Turn(pts, i) == ZCross(Ring(pts, i), Ring(pts, i + 1), Ring(pts, i + 2))

(* Convex: no two turns of opposite sign, collinear ones ignored.        *)
ConvexRef(pts, is) == ~\E i, j \in is : Turn(pts, i) > 0 /\ Turn(pts, j) < 0

(* Twice the signed area by the shoelace formula, positive when the     *)
(* points run counterclockwise (y up).                                   *)
Area2(pts, is) ==
  MapThenSumSet(LAMBDA i : X(Ring(pts, i)) * Y(Ring(pts, i + 1))
                           - X(Ring(pts, i + 1)) * Y(Ring(pts, i)), is)

Envelope(pts) ==
  [min |-> <<Min({X(p) : p \in ToSet(pts)}), Min({Y(p) : p \in ToSet(pts)})>>,
   max |-> <<Max({X(p) : p \in ToSet(pts)}), Max({Y(p) : p \in ToSet(pts)})>>]

(* The single-pass sweep of processPoints, with its incremental else-if   *)
(* inflation, first-sign tracking and early stop once concave, and the    *)
(* running sum (b.x - a.x)(b.y + a.y), computes for every series made the *)
(* bounding box, and for a closed one the convexity of the ring and       *)
(* clockwise = negative area (spec 8.2 and 8.4); degenerate series get    *)
(* the zero values.  Open series are held to the linear reference of      *)
(* OpenSweepIsLinear instead.                                             *)
SweepIsCyclic ==
  LET pts == series.points
      is == 0..(Len(pts) - 1)
  IN IF Empty(pts, series.closed)
     THEN series.rect = ZeroRect /\ ~series.convex /\ ~series.clockwise
     ELSE /\ series.rect = Envelope(pts)
          /\ series.closed =>
               /\ series.convex = ConvexRef(pts, is)
               /\ series.clockwise = (Area2(pts, is) < 0)

Shifted(s, d) == [i \in DOMAIN s.points |-> <<X(s.points[i]) + X(d),
                                               Y(s.points[i]) + Y(d)>>]

(* A Move of an indexed series rebuilds byte for byte the same index (the *)
(* tree is laid out relative to series.rect), so searches on the moved    *)
(* series with moved rectangles return the same segments (spec 8.10),     *)
(* whether makeSeries' default options or the rebuild made it.            *)
MoveKeepsIndexBytes ==
  moves > 0 /\ source.index # <<>> => series.index = source.index

ShiftRect(R, d) == [min |-> <<X(R.min) + X(d), Y(R.min) + Y(d)>>,
                    max |-> <<X(R.max) + X(d), Y(R.max) + Y(d)>>]

(* Spec 8.10: a search of the moved series with the moved rectangle       *)
(* returns the same segments as the source's search, whichever of the    *)
(* linear scan and the index answers each of them (Move may build an     *)
(* index the source did not have).                                        *)
MoveSearchesShifted ==
  moves > 0 =>
    \E d \in Deltas :
      /\ series.points = Shifted(source, d)
      /\ \A R \in Queries : ToSet(Found(series, ShiftRect(R, d))) = ToSet(Found(source, R))

(* Spec 8.9 and 8.10 together: DistanceToSeries on the moved series, with *)
(* each caller's query point moved by the same delta, returns the         *)
(* distance it returns on the source, whether the linear scan or the     *)
(* best-first search over the rebuilt bytes (with quad bounds derived    *)
(* from the moved rect) answers each call; and the same index when the   *)
(* same branch answers both (the linear branch reports index 0 whatever  *)
(* the argmin, and Move may add an index: findings 1 and 2).             *)
MoveNearestShifted ==
  moves > 0 =>
    \E d \in Deltas :
      /\ series.points = Shifted(source, d)
      /\ \A c \in Callers :
           LET r0 == DistanceToSeries(source, c)
               r1 == DistanceToSeries(series, [c EXCEPT !.q = <<X(c.q) + X(d), Y(c.q) + Y(d)>>])
           IN /\ r1.dist = r0.dist
              /\ (series.index = <<>>) = (source.index = <<>>) => r1.idx = r0.idx

(* Spec 8.10 and 6: the moved series has an index iff its source had    *)
(* one, and its kind byte (spec 4.5: byte 0 is the index kind) is the    *)
(* kind Move gives the new series, the source's.  Move makes the series  *)
(* with DefaultIndexOptions first and only then sets indexKind and calls *)
(* buildIndex, which returns at once if that default build happened.     *)
MoveKeepsIndex ==
  moves > 0 =>
    /\ (series.index # <<>>) = (source.index # <<>>)
    /\ series.index # <<>> => series.index[1] = series.indexKind

(* The winding sum of spec 2 and 4.3, Sum (b.x - a.x)(b.y + a.y) over the *)
(* consecutive pairs (p[i], p[i+1]) for i in is.                          *)
Cwc(pts, is) ==
  MapThenSumSet(LAMBDA i : (X(Ring(pts, i + 1)) - X(Ring(pts, i)))
                           * (Y(Ring(pts, i + 1)) + Y(Ring(pts, i))), is)

(* Spec 2 and 4.3: an open series is traversed linearly, with no wrap: it *)
(* is convex iff its triples p[i], p[i+1], p[i+2] turn one way, and it is *)
(* clockwise iff the sum over its pairs p[i], p[i+1] is positive.  The    *)
(* processPoints loop takes the wrapped triples and the wrapped pair at   *)
(* its last points whether the series is closed or not.                   *)
OpenSweepIsLinear ==
  ~series.closed /\ ~Empty(series.points, FALSE) =>
    LET n == Len(series.points) IN
    /\ series.convex = ConvexRef(series.points, 0..(n - 3))
    /\ series.clockwise = (Cwc(series.points, 0..(n - 2)) > 0)

=============================================================================
