# TLA+ models of the geometry series index

These modules model the segment series of this repository and the index built
over it. The code lives in `src/unnamed/part_000` (series.go), `src/qtree.go`,
`src/queue.go` and `src/segment.go`. The modules check the index with TLC:
how it is built, how it is laid out in bytes, how it is searched, and how a
series is moved.

## The system

- **Series** (`baseSeries`, series.go). This is an immutable value.
  - `makeSeries` runs one pass over the points (`processPoints`). That pass
    computes the bounding rect, convexity and winding.
  - When the options ask for it (`MinPoints != 0 && len >= MinPoints`),
    `makeSeries` then calls `buildIndex`.
  - `Move` translates the points and makes a new series with the default
    options. It then forces the source's `indexKind` and calls `buildIndex`
    again if the source had an index.
- **Quadtree builder** (qtree.go).
  - `buildIndex` inserts segment 0..n-1 into a pointer tree (`qNode.insert`,
    `chooseQuad`, `quadBounds`). A node splits when it holds `qMaxItems`
    items. Items that straddle a midline stay in the parent. The depth is
    capped at `qMaxDepth`.
  - `compress` then writes the tree as bytes: the items sorted and
    delta-coded as varints, a split byte, and each quad behind its varint
    size.
  - `setCompressed` stamps the 5-byte header: the kind byte and the LE
    uint32 length.
- **Varint codec** (qtree.go). `appendUvarint` (binary.PutUvarint) and
  `readUvarint`.
- **Search** (`baseSeries.Search`). Without an index this is a linear scan.
  With one it is `qCompressSearch`, which walks the bytes, prunes quads by
  rectangle, and stops when the callback returns false.
- **Segment predicates** (segment.go). `IntersectsSegment`,
  `ContainsSegment`, `Distance` and `GetNearestToPoint` are stateless
  geometry on two points. The index itself only uses `Segment.Rect`.
- **Nearest search** (`DistanceToSeries`). Without an index this is a linear
  scan. With one it is `qCompressNearbySegment`, a best-first search. The
  search uses a binary heap (queue.go) ordered by (dist, kind, pos), taken
  from a `sync.Pool` and emptied at each call.

The builder writes the bytes that the codec, the search and the nearest
search read. Move re-runs the builder.

## Modules

| Module | Models | State / actions |
|---|---|---|
| `Varint` | appendUvarint, PutUvarint, readUvarint | pure operators; the word width `WordBits` is a constant (64 in the code, 16 in the models) |
| `VarintDecode` | readUvarint on arbitrary bytes (as a caller may write into the slice `Index()` returns) against encoding/binary.Uvarint | `data, answer`; `Decode` |
| `VarintStream` | varints written back to back by `compress`, read in order by the readers | `buf, written, raddr, read`; `Write(x)`, `Read` |
| `SeriesBase` | NumSegments, Empty, SegmentAt, Segment.Rect, processPoints; Rect predicates (spec-modelled, rect.go is not in src) | pure operators |
| `QTree` | makeSeries' options test, buildIndex, qNode.insert/chooseQuad/quadBounds, compress, setCompressed | `points, closed, rect, indexKind, index, nodes, next, building`; `BuildInsert` (one loop iteration of buildIndex), `BuildCompress` |
| `QSearch` | baseSeries.Search and qCompressSearch | extends QTree; `query, limit, found`; `Search(R, lim)` |
| `SegmentIndex` | the abstract promise of Search: the segments meeting R, each once, cut by the callback | `Query(R, lim)` |
| `PQueue` | qnode.cmp, queue.push, queue.pop | pure heap operators |
| `PriorityQueue` | abstract multiset queue: pop takes a least entry | `bag` |
| `HeapQueue` | any interleaving of push/pop on the heap | `heap, popped`; refines `PriorityQueue` with `bag <- ToBag(heap)` |
| `NearestCall` | the abstract promise of DistanceToSeries: a call is answered at once or starts a search, and a search is eventually answered with the argmin of the call's inputs | `busy, answer, query`; `Answer`, `Start`, `Return`; weak fairness of the search's end |
| `Nearest` | DistanceToSeries and qCompressNearbySegment, one outer-loop turn per step | extends QTree and PQueue; `caller, pq, addr, bounds, searching, result`; `Call(c)`, `NearestStep`; refines `NearestCall` with `busy <- searching`, `answer <- result`, `query <- <<points, closed, caller>>` |
| `Series` | makeSeries and Move on whole series; buildIndex, Search and DistanceToSeries through parameterised instances of `QTree`, `QSearch` and `Nearest` (the nearest loop run to its return) | `series, source, moves`; `Move(d)` |
| `SegmentGeom` | Segment.Move, GetCollinearity, CollinearPoint, ContainsPoint, IntersectsSegment, ContainsSegment, Distance (squared), GetNearestToPoint; Point.Move, Rect and the point predicates (point.go) | `recv, arg, pt, answer`; `Evaluate` (the calls on inputs chosen in Init) |

Each `MC*` module gives the constants for TLC. The PROJECT.json `map` names
the source lines behind every definition.

### Abstractions

- Coordinates are integers on the grid {0, 3, 8} scaled by 2^qMaxDepth.
  Every midpoint computed above the depth cap is then exact, as the code's
  float midpoints are on such inputs.
- `qMaxItems = 2` and `qMaxDepth = 2`, not 12 and 64. With these values a
  5-point series splits nodes, splits them again inside a quad, and reaches
  the depth cap. The builder run uses every 5-point series. The search and
  nearest runs use 4-point series from the origin, which keeps them well
  inside the time limit. Witness invariants confirmed that these still
  reach depth-2 nodes, a node over `qMaxItems` at the cap, and queue
  entries of both kinds at equal distance.
- Distances in the nearest search are integers given by a caller constant.
  The callers are squared Euclidean distances from 3 query points, to an
  endpoint or to the segment's rectangle. Both satisfy the code's contract
  `distToRect(r) <= distToSegment(s)` for `s` inside `r`, and both produce
  ties.
- The `sync.Pool` is modelled only as the queue it hands out, which is reset
  at `Call`.
- Segment predicates use exact rationals. A quotient `t = n * (1/d)` is
  compared with 0 and 1 through `n` and `d`. A point is a pair of
  rationals, and a distance is carried squared. On the small integer
  inputs used here the code's products are exact. Its reciprocal rounds
  `d * (1/d)` at most down to `1 - 2^-53`, which keeps every comparison as
  in the model. `Raycast(p).On` is in a file outside the sources; it is
  taken as "p lies on the closed segment".
- The varint decoder is checked with `WordBits = 15`. The last of its 3
  bytes then keeps one bit, as the 10th byte does at 64 bits.

## Runs

| Run | cfg | Checks | Result |
|---|---|---|---|
| qtree_build | MCQTree.cfg | TreeTypeOK, ItemsExactlyOnce, ItemsContained, ItemsAtLowestLevel | pass, about 761k states |
| qsearch | MCQSearch.cfg | SearchInTreeOrder; SearchRefinesIndex (refinement of SegmentIndex) | pass, about 33k states |
| heap | MCHeapQueue.cfg | HeapRefinesPriorityQueue | pass, about 6.7k states |
| nearest | MCNearest.cfg | NearestIsArgmin; TurnConsumesBytes; NearestRefinesCall (refinement of NearestCall, with its fairness) | pass, about 29k states |
| series | MCSeries.cfg | SweepIsCyclic, MoveKeepsIndexBytes, MoveSearchesShifted, MoveNearestShifted | pass, about 23k states |
| segment_geom | MCSegmentGeom.cfg | IntersectsSegmentSound, NearestIsFoot, MoveCommutes, ContainsImpliesIntersects | pass, about 498k states |
| varint_stream | MCVarintStream.cfg | ReadsWhatWasWritten | pass, 985 states |
| nearest_linear | MCNearestLinear.cfg | NearestIsArgmin without an index | **violation** |
| series_move_index | MCSeriesMove.cfg | MoveKeepsIndex | **violation** |
| series_open_sweep | MCSeriesOpen.cfg | OpenSweepIsLinear | **violation** |
| segment_collinear | MCSegmentCollinear.cfg | IntersectsSegmentComplete | **violation** |
| varint_decode | MCVarintDecode.cfg | ReadUvarintIsUvarint | **violation** |

What the passing runs show:

- **qtree_build.** Every 5-point series, open or closed, builds a tree in
  which:
  - each segment is stored exactly once;
  - each segment lies inside the bounds of the node that holds it;
  - each segment sits at the lowest level that could hold it;
  - no node is overfull above the depth cap.
- **qsearch.** Searches of 4-point series with 4 query rectangles and a callback that stops
  after 2 items, or never, on indexed and unindexed series. The index search
  returns the tree's matching items in pre-order, cut at the stop. Each
  search step implements `SegmentIndex!Query`, which tests the sort,
  delta decoding, quad-size skips and stop propagation against a plain
  specification.
- **heap.** Up to 5 queued entries, with ties on dist and on kind. The heap
  pops a least entry every time.
- **nearest.** On 4-point series and 6 callers, each call returns the brute-force argmin: the lowest index
  among equally near segments, and -1 for a series with no segment. Every
  turn that does not return strictly shrinks `Pending`, the number of bytes
  still to decode. `Pending` is a natural number, so every call terminates.
  `NearestRefinesCall` checks that the search implements `NearestCall`.
  An indexed call is a `Start` step. Every turn but the last is a stutter
  step of the abstract spec. The last turn is its `Return`, with the argmin
  of the call's inputs, and those inputs cannot change while the search
  runs. `NearestCall` asks for weak fairness of the search's end, so the
  check also says that every call that starts searching returns. The
  detailed behaviours are those of `FairSpec`: weak fairness of
  `NearestStep`. A goroutine runs the loop to completion without blocking,
  so this fairness is the code's own. No fairness is assumed for `Call`:
  callers may stop calling. Two forms are written out because TLC cannot
  evaluate them fast enough:
  - `FairSpec` gives the enabling condition of `NearestStep` as a state
    predicate. The step is deterministic, so it is enabled exactly when
    searching and the turn does not stall. TLC evaluates
    `ENABLED <<NearestStep>>_vars` without caching the LET values of the
    recursive decoders, which makes it impractically slow.
  - For the same reason, `NearestCall` puts its fairness on `Finish`
    (`busy` becomes FALSE). Under `[][Next]_vars` every such step is a
    `Return`, and `Finish` is enabled exactly when `Return` is.
- **series.** `processPoints` computes the envelope of every series, and
  the ring convexity and shoelace winding of closed ones. The spec wraps
  only closed series, so open ones are checked in `series_open_sweep`.
  Two successive Moves by two deltas rebuild byte for byte the index of
  an indexed source.
  `MoveSearchesShifted` composes Move with Search: the moved series, with
  the index Move rebuilt or with a linear scan, finds for every query
  rectangle shifted by the delta the same segments as the source.
  `MoveNearestShifted` composes Move with DistanceToSeries. Four callers
  run on the source and on the moved series, with the query point moved
  by the delta. Both runs return the same distance, and the same index
  when both series have an index or neither has. When Move adds an index
  (finding 2), the source's linear scan reports index 0 (finding 1), and
  only the distance is compared.
  The sources are indexed with `{QuadTree, 3}` or made with `NoIndexing`.
  A source indexed with `Kind: None` would break `MoveKeepsIndexBytes` at
  byte 0 (finding 2).
- **segment_geom.** All pairs of segments and all points on a 4 by 3
  grid, and the same arguments moved by two deltas.
  - `IntersectsSegment` never reports segments that do not meet. Its
    bounding-box returns, shared-endpoint shortcut, collinear branch and
    both parameter bounds are checked against the orientation test for
    meeting segments. That test agrees with an exhaustive search for a
    common rational point on all pairs of the grid.
  - `GetNearestToPoint` returns the foot of the perpendicular on the
    segment's line through each of its three branches.
  - `MoveCommutes`: every segment and point call gives the same answer on
    arguments moved by `Segment.Move` and `Point.Move`, and the nearest
    point moves with them. `Distance` and `GetNearestToPoint` use absolute
    coordinates whose terms must cancel.
  - `ContainsImpliesIntersects`: a segment containing a segment, and a
    point containing a point or a rectangle, also intersect it.
- **varint_stream.** Values at every byte-count boundary (127/128,
  16383/16384, 65535), written back to back, are read back exactly.

Every property of a passing run has a mutant in PROJECT.json: a plausible bug
in the mapped code that TLC reports as a violation of that property.

## Findings

1. **Linear nearest search never sets idx.** `DistanceToSeries`
   (part_000:206) never assigns `idx` in its linear branch, so a series
   without an index always reports index 0. The spec (4.7, 7) expects the
   argmin index, and -1 for an empty series.
2. **Move can add an index.** `Move` (part_000:123) makes the new series
   with `DefaultIndexOptions`. A source with `NoIndexing` and at least 64
   points (4 in the model) therefore comes back indexed. Spec 4.2 and 8.10
   say the moved series keeps the source's indexing. The same order also
   mislabels an index. `makeSeries` builds an index whenever `MinPoints`
   is reached, whatever the `Kind`. For a source indexed with
   `Kind: None`, the default build has already written kind byte 1. Move
   then sets `indexKind` to None, and `buildIndex` returns at once because
   an index exists. Byte 0 of the moved index (the index kind, spec 4.5)
   then disagrees with the series' `indexKind`. `MoveKeepsIndex` states
   both halves. The violation run adds the option `{None, 3}`.
3. **Convexity and winding of open series.** `processPoints`
   (part_000:281-294) takes the wrapped triples and the wrapped pair
   (p[n-1], p[0]) even for an open series. Spec 2 and 4.3 judge an open
   polyline linearly, and sum its winding over its own pairs only. So an
   open polyline turning one way can be reported concave. The open series
   (0,0),(12,12) has the spec sum 144 > 0, so it is clockwise, but the
   code's wrapped sum is 0 and it reports not clockwise. `OpenSweepIsLinear`
   states both halves; TLC breaks each one on its own.
4. **IntersectsSegment misses a collinear segment inside the other.**
   When `other.A` is on `seg`'s line but beyond both of its ends
   (segment.go:108-111), the code only asks whether `other.A` or `other.B`
   lies on `seg`. For `seg` (1,0)-(2,0) inside `other` (0,0)-(3,0) it
   returns false, although the comment says collinear lines "intersect if
   they have any overlap". The call with the roles swapped returns true.
5. **readUvarint accepts an overflowing last byte.** `readUvarint`
   (qtree.go:131) decodes the last possible byte without the overflow test
   of `binary.Uvarint`. It returns high bits that do not fit, where
   `binary.Uvarint` reports overflow. With `WordBits = 15` the bytes
   128,128,2 decode to the value 0 with length 3. The index bytes that
   `compress` writes never contain such a varint. Bytes that a caller
   changes through the slice `Index()` returns can.

## Not modelled

- Float arithmetic: rounding in Move, NaN distances, and midpoints at depth 64.
- The float rounding of the segment and point predicates for large or
  fractional coordinates.
- `Point.ContainsLine`, `IntersectsLine`, `ContainsPoly` and
  `IntersectsPoly`, which delegate to Line and Poly.
- The `Geometry` interface and the line/polygon wrappers, which are not in src.
- The uint32 length truncation for indexes of 4 GiB or more.
- Entry-point contract checks, such as a negative MinPoints.

## Plan for later stages

- A module for truncated index bytes and a header whose length disagrees
  with the data.
- Concurrent readers of one series. Several goroutines share the `qpool`
  while Search and DistanceToSeries run on the same immutable bytes.
- Larger bounds (6 points, qMaxItems 3) for the builder on a faster machine.
