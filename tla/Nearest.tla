------------------------------ MODULE Nearest ------------------------------
(***************************************************************************)
(* DistanceToSeries (series.go) on a series built as in QTree: a linear   *)
(* scan when the series has no index, otherwise the best-first search     *)
(* qCompressNearbySegment (qtree.go) over the bytes, one step per turn of *)
(* its outer loop: decode the node at addr, push its nearest item and its *)
(* non-empty quads, pop one entry.  The caller's functionals are the      *)
(* constant operators DistToRect(c, rect) and DistToSegment(c, seg) of a  *)
(* caller c; distances are integers.                                      *)
(***************************************************************************)
EXTENDS QTree, PQueue

CONSTANTS
  Callers,            \* the distance functionals a caller may pass
  DistToRect(_, _),
  DistToSegment(_, _),
  NaN                 \* math.NaN()

VARIABLES
  caller,     \* the functionals of the current or last call
  pq,         \* the queue taken from qpool
  addr,       \* the address of the node decoded next
  bounds,     \* its bounds
  searching,  \* qCompressNearbySegment is running
  result      \* [seg, idx, dist] returned by the last call

nearVars == <<caller, pq, addr, bounds, searching, result>>
vars == <<treeVars, nearVars>>

EmptySeg == [A |-> <<0, 0>>, B |-> <<0, 0>>]

(* No call has returned yet. *)
NoResult == [seg |-> EmptySeg, idx |-> -2, dist |-> NaN]

Data == SubSeq(index, 1, HeaderLen(index))

(* The item loop: the first item with the smallest distance (strict <).  *)
RECURSIVE NearItems(_, _, _, _, _)

(* Mutant: <= keeps the last of equally near items.                      *)
NearItemsLastTie(a, nitems, i, last, near) ==
  IF i = nitems THEN [near |-> near, addr |-> a]
  ELSE LET r == ReadUvarint(Data, a)
           item == r[1] + last
           seg == SegmentAt(points, item)
           dist == DistToSegment(caller, seg)
       IN NearItems(r[2], nitems, i + 1, item,
                    IF near = ZeroNode \/ dist <= near.dist
                    THEN [kind |-> QSeg, dist |-> dist, a |-> seg.A,
                          b |-> seg.B, pos |-> item]
                    ELSE near)

NearItems(a, nitems, i, last, near) ==
  IF i = nitems THEN [near |-> near, addr |-> a]
  ELSE LET r == ReadUvarint(Data, a)
           item == r[1] + last
           seg == SegmentAt(points, item)
           dist == DistToSegment(caller, seg)
       IN NearItems(r[2], nitems, i + 1, item,
                    IF near = ZeroNode \/ dist < near.dist
                    THEN [kind |-> QSeg, dist |-> dist, a |-> seg.A,
                          b |-> seg.B, pos |-> item]
                    ELSE near)

(* The quad loop: a qrect entry per non-empty quad, keyed by the address *)
(* of the quad's body; the size skips to the next quad.                   *)
RECURSIVE PushQuads(_, _, _, _)
PushQuads(a, q, bnds, h) ==
  IF q = 4 THEN h
  ELSE LET r == ReadUvarint(Data, a)
           qb == QuadBounds(bnds, q)
       IN IF r[1] = 0 THEN PushQuads(r[2], q + 1, bnds, h)
          ELSE PushQuads(r[2] + r[1], q + 1, bnds,
                         Push(h, [kind |-> QRect, dist |-> DistToRect(caller, qb),
                                  a |-> qb.min, b |-> qb.max, pos |-> r[2]]))

(* The linear branch of DistanceToSeries: idx is never assigned there.   *)
LinearNearest(c) ==
  LET n == NumSegments(points, closed)
      Better(i, best) ==
        LET d == DistToSegment(c, SegmentAt(points, i)) IN
        IF i = 0 \/ d < best.dist
        THEN [seg |-> SegmentAt(points, i), idx |-> best.idx, dist |-> d]
        ELSE best
  IN FoldLeft(LAMBDA best, i : Better(i, best),
              [seg |-> EmptySeg, idx |-> 0, dist |-> NaN],
              [k \in 1..n |-> k - 1])

Init ==
  /\ TreeInit
  /\ caller = CHOOSE c \in Callers : TRUE
  /\ pq = <<>>
  /\ addr = 0
  /\ bounds = ZeroRect
  /\ searching = FALSE
  /\ result = NoResult

(* DistanceToSeries(series, distToRect, distToSegment) is called.        *)
Call(c) ==
  /\ ~building /\ ~searching
  /\ caller' = c
  /\ IF index = <<>>
     THEN /\ result' = LinearNearest(c)
          /\ UNCHANGED <<pq, addr, bounds, searching>>
     ELSE /\ pq' = <<>>
          /\ addr' = 5
          /\ bounds' = rect
          /\ searching' = TRUE
          /\ result' = NoResult
  /\ UNCHANGED treeVars

(* Mutant: a popped quad's bounds are taken but addr is not moved to it. *)
TurnStayOnNode ==
  LET h == ReadUvarint(Data, addr)
      its == NearItems(h[2], h[1], 0, 0, ZeroNode)
      pq1 == IF its.near # ZeroNode THEN Push(pq, its.near) ELSE pq
      pq2 == IF Data[its.addr + 1] = 1
             THEN PushQuads(its.addr + 1, 0, bounds, pq1) ELSE pq1
      top == Pop(pq2)
  IN CASE ~top.ok ->
            [pq |-> top.rest, addr |-> addr, bounds |-> bounds, searching |-> FALSE,
             result |-> [seg |-> EmptySeg, idx |-> -1, dist |-> NaN]]
       [] top.node.kind = QSeg ->
            [pq |-> top.rest, addr |-> addr, bounds |-> bounds, searching |-> FALSE,
             result |-> [seg |-> [A |-> top.node.a, B |-> top.node.b],
                         idx |-> top.node.pos, dist |-> top.node.dist]]
       [] top.node.kind = QRect ->
            [pq |-> top.rest, addr |-> addr,
             bounds |-> [min |-> top.node.a, max |-> top.node.b],
             searching |-> TRUE, result |-> result]

(* Mutant: the pop loop does not return on an empty queue and spins.   *)
TurnNoEmptyReturn ==
  LET h == ReadUvarint(Data, addr)
      its == NearItems(h[2], h[1], 0, 0, ZeroNode)
      pq1 == IF its.near # ZeroNode THEN Push(pq, its.near) ELSE pq
      pq2 == IF Data[its.addr + 1] = 1
             THEN PushQuads(its.addr + 1, 0, bounds, pq1) ELSE pq1
      top == Pop(pq2)
  IN CASE ~top.ok ->
            [pq |-> top.rest, addr |-> addr, bounds |-> bounds, searching |-> TRUE,
             result |-> result]
       [] top.node.kind = QSeg ->
            [pq |-> top.rest, addr |-> addr, bounds |-> bounds, searching |-> FALSE,
             result |-> [seg |-> [A |-> top.node.a, B |-> top.node.b],
                         idx |-> top.node.pos, dist |-> top.node.dist]]
       [] top.node.kind = QRect ->
            [pq |-> top.rest, addr |-> top.node.pos,
             bounds |-> [min |-> top.node.a, max |-> top.node.b],
             searching |-> TRUE, result |-> result]

(* One turn of the outer loop of qCompressNearbySegment: the new queue,   *)
(* and either the next node to decode or the value returned.              *)
Turn ==
  LET h == ReadUvarint(Data, addr)
      its == NearItems(h[2], h[1], 0, 0, ZeroNode)
      pq1 == IF its.near # ZeroNode THEN Push(pq, its.near) ELSE pq
      pq2 == IF Data[its.addr + 1] = 1
             THEN PushQuads(its.addr + 1, 0, bounds, pq1) ELSE pq1
      top == Pop(pq2)
  IN CASE ~top.ok ->
            [pq |-> top.rest, addr |-> addr, bounds |-> bounds, searching |-> FALSE,
             result |-> [seg |-> EmptySeg, idx |-> -1, dist |-> NaN]]
       [] top.node.kind = QSeg ->
            [pq |-> top.rest, addr |-> addr, bounds |-> bounds, searching |-> FALSE,
             result |-> [seg |-> [A |-> top.node.a, B |-> top.node.b],
                         idx |-> top.node.pos, dist |-> top.node.dist]]
       [] top.node.kind = QRect ->
            [pq |-> top.rest, addr |-> top.node.pos,
             bounds |-> [min |-> top.node.a, max |-> top.node.b],
             searching |-> TRUE, result |-> result]

NearestStep ==
  /\ searching
  /\ LET t == Turn IN
     /\ pq' = t.pq
     /\ addr' = t.addr
     /\ bounds' = t.bounds
     /\ searching' = t.searching
     /\ result' = t.result
  /\ UNCHANGED <<treeVars, caller>>

Next ==
  \/ (BuildInsert \/ BuildCompress) /\ UNCHANGED nearVars
  \/ \E c \in Callers : Call(c)
  \/ NearestStep

Spec == Init /\ [][Next]_vars


(***************************************************************************)
(* Properties.                                                            *)
(***************************************************************************)
(* The brute-force answer of spec 8.9 for the series pts, closed or not, *)
(* and the functionals c: the segment of least distance, the lowest index *)
(* among equals; -1 and NaN for a series with no segment.                 *)
ExpectedOf(pts, cl, c) ==
  LET segs == 0..(NumSegments(pts, cl) - 1)
      d(i) == DistToSegment(c, SegmentAt(pts, i))
      m == CHOOSE i \in segs : \A j \in segs : d(i) < d(j) \/ (d(i) = d(j) /\ i <= j)
  IN IF segs = {} THEN [seg |-> EmptySeg, idx |-> -1, dist |-> NaN]
     ELSE [seg |-> SegmentAt(pts, m), idx |-> m, dist |-> d(m)]

Expected(c) == ExpectedOf(points, closed, c)

(* A finished call returns the brute-force nearest segment, its index and *)
(* distance, although each node pushes only its own best item and the    *)
(* rest of the tree is reached through rectangle lower bounds that tie    *)
(* with segment distances.                                               *)
NearestIsArgmin ==
  (~searching /\ result # NoResult) => result = Expected(caller)

(* The address just past the node encoded at a: its item list, its split *)
(* byte and, for a split node, the quads skipped by their sizes.          *)
RECURSIVE SkipVarints(_, _), SkipQuads(_, _)
SkipVarints(a, n) == IF n = 0 THEN a ELSE SkipVarints(ReadUvarint(Data, a)[2], n - 1)
SkipQuads(a, q) ==
  IF q = 4 THEN a
  ELSE LET r == ReadUvarint(Data, a) IN SkipQuads(r[2] + r[1], q + 1)

NodeEnd(a) ==
  LET h == ReadUvarint(Data, a)
      itemsEnd == SkipVarints(h[2], h[1])
  IN IF Data[itemsEnd + 1] = 1 THEN SkipQuads(itemsEnd + 1, 0) ELSE itemsEnd + 1

(* Bytes still to decode: the node at addr and every queued quad.         *)
Pending ==
  IF ~searching THEN 0
  ELSE (NodeEnd(addr) - addr)
       + MapThenSumSet(LAMBDA k : NodeEnd(pq[k].pos) - pq[k].pos,
                       {k \in DOMAIN pq : pq[k].kind = QRect})

(* Every turn of qCompressNearbySegment's outer loop that does not return *)
(* strictly shrinks the bytes still to decode: the node decoded is left   *)
(* behind and only its own quads are queued.  Pending is a natural, so    *)
(* every call returns after finitely many turns.                          *)
TurnConsumesBytes ==
  [][NearestStep /\ searching' => Pending' < Pending]_vars

(* A turn that would leave every variable as it is.                       *)
TurnStalls ==
  LET t == Turn IN
  /\ t.pq = pq /\ t.addr = addr /\ t.bounds = bounds
  /\ t.searching = searching /\ t.result = result

(* qCompressNearbySegment is a loop of one goroutine that keeps running   *)
(* until it returns: a turn that can be taken is eventually taken.  This  *)
(* is WF_vars(NearestStep), <>[]ENABLED <<NearestStep>>_vars =>            *)
(* []<><<NearestStep>>_vars, with the enabling condition written out:     *)
(* NearestStep is a function of the state, so it is enabled as a change   *)
(* exactly when searching and the turn does not stall.                    *)
FairSpec ==
  Spec /\ ([]<>(~searching \/ TurnStalls) \/ []<><<NearestStep>>_vars)

(* DistanceToSeries implements NearestCall: every call either answers at *)
(* once or searches, a search is eventually answered (the goroutine's loop *)
(* runs to its return), and the answer is the brute-force nearest segment *)
(* of the call, which no step of the search changes.                      *)
Call_ == INSTANCE NearestCall
           WITH busy <- searching, answer <- result,
                query <- <<points, closed, caller>>,
                Argmin <- LAMBDA q : ExpectedOf(q[1], q[2], q[3])

NearestRefinesCall == Call_!Spec
=============================================================================
