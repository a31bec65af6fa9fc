------------------------------- MODULE QTree -------------------------------
(***************************************************************************)
(* makeSeries and buildIndex (series.go) with the in-memory quadtree and  *)
(* its compression (qtree.go).  The tree is a function from paths (a      *)
(* sequence of quadrant numbers from the root) to nodes; n.quads[q] is    *)
(* present iff path \o <<q>> is in DOMAIN nodes.  One step inserts one    *)
(* segment (an iteration of the loop of buildIndex, i.e. one call of      *)
(* qNode.insert on the root); the last step compresses the tree into the  *)
(* byte index and backpatches its length (setCompressed).                 *)
(***************************************************************************)
EXTENDS Integers, Sequences, SequencesExt, FiniteSetsExt, TLC, SeriesBase, Varint

CONSTANTS
  QMaxItems,   \* qMaxItems: items a node holds before it splits
  QMaxDepth,   \* qMaxDepth: depth at which nodes never split
  Inputs,      \* set of <<points, closed>> a series is made from
  Options      \* set of [Kind, MinPoints] index options

ASSUME QMaxItems \in Nat \ {0} /\ QMaxDepth \in Nat

None == 0
QuadTree == 1

VARIABLES
  points,    \* series.points
  closed,    \* series.closed
  rect,      \* series.rect
  indexKind, \* series.indexKind
  index,     \* series.index, the compressed bytes (<<>> = nil)
  nodes,     \* the tree rooted at buildIndex's root
  next,      \* the loop counter of buildIndex
  building   \* buildIndex is running

treeVars == <<points, closed, rect, indexKind, index, nodes, next, building>>

EmptyNode == [split |-> FALSE, items |-> <<>>]

(* Midpoint of two coordinates; the MC modules scale coordinates so that  *)
(* the midpoints of every node reached are integers.                      *)
Mid(a, b) == (a + b) \div 2

(* Mutants of chooseQuad: north and south swapped; the midpoint taken as *)
(* half the upper bound (right only for bounds starting at 0).            *)
ChooseQuadSwapNS(bounds, r) ==
  LET midX == Mid(X(bounds.min), X(bounds.max))
      midY == Mid(Y(bounds.min), Y(bounds.max))
  IN IF X(r.max) < midX
     THEN IF Y(r.max) < midY THEN 0 ELSE IF Y(r.min) < midY THEN -1 ELSE 2
     ELSE IF X(r.min) < midX THEN -1
     ELSE IF Y(r.max) < midY THEN 1 ELSE IF Y(r.min) < midY THEN -1 ELSE 3

ChooseQuadHalfMax(bounds, r) ==
  LET midX == X(bounds.max) \div 2
      midY == Y(bounds.max) \div 2
  IN IF X(r.max) < midX
     THEN IF Y(r.max) < midY THEN 2 ELSE IF Y(r.min) < midY THEN -1 ELSE 0
     ELSE IF X(r.min) < midX THEN -1
     ELSE IF Y(r.max) < midY THEN 3 ELSE IF Y(r.min) < midY THEN -1 ELSE 1

(* chooseQuad: the quadrant fully containing rect, -1 if it straddles.    *)
ChooseQuad(bounds, r) ==
  LET midX == Mid(X(bounds.min), X(bounds.max))
      midY == Mid(Y(bounds.min), Y(bounds.max))
  IN IF X(r.max) < midX
     THEN IF Y(r.max) < midY THEN 2 ELSE IF Y(r.min) < midY THEN -1 ELSE 0
     ELSE IF X(r.min) < midX THEN -1
     ELSE IF Y(r.max) < midY THEN 3 ELSE IF Y(r.min) < midY THEN -1 ELSE 1

(* quadBounds: 0 = NW, 1 = NE, 2 = SW, 3 = SE.                            *)
(* Mutant of quadBounds: the midpoint taken as half the upper bound.      *)
QuadBoundsHalfMax(bounds, q) ==
  LET cx == X(bounds.max) \div 2
      cy == Y(bounds.max) \div 2
  IN CASE q = 0 -> [min |-> <<X(bounds.min), cy>>, max |-> <<cx, Y(bounds.max)>>]
       [] q = 1 -> [min |-> <<cx, cy>>, max |-> bounds.max]
       [] q = 2 -> [min |-> bounds.min, max |-> <<cx, cy>>]
       [] q = 3 -> [min |-> <<cx, Y(bounds.min)>>, max |-> <<X(bounds.max), cy>>]

QuadBounds(bounds, q) ==
  LET cx == Mid(X(bounds.min), X(bounds.max))
      cy == Mid(Y(bounds.min), Y(bounds.max))
  IN CASE q = 0 -> [min |-> <<X(bounds.min), cy>>, max |-> <<cx, Y(bounds.max)>>]
       [] q = 1 -> [min |-> <<cx, cy>>, max |-> bounds.max]
       [] q = 2 -> [min |-> bounds.min, max |-> <<cx, cy>>]
       [] q = 3 -> [min |-> <<cx, Y(bounds.min)>>, max |-> <<X(bounds.max), cy>>]

ItemRect(item) == SegRect(SegmentAt(points, item))

AddItem(ns, path, item) ==
  [ns EXCEPT ![path].items = Append(@, item)]

(***************************************************************************)
(* qNode.insert, with its two calls into a child quad (creating the child *)
(* when nil) and the redistribution loop run when a full node splits.     *)
(* Insert returns the new tree; Redistribute returns <<tree, nitems>>.    *)
(***************************************************************************)
RECURSIVE Insert(_, _, _, _, _, _), InsertQuad(_, _, _, _, _, _, _),
          Redistribute(_, _, _, _, _, _)

InsertQuad(ns, path, bounds, q, r, item, depth) ==
  LET child == Append(path, q)
      withChild == IF child \in DOMAIN ns THEN ns ELSE ns @@ (child :> EmptyNode)
  IN Insert(withChild, child, QuadBounds(bounds, q), r, item, depth + 1)

(* Mutant: the redistribution loop forgets the items that straddle.     *)
RedistributeDropStraddlers(ns, path, bounds, items, depth, nitems) ==
  IF items = <<>> THEN <<ns, nitems>>
  ELSE LET iitem == Head(items)
           q == ChooseQuad(bounds, ItemRect(iitem))
       IN IF q = -1
          THEN Redistribute(ns, path, bounds, Tail(items), depth, nitems)
          ELSE Redistribute(InsertQuad(ns, path, bounds, q, ItemRect(iitem),
                                       iitem, depth),
                            path, bounds, Tail(items), depth, nitems)

Redistribute(ns, path, bounds, items, depth, nitems) ==
  IF items = <<>> THEN <<ns, nitems>>
  ELSE LET iitem == Head(items)
           q == ChooseQuad(bounds, ItemRect(iitem))
       IN IF q = -1
          THEN Redistribute(ns, path, bounds, Tail(items), depth,
                            Append(nitems, iitem))
          ELSE Redistribute(InsertQuad(ns, path, bounds, q, ItemRect(iitem),
                                       iitem, depth),
                            path, bounds, Tail(items), depth, nitems)

(* Mutants of insert: the depth cap one level late; the split one item   *)
(* late.                                                                   *)
InsertDepthOffByOne(ns, path, bounds, r, item, depth) ==
  IF depth = QMaxDepth + 1 THEN AddItem(ns, path, item)
  ELSE IF ns[path].split
  THEN LET q == ChooseQuad(bounds, r) IN
       IF q = -1 THEN AddItem(ns, path, item)
       ELSE InsertQuad(ns, path, bounds, q, r, item, depth)
  ELSE IF Len(ns[path].items) = QMaxItems
  THEN LET moved == Redistribute(ns, path, bounds, ns[path].items, depth, <<>>)
       IN Insert([moved[1] EXCEPT ![path] = [split |-> TRUE, items |-> moved[2]]],
                 path, bounds, r, item, depth)
  ELSE AddItem(ns, path, item)

InsertSplitLate(ns, path, bounds, r, item, depth) ==
  IF depth = QMaxDepth THEN AddItem(ns, path, item)
  ELSE IF ns[path].split
  THEN LET q == ChooseQuad(bounds, r) IN
       IF q = -1 THEN AddItem(ns, path, item)
       ELSE InsertQuad(ns, path, bounds, q, r, item, depth)
  ELSE IF Len(ns[path].items) = QMaxItems + 1
  THEN LET moved == Redistribute(ns, path, bounds, ns[path].items, depth, <<>>)
       IN Insert([moved[1] EXCEPT ![path] = [split |-> TRUE, items |-> moved[2]]],
                 path, bounds, r, item, depth)
  ELSE AddItem(ns, path, item)

Insert(ns, path, bounds, r, item, depth) ==
  IF depth = QMaxDepth THEN AddItem(ns, path, item)
  ELSE IF ns[path].split
  THEN LET q == ChooseQuad(bounds, r) IN
       IF q = -1 THEN AddItem(ns, path, item)
       ELSE InsertQuad(ns, path, bounds, q, r, item, depth)
  ELSE IF Len(ns[path].items) = QMaxItems
  THEN LET moved == Redistribute(ns, path, bounds, ns[path].items, depth, <<>>)
       IN Insert([moved[1] EXCEPT ![path] = [split |-> TRUE, items |-> moved[2]]],
                 path, bounds, r, item, depth)
  ELSE AddItem(ns, path, item)

(***************************************************************************)
(* qNode.compress: sorted, delta-coded items, the split byte, and for a   *)
(* split node each quad as a uvarint size followed by its bytes (a lone 0 *)
(* for an absent quad).                                                   *)
(***************************************************************************)
RECURSIVE Compress(_, _)
Compress(ns, path) ==
  LET items == SortSeq(ns[path].items, <)
      Delta(k) == items[k] - (IF k = 1 THEN 0 ELSE items[k - 1])
      head == FoldLeft(AppendUvarint, AppendUvarint(<<>>, Len(items)),
                       [k \in 1..Len(items) |-> Delta(k)])
      QuadBytes(q) ==
        IF Append(path, q) \in DOMAIN ns
        THEN LET body == Compress(ns, Append(path, q))
             IN AppendUvarint(<<>>, Len(body)) \o body
        ELSE <<0>>
  IN IF ~ns[path].split
     THEN Append(head, 0)
     ELSE Append(head, 1) \o QuadBytes(0) \o QuadBytes(1) \o QuadBytes(2)
                          \o QuadBytes(3)

(* setCompressed: bytes 1..4 are the little-endian uint32(len(data));    *)
(* keeping four bytes is the truncation to 32 bits.                       *)
SetCompressed(data) ==
  LET len == Len(data)
  IN [data EXCEPT ![2] = len % 256, ![3] = (len \div 2^8) % 256,
                  ![4] = (len \div 2^16) % 256, ![5] = (len \div 2^24) % 256]

(* binary.LittleEndian.Uint32(data[1:]) *)
HeaderLen(data) == data[2] + data[3] * 2^8 + data[4] * 2^16 + data[5] * 2^24

(***************************************************************************)
(* makeSeries: the sweep runs once; the index is built when MinPoints is  *)
(* non-zero and reached (whatever the Kind).                              *)
(***************************************************************************)
TreeInit ==
  \E in \in Inputs, opts \in Options :
    LET build == opts.MinPoints # 0 /\ Len(in[1]) >= opts.MinPoints IN
    /\ points = in[1]
    /\ closed = in[2]
    /\ rect = ProcessPoints(in[1], in[2]).rect
    /\ indexKind = IF build THEN opts.Kind ELSE None
    /\ index = <<>>
    /\ nodes = (<<>> :> EmptyNode)
    /\ next = 0
    /\ building = build

(* One iteration of buildIndex's loop: root.insert(series, series.rect,   *)
(* seg.Rect(), i, 0).                                                     *)
BuildInsert ==
  /\ building
  /\ next < NumSegments(points, closed)
  /\ nodes' = Insert(nodes, <<>>, rect, ItemRect(next), next, 0)
  /\ next' = next + 1
  /\ UNCHANGED <<points, closed, rect, indexKind, index, building>>

(* The end of buildIndex: setCompressed(root.compress(header)).           *)
BuildCompress ==
  /\ building
  /\ next = NumSegments(points, closed)
  /\ index' = SetCompressed(<<indexKind, 0, 0, 0, 0>> \o Compress(nodes, <<>>))
  /\ building' = FALSE
  /\ UNCHANGED <<points, closed, rect, indexKind, nodes, next>>

TreeNext == BuildInsert \/ BuildCompress

TreeSpec == TreeInit /\ [][TreeNext]_treeVars

(***************************************************************************)
(* Properties of the tree while and after it is built.                    *)
(***************************************************************************)
Paths == DOMAIN nodes

RECURSIVE BoundsOf(_)
BoundsOf(path) ==
  IF path = <<>> THEN rect ELSE QuadBounds(BoundsOf(Front(path)), Last(path))

Occurrences(i) ==
  MapThenSumSet(LAMBDA p : Cardinality({k \in DOMAIN nodes[p].items :
                                          nodes[p].items[k] = i}), Paths)

TreeTypeOK ==
  /\ points \in Seq(Int \X Int) /\ closed \in BOOLEAN
  /\ indexKind \in {None, QuadTree} /\ building \in BOOLEAN
  /\ next \in 0..NumSegments(points, closed)
  /\ \A p \in Paths : /\ Len(p) <= QMaxDepth
                      /\ nodes[p].split \in BOOLEAN
                      /\ nodes[p].items \in Seq(Nat)
                      /\ p # <<>> => Front(p) \in Paths
  /\ index \in Seq(0..255)

(* The multiset of items held by the tree is exactly the segments the     *)
(* buildIndex loop has inserted so far: a split never drops an item of    *)
(* the full node nor files it twice (qSane's count check).                *)
ItemsExactlyOnce ==
  /\ \A p \in Paths : \A k \in DOMAIN nodes[p].items : nodes[p].items[k] < next
  /\ \A i \in 0..(next - 1) : Occurrences(i) = 1

(* Every item's segment rectangle lies inside the bounds of the node that *)
(* holds it, the bounds being quadBounds applied along the path from      *)
(* series.rect (qSane's containment check).                               *)
ItemsContained ==
  \A p \in Paths : \A k \in DOMAIN nodes[p].items :
    ContainsRect(BoundsOf(p), ItemRect(nodes[p].items[k]))

(* An item sits at the lowest node able to hold it: above the depth cap, *)
(* a split node keeps only items straddling its midlines and an unsplit   *)
(* node holds at most qMaxItems.                                          *)
ItemsAtLowestLevel ==
  \A p \in Paths : Len(p) < QMaxDepth =>
    IF nodes[p].split
    THEN \A k \in DOMAIN nodes[p].items :
           ChooseQuad(BoundsOf(p), ItemRect(nodes[p].items[k])) = -1
    ELSE Len(nodes[p].items) <= QMaxItems
=============================================================================
