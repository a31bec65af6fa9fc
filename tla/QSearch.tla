------------------------------ MODULE QSearch ------------------------------
(***************************************************************************)
(* baseSeries.Search over a series built as in QTree: a linear scan when  *)
(* the series has no index, otherwise qCompressSearch over the bytes cut  *)
(* to the length in the header, from address 5 with bounds series.rect.   *)
(* The caller's callback appends the item to `found` and returns false    *)
(* once `limit` items have been delivered.                                *)
(***************************************************************************)
EXTENDS QTree

CONSTANTS
  Queries,   \* query rectangles
  Limits     \* deliveries after which the callback returns false

VARIABLES query, limit, found

vars == <<treeVars, query, limit, found>>

(* iter(seg, item): record the item; continue while under the limit.      *)
Deliver(acc, item) == Append(acc, item)
Continue(acc, lim) == Len(acc) < lim

(***************************************************************************)
(* qCompressSearch.  Each operator returns [ok, found] (ok = FALSE once   *)
(* the callback stopped the search); SearchItems also returns the address *)
(* after the item list.                                                   *)
(***************************************************************************)
RECURSIVE SearchNode(_, _, _, _, _, _), SearchItems(_, _, _, _, _, _, _, _),
          SearchQuads(_, _, _, _, _, _, _)

SearchItems(data, addr, nitems, i, last, R, lim, acc) ==
  IF i = nitems THEN [ok |-> TRUE, found |-> acc, addr |-> addr]
  ELSE LET r == ReadUvarint(data, addr)
           item == r[1] + last
       IN IF IntersectsRect(ItemRect(item), R)
          THEN IF Continue(Deliver(acc, item), lim)
               THEN SearchItems(data, r[2], nitems, i + 1, item, R, lim,
                                Deliver(acc, item))
               ELSE [ok |-> FALSE, found |-> Deliver(acc, item), addr |-> r[2]]
          ELSE SearchItems(data, r[2], nitems, i + 1, item, R, lim, acc)

(* Mutant: a quad's false return does not stop the remaining quads.     *)
SearchQuadsIgnoreStop(data, addr, q, bounds, R, lim, acc) ==
  IF q = 4 THEN [ok |-> TRUE, found |-> acc]
  ELSE LET r == ReadUvarint(data, addr)
           qsize == r[1]
           qbounds == QuadBounds(bounds, q)
       IN IF qsize = 0
          THEN SearchQuads(data, r[2], q + 1, bounds, R, lim, acc)
          ELSE IF IntersectsRect(qbounds, R)
          THEN LET sub == SearchNode(data, r[2], qbounds, R, lim, acc) IN
               SearchQuads(data, r[2] + qsize, q + 1, bounds, R, lim, sub.found)
          ELSE SearchQuads(data, r[2] + qsize, q + 1, bounds, R, lim, acc)

SearchQuads(data, addr, q, bounds, R, lim, acc) ==
  IF q = 4 THEN [ok |-> TRUE, found |-> acc]
  ELSE LET r == ReadUvarint(data, addr)
           qsize == r[1]
           qbounds == QuadBounds(bounds, q)
       IN IF qsize = 0
          THEN SearchQuads(data, r[2], q + 1, bounds, R, lim, acc)
          ELSE IF IntersectsRect(qbounds, R)
          THEN LET sub == SearchNode(data, r[2], qbounds, R, lim, acc) IN
               IF ~sub.ok THEN sub
               ELSE SearchQuads(data, r[2] + qsize, q + 1, bounds, R, lim,
                                sub.found)
          ELSE SearchQuads(data, r[2] + qsize, q + 1, bounds, R, lim, acc)

SearchNode(data, addr, bounds, R, lim, acc) ==
  LET h == ReadUvarint(data, addr)
      its == SearchItems(data, h[2], h[1], 0, 0, R, lim, acc)
  IN IF ~its.ok THEN [ok |-> FALSE, found |-> its.found]
     ELSE IF data[its.addr + 1] = 1
     THEN SearchQuads(data, its.addr + 1, 0, bounds, R, lim, its.found)
     ELSE [ok |-> TRUE, found |-> its.found]

(* The linear branch of Search: segments in index order.                  *)
RECURSIVE LinearSearch(_, _, _, _)

(* Mutant: the loop bound stops one segment short.                      *)
LinearSearchSkipLast(i, R, lim, acc) ==
  IF i >= NumSegments(points, closed) - 1 THEN acc
  ELSE IF IntersectsRect(ItemRect(i), R)
  THEN IF Continue(Deliver(acc, i), lim)
       THEN LinearSearch(i + 1, R, lim, Deliver(acc, i))
       ELSE Deliver(acc, i)
  ELSE LinearSearch(i + 1, R, lim, acc)

LinearSearch(i, R, lim, acc) ==
  IF i = NumSegments(points, closed) THEN acc
  ELSE IF IntersectsRect(ItemRect(i), R)
  THEN IF Continue(Deliver(acc, i), lim)
       THEN LinearSearch(i + 1, R, lim, Deliver(acc, i))
       ELSE Deliver(acc, i)
  ELSE LinearSearch(i + 1, R, lim, acc)

IndexSearch(R, lim) ==
  LET data == SubSeq(index, 1, HeaderLen(index))
  IN SearchNode(data, 5, rect, R, lim, <<>>).found

Init ==
  /\ TreeInit
  /\ query = ZeroRect
  /\ limit = 0
  /\ found = <<>>

(* A query is only made of a finished series.                             *)
Search(R, lim) ==
  /\ ~building
  /\ query' = R
  /\ limit' = lim
  /\ found' = IF index = <<>> THEN LinearSearch(0, R, lim, <<>>)
              ELSE IndexSearch(R, lim)
  /\ UNCHANGED treeVars

Next ==
  \/ (BuildInsert \/ BuildCompress) /\ UNCHANGED <<query, limit, found>>
  \/ \E R \in Queries, lim \in Limits : Search(R, lim)

Spec == Init /\ [][Next]_vars

(***************************************************************************)
(* Properties.                                                            *)
(***************************************************************************)

(* The series, indexed or not, behaves as the abstract SegmentIndex: the  *)
(* build adds segments 0, 1, ... once each and a search delivers distinct *)
(* matching segments, all of them unless the callback stopped it.         *)
StoredItems ==
  UNION {{nodes[p].items[k] : k \in DOMAIN nodes[p].items} : p \in Paths}

Abstract == INSTANCE SegmentIndex
  WITH added <- IF building \/ index # <<>> THEN StoredItems
                ELSE 0..(NumSegments(points, closed) - 1),
       frozen <- ~building

SearchRefinesIndex == Abstract!Spec

(* Over the bytes, an indexed search delivers the tree's matching items   *)
(* in pre-order, a node's own items ascending before its quads 0 to 3,    *)
(* cut at the callback's stop (spec 4.6): delta decoding and the quad     *)
(* size skips lead the reader to the node the writer laid out.            *)
RECURSIVE TreeOrder(_, _)
TreeOrder(path, R) ==
  LET own == SelectSeq(SortSeq(nodes[path].items, <),
                       LAMBDA i : IntersectsRect(ItemRect(i), R))
      Sub(q) == IF Append(path, q) \in DOMAIN nodes
                THEN TreeOrder(Append(path, q), R) ELSE <<>>
  IN own \o Sub(0) \o Sub(1) \o Sub(2) \o Sub(3)

SearchInTreeOrder ==
  index # <<>> =>
    found = SubSeq(TreeOrder(<<>>, query), 1,
                   IF limit < Len(TreeOrder(<<>>, query))
                   THEN limit ELSE Len(TreeOrder(<<>>, query)))
=============================================================================
