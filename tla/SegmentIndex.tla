---------------------------- MODULE SegmentIndex ----------------------------
(***************************************************************************)
(* What a series promises of its segment index (spec sections 4.4, 4.6    *)
(* and 8.8), with no tree in it: segments are added once each, in index   *)
(* order, until all are held; the index is then frozen, and a search for  *)
(* R whose callback stops after `limit` deliveries yields distinct        *)
(* segments whose rectangles meet R, all of them unless it was stopped.   *)
(* A series that is never indexed starts frozen with every segment held   *)
(* (the linear scan).                                                     *)
(***************************************************************************)
EXTENDS Integers, Sequences, FiniteSets, SeriesBase

VARIABLES points, closed, added, frozen, query, limit, found

Segs == 0..(NumSegments(points, closed) - 1)

Matches(R) == {i \in Segs : IntersectsRect(SegRect(SegmentAt(points, i)), R)}

IsAnswer(res, R, lim) ==
  /\ \A i, j \in DOMAIN res : i # j => res[i] # res[j]
  /\ \A i \in DOMAIN res : res[i] \in Matches(R)
  /\ Len(res) <= lim
  /\ Len(res) < lim => Matches(R) \subseteq {res[i] : i \in DOMAIN res}

Init ==
  /\ frozen \in BOOLEAN
  /\ added = IF frozen THEN Segs ELSE {}
  /\ found = <<>>

Add ==
  /\ ~frozen
  /\ Cardinality(added) < Cardinality(Segs)
  /\ added' = added \cup {Cardinality(added)}
  /\ UNCHANGED <<points, closed, frozen, query, limit, found>>

Freeze ==
  /\ ~frozen
  /\ added = Segs
  /\ frozen' = TRUE
  /\ UNCHANGED <<points, closed, added, query, limit, found>>

Search ==
  /\ frozen
  /\ IsAnswer(found', query', limit')
  /\ UNCHANGED <<points, closed, added, frozen>>

Next == Add \/ Freeze \/ Search

Spec == Init /\ [][Next]_<<points, closed, added, frozen, query, limit, found>>
=============================================================================
