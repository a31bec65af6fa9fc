---------------------------- MODULE MCHeapQueue ----------------------------
(***************************************************************************)
(* Entries with two distances, both kinds and two positions (8 entries,   *)
(* so equal dist and equal kind ties occur), in a queue of up to 5: the   *)
(* sift-down at the root then passes through two levels.                  *)
(***************************************************************************)
EXTENDS HeapQueue

MCEntries == [dist : {0, 1}, kind : {QRect, QSeg}, pos : {0, 1}]
MCMaxLen == 5
=============================================================================
