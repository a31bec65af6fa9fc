--------------------------- MODULE MCSegmentGeom ---------------------------
(***************************************************************************)
(* Every receiver, argument segment and argument point on a 4 x 3 grid:  *)
(* crossing, touching, parallel, collinear-overlapping and degenerate     *)
(* segments of every slope the grid has, moved by two deltas with both   *)
(* signs.  The 4 x 2 grid alone (for the collinear run) has segments of  *)
(* lengths 1 to 3 on one line, one strictly inside another.               *)
(***************************************************************************)
EXTENDS SegmentGeom
MCXCoords == 0..3
MCYCoords == 0..2
MCXCoordsLong == 0..3
MCYCoordsLong == 0..1
MCDeltas == {<<1, -2>>, <<-3, 5>>}
=============================================================================
