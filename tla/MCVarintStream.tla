--------------------------- MODULE MCVarintStream ---------------------------
(***************************************************************************)
(* 16-bit words (three-byte varints at most, the last carrying the two    *)
(* top bits) and the values at each byte-count boundary.                  *)
(***************************************************************************)
EXTENDS VarintStream

MCWordBits == 16
MCValues == {0, 127, 128, 16383, 16384, 65535}
MCMaxItems == 3
=============================================================================
