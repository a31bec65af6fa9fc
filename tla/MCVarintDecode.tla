--------------------------- MODULE MCVarintDecode ---------------------------
(***************************************************************************)
(* Every 3-byte string over the byte values at the edges of the fast path *)
(* (0x7f, 0x80), of the continuation bit (0x81, 0xff) and of the bit the  *)
(* last byte keeps (1, 2).                                                *)
(***************************************************************************)
EXTENDS VarintDecode
MCWordBits == 15
MCBytes == {0, 1, 2, 127, 128, 129, 255}
=============================================================================
