---------------------------- MODULE VarintDecode ----------------------------
(***************************************************************************)
(* readUvarint on arbitrary bytes, such as an index a caller has written   *)
(* into through the slice series.Index() returns, compared with the       *)
(* decoder it replaces, encoding/binary.Uvarint.  With WordBits = 15 the   *)
(* last of the MaxVarintLen = 3 bytes is shifted by 14 and keeps a single *)
(* bit, as the 10th byte, shifted by 63, does for 64 bits.                *)
(***************************************************************************)
EXTENDS Integers, Sequences, Varint

CONSTANT Bytes   \* the byte values each position may hold

VARIABLES data, answer

vars == <<data, answer>>

Init ==
  /\ data \in [1..MaxVarintLen -> Bytes]
  /\ answer = <<>>

(* A reader decodes the varint at the start of the bytes; it returns, so  *)
(* the behaviour stops after it.                                          *)
Decode ==
  /\ answer = <<>>
  /\ answer' = ReadUvarint(data, 0)
  /\ UNCHANGED data

Next == Decode

Spec == Init /\ [][Next]_vars

(* encoding/binary.Uvarint: <<value, bytes read>>, or a negative count on *)
(* overflow, which includes a last byte with bits beyond the word.        *)
Uvarint(buf) ==
  LET RECURSIVE Loop(_, _, _)
      Loop(i, x, s) ==
        LET b == buf[i + 1] IN
        CASE i = MaxVarintLen -> <<0, -(i + 1)>>
          [] b < 128 /\ i = MaxVarintLen - 1 /\ b >= 2 ^ (WordBits - s) -> <<0, -(i + 1)>>
          [] b < 128 -> <<x + b * 2 ^ s, i + 1>>
          [] OTHER -> Loop(i + 1, x + (b % 128) * 2 ^ s, s + 7)
  IN Loop(0, 0, 0)

(* readUvarint, "a fast alternative version of binary.Uvarint", fails     *)
(* where binary.Uvarint fails and otherwise returns the same value and   *)
(* length.                                                                *)
ReadUvarintIsUvarint ==
  answer # <<>> =>
    LET u == Uvarint(data) IN
    IF u[2] < 0 THEN answer[2] = -1 ELSE answer = u
=============================================================================
