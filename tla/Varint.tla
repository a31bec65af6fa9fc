------------------------------- MODULE Varint -------------------------------
(***************************************************************************)
(* The varint codec of qtree.go: appendUvarint (whose multi-byte path is   *)
(* encoding/binary.PutUvarint) and the hand-inlined decoder readUvarint.   *)
(* Bytes are integers in 0..255, values are uint64, and a decoder address  *)
(* is the code's 0-based offset into the byte slice.  The word width is a *)
(* parameter (64 in the code) so that TLC's 32-bit integers can hold it;  *)
(* the decoder gives up after MaxVarintLen bytes, i.e. when its shift     *)
(* reaches 7 * MaxVarintLen (70 for 64 bits).                              *)
(***************************************************************************)
EXTENDS Integers, Sequences

CONSTANT WordBits

ASSUME WordBits \in 8..24

Word == 2^WordBits
MaxVarintLen == (WordBits + 6) \div 7

(* b << s on a uint64: the bits shifted past bit 63 are lost.             *)
Shl(b, s) == (b * 2^s) % Word

(* binary.PutUvarint: 7 low bits per byte, continuation bit on all but    *)
(* the last.                                                               *)
RECURSIVE PutUvarint(_)
PutUvarint(x) ==
  IF x < 128 THEN <<x>> ELSE <<(x % 128) + 128>> \o PutUvarint(x \div 128)

(* appendUvarint: a single byte for x < 0x80, PutUvarint otherwise.      *)
AppendUvarint(dst, x) ==
  IF x < 128 THEN Append(dst, x) ELSE dst \o PutUvarint(x)

(* readUvarint: returns <<value, next address>>, or <<0, -1>> once the    *)
(* shift reaches 70 without a terminating byte.  item + Shl(..) is the    *)
(* code's item | b << s: item only has bits below s.                      *)
RECURSIVE ReadUvarintLoop(_, _, _, _)
ReadUvarintLoop(data, addr, item, s) ==
  LET b == data[addr + 1] IN
  IF b < 128
  THEN <<item + Shl(b, s), addr + 1>>
  ELSE IF s + 7 = 7 * MaxVarintLen
       THEN <<0, -1>>
       ELSE ReadUvarintLoop(data, addr + 1, item + Shl((b % 128), s), s + 7)

(* Mutant: the one-byte fast path also takes 0x80.                       *)
ReadUvarintInclusive(data, addr) ==
  LET item == data[addr + 1] IN
  IF item <= 128
  THEN <<item, addr + 1>>
  ELSE ReadUvarintLoop(data, addr + 1, (item % 128), 7)

ReadUvarint(data, addr) ==
  LET item == data[addr + 1] IN
  IF item < 128
  THEN <<item, addr + 1>>
  ELSE ReadUvarintLoop(data, addr + 1, (item % 128), 7)
=============================================================================
