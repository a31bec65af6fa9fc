---------------------------- MODULE VarintStream ----------------------------
(***************************************************************************)
(* The varint codec as compress and the readers use it: a writer appends  *)
(* uvarints to one byte slice (appendUvarint), a reader walks the same    *)
(* slice from address 0 with readUvarint, each read starting where the    *)
(* previous one ended.                                                     *)
(***************************************************************************)
EXTENDS Integers, Sequences, SequencesExt, Varint

CONSTANTS
  Values,    \* uint64 values the writer may append (below 2^WordBits)
  MaxItems   \* bound on the values written

ASSUME Values \subseteq 0..(Word - 1)

VARIABLES buf, written, raddr, read

vars == <<buf, written, raddr, read>>

Init == buf = <<>> /\ written = <<>> /\ raddr = 0 /\ read = <<>>

Write(x) ==
  /\ Len(written) < MaxItems
  /\ buf' = AppendUvarint(buf, x)
  /\ written' = Append(written, x)
  /\ UNCHANGED <<raddr, read>>

(* The reader only starts a read where bytes remain.                      *)
Read ==
  /\ raddr < Len(buf)
  /\ LET r == ReadUvarint(buf, raddr) IN
     /\ read' = Append(read, r[1])
     /\ raddr' = r[2]
  /\ UNCHANGED <<buf, written>>

Next == (\E x \in Values : Write(x)) \/ Read

Spec == Init /\ [][Next]_vars

(* Spec 8.5 over a stream: every read returns the value written at its    *)
(* position and ends exactly where that value's bytes end, whatever mix   *)
(* of one-byte and multi-byte values came before.                         *)
Encoded(vals) == FoldLeft(AppendUvarint, <<>>, vals)

ReadsWhatWasWritten ==
  /\ read = SubSeq(written, 1, Len(read))
  /\ raddr = Len(Encoded(read))
=============================================================================
