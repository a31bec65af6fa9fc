------------------------------ MODULE PQueue ------------------------------
(***************************************************************************)
(* The binary min-heap of queue.go.  Entries are records with fields     *)
(* dist, kind (1 = qrect, 2 = qseg) and pos; other fields (the two points *)
(* a, b) ride along and are never compared.  The heap is a sequence whose *)
(* element i + 1 is the code's nodes[i].                                  *)
(***************************************************************************)
EXTENDS Integers, Sequences

QRect == 1
QSeg == 2

(* qnode.cmp: dist, then kind, then pos.                                  *)
Cmp(qn, other) ==
  CASE qn.dist < other.dist -> -1
    [] qn.dist > other.dist -> 1
    [] qn.kind < other.kind -> -1
    [] qn.kind > other.kind -> 1
    [] qn.pos < other.pos -> -1
    [] qn.pos > other.pos -> 1
    [] OTHER -> 0

At(h, i) == h[i + 1]

Swap(h, i, j) == [h EXCEPT ![i + 1] = h[j + 1], ![j + 1] = h[i + 1]]

Parent(i) == (i - 1) \div 2

(* queue.push: append, then swap with the parent while it is greater.    *)
RECURSIVE SiftUp(_, _)
SiftUp(h, i) ==
  IF i # 0 /\ Cmp(At(h, Parent(i)), At(h, i)) > 0
  THEN SiftUp(Swap(h, Parent(i), i), Parent(i))
  ELSE h

Push(h, node) == SiftUp(Append(h, node), Len(h))

(* queue.pop: the last element replaces the root, which then swaps with   *)
(* the smaller (or equal) child while one is smaller or equal.            *)
RECURSIVE SiftDown(_, _)

(* Mutant: the right child is never compared.                           *)
SiftDownLeftOnly(h, i) ==
  LET left == i * 2 + 1
      smallest == IF left < Len(h) /\ Cmp(At(h, left), At(h, i)) <= 0 THEN left ELSE i
  IN IF smallest = i THEN h ELSE SiftDown(Swap(h, smallest, i), smallest)

SiftDown(h, i) ==
  LET left == i * 2 + 1
      right == i * 2 + 2
      s1 == IF left < Len(h) /\ Cmp(At(h, left), At(h, i)) <= 0 THEN left ELSE i
      smallest == IF right < Len(h) /\ Cmp(At(h, right), At(h, s1)) <= 0
                  THEN right ELSE s1
  IN IF smallest = i THEN h ELSE SiftDown(Swap(h, smallest, i), smallest)

(* qnode{}: the zero entry returned by a pop of an empty queue.          *)
ZeroNode == [dist |-> 0, kind |-> 0, pos |-> 0]

(* Returns [node, rest, ok]; ok is FALSE on an empty queue.               *)
Pop(h) ==
  IF Len(h) = 0 THEN [node |-> ZeroNode, rest |-> h, ok |-> FALSE]
  ELSE [node |-> h[1],
        rest |-> SiftDown(SubSeq([h EXCEPT ![1] = h[Len(h)]], 1, Len(h) - 1), 0),
        ok |-> TRUE]
=============================================================================
