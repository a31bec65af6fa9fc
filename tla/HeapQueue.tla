----------------------------- MODULE HeapQueue -----------------------------
(***************************************************************************)
(* The queue as a component of its own: any interleaving of queue.push   *)
(* and queue.pop calls on one queue (the one a nearest search takes from  *)
(* the pool), with the entry the last pop returned.                       *)
(***************************************************************************)
EXTENDS PQueue, SequencesExt

CONSTANTS
  Entries,   \* entries that may be pushed
  MaxLen     \* bound on the queue length

VARIABLES heap, popped

vars == <<heap, popped>>

NoEntry == ZeroNode

Init == heap = <<>> /\ popped = NoEntry

PushEntry(e) ==
  /\ Len(heap) < MaxLen
  /\ heap' = Push(heap, e)
  /\ popped' = NoEntry

PopEntry ==
  LET r == Pop(heap) IN
  /\ heap' = r.rest
  /\ popped' = IF r.ok THEN r.node ELSE NoEntry

Next == (\E e \in Entries : PushEntry(e)) \/ PopEntry

Spec == Init /\ [][Next]_vars

(* Every pop returns an entry that precedes, in the order of spec 4.2,    *)
(* every entry still queued, whatever pushes and pops came before: the    *)
(* heap is a priority queue of the multiset of pushed, unpopped entries.  *)
Abstract == INSTANCE PriorityQueue WITH bag <- ToBag(heap), last <- popped

HeapRefinesPriorityQueue == Abstract!Spec
=============================================================================
