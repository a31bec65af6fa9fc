--------------------------- MODULE PriorityQueue ---------------------------
(***************************************************************************)
(* What the queue of nearest search promises (spec 4.2): a multiset of    *)
(* entries; a pop yields an entry that no other held entry precedes in    *)
(* the order smaller dist, then qrect before qseg, then smaller pos, or   *)
(* nothing when empty.                                                    *)
(***************************************************************************)
EXTENDS Integers, Bags, BagsExt

CONSTANT NoEntry

VARIABLES bag, last

Precedes(a, b) ==
  \/ a.dist < b.dist
  \/ a.dist = b.dist /\ a.kind < b.kind
  \/ a.dist = b.dist /\ a.kind = b.kind /\ a.pos <= b.pos

Init == bag = EmptyBag /\ last = NoEntry

Insert(e) == bag' = BagAdd(bag, e) /\ last' = NoEntry

Remove ==
  \/ /\ bag = EmptyBag
     /\ last' = NoEntry /\ UNCHANGED bag
  \/ \E e \in BagToSet(bag) :
       /\ \A o \in BagToSet(bag) : Precedes(e, o)
       /\ bag' = BagRemove(bag, e)
       /\ last' = e

Next == (\E e \in DOMAIN bag' : Insert(e)) \/ Remove

Spec == Init /\ [][Next]_<<bag, last>>
=============================================================================
