------------------------- MODULE MCGarbageCollector -------------------------
(***************************************************************************)
(* Instances of GarbageCollector.  All the keys are in one bucket of the    *)
(* hash table, so that every walk meets entries of other keys.              *)
(***************************************************************************)
EXTENDS GarbageCollector, TLC

OneBucket == {0}
Collide == [o \in Object |-> 0]
SmallHeaps == {[objects |-> Cell \cup Ephemeron, stack |-> 2, registers |-> 1],
               [objects |-> WeakPair \cup Ephemeron, stack |-> 1, registers |-> 1],
               [objects |-> Pair \cup WeakPair, stack |-> 1, registers |-> 1]}
Alike == Permutations(Cell) \cup Permutations(Pair) \cup Permutations(Ephemeron)
=============================================================================
