--------------------------- MODULE MCThreadQueue ----------------------------
(* Instances of ThreadQueue for TLC.                                       *)
EXTENDS ThreadQueue, TLC

CONSTANTS t1, t2, t3, x1, x2, c1, c2, c3

QueueSymmetry == Permutations(Thread) \cup Permutations(Item)
=============================================================================
