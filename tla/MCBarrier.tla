----------------------------- MODULE MCBarrier ------------------------------
(***************************************************************************)
(* Barrier for TLC.                                                        *)
(***************************************************************************)
EXTENDS Barrier, TLC

BarrierOps == {"wait", "broadcast", "stray"}
Quiet == {"wait", "broadcast"}

Symmetry == Permutations(Thread)
=============================================================================
