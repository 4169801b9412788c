----------------------------- MODULE MCCondvar ------------------------------
(***************************************************************************)
(* Condvar for TLC: the sets of operations of its runs.                    *)
(***************************************************************************)
EXTENDS Condvar, TLC

EveryOp == AllOps
Untimed == {"wait", "signal", "broadcast"}
WithTimeout == {"wait", "timeout", "signal"}

Symmetry == Permutations(Thread)
=============================================================================
