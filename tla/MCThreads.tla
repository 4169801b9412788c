----------------------------- MODULE MCThreads -----------------------------
(***************************************************************************)
(* Threads for TLC.  Threads other than the initial one are alike, and so  *)
(* are closures.                                                           *)
(***************************************************************************)
EXTENDS Threads, TLC

CONSTANTS t1, t2, t3, m1, c1, c2

Symmetry == Permutations({t2, t3}) \cup Permutations({c1, c2})

=============================================================================
