SPECIFICATION Spec
CONSTANTS
  Cell = {c1, c2}
  Pair = {p1, p2}
  WeakPair = {w1}
  Ephemeron = {e1, e2}
  Bucket <- OneBucket
  Hash <- Collide
  Heaps <- SmallHeaps
  SharedKeys = TRUE
INVARIANT Terminates
SYMMETRY Alike
