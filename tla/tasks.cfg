SPECIFICATION FairSpec
CONSTANTS
  r = r a = a b = b
  NoTask = NoTask
  Root = r
  Task = {r, a, b}
  Ops <- MCOps
CHECK_DEADLOCK FALSE
INVARIANTS GroupSound NoLostWakeups CancellationReaches 
PROPERTIES WaitsEnd
