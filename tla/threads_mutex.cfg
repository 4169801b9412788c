SPECIFICATION Spec
CONSTANTS
  t1 = t1
  t2 = t2
  t3 = t3
  m1 = m1
  c1 = c1
  c2 = c2
  Thread = {t1, t2, t3}
  Mutex = {m1}
  Closure = {c1, c2}
  NoThread = NoThread
  NoMutex = NoMutex
  NoEvent = NoEvent
  Initial = t1
  Ops = {"create", "lock", "signal", "suspend", "timer", "exit", "escape"}
SYMMETRY Symmetry
CHECK_DEADLOCK FALSE
INVARIANTS  SleepersQueued EventsSound 
