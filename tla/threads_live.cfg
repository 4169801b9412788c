SPECIFICATION FairSpec
CONSTANTS
  t1 = t1
  t2 = t2
  t3 = t3
  m1 = m1
  c1 = c1
  c2 = c2
  Thread = {t1, t2, t3}
  Mutex = {m1}
  Closure = {c1}
  NoThread = NoThread
  NoMutex = NoMutex
  NoEvent = NoEvent
  Initial = t1
  Ops = {"create", "lock", "signal", "exit"}
PROPERTIES
  LockGranted
  EventDelivered
CHECK_DEADLOCK FALSE
