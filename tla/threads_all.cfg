SPECIFICATION Spec
CONSTANTS
  t1 = t1
  t2 = t2
  t3 = t3
  m1 = m1
  c1 = c1
  c2 = c2
  Thread = {t1, t2}
  Mutex = {m1}
  Closure = {c1}
  NoThread = NoThread
  NoMutex = NoMutex
  NoEvent = NoEvent
  Initial = t1
  Ops = {"create", "yield", "preempt", "self", "stop", "suspend", "block", "allow", "signal", "join", "exit", "escape", "timer"}
CHECK_DEADLOCK FALSE
INVARIANTS RunQueueExact ControlSound NoLostWakeup ExitsClean
