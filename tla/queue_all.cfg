SPECIFICATION FairSpec
CONSTANTS
  t1 = t1 t2 = t2 t3 = t3 x1 = x1 x2 = x2 c1 = c1 c2 = c2 c3 = c3
  Thread = {t1, t2}
  Item = {x1, x2}
  Cell = {c1, c2, c3}
  MaxElements = 2
  NoMax = NoMax Nil = Nil False = False NoThread = NoThread Broken = Broken
  Ops = {"queue", "dequeue", "dequeue-until", "peek-until", "push", "empty", "stray"}
INVARIANTS QueueSound NobodyForgotten
PROPERTIES RefinesBoundedQueue TimedReturns
