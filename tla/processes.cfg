SPECIFICATION FairSpec
CONSTANTS
  Child = {c1, c2}
  Thread = {t1, t2}
  Waiter = {t1}
  None = None
  TableSize = 2
  JobControl = {c1}
  Makes = {"batch", "foreground"}
  Recycled = FALSE
INVARIANTS TableSound Restored SignalsOwn SleepsInformed
PROPERTIES DeadStayDead WaitReturns
