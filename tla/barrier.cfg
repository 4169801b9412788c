SPECIFICATION FairBarrierSpec
CONSTANTS
  Thread = {t1, t2, t3}
  NoThread = NoThread
  Ops <- BarrierOps
  Parties = 2
  MaxGeneration = 3
CHECK_DEADLOCK FALSE
INVARIANTS GenerationsSound
PROPERTIES Opens SignalEnds
