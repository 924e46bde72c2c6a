SPECIFICATION FairSpec
CONSTANTS
  t1 = t1
  t2 = t2
  t3 = t3
  n1 = n1
  n2 = n2
  Tasks = {t1, t2, t3}
  Nodes = {n1, n2}
  Nothing = Nothing
  NodeOf <- TwoAndOne
  MaxFaults = 1
INVARIANTS
  NoLostWakeup
PROPERTY EveryTaskReturns
CHECK_DEADLOCK FALSE
