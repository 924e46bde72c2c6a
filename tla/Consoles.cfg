SPECIFICATION FairSpec
CONSTANTS
  Nodes = {"n1", "n2"}
  Nothing = Nothing
  MaxWindows = 2
  MaxLoads = 2
  MaxFaults = 2
INVARIANTS
  OneWindowInFront
  MasksEndWithDrags
  ConsolesHearTheirShell
PROPERTY
  ConsolesSettle
CHECK_DEADLOCK FALSE
