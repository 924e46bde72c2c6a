SPECIFICATION LinksSpec
CONSTANTS
  Satellites = {"a", "b"}
  Stations = {"x", "y"}
  Times = {0, 1, 2, 3, 4, 5}
  Files <- MCFiles
  MaxSent = 2
INVARIANTS
  LinksAreCurrent
PROPERTY
  RemovedStaysRemoved
CHECK_DEADLOCK FALSE
