SPECIFICATION Spec
CONSTANTS
  Filters = {"icmp"}
  SafeFilterName <- MCSafeFilterName
  MaxPackets = 3
  MaxBatches = 1
  MaxSeconds = 0
  MaxFaults = 1
INVARIANT SameStem
CHECK_DEADLOCK FALSE
